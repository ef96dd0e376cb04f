----------------------------- MODULE MCOnboard -----------------------------
(* Instances of Onboard: two services, two forks, the deployer and one      *)
(* identity that mirrors it.                                                *)
EXTENDS Onboard, TLC

CONSTANTS s, t, r1, r2, deployer, member, p, q

Order == <<s, t>>
TwoIdentities == <<deployer, member>>

\* s follows r1 alone; then t takes over r1, unfollowed, and s moves to r2.
Single == <<[service |-> s, repo |-> r1, follows |-> TRUE]>>
Swapped == <<[service |-> t, repo |-> r1, follows |-> FALSE],
             [service |-> s, repo |-> r2, follows |-> TRUE]>>
SingleThenSwapped == {Single, Swapped}
NoDeclarations == {}
ForkSymmetry == Permutations({r1, r2})
=============================================================================
