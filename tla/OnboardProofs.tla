---------------------------- MODULE OnboardProofs ----------------------------
(***************************************************************************)
(* What the calls of Onboard keep to, for every set of services,           *)
(* repositories, identities and processes.                                 *)
(*                                                                         *)
(* A plan is known by the set of its steps and by which step may follow    *)
(* which (MayFollow). A set of steps leads from the credentials and tags   *)
(* of the moment to credentials R and tags G, and what is left of a plan   *)
(* leads to the same R and G after each of its steps. First, the plans     *)
(* that TrustPlan computes are of this kind, the folds of a reconciliation *)
(* by what one identity and one fork add; then every step of every actor   *)
(* keeps them so; the properties of Onboard follow.                        *)
(***************************************************************************)
EXTENDS Onboard, FiniteSetTheorems, SequenceTheorems, WellFoundedInduction, TLAPS

---------------------------------------------------------------------------
(* Folds and sequences.                                                    *)

\* Induction on the naturals up to a bound, in terms of a set.
LEMMA UpTo ==
  ASSUME NEW n \in Nat, NEW S, 0 \in S, \A k \in 0..n - 1 : k \in S => k + 1 \in S
  PROVE  \A k \in 0..n : k \in S
<1> DEFINE T == {k \in 0..n : k \notin S}
<1>1. SUFFICES ASSUME T # {} PROVE FALSE
  OBVIOUS
<1>2. T \subseteq Nat
  OBVIOUS
<1>3. PICK t \in T : \A u \in T : ~(<<u, t>> \in OpToRel(<, Nat))
  BY <1>1, <1>2, NatLessThanWellFounded, WFMin
<1>4. \A u \in T : ~(u < t)
  BY <1>2, <1>3 DEF OpToRel
<1>5. t # 0
  OBVIOUS
<1>6. t - 1 \notin T /\ t - 1 \in 0..n - 1
  BY <1>4, <1>5
<1> QED BY <1>6

\* What a set of positions has last.
LEMMA LastPosition ==
  ASSUME NEW n \in Nat, NEW s \in SUBSET (1..n), s # {}
  PROVE  Max(s) \in s /\ \A y \in s : Max(s) >= y
<1> DEFINE T == {n - x : x \in s}
<1>1. T \subseteq Nat /\ T # {}
  <2>1. \A x \in s : n - x \in Nat
    OBVIOUS
  <2> QED BY <2>1
<1>2. PICK t \in T : \A u \in T : ~(<<u, t>> \in OpToRel(<, Nat))
  BY <1>1, NatLessThanWellFounded, WFMin
<1>3. \A u \in T : ~(u < t)
  BY <1>1, <1>2 DEF OpToRel
<1>4. PICK x \in s : t = n - x
  OBVIOUS
<1>5. \A y \in s : x >= y
  <2> SUFFICES ASSUME NEW y \in s PROVE x >= y
    OBVIOUS
  <2>1. ~(n - y < n - x)
    BY <1>3, <1>4
  <2> QED BY <2>1
<1> QED BY <1>5 DEF Max

\* The last of some of the first m + 1 positions, and what is left without it.
LEMMA LastOfFirst ==
  ASSUME NEW m \in Nat, NEW s \in SUBSET (1..m + 1)
  PROVE  /\ m + 1 \in s => Max(s) = m + 1 /\ s \ {Max(s)} \in SUBSET (1..m)
         /\ m + 1 \notin s => s \in SUBSET (1..m)
<1>1. ASSUME m + 1 \in s PROVE Max(s) = m + 1
  <2> DEFINE n == m + 1
  <2>1. n \in Nat /\ s \in SUBSET (1..n) /\ s # {}
    BY <1>1
  <2> HIDE DEF n
  <2>2. Max(s) \in s /\ \A y \in s : Max(s) >= y
    BY <2>1, LastPosition
  <2>3. Max(s) \in 1..m + 1 /\ Max(s) >= m + 1
    BY <1>1, <2>2
  <2> QED BY <2>3
<1>2. ASSUME m + 1 \in s PROVE s \ {m + 1} \in SUBSET (1..m)
  OBVIOUS
<1>3. ASSUME m + 1 \notin s PROVE s \in SUBSET (1..m)
  <2>1. \A x \in s : x \in 1..m + 1 /\ x # m + 1
    BY <1>3
  <2> QED BY <2>1
<1> QED BY <1>1, <1>2, <1>3

\* What MapThenFoldSet computes over 1..n, the last position first, with the
\* binary operator as a function G on P.
Folder(P, n, G) == G \in [P \X (1..n) -> P]

\* `iter` folds every set of positions with G, starting from b.
FoldedBy(P, b, n, G, iter) ==
  /\ iter \in [SUBSET (1..n) -> P]
  /\ \A s \in SUBSET (1..n) : iter[s] = IF s = {} THEN b ELSE G[<<iter[s \ {Max(s)}], Max(s)>>]

\* The function by which MapThenFoldSet folds exists.
LEMMA FoldExists ==
  ASSUME NEW P, NEW b \in P, NEW n \in Nat, NEW G, Folder(P, n, G)
  PROVE  \E iter : FoldedBy(P, b, n, G, iter)
<1>0. G \in [P \X (1..n) -> P]
  BY DEF Folder
<1> DEFINE IsFold(m, iter) ==
             \A s \in SUBSET (1..m) : iter[s] = IF s = {} THEN b ELSE G[<<iter[s \ {Max(s)}], Max(s)>>]
           S == {m \in 0..n : \E iter \in [SUBSET (1..m) -> P] : IsFold(m, iter)}
<1>1. 0 \in S
  <2> DEFINE none == 0
             iter == [s \in SUBSET (1..none) |-> b]
  <2>1. \A s \in SUBSET (1..none) : s = {}
    OBVIOUS
  <2>2. iter \in [SUBSET (1..none) -> P] /\ IsFold(none, iter)
    BY <2>1
  <2>3. none \in 0..n /\ none = 0
    OBVIOUS
  <2> HIDE DEF none, iter, IsFold
  <2>4. none \in S
    BY <2>2, <2>3
  <2> QED BY <2>3, <2>4
<1>2. ASSUME NEW m \in 0..n - 1, m \in S PROVE m + 1 \in S
  <2>1. PICK iter \in [SUBSET (1..m) -> P] : IsFold(m, iter)
    BY <1>2
  <2> DEFINE next == [s \in SUBSET (1..m + 1) |-> IF m + 1 \in s THEN G[<<iter[s \ {m + 1}], m + 1>>] ELSE iter[s]]
  <2>2. m \in Nat /\ m + 1 \in 1..n
    OBVIOUS
  <2>3. ASSUME NEW s \in SUBSET (1..m + 1)
        PROVE  /\ next[s] \in P
               /\ next[s] = IF s = {} THEN b ELSE G[<<next[s \ {Max(s)}], Max(s)>>]
    <3>1. CASE m + 1 \in s
      <4>1. Max(s) = m + 1 /\ s \ {m + 1} \in SUBSET (1..m) /\ s \ {m + 1} \in SUBSET (1..m + 1)
        BY <2>2, <3>1, LastOfFirst
      <4>2. next[s \ {m + 1}] = iter[s \ {m + 1}]
        BY <4>1
      <4>3. next[s] = G[<<iter[s \ {m + 1}], m + 1>>] /\ iter[s \ {m + 1}] \in P
        BY <3>1, <4>1
      <4> HIDE DEF next
      <4>4. next[s] \in P
        BY <1>0, <2>2, <4>3
      <4> QED BY <3>1, <4>1, <4>2, <4>3, <4>4
    <3>2. CASE m + 1 \notin s
      <4>1. s \in SUBSET (1..m)
        BY <2>2, <3>2, LastOfFirst
      <4>2. next[s] = iter[s] /\ next[s] \in P
        BY <3>2, <4>1
      <4>3. CASE s = {}
        BY <2>1, <4>1, <4>2, <4>3
      <4>4. CASE s # {}
        <5>1. Max(s) \in s
          BY <2>2, <4>1, <4>4, LastPosition
        <5>2. s \ {Max(s)} \in SUBSET (1..m) /\ s \ {Max(s)} \in SUBSET (1..m + 1) /\ m + 1 \notin s \ {Max(s)}
          BY <3>2, <4>1
        <5>3. next[s \ {Max(s)}] = iter[s \ {Max(s)}]
          BY <5>2
        <5>4. iter[s] = G[<<iter[s \ {Max(s)}], Max(s)>>]
          BY <2>1, <4>1, <4>4
        <5> HIDE DEF next
        <5> QED BY <4>2, <4>4, <5>3, <5>4
      <4> QED BY <4>3, <4>4
    <3> QED BY <3>1, <3>2
  <2>4. next \in [SUBSET (1..m + 1) -> P]
    BY <2>3
  <2>5. IsFold(m + 1, next)
    <3> HIDE DEF next
    <3> QED BY <2>3
  <2> HIDE DEF next, IsFold
  <2> QED BY <2>2, <2>4, <2>5
<1>3. n \in S
  <2> HIDE DEF S
  <2> QED BY <1>1, <1>2, UpTo
<1> QED BY <1>3 DEF FoldedBy

\* The positions up to k, as MapThenFoldSet takes them apart.
LEMMA Segments ==
  ASSUME NEW n \in Nat, NEW k \in 1..n
  PROVE  /\ 1..k \in SUBSET (1..n) /\ 1..k # {}
         /\ Max(1..k) = k /\ (1..k) \ {k} = 1..k - 1
<1> DEFINE s == 1..k
<1>1. s \in SUBSET (1..n) /\ k \in s
  OBVIOUS
<1>2. Max(s) \in s /\ Max(s) >= k
  <2> HIDE DEF s
  <2> QED BY <1>1, LastPosition
<1>3. (1..k) \ {k} = 1..k - 1
  OBVIOUS
<1> QED BY <1>1, <1>2, <1>3

---------------------------------------------------------------------------
(* Sequences as sets of their entries.                                     *)

\* The elements of a sequence, by its positions.
LEMMA SeqSet ==
  ASSUME NEW S, NEW s \in Seq(S)
  PROVE  /\ Len(s) \in Nat /\ DOMAIN s = 1..Len(s)
         /\ ToSet(s) = {s[i] : i \in 1..Len(s)} /\ ToSet(s) \subseteq S
         /\ s = <<>> <=> ToSet(s) = {}
<1>1. Len(s) \in Nat /\ DOMAIN s = 1..Len(s) /\ \A i \in 1..Len(s) : s[i] \in S
  BY LenProperties, ElementOfSeq
<1>2. s # <<>> => 1 \in 1..Len(s)
  BY <1>1, EmptySeq
<1>3. s = <<>> => Len(s) = 0
  OBVIOUS
<1>4. ToSet(s) = {s[i] : i \in 1..Len(s)}
  BY <1>1 DEF ToSet
<1>5. ToSet(s) \subseteq S
  BY <1>1, <1>4
<1>6. s # <<>> => ToSet(s) # {}
  BY <1>2, <1>4
<1>7. s = <<>> => ToSet(s) = {}
  <2> HAVE s = <<>>
  <2>1. 1..Len(s) = {}
    BY <1>3
  <2> QED BY <1>4, <2>1
<1> QED BY <1>1, <1>4, <1>5, <1>6, <1>7

\* The elements of two sequences, one after the other.
LEMMA ConcatSet ==
  ASSUME NEW S, NEW s \in Seq(S), NEW t \in Seq(S)
  PROVE  s \o t \in Seq(S) /\ ToSet(s \o t) = ToSet(s) \cup ToSet(t)
<1>1. /\ s \o t \in Seq(S) /\ Len(s \o t) = Len(s) + Len(t)
      /\ \A i \in 1..Len(s) + Len(t) : (s \o t)[i] = IF i <= Len(s) THEN s[i] ELSE t[i - Len(s)]
  BY ConcatProperties
<1> DEFINE st == s \o t
<1>2. st \in Seq(S) /\ Len(st) = Len(s) + Len(t) /\ Len(s) \in Nat /\ Len(t) \in Nat
      /\ \A i \in 1..Len(s) + Len(t) : st[i] = IF i <= Len(s) THEN s[i] ELSE t[i - Len(s)]
  BY <1>1, SeqSet
<1> HIDE DEF st
<1>3. /\ ToSet(s) = {s[i] : i \in 1..Len(s)} /\ ToSet(t) = {t[i] : i \in 1..Len(t)}
      /\ ToSet(st) = {st[i] : i \in 1..Len(st)}
  BY <1>2, SeqSet
<1>4. \A i \in 1..Len(s) : i \in 1..Len(st) /\ st[i] = s[i]
  BY <1>2
<1>5. \A i \in 1..Len(t) : i + Len(s) \in 1..Len(st) /\ st[i + Len(s)] = t[i]
  <2> SUFFICES ASSUME NEW i \in 1..Len(t) PROVE i + Len(s) \in 1..Len(st) /\ st[i + Len(s)] = t[i]
    OBVIOUS
  <2>1. i + Len(s) \in 1..Len(s) + Len(t) /\ ~(i + Len(s) <= Len(s)) /\ (i + Len(s)) - Len(s) = i
    BY <1>2
  <2> QED BY <1>2, <2>1
<1>6. \A i \in 1..Len(st) : st[i] \in ToSet(s) \cup ToSet(t)
  <2> SUFFICES ASSUME NEW i \in 1..Len(st) PROVE st[i] \in ToSet(s) \cup ToSet(t)
    OBVIOUS
  <2>1. CASE i <= Len(s)
    BY <1>2, <1>3, <2>1
  <2>2. CASE ~(i <= Len(s))
    <3>1. i - Len(s) \in 1..Len(t) /\ st[i] = t[i - Len(s)]
      BY <1>2, <2>2
    <3> QED BY <1>3, <3>1
  <2> QED BY <2>1, <2>2
<1>7. ToSet(s) \subseteq ToSet(st) /\ ToSet(t) \subseteq ToSet(st)
  BY <1>3, <1>4, <1>5
<1>8. ToSet(st) = ToSet(s) \cup ToSet(t)
  BY <1>3, <1>6, <1>7
<1> QED BY <1>2, <1>8 DEF st

\* The element of a sequence of one.
LEMMA OneSet ==
  ASSUME NEW S, NEW x \in S
  PROVE  <<x>> \in Seq(S) /\ ToSet(<<x>>) = {x} /\ Len(<<x>>) = 1 /\ <<x>>[1] = x
<1>1. <<x>> \in Seq(S) /\ Len(<<x>>) = 1 /\ <<x>>[1] = x
  OBVIOUS
<1> DEFINE s == <<x>>
<1>2. s \in Seq(S) /\ Len(s) = 1 /\ s[1] = x
  BY <1>1
<1> HIDE DEF s
<1>3. ToSet(s) = {s[i] : i \in 1..1}
  BY <1>2, SeqSet
<1>4. \A i \in 1..1 : i = 1
  OBVIOUS
<1>5. ToSet(s) = {x}
  BY <1>2, <1>3, <1>4
<1> QED BY <1>1, <1>5 DEF s

\* The empty sequence has no element.
LEMMA EmptySet ==
  ASSUME NEW S
  PROVE  <<>> \in Seq(S) /\ ToSet(<<>>) = {}
BY SeqSet, EmptySeq

\* The elements of a sequence and one more.
LEMMA AppendSet ==
  ASSUME NEW S, NEW s \in Seq(S), NEW x \in S
  PROVE  Append(s, x) \in Seq(S) /\ ToSet(Append(s, x)) = ToSet(s) \cup {x}
<1>1. Append(s, x) = s \o <<x>>
  BY AppendIsConcat
<1>2. <<x>> \in Seq(S) /\ ToSet(<<x>>) = {x}
  BY OneSet
<1>3. s \o <<x>> \in Seq(S) /\ ToSet(s \o <<x>>) = ToSet(s) \cup ToSet(<<x>>)
  BY <1>2, ConcatSet
<1> QED BY <1>1, <1>2, <1>3

\* A sequence is its head and the elements of its tail.
LEMMA TailSet ==
  ASSUME NEW S, NEW s \in Seq(S), s # <<>>
  PROVE  /\ Head(s) \in S /\ Tail(s) \in Seq(S) /\ Head(s) = s[1]
         /\ Len(Tail(s)) = Len(s) - 1 /\ \A i \in 1..Len(s) - 1 : Tail(s)[i] = s[i + 1]
         /\ ToSet(s) = {Head(s)} \cup ToSet(Tail(s))
<1>1. /\ Head(s) \in S /\ Tail(s) \in Seq(S) /\ Len(Tail(s)) = Len(s) - 1
      /\ \A i \in 1..Len(Tail(s)) : Tail(s)[i] = s[i + 1]
  BY HeadTailProperties
<1>2. Head(s) = s[1]
  OBVIOUS
<1> DEFINE t == Tail(s)
<1>3. t \in Seq(S) /\ Len(t) = Len(s) - 1 /\ \A i \in 1..Len(t) : t[i] = s[i + 1]
  BY <1>1
<1> HIDE DEF t
<1>4. Len(s) \in Nat /\ Len(t) \in Nat /\ ToSet(s) = {s[i] : i \in 1..Len(s)} /\ ToSet(t) = {t[i] : i \in 1..Len(t)}
  BY <1>3, SeqSet
<1>5. \A i \in 1..Len(s) : i = 1 \/ (i - 1 \in 1..Len(t) /\ s[i] = t[i - 1])
  BY <1>3, <1>4
<1>6. \A i \in 1..Len(t) : i + 1 \in 1..Len(s) /\ s[i + 1] = t[i]
  BY <1>3, <1>4
<1>7. 1 \in 1..Len(s)
  BY <1>3, <1>4
<1>8. ToSet(s) \subseteq {s[1]} \cup ToSet(t)
  BY <1>4, <1>5
<1>9. {s[1]} \cup ToSet(t) \subseteq ToSet(s)
  BY <1>4, <1>6, <1>7
<1> QED BY <1>1, <1>2, <1>8, <1>9 DEF t

---------------------------------------------------------------------------
(* The order of a plan.                                                    *)

\* A service whose trust a call restores rather than takes away.
Keeps(q, s) == q.op \in {"reconcile", "up"} /\ q.forks # None /\ Declares(q.forks, s)

\* What may come, sooner or later, after a step a: nothing that undoes it,
\* nothing it should have known.
MayFollow(q, a, b) ==
  /\ b.do # "open"
  /\ a.do = "trust" => b.do \notin {"check", "revoke"} /\ ~(b.do = "trust" /\ b.id = a.id /\ b.service = a.service)
  /\ a.do \in {"project roster", "sync roster", "raise"} => b.do \notin {"trust", "revoke"}
  /\ a.do \in {"project sources", "sync sources", "raise"} => b.do # "tag"
  /\ a.do = "tag" /\ b.do = "tag" => b.service # a.service
  /\ a.do = "revoke" /\ b.do = "tag" => Keeps(q, a.service) \/ b.service # a.service

\* A plan whose every two steps may come in their order.
Ordered(q, todo) == \A k, l \in DOMAIN todo : k < l => MayFollow(q, todo[k], todo[l])

\* Two plans in order, each step of the second allowed after the first.
LEMMA ConcatOrdered ==
  ASSUME NEW q, NEW S, NEW s \in Seq(S), NEW t \in Seq(S), Ordered(q, s), Ordered(q, t),
         \A x \in ToSet(s), y \in ToSet(t) : MayFollow(q, x, y)
  PROVE  Ordered(q, s \o t)
<1> DEFINE st == s \o t
<1>1. /\ st \in Seq(S) /\ Len(st) = Len(s) + Len(t) /\ Len(s) \in Nat /\ Len(t) \in Nat
      /\ \A i \in 1..Len(s) + Len(t) : st[i] = IF i <= Len(s) THEN s[i] ELSE t[i - Len(s)]
  BY ConcatProperties, SeqSet
<1> HIDE DEF st
<1>2. DOMAIN st = 1..Len(st) /\ DOMAIN s = 1..Len(s) /\ DOMAIN t = 1..Len(t)
  BY <1>1, SeqSet
<1>3. SUFFICES ASSUME NEW k \in 1..Len(st), NEW l \in 1..Len(st), k < l
               PROVE  MayFollow(q, st[k], st[l])
  BY <1>2 DEF Ordered, st
<1>4. CASE l <= Len(s)
  <2>1. k \in 1..Len(s) /\ l \in 1..Len(s) /\ st[k] = s[k] /\ st[l] = s[l]
    BY <1>1, <1>3, <1>4
  <2> QED BY <1>2, <1>3, <2>1 DEF Ordered
<1>5. CASE ~(k <= Len(s))
  <2>1. k - Len(s) \in 1..Len(t) /\ l - Len(s) \in 1..Len(t) /\ k - Len(s) < l - Len(s)
        /\ st[k] = t[k - Len(s)] /\ st[l] = t[l - Len(s)]
    BY <1>1, <1>3, <1>5
  <2> QED BY <1>2, <2>1 DEF Ordered
<1>6. CASE k <= Len(s) /\ ~(l <= Len(s))
  <2>1. k \in 1..Len(s) /\ l - Len(s) \in 1..Len(t) /\ st[k] = s[k] /\ st[l] = t[l - Len(s)]
    BY <1>1, <1>6
  <2>2. s[k] \in ToSet(s) /\ t[l - Len(s)] \in ToSet(t)
    BY <2>1, SeqSet
  <2> QED BY <2>1, <2>2
<1> QED BY <1>1, <1>4, <1>5, <1>6

\* A plan of at most one step is in order.
LEMMA ShortOrdered ==
  ASSUME NEW q, NEW x
  PROVE  Ordered(q, <<>>) /\ Ordered(q, <<x>>)
<1>1. \A k, l \in DOMAIN <<x>> : ~(k < l)
  OBVIOUS
<1> QED BY <1>1 DEF Ordered

\* What is left of a plan is in order, and allowed after its first step.
LEMMA TailOrdered ==
  ASSUME NEW q, NEW S, NEW s \in Seq(S), s # <<>>, Ordered(q, s)
  PROVE  Ordered(q, Tail(s)) /\ \A x \in ToSet(Tail(s)) : MayFollow(q, Head(s), x)
<1> DEFINE t == Tail(s)
<1>1. t \in Seq(S) /\ Head(s) = s[1] /\ Len(t) = Len(s) - 1 /\ \A i \in 1..Len(s) - 1 : t[i] = s[i + 1]
  BY TailSet
<1> HIDE DEF t
<1>2. /\ DOMAIN s = 1..Len(s) /\ DOMAIN t = 1..Len(t) /\ Len(s) \in Nat /\ Len(t) \in Nat
      /\ ToSet(t) = {t[i] : i \in 1..Len(t)}
  BY <1>1, SeqSet
<1>3. ASSUME NEW k \in 1..Len(t), NEW l \in 1..Len(t), k < l PROVE MayFollow(q, t[k], t[l])
  <2>1. k + 1 \in 1..Len(s) /\ l + 1 \in 1..Len(s) /\ k + 1 < l + 1 /\ t[k] = s[k + 1] /\ t[l] = s[l + 1]
    BY <1>1, <1>2, <1>3
  <2> QED BY <1>2, <2>1 DEF Ordered
<1>4. ASSUME NEW k \in 1..Len(t) PROVE MayFollow(q, s[1], t[k])
  <2>1. 1 \in 1..Len(s) /\ k + 1 \in 1..Len(s) /\ 1 < k + 1 /\ t[k] = s[k + 1]
    BY <1>1, <1>2
  <2> QED BY <1>2, <2>1 DEF Ordered
<1>5. Ordered(q, t)
  BY <1>2, <1>3 DEF Ordered
<1>6. \A x \in ToSet(t) : MayFollow(q, Head(s), x)
  BY <1>1, <1>2, <1>4
<1> QED BY <1>5, <1>6 DEF t

---------------------------------------------------------------------------
(* A list of lists.                                                        *)

\* A sequence of sequences, one after another.
LEMMA FlattenedSet ==
  ASSUME NEW S, NEW seqs \in Seq(Seq(S))
  PROVE  FlattenSeq(seqs) \in Seq(S) /\ ToSet(FlattenSeq(seqs)) = UNION {ToSet(seqs[i]) : i \in 1..Len(seqs)}
<1> DEFINE n == Len(seqs)
           IsFlat(m, f) == \A i \in 1..m : /\ f[i] = IF i = 1 THEN seqs[i] ELSE f[i - 1] \o seqs[i]
                                           /\ f[i] \in Seq(S)
                                           /\ ToSet(f[i]) = UNION {ToSet(seqs[j]) : j \in 1..i}
           T == {m \in 0..n : \E f : DOMAIN f = 1..m /\ f = [i \in DOMAIN f |-> f[i]] /\ IsFlat(m, f)}
<1>1. n \in Nat /\ \A i \in 1..n : seqs[i] \in Seq(S)
  BY LenProperties, ElementOfSeq
<1>2. 0 \in T
  <2> DEFINE none == 0
             f == [i \in 1..none |-> seqs[i]]
  <2>1. DOMAIN f = 1..none /\ f = [i \in DOMAIN f |-> f[i]] /\ \A i \in 1..none : FALSE
    OBVIOUS
  <2>2. IsFlat(none, f)
    BY <2>1
  <2>3. none \in 0..n /\ none = 0
    BY <1>1
  <2> HIDE DEF none, f, IsFlat, n
  <2>4. none \in T
    BY <2>1, <2>2, <2>3
  <2> QED BY <2>3, <2>4
<1>3. ASSUME NEW m \in 0..n - 1, m \in T PROVE m + 1 \in T
  <2>1. PICK f : DOMAIN f = 1..m /\ f = [i \in DOMAIN f |-> f[i]] /\ IsFlat(m, f)
    BY <1>3
  <2> DEFINE last == IF m = 0 THEN seqs[1] ELSE f[m] \o seqs[m + 1]
             next == [i \in 1..m + 1 |-> IF i = m + 1 THEN last ELSE f[i]]
  <2>2. m \in Nat /\ m + 1 \in 1..n
    BY <1>1
  <2>3. DOMAIN next = 1..m + 1 /\ next = [i \in DOMAIN next |-> next[i]]
    OBVIOUS
  <2>4. \A i \in 1..m : i \in 1..m + 1 /\ i # m + 1 /\ next[i] = f[i]
    BY <2>2
  <2>5. next[m + 1] = last
    BY <2>2
  <2>6. last = IF m + 1 = 1 THEN seqs[m + 1] ELSE next[m] \o seqs[m + 1]
    <3>1. m # 0 => m \in 1..m
      BY <2>2
    <3> HIDE DEF next
    <3> QED BY <2>2, <2>4, <3>1
  <2>7. /\ last \in Seq(S)
        /\ ToSet(last) = UNION {ToSet(seqs[j]) : j \in 1..m + 1}
    <3>1. CASE m = 0
      <4>1. \A j \in 1..m + 1 : j = 1
        BY <3>1
      <4>2. 1 \in 1..m + 1
        BY <3>1
      <4> QED BY <1>1, <2>2, <3>1, <4>1, <4>2
    <3>2. CASE m # 0
      <4>1. m \in 1..m
        BY <2>2, <3>2
      <4>2. f[m] \in Seq(S) /\ ToSet(f[m]) = UNION {ToSet(seqs[j]) : j \in 1..m}
        BY <2>1, <4>1
      <4>3. f[m] \o seqs[m + 1] \in Seq(S) /\ ToSet(f[m] \o seqs[m + 1]) = ToSet(f[m]) \cup ToSet(seqs[m + 1])
        BY <1>1, <2>2, <4>2, ConcatSet
      <4>4. \A j \in 1..m + 1 : j \in 1..m \/ j = m + 1
        BY <2>2
      <4>5. \A j \in 1..m : j \in 1..m + 1
        BY <2>2
      <4>6. m + 1 \in 1..m + 1
        BY <2>2
      <4> HIDE DEF IsFlat
      <4> QED BY <3>2, <4>2, <4>3, <4>4, <4>5, <4>6
    <3> QED BY <3>1, <3>2
  <2>8. IsFlat(m + 1, next)
    <3> SUFFICES ASSUME NEW i \in 1..m + 1
                 PROVE  /\ next[i] = IF i = 1 THEN seqs[i] ELSE next[i - 1] \o seqs[i]
                        /\ next[i] \in Seq(S)
                        /\ ToSet(next[i]) = UNION {ToSet(seqs[j]) : j \in 1..i}
      OBVIOUS
    <3> HIDE DEF next, last
    <3>1. CASE i = m + 1
      <4>1. i - 1 = m
        BY <2>2, <3>1
      <4> QED BY <2>2, <2>5, <2>6, <2>7, <3>1, <4>1
    <3>2. CASE i # m + 1
      <4>1. i \in 1..m /\ (i = 1 \/ i - 1 \in 1..m)
        BY <2>2, <3>2
      <4>2. next[i] = f[i] /\ (i # 1 => next[i - 1] = f[i - 1])
        BY <2>4, <4>1
      <4>3. /\ f[i] = IF i = 1 THEN seqs[i] ELSE f[i - 1] \o seqs[i]
            /\ f[i] \in Seq(S)
            /\ ToSet(f[i]) = UNION {ToSet(seqs[j]) : j \in 1..i}
        BY <2>1, <4>1
      <4> QED BY <4>2, <4>3
    <3> QED BY <3>1, <3>2
  <2> HIDE DEF next, IsFlat
  <2> QED BY <2>2, <2>3, <2>8
<1>4. n \in T
  <2>1. n \in Nat /\ \A k \in 0..n - 1 : k \in T => k + 1 \in T
    BY <1>1, <1>3
  <2> HIDE DEF T, n
  <2>2. \A k \in 0..n : k \in T
    BY <1>2, <2>1, UpTo
  <2> QED BY <2>1, <2>2
<1>5. CASE n = 0
  <2>1. FlattenSeq(seqs) = seqs /\ seqs = <<>>
    BY <1>5, SeqSet, EmptySeq DEF FlattenSeq
  <2>2. {ToSet(seqs[i]) : i \in 1..n} = {}
    BY <1>5
  <2> QED BY <2>1, <2>2, EmptySet
<1>6. CASE n # 0
  <2> DEFINE Is(f) == f = [i \in 1..n |-> IF i = 1 THEN seqs[i] ELSE f[i - 1] \o seqs[i]]
  <2>1. PICK f : DOMAIN f = 1..n /\ f = [i \in DOMAIN f |-> f[i]] /\ IsFlat(n, f)
    BY <1>4
  <2>2. Is(f)
    <3>1. \A i \in 1..n : f[i] = IF i = 1 THEN seqs[i] ELSE f[i - 1] \o seqs[i]
      BY <2>1
    <3> HIDE DEF IsFlat
    <3> QED BY <2>1, <3>1
  <2> DEFINE flat == CHOOSE g : Is(g)
  <2>3. Is(flat)
    <3> HIDE DEF Is
    <3> QED BY <2>2
  <2>4. FlattenSeq(seqs) = flat[n]
    BY <1>6 DEF FlattenSeq
  <2>5. \A i \in 1..n : flat[i] = IF i = 1 THEN seqs[i] ELSE flat[i - 1] \o seqs[i]
    <3> HIDE DEF flat
    <3> QED BY <2>3
  <2> DEFINE E == {k \in 0..n : k # 0 => flat[k] = f[k]}
  <2> HIDE DEF flat
  <2>6. 0 \in E
    BY <1>1
  <2>7. ASSUME NEW k \in 0..n - 1, k \in E PROVE k + 1 \in E
    <3>1. k + 1 \in 1..n /\ (k + 1 = 1 <=> k = 0) /\ (k + 1) - 1 = k
      BY <1>1
    <3>2. flat[k + 1] = IF k + 1 = 1 THEN seqs[k + 1] ELSE flat[(k + 1) - 1] \o seqs[k + 1]
      BY <2>5, <3>1
    <3>3. f[k + 1] = IF k + 1 = 1 THEN seqs[k + 1] ELSE f[(k + 1) - 1] \o seqs[k + 1]
      BY <2>1, <3>1
    <3>4. flat[k + 1] = f[k + 1]
      BY <2>7, <3>1, <3>2, <3>3
    <3> QED BY <3>1, <3>4
  <2>8. n \in E
    <3>1. n \in Nat /\ \A k \in 0..n - 1 : k \in E => k + 1 \in E
      BY <1>1, <2>7
    <3> HIDE DEF E, n
    <3>2. \A k \in 0..n : k \in E
      BY <2>6, <3>1, UpTo
    <3> QED BY <3>1, <3>2
  <2>9. flat[n] = f[n] /\ n \in 1..n
    BY <1>1, <1>6, <2>8
  <2> QED BY <2>1, <2>4, <2>9
<1> QED BY <1>5, <1>6

---------------------------------------------------------------------------
(* Steps.                                                                  *)

\* A step is one of the ten kinds.
LEMMA StepForms ==
  ASSUME NEW x \in Steps
  PROVE  \/ x.do = "open" /\ x.repo \in Repos /\ x = OpenEnvironment(x.repo)
         \/ x.do = "check" /\ x.repo \in Repos /\ x = CheckRules(x.repo)
         \/ x.do = "trust" /\ x.id \in Names /\ x.service \in Services /\ x.repo \in Repos
            /\ x = Trust(x.id, x.service, x.repo)
         \/ x.do = "revoke" /\ x.id \in Names /\ x.service \in Services /\ x = Revoke(x.id, x.service)
         \/ x.do = "tag" /\ x.service \in Services /\ x.value \in Repos \cup {Azure}
            /\ x = RecordSource(x.service, x.value)
         \/ x.do = "project roster" /\ x = ProjectRoster
         \/ x.do = "project sources" /\ x = ProjectSources
         \/ x.do = "sync roster" /\ x = SyncRoster
         \/ x.do = "sync sources" /\ x = SyncSources
         \/ x.do = "raise" /\ x = RaiseBlocked
<1> DEFINE A == {OpenEnvironment(r) : r \in Repos}
           B == {CheckRules(r) : r \in Repos}
           C == {Trust(i, s, r) : i \in Names, s \in Services, r \in Repos}
           D == {Revoke(i, s) : i \in Names, s \in Services}
           E == {RecordSource(s, v) : s \in Services, v \in Repos \cup {Azure}}
           F == {ProjectRoster, ProjectSources, SyncRoster, SyncSources, RaiseBlocked}
<1>1. CASE x \in A
  <2>1. PICK r \in Repos : x = OpenEnvironment(r)
    BY <1>1
  <2>2. x.do = "open" /\ x.repo = r
    BY <2>1 DEF OpenEnvironment
  <2> QED BY <2>1, <2>2
<1>2. CASE x \in B
  <2>1. PICK r \in Repos : x = CheckRules(r)
    BY <1>2
  <2>2. x.do = "check" /\ x.repo = r
    BY <2>1 DEF CheckRules
  <2> QED BY <2>1, <2>2
<1>3. CASE x \in C
  <2>1. PICK i \in Names, s \in Services, r \in Repos : x = Trust(i, s, r)
    BY <1>3
  <2>2. x.do = "trust" /\ x.id = i /\ x.service = s /\ x.repo = r
    BY <2>1 DEF Trust
  <2> QED BY <2>1, <2>2
<1>4. CASE x \in D
  <2>1. PICK i \in Names, s \in Services : x = Revoke(i, s)
    BY <1>4
  <2>2. x.do = "revoke" /\ x.id = i /\ x.service = s
    BY <2>1 DEF Revoke
  <2> QED BY <2>1, <2>2
<1>5. CASE x \in E
  <2>1. PICK s \in Services, v \in Repos \cup {Azure} : x = RecordSource(s, v)
    BY <1>5
  <2>2. x.do = "tag" /\ x.service = s /\ x.value = v
    BY <2>1 DEF RecordSource
  <2> QED BY <2>1, <2>2
<1>6. CASE x \in F
  <2>1. CASE x = ProjectRoster
    <3>1. x.do = "project roster"
      BY <2>1 DEF ProjectRoster
    <3> QED BY <2>1, <3>1
  <2>2. CASE x = ProjectSources
    <3>1. x.do = "project sources"
      BY <2>2 DEF ProjectSources
    <3> QED BY <2>2, <3>1
  <2>3. CASE x = SyncRoster
    <3>1. x.do = "sync roster"
      BY <2>3 DEF SyncRoster
    <3> QED BY <2>3, <3>1
  <2>4. CASE x = SyncSources
    <3>1. x.do = "sync sources"
      BY <2>4 DEF SyncSources
    <3> QED BY <2>4, <3>1
  <2>5. CASE x = RaiseBlocked
    <3>1. x.do = "raise"
      BY <2>5 DEF RaiseBlocked
    <3> QED BY <2>5, <3>1
  <2> QED BY <1>6, <2>1, <2>2, <2>3, <2>4, <2>5
<1>7. Steps = A \cup B \cup C \cup D \cup E \cup F
  BY DEF Steps
<1> HIDE DEF A, B, C, D, E, F
<1>8. x \in A \/ x \in B \/ x \in C \/ x \in D \/ x \in E \/ x \in F
  BY <1>7
<1> QED BY <1>1, <1>2, <1>3, <1>4, <1>5, <1>6, <1>8

\* What each kind of step says.
LEMMA StepFields ==
  /\ \A r : OpenEnvironment(r).do = "open" /\ CheckRules(r).do = "check"
            /\ OpenEnvironment(r).repo = r /\ CheckRules(r).repo = r
  /\ \A i, s, r : Trust(i, s, r).do = "trust" /\ Trust(i, s, r).id = i /\ Trust(i, s, r).service = s
                  /\ Trust(i, s, r).repo = r
  /\ \A i, s : Revoke(i, s).do = "revoke" /\ Revoke(i, s).id = i /\ Revoke(i, s).service = s
  /\ \A s, v : RecordSource(s, v).do = "tag" /\ RecordSource(s, v).service = s /\ RecordSource(s, v).value = v
  /\ ProjectRoster.do = "project roster" /\ ProjectSources.do = "project sources"
  /\ SyncRoster.do = "sync roster" /\ SyncSources.do = "sync sources" /\ RaiseBlocked.do = "raise"
BY DEF OpenEnvironment, CheckRules, Trust, Revoke, RecordSource, ProjectRoster, ProjectSources, SyncRoster,
       SyncSources, RaiseBlocked

\* Each operator that makes a step makes one of Steps.
LEMMA StepsAre ==
  /\ \A r \in Repos : OpenEnvironment(r) \in Steps /\ CheckRules(r) \in Steps
  /\ \A i \in Names, s \in Services : Revoke(i, s) \in Steps /\ \A r \in Repos : Trust(i, s, r) \in Steps
  /\ \A s \in Services, v \in Repos \cup {Azure} : RecordSource(s, v) \in Steps
  /\ {ProjectRoster, ProjectSources, SyncRoster, SyncSources, RaiseBlocked} \subseteq Steps
BY DEF Steps

\* The values that stand for the absence of a repository.
LEMMA Markers ==
  /\ Azure \notin Repos /\ None \notin Repos /\ Malformed \notin Repos
  /\ Azure # None /\ Azure # Malformed /\ None # Malformed
<1>1. Azure \notin Repos /\ None \notin Repos /\ Malformed \notin Repos
  BY TrustPlanAssumption
<1>2. Cardinality({Malformed, Azure, None}) = 3
  BY TrustPlanAssumption
<1>3. ASSUME NEW a, NEW b PROVE Cardinality({a, b}) # 3
  <2>1. CASE a = b
    <3>1. {a, b} = {a}
      BY <2>1
    <3> QED BY <3>1, FS_Singleton
  <2>2. CASE a # b
    <3>1. IsFiniteSet({a}) /\ Cardinality({a}) = 1
      BY FS_Singleton
    <3>2. b \notin {a} /\ {a} \cup {b} = {a, b}
      BY <2>2
    <3>3. Cardinality({a} \cup {b}) = 1 + 1
      BY <2>2, <3>1, FS_AddElement
    <3> QED BY <3>2, <3>3
  <2> QED BY <2>1, <2>2
<1>4. Azure # None
  <2>1. Azure = None => {Malformed, Azure, None} = {Malformed, Azure}
    OBVIOUS
  <2> QED BY <1>2, <1>3, <2>1
<1>5. Azure # Malformed
  <2>1. Azure = Malformed => {Malformed, Azure, None} = {Azure, None}
    OBVIOUS
  <2> QED BY <1>2, <1>3, <2>1
<1>6. None # Malformed
  <2>1. None = Malformed => {Malformed, Azure, None} = {Azure, None}
    OBVIOUS
  <2> QED BY <1>2, <1>3, <2>1
<1> QED BY <1>1, <1>4, <1>5, <1>6

\* The identities and the services are finite lists.
LEMMA Lists ==
  /\ Identities \in Seq(Names) /\ Len(Identities) \in Nat /\ DOMAIN Identities = 1..Len(Identities)
  /\ Names = {Identities[i] : i \in 1..Len(Identities)}
  /\ \A i, j \in 1..Len(Identities) : Identities[i] = Identities[j] => i = j
  /\ Deployer \in Names
  /\ ServiceOrder \in Seq(Services) /\ Len(ServiceOrder) \in Nat /\ DOMAIN ServiceOrder = 1..Len(ServiceOrder)
  /\ \A i \in 1..Len(ServiceOrder) : ServiceOrder[i] \in Services
  /\ Services = {ServiceOrder[i] : i \in 1..Len(ServiceOrder)}
  /\ \A i, j \in 1..Len(ServiceOrder) : ServiceOrder[i] = ServiceOrder[j] => i = j
  /\ IsFiniteSet(Services)
<1>1. /\ Len(Identities) \in Nat /\ DOMAIN Identities = 1..Len(Identities)
      /\ ToSet(Identities) = {Identities[i] : i \in 1..Len(Identities)}
  BY TrustPlanAssumption, SeqSet
<1>2. Names = ToSet(Identities)
  BY <1>1 DEF Names
<1>3. Deployer \in Names
  <2>1. Len(Identities) # 0
    BY TrustPlanAssumption, EmptySeq
  <2>2. 1 \in DOMAIN Identities
    BY <1>1, <2>1
  <2> QED BY <2>2 DEF Deployer, Names
<1>4. \A i, j \in 1..Len(Identities) : Identities[i] = Identities[j] => i = j
  BY <1>1, TrustPlanAssumption DEF IsInjective
<1>5. /\ Len(ServiceOrder) \in Nat /\ DOMAIN ServiceOrder = 1..Len(ServiceOrder)
      /\ Services = {ServiceOrder[i] : i \in 1..Len(ServiceOrder)}
  BY TrustPlanAssumption, SeqSet
<1>6. \A i, j \in 1..Len(ServiceOrder) : ServiceOrder[i] = ServiceOrder[j] => i = j
  BY <1>5, TrustPlanAssumption DEF IsInjective
<1>7. IsFiniteSet(Services)
  <2> DEFINE S == 1..Len(ServiceOrder)
             f == [i \in S |-> ServiceOrder[i]]
  <2>1. IsFiniteSet(S)
    BY <1>5, FS_Interval
  <2>2. f \in Surjection(S, Services)
    BY <1>5 DEF Surjection
  <2> HIDE DEF S, f
  <2> QED BY <2>1, <2>2, FS_Surjection
<1> QED BY <1>1, <1>2, <1>3, <1>4, <1>5, <1>6, <1>7, TrustPlanAssumption

---------------------------------------------------------------------------
(* The lists a plan is made of.                                            *)

\* The services in the order of their names, one after another.
LEMMA SortedSteps ==
  ASSUME NEW chosen
  PROVE  LET n == Len(ServiceOrder) IN
         \E acc \in [0..n -> Seq(Services)] :
           /\ acc[0] = <<>> /\ acc[n] = Sorted(chosen)
           /\ \A k \in 1..n : acc[k] = IF ServiceOrder[k] \in chosen THEN Append(acc[k - 1], ServiceOrder[k])
                                       ELSE acc[k - 1]
<1> DEFINE n == Len(ServiceOrder)
           P == Seq(Services)
           G == [w \in P \X (1..n) |-> IF ServiceOrder[w[2]] \in chosen THEN Append(w[1], ServiceOrder[w[2]])
                                       ELSE w[1]]
           Is(iter) == iter = [s \in SUBSET (1..n) |->
                         IF s = {} THEN <<>>
                         ELSE IF ServiceOrder[Max(s)] \in chosen
                                THEN Append(iter[s \ {Max(s)}], ServiceOrder[Max(s)])
                                ELSE iter[s \ {Max(s)}]]
<1>1. n \in Nat /\ DOMAIN ServiceOrder = 1..n /\ \A k \in 1..n : ServiceOrder[k] \in Services
  BY Lists
<1>2. <<>> \in P
  BY EmptySet
<1> HIDE DEF n
<1>3. G \in [P \X (1..n) -> P]
  <2>1. ASSUME NEW w \in P \X (1..n) PROVE G[w] \in P
    <3>1. w[1] \in P /\ ServiceOrder[w[2]] \in Services
      BY <1>1
    <3>2. Append(w[1], ServiceOrder[w[2]]) \in P
      BY <3>1, AppendSet
    <3> QED BY <3>1, <3>2
  <2> QED BY <2>1
<1>4. PICK iter \in [SUBSET (1..n) -> P] :
         \A s \in SUBSET (1..n) : iter[s] = IF s = {} THEN <<>> ELSE G[<<iter[s \ {Max(s)}], Max(s)>>]
  <2>1. Folder(P, n, G)
    BY <1>3 DEF Folder
  <2> HIDE DEF G, P
  <2>2. PICK iter : FoldedBy(P, <<>>, n, G, iter)
    BY <1>1, <1>2, <2>1, FoldExists
  <2> QED BY <2>2 DEF FoldedBy
<1>5. Is(iter) /\ iter \in [SUBSET (1..n) -> P]
  <2>1. ASSUME NEW s \in SUBSET (1..n), s # {}
        PROVE  iter[s] = IF ServiceOrder[Max(s)] \in chosen
                           THEN Append(iter[s \ {Max(s)}], ServiceOrder[Max(s)])
                           ELSE iter[s \ {Max(s)}]
    <3>1. Max(s) \in 1..n
      BY <1>1, <2>1, LastPosition
    <3>2. iter[s \ {Max(s)}] \in P
      OBVIOUS
    <3> DEFINE m == Max(s)
    <3>3. iter[s] = G[<<iter[s \ {m}], m>>] /\ m \in 1..n /\ iter[s \ {m}] \in P
      BY <1>4, <2>1, <3>1, <3>2
    <3> HIDE DEF m, P
    <3> QED BY <3>3 DEF m
  <2> QED BY <1>4, <2>1
<1> DEFINE chosenIter == CHOOSE g : Is(g)
<1>6. Is(chosenIter)
  <2> HIDE DEF Is
  <2> QED BY <1>5
<1>7. Sorted(chosen) = chosenIter[1..n]
  BY <1>1 DEF Sorted, FoldLeft, MapThenFoldSet
<1> DEFINE acc == [k \in 0..n |-> chosenIter[1..k]]
<1> DEFINE none == 0
<1>8. none \in 0..n /\ none = 0 /\ chosenIter[1..none] = <<>>
  <2>1. 1..none = {} /\ 1..none \in SUBSET (1..n) /\ none \in 0..n
    BY <1>1
  <2> HIDE DEF chosenIter, none
  <2>2. chosenIter[1..none] = <<>>
    BY <1>6, <2>1
  <2> QED BY <2>1, <2>2 DEF none
<1>9. ASSUME NEW k \in 1..n
      PROVE  chosenIter[1..k] = IF ServiceOrder[k] \in chosen THEN Append(chosenIter[1..k - 1], ServiceOrder[k])
                                ELSE chosenIter[1..k - 1]
  <2>1. 1..k \in SUBSET (1..n) /\ 1..k # {} /\ Max(1..k) = k /\ (1..k) \ {k} = 1..k - 1
    BY <1>1, Segments
  <2> DEFINE s == 1..k
  <2>2. s \in SUBSET (1..n) /\ s # {} /\ Max(s) = k /\ s \ {k} = 1..k - 1
    BY <2>1
  <2> HIDE DEF chosenIter, s
  <2>3. chosenIter[s] = IF ServiceOrder[Max(s)] \in chosen
                          THEN Append(chosenIter[s \ {Max(s)}], ServiceOrder[Max(s)])
                          ELSE chosenIter[s \ {Max(s)}]
    BY <1>6, <2>2
  <2> QED BY <2>2, <2>3 DEF s
<1> HIDE DEF chosenIter, none
<1> DEFINE E == {k \in 0..n : chosenIter[1..k] \in P}
<1>10. 0 \in E
  <2>1. none \in E
    BY <1>2, <1>8
  <2> QED BY <1>8, <2>1
<1>11. ASSUME NEW k \in 0..n - 1, k \in E PROVE k + 1 \in E
  <2>1. k + 1 \in 1..n /\ (k + 1) - 1 = k /\ k + 1 \in 0..n
    BY <1>1
  <2> DEFINE m == k + 1
  <2> HIDE DEF m
  <2>2. m \in 1..n /\ m \in 0..n /\ m - 1 = k /\ ServiceOrder[m] \in Services /\ chosenIter[1..k] \in P
    BY <1>1, <1>11, <2>1 DEF m
  <2>3. Append(chosenIter[1..k], ServiceOrder[m]) \in P
    BY <2>2, AppendSet
  <2>4. chosenIter[1..m] \in P
    BY <1>9, <2>2, <2>3
  <2> QED BY <2>2, <2>4 DEF m
<1>12. \A k \in 0..n : k \in E
  <2>1. n \in Nat /\ \A k \in 0..n - 1 : k \in E => k + 1 \in E
    BY <1>1, <1>11
  <2> HIDE DEF E
  <2> QED BY <1>10, <2>1, UpTo
<1>13. acc \in [0..n -> P]
  BY <1>12
<1>14. acc[0] = <<>> /\ acc[n] = Sorted(chosen)
  <2>1. acc[none] = <<>>
    BY <1>8
  <2>2. n \in 0..n
    BY <1>1
  <2>3. acc[n] = Sorted(chosen)
    BY <1>7, <2>2
  <2> QED BY <1>8, <2>1, <2>3
<1>15. \A k \in 1..n : acc[k] = IF ServiceOrder[k] \in chosen THEN Append(acc[k - 1], ServiceOrder[k]) ELSE acc[k - 1]
  <2> SUFFICES ASSUME NEW k \in 1..n
               PROVE  acc[k] = IF ServiceOrder[k] \in chosen THEN Append(acc[k - 1], ServiceOrder[k]) ELSE acc[k - 1]
    OBVIOUS
  <2>1. k \in 0..n /\ k - 1 \in 0..n
    BY <1>1
  <2> QED BY <1>9, <2>1
<1> HIDE DEF acc
<1> QED BY <1>13, <1>14, <1>15 DEF n

\* Sorted lists each of the chosen services once.
LEMMA SortedList ==
  ASSUME NEW chosen \in SUBSET Services
  PROVE  /\ Sorted(chosen) \in Seq(Services) /\ ToSet(Sorted(chosen)) = chosen
         /\ \A i, j \in 1..Len(Sorted(chosen)) : Sorted(chosen)[i] = Sorted(chosen)[j] => i = j
<1> DEFINE n == Len(ServiceOrder)
<1>1. PICK acc \in [0..n -> Seq(Services)] :
           /\ acc[0] = <<>> /\ acc[n] = Sorted(chosen)
           /\ \A k \in 1..n : acc[k] = IF ServiceOrder[k] \in chosen THEN Append(acc[k - 1], ServiceOrder[k])
                                       ELSE acc[k - 1]
  BY SortedSteps
<1>2. /\ n \in Nat /\ \A k \in 1..n : ServiceOrder[k] \in Services
      /\ \A i, j \in 1..n : ServiceOrder[i] = ServiceOrder[j] => i = j
      /\ Services = {ServiceOrder[i] : i \in 1..n}
  BY Lists
<1> HIDE DEF n
<1> DEFINE Once(seq) == \A i, j \in 1..Len(seq) : seq[i] = seq[j] => i = j
           E == {k \in 0..n : ToSet(acc[k]) = chosen \cap {ServiceOrder[i] : i \in 1..k} /\ Once(acc[k])}
<1>3. 0 \in E
  <2>1. ToSet(acc[0]) = {} /\ Len(acc[0]) = 0
    BY <1>1, EmptySet
  <2>2. 1..0 = {}
    OBVIOUS
  <2>3. {ServiceOrder[i] : i \in 1..0} = {}
    BY <2>2
  <2>4. Once(acc[0])
    BY <2>1, <2>2
  <2> HIDE DEF Once
  <2> QED BY <1>2, <2>1, <2>3, <2>4
<1>4. ASSUME NEW k \in 0..n - 1, k \in E PROVE k + 1 \in E
  <2> DEFINE m == k + 1
  <2>1. m \in 1..n /\ m \in 0..n /\ m - 1 = k /\ k \in 0..n /\ k < m /\ 1..m = (1..k) \cup {m}
    BY <1>2
  <2> HIDE DEF m
  <2>2. acc[m] = IF ServiceOrder[m] \in chosen THEN Append(acc[k], ServiceOrder[m]) ELSE acc[k]
    BY <1>1, <2>1
  <2>3. {ServiceOrder[i] : i \in 1..m} = {ServiceOrder[i] : i \in 1..k} \cup {ServiceOrder[m]}
    BY <2>1
  <2>4. CASE ServiceOrder[m] \notin chosen
    BY <1>4, <2>1, <2>2, <2>3, <2>4 DEF m
  <2>5. CASE ServiceOrder[m] \in chosen
    <3> DEFINE old == acc[k]
               x == ServiceOrder[m]
    <3>1. old \in Seq(Services) /\ x \in Services /\ acc[m] = Append(old, x)
      BY <1>1, <1>2, <2>1, <2>2, <2>5
    <3>2. ToSet(old) = chosen \cap {ServiceOrder[i] : i \in 1..k} /\ Once(old)
      BY <1>4
    <3>3. x \notin ToSet(old)
      <4>1. \A i \in 1..k : ServiceOrder[i] # x
        BY <1>2, <2>1
      <4> HIDE DEF x, old
      <4> QED BY <3>2, <4>1
    <3> HIDE DEF old, x, Once
    <3>4. ToSet(acc[m]) = ToSet(old) \cup {x}
      BY <3>1, AppendSet
    <3>5. ToSet(acc[m]) = chosen \cap {ServiceOrder[i] : i \in 1..m}
      BY <2>3, <2>5, <3>2, <3>4 DEF x
    <3>6. Once(acc[m])
      <4>1. /\ Len(old) \in Nat /\ Len(acc[m]) = Len(old) + 1 /\ acc[m][Len(old) + 1] = x
            /\ \A i \in 1..Len(old) : acc[m][i] = old[i]
        BY <3>1, AppendProperties, SeqSet
      <4>2. \A i \in 1..Len(old) : old[i] # x
        BY <3>1, <3>3, SeqSet
      <4> DEFINE new == acc[m]
      <4> HIDE DEF new
      <4>3. /\ Len(old) \in Nat /\ Len(new) = Len(old) + 1 /\ new[Len(old) + 1] = x
            /\ \A i \in 1..Len(old) : new[i] = old[i]
        BY <4>1 DEF new
      <4>4. \A i \in 1..Len(new) : i \in 1..Len(old) \/ i = Len(old) + 1
        BY <4>3
      <4>5. ASSUME NEW i \in 1..Len(new), NEW j \in 1..Len(new), new[i] = new[j] PROVE i = j
        <5>1. CASE i \in 1..Len(old) /\ j \in 1..Len(old)
          BY <3>2, <4>3, <4>5, <5>1 DEF Once
        <5>2. CASE ~(i \in 1..Len(old) /\ j \in 1..Len(old))
          BY <4>2, <4>3, <4>4, <4>5, <5>2
        <5> QED BY <5>1, <5>2
      <4>6. Once(new)
        BY <4>5 DEF Once
      <4> QED BY <4>6 DEF new
    <3> QED BY <2>1, <3>5, <3>6 DEF m
  <2> QED BY <2>4, <2>5
<1>5. \A k \in 0..n : k \in E
  <2>1. n \in Nat /\ \A k \in 0..n - 1 : k \in E => k + 1 \in E
    BY <1>2, <1>4
  <2> HIDE DEF E
  <2> QED BY <1>3, <2>1, UpTo
<1>6. n \in E
  BY <1>2, <1>5
<1>7. chosen \cap Services = chosen
  OBVIOUS
<1> DEFINE sorted == Sorted(chosen)
<1>8. sorted \in Seq(Services) /\ ToSet(sorted) = chosen /\ Once(sorted)
  <2> HIDE DEF Once
  <2>1. sorted = acc[n] /\ n \in 0..n
    BY <1>1, <1>2
  <2>2. ToSet(acc[n]) = chosen /\ Once(acc[n])
    BY <1>2, <1>6, <1>7
  <2> QED BY <1>1, <2>1, <2>2
<1> QED BY <1>8

\* A step that is planned on a condition.
LEMMA WhenList ==
  ASSUME NEW condition \in BOOLEAN, NEW x \in Steps
  PROVE  /\ When(condition, x) \in Seq(Steps)
         /\ ToSet(When(condition, x)) = IF condition THEN {x} ELSE {}
         /\ \A q : Ordered(q, When(condition, x))
<1>1. CASE condition
  <2>1. When(condition, x) = <<x>>
    BY <1>1 DEF When
  <2>2. \A q : Ordered(q, <<x>>)
    BY ShortOrdered
  <2>3. <<x>> \in Seq(Steps) /\ ToSet(<<x>>) = {x}
    BY OneSet
  <2> QED BY <1>1, <2>1, <2>2, <2>3
<1>2. CASE ~condition
  <2>1. When(condition, x) = <<>>
    BY <1>2 DEF When
  <2> QED BY <1>2, <2>1, EmptySet, ShortOrdered
<1> QED BY <1>1, <1>2

\* A plan whose steps may come in any order is in order.
LEMMA AnyOrder ==
  ASSUME NEW q, NEW S, NEW s \in Seq(S), \A x, y \in ToSet(s) : MayFollow(q, x, y)
  PROVE  Ordered(q, s)
<1>1. DOMAIN s = 1..Len(s) /\ \A k \in 1..Len(s) : s[k] \in ToSet(s)
  BY SeqSet
<1> QED BY <1>1 DEF Ordered

\* A list with one step per entry of another.
LEMMA MappedList ==
  ASSUME NEW S, NEW seq \in Seq(S), NEW e, e = [i \in DOMAIN seq |-> e[i]],
         \A i \in 1..Len(seq) : e[i] \in Steps
  PROVE  /\ e \in Seq(Steps) /\ Len(e) = Len(seq) /\ DOMAIN e = 1..Len(seq)
         /\ ToSet(e) = {e[i] : i \in 1..Len(seq)}
<1>1. Len(seq) \in Nat /\ DOMAIN seq = 1..Len(seq)
  BY SeqSet
<1>2. e \in [1..Len(seq) -> Steps]
  BY <1>1
<1>3. e \in Seq(Steps)
  BY <1>1, <1>2, IsASeq
<1>4. DOMAIN e = 1..Len(seq)
  BY <1>1
<1>5. Len(e) = Len(seq)
  BY <1>1, <1>3, <1>4, LenProperties
<1>6. ToSet(e) = {e[i] : i \in 1..Len(e)}
  BY <1>3, SeqSet
<1> QED BY <1>3, <1>4, <1>5, <1>6

\* Trust on every identity.
LEMMA TrustList ==
  ASSUME NEW s \in Services, NEW r \in Repos
  PROVE  LET e == ForEach(LAMBDA i : Trust(i, s, r), Identities) IN
         /\ e \in Seq(Steps) /\ ToSet(e) = {Trust(i, s, r) : i \in Names}
         /\ \A q : Ordered(q, e)
<1> DEFINE e == ForEach(LAMBDA i : Trust(i, s, r), Identities)
           n == Len(Identities)
<1>1. /\ n \in Nat /\ Identities \in Seq(Names) /\ DOMAIN Identities = 1..n
      /\ Names = {Identities[k] : k \in 1..n} /\ \A k, l \in 1..n : Identities[k] = Identities[l] => k = l
  BY Lists
<1>2. e = [k \in DOMAIN Identities |-> e[k]] /\ \A k \in 1..n : e[k] = Trust(Identities[k], s, r)
  BY <1>1 DEF ForEach
<1> HIDE DEF e, n
<1>3. \A k \in 1..n : Identities[k] \in Names
  BY <1>1
<1>4. \A k \in 1..n : e[k] \in Steps
  BY <1>2, <1>3, StepsAre
<1>5. e \in Seq(Steps) /\ DOMAIN e = 1..n /\ ToSet(e) = {e[k] : k \in 1..n}
  BY <1>1, <1>2, <1>4, MappedList DEF n
<1>6. ToSet(e) = {Trust(i, s, r) : i \in Names}
  BY <1>1, <1>2, <1>5
<1>7. ASSUME NEW q PROVE Ordered(q, e)
  <2> SUFFICES ASSUME NEW k \in 1..n, NEW l \in 1..n, k < l PROVE MayFollow(q, e[k], e[l])
    BY <1>5 DEF Ordered
  <2>1. Identities[k] # Identities[l]
    BY <1>1
  <2>2. e[k] = Trust(Identities[k], s, r) /\ e[l] = Trust(Identities[l], s, r)
    BY <1>2
  <2>3. e[k].do = "trust" /\ e[l].do = "trust" /\ e[k].id = Identities[k] /\ e[l].id = Identities[l]
    BY <2>2 DEF Trust, RecordSource
  <2> QED BY <2>1, <2>3 DEF MayFollow
<1> QED BY <1>5, <1>6, <1>7 DEF e

\* The revocation of one service on every identity.
LEMMA RevokeList ==
  ASSUME NEW s \in Services
  PROVE  LET e == ForEach(LAMBDA i : Revoke(i, s), Identities) IN
         /\ e \in Seq(Steps) /\ ToSet(e) = {Revoke(i, s) : i \in Names}
         /\ \A q : Ordered(q, e)
<1> DEFINE e == ForEach(LAMBDA i : Revoke(i, s), Identities)
           n == Len(Identities)
<1>1. /\ n \in Nat /\ Identities \in Seq(Names) /\ DOMAIN Identities = 1..n
      /\ Names = {Identities[k] : k \in 1..n}
  BY Lists
<1>2. e = [k \in DOMAIN Identities |-> e[k]] /\ \A k \in 1..n : e[k] = Revoke(Identities[k], s)
  BY <1>1 DEF ForEach
<1> HIDE DEF e, n
<1>3. \A k \in 1..n : Identities[k] \in Names
  BY <1>1
<1>4. \A k \in 1..n : e[k] \in Steps
  BY <1>2, <1>3, StepsAre
<1>5. e \in Seq(Steps) /\ ToSet(e) = {e[k] : k \in 1..n}
  BY <1>1, <1>2, <1>4, MappedList DEF n
<1>6. ToSet(e) = {Revoke(i, s) : i \in Names}
  BY <1>1, <1>2, <1>5
<1>7. ASSUME NEW q PROVE Ordered(q, e)
  <2>1. \A x \in ToSet(e) : x.do = "revoke"
    BY <1>6 DEF Revoke
  <2>2. \A x, y \in ToSet(e) : MayFollow(q, x, y)
    BY <2>1 DEF MayFollow
  <2> QED BY <1>5, <2>2, AnyOrder
<1> QED BY <1>5, <1>6, <1>7 DEF e

\* The tags of some services, returned to Azure.
LEMMA RecordList ==
  ASSUME NEW chosen \in SUBSET Services
  PROVE  LET e == ForEach(LAMBDA s : RecordSource(s, Azure), Sorted(chosen)) IN
         /\ e \in Seq(Steps) /\ ToSet(e) = {RecordSource(s, Azure) : s \in chosen}
         /\ \A q : Ordered(q, e)
<1> DEFINE seq == Sorted(chosen)
           e == ForEach(LAMBDA s : RecordSource(s, Azure), seq)
           n == Len(seq)
<1>1. /\ seq \in Seq(Services) /\ ToSet(seq) = chosen
      /\ \A k, l \in 1..n : seq[k] = seq[l] => k = l
  BY SortedList
<1> HIDE DEF seq
<1>2. n \in Nat /\ DOMAIN seq = 1..n /\ chosen = {seq[k] : k \in 1..n}
  BY <1>1, SeqSet
<1>3. e = [k \in DOMAIN seq |-> e[k]] /\ \A k \in 1..n : e[k] = RecordSource(seq[k], Azure)
  BY <1>2 DEF ForEach
<1> HIDE DEF e, n
<1>4. \A k \in 1..n : seq[k] \in Services
  BY <1>2
<1>5. \A k \in 1..n : e[k] \in Steps
  BY <1>3, <1>4, StepsAre
<1>6. e \in Seq(Steps) /\ DOMAIN e = 1..n /\ ToSet(e) = {e[k] : k \in 1..n}
  BY <1>1, <1>3, <1>5, MappedList DEF n
<1>7. ToSet(e) = {RecordSource(s, Azure) : s \in chosen}
  BY <1>2, <1>3, <1>6
<1>8. ASSUME NEW q PROVE Ordered(q, e)
  <2> SUFFICES ASSUME NEW k \in 1..n, NEW l \in 1..n, k < l PROVE MayFollow(q, e[k], e[l])
    BY <1>6 DEF Ordered
  <2>1. seq[k] # seq[l]
    BY <1>1 DEF n
  <2>2. e[k] = RecordSource(seq[k], Azure) /\ e[l] = RecordSource(seq[l], Azure)
    BY <1>3
  <2>3. e[k].do = "tag" /\ e[l].do = "tag" /\ e[k].service = seq[k] /\ e[l].service = seq[l]
    BY <2>2 DEF Trust, RecordSource
  <2> QED BY <2>1, <2>3 DEF MayFollow
<1> QED BY <1>6, <1>7, <1>8 DEF e, seq

\* The revocations of a reconciliation.
LEMMA RevocationsList ==
  ASSUME NEW o, NEW forks
  PROVE  /\ Revocations(o, forks) \in Seq(Steps)
         /\ ToSet(Revocations(o, forks)) = {x \in Steps : \E i \in Names : \E s \in Revoked(o, forks, i) : x = Revoke(i, s)}
         /\ \A q : Ordered(q, Revocations(o, forks))
<1> DEFINE n == Len(Identities)
           list(i) == ForEach(LAMBDA s : Revoke(i, s), Sorted(Revoked(o, forks, i)))
           lists == [k \in 1..n |-> list(Identities[k])]
<1>1. /\ n \in Nat /\ Identities \in Seq(Names) /\ DOMAIN Identities = 1..n
      /\ Names = {Identities[k] : k \in 1..n}
  BY Lists
<1>2. Revocations(o, forks) = FlattenSeq(lists)
  BY <1>1 DEF Revocations, ForEach
<1>3. ASSUME NEW i \in Names
      PROVE  list(i) \in Seq(Steps) /\ ToSet(list(i)) = {Revoke(i, s) : s \in Revoked(o, forks, i)}
  <2> DEFINE seq == Sorted(Revoked(o, forks, i))
             e == list(i)
             m == Len(seq)
  <2>1. Revoked(o, forks, i) \in SUBSET Services
    BY DEF Revoked
  <2>2. seq \in Seq(Services) /\ ToSet(seq) = Revoked(o, forks, i)
    BY <2>1, SortedList
  <2>3. m \in Nat /\ DOMAIN seq = 1..m /\ ToSet(seq) = {seq[k] : k \in 1..m}
    BY <2>2, SeqSet
  <2>4. e = [k \in DOMAIN seq |-> e[k]] /\ \A k \in 1..m : e[k] = Revoke(i, seq[k])
    BY <2>3 DEF ForEach
  <2> HIDE DEF seq, e, m
  <2>5. \A k \in 1..m : e[k] \in Steps
    <3>1. \A k \in 1..m : seq[k] \in Services
      BY <2>1, <2>2, <2>3
    <3> QED BY <2>4, <3>1, StepsAre
  <2>6. e \in Seq(Steps) /\ ToSet(e) = {e[k] : k \in 1..m}
    BY <2>2, <2>4, <2>5, MappedList DEF m
  <2>7. ToSet(e) = {Revoke(i, s) : s \in Revoked(o, forks, i)}
    BY <2>2, <2>3, <2>4, <2>6
  <2> QED BY <2>6, <2>7 DEF e
<1> DEFINE flat == FlattenSeq(lists)
<1>4. /\ lists \in Seq(Seq(Steps)) /\ Len(lists) = n /\ \A k \in 1..n : lists[k] = list(Identities[k])
  <2> HIDE DEF list
  <2>1. \A k \in 1..n : Identities[k] \in Names
    BY <1>1
  <2>2. lists \in [1..n -> Seq(Steps)] /\ DOMAIN lists = 1..n
    BY <1>3, <2>1
  <2>3. \A k \in 1..n : lists[k] = list(Identities[k])
    OBVIOUS
  <2> HIDE DEF lists
  <2>4. lists \in Seq(Seq(Steps))
    BY <1>1, <2>2, IsASeq
  <2>5. Len(lists) = n
    BY <1>1, <2>2, <2>4, LenProperties
  <2> QED BY <2>3, <2>4, <2>5
<1> HIDE DEF list, lists, n
<1>5. flat \in Seq(Steps) /\ ToSet(flat) = UNION {ToSet(lists[k]) : k \in 1..n}
  BY <1>4, FlattenedSet
<1> HIDE DEF flat
<1>6. \A x : x \in ToSet(flat) <=> \E k \in 1..n : x \in ToSet(list(Identities[k]))
  BY <1>4, <1>5
<1>7. \A x : x \in ToSet(flat) <=> \E i \in Names : x \in ToSet(list(i))
  BY <1>1, <1>6
<1>8. \A x : x \in ToSet(flat) <=> \E i \in Names : \E s \in Revoked(o, forks, i) : x = Revoke(i, s)
  BY <1>3, <1>7
<1>9. ToSet(flat) \subseteq Steps
  BY <1>5, SeqSet
<1>10. ToSet(flat) = {x \in Steps : \E i \in Names : \E s \in Revoked(o, forks, i) : x = Revoke(i, s)}
  BY <1>8, <1>9
<1>11. ASSUME NEW q PROVE Ordered(q, flat)
  <2>1. \A x \in ToSet(flat) : x.do = "revoke"
    BY <1>8 DEF Revoke
  <2>2. \A x, y \in ToSet(flat) : MayFollow(q, x, y)
    BY <2>1 DEF MayFollow
  <2> QED BY <1>5, <2>2, AnyOrder
<1> QED BY <1>2, <1>5, <1>10, <1>11 DEF flat

---------------------------------------------------------------------------
(* What a set T of steps leads to, from the credentials and the tags now.  *)

\* Some step in T is of one of the kinds.
HasDo(T, kinds) == \E x \in T : x.do \in kinds

\* The steps T lead the credentials creds to R: one that is written is as
\* written, one that is only revoked is gone, the others stay.
Leads(creds, T, R) == \A i \in Names, s \in Services :
  /\ \A r \in Repos : Trust(i, s, r) \in T => R[i][s] = r
  /\ (\A r \in Repos : Trust(i, s, r) \notin T) => R[i][s] = IF Revoke(i, s) \in T THEN None ELSE creds[i][s]

\* The steps T lead the tags old to G.
Tagged(old, T, G) == \A s \in Services :
  /\ \A v \in Repos \cup {Azure} : RecordSource(s, v) \in T => G[s] = v
  /\ (\A v \in Repos \cup {Azure} : RecordSource(s, v) \notin T) => G[s] = old[s]

\* A step that changes no credential leads where its successors lead.
LEMMA LeadsOther ==
  ASSUME NEW h, NEW U, NEW creds, NEW R, h.do \notin {"trust", "revoke"}, Leads(creds, {h} \cup U, R)
  PROVE  Leads(creds, U, R)
<1>1. \A i, s, r : Trust(i, s, r) # h
  BY DEF Trust
<1>2. \A i, s : Revoke(i, s) # h
  BY DEF Revoke
<1> QED BY <1>1, <1>2 DEF Leads

\* A step that records no source leads the tags where its successors lead.
LEMMA TaggedOther ==
  ASSUME NEW h, NEW U, NEW old, NEW G, h.do # "tag", Tagged(old, {h} \cup U, G)
  PROVE  Tagged(old, U, G)
<1>1. \A s, v : RecordSource(s, v) # h
  BY DEF RecordSource
<1> QED BY <1>1 DEF Tagged

\* A credential, once written, is not written again.
LEMMA LeadsTrust ==
  ASSUME NEW q, NEW U, NEW creds \in Rosters, NEW R, NEW i \in Names, NEW s \in Services, NEW r \in Repos,
         \A x \in U : MayFollow(q, Trust(i, s, r), x),
         Leads(creds, {Trust(i, s, r)} \cup U, R)
  PROVE  /\ Leads([creds EXCEPT ![i][s] = r], U, R)
         /\ \A j, t : Revoke(j, t) \notin U
<1> DEFINE h == Trust(i, s, r)
           next == [creds EXCEPT ![i][s] = r]
<1>1. h.do = "trust" /\ h.id = i /\ h.service = s /\ h.repo = r
  BY DEF Trust
<1>2. \A j, t : Revoke(j, t) \notin U
  <2> SUFFICES ASSUME NEW j, NEW t, Revoke(j, t) \in U PROVE FALSE
    OBVIOUS
  <2>1. Revoke(j, t).do = "revoke"
    BY DEF Revoke
  <2>2. MayFollow(q, h, Revoke(j, t))
    OBVIOUS
  <2> HIDE DEF h
  <2> QED BY <1>1, <2>1, <2>2 DEF MayFollow
<1>3. \A v : Trust(i, s, v) \notin U
  <2> SUFFICES ASSUME NEW v, Trust(i, s, v) \in U PROVE FALSE
    OBVIOUS
  <2>1. Trust(i, s, v).do = "trust" /\ Trust(i, s, v).id = i /\ Trust(i, s, v).service = s
    BY DEF Trust
  <2>2. MayFollow(q, h, Trust(i, s, v))
    OBVIOUS
  <2> HIDE DEF h
  <2> QED BY <1>1, <2>1, <2>2 DEF MayFollow
<1>4. \A j, t, v : h = Trust(j, t, v) => j = i /\ t = s /\ v = r
  <2> SUFFICES ASSUME NEW j, NEW t, NEW v, h = Trust(j, t, v) PROVE j = i /\ t = s /\ v = r
    OBVIOUS
  <2>1. Trust(j, t, v).id = j /\ Trust(j, t, v).service = t /\ Trust(j, t, v).repo = v
    BY DEF Trust
  <2> HIDE DEF h
  <2> QED BY <1>1, <2>1
<1>5. \A j, t : Revoke(j, t) # h
  BY DEF Revoke, Trust
<1>6. R[i][s] = r
  BY DEF Leads
<1>7. next[i][s] = r /\ \A j \in Names, t \in Services : j # i \/ t # s => next[j][t] = creds[j][t]
  BY DEF Rosters, Credentials
<1> HIDE DEF h, next
<1>8. ASSUME NEW j \in Names, NEW t \in Services
      PROVE  /\ \A v \in Repos : Trust(j, t, v) \in U => R[j][t] = v
             /\ (\A v \in Repos : Trust(j, t, v) \notin U) => R[j][t] = IF Revoke(j, t) \in U THEN None ELSE next[j][t]
  <2>1. CASE j = i /\ t = s
    BY <1>2, <1>3, <1>6, <1>7, <2>1
  <2>2. CASE j # i \/ t # s
    <3>1. /\ \A v \in Repos : Trust(j, t, v) \in {h} \cup U <=> Trust(j, t, v) \in U
          /\ Revoke(j, t) \notin {h} \cup U /\ Revoke(j, t) \notin U
      BY <1>2, <1>4, <1>5, <2>2
    <3>2. /\ \A v \in Repos : Trust(j, t, v) \in {h} \cup U => R[j][t] = v
          /\ (\A v \in Repos : Trust(j, t, v) \notin {h} \cup U)
               => R[j][t] = IF Revoke(j, t) \in {h} \cup U THEN None ELSE creds[j][t]
      BY DEF Leads, h
    <3> QED BY <1>7, <2>2, <3>1, <3>2
  <2> QED BY <2>1, <2>2
<1>9. Leads(next, U, R)
  BY <1>8 DEF Leads
<1> QED BY <1>2, <1>9 DEF next

\* A credential that is deleted is deleted again, or written later.
LEMMA LeadsRevoke ==
  ASSUME NEW U, NEW creds \in Rosters, NEW R, NEW i \in Names, NEW s \in Services,
         Leads(creds, {Revoke(i, s)} \cup U, R)
  PROVE  Leads([creds EXCEPT ![i][s] = None], U, R)
<1> DEFINE h == Revoke(i, s)
           next == [creds EXCEPT ![i][s] = None]
<1>1. h.do = "revoke" /\ h.id = i /\ h.service = s
  BY DEF Revoke
<1>2. \A j, t, v : Trust(j, t, v) # h
  BY DEF Revoke, Trust
<1>3. \A j, t : Revoke(j, t) = h => j = i /\ t = s
  <2> SUFFICES ASSUME NEW j, NEW t, h = Revoke(j, t) PROVE j = i /\ t = s
    OBVIOUS
  <2>1. Revoke(j, t).id = j /\ Revoke(j, t).service = t
    BY DEF Revoke
  <2> HIDE DEF h
  <2> QED BY <1>1, <2>1
<1>4. next[i][s] = None /\ \A j \in Names, t \in Services : j # i \/ t # s => next[j][t] = creds[j][t]
  BY DEF Rosters, Credentials
<1> HIDE DEF h, next
<1>5. ASSUME NEW j \in Names, NEW t \in Services
      PROVE  /\ \A v \in Repos : Trust(j, t, v) \in U => R[j][t] = v
             /\ (\A v \in Repos : Trust(j, t, v) \notin U) => R[j][t] = IF Revoke(j, t) \in U THEN None ELSE next[j][t]
  <2>1. \A v \in Repos : Trust(j, t, v) \in {h} \cup U <=> Trust(j, t, v) \in U
    BY <1>2
  <2>2. /\ \A v \in Repos : Trust(j, t, v) \in {h} \cup U => R[j][t] = v
        /\ (\A v \in Repos : Trust(j, t, v) \notin {h} \cup U)
             => R[j][t] = IF Revoke(j, t) \in {h} \cup U THEN None ELSE creds[j][t]
    BY DEF Leads, h
  <2>3. j = i /\ t = s => Revoke(j, t) \in {h} \cup U
    BY DEF h
  <2>4. j # i \/ t # s => (Revoke(j, t) \in {h} \cup U <=> Revoke(j, t) \in U)
    BY <1>3
  <2> QED BY <1>4, <2>1, <2>2, <2>3, <2>4
<1>6. Leads(next, U, R)
  BY <1>5 DEF Leads
<1> QED BY <1>6 DEF next

\* A tag, once recorded, is not recorded again.
LEMMA TaggedTag ==
  ASSUME NEW q, NEW U, NEW old \in Tags, NEW G, NEW s \in Services, NEW v \in Repos \cup {Azure},
         \A x \in U : MayFollow(q, RecordSource(s, v), x),
         Tagged(old, {RecordSource(s, v)} \cup U, G)
  PROVE  Tagged([old EXCEPT ![s] = v], U, G)
<1> DEFINE h == RecordSource(s, v)
           next == [old EXCEPT ![s] = v]
<1>1. h.do = "tag" /\ h.service = s /\ h.value = v
  BY DEF RecordSource
<1>2. \A w : RecordSource(s, w) \notin U
  <2> SUFFICES ASSUME NEW w, RecordSource(s, w) \in U PROVE FALSE
    OBVIOUS
  <2>1. RecordSource(s, w).do = "tag" /\ RecordSource(s, w).service = s
    BY DEF RecordSource
  <2>2. MayFollow(q, h, RecordSource(s, w))
    OBVIOUS
  <2> HIDE DEF h
  <2> QED BY <1>1, <2>1, <2>2 DEF MayFollow
<1>3. \A t, w : h = RecordSource(t, w) => t = s /\ w = v
  <2> SUFFICES ASSUME NEW t, NEW w, h = RecordSource(t, w) PROVE t = s /\ w = v
    OBVIOUS
  <2>1. RecordSource(t, w).service = t /\ RecordSource(t, w).value = w
    BY DEF RecordSource
  <2> HIDE DEF h
  <2> QED BY <1>1, <2>1
<1>4. G[s] = v
  BY DEF Tagged
<1>5. next[s] = v /\ \A t \in Services : t # s => next[t] = old[t]
  BY DEF Tags
<1> HIDE DEF h, next
<1>6. ASSUME NEW t \in Services
      PROVE  /\ \A w \in Repos \cup {Azure} : RecordSource(t, w) \in U => G[t] = w
             /\ (\A w \in Repos \cup {Azure} : RecordSource(t, w) \notin U) => G[t] = next[t]
  <2>1. CASE t = s
    BY <1>2, <1>4, <1>5, <2>1
  <2>2. CASE t # s
    <3>1. \A w \in Repos \cup {Azure} : RecordSource(t, w) \in {h} \cup U <=> RecordSource(t, w) \in U
      BY <1>3, <2>2
    <3>2. /\ \A w \in Repos \cup {Azure} : RecordSource(t, w) \in {h} \cup U => G[t] = w
          /\ (\A w \in Repos \cup {Azure} : RecordSource(t, w) \notin {h} \cup U) => G[t] = old[t]
      BY DEF Tagged, h
    <3> QED BY <1>5, <2>2, <3>1, <3>2
  <2> QED BY <2>1, <2>2
<1>7. Tagged(next, U, G)
  BY <1>6 DEF Tagged
<1> QED BY <1>7 DEF next

\* With no such step left, the credentials and the tags are what was led to.
LEMMA LeadsNowhere ==
  ASSUME NEW T, NEW creds \in Rosters, NEW R \in Rosters, ~HasDo(T, {"trust", "revoke"}), Leads(creds, T, R)
  PROVE  R = creds
<1>1. \A i, s, r : Trust(i, s, r) \notin T
  BY DEF HasDo, Trust
<1>2. \A i, s : Revoke(i, s) \notin T
  BY DEF HasDo, Revoke
<1>3. \A i \in Names, s \in Services : R[i][s] = creds[i][s]
  BY <1>1, <1>2 DEF Leads
<1>4. \A i \in Names : R[i] = creds[i]
  <2> SUFFICES ASSUME NEW i \in Names PROVE R[i] = creds[i]
    OBVIOUS
  <2>1. R[i] \in Credentials /\ creds[i] \in Credentials
    BY DEF Rosters
  <2> QED BY <1>3, <2>1 DEF Credentials
<1> QED BY <1>4 DEF Rosters

\* With no tag left to record, the tags are what was led to.
LEMMA TaggedNowhere ==
  ASSUME NEW T, NEW old \in Tags, NEW G \in Tags, ~HasDo(T, {"tag"}), Tagged(old, T, G)
  PROVE  G = old
<1>1. \A s, v : RecordSource(s, v) \notin T
  BY DEF HasDo, RecordSource
<1>2. \A s \in Services : G[s] = old[s]
  BY <1>1 DEF Tagged
<1> QED BY <1>2 DEF Tags

---------------------------------------------------------------------------
(* What a call that runs by itself has planned: credentials R and tags G,  *)
(* the same after each of its steps.                                       *)

\* Goal, of any credentials and tags.
GoalAt(q, R, G) ==
  CASE q.op = "onboard" ->
         /\ \A i \in Names : R[i][q.service] = q.repo
         /\ q.source = "azure" => G[q.service] = Azure
         /\ q.source = "fork" => G[q.service] = q.repo
    [] q.op = "remove" ->
         /\ \A i \in Names : R[i][q.service] = None
         /\ G[q.service] \notin Repos
    [] OTHER ->
         q.forks # None => \A s \in Services :
           IF Declares(q.forks, s)
             THEN /\ \A i \in Names : R[i][s] = ForkOf(q.forks, s).repo
                  /\ G[s] = (IF ForkOf(q.forks, s).follows THEN ForkOf(q.forks, s).repo ELSE Azure)
             ELSE G[s] \notin Repos /\ \A i \in Names : R[i][s] = None

\* What even a blocked reconciliation gets to (BlockedStillReconciles).
StillAt(forks, R, G) == \A s \in Services :
  /\ ~Declares(forks, s) => \A i \in Names : R[i][s] = None
  /\ R[Deployer][s] # None => Declares(forks, s) /\ R[Deployer][s] = ForkOf(forks, s).repo
  /\ G[s] \in Repos => Declares(forks, s) /\ ForkOf(forks, s).follows
                       /\ G[s] = ForkOf(forks, s).repo /\ R[Deployer][s] = G[s]

\* Every tag follows what the deployer trusts.
FollowsAt(R, G) == \A s \in Services : G[s] \in Repos => R[Deployer][s] = G[s]

\* Azure accepts each of the writes, once the revocations before it are done.
Room(creds, T, R) == \A i \in Names, s \in Services, r \in Repos : Trust(i, s, r) \in T =>
  /\ creds[i][s] = None \/ Revoke(i, s) \in T
  /\ Held(R[i]) <= MaxCredentials
  /\ \A t \in Services \ {s} : R[i][t] # r

\* The operations that bring every service to the declaration.
Reconciles(q) == q.op \in {"reconcile", "up"}

\* The steps T lead to credentials R and tags G that keep the operation's
\* promises, and rebuild the projections unless they agree with R and G.
Planned(creds, old, trusted, canonical, q, T, R, G) ==
  /\ Leads(creds, T, R) /\ Tagged(old, T, G)
  /\ ~HasDo(T, {"project roster", "sync roster"}) => trusted = RosterRepos(R)
  /\ ~HasDo(T, {"project sources", "sync sources"}) => canonical = ForkSources(G)
  /\ HasDo(T, {"raise"}) => Reconciles(q) /\ q.forks # None
  /\ ~HasDo(T, {"raise"}) => GoalAt(q, R, G)
  /\ Reconciles(q) => Room(creds, T, R)
  /\ Reconciles(q) => IF q.forks = None THEN FollowsAt(R, G) ELSE StillAt(q.forks, R, G)

\* A step of another kind than those asked for can be left out.
LEMMA HasDoOther ==
  ASSUME NEW h, NEW U, NEW kinds, h.do \notin kinds
  PROVE  HasDo({h} \cup U, kinds) <=> HasDo(U, kinds)
BY DEF HasDo

\* A step that changes no credential leaves the room for the others.
LEMMA RoomOther ==
  ASSUME NEW h, NEW U, NEW creds, NEW R, h.do \notin {"trust", "revoke"}, Room(creds, {h} \cup U, R)
  PROVE  Room(creds, U, R)
<1>1. \A i, s : Revoke(i, s) # h
  BY DEF Revoke
<1> QED BY <1>1 DEF Room

\* Opening an environment and checking its rules change nothing planned.
LEMMA PlannedCheck ==
  ASSUME NEW h, NEW U, NEW creds, NEW old, NEW trusted, NEW canonical, NEW q, NEW R, NEW G,
         h.do \in {"open", "check"},
         Planned(creds, old, trusted, canonical, q, {h} \cup U, R, G)
  PROVE  Planned(creds, old, trusted, canonical, q, U, R, G)
<1> DEFINE T == {h} \cup U
<1>1. /\ Leads(creds, T, R) => Leads(creds, U, R)
      /\ Tagged(old, T, G) => Tagged(old, U, G)
      /\ Room(creds, T, R) => Room(creds, U, R)
  BY LeadsOther, TaggedOther, RoomOther
<1>2. /\ HasDo(T, {"project roster", "sync roster"}) <=> HasDo(U, {"project roster", "sync roster"})
      /\ HasDo(T, {"project sources", "sync sources"}) <=> HasDo(U, {"project sources", "sync sources"})
      /\ HasDo(T, {"raise"}) <=> HasDo(U, {"raise"})
  BY HasDoOther
<1> HIDE DEF T
<1>3. Planned(creds, old, trusted, canonical, q, T, R, G)
  BY DEF T
<1> QED BY <1>1, <1>2, <1>3 DEF Planned

\* Trust, once written, leads to the same credentials and tags.
LEMMA PlannedTrust ==
  ASSUME NEW i \in Names, NEW s \in Services, NEW r \in Repos, NEW U, NEW creds \in Rosters,
         NEW old, NEW trusted, NEW canonical, NEW q, NEW R, NEW G,
         \A x \in U : MayFollow(q, Trust(i, s, r), x),
         Planned(creds, old, trusted, canonical, q, {Trust(i, s, r)} \cup U, R, G)
  PROVE  Planned([creds EXCEPT ![i][s] = r], old, trusted, canonical, q, U, R, G)
<1> DEFINE h == Trust(i, s, r)
           T == {h} \cup U
           next == [creds EXCEPT ![i][s] = r]
<1>1. h.do = "trust"
  BY DEF Trust
<1>2. Planned(creds, old, trusted, canonical, q, T, R, G)
  OBVIOUS
<1>3. Leads(next, U, R) /\ \A j, t : Revoke(j, t) \notin U
  BY <1>2, LeadsTrust DEF Planned
<1>4. \A j, t : Revoke(j, t) # h
  BY DEF Trust, Revoke
<1>5. \A j \in Names, t \in Services : next[j][t] = IF j = i /\ t = s THEN r ELSE creds[j][t]
  BY DEF Rosters, Credentials
<1>6. \A v : Trust(i, s, v) \notin U
  <2> SUFFICES ASSUME NEW v, Trust(i, s, v) \in U PROVE FALSE
    OBVIOUS
  <2>1. MayFollow(q, h, Trust(i, s, v))
    OBVIOUS
  <2>2. Trust(i, s, v).do = "trust" /\ Trust(i, s, v).id = i /\ Trust(i, s, v).service = s
    BY DEF Trust
  <2>3. h.id = i /\ h.service = s
    BY DEF Trust
  <2> HIDE DEF h
  <2> QED BY <1>1, <2>1, <2>2, <2>3 DEF MayFollow
<1> HIDE DEF h, next
<1>7. Tagged(old, T, G) => Tagged(old, U, G)
  BY <1>1, TaggedOther
<1>8. /\ HasDo(T, {"project roster", "sync roster"}) <=> HasDo(U, {"project roster", "sync roster"})
      /\ HasDo(T, {"project sources", "sync sources"}) <=> HasDo(U, {"project sources", "sync sources"})
      /\ HasDo(T, {"raise"}) <=> HasDo(U, {"raise"})
  BY <1>1, HasDoOther
<1>9. Room(creds, T, R) => Room(next, U, R)
  <2> SUFFICES ASSUME Room(creds, T, R), NEW j \in Names, NEW t \in Services, NEW v \in Repos, Trust(j, t, v) \in U
               PROVE  next[j][t] = None /\ Held(R[j]) <= MaxCredentials /\ \A u \in Services \ {t} : R[j][u] # v
    BY DEF Room
  <2>1. /\ creds[j][t] = None \/ Revoke(j, t) \in T
        /\ Held(R[j]) <= MaxCredentials /\ \A u \in Services \ {t} : R[j][u] # v
    BY DEF Room
  <2>2. Revoke(j, t) \notin T
    BY <1>3, <1>4
  <2>3. ~(j = i /\ t = s)
    BY <1>6
  <2> QED BY <1>5, <2>1, <2>2, <2>3
<1> HIDE DEF T
<1>10. Planned(next, old, trusted, canonical, q, U, R, G)
  BY <1>2, <1>3, <1>7, <1>8, <1>9 DEF Planned
<1> QED BY <1>10 DEF next

\* So does trust that is taken away.
LEMMA PlannedRevoke ==
  ASSUME NEW i \in Names, NEW s \in Services, NEW U, NEW creds \in Rosters,
         NEW old, NEW trusted, NEW canonical, NEW q, NEW R, NEW G,
         Planned(creds, old, trusted, canonical, q, {Revoke(i, s)} \cup U, R, G)
  PROVE  Planned([creds EXCEPT ![i][s] = None], old, trusted, canonical, q, U, R, G)
<1> DEFINE h == Revoke(i, s)
           T == {h} \cup U
           next == [creds EXCEPT ![i][s] = None]
<1>1. h.do = "revoke" /\ h.id = i /\ h.service = s
  BY DEF Revoke
<1>2. Planned(creds, old, trusted, canonical, q, T, R, G)
  OBVIOUS
<1>3. Leads(next, U, R)
  BY <1>2, LeadsRevoke DEF Planned
<1>4. \A j, t : Revoke(j, t) = h => j = i /\ t = s
  <2> SUFFICES ASSUME NEW j, NEW t, Revoke(j, t) = h PROVE j = i /\ t = s
    OBVIOUS
  <2>1. Revoke(j, t).id = j /\ Revoke(j, t).service = t
    BY DEF Revoke
  <2> HIDE DEF h
  <2> QED BY <1>1, <2>1
<1>5. \A j \in Names, t \in Services : next[j][t] = IF j = i /\ t = s THEN None ELSE creds[j][t]
  BY DEF Rosters, Credentials
<1> HIDE DEF h, next
<1>6. Tagged(old, T, G) => Tagged(old, U, G)
  BY <1>1, TaggedOther
<1>7. /\ HasDo(T, {"project roster", "sync roster"}) <=> HasDo(U, {"project roster", "sync roster"})
      /\ HasDo(T, {"project sources", "sync sources"}) <=> HasDo(U, {"project sources", "sync sources"})
      /\ HasDo(T, {"raise"}) <=> HasDo(U, {"raise"})
  BY <1>1, HasDoOther
<1>8. Room(creds, T, R) => Room(next, U, R)
  <2> SUFFICES ASSUME Room(creds, T, R), NEW j \in Names, NEW t \in Services, NEW v \in Repos, Trust(j, t, v) \in U
               PROVE  /\ next[j][t] = None \/ Revoke(j, t) \in U
                      /\ Held(R[j]) <= MaxCredentials /\ \A u \in Services \ {t} : R[j][u] # v
    BY DEF Room
  <2>1. /\ creds[j][t] = None \/ Revoke(j, t) \in T
        /\ Held(R[j]) <= MaxCredentials /\ \A u \in Services \ {t} : R[j][u] # v
    BY DEF Room
  <2> QED BY <1>4, <1>5, <2>1
<1> HIDE DEF T
<1>9. Planned(next, old, trusted, canonical, q, U, R, G)
  BY <1>2, <1>3, <1>6, <1>7, <1>8 DEF Planned
<1> QED BY <1>9 DEF next

\* So does a source that is recorded.
LEMMA PlannedTag ==
  ASSUME NEW s \in Services, NEW v \in Repos \cup {Azure}, NEW U, NEW creds, NEW old \in Tags,
         NEW trusted, NEW canonical, NEW q, NEW R, NEW G,
         \A x \in U : MayFollow(q, RecordSource(s, v), x),
         Planned(creds, old, trusted, canonical, q, {RecordSource(s, v)} \cup U, R, G)
  PROVE  Planned(creds, [old EXCEPT ![s] = v], trusted, canonical, q, U, R, G)
<1> DEFINE h == RecordSource(s, v)
           T == {h} \cup U
           next == [old EXCEPT ![s] = v]
<1>1. h.do = "tag"
  BY DEF RecordSource
<1>2. Planned(creds, old, trusted, canonical, q, T, R, G)
  OBVIOUS
<1>3. Tagged(next, U, G)
  BY <1>2, TaggedTag DEF Planned
<1> HIDE DEF h, next
<1>4. /\ Leads(creds, T, R) => Leads(creds, U, R)
      /\ Room(creds, T, R) => Room(creds, U, R)
  BY <1>1, LeadsOther, RoomOther
<1>5. /\ HasDo(T, {"project roster", "sync roster"}) <=> HasDo(U, {"project roster", "sync roster"})
      /\ HasDo(T, {"project sources", "sync sources"}) <=> HasDo(U, {"project sources", "sync sources"})
      /\ HasDo(T, {"raise"}) <=> HasDo(U, {"raise"})
  BY <1>1, HasDoOther
<1> HIDE DEF T
<1>6. Planned(creds, next, trusted, canonical, q, U, R, G)
  BY <1>2, <1>3, <1>4, <1>5 DEF Planned
<1> QED BY <1>6 DEF next

\* The step rebuilds the trusted repositories' projection.
Publishes(h) == h.do \in {"project roster", "sync roster"}

\* The trusted repositories are projected when no credential changes any more.
LEMMA PlannedRoster ==
  ASSUME NEW h, NEW U, NEW creds \in Rosters, NEW old, NEW trusted, NEW canonical, NEW q,
         NEW R \in Rosters, NEW G, Publishes(h),
         \A x \in U : MayFollow(q, h, x),
         Planned(creds, old, trusted, canonical, q, {h} \cup U, R, G)
  PROVE  Planned(creds, old, RosterRepos(creds), canonical, q, U, R, G)
<1> DEFINE T == {h} \cup U
<1>1. Planned(creds, old, trusted, canonical, q, T, R, G) /\ h.do \in {"project roster", "sync roster"}
  BY DEF Publishes
<1>2. ~HasDo(T, {"trust", "revoke"})
  BY <1>1 DEF HasDo, MayFollow
<1>3. R = creds
  BY <1>1, <1>2, LeadsNowhere DEF Planned
<1>4. /\ Leads(creds, T, R) => Leads(creds, U, R)
      /\ Tagged(old, T, G) => Tagged(old, U, G)
      /\ Room(creds, T, R) => Room(creds, U, R)
  BY <1>1, LeadsOther, TaggedOther, RoomOther
<1>5. /\ HasDo(T, {"project sources", "sync sources"}) <=> HasDo(U, {"project sources", "sync sources"})
      /\ HasDo(T, {"raise"}) <=> HasDo(U, {"raise"})
  BY <1>1, HasDoOther
<1> HIDE DEF T
<1> QED BY <1>1, <1>3, <1>4, <1>5 DEF Planned

\* The sources are projected when no tag changes any more.
LEMMA PlannedSources ==
  ASSUME NEW h, NEW U, NEW creds, NEW old \in Tags, NEW trusted, NEW canonical, NEW q,
         NEW R, NEW G \in Tags, h.do \in {"project sources", "sync sources"},
         \A x \in U : MayFollow(q, h, x),
         Planned(creds, old, trusted, canonical, q, {h} \cup U, R, G)
  PROVE  Planned(creds, old, trusted, ForkSources(old), q, U, R, G)
<1> DEFINE T == {h} \cup U
<1>1. Planned(creds, old, trusted, canonical, q, T, R, G)
  OBVIOUS
<1>2. ~HasDo(T, {"tag"})
  BY DEF HasDo, MayFollow
<1>3. G = old
  BY <1>1, <1>2, TaggedNowhere DEF Planned
<1>4. /\ Leads(creds, T, R) => Leads(creds, U, R)
      /\ Tagged(old, T, G) => Tagged(old, U, G)
      /\ Room(creds, T, R) => Room(creds, U, R)
  BY LeadsOther, TaggedOther, RoomOther
<1>5. /\ HasDo(T, {"project roster", "sync roster"}) <=> HasDo(U, {"project roster", "sync roster"})
      /\ HasDo(T, {"raise"}) <=> HasDo(U, {"raise"})
  BY HasDoOther
<1> HIDE DEF T
<1> QED BY <1>1, <1>3, <1>4, <1>5 DEF Planned

\* What is left out is reported once everything else is done.
LEMMA PlannedRaise ==
  ASSUME NEW h, NEW U, NEW creds \in Rosters, NEW old \in Tags, NEW trusted, NEW canonical, NEW q,
         NEW R \in Rosters, NEW G \in Tags, h.do = "raise",
         \A x \in U : MayFollow(q, h, x),
         Planned(creds, old, trusted, canonical, q, {h} \cup U, R, G)
  PROVE  Reconciles(q) /\ q.forks # None /\ StillAt(q.forks, creds, old)
<1> DEFINE T == {h} \cup U
<1>1. Planned(creds, old, trusted, canonical, q, T, R, G)
  OBVIOUS
<1>2. ~HasDo(T, {"trust", "revoke"}) /\ ~HasDo(T, {"tag"}) /\ HasDo(T, {"raise"})
  BY DEF HasDo, MayFollow
<1>3. R = creds /\ G = old
  BY <1>1, <1>2, LeadsNowhere, TaggedNowhere DEF Planned
<1> HIDE DEF T
<1> QED BY <1>1, <1>2, <1>3 DEF Planned

\* The trust a reconciliation writes is accepted.
LEMMA PlannedAccepted ==
  ASSUME NEW i \in Names, NEW s \in Services, NEW r \in Repos, NEW U, NEW creds \in Rosters,
         NEW old, NEW trusted, NEW canonical, NEW q, NEW R \in Rosters, NEW G,
         Reconciles(q), \A x \in U : MayFollow(q, Trust(i, s, r), x),
         Planned(creds, old, trusted, canonical, q, {Trust(i, s, r)} \cup U, R, G)
  PROVE  /\ \A t \in Services \ {s} : creds[i][t] # r
         /\ Held(creds[i]) < MaxCredentials
<1> DEFINE h == Trust(i, s, r)
           T == {h} \cup U
<1>1. Leads(creds, T, R) /\ Room(creds, T, R)
  BY DEF Planned
<1>2. \A j, t : Revoke(j, t) \notin T
  <2>1. \A j, t : Revoke(j, t) \notin U
    BY <1>1, LeadsTrust
  <2>2. \A j, t : Revoke(j, t) # h
    BY DEF Trust, Revoke
  <2> QED BY <2>1, <2>2
<1>3. /\ creds[i][s] = None /\ Held(R[i]) <= MaxCredentials
      /\ \A t \in Services \ {s} : R[i][t] # r
  BY <1>1, <1>2 DEF Room
<1>4. \A t \in Services : creds[i][t] # None => R[i][t] = creds[i][t]
  BY <1>1, <1>2 DEF Room, Leads
<1>5. R[i][s] = r
  BY <1>1 DEF Leads
<1>6. r # None
  BY Markers
<1> HIDE DEF T
<1>7. \A t \in Services \ {s} : creds[i][t] # r
  BY <1>3, <1>4, <1>6
<1> DEFINE now == {t \in Services : creds[i][t] # None}
           then == {t \in Services : R[i][t] # None}
<1>8. Held(creds[i]) = Cardinality(now) /\ Held(R[i]) = Cardinality(then)
  BY DEF Held
<1>9. now \subseteq then /\ s \in then \ now
  BY <1>3, <1>4, <1>5, <1>6
<1>10. IsFiniteSet(Services) /\ then \subseteq Services
  BY Lists
<1> HIDE DEF now, then
<1>11. IsFiniteSet(then) /\ IsFiniteSet(now)
  BY <1>9, <1>10, FS_Subset
<1>12. Cardinality(now) < Cardinality(then) /\ Cardinality(now) \in Nat /\ Cardinality(then) \in Nat
  <2>1. now # then
    BY <1>9
  <2>2. Cardinality(now) \in Nat /\ Cardinality(then) \in Nat
    BY <1>11, FS_CardinalityType
  <2>3. Cardinality(now) < Cardinality(then)
    <3>1. Cardinality(now) <= Cardinality(then) /\ Cardinality(now) # Cardinality(then)
      BY <1>9, <1>11, <2>1, FS_Subset
    <3> QED BY <2>2, <3>1
  <2> QED BY <2>2, <2>3
<1>13. MaxCredentials \in Nat
  BY TrustPlanAssumption
<1> QED BY <1>3, <1>7, <1>8, <1>12, <1>13

---------------------------------------------------------------------------
(* What holds of every plan, on the observation it was made from.          *)

\* Trust is written after the environment's rules were seen to admit every
\* branch, or are checked.
Cleared(T, seen) == \A x \in T : x.do = "trust" => x.repo \in seen \/ CheckRules(x.repo) \in T

\* Only a removal and a reconciliation revoke.
RevokesFor(q, T) == \A i, s : Revoke(i, s) \in T =>
  (q.op = "remove" /\ s = q.service) \/ (Reconciles(q) /\ q.forks # None)

\* The steps of a plan are in order and checked, whatever it promises.
PlanShaped(o, q, steps) ==
  /\ steps \in Seq(Steps) /\ Ordered(q, steps)
  /\ Cleared(ToSet(steps), o.open)
  /\ HasDo(ToSet(steps), {"open"}) => HasDo(ToSet(steps), {"check"})
  /\ RevokesFor(q, ToSet(steps))

\* They also lead to what the operation promises.
PlanSound(o, q, steps) ==
  /\ PlanShaped(o, q, steps)
  /\ \E R \in Rosters, G \in Tags :
       Planned(o.roster, o.tags, o.projection, o.sources, q, ToSet(steps), R, G)

\* The cluster phase of one service.
LEMMA ClusterList ==
  ASSUME NEW o, NEW trusted, NEW canonical
  PROVE  LET e == ClusterSteps(o, trusted, canonical) IN
         /\ e \in Seq(Steps) /\ ToSet(e) \subseteq {ProjectRoster, ProjectSources}
         /\ ProjectRoster \in ToSet(e) <=> trusted # o.projection
         /\ ProjectSources \in ToSet(e) <=> canonical # o.sources
         /\ e = <<>> <=> trusted = o.projection /\ canonical = o.sources
         /\ \A q : Ordered(q, e)
<1> DEFINE a == When(trusted # o.projection, ProjectRoster)
           b == When(canonical # o.sources, ProjectSources)
           e == ClusterSteps(o, trusted, canonical)
<1>1. ProjectRoster \in Steps /\ ProjectSources \in Steps
  BY StepsAre
<1>2. /\ a \in Seq(Steps) /\ ToSet(a) = (IF trusted # o.projection THEN {ProjectRoster} ELSE {})
      /\ b \in Seq(Steps) /\ ToSet(b) = (IF canonical # o.sources THEN {ProjectSources} ELSE {})
  BY <1>1, WhenList
<1>3. e = a \o b
  BY DEF ClusterSteps
<1> HIDE DEF a, b, e
<1>4. e \in Seq(Steps) /\ ToSet(e) = ToSet(a) \cup ToSet(b)
  BY <1>2, <1>3, ConcatSet
<1>5. ProjectRoster # ProjectSources
  BY DEF ProjectRoster, ProjectSources
<1>6. e = <<>> <=> ToSet(e) = {}
  BY <1>4, SeqSet
<1>7. ASSUME NEW q PROVE Ordered(q, e)
  <2>1. ProjectRoster.do = "project roster" /\ ProjectSources.do = "project sources"
    BY DEF ProjectRoster, ProjectSources
  <2>3. ToSet(e) \subseteq {ProjectRoster, ProjectSources}
    BY <1>2, <1>4
  <2>0. \A x \in ToSet(e) : x.do \in {"project roster", "project sources"}
    BY <2>1, <2>3
  <2>2. \A x, y \in ToSet(e) : MayFollow(q, x, y)
    BY <2>0 DEF MayFollow
  <2> QED BY <1>4, <2>2, AnyOrder
<1> QED BY <1>2, <1>4, <1>5, <1>6, <1>7 DEF e

\* The credentials of one service, changed on every identity.
OneService(creds, s, c) == [i \in Names |-> [creds[i] EXCEPT ![s] = c]]

\* What such a change does to the roster and to the projection.
LEMMA OneServiceChanged ==
  ASSUME NEW creds \in Rosters, NEW s \in Services, NEW c \in Repos \cup {None}
  PROVE  /\ OneService(creds, s, c) \in Rosters
         /\ \A i \in Names, t \in Services : OneService(creds, s, c)[i][t] = IF t = s THEN c ELSE creds[i][t]
         /\ \A t \in Services : RosterRepos(OneService(creds, s, c))[t] = IF t = s THEN c ELSE RosterRepos(creds)[t]
<1> DEFINE R == OneService(creds, s, c)
<1>1. \A i \in Names : creds[i] \in [Services -> Repos \cup {None, Malformed}]
  BY DEF Rosters, Credentials
<1>2. \A i \in Names : R[i] \in [Services -> Repos \cup {None, Malformed}]
  BY <1>1 DEF OneService
<1>3. R \in Rosters
  BY <1>2 DEF Rosters, Credentials, OneService
<1>4. \A i \in Names, t \in Services : R[i][t] = IF t = s THEN c ELSE creds[i][t]
  BY <1>1 DEF OneService
<1>5. Deployer \in Names /\ None \notin Repos
  BY Lists, Markers
<1> HIDE DEF R
<1>6. \A t \in Services : RosterRepos(R)[t] = IF t = s THEN c ELSE RosterRepos(creds)[t]
  BY <1>4, <1>5 DEF RosterRepos
<1> QED BY <1>3, <1>4, <1>6 DEF R

\* The plan of an onboarding that is not refused.
LEMMA OnboardPlan ==
  ASSUME NEW o \in Observations, NEW q \in OnboardRequest, ~OnboardRefused(o, q)
  PROVE  PlanSound(o, q, OnboardSteps(o, q))
<1> DEFINE s == q.service
           r == q.repo
           v == DesiredSource(o, q)
           R == OneService(o.roster, s, r)
           G == [o.tags EXCEPT ![s] = v]
           steps == OnboardSteps(o, q)
<1>1. /\ q.op = "onboard" /\ s \in Services /\ r \in Repos /\ q.source \in {"recorded", "fork", "azure"}
      /\ q.skip \in BOOLEAN
  BY DEF OnboardRequest
<1>2. o.roster \in Rosters /\ o.tags \in Tags /\ o.open \subseteq Repos
  BY DEF Observations
<1>3. v \in Repos \cup {Azure} /\ (q.source = "azure" => v = Azure) /\ (q.source = "fork" => v = r)
  BY <1>1 DEF DesiredSource
<1>4. /\ R \in Rosters /\ G \in Tags
      /\ \A i \in Names, t \in Services : R[i][t] = IF t = s THEN r ELSE o.roster[i][t]
      /\ \A t \in Services : G[t] = IF t = s THEN v ELSE o.tags[t]
      /\ RosterRepos(R) = [RosterRepos(o.roster) EXCEPT ![s] = r]
  <2>1. s \in Services /\ r \in Repos \cup {None} /\ v \in Repos \cup {Azure, None}
    BY <1>1, <1>3
  <2> HIDE DEF s, r, v
  <2>2. /\ R \in Rosters
        /\ \A i \in Names, t \in Services : R[i][t] = IF t = s THEN r ELSE o.roster[i][t]
        /\ \A t \in Services : RosterRepos(R)[t] = IF t = s THEN r ELSE RosterRepos(o.roster)[t]
    <3> HIDE DEF G
    <3> QED BY <1>2, <2>1, OneServiceChanged
  <2>4. RosterRepos(R) = [RosterRepos(o.roster) EXCEPT ![s] = r]
    <3>1. \A t \in Services : RosterRepos(R)[t] = [RosterRepos(o.roster) EXCEPT ![s] = r][t]
      BY <2>2 DEF RosterRepos
    <3> HIDE DEF R
    <3> QED BY <3>1 DEF RosterRepos
  <2>3. G \in Tags /\ \A t \in Services : G[t] = IF t = s THEN v ELSE o.tags[t]
    BY <1>2, <2>1 DEF Tags
  <2> QED BY <2>2, <2>3, <2>4
<1>5. ~Reconciles(q)
  BY <1>1 DEF Reconciles
<1>6. GoalAt(q, R, G)
  BY <1>1, <1>3, <1>4 DEF GoalAt
<1>7. CASE NothingToOnboard(o, q)
  <2>1. steps = <<>>
    BY <1>7 DEF OnboardSteps
  <2>2. /\ \A i \in Names : o.roster[i][s] = r
        /\ o.tags[s] = v
        /\ [RosterRepos(o.roster) EXCEPT ![s] = r] = o.projection /\ ForkSources(o.tags) = o.sources
    BY <1>7 DEF NothingToOnboard
  <2>3. G = o.tags
    BY <1>2, <2>2 DEF Tags
  <2> HIDE DEF R, G, v, s, r
  <2>4. Leads(o.roster, {}, R) /\ Tagged(o.tags, {}, G)
    BY <1>4, <2>2 DEF Leads, Tagged
  <2>5. Planned(o.roster, o.tags, o.projection, o.sources, q, {}, R, G)
    BY <1>4, <1>5, <1>6, <2>2, <2>3, <2>4 DEF Planned, HasDo
  <2>6. Cleared({}, o.open) /\ ~HasDo({}, {"open"}) /\ RevokesFor(q, {})
    BY DEF Cleared, HasDo, RevokesFor
  <2>7. <<>> \in Seq(Steps) /\ ToSet(<<>>) = {} /\ Ordered(q, <<>>)
    BY EmptySet, ShortOrdered
  <2> HIDE DEF steps
  <2>8. PlanSound(o, q, steps)
    BY <1>4, <2>1, <2>5, <2>6, <2>7 DEF PlanSound, PlanShaped
  <2> QED BY <2>8 DEF steps
<1>8. CASE ~NothingToOnboard(o, q)
  <2> DEFINE a == When(~q.skip /\ r \notin o.open, OpenEnvironment(r))
             b == <<CheckRules(r)>>
             c == ForEach(LAMBDA i : Trust(i, s, r), Identities)
             d == When(o.tags[s] # v, RecordSource(s, v))
             e == ClusterSteps(o, [RosterRepos(o.roster) EXCEPT ![s] = r], ForkSources(G))
             T == ToSet(steps)
  <2>1. steps = a \o b \o c \o d \o e
    BY <1>8 DEF OnboardSteps
  <2>2. /\ OpenEnvironment(r) \in Steps /\ CheckRules(r) \in Steps /\ RecordSource(s, v) \in Steps
        /\ OpenEnvironment(r).do = "open" /\ CheckRules(r).do = "check" /\ RecordSource(s, v).do = "tag"
    BY <1>1, <1>3, StepsAre DEF OpenEnvironment, CheckRules, RecordSource
  <2>3. /\ a \in Seq(Steps) /\ ToSet(a) = (IF ~q.skip /\ r \notin o.open THEN {OpenEnvironment(r)} ELSE {})
        /\ Ordered(q, a)
    BY <2>2, WhenList
  <2>4. b \in Seq(Steps) /\ ToSet(b) = {CheckRules(r)} /\ Ordered(q, b)
    BY <2>2, OneSet, ShortOrdered
  <2>5. c \in Seq(Steps) /\ ToSet(c) = {Trust(i, s, r) : i \in Names} /\ Ordered(q, c)
    BY <1>1, TrustList
  <2>6. d \in Seq(Steps) /\ ToSet(d) = (IF o.tags[s] # v THEN {RecordSource(s, v)} ELSE {}) /\ Ordered(q, d)
    BY <2>2, WhenList
  <2>7. /\ e \in Seq(Steps) /\ ToSet(e) \subseteq {ProjectRoster, ProjectSources} /\ Ordered(q, e)
        /\ ProjectRoster \in ToSet(e) <=> RosterRepos(R) # o.projection
        /\ ProjectSources \in ToSet(e) <=> ForkSources(G) # o.sources
    BY <1>4, ClusterList
  <2>8. ProjectRoster.do = "project roster" /\ ProjectSources.do = "project sources"
        /\ \A i \in Names : Trust(i, s, r).do = "trust" /\ Trust(i, s, r).repo = r
    BY DEF ProjectRoster, ProjectSources, Trust
  <2> HIDE DEF a, b, c, d, e, R, G, v, s, r
  <2>9. /\ \A x \in ToSet(a) : x.do = "open"
        /\ \A x \in ToSet(b) : x.do = "check"
        /\ \A x \in ToSet(c) : x.do = "trust" /\ x.repo = r
        /\ \A x \in ToSet(d) : x.do = "tag"
        /\ \A x \in ToSet(e) : x.do \in {"project roster", "project sources"}
    BY <2>2, <2>3, <2>4, <2>5, <2>6, <2>7, <2>8
  <2>10. a \o b \in Seq(Steps) /\ ToSet(a \o b) = ToSet(a) \cup ToSet(b) /\ Ordered(q, a \o b)
    <3>1. \A x \in ToSet(a), y \in ToSet(b) : MayFollow(q, x, y)
      BY <2>9 DEF MayFollow
    <3> QED BY <2>3, <2>4, <3>1, ConcatSet, ConcatOrdered
  <2> DEFINE ab == a \o b
             abc == ab \o c
             abcd == abc \o d
  <2> HIDE DEF ab
  <2>0. ab \in Seq(Steps) /\ ToSet(ab) = ToSet(a) \cup ToSet(b) /\ Ordered(q, ab)
    BY <2>10 DEF ab
  <2>11. abc \in Seq(Steps) /\ ToSet(abc) = ToSet(ab) \cup ToSet(c) /\ Ordered(q, abc)
    <3>1. \A x \in ToSet(ab), y \in ToSet(c) : MayFollow(q, x, y)
      BY <2>0, <2>9 DEF MayFollow
    <3> QED BY <2>0, <2>5, <3>1, ConcatSet, ConcatOrdered
  <2> HIDE DEF abc
  <2>12. abcd \in Seq(Steps) /\ ToSet(abcd) = ToSet(abc) \cup ToSet(d) /\ Ordered(q, abcd)
    <3>1. \A x \in ToSet(abc), y \in ToSet(d) : MayFollow(q, x, y)
      BY <2>0, <2>9, <2>11 DEF MayFollow
    <3> QED BY <2>6, <2>11, <3>1, ConcatSet, ConcatOrdered
  <2> HIDE DEF abcd
  <2>13. steps \in Seq(Steps) /\ T = ToSet(abcd) \cup ToSet(e) /\ Ordered(q, steps)
    <3>1. \A x \in ToSet(abcd), y \in ToSet(e) : MayFollow(q, x, y)
      BY <2>0, <2>9, <2>11, <2>12 DEF MayFollow
    <3>2. steps = abcd \o e
      BY <2>1 DEF abcd, abc, ab
    <3>3. abcd \o e \in Seq(Steps) /\ ToSet(abcd \o e) = ToSet(abcd) \cup ToSet(e) /\ Ordered(q, abcd \o e)
      BY <2>7, <2>12, <3>1, ConcatSet, ConcatOrdered
    <3> HIDE DEF steps
    <3> QED BY <3>2, <3>3
  <2>14. T = ToSet(a) \cup ToSet(b) \cup ToSet(c) \cup ToSet(d) \cup ToSet(e)
    BY <2>0, <2>11, <2>12, <2>13
  <2> HIDE DEF steps, T
  <2>15. /\ \A i \in Names : Trust(i, s, r) \in T
         /\ \A i, t, w : Trust(i, t, w) \in T => i \in Names /\ t = s /\ w = r
    <3>1. \A i \in Names : Trust(i, s, r) \in T
      BY <2>5, <2>14
    <3>2. ASSUME NEW i, NEW t, NEW w, Trust(i, t, w) \in T PROVE i \in Names /\ t = s /\ w = r
      <4>1. Trust(i, t, w).do = "trust" /\ Trust(i, t, w).id = i /\ Trust(i, t, w).service = t /\ Trust(i, t, w).repo = w
        BY DEF Trust
      <4>2. Trust(i, t, w) \in ToSet(c)
        BY <2>9, <2>14, <3>2, <4>1
      <4>3. PICK j \in Names : Trust(i, t, w) = Trust(j, s, r)
        BY <2>5, <4>2
      <4>4. Trust(j, s, r).id = j /\ Trust(j, s, r).service = s /\ Trust(j, s, r).repo = r
        BY DEF Trust
      <4> QED BY <4>1, <4>3, <4>4
    <3> QED BY <3>1, <3>2
  <2>16. \A i, t : Revoke(i, t) \notin T
    <3>1. \A i, t : Revoke(i, t).do = "revoke"
      BY DEF Revoke
    <3> QED BY <2>9, <2>14, <3>1
  <2>17. /\ o.tags[s] # v => RecordSource(s, v) \in T
         /\ \A t, w : RecordSource(t, w) \in T => t = s /\ w = v
    <3>1. o.tags[s] # v => RecordSource(s, v) \in T
      BY <2>6, <2>14
    <3>2. ASSUME NEW t, NEW w, RecordSource(t, w) \in T PROVE t = s /\ w = v
      <4>1. RecordSource(t, w).do = "tag" /\ RecordSource(t, w).service = t /\ RecordSource(t, w).value = w
        BY DEF RecordSource
      <4>2. RecordSource(t, w) \in ToSet(d)
        BY <2>9, <2>14, <3>2, <4>1
      <4>3. RecordSource(t, w) = RecordSource(s, v)
        BY <2>6, <4>2
      <4>4. RecordSource(s, v).service = s /\ RecordSource(s, v).value = v
        BY DEF RecordSource
      <4> QED BY <4>1, <4>3, <4>4
    <3> QED BY <3>1, <3>2
  <2>18. Leads(o.roster, T, R)
    BY <1>1, <1>4, <2>15, <2>16 DEF Leads, r
  <2>19. Tagged(o.tags, T, G)
    BY <1>3, <1>4, <2>17 DEF Tagged
  <2>20. /\ ~HasDo(T, {"project roster", "sync roster"}) => o.projection = RosterRepos(R)
         /\ ~HasDo(T, {"project sources", "sync sources"}) => o.sources = ForkSources(G)
    BY <2>7, <2>8, <2>14 DEF HasDo
  <2>21. ~HasDo(T, {"raise"})
    BY <2>9, <2>14 DEF HasDo
  <2>22. Planned(o.roster, o.tags, o.projection, o.sources, q, T, R, G)
    BY <1>5, <1>6, <2>18, <2>19, <2>20, <2>21 DEF Planned
  <2>23. Cleared(T, o.open) /\ HasDo(T, {"check"}) /\ RevokesFor(q, T)
    <3>1. CheckRules(r) \in T
      BY <2>4, <2>14
    <3>2. \A x \in T : x.do = "trust" => x.repo = r
      BY <2>9, <2>14
    <3> QED BY <2>2, <2>16, <3>1, <3>2 DEF Cleared, HasDo, RevokesFor
  <2>24. PlanSound(o, q, steps)
    BY <1>4, <2>13, <2>22, <2>23 DEF PlanSound, PlanShaped, T
  <2> QED BY <2>24 DEF steps
<1> QED BY <1>7, <1>8

\* The plan of a removal.
LEMMA RemovePlan ==
  ASSUME NEW o \in Observations, NEW q \in RemoveRequest
  PROVE  PlanSound(o, q, RemoveSteps(o, q))
<1> DEFINE s == q.service
           R == OneService(o.roster, s, None)
           G == IF o.tags[s] \in Repos THEN [o.tags EXCEPT ![s] = Azure] ELSE o.tags
           canonical == ForkSources([o.tags EXCEPT ![s] = Azure])
           steps == RemoveSteps(o, q)
           a == When(o.tags[s] \in Repos, RecordSource(s, Azure))
           b == ForEach(LAMBDA i : Revoke(i, s), Identities)
           c == ClusterSteps(o, [RosterRepos(o.roster) EXCEPT ![s] = None], canonical)
           idle == a = <<>> /\ {i \in Names : o.roster[i][s] # None} = {} /\ c = <<>>
<1>1. q.op = "remove" /\ s \in Services
  BY DEF RemoveRequest
<1>2. o.roster \in Rosters /\ o.tags \in Tags /\ o.open \subseteq Repos
  BY DEF Observations
<1>3. Azure \notin Repos /\ None \notin Repos
  BY Markers
<1>4. /\ R \in Rosters
      /\ \A i \in Names, t \in Services : R[i][t] = IF t = s THEN None ELSE o.roster[i][t]
      /\ RosterRepos(R) = [RosterRepos(o.roster) EXCEPT ![s] = None]
  <2>1. /\ R \in Rosters
        /\ \A i \in Names, t \in Services : R[i][t] = IF t = s THEN None ELSE o.roster[i][t]
        /\ \A t \in Services : RosterRepos(R)[t] = IF t = s THEN None ELSE RosterRepos(o.roster)[t]
    <3>1. s \in Services /\ None \in Repos \cup {None}
      BY <1>1
    <3> HIDE DEF s
    <3> QED BY <1>2, <3>1, OneServiceChanged
  <2>2. \A t \in Services : RosterRepos(R)[t] = [RosterRepos(o.roster) EXCEPT ![s] = None][t]
    BY <2>1 DEF RosterRepos
  <2> HIDE DEF R
  <2>3. RosterRepos(R) = [RosterRepos(o.roster) EXCEPT ![s] = None]
    BY <2>2 DEF RosterRepos
  <2> QED BY <2>1, <2>3
<1>5. /\ G \in Tags /\ G[s] \notin Repos
      /\ \A t \in Services : t # s => G[t] = o.tags[t]
      /\ G[s] = IF o.tags[s] \in Repos THEN Azure ELSE o.tags[s]
  BY <1>1, <1>2, <1>3 DEF Tags
<1>6. canonical = ForkSources(G)
  <2> DEFINE cleared == [o.tags EXCEPT ![s] = Azure]
  <2>1. \A t \in Services : cleared[t] = IF t = s THEN Azure ELSE o.tags[t]
    BY <1>1, <1>2 DEF Tags
  <2> HIDE DEF cleared, G
  <2>2. \A t \in Services : cleared[t] \in Repos => cleared[t] = G[t]
    BY <1>3, <1>5, <2>1
  <2>3. \A t \in Services : G[t] \in Repos => cleared[t] = G[t]
    BY <1>3, <1>5, <2>1
  <2>4. ForkSources(cleared) = ForkSources(G)
    BY <2>2, <2>3 DEF ForkSources
  <2> QED BY <2>4 DEF cleared
<1> HIDE DEF R, G, canonical
<1>7. steps = IF idle THEN <<>> ELSE a \o b \o c
  BY DEF RemoveSteps, canonical
<1>8. RecordSource(s, Azure) \in Steps /\ RecordSource(s, Azure).do = "tag"
  BY <1>1, StepsAre DEF RecordSource
<1>9. a \in Seq(Steps) /\ ToSet(a) = (IF o.tags[s] \in Repos THEN {RecordSource(s, Azure)} ELSE {}) /\ Ordered(q, a)
  <2> DEFINE x == RecordSource(s, Azure)
             follows == o.tags[s] \in Repos
  <2>1. x \in Steps /\ follows \in BOOLEAN /\ a = When(follows, x)
    BY <1>8
  <2> HIDE DEF x, follows, a
  <2>2. a \in Seq(Steps) /\ ToSet(a) = (IF follows THEN {x} ELSE {}) /\ Ordered(q, a)
    BY <2>1, WhenList
  <2> QED BY <2>2 DEF x, follows
<1>10. b \in Seq(Steps) /\ ToSet(b) = {Revoke(i, s) : i \in Names} /\ Ordered(q, b)
  BY <1>1, RevokeList
<1>11. /\ c \in Seq(Steps) /\ ToSet(c) \subseteq {ProjectRoster, ProjectSources} /\ Ordered(q, c)
       /\ ProjectRoster \in ToSet(c) <=> RosterRepos(R) # o.projection
       /\ ProjectSources \in ToSet(c) <=> ForkSources(G) # o.sources
       /\ c = <<>> => RosterRepos(R) = o.projection /\ ForkSources(G) = o.sources
  BY <1>4, <1>6, ClusterList
<1>12. ProjectRoster.do = "project roster" /\ ProjectSources.do = "project sources"
       /\ \A i \in Names : Revoke(i, s).do = "revoke"
  BY DEF ProjectRoster, ProjectSources, Revoke
<1>13. ~Reconciles(q) /\ GoalAt(q, R, G)
  BY <1>1, <1>4, <1>5 DEF Reconciles, GoalAt
<1> HIDE DEF steps, a, b, c
<1>14. CASE idle
  <2>1. o.tags[s] \notin Repos
    <3>1. ToSet(a) = {}
      BY <1>9, <1>14, SeqSet
    <3> QED BY <1>9, <3>1
  <2>2. \A i \in Names : o.roster[i][s] = None
    BY <1>14
  <2>3. RosterRepos(R) = o.projection /\ ForkSources(G) = o.sources
    BY <1>11, <1>14
  <2> HIDE DEF s
  <2>4. Leads(o.roster, {}, R)
    BY <1>4, <2>2 DEF Leads
  <2>5. Tagged(o.tags, {}, G)
    <3>1. \A t \in Services : G[t] = o.tags[t]
      BY <1>5, <2>1
    <3> QED BY <3>1 DEF Tagged
  <2>6. Planned(o.roster, o.tags, o.projection, o.sources, q, {}, R, G)
    BY <1>13, <2>3, <2>4, <2>5 DEF Planned, HasDo
  <2>7. Cleared({}, o.open) /\ ~HasDo({}, {"open"}) /\ RevokesFor(q, {})
    BY DEF Cleared, HasDo, RevokesFor
  <2>8. <<>> \in Seq(Steps) /\ ToSet(<<>>) = {} /\ Ordered(q, <<>>)
    BY EmptySet, ShortOrdered
  <2>9. steps = <<>>
    BY <1>7, <1>14
  <2>10. PlanSound(o, q, steps)
    BY <1>4, <1>5, <2>6, <2>7, <2>8, <2>9 DEF PlanSound, PlanShaped
  <2> QED BY <2>10 DEF steps
<1>15. CASE ~idle
  <2> DEFINE ab == a \o b
             T == ToSet(steps)
  <2>1. /\ \A x \in ToSet(a) : x.do = "tag"
        /\ \A x \in ToSet(b) : x.do = "revoke"
        /\ \A x \in ToSet(c) : x.do \in {"project roster", "project sources"}
    BY <1>8, <1>9, <1>10, <1>11, <1>12
  <2>2. ab \in Seq(Steps) /\ ToSet(ab) = ToSet(a) \cup ToSet(b) /\ Ordered(q, ab)
    <3>1. \A x \in ToSet(a), y \in ToSet(b) : MayFollow(q, x, y)
      BY <2>1 DEF MayFollow
    <3> QED BY <1>9, <1>10, <3>1, ConcatSet, ConcatOrdered
  <2>3. steps = ab \o c
    BY <1>7, <1>15
  <2> HIDE DEF ab
  <2>4. steps \in Seq(Steps) /\ T = ToSet(ab) \cup ToSet(c) /\ Ordered(q, steps)
    <3>1. \A x \in ToSet(ab), y \in ToSet(c) : MayFollow(q, x, y)
      BY <2>1, <2>2 DEF MayFollow
    <3>2. ab \o c \in Seq(Steps) /\ ToSet(ab \o c) = ToSet(ab) \cup ToSet(c) /\ Ordered(q, ab \o c)
      BY <1>11, <2>2, <3>1, ConcatSet, ConcatOrdered
    <3> QED BY <2>3, <3>2
  <2>5. T = ToSet(a) \cup ToSet(b) \cup ToSet(c)
    BY <2>2, <2>4
  <2> HIDE DEF T, idle
  <2>6. \A i, t, w : Trust(i, t, w) \notin T
    <3>1. \A i, t, w : Trust(i, t, w).do = "trust"
      BY DEF Trust
    <3> QED BY <2>1, <2>5, <3>1
  <2>7. /\ \A i \in Names : Revoke(i, s) \in T
        /\ \A i, t : Revoke(i, t) \in T => t = s
    <3>1. \A i \in Names : Revoke(i, s) \in T
      BY <1>10, <2>5
    <3>2. ASSUME NEW i, NEW t, Revoke(i, t) \in T PROVE t = s
      <4>1. Revoke(i, t).do = "revoke" /\ Revoke(i, t).service = t
        BY DEF Revoke
      <4>2. Revoke(i, t) \in ToSet(b)
        BY <2>1, <2>5, <3>2, <4>1
      <4>3. PICK j \in Names : Revoke(i, t) = Revoke(j, s)
        BY <1>10, <4>2
      <4>4. Revoke(j, s).service = s
        BY DEF Revoke
      <4> QED BY <4>1, <4>3, <4>4
    <3> QED BY <3>1, <3>2
  <2>8. /\ o.tags[s] \in Repos => RecordSource(s, Azure) \in T
        /\ \A t, w : RecordSource(t, w) \in T => t = s /\ w = Azure /\ o.tags[s] \in Repos
    <3>1. o.tags[s] \in Repos => RecordSource(s, Azure) \in T
      BY <1>9, <2>5
    <3>2. ASSUME NEW t, NEW w, RecordSource(t, w) \in T PROVE t = s /\ w = Azure /\ o.tags[s] \in Repos
      <4>1. RecordSource(t, w).do = "tag" /\ RecordSource(t, w).service = t /\ RecordSource(t, w).value = w
        BY DEF RecordSource
      <4>2. RecordSource(t, w) \in ToSet(a)
        BY <2>1, <2>5, <3>2, <4>1
      <4>3. RecordSource(t, w) = RecordSource(s, Azure) /\ o.tags[s] \in Repos
        BY <1>9, <4>2
      <4>4. RecordSource(s, Azure).service = s /\ RecordSource(s, Azure).value = Azure
        BY DEF RecordSource
      <4> QED BY <4>1, <4>3, <4>4
    <3> QED BY <3>1, <3>2
  <2> HIDE DEF s
  <2>9. Leads(o.roster, T, R)
    BY <1>4, <2>6, <2>7 DEF Leads
  <2>10. Tagged(o.tags, T, G)
    BY <1>5, <2>8 DEF Tagged
  <2>11. /\ ~HasDo(T, {"project roster", "sync roster"}) => o.projection = RosterRepos(R)
         /\ ~HasDo(T, {"project sources", "sync sources"}) => o.sources = ForkSources(G)
    BY <1>11, <1>12, <2>5 DEF HasDo
  <2>12. ~HasDo(T, {"raise"}) /\ ~HasDo(T, {"open"})
    BY <2>1, <2>5 DEF HasDo
  <2>13. Planned(o.roster, o.tags, o.projection, o.sources, q, T, R, G)
    BY <1>13, <2>9, <2>10, <2>11, <2>12 DEF Planned
  <2>14. Cleared(T, o.open) /\ RevokesFor(q, T)
    BY <1>1, <2>1, <2>5, <2>7 DEF Cleared, RevokesFor, s
  <2>15. PlanSound(o, q, steps)
    BY <1>4, <1>5, <2>4, <2>12, <2>13, <2>14 DEF PlanSound, PlanShaped, T
  <2> QED BY <2>15 DEF steps
<1> QED BY <1>14, <1>15

---------------------------------------------------------------------------
(* Folds, one entry after another.                                         *)

\* The values of a fold, one position after another.
FoldPath(P, b, n, G, acc) ==
  /\ acc \in [0..n -> P] /\ acc[0] = b
  /\ \A k \in 1..n : acc[k] = G[<<acc[k - 1], k>>]

\* `iter` folds as MapThenFoldSet does, where its values are in P.
Folds(P, b, n, G, iter) == \A s \in SUBSET (1..n) :
  IF s = {} THEN iter[s] = b
  ELSE iter[s \ {Max(s)}] \in P => iter[s] = G[<<iter[s \ {Max(s)}], Max(s)>>]

\* A function that folds on the segments 1..k goes through the values of the fold.
LEMMA FoldAlong ==
  ASSUME NEW P, NEW b \in P, NEW n \in Nat, NEW G, Folder(P, n, G), NEW iter, Folds(P, b, n, G, iter)
  PROVE  \E acc : FoldPath(P, b, n, G, acc) /\ acc[n] = iter[1..n]
<1> DEFINE acc == [k \in 0..n |-> iter[1..k]]
           none == 0
           E == {k \in 0..n : iter[1..k] \in P}
<1>1. none \in 0..n /\ none = 0 /\ iter[1..none] = b
  <2>1. 1..none = {} /\ 1..none \in SUBSET (1..n) /\ none \in 0..n
    OBVIOUS
  <2> HIDE DEF none
  <2>2. iter[1..none] = b
    BY <2>1 DEF Folds
  <2> QED BY <2>1, <2>2 DEF none
<1>2. ASSUME NEW k \in 1..n, iter[1..k - 1] \in P PROVE iter[1..k] = G[<<iter[1..k - 1], k>>]
  <2>1. 1..k \in SUBSET (1..n) /\ 1..k # {} /\ Max(1..k) = k /\ (1..k) \ {k} = 1..k - 1
    BY Segments
  <2> DEFINE s == 1..k
  <2>2. s \in SUBSET (1..n) /\ s # {} /\ Max(s) = k /\ s \ {k} = 1..k - 1
    BY <2>1
  <2> HIDE DEF s
  <2>3. iter[s] = G[<<iter[s \ {Max(s)}], Max(s)>>]
    BY <1>2, <2>2 DEF Folds
  <2> QED BY <2>2, <2>3 DEF s
<1> HIDE DEF none
<1>3. 0 \in E
  <2>1. none \in E
    BY <1>1
  <2> QED BY <1>1, <2>1
<1>4. ASSUME NEW k \in 0..n - 1, k \in E PROVE k + 1 \in E
  <2> DEFINE m == k + 1
  <2>1. m \in 1..n /\ m \in 0..n /\ m - 1 = k /\ iter[1..k] \in P
    BY <1>4
  <2> HIDE DEF m
  <2>2. iter[1..m] = G[<<iter[1..k], m>>]
    BY <1>2, <2>1
  <2>3. G[<<iter[1..k], m>>] \in P
    BY <2>1 DEF Folder
  <2>4. m \in E
    BY <2>1, <2>2, <2>3
  <2> QED BY <2>4 DEF m
<1>5. \A k \in 0..n : k \in E
  <2>1. \A k \in 0..n - 1 : k \in E => k + 1 \in E
    BY <1>4
  <2> HIDE DEF E
  <2> QED BY <1>3, <2>1, UpTo
<1>6. acc \in [0..n -> P]
  BY <1>5
<1>7. acc[0] = b
  <2>1. acc[none] = b
    BY <1>1
  <2> QED BY <1>1, <2>1
<1>8. ASSUME NEW k \in 1..n PROVE acc[k] = G[<<acc[k - 1], k>>]
  <2>1. k \in 0..n /\ k - 1 \in 0..n
    OBVIOUS
  <2>2. iter[1..k - 1] \in P
    BY <1>5, <2>1
  <2>3. acc[k] = iter[1..k] /\ acc[k - 1] = iter[1..k - 1]
    BY <2>1
  <2> HIDE DEF acc
  <2> QED BY <1>2, <2>2, <2>3
<1>9. acc[n] = iter[1..n]
  OBVIOUS
<1> HIDE DEF acc
<1> QED BY <1>6, <1>7, <1>8, <1>9 DEF FoldPath

---------------------------------------------------------------------------
(* The writes of one fork.                                                 *)

\* What PlanFork keeps while it plans the writes of one fork.
Writing == [held : Rosters, blocked : BOOLEAN, stranded : SUBSET Names, steps : Seq(Steps)]

\* What stops the write on one identity.
Unwritable(o, f, w, i) ==
  \/ w.blocked
  \/ \E s \in Services : w.held[i][s] = f.repo
  \/ Held(w.held[i]) >= MaxCredentials

\* The credentials with one more.
Wrote(held, i, s, r) == [held EXCEPT ![i][s] = r]

\* What one identity adds to the writes of a fork.
WriteOutcome(o, f, w, i, after) ==
  LET there == w.held[i][f.service] # None /\ Subject(o, f) # None IN
  /\ after \in Writing
  /\ there => after = w
  /\ ~there /\ Unwritable(o, f, w, i) =>
       /\ after.held = w.held /\ after.steps = w.steps
       /\ after.blocked = TRUE /\ after.stranded = w.stranded \cup {i}
  /\ ~there /\ ~Unwritable(o, f, w, i) =>
       /\ after.held = Wrote(w.held, i, f.service, f.repo)
       /\ after.steps = Append(w.steps, Trust(i, f.service, f.repo))
       /\ after.blocked = w.blocked /\ after.stranded = w.stranded

\* The three outcomes of PlanWrite.
LEMMA PlanWriteCases ==
  ASSUME NEW o, NEW f \in Fork, NEW w \in Writing, NEW i \in Names
  PROVE  WriteOutcome(o, f, w, i, PlanWrite(o, f, w, i))
<1> DEFINE after == PlanWrite(o, f, w, i)
           there == w.held[i][f.service] # None /\ Subject(o, f) # None
           held == [w.held EXCEPT ![i][f.service] = f.repo]
           steps == Append(w.steps, Trust(i, f.service, f.repo))
<1>1. f.service \in Services /\ f.repo \in Repos
  BY DEF Fork
<1>2. w.held \in Rosters /\ w.blocked \in BOOLEAN /\ w.stranded \subseteq Names /\ w.steps \in Seq(Steps)
  BY DEF Writing
<1>3. held \in Rosters
  BY <1>1, <1>2 DEF Rosters, Credentials
<1>4. steps \in Seq(Steps)
  BY <1>1, <1>2, StepsAre, AppendSet
<1>5. CASE there
  <2>1. after = w
    BY <1>5 DEF PlanWrite
  <2> QED BY <1>5, <2>1 DEF WriteOutcome
<1>6. CASE ~there /\ Unwritable(o, f, w, i)
  <2>1. after = [w EXCEPT !.blocked = TRUE, !.stranded = @ \cup {i}]
    BY <1>6 DEF PlanWrite, Unwritable
  <2> DEFINE stranded == w.stranded \cup {i}
  <2>2. stranded \subseteq Names
    BY <1>2
  <2>3. /\ after = [held |-> w.held, blocked |-> TRUE, stranded |-> stranded, steps |-> w.steps]
    BY <2>1 DEF Writing
  <2> HIDE DEF after, stranded
  <2>4. after \in Writing
    BY <1>2, <2>2, <2>3 DEF Writing
  <2>5. after.held = w.held /\ after.steps = w.steps /\ after.blocked = TRUE /\ after.stranded = stranded
    BY <2>3
  <2> QED BY <1>6, <2>4, <2>5 DEF after, stranded, WriteOutcome
<1>7. CASE ~there /\ ~Unwritable(o, f, w, i)
  <2>1. after = [w EXCEPT !.held[i][f.service] = f.repo, !.steps = Append(@, Trust(i, f.service, f.repo))]
    BY <1>7 DEF PlanWrite, Unwritable
  <2>2. after = [held |-> held, blocked |-> w.blocked, stranded |-> w.stranded, steps |-> steps]
    BY <2>1 DEF Writing
  <2> HIDE DEF after, held, steps
  <2>3. after \in Writing
    BY <1>2, <1>3, <1>4, <2>2 DEF Writing
  <2>4. after.held = held /\ after.steps = steps /\ after.blocked = w.blocked /\ after.stranded = w.stranded
    BY <2>2
  <2> QED BY <1>7, <2>3, <2>4 DEF after, held, steps, Wrote, WriteOutcome
<1> QED BY <1>5, <1>6, <1>7

\* PlanFork writes one identity after another.
Unwritten(o, f, plan) ==
  [held |-> plan.held, blocked |-> WriteBlocked(o, f), stranded |-> {}, steps |-> plan.steps]

\* The writes of one fork, on every identity.
Written(o, f, plan) == FoldLeft(LAMBDA acc, i : PlanWrite(o, f, acc, i), Unwritten(o, f, plan), Identities)

\* The writes of one fork, one identity after another.
WritePath(o, f, plan, acc) ==
  /\ acc \in [0..Len(Identities) -> Writing]
  /\ acc[0] = Unwritten(o, f, plan) /\ acc[Len(Identities)] = Written(o, f, plan)
  /\ \A k \in 1..Len(Identities) : acc[k] = PlanWrite(o, f, acc[k - 1], Identities[k])

\* The fold of PlanFork is such a path.
LEMMA WrittenSteps ==
  ASSUME NEW o, NEW f \in Fork, NEW plan, plan.held \in Rosters, plan.steps \in Seq(Steps)
  PROVE  \E acc : WritePath(o, f, plan, acc)
<1> DEFINE n == Len(Identities)
           first == Unwritten(o, f, plan)
           G == [w \in Writing \X (1..n) |-> PlanWrite(o, f, w[1], Identities[w[2]])]
           Is(iter) == iter = [s \in SUBSET (1..n) |->
                         IF s = {} THEN first ELSE PlanWrite(o, f, iter[s \ {Max(s)}], Identities[Max(s)])]
<1>1. n \in Nat /\ DOMAIN Identities = 1..n /\ \A k \in 1..n : Identities[k] \in Names
  BY Lists
<1>2. first \in Writing
  <2>1. WriteBlocked(o, f) \in BOOLEAN
    BY DEF WriteBlocked
  <2> QED BY <2>1 DEF Writing, Unwritten
<1> HIDE DEF n, first
<1>3. Folder(Writing, n, G)
  <2>1. ASSUME NEW w \in Writing \X (1..n) PROVE G[w] \in Writing
    <3>1. w[1] \in Writing /\ Identities[w[2]] \in Names
      BY <1>1
    <3>2. PlanWrite(o, f, w[1], Identities[w[2]]) \in Writing
      BY <3>1, PlanWriteCases DEF WriteOutcome
    <3> QED BY <3>2
  <2> QED BY <2>1 DEF Folder
<1>4. PICK iter : FoldedBy(Writing, first, n, G, iter)
  BY <1>1, <1>2, <1>3, FoldExists
<1>5. Is(iter)
  <2>1. ASSUME NEW s \in SUBSET (1..n), s # {}
        PROVE  iter[s] = PlanWrite(o, f, iter[s \ {Max(s)}], Identities[Max(s)])
    <3> DEFINE m == Max(s)
    <3>1. m \in 1..n
      BY <1>1, <2>1, LastPosition
    <3>2. iter[s] = G[<<iter[s \ {m}], m>>] /\ iter[s \ {m}] \in Writing
      BY <1>4, <2>1 DEF FoldedBy
    <3> HIDE DEF m
    <3> QED BY <3>1, <3>2 DEF m
  <2>2. iter = [s \in SUBSET (1..n) |-> iter[s]] /\ \A s \in SUBSET (1..n) : s = {} => iter[s] = first
    BY <1>4 DEF FoldedBy
  <2> QED BY <2>1, <2>2
<1> DEFINE chosenIter == CHOOSE g : Is(g)
<1>6. Is(chosenIter)
  <2> HIDE DEF Is
  <2> QED BY <1>5
<1>7. Written(o, f, plan) = chosenIter[1..n]
  BY <1>1 DEF Written, first, FoldLeft, MapThenFoldSet
<1> HIDE DEF chosenIter
<1>8. \A s \in SUBSET (1..n) : s = {} => chosenIter[s] = first
  BY <1>6
<1>9. ASSUME NEW s \in SUBSET (1..n), s # {}, chosenIter[s \ {Max(s)}] \in Writing
      PROVE  chosenIter[s] = G[<<chosenIter[s \ {Max(s)}], Max(s)>>]
  <2> DEFINE m == Max(s)
  <2>1. m \in 1..n
    BY <1>1, <1>9, LastPosition
  <2>2. chosenIter[s] = PlanWrite(o, f, chosenIter[s \ {m}], Identities[m])
    BY <1>6, <1>9
  <2> HIDE DEF m
  <2>3. G[<<chosenIter[s \ {m}], m>>] = PlanWrite(o, f, chosenIter[s \ {m}], Identities[m])
    BY <1>9, <2>1 DEF m
  <2> QED BY <2>2, <2>3 DEF m
<1>13. Folds(Writing, first, n, G, chosenIter)
  <2> HIDE DEF G
  <2> QED BY <1>8, <1>9 DEF Folds
<1> HIDE DEF G, Is
<1>10. PICK acc : FoldPath(Writing, first, n, G, acc) /\ acc[n] = chosenIter[1..n]
  BY <1>1, <1>2, <1>3, <1>13, FoldAlong
<1>11. acc \in [0..n -> Writing] /\ acc[0] = first
  BY <1>10 DEF FoldPath
<1>12. ASSUME NEW k \in 1..n PROVE acc[k] = PlanWrite(o, f, acc[k - 1], Identities[k])
  <2>1. acc[k] = G[<<acc[k - 1], k>>] /\ acc[k - 1] \in Writing
    <3>1. k - 1 \in 0..n
      BY <1>1
    <3> QED BY <1>10, <1>11, <3>1 DEF FoldPath
  <2>2. G[<<acc[k - 1], k>>] = PlanWrite(o, f, acc[k - 1], Identities[k])
    BY <2>1 DEF G
  <2> QED BY <2>1, <2>2
<1> QED BY <1>7, <1>10, <1>11, <1>12 DEF n, first, WritePath

\* What the writes planned so far do, on the credentials that remain after
\* the revocations: they lead to `held`, each on a free credential of an open
\* repository, under the cap and with a subject no other credential has.
Fits(o, base, steps, held) == \A i \in Names, s \in Services, r \in Repos : Trust(i, s, r) \in ToSet(steps) =>
  /\ base[i][s] = None /\ r \in o.open /\ Held(held[i]) <= MaxCredentials
  /\ \A t \in Services \ {s} : held[i][t] # r

\* The writes are in order, are of the two kinds, and lead to `held`.
WritesSound(o, q, base, steps, held) ==
  /\ Ordered(q, steps)
  /\ \A x \in ToSet(steps) : x.do \in {"trust", "tag"}
  /\ Leads(base, ToSet(steps), held)
  /\ Fits(o, base, steps, held)

\* What is left of the credentials of f's service after the revocations.
Remains(o, f, base) ==
  /\ \A i \in Names : base[i][f.service] # None /\ Subject(o, f) # None => base[i][f.service] = f.repo
  /\ Subject(o, f) = None => base[Deployer][f.service] = None

\* The writes of one fork after those of the services `done`, from `before`:
\* the identities A have been seen.
WriteInv(o, q, f, base, done, old, G, before, w, A) ==
  /\ w \in Writing
  /\ WritesSound(o, q, base, w.steps, w.held)
  /\ Tagged(old, ToSet(w.steps), G)
  /\ \A x \in ToSet(w.steps) : x.service \in done \/ (x.do = "trust" /\ x.service = f.service /\ x.id \in A)
  /\ \A i \in Names, s \in Services \ {f.service} : w.held[i][s] = before[i][s]
  /\ \A i \in Names \ A : w.held[i][f.service] = base[i][f.service]
  /\ \A i \in A : IF i \in w.stranded
                    THEN /\ w.held[i][f.service] = base[i][f.service]
                         /\ base[i][f.service] = None \/ Subject(o, f) = None
                    ELSE w.held[i][f.service] = f.repo
  /\ w.stranded \subseteq A
  /\ WriteBlocked(o, f) => w.blocked

\* A credential more, counted.
LEMMA HeldAdded ==
  ASSUME NEW creds \in Credentials, NEW s \in Services, NEW r \in Repos, creds[s] = None,
         NEW next, next = [creds EXCEPT ![s] = r]
  PROVE  Held(next) = Held(creds) + 1 /\ Held(creds) \in Nat
<1> DEFINE now == {t \in Services : creds[t] # None}
           then == {t \in Services : next[t] # None}
<1>1. r # None
  BY Markers
<1>2. then = now \cup {s} /\ s \notin now
  BY <1>1 DEF Credentials
<1>3. IsFiniteSet(now)
  BY Lists, FS_Subset
<1>4. Held(creds) = Cardinality(now) /\ Held(next) = Cardinality(then)
  BY DEF Held
<1> HIDE DEF now, then
<1>5. Cardinality(now \cup {s}) = Cardinality(now) + 1
  BY <1>2, <1>3, FS_AddElement
<1>6. Cardinality(now) \in Nat
  BY <1>3, FS_CardinalityType
<1> QED BY <1>2, <1>4, <1>5, <1>6

\* A write on an identity that has none for the service yet.
LEMMA WriteAppended ==
  ASSUME NEW o, NEW q, NEW base, NEW steps \in Seq(Steps), NEW held \in Rosters,
         NEW i \in Names, NEW s \in Services, NEW r \in Repos,
         WritesSound(o, q, base, steps, held),
         \A x \in ToSet(steps) : x.do = "trust" => ~(x.id = i /\ x.service = s),
         base[i][s] = None, held[i][s] = None, r \in o.open,
         \A t \in Services : held[i][t] # r, Held(held[i]) < MaxCredentials
  PROVE  WritesSound(o, q, base, Append(steps, Trust(i, s, r)), Wrote(held, i, s, r))
<1> DEFINE h == Trust(i, s, r)
           U == ToSet(steps)
           all == Append(steps, h)
           next == [held EXCEPT ![i][s] = r]
<1>1. h \in Steps /\ h.do = "trust" /\ h.id = i /\ h.service = s /\ h.repo = r
  BY StepsAre DEF Trust
<1>2. /\ \A j, t, v : Trust(j, t, v) = h => j = i /\ t = s /\ v = r
      /\ \A j, t : Revoke(j, t) # h
  <2>1. ASSUME NEW j, NEW t, NEW v, Trust(j, t, v) = h PROVE j = i /\ t = s /\ v = r
    <3>1. Trust(j, t, v).id = j /\ Trust(j, t, v).service = t /\ Trust(j, t, v).repo = v
      BY DEF Trust
    <3> HIDE DEF h
    <3> QED BY <1>1, <2>1, <3>1
  <2>2. \A j, t : Revoke(j, t) # h
    BY DEF Revoke, Trust
  <2> QED BY <2>1, <2>2
<1>3. \A v : Trust(i, s, v) \notin U
  <2> SUFFICES ASSUME NEW v, Trust(i, s, v) \in U PROVE FALSE
    OBVIOUS
  <2>1. Trust(i, s, v).do = "trust" /\ Trust(i, s, v).id = i /\ Trust(i, s, v).service = s
    BY DEF Trust
  <2> QED BY <2>1
<1>4. \A j \in Names, t \in Services : next[j][t] = IF j = i /\ t = s THEN r ELSE held[j][t]
  BY DEF Rosters, Credentials
<1>5. \A j \in Names : j # i => next[j] = held[j]
  BY DEF Rosters
<1>6. Held(next[i]) <= MaxCredentials
  <2> DEFINE creds == held[i]
             creds2 == next[i]
  <2>1. creds \in Credentials /\ creds2 = [creds EXCEPT ![s] = r] /\ creds[s] = None
    BY DEF Rosters
  <2> HIDE DEF creds, creds2
  <2>2. Held(creds2) = Held(creds) + 1 /\ Held(creds) \in Nat
    BY <2>1, HeldAdded
  <2>3. MaxCredentials \in Nat /\ Held(creds) < MaxCredentials
    BY TrustPlanAssumption DEF creds
  <2> QED BY <2>2, <2>3 DEF creds2
<1>7. \A j, t : Revoke(j, t) \notin U
  <2>1. \A j, t : Revoke(j, t).do = "revoke"
    BY DEF Revoke
  <2> QED BY <2>1 DEF WritesSound
<1> HIDE DEF h, next
<1>8. all \in Seq(Steps) /\ ToSet(all) = U \cup {h}
  BY <1>1, AppendSet
<1>9. Ordered(q, all)
  <2>1. \A x \in U, y \in {h} : MayFollow(q, x, y)
    <3>1. \A x \in U : (x.do = "trust" \/ x.do = "tag") /\ (x.do = "trust" => ~(x.id = i /\ x.service = s))
      BY DEF WritesSound
    <3> QED BY <1>1, <3>1 DEF MayFollow
  <2>2. <<h>> \in Seq(Steps) /\ ToSet(<<h>>) = {h} /\ Ordered(q, <<h>>)
    BY <1>1, OneSet, ShortOrdered
  <2>3. all = steps \o <<h>>
    BY <1>1, AppendIsConcat
  <2>4. Ordered(q, steps)
    BY DEF WritesSound
  <2>5. \A x \in ToSet(steps), y \in ToSet(<<h>>) : MayFollow(q, x, y)
    BY <2>1, <2>2
  <2> HIDE DEF all
  <2> QED BY <2>2, <2>3, <2>4, <2>5, ConcatOrdered
<1> HIDE DEF all, U
<1>10. \A x \in ToSet(all) : x.do \in {"trust", "tag"}
  BY <1>1, <1>8 DEF WritesSound, U
<1>11. Leads(base, U, held) /\ Fits(o, base, steps, held)
  BY DEF WritesSound, U
<1>12. Leads(base, ToSet(all), next)
  <2> SUFFICES ASSUME NEW j \in Names, NEW t \in Services
               PROVE  /\ \A v \in Repos : Trust(j, t, v) \in ToSet(all) => next[j][t] = v
                      /\ (\A v \in Repos : Trust(j, t, v) \notin ToSet(all))
                           => next[j][t] = IF Revoke(j, t) \in ToSet(all) THEN None ELSE base[j][t]
    BY DEF Leads
  <2>1. CASE j = i /\ t = s
    <3>1. \A v : Trust(j, t, v) \in ToSet(all) => v = r
      BY <1>2, <1>3, <1>8, <2>1
    <3>2. Trust(j, t, r) \in ToSet(all)
      BY <1>8, <2>1 DEF h
    <3> QED BY <1>4, <2>1, <3>1, <3>2
  <2>2. CASE ~(j = i /\ t = s)
    <3>1. /\ \A v : Trust(j, t, v) \in ToSet(all) <=> Trust(j, t, v) \in U
          /\ Revoke(j, t) \in ToSet(all) <=> Revoke(j, t) \in U
      BY <1>2, <1>8, <2>2
    <3>2. /\ \A v \in Repos : Trust(j, t, v) \in U => held[j][t] = v
          /\ (\A v \in Repos : Trust(j, t, v) \notin U) => held[j][t] = IF Revoke(j, t) \in U THEN None ELSE base[j][t]
      BY <1>11 DEF Leads
    <3> QED BY <1>4, <2>2, <3>1, <3>2
  <2> QED BY <2>1, <2>2
<1>13. Fits(o, base, all, next)
  <2> SUFFICES ASSUME NEW j \in Names, NEW t \in Services, NEW v \in Repos, Trust(j, t, v) \in ToSet(all)
               PROVE  /\ base[j][t] = None /\ v \in o.open /\ Held(next[j]) <= MaxCredentials
                      /\ \A u \in Services \ {t} : next[j][u] # v
    BY DEF Fits
  <2>1. CASE Trust(j, t, v) = h
    <3>1. j = i /\ t = s /\ v = r
      BY <1>2, <2>1
    <3> QED BY <1>4, <1>6, <3>1
  <2>2. CASE Trust(j, t, v) # h
    <3>1. Trust(j, t, v) \in U /\ Trust(j, t, v) \in ToSet(steps)
      BY <1>8, <2>2 DEF U
    <3>2. /\ base[j][t] = None /\ v \in o.open /\ Held(held[j]) <= MaxCredentials
          /\ \A u \in Services \ {t} : held[j][u] # v
      BY <1>11, <3>1 DEF Fits
    <3>3. held[j][t] = v
      BY <1>11, <3>1 DEF Leads
    <3>4. CASE j = i
      BY <1>4, <1>6, <3>2, <3>3, <3>4
    <3>5. CASE j # i
      BY <1>5, <3>2, <3>5
    <3> QED BY <3>4, <3>5
  <2> QED BY <2>1, <2>2
<1>14. WritesSound(o, q, base, all, next)
  BY <1>9, <1>10, <1>12, <1>13 DEF WritesSound
<1> QED BY <1>14 DEF all, next, h, Wrote

\* One identity more.
LEMMA WriteStep ==
  ASSUME NEW o, NEW q, NEW f \in Fork, NEW base, NEW done, f.service \notin done, NEW old, NEW G, NEW before,
         NEW w, NEW A \in SUBSET Names, NEW i \in Names \ A, Remains(o, f, base),
         WriteInv(o, q, f, base, done, old, G, before, w, A)
  PROVE  WriteInv(o, q, f, base, done, old, G, before, PlanWrite(o, f, w, i), A \cup {i})
<1> DEFINE s == f.service
           r == f.repo
           after == PlanWrite(o, f, w, i)
           there == w.held[i][s] # None /\ Subject(o, f) # None
           B == A \cup {i}
<1>1. s \in Services /\ r \in Repos /\ i \in Names /\ r # None
  BY Markers DEF Fork
<1>2. /\ w \in Writing /\ w.held \in Rosters /\ w.steps \in Seq(Steps)
      /\ WritesSound(o, q, base, w.steps, w.held)
      /\ Tagged(old, ToSet(w.steps), G)
      /\ \A x \in ToSet(w.steps) : x.service \in done \/ (x.do = "trust" /\ x.service = s /\ x.id \in A)
      /\ \A j \in Names, t \in Services \ {s} : w.held[j][t] = before[j][t]
      /\ \A j \in Names \ A : w.held[j][s] = base[j][s]
      /\ \A j \in A : IF j \in w.stranded
                        THEN w.held[j][s] = base[j][s] /\ (base[j][s] = None \/ Subject(o, f) = None)
                        ELSE w.held[j][s] = r
      /\ w.stranded \subseteq A
      /\ WriteBlocked(o, f) => w.blocked
  BY DEF WriteInv, Writing
<1>3. /\ after \in Writing
      /\ there => after = w
      /\ ~there /\ Unwritable(o, f, w, i) =>
           after.held = w.held /\ after.steps = w.steps /\ after.blocked = TRUE /\ after.stranded = w.stranded \cup {i}
      /\ ~there /\ ~Unwritable(o, f, w, i) =>
           /\ after.held = Wrote(w.held, i, s, r)
           /\ after.steps = Append(w.steps, Trust(i, s, r))
           /\ after.blocked = w.blocked /\ after.stranded = w.stranded
  <2>1. w \in Writing /\ i \in Names /\ f \in Fork
    BY <1>1, <1>2
  <2>2. WriteOutcome(o, f, w, i, after)
    BY <2>1, PlanWriteCases
  <2> HIDE DEF after
  <2> QED BY <2>2 DEF WriteOutcome
<1>4. /\ \A j \in Names : base[j][s] # None /\ Subject(o, f) # None => base[j][s] = r
      /\ Subject(o, f) = None => base[Deployer][s] = None
  BY DEF Remains
<1>5. w.held[i][s] = base[i][s] /\ i \notin w.stranded
  BY <1>2
<1> HIDE DEF after, s, r
<1>6. CASE there
  <2>1. after = w /\ w.held[i][s] = r
    BY <1>3, <1>4, <1>5, <1>6
  <2>2. \A x \in ToSet(w.steps) : x.service \in done \/ (x.do = "trust" /\ x.service = s /\ x.id \in B)
    BY <1>2
  <2>3. \A j \in B : IF j \in w.stranded
                       THEN w.held[j][s] = base[j][s] /\ (base[j][s] = None \/ Subject(o, f) = None)
                       ELSE w.held[j][s] = r
    BY <1>2, <1>5, <2>1
  <2>4. WriteInv(o, q, f, base, done, old, G, before, w, B)
    BY <1>2, <2>2, <2>3 DEF WriteInv, s, r
  <2> QED BY <2>1, <2>4 DEF after
<1>7. CASE ~there /\ Unwritable(o, f, w, i)
  <2>1. /\ after \in Writing /\ after.held = w.held /\ after.steps = w.steps /\ after.blocked
        /\ after.stranded = w.stranded \cup {i}
    BY <1>3, <1>7
  <2>2. base[i][s] = None \/ Subject(o, f) = None
    BY <1>5, <1>7
  <2>3. \A x \in ToSet(after.steps) : x.service \in done \/ (x.do = "trust" /\ x.service = s /\ x.id \in B)
    BY <1>2, <2>1
  <2>4. \A j \in B : IF j \in after.stranded
                       THEN after.held[j][s] = base[j][s] /\ (base[j][s] = None \/ Subject(o, f) = None)
                       ELSE after.held[j][s] = r
    BY <1>2, <1>5, <2>1, <2>2
  <2>5. /\ \A j \in Names, t \in Services \ {s} : after.held[j][t] = before[j][t]
        /\ \A j \in Names \ B : after.held[j][s] = base[j][s]
    BY <1>2, <2>1
  <2>6. after.stranded \subseteq B
    BY <1>2, <2>1
  <2>7. WritesSound(o, q, base, after.steps, after.held) /\ Tagged(old, ToSet(after.steps), G)
    BY <1>2, <2>1
  <2>8. WriteInv(o, q, f, base, done, old, G, before, after, B)
    BY <2>1, <2>3, <2>4, <2>5, <2>6, <2>7 DEF WriteInv, s, r
  <2> QED BY <2>8 DEF after
<1>8. CASE ~there /\ ~Unwritable(o, f, w, i)
  <2> DEFINE held == Wrote(w.held, i, s, r)
             h == Trust(i, s, r)
             steps == Append(w.steps, h)
  <2>1. /\ after \in Writing /\ after.held = held /\ after.steps = steps
        /\ after.blocked = w.blocked /\ after.stranded = w.stranded
    BY <1>3, <1>8
  <2>2. ~w.blocked /\ (\A t \in Services : w.held[i][t] # r) /\ ~(Held(w.held[i]) >= MaxCredentials)
    BY <1>8 DEF Unwritable, r
  <2>3. ~WriteBlocked(o, f) /\ r \in o.open /\ Subject(o, f) # None
    BY <1>2, <2>2 DEF WriteBlocked, r
  <2>4. base[i][s] = None /\ w.held[i][s] = None
    BY <1>5, <1>8, <2>3
  <2>5. Held(w.held[i]) < MaxCredentials
    <3>1. Held(w.held[i]) \in Nat
      <4> DEFINE now == {t \in Services : w.held[i][t] # None}
      <4>1. IsFiniteSet(now)
        BY Lists, FS_Subset
      <4>2. Cardinality(now) \in Nat
        BY <4>1, FS_CardinalityType
      <4> QED BY <4>2 DEF Held
    <3> QED BY <2>2, <3>1, TrustPlanAssumption
  <2>6. \A x \in ToSet(w.steps) : x.do = "trust" => ~(x.id = i /\ x.service = s)
    BY <1>2 DEF s
  <2>7. WritesSound(o, q, base, steps, held)
    BY <1>1, <1>2, <2>2, <2>3, <2>4, <2>5, <2>6, WriteAppended
  <2>8. h \in Steps /\ h.do = "trust" /\ h.id = i /\ h.service = s
    BY <1>1, StepsAre DEF Trust
  <2>9. \A j \in Names, t \in Services : held[j][t] = IF j = i /\ t = s THEN r ELSE w.held[j][t]
    BY <1>1, <1>2 DEF Rosters, Credentials, Wrote
  <2> HIDE DEF h, held
  <2>10. ToSet(steps) = ToSet(w.steps) \cup {h}
    BY <1>2, <2>8, AppendSet
  <2> HIDE DEF steps
  <2>11. Tagged(old, ToSet(steps), G)
    <3>1. \A t, v : RecordSource(t, v) # h
      <4>1. \A t, v : RecordSource(t, v).do = "tag"
        BY DEF RecordSource
      <4> QED BY <2>8, <4>1
    <3>2. \A t, v : RecordSource(t, v) \in ToSet(steps) <=> RecordSource(t, v) \in ToSet(w.steps)
      BY <2>10, <3>1
    <3> QED BY <1>2, <3>2 DEF Tagged
  <2>12. \A x \in ToSet(after.steps) : x.service \in done \/ (x.do = "trust" /\ x.service = s /\ x.id \in B)
    BY <1>2, <2>1, <2>8, <2>10
  <2>13. \A j \in B : IF j \in after.stranded
                        THEN after.held[j][s] = base[j][s] /\ (base[j][s] = None \/ Subject(o, f) = None)
                        ELSE after.held[j][s] = r
    <3> SUFFICES ASSUME NEW j \in B
                 PROVE  IF j \in after.stranded
                          THEN after.held[j][s] = base[j][s] /\ (base[j][s] = None \/ Subject(o, f) = None)
                          ELSE after.held[j][s] = r
      OBVIOUS
    <3>1. CASE j = i
      BY <1>1, <1>5, <2>1, <2>9, <3>1
    <3>2. CASE j # i
      <4>1. j \in A /\ j \in Names
        BY <3>2
      <4>2. after.held[j][s] = w.held[j][s]
        BY <1>1, <2>1, <2>9, <3>2, <4>1
      <4> QED BY <1>2, <2>1, <4>1, <4>2
    <3> QED BY <3>1, <3>2
  <2>14. /\ \A j \in Names, t \in Services \ {s} : after.held[j][t] = before[j][t]
         /\ \A j \in Names \ B : after.held[j][s] = base[j][s]
    BY <1>1, <1>2, <2>1, <2>9
  <2>15. after.stranded \subseteq B
    BY <1>2, <2>1
  <2>16. WriteInv(o, q, f, base, done, old, G, before, after, B)
    BY <1>2, <2>1, <2>7, <2>11, <2>12, <2>13, <2>14, <2>15 DEF WriteInv, s, r
  <2> QED BY <2>16 DEF after
<1> QED BY <1>6, <1>7, <1>8

\* All identities of one fork.
LEMMA AllWritten ==
  ASSUME NEW o, NEW q, NEW f \in Fork, NEW base, NEW done, f.service \notin done, NEW old, NEW G, NEW plan,
         plan.held \in Rosters, plan.steps \in Seq(Steps), Remains(o, f, base),
         WritesSound(o, q, base, plan.steps, plan.held), Tagged(old, ToSet(plan.steps), G),
         \A x \in ToSet(plan.steps) : x.service \in done,
         \A i \in Names : plan.held[i][f.service] = base[i][f.service]
  PROVE  WriteInv(o, q, f, base, done, old, G, plan.held, Written(o, f, plan), Names)
<1> DEFINE n == Len(Identities)
           first == Unwritten(o, f, plan)
           seen(k) == {Identities[j] : j \in 1..k}
           Inv(w, A) == WriteInv(o, q, f, base, done, old, G, plan.held, w, A)
<1>1. /\ n \in Nat /\ Names = seen(n) /\ \A k \in 1..n : Identities[k] \in Names
      /\ \A j, k \in 1..n : Identities[j] = Identities[k] => j = k
  BY Lists
<1>2. PICK acc \in [0..n -> Writing] :
         /\ acc[0] = first /\ acc[n] = Written(o, f, plan)
         /\ \A k \in 1..n : acc[k] = PlanWrite(o, f, acc[k - 1], Identities[k])
  <2>1. PICK acc : WritePath(o, f, plan, acc)
    BY WrittenSteps
  <2> QED BY <2>1 DEF WritePath
<1>3. Inv(first, {})
  <2>1. /\ first.held = plan.held /\ first.steps = plan.steps /\ first.blocked = WriteBlocked(o, f)
        /\ first.stranded = {} /\ first \in Writing
    BY DEF Writing, WriteBlocked, Unwritten
  <2> HIDE DEF first
  <2> QED BY <2>1 DEF WriteInv
<1> DEFINE E == {k \in 0..n : Inv(acc[k], seen(k))}
<1> HIDE DEF n, first, Inv
<1>4. 0 \in E
  <2> DEFINE none == 0
  <2>1. none = 0 /\ none \in 0..n /\ \A k \in 1..none : FALSE
    BY <1>1
  <2> HIDE DEF none
  <2>2. seen(none) = {} /\ acc[none] = first
    BY <1>2, <2>1
  <2>3. Inv(acc[none], seen(none))
    BY <1>3, <2>2
  <2>4. none \in E
    BY <2>1, <2>3
  <2> QED BY <2>1, <2>4
<1>5. ASSUME NEW k \in 0..n - 1, k \in E PROVE k + 1 \in E
  <2> DEFINE m == k + 1
  <2>1. m \in 1..n /\ m \in 0..n /\ m - 1 = k /\ 1..m = (1..k) \cup {m} /\ \A j \in 1..k : j \in 1..n /\ j # m
    BY <1>1
  <2> HIDE DEF m
  <2>2. seen(m) = seen(k) \cup {Identities[m]} /\ seen(k) \subseteq Names
    BY <1>1, <2>1
  <2>3. Identities[m] \in Names \ seen(k)
    BY <1>1, <2>1
  <2>4. Inv(acc[k], seen(k))
    BY <1>5
  <2> DEFINE A == seen(k)
             i == Identities[m]
  <2>5. A \in SUBSET Names /\ i \in Names \ A /\ Inv(acc[k], A) /\ seen(m) = A \cup {i}
    BY <2>2, <2>3, <2>4
  <2> HIDE DEF A, i, seen
  <2>6. Inv(PlanWrite(o, f, acc[k], i), A \cup {i})
    BY <2>5, WriteStep DEF Inv
  <2>7. acc[m] = PlanWrite(o, f, acc[k], i)
    BY <1>2, <2>1 DEF i
  <2> QED BY <2>1, <2>5, <2>6, <2>7 DEF m
<1>6. \A k \in 0..n : k \in E
  <2>1. n \in Nat /\ \A k \in 0..n - 1 : k \in E => k + 1 \in E
    BY <1>1, <1>5
  <2> HIDE DEF E
  <2> QED BY <1>4, <2>1, UpTo
<1>7. Inv(acc[n], seen(n))
  BY <1>1, <1>6
<1> HIDE DEF seen
<1> QED BY <1>1, <1>2, <1>7 DEF Inv

---------------------------------------------------------------------------
(* The forks of a declaration.                                             *)

\* What a reconciliation keeps while it plans its forks.
Planning == [held : Rosters, steps : Seq(Steps), blocked : BOOLEAN, trusted : Projections, sources : Projections]

\* The image of f can become canonical now, or already is.
Resolves(o, f) == o.tags[f.service] = f.repo \/ f.repo \notin o.unresolved

\* The environment is to follow f after the writes w.
Followed(o, f, w) == f.follows /\ Deployer \notin w.stranded /\ Resolves(o, f)

\* The source to record for f after the writes w.
Wanted(o, f, w) == IF Followed(o, f, w) THEN f.repo ELSE Azure

\* What PlanFork adds to a plan, by the writes w of the fork.
ForkOutcome(o, f, plan, w, after) ==
  LET stands == Stands(f, Followed(o, f, w), o.tags[f.service], Wanted(o, f, w)) IN
  /\ after \in Planning
  /\ after.held = w.held
  /\ stands => after.steps = w.steps
  /\ ~stands => after.steps = Append(w.steps, RecordSource(f.service, Wanted(o, f, w)))
  /\ after.blocked = (plan.blocked \/ w.stranded # {} \/ (f.follows /\ Deployer \notin w.stranded /\ ~Resolves(o, f)))
  /\ \A s \in Services :
       /\ after.trusted[s] = IF s # f.service THEN plan.trusted[s]
                             ELSE IF Deployer \notin w.stranded THEN f.repo ELSE None
       /\ after.sources[s] = IF s # f.service THEN plan.sources[s]
                             ELSE IF Followed(o, f, w) THEN f.repo ELSE None

\* PlanFork adds the writes of the fork, and the tag unless it stands.
LEMMA PlanForkCases ==
  ASSUME NEW o, NEW f \in Fork, NEW plan \in Planning, Written(o, f, plan) \in Writing
  PROVE  ForkOutcome(o, f, plan, Written(o, f, plan), PlanFork(o, plan, f))
<1> DEFINE w == Written(o, f, plan)
           after == PlanFork(o, plan, f)
           follows == Followed(o, f, w)
           desired == Wanted(o, f, w)
           stands == Stands(f, follows, o.tags[f.service], desired)
           steps == w.steps \o When(~stands, RecordSource(f.service, desired))
           blocked == plan.blocked \/ w.stranded # {} \/ (f.follows /\ Deployer \notin w.stranded /\ ~Resolves(o, f))
           trusted == [plan.trusted EXCEPT ![f.service] = IF Deployer \notin w.stranded THEN f.repo ELSE None]
           canonical == [plan.sources EXCEPT ![f.service] = IF follows THEN f.repo ELSE None]
<1>1. f.service \in Services /\ f.repo \in Repos
  BY DEF Fork
<1>2. w.held \in Rosters /\ w.steps \in Seq(Steps)
  BY DEF Writing
<1>3. plan.trusted \in Projections /\ plan.sources \in Projections /\ plan.blocked \in BOOLEAN
  BY DEF Planning
<1>4. after = [held |-> w.held, steps |-> steps, blocked |-> blocked, trusted |-> trusted, sources |-> canonical]
  BY DEF PlanFork, Written, Unwritten, Followed, Wanted, Resolves
<1>5. /\ trusted \in Projections /\ canonical \in Projections
      /\ \A s \in Services :
           /\ trusted[s] = IF s # f.service THEN plan.trusted[s]
                           ELSE IF Deployer \notin w.stranded THEN f.repo ELSE None
           /\ canonical[s] = IF s # f.service THEN plan.sources[s] ELSE IF follows THEN f.repo ELSE None
  <2> HIDE DEF w, follows
  <2> QED BY <1>1, <1>3 DEF Projections
<1>6. desired \in Repos \cup {Azure}
  BY <1>1 DEF Wanted
<1> HIDE DEF w, after, follows, desired, trusted, canonical
<1>7. RecordSource(f.service, desired) \in Steps
  BY <1>1, <1>6, StepsAre
<1>8. /\ steps \in Seq(Steps)
      /\ stands => steps = w.steps
      /\ ~stands => steps = Append(w.steps, RecordSource(f.service, desired))
  <2> DEFINE x == RecordSource(f.service, desired)
  <2>1. x \in Steps
    BY <1>7
  <2> HIDE DEF x, stands
  <2>2. CASE stands
    <3>1. steps = w.steps
      BY <1>2, <2>2, ConcatEmptySeq DEF When, x
    <3> QED BY <1>2, <2>2, <3>1
  <2>3. CASE ~stands
    <3>1. steps = w.steps \o <<x>>
      BY <2>3 DEF When, x
    <3> DEFINE s0 == w.steps
    <3>2. s0 \in Seq(Steps) /\ steps = s0 \o <<x>>
      BY <1>2, <3>1
    <3> HIDE DEF s0, steps
    <3>3. Append(s0, x) = s0 \o <<x>> /\ Append(s0, x) \in Seq(Steps)
      BY <2>1, <3>2, AppendIsConcat, AppendSet
    <3> QED BY <2>3, <3>2, <3>3 DEF x, s0
  <2> QED BY <2>2, <2>3
<1>9. blocked \in BOOLEAN
  BY <1>3
<1> HIDE DEF steps, blocked, stands
<1>10. after \in Planning
  BY <1>2, <1>4, <1>5, <1>8, <1>9 DEF Planning
<1>11. /\ after.held = w.held /\ after.steps = steps /\ after.blocked = blocked
       /\ after.trusted = trusted /\ after.sources = canonical
  BY <1>4
<1> QED BY <1>5, <1>8, <1>10, <1>11 DEF ForkOutcome, w, after, follows, desired, stands, blocked

\* The credentials left by the revocations.
Base(o, forks) == [i \in Names |-> [s \in Services |-> IF s \in Revoked(o, forks, i) THEN None ELSE o.roster[i][s]]]

\* A well-formed list of forks: one service and one repository each.
Declared(forks) ==
  /\ forks \in Seq(Fork)
  /\ \A i, j \in DOMAIN forks : i # j => forks[i].service # forks[j].service /\ forks[i].repo # forks[j].repo

\* In a well-formed list, ForkOf finds the one entry of a service.
LEMMA ForkOfService ==
  ASSUME NEW forks, Declared(forks)
  PROVE  /\ DOMAIN forks = 1..Len(forks) /\ Len(forks) \in Nat
         /\ \A j \in 1..Len(forks) : forks[j] \in Fork /\ Declares(forks, forks[j].service)
                                     /\ ForkOf(forks, forks[j].service) = forks[j]
         /\ \A s : Declares(forks, s) => \E j \in 1..Len(forks) : forks[j].service = s
         /\ \A i, j \in 1..Len(forks) : i # j => forks[i].service # forks[j].service
<1>1. /\ DOMAIN forks = 1..Len(forks) /\ Len(forks) \in Nat /\ \A j \in 1..Len(forks) : forks[j] \in Fork
  <2>1. forks \in Seq(Fork)
    BY DEF Declared
  <2> QED BY <2>1, SeqSet, ElementOfSeq
<1>2. \A i, j \in 1..Len(forks) : i # j => forks[i].service # forks[j].service
  BY <1>1 DEF Declared
<1>3. ASSUME NEW j \in 1..Len(forks)
      PROVE  Declares(forks, forks[j].service) /\ ForkOf(forks, forks[j].service) = forks[j]
  <2>1. Declares(forks, forks[j].service)
    BY <1>1 DEF Declares
  <2> DEFINE c == CHOOSE i \in DOMAIN forks : forks[i].service = forks[j].service
  <2>2. c \in DOMAIN forks /\ forks[c].service = forks[j].service
    BY <1>1
  <2> HIDE DEF c
  <2>3. c = j
    BY <1>1, <1>2, <2>2
  <2> QED BY <2>1, <2>3 DEF ForkOf, c
<1>4. \A s : Declares(forks, s) => \E j \in 1..Len(forks) : forks[j].service = s
  BY <1>1 DEF Declares
<1> QED BY <1>1, <1>2, <1>3, <1>4

\* What the revocations leave: nothing of what is not declared, and of a
\* declared service only credentials that name its repository.
LEMMA BaseRemains ==
  ASSUME NEW o \in Observations, NEW forks, Declared(forks)
  PROVE  /\ Base(o, forks) \in Rosters
         /\ \A i \in Names, s \in Services :
              Base(o, forks)[i][s] = IF s \in Revoked(o, forks, i) THEN None ELSE o.roster[i][s]
         /\ \A i \in Names, s \in Services : ~Declares(forks, s) => Base(o, forks)[i][s] = None
         /\ \A j \in 1..Len(forks) : Remains(o, forks[j], Base(o, forks))
<1> DEFINE base == Base(o, forks)
<1>1. \A i \in Names : o.roster[i] \in [Services -> Repos \cup {None, Malformed}]
  BY DEF Observations, Rosters, Credentials
<1>2. \A i \in Names, s \in Services : base[i][s] = IF s \in Revoked(o, forks, i) THEN None ELSE o.roster[i][s]
  BY DEF Base
<1>3. base \in Rosters
  BY <1>1 DEF Base, Rosters, Credentials
<1> HIDE DEF base
<1>4. \A i \in Names, s \in Services : ~Declares(forks, s) => base[i][s] = None
  BY <1>2 DEF Revoked
<1>5. ASSUME NEW j \in 1..Len(forks) PROVE Remains(o, forks[j], base)
  <2> DEFINE f == forks[j]
             s == f.service
  <2>1. f \in Fork /\ Declares(forks, s) /\ ForkOf(forks, s) = f
    BY ForkOfService
  <2>2. s \in Services /\ f.repo \in Repos
    BY <2>1 DEF Fork
  <2>3. Deployer \in Names /\ None \notin Repos /\ Malformed \notin Repos /\ None # Malformed
    BY Lists, Markers
  <2> HIDE DEF f
  <2>4. ASSUME NEW i \in Names, base[i][s] # None
        PROVE  base[i][s] = o.roster[i][s] /\ ~Stale(o, f, i)
    BY <1>2, <2>1, <2>2, <2>4 DEF Revoked
  <2>5. ASSUME NEW i \in Names, base[i][s] # None, Subject(o, f) # None
        PROVE  base[i][s] = f.repo
    <3>1. o.roster[i][s] = Subject(o, f)
      BY <2>4, <2>5 DEF Stale
    <3>2. Subject(o, f) = f.repo
      BY <2>5 DEF Subject
    <3> QED BY <2>4, <2>5, <3>1, <3>2
  <2>6. ASSUME Subject(o, f) = None PROVE base[Deployer][s] = None
    <3> SUFFICES ASSUME base[Deployer][s] # None PROVE FALSE
      OBVIOUS
    <3>1. base[Deployer][s] = o.roster[Deployer][s] /\ ~Stale(o, f, Deployer)
      BY <2>3, <2>4
    <3>2. o.roster[Deployer][s] \in Repos \cup {None, Malformed}
      BY <1>1, <2>2, <2>3
    <3> QED BY <2>3, <2>6, <3>1, <3>2 DEF Stale
  <2> QED BY <2>5, <2>6 DEF Remains, f
<1> QED BY <1>2, <1>3, <1>4, <1>5 DEF base

\* A reconciliation plans one fork after another.
Unplanned(o, forks) ==
  [held |-> Base(o, forks), steps |-> <<>>, blocked |-> FALSE, trusted |-> NoForks, sources |-> NoForks]

\* The plans of a reconciliation, one fork after another.
ForkPath(o, forks, acc) ==
  /\ acc \in [0..Len(forks) -> Planning]
  /\ acc[0] = Unplanned(o, forks) /\ acc[Len(forks)] = Reconciled(o, forks)
  /\ \A k \in 1..Len(forks) : acc[k] = PlanFork(o, acc[k - 1], forks[k])

\* The writes of a fork, whatever was planned before.
LEMMA WrittenTyped ==
  ASSUME NEW o, NEW f \in Fork, NEW plan \in Planning
  PROVE  Written(o, f, plan) \in Writing
<1>1. PICK acc : WritePath(o, f, plan, acc)
  BY WrittenSteps DEF Planning
<1>2. Len(Identities) \in 0..Len(Identities)
  BY Lists
<1> QED BY <1>1, <1>2 DEF WritePath

\* The fold of Reconciled is such a path.
LEMMA ReconciledSteps ==
  ASSUME NEW o \in Observations, NEW forks, Declared(forks)
  PROVE  \E acc : ForkPath(o, forks, acc)
<1> DEFINE n == Len(forks)
           first == Unplanned(o, forks)
           G == [w \in Planning \X (1..n) |-> PlanFork(o, w[1], forks[w[2]])]
           Is(iter) == iter = [s \in SUBSET (1..n) |->
                         IF s = {} THEN first ELSE PlanFork(o, iter[s \ {Max(s)}], forks[Max(s)])]
<1>1. n \in Nat /\ DOMAIN forks = 1..n /\ \A k \in 1..n : forks[k] \in Fork
  BY ForkOfService
<1>2. first \in Planning
  <2>1. Base(o, forks) \in Rosters /\ NoForks \in Projections /\ <<>> \in Seq(Steps)
    BY BaseRemains, EmptySet DEF NoForks, Projections
  <2> QED BY <2>1 DEF Planning, Unplanned
<1> HIDE DEF n, first
<1>3. Folder(Planning, n, G)
  <2>1. ASSUME NEW w \in Planning \X (1..n) PROVE G[w] \in Planning
    <3>1. w[1] \in Planning /\ forks[w[2]] \in Fork
      BY <1>1
    <3>2. PlanFork(o, w[1], forks[w[2]]) \in Planning
      BY <3>1, PlanForkCases, WrittenTyped DEF ForkOutcome
    <3> QED BY <3>2
  <2> QED BY <2>1 DEF Folder
<1>4. PICK iter : FoldedBy(Planning, first, n, G, iter)
  BY <1>1, <1>2, <1>3, FoldExists
<1>5. Is(iter)
  <2>1. ASSUME NEW s \in SUBSET (1..n), s # {}
        PROVE  iter[s] = PlanFork(o, iter[s \ {Max(s)}], forks[Max(s)])
    <3> DEFINE m == Max(s)
    <3>1. m \in 1..n
      BY <1>1, <2>1, LastPosition
    <3>2. iter[s] = G[<<iter[s \ {m}], m>>] /\ iter[s \ {m}] \in Planning
      BY <1>4, <2>1 DEF FoldedBy
    <3> HIDE DEF m
    <3> QED BY <3>1, <3>2 DEF m
  <2>2. iter = [s \in SUBSET (1..n) |-> iter[s]] /\ \A s \in SUBSET (1..n) : s = {} => iter[s] = first
    BY <1>4 DEF FoldedBy
  <2> QED BY <2>1, <2>2
<1> DEFINE chosenIter == CHOOSE g : Is(g)
<1>6. Is(chosenIter)
  <2> HIDE DEF Is
  <2> QED BY <1>5
<1>7. Reconciled(o, forks) = chosenIter[1..n]
  BY <1>1 DEF Reconciled, first, Unplanned, Base, FoldLeft, MapThenFoldSet
<1> HIDE DEF chosenIter
<1>8. \A s \in SUBSET (1..n) : s = {} => chosenIter[s] = first
  BY <1>6
<1>9. ASSUME NEW s \in SUBSET (1..n), s # {}, chosenIter[s \ {Max(s)}] \in Planning
      PROVE  chosenIter[s] = G[<<chosenIter[s \ {Max(s)}], Max(s)>>]
  <2> DEFINE m == Max(s)
  <2>1. m \in 1..n
    BY <1>1, <1>9, LastPosition
  <2>2. chosenIter[s] = PlanFork(o, chosenIter[s \ {m}], forks[m])
    BY <1>6, <1>9
  <2> HIDE DEF m
  <2>3. G[<<chosenIter[s \ {m}], m>>] = PlanFork(o, chosenIter[s \ {m}], forks[m])
    BY <1>9, <2>1 DEF m
  <2> QED BY <2>2, <2>3 DEF m
<1>10. Folds(Planning, first, n, G, chosenIter)
  <2> HIDE DEF G
  <2> QED BY <1>8, <1>9 DEF Folds
<1> HIDE DEF G, Is
<1>11. PICK acc : FoldPath(Planning, first, n, G, acc) /\ acc[n] = chosenIter[1..n]
  BY <1>1, <1>2, <1>3, <1>10, FoldAlong
<1>12. acc \in [0..n -> Planning] /\ acc[0] = first
  BY <1>11 DEF FoldPath
<1>13. ASSUME NEW k \in 1..n PROVE acc[k] = PlanFork(o, acc[k - 1], forks[k])
  <2>1. acc[k] = G[<<acc[k - 1], k>>] /\ acc[k - 1] \in Planning
    <3>1. k - 1 \in 0..n
      BY <1>1
    <3> QED BY <1>11, <1>12, <3>1 DEF FoldPath
  <2>2. G[<<acc[k - 1], k>>] = PlanFork(o, acc[k - 1], forks[k])
    BY <2>1 DEF G
  <2> QED BY <2>1, <2>2
<1> QED BY <1>7, <1>11, <1>12, <1>13 DEF n, first, ForkPath

\* A tag recorded after the writes planned so far, of a service they do not tag.
LEMMA TagAppended ==
  ASSUME NEW o, NEW q, NEW base, NEW steps \in Seq(Steps), NEW held, NEW old, NEW G \in Tags,
         NEW s \in Services, NEW v \in Repos \cup {Azure},
         WritesSound(o, q, base, steps, held), Tagged(old, ToSet(steps), G),
         \A x \in ToSet(steps) : x.do = "tag" => x.service # s
  PROVE  /\ WritesSound(o, q, base, Append(steps, RecordSource(s, v)), held)
         /\ Tagged(old, ToSet(Append(steps, RecordSource(s, v))), [G EXCEPT ![s] = v])
<1> DEFINE h == RecordSource(s, v)
           U == ToSet(steps)
           all == Append(steps, h)
           next == [G EXCEPT ![s] = v]
<1>1. h \in Steps /\ h.do = "tag" /\ h.service = s /\ h.value = v
  BY StepsAre DEF RecordSource
<1>2. (\A j, t, r : Trust(j, t, r) # h) /\ (\A j, t : Revoke(j, t) # h)
  BY DEF Trust, Revoke, RecordSource
<1>3. \A t, u : RecordSource(t, u) = h => t = s /\ u = v
  <2> SUFFICES ASSUME NEW t, NEW u, RecordSource(t, u) = h PROVE t = s /\ u = v
    OBVIOUS
  <2>1. RecordSource(t, u).service = t /\ RecordSource(t, u).value = u
    BY DEF RecordSource
  <2> HIDE DEF h
  <2> QED BY <1>1, <2>1
<1>4. \A u : RecordSource(s, u) \notin U
  <2> SUFFICES ASSUME NEW u, RecordSource(s, u) \in U PROVE FALSE
    OBVIOUS
  <2>1. RecordSource(s, u).do = "tag" /\ RecordSource(s, u).service = s
    BY DEF RecordSource
  <2> QED BY <2>1
<1>5. next[s] = v /\ \A t \in Services : t # s => next[t] = G[t]
  BY DEF Tags
<1> HIDE DEF h, next
<1>6. all = steps \o <<h>> /\ all \in Seq(Steps) /\ ToSet(all) = U \cup {h}
  BY <1>1, AppendIsConcat, AppendSet
<1> HIDE DEF all
<1>7. Ordered(q, all)
  <2>1. \A x \in U, y \in {h} : MayFollow(q, x, y)
    <3>1. \A x \in U : (x.do = "trust" \/ x.do = "tag") /\ (x.do = "tag" => x.service # s)
      BY DEF WritesSound
    <3> QED BY <1>1, <3>1 DEF MayFollow
  <2>2. <<h>> \in Seq(Steps) /\ ToSet(<<h>>) = {h} /\ Ordered(q, <<h>>)
    BY <1>1, OneSet, ShortOrdered
  <2>3. Ordered(q, steps)
    BY DEF WritesSound
  <2>4. \A x \in ToSet(steps), y \in ToSet(<<h>>) : MayFollow(q, x, y)
    BY <2>1, <2>2
  <2> QED BY <1>6, <2>2, <2>3, <2>4, ConcatOrdered
<1>8. \A x \in ToSet(all) : x.do \in {"trust", "tag"}
  BY <1>1, <1>6 DEF WritesSound
<1>9. Leads(base, ToSet(all), held)
  <2>1. /\ \A j, t, r : Trust(j, t, r) \in ToSet(all) <=> Trust(j, t, r) \in U
        /\ \A j, t : Revoke(j, t) \in ToSet(all) <=> Revoke(j, t) \in U
    BY <1>2, <1>6
  <2> QED BY <2>1 DEF WritesSound, Leads
<1>10. Fits(o, base, all, held)
  BY <1>2, <1>6 DEF WritesSound, Fits
<1>11. Tagged(old, ToSet(all), next)
  <2> SUFFICES ASSUME NEW t \in Services
               PROVE  /\ \A u \in Repos \cup {Azure} : RecordSource(t, u) \in ToSet(all) => next[t] = u
                      /\ (\A u \in Repos \cup {Azure} : RecordSource(t, u) \notin ToSet(all)) => next[t] = old[t]
    BY DEF Tagged
  <2>1. CASE t = s
    <3>1. RecordSource(s, v) \in ToSet(all)
      BY <1>6 DEF h
    <3> QED BY <1>3, <1>4, <1>5, <1>6, <2>1, <3>1
  <2>2. CASE t # s
    <3>1. \A u : RecordSource(t, u) \in ToSet(all) <=> RecordSource(t, u) \in U
      BY <1>3, <1>6, <2>2
    <3> QED BY <1>5, <2>2, <3>1 DEF Tagged
  <2> QED BY <2>1, <2>2
<1> QED BY <1>7, <1>8, <1>9, <1>10, <1>11 DEF WritesSound, h, all, next

\* What the plan of a fork settles for its service.
Settled(f, held, trusted, canonical, G, blocked) ==
  /\ held[Deployer][f.service] \in {None, f.repo}
  /\ trusted[f.service] = held[Deployer][f.service]
  /\ canonical[f.service] = IF G[f.service] \in Repos THEN G[f.service] ELSE None
  /\ G[f.service] \in Repos => f.follows /\ G[f.service] = f.repo /\ held[Deployer][f.service] = f.repo
  /\ ~blocked => /\ \A i \in Names : held[i][f.service] = f.repo
                 /\ G[f.service] = IF f.follows THEN f.repo ELSE Azure

\* The plan of a fork settles its service.
LEMMA ForkSettled ==
  ASSUME NEW o, NEW q, NEW f \in Fork, NEW base, NEW done, NEW old, NEW G, NEW before, NEW plan, NEW w, NEW after,
         Remains(o, f, base), WriteInv(o, q, f, base, done, old, G, before, w, Names),
         ForkOutcome(o, f, plan, w, after), NEW tags2,
         tags2[f.service] = IF Stands(f, Followed(o, f, w), o.tags[f.service], Wanted(o, f, w))
                              THEN o.tags[f.service] ELSE Wanted(o, f, w)
  PROVE  Settled(f, after.held, after.trusted, after.sources, tags2, after.blocked)
<1> DEFINE s == f.service
           r == f.repo
           tag == o.tags[s]
           follows == Followed(o, f, w)
           here == Deployer \notin w.stranded
           resolves == Resolves(o, f)
           bl == f.follows /\ here /\ ~resolves
<1>1. s \in Services /\ r \in Repos /\ f.follows \in BOOLEAN /\ Deployer \in Names
  BY Lists DEF Fork
<1>2. None \notin Repos /\ Azure \notin Repos
  BY Markers
<1>3. /\ \A j \in Names : IF j \in w.stranded
                            THEN w.held[j][s] = base[j][s] /\ (base[j][s] = None \/ Subject(o, f) = None)
                            ELSE w.held[j][s] = r
      /\ Subject(o, f) = None => base[Deployer][s] = None
  BY DEF WriteInv, Remains
<1>4. /\ after.held = w.held
      /\ after.blocked = (plan.blocked \/ w.stranded # {} \/ bl)
      /\ after.trusted[s] = IF here THEN r ELSE None
      /\ after.sources[s] = IF follows THEN r ELSE None
  BY <1>1 DEF ForkOutcome
<1>5. /\ tags2[s] = IF tag = Wanted(o, f, w) \/ (f.follows /\ ~follows /\ tag = None) THEN tag ELSE Wanted(o, f, w)
      /\ Wanted(o, f, w) = IF follows THEN r ELSE Azure
  BY DEF Stands, Wanted
<1>6. follows <=> f.follows /\ here /\ resolves
  BY DEF Followed
<1> HIDE DEF s, r, tag, follows, resolves, here
<1>7. w.held[Deployer][s] = IF here THEN r ELSE None
  BY <1>1, <1>3 DEF here
<1>8. tags2[s] \in Repos => follows /\ tags2[s] = r
  BY <1>2, <1>5
<1>9. after.sources[s] = IF tags2[s] \in Repos THEN tags2[s] ELSE None
  BY <1>1, <1>2, <1>4, <1>5
<1>10. ASSUME ~after.blocked
       PROVE  (\A i \in Names : w.held[i][s] = r) /\ tags2[s] = IF f.follows THEN r ELSE Azure
  <2>1. w.stranded = {} /\ ~bl
    BY <1>4, <1>10
  <2>2. \A i \in Names : w.held[i][s] = r
    BY <1>3, <2>1
  <2>3. here
    BY <2>1 DEF here
  <2>4. follows <=> f.follows
    BY <1>6, <2>1, <2>3
  <2>5. tags2[s] = IF f.follows THEN r ELSE Azure
    BY <1>5, <2>4
  <2> QED BY <2>2, <2>5
<1> QED BY <1>4, <1>6, <1>7, <1>8, <1>9, <1>10 DEF Settled, s, r

\* The plan of the first k forks, and the tags G it leads to.
ForkSound(o, q, forks, k, plan, G) ==
  LET done == {forks[j].service : j \in 1..k} IN
  /\ plan \in Planning /\ G \in Tags
  /\ WritesSound(o, q, Base(o, forks), plan.steps, plan.held)
  /\ Tagged(o.tags, ToSet(plan.steps), G)
  /\ \A x \in ToSet(plan.steps) : x.service \in done
  /\ \A i \in Names, s \in Services \ done : plan.held[i][s] = Base(o, forks)[i][s]
  /\ \A s \in Services \ done : plan.trusted[s] = None /\ plan.sources[s] = None
  /\ \A j \in 1..k : Settled(forks[j], plan.held, plan.trusted, plan.sources, G, plan.blocked)

\* One fork more.
LEMMA ForkStep ==
  ASSUME NEW o \in Observations, NEW q, NEW forks, Declared(forks), NEW k \in 0..Len(forks) - 1,
         NEW plan, NEW G, ForkSound(o, q, forks, k, plan, G)
  PROVE  \E G2 \in Tags : ForkSound(o, q, forks, k + 1, PlanFork(o, plan, forks[k + 1]), G2)
<1> DEFINE m == k + 1
           f == forks[m]
           s == f.service
           base == Base(o, forks)
           done == {forks[j].service : j \in 1..k}
           w == Written(o, f, plan)
           after == PlanFork(o, plan, f)
           stands == Stands(f, Followed(o, f, w), o.tags[f.service], Wanted(o, f, w))
           wanted == Wanted(o, f, w)
           v == IF stands THEN o.tags[s] ELSE wanted
           G2 == [G EXCEPT ![s] = v]
<1>1. m \in 1..Len(forks) /\ Len(forks) \in Nat /\ k \in Nat /\ 1..m = (1..k) \cup {m}
      /\ \A j \in 1..k : j \in 1..Len(forks) /\ j # m
  BY ForkOfService
<1>2. f \in Fork /\ s \in Services /\ f.repo \in Repos /\ \A j \in 1..k : forks[j].service # s /\ forks[j].service \in Services
  BY <1>1, ForkOfService DEF Fork
<1>3. o.tags \in Tags
  BY DEF Observations
<1>4. /\ plan \in Planning /\ G \in Tags
      /\ WritesSound(o, q, base, plan.steps, plan.held)
      /\ Tagged(o.tags, ToSet(plan.steps), G)
      /\ \A x \in ToSet(plan.steps) : x.service \in done
      /\ \A i \in Names, t \in Services \ done : plan.held[i][t] = base[i][t]
      /\ \A t \in Services \ done : plan.trusted[t] = None /\ plan.sources[t] = None
      /\ \A j \in 1..k : Settled(forks[j], plan.held, plan.trusted, plan.sources, G, plan.blocked)
  BY DEF ForkSound
<1>5. Remains(o, f, base)
  BY <1>1, BaseRemains
<1>6. plan.held \in Rosters /\ plan.steps \in Seq(Steps) /\ plan.blocked \in BOOLEAN
  BY <1>4 DEF Planning
<1>7. s \notin done
  BY <1>2
<1> HIDE DEF m, base, done
<1>8. WriteInv(o, q, f, base, done, o.tags, G, plan.held, w, Names)
  <2> DEFINE ff == f
  <2>1. ff \in Fork /\ ff.service \notin done /\ Remains(o, ff, base)
        /\ \A i \in Names : plan.held[i][ff.service] = base[i][ff.service]
    BY <1>2, <1>4, <1>5, <1>7
  <2> HIDE DEF ff
  <2>2. WriteInv(o, q, ff, base, done, o.tags, G, plan.held, Written(o, ff, plan), Names)
    BY <1>4, <1>6, <2>1, AllWritten
  <2> QED BY <2>2 DEF ff
<1>9. ForkOutcome(o, f, plan, w, after)
  <2> DEFINE ff == f
  <2>1. ff \in Fork
    BY <1>2
  <2> HIDE DEF ff
  <2>2. ForkOutcome(o, ff, plan, Written(o, ff, plan), PlanFork(o, plan, ff))
    BY <1>4, <2>1, WrittenTyped, PlanForkCases
  <2> QED BY <2>2 DEF ff
<1> HIDE DEF f, w, after
<1>10. /\ WritesSound(o, q, base, w.steps, w.held) /\ Tagged(o.tags, ToSet(w.steps), G)
       /\ \A x \in ToSet(w.steps) : x.service \in done \/ (x.do = "trust" /\ x.service = s)
       /\ \A i \in Names, t \in Services \ {s} : w.held[i][t] = plan.held[i][t]
       /\ w.held \in Rosters /\ w.steps \in Seq(Steps)
  BY <1>8 DEF WriteInv, Writing
<1>11. /\ after \in Planning /\ after.held = w.held
       /\ stands => after.steps = w.steps
       /\ ~stands => after.steps = Append(w.steps, RecordSource(s, wanted))
       /\ plan.blocked => after.blocked
       /\ \A t \in Services \ {s} : after.trusted[t] = plan.trusted[t] /\ after.sources[t] = plan.sources[t]
  BY <1>9 DEF ForkOutcome
<1>12. wanted \in Repos \cup {Azure}
  BY <1>2 DEF Wanted
<1>13. \A x \in ToSet(w.steps) : x.do = "tag" => x.service # s
  BY <1>7, <1>10
<1>14. G[s] = o.tags[s]
  <2> SUFFICES ASSUME NEW u, RecordSource(s, u) \in ToSet(w.steps) PROVE FALSE
    BY <1>2, <1>10 DEF Tagged
  <2>1. RecordSource(s, u).do = "tag" /\ RecordSource(s, u).service = s
    BY DEF RecordSource
  <2> QED BY <1>13, <2>1
<1> HIDE DEF s, stands, wanted
<1>15. v \in Repos \cup {Azure, None}
  BY <1>2, <1>3, <1>12 DEF Tags
<1>16. G2 \in Tags /\ G2[s] = v /\ \A t \in Services : t # s => G2[t] = G[t]
  BY <1>2, <1>4, <1>15 DEF Tags
<1>17. /\ WritesSound(o, q, base, after.steps, after.held)
       /\ Tagged(o.tags, ToSet(after.steps), G2)
       /\ \A x \in ToSet(after.steps) : x.service \in done \cup {s}
  <2>1. CASE stands
    <3>1. G2 = G
      BY <1>2, <1>4, <1>14, <2>1 DEF Tags
    <3> QED BY <1>10, <1>11, <2>1, <3>1
  <2>2. CASE ~stands
    <3> DEFINE steps == w.steps
               x == RecordSource(s, wanted)
               next == [G EXCEPT ![s] = wanted]
    <3>1. G2 = next
      BY <2>2
    <3>2. steps \in Seq(Steps) /\ \A y \in ToSet(steps) : y.do = "tag" => y.service # s
      BY <1>10, <1>13
    <3>3. WritesSound(o, q, base, steps, w.held) /\ Tagged(o.tags, ToSet(steps), G)
      BY <1>10
    <3> HIDE DEF steps, G2
    <3>4. WritesSound(o, q, base, Append(steps, x), w.held) /\ Tagged(o.tags, ToSet(Append(steps, x)), next)
      BY <1>2, <1>4, <1>12, <3>2, <3>3, TagAppended
    <3>5. x \in Steps /\ x.service = s
      BY <1>2, <1>12, StepsAre DEF RecordSource
    <3> HIDE DEF x, next
    <3>6. ToSet(Append(steps, x)) = ToSet(steps) \cup {x}
      BY <3>2, <3>5, AppendSet
    <3>7. after.steps = Append(steps, x) /\ after.held = w.held
      BY <1>11, <2>2 DEF x, steps
    <3> QED BY <1>10, <3>1, <3>4, <3>5, <3>6, <3>7 DEF steps
  <2> QED BY <2>1, <2>2
<1> HIDE DEF G2
<1>18. Settled(f, after.held, after.trusted, after.sources, G2, after.blocked)
  <2>1. G2[f.service] = IF Stands(f, Followed(o, f, w), o.tags[f.service], Wanted(o, f, w))
                          THEN o.tags[f.service] ELSE Wanted(o, f, w)
    BY <1>16 DEF s, stands, wanted
  <2> QED BY <1>2, <1>5, <1>8, <1>9, <2>1, ForkSettled
<1>19. ASSUME NEW j \in 1..k
       PROVE  Settled(forks[j], after.held, after.trusted, after.sources, G2, after.blocked)
  <2> DEFINE g == forks[j]
  <2>1. g.service \in Services /\ g.service # s
    BY <1>2
  <2>2. Settled(g, plan.held, plan.trusted, plan.sources, G, plan.blocked)
    BY <1>4
  <2>3. Deployer \in Names
    BY Lists
  <2> HIDE DEF g
  <2>4. /\ \A i \in Names : after.held[i][g.service] = plan.held[i][g.service]
        /\ after.trusted[g.service] = plan.trusted[g.service]
        /\ after.sources[g.service] = plan.sources[g.service]
        /\ G2[g.service] = G[g.service]
        /\ ~after.blocked => ~plan.blocked
    BY <1>10, <1>11, <1>16, <2>1
  <2>5. Settled(g, after.held, after.trusted, after.sources, G2, after.blocked)
    BY <2>2, <2>3, <2>4 DEF Settled
  <2> QED BY <2>5 DEF g
<1> DEFINE done2 == {forks[j].service : j \in 1..m}
<1>20. done2 = done \cup {s}
  BY <1>1 DEF done, s, f
<1> HIDE DEF done2
<1>21. /\ \A x \in ToSet(after.steps) : x.service \in done2
       /\ \A i \in Names, t \in Services \ done2 : after.held[i][t] = base[i][t]
       /\ \A t \in Services \ done2 : after.trusted[t] = None /\ after.sources[t] = None
  BY <1>4, <1>10, <1>11, <1>17, <1>20
<1>22. \A j \in 1..m : Settled(forks[j], after.held, after.trusted, after.sources, G2, after.blocked)
  BY <1>1, <1>18, <1>19 DEF f
<1>23. ForkSound(o, q, forks, m, after, G2)
  BY <1>11, <1>16, <1>17, <1>21, <1>22 DEF ForkSound, done2, base
<1> QED BY <1>16, <1>23 DEF after, f, m

\* The whole list.
LEMMA AllForks ==
  ASSUME NEW o \in Observations, NEW q, NEW forks, Declared(forks)
  PROVE  \E G \in Tags : ForkSound(o, q, forks, Len(forks), Reconciled(o, forks), G)
<1> DEFINE n == Len(forks)
           Sound(k, plan) == \E G \in Tags : ForkSound(o, q, forks, k, plan, G)
<1>1. n \in Nat
  BY ForkOfService
<1>2. PICK acc : ForkPath(o, forks, acc)
  BY ReconciledSteps
<1>3. /\ acc \in [0..n -> Planning] /\ acc[0] = Unplanned(o, forks) /\ acc[n] = Reconciled(o, forks)
      /\ \A k \in 1..n : acc[k] = PlanFork(o, acc[k - 1], forks[k])
  BY <1>2 DEF ForkPath
<1> HIDE DEF n
<1> DEFINE E == {k \in 0..n : Sound(k, acc[k])}
           none == 0
<1>4. none \in E
  <2> DEFINE first == acc[none]
             done == {forks[j].service : j \in 1..none}
  <2>1. none = 0 /\ none \in 0..n /\ done = {} /\ \A j \in 1..none : FALSE
    BY <1>1
  <2>2. first = Unplanned(o, forks)
    BY <1>3
  <2>3. first \in Planning
    BY <1>1, <1>3
  <2>4. first.held = Base(o, forks) /\ first.steps = <<>> /\ first.blocked = FALSE /\ first.trusted = NoForks /\ first.sources = NoForks
    BY <2>2 DEF Unplanned
  <2>5. o.tags \in Tags
    BY DEF Observations
  <2>6. ToSet(<<>>) = {} /\ Ordered(q, <<>>)
    BY EmptySet, ShortOrdered
  <2>7. WritesSound(o, q, Base(o, forks), <<>>, Base(o, forks)) /\ Tagged(o.tags, {}, o.tags)
    BY <2>6 DEF WritesSound, Leads, Fits, Tagged
  <2>8. \A t \in Services : NoForks[t] = None
    BY DEF NoForks
  <2> HIDE DEF first, none, done
  <2>9. ForkSound(o, q, forks, none, first, o.tags)
    BY <2>1, <2>3, <2>4, <2>5, <2>6, <2>7, <2>8 DEF ForkSound, done
  <2> QED BY <2>1, <2>5, <2>9 DEF first
<1>5. ASSUME NEW k \in 0..n - 1, k \in E PROVE k + 1 \in E
  <2> DEFINE m == k + 1
  <2>1. m \in 1..n /\ m \in 0..n /\ m - 1 = k
    BY <1>1
  <2>2. PICK G \in Tags : ForkSound(o, q, forks, k, acc[k], G)
    BY <1>5
  <2> DEFINE plan == acc[k]
  <2>3. ForkSound(o, q, forks, k, plan, G) /\ k \in 0..Len(forks) - 1
    BY <2>2 DEF n
  <2> HIDE DEF plan
  <2>4. \E G2 \in Tags : ForkSound(o, q, forks, k + 1, PlanFork(o, plan, forks[k + 1]), G2)
    BY <2>3, ForkStep
  <2>5. acc[m] = PlanFork(o, plan, forks[m])
    BY <1>3, <2>1 DEF plan
  <2>6. Sound(m, acc[m])
    BY <2>4, <2>5 DEF m
  <2> HIDE DEF m, Sound
  <2>7. m \in E
    BY <2>1, <2>6
  <2> QED BY <2>7 DEF m
<1>6. \A k \in 0..n : k \in E
  <2>1. n \in Nat /\ \A k \in 0..n - 1 : k \in E => k + 1 \in E
    BY <1>1, <1>5
  <2>2. 0 \in E
    BY <1>4
  <2> HIDE DEF E
  <2> QED BY <2>1, <2>2, UpTo
<1>7. Sound(n, acc[n])
  BY <1>1, <1>6
<1> QED BY <1>3, <1>7 DEF n

\* What the forks of a declaration come to, the tags of other services
\* returned to Azure.
ReconciledTo(o, q, forks, plan, G) ==
  /\ plan \in Planning /\ G \in Tags
  /\ WritesSound(o, q, Base(o, forks), plan.steps, plan.held)
  /\ \A x \in ToSet(plan.steps) : Declares(forks, x.service)
  /\ \A s \in Services : Declares(forks, s) =>
       /\ \A v \in Repos \cup {Azure} : RecordSource(s, v) \in ToSet(plan.steps) => G[s] = v
       /\ (\A v \in Repos \cup {Azure} : RecordSource(s, v) \notin ToSet(plan.steps)) => G[s] = o.tags[s]
  /\ \A s \in Services : ~Declares(forks, s) => G[s] = IF o.tags[s] \in Repos THEN Azure ELSE o.tags[s]
  /\ plan.trusted = RosterRepos(plan.held) /\ plan.sources = ForkSources(G)
  /\ StillAt(forks, plan.held, G)
  /\ ~plan.blocked => GoalAt(q, plan.held, G)

\* A declaration's forks come to that.
LEMMA ReconciledForks ==
  ASSUME NEW o \in Observations, NEW forks, Declared(forks),
         NEW q, q.op \in {"reconcile", "up"}, q.forks = forks
  PROVE  \E G \in Tags : ReconciledTo(o, q, forks, Reconciled(o, forks), G)
<1> DEFINE n == Len(forks)
           plan == Reconciled(o, forks)
           base == Base(o, forks)
           done == {forks[j].service : j \in 1..n}
           R == plan.held
<1>1. PICK G0 \in Tags : ForkSound(o, q, forks, n, plan, G0)
  BY AllForks
<1> DEFINE G == [s \in Services |-> IF Declares(forks, s) THEN G0[s]
                                    ELSE IF o.tags[s] \in Repos THEN Azure ELSE o.tags[s]]
<1> HIDE DEF plan
<1>2. /\ plan \in Planning /\ plan.held \in Rosters
      /\ WritesSound(o, q, base, plan.steps, plan.held)
      /\ Tagged(o.tags, ToSet(plan.steps), G0)
      /\ \A x \in ToSet(plan.steps) : x.service \in done
      /\ \A i \in Names, t \in Services \ done : plan.held[i][t] = base[i][t]
      /\ \A t \in Services \ done : plan.trusted[t] = None /\ plan.sources[t] = None
      /\ \A j \in 1..n : Settled(forks[j], plan.held, plan.trusted, plan.sources, G0, plan.blocked)
      /\ plan.trusted \in Projections /\ plan.sources \in Projections
  BY <1>1 DEF ForkSound, Planning
<1>3. o.tags \in Tags
  BY DEF Observations
<1>4. /\ \A t : t \in done <=> Declares(forks, t)
      /\ \A t \in done : ForkOf(forks, t) \in Fork /\ ForkOf(forks, t).service = t /\ \E j \in 1..n : ForkOf(forks, t) = forks[j]
  BY ForkOfService
<1>5. None \notin Repos /\ Azure \notin Repos /\ Deployer \in Names
  BY Markers, Lists
<1>6. \A i \in Names, t \in Services : ~Declares(forks, t) => R[i][t] = None
  BY <1>2, <1>4, BaseRemains
<1> HIDE DEF n, done, base
<1>7. ASSUME NEW t \in Services, Declares(forks, t)
      PROVE  LET f == ForkOf(forks, t) IN
             /\ f.repo \in Repos
             /\ R[Deployer][t] \in {None, f.repo} /\ plan.trusted[t] = R[Deployer][t]
             /\ plan.sources[t] = IF G0[t] \in Repos THEN G0[t] ELSE None
             /\ G0[t] \in Repos => f.follows /\ G0[t] = f.repo /\ R[Deployer][t] = f.repo
             /\ ~plan.blocked => /\ \A i \in Names : R[i][t] = f.repo
                                 /\ G0[t] = IF f.follows THEN f.repo ELSE Azure
  <2> DEFINE f == ForkOf(forks, t)
  <2>1. f \in Fork /\ f.service = t /\ \E j \in 1..n : f = forks[j]
    BY <1>4, <1>7
  <2> HIDE DEF f
  <2>2. Settled(f, plan.held, plan.trusted, plan.sources, G0, plan.blocked)
    BY <1>2, <2>1
  <2>3. f.repo \in Repos
    BY <2>1 DEF Fork
  <2> QED BY <2>1, <2>2, <2>3 DEF Settled, f
<1>8. \A t \in Services : G[t] = IF Declares(forks, t) THEN G0[t] ELSE IF o.tags[t] \in Repos THEN Azure ELSE o.tags[t]
  OBVIOUS
<1>9. G \in Tags
  BY <1>3 DEF Tags
<1> HIDE DEF G, R
<1>10. plan.trusted = RosterRepos(R)
  <2>1. \A t \in Services : plan.trusted[t] = RosterRepos(R)[t]
    <3> SUFFICES ASSUME NEW t \in Services PROVE plan.trusted[t] = RosterRepos(R)[t]
      OBVIOUS
    <3>1. RosterRepos(R)[t] = IF R[Deployer][t] \in Repos THEN R[Deployer][t] ELSE None
      BY DEF RosterRepos
    <3>2. CASE Declares(forks, t)
      BY <1>5, <1>7, <3>1, <3>2
    <3>3. CASE ~Declares(forks, t)
      BY <1>2, <1>4, <1>5, <1>6, <3>1, <3>3
    <3> QED BY <3>2, <3>3
  <2>2. plan.trusted = [t \in Services |-> plan.trusted[t]]
    BY <1>2 DEF Projections
  <2>3. RosterRepos(R) = [t \in Services |-> RosterRepos(R)[t]]
    BY DEF RosterRepos
  <2> HIDE DEF R
  <2> QED BY <2>1, <2>2, <2>3
<1>11. plan.sources = ForkSources(G)
  <2>1. \A t \in Services : plan.sources[t] = ForkSources(G)[t]
    <3> SUFFICES ASSUME NEW t \in Services PROVE plan.sources[t] = ForkSources(G)[t]
      OBVIOUS
    <3>1. ForkSources(G)[t] = IF G[t] \in Repos THEN G[t] ELSE None
      BY DEF ForkSources
    <3>2. CASE Declares(forks, t)
      BY <1>7, <1>8, <3>1, <3>2
    <3>3. CASE ~Declares(forks, t)
      BY <1>2, <1>4, <1>5, <1>8, <3>1, <3>3
    <3> QED BY <3>2, <3>3
  <2>2. plan.sources = [t \in Services |-> plan.sources[t]]
    BY <1>2 DEF Projections
  <2>3. ForkSources(G) = [t \in Services |-> ForkSources(G)[t]]
    BY DEF ForkSources
  <2> QED BY <2>1, <2>2, <2>3
<1>12. StillAt(forks, R, G)
  <2> SUFFICES ASSUME NEW t \in Services
               PROVE  /\ ~Declares(forks, t) => \A i \in Names : R[i][t] = None
                      /\ R[Deployer][t] # None => Declares(forks, t) /\ R[Deployer][t] = ForkOf(forks, t).repo
                      /\ G[t] \in Repos => Declares(forks, t) /\ ForkOf(forks, t).follows
                                           /\ G[t] = ForkOf(forks, t).repo /\ R[Deployer][t] = G[t]
    BY DEF StillAt
  <2>1. CASE Declares(forks, t)
    BY <1>7, <1>8, <2>1
  <2>2. CASE ~Declares(forks, t)
    BY <1>5, <1>6, <1>8, <2>2
  <2> QED BY <2>1, <2>2
<1>13. ASSUME ~plan.blocked PROVE GoalAt(q, R, G)
  <2>1. ASSUME NEW t \in Services
        PROVE  IF Declares(forks, t)
                 THEN /\ \A i \in Names : R[i][t] = ForkOf(forks, t).repo
                      /\ G[t] = (IF ForkOf(forks, t).follows THEN ForkOf(forks, t).repo ELSE Azure)
                 ELSE G[t] \notin Repos /\ \A i \in Names : R[i][t] = None
    BY <1>5, <1>6, <1>7, <1>8, <1>13
  <2> QED BY <2>1 DEF GoalAt
<1>14. /\ \A s \in Services : Declares(forks, s) =>
            /\ \A v \in Repos \cup {Azure} : RecordSource(s, v) \in ToSet(plan.steps) => G[s] = v
            /\ (\A v \in Repos \cup {Azure} : RecordSource(s, v) \notin ToSet(plan.steps)) => G[s] = o.tags[s]
       /\ \A s \in Services : ~Declares(forks, s) => G[s] = IF o.tags[s] \in Repos THEN Azure ELSE o.tags[s]
       /\ \A x \in ToSet(plan.steps) : Declares(forks, x.service)
  BY <1>2, <1>4, <1>8 DEF Tagged
<1>15. ReconciledTo(o, q, forks, plan, G)
  BY <1>2, <1>9, <1>10, <1>11, <1>12, <1>13, <1>14 DEF ReconciledTo, R, base
<1> QED BY <1>9, <1>15 DEF plan

\* The writes of a reconciliation: all its steps but the closing ones.
Writes(o, forks) ==
  ForEach(LAMBDA s : RecordSource(s, Azure), Undeclared(o, forks)) \o Revocations(o, forks) \o Reconciled(o, forks).steps

\* The steps that close a plan.
Closing == {ProjectRoster, ProjectSources, SyncRoster, SyncSources, RaiseBlocked}

\* How a reconciliation ends: it reports what is blocked, and leaves out only
\* projections that agree with its plan.
Ends(o, q, plan, e) ==
  /\ e \in Seq(Steps) /\ ToSet(e) \subseteq Closing /\ Ordered(q, e)
  /\ RaiseBlocked \in ToSet(e) <=> plan.blocked
  /\ ~HasDo(ToSet(e), {"project roster", "sync roster"}) => o.projection = plan.trusted
  /\ ~HasDo(ToSet(e), {"project sources", "sync sources"}) => o.sources = plan.sources

\* Returned tags, then revocations, then the writes of the forks.
LEMMA WritesOrdered ==
  ASSUME NEW o \in Observations, NEW forks, Declared(forks), forks # None,
         NEW q, q.op \in {"reconcile", "up"}, q.forks = forks,
         NEW G, ReconciledTo(o, q, forks, Reconciled(o, forks), G)
  PROVE  /\ Writes(o, forks) \in Seq(Steps) /\ Ordered(q, Writes(o, forks))
         /\ \A x : x \in ToSet(Writes(o, forks)) <=>
              \/ \E s \in Services : ~Declares(forks, s) /\ o.tags[s] \in Repos /\ x = RecordSource(s, Azure)
              \/ \E i \in Names : \E s \in Revoked(o, forks, i) : x = Revoke(i, s)
              \/ x \in ToSet(Reconciled(o, forks).steps)
<1> DEFINE chosen == {s \in Services : ~Declares(forks, s) /\ o.tags[s] \in Repos}
           a == ForEach(LAMBDA s : RecordSource(s, Azure), Sorted(chosen))
           b == Revocations(o, forks)
           c == Reconciled(o, forks).steps
           ab == a \o b
           all == Writes(o, forks)
<1>1. a \in Seq(Steps) /\ ToSet(a) = {RecordSource(s, Azure) : s \in chosen} /\ Ordered(q, a)
  BY RecordList
<1>2. /\ b \in Seq(Steps) /\ Ordered(q, b)
      /\ ToSet(b) = {x \in Steps : \E i \in Names : \E s \in Revoked(o, forks, i) : x = Revoke(i, s)}
  BY RevocationsList
<1>3. c \in Seq(Steps) /\ Ordered(q, c) /\ (\A x \in ToSet(c) : x.do \in {"trust", "tag"} /\ Declares(forks, x.service))
  BY DEF ReconciledTo, WritesSound, Planning
<1>4. all = ab \o c
  BY DEF Writes, Undeclared
<1>5. \A x \in ToSet(a) : x.do = "tag" /\ ~Declares(forks, x.service)
  <2>1. \A s : RecordSource(s, Azure).do = "tag" /\ RecordSource(s, Azure).service = s
    BY DEF RecordSource
  <2> HIDE DEF a
  <2> QED BY <1>1, <2>1
<1>6. \A x \in ToSet(b) : x.do = "revoke"
  BY <1>2 DEF Revoke
<1>7. \A x : (\E i \in Names : \E s \in Revoked(o, forks, i) : x = Revoke(i, s)) => x \in Steps
  BY StepsAre DEF Revoked
<1> HIDE DEF a, b, c, all
<1>8. ab \in Seq(Steps) /\ ToSet(ab) = ToSet(a) \cup ToSet(b) /\ Ordered(q, ab)
  <2>1. \A x \in ToSet(a), y \in ToSet(b) : MayFollow(q, x, y)
    BY <1>5, <1>6 DEF MayFollow
  <2> QED BY <1>1, <1>2, <2>1, ConcatSet, ConcatOrdered
<1> HIDE DEF ab
<1>9. all \in Seq(Steps) /\ ToSet(all) = ToSet(ab) \cup ToSet(c) /\ Ordered(q, all)
  <2>1. \A x \in ToSet(ab), y \in ToSet(c) : MayFollow(q, x, y)
    <3>1. \A x \in ToSet(a), y \in ToSet(c) : MayFollow(q, x, y)
      BY <1>3, <1>5 DEF MayFollow
    <3>2. \A x \in ToSet(b), y \in ToSet(c) : MayFollow(q, x, y)
      <4> SUFFICES ASSUME NEW x \in ToSet(b), NEW y \in ToSet(c) PROVE MayFollow(q, x, y)
        OBVIOUS
      <4>1. x.do = "revoke" /\ y.do \in {"trust", "tag"} /\ Declares(forks, y.service)
        BY <1>3, <1>6
      <4>2. Keeps(q, y.service)
        BY <4>1 DEF Keeps
      <4>3. Keeps(q, x.service) \/ y.service # x.service
        BY <4>2
      <4> QED BY <4>1, <4>3 DEF MayFollow
    <3> QED BY <1>8, <3>1, <3>2
  <2>2. ab \o c \in Seq(Steps) /\ ToSet(ab \o c) = ToSet(ab) \cup ToSet(c) /\ Ordered(q, ab \o c)
    BY <1>3, <1>8, <2>1, ConcatSet, ConcatOrdered
  <2> QED BY <1>4, <2>2
<1>10. \A x : x \in ToSet(all) <=> x \in ToSet(a) \/ x \in ToSet(b) \/ x \in ToSet(c)
  BY <1>8, <1>9
<1>11. \A x : x \in ToSet(a) <=> \E s \in Services : ~Declares(forks, s) /\ o.tags[s] \in Repos /\ x = RecordSource(s, Azure)
  BY <1>1
<1>12. \A x : x \in ToSet(b) <=> \E i \in Names : \E s \in Revoked(o, forks, i) : x = Revoke(i, s)
  BY <1>2, <1>7
<1> QED BY <1>9, <1>10, <1>11, <1>12 DEF all, c

\* A reconciliation, however it ends.
LEMMA ReconciliationSound ==
  ASSUME NEW o \in Observations, NEW forks, Declared(forks), forks # None,
         NEW q, q.op \in {"reconcile", "up"}, q.forks = forks,
         NEW e, Ends(o, q, Reconciled(o, forks), e)
  PROVE  PlanSound(o, q, Writes(o, forks) \o e)
<1> DEFINE plan == Reconciled(o, forks)
           base == Base(o, forks)
           R == plan.held
           w == Writes(o, forks)
           steps == w \o e
           W == ToSet(plan.steps)
           T == ToSet(steps)
<1>1. PICK G \in Tags : ReconciledTo(o, q, forks, plan, G)
  BY ReconciledForks
<1>2. /\ w \in Seq(Steps) /\ Ordered(q, w)
      /\ \A x : x \in ToSet(w) <=>
           \/ \E s \in Services : ~Declares(forks, s) /\ o.tags[s] \in Repos /\ x = RecordSource(s, Azure)
           \/ \E i \in Names : \E s \in Revoked(o, forks, i) : x = Revoke(i, s)
           \/ x \in W
  BY <1>1, WritesOrdered
<1>3. /\ e \in Seq(Steps) /\ ToSet(e) \subseteq Closing /\ Ordered(q, e)
      /\ RaiseBlocked \in ToSet(e) <=> plan.blocked
      /\ ~HasDo(ToSet(e), {"project roster", "sync roster"}) => o.projection = plan.trusted
      /\ ~HasDo(ToSet(e), {"project sources", "sync sources"}) => o.sources = plan.sources
  BY DEF Ends
<1>4. /\ R \in Rosters /\ plan.blocked \in BOOLEAN
      /\ \A x \in W : x.do \in {"trust", "tag"} /\ Declares(forks, x.service)
      /\ Leads(base, W, R) /\ Fits(o, base, plan.steps, R)
      /\ \A s \in Services : Declares(forks, s) =>
           /\ \A v \in Repos \cup {Azure} : RecordSource(s, v) \in W => G[s] = v
           /\ (\A v \in Repos \cup {Azure} : RecordSource(s, v) \notin W) => G[s] = o.tags[s]
      /\ \A s \in Services : ~Declares(forks, s) => G[s] = IF o.tags[s] \in Repos THEN Azure ELSE o.tags[s]
      /\ plan.trusted = RosterRepos(R) /\ plan.sources = ForkSources(G)
      /\ StillAt(forks, R, G) /\ (~plan.blocked => GoalAt(q, R, G))
  BY <1>1 DEF ReconciledTo, WritesSound, Planning
<1>5. \A x \in ToSet(e) : x.do \in {"project roster", "project sources", "sync roster", "sync sources", "raise"}
                          /\ (x.do = "raise" => x = RaiseBlocked)
  <2>1. /\ ProjectRoster.do = "project roster" /\ ProjectSources.do = "project sources"
        /\ SyncRoster.do = "sync roster" /\ SyncSources.do = "sync sources" /\ RaiseBlocked.do = "raise"
    BY DEF ProjectRoster, ProjectSources, SyncRoster, SyncSources, RaiseBlocked
  <2>2. ToSet(e) \subseteq {ProjectRoster, ProjectSources, SyncRoster, SyncSources, RaiseBlocked}
    BY <1>3 DEF Closing
  <2> QED BY <2>1, <2>2
<1>6. \A x \in ToSet(w) : x.do \in {"trust", "revoke", "tag"}
  <2>1. \A s, v : RecordSource(s, v).do = "tag"
    BY DEF RecordSource
  <2>2. \A i, s : Revoke(i, s).do = "revoke"
    BY DEF Revoke
  <2> QED BY <1>2, <1>4, <2>1, <2>2
<1>7. \A i \in Names, s \in Services : base[i][s] = IF s \in Revoked(o, forks, i) THEN None ELSE o.roster[i][s]
  BY BaseRemains
<1> HIDE DEF plan, base, R, w, W
<1>8. steps \in Seq(Steps) /\ T = ToSet(w) \cup ToSet(e) /\ Ordered(q, steps)
  <2>1. \A x \in ToSet(w), y \in ToSet(e) : MayFollow(q, x, y)
    BY <1>5, <1>6 DEF MayFollow
  <2>2. w \o e \in Seq(Steps) /\ ToSet(w \o e) = ToSet(w) \cup ToSet(e) /\ Ordered(q, w \o e)
    <3>1. w \in Seq(Steps) /\ Ordered(q, w) /\ e \in Seq(Steps) /\ Ordered(q, e)
      BY <1>2, <1>3
    <3>2. w \o e \in Seq(Steps) /\ ToSet(w \o e) = ToSet(w) \cup ToSet(e)
      BY <3>1, ConcatSet
    <3>3. Ordered(q, w \o e)
      BY <2>1, <3>1, ConcatOrdered
    <3> QED BY <3>2, <3>3
  <2> QED BY <2>2
<1> HIDE DEF T, steps
<1>9. \A i, s, r : Trust(i, s, r) \in T <=> Trust(i, s, r) \in W
  <2> SUFFICES ASSUME NEW i, NEW s, NEW r PROVE Trust(i, s, r) \in T <=> Trust(i, s, r) \in W
    OBVIOUS
  <2>1. Trust(i, s, r).do = "trust"
    BY DEF Trust
  <2>2. (\A t, v : RecordSource(t, v) # Trust(i, s, r)) /\ (\A j, t : Revoke(j, t) # Trust(i, s, r))
    BY DEF Trust, RecordSource, Revoke
  <2> QED BY <1>2, <1>5, <1>8, <2>1, <2>2
<1>10. \A i \in Names, s \in Services : Revoke(i, s) \in T <=> s \in Revoked(o, forks, i)
  <2> SUFFICES ASSUME NEW i \in Names, NEW s \in Services PROVE Revoke(i, s) \in T <=> s \in Revoked(o, forks, i)
    OBVIOUS
  <2>1. Revoke(i, s).do = "revoke"
    BY DEF Revoke
  <2>2. \A t, v : RecordSource(t, v) # Revoke(i, s)
    BY DEF RecordSource, Revoke
  <2>3. \A j, t : Revoke(j, t) = Revoke(i, s) => j = i /\ t = s
    <3> SUFFICES ASSUME NEW j, NEW t, Revoke(j, t) = Revoke(i, s) PROVE j = i /\ t = s
      OBVIOUS
    <3>1. Revoke(j, t).id = j /\ Revoke(j, t).service = t
      BY DEF Revoke
    <3>2. Revoke(i, s).id = i /\ Revoke(i, s).service = s
      BY DEF Revoke
    <3> QED BY <3>1, <3>2
  <2>4. Revoke(i, s) \notin W /\ Revoke(i, s) \notin ToSet(e)
    BY <1>4, <1>5, <2>1
  <2> QED BY <1>2, <1>8, <2>2, <2>3, <2>4
<1>11. \A s \in Services, v \in Repos \cup {Azure} :
         RecordSource(s, v) \in T <=>
           IF Declares(forks, s) THEN RecordSource(s, v) \in W ELSE o.tags[s] \in Repos /\ v = Azure
  <2> SUFFICES ASSUME NEW s \in Services, NEW v \in Repos \cup {Azure}
               PROVE  RecordSource(s, v) \in T <=>
                        IF Declares(forks, s) THEN RecordSource(s, v) \in W ELSE o.tags[s] \in Repos /\ v = Azure
    OBVIOUS
  <2>1. RecordSource(s, v).do = "tag" /\ RecordSource(s, v).service = s /\ RecordSource(s, v).value = v
    BY DEF RecordSource
  <2>2. \A j, t : Revoke(j, t) # RecordSource(s, v)
    BY DEF RecordSource, Revoke
  <2>3. \A t, u : RecordSource(t, u) = RecordSource(s, v) => t = s /\ u = v
    <3> SUFFICES ASSUME NEW t, NEW u, RecordSource(t, u) = RecordSource(s, v) PROVE t = s /\ u = v
      OBVIOUS
    <3>1. RecordSource(t, u).service = t /\ RecordSource(t, u).value = u
      BY DEF RecordSource
    <3> QED BY <2>1, <3>1
  <2>4. RecordSource(s, v) \notin ToSet(e)
    BY <1>5, <2>1
  <2>5. RecordSource(s, v) \in W => Declares(forks, s)
    BY <1>4, <2>1
  <2> QED BY <1>2, <1>8, <2>2, <2>3, <2>4, <2>5
<1>12. Leads(o.roster, T, R)
  <2> SUFFICES ASSUME NEW i \in Names, NEW s \in Services
               PROVE  /\ \A r \in Repos : Trust(i, s, r) \in T => R[i][s] = r
                      /\ (\A r \in Repos : Trust(i, s, r) \notin T)
                           => R[i][s] = IF Revoke(i, s) \in T THEN None ELSE o.roster[i][s]
    BY DEF Leads
  <2>1. Revoke(i, s) \notin W
    <3>1. Revoke(i, s).do = "revoke"
      BY DEF Revoke
    <3> QED BY <1>4, <3>1
  <2> QED BY <1>4, <1>7, <1>9, <1>10, <2>1 DEF Leads
<1>13. Tagged(o.tags, T, G)
  <2> SUFFICES ASSUME NEW s \in Services
               PROVE  /\ \A v \in Repos \cup {Azure} : RecordSource(s, v) \in T => G[s] = v
                      /\ (\A v \in Repos \cup {Azure} : RecordSource(s, v) \notin T) => G[s] = o.tags[s]
    BY DEF Tagged
  <2>1. CASE Declares(forks, s)
    BY <1>4, <1>11, <2>1
  <2>2. CASE ~Declares(forks, s)
    BY <1>4, <1>11, <2>2
  <2> QED BY <2>1, <2>2
<1>14. Room(o.roster, T, R)
  <2> SUFFICES ASSUME NEW i \in Names, NEW s \in Services, NEW r \in Repos, Trust(i, s, r) \in T
               PROVE  /\ o.roster[i][s] = None \/ Revoke(i, s) \in T
                      /\ Held(R[i]) <= MaxCredentials
                      /\ \A t \in Services \ {s} : R[i][t] # r
    BY DEF Room
  <2>1. Trust(i, s, r) \in ToSet(plan.steps)
    BY <1>9 DEF W
  <2>2. base[i][s] = None /\ Held(R[i]) <= MaxCredentials /\ \A t \in Services \ {s} : R[i][t] # r
    BY <1>4, <2>1 DEF Fits
  <2> QED BY <1>7, <1>10, <2>2
<1>15. /\ HasDo(T, {"project roster", "sync roster"}) <=> HasDo(ToSet(e), {"project roster", "sync roster"})
       /\ HasDo(T, {"project sources", "sync sources"}) <=> HasDo(ToSet(e), {"project sources", "sync sources"})
       /\ HasDo(T, {"raise"}) <=> plan.blocked
       /\ ~HasDo(T, {"open"})
  <2>1. /\ HasDo(T, {"project roster", "sync roster"}) <=> HasDo(ToSet(e), {"project roster", "sync roster"})
        /\ HasDo(T, {"project sources", "sync sources"}) <=> HasDo(ToSet(e), {"project sources", "sync sources"})
        /\ HasDo(T, {"raise"}) <=> HasDo(ToSet(e), {"raise"})
        /\ ~HasDo(T, {"open"})
    BY <1>5, <1>6, <1>8 DEF HasDo
  <2>2. RaiseBlocked.do = "raise"
    BY DEF RaiseBlocked
  <2>3. HasDo(ToSet(e), {"raise"}) <=> RaiseBlocked \in ToSet(e)
    BY <1>5, <2>2 DEF HasDo
  <2> QED BY <1>3, <2>1, <2>3
<1>16. Reconciles(q) /\ q.forks # None
  BY DEF Reconciles
<1>17. Planned(o.roster, o.tags, o.projection, o.sources, q, T, R, G)
  BY <1>3, <1>4, <1>12, <1>13, <1>14, <1>15, <1>16 DEF Planned
<1>18. Cleared(T, o.open)
  <2> SUFFICES ASSUME NEW x \in T, x.do = "trust" PROVE x.repo \in o.open
    BY DEF Cleared
  <2>1. x \in Steps
    BY <1>8, SeqSet DEF T
  <2>2. x.id \in Names /\ x.service \in Services /\ x.repo \in Repos /\ x = Trust(x.id, x.service, x.repo)
    BY <2>1, StepForms
  <2>3. Trust(x.id, x.service, x.repo) \in ToSet(plan.steps)
    BY <1>9, <2>2 DEF W
  <2> QED BY <1>4, <2>2, <2>3 DEF Fits
<1>19. RevokesFor(q, T)
  BY <1>16 DEF RevokesFor
<1>20. PlanSound(o, q, steps)
  BY <1>4, <1>8, <1>15, <1>17, <1>18, <1>19 DEF PlanSound, PlanShaped, T
<1> QED BY <1>20 DEF steps, w

\* A plan of closing steps: what it contains does not depend on its order.
LEMMA ClosingOrdered ==
  ASSUME NEW q, NEW e \in Seq(Steps), ToSet(e) \subseteq {ProjectRoster, ProjectSources, SyncRoster, SyncSources, RaiseBlocked}
  PROVE  Ordered(q, e)
<1>1. \A x \in ToSet(e) : x.do \in {"project roster", "project sources", "sync roster", "sync sources", "raise"}
  <2>1. /\ ProjectRoster.do = "project roster" /\ ProjectSources.do = "project sources"
        /\ SyncRoster.do = "sync roster" /\ SyncSources.do = "sync sources" /\ RaiseBlocked.do = "raise"
    BY DEF ProjectRoster, ProjectSources, SyncRoster, SyncSources, RaiseBlocked
  <2> QED BY <2>1
<1>2. \A x, y \in ToSet(e) : MayFollow(q, x, y)
  BY <1>1 DEF MayFollow
<1> QED BY <1>2, AnyOrder

\* A plan of two steps.
LEMMA PairSet ==
  ASSUME NEW x \in Steps, NEW y \in Steps
  PROVE  <<x, y>> \in Seq(Steps) /\ ToSet(<<x, y>>) = {x, y}
<1> DEFINE one == <<x>>
<1>1. one \in Seq(Steps) /\ ToSet(one) = {x}
  BY OneSet
<1>2. <<x, y>> = Append(one, y)
  OBVIOUS
<1> HIDE DEF one
<1>3. Append(one, y) \in Seq(Steps) /\ ToSet(Append(one, y)) = ToSet(one) \cup {y}
  BY <1>1, AppendSet
<1>4. {x, y} = {x} \cup {y}
  OBVIOUS
<1> QED BY <1>1, <1>2, <1>3, <1>4

\* What `spi onboard --reconcile` plans.
LEMMA ReconcilePlan ==
  ASSUME NEW o \in Observations, NEW forks, Declared(forks), forks # None,
         NEW q, q.op = "reconcile", q.forks = forks
  PROVE  PlanSound(o, q, ReconcileSteps(o, forks, TRUE))
<1> DEFINE plan == Reconciled(o, forks)
           w == Writes(o, forks)
           a == ProjectionsAfter(o, plan)
           b == When(plan.blocked, RaiseBlocked)
           e == a \o b
           steps == ReconcileSteps(o, forks, TRUE)
<1>1. PICK G \in Tags : ReconciledTo(o, q, forks, plan, G)
  BY ReconciledForks
<1>2. w \in Seq(Steps)
  BY <1>1, WritesOrdered
<1>3. plan.blocked \in BOOLEAN
  BY <1>1 DEF ReconciledTo, Planning
<1>4. {ProjectRoster, ProjectSources, SyncRoster, SyncSources, RaiseBlocked} \subseteq Steps
  BY StepsAre
<1>5. /\ a \in Seq(Steps)
      /\ ToSet(a) = IF plan.trusted # o.projection \/ plan.sources # o.sources THEN {ProjectRoster, ProjectSources} ELSE {}
  <2>1. CASE plan.trusted # o.projection \/ plan.sources # o.sources
    <3>1. a = <<ProjectRoster, ProjectSources>>
      BY <2>1 DEF ProjectionsAfter
    <3>2. <<ProjectRoster, ProjectSources>> \in Seq(Steps) /\ ToSet(<<ProjectRoster, ProjectSources>>) = {ProjectRoster, ProjectSources}
      BY <1>4, PairSet
    <3> HIDE DEF a, plan
    <3> QED BY <2>1, <3>1, <3>2
  <2>2. CASE ~(plan.trusted # o.projection \/ plan.sources # o.sources)
    <3>1. a = <<>>
      BY <2>2 DEF ProjectionsAfter
    <3> HIDE DEF a, plan
    <3> QED BY <2>2, <3>1, EmptySet
  <2> QED BY <2>1, <2>2
<1>6. b \in Seq(Steps) /\ ToSet(b) = IF plan.blocked THEN {RaiseBlocked} ELSE {}
  BY <1>3, <1>4, WhenList
<1>7. steps = ((w \o a) \o b)
  BY DEF ReconcileSteps, Writes
<1> HIDE DEF w, a, b, plan, steps
<1>8. steps = w \o e
  BY <1>2, <1>5, <1>6, <1>7, ConcatAssociative
<1>9. e \in Seq(Steps) /\ ToSet(e) = ToSet(a) \cup ToSet(b)
  BY <1>5, <1>6, ConcatSet
<1> HIDE DEF e
<1>10. /\ ProjectRoster.do = "project roster" /\ ProjectSources.do = "project sources" /\ RaiseBlocked.do = "raise"
       /\ RaiseBlocked # ProjectRoster /\ RaiseBlocked # ProjectSources
  BY DEF ProjectRoster, ProjectSources, RaiseBlocked
<1>11. /\ ToSet(e) \subseteq {ProjectRoster, ProjectSources, RaiseBlocked}
       /\ RaiseBlocked \in ToSet(e) <=> plan.blocked
       /\ ProjectRoster \notin ToSet(e) => plan.trusted = o.projection
       /\ ProjectSources \notin ToSet(e) => plan.sources = o.sources
  <2> DEFINE differs == plan.trusted # o.projection \/ plan.sources # o.sources
  <2>1. ~differs => plan.trusted = o.projection /\ plan.sources = o.sources
    OBVIOUS
  <2>2. ToSet(a) = IF differs THEN {ProjectRoster, ProjectSources} ELSE {}
    BY <1>5
  <2> HIDE DEF differs
  <2>3. ToSet(e) = ToSet(a) \cup (IF plan.blocked THEN {RaiseBlocked} ELSE {})
    BY <1>6, <1>9
  <2>4. RaiseBlocked \in ToSet(e) <=> plan.blocked
    BY <1>10, <2>2, <2>3
  <2>5. ToSet(e) \subseteq {ProjectRoster, ProjectSources, RaiseBlocked}
    BY <2>2, <2>3
  <2>6. differs => ProjectRoster \in ToSet(e) /\ ProjectSources \in ToSet(e)
    BY <2>2, <2>3
  <2> QED BY <2>1, <2>4, <2>5, <2>6
<1>12. Ordered(q, e)
  BY <1>9, <1>11, ClosingOrdered
<1>13. Ends(o, q, plan, e)
  BY <1>9, <1>10, <1>11, <1>12 DEF Ends, HasDo, Closing
<1>14. PlanSound(o, q, steps)
  <2>1. Ends(o, q, Reconciled(o, forks), e) /\ steps = Writes(o, forks) \o e
    BY <1>8, <1>13 DEF plan, w
  <2>2. q.op \in {"reconcile", "up"}
    OBVIOUS
  <2> HIDE DEF steps, e, plan
  <2>3. PlanSound(o, q, Writes(o, forks) \o e)
    BY <2>1, <2>2, ReconciliationSound
  <2> QED BY <2>1, <2>3
<1> QED BY <1>14 DEF steps

\* How spi up closes its plan.
SyncBoth == <<SyncRoster, SyncSources>>

\* The two steps that rebuild the projections.
LEMMA SyncList ==
  SyncBoth \in Seq(Steps) /\ ToSet(SyncBoth) = {SyncRoster, SyncSources}
<1>1. SyncRoster \in Steps /\ SyncSources \in Steps
  BY StepsAre
<1> QED BY <1>1, PairSet DEF SyncBoth

\* What `spi up` plans on a declared environment.
LEMMA UpPlan ==
  ASSUME NEW o \in Observations, NEW forks, Declared(forks), forks # None,
         NEW q, q.op = "up", q.forks = forks
  PROVE  /\ PlanSound(o, q, ReconcileSteps(o, forks, FALSE) \o SyncBoth)
         /\ ReconcileSteps(o, forks, FALSE) \o SyncBoth # <<>>
<1> DEFINE plan == Reconciled(o, forks)
           w == Writes(o, forks)
           b == When(plan.blocked, RaiseBlocked)
           e == b \o SyncBoth
           steps == ReconcileSteps(o, forks, FALSE) \o SyncBoth
<1>1. PICK G \in Tags : ReconciledTo(o, q, forks, plan, G)
  BY ReconciledForks
<1>2. w \in Seq(Steps)
  BY <1>1, WritesOrdered
<1>3. plan.blocked \in BOOLEAN
  BY <1>1 DEF ReconciledTo, Planning
<1>4. {ProjectRoster, ProjectSources, SyncRoster, SyncSources, RaiseBlocked} \subseteq Steps
  BY StepsAre
<1>5. b \in Seq(Steps) /\ ToSet(b) = IF plan.blocked THEN {RaiseBlocked} ELSE {}
  BY <1>3, <1>4, WhenList
<1>6. SyncBoth \in Seq(Steps) /\ ToSet(SyncBoth) = {SyncRoster, SyncSources}
  BY SyncList
<1>7. ReconcileSteps(o, forks, FALSE) = ((w \o <<>>) \o b)
  BY DEF ReconcileSteps, Writes
<1> HIDE DEF w, b, plan
<1>8. steps = w \o e
  <2>1. w \o <<>> = w
    BY <1>2, ConcatEmptySeq
  <2>2. steps = (w \o b) \o SyncBoth
    BY <1>7, <2>1
  <2>3. w \in Seq(Steps) /\ b \in Seq(Steps) /\ SyncBoth \in Seq(Steps)
    BY <1>2, <1>5, <1>6
  <2>4. (w \o b) \o SyncBoth = w \o (b \o SyncBoth)
    BY <2>3, ConcatAssociative
  <2> QED BY <2>2, <2>4
<1> HIDE DEF steps
<1>9. e \in Seq(Steps) /\ ToSet(e) = ToSet(b) \cup ToSet(SyncBoth)
  BY <1>5, <1>6, ConcatSet
<1> HIDE DEF e
<1>10. /\ SyncRoster.do = "sync roster" /\ SyncSources.do = "sync sources" /\ RaiseBlocked.do = "raise"
       /\ RaiseBlocked # SyncRoster /\ RaiseBlocked # SyncSources
  BY DEF SyncRoster, SyncSources, RaiseBlocked
<1>11. /\ ToSet(e) \subseteq {SyncRoster, SyncSources, RaiseBlocked}
       /\ RaiseBlocked \in ToSet(e) <=> plan.blocked
       /\ SyncRoster \in ToSet(e) /\ SyncSources \in ToSet(e)
  BY <1>5, <1>6, <1>9, <1>10
<1>12. Ordered(q, e)
  BY <1>9, <1>11, ClosingOrdered
<1>13. Ends(o, q, plan, e)
  BY <1>9, <1>10, <1>11, <1>12 DEF Ends, HasDo, Closing
<1>14. PlanSound(o, q, steps)
  <2>1. Ends(o, q, Reconciled(o, forks), e) /\ steps = Writes(o, forks) \o e
    BY <1>8, <1>13 DEF plan, w
  <2>2. q.op \in {"reconcile", "up"}
    OBVIOUS
  <2> HIDE DEF steps, e, plan
  <2>3. PlanSound(o, q, Writes(o, forks) \o e)
    BY <2>1, <2>2, ReconciliationSound
  <2> QED BY <2>1, <2>3
<1>15. steps # <<>>
  <2> DEFINE all == w \o e
  <2>1. all \in Seq(Steps) /\ SyncRoster \in ToSet(all)
    BY <1>2, <1>9, <1>11, ConcatSet
  <2> HIDE DEF all
  <2>2. all # <<>>
    BY <2>1, EmptySet
  <2> QED BY <1>8, <2>2 DEF all
<1> QED BY <1>14, <1>15 DEF steps

\* What `spi up` plans on an undeclared environment.
LEMMA UpUndeclaredPlan ==
  ASSUME NEW o \in Observations, NEW q, q.op = "up", q.forks = None
  PROVE  PlanShaped(o, q, SyncBoth) /\ (FollowsAt(o.roster, o.tags) => PlanSound(o, q, SyncBoth))
<1>1. o.roster \in Rosters /\ o.tags \in Tags
  BY DEF Observations
<1>2. SyncBoth \in Seq(Steps) /\ ToSet(SyncBoth) = {SyncRoster, SyncSources}
  BY SyncList
<1>3. SyncRoster.do = "sync roster" /\ SyncSources.do = "sync sources"
  BY DEF SyncRoster, SyncSources
<1> DEFINE T == ToSet(SyncBoth)
<1>4. \A x \in T : x.do \in {"sync roster", "sync sources"}
  BY <1>2, <1>3
<1>5. Ordered(q, SyncBoth)
  BY <1>2, ClosingOrdered
<1>6. HasDo(T, {"project roster", "sync roster"}) /\ HasDo(T, {"project sources", "sync sources"})
      /\ ~HasDo(T, {"raise"}) /\ ~HasDo(T, {"open"})
  BY <1>2, <1>3 DEF HasDo
<1> HIDE DEF T
<1>7. (\A i, s, r : Trust(i, s, r) \notin T) /\ (\A i, s : Revoke(i, s) \notin T) /\ (\A s, v : RecordSource(s, v) \notin T)
  <2>1. \A i, s, r : Trust(i, s, r).do = "trust"
    BY DEF Trust
  <2>2. \A i, s : Revoke(i, s).do = "revoke"
    BY DEF Revoke
  <2>3. \A s, v : RecordSource(s, v).do = "tag"
    BY DEF RecordSource
  <2> QED BY <1>4, <2>1, <2>2, <2>3
<1>8. Leads(o.roster, T, o.roster) /\ Tagged(o.tags, T, o.tags) /\ Room(o.roster, T, o.roster)
  BY <1>7 DEF Leads, Tagged, Room
<1>9. GoalAt(q, o.roster, o.tags)
  BY DEF GoalAt
<1>10. Cleared(T, o.open) /\ RevokesFor(q, T)
  BY <1>4, <1>7 DEF Cleared, RevokesFor
<1>11. PlanShaped(o, q, SyncBoth)
  BY <1>2, <1>5, <1>6, <1>10 DEF PlanShaped, T
<1>12. ASSUME FollowsAt(o.roster, o.tags)
       PROVE  Planned(o.roster, o.tags, o.projection, o.sources, q, T, o.roster, o.tags)
  BY <1>6, <1>8, <1>9, <1>12 DEF Planned
<1> QED BY <1>1, <1>11, <1>12 DEF PlanSound, T

---------------------------------------------------------------------------
(* The inductive invariant.                                                *)

\* The stages of a call.
Stages == {"idle", "running", "provisioning", "done", "failed", "refused", "blocked"}

\* What a process keeps of its call.
Calls == [stage : Stages, request : Request \cup {None}, todo : Seq(Steps), alone : BOOLEAN, seen : SUBSET Repos]

\* The records have their types.
RecordsOK ==
  /\ roster \in Rosters /\ tags \in Tags /\ projection \in Projections /\ sources \in Projections
  /\ open \subseteq Repos /\ declaration \in Declarations \cup {None}

\* The call is under way.
Busy(c) == c.stage \in {"running", "provisioning"}

\* What is left of a call's plan, whoever else runs.
CallSound(c, admitted) ==
  /\ c.stage = "running" =>
       /\ c.request \in Request
       /\ c.todo # <<>> /\ Ordered(c.request, c.todo)
       /\ Cleared(ToSet(c.todo), c.seen) /\ admitted \subseteq c.seen
       /\ HasDo(ToSet(c.todo), {"open"}) => HasDo(ToSet(c.todo), {"check"})
       /\ RevokesFor(c.request, ToSet(c.todo))
  /\ c.stage = "provisioning" => c.request \in ForksRequest /\ c.request.op = "up"
  /\ c.stage # "running" => c.todo = <<>>

\* What a call that runs by itself is about to have done.
PromiseSound(c, creds, old, trusted, canonical) ==
  /\ c.stage \in {"running", "done"} =>
       \E R \in Rosters, G \in Tags : Planned(creds, old, trusted, canonical, c.request, ToSet(c.todo), R, G)
  /\ c.stage = "blocked" => Reconciles(c.request) /\ c.request.forks # None /\ StillAt(c.request.forks, creds, old)
  /\ c.stage = "provisioning" /\ c.request.forks = None => FollowsAt(creds, old)
  /\ c.stage = "refused" => ~Reconciles(c.request)

\* Every call is sound, and one that runs by itself runs alone.
CallsSound(calls, admitted) ==
  /\ calls \in [Procs -> Calls]
  /\ \A p, r \in Procs : p # r /\ calls[p].alone => ~Busy(calls[r])
  /\ \A p \in Procs : CallSound(calls[p], admitted)

\* Every call that runs by itself keeps its promise.
PromisesSound(calls, creds, old, trusted, canonical) ==
  \A p \in Procs : calls[p].alone => PromiseSound(calls[p], creds, old, trusted, canonical)

\* The inductive invariant: types, what is left of every plan, and what the
\* calls that run by themselves are about to have done.
Inv ==
  /\ RecordsOK
  /\ CallsSound(call, open)
  /\ PromisesSound(call, roster, tags, projection, sources)

\* The calls after a step of p that leaves it at c.
After(p, c) == [q \in Procs |-> IF q = p THEN c ELSE Disturbed(call[q])]

---------------------------------------------------------------------------
(* A step of one process, and the calls it disturbs.                       *)

\* A call that somebody else disturbs.
LEMMA DisturbedSound ==
  ASSUME NEW c \in Calls, NEW admitted, CallSound(c, admitted)
  PROVE  /\ Disturbed(c) \in Calls /\ ~Disturbed(c).alone /\ Disturbed(c).stage = c.stage
         /\ CallSound(Disturbed(c), admitted)
<1> DEFINE d == Disturbed(c)
<1>1. /\ c.stage \in Stages /\ c.request \in Request \cup {None} /\ c.todo \in Seq(Steps)
      /\ c.alone \in BOOLEAN /\ c.seen \in SUBSET Repos
  BY DEF Calls
<1>2. CASE Busy(c)
  <2>1. d = [c EXCEPT !.alone = FALSE]
    BY <1>2 DEF Disturbed, Busy
  <2>2. d = [stage |-> c.stage, request |-> c.request, todo |-> c.todo, alone |-> FALSE, seen |-> c.seen]
    BY <2>1 DEF Calls
  <2> HIDE DEF d
  <2>3. d.stage = c.stage /\ d.request = c.request /\ d.todo = c.todo /\ d.alone = FALSE /\ d.seen = c.seen
    BY <2>2
  <2>4. d \in Calls
    BY <1>1, <2>2 DEF Calls
  <2>5. CallSound(d, admitted)
    BY <2>3 DEF CallSound
  <2> QED BY <2>3, <2>4, <2>5 DEF d
<1>3. CASE ~Busy(c)
  <2>1. d = [c EXCEPT !.alone = FALSE, !.request = None]
    BY <1>3 DEF Disturbed, Busy
  <2>2. d = [stage |-> c.stage, request |-> None, todo |-> c.todo, alone |-> FALSE, seen |-> c.seen]
    BY <2>1 DEF Calls
  <2> HIDE DEF d
  <2>3. d.stage = c.stage /\ d.request = None /\ d.todo = c.todo /\ d.alone = FALSE /\ d.seen = c.seen
    BY <2>2
  <2>4. d \in Calls
    BY <1>1, <2>2 DEF Calls
  <2>5. CallSound(d, admitted)
    BY <1>3, <2>3 DEF CallSound, Busy
  <2> QED BY <2>3, <2>4, <2>5 DEF d
<1> QED BY <1>2, <1>3

\* A step of one process.
LEMMA AfterSound ==
  ASSUME Inv, NEW p \in Procs, NEW c \in Calls, CallSound(c, open),
         c.alone => \A q \in Procs \ {p} : ~Busy(call[q])
  PROVE  /\ CallsSound(After(p, c), open)
         /\ \A r \in Procs : After(p, c)[r] = IF r = p THEN c ELSE Disturbed(call[r])
         /\ \A r \in Procs \ {p} : ~After(p, c)[r].alone
<1> DEFINE next == After(p, c)
<1>1. call \in [Procs -> Calls] /\ \A r \in Procs : call[r] \in Calls /\ CallSound(call[r], open)
  BY DEF Inv, CallsSound
<1>2. \A r \in Procs : next[r] = IF r = p THEN c ELSE Disturbed(call[r])
  BY DEF After
<1>3. \A r \in Procs : /\ Disturbed(call[r]) \in Calls /\ ~Disturbed(call[r]).alone
                       /\ Disturbed(call[r]).stage = call[r].stage
                       /\ CallSound(Disturbed(call[r]), open)
  BY <1>1, DisturbedSound
<1>4. next \in [Procs -> Calls]
  BY <1>3 DEF After
<1> HIDE DEF next
<1>5. \A r \in Procs : CallSound(next[r], open)
  BY <1>2, <1>3
<1>6. \A q, r \in Procs : q # r /\ next[q].alone => ~Busy(next[r])
  BY <1>2, <1>3 DEF Busy
<1>7. \A r \in Procs \ {p} : ~next[r].alone
  BY <1>2, <1>3
<1> QED BY <1>2, <1>4, <1>5, <1>6, <1>7 DEF CallsSound, next

\* A step of one process that leaves every environment's rules alone.
LEMMA StepSound ==
  ASSUME Inv, NEW p \in Procs, NEW c \in Calls, CallSound(c, open),
         c.alone => \A q \in Procs \ {p} : ~Busy(call[q]),
         call' = After(p, c), open' = open, RecordsOK',
         c.alone => PromiseSound(c, roster', tags', projection', sources')
  PROVE  Inv'
<1>1. /\ CallsSound(call', open')
      /\ call'[p] = c /\ \A r \in Procs \ {p} : ~call'[r].alone
  BY AfterSound
<1>2. PromisesSound(call', roster', tags', projection', sources')
  BY <1>1 DEF PromisesSound
<1> QED BY <1>1, <1>2 DEF Inv

\* What is known of a running call, and of its next step.
LEMMA RunningCall ==
  ASSUME Inv, NEW p \in Procs, call[p].stage = "running"
  PROVE  LET c == call[p] IN
         /\ c \in Calls /\ c.todo \in Seq(Steps) /\ c.todo # <<>> /\ c.request \in Request
         /\ Head(c.todo) \in Steps /\ Tail(c.todo) \in Seq(Steps)
         /\ ToSet(c.todo) = {Head(c.todo)} \cup ToSet(Tail(c.todo))
         /\ Ordered(c.request, Tail(c.todo))
         /\ \A x \in ToSet(Tail(c.todo)) : MayFollow(c.request, Head(c.todo), x)
         /\ Cleared(ToSet(c.todo), c.seen) /\ open \subseteq c.seen
         /\ HasDo(ToSet(c.todo), {"open"}) => HasDo(ToSet(c.todo), {"check"})
         /\ RevokesFor(c.request, ToSet(c.todo))
         /\ Len(c.todo) = 1 <=> Tail(c.todo) = <<>>
<1> DEFINE c == call[p]
           todo == c.todo
           rest == Tail(todo)
<1>1. c \in Calls /\ CallSound(c, open)
  BY DEF Inv, CallsSound
<1>2. todo \in Seq(Steps)
  BY <1>1 DEF Calls
<1> HIDE DEF c
<1>3. c.stage = "running"
  BY DEF c
<1>4. /\ c.request \in Request /\ todo # <<>> /\ Ordered(c.request, todo)
      /\ Cleared(ToSet(todo), c.seen) /\ open \subseteq c.seen
      /\ HasDo(ToSet(todo), {"open"}) => HasDo(ToSet(todo), {"check"})
      /\ RevokesFor(c.request, ToSet(todo))
  BY <1>1, <1>3 DEF CallSound
<1> HIDE DEF todo
<1>5. /\ Head(todo) \in Steps /\ rest \in Seq(Steps) /\ Len(rest) = Len(todo) - 1
      /\ ToSet(todo) = {Head(todo)} \cup ToSet(rest)
  BY <1>2, <1>4, TailSet
<1>6. Ordered(c.request, rest) /\ \A x \in ToSet(rest) : MayFollow(c.request, Head(todo), x)
  <2> DEFINE q == c.request
  <2>1. Ordered(q, todo)
    BY <1>4
  <2> HIDE DEF q
  <2>2. Ordered(q, Tail(todo)) /\ \A x \in ToSet(Tail(todo)) : MayFollow(q, Head(todo), x)
    BY <1>2, <1>4, <2>1, TailOrdered
  <2> QED BY <2>2 DEF q
<1> HIDE DEF rest
<1>7. Len(todo) = 1 <=> rest = <<>>
  <2>1. Len(todo) \in Nat /\ Len(rest) \in Nat /\ (rest = <<>> => Len(rest) = 0)
    BY <1>2, <1>5, SeqSet
  <2>2. Len(rest) = 0 => rest = <<>>
    BY <1>5, EmptySeq
  <2> QED BY <1>5, <2>1, <2>2
<1> QED BY <1>1, <1>2, <1>4, <1>5, <1>6, <1>7 DEF rest, todo, c

---------------------------------------------------------------------------
(* The steps of a plan: a call goes on, stops or fails.                    *)

\* A running call, one step further.
Onward(c) ==
  IF Len(c.todo) = 1 THEN [c EXCEPT !.todo = <<>>, !.stage = "done", !.seen = {}]
  ELSE [c EXCEPT !.todo = Tail(@)]

\* What is left of a sound plan is sound, when a check it takes succeeds.
LEMMA OnwardSound ==
  ASSUME Inv, NEW p \in Procs, call[p].stage = "running",
         Head(call[p].todo).do = "check" => Head(call[p].todo).repo \in open
  PROVE  LET c == call[p]
             d == Onward(c)
         IN /\ d \in Calls /\ CallSound(d, open) /\ d.stage \in {"running", "done"}
            /\ d.request = c.request /\ d.alone = c.alone /\ d.todo = Tail(c.todo)
<1> DEFINE c == call[p]
           todo == c.todo
           h == Head(todo)
           rest == Tail(todo)
           d == Onward(c)
<1>1. /\ c \in Calls /\ todo \in Seq(Steps) /\ todo # <<>> /\ c.request \in Request
      /\ rest \in Seq(Steps)
      /\ ToSet(todo) = {h} \cup ToSet(rest)
      /\ Ordered(c.request, rest)
      /\ \A x \in ToSet(rest) : MayFollow(c.request, h, x)
      /\ Cleared(ToSet(todo), c.seen) /\ open \subseteq c.seen
      /\ RevokesFor(c.request, ToSet(todo))
      /\ Len(todo) = 1 <=> rest = <<>>
  BY RunningCall
<1>2. c.stage = "running" /\ (h.do = "check" => h.repo \in open)
  OBVIOUS
<1>3. <<>> \in Seq(Steps)
  BY EmptySet
<1>4. d = IF Len(todo) = 1 THEN [c EXCEPT !.todo = <<>>, !.stage = "done", !.seen = {}] ELSE [c EXCEPT !.todo = rest]
  BY DEF Onward
<1> HIDE DEF c, d
<1>5. /\ c.stage \in Stages /\ c.request \in Request \cup {None} /\ c.todo \in Seq(Steps)
      /\ c.alone \in BOOLEAN /\ c.seen \in SUBSET Repos
  BY <1>1 DEF Calls
<1> HIDE DEF todo, h, rest
<1>6. CASE Len(todo) = 1
  <2>1. d = [stage |-> "done", request |-> c.request, todo |-> <<>>, alone |-> c.alone, seen |-> {}]
    BY <1>1, <1>4, <1>6 DEF Calls
  <2>2. d.stage = "done" /\ d.request = c.request /\ d.todo = <<>> /\ d.alone = c.alone /\ d.seen = {}
    BY <2>1
  <2>3. d \in Calls
    BY <1>3, <1>5, <2>1 DEF Calls, Stages
  <2>4. CallSound(d, open)
    BY <2>2 DEF CallSound
  <2> QED BY <1>1, <1>6, <2>2, <2>3, <2>4 DEF c, d, todo, rest
<1>7. CASE Len(todo) # 1
  <2>1. d = [stage |-> c.stage, request |-> c.request, todo |-> rest, alone |-> c.alone, seen |-> c.seen]
    BY <1>1, <1>4, <1>7 DEF Calls
  <2>2. d.stage = "running" /\ d.request = c.request /\ d.todo = rest /\ d.alone = c.alone /\ d.seen = c.seen
    BY <1>2, <2>1
  <2>3. d \in Calls
    BY <1>1, <1>5, <2>1 DEF Calls
  <2>4. Cleared(ToSet(rest), c.seen)
    <3> SUFFICES ASSUME NEW x \in ToSet(rest), x.do = "trust" PROVE x.repo \in c.seen \/ CheckRules(x.repo) \in ToSet(rest)
      BY DEF Cleared
    <3>1. x.repo \in c.seen \/ CheckRules(x.repo) \in ToSet(todo)
      BY <1>1 DEF Cleared
    <3>2. CASE CheckRules(x.repo) = h
      <4>1. CheckRules(x.repo).do = "check" /\ CheckRules(x.repo).repo = x.repo
        BY DEF CheckRules
      <4> QED BY <1>1, <1>2, <3>2, <4>1
    <3> QED BY <1>1, <3>1, <3>2
  <2>5. ~HasDo(ToSet(rest), {"open"})
    BY <1>1 DEF HasDo, MayFollow
  <2>6. RevokesFor(c.request, ToSet(rest))
    BY <1>1 DEF RevokesFor
  <2>7. CallSound(d, open)
    BY <1>1, <1>7, <2>2, <2>4, <2>5, <2>6 DEF CallSound
  <2> QED BY <2>2, <2>3, <2>7 DEF c, d, todo, rest
<1> QED BY <1>6, <1>7

\* A call that does the next step and goes on.
LEMMA ContinueSound ==
  ASSUME Inv, NEW p \in Procs, call[p].stage = "running",
         Head(call[p].todo).do = "check" => Head(call[p].todo).repo \in open,
         Continue(p), open' = open, RecordsOK',
         call[p].alone => \E R \in Rosters, G \in Tags :
           Planned(roster', tags', projection', sources', call[p].request, ToSet(Tail(call[p].todo)), R, G)
  PROVE  Inv'
<1> DEFINE d == Onward(call[p])
<1>1. /\ d \in Calls /\ CallSound(d, open) /\ d.stage \in {"running", "done"}
      /\ d.request = call[p].request /\ d.alone = call[p].alone /\ d.todo = Tail(call[p].todo)
  BY OnwardSound
<1>2. call' = After(p, d)
  BY DEF Continue, Stop, Acts, After, Onward
<1> HIDE DEF d
<1>3. d.alone => \A q \in Procs \ {p} : ~Busy(call[q])
  BY <1>1 DEF Inv, CallsSound
<1>4. d.alone => PromiseSound(d, roster', tags', projection', sources')
  BY <1>1 DEF PromiseSound
<1> QED BY <1>1, <1>2, <1>3, <1>4, StepSound

\* A call that stops half-way, refused or blocked.
LEMMA StopSound ==
  ASSUME Inv, NEW p \in Procs, call[p].stage = "running", NEW stage \in {"refused", "blocked"},
         Stop(p, stage), open' = open, RecordsOK',
         call[p].alone /\ stage = "refused" => ~Reconciles(call[p].request),
         call[p].alone /\ stage = "blocked" =>
           /\ Reconciles(call[p].request) /\ call[p].request.forks # None
           /\ StillAt(call[p].request.forks, roster', tags')
  PROVE  Inv'
<1> DEFINE c == call[p]
           d == [c EXCEPT !.todo = <<>>, !.stage = stage, !.seen = {}]
<1>1. c \in Calls
  BY DEF Inv, CallsSound
<1>2. call' = After(p, d)
  BY DEF Stop, Acts, After
<1>3. c.alone => \A q \in Procs \ {p} : ~Busy(call[q])
  BY DEF Inv, CallsSound
<1>4. /\ c.alone /\ stage = "refused" => ~Reconciles(c.request)
      /\ c.alone /\ stage = "blocked" =>
           Reconciles(c.request) /\ c.request.forks # None /\ StillAt(c.request.forks, roster', tags')
  OBVIOUS
<1> HIDE DEF c
<1>5. d = [stage |-> stage, request |-> c.request, todo |-> <<>>, alone |-> c.alone, seen |-> {}]
  <2>1. CASE stage = "refused"
    <3>1. d = [c EXCEPT !.todo = <<>>, !.stage = "refused", !.seen = {}]
      BY <2>1
    <3> HIDE DEF d
    <3>2. d = [stage |-> "refused", request |-> c.request, todo |-> <<>>, alone |-> c.alone, seen |-> {}]
      BY <1>1, <3>1 DEF Calls
    <3> QED BY <2>1, <3>2 DEF d
  <2>2. CASE stage = "blocked"
    <3>1. d = [c EXCEPT !.todo = <<>>, !.stage = "blocked", !.seen = {}]
      BY <2>2
    <3> HIDE DEF d
    <3>2. d = [stage |-> "blocked", request |-> c.request, todo |-> <<>>, alone |-> c.alone, seen |-> {}]
      BY <1>1, <3>1 DEF Calls
    <3> QED BY <2>2, <3>2 DEF d
  <2> QED BY <2>1, <2>2
<1> HIDE DEF d
<1>6. d.stage = stage /\ d.request = c.request /\ d.todo = <<>> /\ d.alone = c.alone /\ d.seen = {}
  BY <1>5
<1>7. d \in Calls
  <2>1. <<>> \in Seq(Steps)
    BY EmptySet
  <2> QED BY <1>1, <1>5, <2>1 DEF Calls, Stages
<1>8. CallSound(d, open)
  BY <1>6 DEF CallSound
<1>9. d.alone => PromiseSound(d, roster', tags', projection', sources')
  BY <1>4, <1>6 DEF PromiseSound
<1> QED BY <1>2, <1>3, <1>6, <1>7, <1>8, <1>9, StepSound

\* A call that fails promises nothing.
LEMMA FailSound ==
  ASSUME Inv, NEW p \in Procs, Fail(p), open' = open, RecordsOK'
  PROVE  Inv'
<1> DEFINE d == [Idle EXCEPT !.stage = "failed"]
<1>1. call' = After(p, d)
  BY DEF Fail, Acts, After
<1>2. d = [stage |-> "failed", request |-> None, todo |-> <<>>, alone |-> FALSE, seen |-> {}]
  <2>1. Idle \in Calls /\ Idle.request = None /\ Idle.todo = <<>> /\ Idle.alone = FALSE /\ Idle.seen = {}
    BY EmptySet DEF Idle, Calls, Stages
  <2> DEFINE idle == Idle
  <2>2. idle \in Calls
    BY <2>1
  <2> HIDE DEF idle
  <2>3. [idle EXCEPT !.stage = "failed"] = [stage |-> "failed", request |-> idle.request, todo |-> idle.todo, alone |-> idle.alone, seen |-> idle.seen]
    BY <2>2 DEF Calls
  <2> QED BY <2>1, <2>3 DEF idle
<1> HIDE DEF d
<1>3. d.stage = "failed" /\ d.todo = <<>> /\ d.alone = FALSE
  BY <1>2
<1>4. d \in Calls
  <2>1. <<>> \in Seq(Steps)
    BY EmptySet
  <2> QED BY <1>2, <2>1 DEF Calls, Stages
<1>5. CallSound(d, open)
  BY <1>3 DEF CallSound
<1> QED BY <1>1, <1>3, <1>4, <1>5, StepSound

\* A call that starts with a plan.
LEMMA CallStarts ==
  ASSUME Inv, NEW p \in Procs, NEW o \in Observations, NEW q \in Request, NEW steps,
         o.roster = roster, o.tags = tags, o.projection = projection, o.sources = sources, o.open = open,
         PlanSound(o, q, steps), Call(p, q, steps),
         UNCHANGED <<records, open, declaration>>
  PROVE  Inv'
<1> DEFINE d == [stage |-> IF steps = <<>> THEN "done" ELSE "running", request |-> q,
                 todo |-> steps, alone |-> \A r \in Procs \ {p} : ~Running(r),
                 seen |-> IF steps = <<>> THEN {} ELSE open]
<1>1. call' = After(p, d)
  BY DEF Call, Acts, After
<1>2. /\ d.stage = (IF steps = <<>> THEN "done" ELSE "running") /\ d.request = q /\ d.todo = steps
      /\ d.alone = (\A r \in Procs \ {p} : ~Running(r))
      /\ d.seen = IF steps = <<>> THEN {} ELSE open
  OBVIOUS
<1>3. /\ steps \in Seq(Steps) /\ Ordered(q, steps) /\ Cleared(ToSet(steps), open)
      /\ HasDo(ToSet(steps), {"open"}) => HasDo(ToSet(steps), {"check"})
      /\ RevokesFor(q, ToSet(steps))
      /\ \E R \in Rosters, G \in Tags : Planned(roster, tags, projection, sources, q, ToSet(steps), R, G)
  BY DEF PlanSound, PlanShaped
<1>4. RecordsOK
  BY DEF Inv
<1>5. d \in Calls
  BY <1>3, <1>4 DEF Calls, Stages, RecordsOK
<1> HIDE DEF d
<1>6. CallSound(d, open)
  BY <1>2, <1>3 DEF CallSound
<1>7. d.alone => \A r \in Procs \ {p} : ~Busy(call[r])
  BY <1>2 DEF Busy, Running
<1>8. /\ roster' = roster /\ tags' = tags /\ projection' = projection /\ sources' = sources
      /\ open' = open /\ declaration' = declaration
  BY DEF records
<1>9. PromiseSound(d, roster', tags', projection', sources')
  BY <1>2, <1>3, <1>8 DEF PromiseSound
<1>10. RecordsOK'
  BY <1>4, <1>8 DEF RecordsOK
<1> QED BY <1>1, <1>5, <1>6, <1>7, <1>8, <1>9, <1>10, StepSound

---------------------------------------------------------------------------
(* The start of a call, and its plan.                                      *)

\* What a call observes is an observation of the records.
LEMMA ObservedSound ==
  ASSUME RecordsOK, NEW unresolved \in SUBSET Repos
  PROVE  LET o == Observed(unresolved) IN
         /\ o \in Observations
         /\ o.roster = roster /\ o.tags = tags /\ o.projection = projection /\ o.sources = sources /\ o.open = open
<1> DEFINE o == Observed(unresolved)
<1>1. /\ o = [roster |-> roster, tags |-> tags, projection |-> projection, sources |-> sources,
              open |-> open, unread |-> {}, unresolved |-> unresolved]
  BY DEF Observed
<1> HIDE DEF o
<1>2. /\ roster \in Rosters /\ tags \in Tags /\ projection \in Projections /\ sources \in Projections
      /\ open \in SUBSET Repos /\ {} \in SUBSET Repos
  BY DEF RecordsOK
<1>3. o \in Observations
  BY <1>1, <1>2 DEF Observations
<1> QED BY <1>1, <1>3 DEF o

\* So is what is reported of a declaration's forks.
LEMMA ReportedSound ==
  ASSUME RecordsOK, NEW forks \in Declarations, NEW o \in Reported(forks)
  PROVE  /\ Declared(forks) /\ forks # None
         /\ o \in Observations
         /\ o.roster = roster /\ o.tags = tags /\ o.projection = projection /\ o.sources = sources /\ o.open = open
<1>1. Declared(forks) /\ forks # None
  BY OnboardAssumption DEF OnboardAssumption, Declared
<1>2. \A i \in DOMAIN forks : forks[i].repo \in Repos
  <2>1. \A i \in DOMAIN forks : forks[i] \in Fork
    BY <1>1, ForkOfService
  <2> QED BY <2>1 DEF Fork
<1> DEFINE repos == {forks[i].repo : i \in DOMAIN forks}
           followed == {forks[i].repo : i \in {j \in DOMAIN forks : forks[j].follows}}
<1>3. repos \subseteq Repos /\ followed \subseteq Repos
  BY <1>2
<1>4. o \in [roster : {roster}, tags : {tags}, projection : {projection}, sources : {sources}, open : {open},
             unread : SUBSET repos, unresolved : SUBSET followed]
  BY DEF Reported
<1> HIDE DEF repos, followed
<1>5. /\ roster \in Rosters /\ tags \in Tags /\ projection \in Projections /\ sources \in Projections
      /\ open \in SUBSET Repos
  BY DEF RecordsOK
<1>6. SUBSET repos \subseteq SUBSET Repos /\ SUBSET followed \subseteq SUBSET Repos
  BY <1>3
<1>7. o \in Observations
  BY <1>4, <1>5, <1>6 DEF Observations
<1>8. o.roster = roster /\ o.tags = tags /\ o.projection = projection /\ o.sources = sources /\ o.open = open
  BY <1>4
<1> QED BY <1>1, <1>7, <1>8

\* OnboardService preserves the invariant.
LEMMA OnboardServiceSound ==
  ASSUME Inv, NEW p \in Procs, OnboardService(p)
  PROVE  Inv'
<1>11. PICK q \in OnboardRequest : \E unresolved \in SUBSET {q.repo} :
        ~OnboardRefused(Observed(unresolved), q) /\ Call(p, q, OnboardSteps(Observed(unresolved), q))
  BY DEF OnboardService
<1>1. PICK unresolved \in SUBSET {q.repo} :
        ~OnboardRefused(Observed(unresolved), q) /\ Call(p, q, OnboardSteps(Observed(unresolved), q))
  BY <1>11
<1> DEFINE o == Observed(unresolved)
           steps == OnboardSteps(o, q)
<1>2. unresolved \in SUBSET Repos /\ q \in Request
  BY DEF OnboardRequest, Request
<1>3. /\ o \in Observations
      /\ o.roster = roster /\ o.tags = tags /\ o.projection = projection /\ o.sources = sources /\ o.open = open
  BY <1>2, ObservedSound DEF Inv
<1>4. ~OnboardRefused(o, q) /\ Call(p, q, steps)
  BY <1>1
<1> HIDE DEF o
<1>5. PlanSound(o, q, steps)
  BY <1>3, <1>4, OnboardPlan
<1>6. UNCHANGED <<records, open, declaration>>
  BY DEF OnboardService
<1> HIDE DEF steps
<1> QED BY <1>2, <1>3, <1>4, <1>5, <1>6, CallStarts

\* RemoveService preserves the invariant.
LEMMA RemoveServiceSound ==
  ASSUME Inv, NEW p \in Procs, RemoveService(p)
  PROVE  Inv'
<1>1. PICK q \in RemoveRequest : Call(p, q, RemoveSteps(Observed({}), q))
  BY DEF RemoveService
<1> DEFINE o == Observed({})
           steps == RemoveSteps(o, q)
<1>2. q \in Request
  BY DEF Request
<1>3. /\ o \in Observations
      /\ o.roster = roster /\ o.tags = tags /\ o.projection = projection /\ o.sources = sources /\ o.open = open
  BY ObservedSound DEF Inv
<1>4. Call(p, q, steps)
  BY <1>1
<1> HIDE DEF o
<1>5. PlanSound(o, q, steps)
  BY <1>3, RemovePlan
<1>6. UNCHANGED <<records, open, declaration>>
  BY DEF RemoveService
<1> HIDE DEF steps
<1> QED BY <1>2, <1>3, <1>4, <1>5, <1>6, CallStarts

\* ReconcileForks preserves the invariant.
LEMMA ReconcileForksSound ==
  ASSUME Inv, NEW p \in Procs, ReconcileForks(p)
  PROVE  Inv'
<1> DEFINE q == [op |-> "reconcile", forks |-> declaration]
<1>1. PICK o \in Reported(declaration) : Call(p, q, ReconcileSteps(o, declaration, TRUE))
  BY DEF ReconcileForks
<1> DEFINE steps == ReconcileSteps(o, declaration, TRUE)
<1>2. declaration \in Declarations
  BY DEF ReconcileForks, Inv, RecordsOK
<1>3. q \in Request /\ q.op = "reconcile" /\ q.forks = declaration
  BY <1>2 DEF Request, ForksRequest
<1>4. /\ Declared(declaration) /\ declaration # None /\ o \in Observations
      /\ o.roster = roster /\ o.tags = tags /\ o.projection = projection /\ o.sources = sources /\ o.open = open
  BY <1>2, ReportedSound DEF Inv
<1>5. Call(p, q, steps)
  BY <1>1
<1> HIDE DEF q
<1>6. PlanSound(o, q, steps)
  BY <1>3, <1>4, ReconcilePlan
<1>7. UNCHANGED <<records, open, declaration>>
  BY DEF ReconcileForks
<1> HIDE DEF steps
<1> QED BY <1>3, <1>4, <1>5, <1>6, <1>7, CallStarts

\* SpiUp preserves the invariant: an undeclared environment's tags follow
\* what the deployer trusts, or it stops there.
LEMMA SpiUpSound ==
  ASSUME Inv, NEW p \in Procs, SpiUp(p)
  PROVE  Inv'
<1> DEFINE q == [op |-> "up", forks |-> declaration]
           d == [stage |-> "provisioning", request |-> q, todo |-> <<>>,
                 alone |-> \A r \in Procs \ {p} : ~Running(r), seen |-> {}]
<1>1. call' = After(p, d)
  BY DEF SpiUp, Acts, After
<1>2. q \in ForksRequest /\ q \in Request /\ q.op = "up" /\ q.forks = declaration
  BY DEF Inv, RecordsOK, Request, ForksRequest
<1> HIDE DEF q
<1>3. /\ d.stage = "provisioning" /\ d.request = q /\ d.todo = <<>>
      /\ d.alone = (\A r \in Procs \ {p} : ~Running(r))
  OBVIOUS
<1>4. d \in Calls
  <2>1. <<>> \in Seq(Steps)
    BY EmptySet
  <2> QED BY <1>2, <2>1 DEF Calls, Stages
<1> HIDE DEF d
<1>5. CallSound(d, open)
  BY <1>2, <1>3 DEF CallSound
<1>6. d.alone => \A r \in Procs \ {p} : ~Busy(call[r])
  BY <1>3 DEF Busy, Running
<1>7. /\ roster' = roster /\ tags' = tags /\ projection' = projection /\ sources' = sources
      /\ open' = open /\ declaration' = declaration
  BY DEF SpiUp, records
<1>8. declaration = None => FollowsAt(roster, tags)
  BY DEF SpiUp, UpProceeds, FollowsAt
<1>9. PromiseSound(d, roster', tags', projection', sources')
  BY <1>2, <1>3, <1>7, <1>8 DEF PromiseSound
<1>10. RecordsOK'
  BY <1>7 DEF Inv, RecordsOK
<1> QED BY <1>1, <1>4, <1>5, <1>6, <1>7, <1>9, <1>10, StepSound

\* The plan of spi up, once provisioned.
LEMMA UpPlans ==
  ASSUME Inv, NEW p \in Procs, call[p].stage = "provisioning", NEW steps,
         LET forks == call[p].request.forks IN
         steps \in IF forks = None THEN {<<>>} ELSE {ReconcileSteps(o, forks, FALSE) : o \in Reported(forks)}
  PROVE  LET q == call[p].request
             todo == steps \o SyncBoth
         IN /\ q \in Request /\ Reconciles(q)
            /\ todo \in Seq(Steps) /\ todo # <<>> /\ Ordered(q, todo) /\ Cleared(ToSet(todo), open)
            /\ HasDo(ToSet(todo), {"open"}) => HasDo(ToSet(todo), {"check"})
            /\ RevokesFor(q, ToSet(todo))
            /\ call[p].alone => \E R \in Rosters, G \in Tags :
                 Planned(roster, tags, projection, sources, q, ToSet(todo), R, G)
<1> DEFINE q == call[p].request
           forks == q.forks
           todo == steps \o SyncBoth
<1>1. q \in ForksRequest /\ q.op = "up"
  BY DEF Inv, CallsSound, CallSound
<1>2. steps \in IF forks = None THEN {<<>>} ELSE {ReconcileSteps(o, forks, FALSE) : o \in Reported(forks)}
  OBVIOUS
<1>3. call[p].alone /\ forks = None => FollowsAt(roster, tags)
  BY DEF Inv, PromisesSound, PromiseSound
<1> HIDE DEF q
<1>4. q \in Request /\ Reconciles(q) /\ forks \in Declarations \cup {None}
  BY <1>1 DEF Request, ForksRequest, Reconciles
<1>5. PICK o \in Observations :
        /\ o.roster = roster /\ o.tags = tags /\ o.projection = projection
        /\ o.sources = sources /\ o.open = open
        /\ PlanShaped(o, q, todo) /\ (call[p].alone => PlanSound(o, q, todo)) /\ todo # <<>>
  <2>1. CASE forks = None
    <3> DEFINE o == Observed({})
    <3>1. /\ o \in Observations
          /\ o.roster = roster /\ o.tags = tags /\ o.projection = projection
          /\ o.sources = sources /\ o.open = open
      BY ObservedSound DEF Inv
    <3> HIDE DEF o
    <3>2. PlanShaped(o, q, SyncBoth) /\ (FollowsAt(o.roster, o.tags) => PlanSound(o, q, SyncBoth))
      BY <1>1, <2>1, <3>1, UpUndeclaredPlan
    <3> DEFINE both == SyncBoth
    <3>3. both \in Seq(Steps) /\ both # <<>>
      BY SyncList, EmptySet
    <3>4. steps = <<>> /\ todo = <<>> \o both
      BY <1>2, <2>1
    <3> HIDE DEF both
    <3>5. todo = both
      BY <3>3, <3>4
    <3> HIDE DEF todo
    <3> QED BY <1>3, <2>1, <3>1, <3>2, <3>3, <3>5 DEF both
  <2>2. CASE forks # None
    <3>1. PICK o \in Reported(forks) : steps = ReconcileSteps(o, forks, FALSE)
      BY <1>2, <2>2
    <3>2. /\ Declared(forks) /\ o \in Observations
          /\ o.roster = roster /\ o.tags = tags /\ o.projection = projection
          /\ o.sources = sources /\ o.open = open
      BY <1>4, <2>2, ReportedSound DEF Inv
    <3> DEFINE plan == ReconcileSteps(o, forks, FALSE) \o SyncBoth
    <3>3. PlanSound(o, q, plan) /\ plan # <<>>
      BY <1>1, <2>2, <3>2, UpPlan
    <3>4. todo = plan
      BY <3>1
    <3> HIDE DEF plan, todo
    <3> QED BY <3>2, <3>3, <3>4 DEF PlanSound
  <2> QED BY <2>1, <2>2
<1> HIDE DEF todo
<1>6. call[p].alone => \E R \in Rosters, G \in Tags :
        Planned(roster, tags, projection, sources, q, ToSet(todo), R, G)
  BY <1>5 DEF PlanSound
<1> QED BY <1>4, <1>5, <1>6 DEF PlanShaped, todo, q

\* ProjectTrustedRepos preserves the invariant.
LEMMA ProjectTrustedReposSound ==
  ASSUME Inv, NEW p \in Procs, ProjectTrustedRepos(p)
  PROVE  Inv'
<1> DEFINE c == call[p]
           q == c.request
<1>1. PICK steps : 
        /\ steps \in IF q.forks = None THEN {<<>>} ELSE {ReconcileSteps(o, q.forks, FALSE) : o \in Reported(q.forks)}
        /\ Acts(p, [call[p] EXCEPT !.stage = "running", !.seen = open,
                               !.todo = steps \o <<SyncRoster, SyncSources>>])
  BY DEF ProjectTrustedRepos
<1> DEFINE todo == steps \o SyncBoth
           d == [c EXCEPT !.stage = "running", !.seen = open, !.todo = todo]
<1>2. call[p].stage = "provisioning"
  BY DEF ProjectTrustedRepos
<1>3. /\ q \in Request
      /\ todo \in Seq(Steps) /\ todo # <<>> /\ Ordered(q, todo) /\ Cleared(ToSet(todo), open)
      /\ HasDo(ToSet(todo), {"open"}) => HasDo(ToSet(todo), {"check"})
      /\ RevokesFor(q, ToSet(todo))
      /\ c.alone => \E R \in Rosters, G \in Tags :
           Planned(roster, tags, projection, sources, q, ToSet(todo), R, G)
  BY <1>1, <1>2, UpPlans
<1>4. call' = After(p, d)
  BY <1>1 DEF Acts, After, SyncBoth
<1>5. c \in Calls
  BY DEF Inv, CallsSound
<1>6. c.alone => \A r \in Procs \ {p} : ~Busy(call[r])
  BY DEF Inv, CallsSound
<1> HIDE DEF c, todo
<1>7. d = [stage |-> "running", request |-> c.request, todo |-> todo, alone |-> c.alone, seen |-> open]
  <2> DEFINE now == open
  <2>1. now \in SUBSET Repos /\ todo \in Seq(Steps)
    BY <1>3 DEF Inv, RecordsOK
  <2> HIDE DEF now
  <2> DEFINE a == [c EXCEPT !.stage = "running"]
             b == [a EXCEPT !.seen = now]
             e == [b EXCEPT !.todo = todo]
  <2>6. /\ c.stage \in Stages /\ c.request \in Request \cup {None} /\ c.todo \in Seq(Steps)
        /\ c.alone \in BOOLEAN /\ c.seen \in SUBSET Repos /\ "running" \in Stages
    BY <1>5 DEF Calls, Stages
  <2>2. a = [stage |-> "running", request |-> c.request, todo |-> c.todo, alone |-> c.alone, seen |-> c.seen]
    BY <1>5 DEF Calls
  <2> HIDE DEF a
  <2>7. a \in Calls
    BY <2>2, <2>6 DEF Calls
  <2>3. b = [stage |-> a.stage, request |-> a.request, todo |-> a.todo, alone |-> a.alone, seen |-> now]
    BY <2>7 DEF Calls
  <2> HIDE DEF b
  <2>8. b \in Calls
    BY <2>1, <2>3, <2>7 DEF Calls
  <2>9. e = [stage |-> b.stage, request |-> b.request, todo |-> todo, alone |-> b.alone, seen |-> b.seen]
    BY <2>8 DEF Calls
  <2> HIDE DEF e
  <2>4. e = [stage |-> "running", request |-> c.request, todo |-> todo, alone |-> c.alone, seen |-> now]
    BY <2>2, <2>3, <2>9
  <2>5. d = e
    BY DEF now, a, b, e
  <2> HIDE DEF d
  <2> QED BY <2>4, <2>5 DEF now
<1> HIDE DEF d
<1>8. d.stage = "running" /\ d.request = q /\ d.todo = todo /\ d.alone = c.alone /\ d.seen = open
  BY <1>7
<1>9. d \in Calls
  <2>1. c.request \in Request \cup {None} /\ c.alone \in BOOLEAN /\ open \in SUBSET Repos
    BY <1>5 DEF Calls, Inv, RecordsOK
  <2> QED BY <1>3, <1>7, <2>1 DEF Calls, Stages
<1>10. CallSound(d, open)
  BY <1>3, <1>8 DEF CallSound
<1>11. /\ roster' = roster /\ tags' = tags /\ projection' = projection /\ sources' = sources
       /\ open' = open /\ declaration' = declaration
  BY DEF ProjectTrustedRepos, records
<1>12. d.alone => PromiseSound(d, roster', tags', projection', sources')
  BY <1>3, <1>8, <1>11 DEF PromiseSound
<1>13. RecordsOK'
  BY <1>11 DEF Inv, RecordsOK
<1> QED BY <1>4, <1>6, <1>8, <1>9, <1>10, <1>11, <1>12, <1>13, StepSound

---------------------------------------------------------------------------
(* The steps of the calls.                                                 *)

\* A call that sees a repository's environment open.
LEMMA SawSound ==
  ASSUME NEW c \in Calls, NEW admitted, CallSound(c, admitted), NEW r \in Repos
  PROVE  LET d == Saw(c, r) IN
         /\ d \in Calls /\ CallSound(d, admitted \cup {r})
         /\ d.stage = c.stage /\ d.request = c.request /\ d.todo = c.todo /\ d.alone = c.alone
<1> DEFINE d == Saw(c, r)
<1>1. /\ c.stage \in Stages /\ c.request \in Request \cup {None} /\ c.todo \in Seq(Steps)
      /\ c.alone \in BOOLEAN /\ c.seen \in SUBSET Repos
  BY DEF Calls
<1>2. CASE c.stage = "running"
  <2> DEFINE now == c.seen \cup {r}
  <2>1. now \in SUBSET Repos
    BY <1>1
  <2>2. d = [c EXCEPT !.seen = now]
    BY <1>2 DEF Saw
  <2> HIDE DEF now
  <2>3. d = [stage |-> c.stage, request |-> c.request, todo |-> c.todo, alone |-> c.alone, seen |-> now]
    BY <2>1, <2>2 DEF Calls
  <2> HIDE DEF d
  <2>4. d.stage = c.stage /\ d.request = c.request /\ d.todo = c.todo /\ d.alone = c.alone /\ d.seen = now
    BY <2>3
  <2>5. d \in Calls
    BY <1>1, <2>1, <2>3 DEF Calls
  <2>6. Cleared(ToSet(c.todo), now) /\ admitted \cup {r} \subseteq now
    BY <1>2 DEF CallSound, Cleared, now
  <2>7. CallSound(d, admitted \cup {r})
    BY <1>2, <2>4, <2>6 DEF CallSound
  <2> QED BY <2>4, <2>5, <2>7 DEF d
<1>3. CASE c.stage # "running"
  <2>1. d = c
    BY <1>3 DEF Saw
  <2>2. CallSound(c, admitted \cup {r})
    BY <1>3 DEF CallSound
  <2> QED BY <2>1, <2>2
<1> QED BY <1>2, <1>3

\* All calls, once the environment of r is open.
LEMMA AllSaw ==
  ASSUME NEW calls, NEW admitted, CallsSound(calls, admitted), NEW r \in Repos
  PROVE  LET next == [q \in Procs |-> Saw(calls[q], r)] IN
         /\ CallsSound(next, admitted \cup {r})
         /\ \A q \in Procs : /\ next[q].stage = calls[q].stage /\ next[q].request = calls[q].request
                             /\ next[q].todo = calls[q].todo /\ next[q].alone = calls[q].alone
<1> DEFINE next == [q \in Procs |-> Saw(calls[q], r)]
<1>1. \A q \in Procs : calls[q] \in Calls /\ CallSound(calls[q], admitted)
  BY DEF CallsSound
<1>2. \A q \in Procs : next[q] = Saw(calls[q], r)
  OBVIOUS
<1>3. \A q \in Procs : /\ Saw(calls[q], r) \in Calls /\ CallSound(Saw(calls[q], r), admitted \cup {r})
                       /\ Saw(calls[q], r).stage = calls[q].stage /\ Saw(calls[q], r).request = calls[q].request
                       /\ Saw(calls[q], r).todo = calls[q].todo /\ Saw(calls[q], r).alone = calls[q].alone
  BY <1>1, SawSound
<1>4. next \in [Procs -> Calls]
  BY <1>3
<1> HIDE DEF next
<1>5. \A q \in Procs : /\ next[q].stage = calls[q].stage /\ next[q].request = calls[q].request
                       /\ next[q].todo = calls[q].todo /\ next[q].alone = calls[q].alone
  BY <1>2, <1>3
<1>6. \A q \in Procs : CallSound(next[q], admitted \cup {r})
  BY <1>2, <1>3
<1>7. \A p, q \in Procs : p # q /\ next[p].alone => ~Busy(next[q])
  BY <1>5 DEF CallsSound, Busy
<1> QED BY <1>4, <1>5, <1>6, <1>7 DEF CallsSound, next

\* A plan that opens an environment goes on to check its rules.
LEMMA OpenGoesOn ==
  ASSUME Inv, NEW p \in Procs, Next1(p, "open")
  PROVE  /\ Head(call[p].todo).repo \in Repos /\ Tail(call[p].todo) # <<>>
         /\ Onward(call[p]) = [call[p] EXCEPT !.todo = Tail(@)]
<1> DEFINE c == call[p]
           todo == c.todo
           h == Head(todo)
           rest == Tail(todo)
<1>1. call[p].stage = "running" /\ h.do = "open"
  BY DEF Next1
<1>2. /\ h \in Steps /\ rest \in Seq(Steps) /\ ToSet(todo) = {h} \cup ToSet(rest)
      /\ HasDo(ToSet(todo), {"open"}) => HasDo(ToSet(todo), {"check"})
      /\ Len(todo) = 1 <=> rest = <<>>
  BY <1>1, RunningCall
<1>3. Onward(c) = IF Len(todo) = 1 THEN [c EXCEPT !.todo = <<>>, !.stage = "done", !.seen = {}]
                  ELSE [c EXCEPT !.todo = Tail(@)]
  BY DEF Onward
<1> HIDE DEF c, todo, h, rest
<1>4. h.repo \in Repos
  BY <1>1, <1>2, StepForms
<1>5. HasDo(ToSet(todo), {"check"})
  BY <1>1, <1>2 DEF HasDo
<1>6. PICK x \in ToSet(todo) : x.do = "check"
  BY <1>5 DEF HasDo
<1>7. x # h
  BY <1>1, <1>6
<1>8. rest # <<>>
  BY <1>2, <1>6, <1>7, EmptySet
<1> QED BY <1>2, <1>3, <1>4, <1>8 DEF c, todo, h, rest

\* OpenStep preserves the invariant: every running call sees it.
LEMMA OpenStepSound ==
  ASSUME Inv, NEW p \in Procs, OpenStep(p)
  PROVE  Inv'
<1> DEFINE c == call[p]
           r == Head(c.todo).repo
           d == Onward(c)
           calls == After(p, d)
<1>1. Next1(p, "open") /\ c.stage = "running" /\ Head(c.todo).do = "open"
  BY DEF OpenStep, Next1
<1>2. r \in Repos /\ d = [call[p] EXCEPT !.todo = Tail(@)] /\ Tail(c.todo) # <<>>
  BY <1>1, OpenGoesOn
<1>3. /\ d \in Calls /\ CallSound(d, open) /\ d.stage \in {"running", "done"}
      /\ d.request = c.request /\ d.alone = c.alone /\ d.todo = Tail(c.todo)
  BY <1>1, OnwardSound
<1>4. call' = [q \in Procs |-> Saw(calls[q], r)]
  <2>1. call' = [q \in Procs |-> Saw(IF q = p THEN d ELSE Disturbed(call[q]), r)]
    BY <1>2 DEF OpenStep
  <2> QED BY <2>1 DEF After
<1>5. /\ open' = open \cup {r} /\ declaration' = declaration
      /\ roster' = roster /\ tags' = tags /\ projection' = projection /\ sources' = sources
  BY DEF OpenStep, records
<1>6. c.alone => \A q \in Procs \ {p} : ~Busy(call[q])
  BY DEF Inv, CallsSound
<1>7. c.alone => \E R \in Rosters, G \in Tags :
        Planned(roster, tags, projection, sources, c.request, ToSet(Tail(c.todo)), R, G)
  <2>1. ToSet(c.todo) = {Head(c.todo)} \cup ToSet(Tail(c.todo))
    BY <1>1, RunningCall
  <2>2. c.alone => \E R \in Rosters, G \in Tags :
          Planned(roster, tags, projection, sources, c.request, {Head(c.todo)} \cup ToSet(Tail(c.todo)), R, G)
    BY <1>1, <2>1 DEF Inv, PromisesSound, PromiseSound
  <2> DEFINE h == Head(c.todo)
             U == ToSet(Tail(c.todo))
             q == c.request
  <2>3. h.do \in {"open", "check"}
    BY <1>1
  <2>4. c.alone => \E R \in Rosters, G \in Tags : Planned(roster, tags, projection, sources, q, {h} \cup U, R, G)
    BY <2>2
  <2> HIDE DEF h, U, q
  <2>5. c.alone => \E R \in Rosters, G \in Tags : Planned(roster, tags, projection, sources, q, U, R, G)
    BY <2>3, <2>4, PlannedCheck
  <2> QED BY <2>5 DEF h, U, q
<1> HIDE DEF c, d
<1>8. /\ CallsSound(calls, open)
      /\ \A q \in Procs : calls[q] = IF q = p THEN d ELSE Disturbed(call[q])
      /\ \A q \in Procs \ {p} : ~calls[q].alone
  BY <1>3, <1>6, AfterSound
<1> HIDE DEF calls, r
<1>9. /\ CallsSound(call', open')
      /\ \A q \in Procs : /\ call'[q].stage = calls[q].stage /\ call'[q].request = calls[q].request
                          /\ call'[q].todo = calls[q].todo /\ call'[q].alone = calls[q].alone
  BY <1>2, <1>4, <1>5, <1>8, AllSaw
<1>10. RecordsOK'
  BY <1>2, <1>5 DEF Inv, RecordsOK
<1>11. PromisesSound(call', roster', tags', projection', sources')
  <2> SUFFICES ASSUME call'[p].alone PROVE PromiseSound(call'[p], roster', tags', projection', sources')
    BY <1>8, <1>9 DEF PromisesSound
  <2>1. /\ call'[p].stage \in {"running", "done"} /\ call'[p].request = c.request
        /\ call'[p].todo = Tail(c.todo) /\ c.alone
    BY <1>3, <1>8, <1>9
  <2> QED BY <1>5, <1>7, <2>1 DEF PromiseSound
<1> QED BY <1>9, <1>10, <1>11 DEF Inv

\* The next step of a running call, and the rest of its plan.
LEMMA NextStep ==
  ASSUME Inv, NEW p \in Procs, NEW do, Next1(p, do)
  PROVE  LET c == call[p]
             h == Head(c.todo)
             U == ToSet(Tail(c.todo))
         IN /\ c.stage = "running" /\ h.do = do /\ h \in Steps
            /\ \A x \in U : MayFollow(c.request, h, x)
            /\ c.alone => \E R \in Rosters, G \in Tags :
                 Planned(roster, tags, projection, sources, c.request, {h} \cup U, R, G)
<1> DEFINE c == call[p]
           h == Head(c.todo)
           U == ToSet(Tail(c.todo))
<1>1. c.stage = "running" /\ h.do = do
  BY DEF Next1
<1>2. h \in Steps /\ ToSet(c.todo) = {h} \cup U /\ \A x \in U : MayFollow(c.request, h, x)
  BY <1>1, RunningCall
<1>3. c.alone => \E R \in Rosters, G \in Tags :
        Planned(roster, tags, projection, sources, c.request, ToSet(c.todo), R, G)
  BY <1>1 DEF Inv, PromisesSound, PromiseSound
<1>4. c.alone => \E R \in Rosters, G \in Tags :
        Planned(roster, tags, projection, sources, c.request, {h} \cup U, R, G)
  BY <1>2, <1>3
<1> QED BY <1>1, <1>2, <1>4

\* CheckStep preserves the invariant.
LEMMA CheckStepSound ==
  ASSUME Inv, NEW p \in Procs, CheckStep(p)
  PROVE  Inv'
<1> DEFINE h == Head(call[p].todo)
           U == ToSet(Tail(call[p].todo))
           q == call[p].request
<1>1. /\ roster' = roster /\ tags' = tags /\ projection' = projection /\ sources' = sources
      /\ open' = open /\ declaration' = declaration /\ Next1(p, "check")
  BY DEF CheckStep, records
<1>2. RecordsOK'
  BY <1>1 DEF Inv, RecordsOK
<1>3. /\ call[p].stage = "running" /\ h.do = "check"
      /\ call[p].alone => \E R \in Rosters, G \in Tags :
           Planned(roster, tags, projection, sources, q, {h} \cup U, R, G)
  BY <1>1, NextStep
<1>4. CASE h.repo \in open
  <2>1. Continue(p)
    BY <1>4 DEF CheckStep
  <2>2. call[p].alone => \E R \in Rosters, G \in Tags :
          Planned(roster, tags, projection, sources, q, U, R, G)
    <3>1. h.do \in {"open", "check"}
      BY <1>3
    <3> HIDE DEF h, U, q
    <3> QED BY <1>3, <3>1, PlannedCheck
  <2>3. call[p].alone => \E R \in Rosters, G \in Tags :
          Planned(roster', tags', projection', sources', q, U, R, G)
    BY <1>1, <2>2
  <2> QED BY <1>1, <1>2, <1>3, <1>4, <2>1, <2>3, ContinueSound
<1>5. CASE h.repo \notin open
  <2>1. Fail(p)
    BY <1>5 DEF CheckStep
  <2> QED BY <1>1, <1>2, <2>1, FailSound
<1> QED BY <1>4, <1>5

\* A roster with one credential changed is a roster.
LEMMA CredentialSet ==
  ASSUME NEW creds \in Rosters, NEW i \in Names, NEW s \in Services, NEW c \in Repos \cup {None, Malformed}
  PROVE  [creds EXCEPT ![i][s] = c] \in Rosters
<1> DEFINE one == [creds[i] EXCEPT ![s] = c]
<1>1. creds[i] \in Credentials
  BY DEF Rosters
<1>2. one \in Credentials
  BY <1>1 DEF Credentials
<1> HIDE DEF one
<1>3. [creds EXCEPT ![i] = one] \in Rosters
  BY <1>2 DEF Rosters
<1> QED BY <1>3 DEF one

\* TrustStep preserves the invariant: a reconciliation is never refused.
LEMMA TrustStepSound ==
  ASSUME Inv, NEW p \in Procs, TrustStep(p)
  PROVE  Inv'
<1> DEFINE h == Head(call[p].todo)
           U == ToSet(Tail(call[p].todo))
           q == call[p].request
<1>1. /\ tags' = tags /\ projection' = projection /\ sources' = sources
      /\ open' = open /\ declaration' = declaration /\ Next1(p, "trust")
  BY DEF TrustStep
<1>2. /\ call[p].stage = "running" /\ h.do = "trust" /\ h \in Steps
      /\ \A x \in U : MayFollow(q, h, x)
      /\ call[p].alone => \E R \in Rosters, G \in Tags :
           Planned(roster, tags, projection, sources, q, {h} \cup U, R, G)
  BY <1>1, NextStep
<1>3. RecordsOK
  BY DEF Inv
<1>5. CASE roster[h.id][h.service] = h.repo \/ Accepted(h.id, h.service, h.repo)
  <2>1. roster' = [roster EXCEPT ![h.id][h.service] = h.repo] /\ Continue(p)
    BY <1>5 DEF TrustStep
  <2> DEFINE i == h.id
             s == h.service
             r == h.repo
  <2> HIDE DEF h, U, q
  <2>2. i \in Names /\ s \in Services /\ r \in Repos /\ h = Trust(i, s, r)
    BY <1>2, StepForms
  <2>3. roster' = [roster EXCEPT ![i][s] = r]
    BY <2>1
  <2> HIDE DEF i, s, r
  <2>4. roster \in Rosters
    BY <1>3 DEF RecordsOK
  <2>5. roster' \in Rosters
    BY <2>2, <2>3, <2>4, CredentialSet
  <2>6. RecordsOK'
    BY <1>1, <1>3, <2>5 DEF RecordsOK
  <2>7. \A x \in U : MayFollow(q, Trust(i, s, r), x)
    BY <1>2, <2>2
  <2>8. call[p].alone => \E R \in Rosters, G \in Tags :
          Planned([roster EXCEPT ![i][s] = r], tags, projection, sources, q, U, R, G)
    <3> SUFFICES ASSUME call[p].alone
                 PROVE  \E R \in Rosters, G \in Tags :
                          Planned([roster EXCEPT ![i][s] = r], tags, projection, sources, q, U, R, G)
      OBVIOUS
    <3>1. PICK R \in Rosters : \E G \in Tags : Planned(roster, tags, projection, sources, q, {Trust(i, s, r)} \cup U, R, G)
      BY <1>2, <2>2
    <3>2. PICK G \in Tags : Planned(roster, tags, projection, sources, q, {Trust(i, s, r)} \cup U, R, G)
      BY <3>1
    <3>3. Planned([roster EXCEPT ![i][s] = r], tags, projection, sources, q, U, R, G)
      BY <2>2, <2>4, <2>7, <3>2, PlannedTrust
    <3> QED BY <3>3
  <2>9. call[p].alone => \E R \in Rosters, G \in Tags :
          Planned(roster', tags', projection', sources', q, U, R, G)
    BY <1>1, <2>3, <2>8
  <2>10. h.do # "check" /\ Continue(p)
    BY <1>2, <2>1
  <2> QED BY <1>1, <1>2, <2>6, <2>9, <2>10, ContinueSound DEF h, U, q
<1>6. CASE roster[h.id][h.service] # h.repo /\ ~Accepted(h.id, h.service, h.repo)
  <2>1. Stop(p, "refused") /\ roster' = roster
    BY <1>6 DEF TrustStep
  <2>2. RecordsOK'
    BY <1>1, <1>3, <2>1 DEF RecordsOK
  <2>3. call[p].alone => ~Reconciles(q)
    <3> DEFINE i == h.id
               s == h.service
               r == h.repo
    <3>1. ~Accepted(i, s, r)
      BY <1>6
    <3> HIDE DEF h, U, q
    <3>2. i \in Names /\ s \in Services /\ r \in Repos /\ h = Trust(i, s, r)
      BY <1>2, StepForms
    <3> HIDE DEF i, s, r
    <3>3. SUFFICES ASSUME call[p].alone, Reconciles(q) PROVE FALSE
      OBVIOUS
    <3>4. PICK R \in Rosters : \E G \in Tags : Planned(roster, tags, projection, sources, q, {Trust(i, s, r)} \cup U, R, G)
      BY <1>2, <3>2, <3>3
    <3>5. PICK G \in Tags : Planned(roster, tags, projection, sources, q, {Trust(i, s, r)} \cup U, R, G)
      BY <3>4
    <3>6. \A x \in U : MayFollow(q, Trust(i, s, r), x)
      BY <1>2, <3>2
    <3>7. roster \in Rosters
      BY <1>3 DEF RecordsOK
    <3>8. /\ \A t \in Services \ {s} : roster[i][t] # r
          /\ Held(roster[i]) < MaxCredentials
      BY <3>2, <3>3, <3>5, <3>6, <3>7, PlannedAccepted
    <3> QED BY <3>1, <3>8 DEF Accepted
  <2> QED BY <1>1, <1>2, <2>1, <2>2, <2>3, StopSound
<1> QED BY <1>5, <1>6

\* RevokeStep preserves the invariant.
LEMMA RevokeStepSound ==
  ASSUME Inv, NEW p \in Procs, RevokeStep(p)
  PROVE  Inv'
<1> DEFINE h == Head(call[p].todo)
           U == ToSet(Tail(call[p].todo))
           q == call[p].request
           i == h.id
           s == h.service
<1>1. /\ tags' = tags /\ projection' = projection /\ sources' = sources
      /\ open' = open /\ declaration' = declaration /\ Next1(p, "revoke")
      /\ roster' = [roster EXCEPT ![i][s] = None] /\ Continue(p)
  BY DEF RevokeStep
<1>2. /\ call[p].stage = "running" /\ h.do = "revoke" /\ h \in Steps
      /\ call[p].alone => \E R \in Rosters, G \in Tags :
           Planned(roster, tags, projection, sources, q, {h} \cup U, R, G)
  BY <1>1, NextStep
<1>3. RecordsOK
  BY DEF Inv
<1> HIDE DEF h, U, q
<1>4. i \in Names /\ s \in Services /\ h = Revoke(i, s)
  BY <1>2, StepForms
<1> HIDE DEF i, s
<1>5. roster \in Rosters
  BY <1>3 DEF RecordsOK
<1>6. roster' \in Rosters
  BY <1>1, <1>4, <1>5, CredentialSet
<1>7. RecordsOK'
  BY <1>1, <1>3, <1>6 DEF RecordsOK
<1>8. call[p].alone => \E R \in Rosters, G \in Tags :
        Planned([roster EXCEPT ![i][s] = None], tags, projection, sources, q, U, R, G)
  <2> SUFFICES ASSUME call[p].alone
               PROVE  \E R \in Rosters, G \in Tags :
                        Planned([roster EXCEPT ![i][s] = None], tags, projection, sources, q, U, R, G)
    OBVIOUS
  <2>1. PICK R \in Rosters : \E G \in Tags : Planned(roster, tags, projection, sources, q, {Revoke(i, s)} \cup U, R, G)
    BY <1>2, <1>4
  <2>2. PICK G \in Tags : Planned(roster, tags, projection, sources, q, {Revoke(i, s)} \cup U, R, G)
    BY <2>1
  <2>3. Planned([roster EXCEPT ![i][s] = None], tags, projection, sources, q, U, R, G)
    BY <1>4, <1>5, <2>2, PlannedRevoke
  <2> QED BY <2>3
<1>9. call[p].alone => \E R \in Rosters, G \in Tags :
        Planned(roster', tags', projection', sources', q, U, R, G)
  BY <1>1, <1>8
<1>10. h.do # "check"
  BY <1>2
<1> QED BY <1>1, <1>2, <1>7, <1>9, <1>10, ContinueSound DEF h, U, q

\* TagStep preserves the invariant.
LEMMA TagStepSound ==
  ASSUME Inv, NEW p \in Procs, TagStep(p)
  PROVE  Inv'
<1> DEFINE h == Head(call[p].todo)
           U == ToSet(Tail(call[p].todo))
           q == call[p].request
           s == h.service
           v == h.value
<1>1. /\ roster' = roster /\ projection' = projection /\ sources' = sources
      /\ open' = open /\ declaration' = declaration /\ Next1(p, "tag")
      /\ tags' = [tags EXCEPT ![s] = v] /\ Continue(p)
  BY DEF TagStep
<1>2. /\ call[p].stage = "running" /\ h.do = "tag" /\ h \in Steps
      /\ \A x \in U : MayFollow(q, h, x)
      /\ call[p].alone => \E R \in Rosters, G \in Tags :
           Planned(roster, tags, projection, sources, q, {h} \cup U, R, G)
  BY <1>1, NextStep
<1>3. RecordsOK
  BY DEF Inv
<1> HIDE DEF h, U, q
<1>4. s \in Services /\ v \in Repos \cup {Azure} /\ h = RecordSource(s, v)
  BY <1>2, StepForms
<1> HIDE DEF s, v
<1>5. tags \in Tags
  BY <1>3 DEF RecordsOK
<1>6. tags' \in Tags
  BY <1>1, <1>4, <1>5 DEF Tags
<1>7. RecordsOK'
  BY <1>1, <1>3, <1>6 DEF RecordsOK
<1>8. call[p].alone => \E R \in Rosters, G \in Tags :
        Planned(roster, [tags EXCEPT ![s] = v], projection, sources, q, U, R, G)
  <2> SUFFICES ASSUME call[p].alone
               PROVE  \E R \in Rosters, G \in Tags :
                        Planned(roster, [tags EXCEPT ![s] = v], projection, sources, q, U, R, G)
    OBVIOUS
  <2>1. PICK R \in Rosters : \E G \in Tags : Planned(roster, tags, projection, sources, q, {RecordSource(s, v)} \cup U, R, G)
    BY <1>2, <1>4
  <2>2. PICK G \in Tags : Planned(roster, tags, projection, sources, q, {RecordSource(s, v)} \cup U, R, G)
    BY <2>1
  <2>3. \A x \in U : MayFollow(q, RecordSource(s, v), x)
    BY <1>2, <1>4
  <2>4. Planned(roster, [tags EXCEPT ![s] = v], projection, sources, q, U, R, G)
    BY <1>4, <1>5, <2>2, <2>3, PlannedTag
  <2> QED BY <2>4
<1>9. call[p].alone => \E R \in Rosters, G \in Tags :
        Planned(roster', tags', projection', sources', q, U, R, G)
  BY <1>1, <1>8
<1>10. h.do # "check"
  BY <1>2
<1> QED BY <1>1, <1>2, <1>7, <1>9, <1>10, ContinueSound DEF h, U, q

\* What is projected is a projection.
LEMMA Projected ==
  /\ \A creds \in Rosters : RosterRepos(creds) \in Projections
  /\ \A old \in Tags : ForkSources(old) \in Projections
BY DEF RosterRepos, ForkSources, Projections

\* ProjectRosterStep preserves the invariant.
LEMMA ProjectRosterStepSound ==
  ASSUME Inv, NEW p \in Procs, ProjectRosterStep(p)
  PROVE  Inv'
<1> DEFINE h == Head(call[p].todo)
           U == ToSet(Tail(call[p].todo))
           q == call[p].request
<1>1. /\ roster' = roster /\ tags' = tags /\ sources' = sources
      /\ open' = open /\ declaration' = declaration
      /\ projection' = RosterRepos(roster) /\ Continue(p)
  BY DEF ProjectRosterStep
<1>2. /\ call[p].stage = "running" /\ h.do \in {"project roster", "sync roster"}
      /\ \A x \in U : MayFollow(q, h, x)
      /\ call[p].alone => \E R \in Rosters, G \in Tags :
           Planned(roster, tags, projection, sources, q, {h} \cup U, R, G)
  <2>1. Next1(p, "project roster") \/ Next1(p, "sync roster")
    BY DEF ProjectRosterStep
  <2>2. CASE Next1(p, "project roster")
    BY <2>2, NextStep
  <2>3. CASE Next1(p, "sync roster")
    BY <2>3, NextStep
  <2> QED BY <2>1, <2>2, <2>3
<1>3. RecordsOK
  BY DEF Inv
<1> HIDE DEF h, U, q
<1>4. roster \in Rosters
  BY <1>3 DEF RecordsOK
<1>5. RecordsOK'
  BY <1>1, <1>3, <1>4, Projected DEF RecordsOK
<1>6. call[p].alone => \E R \in Rosters, G \in Tags :
        Planned(roster, tags, RosterRepos(roster), sources, q, U, R, G)
  <2> SUFFICES ASSUME call[p].alone
               PROVE  \E R \in Rosters, G \in Tags : Planned(roster, tags, RosterRepos(roster), sources, q, U, R, G)
    OBVIOUS
  <2>1. PICK R \in Rosters : \E G \in Tags : Planned(roster, tags, projection, sources, q, {h} \cup U, R, G)
    BY <1>2
  <2>2. PICK G \in Tags : Planned(roster, tags, projection, sources, q, {h} \cup U, R, G)
    BY <2>1
  <2>3. Planned(roster, tags, RosterRepos(roster), sources, q, U, R, G)
    <3>1. Publishes(h) /\ \A x \in U : MayFollow(q, h, x)
      BY <1>2 DEF Publishes
    <3> QED BY <1>4, <2>1, <2>2, <3>1, PlannedRoster
  <2> QED BY <2>3
<1>7. call[p].alone => \E R \in Rosters, G \in Tags :
        Planned(roster', tags', projection', sources', q, U, R, G)
  BY <1>1, <1>6
<1>8. h.do # "check"
  BY <1>2
<1> QED BY <1>1, <1>2, <1>5, <1>7, <1>8, ContinueSound DEF h, U, q

\* ProjectSourcesStep preserves the invariant.
LEMMA ProjectSourcesStepSound ==
  ASSUME Inv, NEW p \in Procs, ProjectSourcesStep(p)
  PROVE  Inv'
<1> DEFINE h == Head(call[p].todo)
           U == ToSet(Tail(call[p].todo))
           q == call[p].request
<1>1. /\ roster' = roster /\ tags' = tags /\ projection' = projection
      /\ open' = open /\ declaration' = declaration
      /\ sources' = ForkSources(tags) /\ Continue(p)
  BY DEF ProjectSourcesStep
<1>2. /\ call[p].stage = "running" /\ h.do \in {"project sources", "sync sources"}
      /\ \A x \in U : MayFollow(q, h, x)
      /\ call[p].alone => \E R \in Rosters, G \in Tags :
           Planned(roster, tags, projection, sources, q, {h} \cup U, R, G)
  <2>1. Next1(p, "project sources") \/ Next1(p, "sync sources")
    BY DEF ProjectSourcesStep
  <2>2. CASE Next1(p, "project sources")
    BY <2>2, NextStep
  <2>3. CASE Next1(p, "sync sources")
    BY <2>3, NextStep
  <2> QED BY <2>1, <2>2, <2>3
<1>3. RecordsOK
  BY DEF Inv
<1> HIDE DEF h, U, q
<1>4. tags \in Tags
  BY <1>3 DEF RecordsOK
<1>5. RecordsOK'
  BY <1>1, <1>3, <1>4, Projected DEF RecordsOK
<1>6. call[p].alone => \E R \in Rosters, G \in Tags :
        Planned(roster, tags, projection, ForkSources(tags), q, U, R, G)
  <2> SUFFICES ASSUME call[p].alone
               PROVE  \E R \in Rosters, G \in Tags : Planned(roster, tags, projection, ForkSources(tags), q, U, R, G)
    OBVIOUS
  <2>1. PICK R \in Rosters : \E G \in Tags : Planned(roster, tags, projection, sources, q, {h} \cup U, R, G)
    BY <1>2
  <2>2. PICK G \in Tags : Planned(roster, tags, projection, sources, q, {h} \cup U, R, G)
    BY <2>1
  <2>3. Planned(roster, tags, projection, ForkSources(tags), q, U, R, G)
    BY <1>2, <1>4, <2>2, PlannedSources
  <2> QED BY <2>3
<1>7. call[p].alone => \E R \in Rosters, G \in Tags :
        Planned(roster', tags', projection', sources', q, U, R, G)
  BY <1>1, <1>6
<1>8. h.do # "check"
  BY <1>2
<1> QED BY <1>1, <1>2, <1>5, <1>7, <1>8, ContinueSound DEF h, U, q

\* RaiseStep preserves the invariant.
LEMMA RaiseStepSound ==
  ASSUME Inv, NEW p \in Procs, RaiseStep(p)
  PROVE  Inv'
<1> DEFINE h == Head(call[p].todo)
           U == ToSet(Tail(call[p].todo))
           q == call[p].request
<1>1. /\ roster' = roster /\ tags' = tags /\ projection' = projection /\ sources' = sources
      /\ open' = open /\ declaration' = declaration
      /\ Next1(p, "raise") /\ Stop(p, "blocked")
  BY DEF RaiseStep, records
<1>2. /\ call[p].stage = "running" /\ h.do = "raise"
      /\ \A x \in U : MayFollow(q, h, x)
      /\ call[p].alone => \E R \in Rosters, G \in Tags :
           Planned(roster, tags, projection, sources, q, {h} \cup U, R, G)
  BY <1>1, NextStep
<1>3. RecordsOK
  BY DEF Inv
<1> HIDE DEF h, U, q
<1>4. roster \in Rosters /\ tags \in Tags
  BY <1>3 DEF RecordsOK
<1>5. RecordsOK'
  BY <1>1, <1>3 DEF RecordsOK
<1>6. call[p].alone => Reconciles(q) /\ q.forks # None /\ StillAt(q.forks, roster, tags)
  <2> SUFFICES ASSUME call[p].alone
               PROVE  Reconciles(q) /\ q.forks # None /\ StillAt(q.forks, roster, tags)
    OBVIOUS
  <2>1. PICK R \in Rosters : \E G \in Tags : Planned(roster, tags, projection, sources, q, {h} \cup U, R, G)
    BY <1>2
  <2>2. PICK G \in Tags : Planned(roster, tags, projection, sources, q, {h} \cup U, R, G)
    BY <2>1
  <2> QED BY <1>2, <1>4, <2>2, PlannedRaise
<1>7. call[p].alone => Reconciles(q) /\ q.forks # None /\ StillAt(q.forks, roster', tags')
  BY <1>1, <1>6
<1> QED BY <1>1, <1>2, <1>5, <1>7, StopSound DEF q

\* GiveUp preserves the invariant.
LEMMA GiveUpSound ==
  ASSUME Inv, NEW p \in Procs, GiveUp(p)
  PROVE  Inv'
<1>1. /\ roster' = roster /\ tags' = tags /\ projection' = projection /\ sources' = sources
      /\ open' = open /\ declaration' = declaration /\ Fail(p)
  BY DEF GiveUp, records
<1>2. RecordsOK'
  BY <1>1 DEF Inv, RecordsOK
<1> QED BY <1>1, <1>2, FailSound

\* So does every step of a call.
LEMMA CallStepSound ==
  ASSUME Inv, NEW p \in Procs, CallStep(p)
  PROVE  Inv'
<1>1. CASE OnboardService(p)      BY <1>1, OnboardServiceSound
<1>2. CASE RemoveService(p)       BY <1>2, RemoveServiceSound
<1>3. CASE ReconcileForks(p)      BY <1>3, ReconcileForksSound
<1>4. CASE SpiUp(p)               BY <1>4, SpiUpSound
<1>5. CASE ProjectTrustedRepos(p) BY <1>5, ProjectTrustedReposSound
<1>6. CASE OpenStep(p)            BY <1>6, OpenStepSound
<1>7. CASE CheckStep(p)           BY <1>7, CheckStepSound
<1>8. CASE TrustStep(p)           BY <1>8, TrustStepSound
<1>9. CASE RevokeStep(p)          BY <1>9, RevokeStepSound
<1>10. CASE TagStep(p)            BY <1>10, TagStepSound
<1>11. CASE ProjectRosterStep(p)  BY <1>11, ProjectRosterStepSound
<1>12. CASE ProjectSourcesStep(p) BY <1>12, ProjectSourcesStepSound
<1>13. CASE RaiseStep(p)          BY <1>13, RaiseStepSound
<1>14. CASE GiveUp(p)             BY <1>14, GiveUpSound
<1> QED BY <1>1, <1>2, <1>3, <1>4, <1>5, <1>6, <1>7, <1>8, <1>9, <1>10, <1>11, <1>12, <1>13, <1>14 DEF CallStep

---------------------------------------------------------------------------
(* The steps of others, and every step.                                    *)

\* OwnerChangesRules preserves the invariant.
LEMMA OwnerSound ==
  ASSUME Inv, NEW r \in Repos, OwnerChangesRules(r)
  PROVE  Inv'
<1>1. /\ roster' = roster /\ tags' = tags /\ projection' = projection /\ sources' = sources
      /\ declaration' = declaration
  BY DEF OwnerChangesRules, records
<1>2. CASE open' = open \cup {r} /\ call' = [p \in Procs |-> Saw(call[p], r)]
  <2>1. CallsSound(call, open)
    BY DEF Inv
  <2>2. /\ CallsSound(call', open')
        /\ \A q \in Procs : /\ call'[q].stage = call[q].stage /\ call'[q].request = call[q].request
                            /\ call'[q].todo = call[q].todo /\ call'[q].alone = call[q].alone
    BY <1>2, <2>1, AllSaw
  <2>3. RecordsOK'
    BY <1>1, <1>2 DEF Inv, RecordsOK
  <2>4. PromisesSound(call', roster', tags', projection', sources')
    BY <1>1, <2>2 DEF Inv, PromisesSound, PromiseSound
  <2> QED BY <2>2, <2>3, <2>4 DEF Inv
<1>3. CASE open' = open \ {r} /\ call' = call
  <2>1. RecordsOK'
    BY <1>1, <1>3 DEF Inv, RecordsOK
  <2>2. CallsSound(call, open')
    <3>1. \A p \in Procs : CallSound(call[p], open) => CallSound(call[p], open')
      BY <1>3 DEF CallSound
    <3> QED BY <3>1 DEF Inv, CallsSound
  <2>3. PromisesSound(call', roster', tags', projection', sources')
    BY <1>1, <1>3 DEF Inv
  <2> QED BY <1>3, <2>1, <2>2, <2>3 DEF Inv
<1> QED BY <1>2, <1>3 DEF OwnerChangesRules

\* A step of somebody else preserves it: no call runs by itself any more.
LEMMA OutsiderSound ==
  ASSUME Inv, Outsider, open' = open, RecordsOK'
  PROVE  Inv'
<1>1. call \in [Procs -> Calls] /\ \A p \in Procs : call[p] \in Calls /\ CallSound(call[p], open)
  BY DEF Inv, CallsSound
<1>2. call' = [p \in Procs |-> Disturbed(call[p])]
  BY DEF Outsider
<1>3. \A p \in Procs : /\ Disturbed(call[p]) \in Calls /\ ~Disturbed(call[p]).alone
                       /\ CallSound(Disturbed(call[p]), open)
  BY <1>1, DisturbedSound
<1>4. call' \in [Procs -> Calls]
  BY <1>2, <1>3
<1>5. \A p \in Procs : ~call'[p].alone /\ CallSound(call'[p], open)
  BY <1>2, <1>3
<1>6. CallsSound(call', open')
  BY <1>4, <1>5 DEF CallsSound
<1>7. PromisesSound(call', roster', tags', projection', sources')
  BY <1>5 DEF PromisesSound
<1> QED BY <1>6, <1>7 DEF Inv

\* The empty projection.
LEMMA NothingProjected ==
  NoForks \in Projections /\ NoForks \in Tags /\ NoForks \in Credentials
BY DEF NoForks, Projections, Tags, Credentials

\* A merged declaration, a rebuilt cluster and a hand edit preserve it.
LEMMA OthersSound ==
  /\ Inv /\ DeclarationMerges => Inv'
  /\ Inv /\ ClusterRebuilt => Inv'
  /\ \A s \in Services : Inv /\ HandEdit(s) => Inv'
<1>1. ASSUME Inv, DeclarationMerges PROVE Inv'
  <2>1. /\ roster' = roster /\ tags' = tags /\ projection' = projection /\ sources' = sources
        /\ open' = open /\ call' = call /\ declaration' \in Declarations
    BY <1>1 DEF DeclarationMerges, records
  <2>2. RecordsOK'
    BY <1>1, <2>1 DEF Inv, RecordsOK
  <2> QED BY <1>1, <2>1, <2>2 DEF Inv
<1>2. ASSUME Inv, ClusterRebuilt PROVE Inv'
  <2>1. RecordsOK'
    BY <1>2, NothingProjected DEF ClusterRebuilt, Inv, RecordsOK
  <2> QED BY <1>2, <2>1, OutsiderSound DEF ClusterRebuilt
<1>3. ASSUME NEW s \in Services, Inv, HandEdit(s) PROVE Inv'
  <2>1. roster \in Rosters /\ tags \in Tags
    BY <1>3 DEF Inv, RecordsOK
  <2>2. CASE \E i \in Names : roster' = [roster EXCEPT ![i][s] = Malformed] /\ tags' = tags
    <3>1. PICK i \in Names : roster' = [roster EXCEPT ![i][s] = Malformed] /\ tags' = tags
      BY <2>2
    <3>2. roster' \in Rosters
      <4> DEFINE m == Malformed
      <4>1. m \in Repos \cup {None, Malformed} /\ roster' = [roster EXCEPT ![i][s] = m]
        BY <3>1
      <4> HIDE DEF m
      <4> QED BY <2>1, <4>1, CredentialSet
    <3> QED BY <1>3, <2>1, <3>1, <3>2, OutsiderSound DEF HandEdit, Inv, RecordsOK
  <2>3. CASE \E v \in Repos : tags' = [tags EXCEPT ![s] = v] /\ roster' = roster
    <3>1. tags' \in Tags
      BY <2>1, <2>3 DEF Tags
    <3> QED BY <1>3, <2>1, <2>3, <3>1, OutsiderSound DEF HandEdit, Inv, RecordsOK
  <2> QED BY <1>3, <2>2, <2>3 DEF HandEdit
<1> QED BY <1>1, <1>2, <1>3

\* The invariant holds at the start.
LEMMA InitSound ==
  ASSUME Init
  PROVE  Inv
<1>1. RecordsOK
  BY NothingProjected DEF Init, RecordsOK, Rosters
<1>2. Idle \in Calls /\ Idle.stage = "idle" /\ Idle.todo = <<>> /\ ~Idle.alone
  BY EmptySet DEF Idle, Calls, Stages
<1>3. call = [p \in Procs |-> Idle]
  BY DEF Init
<1> DEFINE idle == Idle
<1> HIDE DEF idle
<1>4. idle \in Calls /\ idle.stage = "idle" /\ idle.todo = <<>> /\ ~idle.alone /\ call = [p \in Procs |-> idle]
  BY <1>2, <1>3 DEF idle
<1>5. call \in [Procs -> Calls] /\ \A p \in Procs : call[p] = idle
  BY <1>4
<1>6. CallsSound(call, open)
  BY <1>4, <1>5 DEF CallsSound, CallSound
<1>7. PromisesSound(call, roster, tags, projection, sources)
  BY <1>4, <1>5 DEF PromisesSound
<1> QED BY <1>1, <1>6, <1>7 DEF Inv

\* Every step preserves the invariant.
LEMMA NextSound ==
  ASSUME Inv, [Next]_vars
  PROVE  Inv'
<1>1. ASSUME NEW p \in Procs, CallStep(p) PROVE Inv'
  BY <1>1, CallStepSound
<1>2. ASSUME NEW r \in Repos, OwnerChangesRules(r) PROVE Inv'
  BY <1>2, OwnerSound
<1>3. CASE DeclarationMerges
  BY <1>3, OthersSound
<1>4. CASE ClusterRebuilt
  BY <1>4, OthersSound
<1>5. ASSUME NEW s \in Services, HandEdit(s) PROVE Inv'
  BY <1>5, OthersSound
<1>6. CASE UNCHANGED vars
  BY <1>6 DEF vars, records, Inv, RecordsOK
<1> QED BY <1>1, <1>2, <1>3, <1>4, <1>5, <1>6 DEF Next

\* In every reachable state, every call's plan is sound and every call that
\* runs by itself keeps its promise.
THEOREM OnboardInvariant == Spec => []Inv
<1>1. Init => Inv
  BY InitSound
<1>2. Inv /\ [Next]_vars => Inv'
  BY NextSound
<1> QED BY <1>1, <1>2, PTL DEF Spec

---------------------------------------------------------------------------
(* The properties of Onboard.                                              *)

\* What a call that ended by itself had promised.
LEMMA EndedSound ==
  ASSUME Inv, NEW p \in Procs, NEW ops, NEW stages, Ended(p, ops, stages)
  PROVE  LET q == call[p].request IN
         /\ RecordsOK /\ q.op \in ops /\ call[p].stage \in stages
         /\ call[p].stage = "done" =>
              /\ projection = RosterRepos(roster) /\ sources = ForkSources(tags)
              /\ GoalAt(q, roster, tags)
              /\ Reconciles(q) => IF q.forks = None THEN FollowsAt(roster, tags) ELSE StillAt(q.forks, roster, tags)
         /\ call[p].stage = "blocked" => Reconciles(q) /\ q.forks # None /\ StillAt(q.forks, roster, tags)
         /\ call[p].stage = "refused" => ~Reconciles(q)
<1> DEFINE c == call[p]
           q == c.request
<1>1. RecordsOK /\ CallSound(c, open) /\ PromiseSound(c, roster, tags, projection, sources)
  BY DEF Inv, CallsSound, PromisesSound, Ended
<1>2. q.op \in ops /\ c.stage \in stages
  BY DEF Ended
<1> HIDE DEF c
<1>3. roster \in Rosters /\ tags \in Tags
  BY <1>1 DEF RecordsOK
<1>4. ASSUME c.stage = "done"
      PROVE  /\ projection = RosterRepos(roster) /\ sources = ForkSources(tags)
             /\ GoalAt(q, roster, tags)
             /\ Reconciles(q) => IF q.forks = None THEN FollowsAt(roster, tags) ELSE StillAt(q.forks, roster, tags)
  <2> DEFINE T == ToSet(c.todo)
  <2>1. T = {}
    BY <1>1, <1>4, EmptySet DEF CallSound
  <2> HIDE DEF q
  <2>2. \E R \in Rosters, G \in Tags : Planned(roster, tags, projection, sources, q, T, R, G)
    BY <1>1, <1>4 DEF PromiseSound, q
  <2> HIDE DEF T
  <2>3. PICK R \in Rosters : \E G \in Tags : Planned(roster, tags, projection, sources, q, T, R, G)
    BY <2>2
  <2>4. PICK G \in Tags : Planned(roster, tags, projection, sources, q, T, R, G)
    BY <2>3
  <2>5. \A kinds : ~HasDo(T, kinds)
    BY <2>1 DEF HasDo
  <2>6. R = roster
    BY <1>3, <2>3, <2>4, <2>5, LeadsNowhere DEF Planned
  <2>7. G = tags
    BY <1>3, <2>4, <2>5, TaggedNowhere DEF Planned
  <2> QED BY <2>4, <2>5, <2>6, <2>7 DEF Planned
<1>5. /\ c.stage = "blocked" => Reconciles(q) /\ q.forks # None /\ StillAt(q.forks, roster, tags)
      /\ c.stage = "refused" => ~Reconciles(q)
  BY <1>1 DEF PromiseSound
<1> QED BY <1>1, <1>2, <1>4, <1>5 DEF c

\* However earlier calls died, a call that runs by itself to its end leaves
\* every identity, the tag and both projections as asked (apply_plan of
\* onboard.py: a re-run repairs from observed state).
THEOREM OnboardRerunRepairs == Spec => []RerunRepairs
<1>1. Inv => RerunRepairs
  <2> SUFFICES ASSUME Inv, NEW p \in Procs, Ended(p, Ops, {"done"})
               PROVE  /\ projection = RosterRepos(roster) /\ sources = ForkSources(tags)
                      /\ Goal(call[p].request)
    BY DEF RerunRepairs
  <2> DEFINE q == call[p].request
  <2>1. /\ projection = RosterRepos(roster) /\ sources = ForkSources(tags)
        /\ GoalAt(q, roster, tags)
    BY EndedSound
  <2> HIDE DEF q
  <2>2. Goal(q)
    BY <2>1 DEF Goal, GoalAt
  <2> QED BY <2>1, <2>2 DEF q
<1> QED BY <1>1, OnboardInvariant, PTL

\* What `spi up` leaves on the lock as a canonical source, that lock trusts,
\* whatever was interrupted before (sync_canonical_sources of onboard.py).
THEOREM OnboardUpFollowsTrusted == Spec => []UpFollowsTrusted
<1>1. Inv => UpFollowsTrusted
  <2> SUFFICES ASSUME Inv, NEW p \in Procs, Ended(p, {"up"}, {"done"}), NEW s \in Services, sources[s] # None
               PROVE  projection[s] = sources[s]
    BY DEF UpFollowsTrusted
  <2> DEFINE q == call[p].request
  <2>1. /\ projection = RosterRepos(roster) /\ sources = ForkSources(tags)
        /\ q.op = "up"
        /\ Reconciles(q) => IF q.forks = None THEN FollowsAt(roster, tags) ELSE StillAt(q.forks, roster, tags)
    BY EndedSound
  <2>2. Reconciles(q)
    BY <2>1 DEF Reconciles
  <2> HIDE DEF q
  <2>3. tags[s] \in Repos /\ sources[s] = tags[s]
    BY <2>1 DEF ForkSources
  <2>4. roster[Deployer][s] = tags[s]
    BY <2>1, <2>2, <2>3 DEF FollowsAt, StillAt
  <2> QED BY <2>1, <2>3, <2>4 DEF RosterRepos
<1> QED BY <1>1, OnboardInvariant, PTL

\* A reconciliation is never refused half-way, and one that leaves entries out
\* still takes away what is not declared (plan of declared.py).
THEOREM OnboardReconcileDoesItsPart == Spec => []ReconcileDoesItsPart
<1>1. ASSUME Inv PROVE BlockedStillReconciles
  <2> SUFFICES ASSUME NEW p \in Procs, Ended(p, {"reconcile", "up"}, {"done", "blocked"}),
                      call[p].request.forks # None
               PROVE  StillAt(call[p].request.forks, roster, tags)
    BY DEF BlockedStillReconciles, StillAt
  <2> DEFINE q == call[p].request
  <2>1. /\ q.op \in {"reconcile", "up"} /\ call[p].stage \in {"done", "blocked"}
        /\ call[p].stage = "done" /\ Reconciles(q) =>
             IF q.forks = None THEN FollowsAt(roster, tags) ELSE StillAt(q.forks, roster, tags)
        /\ call[p].stage = "blocked" => StillAt(q.forks, roster, tags)
    BY <1>1, EndedSound
  <2> QED BY <2>1 DEF Reconciles
<1>2. ASSUME Inv PROVE ReconcileNeverCollides
  <2> SUFFICES ASSUME NEW p \in Procs, Ended(p, {"reconcile", "up"}, {"refused"}) PROVE FALSE
    BY DEF ReconcileNeverCollides
  <2> DEFINE q == call[p].request
  <2>1. /\ q.op \in {"reconcile", "up"} /\ call[p].stage \in {"refused"}
        /\ call[p].stage = "refused" => ~Reconciles(q)
    BY <1>2, EndedSound
  <2> QED BY <2>1 DEF Reconciles
<1>3. Inv => ReconcileDoesItsPart
  BY <1>1, <1>2 DEF ReconcileDoesItsPart
<1> QED BY <1>3, OnboardInvariant, PTL

\* A call about to write trust has seen the repository's environment open.
LEMMA TrustSeen ==
  ASSUME Inv, NEW p \in Procs, call[p].stage = "running", Head(call[p].todo).do = "trust"
  PROVE  Head(call[p].todo).repo \in call[p].seen
<1> DEFINE c == call[p]
           h == Head(c.todo)
           U == ToSet(Tail(c.todo))
<1>1. /\ ToSet(c.todo) = {h} \cup U /\ Cleared(ToSet(c.todo), c.seen)
      /\ \A x \in U : MayFollow(c.request, h, x)
  BY RunningCall
<1>2. h.do = "trust"
  OBVIOUS
<1> HIDE DEF c, h, U
<1>3. h.repo \in c.seen \/ CheckRules(h.repo) \in {h} \cup U
  BY <1>1, <1>2 DEF Cleared
<1>4. CheckRules(h.repo).do = "check"
  BY DEF CheckRules
<1>5. CheckRules(h.repo) # h
  BY <1>2, <1>4
<1>6. CheckRules(h.repo) \notin U
  BY <1>1, <1>2, <1>4 DEF MayFollow
<1> QED BY <1>3, <1>5, <1>6 DEF c, h

\* A call about to take the deployer's trust away has the tag where it wants it.
LEMMA RevokedAfterTag ==
  ASSUME Inv, NEW p \in Procs, NEW s \in Services, call[p].stage = "running", call[p].alone,
         Head(call[p].todo) = Revoke(Deployer, s),
         call[p].request.op = "remove" \/ ~Declares(call[p].request.forks, s)
  PROVE  tags[s] \notin Repos
<1> DEFINE c == call[p]
           h == Head(c.todo)
           U == ToSet(Tail(c.todo))
           q == c.request
           T == {h} \cup U
<1>1. /\ ToSet(c.todo) = T /\ RevokesFor(q, ToSet(c.todo))
      /\ \A x \in U : MayFollow(q, h, x)
  BY RunningCall
<1>2. \E R \in Rosters, G \in Tags : Planned(roster, tags, projection, sources, q, ToSet(c.todo), R, G)
  BY DEF Inv, PromisesSound, PromiseSound
<1>3. h = Revoke(Deployer, s) /\ (q.op = "remove" \/ ~Declares(q.forks, s))
  OBVIOUS
<1> HIDE DEF c, h, U, q
<1>4. h.do = "revoke" /\ h.service = s
  BY <1>3 DEF Revoke
<1>5. (q.op = "remove" /\ s = q.service) \/ (Reconciles(q) /\ q.forks # None)
  BY <1>1, <1>3 DEF RevokesFor
<1>6. PICK R \in Rosters : \E G \in Tags : Planned(roster, tags, projection, sources, q, T, R, G)
  BY <1>1, <1>2
<1>7. PICK G \in Tags : Planned(roster, tags, projection, sources, q, T, R, G)
  BY <1>6
<1>8. ~Keeps(q, s)
  BY <1>3 DEF Keeps
<1>9. \A v \in Repos \cup {Azure} : RecordSource(s, v) \notin T
  <2> SUFFICES ASSUME NEW v \in Repos \cup {Azure}, RecordSource(s, v) \in T PROVE FALSE
    OBVIOUS
  <2> DEFINE x == RecordSource(s, v)
  <2>1. x.do = "tag" /\ x.service = s /\ x \in T
    BY DEF RecordSource
  <2> HIDE DEF x
  <2>2. x \in U
    BY <1>4, <2>1
  <2>3. MayFollow(q, h, x)
    BY <1>1, <2>2
  <2> QED BY <1>4, <1>8, <2>1, <2>3 DEF MayFollow
<1>10. G[s] = tags[s]
  BY <1>7, <1>9 DEF Planned, Tagged
<1>11. CASE q.op = "remove" /\ s = q.service
  <2>1. ~HasDo(T, {"raise"})
    BY <1>7, <1>11 DEF Planned, Reconciles
  <2>2. GoalAt(q, R, G)
    BY <1>7, <2>1 DEF Planned
  <2>3. G[s] \notin Repos
    BY <1>11, <2>2 DEF GoalAt
  <2> QED BY <1>10, <2>3
<1>12. CASE Reconciles(q) /\ q.forks # None
  <2>1. ~Declares(q.forks, s)
    BY <1>3, <1>12 DEF Reconciles
  <2>2. StillAt(q.forks, R, G)
    BY <1>7, <1>12 DEF Planned
  <2> QED BY <1>10, <2>1, <2>2 DEF StillAt
<1> QED BY <1>5, <1>11, <1>12

\* Whatever other calls do, trust is written only for a repository that was
\* open at some time since the call observed it (the azure phase of
\* onboard.py reads the rules again).
THEOREM OnboardTrustFollowsRules == Spec => TrustFollowsRules
<1>1. Inv => [\A p \in Procs :
                call[p].stage = "running" /\ Head(call[p].todo).do = "trust" /\ roster' # roster
                  => call[p].seen # {} /\ Head(call[p].todo).repo \in call[p].seen]_vars
  BY TrustSeen
<1> QED BY <1>1, OnboardInvariant, PTL DEF TrustFollowsRules

\* A call by itself returns a service's tag before it takes its trust away
\* (REMOVE_PHASES of onboard.py, plan of declared.py).
THEOREM OnboardRevokesAfterSource == Spec => RevokesAfterSource
<1>1. Inv => [\A p \in Procs, s \in Services :
                /\ call[p].stage = "running" /\ call[p].alone /\ Head(call[p].todo) = Revoke(Deployer, s)
                /\ roster'[Deployer][s] # roster[Deployer][s]
                /\ call[p].request.op = "remove" \/ ~Declares(call[p].request.forks, s)
                => tags[s] \notin Repos]_vars
  BY RevokedAfterTag
<1> QED BY <1>1, OnboardInvariant, PTL DEF RevokesAfterSource
=============================================================================
