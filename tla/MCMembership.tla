---------------------------- MODULE MCMembership ----------------------------
(* One person in an environment of two partitions.                          *)
EXTENDS Membership

CONSTANTS opendes, osdu

TwoTenants == <<opendes, osdu>>
=============================================================================
