---------------------------- MODULE MCClaimIssue ----------------------------
(* Small instances of ClaimIssue: issue 2 is held in the legacy book, issue 6   *)
(* is a stray number that two allocations bring within reach.  Invocations are  *)
(* alike, which makes them a symmetry set.                                      *)
EXTENDS ClaimIssue, TLC

CONSTANTS a1, a2, p1, p2

MCProcs == {p1, p2}
MCLegacyHolder == 2 :> a1
Invocations == Permutations(MCProcs)
=============================================================================
