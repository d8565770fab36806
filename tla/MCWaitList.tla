----------------------------- MODULE MCWaitList -----------------------------
(* Room for two; five players, two of them premium and one with the        *)
(* privilege, so that three wait at a time.                                *)
EXTENDS WaitList, TLC

CONSTANTS p1, p2, f1, f2, gm
MCApplicant == {p1, p2, f1, f2, gm}
MCPremium == {p1, p2}
MCPrivileged == {gm}
WaitListSymmetry == Permutations({p1, p2}) \cup Permutations({f1, f2})

=============================================================================
