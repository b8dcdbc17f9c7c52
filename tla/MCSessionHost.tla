--------------------------- MODULE MCSessionHost ----------------------------
(* Instances of SessionHost for TLC.                                       *)
EXTENDS SessionHost, TLC

CONSTANTS t1, t2, c1, c2, c3

OneTenant == {t1}
TwoTenants == {t1, t2}
TwoCalls == {c1, c2}
ThreeCalls == {c1, c2, c3}

\* Sound for the safety properties; the liveness run does without it.
Symmetry == Permutations(Tenants) \cup Permutations(Calls)
=============================================================================
