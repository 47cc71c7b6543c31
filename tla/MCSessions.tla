----------------------------- MODULE MCSessions -----------------------------
(***************************************************************************)
(* Model-checking instance of Sessions: two callers, two requests besides  *)
(* failed logins, one failed attempt blocks the address.  The features     *)
(* that matter to one property each are varied one at a time: an outage of *)
(* Redis, an old hash, registration without verification.                  *)
(***************************************************************************)
EXTENDS Sessions, TLC

MCInit ==
    /\ SessionInit
    /\ outage => requireEmailVerify
    /\ user.legacy => requireEmailVerify /\ ~ outage

MCSpec == MCInit /\ [][SessionNext]_sessionVars

MCSymmetry == Permutations(Callers)
=============================================================================
