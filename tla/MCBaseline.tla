----------------------------- MODULE MCBaseline -----------------------------
(***************************************************************************)
(* Instances of HardeningBaseline for TLC.                                 *)
(***************************************************************************)
EXTENDS BaselineProperties, TLC

CONSTANTS t1, t2, t3, t4, p1, p2

\* t2 and t3 both build on t1, and t4 on both of them.
Diamond == (t1 :> {}) @@ (t2 :> {t1}) @@ (t3 :> {t1}) @@ (t4 :> {t2, t3})
=============================================================================
