----------------------------- MODULE MCBootstrap -----------------------------
(***************************************************************************)
(* Instances of BootstrapState for TLC.                                    *)
(***************************************************************************)
EXTENDS BootstrapProperties, TLC

CONSTANTS c1, t1, t2, t3

\* t2, the task of codex-proof, depends on t1, and t3 on t2.
Chain == (t1 :> {}) @@ (t2 :> {t1}) @@ (t3 :> {t2})
=============================================================================
