---------------------------- MODULE MCSshdServer ----------------------------
(***************************************************************************)
(* Model-checking instance of SshdServer: the connection model values come *)
(* from the .cfg, the bounds are defined here.                             *)
(***************************************************************************)
EXTENDS SshdServer, TLC

\* One transient Accept error is enough to take the "log and continue"
\* branch of serve() both before and during a shutdown.
MCMaxAcceptErrors == 1

\* Connections are interchangeable for the safety runs (no liveness there).
ConnSymmetry == Permutations(Conns)
=============================================================================
