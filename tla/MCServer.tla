----------------------------- MODULE MCServer ------------------------------
(***************************************************************************)
(* Small instances of Server.                                              *)
(***************************************************************************)
EXTENDS Server, TLC

CONSTANTS a, b, a1, a2, b1

\* Two players, of whom a connects twice.
Trio == (a1 :> a) @@ (a2 :> a) @@ (b1 :> b)
=============================================================================
