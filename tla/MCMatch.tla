------------------------------ MODULE MCMatch ------------------------------
(***************************************************************************)
(* Small instances of Match.                                               *)
(***************************************************************************)
EXTENDS Match, TLC

CONSTANTS a, b, c, a1, a2, b1, c1

\* Player a connects twice; b and c once.
ReturningPlayer == (a1 :> a) @@ (a2 :> a) @@ (b1 :> b) @@ (c1 :> c)

\* Two players, of whom a connects twice.
Trio == (a1 :> a) @@ (a2 :> a) @@ (b1 :> b)

\* Both connect once.
Duo == (a1 :> a) @@ (b1 :> b)
=============================================================================
