------------------------------ MODULE TurnGame ------------------------------
(***************************************************************************)
(* The abstract game: the two sides take turns, dark first, until the last *)
(* turn ends the game.  Module Rules shows that the rules implement it and *)
(* module Match that the game of every room does.                          *)
(***************************************************************************)
EXTENDS TurnOps

VARIABLE game

Init == game = NewGame

Next == game.phase = "playing" /\ game' = Advance(game)

Spec == Init /\ [][Next]_game
=============================================================================
