------------------------------ MODULE TurnOps ------------------------------
(***************************************************************************)
(* What the match server looks at in a game: the number of the turn, the   *)
(* side to move and whether the game is over, and how an accepted command  *)
(* changes them.                                                           *)
(***************************************************************************)
EXTENDS Naturals

CONSTANT LastTurn   \* the number of accepted commands that ends a game

ASSUME LastTurnAssumption == LastTurn \in Nat \ {0}

Side == {"dark", "light"}

Opponent(side) == IF side = "dark" THEN "light" ELSE "dark"

Game == [turn : 0..LastTurn, player : Side, phase : {"playing", "finished"}]

\* A new game: dark moves first.
NewGame == [turn |-> 0, player |-> "dark", phase |-> "playing"]

\* A command is due when it comes from the side to move and the game is on.
Due(g, side) == g.phase = "playing" /\ g.player = side

\* The game after an accepted command.
Advance(g) ==
    [turn   |-> g.turn + 1,
     player |-> Opponent(g.player),
     phase  |-> IF g.turn + 1 = LastTurn THEN "finished" ELSE "playing"]
=============================================================================
