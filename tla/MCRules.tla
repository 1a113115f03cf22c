------------------------------ MODULE MCRules ------------------------------
(***************************************************************************)
(* Rules on a small board: the evaluation of arbitrary valid states, which *)
(* the command line of rules/game/main.nako3 takes from its standard       *)
(* input.  Games from the initial board are those of module MCReplay.      *)
(***************************************************************************)
EXTENDS Rules

CONSTANT InitPasses   \* consecutivePasses of the arbitrary states

MCLag == {-1, 0, 1}

\* Boards no game from the initial board reaches, and late ones: a few
\* isolated pieces, or all cells but a few taken, with colours that vary along
\* rows, columns and diagonals.
Painted(cells, a, b) ==
    [p \in Cell |-> IF p \in cells THEN (a * p[1] + b * p[2]) % (MaxColor + 1)
                    ELSE Empty]

Isolated == {cells \in {{p, q} : p, q \in Cell} : LegalMoves(Painted(cells, 0, 0)) = {}}

NearlyFull == {Cell \ {p, q} : p, q \in Cell}

SomeBoard ==
    {Painted(cells, a, b) : cells \in Isolated \cup NearlyFull \cup {Cell},
                            a \in {1, 3}, b \in {0, 2}}

InitAny ==
    /\ seed \in Seeds
    /\ \E board \in SomeBoard, passes \in InitPasses, player \in Side :
          state = [board             |-> board,
                   turnNumber        |-> 5,
                   currentPlayer     |-> player,
                   nextColor         |-> ColorOf(seed),
                   rngState          |-> seed,
                   consecutivePasses |-> passes,
                   phase             |-> "playing",
                   winner            |-> "none",
                   legalMoves        |-> LegalMoves(board)]

SpecAny == InitAny /\ [][Next]_vars
=============================================================================
