---------------------------- MODULE RulesProofs ----------------------------
(***************************************************************************)
(* Theorems about the rules for every size of the board, every palette and *)
(* every generator.                                                        *)
(***************************************************************************)
EXTENDS Rules, FiniteSetTheorems, WellFoundedInduction, TLAPS

\* A non-empty set of natural numbers has a least element.
LEMMA NatMin ==
    ASSUME NEW S \in SUBSET Nat, S # {}
    PROVE  \E m \in S : \A k \in S : m <= k
<1>1. \E m \in S : \A k \in S : <<k, m>> \notin OpToRel(<, Nat)
  BY NatLessThanWellFounded, WFMin
<1>2. PICK m \in S : \A k \in S : <<k, m>> \notin OpToRel(<, Nat)
  BY <1>1
<1>3. \A k \in S : ~(k < m)
  BY <1>2 DEF OpToRel
<1> QED
  BY <1>3

-----------------------------------------------------------------------------
\* The generator.

\* The generator has a modulus.
LEMMA ModulusType == LcgM \in Nat \ {0}
<1>1. MaxColor + 1 \in Nat \ {0} /\ ColorStep \in Nat \ {0}
  BY RulesAssumption
<1> QED
  BY <1>1, SMT DEF LcgM

\* The generator stays within 32 bits and a drawn colour is a colour.
LEMMA DrawType ==
    ASSUME NEW rng \in 0..(LcgM - 1)
    PROVE  /\ Lcg(rng) \in 0..(LcgM - 1)
           /\ ColorOf(Lcg(rng)) \in Color
<1>1. rng * LcgA + LcgC \in Int
  BY RulesAssumption, ModulusType
<1>2. Lcg(rng) \in 0..(LcgM - 1)
  BY <1>1, ModulusType DEF Lcg
<1>3. ASSUME NEW n \in Nat, n < (MaxColor + 1) * ColorStep
      PROVE  n \div ColorStep \in 0..MaxColor
  BY <1>3, RulesAssumption
<1> QED
  BY <1>2, <1>3, ModulusType DEF ColorOf, Color, LcgM

\* With the numbers of the code every value of the generator, before the
\* remainder is taken, is below 2^53: the double-precision numbers of the
\* runtime hold it exactly, as the integers of this module do.
LEMMA GeneratorIsExact ==
    ASSUME NEW rng \in Nat, rng < 65536 * 65536
    PROVE  rng * 1664525 + 1013904223 < 65536 * 65536 * (65536 * 32)
OBVIOUS

-----------------------------------------------------------------------------
\* Scanning a board.

\* The list of directions has each of the eight once.
LEMMA DirectionsAre ==
    /\ DOMAIN Directions = 1..8
    /\ Direction = ({-1, 0, 1} \X {-1, 0, 1}) \ {<<0, 0>>}
    /\ \A i, j \in 1..8 : Directions[i] = Directions[j] => i = j
<1>1. /\ DOMAIN Directions = 1..8
      /\ Directions[1] = <<-1, -1>> /\ Directions[2] = <<-1, 0>> /\ Directions[3] = <<-1, 1>>
      /\ Directions[4] = <<0, -1>> /\ Directions[5] = <<0, 1>>
      /\ Directions[6] = <<1, -1>> /\ Directions[7] = <<1, 0>> /\ Directions[8] = <<1, 1>>
  BY DEF Directions
<1>2. \A i \in 1..8 : i = 1 \/ i = 2 \/ i = 3 \/ i = 4 \/ i = 5 \/ i = 6 \/ i = 7 \/ i = 8
  OBVIOUS
<1>3. \A d \in Direction : d \in ({-1, 0, 1} \X {-1, 0, 1}) \ {<<0, 0>>}
  BY <1>1, <1>2 DEF Direction
<1>4. \A d \in ({-1, 0, 1} \X {-1, 0, 1}) \ {<<0, 0>>} : d \in Direction
  <2>1. /\ \A i \in 1..8 : Directions[i] \in Direction
        /\ 1 \in 1..8 /\ 2 \in 1..8 /\ 3 \in 1..8 /\ 4 \in 1..8
        /\ 5 \in 1..8 /\ 6 \in 1..8 /\ 7 \in 1..8 /\ 8 \in 1..8
    BY <1>1 DEF Direction
  <2>2. SUFFICES ASSUME NEW x \in {-1, 0, 1}, NEW y \in {-1, 0, 1}, <<x, y>> # <<0, 0>>
                 PROVE  <<x, y>> \in Direction
    OBVIOUS
  <2> QED
    BY <1>1, <2>1, <2>2
<1>5. \A i, j \in 1..8 : Directions[i] = Directions[j] => i = j
  BY <1>1, <1>2
<1> QED
  BY <1>1, <1>3, <1>4, <1>5

\* A scan with any piece in it has a farthest one.
LEMMA FixedEndInRun ==
    ASSUME NEW board, NEW p, NEW d, Run(board, p, d) # {}
    PROVE  /\ FixedEnd(board, p, d) \in Run(board, p, d)
           /\ FixedEnd(board, p, d) + 1 \notin Run(board, p, d)
<1> DEFINE R == Run(board, p, d)
           Beyond == {k \in Nat : k > 0 /\ k \notin R}
<1>1. R \subseteq 1..N-1
  BY DEF Run
<1>2. N \in Beyond
  BY <1>1, RulesAssumption
<1>3. PICK m \in Beyond : \A k \in Beyond : m <= k
  <2> HIDE DEF Beyond
  <2>1. Beyond \in SUBSET Nat
    BY DEF Beyond
  <2> QED
    BY <1>2, <2>1, NatMin
<1>4. m # 1
  <2>1. PICK k \in R : TRUE
    OBVIOUS
  <2>2. 1 \in R
    BY <2>1, RulesAssumption DEF Run
  <2> QED
    BY <2>2
<1>5. m - 1 \in R /\ (m - 1) + 1 \notin R
  BY <1>3, <1>4
<1>6. \E k \in R : k + 1 \notin R
  BY <1>5
<1> QED
  BY <1>6 DEF FixedEnd

\* A cell reached by the scan is a cell of the board with a piece on it.
LEMMA RunCells ==
    ASSUME NEW board, NEW p, NEW d, NEW k \in Run(board, p, d)
    PROVE  Along(p, d, k) \in Cell /\ board[Along(p, d, k)] # Empty
BY RulesAssumption DEF Run

\* Two pieces in a row next to an empty cell make it a legal move.
LEMMA TwoInARow ==
    ASSUME NEW board, NEW p \in Cell, NEW d \in Direction,
           board[p] = Empty,
           Along(p, d, 1) \in Cell, board[Along(p, d, 1)] # Empty,
           Along(p, d, 2) \in Cell, board[Along(p, d, 2)] # Empty
    PROVE  p \in LegalMoves(board)
<1>1. \A j \in 1..2 : j = 1 \/ j = 2
  OBVIOUS
<1>2. 2 \in Run(board, p, d)
  BY <1>1, RulesAssumption DEF Run
<1> QED
  BY <1>2 DEF LegalMoves, Flanks

-----------------------------------------------------------------------------
\* There is always a move.

\* A line of cells that can be walked both ways, with two neighbouring pieces
\* on it and an empty cell somewhere: the empty cell nearest to the two is a
\* legal move, because the cells between are taken.
LEMMA LineHasMove ==
    ASSUME NEW board, NEW line \in [0..N-1 -> Cell],
           NEW d \in Direction, NEW e \in Direction,
           \A k \in 0..N-3 : /\ Along(line[k], d, 1) = line[k+1]
                             /\ Along(line[k], d, 2) = line[k+2],
           \A k \in 2..N-1 : /\ Along(line[k], e, 1) = line[k-1]
                             /\ Along(line[k], e, 2) = line[k-2],
           NEW i \in 0..N-2, board[line[i]] # Empty, board[line[i+1]] # Empty,
           NEW j \in 0..N-1, board[line[j]] = Empty
    PROVE  LegalMoves(board) # {}
<1> USE RulesAssumption
<1>1. CASE j > i + 1
  <2> DEFINE S == {k \in Nat : k > i + 1 /\ k <= N - 1 /\ board[line[k]] = Empty}
  <2>1. j \in S
    BY <1>1
  <2>2. PICK m \in S : \A k \in S : m <= k
    <3> HIDE DEF S
    <3>1. S \in SUBSET Nat
      BY DEF S
    <3> QED
      BY <2>1, <3>1, NatMin
  <2>3. m - 1 \notin S /\ m - 2 \notin S
    <3>1. m \in Nat
      OBVIOUS
    <3> HIDE DEF S
    <3> QED
      BY <2>2, <3>1
  <2>4. m \in 2..N-1 /\ board[line[m]] = Empty
    BY <2>2
  <2>5. board[line[m-1]] # Empty /\ board[line[m-2]] # Empty
    BY <2>2, <2>3
  <2>6. line[m] \in Cell /\ line[m-1] \in Cell /\ line[m-2] \in Cell
    BY <2>4
  <2>7. Along(line[m], e, 1) = line[m-1] /\ Along(line[m], e, 2) = line[m-2]
    BY <2>4
  <2> QED
    BY <2>4, <2>5, <2>6, <2>7, TwoInARow
<1>2. CASE j < i
  <2> DEFINE S == {k \in Nat : k >= 1 /\ k <= i /\ board[line[i-k]] = Empty}
  <2>1. i - j \in S
    BY <1>2
  <2>2. PICK m \in S : \A k \in S : m <= k
    <3> HIDE DEF S
    <3>1. S \in SUBSET Nat
      BY DEF S
    <3> QED
      BY <2>1, <3>1, NatMin
  <2>3. m - 1 \notin S /\ m - 2 \notin S
    <3>1. m \in Nat
      OBVIOUS
    <3> HIDE DEF S
    <3> QED
      BY <2>2, <3>1
  <2> DEFINE n == i - m
  <2>4. n \in 0..N-3 /\ board[line[n]] = Empty
    BY <2>2
  <2>5. board[line[n+1]] # Empty
    <3>1. CASE m = 1
      BY <3>1
    <3>2. CASE m # 1
      BY <3>2, <2>2, <2>3
    <3> QED
      BY <3>1, <3>2
  <2>6. board[line[n+2]] # Empty
    <3>1. CASE m = 1
      BY <3>1
    <3>2. CASE m = 2
      BY <3>2
    <3>3. CASE m # 1 /\ m # 2
      BY <3>3, <2>2, <2>3
    <3> QED
      BY <3>1, <3>2, <3>3
  <2>7. line[n] \in Cell /\ line[n+1] \in Cell /\ line[n+2] \in Cell
    BY <2>4
  <2>8. Along(line[n], d, 1) = line[n+1] /\ Along(line[n], d, 2) = line[n+2]
    BY <2>4
  <2> HIDE DEF n
  <2> QED
    BY <2>4, <2>5, <2>6, <2>7, <2>8, TwoInARow
<1>3. j # i /\ j # i + 1
  OBVIOUS
<1> QED
  BY <1>1, <1>2, <1>3

\* Two neighbouring pieces in a column with an empty cell give a move.
LEMMA ColumnHasMove ==
    ASSUME NEW board, NEW c \in 0..N-1, NEW i \in 0..N-2,
           board[<<i, c>>] # Empty, board[<<i+1, c>>] # Empty,
           NEW j \in 0..N-1, board[<<j, c>>] = Empty
    PROVE  LegalMoves(board) # {}
<1> USE RulesAssumption
<1> DEFINE line == [k \in 0..N-1 |-> <<k, c>>]
<1>1. line \in [0..N-1 -> Cell]
  BY DEF Cell
<1>2. <<1, 0>> \in Direction /\ <<-1, 0>> \in Direction
  BY DirectionsAre
<1>3. \A k \in 0..N-3 : /\ Along(line[k], <<1, 0>>, 1) = line[k+1]
                        /\ Along(line[k], <<1, 0>>, 2) = line[k+2]
  BY DEF Along
<1>4. \A k \in 2..N-1 : /\ Along(line[k], <<-1, 0>>, 1) = line[k-1]
                        /\ Along(line[k], <<-1, 0>>, 2) = line[k-2]
  BY DEF Along
<1>5. board[line[i]] # Empty /\ board[line[i+1]] # Empty /\ board[line[j]] = Empty
  OBVIOUS
<1> HIDE DEF line
<1> QED
  BY <1>1, <1>2, <1>3, <1>4, <1>5, LineHasMove

\* Two neighbouring pieces in a row with an empty cell give a move.
LEMMA RowHasMove ==
    ASSUME NEW board, NEW r \in 0..N-1, NEW i \in 0..N-2,
           board[<<r, i>>] # Empty, board[<<r, i+1>>] # Empty,
           NEW j \in 0..N-1, board[<<r, j>>] = Empty
    PROVE  LegalMoves(board) # {}
<1> USE RulesAssumption
<1> DEFINE line == [k \in 0..N-1 |-> <<r, k>>]
<1>1. line \in [0..N-1 -> Cell]
  BY DEF Cell
<1>2. <<0, 1>> \in Direction /\ <<0, -1>> \in Direction
  BY DirectionsAre
<1>3. \A k \in 0..N-3 : /\ Along(line[k], <<0, 1>>, 1) = line[k+1]
                        /\ Along(line[k], <<0, 1>>, 2) = line[k+2]
  BY DEF Along
<1>4. \A k \in 2..N-1 : /\ Along(line[k], <<0, -1>>, 1) = line[k-1]
                        /\ Along(line[k], <<0, -1>>, 2) = line[k-2]
  BY DEF Along
<1>5. board[line[i]] # Empty /\ board[line[i+1]] # Empty /\ board[line[j]] = Empty
  OBVIOUS
<1> HIDE DEF line
<1> QED
  BY <1>1, <1>2, <1>3, <1>4, <1>5, LineHasMove

\* The four cells the game starts with.
Block == {<<Mid-1, Mid-1>>, <<Mid-1, Mid>>, <<Mid, Mid-1>>, <<Mid, Mid>>}

\* The middle of the board lies on the board.
LEMMA MidRange == Mid \in Nat /\ Mid - 1 \in 0..N-2 /\ Mid \in 1..N-1
BY RulesAssumption DEF Mid

\* The four cells in the middle are cells.
LEMMA BlockCells == Block \subseteq Cell
BY MidRange, RulesAssumption DEF Block, Cell

\* While the four middle cells are taken and some cell is empty, there is a
\* legal move: in a middle row that has an empty cell, or, when both are full,
\* in the column of any empty cell, which the two rows cross.
LEMMA MoveExists ==
    ASSUME NEW board, \A p \in Block : board[p] # Empty, ~Full(board)
    PROVE  LegalMoves(board) # {}
<1> USE RulesAssumption, MidRange
<1>1. PICK p \in Cell : board[p] = Empty
  BY DEF Full
<1>2. PICK r \in 0..N-1, c \in 0..N-1 : p = <<r, c>>
  BY <1>1 DEF Cell
<1>3. /\ board[<<Mid-1, Mid-1>>] # Empty /\ board[<<Mid-1, Mid>>] # Empty
      /\ board[<<Mid, Mid-1>>] # Empty /\ board[<<Mid, Mid>>] # Empty
  BY DEF Block
<1>4. (Mid - 1) + 1 = Mid
  OBVIOUS
<1>5. CASE board[<<Mid-1, c>>] = Empty
  BY <1>3, <1>4, <1>5, RowHasMove
<1>6. CASE board[<<Mid, c>>] = Empty
  BY <1>3, <1>4, <1>6, RowHasMove
<1>7. CASE board[<<Mid-1, c>>] # Empty /\ board[<<Mid, c>>] # Empty
  BY <1>1, <1>2, <1>4, <1>7, ColumnHasMove
<1> QED
  BY <1>5, <1>6, <1>7

-----------------------------------------------------------------------------
\* A move.

\* Two directions out of a cell have no cell in common.
LEMMA DirectionsMeetOnce ==
    ASSUME NEW p \in Cell, NEW d \in Direction, NEW e \in Direction,
           NEW j \in Nat \ {0}, NEW k \in Nat \ {0},
           Along(p, d, j) = Along(p, e, k)
    PROVE  d = e
<1>1. /\ d[1] \in {-1, 0, 1} /\ d[2] \in {-1, 0, 1} /\ d = <<d[1], d[2]>> /\ d # <<0, 0>>
      /\ e[1] \in {-1, 0, 1} /\ e[2] \in {-1, 0, 1} /\ e = <<e[1], e[2]>> /\ e # <<0, 0>>
      /\ p[1] \in Int /\ p[2] \in Int
  BY DirectionsAre DEF Cell
<1>2. p[1] + j * d[1] = p[1] + k * e[1] /\ p[2] + j * d[2] = p[2] + k * e[2]
  BY DEF Along
<1>3. \A x, y \in {-1, 0, 1}, z \in Int : z + j * x = z + k * y => x = y
  OBVIOUS
<1> QED
  BY <1>1, <1>2, <1>3

\* The change of a target q of direction i.
Change(board, p, color, i, q) ==
    LET d == Directions[i]
    IN  [line |-> i, cell |-> q,
         color |-> Mean(color, board[Along(p, d, FixedEnd(board, p, d))], board[q])]

\* The changes of a move are those of the targets of its directions.
LEMMA ChangesAre ==
    ASSUME NEW board, NEW p, NEW color
    PROVE  /\ \A c \in Changes(board, p, color) :
                 \E i \in 1..8 : \E q \in Targets(board, p, Directions[i]) :
                    Directions[i] \in Flanks(board, p) /\ c = Change(board, p, color, i, q)
           /\ \A i \in 1..8 : \A q \in Targets(board, p, Directions[i]) :
                 Directions[i] \in Flanks(board, p) =>
                    Change(board, p, color, i, q) \in Changes(board, p, color)
<1> DEFINE of(i) == {Change(board, p, color, i, q) : q \in Targets(board, p, Directions[i])}
           lines == {j \in 1..8 : Directions[j] \in Flanks(board, p)}
<1>1. Changes(board, p, color) = UNION {of(i) : i \in lines}
  BY DirectionsAre DEF Changes, Change
<1> QED
  BY <1>1

\* No cell is changed twice.
LEMMA ChangesOnce ==
    ASSUME NEW board, NEW p \in Cell, NEW color,
           NEW c \in Changes(board, p, color), NEW e \in Changes(board, p, color),
           c.cell = e.cell
    PROVE  c = e
<1>1. PICK i \in 1..8 : \E q \in Targets(board, p, Directions[i]) :
                            c = Change(board, p, color, i, q)
  BY ChangesAre
<1>2. PICK j \in 1..8 : \E q \in Targets(board, p, Directions[j]) :
                            e = Change(board, p, color, j, q)
  BY ChangesAre
<1>3. PICK q \in Targets(board, p, Directions[i]) : c = Change(board, p, color, i, q)
  BY <1>1
<1>4. PICK r \in Targets(board, p, Directions[j]) : e = Change(board, p, color, j, r)
  BY <1>2
<1>5. q = r
  BY <1>3, <1>4 DEF Change
<1>6. PICK k \in Run(board, p, Directions[i]) : q = Along(p, Directions[i], k)
  BY DEF Targets
<1>7. PICK l \in Run(board, p, Directions[j]) : r = Along(p, Directions[j], l)
  BY DEF Targets
<1>8. k \in Nat \ {0} /\ l \in Nat \ {0}
  BY RulesAssumption DEF Run
<1>9. Directions[i] \in Direction /\ Directions[j] \in Direction
  BY DirectionsAre DEF Direction
<1>10. Directions[i] = Directions[j]
  BY <1>5, <1>6, <1>7, <1>8, <1>9, DirectionsMeetOnce
<1>11. i = j
  BY <1>10, DirectionsAre
<1> QED
  BY <1>3, <1>4, <1>5, <1>11

\* So the order in which they are written does not matter: each cell has the
\* colour of its one change.
LEMMA RecolorIs ==
    ASSUME NEW board, NEW p \in Cell, NEW color, NEW q \in Cell
    PROVE  \/ q = p /\ Recolor(board, p, color)[q] = color
           \/ /\ q # p
              /\ \E c \in Changes(board, p, color) :
                    c.cell = q /\ Recolor(board, p, color)[q] = c.color
           \/ /\ q # p /\ Recolor(board, p, color)[q] = board[q]
              /\ \A c \in Changes(board, p, color) : c.cell # q
<1> DEFINE changes == Changes(board, p, color)
           of   == {c \in changes : c.cell = q}
           last == CHOOSE c \in of : \A b \in of : b.line <= c.line
<1>1. Recolor(board, p, color)[q] = IF q = p THEN color
                                    ELSE IF of # {} THEN last.color ELSE board[q]
  BY DEF Recolor
<1>2. ASSUME NEW c \in changes, c.cell = q
      PROVE  of # {} /\ last = c
  <2>1. \A b \in of : b = c
    BY <1>2, ChangesOnce
  <2>2. c \in of
    BY <1>2
  <2>3. c.line \in Int
    BY ChangesAre DEF Change
  <2>4. \E b \in of : \A e \in of : e.line <= b.line
    <3> HIDE DEF of
    <3> QED
      BY <2>1, <2>2, <2>3
  <2> HIDE DEF of, changes
  <2> QED
    BY <2>1, <2>2, <2>4
<1>3. (\A c \in changes : c.cell # q) => of = {}
  OBVIOUS
<1> HIDE DEF of, last, changes
<1>4. CASE \E c \in changes : c.cell = q
  BY <1>1, <1>2, <1>4 DEF changes
<1>5. CASE \A c \in changes : c.cell # q
  BY <1>1, <1>3, <1>5 DEF changes
<1> QED
  BY <1>4, <1>5

\* A change is of a piece, and takes the mean with that of the last in line.
LEMMA ChangeOf ==
    ASSUME NEW board, NEW p, NEW color, NEW c \in Changes(board, p, color)
    PROVE  /\ c.cell \in Pieces(board)
           /\ \E far \in Pieces(board) : c.color = Mean(color, board[far], board[c.cell])
<1>1. PICK i \in 1..8 : \E q \in Targets(board, p, Directions[i]) :
                            Directions[i] \in Flanks(board, p) /\ c = Change(board, p, color, i, q)
  BY ChangesAre
<1> DEFINE d == Directions[i]
           far == Along(p, d, FixedEnd(board, p, d))
<1>2. PICK q \in Targets(board, p, d) : d \in Flanks(board, p) /\ c = Change(board, p, color, i, q)
  BY <1>1
<1>3. c.cell = q /\ c.color = Mean(color, board[far], board[q])
  BY <1>2 DEF Change
<1>4. 2 \in Run(board, p, d)
  BY <1>2 DEF Flanks
<1>5. far \in Pieces(board)
  BY <1>4, FixedEndInRun, RunCells DEF Pieces
<1>6. q \in Pieces(board)
  BY RunCells DEF Targets, Pieces
<1> QED
  BY <1>3, <1>5, <1>6

\* A move gives every piece a colour, takes a piece off no cell and puts one
\* on the chosen cell only.
LEMMA RecolorType ==
    ASSUME NEW board \in Board, NEW p \in Cell, NEW color \in Color
    PROVE  /\ Recolor(board, p, color) \in Board
           /\ \A q \in Cell : Recolor(board, p, color)[q] # Empty <=>
                                 q = p \/ board[q] # Empty
<1> DEFINE after == Recolor(board, p, color)
<1>1. \A c \in Color : c \in Nat /\ c # Empty
  BY RulesAssumption DEF Color, Empty
<1>2. ASSUME NEW c \in Changes(board, p, color)
      PROVE  board[c.cell] \in Color /\ c.color \in Color
  <2>1. PICK far \in Pieces(board) : c.color = Mean(color, board[far], board[c.cell])
    BY ChangeOf
  <2>2. board[far] \in Color /\ board[c.cell] \in Color
    BY ChangeOf DEF Pieces, Board
  <2>3. \A x, y, z \in Color : (x + y + z) \div 3 \in Color
    BY RulesAssumption DEF Color
  <2> QED
    BY <2>1, <2>2, <2>3 DEF Mean
<1>3. after = [q \in Cell |-> after[q]]
  BY DEF Recolor
<1>4. ASSUME NEW q \in Cell
      PROVE  \/ q = p /\ after[q] = color
             \/ q # p /\ \E c \in Changes(board, p, color) : c.cell = q /\ after[q] = c.color
             \/ q # p /\ after[q] = board[q]
  BY RecolorIs
<1> HIDE DEF after
<1>5. ASSUME NEW q \in Cell
      PROVE  /\ after[q] \in Color \cup {Empty}
             /\ after[q] # Empty <=> q = p \/ board[q] # Empty
  <2>1. CASE q = p /\ after[q] = color
    BY <1>1, <2>1
  <2>2. CASE \E c \in Changes(board, p, color) : c.cell = q /\ after[q] = c.color
    <3>1. after[q] \in Color /\ board[q] \in Color
      BY <1>2, <2>2
    <3> QED
      BY <1>1, <3>1
  <2>3. CASE q # p /\ after[q] = board[q]
    BY <2>3 DEF Board
  <2> QED
    BY <1>4, <2>1, <2>2, <2>3
<1>6. after \in Board
  BY <1>3, <1>5 DEF Board
<1> QED
  BY <1>5, <1>6 DEF after

-----------------------------------------------------------------------------
\* Counting pieces.

\* The board has N * N cells.
LEMMA CellCount == IsFiniteSet(Cell) /\ Cardinality(Cell) = N * N
<1>1. IsFiniteSet(0..N-1) /\ Cardinality(0..N-1) = N
  BY FS_Interval, RulesAssumption
<1> QED
  BY <1>1, FS_Product DEF Cell

\* A board has no more pieces than cells, and is full when it has as many.
LEMMA PiecesCount ==
    ASSUME NEW board
    PROVE  /\ IsFiniteSet(Pieces(board))
           /\ Cardinality(Pieces(board)) \in Nat
           /\ Cardinality(Pieces(board)) <= N * N
           /\ Full(board) <=> Cardinality(Pieces(board)) = N * N
<1>1. Pieces(board) \in SUBSET Cell
  BY DEF Pieces
<1>2. Full(board) <=> Pieces(board) = Cell
  BY DEF Full, Pieces
<1> QED
  BY <1>1, <1>2, CellCount, FS_Subset, FS_CardinalityType

\* A move onto an empty cell adds one piece.
LEMMA MoveAddsPiece ==
    ASSUME NEW board \in Board, NEW p \in Cell, NEW color \in Color,
           board[p] = Empty
    PROVE  Cardinality(Pieces(Recolor(board, p, color))) = Cardinality(Pieces(board)) + 1
<1>1. Pieces(Recolor(board, p, color)) = Pieces(board) \cup {p}
  BY RecolorType DEF Pieces
<1>2. p \notin Pieces(board)
  BY DEF Pieces
<1> QED
  BY <1>1, <1>2, PiecesCount, FS_AddElement

\* The initial board: the four middle cells are taken, and no other.
LEMMA InitialBoardFacts ==
    /\ InitialBoard \in Board
    /\ \A p \in Block : InitialBoard[p] # Empty
    /\ ~Full(InitialBoard)
    /\ Cardinality(Pieces(InitialBoard)) = 4
<1> USE MidRange, RulesAssumption
<1>1. InitialBoard \in Board
  BY DEF InitialBoard, Board, Color
<1>2. Pieces(InitialBoard) = Block
  BY BlockCells DEF Pieces, Block, InitialBoard, Empty
<1>3. ~Full(InitialBoard)
  <2>1. <<N-1, N-1>> \in Cell
    BY DEF Cell
  <2>2. N - 1 # Mid /\ N - 1 # Mid - 1
    BY DEF Mid
  <2>3. InitialBoard[<<N-1, N-1>>] = Empty
    BY <2>1, <2>2 DEF InitialBoard
  <2> QED
    BY <2>1, <2>3 DEF Full
<1>4. Cardinality(Block) = 4
  <2> DEFINE b1 == {<<Mid-1, Mid-1>>}
             b2 == b1 \cup {<<Mid-1, Mid>>}
             b3 == b2 \cup {<<Mid, Mid-1>>}
             b4 == b3 \cup {<<Mid, Mid>>}
  <2>1. IsFiniteSet(b1) /\ Cardinality(b1) = 1
    BY FS_Singleton
  <2>2. <<Mid-1, Mid>> \notin b1 /\ <<Mid, Mid-1>> \notin b2 /\ <<Mid, Mid>> \notin b3
    OBVIOUS
  <2>3. Block = b4
    BY DEF Block
  <2>4. IsFiniteSet(b2) /\ Cardinality(b2) = 2
    <3> HIDE DEF b1
    <3> QED
      BY <2>1, <2>2, FS_AddElement
  <2>5. IsFiniteSet(b3) /\ Cardinality(b3) = 3
    <3> HIDE DEF b2
    <3> QED
      BY <2>4, <2>2, FS_AddElement
  <2>6. Cardinality(b4) = 4
    <3> HIDE DEF b3
    <3> QED
      BY <2>5, <2>2, FS_AddElement
  <2> QED
    BY <2>3, <2>6
<1> QED
  BY <1>1, <1>2, <1>3, <1>4 DEF Pieces

-----------------------------------------------------------------------------
\* The invariant of a game played from the initial board.

\* None of the parts is inductive by itself.  That there is a move rests on
\* the four middle pieces; that nobody passes rests on there being a move; and
\* the count of turns, which tells when the board is full, on nobody passing.
Inductive ==
    /\ TypeOK
    /\ ReplyIsValid
    /\ state.phase = "playing" => state.legalMoves = LegalMoves(state.board)
    /\ TurnsArePieces
    /\ \A p \in Block : state.board[p] # Empty

\* The state of a new game, and the state after a move, are valid.
LEMMA NewGameValid ==
    ASSUME NEW s \in Seeds
    PROVE  StateValid(NewGame(s))
<1>1. s \in 0..(LcgM - 1)
  BY RulesAssumption
<1>2. NewGame(s) \in State
  BY <1>1, DrawType, InitialBoardFacts
     DEF NewGame, State, Side, LegalMoves
<1> QED
  BY <1>2 DEF StateValid, NewGame

\* A move.
LEMMA PlaceValid ==
    ASSUME NEW st \in State, st.phase = "playing", st.winner = "none", NEW p \in Cell
    PROVE  StateValid(ApplyPlace(st, p))
<1> DEFINE board == Recolor(st.board, p, st.nextColor)
<1>1. st.board \in Board /\ st.nextColor \in Color /\ st.turnNumber \in Nat
      /\ st.rngState \in 0..(LcgM - 1) /\ st.currentPlayer \in Side
  BY DEF State
<1>2. board \in Board
  BY <1>1, RecolorType
<1>3. Winner(board) \in Side /\ LegalMoves(board) \in SUBSET Cell
  BY DEF Winner, Side, LegalMoves
<1>4. Opponent(st.currentPlayer) \in Side
  BY DEF Opponent, Side
<1>5. Lcg(st.rngState) \in 0..(LcgM - 1) /\ ColorOf(Lcg(st.rngState)) \in Color
  BY <1>1, DrawType
<1> HIDE DEF board
<1>6. ApplyPlace(st, p) = NextTurn(st, board, 0, Full(board))
  BY DEF ApplyPlace, board
<1>7. ApplyPlace(st, p) \in State
  BY <1>1, <1>2, <1>3, <1>4, <1>5, <1>6 DEF NextTurn, State
<1> QED
  BY <1>3, <1>6, <1>7 DEF StateValid, NextTurn

\* The invariant holds for a new game.
LEMMA InitInductive ==
    ASSUME Init
    PROVE  Inductive
<1>1. state = NewGame(seed) /\ seed \in Seeds
  BY DEF Init
<1>2. TypeOK /\ ReplyIsValid
  BY <1>1, NewGameValid DEF TypeOK, ReplyIsValid, StateValid
<1>3. TurnsArePieces
  BY <1>1, InitialBoardFacts DEF TurnsArePieces, NewGame
<1> QED
  BY <1>1, <1>2, <1>3, InitialBoardFacts DEF Inductive, NewGame

\* Every command the rules accept puts a piece on an empty cell: a pass is
\* acceptable only without legal moves, and there is one.
LEMMA AcceptedIsPlace ==
    ASSUME Inductive, NEW cmd, Verdict(state, cmd) = "ok"
    PROVE  /\ state.phase = "playing"
           /\ cmd.type = "place"
           /\ cmd.cell \in Cell
           /\ state.board[cmd.cell] = Empty
<1>1. state.phase = "playing"
  BY DEF Verdict, Inductive, TypeOK, State
<1>2. LegalMoves(state.board) # {}
  BY <1>1, MoveExists DEF Inductive, TurnsArePieces
<1>3. cmd.type = "place"
  BY <1>2 DEF Verdict, PassVerdict
<1> QED
  BY <1>1, <1>3 DEF Verdict, PlaceVerdict

\* What an accepted move does to each part of the state.
LEMMA PlaceKeepsInductive ==
    ASSUME Inductive, NEW p \in Cell,
           state.phase = "playing", state.board[p] = Empty,
           state' = ApplyPlace(state, p), seed' = seed
    PROVE  Inductive'
<1> DEFINE board == Recolor(state.board, p, state.nextColor)
<1>1. state \in State /\ state.winner = "none"
  BY DEF Inductive, TypeOK, ReplyIsValid, StateValid
<1>2. state.board \in Board /\ state.nextColor \in Color
  BY <1>1 DEF State
<1>3. board \in Board /\ \A q \in Cell : board[q] # Empty <=> q = p \/ state.board[q] # Empty
  BY <1>2, RecolorType
<1>4. Cardinality(Pieces(board)) = state.turnNumber + 1 + 4
  <2>1. Cardinality(Pieces(state.board)) = state.turnNumber + 4 /\ state.turnNumber \in Nat
    BY <1>1 DEF Inductive, TurnsArePieces, State
  <2> QED
    BY <1>2, <2>1, MoveAddsPiece
<1> HIDE DEF board
<1>5. state' = NextTurn(state, board, 0, Full(board))
  BY DEF ApplyPlace, board
<1>6. /\ state'.board = board
      /\ state'.turnNumber = state.turnNumber + 1
      /\ state'.consecutivePasses = 0
      /\ state'.phase = IF Full(board) THEN "finished" ELSE "playing"
      /\ state'.legalMoves = IF Full(board) THEN {} ELSE LegalMoves(board)
  BY <1>5 DEF NextTurn
<1>7. TypeOK' /\ ReplyIsValid'
  BY <1>1, PlaceValid DEF Inductive, TypeOK, ReplyIsValid, StateValid
<1>8. TurnsArePieces'
  BY <1>4, <1>6 DEF TurnsArePieces
<1>9. \A q \in Block : state'.board[q] # Empty
  BY <1>3, <1>6, BlockCells DEF Inductive
<1> QED
  BY <1>6, <1>7, <1>8, <1>9 DEF Inductive

\* Every request keeps the invariant.
LEMMA StepInductive ==
    ASSUME Inductive, [Next]_vars
    PROVE  Inductive'
<1>1. CASE UNCHANGED vars
  BY <1>1 DEF vars, Inductive, TypeOK, ReplyIsValid, TurnsArePieces
<1>2. ASSUME NEW cmd \in Command(state), Submit(cmd)
      PROVE  Inductive'
  <2>1. CASE Verdict(state, cmd) # "ok"
    <3>1. state' = state /\ seed' = seed
      BY <1>2, <2>1 DEF Submit, Evaluate
    <3> QED
      BY <1>1, <3>1 DEF vars
  <2>2. CASE Verdict(state, cmd) = "ok"
    <3>1. state' = ApplyPlace(state, cmd.cell) /\ seed' = seed
      BY <1>2, <2>2, AcceptedIsPlace DEF Submit, Evaluate
    <3> QED
      BY <2>2, <3>1, AcceptedIsPlace, PlaceKeepsInductive
  <2> QED
    BY <2>1, <2>2
<1> QED
  BY <1>1, <1>2 DEF Next

\* The invariant holds for every game from the initial board.
THEOREM GameInvariant == Spec => []Inductive
BY InitInductive, StepInductive, PTL DEF Spec

-----------------------------------------------------------------------------
\* What the invariant is for.

\* The state of every response has the shape of the contract, whatever
\* commands come in whatever order.
THEOREM TypeCorrect == Spec => []TypeOK
<1>1. Inductive => TypeOK
  BY DEF Inductive
<1> QED
  BY <1>1, GameInvariant, PTL

\* The rules never refuse their own last response as invalid_state.
THEOREM RepliesAreValid == Spec => []ReplyIsValid
<1>1. Inductive => ReplyIsValid
  BY DEF Inductive
<1> QED
  BY <1>1, GameInvariant, PTL

\* On a board of any size, a game that is on has a legal move for the side to
\* move, and the list in the state is right.
THEOREM ThereIsAMove == Spec => []AlwaysAMove
<1>1. ASSUME Inductive
      PROVE  AlwaysAMove
  <2>1. CASE state.phase = "playing"
    <3>1. LegalMoves(state.board) # {}
      BY <1>1, <2>1, MoveExists DEF Inductive, TurnsArePieces
    <3> QED
      BY <1>1, <2>1, <3>1 DEF Inductive, AlwaysAMove
  <2> QED
    BY <2>1 DEF AlwaysAMove
<1> QED
  BY <1>1, GameInvariant, PTL

\* Nobody ever passes, turns count pieces, and the game ends when the board is
\* full and not before.
THEOREM TurnsCountPieces == Spec => []TurnsArePieces
<1>1. Inductive => TurnsArePieces
  BY DEF Inductive
<1> QED
  BY <1>1, GameInvariant, PTL

\* A move changes the colour of a piece only to one between the colours in
\* play.
LEMMA MoveBlends ==
    ASSUME NEW board \in Board, NEW p \in Cell, NEW color \in Color,
           NEW q \in Cell, Recolor(board, p, color)[q] # board[q]
    PROVE  LET inPlay == {board[c] : c \in Pieces(board)} \cup {color}
           IN  /\ \E c \in inPlay : c <= Recolor(board, p, color)[q]
               /\ \E c \in inPlay : c >= Recolor(board, p, color)[q]
<1> DEFINE inPlay == {board[c] : c \in Pieces(board)} \cup {color}
           now == Recolor(board, p, color)[q]
<1>1. \A c \in Color : c \in Int
  BY RulesAssumption DEF Color
<1>2. CASE q = p
  BY <1>1, <1>2, RecolorIs
<1>3. CASE q # p
  <2>1. PICK e \in Changes(board, p, color) : e.cell = q /\ now = e.color
    BY <1>3, RecolorIs
  <2>2. PICK far \in Pieces(board) : e.color = Mean(color, board[far], board[q])
    BY <2>1, ChangeOf
  <2>3. now = (color + board[far] + board[q]) \div 3
    BY <2>1, <2>2 DEF Mean
  <2>4. q \in Pieces(board)
    BY <2>1, ChangeOf
  <2>5. board[far] \in Color /\ board[q] \in Color
    BY <2>4 DEF Pieces, Board
  <2>6. \A x, y, z \in Int :
           LET m == (x + y + z) \div 3
           IN  /\ x <= m \/ y <= m \/ z <= m
               /\ x >= m \/ y >= m \/ z >= m
    OBVIOUS
  <2>7. color \in inPlay /\ board[far] \in inPlay /\ board[q] \in inPlay
    BY <2>4
  <2> HIDE DEF inPlay, now
  <2>8. /\ \E c \in inPlay : c <= now
        /\ \E c \in inPlay : c >= now
    BY <1>1, <2>3, <2>5, <2>6, <2>7
  <2> QED
    BY <2>8 DEF inPlay, now
<1> QED
  BY <1>2, <1>3

\* No step makes a piece darker than all colours in play, or lighter than all
\* of them, and none removes a piece.
THEOREM StepsBlend == Spec => ColorsBlend
<1>1. ASSUME Inductive, [Next]_vars
      PROVE  [Blend]_vars
  <2>1. CASE UNCHANGED vars
    BY <2>1
  <2>2. ASSUME NEW cmd \in Command(state), Submit(cmd), state' # state
        PROVE  Blend
    <3>1. Verdict(state, cmd) = "ok"
      BY <2>2 DEF Submit, Evaluate
    <3>2. state' = ApplyPlace(state, cmd.cell) /\ cmd.cell \in Cell
      BY <1>1, <2>2, <3>1, AcceptedIsPlace DEF Submit, Evaluate
    <3>3. state'.board = Recolor(state.board, cmd.cell, state.nextColor)
      BY <3>2 DEF ApplyPlace, NextTurn
    <3>4. state.board \in Board /\ state.nextColor \in Color
      BY <1>1 DEF Inductive, TypeOK, State
    <3> QED
      BY <3>2, <3>3, <3>4, MoveBlends DEF Blend
  <2>3. ASSUME NEW cmd \in Command(state), Submit(cmd), state' = state
        PROVE  UNCHANGED vars
    BY <2>3 DEF Submit, vars
  <2> QED
    BY <1>1, <2>1, <2>2, <2>3 DEF Next
<1> QED
  BY <1>1, GameInvariant, PTL DEF Spec, ColorsBlend

-----------------------------------------------------------------------------
\* Moves and the lines of the contract.

\* The cell k steps away in a direction is straight ahead of p.
LEMMA AlongIsStraight ==
    ASSUME NEW p \in Cell, NEW d \in Direction, NEW k \in Nat \ {0}
    PROVE  /\ Straight(p, Along(p, d, k))
           /\ Toward(p, Along(p, d, k)) = d
           /\ Steps(p, Along(p, d, k)) = k
<1> DEFINE q == Along(p, d, k)
<1>1. /\ p[1] \in Int /\ p[2] \in Int /\ p = <<p[1], p[2]>>
      /\ d[1] \in {-1, 0, 1} /\ d[2] \in {-1, 0, 1} /\ d = <<d[1], d[2]>> /\ d # <<0, 0>>
  BY DirectionsAre DEF Cell
<1>2. q[1] = p[1] + k * d[1] /\ q[2] = p[2] + k * d[2] /\ q = <<q[1], q[2]>>
  BY DEF Along
<1> HIDE DEF q
<1>3. \A x \in {-1, 0, 1} : \/ x = -1 /\ k * x = -k
                            \/ x = 0 /\ k * x = 0
                            \/ x = 1 /\ k * x = k
  OBVIOUS
<1>4. ASSUME NEW n \in 1..2
      PROVE  \/ d[n] = -1 /\ q[n] = p[n] - k
             \/ d[n] = 0 /\ q[n] = p[n]
             \/ d[n] = 1 /\ q[n] = p[n] + k
  <2>1. n = 1 \/ n = 2
    OBVIOUS
  <2>2. CASE n = 1
    BY <1>1, <1>2, <1>3, <2>2
  <2>3. CASE n = 2
    BY <1>1, <1>2, <1>3, <2>3
  <2> QED
    BY <2>1, <2>2, <2>3
<1>5. /\ \/ d[1] = -1 /\ q[1] = p[1] - k
         \/ d[1] = 0 /\ q[1] = p[1]
         \/ d[1] = 1 /\ q[1] = p[1] + k
      /\ \/ d[2] = -1 /\ q[2] = p[2] - k
         \/ d[2] = 0 /\ q[2] = p[2]
         \/ d[2] = 1 /\ q[2] = p[2] + k
  BY <1>4
<1>6. q[1] # p[1] \/ q[2] # p[2]
  BY <1>1, <1>5
<1>7. \A n \in 1..2 : Sign(q[n] - p[n]) = d[n]
  BY <1>1, <1>5 DEF Sign
<1>8. Toward(p, q) = d
  BY <1>1, <1>7 DEF Toward
<1>9. Straight(p, q)
  BY <1>1, <1>5, <1>6 DEF Straight, Abs
<1>10. Steps(p, q) = k
  BY <1>1, <1>5, <1>6 DEF Steps, Abs
<1> QED
  BY <1>8, <1>9, <1>10 DEF q

\* And a cell straight ahead is so many steps away in its direction.
LEMMA StraightIsAlong ==
    ASSUME NEW p \in Cell, NEW q \in Cell, Straight(p, q)
    PROVE  /\ Toward(p, q) \in Direction
           /\ Steps(p, q) \in 1..N-1
           /\ q = Along(p, Toward(p, q), Steps(p, q))
<1> USE RulesAssumption
<1>1. /\ p[1] \in 0..N-1 /\ p[2] \in 0..N-1 /\ p = <<p[1], p[2]>>
      /\ q[1] \in 0..N-1 /\ q[2] \in 0..N-1 /\ q = <<q[1], q[2]>>
  BY DEF Cell
<1>2. q[1] # p[1] \/ q[2] # p[2]
  BY <1>1 DEF Straight
<1> DEFINE x == Sign(q[1] - p[1])
           y == Sign(q[2] - p[2])
           k == Steps(p, q)
<1>3. x \in {-1, 0, 1} /\ y \in {-1, 0, 1} /\ (x # 0 \/ y # 0)
  BY <1>1, <1>2 DEF Sign
<1>4. k \in 1..N-1
  BY <1>1, <1>2 DEF Steps, Abs
<1>5. /\ x = -1 => q[1] = p[1] - k
      /\ x = 0 => q[1] = p[1]
      /\ x = 1 => q[1] = p[1] + k
  BY <1>1, <1>2 DEF Steps, Abs, Sign
<1>6. /\ y = -1 => q[2] = p[2] - k
      /\ y = 0 => q[2] = p[2]
      /\ y = 1 => q[2] = p[2] + k
  BY <1>1, <1>2 DEF Steps, Abs, Sign, Straight
<1>7. Toward(p, q) = <<x, y>>
  BY DEF Toward
<1> HIDE DEF x, y, k
<1>8. \A z \in {-1, 0, 1} : \/ z = -1 /\ k * z = -k
                            \/ z = 0 /\ k * z = 0
                            \/ z = 1 /\ k * z = k
  BY <1>4
<1>9. q[1] = p[1] + k * x /\ q[2] = p[2] + k * y
  BY <1>1, <1>3, <1>4, <1>5, <1>6, <1>8
<1>10. Toward(p, q) \in Direction
  BY <1>3, <1>7, DirectionsAre
<1>11. q = Along(p, Toward(p, q), k)
  BY <1>1, <1>7, <1>9 DEF Along
<1> QED
  BY <1>4, <1>10, <1>11 DEF k

\* A scan has no gaps.
LEMMA RunHasNoGap ==
    ASSUME NEW board, NEW p, NEW d, NEW k \in Run(board, p, d), NEW j \in 1..k
    PROVE  j \in Run(board, p, d)
BY RulesAssumption DEF Run

\* Its fixed end is the farthest of it.
LEMMA FixedEndLast ==
    ASSUME NEW board, NEW p, NEW d, NEW k \in Run(board, p, d)
    PROVE  /\ FixedEnd(board, p, d) \in Run(board, p, d)
           /\ FixedEnd(board, p, d) \in 1..N-1 /\ k \in 1..N-1
           /\ k <= FixedEnd(board, p, d)
<1> DEFINE e == FixedEnd(board, p, d)
<1>1. e \in Run(board, p, d) /\ e + 1 \notin Run(board, p, d)
  BY FixedEndInRun
<1>2. e \in 1..N-1 /\ k \in 1..N-1
  BY <1>1 DEF Run
<1> HIDE DEF e
<1>3. CASE e < k
  <2>1. e + 1 \in 1..k
    BY <1>2, <1>3, RulesAssumption
  <2> QED
    BY <1>1, <2>1, RunHasNoGap
<1> QED
  BY <1>1, <1>2, <1>3, RulesAssumption DEF e

\* The pieces in sight are those the scan meets.
LEMMA SeenIsRun ==
    ASSUME NEW board, NEW p \in Cell, NEW q \in Cell
    PROVE  q \in Seen(board, p) <=> Straight(p, q) /\ Steps(p, q) \in Run(board, p, Toward(p, q))
<1> DEFINE d == Toward(p, q)
           k == Steps(p, q)
<1> SUFFICES ASSUME Straight(p, q)
             PROVE  q \in Seen(board, p) <=> k \in Run(board, p, d)
  BY DEF Seen
<1>1. d \in Direction /\ k \in 1..N-1 /\ q = Along(p, d, k)
  BY StraightIsAlong
<1>2. k \in Nat \ {0}
  BY <1>1, RulesAssumption
<1>3. ASSUME q \in Seen(board, p)
      PROVE  k \in Run(board, p, d)
  <2>1. SUFFICES ASSUME NEW j \in 1..k
                 PROVE  Along(p, d, j) \in Cell /\ board[Along(p, d, j)] # Empty
    BY <1>1 DEF Run
  <2> DEFINE r == Along(p, d, j)
  <2>2. j \in Nat \ {0} /\ j <= k
    BY <1>2
  <2>3. r \in Cell
    <3>1. /\ p[1] \in 0..N-1 /\ p[2] \in 0..N-1 /\ q[1] \in 0..N-1 /\ q[2] \in 0..N-1
          /\ d[1] \in {-1, 0, 1} /\ d[2] \in {-1, 0, 1}
      BY <1>1, DirectionsAre DEF Cell
    <3>2. q[1] = p[1] + k * d[1] /\ q[2] = p[2] + k * d[2]
      BY <1>1 DEF Along
    <3>3. ASSUME NEW x \in {-1, 0, 1}, NEW a \in 0..N-1, a + k * x \in 0..N-1
          PROVE  a + j * x \in 0..N-1
      <4>1. CASE x = -1
        BY <1>2, <2>2, <3>3, <4>1, RulesAssumption
      <4>2. CASE x = 0
        BY <1>2, <2>2, <3>3, <4>2, RulesAssumption
      <4>3. CASE x = 1
        BY <1>2, <2>2, <3>3, <4>3, RulesAssumption
      <4> QED
        BY <4>1, <4>2, <4>3
    <3>4. p[1] + j * d[1] \in 0..N-1 /\ p[2] + j * d[2] \in 0..N-1
      BY <3>1, <3>2, <3>3
    <3> QED
      BY <3>4 DEF Along, Cell
  <2>4. CASE j = k
    BY <1>1, <1>3, <2>3, <2>4 DEF Seen, Pieces
  <2>5. CASE j # k
    <3>1. Straight(p, r) /\ Toward(p, r) = d /\ Steps(p, r) = j
      BY <1>1, <2>2, AlongIsStraight
    <3>2. j < k
      BY <1>2, <2>2, <2>5
    <3>3. Behind(p, r, q)
      BY <3>1, <3>2 DEF Behind
    <3>4. r \in Pieces(board)
      BY <1>3, <2>3, <3>3 DEF Seen
    <3> QED
      BY <2>3, <3>4 DEF Pieces
  <2> QED
    BY <2>4, <2>5
<1>4. ASSUME k \in Run(board, p, d)
      PROVE  q \in Seen(board, p)
  <2>1. q \in Pieces(board)
    BY <1>1, <1>4, RunCells DEF Pieces
  <2>2. ASSUME NEW r \in Cell, Behind(p, r, q)
        PROVE  r \in Pieces(board)
    <3> DEFINE j == Steps(p, r)
    <3>1. Straight(p, r) /\ Toward(p, r) = d /\ j < k
      BY <2>2 DEF Behind
    <3>2. j \in 1..N-1 /\ r = Along(p, d, j)
      BY <3>1, StraightIsAlong
    <3>3. j \in 1..k
      BY <1>2, <3>1, <3>2, RulesAssumption
    <3>4. j \in Run(board, p, d)
      BY <1>4, <3>3, RunHasNoGap
    <3> QED
      BY <3>2, <3>4, RunCells DEF Pieces
  <2> QED
    BY <2>1, <2>2 DEF Seen
<1> QED
  BY <1>3, <1>4

\* The pieces between p and the last one in sight are the targets of the scan,
\* and the last one in sight is its fixed end.
LEMMA BetweenIsTarget ==
    ASSUME NEW board, NEW p \in Cell, NEW q \in Cell, NEW f \in Cell
    PROVE  Between(board, p, q, f) <=>
             LET d == Toward(p, q)
                 e == FixedEnd(board, p, d)
             IN  Straight(p, q) /\ Steps(p, q) \in Run(board, p, d) \ {e} /\ f = Along(p, d, e)
<1> DEFINE d == Toward(p, q)
           k == Steps(p, q)
           e == FixedEnd(board, p, d)
           m == Steps(p, f)
<1>1. ASSUME Between(board, p, q, f)
      PROVE  Straight(p, q) /\ k \in Run(board, p, d) \ {e} /\ f = Along(p, d, e)
  <2>1. Straight(p, q) /\ Straight(p, f) /\ Toward(p, f) = d /\ k < m
    BY <1>1 DEF Between, Behind
  <2>2. d \in Direction /\ k \in 1..N-1 /\ m \in 1..N-1 /\ f = Along(p, d, m)
    BY <2>1, StraightIsAlong
  <2>3. m \in Run(board, p, d)
    BY <1>1, <2>1, SeenIsRun DEF Between
  <2>4. e \in Run(board, p, d) /\ e \in 1..N-1 /\ m <= e
    BY <2>3, FixedEndLast
  <2>5. k \in Run(board, p, d)
    <3>1. k \in 1..m
      BY <2>1, <2>2, RulesAssumption
    <3> QED
      BY <2>3, <3>1, RunHasNoGap
  <2>6. CASE m < e
    <3> DEFINE r == Along(p, d, e)
    <3>1. e \in Nat \ {0}
      BY <2>4, RulesAssumption
    <3>2. Straight(p, r) /\ Toward(p, r) = d /\ Steps(p, r) = e
      BY <2>2, <3>1, AlongIsStraight
    <3>3. r \in Cell
      BY <2>4, RunCells
    <3> HIDE DEF r
    <3>4. r \in Seen(board, p)
      BY <2>4, <3>2, <3>3, SeenIsRun
    <3>5. Behind(p, f, r)
      BY <2>1, <2>6, <3>2 DEF Behind
    <3> QED
      BY <1>1, <3>4, <3>5 DEF Between
  <2>7. CASE m = e
    BY <2>1, <2>2, <2>5, <2>7, RulesAssumption
  <2>8. m < e \/ m = e
    BY <2>2, <2>4, RulesAssumption
  <2> QED
    BY <2>6, <2>7, <2>8
<1>2. ASSUME Straight(p, q), k \in Run(board, p, d) \ {e}, f = Along(p, d, e)
      PROVE  Between(board, p, q, f)
  <2>1. e \in Run(board, p, d) /\ e \in 1..N-1 /\ k \in 1..N-1 /\ k <= e
    BY <1>2, FixedEndLast
  <2>2. k < e /\ e \in Nat \ {0}
    BY <1>2, <2>1, RulesAssumption
  <2>3. d \in Direction
    BY <1>2, StraightIsAlong
  <2>4. Straight(p, f) /\ Toward(p, f) = d /\ Steps(p, f) = e
    BY <1>2, <2>2, <2>3, AlongIsStraight
  <2>5. f \in Seen(board, p)
    BY <2>1, <2>4, SeenIsRun
  <2>6. Behind(p, q, f)
    BY <1>2, <2>2, <2>4 DEF Behind
  <2>7. ASSUME NEW r \in Seen(board, p), Behind(p, f, r)
        PROVE  FALSE
    <3>1. r \in Cell /\ Toward(p, r) = d /\ e < Steps(p, r)
      BY <2>4, <2>7 DEF Behind, Seen, Pieces
    <3>2. Steps(p, r) \in Run(board, p, d)
      BY <3>1, SeenIsRun
    <3>3. Steps(p, r) <= e /\ Steps(p, r) \in 1..N-1
      BY <3>2, FixedEndLast
    <3> QED
      BY <2>1, <3>1, <3>3, RulesAssumption
  <2> QED
    BY <2>5, <2>6, <2>7 DEF Between
<1> QED
  BY <1>1, <1>2

\* A piece that is between p and the last one in sight has a change, with the
\* mean of the three colours.
LEMMA BetweenIsChanged ==
    ASSUME NEW board, NEW p \in Cell, NEW color, NEW q \in Cell, NEW f \in Cell,
           Between(board, p, q, f)
    PROVE  \E c \in Changes(board, p, color) :
              c.cell = q /\ c.color = Mean(color, board[f], board[q])
<1> DEFINE d == Toward(p, q)
           k == Steps(p, q)
           e == FixedEnd(board, p, d)
<1>1. Straight(p, q) /\ k \in Run(board, p, d) \ {e} /\ f = Along(p, d, e)
  BY BetweenIsTarget
<1>2. d \in Direction /\ q = Along(p, d, k)
  BY <1>1, StraightIsAlong
<1>3. e \in Run(board, p, d) /\ e \in 1..N-1 /\ k \in 1..N-1 /\ k <= e
  BY <1>1, FixedEndLast
<1>4. PICK i \in 1..8 : Directions[i] = d
  BY <1>2, DirectionsAre DEF Direction
<1>5. 2 \in 1..e
  BY <1>1, <1>3, RulesAssumption
<1>6. d \in Flanks(board, p)
  BY <1>2, <1>3, <1>5, RunHasNoGap DEF Flanks
<1>7. q \in Targets(board, p, d)
  BY <1>1, <1>2 DEF Targets
<1> HIDE DEF d, k
<1>8. Change(board, p, color, i, q) \in Changes(board, p, color)
  BY <1>4, <1>6, <1>7, ChangesAre
<1> QED
  BY <1>1, <1>4, <1>8 DEF Change

\* And a change is of such a piece.
LEMMA ChangedIsBetween ==
    ASSUME NEW board, NEW p \in Cell, NEW color, NEW c \in Changes(board, p, color)
    PROVE  \E f \in Cell : Between(board, p, c.cell, f)
<1>1. PICK i \in 1..8 : \E q \in Targets(board, p, Directions[i]) :
                            Directions[i] \in Flanks(board, p) /\ c = Change(board, p, color, i, q)
  BY ChangesAre
<1> DEFINE d == Directions[i]
           e == FixedEnd(board, p, d)
           f == Along(p, d, e)
<1>2. PICK q \in Targets(board, p, d) : c = Change(board, p, color, i, q)
  BY <1>1
<1>3. PICK k \in Run(board, p, d) \ {e} : q = Along(p, d, k)
  BY DEF Targets
<1>4. d \in Direction
  BY DirectionsAre DEF Direction
<1>5. e \in Run(board, p, d) /\ k \in 1..N-1
  BY FixedEndLast
<1>6. k \in Nat \ {0}
  BY <1>5, RulesAssumption
<1>7. q \in Cell /\ f \in Cell
  BY <1>3, <1>5, RunCells
<1>8. Straight(p, q) /\ Toward(p, q) = d /\ Steps(p, q) = k
  BY <1>3, <1>4, <1>6, AlongIsStraight
<1>9. c.cell = q
  BY <1>2 DEF Change
<1> HIDE DEF d
<1>10. Between(board, p, q, f)
  BY <1>3, <1>7, <1>8, BetweenIsTarget
<1> QED
  BY <1>7, <1>9, <1>10

\* A cell from which a line is flanked has a piece between.
LEMMA FlanksBetween ==
    ASSUME NEW board, NEW p \in Cell, Flanks(board, p) # {}
    PROVE  \E q, f \in Cell : Between(board, p, q, f)
<1>1. PICK d \in Direction : 2 \in Run(board, p, d)
  BY DEF Flanks
<1> DEFINE e == FixedEnd(board, p, d)
           q == Along(p, d, 1)
           f == Along(p, d, e)
<1>2. 1 \in Run(board, p, d)
  BY <1>1, RunHasNoGap
<1>3. e \in Run(board, p, d) /\ e \in 1..N-1 /\ 2 <= e
  BY <1>1, FixedEndLast
<1>4. q \in Cell /\ f \in Cell
  BY <1>2, <1>3, RunCells
<1>5. Straight(p, q) /\ Toward(p, q) = d /\ Steps(p, q) = 1
  BY AlongIsStraight
<1>6. 1 \in Run(board, p, d) \ {e}
  BY <1>2, <1>3, RulesAssumption
<1> HIDE DEF q
<1>7. Between(board, p, q, f)
  BY <1>4, <1>5, <1>6, BetweenIsTarget
<1> QED
  BY <1>4, <1>7

\* On a board of any size and in any position, also in one that no game
\* reaches, a move recolours all its lines at once: the loops over the
\* directions and their cells come to what the contract says of the board as
\* a whole, and list every piece they recolour once.
THEOREM MovesGoAtOnce == [][Next]_vars => MovesAtOnce
<1>1. ASSUME [Next]_vars
      PROVE  [AtOnce]_vars
  <2>1. ASSUME NEW cmd \in Command(state), Submit(cmd), state'.board # state.board
        PROVE  AtOnce
    <3> DEFINE p       == cmd.cell
               board   == state.board
               color   == state.nextColor
               changes == Changes(board, p, color)
    <3>1. state' = ApplyPlace(state, p) /\ PlaceVerdict(state, p) = "ok"
      BY <2>1 DEF Submit, Evaluate, Verdict, ApplyPass, NextTurn
    <3>2. state'.board = Recolor(board, p, color)
      BY <3>1 DEF ApplyPlace, NextTurn
    <3>3. p \in Cell /\ board[p] = Empty /\ Flanks(board, p) # {}
      BY <3>1 DEF PlaceVerdict
    <3> HIDE DEF p, board, color
    <3>4. state'.board[p] = color
      BY <3>2, <3>3, RecolorIs
    <3>5. \E q, f \in Cell : Between(board, p, q, f)
      BY <3>3, FlanksBetween
    <3>6. ASSUME NEW q \in Cell \ {p}
          PROVE  LET told == {c \in changes : c.cell = q}
                 IN  \/ \E f \in Cell :
                           /\ Between(board, p, q, f)
                           /\ state'.board[q] = (color + board[f] + board[q]) \div 3
                           /\ \E c \in told : told = {c} /\ c.color = state'.board[q]
                     \/ /\ \A f \in Cell : ~Between(board, p, q, f)
                        /\ state'.board[q] = board[q]
                        /\ told = {}
      <4> DEFINE told == {c \in changes : c.cell = q}
      <4>1. ASSUME NEW f \in Cell, Between(board, p, q, f)
            PROVE  /\ state'.board[q] = (color + board[f] + board[q]) \div 3
                   /\ \E c \in told : told = {c} /\ c.color = state'.board[q]
        <5>1. PICK c \in changes : c.cell = q /\ c.color = Mean(color, board[f], board[q])
          BY <3>3, <4>1, BetweenIsChanged
        <5>2. ASSUME NEW b \in changes, b.cell = q
              PROVE  b = c
          BY <3>3, <5>1, <5>2, ChangesOnce
        <5>3. state'.board[q] = c.color
          BY <3>2, <3>3, <5>1, <5>2, RecolorIs
        <5>4. told = {c}
          BY <5>1, <5>2
        <5> HIDE DEF told
        <5> QED
          BY <5>1, <5>3, <5>4 DEF Mean
      <4>2. ASSUME \A f \in Cell : ~Between(board, p, q, f)
            PROVE  state'.board[q] = board[q] /\ told = {}
        <5>1. ASSUME NEW c \in changes
              PROVE  c.cell # q
          BY <3>3, <4>2, ChangedIsBetween
        <5> QED
          BY <3>2, <3>3, <5>1, RecolorIs
      <4> QED
        BY <4>1, <4>2
    <3> QED
      BY <3>3, <3>4, <3>5, <3>6 DEF AtOnce, p, board, color
  <2>2. ASSUME state'.board = state.board
        PROVE  AtOnce
    BY <2>2 DEF AtOnce
  <2> QED
    BY <1>1, <2>1, <2>2 DEF Next
<1> QED
  BY <1>1, PTL DEF MovesAtOnce

-----------------------------------------------------------------------------
\* Steps of a game.

\* A pass is accepted only without a legal move, leaves the board alone and
\* ends the game when it is the second in a row: in every game, also one that
\* goes on from a state of which nothing is known.
THEOREM SecondPassEnds == [][Next]_vars => PassesEndGame
<1>1. ASSUME [Next]_vars
      PROVE  [PassStep]_vars
  <2>1. ASSUME NEW cmd \in Command(state), Submit(cmd), state' # state
        PROVE  PassStep
    <3>1. Verdict(state, cmd) = "ok"
      BY <2>1 DEF Submit, Evaluate
    <3>2. state \in State
      BY <3>1 DEF Verdict, StateValid
    <3>3. CASE cmd.type = "place"
      <4>1. state'.consecutivePasses = 0
        BY <2>1, <3>1, <3>3 DEF Submit, Evaluate, ApplyPlace, NextTurn
      <4> QED
        BY <3>2, <4>1 DEF State, PassStep
    <3>4. CASE cmd.type # "place"
      <4>1. LegalMoves(state.board) = {}
        BY <3>1, <3>4 DEF Verdict, PassVerdict
      <4>2. state' = ApplyPass(state)
        BY <2>1, <3>1, <3>4 DEF Submit, Evaluate
      <4> QED
        BY <4>1, <4>2 DEF ApplyPass, NextTurn, PassStep
    <3> QED
      BY <3>3, <3>4
  <2>2. ASSUME NEW cmd \in Command(state), Submit(cmd), state' = state
        PROVE  UNCHANGED vars
    BY <2>2 DEF Submit, vars
  <2> QED
    BY <1>1, <2>1, <2>2 DEF Next
<1> QED
  BY <1>1, PTL DEF PassesEndGame

\* On a board of any size the rules implement the turn-taking game of
\* N * N - 4 turns, the one the match server relies on.
THEOREM RulesPlayTurns == Spec => TurnSpec
<1> DEFINE game == [turn   |-> state.turnNumber,
                    player |-> state.currentPlayer,
                    phase  |-> state.phase]
<1>1. Init => Turns!Init
  BY DEF Init, NewGame, Turns!Init, Turns!NewGame
<1>2. ASSUME Inductive, Inductive', [Next]_vars
      PROVE  [Turns!Next]_game
  <2>1. CASE UNCHANGED vars
    BY <2>1 DEF vars
  <2>2. ASSUME NEW cmd \in Command(state), Submit(cmd)
        PROVE  Turns!Next \/ UNCHANGED game
    <3>1. CASE Verdict(state, cmd) # "ok"
      BY <2>2, <3>1 DEF Submit, Evaluate
    <3>2. CASE Verdict(state, cmd) = "ok"
      <4>1. state.phase = "playing" /\ cmd.type = "place"
        BY <1>2, <3>2, AcceptedIsPlace
      <4>2. state' = ApplyPlace(state, cmd.cell)
        BY <2>2, <3>2, <4>1 DEF Submit, Evaluate
      <4>3. /\ state'.turnNumber = state.turnNumber + 1
            /\ state'.currentPlayer = Opponent(state.currentPlayer)
        BY <4>2 DEF ApplyPlace, NextTurn
      <4>4. state'.phase = IF state.turnNumber + 1 = N * N - 4 THEN "finished" ELSE "playing"
        <5>1. Full(state'.board) <=> state'.turnNumber + 4 = N * N
          BY <1>2, PiecesCount DEF Inductive, TurnsArePieces
        <5>2. state'.phase \in {"playing", "finished"}
          BY <1>2 DEF Inductive, TypeOK, State
        <5>3. (state'.phase = "finished") <=> Full(state'.board)
          BY <1>2 DEF Inductive, TurnsArePieces
        <5>4. state.turnNumber \in Nat /\ N * N \in Nat
          BY <1>2, RulesAssumption DEF Inductive, TypeOK, State
        <5>5. (state'.turnNumber + 4 = N * N) <=> (state.turnNumber + 1 = N * N - 4)
          BY <4>3, <5>4
        <5> QED
          BY <5>1, <5>2, <5>3, <5>5
      <4> QED
        BY <4>1, <4>3, <4>4 DEF Turns!Next, Turns!Advance, Turns!Opponent, Opponent
    <3> QED
      BY <3>1, <3>2
  <2> QED
    BY <1>2, <2>1, <2>2 DEF Next
<1> QED
  BY <1>1, <1>2, GameInvariant, PTL DEF Spec, TurnSpec, Turns!Spec

-----------------------------------------------------------------------------
\* Games from any valid state.

\* The states that a game from a valid state reaches.
Judged == state.phase = "finished" \/ StateValid(state)

\* What an accepted command leads to: one more piece or, on the same board, one
\* more pass.
LEMMA AcceptedIsNearer ==
    ASSUME NEW cmd, Verdict(state, cmd) = "ok", state' = Evaluate(state, cmd)
    PROVE  Nearer /\ Judged'
<1>1. state \in State /\ state.phase = "playing" /\ state.winner = "none"
  <2>1. StateValid(state) /\ state.phase # "finished"
    BY DEF Verdict
  <2> QED
    BY <2>1 DEF StateValid, State
<1>2. state.board \in Board /\ state.nextColor \in Color /\ state.turnNumber \in Nat
      /\ state.rngState \in 0..(LcgM - 1) /\ state.currentPlayer \in Side
      /\ state.consecutivePasses \in 0..2
  BY <1>1 DEF State
<1>3. Lcg(state.rngState) \in 0..(LcgM - 1) /\ ColorOf(Lcg(state.rngState)) \in Color
  BY <1>2, DrawType
<1>4. ASSUME NEW board \in Board, NEW passes \in Nat, NEW over \in BOOLEAN,
             over \/ passes <= 2, state' = NextTurn(state, board, passes, over)
      PROVE  Judged' /\ state'.board = board /\ state'.consecutivePasses = passes
  <2>1. LegalMoves(board) \in SUBSET Cell /\ Opponent(state.currentPlayer) \in Side
    BY DEF LegalMoves, Opponent, Side
  <2>2. CASE over
    BY <1>4, <2>2 DEF NextTurn, Judged
  <2>3. CASE ~over
    <3>1. state' \in State
      BY <1>1, <1>2, <1>3, <1>4, <2>1, <2>3 DEF NextTurn, State
    <3>2. state'.phase = "playing" /\ state'.winner = "none"
      BY <1>1, <1>4, <2>3 DEF NextTurn
    <3> QED
      BY <1>4, <3>1, <3>2 DEF NextTurn, Judged, StateValid
  <2> QED
    BY <2>2, <2>3
<1>5. CASE cmd.type = "place"
  <2> DEFINE board == Recolor(state.board, cmd.cell, state.nextColor)
  <2>1. cmd.cell \in Cell /\ state.board[cmd.cell] = Empty
    BY <1>5 DEF Verdict, PlaceVerdict
  <2>2. board \in Board /\ \A q \in Cell : board[q] # Empty <=> q = cmd.cell \/ state.board[q] # Empty
    BY <1>2, <2>1, RecolorType
  <2>3. state' = NextTurn(state, board, 0, Full(board))
    BY <1>5 DEF Evaluate, ApplyPlace
  <2> HIDE DEF board
  <2>4. Full(board) \in BOOLEAN
    BY DEF Full
  <2>5. Judged' /\ state'.board = board
    BY <1>4, <2>2, <2>3, <2>4
  <2>6. Pieces(state.board) \subseteq Pieces(board) /\ cmd.cell \in Pieces(board) \ Pieces(state.board)
    BY <2>1, <2>2 DEF Pieces
  <2> QED
    BY <2>5, <2>6 DEF Nearer
<1>6. CASE cmd.type # "place"
  <2> DEFINE passes == state.consecutivePasses + 1
             over   == passes >= 2
  <2>1. state' = NextTurn(state, state.board, passes, over)
    BY <1>6 DEF Evaluate, ApplyPass
  <2>2. passes \in Nat /\ over \in BOOLEAN /\ (over \/ passes <= 2)
    BY <1>2
  <2> HIDE DEF passes, over
  <2>3. Judged' /\ state'.board = state.board /\ state'.consecutivePasses = passes
    BY <1>2, <1>4, <2>1, <2>2
  <2> USE DEF passes
  <2> QED
    BY <1>2, <2>3 DEF Nearer
<1> QED
  BY <1>5, <1>6

\* The side to move may place a piece on a legal cell, or pass if there is none.
LEMMA SomethingIsAccepted ==
    ASSUME 0 \in Lag, StateValid(state), state.phase = "playing"
    PROVE  \E cmd \in Command(state) : Verdict(state, cmd) = "ok"
<1>1. state.turnNumber \in Nat /\ state.currentPlayer \in Side
  BY DEF StateValid, State
<1>2. state.turnNumber \in {state.turnNumber + k : k \in Lag}
  BY <1>1
<1>3. CASE LegalMoves(state.board) = {}
  <2> DEFINE cmd == [type |-> "pass", player |-> state.currentPlayer, expectedTurn |-> state.turnNumber]
  <2>1. cmd \in Command(state)
    BY <1>1, <1>2 DEF Command
  <2>2. Verdict(state, cmd) = "ok"
    BY <1>1, <1>3 DEF Verdict, WellFormed, PassVerdict
  <2> QED
    BY <2>1, <2>2
<1>4. CASE LegalMoves(state.board) # {}
  <2>1. PICK p \in LegalMoves(state.board) : TRUE
    BY <1>4
  <2>2. p \in Cell /\ state.board[p] = Empty /\ Flanks(state.board, p) # {}
    BY <2>1 DEF LegalMoves
  <2>3. p \in ((-1)..N) \X ((-1)..N)
    BY <2>2, RulesAssumption DEF Cell
  <2> DEFINE cmd == [type |-> "place", player |-> state.currentPlayer,
                     expectedTurn |-> state.turnNumber, cell |-> p]
  <2>4. cmd \in Command(state)
    BY <1>1, <1>2, <2>3 DEF Command
  <2>5. Verdict(state, cmd) = "ok"
    BY <1>1, <2>2 DEF Verdict, WellFormed, PlaceVerdict
  <2> QED
    BY <2>4, <2>5
<1> QED
  BY <1>3, <1>4

\* From any state that the rules accept, whatever its board, players and
\* passes: while the game is on, the side to move has a command that is
\* accepted, and every accepted one fills a cell or counts a pass, so that the
\* game cannot go round in circles.
THEOREM GamesComeToAnEnd ==
    ASSUME 0 \in Lag
    PROVE  StateValid(state) /\ [][Next]_vars => TowardsEnd
<1> DEFINE HasCommand == \E cmd \in Command(state) : Verdict(state, cmd) = "ok"
<1>1. StateValid(state) => Judged
  BY DEF Judged
<1>2. ASSUME Judged, [Next]_vars
      PROVE  Judged' /\ [Nearer]_vars
  <2>1. CASE UNCHANGED vars
    BY <1>2, <2>1 DEF vars, Judged
  <2>2. ASSUME NEW cmd \in Command(state), Submit(cmd)
        PROVE  Judged' /\ [Nearer]_vars
    <3>1. CASE Verdict(state, cmd) = "ok"
      BY <2>2, <3>1, AcceptedIsNearer DEF Submit
    <3>2. CASE Verdict(state, cmd) # "ok"
      BY <1>2, <2>2, <3>2 DEF Submit, Evaluate, vars, Judged
    <3> QED
      BY <3>1, <3>2
  <2> QED
    BY <1>2, <2>1, <2>2 DEF Next
<1>3. Judged => (state.phase = "playing" => HasCommand)
  BY SomethingIsAccepted DEF Judged
<1> HIDE DEF HasCommand
<1>4. StateValid(state) /\ [][Next]_vars => [](state.phase = "playing" => HasCommand) /\ [][Nearer]_vars
  BY <1>1, <1>2, <1>3, PTL
<1> QED
  BY <1>4 DEF TowardsEnd, HasCommand

-----------------------------------------------------------------------------
\* The colours of a game.

\* The generator after so many draws, for every seed: the function that
\* LcgAfter defines by recursion exists, on any initial segment of Nat.
Drawn(g, k) ==
    g = [n \in 0..k |-> IF n = 0 THEN [s \in Seeds |-> Lcg(s)]
                        ELSE [s \in Seeds |-> Lcg(g[n-1][s])]]

\* The function that LcgAfter defines by recursion exists.
LEMMA DrawsExist ==
    ASSUME NEW K \in Nat
    PROVE  \E g : Drawn(g, K)
<1> DEFINE S == {k \in Nat : ~ \E g : Drawn(g, k)}
<1>1. SUFFICES ASSUME S # {} PROVE FALSE
  OBVIOUS
<1>2. PICK m \in S : \A k \in S : m <= k
  BY <1>1, NatMin
<1>3. m # 0
  <2> DEFINE g == [n \in 0..0 |-> [s \in Seeds |-> Lcg(s)]]
  <2>1. Drawn(g, 0)
    BY DEF Drawn
  <2> HIDE DEF g
  <2> QED
    BY <2>1
<1>4. m - 1 \in Nat /\ m - 1 \notin S
  BY <1>2, <1>3
<1>5. PICK h : Drawn(h, m - 1)
  BY <1>4
<1> DEFINE g == [n \in 0..m |-> IF n = m THEN [s \in Seeds |-> Lcg(h[m-1][s])] ELSE h[n]]
<1>6. \A n \in 0..m-1 : g[n] = h[n]
  BY <1>4
<1>7. ASSUME NEW n \in 0..m
      PROVE  g[n] = IF n = 0 THEN [s \in Seeds |-> Lcg(s)] ELSE [s \in Seeds |-> Lcg(g[n-1][s])]
  <2>1. CASE n = m
    <3>1. g[n] = [s \in Seeds |-> Lcg(h[m-1][s])] /\ g[n - 1] = h[m - 1]
      BY <1>4, <1>6, <2>1
    <3> HIDE DEF g
    <3> QED
      BY <1>3, <2>1, <3>1
  <2>2. CASE n # m
    <3>1. n \in 0..m-1 /\ g[n] = h[n] /\ (n # 0 => n - 1 \in 0..m-1 /\ g[n - 1] = h[n - 1])
      BY <1>4, <1>6, <2>2
    <3>2. h[n] = IF n = 0 THEN [s \in Seeds |-> Lcg(s)] ELSE [s \in Seeds |-> Lcg(h[n-1][s])]
      BY <1>5, <3>1 DEF Drawn
    <3> HIDE DEF g
    <3> QED
      BY <3>1, <3>2
  <2> QED
    BY <2>1, <2>2
<1>8. Drawn(g, m)
  <2>1. g = [n \in 0..m |-> g[n]]
    OBVIOUS
  <2> HIDE DEF g
  <2> QED
    BY <1>7, <2>1 DEF Drawn
<1> HIDE DEF g
<1> QED
  BY <1>2, <1>8

\* What it says of the numbers drawn.
LEMMA DrawsAre ==
    /\ \A s \in Seeds : LcgAfter[0][s] = Lcg(s)
    /\ \A n \in 0..(N * N) : n # 0 => \A s \in Seeds : LcgAfter[n][s] = Lcg(LcgAfter[n-1][s])
<1>1. N * N \in Nat
  BY RulesAssumption
<1>2. \E g : Drawn(g, N * N)
  BY <1>1, DrawsExist
<1>3. LcgAfter = CHOOSE g : Drawn(g, N * N)
  BY DEF LcgAfter, Drawn
<1>4. Drawn(LcgAfter, N * N)
  BY <1>2, <1>3
<1> QED
  BY <1>1, <1>4 DEF Drawn

\* On a board of any size and with any generator, the colour of a turn is the
\* one that so many draws from the seed give, whatever commands were accepted
\* and rejected on the way.
THEOREM ColorsAreDrawn == Spec => []ColorsFollowSeed
<1>1. ASSUME Init
      PROVE  ColorsFollowSeed
  <2>1. seed \in Seeds /\ state = NewGame(seed)
    BY <1>1 DEF Init
  <2> QED
    BY <2>1, DrawsAre DEF ColorsFollowSeed, NewGame
<1>2. ASSUME Inductive, Inductive', ColorsFollowSeed, [Next]_vars
      PROVE  ColorsFollowSeed'
  <2>1. CASE UNCHANGED vars
    BY <1>2, <2>1 DEF vars, ColorsFollowSeed
  <2>2. ASSUME NEW cmd \in Command(state), Submit(cmd)
        PROVE  ColorsFollowSeed'
    <3>1. CASE Verdict(state, cmd) # "ok"
      BY <1>2, <2>2, <3>1 DEF Submit, Evaluate, ColorsFollowSeed
    <3>2. CASE Verdict(state, cmd) = "ok"
      <4>1. state' = ApplyPlace(state, cmd.cell) /\ seed' = seed
        BY <1>2, <2>2, <3>2, AcceptedIsPlace DEF Submit, Evaluate
      <4>2. /\ state'.turnNumber = state.turnNumber + 1
            /\ state'.rngState = Lcg(state.rngState)
            /\ state'.nextColor = ColorOf(state'.rngState)
        BY <4>1 DEF ApplyPlace, NextTurn
      <4>3. seed \in Seeds /\ state.turnNumber \in Nat /\ N * N \in Nat
        BY <1>2, RulesAssumption DEF Inductive, TypeOK, State
      <4>4. state'.turnNumber + 4 <= N * N
        BY <1>2, PiecesCount DEF Inductive, TurnsArePieces
      <4>5. state'.turnNumber \in 0..(N * N) /\ state'.turnNumber # 0
            /\ state'.turnNumber - 1 = state.turnNumber
        BY <4>2, <4>3, <4>4
      <4>6. LcgAfter[state'.turnNumber][seed] = Lcg(LcgAfter[state.turnNumber][seed])
        BY <4>3, <4>5, DrawsAre
      <4> QED
        BY <1>2, <4>1, <4>2, <4>6 DEF ColorsFollowSeed
    <3> QED
      BY <3>1, <3>2
  <2> QED
    BY <1>2, <2>1, <2>2 DEF Next
<1> QED
  BY <1>1, <1>2, GameInvariant, PTL DEF Spec
=============================================================================
