-------------------------- MODULE Terminal_proofs --------------------------
(***************************************************************************)
(* TLAPS proofs about the terminal: for every size of the screen, every set *)
(* of lines that the user may type and every interleaving of the shell with *)
(* the tasks that print, no store misses the screen, the screen shows the   *)
(* line, clear wipes what was printed, and spawn acts on the line it got.   *)
(***************************************************************************)
EXTENDS Terminal, NaturalsInduction, WellFoundedInduction, SequenceTheorems, TLAPS

-----------------------------------------------------------------------------
(* The inductive invariant                                                 *)

Key == Letter \cup {Blank}
Symbol == Key \cup {Text, Boot, Clock}

Screen == [row : Int, col : Int, cells : [Cell -> Symbol], stray : BOOLEAN]

\* Every store hit the screen.  The cursor is on it, or left of a row that is
\* not the first, so that the cell before the row takes the next character.
Sound(v) ==
    /\ v \in Screen /\ ~v.stray
    /\ v.row \in 0..(Rows - 1)
    /\ v.col \in -1..(Cols - 1)
    /\ v.col = -1 => v.row > 0

Position(v) == v.row * Cols + v.col

\* The places in removeChar before and after the cursor moves.
Before == {"remove", "below", "top", "left", "left_store", "up", "up_store"}
Moved == {"erase_row", "erase_col", "erase"}
Removing == Before \cup {"last_col"} \cup Moved \cup {"removed"}

Place == {"poll", "dispatch", "print", "cleared"} \cup Removing

TypeInv ==
    /\ pc \in Place
    /\ tmp \in Int
    /\ linebuf \in Seq(Key) /\ Len(linebuf) <= LineMax
    /\ out \in Seq(Seq({Text, NL}))
    /\ erasures \in Nat
    /\ at \in Nat /\ at >= ClockCol
    /\ mixed \in BOOLEAN /\ torn \in BOOLEAN

\* What removeChar has tested and loaded still bounds what it will store,
\* whatever was printed meanwhile: printing never goes up a row.
BoundInv ==
    /\ Sound(vga)
    /\ pc \in {"below", "up"} => vga.row > 0
    /\ pc \in {"up", "up_store"} => vga.col >= 0
    /\ pc = "up_store" => tmp \in 1..(Rows - 1)
    /\ pc = "left" => vga.col >= 0 /\ (vga.col = 0 => vga.row > 0)
    /\ pc = "left_store" => tmp \in 0..(Cols - 1) /\ (tmp = 0 => vga.row > 0)
    /\ pc = "erase_col" =>
        \E r \in 0..(Rows - 1) : tmp = r * Cols /\ (vga.col = -1 => r > 0)
    /\ pc = "erase" => tmp \in Cell

\* Nobody has printed inside of the call of removeChar at hand.
Steady == ~mixed \/ ~torn

\* Then what it has tested and loaded is what the cursor still is.
SteadyInv ==
    Steady =>
        /\ vga.col >= 0
        /\ pc = "top" => vga.col # 0 \/ vga.row = 0
        /\ pc = "left" => vga.col > 0
        /\ pc = "left_store" => tmp = vga.col /\ vga.col > 0
        /\ pc = "up" => vga.col = 0
        /\ pc = "up_store" => tmp = vga.row /\ vga.row > 0 /\ vga.col = 0
        /\ pc = "erase_col" => tmp = vga.row * Cols
        /\ pc = "erase" => tmp = Position(vga)

\* A string that ends a line.
EndsLine(s) == s # <<>> /\ s[Len(s)] = NL

\* A command leaves the cursor at the start of a row.
RowStartInv ==
    /\ pc = "dispatch" => vga.col = 0
    /\ pc = "print" /\ out = <<>> => vga.col = 0
    /\ pc = "print" /\ out # <<>> => EndsLine(out[Len(out)])

\* Where the cursor will be at the end of the call of removeChar at hand.
Landing ==
    IF pc \in Before THEN IF Position(vga) = 0 THEN 0 ELSE Position(vga) - 1
    ELSE IF pc = "last_col" THEN vga.row * Cols + Cols - 1
    ELSE Position(vga)

\* On v, the line begins in the first column of a row and ends before cell p.
Shows(v, p, line) ==
    /\ \E r \in 0..(Rows - 1) : p = r * Cols + Len(line)
    /\ \A i \in 1..Len(line) :
          \/ p - Len(line) + i - 1 \in ClockCells
          \/ v.cells[p - Len(line) + i - 1] = line[i]

\* The line on the screen while it is edited, and the progress of clear.
LineInv ==
    /\ pc \notin Removing => erasures = 0
    /\ ~mixed =>
        /\ pc = "poll" \/ (pc \in Removing /\ erasures = 0) =>
              Shows(vga, Landing, linebuf)
        /\ pc \in Removing /\ erasures > 0 => Landing <= erasures - 1
        /\ pc = "cleared" => Position(vga) = 0

\* From cell p on, nothing is on v that the shell or a task printed.
CleanFrom(v, p) == \A i \in Cell : i >= p => v.cells[i] \notin Letter \cup {Text}

\* The first cell behind all that was printed.
Edge ==
    IF pc = "last_col" THEN vga.row * Cols + Cols
    ELSE IF pc \in Moved THEN Position(vga) + 1
    ELSE Position(vga)

CleanInv == ~torn => CleanFrom(vga, Edge)

IndInv == TypeInv /\ BoundInv /\ SteadyInv /\ RowStartInv /\ LineInv /\ CleanInv

-----------------------------------------------------------------------------
(* Cells, rows and columns                                                 *)

LEMMA Sizes ==
    /\ Rows \in Nat /\ Rows >= 3 /\ Cols \in Nat /\ Cols >= 2
    /\ LineMax \in Nat /\ LineMax <= 2 * Cols - 1
    /\ ClockCol \in Nat /\ ClockCol >= 1 /\ ClockCol <= Cols - 1
    /\ ClockLen \in Nat
BY TerminalAssumption

\* Rows follow one another without a gap.
LEMMA RowBase ==
    /\ \A r \in Int : /\ r * Cols \in Int
                      /\ (r + 1) * Cols = r * Cols + Cols
                      /\ (r - 1) * Cols = r * Cols - Cols
    /\ \A r, q \in Int : r < q => r * Cols + Cols <= q * Cols
    /\ 0 * Cols = 0 /\ 1 * Cols = Cols
    /\ Rows * Cols \in Int /\ Rows * Cols >= 3 * Cols
<1> USE Sizes
<1>1. \A r \in Int : /\ r * Cols \in Int
                     /\ (r + 1) * Cols = r * Cols + Cols
                     /\ (r - 1) * Cols = r * Cols - Cols
  OBVIOUS
<1>2. ASSUME NEW r \in Int, NEW q \in Int, r < q
      PROVE  r * Cols + Cols <= q * Cols
  <2>1. q = (r + 1) + (q - r - 1) /\ q - r - 1 \in Nat
    BY <1>2
  <2>2. (q - r - 1) * Cols >= 0
    BY <2>1
  <2>3. q * Cols = (r + 1) * Cols + (q - r - 1) * Cols
    OBVIOUS
  <2> QED
    BY <1>1, <2>2, <2>3
<1>3. 0 * Cols = 0 /\ 1 * Cols = Cols
  OBVIOUS
<1>4. Rows * Cols \in Int /\ Rows * Cols >= 3 * Cols
  OBVIOUS
<1> QED
  BY <1>1, <1>2, <1>3, <1>4

\* The first cell of row r, as a number that only RowBase speaks of.
Base(r) == r * Cols

LEMMA Bases ==
    /\ \A r \in Int : /\ Base(r) \in Int
                      /\ Base(r + 1) = Base(r) + Cols
                      /\ Base(r - 1) = Base(r) - Cols
    /\ \A r, q \in Int : r < q => Base(r) + Cols <= Base(q)
    /\ Base(0) = 0 /\ Base(1) = Cols
    /\ Base(Rows) \in Int /\ Base(Rows) >= 3 * Cols
BY RowBase DEF Base

LEMMA Cells == \A i : i \in Cell <=> i \in Int /\ 0 <= i /\ i < Base(Rows)
<1>1. Base(Rows) \in Int /\ Cell = 0..(Base(Rows) - 1)
  BY RowBase DEF Base, Cell
<1> QED
  BY <1>1

LEMMA BaseIs ==
    ASSUME NEW r \in 0..(Rows - 1)
    PROVE  Base(r) \in Int /\ Base(r) >= 0 /\ r \in Int /\ r >= 0
<1>1. r \in Int /\ r >= 0
  BY Sizes
<1>2. CASE r = 0
  BY <1>1, <1>2, Bases
<1>3. CASE r > 0
  <2>1. Base(r) \in Int /\ Base(0) + Cols <= Base(r) /\ Base(0) = 0
    BY <1>1, <1>3, Bases
  <2> QED
    BY <1>1, <2>1, Sizes
<1> QED
  BY <1>1, <1>2, <1>3

\* The row and the column of a cell determine it.
LEMMA CellOf ==
    ASSUME NEW r \in 0..(Rows - 1), NEW c \in 0..(Cols - 1)
    PROVE  Base(r) + c \in Cell
<1>1. r < Rows /\ r \in Int /\ Rows \in Int
  BY Sizes
<1>2. Base(r) + Cols <= Base(Rows) /\ Base(r) \in Int
  BY <1>1, Bases
<1>3. Base(r) >= 0
  BY BaseIs
<1>4. c \in Int /\ 0 <= c /\ c < Cols
  BY Sizes
<1>5. Base(Rows) \in Int /\ Cols \in Int
  BY Bases, Sizes
<1>6. Base(r) + c \in Int /\ 0 <= Base(r) + c /\ Base(r) + c < Base(Rows)
  BY <1>2, <1>3, <1>4, <1>5
<1> QED
  BY <1>6, Cells

\* The last row, as makeSpace tests it.
LEMMA LastRow ==
    ASSUME NEW i \in Cell
    PROVE  i \div Cols = Rows - 1 <=> i >= Base(Rows) - Cols
<1>1. i \in Int /\ i >= 0 /\ i < Base(Rows)
  BY Cells
<1> DEFINE d == i \div Cols
<1>2. d \in Int /\ d * Cols <= i /\ i < d * Cols + Cols
  BY <1>1, Sizes
<1> HIDE DEF d
<1>3. Base(d) <= i /\ i < Base(d) + Cols
  BY <1>2 DEF Base
<1>4. Base(Rows - 1) = Base(Rows) - Cols
  BY Bases, Sizes
<1>5. CASE d < Rows - 1
  <2>1. Base(d) + Cols <= Base(Rows - 1)
    BY <1>2, <1>5, Bases, Sizes
  <2>2. d # Rows - 1 /\ ~(i >= Base(Rows) - Cols)
    BY <1>1, <1>2, <1>3, <1>4, <1>5, <2>1, Bases, Sizes
  <2> QED
    BY <2>2 DEF d
<1>6. CASE d = Rows - 1
  <2>1. i >= Base(Rows) - Cols
    BY <1>3, <1>4, <1>6
  <2> QED
    BY <1>6, <2>1 DEF d
<1>7. CASE d > Rows - 1
  <2>1. Base(Rows - 1) + Cols <= Base(d)
    BY <1>2, <1>7, Bases, Sizes
  <2> QED
    BY <1>1, <1>2, <1>3, <1>4, <2>1, Bases, Sizes
<1> QED
  BY <1>2, <1>5, <1>6, <1>7, Sizes

LEMMA RowStart ==
    ASSUME NEW r \in 0..(Rows - 1)
    PROVE  Base(r) % Cols = 0
<1> DEFINE d == Base(r) \div Cols
           m == Base(r) % Cols
<1>1. Base(r) \in Int /\ r \in Int /\ Cols \in Int /\ Cols > 0
  BY BaseIs, Sizes
<1>2. d \in Int /\ m \in Int /\ 0 <= m /\ m < Cols /\ Base(r) = d * Cols + m
  BY <1>1
<1> HIDE DEF d, m
<1>3. Base(r) = Base(d) + m /\ Base(d) \in Int
  BY <1>2, Bases DEF Base
<1>4. CASE d < r
  BY <1>1, <1>2, <1>3, <1>4, Bases
<1>5. CASE d = r
  <2>1. m = 0
    BY <1>1, <1>2, <1>3, <1>5
  <2> QED
    BY <2>1 DEF m
<1>6. CASE d > r
  BY <1>1, <1>2, <1>3, <1>6, Bases
<1> QED
  BY <1>1, <1>2, <1>4, <1>5, <1>6

-----------------------------------------------------------------------------
(* What mapToVGA does, case by case                                         *)

LEMMA Symbols ==
    /\ NL \notin Symbol /\ Blank \in Symbol /\ Text \in Symbol
    /\ Clock \in Symbol /\ Boot \in Symbol /\ Key \subseteq Symbol
    /\ \A s \in {Blank, Boot, Clock} : s \notin Letter \cup {Text}
BY LetterAssumption DEF Symbol, Key, NL, Blank, Text, Clock, Boot

\* A screen is known by its fields.
LEMMA ScreenIs ==
    ASSUME NEW v \in Screen
    PROVE  /\ v = [row |-> v.row, col |-> v.col, cells |-> v.cells, stray |-> v.stray]
           /\ v.row \in Int /\ v.col \in Int /\ v.cells \in [Cell -> Symbol]
           /\ v.stray \in BOOLEAN
BY DEF Screen

LEMMA SoundIs ==
    ASSUME NEW v, Sound(v)
    PROVE  /\ v \in Screen /\ ~v.stray /\ v.row \in Int /\ v.col \in Int
           /\ v.row >= 0 /\ v.row <= Rows - 1 /\ v.col <= Cols - 1
<1>1. v \in Screen /\ ~v.stray /\ v.row \in 0..(Rows - 1) /\ v.col \in -1..(Cols - 1)
  BY DEF Sound
<1>2. v.row \in Int /\ v.col \in Int
  BY <1>1, ScreenIs
<1>3. v.row >= 0 /\ v.row <= Rows - 1 /\ v.col <= Cols - 1
  BY <1>1, <1>2, Sizes
<1> QED
  BY <1>1, <1>2, <1>3

LEMMA NextRowIs ==
    ASSUME NEW v \in Screen, NEW u, u = [v EXCEPT !.col = 0, !.row = @ + 1]
    PROVE  u = [row |-> v.row + 1, col |-> 0, cells |-> v.cells, stray |-> v.stray]
BY DEF Screen

LEMMA PutIs ==
    ASSUME NEW v \in Screen, NEW i \in Cell, NEW s \in Symbol
    PROVE  /\ Put(v, i, s) = [row |-> v.row, col |-> v.col,
                              cells |-> [v.cells EXCEPT ![i] = s], stray |-> v.stray]
           /\ Put(v, i, s) \in Screen
<1>1. Put(v, i, s) = [v EXCEPT !.cells[i] = s]
  BY DEF Put
<1>2. [v.cells EXCEPT ![i] = s] \in [Cell -> Symbol]
  BY ScreenIs
<1> QED
  BY <1>1, <1>2, ScreenIs DEF Screen

\* Every row takes the contents of the next.
Scrolled(cells) ==
    [i \in Cell |-> IF i >= Base(Rows) - Cols THEN Blank ELSE cells[i + Cols]]

LEMMA ScrolledIs ==
    ASSUME NEW cells \in [Cell -> Symbol]
    PROVE  /\ Scrolled(cells) \in [Cell -> Symbol]
           /\ \A i \in Cell : i < Base(Rows) - Cols =>
                 i + Cols \in Cell /\ Scrolled(cells)[i] = cells[i + Cols]
           /\ \A i \in Cell : i >= Base(Rows) - Cols => Scrolled(cells)[i] = Blank
<1>0. Base(Rows) \in Int /\ Cols \in Nat
  BY Bases, Sizes
<1>1. ASSUME NEW i \in Cell, i < Base(Rows) - Cols
      PROVE  i + Cols \in Cell
  <2>1. i \in Int /\ 0 <= i
    BY Cells
  <2>2. i + Cols \in Int /\ 0 <= i + Cols /\ i + Cols < Base(Rows)
    BY <1>0, <1>1, <2>1
  <2> QED
    BY <2>2, Cells
<1>2. ASSUME NEW i \in Cell
      PROVE  i \in Int /\ (~(i >= Base(Rows) - Cols) => i < Base(Rows) - Cols)
                       /\ (i < Base(Rows) - Cols => ~(i >= Base(Rows) - Cols))
  BY <1>0, Cells
<1>3. ASSUME NEW i \in Cell
      PROVE  (IF i >= Base(Rows) - Cols THEN Blank ELSE cells[i + Cols]) \in Symbol
  BY <1>1, <1>2, Symbols
<1> QED
  BY <1>1, <1>2, <1>3 DEF Scrolled

LEMMA makeSpaceIs ==
    ASSUME NEW v \in Screen
    PROVE  /\ makeSpace(v) = [row |-> Rows - 1, col |-> 0,
                              cells |-> Scrolled(v.cells), stray |-> v.stray]
           /\ makeSpace(v) \in Screen
<1>1. [i \in Cell |-> IF i \div Cols = Rows - 1 THEN Blank ELSE v.cells[i + Cols]]
        = Scrolled(v.cells)
  BY LastRow DEF Scrolled
<1>2. Scrolled(v.cells) \in [Cell -> Symbol]
  BY ScreenIs, ScrolledIs
<1> HIDE DEF Scrolled
<1>3. makeSpace(v) = [v EXCEPT !.row = Rows - 1, !.col = 0, !.cells = Scrolled(v.cells)]
  BY <1>1 DEF makeSpace
<1>4. makeSpace(v) = [row |-> Rows - 1, col |-> 0,
                      cells |-> Scrolled(v.cells), stray |-> v.stray]
  BY <1>3, ScreenIs DEF Screen
<1>5. Rows - 1 \in Int /\ 0 \in Int /\ v.stray \in BOOLEAN
  BY ScreenIs, Sizes
<1> QED
  BY <1>2, <1>4, <1>5 DEF Screen

\* The cell where the next character goes.
LEMMA PositionIs ==
    ASSUME NEW v, Sound(v)
    PROVE  /\ Position(v) = Base(v.row) + v.col
           /\ Position(v) \in Cell
<1>0. v.row \in Int /\ v.col \in Int
  BY DEF Sound, Screen
<1>1. Position(v) = Base(v.row) + v.col
  BY DEF Position, Base
<1>2. CASE v.col >= 0
  <2>1. v.row \in 0..(Rows - 1) /\ v.col \in 0..(Cols - 1)
    BY <1>2, Sizes DEF Sound
  <2> QED
    BY <1>1, <2>1, CellOf
<1>3. CASE v.col = -1
  <2>1. v.row - 1 \in 0..(Rows - 1) /\ Cols - 1 \in 0..(Cols - 1)
    BY <1>0, <1>3, Sizes DEF Sound
  <2>2. Base(v.row - 1) = Base(v.row) - Cols /\ Base(v.row) \in Int
    BY <1>0, Bases
  <2>3. Base(v.row - 1) + (Cols - 1) \in Cell
    BY <2>1, CellOf
  <2>4. Base(v.row - 1) + (Cols - 1) = Base(v.row) + v.col
    BY <1>3, <2>2, Sizes
  <2> QED
    BY <1>1, <2>3, <2>4
<1> QED
  BY <1>0, <1>2, <1>3, Sizes DEF Sound

\* The end of a line.
LEMMA MapNewline ==
    ASSUME NEW v, Sound(v)
    PROVE  mapToVGA(v, NL) =
             IF v.row = Rows - 1
             THEN [row |-> Rows - 1, col |-> 0, cells |-> Scrolled(v.cells), stray |-> v.stray]
             ELSE [row |-> v.row + 1, col |-> 0, cells |-> v.cells, stray |-> v.stray]
<1>0. v \in Screen
  BY DEF Sound
<1>1. CASE v.row = Rows - 1
  <2>1. mapToVGA(v, NL) = makeSpace(v)
    BY <1>1 DEF mapToVGA
  <2> QED
    BY <1>0, <1>1, <2>1, makeSpaceIs
<1>2. CASE v.row # Rows - 1
  <2>1. mapToVGA(v, NL) = [v EXCEPT !.col = 0, !.row = @ + 1]
    BY <1>2 DEF mapToVGA
  <2> QED
    BY <1>0, <1>2, <2>1, ScreenIs DEF Screen
<1> QED
  BY <1>1, <1>2

\* A character goes to the cursor, which moves on.
LEMMA MapCharacter ==
    ASSUME NEW v, Sound(v), NEW s \in Symbol
    PROVE  LET cells == [v.cells EXCEPT ![Position(v)] = s]
           IN  mapToVGA(v, s) =
                 IF v.col + 1 < Cols
                 THEN [row |-> v.row, col |-> v.col + 1, cells |-> cells, stray |-> v.stray]
                 ELSE IF v.row < Rows - 1
                 THEN [row |-> v.row + 1, col |-> 0, cells |-> cells, stray |-> v.stray]
                 ELSE [row |-> Rows - 1, col |-> 0, cells |-> Scrolled(cells),
                       stray |-> v.stray]
<1> DEFINE cells == [v.cells EXCEPT ![Position(v)] = s]
           w == [row |-> v.row, col |-> v.col, cells |-> cells, stray |-> v.stray]
<1>0. /\ v \in Screen /\ v.row \in Int /\ v.col \in Int
      /\ v.row <= Rows - 1 /\ v.col <= Cols - 1
      /\ Rows \in Int /\ Cols \in Int /\ s # NL
  BY Sizes, Symbols DEF Sound, Screen
<1>1. Put(v, v.row * Cols + v.col, s) = w /\ w \in Screen
  BY <1>0, PositionIs, PutIs DEF Position
<1>c. cells \in [Cell -> Symbol]
  BY <1>0, ScreenIs
<1> HIDE DEF cells
<1>2. mapToVGA(v, s) =
        LET u == IF v.col + 1 < Cols THEN [w EXCEPT !.col = @ + 1]
                 ELSE [w EXCEPT !.col = 0, !.row = @ + 1]
        IN  IF u.row >= Rows THEN makeSpace(u) ELSE u
  <2>1. s # NL /\ ~(v.row >= Rows) /\ v.col < Cols
    BY <1>0
  <2> HIDE DEF w
  <2> QED
    BY <1>1, <2>1 DEF mapToVGA
<1>3. CASE v.col + 1 < Cols
  <2>1. [w EXCEPT !.col = @ + 1] = [row |-> v.row, col |-> v.col + 1, cells |-> cells, stray |-> v.stray]
    OBVIOUS
  <2>2. ~(v.row >= Rows)
    BY <1>0
  <2> QED
    BY <1>2, <1>3, <2>1, <2>2 DEF cells
<1>4. CASE ~(v.col + 1 < Cols)
  <2> DEFINE u == [row |-> v.row + 1, col |-> 0, cells |-> cells, stray |-> v.stray]
  <2>1. [w EXCEPT !.col = 0, !.row = @ + 1] = u
    <3>1. w.row = v.row /\ w.cells = cells /\ w.stray = v.stray
      OBVIOUS
    <3> HIDE DEF w
    <3>2. w \in Screen
      BY <1>1
    <3>3. [w EXCEPT !.col = 0, !.row = @ + 1]
            = [row |-> w.row + 1, col |-> 0, cells |-> w.cells, stray |-> w.stray]
      BY <3>2, NextRowIs
    <3> QED
      BY <3>1, <3>3
  <2>2. mapToVGA(v, s) = IF v.row + 1 >= Rows THEN makeSpace(u) ELSE u
    BY <1>2, <1>4, <2>1
  <2>3. u \in Screen
    BY <1>0, <1>c DEF Screen
  <2>4. makeSpace(u) = [row |-> Rows - 1, col |-> 0, cells |-> Scrolled(cells), stray |-> v.stray]
    <3>1. u.cells = cells /\ u.stray = v.stray
      OBVIOUS
    <3> HIDE DEF u
    <3> QED
      BY <2>3, <3>1, makeSpaceIs
  <2>5. v.row + 1 >= Rows <=> ~(v.row < Rows - 1)
    BY <1>0
  <2> QED
    BY <1>4, <2>2, <2>4, <2>5 DEF cells
<1> QED
  BY <1>3, <1>4

\* Printing keeps the cursor on the screen and never goes up a row.
LEMMA MapSound ==
    ASSUME NEW v, Sound(v), NEW s \in Symbol \cup {NL}
    PROVE  LET u == mapToVGA(v, s)
           IN  /\ Sound(u) /\ u.col >= 0 /\ u.row >= v.row
               /\ s = NL => u.col = 0
               /\ u.col = 0 => u.row > 0
<1> DEFINE u == mapToVGA(v, s)
           cells == [v.cells EXCEPT ![Position(v)] = s]
<1>0. /\ v \in Screen /\ v.row \in Int /\ v.col \in Int /\ ~v.stray /\ v.stray \in BOOLEAN
      /\ v.row >= 0 /\ v.row <= Rows - 1 /\ v.col >= -1 /\ v.col <= Cols - 1
      /\ Rows \in Int /\ Rows >= 3 /\ Cols \in Int /\ Cols >= 2
      /\ v.cells \in [Cell -> Symbol] /\ (v.col = -1 => v.row > 0)
  BY Sizes DEF Sound, Screen
<1>s. \A f \in [Cell -> Symbol] : Scrolled(f) \in [Cell -> Symbol]
  BY ScrolledIs
<1>r. ASSUME NEW r \in 0..(Rows - 1), NEW c \in 0..(Cols - 1), NEW f \in [Cell -> Symbol]
      PROVE  Sound([row |-> r, col |-> c, cells |-> f, stray |-> v.stray])
  BY <1>0 DEF Sound, Screen
<1>1. CASE s = NL
  <2>1. CASE v.row = Rows - 1
    <3>1. u = [row |-> Rows - 1, col |-> 0, cells |-> Scrolled(v.cells), stray |-> v.stray]
      BY <1>1, <2>1, MapNewline
    <3>2. Rows - 1 \in 0..(Rows - 1) /\ 0 \in 0..(Cols - 1) /\ Scrolled(v.cells) \in [Cell -> Symbol]
      BY <1>0, <1>s
    <3>3. Sound(u)
      BY <1>r, <3>1, <3>2
    <3>4. u.row = Rows - 1 /\ u.col = 0
      BY <3>1
    <3> QED
      BY <1>0, <2>1, <3>3, <3>4
  <2>2. CASE v.row # Rows - 1
    <3>1. u = [row |-> v.row + 1, col |-> 0, cells |-> v.cells, stray |-> v.stray]
      BY <1>1, <2>2, MapNewline
    <3>2. v.row + 1 \in 0..(Rows - 1) /\ 0 \in 0..(Cols - 1)
      BY <1>0, <2>2
    <3>3. Sound(u)
      BY <1>0, <1>r, <3>1, <3>2
    <3>4. u.row = v.row + 1 /\ u.col = 0
      BY <3>1
    <3> QED
      BY <1>0, <2>2, <3>3, <3>4
  <2> QED
    BY <2>1, <2>2
<1>2. CASE s # NL
  <2>0. s \in Symbol /\ cells \in [Cell -> Symbol]
    BY <1>0, <1>2
  <2>1. CASE v.col + 1 < Cols
    <3>1. u = [row |-> v.row, col |-> v.col + 1, cells |-> cells, stray |-> v.stray]
      BY <2>0, <2>1, MapCharacter
    <3>2. v.row \in 0..(Rows - 1) /\ v.col + 1 \in 0..(Cols - 1)
      BY <1>0, <2>1
    <3>3. Sound(u)
      BY <1>r, <2>0, <3>1, <3>2
    <3>4. u.row = v.row /\ u.col = v.col + 1
      BY <3>1
    <3> QED
      BY <1>0, <1>2, <3>3, <3>4
  <2>2. CASE ~(v.col + 1 < Cols) /\ v.row < Rows - 1
    <3>1. u = [row |-> v.row + 1, col |-> 0, cells |-> cells, stray |-> v.stray]
      BY <2>0, <2>2, MapCharacter
    <3>2. v.row + 1 \in 0..(Rows - 1) /\ 0 \in 0..(Cols - 1)
      BY <1>0, <2>2
    <3>3. Sound(u)
      BY <1>r, <2>0, <3>1, <3>2
    <3>4. u.row = v.row + 1 /\ u.col = 0
      BY <3>1
    <3> QED
      BY <1>0, <3>3, <3>4
  <2>3. CASE ~(v.col + 1 < Cols) /\ ~(v.row < Rows - 1)
    <3>1. u = [row |-> Rows - 1, col |-> 0, cells |-> Scrolled(cells), stray |-> v.stray]
      BY <2>0, <2>3, MapCharacter
    <3>2. Rows - 1 \in 0..(Rows - 1) /\ 0 \in 0..(Cols - 1) /\ Scrolled(cells) \in [Cell -> Symbol]
      BY <1>0, <1>s, <2>0
    <3>3. Sound(u)
      BY <1>r, <3>1, <3>2
    <3>4. u.row = Rows - 1 /\ u.col = 0
      BY <3>1
    <3> QED
      BY <1>0, <3>3, <3>4
  <2> QED
    BY <2>1, <2>2, <2>3
<1> QED
  BY <1>1, <1>2

\* Nothing is printed behind the cursor.
LEMMA MapClean ==
    ASSUME NEW v, Sound(v), v.col >= 0, CleanFrom(v, Position(v)),
           NEW s \in Symbol \cup {NL}
    PROVE  LET u == mapToVGA(v, s) IN CleanFrom(u, Position(u))
<1> DEFINE u == mapToVGA(v, s)
           cells == [v.cells EXCEPT ![Position(v)] = s]
           p == Position(v)
           Dirty == Letter \cup {Text}
<1>0. /\ v.row \in Int /\ v.col \in Int
      /\ v.row >= 0 /\ v.row <= Rows - 1 /\ v.col >= 0 /\ v.col <= Cols - 1
      /\ Rows \in Int /\ Rows >= 3 /\ Cols \in Int /\ Cols >= 2
      /\ v.cells \in [Cell -> Symbol]
  BY Sizes DEF Sound, Screen
<1>p. p = Base(v.row) + v.col /\ p \in Cell /\ Base(v.row) \in Int
  BY <1>0, PositionIs, Bases
<1>b. Base(Rows) \in Int /\ Base(Rows - 1) = Base(Rows) - Cols
  BY <1>0, Bases
<1>i. \A i \in Cell : i \in Int
  BY Cells
<1>1. \A i \in Cell : i >= p => v.cells[i] \notin Dirty
  BY DEF CleanFrom
<1>d. Blank \notin Dirty
  BY Symbols
<1> HIDE DEF Dirty
<1>s. ASSUME NEW f \in [Cell -> Symbol], NEW i \in Cell, i >= Base(Rows - 1)
      PROVE  Scrolled(f)[i] \notin Dirty
  BY <1>b, <1>d, <1>s, ScrolledIs
<1>2. CASE s = NL
  <2>1. CASE v.row = Rows - 1
    <3>1. u = [row |-> Rows - 1, col |-> 0, cells |-> Scrolled(v.cells), stray |-> v.stray]
      BY <1>2, <2>1, MapNewline
    <3>2. u.cells = Scrolled(v.cells) /\ Position(u) = Base(Rows - 1)
      BY <1>b, <3>1, <1>0 DEF Position, Base
    <3> QED
      BY <1>0, <1>s, <3>2 DEF CleanFrom, Dirty
  <2>2. CASE v.row # Rows - 1
    <3>1. u = [row |-> v.row + 1, col |-> 0, cells |-> v.cells, stray |-> v.stray]
      BY <1>2, <2>2, MapNewline
    <3>2. u.cells = v.cells /\ Position(u) = Base(v.row + 1) + 0
      BY <3>1 DEF Position, Base
    <3>3. Base(v.row + 1) = Base(v.row) + Cols
      BY <1>0, Bases
    <3>4. ASSUME NEW i \in Cell, i >= Position(u)
          PROVE  i >= p
      <4> HIDE DEF u, p
      <4> QED
        BY <1>0, <1>i, <1>p, <3>2, <3>3, <3>4
    <3> QED
      BY <1>1, <3>2, <3>4 DEF CleanFrom, Dirty
  <2> QED
    BY <2>1, <2>2
<1>3. CASE s # NL
  <2>0. s \in Symbol /\ cells \in [Cell -> Symbol]
    BY <1>0, <1>3
  <2>a. ASSUME NEW i \in Cell, i >= p + 1
        PROVE  cells[i] \notin Dirty
    <3>1. i >= p /\ i # p
      <4> HIDE DEF p
      <4> QED
        BY <1>i, <1>p, <2>a
    <3>2. cells[i] = v.cells[i]
      BY <1>0, <3>1
    <3> QED
      BY <1>1, <3>1, <3>2
  <2> HIDE DEF cells
  <2>1. CASE v.col + 1 < Cols
    <3>1. u = [row |-> v.row, col |-> v.col + 1, cells |-> cells, stray |-> v.stray]
      BY <2>0, <2>1, MapCharacter DEF cells
    <3>2. u.cells = cells /\ Position(u) = Base(v.row) + (v.col + 1)
      BY <3>1 DEF Position, Base
    <3>3. Position(u) = p + 1
      <4> HIDE DEF u, p
      <4> QED
        BY <1>0, <1>p, <3>2
    <3> QED
      BY <2>a, <3>2, <3>3 DEF CleanFrom, Dirty
  <2>2. CASE ~(v.col + 1 < Cols) /\ v.row < Rows - 1
    <3>1. u = [row |-> v.row + 1, col |-> 0, cells |-> cells, stray |-> v.stray]
      BY <2>0, <2>2, MapCharacter DEF cells
    <3>2. u.cells = cells /\ Position(u) = Base(v.row + 1) + 0
      BY <3>1 DEF Position, Base
    <3>3. Base(v.row + 1) = Base(v.row) + Cols
      BY <1>0, Bases
    <3>4. Position(u) = p + 1
      <4> HIDE DEF u, p
      <4> QED
        BY <1>0, <1>p, <2>2, <3>2, <3>3
    <3> QED
      BY <2>a, <3>2, <3>4 DEF CleanFrom, Dirty
  <2>3. CASE ~(v.col + 1 < Cols) /\ ~(v.row < Rows - 1)
    <3>1. u = [row |-> Rows - 1, col |-> 0, cells |-> Scrolled(cells), stray |-> v.stray]
      BY <2>0, <2>3, MapCharacter DEF cells
    <3>2. u.cells = Scrolled(cells) /\ Position(u) = Base(Rows - 1)
      BY <1>b, <3>1, <1>0 DEF Position, Base
    <3> QED
      BY <1>s, <2>0, <3>2 DEF CleanFrom, Dirty
  <2> QED
    BY <2>1, <2>2, <2>3
<1> QED
  BY <1>2, <1>3

-----------------------------------------------------------------------------
(* The line on the screen                                                  *)

\* The line is on the screen from row r on.
ShowsFrom(v, r, line) ==
    \A i \in 1..Len(line) :
        Base(r) + i - 1 \in ClockCells \/ v.cells[Base(r) + i - 1] = line[i]

LEMMA ShowsIs ==
    ASSUME NEW v, NEW p, NEW line \in Seq(Key)
    PROVE  Shows(v, p, line) <=>
             \E r \in 0..(Rows - 1) : p = Base(r) + Len(line) /\ ShowsFrom(v, r, line)
<1>1. ASSUME NEW r \in 0..(Rows - 1), p = Base(r) + Len(line), NEW i \in 1..Len(line)
      PROVE  p - Len(line) + i - 1 = Base(r) + i - 1
  <2>1. Base(r) \in Int /\ Len(line) \in Int /\ i \in Int
    BY Bases, Sizes
  <2> QED
    BY <1>1, <2>1
<1>2. ASSUME Shows(v, p, line)
      PROVE  \E r \in 0..(Rows - 1) : p = Base(r) + Len(line) /\ ShowsFrom(v, r, line)
  <2>1. PICK r \in 0..(Rows - 1) : p = Base(r) + Len(line)
    BY <1>2 DEF Shows, Base
  <2>2. ShowsFrom(v, r, line)
    BY <1>1, <1>2, <2>1 DEF Shows, ShowsFrom
  <2> QED
    BY <2>1, <2>2
<1>3. ASSUME NEW r \in 0..(Rows - 1), p = Base(r) + Len(line), ShowsFrom(v, r, line)
      PROVE  Shows(v, p, line)
  <2>1. p = r * Cols + Len(line)
    BY <1>3 DEF Base
  <2>2. \A i \in 1..Len(line) :
          \/ p - Len(line) + i - 1 \in ClockCells
          \/ v.cells[p - Len(line) + i - 1] = line[i]
    BY <1>1, <1>3 DEF ShowsFrom
  <2> QED
    BY <2>1, <2>2 DEF Shows
<1> QED
  BY <1>2, <1>3

\* A character that is echoed continues the line, over the end of a row and
\* after scrolling.
LEMMA MapShows ==
    ASSUME NEW v, Sound(v), v.col >= 0,
           NEW line \in Seq(Key), Len(line) < LineMax, NEW c \in Key,
           Shows(v, Position(v), line)
    PROVE  LET u == mapToVGA(v, c) IN Shows(u, Position(u), Append(line, c))
<1> DEFINE u == mapToVGA(v, c)
           p == Position(v)
           n == Len(line)
           cells == [v.cells EXCEPT ![p] = c]
           longer == Append(line, c)
<1>0. /\ v.row \in Int /\ v.col \in Int
      /\ v.row >= 0 /\ v.row <= Rows - 1 /\ v.col >= 0 /\ v.col <= Cols - 1
      /\ Rows \in Int /\ Rows >= 3 /\ Cols \in Int /\ Cols >= 2
      /\ v.cells \in [Cell -> Symbol] /\ c \in Symbol
      /\ n \in Int /\ n >= 0
  BY Sizes, Symbols DEF Sound, Screen
<1>a. /\ Rows \in Int /\ Rows >= 3 /\ Cols \in Int /\ Cols >= 2
      /\ n \in Int /\ n >= 0 /\ n < 2 * Cols - 1
  BY <1>0, Sizes
<1>b. /\ Base(Rows) \in Int /\ Base(Rows) >= 3 * Cols
      /\ Base(Rows - 1) = Base(Rows) - Cols
  BY <1>a, Bases
<1>p. p = Base(v.row) + v.col /\ p \in Cell /\ Base(v.row) \in Int /\ p \in Int
  BY <1>0, PositionIs, Bases, Cells
<1>l. /\ longer \in Seq(Key) /\ Len(longer) = n + 1
      /\ \A i \in 1..n : longer[i] = line[i]
      /\ longer[n + 1] = c
  OBVIOUS
<1>1. PICK r \in 0..(Rows - 1) : p = Base(r) + n /\ ShowsFrom(v, r, line)
  BY ShowsIs
<1>2. Base(r) \in Int /\ Base(r) >= 0 /\ r \in Int /\ r >= 0
  BY BaseIs
<1>3. ASSUME NEW i \in 1..(n + 1)
      PROVE  /\ i \in Int /\ Base(r) + i - 1 \in Cell
             /\ \/ Base(r) + i - 1 \in ClockCells
                \/ cells[Base(r) + i - 1] = longer[i]
  <2>0. i \in Int /\ i >= 1 /\ i <= n + 1
    BY <1>0
  <2>1. p < Base(Rows)
    BY <1>p, Cells
  <2>2. /\ Base(r) + i - 1 \in Int /\ 0 <= Base(r) + i - 1
        /\ Base(r) + i - 1 <= p
    <3> HIDE DEF p, n
    <3> QED
      BY <1>0, <1>1, <1>2, <2>0
  <2>3. Base(r) + i - 1 \in Cell
    <3>1. Base(r) + i - 1 < Base(Rows)
      <4> HIDE DEF p
      <4> QED
        BY <1>b, <1>p, <2>1, <2>2
    <3> QED
      BY <2>2, <3>1, Cells
  <2>4. CASE i = n + 1
    <3>1. Base(r) + i - 1 = p
      <4> HIDE DEF p, n
      <4> QED
        BY <1>0, <1>1, <1>2, <2>4
    <3>2. cells[p] = c
      BY <1>0, <1>p
    <3> QED
      BY <1>l, <2>0, <2>3, <2>4, <3>1, <3>2
  <2>5. CASE i # n + 1
    <3>1. Base(r) + i - 1 # p /\ i \in 1..n
      <4> HIDE DEF p, n
      <4> QED
        BY <1>0, <1>1, <1>2, <2>0, <2>5
    <3>2. cells[Base(r) + i - 1] = v.cells[Base(r) + i - 1]
      BY <1>0, <2>3, <3>1
    <3> QED
      BY <1>1, <1>l, <2>0, <2>3, <3>1, <3>2 DEF ShowsFrom
  <2> QED
    BY <2>4, <2>5
<1> HIDE DEF cells, longer
<1>4. ASSUME u.cells = cells, Position(u) = p + 1
      PROVE  Shows(u, Position(u), longer)
  <2>1. Position(u) = Base(r) + Len(longer)
    <3> HIDE DEF p, n, u
    <3> QED
      BY <1>0, <1>1, <1>2, <1>4, <1>l
  <2>2. ShowsFrom(u, r, longer)
    BY <1>3, <1>4, <1>l DEF ShowsFrom
  <2> QED
    BY <1>l, <2>1, <2>2, ShowsIs
<1>5. CASE v.col + 1 < Cols
  <2>1. u = [row |-> v.row, col |-> v.col + 1, cells |-> cells, stray |-> v.stray]
    BY <1>0, <1>5, MapCharacter DEF cells
  <2>2. u.cells = cells /\ Position(u) = Base(v.row) + (v.col + 1)
    BY <2>1 DEF Position, Base
  <2>3. Position(u) = p + 1
    <3> HIDE DEF u, p
    <3> QED
      BY <1>0, <1>p, <2>2
  <2> QED
    BY <1>4, <2>2, <2>3 DEF longer
<1>6. CASE ~(v.col + 1 < Cols) /\ v.row < Rows - 1
  <2>1. u = [row |-> v.row + 1, col |-> 0, cells |-> cells, stray |-> v.stray]
    BY <1>0, <1>6, MapCharacter DEF cells
  <2>2. u.cells = cells /\ Position(u) = Base(v.row + 1) + 0
    BY <2>1 DEF Position, Base
  <2>3. Base(v.row + 1) = Base(v.row) + Cols
    BY <1>0, Bases
  <2>c. v.col + 1 = Cols
    BY <1>0, <1>6
  <2>4. Position(u) = p + 1
    <3>1. Position(u) = Base(v.row) + (v.col + 1)
      <4> HIDE DEF u
      <4> QED
        BY <1>a, <1>p, <2>2, <2>3, <2>c
    <3> HIDE DEF u, p
    <3> QED
      BY <1>0, <1>p, <3>1
  <2> QED
    BY <1>4, <2>2, <2>4 DEF longer
<1>7. CASE ~(v.col + 1 < Cols) /\ ~(v.row < Rows - 1)
  <2>1. u = [row |-> Rows - 1, col |-> 0, cells |-> Scrolled(cells), stray |-> v.stray]
    BY <1>0, <1>7, MapCharacter DEF cells
  <2>2. u.cells = Scrolled(cells) /\ Position(u) = Base(Rows - 1) + 0
    BY <2>1 DEF Position, Base
  <2>3. v.row = Rows - 1 /\ v.col = Cols - 1
    BY <1>0, <1>7
  <2>4. p = Base(Rows) - 1
    <3> HIDE DEF p
    <3> QED
      BY <1>a, <1>b, <1>p, <2>3
  <2>5. Base(r) >= Cols + 1
    <3> HIDE DEF p, n
    <3> QED
      BY <1>a, <1>b, <1>1, <1>2, <2>4
  <2>6. r # 0
    BY <1>0, <2>5, Bases
  <2>7. Base(r - 1) = Base(r) - Cols /\ r - 1 \in 0..(Rows - 1)
    BY <1>2, <2>6, Bases, <1>a
  <2> DEFINE b == Base(r - 1)
  <2>b. b \in Int /\ b = Base(r) - Cols
    BY <1>a, <1>2, <2>7
  <2> HIDE DEF b
  <2>8. Position(u) = b + Len(longer)
    <3>1. Position(u) = p + 1 - Cols
      <4> HIDE DEF p, u
      <4> QED
        BY <1>a, <1>b, <2>2, <2>4
    <3>2. p \in Int
      BY <1>p
    <3> HIDE DEF p, n, u
    <3> QED
      BY <1>a, <1>1, <1>2, <1>l, <2>b, <3>1, <3>2
  <2>9. ASSUME NEW i \in 1..Len(longer)
        PROVE  u.cells[b + i - 1] = longer[i]
    <3>1. i \in 1..(n + 1) /\ i \in Int /\ i >= 1 /\ i <= n + 1
      BY <1>0, <1>l
    <3>2. Base(r) + i - 1 >= Cols + 1 /\ Base(r) + i - 1 \in Int
      BY <1>a, <1>2, <2>5, <3>1
    <3>3. Base(r) + i - 1 \notin ClockCells
      BY <1>0, <3>2, Sizes DEF ClockCells
    <3>4. cells[Base(r) + i - 1] = longer[i]
      BY <1>3, <3>1, <3>3
    <3>5. /\ b + i - 1 \in Int
          /\ 0 <= b + i - 1
          /\ b + i - 1 < Base(Rows) - Cols
          /\ b + i - 1 + Cols = Base(r) + i - 1
      <4>1. Base(r) + n = Base(Rows) - 1
        BY <1>1, <2>4
      <4>2. i \in Int /\ i >= 1 /\ i <= n + 1 /\ n \in Int
        BY <1>a, <3>1
      <4>3. Base(r) \in Int /\ Base(Rows) \in Int /\ Cols \in Int
        BY <1>a, <1>b, <1>2
      <4> HIDE DEF p, n
      <4>4. b + i - 1 \in Int /\ b + i - 1 + Cols = Base(r) + i - 1
        BY <2>b, <4>2, <4>3
      <4>5. 0 <= b + i - 1
        BY <2>5, <2>b, <4>2, <4>3
      <4>6. b + i - 1 < Base(Rows) - Cols
        BY <2>b, <4>1, <4>2, <4>3
      <4> QED
        BY <4>4, <4>5, <4>6
    <3>6. b + i - 1 \in Cell
      <4>1. b + i - 1 < Base(Rows)
        BY <1>a, <1>b, <3>5
      <4> QED
        BY <3>5, <4>1, Cells
    <3>7. cells \in [Cell -> Symbol]
      BY <1>0 DEF cells
    <3>8. Scrolled(cells)[b + i - 1] = cells[b + i - 1 + Cols]
      BY <3>5, <3>6, <3>7, ScrolledIs
    <3> QED
      BY <2>2, <3>4, <3>5, <3>8
  <2>10. ShowsFrom(u, r - 1, longer)
    BY <2>9 DEF ShowsFrom, b
  <2> QED
    BY <1>l, <2>7, <2>8, <2>10, ShowsIs DEF longer, b
<1> QED
  BY <1>5, <1>6, <1>7

-----------------------------------------------------------------------------
(* What print does                                                         *)

\* Induction: a set with 0, and with n + 1 if with n, has all the naturals.
LEMMA NatInductiveSet ==
    ASSUME NEW S, 0 \in S, \A n \in Nat : n \in S => n + 1 \in S
    PROVE  Nat \subseteq S
<1> DEFINE T == Nat \ S
<1>1. SUFFICES ASSUME T # {} PROVE FALSE
  OBVIOUS
<1>2. PICK x \in T : \A y \in T : ~(<<y, x>> \in OpToRel(<, Nat))
  <2>1. T \subseteq Nat
    OBVIOUS
  <2> HIDE DEF T
  <2> QED
    BY <1>1, <2>1, WFMin, NatLessThanWellFounded
<1>3. \A y \in T : ~(y < x)
  BY <1>2 DEF OpToRel
<1>4. x # 0 /\ x \in Nat
  OBVIOUS
<1>5. x - 1 \in Nat /\ x - 1 < x
  BY <1>4
<1>6. x - 1 \in S
  BY <1>3, <1>5
<1>7. (x - 1) + 1 \in S
  BY <1>5, <1>6
<1> QED
  BY <1>4, <1>7

\* g has the screens before the first character of s and after each of k.
Trace(v, s, k, g) ==
    g = [n \in 0..k |-> IF n = 0 THEN v ELSE mapToVGA(g[n - 1], s[n])]

LEMMA TraceExists ==
    ASSUME NEW v, NEW s, NEW k \in Nat
    PROVE  \E g : Trace(v, s, k, g)
<1> DEFINE S == {n \in Nat : \E g : Trace(v, s, n, g)}
<1>1. 0 \in S
  <2> DEFINE g == [n \in 0..0 |-> v]
  <2>1. g = [n \in 0..0 |-> IF n = 0 THEN v ELSE mapToVGA(g[n - 1], s[n])]
    OBVIOUS
  <2> QED
    BY <2>1 DEF Trace
<1>2. ASSUME NEW m \in Nat, m \in S
      PROVE  m + 1 \in S
  <2>1. PICK g : Trace(v, s, m, g)
    BY <1>2
  <2>2. \A n \in 0..m : g[n] = IF n = 0 THEN v ELSE mapToVGA(g[n - 1], s[n])
    BY <2>1 DEF Trace
  <2> DEFINE h == [n \in 0..(m + 1) |-> IF n = m + 1 THEN mapToVGA(g[m], s[n]) ELSE g[n]]
  <2>3. ASSUME NEW n \in 0..(m + 1)
        PROVE  h[n] = IF n = 0 THEN v ELSE mapToVGA(h[n - 1], s[n])
    <3>1. CASE n = m + 1
      <4>1. h[n] = mapToVGA(g[m], s[n]) /\ n # 0 /\ n - 1 = m
        BY <3>1
      <4>2. h[m] = g[m]
        OBVIOUS
      <4> HIDE DEF h
      <4> QED
        BY <4>1, <4>2
    <3>2. CASE n # m + 1
      <4>1. n \in 0..m /\ h[n] = g[n] /\ (n # 0 => n - 1 \in 0..m /\ h[n - 1] = g[n - 1])
        BY <3>2
      <4> HIDE DEF h
      <4> QED
        BY <2>2, <4>1
    <3> QED
      BY <3>1, <3>2
  <2>4. Trace(v, s, m + 1, h)
    <3>1. h = [n \in 0..(m + 1) |-> h[n]]
      OBVIOUS
    <3> HIDE DEF h
    <3> QED
      BY <2>3, <3>1 DEF Trace
  <2> QED
    BY <2>4
<1>3. Nat \subseteq S
  <2> HIDE DEF S
  <2> QED
    BY <1>1, <1>2, NatInductiveSet
<1> QED
  BY <1>3

LEMMA PrintedTrace ==
    ASSUME NEW v, NEW s, Len(s) \in Nat
    PROVE  \E g : Trace(v, s, Len(s), g) /\ Printed(v, s) = g[Len(s)]
<1> DEFINE after == CHOOSE g :
             g = [n \in 0..Len(s) |-> IF n = 0 THEN v ELSE mapToVGA(g[n - 1], s[n])]
<1>1. Printed(v, s) = after[Len(s)]
  BY DEF Printed
<1>2. \E g : g = [n \in 0..Len(s) |-> IF n = 0 THEN v ELSE mapToVGA(g[n - 1], s[n])]
  <2> DEFINE k == Len(s)
  <2>1. k \in Nat
    OBVIOUS
  <2> HIDE DEF k
  <2>2. PICK g : Trace(v, s, k, g)
    BY <2>1, TraceExists
  <2> QED
    BY <2>2 DEF Trace, k
<1>3. after = [n \in 0..Len(s) |-> IF n = 0 THEN v ELSE mapToVGA(after[n - 1], s[n])]
  BY <1>2
<1> HIDE DEF after
<1> QED
  BY <1>1, <1>3 DEF Trace

\* A set of screens that no character leads out of.
LEMMA TraceIn ==
    ASSUME NEW v, NEW s, NEW k \in Nat, NEW g, Trace(v, s, k, g), NEW S, v \in S,
           \A u \in S, i \in 1..k : mapToVGA(u, s[i]) \in S
    PROVE  \A n \in 0..k : g[n] \in S
<1>0. \A n \in 0..k : g[n] = IF n = 0 THEN v ELSE mapToVGA(g[n - 1], s[n])
  BY DEF Trace
<1> DEFINE T == {n \in Nat : n <= k => g[n] \in S}
<1>1. 0 \in T
  BY <1>0
<1>2. ASSUME NEW n \in Nat, n \in T
      PROVE  n + 1 \in T
  <2>1. CASE n + 1 <= k
    <3>1. g[n] \in S /\ n + 1 \in 0..k /\ n + 1 # 0 /\ (n + 1) - 1 = n /\ n + 1 \in 1..k
      BY <1>2, <2>1
    <3>2. g[n + 1] = mapToVGA(g[n], s[n + 1])
      BY <1>0, <3>1
    <3> QED
      BY <3>1, <3>2
  <2> QED
    BY <2>1
<1>3. Nat \subseteq T
  <2> HIDE DEF T
  <2> QED
    BY <1>1, <1>2, NatInductiveSet
<1> QED
  BY <1>3

\* One character.
LEMMA PrintedOne ==
    ASSUME NEW v, NEW c
    PROVE  Printed(v, <<c>>) = mapToVGA(v, c)
<1>1. Len(<<c>>) = 1 /\ <<c>>[1] = c
  OBVIOUS
<1>2. PICK g : Trace(v, <<c>>, 1, g) /\ Printed(v, <<c>>) = g[1]
  BY <1>1, PrintedTrace
<1>3. g[0] = v /\ g[1] = mapToVGA(g[0], <<c>>[1])
  BY <1>2 DEF Trace
<1> QED
  BY <1>1, <1>2, <1>3

\* What a string does to the cursor and to what is behind it.
LEMMA PrintedIs ==
    ASSUME NEW v, Sound(v), NEW s \in Seq({Text, NL})
    PROVE  LET u == Printed(v, s)
           IN  /\ Sound(u) /\ u.row >= v.row
               /\ s # <<>> => u.col >= 0 /\ (u.col = 0 => u.row > 0)
               /\ v.col >= 0 => u.col >= 0
               /\ EndsLine(s) => u.col = 0
               /\ v.col >= 0 /\ CleanFrom(v, Position(v)) => CleanFrom(u, Position(u))
<1> DEFINE k == Len(s)
           u == Printed(v, s)
           S == {w \in Screen : Sound(w) /\ w.row >= v.row}
           P == {w \in S : w.col >= 0 /\ (w.col = 0 => w.row > 0)}
           Q == {w \in S : w.col >= 0}
           C == {w \in Q : CleanFrom(w, Position(w))}
<1>0. k \in Nat /\ v \in Screen /\ v.row \in Int
  BY DEF Sound, Screen
<1>1. PICK g : Trace(v, s, k, g) /\ u = g[k]
  BY <1>0, PrintedTrace
<1>2. g[0] = v /\ \A n \in 1..k : g[n] = mapToVGA(g[n - 1], s[n])
  BY <1>0, <1>1 DEF Trace
<1>3. \A i \in 1..k : s[i] \in Symbol \cup {NL}
  BY Symbols
<1>4. ASSUME NEW w \in S, NEW i \in 1..k
      PROVE  mapToVGA(w, s[i]) \in P /\ (s[i] = NL => mapToVGA(w, s[i]).col = 0)
  <2> DEFINE x == mapToVGA(w, s[i])
  <2>1. /\ Sound(x) /\ x.col >= 0 /\ x.row >= w.row /\ (s[i] = NL => x.col = 0)
        /\ x.col = 0 => x.row > 0
    BY <1>3, <1>4, MapSound
  <2>2. x \in Screen /\ x.row \in Int /\ w.row \in Int /\ w.row >= v.row
    BY <2>1 DEF Sound, Screen
  <2> HIDE DEF x
  <2> QED
    BY <1>0, <2>1, <2>2 DEF x
<1>5. v \in S
  BY <1>0
<1>6. \A n \in 0..k : g[n] \in S
  <2>1. \A w \in S, i \in 1..k : mapToVGA(w, s[i]) \in S
    BY <1>4
  <2> HIDE DEF S, k
  <2> QED
    BY <1>0, <1>1, <1>5, <2>1, TraceIn
<1>7. Sound(u) /\ u.row >= v.row
  BY <1>0, <1>1, <1>6
<1>8. ASSUME s # <<>>
      PROVE  u.col >= 0 /\ (s[k] = NL => u.col = 0) /\ (u.col = 0 => u.row > 0)
  <2>1. k \in 1..k /\ k - 1 \in 0..k
    BY <1>0, <1>8
  <2>2. g[k] = mapToVGA(g[k - 1], s[k]) /\ g[k - 1] \in S
    BY <1>2, <1>6, <2>1
  <2> HIDE DEF S, k
  <2>3. g[k] \in P /\ (s[k] = NL => g[k].col = 0)
    BY <1>4, <2>1, <2>2
  <2> QED
    BY <1>1, <2>3
<1>9. s = <<>> => u = v
  BY <1>1, <1>2
<1>10. ASSUME v.col >= 0, CleanFrom(v, Position(v))
       PROVE  CleanFrom(u, Position(u))
  <2>1. v \in C
    BY <1>5, <1>10
  <2>2. ASSUME NEW w \in C, NEW i \in 1..k
        PROVE  mapToVGA(w, s[i]) \in C
    <3>1. mapToVGA(w, s[i]) \in P
      BY <1>4
    <3>2. Sound(w) /\ w.col >= 0 /\ CleanFrom(w, Position(w))
      OBVIOUS
    <3>3. CleanFrom(mapToVGA(w, s[i]), Position(mapToVGA(w, s[i])))
      BY <1>3, <3>2, MapClean
    <3> QED
      BY <3>1, <3>3
  <2>3. g[k] \in C
    <3>1. k \in 0..k
      BY <1>0
    <3> HIDE DEF C, k
    <3> QED
      BY <1>0, <1>1, <2>1, <2>2, <3>1, TraceIn
  <2> QED
    BY <1>1, <2>3
<1> HIDE DEF u, k
<1>11. EndsLine(s) => u.col = 0
  BY <1>8 DEF EndsLine, k
<1> QED
  BY <1>7, <1>8, <1>9, <1>10, <1>11 DEF u

-----------------------------------------------------------------------------
(* Another task prints.                                                    *)

LEMMA OthersStep ==
    ASSUME IndInv, NEW s \in Seq({Text, NL}), EndsLine(s), print(s),
           mixed' = TRUE, torn' = (torn \/ Inside),
           UNCHANGED <<pc, tmp, linebuf, out, erasures, at>>
    PROVE  IndInv'
<1>0. Sound(vga) /\ vga' = Printed(vga, s) /\ s # <<>>
  BY DEF IndInv, BoundInv, print, EndsLine
<1>1. /\ Sound(vga') /\ vga'.row >= vga.row /\ vga'.col = 0 /\ vga'.row > 0
      /\ vga.col >= 0 /\ CleanFrom(vga, Position(vga)) => CleanFrom(vga', Position(vga'))
  <2> HIDE DEF EndsLine
  <2> QED
    BY <1>0, PrintedIs
<1>2. TypeInv'
  <2>1. torn' \in BOOLEAN
    BY DEF Inside
  <2> QED
    BY <2>1 DEF IndInv, TypeInv
<1>3. BoundInv'
  <2>1. /\ vga.row \in Int /\ vga'.row \in Int /\ vga'.row >= vga.row /\ vga'.col = 0
        /\ vga'.row > 0 /\ Sound(vga')
    BY <1>0, <1>1 DEF Sound, Screen
  <2> QED
    BY <2>1 DEF IndInv, BoundInv
<1>4. SteadyInv'
  <2> SUFFICES ASSUME Steady' PROVE SteadyInv'
    BY DEF SteadyInv
  <2>1. ~Inside
    BY DEF Steady
  <2>2. pc' \in {"poll", "dispatch", "print", "cleared", "remove", "removed"}
    BY <2>1 DEF Inside
  <2>3. vga'.col >= 0
    BY <1>1
  <2> QED
    BY <2>2, <2>3 DEF SteadyInv
<1>5. RowStartInv'
  BY <1>1 DEF IndInv, RowStartInv
<1>6. LineInv'
  BY DEF IndInv, LineInv
<1>7. CleanInv'
  <2> SUFFICES ASSUME ~torn' PROVE CleanFrom(vga, Edge)'
    BY DEF CleanInv
  <2>1. ~torn /\ ~Inside
    BY DEF Inside
  <2>2. pc # "last_col" /\ pc \notin Moved
    BY <2>1 DEF Inside, Moved
  <2>3. Edge = Position(vga) /\ Edge' = Position(vga')
    BY <2>2 DEF Edge, Position
  <2>4. CleanFrom(vga, Position(vga)) /\ vga.col >= 0
    BY <2>1, <2>3 DEF IndInv, CleanInv, SteadyInv, Steady
  <2> QED
    BY <1>1, <2>3, <2>4 DEF CleanFrom
<1> QED
  BY <1>2, <1>3, <1>4, <1>5, <1>6, <1>7 DEF IndInv

LEMMA WorkerStep ==
    ASSUME IndInv, worker_once PROVE IndInv'
<1>1. WorkerText \in Seq({Text, NL}) /\ EndsLine(WorkerText)
  BY DEF WorkerText, EndsLine
<1> QED
  BY <1>1, OthersStep DEF worker_once, elsewhere, command

LEMMA ReaperStep ==
    ASSUME IndInv, reaper_thread PROVE IndInv'
<1>1. KfreeText \in Seq({Text, NL}) /\ EndsLine(KfreeText)
  BY DEF KfreeText, EndsLine
<1> QED
  BY <1>1, OthersStep DEF reaper_thread, elsewhere, command

-----------------------------------------------------------------------------
(* removeChar                                                              *)

\* Where a call of removeChar ends, and how far the screen is clean.
LEMMA LandingIs ==
    ASSUME Sound(vga), vga.col >= 0
    PROVE  /\ Position(vga) = Base(vga.row) + vga.col
           /\ Position(vga) \in Int /\ Position(vga) >= 0
           /\ Position(vga) < Base(Rows) /\ Base(Rows) \in Int
           /\ Base(vga.row) \in Int /\ Base(vga.row) >= 0
           /\ Base(vga.row) + Cols <= Base(Rows)
           /\ Landing \in Int /\ Landing < Base(Rows)
<1>0. /\ vga.row \in 0..(Rows - 1) /\ vga.col \in Int
      /\ vga.row \in Int /\ vga.row < Rows /\ Rows \in Int /\ Cols \in Int /\ Cols >= 2
  BY Sizes DEF Sound, Screen
<1>1. Position(vga) = Base(vga.row) + vga.col /\ Position(vga) \in Cell
  BY PositionIs
<1>2. Position(vga) \in Int /\ Position(vga) >= 0 /\ Position(vga) < Base(Rows)
  BY <1>1, Cells
<1>3. Base(vga.row) \in Int /\ Base(vga.row) >= 0 /\ Base(Rows) \in Int
  BY <1>0, BaseIs, Bases
<1>4. Base(vga.row) + Cols <= Base(Rows)
  BY <1>0, Bases
<1>5. Landing \in {0, Position(vga) - 1, Position(vga), Base(vga.row) + Cols - 1}
  BY DEF Landing, Base
<1>6. Landing \in Int /\ Landing < Base(Rows)
  <2>1. CASE Landing = 0
    BY <1>2, <1>3, <2>1
  <2>2. CASE Landing = Position(vga) - 1
    BY <1>2, <1>3, <2>2
  <2>3. CASE Landing = Position(vga)
    BY <1>2, <1>3, <2>3
  <2>4. CASE Landing = Base(vga.row) + Cols - 1
    BY <1>0, <1>3, <1>4, <2>4
  <2> QED
    BY <1>5, <2>1, <2>2, <2>3, <2>4
<1> QED
  BY <1>1, <1>2, <1>3, <1>4, <1>6

\* A step inside of a call keeps where the call will end.
LEMMA InsideStep ==
    ASSUME IndInv, pc \in Removing, pc' \in Removing,
           UNCHANGED <<linebuf, out, erasures, at, mixed, torn>>,
           tmp' \in Int, BoundInv', SteadyInv',
           Steady => /\ Landing' = Landing
                     /\ \A i \in Cell : i < Landing => vga'.cells[i] = vga.cells[i],
           ~torn => CleanFrom(vga', Edge')
    PROVE  IndInv'
<1>1. TypeInv'
  BY DEF IndInv, TypeInv, Place
<1>2. RowStartInv'
  BY DEF RowStartInv, Removing, Before, Moved
<1>3. LineInv'
  <2>0. pc' \notin {"poll", "cleared"}
    BY DEF Removing, Before, Moved
  <2>1. ASSUME ~mixed, erasures = 0
        PROVE  Shows(vga', Landing', linebuf')
    <3>1. Shows(vga, Landing, linebuf) /\ Landing' = Landing /\ linebuf' = linebuf
      BY <2>1 DEF IndInv, LineInv, Steady
    <3>2. vga.col >= 0 /\ Sound(vga) /\ linebuf \in Seq(Key)
      BY <2>1 DEF IndInv, SteadyInv, Steady, BoundInv, TypeInv
    <3>3. PICK r \in 0..(Rows - 1) :
            Landing = Base(r) + Len(linebuf) /\ ShowsFrom(vga, r, linebuf)
      BY <3>1, <3>2, ShowsIs
    <3>4. /\ Base(r) \in Int /\ Base(r) >= 0
          /\ Base(Rows) \in Int /\ Landing \in Int /\ Landing < Base(Rows)
      BY <3>2, BaseIs, LandingIs
    <3>5. ASSUME NEW i \in 1..Len(linebuf)
          PROVE  vga'.cells[Base(r) + i - 1] = vga.cells[Base(r) + i - 1]
      <4>1. i \in Int /\ i >= 1 /\ i <= Len(linebuf) /\ Len(linebuf) \in Int
        BY <3>2
      <4>2. /\ Base(r) + i - 1 \in Int /\ 0 <= Base(r) + i - 1
            /\ Base(r) + i - 1 < Landing
        BY <3>3, <3>4, <4>1
      <4>3. Base(r) + i - 1 < Base(Rows)
        BY <3>4, <4>2
      <4>4. Base(r) + i - 1 \in Cell
        BY <4>2, <4>3, Cells
      <4> QED
        BY <2>1, <4>2, <4>4 DEF Steady
    <3>6. ShowsFrom(vga', r, linebuf)
      BY <3>3, <3>5 DEF ShowsFrom
    <3> QED
      BY <3>1, <3>2, <3>3, <3>6, ShowsIs
  <2>2. ASSUME ~mixed, erasures > 0
        PROVE  Landing' <= erasures' - 1
    BY <2>2 DEF IndInv, LineInv, Steady
  <2> QED
    BY <2>0, <2>1, <2>2 DEF LineInv, IndInv
<1>4. CleanInv'
  BY DEF CleanInv, CleanFrom
<1> QED
  BY <1>1, <1>2, <1>3, <1>4 DEF IndInv

\* A step that only reads the screen.
LEMMA ReadStep ==
    ASSUME IndInv, pc \in Removing, pc' \in Removing,
           UNCHANGED <<vga, linebuf, out, erasures, at, mixed, torn>>,
           tmp' \in Int, BoundInv', SteadyInv',
           Steady => Landing' = Landing, Steady => Edge' = Edge
    PROVE  IndInv'
<1>1. ~torn => CleanFrom(vga', Edge')
  BY DEF IndInv, CleanInv, Steady
<1> QED
  BY <1>1, InsideStep

\* The steps that only test the cursor.
LEMMA TestStep ==
    ASSUME IndInv, remove_row \/ remove_below \/ remove_col
    PROVE  IndInv'
<1> USE DEF Access, remove_nothing, others, command, BelowTop
<1>0. /\ pc \in {"remove", "below", "top"}
      /\ pc' \in {"below", "top", "up", "left", "removed"}
      /\ UNCHANGED <<vga, tmp, linebuf, out, erasures, at, mixed, torn>>
  BY DEF remove_row, remove_below, remove_col
<1>1. pc \in Removing /\ pc' \in Removing /\ tmp' \in Int
  BY <1>0 DEF Removing, Before, Moved, IndInv, TypeInv
<1>2. vga.row \in Int /\ vga.col \in Int /\ Sound(vga)
  BY DEF IndInv, BoundInv, Sound, Screen
<1>3. /\ pc' \in {"below", "up"} => vga.row > 0
      /\ pc' = "up" => vga.col = 0
      /\ pc' = "left" => vga.col > 0
      /\ pc = "top" => pc' = "left" \/ (pc' = "removed" /\ vga.col <= 0)
      /\ pc' = "removed" => pc = "top"
      /\ pc' = "top" => vga.col # 0 \/ ~(vga.row > 0)
  <2>1. CASE remove_row
    BY <2>1 DEF remove_row
  <2>2. CASE remove_below
    BY <2>2 DEF remove_below, IndInv, BoundInv
  <2>3. CASE remove_col
    BY <2>3 DEF remove_col
  <2> QED
    BY <2>1, <2>2, <2>3
<1>4. BoundInv'
  BY <1>0, <1>2, <1>3 DEF BoundInv
<1>5. SteadyInv'
  <2>1. vga.row >= 0
    BY <1>2 DEF Sound
  <2> QED
    BY <1>0, <1>2, <1>3, <2>1 DEF IndInv, SteadyInv, Steady
<1>6. Edge' = Edge
  BY <1>0 DEF Edge, Moved, Position
<1>7. Steady => Landing' = Landing
  <2>1. CASE pc' # "removed"
    BY <1>0, <2>1 DEF Landing, Before, Position
  <2>2. ASSUME pc' = "removed", Steady
        PROVE  Landing' = Landing
    <3>1. vga.col = 0 /\ vga.row = 0
      BY <1>2, <1>3, <2>2 DEF IndInv, SteadyInv
    <3>2. Position(vga) = 0
      BY <3>1, RowBase DEF Position
    <3>3. Landing = 0
      BY <1>0, <3>2 DEF Landing, Before
    <3>4. Landing' = Position(vga')
      BY <2>2 DEF Landing, Before, Position
    <3> QED
      BY <1>0, <3>2, <3>3, <3>4
  <2> QED
    BY <2>1, <2>2
<1> QED
  BY <1>0, <1>1, <1>4, <1>5, <1>6, <1>7, ReadStep

\* The steps that load the row or the column.
LEMMA LoadStep ==
    ASSUME IndInv, remove_up_load \/ remove_left_load
    PROVE  IndInv'
<1>0. /\ \/ pc = "up" /\ pc' = "up_store" /\ tmp' = vga.row
         \/ pc = "left" /\ pc' = "left_store" /\ tmp' = vga.col
      /\ UNCHANGED <<vga, linebuf, out, erasures, at, mixed, torn>>
  BY DEF remove_up_load, remove_left_load, Access, others, command
<1>1. pc \in Removing /\ pc' \in Removing
  BY <1>0 DEF Removing, Before, Moved
<1>2. vga.row \in Int /\ vga.col \in Int /\ Sound(vga) /\ Rows \in Int /\ Cols \in Int
  BY Sizes DEF IndInv, BoundInv, Sound, Screen
<1>3. /\ vga.row >= 0 /\ vga.row <= Rows - 1 /\ vga.col <= Cols - 1
      /\ pc = "up" => vga.row > 0 /\ vga.col >= 0
      /\ pc = "left" => vga.col >= 0 /\ (vga.col = 0 => vga.row > 0)
  BY <1>2 DEF IndInv, BoundInv, Sound
<1>4. BoundInv'
  BY <1>0, <1>2, <1>3 DEF BoundInv
<1>5. SteadyInv'
  BY <1>0, <1>3 DEF IndInv, SteadyInv, Steady
<1>6. Landing' = Landing /\ Edge' = Edge
  BY <1>0 DEF Landing, Edge, Before, Moved, Position
<1> QED
  BY <1>0, <1>1, <1>2, <1>4, <1>5, <1>6, ReadStep

\* The steps that compute the address of the cell.
LEMMA AddressStep ==
    ASSUME IndInv, remove_erase_row \/ remove_erase_col
    PROVE  IndInv'
<1>0. /\ \/ pc = "erase_row" /\ pc' = "erase_col" /\ tmp' = vga.row * Cols
         \/ pc = "erase_col" /\ pc' = "erase" /\ tmp' = tmp + vga.col
      /\ UNCHANGED <<vga, linebuf, out, erasures, at, mixed, torn>>
  BY DEF remove_erase_row, remove_erase_col, Access, others, command
<1>1. pc \in Removing /\ pc' \in Removing
  BY <1>0 DEF Removing, Before, Moved
<1>2. /\ vga.row \in Int /\ vga.col \in Int /\ Sound(vga) /\ tmp \in Int
      /\ vga.row \in 0..(Rows - 1) /\ vga.col >= -1 /\ vga.col <= Cols - 1
      /\ (vga.col = -1 => vga.row > 0) /\ Cols \in Int /\ Rows \in Int
  BY Sizes DEF IndInv, BoundInv, TypeInv, Sound, Screen
<1>3. tmp' \in Int
  BY <1>0, <1>2, RowBase
<1>4. pc' = "erase" => tmp' \in Cell
  <2> SUFFICES ASSUME pc' = "erase" PROVE tmp + vga.col \in Cell
    BY <1>0
  <2>1. PICK r \in 0..(Rows - 1) : tmp = Base(r) /\ (vga.col = -1 => r > 0)
    BY <1>0 DEF IndInv, BoundInv, Base
  <2>2. CASE vga.col >= 0
    <3>1. vga.col \in 0..(Cols - 1)
      BY <1>2, <2>2
    <3> QED
      BY <2>1, <3>1, CellOf
  <2>3. CASE vga.col = -1
    <3>1. r - 1 \in 0..(Rows - 1) /\ Cols - 1 \in 0..(Cols - 1) /\ r \in Int
      BY <1>2, <2>1, <2>3, Sizes
    <3>2. Base(r - 1) = Base(r) - Cols /\ Base(r) \in Int
      BY <3>1, Bases
    <3>3. Base(r - 1) + (Cols - 1) \in Cell
      BY <3>1, CellOf
    <3>4. Base(r - 1) + (Cols - 1) = tmp + vga.col
      BY <1>2, <2>1, <2>3, <3>2
    <3> QED
      BY <3>3, <3>4
  <2> QED
    BY <1>2, <2>2, <2>3
<1>5. BoundInv'
  BY <1>0, <1>2, <1>4 DEF BoundInv
<1>6. SteadyInv'
  BY <1>0 DEF IndInv, SteadyInv, Steady, Position
<1>7. Landing' = Landing /\ Edge' = Edge
  BY <1>0 DEF Landing, Edge, Before, Moved, Position
<1> QED
  BY <1>0, <1>1, <1>3, <1>5, <1>6, <1>7, ReadStep

\* vga.row = tmp - 1.
LEMMA UpStep ==
    ASSUME IndInv, remove_up_store
    PROVE  IndInv'
<1>0. /\ pc = "up_store" /\ pc' = "last_col" /\ vga' = [vga EXCEPT !.row = tmp - 1]
      /\ tmp' = 0
      /\ UNCHANGED <<linebuf, out, erasures, at, mixed, torn>>
  BY DEF remove_up_store, Access, others, command
<1>1. pc \in Removing /\ pc' \in Removing /\ tmp' \in Int
  BY <1>0 DEF Removing, Before, Moved
<1>2. /\ vga \in Screen /\ vga.row \in Int /\ vga.col \in Int /\ Sound(vga)
      /\ Rows \in Int /\ Cols \in Int /\ vga.col >= 0 /\ vga.col <= Cols - 1
      /\ tmp \in Int /\ tmp >= 1 /\ tmp <= Rows - 1 /\ ~vga.stray
  <2>1. Sound(vga)
    BY DEF IndInv, BoundInv
  <2>2. /\ vga \in Screen /\ vga.row \in Int /\ vga.col \in Int /\ ~vga.stray
        /\ Rows \in Int /\ Cols \in Int /\ Cols >= 2 /\ vga.col <= Cols - 1
    BY <2>1, SoundIs, Sizes
  <2>3. tmp \in 1..(Rows - 1) /\ vga.col >= 0
    BY <1>0 DEF IndInv, BoundInv
  <2> QED
    BY <2>1, <2>2, <2>3
<1>3. /\ vga' \in Screen /\ vga'.row = tmp - 1 /\ vga'.col = vga.col
      /\ vga'.cells = vga.cells /\ vga'.stray = vga.stray
  BY <1>0, <1>2 DEF Screen
<1>4. Sound(vga')
  BY <1>2, <1>3 DEF Sound
<1>5. BoundInv'
  BY <1>0, <1>4 DEF BoundInv
<1>6. SteadyInv'
  BY <1>0, <1>2, <1>3 DEF SteadyInv
<1>7. ASSUME Steady
      PROVE  Landing' = Landing /\ Edge' = Edge
  <2>1. tmp = vga.row /\ vga.row > 0 /\ vga.col = 0
    BY <1>0, <1>7 DEF IndInv, SteadyInv
  <2>2. Base(vga.row - 1) = Base(vga.row) - Cols /\ Base(vga.row) \in Int
    BY <1>2, Bases
  <2>3. Base(0) + Cols <= Base(vga.row) /\ Base(0) = 0
    BY <1>2, <2>1, Bases
  <2>4. Position(vga) = Base(vga.row) + 0
    BY <2>1 DEF Position, Base
  <2>5. Position(vga) # 0 /\ Position(vga) \in Int
    BY <2>2, <2>3, <2>4, Sizes
  <2>6. Landing = Position(vga) - 1 /\ Edge = Position(vga)
    BY <1>0, <2>5 DEF Landing, Edge, Before, Moved
  <2>7. Landing' = Base(vga.row - 1) + Cols - 1 /\ Edge' = Base(vga.row - 1) + Cols
    BY <1>0, <1>3, <2>1 DEF Landing, Edge, Before, Base
  <2> QED
    BY <1>2, <2>2, <2>4, <2>6, <2>7
<1>8. ~torn => CleanFrom(vga', Edge')
  BY <1>3, <1>7 DEF IndInv, CleanInv, CleanFrom, Steady
<1> QED
  BY <1>0, <1>1, <1>3, <1>5, <1>6, <1>7, <1>8, InsideStep

\* vga.col = 79.
LEMMA LastColStep ==
    ASSUME IndInv, remove_last_col
    PROVE  IndInv'
<1>0. /\ pc = "last_col" /\ pc' = "erase_row" /\ vga' = [vga EXCEPT !.col = Cols - 1]
      /\ UNCHANGED <<tmp, linebuf, out, erasures, at, mixed, torn>>
  BY DEF remove_last_col, Access, others, command
<1>1. pc \in Removing /\ pc' \in Removing /\ tmp' \in Int
  BY <1>0 DEF Removing, Before, Moved, IndInv, TypeInv
<1>2. /\ vga \in Screen /\ vga.row \in Int /\ vga.col \in Int /\ Sound(vga)
      /\ Rows \in Int /\ Cols \in Int /\ Cols >= 2 /\ ~vga.stray
  <2>1. Sound(vga)
    BY DEF IndInv, BoundInv
  <2>2. /\ vga \in Screen /\ vga.row \in Int /\ vga.col \in Int /\ ~vga.stray
        /\ Rows \in Int /\ Cols \in Int /\ Cols >= 2 /\ vga.col <= Cols - 1
    BY <2>1, SoundIs, Sizes
  <2> QED
    BY <2>1, <2>2
<1>3. /\ vga' \in Screen /\ vga'.row = vga.row /\ vga'.col = Cols - 1
      /\ vga'.cells = vga.cells /\ vga'.stray = vga.stray
  BY <1>0, <1>2 DEF Screen
<1>4. Sound(vga')
  BY <1>2, <1>3 DEF Sound
<1>5. BoundInv'
  BY <1>0, <1>4 DEF BoundInv
<1>6. SteadyInv'
  BY <1>0, <1>2, <1>3 DEF SteadyInv
<1>7. Landing' = Landing /\ Edge' = Edge
  <2>1. Base(vga.row) \in Int
    BY <1>2, Bases
  <2>2. Position(vga') = Base(vga.row) + (Cols - 1)
    BY <1>3 DEF Position, Base
  <2>3. Landing = Base(vga.row) + Cols - 1 /\ Edge = Base(vga.row) + Cols
    BY <1>0 DEF Landing, Edge, Before, Base
  <2>4. Landing' = Position(vga') /\ Edge' = Position(vga') + 1
    BY <1>0 DEF Landing, Edge, Before, Moved, Position
  <2> QED
    BY <1>2, <2>1, <2>2, <2>3, <2>4
<1>8. ~torn => CleanFrom(vga', Edge')
  BY <1>3, <1>7 DEF IndInv, CleanInv, CleanFrom
<1> QED
  BY <1>0, <1>1, <1>3, <1>5, <1>6, <1>7, <1>8, InsideStep

\* vga.col = tmp - 1.
LEMMA LeftStep ==
    ASSUME IndInv, remove_left_store
    PROVE  IndInv'
<1>0. /\ pc = "left_store" /\ pc' = "erase_row" /\ vga' = [vga EXCEPT !.col = tmp - 1]
      /\ tmp' = 0
      /\ UNCHANGED <<linebuf, out, erasures, at, mixed, torn>>
  BY DEF remove_left_store, Access, others, command
<1>1. pc \in Removing /\ pc' \in Removing /\ tmp' \in Int
  BY <1>0 DEF Removing, Before, Moved
<1>2. /\ vga \in Screen /\ vga.row \in Int /\ vga.col \in Int /\ Sound(vga)
      /\ Rows \in Int /\ Cols \in Int
      /\ tmp \in Int /\ tmp >= 0 /\ tmp <= Cols - 1 /\ (tmp = 0 => vga.row > 0)
      /\ ~vga.stray
  <2>1. Sound(vga)
    BY DEF IndInv, BoundInv
  <2>2. /\ vga \in Screen /\ vga.row \in Int /\ vga.col \in Int /\ ~vga.stray
        /\ Rows \in Int /\ Cols \in Int /\ Cols >= 2 /\ vga.col <= Cols - 1
    BY <2>1, SoundIs, Sizes
  <2>3. tmp \in 0..(Cols - 1) /\ (tmp = 0 => vga.row > 0)
    BY <1>0 DEF IndInv, BoundInv
  <2> QED
    BY <2>1, <2>2, <2>3
<1>3. /\ vga' \in Screen /\ vga'.row = vga.row /\ vga'.col = tmp - 1
      /\ vga'.cells = vga.cells /\ vga'.stray = vga.stray
  BY <1>0, <1>2 DEF Screen
<1>4. Sound(vga')
  BY <1>2, <1>3 DEF Sound
<1>5. BoundInv'
  BY <1>0, <1>4 DEF BoundInv
<1>6. SteadyInv'
  <2> SUFFICES ASSUME Steady' PROVE vga'.col >= 0
    BY <1>0 DEF SteadyInv
  <2>1. tmp = vga.col /\ vga.col > 0
    BY <1>0 DEF IndInv, SteadyInv, Steady
  <2> QED
    BY <1>2, <1>3, <2>1
<1>7. ASSUME Steady
      PROVE  Landing' = Landing /\ Edge' = Edge
  <2>1. tmp = vga.col /\ vga.col > 0
    BY <1>0, <1>7 DEF IndInv, SteadyInv
  <2>2. Base(vga.row) \in Int /\ Base(vga.row) >= 0
    BY <1>2, BaseIs DEF Sound
  <2>3. Position(vga) = Base(vga.row) + vga.col /\ Position(vga') = Base(vga.row) + (vga.col - 1)
    BY <1>3, <2>1 DEF Position, Base
  <2>4. Position(vga) # 0 /\ Position(vga') = Position(vga) - 1 /\ Position(vga) \in Int
    BY <1>2, <2>1, <2>2, <2>3
  <2>5. Landing = Position(vga) - 1 /\ Edge = Position(vga)
    BY <1>0, <2>4 DEF Landing, Edge, Before, Moved
  <2>6. Landing' = Position(vga') /\ Edge' = Position(vga') + 1
    BY <1>0 DEF Landing, Edge, Before, Moved, Position
  <2> QED
    BY <2>4, <2>5, <2>6
<1>8. ~torn => CleanFrom(vga', Edge')
  BY <1>3, <1>7 DEF IndInv, CleanInv, CleanFrom, Steady
<1> QED
  BY <1>0, <1>1, <1>3, <1>5, <1>6, <1>7, <1>8, InsideStep

\* The blank goes to the cell of the cursor.
LEMMA EraseStep ==
    ASSUME IndInv, remove_erase
    PROVE  IndInv'
<1>0. /\ pc = "erase" /\ pc' = "removed" /\ vga' = Put(vga, tmp, Blank) /\ tmp' = 0
      /\ UNCHANGED <<linebuf, out, erasures, at, mixed, torn>>
  BY DEF remove_erase, Access, others, command
<1>1. pc \in Removing /\ pc' \in Removing /\ tmp' \in Int
  BY <1>0 DEF Removing, Before, Moved
<1>2. vga \in Screen /\ Sound(vga) /\ tmp \in Cell /\ vga.cells \in [Cell -> Symbol]
  BY <1>0 DEF IndInv, BoundInv, Sound, Screen
<1>3. /\ vga' \in Screen /\ vga'.row = vga.row /\ vga'.col = vga.col
      /\ vga'.cells = [vga.cells EXCEPT ![tmp] = Blank] /\ vga'.stray = vga.stray
  <2>1. Blank \in Symbol
    BY Symbols
  <2>2. /\ vga' = [row |-> vga.row, col |-> vga.col,
                   cells |-> [vga.cells EXCEPT ![tmp] = Blank], stray |-> vga.stray]
        /\ vga' \in Screen
    BY <1>0, <1>2, <2>1, PutIs
  <2> QED
    BY <2>2
<1>4. Sound(vga') /\ Position(vga') = Position(vga)
  BY <1>2, <1>3 DEF Sound, Position
<1>5. BoundInv'
  BY <1>0, <1>4 DEF BoundInv
<1>6. SteadyInv'
  BY <1>0, <1>3 DEF IndInv, SteadyInv, Steady
<1>7. /\ Landing = Position(vga) /\ Edge = Position(vga) + 1
      /\ Landing' = Position(vga') /\ Edge' = Position(vga')
  BY <1>0 DEF Landing, Edge, Before, Moved, Position
<1>p. Position(vga) \in Int
  BY <1>2, PositionIs, Cells
<1>8. Steady => tmp = Position(vga)
  BY <1>0 DEF IndInv, SteadyInv
<1>9. ASSUME Steady
      PROVE  \A i \in Cell : i < Landing => vga'.cells[i] = vga.cells[i]
  <2>1. \A i \in Cell : i < Landing => i # tmp
    BY <1>p, <1>7, <1>8, <1>9
  <2> QED
    BY <1>2, <1>3, <2>1
<1>10. ASSUME ~torn
       PROVE  CleanFrom(vga', Edge')
  <2>1. tmp = Position(vga) /\ CleanFrom(vga, Position(vga) + 1)
    BY <1>7, <1>8, <1>10 DEF IndInv, CleanInv, Steady
  <2>2. ASSUME NEW i \in Cell, i >= Position(vga)
        PROVE  vga'.cells[i] \notin Letter \cup {Text}
    <3>1. CASE i = tmp
      BY <1>2, <1>3, <3>1, Symbols
    <3>2. CASE i # tmp
      <4>1. i >= Position(vga) + 1
        BY <1>p, <2>1, <2>2, <3>2, Cells
      <4>2. vga'.cells[i] = vga.cells[i]
        BY <1>2, <1>3, <3>2
      <4> QED
        BY <2>1, <4>1, <4>2 DEF CleanFrom
    <3> QED
      BY <3>1, <3>2
  <2> QED
    BY <1>4, <1>7, <2>2 DEF CleanFrom
<1> QED
  BY <1>0, <1>1, <1>4, <1>5, <1>6, <1>7, <1>9, <1>10, InsideStep

\* Back to the loop of cmd_clear, or to shell_run.
LEMMA ReturnStep ==
    ASSUME IndInv, remove_return
    PROVE  IndInv'
<1>0. /\ pc = "removed"
      /\ \/ erasures > 1 /\ pc' = "remove" /\ erasures' = erasures - 1
         \/ erasures = 1 /\ pc' = "cleared" /\ erasures' = 0
         \/ erasures = 0 /\ pc' = "poll" /\ erasures' = erasures
      /\ UNCHANGED <<vga, tmp, linebuf, out, at, mixed, torn>>
  BY DEF remove_return, Countdown, others
<1>1. erasures \in Nat /\ Sound(vga)
  BY DEF IndInv, TypeInv, BoundInv
<1>2. TypeInv'
  BY <1>0, <1>1 DEF IndInv, TypeInv, Place, Removing, Before, Moved
<1>3. BoundInv'
  BY <1>0, <1>1 DEF BoundInv
<1>4. SteadyInv'
  BY <1>0 DEF IndInv, SteadyInv, Steady
<1>5. RowStartInv'
  BY <1>0 DEF RowStartInv
<1>6. Landing = Position(vga)
  BY <1>0 DEF Landing, Before
<1>7. LineInv'
  <2> SUFFICES ASSUME ~mixed PROVE LineInv'
    BY <1>0 DEF LineInv, Removing, Before, Moved
  <2>1. vga.col >= 0
    BY DEF IndInv, SteadyInv, Steady
  <2>2. Position(vga) \in Int /\ Position(vga) >= 0
    BY <1>1, <2>1, LandingIs
  <2>3. pc \in Removing
    BY <1>0 DEF Removing
  <2>4. CASE erasures > 1
    <3>1. Position(vga) <= erasures - 1
      BY <1>1, <1>6, <2>3, <2>4 DEF IndInv, LineInv
    <3>2. Landing' = IF Position(vga) = 0 THEN 0 ELSE Position(vga) - 1
      BY <1>0, <2>4, <1>1 DEF Landing, Before, Position
    <3>3. Landing' <= erasures' - 1 /\ erasures' > 0
      BY <1>0, <1>1, <2>2, <2>4, <3>1, <3>2
    <3>4. pc' = "remove"
      BY <1>0, <1>1, <2>4
    <3> QED
      BY <3>3, <3>4 DEF LineInv, Removing, Before
  <2>5. CASE erasures = 1
    <3>1. Position(vga) <= 0
      BY <1>1, <1>6, <2>2, <2>3, <2>5 DEF IndInv, LineInv
    <3>2. Position(vga)' = 0
      BY <1>0, <2>2, <3>1 DEF Position
    <3>3. pc' = "cleared" /\ erasures' = 0
      BY <1>0, <2>5
    <3> QED
      BY <3>2, <3>3 DEF LineInv, Removing, Before, Moved
  <2>6. CASE erasures = 0
    <3>1. Shows(vga, Position(vga), linebuf)
      BY <1>6, <2>3, <2>6 DEF IndInv, LineInv
    <3>2. pc' = "poll" /\ erasures' = 0
      BY <1>0, <2>6
    <3>3. Landing' = Position(vga)
      BY <1>0, <3>2 DEF Landing, Before, Position
    <3>4. Shows(vga', Landing', linebuf')
      BY <1>0, <3>1, <3>3
    <3> QED
      BY <3>2, <3>4 DEF LineInv, Removing, Before, Moved
  <2> QED
    BY <1>1, <2>4, <2>5, <2>6
<1>8. CleanInv'
  <2>1. Edge' = Edge
    BY <1>0 DEF Edge, Moved, Position
  <2> QED
    BY <1>0, <2>1 DEF IndInv, CleanInv, CleanFrom
<1> QED
  BY <1>2, <1>3, <1>4, <1>5, <1>7, <1>8 DEF IndInv

LEMMA RemoveStep ==
    ASSUME IndInv, removeChar
    PROVE  IndInv'
BY TestStep, LoadStep, AddressStep, UpStep, LastColStep, LeftStep, EraseStep, ReturnStep
   DEF removeChar

-----------------------------------------------------------------------------
(* The clock                                                               *)

\* A character of the clock is in the first row, and is not of the line.
LEMMA ClockStep ==
    ASSUME IndInv, print_at
    PROVE  IndInv'
<1>0. /\ ~AtEnd(at) /\ at' = at + 1 /\ vga' = Put(vga, at, Clock)
      /\ UNCHANGED <<pc, tmp, linebuf, out, erasures, mixed, torn>>
  BY DEF print_at, command
<1>1. at \in Nat /\ at >= ClockCol /\ at < Cols
  BY <1>0, Sizes DEF IndInv, TypeInv, AtEnd
<1>2. at \in Cell /\ at \in ClockCells
  <2>1. at \in ClockCells
    BY <1>1, Sizes DEF ClockCells
  <2>2. Base(Rows) \in Int /\ Base(Rows) >= 3 * Cols /\ Cols \in Int
    BY Bases, Sizes
  <2>3. at \in Int /\ 0 <= at /\ at < Base(Rows)
    BY <1>1, <2>2
  <2> QED
    BY <2>1, <2>3, Cells
<1>3. /\ vga \in Screen /\ Sound(vga) /\ vga.cells \in [Cell -> Symbol]
      /\ vga.row \in Int /\ vga.col \in Int
  BY DEF IndInv, BoundInv, Sound, Screen
<1>4. /\ vga' \in Screen /\ vga'.row = vga.row /\ vga'.col = vga.col
      /\ vga'.cells = [vga.cells EXCEPT ![at] = Clock] /\ vga'.stray = vga.stray
  <2>1. Clock \in Symbol
    BY Symbols
  <2>2. /\ vga' = [row |-> vga.row, col |-> vga.col,
                   cells |-> [vga.cells EXCEPT ![at] = Clock], stray |-> vga.stray]
        /\ vga' \in Screen
    BY <1>0, <1>2, <1>3, <2>1, PutIs
  <2> QED
    BY <2>2
<1>5. Sound(vga') /\ Position(vga') = Position(vga)
  BY <1>3, <1>4 DEF Sound, Position
<1>6. TypeInv'
  BY <1>0, <1>1, Sizes DEF IndInv, TypeInv
<1>7. BoundInv'
  BY <1>0, <1>4, <1>5 DEF IndInv, BoundInv
<1>8. SteadyInv'
  BY <1>0, <1>4, <1>5 DEF IndInv, SteadyInv, Steady
<1>9. RowStartInv'
  BY <1>0, <1>4 DEF IndInv, RowStartInv
<1>10. Landing' = Landing /\ Edge' = Edge
  BY <1>0, <1>4, <1>5 DEF Landing, Edge, Position
<1>11. ASSUME ~mixed, Shows(vga, Landing, linebuf)
       PROVE  Shows(vga', Landing', linebuf')
  <2>1. vga.col >= 0 /\ linebuf \in Seq(Key) /\ linebuf' = linebuf
    BY <1>0, <1>11 DEF IndInv, SteadyInv, Steady, TypeInv
  <2>2. PICK r \in 0..(Rows - 1) :
          Landing = Base(r) + Len(linebuf) /\ ShowsFrom(vga, r, linebuf)
    BY <1>11, <2>1, ShowsIs
  <2>3. /\ Base(r) \in Int /\ Base(r) >= 0
        /\ Base(Rows) \in Int /\ Landing \in Int /\ Landing < Base(Rows)
    BY <1>3, <2>1, BaseIs, LandingIs
  <2>4. ASSUME NEW i \in 1..Len(linebuf), Base(r) + i - 1 \notin ClockCells
        PROVE  vga'.cells[Base(r) + i - 1] = vga.cells[Base(r) + i - 1]
    <3>1. i \in Int /\ i >= 1 /\ i <= Len(linebuf) /\ Len(linebuf) \in Int
      BY <2>1
    <3>2. /\ Base(r) + i - 1 \in Int /\ 0 <= Base(r) + i - 1
          /\ Base(r) + i - 1 < Landing
      BY <2>2, <2>3, <3>1
    <3>3. Base(r) + i - 1 < Base(Rows)
      BY <2>3, <3>2
    <3>4. Base(r) + i - 1 \in Cell
      BY <3>2, <3>3, Cells
    <3> QED
      BY <1>2, <1>3, <1>4, <2>4, <3>4
  <2>5. ShowsFrom(vga', r, linebuf)
    BY <2>2, <2>4 DEF ShowsFrom
  <2> QED
    BY <1>10, <2>1, <2>2, <2>5, ShowsIs
<1>12. LineInv'
  BY <1>0, <1>5, <1>10, <1>11 DEF IndInv, LineInv
<1>13. CleanInv'
  <2> SUFFICES ASSUME ~torn PROVE CleanFrom(vga', Edge')
    BY <1>0 DEF CleanInv, CleanFrom
  <2>1. CleanFrom(vga, Edge)
    BY DEF IndInv, CleanInv
  <2>2. ASSUME NEW i \in Cell, i >= Edge
        PROVE  vga'.cells[i] \notin Letter \cup {Text}
    <3>1. CASE i = at
      BY <1>2, <1>3, <1>4, <3>1, Symbols
    <3>2. CASE i # at
      BY <1>2, <1>3, <1>4, <2>1, <2>2, <3>2 DEF CleanFrom
    <3> QED
      BY <3>1, <3>2
  <2> QED
    BY <1>10, <2>2 DEF CleanFrom
<1> QED
  BY <1>6, <1>7, <1>8, <1>9, <1>12, <1>13 DEF IndInv

\* A step that changes none of the variables of the invariant but at.
LEMMA SameStep ==
    ASSUME IndInv, at' \in Nat, at' >= ClockCol,
           UNCHANGED <<vga, pc, tmp, linebuf, out, erasures, mixed, torn>>
    PROVE  IndInv'
<1>1. Landing' = Landing /\ Edge' = Edge
  BY DEF Landing, Edge, Position
<1>2. LineInv'
  BY <1>1 DEF IndInv, LineInv
<1>3. CleanInv'
  BY <1>1 DEF IndInv, CleanInv
<1>4. TypeInv' /\ BoundInv' /\ SteadyInv' /\ RowStartInv'
  BY DEF IndInv, TypeInv, BoundInv, SteadyInv, Steady, RowStartInv
<1> QED
  BY <1>2, <1>3, <1>4 DEF IndInv

LEMMA RedrawStep ==
    ASSUME IndInv, clock_thread
    PROVE  IndInv'
<1>1. ClockCol \in Nat /\ ClockCol >= ClockCol
  BY Sizes
<1> QED
  BY <1>1, SameStep DEF clock_thread, command

-----------------------------------------------------------------------------
(* The line editor                                                         *)

\* While the shell polls, the cursor is where the line ends.
LEMMA PollIs ==
    ASSUME IndInv, pc = "poll"
    PROVE  /\ Landing = Position(vga) /\ Edge = Position(vga) /\ erasures = 0
           /\ Sound(vga) /\ linebuf \in Seq(Key) /\ (Steady => vga.col >= 0)
           /\ ~mixed => Shows(vga, Position(vga), linebuf)
           /\ ~torn => CleanFrom(vga, Position(vga))
<1>1. Landing = Position(vga) /\ Edge = Position(vga) /\ pc \notin Removing
  BY DEF Landing, Edge, Before, Moved, Removing
<1> QED
  BY <1>1 DEF IndInv, LineInv, CleanInv, SteadyInv, BoundInv, TypeInv

\* Back at the keyboard.
LEMMA PollStep ==
    ASSUME IndInv, pc' = "poll", Sound(vga'), Steady' => vga'.col >= 0,
           erasures' = 0, linebuf' \in Seq(Key), Len(linebuf') <= LineMax,
           ~mixed' => Shows(vga', Position(vga'), linebuf'),
           ~torn' => CleanFrom(vga', Position(vga')),
           out' \in Seq(Seq({Text, NL})), mixed' \in BOOLEAN, UNCHANGED <<tmp, at, torn>>
    PROVE  IndInv'
<1>1. Landing' = Position(vga') /\ Edge' = Position(vga') /\ pc' \notin Removing
  BY DEF Landing, Edge, Before, Moved, Removing, Position
<1>2. TypeInv'
  BY DEF IndInv, TypeInv, Place
<1>3. BoundInv' /\ SteadyInv' /\ RowStartInv'
  BY DEF BoundInv, SteadyInv, RowStartInv
<1>4. LineInv'
  BY <1>1 DEF LineInv
<1>5. CleanInv'
  BY <1>1 DEF CleanInv, CleanFrom
<1> QED
  BY <1>2, <1>3, <1>4, <1>5 DEF IndInv

LEMMA CharStep ==
    ASSUME IndInv, NEW c \in Letter \cup {Blank}, shell_run_char(c)
    PROVE  IndInv'
<1>0. /\ pc = "poll" /\ ~Full(linebuf) /\ linebuf' = Append(linebuf, c)
      /\ vga' = mapToVGA(vga, c)
      /\ UNCHANGED <<pc, tmp, out, erasures, at, mixed, torn>>
  BY PrintedOne DEF shell_run_char, print, command, others
<1>1. c \in Key /\ c \in Symbol
  BY Symbols DEF Key
<1>2. Sound(vga') /\ vga'.col >= 0
  BY <1>0, <1>1, MapSound DEF IndInv, BoundInv
<1>3. linebuf \in Seq(Key) /\ Len(linebuf) < LineMax /\ Len(linebuf) \in Nat
  BY <1>0, Sizes DEF IndInv, TypeInv, Full
<1>4. linebuf' \in Seq(Key) /\ Len(linebuf') <= LineMax
  BY <1>0, <1>1, <1>3, Sizes
<1>5. ~mixed => Shows(vga', Position(vga'), linebuf')
  <2> SUFFICES ASSUME ~mixed PROVE Shows(vga', Position(vga'), linebuf')
    OBVIOUS
  <2>1. Sound(vga) /\ vga.col >= 0 /\ Shows(vga, Position(vga), linebuf)
    BY <1>0, PollIs DEF Steady
  <2> QED
    BY <1>0, <1>1, <1>3, <2>1, MapShows
<1>6. ~torn => CleanFrom(vga', Position(vga'))
  <2> SUFFICES ASSUME ~torn PROVE CleanFrom(vga', Position(vga'))
    OBVIOUS
  <2>1. Sound(vga) /\ vga.col >= 0 /\ CleanFrom(vga, Position(vga))
    BY <1>0, PollIs DEF Steady
  <2> QED
    BY <1>0, <1>1, <2>1, MapClean
<1>7. erasures' = 0 /\ out' \in Seq(Seq({Text, NL})) /\ mixed' \in BOOLEAN
  BY <1>0, PollIs DEF IndInv, TypeInv
<1> QED
  BY <1>0, <1>2, <1>4, <1>5, <1>6, <1>7, PollStep

LEMMA PrefixIs ==
    ASSUME NEW S, NEW s \in Seq(S), NEW k \in 0..Len(s)
    PROVE  /\ SubSeq(s, 1, k) \in Seq(S) /\ Len(SubSeq(s, 1, k)) = k
           /\ \A i \in 1..k : SubSeq(s, 1, k)[i] = s[i]
<1> DEFINE t == SubSeq(s, 1, k)
<1>1. k \in Int /\ 1 \in Int /\ k >= 0 /\ Len(s) \in Int /\ \A i \in 1..k : s[i] \in S
  OBVIOUS
<1>2. /\ t \in Seq(S) /\ Len(t) = IF 1 <= k THEN k - 1 + 1 ELSE 0
      /\ \A i \in 1..(k - 1 + 1) : t[i] = s[1 + i - 1]
  BY <1>1, SubSeqProperties
<1> HIDE DEF t
<1>3. Len(t) = k
  BY <1>1, <1>2
<1>4. \A i \in 1..k : t[i] = s[i]
  BY <1>1, <1>2
<1> QED
  BY <1>2, <1>3, <1>4 DEF t

LEMMA BackspaceStep ==
    ASSUME IndInv, shell_run_backspace
    PROVE  IndInv'
<1> DEFINE shorter == SubSeq(linebuf, 1, Len(linebuf) - 1)
<1>0. /\ pc = "poll" /\ Len(linebuf) > 0 /\ linebuf' = shorter /\ pc' = "remove"
      /\ UNCHANGED <<vga, tmp, out, erasures, at, mixed, torn>>
  BY DEF shell_run_backspace, CanErase, command, others
<1>1. /\ linebuf \in Seq(Key) /\ Len(linebuf) \in Int /\ Len(linebuf) <= LineMax
      /\ erasures = 0 /\ Sound(vga)
  BY <1>0, PollIs DEF IndInv, TypeInv
<1>2. /\ shorter \in Seq(Key) /\ Len(shorter) = Len(linebuf) - 1
      /\ \A i \in 1..(Len(linebuf) - 1) : shorter[i] = linebuf[i]
  <2>1. Len(linebuf) - 1 \in 0..Len(linebuf)
    BY <1>0, <1>1
  <2> QED
    BY <1>1, <2>1, PrefixIs
<1> HIDE DEF shorter
<1>3. TypeInv'
  <2>1. Len(linebuf') <= LineMax
    BY <1>0, <1>1, <1>2, Sizes
  <2> QED
    BY <1>0, <1>2, <2>1 DEF IndInv, TypeInv, Place, Removing, Before
<1>4. BoundInv' /\ RowStartInv'
  BY <1>0, <1>1 DEF BoundInv, RowStartInv
<1>5. SteadyInv'
  BY <1>0 DEF IndInv, SteadyInv, Steady
<1>6. ASSUME ~mixed
      PROVE  Shows(vga', Landing', linebuf')
  <2>1. vga.col >= 0 /\ Shows(vga, Position(vga), linebuf)
    BY <1>0, <1>6, PollIs DEF Steady
  <2>2. PICK r \in 0..(Rows - 1) :
          Position(vga) = Base(r) + Len(linebuf) /\ ShowsFrom(vga, r, linebuf)
    BY <1>1, <2>1, ShowsIs
  <2>3. Base(r) \in Int /\ Base(r) >= 0
    BY BaseIs
  <2>4. Position(vga) # 0 /\ Position(vga) - 1 = Base(r) + Len(shorter)
    BY <1>0, <1>1, <1>2, <2>2, <2>3
  <2>5. Landing' = Position(vga) - 1
    BY <1>0, <2>4 DEF Landing, Before, Position
  <2>6. ShowsFrom(vga, r, shorter)
    BY <1>1, <1>2, <2>2 DEF ShowsFrom
  <2> QED
    BY <1>0, <1>2, <2>4, <2>5, <2>6, ShowsIs
<1>7. LineInv'
  BY <1>0, <1>1, <1>6 DEF LineInv, Removing, Before
<1>8. CleanInv'
  <2>1. Edge = Position(vga) /\ Edge' = Position(vga)
    BY <1>0 DEF Edge, Moved, Position
  <2> QED
    BY <1>0, <2>1 DEF IndInv, CleanInv, CleanFrom
<1> QED
  BY <1>3, <1>4, <1>5, <1>7, <1>8 DEF IndInv

\* When a line is over, its letters become text.
LEMMA AgedIs ==
    ASSUME NEW v, Sound(v)
    PROVE  /\ Sound(Aged(v)) /\ Aged(v).col = v.col /\ Position(Aged(v)) = Position(v)
           /\ \A p : CleanFrom(v, p) => CleanFrom(Aged(v), p)
<1> DEFINE cells == [i \in Cell |-> IF v.cells[i] \in Letter THEN Text ELSE v.cells[i]]
<1>0. v \in Screen /\ v.cells \in [Cell -> Symbol]
  BY DEF Sound, Screen
<1>1. cells \in [Cell -> Symbol]
  BY <1>0, Symbols
<1>2. \A i \in Cell : v.cells[i] \notin Letter \cup {Text} => cells[i] = v.cells[i]
  OBVIOUS
<1>3. Aged(v) = [v EXCEPT !.cells = cells]
  BY DEF Aged
<1> HIDE DEF cells
<1>4. /\ Aged(v) \in Screen /\ Aged(v).row = v.row /\ Aged(v).col = v.col
      /\ Aged(v).cells = cells /\ Aged(v).stray = v.stray
  BY <1>0, <1>1, <1>3 DEF Screen
<1>5. Sound(Aged(v)) /\ Position(Aged(v)) = Position(v)
  BY <1>4 DEF Sound, Position
<1>6. \A p : CleanFrom(v, p) => CleanFrom(Aged(v), p)
  BY <1>2, <1>4 DEF CleanFrom
<1> QED
  BY <1>4, <1>5, <1>6

LEMMA EnterStep ==
    ASSUME IndInv, shell_run_enter
    PROVE  IndInv'
<1>0. /\ pc = "poll" /\ vga' = mapToVGA(Aged(vga), NL) /\ pc' = "dispatch"
      /\ UNCHANGED <<tmp, linebuf, out, erasures, at, mixed, torn>>
  BY DEF shell_run_enter, command, others
<1>1. /\ Sound(Aged(vga)) /\ Position(Aged(vga)) = Position(vga)
      /\ Aged(vga).col = vga.col /\ erasures = 0
      /\ CleanFrom(vga, Position(vga)) => CleanFrom(Aged(vga), Position(vga))
  BY <1>0, PollIs, AgedIs
<1>2. Sound(vga') /\ vga'.col = 0
  BY <1>0, <1>1, MapSound
<1>3. TypeInv'
  BY <1>0 DEF IndInv, TypeInv, Place
<1>4. BoundInv' /\ RowStartInv' /\ SteadyInv'
  BY <1>0, <1>2 DEF BoundInv, RowStartInv, SteadyInv
<1>5. LineInv'
  BY <1>0, <1>1 DEF LineInv, Removing, Before, Moved
<1>6. CleanInv'
  <2> SUFFICES ASSUME ~torn PROVE CleanFrom(vga', Edge')
    BY <1>0 DEF CleanInv, CleanFrom
  <2>1. CleanFrom(vga, Position(vga)) /\ vga.col >= 0
    BY <1>0, PollIs DEF Steady
  <2>2. CleanFrom(Aged(vga), Position(Aged(vga))) /\ Aged(vga).col >= 0
    BY <1>1, <2>1
  <2>3. CleanFrom(vga', Position(vga'))
    BY <1>0, <1>1, <2>2, MapClean
  <2>4. Edge' = Position(vga')
    BY <1>0 DEF Edge, Moved, Position
  <2> QED
    BY <2>3, <2>4
<1> QED
  BY <1>3, <1>4, <1>5, <1>6 DEF IndInv

LEMMA NextLineStep ==
    ASSUME IndInv, shell_run_next
    PROVE  IndInv'
<1>0. /\ \/ pc = "print" /\ out = <<>>
         \/ pc = "cleared"
         \/ pc = "dispatch"
      /\ pc' = "poll" /\ linebuf' = <<>> /\ mixed' = (mixed /\ pc = "cleared")
      /\ UNCHANGED <<vga, tmp, out, erasures, at, torn>>
  BY DEF shell_run_next, command
<1>1. pc \notin Removing /\ pc # "last_col" /\ pc \notin Moved
  BY <1>0 DEF Removing, Before, Moved
<1>2. erasures' = 0 /\ Sound(vga') /\ out' \in Seq(Seq({Text, NL})) /\ mixed' \in BOOLEAN
  BY <1>0, <1>1 DEF IndInv, LineInv, BoundInv, TypeInv
<1>3. pc = "cleared" => (Steady' => Steady) /\ (~mixed' => ~mixed)
  BY <1>0 DEF Steady
<1>4. pc # "cleared" => vga.col = 0
  BY <1>0 DEF IndInv, RowStartInv
<1>5. Steady' => vga'.col >= 0
  BY <1>0, <1>3, <1>4 DEF IndInv, SteadyInv
<1>6. linebuf' \in Seq(Key) /\ Len(linebuf') <= LineMax /\ Len(linebuf') = 0
  BY <1>0, Sizes
<1>7. ASSUME ~mixed'
      PROVE  Shows(vga', Position(vga'), linebuf')
  <2>1. vga.row \in 0..(Rows - 1) /\ vga.row \in Int
    BY DEF IndInv, BoundInv, Sound, Screen
  <2>2. \E r \in 0..(Rows - 1) : Position(vga) = Base(r) + 0
    <3>1. CASE pc = "cleared"
      <4>1. Position(vga) = 0
        BY <1>3, <1>7, <3>1 DEF IndInv, LineInv
      <4>2. Base(0) = 0 /\ 0 \in 0..(Rows - 1)
        BY Bases, Sizes
      <4> QED
        BY <4>1, <4>2
    <3>2. CASE pc # "cleared"
      <4>1. Position(vga) = Base(vga.row) + 0
        BY <1>4, <3>2 DEF Position, Base
      <4> QED
        BY <2>1, <4>1
    <3> QED
      BY <3>1, <3>2
  <2>3. \A r : ShowsFrom(vga', r, linebuf')
    BY <1>6 DEF ShowsFrom
  <2> QED
    BY <1>0, <1>6, <2>2, <2>3, ShowsIs
<1>8. ~torn' => CleanFrom(vga', Position(vga'))
  <2>1. Edge = Position(vga)
    BY <1>1 DEF Edge
  <2> QED
    BY <1>0, <2>1 DEF IndInv, CleanInv
<1> QED
  BY <1>0, <1>2, <1>5, <1>6, <1>7, <1>8, PollStep

-----------------------------------------------------------------------------
(* The commands                                                            *)

\* A line with a space in it falls apart at the first one.
LEMMA SplitIs ==
    ASSUME NEW line \in Seq(Key)
    PROVE  /\ CommandWord(line) \in Seq(Key) /\ Argument(line) \in Seq(Key)
           /\ Argument(line) # <<>> =>
                line = CommandWord(line) \o <<Blank>> \o Argument(line)
<1>1. CASE Spaces(line) = {}
  BY <1>1 DEF CommandWord, Argument
<1>2. CASE Spaces(line) # {}
  <2> DEFINE T == Spaces(line)
             n == FirstSpace(line)
  <2>0. T \subseteq Nat /\ \A i \in T : i \in 1..Len(line) /\ line[i] = Blank
    BY DEF Spaces
  <2>1. \E x \in T : \A j \in T : x <= j
    <3> HIDE DEF T
    <3>1. PICK x \in T : \A y \in T : ~(<<y, x>> \in OpToRel(<, Nat))
      BY <1>2, <2>0, WFMin, NatLessThanWellFounded DEF T
    <3>2. \A y \in T : ~(y < x)
      BY <2>0, <3>1 DEF OpToRel
    <3>3. ASSUME NEW y \in T PROVE x <= y
      <4>1. x \in Nat /\ y \in Nat
        BY <2>0
      <4>2. ~(y < x)
        BY <3>2
      <4> QED
        BY <4>1, <4>2
    <3> QED
      BY <3>1, <3>3
  <2>2. n \in T
    BY <2>1 DEF FirstSpace
  <2> HIDE DEF n
  <2>3. n \in 1..Len(line) /\ line[n] = Blank /\ n \in Int /\ Len(line) \in Nat
    BY <2>0, <2>2
  <2>4. /\ CommandWord(line) = SubSeq(line, 1, n - 1)
        /\ Argument(line) = SubSeq(line, n + 1, Len(line))
    BY <1>2 DEF CommandWord, Argument, n
  <2>5. CommandWord(line) \in Seq(Key)
    <3>1. n - 1 \in 0..Len(line)
      BY <2>3
    <3> QED
      BY <2>4, <3>1, PrefixIs
  <2>6. Argument(line) \in Seq(Key)
    <3>1. n + 1 \in Int /\ Len(line) \in Int /\ \A i \in (n + 1)..Len(line) : line[i] \in Key
      BY <2>3
    <3> QED
      BY <2>4, <3>1, SubSeqProperties
  <2>7. SubSeq(line, 1, n) = SubSeq(line, 1, n - 1) \o <<Blank>>
    <3>1. 1 \in 1..Len(line) /\ n \in 1..Len(line)
      BY <2>3
    <3>2. SubSeq(line, 1, n) = SubSeq(line, 1, n - 1) \o <<line[n]>>
      BY <3>1, SubSeqRecursiveSecond
    <3> QED
      BY <2>3, <3>2
  <2>8. SubSeq(line, 1, n) \o SubSeq(line, n + 1, Len(line)) = SubSeq(line, 1, Len(line))
    <3>1. /\ 1 \in 1..(Len(line) + 1) /\ n \in (1 - 1)..Len(line)
          /\ Len(line) \in n..Len(line)
      BY <2>3
    <3> QED
      BY <3>1, ConcatAdjacentSubSeq
  <2>9. SubSeq(line, 1, Len(line)) = line
    BY SubSeqFull
  <2> QED
    BY <2>4, <2>5, <2>6, <2>7, <2>8, <2>9
<1> QED
  BY <1>1, <1>2

\* What a command prints: its last string ends a line.
LEMMA OutputIs ==
    ASSUME NEW cmd \in Seq(Key), NEW arg \in Seq(Key)
    PROVE  /\ Output(cmd, arg) \in Seq(Seq({Text, NL})) /\ Output(cmd, arg) # <<>>
           /\ EndsLine(Output(cmd, arg)[Len(Output(cmd, arg))])
<1> DEFINE S == Seq({Text, NL})
           o == Output(cmd, arg)
<1>1. <<Text, NL>> \in S /\ Word \in S /\ EndOfLine \in S
  BY DEF Word, EndOfLine
<1>2. \A s \in Seq(Key) : Phrase(s) \in S
  BY DEF Phrase
<1>3. EndsLine(<<Text, NL>>) /\ EndsLine(EndOfLine)
  BY DEF EndsLine, EndOfLine
<1>4. \/ o = <<<<Text, NL>>, Word, EndOfLine, Word, EndOfLine>>
      \/ o = <<Word, Word, EndOfLine>>
      \/ o = <<<<Text, NL>>>>
      \/ o = <<Word, Phrase(arg), Word, Word, EndOfLine>>
      \/ o = <<Word, Phrase(arg), EndOfLine>>
      \/ o = <<Word, Phrase(cmd), EndOfLine>>
  BY DEF Output
<1>5. Phrase(arg) \in S /\ Phrase(cmd) \in S
  BY <1>2
<1> HIDE DEF S, o
<1>6. ASSUME NEW a \in S, NEW b \in S, NEW c \in S, NEW d \in S, NEW e \in S, EndsLine(e),
             \/ o = <<e>> \/ o = <<a, b, e>> \/ o = <<a, b, c, d, e>>
      PROVE  o \in Seq(S) /\ o # <<>> /\ EndsLine(o[Len(o)])
  <2>1. CASE o = <<e>>
    BY <1>6, <2>1
  <2>2. CASE o = <<a, b, e>>
    BY <1>6, <2>2
  <2>3. CASE o = <<a, b, c, d, e>>
    BY <1>6, <2>3
  <2> QED
    BY <1>6, <2>1, <2>2, <2>3
<1>7. o \in Seq(S) /\ o # <<>> /\ EndsLine(o[Len(o)])
  BY <1>1, <1>3, <1>4, <1>5, <1>6
<1> QED
  BY <1>7 DEF o, S

LEMMA DispatchStep ==
    ASSUME IndInv, dispatch
    PROVE  IndInv'
<1> DEFINE cmd == CommandWord(linebuf)
           arg == Argument(linebuf)
<1>0. /\ pc = "dispatch"
      /\ \/ erasures' = Rows * Cols /\ pc' = "remove" /\ out' = out
         \/ out' = Output(cmd, arg) /\ pc' = "print" /\ erasures' = erasures
      /\ UNCHANGED <<vga, tmp, linebuf, at, mixed, torn>>
  BY DEF dispatch
<1>1. /\ Sound(vga) /\ vga.col = 0 /\ erasures = 0
      /\ linebuf \in Seq(Key) /\ out \in Seq(Seq({Text, NL}))
  BY <1>0 DEF IndInv, TypeInv, BoundInv, RowStartInv, LineInv, Removing, Before, Moved
<1>2. /\ Output(cmd, arg) \in Seq(Seq({Text, NL})) /\ Output(cmd, arg) # <<>>
      /\ EndsLine(Output(cmd, arg)[Len(Output(cmd, arg))])
  <2>1. cmd \in Seq(Key) /\ arg \in Seq(Key)
    BY <1>1, SplitIs
  <2> HIDE DEF cmd, arg
  <2> QED
    BY <2>1, OutputIs
<1> HIDE DEF cmd, arg
<1>3. Base(Rows) = Rows * Cols /\ Base(Rows) \in Nat /\ Base(Rows) > 0
  BY Bases, Sizes DEF Base
<1>4. TypeInv'
  BY <1>0, <1>1, <1>2, <1>3 DEF IndInv, TypeInv, Place, Removing, Before
<1>5. BoundInv'
  BY <1>0, <1>1 DEF BoundInv
<1>6. SteadyInv'
  BY <1>0, <1>1 DEF SteadyInv
<1>7. RowStartInv'
  BY <1>0, <1>2 DEF RowStartInv
<1>8. LineInv'
  <2>1. CASE pc' = "print"
    BY <1>0, <1>1, <2>1 DEF LineInv, Removing, Before, Moved
  <2>2. CASE pc' = "remove"
    <3>1. erasures' = Base(Rows) /\ erasures' > 0
      BY <1>0, <1>3, <2>2
    <3>2. Position(vga) \in Int /\ Position(vga) >= 0 /\ Position(vga) < Base(Rows)
      BY <1>1, LandingIs
    <3>3. Landing' \in {0, Position(vga) - 1}
      BY <1>0, <2>2 DEF Landing, Before, Position
    <3>4. Landing' <= erasures' - 1
      BY <1>3, <3>1, <3>2, <3>3
    <3> QED
      BY <1>3, <2>2, <3>1, <3>4 DEF LineInv, Removing, Before
  <2> QED
    BY <1>0, <2>1, <2>2
<1>9. CleanInv'
  <2>1. Edge = Position(vga) /\ Edge' = Position(vga)
    BY <1>0 DEF Edge, Moved, Position
  <2> QED
    BY <1>0, <2>1 DEF IndInv, CleanInv, CleanFrom
<1> QED
  BY <1>4, <1>5, <1>6, <1>7, <1>8, <1>9 DEF IndInv

LEMMA DispatchPrintStep ==
    ASSUME IndInv, dispatch_print
    PROVE  IndInv'
<1> DEFINE s == Head(out)
<1>0. /\ pc = "print" /\ out # <<>> /\ vga' = Printed(vga, s) /\ out' = Tail(out)
      /\ UNCHANGED <<pc, tmp, linebuf, erasures, at, mixed, torn>>
  BY DEF dispatch_print, print, others
<1>1. /\ Sound(vga) /\ erasures = 0 /\ out \in Seq(Seq({Text, NL}))
      /\ EndsLine(out[Len(out)]) /\ (Steady => vga.col >= 0)
  BY <1>0 DEF IndInv, TypeInv, BoundInv, SteadyInv, RowStartInv, LineInv, Removing, Before, Moved
<1>2. /\ s \in Seq({Text, NL}) /\ s = out[1]
      /\ out' \in Seq(Seq({Text, NL})) /\ Len(out') = Len(out) - 1
      /\ \A i \in 1..Len(out') : out'[i] = out[i + 1]
  <2>1. s = out[1]
    BY <1>0
  <2> QED
    BY <1>0, <1>1, <2>1, HeadTailProperties
<1>3. Len(out) \in Nat /\ Len(out) > 0
  BY <1>0, <1>1
<1> HIDE DEF s
<1>4. /\ Sound(vga') /\ (vga.col >= 0 => vga'.col >= 0) /\ (EndsLine(s) => vga'.col = 0)
      /\ vga.col >= 0 /\ CleanFrom(vga, Position(vga)) => CleanFrom(vga', Position(vga'))
  BY <1>0, <1>1, <1>2, PrintedIs
<1>5. TypeInv'
  BY <1>0, <1>2 DEF IndInv, TypeInv
<1>6. BoundInv'
  BY <1>0, <1>4 DEF BoundInv
<1>7. SteadyInv'
  BY <1>0, <1>1, <1>4 DEF SteadyInv, Steady
<1>8. RowStartInv'
  <2>1. CASE out' = <<>>
    <3>1. Len(out') = 0
      BY <2>1
    <3>2. s = out[Len(out)]
      <4>1. Len(out) = 1
        BY <1>2, <1>3, <3>1
      <4> QED
        BY <1>2, <4>1
    <3>3. vga'.col = 0
      BY <1>1, <1>4, <3>2
    <3> QED
      BY <1>0, <2>1, <3>3 DEF RowStartInv
  <2>2. CASE out' # <<>>
    <3>1. Len(out') \in Nat /\ Len(out') > 0
      BY <1>2, <2>2
    <3>2. out'[Len(out')] = out[Len(out') + 1] /\ Len(out') + 1 = Len(out)
      BY <1>2, <1>3, <3>1
    <3>3. EndsLine(out'[Len(out')])
      BY <1>1, <3>2
    <3> QED
      BY <1>0, <2>2, <3>3 DEF RowStartInv
  <2> QED
    BY <2>1, <2>2
<1>9. LineInv'
  BY <1>0, <1>1 DEF LineInv, Removing, Before, Moved
<1>10. CleanInv'
  <2> SUFFICES ASSUME ~torn PROVE CleanFrom(vga', Edge')
    BY <1>0 DEF CleanInv, CleanFrom
  <2>1. Edge = Position(vga) /\ Edge' = Position(vga')
    BY <1>0 DEF Edge, Moved, Position
  <2>2. CleanFrom(vga, Position(vga)) /\ vga.col >= 0
    BY <1>1, <2>1 DEF IndInv, CleanInv, Steady
  <2> QED
    BY <1>4, <2>1, <2>2
<1> QED
  BY <1>5, <1>6, <1>7, <1>8, <1>9, <1>10 DEF IndInv

-----------------------------------------------------------------------------
(* The theorems                                                            *)

LEMMA InitInd == Init => IndInv
<1> SUFFICES ASSUME Init PROVE IndInv
  OBVIOUS
<1>0. /\ vga = [row |-> 0, col |-> 0, cells |-> [i \in Cell |-> Boot], stray |-> FALSE]
      /\ pc = "poll" /\ tmp = 0 /\ linebuf = <<>> /\ out = <<>> /\ erasures = 0
      /\ at = ClockCol /\ mixed = FALSE /\ torn = FALSE
  BY DEF Init
<1>1. vga.row = 0 /\ vga.col = 0 /\ ~vga.stray /\ \A i \in Cell : vga.cells[i] = Boot
  BY <1>0
<1>2. vga \in Screen
  BY <1>0, Symbols DEF Screen
<1>3. Sound(vga)
  BY <1>1, <1>2, Sizes DEF Sound
<1>4. Position(vga) = 0 /\ Base(0) = 0
  <2>1. Base(0) = 0
    BY Bases, Sizes
  <2> QED
    BY <1>1, <2>1 DEF Position, Base
<1>5. Landing = 0 /\ Edge = 0
  BY <1>0, <1>4 DEF Landing, Edge, Before, Moved
<1>6. TypeInv
  <2>1. linebuf \in Seq(Key) /\ Len(linebuf) = 0 /\ out \in Seq(Seq({Text, NL}))
    BY <1>0
  <2>2. Len(linebuf) <= LineMax /\ at \in Nat /\ at >= ClockCol
    BY <1>0, <2>1, Sizes
  <2>3. pc \in Place
    BY <1>0 DEF Place
  <2>4. tmp \in Int /\ erasures \in Nat
    BY <1>0
  <2>5. mixed \in BOOLEAN /\ torn \in BOOLEAN
    BY <1>0
  <2> QED
    BY <2>1, <2>2, <2>3, <2>4, <2>5 DEF TypeInv
<1>7. BoundInv /\ SteadyInv /\ RowStartInv
  BY <1>0, <1>1, <1>3 DEF BoundInv, SteadyInv, RowStartInv
<1>8. Shows(vga, Landing, linebuf)
  <2>1. linebuf \in Seq(Key) /\ Len(linebuf) = 0
    BY <1>0
  <2>2. 0 \in 0..(Rows - 1) /\ Landing = Base(0) + Len(linebuf) /\ ShowsFrom(vga, 0, linebuf)
    BY <1>4, <1>5, <2>1, Sizes DEF ShowsFrom
  <2> QED
    BY <2>1, <2>2, ShowsIs
<1>9. LineInv
  BY <1>0, <1>8 DEF LineInv, Removing, Before, Moved
<1>10. CleanInv
  BY <1>1, Symbols DEF CleanInv, CleanFrom
<1> QED
  BY <1>6, <1>7, <1>9, <1>10 DEF IndInv

LEMMA StepInd == IndInv /\ [Next]_vars => IndInv'
<1> SUFFICES ASSUME IndInv, [Next]_vars PROVE IndInv'
  OBVIOUS
<1>1. ASSUME NEW c \in Letter \cup {Blank}, shell_run_char(c) PROVE IndInv'
  BY <1>1, CharStep
<1>2. CASE shell_run_backspace
  BY <1>2, BackspaceStep
<1>3. CASE shell_run_enter
  BY <1>3, EnterStep
<1>4. CASE shell_run_next
  BY <1>4, NextLineStep
<1>5. CASE dispatch
  BY <1>5, DispatchStep
<1>6. CASE dispatch_print
  BY <1>6, DispatchPrintStep
<1>7. CASE removeChar
  BY <1>7, RemoveStep
<1>8. CASE worker_once
  BY <1>8, WorkerStep
<1>9. CASE reaper_thread
  BY <1>9, ReaperStep
<1>10. CASE print_at
  BY <1>10, ClockStep
<1>11. CASE clock_thread
  BY <1>11, RedrawStep
<1>12. CASE UNCHANGED vars
  <2>1. at' \in Nat /\ at' >= ClockCol
    BY <1>12 DEF vars, IndInv, TypeInv
  <2> QED
    BY <1>12, <2>1, SameStep DEF vars
<1> QED
  BY <1>1, <1>2, <1>3, <1>4, <1>5, <1>6, <1>7, <1>8, <1>9, <1>10, <1>11, <1>12
     DEF Next, shell_run

\* The invariant holds whatever the shell, the workers, the reaper and the
\* clock do, in any order.
THEOREM Invariance == Spec => []IndInv
BY InitInd, StepInd, PTL DEF Spec

\* No store of vga.c misses the screen and the cursor stays in its rows, for
\* every size of the screen and whoever prints inside of removeChar.
THEOREM StoresHitTheScreen == Spec => []WritesOnScreen
<1>1. IndInv => WritesOnScreen
  <2> SUFFICES ASSUME IndInv PROVE WritesOnScreen
    OBVIOUS
  <2>1. Sound(vga)
    BY DEF IndInv, BoundInv
  <2> QED
    BY <2>1, Sizes DEF Sound, WritesOnScreen
<1> QED
  BY <1>1, Invariance, PTL

\* What the user sees before the cursor is linebuf, for every line that
\* shell_run takes, over the end of a row and after scrolling and erasing.
THEOREM LineIsOnTheScreen == Spec => []ScreenShowsLine
<1>1. IndInv => ScreenShowsLine
  <2> SUFFICES ASSUME IndInv PROVE ScreenShowsLine
    OBVIOUS
  <2>0. Len(linebuf) <= LineMax /\ linebuf \in Seq(Key) /\ Len(linebuf) \in Nat
    BY DEF IndInv, TypeInv
  <2>1. ASSUME pc = "poll", ~mixed
        PROVE  /\ Cursor >= Len(linebuf)
               /\ (Cursor - Len(linebuf)) % Cols = 0
               /\ \A i \in 1..Len(linebuf) :
                     \/ Cursor - Len(linebuf) + i - 1 \in ClockCells
                     \/ vga.cells[Cursor - Len(linebuf) + i - 1] = linebuf[i]
    <3>1. Cursor = Position(vga) /\ Shows(vga, Cursor, linebuf)
      BY <2>1, PollIs DEF Cursor, Position
    <3>2. PICK r \in 0..(Rows - 1) : Cursor = Base(r) + Len(linebuf)
      BY <2>0, <3>1, ShowsIs
    <3>3. Base(r) \in Int /\ Base(r) >= 0
      BY BaseIs
    <3>4. Cursor >= Len(linebuf) /\ Cursor - Len(linebuf) = Base(r)
      BY <2>0, <3>2, <3>3
    <3>5. Base(r) % Cols = 0
      BY RowStart
    <3> QED
      BY <3>1, <3>4, <3>5 DEF Shows
  <2> QED
    BY <2>0, <2>1 DEF ScreenShowsLine
<1> QED
  BY <1>1, Invariance, PTL

\* cmd_clear, which erases backwards from the cursor, leaves nothing of what
\* was printed, on a screen of any size.
THEOREM ClearLeavesNothing == Spec => []ClearWipes
<1>1. IndInv => ClearWipes
  <2> SUFFICES ASSUME IndInv, pc = "cleared", ~mixed, ~torn
               PROVE  Cursor = 0 /\ \A i \in Cell : vga.cells[i] # Text
    BY DEF ClearWipes
  <2>1. Cursor = 0 /\ Edge = 0
    BY DEF IndInv, LineInv, Edge, Moved, Cursor, Position
  <2>2. \A i \in Cell : i >= 0
    BY Cells
  <2> QED
    BY <2>1, <2>2 DEF IndInv, CleanInv, CleanFrom
<1> QED
  BY <1>1, Invariance, PTL

\* cmd_spawn creates a task only for a line that is spawn, a space and the
\* name of the task: what dispatch left in spawn_arg before does not count.
THEOREM SpawnTakesTheLine == Spec => SpawnedByName
<1> DEFINE Named == \E n \in DOMAIN spawnables :
                       linebuf = commands["spawn"] \o <<Blank>> \o spawnables[n]
<1>1. ASSUME IndInv, [Next]_vars, next_spawn_id' # next_spawn_id
      PROVE  Named
  <2>1. dispatch
    BY <1>1 DEF Next, vars, shell_run, shell_run_char, shell_run_backspace,
       shell_run_enter, shell_run_next, dispatch_print, removeChar, Access,
       remove_nothing, remove_row, remove_below, remove_col, remove_up_load,
       remove_up_store, remove_last_col, remove_left_load, remove_left_store,
       remove_erase_row, remove_erase_col, remove_erase, remove_return,
       worker_once, reaper_thread, print_at, clock_thread, command, elsewhere
  <2>2. IsSpawn(CommandWord(linebuf), Argument(linebuf))
    BY <1>1, <2>1 DEF dispatch, cmd_spawn
  <2>3. PICK n \in DOMAIN spawnables : Argument(linebuf) = spawnables[n]
    BY <2>2 DEF IsSpawn
  <2>4. CommandWord(linebuf) = commands["spawn"]
    BY <2>2 DEF IsSpawn
  <2>5. Argument(linebuf) # <<>>
    BY <2>3, TerminalAssumption
  <2>6. linebuf = CommandWord(linebuf) \o <<Blank>> \o Argument(linebuf)
    BY <1>1, <2>5, SplitIs DEF IndInv, TypeInv
  <2> QED
    BY <2>3, <2>4, <2>6
<1>2. IndInv /\ [Next]_vars => [next_spawn_id' # next_spawn_id => Named]_vars
  BY <1>1
<1> QED
  BY <1>2, Invariance, PTL DEF Spec, SpawnedByName

=============================================================================
