------------------------------ MODULE ScreenProofs ------------------------------
(***************************************************************************)
(* Proofs about Screens, for any number of terminals and any size of the   *)
(* screen: the cursors stay on their screens whatever interrupts a switch, *)
(* and, when nothing does, the pages, cursors and copies implement one     *)
(* console per terminal (module Consoles).                                 *)
(***************************************************************************)
EXTENDS Screens, TLAPS

-----------------------------------------------------------------------------
(***************************************************************************)
(* Pages and consoles                                                      *)
(***************************************************************************)
\* The cell of a page that is at a row and a column, counted from 1
Cell(r, c) == NUM_COLS * (r - 1) + c - 1

\* A page as rows, and a page with its cursor as a console
Rows(mem) == [r \in 1 .. NUM_ROWS |-> [c \in 1 .. NUM_COLS |-> mem[Cell(r, c)]]]
Con(s)    == [rows |-> Rows(s.mem), row |-> s.y + 1, col |-> s.x + 1]

Page   == [Cells -> Chars \cup {Blank}]
Screen == [mem : Page, x : 0 .. NUM_COLS - 1, y : 0 .. NUM_ROWS - 1]

LEMMA Sizes ==
    NUM_COLS \in Nat /\ NUM_COLS >= 1 /\ NUM_ROWS \in Nat /\ NUM_ROWS >= 2
BY ScreensAssumption

LEMMA CellIn ==
    ASSUME NEW r \in 1 .. NUM_ROWS, NEW c \in 1 .. NUM_COLS
    PROVE  Cell(r, c) \in Cells
BY ScreensAssumption DEF Cell, Cells

\* Two places of the screen are two cells.
LEMMA CellOnce ==
    ASSUME NEW r \in 1 .. NUM_ROWS, NEW c \in 1 .. NUM_COLS,
           NEW q \in 1 .. NUM_ROWS, NEW d \in 1 .. NUM_COLS, Cell(r, c) = Cell(q, d)
    PROVE  r = q /\ c = d
BY ScreensAssumption DEF Cell, Cells

\* The cell below is a row of cells further, if there is one.
LEMMA CellBelow ==
    ASSUME NEW r \in 1 .. NUM_ROWS, NEW c \in 1 .. NUM_COLS
    PROVE  /\ r < NUM_ROWS => Cell(r, c) + NUM_COLS = Cell(r + 1, c)
           /\ r = NUM_ROWS => Cell(r, c) + NUM_COLS \notin Cells
<1>1. NUM_COLS * r = NUM_COLS * (r - 1) + NUM_COLS
  BY Sizes, Z3
<1>2. NUM_ROWS * NUM_COLS = NUM_COLS * NUM_ROWS
  BY Sizes, Z3
<1>3. NUM_COLS * (r - 1) \in Int /\ NUM_COLS * r \in Int
  BY Sizes, Z3
<1> DEFINE a == NUM_COLS * (r - 1)
           b == NUM_COLS * r
<1>4. Cell(r, c) = a + c - 1 /\ Cell(r + 1, c) = b + c - 1
  <2>1. r + 1 - 1 = r
    OBVIOUS
  <2>2. QED
    BY <2>1 DEF Cell
<1>5. r = NUM_ROWS => Cells = 0 .. b - 1
  BY <1>2 DEF Cells
<1> HIDE DEF a, b
<1>6. b = a + NUM_COLS /\ a \in Int /\ b \in Int
  BY <1>1, <1>3 DEF a, b
<1>7. r < NUM_ROWS => Cell(r, c) + NUM_COLS = Cell(r + 1, c)
  BY <1>4, <1>6, Sizes
<1>8. r = NUM_ROWS => Cell(r, c) + NUM_COLS \notin Cells
  BY <1>4, <1>5, <1>6, Sizes
<1>9. QED
  BY <1>7, <1>8

\* Writing a cell writes a place of the console.
LEMMA RowsWritten ==
    ASSUME NEW m \in Page, NEW q \in 1 .. NUM_ROWS, NEW d \in 1 .. NUM_COLS, NEW ch
    PROVE  Rows([m EXCEPT ![Cell(q, d)] = ch]) = [Rows(m) EXCEPT ![q][d] = ch]
<1> DEFINE n == [m EXCEPT ![Cell(q, d)] = ch]
<1>1. \A r \in 1 .. NUM_ROWS : \A c \in 1 .. NUM_COLS :
          n[Cell(r, c)] = IF r = q /\ c = d THEN ch ELSE m[Cell(r, c)]
  <2>1. SUFFICES ASSUME NEW r \in 1 .. NUM_ROWS, NEW c \in 1 .. NUM_COLS
                 PROVE  n[Cell(r, c)] = IF r = q /\ c = d THEN ch ELSE m[Cell(r, c)]
    OBVIOUS
  <2>2. Cell(q, d) \in Cells /\ Cell(r, c) \in Cells /\ DOMAIN m = Cells
    BY CellIn DEF Page
  <2>3. Cell(r, c) = Cell(q, d) => r = q /\ c = d
    BY CellOnce
  <2>4. QED
    BY <2>2, <2>3
<1> HIDE DEF n
<1>2. Rows(n) = [Rows(m) EXCEPT ![q][d] = ch]
  <2> DEFINE cell(r, c) == IF r = q /\ c = d THEN ch ELSE m[Cell(r, c)]
  <2>1. Rows(n) = [r \in 1 .. NUM_ROWS |-> [c \in 1 .. NUM_COLS |-> cell(r, c)]]
    BY <1>1 DEF Rows
  <2>2. [Rows(m)[q] EXCEPT ![d] = ch] = [c \in 1 .. NUM_COLS |-> cell(q, c)]
    BY DEF Rows
  <2>3. \A r \in 1 .. NUM_ROWS \ {q} : Rows(m)[r] = [c \in 1 .. NUM_COLS |-> cell(r, c)]
    BY DEF Rows
  <2> HIDE DEF cell
  <2>4. [Rows(m) EXCEPT ![q] = [c \in 1 .. NUM_COLS |-> cell(q, c)]]
            = [r \in 1 .. NUM_ROWS |-> [c \in 1 .. NUM_COLS |-> cell(r, c)]]
    BY <2>3 DEF Rows
  <2>5. QED
    BY <2>1, <2>2, <2>4
<1>3. QED
  BY <1>2 DEF n

\* Scrolling drops the first row and adds an empty one.
LEMMA RowsScrolled ==
    ASSUME NEW m \in Page
    PROVE  /\ Rows(scroll_up(m)) = Append(Tail(Rows(m)), Abstract!BlankRow)
           /\ scroll_up(m) \in Page
<1> DEFINE u == scroll_up(m)
           B == Abstract!BlankRow
           old == Rows(m)
           new == Append(Tail(old), B)
           row(r) == [c \in 1 .. NUM_COLS |-> m[Cell(r, c)]]
<1>1. u \in Page
  BY DEF scroll_up, Page
<1>2. \A r \in 1 .. NUM_ROWS : \A c \in 1 .. NUM_COLS :
          u[Cell(r, c)] = IF r < NUM_ROWS THEN m[Cell(r + 1, c)] ELSE Blank
  <2>1. SUFFICES ASSUME NEW r \in 1 .. NUM_ROWS, NEW c \in 1 .. NUM_COLS
                 PROVE  u[Cell(r, c)] = IF r < NUM_ROWS THEN m[Cell(r + 1, c)] ELSE Blank
    OBVIOUS
  <2>2. Cell(r, c) \in Cells
    BY CellIn
  <2>3. u[Cell(r, c)] = IF Cell(r, c) + NUM_COLS \in Cells
                        THEN m[Cell(r, c) + NUM_COLS] ELSE Blank
    BY <2>2 DEF scroll_up
  <2>4. CASE r < NUM_ROWS
    <3>1. r + 1 \in 1 .. NUM_ROWS
      BY <2>4, Sizes
    <3>2. Cell(r, c) + NUM_COLS \in Cells
      BY <2>4, <3>1, CellIn, CellBelow
    <3>3. QED
      BY <2>3, <2>4, <3>2, CellBelow
  <2>5. CASE r = NUM_ROWS
    <3>1. ~(r < NUM_ROWS)
      BY <2>5, Sizes
    <3>2. QED
      BY <2>3, <2>5, <3>1, CellBelow
  <2>6. QED
    BY <2>4, <2>5, Sizes
<1>3. old = [r \in 1 .. NUM_ROWS |-> row(r)] /\ B = [c \in 1 .. NUM_COLS |-> Blank]
  BY DEF Rows, Abstract!BlankRow
<1>4. \A r \in 1 .. NUM_ROWS : Rows(u)[r] = IF r < NUM_ROWS THEN row(r + 1) ELSE B
  <2> HIDE DEF u
  <2>1. \A r \in 1 .. NUM_ROWS : Rows(u)[r] = [c \in 1 .. NUM_COLS |-> u[Cell(r, c)]]
    BY DEF Rows
  <2>2. QED
    BY <1>2, <1>3, <2>1
<1>5. Rows(u) = [r \in 1 .. NUM_ROWS |-> Rows(u)[r]]
  BY DEF Rows
<1> DEFINE S == {row(r) : r \in Int} \cup {B}
<1>6. old \in Seq(S) /\ Len(old) = NUM_ROWS /\ B \in S
      /\ \A r \in 1 .. NUM_ROWS : old[r] = row(r)
  <2>1. B \in S /\ \A r \in 1 .. NUM_ROWS : row(r) \in S
    OBVIOUS
  <2> HIDE DEF S, row, old, B
  <2>2. QED
    BY <1>3, <2>1, Sizes
<1> HIDE DEF S, old, B, row
<1>7. Tail(old) \in Seq(S) /\ Len(Tail(old)) = NUM_ROWS - 1
      /\ \A r \in 1 .. NUM_ROWS - 1 : Tail(old)[r] = old[r + 1]
  BY <1>6, Sizes
<1>8. new \in Seq(S) /\ Len(new) = NUM_ROWS
      /\ \A r \in 1 .. NUM_ROWS : new[r] = IF r < NUM_ROWS THEN Tail(old)[r] ELSE B
  BY <1>6, <1>7, Sizes
<1> HIDE DEF new
<1>9. \A r \in 1 .. NUM_ROWS : new[r] = IF r < NUM_ROWS THEN row(r + 1) ELSE B
  <2>1. \A r \in 1 .. NUM_ROWS :
            r < NUM_ROWS => r \in 1 .. NUM_ROWS - 1 /\ r + 1 \in 1 .. NUM_ROWS
    BY Sizes
  <2>2. QED
    BY <1>6, <1>7, <1>8, <2>1
<1>10. new = [r \in 1 .. NUM_ROWS |-> new[r]]
  BY <1>8
<1>11. Rows(u) = new
  BY <1>4, <1>5, <1>9, <1>10
<1>12. QED
  BY <1>1, <1>11 DEF new, old, B

-----------------------------------------------------------------------------
(***************************************************************************)
(* What is drawn                                                           *)
(***************************************************************************)
\* The step to the next row, which may scroll.
LEMMA NextRow ==
    ASSUME NEW m \in Page, NEW y \in 0 .. NUM_ROWS - 1, NEW k
    PROVE  LET t == Scrolled([mem |-> m, x |-> 0, y |-> y + 1])
           IN  /\ t \in Screen
               /\ Con(t) = Abstract!NewLine([rows |-> Rows(m), row |-> y + 1, col |-> k])
<1> DEFINE s == [mem |-> m, x |-> 0, y |-> y + 1]
           t == Scrolled(s)
           con == [rows |-> Rows(m), row |-> y + 1, col |-> k]
<1>1. CASE y + 1 = NUM_ROWS
  <2>1. t = [mem |-> scroll_up(m), x |-> 0, y |-> NUM_ROWS - 1]
    BY <1>1 DEF Scrolled
  <2>2. t \in Screen
    BY <2>1, RowsScrolled, Sizes DEF Screen
  <2>3. Con(t) = [rows |-> Append(Tail(Rows(m)), Abstract!BlankRow),
                  row |-> NUM_ROWS, col |-> 1]
    <3>1. NUM_ROWS - 1 + 1 = NUM_ROWS
      BY Sizes
    <3>2. t.mem = scroll_up(m) /\ t.x = 0 /\ t.y = NUM_ROWS - 1
      BY <2>1
    <3> HIDE DEF t
    <3>3. Con(t) = [rows |-> Rows(scroll_up(m)), row |-> NUM_ROWS - 1 + 1, col |-> 0 + 1]
      BY <3>2 DEF Con
    <3>4. QED
      <4>1. Rows(scroll_up(m)) = Append(Tail(Rows(m)), Abstract!BlankRow)
        BY RowsScrolled
      <4>2. 0 + 1 = 1
        OBVIOUS
      <4>3. QED
        BY <3>1, <3>3, <4>1, <4>2, Zenon
  <2>4. Abstract!NewLine(con) = [rows |-> Append(Tail(Rows(m)), Abstract!BlankRow),
                                 row |-> NUM_ROWS, col |-> 1]
    <3>1. ~(con.row < NUM_ROWS) /\ con.row = NUM_ROWS
      BY <1>1, Sizes
    <3>2. QED
      BY <1>1, <3>1 DEF Abstract!NewLine
  <2>5. QED
    BY <2>2, <2>3, <2>4
<1>2. CASE y + 1 # NUM_ROWS
  <2>1. t = s
    BY <1>2 DEF Scrolled
  <2>2. y + 1 < NUM_ROWS /\ y + 1 \in 0 .. NUM_ROWS - 1
    BY <1>2, Sizes
  <2>3. t \in Screen
    BY <2>1, <2>2, Sizes DEF Screen
  <2>4. Con(t) = [rows |-> Rows(m), row |-> y + 1 + 1, col |-> 1]
    BY <2>1 DEF Con
  <2>5. Abstract!NewLine(con) = [rows |-> Rows(m), row |-> y + 1 + 1, col |-> 1]
    BY <2>2 DEF Abstract!NewLine
  <2>6. QED
    BY <2>3, <2>4, <2>5
<1>3. QED
  BY <1>1, <1>2

LEMMA NewlineDraws ==
    ASSUME NEW s \in Screen
    PROVE  newline(s) \in Screen /\ Con(newline(s)) = Abstract!NewLine(Con(s))
<1>1. [s EXCEPT !.y = @ + 1, !.x = 0] = [mem |-> s.mem, x |-> 0, y |-> s.y + 1]
  <2>1. ASSUME NEW t, t = [s EXCEPT !.y = @ + 1, !.x = 0]
        PROVE  t = [mem |-> s.mem, x |-> 0, y |-> s.y + 1]
    BY <2>1 DEF Screen
  <2>2. QED
    BY <2>1, Zenon
<1>2. s.mem \in Page /\ s.y \in 0 .. NUM_ROWS - 1
  BY DEF Screen
<1>3. newline(s) = Scrolled([mem |-> s.mem, x |-> 0, y |-> s.y + 1])
  BY <1>1, Zenon DEF newline
<1>4. Con(s) = [rows |-> Rows(s.mem), row |-> s.y + 1, col |-> s.x + 1]
  BY DEF Con
<1>5. LET t == Scrolled([mem |-> s.mem, x |-> 0, y |-> s.y + 1])
      IN  /\ t \in Screen
          /\ Con(t) = Abstract!NewLine([rows |-> Rows(s.mem), row |-> s.y + 1,
                                       col |-> s.x + 1])
  BY <1>2, NextRow
<1>6. QED
  BY <1>3, <1>4, <1>5

\* The cell of the cursor
LEMMA CursorCell ==
    ASSUME NEW s \in Screen
    PROVE  /\ Cursor(s) = Cell(s.y + 1, s.x + 1) /\ Cursor(s) \in Cells
           /\ s.y + 1 \in 1 .. NUM_ROWS /\ s.x + 1 \in 1 .. NUM_COLS
<1>1. s.y + 1 \in 1 .. NUM_ROWS /\ s.x + 1 \in 1 .. NUM_COLS
  BY Sizes DEF Screen
<1>2. \A y, x \in Int : Cell(y + 1, x + 1) = NUM_COLS * y + x
  BY Sizes DEF Cell
<1>3. s.y \in Int /\ s.x \in Int
  BY Sizes DEF Screen
<1>4. Cursor(s) = Cell(s.y + 1, s.x + 1)
  BY <1>2, <1>3, Zenon DEF Cursor
<1>5. QED
  BY <1>1, <1>4, CellIn

\* A character at the cursor
LEMMA WrittenPage ==
    ASSUME NEW s \in Screen, NEW ch \in Chars \cup {Blank}
    PROVE  /\ [s.mem EXCEPT ![Cursor(s)] = ch] \in Page
           /\ Rows([s.mem EXCEPT ![Cursor(s)] = ch])
                  = [Rows(s.mem) EXCEPT ![s.y + 1][s.x + 1] = ch]
<1>1. s.mem \in Page
  BY DEF Screen
<1>2. /\ Cursor(s) = Cell(s.y + 1, s.x + 1) /\ Cursor(s) \in Cells
      /\ s.y + 1 \in 1 .. NUM_ROWS /\ s.x + 1 \in 1 .. NUM_COLS
  BY CursorCell
<1>3. [s.mem EXCEPT ![Cursor(s)] = ch] \in Page
  BY <1>1, <1>2 DEF Page
<1>4. Rows([s.mem EXCEPT ![Cursor(s)] = ch])
          = [Rows(s.mem) EXCEPT ![s.y + 1][s.x + 1] = ch]
  <2>1. Rows([s.mem EXCEPT ![Cell(s.y + 1, s.x + 1)] = ch])
            = [Rows(s.mem) EXCEPT ![s.y + 1][s.x + 1] = ch]
    BY <1>1, <1>2, RowsWritten
  <2>2. QED
    BY <1>2, <2>1
<1>5. QED
  BY <1>3, <1>4

\* Remainders at the right edge
LEMMA Column ==
    ASSUME NEW x \in 0 .. NUM_COLS - 1
    PROVE  /\ x + 1 = NUM_COLS => (x + 1) % NUM_COLS = 0
           /\ x + 1 # NUM_COLS => (x + 1) % NUM_COLS = x + 1
           /\ (x + 1) % NUM_COLS \in 0 .. NUM_COLS - 1
<1>1. NUM_COLS \in Nat \ {0}
  BY ScreensAssumption
<1>2. \A b \in Nat \ {0} : b % b = 0
  OBVIOUS
<1>3. \A b \in Nat \ {0} : \A a \in 0 .. b - 1 : a % b = a
  OBVIOUS
<1>4. x + 1 # NUM_COLS => x + 1 \in 0 .. NUM_COLS - 1
  BY <1>1
<1>5. 0 \in 0 .. NUM_COLS - 1
  BY <1>1
<1>6. QED
  BY <1>1, <1>2, <1>3, <1>4, <1>5, Zenon

LEMMA PutcAdvancedDraws ==
    ASSUME NEW s \in Screen, NEW ch \in Chars
    PROVE  /\ putc_advanced(s, ch) \in Screen
           /\ Con(putc_advanced(s, ch)) = Abstract!Type(Con(s), ch)
<1> DEFINE m == [s.mem EXCEPT ![Cursor(s)] = ch]
           n == (s.x + 1) % NUM_COLS
           rows == [Rows(s.mem) EXCEPT ![s.y + 1][s.x + 1] = ch]
           written == [rows |-> rows, row |-> s.y + 1, col |-> s.x + 1]
<1>1. m \in Page /\ Rows(m) = rows
  BY WrittenPage
<1>2. /\ s.y \in 0 .. NUM_ROWS - 1 /\ s.x \in 0 .. NUM_COLS - 1
      /\ s.x + 1 = NUM_COLS => n = 0
      /\ s.x + 1 # NUM_COLS => n = s.x + 1
      /\ n \in 0 .. NUM_COLS - 1
  BY Column DEF Screen
<1>3. putc_advanced(s, ch)
          = Scrolled([mem |-> m, x |-> n, y |-> IF RightEdge(s) THEN s.y + 1 ELSE s.y])
  <2> HIDE DEF n
  <2>1. ASSUME NEW t, t = [s EXCEPT !.mem[Cursor(s)] = ch,
                              !.y = IF RightEdge(s) THEN @ + 1 ELSE @, !.x = n]
        PROVE  t = [mem |-> m, x |-> n, y |-> IF RightEdge(s) THEN s.y + 1 ELSE s.y]
    BY <2>1 DEF Screen
  <2>3. s.x + 1 = s.x + 1 /\ n = (s.x + 1) % NUM_COLS
    BY DEF n
  <2>2. QED
    BY <2>1, <2>3, Zenon DEF putc_advanced
<1>4. [Con(s) EXCEPT !.rows[Con(s).row][Con(s).col] = ch] = written
  <2>1. ASSUME NEW con, con = Con(s),
               NEW t, t = [con EXCEPT !.rows[con.row][con.col] = ch]
        PROVE  t = written
    BY <2>1 DEF Con
  <2>2. QED
    BY <2>1
<1>5. Abstract!Type(Con(s), ch)
          = IF Con(s).col = NUM_COLS THEN Abstract!NewLine(written)
            ELSE [written EXCEPT !.col = @ + 1]
  BY <1>4 DEF Abstract!Type
<1>6. Con(s).col = s.x + 1
  BY DEF Con
<1> HIDE DEF m, n, rows
<1>7. CASE s.x + 1 = NUM_COLS
  <2>1. putc_advanced(s, ch) = Scrolled([mem |-> m, x |-> 0, y |-> s.y + 1])
    BY <1>2, <1>3, <1>7 DEF RightEdge
  <2>2. Abstract!Type(Con(s), ch) = Abstract!NewLine(written)
    BY <1>5, <1>6, <1>7
  <2>3. QED
    BY <1>1, <1>2, <2>1, <2>2, NextRow
<1>8. CASE s.x + 1 # NUM_COLS
  <2>1. putc_advanced(s, ch) = Scrolled([mem |-> m, x |-> s.x + 1, y |-> s.y])
    BY <1>2, <1>3, <1>8 DEF RightEdge
  <2>2. s.y # NUM_ROWS
    BY <1>2, Sizes
  <2>3. putc_advanced(s, ch) = [mem |-> m, x |-> s.x + 1, y |-> s.y]
    BY <2>1, <2>2 DEF Scrolled
  <2>4. s.x + 1 \in 0 .. NUM_COLS - 1
    BY <1>2, <1>8
  <2>5. putc_advanced(s, ch) \in Screen
    BY <1>1, <1>2, <2>3, <2>4 DEF Screen
  <2>6. Abstract!Type(Con(s), ch) = [rows |-> rows, row |-> s.y + 1, col |-> s.x + 1 + 1]
    BY <1>5, <1>6, <1>8
  <2>7. Con(putc_advanced(s, ch)) = [rows |-> rows, row |-> s.y + 1, col |-> s.x + 1 + 1]
    BY <1>1, <2>3 DEF Con
  <2>8. QED
    BY <2>5, <2>6, <2>7
<1>9. QED
  BY <1>7, <1>8

LEMMA PutcDraws ==
    ASSUME NEW s \in Screen, NEW ch \in Chars
    PROVE  /\ putc(s, ch) \in Screen
           /\ Con(putc(s, ch)) = Abstract!Say(Con(s), ch)
<1> DEFINE m == [s.mem EXCEPT ![Cursor(s)] = ch]
           n == (s.x + 1) % NUM_COLS
           z == (s.y + (n \div NUM_COLS)) % NUM_ROWS
           rows == [Rows(s.mem) EXCEPT ![s.y + 1][s.x + 1] = ch]
<1>1. m \in Page /\ Rows(m) = rows
  BY WrittenPage
<1>2. s.y \in 0 .. NUM_ROWS - 1 /\ s.x \in 0 .. NUM_COLS - 1 /\ n \in 0 .. NUM_COLS - 1
  BY Column DEF Screen
<1>3. z = s.y
  <2>1. \A b \in Nat \ {0} : \A a \in 0 .. b - 1 : a \div b = 0 /\ a % b = a
    OBVIOUS
  <2>2. NUM_COLS \in Nat \ {0} /\ NUM_ROWS \in Nat \ {0}
    BY ScreensAssumption
  <2> HIDE DEF n
  <2>3. n \div NUM_COLS = 0
    BY <1>2, <2>1, <2>2, Zenon
  <2>4. s.y + 0 = s.y
    BY <1>2, Sizes
  <2>5. z = (s.y + 0) % NUM_ROWS
    BY <2>3, Zenon
  <2>6. s.y % NUM_ROWS = s.y
    BY <1>2, <2>1, <2>2, Zenon
  <2>7. QED
    BY <2>4, <2>5, <2>6, Zenon
<1>4. putc(s, ch) = Scrolled([mem |-> m, x |-> n, y |-> z])
  <2> HIDE DEF n
  <2>1. ASSUME NEW v, NEW t, t = [s EXCEPT !.mem[Cursor(s)] = ch, !.x = n, !.y = v]
        PROVE  t = [mem |-> m, x |-> n, y |-> v]
    BY <2>1 DEF Screen
  <2>2. putc(s, ch) = Scrolled([s EXCEPT !.mem[Cursor(s)] = ch, !.x = n, !.y = z])
    BY Zenon DEF putc, n
  <2> HIDE DEF z
  <2>3. QED
    BY <2>1, <2>2, Zenon
<1>5. putc(s, ch) = [mem |-> m, x |-> n, y |-> s.y]
  <2>1. s.y # NUM_ROWS
    BY <1>2, Sizes
  <2> HIDE DEF m, n, z
  <2>2. QED
    BY <1>3, <1>4, <2>1 DEF Scrolled
<1> HIDE DEF m, n, z
<1>6. putc(s, ch) \in Screen
  BY <1>1, <1>2, <1>5 DEF Screen
<1>7. Abstract!Say(Con(s), ch)
          = [rows |-> rows, row |-> s.y + 1, col |-> n + 1]
  <2>1. ASSUME NEW con, con = Con(s),
               NEW t, t = Abstract!Say(con, ch)
        PROVE  t = [rows |-> rows, row |-> s.y + 1, col |-> n + 1]
    <3>1. con.col = s.x + 1 /\ con = [rows |-> Rows(s.mem), row |-> s.y + 1, col |-> s.x + 1]
      BY <2>1 DEF Con
    <3>2. con.col % NUM_COLS = n
      BY <3>1, Zenon DEF n
    <3> DEFINE k == (con.col % NUM_COLS) + 1
    <3>3. k = n + 1
      BY <3>2, Zenon
    <3> HIDE DEF k
    <3>4. t = [con EXCEPT !.rows[con.row][con.col] = ch, !.col = k]
      BY <2>1 DEF k, Abstract!Say
    <3>5. QED
      BY <3>1, <3>3, <3>4
  <2>2. QED
    BY <2>1
<1>8. Con(putc(s, ch)) = [rows |-> rows, row |-> s.y + 1, col |-> n + 1]
  <2> HIDE DEF rows
  <2>1. QED
    BY <1>1, <1>5 DEF Con
<1>9. QED
  BY <1>6, <1>7, <1>8

LEMMA BackspaceDraws ==
    ASSUME NEW s \in Screen
    PROVE  backspace(s) \in Screen /\ Con(backspace(s)) = Abstract!Erase(Con(s))
<1>1. s.mem \in Page /\ s.y \in 0 .. NUM_ROWS - 1 /\ s.x \in 0 .. NUM_COLS - 1
  BY DEF Screen
<1>2. Con(s).row = s.y + 1 /\ Con(s).col = s.x + 1 /\ Con(s).rows = Rows(s.mem)
  BY DEF Con
<1>3. CASE s.x = 0 /\ s.y = 0
  <2>1. backspace(s) = s
    BY <1>3 DEF backspace
  <2>2. ~(Con(s).col > 1) /\ ~(Con(s).row > 1)
    BY <1>2, <1>3
  <2>3. Abstract!Erase(Con(s)) = Con(s)
    BY <2>2 DEF Abstract!Erase
  <2>4. QED
    BY <2>1, <2>3
<1>4. CASE s.x # 0
  <2> DEFINE back == [mem |-> s.mem, x |-> s.x - 1, y |-> s.y]
             m == [s.mem EXCEPT ![Cursor(back)] = Blank]
             rows == [Rows(s.mem) EXCEPT ![s.y + 1][s.x] = Blank]
  <2>1. s.x - 1 \in 0 .. NUM_COLS - 1 /\ s.x - 1 + 1 = s.x
    BY <1>1, <1>4, Sizes
  <2>2. back \in Screen
    BY <1>1, <2>1 DEF Screen
  <2>3. m \in Page /\ Rows(m) = rows
    <3>1. back.mem = s.mem /\ back.y = s.y /\ back.x = s.x - 1
      OBVIOUS
    <3> HIDE DEF back
    <3>2. QED
      BY <2>1, <2>2, <3>1, WrittenPage
  <2>4. backspace(s) = [mem |-> m, x |-> s.x - 1, y |-> s.y]
    <3>1. [s EXCEPT !.x = @ - 1] = back
      BY DEF Screen
    <3>2. backspace(s) = [back EXCEPT !.mem[Cursor(back)] = Blank]
      BY <1>4, <3>1 DEF backspace
    <3>3. QED
      BY <3>2
  <2> HIDE DEF m
  <2>5. backspace(s) \in Screen
    BY <1>1, <2>1, <2>3, <2>4 DEF Screen
  <2>6. Con(backspace(s)) = [rows |-> rows, row |-> s.y + 1, col |-> s.x]
    BY <2>1, <2>3, <2>4 DEF Con
  <2>7. Abstract!Erase(Con(s)) = [rows |-> rows, row |-> s.y + 1, col |-> s.x]
    <3>1. Con(s).col > 1 /\ s.x + 1 - 1 = s.x
      BY <1>1, <1>2, <1>4, Sizes
    <3>2. Abstract!Erase(Con(s))
              = [Con(s) EXCEPT !.rows[Con(s).row][Con(s).col - 1] = Blank, !.col = @ - 1]
      BY <3>1 DEF Abstract!Erase
    <3>3. ASSUME NEW con, con = Con(s),
                 NEW t, t = [con EXCEPT !.rows[con.row][con.col - 1] = Blank, !.col = @ - 1]
          PROVE  t = [rows |-> rows, row |-> s.y + 1, col |-> s.x]
      <4>1. /\ con = [rows |-> Rows(s.mem), row |-> s.y + 1, col |-> s.x + 1]
            /\ con.row = s.y + 1 /\ con.col - 1 = s.x
        <5>1. con = [rows |-> Rows(s.mem), row |-> s.y + 1, col |-> s.x + 1]
          BY <3>3, Zenon DEF Con
        <5>2. con.row = s.y + 1 /\ con.col = s.x + 1
          BY <5>1
        <5>3. con.col - 1 = s.x
          BY <1>1, <5>2
        <5>4. QED
          BY <5>1, <5>2, <5>3
      <4>2. t = [con EXCEPT !.rows[s.y + 1][s.x] = Blank, !.col = s.x]
        BY <3>3, <4>1
      <4>3. QED
        BY <4>1, <4>2
    <3>4. QED
      BY <3>2, <3>3, Zenon
  <2>8. QED
    BY <2>5, <2>6, <2>7
<1>5. CASE s.x = 0 /\ s.y # 0
  <2> DEFINE back == [mem |-> s.mem, x |-> NUM_COLS - 1, y |-> s.y - 1]
             m == [s.mem EXCEPT ![Cursor(back)] = Blank]
             rows == [Rows(s.mem) EXCEPT ![s.y][NUM_COLS] = Blank]
  <2>1. /\ NUM_COLS - 1 \in 0 .. NUM_COLS - 1 /\ NUM_COLS - 1 + 1 = NUM_COLS
        /\ s.y - 1 \in 0 .. NUM_ROWS - 1 /\ s.y - 1 + 1 = s.y
    BY <1>1, <1>5, Sizes
  <2>2. back \in Screen
    BY <1>1, <2>1 DEF Screen
  <2>3. m \in Page /\ Rows(m) = rows
    <3>1. back.mem = s.mem /\ back.y = s.y - 1 /\ back.x = NUM_COLS - 1
      OBVIOUS
    <3> HIDE DEF back
    <3>2. /\ [back.mem EXCEPT ![Cursor(back)] = Blank] \in Page
          /\ Rows([back.mem EXCEPT ![Cursor(back)] = Blank])
                 = [Rows(back.mem) EXCEPT ![back.y + 1][back.x + 1] = Blank]
      BY <2>2, WrittenPage
    <3>3. QED
      BY <2>1, <3>1, <3>2, Zenon
  <2>4. backspace(s) = [mem |-> m, x |-> NUM_COLS - 1, y |-> s.y - 1]
    <3>1. [s EXCEPT !.y = @ - 1, !.x = NUM_COLS - 1] = back
      <4>1. ASSUME NEW t, t = [s EXCEPT !.y = @ - 1, !.x = NUM_COLS - 1]
            PROVE  t = back
        BY <4>1 DEF Screen
      <4>2. QED
        BY <4>1, Zenon
    <3>2. backspace(s) = [back EXCEPT !.mem[Cursor(back)] = Blank]
      BY <1>5, <3>1 DEF backspace
    <3>3. QED
      BY <3>2
  <2> HIDE DEF m
  <2>5. backspace(s) \in Screen
    BY <1>1, <2>1, <2>3, <2>4 DEF Screen
  <2>6. Con(backspace(s)) = [rows |-> rows, row |-> s.y, col |-> NUM_COLS]
    BY <2>1, <2>3, <2>4 DEF Con
  <2>7. Abstract!Erase(Con(s)) = [rows |-> rows, row |-> s.y, col |-> NUM_COLS]
    <3>1. ~(Con(s).col > 1) /\ Con(s).row > 1 /\ s.y + 1 - 1 = s.y
      BY <1>1, <1>2, <1>5, Sizes
    <3>2. Abstract!Erase(Con(s))
              = [Con(s) EXCEPT !.rows[Con(s).row - 1][NUM_COLS] = Blank,
                               !.row = @ - 1, !.col = NUM_COLS]
      BY <3>1 DEF Abstract!Erase
    <3>3. ASSUME NEW con, con = Con(s),
                 NEW t, t = [con EXCEPT !.rows[con.row - 1][NUM_COLS] = Blank,
                                        !.row = @ - 1, !.col = NUM_COLS]
          PROVE  t = [rows |-> rows, row |-> s.y, col |-> NUM_COLS]
      <4>1. /\ con = [rows |-> Rows(s.mem), row |-> s.y + 1, col |-> s.x + 1]
            /\ con.row - 1 = s.y
        <5>1. con = [rows |-> Rows(s.mem), row |-> s.y + 1, col |-> s.x + 1]
          BY <3>3, Zenon DEF Con
        <5>2. con.row = s.y + 1
          BY <5>1
        <5>3. con.row - 1 = s.y
          BY <1>1, <5>2
        <5>4. QED
          BY <5>1, <5>3
      <4>2. t = [con EXCEPT !.rows[s.y][NUM_COLS] = Blank, !.row = s.y,
                            !.col = NUM_COLS]
        BY <3>3, <4>1
      <4>3. QED
        BY <4>1, <4>2
    <3>4. QED
      BY <3>2, <3>3, Zenon
  <2>8. QED
    BY <2>5, <2>6, <2>7
<1>6. QED
  BY <1>3, <1>4, <1>5

LEMMA ClearDraws == Clear \in Screen /\ Con(Clear) = Abstract!Cleared
<1>1. BlankPage \in Page
  BY DEF BlankPage, Page
<1>2. Clear \in Screen
  BY <1>1, Sizes DEF Clear, Screen
<1>3. Rows(BlankPage) = [r \in 1 .. NUM_ROWS |-> Abstract!BlankRow]
  <2>1. \A r \in 1 .. NUM_ROWS : \A c \in 1 .. NUM_COLS : BlankPage[Cell(r, c)] = Blank
    BY CellIn DEF BlankPage
  <2>2. QED
    BY <2>1 DEF Rows, Abstract!BlankRow
<1>4. Con(Clear) = Abstract!Cleared
  <2>1. Clear.mem = BlankPage /\ Clear.x = 0 /\ Clear.y = 0
    BY DEF Clear
  <2>2. 0 + 1 = 1
    OBVIOUS
  <2>3. QED
    BY <1>3, <2>1, <2>2, Zenon DEF Con, Abstract!Cleared
<1>5. QED
  BY <1>2, <1>4

LEMMA FreshDraws ==
    ASSUME NEW ch \in Chars
    PROVE  LET s == putc(newline(putc(Clear, ch)), ch)
           IN  s \in Screen /\ Con(s) = Abstract!Fresh(ch)
<1> DEFINE a == putc(Clear, ch)
           b == newline(a)
<1>1. a \in Screen /\ Con(a) = Abstract!Say(Abstract!Cleared, ch)
  BY ClearDraws, PutcDraws
<1> HIDE DEF a
<1>2. b \in Screen /\ Con(b) = Abstract!NewLine(Con(a))
  BY <1>1, NewlineDraws
<1> HIDE DEF b
<1>3. putc(b, ch) \in Screen /\ Con(putc(b, ch)) = Abstract!Say(Con(b), ch)
  BY <1>2, PutcDraws
<1>4. QED
  BY <1>1, <1>2, <1>3 DEF Abstract!Fresh, a, b

-----------------------------------------------------------------------------
(***************************************************************************)
(* The inductive invariant                                                 *)
(***************************************************************************)
\* A switch is under way exactly while the terminal on display is not yet the
\* last one.
ScreensInv ==
    /\ ScreensTypeOK
    /\ stage = "none" <=> display_term = last_term

\* Both kinds of screen in ScreensTypeOK are screens.
LEMMA ScreensAre ==
    ASSUME ScreensTypeOK
    PROVE  /\ Shown \in Screen
           /\ \A t \in Terms : Hidden(t) \in Screen
<1>1. 0 \in 0 .. TERM_NUM /\ \A t \in Terms : t \in 0 .. TERM_NUM
  BY ScreensAssumption DEF Terms
<1>2. \A p \in 0 .. TERM_NUM : vid_pages[p] \in Page
  BY DEF ScreensTypeOK, Page
<1>3. Shown \in Screen
  BY <1>1, <1>2 DEF ScreensTypeOK, Shown, Screen
<1>4. \A t \in Terms : Hidden(t) \in Screen
  BY <1>1, <1>2 DEF ScreensTypeOK, Hidden, Screen
<1>5. QED
  BY <1>3, <1>4

LEMMA DrawShownKeeps ==
    ASSUME ScreensInv, NEW s \in Screen, DrawShown(s), write_flag' \in {0, 1}
    PROVE  ScreensInv'
<1>1. s.mem \in Page /\ s.x \in 0 .. NUM_COLS - 1 /\ s.y \in 0 .. NUM_ROWS - 1
  BY DEF Screen
<1>2. vid_pages' \in [0 .. TERM_NUM -> Page]
  BY <1>1 DEF DrawShown, ScreensInv, ScreensTypeOK, Page
<1>3. QED
  BY <1>1, <1>2 DEF DrawShown, ScreensInv, ScreensTypeOK, Page, termVars

LEMMA DrawHiddenKeeps ==
    ASSUME ScreensInv, NEW t \in Terms, NEW s \in Screen, DrawHidden(t, s)
    PROVE  ScreensInv'
<1>1. s.mem \in Page /\ s.x \in 0 .. NUM_COLS - 1 /\ s.y \in 0 .. NUM_ROWS - 1
  BY DEF Screen
<1>2. vid_pages' \in [0 .. TERM_NUM -> Page]
  BY <1>1 DEF DrawHidden, ScreensInv, ScreensTypeOK, Page
<1>3. screen_x_arr' \in [Terms -> 0 .. NUM_COLS - 1]
      /\ screen_y_arr' \in [Terms -> 0 .. NUM_ROWS - 1]
  BY <1>1 DEF DrawHidden, ScreensInv, ScreensTypeOK
<1>4. QED
  BY <1>2, <1>3 DEF DrawHidden, ScreensInv, ScreensTypeOK, Page, termVars

LEMMA ScreensStart == Init => ScreensInv
<1> SUFFICES ASSUME Init PROVE ScreensInv
  OBVIOUS
<1>1. BlankPage \in Page
  BY DEF BlankPage, Page
<1>2. 0 \in 0 .. NUM_COLS - 1 /\ 0 \in 0 .. NUM_ROWS - 1 /\ 1 \in Terms
      /\ 0 \in 0 .. TERM_NUM
  BY ScreensAssumption DEF Terms
<1>3. QED
  BY <1>1, <1>2 DEF Init, ScreensInv, ScreensTypeOK, Page

\* Every screen that a step of a process or a key draws is a screen.
LEMMA KeyKeeps ==
    ASSUME ScreensInv,
           Key \/ ClearScreenKey \/ KernelPrintf \/ \E kind \in {1, 2} : WriteShown(kind)
    PROVE  ScreensInv'
<1>1. Shown \in Screen
  BY ScreensAre DEF ScreensInv
<1>2. write_flag' \in {0, 1}
  BY DEF Key, ClearScreenKey, KernelPrintf, WriteShown, ScreensInv, ScreensTypeOK
<1>3. CASE UNCHANGED <<pageVars, termVars, stage, owner>>
  BY <1>2, <1>3 DEF ScreensInv, ScreensTypeOK, pageVars, termVars
<1>4. ASSUME NEW s \in Screen, DrawShown(s)
      PROVE  ScreensInv'
  BY <1>2, <1>4, DrawShownKeeps
<1>5. QED
  BY <1>1, <1>3, <1>4, PutcAdvancedDraws, PutcDraws, NewlineDraws, BackspaceDraws,
     ClearDraws, FreshDraws
  DEF Key, ClearScreenKey, KernelPrintf, WriteShown

LEMMA ScreensStep ==
    ASSUME ScreensInv, [Next]_vars
    PROVE  ScreensInv'
<1>1. CASE UNCHANGED vars
  BY <1>1 DEF ScreensInv, ScreensTypeOK, vars, pageVars, termVars
<1>2. CASE Key \/ ClearScreenKey \/ KernelPrintf \/ \E kind \in {1, 2} : WriteShown(kind)
  BY <1>2, KeyKeeps
<1>3. CASE WriteHidden
  <2>1. running_term \in Terms /\ Hidden(running_term) \in Screen
    BY ScreensAre DEF ScreensInv, ScreensTypeOK
  <2>2. QED
    BY <1>3, <2>1, DrawHiddenKeeps, PutcAdvancedDraws, NewlineDraws DEF WriteHidden
<1>4. CASE scheduler
  <2>1. running_term' \in Terms
    <3>1. TERM_NUM \in Nat \ {0} /\ running_term \in Nat
      BY ScreensAssumption DEF ScreensInv, ScreensTypeOK, Terms
    <3>2. \A b \in Nat \ {0} : \A a \in Nat : a % b \in 0 .. b - 1
      OBVIOUS
    <3> DEFINE r == running_term % TERM_NUM
    <3>3. r \in 0 .. TERM_NUM - 1
      BY <3>1, <3>2
    <3>4. running_term' = r + 1
      BY <1>4 DEF scheduler
    <3> HIDE DEF r
    <3>5. QED
      BY <3>1, <3>3, <3>4 DEF Terms
  <2>2. QED
    BY <1>4, <2>1 DEF scheduler, ScreensInv, ScreensTypeOK, pageVars
<1>5. ASSUME NEW t \in Terms, SwitchPages(t)
      PROVE  ScreensInv'
  <2>1. last_term \in Terms /\ t \in 0 .. TERM_NUM /\ 0 \in 0 .. TERM_NUM
        /\ running_term \in 0 .. TERM_NUM /\ last_term \in 0 .. TERM_NUM
    BY ScreensAssumption DEF ScreensInv, ScreensTypeOK, Terms
  <2>2. SavedPages(t) \in [0 .. TERM_NUM -> Page]
    BY <2>1 DEF SavedPages, ScreensInv, ScreensTypeOK, Page
  <2>3. vid_pages' \in [0 .. TERM_NUM -> Page]
    BY <1>5, <2>1, <2>2 DEF SwitchPages
  <2>4. stage' = "pages" /\ display_term' = t /\ last_term' = last_term /\ t # last_term
        /\ write_flag' = 1 /\ owner' = running_term
        /\ UNCHANGED <<screen_x, screen_y, screen_x_arr, screen_y_arr, running_term>>
    BY <1>5 DEF SwitchPages
  <2>5. QED
    BY <2>1, <2>3, <2>4 DEF ScreensInv, ScreensTypeOK, Page
<1>6. CASE SwitchCursor
  <2>1. /\ screen_x_arr' = [screen_x_arr EXCEPT ![last_term] = screen_x]
        /\ screen_y_arr' = [screen_y_arr EXCEPT ![last_term] = screen_y]
        /\ screen_x' = screen_x_arr'[display_term]
        /\ screen_y' = screen_y_arr'[display_term]
        /\ stage = "pages" /\ stage' = "cursor"
        /\ UNCHANGED <<vid_pages, termVars, write_flag, owner>>
    BY <1>6 DEF SwitchCursor, SavedFor
  <2>2. /\ screen_x_arr' \in [Terms -> 0 .. NUM_COLS - 1]
        /\ screen_y_arr' \in [Terms -> 0 .. NUM_ROWS - 1]
    BY <2>1 DEF ScreensInv, ScreensTypeOK
  <2>3. screen_x' \in 0 .. NUM_COLS - 1 /\ screen_y' \in 0 .. NUM_ROWS - 1
    BY <2>1, <2>2 DEF ScreensInv, ScreensTypeOK
  <2>4. QED
    BY <2>1, <2>2, <2>3 DEF ScreensInv, ScreensTypeOK, termVars
<1>7. CASE SwitchDone
  BY <1>7, ScreensAssumption DEF SwitchDone, ScreensInv, ScreensTypeOK, pageVars
<1>8. QED
  BY <1>1, <1>2, <1>3, <1>4, <1>5, <1>6, <1>7 DEF Next

\* The inductive invariant holds even when a switch is interrupted.
THEOREM ScreensInvariant == Spec => []ScreensInv
BY ScreensStart, ScreensStep, PTL DEF Spec

\* Types; in particular every cursor stays on its screen, so that no character
\* is written outside of a page, whatever interrupts a switch.
THEOREM ScreensTypeCorrect == Spec => []ScreensTypeOK
<1>1. ScreensInv => ScreensTypeOK
  BY DEF ScreensInv
<1>2. QED
  BY <1>1, ScreensInvariant, PTL

-----------------------------------------------------------------------------
(***************************************************************************)
(* The refinement                                                          *)
(***************************************************************************)
\* Nothing is drawn inside a switch.
QuietSwitches == Races = {}

\* The page and the cursor that are a terminal's own
Own(t) == [mem |-> vid_pages[IF t = PageOf THEN 0 ELSE t],
           x |-> IF t = CursorOf THEN screen_x ELSE screen_x_arr[t],
           y |-> IF t = CursorOf THEN screen_y ELSE screen_y_arr[t]]

LEMMA ConsoleIs == \A t : Console(t) = Con(Own(t)) /\ Console(t)' = Con(Own(t)')
BY DEF Console, Con, Own, Rows, Cell

\* Outside of a switch the terminal on display is in video memory.
LEMMA OwnIs ==
    ASSUME ScreensInv, stage = "none"
    PROVE  /\ PageOf = display_term /\ display_term \in Terms
           /\ Console(display_term) = Con(Shown)
           /\ \A t \in Terms : t # display_term => Console(t) = Con(Hidden(t))
<1>1. PageOf = display_term /\ CursorOf = display_term /\ display_term \in Terms
  BY DEF ScreensInv, ScreensTypeOK, PageOf, CursorOf
<1>2. Own(display_term) = Shown
  BY <1>1 DEF Own, Shown
<1>3. \A t \in Terms : t # display_term => Own(t) = Hidden(t)
  BY <1>1 DEF Own, Hidden
<1>4. QED
  BY <1>1, <1>2, <1>3, ConsoleIs

\* A step that changes one console, and a step that changes none.
LEMMA OneBecomes ==
    ASSUME NEW d \in Terms, NEW con, Console(d)' = con, PageOf' = PageOf,
           \A t \in Terms : t # d => Console(t)' = Console(t)
    PROVE  Abstract!Becomes(d, con)
BY DEF Abstract!Becomes

LEMMA NoneChanges ==
    ASSUME \A t \in Terms : Console(t)' = Console(t)
    PROVE  UNCHANGED [t \in Terms |-> Console(t)]
OBVIOUS

LEMMA ShownBecomes ==
    ASSUME ScreensInv, stage = "none", NEW s \in Screen, DrawShown(s)
    PROVE  Abstract!Becomes(PageOf, Con(s))
<1>0. PICK d : d = display_term
  OBVIOUS
<1>1. PageOf = d /\ CursorOf = d /\ d \in Terms /\ d # 0
  BY <1>0, ScreensAssumption DEF ScreensInv, ScreensTypeOK, PageOf, CursorOf, Terms
<1>2. /\ vid_pages' = [vid_pages EXCEPT ![0] = s.mem]
      /\ screen_x' = s.x /\ screen_y' = s.y
      /\ UNCHANGED <<screen_x_arr, screen_y_arr, termVars, stage, owner>>
  BY DEF DrawShown
<1>3. PageOf' = PageOf /\ CursorOf' = CursorOf
  BY <1>2 DEF PageOf, CursorOf, termVars
<1>4. vid_pages'[0] = s.mem /\ \A t \in Terms : vid_pages'[t] = vid_pages[t]
  BY <1>2, ScreensAssumption DEF ScreensInv, ScreensTypeOK, Terms
<1>5. Own(d)' = [mem |-> s.mem, x |-> s.x, y |-> s.y]
  BY <1>1, <1>2, <1>3, <1>4 DEF Own
<1>6. [mem |-> s.mem, x |-> s.x, y |-> s.y] = s
  BY DEF Screen
<1>7. \A t \in Terms : t # d => Own(t)' = Own(t)
  BY <1>1, <1>2, <1>3, <1>4 DEF Own
<1>8. \A t : Console(t)' = Con(Own(t)')
  BY ConsoleIs
<1>9. Console(d)' = Con(s)
  BY <1>5, <1>6, <1>8
<1>10. \A t \in Terms : t # d => Console(t)' = Console(t)
  BY <1>7, <1>8, ConsoleIs
<1>11. Abstract!Becomes(d, Con(s))
  BY <1>1, <1>3, <1>9, <1>10, OneBecomes
<1>12. QED
  BY <1>1, <1>11

LEMMA HiddenBecomes ==
    ASSUME ScreensInv, stage = "none", NEW h \in Terms, h # display_term,
           NEW s \in Screen, DrawHidden(h, s)
    PROVE  Abstract!Becomes(h, Con(s))
<1>1. PageOf = display_term /\ CursorOf = display_term /\ h # 0
  BY ScreensAssumption DEF ScreensInv, ScreensTypeOK, PageOf, CursorOf, Terms
<1>2. /\ vid_pages' = [vid_pages EXCEPT ![h] = s.mem]
      /\ screen_x_arr' = [screen_x_arr EXCEPT ![h] = s.x]
      /\ screen_y_arr' = [screen_y_arr EXCEPT ![h] = s.y]
      /\ UNCHANGED <<screen_x, screen_y, termVars, stage>>
  BY DEF DrawHidden
<1>3. PageOf' = PageOf /\ CursorOf' = CursorOf
  BY <1>2 DEF PageOf, CursorOf, termVars
<1>4. /\ vid_pages'[h] = s.mem /\ screen_x_arr'[h] = s.x /\ screen_y_arr'[h] = s.y
      /\ vid_pages'[0] = vid_pages[0]
      /\ \A t \in Terms : t # h => /\ vid_pages'[t] = vid_pages[t]
                                   /\ screen_x_arr'[t] = screen_x_arr[t]
                                   /\ screen_y_arr'[t] = screen_y_arr[t]
  BY <1>1, <1>2, ScreensAssumption DEF ScreensInv, ScreensTypeOK, Terms
<1>5. Own(h)' = [mem |-> s.mem, x |-> s.x, y |-> s.y]
  BY <1>1, <1>3, <1>4 DEF Own
<1>6. [mem |-> s.mem, x |-> s.x, y |-> s.y] = s
  BY DEF Screen
<1>7. \A t \in Terms : t # h => Own(t)' = Own(t)
  BY <1>2, <1>3, <1>4 DEF Own
<1>8. \A t : Console(t)' = Con(Own(t)')
  BY ConsoleIs
<1>9. Console(h)' = Con(s)
  BY <1>5, <1>6, <1>8
<1>10. \A t \in Terms : t # h => Console(t)' = Console(t)
  BY <1>7, <1>8, ConsoleIs
<1>11. QED
  BY <1>3, <1>9, <1>10, OneBecomes

\* What is seen of a step that leaves every page and cursor with its terminal.
LEMMA OwnsKept ==
    ASSUME \A t \in Terms : Own(t)' = Own(t)
    PROVE  UNCHANGED [t \in Terms |-> Console(t)]
<1>1. \A t : Console(t)' = Con(Own(t)')
  BY ConsoleIs
<1>2. \A t \in Terms : Console(t)' = Console(t)
  BY <1>1, ConsoleIs
<1>3. QED
  BY <1>2, NoneChanges

\* Alt+Fn: the pages are exchanged, then the cursors, then the names.
LEMMA PagesSwitched ==
    ASSUME ScreensInv, NEW t \in Terms, SwitchPages(t)
    PROVE  PageOf' = t /\ UNCHANGED [u \in Terms |-> Console(u)]
<1>1. /\ stage = "none" /\ t # last_term /\ display_term = last_term
      /\ last_term \in Terms /\ stage' = "pages" /\ display_term' = t
      /\ vid_pages' = [SavedPages(t) EXCEPT ![0] = SavedPages(t)[t]]
      /\ UNCHANGED <<screen_x, screen_y, screen_x_arr, screen_y_arr, last_term>>
  BY DEF SwitchPages, ScreensInv, ScreensTypeOK
<1>2. \A u \in Terms : u \in 0 .. TERM_NUM /\ u # 0
  BY ScreensAssumption DEF Terms
<1>3. 0 \in 0 .. TERM_NUM /\ DOMAIN vid_pages = 0 .. TERM_NUM
  BY ScreensAssumption DEF ScreensInv, ScreensTypeOK
<1>4. /\ DOMAIN SavedPages(t) = 0 .. TERM_NUM
      /\ SavedPages(t)[last_term] = vid_pages[0]
      /\ \A u \in Terms : u # last_term => SavedPages(t)[u] = vid_pages[u]
  BY <1>1, <1>2, <1>3 DEF SavedPages
<1>5. vid_pages'[0] = vid_pages[t]
      /\ \A u \in Terms : vid_pages'[u] = SavedPages(t)[u]
  BY <1>1, <1>2, <1>3, <1>4
<1>6. PageOf = last_term /\ CursorOf = last_term
      /\ PageOf' = t /\ CursorOf' = last_term
  BY <1>1 DEF PageOf, CursorOf
<1>7. ASSUME NEW u \in Terms PROVE Own(u)' = Own(u)
  <2>1. vid_pages'[IF u = t THEN 0 ELSE u] = vid_pages[IF u = last_term THEN 0 ELSE u]
    BY <1>1, <1>4, <1>5
  <2>2. QED
    BY <1>1, <1>6, <2>1 DEF Own
<1>8. QED
  BY <1>6, <1>7, OwnsKept

LEMMA CursorSwitched ==
    ASSUME ScreensInv, SwitchCursor
    PROVE  PageOf' = PageOf /\ UNCHANGED [u \in Terms |-> Console(u)]
<1>1. /\ stage = "pages" /\ stage' = "cursor" /\ display_term # last_term
      /\ display_term \in Terms /\ last_term \in Terms
      /\ screen_x_arr' = [screen_x_arr EXCEPT ![last_term] = screen_x]
      /\ screen_y_arr' = [screen_y_arr EXCEPT ![last_term] = screen_y]
      /\ screen_x' = screen_x_arr'[display_term]
      /\ screen_y' = screen_y_arr'[display_term]
      /\ UNCHANGED <<vid_pages, display_term, last_term>>
  BY DEF SwitchCursor, SavedFor, ScreensInv, ScreensTypeOK, termVars
<1>2. /\ screen_x_arr'[last_term] = screen_x /\ screen_y_arr'[last_term] = screen_y
      /\ screen_x' = screen_x_arr[display_term] /\ screen_y' = screen_y_arr[display_term]
      /\ \A u \in Terms : u # last_term => /\ screen_x_arr'[u] = screen_x_arr[u]
                                           /\ screen_y_arr'[u] = screen_y_arr[u]
  BY <1>1 DEF ScreensInv, ScreensTypeOK
<1>3. /\ PageOf = display_term /\ PageOf' = display_term
      /\ CursorOf = last_term /\ CursorOf' = display_term
  BY <1>1 DEF PageOf, CursorOf
<1>4. ASSUME NEW u \in Terms PROVE Own(u)' = Own(u)
  BY <1>1, <1>2, <1>3 DEF Own
<1>5. QED
  BY <1>3, <1>4, OwnsKept

LEMMA SwitchEnds ==
    ASSUME ScreensInv, SwitchDone
    PROVE  PageOf' = PageOf /\ UNCHANGED [u \in Terms |-> Console(u)]
<1>1. /\ stage = "cursor" /\ stage' = "none" /\ last_term' = display_term
      /\ UNCHANGED <<pageVars, display_term>>
  BY DEF SwitchDone
<1>2. /\ PageOf = display_term /\ PageOf' = display_term
      /\ CursorOf = display_term /\ CursorOf' = display_term
  BY <1>1 DEF PageOf, CursorOf
<1>3. ASSUME NEW u \in Terms PROVE Own(u)' = Own(u)
  BY <1>1, <1>2 DEF Own, pageVars
<1>4. QED
  BY <1>2, <1>3, OwnsKept

\* A step that leaves pages, cursors and terminals alone.
LEMMA NothingDrawn ==
    ASSUME UNCHANGED <<pageVars, display_term, last_term, stage>>
    PROVE  PageOf' = PageOf /\ UNCHANGED [u \in Terms |-> Console(u)]
<1>1. PageOf' = PageOf /\ CursorOf' = CursorOf
  BY DEF PageOf, CursorOf
<1>2. ASSUME NEW u \in Terms PROVE Own(u)' = Own(u)
  BY <1>1 DEF Own, pageVars
<1>3. QED
  BY <1>1, <1>2, OwnsKept

\* What is typed and what the kernel says goes to the visible console.
LEMMA KeyImplements ==
    ASSUME QuietSwitches, ScreensInv, Key \/ ClearScreenKey \/ KernelPrintf
    PROVE  \/ Abstract!Keys \/ Abstract!KernelMessage
           \/ PageOf' = PageOf /\ UNCHANGED [t \in Terms |-> Console(t)]
<1> DEFINE con == [t \in Terms |-> Console(t)]
<1>1. stage = "none"
  BY DEF Key, ClearScreenKey, KernelPrintf, Interruptible, QuietSwitches
<1>2. Shown \in Screen
  BY ScreensAre DEF ScreensInv
<1>3. con[PageOf] = Con(Shown)
  BY <1>1, OwnIs
<1>4. ASSUME NEW s \in Screen, DrawShown(s)
      PROVE  Abstract!Becomes(PageOf, Con(s))
  BY <1>1, <1>4, ShownBecomes
<1>5. ASSUME NEW ch \in Chars, DrawShown(putc_advanced(Shown, ch))
      PROVE  Abstract!Keys
  BY <1>2, <1>3, <1>4, <1>5, PutcAdvancedDraws DEF Abstract!Keys, Abstract!Write
<1>6. CASE DrawShown(newline(Shown))
  BY <1>2, <1>3, <1>4, <1>6, NewlineDraws DEF Abstract!Keys, Abstract!Write
<1>7. CASE DrawShown(backspace(Shown))
  BY <1>2, <1>3, <1>4, <1>7, BackspaceDraws DEF Abstract!Keys
<1>8. CASE UNCHANGED <<pageVars, termVars, stage, owner>>
  BY <1>8, NothingDrawn DEF termVars
<1>9. CASE ClearScreenKey
  BY <1>4, <1>9, FreshDraws DEF ClearScreenKey, Abstract!Keys
<1>10. ASSUME NEW ch \in Chars, DrawShown(putc(Shown, ch))
       PROVE  Abstract!KernelMessage
  BY <1>2, <1>3, <1>4, <1>10, PutcDraws DEF Abstract!KernelMessage
<1>11. CASE DrawShown(Clear)
  BY <1>4, <1>11, ClearDraws DEF Abstract!KernelMessage
<1>12. QED
  BY <1>5, <1>6, <1>7, <1>8, <1>9, <1>10, <1>11 DEF Key, KernelPrintf

\* What a process writes goes to the console of its own terminal.
LEMMA WriteImplements ==
    ASSUME QuietSwitches, ScreensInv,
           WriteHidden \/ \E kind \in {1, 2} : WriteShown(kind)
    PROVE  running_term \in Terms /\ Abstract!Write(running_term)
<1> DEFINE con == [t \in Terms |-> Console(t)]
           r   == running_term
<1>1. stage = "none" /\ r \in Terms
  BY DEF WriteHidden, WriteShown, Interruptible, QuietSwitches, ScreensInv, ScreensTypeOK
<1>2. Shown \in Screen /\ Hidden(r) \in Screen
  BY <1>1, ScreensAre DEF ScreensInv
<1>3. CASE \E kind \in {1, 2} : WriteShown(kind)
  <2>1. r = PageOf /\ con[r] = Con(Shown)
    BY <1>1, <1>3, OwnIs DEF WriteShown
  <2>2. ASSUME NEW s \in Screen, DrawShown(s)
        PROVE  Abstract!Becomes(r, Con(s))
    BY <1>1, <2>1, <2>2, ShownBecomes
  <2>3. QED
    BY <1>1, <1>2, <1>3, <2>1, <2>2, PutcAdvancedDraws, NewlineDraws
    DEF WriteShown, Abstract!Write
<1>4. CASE WriteHidden
  <2>1. r # display_term /\ con[r] = Con(Hidden(r))
    BY <1>1, <1>4, OwnIs DEF WriteHidden
  <2>2. ASSUME NEW s \in Screen, DrawHidden(r, s)
        PROVE  Abstract!Becomes(r, Con(s))
    BY <1>1, <2>1, <2>2, HiddenBecomes
  <2>3. QED
    BY <1>1, <1>2, <1>4, <2>1, <2>2, PutcAdvancedDraws, NewlineDraws
    DEF WriteHidden, Abstract!Write
<1>5. QED
  BY <1>3, <1>4

LEMMA StepImplements ==
    ASSUME QuietSwitches, ScreensInv, [Next]_vars
    PROVE  [Abstract!Next]_<<[t \in Terms |-> Console(t)], PageOf>>
<1> DEFINE con == [t \in Terms |-> Console(t)]
<1>1. CASE UNCHANGED vars
  BY <1>1, NothingDrawn DEF vars, termVars
<1>2. CASE Key \/ ClearScreenKey \/ KernelPrintf
  BY <1>2, KeyImplements DEF Abstract!Next
<1>3. CASE WriteHidden \/ \E kind \in {1, 2} : WriteShown(kind)
  BY <1>3, WriteImplements DEF Abstract!Next, Abstract!Terms, Terms
<1>4. CASE scheduler
  BY <1>4, NothingDrawn DEF scheduler
<1>5. ASSUME NEW t \in Terms, SwitchPages(t)
      PROVE  Abstract!Next
  <2>1. PageOf' = t /\ UNCHANGED con
    BY <1>5, PagesSwitched
  <2> HIDE DEF con
  <2>2. Abstract!Show(t)
    BY <2>1 DEF Abstract!Show, con
  <2>3. QED
    BY <2>2 DEF Abstract!Next, Abstract!Terms, Terms
<1>6. CASE SwitchCursor
  BY <1>6, CursorSwitched
<1>7. CASE SwitchDone
  BY <1>7, SwitchEnds
<1>8. QED
  BY <1>1, <1>2, <1>3, <1>4, <1>5, <1>6, <1>7 DEF Next

LEMMA InitImplements == Init => Abstract!Init
<1> SUFFICES ASSUME Init PROVE Abstract!Init
  OBVIOUS
<1>1. ScreensInv /\ stage = "none" /\ display_term = 1
  BY ScreensStart DEF Init
<1>2. Shown = Clear /\ \A t \in Terms : Hidden(t) = Clear
  <2>1. \A t \in Terms \cup {0} : vid_pages[t] = BlankPage
    BY ScreensAssumption DEF Init, Terms
  <2>2. QED
    BY <2>1 DEF Init, Shown, Hidden, Clear
<1>3. \A t \in Terms : Console(t) = Abstract!Cleared
  BY <1>1, <1>2, OwnIs, ClearDraws
<1>4. PageOf = 1
  BY <1>1, OwnIs
<1>5. QED
  BY <1>3, <1>4 DEF Abstract!Init, Abstract!Terms, Terms

\* The pages, cursors and copies implement one console per terminal: nothing is
\* drawn on another terminal's screen and nothing is lost by switching.
THEOREM ConsolesTheorem == QuietSwitches /\ Spec => ImplementsConsoles
<1>1. QuietSwitches => QuietSwitches'
  BY DEF QuietSwitches
<1>2. QED
  BY <1>1, InitImplements, StepImplements, ScreensInvariant, PTL
  DEF Spec, ImplementsConsoles, Abstract!Spec

=============================================================================
