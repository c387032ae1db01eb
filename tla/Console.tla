------------------------------ MODULE Console ------------------------------
(***************************************************************************)
(* kprintf and kputchar of kernel/vga.c, called by several processes with  *)
(* nothing to keep them apart.  put_char is cut where its compiled code    *)
(* reads and writes the caret: a process can lose the cpu there.  Video    *)
(* memory is one array, so a caret outside the frame writes elsewhere.     *)
(* Characters are their ASCII codes; colours are left out.                 *)
(***************************************************************************)
EXTENDS Integers, SequencesExt

CONSTANTS
  Printers,       \* the processes that print
  Height, Width,  \* VGA_ROWS_NUMBER, VGA_COLS_NUMBER
  Wrap            \* how many values int and long have: 2 to their width

ASSUME ConsoleAssumption == Height \in Nat \ {0} /\ Width \in Nat \ {0} /\ Wrap \in Nat \ {0}

NUL == 0
BS == 8
LF == 10
CR == 13
SPACE == 32

VARIABLES
  cell,     \* the characters in video memory
  caret,    \* caret_row, caret_col
  cursor,   \* where put_cursor has put the blinking cursor
  text,     \* per printer: what its call has not printed yet
  stage,    \* per printer: what it does next
  at,       \* per printer: the caret as put_char has read it
  printed,  \* history: per printer, the characters put_char has printed
  page,     \* history: what all have printed, on paper without end
  overlap   \* history: somebody has read the caret while another one held it

consoleVars == <<cell, caret, cursor, text, stage, at, printed, page, overlap>>
history == <<printed, page, overlap>>
-----------------------------------------------------------------------------
(* The text kprintf makes of its format.                                   *)
Unsigned(v) == v % Wrap

\* The digits of val, least first.
Digit(d, lbase) == IF d < 10 THEN 48 + d ELSE lbase - 10 + d
Digits(val, radix, lbase) ==
  LET digits[v \in Nat] == <<Digit(v % radix, lbase)>>
                           \o IF v < radix THEN <<>> ELSE digits[v \div radix]
  IN  digits[val]

\* Mutant of Ultoa: strrev is forgotten.
UltoaForward(val, radix, lbase) == Digits(val, radix, lbase)
Ultoa(val, radix, lbase) ==
  LET sign == CASE radix = 8 -> <<48>> [] radix = 16 -> <<120, 48>> [] OTHER -> <<>>
  IN  Reverse(Digits(val, radix, lbase) \o sign)

\* One conversion: <<"d", value>>, <<"x", value>>, <<"c", char>>, <<"s", string>>.
Conversion(item) ==
  LET v == item[2] IN
  CASE item[1] = "d" -> IF v < 0 THEN <<45>> \o Ultoa(Unsigned(-v), 10, 97)
                                 ELSE Ultoa(v, 10, 97)
    [] item[1] = "x" -> Ultoa(Unsigned(v), 16, 97)
    [] item[1] = "X" -> Ultoa(Unsigned(v), 16, 65)
    [] item[1] = "c" -> IF v = NUL THEN <<>> ELSE <<v>>
    [] item[1] = "s" -> v

\* What may be printed: any int, a character, a string.
Ints == -(Wrap \div 2) .. Wrap - 1 - Wrap \div 2
Items == ({"d", "x", "X"} \X Ints) \cup ({"c"} \X Int) \cup ({"s"} \X Seq(Int))

Format(items) == FlattenSeq([n \in DOMAIN items |-> Conversion(items[n])])
-----------------------------------------------------------------------------
Offset(row, col) == row * Width + col
Origin == [row |-> 0, col |-> 0]

\* A write to video memory; beyond the frame it is not seen.
Write(row, col, chr) ==
  cell' = [off \in DOMAIN cell |-> IF off = Offset(row, col) THEN chr ELSE cell[off]]

\* Where p holds a caret it has read.
Busy(p) == stage[p] \in {"store", "line", "scroll", "aimed"}
Enter(p) == overlap' = (overlap \/ \E q \in Printers \ {p} : Busy(q))

(* A reference: typing on paper without end, of which the screen shows     *)
(* the last rows.                                                          *)
BlankRow == [col \in 0 .. Width - 1 |-> NUL]
BlankPage == [rows |-> <<BlankRow>>, col |-> 0]

Ink(pg, col, chr) == [pg.rows EXCEPT ![Len(pg.rows)] = [@ EXCEPT ![col] = chr]]
Broken(rows) == [rows |-> Append(rows, BlankRow), col |-> 0]

Typed(pg, chr) ==
  CASE chr = CR -> [rows |-> pg.rows, col |-> 0]
    [] chr = LF -> Broken(pg.rows)
    [] chr = BS /\ pg.col = 0 -> pg
    [] chr = BS /\ pg.col > 0 -> [rows |-> Ink(pg, pg.col - 1, SPACE), col |-> pg.col - 1]
    [] OTHER -> IF pg.col + 1 = Width THEN Broken(Ink(pg, pg.col, chr))
                ELSE [rows |-> Ink(pg, pg.col, chr), col |-> pg.col + 1]

\* put_char is through with a character.
Advance(p) ==
  /\ text' = [text EXCEPT ![p] = Tail(@)]
  /\ stage' = [stage EXCEPT ![p] = IF Len(text[p]) = 1 THEN "cursor" ELSE "put"]
  /\ printed' = [printed EXCEPT ![p] = Append(@, Head(text[p]))]
  /\ page' = Typed(page, Head(text[p]))
  /\ UNCHANGED overlap

\* A call of kprintf or kputchar that will print s.
Kprintf(p, s) ==
  /\ stage[p] = "idle"
  /\ text' = [text EXCEPT ![p] = s]
  /\ stage' = [stage EXCEPT ![p] = IF s = <<>> THEN "cursor" ELSE "put"]
  /\ UNCHANGED <<cell, caret, cursor, at, history>>

PutChar(p) ==
  /\ stage[p] = "put"
  /\ at' = [at EXCEPT ![p] = caret]
  /\ stage' = [stage EXCEPT ![p] = IF Head(text[p]) = LF THEN "line" ELSE "store"]
  /\ Enter(p)
  /\ UNCHANGED <<cell, caret, cursor, text, printed, page>>

Return(p) ==
  /\ stage[p] = "store" /\ Head(text[p]) = CR
  /\ caret' = [caret EXCEPT !.col = 0]
  /\ Advance(p)
  /\ UNCHANGED <<cell, cursor, at>>

BackCol(p) == IF at[p].col > 0 THEN at[p].col - 1 ELSE 0

Backspace(p) ==
  /\ stage[p] = "store" /\ Head(text[p]) = BS
  /\ IF BackCol(p) # at[p].col
     THEN /\ caret' = [caret EXCEPT !.col = BackCol(p)]
          /\ Write(at[p].row, BackCol(p), SPACE)
     ELSE UNCHANGED <<cell, caret>>
  /\ Advance(p)
  /\ UNCHANGED <<cursor, at>>

\* Mutant of LineFull: the caret may stay behind the last column.
LineFullNever(p) == FALSE
LineFull(p) == at[p].col + 1 = Width

Store(p) ==
  /\ stage[p] = "store" /\ Head(text[p]) \notin {CR, BS}
  /\ Write(at[p].row, at[p].col, Head(text[p]))
  /\ caret' = [caret EXCEPT !.col = at[p].col + 1]
  /\ IF LineFull(p)
     THEN stage' = [stage EXCEPT ![p] = "line"] /\ UNCHANGED <<text, history>>
     ELSE Advance(p)
  /\ UNCHANGED <<cursor, at>>

NewLine(p) ==
  /\ stage[p] = "line"
  /\ caret' = [row |-> at[p].row + 1, col |-> 0]
  /\ at' = [at EXCEPT ![p].col = 1]   \* from here on the row scroll_frame copies
  /\ IF at[p].row + 1 = Height
     THEN stage' = [stage EXCEPT ![p] = "scroll"] /\ UNCHANGED <<text, history>>
     ELSE Advance(p)
  /\ UNCHANGED <<cell, cursor>>

\* scroll_frame, one row a step; at[p].col is its row.
\* Mutant of NextRow: the row is not counted up.
NextRowSame(p) == at[p].col
NextRow(p) == at[p].col + 1

ScrollRow(p) ==
  LET row == at[p].col IN
  /\ stage[p] = "scroll" /\ row < Height
  /\ cell' = [off \in DOMAIN cell |->
                IF off \div Width = row - 1 THEN cell[off + Width] ELSE cell[off]]
  /\ at' = [at EXCEPT ![p].col = NextRow(p)]
  /\ UNCHANGED <<caret, cursor, text, stage, history>>

\* Its last loop blanks the last row; then caret_row--.
ScrollLast(p) ==
  /\ stage[p] = "scroll" /\ at[p].col = Height
  /\ cell' = [off \in DOMAIN cell |-> IF off \div Width = Height - 1 THEN NUL ELSE cell[off]]
  /\ caret' = [caret EXCEPT !.row = at[p].row]
  /\ Advance(p)
  /\ UNCHANGED <<cursor, at>>

\* put_cursor reads the caret, then writes the ports.
AimCursor(p) ==
  /\ stage[p] = "cursor"
  /\ at' = [at EXCEPT ![p] = caret]
  /\ stage' = [stage EXCEPT ![p] = "aimed"]
  /\ Enter(p)
  /\ UNCHANGED <<cell, caret, cursor, text, printed, page>>

PutCursor(p) ==
  /\ stage[p] = "aimed"
  /\ cursor' = at[p]
  /\ stage' = [stage EXCEPT ![p] = "idle"]
  /\ at' = [at EXCEPT ![p] = Origin]   \* not used any more
  /\ UNCHANGED <<cell, caret, text, history>>

PrintStep(p) ==
  \/ PutChar(p) \/ Return(p) \/ Backspace(p) \/ Store(p) \/ NewLine(p)
  \/ ScrollRow(p) \/ ScrollLast(p) \/ AimCursor(p) \/ PutCursor(p)

\* init_vga.
ConsoleInit ==
  /\ cell = [off \in 0 .. Height * Width - 1 |-> NUL]
  /\ caret = Origin /\ cursor = Origin
  /\ text = [p \in Printers |-> <<>>]
  /\ stage = [p \in Printers |-> "idle"]
  /\ at = [p \in Printers |-> Origin]
  /\ printed = [p \in Printers |-> <<>>] /\ page = BlankPage /\ overlap = FALSE
-----------------------------------------------------------------------------
\* How many of the rows have left the screen, and what it shows of the others.
Above(rows) == IF Len(rows) > Height THEN Len(rows) - Height ELSE 0
Place(rows, row, col) ==
  IF Above(rows) + row + 1 <= Len(rows) THEN rows[Above(rows) + row + 1][col] ELSE NUL
Shown(rows) ==
  [off \in 0 .. Height * Width - 1 |-> Place(rows, off \div Width, off % Width)]

(* What is on the screen is what was printed, in order, as far as it fits, *)
(* and the caret is where the next character goes: it wraps, scrolls and   *)
(* stays in the frame, whoever prints, as long as no process is preempted  *)
(* by another one that prints while it holds a caret it has read.  The     *)
(* blinking cursor is there too when all calls have returned.              *)
ScreenShowsPage ==
  ~overlap /\ (\A p \in Printers : ~Busy(p)) =>
    /\ cell = Shown(page.rows)
    /\ caret = [row |-> Len(page.rows) - Above(page.rows) - 1, col |-> page.col]
    /\ (\A p \in Printers : stage[p] = "idle") => cursor = caret

\* The number a text stands for.
DigitValue(c) == CASE c >= 97 -> c - 87 [] c \in 65 .. 90 -> c - 55 [] OTHER -> c - 48
NumberIn(ds, base) ==
  LET number[n \in 0 .. Len(ds)] ==
        IF n = 0 THEN 0 ELSE number[n - 1] * base + DigitValue(ds[n])
  IN  number[Len(ds)]
ValueOf(s) ==
  CASE Head(s) = 45 -> -NumberIn(Tail(s), 10)
    [] Len(s) > 2 /\ s[2] = 120 -> NumberIn(SubSeq(s, 3, Len(s)), 16)
    [] OTHER -> NumberIn(s, 10)
=============================================================================
