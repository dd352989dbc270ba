------------------------------- MODULE Console -------------------------------
(***************************************************************************)
(* The console, kernel/chr_drv/console.c: con_write takes one character    *)
(* after another through its escape sequence machine and changes the video *)
(* memory, where the screen is a window that starts at origin and that an  *)
(* EGA or VGA card scrolls by moving the window.                           *)
(*                                                                         *)
(* Addresses count cells.  What the cursor's address pos and the moves of  *)
(* memory come to is compared with a screen of rows and columns that only  *)
(* knows x, y, top and bottom: scr.                                        *)
(***************************************************************************)
EXTENDS Naturals, Sequences

CONSTANTS
    video_num_columns,  \* even
    video_num_lines,
    Rows,               \* rows of video memory
    TAB,                \* 8, a divisor of the columns
    NPAR,
    MaxPar,             \* bound on a parameter
    Alphabets,          \* sets of characters, one of which is written
    Cards               \* {"EGA", "MDA"}: with and without the fast scroll

VARIABLES c, alphabet, card

vars == <<c, alphabet, card>>

Cols == video_num_columns
Lines == video_num_lines
Blank == 32
Digit == {"0", "1", "2"}
DigitValue(d) == CASE d = "0" -> 0 [] d = "1" -> 1 [] d = "2" -> 2
Zeros == [i \in 0..(NPAR - 1) |-> 0]

Init ==
    /\ alphabet \in Alphabets
    /\ card \in Cards
    /\ c = [mem |-> [a \in 0..(Rows * Cols - 1) |-> Blank],
            scr |-> [i \in 0..(Lines - 1) |-> [j \in 0..(Cols - 1) |-> Blank]],
            origin |-> 0, scr_end |-> Lines * Cols, pos |-> 0, x |-> 0, y |-> 0,
            top |-> 0, bottom |-> Lines, state |-> 0, npar |-> 0, par |-> Zeros,
            attr |-> 7, saved_x |-> 0, saved_y |-> 0]

-----------------------------------------------------------------------------
\* The string instructions: n cells moved, n cells filled.

Moved(m, to, from, n) == [a \in DOMAIN m |-> IF a >= to /\ a < to + n THEN m[a + from - to] ELSE m[a]]
Filled(m, from, n) == [a \in DOMAIN m |-> IF a >= from /\ a < from + n THEN Blank ELSE m[a]]

\* Mutant: the words are moved one by one, the count is still of long words.
WordsOf(rows) == (rows * Cols) \div 2

\* (rows * columns) >> 1 long words
Longs(rows) == ((rows * Cols) \div 2) * 2

BlankRow == [j \in 0..(Cols - 1) |-> Blank]
RowsUp(s, t, b) == [i \in DOMAIN s |-> IF i < t \/ i >= b THEN s[i] ELSE IF i = b - 1 THEN BlankRow ELSE s[i + 1]]
RowsDown(s, t, b) == [i \in DOMAIN s |-> IF i < t \/ i >= b THEN s[i] ELSE IF i = t THEN BlankRow ELSE s[i - 1]]

scrup(k) ==
    LET o == k.origin + Cols
        up == RowsUp(k.scr, k.top, k.bottom)
    IN IF card = "EGA" /\ k.top = 0 /\ k.bottom = Lines
       THEN IF k.scr_end + Cols > Rows * Cols
            THEN [k EXCEPT !.mem = Filled(Moved(@, 0, o, Longs(Lines - 1)), Longs(Lines - 1), Cols), !.scr = up,
                           !.origin = 0, !.scr_end = @ + Cols - o, !.pos = @ + Cols - o]
            ELSE [k EXCEPT !.mem = Filled(@, k.scr_end, Cols), !.scr = up,
                           !.origin = o, !.scr_end = @ + Cols, !.pos = @ + Cols]
       ELSE [k EXCEPT !.mem = Filled(Moved(@, k.origin + Cols * k.top, k.origin + Cols * (k.top + 1),
                                           Longs(k.bottom - k.top - 1)),
                                     k.origin + Cols * k.top + Longs(k.bottom - k.top - 1), Cols), !.scr = up]

scrdown(k) ==
    LET n == Longs(k.bottom - k.top - 1)
        end == k.origin + Cols * k.bottom
    IN [k EXCEPT !.mem = Filled(Moved(@, end - n, end - Cols - n, n), end - n - Cols, Cols),
                 !.scr = RowsDown(@, k.top, k.bottom)]

-----------------------------------------------------------------------------
\* gotoxy.  A column or row that went below 0 is a huge number, and refused.
gotoxy(k, x, y) ==
    IF x > Cols \/ y >= Lines THEN k
    ELSE [k EXCEPT !.x = x, !.y = y, !.pos = k.origin + y * Cols + x]

Back(a, b) == IF a >= b THEN a - b ELSE Cols + Lines

lf(k) == IF k.y + 1 < k.bottom THEN [k EXCEPT !.y = @ + 1, !.pos = @ + Cols] ELSE scrup(k)
ri(k) == IF k.y > k.top THEN [k EXCEPT !.y = @ - 1, !.pos = @ - Cols] ELSE scrdown(k)
cr(k) == [k EXCEPT !.pos = @ - k.x, !.x = 0]
Left(k) == IF k.x > 0 THEN [k EXCEPT !.x = @ - 1, !.pos = @ - 1] ELSE k

\* Cells [start, start + n) of memory and the given cells of the screen.
Erased(k, start, n, Cells(_, _)) ==
    [k EXCEPT !.mem = Filled(@, start, n),
              !.scr = [i \in DOMAIN @ |-> [j \in DOMAIN @[i] |-> IF Cells(i, j) THEN Blank ELSE @[i][j]]]]

del(k) ==
    LET Here(i, j) == i = k.y /\ j = k.x - 1
    IN IF k.x > 0 THEN Erased(Left(k), k.pos - 1, 1, Here) ELSE k

csi_J(k, p) ==
    LET Before(i, j) == i < k.y \/ (i = k.y /\ j < k.x)
        After(i, j) == ~Before(i, j)
        All(i, j) == TRUE
    IN CASE p = 0 -> Erased(k, k.pos, k.scr_end - k.pos, After)
         [] p = 1 -> Erased(k, k.origin, k.pos - k.origin, Before)
         [] p = 2 -> Erased(k, k.origin, Cols * Lines, All)
         [] OTHER -> k

csi_K(k, p) ==
    LET Before(i, j) == i = k.y /\ j < k.x
        After(i, j) == i = k.y /\ j >= k.x
        Row(i, j) == i = k.y
    IN CASE p = 0 /\ k.x < Cols -> Erased(k, k.pos, Cols - k.x, After)
         [] p = 1 -> Erased(k, k.pos - k.x, k.x, Before)
         [] p = 2 -> Erased(k, k.pos - k.x, Cols, Row)
         [] OTHER -> k

\* The parameters 0, 1 and 2: the others of csi_m give the same attributes.
csi_m(k) ==
    LET known == {i \in 0..k.npar : k.par[i] \in {0, 1}}
        last == CHOOSE i \in known : \A j \in known : j <= i
    IN IF known = {} THEN k ELSE [k EXCEPT !.attr = IF k.par[last] = 0 THEN 7 ELSE 15]

\* insert_char and delete_char shift the rest of the row by one cell.
insert_char(k) ==
    LET n == Cols - k.x
    IN IF n = 0 THEN k
       ELSE [k EXCEPT !.mem = Filled(Moved(@, k.pos + 1, k.pos, n - 1), k.pos, 1),
                      !.scr[k.y] = [j \in DOMAIN @ |-> IF j < k.x THEN @[j] ELSE IF j = k.x THEN Blank ELSE @[j - 1]]]

delete_char(k) ==
    LET n == Cols - k.x
    IN IF n = 0 THEN k
       ELSE [k EXCEPT !.mem = Filled(Moved(@, k.pos, k.pos + 1, n - 1), k.pos + n - 1, 1),
                      !.scr[k.y] = [j \in DOMAIN @ |-> IF j < k.x THEN @[j] ELSE IF j = Cols - 1 THEN Blank ELSE @[j + 1]]]

\* insert_line and delete_line scroll from the row of the cursor to the last.
FromRow(k, Scroll(_)) ==
    [Scroll([k EXCEPT !.top = k.y, !.bottom = Lines]) EXCEPT !.top = k.top, !.bottom = k.bottom]
insert_line(k) == FromRow(k, scrdown)
delete_line(k) == FromRow(k, scrup)

Repeated(Op(_), k, n) ==
    LET r[i \in 0..n] == IF i = 0 THEN k ELSE Op(r[i - 1]) IN r[n]

\* csi_at, csi_L, csi_P, csi_M
csi_nr(nr, most) == IF nr > most THEN most ELSE IF nr = 0 THEN 1 ELSE nr

save_cur(k) == [k EXCEPT !.saved_x = k.x, !.saved_y = k.y]
restore_cur(k) == gotoxy(k, k.saved_x, k.saved_y)

-----------------------------------------------------------------------------
\* The machine of con_write.

\* A line that is full is left only for the next character.
Wrapped(k) == lf([k EXCEPT !.x = @ - Cols, !.pos = @ - Cols])

Printed(k0) ==
    LET k == IF k0.x >= Cols THEN Wrapped(k0) ELSE k0
    IN [k EXCEPT !.mem[k.pos] = k.attr, !.scr[k.y][k.x] = k.attr, !.pos = @ + 1, !.x = @ + 1]

Tabbed(k0) ==
    LET n == TAB - (k0.x % TAB)
        k == [k0 EXCEPT !.x = @ + n, !.pos = @ + n]
    IN IF k.x > Cols THEN Wrapped(k) ELSE k

\* respond and sysbeep leave the screen alone.
Plain(k, ch) ==
    CASE ch = "a" -> Printed(k)
      [] ch = "ESC" -> [k EXCEPT !.state = 1]
      [] ch = "LF" -> lf(k)
      [] ch = "CR" -> cr(k)
      [] ch = "DEL" -> del(k)
      [] ch = "BS" -> Left(k)
      [] ch = "HT" -> Tabbed(k)
      [] OTHER -> k

Escape(k0, ch) ==
    LET k == [k0 EXCEPT !.state = 0]
    IN CASE ch = "[" -> [k EXCEPT !.state = 2]
         [] ch = "E" -> gotoxy(k, 0, k.y + 1)
         [] ch = "M" -> ri(k)
         [] ch = "D" -> lf(k)
         [] ch = "7" -> save_cur(k)
         [] ch = "8" -> restore_cur(k)
         [] OTHER -> k

Less(n) == IF n > 0 THEN n - 1 ELSE 0
Least(n) == IF n = 0 THEN 1 ELSE n

Region(k, t, b) == IF t < b /\ b <= Lines THEN [k EXCEPT !.top = t, !.bottom = b] ELSE k

Final(k0, ch) ==
    LET k == [k0 EXCEPT !.state = 0]
        p == k.par[0]
    IN CASE ch = "G" -> gotoxy(k, Less(p), k.y)
         [] ch = "A" -> gotoxy(k, k.x, Back(k.y, Least(p)))
         [] ch = "B" -> gotoxy(k, k.x, k.y + Least(p))
         [] ch = "C" -> gotoxy(k, k.x + Least(p), k.y)
         [] ch = "D" -> gotoxy(k, Back(k.x, Least(p)), k.y)
         [] ch = "E" -> gotoxy(k, 0, k.y + Least(p))
         [] ch = "F" -> gotoxy(k, 0, Back(k.y, Least(p)))
         [] ch = "d" -> gotoxy(k, k.x, Less(p))
         [] ch = "H" -> gotoxy(k, Less(k.par[1]), Less(p))
         [] ch = "J" -> csi_J(k, p)
         [] ch = "K" -> csi_K(k, p)
         [] ch = "L" -> Repeated(insert_line, k, csi_nr(p, Lines))
         [] ch = "M" -> Repeated(delete_line, k, csi_nr(p, Lines))
         [] ch = "P" -> Repeated(delete_char, k, csi_nr(p, Cols))
         [] ch = "@" -> Repeated(insert_char, k, csi_nr(p, Cols))
         [] ch = "m" -> csi_m(k)
         [] ch = "r" -> Region(k, Less(p), IF k.par[1] = 0 THEN Lines ELSE k.par[1])
         [] ch = "s" -> save_cur(k)
         [] ch = "u" -> restore_cur(k)
         [] OTHER -> k

\* Parameters go on while digits and semicolons come; anything else ends the
\* sequence.  State 2 clears them and falls through.
Parameters(k0, ch) ==
    LET k == IF k0.state = 2 THEN [k0 EXCEPT !.state = 3, !.npar = 0, !.par = Zeros] ELSE k0
    IN IF k0.state = 2 /\ ch = "?" THEN k
       ELSE IF ch = ";" /\ k.npar < NPAR - 1 THEN [k EXCEPT !.npar = @ + 1]
       ELSE IF ch \in Digit THEN [k EXCEPT !.par[k.npar] = 10 * @ + DigitValue(ch)]
       ELSE Final(k, ch)

con_write(ch) ==
    /\ ch \in Digit /\ c.state = 3 => 10 * c.par[c.npar] <= MaxPar
    /\ c' = CASE c.state = 0 -> Plain(c, ch)
              [] c.state = 1 -> Escape(c, ch)
              [] OTHER -> Parameters(c, ch)
    /\ UNCHANGED <<alphabet, card>>

Next == \E ch \in alphabet : con_write(ch)

Spec == Init /\ [][Next]_vars

-----------------------------------------------------------------------------
\* The window shows what a screen of rows and columns would show (console.c:107,
\* 170): fast scrolling, the return of the window to the start of memory and the
\* scrolling of a region are seen by nobody.  The cursor's address and its
\* coordinates agree (console.c:94); x may be one past the row, y never
\* (console.c:87).
ShowsTheScreen ==
    /\ c.pos = c.origin + c.y * Cols + c.x
    /\ c.x <= Cols /\ c.y < Lines
    /\ c.top < c.bottom /\ c.bottom <= Lines
    /\ c.scr_end = c.origin + Lines * Cols /\ c.scr_end <= Rows * Cols
    /\ \A i \in 0..(Lines - 1), j \in 0..(Cols - 1) : c.mem[c.origin + i * Cols + j] = c.scr[i][j]
=============================================================================
