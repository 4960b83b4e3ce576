------------------------------ MODULE Terminal ------------------------------
(* The terminal s3dvt: a thread reads what the shell prints and writes it into *)
(* the array of lines, the main thread paints the cells that changed, and one  *)
(* flag without a lock stands between them: the thread writes while the        *)
(* painter compares and erases. Lines and columns count from 0; a cell that is *)
(* empty is 0.                                                                 *)
EXTENDS Integers, Sequences

CONSTANTS
    MAX_LINES, MAX_CHARS,
    Chars,      \* what can be printed
    Digits      \* what the arguments of a sequence can be

VARIABLES
    term_mode,  \* "none", "pty" or "pipe"
    main,       \* "start", "run", "stop" or "gone"
    shell,      \* "none", "alive" or "dead"
    output,     \* something was printed, or typed in pipe mode, that is not read yet
    thread,     \* the reader: "none", "read" or "add"
    esc, args,  \* the escape sequence it is in, and the two arguments so far, 0 for none
    s,          \* the lines, the cursor, the scroll range and gotnewdata: [l, x, y, top, bottom, new]
    row, col,   \* the cell paintit() is at; row is -1 when it is not at work
    ch,         \* the character it has read there, -1 before
    line_end,   \* it has erased a cell of this line
    last_c, shown,      \* what it has compared with, and what is on the screen
    late        \* (history) the cells the thread changed when this pass had read them

vars == <<term_mode, main, shell, output, thread, esc, args, s, row, col, ch, line_end, last_c, shown, late>>
tty == <<term_mode, main, shell, output>>
reader == <<thread, esc, args, s>>
painter == <<row, col, ch, line_end, last_c, shown>>
screen == <<painter, late>>
Rows == 0..(MAX_LINES - 1)
Cols == 0..(MAX_CHARS - 1)
Blank == [r \in Rows |-> [c \in Cols |-> 0]]

Init == /\ term_mode = "none" /\ main = "start" /\ shell = "none"
        /\ output = FALSE
        /\ thread = "none" /\ esc = "text" /\ args = <<0, 0>>
        /\ s = [l |-> Blank, x |-> 0, y |-> 0, top |-> 0, bottom |-> MAX_LINES - 1, new |-> TRUE]
        /\ row = -1 /\ col = 0 /\ ch = -1 /\ line_end = FALSE
        /\ last_c = Blank /\ shown = Blank /\ late = {}

-----------------------------------------------------------------------------
(* terminal.c: what a character does to the state st                           *)

Cleared(st, cells) == [st EXCEPT !.l = [r \in Rows |-> [c \in Cols |->
                          IF <<r, c>> \in cells THEN 0 ELSE st.l[r][c]]]]
move_all_lines_up(l) == [r \in Rows |-> IF r < MAX_LINES - 1 THEN l[r + 1] ELSE [c \in Cols |-> 0]]
\* Variant: the cursor is not held on the last line.
LineFullRuns(st) == [st EXCEPT !.y = @ + 1, !.x = 0,
                               !.l = IF st.y = MAX_LINES - 1 THEN move_all_lines_up(@) ELSE @]
line_is_full(st) ==
    IF st.y + 1 >= MAX_LINES
    THEN [st EXCEPT !.y = MAX_LINES - 1, !.x = 0, !.l = move_all_lines_up(@), !.new = TRUE]
    ELSE [st EXCEPT !.y = @ + 1, !.x = 0]

\* The character after the wrap goes to column 0, and the cursor stays there.
add_char_append(st, toappend) ==
    LET d == line_is_full(st)
    IN  IF st.x = MAX_CHARS - 1 THEN [d EXCEPT !.l[d.y][0] = toappend]
        ELSE [st EXCEPT !.l[st.y][st.x] = toappend, !.x = @ + 1]

\* move_x_letters(): to the right over the end of a line, to the left over its beginning.
Right(st, n) ==
    LET at[k \in 0..n] == IF k = 0 THEN st
                          ELSE IF at[k - 1].x + 1 = MAX_CHARS THEN line_is_full(at[k - 1])
                          ELSE [at[k - 1] EXCEPT !.x = @ + 1]
    IN  at[n]
Left(st, n) ==
    LET at[k \in 0..n] == IF k = 0 THEN st
                          ELSE IF at[k - 1].x = 0 THEN [at[k - 1] EXCEPT !.x = MAX_CHARS - 1, !.y = @ - 1]
                          ELSE [at[k - 1] EXCEPT !.x = @ - 1]
    IN  at[n]

\* move_up_x_lines() and move_down_x_lines(): as many lines as the scroll range has.
LinesUp(st, n) == [st EXCEPT !.l = [r \in Rows |->
    IF r < st.y \/ r >= st.y + st.bottom - st.top THEN @[r]
    ELSE @[IF r + n <= st.y + st.bottom - st.top THEN r + n ELSE st.y + st.bottom - st.top]]]
LinesDown(st, n) == [st EXCEPT !.l = [r \in Rows |->
    IF r <= st.y \/ r > st.y + st.bottom - st.top THEN @[r] ELSE @[IF r - n >= st.y THEN r - n ELSE st.y]]]

\* parseansi(): the last byte of a sequence ESC [ a ; b ...
Finals == {"J", "K", "H", "G", "d", "m", "M", "L", "r", "A", "B", "C", "D", "P"}
Or(a, default) == IF a = 0 THEN default ELSE a
Final(st, b, a) ==
    CASE b = "J" -> [Cleared(st, {rc \in Rows \X Cols : rc[1] > st.y \/ (rc[1] = st.y /\ rc[2] >= st.x)})
                       EXCEPT !.new = TRUE]
      [] b = "K" -> Cleared(st, {rc \in Rows \X Cols : rc[1] = st.y /\ rc[2] >= st.x})
      [] b = "P" -> Cleared(st, {rc \in Rows \X Cols : rc[1] = st.y /\ rc[2] \in st.x..(st.x + Or(a[1], 1) - 1)})
      [] b = "H" -> [st EXCEPT !.y = Or(a[1], 1) - 1, !.x = Or(a[2], 1) - 1]
      [] b = "G" -> [st EXCEPT !.x = a[1] - 1, !.y = st.bottom - 1]
      [] b = "d" -> [st EXCEPT !.y = st.top + Or(a[1], 1) - 1, !.x = MAX_CHARS - 1]
      [] b = "r" -> [st EXCEPT !.top = a[1], !.bottom = a[2], !.x = 0, !.y = 0]
      [] b = "M" -> LinesUp(st, a[1])
      [] b = "L" -> LinesDown(st, a[1])
      [] b = "A" -> [st EXCEPT !.y = @ - 1]
      [] b = "B" -> line_is_full(st)
      [] b = "C" -> Right(st, Or(a[1], 1))
      [] b = "D" -> Left(st, Or(a[1], 1))
      [] b = "m" -> st      \* colours are kept, and never painted

\* What a program that knows the size of the screen sends.
Sane(b) ==
    CASE b = "H" -> args[1] <= MAX_LINES /\ args[2] <= MAX_CHARS
      [] b = "G" -> args[1] \in 1..MAX_CHARS /\ s.bottom > 0
      [] b = "d" -> s.top + Or(args[1], 1) <= MAX_LINES
      [] b = "r" -> args[1] <= args[2] /\ args[2] < MAX_LINES
      [] b \in {"M", "L"} -> s.y + s.bottom - s.top < MAX_LINES
      [] b = "A" -> s.y > 0
      [] b = "D" -> Or(args[1], 1) <= s.x + s.y * MAX_CHARS
      [] OTHER -> TRUE

-----------------------------------------------------------------------------
(* The thread                                                                  *)

\* read() came back with data.
Read == /\ thread = "read" /\ output /\ main # "gone"
        /\ thread' = "add" /\ output' = FALSE
        /\ UNCHANGED <<term_mode, main, shell, esc, args, s>> /\ UNCHANGED screen

Becomes(st, e, a) == s' = st /\ esc' = e /\ args' = a
\* AddChar() on characters that are not part of a sequence.
Plain ==
    /\ esc = "text"
    /\ \/ \E c \in Chars : Becomes(add_char_append(s, c), "text", args)
       \/ Becomes([s EXCEPT !.x = IF @ > 0 THEN @ - 1 ELSE 0], "text", args)           \* BS
       \/ Becomes(line_is_full(s), "text", args)                                        \* LF
       \/ Becomes(IF s.x = MAX_CHARS - 1 THEN line_is_full(s) ELSE [s EXCEPT !.x = 0], "text", args)  \* CR
       \/ Becomes(s, "escape", args)
\* parseansi(); character sets, titles and the private sequences of `?' are read and ignored.
Sequence ==
    \/ esc = "escape" /\ \E e \in {"args", "ignored", "text"} : Becomes(s, e, args)
    \/ esc = "args" /\ args[1] = 0 /\ \E d \in Digits : Becomes(s, "args", <<d, 0>>)
    \/ esc = "args" /\ \E d \in Digits : Becomes(s, "second", <<args[1], d>>)
    \/ esc \in {"args", "second"} /\ \E b \in Finals : Sane(b) /\ Becomes(Final(s, b, args), "text", <<0, 0>>)
    \/ esc = "args" /\ args[1] = 0 /\ Becomes(s, "ignored", args)
    \/ esc = "ignored" /\ Becomes(s, "text", args)
\* The painter has read this cell in the pass it is at.
Behind(r, c) == r < row \/ (r = row /\ (c < col \/ (c = col /\ ch # -1)))
\* A character comes in one step, between any two steps of the painter.
AddChar ==
    /\ thread = "add" /\ main # "gone"
    /\ Plain \/ Sequence
    /\ late' = late \cup {rc \in Rows \X Cols :
                            Behind(rc[1], rc[2]) /\ s'.l[rc[1]][rc[2]] # s.l[rc[1]][rc[2]]}
    /\ UNCHANGED thread /\ UNCHANGED tty /\ UNCHANGED painter

\* Variant: the flag is not set when all is added, but by what scrolls and clears.
AddedQuiet == /\ thread = "add" /\ thread' = "read" /\ main # "gone"
              /\ UNCHANGED <<esc, args, s>> /\ UNCHANGED tty /\ UNCHANGED screen
\* The end of AddChar().
Added == /\ thread = "add" /\ thread' = "read" /\ main # "gone"
         /\ s' = [s EXCEPT !.new = TRUE]
         /\ UNCHANGED <<esc, args>> /\ UNCHANGED tty /\ UNCHANGED screen

\* read() fails when nobody has the other side of the pty open; the thread ends the program.
Lost == /\ thread = "read" /\ ~output /\ term_mode = "pty" /\ shell = "dead" /\ main # "gone"
        /\ main' = "gone" /\ thread' = "none"
        /\ UNCHANGED <<term_mode, shell, output, esc, args, s>> /\ UNCHANGED screen

-----------------------------------------------------------------------------
(* main.c and the shell                                                        *)

\* init_terminal(): a pty, or pipes when five attempts failed. s3d_init() may fail after it.
init_terminal == /\ main = "start" /\ term_mode = "none"
                 /\ term_mode' \in {"pty", "pipe"} /\ main' \in {"run", "stop"}
                 /\ shell' = "alive" /\ thread' = "read"
                 /\ UNCHANGED <<output, esc, args, s>> /\ UNCHANGED screen

\* keypress() and term_addchar(): in pipe mode what is typed is printed too.
keypress == /\ main = "run" /\ row = -1
            /\ output' = (output \/ term_mode = "pipe")
            /\ UNCHANGED <<term_mode, main, shell>> /\ UNCHANGED reader /\ UNCHANGED screen

\* paintit() reads a cell,
Compare == /\ main = "run" /\ row \in Rows /\ ch = -1
           /\ ch' = s.l[row][col]
           /\ UNCHANGED <<row, col, line_end, last_c, shown, late>> /\ UNCHANGED tty /\ UNCHANGED reader
Changed == ch # last_c[row][col]
Erased == Changed /\ (ch = 0 \/ line_end)
\* and shows what it has read when it is another than before; when that is none, or comes after
\* a cell that was erased, the cell is erased, in the lines too.
NextCell ==
    /\ ch' = -1
    /\ IF col = MAX_CHARS - 1 THEN row' = row + 1 /\ col' = 0 /\ line_end' = FALSE
       ELSE row' = row /\ col' = col + 1 /\ line_end' = (line_end \/ Erased)
\* Variant: a cell that has become empty is left on the screen.
StoreFilled ==
    /\ main = "run" /\ ch # -1
    /\ s' = IF Erased THEN [s EXCEPT !.l[row][col] = 0] ELSE s
    /\ shown' = IF ch # 0 /\ Changed THEN [shown EXCEPT ![row][col] = IF Erased THEN 0 ELSE ch] ELSE shown
    /\ last_c' = [last_c EXCEPT ![row][col] = ch]
    /\ NextCell
    /\ UNCHANGED <<thread, esc, args, late>> /\ UNCHANGED tty
Store ==
    /\ main = "run" /\ ch # -1
    /\ s' = IF Erased THEN [s EXCEPT !.l[row][col] = 0] ELSE s
    /\ shown' = IF Changed THEN [shown EXCEPT ![row][col] = IF Erased THEN 0 ELSE ch] ELSE shown
    /\ last_c' = [last_c EXCEPT ![row][col] = ch]
    /\ NextCell
    /\ UNCHANGED <<thread, esc, args, late>> /\ UNCHANGED tty
\* mainloop() begins to paint when there is new data,
Paint == /\ main = "run" /\ row = -1 /\ s.new
         /\ row' = 0 /\ late' = {}
         /\ UNCHANGED <<col, ch, line_end, last_c, shown>> /\ UNCHANGED tty /\ UNCHANGED reader
\* and paintit() takes the flag back when it is done, whoever raised it meanwhile.
Painted == /\ main = "run" /\ row = MAX_LINES
           /\ row' = -1 /\ s' = [s EXCEPT !.new = FALSE]
           /\ UNCHANGED <<thread, esc, args, col, ch, line_end, last_c, shown, late>> /\ UNCHANGED tty

\* stop(), and what main() does at the end, which the shell notices.
Stop == /\ \/ main = "run" /\ row = -1 /\ main' = "stop"
           \/ main = "stop" /\ main' = "gone"
        /\ UNCHANGED <<term_mode, shell, output>> /\ UNCHANGED reader /\ UNCHANGED screen

ShellPrints == /\ shell = "alive" /\ output' = TRUE
               /\ UNCHANGED <<term_mode, main, shell>> /\ UNCHANGED reader /\ UNCHANGED screen
ShellEnds == /\ shell = "alive" /\ shell' = "dead"
             /\ UNCHANGED <<term_mode, main, output>> /\ UNCHANGED reader /\ UNCHANGED screen

Next == \/ Read \/ AddChar \/ Added \/ Lost
        \/ init_terminal \/ keypress \/ Paint \/ Compare \/ Store \/ Painted \/ Stop
        \/ ShellPrints \/ ShellEnds
Spec == Init /\ [][Next]_vars

-----------------------------------------------------------------------------
\* The thread waits for data and the painter sees nothing to do, though the flag may have been
\* taken back that the thread raised while it was painting. Then the screen shows the lines, but
\* for the cells the thread changed behind the painter in its last pass, and for those that are
\* blank since the painter erased what it had read there, and hold just that character again.
ShownAtRest == thread = "read" /\ ~s.new /\ row = -1 => \A r \in Rows, c \in Cols :
    \/ <<r, c>> \in late
    \/ shown[r][c] = s.l[r][c]
    \/ shown[r][c] = 0 /\ last_c[r][c] = s.l[r][c]

\* The cursor stays on the screen, through wraps, scrolling and every sequence of a program
\* that knows how large the screen is: the arrays are indexed with it.
CursorInside == s.x \in Cols /\ s.y \in Rows
=============================================================================
