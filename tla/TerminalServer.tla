---------------------------- MODULE TerminalServer ----------------------------
(* The terminal: parser of escape sequences, cursor and scrolling, and the screen. *)
EXTENDS Integers, Sequences, SequencesExt, FiniteSets

(* The byte stream of the terminal emulator (lib/libteken): control          *)
(* characters, which act in every state, and the generated state machine     *)
(* that collects the arguments of an escape sequence and calls a subroutine  *)
(* (teken.c, teken_state.h).  The colour subroutines act on this state; what *)
(* the others do to the screen is module Teken.                              *)

CONSTANTS Digits, Letters,      \* the digits and the final characters of the instance
          T_NUMSIZE,            \* arguments of a sequence (8)
          TekenParser_Width,    \* unsigned int holds 0..Width-1
          MaxBytes,             \* bound: bytes inside one escape sequence
          MaxSequences          \* bound: escape sequences of the stream
VARIABLE parser

Control == {"NUL", "BEL", "BS", "LF", "VT", "FF", "CR", "TAB"}

DefaultAttr == [format |-> {}, fg |-> 7, bg |-> 0]

(* The parser's part of teken_t.  seq is the bytes since the state machine   *)
(* entered its state, left the escape sequences still to come.               *)
TekenParser_Init ==
  parser = [nextstate |-> "init", nums |-> [i \in 1..T_NUMSIZE |-> 0], curnum |-> 0, first |-> FALSE,
            curattr |-> DefaultAttr, defattr |-> DefaultAttr, saved |-> DefaultAttr, seq |-> <<>>, left |-> MaxSequences]

teken_state_switch(q, s) ==
  [q EXCEPT !.nextstate = s, !.curnum = 0, !.first = TRUE, !.seq = <<>>]

(* The sequences of the generated table: state, character, subroutine and    *)
(* its arguments ("n" one of default 1, "r" one of default 0, "nn" and "rr"  *)
(* two, "v" all of them, "" none); HPA is the backquote, ST the backslash.   *)
SequencesCSI ==
  {<<"[", "@", "insert_character", "n">>, <<"[", "A", "cursor_up", "n">>, <<"[", "B", "cursor_down", "n">>,
   <<"[", "e", "cursor_down", "n">>, <<"[", "C", "cursor_forward", "n">>, <<"[", "a", "cursor_forward", "n">>,
   <<"[", "D", "cursor_backward", "n">>, <<"[", "E", "cursor_next_line", "n">>,
   <<"[", "F", "cursor_previous_line", "n">>, <<"[", "G", "horizontal_position_absolute", "n">>,
   <<"[", "HPA", "horizontal_position_absolute", "n">>, <<"[", "H", "cursor_position", "nn">>,
   <<"[", "f", "cursor_position", "nn">>, <<"[", "I", "cursor_forward_tabulation", "n">>,
   <<"[", "J", "erase_display", "r">>, <<"[", "K", "erase_line", "r">>, <<"[", "L", "insert_line", "n">>,
   <<"[", "M", "delete_line", "n">>, <<"[", "P", "delete_character", "n">>, <<"[", "S", "pan_down", "n">>,
   <<"[", "T", "pan_up", "n">>, <<"[", "X", "erase_character", "n">>,
   <<"[", "Z", "cursor_backward_tabulation", "n">>, <<"[", "c", "primary_device_attributes", "r">>,
   <<"[", "d", "vertical_position_absolute", "n">>, <<"[", "g", "tab_clear", "r">>,
   <<"[", "h", "set_mode", "r">>, <<"[", "l", "reset_mode", "r">>, <<"[", "m", "set_graphic_rendition", "v">>,
   <<"[", "n", "cursor_position_report", "r">>, <<"[", "r", "set_top_and_bottom_margins", "rr">>,
   <<"[", "s", "save_cursor", "">>, <<"[", "u", "restore_cursor", "">>,
   <<"[", "z", "cons25_switch_virtual_terminal", "r">>}
SequencesDA2 ==
  {<<"[>", "c", "secondary_device_attributes", "r">>}
SequencesDEC ==
  {<<"[?", "h", "set_dec_mode", "r">>, <<"[?", "l", "reset_dec_mode", "r">>,
   <<"[?", "n", "device_status_report", "r">>}
SequencesESC ==
  {<<"ESC", "7", "save_cursor", "">>, <<"ESC", "8", "restore_cursor", "">>,
   <<"ESC", "=", "keypad_application_mode", "">>, <<"ESC", ">", "keypad_numeric_mode", "">>,
   <<"ESC", "D", "index", "">>, <<"ESC", "E", "next_line", "">>, <<"ESC", "H", "horizontal_tab_set", "">>,
   <<"ESC", "M", "reverse_index", "">>, <<"ESC", "P", "device_control_string", "">>,
   <<"ESC", "c", "reset_to_initial_state", "">>, <<"ESC", "ST", "string_terminator", "">>}
SequencesG0 ==
  {<<"(", "0", "g0_scs_special_graphics", "">>, <<"(", "1", "g0_scs_us_ascii", "">>,
   <<"(", "2", "g0_scs_special_graphics", "">>, <<"(", "A", "g0_scs_uk_national", "">>,
   <<"(", "B", "g0_scs_us_ascii", "">>}
SequencesG1 ==
  {<<")", "0", "g1_scs_special_graphics", "">>, <<")", "1", "g1_scs_us_ascii", "">>,
   <<")", "2", "g1_scs_special_graphics", "">>, <<")", "A", "g1_scs_uk_national", "">>,
   <<")", "B", "g1_scs_us_ascii", "">>}
SequencesCons25 ==
  {<<"[=", "F", "cons25_set_adapter_foreground", "r">>, <<"[=", "G", "cons25_set_adapter_background", "r">>,
   <<"[=", "S", "cons25_set_cursor_type", "r">>}
SequencesLine ==
  {<<"#", "3", "double_height_double_width_line_top", "">>,
   <<"#", "4", "double_height_double_width_line_bottom", "">>,
   <<"#", "5", "single_height_single_width_line", "">>, <<"#", "6", "single_height_double_width_line", "">>,
   <<"#", "8", "alignment_test", "">>}
Table == UNION {SequencesCSI, SequencesDA2, SequencesDEC, SequencesESC, SequencesG0, SequencesG1, SequencesCons25, SequencesLine}

(* The characters that lead to a further state.                              *)
Prefix ==
  {<<"init", "ESC", "ESC">>, <<"ESC", "[", "[">>, <<"ESC", "(", "(">>, <<"ESC", ")", ")">>, <<"ESC", "#", "#">>,
   <<"[", ">", "[>">>, <<"[", "?", "[?">>, <<"[", "=", "[=">>}

Numbered == {"[", "[>", "[?", "[="}

Value(d) == (CHOOSE i \in 1..10 : <<"0", "1", "2", "3", "4", "5", "6", "7", "8", "9">>[i] = d) - 1

(* teken_state_numbers: TRUE in taken when the character was part of a       *)
(* number.                                                                   *)
teken_state_numbers(q, c) ==
  LET i == q.curnum + 1 IN
  IF c \in Digits
  THEN [taken |-> TRUE,
        q |-> [q EXCEPT !.nums[i] = (((IF q.first THEN 0 ELSE @ * 10) % TekenParser_Width) + Value(c)) % TekenParser_Width,
                        !.first = FALSE, !.seq = Append(@, c)]]
  ELSE IF c = ";"
  THEN [taken |-> TRUE,
        q |-> LET n == [q EXCEPT !.nums[i] = IF q.first THEN 0 ELSE @, !.curnum = @ + 1, !.seq = Append(@, c)]
              IN IF n.curnum = T_NUMSIZE THEN teken_state_switch(n, "init") ELSE [n EXCEPT !.first = TRUE]]
  ELSE [taken |-> FALSE,
        q |-> IF q.first /\ q.curnum > 0 THEN [q EXCEPT !.nums[i] = 0, !.curnum = @ + 1]
              ELSE IF ~q.first THEN [q EXCEPT !.curnum = @ + 1] ELSE q]

(* A form of Argument that trusts t_nums without looking at t_curnum.        *)
Argument_stale(q, i, default) ==
  IF default = 1 /\ q.nums[i] = 0 THEN 1 ELSE q.nums[i]

(* The argument expressions of the generated calls.                          *)
Argument(q, i, default) ==
  IF q.curnum < i THEN default ELSE IF default = 1 /\ q.nums[i] = 0 THEN 1 ELSE q.nums[i]

Arguments(q, kind) ==
  CASE kind = "n" -> <<Argument(q, 1, 1)>>
    [] kind = "r" -> <<Argument(q, 1, 0)>>
    [] kind = "nn" -> <<Argument(q, 1, 1), Argument(q, 2, 1)>>
    [] kind = "rr" -> <<Argument(q, 1, 0), Argument(q, 2, 0)>>
    [] kind = "v" -> SubSeq(q.nums, 1, q.curnum)
    [] OTHER -> <<>>

(* teken_subr_set_graphic_rendition: the attributes in order, none of them   *)
(* means reset.                                                              *)
Rendition(attr, n, def) ==
  CASE n = 0 -> def
    [] n = 1 -> [attr EXCEPT !.format = @ \cup {"bold"}]
    [] n = 4 -> [attr EXCEPT !.format = @ \cup {"underline"}]
    [] n = 5 -> [attr EXCEPT !.format = @ \cup {"blink"}]
    [] n = 7 -> [attr EXCEPT !.format = @ \cup {"reverse"}]
    [] n = 22 -> [attr EXCEPT !.format = @ \ {"bold"}]
    [] n = 24 -> [attr EXCEPT !.format = @ \ {"underline"}]
    [] n = 25 -> [attr EXCEPT !.format = @ \ {"blink"}]
    [] n = 27 -> [attr EXCEPT !.format = @ \ {"reverse"}]
    [] n \in 30..37 -> [attr EXCEPT !.fg = n - 30]
    [] n = 39 -> [attr EXCEPT !.fg = def.fg]
    [] n \in 40..47 -> [attr EXCEPT !.bg = n - 40]
    [] n = 49 -> [attr EXCEPT !.bg = def.bg]
    [] OTHER -> attr

set_graphic_rendition(q, cmds) ==
  [q EXCEPT !.curattr = IF cmds = <<>> THEN q.defattr
                        ELSE FoldLeft(LAMBDA a, n : Rendition(a, n, q.defattr), @, cmds)]

(* The colours in the order of the cons25 adapter.                           *)
cons25_colors == <<0, 4, 2, 6, 1, 5, 3, 7>>

cons25_set_adapter_background(q, c) ==
  [q EXCEPT !.defattr.bg = cons25_colors[(c % 8) + 1], !.curattr.bg = cons25_colors[(c % 8) + 1]]

Bold(attr, c) ==
  [attr EXCEPT !.fg = cons25_colors[(c % 8) + 1], !.format = IF c >= 8 THEN @ \cup {"bold"} ELSE @ \ {"bold"}]

cons25_set_adapter_foreground(q, c) ==
  [q EXCEPT !.defattr = Bold(@, c), !.curattr = Bold(@, c)]

(* The part of a subroutine that acts on the attributes.                     *)
Call(q, name, args) ==
  CASE name = "set_graphic_rendition" -> set_graphic_rendition(q, args)
    [] name = "cons25_set_adapter_background" -> cons25_set_adapter_background(q, args[1])
    [] name = "cons25_set_adapter_foreground" -> cons25_set_adapter_foreground(q, args[1])
    [] name = "save_cursor" -> [q EXCEPT !.saved = q.curattr]
    [] name = "restore_cursor" -> [q EXCEPT !.curattr = q.saved]
    [] name = "reset_to_initial_state" -> [q EXCEPT !.curattr = q.defattr, !.saved = q.defattr]
    [] OTHER -> q

(* A state of the machine on a character: a prefix, a sequence of the table, *)
(* or an unsupported one.  In state init everything else is text.            *)
Dispatch(q, c) ==
  IF \E e \in Prefix : e[1] = q.nextstate /\ e[2] = c
  THEN teken_state_switch(q, (CHOOSE e \in Prefix : e[1] = q.nextstate /\ e[2] = c)[3])
  ELSE IF q.nextstate = "init"
  THEN Call(q, "regular_character", <<>>)
  ELSE LET hits == {e \in Table : e[1] = q.nextstate /\ e[2] = c}
           e == CHOOSE e \in hits : TRUE
       IN teken_state_switch(IF hits = {} THEN q ELSE Call(q, e[3], Arguments(q, e[4])), "init")

State(q, c) ==
  IF q.nextstate \notin Numbered THEN Dispatch(q, c)
  ELSE LET r == teken_state_numbers(q, c) IN IF r.taken THEN r.q ELSE Dispatch(r.q, c)

(* A control character acts on the screen at once and leaves the sequence    *)
(* open; any other character is the state machine's.                         *)
teken_input_char ==
  \E c \in Control \cup Digits \cup Letters \cup {";", "ESC", "[", "(", ")", "#", ">", "?", "="} :
    /\ c \in Digits \cup {";"} => Len(parser.seq) < MaxBytes
    /\ c = "ESC" => parser.left > 0
    /\ parser' = IF c \in Control THEN parser ELSE [State(parser, c) EXCEPT !.left = IF c = "ESC" THEN @ - 1 ELSE @]

TekenParser_Next == teken_input_char

(* The arguments of the last sequence, read from the bytes: the parts        *)
(* between the semicolons, an empty one is 0, and no part at all when there  *)
(* was no byte.                                                              *)
PartValue(s) == FoldLeft(LAMBDA v, d : ((v * 10) + Value(d)) % TekenParser_Width, 0, s)

Written(s) ==
  LET ends == {i \in 1..Len(s) : s[i] = ";"} \cup {Len(s) + 1}
      begin(e) == IF \E b \in ends : b < e THEN CHOOSE b \in ends : b < e /\ \A x \in ends : x < e => x <= b ELSE 0
  IN IF s = <<>> THEN <<>>
     ELSE [k \in 1..Cardinality(ends) |->
             LET e == CHOOSE e \in ends : Cardinality({b \in ends : b < e}) = k - 1
             IN PartValue(SubSeq(s, begin(e) + 1, e - 1))]

(* Every subroutine is called with the numbers of its own escape sequence:   *)
(* whatever stood in t_nums from earlier sequences, absent and empty         *)
(* arguments take the default of the sequence (0 or 1), and the argument     *)
(* array is never indexed past its end (the assertion of                     *)
(* teken_state_numbers).                                                     *)
ArgumentsRead ==
  /\ parser.curnum < T_NUMSIZE
  /\ parser.nextstate \in Numbered =>
            LET q == teken_state_numbers(parser, "!").q
                w == Written(parser.seq)
                get(i, d) == IF i > Len(w) THEN d ELSE IF d = 1 /\ w[i] = 0 THEN 1 ELSE w[i]
            IN /\ Arguments(q, "v") = w
               /\ Arguments(q, "nn") = <<get(1, 1), get(2, 1)>>
               /\ Arguments(q, "rr") = <<get(1, 0), get(2, 0)>>

-------------------------------------------------------------------------------
(* The screen subroutines of the terminal emulator (lib/libteken,            *)
(* teken_subr.h) in the build the repository makes (TEKEN_XTERM, one byte    *)
(* characters).  A subroutine moves the cursor, the scrolling region, the    *)
(* modes and the tab stops, and calls the drawing functions of the terminal  *)
(* server; drawn is the set of rectangles <<top, left, bottom, right>> (the  *)
(* last two exclusive) that its calls touch.                                 *)

CONSTANTS Rows, Cols,      \* t_winsize
          T_NUMCOL,        \* columns with a tab stop bit (160)
          Tab,             \* distance of the default tab stops (8)
          Counts,          \* the arguments given to the subroutines
          Teken_MaxCalls   \* bound: subroutines called
VARIABLE t

tab_default == {c \in 1..T_NUMCOL - 1 : c % Tab = 0}

(* Cursor and saved cursor, scrolling and origin region, the TS_ flags and   *)
(* the tab stops of teken_t, after teken_init and teken_set_winsize.         *)
(* moved is set when an absolute row was addressed while the origin region   *)
(* does not begin at row 0.                                                  *)
Teken_Init ==
  t = [row |-> 0, col |-> 0, srow |-> 0, scol |-> 0, sb |-> 0, se |-> Rows, ob |-> 0, oe |-> Rows,
       wrapped |-> FALSE, autowrap |-> TRUE, insert |-> FALSE, origin |-> FALSE, tabs |-> tab_default,
       drawn |-> {}, moved |-> FALSE, calls |-> 0]

\* teken_funcs_cursor and teken_funcs_putchar, teken_funcs_fill, teken_funcs_copy
Teken_cursor(s) == [s EXCEPT !.drawn = @ \cup {<<s.row, s.col, s.row + 1, s.col + 1>>}]
Teken_putchar(s, row, col) == [s EXCEPT !.drawn = @ \cup {<<row, col, row + 1, col + 1>>}]
Teken_fill(s, top, left, bottom, right) == [s EXCEPT !.drawn = @ \cup {<<top, left, bottom, right>>}]
Teken_copy(s, top, left, bottom, right, row, col) ==
  [s EXCEPT !.drawn = @ \cup {<<top, left, bottom, right>>, <<row, col, row + bottom - top, col + right - left>>}]

At(s, row, col) == Teken_cursor([s EXCEPT !.row = row, !.col = col, !.wrapped = FALSE])

tab_isset(s, col) == IF col >= T_NUMCOL THEN col % Tab = 0 ELSE col \in s.tabs

do_scroll(s, amount) ==
  LET n == IF amount > 0 THEN amount ELSE -amount
      fits == s.sb + n < s.se
  IN IF amount > 0
     THEN IF fits THEN Teken_fill(Teken_copy(s, s.sb + n, 0, s.se, Cols, s.sb, 0), s.se - n, 0, s.se, Cols)
          ELSE Teken_fill(s, s.sb, 0, s.se, Cols)
     ELSE IF fits THEN Teken_fill(Teken_copy(s, s.sb, 0, s.se - n, Cols, s.sb + n, 0), s.sb, 0, s.sb + n, Cols)
          ELSE Teken_fill(s, s.sb, 0, s.se, Cols)

(* Control characters. *)
backspace(s) == IF s.col = 0 THEN s ELSE At(s, s.row, s.col - 1)

carriage_return(s) == At(s, s.row, 0)

newline(s) ==
  LET n == [s EXCEPT !.row = @ + 1]
  IN IF n.row >= s.se THEN At(do_scroll(n, 1), s.se - 1, s.col) ELSE At(n, n.row, s.col)

newpage(s) == newline(s)

next_line(s) == newline([s EXCEPT !.col = 0])

(* The columns the tabulation loops pass: up to the n-th tab stop, or the    *)
(* end of the line.                                                          *)
Stops(s, cols) == {c \in cols : tab_isset(s, c)}

Nth(s, cols, n, last, Before(_, _)) ==
  LET hits == {c \in Stops(s, cols) : Cardinality({d \in Stops(s, cols) : Before(d, c)}) = n - 1}
  IN IF hits = {} THEN last ELSE CHOOSE c \in hits : TRUE

cursor_forward_tabulation(s, n) ==
  Teken_cursor([s EXCEPT !.col = Nth(s, (@ + 1)..(Cols - 1), n, Cols - 1, <)])

cursor_backward_tabulation(s, n) ==
  Teken_cursor([s EXCEPT !.col = Nth(s, 0..(@ - 1), n, 0, >)])

horizontal_tab(s) ==
  LET n == cursor_forward_tabulation(s, 1)
  IN IF n.col > s.col THEN Teken_fill(n, s.row, s.col, s.row + 1, n.col) ELSE n

horizontal_tab_set(s) == IF s.col >= T_NUMCOL THEN s ELSE [s EXCEPT !.tabs = @ \cup {s.col}]

tab_clear(s, cmd) ==
  CASE cmd = 0 -> [s EXCEPT !.tabs = @ \ {s.col}]
    [] cmd = 3 -> [s EXCEPT !.tabs = {}]
    [] OTHER -> s

(* Cursor movement: relative to the scrolling region, absolute from the      *)
(* origin.                                                                   *)
cursor_down(s, n) == At(s, IF s.row + n >= s.se THEN s.se - 1 ELSE s.row + n, s.col)
cursor_up(s, n) == At(s, IF s.sb + n >= s.row THEN s.sb ELSE s.row - n, s.col)
cursor_next_line(s, n) == cursor_down([s EXCEPT !.col = 0], n)
cursor_previous_line(s, n) == cursor_up([s EXCEPT !.col = 0], n)
cursor_forward(s, n) == At(s, s.row, IF s.col + n >= Cols THEN Cols - 1 ELSE s.col + n)
cursor_backward(s, n) == At(s, s.row, IF n > s.col THEN 0 ELSE s.col - n)

Column(col) == IF col - 1 >= Cols THEN Cols - 1 ELSE col - 1
AbsoluteRow(s, row) == IF row >= s.oe THEN s.oe - 1 ELSE s.ob + row - 1
Moved(s) == [s EXCEPT !.moved = @ \/ s.ob > 0]

cursor_position(s, row, col) == Moved(At(s, AbsoluteRow(s, row), Column(col)))
vertical_position_absolute(s, row) == Moved(At(s, AbsoluteRow(s, row), s.col))
horizontal_position_absolute(s, col) == At(s, s.row, Column(col))

index(s) == IF s.row < s.se - 1 THEN At(s, s.row + 1, s.col) ELSE do_scroll(s, 1)
reverse_index(s) == IF s.row > s.sb THEN At(s, s.row - 1, s.col) ELSE do_scroll(s, -1)
pan_down(s, n) == do_scroll(s, n)
pan_up(s, n) == do_scroll(s, -n)

save_cursor(s) == [s EXCEPT !.srow = s.row, !.scol = s.col]
restore_cursor(s) == At(s, s.srow, s.scol)

(* Characters and lines. *)
delete_character(s, n) ==
  IF s.col + n >= Cols THEN Teken_fill(s, s.row, s.col, s.row + 1, Cols)
  ELSE Teken_fill(Teken_copy(s, s.row, s.col + n, s.row + 1, Cols, s.row, s.col), s.row, Cols - n, s.row + 1, Cols)

insert_character(s, n) ==
  IF s.col + n >= Cols THEN Teken_fill(s, s.row, s.col, s.row + 1, Cols)
  ELSE Teken_fill(Teken_copy(s, s.row, s.col, s.row + 1, Cols - n, s.row, s.col + n), s.row, s.col, s.row + 1, s.col + n)

delete_line(s, n) ==
  IF s.row + n >= s.se THEN Teken_fill(s, s.row, 0, s.se, Cols)
  ELSE Teken_fill(Teken_copy(s, s.row + n, 0, s.se, Cols, s.row, 0), s.se - n, 0, s.se, Cols)

insert_line(s, n) ==
  IF s.row + n >= s.se THEN Teken_fill(s, s.row, 0, s.se, Cols)
  ELSE Teken_fill(Teken_copy(s, s.row, 0, s.se - n, Cols, s.row + n, 0), s.row, 0, s.row + n, Cols)

erase_character(s, n) ==
  Teken_fill(s, s.row, s.col, s.row + 1, IF s.col + n >= Cols THEN Cols ELSE s.col + n)

erase_line(s, mode) ==
  CASE mode = 1 -> Teken_fill(s, s.row, 0, s.row + 1, s.col + 1)
    [] mode = 2 -> Teken_fill(s, s.row, 0, s.row + 1, Cols)
    [] OTHER -> Teken_fill(s, s.row, s.col, s.row + 1, Cols)

erase_display(s, mode) ==
  CASE mode = 1 -> IF s.row = 0 THEN erase_line(s, 1) ELSE Teken_fill(erase_line(s, 1), 0, 0, s.row, Cols)
    [] mode = 2 -> Teken_fill(s, 0, 0, Rows, Cols)
    [] OTHER -> IF s.row = Rows - 1 THEN erase_line(s, 0)
                ELSE Teken_fill(erase_line(s, 0), s.row + 1, 0, Rows, Cols)

do_putchar(s, row, col) ==
  Teken_putchar(IF s.insert /\ col < Cols - 1 THEN Teken_copy(s, row, col, row + 1, Cols - 1, row, col + 1) ELSE s, row, col)

(* A form without the corner case of the line below the scrolling region.    *)
regular_character_no_corner(s) ==
  IF s.col = Cols - 1 /\ s.wrapped /\ s.autowrap
  THEN LET bottom == s.row = s.se - 1
           row == IF bottom THEN s.se - 1 ELSE s.row + 1
       IN At(do_putchar(IF bottom THEN do_scroll(s, 1) ELSE s, row, 0), row, 1)
  ELSE LET n == do_putchar(s, s.row, s.col)
       IN IF s.col + 1 >= Cols THEN Teken_cursor([n EXCEPT !.wrapped = TRUE, !.col = Cols - 1]) ELSE At(n, s.row, s.col + 1)

(* A printable character: at the end of a full line it wraps, scrolling the  *)
(* region when the cursor is on its last line.                               *)
regular_character(s) ==
  IF s.col = Cols - 1 /\ s.wrapped /\ s.autowrap
  THEN LET bottom == s.row = s.se - 1
           row == IF bottom THEN s.se - 1 ELSE s.row + 1
       IN IF row = Rows THEN do_putchar(s, s.row, s.col)
          ELSE At(do_putchar(IF bottom THEN do_scroll(s, 1) ELSE s, row, 0), row, 1)
  ELSE LET n == do_putchar(s, s.row, s.col)
       IN IF s.col + 1 >= Cols THEN Teken_cursor([n EXCEPT !.wrapped = TRUE, !.col = Cols - 1]) ELSE At(n, s.row, s.col + 1)

(* Modes. *)
do_reset(s) ==
  save_cursor([s EXCEPT !.row = 0, !.col = 0, !.wrapped = FALSE, !.autowrap = TRUE, !.insert = FALSE,
                        !.origin = FALSE, !.tabs = tab_default])

reset_to_initial_state(s) == Teken_cursor(erase_display(do_reset(s), 2))

set_dec_mode(s, cmd) ==
  CASE cmd = 3 -> reset_to_initial_state(s)
    [] cmd = 6 -> At([s EXCEPT !.origin = TRUE, !.ob = s.sb, !.oe = s.se], s.sb, 0)
    [] cmd = 7 -> [s EXCEPT !.autowrap = TRUE]
    [] OTHER -> s

reset_dec_mode(s, cmd) ==
  CASE cmd = 3 -> reset_to_initial_state(s)
    [] cmd = 6 -> At([s EXCEPT !.origin = FALSE, !.ob = 0, !.oe = Rows], 0, 0)
    [] cmd = 7 -> [s EXCEPT !.autowrap = FALSE]
    [] OTHER -> s

set_mode(s, cmd) == IF cmd = 4 THEN [s EXCEPT !.insert = TRUE] ELSE s
reset_mode(s, cmd) == IF cmd = 4 THEN [s EXCEPT !.insert = FALSE] ELSE s

set_top_and_bottom_margins(s, top, bottom) ==
  LET first == IF top > 0 THEN top - 1 ELSE 0
      last == IF bottom = 0 \/ bottom > Rows THEN Rows ELSE bottom
      n == IF first >= last - 1 THEN [s EXCEPT !.sb = 0, !.se = Rows] ELSE [s EXCEPT !.sb = first, !.se = last]
  IN IF s.origin THEN At([n EXCEPT !.ob = n.sb, !.oe = n.se], n.sb, 0) ELSE n

alignment_test(s) == Teken_fill(At([s EXCEPT !.sb = 0, !.se = Rows], 0, 0), 0, 0, Rows, Cols)

(* One subroutine of the state machine or of a control character.            *)
Run(s) == t.calls < Teken_MaxCalls /\ t' = [s EXCEPT !.calls = @ + 1]
Now == [t EXCEPT !.drawn = {}]

Move == \E n \in Counts :
  \/ Run(cursor_down(Now, n)) \/ Run(cursor_up(Now, n)) \/ Run(cursor_next_line(Now, n))
  \/ Run(cursor_previous_line(Now, n)) \/ Run(cursor_forward(Now, n)) \/ Run(cursor_backward(Now, n))
  \/ Run(vertical_position_absolute(Now, n)) \/ Run(horizontal_position_absolute(Now, n))
  \/ Run(cursor_forward_tabulation(Now, n)) \/ Run(cursor_backward_tabulation(Now, n))
  \/ \E m \in Counts : Run(cursor_position(Now, n, m))

Line ==
  \/ Run(backspace(Now)) \/ Run(carriage_return(Now)) \/ Run(newline(Now)) \/ Run(newpage(Now)) \/ Run(next_line(Now))
  \/ Run(horizontal_tab(Now)) \/ Run(horizontal_tab_set(Now)) \/ Run(index(Now)) \/ Run(reverse_index(Now))
  \/ Run(save_cursor(Now)) \/ Run(restore_cursor(Now)) \/ Run(regular_character(Now))
  \/ Run(alignment_test(Now)) \/ Run(reset_to_initial_state(Now))

Edit == \E n \in Counts :
  \/ Run(pan_down(Now, n)) \/ Run(pan_up(Now, n)) \/ Run(delete_character(Now, n)) \/ Run(insert_character(Now, n))
  \/ Run(delete_line(Now, n)) \/ Run(insert_line(Now, n)) \/ Run(erase_character(Now, n))

Mode ==
  \/ \E n \in 0..2 : Run(erase_line(Now, n)) \/ Run(erase_display(Now, n))
  \/ \E n \in {0, 3} : Run(tab_clear(Now, n))
  \/ \E n \in {3, 6, 7} : Run(set_dec_mode(Now, n)) \/ Run(reset_dec_mode(Now, n))
  \/ Run(set_mode(Now, 4)) \/ Run(reset_mode(Now, 4))
  \/ \E top, bottom \in Counts \cup {0} : Run(set_top_and_bottom_margins(Now, top, bottom))

Teken_Next == Move \/ Line \/ Edit \/ Mode

InColumns == t.col < Cols /\ t.scol < Cols /\ \A r \in t.drawn : r[2] >= 0 /\ r[4] <= Cols
InRows == t.row < Rows /\ t.srow < Rows /\ \A r \in t.drawn : r[1] >= 0 /\ r[3] <= Rows

(* The assertions teken_input_char makes after every byte, and those of the  *)
(* drawing functions: cursor, saved cursor and every rectangle drawn are in  *)
(* the window, and the scrolling region is a non-empty part of it, whatever  *)
(* mixture of regions, modes, wrapping and cursor movement came before.  For *)
(* the rows this excludes absolute addressing under a moved origin, where it *)
(* fails.                                                                    *)
InWindow ==
  /\ InColumns
  /\ t.moved \/ InRows
  /\ t.sb < t.se /\ t.se <= Rows

(* The cursor is in the origin region (the same assertions).                 *)
InOrigin == t.ob <= t.row /\ t.row < t.oe

-------------------------------------------------------------------------------
(* The terminal server (server/terminal) between the emulator and the VGA    *)
(* text screen (server/video).  A write reads the screen into the buffer,    *)
(* lets the emulator draw in the buffer through the callbacks, and writes    *)
(* the buffer back.  The cursor is a cell whose attribute was replaced; its  *)
(* own attribute is kept in cursorValue.                                     *)

CONSTANTS Terminal_Width, Height,   \* of the screen, in cells
          Chars,           \* what is drawn
          Terminal_MaxCalls         \* bound: callbacks
VARIABLE term

Size == Terminal_Width * Height
Blank == [ch |-> " ", at |-> "grey"]
Unknown == [ch |-> "?", at |-> "?"]

(* VGA::initialize clears the screen and Terminal::initialize the cursor     *)
(* position; cursorValue is not initialized.                                 *)
Terminal_Init ==
  \E v \in {Blank, Unknown} :
    term = [vga |-> [i \in 0..(Size - 1) |-> Blank], buffer |-> [i \in 0..(Size - 1) |-> Unknown],
            pos |-> <<0, 0>>, value |-> v, writing |-> FALSE, before |-> <<>>, calls |-> 0]

Cell(p) == p[2] + (p[1] * Terminal_Width)

\* VGA::read and VGA::write refuse what is past the end of the screen
VGA_transfer(offset, size, old, new) == IF offset + size > Size THEN old ELSE new

hideCursor(s) == [s EXCEPT !.buffer[Cell(s.pos)].at = s.value.at]
setCursor(s, p) == [s EXCEPT !.value = s.buffer[Cell(p)], !.pos = p]
showCursor(s) ==
  LET n == setCursor(s, s.pos) IN [n EXCEPT !.buffer[Cell(s.pos)].at = "cursor"]

(* writeTerminal *)
writeTerminal_begin ==
  /\ ~term.writing
  /\ term' = [term EXCEPT !.buffer = VGA_transfer(0, Size, @, term.vga), !.writing = TRUE, !.before = <<>>]

writeTerminal_end ==
  /\ term.writing
  /\ term' = [term EXCEPT !.vga = VGA_transfer(0, Size, @, term.buffer), !.writing = FALSE, !.before = <<>>]

Positions == (0..(Height - 1)) \X (0..(Terminal_Width - 1))

Draw(s) ==
  /\ term.writing /\ term.calls < Terminal_MaxCalls
  /\ term' = [s EXCEPT !.calls = @ + 1, !.before = <<>>]


Terminal_putchar(p, c) ==
  LET h == hideCursor(term)
  IN Draw(showCursor([h EXCEPT !.buffer[Cell(p)] = [ch |-> c, at |-> "grey"]]))

Terminal_cursor(p) == Draw(showCursor(setCursor(hideCursor(term), p)))

Terminal_fill(p, q, c) ==
  LET h == hideCursor(term)
  IN Draw(showCursor([h EXCEPT !.buffer =
       [i \in DOMAIN @ |-> IF \E r \in p[1]..(q[1] - 1), k \in p[2]..(q[2] - 1) : Cell(<<r, k>>) = i
                           THEN [ch |-> c, at |-> "grey"] ELSE @[i]]]))

(* memcpy of n bytes, two to a cell, forward, from cell f to cell g; what    *)
(* lies outside the buffer is unknown.                                       *)
memcpy(buf, g, f, n) ==
  FoldLeft(LAMBDA b, k :
             LET from == IF f + k \in DOMAIN b THEN b[f + k] ELSE Unknown
             IN IF g + k \notin DOMAIN b THEN b
                ELSE IF (2 * k) + 1 < n THEN [b EXCEPT ![g + k] = from] ELSE [b EXCEPT ![g + k].ch = from.ch],
           buf, [k \in 1..((n + 1) \div 2) |-> k - 1])

(* copy: the number of bytes is numCols + numRows * width * sizeof(u16).     *)
Terminal_copy(p, q, d) ==
  LET h == hideCursor(term)
      n == (q[2] - p[2]) + ((q[1] - p[1]) * Terminal_Width * 2)
      s == showCursor([h EXCEPT !.buffer = memcpy(@, Cell(d), Cell(p), n)])
  IN /\ term.writing /\ term.calls < Terminal_MaxCalls
     /\ term' = [s EXCEPT !.calls = @ + 1, !.before = <<h.buffer, p, q, d>>]

(* The callbacks with the arguments the emulator gives them: positions and   *)
(* rectangles in the window, and whole lines or parts of one line to copy.   *)
Callback ==
  \/ \E p \in Positions, c \in Chars : Terminal_putchar(p, c)
  \/ \E p \in Positions : Terminal_cursor(p)
  \/ \E p \in Positions, q \in (1..Height) \X (1..Terminal_Width) : p[1] < q[1] /\ p[2] < q[2] /\ Terminal_fill(p, q, " ")
  \/ \E p, d \in Positions, q \in (1..Height) \X (1..Terminal_Width) :
       /\ p[1] < q[1] /\ p[2] < q[2] /\ p # d
       /\ d[1] + (q[1] - p[1]) <= Height /\ d[2] + (q[2] - p[2]) <= Terminal_Width
       /\ (p[2] = 0 /\ q[2] = Terminal_Width /\ d[2] = 0) \/ (q[1] = p[1] + 1 /\ d[1] = p[1])
       /\ Terminal_copy(p, q, d)

Terminal_Next == writeTerminal_begin \/ writeTerminal_end \/ Callback

(* The screen shows one cursor, at cursorPos, however drawing, filling,      *)
(* copying and moving the cursor were mixed: no cell keeps the attribute of  *)
(* a cursor that has moved on or was drawn over.                             *)
OneCursor ==
  LET shown == {i \in DOMAIN term.vga : term.vga[i].at = "cursor"}
  IN ~term.writing /\ shown # {} => shown = {Cell(term.pos)}

(* copy moves the rectangle and nothing else: the cells of the target are    *)
(* those of the source before, all others keep their character.              *)
CopyMoves ==
  term.before # <<>> =>
    LET old == term.before[1]  p == term.before[2]  q == term.before[3]  d == term.before[4] IN
    \A r \in 0..(Height - 1), k \in 0..(Terminal_Width - 1) :
      LET inside == r - d[1] \in 0..(q[1] - p[1] - 1) /\ k - d[2] \in 0..(q[2] - p[2] - 1)
          from == IF inside THEN <<p[1] + r - d[1], p[2] + k - d[2]>> ELSE <<r, k>>
      IN term.buffer[Cell(<<r, k>>)].ch = old[Cell(from)].ch
===============================================================================
