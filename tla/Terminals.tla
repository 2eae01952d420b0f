----------------------------- MODULE Terminals ------------------------------
(***************************************************************************)
(* Output to the terminals (term.c): term_write with its escape sequences, *)
(* and switch_term, which moves the terminals between video memory and     *)
(* their background buffers.  A process writes to its own terminal whether *)
(* that is displayed or not, in pieces that may end inside a sequence.     *)
(* A write runs with interrupts off, so it is a step.                      *)
(***************************************************************************)
EXTENDS Screen, FiniteSets

CONSTANTS
    TERM_NUM,
    Chunks,         \* what a write may hold: sequences of bytes
    MaxWrites       \* bound on the number of writes

ASSUME TerminalsAssumption ==
    /\ TERM_NUM \in Nat \ {0} /\ MaxWrites \in Nat
    /\ \A chunk \in Chunks : chunk \in Seq(Range(chunk))

Terms == 0 .. TERM_NUM - 1

DigitValue == [d \in {"0", "1", "2", "3", "4", "5", "6", "7", "8", "9"} |->
    CASE d = "0" -> 0 [] d = "1" -> 1 [] d = "2" -> 2 [] d = "3" -> 3 [] d = "4" -> 4
      [] d = "5" -> 5 [] d = "6" -> 6 [] d = "7" -> 7 [] d = "8" -> 8 [] d = "9" -> 9]

isnum(c) == c \in DOMAIN DigitValue

\* The value of a sequence of decimal digits.
atoi(str) ==
    LET res[n \in 0 .. Len(str)] ==
            IF n = 0 THEN 0 ELSE res[n - 1] * 10 + DigitValue[str[n]]
    IN  res[Len(str)]

VARIABLES
    terms,          \* the terminals: cursor, attribute, modes, parser
    cur_term_ind,   \* the displayed terminal
    cur_term,       \* the global term_write and term_key_handler assign
    video_mem,      \* VGA memory
    video_buffer,   \* the background buffers
    hw, cursorShown,    \* VGA registers: cursor position, visibility
    sent, writes    \* history: the bytes written to each terminal, the writes

vars == <<terms, cur_term_ind, cur_term, video_mem, video_buffer, hw, cursorShown,
          sent, writes>>

BlankMem == [i \in VidCells |-> <<Blank, DEF_ATTR>>]

\* Where the boot loader left the cursor: init_term does not set it.
BootPos == <<-1, -1>>

FreshTerm(t) ==
    [x |-> 0, y |-> 0, x_store |-> 0, y_store |-> 0, attr |-> DEF_ATTR,
     noecho |-> FALSE, canon |-> FALSE, onVga |-> t = 0,
     state |-> "IDLE", buf |-> <<>>, args |-> <<>>]

Init ==
    /\ terms = [t \in Terms |-> FreshTerm(t)]
    /\ cur_term_ind = 0 /\ cur_term = 0
    /\ video_mem = BlankMem
    /\ video_buffer = [t \in Terms |-> BlankMem]
    /\ hw = BootPos /\ cursorShown = TRUE
    /\ sent = [t \in Terms |-> <<>>] /\ writes = 0

\* A terminal with the memory and the VGA registers.
Seen(w, memory, onMonitor, cursor, visible) ==
    [x |-> w.x, y |-> w.y, x_store |-> w.x_store, y_store |-> w.y_store, attr |-> w.attr,
     noecho |-> w.noecho, canon |-> w.canon, onVga |-> w.onVga,
     state |-> w.state, buf |-> w.buf, args |-> w.args,
     mem |-> memory, displayed |-> onMonitor, hw |-> cursor, shown |-> visible]

\* Terminal t as the operations see it: its own fields, the memory its
\* video_mem points to and the VGA registers.
View(t) ==
    Seen(terms[t], IF terms[t].onVga THEN video_mem ELSE video_buffer[t],
         t = cur_term_ind, hw, cursorShown)

(***************************************************************************)
(* esc_funcs: the final byte f of a sequence with arguments args.  The     *)
(* attribute is a byte, background in its high half.                       *)
(***************************************************************************)
esc_funcs(f, args, s) ==
    LET color == IF args = <<>> THEN DEF_ATTR ELSE args[1]
        back_color == IF args = <<>> THEN DEF_ATTR \div 16 ELSE args[1]
    IN  CASE f = "f" -> [s EXCEPT !.attr = (@ \div 16) * 16 + (color % 16)]
          [] f = "b" -> [s EXCEPT !.attr = (@ % 16) + (back_color % 16) * 16]
          [] f = "p" /\ Len(args) > 1 -> setpos(args[2] - 1, args[1] - 1, s)
          [] f = "e" /\ args = <<>> -> [s EXCEPT !.x_store = s.x, !.y_store = s.y]
          [] f = "r" /\ args = <<>> -> setpos(s.x_store, s.y_store, s)
          [] f = "c" /\ args = <<>> -> clear(s)
          [] f \in {"s", "S"} /\ args # <<>> ->
               CASE args[1] = 1 -> [s EXCEPT !.noecho = (f = "s")]
                 [] args[1] = 2 -> [s EXCEPT !.canon = (f = "s")]
                 [] args[1] = 3 -> [s EXCEPT !.shown = (f # "s")]
                 [] OTHER -> s
          [] OTHER -> s

\* The argument in buf joins args, if there is room; it is a byte.
EndArg(s) ==
    [s EXCEPT !.args = IF Len(@) < 3 THEN Append(@, atoi(s.buf) % 256) ELSE @, !.buf = <<>>]

Finish(f, s) ==
    [esc_funcs(f, s.args, s) EXCEPT !.state = "IDLE", !.buf = <<>>, !.args = <<>>]

\* Any other byte, according to the state of the parser: whether it is printed,
\* and what it leaves.  An escape without "[" waits for one.
InState(c, s) ==
    CASE s.state = "A_ESCAPE" /\ c = "[" -> <<FALSE, [s EXCEPT !.state = "A_BRACKET"]>>
      [] s.state = "A_BRACKET" ->
           IF isnum(c)
           THEN <<FALSE, [s EXCEPT !.state = "ARG_PARSE", !.args = <<>>, !.buf = <<c>>]>>
           ELSE <<FALSE, Finish(c, [s EXCEPT !.args = <<>>])>>
      [] s.state = "ARG_PARSE" ->
           IF isnum(c) THEN <<FALSE, [s EXCEPT !.buf = IF Len(@) < 3 THEN Append(@, c) ELSE @]>>
           ELSE <<FALSE, IF c = ";" THEN EndArg(s) ELSE Finish(c, EndArg(s))>>
      [] OTHER -> <<TRUE, s>>

\* Faulty variant: an escape does not interrupt a sequence.
esc_parse_noReset(c, s) ==
    IF c = "ESC" /\ s.state = "IDLE" THEN <<FALSE, [s EXCEPT !.state = "A_ESCAPE"]>>
    ELSE InState(c, s)

\* An escape starts a sequence anew.
esc_parse(c, s) ==
    IF c = "ESC" THEN <<FALSE, [s EXCEPT !.state = "A_ESCAPE"]>> ELSE InState(c, s)

WriteByte(s, c) ==
    LET parsed == esc_parse(c, s)
    IN  IF parsed[1] THEN putc(c, parsed[2]) ELSE parsed[2]

\* The loop over the bytes.
WriteBytes(s, bytes) ==
    LET after[n \in 0 .. Len(bytes)] ==
            IF n = 0 THEN s ELSE WriteByte(after[n - 1], bytes[n])
    IN  after[Len(bytes)]

term_write(t) ==
    /\ writes < MaxWrites /\ writes' = writes + 1
    /\ \E chunk \in Chunks :
          LET s == WriteBytes(View(t), chunk)
          IN  /\ terms' = [terms EXCEPT ![t] = [field \in DOMAIN @ |-> s[field]]]
              /\ video_mem' = IF s.onVga THEN s.mem ELSE video_mem
              /\ video_buffer' = IF s.onVga THEN video_buffer
                                 ELSE [video_buffer EXCEPT ![t] = s.mem]
              /\ hw' = s.hw /\ cursorShown' = s.shown
              /\ sent' = [sent EXCEPT ![t] = @ \o chunk]
    /\ cur_term' = t
    /\ UNCHANGED cur_term_ind

\* Terminal old leaves video memory and terminal ind takes it.
PutOn(old, ind) ==
    /\ ind # cur_term_ind
    /\ LET saved == [video_buffer EXCEPT ![old] = video_mem]
       IN  video_buffer' = saved /\ video_mem' = saved[ind]
    /\ terms' = [terms EXCEPT ![old].onVga = FALSE, ![ind].onVga = TRUE]
    /\ cur_term_ind' = ind /\ cur_term' = ind
    /\ hw' = <<terms[ind].x, terms[ind].y>>
    /\ UNCHANGED <<cursorShown, sent, writes>>

\* Faulty variant: the terminal that wrote last is saved.
switch_term_stale(ind) == PutOn(cur_term, ind)

\* Alt-F1 to F3: term_key_handler first makes the displayed terminal cur_term.
switch_term(ind) == PutOn(cur_term_ind, ind)

Next == \E t \in Terms : term_write(t) \/ switch_term(t)

Spec == Init /\ [][Next]_vars

----------------------------------------------------------------------------
(***************************************************************************)
(* What the bytes b mean, said without a parser.                           *)
(***************************************************************************)
\* The "[" of the sequence that byte i belongs to or follows: the first one
\* after the last escape; 0 if there is none.
Opening(b, i) ==
    LET esc == Max({0} \cup {j \in 1 .. i : b[j] = "ESC"})
        brackets == {k \in esc + 1 .. i : b[k] = "["}
    IN  IF esc = 0 \/ brackets = {} THEN 0 ELSE Min(brackets)

\* The final bytes of a sequence opened at k, seen up to byte i: neither a
\* digit nor, behind a digit, a semicolon.  The first one counts.
Finals(b, k, i) ==
    {e \in k + 1 .. i : ~isnum(b[e]) /\ (b[e] = ";" => e = k + 1)}

\* Its arguments: the runs between semicolons, the first three of them, of
\* each the first three digits, as a byte.
Arguments(b, k, e) ==
    LET seps == {k, e} \cup {j \in k + 1 .. e - 1 : b[j] = ";"}
        nth(n) == CHOOSE j \in seps : Cardinality({h \in seps : h < j}) = n
        run(n) == SubSeq(b, nth(n - 1) + 1, Min({nth(n) - 1, nth(n - 1) + 3}))
    IN  IF e = k + 1 THEN <<>>
        ELSE [n \in 1 .. Min({3, Cardinality(seps) - 1}) |-> atoi(run(n)) % 256]

Effect(b, i, s) ==
    LET k == Opening(b, i)
        finals == Finals(b, k, i)
    IN  CASE b[i] = "ESC" -> s
          [] b[i] # "ESC" /\ k = 0 -> putc(b[i], s)
          [] b[i] # "ESC" /\ k > 0 /\ finals = {} -> s
          [] b[i] # "ESC" /\ k > 0 /\ finals # {} ->
               IF Min(finals) = i THEN esc_funcs(b[i], Arguments(b, k, i), s)
               ELSE putc(b[i], s)

\* A terminal of its own, on a monitor of its own, after the bytes b.
Alone(b) ==
    LET after[n \in 0 .. Len(b)] ==
            IF n = 0
            THEN Seen(FreshTerm(0), BlankMem, TRUE, <<0, 0>>, TRUE)
            ELSE Effect(b, n, after[n - 1])
    IN  after[Len(b)]

\* A terminal shows exactly what was written to it: sequences cut into any
\* pieces are recognised, their arguments bounded and the rest printed, and
\* writes to other terminals and switches between them change nothing (the
\* parser of term_write, esc_funcs, video_mem and video_buffer of switch_term).
ShowsWhatWasWritten ==
    \A t \in Terms :
        LET want == Alone(sent[t])
            got == View(t)
        IN  \A field \in {"x", "y", "x_store", "y_store", "attr", "noecho", "canon", "mem"} :
               got[field] = want[field]

(***************************************************************************)
(* Plain text on an endless sheet: where the cursor is after n bytes.      *)
(***************************************************************************)
Sheet(b) ==
    LET pos[n \in 0 .. Len(b)] ==
            IF n = 0 THEN <<0, 0>>
            ELSE LET p == pos[n - 1]
                 IN  CASE b[n] = NL -> <<0, p[2] + 1>>
                       [] b[n] = CR -> <<0, p[2]>>
                       [] OTHER -> IF p[1] + 1 = NUM_COLS THEN <<0, p[2] + 1>>
                                   ELSE <<p[1] + 1, p[2]>>
    IN  pos

\* A terminal that got plain text shows the end of the sheet: a full row goes
\* on in the next one, nothing is lost or doubled when it scrolls, and cells
\* nothing was printed to are blank (putc, scroll).
PlainText ==
    \A t \in Terms :
        LET b == sent[t]
            sheet == Sheet(b)
            top == Max({0, sheet[Len(b)][2] - NUM_ROWS + 1})
            printed(x, y) ==
                {n \in 1 .. Len(b) : b[n] \notin {NL, CR} /\ sheet[n - 1] = <<x, y + top>>}
        IN  (\A n \in 1 .. Len(b) : b[n] \notin {"ESC", BS}) =>
            /\ <<terms[t].x, terms[t].y + top>> = sheet[Len(b)]
            /\ \A x \in 0 .. NUM_COLS - 1, y \in 0 .. NUM_ROWS - 1 :
                  View(t).mem[NUM_COLS * y + x][1] =
                      IF printed(x, y) = {} THEN Blank ELSE b[Max(printed(x, y))]

\* The cursor of the monitor is the cursor of the displayed terminal, which
\* alone is in video memory, and it is on the screen (setpos, switch_term);
\* before the first output it is where the boot loader left it.
CursorOfDisplayed ==
    /\ \/ hw = <<terms[cur_term_ind].x, terms[cur_term_ind].y>>
       \/ hw = BootPos /\ cur_term_ind = 0 /\ terms[0].x = 0 /\ terms[0].y = 0
    /\ \A t \in Terms : terms[t].onVga <=> t = cur_term_ind
    /\ \A t \in Terms : terms[t].x \in 0 .. NUM_COLS - 1 /\ terms[t].y \in 0 .. NUM_ROWS - 1

(***************************************************************************)
(* The inductive invariant.                                                *)
(***************************************************************************)
Cells == ({Blank} \cup UNION {Range(chunk) : chunk \in Chunks}) \X (0 .. 255)
Memory == [VidCells -> Cells]

TermSet ==
    [x : 0 .. NUM_COLS - 1, y : 0 .. NUM_ROWS - 1,
     x_store : 0 .. NUM_COLS - 1, y_store : 0 .. NUM_ROWS - 1, attr : 0 .. 255,
     noecho : BOOLEAN, canon : BOOLEAN, onVga : BOOLEAN,
     state : {"IDLE", "A_ESCAPE", "A_BRACKET", "ARG_PARSE"},
     buf : Seq(DOMAIN DigitValue), args : Seq(0 .. 255)]

TerminalsType ==
    /\ terms \in [Terms -> TermSet]
    /\ cur_term_ind \in Terms /\ cur_term \in Terms
    /\ video_mem \in Memory /\ video_buffer \in [Terms -> Memory]
    /\ hw \in Int \X Int /\ cursorShown \in BOOLEAN

\* What terminal t shows, and would show if it were displayed.
Shown(t) == <<[terms[t] EXCEPT !.onVga = FALSE], View(t).mem>>

\* Writing to a terminal and switching between them changes nothing of what
\* the others show, in video memory or in their background buffers.
OthersKept ==
    [][\A t, u \in Terms : (u # t /\ term_write(t)) \/ switch_term(t)
          => Shown(u)' = Shown(u)]_vars
=============================================================================
