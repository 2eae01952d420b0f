------------------------------ MODULE Console -------------------------------
(***************************************************************************)
(* The line discipline and the screen of a displayed terminal together:    *)
(* addch, delch and the editing keys of term.c as they change both the     *)
(* line buffer (Term) and what the user sees of it (Screen).               *)
(***************************************************************************)
EXTENDS Term

CONSTANTS
    NUM_COLS, NUM_ROWS, DEF_ATTR, Blank, CR, BS,
    Caret, LetterC  \* the characters of "^C"

INSTANCE Screen

\* A full line fits on the screen wherever in a row it starts (127 characters,
\* 25 rows of 80).  No key is a character that moves the cursor: kb.c codes
\* Enter and Backspace, like the cursor keys, from 0x80 on.
ASSUME ConsoleAssumption ==
    /\ NUM_COLS \in Nat \ {0} /\ NUM_ROWS \in Nat \ {0}
    /\ TERM_BUF_SIZE <= NUM_COLS * (NUM_ROWS - 1)
    /\ Caret \in Other /\ LetterC \in Alnum
    /\ CR \notin Chars /\ BS \notin Chars
    /\ Blank \notin {NL, CR, BS} /\ NL # CR /\ NL # BS /\ CR # BS
    /\ DEF_ATTR \in 0 .. 255

VARIABLES
    scr,            \* the screen
    term_noecho,
    echoed          \* history: the whole line was typed with echo on and no
                    \* ^C was printed into it

consoleVars == <<vars, scr, term_noecho, echoed>>

ConsoleInit ==
    /\ Init
    /\ scr = [mem |-> [i \in VidCells |-> <<Blank, DEF_ATTR>>], x |-> 0, y |-> 0,
              attr |-> DEF_ATTR, displayed |-> TRUE, hw |-> <<0, 0>>]
    /\ term_noecho = FALSE
    /\ echoed = TRUE

\* The line from the new character on, as addch prints it.
Reprint == puts(Text(term_buf', term_curpos' - 1, term_buf_count'), scr)

\* Faulty variants: echo unless in canonical mode, as delch does; the cursor is
\* left behind the line.
EchoAdd_canon ==
    IF term_canon \/ term_buf_count' = term_buf_count THEN scr
    ELSE Times(term_buf_count' - term_curpos', back, Reprint)
EchoAdd_stay == IF term_noecho \/ term_buf_count' = term_buf_count THEN scr ELSE Reprint

\* The end of addch: the character and the text behind it, and back.
EchoAdd ==
    IF term_noecho \/ term_buf_count' = term_buf_count THEN scr
    ELSE Times(term_buf_count' - term_curpos', back, Reprint)

\* The end of delch: back, the text behind the cursor and a blank, and the
\* cursor is put where it was; once for each of the k characters.
Erase(rest, s) == LET b == back(s) IN setpos(b.x, b.y, puts(rest, b))

EraseTimes(k, rest, s) == LET erase(t) == Erase(rest, t) IN Times(k, erase, s)

EchoDel(k) ==
    EraseTimes(k, Append(Text(term_buf, term_curpos, term_buf_count), Blank), scr)

EchoMove ==
    IF term_curpos' >= term_curpos THEN Times(term_curpos' - term_curpos, forward, scr)
    ELSE Times(term_curpos - term_curpos', back, scr)

KeepHistory(ok) ==
    echoed' = \/ term_buf_count' = 0
              \/ echoed /\ ok /\ ~term_noecho /\ ~term_canon

AddKey ==
    /\ Typed \/ CanonKey
    /\ scr' = EchoAdd
    /\ KeepHistory(TRUE) /\ UNCHANGED term_noecho

MoveKey ==
    /\ CharBack \/ CharForward \/ LineStart \/ LineEnd \/ WordBack \/ WordForward
    /\ scr' = EchoMove
    /\ KeepHistory(TRUE) /\ UNCHANGED term_noecho

DelKey ==
    /\ KillChar \/ KillWord \/ KillLine
    /\ scr' = EchoDel(term_curpos - term_curpos')
    /\ KeepHistory(TRUE) /\ UNCHANGED term_noecho

ReturnKey == Return /\ UNCHANGED <<scr, term_noecho, echoed>>

\* C-l: back to the start of the line, scroll it to the top, and forward.
ClearKey ==
    /\ ~term_canon
    /\ LET start == Times(term_curpos, back, scr)
       IN  scr' = Times(term_curpos, forward, Times(start.y, scroll, start))
    /\ UNCHANGED <<vars, term_noecho, echoed>>

\* C-c: the line buffer keeps its text.  (The signal is in Sched.)
InterruptKey ==
    /\ ~term_canon
    /\ scr' = puts(<<Caret, LetterC>>, scr)
    /\ UNCHANGED <<vars, term_noecho>> /\ KeepHistory(FALSE)

(***************************************************************************)
(* The process: text, mode switches (esc_funcs 's' 1 and 2), reads.        *)
(***************************************************************************)
Output ==
    /\ ~reading
    /\ \E c \in Chars \cup {NL, CR, BS} : scr' = putc(c, scr)
    /\ UNCHANGED <<vars, term_noecho>> /\ KeepHistory(FALSE)

set_noecho ==
    /\ ~reading
    /\ term_noecho' \in BOOLEAN
    /\ UNCHANGED <<vars, scr, echoed>>

set_canon_mode == set_canon /\ UNCHANGED <<scr, term_noecho, echoed>>

BeginRead == term_read /\ UNCHANGED <<scr, term_noecho, echoed>>

EndReadCanon ==
    /\ term_read_canon
    /\ KeepHistory(TRUE) /\ UNCHANGED <<scr, term_noecho>>

EndReadLine ==
    /\ term_read_line
    /\ scr' = IF term_noecho THEN scr ELSE putc(NL, scr)
    /\ KeepHistory(TRUE) /\ UNCHANGED term_noecho

ConsoleNext ==
    \/ AddKey \/ MoveKey \/ DelKey \/ ReturnKey \/ ClearKey \/ InterruptKey
    \/ Output \/ set_noecho \/ set_canon_mode
    \/ BeginRead \/ EndReadCanon \/ EndReadLine

ConsoleSpec == ConsoleInit /\ [][ConsoleNext]_consoleVars

\* The reader is scheduled again and again (Sched, EveryTerminalRuns).
FairConsoleSpec ==
    ConsoleSpec /\ WF_consoleVars(EndReadCanon) /\ WF_consoleVars(EndReadLine)

----------------------------------------------------------------------------
\* What the user sees is what the read will return: an echoed line stands on
\* the screen around the cursor, over the ends of rows and through scrolling,
\* whatever keys edited it (addch, delch, back, forward, scroll, C-l).
LineOnScreen ==
    echoed => \A i \in 0 .. term_buf_count - 1 :
        LET cell == scr.x + NUM_COLS * scr.y - term_curpos + i
        IN  cell \in VidCells /\ scr.mem[cell][1] = term_buf[i]

\* With echo off, a key typed at the end of the line shows nothing of what is
\* typed: cells only turn blank.  (Inside the line delch prints the text
\* behind the cursor, since it tests term_canon where addch tests
\* term_noecho; C-l moves what is there, C-c prints itself.)
NoEchoHides ==
    [][term_noecho /\ term_curpos = term_buf_count /\ (AddKey \/ MoveKey \/ DelKey)
       => \A i \in VidCells : scr'.mem[i] # scr.mem[i] => scr'.mem[i][1] = Blank]_consoleVars
=============================================================================
