-------------------------------- MODULE Term --------------------------------
(***************************************************************************)
(* The line discipline of a terminal (term.c): the line buffer that the    *)
(* keyboard interrupt edits and term_read hands to the foreground process. *)
(* Keys arrive whenever interrupts are enabled, so between any two system  *)
(* calls of the process and all through the wait loop of term_read.  The   *)
(* conditions that end the loop are not undone by a key, so the last test  *)
(* and what follows the cli() are one step.                                *)
(*                                                                         *)
(* A terminal has one reader at a time (its foreground process), and the   *)
(* key handler touches only the displayed terminal, so one terminal is     *)
(* modelled; its keys stop while another one is displayed.  Echo and       *)
(* cursor position on the screen are left out.                             *)
(***************************************************************************)
EXTENDS Naturals, FiniteSetsExt

CONSTANTS
    TERM_BUF_SIZE,  \* limit of typed characters; the buffer has one cell more
    Alnum,          \* characters for which isalnum holds
    Other,          \* other characters
    NL

ASSUME TermAssumption ==
    /\ TERM_BUF_SIZE \in Nat \ {0}
    /\ NL \notin Alnum \cup Other

Chars == Alnum \cup Other
Cells == 0 .. TERM_BUF_SIZE

VARIABLES
    term_buf, term_buf_count, term_curpos, term_read_done, term_canon, reading,
    buf             \* what a read has stored in the caller's buffer

lineVars == <<term_buf, term_buf_count, term_curpos>>
vars == <<term_buf, term_buf_count, term_curpos, term_read_done, term_canon,
          reading, buf>>

\* Cells from .. to - 1 of a buffer as a sequence.
Text(f, from, to) == [i \in 1 .. to - from |-> f[from + i - 1]]

\* Nothing has been stored in the caller's buffer.
NoBytes == [i \in {} |-> NL]

Init ==
    /\ term_buf = [i \in Cells |-> NL]
    /\ term_buf_count = 0
    /\ term_curpos = 0
    /\ term_read_done = FALSE
    /\ term_canon = FALSE
    /\ reading = FALSE
    /\ buf = NoBytes

(***************************************************************************)
(* addch at position pos and delch, k times, before the cursor.  (Cells    *)
(* from term_buf_count on are never read again.)                           *)
(***************************************************************************)
\* Faulty variants: a limit one too high; a copy loop that runs upwards.
addch_limit(ch, pos) ==
    IF term_buf_count <= TERM_BUF_SIZE /\ reading
    THEN /\ term_buf' = [i \in Cells |->
               CASE i = pos -> ch
                 [] i \in pos + 1 .. term_buf_count -> term_buf[i - 1]
                 [] OTHER -> term_buf[i]]
         /\ term_curpos' = pos + 1
         /\ term_buf_count' = term_buf_count + 1
    ELSE /\ term_curpos' = pos
         /\ UNCHANGED <<term_buf, term_buf_count>>
addch_upwards(ch, pos) ==
    IF term_buf_count < TERM_BUF_SIZE /\ reading
    THEN /\ term_buf' = [i \in Cells |->
               CASE i = pos -> ch
                 [] i \in pos + 1 .. term_buf_count -> term_buf[pos]
                 [] OTHER -> term_buf[i]]
         /\ term_curpos' = pos + 1
         /\ term_buf_count' = term_buf_count + 1
    ELSE /\ term_curpos' = pos
         /\ UNCHANGED <<term_buf, term_buf_count>>

addch(ch, pos) ==
    IF term_buf_count < TERM_BUF_SIZE /\ reading
    THEN /\ term_buf' = [i \in Cells |->
               CASE i = pos -> ch
                 [] i \in pos + 1 .. term_buf_count -> term_buf[i - 1]
                 [] OTHER -> term_buf[i]]
         /\ term_curpos' = pos + 1
         /\ term_buf_count' = term_buf_count + 1
    ELSE /\ term_curpos' = pos
         /\ UNCHANGED <<term_buf, term_buf_count>>

delch(k, pos) ==
    /\ term_buf' = [i \in Cells |->
          IF i \in pos - k .. term_buf_count - k - 1 THEN term_buf[i + k]
          ELSE term_buf[i]]
    /\ term_curpos' = pos - k
    /\ term_buf_count' = term_buf_count - k

\* Faulty variant: the loop over other characters does not stop at a word.
WordStart_noStop ==
    Min({p \in 0 .. term_curpos : \A i \in p .. term_curpos - 1 :
            term_buf[i] \in Alnum \/ term_buf[term_curpos - 1] \notin Alnum})

\* Where the word loops of C-W and M-b, and of M-f, stop.
WordStart ==
    Min({p \in 0 .. term_curpos : \A i \in p .. term_curpos - 1 :
            term_buf[i] \in Alnum <=> term_buf[term_curpos - 1] \in Alnum})

WordEnd ==
    Max({p \in term_curpos .. term_buf_count : \A i \in term_curpos .. p - 1 :
            term_buf[i] \in Alnum <=> term_buf[term_curpos] \in Alnum})

(***************************************************************************)
(* term_key_handler, line mode: typed characters, cursor keys, kill keys.  *)
(***************************************************************************)
Typed ==
    /\ ~term_canon
    /\ \E ch \in Chars : addch(ch, term_curpos)
    /\ UNCHANGED <<term_read_done, term_canon, reading, buf>>

CursorTo(pos) ==
    /\ ~term_canon
    /\ term_curpos' = pos
    /\ UNCHANGED <<term_buf, term_buf_count, term_read_done, term_canon, reading, buf>>

CharBack == term_curpos > 0 /\ CursorTo(term_curpos - 1)
CharForward == term_curpos < term_buf_count /\ CursorTo(term_curpos + 1)
LineStart == CursorTo(0)
LineEnd == CursorTo(term_buf_count)
WordBack == CursorTo(WordStart)
WordForward == CursorTo(WordEnd)

KillBack(k) ==
    /\ ~term_canon
    /\ delch(k, term_curpos)
    /\ UNCHANGED <<term_read_done, term_canon, reading, buf>>

KillChar == term_curpos > 0 /\ KillBack(1)
KillWord == KillBack(term_curpos - WordStart)
KillLine == KillBack(term_curpos)

Return ==
    /\ ~term_canon
    /\ term_read_done' = TRUE
    /\ UNCHANGED <<lineVars, term_canon, reading, buf>>

\* In "canonical" mode every key but Alt-F1..F3 is data.
CanonKey ==
    /\ term_canon
    /\ \E ch \in Chars : addch(ch, term_buf_count)
    /\ UNCHANGED <<term_read_done, term_canon, reading, buf>>

(***************************************************************************)
(* The process: escape sequences that set the mode, and term_read.         *)
(***************************************************************************)
set_canon ==
    /\ ~reading
    /\ term_canon' \in BOOLEAN
    /\ UNCHANGED <<lineVars, term_read_done, reading, buf>>

term_read ==
    /\ ~reading /\ reading' = TRUE
    /\ buf' = NoBytes
    /\ UNCHANGED <<lineVars, term_read_done, term_canon>>

term_read_canon ==
    /\ reading /\ term_canon
    /\ term_buf_count # 0
    /\ reading' = FALSE
    /\ buf' = [i \in {0} |-> term_buf[0]]
    /\ delch(1, 1)
    /\ UNCHANGED <<term_read_done, term_canon>>

\* Faulty variant: an empty line does not end the read.
term_read_line_nonempty ==
    /\ reading /\ ~term_canon
    /\ term_read_done /\ term_buf_count # 0
    /\ reading' = FALSE
    /\ term_buf' = [term_buf EXCEPT ![term_buf_count] = NL]
    /\ \E nbytes \in 0 .. term_buf_count + 1 :
          buf' = [i \in 0 .. nbytes - 1 |-> term_buf'[i]]
    /\ term_buf_count' = 0 /\ term_read_done' = FALSE /\ term_curpos' = 0
    /\ UNCHANGED term_canon

term_read_line ==
    /\ reading /\ ~term_canon
    /\ term_read_done
    /\ reading' = FALSE
    /\ term_buf' = [term_buf EXCEPT ![term_buf_count] = NL]
    /\ \E nbytes \in 0 .. term_buf_count + 1 :
          buf' = [i \in 0 .. nbytes - 1 |-> term_buf'[i]]
    /\ term_buf_count' = 0 /\ term_read_done' = FALSE /\ term_curpos' = 0
    /\ UNCHANGED term_canon

Key ==
    \/ Typed \/ CharBack \/ CharForward \/ LineStart \/ LineEnd \/ WordBack
    \/ WordForward \/ KillChar \/ KillWord \/ KillLine \/ Return \/ CanonKey

Next == Key \/ set_canon \/ term_read \/ term_read_canon \/ term_read_line

Spec == Init /\ [][Next]_vars

----------------------------------------------------------------------------
\* The cursor stays within the typed text and the text within its limit, so
\* the newline term_read appends always has a cell, whatever mix of editing
\* keys, mode changes and reads led there.
TypeOK ==
    /\ term_buf \in [Cells -> Chars \cup {NL}]
    /\ term_buf_count \in 0 .. TERM_BUF_SIZE
    /\ term_curpos \in 0 .. term_buf_count
    /\ term_read_done \in BOOLEAN
    /\ term_canon \in BOOLEAN
    /\ reading \in BOOLEAN

\* A read returns once Return was typed (also before the read began, also for
\* an empty line) or, in canonical mode, once a key was.
ReadEnds ==
    /\ (reading /\ ~term_canon /\ term_read_done) ~> ~reading
    /\ (reading /\ term_canon /\ term_buf_count # 0) ~> ~reading
=============================================================================
