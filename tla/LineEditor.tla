----------------------------- MODULE LineEditor -----------------------------
(***************************************************************************)
(* What the line discipline of a terminal promises to its user and to the  *)
(* process that reads: an edit line cut in two at the cursor.              *)
(***************************************************************************)
EXTENDS Naturals, Sequences, SequencesExt

CONSTANTS Chars, Alnum, NL, Size

VARIABLES
    left, right,    \* the text before and after the cursor
    entered,        \* Return has been typed
    raw,            \* characters go to the reader one by one, unedited
    busy,           \* a read is in progress
    got             \* what the last read returned

line == left \o right
edit == <<left, right>>

SameKind(s) == \A i, j \in DOMAIN s : s[i] \in Alnum <=> s[j] \in Alnum

\* The cut of s before its last word (or run of other characters), and after
\* its first one.
BeforeWord(s) ==
    Min({k \in 0 .. Len(s) : SameKind(SubSeq(s, k + 1, Len(s)))})
AfterWord(s) == Max({k \in 0 .. Len(s) : SameKind(SubSeq(s, 1, k))})

EditorInit ==
    /\ edit = <<<<>>, <<>>>>
    /\ ~entered /\ ~raw /\ ~busy
    /\ got = <<>>

\* A character goes where the cursor is, if somebody reads and there is room.
Insert(c) ==
    /\ ~raw /\ busy /\ Len(line) < Size
    /\ left' = Append(left, c)
    /\ UNCHANGED <<right, entered, raw, busy, got>>

\* The cursor moves, the text stays.
Move(k) ==
    /\ ~raw
    /\ left' = SubSeq(line, 1, k)
    /\ right' = SubSeq(line, k + 1, Len(line))
    /\ UNCHANGED <<entered, raw, busy, got>>

\* The text before the cursor is cut back to length k.
Kill(k) ==
    /\ ~raw
    /\ left' = SubSeq(left, 1, k)
    /\ UNCHANGED <<right, entered, raw, busy, got>>

EditKey ==
    \/ \E c \in Chars : Insert(c)
    \/ \E k \in {0, Len(left) - 1, Len(left) + 1, Len(line), BeforeWord(left),
                 Len(left) + AfterWord(right)} :
          k \in 0 .. Len(line) /\ Move(k)
    \/ \E k \in {0, Len(left) - 1, BeforeWord(left)} :
          k \in 0 .. Len(left) /\ Kill(k)

Enter ==
    /\ ~raw
    /\ entered' = TRUE
    /\ UNCHANGED <<left, right, raw, busy, got>>

\* A key in raw mode: it joins the end, if somebody reads and there is room.
RawKey ==
    /\ raw
    /\ right' = <<>>
    /\ \/ left' = line
       \/ busy /\ Len(line) < Size /\ \E c \in Chars : left' = Append(line, c)
    /\ UNCHANGED <<entered, raw, busy, got>>

SetRaw ==
    /\ ~busy
    /\ raw' \in BOOLEAN
    /\ UNCHANGED <<left, right, entered, busy, got>>

BeginRead ==
    /\ ~busy /\ busy' = TRUE
    /\ got' = <<>>
    /\ UNCHANGED <<left, right, entered, raw>>

\* A read returns the line and its newline, as far as the buffer reaches; the
\* rest of the line is gone.
ReturnLine ==
    /\ busy /\ ~raw /\ entered
    /\ \E n \in 0 .. Len(line) + 1 : got' = SubSeq(line \o <<NL>>, 1, n)
    /\ edit' = <<<<>>, <<>>>>
    /\ entered' = FALSE /\ busy' = FALSE
    /\ UNCHANGED raw

\* In raw mode it returns the oldest character.
ReturnChar ==
    /\ busy /\ raw /\ line # <<>>
    /\ got' = <<Head(line)>>
    /\ edit' = <<<<>>, Tail(line)>>
    /\ busy' = FALSE
    /\ UNCHANGED <<entered, raw>>

EditorNext ==
    EditKey \/ Enter \/ RawKey \/ SetRaw \/ BeginRead \/ ReturnLine \/ ReturnChar

EditorSpec ==
    EditorInit /\ [][EditorNext]_<<left, right, entered, raw, busy, got>>
=============================================================================
