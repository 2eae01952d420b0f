------------------------------- MODULE MCTerm -------------------------------
(***************************************************************************)
(* Instances of Console for TLC, and the refinement of LineEditor by Term. *)
(***************************************************************************)
EXTENDS Console, Sequences

left == Text(term_buf, 0, term_curpos)
right == Text(term_buf, term_curpos, term_buf_count)

Editor == INSTANCE LineEditor WITH
    Size <- TERM_BUF_SIZE,
    entered <- term_read_done, raw <- term_canon, busy <- reading,
    got <- Text(buf, 0, Cardinality(DOMAIN buf))

\* The buffer, its copy loops, cursor and counters implement the edit line:
\* every key does to the text what it says, in every order of keys, reads and
\* mode changes, and a read returns the line on the screen, or in canonical
\* mode the oldest key, and no cell of an older line.
ImplementsEditor == Editor!EditorSpec

\* Key by key: C-b, C-f, C-a, C-e, M-b and M-f move the cursor of the edit
\* line by a character, to an end or by a word, and C-h, C-w and C-u remove
\* that much text before it and nothing else (term_key_handler).
EachKey ==
    [][LET len == Len(left) IN
       /\ CharBack => Editor!Move(len - 1)
       /\ CharForward => Editor!Move(len + 1)
       /\ LineStart => Editor!Move(0)
       /\ LineEnd => Editor!Move(len + Len(right))
       /\ WordBack => Editor!Move(Editor!BeforeWord(left))
       /\ WordForward => Editor!Move(len + Editor!AfterWord(right))
       /\ KillChar => Editor!Kill(len - 1)
       /\ KillWord => Editor!Kill(Editor!BeforeWord(left))
       /\ KillLine => Editor!Kill(0)]_vars
=============================================================================
