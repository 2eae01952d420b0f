------------------------------- MODULE Screen -------------------------------
(***************************************************************************)
(* The screen of a terminal (term.c): video memory, cursor, attribute and  *)
(* the operations on them.  A screen is a record with the fields           *)
(*   mem        the memory video_mem points to, a <<character, attribute>> *)
(*              pair for every cell                                        *)
(*   x, y       cur_x and cur_y                                            *)
(*   attr       the attribute of what is printed next                      *)
(*   displayed  whether it is the terminal on the monitor                  *)
(*   hw         the position of the cursor in the VGA registers            *)
(* An operation of term.c maps a screen to the screen it leaves.           *)
(***************************************************************************)
EXTENDS Integers, SequencesExt

CONSTANTS
    NUM_COLS, NUM_ROWS,
    DEF_ATTR,           \* the attribute of a blank row
    Blank, NL, CR, BS   \* the characters with a meaning of their own

ASSUME ScreenAssumption ==
    /\ NUM_COLS \in Nat \ {0} /\ NUM_ROWS \in Nat \ {0}
    /\ DEF_ATTR \in 0 .. 255
    /\ NL # CR /\ NL # BS /\ CR # BS

VidCells == 0 .. NUM_COLS * NUM_ROWS - 1

\* Op applied n times to s.
Times(n, Op(_), s) ==
    LET after[k \in 0 .. n] == IF k = 0 THEN s ELSE Op(after[k - 1])
    IN  after[n]

Clamp(v, n) == IF v < 0 THEN 0 ELSE IF v >= n THEN n - 1 ELSE v

setpos(x, y, s) ==
    LET cx == Clamp(x, NUM_COLS)
        cy == Clamp(y, NUM_ROWS)
    IN  [s EXCEPT !.x = cx, !.y = cy, !.hw = IF s.displayed THEN <<cx, cy>> ELSE @]

clear(s) == [s EXCEPT !.mem = [i \in VidCells |-> <<Blank, s.attr>>]]

set_vid_char(x, y, ch, s) ==
    IF x \in 0 .. NUM_COLS - 1 /\ y \in 0 .. NUM_ROWS - 1
    THEN [s EXCEPT !.mem[NUM_COLS * y + x] = <<ch, s.attr>>]
    ELSE s

\* Characters and attributes move up a row, the last row gets the default
\* attribute, the current attribute stays.
scroll(s) ==
    setpos(s.x, s.y - 1, [s EXCEPT !.mem = [i \in VidCells |->
        IF i + NUM_COLS \in VidCells THEN s.mem[i + NUM_COLS] ELSE <<Blank, DEF_ATTR>>]])

back(s) ==
    IF s.x > 0 THEN setpos(s.x - 1, s.y, s) ELSE setpos(NUM_COLS - 1, s.y - 1, s)

forward(s) ==
    IF s.x + 1 < NUM_COLS THEN setpos(s.x + 1, s.y, s) ELSE setpos(0, s.y + 1, s)

\* The cursor enters column x of row y, which may be one below the screen.
EnterRow(x, y, s) ==
    IF y < NUM_ROWS THEN setpos(x, y, s)
    ELSE setpos(x, NUM_ROWS - 1, scroll([s EXCEPT !.x = x, !.y = y]))

\* Faulty variant: a full row goes on in the same row.
Advance_noWrap(s) == EnterRow(s.x + 1, s.y, s)

\* The cursor after a printed character.
Advance(s) ==
    IF s.x + 1 < NUM_COLS THEN EnterRow(s.x + 1, s.y, s) ELSE EnterRow(0, s.y + 1, s)

putc(c, s) ==
    CASE c = NL -> EnterRow(0, s.y + 1, s)
      [] c = CR -> setpos(0, s.y, s)
      [] c = BS -> LET b == back(s) IN set_vid_char(b.x, b.y, Blank, b)
      [] OTHER -> Advance(set_vid_char(s.x, s.y, c, s))

puts(str, s) ==
    LET after[k \in 0 .. Len(str)] == IF k = 0 THEN s ELSE putc(str[k], after[k - 1])
    IN  after[Len(str)]
=============================================================================
