-------------------------- MODULE TerminalsProofs ---------------------------
(***************************************************************************)
(* Proofs about Terminals, for every number of terminals, size of the      *)
(* screen and text written: the cursor of the monitor is that of the       *)
(* displayed terminal, writes do not reach other terminals, plain text     *)
(* stands on the screen as on a sheet, and a terminal shows what its bytes *)
(* mean wherever the writes cut them.                                      *)
(***************************************************************************)
EXTENDS Terminals, SequenceTheorems, FiniteSetTheorems, Induction

Columns == 0 .. NUM_COLS - 1
Rows == 0 .. NUM_ROWS - 1
Digits == DOMAIN DigitValue
Attributes == 0 .. 255
Flags == BOOLEAN
Positions == Int \X Int
Buffers == Seq(Digits)
Arglists == Seq(Attributes)
States == {"IDLE", "A_ESCAPE", "A_BRACKET", "ARG_PARSE"}
Characters == {Blank} \cup UNION {Range(chunk) : chunk \in Chunks}

\* Terminals as the operations see them, with the cursor on the screen, and
\* with the cursor anywhere.
ViewsAt(X, Y) ==
    [x : X, y : Y, x_store : Columns, y_store : Rows, attr : Attributes,
     noecho : Flags, canon : Flags, onVga : Flags,
     state : States, buf : Buffers, args : Arglists,
     mem : Memory, displayed : Flags, hw : Positions, shown : Flags]

Views == ViewsAt(Columns, Rows)
Wide == ViewsAt(Int, Int)

\* What an operation leaves: it does not move the terminal, and the cursor of
\* the monitor follows it if it is displayed, and stays otherwise.
Frame(s, r) ==
    /\ r.onVga = s.onVga /\ r.displayed = s.displayed
    /\ ~s.displayed => r.hw = s.hw
    /\ s.displayed => r.hw = <<r.x, r.y>> \/ (r.hw = s.hw /\ r.x = s.x /\ r.y = s.y)

\* The screen has cells, and the default attribute is a byte.
LEMMA Sizes == NUM_COLS \in Nat \ {0} /\ NUM_ROWS \in Nat \ {0} /\ DEF_ATTR \in 0 .. 255
  BY ScreenAssumption

\* Doing nothing keeps the frame.
LEMMA FrameSelf == ASSUME NEW s PROVE Frame(s, s)
  BY DEF Frame

\* Two operations keep it if each does.
LEMMA FrameTwice ==
    ASSUME NEW s, NEW r, NEW q, Frame(s, r), Frame(r, q)
    PROVE  Frame(s, q)
  BY DEF Frame

----------------------------------------------------------------------------
(***************************************************************************)
(* The screen.                                                             *)
(***************************************************************************)
LEMMA ViewsAreWide == Views \subseteq Wide
  <1> SUFFICES ASSUME NEW s \in Views PROVE s \in Wide
    OBVIOUS
  <1> QED
    BY Sizes DEF Views, Wide, ViewsAt, Columns, Rows

\* A clamped coordinate is on the screen.
LEMMA ClampIs ==
    ASSUME NEW v \in Int, NEW n \in Nat \ {0}
    PROVE  Clamp(v, n) \in 0 .. n - 1
  BY DEF Clamp

\* setpos brings the cursor onto the screen, and the monitor with it.
LEMMA SetPos ==
    ASSUME NEW s \in Wide, NEW x \in Int, NEW y \in Int
    PROVE  /\ setpos(x, y, s) \in Views /\ Frame(s, setpos(x, y, s))
           /\ setpos(x, y, s).hw = IF s.displayed THEN <<setpos(x, y, s).x, setpos(x, y, s).y>>
                                   ELSE s.hw
  <1>1. PICK cx \in Columns, cy \in Rows : cx = Clamp(x, NUM_COLS) /\ cy = Clamp(y, NUM_ROWS)
    BY Sizes, ClampIs DEF Columns, Rows
  <1>2. <<cx, cy>> \in Positions
    BY Sizes DEF Columns, Rows, Positions
  <1>3. PICK h \in Positions : h = IF s.displayed THEN <<cx, cy>> ELSE s.hw
    BY <1>2 DEF Wide, ViewsAt
  <1> DEFINE r == [s EXCEPT !.x = cx, !.y = cy, !.hw = h]
  <1>4. setpos(x, y, s) = r
    BY <1>1, <1>3 DEF setpos
  <1>5. r \in Views
    BY DEF Views, Wide, ViewsAt
  <1>6. r.x = cx /\ r.y = cy /\ r.hw = h /\ r.onVga = s.onVga /\ r.displayed = s.displayed
    BY DEF Wide, ViewsAt
  <1> HIDE DEF r
  <1> QED
    BY <1>3, <1>4, <1>5, <1>6 DEF Frame

\* Storing to video memory alone.
LEMMA NewMemory ==
    ASSUME NEW X, NEW Y, NEW s \in ViewsAt(X, Y), NEW m \in Memory
    PROVE  /\ [s EXCEPT !.mem = m] \in ViewsAt(X, Y) /\ Frame(s, [s EXCEPT !.mem = m])
           /\ [s EXCEPT !.mem = m].x = s.x /\ [s EXCEPT !.mem = m].y = s.y
  <1> DEFINE r == [s EXCEPT !.mem = m]
  <1>1. r \in ViewsAt(X, Y)
    BY DEF ViewsAt
  <1>2. r.x = s.x /\ r.y = s.y /\ r.hw = s.hw /\ r.onVga = s.onVga /\ r.displayed = s.displayed
    BY DEF ViewsAt
  <1> HIDE DEF r
  <1>3. Frame(s, r)
    BY <1>2 DEF Frame
  <1> QED
    BY <1>1, <1>2, <1>3 DEF r

\* A printed character with its attribute.
LEMMA CellIs ==
    ASSUME NEW c \in Characters, NEW a \in Attributes
    PROVE  <<c, a>> \in Cells
  BY DEF Cells, Characters, Attributes

\* clear stores blanks.
LEMMA Clear ==
    ASSUME NEW s \in Views
    PROVE  clear(s) \in Views /\ Frame(s, clear(s))
  <1>1. s.attr \in Attributes /\ Blank \in Characters
    BY DEF Views, ViewsAt, Characters
  <1>2. [i \in VidCells |-> <<Blank, s.attr>>] \in Memory
    BY <1>1, CellIs DEF Memory
  <1> QED
    BY <1>2, NewMemory DEF clear, Views

\* set_vid_char stores one cell.
LEMMA SetVidChar ==
    ASSUME NEW s \in Views, NEW x, NEW y, NEW c \in Characters
    PROVE  set_vid_char(x, y, c, s) \in Views /\ Frame(s, set_vid_char(x, y, c, s))
  <1>1. <<c, s.attr>> \in Cells /\ s.mem \in Memory
    BY CellIs DEF Views, ViewsAt
  <1>2. [s.mem EXCEPT ![NUM_COLS * y + x] = <<c, s.attr>>] \in Memory
    BY <1>1 DEF Memory
  <1>3. set_vid_char(x, y, c, s) \in
            {s, [s EXCEPT !.mem = [s.mem EXCEPT ![NUM_COLS * y + x] = <<c, s.attr>>]]}
    BY DEF set_vid_char
  <1> QED
    BY <1>2, <1>3, NewMemory, FrameSelf DEF Views

\* scroll moves the rows up and the cursor with them.
LEMMA Scroll ==
    ASSUME NEW s \in Wide
    PROVE  scroll(s) \in Views /\ Frame(s, scroll(s))
  <1> DEFINE m == [i \in VidCells |->
                     IF i + NUM_COLS \in VidCells THEN s.mem[i + NUM_COLS] ELSE <<Blank, DEF_ATTR>>]
             t == [s EXCEPT !.mem = m]
  <1>1. <<Blank, DEF_ATTR>> \in Cells
    BY Sizes, CellIs DEF Characters, Attributes
  <1>2. s.mem \in [VidCells -> Cells] /\ s.x \in Int /\ s.y \in Int
    BY DEF Wide, ViewsAt, Memory
  <1>3. m \in Memory
    BY <1>1, <1>2 DEF Memory
  <1>4. scroll(s) = setpos(s.x, s.y - 1, t)
    BY DEF scroll
  <1> HIDE DEF m
  <1>5. t \in Wide /\ Frame(s, t)
    BY <1>3, NewMemory DEF Wide
  <1>6. s.x \in Int /\ s.y - 1 \in Int
    BY <1>2
  <1> HIDE DEF t
  <1>7. setpos(s.x, s.y - 1, t) \in Views /\ Frame(t, setpos(s.x, s.y - 1, t))
    BY <1>5, <1>6, SetPos
  <1> QED
    BY <1>4, <1>5, <1>7, FrameTwice

\* The cursor of a view.
LEMMA CursorIs ==
    ASSUME NEW s \in Views
    PROVE  s \in Wide /\ s.x \in Int /\ s.y \in Int /\ s.x \in Columns /\ s.y \in Rows
  <1>1. s.x \in Columns /\ s.y \in Rows
    BY DEF Views, ViewsAt
  <1> QED
    BY <1>1, ViewsAreWide, Sizes DEF Columns, Rows

\* back moves the cursor.
LEMMA Back ==
    ASSUME NEW s \in Views
    PROVE  back(s) \in Views /\ Frame(s, back(s))
  <1>1. s \in Wide /\ s.x - 1 \in Int /\ s.y \in Int /\ NUM_COLS - 1 \in Int /\ s.y - 1 \in Int
    BY CursorIs, Sizes
  <1> QED
    BY <1>1, SetPos DEF back

\* A cursor stored without setpos.
LEMMA MovedIn ==
    ASSUME NEW X, NEW Y, NEW s \in ViewsAt(X, Y), NEW a \in X, NEW b \in Y
    PROVE  [s EXCEPT !.x = a, !.y = b] \in ViewsAt(X, Y)
  BY DEF ViewsAt

\* A cursor stored without setpos does not reach the monitor.
LEMMA Moved ==
    ASSUME NEW s \in Wide, NEW x \in Int, NEW y \in Int
    PROVE  LET t == [s EXCEPT !.x = x, !.y = y]
           IN  t \in Wide /\ t.hw = s.hw /\ t.onVga = s.onVga /\ t.displayed = s.displayed
  <1> DEFINE t == [s EXCEPT !.x = x, !.y = y]
  <1>1. t \in Wide
    BY MovedIn DEF Wide
  <1>2. t.hw = s.hw /\ t.onVga = s.onVga /\ t.displayed = s.displayed
    BY DEF Wide, ViewsAt
  <1> QED
    BY <1>1, <1>2

\* Entering a row, below the screen or not, ends on the screen.
LEMMA EnterRowIs ==
    ASSUME NEW s \in Views, NEW x \in Int, NEW y \in Int
    PROVE  EnterRow(x, y, s) \in Views /\ Frame(s, EnterRow(x, y, s))
  <1>1. s \in Wide
    BY CursorIs
  <1>2. CASE y < NUM_ROWS
    BY <1>1, <1>2, SetPos DEF EnterRow
  <1>3. CASE ~(y < NUM_ROWS)
    <2> DEFINE t == [s EXCEPT !.x = x, !.y = y]
               u == scroll(t)
               r == setpos(x, NUM_ROWS - 1, u)
    <2>1. EnterRow(x, y, s) = r
      BY <1>3 DEF EnterRow
    <2>2. t \in Wide /\ t.hw = s.hw /\ t.onVga = s.onVga /\ t.displayed = s.displayed
      BY <1>1, Moved
    <2> HIDE DEF t
    <2>3. u \in Views /\ Frame(t, u)
      BY <2>2, Scroll
    <2> HIDE DEF u
    <2>4. u \in Wide /\ NUM_ROWS - 1 \in Int
      BY <2>3, CursorIs, Sizes
    <2>5. r \in Views /\ Frame(u, r) /\ r.hw = IF u.displayed THEN <<r.x, r.y>> ELSE u.hw
      BY <2>4, SetPos
    <2> HIDE DEF r
    <2>6. r.onVga = s.onVga /\ r.displayed = s.displayed
      BY <2>2, <2>3, <2>5 DEF Frame
    <2>7. r.hw = IF s.displayed THEN <<r.x, r.y>> ELSE s.hw
      BY <2>2, <2>3, <2>5 DEF Frame
    <2> QED
      BY <2>1, <2>5, <2>6, <2>7 DEF Frame
  <1> QED
    BY <1>2, <1>3

\* The cursor after a character is on the screen.
LEMMA AdvanceIs ==
    ASSUME NEW s \in Views
    PROVE  Advance(s) \in Views /\ Frame(s, Advance(s))
  <1>1. s.x + 1 \in Int /\ s.y \in Int /\ s.y + 1 \in Int /\ 0 \in Int
    BY CursorIs
  <1> QED
    BY <1>1, EnterRowIs DEF Advance

\* putc keeps the cursor on the screen.
LEMMA Putc ==
    ASSUME NEW s \in Views, NEW c \in Characters
    PROVE  putc(c, s) \in Views /\ Frame(s, putc(c, s))
  <1>1. s \in Wide /\ s.y \in Int /\ s.y + 1 \in Int /\ 0 \in Int
    BY CursorIs
  <1>2. CASE c = NL
    <2>1. putc(c, s) = EnterRow(0, s.y + 1, s)
      BY <1>2, ScreenAssumption, Zenon DEF putc
    <2> QED
      BY <1>1, <2>1, EnterRowIs
  <1>3. CASE c = CR
    <2>1. putc(c, s) = setpos(0, s.y, s)
      BY <1>3, ScreenAssumption, Zenon DEF putc
    <2> QED
      BY <1>1, <2>1, SetPos
  <1>4. CASE c = BS
    <2> DEFINE b == back(s)
    <2>1. putc(c, s) = set_vid_char(b.x, b.y, Blank, b)
      BY <1>4, ScreenAssumption, Zenon DEF putc
    <2>2. b \in Views /\ Frame(s, b)
      BY Back
    <2> HIDE DEF b
    <2>3. Blank \in Characters
      BY DEF Characters
    <2>4. set_vid_char(b.x, b.y, Blank, b) \in Views /\ Frame(b, set_vid_char(b.x, b.y, Blank, b))
      BY <2>2, <2>3, SetVidChar
    <2> QED
      BY <2>1, <2>2, <2>4, FrameTwice
  <1>5. CASE c # NL /\ c # CR /\ c # BS
    <2> DEFINE b == set_vid_char(s.x, s.y, c, s)
    <2>1. putc(c, s) = Advance(b)
      BY <1>5, Zenon DEF putc
    <2>2. b \in Views /\ Frame(s, b)
      BY SetVidChar
    <2> HIDE DEF b
    <2>3. Advance(b) \in Views /\ Frame(b, Advance(b))
      BY <2>2, AdvanceIs
    <2> QED
      BY <2>1, <2>2, <2>3, FrameTwice
  <1> QED
    BY <1>2, <1>3, <1>4, <1>5

----------------------------------------------------------------------------
(***************************************************************************)
(* The escape sequences.                                                   *)
(***************************************************************************)
LEMMA DigitIs ==
    ASSUME NEW d \in Digits
    PROVE  DigitValue[d] \in Nat
  <1>1. DigitValue[d] =
            CASE d = "0" -> 0 [] d = "1" -> 1 [] d = "2" -> 2 [] d = "3" -> 3 [] d = "4" -> 4
              [] d = "5" -> 5 [] d = "6" -> 6 [] d = "7" -> 7 [] d = "8" -> 8 [] d = "9" -> 9
    BY DEF DigitValue, Digits
  <1>2. d \in {"0", "1", "2", "3", "4", "5", "6", "7", "8", "9"}
    BY DEF DigitValue, Digits
  <1> QED
    BY <1>1, <1>2

\* atoi returns a number.
LEMMA AtoiIs ==
    ASSUME NEW str \in Seq(Digits)
    PROVE  atoi(str) \in Nat
  <1> DEFINE D == [p \in Nat \X Nat |->
                     IF p[1] \in 1 .. Len(str) THEN p[2] * 10 + DigitValue[str[p[1]]] ELSE 0]
             Is(g) == g = [n \in 0 .. Len(str) |->
                             IF n = 0 THEN 0 ELSE g[n - 1] * 10 + DigitValue[str[n]]]
             res == CHOOSE g : Is(g)
  <1>0. Len(str) \in Nat /\ 0 \in Nat
    OBVIOUS
  <1>1. \A n \in 1 .. Len(str) : DigitValue[str[n]] \in Nat
    BY DigitIs
  <1>2. D \in [Nat \X Nat -> Nat]
    <2>1. ASSUME NEW p \in Nat \X Nat
          PROVE  (IF p[1] \in 1 .. Len(str) THEN p[2] * 10 + DigitValue[str[p[1]]] ELSE 0) \in Nat
      BY <1>1
    <2> QED
      BY <2>1
  <1>3. \A n, v : n \in 1 .. Len(str) /\ v \in Nat => D[<<n, v>>] = v * 10 + DigitValue[str[n]]
    BY <1>0
  <1> HIDE DEF D
  <1>4. PICK f \in [0 .. Len(str) -> Nat] : Iterates(f, Len(str), 0, D)
    BY <1>0, <1>2, Recursion
  <1>5. Is(f)
    <2>1. ASSUME NEW n \in 0 .. Len(str)
          PROVE  f[n] = IF n = 0 THEN 0 ELSE f[n - 1] * 10 + DigitValue[str[n]]
      <3>1. CASE n = 0
        BY <1>4, <3>1 DEF Iterates
      <3>2. CASE n # 0
        <4>1. n \in 1 .. Len(str) /\ n - 1 \in 0 .. Len(str)
          BY <1>0, <3>2
        <4>2. f[n] = D[<<n, f[n - 1]>>] /\ f[n - 1] \in Nat
          BY <1>4, <4>1 DEF Iterates
        <4> QED
          BY <1>3, <3>2, <4>1, <4>2
      <3> QED
        BY <3>1, <3>2
    <2> QED
      BY <2>1
  <1>6. Is(res)
    BY <1>5
  <1>7. atoi(str) = res[Len(str)]
    BY DEF atoi
  <1> HIDE DEF res
  <1> DEFINE S == {n \in 0 .. Len(str) : res[n] \in Nat}
  <1>8. 0 \in S
    BY <1>0, <1>6
  <1>9. \A n \in 0 .. Len(str) - 1 : n \in S => n + 1 \in S
    <2> SUFFICES ASSUME NEW n \in 0 .. Len(str) - 1, n \in S PROVE n + 1 \in S
      OBVIOUS
    <2>1. n + 1 \in 0 .. Len(str) /\ n + 1 \in 1 .. Len(str) /\ n + 1 # 0 /\ (n + 1) - 1 = n
      BY <1>0
    <2>2. res[n + 1] = res[n] * 10 + DigitValue[str[n + 1]]
      BY <1>6, <2>1
    <2>3. res[n] \in Nat /\ DigitValue[str[n + 1]] \in Nat
      BY <1>1, <2>1
    <2> QED
      BY <2>1, <2>2, <2>3
  <1>10. 0 .. Len(str) \subseteq S
    <2> HIDE DEF S
    <2> QED
      BY <1>0, <1>8, <1>9, UpTo
  <1> QED
    BY <1>0, <1>7, <1>10

Keeps(s, r) == r \in Views /\ Frame(s, r)

\* Two operations in a row.
LEMMA KeepsTwice ==
    ASSUME NEW s, NEW r, NEW q, Keeps(s, r), Keeps(r, q)
    PROVE  Keeps(s, q)
  BY FrameTwice DEF Keeps

\* Fields that are neither the cursor nor the monitor's.
LEMMA SetAttr ==
    ASSUME NEW s \in Views, NEW a \in Attributes
    PROVE  Keeps(s, [s EXCEPT !.attr = a])
  <1> DEFINE r == [s EXCEPT !.attr = a]
  <1>1. r \in Views
    BY DEF Views, ViewsAt
  <1>2. r.x = s.x /\ r.y = s.y /\ r.hw = s.hw /\ r.onVga = s.onVga /\ r.displayed = s.displayed
    BY DEF Views, ViewsAt
  <1> HIDE DEF r
  <1>3. Keeps(s, r)
    BY <1>1, <1>2 DEF Keeps, Frame
  <1> QED
    BY <1>3 DEF r

\* Storing the cursor.
LEMMA SetStore ==
    ASSUME NEW s \in Views
    PROVE  Keeps(s, [s EXCEPT !.x_store = s.x, !.y_store = s.y])
  <1> DEFINE r == [s EXCEPT !.x_store = s.x, !.y_store = s.y]
  <1>1. r \in Views
    BY DEF Views, ViewsAt
  <1>2. r.x = s.x /\ r.y = s.y /\ r.hw = s.hw /\ r.onVga = s.onVga /\ r.displayed = s.displayed
    BY DEF Views, ViewsAt
  <1> HIDE DEF r
  <1>3. Keeps(s, r)
    BY <1>1, <1>2 DEF Keeps, Frame
  <1> QED
    BY <1>3 DEF r

\* Setting a mode.
LEMMA SetModes ==
    ASSUME NEW s \in Views, NEW b \in Flags
    PROVE  /\ Keeps(s, [s EXCEPT !.noecho = b])
           /\ Keeps(s, [s EXCEPT !.canon = b])
           /\ Keeps(s, [s EXCEPT !.shown = b])
  <1>1. Keeps(s, [s EXCEPT !.noecho = b])
    <2> DEFINE r == [s EXCEPT !.noecho = b]
    <2>1. r \in Views
      BY DEF Views, ViewsAt
    <2>2. r.x = s.x /\ r.y = s.y /\ r.hw = s.hw /\ r.onVga = s.onVga /\ r.displayed = s.displayed
      BY DEF Views, ViewsAt
    <2> HIDE DEF r
    <2>3. Keeps(s, r)
      BY <2>1, <2>2 DEF Keeps, Frame
    <2> QED
      BY <2>3 DEF r
  <1>2. Keeps(s, [s EXCEPT !.canon = b])
    <2> DEFINE r == [s EXCEPT !.canon = b]
    <2>1. r \in Views
      BY DEF Views, ViewsAt
    <2>2. r.x = s.x /\ r.y = s.y /\ r.hw = s.hw /\ r.onVga = s.onVga /\ r.displayed = s.displayed
      BY DEF Views, ViewsAt
    <2> HIDE DEF r
    <2>3. Keeps(s, r)
      BY <2>1, <2>2 DEF Keeps, Frame
    <2> QED
      BY <2>3 DEF r
  <1>3. Keeps(s, [s EXCEPT !.shown = b])
    <2> DEFINE r == [s EXCEPT !.shown = b]
    <2>1. r \in Views
      BY DEF Views, ViewsAt
    <2>2. r.x = s.x /\ r.y = s.y /\ r.hw = s.hw /\ r.onVga = s.onVga /\ r.displayed = s.displayed
      BY DEF Views, ViewsAt
    <2> HIDE DEF r
    <2>3. Keeps(s, r)
      BY <2>1, <2>2 DEF Keeps, Frame
    <2> QED
      BY <2>3 DEF r
  <1> QED
    BY <1>1, <1>2, <1>3

\* The parser's own fields.
LEMMA SetParser ==
    ASSUME NEW s \in Views, NEW st \in States, NEW bf \in Buffers, NEW ar \in Arglists
    PROVE  Keeps(s, [s EXCEPT !.state = st, !.buf = bf, !.args = ar])
  <1> DEFINE r == [s EXCEPT !.state = st, !.buf = bf, !.args = ar]
  <1>1. r \in Views
    BY DEF Views, ViewsAt
  <1>2. r.x = s.x /\ r.y = s.y /\ r.hw = s.hw /\ r.onVga = s.onVga /\ r.displayed = s.displayed
    BY DEF Views, ViewsAt
  <1> HIDE DEF r
  <1>3. Keeps(s, r)
    BY <1>1, <1>2 DEF Keeps, Frame
  <1> QED
    BY <1>3 DEF r

\* The fields of the parser.
LEMMA ParserFields ==
    ASSUME NEW s \in Views
    PROVE  s.state \in States /\ s.buf \in Buffers /\ s.args \in Arglists
  BY DEF Views, ViewsAt

\* Setting its state.
LEMMA SetState ==
    ASSUME NEW s \in Views, NEW st \in States
    PROVE  Keeps(s, [s EXCEPT !.state = st])
  <1>1. [s EXCEPT !.state = st] = [s EXCEPT !.state = st, !.buf = s.buf, !.args = s.args]
    BY DEF Views, ViewsAt
  <1> QED
    BY <1>1, ParserFields, SetParser

\* Setting its digits.
LEMMA SetBuf ==
    ASSUME NEW s \in Views, NEW bf \in Buffers
    PROVE  Keeps(s, [s EXCEPT !.buf = bf])
  <1>1. [s EXCEPT !.buf = bf] = [s EXCEPT !.state = s.state, !.buf = bf, !.args = s.args]
    BY DEF Views, ViewsAt
  <1> QED
    BY <1>1, ParserFields, SetParser

\* Setting its arguments.
LEMMA SetArgs ==
    ASSUME NEW s \in Views, NEW ar \in Arglists
    PROVE  Keeps(s, [s EXCEPT !.args = ar])
  <1>1. [s EXCEPT !.args = ar] = [s EXCEPT !.state = s.state, !.buf = s.buf, !.args = ar]
    BY DEF Views, ViewsAt
  <1> QED
    BY <1>1, ParserFields, SetParser

\* What a sequence does, by its final byte.
LEMMA EscFuncs ==
    ASSUME NEW s \in Views, NEW f, NEW args \in Arglists
    PROVE  Keeps(s, esc_funcs(f, args, s))
  <1>1. \A n \in 1 .. Len(args) : args[n] \in Attributes
    BY DEF Arglists
  <1>2. args # <<>> => args[1] \in Attributes
    BY DEF Arglists
  <1>3. s \in Wide /\ s.attr \in Attributes /\ s.x_store \in Int /\ s.y_store \in Int
    BY CursorIs, Sizes DEF Views, ViewsAt, Columns, Rows
  <1>4. Keeps(s, s)
    BY FrameSelf DEF Keeps
  <1>5. CASE f = "f"
    <2> DEFINE color == IF args = <<>> THEN DEF_ATTR ELSE args[1]
               a == (s.attr \div 16) * 16 + (color % 16)
    <2>1. color \in 0 .. 255
      BY <1>2, Sizes DEF Attributes
    <2>2. esc_funcs(f, args, s) = [s EXCEPT !.attr = a]
      BY <1>5, Zenon DEF esc_funcs
    <2> HIDE DEF color
    <2>3. a \in Attributes
      BY <1>3, <2>1 DEF Attributes
    <2> HIDE DEF a
    <2> QED
      BY <2>2, <2>3, SetAttr
  <1>6. CASE f = "b"
    <2> DEFINE color == IF args = <<>> THEN DEF_ATTR \div 16 ELSE args[1]
               a == (s.attr % 16) + (color % 16) * 16
    <2>1. color \in 0 .. 255
      BY <1>2, Sizes DEF Attributes
    <2>2. esc_funcs(f, args, s) = [s EXCEPT !.attr = a]
      BY <1>6, Zenon DEF esc_funcs
    <2> HIDE DEF color
    <2>3. a \in Attributes
      BY <1>3, <2>1 DEF Attributes
    <2> HIDE DEF a
    <2> QED
      BY <2>2, <2>3, SetAttr
  <1>7. CASE f = "p" /\ Len(args) > 1
    <2>1. args[2] - 1 \in Int /\ args[1] - 1 \in Int
      <3>1. 1 \in 1 .. Len(args) /\ 2 \in 1 .. Len(args)
        BY <1>7 DEF Arglists
      <3>2. args[1] \in Attributes /\ args[2] \in Attributes
        BY <1>1, <3>1
      <3> QED
        BY <3>2 DEF Attributes
    <2>2. esc_funcs(f, args, s) = setpos(args[2] - 1, args[1] - 1, s)
      BY <1>7, Zenon DEF esc_funcs
    <2> QED
      BY <1>3, <2>1, <2>2, SetPos DEF Keeps
  <1>8. CASE f = "e" /\ args = <<>>
    <2>1. esc_funcs(f, args, s) = [s EXCEPT !.x_store = s.x, !.y_store = s.y]
      BY <1>8, Zenon DEF esc_funcs
    <2> QED
      BY <2>1, SetStore
  <1>9. CASE f = "r" /\ args = <<>>
    <2>1. esc_funcs(f, args, s) = setpos(s.x_store, s.y_store, s)
      BY <1>9, Zenon DEF esc_funcs
    <2> QED
      BY <1>3, <2>1, SetPos DEF Keeps
  <1>10. CASE f = "c" /\ args = <<>>
    <2>1. esc_funcs(f, args, s) = clear(s)
      BY <1>10, Zenon DEF esc_funcs
    <2> QED
      BY <2>1, Clear DEF Keeps
  <1>11. CASE f \in {"s", "S"} /\ args # <<>>
    <2> DEFINE mode == CASE args[1] = 1 -> [s EXCEPT !.noecho = (f = "s")]
                        [] args[1] = 2 -> [s EXCEPT !.canon = (f = "s")]
                        [] args[1] = 3 -> [s EXCEPT !.shown = (f # "s")]
                        [] OTHER -> s
    <2>1. esc_funcs(f, args, s) = mode
      BY <1>11, Zenon DEF esc_funcs
    <2>2. (f = "s") \in Flags /\ (f # "s") \in Flags
      BY DEF Flags
    <2>3. CASE args[1] = 1
      <3>1. mode = [s EXCEPT !.noecho = (f = "s")]
        BY <2>3
      <3>2. Keeps(s, [s EXCEPT !.noecho = (f = "s")])
        BY <2>2, SetModes, Zenon
      <3> HIDE DEF mode
      <3> QED
        BY <2>1, <3>1, <3>2, Zenon
    <2>4. CASE args[1] = 2
      <3>1. mode = [s EXCEPT !.canon = (f = "s")]
        BY <2>4
      <3>2. Keeps(s, [s EXCEPT !.canon = (f = "s")])
        BY <2>2, SetModes, Zenon
      <3> HIDE DEF mode
      <3> QED
        BY <2>1, <3>1, <3>2, Zenon
    <2>5. CASE args[1] = 3
      <3>1. mode = [s EXCEPT !.shown = (f # "s")]
        BY <2>5
      <3>2. Keeps(s, [s EXCEPT !.shown = (f # "s")])
        BY <2>2, SetModes, Zenon
      <3> HIDE DEF mode
      <3> QED
        BY <2>1, <3>1, <3>2, Zenon
    <2>6. CASE args[1] # 1 /\ args[1] # 2 /\ args[1] # 3
      <3>1. mode = s
        BY <2>6, Zenon
      <3> QED
        BY <1>4, <2>1, <3>1
    <2> QED
      BY <2>3, <2>4, <2>5, <2>6
  <1>12. CASE /\ f # "f" /\ f # "b" /\ ~(f = "p" /\ Len(args) > 1) /\ ~(f = "e" /\ args = <<>>)
              /\ ~(f = "r" /\ args = <<>>) /\ ~(f = "c" /\ args = <<>>)
              /\ ~(f \in {"s", "S"} /\ args # <<>>)
    <2>1. esc_funcs(f, args, s) = s
      BY <1>12, Zenon DEF esc_funcs
    <2> QED
      BY <1>4, <2>1
  <1> QED
    BY <1>5, <1>6, <1>7, <1>8, <1>9, <1>10, <1>11, <1>12

\* An argument ends.
LEMMA EndArgIs ==
    ASSUME NEW s \in Views
    PROVE  Keeps(s, EndArg(s))
  <1> DEFINE ar == IF Len(s.args) < 3 THEN Append(s.args, atoi(s.buf) % 256) ELSE s.args
  <1>1. atoi(s.buf) % 256 \in Attributes
    <2>1. PICK v \in Nat : v = atoi(s.buf)
      BY ParserFields, AtoiIs DEF Buffers
    <2> QED
      BY <2>1 DEF Attributes
  <1>2. ar \in Arglists /\ <<>> \in Buffers
    BY <1>1, ParserFields DEF Arglists, Buffers
  <1>3. EndArg(s) = [s EXCEPT !.args = ar, !.buf = <<>>]
    BY DEF EndArg
  <1> HIDE DEF ar
  <1>4. [s EXCEPT !.args = ar, !.buf = <<>>] = [s EXCEPT !.state = s.state, !.buf = <<>>, !.args = ar]
    BY DEF Views, ViewsAt
  <1>5. Keeps(s, [s EXCEPT !.state = s.state, !.buf = <<>>, !.args = ar])
    BY <1>2, ParserFields, SetParser
  <1> QED
    BY <1>3, <1>4, <1>5, Zenon

\* A sequence ends.
LEMMA FinishIs ==
    ASSUME NEW s \in Views, NEW f
    PROVE  Keeps(s, Finish(f, s))
  <1> DEFINE r == esc_funcs(f, s.args, s)
  <1>1. Keeps(s, r)
    BY ParserFields, EscFuncs
  <1>2. Finish(f, s) = [r EXCEPT !.state = "IDLE", !.buf = <<>>, !.args = <<>>]
    BY DEF Finish
  <1> HIDE DEF r
  <1>3. r \in Views /\ "IDLE" \in States /\ <<>> \in Buffers /\ <<>> \in Arglists
    BY <1>1 DEF Keeps, States, Buffers, Arglists
  <1> QED
    BY <1>1, <1>2, <1>3, SetParser, KeepsTwice

\* A byte that is no escape, in every state of the parser.
LEMMA InStateIs ==
    ASSUME NEW s \in Views, NEW c
    PROVE  Keeps(s, InState(c, s)[2])
  <1>1. <<>> \in Arglists /\ <<>> \in Buffers /\ Keeps(s, s)
    BY FrameSelf DEF Keeps, Arglists, Buffers
  <1>2. CASE s.state = "A_ESCAPE" /\ c = "["
    <2>1. InState(c, s) = <<FALSE, [s EXCEPT !.state = "A_BRACKET"]>>
      BY <1>2, Zenon DEF InState
    <2>2. Keeps(s, [s EXCEPT !.state = "A_BRACKET"])
      BY SetState DEF States
    <2>3. InState(c, s)[2] = [s EXCEPT !.state = "A_BRACKET"]
      BY <2>1
    <2> QED
      BY <2>2, <2>3, Zenon
  <1>3. CASE s.state = "A_BRACKET"
    <2>1. CASE isnum(c)
      <3>1. InState(c, s) = <<FALSE, [s EXCEPT !.state = "ARG_PARSE", !.args = <<>>, !.buf = <<c>>]>>
        BY <1>3, <2>1, Zenon DEF InState
      <3>2. [s EXCEPT !.state = "ARG_PARSE", !.args = <<>>, !.buf = <<c>>]
              = [s EXCEPT !.state = "ARG_PARSE", !.buf = <<c>>, !.args = <<>>]
        BY DEF Views, ViewsAt
      <3>3. <<c>> \in Buffers /\ "ARG_PARSE" \in States
        BY <2>1 DEF isnum, Digits, States, Buffers
      <3>4. Keeps(s, [s EXCEPT !.state = "ARG_PARSE", !.buf = <<c>>, !.args = <<>>])
        BY <1>1, <3>3, SetParser
      <3>5. InState(c, s)[2] = [s EXCEPT !.state = "ARG_PARSE", !.args = <<>>, !.buf = <<c>>]
        BY <3>1
      <3> QED
        BY <3>2, <3>4, <3>5, Zenon
    <2>2. CASE ~isnum(c)
      <3> DEFINE t == [s EXCEPT !.args = <<>>]
      <3>1. InState(c, s) = <<FALSE, Finish(c, t)>>
        BY <1>3, <2>2, Zenon DEF InState
      <3>2. Keeps(s, t)
        BY <1>1, SetArgs
      <3> HIDE DEF t
      <3>3. Keeps(t, Finish(c, t))
        BY <3>2, FinishIs DEF Keeps
      <3> QED
        BY <3>1, <3>2, <3>3, KeepsTwice
    <2> QED
      BY <2>1, <2>2
  <1>4. CASE s.state = "ARG_PARSE"
    <2>1. CASE isnum(c)
      <3> DEFINE bf == IF Len(s.buf) < 3 THEN Append(s.buf, c) ELSE s.buf
      <3>1. InState(c, s) = <<FALSE, [s EXCEPT !.buf = bf]>>
        BY <1>4, <2>1, Zenon DEF InState
      <3>2. bf \in Buffers
        <4>1. c \in Digits /\ s.buf \in Seq(Digits)
          BY <2>1, ParserFields DEF isnum, Digits, Buffers
        <4> QED
          BY <4>1 DEF Buffers
      <3> HIDE DEF bf
      <3> QED
        BY <3>1, <3>2, SetBuf
    <2>2. CASE ~isnum(c)
      <3> DEFINE t == EndArg(s)
      <3>0. InState(c, s) = <<FALSE, IF c = ";" THEN t ELSE Finish(c, t)>>
        BY <1>4, <2>2, Zenon DEF InState
      <3> HIDE DEF t
      <3> DEFINE q == IF c = ";" THEN t ELSE Finish(c, t)
      <3>1. InState(c, s)[2] \in {t, Finish(c, t)}
        <4>1. q \in {t, Finish(c, t)}
          OBVIOUS
        <4>2. InState(c, s) = <<FALSE, q>>
          BY <3>0
        <4> HIDE DEF q
        <4> QED
          BY <4>1, <4>2
      <3>2. Keeps(s, t)
        BY EndArgIs DEF t
      <3>3. Keeps(t, Finish(c, t))
        BY <3>2, FinishIs DEF Keeps
      <3> QED
        BY <3>1, <3>2, <3>3, KeepsTwice
    <2> QED
      BY <2>1, <2>2
  <1>5. CASE /\ ~(s.state = "A_ESCAPE" /\ c = "[") /\ s.state # "A_BRACKET" /\ s.state # "ARG_PARSE"
    <2>1. InState(c, s) = <<TRUE, s>>
      BY <1>5, Zenon DEF InState
    <2> QED
      BY <1>1, <2>1
  <1> QED
    BY <1>2, <1>3, <1>4, <1>5

\* One byte of a write.
LEMMA WriteByteIs ==
    ASSUME NEW s \in Views, NEW c \in Characters
    PROVE  Keeps(s, WriteByte(s, c))
  <1> DEFINE r == esc_parse(c, s)[2]
  <1>1. Keeps(s, r)
    <2>1. CASE c = "ESC"
      <3>1. esc_parse(c, s)[2] = [s EXCEPT !.state = "A_ESCAPE"]
        BY <2>1 DEF esc_parse
      <3> QED
        BY <3>1, SetState DEF States
    <2>2. CASE c # "ESC"
      BY <2>2, InStateIs DEF esc_parse
    <2> QED
      BY <2>1, <2>2
  <1>2. WriteByte(s, c) \in {r, putc(c, r)}
    BY DEF WriteByte
  <1> HIDE DEF r
  <1>3. Keeps(r, putc(c, r))
    BY <1>1, Putc DEF Keeps
  <1> QED
    BY <1>1, <1>2, <1>3, KeepsTwice

\* f[n] is what the first n bytes of a write leave of s.
ByteRun(f, bytes, s) ==
    /\ f[0] = s /\ f[Len(bytes)] = WriteBytes(s, bytes)
    /\ \A n \in 1 .. Len(bytes) : f[n] = WriteByte(f[n - 1], bytes[n])
    /\ \A n \in 0 .. Len(bytes) : Keeps(s, f[n])

\* The loop over the bytes of a write.
LEMMA WriteBytesRuns ==
    ASSUME NEW s \in Views, NEW bytes \in Seq(Characters)
    PROVE  \E f : ByteRun(f, bytes, s)
  <1> DEFINE D == [p \in Nat \X Views |->
                     IF p[1] \in 1 .. Len(bytes) THEN WriteByte(p[2], bytes[p[1]]) ELSE p[2]]
             Is(g) == g = [n \in 0 .. Len(bytes) |->
                             IF n = 0 THEN s ELSE WriteByte(g[n - 1], bytes[n])]
             after == CHOOSE g : Is(g)
  <1>0. Len(bytes) \in Nat
    OBVIOUS
  <1>1. \A n \in 1 .. Len(bytes) : bytes[n] \in Characters
    OBVIOUS
  <1>2. D \in [Nat \X Views -> Views]
    <2>1. ASSUME NEW p \in Nat \X Views
          PROVE  (IF p[1] \in 1 .. Len(bytes) THEN WriteByte(p[2], bytes[p[1]]) ELSE p[2]) \in Views
      <3>1. p[2] \in Views
        OBVIOUS
      <3>2. p[1] \in 1 .. Len(bytes) => WriteByte(p[2], bytes[p[1]]) \in Views
        BY <1>1, <3>1, WriteByteIs DEF Keeps
      <3> QED
        BY <3>1, <3>2
    <2> QED
      BY <2>1
  <1>3. \A n, v : n \in 1 .. Len(bytes) /\ v \in Views => D[<<n, v>>] = WriteByte(v, bytes[n])
    BY <1>0
  <1> HIDE DEF D
  <1>4. PICK f \in [0 .. Len(bytes) -> Views] : Iterates(f, Len(bytes), s, D)
    BY <1>0, <1>2, Recursion
  <1>5. Is(f)
    <2>1. ASSUME NEW n \in 0 .. Len(bytes)
          PROVE  f[n] = IF n = 0 THEN s ELSE WriteByte(f[n - 1], bytes[n])
      <3>1. CASE n = 0
        BY <1>4, <3>1 DEF Iterates
      <3>2. CASE n # 0
        <4>1. n \in 1 .. Len(bytes) /\ n - 1 \in 0 .. Len(bytes)
          BY <1>0, <3>2
        <4>2. f[n] = D[<<n, f[n - 1]>>] /\ f[n - 1] \in Views
          BY <1>4, <4>1 DEF Iterates
        <4> QED
          BY <1>3, <3>2, <4>1, <4>2
      <3> QED
        BY <3>1, <3>2
    <2> QED
      BY <2>1
  <1>6. Is(after)
    BY <1>5
  <1>7. WriteBytes(s, bytes) = after[Len(bytes)]
    BY DEF WriteBytes
  <1> HIDE DEF after
  <1> DEFINE S == {n \in 0 .. Len(bytes) : Keeps(s, after[n])}
  <1>8. 0 \in S
    <2>1. after[0] = s /\ Keeps(s, s)
      BY <1>0, <1>6, FrameSelf DEF Keeps
    <2> QED
      BY <1>0, <2>1
  <1>9. \A n \in 0 .. Len(bytes) - 1 : n \in S => n + 1 \in S
    <2> SUFFICES ASSUME NEW n \in 0 .. Len(bytes) - 1, n \in S PROVE n + 1 \in S
      OBVIOUS
    <2>1. n + 1 \in 0 .. Len(bytes) /\ n + 1 \in 1 .. Len(bytes) /\ n + 1 # 0 /\ (n + 1) - 1 = n
      BY <1>0
    <2>2. after[n + 1] = WriteByte(after[n], bytes[n + 1])
      BY <1>6, <2>1
    <2>3. Keeps(s, after[n]) /\ after[n] \in Views
      BY DEF Keeps
    <2>4. Keeps(after[n], WriteByte(after[n], bytes[n + 1]))
      BY <1>1, <2>1, <2>3, WriteByteIs
    <2>5. Keeps(s, after[n + 1])
      BY <2>2, <2>3, <2>4, KeepsTwice
    <2> QED
      BY <2>1, <2>5
  <1>10. 0 .. Len(bytes) \subseteq S
    <2> HIDE DEF S
    <2> QED
      BY <1>0, <1>8, <1>9, UpTo
  <1>11. after[0] = s /\ \A n \in 1 .. Len(bytes) : after[n] = WriteByte(after[n - 1], bytes[n])
    <2>1. ASSUME NEW n \in 0 .. Len(bytes)
          PROVE  after[n] = IF n = 0 THEN s ELSE WriteByte(after[n - 1], bytes[n])
      BY <1>6
    <2>2. 0 \in 0 .. Len(bytes) /\ \A n \in 1 .. Len(bytes) : n \in 0 .. Len(bytes) /\ n # 0
      BY <1>0
    <2> QED
      BY <2>1, <2>2
  <1>12. ByteRun(after, bytes, s)
    BY <1>7, <1>10, <1>11 DEF ByteRun
  <1> QED
    BY <1>12

\* What a write leaves.
LEMMA WriteBytesIs ==
    ASSUME NEW s \in Views, NEW bytes \in Seq(Characters)
    PROVE  Keeps(s, WriteBytes(s, bytes))
  <1>1. PICK f : ByteRun(f, bytes, s)
    BY WriteBytesRuns
  <1>2. Len(bytes) \in 0 .. Len(bytes)
    OBVIOUS
  <1> QED
    BY <1>1, <1>2 DEF ByteRun

\* A write holds characters.
LEMMA ChunkIs ==
    ASSUME NEW chunk \in Chunks
    PROVE  chunk \in Seq(Characters)
  <1>1. chunk \in Seq(Range(chunk)) /\ Range(chunk) \subseteq Characters
    BY TerminalsAssumption DEF Characters
  <1> QED
    BY <1>1

----------------------------------------------------------------------------
(***************************************************************************)
(* The terminals.                                                          *)
(***************************************************************************)
Fields == {"x", "y", "x_store", "y_store", "attr", "noecho", "canon", "onVga",
           "state", "buf", "args"}

TermsAt ==
    [x : Columns, y : Rows, x_store : Columns, y_store : Rows, attr : Attributes,
     noecho : Flags, canon : Flags, onVga : Flags,
     state : States, buf : Buffers, args : Arglists]

\* The same set, with names for the parts.
LEMMA TermSetIs == TermSet = TermsAt
  BY DEF TermSet, TermsAt, Columns, Rows, Attributes, Flags, States, Buffers, Arglists, Digits

\* The fields of a terminal, taken from a view.
LEMMA FieldsOf ==
    ASSUME NEW w \in TermsAt, NEW s \in Views
    PROVE  LET q == [field \in DOMAIN w |-> s[field]]
           IN  q \in TermsAt /\ q.x = s.x /\ q.y = s.y /\ q.onVga = s.onVga
  <1> DEFINE q == [field \in DOMAIN w |-> s[field]]
  <1>1. DOMAIN w = Fields
    BY DEF TermsAt, Fields
  <1>2. q = [field \in Fields |-> s[field]]
    BY <1>1
  <1>3. q = [x |-> s.x, y |-> s.y, x_store |-> s.x_store, y_store |-> s.y_store, attr |-> s.attr,
             noecho |-> s.noecho, canon |-> s.canon, onVga |-> s.onVga,
             state |-> s.state, buf |-> s.buf, args |-> s.args]
    BY <1>2 DEF Fields
  <1> HIDE DEF q
  <1>4. q \in TermsAt
    BY <1>3 DEF TermsAt, Views, ViewsAt
  <1>5. q.x = s.x /\ q.y = s.y /\ q.onVga = s.onVga
    BY <1>3
  <1> QED
    BY <1>4, <1>5 DEF q

\* The view of a terminal.
LEMMA SeenIs ==
    ASSUME NEW w \in TermsAt, NEW m \in Memory, NEW d \in Flags, NEW h \in Positions, NEW v \in Flags
    PROVE  LET s == Seen(w, m, d, h, v)
           IN  /\ s \in Views
               /\ s.x = w.x /\ s.y = w.y /\ s.onVga = w.onVga
               /\ s.mem = m /\ s.displayed = d /\ s.hw = h
  <1>1. Seen(w, m, d, h, v) \in Views
    BY DEF Seen, Views, ViewsAt, TermsAt
  <1> QED
    BY <1>1 DEF Seen

\* The types, with names for the parts.
LEMMA Typed ==
    ASSUME TerminalsType
    PROVE  /\ terms \in [Terms -> TermsAt] /\ cur_term_ind \in Terms /\ cur_term \in Terms
           /\ video_mem \in Memory /\ video_buffer \in [Terms -> Memory]
           /\ hw \in Positions /\ cursorShown \in Flags
  BY TermSetIs DEF TerminalsType, Positions, Flags

MemoryOf(t) == IF terms[t].onVga THEN video_mem ELSE video_buffer[t]

\* Terminal t as the operations see it.
LEMMA ViewIs ==
    ASSUME TerminalsType, NEW t \in Terms
    PROVE  /\ View(t) \in Views
           /\ View(t).x = terms[t].x /\ View(t).y = terms[t].y /\ View(t).onVga = terms[t].onVga
           /\ View(t).mem = MemoryOf(t) /\ View(t).displayed = (t = cur_term_ind)
           /\ View(t).hw = hw
  <1>1. terms[t] \in TermsAt /\ MemoryOf(t) \in Memory /\ hw \in Positions /\ cursorShown \in Flags
    BY Typed DEF MemoryOf
  <1>2. (t = cur_term_ind) \in Flags
    BY DEF Flags
  <1>3. PICK d \in Flags : d = (t = cur_term_ind)
    BY <1>2, Zenon
  <1>4. View(t) = Seen(terms[t], MemoryOf(t), d, hw, cursorShown)
    BY <1>3, Zenon DEF View, MemoryOf
  <1> DEFINE s == Seen(terms[t], MemoryOf(t), d, hw, cursorShown)
  <1>5. /\ s \in Views /\ s.x = terms[t].x /\ s.y = terms[t].y /\ s.onVga = terms[t].onVga
        /\ s.mem = MemoryOf(t) /\ s.displayed = d /\ s.hw = hw
    BY <1>1, SeenIs
  <1> HIDE DEF s
  <1>6. View(t) = s
    BY <1>4 DEF s
  <1>7. View(t).displayed = (t = cur_term_ind)
    BY <1>3, <1>5, <1>6, Zenon
  <1> QED
    BY <1>5, <1>6, <1>7, Zenon

\* What a write to terminal t does, from what it leaves of its view.
Written(t, s) ==
    /\ s \in Views /\ s.onVga = terms[t].onVga /\ s.shown \in Flags
    /\ t # cur_term_ind => s.hw = hw
    /\ t = cur_term_ind => s.hw = <<s.x, s.y>> \/ (s.hw = hw /\ s.x = terms[t].x /\ s.y = terms[t].y)
    /\ terms' = [terms EXCEPT ![t] = [field \in DOMAIN terms[t] |-> s[field]]]
    /\ video_mem' = IF s.onVga THEN s.mem ELSE video_mem
    /\ video_buffer' = IF s.onVga THEN video_buffer ELSE [video_buffer EXCEPT ![t] = s.mem]
    /\ hw' = s.hw /\ cursorShown' = s.shown
    /\ cur_term' = t /\ cur_term_ind' = cur_term_ind

\* term_write is such a write.
LEMMA WriteIs ==
    ASSUME TerminalsType, NEW t \in Terms, term_write(t)
    PROVE  \E chunk \in Chunks : /\ Written(t, WriteBytes(View(t), chunk))
                                 /\ sent' = [sent EXCEPT ![t] = sent[t] \o chunk]
  <1>1. PICK chunk \in Chunks :
          LET s == WriteBytes(View(t), chunk)
          IN  /\ terms' = [terms EXCEPT ![t] = [field \in DOMAIN terms[t] |-> s[field]]]
              /\ video_mem' = IF s.onVga THEN s.mem ELSE video_mem
              /\ video_buffer' = IF s.onVga THEN video_buffer
                                 ELSE [video_buffer EXCEPT ![t] = s.mem]
              /\ hw' = s.hw /\ cursorShown' = s.shown
              /\ sent' = [sent EXCEPT ![t] = sent[t] \o chunk]
    BY Typed DEF term_write
  <1> DEFINE s == WriteBytes(View(t), chunk)
  <1>2. Keeps(View(t), s)
    BY ViewIs, ChunkIs, WriteBytesIs
  <1>3. /\ terms' = [terms EXCEPT ![t] = [field \in DOMAIN terms[t] |-> s[field]]]
        /\ video_mem' = IF s.onVga THEN s.mem ELSE video_mem
        /\ video_buffer' = IF s.onVga THEN video_buffer ELSE [video_buffer EXCEPT ![t] = s.mem]
        /\ hw' = s.hw /\ cursorShown' = s.shown
        /\ sent' = [sent EXCEPT ![t] = sent[t] \o chunk]
    BY <1>1
  <1>4. cur_term' = t /\ cur_term_ind' = cur_term_ind
    BY DEF term_write
  <1> HIDE DEF s
  <1>5. s \in Views /\ s.onVga = terms[t].onVga /\ s.shown \in Flags
    BY <1>2, ViewIs DEF Keeps, Frame, Views, ViewsAt
  <1>6. Frame(View(t), s) /\ View(t).hw = hw /\ View(t).x = terms[t].x /\ View(t).y = terms[t].y
        /\ View(t).displayed = (t = cur_term_ind)
    BY <1>2, ViewIs, Zenon DEF Keeps
  <1>7. t # cur_term_ind => s.hw = hw
    BY <1>6, Zenon DEF Frame
  <1>8. t = cur_term_ind => s.hw = <<s.x, s.y>> \/ (s.hw = hw /\ s.x = terms[t].x /\ s.y = terms[t].y)
    BY <1>6, Zenon DEF Frame
  <1>9. Written(t, s)
    BY <1>3, <1>4, <1>5, <1>7, <1>8 DEF Written
  <1> QED
    BY <1>3, <1>9 DEF s

\* Which terminal is in video memory, and where the cursors are.
LEMMA WriteLeaves ==
    ASSUME TerminalsType, NEW t \in Terms, NEW s, Written(t, s)
    PROVE  /\ terms' \in [Terms -> TermsAt]
           /\ terms'[t].x = s.x /\ terms'[t].y = s.y /\ terms'[t].onVga = terms[t].onVga
           /\ \A u \in Terms \ {t} : terms'[u] = terms[u]
  <1> DEFINE q == [field \in DOMAIN terms[t] |-> s[field]]
  <1>1. terms \in [Terms -> TermsAt] /\ s \in Views
    BY Typed DEF Written
  <1>2. terms[t] \in TermsAt
    BY <1>1
  <1>3. q \in TermsAt /\ q.x = s.x /\ q.y = s.y /\ q.onVga = s.onVga
    BY <1>1, <1>2, FieldsOf
  <1>4. terms' = [terms EXCEPT ![t] = q] /\ s.onVga = terms[t].onVga
    BY DEF Written
  <1> HIDE DEF q
  <1> QED
    BY <1>1, <1>3, <1>4

\* A write keeps the types.
LEMMA WriteTyped ==
    ASSUME TerminalsType, NEW t \in Terms, NEW s, Written(t, s)
    PROVE  TerminalsType'
  <1>1. terms' \in [Terms -> TermSet]
    BY WriteLeaves, TermSetIs
  <1>2. s.mem \in Memory /\ s.hw \in Int \X Int /\ s.shown \in BOOLEAN
    BY DEF Written, Views, ViewsAt, Positions, Flags
  <1>3. video_mem' \in Memory /\ video_buffer' \in [Terms -> Memory]
    BY <1>2, Typed DEF Written
  <1>4. hw' \in Int \X Int /\ cursorShown' \in BOOLEAN
    BY <1>2 DEF Written
  <1>5. cur_term_ind' \in Terms /\ cur_term' \in Terms
    BY Typed DEF Written
  <1> QED
    BY <1>1, <1>3, <1>4, <1>5 DEF TerminalsType

\* A write keeps the cursor of the monitor right.
LEMMA WriteCursor ==
    ASSUME TerminalsType, CursorOfDisplayed, NEW t \in Terms, NEW s, Written(t, s)
    PROVE  CursorOfDisplayed'
  <1>1. /\ terms' \in [Terms -> TermsAt]
        /\ terms'[t].x = s.x /\ terms'[t].y = s.y /\ terms'[t].onVga = terms[t].onVga
        /\ \A u \in Terms \ {t} : terms'[u] = terms[u]
    BY WriteLeaves
  <1>2. cur_term_ind' = cur_term_ind /\ cur_term_ind \in Terms /\ hw' = s.hw
    BY Typed DEF Written
  <1>3. \/ hw' = <<terms'[cur_term_ind].x, terms'[cur_term_ind].y>>
        \/ hw' = BootPos /\ cur_term_ind = 0 /\ terms'[0].x = 0 /\ terms'[0].y = 0
    <2>1. CASE t = cur_term_ind
      BY <1>1, <1>2, <2>1 DEF Written, CursorOfDisplayed
    <2>2. CASE t # cur_term_ind
      <3>1. s.hw = hw /\ terms'[cur_term_ind] = terms[cur_term_ind]
        BY <1>1, <1>2, <2>2 DEF Written
      <3> QED
        BY <1>2, <3>1 DEF CursorOfDisplayed
    <2> QED
      BY <2>1, <2>2
  <1>4. \A u \in Terms : terms'[u].onVga <=> u = cur_term_ind
    BY <1>1 DEF CursorOfDisplayed
  <1>5. \A u \in Terms : terms'[u].x \in 0 .. NUM_COLS - 1 /\ terms'[u].y \in 0 .. NUM_ROWS - 1
    BY <1>1 DEF TermsAt, Columns, Rows
  <1> QED
    BY <1>2, <1>3, <1>4, <1>5 DEF CursorOfDisplayed, BootPos

\* What a switch to terminal ind does.
Switched(ind) ==
    /\ ind # cur_term_ind
    /\ video_buffer' = [video_buffer EXCEPT ![cur_term_ind] = video_mem]
    /\ video_mem' = video_buffer[ind]
    /\ terms' \in [Terms -> TermsAt]
    /\ \A t \in Terms : /\ terms'[t].x = terms[t].x /\ terms'[t].y = terms[t].y
                        /\ terms'[t].onVga <=> t = ind
                        /\ [terms'[t] EXCEPT !.onVga = FALSE] = [terms[t] EXCEPT !.onVga = FALSE]
    /\ cur_term_ind' = ind /\ cur_term' = ind
    /\ hw' = <<terms[ind].x, terms[ind].y>> /\ cursorShown' = cursorShown

\* A terminal enters or leaves video memory.
LEMMA SetOnVga ==
    ASSUME NEW w \in TermsAt, NEW b \in Flags
    PROVE  LET q == [w EXCEPT !.onVga = b]
           IN  /\ q \in TermsAt /\ q.x = w.x /\ q.y = w.y /\ q.onVga = b
               /\ [q EXCEPT !.onVga = FALSE] = [w EXCEPT !.onVga = FALSE]
  <1> DEFINE q == [w EXCEPT !.onVga = b]
  <1>1. q \in TermsAt /\ q.x = w.x /\ q.y = w.y /\ q.onVga = b
    BY DEF TermsAt
  <1>2. [q EXCEPT !.onVga = FALSE] = [w EXCEPT !.onVga = FALSE]
    BY DEF TermsAt
  <1> QED
    BY <1>1, <1>2

\* switch_term is such a switch.
LEMMA SwitchIs ==
    ASSUME TerminalsType, CursorOfDisplayed, NEW ind \in Terms, switch_term(ind)
    PROVE  Switched(ind)
  <1> DEFINE old == cur_term_ind
             p == [terms[old] EXCEPT !.onVga = FALSE]
             q == [terms[ind] EXCEPT !.onVga = TRUE]
  <1>1. ind # old /\ old \in Terms /\ video_buffer \in [Terms -> Memory] /\ terms \in [Terms -> TermsAt]
    BY Typed DEF switch_term, PutOn
  <1>2. /\ video_buffer' = [video_buffer EXCEPT ![old] = video_mem]
        /\ video_mem' = [video_buffer EXCEPT ![old] = video_mem][ind]
    BY DEF switch_term, PutOn
  <1>3. video_mem' = video_buffer[ind]
    BY <1>1, <1>2
  <1>4. terms' = [terms EXCEPT ![old] = p, ![ind] = q]
    BY <1>1 DEF switch_term, PutOn
  <1>5. terms[old] \in TermsAt /\ terms[ind] \in TermsAt /\ TRUE \in Flags /\ FALSE \in Flags
    BY <1>1 DEF Flags
  <1>6. /\ p \in TermsAt /\ p.x = terms[old].x /\ p.y = terms[old].y /\ p.onVga = FALSE
        /\ [p EXCEPT !.onVga = FALSE] = [terms[old] EXCEPT !.onVga = FALSE]
    BY <1>5, SetOnVga, Zenon
  <1>7. /\ q \in TermsAt /\ q.x = terms[ind].x /\ q.y = terms[ind].y /\ q.onVga = TRUE
        /\ [q EXCEPT !.onVga = FALSE] = [terms[ind] EXCEPT !.onVga = FALSE]
    BY <1>5, SetOnVga, Zenon
  <1> HIDE DEF p, q
  <1>8. /\ terms' \in [Terms -> TermsAt] /\ terms'[old] = p /\ terms'[ind] = q
        /\ \A t \in Terms \ {old, ind} : terms'[t] = terms[t]
    BY <1>1, <1>4, <1>6, <1>7
  <1>9. ASSUME NEW t \in Terms
        PROVE  /\ terms'[t].x = terms[t].x /\ terms'[t].y = terms[t].y
               /\ terms'[t].onVga <=> t = ind
               /\ [terms'[t] EXCEPT !.onVga = FALSE] = [terms[t] EXCEPT !.onVga = FALSE]
    <2>1. CASE t = old
      BY <1>1, <1>6, <1>8, <2>1, Zenon
    <2>2. CASE t = ind
      BY <1>7, <1>8, <2>2, Zenon
    <2>3. CASE t # old /\ t # ind
      <3>1. terms'[t] = terms[t] /\ ~terms[t].onVga
        BY <1>8, <2>3 DEF CursorOfDisplayed
      <3> QED
        BY <2>3, <3>1, Zenon
    <2> QED
      BY <2>1, <2>2, <2>3
  <1>10. /\ cur_term_ind' = ind /\ cur_term' = ind
         /\ hw' = <<terms[ind].x, terms[ind].y>> /\ cursorShown' = cursorShown
    BY DEF switch_term, PutOn
  <1> QED
    BY <1>1, <1>2, <1>3, <1>8, <1>9, <1>10 DEF Switched

\* A switch keeps the invariant.
LEMMA SwitchInv ==
    ASSUME TerminalsType, CursorOfDisplayed, NEW ind \in Terms, Switched(ind)
    PROVE  TerminalsType' /\ CursorOfDisplayed'
  <1>1. terms' \in [Terms -> TermSet]
    BY TermSetIs DEF Switched
  <1>2. video_mem' \in Memory /\ video_buffer' \in [Terms -> Memory]
    BY Typed DEF Switched
  <1>3. terms[ind].x \in Int /\ terms[ind].y \in Int
    <2>1. terms[ind] \in TermsAt
      BY Typed
    <2> QED
      BY <2>1, Sizes DEF TermsAt, Columns, Rows
  <1>4. hw' \in Int \X Int /\ cursorShown' \in BOOLEAN /\ cur_term_ind' \in Terms /\ cur_term' \in Terms
    BY <1>3 DEF Switched, TerminalsType
  <1>5. TerminalsType'
    BY <1>1, <1>2, <1>4 DEF TerminalsType
  <1>6. hw' = <<terms'[ind].x, terms'[ind].y>> /\ cur_term_ind' = ind
    BY DEF Switched
  <1>7. \A t \in Terms : terms'[t].onVga <=> t = ind
    BY DEF Switched
  <1>8. \A t \in Terms : terms'[t].x \in 0 .. NUM_COLS - 1 /\ terms'[t].y \in 0 .. NUM_ROWS - 1
    BY DEF Switched, TermsAt, Columns, Rows
  <1> QED
    BY <1>5, <1>6, <1>7, <1>8 DEF CursorOfDisplayed

IInv == TerminalsType /\ CursorOfDisplayed

\* A terminal at boot.
LEMMA NewTerm ==
    ASSUME NEW x \in Columns, NEW y \in Rows, NEW a \in Attributes, NEW no \in Flags,
           NEW b \in Flags, NEW st \in States, NEW bf \in Buffers, NEW ar \in Arglists
    PROVE  [x |-> x, y |-> y, x_store |-> x, y_store |-> y, attr |-> a,
            noecho |-> no, canon |-> no, onVga |-> b,
            state |-> st, buf |-> bf, args |-> ar] \in TermsAt
  BY DEF TermsAt

\* The invariant holds at first.
LEMMA Begin == Init => IInv
  <1> SUFFICES ASSUME Init PROVE IInv
    OBVIOUS
  <1>1. 0 \in Terms
    BY TerminalsAssumption DEF Terms
  <1>2. <<Blank, DEF_ATTR>> \in Cells
    BY Sizes, CellIs DEF Characters, Attributes
  <1>3. BlankMem \in Memory
    BY <1>2 DEF BlankMem, Memory
  <1>4. 0 \in Columns /\ 0 \in Rows /\ DEF_ATTR \in Attributes /\ FALSE \in Flags
        /\ "IDLE" \in States /\ <<>> \in Buffers /\ <<>> \in Arglists
    BY Sizes DEF Columns, Rows, Attributes, Flags, States, Buffers, Arglists
  <1>5. ASSUME NEW t \in Terms
        PROVE  /\ FreshTerm(t) \in TermsAt /\ FreshTerm(t).x = 0 /\ FreshTerm(t).y = 0
               /\ FreshTerm(t).onVga <=> t = 0
    <2>1. (t = 0) \in Flags
      BY DEF Flags
    <2>2. PICK b \in Flags : b = (t = 0)
      BY <2>1, Zenon
    <2>3. FreshTerm(t) =
            [x |-> 0, y |-> 0, x_store |-> 0, y_store |-> 0, attr |-> DEF_ATTR,
             noecho |-> FALSE, canon |-> FALSE, onVga |-> b,
             state |-> "IDLE", buf |-> <<>>, args |-> <<>>]
      BY <2>2, Zenon DEF FreshTerm
    <2>4. FreshTerm(t) \in TermsAt
      BY <1>4, <2>3, NewTerm, Zenon
    <2>5. FreshTerm(t).x = 0 /\ FreshTerm(t).y = 0 /\ FreshTerm(t).onVga = b
      BY <2>3
    <2>6. FreshTerm(t).onVga <=> t = 0
      BY <2>2, <2>5, Zenon
    <2> QED
      BY <2>4, <2>5, <2>6
  <1>6. terms = [t \in Terms |-> FreshTerm(t)] /\ \A t \in Terms : terms[t] = FreshTerm(t)
    BY DEF Init
  <1>7. terms \in [Terms -> TermSet]
    BY <1>5, <1>6, TermSetIs
  <1>8. TerminalsType
    BY <1>1, <1>3, <1>7 DEF TerminalsType, Init, BootPos
  <1>9. hw = BootPos /\ cur_term_ind = 0 /\ terms[0].x = 0 /\ terms[0].y = 0
    BY <1>1, <1>5, <1>6 DEF Init
  <1>10. \A t \in Terms : terms[t].onVga <=> t = cur_term_ind
    BY <1>5, <1>6, <1>9
  <1>11. \A t \in Terms : terms[t].x \in 0 .. NUM_COLS - 1 /\ terms[t].y \in 0 .. NUM_ROWS - 1
    BY <1>4, <1>5, <1>6 DEF Columns, Rows
  <1>12. CursorOfDisplayed
    BY <1>9, <1>10, <1>11 DEF CursorOfDisplayed
  <1> QED
    BY <1>8, <1>12 DEF IInv

\* Every write and every switch keeps it.
LEMMA Step == IInv /\ [Next]_vars => IInv'
  <1> SUFFICES ASSUME TerminalsType, CursorOfDisplayed, [Next]_vars
               PROVE  TerminalsType' /\ CursorOfDisplayed'
    BY DEF IInv
  <1>1. CASE \E t \in Terms : term_write(t)
    <2>1. PICK t \in Terms : term_write(t)
      BY <1>1
    <2>2. PICK s : Written(t, s)
      BY <2>1, WriteIs
    <2> QED
      BY <2>2, WriteTyped, WriteCursor
  <1>2. CASE \E t \in Terms : switch_term(t)
    BY <1>2, SwitchIs, SwitchInv
  <1>3. CASE UNCHANGED vars
    BY <1>3 DEF vars, TerminalsType, CursorOfDisplayed
  <1> QED
    BY <1>1, <1>2, <1>3 DEF Next

\* The inductive invariant.
LEMMA Invariant == Spec => []IInv
  BY Begin, Step, PTL DEF Spec

\* The cursor of the monitor is that of the displayed terminal, which alone is
\* in video memory, and every cursor is on the screen, whatever is written and
\* whenever the terminal is switched (setpos, scroll, esc_funcs, switch_term).
THEOREM CursorFollows == Spec => []CursorOfDisplayed
  <1>1. IInv => CursorOfDisplayed
    BY DEF IInv
  <1> QED
    BY <1>1, Invariant, PTL

\* A write leaves the other terminals alone.
LEMMA WriteKeepsOthers ==
    ASSUME TerminalsType, CursorOfDisplayed, TerminalsType',
           NEW t \in Terms, NEW u \in Terms, u # t, term_write(t)
    PROVE  Shown(u)' = Shown(u)
  <1>1. PICK s : Written(t, s)
    BY WriteIs
  <1>2. terms'[u] = terms[u]
    BY <1>1, WriteLeaves
  <1>3. s.onVga = terms[t].onVga /\ (terms[t].onVga <=> t = cur_term_ind)
        /\ (terms[u].onVga <=> u = cur_term_ind)
    BY <1>1 DEF Written, CursorOfDisplayed
  <1>4. (MemoryOf(u))' = MemoryOf(u)
    <2>1. CASE s.onVga
      <3>1. ~terms[u].onVga /\ video_buffer' = video_buffer
        BY <1>1, <1>3, <2>1 DEF Written
      <3> QED
        BY <1>2, <3>1 DEF MemoryOf
    <2>2. CASE ~s.onVga
      <3>1. video_mem' = video_mem /\ video_buffer' = [video_buffer EXCEPT ![t] = s.mem]
        BY <1>1, <2>2 DEF Written
      <3>2. video_buffer'[u] = video_buffer[u]
        BY <3>1, Typed
      <3> QED
        BY <1>2, <3>1, <3>2 DEF MemoryOf
    <2> QED
      BY <2>1, <2>2
  <1>5. Shown(u) = <<[terms[u] EXCEPT !.onVga = FALSE], MemoryOf(u)>>
    BY DEF Shown, View, Seen, MemoryOf
  <1>6. Shown(u)' = <<[terms'[u] EXCEPT !.onVga = FALSE], (MemoryOf(u))'>>
    BY DEF Shown, View, Seen, MemoryOf
  <1> QED
    BY <1>2, <1>4, <1>5, <1>6

\* A switch changes where a terminal is, not what it shows.
LEMMA SwitchKeepsAll ==
    ASSUME TerminalsType, CursorOfDisplayed, TerminalsType',
           NEW ind \in Terms, NEW u \in Terms, switch_term(ind)
    PROVE  Shown(u)' = Shown(u)
  <1>1. Switched(ind)
    BY SwitchIs
  <1>2. /\ terms'[u].onVga <=> u = ind
        /\ [terms'[u] EXCEPT !.onVga = FALSE] = [terms[u] EXCEPT !.onVga = FALSE]
        /\ terms[u].onVga <=> u = cur_term_ind
    BY <1>1 DEF Switched, CursorOfDisplayed
  <1>3. /\ ind # cur_term_ind /\ video_mem' = video_buffer[ind]
        /\ video_buffer' = [video_buffer EXCEPT ![cur_term_ind] = video_mem]
        /\ video_buffer \in [Terms -> Memory]
    BY <1>1, Typed DEF Switched
  <1>4. (MemoryOf(u))' = MemoryOf(u)
    <2>1. (MemoryOf(u))' = IF u = ind THEN video_buffer[ind] ELSE video_buffer'[u]
      BY <1>2, <1>3 DEF MemoryOf
    <2>2. MemoryOf(u) = IF u = cur_term_ind THEN video_mem ELSE video_buffer[u]
      BY <1>2 DEF MemoryOf
    <2> QED
      BY <1>3, <2>1, <2>2
  <1>5. Shown(u) = <<[terms[u] EXCEPT !.onVga = FALSE], MemoryOf(u)>>
    BY DEF Shown, View, Seen, MemoryOf
  <1>6. Shown(u)' = <<[terms'[u] EXCEPT !.onVga = FALSE], (MemoryOf(u))'>>
    BY DEF Shown, View, Seen, MemoryOf
  <1> QED
    BY <1>2, <1>4, <1>5, <1>6

\* A write changes nothing of what the other terminals show, and a switch
\* nothing of what any terminal shows, in video memory or in the background
\* buffers (term_write, switch_term).
THEOREM WritesAreApart == Spec => OthersKept
  <1>1. ASSUME IInv, [Next]_vars
        PROVE  [\A t, u \in Terms : (u # t /\ term_write(t)) \/ switch_term(t)
                   => Shown(u)' = Shown(u)]_vars
    <2>1. TerminalsType /\ CursorOfDisplayed /\ TerminalsType'
      BY <1>1, Step DEF IInv
    <2>2. \A t, u \in Terms : (u # t /\ term_write(t)) \/ switch_term(t) => Shown(u)' = Shown(u)
      BY <2>1, WriteKeepsOthers, SwitchKeepsAll
    <2> QED
      BY <2>2
  <1> QED
    BY <1>1, Invariant, PTL DEF Spec, OthersKept

----------------------------------------------------------------------------
(***************************************************************************)
(* Plain text.  First what the operations print, cell by cell.             *)
(***************************************************************************)
\* The parts of a view that text changes, and the state of the parser.
Reads(r, x, y, m, st) == r \in Views /\ r.x = x /\ r.y = y /\ r.mem = m /\ r.state = st

\* setpos within the screen goes where it is told.
LEMMA SetPosTo ==
    ASSUME NEW s \in Wide, NEW x \in Columns, NEW y \in Rows
    PROVE  Reads(setpos(x, y, s), x, y, s.mem, s.state)
  <1>1. x \in Int /\ y \in Int /\ <<x, y>> \in Positions
    BY Sizes DEF Columns, Rows, Positions
  <1>2. Clamp(x, NUM_COLS) = x /\ Clamp(y, NUM_ROWS) = y
    BY Sizes DEF Columns, Rows, Clamp
  <1>3. PICK h \in Positions : h = IF s.displayed THEN <<x, y>> ELSE s.hw
    BY <1>1 DEF Wide, ViewsAt
  <1> DEFINE r == [s EXCEPT !.x = x, !.y = y, !.hw = h]
  <1>4. setpos(x, y, s) = r
    BY <1>2, <1>3 DEF setpos
  <1>5. r \in Views
    BY DEF Views, Wide, ViewsAt
  <1>6. r.x = x /\ r.y = y /\ r.mem = s.mem /\ r.state = s.state
    BY DEF Wide, ViewsAt
  <1> HIDE DEF r
  <1> QED
    BY <1>4, <1>5, <1>6 DEF Reads

\* Memory after scrolling a row.
Scrolled(m) ==
    [i \in VidCells |-> IF i + NUM_COLS \in VidCells THEN m[i + NUM_COLS] ELSE <<Blank, DEF_ATTR>>]

\* It is memory.
LEMMA ScrolledIs ==
    ASSUME NEW m \in Memory
    PROVE  Scrolled(m) \in Memory
  <1>1. <<Blank, DEF_ATTR>> \in Cells
    BY Sizes, CellIs DEF Characters, Attributes
  <1> QED
    BY <1>1 DEF Scrolled, Memory

\* scroll shifts memory by a row.
LEMMA ScrollTo ==
    ASSUME NEW s \in Wide
    PROVE  scroll(s) \in Views /\ scroll(s).mem = Scrolled(s.mem) /\ scroll(s).state = s.state
  <1> DEFINE t == [s EXCEPT !.mem = Scrolled(s.mem)]
             cx == Clamp(s.x, NUM_COLS)
             cy == Clamp(s.y - 1, NUM_ROWS)
             r == [t EXCEPT !.x = cx, !.y = cy, !.hw = IF t.displayed THEN <<cx, cy>> ELSE t.hw]
  <1>1. scroll(s) = r
    BY DEF scroll, setpos, Scrolled
  <1>2. t.mem = Scrolled(s.mem) /\ t.state = s.state
    BY DEF Wide, ViewsAt
  <1>3. r.mem = t.mem /\ r.state = t.state
    BY DEF Wide, ViewsAt
  <1>4. scroll(s) \in Views
    BY Scroll
  <1> HIDE DEF r, t
  <1> QED
    BY <1>1, <1>2, <1>3, <1>4

\* Entering a row of the screen moves the cursor; entering the one below it
\* scrolls.
LEMMA EnterRowTo ==
    ASSUME NEW s \in Views, NEW x \in Columns, NEW y \in Nat, y <= NUM_ROWS
    PROVE  IF y < NUM_ROWS THEN Reads(EnterRow(x, y, s), x, y, s.mem, s.state)
           ELSE Reads(EnterRow(x, y, s), x, NUM_ROWS - 1, Scrolled(s.mem), s.state)
  <1>1. s \in Wide /\ x \in Int /\ y \in Int
    BY CursorIs, Sizes DEF Columns
  <1>2. CASE y < NUM_ROWS
    <2>1. y \in Rows /\ EnterRow(x, y, s) = setpos(x, y, s)
      BY <1>2, Sizes DEF Rows, EnterRow
    <2> QED
      BY <1>1, <1>2, <2>1, SetPosTo
  <1>3. CASE ~(y < NUM_ROWS)
    <2> DEFINE t == [s EXCEPT !.x = x, !.y = y]
               u == scroll(t)
    <2>1. EnterRow(x, y, s) = setpos(x, NUM_ROWS - 1, u)
      BY <1>3 DEF EnterRow
    <2>2. t \in Wide
      BY <1>1, Moved
    <2>3. t.mem = s.mem /\ t.state = s.state
      BY DEF Views, ViewsAt
    <2> HIDE DEF t
    <2>4. u \in Views /\ u.mem = Scrolled(s.mem) /\ u.state = s.state
      BY <2>2, <2>3, ScrollTo
    <2> HIDE DEF u
    <2>5. u \in Wide /\ NUM_ROWS - 1 \in Rows
      BY <2>4, CursorIs, Sizes DEF Rows
    <2>6. Reads(setpos(x, NUM_ROWS - 1, u), x, NUM_ROWS - 1, u.mem, u.state)
      BY <2>5, SetPosTo
    <2> QED
      BY <1>3, <2>1, <2>4, <2>6
  <1> QED
    BY <1>2, <1>3

\* Cells of the screen by row and column.
CellOf(x, y) == NUM_COLS * y + x

\* They are cells, and apart.
LEMMA CellsApart ==
    ASSUME NEW x \in Columns, NEW y \in Rows
    PROVE  /\ CellOf(x, y) \in VidCells /\ CellOf(x, y) \in Nat
           /\ y + 1 < NUM_ROWS => CellOf(x, y) + NUM_COLS = CellOf(x, y + 1)
           /\ y + 1 = NUM_ROWS => CellOf(x, y) + NUM_COLS \notin VidCells
           /\ \A u \in Columns, v \in Rows : CellOf(u, v) = CellOf(x, y) => u = x /\ v = y
  <1>1. NUM_COLS \in Nat /\ NUM_ROWS \in Nat /\ NUM_COLS >= 1 /\ x \in Nat /\ x < NUM_COLS
        /\ y \in Nat /\ y + 1 <= NUM_ROWS
    BY Sizes DEF Columns, Rows
  <1>2. NUM_COLS * y \in Nat /\ NUM_COLS * NUM_ROWS \in Nat
    BY <1>1
  <1>3. NUM_COLS * (y + 1) = NUM_COLS * y + NUM_COLS
    BY <1>1
  <1>4. NUM_COLS * (y + 1) <= NUM_COLS * NUM_ROWS
    BY <1>1
  <1>5. CellOf(x, y) \in VidCells /\ CellOf(x, y) \in Nat
    BY <1>1, <1>2, <1>3, <1>4 DEF CellOf, VidCells
  <1>6. y + 1 < NUM_ROWS => CellOf(x, y) + NUM_COLS = CellOf(x, y + 1)
    BY <1>1, <1>2, <1>3 DEF CellOf
  <1>7. y + 1 = NUM_ROWS => CellOf(x, y) + NUM_COLS \notin VidCells
    <2>1. y + 1 = NUM_ROWS => NUM_COLS * NUM_ROWS = NUM_COLS * y + NUM_COLS
      BY <1>3
    <2> QED
      BY <1>1, <1>2, <2>1 DEF CellOf, VidCells
  <1>8. ASSUME NEW u \in Columns, NEW v \in Rows, CellOf(u, v) = CellOf(x, y)
        PROVE  u = x /\ v = y
    <2>1. u \in Nat /\ u < NUM_COLS /\ v \in Nat
      BY <1>1 DEF Columns, Rows
    <2>2. PICK a \in Nat, b \in Nat : a = NUM_COLS * y /\ b = NUM_COLS * v
      BY <1>1, <2>1
    <2>3. b + u = a + x
      BY <1>8, <2>2 DEF CellOf
    <2>4. v < y => b + NUM_COLS <= a
      <3>1. v < y => NUM_COLS * (v + 1) <= NUM_COLS * y /\ NUM_COLS * (v + 1) = NUM_COLS * v + NUM_COLS
        BY <1>1, <2>1
      <3> QED
        BY <2>2, <3>1
    <2>5. y < v => a + NUM_COLS <= b
      <3>1. y < v => NUM_COLS * (y + 1) <= NUM_COLS * v
        BY <1>1, <2>1
      <3> QED
        BY <1>3, <2>2, <3>1
    <2>6. v = y
      BY <1>1, <2>1, <2>2, <2>3, <2>4, <2>5
    <2>7. a = b
      BY <2>2, <2>6
    <2> QED
      BY <1>1, <2>1, <2>2, <2>3, <2>6, <2>7
  <1> QED
    BY <1>5, <1>6, <1>7, <1>8

\* Where the cursor goes on an endless sheet.
SheetNext(c, p) ==
    CASE c = NL -> <<0, p[2] + 1>>
      [] c = CR -> <<0, p[2]>>
      [] OTHER -> IF p[1] + 1 = NUM_COLS THEN <<0, p[2] + 1>> ELSE <<p[1] + 1, p[2]>>

\* From x, y to u, v, and the same way in the rows below.
Goes(c, x, y, u, v) ==
    /\ v \in {y, y + 1} /\ SheetNext(c, <<x, y>>) = <<u, v>>
    /\ \A k \in Nat : SheetNext(c, <<x, y + k>>) = <<u, v + k>>

\* It stays on the sheet and goes down a row at most.
LEMMA SheetNextIs ==
    ASSUME NEW c, NEW x \in Columns, NEW y \in Nat
    PROVE  \E u \in Columns, v \in Nat : Goes(c, x, y, u, v)
  <1>1. NUM_COLS \in Nat /\ NUM_COLS >= 1 /\ x \in Nat /\ x + 1 <= NUM_COLS /\ 0 \in Columns
    BY Sizes DEF Columns
  <1>2. CASE c = NL
    <2>1. \A k \in Nat : SheetNext(c, <<x, y + k>>) = <<0, y + k + 1>>
      BY <1>2, ScreenAssumption DEF SheetNext
    <2>2. SheetNext(c, <<x, y>>) = <<0, y + 1>>
      BY <1>2, ScreenAssumption DEF SheetNext
    <2>3. \A k \in Nat : y + k + 1 = (y + 1) + k
      OBVIOUS
    <2> QED
      BY <1>1, <2>1, <2>2, <2>3 DEF Goes
  <1>3. CASE c = CR
    <2>1. \A k \in Nat : SheetNext(c, <<x, y + k>>) = <<0, y + k>>
      BY <1>3, ScreenAssumption DEF SheetNext
    <2>2. SheetNext(c, <<x, y>>) = <<0, y>>
      BY <1>3, ScreenAssumption DEF SheetNext
    <2> QED
      BY <1>1, <2>1, <2>2 DEF Goes
  <1>4. CASE c # NL /\ c # CR /\ x + 1 = NUM_COLS
    <2>1. \A k \in Nat : SheetNext(c, <<x, y + k>>) = <<0, y + k + 1>>
      BY <1>4 DEF SheetNext
    <2>2. SheetNext(c, <<x, y>>) = <<0, y + 1>>
      BY <1>4 DEF SheetNext
    <2>3. \A k \in Nat : y + k + 1 = (y + 1) + k
      OBVIOUS
    <2> QED
      BY <1>1, <2>1, <2>2, <2>3 DEF Goes
  <1>5. CASE c # NL /\ c # CR /\ x + 1 # NUM_COLS
    <2>1. \A k \in Nat : SheetNext(c, <<x, y + k>>) = <<x + 1, y + k>>
      BY <1>5 DEF SheetNext
    <2>2. SheetNext(c, <<x, y>>) = <<x + 1, y>>
      BY <1>5 DEF SheetNext
    <2>3. x + 1 \in Columns
      BY <1>1, <1>5 DEF Columns
    <2> QED
      BY <2>1, <2>2, <2>3 DEF Goes
  <1> QED
    BY <1>2, <1>3, <1>4, <1>5

\* What a character leaves in the cell of the cursor.
Stored(c, s) ==
    IF c \in {NL, CR} THEN s.mem ELSE [s.mem EXCEPT ![CellOf(s.x, s.y)] = <<c, s.attr>>]

\* putc stores the character and goes on as on a sheet, scrolling at the end.
LEMMA PutcTo ==
    ASSUME NEW s \in Views, NEW c \in Characters, c # BS,
           NEW u \in Columns, NEW v \in Nat, SheetNext(c, <<s.x, s.y>>) = <<u, v>>
    PROVE  /\ Stored(c, s) \in Memory /\ v <= NUM_ROWS
           /\ IF v < NUM_ROWS THEN Reads(putc(c, s), u, v, Stored(c, s), s.state)
              ELSE Reads(putc(c, s), u, NUM_ROWS - 1, Scrolled(Stored(c, s)), s.state)
  <1>1. /\ s \in Wide /\ s.x \in Columns /\ s.y \in Rows /\ s.x \in Nat /\ s.y \in Nat /\ s.y + 1 <= NUM_ROWS
        /\ s.x + 1 <= NUM_COLS /\ 0 \in Columns /\ NUM_COLS \in Nat /\ NUM_ROWS \in Nat
    BY CursorIs, Sizes DEF Columns, Rows
  <1>2. s.mem \in Memory /\ <<c, s.attr>> \in Cells
    BY CellIs DEF Views, ViewsAt
  <1>3. Stored(c, s) \in Memory
    BY <1>2 DEF Stored, Memory
  <1>4. CASE c = NL
    <2>1. u = 0 /\ v = s.y + 1 /\ putc(c, s) = EnterRow(0, s.y + 1, s) /\ Stored(c, s) = s.mem
      BY <1>4, ScreenAssumption DEF SheetNext, putc, Stored
    <2>2. v \in Nat /\ v <= NUM_ROWS
      BY <1>1, <2>1
    <2>3. putc(c, s) = EnterRow(u, v, s)
      BY <2>1, Zenon
    <2> QED
      BY <1>3, <2>1, <2>2, <2>3, EnterRowTo
  <1>5. CASE c = CR
    <2>1. u = 0 /\ v = s.y /\ putc(c, s) = setpos(0, s.y, s) /\ Stored(c, s) = s.mem
      BY <1>5, ScreenAssumption DEF SheetNext, putc, Stored
    <2>2. v < NUM_ROWS
      BY <1>1, <2>1
    <2>3. Reads(setpos(0, s.y, s), 0, s.y, s.mem, s.state)
      BY <1>1, SetPosTo
    <2> QED
      BY <1>1, <1>3, <2>1, <2>2, <2>3
  <1>6. CASE c # NL /\ c # CR
    <2> DEFINE b == set_vid_char(s.x, s.y, c, s)
    <2>1. putc(c, s) = Advance(b)
      BY <1>6, Zenon DEF putc
    <2>2. b \in Views
      BY SetVidChar
    <2>3. b.mem = Stored(c, s) /\ b.x = s.x /\ b.y = s.y /\ b.state = s.state
      <3>1. b = [s EXCEPT !.mem[NUM_COLS * s.y + s.x] = <<c, s.attr>>]
        BY <1>1 DEF set_vid_char, Columns, Rows
      <3>2. b.mem = [s.mem EXCEPT ![CellOf(s.x, s.y)] = <<c, s.attr>>]
        BY <3>1 DEF Views, ViewsAt, CellOf
      <3>3. b.x = s.x /\ b.y = s.y /\ b.state = s.state
        BY <3>1 DEF Views, ViewsAt
      <3> HIDE DEF b
      <3> QED
        BY <1>6, <3>2, <3>3 DEF Stored
    <2> HIDE DEF b
    <2>4. CASE s.x + 1 = NUM_COLS
      <3>1. u = 0 /\ v = s.y + 1
        BY <1>6, <2>4 DEF SheetNext
      <3>2. Advance(b) = EnterRow(0, s.y + 1, b)
        BY <1>1, <2>3, <2>4 DEF Advance
      <3>3. v \in Nat /\ v <= NUM_ROWS
        BY <1>1, <3>1
      <3>4. putc(c, s) = EnterRow(u, v, b)
        BY <2>1, <3>1, <3>2, Zenon
      <3> QED
        BY <1>3, <2>2, <2>3, <3>3, <3>4, EnterRowTo
    <2>5. CASE s.x + 1 # NUM_COLS
      <3>1. u = s.x + 1 /\ v = s.y
        BY <1>6, <2>5 DEF SheetNext
      <3>2. Advance(b) = EnterRow(s.x + 1, s.y, b)
        BY <1>1, <2>3, <2>5 DEF Advance
      <3>3. v \in Nat /\ v <= NUM_ROWS
        BY <1>1, <3>1
      <3>4. putc(c, s) = EnterRow(u, v, b)
        BY <2>1, <3>1, <3>2, Zenon
      <3> QED
        BY <1>3, <2>2, <2>3, <3>3, <3>4, EnterRowTo
    <2> QED
      BY <2>4, <2>5
  <1> QED
    BY <1>4, <1>5, <1>6

\* The character in a cell.
CharAt(m, x, y) == m[CellOf(x, y)][1]

\* The characters after storing one.
LEMMA StoredChars ==
    ASSUME NEW s \in Views, NEW c, NEW x \in Columns, NEW y \in Rows
    PROVE  CharAt(Stored(c, s), x, y) =
               IF c \notin {NL, CR} /\ <<s.x, s.y>> = <<x, y>> THEN c ELSE CharAt(s.mem, x, y)
  <1>1. s.x \in Columns /\ s.y \in Rows /\ s.mem \in Memory
    BY DEF Views, ViewsAt
  <1>2. CellOf(x, y) \in VidCells /\ (CellOf(s.x, s.y) = CellOf(x, y) => s.x = x /\ s.y = y)
    BY <1>1, CellsApart
  <1>3. CASE c \in {NL, CR}
    BY <1>3 DEF Stored, CharAt
  <1>4. CASE c \notin {NL, CR} /\ s.x = x /\ s.y = y
    <2>1. Stored(c, s)[CellOf(x, y)] = <<c, s.attr>>
      BY <1>1, <1>2, <1>4 DEF Stored, Memory
    <2> QED
      BY <1>4, <2>1 DEF CharAt
  <1>5. CASE c \notin {NL, CR} /\ ~(s.x = x /\ s.y = y)
    <2>1. Stored(c, s)[CellOf(x, y)] = s.mem[CellOf(x, y)]
      BY <1>1, <1>2, <1>5 DEF Stored, Memory
    <2> QED
      BY <1>5, <2>1 DEF CharAt
  <1> QED
    BY <1>3, <1>4, <1>5

\* The characters after scrolling.
LEMMA ScrolledChars ==
    ASSUME NEW m \in Memory, NEW x \in Columns, NEW y \in Rows
    PROVE  CharAt(Scrolled(m), x, y) = IF y + 1 < NUM_ROWS THEN CharAt(m, x, y + 1) ELSE Blank
  <1>1. y \in Nat /\ NUM_ROWS \in Nat /\ y + 1 <= NUM_ROWS
    BY Sizes DEF Rows
  <1>2. CellOf(x, y) \in VidCells
    BY CellsApart
  <1>3. CASE y + 1 < NUM_ROWS
    <2>1. CellOf(x, y) + NUM_COLS = CellOf(x, y + 1) /\ y + 1 \in Rows
      BY <1>1, <1>3, CellsApart DEF Rows
    <2>2. CellOf(x, y + 1) \in VidCells
      BY <2>1, CellsApart
    <2>3. Scrolled(m)[CellOf(x, y)] = m[CellOf(x, y + 1)]
      BY <1>2, <2>1, <2>2 DEF Scrolled
    <2> QED
      BY <1>3, <2>3 DEF CharAt
  <1>4. CASE y + 1 = NUM_ROWS
    <2>1. CellOf(x, y) + NUM_COLS \notin VidCells
      BY <1>4, CellsApart
    <2>2. Scrolled(m)[CellOf(x, y)] = <<Blank, DEF_ATTR>>
      BY <1>2, <2>1 DEF Scrolled
    <2> QED
      BY <1>1, <1>4, <2>2 DEF CharAt
  <1> QED
    BY <1>1, <1>3, <1>4

----------------------------------------------------------------------------
(***************************************************************************)
(* The sheet.                                                              *)
(***************************************************************************)
Places == Columns \X Nat

\* f is the way of the cursor over the sheet that b is written on.
SheetRun(f, b) ==
    /\ f \in [0 .. Len(b) -> Places] /\ f[0] = <<0, 0>>
    /\ \A n \in 1 .. Len(b) : f[n] = SheetNext(b[n], f[n - 1])

\* A character leaves the cursor on the sheet, at most a row further down.
LEMMA PlacesNext ==
    ASSUME NEW c, NEW p \in Places
    PROVE  SheetNext(c, p) \in Places /\ p[2] \in Nat /\ SheetNext(c, p)[2] \in {p[2], p[2] + 1}
  <1>1. PICK x \in Columns, y \in Nat : p = <<x, y>>
    BY DEF Places
  <1>2. PICK u \in Columns, v \in Nat : v \in {y, y + 1} /\ SheetNext(c, <<x, y>>) = <<u, v>>
    BY SheetNextIs DEF Goes
  <1> QED
    BY <1>1, <1>2 DEF Places

\* Sheet runs over the sheet.
LEMMA SheetIs ==
    ASSUME NEW b \in Seq(Characters)
    PROVE  SheetRun(Sheet(b), b)
  <1> DEFINE D == [p \in Nat \X Places |-> IF p[1] \in 1 .. Len(b) THEN SheetNext(b[p[1]], p[2]) ELSE p[2]]
             Is(g) == g = [n \in 0 .. Len(b) |->
                             IF n = 0 THEN <<0, 0>> ELSE SheetNext(b[n], g[n - 1])]
             pos == CHOOSE g : Is(g)
  <1>0. Len(b) \in Nat /\ <<0, 0>> \in Places
    BY Sizes DEF Places, Columns
  <1>1. D \in [Nat \X Places -> Places]
    <2>1. ASSUME NEW p \in Nat \X Places
          PROVE  (IF p[1] \in 1 .. Len(b) THEN SheetNext(b[p[1]], p[2]) ELSE p[2]) \in Places
      <3>1. p[2] \in Places
        OBVIOUS
      <3>2. SheetNext(b[p[1]], p[2]) \in Places
        BY <3>1, PlacesNext
      <3> QED
        BY <3>1, <3>2
    <2> QED
      BY <2>1
  <1>2. \A n, v : n \in 1 .. Len(b) /\ v \in Places => D[<<n, v>>] = SheetNext(b[n], v)
    BY <1>0
  <1> HIDE DEF D
  <1>3. PICK f \in [0 .. Len(b) -> Places] : Iterates(f, Len(b), <<0, 0>>, D)
    BY <1>0, <1>1, Recursion
  <1>4. Is(f)
    <2>1. ASSUME NEW n \in 0 .. Len(b)
          PROVE  f[n] = IF n = 0 THEN <<0, 0>> ELSE SheetNext(b[n], f[n - 1])
      <3>1. CASE n = 0
        BY <1>3, <3>1 DEF Iterates
      <3>2. CASE n # 0
        <4>1. n \in 1 .. Len(b) /\ n - 1 \in 0 .. Len(b)
          BY <1>0, <3>2
        <4>2. f[n] = D[<<n, f[n - 1]>>] /\ f[n - 1] \in Places
          BY <1>3, <4>1 DEF Iterates
        <4> QED
          BY <1>2, <3>2, <4>1, <4>2
      <3> QED
        BY <3>1, <3>2
    <2> QED
      BY <2>1
  <1>5. Is(pos)
    BY <1>4
  <1>6. Sheet(b) = pos
    BY DEF Sheet, SheetNext
  <1> HIDE DEF pos
  <1>7. pos[0] = <<0, 0>> /\ \A n \in 1 .. Len(b) : pos[n] = SheetNext(b[n], pos[n - 1])
    <2>1. ASSUME NEW n \in 0 .. Len(b)
          PROVE  pos[n] = IF n = 0 THEN <<0, 0>> ELSE SheetNext(b[n], pos[n - 1])
      BY <1>5
    <2>2. 0 \in 0 .. Len(b) /\ \A n \in 1 .. Len(b) : n \in 0 .. Len(b) /\ n # 0
      BY <1>0
    <2> QED
      BY <2>1, <2>2
  <1> DEFINE S == {n \in 0 .. Len(b) : pos[n] \in Places}
  <1>8. 0 \in S
    <2>1. 0 \in 0 .. Len(b) /\ pos[0] \in Places
      BY <1>0, <1>7
    <2> QED
      BY <2>1
  <1>9. \A n \in 0 .. Len(b) - 1 : n \in S => n + 1 \in S
    <2> SUFFICES ASSUME NEW n \in 0 .. Len(b) - 1, n \in S PROVE n + 1 \in S
      OBVIOUS
    <2>1. n + 1 \in 0 .. Len(b) /\ n + 1 \in 1 .. Len(b) /\ (n + 1) - 1 = n
      BY <1>0
    <2>2. pos[n + 1] = SheetNext(b[n + 1], pos[n])
      BY <1>7, <2>1
    <2>3. pos[n + 1] \in Places
      BY <2>2, PlacesNext
    <2> QED
      BY <2>1, <2>3
  <1>10. 0 .. Len(b) \subseteq S
    <2> HIDE DEF S
    <2> QED
      BY <1>0, <1>8, <1>9, UpTo
  <1>11. pos \in [0 .. Len(b) -> Places]
    BY <1>5, <1>7, <1>10
  <1> QED
    BY <1>6, <1>7, <1>11 DEF SheetRun

\* A byte more goes on from the same place.
LEMMA SheetMore ==
    ASSUME NEW b \in Seq(Characters), NEW c \in Characters,
           NEW f, SheetRun(f, b), NEW g, SheetRun(g, Append(b, c))
    PROVE  /\ \A n \in 0 .. Len(b) : g[n] = f[n]
           /\ g[Len(b) + 1] = SheetNext(c, f[Len(b)])
  <1> DEFINE a == Append(b, c)
  <1>1. /\ Len(b) \in Nat /\ Len(a) = Len(b) + 1 /\ a[Len(b) + 1] = c
        /\ \A n \in 1 .. Len(b) : a[n] = b[n]
    OBVIOUS
  <1>2. /\ f[0] = <<0, 0>> /\ \A n \in 1 .. Len(b) : f[n] = SheetNext(b[n], f[n - 1])
        /\ g[0] = <<0, 0>> /\ \A n \in 1 .. Len(a) : g[n] = SheetNext(a[n], g[n - 1])
    BY DEF SheetRun
  <1> HIDE DEF a
  <1> DEFINE S == {n \in 0 .. Len(b) : g[n] = f[n]}
  <1>3. 0 \in S
    BY <1>1, <1>2
  <1>4. \A n \in 0 .. Len(b) - 1 : n \in S => n + 1 \in S
    <2> SUFFICES ASSUME NEW n \in 0 .. Len(b) - 1, n \in S PROVE n + 1 \in S
      OBVIOUS
    <2>1. n + 1 \in 0 .. Len(b) /\ n + 1 \in 1 .. Len(b) /\ (n + 1) - 1 = n /\ n + 1 \in 1 .. Len(a)
      BY <1>1
    <2>2. g[n + 1] = SheetNext(a[n + 1], g[n]) /\ f[n + 1] = SheetNext(b[n + 1], f[n])
      BY <1>2, <2>1
    <2>3. g[n] = f[n] /\ a[n + 1] = b[n + 1]
      BY <1>1, <2>1
    <2> QED
      BY <2>1, <2>2, <2>3
  <1>5. 0 .. Len(b) \subseteq S
    <2> HIDE DEF S
    <2> QED
      BY <1>1, <1>3, <1>4, UpTo
  <1>6. Len(b) \in 0 .. Len(b) /\ Len(b) + 1 \in 1 .. Len(a) /\ (Len(b) + 1) - 1 = Len(b)
    BY <1>1
  <1>7. g[Len(b) + 1] = SheetNext(c, g[Len(b)])
    BY <1>1, <1>2, <1>6
  <1> QED
    BY <1>5, <1>6, <1>7

\* The bytes printed at a place, and what is seen there.
Printed(b, f, x, y) == {n \in 1 .. Len(b) : b[n] \notin {NL, CR} /\ f[n - 1] = <<x, y>>}

LastAt(b, f, x, y) ==
    IF Printed(b, f, x, y) = {} THEN Blank ELSE b[Max(Printed(b, f, x, y))]

\* Max is the greatest element of a bounded set.
LEMMA MaxOf ==
    ASSUME NEW S, S # {}, NEW n \in Nat, S \subseteq 0 .. n
    PROVE  Max(S) \in S /\ \A k \in S : k <= Max(S)
  <1>1. \E m \in S : \A k \in S : k <= m
    BY GreatestNumber
  <1>2. \E m \in S : \A k \in S : m >= k
    BY <1>1
  <1>3. Max(S) \in S /\ \A k \in S : Max(S) >= k
    BY <1>2 DEF Max
  <1> QED
    BY <1>3

\* A byte more is seen where it is printed.
LEMMA LastMore ==
    ASSUME NEW b \in Seq(Characters), NEW c \in Characters,
           NEW f, SheetRun(f, b), NEW g, SheetRun(g, Append(b, c)), NEW x, NEW y
    PROVE  LastAt(Append(b, c), g, x, y) =
               IF c \notin {NL, CR} /\ f[Len(b)] = <<x, y>> THEN c ELSE LastAt(b, f, x, y)
  <1> DEFINE a == Append(b, c)
             P == Printed(b, f, x, y)
             Q == Printed(a, g, x, y)
  <1>0. PICK k \in Nat : k = Len(b) + 1
    OBVIOUS
  <1>1. /\ Len(b) \in Nat /\ Len(a) = k /\ a[k] = c
        /\ \A n \in 1 .. Len(b) : a[n] = b[n]
    BY <1>0
  <1>2. \A n \in 0 .. Len(b) : g[n] = f[n]
    BY SheetMore
  <1> HIDE DEF a
  <1>3. \A n \in 1 .. Len(b) : n \in Q <=> n \in P
    <2> SUFFICES ASSUME NEW n \in 1 .. Len(b) PROVE n \in Q <=> n \in P
      OBVIOUS
    <2>1. n \in 1 .. Len(a) /\ n - 1 \in 0 .. Len(b)
      BY <1>0, <1>1
    <2>2. g[n - 1] = f[n - 1] /\ a[n] = b[n]
      BY <1>1, <1>2, <2>1
    <2> QED
      BY <2>1, <2>2 DEF Printed
  <1>4. k \in Q <=> c \notin {NL, CR} /\ f[Len(b)] = <<x, y>>
    <2>1. k \in 1 .. Len(a) /\ k - 1 = Len(b) /\ g[Len(b)] = f[Len(b)]
      BY <1>0, <1>1, <1>2
    <2> QED
      BY <1>1, <2>1 DEF Printed
  <1>5. Q \subseteq 1 .. k /\ P \subseteq 1 .. Len(b) /\ Q \subseteq 0 .. k /\ P \subseteq 0 .. Len(b)
    BY <1>0, <1>1 DEF Printed
  <1>6. LastAt(a, g, x, y) = (IF Q = {} THEN Blank ELSE a[Max(Q)])
        /\ LastAt(b, f, x, y) = (IF P = {} THEN Blank ELSE b[Max(P)])
    BY DEF LastAt
  <1>7. CASE k \in Q
    <2> HIDE DEF Q, P
    <2>1. Max(Q) \in Q /\ k <= Max(Q)
      BY <1>5, <1>7, MaxOf
    <2>2. Max(Q) = k
      <3>1. Max(Q) \in 1 .. k
        BY <1>5, <2>1
      <3>2. ASSUME NEW m \in 1 .. k, k <= m PROVE m = k
        BY <3>2
      <3> QED
        BY <2>1, <3>1, <3>2
    <2> QED
      BY <1>1, <1>4, <1>6, <1>7, <2>2 DEF a
  <1>8. CASE k \notin Q
    <2>1. Q = P
      <3> HIDE DEF P, Q
      <3> QED
        <4>1. \A n \in 1 .. k : n \in 1 .. Len(b) \/ n = k
          BY <1>0, <1>1
        <4>2. \A n \in 1 .. Len(b) : n \in 1 .. k
          BY <1>0, <1>1
        <4>3. ASSUME NEW n \in Q PROVE n \in P
          BY <1>3, <1>5, <1>8, <4>1
        <4>4. ASSUME NEW n \in P PROVE n \in Q
          BY <1>3, <1>5
        <4> QED
          BY <4>3, <4>4
    <2>2. P # {} => Max(P) \in 1 .. Len(b)
      <3> HIDE DEF P, Q
      <3> QED
        BY <1>1, <1>5, MaxOf
    <2>3. LastAt(a, g, x, y) = LastAt(b, f, x, y)
      <3> HIDE DEF P, Q
      <3> QED
        BY <1>1, <1>6, <2>1, <2>2
    <2> QED
      BY <1>4, <1>8, <2>3 DEF a
  <1> QED
    BY <1>7, <1>8

\* Nothing is printed below the cursor.
LEMMA LastBelow ==
    ASSUME NEW b \in Seq(Characters), NEW f, SheetRun(f, b), NEW x, NEW y \in Nat,
           \A n \in 0 .. Len(b) : f[n][2] < y
    PROVE  LastAt(b, f, x, y) = Blank
  <1>1. ASSUME NEW n \in 1 .. Len(b) PROVE f[n - 1] # <<x, y>>
    <2>1. n - 1 \in 0 .. Len(b)
      OBVIOUS
    <2>2. f[n - 1] \in Places /\ f[n - 1][2] < y
      BY <2>1 DEF SheetRun
    <2>3. f[n - 1][2] \in Nat
      BY <2>2 DEF Places
    <2> QED
      BY <2>2, <2>3
  <1>2. Printed(b, f, x, y) = {}
    BY <1>1 DEF Printed
  <1> QED
    BY <1>2 DEF LastAt

\* The first row of the sheet on the screen, when the cursor is in row y.
Top(y) == IF y >= NUM_ROWS THEN y - NUM_ROWS + 1 ELSE 0

\* View s shows the end of the sheet b is written on, f being the way of the
\* cursor.
Paper(s, b, f) ==
    /\ s \in Views /\ s.state = "IDLE"
    /\ f[Len(b)] = <<s.x, s.y + Top(f[Len(b)][2])>>
    /\ \A n \in 0 .. Len(b) : f[n][2] <= f[Len(b)][2]
    /\ \A x \in Columns, y \in Rows :
          CharAt(s.mem, x, y) = LastAt(b, f, x, y + Top(f[Len(b)][2]))

\* A byte of text is printed.
LEMMA WriteBytePlain ==
    ASSUME NEW s \in Views, s.state = "IDLE", NEW c, c # "ESC"
    PROVE  WriteByte(s, c) = putc(c, s)
  <1>1. esc_parse(c, s) = <<TRUE, s>>
    BY Zenon DEF esc_parse, InState
  <1> QED
    BY <1>1 DEF WriteByte

\* It is printed as on the sheet.
LEMMA PaperNext ==
    ASSUME NEW b \in Seq(Characters), NEW c \in Characters, c \notin {BS, "ESC"},
           NEW f, SheetRun(f, b), NEW g, SheetRun(g, Append(b, c)),
           NEW s, Paper(s, b, f)
    PROVE  Paper(WriteByte(s, c), Append(b, c), g)
  <1> DEFINE L == Len(b)
             a == Append(b, c)
  <1>1. L \in Nat /\ Len(a) = L + 1 /\ L \in 0 .. L
    OBVIOUS
  <1>2. /\ s \in Views /\ s.state = "IDLE" /\ s.x \in Columns /\ s.y \in Rows /\ s.y \in Nat
        /\ s.y + 1 <= NUM_ROWS /\ NUM_ROWS \in Nat
    BY Sizes DEF Paper, Views, ViewsAt, Rows
  <1>3. PICK row \in Nat : row = f[L][2]
    BY <1>1 DEF SheetRun, Places
  <1>4. PICK top \in Nat : top = Top(row)
    BY <1>2, <1>3 DEF Top
  <1>5. f[L] = <<s.x, s.y + top>> /\ row = s.y + top
    BY <1>3, <1>4 DEF Paper
  <1>6. PICK u \in Columns, v \in Nat :
          /\ v \in {s.y, s.y + 1} /\ SheetNext(c, <<s.x, s.y>>) = <<u, v>>
          /\ SheetNext(c, <<s.x, s.y + top>>) = <<u, v + top>>
    <2>1. PICK x \in Columns, y \in Nat : x = s.x /\ y = s.y
      BY <1>2
    <2>2. PICK u \in Columns, v \in Nat : Goes(c, x, y, u, v)
      BY SheetNextIs
    <2>3. v \in {y, y + 1} /\ SheetNext(c, <<x, y>>) = <<u, v>>
          /\ SheetNext(c, <<x, y + top>>) = <<u, v + top>>
      BY <2>2 DEF Goes
    <2> QED
      BY <2>1, <2>3, Zenon
  <1>7. /\ \A n \in 0 .. L : g[n] = f[n]
        /\ g[L + 1] = <<u, v + top>>
    <2>1. (\A n \in 0 .. L : g[n] = f[n]) /\ g[L + 1] = SheetNext(c, f[L])
      BY SheetMore
    <2> HIDE DEF L
    <2> QED
      BY <1>5, <1>6, <2>1, Zenon
  <1>8. PICK r : r = WriteByte(s, c) /\ r = putc(c, s)
    BY <1>2, WriteBytePlain
  <1>9. /\ Stored(c, s) \in Memory /\ v <= NUM_ROWS
        /\ IF v < NUM_ROWS THEN Reads(r, u, v, Stored(c, s), s.state)
           ELSE Reads(r, u, NUM_ROWS - 1, Scrolled(Stored(c, s)), s.state)
    BY <1>2, <1>6, <1>8, PutcTo
  <1>10. PICK row1 \in Nat : row1 = v + top /\ row1 = g[L + 1][2] /\ row <= row1
    BY <1>2, <1>5, <1>6, <1>7
  <1>11. \A n \in 0 .. L : f[n][2] \in Nat /\ f[n][2] <= row
    BY <1>3 DEF Paper, SheetRun, Places
  <1>12. \A n \in 0 .. L + 1 : g[n][2] <= g[L + 1][2]
    <2> SUFFICES ASSUME NEW n \in 0 .. L + 1 PROVE g[n][2] <= row1
      BY <1>10
    <2>1. CASE n = L + 1
      BY <1>10, <2>1
    <2>2. CASE n # L + 1
      <3>1. n \in 0 .. L
        BY <1>1, <2>2
      <3>2. g[n][2] = f[n][2] /\ f[n][2] \in Nat /\ f[n][2] <= row
        BY <1>7, <1>11, <3>1
      <3> QED
        BY <1>10, <3>2
    <2> QED
      BY <2>1, <2>2
  <1> HIDE DEF L
  <1>13. ASSUME NEW x \in Columns, NEW y \in Rows
         PROVE  CharAt(Stored(c, s), x, y) = LastAt(a, g, x, y + top)
    <2>1. y \in Nat
      BY Sizes DEF Rows
    <2>2. f[L] = <<x, y + top>> <=> <<s.x, s.y>> = <<x, y>>
      <3>1. s.y + top = y + top <=> s.y = y
        BY <1>2, <2>1
      <3> QED
        BY <1>5, <3>1
    <2>3. LastAt(a, g, x, y + top) =
            IF c \notin {NL, CR} /\ f[L] = <<x, y + top>> THEN c ELSE LastAt(b, f, x, y + top)
      BY LastMore DEF L
    <2>4. CharAt(s.mem, x, y) = LastAt(b, f, x, y + top)
      BY <1>3, <1>4 DEF Paper, L
    <2>5. CharAt(Stored(c, s), x, y) =
            IF c \notin {NL, CR} /\ <<s.x, s.y>> = <<x, y>> THEN c ELSE CharAt(s.mem, x, y)
      BY <1>2, StoredChars
    <2> QED
      BY <2>2, <2>3, <2>4, <2>5
  <1>14. CASE v < NUM_ROWS
    <2>1. r \in Views /\ r.x = u /\ r.y = v /\ r.mem = Stored(c, s) /\ r.state = "IDLE"
      BY <1>2, <1>9, <1>14 DEF Reads
    <2>2. Top(row1) = top
      <3>1. row1 = v + top /\ row = s.y + top /\ (v = s.y \/ v = s.y + 1) /\ s.y \in Nat
            /\ s.y + 1 <= NUM_ROWS /\ NUM_ROWS \in Nat
        BY <1>2, <1>5, <1>6, <1>10
      <3>2. CASE row < NUM_ROWS
        <4>1. top = 0
          BY <1>4, <3>1, <3>2 DEF Top
        <4> QED
          BY <1>14, <3>1, <4>1 DEF Top
      <3>3. CASE row >= NUM_ROWS
        <4>1. top = row - NUM_ROWS + 1
          BY <1>4, <3>1, <3>3 DEF Top
        <4>2. PICK y \in Nat : y = s.y
          BY <3>1
        <4>3. row = y + top /\ (v = y \/ v = y + 1) /\ NUM_ROWS \in Nat
          BY <3>1, <4>2
        <4>4. y = NUM_ROWS - 1
          BY <4>1, <4>3
        <4>5. v = y
          BY <1>14, <4>3, <4>4
        <4>6. row1 = row
          BY <3>1, <4>2, <4>5
        <4> QED
          BY <1>4, <4>6
      <3> QED
        BY <3>1, <3>2, <3>3
    <2>3. g[L + 1] = <<r.x, r.y + Top(row1)>>
      BY <1>7, <2>1, <2>2
    <2>4. \A x \in Columns, y \in Rows : CharAt(r.mem, x, y) = LastAt(a, g, x, y + Top(row1))
      BY <1>13, <2>1, <2>2
    <2> HIDE DEF a
    <2>5. Paper(r, a, g)
      BY <1>1, <1>10, <1>12, <2>1, <2>3, <2>4 DEF Paper
    <2> QED
      BY <1>8, <2>5 DEF a
  <1>15. CASE ~(v < NUM_ROWS)
    <2>1. r \in Views /\ r.x = u /\ r.y = NUM_ROWS - 1 /\ r.mem = Scrolled(Stored(c, s)) /\ r.state = "IDLE"
      BY <1>2, <1>9, <1>15 DEF Reads
    <2>2. v = NUM_ROWS /\ s.y = NUM_ROWS - 1
      BY <1>2, <1>6, <1>9, <1>15
    <2>3. Top(row1) = top + 1
      BY <1>2, <1>10, <2>2 DEF Top
    <2>4. g[L + 1] = <<r.x, r.y + Top(row1)>>
      <3>1. v + top = (NUM_ROWS - 1) + (top + 1)
        BY <1>2, <2>2
      <3> QED
        BY <1>7, <2>1, <2>3, <3>1
    <2>5. ASSUME NEW x \in Columns, NEW y \in Rows
          PROVE  CharAt(r.mem, x, y) = LastAt(a, g, x, y + Top(row1))
      <3>1. y \in Nat /\ y + 1 <= NUM_ROWS /\ y + (top + 1) = (y + 1) + top
        BY <1>2 DEF Rows
      <3>2. CharAt(r.mem, x, y) = IF y + 1 < NUM_ROWS THEN CharAt(Stored(c, s), x, y + 1) ELSE Blank
        BY <1>9, <2>1, ScrolledChars
      <3>3. CASE y + 1 < NUM_ROWS
        <4>1. y + 1 \in Rows
          BY <1>2, <3>1, <3>3 DEF Rows
        <4>2. CharAt(Stored(c, s), x, y + 1) = LastAt(a, g, x, (y + 1) + top)
          BY <1>13, <4>1
        <4> QED
          BY <2>3, <3>1, <3>2, <3>3, <4>2
      <3>4. CASE ~(y + 1 < NUM_ROWS)
        <4>1. PICK k \in Nat : k = y + (top + 1) /\ row < k
          BY <1>2, <1>5, <2>2, <3>1, <3>4
        <4>2. \A n \in 0 .. L : f[n][2] < k
          BY <1>11, <4>1
        <4>3. LastAt(b, f, x, k) = Blank
          BY <4>1, <4>2, LastBelow DEF L
        <4>4. f[L] # <<x, k>>
          BY <1>3, <4>1
        <4>5. LastAt(a, g, x, k) =
                IF c \notin {NL, CR} /\ f[L] = <<x, k>> THEN c ELSE LastAt(b, f, x, k)
          BY LastMore DEF L
        <4> QED
          BY <2>3, <3>2, <3>4, <4>1, <4>3, <4>4, <4>5
      <3> QED
        BY <3>3, <3>4
    <2> HIDE DEF a
    <2>6. Paper(r, a, g)
      BY <1>1, <1>10, <1>12, <2>1, <2>4, <2>5 DEF Paper
    <2> QED
      BY <1>8, <2>6 DEF a
  <1> QED
    BY <1>14, <1>15

----------------------------------------------------------------------------
(***************************************************************************)
(* What the steps leave of the views.                                      *)
(***************************************************************************)
\* One byte more of c behind b.
LEMMA ConcatMore ==
    ASSUME NEW b \in Seq(Characters), NEW c \in Seq(Characters)
    PROVE  /\ b \o SubSeq(c, 1, 0) = b /\ b \o SubSeq(c, 1, Len(c)) = b \o c
           /\ \A n \in 0 .. Len(c) : b \o SubSeq(c, 1, n) \in Seq(Characters)
           /\ \A n \in 0 .. Len(c) - 1 :
                 b \o SubSeq(c, 1, n + 1) = Append(b \o SubSeq(c, 1, n), c[n + 1])
  <1>1. SubSeq(c, 1, 0) = <<>> /\ SubSeq(c, 1, Len(c)) = c
    OBVIOUS
  <1>2. b \o <<>> = b
    OBVIOUS
  <1>3. ASSUME NEW n \in 0 .. Len(c)
        PROVE  /\ SubSeq(c, 1, n) \in Seq(Characters) /\ Len(SubSeq(c, 1, n)) = n
               /\ \A i \in 1 .. n : SubSeq(c, 1, n)[i] = c[i]
    OBVIOUS
  <1>4. ASSUME NEW n \in 0 .. Len(c) - 1
        PROVE  b \o SubSeq(c, 1, n + 1) = Append(b \o SubSeq(c, 1, n), c[n + 1])
    <2>1. n \in 0 .. Len(c) /\ n + 1 \in 0 .. Len(c) /\ n + 1 \in 1 .. Len(c)
      OBVIOUS
    <2>2. PICK p \in Seq(Characters) : /\ p = SubSeq(c, 1, n) /\ Len(p) = n
                                       /\ \A i \in 1 .. n : p[i] = c[i]
      BY <1>3, <2>1
    <2>3. PICK q \in Seq(Characters) : /\ q = SubSeq(c, 1, n + 1) /\ Len(q) = n + 1
                                       /\ \A i \in 1 .. n + 1 : q[i] = c[i]
      BY <1>3, <2>1
    <2>4. PICK e \in Characters : e = c[n + 1]
      BY <2>1
    <2>5. q = Append(p, e)
      <3>1. Append(p, e) \in Seq(Characters) /\ Len(Append(p, e)) = n + 1
        BY <2>2
      <3>2. ASSUME NEW i \in 1 .. n + 1 PROVE q[i] = Append(p, e)[i]
        <4>1. CASE i = n + 1
          BY <2>2, <2>3, <2>4, <4>1
        <4>2. CASE i # n + 1
          BY <2>2, <2>3, <4>2
        <4> QED
          BY <4>1, <4>2
      <3> QED
        BY <2>3, <3>1, <3>2, SeqEqual
    <2>6. b \o Append(p, e) = Append(b \o p, e)
      OBVIOUS
    <2> QED
      BY <2>2, <2>3, <2>4, <2>5, <2>6
  <1> QED
    BY <1>1, <1>2, <1>3, <1>4

\* The fields of a view are those of its terminal.
LEMMA SeenFields ==
    ASSUME NEW w, NEW m, NEW d, NEW h, NEW v
    PROVE  Seen(w, m, d, h, v).mem = m /\ \A field \in Fields : Seen(w, m, d, h, v)[field] = w[field]
  BY DEF Seen, Fields

\* Now.
LEMMA ViewNow ==
    ASSUME TerminalsType, NEW t \in Terms
    PROVE  View(t) \in Views /\ View(t).mem = MemoryOf(t)
           /\ \A field \in Fields : View(t)[field] = terms[t][field]
  <1>1. View(t) = Seen(terms[t], MemoryOf(t), t = cur_term_ind, hw, cursorShown)
    BY DEF View, MemoryOf
  <1>2. \A field \in Fields : Seen(terms[t], MemoryOf(t), t = cur_term_ind, hw, cursorShown)[field] = terms[t][field]
    BY SeenFields
  <1> QED
    BY <1>1, <1>2, ViewIs

\* And after a step.
LEMMA ViewNext ==
    ASSUME TerminalsType', NEW t \in Terms
    PROVE  View(t)' \in Views /\ View(t)'.mem = (MemoryOf(t))'
           /\ \A field \in Fields : View(t)'[field] = terms'[t][field]
  <1>1. /\ terms' \in [Terms -> TermsAt] /\ hw' \in Positions /\ cursorShown' \in Flags
        /\ video_mem' \in Memory /\ video_buffer' \in [Terms -> Memory]
    BY TermSetIs DEF TerminalsType, Positions, Flags
  <1>2. terms'[t] \in TermsAt /\ (MemoryOf(t))' \in Memory
    BY <1>1 DEF MemoryOf
  <1>3. PICK w \in TermsAt, m \in Memory, d \in Flags, h \in Positions, v \in Flags :
          /\ w = terms'[t] /\ m = (MemoryOf(t))' /\ d = (t = cur_term_ind') /\ h = hw' /\ v = cursorShown'
    <2>1. (t = cur_term_ind') \in Flags
      BY DEF Flags
    <2> QED
      BY <1>1, <1>2, <2>1, Zenon
  <1>4. View(t)' = Seen(w, m, d, h, v)
    BY <1>3, Zenon DEF View, MemoryOf
  <1>5. /\ Seen(w, m, d, h, v) \in Views /\ Seen(w, m, d, h, v).mem = m
        /\ \A field \in Fields : Seen(w, m, d, h, v)[field] = w[field]
    BY SeenIs, SeenFields
  <1> QED
    BY <1>3, <1>4, <1>5, Zenon

\* A write leaves its terminal as the loop over its bytes leaves the view.
LEMMA WriteShows ==
    ASSUME TerminalsType, TerminalsType', NEW t \in Terms, NEW s, Written(t, s)
    PROVE  View(t)' \in Views /\ View(t)'.mem = s.mem /\ \A field \in Fields : View(t)'[field] = s[field]
  <1>1. terms \in [Terms -> TermsAt] /\ video_buffer \in [Terms -> Memory]
    BY Typed
  <1>2. DOMAIN terms[t] = Fields
    BY <1>1 DEF TermsAt, Fields
  <1>3. terms'[t] = [field \in Fields |-> s[field]]
    BY <1>1, <1>2 DEF Written
  <1>4. View(t)' \in Views /\ View(t)'.mem = (MemoryOf(t))'
    BY ViewNext
  <1>5. \A field \in Fields : View(t)'[field] = terms'[t][field]
    BY ViewNext
  <1>6. terms'[t].onVga = s.onVga
    BY <1>3 DEF Fields
  <1>7. (MemoryOf(t))' = s.mem
    BY <1>1, <1>6 DEF MemoryOf, Written
  <1> QED
    BY <1>3, <1>4, <1>5, <1>7

\* The fields that belong to what a terminal shows and to its parser.
Lasting == Fields \ {"onVga"}

\* A terminal that shows what it did has the same view, apart from the monitor.
LEMMA ShownSame ==
    ASSUME TerminalsType, TerminalsType', NEW u \in Terms, Shown(u)' = Shown(u)
    PROVE  /\ View(u)' \in Views /\ View(u)'.mem = View(u).mem
           /\ \A field \in Lasting : View(u)'[field] = View(u)[field]
  <1>1. terms[u] \in TermsAt /\ terms'[u] \in TermsAt
    <2>1. terms \in [Terms -> TermsAt]
      BY Typed
    <2>2. terms' \in [Terms -> TermsAt]
      BY TermSetIs DEF TerminalsType
    <2> QED
      BY <2>1, <2>2
  <1>2. View(u)' \in Views
    BY ViewNext
  <1>3. Shown(u) = <<[terms[u] EXCEPT !.onVga = FALSE], View(u).mem>>
        /\ Shown(u)' = <<[terms'[u] EXCEPT !.onVga = FALSE], View(u)'.mem>>
    BY DEF Shown
  <1>4. [terms[u] EXCEPT !.onVga = FALSE] = [terms'[u] EXCEPT !.onVga = FALSE] /\ View(u)'.mem = View(u).mem
    <2>1. PICK a, b, c, d : /\ a = [terms[u] EXCEPT !.onVga = FALSE] /\ b = View(u).mem
                            /\ c = [terms'[u] EXCEPT !.onVga = FALSE] /\ d = View(u)'.mem
      BY Zenon
    <2>2. <<a, b>> = <<c, d>>
      BY <1>3, <2>1, Zenon
    <2>3. a = c /\ b = d
      BY <2>2
    <2> QED
      BY <2>1, <2>3, Zenon
  <1>5. ASSUME NEW field \in Lasting PROVE terms'[u][field] = terms[u][field]
    <2>1. /\ [terms[u] EXCEPT !.onVga = FALSE][field] = terms[u][field]
          /\ [terms'[u] EXCEPT !.onVga = FALSE][field] = terms'[u][field]
      BY <1>1 DEF Lasting, Fields, TermsAt
    <2> QED
      BY <1>4, <2>1
  <1>6. \A field \in Fields : View(u)[field] = terms[u][field]
    BY ViewNow
  <1>7. \A field \in Fields : View(u)'[field] = terms'[u][field]
    BY ViewNext
  <1> QED
    BY <1>2, <1>4, <1>5, <1>6, <1>7 DEF Lasting

----------------------------------------------------------------------------
(***************************************************************************)
(* The invariant of plain text.                                            *)
(***************************************************************************)
PlainBytes(b) == \A n \in 1 .. Len(b) : b[n] \notin {"ESC", BS}

\* Only cursor, memory and parser state of a view matter to the sheet.
LEMMA PaperSame ==
    ASSUME NEW s, NEW r \in Views, NEW b, NEW f, Paper(s, b, f),
           r.x = s.x, r.y = s.y, r.state = s.state, r.mem = s.mem
    PROVE  Paper(r, b, f)
  BY DEF Paper

\* A write of plain text goes on with the sheet.
LEMMA PaperWrite ==
    ASSUME NEW b \in Seq(Characters), NEW c \in Seq(Characters), PlainBytes(c),
           NEW s, Paper(s, b, Sheet(b))
    PROVE  Paper(WriteBytes(s, c), b \o c, Sheet(b \o c))
  <1>1. s \in Views /\ Len(c) \in Nat
    BY DEF Paper
  <1>2. PICK f : ByteRun(f, c, s)
    BY <1>1, WriteBytesRuns
  <1> DEFINE a(n) == b \o SubSeq(c, 1, n)
             S == {n \in 0 .. Len(c) : Paper(f[n], a(n), Sheet(a(n)))}
  <1>3. a(0) = b /\ a(Len(c)) = b \o c /\ \A n \in 0 .. Len(c) : a(n) \in Seq(Characters)
    BY ConcatMore
  <1>4. \A n \in 0 .. Len(c) - 1 : a(n + 1) = Append(a(n), c[n + 1])
    BY ConcatMore
  <1> HIDE DEF a
  <1>5. 0 \in S
    <2>1. f[0] = s /\ 0 \in 0 .. Len(c)
      BY <1>1, <1>2 DEF ByteRun
    <2> QED
      BY <1>3, <2>1
  <1>6. \A n \in 0 .. Len(c) - 1 : n \in S => n + 1 \in S
    <2> SUFFICES ASSUME NEW n \in 0 .. Len(c) - 1, n \in S PROVE n + 1 \in S
      OBVIOUS
    <2>1. n \in 0 .. Len(c) /\ n + 1 \in 0 .. Len(c) /\ n + 1 \in 1 .. Len(c) /\ (n + 1) - 1 = n
      BY <1>1
    <2>2. PICK p \in Seq(Characters) : p = a(n)
      BY <1>3, <2>1
    <2>3. PICK e \in Characters : e = c[n + 1] /\ e \notin {BS, "ESC"}
      BY <2>1 DEF PlainBytes
    <2>4. a(n + 1) = Append(p, e) /\ Append(p, e) \in Seq(Characters)
      BY <1>4, <2>2, <2>3
    <2>5. f[n + 1] = WriteByte(f[n], e)
      BY <1>2, <2>1, <2>3 DEF ByteRun
    <2>6. SheetRun(Sheet(p), p) /\ SheetRun(Sheet(Append(p, e)), Append(p, e))
      BY <2>4, SheetIs
    <2>7. Paper(f[n], p, Sheet(p))
      BY <2>2
    <2>8. Paper(WriteByte(f[n], e), Append(p, e), Sheet(Append(p, e)))
      BY <2>3, <2>6, <2>7, PaperNext
    <2>9. Paper(f[n + 1], a(n + 1), Sheet(a(n + 1)))
      BY <2>4, <2>5, <2>8
    <2> QED
      BY <2>1, <2>9
  <1>7. 0 .. Len(c) \subseteq S
    <2> HIDE DEF S
    <2> QED
      BY <1>1, <1>5, <1>6, UpTo
  <1>8. Len(c) \in S
    <2>1. Len(c) \in 0 .. Len(c)
      BY <1>1
    <2> HIDE DEF S
    <2> QED
      BY <1>7, <2>1
  <1>9. f[Len(c)] = WriteBytes(s, c)
    BY <1>2 DEF ByteRun
  <1>10. Paper(f[Len(c)], a(Len(c)), Sheet(a(Len(c))))
    BY <1>8
  <1> QED
    BY <1>3, <1>9, <1>10

SentType == sent \in [Terms -> Seq(Characters)]

PlainInv == \A t \in Terms : PlainBytes(sent[t]) => Paper(View(t), sent[t], Sheet(sent[t]))

\* Texts that are plain together are plain.
LEMMA PlainParts ==
    ASSUME NEW b \in Seq(Characters), NEW c \in Seq(Characters), PlainBytes(b \o c)
    PROVE  PlainBytes(b) /\ PlainBytes(c)
  <1>1. Len(b) \in Nat /\ Len(c) \in Nat /\ Len(b \o c) = Len(b) + Len(c)
    OBVIOUS
  <1>2. ASSUME NEW n \in 1 .. Len(b) PROVE b[n] \notin {"ESC", BS}
    <2>1. n \in 1 .. Len(b \o c) /\ (b \o c)[n] = b[n]
      BY <1>1
    <2> QED
      BY <2>1 DEF PlainBytes
  <1>3. ASSUME NEW n \in 1 .. Len(c) PROVE c[n] \notin {"ESC", BS}
    <2>1. Len(b) + n \in 1 .. Len(b \o c) /\ (b \o c)[Len(b) + n] = c[n]
      BY <1>1
    <2> QED
      BY <2>1 DEF PlainBytes
  <1> QED
    BY <1>2, <1>3 DEF PlainBytes

\* What was sent are characters.
LEMMA SentStep == SentType /\ TerminalsType /\ [Next]_vars => SentType'
  <1> SUFFICES ASSUME SentType, TerminalsType, [Next]_vars PROVE SentType'
    OBVIOUS
  <1>1. ASSUME NEW t \in Terms, term_write(t) PROVE SentType'
    <2>1. PICK chunk \in Chunks : sent' = [sent EXCEPT ![t] = sent[t] \o chunk]
      BY <1>1, WriteIs
    <2>2. chunk \in Seq(Characters) /\ sent[t] \in Seq(Characters)
      BY ChunkIs DEF SentType
    <2>3. sent[t] \o chunk \in Seq(Characters)
      BY <2>2
    <2> QED
      BY <2>1, <2>3 DEF SentType
  <1>2. ASSUME NEW t \in Terms, switch_term(t) PROVE SentType'
    BY <1>2 DEF switch_term, PutOn, SentType
  <1>3. CASE UNCHANGED vars
    BY <1>3 DEF vars, SentType
  <1> QED
    BY <1>1, <1>2, <1>3 DEF Next

\* A terminal nothing was sent to, and that shows the same, is on the same sheet.
LEMMA PaperKept ==
    ASSUME TerminalsType, TerminalsType', NEW u \in Terms, Shown(u)' = Shown(u), sent'[u] = sent[u],
           PlainBytes(sent[u]) => Paper(View(u), sent[u], Sheet(sent[u]))
    PROVE  PlainBytes(sent'[u]) => Paper(View(u)', sent'[u], Sheet(sent'[u]))
  <1>1. /\ View(u)' \in Views /\ View(u)'.mem = View(u).mem
        /\ \A field \in Lasting : View(u)'[field] = View(u)[field]
    BY ShownSame
  <1>2. View(u)'.x = View(u).x /\ View(u)'.y = View(u).y /\ View(u)'.state = View(u).state
    BY <1>1 DEF Lasting, Fields
  <1>3. PICK r : r = View(u)'
    OBVIOUS
  <1>4. PlainBytes(sent[u]) => Paper(r, sent[u], Sheet(sent[u]))
    BY <1>1, <1>2, <1>3, PaperSame
  <1> QED
    BY <1>3, <1>4

\* Every step keeps the sheets.
LEMMA PlainStep == IInv /\ SentType /\ PlainInv /\ [Next]_vars => PlainInv'
  <1> SUFFICES ASSUME IInv, SentType, PlainInv, [Next]_vars PROVE PlainInv'
    OBVIOUS
  <1>1. TerminalsType /\ CursorOfDisplayed /\ TerminalsType'
    BY Step DEF IInv
  <1> SUFFICES ASSUME NEW u \in Terms
               PROVE  PlainBytes(sent'[u]) => Paper(View(u)', sent'[u], Sheet(sent'[u]))
    BY DEF PlainInv
  <1>2. PlainBytes(sent[u]) => Paper(View(u), sent[u], Sheet(sent[u]))
    BY DEF PlainInv
  <1>3. ASSUME NEW t \in Terms, term_write(t)
        PROVE  PlainBytes(sent'[u]) => Paper(View(u)', sent'[u], Sheet(sent'[u]))
    <2>1. PICK chunk \in Chunks : /\ Written(t, WriteBytes(View(t), chunk))
                                  /\ sent' = [sent EXCEPT ![t] = sent[t] \o chunk]
      BY <1>1, <1>3, WriteIs
    <2>2. CASE u # t
      <3>1. sent'[u] = sent[u]
        BY <2>1, <2>2 DEF SentType
      <3>2. Shown(u)' = Shown(u)
        BY <1>1, <1>3, <2>2, WriteKeepsOthers
      <3> QED
        BY <1>1, <1>2, <3>1, <3>2, PaperKept
    <2>3. CASE u = t
      <3>1. PICK b \in Seq(Characters) : b = sent[u]
        BY DEF SentType
      <3>2. sent'[u] = b \o chunk /\ chunk \in Seq(Characters)
        BY <2>1, <2>3, <3>1, ChunkIs DEF SentType
      <3>3. PICK s : s = WriteBytes(View(t), chunk)
        OBVIOUS
      <3>4. /\ View(t)' \in Views /\ View(t)'.mem = s.mem
            /\ \A field \in Fields : View(t)'[field] = s[field]
        BY <1>1, <2>1, <3>3, WriteShows
      <3>5. View(t)'.x = s.x /\ View(t)'.y = s.y /\ View(t)'.state = s.state
        BY <3>4 DEF Fields
      <3>6. PICK r : r = View(t)'
        OBVIOUS
      <3>7. ASSUME PlainBytes(b \o chunk) PROVE Paper(r, b \o chunk, Sheet(b \o chunk))
        <4>1. PlainBytes(b) /\ PlainBytes(chunk)
          BY <3>2, <3>7, PlainParts
        <4>2. Paper(View(t), b, Sheet(b))
          BY <1>2, <2>3, <3>1, <4>1
        <4>3. Paper(s, b \o chunk, Sheet(b \o chunk))
          BY <3>2, <3>3, <4>1, <4>2, PaperWrite
        <4> QED
          BY <3>4, <3>5, <3>6, <4>3, PaperSame
      <3> QED
        BY <2>3, <3>2, <3>6, <3>7
    <2> QED
      BY <2>2, <2>3
  <1>4. ASSUME NEW t \in Terms, switch_term(t)
        PROVE  PlainBytes(sent'[u]) => Paper(View(u)', sent'[u], Sheet(sent'[u]))
    <2>1. Shown(u)' = Shown(u)
      BY <1>1, <1>4, SwitchKeepsAll
    <2>2. sent'[u] = sent[u]
      BY <1>4 DEF switch_term, PutOn
    <2> QED
      BY <1>1, <1>2, <2>1, <2>2, PaperKept
  <1>5. CASE UNCHANGED vars
    <2>1. View(u)' = View(u) /\ sent' = sent
      BY <1>5 DEF vars, View
    <2> QED
      BY <1>2, <2>1
  <1> QED
    BY <1>3, <1>4, <1>5 DEF Next

\* A blank terminal shows an empty sheet.
LEMMA PaperInit == Init => SentType /\ PlainInv
  <1> SUFFICES ASSUME Init PROVE SentType /\ PlainInv
    OBVIOUS
  <1>1. TerminalsType
    BY Begin DEF IInv
  <1>2. SentType
    BY DEF Init, SentType
  <1>3. ASSUME NEW t \in Terms PROVE Paper(View(t), sent[t], Sheet(sent[t]))
    <2>1. sent[t] = <<>> /\ <<>> \in Seq(Characters) /\ Len(<<>>) = 0
      BY DEF Init
    <2>2. View(t) \in Views /\ View(t).mem = MemoryOf(t)
          /\ \A field \in Fields : View(t)[field] = terms[t][field]
      BY <1>1, ViewNow
    <2>3. terms[t] = FreshTerm(t) /\ MemoryOf(t) = BlankMem
      BY DEF Init, MemoryOf
    <2>4. FreshTerm(t).x = 0 /\ FreshTerm(t).y = 0 /\ FreshTerm(t).state = "IDLE"
      BY DEF FreshTerm
    <2>5. View(t).x = 0 /\ View(t).y = 0 /\ View(t).state = "IDLE" /\ View(t).mem = BlankMem
      BY <2>2, <2>3, <2>4 DEF Fields
    <2>6. PICK f : f = Sheet(<<>>) /\ SheetRun(f, <<>>)
      BY <2>1, SheetIs
    <2>7. f[0] = <<0, 0>> /\ Top(0) = 0
      BY <2>6, Sizes DEF SheetRun, Top
    <2>8. ASSUME NEW x \in Columns, NEW y \in Rows
          PROVE  CharAt(BlankMem, x, y) = LastAt(<<>>, f, x, y + 0)
      <3>1. CellOf(x, y) \in VidCells
        BY CellsApart
      <3>2. CharAt(BlankMem, x, y) = Blank
        BY <3>1 DEF CharAt, BlankMem
      <3>3. Printed(<<>>, f, x, y + 0) = {}
        BY <2>1 DEF Printed
      <3> QED
        BY <3>2, <3>3 DEF LastAt
    <2>9. PICK s \in Views : s = View(t)
      BY <2>2
    <2>10. Paper(s, <<>>, f)
      <3>1. f[Len(<<>>)] = <<s.x, s.y + Top(f[Len(<<>>)][2])>>
        BY <2>1, <2>5, <2>7, <2>9
      <3>2. \A n \in 0 .. Len(<<>>) : f[n][2] <= f[Len(<<>>)][2]
        BY <2>1, <2>7
      <3>3. \A x \in Columns, y \in Rows :
              CharAt(s.mem, x, y) = LastAt(<<>>, f, x, y + Top(f[Len(<<>>)][2]))
        BY <2>1, <2>5, <2>7, <2>8, <2>9
      <3> QED
        BY <2>5, <2>9, <3>1, <3>2, <3>3 DEF Paper
    <2> QED
      BY <2>1, <2>6, <2>9, <2>10
  <1> QED
    BY <1>2, <1>3 DEF PlainInv

\* The greater of 0 and where the screen begins.
LEMMA TopIs ==
    ASSUME NEW y \in Nat
    PROVE  Max({0, y - NUM_ROWS + 1}) = Top(y)
  <1>1. NUM_ROWS \in Nat /\ NUM_ROWS >= 1
    BY Sizes
  <1>2. PICK k \in Int : k = y - NUM_ROWS + 1
    BY <1>1
  <1>3. PICK m \in Nat : m = Top(y) /\ m \in {0, k} /\ m >= 0 /\ m >= k
    <2>1. CASE y >= NUM_ROWS
      <3>1. Top(y) = k /\ k >= 0
        BY <1>1, <1>2, <2>1 DEF Top
      <3> QED
        BY <3>1
    <2>2. CASE ~(y >= NUM_ROWS)
      <3>1. Top(y) = 0 /\ 0 >= k
        BY <1>1, <1>2, <2>2 DEF Top
      <3> QED
        BY <3>1
    <2> QED
      BY <2>1, <2>2
  <1>4. Max({0, k}) = CHOOSE a \in {0, k} : \A e \in {0, k} : a >= e
    BY DEF Max
  <1>5. \A a \in {0, k} : (\A e \in {0, k} : a >= e) <=> a = m
    BY <1>3
  <1>6. Max({0, k}) = m
    BY <1>3, <1>4, <1>5
  <1> QED
    BY <1>2, <1>3, <1>6

\* A terminal that got plain text shows the end of the sheet it is written on,
\* whatever the size of the screen, however it was cut into writes and however
\* often the terminals were switched in between (putc, scroll, term_write).
THEOREM PlainTextShown == Spec => []PlainText
  <1>1. IInv /\ SentType /\ PlainInv => PlainText
    <2> DEFINE printed(b, sheet, x, y) ==
                   {n \in 1 .. Len(b) : b[n] \notin {NL, CR} /\ sheet[n - 1] = <<x, y>>}
               Good(t, b, sheet, top) ==
                   /\ <<terms[t].x, terms[t].y + top>> = sheet[Len(b)]
                   /\ \A x \in 0 .. NUM_COLS - 1, y \in 0 .. NUM_ROWS - 1 :
                         View(t).mem[NUM_COLS * y + x][1] =
                             IF printed(b, sheet, x, y + top) = {} THEN Blank
                             ELSE b[Max(printed(b, sheet, x, y + top))]
    <2> SUFFICES ASSUME IInv, SentType, PlainInv, NEW t \in Terms, PlainBytes(sent[t])
                 PROVE  Good(t, sent[t], Sheet(sent[t]),
                             Max({0, Sheet(sent[t])[Len(sent[t])][2] - NUM_ROWS + 1}))
      BY DEF PlainText, PlainBytes
    <2>1. PICK b \in Seq(Characters) : b = sent[t]
      BY DEF SentType
    <2>2. PICK f : f = Sheet(b)
      OBVIOUS
    <2>3. SheetRun(f, b) /\ Len(b) \in Nat
      BY <2>1, <2>2, SheetIs
    <2>4. Paper(View(t), b, f)
      BY <2>1, <2>2 DEF PlainInv
    <2>5. PICK row \in Nat : row = f[Len(b)][2]
      BY <2>3 DEF SheetRun, Places
    <2>6. PICK top \in Nat : top = Top(row) /\ top = Max({0, f[Len(b)][2] - NUM_ROWS + 1})
      <3>1. Top(row) \in Nat
        BY Sizes DEF Top
      <3> QED
        BY <2>5, <3>1, TopIs
    <2>7. View(t).x = terms[t].x /\ View(t).y = terms[t].y
      BY ViewIs DEF IInv
    <2>8. <<terms[t].x, terms[t].y + top>> = f[Len(b)]
      BY <2>4, <2>5, <2>6, <2>7 DEF Paper
    <2>9. ASSUME NEW x \in 0 .. NUM_COLS - 1, NEW y \in 0 .. NUM_ROWS - 1
          PROVE  View(t).mem[NUM_COLS * y + x][1] = LastAt(b, f, x, y + top)
      BY <2>4, <2>5, <2>6 DEF Paper, Columns, Rows, CharAt, CellOf
    <2>10. Good(t, b, f, top)
      BY <2>8, <2>9 DEF LastAt, Printed
    <2> HIDE DEF Good
    <2> QED
      BY <2>1, <2>2, <2>6, <2>10
  <1>2. Init => IInv /\ SentType /\ PlainInv
    BY Begin, PaperInit
  <1>3. IInv /\ SentType /\ PlainInv /\ [Next]_vars => (IInv /\ SentType /\ PlainInv)'
    BY Step, SentStep, PlainStep DEF IInv
  <1> QED
    BY <1>1, <1>2, <1>3, PTL DEF Spec
----------------------------------------------------------------------------
(***************************************************************************)
(* What an operation leaves on a terminal depends on what the terminal     *)
(* shows, and not on where it is in memory or on the parser.               *)
(***************************************************************************)
Alike(s, r) ==
    /\ s.x = r.x /\ s.y = r.y /\ s.x_store = r.x_store /\ s.y_store = r.y_store
    /\ s.attr = r.attr /\ s.noecho = r.noecho /\ s.canon = r.canon /\ s.mem = r.mem

\* The parser is the same.
Still(s, r) == r.state = s.state /\ r.buf = s.buf /\ r.args = s.args

\* Showing the same is transitive.
LEMMA AlikeTwice ==
    ASSUME NEW s, NEW r, NEW q, Alike(s, r), Alike(r, q)
    PROVE  Alike(s, q)
  BY DEF Alike

\* Showing the same is symmetric.
LEMMA AlikeBack ==
    ASSUME NEW s, NEW r, Alike(s, r)
    PROVE  Alike(r, s)
  BY DEF Alike

\* Two operations that leave the parser alone leave it alone together.
LEMMA StillTwice ==
    ASSUME NEW s, NEW r, NEW q, Still(s, r), Still(r, q)
    PROVE  Still(s, q)
  BY DEF Still

\* setpos.
LEMMA SetPosAlike ==
    ASSUME NEW s \in Wide, NEW r \in Wide, Alike(s, r), NEW x \in Int, NEW y \in Int
    PROVE  Alike(setpos(x, y, s), setpos(x, y, r)) /\ Still(s, setpos(x, y, s))
  <1>1. ASSUME NEW u \in Wide
        PROVE  /\ Still(u, setpos(x, y, u))
               /\ setpos(x, y, u).x = Clamp(x, NUM_COLS) /\ setpos(x, y, u).y = Clamp(y, NUM_ROWS)
               /\ setpos(x, y, u).x_store = u.x_store /\ setpos(x, y, u).y_store = u.y_store
               /\ setpos(x, y, u).attr = u.attr /\ setpos(x, y, u).noecho = u.noecho
               /\ setpos(x, y, u).canon = u.canon /\ setpos(x, y, u).mem = u.mem
    <2>1. PICK a, b, h : /\ a = Clamp(x, NUM_COLS) /\ b = Clamp(y, NUM_ROWS)
                         /\ h = IF u.displayed THEN <<a, b>> ELSE u.hw
      OBVIOUS
    <2> DEFINE v == [u EXCEPT !.x = a, !.y = b, !.hw = h]
    <2>2. setpos(x, y, u) = v
      BY <2>1 DEF setpos
    <2>3. /\ v.x = a /\ v.y = b /\ v.x_store = u.x_store /\ v.y_store = u.y_store
          /\ v.attr = u.attr /\ v.noecho = u.noecho /\ v.canon = u.canon /\ v.mem = u.mem
          /\ v.state = u.state /\ v.buf = u.buf /\ v.args = u.args
      BY DEF Wide, ViewsAt
    <2> HIDE DEF v
    <2> QED
      BY <2>1, <2>2, <2>3 DEF Still
  <1> QED
    BY <1>1 DEF Alike

\* A store to the memory.
LEMMA MemoryAlike ==
    ASSUME NEW s \in Wide, NEW r \in Wide, Alike(s, r), NEW m
    PROVE  Alike([s EXCEPT !.mem = m], [r EXCEPT !.mem = m]) /\ Still(s, [s EXCEPT !.mem = m])
  <1>1. ASSUME NEW u \in Wide
        PROVE  LET v == [u EXCEPT !.mem = m]
               IN  /\ v.x = u.x /\ v.y = u.y /\ v.x_store = u.x_store /\ v.y_store = u.y_store
                   /\ v.attr = u.attr /\ v.noecho = u.noecho /\ v.canon = u.canon /\ v.mem = m
                   /\ v.state = u.state /\ v.buf = u.buf /\ v.args = u.args
    BY DEF Wide, ViewsAt
  <1> QED
    BY <1>1 DEF Alike, Still

\* A cursor stored without setpos.
LEMMA MovedAlike ==
    ASSUME NEW s \in Wide, NEW r \in Wide, Alike(s, r), NEW x, NEW y
    PROVE  /\ Alike([s EXCEPT !.x = x, !.y = y], [r EXCEPT !.x = x, !.y = y])
           /\ Still(s, [s EXCEPT !.x = x, !.y = y])
  <1>1. ASSUME NEW u \in Wide
        PROVE  LET v == [u EXCEPT !.x = x, !.y = y]
               IN  /\ v.x = x /\ v.y = y /\ v.x_store = u.x_store /\ v.y_store = u.y_store
                   /\ v.attr = u.attr /\ v.noecho = u.noecho /\ v.canon = u.canon /\ v.mem = u.mem
                   /\ v.state = u.state /\ v.buf = u.buf /\ v.args = u.args
    BY DEF Wide, ViewsAt
  <1> QED
    BY <1>1 DEF Alike, Still

\* clear.
LEMMA ClearAlike ==
    ASSUME NEW s \in Views, NEW r \in Views, Alike(s, r)
    PROVE  Alike(clear(s), clear(r)) /\ Still(s, clear(s))
  <1>1. PICK m : m = [i \in VidCells |-> <<Blank, s.attr>>]
    OBVIOUS
  <1>2. clear(s) = [s EXCEPT !.mem = m] /\ clear(r) = [r EXCEPT !.mem = m]
    BY <1>1 DEF clear, Alike
  <1> QED
    BY <1>2, ViewsAreWide, MemoryAlike

\* set_vid_char.
LEMMA SetVidCharAlike ==
    ASSUME NEW s \in Views, NEW r \in Views, Alike(s, r), NEW x, NEW y, NEW c
    PROVE  /\ Alike(set_vid_char(x, y, c, s), set_vid_char(x, y, c, r))
           /\ Still(s, set_vid_char(x, y, c, s))
  <1>1. CASE x \in 0 .. NUM_COLS - 1 /\ y \in 0 .. NUM_ROWS - 1
    <2>1. PICK m : m = [s.mem EXCEPT ![NUM_COLS * y + x] = <<c, s.attr>>]
      OBVIOUS
    <2>2. /\ set_vid_char(x, y, c, s) = [s EXCEPT !.mem = m]
          /\ set_vid_char(x, y, c, r) = [r EXCEPT !.mem = m]
      BY <1>1, <2>1 DEF set_vid_char, Alike
    <2> QED
      BY <2>2, ViewsAreWide, MemoryAlike
  <1>2. CASE ~(x \in 0 .. NUM_COLS - 1 /\ y \in 0 .. NUM_ROWS - 1)
    BY <1>2 DEF set_vid_char, Still
  <1> QED
    BY <1>1, <1>2

\* scroll.
LEMMA ScrollAlike ==
    ASSUME NEW s \in Wide, NEW r \in Wide, Alike(s, r)
    PROVE  Alike(scroll(s), scroll(r)) /\ Still(s, scroll(s))
  <1>1. PICK m \in Memory : m = Scrolled(s.mem)
    BY ScrolledIs DEF Wide, ViewsAt
  <1>2. s.x = r.x /\ s.y = r.y /\ s.mem = r.mem
    BY DEF Alike
  <1>3. PICK x \in Int, y \in Int : x = s.x /\ y = s.y - 1
    BY DEF Wide, ViewsAt
  <1> DEFINE p == [s EXCEPT !.mem = m]
             q == [r EXCEPT !.mem = m]
  <1>4. scroll(s) = setpos(x, y, p) /\ scroll(r) = setpos(x, y, q)
    BY <1>1, <1>2, <1>3 DEF scroll, Scrolled
  <1>5. p \in Wide /\ q \in Wide
    BY NewMemory DEF Wide
  <1>6. Alike(p, q) /\ Still(s, p)
    BY MemoryAlike
  <1> HIDE DEF p, q
  <1>7. Alike(setpos(x, y, p), setpos(x, y, q)) /\ Still(p, setpos(x, y, p))
    BY <1>5, <1>6, SetPosAlike
  <1> QED
    BY <1>4, <1>6, <1>7, StillTwice

\* back.
LEMMA BackAlike ==
    ASSUME NEW s \in Views, NEW r \in Views, Alike(s, r)
    PROVE  Alike(back(s), back(r)) /\ Still(s, back(s))
  <1>1. s \in Wide /\ r \in Wide /\ s.x = r.x /\ s.y = r.y
    BY CursorIs DEF Alike
  <1>2. s.x - 1 \in Int /\ s.y \in Int /\ s.y - 1 \in Int /\ NUM_COLS - 1 \in Int
    BY CursorIs, Sizes
  <1> QED
    BY <1>1, <1>2, SetPosAlike DEF back

\* Entering a row.
LEMMA EnterRowAlike ==
    ASSUME NEW s \in Views, NEW r \in Views, Alike(s, r), NEW x \in Int, NEW y \in Int
    PROVE  Alike(EnterRow(x, y, s), EnterRow(x, y, r)) /\ Still(s, EnterRow(x, y, s))
  <1>1. s \in Wide /\ r \in Wide
    BY CursorIs
  <1>2. CASE y < NUM_ROWS
    BY <1>1, <1>2, SetPosAlike DEF EnterRow
  <1>3. CASE ~(y < NUM_ROWS)
    <2> DEFINE p == [s EXCEPT !.x = x, !.y = y]
               q == [r EXCEPT !.x = x, !.y = y]
    <2>1. /\ EnterRow(x, y, s) = setpos(x, NUM_ROWS - 1, scroll(p))
          /\ EnterRow(x, y, r) = setpos(x, NUM_ROWS - 1, scroll(q))
      BY <1>3 DEF EnterRow
    <2>2. p \in Wide /\ q \in Wide
      BY <1>1, Moved
    <2>3. Alike(p, q) /\ Still(s, p)
      BY <1>1, MovedAlike
    <2> HIDE DEF p, q
    <2>4. scroll(p) \in Wide /\ scroll(q) \in Wide /\ NUM_ROWS - 1 \in Int
      BY <2>2, Scroll, ViewsAreWide, Sizes
    <2>5. Alike(scroll(p), scroll(q)) /\ Still(p, scroll(p))
      BY <2>2, <2>3, ScrollAlike
    <2>6. /\ Alike(setpos(x, NUM_ROWS - 1, scroll(p)), setpos(x, NUM_ROWS - 1, scroll(q)))
          /\ Still(scroll(p), setpos(x, NUM_ROWS - 1, scroll(p)))
      BY <2>4, <2>5, SetPosAlike
    <2> QED
      BY <2>1, <2>3, <2>5, <2>6, StillTwice
  <1> QED
    BY <1>2, <1>3

\* The cursor after a character.
LEMMA AdvanceAlike ==
    ASSUME NEW s \in Views, NEW r \in Views, Alike(s, r)
    PROVE  Alike(Advance(s), Advance(r)) /\ Still(s, Advance(s))
  <1>1. s.x = r.x /\ s.y = r.y
    BY DEF Alike
  <1>2. s.x + 1 \in Int /\ s.y \in Int /\ s.y + 1 \in Int /\ 0 \in Int
    BY CursorIs
  <1> QED
    BY <1>1, <1>2, EnterRowAlike DEF Advance

\* A printed character.
LEMMA PutcAlike ==
    ASSUME NEW s \in Views, NEW r \in Views, Alike(s, r), NEW c \in Characters
    PROVE  Alike(putc(c, s), putc(c, r)) /\ Still(s, putc(c, s))
  <1>1. s \in Wide /\ r \in Wide /\ s.y \in Int /\ s.y + 1 \in Int /\ 0 \in Int
    BY CursorIs
  <1>2. s.x = r.x /\ s.y = r.y
    BY DEF Alike
  <1>3. CASE c = NL
    <2>1. putc(c, s) = EnterRow(0, s.y + 1, s) /\ putc(c, r) = EnterRow(0, s.y + 1, r)
      BY <1>2, <1>3, ScreenAssumption, Zenon DEF putc
    <2> QED
      BY <1>1, <2>1, EnterRowAlike
  <1>4. CASE c = CR
    <2>1. putc(c, s) = setpos(0, s.y, s) /\ putc(c, r) = setpos(0, s.y, r)
      BY <1>2, <1>4, ScreenAssumption, Zenon DEF putc
    <2> QED
      BY <1>1, <2>1, SetPosAlike
  <1>5. CASE c = BS
    <2> DEFINE p == back(s)
               q == back(r)
    <2>1. putc(c, s) = set_vid_char(p.x, p.y, Blank, p) /\ putc(c, r) = set_vid_char(q.x, q.y, Blank, q)
      BY <1>5, ScreenAssumption, Zenon DEF putc
    <2>2. p \in Views /\ q \in Views /\ Alike(p, q) /\ Still(s, p)
      BY Back, BackAlike
    <2> HIDE DEF p, q
    <2>3. p.x = q.x /\ p.y = q.y
      BY <2>2 DEF Alike
    <2>4. /\ Alike(set_vid_char(p.x, p.y, Blank, p), set_vid_char(p.x, p.y, Blank, q))
          /\ Still(p, set_vid_char(p.x, p.y, Blank, p))
      BY <2>2, SetVidCharAlike
    <2> QED
      BY <2>1, <2>2, <2>3, <2>4, StillTwice
  <1>6. CASE c # NL /\ c # CR /\ c # BS
    <2> DEFINE p == set_vid_char(s.x, s.y, c, s)
               q == set_vid_char(r.x, r.y, c, r)
    <2>1. putc(c, s) = Advance(p) /\ putc(c, r) = Advance(q)
      BY <1>6, Zenon DEF putc
    <2>2. p \in Views /\ q \in Views
      BY SetVidChar
    <2>3. Alike(p, q) /\ Still(s, p)
      BY <1>2, SetVidCharAlike
    <2> HIDE DEF p, q
    <2>4. Alike(Advance(p), Advance(q)) /\ Still(p, Advance(p))
      BY <2>2, <2>3, AdvanceAlike
    <2> QED
      BY <2>1, <2>3, <2>4, StillTwice
  <1> QED
    BY <1>3, <1>4, <1>5, <1>6

\* A store to a field that is not shown, or the same store to both.
LEMMA FieldsAlike ==
    ASSUME NEW s \in Views, NEW r \in Views, Alike(s, r), NEW a, NEW b
    PROVE  /\ Alike([s EXCEPT !.attr = a], [r EXCEPT !.attr = a]) /\ Still(s, [s EXCEPT !.attr = a])
           /\ Alike([s EXCEPT !.x_store = a, !.y_store = b], [r EXCEPT !.x_store = a, !.y_store = b])
           /\ Still(s, [s EXCEPT !.x_store = a, !.y_store = b])
           /\ Alike([s EXCEPT !.noecho = a], [r EXCEPT !.noecho = a]) /\ Still(s, [s EXCEPT !.noecho = a])
           /\ Alike([s EXCEPT !.canon = a], [r EXCEPT !.canon = a]) /\ Still(s, [s EXCEPT !.canon = a])
           /\ Alike([s EXCEPT !.shown = a], [r EXCEPT !.shown = a]) /\ Still(s, [s EXCEPT !.shown = a])
  <1>1. ASSUME NEW u \in Views
        PROVE  LET v == [u EXCEPT !.attr = a]
               IN  /\ v.x = u.x /\ v.y = u.y /\ v.x_store = u.x_store /\ v.y_store = u.y_store
                   /\ v.attr = a /\ v.noecho = u.noecho /\ v.canon = u.canon /\ v.mem = u.mem
                   /\ v.state = u.state /\ v.buf = u.buf /\ v.args = u.args
    BY DEF Views, ViewsAt
  <1>2. ASSUME NEW u \in Views
        PROVE  LET v == [u EXCEPT !.x_store = a, !.y_store = b]
               IN  /\ v.x = u.x /\ v.y = u.y /\ v.x_store = a /\ v.y_store = b
                   /\ v.attr = u.attr /\ v.noecho = u.noecho /\ v.canon = u.canon /\ v.mem = u.mem
                   /\ v.state = u.state /\ v.buf = u.buf /\ v.args = u.args
    BY DEF Views, ViewsAt
  <1>3. ASSUME NEW u \in Views
        PROVE  LET v == [u EXCEPT !.noecho = a]
               IN  /\ v.x = u.x /\ v.y = u.y /\ v.x_store = u.x_store /\ v.y_store = u.y_store
                   /\ v.attr = u.attr /\ v.noecho = a /\ v.canon = u.canon /\ v.mem = u.mem
                   /\ v.state = u.state /\ v.buf = u.buf /\ v.args = u.args
    BY DEF Views, ViewsAt
  <1>4. ASSUME NEW u \in Views
        PROVE  LET v == [u EXCEPT !.canon = a]
               IN  /\ v.x = u.x /\ v.y = u.y /\ v.x_store = u.x_store /\ v.y_store = u.y_store
                   /\ v.attr = u.attr /\ v.noecho = u.noecho /\ v.canon = a /\ v.mem = u.mem
                   /\ v.state = u.state /\ v.buf = u.buf /\ v.args = u.args
    BY DEF Views, ViewsAt
  <1>5. ASSUME NEW u \in Views
        PROVE  LET v == [u EXCEPT !.shown = a]
               IN  /\ v.x = u.x /\ v.y = u.y /\ v.x_store = u.x_store /\ v.y_store = u.y_store
                   /\ v.attr = u.attr /\ v.noecho = u.noecho /\ v.canon = u.canon /\ v.mem = u.mem
                   /\ v.state = u.state /\ v.buf = u.buf /\ v.args = u.args
    BY DEF Views, ViewsAt
  <1>6. Alike([s EXCEPT !.attr = a], [r EXCEPT !.attr = a]) /\ Still(s, [s EXCEPT !.attr = a])
    BY <1>1 DEF Alike, Still
  <1>7. /\ Alike([s EXCEPT !.x_store = a, !.y_store = b], [r EXCEPT !.x_store = a, !.y_store = b])
        /\ Still(s, [s EXCEPT !.x_store = a, !.y_store = b])
    BY <1>2 DEF Alike, Still
  <1>8. Alike([s EXCEPT !.noecho = a], [r EXCEPT !.noecho = a]) /\ Still(s, [s EXCEPT !.noecho = a])
    BY <1>3 DEF Alike, Still
  <1>9. Alike([s EXCEPT !.canon = a], [r EXCEPT !.canon = a]) /\ Still(s, [s EXCEPT !.canon = a])
    BY <1>4 DEF Alike, Still
  <1>10. Alike([s EXCEPT !.shown = a], [r EXCEPT !.shown = a]) /\ Still(s, [s EXCEPT !.shown = a])
    BY <1>5 DEF Alike, Still
  <1> QED
    BY <1>6, <1>7, <1>8, <1>9, <1>10, Zenon

\* Two operations on terminals that show the same leave the same.
Matched(s, p, q) == Alike(p, q) /\ Still(s, p)

\* What a sequence does.
LEMMA EscFuncsAlike ==
    ASSUME NEW s \in Views, NEW r \in Views, Alike(s, r), NEW f, NEW args \in Arglists
    PROVE  Matched(s, esc_funcs(f, args, s), esc_funcs(f, args, r))
  <1>1. \A n \in 1 .. Len(args) : args[n] \in Attributes
    BY DEF Arglists
  <1>2. /\ s \in Wide /\ r \in Wide /\ s.x_store \in Int /\ s.y_store \in Int
        /\ s.x = r.x /\ s.y = r.y /\ s.x_store = r.x_store /\ s.y_store = r.y_store /\ s.attr = r.attr
    BY CursorIs, Sizes DEF Views, ViewsAt, Columns, Rows, Alike
  <1>3. Matched(s, s, r)
    BY DEF Matched, Still
  <1>4. CASE f = "f"
    <2>1. PICK a : a = (s.attr \div 16) * 16 + ((IF args = <<>> THEN DEF_ATTR ELSE args[1]) % 16)
      OBVIOUS
    <2>2. esc_funcs(f, args, s) = [s EXCEPT !.attr = a] /\ esc_funcs(f, args, r) = [r EXCEPT !.attr = a]
      BY <1>2, <1>4, <2>1, Zenon DEF esc_funcs
    <2>3. Matched(s, [s EXCEPT !.attr = a], [r EXCEPT !.attr = a])
      BY FieldsAlike DEF Matched
    <2> QED
      BY <2>2, <2>3, Zenon
  <1>5. CASE f = "b"
    <2>1. PICK a : a = (s.attr % 16) + ((IF args = <<>> THEN DEF_ATTR \div 16 ELSE args[1]) % 16) * 16
      OBVIOUS
    <2>2. esc_funcs(f, args, s) = [s EXCEPT !.attr = a] /\ esc_funcs(f, args, r) = [r EXCEPT !.attr = a]
      BY <1>2, <1>5, <2>1, Zenon DEF esc_funcs
    <2>3. Matched(s, [s EXCEPT !.attr = a], [r EXCEPT !.attr = a])
      BY FieldsAlike DEF Matched
    <2> QED
      BY <2>2, <2>3, Zenon
  <1>6. CASE f = "p" /\ Len(args) > 1
    <2>1. args[2] - 1 \in Int /\ args[1] - 1 \in Int
      <3>1. 1 \in 1 .. Len(args) /\ 2 \in 1 .. Len(args)
        BY <1>6 DEF Arglists
      <3>2. args[1] \in Attributes /\ args[2] \in Attributes
        BY <1>1, <3>1
      <3> QED
        BY <3>2 DEF Attributes
    <2>2. /\ esc_funcs(f, args, s) = setpos(args[2] - 1, args[1] - 1, s)
          /\ esc_funcs(f, args, r) = setpos(args[2] - 1, args[1] - 1, r)
      BY <1>6, Zenon DEF esc_funcs
    <2> QED
      BY <1>2, <2>1, <2>2, SetPosAlike DEF Matched
  <1>7. CASE f = "e" /\ args = <<>>
    <2>1. /\ esc_funcs(f, args, s) = [s EXCEPT !.x_store = s.x, !.y_store = s.y]
          /\ esc_funcs(f, args, r) = [r EXCEPT !.x_store = s.x, !.y_store = s.y]
      BY <1>2, <1>7, Zenon DEF esc_funcs
    <2>2. Matched(s, [s EXCEPT !.x_store = s.x, !.y_store = s.y], [r EXCEPT !.x_store = s.x, !.y_store = s.y])
      BY FieldsAlike DEF Matched
    <2> QED
      BY <2>1, <2>2, Zenon
  <1>8. CASE f = "r" /\ args = <<>>
    <2>1. /\ esc_funcs(f, args, s) = setpos(s.x_store, s.y_store, s)
          /\ esc_funcs(f, args, r) = setpos(s.x_store, s.y_store, r)
      BY <1>2, <1>8, Zenon DEF esc_funcs
    <2> QED
      BY <1>2, <2>1, SetPosAlike DEF Matched
  <1>9. CASE f = "c" /\ args = <<>>
    <2>1. esc_funcs(f, args, s) = clear(s) /\ esc_funcs(f, args, r) = clear(r)
      BY <1>9, Zenon DEF esc_funcs
    <2> QED
      BY <2>1, ClearAlike DEF Matched
  <1>10. CASE f \in {"s", "S"} /\ args # <<>>
    <2> DEFINE mode(u) == CASE args[1] = 1 -> [u EXCEPT !.noecho = (f = "s")]
                            [] args[1] = 2 -> [u EXCEPT !.canon = (f = "s")]
                            [] args[1] = 3 -> [u EXCEPT !.shown = (f # "s")]
                            [] OTHER -> u
    <2>1. esc_funcs(f, args, s) = mode(s) /\ esc_funcs(f, args, r) = mode(r)
      BY <1>10, Zenon DEF esc_funcs
    <2>2. ASSUME NEW yes
          PROVE  /\ Matched(s, [s EXCEPT !.noecho = yes], [r EXCEPT !.noecho = yes])
                 /\ Matched(s, [s EXCEPT !.canon = yes], [r EXCEPT !.canon = yes])
                 /\ Matched(s, [s EXCEPT !.shown = yes], [r EXCEPT !.shown = yes])
      BY FieldsAlike DEF Matched
    <2>3. CASE args[1] = 1
      <3>1. mode(s) = [s EXCEPT !.noecho = (f = "s")] /\ mode(r) = [r EXCEPT !.noecho = (f = "s")]
        BY <2>3
      <3>2. Matched(s, [s EXCEPT !.noecho = (f = "s")], [r EXCEPT !.noecho = (f = "s")])
        BY <2>2, Zenon
      <3> HIDE DEF mode
      <3> QED
        BY <2>1, <3>1, <3>2, Zenon
    <2>4. CASE args[1] = 2
      <3>1. mode(s) = [s EXCEPT !.canon = (f = "s")] /\ mode(r) = [r EXCEPT !.canon = (f = "s")]
        BY <2>4
      <3>2. Matched(s, [s EXCEPT !.canon = (f = "s")], [r EXCEPT !.canon = (f = "s")])
        BY <2>2, Zenon
      <3> HIDE DEF mode
      <3> QED
        BY <2>1, <3>1, <3>2, Zenon
    <2>5. CASE args[1] = 3
      <3>1. mode(s) = [s EXCEPT !.shown = (f # "s")] /\ mode(r) = [r EXCEPT !.shown = (f # "s")]
        BY <2>5
      <3>2. Matched(s, [s EXCEPT !.shown = (f # "s")], [r EXCEPT !.shown = (f # "s")])
        BY <2>2, Zenon
      <3> HIDE DEF mode
      <3> QED
        BY <2>1, <3>1, <3>2, Zenon
    <2>6. CASE args[1] # 1 /\ args[1] # 2 /\ args[1] # 3
      <3>1. mode(s) = s /\ mode(r) = r
        BY <2>6, Zenon
      <3> QED
        BY <1>3, <2>1, <3>1, Zenon
    <2> QED
      BY <2>3, <2>4, <2>5, <2>6
  <1>11. CASE /\ f # "f" /\ f # "b" /\ ~(f = "p" /\ Len(args) > 1) /\ ~(f = "e" /\ args = <<>>)
              /\ ~(f = "r" /\ args = <<>>) /\ ~(f = "c" /\ args = <<>>)
              /\ ~(f \in {"s", "S"} /\ args # <<>>)
    <2>1. esc_funcs(f, args, s) = s /\ esc_funcs(f, args, r) = r
      BY <1>11, Zenon DEF esc_funcs
    <2> QED
      BY <1>3, <2>1, Zenon
  <1> QED
    BY <1>4, <1>5, <1>6, <1>7, <1>8, <1>9, <1>10, <1>11

----------------------------------------------------------------------------
(***************************************************************************)
(* A byte of a write, taken apart: what it does to the screen, and what it *)
(* does to the parser.                                                     *)
(***************************************************************************)
\* The arguments with one more.
MoreArgs(bf, ar) == IF Len(ar) < 3 THEN Append(ar, atoi(bf) % 256) ELSE ar

\* The byte is printed; it ends a sequence.
Prints(st, c) == c # "ESC" /\ (st = "IDLE" \/ (st = "A_ESCAPE" /\ c # "["))
Ends(st, c) ==
    c # "ESC" /\ ~isnum(c) /\ (st = "A_BRACKET" \/ (st = "ARG_PARSE" /\ c # ";"))

Ending(s) == IF s.state = "A_BRACKET" THEN <<>> ELSE MoreArgs(s.buf, s.args)

\* What byte c does to the screen u when the parser is that of s.
Shows(c, s, u) ==
    IF Prints(s.state, c) THEN putc(c, u)
    ELSE IF Ends(s.state, c) THEN esc_funcs(c, Ending(s), u) ELSE u

Parser(r, st, bf, ar) == r.state = st /\ r.buf = bf /\ r.args = ar

\* What it does to the parser.
Parses(c, s, r) ==
    /\ c = "ESC" => Parser(r, "A_ESCAPE", s.buf, s.args)
    /\ c # "ESC" /\ s.state = "IDLE" => Parser(r, "IDLE", s.buf, s.args)
    /\ c # "ESC" /\ s.state = "A_ESCAPE" /\ c = "[" => Parser(r, "A_BRACKET", s.buf, s.args)
    /\ c # "ESC" /\ s.state = "A_ESCAPE" /\ c # "[" => Parser(r, "A_ESCAPE", s.buf, s.args)
    /\ s.state = "A_BRACKET" /\ isnum(c) => Parser(r, "ARG_PARSE", <<c>>, <<>>)
    /\ c # "ESC" /\ s.state = "A_BRACKET" /\ ~isnum(c) => Parser(r, "IDLE", <<>>, <<>>)
    /\ s.state = "ARG_PARSE" /\ isnum(c) =>
          Parser(r, "ARG_PARSE", IF Len(s.buf) < 3 THEN Append(s.buf, c) ELSE s.buf, s.args)
    /\ s.state = "ARG_PARSE" /\ c = ";" =>
          Parser(r, "ARG_PARSE", <<>>, MoreArgs(s.buf, s.args))
    /\ c # "ESC" /\ s.state = "ARG_PARSE" /\ ~isnum(c) /\ c # ";" => Parser(r, "IDLE", <<>>, <<>>)

\* The characters of the sequences are different.
LEMMA Marks == ~isnum("ESC") /\ ~isnum("[") /\ ~isnum(";")
  BY DEF isnum, DigitValue

\* A store to the parser is not shown.
LEMMA ParserAlike ==
    ASSUME NEW s \in Views, NEW st, NEW bf, NEW ar,
           NEW r, r = [s EXCEPT !.state = st, !.buf = bf, !.args = ar]
    PROVE  Alike(r, s) /\ Parser(r, st, bf, ar)
  <1>1. /\ r.x = s.x /\ r.y = s.y /\ r.x_store = s.x_store /\ r.y_store = s.y_store
        /\ r.attr = s.attr /\ r.noecho = s.noecho /\ r.canon = s.canon /\ r.mem = s.mem
        /\ r.state = st /\ r.buf = bf /\ r.args = ar
    BY DEF Views, ViewsAt
  <1> QED
    BY <1>1 DEF Alike, Parser

\* One more argument.
LEMMA MoreArgsIs ==
    ASSUME NEW bf \in Buffers, NEW ar \in Arglists
    PROVE  MoreArgs(bf, ar) \in Arglists
  <1>1. PICK v \in Nat : v = atoi(bf)
    BY AtoiIs DEF Buffers
  <1>2. v % 256 \in Attributes
    BY DEF Attributes
  <1> QED
    BY <1>1, <1>2 DEF MoreArgs, Arglists

\* The arguments of a sequence that ends are bytes.
LEMMA EndingIs ==
    ASSUME NEW s \in Views
    PROVE  Ending(s) \in Arglists
  <1>1. <<>> \in Arglists
    BY DEF Arglists
  <1> QED
    BY <1>1, ParserFields, MoreArgsIs DEF Ending

\* A sequence ends with the arguments the parser collected.
LEMMA FinishShows ==
    ASSUME NEW s \in Views, NEW t \in Views, Alike(t, s), NEW f
    PROVE  Alike(Finish(f, t), esc_funcs(f, t.args, s)) /\ Parser(Finish(f, t), "IDLE", <<>>, <<>>)
  <1> DEFINE r == esc_funcs(f, t.args, t)
  <1>1. r \in Views
    BY ParserFields, EscFuncs DEF Keeps
  <1>2. Alike(r, esc_funcs(f, t.args, s))
    BY ParserFields, EscFuncsAlike DEF Matched
  <1>3. Finish(f, t) = [r EXCEPT !.state = "IDLE", !.buf = <<>>, !.args = <<>>]
    BY DEF Finish
  <1> HIDE DEF r
  <1>4. Alike(Finish(f, t), r) /\ Parser(Finish(f, t), "IDLE", <<>>, <<>>)
    BY <1>1, <1>3, ParserAlike
  <1> QED
    BY <1>2, <1>4, AlikeTwice

\* A byte does to the screen and to the parser what Shows and Parses say.
LEMMA ByteDoes ==
    ASSUME NEW s \in Views, NEW c \in Characters
    PROVE  Alike(WriteByte(s, c), Shows(c, s, s)) /\ Parses(c, s, WriteByte(s, c))
  <1>1. /\ s.state \in {"IDLE", "A_ESCAPE", "A_BRACKET", "ARG_PARSE"}
        /\ s.buf \in Buffers /\ s.args \in Arglists
    BY ParserFields DEF States
  <1>2. Alike(s, s)
    BY DEF Alike
  <1>3. CASE c = "ESC"
    <2>1. esc_parse(c, s) = <<FALSE, [s EXCEPT !.state = "A_ESCAPE"]>>
      BY <1>3 DEF esc_parse
    <2>2. WriteByte(s, c) = [s EXCEPT !.state = "A_ESCAPE"]
      BY <2>1 DEF WriteByte
    <2>3. [s EXCEPT !.state = "A_ESCAPE"] = [s EXCEPT !.state = "A_ESCAPE", !.buf = s.buf, !.args = s.args]
      BY DEF Views, ViewsAt
    <2>4. PICK r : r = WriteByte(s, c)
      OBVIOUS
    <2>5. Alike(r, s) /\ Parser(r, "A_ESCAPE", s.buf, s.args)
      BY <2>2, <2>3, <2>4, ParserAlike
    <2>6. Shows(c, s, s) = s
      BY <1>3 DEF Shows, Prints, Ends
    <2>7. Parses(c, s, r)
      BY <1>3, <2>5, Marks DEF Parses
    <2> QED
      BY <2>4, <2>5, <2>6, <2>7
  <1>4. CASE c # "ESC"
    <2>1. esc_parse(c, s) = InState(c, s)
      BY <1>4 DEF esc_parse
    <2>2. PICK r : r = WriteByte(s, c)
      OBVIOUS
    <2>3. CASE s.state = "IDLE" \/ (s.state = "A_ESCAPE" /\ c # "[")
      <3>1. InState(c, s) = <<TRUE, s>>
        BY <2>3 DEF InState
      <3>2. r = putc(c, s)
        BY <2>1, <2>2, <3>1 DEF WriteByte
      <3>3. Shows(c, s, s) = putc(c, s)
        BY <1>4, <2>3 DEF Shows, Prints
      <3>4. Alike(r, putc(c, s)) /\ Still(s, r)
        BY <1>2, <3>2, PutcAlike
      <3>5. Parses(c, s, r)
        BY <1>4, <2>3, <3>4, Marks DEF Parses, Parser, Still
      <3> QED
        BY <2>2, <3>3, <3>4, <3>5
    <2>4. CASE s.state = "A_ESCAPE" /\ c = "["
      <3>1. InState(c, s) = <<FALSE, [s EXCEPT !.state = "A_BRACKET"]>>
        BY <2>4, Zenon DEF InState
      <3>2. r = [s EXCEPT !.state = "A_BRACKET"]
        BY <2>1, <2>2, <3>1 DEF WriteByte
      <3>3. [s EXCEPT !.state = "A_BRACKET"] = [s EXCEPT !.state = "A_BRACKET", !.buf = s.buf, !.args = s.args]
        BY DEF Views, ViewsAt
      <3>4. Alike(r, s) /\ Parser(r, "A_BRACKET", s.buf, s.args)
        BY <3>2, <3>3, ParserAlike
      <3>5. Shows(c, s, s) = s
        BY <2>4 DEF Shows, Prints, Ends
      <3>6. Parses(c, s, r)
        BY <2>4, <3>4 DEF Parses
      <3> QED
        BY <2>2, <3>4, <3>5, <3>6
    <2>5. CASE s.state = "A_BRACKET" /\ isnum(c)
      <3>1. InState(c, s) = <<FALSE, [s EXCEPT !.state = "ARG_PARSE", !.args = <<>>, !.buf = <<c>>]>>
        BY <2>5, Zenon DEF InState
      <3>2. r = [s EXCEPT !.state = "ARG_PARSE", !.args = <<>>, !.buf = <<c>>]
        BY <2>1, <2>2, <3>1 DEF WriteByte
      <3>3. [s EXCEPT !.state = "ARG_PARSE", !.args = <<>>, !.buf = <<c>>]
              = [s EXCEPT !.state = "ARG_PARSE", !.buf = <<c>>, !.args = <<>>]
        BY DEF Views, ViewsAt
      <3>4. Alike(r, s) /\ Parser(r, "ARG_PARSE", <<c>>, <<>>)
        BY <3>2, <3>3, ParserAlike
      <3>5. Shows(c, s, s) = s
        BY <2>5 DEF Shows, Prints, Ends
      <3>6. Parses(c, s, r)
        BY <1>4, <2>5, <3>4 DEF Parses
      <3> QED
        BY <2>2, <3>4, <3>5, <3>6
    <2>6. CASE s.state = "A_BRACKET" /\ ~isnum(c)
      <3> DEFINE t == [s EXCEPT !.args = <<>>]
      <3>1. InState(c, s) = <<FALSE, Finish(c, t)>>
        BY <2>6, Zenon DEF InState
      <3>2. r = Finish(c, t)
        BY <2>1, <2>2, <3>1 DEF WriteByte
      <3>3. t = [s EXCEPT !.state = s.state, !.buf = s.buf, !.args = <<>>]
        BY DEF Views, ViewsAt
      <3>4. t \in Views
        <4>1. <<>> \in Arglists
          BY DEF Arglists
        <4> QED
          BY <4>1, SetArgs DEF Keeps
      <3> HIDE DEF t
      <3>5. Alike(t, s) /\ t.args = <<>>
        <4>1. Alike(t, s) /\ Parser(t, s.state, s.buf, <<>>)
          BY <3>3, ParserAlike
        <4> QED
          BY <4>1 DEF Parser
      <3>6. Alike(r, esc_funcs(c, <<>>, s)) /\ Parser(r, "IDLE", <<>>, <<>>)
        BY <3>2, <3>4, <3>5, FinishShows
      <3>7. Shows(c, s, s) = esc_funcs(c, <<>>, s)
        BY <1>4, <2>6 DEF Shows, Prints, Ends, Ending
      <3>8. Parses(c, s, r)
        BY <1>4, <2>6, <3>6 DEF Parses
      <3> QED
        BY <2>2, <3>6, <3>7, <3>8
    <2>7. CASE s.state = "ARG_PARSE" /\ isnum(c)
      <3>1. PICK bf : bf = IF Len(s.buf) < 3 THEN Append(s.buf, c) ELSE s.buf
        OBVIOUS
      <3>2. InState(c, s) = <<FALSE, [s EXCEPT !.buf = bf]>>
        BY <2>7, <3>1, Zenon DEF InState
      <3>3. r = [s EXCEPT !.buf = bf]
        BY <2>1, <2>2, <3>2 DEF WriteByte
      <3>4. [s EXCEPT !.buf = bf] = [s EXCEPT !.state = s.state, !.buf = bf, !.args = s.args]
        BY DEF Views, ViewsAt
      <3>5. Alike(r, s) /\ Parser(r, s.state, bf, s.args)
        BY <3>3, <3>4, ParserAlike
      <3>6. Shows(c, s, s) = s
        BY <2>7 DEF Shows, Prints, Ends
      <3>7. Parses(c, s, r)
        BY <1>4, <2>7, <3>1, <3>5, Marks DEF Parses
      <3> QED
        BY <2>2, <3>5, <3>6, <3>7
    <2>8. CASE s.state = "ARG_PARSE" /\ ~isnum(c)
      <3>1. PICK ar : ar = MoreArgs(s.buf, s.args)
        OBVIOUS
      <3>2. EndArg(s) = [s EXCEPT !.args = ar, !.buf = <<>>]
        BY <3>1 DEF EndArg, MoreArgs
      <3>3. [s EXCEPT !.args = ar, !.buf = <<>>] = [s EXCEPT !.state = s.state, !.buf = <<>>, !.args = ar]
        BY DEF Views, ViewsAt
      <3>4. PICK t \in Views : t = EndArg(s)
        BY EndArgIs DEF Keeps
      <3>5. Alike(t, s) /\ Parser(t, s.state, <<>>, ar)
        BY <3>2, <3>3, <3>4, ParserAlike
      <3>6. CASE c = ";"
        <4>1. InState(c, s) = <<FALSE, t>>
          BY <2>8, <3>4, <3>6, Zenon DEF InState
        <4>2. r = t
          BY <2>1, <2>2, <4>1 DEF WriteByte
        <4>3. Shows(c, s, s) = s
          BY <2>8, <3>6 DEF Shows, Prints, Ends
        <4>4. Parses(c, s, r)
          BY <1>4, <2>8, <3>1, <3>5, <3>6, <4>2 DEF Parses
        <4> QED
          BY <2>2, <3>5, <4>2, <4>3, <4>4
      <3>7. CASE c # ";"
        <4>1. InState(c, s) = <<FALSE, Finish(c, t)>>
          BY <2>8, <3>4, <3>7, Zenon DEF InState
        <4>2. r = Finish(c, t)
          BY <2>1, <2>2, <4>1 DEF WriteByte
        <4>3. Alike(r, esc_funcs(c, ar, s)) /\ Parser(r, "IDLE", <<>>, <<>>)
          BY <3>5, <4>2, FinishShows DEF Parser
        <4>4. Shows(c, s, s) = esc_funcs(c, ar, s)
          BY <1>4, <2>8, <3>1, <3>7 DEF Shows, Prints, Ends, Ending
        <4>5. Parses(c, s, r)
          BY <1>4, <2>8, <3>7, <4>3 DEF Parses
        <4> QED
          BY <2>2, <4>3, <4>4, <4>5
      <3> QED
        BY <3>6, <3>7
    <2> QED
      BY <1>1, <2>3, <2>4, <2>5, <2>6, <2>7, <2>8
  <1> QED
    BY <1>3, <1>4

\* Terminals that show the same and whose parsers are in the same state.
SameTerm(s, r) == Alike(s, r) /\ r.state = s.state /\ r.buf = s.buf /\ r.args = s.args

\* A byte does the same to terminals that show the same.
LEMMA ShowsAlike ==
    ASSUME NEW s \in Views, NEW u \in Views, NEW v \in Views, Alike(u, v), NEW c \in Characters
    PROVE  Alike(Shows(c, s, u), Shows(c, s, v)) /\ Shows(c, s, v) \in Views
  <1>1. Ending(s) \in Arglists
    BY EndingIs
  <1>2. CASE Prints(s.state, c)
    BY <1>2, Putc, PutcAlike DEF Shows
  <1>3. CASE ~Prints(s.state, c) /\ Ends(s.state, c)
    BY <1>1, <1>3, EscFuncs, EscFuncsAlike DEF Shows, Matched, Keeps
  <1>4. CASE ~Prints(s.state, c) /\ ~Ends(s.state, c)
    BY <1>4 DEF Shows
  <1> QED
    BY <1>2, <1>3, <1>4

\* A byte keeps them the same.
LEMMA SameByte ==
    ASSUME NEW s \in Views, NEW r \in Views, SameTerm(s, r), NEW c \in Characters
    PROVE  SameTerm(WriteByte(s, c), WriteByte(r, c))
  <1>1. Alike(s, r) /\ r.state = s.state /\ r.buf = s.buf /\ r.args = s.args
    BY DEF SameTerm
  <1>2. PICK p, q : p = WriteByte(s, c) /\ q = WriteByte(r, c)
    OBVIOUS
  <1>3. Alike(p, Shows(c, s, s)) /\ Parses(c, s, p) /\ Alike(q, Shows(c, r, r)) /\ Parses(c, r, q)
    BY <1>2, ByteDoes
  <1>4. Shows(c, r, r) = Shows(c, s, r)
    BY <1>1 DEF Shows, Ending
  <1>5. Alike(Shows(c, s, s), Shows(c, s, r))
    BY <1>1, ShowsAlike
  <1>6. Alike(p, q)
    BY <1>3, <1>4, <1>5, AlikeTwice, AlikeBack
  <1>7. s.state \in {"IDLE", "A_ESCAPE", "A_BRACKET", "ARG_PARSE"}
    BY ParserFields DEF States
  <1>8. q.state = p.state /\ q.buf = p.buf /\ q.args = p.args
    BY <1>1, <1>3, <1>7, Marks DEF Parses, Parser
  <1> QED
    BY <1>2, <1>6, <1>8 DEF SameTerm

\* And so does a write.
LEMMA SameBytes ==
    ASSUME NEW s \in Views, NEW r \in Views, SameTerm(s, r), NEW bytes \in Seq(Characters)
    PROVE  SameTerm(WriteBytes(s, bytes), WriteBytes(r, bytes))
  <1>1. PICK f : ByteRun(f, bytes, s)
    BY WriteBytesRuns
  <1>2. PICK g : ByteRun(g, bytes, r)
    BY WriteBytesRuns
  <1>3. Len(bytes) \in Nat
    OBVIOUS
  <1> DEFINE S == {n \in 0 .. Len(bytes) : SameTerm(f[n], g[n])}
  <1>4. 0 \in S
    BY <1>1, <1>2, <1>3 DEF ByteRun
  <1>5. \A n \in 0 .. Len(bytes) - 1 : n \in S => n + 1 \in S
    <2> SUFFICES ASSUME NEW n \in 0 .. Len(bytes) - 1, n \in S PROVE n + 1 \in S
      OBVIOUS
    <2>1. n \in 0 .. Len(bytes) /\ n + 1 \in 0 .. Len(bytes) /\ n + 1 \in 1 .. Len(bytes) /\ (n + 1) - 1 = n
      BY <1>3
    <2>2. PICK c \in Characters : c = bytes[n + 1]
      BY <2>1
    <2>3. f[n] \in Views /\ g[n] \in Views /\ SameTerm(f[n], g[n])
      BY <1>1, <1>2, <2>1 DEF ByteRun, Keeps
    <2>4. f[n + 1] = WriteByte(f[n], c) /\ g[n + 1] = WriteByte(g[n], c)
      BY <1>1, <1>2, <2>1, <2>2 DEF ByteRun
    <2>5. SameTerm(f[n + 1], g[n + 1])
      BY <2>3, <2>4, SameByte
    <2> QED
      BY <2>1, <2>5
  <1>6. 0 .. Len(bytes) \subseteq S
    <2> HIDE DEF S
    <2> QED
      BY <1>3, <1>4, <1>5, UpTo
  <1>7. Len(bytes) \in 0 .. Len(bytes)
    BY <1>3
  <1>8. SameTerm(f[Len(bytes)], g[Len(bytes)])
    BY <1>6, <1>7
  <1> QED
    BY <1>1, <1>2, <1>8 DEF ByteRun

\* Runs over the same bytes are the same.
LEMMA ByteRunOnce ==
    ASSUME NEW s \in Views, NEW bytes \in Seq(Characters), NEW f, ByteRun(f, bytes, s), NEW g,
           g[0] = s, NEW m \in 0 .. Len(bytes), \A n \in 1 .. m : g[n] = WriteByte(g[n - 1], bytes[n])
    PROVE  g[m] = f[m]
  <1>1. Len(bytes) \in Nat /\ m \in Nat
    OBVIOUS
  <1> DEFINE S == {n \in 0 .. m : g[n] = f[n]}
  <1>2. 0 \in S
    BY <1>1 DEF ByteRun
  <1>3. \A n \in 0 .. m - 1 : n \in S => n + 1 \in S
    <2> SUFFICES ASSUME NEW n \in 0 .. m - 1, n \in S PROVE n + 1 \in S
      OBVIOUS
    <2>1. n + 1 \in 0 .. m /\ n + 1 \in 1 .. m /\ n + 1 \in 1 .. Len(bytes) /\ (n + 1) - 1 = n
      BY <1>1
    <2>2. g[n + 1] = WriteByte(g[n], bytes[n + 1]) /\ f[n + 1] = WriteByte(f[n], bytes[n + 1])
      BY <2>1 DEF ByteRun
    <2> QED
      BY <2>1, <2>2
  <1>4. 0 .. m \subseteq S
    <2> HIDE DEF S
    <2> QED
      BY <1>1, <1>2, <1>3, UpTo
  <1> QED
    BY <1>1, <1>4

\* Two writes are one of both texts.
LEMMA WriteTwice ==
    ASSUME NEW s \in Views, NEW b \in Seq(Characters), NEW c \in Seq(Characters)
    PROVE  WriteBytes(WriteBytes(s, b), c) = WriteBytes(s, b \o c)
  <1>1. b \o c \in Seq(Characters) /\ Len(b) \in Nat /\ Len(c) \in Nat /\ Len(b \o c) = Len(b) + Len(c)
    OBVIOUS
  <1>2. PICK f : ByteRun(f, b \o c, s)
    BY <1>1, WriteBytesRuns
  <1>3. PICK p : ByteRun(p, b, s)
    BY WriteBytesRuns
  <1>4. PICK r \in Views : r = WriteBytes(s, b)
    BY WriteBytesIs DEF Keeps
  <1>5. PICK q : ByteRun(q, c, r)
    BY WriteBytesRuns
  <1>6. f[Len(b)] = p[Len(b)]
    <2>1. ASSUME NEW n \in 1 .. Len(b) PROVE f[n] = WriteByte(f[n - 1], b[n])
      <3>1. n \in 1 .. Len(b \o c) /\ (b \o c)[n] = b[n]
        BY <1>1
      <3> QED
        BY <1>2, <3>1 DEF ByteRun
    <2>2. f[0] = s /\ Len(b) \in 0 .. Len(b)
      BY <1>1, <1>2 DEF ByteRun
    <2> QED
      BY <1>3, <2>1, <2>2, ByteRunOnce
  <1>7. f[Len(b)] = r
    BY <1>3, <1>4, <1>6 DEF ByteRun
  <1> DEFINE g == [n \in 0 .. Len(c) |-> f[Len(b) + n]]
  <1>8. g[0] = r /\ g[Len(c)] = f[Len(b \o c)]
    BY <1>1, <1>7
  <1>9. ASSUME NEW n \in 1 .. Len(c) PROVE g[n] = WriteByte(g[n - 1], c[n])
    <2>1. PICK k \in Nat : k = Len(b) + n /\ k - 1 = Len(b) + (n - 1)
      BY <1>1
    <2>2. k \in 1 .. Len(b \o c) /\ (b \o c)[k] = c[n]
      BY <1>1, <2>1
    <2>3. f[k] = WriteByte(f[k - 1], c[n])
      BY <1>2, <2>2 DEF ByteRun
    <2>4. g[n] = f[k] /\ g[n - 1] = f[k - 1]
      BY <1>1, <2>1
    <2> QED
      BY <2>3, <2>4
  <1> HIDE DEF g
  <1>10. g[Len(c)] = q[Len(c)]
    BY <1>1, <1>5, <1>8, <1>9, ByteRunOnce
  <1> QED
    BY <1>2, <1>4, <1>5, <1>8, <1>10 DEF ByteRun

----------------------------------------------------------------------------
(***************************************************************************)
(* A terminal is as a terminal of its own that got the same bytes.         *)
(***************************************************************************)
\* A terminal of its own that is written to.
Start == Seen(FreshTerm(0), BlankMem, TRUE, <<0, 0>>, TRUE)

Fed(b) == WriteBytes(Start, b)

FedInv == \A t \in Terms : SameTerm(View(t), Fed(sent[t]))

\* What is the same field by field.
LEMMA SameFields ==
    ASSUME NEW s, NEW r, r.mem = s.mem, \A field \in Lasting : r[field] = s[field]
    PROVE  SameTerm(r, s)
  BY DEF Lasting, Fields, SameTerm, Alike

\* Being the same terminal is transitive.
LEMMA SameTwice ==
    ASSUME NEW s, NEW r, NEW q, SameTerm(s, r), SameTerm(r, q)
    PROVE  SameTerm(s, q)
  BY AlikeTwice DEF SameTerm

\* A terminal of its own.
LEMMA StartIs ==
    /\ Start \in Views /\ Start.mem = BlankMem
    /\ \A field \in Fields : Start[field] = FreshTerm(0)[field]
  <1>1. <<Blank, DEF_ATTR>> \in Cells
    BY Sizes, CellIs DEF Characters, Attributes
  <1>2. BlankMem \in Memory
    BY <1>1 DEF BlankMem, Memory
  <1>3. 0 \in Columns /\ 0 \in Rows /\ DEF_ATTR \in Attributes /\ FALSE \in Flags /\ TRUE \in Flags
        /\ "IDLE" \in States /\ <<>> \in Buffers /\ <<>> \in Arglists
    BY Sizes DEF Columns, Rows, Attributes, Flags, States, Buffers, Arglists
  <1>4. FreshTerm(0) =
          [x |-> 0, y |-> 0, x_store |-> 0, y_store |-> 0, attr |-> DEF_ATTR,
           noecho |-> FALSE, canon |-> FALSE, onVga |-> TRUE,
           state |-> "IDLE", buf |-> <<>>, args |-> <<>>]
    BY DEF FreshTerm
  <1>5. FreshTerm(0) \in TermsAt
    BY <1>3, <1>4, NewTerm, Zenon
  <1>6. <<0, 0>> \in Positions
    BY DEF Positions
  <1>7. PICK w \in TermsAt, m \in Memory, d \in Flags, h \in Positions :
          w = FreshTerm(0) /\ m = BlankMem /\ d = TRUE /\ h = <<0, 0>>
    BY <1>2, <1>3, <1>5, <1>6
  <1>8. Start = Seen(w, m, d, h, d)
    BY <1>7, Zenon DEF Start
  <1>9. /\ Seen(w, m, d, h, d) \in Views /\ Seen(w, m, d, h, d).mem = m
        /\ \A field \in Fields : Seen(w, m, d, h, d)[field] = w[field]
    BY SeenIs, SeenFields
  <1> QED
    BY <1>7, <1>8, <1>9

\* The terminals are so at first.
LEMMA FedInit == Init => FedInv
  <1> SUFFICES ASSUME Init, NEW t \in Terms PROVE SameTerm(View(t), Fed(sent[t]))
    BY DEF FedInv
  <1>1. TerminalsType
    BY Begin DEF IInv
  <1>2. Fed(sent[t]) = Start
    <2>1. sent[t] = <<>> /\ <<>> \in Seq(Characters) /\ Len(<<>>) = 0
      BY DEF Init
    <2>2. PICK f : ByteRun(f, <<>>, Start)
      BY <2>1, StartIs, WriteBytesRuns
    <2> QED
      BY <2>1, <2>2 DEF Fed, ByteRun
  <1>3. View(t).mem = MemoryOf(t) /\ \A field \in Fields : View(t)[field] = terms[t][field]
    BY <1>1, ViewNow
  <1>4. terms[t] = FreshTerm(t) /\ MemoryOf(t) = BlankMem
    BY DEF Init, MemoryOf
  <1>5. \A field \in Lasting : FreshTerm(t)[field] = FreshTerm(0)[field]
    <2> DEFINE w(v) == [x |-> 0, y |-> 0, x_store |-> 0, y_store |-> 0, attr |-> DEF_ATTR,
                        noecho |-> FALSE, canon |-> FALSE, onVga |-> v,
                        state |-> "IDLE", buf |-> <<>>, args |-> <<>>]
    <2>1. PICK p, q : p = (t = 0) /\ q = (0 = 0)
      BY Zenon
    <2>2. FreshTerm(t) = w(p) /\ FreshTerm(0) = w(q)
      BY <2>1, Zenon DEF FreshTerm
    <2>3. ASSUME NEW v
          PROVE  /\ w(v).x = 0 /\ w(v).y = 0 /\ w(v).x_store = 0 /\ w(v).y_store = 0
                 /\ w(v).attr = DEF_ATTR /\ w(v).noecho = FALSE /\ w(v).canon = FALSE
                 /\ w(v).state = "IDLE" /\ w(v).buf = <<>> /\ w(v).args = <<>>
      OBVIOUS
    <2> HIDE DEF w
    <2>4. \A field \in Lasting : w(p)[field] = w(q)[field]
      BY <2>3 DEF Lasting, Fields
    <2> QED
      BY <2>2, <2>4
  <1>6. View(t).mem = Start.mem /\ \A field \in Lasting : View(t)[field] = Start[field]
    BY <1>3, <1>4, <1>5, StartIs DEF Lasting
  <1> QED
    BY <1>2, <1>6, SameFields

\* And stay so.
LEMMA FedStep == IInv /\ SentType /\ FedInv /\ [Next]_vars => FedInv'
  <1> SUFFICES ASSUME IInv, SentType, FedInv, [Next]_vars, NEW u \in Terms
               PROVE  SameTerm(View(u)', Fed(sent'[u]))
    BY DEF FedInv
  <1>1. TerminalsType /\ CursorOfDisplayed /\ TerminalsType'
    BY Step DEF IInv
  <1>2. SameTerm(View(u), Fed(sent[u])) /\ View(u) \in Views
    BY <1>1, ViewIs DEF FedInv
  <1>3. ASSUME Shown(u)' = Shown(u), sent'[u] = sent[u]
        PROVE  SameTerm(View(u)', Fed(sent'[u]))
    <2>1. View(u)'.mem = View(u).mem /\ \A field \in Lasting : View(u)'[field] = View(u)[field]
      BY <1>1, <1>3, ShownSame
    <2>2. PICK r : r = View(u)'
      OBVIOUS
    <2>3. SameTerm(r, View(u))
      BY <2>1, <2>2, SameFields
    <2> QED
      BY <1>2, <1>3, <2>2, <2>3, SameTwice
  <1>4. ASSUME NEW t \in Terms, term_write(t) PROVE SameTerm(View(u)', Fed(sent'[u]))
    <2>1. PICK chunk \in Chunks : /\ Written(t, WriteBytes(View(t), chunk))
                                  /\ sent' = [sent EXCEPT ![t] = sent[t] \o chunk]
      BY <1>1, <1>4, WriteIs
    <2>2. CASE u # t
      <3>1. sent'[u] = sent[u]
        BY <2>1, <2>2 DEF SentType
      <3>2. Shown(u)' = Shown(u)
        BY <1>1, <1>4, <2>2, WriteKeepsOthers
      <3> QED
        BY <1>3, <3>1, <3>2
    <2>3. CASE u = t
      <3>1. PICK b \in Seq(Characters) : b = sent[u]
        BY DEF SentType
      <3>2. sent'[u] = b \o chunk /\ chunk \in Seq(Characters)
        BY <2>1, <2>3, <3>1, ChunkIs DEF SentType
      <3>3. PICK s : s = WriteBytes(View(u), chunk)
        OBVIOUS
      <3>4. View(u)'.mem = s.mem /\ \A field \in Fields : View(u)'[field] = s[field]
        BY <1>1, <2>1, <2>3, <3>3, WriteShows
      <3>5. PICK r : r = View(u)'
        OBVIOUS
      <3>6. SameTerm(r, s)
        BY <3>4, <3>5, SameFields DEF Lasting
      <3>7. Fed(b) \in Views
        BY StartIs, WriteBytesIs DEF Fed, Keeps
      <3>8. SameTerm(s, WriteBytes(Fed(b), chunk))
        BY <1>2, <3>1, <3>2, <3>3, <3>7, SameBytes
      <3>9. WriteBytes(Fed(b), chunk) = Fed(b \o chunk)
        BY <3>2, StartIs, WriteTwice DEF Fed
      <3> QED
        BY <3>2, <3>5, <3>6, <3>8, <3>9, SameTwice
    <2> QED
      BY <2>2, <2>3
  <1>5. ASSUME NEW t \in Terms, switch_term(t) PROVE SameTerm(View(u)', Fed(sent'[u]))
    <2>1. Shown(u)' = Shown(u)
      BY <1>1, <1>5, SwitchKeepsAll
    <2>2. sent'[u] = sent[u]
      BY <1>5 DEF switch_term, PutOn
    <2> QED
      BY <1>3, <2>1, <2>2
  <1>6. CASE UNCHANGED vars
    <2>1. View(u)' = View(u) /\ sent' = sent
      BY <1>6 DEF vars, View
    <2> QED
      BY <1>2, <2>1
  <1> QED
    BY <1>4, <1>5, <1>6 DEF Next

----------------------------------------------------------------------------
(***************************************************************************)
(* Where the sequences of a text are.                                      *)
(***************************************************************************)
\* A set of numbers has a least one.
LEMMA MinOf ==
    ASSUME NEW S, S # {}, S \subseteq Nat
    PROVE  Min(S) \in S /\ \A k \in S : Min(S) <= k
  <1>1. \E m \in S : \A k \in S : m <= k
    BY LeastNumber
  <1> QED
    BY <1>1 DEF Min

\* The lesser of two numbers.
LEMMA MinTwo ==
    ASSUME NEW a \in Int, NEW e \in Int
    PROVE  Min({a, e}) = IF a <= e THEN a ELSE e
  <1>1. PICK m \in Int : m = IF a <= e THEN a ELSE e
    OBVIOUS
  <1>2. \A k \in {a, e} : (\A j \in {a, e} : k <= j) <=> k = m
    BY <1>1
  <1>3. m \in {a, e}
    BY <1>1
  <1>4. Min({a, e}) = CHOOSE k \in {a, e} : \A j \in {a, e} : k <= j
    BY DEF Min
  <1>5. Min({a, e}) = m
    BY <1>2, <1>3, <1>4
  <1> QED
    BY <1>1, <1>5

Escapes(b, i) == {0} \cup {j \in 1 .. i : b[j] = "ESC"}
LastEsc(b, i) == Max(Escapes(b, i))
Brackets(b, i) == {k \in LastEsc(b, i) + 1 .. i : b[k] = "["}

\* The last escape among the first bytes.
LEMMA LastEscIs ==
    ASSUME NEW b, NEW i \in Nat
    PROVE  /\ LastEsc(b, i) \in Escapes(b, i) /\ LastEsc(b, i) \in 0 .. i
           /\ \A j \in Escapes(b, i) : j <= LastEsc(b, i)
  <1>1. Escapes(b, i) # {} /\ Escapes(b, i) \subseteq 0 .. i
    BY DEF Escapes
  <1> QED
    BY <1>1, MaxOf DEF LastEsc

\* It is the next byte, or the one it was.
LEMMA LastEscNext ==
    ASSUME NEW b, NEW i \in Nat
    PROVE  /\ LastEsc(b, 0) = 0
           /\ b[i + 1] = "ESC" => LastEsc(b, i + 1) = i + 1
           /\ b[i + 1] # "ESC" => LastEsc(b, i + 1) = LastEsc(b, i)
  <1>1. LastEsc(b, 0) = 0
    <2>1. LastEsc(b, 0) \in 0 .. 0
      BY LastEscIs
    <2> QED
      BY <2>1
  <1>2. /\ LastEsc(b, i + 1) \in Escapes(b, i + 1) /\ LastEsc(b, i + 1) \in 0 .. i + 1
        /\ \A j \in Escapes(b, i + 1) : j <= LastEsc(b, i + 1)
    BY LastEscIs
  <1>3. ASSUME b[i + 1] = "ESC" PROVE LastEsc(b, i + 1) = i + 1
    <2>1. i + 1 \in Escapes(b, i + 1)
      BY <1>3 DEF Escapes
    <2> QED
      BY <1>2, <2>1
  <1>4. ASSUME b[i + 1] # "ESC" PROVE LastEsc(b, i + 1) = LastEsc(b, i)
    <2>1. ASSUME NEW j PROVE j \in Escapes(b, i + 1) <=> j \in Escapes(b, i)
      BY <1>4 DEF Escapes
    <2>2. Escapes(b, i + 1) = Escapes(b, i)
      BY <2>1
    <2> QED
      BY <2>2 DEF LastEsc
  <1> QED
    BY <1>1, <1>3, <1>4

\* The opening bracket of a sequence, from the brackets behind the last escape.
LEMMA OpeningIs ==
    ASSUME NEW b, NEW i \in Nat
    PROVE  /\ Opening(b, i) = IF LastEsc(b, i) = 0 \/ Brackets(b, i) = {} THEN 0 ELSE Min(Brackets(b, i))
           /\ Opening(b, i) \in 0 .. i
           /\ Opening(b, i) > 0 <=> LastEsc(b, i) # 0 /\ Brackets(b, i) # {}
           /\ Opening(b, i) > 0 => /\ Opening(b, i) \in Brackets(b, i)
                                   /\ \A k \in Brackets(b, i) : Opening(b, i) <= k
  <1>1. Opening(b, i) = IF LastEsc(b, i) = 0 \/ Brackets(b, i) = {} THEN 0 ELSE Min(Brackets(b, i))
    BY DEF Opening, LastEsc, Escapes, Brackets
  <1>2. LastEsc(b, i) \in 0 .. i
    BY LastEscIs
  <1>3. Brackets(b, i) \subseteq 1 .. i /\ Brackets(b, i) \subseteq Nat
    BY <1>2 DEF Brackets
  <1>4. Brackets(b, i) # {} =>
          /\ Min(Brackets(b, i)) \in Brackets(b, i) /\ \A k \in Brackets(b, i) : Min(Brackets(b, i)) <= k
    BY <1>3, MinOf
  <1> QED
    BY <1>1, <1>3, <1>4

\* What the next byte does to it.
LEMMA OpeningNext ==
    ASSUME NEW b, NEW i \in Nat
    PROVE  /\ b[i + 1] = "ESC" => Opening(b, i + 1) = 0
           /\ b[i + 1] # "ESC" /\ LastEsc(b, i) = 0 => Opening(b, i + 1) = 0
           /\ b[i + 1] # "ESC" /\ Opening(b, i) > 0 => Opening(b, i + 1) = Opening(b, i)
           /\ LastEsc(b, i) > 0 /\ Opening(b, i) = 0 /\ b[i + 1] = "[" => Opening(b, i + 1) = i + 1
           /\ Opening(b, i) = 0 /\ b[i + 1] # "[" => Opening(b, i + 1) = 0
  <1>1. i + 1 \in Nat /\ LastEsc(b, i) \in 0 .. i
    BY LastEscIs
  <1>2. ASSUME b[i + 1] = "ESC" PROVE Opening(b, i + 1) = 0
    <2>1. LastEsc(b, i + 1) = i + 1
      BY <1>2, LastEscNext
    <2>2. Brackets(b, i + 1) = {}
      BY <2>1 DEF Brackets
    <2> QED
      BY <1>1, <2>2, OpeningIs
  <1>3. ASSUME b[i + 1] # "ESC" PROVE LastEsc(b, i + 1) = LastEsc(b, i)
    BY <1>3, LastEscNext
  <1>4. ASSUME b[i + 1] # "ESC", LastEsc(b, i) = 0 PROVE Opening(b, i + 1) = 0
    BY <1>1, <1>3, <1>4, OpeningIs
  <1>5. ASSUME b[i + 1] # "ESC", NEW k
        PROVE  k \in Brackets(b, i + 1) <=> k \in Brackets(b, i) \/ (k = i + 1 /\ b[k] = "[")
    BY <1>1, <1>3, <1>5 DEF Brackets
  <1>6. ASSUME b[i + 1] # "ESC", Opening(b, i) > 0 PROVE Opening(b, i + 1) = Opening(b, i)
    <2>1. PICK k : k = Opening(b, i)
      OBVIOUS
    <2>2. k \in Brackets(b, i) /\ k \in 0 .. i /\ LastEsc(b, i) # 0 /\ \A j \in Brackets(b, i) : k <= j
      BY <1>6, <2>1, OpeningIs
    <2>3. k \in Brackets(b, i + 1) /\ LastEsc(b, i + 1) # 0
      BY <1>3, <1>5, <1>6, <2>2
    <2>4. PICK m : m = Opening(b, i + 1)
      OBVIOUS
    <2>5. m \in Brackets(b, i + 1) /\ m \in 0 .. i + 1 /\ \A j \in Brackets(b, i + 1) : m <= j
      BY <1>1, <2>3, <2>4, OpeningIs
    <2>6. m <= k
      BY <2>3, <2>5
    <2>7. k <= m
      BY <1>5, <1>6, <2>2, <2>5
    <2> QED
      BY <2>1, <2>2, <2>4, <2>5, <2>6, <2>7
  <1>7. ASSUME Opening(b, i) = 0, LastEsc(b, i) # 0 PROVE Brackets(b, i) = {}
    BY <1>7, OpeningIs
  <1>8. ASSUME LastEsc(b, i) > 0, Opening(b, i) = 0, b[i + 1] = "[" PROVE Opening(b, i + 1) = i + 1
    <2>1. b[i + 1] # "ESC" /\ LastEsc(b, i) # 0
      BY <1>8
    <2>2. Brackets(b, i) = {}
      BY <1>7, <1>8, <2>1
    <2>3. i + 1 \in Brackets(b, i + 1) /\ \A k \in Brackets(b, i + 1) : k = i + 1
      BY <1>5, <1>8, <2>1, <2>2
    <2>4. LastEsc(b, i + 1) # 0
      BY <1>3, <2>1
    <2> QED
      BY <1>1, <2>3, <2>4, OpeningIs
  <1>9. ASSUME Opening(b, i) = 0, b[i + 1] # "[" PROVE Opening(b, i + 1) = 0
    <2>1. CASE b[i + 1] = "ESC"
      BY <1>2, <2>1
    <2>2. CASE b[i + 1] # "ESC" /\ LastEsc(b, i) = 0
      BY <1>4, <2>2
    <2>3. CASE b[i + 1] # "ESC" /\ LastEsc(b, i) # 0
      <3>1. Brackets(b, i) = {}
        BY <1>7, <1>9, <2>3
      <3>2. Brackets(b, i + 1) = {}
        BY <1>5, <1>9, <2>3, <3>1
      <3> QED
        BY <1>1, <3>2, OpeningIs
    <2> QED
      BY <2>1, <2>2, <2>3
  <1> QED
    BY <1>2, <1>4, <1>6, <1>8, <1>9

\* Byte c, at e behind the first i, as a final byte of a sequence opened at k.
FinalStep(b, k, i, e, c) ==
    /\ Finals(b, k, i) # {} => Finals(b, k, e) # {} /\ Min(Finals(b, k, e)) # e
    /\ Finals(b, k, i) = {} /\ isnum(c) => Finals(b, k, e) = {}
    /\ Finals(b, k, i) = {} /\ c = ";" /\ i # k => Finals(b, k, e) = {}
    /\ Finals(b, k, i) = {} /\ ~isnum(c) /\ (c = ";" => i = k) =>
          Finals(b, k, e) # {} /\ Min(Finals(b, k, e)) = e

\* Behind its bracket a sequence has no final byte yet, and each further byte
\* ends it or does not.
LEMMA FinalsNext ==
    ASSUME NEW b, NEW i \in Nat, NEW k \in 1 .. i
    PROVE  Finals(b, k, k) = {} /\ FinalStep(b, k, i, i + 1, b[i + 1])
  <1>0. k \in Nat /\ 1 <= k /\ k <= i
    OBVIOUS
  <1> DEFINE Final(e) == ~isnum(b[e]) /\ (b[e] = ";" => e = k + 1)
  <1>f. ASSUME NEW n \in Nat, NEW e PROVE e \in Finals(b, k, n) <=> e \in k + 1 .. n /\ Final(e)
    BY Zenon DEF Finals
  <1> HIDE DEF Final
  <1>1. Finals(b, k, k) = {} /\ Finals(b, k, i) \subseteq 1 .. i
    BY <1>0, <1>f
  <1>2. ASSUME NEW e
        PROVE  e \in Finals(b, k, i + 1) <=>
                 \/ e \in Finals(b, k, i)
                 \/ e = i + 1 /\ ~isnum(b[i + 1]) /\ (b[i + 1] = ";" => i = k)
    <2>1. e \in Finals(b, k, i + 1) <=> e \in Finals(b, k, i) \/ (e = i + 1 /\ Final(i + 1))
      BY <1>0, <1>f
    <2>2. Final(i + 1) <=> ~isnum(b[i + 1]) /\ (b[i + 1] = ";" => i = k)
      <3>1. i + 1 = k + 1 <=> i = k
        BY <1>0
      <3> QED
        BY <3>1, Zenon DEF Final
    <2> QED
      BY <2>1, <2>2
  <1>3. Finals(b, k, i + 1) \subseteq Nat
    BY <1>0, <1>f
  <1>4. Finals(b, k, i + 1) # {} =>
          /\ Min(Finals(b, k, i + 1)) \in Finals(b, k, i + 1)
          /\ \A e \in Finals(b, k, i + 1) : Min(Finals(b, k, i + 1)) <= e
    BY <1>3, MinOf
  <1>5. ASSUME Finals(b, k, i) # {}
        PROVE  Finals(b, k, i + 1) # {} /\ Min(Finals(b, k, i + 1)) # i + 1
    <2>1. PICK e \in Finals(b, k, i) : TRUE
      BY <1>5
    <2>2. e \in Finals(b, k, i + 1) /\ e \in 1 .. i
      BY <1>1, <1>2
    <2> QED
      BY <1>4, <2>2
  <1>6. ASSUME Finals(b, k, i) = {}, isnum(b[i + 1]) \/ (b[i + 1] = ";" /\ i # k)
        PROVE  Finals(b, k, i + 1) = {}
    BY <1>2, <1>6
  <1>7. ASSUME Finals(b, k, i) = {}, ~isnum(b[i + 1]), b[i + 1] = ";" => i = k
        PROVE  Finals(b, k, i + 1) # {} /\ Min(Finals(b, k, i + 1)) = i + 1
    <2>1. i + 1 \in Finals(b, k, i + 1) /\ \A e \in Finals(b, k, i + 1) : e = i + 1
      BY <1>2, <1>7
    <2> QED
      BY <1>4, <2>1
  <1> QED
    BY <1>1, <1>5, <1>6, <1>7 DEF FinalStep

----------------------------------------------------------------------------
(***************************************************************************)
(* The arguments of a sequence.                                            *)
(***************************************************************************)
\* p numbers its values in their order.
Rising(p, m) == p \in [0 .. m -> Nat] /\ \A u, v \in 0 .. m : u < v => p[u] < p[v]

Image(p, m) == {p[u] : u \in 0 .. m}

\* How many there are.
LEMMA Counted ==
    ASSUME NEW m \in Nat, NEW p, Rising(p, m), NEW n \in 0 .. m + 1
    PROVE  Cardinality({p[u] : u \in 0 .. n - 1}) = n
  <1> DEFINE T == {p[u] : u \in 0 .. n - 1}
             f == [a \in 1 .. n |-> p[a - 1]]
  <1>1. n \in Nat /\ \A a \in 1 .. n : a - 1 \in 0 .. n - 1 /\ a - 1 \in 0 .. m
    OBVIOUS
  <1>2. f \in [1 .. n -> T]
    BY <1>1
  <1>3. \A a, c \in 1 .. n : f[a] = f[c] => a = c
    <2> SUFFICES ASSUME NEW a \in 1 .. n, NEW c \in 1 .. n, f[a] = f[c], a # c PROVE FALSE
      OBVIOUS
    <2>1. PICK u \in 0 .. m, v \in 0 .. m : u = a - 1 /\ v = c - 1
      BY <1>1
    <2>2. p[u] = p[v] /\ (u < v \/ v < u) /\ p[u] \in Nat
      BY <2>1 DEF Rising
    <2> QED
      BY <2>2 DEF Rising
  <1>4. \A h \in T : \E a \in 1 .. n : f[a] = h
    <2> SUFFICES ASSUME NEW h \in T PROVE \E a \in 1 .. n : f[a] = h
      OBVIOUS
    <2>1. PICK u \in 0 .. n - 1 : h = p[u]
      OBVIOUS
    <2>2. u + 1 \in 1 .. n /\ f[u + 1] = h
      BY <1>1, <2>1
    <2> QED
      BY <2>2
  <1> HIDE DEF f, T
  <1>5. f \in Bijection(1 .. n, T)
    BY <1>2, <1>3, <1>4 DEF Bijection, Injection, Surjection, IsInjective
  <1>6. ExistsBijection(1 .. n, T)
    BY <1>5 DEF ExistsBijection
  <1>7. Cardinality(T) = n
    BY <1>1, <1>6, FS_CountingElements
  <1> QED
    BY <1>7 DEF T

Nth(S, n) == CHOOSE j \in S : Cardinality({h \in S : h < j}) = n

\* The number of a value is the number of lesser ones.
LEMMA Numbered ==
    ASSUME NEW m \in Nat, NEW p, Rising(p, m), NEW S, S = Image(p, m)
    PROVE  /\ Cardinality(S) = m + 1
           /\ \A n \in 0 .. m : Nth(S, n) = p[n]
  <1>1. Cardinality(S) = m + 1
    <2>1. m + 1 \in 0 .. m + 1 /\ (m + 1) - 1 = m
      OBVIOUS
    <2> QED
      BY <2>1, Counted DEF Image
  <1>2. ASSUME NEW n \in 0 .. m PROVE Cardinality({h \in S : h < p[n]}) = n
    <2>1. {h \in S : h < p[n]} = {p[u] : u \in 0 .. n - 1}
      <3>1. ASSUME NEW h PROVE h \in {g \in S : g < p[n]} <=> \E u \in 0 .. n - 1 : h = p[u]
        <4>1. ASSUME NEW u \in 0 .. m PROVE p[u] < p[n] <=> u < n
          <5>1. p[u] \in Nat /\ p[n] \in Nat /\ (u < n => p[u] < p[n]) /\ (n < u => p[n] < p[u])
            BY DEF Rising
          <5> QED
            BY <5>1
        <4>2. h \in S <=> \E u \in 0 .. m : h = p[u]
          BY DEF Image
        <4> QED
          BY <4>1, <4>2
      <3> QED
        BY <3>1
    <2>2. n \in 0 .. m + 1
      OBVIOUS
    <2> QED
      BY <2>1, <2>2, Counted
  <1>3. ASSUME NEW n \in 0 .. m PROVE Nth(S, n) = p[n]
    <2> DEFINE C(j) == Cardinality({h \in S : h < j})
    <2>1. p[n] \in S /\ C(p[n]) = n
      BY <1>2 DEF Image
    <2>2. ASSUME NEW j \in S, C(j) = n PROVE j = p[n]
      <3>1. PICK u \in 0 .. m : j = p[u]
        BY DEF Image
      <3>2. C(p[u]) = u
        BY <1>2
      <3> HIDE DEF C
      <3> QED
        BY <2>2, <3>1, <3>2
    <2> HIDE DEF C
    <2>3. (CHOOSE j \in S : C(j) = n) = p[n]
      BY <2>1, <2>2
    <2> QED
      BY <2>3 DEF C, Nth
  <1> QED
    BY <1>1, <1>3

\* One more, greater than the others.
Longer(p, m, e) == [u \in 0 .. m + 1 |-> IF u = m + 1 THEN e ELSE p[u]]

\* The rising numbers with a greater one behind them rise.
LEMMA LongerIs ==
    ASSUME NEW m \in Nat, NEW p, Rising(p, m), NEW e \in Nat, p[m] < e
    PROVE  /\ Rising(Longer(p, m, e), m + 1) /\ Longer(p, m, e)[m + 1] = e
           /\ \A u \in 0 .. m : Longer(p, m, e)[u] = p[u]
           /\ \A j : j \in Image(Longer(p, m, e), m + 1) <=> j \in Image(p, m) \/ j = e
  <1>1. PICK q : q = Longer(p, m, e)
    OBVIOUS
  <1>2. /\ q \in [0 .. m + 1 -> Nat] /\ q[m + 1] = e
        /\ \A u \in 0 .. m : q[u] = p[u] /\ p[u] \in Nat /\ u \in 0 .. m + 1
    BY <1>1 DEF Longer, Rising
  <1>3. ASSUME NEW u \in 0 .. m + 1, NEW v \in 0 .. m + 1, u < v PROVE q[u] < q[v]
    <2>1. u \in 0 .. m /\ (v \in 0 .. m \/ v = m + 1)
      BY <1>3
    <2>2. CASE v \in 0 .. m
      BY <1>2, <1>3, <2>1, <2>2 DEF Rising
    <2>3. CASE v = m + 1
      <3>1. m \in 0 .. m /\ (u = m \/ u < m)
        BY <2>1
      <3>2. p[u] <= p[m] /\ p[u] \in Nat /\ p[m] \in Nat
        BY <2>1, <3>1 DEF Rising
      <3> QED
        BY <1>2, <2>1, <2>3, <3>2
    <2> QED
      BY <2>1, <2>2, <2>3
  <1>4. Rising(q, m + 1)
    BY <1>2, <1>3 DEF Rising
  <1>5. ASSUME NEW j PROVE j \in Image(q, m + 1) <=> j \in Image(p, m) \/ j = e
    <2>1. j \in Image(q, m + 1) <=> \E u \in 0 .. m + 1 : j = q[u]
      BY DEF Image
    <2>2. j \in Image(p, m) <=> \E u \in 0 .. m : j = p[u]
      BY DEF Image
    <2>3. \A u : u \in 0 .. m + 1 <=> u \in 0 .. m \/ u = m + 1
      OBVIOUS
    <2> QED
      BY <1>2, <2>1, <2>2, <2>3
  <1> QED
    BY <1>1, <1>2, <1>4, <1>5

Cut(b, j) == b[j] = ";"

\* p are the opening bracket k and the semicolons behind it, up to byte i.
Cuts(b, k, i, p, m) ==
    /\ Rising(p, m) /\ p[0] = k /\ p[m] <= i
    /\ \A j : j \in Image(p, m) <=> j = k \/ (j \in k + 1 .. i /\ Cut(b, j))

\* The digits behind the cut u, of those before v.
Piece(b, u, v) == SubSeq(b, u + 1, Min({v - 1, u + 3}))

\* The arguments between m + 1 cuts.
ArgsOf(b, p, m) == [n \in 1 .. Min({3, m}) |-> atoi(Piece(b, p[n - 1], p[n])) % 256]

\* What lies between the cuts, and the final byte, are the arguments.
LEMMA ArgumentsIs ==
    ASSUME NEW b, NEW k \in Nat, NEW i \in Nat, k < i, NEW m \in Nat, NEW p, Cuts(b, k, i, p, m)
    PROVE  Arguments(b, k, i + 1) = ArgsOf(b, Longer(p, m, i + 1), m + 1)
  <1>1. PICK q : q = Longer(p, m, i + 1)
    OBVIOUS
  <1>2. Rising(p, m) /\ p[m] <= i /\ p[m] \in Nat
    <2>1. m \in 0 .. m
      OBVIOUS
    <2> QED
      BY <2>1 DEF Cuts, Rising
  <1>3. p[m] < i + 1 /\ i + 1 \in Nat
    BY <1>2
  <1>4. Rising(q, m + 1) /\ \A j : j \in Image(q, m + 1) <=> j \in Image(p, m) \/ j = i + 1
    BY <1>1, <1>2, <1>3, LongerIs
  <1> DEFINE e == i + 1
             seps == {k, e} \cup {j \in k + 1 .. e - 1 : b[j] = ";"}
             nth(n) == CHOOSE j \in seps : Cardinality({h \in seps : h < j}) = n
             run(n) == SubSeq(b, nth(n - 1) + 1, Min({nth(n) - 1, nth(n - 1) + 3}))
  <1>5. Arguments(b, k, e) = [n \in 1 .. Min({3, Cardinality(seps) - 1}) |-> atoi(run(n)) % 256]
    <2>1. e # k + 1
      OBVIOUS
    <2> HIDE DEF e
    <2> QED
      BY <2>1, Zenon DEF Arguments
  <1>6. seps = Image(q, m + 1)
    <2>1. e - 1 = i
      OBVIOUS
    <2>2. ASSUME NEW j PROVE j \in seps <=> j \in Image(q, m + 1)
      BY <1>4, <2>1 DEF Cuts, Cut
    <2> HIDE DEF seps
    <2> QED
      BY <2>2
  <1>7. PICK l \in Nat : l = m + 1
    OBVIOUS
  <1> HIDE DEF seps
  <1>8. Cardinality(seps) = l + 1 /\ \A n \in 0 .. m + 1 : nth(n) = q[n]
    <2>1. Rising(q, l) /\ seps = Image(q, l)
      BY <1>4, <1>6, <1>7
    <2>2. Cardinality(seps) = l + 1
      BY <2>1, Numbered
    <2>3. \A n \in 0 .. l : Nth(seps, n) = q[n]
      BY <2>1, Numbered
    <2>4. \A n : Nth(seps, n) = nth(n)
      BY Zenon DEF Nth
    <2> HIDE DEF nth
    <2> QED
      BY <1>7, <2>2, <2>3, <2>4
  <1> HIDE DEF nth
  <1>9. Cardinality(seps) - 1 = m + 1
    BY <1>7, <1>8
  <1>10. Min({3, m + 1}) <= m + 1 /\ Min({3, m + 1}) \in Nat
    BY MinTwo
  <1>11. ASSUME NEW n \in 1 .. Min({3, m + 1}) PROVE run(n) = Piece(b, q[n - 1], q[n])
    <2>1. n \in 0 .. m + 1 /\ n - 1 \in 0 .. m + 1
      BY <1>10
    <2>2. nth(n) = q[n] /\ nth(n - 1) = q[n - 1]
      BY <1>8, <2>1
    <2> QED
      BY <2>2, Zenon DEF Piece
  <1> HIDE DEF run
  <1>12. [n \in 1 .. Min({3, m + 1}) |-> atoi(run(n)) % 256] = ArgsOf(b, q, m + 1)
    BY <1>11 DEF ArgsOf
  <1> QED
    BY <1>1, <1>5, <1>9, <1>12

\* A function on 1 .. n is a sequence.
LEMMA FunIsSeq ==
    ASSUME NEW V, NEW n \in Nat, NEW f \in [1 .. n -> V]
    PROVE  f \in Seq(V) /\ Len(f) = n
  <1>1. f \in Seq(V)
    OBVIOUS
  <1> QED
    BY <1>1, LenProperties

\* Without a further cut there is none.
LEMMA ArgsNone == ASSUME NEW b, NEW p PROVE ArgsOf(b, p, 0) = <<>>
  <1>1. Min({3, 0}) = 0
    BY MinTwo
  <1> QED
    BY <1>1 DEF ArgsOf

\* A further cut ends an argument.
LEMMA ArgsMore ==
    ASSUME NEW b, NEW m \in Nat, NEW p, Rising(p, m), NEW e \in Nat, p[m] < e
    PROVE  ArgsOf(b, Longer(p, m, e), m + 1) = MoreArgs(Piece(b, p[m], e), ArgsOf(b, p, m))
  <1>1. PICK q : q = Longer(p, m, e)
    OBVIOUS
  <1>2. q[m + 1] = e /\ \A u \in 0 .. m : q[u] = p[u]
    BY <1>1, LongerIs
  <1> DEFINE X(n) == atoi(Piece(b, q[n - 1], q[n])) % 256
             V == {X(n) : n \in 1 .. m + 1}
  <1>3. ASSUME NEW n \in 1 .. m PROVE X(n) = atoi(Piece(b, p[n - 1], p[n])) % 256
    <2>1. n \in 0 .. m /\ n - 1 \in 0 .. m
      OBVIOUS
    <2>2. q[n] = p[n] /\ q[n - 1] = p[n - 1]
      BY <1>2, <2>1
    <2> QED
      BY <2>2
  <1>4. X(m + 1) = atoi(Piece(b, p[m], e)) % 256
    <2>1. m \in 0 .. m /\ (m + 1) - 1 = m
      OBVIOUS
    <2>2. q[(m + 1) - 1] = p[m]
      BY <1>2, <2>1
    <2> QED
      BY <1>2, <2>2
  <1>5. \A n \in 1 .. m + 1 : X(n) \in V
    OBVIOUS
  <1>6. ArgsOf(b, q, m + 1) = [n \in 1 .. Min({3, m + 1}) |-> X(n)]
    BY DEF ArgsOf
  <1> HIDE DEF X
  <1>7. Min({3, m}) = (IF 3 <= m THEN 3 ELSE m) /\ Min({3, m + 1}) = IF 3 <= m + 1 THEN 3 ELSE m + 1
    BY MinTwo
  <1>8. ArgsOf(b, p, m) = [n \in 1 .. Min({3, m}) |-> X(n)]
    <2>1. \A n \in 1 .. Min({3, m}) : n \in 1 .. m
      BY <1>7
    <2> QED
      BY <1>3, <2>1 DEF ArgsOf
  <1> HIDE DEF V
  <1>10. CASE m < 3
    <2>1. Min({3, m}) = m /\ Min({3, m + 1}) = m + 1
      BY <1>7, <1>10
    <2>2. PICK s \in Seq(V) : s = [n \in 1 .. m |-> X(n)] /\ Len(s) = m
      <3>1. [n \in 1 .. m |-> X(n)] \in [1 .. m -> V]
        BY <1>5
      <3> QED
        BY <3>1, FunIsSeq
    <2>3. [n \in 1 .. m + 1 |-> X(n)] = Append(s, X(m + 1))
      <3>1. PICK r \in Seq(V) : r = [n \in 1 .. m + 1 |-> X(n)] /\ Len(r) = m + 1
        <4>1. [n \in 1 .. m + 1 |-> X(n)] \in [1 .. m + 1 -> V] /\ m + 1 \in Nat
          BY <1>5
        <4> QED
          BY <4>1, FunIsSeq
      <3>2. Append(s, X(m + 1)) \in Seq(V) /\ Len(Append(s, X(m + 1))) = m + 1
        BY <1>5, <2>2
      <3>3. ASSUME NEW n \in 1 .. m + 1 PROVE r[n] = Append(s, X(m + 1))[n]
        BY <2>2, <3>1
      <3> QED
        BY <3>1, <3>2, <3>3, SeqEqual
    <2>4. ArgsOf(b, p, m) = s /\ ArgsOf(b, q, m + 1) = Append(s, X(m + 1))
      BY <1>6, <1>8, <2>1, <2>2, <2>3
    <2>5. Len(s) < 3
      BY <1>10, <2>2
    <2> QED
      BY <1>1, <1>4, <2>4, <2>5 DEF MoreArgs
  <1>11. CASE ~(m < 3)
    <2>1. Min({3, m}) = 3 /\ Min({3, m + 1}) = 3
      BY <1>7, <1>11
    <2>2. PICK s \in Seq(V) : s = [n \in 1 .. 3 |-> X(n)] /\ Len(s) = 3
      <3>1. PICK l \in Nat : l = 3
        OBVIOUS
      <3>2. PICK s : s = [n \in 1 .. 3 |-> X(n)]
        OBVIOUS
      <3>3. s \in [1 .. l -> V]
        BY <1>5, <1>11, <3>1, <3>2
      <3>4. s \in Seq(V) /\ Len(s) = l
        BY <3>3, FunIsSeq
      <3> QED
        BY <3>1, <3>2, <3>4
    <2>3. ArgsOf(b, p, m) = s /\ ArgsOf(b, q, m + 1) = s
      BY <1>6, <1>8, <2>1, <2>2
    <2>4. ~(Len(s) < 3)
      BY <2>2
    <2> QED
      BY <1>1, <2>3, <2>4 DEF MoreArgs
  <1> QED
    BY <1>10, <1>11

\* The digits of an argument, one by one, up to three.
LEMMA PieceNext ==
    ASSUME NEW b \in Seq(Characters), NEW i \in Nat, i < Len(b), NEW u \in 0 .. i
    PROVE  /\ Piece(b, i, i + 1) = <<>> /\ Piece(b, i, i + 2) = <<b[i + 1]>>
           /\ Piece(b, u, i + 2) = IF Len(Piece(b, u, i + 1)) < 3 THEN Append(Piece(b, u, i + 1), b[i + 1])
                                   ELSE Piece(b, u, i + 1)
  <1>1. Len(b) \in Nat /\ i + 1 \in 1 .. Len(b) /\ u \in Nat /\ u <= i
    OBVIOUS
  <1>2. Piece(b, i, i + 1) = <<>>
    <2>1. Min({(i + 1) - 1, i + 3}) = i
      BY MinTwo
    <2>2. SubSeq(b, i + 1, i) = <<>>
      BY SubSeqEmpty
    <2> QED
      BY <2>1, <2>2 DEF Piece
  <1>3. Piece(b, i, i + 2) = <<b[i + 1]>>
    <2>1. Min({(i + 2) - 1, i + 3}) = i + 1
      BY MinTwo
    <2>2. PICK k \in Nat : k = i + 1 /\ k \in 1 .. Len(b)
      BY <1>1
    <2>3. SubSeq(b, k, k) = <<b[k]>>
      <3>1. SubSeq(b, k, k) = SubSeq(b, k, k - 1) \o <<b[k]>>
        BY <2>2, SubSeqRecursiveSecond
      <3>2. SubSeq(b, k, k - 1) = <<>>
        BY SubSeqEmpty
      <3>3. PICK c \in Characters : c = b[k]
        BY <2>2
      <3>4. <<>> \o <<c>> = <<c>>
        OBVIOUS
      <3> QED
        BY <3>1, <3>2, <3>3, <3>4
    <2> QED
      BY <2>1, <2>2, <2>3 DEF Piece
  <1>4. CASE i < u + 3
    <2>1. Min({(i + 1) - 1, u + 3}) = i /\ Min({(i + 2) - 1, u + 3}) = i + 1
      <3>1. (i + 1) - 1 = i /\ (i + 2) - 1 = i + 1 /\ i <= u + 3 /\ i + 1 <= u + 3
        BY <1>1, <1>4
      <3> QED
        BY <3>1, MinTwo
    <2>2. Piece(b, u, i + 1) = SubSeq(b, u + 1, i) /\ Piece(b, u, i + 2) = SubSeq(b, u + 1, i + 1)
      BY <2>1 DEF Piece
    <2>3. \A j \in u + 1 .. i : b[j] \in Characters
      BY <1>1
    <2>4. SubSeq(b, u + 1, i) \in Seq(Characters) /\ Len(SubSeq(b, u + 1, i)) = i - u
      BY <1>1, <2>3, SubSeqProperties
    <2>5. SubSeq(b, u + 1, i + 1) = Append(SubSeq(b, u + 1, i), b[i + 1])
      <3>1. PICK x \in Nat, y \in Nat : /\ x = u + 1 /\ y = i + 1 /\ x \in 1 .. Len(b) /\ y \in x .. Len(b)
                                        /\ y - 1 = i
        BY <1>1
      <3>2. SubSeq(b, x, y) = SubSeq(b, x, y - 1) \o <<b[y]>>
        BY <3>1, SubSeqRecursiveSecond
      <3>3. PICK z \in Seq(Characters) : z = SubSeq(b, u + 1, i)
        BY <2>4
      <3>4. PICK c \in Characters : c = b[y]
        BY <3>1
      <3>5. z \o <<c>> = Append(z, c)
        OBVIOUS
      <3> QED
        BY <3>1, <3>2, <3>3, <3>4, <3>5
    <2>6. i - u < 3
      BY <1>1, <1>4
    <2> QED
      BY <1>2, <1>3, <2>2, <2>4, <2>5, <2>6
  <1>5. CASE ~(i < u + 3)
    <2>1. Min({(i + 1) - 1, u + 3}) = u + 3 /\ Min({(i + 2) - 1, u + 3}) = u + 3
      <3>1. (i + 1) - 1 = i /\ (i + 2) - 1 = i + 1 /\ u + 3 <= i /\ u + 3 <= i + 1 /\ ~(i + 1 <= u + 3)
        BY <1>1, <1>5
      <3> QED
        BY <3>1, MinTwo
    <2>2. Piece(b, u, i + 1) = SubSeq(b, u + 1, u + 3) /\ Piece(b, u, i + 2) = SubSeq(b, u + 1, u + 3)
      BY <2>1 DEF Piece
    <2>3. \A j \in u + 1 .. u + 3 : b[j] \in Characters
      BY <1>1, <1>5
    <2>4. Len(SubSeq(b, u + 1, u + 3)) = 3
      BY <1>1, <2>3, SubSeqProperties
    <2>5. PICK z : z = SubSeq(b, u + 1, u + 3) /\ Len(z) = 3
      BY <2>4
    <2>6. Piece(b, u, i + 1) = z /\ Piece(b, u, i + 2) = z /\ ~(Len(z) < 3)
      BY <2>2, <2>5
    <2> QED
      BY <1>2, <1>3, <2>6
  <1> QED
    BY <1>4, <1>5

\* What the parser holds of a sequence opened at k after i bytes.
Collected(b, k, i, bf, ar) ==
    \E m \in Nat : \E p : Cuts(b, k, i, p, m) /\ bf = Piece(b, p[m], i + 1) /\ ar = ArgsOf(b, p, m)

\* The first digit.
LEMMA CollectFirst ==
    ASSUME NEW b \in Seq(Characters), NEW k \in Nat, k < Len(b), isnum(b[k + 1])
    PROVE  Collected(b, k, k + 1, <<b[k + 1]>>, <<>>)
  <1>1. PICK m \in Nat : m = 0
    OBVIOUS
  <1>2. PICK p : p = [u \in 0 .. 0 |-> k]
    OBVIOUS
  <1>3. p[0] = k /\ Rising(p, 0)
    BY <1>2 DEF Rising
  <1>4. ~Cut(b, k + 1)
    BY Marks DEF Cut
  <1>5. \A j : j \in Image(p, 0) <=> j = k \/ (j \in k + 1 .. k + 1 /\ Cut(b, j))
    BY <1>3, <1>4 DEF Image
  <1>6. Cuts(b, k, k + 1, p, m)
    BY <1>1, <1>3, <1>5 DEF Cuts
  <1>7. Piece(b, p[m], (k + 1) + 1) = <<b[k + 1]>>
    <2>1. k \in 0 .. k /\ (k + 1) + 1 = k + 2
      OBVIOUS
    <2>2. Piece(b, k, k + 2) = <<b[k + 1]>>
      BY <2>1, PieceNext
    <2> QED
      BY <1>1, <1>3, <2>1, <2>2
  <1>8. ArgsOf(b, p, m) = <<>>
    BY <1>1, ArgsNone
  <1> QED
    BY <1>6, <1>7, <1>8 DEF Collected

\* A further digit.
LEMMA CollectDigit ==
    ASSUME NEW b \in Seq(Characters), NEW k \in Nat, NEW i \in Nat, k < i, i < Len(b), isnum(b[i + 1]),
           NEW bf, NEW ar, Collected(b, k, i, bf, ar)
    PROVE  Collected(b, k, i + 1, IF Len(bf) < 3 THEN Append(bf, b[i + 1]) ELSE bf, ar)
  <1>1. PICK m \in Nat : \E p : Cuts(b, k, i, p, m) /\ bf = Piece(b, p[m], i + 1) /\ ar = ArgsOf(b, p, m)
    BY DEF Collected
  <1>2. PICK p : Cuts(b, k, i, p, m) /\ bf = Piece(b, p[m], i + 1) /\ ar = ArgsOf(b, p, m)
    BY <1>1
  <1>3. Rising(p, m) /\ p[0] = k /\ p[m] <= i /\ p[m] \in Nat
    <2>1. m \in 0 .. m
      OBVIOUS
    <2> QED
      BY <1>2, <2>1 DEF Cuts, Rising
  <1>4. ~Cut(b, i + 1)
    BY Marks DEF Cut
  <1>5. \A j : j \in Image(p, m) <=> j = k \/ (j \in k + 1 .. i + 1 /\ Cut(b, j))
    <2>1. \A j : j \in Image(p, m) <=> j = k \/ (j \in k + 1 .. i /\ Cut(b, j))
      BY <1>2 DEF Cuts
    <2>2. \A j : j \in k + 1 .. i + 1 <=> j \in k + 1 .. i \/ j = i + 1
      OBVIOUS
    <2> QED
      BY <1>4, <2>1, <2>2
  <1>6. Cuts(b, k, i + 1, p, m)
    BY <1>3, <1>5 DEF Cuts
  <1>7. Piece(b, p[m], (i + 1) + 1) = IF Len(bf) < 3 THEN Append(bf, b[i + 1]) ELSE bf
    <2>1. PICK u \in 0 .. i : u = p[m]
      BY <1>3
    <2>2. (i + 1) + 1 = i + 2
      OBVIOUS
    <2>3. Piece(b, u, i + 2) = IF Len(Piece(b, u, i + 1)) < 3 THEN Append(Piece(b, u, i + 1), b[i + 1])
                               ELSE Piece(b, u, i + 1)
      BY PieceNext
    <2> QED
      BY <1>2, <2>1, <2>2, <2>3
  <1> QED
    BY <1>2, <1>6, <1>7 DEF Collected

\* A semicolon.
LEMMA CollectSemicolon ==
    ASSUME NEW b \in Seq(Characters), NEW k \in Nat, NEW i \in Nat, k < i, i < Len(b), Cut(b, i + 1),
           NEW bf, NEW ar, Collected(b, k, i, bf, ar)
    PROVE  Collected(b, k, i + 1, <<>>, MoreArgs(bf, ar))
  <1>1. PICK m \in Nat : \E p : Cuts(b, k, i, p, m) /\ bf = Piece(b, p[m], i + 1) /\ ar = ArgsOf(b, p, m)
    BY DEF Collected
  <1>2. PICK p : Cuts(b, k, i, p, m) /\ bf = Piece(b, p[m], i + 1) /\ ar = ArgsOf(b, p, m)
    BY <1>1
  <1>3. Rising(p, m) /\ p[0] = k /\ p[m] <= i /\ p[m] \in Nat
    <2>1. m \in 0 .. m
      OBVIOUS
    <2> QED
      BY <1>2, <2>1 DEF Cuts, Rising
  <1>4. PICK e \in Nat, l \in Nat : e = i + 1 /\ l = m + 1 /\ p[m] < e
    BY <1>3
  <1>5. PICK q : q = Longer(p, m, e)
    OBVIOUS
  <1>6. /\ Rising(q, l) /\ q[l] = e /\ \A u \in 0 .. m : q[u] = p[u]
        /\ \A j : j \in Image(q, l) <=> j \in Image(p, m) \/ j = e
    <2>1. /\ Rising(q, m + 1) /\ q[m + 1] = e /\ \A u \in 0 .. m : q[u] = p[u]
          /\ \A j : j \in Image(q, m + 1) <=> j \in Image(p, m) \/ j = e
      <3>1. /\ Rising(Longer(p, m, e), m + 1) /\ Longer(p, m, e)[m + 1] = e
            /\ \A u \in 0 .. m : Longer(p, m, e)[u] = p[u]
            /\ \A j : j \in Image(Longer(p, m, e), m + 1) <=> j \in Image(p, m) \/ j = e
        BY <1>3, <1>4, LongerIs
      <3> QED
        BY <1>5, <3>1
    <2> QED
      BY <1>4, <2>1
  <1>7. \A j : j \in Image(q, l) <=> j = k \/ (j \in k + 1 .. e /\ Cut(b, j))
    <2>1. \A j : j \in Image(p, m) <=> j = k \/ (j \in k + 1 .. i /\ Cut(b, j))
      BY <1>2 DEF Cuts
    <2>2. \A j : j \in k + 1 .. e <=> j \in k + 1 .. i \/ j = e
      BY <1>4
    <2> QED
      BY <1>4, <1>6, <2>1, <2>2
  <1>8. Cuts(b, k, e, q, l)
    <2>1. q[0] = k /\ q[l] <= e
      BY <1>3, <1>4, <1>6
    <2> QED
      BY <1>6, <1>7, <2>1 DEF Cuts
  <1>9. Piece(b, q[l], e + 1) = <<>>
    <2>1. Min({(e + 1) - 1, e + 3}) = e
      BY MinTwo
    <2>2. SubSeq(b, e + 1, e) = <<>>
      BY SubSeqEmpty
    <2> QED
      BY <1>6, <2>1, <2>2 DEF Piece
  <1>10. ArgsOf(b, q, l) = MoreArgs(bf, ar)
    BY <1>2, <1>3, <1>4, <1>5, ArgsMore
  <1>11. Collected(b, k, e, <<>>, MoreArgs(bf, ar))
    BY <1>8, <1>9, <1>10 DEF Collected
  <1> QED
    BY <1>4, <1>11

\* A final byte.
LEMMA CollectFinal ==
    ASSUME NEW b, NEW k \in Nat, NEW i \in Nat, k < i, NEW bf, NEW ar, Collected(b, k, i, bf, ar)
    PROVE  Arguments(b, k, i + 1) = MoreArgs(bf, ar)
  <1>1. PICK m \in Nat : \E p : Cuts(b, k, i, p, m) /\ bf = Piece(b, p[m], i + 1) /\ ar = ArgsOf(b, p, m)
    BY DEF Collected
  <1>2. PICK p : Cuts(b, k, i, p, m) /\ bf = Piece(b, p[m], i + 1) /\ ar = ArgsOf(b, p, m)
    BY <1>1
  <1>3. Rising(p, m) /\ p[m] < i + 1 /\ i + 1 \in Nat
    <2>1. m \in 0 .. m
      OBVIOUS
    <2>2. Rising(p, m) /\ p[m] <= i /\ p[m] \in Nat
      BY <1>2, <2>1 DEF Cuts, Rising
    <2> QED
      BY <2>2
  <1>4. Arguments(b, k, i + 1) = ArgsOf(b, Longer(p, m, i + 1), m + 1)
    BY <1>2, ArgumentsIs
  <1> QED
    BY <1>2, <1>3, <1>4, ArgsMore

----------------------------------------------------------------------------
(***************************************************************************)
(* The parser follows the sequences.                                       *)
(***************************************************************************)
\* What the state of the parser says about the first i bytes of b.
Stage(b, i, s) ==
    /\ s.state = "IDLE" =>
          LastEsc(b, i) = 0 \/ (Opening(b, i) > 0 /\ Finals(b, Opening(b, i), i) # {})
    /\ s.state = "A_ESCAPE" => LastEsc(b, i) > 0 /\ Opening(b, i) = 0
    /\ s.state = "A_BRACKET" => i > 0 /\ Opening(b, i) = i
    /\ s.state = "ARG_PARSE" =>
          /\ Opening(b, i) > 0 /\ Opening(b, i) < i /\ Finals(b, Opening(b, i), i) = {}
          /\ Collected(b, Opening(b, i), i, s.buf, s.args)

\* What the definition of Effect says, case by case.
LEMMA EffectCases ==
    ASSUME NEW b, NEW i, NEW u
    PROVE  /\ b[i] = "ESC" => Effect(b, i, u) = u
           /\ b[i] # "ESC" /\ Opening(b, i) = 0 => Effect(b, i, u) = putc(b[i], u)
           /\ b[i] # "ESC" /\ Opening(b, i) > 0 /\ Finals(b, Opening(b, i), i) = {} => Effect(b, i, u) = u
           /\ b[i] # "ESC" /\ Opening(b, i) > 0 /\ Finals(b, Opening(b, i), i) # {} =>
                 Effect(b, i, u) = IF Min(Finals(b, Opening(b, i), i)) = i
                                   THEN esc_funcs(b[i], Arguments(b, Opening(b, i), i), u)
                                   ELSE putc(b[i], u)
  <1>1. ASSUME b[i] = "ESC" PROVE Effect(b, i, u) = u
    BY <1>1 DEF Effect
  <1>2. ASSUME b[i] # "ESC", Opening(b, i) = 0 PROVE Effect(b, i, u) = putc(b[i], u)
    BY <1>2 DEF Effect
  <1>3. ASSUME b[i] # "ESC", Opening(b, i) > 0, Finals(b, Opening(b, i), i) = {}
        PROVE  Effect(b, i, u) = u
    BY <1>3 DEF Effect
  <1>4. ASSUME b[i] # "ESC", Opening(b, i) > 0, Finals(b, Opening(b, i), i) # {}
        PROVE  Effect(b, i, u) = IF Min(Finals(b, Opening(b, i), i)) = i
                                 THEN esc_funcs(b[i], Arguments(b, Opening(b, i), i), u)
                                 ELSE putc(b[i], u)
    BY <1>4 DEF Effect
  <1> QED
    BY <1>1, <1>2, <1>3, <1>4

\* A byte does what its place in the text says.
LEMMA StageByte ==
    ASSUME NEW b \in Seq(Characters), NEW i \in Nat, i < Len(b), NEW s \in Views, Stage(b, i, s),
           NEW r, Parses(b[i + 1], s, r), NEW u
    PROVE  Effect(b, i + 1, u) = Shows(b[i + 1], s, u) /\ Stage(b, i + 1, r)
  <1>0. PICK e \in Nat : e = i + 1
    OBVIOUS
  <1>1. PICK c : e = i + 1 /\ c = b[i + 1] /\ c = b[e]
    BY <1>0
  <1>2. s.state \in {"IDLE", "A_ESCAPE", "A_BRACKET", "ARG_PARSE"}
    BY ParserFields DEF States
  <1>3. Opening(b, i) \in 0 .. i /\ LastEsc(b, i) \in 0 .. i
    BY OpeningIs, LastEscIs
  <1>a. /\ c = "ESC" => LastEsc(b, e) = e /\ Opening(b, e) = 0
        /\ c # "ESC" => LastEsc(b, e) = LastEsc(b, i)
        /\ c # "ESC" /\ LastEsc(b, i) = 0 => Opening(b, e) = 0
        /\ c # "ESC" /\ Opening(b, i) > 0 => Opening(b, e) = Opening(b, i)
        /\ LastEsc(b, i) > 0 /\ Opening(b, i) = 0 /\ c = "[" => Opening(b, e) = e
        /\ Opening(b, i) = 0 /\ c # "[" => Opening(b, e) = 0
    <2>1. /\ b[i + 1] = "ESC" => LastEsc(b, i + 1) = i + 1
          /\ b[i + 1] # "ESC" => LastEsc(b, i + 1) = LastEsc(b, i)
      BY LastEscNext, Zenon
    <2>2. /\ b[i + 1] = "ESC" => Opening(b, i + 1) = 0
          /\ b[i + 1] # "ESC" /\ LastEsc(b, i) = 0 => Opening(b, i + 1) = 0
          /\ b[i + 1] # "ESC" /\ Opening(b, i) > 0 => Opening(b, i + 1) = Opening(b, i)
          /\ LastEsc(b, i) > 0 /\ Opening(b, i) = 0 /\ b[i + 1] = "[" => Opening(b, i + 1) = i + 1
          /\ Opening(b, i) = 0 /\ b[i + 1] # "[" => Opening(b, i + 1) = 0
      BY OpeningNext, Zenon
    <2> QED
      BY <1>1, <2>1, <2>2, Zenon
  <1>b. ASSUME NEW k \in 1 .. i PROVE FinalStep(b, k, i, e, c)
    <2>1. FinalStep(b, k, i, i + 1, b[i + 1])
      BY FinalsNext
    <2> QED
      BY <1>1, <2>1, Zenon
  <1>4. CASE c = "ESC"
    <2>1. Effect(b, e, u) = u
      BY <1>1, <1>4, EffectCases
    <2>2. Shows(c, s, u) = u
      BY <1>4 DEF Shows, Prints, Ends
    <2>3. r.state = "A_ESCAPE"
      BY <1>1, <1>4 DEF Parses, Parser
    <2>4. LastEsc(b, e) = e /\ e > 0 /\ Opening(b, e) = 0
      BY <1>1, <1>4, <1>a
    <2>5. Stage(b, e, r)
      BY <2>3, <2>4 DEF Stage
    <2> QED
      BY <1>1, <2>1, <2>2, <2>5
  <1>5. CASE c # "ESC" /\ s.state = "IDLE"
    <2>1. Shows(c, s, u) = putc(c, u) /\ r.state = "IDLE"
      BY <1>1, <1>5 DEF Shows, Prints, Parses, Parser
    <2>2. CASE LastEsc(b, i) = 0
      <3>1. LastEsc(b, e) = 0 /\ Opening(b, e) = 0
        BY <1>5, <1>a, <2>2
      <3>2. Effect(b, e, u) = putc(c, u)
        BY <1>1, <1>5, <3>1, EffectCases
      <3>3. Stage(b, e, r)
        BY <2>1, <3>1 DEF Stage
      <3> QED
        BY <1>1, <2>1, <3>2, <3>3
    <2>3. CASE LastEsc(b, i) # 0
      <3>1. PICK k \in 1 .. i : k = Opening(b, i) /\ Finals(b, k, i) # {}
        BY <1>3, <1>5, <2>3 DEF Stage
      <3>2. Opening(b, e) = k /\ k > 0
        BY <1>5, <1>a, <3>1
      <3>3. Finals(b, k, e) # {} /\ Min(Finals(b, k, e)) # e
        BY <1>b, <3>1 DEF FinalStep
      <3>4. Effect(b, e, u) = putc(c, u)
        BY <1>1, <1>5, <3>2, <3>3, EffectCases
      <3>5. Stage(b, e, r)
        BY <2>1, <3>2, <3>3 DEF Stage
      <3> QED
        BY <1>1, <2>1, <3>4, <3>5
    <2> QED
      BY <2>2, <2>3
  <1>6. CASE c # "ESC" /\ s.state = "A_ESCAPE"
    <2>1. LastEsc(b, i) > 0 /\ Opening(b, i) = 0 /\ LastEsc(b, e) > 0
      BY <1>6, <1>a DEF Stage
    <2>2. CASE c = "["
      <3>1. Opening(b, e) = e /\ e > 0
        BY <1>1, <1>a, <2>1, <2>2
      <3>2. Finals(b, e, e) = {}
        <4>1. e \in 1 .. e
          BY <3>1
        <4> QED
          BY <4>1, FinalsNext
      <3>3. Effect(b, e, u) = u
        BY <1>1, <1>6, <3>1, <3>2, EffectCases
      <3>4. Shows(c, s, u) = u
        BY <1>6, <2>2 DEF Shows, Prints, Ends
      <3>5. r.state = "A_BRACKET"
        BY <1>1, <1>6, <2>2 DEF Parses, Parser
      <3>6. Stage(b, e, r)
        BY <3>1, <3>5 DEF Stage
      <3> QED
        BY <1>1, <3>3, <3>4, <3>6
    <2>3. CASE c # "["
      <3>1. Opening(b, e) = 0
        BY <1>a, <2>1, <2>3
      <3>2. Effect(b, e, u) = putc(c, u)
        BY <1>1, <1>6, <3>1, EffectCases
      <3>3. Shows(c, s, u) = putc(c, u) /\ r.state = "A_ESCAPE"
        BY <1>1, <1>6, <2>3 DEF Shows, Prints, Parses, Parser
      <3>4. Stage(b, e, r)
        BY <2>1, <3>1, <3>3 DEF Stage
      <3> QED
        BY <1>1, <3>2, <3>3, <3>4
    <2> QED
      BY <2>2, <2>3
  <1>7. CASE c # "ESC" /\ s.state = "A_BRACKET"
    <2>1. i > 0 /\ Opening(b, i) = i /\ i \in 1 .. i
      BY <1>7 DEF Stage
    <2>2. Opening(b, e) = i /\ Finals(b, i, i) = {}
      <3>1. Finals(b, i, i) = {}
        BY <2>1, FinalsNext
      <3> QED
        BY <1>7, <1>a, <2>1, <3>1
    <2>3. CASE isnum(c)
      <3>1. Finals(b, i, e) = {}
        BY <1>b, <2>1, <2>2, <2>3 DEF FinalStep
      <3>2. Effect(b, e, u) = u
        BY <1>1, <1>7, <2>1, <2>2, <3>1, EffectCases
      <3>3. Shows(c, s, u) = u
        BY <1>7, <2>3 DEF Shows, Prints, Ends
      <3>4. r.state = "ARG_PARSE" /\ r.buf = <<c>> /\ r.args = <<>>
        BY <1>1, <1>7, <2>3 DEF Parses, Parser
      <3>5. Collected(b, i, e, <<c>>, <<>>)
        BY <1>1, <2>3, CollectFirst
      <3>6. i < e
        BY <1>1
      <3>7. Stage(b, e, r)
        BY <2>1, <2>2, <3>1, <3>4, <3>5, <3>6 DEF Stage
      <3> QED
        BY <1>1, <3>2, <3>3, <3>7
    <2>4. CASE ~isnum(c)
      <3>1. Finals(b, i, e) # {} /\ Min(Finals(b, i, e)) = e
        BY <1>b, <2>1, <2>2, <2>4 DEF FinalStep
      <3>2. Arguments(b, i, e) = <<>>
        BY <1>1 DEF Arguments
      <3>3. Effect(b, e, u) = esc_funcs(c, <<>>, u)
        BY <1>1, <1>7, <2>1, <2>2, <3>1, <3>2, EffectCases
      <3>4. Shows(c, s, u) = esc_funcs(c, <<>>, u)
        BY <1>7, <2>4 DEF Shows, Prints, Ends, Ending
      <3>5. r.state = "IDLE"
        BY <1>1, <1>7, <2>4 DEF Parses, Parser
      <3>6. Stage(b, e, r)
        BY <2>1, <2>2, <3>1, <3>5 DEF Stage
      <3> QED
        BY <1>1, <3>3, <3>4, <3>6
    <2> QED
      BY <2>3, <2>4
  <1>8. CASE c # "ESC" /\ s.state = "ARG_PARSE"
    <2>1. PICK k \in 1 .. i : /\ k = Opening(b, i) /\ k < i /\ Finals(b, k, i) = {}
                              /\ Collected(b, k, i, s.buf, s.args)
      BY <1>3, <1>8 DEF Stage
    <2>2. Opening(b, e) = k /\ k > 0 /\ k < e /\ k \in Nat /\ i # k
      BY <1>1, <1>8, <1>a, <2>1
    <2>3. CASE isnum(c)
      <3>1. Finals(b, k, e) = {}
        BY <1>b, <2>1, <2>3 DEF FinalStep
      <3>2. Effect(b, e, u) = u
        BY <1>1, <1>8, <2>2, <3>1, EffectCases
      <3>3. Shows(c, s, u) = u
        BY <1>8, <2>3 DEF Shows, Prints, Ends
      <3>4. PICK bf : bf = IF Len(s.buf) < 3 THEN Append(s.buf, c) ELSE s.buf
        OBVIOUS
      <3>5. r.state = "ARG_PARSE" /\ r.buf = bf /\ r.args = s.args
        BY <1>1, <1>8, <2>3, <3>4 DEF Parses, Parser
      <3>6. Collected(b, k, e, bf, s.args)
        BY <1>1, <2>1, <2>2, <2>3, <3>4, CollectDigit
      <3>7. Stage(b, e, r)
        BY <2>2, <3>1, <3>5, <3>6 DEF Stage
      <3> QED
        BY <1>1, <3>2, <3>3, <3>7
    <2>4. CASE c = ";"
      <3>1. Finals(b, k, e) = {}
        BY <1>b, <2>1, <2>2, <2>4 DEF FinalStep
      <3>2. Effect(b, e, u) = u
        BY <1>1, <1>8, <2>2, <3>1, EffectCases
      <3>3. Shows(c, s, u) = u
        BY <1>8, <2>4 DEF Shows, Prints, Ends
      <3>4. PICK ar : ar = MoreArgs(s.buf, s.args)
        OBVIOUS
      <3>5. r.state = "ARG_PARSE" /\ r.buf = <<>> /\ r.args = ar
        BY <1>1, <1>8, <2>4, <3>4 DEF Parses, Parser
      <3>6. Cut(b, i + 1)
        BY <1>1, <2>4 DEF Cut
      <3>7. Collected(b, k, e, <<>>, ar)
        BY <1>1, <2>1, <2>2, <3>4, <3>6, CollectSemicolon
      <3>8. Stage(b, e, r)
        BY <2>2, <3>1, <3>5, <3>7 DEF Stage
      <3> QED
        BY <1>1, <3>2, <3>3, <3>8
    <2>5. CASE ~isnum(c) /\ c # ";"
      <3>1. Finals(b, k, e) # {} /\ Min(Finals(b, k, e)) = e
        BY <1>b, <2>1, <2>5 DEF FinalStep
      <3>2. Arguments(b, k, e) = MoreArgs(s.buf, s.args)
        BY <1>1, <2>1, <2>2, CollectFinal
      <3>3. Effect(b, e, u) = esc_funcs(c, MoreArgs(s.buf, s.args), u)
        BY <1>1, <1>8, <2>2, <3>1, <3>2, EffectCases
      <3>4. Shows(c, s, u) = esc_funcs(c, MoreArgs(s.buf, s.args), u)
        BY <1>8, <2>5 DEF Shows, Prints, Ends, Ending
      <3>5. r.state = "IDLE"
        BY <1>1, <1>8, <2>5 DEF Parses, Parser
      <3>6. Stage(b, e, r)
        BY <2>2, <3>1, <3>5 DEF Stage
      <3> QED
        BY <1>1, <3>3, <3>4, <3>6
    <2> QED
      BY <2>3, <2>4, <2>5
  <1> QED
    BY <1>2, <1>4, <1>5, <1>6, <1>7, <1>8

\* A terminal of its own that got the bytes b shows what they mean.
LEMMA FedIsAlone ==
    ASSUME NEW b \in Seq(Characters)
    PROVE  Alike(Fed(b), Alone(b))
  <1>0. Len(b) \in Nat /\ Start \in Views
    BY StartIs
  <1>1. PICK g : ByteRun(g, b, Start)
    BY <1>0, WriteBytesRuns
  <1> DEFINE D == [p \in Nat \X Views |->
                     IF Effect(b, p[1], p[2]) \in Views THEN Effect(b, p[1], p[2]) ELSE p[2]]
             Is(h) == h = [n \in 0 .. Len(b) |-> IF n = 0 THEN Start ELSE Effect(b, n, h[n - 1])]
             after == CHOOSE h : Is(h)
  <1>2. D \in [Nat \X Views -> Views]
    OBVIOUS
  <1>3. ASSUME NEW n \in Nat, NEW v \in Views, Effect(b, n, v) \in Views
        PROVE  D[<<n, v>>] = Effect(b, n, v)
    BY <1>3
  <1> HIDE DEF D
  <1>4. PICK f \in [0 .. Len(b) -> Views] : Iterates(f, Len(b), Start, D)
    BY <1>0, <1>2, Recursion
  <1> DEFINE Good(n) == /\ Stage(b, n, g[n]) /\ Alike(g[n], f[n])
                        /\ n > 0 => f[n] = Effect(b, n, f[n - 1])
             S == {n \in 0 .. Len(b) : Good(n)}
  <1>5. 0 \in S
    <2>1. g[0] = Start /\ f[0] = Start
      BY <1>1, <1>4 DEF ByteRun, Iterates
    <2>2. Start.state = "IDLE"
      BY StartIs DEF Fields, FreshTerm
    <2>3. LastEsc(b, 0) = 0
      BY LastEscNext
    <2>4. Stage(b, 0, Start)
      BY <2>2, <2>3 DEF Stage
    <2>5. Alike(Start, Start)
      BY DEF Alike
    <2> QED
      BY <1>0, <2>1, <2>4, <2>5
  <1>6. \A n \in 0 .. Len(b) - 1 : n \in S => n + 1 \in S
    <2> SUFFICES ASSUME NEW n \in 0 .. Len(b) - 1, n \in S PROVE n + 1 \in S
      OBVIOUS
    <2>1. /\ n \in 0 .. Len(b) /\ n + 1 \in 0 .. Len(b) /\ n + 1 \in 1 .. Len(b) /\ (n + 1) - 1 = n
          /\ n \in Nat /\ n < Len(b) /\ n + 1 \in Nat
      BY <1>0
    <2>2. PICK c \in Characters : c = b[n + 1]
      BY <2>1
    <2>3. PICK s \in Views, u \in Views : s = g[n] /\ u = f[n]
      BY <1>1, <2>1 DEF ByteRun, Keeps
    <2>4. Stage(b, n, s) /\ Alike(s, u)
      BY <2>3
    <2>5. PICK r : r = g[n + 1] /\ r = WriteByte(s, c)
      BY <1>1, <2>1, <2>2, <2>3 DEF ByteRun
    <2>6. Alike(r, Shows(c, s, s)) /\ Parses(c, s, r)
      BY <2>5, ByteDoes
    <2>7. Effect(b, n + 1, u) = Shows(c, s, u) /\ Stage(b, n + 1, r)
      BY <2>1, <2>2, <2>4, <2>6, StageByte
    <2>8. Alike(Shows(c, s, s), Shows(c, s, u)) /\ Shows(c, s, u) \in Views
      BY <2>4, ShowsAlike
    <2>9. f[n + 1] = Effect(b, n + 1, u)
      <3>1. f[n + 1] = D[<<n + 1, u>>]
        BY <1>4, <2>1, <2>3 DEF Iterates
      <3> QED
        BY <1>3, <2>1, <2>7, <2>8, <3>1
    <2>10. Alike(r, f[n + 1])
      BY <2>6, <2>7, <2>8, <2>9, AlikeTwice
    <2>11. Good(n + 1)
      BY <2>1, <2>3, <2>5, <2>7, <2>9, <2>10
    <2> HIDE DEF Good
    <2> QED
      BY <2>1, <2>11
  <1> HIDE DEF Good
  <1>7. 0 .. Len(b) \subseteq S
    <2> HIDE DEF S
    <2> QED
      BY <1>0, <1>5, <1>6, UpTo
  <1>8. \A n \in 0 .. Len(b) : Good(n)
    BY <1>7
  <1> HIDE DEF S
  <1>9. Is(f)
    <2>1. ASSUME NEW n \in 0 .. Len(b)
          PROVE  f[n] = IF n = 0 THEN Start ELSE Effect(b, n, f[n - 1])
      <3>1. CASE n = 0
        BY <1>4, <3>1 DEF Iterates
      <3>2. CASE n # 0
        BY <1>8, <3>2 DEF Good
      <3> QED
        BY <3>1, <3>2
    <2> QED
      BY <2>1
  <1>10. Is(after)
    BY <1>9
  <1>11. Alone(b) = after[Len(b)]
    BY DEF Alone, Start
  <1> HIDE DEF after
  <1>12. \A n \in 0 .. Len(b) : after[n] = IF n = 0 THEN Start ELSE Effect(b, n, after[n - 1])
    BY <1>10
  <1>13. \A n \in 0 .. Len(b) : f[n] = IF n = 0 THEN Start ELSE Effect(b, n, f[n - 1])
    BY <1>9
  <1> HIDE DEF Is
  <1> DEFINE T == {n \in 0 .. Len(b) : after[n] = f[n]}
  <1>14. 0 .. Len(b) \subseteq T
    <2>1. 0 \in T
      BY <1>0, <1>12, <1>13
    <2>2. \A n \in 0 .. Len(b) - 1 : n \in T => n + 1 \in T
      <3> SUFFICES ASSUME NEW n \in 0 .. Len(b) - 1, n \in T PROVE n + 1 \in T
        OBVIOUS
      <3>1. n + 1 \in 0 .. Len(b) /\ n + 1 # 0 /\ (n + 1) - 1 = n
        BY <1>0
      <3>2. after[n + 1] = Effect(b, n + 1, after[n]) /\ f[n + 1] = Effect(b, n + 1, f[n])
        BY <1>12, <1>13, <3>1
      <3> QED
        BY <3>1, <3>2
    <2> HIDE DEF T
    <2> QED
      BY <1>0, <2>1, <2>2, UpTo
  <1>15. Len(b) \in 0 .. Len(b)
    BY <1>0
  <1>16. after[Len(b)] = f[Len(b)] /\ Alike(g[Len(b)], f[Len(b)])
    BY <1>8, <1>14, <1>15 DEF Good
  <1> QED
    BY <1>1, <1>11, <1>16 DEF Fed, ByteRun

\* A terminal shows exactly what was written to it, for every screen and every
\* text: sequences are recognised however they are cut into writes, their
\* arguments bounded, an unfinished one changes nothing, and neither writes to
\* other terminals nor switches between them make a difference (esc_parse,
\* esc_funcs, term_write, switch_term).
THEOREM WrittenIsShown == Spec => []ShowsWhatWasWritten
  <1>1. IInv /\ SentType /\ FedInv => ShowsWhatWasWritten
    <2> SUFFICES ASSUME IInv, SentType, FedInv, NEW t \in Terms
                 PROVE  \A field \in {"x", "y", "x_store", "y_store", "attr", "noecho", "canon", "mem"} :
                           View(t)[field] = Alone(sent[t])[field]
      BY DEF ShowsWhatWasWritten
    <2>1. PICK b \in Seq(Characters) : b = sent[t]
      BY DEF SentType
    <2>2. Alike(View(t), Fed(b))
      BY <2>1 DEF FedInv, SameTerm
    <2>3. Alike(Fed(b), Alone(b))
      BY FedIsAlone
    <2>4. Alike(View(t), Alone(b))
      BY <2>2, <2>3, AlikeTwice
    <2> QED
      BY <2>1, <2>4 DEF Alike
  <1>2. Init => IInv /\ SentType /\ FedInv
    BY Begin, PaperInit, FedInit
  <1>3. IInv /\ SentType /\ FedInv /\ [Next]_vars => (IInv /\ SentType /\ FedInv)'
    BY Step, SentStep, FedStep DEF IInv
  <1> QED
    BY <1>1, <1>2, <1>3, PTL DEF Spec
=============================================================================
