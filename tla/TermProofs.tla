----------------------------- MODULE TermProofs -----------------------------
(***************************************************************************)
(* Proofs about Term and Console, for every buffer size, character set and *)
(* screen size: the line and its reads, the keys as steps of LineEditor,   *)
(* and the echoed line as what the screen shows.                           *)
(***************************************************************************)
EXTENDS MCTerm, SequenceTheorems, FiniteSetTheorems, Induction

\* Min and Max of a set of numbers are what they say.
LEMMA MinOf ==
    ASSUME NEW S, S \subseteq Nat, S # {}
    PROVE  Min(S) \in S /\ \A n \in S : Min(S) <= n
  <1>1. \E m \in S : \A n \in S : m <= n
    BY LeastNumber
  <1> QED
    BY <1>1 DEF Min

\* Max is the greatest element of a bounded set.
LEMMA MaxOf ==
    ASSUME NEW S, S # {}, NEW b \in Nat, S \subseteq 0 .. b
    PROVE  Max(S) \in S /\ \A n \in S : n <= Max(S)
  <1>1. \E m \in S : \A n \in S : n <= m
    BY GreatestNumber
  <1>2. \E m \in S : \A n \in S : m >= n
    BY <1>1
  <1>3. Max(S) \in S /\ \A n \in S : Max(S) >= n
    BY <1>2 DEF Max
  <1> QED
    BY <1>3

\* The word loops stop within the text.
LEMMA WordStartBounds ==
    ASSUME TypeOK
    PROVE  WordStart \in 0 .. term_curpos
  <1> DEFINE S == {p \in 0 .. term_curpos : \A i \in p .. term_curpos - 1 :
                      term_buf[i] \in Alnum <=> term_buf[term_curpos - 1] \in Alnum}
  <1>1. term_curpos \in Nat
    BY DEF TypeOK
  <1>2. term_curpos \in S /\ S \subseteq Nat
    BY <1>1
  <1>3. Min(S) \in S
    <2> HIDE DEF S
    <2> QED
      BY <1>2, MinOf
  <1> QED
    BY <1>3 DEF WordStart

\* The end of the word lies between cursor and end of line.
LEMMA WordEndBounds ==
    ASSUME TypeOK
    PROVE  WordEnd \in term_curpos .. term_buf_count
  <1> DEFINE S == {p \in term_curpos .. term_buf_count : \A i \in term_curpos .. p - 1 :
                      term_buf[i] \in Alnum <=> term_buf[term_curpos] \in Alnum}
  <1>1. term_curpos \in Nat /\ term_buf_count \in Nat /\ term_curpos <= term_buf_count
    BY DEF TypeOK
  <1>2. term_curpos \in S /\ S \subseteq 0 .. term_buf_count
    BY <1>1
  <1>3. Max(S) \in S
    <2> HIDE DEF S
    <2> QED
      BY <1>1, <1>2, MaxOf
  <1> QED
    BY <1>3 DEF WordEnd

\* delch keeps the type and removes k characters.
LEMMA DelchType ==
    ASSUME TypeOK, NEW pos \in 0 .. term_buf_count, NEW k \in 0 .. pos, delch(k, pos)
    PROVE  /\ term_buf' \in [Cells -> Chars \cup {NL}]
           /\ term_buf_count' \in 0 .. TERM_BUF_SIZE
           /\ term_curpos' \in 0 .. term_buf_count'
  <1>1. /\ term_buf_count \in Nat /\ TERM_BUF_SIZE \in Nat
        /\ term_buf_count <= TERM_BUF_SIZE /\ pos \in Nat /\ k \in Nat
    BY TermAssumption DEF TypeOK
  <1>2. ASSUME NEW i \in Cells, i \in pos - k .. term_buf_count - k - 1
        PROVE  i + k \in Cells
    BY <1>1, <1>2 DEF Cells
  <1>3. term_buf' \in [Cells -> Chars \cup {NL}]
    BY <1>2 DEF delch, TypeOK
  <1> QED
    BY <1>1, <1>3 DEF delch

\* addch does so and adds at most one.
LEMMA AddchType ==
    ASSUME TypeOK, NEW ch \in Chars, NEW pos \in 0 .. term_buf_count, addch(ch, pos)
    PROVE  /\ term_buf' \in [Cells -> Chars \cup {NL}]
           /\ term_buf_count' \in 0 .. TERM_BUF_SIZE
           /\ term_curpos' \in 0 .. term_buf_count'
  <1>1. /\ term_buf_count \in Nat /\ TERM_BUF_SIZE \in Nat
        /\ term_buf_count <= TERM_BUF_SIZE /\ pos \in Nat
    BY TermAssumption DEF TypeOK
  <1>2. ASSUME NEW i \in Cells, i \in pos + 1 .. term_buf_count
        PROVE  i - 1 \in Cells
    BY <1>1, <1>2 DEF Cells
  <1>3. term_buf' \in [Cells -> Chars \cup {NL}]
    BY <1>2 DEF addch, TypeOK
  <1> QED
    BY <1>1, <1>3 DEF addch

\* The types hold at first.
LEMMA TypeInit == Init => TypeOK
  <1> SUFFICES ASSUME Init PROVE TypeOK
    OBVIOUS
  <1>1. term_buf \in [Cells -> Chars \cup {NL}]
    BY DEF Init
  <1>2. term_buf_count \in 0 .. TERM_BUF_SIZE /\ term_curpos \in 0 .. term_buf_count
    BY TermAssumption DEF Init
  <1> QED
    BY <1>1, <1>2 DEF Init, TypeOK

\* Every key and every read keeps the types.
LEMMA TypeStep == TypeOK /\ [Next]_vars => TypeOK'
  <1> SUFFICES ASSUME TypeOK, [Next]_vars PROVE TypeOK'
    OBVIOUS
  <1>1. /\ term_buf_count \in Nat /\ TERM_BUF_SIZE \in Nat /\ term_curpos \in Nat
        /\ term_curpos <= term_buf_count /\ term_buf_count <= TERM_BUF_SIZE
    BY TermAssumption DEF TypeOK
  <1>2. CASE Typed
    <2>1. PICK ch \in Chars : addch(ch, term_curpos)
      BY <1>2 DEF Typed
    <2> QED
      BY <1>1, <1>2, <2>1, AddchType DEF Typed, TypeOK
  <1>3. ASSUME NEW pos \in 0 .. term_buf_count, CursorTo(pos) PROVE TypeOK'
    BY <1>3 DEF CursorTo, TypeOK
  <1>4. CASE CharBack \/ CharForward \/ LineStart \/ LineEnd
    BY <1>1, <1>3, <1>4 DEF CharBack, CharForward, LineStart, LineEnd
  <1>5. CASE WordBack \/ WordForward
    <2>1. WordStart \in 0 .. term_buf_count /\ WordEnd \in 0 .. term_buf_count
      BY <1>1, WordStartBounds, WordEndBounds
    <2> QED
      BY <1>3, <1>5, <2>1 DEF WordBack, WordForward
  <1>6. ASSUME NEW k \in 0 .. term_curpos, KillBack(k) PROVE TypeOK'
    <2>1. delch(k, term_curpos)
      BY <1>6 DEF KillBack
    <2> QED
      BY <1>1, <1>6, <2>1, DelchType DEF KillBack, TypeOK
  <1>7. CASE KillChar \/ KillWord \/ KillLine
    <2>1. term_curpos - WordStart \in 0 .. term_curpos
      BY <1>1, WordStartBounds
    <2> QED
      BY <1>1, <1>6, <1>7, <2>1 DEF KillChar, KillWord, KillLine
  <1>8. CASE Return \/ set_canon \/ term_read \/ UNCHANGED vars
    BY <1>8 DEF Return, set_canon, term_read, lineVars, vars, TypeOK
  <1>9. CASE CanonKey
    <2>1. PICK ch \in Chars : addch(ch, term_buf_count)
      BY <1>9 DEF CanonKey
    <2> QED
      BY <1>1, <1>9, <2>1, AddchType DEF CanonKey, TypeOK
  <1>10. CASE term_read_canon
    <2>1. 1 \in 0 .. term_buf_count /\ 1 \in 0 .. 1 /\ delch(1, 1)
      BY <1>1, <1>10 DEF term_read_canon
    <2> QED
      BY <1>10, <2>1, DelchType DEF term_read_canon, TypeOK
  <1>11. CASE term_read_line
    <2>1. /\ term_buf' = [term_buf EXCEPT ![term_buf_count] = NL]
          /\ term_buf_count' = 0 /\ term_curpos' = 0 /\ UNCHANGED term_canon
          /\ term_read_done' = FALSE /\ reading' = FALSE
      BY <1>11 DEF term_read_line
    <2>2. term_buf' \in [Cells -> Chars \cup {NL}]
      BY <2>1 DEF TypeOK
    <2>3. /\ term_buf_count' \in 0 .. TERM_BUF_SIZE
          /\ term_curpos' \in 0 .. term_buf_count'
      BY <1>1, <2>1
    <2> QED
      BY <2>1, <2>2, <2>3 DEF TypeOK
  <1> QED
    BY <1>2, <1>4, <1>5, <1>7, <1>8, <1>9, <1>10, <1>11 DEF Next, Key

\* The cursor stays within the typed text and the text within its limit, for
\* every TERM_BUF_SIZE.
THEOREM TermTypeCorrect == Spec => []TypeOK
  BY TypeInit, TypeStep, PTL DEF Spec

----------------------------------------------------------------------------
(***************************************************************************)
(* Term implements LineEditor.                                             *)
(***************************************************************************)
Symbols == Chars \cup {NL}
Buffers == [Cells -> Symbols]
\* Bounds of a piece of the buffer.
Cuts == 0 .. TERM_BUF_SIZE + 1

\* The text of the cells m to n - 1: its length and its symbols.
LEMMA TextSeq ==
    ASSUME NEW f \in Buffers, NEW m \in Cuts, NEW n \in Cuts, m <= n
    PROVE  /\ Text(f, m, n) \in Seq(Symbols)
           /\ Len(Text(f, m, n)) = n - m
           /\ \A i \in 1 .. n - m : Text(f, m, n)[i] = f[m + i - 1]
  <1>1. m \in Nat /\ n \in Nat /\ n - m \in Nat /\ TERM_BUF_SIZE \in Nat
    BY TermAssumption DEF Cuts
  <1>2. ASSUME NEW i \in 1 .. n - m PROVE f[m + i - 1] \in Symbols
    <2>1. m + i - 1 \in Cells
      BY <1>1 DEF Cells, Cuts
    <2> QED
      BY <2>1 DEF Buffers
  <1>3. Text(f, m, n) \in [1 .. n - m -> Symbols]
    BY <1>2 DEF Text
  <1>4. Text(f, m, n) \in Seq(Symbols)
    BY <1>1, <1>3
  <1>5. DOMAIN Text(f, m, n) = 1 .. n - m
    BY DEF Text
  <1>6. Len(Text(f, m, n)) = n - m
    BY <1>1, <1>4, <1>5, LenProperties
  <1> QED
    BY <1>4, <1>6 DEF Text

\* A sequence that has the characters of a piece of the buffer is that piece.
LEMMA TextIs ==
    ASSUME NEW s \in Seq(Symbols), NEW f \in Buffers, NEW m \in Cuts, NEW n \in Cuts,
           m <= n, Len(s) = n - m, \A i \in 1 .. n - m : s[i] = f[m + i - 1]
    PROVE  s = Text(f, m, n)
  BY TextSeq, SeqEqual

\* len characters of f from m on are those of g from k on.
Agree(f, m, g, k, len) == \A i \in 1 .. len : f[m + i - 1] = g[k + i - 1]

\* Cells that agree hold the same text.
LEMMA TextSame ==
    ASSUME NEW f \in Buffers, NEW m \in Cuts, NEW n \in Cuts, m <= n,
           NEW g \in Buffers, NEW k \in Cuts, NEW l \in Cuts, k <= l,
           n - m = l - k, Agree(f, m, g, k, n - m)
    PROVE  Text(f, m, n) = Text(g, k, l)
  <1>1. /\ Text(f, m, n) \in Seq(Symbols) /\ Len(Text(f, m, n)) = n - m
        /\ \A i \in 1 .. n - m : Text(f, m, n)[i] = f[m + i - 1]
    BY TextSeq
  <1>2. Len(Text(f, m, n)) = l - k /\ \A i \in 1 .. l - k : Text(f, m, n)[i] = g[k + i - 1]
    BY <1>1 DEF Agree
  <1> HIDE DEF Text
  <1> QED
    BY <1>1, <1>2, TextIs

\* Texts of adjacent cells join.
LEMMA TextConcat ==
    ASSUME NEW f \in Buffers, NEW m \in Cuts, NEW k \in Cuts, NEW n \in Cuts,
           m <= k, k <= n
    PROVE  Text(f, m, k) \o Text(f, k, n) = Text(f, m, n)
  <1> DEFINE s == Text(f, m, k)
             t == Text(f, k, n)
  <1>1. m \in Nat /\ k \in Nat /\ n \in Nat /\ m <= n
    BY TermAssumption DEF Cuts
  <1>2. /\ s \in Seq(Symbols) /\ Len(s) = k - m
        /\ \A i \in 1 .. k - m : s[i] = f[m + i - 1]
    BY TextSeq
  <1>3. /\ t \in Seq(Symbols) /\ Len(t) = n - k
        /\ \A i \in 1 .. n - k : t[i] = f[k + i - 1]
    BY TextSeq
  <1> HIDE DEF s, t
  <1>4. /\ s \o t \in Seq(Symbols) /\ Len(s \o t) = n - m
        /\ \A i \in 1 .. n - m : (s \o t)[i] = IF i <= k - m THEN s[i] ELSE t[i - (k - m)]
    <2>1. /\ s \o t \in Seq(Symbols) /\ Len(s \o t) = Len(s) + Len(t)
          /\ \A i \in 1 .. Len(s) + Len(t) :
                (s \o t)[i] = IF i <= Len(s) THEN s[i] ELSE t[i - Len(s)]
      BY <1>2, <1>3, ConcatProperties
    <2>2. Len(s) + Len(t) = n - m
      BY <1>1, <1>2, <1>3
    <2> QED
      BY <1>2, <2>1, <2>2
  <1>5. ASSUME NEW i \in 1 .. n - m PROVE (s \o t)[i] = f[m + i - 1]
    <2>1. CASE i <= k - m
      BY <1>1, <1>2, <1>4, <2>1
    <2>2. CASE ~(i <= k - m)
      <3>1. i - (k - m) \in 1 .. n - k /\ k + (i - (k - m)) - 1 = m + i - 1
        BY <1>1, <2>2
      <3> QED
        BY <1>3, <1>4, <2>2, <3>1
    <2> QED
      BY <2>1, <2>2
  <1>6. s \o t = Text(f, m, n)
    BY <1>1, <1>4, <1>5, TextIs
  <1> QED
    BY <1>6 DEF s, t

\* A part of a text is the text of a part.
LEMMA TextSub ==
    ASSUME NEW f \in Buffers, NEW m \in Cuts, NEW n \in Cuts, m <= n,
           NEW i \in 1 .. n - m + 1, NEW j \in i - 1 .. n - m
    PROVE  SubSeq(Text(f, m, n), i, j) = Text(f, m + i - 1, m + j)
  <1> DEFINE s == Text(f, m, n)
  <1>1. /\ m \in Nat /\ n \in Nat /\ i \in Nat /\ j \in Nat /\ TERM_BUF_SIZE \in Nat
        /\ m + i - 1 \in Cuts /\ m + j \in Cuts /\ m + i - 1 <= m + j
    BY TermAssumption DEF Cuts
  <1>2. /\ s \in Seq(Symbols) /\ Len(s) = n - m
        /\ \A h \in 1 .. n - m : s[h] = f[m + h - 1]
    BY TextSeq
  <1> HIDE DEF s
  <1>3. /\ SubSeq(s, i, j) \in Seq(Symbols)
        /\ Len(SubSeq(s, i, j)) = j - i + 1
        /\ \A h \in 1 .. j - i + 1 : SubSeq(s, i, j)[h] = s[i + h - 1]
    <2>1. i \in 1 .. Len(s) + 1 /\ j \in i - 1 .. Len(s)
      BY <1>1, <1>2
    <2> QED
      BY <1>1, <1>2, <2>1, SubSeqProperties
  <1>4. ASSUME NEW h \in 1 .. j - i + 1 PROVE SubSeq(s, i, j)[h] = f[(m + i - 1) + h - 1]
    <2>1. i + h - 1 \in 1 .. n - m /\ m + (i + h - 1) - 1 = (m + i - 1) + h - 1
      BY <1>1
    <2> QED
      BY <1>2, <1>3, <2>1
  <1>5. (m + j) - (m + i - 1) = j - i + 1
    BY <1>1
  <1>6. SubSeq(s, i, j) = Text(f, m + i - 1, m + j)
    <2>1. PICK u \in Seq(Symbols), k \in Cuts, l \in Cuts :
             u = SubSeq(s, i, j) /\ k = m + i - 1 /\ l = m + j
      BY <1>1, <1>3
    <2>2. k <= l /\ Len(u) = l - k /\ \A h \in 1 .. l - k : u[h] = f[k + h - 1]
      BY <1>1, <1>3, <1>4, <1>5, <2>1
    <2>3. u = Text(f, k, l)
      BY <2>2, TextIs
    <2> QED
      BY <2>1, <2>3
  <1> QED
    BY <1>6 DEF s

\* A symbol stored behind a text joins it.
LEMMA TextAppend ==
    ASSUME NEW f \in Buffers, NEW g \in Buffers, NEW m \in Cuts, NEW n \in Cells, m <= n,
           \A i \in m .. n - 1 : g[i] = f[i]
    PROVE  Append(Text(f, m, n), g[n]) = Text(g, m, n + 1)
  <1> DEFINE s == Text(f, m, n)
  <1>1. m \in Nat /\ n \in Nat /\ n \in Cuts /\ n + 1 \in Cuts /\ m <= n + 1 /\ g[n] \in Symbols
    BY TermAssumption DEF Cuts, Cells, Buffers
  <1>2. /\ s \in Seq(Symbols) /\ Len(s) = n - m
        /\ \A h \in 1 .. n - m : s[h] = f[m + h - 1]
    BY <1>1, TextSeq
  <1> HIDE DEF s
  <1>3. /\ Append(s, g[n]) \in Seq(Symbols)
        /\ Len(Append(s, g[n])) = n + 1 - m
        /\ \A h \in 1 .. n - m : Append(s, g[n])[h] = s[h]
        /\ Append(s, g[n])[n - m + 1] = g[n]
    BY <1>1, <1>2, AppendProperties
  <1>4. ASSUME NEW h \in 1 .. n + 1 - m PROVE Append(s, g[n])[h] = g[m + h - 1]
    <2>1. CASE h = n - m + 1
      BY <1>1, <1>3, <2>1
    <2>2. CASE h # n - m + 1
      <3>1. h \in 1 .. n - m /\ m + h - 1 \in m .. n - 1
        BY <1>1, <2>2
      <3> QED
        BY <1>2, <1>3, <3>1
    <2> QED
      BY <2>1, <2>2
  <1>5. Append(s, g[n]) = Text(g, m, n + 1)
    <2>1. PICK u \in Seq(Symbols), l \in Cuts : u = Append(s, g[n]) /\ l = n + 1
      BY <1>1, <1>3
    <2>2. m <= l /\ Len(u) = l - m /\ \A h \in 1 .. l - m : u[h] = g[m + h - 1]
      BY <1>1, <1>3, <1>4, <2>1
    <2>3. u = Text(g, m, l)
      BY <2>2, TextIs
    <2> QED
      BY <2>1, <2>3
  <1> QED
    BY <1>5 DEF s

\* No cells hold no text.
LEMMA TextEmpty ==
    ASSUME NEW f \in Buffers, NEW m \in Cuts
    PROVE  Text(f, m, m) = <<>>
  <1>1. m \in Nat /\ m - m = 0
    BY TermAssumption DEF Cuts
  <1>2. Text(f, m, m) \in Seq(Symbols) /\ Len(Text(f, m, m)) = 0
    BY <1>1, TextSeq
  <1> QED
    BY <1>2, EmptySeq

\* The two parts of a cut.
LEMMA TextCut ==
    ASSUME NEW f \in Buffers, NEW n \in Cuts, NEW k \in 0 .. n
    PROVE  /\ SubSeq(Text(f, 0, n), 1, k) = Text(f, 0, k)
           /\ SubSeq(Text(f, 0, n), k + 1, n) = Text(f, k, n)
  <1>1. n \in Nat /\ k \in Nat /\ 0 \in Cuts /\ 0 <= n /\ k <= n /\ TERM_BUF_SIZE \in Nat
    BY TermAssumption DEF Cuts
  <1>2. \A i \in 1 .. n - 0 + 1 : \A j \in i - 1 .. n - 0 :
          SubSeq(Text(f, 0, n), i, j) = Text(f, 0 + i - 1, 0 + j)
    BY <1>1, TextSub
  <1>3. /\ 1 \in 1 .. n - 0 + 1 /\ k \in 1 - 1 .. n - 0 /\ 0 + 1 - 1 = 0 /\ 0 + k = k
        /\ k + 1 \in 1 .. n - 0 + 1 /\ n \in (k + 1) - 1 .. n - 0
        /\ 0 + (k + 1) - 1 = k /\ 0 + n = n
    BY <1>1
  <1>4. SubSeq(Text(f, 0, n), 1, k) = Text(f, 0 + 1 - 1, 0 + k)
    BY <1>2, <1>3
  <1>5. SubSeq(Text(f, 0, n), k + 1, n) = Text(f, 0 + (k + 1) - 1, 0 + n)
    BY <1>2, <1>3
  <1> QED
    BY <1>3, <1>4, <1>5

\* The first symbols of a text.
LEMMA TextFirst ==
    ASSUME NEW f \in Buffers, NEW m \in Cuts, NEW n \in Cuts, m <= n, NEW k \in 0 .. n - m
    PROVE  SubSeq(Text(f, m, n), 1, k) = Text(f, m, m + k)
  <1>1. /\ m \in Nat /\ n \in Nat /\ 1 \in 1 .. n - m + 1 /\ k \in 1 - 1 .. n - m
        /\ m + 1 - 1 = m
    BY TermAssumption DEF Cuts
  <1>2. SubSeq(Text(f, m, n), 1, k) = Text(f, m + 1 - 1, m + k)
    BY <1>1, TextSub
  <1> QED
    BY <1>1, <1>2

\* The edit line of a state.
LEMMA LineFacts ==
    ASSUME TypeOK
    PROVE  /\ term_buf \in Buffers /\ term_curpos \in Cuts /\ term_buf_count \in Cuts
           /\ term_curpos \in Nat /\ term_buf_count \in Nat /\ TERM_BUF_SIZE \in Nat
           /\ term_curpos <= term_buf_count /\ term_buf_count <= TERM_BUF_SIZE
           /\ 0 \in Cuts
           /\ left = Text(term_buf, 0, term_curpos) /\ Len(left) = term_curpos
           /\ right = Text(term_buf, term_curpos, term_buf_count)
           /\ Len(right) = term_buf_count - term_curpos
           /\ Editor!line = Text(term_buf, 0, term_buf_count)
           /\ Len(Editor!line) = term_buf_count
  <1>1. /\ term_buf \in Buffers /\ term_curpos \in Cuts /\ term_buf_count \in Cuts
        /\ term_curpos \in Nat /\ term_buf_count \in Nat /\ TERM_BUF_SIZE \in Nat
        /\ term_curpos <= term_buf_count /\ term_buf_count <= TERM_BUF_SIZE
        /\ 0 \in Cuts /\ 0 <= term_curpos /\ 0 <= term_buf_count
    BY TermAssumption DEF TypeOK, Buffers, Symbols, Cuts
  <1>2. /\ left = Text(term_buf, 0, term_curpos)
        /\ right = Text(term_buf, term_curpos, term_buf_count)
    BY DEF left, right
  <1>3. Len(left) = term_curpos /\ Len(right) = term_buf_count - term_curpos
    <2>1. Len(left) = term_curpos - 0
      BY <1>1, <1>2, TextSeq
    <2>2. Len(right) = term_buf_count - term_curpos
      BY <1>1, <1>2, TextSeq
    <2> QED
      BY <1>1, <2>1, <2>2
  <1>4. Editor!line = Text(term_buf, 0, term_buf_count)
    <2>1. Text(term_buf, 0, term_curpos) \o Text(term_buf, term_curpos, term_buf_count)
            = Text(term_buf, 0, term_buf_count)
      BY <1>1, TextConcat, Zenon
    <2> QED
      BY <1>2, <2>1 DEF Editor!line
  <1>5. Len(Editor!line) = term_buf_count
    <2>1. Len(Editor!line) = term_buf_count - 0
      BY <1>1, <1>4, TextSeq
    <2> QED
      BY <1>1, <2>1
  <1> QED
    BY <1>1, <1>2, <1>3, <1>4, <1>5

\* A cursor key leaves the text alone and cuts it elsewhere.
LEMMA MoveStep ==
    ASSUME TypeOK, NEW k \in 0 .. term_buf_count, CursorTo(k)
    PROVE  Editor!Move(k)
  <1>1. /\ ~term_canon /\ term_curpos' = k
        /\ UNCHANGED <<term_buf, term_buf_count, term_read_done, term_canon, reading, buf>>
    BY DEF CursorTo
  <1>2. left' = Text(term_buf, 0, k) /\ right' = Text(term_buf, k, term_buf_count)
    BY <1>1 DEF left, right
  <1>3. /\ SubSeq(Editor!line, 1, k) = Text(term_buf, 0, k)
        /\ SubSeq(Editor!line, k + 1, Len(Editor!line)) = Text(term_buf, k, term_buf_count)
    <2>1. /\ term_buf \in Buffers /\ term_buf_count \in Cuts
          /\ Editor!line = Text(term_buf, 0, term_buf_count) /\ Len(Editor!line) = term_buf_count
      BY LineFacts
    <2>2. /\ SubSeq(Text(term_buf, 0, term_buf_count), 1, k) = Text(term_buf, 0, k)
          /\ SubSeq(Text(term_buf, 0, term_buf_count), k + 1, term_buf_count)
               = Text(term_buf, k, term_buf_count)
      BY <2>1, TextCut
    <2> QED
      BY <2>1, <2>2
  <1> QED
    BY <1>1, <1>2, <1>3 DEF Editor!Move

\* A kill key shortens the text before the cursor and keeps the rest.
LEMMA KillStep ==
    ASSUME TypeOK, NEW k \in 0 .. term_curpos, KillBack(term_curpos - k)
    PROVE  Editor!Kill(k)
  <1>1. /\ ~term_canon
        /\ UNCHANGED <<term_read_done, term_canon, reading, buf>>
        /\ delch(term_curpos - k, term_curpos)
    BY DEF KillBack
  <1> DEFINE d == term_curpos - k
             n == term_buf_count - d
  <1>2. /\ k \in Nat /\ d \in Nat /\ n \in Nat /\ k <= n /\ k \in Cuts /\ n \in Cuts
        /\ term_curpos - d = k /\ d \in 0 .. term_curpos
        /\ n - k = term_buf_count - term_curpos
    BY LineFacts DEF Cuts
  <1>3. term_curpos' = k /\ term_buf_count' = n
    BY <1>1, <1>2 DEF delch
  <1>4. \A i \in Cells : term_buf'[i] = IF i \in k .. n - 1 THEN term_buf[i + d]
                                        ELSE term_buf[i]
    BY <1>1, <1>2 DEF delch
  <1>5. term_buf' \in Buffers
    BY <1>1, <1>2, LineFacts, DelchType DEF Buffers, Symbols
  <1>6. left' = Text(term_buf', 0, k) /\ right' = Text(term_buf', k, n)
    BY <1>3 DEF left, right
  <1>7. Text(term_buf', 0, k) = Text(term_buf, 0, k)
    <2>1. ASSUME NEW i \in 1 .. k - 0 PROVE term_buf'[0 + i - 1] = term_buf[0 + i - 1]
      <3>1. TERM_BUF_SIZE \in Nat /\ k <= TERM_BUF_SIZE
        BY <1>2, LineFacts DEF Cuts
      <3>2. 0 + i - 1 \in Cells /\ 0 + i - 1 \notin k .. n - 1
        <4> HIDE DEF d, n
        <4> QED
          BY <1>2, <3>1 DEF Cells
      <3> QED
        BY <1>4, <3>2
    <2>2. Agree(term_buf', 0, term_buf, 0, k - 0)
      BY <2>1 DEF Agree
    <2>3. 0 <= k /\ term_buf \in Buffers /\ 0 \in Cuts /\ k \in Cuts /\ term_buf' \in Buffers
      BY <1>2, <1>5, LineFacts
    <2> HIDE DEF d, n
    <2> QED
      BY <2>2, <2>3, TextSame
  <1>8. Text(term_buf', k, n) = Text(term_buf, term_curpos, term_buf_count)
    <2>1. ASSUME NEW i \in 1 .. n - k
          PROVE  term_buf'[k + i - 1] = term_buf[term_curpos + i - 1]
      <3>1. /\ k \in Nat /\ n \in Nat /\ n <= TERM_BUF_SIZE /\ TERM_BUF_SIZE \in Nat
            /\ term_curpos \in Nat /\ i \in Nat /\ i >= 1 /\ i <= n - k
        BY <1>2, LineFacts DEF Cuts
      <3>2. k + i - 1 \in Cells /\ k + i - 1 \in k .. n - 1
        <4> HIDE DEF d, n
        <4> QED
          BY <3>1 DEF Cells
      <3>3. (k + i - 1) + d = term_curpos + i - 1
        BY <3>1
      <3> QED
        BY <1>4, <3>2, <3>3
    <2>2. Agree(term_buf', k, term_buf, term_curpos, n - k)
      BY <2>1 DEF Agree
    <2>3. /\ term_buf \in Buffers /\ term_curpos \in Cuts /\ term_buf_count \in Cuts
          /\ term_curpos <= term_buf_count /\ k \in Cuts /\ n \in Cuts /\ k <= n
          /\ term_buf' \in Buffers /\ n - k = term_buf_count - term_curpos
      BY <1>2, <1>5, LineFacts
    <2> HIDE DEF n
    <2> QED
      BY <2>2, <2>3, TextSame
  <1>9. SubSeq(left, 1, k) = Text(term_buf, 0, k)
    BY LineFacts, TextCut
  <1>10. left' = SubSeq(left, 1, k) /\ right' = right
    BY <1>6, <1>7, <1>8, <1>9, LineFacts
  <1> QED
    BY <1>1, <1>10 DEF Editor!Kill

\* A piece of the buffer is a word, or a run of other characters, when all its
\* characters are of the kind of one of them.
Uniform(f, m, n, e) == \A i \in m .. n - 1 : f[i] \in Alnum <=> f[e] \in Alnum

\* A text is of one kind if its cells are.
LEMMA SameKindText ==
    ASSUME NEW f \in Buffers, NEW m \in Cuts, NEW n \in Cuts, m <= n,
           NEW e, m = n \/ e \in m .. n - 1
    PROVE  Editor!SameKind(Text(f, m, n)) <=> Uniform(f, m, n, e)
  <1> DEFINE s == Text(f, m, n)
  <1>1. m \in Nat /\ n \in Nat
    BY TermAssumption DEF Cuts
  <1>2. DOMAIN s = 1 .. n - m /\ \A i \in 1 .. n - m : s[i] = f[m + i - 1]
    BY DEF Text
  <1> HIDE DEF s
  <1>3. ASSUME \A i \in m .. n - 1 : f[i] \in Alnum <=> f[e] \in Alnum
        PROVE  Editor!SameKind(s)
    <2>1. ASSUME NEW i \in 1 .. n - m PROVE s[i] \in Alnum <=> f[e] \in Alnum
      <3>1. m + i - 1 \in m .. n - 1
        BY <1>1
      <3> QED
        BY <1>2, <1>3, <3>1
    <2> QED
      BY <1>2, <2>1 DEF Editor!SameKind
  <1>4. ASSUME Editor!SameKind(s), NEW i \in m .. n - 1
        PROVE  f[i] \in Alnum <=> f[e] \in Alnum
    <2>1. e \in m .. n - 1
      BY <1>1
    <2>2. /\ i - m + 1 \in 1 .. n - m /\ e - m + 1 \in 1 .. n - m
          /\ m + (i - m + 1) - 1 = i /\ m + (e - m + 1) - 1 = e
      BY <1>1, <2>1
    <2>3. s[i - m + 1] = f[i] /\ s[e - m + 1] = f[e]
      BY <1>2, <2>2
    <2> QED
      BY <1>2, <1>4, <2>2, <2>3 DEF Editor!SameKind
  <1>5. Editor!SameKind(s) <=> Uniform(f, m, n, e)
    BY <1>3, <1>4 DEF Uniform
  <1> QED
    BY <1>5 DEF s

\* The word loop of C-w and M-b stops before the last word of the text before
\* the cursor,
LEMMA WordStartIs ==
    ASSUME TypeOK
    PROVE  Editor!BeforeWord(left) = WordStart
  <1> DEFINE P(p) == \A i \in p .. term_curpos - 1 :
                       term_buf[i] \in Alnum <=> term_buf[term_curpos - 1] \in Alnum
             Q(k) == Editor!SameKind(SubSeq(left, k + 1, Len(left)))
  <1>1. ASSUME NEW k \in 0 .. term_curpos PROVE Q(k) <=> P(k)
    <2>1. SubSeq(left, k + 1, Len(left)) = Text(term_buf, k, term_curpos)
      BY LineFacts, TextCut
    <2>2. k \in Cuts /\ k <= term_curpos
          /\ (k = term_curpos \/ term_curpos - 1 \in k .. term_curpos - 1)
      BY LineFacts DEF Cuts
    <2>3. Q(k) <=> Uniform(term_buf, k, term_curpos, term_curpos - 1)
      BY <2>1, <2>2, LineFacts, SameKindText
    <2> QED
      BY <2>3 DEF Uniform
  <1>2. {k \in 0 .. Len(left) : Q(k)} = {p \in 0 .. term_curpos : P(p)}
    <2>1. 0 .. Len(left) = 0 .. term_curpos
      BY LineFacts
    <2> HIDE DEF P, Q
    <2> QED
      BY <1>1, <2>1
  <1> QED
    BY <1>2 DEF Editor!BeforeWord, Editor!Min, WordStart, Min

\* and that of M-f behind the first word of the text after it.
LEMMA WordEndIs ==
    ASSUME TypeOK
    PROVE  term_curpos + Editor!AfterWord(right) = WordEnd
  <1> DEFINE P(p) == \A i \in term_curpos .. p - 1 :
                       term_buf[i] \in Alnum <=> term_buf[term_curpos] \in Alnum
             Q(k) == Editor!SameKind(SubSeq(right, 1, k))
             S == {p \in term_curpos .. term_buf_count : P(p)}
             T == {k \in 0 .. Len(right) : Q(k)}
             r == term_buf_count - term_curpos
  <1>0. r \in Nat /\ Len(right) = r
    BY LineFacts
  <1>1. ASSUME NEW k \in 0 .. r PROVE Q(k) <=> P(term_curpos + k)
    <2>1. SubSeq(right, 1, k) = Text(term_buf, term_curpos, term_curpos + k)
      BY LineFacts, TextFirst
    <2>2. PICK n \in Cuts : n = term_curpos + k
      BY LineFacts DEF Cuts
    <2>3. term_curpos <= n /\ (term_curpos = n \/ term_curpos \in term_curpos .. n - 1)
      BY <2>2, LineFacts
    <2>4. Q(k) <=> Uniform(term_buf, term_curpos, n, term_curpos)
      BY <2>1, <2>2, <2>3, LineFacts, SameKindText
    <2>5. Q(k) <=> P(n)
      BY <2>4 DEF Uniform
    <2> QED
      BY <2>2, <2>5
  <1>2. \A k \in T : k \in 0 .. r /\ term_curpos + k \in S
    BY <1>0, <1>1, LineFacts
  <1>3. \A p \in S : p \in Nat /\ p - term_curpos \in T
    <2> SUFFICES ASSUME NEW p \in S PROVE p \in Nat /\ p - term_curpos \in T
      OBVIOUS
    <2>1. p \in Nat /\ p - term_curpos \in 0 .. r /\ term_curpos + (p - term_curpos) = p
      BY LineFacts
    <2>2. P(p)
      OBVIOUS
    <2>3. P(term_curpos + (p - term_curpos)) <=> P(p)
      BY <2>1
    <2> HIDE DEF P, Q
    <2> QED
      BY <1>0, <1>1, <2>1, <2>2, <2>3
  <1>4. term_curpos \in S /\ S \subseteq 0 .. term_buf_count
    BY LineFacts
  <1>5. WordEnd = Max(S) /\ Editor!AfterWord(right) = Max(T)
    BY DEF WordEnd, Editor!AfterWord, Editor!Max, Max
  <1> HIDE DEF S, T, P, Q
  <1>6. Max(S) \in S /\ \A p \in S : p <= Max(S)
    BY <1>4, LineFacts, MaxOf
  <1>7. T # {} /\ T \subseteq 0 .. r
    BY <1>2, <1>3, <1>4
  <1>8. Max(T) \in T /\ \A k \in T : k <= Max(T)
    BY <1>0, <1>7, MaxOf
  <1>9. Max(T) \in Nat /\ Max(S) \in Nat /\ term_curpos \in Nat
    BY <1>2, <1>3, <1>6, <1>8, LineFacts
  <1>10. term_curpos + Max(T) <= Max(S)
    BY <1>2, <1>6, <1>8
  <1>11. Max(S) - term_curpos <= Max(T)
    BY <1>3, <1>6, <1>8
  <1> QED
    BY <1>5, <1>9, <1>10, <1>11

----------------------------------------------------------------------------
(***************************************************************************)
(* Each key and call does to the edit line what it says.                   *)
(***************************************************************************)
LEMMA KeyMoves ==
    ASSUME TypeOK
    PROVE  /\ CharBack => term_curpos - 1 \in 0 .. term_buf_count /\ Editor!Move(term_curpos - 1)
           /\ CharForward => term_curpos + 1 \in 0 .. term_buf_count /\ Editor!Move(term_curpos + 1)
           /\ LineStart => Editor!Move(0)
           /\ LineEnd => Editor!Move(term_buf_count)
           /\ WordBack => WordStart \in 0 .. term_buf_count /\ Editor!Move(WordStart)
           /\ WordForward => WordEnd \in 0 .. term_buf_count /\ Editor!Move(WordEnd)
  <1>1. WordStart \in 0 .. term_buf_count /\ WordEnd \in 0 .. term_buf_count
        /\ 0 \in 0 .. term_buf_count /\ term_buf_count \in 0 .. term_buf_count
    BY LineFacts, WordStartBounds, WordEndBounds
  <1>2. CharBack => term_curpos - 1 \in 0 .. term_buf_count
    BY LineFacts DEF CharBack
  <1>3. CharForward => term_curpos + 1 \in 0 .. term_buf_count
    BY LineFacts DEF CharForward
  <1> QED
    BY <1>1, <1>2, <1>3, MoveStep
    DEF CharBack, CharForward, LineStart, LineEnd, WordBack, WordForward

\* The deleting keys delete up to the cursor.
LEMMA KeyKills ==
    ASSUME TypeOK
    PROVE  /\ KillChar => term_curpos - 1 \in 0 .. term_curpos /\ Editor!Kill(term_curpos - 1)
           /\ KillWord => WordStart \in 0 .. term_curpos /\ Editor!Kill(WordStart)
           /\ KillLine => Editor!Kill(0)
  <1>1. WordStart \in 0 .. term_curpos /\ 0 \in 0 .. term_curpos /\ term_curpos - 0 = term_curpos
    BY LineFacts, WordStartBounds
  <1>2. KillWord => Editor!Kill(WordStart)
    BY <1>1, KillStep DEF KillWord
  <1>3. KillLine => Editor!Kill(0)
    <2>1. KillLine => KillBack(term_curpos - 0)
      BY <1>1 DEF KillLine
    <2> QED
      BY <1>1, <2>1, KillStep
  <1>4. ASSUME KillChar PROVE term_curpos - 1 \in 0 .. term_curpos /\ Editor!Kill(term_curpos - 1)
    <2>1. term_curpos - 1 \in 0 .. term_curpos /\ term_curpos - (term_curpos - 1) = 1
      BY <1>4, LineFacts DEF KillChar
    <2>2. KillBack(term_curpos - (term_curpos - 1))
      BY <1>4, <2>1 DEF KillChar
    <2> QED
      BY <2>1, <2>2, KillStep
  <1> QED
    BY <1>1, <1>2, <1>3, <1>4

\* What addch does when there is a reader and room.
LEMMA AddchText ==
    ASSUME TypeOK, NEW ch \in Chars, NEW pos \in 0 .. term_buf_count, addch(ch, pos),
           term_buf_count < TERM_BUF_SIZE, reading
    PROVE  /\ left' = Append(Text(term_buf, 0, pos), ch)
           /\ right' = Text(term_buf, pos, term_buf_count)
  <1>1. /\ term_curpos' = pos + 1 /\ term_buf_count' = term_buf_count + 1
        /\ \A i \in Cells : term_buf'[i] = CASE i = pos -> ch
                              [] i \in pos + 1 .. term_buf_count -> term_buf[i - 1]
                              [] OTHER -> term_buf[i]
    BY DEF addch
  <1>2. /\ pos \in Nat /\ pos \in Cells /\ pos \in Cuts /\ pos + 1 \in Cuts
        /\ term_buf_count + 1 \in Cuts /\ pos + 1 <= term_buf_count + 1
        /\ pos <= term_buf_count
    BY LineFacts DEF Cuts, Cells
  <1>3. term_buf' \in Buffers
    BY AddchType DEF Buffers, Symbols
  <1>4. term_buf'[pos] = ch
    BY <1>1, <1>2
  <1>5. \A i \in 0 .. pos - 1 : term_buf'[i] = term_buf[i]
    <2> SUFFICES ASSUME NEW i \in 0 .. pos - 1 PROVE term_buf'[i] = term_buf[i]
      OBVIOUS
    <2>1. i \in Cells /\ i # pos /\ i \notin pos + 1 .. term_buf_count
      BY <1>2, LineFacts DEF Cells
    <2> QED
      BY <1>1, <2>1
  <1>6. Append(Text(term_buf, 0, pos), term_buf'[pos]) = Text(term_buf', 0, pos + 1)
    <2>1. term_buf \in Buffers /\ 0 \in Cuts /\ 0 <= pos
      BY <1>2, LineFacts
    <2> QED
      BY <1>2, <1>3, <1>5, <2>1, TextAppend
  <1>7. Text(term_buf', pos + 1, term_buf_count + 1) = Text(term_buf, pos, term_buf_count)
    <2>1. PICK m \in Cuts, n \in Cuts : m = pos + 1 /\ n = term_buf_count + 1
      BY <1>2
    <2>2. ASSUME NEW i \in 1 .. n - m PROVE term_buf'[m + i - 1] = term_buf[pos + i - 1]
      <3>1. /\ m + i - 1 \in Cells /\ m + i - 1 # pos
            /\ m + i - 1 \in pos + 1 .. term_buf_count /\ (m + i - 1) - 1 = pos + i - 1
        BY <1>2, <2>1, LineFacts DEF Cells
      <3>2. term_buf'[m + i - 1] = term_buf[(m + i - 1) - 1]
        BY <1>1, <3>1
      <3> QED
        BY <3>1, <3>2
    <2>3. Agree(term_buf', m, term_buf, pos, n - m)
      BY <2>2 DEF Agree
    <2>4. n - m = term_buf_count - pos /\ m <= n
      BY <1>2, <2>1, LineFacts
    <2>5. /\ term_buf \in Buffers /\ term_buf_count \in Cuts
          /\ pos \in Cuts /\ pos <= term_buf_count
      BY <1>2, LineFacts
    <2>6. Text(term_buf', m, n) = Text(term_buf, pos, term_buf_count)
      BY <1>3, <2>3, <2>4, <2>5, TextSame
    <2> QED
      BY <2>1, <2>6
  <1>8. /\ left' = Text(term_buf', 0, pos + 1)
        /\ right' = Text(term_buf', pos + 1, term_buf_count + 1)
    BY <1>1 DEF left, right
  <1> QED
    BY <1>4, <1>6, <1>7, <1>8

editorVars == <<left, right, term_read_done, term_canon, reading,
                Text(buf, 0, Cardinality(DOMAIN buf))>>

\* A key in line mode is an editing step.
LEMMA TypedStep == TypeOK /\ Typed => Editor!EditKey \/ UNCHANGED editorVars
  <1> SUFFICES ASSUME TypeOK, Typed PROVE Editor!EditKey \/ UNCHANGED editorVars
    OBVIOUS
  <1>1. PICK ch \in Chars : addch(ch, term_curpos)
    BY DEF Typed
  <1>2. UNCHANGED <<term_read_done, term_canon, reading, buf>> /\ ~term_canon
    BY DEF Typed
  <1>3. CASE term_buf_count < TERM_BUF_SIZE /\ reading
    <2>1. /\ left' = Append(Text(term_buf, 0, term_curpos), ch)
          /\ right' = Text(term_buf, term_curpos, term_buf_count)
      BY <1>1, <1>3, LineFacts, AddchText
    <2>2. Len(Editor!line) < TERM_BUF_SIZE
      BY <1>3, LineFacts
    <2>3. left' = Append(left, ch) /\ right' = right
      BY <2>1, LineFacts
    <2>4. Editor!Insert(ch)
      BY <1>2, <1>3, <2>2, <2>3 DEF Editor!Insert
    <2> QED
      BY <2>4 DEF Editor!EditKey
  <1>4. CASE ~(term_buf_count < TERM_BUF_SIZE /\ reading)
    <2>1. UNCHANGED <<term_buf, term_buf_count, term_curpos>>
      BY <1>1, <1>4 DEF addch
    <2> QED
      BY <1>2, <2>1 DEF editorVars, left, right
  <1> QED
    BY <1>3, <1>4

\* A key in character mode is a raw key.
LEMMA CanonStep == TypeOK /\ CanonKey => Editor!RawKey
  <1> SUFFICES ASSUME TypeOK, CanonKey PROVE Editor!RawKey
    OBVIOUS
  <1>1. PICK ch \in Chars : addch(ch, term_buf_count)
    BY DEF CanonKey
  <1>2. UNCHANGED <<term_read_done, term_canon, reading, buf>> /\ term_canon
    BY DEF CanonKey
  <1>3. Text(term_buf, term_buf_count, term_buf_count) = <<>>
    BY LineFacts, TextEmpty
  <1>4. CASE term_buf_count < TERM_BUF_SIZE /\ reading
    <2>1. /\ left' = Append(Text(term_buf, 0, term_buf_count), ch)
          /\ right' = Text(term_buf, term_buf_count, term_buf_count)
      BY <1>1, <1>4, LineFacts, AddchText
    <2>2. /\ left' = Append(Editor!line, ch) /\ right' = <<>>
          /\ Len(Editor!line) < TERM_BUF_SIZE
      BY <1>3, <1>4, <2>1, LineFacts
    <2> QED
      BY <1>2, <1>4, <2>2 DEF Editor!RawKey
  <1>5. CASE ~(term_buf_count < TERM_BUF_SIZE /\ reading)
    <2>1. UNCHANGED <<term_buf, term_buf_count>> /\ term_curpos' = term_buf_count
      BY <1>1, <1>5 DEF addch
    <2>2. left' = Editor!line /\ right' = <<>>
      BY <1>3, <2>1, LineFacts DEF left, right
    <2> QED
      BY <1>2, <2>2 DEF Editor!RawKey
  <1> QED
    BY <1>4, <1>5

\* The end of a read in line mode returns the line.
LEMMA ReadLineStep == TypeOK /\ term_read_line => Editor!ReturnLine
  <1> SUFFICES ASSUME TypeOK, term_read_line PROVE Editor!ReturnLine
    OBVIOUS
  <1>1. /\ reading /\ ~term_canon /\ term_read_done
        /\ reading' = FALSE /\ term_read_done' = FALSE /\ UNCHANGED term_canon
        /\ term_buf' = [term_buf EXCEPT ![term_buf_count] = NL]
        /\ term_buf_count' = 0 /\ term_curpos' = 0
    BY DEF term_read_line
  <1>2. PICK n \in 0 .. term_buf_count + 1 : buf' = [i \in 0 .. n - 1 |-> term_buf'[i]]
    BY DEF term_read_line
  <1>3. /\ term_buf' \in Buffers /\ term_buf_count \in Cells /\ n \in Nat
        /\ n \in Cuts /\ term_buf_count + 1 \in Cuts /\ NL \in Symbols
    <2>1. term_buf_count \in Cells /\ NL \in Symbols
      BY LineFacts DEF Cells, Symbols
    <2>2. term_buf' \in Buffers
      BY <1>1, <2>1, LineFacts DEF Buffers
    <2> QED
      BY <2>1, <2>2, LineFacts DEF Cuts
  <1>4. Text(buf', 0, Cardinality(DOMAIN buf')) = Text(term_buf', 0, n)
    <2>1. DOMAIN buf' = 0 .. n - 1 /\ \A i \in 0 .. n - 1 : buf'[i] = term_buf'[i]
      BY <1>2
    <2>2. Cardinality(0 .. n - 1) = n
      <3>1. 0 \in Int /\ n - 1 \in Int
        BY <1>3
      <3>2. Cardinality(0 .. n - 1) = IF 0 > n - 1 THEN 0 ELSE n - 1 - 0 + 1
        BY <3>1, FS_Interval
      <3> QED
        BY <1>3, <3>2
    <2>3. Text(buf', 0, n) = Text(term_buf', 0, n)
      BY <1>3, <2>1 DEF Text
    <2> QED
      BY <2>1, <2>2, <2>3
  <1>5. Editor!line \o <<NL>> = Text(term_buf', 0, term_buf_count + 1)
    <2>1. \A i \in 0 .. term_buf_count - 1 : term_buf'[i] = term_buf[i]
      BY <1>1, <1>3, LineFacts DEF Cells, Buffers
    <2>2. term_buf'[term_buf_count] = NL
      BY <1>1, <1>3, LineFacts DEF Buffers
    <2>3. Append(Text(term_buf, 0, term_buf_count), term_buf'[term_buf_count])
            = Text(term_buf', 0, term_buf_count + 1)
      <3>1. term_buf \in Buffers /\ 0 \in Cuts /\ 0 <= term_buf_count
        BY LineFacts
      <3> QED
        BY <1>3, <2>1, <3>1, TextAppend
    <2>4. Text(term_buf, 0, term_buf_count) \in Seq(Symbols)
      <3>1. term_buf \in Buffers /\ 0 \in Cuts /\ 0 <= term_buf_count /\ term_buf_count \in Cuts
        BY LineFacts
      <3> QED
        BY <3>1, TextSeq
    <2>5. Append(Text(term_buf, 0, term_buf_count), NL)
            = Text(term_buf, 0, term_buf_count) \o <<NL>>
      BY <1>3, <2>4, AppendIsConcat
    <2> QED
      BY <2>2, <2>3, <2>5, LineFacts
  <1>6. SubSeq(Editor!line \o <<NL>>, 1, n) = Text(term_buf', 0, n)
    <2>1. PICK m \in Cuts : m = term_buf_count + 1
      BY <1>3
    <2>2. SubSeq(Text(term_buf', 0, m), 1, n) = Text(term_buf', 0, n)
      BY <1>3, <2>1, TextCut
    <2> QED
      BY <1>5, <2>1, <2>2
  <1>7. n \in 0 .. Len(Editor!line) + 1
    BY LineFacts
  <1>8. left' = <<>> /\ right' = <<>>
    <2>1. Text(term_buf', 0, 0) = <<>>
      BY <1>3, LineFacts, TextEmpty
    <2> QED
      BY <1>1, <2>1 DEF left, right
  <1>9. \E k \in 0 .. Len(Editor!line) + 1 :
          Text(buf', 0, Cardinality(DOMAIN buf')) = SubSeq(Editor!line \o <<NL>>, 1, k)
    BY <1>4, <1>6, <1>7
  <1> QED
    BY <1>1, <1>8, <1>9 DEF Editor!ReturnLine, Editor!edit

\* The end of a read in character mode returns a character.
LEMMA ReadCanonStep == TypeOK /\ term_read_canon => Editor!ReturnChar
  <1> SUFFICES ASSUME TypeOK, term_read_canon PROVE Editor!ReturnChar
    OBVIOUS
  <1>1. /\ reading /\ term_canon /\ term_buf_count # 0 /\ reading' = FALSE
        /\ buf' = [i \in {0} |-> term_buf[0]] /\ delch(1, 1)
        /\ UNCHANGED <<term_read_done, term_canon>>
    BY DEF term_read_canon
  <1> DEFINE n == term_buf_count - 1
             s == Text(term_buf, 0, term_buf_count)
  <1>2. /\ n \in Nat /\ n \in Cuts /\ 0 <= n /\ n + 1 = term_buf_count
        /\ 1 \in 0 .. term_buf_count /\ 1 \in 0 .. 1
    BY <1>1, LineFacts DEF Cuts
  <1>3. /\ term_curpos' = 0 /\ term_buf_count' = n
        /\ \A i \in Cells : term_buf'[i] = IF i \in 0 .. n - 1 THEN term_buf[i + 1]
                                           ELSE term_buf[i]
    <2>1. 1 - 1 = 0 /\ term_buf_count - 1 - 1 = n - 1
      BY <1>2, LineFacts
    <2> QED
      BY <1>1, <2>1 DEF delch
  <1>4. term_buf' \in Buffers
    BY <1>1, <1>2, DelchType DEF Buffers, Symbols
  <1>5. /\ s \in Seq(Symbols) /\ Len(s) = n + 1
        /\ \A i \in 1 .. n + 1 : s[i] = term_buf[i - 1]
    <2>1. term_buf \in Buffers /\ 0 \in Cuts /\ 0 <= term_buf_count /\ term_buf_count \in Cuts
          /\ term_buf_count - 0 = n + 1
      BY <1>2, LineFacts
    <2>2. /\ s \in Seq(Symbols) /\ Len(s) = term_buf_count - 0
          /\ \A i \in 1 .. term_buf_count - 0 : s[i] = term_buf[0 + i - 1]
      BY <2>1, TextSeq
    <2> QED
      BY <1>2, <2>1, <2>2
  <1> HIDE DEF s
  <1>6. s # <<>> /\ Head(s) = term_buf[0]
    <2>1. s # <<>>
      BY <1>2, <1>5
    <2>2. s[1] = term_buf[0]
      BY <1>2, <1>5
    <2> QED
      BY <1>5, <2>1, <2>2
  <1>7. /\ Tail(s) \in Seq(Symbols) /\ Len(Tail(s)) = n
        /\ \A i \in 1 .. n : Tail(s)[i] = s[i + 1]
    <2>1. /\ Tail(s) \in Seq(Symbols) /\ Len(Tail(s)) = Len(s) - 1
          /\ \A i \in 1 .. Len(Tail(s)) : Tail(s)[i] = s[i + 1]
      BY <1>5, <1>6, HeadTailProperties
    <2> QED
      BY <1>2, <1>5, <2>1
  <1>8. Tail(s) = Text(term_buf', 0, n)
    <2>1. ASSUME NEW i \in 1 .. n - 0 PROVE Tail(s)[i] = term_buf'[0 + i - 1]
      <3>1. /\ i \in 1 .. n /\ i + 1 \in 1 .. n + 1 /\ 0 + i - 1 \in Cells
            /\ 0 + i - 1 \in 0 .. n - 1 /\ (i + 1) - 1 = (0 + i - 1) + 1
        BY <1>2, LineFacts DEF Cells
      <3>2. Tail(s)[i] = term_buf[(i + 1) - 1]
        BY <1>5, <1>7, <3>1
      <3>3. term_buf'[0 + i - 1] = term_buf[(0 + i - 1) + 1]
        BY <1>3, <3>1
      <3> QED
        BY <3>1, <3>2, <3>3
    <2>2. PICK t \in Seq(Symbols), m \in Cuts : t = Tail(s) /\ m = n
      BY <1>2, <1>7
    <2>3. 0 <= m /\ Len(t) = m - 0 /\ \A i \in 1 .. m - 0 : t[i] = term_buf'[0 + i - 1]
      BY <1>2, <1>7, <2>1, <2>2
    <2>4. t = Text(term_buf', 0, m)
      <3>1. 0 \in Cuts
        BY LineFacts
      <3> QED
        BY <1>4, <2>3, <3>1, TextIs
    <2> QED
      BY <2>2, <2>4
  <1>9. left' = <<>> /\ right' = Tail(s)
    <2>1. Text(term_buf', 0, 0) = <<>>
      BY <1>4, LineFacts, TextEmpty
    <2> QED
      BY <1>3, <1>8, <2>1 DEF left, right
  <1>10. Text(buf', 0, Cardinality(DOMAIN buf')) = <<Head(s)>>
    <2>1. DOMAIN buf' = {0} /\ buf'[0] = term_buf[0]
      BY <1>1
    <2>2. Cardinality({0}) = 1
      BY FS_Singleton
    <2>3. Text(buf', 0, 1) = <<buf'[0]>>
      BY DEF Text
    <2> QED
      BY <1>6, <2>1, <2>2, <2>3
  <1>11. Editor!line = s
    BY LineFacts DEF s
  <1> QED
    BY <1>1, <1>6, <1>9, <1>10, <1>11 DEF Editor!ReturnChar, Editor!edit

----------------------------------------------------------------------------
(***************************************************************************)
(* The refinement theorems.                                                *)
(***************************************************************************)
LEMMA NoBytesText == Text(NoBytes, 0, Cardinality(DOMAIN NoBytes)) = <<>>
  <1>1. DOMAIN NoBytes = {}
    BY DEF NoBytes
  <1>2. Cardinality({}) = 0
    BY FS_EmptySet
  <1>3. Text(NoBytes, 0, 0) = <<>>
    BY DEF Text
  <1> QED
    BY <1>1, <1>2, <1>3

LEMMA EditorStarts == Init => Editor!EditorInit
  <1> SUFFICES ASSUME Init PROVE Editor!EditorInit
    OBVIOUS
  <1>1. TypeOK
    BY TypeInit
  <1>2. Text(term_buf, 0, 0) = <<>>
    BY <1>1, LineFacts, TextEmpty
  <1>3. left = <<>> /\ right = <<>>
    BY <1>2 DEF Init, left, right
  <1>4. Text(buf, 0, Cardinality(DOMAIN buf)) = <<>>
    BY NoBytesText DEF Init
  <1> QED
    BY <1>3, <1>4 DEF Init, Editor!EditorInit, Editor!edit

\* Every step is a step of the editor, or none.
LEMMA EditorStep ==
    TypeOK /\ [Next]_vars => [Editor!EditorNext]_editorVars
  <1> SUFFICES ASSUME TypeOK, [Next]_vars PROVE Editor!EditorNext \/ UNCHANGED editorVars
    OBVIOUS
  <1>1. CASE Typed
    BY <1>1, TypedStep DEF Editor!EditorNext
  <1>2. CASE CharBack \/ CharForward \/ LineStart \/ LineEnd \/ WordBack \/ WordForward
    <2>1. PICK k \in {0, term_curpos - 1, term_curpos + 1, term_buf_count, WordStart, WordEnd} :
             k \in 0 .. term_buf_count /\ Editor!Move(k)
      BY <1>2, KeyMoves, LineFacts
    <2>2. k \in {0, Len(left) - 1, Len(left) + 1, Len(Editor!line),
                 Editor!BeforeWord(left), Len(left) + Editor!AfterWord(right)}
      BY LineFacts, WordStartIs, WordEndIs
    <2>3. k \in 0 .. Len(Editor!line)
      BY <2>1, LineFacts
    <2> QED
      BY <2>1, <2>2, <2>3 DEF Editor!EditorNext, Editor!EditKey
  <1>3. CASE KillChar \/ KillWord \/ KillLine
    <2>1. PICK k \in {0, term_curpos - 1, WordStart} :
             k \in 0 .. term_curpos /\ Editor!Kill(k)
      BY <1>3, KeyKills, LineFacts
    <2>2. k \in {0, Len(left) - 1, Editor!BeforeWord(left)} /\ k \in 0 .. Len(left)
      BY <2>1, LineFacts, WordStartIs
    <2> QED
      BY <2>1, <2>2 DEF Editor!EditorNext, Editor!EditKey
  <1>4. CASE Return
    <2>1. Editor!Enter
      BY <1>4 DEF Return, lineVars, left, right, Editor!Enter
    <2> QED
      BY <2>1 DEF Editor!EditorNext
  <1>5. CASE CanonKey
    BY <1>5, CanonStep DEF Editor!EditorNext
  <1>6. CASE set_canon
    <2>1. Editor!SetRaw
      BY <1>6 DEF set_canon, lineVars, left, right, Editor!SetRaw
    <2> QED
      BY <2>1 DEF Editor!EditorNext
  <1>7. CASE term_read
    <2>1. Text(buf', 0, Cardinality(DOMAIN buf')) = <<>>
      BY <1>7, NoBytesText DEF term_read
    <2>2. /\ ~reading /\ reading' = TRUE
          /\ left' = left /\ right' = right
          /\ UNCHANGED <<term_read_done, term_canon>>
      BY <1>7 DEF term_read, lineVars, left, right
    <2>3. Editor!BeginRead
      BY <2>1, <2>2 DEF Editor!BeginRead
    <2> QED
      BY <2>3 DEF Editor!EditorNext
  <1>8. CASE term_read_canon
    BY <1>8, ReadCanonStep DEF Editor!EditorNext
  <1>9. CASE term_read_line
    BY <1>9, ReadLineStep DEF Editor!EditorNext
  <1>10. CASE UNCHANGED vars
    BY <1>10 DEF vars, editorVars, left, right
  <1> QED
    BY <1>1, <1>2, <1>3, <1>4, <1>5, <1>6, <1>7, <1>8, <1>9, <1>10 DEF Next, Key

\* The buffer with its copy loops, cursor and counters implements the edit
\* line, for every buffer size and every order of keys, mode changes and reads.
THEOREM TermRefinesEditor == Spec => ImplementsEditor
  <1>1. TypeOK /\ [Next]_vars
          => [Editor!EditorNext]_<<left, right, term_read_done, term_canon, reading,
                                   Text(buf, 0, Cardinality(DOMAIN buf))>>
    BY EditorStep DEF editorVars
  <1> QED
    BY <1>1, EditorStarts, TermTypeCorrect, PTL DEF Spec, ImplementsEditor, Editor!EditorSpec

\* Each editing key moves or cuts exactly as far as it says.
THEOREM EachKeyDoesItsEdit == Spec => EachKey
  <1> DEFINE len == Len(left)
             K == /\ CharBack => Editor!Move(len - 1)
                  /\ CharForward => Editor!Move(len + 1)
                  /\ LineStart => Editor!Move(0)
                  /\ LineEnd => Editor!Move(len + Len(right))
                  /\ WordBack => Editor!Move(Editor!BeforeWord(left))
                  /\ WordForward => Editor!Move(len + Editor!AfterWord(right))
                  /\ KillChar => Editor!Kill(len - 1)
                  /\ KillWord => Editor!Kill(Editor!BeforeWord(left))
                  /\ KillLine => Editor!Kill(0)
  <1>1. TypeOK => K
    <2> SUFFICES ASSUME TypeOK PROVE K
      OBVIOUS
    <2>1. /\ len = term_curpos /\ len + Len(right) = term_buf_count
          /\ Editor!BeforeWord(left) = WordStart
          /\ len + Editor!AfterWord(right) = WordEnd
      BY LineFacts, WordStartIs, WordEndIs
    <2> QED
      BY <2>1, KeyMoves, KeyKills
  <1>2. TypeOK /\ [Next]_vars => [K]_vars
    BY <1>1
  <1> QED
    BY <1>2, TermTypeCorrect, PTL DEF Spec, EachKey
----------------------------------------------------------------------------
(***************************************************************************)
(* The screen below the line discipline (Console): where the operations of *)
(* Screen put the cursor and what they do to the cells.  Positions are     *)
(* counted along the rows.                                                 *)
(***************************************************************************)
Columns == 0 .. NUM_COLS - 1
Rows == 0 .. NUM_ROWS - 1
RowsBelow == 0 .. NUM_ROWS
Plain == Chars \cup {Blank}
Marks == Chars \cup {Blank, NL}
Attributes == 0 .. 255
Flags == BOOLEAN
Glyphs == Marks \X Attributes
Memory == [VidCells -> Glyphs]
Spots == Int \X Int

\* Screens with the cursor in given columns and rows.
ScreensAt(X, Y) ==
    [mem : Memory, x : X, y : Y, attr : Attributes, displayed : Flags, hw : Spots]
Screens == ScreensAt(Columns, Rows)

Size == NUM_COLS * NUM_ROWS
At(s) == s.x + NUM_COLS * s.y

\* The sizes of the screen and the default attribute.
LEMMA ScreenSizes ==
    /\ NUM_COLS \in Nat \ {0} /\ NUM_ROWS \in Nat \ {0} /\ DEF_ATTR \in Attributes
    /\ 0 \in Columns /\ 0 \in Rows /\ NUM_COLS - 1 \in Columns /\ NUM_ROWS - 1 \in Rows
    /\ VidCells = 0 .. Size - 1
  BY ConsoleAssumption DEF Columns, Rows, Attributes, VidCells, Size

\* A row ends within the screen, and the last one with it.
LEMMA RowArith ==
    ASSUME NEW y \in Rows
    PROVE  /\ NUM_COLS * y \in Nat /\ Size \in Nat
           /\ NUM_COLS * (y + 1) = NUM_COLS * y + NUM_COLS
           /\ NUM_COLS * (y - 1) = NUM_COLS * y - NUM_COLS
           /\ NUM_COLS * y + NUM_COLS <= Size
           /\ y + 1 = NUM_ROWS => NUM_COLS * y + NUM_COLS = Size
           /\ y # 0 => NUM_COLS * y >= NUM_COLS
  <1>1. NUM_COLS \in Nat /\ NUM_ROWS \in Nat /\ y \in Nat /\ y + 1 <= NUM_ROWS /\ NUM_COLS >= 1
    BY ScreenSizes DEF Rows
  <1>2. NUM_COLS * y \in Nat /\ Size \in Nat
    BY <1>1 DEF Size
  <1>3. NUM_COLS * (y + 1) = NUM_COLS * y + NUM_COLS /\ NUM_COLS * (y - 1) = NUM_COLS * y - NUM_COLS
    BY <1>1
  <1>4. NUM_COLS * (y + 1) <= NUM_COLS * NUM_ROWS
    BY <1>1
  <1>5. y # 0 => NUM_COLS * 1 <= NUM_COLS * y
    BY <1>1
  <1> QED
    BY <1>1, <1>2, <1>3, <1>4, <1>5 DEF Size

\* The cursor of a screen is a cell.
LEMMA AtCell ==
    ASSUME NEW s \in Screens
    PROVE  /\ s.x \in Columns /\ s.y \in Rows /\ s.x \in Int /\ s.y \in Int
           /\ s.mem \in Memory /\ s.attr \in Attributes
           /\ At(s) \in VidCells /\ At(s) \in Nat /\ At(s) <= Size - 1 /\ Size \in Nat
           /\ At(s) = s.x + NUM_COLS * s.y
  <1>1. s.x \in Columns /\ s.y \in Rows /\ s.mem \in Memory /\ s.attr \in Attributes
    BY DEF Screens, ScreensAt
  <1>2. NUM_COLS * s.y \in Nat /\ NUM_COLS * s.y + NUM_COLS <= Size /\ Size \in Nat
    BY <1>1, RowArith
  <1>3. s.x \in Int /\ s.y \in Int /\ 0 <= s.x /\ s.x <= NUM_COLS - 1
    BY <1>1, ScreenSizes DEF Columns, Rows
  <1>4. At(s) = s.x + NUM_COLS * s.y
    BY DEF At
  <1>5. At(s) \in Nat /\ At(s) <= Size - 1
    <2>1. PICK r \in Nat : r = NUM_COLS * s.y
      BY <1>2
    <2> QED
      BY <1>2, <1>3, <1>4, <2>1, ScreenSizes
  <1>6. At(s) \in VidCells
    BY <1>2, <1>5, ScreenSizes
  <1> QED
    BY <1>1, <1>2, <1>3, <1>4, <1>5, <1>6

\* setpos with a position on the screen.
LEMMA SetPos ==
    ASSUME NEW s \in ScreensAt(Int, Int), NEW x \in Columns, NEW y \in Rows
    PROVE  /\ setpos(x, y, s) \in Screens
           /\ setpos(x, y, s).x = x /\ setpos(x, y, s).y = y
           /\ setpos(x, y, s).mem = s.mem /\ setpos(x, y, s).attr = s.attr
           /\ At(setpos(x, y, s)) = x + NUM_COLS * y
  <1>1. x \in Int /\ y \in Int /\ <<x, y>> \in Spots
    BY ScreenSizes DEF Columns, Rows, Spots
  <1>2. Clamp(x, NUM_COLS) = x /\ Clamp(y, NUM_ROWS) = y
    BY ScreenSizes DEF Columns, Rows, Clamp
  <1>3. PICK h \in Spots : h = IF s.displayed THEN <<x, y>> ELSE s.hw
    BY <1>1 DEF ScreensAt
  <1> DEFINE r == [s EXCEPT !.x = x, !.y = y, !.hw = h]
  <1>4. setpos(x, y, s) = r
    BY <1>2, <1>3 DEF setpos
  <1>5. r \in Screens
    BY DEF Screens, ScreensAt
  <1>6. r.x = x /\ r.y = y /\ r.mem = s.mem /\ r.attr = s.attr
    BY DEF ScreensAt
  <1> HIDE DEF r
  <1> QED
    BY <1>4, <1>5, <1>6 DEF At

\* Any screen is one with the cursor somewhere.
LEMMA ScreensWide == Screens \subseteq ScreensAt(Int, Int)
  <1> SUFFICES ASSUME NEW s \in Screens PROVE s \in ScreensAt(Int, Int)
    OBVIOUS
  <1> QED
    BY ScreenSizes DEF Screens, ScreensAt, Columns, Rows

\* back goes one cell back; at the first cell it goes to the end of the row.
LEMMA Back ==
    ASSUME NEW s \in Screens
    PROVE  /\ back(s) \in Screens /\ back(s).mem = s.mem
           /\ At(back(s)) = IF At(s) = 0 THEN NUM_COLS - 1 ELSE At(s) - 1
  <1>1. s \in ScreensAt(Int, Int) /\ s.x \in Columns /\ s.y \in Rows /\ s.x \in Int /\ s.y \in Int
    BY ScreensWide, AtCell
  <1>2. /\ NUM_COLS * s.y \in Nat /\ NUM_COLS * (s.y - 1) = NUM_COLS * s.y - NUM_COLS
        /\ s.y # 0 => NUM_COLS * s.y >= NUM_COLS
    BY <1>1, RowArith
  <1>3. At(s) = s.x + NUM_COLS * s.y
    BY DEF At
  <1>4. CASE s.x > 0
    <2>1. s.x - 1 \in Columns
      BY <1>1, <1>4, ScreenSizes DEF Columns
    <2>2. back(s) = setpos(s.x - 1, s.y, s)
      BY <1>4 DEF back
    <2>3. At(back(s)) = s.x - 1 + NUM_COLS * s.y
      BY <1>1, <2>1, <2>2, SetPos
    <2>4. back(s) \in Screens /\ back(s).mem = s.mem
      BY <1>1, <2>1, <2>2, SetPos
    <2> QED
      BY <1>1, <1>2, <1>3, <1>4, <2>3, <2>4
  <1>5. CASE ~(s.x > 0) /\ s.y # 0
    <2>1. s.y - 1 \in Rows /\ s.x = 0
      BY <1>1, <1>5, ScreenSizes DEF Rows, Columns
    <2>2. back(s) = setpos(NUM_COLS - 1, s.y - 1, s)
      BY <1>5 DEF back
    <2>3. At(back(s)) = NUM_COLS - 1 + NUM_COLS * (s.y - 1)
      BY <1>1, <2>1, <2>2, SetPos, ScreenSizes
    <2>4. back(s) \in Screens /\ back(s).mem = s.mem
      BY <1>1, <2>1, <2>2, SetPos, ScreenSizes
    <2> QED
      BY <1>1, <1>2, <1>3, <1>5, <2>1, <2>3, <2>4, ScreenSizes
  <1>6. CASE ~(s.x > 0) /\ s.y = 0
    <2>1. setpos(NUM_COLS - 1, -1, s) = setpos(NUM_COLS - 1, 0, s)
      <3>1. Clamp(-1, NUM_ROWS) = Clamp(0, NUM_ROWS)
        BY ScreenSizes DEF Clamp
      <3> QED
        BY <3>1, Zenon DEF setpos
    <2>2. back(s) = setpos(NUM_COLS - 1, 0, s)
      BY <1>6, <2>1 DEF back
    <2>3. At(back(s)) = NUM_COLS - 1 + NUM_COLS * 0
      BY <1>1, <2>2, SetPos, ScreenSizes
    <2>4. back(s) \in Screens /\ back(s).mem = s.mem
      BY <1>1, <2>2, SetPos, ScreenSizes
    <2>5. s.x = 0 /\ NUM_COLS * 0 = 0
      BY <1>1, <1>6, ScreenSizes DEF Columns
    <2> QED
      BY <1>3, <1>6, <2>3, <2>4, <2>5, ScreenSizes
  <1> QED
    BY <1>4, <1>5, <1>6

\* forward goes one cell on, unless the cursor is at the last one.
LEMMA Forward ==
    ASSUME NEW s \in Screens
    PROVE  /\ forward(s) \in Screens /\ forward(s).mem = s.mem
           /\ At(s) + 1 < Size => At(forward(s)) = At(s) + 1
  <1>1. s \in ScreensAt(Int, Int) /\ s.x \in Columns /\ s.y \in Rows /\ s.x \in Int /\ s.y \in Int
    BY ScreensWide, AtCell
  <1>2. /\ NUM_COLS * s.y \in Nat /\ Size \in Nat /\ NUM_COLS * (s.y + 1) = NUM_COLS * s.y + NUM_COLS
        /\ s.y + 1 = NUM_ROWS => NUM_COLS * s.y + NUM_COLS = Size
    BY <1>1, RowArith
  <1>3. At(s) = s.x + NUM_COLS * s.y
    BY DEF At
  <1>4. CASE s.x + 1 < NUM_COLS
    <2>1. s.x + 1 \in Columns
      BY <1>1, <1>4, ScreenSizes DEF Columns
    <2>2. forward(s) = setpos(s.x + 1, s.y, s)
      BY <1>4 DEF forward
    <2>3. At(forward(s)) = s.x + 1 + NUM_COLS * s.y
      BY <1>1, <2>1, <2>2, SetPos
    <2>4. forward(s) \in Screens /\ forward(s).mem = s.mem
      BY <1>1, <2>1, <2>2, SetPos
    <2> QED
      BY <1>1, <1>2, <1>3, <2>3, <2>4
  <1>5. CASE ~(s.x + 1 < NUM_COLS) /\ s.y + 1 # NUM_ROWS
    <2>1. s.y + 1 \in Rows /\ s.x = NUM_COLS - 1
      BY <1>1, <1>5, ScreenSizes DEF Rows, Columns
    <2>2. forward(s) = setpos(0, s.y + 1, s)
      BY <1>5 DEF forward
    <2>3. At(forward(s)) = 0 + NUM_COLS * (s.y + 1)
      BY <1>1, <2>1, <2>2, SetPos, ScreenSizes
    <2>4. forward(s) \in Screens /\ forward(s).mem = s.mem
      BY <1>1, <2>1, <2>2, SetPos, ScreenSizes
    <2> QED
      BY <1>1, <1>2, <1>3, <2>1, <2>3, <2>4, ScreenSizes
  <1>6. CASE ~(s.x + 1 < NUM_COLS) /\ s.y + 1 = NUM_ROWS
    <2>1. s.x = NUM_COLS - 1
      BY <1>1, <1>6, ScreenSizes DEF Columns
    <2>2. setpos(0, s.y + 1, s) = setpos(0, s.y, s)
      <3>1. Clamp(s.y + 1, NUM_ROWS) = Clamp(s.y, NUM_ROWS)
        BY <1>1, <1>6, ScreenSizes DEF Clamp, Rows
      <3> QED
        BY <3>1, Zenon DEF setpos
    <2>3. forward(s) = setpos(0, s.y, s)
      BY <1>6, <2>2 DEF forward
    <2>4. forward(s) \in Screens /\ forward(s).mem = s.mem
      BY <1>1, <2>3, SetPos, ScreenSizes
    <2> QED
      BY <1>1, <1>2, <1>3, <1>6, <2>1, <2>4, ScreenSizes
  <1> QED
    BY <1>4, <1>5, <1>6

\* What a cell holds once the screen has moved up by d cells.
Shifted(m, d, i) == IF i + d \in VidCells THEN m[i + d] ELSE <<Blank, DEF_ATTR>>

\* Moved cells are cells.
LEMMA ShiftedIs ==
    ASSUME NEW m \in Memory, NEW d \in Nat
    PROVE  [i \in VidCells |-> Shifted(m, d, i)] \in Memory
  <1>1. <<Blank, DEF_ATTR>> \in Glyphs
    BY ScreenSizes DEF Glyphs, Marks
  <1> QED
    BY <1>1 DEF Shifted, Memory

\* scroll moves the rows and the cursor up by one.
LEMMA Scroll ==
    ASSUME NEW s \in ScreensAt(Columns, RowsBelow), s.y # 0
    PROVE  /\ scroll(s) \in Screens
           /\ scroll(s).x = s.x /\ scroll(s).y = s.y - 1
           /\ scroll(s).attr = s.attr
           /\ \A i \in VidCells : scroll(s).mem[i] = Shifted(s.mem, NUM_COLS, i)
  <1>1. s.x \in Columns /\ s.y \in RowsBelow /\ s.mem \in Memory
    BY DEF ScreensAt
  <1>2. s.y - 1 \in Rows /\ NUM_COLS \in Nat
    BY <1>1, ScreenSizes DEF RowsBelow, Rows
  <1>3. PICK m \in Memory : m = [i \in VidCells |-> Shifted(s.mem, NUM_COLS, i)]
    BY <1>1, <1>2, ShiftedIs
  <1> DEFINE r == [s EXCEPT !.mem = m]
  <1>4. scroll(s) = setpos(s.x, s.y - 1, r)
    BY <1>3 DEF scroll, Shifted
  <1>5. r \in ScreensAt(Int, Int) /\ r.mem = m /\ r.attr = s.attr
    BY ScreenSizes DEF ScreensAt, Columns, RowsBelow
  <1> HIDE DEF r
  <1>6. /\ scroll(s) \in Screens /\ scroll(s).x = s.x /\ scroll(s).y = s.y - 1
        /\ scroll(s).mem = r.mem /\ scroll(s).attr = r.attr
    BY <1>1, <1>2, <1>4, <1>5, SetPos
  <1> QED
    BY <1>3, <1>5, <1>6

\* The cursor enters a row; below the last one everything moves up.
LEMMA EntersRow ==
    ASSUME NEW s \in Screens, NEW x \in Columns, NEW y \in RowsBelow
    PROVE  /\ EnterRow(x, y, s) \in Screens
           /\ EnterRow(x, y, s).attr = s.attr
           /\ y < NUM_ROWS => /\ EnterRow(x, y, s).mem = s.mem
                              /\ At(EnterRow(x, y, s)) = x + NUM_COLS * y
           /\ y = NUM_ROWS =>
                /\ At(EnterRow(x, y, s)) = x + Size - NUM_COLS
                /\ \A i \in VidCells : EnterRow(x, y, s).mem[i] = Shifted(s.mem, NUM_COLS, i)
  <1>1. s \in ScreensAt(Int, Int)
    BY ScreensWide
  <1>2. CASE y < NUM_ROWS
    <2>1. y \in Rows
      BY <1>2, ScreenSizes DEF Rows, RowsBelow
    <2>2. EnterRow(x, y, s) = setpos(x, y, s)
      BY <1>2 DEF EnterRow
    <2>3. /\ setpos(x, y, s) \in Screens /\ setpos(x, y, s).attr = s.attr
          /\ setpos(x, y, s).mem = s.mem /\ At(setpos(x, y, s)) = x + NUM_COLS * y
      BY <1>1, <2>1, SetPos
    <2> QED
      BY <1>2, <2>2, <2>3, ScreenSizes
  <1>3. CASE ~(y < NUM_ROWS)
    <2>1. y = NUM_ROWS /\ y # 0
      BY <1>3, ScreenSizes DEF RowsBelow
    <2>2. PICK r : r = [s EXCEPT !.x = x, !.y = y]
      OBVIOUS
    <2>3. r \in ScreensAt(Columns, RowsBelow) /\ r.y = y /\ r.x = x /\ r.mem = s.mem /\ r.attr = s.attr
      BY <2>2 DEF Screens, ScreensAt
    <2>4. PICK t : t = scroll(r)
      OBVIOUS
    <2>5. /\ t \in Screens /\ t.attr = s.attr
          /\ \A i \in VidCells : t.mem[i] = Shifted(s.mem, NUM_COLS, i)
      BY <2>1, <2>3, <2>4, Scroll
    <2>6. EnterRow(x, y, s) = setpos(x, NUM_ROWS - 1, t)
      BY <1>3, <2>2, <2>4 DEF EnterRow
    <2>7. t \in ScreensAt(Int, Int) /\ NUM_ROWS - 1 \in Rows
      BY <2>5, ScreensWide, ScreenSizes
    <2>8. /\ EnterRow(x, y, s) \in Screens /\ EnterRow(x, y, s).attr = t.attr
          /\ EnterRow(x, y, s).mem = t.mem
          /\ At(EnterRow(x, y, s)) = x + NUM_COLS * (NUM_ROWS - 1)
      BY <2>6, <2>7, SetPos
    <2>9. NUM_COLS * (NUM_ROWS - 1) = Size - NUM_COLS /\ Size \in Int /\ x \in Int
      BY ScreenSizes DEF Size, Columns
    <2> QED
      BY <1>3, <2>1, <2>5, <2>8, <2>9, ScreenSizes
  <1> QED
    BY <1>2, <1>3

\* A character is stored under the cursor.
LEMMA SetVidChar ==
    ASSUME NEW s \in Screens, NEW c \in Marks
    PROVE  /\ set_vid_char(s.x, s.y, c, s) \in Screens
           /\ set_vid_char(s.x, s.y, c, s).x = s.x /\ set_vid_char(s.x, s.y, c, s).y = s.y
           /\ set_vid_char(s.x, s.y, c, s).attr = s.attr
           /\ set_vid_char(s.x, s.y, c, s).mem = [s.mem EXCEPT ![At(s)] = <<c, s.attr>>]
  <1>1. s.x \in Columns /\ s.y \in Rows /\ s.mem \in Memory /\ s.attr \in Attributes
    BY AtCell
  <1>2. NUM_COLS * s.y + s.x = At(s)
    <2>1. PICK r \in Nat : r = NUM_COLS * s.y
      BY <1>1, RowArith
    <2>2. s.x \in Int /\ At(s) = s.x + r
      BY <2>1, AtCell
    <2> QED
      BY <2>1, <2>2
  <1>3. <<c, s.attr>> \in Glyphs
    BY <1>1 DEF Glyphs
  <1>4. PICK m \in Memory : m = [s.mem EXCEPT ![At(s)] = <<c, s.attr>>]
    BY <1>1, <1>3 DEF Memory
  <1> DEFINE r == [s EXCEPT !.mem = m]
  <1>5. set_vid_char(s.x, s.y, c, s) = r
    BY <1>1, <1>2, <1>4 DEF set_vid_char, Columns, Rows
  <1>6. r \in Screens /\ r.x = s.x /\ r.y = s.y /\ r.attr = s.attr /\ r.mem = m
    BY DEF Screens, ScreensAt
  <1> HIDE DEF r
  <1> QED
    BY <1>4, <1>5, <1>6

\* The cursor goes on by a cell; behind the last one everything moves up.
LEMMA Advances ==
    ASSUME NEW s \in Screens
    PROVE  /\ Advance(s) \in Screens /\ Advance(s).attr = s.attr
           /\ At(s) + 1 < Size => Advance(s).mem = s.mem /\ At(Advance(s)) = At(s) + 1
           /\ At(s) + 1 = Size =>
                /\ At(Advance(s)) = Size - NUM_COLS
                /\ \A i \in VidCells : Advance(s).mem[i] = Shifted(s.mem, NUM_COLS, i)
  <1>1. s.x \in Columns /\ s.y \in Rows /\ s.x \in Int /\ s.y \in Int
    BY AtCell
  <1>2. PICK r \in Nat : r = NUM_COLS * s.y
    BY <1>1, RowArith
  <1>3. /\ Size \in Nat /\ NUM_COLS * (s.y + 1) = r + NUM_COLS /\ r + NUM_COLS <= Size
        /\ s.y + 1 = NUM_ROWS => r + NUM_COLS = Size
    BY <1>1, <1>2, RowArith
  <1>4. At(s) = s.x + r /\ NUM_COLS \in Nat \ {0} /\ 0 <= s.x /\ s.x < NUM_COLS
    BY <1>1, <1>2, ScreenSizes DEF At, Columns
  <1>5. CASE s.x + 1 < NUM_COLS
    <2>1. s.x + 1 \in Columns /\ s.y \in RowsBelow /\ s.y < NUM_ROWS
      BY <1>1, <1>5, ScreenSizes DEF Columns, Rows, RowsBelow
    <2>2. Advance(s) = EnterRow(s.x + 1, s.y, s)
      BY <1>5 DEF Advance
    <2>3. /\ Advance(s) \in Screens /\ Advance(s).attr = s.attr /\ Advance(s).mem = s.mem
          /\ At(Advance(s)) = s.x + 1 + NUM_COLS * s.y
      BY <2>1, <2>2, EntersRow
    <2>4. At(s) + 1 # Size /\ At(Advance(s)) = At(s) + 1
      BY <1>1, <1>2, <1>3, <1>4, <1>5, <2>3
    <2> QED
      BY <2>3, <2>4
  <1>6. CASE ~(s.x + 1 < NUM_COLS)
    <2>1. s.x = NUM_COLS - 1 /\ s.y + 1 \in RowsBelow /\ 0 \in Columns
      BY <1>1, <1>4, <1>6, ScreenSizes DEF Columns, Rows, RowsBelow
    <2>2. Advance(s) = EnterRow(0, s.y + 1, s)
      BY <1>6 DEF Advance
    <2>3. Advance(s) \in Screens /\ Advance(s).attr = s.attr
      BY <2>1, <2>2, EntersRow
    <2>4. CASE s.y + 1 < NUM_ROWS
      <3>1. Advance(s).mem = s.mem /\ At(Advance(s)) = 0 + NUM_COLS * (s.y + 1)
        BY <2>1, <2>2, <2>4, EntersRow
      <3>2. s.y + 1 \in Rows
        BY <1>1, <2>4, ScreenSizes DEF Rows
      <3>3. NUM_COLS * (s.y + 1) + NUM_COLS <= Size
        BY <3>2, RowArith
      <3>4. At(s) + 1 # Size /\ At(Advance(s)) = At(s) + 1
        BY <1>3, <1>4, <2>1, <3>1, <3>3
      <3> QED
        BY <2>3, <3>1, <3>4
    <2>5. CASE ~(s.y + 1 < NUM_ROWS)
      <3>1. s.y + 1 = NUM_ROWS
        BY <1>1, <2>5, ScreenSizes DEF Rows
      <3>2. /\ At(Advance(s)) = 0 + Size - NUM_COLS
            /\ \A i \in VidCells : Advance(s).mem[i] = Shifted(s.mem, NUM_COLS, i)
        BY <2>1, <2>2, <3>1, EntersRow
      <3>3. At(s) + 1 = Size /\ At(Advance(s)) = Size - NUM_COLS
        BY <1>3, <1>4, <2>1, <3>1, <3>2
      <3>4. ~(At(s) + 1 < Size)
        BY <1>3, <3>3
      <3> QED
        BY <2>3, <3>2, <3>3, <3>4
    <2> QED
      BY <2>4, <2>5
  <1> QED
    BY <1>5, <1>6

\* A plain character is stored under the cursor, and the cursor goes on.
LEMMA PutcPlain ==
    ASSUME NEW s \in Screens, NEW c \in Plain
    PROVE  /\ putc(c, s) \in Screens /\ putc(c, s).attr = s.attr
           /\ At(s) + 1 < Size =>
                /\ putc(c, s).mem = [s.mem EXCEPT ![At(s)] = <<c, s.attr>>]
                /\ At(putc(c, s)) = At(s) + 1
           /\ At(s) + 1 = Size =>
                /\ At(putc(c, s)) = Size - NUM_COLS
                /\ \A i \in VidCells :
                     putc(c, s).mem[i] = Shifted([s.mem EXCEPT ![At(s)] = <<c, s.attr>>], NUM_COLS, i)
  <1>1. c \notin {NL, CR, BS} /\ c \in Marks
    BY ConsoleAssumption, TermAssumption DEF Plain, Marks, Chars
  <1>2. PICK r : r = set_vid_char(s.x, s.y, c, s)
    OBVIOUS
  <1>3. putc(c, s) = Advance(r)
    BY <1>1, <1>2, Zenon DEF putc
  <1>4. /\ r \in Screens /\ r.x = s.x /\ r.y = s.y /\ r.attr = s.attr
        /\ r.mem = [s.mem EXCEPT ![At(s)] = <<c, s.attr>>]
    BY <1>1, <1>2, SetVidChar
  <1>5. At(r) = At(s)
    BY <1>4 DEF At
  <1> QED
    BY <1>3, <1>4, <1>5, Advances

\* Whatever is printed, the cursor stays on the screen.
LEMMA PutcAny ==
    ASSUME NEW s \in Screens, NEW c \in Marks \cup {CR, BS}
    PROVE  putc(c, s) \in Screens
  <1>0. s.x \in Columns /\ s.y \in Rows /\ s.y + 1 \in RowsBelow /\ s \in ScreensAt(Int, Int)
    BY AtCell, ScreensWide, ScreenSizes DEF Rows, RowsBelow
  <1>1. CASE c = NL
    <2>1. putc(c, s) = EnterRow(0, s.y + 1, s)
      BY <1>1, ConsoleAssumption, Zenon DEF putc
    <2> QED
      BY <1>0, <2>1, EntersRow, ScreenSizes
  <1>2. CASE c = CR
    <2>1. putc(c, s) = setpos(0, s.y, s)
      BY <1>2, ConsoleAssumption, Zenon DEF putc
    <2> QED
      BY <1>0, <2>1, SetPos, ScreenSizes
  <1>3. CASE c = BS
    <2>1. PICK b : b = back(s)
      OBVIOUS
    <2>2. putc(c, s) = set_vid_char(b.x, b.y, Blank, b)
      BY <1>3, <2>1, ConsoleAssumption, Zenon DEF putc
    <2>3. b \in Screens /\ Blank \in Marks
      BY <2>1, Back DEF Marks
    <2> QED
      BY <2>2, <2>3, SetVidChar
  <1>4. CASE c \in Plain
    BY <1>4, PutcPlain
  <1> QED
    BY <1>1, <1>2, <1>3, <1>4 DEF Marks, Plain

\* The loops of puts and of the editing keys, step by step: f[k] is the screen
\* after k rounds.
PutsRun(f, str, s) ==
    /\ f[0] = s /\ f[Len(str)] = puts(str, s)
    /\ \A n \in 1 .. Len(str) : f[n] = putc(str[n], f[n - 1])

\* puts runs character by character.
LEMMA PutsRuns ==
    ASSUME NEW s \in Screens, NEW str \in Seq(Marks)
    PROVE  \E f \in [0 .. Len(str) -> Screens] : PutsRun(f, str, s)
  <1> DEFINE V == Screens
             b == Len(str)
             D == [p \in Nat \X V |-> IF p[1] \in 1 .. b THEN putc(str[p[1]], p[2]) ELSE p[2]]
             Is(g) == g = [k \in 0 .. Len(str) |-> IF k = 0 THEN s ELSE putc(str[k], g[k - 1])]
             after == CHOOSE g : Is(g)
  <1>0. b \in Nat /\ 0 \in 0 .. b /\ b \in 0 .. b
    OBVIOUS
  <1>1. \A n \in 1 .. b : str[n] \in Marks
    OBVIOUS
  <1>2. ASSUME NEW n \in 1 .. b, NEW v \in V PROVE putc(str[n], v) \in V
    BY <1>1, PutcAny
  <1> HIDE DEF V
  <1>3. D \in [Nat \X V -> V]
    BY <1>2
  <1>4. \A n, v : n \in 1 .. b /\ v \in V => D[<<n, v>>] = putc(str[n], v)
    BY <1>0
  <1> HIDE DEF D
  <1>5. PICK f \in [0 .. b -> V] : Iterates(f, b, s, D)
    <2>1. s \in V
      BY DEF V
    <2> QED
      BY <1>0, <1>3, <2>1, Recursion
  <1>6. ASSUME NEW n \in 0 .. b
        PROVE  f[n] = IF n = 0 THEN s ELSE putc(str[n], f[n - 1])
    <2>1. CASE n = 0
      BY <1>5, <2>1 DEF Iterates
    <2>2. CASE n # 0
      <3>1. n \in 1 .. b /\ n - 1 \in 0 .. b
        BY <1>0, <2>2
      <3>2. f[n] = D[<<n, f[n - 1]>>] /\ f[n - 1] \in V
        BY <1>5, <3>1 DEF Iterates
      <3> QED
        BY <1>4, <2>2, <3>1, <3>2
    <2> QED
      BY <2>1, <2>2
  <1>7. Is(f)
    BY <1>5, <1>6
  <1>8. Is(after)
    BY <1>7
  <1>9. puts(str, s) = after[b]
    BY DEF puts
  <1> HIDE DEF after
  <1>10. after[0] = s
    BY <1>0, <1>8
  <1>11. ASSUME NEW n \in 1 .. b PROVE after[n] = putc(str[n], after[n - 1])
    <2>1. n \in 0 .. b /\ n # 0
      BY <1>0
    <2> QED
      BY <1>8, <2>1
  <1> DEFINE S == {n \in 0 .. b : after[n] \in V}
  <1>12. 0 \in S
    BY <1>0, <1>10 DEF V
  <1>13. \A n \in 0 .. b - 1 : n \in S => n + 1 \in S
    <2> SUFFICES ASSUME NEW n \in 0 .. b - 1, n \in S PROVE n + 1 \in S
      OBVIOUS
    <2>1. n + 1 \in 1 .. b /\ n + 1 \in 0 .. b /\ (n + 1) - 1 = n
      BY <1>0
    <2>2. after[n + 1] = putc(str[n + 1], after[n])
      BY <1>11, <2>1
    <2> QED
      BY <1>2, <2>1, <2>2
  <1> HIDE DEF S
  <1>14. 0 .. b \subseteq S
    BY <1>0, <1>12, <1>13, UpTo
  <1>15. after \in [0 .. b -> V]
    BY <1>8, <1>14 DEF S
  <1>16. PutsRun(after, str, s)
    BY <1>9, <1>10, <1>11 DEF PutsRun
  <1> QED
    BY <1>15, <1>16 DEF V

\* Whatever text is printed, the cursor stays on the screen.
LEMMA PutsAny ==
    ASSUME NEW s \in Screens, NEW str \in Seq(Marks)
    PROVE  puts(str, s) \in Screens
  <1>1. PICK f \in [0 .. Len(str) -> Screens] : PutsRun(f, str, s)
    BY PutsRuns
  <1>2. Len(str) \in 0 .. Len(str)
    OBVIOUS
  <1> QED
    BY <1>1, <1>2 DEF PutsRun

\* t is the screen after the first k characters of str have been printed on s
\* and everything has moved up by d cells.
Prints(s, t, str, k, d) ==
    /\ d \in Nat /\ t.attr = s.attr
    /\ At(t) = At(s) + k - d
    /\ d # 0 => At(s) + k >= Size /\ At(t) >= Size - NUM_COLS
    /\ \A i \in VidCells : i + d < At(s) => t.mem[i] = s.mem[i + d]
    /\ \A i \in VidCells : At(s) <= i + d /\ i + d < At(s) + k =>
                              t.mem[i] = <<str[i + d - At(s) + 1], s.attr>>

\* One character more.
LEMMA PrintsNext ==
    ASSUME NEW s \in Screens, NEW t \in Screens, NEW str \in Seq(Plain),
           NEW k \in 0 .. Len(str) - 1, NEW d \in Nat, Prints(s, t, str, k, d)
    PROVE  \E e \in Nat : Prints(s, putc(str[k + 1], t), str, k + 1, e)
  <1>1. k \in Nat /\ str[k + 1] \in Plain
    OBVIOUS
  <1>2. PICK c \in Plain : c = str[k + 1]
    BY <1>1
  <1>3. PICK r : r = putc(c, t)
    OBVIOUS
  <1>4. /\ At(s) \in Nat /\ At(t) \in Nat /\ At(t) <= Size - 1 /\ Size \in Nat
        /\ At(t) = At(s) + k - d /\ t.attr = s.attr /\ NUM_COLS \in Nat /\ VidCells = 0 .. Size - 1
        /\ t.mem \in Memory
    BY AtCell, ScreenSizes DEF Prints
  <1>5. PICK m : m = [t.mem EXCEPT ![At(t)] = <<c, t.attr>>]
    OBVIOUS
  <1>6. ASSUME NEW i \in VidCells, i + d < At(s) PROVE m[i] = s.mem[i + d]
    <2>1. i # At(t)
      BY <1>1, <1>4, <1>6
    <2>2. m[i] = t.mem[i]
      BY <1>4, <1>5, <2>1 DEF Memory
    <2> QED
      BY <1>6, <2>2 DEF Prints
  <1>7. ASSUME NEW i \in VidCells, At(s) <= i + d, i + d < At(s) + k + 1
        PROVE  m[i] = <<str[i + d - At(s) + 1], s.attr>>
    <2>1. CASE i = At(t)
      <3>1. m[i] = <<c, t.attr>> /\ i + d - At(s) + 1 = k + 1
        BY <1>1, <1>4, <1>5, <2>1 DEF Memory
      <3> QED
        BY <1>2, <1>4, <3>1
    <2>2. CASE i # At(t)
      <3>1. m[i] = t.mem[i]
        BY <1>4, <1>5, <2>2 DEF Memory
      <3>2. i + d < At(s) + k
        <4>1. At(s) \in Nat /\ At(t) = At(s) + k - d /\ i \in Nat
          BY <1>4
        <4> QED
          BY <1>1, <1>7, <2>2, <4>1
      <3> QED
        BY <1>7, <3>1, <3>2 DEF Prints
    <2> QED
      BY <2>1, <2>2
  <1>8. d # 0 => At(s) + k >= Size /\ At(t) >= Size - NUM_COLS
    BY DEF Prints
  <1>9. CASE At(t) + 1 < Size
    <2>1. r.mem = m /\ At(r) = At(t) + 1 /\ r.attr = t.attr
      BY <1>3, <1>5, <1>9, PutcPlain
    <2>2. Prints(s, r, str, k + 1, d)
      <3>1. At(r) = At(s) + (k + 1) - d
        BY <1>1, <1>4, <2>1
      <3>2. d # 0 => At(s) + (k + 1) >= Size /\ At(r) >= Size - NUM_COLS
        BY <1>1, <1>4, <1>8, <2>1
      <3>3. \A i \in VidCells : i + d < At(s) => r.mem[i] = s.mem[i + d]
        BY <1>6, <2>1
      <3>4. \A i \in VidCells : At(s) <= i + d /\ i + d < At(s) + (k + 1) =>
                                  r.mem[i] = <<str[i + d - At(s) + 1], s.attr>>
        <4> SUFFICES ASSUME NEW i \in VidCells, At(s) <= i + d, i + d < At(s) + (k + 1)
                     PROVE  r.mem[i] = <<str[i + d - At(s) + 1], s.attr>>
          OBVIOUS
        <4>1. At(s) \in Nat /\ i \in Nat
          BY <1>4
        <4>2. i + d < At(s) + k + 1
          BY <1>1, <4>1
        <4> QED
          BY <1>7, <2>1, <4>2
      <3> QED
        BY <1>4, <2>1, <3>1, <3>2, <3>3, <3>4 DEF Prints
    <2> QED
      BY <1>2, <1>3, <2>2
  <1>10. CASE ~(At(t) + 1 < Size)
    <2>1. At(t) + 1 = Size
      BY <1>4, <1>10
    <2>2. /\ At(r) = Size - NUM_COLS /\ r.attr = t.attr
          /\ \A i \in VidCells : r.mem[i] = Shifted(m, NUM_COLS, i)
      BY <1>3, <1>5, <2>1, PutcPlain
    <2>3. PICK e \in Nat : e = d + NUM_COLS
      BY <1>4
    <2>4. At(r) = At(s) + (k + 1) - e
      <3>1. At(r) = Size - NUM_COLS
        BY <2>2
      <3>2. /\ At(s) \in Nat /\ At(t) = At(s) + k - d /\ Size \in Nat /\ NUM_COLS \in Nat
            /\ d \in Nat
        BY <1>4
      <3> QED
        BY <1>1, <2>1, <2>3, <3>1, <3>2
    <2>5. At(s) + (k + 1) >= Size /\ At(r) >= Size - NUM_COLS
      BY <1>1, <1>4, <2>1, <2>2
    <2>6. ASSUME NEW i \in VidCells, i + e < At(s) + k + 1
          PROVE  i + NUM_COLS \in VidCells /\ r.mem[i] = m[i + NUM_COLS]
      <3>1. i + NUM_COLS \in VidCells
        BY <1>1, <1>4, <2>1, <2>3, <2>6
      <3> QED
        BY <2>2, <3>1 DEF Shifted
    <2>7. ASSUME NEW i \in VidCells, i + e < At(s) PROVE r.mem[i] = s.mem[i + e]
      <3>1. i + e < At(s) + k + 1 /\ (i + NUM_COLS) + d = i + e
        BY <1>1, <1>4, <2>3, <2>7
      <3>2. i + NUM_COLS \in VidCells /\ r.mem[i] = m[i + NUM_COLS]
        BY <2>6, <3>1
      <3>3. m[i + NUM_COLS] = s.mem[(i + NUM_COLS) + d]
        BY <1>6, <2>7, <3>1, <3>2
      <3> QED
        BY <3>1, <3>2, <3>3
    <2>8. ASSUME NEW i \in VidCells, At(s) <= i + e, i + e < At(s) + (k + 1)
          PROVE  r.mem[i] = <<str[i + e - At(s) + 1], s.attr>>
      <3>1. i + e < At(s) + k + 1 /\ (i + NUM_COLS) + d = i + e
        BY <1>1, <1>4, <2>3, <2>8
      <3>2. i + NUM_COLS \in VidCells /\ r.mem[i] = m[i + NUM_COLS]
        BY <2>6, <3>1
      <3>3. m[i + NUM_COLS] = <<str[(i + NUM_COLS) + d - At(s) + 1], s.attr>>
        BY <1>7, <2>8, <3>1, <3>2
      <3>4. (i + NUM_COLS) + d - At(s) + 1 = i + e - At(s) + 1
        BY <1>4, <2>3
      <3> QED
        BY <3>2, <3>3, <3>4
    <2>9. Prints(s, r, str, k + 1, e)
      BY <1>4, <2>2, <2>4, <2>5, <2>7, <2>8 DEF Prints
    <2> QED
      BY <1>2, <1>3, <2>9
  <1> QED
    BY <1>9, <1>10

\* A text of plain characters stands on the screen from the place where the
\* cursor was, unless it has scrolled off, and what stood before it has moved
\* with it.
LEMMA PutsPlain ==
    ASSUME NEW s \in Screens, NEW str \in Seq(Plain)
    PROVE  puts(str, s) \in Screens /\ \E d \in Nat : Prints(s, puts(str, s), str, Len(str), d)
  <1>1. str \in Seq(Marks) /\ Len(str) \in Nat
    BY DEF Plain, Marks
  <1>2. PICK f \in [0 .. Len(str) -> Screens] : PutsRun(f, str, s)
    BY <1>1, PutsRuns
  <1> DEFINE S == {k \in 0 .. Len(str) : \E d \in Nat : Prints(s, f[k], str, k, d)}
  <1>3. 0 \in S
    <2>1. f[0] = s
      BY <1>2 DEF PutsRun
    <2>2. At(s) \in Nat /\ VidCells \subseteq Int
      BY AtCell, ScreenSizes
    <2>3. Prints(s, s, str, 0, 0)
      BY <2>2 DEF Prints
    <2>4. 0 \in 0 .. Len(str) /\ 0 \in Nat
      BY <1>1
    <2> QED
      BY <2>1, <2>3, <2>4
  <1>4. \A k \in 0 .. Len(str) - 1 : k \in S => k + 1 \in S
    <2> SUFFICES ASSUME NEW k \in 0 .. Len(str) - 1, k \in S PROVE k + 1 \in S
      OBVIOUS
    <2>1. PICK d \in Nat : Prints(s, f[k], str, k, d)
      OBVIOUS
    <2>2. k \in 0 .. Len(str) /\ k + 1 \in 1 .. Len(str) /\ k + 1 \in 0 .. Len(str) /\ (k + 1) - 1 = k
      BY <1>1
    <2>3. f[k] \in Screens /\ f[k + 1] = putc(str[k + 1], f[k])
      BY <1>2, <2>2 DEF PutsRun
    <2>4. \E e \in Nat : Prints(s, f[k + 1], str, k + 1, e)
      BY <2>1, <2>3, PrintsNext
    <2> QED
      BY <2>2, <2>4
  <1> HIDE DEF S
  <1>5. 0 .. Len(str) \subseteq S
    BY <1>1, <1>3, <1>4, UpTo
  <1>6. Len(str) \in S
    BY <1>1, <1>5
  <1> QED
    BY <1>1, <1>2, <1>6, PutsAny DEF S, PutsRun

\* scroll keeps the cursor on the screen also in the first row.
LEMMA ScrollAny == ASSUME NEW s \in Screens PROVE scroll(s) \in Screens
  <1>1. s.x \in Columns /\ s.y \in Rows /\ s.mem \in Memory /\ NUM_COLS \in Nat
    BY AtCell, ScreenSizes
  <1>2. CASE s.y # 0
    <2>1. s \in ScreensAt(Columns, RowsBelow)
      BY ScreenSizes DEF Screens, ScreensAt, Rows, RowsBelow
    <2> QED
      BY <1>2, <2>1, Scroll
  <1>3. CASE s.y = 0
    <2>1. PICK m \in Memory : m = [i \in VidCells |-> Shifted(s.mem, NUM_COLS, i)]
      BY <1>1, ShiftedIs
    <2>2. PICK r : r = [s EXCEPT !.mem = m]
      OBVIOUS
    <2>3. r \in ScreensAt(Int, Int)
      BY <2>2, ScreenSizes DEF Screens, ScreensAt, Columns, Rows
    <2>4. scroll(s) = setpos(s.x, -1, r)
      BY <1>3, <2>1, <2>2 DEF scroll, Shifted
    <2>5. setpos(s.x, -1, r) = setpos(s.x, 0, r)
      <3>1. Clamp(-1, NUM_ROWS) = Clamp(0, NUM_ROWS)
        BY ScreenSizes DEF Clamp
      <3> QED
        BY <3>1, Zenon DEF setpos
    <2> QED
      BY <1>1, <2>3, <2>4, <2>5, SetPos, ScreenSizes
  <1> QED
    BY <1>2, <1>3

\* One round of delch keeps the cursor on the screen.
LEMMA EraseAny == ASSUME NEW s \in Screens, NEW rest \in Seq(Marks) PROVE Erase(rest, s) \in Screens
  <1>1. PICK b \in Screens : b = back(s)
    BY Back
  <1>2. PICK t \in Screens : t = puts(rest, b)
    BY PutsAny
  <1>3. Erase(rest, s) = setpos(b.x, b.y, t)
    BY <1>1, <1>2 DEF Erase
  <1>4. b.x \in Columns /\ b.y \in Rows /\ t \in ScreensAt(Int, Int)
    BY AtCell, ScreensWide
  <1> QED
    BY <1>3, <1>4, SetPos

\* n times back.
BackRun(f, n, s) ==
    /\ f[0] = s /\ f[n] = Times(n, back, s)
    /\ \A k \in 1 .. n : f[k] = back(f[k - 1])

\* back repeated runs step by step.
LEMMA BackRuns ==
    ASSUME NEW s \in Screens, NEW n \in Nat
    PROVE  \E f \in [0 .. n -> Screens] : BackRun(f, n, s)
  <1> DEFINE V == Screens
             D == [p \in Nat \X V |-> back(p[2])]
             Is(g) == g = [k \in 0 .. n |-> IF k = 0 THEN s ELSE back(g[k - 1])]
             after == CHOOSE g : Is(g)
  <1>0. 0 \in 0 .. n /\ n \in 0 .. n
    OBVIOUS
  <1>2. ASSUME NEW v \in V PROVE back(v) \in V
    BY Back DEF V
  <1> HIDE DEF V
  <1>3. D \in [Nat \X V -> V]
    BY <1>2
  <1>4. \A k, v : k \in Nat /\ v \in V => D[<<k, v>>] = back(v)
    OBVIOUS
  <1> HIDE DEF D
  <1>5. PICK f \in [0 .. n -> V] : Iterates(f, n, s, D)
    <2>1. s \in V
      BY DEF V
    <2> QED
      BY <1>3, <2>1, Recursion
  <1>6. ASSUME NEW k \in 0 .. n
        PROVE  f[k] = IF k = 0 THEN s ELSE back(f[k - 1])
    <2>1. CASE k = 0
      BY <1>5, <2>1 DEF Iterates
    <2>2. CASE k # 0
      <3>1. k \in 1 .. n /\ k - 1 \in 0 .. n /\ k \in Nat
        BY <2>2
      <3>2. f[k] = D[<<k, f[k - 1]>>] /\ f[k - 1] \in V
        BY <1>5, <3>1 DEF Iterates
      <3> QED
        BY <1>4, <2>2, <3>1, <3>2
    <2> QED
      BY <2>1, <2>2
  <1>7. Is(f)
    BY <1>5, <1>6
  <1>8. Is(after)
    BY <1>7
  <1>9. Times(n, back, s) = after[n]
    BY DEF Times
  <1> HIDE DEF after
  <1>10. after[0] = s
    BY <1>0, <1>8
  <1>11. ASSUME NEW k \in 1 .. n PROVE after[k] = back(after[k - 1])
    <2>1. k \in 0 .. n /\ k # 0
      OBVIOUS
    <2> QED
      BY <1>8, <2>1
  <1> DEFINE S == {k \in 0 .. n : after[k] \in V}
  <1>12. 0 \in S
    BY <1>0, <1>10 DEF V
  <1>13. \A k \in 0 .. n - 1 : k \in S => k + 1 \in S
    <2> SUFFICES ASSUME NEW k \in 0 .. n - 1, k \in S PROVE k + 1 \in S
      OBVIOUS
    <2>1. k + 1 \in 1 .. n /\ k + 1 \in 0 .. n /\ (k + 1) - 1 = k
      OBVIOUS
    <2>2. after[k + 1] = back(after[k])
      BY <1>11, <2>1
    <2> QED
      BY <1>2, <2>1, <2>2
  <1> HIDE DEF S
  <1>14. 0 .. n \subseteq S
    BY <1>12, <1>13, UpTo
  <1>15. after \in [0 .. n -> V]
    BY <1>8, <1>14 DEF S
  <1>16. BackRun(after, n, s)
    BY <1>9, <1>10, <1>11 DEF BackRun
  <1> QED
    BY <1>15, <1>16 DEF V

\* n times forward.
ForwardRun(f, n, s) ==
    /\ f[0] = s /\ f[n] = Times(n, forward, s)
    /\ \A k \in 1 .. n : f[k] = forward(f[k - 1])

\* forward repeated runs step by step.
LEMMA ForwardRuns ==
    ASSUME NEW s \in Screens, NEW n \in Nat
    PROVE  \E f \in [0 .. n -> Screens] : ForwardRun(f, n, s)
  <1> DEFINE V == Screens
             D == [p \in Nat \X V |-> forward(p[2])]
             Is(g) == g = [k \in 0 .. n |-> IF k = 0 THEN s ELSE forward(g[k - 1])]
             after == CHOOSE g : Is(g)
  <1>0. 0 \in 0 .. n /\ n \in 0 .. n
    OBVIOUS
  <1>2. ASSUME NEW v \in V PROVE forward(v) \in V
    BY Forward DEF V
  <1> HIDE DEF V
  <1>3. D \in [Nat \X V -> V]
    BY <1>2
  <1>4. \A k, v : k \in Nat /\ v \in V => D[<<k, v>>] = forward(v)
    OBVIOUS
  <1> HIDE DEF D
  <1>5. PICK f \in [0 .. n -> V] : Iterates(f, n, s, D)
    <2>1. s \in V
      BY DEF V
    <2> QED
      BY <1>3, <2>1, Recursion
  <1>6. ASSUME NEW k \in 0 .. n
        PROVE  f[k] = IF k = 0 THEN s ELSE forward(f[k - 1])
    <2>1. CASE k = 0
      BY <1>5, <2>1 DEF Iterates
    <2>2. CASE k # 0
      <3>1. k \in 1 .. n /\ k - 1 \in 0 .. n /\ k \in Nat
        BY <2>2
      <3>2. f[k] = D[<<k, f[k - 1]>>] /\ f[k - 1] \in V
        BY <1>5, <3>1 DEF Iterates
      <3> QED
        BY <1>4, <2>2, <3>1, <3>2
    <2> QED
      BY <2>1, <2>2
  <1>7. Is(f)
    BY <1>5, <1>6
  <1>8. Is(after)
    BY <1>7
  <1>9. Times(n, forward, s) = after[n]
    BY DEF Times
  <1> HIDE DEF after
  <1>10. after[0] = s
    BY <1>0, <1>8
  <1>11. ASSUME NEW k \in 1 .. n PROVE after[k] = forward(after[k - 1])
    <2>1. k \in 0 .. n /\ k # 0
      OBVIOUS
    <2> QED
      BY <1>8, <2>1
  <1> DEFINE S == {k \in 0 .. n : after[k] \in V}
  <1>12. 0 \in S
    BY <1>0, <1>10 DEF V
  <1>13. \A k \in 0 .. n - 1 : k \in S => k + 1 \in S
    <2> SUFFICES ASSUME NEW k \in 0 .. n - 1, k \in S PROVE k + 1 \in S
      OBVIOUS
    <2>1. k + 1 \in 1 .. n /\ k + 1 \in 0 .. n /\ (k + 1) - 1 = k
      OBVIOUS
    <2>2. after[k + 1] = forward(after[k])
      BY <1>11, <2>1
    <2> QED
      BY <1>2, <2>1, <2>2
  <1> HIDE DEF S
  <1>14. 0 .. n \subseteq S
    BY <1>12, <1>13, UpTo
  <1>15. after \in [0 .. n -> V]
    BY <1>8, <1>14 DEF S
  <1>16. ForwardRun(after, n, s)
    BY <1>9, <1>10, <1>11 DEF ForwardRun
  <1> QED
    BY <1>15, <1>16 DEF V

\* n times scroll.
ScrollRun(f, n, s) ==
    /\ f[0] = s /\ f[n] = Times(n, scroll, s)
    /\ \A k \in 1 .. n : f[k] = scroll(f[k - 1])

\* scroll repeated runs step by step.
LEMMA ScrollRuns ==
    ASSUME NEW s \in Screens, NEW n \in Nat
    PROVE  \E f \in [0 .. n -> Screens] : ScrollRun(f, n, s)
  <1> DEFINE V == Screens
             D == [p \in Nat \X V |-> scroll(p[2])]
             Is(g) == g = [k \in 0 .. n |-> IF k = 0 THEN s ELSE scroll(g[k - 1])]
             after == CHOOSE g : Is(g)
  <1>0. 0 \in 0 .. n /\ n \in 0 .. n
    OBVIOUS
  <1>2. ASSUME NEW v \in V PROVE scroll(v) \in V
    BY ScrollAny DEF V
  <1> HIDE DEF V
  <1>3. D \in [Nat \X V -> V]
    BY <1>2
  <1>4. \A k, v : k \in Nat /\ v \in V => D[<<k, v>>] = scroll(v)
    OBVIOUS
  <1> HIDE DEF D
  <1>5. PICK f \in [0 .. n -> V] : Iterates(f, n, s, D)
    <2>1. s \in V
      BY DEF V
    <2> QED
      BY <1>3, <2>1, Recursion
  <1>6. ASSUME NEW k \in 0 .. n
        PROVE  f[k] = IF k = 0 THEN s ELSE scroll(f[k - 1])
    <2>1. CASE k = 0
      BY <1>5, <2>1 DEF Iterates
    <2>2. CASE k # 0
      <3>1. k \in 1 .. n /\ k - 1 \in 0 .. n /\ k \in Nat
        BY <2>2
      <3>2. f[k] = D[<<k, f[k - 1]>>] /\ f[k - 1] \in V
        BY <1>5, <3>1 DEF Iterates
      <3> QED
        BY <1>4, <2>2, <3>1, <3>2
    <2> QED
      BY <2>1, <2>2
  <1>7. Is(f)
    BY <1>5, <1>6
  <1>8. Is(after)
    BY <1>7
  <1>9. Times(n, scroll, s) = after[n]
    BY DEF Times
  <1> HIDE DEF after
  <1>10. after[0] = s
    BY <1>0, <1>8
  <1>11. ASSUME NEW k \in 1 .. n PROVE after[k] = scroll(after[k - 1])
    <2>1. k \in 0 .. n /\ k # 0
      OBVIOUS
    <2> QED
      BY <1>8, <2>1
  <1> DEFINE S == {k \in 0 .. n : after[k] \in V}
  <1>12. 0 \in S
    BY <1>0, <1>10 DEF V
  <1>13. \A k \in 0 .. n - 1 : k \in S => k + 1 \in S
    <2> SUFFICES ASSUME NEW k \in 0 .. n - 1, k \in S PROVE k + 1 \in S
      OBVIOUS
    <2>1. k + 1 \in 1 .. n /\ k + 1 \in 0 .. n /\ (k + 1) - 1 = k
      OBVIOUS
    <2>2. after[k + 1] = scroll(after[k])
      BY <1>11, <2>1
    <2> QED
      BY <1>2, <2>1, <2>2
  <1> HIDE DEF S
  <1>14. 0 .. n \subseteq S
    BY <1>12, <1>13, UpTo
  <1>15. after \in [0 .. n -> V]
    BY <1>8, <1>14 DEF S
  <1>16. ScrollRun(after, n, s)
    BY <1>9, <1>10, <1>11 DEF ScrollRun
  <1> QED
    BY <1>15, <1>16 DEF V

\* n times the round of delch.
EraseRun(f, n, rest, s) ==
    /\ f[0] = s /\ f[n] = EraseTimes(n, rest, s)
    /\ \A k \in 1 .. n : f[k] = Erase(rest, f[k - 1])

\* delch erases round by round.
LEMMA EraseRuns ==
    ASSUME NEW s \in Screens, NEW n \in Nat, NEW rest \in Seq(Marks)
    PROVE  \E f \in [0 .. n -> Screens] : EraseRun(f, n, rest, s)
  <1> DEFINE V == Screens
             D == [p \in Nat \X V |-> Erase(rest, p[2])]
             Is(g) == g = [k \in 0 .. n |-> IF k = 0 THEN s ELSE Erase(rest, g[k - 1])]
             after == CHOOSE g : Is(g)
  <1>0. 0 \in 0 .. n /\ n \in 0 .. n
    OBVIOUS
  <1>2. ASSUME NEW v \in V PROVE Erase(rest, v) \in V
    BY EraseAny DEF V
  <1> HIDE DEF V
  <1>3. D \in [Nat \X V -> V]
    BY <1>2
  <1>4. \A k, v : k \in Nat /\ v \in V => D[<<k, v>>] = Erase(rest, v)
    OBVIOUS
  <1> HIDE DEF D
  <1>5. PICK f \in [0 .. n -> V] : Iterates(f, n, s, D)
    <2>1. s \in V
      BY DEF V
    <2> QED
      BY <1>3, <2>1, Recursion
  <1>6. ASSUME NEW k \in 0 .. n
        PROVE  f[k] = IF k = 0 THEN s ELSE Erase(rest, f[k - 1])
    <2>1. CASE k = 0
      BY <1>5, <2>1 DEF Iterates
    <2>2. CASE k # 0
      <3>1. k \in 1 .. n /\ k - 1 \in 0 .. n /\ k \in Nat
        BY <2>2
      <3>2. f[k] = D[<<k, f[k - 1]>>] /\ f[k - 1] \in V
        BY <1>5, <3>1 DEF Iterates
      <3> QED
        BY <1>4, <2>2, <3>1, <3>2
    <2> QED
      BY <2>1, <2>2
  <1>7. Is(f)
    BY <1>5, <1>6
  <1>8. Is(after)
    BY <1>7
  <1>9. EraseTimes(n, rest, s) = after[n]
    BY DEF EraseTimes, Times
  <1> HIDE DEF after
  <1>10. after[0] = s
    BY <1>0, <1>8
  <1>11. ASSUME NEW k \in 1 .. n PROVE after[k] = Erase(rest, after[k - 1])
    <2>1. k \in 0 .. n /\ k # 0
      OBVIOUS
    <2> QED
      BY <1>8, <2>1
  <1> DEFINE S == {k \in 0 .. n : after[k] \in V}
  <1>12. 0 \in S
    BY <1>0, <1>10 DEF V
  <1>13. \A k \in 0 .. n - 1 : k \in S => k + 1 \in S
    <2> SUFFICES ASSUME NEW k \in 0 .. n - 1, k \in S PROVE k + 1 \in S
      OBVIOUS
    <2>1. k + 1 \in 1 .. n /\ k + 1 \in 0 .. n /\ (k + 1) - 1 = k
      OBVIOUS
    <2>2. after[k + 1] = Erase(rest, after[k])
      BY <1>11, <2>1
    <2> QED
      BY <1>2, <2>1, <2>2
  <1> HIDE DEF S
  <1>14. 0 .. n \subseteq S
    BY <1>12, <1>13, UpTo
  <1>15. after \in [0 .. n -> V]
    BY <1>8, <1>14 DEF S
  <1>16. EraseRun(after, n, rest, s)
    BY <1>9, <1>10, <1>11 DEF EraseRun
  <1> QED
    BY <1>15, <1>16 DEF V

\* The cursor goes back n cells.
LEMMA BackTimes ==
    ASSUME NEW s \in Screens, NEW n \in Nat
    PROVE  /\ Times(n, back, s) \in Screens /\ Times(n, back, s).mem = s.mem
           /\ n <= At(s) => At(Times(n, back, s)) = At(s) - n
  <1>1. PICK f \in [0 .. n -> Screens] : BackRun(f, n, s)
    BY BackRuns
  <1>2. f[0] = s /\ f[n] = Times(n, back, s) /\ \A k \in 1 .. n : f[k] = back(f[k - 1])
    BY <1>1 DEF BackRun
  <1>3. At(s) \in Nat
    BY AtCell
  <1> DEFINE S == {k \in 0 .. n : f[k].mem = s.mem /\ (k <= At(s) => At(f[k]) = At(s) - k)}
  <1>4. 0 \in S
    BY <1>2, <1>3
  <1>5. \A k \in 0 .. n - 1 : k \in S => k + 1 \in S
    <2> SUFFICES ASSUME NEW k \in 0 .. n - 1, k \in S PROVE k + 1 \in S
      OBVIOUS
    <2>1. k \in 0 .. n /\ k + 1 \in 1 .. n /\ k + 1 \in 0 .. n /\ (k + 1) - 1 = k /\ f[k] \in Screens
      OBVIOUS
    <2>2. f[k + 1] = back(f[k])
      BY <1>2, <2>1
    <2>3. /\ f[k + 1].mem = f[k].mem
          /\ At(f[k + 1]) = IF At(f[k]) = 0 THEN NUM_COLS - 1 ELSE At(f[k]) - 1
      BY <2>1, <2>2, Back
    <2> QED
      BY <1>3, <2>1, <2>3
  <1> HIDE DEF S
  <1>6. 0 .. n \subseteq S
    BY <1>4, <1>5, UpTo
  <1>7. n \in S /\ f[n] \in Screens
    BY <1>6
  <1> QED
    BY <1>2, <1>7 DEF S

\* The cursor goes on n cells.
LEMMA ForwardTimes ==
    ASSUME NEW s \in Screens, NEW n \in Nat
    PROVE  /\ Times(n, forward, s) \in Screens /\ Times(n, forward, s).mem = s.mem
           /\ At(s) + n < Size => At(Times(n, forward, s)) = At(s) + n
  <1>1. PICK f \in [0 .. n -> Screens] : ForwardRun(f, n, s)
    BY ForwardRuns
  <1>2. f[0] = s /\ f[n] = Times(n, forward, s) /\ \A k \in 1 .. n : f[k] = forward(f[k - 1])
    BY <1>1 DEF ForwardRun
  <1>3. At(s) \in Nat /\ Size \in Nat
    BY AtCell
  <1> DEFINE S == {k \in 0 .. n : f[k].mem = s.mem /\ (At(s) + k < Size => At(f[k]) = At(s) + k)}
  <1>4. 0 \in S
    BY <1>2, <1>3
  <1>5. \A k \in 0 .. n - 1 : k \in S => k + 1 \in S
    <2> SUFFICES ASSUME NEW k \in 0 .. n - 1, k \in S PROVE k + 1 \in S
      OBVIOUS
    <2>1. k \in 0 .. n /\ k + 1 \in 1 .. n /\ k + 1 \in 0 .. n /\ (k + 1) - 1 = k /\ f[k] \in Screens
      OBVIOUS
    <2>2. f[k + 1] = forward(f[k])
      BY <1>2, <2>1
    <2>3. /\ f[k + 1].mem = f[k].mem
          /\ At(f[k]) + 1 < Size => At(f[k + 1]) = At(f[k]) + 1
      BY <2>1, <2>2, Forward
    <2> QED
      BY <1>3, <2>1, <2>3
  <1> HIDE DEF S
  <1>6. 0 .. n \subseteq S
    BY <1>4, <1>5, UpTo
  <1>7. n \in S /\ f[n] \in Screens
    BY <1>6
  <1> QED
    BY <1>2, <1>7 DEF S

\* Multiples of the row length.
LEMMA NextRow ==
    ASSUME NEW k \in Nat
    PROVE  NUM_COLS * k \in Nat /\ NUM_COLS * (k + 1) = NUM_COLS * k + NUM_COLS
  <1>1. NUM_COLS \in Nat
    BY ScreenSizes
  <1> QED
    BY <1>1

\* t is s moved up by k rows.
MovedUp(s, t, k) ==
    /\ t.x = s.x /\ t.y = s.y - k
    /\ \A i \in VidCells : i + NUM_COLS * k \in VidCells => t.mem[i] = s.mem[i + NUM_COLS * k]

\* The cursor's row becomes the n-th one above it.
LEMMA ScrollTimes ==
    ASSUME NEW s \in Screens, NEW n \in 0 .. s.y
    PROVE  Times(n, scroll, s) \in Screens /\ MovedUp(s, Times(n, scroll, s), n)
  <1>0. s.y \in Rows /\ s.y \in Nat /\ n \in Nat /\ NUM_COLS \in Nat
    BY AtCell, ScreenSizes DEF Rows
  <1>1. PICK f \in [0 .. n -> Screens] : ScrollRun(f, n, s)
    BY <1>0, ScrollRuns
  <1>2. f[0] = s /\ f[n] = Times(n, scroll, s) /\ \A k \in 1 .. n : f[k] = scroll(f[k - 1])
    BY <1>1 DEF ScrollRun
  <1> DEFINE S == {k \in 0 .. n : MovedUp(s, f[k], k)}
  <1>4. 0 \in S
    <2>1. NUM_COLS * 0 = 0 /\ VidCells \subseteq Int
      BY <1>0, ScreenSizes
    <2>2. MovedUp(s, s, 0)
      BY <1>0, <2>1 DEF MovedUp
    <2> QED
      BY <1>0, <1>2, <2>2
  <1>5. \A k \in 0 .. n - 1 : k \in S => k + 1 \in S
    <2> SUFFICES ASSUME NEW k \in 0 .. n - 1, k \in S PROVE k + 1 \in S
      OBVIOUS
    <2>1. k \in 0 .. n /\ k + 1 \in 1 .. n /\ k + 1 \in 0 .. n /\ (k + 1) - 1 = k /\ k \in Nat
      BY <1>0
    <2>2. PICK t \in Screens : t = f[k]
      BY <2>1
    <2>3. PICK r : r = scroll(t)
      OBVIOUS
    <2>4. f[k + 1] = r
      BY <1>2, <2>1, <2>2, <2>3
    <2>5. MovedUp(s, t, k)
      BY <2>2
    <2>6. t.x = s.x /\ t.y = s.y - k /\ t.y # 0
      BY <1>0, <2>1, <2>5 DEF MovedUp
    <2>7. t \in ScreensAt(Columns, RowsBelow)
      BY ScreenSizes DEF Screens, ScreensAt, Rows, RowsBelow
    <2>8. /\ r.x = t.x /\ r.y = t.y - 1
          /\ \A i \in VidCells : r.mem[i] = Shifted(t.mem, NUM_COLS, i)
      BY <2>3, <2>6, <2>7, Scroll
    <2>9. ASSUME NEW i \in VidCells, i + NUM_COLS * (k + 1) \in VidCells
          PROVE  r.mem[i] = s.mem[i + NUM_COLS * (k + 1)]
      <3>1. PICK c \in Nat : c = NUM_COLS * k
        BY <2>1, NextRow
      <3>2. NUM_COLS * (k + 1) = c + NUM_COLS
        BY <2>1, <3>1, NextRow
      <3>3. i + NUM_COLS \in VidCells /\ (i + NUM_COLS) + c = i + NUM_COLS * (k + 1)
        <4>1. PICK e \in Nat : e = NUM_COLS * (k + 1)
          BY <2>1, NextRow
        <4>2. e = c + NUM_COLS /\ i + e \in VidCells
          BY <2>9, <3>2, <4>1
        <4>3. i + NUM_COLS \in VidCells /\ (i + NUM_COLS) + c = i + e
          BY <1>0, <4>2, AtCell, ScreenSizes
        <4> QED
          BY <4>1, <4>3
      <3>4. r.mem[i] = t.mem[i + NUM_COLS]
        BY <2>8, <3>3 DEF Shifted
      <3>5. (i + NUM_COLS) + NUM_COLS * k \in VidCells
        BY <2>9, <3>1, <3>3
      <3>6. t.mem[i + NUM_COLS] = s.mem[(i + NUM_COLS) + NUM_COLS * k]
        BY <2>5, <3>3, <3>5 DEF MovedUp
      <3> QED
        BY <3>1, <3>3, <3>4, <3>6
    <2>10. r.x = s.x /\ r.y = s.y - (k + 1)
      BY <1>0, <2>1, <2>6, <2>8
    <2>11. MovedUp(s, r, k + 1)
      BY <2>9, <2>10 DEF MovedUp
    <2> QED
      BY <2>1, <2>4, <2>11
  <1> HIDE DEF S
  <1>6. 0 .. n \subseteq S
    BY <1>0, <1>4, <1>5, UpTo
  <1>7. n \in S /\ f[n] \in Screens
    BY <1>0, <1>6
  <1> QED
    BY <1>2, <1>7 DEF S

\* t is s after k characters before the cursor have been erased: the text rest
\* stands from the cursor on.
Erased(s, t, rest, k) ==
    /\ At(t) = At(s) - k
    /\ k = 0 => t.mem = s.mem
    /\ \A i \in VidCells : i < At(s) - k => t.mem[i] = s.mem[i]
    /\ k # 0 => \A i \in VidCells : At(s) - k <= i /\ i < At(s) - k + Len(rest) =>
                    t.mem[i][1] = rest[i - (At(s) - k) + 1]

\* One round of delch on a line that is on the screen.
LEMMA ErasedNext ==
    ASSUME NEW s \in Screens, NEW rest \in Seq(Plain), NEW t \in Screens, NEW k \in Nat,
           Erased(s, t, rest, k), k < At(s), At(s) - 1 + Len(rest) < Size
    PROVE  Erased(s, Erase(rest, t), rest, k + 1)
  <1>1. /\ At(s) \in Nat /\ At(t) \in Nat /\ Size \in Nat /\ Len(rest) \in Nat
        /\ VidCells = 0 .. Size - 1 /\ At(t) = At(s) - k
    BY AtCell, ScreenSizes DEF Erased
  <1>2. PICK b \in Screens : b = back(t)
    BY Back
  <1>3. At(b) = At(s) - (k + 1) /\ b.mem = t.mem /\ At(b) \in Nat
    <2>1. At(b) = At(t) - 1 /\ b.mem = t.mem
      BY <1>1, <1>2, Back
    <2> QED
      BY <1>1, <2>1
  <1>4. PICK p \in Screens : p = puts(rest, b)
    BY PutsPlain
  <1>5. PICK d \in Nat : Prints(b, p, rest, Len(rest), d)
    BY <1>4, PutsPlain
  <1>6. d = 0
    BY <1>1, <1>3, <1>5 DEF Prints
  <1>7. b.x \in Columns /\ b.y \in Rows /\ p \in ScreensAt(Int, Int) /\ At(b) = b.x + NUM_COLS * b.y
    BY AtCell, ScreensWide
  <1>8. PICK r : r = Erase(rest, t)
    OBVIOUS
  <1>9. r = setpos(b.x, b.y, p)
    BY <1>2, <1>4, <1>8 DEF Erase
  <1>10. r.mem = p.mem /\ At(r) = At(b)
    BY <1>7, <1>9, SetPos
  <1>11. ASSUME NEW i \in VidCells, i < At(s) - (k + 1) PROVE r.mem[i] = s.mem[i]
    <2>1. i + 0 < At(b) /\ i + 0 = i /\ i < At(s) - k
      BY <1>1, <1>3, <1>11
    <2>2. p.mem[i] = b.mem[i + 0]
      BY <1>5, <1>6, <2>1 DEF Prints
    <2>3. t.mem[i] = s.mem[i]
      BY <2>1 DEF Erased
    <2> QED
      BY <1>3, <1>10, <2>1, <2>2, <2>3
  <1>12. ASSUME NEW i \in VidCells, At(s) - (k + 1) <= i, i < At(s) - (k + 1) + Len(rest)
         PROVE  r.mem[i][1] = rest[i - (At(s) - (k + 1)) + 1]
    <2>1. At(b) <= i + 0 /\ i + 0 < At(b) + Len(rest) /\ i + 0 - At(b) + 1 = i - (At(s) - (k + 1)) + 1
      BY <1>1, <1>3, <1>12
    <2>2. p.mem[i] = <<rest[i + 0 - At(b) + 1], b.attr>>
      BY <1>5, <1>6, <2>1 DEF Prints
    <2> QED
      BY <1>10, <2>1, <2>2
  <1>13. Erased(s, r, rest, k + 1)
    <2>1. k + 1 # 0
      OBVIOUS
    <2> QED
      BY <1>3, <1>10, <1>11, <1>12, <2>1 DEF Erased
  <1> QED
    BY <1>8, <1>13

\* The rounds of delch on a line that is on the screen.
LEMMA EraseTimesIs ==
    ASSUME NEW s \in Screens, NEW rest \in Seq(Plain), NEW n \in 0 .. At(s),
           At(s) - 1 + Len(rest) < Size
    PROVE  EraseTimes(n, rest, s) \in Screens /\ Erased(s, EraseTimes(n, rest, s), rest, n)
  <1>0. At(s) \in Nat /\ n \in Nat /\ rest \in Seq(Marks) /\ VidCells \subseteq Int
    BY AtCell, ScreenSizes DEF Plain, Marks
  <1>1. PICK f \in [0 .. n -> Screens] : EraseRun(f, n, rest, s)
    BY <1>0, EraseRuns
  <1>2. f[0] = s /\ f[n] = EraseTimes(n, rest, s) /\ \A k \in 1 .. n : f[k] = Erase(rest, f[k - 1])
    BY <1>1 DEF EraseRun
  <1> DEFINE S == {k \in 0 .. n : Erased(s, f[k], rest, k)}
  <1>4. 0 \in S
    <2>1. Erased(s, s, rest, 0)
      BY <1>0 DEF Erased
    <2> QED
      BY <1>0, <1>2, <2>1
  <1>5. \A k \in 0 .. n - 1 : k \in S => k + 1 \in S
    <2> SUFFICES ASSUME NEW k \in 0 .. n - 1, k \in S PROVE k + 1 \in S
      OBVIOUS
    <2>1. k \in 0 .. n /\ k + 1 \in 1 .. n /\ k + 1 \in 0 .. n /\ (k + 1) - 1 = k /\ k \in Nat /\ k < At(s)
      BY <1>0
    <2>2. f[k + 1] = Erase(rest, f[k]) /\ f[k] \in Screens
      BY <1>2, <2>1
    <2>3. Erased(s, f[k + 1], rest, k + 1)
      BY <2>1, <2>2, ErasedNext
    <2> QED
      BY <2>1, <2>3
  <1> HIDE DEF S
  <1>6. 0 .. n \subseteq S
    BY <1>0, <1>4, <1>5, UpTo
  <1>7. n \in S /\ f[n] \in Screens
    BY <1>0, <1>6
  <1> QED
    BY <1>2, <1>7 DEF S

\* The rounds of delch with any text keep the cursor on the screen.
LEMMA EraseTimesAny ==
    ASSUME NEW s \in Screens, NEW rest \in Seq(Marks), NEW n \in Nat
    PROVE  EraseTimes(n, rest, s) \in Screens
  <1>1. PICK f \in [0 .. n -> Screens] : EraseRun(f, n, rest, s)
    BY EraseRuns
  <1> QED
    BY <1>1 DEF EraseRun

\* Cells of s that are different in t are blank there.
Blanked(s, t) == \A i \in VidCells : t.mem[i] # s.mem[i] => t.mem[i][1] = Blank

\* At the end of a line a round of delch prints a blank and scrolls nothing.
LEMMA EraseBlank ==
    ASSUME NEW s \in Screens
    PROVE  Blanked(s, Erase(<<Blank>>, s))
  <1>1. PICK b \in Screens : b = back(s)
    BY Back
  <1>2. b.mem = s.mem /\ At(b) = IF At(s) = 0 THEN NUM_COLS - 1 ELSE At(s) - 1
    BY <1>1, Back
  <1>3. At(b) + 1 < Size
    <2>1. NUM_COLS * (NUM_ROWS - 1) = Size - NUM_COLS /\ Size \in Nat /\ NUM_COLS \in Nat
      BY ScreenSizes DEF Size
    <2>2. NUM_COLS < Size
      BY <2>1, ConsoleAssumption, TermAssumption
    <2>3. At(s) \in Nat /\ At(s) <= Size - 1
      BY AtCell
    <2> QED
      BY <1>2, <2>1, <2>2, <2>3
  <1>4. Blank \in Plain /\ Blank \in Marks /\ <<Blank>> \in Seq(Marks) /\ Len(<<Blank>>) = 1
    BY DEF Plain, Marks
  <1>5. PICK p : p = puts(<<Blank>>, b)
    OBVIOUS
  <1>6. p = putc(Blank, b)
    <2>1. PICK f \in [0 .. Len(<<Blank>>) -> Screens] : PutsRun(f, <<Blank>>, b)
      BY <1>4, PutsRuns
    <2>2. f[0] = b /\ f[1] = p /\ f[1] = putc(<<Blank>>[1], f[1 - 1])
      BY <1>4, <1>5, <2>1 DEF PutsRun
    <2> QED
      BY <2>2
  <1>7. p \in Screens /\ p.mem = [b.mem EXCEPT ![At(b)] = <<Blank, b.attr>>]
    BY <1>3, <1>4, <1>6, PutcPlain
  <1>8. b.x \in Columns /\ b.y \in Rows /\ p \in ScreensAt(Int, Int)
    BY <1>7, AtCell, ScreensWide
  <1>9. Erase(<<Blank>>, s) = setpos(b.x, b.y, p)
    BY <1>1, <1>5 DEF Erase
  <1>10. Erase(<<Blank>>, s).mem = p.mem
    BY <1>8, <1>9, SetPos
  <1>11. s.mem \in Memory
    BY AtCell
  <1> QED
    BY <1>2, <1>7, <1>10, <1>11 DEF Blanked, Memory

\* So do all its rounds.
LEMMA EraseBlanks ==
    ASSUME NEW s \in Screens, NEW n \in Nat
    PROVE  Blanked(s, EraseTimes(n, <<Blank>>, s))
  <1>0. <<Blank>> \in Seq(Marks)
    BY DEF Marks
  <1>1. PICK f \in [0 .. n -> Screens] : EraseRun(f, n, <<Blank>>, s)
    BY <1>0, EraseRuns
  <1>2. f[0] = s /\ f[n] = EraseTimes(n, <<Blank>>, s) /\ \A k \in 1 .. n : f[k] = Erase(<<Blank>>, f[k - 1])
    BY <1>1 DEF EraseRun
  <1> DEFINE S == {k \in 0 .. n : Blanked(s, f[k])}
  <1>4. 0 \in S
    BY <1>2 DEF Blanked
  <1>5. \A k \in 0 .. n - 1 : k \in S => k + 1 \in S
    <2> SUFFICES ASSUME NEW k \in 0 .. n - 1, k \in S PROVE k + 1 \in S
      OBVIOUS
    <2>1. k \in 0 .. n /\ k + 1 \in 1 .. n /\ k + 1 \in 0 .. n /\ (k + 1) - 1 = k
      OBVIOUS
    <2>2. f[k + 1] = Erase(<<Blank>>, f[k]) /\ f[k] \in Screens
      BY <1>2, <2>1
    <2>3. Blanked(f[k], f[k + 1])
      BY <2>2, EraseBlank
    <2>4. Blanked(s, f[k + 1])
      BY <2>3 DEF Blanked
    <2> QED
      BY <2>1, <2>4
  <1> HIDE DEF S
  <1>6. 0 .. n \subseteq S
    BY <1>4, <1>5, UpTo
  <1>7. n \in S
    BY <1>6
  <1> QED
    BY <1>2, <1>7 DEF S

----------------------------------------------------------------------------
(***************************************************************************)
(* The line on the screen.  A line of n characters b with the cursor at c  *)
(* is shown by s when it stands around the cursor of s, with room for the  *)
(* cursor behind it.                                                       *)
(***************************************************************************)
Shows(s, b, c, n) ==
    /\ At(s) - c >= 0 /\ At(s) - c + n <= Size - 1
    /\ \A i \in 0 .. n - 1 : s.mem[At(s) - c + i][1] = b[i]

AllPlain(b, n) == \A i \in 0 .. n - 1 : b[i] \in Chars

\* The text of a line of plain characters.
LEMMA TextPlain ==
    ASSUME NEW f \in Buffers, NEW m \in Cuts, NEW n \in Cuts, m <= n, AllPlain(f, n)
    PROVE  /\ Text(f, m, n) \in Seq(Plain)
           /\ Len(Text(f, m, n)) = n - m
           /\ \A i \in 1 .. n - m : Text(f, m, n)[i] = f[m + i - 1]
  <1>1. m \in Nat /\ n \in Nat /\ n - m \in Nat
    BY TermAssumption DEF Cuts
  <1>2. ASSUME NEW i \in 1 .. n - m PROVE f[m + i - 1] \in Plain
    <2>1. m + i - 1 \in 0 .. n - 1
      BY <1>1
    <2> QED
      BY <2>1 DEF AllPlain, Plain
  <1>3. Text(f, m, n) \in [1 .. n - m -> Plain]
    BY <1>2 DEF Text
  <1>4. Text(f, m, n) \in Seq(Plain)
    BY <1>1, <1>3
  <1> QED
    BY <1>4, TextSeq

\* A full line leaves the screen a row: it scrolls off nowhere.
LEMMA LineFits == TERM_BUF_SIZE \in Nat /\ Size \in Nat /\ NUM_COLS \in Nat \ {0}
                  /\ TERM_BUF_SIZE <= Size - NUM_COLS
  <1>1. NUM_COLS * (NUM_ROWS - 1) = Size - NUM_COLS /\ Size \in Nat /\ NUM_COLS \in Nat \ {0}
    BY ScreenSizes DEF Size
  <1> QED
    BY <1>1, ConsoleAssumption, TermAssumption

\* addch: the character that is typed at c, and what is behind it, is printed
\* and the cursor goes back behind it.
LEMMA AddShown ==
    ASSUME NEW s \in Screens, NEW b \in Buffers, NEW b1 \in Buffers,
           NEW n \in 0 .. TERM_BUF_SIZE - 1, NEW c \in 0 .. n, Shows(s, b, c, n),
           \A i \in 0 .. c - 1 : b1[i] = b[i], AllPlain(b1, n + 1)
    PROVE  Shows(Times(n - c, back, puts(Text(b1, c, n + 1), s)), b1, c + 1, n + 1)
  <1>1. /\ n \in Nat /\ c \in Nat /\ c <= n /\ n + 1 <= TERM_BUF_SIZE
        /\ c \in Cuts /\ n + 1 \in Cuts /\ c <= n + 1 /\ n - c \in Nat
    BY LineFits DEF Cuts
  <1>2. PICK str : str = Text(b1, c, n + 1)
    OBVIOUS
  <1>3. str \in Seq(Plain) /\ Len(str) = n + 1 - c /\ \A i \in 1 .. n + 1 - c : str[i] = b1[c + i - 1]
    <2>1. PICK m \in Cuts : m = n + 1
      BY <1>1
    <2>2. str = Text(b1, c, m) /\ c <= m /\ AllPlain(b1, m)
      BY <1>1, <1>2, <2>1
    <2>3. str \in Seq(Plain) /\ Len(str) = m - c /\ \A i \in 1 .. m - c : str[i] = b1[c + i - 1]
      BY <1>1, <2>2, TextPlain
    <2> QED
      BY <2>1, <2>3
  <1>4. PICK p \in Screens : p = puts(str, s)
    BY <1>3, PutsPlain
  <1>5. PICK d \in Nat : Prints(s, p, str, n + 1 - c, d)
    BY <1>3, <1>4, PutsPlain
  <1>6. /\ At(s) \in Nat /\ At(p) \in Nat /\ At(p) <= Size - 1 /\ Size \in Nat
        /\ VidCells = 0 .. Size - 1
    BY AtCell, ScreenSizes
  <1>7. At(p) = At(s) + (n + 1 - c) - d /\ (d # 0 => At(p) >= Size - NUM_COLS)
    BY <1>5 DEF Prints
  <1>8. At(s) - c >= 0
    BY DEF Shows
  <1>9. PICK base \in Nat : base = At(p) - (n + 1)
    <2>1. At(p) - (n + 1) \in Nat
      BY <1>1, <1>6, <1>7, <1>8, LineFits
    <2> QED
      BY <2>1
  <1>10. PICK t : t = Times(n - c, back, p)
    OBVIOUS
  <1>11. t.mem = p.mem /\ At(t) = At(p) - (n - c)
    <2>1. n - c <= At(p)
      BY <1>1, <1>6, <1>9
    <2> QED
      BY <1>1, <1>10, <2>1, BackTimes
  <1>12. At(t) - (c + 1) = base /\ base + (n + 1) <= Size - 1 /\ base + d = At(s) - c
    <2>1. At(t) - (c + 1) = base
      BY <1>1, <1>6, <1>9, <1>11
    <2>2. base + (n + 1) <= Size - 1
      BY <1>1, <1>6, <1>9
    <2>3. base + d = At(s) - c
      BY <1>1, <1>6, <1>7, <1>9
    <2> QED
      BY <2>1, <2>2, <2>3
  <1>13. ASSUME NEW i \in 0 .. (n + 1) - 1 PROVE t.mem[base + i][1] = b1[i]
    <2>1. base + i \in VidCells /\ (base + i) + d = At(s) - c + i
      BY <1>1, <1>6, <1>12
    <2>2. CASE i < c
      <3>1. i \in 0 .. c - 1 /\ i \in 0 .. n - 1 /\ (base + i) + d < At(s)
        BY <1>1, <1>6, <2>1, <2>2
      <3>2. p.mem[base + i] = s.mem[(base + i) + d]
        BY <1>5, <2>1, <3>1 DEF Prints
      <3>3. s.mem[At(s) - c + i][1] = b[i] /\ b1[i] = b[i]
        BY <3>1 DEF Shows
      <3> QED
        BY <1>11, <2>1, <3>2, <3>3
    <2>3. CASE ~(i < c)
      <3>1. At(s) <= (base + i) + d /\ (base + i) + d < At(s) + (n + 1 - c)
        BY <1>1, <1>6, <2>1, <2>3
      <3>2. p.mem[base + i] = <<str[(base + i) + d - At(s) + 1], s.attr>>
        BY <1>5, <2>1, <3>1 DEF Prints
      <3>3. (base + i) + d - At(s) + 1 = i - c + 1 /\ i - c + 1 \in 1 .. n + 1 - c /\ c + (i - c + 1) - 1 = i
        <4>1. (base + i) + d - At(s) + 1 = i - c + 1
          BY <1>1, <1>6, <2>1
        <4>2. i - c + 1 \in 1 .. n + 1 - c /\ c + (i - c + 1) - 1 = i
          BY <1>1, <2>3
        <4> QED
          BY <4>1, <4>2
      <3>4. str[i - c + 1] = b1[i]
        BY <1>3, <3>3
      <3> QED
        BY <1>11, <3>2, <3>3, <3>4
    <2> QED
      BY <2>2, <2>3
  <1>14. Shows(t, b1, c + 1, n + 1)
    BY <1>9, <1>12, <1>13 DEF Shows
  <1> QED
    BY <1>2, <1>4, <1>10, <1>14

\* delch, k times: the line closes the gap and the cursor goes with it.
LEMMA DelShown ==
    ASSUME NEW s \in Screens, NEW b \in Buffers, NEW b1,
           NEW n \in 0 .. TERM_BUF_SIZE, NEW c \in 0 .. n, NEW k \in 0 .. c,
           Shows(s, b, c, n), AllPlain(b, n),
           \A i \in 0 .. c - k - 1 : b1[i] = b[i],
           \A i \in c - k .. n - k - 1 : b1[i] = b[i + k]
    PROVE  Shows(EraseTimes(k, Append(Text(b, c, n), Blank), s), b1, c - k, n - k)
  <1>1. /\ n \in Nat /\ c \in Nat /\ k \in Nat /\ k <= c /\ c <= n /\ n - c \in Nat
        /\ n \in Cuts /\ c \in Cuts
    BY LineFits DEF Cuts
  <1>2. PICK str : str = Text(b, c, n)
    OBVIOUS
  <1>3. str \in Seq(Plain) /\ Len(str) = n - c /\ \A i \in 1 .. n - c : str[i] = b[c + i - 1]
    BY <1>1, <1>2, TextPlain
  <1>4. PICK rest : rest = Append(str, Blank)
    OBVIOUS
  <1>5. rest \in Seq(Plain) /\ Len(rest) = n - c + 1 /\ \A i \in 1 .. n - c : rest[i] = b[c + i - 1]
    <2>1. Blank \in Plain
      BY DEF Plain
    <2> QED
      BY <1>1, <1>3, <1>4, <2>1
  <1>6. At(s) \in Nat /\ Size \in Nat /\ VidCells = 0 .. Size - 1
    BY AtCell, ScreenSizes
  <1>7. PICK base \in Nat : base = At(s) - c
    <2>1. At(s) - c \in Nat
      BY <1>1, <1>6 DEF Shows
    <2> QED
      BY <2>1
  <1>8. base + n <= Size - 1 /\ \A i \in 0 .. n - 1 : s.mem[base + i][1] = b[i]
    BY <1>7 DEF Shows
  <1>9. k \in 0 .. At(s) /\ At(s) - 1 + Len(rest) < Size
    BY <1>1, <1>5, <1>6, <1>7, <1>8
  <1>10. PICK t : t = EraseTimes(k, rest, s)
    OBVIOUS
  <1>11. Erased(s, t, rest, k)
    BY <1>5, <1>9, <1>10, EraseTimesIs
  <1>12. At(t) - (c - k) = base /\ base + (n - k) <= Size - 1
    BY <1>1, <1>6, <1>7, <1>8, <1>11 DEF Erased
  <1>13. ASSUME NEW i \in 0 .. (n - k) - 1 PROVE t.mem[base + i][1] = b1[i]
    <2>1. base + i \in VidCells /\ i \in 0 .. n - 1 /\ i + k \in 0 .. n - 1
      BY <1>1, <1>6, <1>8
    <2>2. CASE i < c - k
      <3>1. base + i < At(s) - k /\ i \in 0 .. c - k - 1
        BY <1>1, <1>6, <1>7, <2>2
      <3>2. t.mem[base + i] = s.mem[base + i]
        BY <1>11, <2>1, <3>1 DEF Erased
      <3> QED
        BY <1>8, <2>1, <3>1, <3>2
    <2>3. CASE ~(i < c - k) /\ k = 0
      <3>1. i \in c - k .. n - k - 1 /\ i + k = i
        BY <1>1, <2>3
      <3>2. b1[i] = b[i]
        BY <3>1
      <3>3. t.mem = s.mem
        BY <1>11, <2>3 DEF Erased
      <3> QED
        BY <1>8, <2>1, <3>2, <3>3
    <2>4. CASE ~(i < c - k) /\ k # 0
      <3>1. /\ i \in c - k .. n - k - 1
            /\ At(s) - k <= base + i /\ base + i < At(s) - k + Len(rest)
            /\ (base + i) - (At(s) - k) + 1 = i + k - c + 1 /\ i + k - c + 1 \in 1 .. n - c
            /\ c + (i + k - c + 1) - 1 = i + k
        <4>1. i \in c - k .. n - k - 1
          BY <1>1, <2>4
        <4>2. At(s) - k <= base + i /\ base + i < At(s) - k + Len(rest)
          <5>1. Len(rest) = n - c + 1 /\ At(s) \in Nat /\ base = At(s) - c
            BY <1>5, <1>6, <1>7
          <5> QED
            BY <1>1, <2>4, <5>1
        <4>3. (base + i) - (At(s) - k) + 1 = i + k - c + 1
          BY <1>1, <1>6, <1>7
        <4>4. i + k - c + 1 \in 1 .. n - c /\ c + (i + k - c + 1) - 1 = i + k
          BY <1>1, <2>4
        <4> QED
          BY <4>1, <4>2, <4>3, <4>4
      <3>2. t.mem[base + i][1] = rest[(base + i) - (At(s) - k) + 1]
        BY <1>11, <2>1, <2>4, <3>1 DEF Erased
      <3>3. rest[i + k - c + 1] = b[i + k]
        BY <1>5, <3>1
      <3>4. b1[i] = b[i + k]
        BY <3>1
      <3> QED
        BY <3>1, <3>2, <3>3, <3>4
    <2> QED
      BY <2>2, <2>3, <2>4
  <1>14. Shows(t, b1, c - k, n - k)
    BY <1>7, <1>12, <1>13 DEF Shows
  <1> QED
    BY <1>2, <1>4, <1>10, <1>14

\* The cursor keys.
LEMMA MoveShown ==
    ASSUME NEW s \in Screens, NEW b, NEW n \in Nat, NEW c \in 0 .. n, NEW k \in 0 .. n,
           Shows(s, b, c, n)
    PROVE  /\ k >= c => Shows(Times(k - c, forward, s), b, k, n)
           /\ ~(k >= c) => Shows(Times(c - k, back, s), b, k, n)
  <1>1. At(s) \in Nat /\ Size \in Nat /\ c \in Nat /\ k \in Nat /\ c <= n /\ k <= n
    BY AtCell
  <1>2. At(s) - c >= 0 /\ At(s) - c + n <= Size - 1
    BY DEF Shows
  <1>3. ASSUME NEW t, t.mem = s.mem, At(t) = At(s) - c + k PROVE Shows(t, b, k, n)
    <2>1. At(t) - k = At(s) - c
      BY <1>1, <1>3
    <2> QED
      BY <1>2, <1>3, <2>1 DEF Shows
  <1>4. CASE k >= c
    <2>1. k - c \in Nat /\ At(s) + (k - c) < Size /\ At(s) + (k - c) = At(s) - c + k
      BY <1>1, <1>2, <1>4
    <2>2. /\ Times(k - c, forward, s).mem = s.mem
          /\ At(Times(k - c, forward, s)) = At(s) - c + k
      BY <2>1, ForwardTimes
    <2> QED
      BY <1>3, <1>4, <2>2
  <1>5. CASE ~(k >= c)
    <2>1. c - k \in Nat /\ c - k <= At(s) /\ At(s) - (c - k) = At(s) - c + k
      BY <1>1, <1>2, <1>5
    <2>2. /\ Times(c - k, back, s).mem = s.mem
          /\ At(Times(c - k, back, s)) = At(s) - c + k
      BY <2>1, BackTimes
    <2> QED
      BY <1>3, <1>5, <2>2
  <1> QED
    BY <1>4, <1>5

\* C-l: the start of the line becomes the first row, and all of it is shown.
LEMMA ClearShown ==
    ASSUME NEW s \in Screens, NEW b, NEW n \in 0 .. TERM_BUF_SIZE, NEW c \in 0 .. n,
           Shows(s, b, c, n), NEW start \in Screens, start = Times(c, back, s)
    PROVE  Shows(Times(c, forward, Times(start.y, scroll, start)), b, c, n)
  <1>1. /\ At(s) \in Nat /\ Size \in Nat /\ c \in Nat /\ n \in Nat /\ c <= n
        /\ VidCells = 0 .. Size - 1
    BY AtCell, ScreenSizes, LineFits
  <1>2. At(s) - c >= 0 /\ At(s) - c + n <= Size - 1 /\ \A i \in 0 .. n - 1 : s.mem[At(s) - c + i][1] = b[i]
    BY DEF Shows
  <1>3. c <= At(s)
    BY <1>1, <1>2
  <1>4. start.mem = s.mem /\ At(start) = At(s) - c
    BY <1>1, <1>3, BackTimes
  <1>5. start.x \in Columns /\ start.y \in Rows /\ start.y \in Nat /\ start.x \in Nat /\ start.x < NUM_COLS
    BY AtCell, ScreenSizes DEF Columns, Rows
  <1>6. PICK up \in Nat : up = NUM_COLS * start.y
    BY <1>5, NextRow
  <1>7. At(s) - c = start.x + up
    BY <1>4, <1>6, AtCell
  <1>8. PICK t \in Screens : t = Times(start.y, scroll, start)
    <2>1. start.y \in 0 .. start.y
      BY <1>5
    <2> QED
      BY <2>1, ScrollTimes
  <1>9. MovedUp(start, t, start.y)
    <2>1. start.y \in 0 .. start.y
      BY <1>5
    <2> QED
      BY <1>8, <2>1, ScrollTimes
  <1>10. At(t) = start.x
    <2>1. t.x = start.x /\ t.y = 0
      BY <1>5, <1>9 DEF MovedUp
    <2>2. NUM_COLS * 0 = 0
      BY ScreenSizes
    <2>3. At(t) = t.x + NUM_COLS * t.y
      BY AtCell
    <2> QED
      BY <1>5, <2>1, <2>2, <2>3
  <1>11. PICK r : r = Times(c, forward, t)
    OBVIOUS
  <1>12. r.mem = t.mem /\ At(r) = start.x + c
    <2>1. At(t) + c < Size
      BY <1>1, <1>5, <1>10, LineFits
    <2> QED
      BY <1>1, <1>10, <1>11, <2>1, ForwardTimes
  <1>13. At(r) - c = start.x /\ start.x + n <= Size - 1
    BY <1>1, <1>5, <1>12, LineFits
  <1>14. ASSUME NEW i \in 0 .. n - 1 PROVE r.mem[start.x + i][1] = b[i]
    <2>1. /\ start.x + i \in VidCells /\ (start.x + i) + up \in VidCells
          /\ (start.x + i) + up = At(s) - c + i
      <3>1. (start.x + i) + up = At(s) - c + i
        BY <1>1, <1>5, <1>7
      <3>2. start.x + i \in VidCells
        BY <1>1, <1>5, <1>13
      <3>3. At(s) - c + i \in VidCells
        BY <1>1, <1>2
      <3> QED
        BY <3>1, <3>2, <3>3
    <2>2. t.mem[start.x + i] = start.mem[(start.x + i) + up]
      BY <1>6, <1>9, <2>1 DEF MovedUp
    <2> QED
      BY <1>2, <1>4, <1>12, <2>1, <2>2
  <1>15. Shows(r, b, c, n)
    BY <1>5, <1>13, <1>14 DEF Shows
  <1> QED
    BY <1>8, <1>11, <1>15

----------------------------------------------------------------------------
(***************************************************************************)
(* Console: every key keeps the echoed line on the screen.                 *)
(***************************************************************************)
\* The inductive invariant: the cursor is on the screen, the line is made of
\* characters that do not move it, and an echoed line stands around it with
\* room for the cursor behind it.
ConsoleInv ==
    /\ TypeOK
    /\ scr \in Screens
    /\ AllPlain(term_buf, term_buf_count)
    /\ echoed => Shows(scr, term_buf, term_curpos, term_buf_count)

\* addch keeps the cells before the character, and all cells plain.
LEMMA AddchPlain ==
    ASSUME TypeOK, NEW ch \in Chars, NEW pos \in 0 .. term_buf_count, addch(ch, pos),
           AllPlain(term_buf, term_buf_count)
    PROVE  /\ AllPlain(term_buf', term_buf_count')
           /\ \A i \in 0 .. pos - 1 : term_buf'[i] = term_buf[i]
  <1>1. CASE ~(term_buf_count < TERM_BUF_SIZE /\ reading)
    BY <1>1 DEF addch
  <1>2. CASE term_buf_count < TERM_BUF_SIZE /\ reading
    <2>1. /\ term_buf_count' = term_buf_count + 1
          /\ \A i \in Cells : term_buf'[i] = CASE i = pos -> ch
                                [] i \in pos + 1 .. term_buf_count -> term_buf[i - 1]
                                [] OTHER -> term_buf[i]
      BY <1>2 DEF addch
    <2>2. term_buf_count \in Nat /\ TERM_BUF_SIZE \in Nat /\ pos \in Nat /\ pos <= term_buf_count
      BY LineFacts
    <2>3. ASSUME NEW i \in 0 .. term_buf_count PROVE i \in Cells
      BY <1>2, <2>2 DEF Cells
    <2>4. ASSUME NEW i \in 0 .. pos - 1 PROVE term_buf'[i] = term_buf[i]
      <3>1. i \in 0 .. term_buf_count /\ i # pos /\ i \notin pos + 1 .. term_buf_count
        BY <2>2
      <3> QED
        BY <2>1, <2>3, <3>1
    <2>5. ASSUME NEW i \in 0 .. (term_buf_count + 1) - 1 PROVE term_buf'[i] \in Chars
      <3>1. i \in 0 .. term_buf_count /\ i \in Cells
        BY <2>2, <2>3
      <3>2. CASE i = pos
        BY <2>1, <3>1, <3>2
      <3>3. CASE i < pos
        <4>1. i \in 0 .. pos - 1 /\ i \in 0 .. term_buf_count - 1
          BY <2>2, <3>1, <3>3
        <4> QED
          BY <2>4, <4>1 DEF AllPlain
      <3>4. CASE i > pos
        <4>1. i # pos /\ i \in pos + 1 .. term_buf_count /\ i - 1 \in 0 .. term_buf_count - 1
          BY <2>2, <3>1, <3>4
        <4>2. term_buf'[i] = term_buf[i - 1]
          BY <2>1, <3>1, <4>1
        <4> QED
          BY <4>1, <4>2 DEF AllPlain
      <3> QED
        BY <2>2, <3>1, <3>2, <3>3, <3>4
    <2> QED
      BY <2>1, <2>4, <2>5 DEF AllPlain
  <1> QED
    BY <1>1, <1>2

\* delch keeps the cells before the gap and closes it.
LEMMA DelchPlain ==
    ASSUME TypeOK, NEW pos \in 0 .. term_buf_count, NEW k \in 0 .. pos, delch(k, pos),
           AllPlain(term_buf, term_buf_count)
    PROVE  /\ AllPlain(term_buf', term_buf_count')
           /\ \A i \in 0 .. pos - k - 1 : term_buf'[i] = term_buf[i]
           /\ \A i \in pos - k .. term_buf_count - k - 1 : term_buf'[i] = term_buf[i + k]
  <1>1. /\ term_buf_count \in Nat /\ TERM_BUF_SIZE \in Nat /\ pos \in Nat /\ k \in Nat
        /\ pos <= term_buf_count /\ k <= pos /\ term_buf_count <= TERM_BUF_SIZE
    BY LineFacts
  <1>2. /\ term_buf_count' = term_buf_count - k
        /\ \A i \in Cells : term_buf'[i] = IF i \in pos - k .. term_buf_count - k - 1
                                           THEN term_buf[i + k] ELSE term_buf[i]
    BY DEF delch
  <1>3. ASSUME NEW i \in 0 .. pos - k - 1 PROVE term_buf'[i] = term_buf[i]
    <2>1. i \in Cells /\ i \notin pos - k .. term_buf_count - k - 1
      BY <1>1 DEF Cells
    <2> QED
      BY <1>2, <2>1
  <1>4. ASSUME NEW i \in pos - k .. term_buf_count - k - 1 PROVE term_buf'[i] = term_buf[i + k]
    <2>1. i \in Cells
      BY <1>1 DEF Cells
    <2> QED
      BY <1>2, <2>1
  <1>5. ASSUME NEW i \in 0 .. (term_buf_count - k) - 1 PROVE term_buf'[i] \in Chars
    <2>1. i \in 0 .. term_buf_count - 1 /\ i + k \in 0 .. term_buf_count - 1
      BY <1>1
    <2>2. i \in 0 .. pos - k - 1 \/ i \in pos - k .. term_buf_count - k - 1
      BY <1>1
    <2> QED
      BY <1>3, <1>4, <2>1, <2>2 DEF AllPlain
  <1> QED
    BY <1>2, <1>3, <1>4, <1>5 DEF AllPlain

\* The cursor keys move the cursor within the line.
LEMMA CursorKeys ==
    ASSUME TypeOK,
           CharBack \/ CharForward \/ LineStart \/ LineEnd \/ WordBack \/ WordForward
    PROVE  \E pos \in 0 .. term_buf_count : CursorTo(pos)
  <1>1. /\ WordStart \in 0 .. term_buf_count /\ WordEnd \in 0 .. term_buf_count
        /\ 0 \in 0 .. term_buf_count /\ term_buf_count \in 0 .. term_buf_count
    BY LineFacts, WordStartBounds, WordEndBounds
  <1>2. CharBack => term_curpos - 1 \in 0 .. term_buf_count
    BY LineFacts DEF CharBack
  <1>3. CharForward => term_curpos + 1 \in 0 .. term_buf_count
    BY LineFacts DEF CharForward
  <1> QED
    BY <1>1, <1>2, <1>3
    DEF CharBack, CharForward, LineStart, LineEnd, WordBack, WordForward

\* The kill keys delete characters before the cursor.
LEMMA KillKeys ==
    ASSUME TypeOK, KillChar \/ KillWord \/ KillLine
    PROVE  \E k \in 0 .. term_curpos : KillBack(k) /\ term_curpos - term_curpos' = k
  <1>1. ASSUME NEW k \in 0 .. term_curpos, KillBack(k)
        PROVE  term_curpos - term_curpos' = k
    BY <1>1, LineFacts DEF KillBack, delch
  <1>2. term_curpos - WordStart \in 0 .. term_curpos /\ term_curpos \in 0 .. term_curpos
    BY LineFacts, WordStartBounds
  <1>3. KillChar => 1 \in 0 .. term_curpos
    BY LineFacts DEF KillChar
  <1>4. \E k \in 0 .. term_curpos : KillBack(k)
    BY <1>2, <1>3 DEF KillChar, KillWord, KillLine
  <1> QED
    BY <1>1, <1>4

\* Every step of the line discipline keeps the line plain.
LEMMA PlainStep ==
    ASSUME TypeOK, AllPlain(term_buf, term_buf_count), [Next]_vars
    PROVE  AllPlain(term_buf', term_buf_count')
  <1>0. term_curpos \in 0 .. term_buf_count /\ term_buf_count \in 0 .. term_buf_count
    BY LineFacts
  <1>1. CASE Typed \/ CanonKey
    BY <1>0, <1>1, AddchPlain DEF Typed, CanonKey
  <1>2. CASE CharBack \/ CharForward \/ LineStart \/ LineEnd \/ WordBack \/ WordForward
    BY <1>2, CursorKeys DEF CursorTo
  <1>3. CASE KillChar \/ KillWord \/ KillLine
    <2>1. PICK k \in 0 .. term_curpos : KillBack(k)
      BY <1>3, KillKeys
    <2> QED
      BY <1>0, <2>1, DelchPlain DEF KillBack
  <1>4. CASE term_read_canon
    <2>1. 1 \in 0 .. term_buf_count /\ 1 \in 0 .. 1 /\ delch(1, 1)
      BY <1>4, LineFacts DEF term_read_canon
    <2> QED
      BY <2>1, DelchPlain
  <1>5. CASE term_read_line
    <2>1. term_buf_count' = 0
      BY <1>5 DEF term_read_line
    <2> QED
      BY <2>1 DEF AllPlain
  <1>6. CASE UNCHANGED <<term_buf, term_buf_count>>
    BY <1>6
  <1> QED
    BY <1>1, <1>2, <1>3, <1>4, <1>5, <1>6
    DEF Next, Key, vars, Return, set_canon, term_read, lineVars

\* The empty line is shown wherever the cursor is.
LEMMA EmptyShown == ASSUME NEW s \in Screens, NEW b PROVE Shows(s, b, 0, 0)
  <1>1. At(s) \in Nat /\ At(s) <= Size - 1 /\ Size \in Nat
    BY AtCell
  <1> QED
    BY <1>1 DEF Shows

\* What a line with the history flag set has gone through.
LEMMA Kept ==
    ASSUME NEW ok, KeepHistory(ok), echoed', term_buf_count' # 0
    PROVE  echoed /\ ok /\ ~term_noecho /\ ~term_canon
  BY Zenon DEF KeepHistory

\* Typed characters.
LEMMA AddKeyStep ==
    ASSUME ConsoleInv, TypeOK', AllPlain(term_buf', term_buf_count'), AddKey
    PROVE  scr' \in Screens /\ (echoed' => Shows(scr', term_buf', term_curpos', term_buf_count'))
  <1>0. TypeOK /\ scr \in Screens /\ AllPlain(term_buf, term_buf_count)
    BY DEF ConsoleInv
  <1>1. PICK ch \in Chars, pos \in 0 .. term_buf_count :
            addch(ch, pos) /\ (~term_canon => pos = term_curpos)
    <2>1. term_curpos \in 0 .. term_buf_count /\ term_buf_count \in 0 .. term_buf_count
      BY <1>0, LineFacts
    <2> QED
      BY <2>1 DEF AddKey, Typed, CanonKey
  <1>2. /\ term_buf \in Buffers /\ term_buf' \in Buffers /\ term_curpos \in Nat
        /\ term_buf_count \in Nat /\ pos \in Nat /\ pos <= term_buf_count
        /\ term_curpos' \in 0 .. term_buf_count' /\ TERM_BUF_SIZE \in Nat
    BY <1>0, LineFacts DEF TypeOK, Buffers, Symbols
  <1>3. KeepHistory(TRUE) /\ scr' = EchoAdd
    BY DEF AddKey
  <1>4. CASE ~(term_buf_count < TERM_BUF_SIZE /\ reading)
    <2>1. UNCHANGED <<term_buf, term_buf_count>> /\ term_curpos' = pos
      BY <1>1, <1>4 DEF addch
    <2>2. scr' = scr
      BY <1>3, <2>1 DEF EchoAdd
    <2>3. CASE term_buf_count' = 0
      <3>1. term_curpos' = 0
        BY <1>2, <2>3
      <3> QED
        BY <1>0, <2>2, <2>3, <3>1, EmptyShown
    <2>4. CASE term_buf_count' # 0
      <3>1. echoed' => echoed /\ ~term_canon
        BY <1>3, <2>4, Kept
      <3> QED
        BY <1>0, <1>1, <2>1, <2>2, <3>1 DEF ConsoleInv
    <2> QED
      BY <2>3, <2>4
  <1>5. CASE term_buf_count < TERM_BUF_SIZE /\ reading
    <2>1. /\ term_curpos' = pos + 1 /\ term_buf_count' = term_buf_count + 1
          /\ \A i \in 0 .. pos - 1 : term_buf'[i] = term_buf[i]
      BY <1>0, <1>1, <1>5, AddchPlain DEF addch
    <2>2. /\ term_buf_count' # term_buf_count /\ term_buf_count' # 0
          /\ term_buf_count' - term_curpos' = term_buf_count - pos /\ term_curpos' - 1 = pos
          /\ term_buf_count - pos \in Nat
      BY <1>2, <2>1
    <2>3. CASE term_noecho
      <3>1. scr' = scr
        BY <1>3, <2>3 DEF EchoAdd
      <3>2. ~echoed'
        BY <1>3, <2>2, <2>3, Kept
      <3> QED
        BY <1>0, <3>1, <3>2
    <2>4. CASE ~term_noecho
      <3>1. scr' = Times(term_buf_count - pos, back, puts(Text(term_buf', pos, term_buf_count + 1), scr))
        BY <1>3, <2>1, <2>2, <2>4 DEF EchoAdd, Reprint
      <3>2. PICK m \in Cuts : m = term_buf_count + 1
        BY <1>2, <1>5 DEF Cuts
      <3>3. pos \in Cuts /\ pos <= m /\ AllPlain(term_buf', m)
        BY <1>2, <1>5, <2>1, <3>2 DEF Cuts
      <3>4. Text(term_buf', pos, m) \in Seq(Plain)
        BY <1>2, <3>3, TextPlain
      <3>5. puts(Text(term_buf', pos, m), scr) \in Screens
        BY <1>0, <3>4, PutsPlain
      <3>6. scr' \in Screens
        BY <2>2, <3>1, <3>2, <3>5, BackTimes
      <3>7. ASSUME echoed'
            PROVE  Shows(scr', term_buf', pos + 1, term_buf_count + 1)
        <4>1. echoed /\ ~term_canon
          BY <1>3, <2>2, <3>7, Kept
        <4>2. Shows(scr, term_buf, pos, term_buf_count)
          BY <1>1, <4>1 DEF ConsoleInv
        <4>3. term_buf_count \in 0 .. TERM_BUF_SIZE - 1 /\ AllPlain(term_buf', term_buf_count + 1)
          BY <1>2, <1>5, <2>1
        <4> QED
          BY <1>0, <1>2, <2>1, <3>1, <4>2, <4>3, AddShown
      <3> QED
        BY <2>1, <3>6, <3>7
    <2> QED
      BY <2>3, <2>4
  <1> QED
    BY <1>4, <1>5

\* The cursor keys.
LEMMA MoveKeyStep ==
    ASSUME ConsoleInv, TypeOK', MoveKey
    PROVE  /\ scr' \in Screens /\ scr'.mem = scr.mem
           /\ echoed' => Shows(scr', term_buf', term_curpos', term_buf_count')
  <1>0. TypeOK /\ scr \in Screens
    BY DEF ConsoleInv
  <1>1. PICK pos \in 0 .. term_buf_count : CursorTo(pos)
    BY <1>0, CursorKeys DEF MoveKey
  <1>2. term_curpos' = pos /\ UNCHANGED <<term_buf, term_buf_count>>
    BY <1>1 DEF CursorTo
  <1>3. term_buf_count \in Nat /\ term_curpos \in 0 .. term_buf_count /\ pos \in Nat /\ term_curpos \in Nat
    BY <1>0, LineFacts
  <1>4. KeepHistory(TRUE) /\ scr' = EchoMove
    BY DEF MoveKey
  <1>5. /\ pos >= term_curpos => scr' = Times(pos - term_curpos, forward, scr)
        /\ ~(pos >= term_curpos) => scr' = Times(term_curpos - pos, back, scr)
    BY <1>2, <1>4 DEF EchoMove
  <1>6. scr' \in Screens /\ scr'.mem = scr.mem
    <2>1. CASE pos >= term_curpos
      <3>1. pos - term_curpos \in Nat
        BY <1>3, <2>1
      <3> QED
        BY <1>0, <1>5, <2>1, <3>1, ForwardTimes
    <2>2. CASE ~(pos >= term_curpos)
      <3>1. term_curpos - pos \in Nat
        BY <1>3, <2>2
      <3> QED
        BY <1>0, <1>5, <2>2, <3>1, BackTimes
    <2> QED
      BY <2>1, <2>2
  <1>7. ASSUME echoed' PROVE Shows(scr', term_buf', term_curpos', term_buf_count')
    <2>1. CASE term_buf_count' = 0
      <3>1. term_curpos' = 0
        BY <1>2, <2>1
      <3> QED
        BY <1>6, <2>1, <3>1, EmptyShown
    <2>2. CASE term_buf_count' # 0
      <3>1. Shows(scr, term_buf, term_curpos, term_buf_count)
        BY <1>4, <1>7, <2>2, Kept DEF ConsoleInv
      <3>2. Shows(scr', term_buf, pos, term_buf_count)
        BY <1>0, <1>3, <1>5, <3>1, MoveShown
      <3> QED
        BY <1>2, <3>2
    <2> QED
      BY <2>1, <2>2
  <1> QED
    BY <1>6, <1>7

\* The kill keys.
LEMMA DelKeyStep ==
    ASSUME ConsoleInv, TypeOK', DelKey
    PROVE  scr' \in Screens /\ (echoed' => Shows(scr', term_buf', term_curpos', term_buf_count'))
  <1>0. TypeOK /\ scr \in Screens /\ AllPlain(term_buf, term_buf_count)
    BY DEF ConsoleInv
  <1>1. PICK k \in 0 .. term_curpos : KillBack(k) /\ term_curpos - term_curpos' = k
    BY <1>0, KillKeys DEF DelKey
  <1>2. /\ term_buf \in Buffers /\ term_curpos \in Cuts /\ term_buf_count \in Cuts
        /\ term_curpos <= term_buf_count /\ term_curpos \in 0 .. term_buf_count
        /\ term_buf_count \in 0 .. TERM_BUF_SIZE /\ k \in Nat /\ term_curpos \in Nat /\ term_buf_count \in Nat
    BY <1>0, LineFacts
  <1>3. PICK rest : rest = Append(Text(term_buf, term_curpos, term_buf_count), Blank)
    OBVIOUS
  <1>4. KeepHistory(TRUE) /\ scr' = EraseTimes(k, rest, scr)
    BY <1>1, <1>3 DEF DelKey, EchoDel
  <1>5. rest \in Seq(Marks)
    <2>1. Text(term_buf, term_curpos, term_buf_count) \in Seq(Plain)
      BY <1>0, <1>2, TextPlain
    <2> QED
      BY <1>3, <2>1 DEF Plain, Marks
  <1>6. scr' \in Screens
    BY <1>0, <1>2, <1>4, <1>5, EraseTimesAny
  <1>7. ASSUME echoed' PROVE Shows(scr', term_buf', term_curpos', term_buf_count')
    <2>0. term_curpos' = term_curpos - k /\ term_buf_count' = term_buf_count - k /\ delch(k, term_curpos)
      BY <1>1 DEF KillBack, delch
    <2>1. CASE term_buf_count' = 0
      <3>1. term_curpos' = 0
        BY <1>2, <2>0, <2>1
      <3> QED
        BY <1>6, <2>1, <3>1, EmptyShown
    <2>2. CASE term_buf_count' # 0
      <3>1. Shows(scr, term_buf, term_curpos, term_buf_count)
        BY <1>4, <1>7, <2>2, Kept DEF ConsoleInv
      <3>2. /\ \A i \in 0 .. term_curpos - k - 1 : term_buf'[i] = term_buf[i]
            /\ \A i \in term_curpos - k .. term_buf_count - k - 1 : term_buf'[i] = term_buf[i + k]
        BY <1>0, <1>2, <2>0, DelchPlain
      <3>3. Shows(scr', term_buf', term_curpos - k, term_buf_count - k)
        BY <1>0, <1>2, <1>3, <1>4, <3>1, <3>2, DelShown
      <3> QED
        BY <2>0, <3>3
    <2> QED
      BY <2>1, <2>2
  <1> QED
    BY <1>6, <1>7

\* C-l.
LEMMA ClearKeyStep ==
    ASSUME ConsoleInv, ClearKey
    PROVE  scr' \in Screens /\ (echoed' => Shows(scr', term_buf', term_curpos', term_buf_count'))
  <1>0. TypeOK /\ scr \in Screens
    BY DEF ConsoleInv
  <1>1. /\ term_curpos \in Nat /\ term_curpos \in 0 .. term_buf_count
        /\ term_buf_count \in 0 .. TERM_BUF_SIZE
    BY <1>0, LineFacts
  <1>2. PICK start \in Screens : start = Times(term_curpos, back, scr)
    BY <1>0, <1>1, BackTimes
  <1>3. scr' = Times(term_curpos, forward, Times(start.y, scroll, start))
    BY <1>2 DEF ClearKey
  <1>4. scr' \in Screens
    <2>1. start.y \in 0 .. start.y
      BY AtCell, ScreenSizes DEF Rows
    <2>2. Times(start.y, scroll, start) \in Screens
      BY <2>1, ScrollTimes
    <2> QED
      BY <1>1, <1>3, <2>2, ForwardTimes
  <1>5. /\ echoed' = echoed /\ term_buf' = term_buf
        /\ term_curpos' = term_curpos /\ term_buf_count' = term_buf_count
    BY DEF ClearKey, vars
  <1>6. echoed => Shows(scr', term_buf, term_curpos, term_buf_count)
    BY <1>0, <1>1, <1>2, <1>3, ClearShown DEF ConsoleInv
  <1> QED
    BY <1>4, <1>5, <1>6

\* Every step of the console is one of the line discipline or leaves it alone.
LEMMA ConsoleIsTerm == ConsoleNext => [Next]_vars
  BY DEF ConsoleNext, AddKey, MoveKey, DelKey, ReturnKey, ClearKey, InterruptKey, Output,
         set_noecho, set_canon_mode, BeginRead, EndReadCanon, EndReadLine, Next, Key

\* The console of a terminal that was just initialised.
LEMMA ConsoleStarts == ConsoleInit => ConsoleInv
  <1> SUFFICES ASSUME ConsoleInit PROVE ConsoleInv
    OBVIOUS
  <1>1. TypeOK /\ term_buf_count = 0 /\ term_curpos = 0
    BY TypeInit DEF ConsoleInit, Init
  <1>2. PICK m \in Memory : m = [i \in VidCells |-> <<Blank, DEF_ATTR>>]
    <2>1. <<Blank, DEF_ATTR>> \in Glyphs
      BY ScreenSizes DEF Glyphs, Marks
    <2> QED
      BY <2>1 DEF Memory
  <1>3. <<0, 0>> \in Spots /\ TRUE \in Flags
    BY DEF Spots, Flags
  <1>4. scr = [mem |-> m, x |-> 0, y |-> 0, attr |-> DEF_ATTR, displayed |-> TRUE, hw |-> <<0, 0>>]
    BY <1>2 DEF ConsoleInit
  <1>5. scr \in Screens
    BY <1>3, <1>4, ScreenSizes DEF Screens, ScreensAt
  <1>6. AllPlain(term_buf, 0)
    BY DEF AllPlain
  <1> QED
    BY <1>1, <1>5, <1>6, EmptyShown DEF ConsoleInv

\* Every key, every output of the process and every read keeps the invariant.
LEMMA ConsoleStep ==
    ASSUME ConsoleInv, [ConsoleNext]_consoleVars
    PROVE  ConsoleInv'
  <1>0. TypeOK /\ scr \in Screens /\ AllPlain(term_buf, term_buf_count)
    BY DEF ConsoleInv
  <1>1. [Next]_vars
    BY ConsoleIsTerm DEF consoleVars
  <1>2. TypeOK' /\ AllPlain(term_buf', term_buf_count')
    BY <1>0, <1>1, TypeStep, PlainStep
  <1>3. ASSUME scr' \in Screens,
               echoed' => Shows(scr', term_buf', term_curpos', term_buf_count')
        PROVE  ConsoleInv'
    BY <1>2, <1>3 DEF ConsoleInv
  <1>4. ASSUME scr' \in Screens, term_buf_count' = 0
        PROVE  Shows(scr', term_buf', term_curpos', term_buf_count')
    <2>1. term_curpos' = 0
      BY <1>2, <1>4 DEF TypeOK
    <2> QED
      BY <1>4, <2>1, EmptyShown
  <1>5. CASE AddKey
    BY <1>2, <1>3, <1>5, AddKeyStep
  <1>6. CASE MoveKey
    BY <1>2, <1>3, <1>6, MoveKeyStep
  <1>7. CASE DelKey
    BY <1>2, <1>3, <1>7, DelKeyStep
  <1>8. CASE ClearKey
    BY <1>3, <1>8, ClearKeyStep
  <1>9. CASE InterruptKey \/ Output
    <2>1. KeepHistory(FALSE)
      BY <1>9 DEF InterruptKey, Output
    <2>2. scr' \in Screens
      <3>1. CASE InterruptKey
        <4>1. <<Caret, LetterC>> \in Seq(Marks)
          BY ConsoleAssumption DEF Marks, Chars
        <4> QED
          BY <1>0, <3>1, <4>1, PutsAny DEF InterruptKey
      <3>2. CASE Output
        <4>1. PICK c \in Marks \cup {CR, BS} : scr' = putc(c, scr)
          BY <3>2 DEF Output, Marks
        <4> QED
          BY <1>0, <4>1, PutcAny
      <3> QED
        BY <1>9, <3>1, <3>2
    <2>3. echoed' => term_buf_count' = 0
      BY <2>1, Kept
    <2> QED
      BY <1>3, <1>4, <2>2, <2>3
  <1>10. CASE EndReadCanon \/ EndReadLine
    <2>1. KeepHistory(TRUE)
      BY <1>10 DEF EndReadCanon, EndReadLine
    <2>2. scr' \in Screens
      <3>1. putc(NL, scr) \in Screens
        BY <1>0, PutcAny DEF Marks
      <3> QED
        BY <1>0, <1>10, <3>1 DEF EndReadCanon, EndReadLine
    <2>3. echoed' => term_buf_count' = 0
      <3>1. CASE EndReadCanon
        BY <2>1, <3>1, Kept DEF EndReadCanon, term_read_canon
      <3>2. CASE EndReadLine
        BY <3>2 DEF EndReadLine, term_read_line
      <3> QED
        BY <1>10, <3>1, <3>2
    <2> QED
      BY <1>3, <1>4, <2>2, <2>3
  <1>11. CASE UNCHANGED <<term_buf, term_buf_count, term_curpos, scr, echoed>>
    BY <1>0, <1>3, <1>11 DEF ConsoleInv
  <1> QED
    BY <1>5, <1>6, <1>7, <1>8, <1>9, <1>10, <1>11
    DEF ConsoleNext, consoleVars, vars, ReturnKey, Return, set_noecho, set_canon_mode,
        set_canon, BeginRead, term_read, lineVars

\* The invariant holds in every reachable state of the console.
LEMMA ConsoleAlways == ConsoleSpec => []ConsoleInv
  <1>1. ConsoleInit => ConsoleInv
    BY ConsoleStarts
  <1>2. ConsoleInv /\ [ConsoleNext]_consoleVars => ConsoleInv'
    BY ConsoleStep
  <1> QED
    BY <1>1, <1>2, PTL DEF ConsoleSpec

\* An echoed line stands on the screen around the cursor, for every size of
\* screen on which a full line leaves a row, every buffer size and alphabet and
\* every sequence of keys, outputs and reads (addch, delch, back, forward,
\* scroll, C-l).
THEOREM LineIsOnScreen == ConsoleSpec => []LineOnScreen
  <1>1. ConsoleInv => LineOnScreen
    <2> SUFFICES ASSUME ConsoleInv, echoed, NEW i \in 0 .. term_buf_count - 1,
                        NEW cell, cell = scr.x + NUM_COLS * scr.y - term_curpos + i
                 PROVE  cell \in VidCells /\ scr.mem[cell][1] = term_buf[i]
      BY DEF LineOnScreen
    <2>1. Shows(scr, term_buf, term_curpos, term_buf_count) /\ TypeOK /\ scr \in Screens
      BY DEF ConsoleInv
    <2>2. At(scr) \in Nat /\ Size \in Nat
      BY <2>1, AtCell
    <2>3. term_curpos \in Nat /\ term_buf_count \in Nat
      BY <2>1, LineFacts
    <2>4. cell = At(scr) - term_curpos + i
      <3>1. scr.x \in Int /\ scr.y \in Rows /\ At(scr) = scr.x + NUM_COLS * scr.y
        BY <2>1, AtCell
      <3>2. PICK r \in Nat : r = NUM_COLS * scr.y
        BY <3>1, RowArith
      <3>3. cell = scr.x + r - term_curpos + i /\ At(scr) = scr.x + r
        BY <3>1, <3>2, Zenon
      <3>4. i \in Int
        BY <2>3
      <3> QED
        BY <2>3, <3>1, <3>3, <3>4
    <2>5. cell \in VidCells
      BY <2>1, <2>2, <2>3, <2>4, ScreenSizes DEF Shows
    <2> QED
      BY <2>1, <2>2, <2>5, <2>4 DEF Shows
  <1> QED
    BY <1>1, ConsoleAlways, PTL

\* With echo off, no key typed at the end of the line shows a character of it:
\* addch prints nothing, the cursor keys store nothing and delch, which does not
\* test term_noecho, prints blanks only and never scrolls.
THEOREM NoEchoShowsNothing == ConsoleSpec => NoEchoHides
  <1>1. ConsoleInv /\ [ConsoleNext]_consoleVars =>
          [term_noecho /\ term_curpos = term_buf_count /\ (AddKey \/ MoveKey \/ DelKey)
           => \A i \in VidCells : scr'.mem[i] # scr.mem[i] => scr'.mem[i][1] = Blank]_consoleVars
    <2> SUFFICES ASSUME ConsoleInv, ConsoleNext, term_noecho, term_curpos = term_buf_count,
                        AddKey \/ MoveKey \/ DelKey
                 PROVE  Blanked(scr, scr')
      BY DEF Blanked
    <2>0. TypeOK /\ scr \in Screens
      BY DEF ConsoleInv
    <2>1. CASE AddKey
      <3>1. scr' = scr
        BY <2>1 DEF AddKey, EchoAdd
      <3> QED
        BY <3>1 DEF Blanked
    <2>2. CASE MoveKey
      <3>1. TypeOK'
        BY <2>0, ConsoleIsTerm, TypeStep
      <3>2. scr'.mem = scr.mem
        BY <2>2, <3>1, MoveKeyStep
      <3> QED
        BY <3>2 DEF Blanked
    <2>3. CASE DelKey
      <3>1. PICK k \in 0 .. term_curpos : term_curpos - term_curpos' = k
        BY <2>0, <2>3, KillKeys DEF DelKey
      <3>2. /\ term_buf \in Buffers /\ term_curpos \in Cuts /\ term_buf_count \in Cuts
            /\ term_curpos \in Nat /\ k \in Nat
        BY <2>0, LineFacts
      <3>3. Text(term_buf, term_curpos, term_buf_count) = <<>>
        BY <3>2, TextEmpty
      <3>4. Append(Text(term_buf, term_curpos, term_buf_count), Blank) = <<Blank>>
        BY <3>3
      <3>5. scr' = EraseTimes(k, <<Blank>>, scr)
        BY <2>3, <3>1, <3>4 DEF DelKey, EchoDel
      <3> QED
        BY <2>0, <3>2, <3>5, EraseBlanks
    <2> QED
      BY <2>1, <2>2, <2>3
  <1> QED
    BY <1>1, ConsoleAlways, PTL DEF ConsoleSpec, NoEchoHides

=============================================================================
