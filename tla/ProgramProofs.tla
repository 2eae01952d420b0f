---------------------------- MODULE ProgramProofs ----------------------------
(***************************************************************************)
(* Proofs about the user programs and the files they read.  FileTools: for *)
(* every image, size of a block, of a name and of the descriptor table, and *)
(* every sequence of open, read and close.  Game2048: for every board of up *)
(* to 4 by 4, every goal, every random tile and every sequence of keys.    *)
(***************************************************************************)
EXTENDS FileTools, Game2048, SequenceTheorems, Induction

(***************************************************************************)
(* read_data.                                                              *)
(***************************************************************************)
LEMMA DivModStep ==
    ASSUME NEW a \in Nat, NEW b \in Nat \ {0}
    PROVE  /\ a \div b \in Nat /\ a % b \in 0 .. b - 1
           /\ (a + 1) % b = 0 => (a + 1) \div b = (a \div b) + 1
           /\ (a + 1) % b # 0 => /\ (a + 1) \div b = a \div b
                                 /\ (a + 1) % b = (a % b) + 1
  OBVIOUS

\* Quotient and remainder.
LEMMA ModParts ==
    ASSUME NEW x \in Nat, NEW b \in Nat \ {0}
    PROVE  x \div b \in Nat /\ x % b \in 0 .. b - 1 /\ x = (x \div b) * b + (x % b)
  OBVIOUS

\* The remainder is the only one.
LEMMA ModUnique ==
    ASSUME NEW b \in Nat \ {0}, NEW q \in Nat, NEW r \in 0 .. b - 1, NEW x \in Nat, x = q * b + r
    PROVE  x % b = r
  OBVIOUS

\* Adding before or after a remainder.
LEMMA ModShift ==
    ASSUME NEW a \in Nat, NEW b \in Nat \ {0}, NEW i \in Nat
    PROVE  (i + (a % b)) % b = (a + i) % b
  <1>1. PICK q \in Nat, r \in 0 .. b - 1 : a = q * b + r /\ a % b = r
    BY ModParts
  <1>2. PICK p \in Nat, s \in 0 .. b - 1 : i + r = p * b + s /\ (i + r) % b = s
    <2>1. i + r \in Nat
      BY <1>1
    <2> QED
      BY <2>1, ModParts
  <1>3. a + i = (q + p) * b + s
    <2>1. a + i = q * b + p * b + s
      BY <1>1, <1>2
    <2> QED
      BY <2>1
  <1>4. (a + i) % b = s
    <2>1. PICK t \in Nat, x \in Nat : t = q + p /\ x = a + i
      OBVIOUS
    <2>2. x = t * b + s
      BY <1>3, <2>1
    <2>3. x % b = s
      BY <2>2, ModUnique
    <2> QED
      BY <2>1, <2>3
  <1> QED
    BY <1>1, <1>2, <1>4

\* The place of a byte of a file.
Place(k) == <<k \div BLOCK_SIZE, k % BLOCK_SIZE>>

\* Switching blocks on the way, the loop of read_data comes to the place of
\* every byte from the offset on.
LEMMA PlacesOfBytes ==
    ASSUME NEW offset \in Nat, NEW len \in Nat
    PROVE  \A i \in 0 .. len - 1 : Places(offset, len, FALSE)[i] = Place(offset + i)
  <1> DEFINE A == Places(offset, len, FALSE)
             start == <<offset \div BLOCK_SIZE, offset % BLOCK_SIZE>>
             Rhs(f) == [i \in 0 .. len - 1 |->
                          LET next == IF i = 0 THEN start ELSE <<f[i - 1][1], f[i - 1][2] + 1>>
                          IN  IF NewBlock(i + (offset % BLOCK_SIZE), FALSE)
                              THEN <<next[1] + 1, 0>> ELSE next]
             P == [i \in 0 .. len - 1 |-> Place(offset + i)]
  <1>1. BLOCK_SIZE \in Nat \ {0}
    BY FileSysAssumption
  <1>2. ASSUME NEW f, NEW i \in 0 .. len - 1,
               i # 0 => f[i - 1] = Place(offset + (i - 1))
        PROVE  Rhs(f)[i] = Place(offset + i)
    <2>1. CASE i = 0
      <3>1. ~NewBlock(i + (offset % BLOCK_SIZE), FALSE)
        BY <1>1, <2>1 DEF NewBlock
      <3> QED
        BY <2>1, <3>1 DEF Place
    <2>2. CASE i # 0
      <3>1. PICK k \in Nat : k = offset + (i - 1)
        BY <2>2
      <3>2. offset + i = k + 1 /\ (i + (offset % BLOCK_SIZE)) % BLOCK_SIZE = (k + 1) % BLOCK_SIZE
        <4>1. offset + i = k + 1
          BY <3>1
        <4>2. i \in Nat
          OBVIOUS
        <4>3. (i + (offset % BLOCK_SIZE)) % BLOCK_SIZE = (offset + i) % BLOCK_SIZE
          BY <1>1, <4>2, ModShift
        <4> QED
          BY <4>1, <4>3
      <3>3. NewBlock(i + (offset % BLOCK_SIZE), FALSE) <=> (k + 1) % BLOCK_SIZE = 0
        BY <1>1, <2>2, <3>2 DEF NewBlock
      <3>4. f[i - 1][1] = k \div BLOCK_SIZE /\ f[i - 1][2] = k % BLOCK_SIZE
        BY <1>2, <2>2, <3>1 DEF Place
      <3>5. /\ (k + 1) % BLOCK_SIZE = 0 => (k + 1) \div BLOCK_SIZE = (k \div BLOCK_SIZE) + 1
            /\ (k + 1) % BLOCK_SIZE # 0 => /\ (k + 1) \div BLOCK_SIZE = k \div BLOCK_SIZE
                                           /\ (k + 1) % BLOCK_SIZE = (k % BLOCK_SIZE) + 1
        BY <1>1, DivModStep
      <3>6. Rhs(f)[i] = IF (k + 1) % BLOCK_SIZE = 0 THEN <<(k \div BLOCK_SIZE) + 1, 0>>
                        ELSE <<k \div BLOCK_SIZE, (k % BLOCK_SIZE) + 1>>
        BY <2>2, <3>3, <3>4
      <3> QED
        BY <3>2, <3>5, <3>6 DEF Place
    <2> QED
      BY <2>1, <2>2
  <1>3. \A i \in 0 .. len - 1 : Rhs(P)[i] = Place(offset + i)
    <2> SUFFICES ASSUME NEW i \in 0 .. len - 1 PROVE Rhs(P)[i] = Place(offset + i)
      OBVIOUS
    <2>1. i # 0 => P[i - 1] = Place(offset + (i - 1))
      OBVIOUS
    <2> HIDE DEF P, Rhs
    <2> QED
      BY <1>2, <2>1
  <1>4. P = Rhs(P)
    BY <1>3
  <1>5. A = Rhs(A)
    BY <1>4 DEF Places
  <1> HIDE DEF A
  <1> DEFINE T == {i \in Nat : i < len => A[i] = Place(offset + i)}
  <1>6. ASSUME NEW i \in 0 .. len - 1, i # 0 => A[i - 1] = Place(offset + (i - 1))
        PROVE  A[i] = Place(offset + i)
    <2> HIDE DEF Rhs
    <2> QED
      BY <1>2, <1>5, <1>6
  <1>7. 0 \in T
    BY <1>6
  <1>8. ASSUME NEW n \in 0 .. len - 1, n \in T PROVE n + 1 \in T
    <2>1. CASE n + 1 < len
      <3>1. n + 1 \in 0 .. len - 1 /\ (n + 1) - 1 = n /\ A[n] = Place(offset + n)
        BY <1>8, <2>1
      <3>2. A[n + 1] = Place(offset + (n + 1))
        BY <1>6, <3>1
      <3> QED
        BY <3>2
    <2>2. CASE ~(n + 1 < len)
      BY <2>2
    <2> QED
      BY <2>1, <2>2
  <1>9. 0 .. len \subseteq T
    <2> HIDE DEF T
    <2> QED
      BY <1>7, <1>8, UpTo
  <1>10. \A i \in 0 .. len - 1 : A[i] = Place(offset + i)
    BY <1>9
  <1> QED
    BY <1>10, Zenon DEF A
\* The length is cut at the end of the file, also when the sum wraps, and a
\* positive length is cut to nothing only there.
LEMMA ActualLenFacts ==
    ASSUME NEW size \in 0 .. WORD \div 2 - 1, NEW offset \in 0 .. size - 1,
           NEW length \in 0 .. WORD - 1
    PROVE  /\ ActualLen(size, offset, length) \in 0 .. size - offset
           /\ length \in 1 .. WORD \div 2 - 1 => ActualLen(size, offset, length) # 0
  <1>1. PICK half \in Nat : half = WORD \div 2 /\ 2 * half <= WORD
    BY ImageAssumption
  <1>2. WORD \in Nat \ {0} /\ size \in Nat /\ size < half /\ offset < size /\ length + offset \in Nat
    BY <1>1, ImageAssumption
  <1>3. ASSUME length < half PROVE (length + offset) % WORD = length + offset
    BY <1>1, <1>2, <1>3
  <1>4. CASE length < half
    BY <1>1, <1>2, <1>3, <1>4 DEF ActualLen
  <1>5. CASE length >= half
    BY <1>1, <1>2, <1>5 DEF ActualLen
  <1> QED
    BY <1>1, <1>4, <1>5

\* The content of a file, byte by byte.
LEMMA ContentIs ==
    ASSUME NEW inode, inode.file_size \in Nat
    PROVE  /\ Content(inode) \in Seq(Range(Content(inode)))
           /\ Len(Content(inode)) = inode.file_size
           /\ \A k \in 1 .. inode.file_size : Content(inode)[k] = ByteAt(inode, Place(k - 1))
  <1> DEFINE C == Content(inode)
  <1>1. DOMAIN C = 1 .. inode.file_size
        /\ \A k \in 1 .. inode.file_size : C[k] = ByteAt(inode, Place(k - 1))
    BY DEF Content, Place
  <1>2. C = [k \in 1 .. inode.file_size |-> C[k]]
    BY DEF Content
  <1> HIDE DEF C
  <1>3. \A k \in 1 .. inode.file_size : C[k] \in Range(C)
    BY <1>1 DEF Range
  <1>4. C \in [1 .. inode.file_size -> Range(C)]
    BY <1>2, <1>3
  <1>5. C \in Seq(Range(C)) /\ Len(C) = inode.file_size
    BY <1>1, <1>4
  <1> QED
    BY <1>1, <1>5 DEF C

\* The part of a sequence behind its first n elements, m long.
Part(s, n, m) == [i \in 1 .. m |-> s[n + i]]

\* read_data returns the part of the file at the offset, and less than was
\* asked for only at the end.
LEMMA ReadDataFacts ==
    ASSUME image \in Images, NEW num \in Nat, num < Len(image.inodes),
           NEW offset \in 0 .. Inode(num).file_size, NEW length \in 0 .. WORD - 1
    PROVE  \E len \in 0 .. Inode(num).file_size - offset :
              /\ read_data(num, offset, length) = Part(Content(Inode(num)), offset, len)
              /\ length \in 1 .. WORD \div 2 - 1 /\ len = 0 => offset = Inode(num).file_size
  <1>1. PICK inode : inode = Inode(num)
    OBVIOUS
  <1>2. PICK size \in 0 .. WORD \div 2 - 1 : size = inode.file_size
    <2>1. image.inodes \in Seq(Range(image.inodes))
          /\ \A n \in Range(image.inodes) : n.file_size \in 0 .. WORD \div 2 - 1
      BY ImageAssumption DEF IsSequence
    <2>2. num + 1 \in 1 .. Len(image.inodes)
      BY <2>1
    <2>3. image.inodes[num + 1] \in Range(image.inodes)
      BY <2>1, <2>2
    <2> QED
      BY <1>1, <2>1, <2>3 DEF Inode
  <1>3. size \in Nat /\ offset \in 0 .. size /\ Len(image.inodes) \in Nat
        /\ ~(num > Len(image.inodes))
    <2>1. Len(image.inodes) \in Nat
      BY ImageAssumption DEF IsSequence
    <2> QED
      BY <1>1, <1>2, <2>1, ImageAssumption
  <1>4. CASE offset >= size
    <2>1. read_data(num, offset, length) = <<>>
      BY <1>1, <1>2, <1>4 DEF read_data, ReadFrom
    <2>2. Part(Content(inode), offset, 0) = <<>>
      BY DEF Part
    <2>3. 0 \in 0 .. size - offset /\ offset = size
      BY <1>3, <1>4
    <2> QED
      BY <1>1, <1>2, <2>1, <2>2, <2>3
  <1>5. CASE offset < size
    <2>1. PICK len \in 0 .. size - offset : len = ActualLen(size, offset, length)
                /\ (length \in 1 .. WORD \div 2 - 1 => len # 0)
      <3>1. offset \in 0 .. size - 1
        BY <1>3, <1>5
      <3> QED
        BY <3>1, ActualLenFacts
    <2>2. read_data(num, offset, length) = Bytes(inode, offset, len, FALSE)
      <3>1. ~(offset >= inode.file_size)
        BY <1>2, <1>3, <1>5
      <3> QED
        BY <1>1, <1>2, <1>3, <2>1, <3>1 DEF read_data, ReadFrom
    <2>3. \A i \in 0 .. len - 1 : Places(offset, len, FALSE)[i] = Place(offset + i)
      <3>1. offset \in Nat /\ len \in Nat
        BY <1>3, <2>1
      <3> QED
        BY <3>1, PlacesOfBytes, Zenon
    <2>4. Bytes(inode, offset, len, FALSE) = [i \in 1 .. len |-> ByteAt(inode, Places(offset, len, FALSE)[i - 1])]
      BY DEF Bytes
    <2>5. ASSUME NEW i \in 1 .. len
          PROVE  ByteAt(inode, Places(offset, len, FALSE)[i - 1]) = Content(inode)[offset + i]
      <3>1. i - 1 \in 0 .. len - 1 /\ offset + i \in 1 .. size /\ offset + (i - 1) = (offset + i) - 1
        BY <1>3, <2>1
      <3>2. Places(offset, len, FALSE)[i - 1] = Place((offset + i) - 1)
        BY <2>3, <3>1
      <3>3. Content(inode)[offset + i] = ByteAt(inode, Place((offset + i) - 1))
        BY <1>2, <1>3, <3>1, ContentIs
      <3> QED
        BY <3>2, <3>3
    <2>6. Bytes(inode, offset, len, FALSE) = Part(Content(inode), offset, len)
      BY <2>4, <2>5 DEF Part
    <2> QED
      BY <1>1, <1>2, <2>1, <2>2, <2>6
  <1> QED
    BY <1>3, <1>4, <1>5
\* Parts that follow each other.
LEMMA PartsJoin ==
    ASSUME NEW S, NEW C \in Seq(S), NEW pos \in Nat, NEW len \in Nat, pos + len <= Len(C)
    PROVE  /\ Len(Part(C, pos, len)) = len
           /\ SubSeq(C, 1, pos) \o Part(C, pos, len) = SubSeq(C, 1, pos + len)
  <1> DEFINE A == SubSeq(C, 1, pos)
             B == Part(C, pos, len)
             AB == SubSeq(C, 1, pos + len)
  <1>1. A \in Seq(S) /\ Len(A) = pos /\ \A i \in 1 .. pos : A[i] = C[i]
    OBVIOUS
  <1>2. AB \in Seq(S) /\ Len(AB) = pos + len /\ \A i \in 1 .. pos + len : AB[i] = C[i]
    OBVIOUS
  <1>3. \A i \in 1 .. len : pos + i \in 1 .. Len(C) /\ C[pos + i] \in S
    OBVIOUS
  <1>4. B \in [1 .. len -> S] /\ \A i \in 1 .. len : B[i] = C[pos + i]
    BY <1>3 DEF Part
  <1> HIDE DEF A, B, AB
  <1>5. B \in Seq(S) /\ Len(B) = len
    BY <1>4
  <1>6. /\ A \o B \in Seq(S) /\ Len(A \o B) = pos + len
        /\ \A i \in 1 .. pos + len : (A \o B)[i] = IF i <= pos THEN A[i] ELSE B[i - pos]
    BY <1>1, <1>5
  <1>7. ASSUME NEW i \in 1 .. pos + len PROVE (A \o B)[i] = AB[i]
    <2>1. CASE i <= pos
      BY <1>1, <1>2, <1>6, <2>1
    <2>2. CASE ~(i <= pos)
      <3>1. i - pos \in 1 .. len /\ pos + (i - pos) = i
        BY <2>2
      <3> QED
        BY <1>2, <1>4, <1>6, <2>2, <3>1
    <2> QED
      BY <2>1, <2>2
  <1>8. A \o B = AB
    BY <1>2, <1>6, <1>7, SeqEqual
  <1> QED
    BY <1>5, <1>8 DEF A, B, AB

----------------------------------------------------------------------------
(***************************************************************************)
(* Names.                                                                  *)
(***************************************************************************)
\* Sequences fn_length is applied to: they fill a name or have a NUL.
Name(s) ==
    /\ s \in Seq(Range(s))
    /\ Len(s) >= MAX_NAME_LENGTH \/ \E i \in 1 .. Len(s) : s[i] = NUL

\* The names asked for and the names of the image end or are full.
LEMMA NamesAre ==
    /\ \A name \in Names : Name(name)
    /\ \A s : FileName(s) => Name(s)
  <1>1. ASSUME NEW name \in Names PROVE Name(name)
    <2>1. name \in Seq(Range(name)) /\ name # <<>> /\ name[Len(name)] = NUL
      BY CallsAssumption DEF IsSequence
    <2>2. Len(name) \in 1 .. Len(name)
      BY <2>1
    <2> QED
      BY <2>1, <2>2 DEF Name
  <1>2. ASSUME NEW s, FileName(s) PROVE Name(s)
    BY <1>2, FileSysAssumption DEF FileName, Name, IsSequence
  <1> QED
    BY <1>1, <1>2

\* fn_length stops at the first NUL or at the longest name.
LEMMA FnLength ==
    ASSUME NEW s, Name(s)
    PROVE  /\ fn_length(s) \in 0 .. MAX_NAME_LENGTH /\ fn_length(s) <= Len(s)
           /\ \A i \in 1 .. fn_length(s) : s[i] # NUL
           /\ fn_length(s) = MAX_NAME_LENGTH \/ s[fn_length(s) + 1] = NUL
  <1> DEFINE M == MAX_NAME_LENGTH
             S == {n \in 0 .. M : n = M \/ s[n + 1] = NUL}
             len == fn_length(s)
  <1>1. M \in Nat \ {0}
    BY FileSysAssumption
  <1>2. S \subseteq Nat /\ M \in S
    BY <1>1
  <1>3. PICK m \in S : \A n \in S : m <= n
    <2> HIDE DEF S
    <2> QED
      BY <1>2, LeastNumber
  <1>4. \A i \in 1 .. m : s[i] # NUL
    <2> SUFFICES ASSUME NEW i \in 1 .. m, s[i] = NUL PROVE FALSE
      OBVIOUS
    <2>1. i - 1 \in 0 .. M /\ (i - 1) + 1 = i /\ i - 1 < m
      BY <1>1, <1>3
    <2>2. i - 1 \in S
      BY <2>1
    <2> QED
      BY <1>1, <1>3, <2>1, <2>2
  <1>5. /\ len \in 0 .. M /\ (\A i \in 1 .. len : s[i] # NUL) /\ (len = M \/ s[len + 1] = NUL)
    BY <1>3, <1>4 DEF fn_length
  <1> HIDE DEF len
  <1>6. len <= Len(s)
    BY <1>1, <1>5 DEF Name
  <1> QED
    BY <1>5, <1>6 DEF len

\* strncpy copies a name of the directory as it is.
LEMMA NameCopied ==
    ASSUME NEW s, FileName(s)
    PROVE  strncpy(s) = s /\ fn_length(s) \in Nat \ {0}
  <1>1. PICK n : n = fn_length(s)
    OBVIOUS
  <1>2. /\ n \in 0 .. MAX_NAME_LENGTH /\ \A i \in 1 .. n : s[i] # NUL
        /\ n = MAX_NAME_LENGTH \/ s[n + 1] = NUL
    BY <1>1, FnLength, NamesAre
  <1>3. MAX_NAME_LENGTH \in Nat \ {0}
    BY FileSysAssumption
  <1>4. n # 0
    BY <1>2, <1>3 DEF FileName
  <1>5. \A i \in 1 .. MAX_NAME_LENGTH : (IF i <= n THEN s[i] ELSE NUL) = s[i]
    <2> SUFFICES ASSUME NEW i \in 1 .. MAX_NAME_LENGTH, ~(i <= n) PROVE s[i] = NUL
      OBVIOUS
    <2>1. n + 1 \in 1 .. MAX_NAME_LENGTH /\ n + 1 <= i
      BY <1>2, <1>3
    <2>2. s[n + 1] = NUL
      BY <1>2, <1>3, <2>1
    <2> QED
      BY <2>1, <2>2 DEF FileName
  <1>6. s = [i \in 1 .. MAX_NAME_LENGTH |-> s[i]]
    BY DEF FileName, IsSequence
  <1>7. strncpy(s) = [i \in 1 .. MAX_NAME_LENGTH |-> IF i <= n THEN s[i] ELSE NUL]
    BY <1>1 DEF strncpy
  <1>8. strncpy(s) = [i \in 1 .. MAX_NAME_LENGTH |-> s[i]]
    BY <1>5, <1>7
  <1>9. n \in Nat \ {0}
    BY <1>2, <1>3, <1>4
  <1> QED
    BY <1>1, <1>6, <1>8, <1>9

\* The characters of a name.
LEMMA CharactersAre ==
    ASSUME NEW s, Name(s)
    PROVE  /\ Characters(s) \in Seq(Range(s)) /\ Len(Characters(s)) = fn_length(s)
           /\ \A i \in 1 .. fn_length(s) : Characters(s)[i] = s[i]
  <1>1. PICK n \in Nat : n = fn_length(s) /\ n <= Len(s)
    BY FnLength, FileSysAssumption
  <1>2. Characters(s) = SubSeq(s, 1, n)
    BY <1>1 DEF Characters
  <1>3. s \in Seq(Range(s))
    BY DEF Name
  <1>4. SubSeq(s, 1, n) \in Seq(Range(s)) /\ Len(SubSeq(s, 1, n)) = n
        /\ \A i \in 1 .. n : SubSeq(s, 1, n)[i] = s[i]
    BY <1>1, <1>3
  <1> QED
    BY <1>1, <1>2, <1>4

\* Comparing MAX_NAME_LENGTH bytes is comparing names.
LEMMA SameName ==
    ASSUME NEW s, NEW t, Name(s), Name(t)
    PROVE  strncmp(s, t, MAX_NAME_LENGTH) <=> Characters(s) = Characters(t)
  <1>1. PICK M \in Nat \ {0} : M = MAX_NAME_LENGTH
    BY FileSysAssumption
  <1>2. PICK m : m = fn_length(s) /\ m \in 0 .. M /\ (\A i \in 1 .. m : s[i] # NUL)
                 /\ (m = M \/ s[m + 1] = NUL)
    BY <1>1, FnLength
  <1>3. PICK n : n = fn_length(t) /\ n \in 0 .. M /\ (\A i \in 1 .. n : t[i] # NUL)
                 /\ (n = M \/ t[n + 1] = NUL)
    BY <1>1, FnLength
  <1>4. PICK cs : cs = Characters(s) /\ cs \in Seq(Range(s)) /\ Len(cs) = m /\ \A i \in 1 .. m : cs[i] = s[i]
    BY <1>2, CharactersAre
  <1>5. PICK ct : ct = Characters(t) /\ ct \in Seq(Range(t)) /\ Len(ct) = n /\ \A i \in 1 .. n : ct[i] = t[i]
    BY <1>3, CharactersAre
  <1>6. ASSUME strncmp(s, t, M) PROVE cs = ct
    <2>1. \A i \in 1 .. M : (\A j \in 1 .. i - 1 : s[j] # NUL) => s[i] = t[i]
      BY <1>6 DEF strncmp
    <2>2. \A i \in 1 .. M : i <= m + 1 => s[i] = t[i]
      <3> SUFFICES ASSUME NEW i \in 1 .. M, i <= m + 1 PROVE s[i] = t[i]
        OBVIOUS
      <3>1. \A j \in 1 .. i - 1 : j \in 1 .. m
        BY <1>2
      <3> QED
        BY <1>2, <2>1, <3>1
    <2>3. ~(n < m)
      <3> SUFFICES ASSUME n < m PROVE FALSE
        OBVIOUS
      <3>1. n + 1 \in 1 .. M /\ n + 1 <= m + 1 /\ n + 1 \in 1 .. m /\ n # M
        BY <1>2, <1>3
      <3> QED
        BY <1>2, <1>3, <2>2, <3>1
    <2>4. ~(m < n)
      <3> SUFFICES ASSUME m < n PROVE FALSE
        OBVIOUS
      <3>1. m + 1 \in 1 .. M /\ m + 1 \in 1 .. n /\ m # M
        BY <1>2, <1>3
      <3> QED
        BY <1>2, <1>3, <2>2, <3>1
    <2>5. m = n
      BY <1>2, <1>3, <2>3, <2>4
    <2>6. \A i \in 1 .. m : cs[i] = ct[i]
      BY <1>2, <1>4, <1>5, <2>2, <2>5
    <2>7. cs = [i \in 1 .. m |-> cs[i]] /\ ct = [i \in 1 .. m |-> ct[i]]
      BY <1>4, <1>5, <2>5
    <2> QED
      BY <2>6, <2>7
  <1>7. ASSUME cs = ct PROVE strncmp(s, t, M)
    <2>1. m = n /\ \A i \in 1 .. m : s[i] = t[i]
      BY <1>4, <1>5, <1>7
    <2> SUFFICES ASSUME NEW i \in 1 .. M, \A j \in 1 .. i - 1 : s[j] # NUL PROVE s[i] = t[i]
      BY DEF strncmp
    <2>2. i <= m + 1
      <3> SUFFICES ASSUME ~(i <= m + 1) PROVE FALSE
        OBVIOUS
      <3>1. m + 1 \in 1 .. i - 1 /\ m # M
        BY <1>2
      <3> QED
        BY <1>2, <3>1
    <2>3. CASE i <= m
      BY <2>1, <2>3
    <2>4. CASE i = m + 1
      <3>1. m # M
        BY <1>2, <2>4
      <3> QED
        BY <1>2, <1>3, <2>1, <2>4, <3>1
    <2> QED
      BY <1>2, <2>2, <2>3, <2>4
  <1> QED
    BY <1>1, <1>4, <1>5, <1>6, <1>7
\* Min is an element.
LEMMA MinIs ==
    ASSUME NEW S, S \subseteq Nat, S # {}
    PROVE  Min(S) \in S
  <1>1. \E m \in S : \A n \in S : m <= n
    BY LeastNumber
  <1> QED
    BY <1>1 DEF Min

\* The entries with the name a process asks for.
Called(name) ==
    {k \in Entries : Characters(name) # <<>> /\
                     Characters(image.dentries[k].filename) = Characters(name)}

\* The entries of an image.
LEMMA Dentries ==
    ASSUME image \in Images
    PROVE  /\ Entries = 1 .. Len(image.dentries) /\ Len(image.dentries) \in Nat
           /\ \A k \in Entries :
                 /\ image.dentries[k].filetype \in {"rtc", "dir", "reg"}
                 /\ image.dentries[k].inode_num \in Nat
                 /\ image.dentries[k].filetype = "reg" =>
                       image.dentries[k].inode_num < Len(image.inodes)
                 /\ FileName(image.dentries[k].filename)
  <1>1. image.dentries \in Seq(Range(image.dentries))
    BY ImageAssumption DEF IsSequence
  <1>2. Entries = 1 .. Len(image.dentries) /\ Len(image.dentries) \in Nat
    BY <1>1 DEF Entries
  <1>3. \A k \in Entries : image.dentries[k] \in Range(image.dentries)
    BY <1>1, <1>2
  <1>4. \A d \in Range(image.dentries) :
            /\ d.filetype \in {"rtc", "dir", "reg"} /\ d.inode_num \in Nat
            /\ d.filetype = "reg" => d.inode_num < Len(image.inodes)
            /\ FileName(d.filename)
    BY FileSysAssumption, ImageAssumption
  <1> QED
    BY <1>2, <1>3, <1>4

\* read_dentry_by_name finds an entry with the name if there is one.
LEMMA Lookup ==
    ASSUME image \in Images, NEW name, Name(name)
    PROVE  /\ read_dentry_by_name(name) = 0 => Called(name) = {}
           /\ read_dentry_by_name(name) # 0 => read_dentry_by_name(name) \in Called(name)
  <1> DEFINE same == {i \in Entries : strncmp(image.dentries[i].filename, name, MAX_NAME_LENGTH)}
             found == {i \in Entries : Characters(image.dentries[i].filename) = Characters(name)}
  <1>1. Name(name)
    OBVIOUS
  <1>2. \A i \in Entries : Name(image.dentries[i].filename)
    BY Dentries, NamesAre
  <1>3. same = found
    BY <1>1, <1>2, SameName
  <1>4. Characters(name) = <<>> <=> fn_length(name) = 0
    BY <1>1, CharactersAre, EmptySeq
  <1>5. found \subseteq Nat /\ 0 \notin found
    BY Dentries
  <1>6. read_dentry_by_name(name) = IF fn_length(name) = 0 \/ found = {} THEN 0 ELSE Min(found)
    BY <1>3 DEF read_dentry_by_name, FirstEntry
  <1>7. Called(name) = IF Characters(name) = <<>> THEN {} ELSE found
    BY DEF Called
  <1> HIDE DEF found, same
  <1>8. found # {} => Min(found) \in found /\ Min(found) # 0
    BY <1>5, MinIs
  <1> QED
    BY <1>4, <1>6, <1>7, <1>8

----------------------------------------------------------------------------
(***************************************************************************)
(* The descriptor table.                                                   *)
(***************************************************************************)
FileSet == [used : BOOLEAN, type : {"rtc", "dir", "reg"}, pos : Nat, inode : Nat]

FileOK(file) ==
    file.used =>
        /\ file.type = "reg" => /\ file.inode < Len(image.inodes)
                                /\ file.pos <= Inode(file.inode).file_size
        /\ file.type = "dir" => file.pos <= Len(image.dentries)

GotOK(file, g) ==
    file.used =>
        /\ file.type = "reg" => g = SubSeq(Content(Inode(file.inode)), 1, file.pos)
        /\ file.type = "dir" => g = [k \in 1 .. file.pos |-> image.dentries[k].filename]

\* A process, and what it has in its table.
Table ==
    /\ image \in Images /\ files \in [Fds -> FileSet] /\ DOMAIN got = Fds
    /\ \A fd \in Fds : FileOK(files[fd]) /\ GotOK(files[fd], got[fd])

\* A call changes one descriptor.
Changes(fd, new, g) ==
    /\ fd \in Fds /\ new \in FileSet /\ FileOK(new) /\ GotOK(new, g)
    /\ files' = [files EXCEPT ![fd] = new]
    /\ got' = [got EXCEPT ![fd] = g] \/ (g = got[fd] /\ got' = got)

\* The sizes of an image.
LEMMA SizeIs ==
    ASSUME image \in Images, NEW num \in Nat, num < Len(image.inodes)
    PROVE  Inode(num).file_size \in 0 .. WORD \div 2 - 1 /\ Inode(num).file_size \in Nat
  <1>1. image.inodes \in Seq(Range(image.inodes))
        /\ \A n \in Range(image.inodes) : n.file_size \in 0 .. WORD \div 2 - 1
    BY ImageAssumption DEF IsSequence
  <1>2. num + 1 \in 1 .. Len(image.inodes)
    BY <1>1
  <1>3. image.inodes[num + 1] \in Range(image.inodes)
    BY <1>1, <1>2
  <1>4. WORD \div 2 \in Int
    BY ImageAssumption
  <1> QED
    BY <1>1, <1>3, <1>4 DEF Inode

\* What rtc_open and fs_open make of a descriptor: nothing has been read.
LEMMA NewFile ==
    ASSUME image \in Images, NEW d, d.filetype \in {"rtc", "dir", "reg"}, d.inode_num \in Nat,
           d.filetype = "reg" => d.inode_num < Len(image.inodes)
    PROVE  /\ OpenedFile(d) \in FileSet /\ FileOK(OpenedFile(d)) /\ GotOK(OpenedFile(d), <<>>)
           /\ OpenedFile(d).used /\ OpenedFile(d).type = d.filetype
           /\ OpenedFile(d).type # "rtc" =>
                 OpenedFile(d).inode = d.inode_num /\ OpenedFile(d).pos = 0
  <1>1. PICK type, num : type = d.filetype /\ num = d.inode_num
    OBVIOUS
  <1>2. CASE type = "rtc"
    <2>1. OpenedFile(d) = [used |-> TRUE, type |-> "rtc", pos |-> RTC_POS, inode |-> RTC_INODE]
      BY <1>1, <1>2 DEF OpenedFile
    <2>2. RTC_POS \in Nat /\ RTC_INODE \in Nat
      BY FileSysAssumption
    <2> QED
      BY <1>1, <1>2, <2>1, <2>2 DEF FileSet, FileOK, GotOK
  <1>3. CASE type # "rtc"
    <2>1. OpenedFile(d) = [used |-> TRUE, type |-> type, pos |-> 0, inode |-> num]
      BY <1>1, <1>3 DEF OpenedFile
    <2>2. OpenedFile(d) \in FileSet
      BY <1>1, <2>1 DEF FileSet
    <2>3. type = "reg" => Inode(num).file_size \in Nat /\ num < Len(image.inodes)
      BY <1>1, SizeIs
    <2>4. FileOK(OpenedFile(d))
      <3>1. Len(image.dentries) \in Nat
        BY Dentries
      <3> QED
        BY <2>1, <2>3, <3>1 DEF FileOK
    <2>5. GotOK(OpenedFile(d), <<>>)
      <3>1. type = "reg" => SubSeq(Content(Inode(num)), 1, 0) = <<>>
        BY <2>3, ContentIs
      <3>2. [k \in 1 .. 0 |-> image.dentries[k].filename] = <<>>
        OBVIOUS
      <3> QED
        BY <2>1, <3>1, <3>2 DEF GotOK
    <2> QED
      BY <1>1, <2>1, <2>2, <2>4, <2>5
  <1> QED
    BY <1>2, <1>3

\* Opening: the lowest free descriptor, at the start of a file with the name.
LEMMA OpenChanges ==
    ASSUME Table, NEW name \in Names, Open(name)
    PROVE  /\ \/ UNCHANGED <<files, got>>
              \/ \E fd, new, g : Changes(fd, new, g)
           /\ call'.op = "open" /\ call'.name = name
           /\ IF call'.ret = -1
              THEN UNCHANGED files /\ (Called(name) = {} \/ \A fd \in Fds : files[fd].used)
              ELSE \E k \in Called(name) :
                      /\ files'[call'.ret].type = image.dentries[k].filetype
                      /\ files'[call'.ret].type # "rtc" =>
                            files'[call'.ret].inode = image.dentries[k].inode_num
  <1> DEFINE entry == read_dentry_by_name(name)
             free == {fd \in Fds : ~files[fd].used}
             r == syscall_open(files, name)
             new == OpenedFile(image.dentries[entry])
  <1>1. /\ files' = r.files /\ call' = [NoCall EXCEPT !.op = "open", !.name = name, !.ret = r.ret]
        /\ got' = IF r.ret = -1 THEN got ELSE [got EXCEPT ![r.ret] = <<>>]
    BY DEF Open
  <1>2. r = IF entry = 0 \/ free = {} THEN [ret |-> -1, files |-> files]
            ELSE [ret |-> Min(free), files |-> [files EXCEPT ![Min(free)] = new]]
    BY DEF syscall_open
  <1> HIDE DEF r
  <1>3. call'.op = "open" /\ call'.name = name /\ call'.ret = r.ret
    BY <1>1 DEF NoCall
  <1>4. /\ entry = 0 => Called(name) = {}
        /\ entry # 0 => entry \in Called(name)
    BY Lookup, NamesAre DEF Table
  <1>5. CASE entry = 0 \/ free = {}
    <2>1. r.ret = -1 /\ r.files = files
      BY <1>2, <1>5
    <2>2. free = {} => \A fd \in Fds : files[fd].used
      OBVIOUS
    <2> HIDE DEF entry, free
    <2> QED
      BY <1>1, <1>3, <1>4, <1>5, <2>1, <2>2
  <1>6. CASE entry # 0 /\ free # {}
    <2>1. free \subseteq Nat
      BY DEF Fds
    <2> HIDE DEF free
    <2>2. Min(free) \in free
      BY <1>6, <2>1, MinIs
    <2>3. PICK fd \in Fds : fd = Min(free) /\ fd # -1
      BY <2>1, <2>2 DEF free
    <2>4. r.ret = fd /\ r.files = [files EXCEPT ![fd] = new]
      BY <1>2, <1>6, <2>3
    <2>5. entry \in Called(name) /\ entry \in Entries
      BY <1>4, <1>6 DEF Called
    <2> HIDE DEF entry
    <2>6. /\ image.dentries[entry].filetype \in {"rtc", "dir", "reg"}
          /\ image.dentries[entry].inode_num \in Nat
          /\ image.dentries[entry].filetype = "reg" =>
                image.dentries[entry].inode_num < Len(image.inodes)
      BY <2>5, Dentries DEF Table
    <2>7. /\ new \in FileSet /\ FileOK(new) /\ GotOK(new, <<>>)
          /\ new.type = image.dentries[entry].filetype
          /\ new.type # "rtc" => new.inode = image.dentries[entry].inode_num
      BY <2>6, NewFile DEF Table
    <2> HIDE DEF new
    <2>8. Changes(fd, new, <<>>)
      BY <1>1, <2>3, <2>4, <2>7 DEF Changes
    <2>9. files'[fd] = new
      BY <1>1, <2>4 DEF Table
    <2> QED
      BY <1>3, <2>3, <2>4, <2>5, <2>7, <2>8, <2>9
  <1> QED
    BY <1>5, <1>6

\* Only the position of a file moves.
LEMMA PositionMoves ==
    ASSUME NEW file \in FileSet, NEW p \in Nat
    PROVE  /\ [file EXCEPT !.pos = p] \in FileSet
           /\ [file EXCEPT !.pos = p].used = file.used
           /\ [file EXCEPT !.pos = p].type = file.type
           /\ [file EXCEPT !.pos = p].inode = file.inode
           /\ [file EXCEPT !.pos = p].pos = p
  BY DEF FileSet

\* A read gives len bytes of the contents C from the position on.
ReadsPart(t, fd, file, n, C, len) ==
    /\ syscall_read(t, fd, n) =
         [ret |-> len, bytes |-> Part(C, file.pos, len),
          files |-> [t EXCEPT ![fd] = [file EXCEPT !.pos = file.pos + len]]]
    /\ Len(Part(C, file.pos, len)) = len
    /\ SubSeq(C, 1, file.pos) \o Part(C, file.pos, len) = SubSeq(C, 1, file.pos + len)
    /\ n \in 1 .. WORD \div 2 - 1 /\ len = 0 => file.pos = Len(C)

\* Reading a file: the part at the position, nothing only at its end.
LEMMA FileReads ==
    ASSUME image \in Images, NEW t, NEW fd \in Fds, NEW file \in FileSet, t[fd] = file,
           file.used, file.type = "reg", FileOK(file), NEW n \in 0 .. WORD - 1,
           NEW C, C = Content(Inode(file.inode))
    PROVE  /\ C \in Seq(Range(C)) /\ Len(C) = Inode(file.inode).file_size
           /\ file.pos \in 0 .. Len(C)
           /\ \E len \in 0 .. Len(C) - file.pos : ReadsPart(t, fd, file, n, C, len)
  <1>2. PICK num \in Nat : num = file.inode
    BY DEF FileSet
  <1>3. num < Len(image.inodes)
    BY <1>2 DEF FileOK
  <1>4. PICK size \in Nat : size = Inode(num).file_size
    BY <1>3, SizeIs
  <1>5. PICK pos \in 0 .. size : pos = file.pos
    BY <1>2, <1>3, <1>4 DEF FileOK, FileSet
  <1>7. C \in Seq(Range(C)) /\ Len(C) = size
    BY <1>2, <1>4, ContentIs
  <1>8. PICK len \in 0 .. size - pos :
            /\ read_data(num, pos, n) = Part(C, pos, len)
            /\ n \in 1 .. WORD \div 2 - 1 /\ len = 0 => pos = size
    BY <1>2, <1>3, <1>4, <1>5, ReadDataFacts
  <1>9. /\ Len(Part(C, pos, len)) = len
        /\ SubSeq(C, 1, pos) \o Part(C, pos, len) = SubSeq(C, 1, pos + len)
    <2>1. pos \in Nat /\ len \in Nat /\ pos + len <= Len(C)
      BY <1>7
    <2> QED
      BY <1>7, <2>1, PartsJoin, Zenon
  <1> DEFINE new == [file EXCEPT !.pos = pos + len]
  <1>10. fs_file_read(file, n) = [ret |-> len, bytes |-> Part(C, pos, len), file |-> new]
    BY <1>2, <1>5, <1>8, <1>9 DEF fs_file_read
  <1>11. syscall_read(t, fd, n) =
           [ret |-> len, bytes |-> Part(C, pos, len), files |-> [t EXCEPT ![fd] = new]]
    BY <1>10 DEF syscall_read
  <1> HIDE DEF new
  <1>12. new = [file EXCEPT !.pos = file.pos + len]
    BY <1>5 DEF new
  <1> QED
    BY <1>2, <1>4, <1>5, <1>7, <1>8, <1>9, <1>11, <1>12 DEF ReadsPart

\* Reading the directory: the next name, nothing only at its end.
LEMMA NameReads ==
    ASSUME image \in Images, NEW t, NEW fd \in Fds, NEW file \in FileSet, t[fd] = file,
           file.used, file.type = "dir", FileOK(file), NEW n, file.pos # Len(image.dentries),
           NEW name, name = image.dentries[file.pos + 1].filename
    PROVE  /\ file.pos + 1 \in Entries /\ FileName(name) /\ fn_length(name) \in Nat \ {0}
           /\ syscall_read(t, fd, n) =
                [ret |-> fn_length(name), bytes |-> name,
                 files |-> [t EXCEPT ![fd] = [file EXCEPT !.pos = file.pos + 1]]]
  <1>1. PICK entries \in Nat : entries = Len(image.dentries)
    BY Dentries
  <1>2. PICK pos \in 0 .. entries - 1 : pos = file.pos
    BY <1>1 DEF FileOK, FileSet
  <1>3. pos + 1 \in Entries
    BY <1>1, <1>2, Dentries
  <1>4. FileName(name)
    BY <1>2, <1>3, Dentries
  <1>5. strncpy(name) = name /\ fn_length(name) \in Nat \ {0}
    BY <1>4, NameCopied
  <1> DEFINE new == [file EXCEPT !.pos = pos + 1]
  <1>6. ~(file.pos >= Len(image.dentries))
    BY <1>1, <1>2
  <1>7. fs_dir_read(file, n) = [ret |-> fn_length(name), bytes |-> name, file |-> new]
    BY <1>2, <1>5, <1>6 DEF fs_dir_read
  <1>8. syscall_read(t, fd, n) =
           [ret |-> fn_length(name), bytes |-> name, files |-> [t EXCEPT ![fd] = new]]
    BY <1>7 DEF syscall_read
  <1> HIDE DEF new
  <1>9. new = [file EXCEPT !.pos = file.pos + 1]
    BY <1>2 DEF new
  <1> QED
    BY <1>2, <1>3, <1>4, <1>5, <1>8, <1>9

\* At the end.
LEMMA NamesEnd ==
    ASSUME image \in Images, NEW t, NEW fd \in Fds, NEW file \in FileSet, t[fd] = file,
           file.used, file.type = "dir", file.pos = Len(image.dentries), NEW n
    PROVE  syscall_read(t, fd, n).ret = 0
  <1>1. file.pos >= Len(image.dentries)
    BY Dentries
  <1>2. fs_dir_read(file, n) = [ret |-> 0, bytes |-> <<>>, file |-> file]
    BY <1>1 DEF fs_dir_read
  <1> QED
    BY <1>2 DEF syscall_read

\* Reading of a file: the part at the position.
LEMMA RegularRead ==
    ASSUME Table, NEW fd \in Fds, files[fd].used, files[fd].type = "reg",
           NEW n \in Lengths, Read(fd, n)
    PROVE  /\ \E new, g : Changes(fd, new, g)
           /\ files'[fd].type = "reg"
           /\ call'.ret = 0 /\ n \in 1 .. WORD \div 2 - 1 =>
                 files'[fd].pos = Inode(files'[fd].inode).file_size
  <1>1. PICK file \in FileSet : file = files[fd]
    BY DEF Table
  <1>2. file.used /\ file.type = "reg" /\ FileOK(file) /\ image \in Images
    BY <1>1 DEF Table
  <1>3. PICK C : C = Content(Inode(file.inode))
    OBVIOUS
  <1>4. n \in 0 .. WORD - 1
    BY CallsAssumption
  <1>5. C \in Seq(Range(C)) /\ Len(C) = Inode(file.inode).file_size /\ file.pos \in 0 .. Len(C)
    BY <1>1, <1>2, <1>3, <1>4, FileReads
  <1>6. PICK len \in 0 .. Len(C) - file.pos : ReadsPart(files, fd, file, n, C, len)
    BY <1>1, <1>2, <1>3, <1>4, FileReads
  <1>7. PICK p \in Nat : p = file.pos + len /\ p <= Len(C)
    BY <1>5, <1>6
  <1>8. n \in 1 .. WORD \div 2 - 1 /\ len = 0 => file.pos = Len(C)
    BY <1>6 DEF ReadsPart
  <1>9. SubSeq(C, 1, file.pos) \o Part(C, file.pos, len) = SubSeq(C, 1, p)
    BY <1>6, <1>7 DEF ReadsPart
  <1> DEFINE r == syscall_read(files, fd, n)
             new == [file EXCEPT !.pos = p]
  <1>11. r = [ret |-> len, bytes |-> Part(C, file.pos, len), files |-> [files EXCEPT ![fd] = new]]
    BY <1>6, <1>7 DEF ReadsPart
  <1>12. /\ files' = r.files /\ call' = [NoCall EXCEPT !.op = "read", !.fd = fd, !.n = n, !.ret = r.ret]
         /\ got' = IF r.ret <= 0 THEN got ELSE [got EXCEPT ![fd] = got[fd] \o r.bytes]
    BY <1>1, <1>2 DEF Read, Table
  <1>13. /\ new \in FileSet /\ new.used = file.used /\ new.type = "reg"
         /\ new.inode = file.inode /\ new.pos = p
    BY <1>2, PositionMoves
  <1> HIDE DEF r, new
  <1>14. r.ret = len /\ r.bytes = Part(C, file.pos, len) /\ r.files = [files EXCEPT ![fd] = new]
    BY <1>11
  <1>15. FileOK(new)
    BY <1>2, <1>5, <1>7, <1>13 DEF FileOK
  <1>16. got[fd] = SubSeq(C, 1, file.pos)
    BY <1>1, <1>2, <1>3 DEF Table, GotOK
  <1>17. PICK g : g = got[fd] \o Part(C, file.pos, len)
    OBVIOUS
  <1>18. GotOK(new, g)
    BY <1>3, <1>9, <1>13, <1>16, <1>17 DEF GotOK
  <1>19. Changes(fd, new, g)
    <2>1. CASE len = 0
      <3>1. g = got[fd]
        <4>1. p = file.pos
          BY <1>5, <1>7, <2>1
        <4> QED
          BY <1>9, <1>16, <1>17, <4>1
      <3>2. got' = got
        BY <1>12, <1>14, <2>1
      <3> QED
        BY <1>12, <1>13, <1>14, <1>15, <1>18, <3>1, <3>2 DEF Changes
    <2>2. CASE len # 0
      <3>1. got' = [got EXCEPT ![fd] = g]
        BY <1>6, <1>12, <1>14, <1>17, <2>2
      <3> QED
        BY <1>12, <1>13, <1>14, <1>15, <1>18, <3>1 DEF Changes
    <2> QED
      BY <2>1, <2>2
  <1>20. files'[fd] = new
    BY <1>12, <1>14 DEF Table
  <1>21. call'.ret = len
    BY <1>12, <1>14 DEF NoCall
  <1> QED
    BY <1>5, <1>7, <1>8, <1>13, <1>19, <1>20, <1>21

\* Reading of the directory: the next name.
LEMMA DirectoryRead ==
    ASSUME Table, NEW fd \in Fds, files[fd].used, files[fd].type = "dir",
           NEW n \in Lengths, Read(fd, n)
    PROVE  /\ \E new, g : Changes(fd, new, g)
           /\ files'[fd].type = "dir"
           /\ call'.ret = 0 => files'[fd].pos = Len(image.dentries)
  <1>1. PICK file \in FileSet : file = files[fd]
    BY DEF Table
  <1>2. PICK entries \in Nat : entries = Len(image.dentries)
    BY Dentries DEF Table
  <1>3. PICK pos \in 0 .. entries : pos = file.pos
    BY <1>1, <1>2 DEF Table, FileOK, FileSet
  <1>4. file.used /\ file.type = "dir"
    BY <1>1
  <1>5. /\ files' = syscall_read(files, fd, n).files
        /\ call' = [NoCall EXCEPT !.op = "read", !.fd = fd, !.n = n, !.ret = syscall_read(files, fd, n).ret]
        /\ got' = IF syscall_read(files, fd, n).ret <= 0 THEN got
                  ELSE [got EXCEPT ![fd] = Append(got[fd], syscall_read(files, fd, n).bytes)]
    BY <1>1, <1>4 DEF Read, Table
  <1>6. PICK r : r = syscall_read(files, fd, n)
    OBVIOUS
  <1>7. r = [ret |-> fs_dir_read(file, n).ret, bytes |-> fs_dir_read(file, n).bytes,
             files |-> [files EXCEPT ![fd] = fs_dir_read(file, n).file]]
    BY <1>1, <1>4, <1>6 DEF syscall_read
  <1>8. got[fd] = [k \in 1 .. pos |-> image.dentries[k].filename]
    BY <1>1, <1>3, <1>4 DEF Table, GotOK
  <1>9. CASE pos = entries
    <2>1. fs_dir_read(file, n) = [ret |-> 0, bytes |-> <<>>, file |-> file]
      BY <1>2, <1>3, <1>9 DEF fs_dir_read
    <2>2. r.ret = 0 /\ r.files = [files EXCEPT ![fd] = file]
      BY <1>7, <2>1
    <2>3. Changes(fd, file, got[fd])
      BY <1>1, <1>5, <1>6, <2>2 DEF Changes, Table
    <2>4. files'[fd] = file
      BY <1>5, <1>6, <2>2 DEF Table
    <2> QED
      BY <1>2, <1>3, <1>4, <1>9, <2>3, <2>4
  <1>10. CASE pos < entries
    <2>1. PICK name : name = image.dentries[pos + 1].filename
      OBVIOUS
    <2> DEFINE new == [file EXCEPT !.pos = pos + 1]
    <2>2. fn_length(name) \in Nat \ {0}
          /\ r = [ret |-> fn_length(name), bytes |-> name, files |-> [files EXCEPT ![fd] = new]]
      <3>1. file.pos # Len(image.dentries) /\ FileOK(file) /\ image \in Images
        BY <1>1, <1>2, <1>3, <1>10 DEF Table
      <3> QED
        BY <1>1, <1>3, <1>4, <1>6, <2>1, <3>1, NameReads
    <2>4. new \in FileSet /\ new.used = file.used /\ new.type = "dir" /\ new.pos = pos + 1
      <3>1. pos + 1 \in Nat
        OBVIOUS
      <3> QED
        BY <1>4, <3>1, PositionMoves
    <2> HIDE DEF new
    <2>5. r.ret = fn_length(name) /\ r.bytes = name /\ r.files = [files EXCEPT ![fd] = new]
      BY <2>2
    <2>6. Append(got[fd], name) = [k \in 1 .. pos + 1 |-> image.dentries[k].filename]
      <3>1. PICK h : h = [k \in 1 .. entries |-> image.dentries[k].filename]
        OBVIOUS
      <3>2. h \in Seq(Range(h)) /\ Len(h) = entries
        BY <3>1 DEF Range
      <3>3. got[fd] = SubSeq(h, 1, pos) /\ name = h[pos + 1]
        <4>1. \A k \in 1 .. pos : h[k] = image.dentries[k].filename
          BY <3>1
        <4>2. SubSeq(h, 1, pos) = [k \in 1 .. pos |-> h[k]]
          BY <3>2
        <4> QED
          BY <1>8, <1>10, <2>1, <3>1, <4>1, <4>2
      <3>4. Append(SubSeq(h, 1, pos), h[pos + 1]) = [k \in 1 .. pos + 1 |-> h[k]]
        BY <1>10, <3>2
      <3>5. \A k \in 1 .. pos + 1 : h[k] = image.dentries[k].filename
        BY <1>10, <3>1
      <3> QED
        BY <3>3, <3>4, <3>5
    <2>7. GotOK(new, Append(got[fd], name))
      BY <2>4, <2>6 DEF GotOK
    <2>8. FileOK(new)
      BY <1>2, <1>10, <2>4 DEF FileOK
    <2>9. got' = [got EXCEPT ![fd] = Append(got[fd], name)]
      BY <1>5, <1>6, <2>2, <2>5
    <2>10. Changes(fd, new, Append(got[fd], name))
      BY <1>5, <1>6, <2>4, <2>5, <2>7, <2>8, <2>9 DEF Changes
    <2>11. call'.ret # 0
      BY <1>5, <1>6, <2>2, <2>5 DEF NoCall
    <2>12. files'[fd].type = "dir"
      <3>1. files'[fd] = new
        BY <1>5, <1>6, <2>5 DEF Table
      <3> QED
        BY <2>4, <3>1
    <2> QED
      BY <2>10, <2>11, <2>12
  <1> QED
    BY <1>3, <1>9, <1>10

\* What a read changes.
LEMMA ReadChanges ==
    ASSUME Table, NEW fd \in Fds \cup {TASK_MAX_FILES}, NEW n \in Lengths, Read(fd, n)
    PROVE  /\ \/ UNCHANGED <<files, got>>
              \/ \E f, new, g : Changes(f, new, g)
           /\ call'.op = "read" /\ call'.fd = fd /\ call'.n = n
           /\ call'.ret = 0 /\ n \in 1 .. WORD \div 2 - 1 =>
                 /\ files'[fd].type = "reg" => files'[fd].pos = Inode(files'[fd].inode).file_size
                 /\ files'[fd].type = "dir" => files'[fd].pos = Len(image.dentries)
  <1>1. call'.op = "read" /\ call'.fd = fd /\ call'.n = n
    BY DEF Read, NoCall
  <1>2. CASE fd \notin Fds \/ ~files[fd].used
    <2>1. syscall_read(files, fd, n) = [ret |-> -1, bytes |-> <<>>, files |-> files]
      BY <1>2 DEF syscall_read
    <2> QED
      BY <1>1, <2>1 DEF Read, NoCall
  <1>3. CASE fd \in Fds /\ files[fd].used /\ files[fd].type = "reg"
    <2>1. /\ \E new, g : Changes(fd, new, g)
          /\ files'[fd].type = "reg"
          /\ call'.ret = 0 /\ n \in 1 .. WORD \div 2 - 1 =>
                files'[fd].pos = Inode(files'[fd].inode).file_size
      BY <1>3, RegularRead
    <2> QED
      BY <1>1, <2>1
  <1>4. CASE fd \in Fds /\ files[fd].used /\ files[fd].type = "dir"
    <2>1. /\ \E new, g : Changes(fd, new, g)
          /\ files'[fd].type = "dir"
          /\ call'.ret = 0 => files'[fd].pos = Len(image.dentries)
      BY <1>4, DirectoryRead
    <2> QED
      BY <1>1, <2>1
  <1>5. CASE fd \in Fds /\ files[fd].used /\ files[fd].type = "rtc"
    <2>1. syscall_read(files, fd, n).ret = 0 /\ syscall_read(files, fd, n).files = files
      BY <1>5 DEF syscall_read, Table
    <2>2. UNCHANGED <<files, got>>
      BY <2>1 DEF Read
    <2> QED
      BY <1>1, <1>5, <2>2
  <1> QED
    BY <1>2, <1>3, <1>4, <1>5 DEF Table, FileSet
\* What a close changes.
LEMMA CloseChanges ==
    ASSUME Table, NEW fd \in Fds \cup {TASK_MAX_FILES}, Close(fd)
    PROVE  /\ \/ UNCHANGED <<files, got>>
              \/ \E f, new, g : Changes(f, new, g)
           /\ call'.op = "close"
  <1>1. call'.op = "close" /\ got' = got
    BY DEF Close, NoCall
  <1>2. CASE fd \notin Fds \/ ~files[fd].used
    BY <1>1, <1>2 DEF Close, syscall_close
  <1>3. CASE fd \in Fds /\ files[fd].used
    <2>1. PICK file \in FileSet : file = files[fd]
      BY <1>3 DEF Table
    <2> DEFINE new == [file EXCEPT !.used = FALSE]
    <2>2. files' = [files EXCEPT ![fd] = new]
      BY <1>3, <2>1 DEF Close, syscall_close
    <2>3. new \in FileSet /\ ~new.used
      BY DEF FileSet
    <2> HIDE DEF new
    <2>4. FileOK(new) /\ GotOK(new, got[fd])
      BY <2>3 DEF FileOK, GotOK
    <2>5. Changes(fd, new, got[fd])
      BY <1>1, <1>3, <2>2, <2>3, <2>4 DEF Changes
    <2> QED
      BY <1>1, <2>5
  <1> QED
    BY <1>2, <1>3

\* Every change keeps the table.
LEMMA TableKept ==
    ASSUME Table, image' = image,
           UNCHANGED <<files, got>> \/ \E fd, new, g : Changes(fd, new, g)
    PROVE  Table'
  <1>1. CASE UNCHANGED <<files, got>>
    BY <1>1 DEF Table, FileOK, GotOK, Inode, Content, ByteAt
  <1>2. ASSUME NEW fd, NEW new, NEW g, Changes(fd, new, g) PROVE Table'
    <2>1. files' \in [Fds -> FileSet] /\ DOMAIN got' = Fds
      BY <1>2 DEF Table, Changes
    <2>2. ASSUME NEW f \in Fds PROVE FileOK(files'[f]) /\ GotOK(files'[f], got'[f])
      <3>1. CASE f = fd
        <4>1. files'[f] = new /\ got'[f] = g
          BY <1>2, <3>1 DEF Table, Changes
        <4> QED
          BY <1>2, <4>1 DEF Changes
      <3>2. CASE f # fd
        <4>1. files'[f] = files[f] /\ got'[f] = got[f]
          BY <1>2, <3>2 DEF Table, Changes
        <4> QED
          BY <4>1 DEF Table
      <3> QED
        BY <3>1, <3>2
    <2>3. \A f \in Fds : FileOK(files[f])' /\ GotOK(files[f], got[f])'
      BY <2>2 DEF FileOK, GotOK, Inode, Content, ByteAt
    <2>4. image' \in Images
      BY DEF Table
    <2> QED
      BY <2>1, <2>3, <2>4 DEF Table
  <1> QED
    BY <1>1, <1>2

\* The invariant for any program, in short.
LEMMA TableIs ==
    prog = "any" => (FilesInv /\ ReadSoFar <=> Table /\ image \in AnyImages)
  <1>1. AnyImages \subseteq Images
    BY CallsAssumption
  <1> QED
    BY <1>1 DEF FilesInv, ReadSoFar, Table, FileOK, GotOK, FileSet

----------------------------------------------------------------------------
(***************************************************************************)
(* The theorems.                                                           *)
(***************************************************************************)
FileInv == FilesInv /\ Streams /\ OpenByName

\* The invariant holds at first.
LEMMA FileInit == Init => FileInv
  <1> SUFFICES ASSUME Init PROVE FileInv
    OBVIOUS
  <1>1. call = NoCall /\ (prog = "any" => image \in AnyImages)
        /\ got = [fd \in Fds |-> <<>>] /\ files = [fd \in Fds |-> NoFile]
    BY DEF Init
  <1>2. NoFile \in FileSet /\ ~NoFile.used
    BY DEF NoFile, FileSet
  <1>3. FilesInv
    BY <1>1, <1>2 DEF FilesInv, FileSet
  <1>4. ReadSoFar
    BY <1>1, <1>2 DEF ReadSoFar
  <1>5. call.op = "none"
    BY <1>1 DEF NoCall
  <1> QED
    BY <1>3, <1>4, <1>5 DEF FileInv, Streams, NoEarlyEnd, OpenByName

\* Every call keeps the invariant.
LEMMA FileStep == FileInv /\ [Next]_vars => FileInv'
  <1> SUFFICES ASSUME FileInv, [Next]_vars PROVE FileInv'
    OBVIOUS
  <1>1. CASE AnyCall
    <2>1. prog = "any" /\ prog' = "any" /\ image' = image
      BY <1>1 DEF AnyCall, fixed
    <2>2. Table /\ image \in AnyImages
      BY <2>1, TableIs DEF FileInv, Streams
    <2>3. SUFFICES /\ UNCHANGED <<files, got>> \/ \E fd, new, g : Changes(fd, new, g)
                   /\ NoEarlyEnd' /\ OpenByName'
      <3>1. ASSUME UNCHANGED <<files, got>> \/ \E fd, new, g : Changes(fd, new, g)
            PROVE  FilesInv' /\ ReadSoFar'
        <4>1. Table'
          BY <2>1, <2>2, <3>1, TableKept
        <4>2. (prog = "any")' /\ (image \in AnyImages)'
          BY <2>1, <2>2
        <4>3. (prog = "any" => (FilesInv /\ ReadSoFar <=> Table /\ image \in AnyImages))'
          BY TableIs, PTL
        <4> QED
          BY <4>1, <4>2, <4>3
      <3> QED
        BY <3>1 DEF FileInv, Streams
    <2>4. ASSUME NEW name \in Names, Open(name)
          PROVE  /\ UNCHANGED <<files, got>> \/ \E fd, new, g : Changes(fd, new, g)
                 /\ NoEarlyEnd' /\ OpenByName'
      <3>1. UNCHANGED <<files, got>> \/ \E fd, new, g : Changes(fd, new, g)
        BY <2>2, <2>4, OpenChanges
      <3>2. call'.op = "open" /\ call'.name = name
        BY <2>2, <2>4, OpenChanges
      <3>3. IF call'.ret = -1
            THEN UNCHANGED files /\ (Called(name) = {} \/ \A fd \in Fds : files[fd].used)
            ELSE \E k \in Called(name) :
                    /\ files'[call'.ret].type = image.dentries[k].filetype
                    /\ files'[call'.ret].type # "rtc" =>
                          files'[call'.ret].inode = image.dentries[k].inode_num
        BY <2>2, <2>4, OpenChanges
      <3>4. NoEarlyEnd'
        BY <3>2 DEF NoEarlyEnd
      <3>5. OpenByName'
        BY <2>1, <3>2, <3>3 DEF OpenByName, Called, Entries
      <3> QED
        BY <3>1, <3>4, <3>5
    <2>5. ASSUME NEW fd \in Fds \cup {TASK_MAX_FILES}, NEW n \in Lengths, Read(fd, n)
          PROVE  /\ UNCHANGED <<files, got>> \/ \E f, new, g : Changes(f, new, g)
                 /\ NoEarlyEnd' /\ OpenByName'
      <3>1. UNCHANGED <<files, got>> \/ \E f, new, g : Changes(f, new, g)
        BY <2>2, <2>5, ReadChanges
      <3>2. call'.op = "read" /\ call'.fd = fd /\ call'.n = n
        BY <2>2, <2>5, ReadChanges
      <3>3. call'.ret = 0 /\ n \in 1 .. WORD \div 2 - 1 =>
              /\ files'[fd].type = "reg" => files'[fd].pos = Inode(files'[fd].inode).file_size
              /\ files'[fd].type = "dir" => files'[fd].pos = Len(image.dentries)
        BY <2>2, <2>5, ReadChanges
      <3>4. NoEarlyEnd'
        BY <2>1, <3>2, <3>3 DEF NoEarlyEnd, Inode
      <3>5. OpenByName'
        BY <3>2 DEF OpenByName
      <3> QED
        BY <3>1, <3>4, <3>5
    <2>6. ASSUME NEW fd \in Fds \cup {TASK_MAX_FILES}, Close(fd)
          PROVE  /\ UNCHANGED <<files, got>> \/ \E f, new, g : Changes(f, new, g)
                 /\ NoEarlyEnd' /\ OpenByName'
      <3>1. UNCHANGED <<files, got>> \/ \E f, new, g : Changes(f, new, g)
        BY <2>2, <2>6, CloseChanges
      <3>2. call'.op = "close"
        BY <2>2, <2>6, CloseChanges
      <3> QED
        BY <3>1, <3>2 DEF NoEarlyEnd, OpenByName
    <2> QED
      BY <1>1, <2>4, <2>5, <2>6 DEF AnyCall
  <1>2. CASE Program
    <2>1. prog # "any" /\ prog' = prog /\ call' = call
      BY <1>2 DEF Program, Cat, Ls, Grep, fixed
    <2>2. call'.op = "none"
      BY <2>1 DEF FileInv, FilesInv, NoCall
    <2> QED
      BY <2>1, <2>2 DEF FileInv, FilesInv, Streams, ReadSoFar, NoEarlyEnd, OpenByName
  <1>3. CASE UNCHANGED vars
    <2>1. UNCHANGED <<image, files, prog, call, got>>
      BY <1>3 DEF vars
    <2>2. FilesInv'
      BY <2>1 DEF FileInv, FilesInv, Inode
    <2>3. ReadSoFar'
      BY <2>1 DEF FileInv, Streams, ReadSoFar, Inode, Content, ByteAt
    <2>4. NoEarlyEnd'
      BY <2>1 DEF FileInv, Streams, NoEarlyEnd, Inode
    <2>5. OpenByName'
      BY <2>1 DEF FileInv, OpenByName, Entries
    <2> QED
      BY <2>2, <2>3, <2>4, <2>5 DEF FileInv, Streams
  <1> QED
    BY <1>1, <1>2, <1>3 DEF Next

\* The inductive invariant.
LEMMA FileInvariant == Spec => []FileInv
  BY FileInit, FileStep, PTL DEF Spec

\* Whatever a process opens, reads and closes, in pieces of whatever length
\* and over whatever blocks: read_data and fs_dir_read give it the file from
\* the start, byte by byte, and 0 only at its end.
THEOREM FilesStream == Spec => []Streams
  <1>1. FileInv => Streams
    BY DEF FileInv
  <1> QED
    BY <1>1, FileInvariant, PTL

\* read_dentry_by_name, with strncmp and fn_length, finds exactly the file
\* whose name is asked for, cut to the length of a name, and syscall_open
\* fails only without one or with a full table.
THEOREM FoundByName == Spec => []OpenByName
  <1>1. FileInv => OpenByName
    BY DEF FileInv
  <1> QED
    BY <1>1, FileInvariant, PTL

----------------------------------------------------------------------------
(***************************************************************************)
(* cat and ls.                                                             *)
(***************************************************************************)
\* Sequences of sequences, one after the other: f[n] is what the first n give.
Collects(f, s) == f[0] = <<>> /\ \A n \in 1 .. Len(s) : f[n] = f[n - 1] \o s[n]

\* FlattenSeq joins them.
LEMMA FlattenIs ==
    ASSUME NEW S, NEW s \in Seq(Seq(S))
    PROVE  \E f \in [0 .. Len(s) -> Seq(S)] : Collects(f, s) /\ FlattenSeq(s) = f[Len(s)]
  <1>0. PICK N \in Nat : N = Len(s)
    OBVIOUS
  <1> DEFINE D == [p \in Nat \X Seq(S) |-> IF p[1] \in 1 .. N THEN p[2] \o s[p[1]] ELSE p[2]]
             Is(g) == g = [i \in 1 .. N |-> IF i = 1 THEN s[i] ELSE g[i - 1] \o s[i]]
             flatten == CHOOSE g : Is(g)
  <1>1. \A n \in 1 .. N : s[n] \in Seq(S)
    BY <1>0
  <1>2. D \in [Nat \X Seq(S) -> Seq(S)]
    BY <1>1
  <1>3. ASSUME NEW n \in 1 .. N, NEW b \in Seq(S) PROVE D[<<n, b>>] = b \o s[n]
    <2>1. PICK p \in Nat \X Seq(S) : p = <<n, b>> /\ p[1] = n /\ p[2] = b
      <3>1. PICK L : L = Seq(S)
        OBVIOUS
      <3>2. <<n, b>> \in Nat \X L
        <4>1. n \in Nat /\ b \in L
          BY <1>0, <3>1
        <4> QED
          BY <4>1
      <3> QED
        BY <3>1, <3>2
    <2>2. D[p] = p[2] \o s[p[1]]
      BY <2>1
    <2> QED
      BY <2>1, <2>2, Zenon
  <1> HIDE DEF D
  <1>4. PICK f \in [0 .. N -> Seq(S)] : Iterates(f, N, <<>>, D)
    <2>1. <<>> \in Seq(S)
      OBVIOUS
    <2> QED
      BY <1>0, <1>2, <2>1, Recursion
  <1>5. f[0] = <<>> /\ \A n \in 1 .. N : f[n - 1] \in Seq(S) /\ f[n] = f[n - 1] \o s[n]
    <2>1. ASSUME NEW n \in 1 .. N PROVE f[n - 1] \in Seq(S) /\ f[n] = f[n - 1] \o s[n]
      <3>1. n - 1 \in 0 .. N
        BY <1>0
      <3>2. f[n] = D[<<n, f[n - 1]>>] /\ f[n - 1] \in Seq(S)
        BY <1>4, <3>1 DEF Iterates
      <3> QED
        BY <1>3, <3>2
    <2> QED
      BY <1>4, <2>1 DEF Iterates
  <1> DEFINE h == [i \in 1 .. N |-> f[i]]
  <1>6. Is(h)
    <2>1. ASSUME NEW i \in 1 .. N PROVE h[i] = IF i = 1 THEN s[i] ELSE h[i - 1] \o s[i]
      <3>1. CASE i = 1
        <4>1. f[1] = f[0] \o s[1] /\ s[1] \in Seq(S)
          <5>1. 1 \in 1 .. N /\ 1 - 1 = 0
            BY <3>1
          <5>2. f[1] = f[1 - 1] \o s[1]
            BY <1>5, <5>1, Zenon
          <5> QED
            BY <1>1, <5>1, <5>2
        <4>2. <<>> \o s[1] = s[1]
          BY <4>1, ConcatEmptySeq
        <4> QED
          BY <1>5, <3>1, <4>1, <4>2
      <3>2. CASE i # 1
        <4>1. i - 1 \in 1 .. N
          BY <1>0, <3>2
        <4> QED
          BY <1>5, <3>2, <4>1
      <3> QED
        BY <3>1, <3>2
    <2> QED
      BY <2>1
  <1>7. Is(flatten)
    <2> HIDE DEF h
    <2> QED
      BY <1>6
  <1>8. CASE N = 0
    <2>1. s = <<>>
      BY <1>0, <1>8, EmptySeq
    <2>2. FlattenSeq(s) = s
      BY <1>0, <1>8 DEF FlattenSeq
    <2> QED
      BY <1>0, <1>4, <1>5, <1>8, <2>1, <2>2 DEF Collects
  <1>9. CASE N # 0
    <2>1. FlattenSeq(s) = flatten[N]
      BY <1>0, <1>9 DEF FlattenSeq
    <2> HIDE DEF flatten
    <2> DEFINE T == {n \in 0 .. N : n # 0 => flatten[n] = f[n]}
    <2>2. 0 \in T
      BY <1>0
    <2>3. ASSUME NEW n \in 0 .. N - 1, n \in T PROVE n + 1 \in T
      <3>1. n + 1 \in 1 .. N /\ (n + 1) - 1 = n
        BY <1>0
      <3>2. flatten[n + 1] = IF n + 1 = 1 THEN s[n + 1] ELSE flatten[n] \o s[n + 1]
        BY <1>7, <3>1
      <3>3. f[n + 1] = f[n] \o s[n + 1]
        BY <1>5, <3>1
      <3>4. CASE n = 0
        <4>1. <<>> \o s[1] = s[1]
          <5>1. s[1] \in Seq(S)
            BY <1>1, <3>1, <3>4
          <5> QED
            BY <5>1, ConcatEmptySeq
        <4>2. n + 1 = 1 /\ n + 1 \in 0 .. N /\ f[n] = <<>>
          BY <1>5, <3>1, <3>4
        <4>3. flatten[n + 1] = f[n + 1]
          BY <3>2, <3>3, <4>1, <4>2, Zenon
        <4> QED
          BY <4>2, <4>3
      <3>5. CASE n # 0
        <4>1. flatten[n] = f[n] /\ n + 1 # 1 /\ n + 1 \in 0 .. N
          BY <2>3, <3>1, <3>5
        <4>2. flatten[n + 1] = f[n + 1]
          BY <3>2, <3>3, <4>1, Zenon
        <4> QED
          BY <4>1, <4>2
      <3> QED
        BY <3>4, <3>5
    <2>4. 0 .. N \subseteq T
      <3> HIDE DEF T
      <3> QED
        BY <1>0, <2>2, <2>3, UpTo
    <2>5. flatten[N] = f[N]
      BY <1>0, <1>9, <2>4
    <2> QED
      BY <1>0, <1>4, <1>5, <2>1, <2>5 DEF Collects
  <1> QED
    BY <1>8, <1>9

\* One sequence more.
LEMMA FlattenMore ==
    ASSUME NEW S, NEW s \in Seq(Seq(S)), NEW e \in Seq(S)
    PROVE  /\ FlattenSeq(s) \in Seq(S)
           /\ FlattenSeq(Append(s, e)) = FlattenSeq(s) \o e
  <1>0. PICK N \in Nat : N = Len(s)
    OBVIOUS
  <1>1. PICK t : t = Append(s, e)
    OBVIOUS
  <1>2. t \in Seq(Seq(S)) /\ Len(t) = N + 1 /\ t[N + 1] = e /\ \A n \in 1 .. N : t[n] = s[n]
    BY <1>0, <1>1
  <1>3. PICK f \in [0 .. N -> Seq(S)] : Collects(f, s) /\ FlattenSeq(s) = f[N]
    BY <1>0, FlattenIs
  <1>4. PICK g \in [0 .. N + 1 -> Seq(S)] : Collects(g, t) /\ FlattenSeq(t) = g[N + 1]
    BY <1>2, FlattenIs
  <1> DEFINE T == {n \in 0 .. N : f[n] = g[n]}
  <1>5. 0 .. N \subseteq T
    <2>1. 0 \in T
      BY <1>0, <1>3, <1>4 DEF Collects
    <2>2. ASSUME NEW n \in 0 .. N - 1, n \in T PROVE n + 1 \in T
      <3>1. n + 1 \in 1 .. N /\ n + 1 \in 1 .. N + 1 /\ (n + 1) - 1 = n /\ f[n] = g[n]
        BY <1>0, <2>2
      <3>2. f[n + 1] = f[n] \o s[n + 1]
        BY <1>0, <1>3, <3>1 DEF Collects
      <3>3. g[n + 1] = g[n] \o t[n + 1]
        BY <1>2, <1>4, <3>1 DEF Collects
      <3>4. t[n + 1] = s[n + 1] /\ n + 1 \in 0 .. N
        BY <1>2, <3>1
      <3>5. f[n + 1] = g[n + 1]
        BY <3>1, <3>2, <3>3, <3>4, Zenon
      <3> QED
        BY <3>4, <3>5
    <2> HIDE DEF T
    <2> QED
      BY <1>0, <2>1, <2>2, UpTo
  <1>6. f[N] = g[N]
    BY <1>0, <1>5
  <1>7. g[N + 1] = g[N] \o t[N + 1]
    <2>1. N + 1 \in 1 .. N + 1 /\ (N + 1) - 1 = N
      BY <1>0
    <2> QED
      BY <1>2, <1>4, <2>1 DEF Collects
  <1> QED
    BY <1>0, <1>1, <1>2, <1>3, <1>4, <1>6, <1>7

\* An open fails, or takes a descriptor for an entry with the name.
LEMMA OpenIs ==
    ASSUME image \in Images, NEW t, NEW name, Name(name)
    PROVE  \/ syscall_open(t, name) = [ret |-> -1, files |-> t]
           \/ \E fd \in Fds, k \in Called(name) :
                 /\ fd # -1
                 /\ syscall_open(t, name) =
                      [ret |-> fd, files |-> [t EXCEPT ![fd] = OpenedFile(image.dentries[k])]]
  <1> DEFINE entry == read_dentry_by_name(name)
             free == {fd \in Fds : ~t[fd].used}
  <1>1. syscall_open(t, name) =
           IF entry = 0 \/ free = {} THEN [ret |-> -1, files |-> t]
           ELSE [ret |-> Min(free), files |-> [t EXCEPT ![Min(free)] = OpenedFile(image.dentries[entry])]]
    BY DEF syscall_open
  <1>2. entry # 0 => entry \in Called(name)
    BY Lookup
  <1>3. free \subseteq Fds /\ free \subseteq Nat
    BY DEF Fds
  <1> HIDE DEF entry, free
  <1>4. ASSUME free # {} PROVE Min(free) \in Fds /\ Min(free) # -1
    <2>1. PICK m : m = Min(free)
      OBVIOUS
    <2>2. m \in free
      BY <1>3, <1>4, <2>1, MinIs
    <2>3. m \in Fds /\ m \in Nat /\ m # -1
      BY <1>3, <2>2
    <2> QED
      BY <2>1, <2>3
  <1> QED
    BY <1>1, <1>2, <1>4

\* The entry found has the name.
LEMMA EntryOpened ==
    ASSUME image \in Images, NEW name, NEW k \in Called(name)
    PROVE  /\ k \in Entries /\ OpenedFile(image.dentries[k]) \in FileSet
           /\ FileOK(OpenedFile(image.dentries[k]))
           /\ OpenedFile(image.dentries[k]).used
           /\ OpenedFile(image.dentries[k]).type = image.dentries[k].filetype
           /\ image.dentries[k].filetype # "rtc" =>
                 /\ OpenedFile(image.dentries[k]).inode = image.dentries[k].inode_num
                 /\ OpenedFile(image.dentries[k]).pos = 0
           /\ image.dentries[k] \in Range(image.dentries)
           /\ Characters(image.dentries[k].filename) = Characters(name)
  <1>1. PICK d : d = image.dentries[k]
    OBVIOUS
  <1>2. k \in Entries /\ Characters(d.filename) = Characters(name)
    BY <1>1 DEF Called
  <1>3. /\ d.filetype \in {"rtc", "dir", "reg"} /\ d.inode_num \in Nat
        /\ d.filetype = "reg" => d.inode_num < Len(image.inodes)
    BY <1>1, <1>2, Dentries
  <1>4. d \in Range(image.dentries)
    BY <1>1, <1>2 DEF Entries, Range
  <1>5. /\ OpenedFile(d) \in FileSet /\ FileOK(OpenedFile(d))
        /\ OpenedFile(d).used /\ OpenedFile(d).type = d.filetype
        /\ OpenedFile(d).type # "rtc" => OpenedFile(d).inode = d.inode_num /\ OpenedFile(d).pos = 0
    BY <1>3, NewFile
  <1> QED
    BY <1>1, <1>2, <1>4, <1>5

\* The line ls prints for an entry, and the first lines.
Line(k) == Append(Characters(image.dentries[k].filename), NL)
FirstLines(n) == [k \in 1 .. n |-> Line(k)]

\* One line more.
LEMMA LinesGrow ==
    ASSUME image \in Images, NEW n \in Nat, n + 1 \in Entries
    PROVE  FlattenSeq(FirstLines(n)) \o Line(n + 1) = FlattenSeq(FirstLines(n + 1))
  <1> DEFINE S == UNION {Range(Line(k)) : k \in 1 .. n + 1}
  <1>1. ASSUME NEW k \in 1 .. n + 1 PROVE Line(k) \in Seq(S)
    <2>1. k \in Entries
      BY Dentries
    <2>2. PICK c : c = Characters(image.dentries[k].filename)
      OBVIOUS
    <2>3. \E A : c \in Seq(A)
      <3>1. Name(image.dentries[k].filename)
        BY <2>1, Dentries, NamesAre
      <3> QED
        BY <2>2, <3>1, CharactersAre
    <2>4. PICK A : c \in Seq(A)
      BY <2>3
    <2>5. Line(k) \in Seq(A \cup {NL})
      <3>1. c \in Seq(A \cup {NL}) /\ NL \in A \cup {NL}
        BY <2>4
      <3>2. Append(c, NL) \in Seq(A \cup {NL})
        BY <3>1
      <3> QED
        BY <2>2, <3>2 DEF Line
    <2>6. PICK l : l = Line(k)
      OBVIOUS
    <2>7. l \in Seq(Range(l))
      BY <2>5, <2>6 DEF Range
    <2>8. Range(l) \subseteq S
      BY <2>6
    <2> HIDE DEF S
    <2>9. l \in Seq(S)
      BY <2>7, <2>8
    <2> QED
      BY <2>6, <2>9
  <1> HIDE DEF S
  <1>2. FirstLines(n) \in Seq(Seq(S)) /\ Len(FirstLines(n)) = n
    BY <1>1 DEF FirstLines
  <1>3. FirstLines(n + 1) \in Seq(Seq(S)) /\ Len(FirstLines(n + 1)) = n + 1
    BY <1>1 DEF FirstLines
  <1>4. PICK s, t, e : s = FirstLines(n) /\ t = FirstLines(n + 1) /\ e = Line(n + 1)
    OBVIOUS
  <1>5. e \in Seq(S) /\ t[n + 1] = e /\ \A k \in 1 .. n : t[k] = s[k]
    BY <1>1, <1>4 DEF FirstLines
  <1>6. t = Append(s, e)
    <2>1. Append(s, e) \in Seq(Seq(S)) /\ Len(Append(s, e)) = n + 1
      BY <1>2, <1>4, <1>5
    <2>2. ASSUME NEW k \in 1 .. n + 1 PROVE t[k] = Append(s, e)[k]
      <3>1. Append(s, e)[k] = IF k = n + 1 THEN e ELSE s[k]
        BY <1>2, <1>4, <1>5
      <3> QED
        BY <1>5, <3>1
    <2> QED
      BY <1>3, <1>4, <2>1, <2>2, SeqEqual
  <1>7. FlattenSeq(Append(s, e)) = FlattenSeq(s) \o e
    BY <1>2, <1>4, <1>5, FlattenMore
  <1> QED
    BY <1>4, <1>6, <1>7, Zenon

\* The file cat and ls have open: entry k.
HasOpen(k) ==
    /\ v.dir \in Fds /\ files \in [Fds -> FileSet]
    /\ files[v.dir].used /\ files[v.dir].type = image.dentries[k].filetype
    /\ files[v.dir].inode = image.dentries[k].inode_num /\ FileOK(files[v.dir])

\* cat has printed the file, and ls the names, as far as the position says.
CatAt(k) ==
    LET C == Content(Inode(image.dentries[k].inode_num))
    IN  /\ out = SubSeq(C, 1, files[v.dir].pos)
        /\ pc = "exit0" => files[v.dir].pos = Len(C)
LsAt ==
    /\ out = FlattenSeq(FirstLines(files[v.dir].pos))
    /\ pc = "exit0" => files[v.dir].pos = Len(image.dentries)

CatInv ==
    /\ pc = "start" => out = <<>> /\ files \in [Fds -> FileSet]
    /\ pc \in {"read", "exit0"} => \E k \in Called(args) :
          image.dentries[k].filetype = "reg" => HasOpen(k) /\ CatAt(k)
LsInv ==
    /\ pc = "start" => out = <<>> /\ files \in [Fds -> FileSet]
    /\ pc \in {"read", "exit0"} => \E k \in Called(<<DOT, NUL>>) : HasOpen(k) /\ LsAt

\* The inductive invariant of the programs.
ToolInv ==
    /\ image \in Images /\ args \in Args /\ "dir" \in DOMAIN v
    /\ prog = "cat" => CatInv
    /\ prog = "ls" => LsInv

\* The strings that are opened.
LEMMA OpenedNames ==
    /\ \A a \in Args : a # <<>> => Name(a)
    /\ Name(<<DOT, NUL>>) /\ Characters(<<DOT, NUL>>) = <<DOT>>
  <1>1. ASSUME NEW a \in Args, a # <<>> PROVE Name(a)
    <2>1. a \in Seq(Range(a)) /\ a # <<>> /\ a[Len(a)] = NUL
      BY <1>1, ToolsAssumption DEF IsSequence
    <2>2. Len(a) \in 1 .. Len(a)
      BY <2>1
    <2> QED
      BY <2>1, <2>2 DEF Name
  <1>2. PICK s : s = <<DOT, NUL>>
    OBVIOUS
  <1>3. s \in Seq({DOT, NUL}) /\ Len(s) = 2 /\ s[1] = DOT /\ s[2] = NUL
    BY <1>2
  <1>4. Name(s)
    <2>1. s \in Seq(Range(s))
      BY <1>3 DEF Range
    <2>2. 2 \in 1 .. Len(s)
      BY <1>3
    <2> QED
      BY <1>3, <2>1, <2>2 DEF Name
  <1>5. Characters(s) = <<DOT>>
    <2>1. MAX_NAME_LENGTH \in Nat \ {0} /\ DOT # NUL
      BY FileSysAssumption, ToolsAssumption
    <2>2. PICK n : n = fn_length(s)
      OBVIOUS
    <2>3. /\ n \in 0 .. MAX_NAME_LENGTH /\ n <= 2 /\ \A i \in 1 .. n : s[i] # NUL
          /\ n = MAX_NAME_LENGTH \/ s[n + 1] = NUL
      BY <1>3, <1>4, <2>2, FnLength
    <2>4. n # 0
      BY <1>3, <2>1, <2>3
    <2>5. n # 2
      BY <1>3, <2>3
    <2>6. n = 1
      BY <2>1, <2>3, <2>4, <2>5
    <2>7. PICK c : c = Characters(s)
      OBVIOUS
    <2>8. c \in Seq(Range(s)) /\ Len(c) = 1 /\ c[1] = DOT
      <3>1. c \in Seq(Range(s)) /\ Len(c) = n /\ \A i \in 1 .. n : c[i] = s[i]
        BY <1>4, <2>2, <2>7, CharactersAre
      <3>2. 1 \in 1 .. n
        BY <2>6
      <3> QED
        BY <1>3, <2>6, <3>1, <3>2
    <2>9. c = <<DOT>>
      BY <2>8
    <2> QED
      BY <2>7, <2>9
  <1> QED
    BY <1>1, <1>2, <1>4, <1>5

\* A program that opens its file has read nothing of it.
LEMMA ToolOpens ==
    ASSUME image \in Images, "dir" \in DOMAIN v, out = <<>>, files \in [Fds -> FileSet],
           NEW name, Name(name), NEW code, code \notin {"start", "read", "exit0"},
           Begin(name, code), image' = image
    PROVE  \/ pc' \notin {"start", "read", "exit0"}
           \/ /\ pc' = "read" /\ out' = <<>>
              /\ \E k \in Called(name) : image.dentries[k].filetype # "rtc" =>
                    HasOpen(k)' /\ files'[v'.dir].pos = 0
  <1>1. CASE syscall_open(files, name) = [ret |-> -1, files |-> files]
    <2>1. pc' = code
      BY <1>1 DEF Begin, Exit
    <2> QED
      BY <2>1
  <1>2. ASSUME NEW fd \in Fds, NEW k \in Called(name), fd # -1,
               syscall_open(files, name) =
                  [ret |-> fd, files |-> [files EXCEPT ![fd] = OpenedFile(image.dentries[k])]]
        PROVE  /\ pc' = "read" /\ out' = <<>>
               /\ image.dentries[k].filetype # "rtc" => HasOpen(k)' /\ files'[v'.dir].pos = 0
    <2>1. PICK new : new = OpenedFile(image.dentries[k])
      OBVIOUS
    <2>2. new \in FileSet /\ FileOK(new)
      BY <2>1, EntryOpened
    <2>3. /\ new.used /\ new.type = image.dentries[k].filetype
          /\ image.dentries[k].filetype # "rtc" =>
                new.inode = image.dentries[k].inode_num /\ new.pos = 0
      BY <2>1, EntryOpened
    <2>4. PICK r : r = syscall_open(files, name)
      OBVIOUS
    <2>5. r.ret = fd /\ r.files = [files EXCEPT ![fd] = new]
      BY <1>2, <2>1, <2>4
    <2>6. /\ files' = [files EXCEPT ![fd] = new] /\ pc' = "read"
          /\ v' = [v EXCEPT !.dir = fd] /\ out' = out
      BY <1>2, <2>4, <2>5 DEF Begin
    <2>7. v'.dir = fd /\ files'[fd] = new /\ files' \in [Fds -> FileSet]
      BY <2>2, <2>6
    <2>8. FileOK(new)'
      BY <2>2 DEF FileOK, Inode
    <2>9. image.dentries[k].filetype # "rtc" => HasOpen(k)'
      BY <2>3, <2>7, <2>8 DEF HasOpen, FileOK, Inode
    <2> QED
      BY <2>3, <2>6, <2>7, <2>9
  <1>3. \/ syscall_open(files, name) = [ret |-> -1, files |-> files]
        \/ \E fd \in Fds, k \in Called(name) :
             /\ fd # -1
             /\ syscall_open(files, name) =
                  [ret |-> fd, files |-> [files EXCEPT ![fd] = OpenedFile(image.dentries[k])]]
    BY OpenIs
  <1> QED
    BY <1>1, <1>2, <1>3

\* Only the position of the open file moves.
LEMMA OpenKept ==
    ASSUME NEW k, HasOpen(k), image' = image, v' = v, NEW p \in Nat,
           files' = [files EXCEPT ![v.dir] = [files[v.dir] EXCEPT !.pos = p]],
           files[v.dir].type = "reg" => p <= Inode(files[v.dir].inode).file_size,
           files[v.dir].type = "dir" => p <= Len(image.dentries)
    PROVE  HasOpen(k)' /\ files'[v'.dir].pos = p
  <1>1. PICK file \in FileSet : file = files[v.dir]
    BY DEF HasOpen
  <1>2. PICK new : new = [file EXCEPT !.pos = p]
    OBVIOUS
  <1>3. /\ new \in FileSet /\ new.used = file.used /\ new.type = file.type
        /\ new.inode = file.inode /\ new.pos = p
    BY <1>2, PositionMoves
  <1>4. v.dir \in Fds /\ files \in [Fds -> FileSet]
    BY DEF HasOpen
  <1>5. files' = [files EXCEPT ![v.dir] = new]
    BY <1>1, <1>2
  <1>6. files'[v.dir] = new /\ files' \in [Fds -> FileSet]
    BY <1>3, <1>4, <1>5
  <1>7. FileOK(new)'
    BY <1>1, <1>3 DEF HasOpen, FileOK, Inode
  <1>8. FileOK(files[v.dir])'
    BY <1>6, <1>7 DEF FileOK, Inode
  <1>9. file.used /\ file.type = image.dentries[k].filetype /\ file.inode = image.dentries[k].inode_num
    BY <1>1 DEF HasOpen
  <1> QED
    BY <1>3, <1>4, <1>6, <1>8, <1>9 DEF HasOpen

\* Init is where the programs begin.
LEMMA ToolInit == Init => ToolInv
  <1> SUFFICES ASSUME Init PROVE ToolInv
    OBVIOUS
  <1>1. image \in Images /\ args \in Args /\ pc = "start" /\ out = <<>>
        /\ files = [fd \in Fds |-> NoFile] /\ "dir" \in DOMAIN v
    BY DEF Init
  <1>2. NoFile \in FileSet
    BY DEF NoFile, FileSet
  <1>3. files \in [Fds -> FileSet]
    BY <1>1, <1>2
  <1> QED
    BY <1>1, <1>3 DEF ToolInv, CatInv, LsInv

\* A step of cat.
LEMMA CatStep ==
    ASSUME ToolInv, Cat
    PROVE  ToolInv'
  <1>1. /\ prog = "cat" /\ prog' = prog /\ image' = image /\ args' = args
        /\ image \in Images /\ args \in Args /\ "dir" \in DOMAIN v /\ CatInv
    BY DEF ToolInv, Cat, fixed
  <1> SUFFICES CatInv' /\ "dir" \in DOMAIN v'
    BY <1>1 DEF ToolInv
  <1>2. CASE pc = "start"
    <2>1. CatStart
      BY <1>2 DEF Cat
    <2>2. CASE syscall_getargs(BUFSIZE) # 0
      BY <1>1, <2>1, <2>2 DEF CatStart, Exit, CatInv
    <2>3. CASE syscall_getargs(BUFSIZE) = 0
      <3>1. args # <<>> /\ Begin(args, "exit2")
        BY <2>1, <2>3 DEF CatStart, syscall_getargs
      <3>2. Name(args)
        BY <1>1, <3>1, OpenedNames
      <3>3. \/ pc' \notin {"start", "read", "exit0"}
            \/ /\ pc' = "read" /\ out' = <<>>
               /\ \E k \in Called(args) : image.dentries[k].filetype # "rtc" =>
                     HasOpen(k)' /\ files'[v'.dir].pos = 0
        BY <1>1, <1>2, <3>1, <3>2, ToolOpens DEF CatInv
      <3>4. "dir" \in DOMAIN v'
        BY <1>1, <3>1 DEF Begin, Exit
      <3>5. ASSUME pc' = "read", out' = <<>>, NEW k \in Called(args),
                   image.dentries[k].filetype # "rtc" => HasOpen(k)' /\ files'[v'.dir].pos = 0
            PROVE  image.dentries[k].filetype = "reg" => (HasOpen(k) /\ CatAt(k))'
        <4> SUFFICES ASSUME image.dentries[k].filetype = "reg" PROVE CatAt(k)'
          BY <3>5
        <4>1. PICK num \in Nat : num = image.dentries[k].inode_num /\ num < Len(image.inodes)
          BY <1>1, EntryOpened, Dentries
        <4>2. Inode(num).file_size \in Nat
          BY <1>1, <4>1, SizeIs
        <4>3. SubSeq(Content(Inode(num)), 1, 0) = <<>>
          BY <4>2, ContentIs
        <4> QED
          BY <1>1, <3>5, <4>1, <4>3 DEF CatAt, Content, Inode, ByteAt
      <3>6. (Called(args))' = Called(args)
        BY <1>1 DEF Called, Entries
      <3> QED
        BY <1>1, <3>3, <3>4, <3>5, <3>6 DEF CatInv
    <2> QED
      BY <2>2, <2>3
  <1>3. CASE pc = "read"
    <2>1. PICK k \in Called(args) : image.dentries[k].filetype = "reg" => HasOpen(k) /\ CatAt(k)
      BY <1>1, <1>3 DEF CatInv
    <2>2. PICK r : r = syscall_read(files, v.dir, BUFSIZE)
      OBVIOUS
    <2>3. Copy(r, SubSeq(r.bytes, 1, r.ret))
      BY <1>3, <2>2 DEF Cat
    <2>4. v' = v /\ pc' \in {"read", "exit0", "exit3"}
      BY <1>3, <2>3 DEF Copy, CopyUnless, Exit
    <2>5. Called(args)' = Called(args)
      BY <1>1 DEF Called, Entries
    <2>6. SUFFICES ASSUME image.dentries[k].filetype = "reg"
                   PROVE  HasOpen(k)' /\ CatAt(k)'
      BY <1>1, <2>4, <2>5 DEF CatInv
    <2>7. PICK file \in FileSet : file = files[v.dir]
      BY <2>1, <2>6 DEF HasOpen
    <2>8. /\ v.dir \in Fds /\ file.used /\ file.type = "reg" /\ FileOK(file)
          /\ file.inode = image.dentries[k].inode_num
      BY <2>1, <2>6, <2>7 DEF HasOpen
    <2>9. PICK C : C = Content(Inode(file.inode))
      OBVIOUS
    <2>10. out = SubSeq(C, 1, file.pos)
      BY <2>1, <2>6, <2>7, <2>8, <2>9 DEF CatAt
    <2>11. CatAt(k)' <=> /\ out' = SubSeq(C, 1, files'[v'.dir].pos)
                         /\ pc' = "exit0" => files'[v'.dir].pos = Len(C)
      BY <1>1, <2>8, <2>9 DEF CatAt, Content, Inode, ByteAt
    <2>12. BUFSIZE \in 0 .. WORD - 1 /\ BUFSIZE \in 1 .. WORD \div 2 - 1
      BY ToolsAssumption, ImageAssumption
    <2>13. C \in Seq(Range(C)) /\ Len(C) = Inode(file.inode).file_size /\ file.pos \in 0 .. Len(C)
      BY <1>1, <2>7, <2>8, <2>9, <2>12, FileReads
    <2>14. PICK len \in 0 .. Len(C) - file.pos :
              /\ r = [ret |-> len, bytes |-> Part(C, file.pos, len),
                      files |-> [files EXCEPT ![v.dir] = [file EXCEPT !.pos = file.pos + len]]]
              /\ Len(Part(C, file.pos, len)) = len
              /\ SubSeq(C, 1, file.pos) \o Part(C, file.pos, len) = SubSeq(C, 1, file.pos + len)
              /\ len = 0 => file.pos = Len(C)
      <3>1. \E len \in 0 .. Len(C) - file.pos : ReadsPart(files, v.dir, file, BUFSIZE, C, len)
        BY <1>1, <2>7, <2>8, <2>9, <2>12, FileReads
      <3> QED
        BY <2>2, <2>12, <3>1, Zenon DEF ReadsPart
    <2>15. CASE len = 0
      <3>1. pc' = "exit0" /\ files' = files /\ out' = out
        BY <2>3, <2>14, <2>15 DEF Copy, CopyUnless, Exit
      <3>2. HasOpen(k)'
        BY <1>1, <2>1, <2>4, <2>6, <3>1 DEF HasOpen, FileOK, Inode
      <3> QED
        BY <2>4, <2>7, <2>10, <2>11, <2>14, <2>15, <3>1, <3>2
    <2>16. CASE len # 0
      <3>1. PICK p \in Nat : p = file.pos + len /\ p <= Len(C)
        BY <2>13, <2>14
      <3>2. r.ret = len /\ r.ret # -1 /\ r.bytes = Part(C, file.pos, len)
            /\ r.files = [files EXCEPT ![v.dir] = [file EXCEPT !.pos = p]]
        BY <2>14, <3>1
      <3>3. /\ files' = [files EXCEPT ![v.dir] = [files[v.dir] EXCEPT !.pos = p]]
            /\ out' = out \o SubSeq(r.bytes, 1, r.ret) /\ pc' = pc
        BY <2>3, <2>7, <2>16, <3>2 DEF Copy, CopyUnless
      <3>4. SubSeq(r.bytes, 1, r.ret) = r.bytes
        <4>1. PICK b : b = Part(C, file.pos, len)
          OBVIOUS
        <4>2. b \in Seq(Range(C)) /\ Len(b) = len
          <5>1. ASSUME NEW i \in 1 .. len PROVE C[file.pos + i] \in Range(C)
            <6>1. file.pos + i \in 1 .. Len(C)
              BY <2>13, <2>14
            <6> QED
              BY <2>13, <6>1
          <5>2. b \in [1 .. len -> Range(C)]
            BY <4>1, <5>1 DEF Part
          <5>3. len \in Nat
            BY <2>13, <2>14
          <5> QED
            BY <5>2, <5>3
        <4>3. SubSeq(b, 1, Len(b)) = b
          BY <4>2
        <4> QED
          BY <3>2, <4>1, <4>2, <4>3
      <3>5. out' = SubSeq(C, 1, p)
        BY <2>10, <2>14, <3>1, <3>2, <3>3, <3>4
      <3>6. HasOpen(k)' /\ files'[v'.dir].pos = p
        <4>1. files[v.dir].type = "reg" /\ p <= Inode(files[v.dir].inode).file_size
          BY <2>7, <2>8, <2>13, <3>1
        <4> QED
          BY <1>1, <2>1, <2>4, <2>6, <3>1, <3>3, <4>1, OpenKept
      <3> QED
        BY <1>3, <2>11, <3>3, <3>5, <3>6
    <2> QED
      BY <2>15, <2>16
  <1> QED
    BY <1>2, <1>3 DEF Cat

\* A step of ls.
LEMMA LsStep ==
    ASSUME ToolInv, Ls
    PROVE  ToolInv'
  <1>1. /\ prog = "ls" /\ prog' = prog /\ image' = image /\ args' = args
        /\ image \in Images /\ args \in Args /\ "dir" \in DOMAIN v /\ LsInv
    BY DEF ToolInv, Ls, fixed
  <1> SUFFICES LsInv' /\ "dir" \in DOMAIN v'
    BY <1>1 DEF ToolInv
  <1>2. PICK dot : dot = <<DOT, NUL>> /\ Name(dot) /\ Characters(dot) = <<DOT>>
    BY OpenedNames
  <1>3. Called(dot)' = Called(dot)
    BY <1>1 DEF Called, Entries
  <1>4. CASE pc = "start"
    <2>1. Begin(dot, "exit2")
      BY <1>2, <1>4 DEF Ls
    <2>2. \/ pc' \notin {"start", "read", "exit0"}
          \/ /\ pc' = "read" /\ out' = <<>>
             /\ \E k \in Called(dot) : HasOpen(k)' /\ files'[v'.dir].pos = 0
      <3>1. \/ pc' \notin {"start", "read", "exit0"}
            \/ /\ pc' = "read" /\ out' = <<>>
               /\ \E k \in Called(dot) : image.dentries[k].filetype # "rtc" =>
                     HasOpen(k)' /\ files'[v'.dir].pos = 0
        BY <1>1, <1>2, <1>4, <2>1, ToolOpens DEF LsInv
      <3>2. \A k \in Called(dot) : image.dentries[k].filetype # "rtc"
        <4>1. \A k \in Called(dot) : /\ image.dentries[k] \in Range(image.dentries)
                                     /\ Characters(image.dentries[k].filename) = <<DOT>>
          BY <1>1, <1>2, EntryOpened
        <4> QED
          BY <1>1, <4>1, ToolsAssumption
      <3> QED
        BY <3>1, <3>2
    <2>3. "dir" \in DOMAIN v'
      BY <1>1, <2>1 DEF Begin, Exit
    <2>4. FlattenSeq(<<>>) = <<>>
      BY DEF FlattenSeq
    <2>5. FirstLines(0)' = <<>>
      BY DEF FirstLines
    <2>6. pc' = "read" /\ out' = <<>> /\ files'[v'.dir].pos = 0 => LsAt'
      BY <2>4, <2>5 DEF LsAt
    <2> QED
      BY <1>1, <1>2, <1>3, <2>2, <2>3, <2>6 DEF LsInv
  <1>5. CASE pc = "read"
    <2>1. PICK k \in Called(dot) : HasOpen(k) /\ LsAt
      BY <1>1, <1>2, <1>5 DEF LsInv
    <2>2. PICK r : r = syscall_read(files, v.dir, MAX_NAME_LENGTH)
      OBVIOUS
    <2>3. Copy(r, Append(SubSeq(r.bytes, 1, r.ret), NL))
      BY <1>5, <2>2 DEF Ls
    <2>4. v' = v /\ pc' \in {"read", "exit0", "exit3"}
      BY <1>5, <2>3 DEF Copy, CopyUnless, Exit
    <2>5. SUFFICES HasOpen(k)' /\ LsAt'
      BY <1>1, <1>2, <1>3, <2>4 DEF LsInv
    <2>6. PICK file \in FileSet : file = files[v.dir]
      BY <2>1 DEF HasOpen
    <2>7. image.dentries[k].filetype = "dir"
      <3>1. image.dentries[k] \in Range(image.dentries)
            /\ Characters(image.dentries[k].filename) = <<DOT>>
        BY <1>1, <1>2, EntryOpened
      <3> QED
        BY <1>1, <3>1, ToolsAssumption
    <2>8. v.dir \in Fds /\ file.used /\ file.type = "dir" /\ FileOK(file)
      BY <2>1, <2>6, <2>7 DEF HasOpen
    <2>9. file.pos \in Nat /\ out = FlattenSeq(FirstLines(file.pos))
      BY <2>1, <2>6 DEF LsAt, FileSet
    <2>10. \A n \in Nat : FirstLines(n)' = FirstLines(n)
      BY <1>1 DEF FirstLines, Line
    <2>11. CASE file.pos = Len(image.dentries)
      <3>1. r.ret = 0
        BY <1>1, <2>2, <2>6, <2>8, <2>11, NamesEnd
      <3>2. pc' = "exit0" /\ files' = files /\ out' = out
        BY <2>3, <3>1 DEF Copy, CopyUnless, Exit
      <3>3. HasOpen(k)'
        BY <1>1, <2>1, <2>4, <3>2 DEF HasOpen, FileOK, Inode
      <3>4. files'[v'.dir].pos = file.pos
        BY <2>4, <2>6, <3>2
      <3>5. LsAt'
        BY <1>1, <2>9, <2>10, <2>11, <3>2, <3>4 DEF LsAt
      <3> QED
        BY <3>3, <3>5
    <2>12. CASE file.pos # Len(image.dentries)
      <3>1. PICK name : name = image.dentries[file.pos + 1].filename
        OBVIOUS
      <3>2. /\ file.pos + 1 \in Entries /\ FileName(name) /\ fn_length(name) \in Nat \ {0}
            /\ r = [ret |-> fn_length(name), bytes |-> name,
                    files |-> [files EXCEPT ![v.dir] = [file EXCEPT !.pos = file.pos + 1]]]
        BY <1>1, <2>2, <2>6, <2>8, <2>12, <3>1, NameReads
      <3>3. PICK p \in Nat : p = file.pos + 1
        BY <2>9
      <3>4. r.ret = fn_length(name) /\ r.bytes = name /\ r.ret # 0 /\ r.ret # -1
            /\ r.files = [files EXCEPT ![v.dir] = [file EXCEPT !.pos = p]]
        BY <3>2, <3>3
      <3>5. /\ files' = [files EXCEPT ![v.dir] = [files[v.dir] EXCEPT !.pos = p]]
            /\ out' = out \o Append(SubSeq(r.bytes, 1, r.ret), NL) /\ pc' = pc
        BY <2>3, <2>6, <3>4 DEF Copy, CopyUnless
      <3>6. Append(SubSeq(r.bytes, 1, r.ret), NL) = Line(p)
        BY <3>1, <3>3, <3>4 DEF Line, Characters
      <3>7. out' = FlattenSeq(FirstLines(p))
        BY <1>1, <2>9, <3>2, <3>3, <3>5, <3>6, LinesGrow
      <3>8. HasOpen(k)' /\ files'[v'.dir].pos = p
        <4>1. files[v.dir].type = "dir" /\ p <= Len(image.dentries)
          BY <1>1, <2>6, <2>8, <3>2, <3>3, Dentries
        <4> QED
          BY <1>1, <2>1, <2>4, <3>3, <3>5, <4>1, OpenKept
      <3>9. LsAt'
        BY <1>5, <2>10, <3>3, <3>5, <3>7, <3>8 DEF LsAt
      <3> QED
        BY <3>8, <3>9
    <2> QED
      BY <2>11, <2>12
  <1> QED
    BY <1>4, <1>5 DEF Ls

\* Every step keeps the invariant of the programs.
LEMMA ToolStep == ToolInv /\ [Next]_vars => ToolInv'
  <1> SUFFICES ASSUME ToolInv, [Next]_vars PROVE ToolInv'
    OBVIOUS
  <1>1. CASE AnyCall
    BY <1>1 DEF AnyCall, fixed, ToolInv
  <1>2. CASE Cat
    BY <1>2, CatStep
  <1>3. CASE Ls
    BY <1>3, LsStep
  <1>4. CASE Grep
    <2>1. prog = "grep" /\ prog' = prog /\ image' = image /\ args' = args
      BY <1>4 DEF Grep, fixed
    <2>2. "dir" \in DOMAIN v'
      BY <1>4 DEF Grep, GrepNext, GrepFill, GrepLine, LineStep, Begin, Exit, ToolInv
    <2> QED
      BY <2>1, <2>2 DEF ToolInv
  <1>5. CASE UNCHANGED vars
    <2>1. UNCHANGED <<image, files, prog, args, pc, out, v>>
      BY <1>5 DEF vars
    <2>2. \A k : (HasOpen(k)' <=> HasOpen(k)) /\ (CatAt(k)' <=> CatAt(k))
      BY <2>1 DEF HasOpen, CatAt, FileOK, Inode, Content, ByteAt
    <2>3. LsAt' <=> LsAt
      BY <2>1 DEF LsAt, FirstLines, Line
    <2>4. \A name : Called(name)' = Called(name)
      BY <2>1 DEF Called, Entries
    <2> QED
      BY <2>1, <2>2, <2>3, <2>4 DEF ToolInv, CatInv, LsInv
  <1> QED
    BY <1>1, <1>2, <1>3, <1>4, <1>5 DEF Next, Program

\* At the end all of it is printed.
LEMMA ToolPrints == ToolInv => PrintsAll
  <1> SUFFICES ASSUME ToolInv, pc = "exit0" PROVE
        /\ prog = "cat" => \A d \in Range(image.dentries) :
              d.filetype = "reg" /\ Characters(d.filename) = Characters(args) =>
                  out = Content(Inode(d.inode_num))
        /\ prog = "ls" =>
              out = FlattenSeq([k \in Entries |-> Append(Characters(image.dentries[k].filename), NL)])
    BY DEF PrintsAll
  <1>1. ASSUME prog = "cat", NEW d \in Range(image.dentries), d.filetype = "reg",
               Characters(d.filename) = Characters(args)
        PROVE  out = Content(Inode(d.inode_num))
    <2>1. PICK k \in Called(args) : image.dentries[k].filetype = "reg" => HasOpen(k) /\ CatAt(k)
      BY <1>1 DEF ToolInv, CatInv
    <2>2. image.dentries[k] = d
      <3>1. /\ image.dentries[k] \in Range(image.dentries)
            /\ Characters(image.dentries[k].filename) = Characters(args)
        BY EntryOpened DEF ToolInv
      <3> QED
        BY <1>1, <3>1, ToolsAssumption DEF ToolInv
    <2>3. PICK num \in Nat : num = d.inode_num /\ num < Len(image.inodes)
      BY <1>1, FileSysAssumption DEF ToolInv
    <2>4. PICK C : C = Content(Inode(num))
      OBVIOUS
    <2>5. out = SubSeq(C, 1, Len(C))
      BY <1>1, <2>1, <2>2, <2>3, <2>4 DEF CatAt
    <2>6. C \in Seq(Range(C))
      <3>1. Inode(num).file_size \in Nat
        BY <2>3, SizeIs DEF ToolInv
      <3> QED
        BY <2>4, <3>1, ContentIs
    <2>7. SubSeq(C, 1, Len(C)) = C
      BY <2>6
    <2> QED
      BY <2>3, <2>4, <2>5, <2>7
  <1>2. ASSUME prog = "ls"
        PROVE  out = FlattenSeq([k \in Entries |-> Append(Characters(image.dentries[k].filename), NL)])
    <2>1. out = FlattenSeq(FirstLines(Len(image.dentries)))
      BY <1>2 DEF ToolInv, LsInv, LsAt
    <2>2. Entries = 1 .. Len(image.dentries)
      BY Dentries DEF ToolInv
    <2> QED
      BY <2>1, <2>2 DEF FirstLines, Line
  <1> QED
    BY <1>1, <1>2

\* Whatever the directory, the file and the size of the buffer: cat has written
\* the whole file to the terminal when it returns 0, and ls the names of all
\* files, each on a line of its own.
THEOREM ProgramsPrintAll == Spec => []PrintsAll
  BY ToolInit, ToolStep, ToolPrints, PTL DEF Spec

----------------------------------------------------------------------------
(***************************************************************************)
(* 2048: a round of the loops of move_tile.                                *)
(***************************************************************************)
Boards == [Tiles -> Nat]
Games == [t : Boards, gain : Nat]

To(dir, i) == Pair(dir, i)[1]
From(dir, i) == Pair(dir, i)[2]

\* The board has 4 to 16 tiles.
LEMMA BoardSizes ==
    /\ ROWS \in 2 .. 4 /\ COLS \in 2 .. 4 /\ ROWS * COLS \in 4 .. 16
    /\ ROWS * COLS - COLS \in 2 .. 12 /\ COLS * (ROWS - 1) = ROWS * COLS - COLS
  <1>1. ROWS \in 2 .. 4 /\ COLS \in 2 .. 4
    BY BoardAssumption
  <1>2. CASE ROWS = 2
    BY <1>1, <1>2
  <1>3. CASE ROWS = 3
    BY <1>1, <1>3
  <1>4. CASE ROWS = 4
    BY <1>1, <1>4
  <1> QED
    BY <1>1, <1>2, <1>3, <1>4

\* The loops have rounds, and end a stride before the last tile.
LEMMA RoundsAre ==
    ASSUME NEW dir \in Directions
    PROVE  /\ Stride(dir) \in 1 .. 4 /\ Rounds(dir) \in Nat \ {0}
           /\ Rounds(dir) + Stride(dir) = ROWS * COLS
           /\ dir \in {"U", "D"} => Stride(dir) = COLS
           /\ dir \in {"L", "R"} => Stride(dir) = 1
  BY BoardSizes DEF Directions, Stride, Rounds

\* Every round has a pair of tiles, a stride apart.
LEMMA PairIs ==
    ASSUME NEW dir \in Directions, NEW i \in 0 .. Rounds(dir) - 1
    PROVE  /\ To(dir, i) \in Tiles /\ From(dir, i) \in Tiles /\ To(dir, i) # From(dir, i)
           /\ dir \in {"U", "L"} => To(dir, i) = i /\ From(dir, i) = i + Stride(dir)
           /\ dir \in {"D", "R"} => To(dir, i) = i + Stride(dir) /\ From(dir, i) = i
  <1>1. /\ Stride(dir) \in 1 .. 4 /\ Rounds(dir) \in Nat \ {0}
        /\ Rounds(dir) + Stride(dir) = ROWS * COLS /\ ROWS * COLS \in Nat
    BY RoundsAre, BoardSizes
  <1>2. i \in Tiles /\ i + Stride(dir) \in Tiles /\ i # i + Stride(dir)
    BY <1>1 DEF Tiles
  <1>3. CASE dir \in {"U", "L"}
    BY <1>2, <1>3 DEF To, From, Pair
  <1>4. CASE dir \in {"D", "R"}
    BY <1>2, <1>4 DEF To, From, Pair
  <1> QED
    BY <1>3, <1>4 DEF Directions

\* The index of a round.
LEMMA IndexIs ==
    ASSUME NEW dir \in Directions, NEW k \in 0 .. Rounds(dir) - 1
    PROVE  /\ Index(dir, k) \in 0 .. Rounds(dir) - 1
           /\ dir \in {"U", "L"} => Index(dir, k) = k
           /\ dir \in {"D", "R"} => Index(dir, k) = Rounds(dir) - 1 - k
           /\ Index(dir, Index(dir, k)) = k
  BY RoundsAre DEF Directions, Index

\* From b to r tile y goes to x and makes it a, with a gain of g.
Goes(b, r, x, y, a, g) ==
    /\ r.t[x] = a /\ r.t[y] = 0 /\ r.gain = b.gain + g
    /\ \A z \in Tiles : z # x /\ z # y => r.t[z] = b.t[z]

\* What a round does with the pair <<x, y>>.
Slides(b, r, x, y) ==
    \/ b.t[x] # 0 /\ r = b
    \/ b.t[x] = 0 /\ Goes(b, r, x, y, b.t[y], 0)
Joins(b, r, x, y) ==
    \/ b.t[x] # b.t[y] /\ r = b
    \/ b.t[x] = b.t[y] /\ Goes(b, r, x, y, 2 * b.t[x], 2 * b.t[x])
Does(dir, j, i, b, r) ==
    \/ Skips(dir, i) /\ r = b
    \/ ~Skips(dir, i) /\ j # 4 /\ Slides(b, r, To(dir, i), From(dir, i))
    \/ ~Skips(dir, i) /\ j = 4 /\ Joins(b, r, To(dir, i), From(dir, i))

\* A shift.
LEMMA ShiftIs ==
    ASSUME NEW b \in Games, NEW x \in Tiles, NEW y \in Tiles, x # y, NEW p, p[1] = x, p[2] = y
    PROVE  Shift(b, p) \in Games /\ Slides(b, Shift(b, p), x, y)
  <1>1. b.t \in Boards /\ b.gain \in Nat /\ b.t[y] \in Nat
    BY DEF Games, Boards
  <1>2. CASE b.t[x] # 0
    BY <1>2 DEF Shift, Slides
  <1>3. CASE b.t[x] = 0
    <2>1. PICK t : t = [b.t EXCEPT ![x] = b.t[y], ![y] = 0]
      OBVIOUS
    <2>2. t \in Boards /\ t[x] = b.t[y] /\ t[y] = 0 /\ \A z \in Tiles : z # x /\ z # y => t[z] = b.t[z]
      BY <1>1, <2>1 DEF Boards
    <2>3. Shift(b, p) = [t |-> t, gain |-> b.gain]
      BY <1>3, <2>1 DEF Shift
    <2>4. Shift(b, p) \in Games
      BY <1>1, <2>2, <2>3 DEF Games
    <2>5. b.gain = b.gain + 0
      BY <1>1
    <2>6. Goes(b, Shift(b, p), x, y, b.t[y], 0)
      BY <2>2, <2>3, <2>5 DEF Goes
    <2> QED
      BY <1>3, <2>4, <2>6 DEF Slides
  <1> QED
    BY <1>2, <1>3

\* A merge.
LEMMA MergeIs ==
    ASSUME NEW b \in Games, NEW x \in Tiles, NEW y \in Tiles, x # y, NEW p, p[1] = x, p[2] = y
    PROVE  Merge(b, p) \in Games /\ Joins(b, Merge(b, p), x, y)
  <1>1. b.t \in Boards /\ b.gain \in Nat /\ b.t[x] \in Nat
    BY DEF Games, Boards
  <1>2. CASE b.t[x] # b.t[y]
    BY <1>2 DEF Merge, Merged, Joins
  <1>3. CASE b.t[x] = b.t[y]
    <2>1. PICK t : t = [b.t EXCEPT ![x] = 2 * @, ![y] = 0]
      OBVIOUS
    <2>2. /\ t \in Boards /\ t[x] = 2 * b.t[x] /\ t[y] = 0
          /\ \A z \in Tiles : z # x /\ z # y => t[z] = b.t[z]
      BY <1>1, <2>1 DEF Boards
    <2>3. Merge(b, p) = [t |-> t, gain |-> b.gain + 2 * b.t[x]]
      BY <1>3, <2>1 DEF Merge, Merged
    <2>4. Merge(b, p) \in Games
      BY <1>1, <2>2, <2>3 DEF Games
    <2>5. Goes(b, Merge(b, p), x, y, 2 * b.t[x], 2 * b.t[x])
      BY <2>2, <2>3 DEF Goes
    <2> QED
      BY <1>3, <2>4, <2>5 DEF Joins
  <1> QED
    BY <1>2, <1>3

\* A round.
LEMMA RoundIs ==
    ASSUME NEW dir \in Directions, NEW i \in 0 .. Rounds(dir) - 1, NEW j, NEW b \in Games
    PROVE  Round(dir, j, i, b) \in Games /\ Does(dir, j, i, b, Round(dir, j, i, b))
  <1>1. PICK p : p = Pair(dir, i)
    OBVIOUS
  <1>2. To(dir, i) \in Tiles /\ From(dir, i) \in Tiles /\ To(dir, i) # From(dir, i)
    BY PairIs
  <1>3. p[1] = To(dir, i) /\ p[2] = From(dir, i)
    BY <1>1 DEF To, From
  <1>4. Shift(b, p) \in Games /\ Slides(b, Shift(b, p), To(dir, i), From(dir, i))
    BY <1>2, <1>3, ShiftIs
  <1>5. Merge(b, p) \in Games /\ Joins(b, Merge(b, p), To(dir, i), From(dir, i))
    BY <1>2, <1>3, MergeIs
  <1>6. CASE Skips(dir, i)
    BY <1>6 DEF Round, Does
  <1>7. CASE ~Skips(dir, i) /\ j = 4
    <2>1. Round(dir, j, i, b) = Merge(b, p)
      BY <1>1, <1>7 DEF Round
    <2> QED
      BY <1>5, <1>7, <2>1 DEF Does
  <1>8. CASE ~Skips(dir, i) /\ j # 4
    <2>1. Round(dir, j, i, b) = Shift(b, p)
      BY <1>1, <1>8 DEF Round
    <2> QED
      BY <1>4, <1>8, <2>1 DEF Does
  <1> QED
    BY <1>6, <1>7, <1>8

----------------------------------------------------------------------------
(***************************************************************************)
(* 2048: a move is a run of rounds.                                        *)
(***************************************************************************)
\* Number n of the rounds: tile i in pass j.
PassOf(dir, n) == (n - 1) \div Rounds(dir)
TileOf(dir, n) == Index(dir, (n - 1) % Rounds(dir))

\* f are the boards of a move of t.
Plays(f, t, dir) ==
    /\ f \in [0 .. 6 * Rounds(dir) -> Games]
    /\ f[0] = [t |-> t, gain |-> 0]
    /\ \A n \in 1 .. 6 * Rounds(dir) :
          /\ TileOf(dir, n) \in 0 .. Rounds(dir) - 1
          /\ Does(dir, PassOf(dir, n), TileOf(dir, n), f[n - 1], f[n])

\* move_tile plays a move.
LEMMA MoveIs ==
    ASSUME NEW t \in Boards, NEW dir \in Directions
    PROVE  \E f : Plays(f, t, dir) /\ move_tile(t, dir) = f[6 * Rounds(dir)]
  <1>0. PICK len \in Nat \ {0}, N \in Nat : len = Rounds(dir) /\ N = 6 * len
    BY RoundsAre
  <1> DEFINE c == [t |-> t, gain |-> 0]
             Step(n, b) == Round(dir, PassOf(dir, n), TileOf(dir, n), b)
             D == [p \in Nat \X Games |-> IF p[1] \in 1 .. N THEN Step(p[1], p[2]) ELSE p[2]]
             Is(g) == g = [n \in 0 .. N |-> IF n = 0 THEN c ELSE Step(n, g[n - 1])]
             after == CHOOSE g : Is(g)
  <1>1. c \in Games
    BY DEF Games
  <1>2. ASSUME NEW n \in 1 .. N
        PROVE  TileOf(dir, n) \in 0 .. Rounds(dir) - 1
    <2>1. n - 1 \in Nat
      BY <1>0
    <2>2. (n - 1) % len \in 0 .. len - 1
      BY <1>0, <2>1, ModParts
    <2> QED
      BY <1>0, <2>2, IndexIs DEF TileOf
  <1>3. ASSUME NEW n \in 1 .. N, NEW b \in Games
        PROVE  Step(n, b) \in Games /\ Does(dir, PassOf(dir, n), TileOf(dir, n), b, Step(n, b))
    BY <1>2, RoundIs
  <1> HIDE DEF c, Step
  <1>4. D \in [Nat \X Games -> Games]
    <2>1. ASSUME NEW p \in Nat \X Games
          PROVE  (IF p[1] \in 1 .. N THEN Step(p[1], p[2]) ELSE p[2]) \in Games
      <3>1. p[2] \in Games
        OBVIOUS
      <3> QED
        BY <1>3, <3>1
    <2> QED
      BY <2>1
  <1>5. \A n, b : n \in 1 .. N /\ b \in Games => D[<<n, b>>] = Step(n, b)
    BY <1>0
  <1> HIDE DEF D
  <1>6. PICK f \in [0 .. N -> Games] : Iterates(f, N, c, D)
    BY <1>0, <1>1, <1>4, Recursion
  <1>7. Is(f)
    <2>1. ASSUME NEW n \in 0 .. N
          PROVE  f[n] = IF n = 0 THEN c ELSE Step(n, f[n - 1])
      <3>1. CASE n = 0
        BY <1>6, <3>1 DEF Iterates
      <3>2. CASE n # 0
        <4>1. n \in 1 .. N /\ n - 1 \in 0 .. N
          BY <1>0, <3>2
        <4>2. f[n] = D[<<n, f[n - 1]>>] /\ f[n - 1] \in Games
          BY <1>6, <4>1 DEF Iterates
        <4> QED
          BY <1>5, <3>2, <4>1, <4>2
      <3> QED
        BY <3>1, <3>2
    <2> QED
      BY <2>1
  <1>8. Is(after)
    BY <1>7
  <1>9. move_tile(t, dir) = after[N]
    BY <1>0 DEF move_tile, Step, PassOf, TileOf, c
  <1> HIDE DEF after
  <1>10. after[0] = c /\ \A n \in 1 .. N : after[n] = Step(n, after[n - 1])
    <2>1. ASSUME NEW n \in 0 .. N
          PROVE  after[n] = IF n = 0 THEN c ELSE Step(n, after[n - 1])
      BY <1>8
    <2>2. 0 \in 0 .. N /\ \A n \in 1 .. N : n \in 0 .. N /\ n # 0
      BY <1>0
    <2> QED
      BY <2>1, <2>2
  <1> DEFINE S == {n \in 0 .. N : after[n] \in Games}
  <1>11. 0 .. N \subseteq S
    <2>1. 0 \in S
      BY <1>0, <1>1, <1>10
    <2>2. ASSUME NEW n \in 0 .. N - 1, n \in S PROVE n + 1 \in S
      <3>1. n + 1 \in 1 .. N /\ (n + 1) - 1 = n /\ n + 1 \in 0 .. N
        BY <1>0
      <3>2. after[n + 1] = Step(n + 1, after[n]) /\ after[n] \in Games
        BY <1>10, <2>2, <3>1
      <3> QED
        BY <1>3, <3>1, <3>2
    <2> HIDE DEF S
    <2> QED
      BY <1>0, <2>1, <2>2, UpTo
  <1>12. after \in [0 .. N -> Games]
    <2>1. DOMAIN after = 0 .. N /\ after = [n \in 0 .. N |-> after[n]]
      BY <1>8
    <2> QED
      BY <1>11, <2>1
  <1>13. ASSUME NEW n \in 1 .. N
         PROVE  Does(dir, PassOf(dir, n), TileOf(dir, n), after[n - 1], after[n])
    <2>1. n - 1 \in 0 .. N
      BY <1>0
    <2> QED
      BY <1>3, <1>10, <1>12, <2>1
  <1>14. Plays(after, t, dir)
    BY <1>0, <1>2, <1>10, <1>12, <1>13 DEF Plays, c
  <1> QED
    BY <1>0, <1>9, <1>14

\* The quotient is the only one.
LEMMA DivUnique ==
    ASSUME NEW b \in Nat \ {0}, NEW q \in Nat, NEW r \in 0 .. b - 1, NEW x \in Nat, x = q * b + r
    PROVE  x \div b = q
  OBVIOUS

\* The rounds of pass j.
LEMMA RoundOf ==
    ASSUME NEW dir \in Directions, NEW j \in 0 .. 5, NEW k \in 0 .. Rounds(dir) - 1, NEW n,
           n = j * Rounds(dir) + k + 1
    PROVE  n \in 1 .. 6 * Rounds(dir) /\ PassOf(dir, n) = j /\ TileOf(dir, n) = Index(dir, k)
  <1>1. PICK len \in Nat \ {0} : len = Rounds(dir)
    BY RoundsAre
  <1>2. PICK x \in Nat : x = j * len + k
    BY <1>1
  <1>3. n - 1 = x /\ n \in 1 .. 6 * len
    BY <1>1, <1>2
  <1>4. j \in Nat /\ k \in 0 .. len - 1
    BY <1>1
  <1>5. x % len = k
    BY <1>2, <1>4, ModUnique
  <1>6. x \div len = j
    BY <1>2, <1>4, DivUnique
  <1> QED
    BY <1>1, <1>3, <1>5, <1>6 DEF PassOf, TileOf

\* Every round is in a pass.
LEMMA RoundIn ==
    ASSUME NEW dir \in Directions, NEW n \in 1 .. 6 * Rounds(dir)
    PROVE  \E j \in 0 .. 5, k \in 0 .. Rounds(dir) - 1 :
              /\ n = j * Rounds(dir) + k + 1
              /\ PassOf(dir, n) = j /\ TileOf(dir, n) = Index(dir, k)
  <1>1. PICK len \in Nat \ {0} : len = Rounds(dir)
    BY RoundsAre
  <1>2. PICK x \in Nat : x = n - 1 /\ x < 6 * len
    BY <1>1
  <1>3. PICK j \in Nat, k \in 0 .. len - 1 : x = j * len + k
    <2>1. /\ x \div len \in Nat /\ x % len \in 0 .. len - 1
          /\ x = (x \div len) * len + (x % len)
      BY ModParts
    <2> QED
      BY <2>1
  <1>4. j < 6
    <2>1. SUFFICES ASSUME j >= 6 PROVE FALSE
      OBVIOUS
    <2>2. j * len >= 6 * len
      BY <1>1, <2>1
    <2> QED
      BY <1>2, <1>3, <2>2
  <1>5. j \in 0 .. 5 /\ k \in 0 .. Rounds(dir) - 1 /\ n = j * Rounds(dir) + k + 1
    BY <1>1, <1>2, <1>3, <1>4
  <1> QED
    BY <1>5, RoundOf

----------------------------------------------------------------------------
(***************************************************************************)
(* 2048: when a move changes the board.                                    *)
(***************************************************************************)
\* A round that leaves a full board did nothing.
LEMMA DoesFull ==
    ASSUME NEW dir \in Directions, NEW i \in 0 .. Rounds(dir) - 1, NEW j,
           NEW b \in Games, NEW r \in Games, Does(dir, j, i, b, r), Full(r.t)
    PROVE  r = b
  <1>1. From(dir, i) \in Tiles
    BY PairIs
  <1>2. r.t[From(dir, i)] # 0
    BY <1>1 DEF Full
  <1> QED
    BY <1>2 DEF Does, Slides, Joins, Goes

\* So did a move: there is room for a tile after every move that changes
\* something.
LEMMA MoveFull ==
    ASSUME NEW t \in Boards, NEW dir \in Directions, Full(move_tile(t, dir).t)
    PROVE  move_tile(t, dir).t = t
  <1>0. PICK N \in Nat : N = 6 * Rounds(dir)
    BY RoundsAre
  <1>1. PICK f : Plays(f, t, dir) /\ move_tile(t, dir) = f[N]
    BY <1>0, MoveIs
  <1> DEFINE S == {m \in 0 .. N : f[N - m] = f[N]}
  <1>2. 0 \in S
    BY <1>0
  <1>3. ASSUME NEW m \in 0 .. N - 1, m \in S PROVE m + 1 \in S
    <2>1. PICK n \in 1 .. N : n = N - m /\ n - 1 = N - (m + 1) /\ n \in 0 .. N /\ n - 1 \in 0 .. N
      BY <1>0
    <2>2. /\ TileOf(dir, n) \in 0 .. Rounds(dir) - 1
          /\ Does(dir, PassOf(dir, n), TileOf(dir, n), f[n - 1], f[n])
          /\ f[n] \in Games /\ f[n - 1] \in Games
      BY <1>0, <1>1, <2>1 DEF Plays
    <2>3. f[n] = f[N] /\ Full(f[n].t)
      BY <1>1, <1>3, <2>1
    <2>4. f[n] = f[n - 1]
      BY <2>2, <2>3, DoesFull
    <2> QED
      BY <1>0, <2>1, <2>3, <2>4
  <1> HIDE DEF S
  <1>4. N \in S
    <2>1. 0 .. N \subseteq S
      BY <1>0, <1>2, <1>3, UpTo
    <2> QED
      BY <1>0, <2>1
  <1>5. f[0] = f[N]
    <2>1. N - N = 0
      BY <1>0
    <2> QED
      BY <1>4, <2>1 DEF S
  <1> QED
    BY <1>1, <1>5 DEF Plays

\* Tile z is nearer to the edge than x.
Nearer(dir, z, x) == IF dir \in {"U", "L"} THEN z < x ELSE z > x

\* The first tile from the edge that differs is larger on board t.
Higher(dir, s, t) ==
    \E x \in Tiles : s[x] < t[x] /\ \A z \in Tiles : Nearer(dir, z, x) => t[z] = s[z]

\* A board is not higher than itself.
LEMMA HigherNever ==
    ASSUME NEW dir, NEW s \in Boards
    PROVE  ~Higher(dir, s, s)
  BY DEF Higher, Boards

\* Higher and higher.
LEMMA HigherTwice ==
    ASSUME NEW dir, NEW s \in Boards, NEW t \in Boards, NEW u \in Boards,
           Higher(dir, s, t), Higher(dir, t, u)
    PROVE  Higher(dir, s, u)
  <1>1. PICK x \in Tiles : s[x] < t[x] /\ \A z \in Tiles : Nearer(dir, z, x) => t[z] = s[z]
    BY DEF Higher
  <1>2. PICK y \in Tiles : t[y] < u[y] /\ \A z \in Tiles : Nearer(dir, z, y) => u[z] = t[z]
    BY DEF Higher
  <1>3. x \in Int /\ y \in Int /\ \A z \in Tiles : z \in Int
    BY BoardSizes DEF Tiles
  <1>4. \A z \in Tiles : s[z] \in Nat /\ t[z] \in Nat /\ u[z] \in Nat
    BY DEF Boards
  <1>5. CASE x = y
    <2>1. s[x] < u[x]
      BY <1>1, <1>2, <1>4, <1>5
    <2>2. \A z \in Tiles : Nearer(dir, z, x) => u[z] = s[z]
      BY <1>1, <1>2, <1>5
    <2> QED
      BY <2>1, <2>2 DEF Higher
  <1>6. CASE Nearer(dir, x, y)
    <2>1. s[x] < u[x]
      BY <1>1, <1>2, <1>6
    <2>2. \A z \in Tiles : Nearer(dir, z, x) => Nearer(dir, z, y)
      BY <1>3, <1>6 DEF Nearer
    <2>3. \A z \in Tiles : Nearer(dir, z, x) => u[z] = s[z]
      BY <1>1, <1>2, <2>2
    <2> QED
      BY <2>1, <2>3 DEF Higher
  <1>7. CASE Nearer(dir, y, x)
    <2>1. s[y] < u[y]
      BY <1>1, <1>2, <1>7
    <2>2. \A z \in Tiles : Nearer(dir, z, y) => Nearer(dir, z, x)
      BY <1>3, <1>7 DEF Nearer
    <2>3. \A z \in Tiles : Nearer(dir, z, y) => u[z] = s[z]
      BY <1>1, <1>2, <2>2
    <2> QED
      BY <2>1, <2>3 DEF Higher
  <1> QED
    BY <1>3, <1>5, <1>6, <1>7 DEF Nearer

\* Two boards with the same tiles and the same gain are the same.
LEMMA SameGame ==
    ASSUME NEW b \in Games, NEW r \in Games, \A z \in Tiles : r.t[z] = b.t[z], r.gain = b.gain
    PROVE  r = b
  <1>1. b.t \in Boards /\ r.t \in Boards
    BY DEF Games
  <1>2. r.t = b.t
    BY <1>1 DEF Boards
  <1> QED
    BY <1>2 DEF Games

\* A tile that goes to another leaves everything as it is, or a higher board.
LEMMA GoesHigher ==
    ASSUME NEW dir \in Directions, NEW b \in Games, NEW r \in Games,
           NEW x \in Tiles, NEW y \in Tiles, Nearer(dir, x, y),
           NEW a \in Nat, NEW g \in Nat, Goes(b, r, x, y, a, g), b.t[y] = 0 => a = b.t[x] /\ g = 0,
           b.t[y] # 0 => a > b.t[x]
    PROVE  r = b \/ Higher(dir, b.t, r.t)
  <1>1. /\ r.t[x] = a /\ r.t[y] = 0 /\ r.gain = b.gain + g
        /\ \A z \in Tiles : z # x /\ z # y => r.t[z] = b.t[z]
    BY DEF Goes
  <1>2. b.gain \in Nat /\ b.t[x] \in Nat /\ b.t[y] \in Nat
    BY DEF Games, Boards
  <1>3. CASE b.t[y] = 0
    <2>1. r.gain = b.gain
      BY <1>1, <1>2, <1>3
    <2>2. \A z \in Tiles : r.t[z] = b.t[z]
      BY <1>1, <1>3
    <2> QED
      BY <2>1, <2>2, SameGame
  <1>4. CASE b.t[y] # 0
    <2>1. b.t[x] < r.t[x]
      BY <1>1, <1>2, <1>4
    <2>2. ASSUME NEW z \in Tiles, Nearer(dir, z, x) PROVE r.t[z] = b.t[z]
      <3>1. x \in Int /\ y \in Int /\ z \in Int
        BY BoardSizes DEF Tiles
      <3>2. z # x /\ z # y
        BY <2>2, <3>1 DEF Nearer
      <3> QED
        BY <1>1, <3>2
    <2> QED
      BY <2>1, <2>2 DEF Higher
  <1> QED
    BY <1>3, <1>4

\* A round does nothing, or leaves a higher board.
LEMMA DoesHigher ==
    ASSUME NEW dir \in Directions, NEW i \in 0 .. Rounds(dir) - 1, NEW j,
           NEW b \in Games, NEW r \in Games, Does(dir, j, i, b, r)
    PROVE  r = b \/ Higher(dir, b.t, r.t)
  <1>1. PICK x \in Tiles, y \in Tiles : x = To(dir, i) /\ y = From(dir, i)
    BY PairIs
  <1>2. Nearer(dir, x, y)
    BY <1>1, PairIs, RoundsAre DEF Nearer, Directions
  <1>3. b.t[x] \in Nat /\ b.t[y] \in Nat
    BY DEF Games, Boards
  <1>4. CASE r = b
    BY <1>4
  <1>5. CASE b.t[x] = 0 /\ Goes(b, r, x, y, b.t[y], 0)
    <2>1. PICK a \in Nat : a = b.t[y]
      BY <1>3
    <2>2. Goes(b, r, x, y, a, 0) /\ (b.t[y] = 0 => a = b.t[x]) /\ (b.t[y] # 0 => a > b.t[x])
      BY <1>3, <1>5, <2>1
    <2> QED
      BY <1>2, <2>2, GoesHigher
  <1>6. CASE b.t[x] = b.t[y] /\ Goes(b, r, x, y, 2 * b.t[x], 2 * b.t[x])
    <2>1. PICK a \in Nat : a = 2 * b.t[x]
      BY <1>3
    <2>2. /\ Goes(b, r, x, y, a, a) /\ (b.t[y] = 0 => a = b.t[x] /\ a = 0)
          /\ (b.t[y] # 0 => a > b.t[x])
      BY <1>3, <1>6, <2>1
    <2> QED
      BY <1>2, <2>2, GoesHigher
  <1> QED
    BY <1>1, <1>4, <1>5, <1>6 DEF Does, Slides, Joins

\* In a direction that can be played no more no round does anything, and no
\* tile has an empty place before it.
LEMMA StuckIs ==
    ASSUME NEW t \in Boards, NEW dir \in Directions, move_tile(t, dir).t = t
    PROVE  \A i \in 0 .. Rounds(dir) - 1 :
              ~Skips(dir, i) /\ t[To(dir, i)] = 0 => t[From(dir, i)] = 0
  <1>0. PICK N \in Nat : N = 6 * Rounds(dir)
    BY RoundsAre
  <1>1. PICK f : Plays(f, t, dir) /\ move_tile(t, dir) = f[N]
    BY <1>0, MoveIs
  <1>2. f[0].t = t /\ f[N].t = t /\ f[0] \in Games /\ \A n \in 0 .. N : f[n] \in Games /\ f[n].t \in Boards
    <2>1. f \in [0 .. N -> Games] /\ f[0] = [t |-> t, gain |-> 0]
      BY <1>0, <1>1 DEF Plays
    <2>2. f[0].t = t /\ f[N].t = t
      BY <1>1, <2>1
    <2>3. \A b \in Games : b.t \in Boards
      BY DEF Games
    <2>4. \A n \in 0 .. N : f[n] \in Games
      BY <2>1
    <2>5. 0 \in 0 .. N
      BY <1>0
    <2> QED
      BY <2>2, <2>3, <2>4, <2>5
  <1> DEFINE Same(n) == \A m \in 0 .. n : f[m] = f[0]
             S == {n \in 0 .. N : Same(n) \/ Higher(dir, t, f[n].t)}
  <1>3. 0 \in S
    BY <1>0
  <1>4. ASSUME NEW n \in 0 .. N - 1, n \in S PROVE n + 1 \in S
    <2>1. PICK e \in 1 .. N : e = n + 1 /\ e - 1 = n /\ n \in 0 .. N /\ e \in 0 .. N
      BY <1>0
    <2>2. /\ TileOf(dir, e) \in 0 .. Rounds(dir) - 1
          /\ Does(dir, PassOf(dir, e), TileOf(dir, e), f[n], f[e])
      BY <1>0, <1>1, <2>1 DEF Plays
    <2>3. f[e] = f[n] \/ Higher(dir, f[n].t, f[e].t)
      BY <1>2, <2>1, <2>2, DoesHigher
    <2>4. CASE Same(n) /\ f[e] = f[n]
      <3>1. f[n] = f[0]
        BY <2>1, <2>4
      <3>2. \A m \in 0 .. e : m \in 0 .. n \/ m = e
        BY <2>1
      <3>3. Same(e)
        BY <2>4, <3>1, <3>2
      <3> QED
        BY <2>1, <3>3
    <2>5. CASE Same(n) /\ Higher(dir, f[n].t, f[e].t)
      <3>1. f[n] = f[0]
        BY <2>1, <2>5
      <3>2. Higher(dir, t, f[e].t)
        BY <1>2, <2>5, <3>1
      <3> QED
        BY <2>1, <3>2
    <2>6. CASE Higher(dir, t, f[n].t)
      <3>1. Higher(dir, t, f[e].t)
        BY <1>2, <2>1, <2>3, <2>6, HigherTwice
      <3> QED
        BY <2>1, <3>1
    <2> QED
      BY <1>4, <2>3, <2>4, <2>5, <2>6
  <1>5. N \in S
    <2> HIDE DEF S
    <2>1. 0 .. N \subseteq S
      BY <1>0, <1>3, <1>4, UpTo
    <2> QED
      BY <1>0, <2>1
  <1>6. Same(N)
    BY <1>2, <1>5, HigherNever
  <1>7. ASSUME NEW i \in 0 .. Rounds(dir) - 1, ~Skips(dir, i), t[To(dir, i)] = 0
        PROVE  t[From(dir, i)] = 0
    <2>1. PICK k \in 0 .. Rounds(dir) - 1 : Index(dir, k) = i
      BY IndexIs
    <2>2. PICK n \in 1 .. N : n = k + 1 /\ n - 1 \in 0 .. N /\ n \in 0 .. N
      BY <1>0, RoundsAre
    <2>3. n = 0 * Rounds(dir) + k + 1
      BY <2>2, RoundsAre
    <2>4. PassOf(dir, n) = 0 /\ TileOf(dir, n) = i
      BY <2>1, <2>3, RoundOf
    <2>5. Does(dir, 0, i, f[n - 1], f[n])
      BY <1>0, <1>1, <2>2, <2>4 DEF Plays
    <2>6. f[n - 1] = f[0] /\ f[n] = f[0]
      BY <1>6, <2>2
    <2>7. Does(dir, 0, i, f[0], f[0])
      BY <2>5, <2>6
    <2> QED
      BY <1>2, <1>7, <2>7 DEF Does, Slides, Goes
  <1> QED
    BY <1>7

\* If no direction can be played, an empty place means an empty board: rows and
\* columns connect all tiles.
LEMMA StuckEmpty ==
    ASSUME NEW t \in Boards, \A dir \in Directions : move_tile(t, dir).t = t,
           NEW e \in Tiles, t[e] = 0
    PROVE  \A i \in Tiles : t[i] = 0
  <1>0. PICK N \in Nat \ {0} : N = ROWS * COLS /\ Tiles = 0 .. N - 1 /\ COLS \in 2 .. 4 /\ COLS < N
    BY BoardSizes DEF Tiles
  <1> DEFINE Hops(x, y) == t[x] = 0 => t[y] = 0
  <1>1. ASSUME NEW x \in Tiles, NEW y \in Tiles, y = x + COLS PROVE Hops(x, y) /\ Hops(y, x)
    <2>1. /\ "U" \in Directions /\ "D" \in Directions
          /\ ~Skips("U", x) /\ ~Skips("D", x)
      BY DEF Directions, Skips
    <2>2. x \in 0 .. Rounds("U") - 1 /\ x \in 0 .. Rounds("D") - 1
      BY <1>0, <1>1 DEF Rounds, Stride
    <2>3. Stride("U") = COLS /\ Stride("D") = COLS
      BY DEF Stride
    <2>4. To("U", x) = x /\ From("U", x) = y /\ To("D", x) = y /\ From("D", x) = x
      BY <1>1, <2>3 DEF To, From, Pair
    <2>5. t[To("U", x)] = 0 => t[From("U", x)] = 0
      BY <2>1, <2>2, StuckIs
    <2>6. t[To("D", x)] = 0 => t[From("D", x)] = 0
      BY <2>1, <2>2, StuckIs
    <2> QED
      BY <2>4, <2>5, <2>6
  <1>2. ASSUME NEW x \in Tiles, NEW y \in Tiles, y = x + 1, x % COLS # COLS - 1
        PROVE Hops(x, y) /\ Hops(y, x)
    <2>1. /\ "L" \in Directions /\ "R" \in Directions
          /\ ~Skips("L", x) /\ ~Skips("R", x)
      BY <1>2 DEF Directions, Skips
    <2>2. Stride("L") = 1 /\ Stride("R") = 1
      BY DEF Stride
    <2>3. x \in 0 .. Rounds("L") - 1 /\ x \in 0 .. Rounds("R") - 1
      BY <1>0, <1>2, <2>2 DEF Rounds
    <2>4. To("L", x) = x /\ From("L", x) = y /\ To("R", x) = y /\ From("R", x) = x
      BY <1>2, <2>2 DEF To, From, Pair
    <2>5. t[To("L", x)] = 0 => t[From("L", x)] = 0
      BY <2>1, <2>3, StuckIs
    <2>6. t[To("R", x)] = 0 => t[From("R", x)] = 0
      BY <2>1, <2>3, StuckIs
    <2> QED
      BY <2>4, <2>5, <2>6
  <1>3. ASSUME NEW n \in 0 .. N - 2
        PROVE  \E m \in 0 .. n : Hops(m, n + 1) /\ Hops(n + 1, m)
    <2>1. n \in Tiles /\ n + 1 \in Tiles
      BY <1>0
    <2>2. CASE n % COLS # COLS - 1
      BY <1>2, <2>1, <2>2
    <2>3. CASE n % COLS = COLS - 1
      <3>0. n \in Nat /\ COLS \in Nat \ {0}
        BY <1>0
      <3>1. PICK q \in Nat : n = q * COLS + (COLS - 1)
        <4>1. n \div COLS \in Nat /\ n = (n \div COLS) * COLS + (n % COLS)
          BY <3>0, ModParts
        <4> QED
          BY <2>3, <4>1
      <3>2. PICK a \in Nat : a = q * COLS
        BY <1>0
      <3>3. n + 1 - COLS \in 0 .. n
        BY <1>0, <3>1, <3>2
      <3>4. PICK m \in 0 .. n : m = n + 1 - COLS
        BY <3>3
      <3>5. m \in Tiles /\ n + 1 = m + COLS
        BY <1>0, <3>4
      <3> QED
        BY <1>1, <2>1, <3>5
    <2> QED
      BY <2>2, <2>3
  <1> DEFINE S == {n \in 0 .. N - 1 : \A m \in 0 .. n : Hops(m, 0) /\ Hops(0, m)}
  <1>4. 0 .. N - 1 \subseteq S
    <2>1. 0 \in S
      BY <1>0
    <2>2. ASSUME NEW n \in 0 .. (N - 1) - 1, n \in S PROVE n + 1 \in S
      <3>1. n \in 0 .. N - 2 /\ n + 1 \in 0 .. N - 1
        BY <1>0
      <3>2. PICK m \in 0 .. n : Hops(m, n + 1) /\ Hops(n + 1, m)
        BY <1>3, <3>1
      <3>3. Hops(m, 0) /\ Hops(0, m)
        BY <2>2
      <3>4. Hops(n + 1, 0) /\ Hops(0, n + 1)
        BY <3>2, <3>3
      <3>5. \A k \in 0 .. n + 1 : k \in 0 .. n \/ k = n + 1
        OBVIOUS
      <3> QED
        BY <2>2, <3>1, <3>4, <3>5
    <2>3. N - 1 \in Nat
      BY <1>0
    <2> HIDE DEF S
    <2> QED
      BY <2>1, <2>2, <2>3, UpTo
  <1>5. ASSUME NEW i \in Tiles PROVE Hops(i, 0) /\ Hops(0, i)
    <2>1. i \in S /\ i \in 0 .. i
      BY <1>0, <1>4
    <2> QED
      BY <2>1
  <1> QED
    BY <1>5

\* check_end finds out whether no direction can be played, on a board that is
\* not empty.
LEMMA EndIsStuck ==
    ASSUME NEW t \in Boards, \E i \in Tiles : t[i] # 0
    PROVE  /\ check_end(t).t = t
           /\ check_end(t).over <=> \A dir \in Directions : move_tile(t, dir).t = t
  <1> DEFINE M(b, dir) == move_tile(b, dir).t
  <1>1. ASSUME NEW b \in Boards, NEW dir \in Directions PROVE M(b, dir) \in Boards
    <2>1. PICK f : Plays(f, b, dir) /\ move_tile(b, dir) = f[6 * Rounds(dir)]
      BY MoveIs
    <2>2. 6 * Rounds(dir) \in 0 .. 6 * Rounds(dir)
      BY RoundsAre
    <2>3. move_tile(b, dir) \in Games
      BY <2>1, <2>2 DEF Plays
    <2> QED
      BY <2>3 DEF Games
  <1>2. \A b, dir : Moved({b}, dir) = {M(b, dir)}
    BY DEF Moved
  <1> DEFINE a == M(t, "U")
             b == M(a, "D")
             c == M(b, "R")
             d == M(c, "L")
  <1>3. "U" \in Directions /\ "D" \in Directions /\ "R" \in Directions /\ "L" \in Directions
    BY DEF Directions
  <1> HIDE DEF M
  <1>4. a \in Boards /\ b \in Boards /\ c \in Boards /\ d \in Boards
    BY <1>1, <1>3
  <1>5. Tried(t) = {d}
    BY <1>2 DEF Tried
  <1> HIDE DEF a, b, c, d
  <1>6. check_end(t).t = t /\ (check_end(t).over <=> Full(t) /\ d = t)
    BY <1>5 DEF check_end
  <1>7. ASSUME Full(t), d = t, NEW dir \in Directions PROVE M(t, dir) = t
    <2>1. ASSUME NEW x \in Boards, NEW e \in Directions, M(x, e) = t PROVE x = t
      BY <1>7, <2>1, MoveFull DEF M
    <2>2. c = t
      BY <1>3, <1>4, <1>7, <2>1 DEF d
    <2>3. b = t
      BY <1>3, <1>4, <2>1, <2>2 DEF c
    <2>4. a = t
      BY <1>3, <1>4, <2>1, <2>3 DEF b
    <2>5. M(t, "U") = t /\ M(t, "D") = t /\ M(t, "R") = t /\ M(t, "L") = t
      BY <1>7, <2>2, <2>3, <2>4 DEF a, b, c, d
    <2> QED
      BY <2>5 DEF Directions
  <1>8. ASSUME \A dir \in Directions : M(t, dir) = t PROVE Full(t) /\ d = t
    <2>1. d = t
      BY <1>3, <1>8 DEF a, b, c, d
    <2>2. Full(t)
      BY <1>8, StuckEmpty DEF M, Full
    <2> QED
      BY <2>1, <2>2
  <1> QED
    BY <1>6, <1>7, <1>8 DEF M

----------------------------------------------------------------------------
(***************************************************************************)
(* 2048: the values of tiles, and sums over the board.                     *)
(***************************************************************************)
\* The values that have twice their value among them.
Low == Values \ {4096}

\* The values of tiles.
LEMMA ValuesAre ==
    /\ Values = {0, 2, 4, 8, 16, 32, 64, 128, 256, 512, 1024, 2048, 4096}
    /\ Values \subseteq Nat
  <1>1. DOMAIN Powers = 1 .. 12
    BY DEF Powers
  <1>2. Range(Powers) = {Powers[k] : k \in 1 .. 12}
    BY <1>1 DEF Range
  <1>3. \A k \in 1 .. 12 : k \in {1, 2, 3, 4, 5, 6, 7, 8, 9, 10, 11, 12}
    OBVIOUS
  <1>4. Range(Powers) = {2, 4, 8, 16, 32, 64, 128, 256, 512, 1024, 2048, 4096}
    BY <1>2, <1>3 DEF Powers
  <1> QED
    BY <1>4 DEF Values

\* What tiles are worth.
LEMMA WorthIs ==
    Worth(0) = 0 /\ \A k \in 1 .. 12 : Worth(Powers[k]) = (k - 1) * Powers[k]
  <1>1. DOMAIN Powers = 1 .. 12
    BY DEF Powers
  <1>2. \A k \in 1 .. 12 : k \in {1, 2, 3, 4, 5, 6, 7, 8, 9, 10, 11, 12}
    OBVIOUS
  <1>3. \A k, m \in 1 .. 12 : Powers[k] = Powers[m] => k = m
    BY <1>2 DEF Powers
  <1>4. \A k \in 1 .. 12 : Powers[k] # 0
    BY <1>2 DEF Powers
  <1>5. ASSUME NEW k \in 1 .. 12 PROVE Worth(Powers[k]) = (k - 1) * Powers[k]
    <2>1. (CHOOSE m \in DOMAIN Powers : Powers[m] = Powers[k]) = k
      BY <1>1, <1>3
    <2> QED
      BY <1>4, <2>1 DEF Worth
  <1>6. Worth(0) = 0
    BY DEF Worth
  <1> QED
    BY <1>5, <1>6

\* A tile twice the value is worth what both were worth, and itself.
LEMMA WorthTwice ==
    /\ \A w \in Values : Worth(w) \in Int
    /\ \A w \in Low : 2 * w \in Values /\ Worth(2 * w) = 2 * Worth(w) + 2 * w
    /\ 0 \in Low /\ 2 \in Low /\ 4 \in Low /\ Worth(0) = 0 /\ Worth(2) = 0 /\ Worth(4) = 4
  <1>1. /\ Worth(0) = 0
        /\ Worth(2) = 0
        /\ Worth(4) = 4
        /\ Worth(8) = 16
        /\ Worth(16) = 48
        /\ Worth(32) = 128
        /\ Worth(64) = 320
        /\ Worth(128) = 768
        /\ Worth(256) = 1792
        /\ Worth(512) = 4096
        /\ Worth(1024) = 9216
        /\ Worth(2048) = 20480
        /\ Worth(4096) = 45056
    BY WorthIs DEF Powers
  <1> QED
    BY <1>1, ValuesAre DEF Low

\* f sums up what is on the board.
Sums(f, t) ==
    f[0] = 0 /\ \A n \in 1 .. ROWS * COLS : f[n] = f[n - 1] + t[n - 1]

\* Total is such a sum.
LEMMA TotalIs ==
    ASSUME NEW t \in [Tiles -> Int]
    PROVE  \E f \in [0 .. ROWS * COLS -> Int] : Sums(f, t) /\ Total(t) = f[ROWS * COLS]
  <1>0. PICK N \in Nat : N = ROWS * COLS /\ Tiles = 0 .. N - 1
    BY BoardSizes DEF Tiles
  <1> DEFINE D == [p \in Nat \X Int |-> IF p[1] \in 1 .. N THEN p[2] + t[p[1] - 1] ELSE p[2]]
             Is(g) == g = [n \in 0 .. N |-> IF n = 0 THEN 0 ELSE g[n - 1] + t[n - 1]]
             upto == CHOOSE g : Is(g)
  <1>1. \A n \in 1 .. N : t[n - 1] \in Int
    BY <1>0
  <1>2. D \in [Nat \X Int -> Int]
    BY <1>1
  <1>3. \A n, b : n \in 1 .. N /\ b \in Int => D[<<n, b>>] = b + t[n - 1]
    BY <1>0
  <1> HIDE DEF D
  <1>4. PICK f \in [0 .. N -> Int] : Iterates(f, N, 0, D)
    <2>1. 0 \in Int
      OBVIOUS
    <2> QED
      BY <1>0, <1>2, <2>1, Recursion
  <1>5. Is(f)
    <2>1. ASSUME NEW n \in 0 .. N
          PROVE  f[n] = IF n = 0 THEN 0 ELSE f[n - 1] + t[n - 1]
      <3>1. CASE n = 0
        BY <1>4, <3>1 DEF Iterates
      <3>2. CASE n # 0
        <4>1. n \in 1 .. N /\ n - 1 \in 0 .. N
          BY <1>0, <3>2
        <4>2. f[n] = D[<<n, f[n - 1]>>] /\ f[n - 1] \in Int
          BY <1>4, <4>1 DEF Iterates
        <4> QED
          BY <1>3, <3>2, <4>1, <4>2
      <3> QED
        BY <3>1, <3>2
    <2> QED
      BY <2>1
  <1>6. Is(upto)
    BY <1>5
  <1>7. Total(t) = upto[N]
    BY <1>0 DEF Total
  <1> HIDE DEF upto
  <1>8. upto[0] = 0 /\ \A n \in 1 .. N : upto[n] = upto[n - 1] + t[n - 1]
    <2>1. ASSUME NEW n \in 0 .. N
          PROVE  upto[n] = IF n = 0 THEN 0 ELSE upto[n - 1] + t[n - 1]
      BY <1>6
    <2>2. 0 \in 0 .. N /\ \A n \in 1 .. N : n \in 0 .. N /\ n # 0
      BY <1>0
    <2> QED
      BY <2>1, <2>2
  <1> DEFINE S == {n \in 0 .. N : upto[n] \in Int}
  <1>9. 0 .. N \subseteq S
    <2>1. 0 \in S
      BY <1>0, <1>8
    <2>2. ASSUME NEW n \in 0 .. N - 1, n \in S PROVE n + 1 \in S
      <3>1. n + 1 \in 1 .. N /\ (n + 1) - 1 = n /\ n + 1 \in 0 .. N
        BY <1>0
      <3>2. upto[n + 1] = upto[n] + t[n] /\ upto[n] \in Int
        BY <1>8, <2>2, <3>1
      <3> QED
        BY <1>1, <3>1, <3>2
    <2> HIDE DEF S
    <2> QED
      BY <1>0, <2>1, <2>2, UpTo
  <1>10. upto \in [0 .. N -> Int]
    <2>1. DOMAIN upto = 0 .. N /\ upto = [n \in 0 .. N |-> upto[n]]
      BY <1>6
    <2> QED
      BY <1>9, <2>1
  <1> QED
    BY <1>0, <1>7, <1>8, <1>10 DEF Sums

\* Two boards that differ in two tiles.
LEMMA TotalTwo ==
    ASSUME NEW s \in [Tiles -> Int], NEW t \in [Tiles -> Int],
           NEW x \in Tiles, NEW y \in Tiles, x # y,
           \A z \in Tiles : z # x /\ z # y => t[z] = s[z]
    PROVE  Total(s) \in Int /\ Total(t) = Total(s) + (t[x] - s[x]) + (t[y] - s[y])
  <1>0. PICK N \in Nat : N = ROWS * COLS /\ Tiles = 0 .. N - 1
    BY BoardSizes DEF Tiles
  <1>1. PICK f \in [0 .. N -> Int] : Sums(f, s) /\ Total(s) = f[N]
    BY <1>0, TotalIs
  <1>2. PICK g \in [0 .. N -> Int] : Sums(g, t) /\ Total(t) = g[N]
    BY <1>0, TotalIs
  <1>3. PICK a \in Int, b \in Int : a = t[x] - s[x] /\ b = t[y] - s[y]
    OBVIOUS
  <1> DEFINE S == {n \in 0 .. N :
                     g[n] = f[n] + (IF x < n THEN a ELSE 0) + (IF y < n THEN b ELSE 0)}
  <1>4. 0 \in S
    BY <1>0, <1>1, <1>2 DEF Sums
  <1>5. ASSUME NEW n \in 0 .. N - 1, n \in S PROVE n + 1 \in S
    <2>1. n + 1 \in 1 .. N /\ (n + 1) - 1 = n /\ n \in Tiles /\ n \in 0 .. N /\ n + 1 \in 0 .. N
      BY <1>0
    <2>2. f[n + 1] = f[n] + s[n] /\ g[n + 1] = g[n] + t[n]
      BY <1>0, <1>1, <1>2, <2>1 DEF Sums
    <2>3. f[n] \in Int /\ g[n] \in Int /\ s[n] \in Int /\ t[n] \in Int /\ x \in Int /\ y \in Int
      <3>1. f[n] \in Int /\ g[n] \in Int
        BY <2>1
      <3>2. s[n] \in Int /\ t[n] \in Int
        BY <2>1
      <3>3. \A z \in 0 .. N - 1 : z \in Int
        OBVIOUS
      <3>4. x \in Int /\ y \in Int
        BY <1>0, <3>3
      <3> QED
        BY <3>1, <3>2, <3>4
    <2>4. g[n] = f[n] + (IF x < n THEN a ELSE 0) + (IF y < n THEN b ELSE 0)
      BY <1>5
    <2>5. t[n] = s[n] + (IF n = x THEN a ELSE 0) + (IF n = y THEN b ELSE 0)
      <3>1. PICK u \in Int, w \in Int : u = s[n] /\ w = t[n]
        BY <2>3
      <3>2. CASE n = x
        <4>1. n # y /\ a = w - u
          BY <1>3, <3>1, <3>2
        <4> QED
          BY <3>1, <3>2, <4>1
      <3>3. CASE n = y
        <4>1. n # x /\ b = w - u
          BY <1>3, <3>1, <3>3
        <4> QED
          BY <3>1, <3>3, <4>1
      <3>4. CASE n # x /\ n # y
        <4>1. w = u
          BY <2>1, <3>1, <3>4
        <4> QED
          BY <3>1, <3>4, <4>1
      <3> QED
        BY <3>2, <3>3, <3>4
    <2>6. g[n + 1] = f[n + 1] + (IF x < n + 1 THEN a ELSE 0) + (IF y < n + 1 THEN b ELSE 0)
      <3>1. PICK c \in Int : c = IF x < n THEN a ELSE 0
        OBVIOUS
      <3>2. PICK d \in Int : d = IF y < n THEN b ELSE 0
        OBVIOUS
      <3>3. PICK u \in Int : u = IF n = x THEN a ELSE 0
        OBVIOUS
      <3>4. PICK w \in Int : w = IF n = y THEN b ELSE 0
        OBVIOUS
      <3>5. (IF x < n + 1 THEN a ELSE 0) = c + u
        BY <2>3, <3>1, <3>3
      <3>6. (IF y < n + 1 THEN b ELSE 0) = d + w
        BY <2>3, <3>2, <3>4
      <3>7. g[n] = f[n] + c + d /\ t[n] = s[n] + u + w
        BY <2>4, <2>5, <3>1, <3>2, <3>3, <3>4
      <3>8. g[n + 1] = f[n + 1] + (c + u) + (d + w)
        <4>1. PICK fn \in Int, gn \in Int, sn \in Int, tn \in Int :
                fn = f[n] /\ gn = g[n] /\ sn = s[n] /\ tn = t[n]
          BY <2>3
        <4>2. f[n + 1] = fn + sn /\ g[n + 1] = gn + tn /\ gn = fn + c + d /\ tn = sn + u + w
          BY <2>2, <3>7, <4>1
        <4> QED
          BY <4>2
      <3> QED
        BY <3>5, <3>6, <3>8
    <2> QED
      BY <2>1, <2>6
  <1>6. N \in S
    <2> HIDE DEF S
    <2>1. 0 .. N \subseteq S
      BY <1>0, <1>4, <1>5, UpTo
    <2> QED
      BY <1>0, <2>1
  <1>7. x < N /\ y < N /\ f[N] \in Int
    BY <1>0
  <1> QED
    BY <1>1, <1>2, <1>3, <1>6, <1>7

\* The empty board.
LEMMA TotalZero ==
    ASSUME NEW t \in [Tiles -> Int], \A i \in Tiles : t[i] = 0
    PROVE  Total(t) = 0
  <1>0. PICK N \in Nat : N = ROWS * COLS /\ Tiles = 0 .. N - 1
    BY BoardSizes DEF Tiles
  <1>1. PICK f \in [0 .. N -> Int] : Sums(f, t) /\ Total(t) = f[N]
    BY <1>0, TotalIs
  <1> DEFINE S == {n \in 0 .. N : f[n] = 0}
  <1>2. 0 \in S
    BY <1>0, <1>1 DEF Sums
  <1>3. ASSUME NEW n \in 0 .. N - 1, n \in S PROVE n + 1 \in S
    <2>1. n + 1 \in 1 .. N /\ (n + 1) - 1 = n /\ n \in Tiles /\ n + 1 \in 0 .. N
      BY <1>0
    <2>2. f[n + 1] = f[n] + t[n]
      BY <1>0, <1>1, <2>1 DEF Sums
    <2> QED
      BY <1>3, <2>1, <2>2
  <1> HIDE DEF S
  <1>4. N \in S
    <2>1. 0 .. N \subseteq S
      BY <1>0, <1>2, <1>3, UpTo
    <2> QED
      BY <1>0, <2>1
  <1> QED
    BY <1>1, <1>4 DEF S

\* What the tiles of a board are worth.
Worths(t) == [i \in Tiles |-> Worth(t[i])]

----------------------------------------------------------------------------
(***************************************************************************)
(* 2048: what a move makes of the tiles.  In the merge pass the tiles that *)
(* are still to be visited have not been merged.                           *)
(***************************************************************************)
Ahead(dir, k) ==
    {z \in Tiles : IF dir \in {"U", "L"} THEN z >= k ELSE z < ROWS * COLS - k}

\* The values of the tiles after n rounds.
Valued(dir, n, t) ==
    /\ \A z \in Tiles : t[z] \in Values
    /\ n <= 4 * Rounds(dir) => \A z \in Tiles : t[z] \in Low
    /\ \A k \in 0 .. Rounds(dir) : n = 4 * Rounds(dir) + k => \A z \in Ahead(dir, k) : t[z] \in Low

\* The pair of round k is among the tiles to be visited, and its first one is
\* not thereafter.
LEMMA AheadIs ==
    ASSUME NEW dir \in Directions, NEW k \in 0 .. Rounds(dir) - 1, NEW i, i = Index(dir, k)
    PROVE  /\ To(dir, i) \in Ahead(dir, k) /\ From(dir, i) \in Ahead(dir, k)
           /\ Ahead(dir, k + 1) \subseteq Ahead(dir, k)
           /\ To(dir, i) \notin Ahead(dir, k + 1)
  <1>1. PICK len \in Nat \ {0}, st \in 1 .. 4, N \in Nat :
           len = Rounds(dir) /\ st = Stride(dir) /\ N = ROWS * COLS /\ N = len + st
    BY RoundsAre, BoardSizes
  <1>2. i \in 0 .. len - 1 /\ To(dir, i) \in Tiles /\ From(dir, i) \in Tiles /\ Tiles = 0 .. N - 1
    BY <1>1, IndexIs, PairIs DEF Tiles
  <1>3. CASE dir \in {"U", "L"}
    <2>1. i = k /\ To(dir, i) = i /\ From(dir, i) = i + st
      BY <1>1, <1>2, <1>3, IndexIs, PairIs
    <2>2. \A m, z : z \in Ahead(dir, m) <=> z \in 0 .. N - 1 /\ z >= m
      BY <1>2, <1>3 DEF Ahead
    <2>3. k \in Nat /\ k + 1 > k /\ i + st \in 0 .. N - 1 /\ i \in 0 .. N - 1 /\ i + st >= k
      BY <1>1, <1>2, <2>1
    <2>4. To(dir, i) \in Ahead(dir, k) /\ From(dir, i) \in Ahead(dir, k)
      BY <2>1, <2>2, <2>3
    <2>5. \A z \in 0 .. N - 1 : z >= k + 1 => z >= k
      BY <2>3
    <2>6. Ahead(dir, k + 1) \subseteq Ahead(dir, k)
      BY <2>2, <2>5
    <2>7. ~(i >= k + 1)
      BY <2>1, <2>3
    <2> QED
      BY <2>1, <2>2, <2>4, <2>6, <2>7
  <1>4. CASE dir \in {"D", "R"}
    <2>1. i = len - 1 - k /\ To(dir, i) = i + st /\ From(dir, i) = i
      BY <1>1, <1>2, <1>4, IndexIs, PairIs
    <2>2. dir \notin {"U", "L"}
      BY <1>4
    <2>3. \A m, z : z \in Ahead(dir, m) <=> z \in 0 .. N - 1 /\ z < N - m
      BY <1>1, <1>2, <2>2 DEF Ahead
    <2>4. k \in Nat /\ k <= len - 1 /\ To(dir, i) = N - 1 - k /\ From(dir, i) = len - 1 - k
      BY <1>1, <2>1
    <2>5. \A z : z \in Ahead(dir, k) <=> z \in 0 .. N - 1 /\ z < N - k
      BY <2>3
    <2>6. \A z : z \in Ahead(dir, k + 1) <=> z \in 0 .. N - 1 /\ z < N - (k + 1)
      BY <2>3
    <2>7. To(dir, i) \in Ahead(dir, k) /\ From(dir, i) \in Ahead(dir, k)
      BY <1>1, <2>4, <2>5
    <2>8. Ahead(dir, k + 1) \subseteq Ahead(dir, k)
      BY <1>1, <2>4, <2>5, <2>6
    <2>9. To(dir, i) \notin Ahead(dir, k + 1)
      BY <1>1, <2>4, <2>6
    <2> QED
      BY <2>7, <2>8, <2>9
  <1> QED
    BY <1>3, <1>4 DEF Directions

\* A round that merges merges low tiles.
MergesLow(dir, j, i, b) ==
    j = 4 /\ b.t[To(dir, i)] = b.t[From(dir, i)] => b.t[To(dir, i)] \in Low

\* A round keeps the values.
LEMMA DoesValued ==
    ASSUME NEW dir \in Directions, NEW j \in 0 .. 5, NEW k \in 0 .. Rounds(dir) - 1,
           NEW n, n = j * Rounds(dir) + k + 1, NEW i, i = Index(dir, k),
           NEW b \in Games, NEW r \in Games, Does(dir, j, i, b, r), Valued(dir, n - 1, b.t)
    PROVE  Valued(dir, n, r.t) /\ MergesLow(dir, j, i, b)
  <1>1. PICK len \in Nat \ {0} : len = Rounds(dir)
    BY RoundsAre
  <1>2. PICK x \in Tiles, y \in Tiles : x = To(dir, i) /\ y = From(dir, i) /\ x # y
    BY IndexIs, PairIs
  <1>3. /\ Low \subseteq Values /\ 0 \in Low /\ \A w \in Low : 2 * w \in Values
        /\ \A z \in Tiles : b.t[z] \in Values
    BY WorthTwice DEF Valued, Low
  <1>4. n \in Nat /\ n - 1 = j * len + k
    <2>1. PICK a \in Nat : a = j * len
      BY <1>1
    <2>2. n = a + k + 1 /\ k \in Nat
      BY <1>1, <2>1
    <2> QED
      BY <2>1, <2>2
  <1>5. CASE j \in 0 .. 3
    <2>1. n <= 4 * len /\ n - 1 <= 4 * len
      <3>1. j = 0 \/ j = 1 \/ j = 2 \/ j = 3
        BY <1>5
      <3>2. n = j * len + k + 1 /\ k \in 0 .. len - 1
        BY <1>1
      <3> QED
        BY <3>1, <3>2
    <2>2. \A z \in Tiles : b.t[z] \in Low
      BY <1>1, <2>1 DEF Valued
    <2>3. j # 4
      BY <1>5
    <2>4. ASSUME NEW z \in Tiles PROVE r.t[z] \in Low
      BY <1>2, <1>3, <2>2, <2>3 DEF Does, Slides, Goes
    <2>5. \A m : \A z \in Ahead(dir, m) : r.t[z] \in Low
      BY <2>4 DEF Ahead
    <2> QED
      BY <1>3, <2>3, <2>4, <2>5 DEF Valued, MergesLow
  <1>6. CASE j = 4
    <2>1. n - 1 = 4 * Rounds(dir) + k /\ k \in 0 .. Rounds(dir)
      BY <1>1, <1>4, <1>6
    <2>2. \A z \in Ahead(dir, k) : b.t[z] \in Low
      BY <2>1 DEF Valued
    <2>3. b.t[x] \in Low /\ b.t[y] \in Low
      BY <1>2, <2>2, AheadIs
    <2>4. ASSUME NEW z \in Tiles PROVE r.t[z] \in Values
      BY <1>2, <1>3, <1>6, <2>3 DEF Does, Joins, Goes
    <2>5. ASSUME NEW z \in Ahead(dir, k + 1) PROVE r.t[z] \in Low
      <3>1. z # x /\ z \in Ahead(dir, k) /\ z \in Tiles
        BY <1>2, AheadIs DEF Ahead
      <3> QED
        BY <1>2, <1>3, <1>6, <2>2, <3>1 DEF Does, Joins, Goes
    <2>6. ~(n <= 4 * len) /\ \A m \in 0 .. len : n = 4 * len + m => m = k + 1
      BY <1>1, <1>4, <1>6
    <2>7. Valued(dir, n, r.t)
      BY <1>1, <2>4, <2>5, <2>6 DEF Valued
    <2> QED
      BY <1>2, <2>3, <2>7 DEF MergesLow
  <1>7. CASE j = 5
    <2>1. ASSUME NEW z \in Tiles PROVE r.t[z] \in Values
      BY <1>2, <1>3, <1>7 DEF Does, Slides, Goes
    <2>2. ~(n <= 4 * len) /\ \A m \in 0 .. len : n # 4 * len + m
      BY <1>1, <1>4, <1>7
    <2> QED
      BY <1>1, <1>7, <2>1, <2>2 DEF Valued, MergesLow
  <1> QED
    BY <1>5, <1>6, <1>7

\* Board b has the tiles of t, and what it has gained by merging them.
Accounts(t, b) ==
    /\ Total(b.t) = Total(t)
    /\ Total(Worths(b.t)) = Total(Worths(t)) + b.gain

\* A tile that goes to another.
LEMMA GoesAccounts ==
    ASSUME NEW t, NEW b \in Games, NEW r \in Games, Accounts(t, b), Total(Worths(t)) \in Int,
           NEW x \in Tiles, NEW y \in Tiles, x # y, NEW a \in Values, NEW g \in Nat,
           Goes(b, r, x, y, a, g),
           \A z \in Tiles : b.t[z] \in Values /\ r.t[z] \in Values,
           a = b.t[x] + b.t[y], Worth(a) = Worth(b.t[x]) + Worth(b.t[y]) + g
    PROVE  Accounts(t, r)
  <1>1. /\ r.t[x] = a /\ r.t[y] = 0 /\ r.gain = b.gain + g
        /\ \A z \in Tiles : z # x /\ z # y => r.t[z] = b.t[z]
    BY DEF Goes
  <1>2. b.t \in Boards /\ r.t \in Boards /\ b.gain \in Nat
    BY DEF Games
  <1>3. b.t \in [Tiles -> Int] /\ r.t \in [Tiles -> Int]
    BY <1>2 DEF Boards
  <1>4. Worths(b.t) \in [Tiles -> Int] /\ Worths(r.t) \in [Tiles -> Int]
    BY WorthTwice DEF Worths
  <1>5. Total(b.t) \in Int /\ Total(r.t) = Total(b.t) + (r.t[x] - b.t[x]) + (r.t[y] - b.t[y])
    BY <1>1, <1>3, TotalTwo
  <1>6. /\ Total(Worths(b.t)) \in Int
        /\ Total(Worths(r.t)) = Total(Worths(b.t)) + (Worths(r.t)[x] - Worths(b.t)[x])
                                  + (Worths(r.t)[y] - Worths(b.t)[y])
    <2>1. \A z \in Tiles : z # x /\ z # y => Worths(r.t)[z] = Worths(b.t)[z]
      BY <1>1 DEF Worths
    <2> QED
      BY <1>4, <2>1, TotalTwo
  <1>7. /\ Worths(r.t)[x] = Worth(a) /\ Worths(r.t)[y] = 0
        /\ Worths(b.t)[x] = Worth(b.t[x]) /\ Worths(b.t)[y] = Worth(b.t[y])
    BY <1>1, WorthTwice DEF Worths
  <1>8. Worth(b.t[x]) \in Int /\ Worth(b.t[y]) \in Int /\ b.t[x] \in Int /\ b.t[y] \in Int
    BY <1>3, WorthTwice
  <1>9. Total(r.t) = Total(b.t)
    BY <1>1, <1>5, <1>8
  <1>10. Total(Worths(r.t)) = Total(Worths(b.t)) + g
    BY <1>6, <1>7, <1>8
  <1>11. Total(Worths(b.t)) + g = Total(Worths(t)) + r.gain
    <2>1. Total(Worths(b.t)) = Total(Worths(t)) + b.gain
      BY DEF Accounts
    <2> QED
      BY <1>1, <1>2, <2>1
  <1> QED
    BY <1>9, <1>10, <1>11 DEF Accounts

\* A round.
LEMMA DoesAccounts ==
    ASSUME NEW dir \in Directions, NEW j, NEW i \in 0 .. Rounds(dir) - 1,
           NEW b \in Games, NEW r \in Games, Does(dir, j, i, b, r), MergesLow(dir, j, i, b),
           NEW t, Accounts(t, b), Total(Worths(t)) \in Int,
           \A z \in Tiles : b.t[z] \in Values /\ r.t[z] \in Values
    PROVE  Accounts(t, r)
  <1>1. PICK x \in Tiles, y \in Tiles : x = To(dir, i) /\ y = From(dir, i) /\ x # y
    BY PairIs
  <1>2. /\ b.t[x] \in Values /\ b.t[y] \in Values /\ b.t[x] \in Nat /\ b.t[y] \in Nat
        /\ Worth(b.t[x]) \in Int /\ Worth(b.t[y]) \in Int /\ Worth(0) = 0
    BY ValuesAre, WorthTwice
  <1>3. CASE r = b
    BY <1>3
  <1>4. CASE b.t[x] = 0 /\ Goes(b, r, x, y, b.t[y], 0)
    <2>1. PICK a \in Values : a = b.t[y]
      BY <1>2
    <2>2. /\ Goes(b, r, x, y, a, 0) /\ a = b.t[x] + b.t[y]
          /\ Worth(a) = Worth(b.t[x]) + Worth(b.t[y]) + 0
      BY <1>2, <1>4, <2>1
    <2> QED
      BY <1>1, <2>2, GoesAccounts
  <1>5. CASE j = 4 /\ b.t[x] = b.t[y] /\ Goes(b, r, x, y, 2 * b.t[x], 2 * b.t[x])
    <2>1. b.t[x] \in Low
      BY <1>1, <1>5 DEF MergesLow
    <2>2. PICK a \in Values : a = 2 * b.t[x] /\ a \in Nat /\ Worth(a) = 2 * Worth(b.t[x]) + a
      BY <1>2, <2>1, WorthTwice
    <2>3. /\ Goes(b, r, x, y, a, a) /\ a = b.t[x] + b.t[y]
          /\ Worth(a) = Worth(b.t[x]) + Worth(b.t[y]) + a
      BY <1>2, <1>5, <2>2
    <2> QED
      BY <1>1, <2>2, <2>3, GoesAccounts
  <1> QED
    BY <1>1, <1>3, <1>4, <1>5 DEF Does, Slides, Joins

\* A move of low tiles.
LEMMA MoveAccounts ==
    ASSUME NEW t \in [Tiles -> Low], NEW dir \in Directions
    PROVE  /\ t \in Boards /\ move_tile(t, dir) \in Games
           /\ move_tile(t, dir).t \in [Tiles -> Values]
           /\ Accounts(t, move_tile(t, dir)) /\ Total(t) \in Int /\ Total(Worths(t)) \in Int
  <1>0. PICK len \in Nat \ {0}, N \in Nat : len = Rounds(dir) /\ N = 6 * len
    BY RoundsAre
  <1>1. Low \subseteq Values /\ Values \subseteq Nat /\ \A w \in Values : Worth(w) \in Int
    BY ValuesAre, WorthTwice DEF Low
  <1>2. t \in Boards /\ t \in [Tiles -> Int] /\ Worths(t) \in [Tiles -> Int]
    <2>1. ASSUME NEW z \in Tiles PROVE t[z] \in Nat /\ t[z] \in Int /\ Worth(t[z]) \in Int
      <3>1. t[z] \in Values
        BY <1>1
      <3>2. t[z] \in Nat
        BY <1>1, <3>1
      <3> QED
        BY <1>1, <3>1, <3>2
    <2>2. t \in Boards
      BY <2>1 DEF Boards
    <2>3. t \in [Tiles -> Int]
      BY <2>1
    <2>4. Worths(t) \in [Tiles -> Int]
      BY <2>1 DEF Worths
    <2> QED
      BY <2>2, <2>3, <2>4
  <1>3. PICK f : Plays(f, t, dir) /\ move_tile(t, dir) = f[N]
    BY <1>0, <1>2, MoveIs
  <1>4. f \in [0 .. N -> Games] /\ f[0] = [t |-> t, gain |-> 0]
    BY <1>0, <1>3 DEF Plays
  <1>5. Total(t) \in Int /\ Total(Worths(t)) \in Int
    <2>1. ASSUME NEW s \in [Tiles -> Int] PROVE Total(s) \in Int
      <3>1. PICK g \in [0 .. ROWS * COLS -> Int] : Total(s) = g[ROWS * COLS]
        BY TotalIs
      <3> QED
        BY <3>1, BoardSizes
    <2> QED
      BY <1>2, <2>1
  <1> DEFINE S == {n \in 0 .. N : Valued(dir, n, f[n].t) /\ Accounts(t, f[n])}
  <1>6. 0 \in S
    <2>1. f[0].t = t /\ f[0].gain = 0
      BY <1>4
    <2>2. Accounts(t, f[0])
      BY <1>5, <2>1 DEF Accounts
    <2>3. Valued(dir, 0, f[0].t)
      BY <1>1, <2>1 DEF Valued, Ahead
    <2> QED
      BY <1>0, <2>2, <2>3
  <1>7. ASSUME NEW n \in 0 .. N - 1, n \in S PROVE n + 1 \in S
    <2>1. PICK e \in 1 .. 6 * Rounds(dir) :
             e = n + 1 /\ e - 1 = n /\ n \in 0 .. N /\ e \in 0 .. N
      BY <1>0
    <2>2. /\ TileOf(dir, e) \in 0 .. Rounds(dir) - 1
          /\ Does(dir, PassOf(dir, e), TileOf(dir, e), f[n], f[e])
          /\ f[n] \in Games /\ f[e] \in Games
      BY <1>0, <1>3, <1>4, <2>1 DEF Plays
    <2>3. PICK j \in 0 .. 5, k \in 0 .. Rounds(dir) - 1 :
             /\ e = j * Rounds(dir) + k + 1
             /\ PassOf(dir, e) = j /\ TileOf(dir, e) = Index(dir, k)
      BY RoundIn
    <2>4. Valued(dir, e - 1, f[n].t) /\ Accounts(t, f[n])
      BY <1>7, <2>1
    <2>5. PICK i : i = Index(dir, k) /\ Does(dir, j, i, f[n], f[e]) /\ i \in 0 .. Rounds(dir) - 1
      BY <2>2, <2>3
    <2>6. Valued(dir, e, f[e].t) /\ MergesLow(dir, j, i, f[n])
      BY <2>2, <2>3, <2>4, <2>5, DoesValued
    <2>7. \A z \in Tiles : f[n].t[z] \in Values /\ f[e].t[z] \in Values
      BY <2>4, <2>6 DEF Valued
    <2>8. Accounts(t, f[e])
      BY <1>5, <2>2, <2>4, <2>5, <2>6, <2>7, DoesAccounts
    <2> QED
      BY <2>1, <2>6, <2>8
  <1>8. N \in S /\ f[N] \in Games
    <2> HIDE DEF S
    <2>1. 0 .. N \subseteq S
      BY <1>0, <1>6, <1>7, UpTo
    <2> QED
      BY <1>0, <1>4, <2>1
  <1>9. f[N].t \in [Tiles -> Values]
    <2>1. f[N].t \in Boards /\ \A z \in Tiles : f[N].t[z] \in Values
      BY <1>8 DEF Valued, Games
    <2> QED
      BY <2>1 DEF Boards
  <1> QED
    BY <1>2, <1>3, <1>5, <1>8, <1>9

----------------------------------------------------------------------------
(***************************************************************************)
(* 2048: the game.                                                         *)
(***************************************************************************)
Screens == [tile : [Tiles -> Values], score : Int, info : {"normal", "win", "lose"}]

NotEmpty(t) == \E i \in Tiles : t[i] # 0

\* The sums of ScoreIsEarned.
Earned(t, n, s) ==
    /\ Total(t) = 2 * n[2] + 4 * n[4]
    /\ s = Total(Worths(t)) - 4 * n[4]

Stuck(t) == \A dir \in Directions : move_tile(t, dir).t = t

\* A placed tile.
Puts(t, p) ==
    \E i \in Tiles : t[i] = 0 /\ p.v \in {2, 4} /\ p.t = [t EXCEPT ![i] = p.v]

\* A tile is placed where there is room.
LEMMA PlaceIs ==
    ASSUME NEW t \in [Tiles -> Values], ~Full(t), NEW p \in place_tile(t)
    PROVE  Puts(t, p) /\ p.t \in [Tiles -> Values] /\ NotEmpty(p.t)
  <1>1. {i \in Tiles : t[i] = 0} # {}
    BY DEF Full
  <1>2. PICK i \in Tiles, w \in {2, 4} : t[i] = 0 /\ p = [t |-> [t EXCEPT ![i] = w], v |-> w]
    BY <1>1 DEF place_tile
  <1>3. p.v = w /\ p.t = [t EXCEPT ![i] = w]
    BY <1>2
  <1>4. w \in Values
    BY ValuesAre
  <1>5. p.t \in [Tiles -> Values] /\ p.t[i] = w
    BY <1>3, <1>4
  <1>6. Puts(t, p)
    BY <1>2, <1>3 DEF Puts
  <1>7. NotEmpty(p.t)
    <2>1. w # 0
      OBVIOUS
    <2> QED
      BY <1>5, <2>1 DEF NotEmpty
  <1> QED
    BY <1>5, <1>6, <1>7

\* The sums of a board are numbers.
LEMMA TotalNumber ==
    ASSUME NEW t \in [Tiles -> Values]
    PROVE  /\ t \in Boards /\ t \in [Tiles -> Int] /\ Worths(t) \in [Tiles -> Int]
           /\ Total(t) \in Int /\ Total(Worths(t)) \in Int
  <1>1. ASSUME NEW z \in Tiles PROVE t[z] \in Nat /\ t[z] \in Int /\ Worth(t[z]) \in Int
    <2>1. t[z] \in Values
      OBVIOUS
    <2>2. t[z] \in Nat
      BY <2>1, ValuesAre
    <2> QED
      BY <2>1, <2>2, WorthTwice
  <1>2. t \in Boards
    BY <1>1 DEF Boards
  <1>3. t \in [Tiles -> Int]
    BY <1>1
  <1>4. Worths(t) \in [Tiles -> Int]
    BY <1>1 DEF Worths
  <1>5. ASSUME NEW s \in [Tiles -> Int] PROVE Total(s) \in Int
    <2>1. PICK g \in [0 .. ROWS * COLS -> Int] : Total(s) = g[ROWS * COLS]
      BY TotalIs
    <2> QED
      BY <2>1, BoardSizes
  <1> QED
    BY <1>2, <1>3, <1>4, <1>5

\* A placed tile is counted.
LEMMA PlaceEarned ==
    ASSUME NEW t \in [Tiles -> Values], NEW p, Puts(t, p), p.t \in [Tiles -> Values],
           NEW n \in [{2, 4} -> Nat], NEW s \in Int, Earned(t, n, s)
    PROVE  Earned(p.t, Count(n, p.v), s) /\ Count(n, p.v) \in [{2, 4} -> Nat]
  <1>1. PICK i \in Tiles, w \in {2, 4} : t[i] = 0 /\ p.v = w /\ p.t = [t EXCEPT ![i] = w]
    BY DEF Puts
  <1>2. PICK y \in Tiles : y # i
    <2>1. 0 \in Tiles /\ 1 \in Tiles
      BY BoardSizes DEF Tiles
    <2> QED
      BY <2>1
  <1>3. /\ p.t[i] = w /\ p.t[y] = t[y] /\ \A z \in Tiles : z # i /\ z # y => p.t[z] = t[z]
    BY <1>1, <1>2
  <1>4. /\ t \in [Tiles -> Int] /\ p.t \in [Tiles -> Int]
        /\ Worths(t) \in [Tiles -> Int] /\ Worths(p.t) \in [Tiles -> Int]
        /\ Total(t) \in Int /\ Total(Worths(t)) \in Int
    BY TotalNumber
  <1>5. Total(p.t) = Total(t) + w
    <2>1. Total(p.t) = Total(t) + (p.t[i] - t[i]) + (p.t[y] - t[y])
      BY <1>2, <1>3, <1>4, TotalTwo
    <2>2. t[y] \in Int /\ w \in Int
      BY <1>4
    <2>3. PICK a \in Int, c \in Int : a = Total(t) /\ c = t[y]
      BY <1>4, <2>2
    <2>4. Total(p.t) = a + (w - 0) + (c - c)
      BY <1>1, <1>3, <2>1, <2>3
    <2> QED
      BY <2>2, <2>3, <2>4
  <1>6. Total(Worths(p.t)) = Total(Worths(t)) + Worth(w)
    <2>1. \A z \in Tiles : Worths(t)[z] = Worth(t[z]) /\ Worths(p.t)[z] = Worth(p.t[z])
      BY DEF Worths
    <2>2. \A z \in Tiles : z # i /\ z # y => Worths(p.t)[z] = Worths(t)[z]
      BY <1>3, <2>1
    <2>3. Total(Worths(p.t)) = Total(Worths(t)) + (Worths(p.t)[i] - Worths(t)[i])
                                 + (Worths(p.t)[y] - Worths(t)[y])
      BY <1>2, <1>4, <2>2, TotalTwo
    <2>4. Worths(p.t)[i] = Worth(w) /\ Worths(t)[i] = 0 /\ Worths(p.t)[y] = Worths(t)[y]
      <3>1. Worth(0) = 0
        BY WorthTwice
      <3>2. Worths(p.t)[i] = Worth(w) /\ Worths(p.t)[y] = Worths(t)[y]
        BY <1>3, <2>1
      <3>3. Worths(t)[i] = Worth(0)
        BY <1>1, <2>1
      <3> QED
        BY <3>1, <3>2, <3>3
    <2>5. Worths(t)[y] \in Int
      BY <1>4
    <2>6. Worth(w) \in Int
      BY WorthTwice DEF Low
    <2>7. PICK a \in Int, c \in Int, d \in Int :
             a = Total(Worths(t)) /\ c = Worths(t)[y] /\ d = Worth(w)
      BY <1>4, <2>5, <2>6
    <2>8. Total(Worths(p.t)) = a + (d - 0) + (c - c)
      BY <2>3, <2>4, <2>7
    <2> QED
      BY <2>7, <2>8
  <1>7. PICK m \in [{2, 4} -> Nat] : m = Count(n, p.v) /\ m = [n EXCEPT ![w] = n[w] + 1]
    <2>1. Count(n, p.v) = [n EXCEPT ![w] = n[w] + 1]
      BY <1>1 DEF Count
    <2>2. n[w] + 1 \in Nat
      OBVIOUS
    <2>3. [n EXCEPT ![w] = n[w] + 1] \in [{2, 4} -> Nat]
      BY <2>2
    <2> QED
      BY <2>1, <2>3
  <1>8. Total(t) = 2 * n[2] + 4 * n[4] /\ s = Total(Worths(t)) - 4 * n[4] /\ n[2] \in Nat /\ n[4] \in Nat
    BY DEF Earned
  <1>9. Worth(2) = 0 /\ Worth(4) = 4
    BY WorthTwice
  <1>10. CASE w = 2
    <2>1. m[2] = n[2] + 1 /\ m[4] = n[4]
      BY <1>7, <1>10
    <2>2. Earned(p.t, m, s)
      BY <1>4, <1>5, <1>6, <1>8, <1>9, <1>10, <2>1 DEF Earned
    <2> QED
      BY <1>7, <2>2
  <1>11. CASE w = 4
    <2>1. m[2] = n[2] /\ m[4] = n[4] + 1
      BY <1>7, <1>11
    <2>2. Earned(p.t, m, s)
      BY <1>4, <1>5, <1>6, <1>8, <1>9, <1>11, <2>1 DEF Earned
    <2> QED
      BY <1>7, <2>2
  <1> QED
    BY <1>10, <1>11

\* A new game has two tiles, and room for more.
LEMMA NewGame ==
    ASSUME NEW game \in NewGames
    PROVE  /\ game.t \in [Tiles -> Values] /\ NotEmpty(game.t) /\ ~Full(game.t)
           /\ game.placed \in [{2, 4} -> Nat] /\ Earned(game.t, game.placed, 0)
  <1>1. PICK zero : zero = [i \in Tiles |-> 0]
    OBVIOUS
  <1>2. PICK none : none = [w \in {2, 4} |-> 0]
    OBVIOUS
  <1>0. PICK a \in place_tile(zero) : \E b \in place_tile(a.t) :
           game = [t |-> b.t, placed |-> Count(Count(none, a.v), b.v)]
    BY <1>1, <1>2 DEF NewGames
  <1>3. PICK b \in place_tile(a.t) :
           game = [t |-> b.t, placed |-> Count(Count(none, a.v), b.v)]
    BY <1>0
  <1>4. {0, 1, 2, 3} \subseteq Tiles
    BY BoardSizes DEF Tiles
  <1>5. zero \in [Tiles -> Values] /\ ~Full(zero) /\ \A i \in Tiles : zero[i] = 0
    BY <1>1, <1>4, ValuesAre DEF Full
  <1>6. none \in [{2, 4} -> Nat] /\ none[2] = 0 /\ none[4] = 0
    BY <1>2
  <1>7. Earned(zero, none, 0)
    <2>1. Total(zero) = 0
      BY <1>5, TotalNumber, TotalZero
    <2>2. \A i \in Tiles : Worths(zero)[i] = 0
      BY <1>5, WorthTwice DEF Worths
    <2>3. Total(Worths(zero)) = 0
      BY <1>5, <2>2, TotalNumber, TotalZero
    <2> QED
      BY <1>6, <2>1, <2>3 DEF Earned
  <1>8. Puts(zero, a) /\ a.t \in [Tiles -> Values]
    BY <1>5, PlaceIs
  <1>9. Earned(a.t, Count(none, a.v), 0) /\ Count(none, a.v) \in [{2, 4} -> Nat]
    BY <1>5, <1>6, <1>7, <1>8, PlaceEarned
  <1>10. PICK i \in Tiles : \A z \in Tiles : z # i => a.t[z] = 0
    BY <1>5, <1>8 DEF Puts
  <1>11. ~Full(a.t)
    BY <1>4, <1>10 DEF Full
  <1>12. Puts(a.t, b) /\ b.t \in [Tiles -> Values] /\ NotEmpty(b.t)
    BY <1>8, <1>11, PlaceIs
  <1>13. PICK k \in Tiles : \A z \in Tiles : z # k => b.t[z] = a.t[z]
    BY <1>8, <1>12 DEF Puts
  <1>14. \E z \in Tiles : z # i /\ z # k
    BY <1>4
  <1>15. ~Full(b.t)
    BY <1>10, <1>13, <1>14 DEF Full
  <1>16. Earned(b.t, Count(Count(none, a.v), b.v), 0) /\ Count(Count(none, a.v), b.v) \in [{2, 4} -> Nat]
    BY <1>8, <1>9, <1>12, PlaceEarned
  <1> QED
    BY <1>3, <1>12, <1>15, <1>16

\* A board with tiles and room can be played.
LEMMA RoomToPlay ==
    ASSUME NEW t \in [Tiles -> Values], NotEmpty(t), ~Full(t)
    PROVE  ~Stuck(t)
  <1>1. t \in Boards
    BY TotalNumber
  <1>2. SUFFICES ASSUME Stuck(t) PROVE FALSE
    OBVIOUS
  <1>3. PICK e \in Tiles : t[e] = 0
    BY DEF Full
  <1>4. \A i \in Tiles : t[i] = 0
    BY <1>1, <1>2, <1>3, StuckEmpty DEF Stuck
  <1> QED
    BY <1>4 DEF NotEmpty

\* The head of the loop.
LEMMA LoopHeadIs ==
    ASSUME NEW t \in [Tiles -> Values], NotEmpty(t), NEW drawn \in Screens, reached \in BOOLEAN,
           LoopHead(t, drawn)
    PROVE  /\ tile' = t /\ phase' \in {"turn", "lost"} /\ (phase' = "lost" <=> Stuck(t))
           /\ reached' \in BOOLEAN /\ shown' \in Screens
           /\ shown'.tile = drawn.tile /\ shown'.score = drawn.score
  <1>1. t \in Boards
    BY TotalNumber
  <1>2. check_end(t).t = t /\ (check_end(t).over <=> Stuck(t))
    BY <1>1, EndIsStuck DEF NotEmpty, Stuck
  <1>3. tile' = t
    BY <1>2 DEF LoopHead
  <1>4. phase' = IF check_end(t).over THEN "lost" ELSE "turn"
    BY DEF LoopHead
  <1>5. phase' \in {"turn", "lost"} /\ (phase' = "lost" <=> Stuck(t))
    BY <1>2, <1>4
  <1>6. reached' \in BOOLEAN
    BY DEF LoopHead
  <1>7. PICK info : /\ shown' = [drawn EXCEPT !.info = info]
                    /\ info \in {"normal", "win", "lose", drawn.info}
    <2>1. PICK won : won = \E i \in Tiles : t[i] = GOAL
      OBVIOUS
    <2>2. PICK over : over = check_end(t).over
      OBVIOUS
    <2>3. PICK info : info = CASE over -> "lose"
                               [] ~over /\ reached -> "normal"
                               [] ~over /\ ~reached /\ won -> "win"
                               [] OTHER -> drawn.info
      OBVIOUS
    <2>4. shown' = [drawn EXCEPT !.info = info]
      BY <2>1, <2>2, <2>3 DEF LoopHead
    <2>5. info \in {"normal", "win", "lose", drawn.info}
      BY <2>3
    <2> QED
      BY <2>4, <2>5
  <1>8. shown' \in Screens /\ shown'.tile = drawn.tile /\ shown'.score = drawn.score
    BY <1>7 DEF Screens
  <1> QED
    BY <1>3, <1>5, <1>6, <1>8

\* The inductive invariant: the tiles are values print_tile knows and not all
\* empty, they add up to what was placed and earned, the game is lost if and
\* only if it is stuck, and the screen shows board and score.
GameInv ==
    /\ tile \in [Tiles -> Values] /\ NotEmpty(tile)
    /\ score \in Int /\ reached \in BOOLEAN /\ placed \in [{2, 4} -> Nat]
    /\ phase \in {"turn", "lost", "end"} /\ shown \in Screens
    /\ Earned(tile, placed, score)
    /\ phase # "end" => (phase = "lost" <=> Stuck(tile))
    /\ shown.tile = tile /\ shown.score = score

\* A new game is one.
LEMMA GameStart == GameInit => GameInv
  <1> SUFFICES ASSUME GameInit PROVE GameInv
    OBVIOUS
  <1>1. PICK game \in NewGames :
          /\ tile = game.t /\ placed = game.placed
          /\ shown = [tile |-> game.t, score |-> 0, info |-> "normal"]
    BY DEF GameInit
  <1>2. score = 0 /\ reached = FALSE /\ phase = "turn"
    BY DEF GameInit
  <1>3. /\ tile \in [Tiles -> Values] /\ NotEmpty(tile) /\ ~Full(tile)
        /\ placed \in [{2, 4} -> Nat] /\ Earned(tile, placed, 0)
    BY <1>1, NewGame
  <1>4. ~Stuck(tile)
    BY <1>3, RoomToPlay
  <1>5. shown \in Screens /\ shown.tile = tile /\ shown.score = 0
    BY <1>1, <1>3 DEF Screens
  <1>6. Earned(tile, placed, score) /\ score \in Int /\ reached \in BOOLEAN /\ shown.score = score
    <2>1. score = 0 /\ 0 \in Int
      BY <1>2
    <2>2. reached \in BOOLEAN
      BY <1>2
    <2> QED
      BY <1>3, <1>5, <2>1, <2>2
  <1>7. phase \in {"turn", "lost", "end"} /\ phase # "lost"
    BY <1>2
  <1> QED
    BY <1>3, <1>4, <1>5, <1>6, <1>7 DEF GameInv

\* From the head of the loop on, with everything drawn.
LEMMA GameGoesOn ==
    ASSUME GameInv, NEW t \in [Tiles -> Values], NotEmpty(t), NEW drawn \in Screens,
           LoopHead(t, drawn), drawn.tile = t, drawn.score = score', score' \in Int,
           placed' \in [{2, 4} -> Nat], Earned(t, placed', score')
    PROVE  GameInv'
  <1>1. reached \in BOOLEAN
    BY DEF GameInv
  <1>2. /\ tile' = t /\ phase' \in {"turn", "lost"} /\ (phase' = "lost" <=> Stuck(t))
        /\ reached' \in BOOLEAN /\ shown' \in Screens
        /\ shown'.tile = drawn.tile /\ shown'.score = drawn.score
    BY <1>1, LoopHeadIs
  <1>3. tile' \in [Tiles -> Values] /\ NotEmpty(tile')
    BY <1>2
  <1>4. Earned(tile', placed', score')
    BY <1>2
  <1>5. phase' = "lost" <=> Stuck(tile')
    BY <1>2
  <1> QED
    BY <1>2, <1>3, <1>4, <1>5 DEF GameInv

\* A direction key.
LEMMA GameMove ==
    ASSUME GameInv, NEW dir \in Directions, Move(dir)
    PROVE  GameInv'
  <1>1. /\ tile \in [Tiles -> Values] /\ NotEmpty(tile) /\ score \in Int
        /\ placed \in [{2, 4} -> Nat] /\ shown \in Screens /\ Earned(tile, placed, score)
        /\ shown.tile = tile /\ shown.score = score
    BY DEF GameInv
  <1>2. tile \in [Tiles -> Low]
    <2>1. ASSUME NEW i \in Tiles PROVE tile[i] \in Low
      <3>1. tile[i] <= MaxTile /\ tile[i] \in Values
        BY <1>1 DEF Move
      <3>2. MaxTile \in 0 .. 4095
        BY BoardAssumption
      <3>3. tile[i] # 4096
        <4>1. tile[i] \in Nat
          BY <3>1, ValuesAre
        <4>2. PICK w \in Nat : w = tile[i]
          BY <4>1
        <4>3. PICK m \in Nat : m = MaxTile /\ m <= 4095
          BY <3>2
        <4>4. w <= m
          BY <3>1, <4>2, <4>3
        <4>5. w # 4096
          BY <4>3, <4>4
        <4> QED
          BY <4>2, <4>5
      <3> QED
        BY <3>1, <3>3 DEF Low
    <2> QED
      BY <1>1, <2>1
  <1>3. PICK moved : moved = move_tile(tile, dir)
    OBVIOUS
  <1>4. /\ tile \in Boards /\ moved \in Games /\ moved.t \in [Tiles -> Values]
        /\ Accounts(tile, moved) /\ Total(tile) \in Int /\ Total(Worths(tile)) \in Int
    BY <1>2, <1>3, MoveAccounts
  <1>5. /\ score' = score + moved.gain
        /\ moved.t = tile => LoopHead(tile, shown) /\ placed' = placed
        /\ moved.t # tile => \E p \in place_tile(moved.t) :
              /\ LoopHead(p.t, [shown EXCEPT !.tile = p.t, !.score = score'])
              /\ placed' = Count(placed, p.v)
    BY <1>3 DEF Move
  <1>6. moved.gain \in Nat /\ score' \in Int
    <2>1. moved.gain \in Nat
      BY <1>4 DEF Games
    <2>2. score \in Int /\ score' = score + moved.gain
      BY <1>1, <1>5
    <2> QED
      BY <2>1, <2>2
  <1>7. Earned(moved.t, placed, score')
    <2>1. /\ Total(moved.t) = Total(tile)
          /\ Total(Worths(moved.t)) = Total(Worths(tile)) + moved.gain
      BY <1>4 DEF Accounts
    <2>2. /\ Total(tile) = 2 * placed[2] + 4 * placed[4]
          /\ score = Total(Worths(tile)) - 4 * placed[4] /\ placed[4] \in Nat
      BY <1>1 DEF Earned
    <2>3. score' = Total(Worths(moved.t)) - 4 * placed[4]
      <3>1. PICK a \in Int, c \in Int : a = Total(Worths(tile)) /\ c = 4 * placed[4]
        BY <1>4, <2>2
      <3>2. score = a - c /\ Total(Worths(moved.t)) = a + moved.gain
        BY <2>1, <2>2, <3>1
      <3>3. score' = (a - c) + moved.gain
        BY <1>5, <3>2
      <3>4. (a - c) + moved.gain = (a + moved.gain) - c
        BY <1>6, <3>1
      <3> QED
        BY <3>1, <3>2, <3>3, <3>4
    <2> QED
      BY <2>1, <2>2, <2>3 DEF Earned
  <1>8. CASE moved.t = tile
    <2>1. LoopHead(tile, shown) /\ placed' = placed
      BY <1>5, <1>8
    <2>2. score' = score
      <3>1. score = Total(Worths(tile)) - 4 * placed[4]
        BY <1>1 DEF Earned
      <3>2. score' = Total(Worths(tile)) - 4 * placed[4]
        BY <1>7, <1>8 DEF Earned
      <3> QED
        BY <3>1, <3>2
    <2>3. placed' \in [{2, 4} -> Nat] /\ Earned(tile, placed', score')
      BY <1>1, <2>1, <2>2
    <2> QED
      BY <1>1, <1>6, <2>1, <2>2, <2>3, GameGoesOn
  <1>9. CASE moved.t # tile
    <2>1. ~Full(moved.t)
      BY <1>3, <1>4, <1>9, MoveFull
    <2>2. PICK p \in place_tile(moved.t) :
             /\ LoopHead(p.t, [shown EXCEPT !.tile = p.t, !.score = score'])
             /\ placed' = Count(placed, p.v)
      BY <1>5, <1>9
    <2>3. Puts(moved.t, p) /\ p.t \in [Tiles -> Values] /\ NotEmpty(p.t)
      BY <1>4, <2>1, PlaceIs
    <2>4. Earned(p.t, placed', score') /\ placed' \in [{2, 4} -> Nat]
      BY <1>1, <1>4, <1>6, <1>7, <2>2, <2>3, PlaceEarned
    <2>5. PICK drawn : drawn = [shown EXCEPT !.tile = p.t, !.score = score']
      OBVIOUS
    <2>6. drawn \in Screens /\ drawn.tile = p.t /\ drawn.score = score'
      BY <1>1, <1>6, <2>3, <2>5 DEF Screens
    <2>7. LoopHead(p.t, drawn)
      BY <2>2, <2>5
    <2> QED
      BY <1>6, <2>3, <2>4, <2>6, <2>7, GameGoesOn
  <1> QED
    BY <1>8, <1>9

\* A new game instead of the old one.
LEMMA GameRetry ==
    ASSUME GameInv, Retry
    PROVE  GameInv'
  <1>1. PICK game \in NewGames : Start(game)
    BY DEF Retry
  <1>2. PICK drawn : drawn = [tile |-> game.t, score |-> 0, info |-> "normal"]
    OBVIOUS
  <1>3. LoopHead(game.t, drawn) /\ score' = 0 /\ placed' = game.placed
    BY <1>1, <1>2 DEF Start
  <1>4. /\ game.t \in [Tiles -> Values] /\ NotEmpty(game.t)
        /\ game.placed \in [{2, 4} -> Nat] /\ Earned(game.t, game.placed, 0)
    BY NewGame
  <1>5. drawn \in Screens /\ drawn.tile = game.t /\ drawn.score = 0
    BY <1>2, <1>4 DEF Screens
  <1>6. /\ drawn.score = score' /\ score' \in Int /\ placed' \in [{2, 4} -> Nat]
        /\ Earned(game.t, placed', score')
    BY <1>3, <1>4, <1>5
  <1> QED
    BY <1>3, <1>4, <1>5, <1>6, GameGoesOn

\* Every key keeps the invariant.
LEMMA GameStep == GameInv /\ [GameNext]_gameVars => GameInv'
  <1> SUFFICES ASSUME GameInv, [GameNext]_gameVars PROVE GameInv'
    OBVIOUS
  <1>1. CASE UNCHANGED gameVars
    BY <1>1 DEF GameInv, gameVars, NotEmpty, Stuck, Earned
  <1>2. CASE Quit
    BY <1>2 DEF GameInv, Quit, NotEmpty, Stuck, Earned
  <1>3. CASE LoopHead(tile, shown) /\ UNCHANGED <<score, placed>>
    <2>1. /\ tile \in [Tiles -> Values] /\ NotEmpty(tile) /\ score \in Int
          /\ placed \in [{2, 4} -> Nat] /\ shown \in Screens /\ Earned(tile, placed, score)
          /\ shown.tile = tile /\ shown.score = score
      BY DEF GameInv
    <2>2. /\ shown.score = score' /\ score' \in Int /\ placed' \in [{2, 4} -> Nat]
          /\ Earned(tile, placed', score')
      BY <1>3, <2>1
    <2> QED
      BY <1>3, <2>1, <2>2, GameGoesOn
  <1>4. CASE GameNext
    <2>1. PICK key : Turn(key) \/ Lost(key)
      BY <1>4 DEF GameNext
    <2>2. \/ \E dir \in Directions : Move(dir)
          \/ Retry \/ Quit
          \/ LoopHead(tile, shown) /\ UNCHANGED <<score, placed>>
          \/ UNCHANGED gameVars
      BY <2>1 DEF Turn, Lost
    <2> QED
      BY <1>1, <1>2, <1>3, <2>2, GameMove, GameRetry
  <1> QED
    BY <1>1, <1>4

\* The invariant holds.
LEMMA GameInvariant == GameSpec => []GameInv
  BY GameStart, GameStep, PTL DEF GameSpec

\* The game is lost if and only if no direction changes the board, although
\* check_end tries them one after the other on the same board: for every board
\* of up to 4 by 4, every sequence of keys and every random tile.
THEOREM LostWhenStuck == GameSpec => []LostIsStuck
  <1>1. GameInv => LostIsStuck
    BY DEF GameInv, LostIsStuck, Stuck
  <1> QED
    BY <1>1, GameInvariant, PTL

\* The tiles on the board add up to the tiles placed, and the score is what
\* merging them was worth.
THEOREM ScoreAlwaysEarned == GameSpec => []ScoreIsEarned
  <1>1. GameInv => ScoreIsEarned
    BY DEF GameInv, ScoreIsEarned, Earned, Worths
  <1> QED
    BY <1>1, GameInvariant, PTL

----------------------------------------------------------------------------
(***************************************************************************)
(* 2048: the areas of the screen.                                          *)
(***************************************************************************)
\* A strip of the tile in row q and column p.
InTile(s, q, p) == s.y \in 6 * q + 1 .. 6 * q + 5 /\ s.x = 11 * p + 1 /\ s.len = 10

\* A strip of the border, and of the text beside and below it.
InBorder(s) ==
    \/ s.y \in {6, 12, 18} /\ s.x = 1 /\ s.len = 43
    \/ s.y \in 1 .. 23 /\ s.x \in {11, 22, 33, 44} /\ s.len = 1
InText(s) ==
    \/ s.y \in 1 .. 23 /\ s.x = 45 /\ s.len \in 1 .. 36
    \/ s.y = 24 /\ s.x = 1 /\ s.len = 79

\* A number with its padding is as wide as a tile.
LEMMA NumberWidth ==
    ASSUME NEW w \in Nat
    PROVE  Padding(w) + Digits(w) = 10
  BY DEF Padding, Digits

\* Every value is drawn over the same strips.
LEMMA TileStrips ==
    ASSUME NEW w \in Values, NEW i \in 0 .. 15
    PROVE  print_tile[w][i] = {Strip(6 * (i \div 4) + 1 + r, 11 * (i % 4) + 1, 10) : r \in 0 .. 4}
  <1>1. ASSUME NEW r \in 0 .. 4
        PROVE  (IF r = 2 /\ w # 0 THEN Padding(w) + Digits(w) ELSE 10) = 10
    BY NumberWidth, ValuesAre
  <1>2. print_tile[w][i] =
          {Strip(6 * (i \div 4) + 1 + r, 11 * (i % 4) + 1,
                 IF r = 2 /\ w # 0 THEN Padding(w) + Digits(w) ELSE 10) : r \in 0 .. 4}
    BY DEF print_tile
  <1> QED
    BY <1>1, <1>2

\* The strips of a tile are in its place.
LEMMA TilePlace ==
    ASSUME NEW w \in Values, NEW i \in 0 .. 15, NEW s \in print_tile[w][i]
    PROVE  InTile(s, i \div 4, i % 4)
  <1>1. PICK q \in 0 .. 3, p \in 0 .. 3 : q = i \div 4 /\ p = i % 4
    OBVIOUS
  <1>2. PICK r \in 0 .. 4 : s = Strip(6 * q + 1 + r, 11 * p + 1, 10)
    BY <1>1, TileStrips
  <1>3. s.y = 6 * q + 1 + r /\ s.x = 11 * p + 1 /\ s.len = 10
    BY <1>2 DEF Strip
  <1>4. InTile(s, q, p)
    BY <1>3 DEF InTile
  <1> QED
    BY <1>1, <1>4

\* The border and the text.
LEMMA BorderPlace ==
    /\ \A s \in print_border : InBorder(s)
    /\ \A s \in print_info \cup print_status : InText(s)
  <1>1. ASSUME NEW s \in print_border PROVE InBorder(s)
    <2>1. CASE \E r \in 1 .. 3 : s = Strip(6 * r, 1, 43)
      BY <2>1 DEF Strip, InBorder
    <2>2. CASE \E r \in 1 .. 23, c \in 1 .. 4 : s = Strip(r, 11 * c, 1)
      <3>1. PICK r \in 1 .. 23, c \in 1 .. 4 : s = Strip(r, 11 * c, 1)
        BY <2>2
      <3>2. s.y = r /\ s.x = 11 * c /\ s.len = 1
        BY <3>1 DEF Strip
      <3>3. 11 * c \in {11, 22, 33, 44}
        OBVIOUS
      <3> QED
        BY <3>2, <3>3 DEF InBorder
    <2> QED
      BY <2>1, <2>2 DEF print_border
  <1>2. ASSUME NEW s \in print_info \cup print_status PROVE InText(s)
    <2>1. CASE \E r \in 3 .. 14 : s = Strip(r, 45, 36)
      BY <2>1 DEF Strip, InText
    <2>2. CASE s = Strip(20, 45, 26) \/ s = Strip(21, 45, 25)
      BY <2>2 DEF Strip, InText
    <2>3. CASE s = Strip(24, 1, 79)
      BY <2>3 DEF Strip, InText
    <2> QED
      BY <2>1, <2>2, <2>3 DEF print_info, print_status
  <1> QED
    BY <1>1, <1>2

\* The areas of the screen do not touch.
LEMMA AreasApart == Areas
  <1>1. ASSUME NEW s \in TileArea PROVE \E q \in 0 .. 3, p \in 0 .. 3 : InTile(s, q, p)
    <2>1. PICK w \in Values, i \in 0 .. 15 : s \in print_tile[w][i]
      BY <1>1 DEF TileArea
    <2>2. InTile(s, i \div 4, i % 4) /\ i \div 4 \in 0 .. 3 /\ i % 4 \in 0 .. 3
      BY <2>1, TilePlace
    <2> QED
      BY <2>2
  <1>2. (\A s \in print_border : InBorder(s)) /\ (\A s \in TextArea : InText(s))
    BY BorderPlace DEF TextArea
  <1>3. ASSUME NEW s \in print_border \cup TextArea \cup TileArea PROVE OnScreen(s)
    <2>1. CASE InBorder(s)
      BY <2>1 DEF InBorder, OnScreen
    <2>2. CASE InText(s)
      BY <2>2 DEF InText, OnScreen
    <2>3. CASE \E q \in 0 .. 3, p \in 0 .. 3 : InTile(s, q, p)
      BY <2>3 DEF InTile, OnScreen
    <2> QED
      BY <1>1, <1>2, <2>1, <2>2, <2>3
  <1>4. Separate(TextArea, print_border)
    <2>1. ASSUME NEW a, NEW b, InText(a), InBorder(b) PROVE ~Overlap(a, b)
      BY <2>1 DEF InText, InBorder, Overlap
    <2> QED
      BY <1>2, <2>1 DEF Separate
  <1>5. Separate(TextArea, TileArea)
    <2>1. ASSUME NEW a, NEW b, InText(a), NEW q \in 0 .. 3, NEW p \in 0 .. 3, InTile(b, q, p)
          PROVE  ~Overlap(a, b)
      BY <2>1 DEF InText, InTile, Overlap
    <2> QED
      BY <1>1, <1>2, <2>1 DEF Separate
  <1>6. Separate(TileArea, print_border)
    <2>1. ASSUME NEW a, NEW b, InBorder(b), NEW q \in 0 .. 3, NEW p \in 0 .. 3, InTile(a, q, p)
          PROVE  ~Overlap(a, b)
      BY <2>1 DEF InBorder, InTile, Overlap
    <2> QED
      BY <1>1, <1>2, <2>1 DEF Separate
  <1>7. ASSUME NEW i \in 0 .. 15, NEW j \in 0 .. 15, i # j, NEW u \in Values, NEW w \in Values
        PROVE  Separate(print_tile[u][i], print_tile[w][j])
    <2>1. PICK q \in 0 .. 3, p \in 0 .. 3, q1 \in 0 .. 3, p1 \in 0 .. 3 :
             q = i \div 4 /\ p = i % 4 /\ q1 = j \div 4 /\ p1 = j % 4
      OBVIOUS
    <2>2. q # q1 \/ p # p1
      BY <1>7, <2>1
    <2>3. ASSUME NEW a \in print_tile[u][i], NEW b \in print_tile[w][j] PROVE ~Overlap(a, b)
      <3>1. InTile(a, q, p) /\ InTile(b, q1, p1)
        BY <2>1, TilePlace
      <3> QED
        BY <2>2, <3>1 DEF InTile, Overlap
    <2> QED
      BY <2>3 DEF Separate
  <1>8. \A i, j \in 0 .. 15 : i # j =>
           \A u, w \in Values : Separate(print_tile[u][i], print_tile[w][j])
    BY <1>7
  <1>9. \A s \in print_border \cup TextArea \cup TileArea : OnScreen(s)
    BY <1>3
  <1> QED
    BY <1>4, <1>5, <1>6, <1>8, <1>9 DEF Areas

\* What is drawn is what is played, and no drawing leaves anything of another
\* behind or touches it: board and score on the screen are those of the game
\* after every key, and every value is drawn over the same strips.
THEOREM DrawnAsPlayed == GameSpec => []DrawnIsPlayed
  <1>1. ASSUME GameInv, NEW i \in Tiles, NEW w \in Values
        PROVE  print_tile[w][i] = print_tile[shown.tile[i]][i]
    <2>1. i \in 0 .. 15
      BY BoardSizes DEF Tiles
    <2>2. shown.tile[i] \in Values
      BY <1>1 DEF GameInv
    <2> QED
      BY <2>1, <2>2, TileStrips
  <1>2. GameInv => DrawnIsPlayed
    BY <1>1, AreasApart DEF GameInv, DrawnIsPlayed
  <1> QED
    BY <1>2, GameInvariant, PTL

----------------------------------------------------------------------------
(***************************************************************************)
(* 2048: what the passes make of one line.  A line is continued by empty   *)
(* tiles to a line of four.                                                *)
(***************************************************************************)
Four == 1 .. 4
FourLines == [Four -> Nat]

\* Pair k of a line, in a shift and in the merge pass, and a whole pass.
SlideAt(c, k) == IF c[k] = 0 THEN [c EXCEPT ![k] = c[k + 1], ![k + 1] = 0] ELSE c
JoinAt(c, k) == IF c[k] = c[k + 1] THEN [c EXCEPT ![k] = 2 * c[k], ![k + 1] = 0] ELSE c
PairAt(j, c, k) == IF j = 4 THEN JoinAt(c, k) ELSE SlideAt(c, k)
Pass(j, c) == PairAt(j, PairAt(j, PairAt(j, c, 1), 2), 3)

Reads(c, w, x, y, z) ==
    /\ c \in FourLines /\ w \in Nat /\ x \in Nat /\ y \in Nat /\ z \in Nat
    /\ c[1] = w /\ c[2] = x /\ c[3] = y /\ c[4] = z

\* A pair of a line.
LEMMA PairAtIs ==
    ASSUME NEW c \in FourLines, NEW k \in 1 .. 3, NEW j
    PROVE  /\ PairAt(j, c, k) \in FourLines
           /\ \A m \in Four : m # k /\ m # k + 1 => PairAt(j, c, k)[m] = c[m]
           /\ j # 4 => /\ PairAt(j, c, k)[k] = IF c[k] = 0 THEN c[k + 1] ELSE c[k]
                       /\ PairAt(j, c, k)[k + 1] = IF c[k] = 0 THEN 0 ELSE c[k + 1]
           /\ j = 4 => /\ PairAt(j, c, k)[k] = IF c[k] = c[k + 1] THEN 2 * c[k] ELSE c[k]
                       /\ PairAt(j, c, k)[k + 1] = IF c[k] = c[k + 1] THEN 0 ELSE c[k + 1]
  <1>1. k \in Four /\ k + 1 \in Four /\ k # k + 1 /\ c[k] \in Nat /\ c[k + 1] \in Nat /\ 2 * c[k] \in Nat
    BY DEF Four, FourLines
  <1> DEFINE D(a) == [c EXCEPT ![k] = a, ![k + 1] = 0]
  <1>2. \A a \in Nat : /\ D(a) \in FourLines /\ D(a)[k] = a /\ D(a)[k + 1] = 0
                       /\ \A m \in Four : m # k /\ m # k + 1 => D(a)[m] = c[m]
    BY <1>1 DEF FourLines
  <1>3. CASE j = 4 /\ c[k] = c[k + 1]
    <2>1. PairAt(j, c, k) = D(2 * c[k])
      BY <1>3 DEF PairAt, JoinAt
    <2> HIDE DEF D
    <2> QED
      BY <1>1, <1>2, <1>3, <2>1
  <1>4. CASE j # 4 /\ c[k] = 0
    <2>1. PairAt(j, c, k) = D(c[k + 1])
      BY <1>4 DEF PairAt, SlideAt
    <2> HIDE DEF D
    <2> QED
      BY <1>1, <1>2, <1>4, <2>1
  <1>5. CASE \/ j = 4 /\ c[k] # c[k + 1]
             \/ j # 4 /\ c[k] # 0
    <2>1. PairAt(j, c, k) = c
      BY <1>5 DEF PairAt, JoinAt, SlideAt
    <2> QED
      BY <1>5, <2>1
  <1> QED
    BY <1>3, <1>4, <1>5

\* A pair whose second tile is empty, in a line that has only empty tiles from
\* there on, stays.
LEMMA PairAtEnd ==
    ASSUME NEW c \in FourLines, NEW k \in 1 .. 3, NEW j, c[k + 1] = 0
    PROVE  PairAt(j, c, k) = c
  <1>1. k \in Four /\ k + 1 \in Four /\ DOMAIN c = Four
    BY DEF Four, FourLines
  <1>2. PairAt(j, c, k)[k] = c[k] /\ PairAt(j, c, k)[k + 1] = c[k + 1]
    BY <1>1, PairAtIs DEF FourLines
  <1>3. \A m \in Four : PairAt(j, c, k)[m] = c[m]
    BY <1>2, PairAtIs
  <1>4. PairAt(j, c, k) \in [Four -> Nat] /\ c \in [Four -> Nat]
    BY PairAtIs DEF FourLines
  <1> QED
    BY <1>3, <1>4

\* The three pairs.
LEMMA PairAtReads ==
    ASSUME NEW c, NEW w, NEW x, NEW y, NEW z, Reads(c, w, x, y, z), NEW j
    PROVE  /\ j # 4 => /\ Reads(PairAt(j, c, 1), IF w = 0 THEN x ELSE w, IF w = 0 THEN 0 ELSE x, y, z)
                       /\ Reads(PairAt(j, c, 2), w, IF x = 0 THEN y ELSE x, IF x = 0 THEN 0 ELSE y, z)
                       /\ Reads(PairAt(j, c, 3), w, x, IF y = 0 THEN z ELSE y, IF y = 0 THEN 0 ELSE z)
           /\ j = 4 => /\ Reads(PairAt(j, c, 1), IF w = x THEN 2 * w ELSE w, IF w = x THEN 0 ELSE x, y, z)
                       /\ Reads(PairAt(j, c, 2), w, IF x = y THEN 2 * x ELSE x, IF x = y THEN 0 ELSE y, z)
                       /\ Reads(PairAt(j, c, 3), w, x, IF y = z THEN 2 * y ELSE y, IF y = z THEN 0 ELSE z)
  <1>0. c \in FourLines /\ 1 \in 1 .. 3 /\ 2 \in 1 .. 3 /\ 3 \in 1 .. 3
    BY DEF Reads
  <1>1. /\ w \in Nat /\ x \in Nat /\ y \in Nat /\ z \in Nat
        /\ c[1] = w /\ c[2] = x /\ c[3] = y /\ c[4] = z
    BY DEF Reads
  <1>2. 1 + 1 = 2 /\ 2 + 1 = 3 /\ 3 + 1 = 4 /\ 1 \in Four /\ 2 \in Four /\ 3 \in Four /\ 4 \in Four
    BY DEF Four
  <1>3. CASE j # 4
    <2>1. Reads(PairAt(j, c, 1), IF w = 0 THEN x ELSE w, IF w = 0 THEN 0 ELSE x, y, z)
      BY <1>0, <1>1, <1>2, <1>3, PairAtIs DEF Reads
    <2>2. Reads(PairAt(j, c, 2), w, IF x = 0 THEN y ELSE x, IF x = 0 THEN 0 ELSE y, z)
      BY <1>0, <1>1, <1>2, <1>3, PairAtIs DEF Reads
    <2>3. Reads(PairAt(j, c, 3), w, x, IF y = 0 THEN z ELSE y, IF y = 0 THEN 0 ELSE z)
      BY <1>0, <1>1, <1>2, <1>3, PairAtIs DEF Reads
    <2> QED
      BY <1>3, <2>1, <2>2, <2>3
  <1>4. CASE j = 4
    <2>1. Reads(PairAt(j, c, 1), IF w = x THEN 2 * w ELSE w, IF w = x THEN 0 ELSE x, y, z)
      BY <1>0, <1>1, <1>2, <1>4, PairAtIs DEF Reads
    <2>2. Reads(PairAt(j, c, 2), w, IF x = y THEN 2 * x ELSE x, IF x = y THEN 0 ELSE y, z)
      BY <1>0, <1>1, <1>2, <1>4, PairAtIs DEF Reads
    <2>3. Reads(PairAt(j, c, 3), w, x, IF y = z THEN 2 * y ELSE y, IF y = z THEN 0 ELSE z)
      BY <1>0, <1>1, <1>2, <1>4, PairAtIs DEF Reads
    <2> QED
      BY <1>4, <2>1, <2>2, <2>3
  <1> QED
    BY <1>3, <1>4

\* A shift pass takes out the first empty tile before the last one.
LEMMA ShiftPass ==
    ASSUME NEW c, NEW w, NEW x, NEW y, NEW z, Reads(c, w, x, y, z), NEW j, j # 4
    PROVE  Reads(Pass(j, c), IF w = 0 THEN x ELSE w,
                             IF w = 0 \/ x = 0 THEN y ELSE x,
                             IF w = 0 \/ x = 0 \/ y = 0 THEN z ELSE y,
                             IF w = 0 \/ x = 0 \/ y = 0 THEN 0 ELSE z)
  <1>1. PICK d, e : d = PairAt(j, c, 1) /\ e = PairAt(j, d, 2) /\ Pass(j, c) = PairAt(j, e, 3)
    BY DEF Pass
  <1>2. Reads(d, IF w = 0 THEN x ELSE w, IF w = 0 THEN 0 ELSE x, y, z)
    BY <1>1, PairAtReads
  <1>3. Reads(e, IF w = 0 THEN x ELSE w, IF w = 0 \/ x = 0 THEN y ELSE x,
                 IF w = 0 \/ x = 0 THEN 0 ELSE y, z)
    <2>1. PICK u, v1 : u = (IF w = 0 THEN x ELSE w) /\ v1 = (IF w = 0 THEN 0 ELSE x)
      OBVIOUS
    <2>2. Reads(e, u, IF v1 = 0 THEN y ELSE v1, IF v1 = 0 THEN 0 ELSE y, z)
      BY <1>1, <1>2, <2>1, PairAtReads
    <2>3. v1 = 0 <=> (w = 0 \/ x = 0)
      BY <2>1
    <2>4. v1 # 0 => v1 = x
      BY <2>1
    <2>5. /\ (IF v1 = 0 THEN y ELSE v1) = (IF w = 0 \/ x = 0 THEN y ELSE x)
          /\ (IF v1 = 0 THEN 0 ELSE y) = (IF w = 0 \/ x = 0 THEN 0 ELSE y)
      BY <2>3, <2>4
    <2> QED
      BY <2>1, <2>2, <2>5
  <1>4. PICK u, s, r : /\ u = (IF w = 0 THEN x ELSE w) /\ s = (IF w = 0 \/ x = 0 THEN y ELSE x)
                       /\ r = (IF w = 0 \/ x = 0 THEN 0 ELSE y)
    OBVIOUS
  <1>5. Reads(Pass(j, c), u, s, IF r = 0 THEN z ELSE r, IF r = 0 THEN 0 ELSE z)
    BY <1>1, <1>3, <1>4, PairAtReads
  <1>6. /\ (IF r = 0 THEN z ELSE r) = (IF w = 0 \/ x = 0 \/ y = 0 THEN z ELSE y)
        /\ (IF r = 0 THEN 0 ELSE z) = (IF w = 0 \/ x = 0 \/ y = 0 THEN 0 ELSE z)
    BY <1>4
  <1> QED
    BY <1>4, <1>5, <1>6

\* What becomes of two tiles in the merge pass are numbers.
LEMMA JoinNumbers ==
    ASSUME NEW m \in Nat, NEW n \in Nat
    PROVE  \E a \in Nat, b \in Nat : a = (IF m = n THEN 2 * m ELSE m) /\ b = (IF m = n THEN 0 ELSE n)
  <1>1. 2 * m \in Nat /\ 0 \in Nat
    OBVIOUS
  <1>2. CASE m = n
    BY <1>1, <1>2
  <1>3. CASE m # n
    BY <1>3
  <1> QED
    BY <1>2, <1>3

\* The merge pass leaves a, s, r, b; m and n are in between.
Merges(c, w, x, y, z, a, b, s, r, m, n) ==
    /\ Reads(Pass(4, c), a, s, r, b)
    /\ a = (IF w = x THEN 2 * w ELSE w) /\ m = (IF w = x THEN 0 ELSE x)
    /\ s = (IF m = y THEN 2 * m ELSE m) /\ n = (IF m = y THEN 0 ELSE y)
    /\ r = (IF n = z THEN 2 * n ELSE n) /\ b = (IF n = z THEN 0 ELSE z)

\* The merge pass.
LEMMA MergePass ==
    ASSUME NEW c, NEW w, NEW x, NEW y, NEW z, Reads(c, w, x, y, z)
    PROVE  \E a \in Nat, b \in Nat, s \in Nat, r \in Nat, m \in Nat, n \in Nat :
              Merges(c, w, x, y, z, a, b, s, r, m, n)
  <1>0. w \in Nat /\ x \in Nat /\ y \in Nat /\ z \in Nat
    BY DEF Reads
  <1>1. PICK d, e : d = PairAt(4, c, 1) /\ e = PairAt(4, d, 2) /\ Pass(4, c) = PairAt(4, e, 3)
    BY DEF Pass
  <1>2. PICK a \in Nat, m \in Nat :
            a = (IF w = x THEN 2 * w ELSE w) /\ m = (IF w = x THEN 0 ELSE x)
    BY <1>0, JoinNumbers
  <1>3. PICK s \in Nat, n \in Nat :
            s = (IF m = y THEN 2 * m ELSE m) /\ n = (IF m = y THEN 0 ELSE y)
    BY <1>0, JoinNumbers
  <1>4. PICK r \in Nat, b \in Nat :
            r = (IF n = z THEN 2 * n ELSE n) /\ b = (IF n = z THEN 0 ELSE z)
    BY <1>0, JoinNumbers
  <1>5. Reads(d, a, m, y, z)
    BY <1>1, <1>2, PairAtReads
  <1>6. Reads(e, a, s, n, z)
    BY <1>1, <1>3, <1>5, PairAtReads
  <1>7. Reads(Pass(4, c), a, s, r, b)
    BY <1>1, <1>4, <1>6, PairAtReads
  <1>8. Merges(c, w, x, y, z, a, b, s, r, m, n)
    BY <1>2, <1>3, <1>4, <1>7 DEF Merges
  <1> QED
    BY <1>8

\* The tiles of a line of four without the gaps.
Put(s, x) == IF x = 0 THEN s ELSE Append(s, x)
PackOf(c) == Put(Put(Put(Put(<<>>, c[1]), c[2]), c[3]), c[4])

\* The empty tiles are the last ones; so far, the last one or two are empty.
EmptyLast(c) == (c[1] = 0 => c[2] = 0) /\ (c[2] = 0 => c[3] = 0) /\ (c[3] = 0 => c[4] = 0)
OneLast(c) == EmptyLast(c) \/ c[4] = 0
TwoLast(c) == EmptyLast(c) \/ (c[3] = 0 /\ c[4] = 0)

\* A line of four has four tiles.
LEMMA ReadsAny ==
    ASSUME NEW c \in FourLines
    PROVE  \E w, x, y, z : Reads(c, w, x, y, z)
  <1>1. c[1] \in Nat /\ c[2] \in Nat /\ c[3] \in Nat /\ c[4] \in Nat
    BY DEF FourLines, Four
  <1>2. Reads(c, c[1], c[2], c[3], c[4])
    BY <1>1 DEF Reads
  <1> QED
    BY <1>2

\* A shift pass keeps the tiles in their order.
LEMMA ShiftPacks ==
    ASSUME NEW c \in FourLines, NEW j, j # 4
    PROVE  Pass(j, c) \in FourLines /\ PackOf(Pass(j, c)) = PackOf(c)
  <1>1. PICK w, x, y, z : Reads(c, w, x, y, z)
    BY ReadsAny
  <1>2. \A s : Put(s, 0) = s
    BY DEF Put
  <1>3. /\ c[1] = w /\ c[2] = x /\ c[3] = y /\ c[4] = z
    BY <1>1 DEF Reads
  <1>4. PICK a, b, d, e : Reads(Pass(j, c), a, b, d, e) /\ <<a, b, d, e>> =
           <<IF w = 0 THEN x ELSE w, IF w = 0 \/ x = 0 THEN y ELSE x,
             IF w = 0 \/ x = 0 \/ y = 0 THEN z ELSE y, IF w = 0 \/ x = 0 \/ y = 0 THEN 0 ELSE z>>
    BY <1>1, ShiftPass
  <1>5. Pass(j, c) \in FourLines
    BY <1>4 DEF Reads
  <1>6. PackOf(Pass(j, c)) = Put(Put(Put(Put(<<>>, a), b), d), e)
    BY <1>4 DEF Reads, PackOf
  <1>7. PackOf(c) = Put(Put(Put(Put(<<>>, w), x), y), z)
    BY <1>3 DEF PackOf
  <1>8. CASE w = 0
    BY <1>2, <1>4, <1>5, <1>6, <1>7, <1>8
  <1>9. CASE w # 0 /\ x = 0
    BY <1>2, <1>4, <1>5, <1>6, <1>7, <1>9
  <1>10. CASE w # 0 /\ x # 0 /\ y = 0
    BY <1>2, <1>4, <1>5, <1>6, <1>7, <1>10
  <1>11. CASE w # 0 /\ x # 0 /\ y # 0
    BY <1>4, <1>5, <1>6, <1>7, <1>11
  <1> QED
    BY <1>8, <1>9, <1>10, <1>11

\* Each shift pass brings an empty tile to its place.
LEMMA ShiftGathers ==
    ASSUME NEW c \in FourLines, NEW j, j # 4
    PROVE  /\ OneLast(Pass(j, c))
           /\ OneLast(c) => TwoLast(Pass(j, c))
           /\ TwoLast(c) => EmptyLast(Pass(j, c))
           /\ EmptyLast(c) => EmptyLast(Pass(j, c))
  <1>1. PICK w, x, y, z : Reads(c, w, x, y, z)
    BY ReadsAny
  <1>2. /\ c[1] = w /\ c[2] = x /\ c[3] = y /\ c[4] = z
    BY <1>1 DEF Reads
  <1>3. /\ Pass(j, c)[1] = (IF w = 0 THEN x ELSE w)
        /\ Pass(j, c)[2] = (IF w = 0 \/ x = 0 THEN y ELSE x)
        /\ Pass(j, c)[3] = (IF w = 0 \/ x = 0 \/ y = 0 THEN z ELSE y)
        /\ Pass(j, c)[4] = (IF w = 0 \/ x = 0 \/ y = 0 THEN 0 ELSE z)
    BY <1>1, ShiftPass DEF Reads
  <1>4. OneLast(Pass(j, c))
    BY <1>3 DEF OneLast, EmptyLast
  <1>5. OneLast(c) => TwoLast(Pass(j, c))
    BY <1>2, <1>3 DEF OneLast, TwoLast, EmptyLast
  <1>6. TwoLast(c) => EmptyLast(Pass(j, c))
    BY <1>2, <1>3 DEF TwoLast, EmptyLast
  <1>7. EmptyLast(c) => EmptyLast(Pass(j, c))
    BY <1>2, <1>3 DEF EmptyLast
  <1> QED
    BY <1>4, <1>5, <1>6, <1>7

\* After four passes the tiles are at the edge, in their order.
LEMMA FourPasses ==
    ASSUME NEW c \in FourLines
    PROVE  /\ Pass(3, Pass(2, Pass(1, Pass(0, c)))) \in FourLines
           /\ EmptyLast(Pass(3, Pass(2, Pass(1, Pass(0, c)))))
           /\ PackOf(Pass(3, Pass(2, Pass(1, Pass(0, c))))) = PackOf(c)
  <1>1. PICK d1, d2, d3, d4 : d1 = Pass(0, c) /\ d2 = Pass(1, d1) /\ d3 = Pass(2, d2) /\ d4 = Pass(3, d3)
    OBVIOUS
  <1>2. d1 \in FourLines /\ PackOf(d1) = PackOf(c) /\ OneLast(d1)
    BY <1>1, ShiftPacks, ShiftGathers
  <1>3. d2 \in FourLines /\ PackOf(d2) = PackOf(c) /\ TwoLast(d2)
    BY <1>1, <1>2, ShiftPacks, ShiftGathers
  <1>4. d3 \in FourLines /\ PackOf(d3) = PackOf(c) /\ EmptyLast(d3)
    BY <1>1, <1>3, ShiftPacks, ShiftGathers
  <1>5. d4 \in FourLines /\ PackOf(d4) = PackOf(c) /\ EmptyLast(d4)
    BY <1>1, <1>4, ShiftPacks, ShiftGathers
  <1> QED
    BY <1>1, <1>5

----------------------------------------------------------------------------
(***************************************************************************)
(* 2048: what is said of a line, Packed and Pushed, as recursions.         *)
(***************************************************************************)
Packs(g, s) ==
    /\ g \in [0 .. Len(s) -> Seq(Nat)] /\ g[0] = <<>>
    /\ \A k \in 1 .. Len(s) : g[k] = Put(g[k - 1], s[k])

\* Packed puts one tile after the other.
LEMMA PackedIs ==
    ASSUME NEW s \in Seq(Nat)
    PROVE  \E g : Packs(g, s) /\ Packed(s) = g[Len(s)]
  <1>0. PICK N \in Nat : N = Len(s)
    OBVIOUS
  <1> DEFINE Step(k, q) == IF s[k] = 0 THEN q ELSE Append(q, s[k])
             D == [p \in Nat \X Seq(Nat) |-> IF p[1] \in 1 .. N THEN Step(p[1], p[2]) ELSE p[2]]
             Is(g) == g = [k \in 0 .. N |-> IF k = 0 THEN <<>> ELSE Step(k, g[k - 1])]
             upto == CHOOSE g : Is(g)
  <1>1. <<>> \in Seq(Nat)
    OBVIOUS
  <1>2. ASSUME NEW k \in 1 .. N, NEW q \in Seq(Nat) PROVE Step(k, q) \in Seq(Nat)
    <2>1. s[k] \in Nat
      BY <1>0
    <2> QED
      BY <2>1
  <1>3. \A k, q : Step(k, q) = Put(q, s[k])
    BY DEF Put
  <1>4. Packed(s) = upto[N]
    BY <1>0 DEF Packed
  <1> HIDE DEF Step
  <1>5. D \in [Nat \X Seq(Nat) -> Seq(Nat)]
    <2>1. ASSUME NEW p \in Nat \X Seq(Nat)
          PROVE  (IF p[1] \in 1 .. N THEN Step(p[1], p[2]) ELSE p[2]) \in Seq(Nat)
      <3>1. p[2] \in Seq(Nat)
        OBVIOUS
      <3> QED
        BY <1>2, <3>1
    <2> QED
      BY <2>1
  <1>6. \A n, q : n \in 1 .. N /\ q \in Seq(Nat) => D[<<n, q>>] = Step(n, q)
    BY <1>0
  <1> HIDE DEF D
  <1>7. PICK f \in [0 .. N -> Seq(Nat)] : Iterates(f, N, <<>>, D)
    BY <1>0, <1>1, <1>5, Recursion
  <1>8. Is(f)
    <2>1. ASSUME NEW n \in 0 .. N
          PROVE  f[n] = IF n = 0 THEN <<>> ELSE Step(n, f[n - 1])
      <3>1. CASE n = 0
        BY <1>7, <3>1 DEF Iterates
      <3>2. CASE n # 0
        <4>1. n \in 1 .. N /\ n - 1 \in 0 .. N
          BY <1>0, <3>2
        <4>2. f[n] = D[<<n, f[n - 1]>>] /\ f[n - 1] \in Seq(Nat)
          BY <1>7, <4>1 DEF Iterates
        <4> QED
          BY <1>6, <3>2, <4>1, <4>2
      <3> QED
        BY <3>1, <3>2
    <2> QED
      BY <2>1
  <1>9. Is(upto)
    BY <1>8
  <1> HIDE DEF upto
  <1>10. upto[0] = <<>> /\ \A n \in 1 .. N : upto[n] = Step(n, upto[n - 1])
    <2>1. ASSUME NEW n \in 0 .. N
          PROVE  upto[n] = IF n = 0 THEN <<>> ELSE Step(n, upto[n - 1])
      BY <1>9
    <2>2. 0 \in 0 .. N /\ \A n \in 1 .. N : n \in 0 .. N /\ n # 0
      BY <1>0
    <2> QED
      BY <2>1, <2>2
  <1> DEFINE S == {n \in 0 .. N : upto[n] \in Seq(Nat)}
  <1>11. 0 .. N \subseteq S
    <2>1. 0 \in S
      <3>1. upto[0] \in Seq(Nat) /\ 0 \in 0 .. N
        BY <1>0, <1>1, <1>10
      <3> QED
        BY <3>1
    <2>2. ASSUME NEW n \in 0 .. N - 1, n \in S PROVE n + 1 \in S
      <3>1. n + 1 \in 1 .. N /\ (n + 1) - 1 = n /\ n + 1 \in 0 .. N
        BY <1>0
      <3>2. upto[n + 1] = Step(n + 1, upto[n]) /\ upto[n] \in Seq(Nat)
        BY <1>10, <2>2, <3>1
      <3> QED
        BY <1>2, <3>1, <3>2
    <2> HIDE DEF S
    <2> QED
      BY <1>0, <2>1, <2>2, UpTo
  <1>12. upto \in [0 .. N -> Seq(Nat)]
    <2>1. DOMAIN upto = 0 .. N /\ upto = [n \in 0 .. N |-> upto[n]]
      BY <1>9
    <2> QED
      BY <1>11, <2>1
  <1>13. Packs(upto, s)
    BY <1>0, <1>3, <1>10, <1>12 DEF Packs
  <1> QED
    BY <1>0, <1>4, <1>13

Pushes(h, s) ==
    /\ h \in [0 .. Len(s) -> Seq(Nat)] /\ h[0] = <<>>
    /\ \A m \in 1 .. Len(s) :
          h[m] = IF m > 1 /\ s[Len(s) - m + 1] = s[Len(s) - m + 1 + 1]
                 THEN <<2 * s[Len(s) - m + 1]>> \o h[m - 2]
                 ELSE <<s[Len(s) - m + 1]>> \o h[m - 1]

\* Pushed begins with the last tile.
LEMMA PushedIs ==
    ASSUME NEW s \in Seq(Nat)
    PROVE  \E h : Pushes(h, s) /\ Pushed(s) = h[Len(s)]
  <1>0. PICK N \in Nat : N = Len(s)
    OBVIOUS
  <1> DEFINE Joined(m) == m > 1 /\ s[N - m + 1] = s[N - m + 1 + 1]
             Step(m, q, r) == IF Joined(m) THEN <<2 * s[N - m + 1]>> \o r ELSE <<s[N - m + 1]>> \o q
             Two == Seq(Nat) \X Seq(Nat)
             D == [p \in Nat \X Two |->
                     IF p[1] \in 1 .. N THEN <<Step(p[1], p[2][1], p[2][2]), p[2][1]>> ELSE p[2]]
             Is(h) == h = [m \in 0 .. N |-> IF m = 0 THEN <<>> ELSE Step(m, h[m - 1], h[m - 2])]
             last == CHOOSE h : Is(h)
  <1>1. <<>> \in Seq(Nat) /\ <<<<>>, <<>>>> \in Two
    <2>1. <<>> \in Seq(Nat)
      OBVIOUS
    <2>2. PICK e \in Seq(Nat) : e = <<>>
      BY <2>1
    <2>3. <<e, e>> \in Two
      OBVIOUS
    <2> QED
      BY <2>1, <2>2, <2>3
  <1>2. ASSUME NEW m \in 1 .. N, NEW q \in Seq(Nat), NEW r \in Seq(Nat)
        PROVE  Step(m, q, r) \in Seq(Nat)
    <2>1. N - m + 1 \in 1 .. N
      BY <1>0
    <2>2. PICK a \in Nat, b \in Nat : a = s[N - m + 1] /\ b = 2 * s[N - m + 1]
      <3>1. s[N - m + 1] \in Nat
        BY <1>0, <2>1
      <3>2. 2 * s[N - m + 1] \in Nat
        BY <3>1
      <3> QED
        BY <3>1, <3>2
    <2>3. <<a>> \in Seq(Nat) /\ <<b>> \in Seq(Nat)
      OBVIOUS
    <2>4. <<a>> \o q \in Seq(Nat) /\ <<b>> \o r \in Seq(Nat)
      BY <2>3, ConcatProperties
    <2> QED
      BY <2>2, <2>4
  <1>3. ASSUME NEW q, NEW r, NEW t PROVE Step(1, q, r) = Step(1, q, t)
    <2>1. ~Joined(1)
      OBVIOUS
    <2> HIDE DEF Joined
    <2> QED
      BY <2>1
  <1>4. Pushed(s) = last[N]
    BY <1>0 DEF Pushed
  <1>5. \A m, q, r : Step(m, q, r) = IF m > 1 /\ s[N - m + 1] = s[N - m + 1 + 1]
                                     THEN <<2 * s[N - m + 1]>> \o r ELSE <<s[N - m + 1]>> \o q
    OBVIOUS
  <1> HIDE DEF Step
  <1>6. D \in [Nat \X Two -> Two]
    <2>1. ASSUME NEW p \in Nat \X Two
          PROVE  (IF p[1] \in 1 .. N THEN <<Step(p[1], p[2][1], p[2][2]), p[2][1]>> ELSE p[2]) \in Two
      <3>1. p[2] \in Two /\ p[2][1] \in Seq(Nat) /\ p[2][2] \in Seq(Nat)
        OBVIOUS
      <3> QED
        BY <1>2, <3>1
    <2> QED
      BY <2>1
  <1>7. \A n, q : n \in 1 .. N /\ q \in Two => D[<<n, q>>] = <<Step(n, q[1], q[2]), q[1]>>
    BY <1>0
  <1> HIDE DEF D
  <1>8. PICK f \in [0 .. N -> Two] : Iterates(f, N, <<<<>>, <<>>>>, D)
    BY <1>0, <1>1, <1>6, Recursion
  <1>9. f[0] = <<<<>>, <<>>>>
    BY <1>8 DEF Iterates
  <1>10. ASSUME NEW n \in 1 .. N
         PROVE  f[n][1] = Step(n, f[n - 1][1], f[n - 1][2]) /\ f[n][2] = f[n - 1][1]
    <2>1. n - 1 \in 0 .. N
      BY <1>0
    <2>2. f[n] = D[<<n, f[n - 1]>>] /\ f[n - 1] \in Two
      BY <1>8, <2>1 DEF Iterates
    <2>3. f[n] = <<Step(n, f[n - 1][1], f[n - 1][2]), f[n - 1][1]>>
      BY <1>7, <2>2
    <2> QED
      BY <2>3
  <1> DEFINE h == [m \in 0 .. N |-> f[m][1]]
  <1>11. ASSUME NEW n \in 0 .. N, n # 0
         PROVE  h[n] = Step(n, h[n - 1], h[n - 2])
    <2>1. n \in 1 .. N /\ n - 1 \in 0 .. N
      BY <1>0, <1>11
    <2>2. h[n] = Step(n, h[n - 1], f[n - 1][2])
      BY <1>10, <2>1
    <2>3. CASE n = 1
      <3>1. Step(1, h[n - 1], f[n - 1][2]) = Step(1, h[n - 1], h[n - 2])
        BY <1>3
      <3> QED
        BY <2>2, <2>3, <3>1
    <2>4. CASE n # 1
      <3>1. n - 1 \in 1 .. N /\ n - 2 \in 0 .. N /\ (n - 1) - 1 = n - 2
        BY <2>1, <2>4
      <3>2. f[n - 1][2] = f[n - 2][1]
        BY <1>10, <3>1
      <3> QED
        BY <2>2, <3>1, <3>2
    <2> QED
      BY <2>3, <2>4
  <1>12. h[0] = <<>>
    BY <1>0, <1>9
  <1>13. Is(h)
    <2>1. h = [m \in 0 .. N |-> h[m]]
      OBVIOUS
    <2> HIDE DEF h
    <2>2. \A m \in 0 .. N : h[m] = IF m = 0 THEN <<>> ELSE Step(m, h[m - 1], h[m - 2])
      BY <1>11, <1>12
    <2> QED
      BY <2>1, <2>2
  <1> HIDE DEF h
  <1>14. Is(last)
    BY <1>13
  <1> HIDE DEF last
  <1>15. last[0] = <<>> /\ \A m \in 1 .. N : last[m] = Step(m, last[m - 1], last[m - 2])
    <2>1. ASSUME NEW m \in 0 .. N
          PROVE  last[m] = IF m = 0 THEN <<>> ELSE Step(m, last[m - 1], last[m - 2])
      BY <1>14
    <2>2. 0 \in 0 .. N /\ \A m \in 1 .. N : m \in 0 .. N /\ m # 0
      BY <1>0
    <2> QED
      BY <2>1, <2>2
  <1> DEFINE S == {m \in 0 .. N : last[m] \in Seq(Nat) /\ (m > 0 => last[m - 1] \in Seq(Nat))}
  <1>16. 0 .. N \subseteq S
    <2>1. 0 \in S
      BY <1>0, <1>1, <1>15
    <2>2. ASSUME NEW m \in 0 .. N - 1, m \in S PROVE m + 1 \in S
      <3>1. m + 1 \in 1 .. N /\ (m + 1) - 1 = m /\ (m + 1) - 2 = m - 1 /\ m + 1 \in 0 .. N
        BY <1>0
      <3>2. last[m + 1] = Step(m + 1, last[m], last[m - 1]) /\ last[m] \in Seq(Nat)
        BY <1>15, <2>2, <3>1
      <3>3. CASE m > 0
        <4>1. PICK q \in Seq(Nat), p \in Seq(Nat) : q = last[m] /\ p = last[m - 1]
          BY <2>2, <3>2, <3>3
        <4>2. Step(m + 1, q, p) \in Seq(Nat)
          BY <1>2, <3>1
        <4>3. last[m + 1] \in Seq(Nat)
          BY <3>2, <4>1, <4>2
        <4> QED
          BY <3>1, <3>2, <4>3
      <3>4. CASE m = 0
        <4>1. last[m + 1] = Step(1, last[m], last[m - 1])
          BY <3>2, <3>4
        <4>2. Step(1, last[m], last[m - 1]) = Step(1, last[m], <<>>)
          BY <1>3
        <4>3. 1 \in 1 .. N
          BY <3>1, <3>4
        <4>4. last[m + 1] \in Seq(Nat)
          BY <1>1, <1>2, <3>2, <4>1, <4>2, <4>3
        <4> QED
          BY <3>1, <3>2, <4>4
      <3> QED
        BY <3>3, <3>4
    <2> HIDE DEF S
    <2> QED
      BY <1>0, <2>1, <2>2, UpTo
  <1>17. last \in [0 .. N -> Seq(Nat)]
    <2>1. DOMAIN last = 0 .. N /\ last = [m \in 0 .. N |-> last[m]]
      BY <1>14
    <2> QED
      BY <1>16, <2>1
  <1>18. Pushes(last, s)
    BY <1>0, <1>5, <1>15, <1>17 DEF Pushes
  <1> QED
    BY <1>0, <1>4, <1>18

----------------------------------------------------------------------------
(***************************************************************************)
(* 2048: the six passes push a line.                                       *)
(***************************************************************************)
Padded(s) == [k \in Four |-> IF k <= Len(s) THEN s[k] ELSE 0]

\* s has at most n tiles, and these are the first four.
Holds(s, n, w, x, y, z) == s \in Seq(Nat) /\ Len(s) <= n /\ Reads(Padded(s), w, x, y, z)

\* A line of four.
LEMMA PaddedIs ==
    ASSUME NEW s \in Seq(Nat)
    PROVE  Padded(s) \in FourLines /\ \A k \in Four : Padded(s)[k] = IF k <= Len(s) THEN s[k] ELSE 0
  <1>1. ASSUME NEW k \in Four PROVE (IF k <= Len(s) THEN s[k] ELSE 0) \in Nat
    <2>1. CASE k <= Len(s)
      <3>1. k \in 1 .. Len(s)
        BY <2>1 DEF Four
      <3> QED
        BY <2>1, <3>1
    <2>2. CASE ~(k <= Len(s))
      BY <2>2
    <2> QED
      BY <2>1, <2>2
  <1> QED
    BY <1>1 DEF Padded, FourLines

\* A tile in front.
LEMMA HoldsMore ==
    ASSUME NEW s, NEW n \in 0 .. 3, NEW w, NEW x, NEW y, NEW z, Holds(s, n, w, x, y, z),
           NEW a \in Nat
    PROVE  Holds(<<a>> \o s, n + 1, a, w, x, y) /\ z = 0
  <1>1. s \in Seq(Nat) /\ Len(s) <= n /\ Len(s) \in Nat
    BY DEF Holds
  <1>2. <<a>> \in Seq(Nat) /\ Len(<<a>>) = 1 /\ <<a>>[1] = a
    OBVIOUS
  <1>3. PICK q : q = <<a>> \o s
    OBVIOUS
  <1>4. q \in Seq(Nat) /\ Len(q) = 1 + Len(s)
    BY <1>1, <1>2, <1>3, ConcatProperties
  <1>5. \A k \in 1 .. 1 + Len(s) : q[k] = IF k <= 1 THEN <<a>>[k] ELSE s[k - 1]
    BY <1>1, <1>2, <1>3, ConcatProperties
  <1>6. q[1] = a /\ \A k \in 1 .. Len(s) : q[k + 1] = s[k]
    <2>1. 1 \in 1 .. 1 + Len(s)
      BY <1>1
    <2>2. q[1] = a
      BY <1>2, <1>5, <2>1
    <2>3. ASSUME NEW k \in 1 .. Len(s) PROVE q[k + 1] = s[k]
      <3>1. k + 1 \in 1 .. 1 + Len(s) /\ ~(k + 1 <= 1) /\ (k + 1) - 1 = k
        BY <1>1
      <3> QED
        BY <1>5, <3>1
    <2> QED
      BY <2>2, <2>3
  <1>7. /\ Padded(s)[1] = w /\ Padded(s)[2] = x /\ Padded(s)[3] = y /\ Padded(s)[4] = z
        /\ w \in Nat /\ x \in Nat /\ y \in Nat /\ z \in Nat
    BY DEF Holds, Reads
  <1>8. \A k \in 1 .. 3 : Padded(q)[k + 1] = Padded(s)[k]
    <2>1. ASSUME NEW k \in 1 .. 3 PROVE Padded(q)[k + 1] = Padded(s)[k]
      <3>1. k \in Four /\ k + 1 \in Four
        BY DEF Four
      <3>2. Padded(q)[k + 1] = (IF k + 1 <= Len(q) THEN q[k + 1] ELSE 0)
        BY <1>4, <3>1, PaddedIs
      <3>3. Padded(s)[k] = (IF k <= Len(s) THEN s[k] ELSE 0)
        BY <1>1, <3>1, PaddedIs
      <3>4. k + 1 <= Len(q) <=> k <= Len(s)
        BY <1>1, <1>4
      <3>5. k <= Len(s) => q[k + 1] = s[k]
        BY <1>1, <1>6
      <3> QED
        BY <3>2, <3>3, <3>4, <3>5
    <2> QED
      BY <2>1
  <1>9. Padded(q)[1] = a
    <2>1. 1 \in Four /\ 1 <= Len(q)
      BY <1>1, <1>4 DEF Four
    <2> QED
      BY <1>4, <1>6, <2>1, PaddedIs
  <1>10. Padded(q)[2] = w /\ Padded(q)[3] = x /\ Padded(q)[4] = y
    <2>1. 1 \in 1 .. 3 /\ 2 \in 1 .. 3 /\ 3 \in 1 .. 3 /\ 1 + 1 = 2 /\ 2 + 1 = 3 /\ 3 + 1 = 4
      OBVIOUS
    <2>2. Padded(q)[1 + 1] = w /\ Padded(q)[2 + 1] = x /\ Padded(q)[3 + 1] = y
      BY <1>7, <1>8, <2>1
    <2> QED
      BY <2>1, <2>2
  <1>11. Padded(q) \in FourLines
    BY <1>4, PaddedIs
  <1>12. Reads(Padded(q), a, w, x, y)
    BY <1>7, <1>9, <1>10, <1>11 DEF Reads
  <1>13. z = 0
    <2>1. 4 \in Four /\ ~(4 <= Len(s))
      BY <1>1 DEF Four
    <2> QED
      BY <1>1, <1>7, <2>1, PaddedIs
  <1>14. Len(q) <= n + 1
    BY <1>1, <1>4
  <1> QED
    BY <1>3, <1>4, <1>12, <1>13, <1>14 DEF Holds

\* Nothing.
LEMMA HoldsNone == Holds(<<>>, 0, 0, 0, 0, 0)
  <1>1. <<>> \in Seq(Nat) /\ Len(<<>>) = 0
    OBVIOUS
  <1>2. PICK e \in Seq(Nat) : e = <<>> /\ Len(e) = 0
    BY <1>1
  <1>3. Padded(e) \in FourLines /\ \A k \in Four : Padded(e)[k] = 0
    <2>1. \A k \in Four : ~(k <= Len(e))
      BY <1>2 DEF Four
    <2> QED
      BY <2>1, PaddedIs
  <1>4. 1 \in Four /\ 2 \in Four /\ 3 \in Four /\ 4 \in Four
    BY DEF Four
  <1>5. Reads(Padded(e), 0, 0, 0, 0)
    BY <1>3, <1>4 DEF Reads
  <1>6. Len(e) <= 0
    BY <1>2
  <1> QED
    BY <1>2, <1>5, <1>6 DEF Holds

\* The tile m from the end of a line, if it does not merge with the next one.
LEMMA PushesAlone ==
    ASSUME NEW s \in Seq(Nat), NEW h, Pushes(h, s), NEW m \in 1 .. Len(s), m <= 4,
           NEW k \in 1 .. Len(s), k = Len(s) - m + 1, m = 1 \/ s[k] # s[k + 1],
           NEW n, n = m - 1, NEW w, NEW x, NEW y, NEW z, Holds(h[n], n, w, x, y, z)
    PROVE  Holds(h[m], m, s[k], w, x, y)
  <1>1. h[m] = IF m > 1 /\ s[k] = s[k + 1] THEN <<2 * s[k]>> \o h[m - 2] ELSE <<s[k]>> \o h[m - 1]
    BY DEF Pushes
  <1>2. ~(m > 1 /\ s[k] = s[k + 1])
    OBVIOUS
  <1>3. h[m] = <<s[k]>> \o h[n]
    BY <1>1, <1>2
  <1>4. n \in 0 .. 3 /\ n + 1 = m
    OBVIOUS
  <1>5. PICK a \in Nat : a = s[k]
    OBVIOUS
  <1>6. Holds(<<a>> \o h[n], n + 1, a, w, x, y)
    BY <1>4, HoldsMore
  <1> QED
    BY <1>3, <1>4, <1>5, <1>6

\* If it does.
LEMMA PushesJoined ==
    ASSUME NEW s \in Seq(Nat), NEW h, Pushes(h, s), NEW m \in 1 .. Len(s), m <= 4, m > 1,
           NEW k \in 1 .. Len(s), k = Len(s) - m + 1, s[k] = s[k + 1],
           NEW n, n = m - 2, NEW w, NEW x, NEW y, NEW z, Holds(h[n], n, w, x, y, z)
    PROVE  Holds(h[m], m, 2 * s[k], w, x, y)
  <1>1. h[m] = IF m > 1 /\ s[k] = s[k + 1] THEN <<2 * s[k]>> \o h[m - 2] ELSE <<s[k]>> \o h[m - 1]
    BY DEF Pushes
  <1>2. h[m] = <<2 * s[k]>> \o h[n]
    BY <1>1
  <1>3. n \in 0 .. 3 /\ n + 1 = m - 1
    OBVIOUS
  <1>4. s[k] \in Nat
    OBVIOUS
  <1>5. PICK b \in Nat : b = 2 * s[k]
    BY <1>4
  <1>6. Holds(<<b>> \o h[n], n + 1, b, w, x, y)
    BY <1>3, HoldsMore
  <1>7. Holds(h[m], m - 1, b, w, x, y)
    BY <1>2, <1>3, <1>5, <1>6
  <1>8. Len(h[m]) <= m
    <2>1. h[m] \in Seq(Nat) /\ Len(h[m]) <= m - 1
      BY <1>7 DEF Holds
    <2>2. Len(h[m]) \in Nat
      BY <2>1
    <2> QED
      BY <2>1, <2>2
  <1> QED
    BY <1>5, <1>7, <1>8 DEF Holds

\* The first tiles of the pushed line.
PushReads(p, s) ==
    /\ p \in Seq(Nat)
    /\ Len(s) = 0 => Reads(Padded(p), 0, 0, 0, 0)
    /\ Len(s) = 1 => Reads(Padded(p), s[1], 0, 0, 0)
    /\ Len(s) = 2 => /\ s[1] = s[2] => Reads(Padded(p), 2 * s[1], 0, 0, 0)
                     /\ s[1] # s[2] => Reads(Padded(p), s[1], s[2], 0, 0)
    /\ Len(s) = 3 => /\ s[1] = s[2] => Reads(Padded(p), 2 * s[1], s[3], 0, 0)
                     /\ s[1] # s[2] /\ s[2] = s[3] => Reads(Padded(p), s[1], 2 * s[2], 0, 0)
                     /\ s[1] # s[2] /\ s[2] # s[3] => Reads(Padded(p), s[1], s[2], s[3], 0)
    /\ Len(s) = 4 =>
          /\ s[1] = s[2] /\ s[3] = s[4] => Reads(Padded(p), 2 * s[1], 2 * s[3], 0, 0)
          /\ s[1] = s[2] /\ s[3] # s[4] => Reads(Padded(p), 2 * s[1], s[3], s[4], 0)
          /\ s[1] # s[2] /\ s[2] = s[3] => Reads(Padded(p), s[1], 2 * s[2], s[4], 0)
          /\ s[1] # s[2] /\ s[2] # s[3] /\ s[3] = s[4] =>
                Reads(Padded(p), s[1], s[2], 2 * s[3], 0)
          /\ s[1] # s[2] /\ s[2] # s[3] /\ s[3] # s[4] =>
                Reads(Padded(p), s[1], s[2], s[3], s[4])

\* They are these.
LEMMA PushedReads ==
    ASSUME NEW s \in Seq(Nat), Len(s) <= 4
    PROVE  PushReads(Pushed(s), s)
  <1>1. PICK h : Pushes(h, s) /\ Pushed(s) = h[Len(s)]
    BY PushedIs
  <1>2. PICK N \in 0 .. 4 : N = Len(s)
    <2>1. Len(s) \in Nat
      OBVIOUS
    <2>2. \A n \in Nat : n <= 4 => n \in 0 .. 4
      OBVIOUS
    <2>3. Len(s) \in 0 .. 4
      BY <2>1, <2>2
    <2> QED
      BY <2>3
  <1>3. h[0] = <<>> /\ Pushed(s) \in Seq(Nat)
    <2>1. N \in 0 .. N
      OBVIOUS
    <2> QED
      BY <1>1, <1>2, <2>1 DEF Pushes
  <1>4. Holds(h[0], 0, 0, 0, 0, 0)
    BY <1>3, HoldsNone
  <1>5. N > 0 => Holds(h[1], 1, s[N], 0, 0, 0)
    <2> SUFFICES ASSUME N > 0 PROVE Holds(h[1], 1, s[N], 0, 0, 0)
      OBVIOUS
    <2>1. 1 \in 1 .. Len(s) /\ 1 <= 4 /\ N \in 1 .. Len(s) /\ N = Len(s) - 1 + 1 /\ 0 = 1 - 1
      BY <1>2
    <2> QED
      BY <1>1, <1>4, <2>1, PushesAlone
  <1>6. N > 1 => /\ s[N - 1] = s[N] => Holds(h[2], 2, 2 * s[N - 1], 0, 0, 0)
                 /\ s[N - 1] # s[N] => Holds(h[2], 2, s[N - 1], s[N], 0, 0)
    <2> SUFFICES ASSUME N > 1
                 PROVE  /\ s[N - 1] = s[N] => Holds(h[2], 2, 2 * s[N - 1], 0, 0, 0)
                        /\ s[N - 1] # s[N] => Holds(h[2], 2, s[N - 1], s[N], 0, 0)
      OBVIOUS
    <2>1. PICK k \in 1 .. Len(s) : k = N - 1 /\ k = Len(s) - 2 + 1 /\ k + 1 = N
      BY <1>2
    <2>2. 2 \in 1 .. Len(s) /\ 2 <= 4 /\ 2 > 1 /\ 1 = 2 - 1 /\ 0 = 2 - 2
      BY <1>2
    <2>3. Holds(h[1], 1, s[N], 0, 0, 0) /\ Holds(h[0], 0, 0, 0, 0, 0)
      BY <1>4, <1>5, <2>2
    <2>4. s[k] = s[k + 1] => Holds(h[2], 2, 2 * s[k], 0, 0, 0)
      BY <1>1, <2>1, <2>2, <2>3, PushesJoined
    <2>5. s[k] # s[k + 1] => Holds(h[2], 2, s[k], s[N], 0, 0)
      BY <1>1, <2>1, <2>2, <2>3, PushesAlone
    <2> QED
      BY <2>1, <2>4, <2>5
  <1>7. N > 2 => /\ s[N - 2] = s[N - 1] => Holds(h[3], 3, 2 * s[N - 2], s[N], 0, 0)
                 /\ s[N - 2] # s[N - 1] /\ s[N - 1] = s[N] =>
                       Holds(h[3], 3, s[N - 2], 2 * s[N - 1], 0, 0)
                 /\ s[N - 2] # s[N - 1] /\ s[N - 1] # s[N] =>
                       Holds(h[3], 3, s[N - 2], s[N - 1], s[N], 0)
    <2> SUFFICES ASSUME N > 2
                 PROVE  /\ s[N - 2] = s[N - 1] => Holds(h[3], 3, 2 * s[N - 2], s[N], 0, 0)
                        /\ s[N - 2] # s[N - 1] /\ s[N - 1] = s[N] =>
                              Holds(h[3], 3, s[N - 2], 2 * s[N - 1], 0, 0)
                        /\ s[N - 2] # s[N - 1] /\ s[N - 1] # s[N] =>
                              Holds(h[3], 3, s[N - 2], s[N - 1], s[N], 0)
      OBVIOUS
    <2>1. PICK k \in 1 .. Len(s) : k = N - 2 /\ k = Len(s) - 3 + 1 /\ k + 1 = N - 1
      BY <1>2
    <2>2. 3 \in 1 .. Len(s) /\ 3 <= 4 /\ 3 > 1 /\ 2 = 3 - 1 /\ 1 = 3 - 2
      BY <1>2
    <2>3. /\ Holds(h[1], 1, s[N], 0, 0, 0)
          /\ s[N - 1] = s[N] => Holds(h[2], 2, 2 * s[N - 1], 0, 0, 0)
          /\ s[N - 1] # s[N] => Holds(h[2], 2, s[N - 1], s[N], 0, 0)
      BY <1>5, <1>6, <2>2
    <2>4. s[k] = s[k + 1] => Holds(h[3], 3, 2 * s[k], s[N], 0, 0)
      BY <1>1, <2>1, <2>2, <2>3, PushesJoined
    <2>5. s[k] # s[k + 1] /\ s[N - 1] = s[N] => Holds(h[3], 3, s[k], 2 * s[N - 1], 0, 0)
      BY <1>1, <2>1, <2>2, <2>3, PushesAlone
    <2>6. s[k] # s[k + 1] /\ s[N - 1] # s[N] => Holds(h[3], 3, s[k], s[N - 1], s[N], 0)
      BY <1>1, <2>1, <2>2, <2>3, PushesAlone
    <2> QED
      BY <2>1, <2>4, <2>5, <2>6
  <1>8. N = 4 =>
          /\ s[1] = s[2] /\ s[3] = s[4] => Holds(h[4], 4, 2 * s[1], 2 * s[3], 0, 0)
          /\ s[1] = s[2] /\ s[3] # s[4] => Holds(h[4], 4, 2 * s[1], s[3], s[4], 0)
          /\ s[1] # s[2] /\ s[2] = s[3] => Holds(h[4], 4, s[1], 2 * s[2], s[4], 0)
          /\ s[1] # s[2] /\ s[2] # s[3] /\ s[3] = s[4] =>
                Holds(h[4], 4, s[1], s[2], 2 * s[3], 0)
          /\ s[1] # s[2] /\ s[2] # s[3] /\ s[3] # s[4] =>
                Holds(h[4], 4, s[1], s[2], s[3], s[4])
    <2> SUFFICES ASSUME N = 4
                 PROVE
          /\ s[1] = s[2] /\ s[3] = s[4] => Holds(h[4], 4, 2 * s[1], 2 * s[3], 0, 0)
          /\ s[1] = s[2] /\ s[3] # s[4] => Holds(h[4], 4, 2 * s[1], s[3], s[4], 0)
          /\ s[1] # s[2] /\ s[2] = s[3] => Holds(h[4], 4, s[1], 2 * s[2], s[4], 0)
          /\ s[1] # s[2] /\ s[2] # s[3] /\ s[3] = s[4] =>
                Holds(h[4], 4, s[1], s[2], 2 * s[3], 0)
          /\ s[1] # s[2] /\ s[2] # s[3] /\ s[3] # s[4] =>
                Holds(h[4], 4, s[1], s[2], s[3], s[4])
      OBVIOUS
    <2>1. 1 \in 1 .. Len(s) /\ 1 = Len(s) - 4 + 1 /\ 1 + 1 = 2
      BY <1>2
    <2>2. /\ 4 \in 1 .. Len(s) /\ 4 <= 4 /\ 4 > 1 /\ 3 = 4 - 1 /\ 2 = 4 - 2
          /\ N > 2 /\ N > 1 /\ N - 2 = 2 /\ N - 1 = 3
      <3>1. 4 \in 1 .. N /\ 4 <= 4 /\ 4 > 1 /\ 3 = 4 - 1 /\ 2 = 4 - 2
        OBVIOUS
      <3>2. N > 2 /\ N > 1 /\ N - 2 = 2 /\ N - 1 = 3
        OBVIOUS
      <3> QED
        BY <1>2, <3>1, <3>2
    <2>3. /\ s[3] = s[4] => Holds(h[2], 2, 2 * s[3], 0, 0, 0)
          /\ s[3] # s[4] => Holds(h[2], 2, s[3], s[4], 0, 0)
      BY <1>6, <2>2
    <2>4. /\ s[2] = s[3] => Holds(h[3], 3, 2 * s[2], s[4], 0, 0)
          /\ s[2] # s[3] /\ s[3] = s[4] => Holds(h[3], 3, s[2], 2 * s[3], 0, 0)
          /\ s[2] # s[3] /\ s[3] # s[4] => Holds(h[3], 3, s[2], s[3], s[4], 0)
      BY <1>7, <2>2
    <2>5. s[1] = s[2] /\ s[3] = s[4] => Holds(h[4], 4, 2 * s[1], 2 * s[3], 0, 0)
      BY <1>1, <2>1, <2>2, <2>3, PushesJoined
    <2>6. s[1] = s[2] /\ s[3] # s[4] => Holds(h[4], 4, 2 * s[1], s[3], s[4], 0)
      BY <1>1, <2>1, <2>2, <2>3, PushesJoined
    <2>7. ASSUME s[1] # s[2], NEW w, NEW x, NEW y, NEW z, Holds(h[3], 3, w, x, y, z)
          PROVE  Holds(h[4], 4, s[1], w, x, y)
      <3>1. s[1] # s[1 + 1]
        BY <2>1, <2>7
      <3> QED
        BY <1>1, <2>1, <2>2, <2>7, <3>1, PushesAlone
    <2>8. s[1] # s[2] /\ s[2] = s[3] => Holds(h[4], 4, s[1], 2 * s[2], s[4], 0)
      BY <2>4, <2>7
    <2>9. s[1] # s[2] /\ s[2] # s[3] /\ s[3] = s[4] => Holds(h[4], 4, s[1], s[2], 2 * s[3], 0)
      BY <2>4, <2>7
    <2>10. s[1] # s[2] /\ s[2] # s[3] /\ s[3] # s[4] => Holds(h[4], 4, s[1], s[2], s[3], s[4])
      BY <2>4, <2>7
    <2> QED
      BY <2>5, <2>6, <2>8, <2>9, <2>10
  <1>9. CASE N = 0
    BY <1>1, <1>2, <1>3, <1>4, <1>9 DEF PushReads, Holds
  <1>10. CASE N = 1
    BY <1>1, <1>2, <1>3, <1>5, <1>10 DEF PushReads, Holds
  <1>11. CASE N = 2
    <2>1. N - 1 = 1 /\ N > 1
      BY <1>11
    <2> QED
      BY <1>1, <1>2, <1>3, <1>6, <1>11, <2>1 DEF PushReads, Holds
  <1>12. CASE N = 3
    <2>1. N - 1 = 2 /\ N - 2 = 1 /\ N > 2
      BY <1>12
    <2> QED
      BY <1>1, <1>2, <1>3, <1>7, <1>12, <2>1 DEF PushReads, Holds
  <1>13. CASE N = 4
    BY <1>1, <1>2, <1>3, <1>8, <1>13 DEF PushReads, Holds
  <1> QED
    BY <1>9, <1>10, <1>11, <1>12, <1>13

\* The first k tiles of a line whose empty tiles are last, without the gaps.
Gathered(q, d, k) ==
    /\ q \in Seq(Nat) /\ Len(q) <= k
    /\ \A i \in 1 .. Len(q) : q[i] = d[i] /\ d[i] # 0
    /\ \A i \in 1 .. k : i > Len(q) => d[i] = 0

\* One tile more.
LEMMA PutGathers ==
    ASSUME NEW d \in FourLines, EmptyLast(d), NEW k \in 0 .. 3, NEW q, Gathered(q, d, k)
    PROVE  Gathered(Put(q, d[k + 1]), d, k + 1)
  <1>1. q \in Seq(Nat) /\ Len(q) \in Nat /\ Len(q) <= k
    BY DEF Gathered
  <1>2. PICK a \in Nat : a = d[k + 1]
    BY DEF FourLines, Four
  <1>3. CASE a = 0
    <2>1. Put(q, d[k + 1]) = q
      BY <1>2, <1>3 DEF Put
    <2>2. Len(q) <= k + 1
      BY <1>1
    <2>3. ASSUME NEW i \in 1 .. k + 1, i > Len(q) PROVE d[i] = 0
      <3>1. i \in 1 .. k \/ i = k + 1
        OBVIOUS
      <3> QED
        BY <1>2, <1>3, <2>3, <3>1 DEF Gathered
    <2> QED
      BY <2>1, <2>2, <2>3 DEF Gathered
  <1>4. CASE a # 0
    <2>1. Len(q) = k
      <3>1. k # 0 => d[k] # 0
        <4>1. k # 0 => k \in 1 .. 3
          OBVIOUS
        <4> QED
          BY <1>2, <1>4, <4>1 DEF EmptyLast
      <3>2. SUFFICES ASSUME Len(q) < k PROVE FALSE
        BY <1>1
      <3>3. k # 0 /\ k \in 1 .. k /\ k > Len(q)
        BY <1>1, <3>2
      <3> QED
        BY <3>1, <3>3 DEF Gathered
    <2>2. PICK p : p = Put(q, d[k + 1]) /\ p = Append(q, a)
      BY <1>2, <1>4 DEF Put
    <2>3. p \in Seq(Nat) /\ Len(p) = Len(q) + 1 /\ p[Len(q) + 1] = a /\ \A i \in 1 .. Len(q) : p[i] = q[i]
      BY <1>1, <2>2, AppendProperties
    <2>4. Len(p) = k + 1 /\ p[k + 1] = a
      BY <2>1, <2>3
    <2>5. ASSUME NEW i \in 1 .. Len(p) PROVE p[i] = d[i] /\ d[i] # 0
      <3>1. i \in 1 .. Len(q) \/ i = k + 1
        BY <1>1, <2>1, <2>4
      <3> QED
        BY <1>2, <1>4, <2>3, <2>4, <3>1 DEF Gathered
    <2>6. \A i \in 1 .. k + 1 : ~(i > Len(p))
      BY <2>4
    <2>7. Len(p) <= k + 1
      BY <2>4
    <2> QED
      BY <2>2, <2>3, <2>5, <2>6, <2>7 DEF Gathered
  <1> QED
    BY <1>3, <1>4

\* All four.
LEMMA PackGathers ==
    ASSUME NEW d \in FourLines, EmptyLast(d)
    PROVE  Gathered(PackOf(d), d, 4)
  <1>1. PICK e \in Seq(Nat) : e = <<>> /\ Len(e) = 0
    <2>1. <<>> \in Seq(Nat) /\ Len(<<>>) = 0
      OBVIOUS
    <2> QED
      BY <2>1
  <1>2. Gathered(e, d, 0)
    BY <1>1 DEF Gathered
  <1>3. PICK q1, q2, q3 : q1 = Put(e, d[1]) /\ q2 = Put(q1, d[2]) /\ q3 = Put(q2, d[3])
    OBVIOUS
  <1>4. /\ 0 + 1 = 1 /\ 1 + 1 = 2 /\ 2 + 1 = 3 /\ 3 + 1 = 4
        /\ 0 \in 0 .. 3 /\ 1 \in 0 .. 3 /\ 2 \in 0 .. 3 /\ 3 \in 0 .. 3
    OBVIOUS
  <1>5. Gathered(q1, d, 1)
    BY <1>2, <1>3, <1>4, PutGathers
  <1>6. Gathered(q2, d, 2)
    BY <1>3, <1>4, <1>5, PutGathers
  <1>7. Gathered(q3, d, 3)
    BY <1>3, <1>4, <1>6, PutGathers
  <1>8. Gathered(Put(q3, d[4]), d, 4)
    BY <1>4, <1>7, PutGathers
  <1> QED
    BY <1>1, <1>3, <1>8 DEF PackOf

\* A line is what it reads.
LEMMA ReadsSame ==
    ASSUME NEW c, NEW d, NEW w, NEW x, NEW y, NEW z, Reads(c, w, x, y, z), Reads(d, w, x, y, z)
    PROVE  c = d
  <1>1. c \in [Four -> Nat] /\ d \in [Four -> Nat]
    BY DEF Reads, FourLines
  <1>2. c[1] = d[1] /\ c[2] = d[2] /\ c[3] = d[3] /\ c[4] = d[4]
    BY DEF Reads
  <1>3. ASSUME NEW k \in Four PROVE c[k] = d[k]
    <2>1. k = 1 \/ k = 2 \/ k = 3 \/ k = 4
      BY DEF Four
    <2> QED
      BY <1>2, <2>1
  <1> QED
    BY <1>1, <1>3

\* The tiles of a line after the last passes, if its empty tiles were last.
LastReads(q, w, x, y, z) ==
    /\ w = 0 /\ x = 0 /\ y = 0 /\ z = 0 => Reads(q, 0, 0, 0, 0)
    /\ w # 0 /\ x = 0 /\ y = 0 /\ z = 0 => Reads(q, w, 0, 0, 0)
    /\ w # 0 /\ x # 0 /\ y = 0 /\ z = 0 =>
          /\ w = x => Reads(q, 2 * w, 0, 0, 0)
          /\ w # x => Reads(q, w, x, 0, 0)
    /\ w # 0 /\ x # 0 /\ y # 0 /\ z = 0 =>
          /\ w = x => Reads(q, 2 * w, y, 0, 0)
          /\ w # x /\ x = y => Reads(q, w, 2 * x, 0, 0)
          /\ w # x /\ x # y => Reads(q, w, x, y, 0)
    /\ w # 0 /\ x # 0 /\ y # 0 /\ z # 0 =>
          /\ w = x /\ y = z => Reads(q, 2 * w, 2 * y, 0, 0)
          /\ w = x /\ y # z => Reads(q, 2 * w, y, z, 0)
          /\ w # x /\ x = y => Reads(q, w, 2 * x, z, 0)
          /\ w # x /\ x # y /\ y = z => Reads(q, w, x, 2 * y, 0)
          /\ w # x /\ x # y /\ y # z => Reads(q, w, x, y, z)

\* Merge pass and last shift pass of a line whose empty tiles are last.
LEMMA LastPasses ==
    ASSUME NEW d, NEW w, NEW x, NEW y, NEW z, Reads(d, w, x, y, z)
    PROVE  LastReads(Pass(5, Pass(4, d)), w, x, y, z)
  <1>0. w \in Nat /\ x \in Nat /\ y \in Nat /\ z \in Nat
    BY DEF Reads
  <1>1. PICK a \in Nat, b \in Nat, s \in Nat, r \in Nat, m \in Nat, n \in Nat :
           Merges(d, w, x, y, z, a, b, s, r, m, n)
    BY MergePass
  <1>2. PICK e, f, g, h : /\ Reads(Pass(5, Pass(4, d)), e, f, g, h)
                          /\ e = (IF a = 0 THEN s ELSE a)
                          /\ f = (IF a = 0 \/ s = 0 THEN r ELSE s)
                          /\ g = (IF a = 0 \/ s = 0 \/ r = 0 THEN b ELSE r)
                          /\ h = (IF a = 0 \/ s = 0 \/ r = 0 THEN 0 ELSE b)
    BY <1>1, ShiftPass DEF Merges
  <1>3. CASE w = 0 /\ x = 0 /\ y = 0 /\ z = 0
    <2>1. e = 0 /\ f = 0 /\ g = 0 /\ h = 0
      BY <1>1, <1>2, <1>3 DEF Merges
    <2> QED
      BY <1>2, <1>3, <2>1 DEF LastReads
  <1>4. CASE w # 0 /\ x = 0 /\ y = 0 /\ z = 0
    <2>1. e = w /\ f = 0 /\ g = 0 /\ h = 0
      BY <1>1, <1>2, <1>4 DEF Merges
    <2> QED
      BY <1>2, <1>4, <2>1 DEF LastReads
  <1>5. CASE w # 0 /\ x # 0 /\ y = 0 /\ z = 0
    <2>1. w = x => e = 2 * w /\ f = 0 /\ g = 0 /\ h = 0
      BY <1>0, <1>1, <1>2, <1>5 DEF Merges
    <2>2. w # x => e = w /\ f = x /\ g = 0 /\ h = 0
      BY <1>0, <1>1, <1>2, <1>5 DEF Merges
    <2> QED
      BY <1>2, <1>5, <2>1, <2>2 DEF LastReads
  <1>6. CASE w # 0 /\ x # 0 /\ y # 0 /\ z = 0
    <2>1. w = x => e = 2 * w /\ f = y /\ g = 0 /\ h = 0
      BY <1>0, <1>1, <1>2, <1>6 DEF Merges
    <2>2. w # x /\ x = y => e = w /\ f = 2 * x /\ g = 0 /\ h = 0
      BY <1>0, <1>1, <1>2, <1>6 DEF Merges
    <2>3. w # x /\ x # y => e = w /\ f = x /\ g = y /\ h = 0
      BY <1>0, <1>1, <1>2, <1>6 DEF Merges
    <2> QED
      BY <1>2, <1>6, <2>1, <2>2, <2>3 DEF LastReads
  <1>7. CASE w # 0 /\ x # 0 /\ y # 0 /\ z # 0
    <2>1. w = x /\ y = z => e = 2 * w /\ f = 2 * y /\ g = 0 /\ h = 0
      BY <1>0, <1>1, <1>2, <1>7 DEF Merges
    <2>2. w = x /\ y # z => e = 2 * w /\ f = y /\ g = z /\ h = 0
      BY <1>0, <1>1, <1>2, <1>7 DEF Merges
    <2>3. w # x /\ x = y => e = w /\ f = 2 * x /\ g = z /\ h = 0
      BY <1>0, <1>1, <1>2, <1>7 DEF Merges
    <2>4. w # x /\ x # y /\ y = z => e = w /\ f = x /\ g = 2 * y /\ h = 0
      BY <1>0, <1>1, <1>2, <1>7 DEF Merges
    <2>5. w # x /\ x # y /\ y # z => e = w /\ f = x /\ g = y /\ h = z
      BY <1>0, <1>1, <1>2, <1>7 DEF Merges
    <2> QED
      BY <1>2, <1>7, <2>1, <2>2, <2>3, <2>4, <2>5 DEF LastReads
  <1>8. CASE (w = 0 /\ (x # 0 \/ y # 0 \/ z # 0)) \/ (x = 0 /\ (y # 0 \/ z # 0)) \/ (y = 0 /\ z # 0)
    BY <1>8 DEF LastReads
  <1> QED
    BY <1>3, <1>4, <1>5, <1>6, <1>7, <1>8

\* They push the line.
LEMMA LinePushed ==
    ASSUME NEW d \in FourLines, EmptyLast(d)
    PROVE  Pass(5, Pass(4, d)) = Padded(Pushed(PackOf(d)))
  <1>1. PICK s : s = PackOf(d) /\ Gathered(s, d, 4)
    BY PackGathers
  <1>2. PICK w, x, y, z : Reads(d, w, x, y, z)
    BY ReadsAny
  <1>3. /\ d[1] = w /\ d[2] = x /\ d[3] = y /\ d[4] = z
        /\ w \in Nat /\ x \in Nat /\ y \in Nat /\ z \in Nat
    BY <1>2 DEF Reads
  <1>4. s \in Seq(Nat) /\ Len(s) \in Nat /\ Len(s) <= 4
    BY <1>1 DEF Gathered
  <1>5. \A i \in 1 .. Len(s) : s[i] = d[i] /\ d[i] # 0
    BY <1>1 DEF Gathered
  <1>6. \A i \in 1 .. 4 : i > Len(s) => d[i] = 0
    BY <1>1 DEF Gathered
  <1>7. PushReads(Pushed(s), s)
    BY <1>4, PushedReads
  <1>8. PICK p, q : p = Padded(Pushed(s)) /\ q = Pass(5, Pass(4, d))
    OBVIOUS
  <1>9. LastReads(q, w, x, y, z)
    BY <1>2, <1>8, LastPasses
  <1>10. p = q
    <2>1. CASE Len(s) = 0
      <3>1. w = 0 /\ x = 0 /\ y = 0 /\ z = 0
        BY <1>3, <1>5, <1>6, <2>1
      <3>2. Reads(p, 0, 0, 0, 0)
        BY <1>7, <1>8, <2>1, <3>1 DEF PushReads
      <3>3. Reads(q, 0, 0, 0, 0)
        BY <1>9, <3>1 DEF LastReads
      <3> QED
        BY <3>2, <3>3, ReadsSame
    <2>2. CASE Len(s) = 1
      <3>1. w # 0 /\ x = 0 /\ y = 0 /\ z = 0 /\ s[1] = w
        BY <1>3, <1>5, <1>6, <2>2
      <3>2. Reads(p, w, 0, 0, 0)
        BY <1>7, <1>8, <2>2, <3>1 DEF PushReads
      <3>3. Reads(q, w, 0, 0, 0)
        BY <1>9, <3>1 DEF LastReads
      <3> QED
        BY <3>2, <3>3, ReadsSame
    <2>3. CASE Len(s) = 2
      <3>1. w # 0 /\ x # 0 /\ y = 0 /\ z = 0 /\ s[1] = w /\ s[2] = x
        BY <1>3, <1>5, <1>6, <2>3
      <3>2. CASE w = x
        <4>1. Reads(p, 2 * w, 0, 0, 0)
          BY <1>7, <1>8, <2>3, <3>1, <3>2 DEF PushReads
        <4>2. Reads(q, 2 * w, 0, 0, 0)
          BY <1>9, <3>1, <3>2 DEF LastReads
        <4> QED
          BY <4>1, <4>2, ReadsSame
      <3>3. CASE w # x
        <4>1. Reads(p, w, x, 0, 0)
          BY <1>7, <1>8, <2>3, <3>1, <3>3 DEF PushReads
        <4>2. Reads(q, w, x, 0, 0)
          BY <1>9, <3>1, <3>3 DEF LastReads
        <4> QED
          BY <4>1, <4>2, ReadsSame
      <3> QED
        BY <3>2, <3>3
    <2>4. CASE Len(s) = 3
      <3>1. w # 0 /\ x # 0 /\ y # 0 /\ z = 0 /\ s[1] = w /\ s[2] = x /\ s[3] = y
        BY <1>3, <1>5, <1>6, <2>4
      <3>2. CASE w = x
        <4>1. Reads(p, 2 * w, y, 0, 0)
          BY <1>7, <1>8, <2>4, <3>1, <3>2 DEF PushReads
        <4>2. Reads(q, 2 * w, y, 0, 0)
          BY <1>9, <3>1, <3>2 DEF LastReads
        <4> QED
          BY <4>1, <4>2, ReadsSame
      <3>3. CASE w # x /\ x = y
        <4>1. Reads(p, w, 2 * x, 0, 0)
          BY <1>7, <1>8, <2>4, <3>1, <3>3 DEF PushReads
        <4>2. Reads(q, w, 2 * x, 0, 0)
          BY <1>9, <3>1, <3>3 DEF LastReads
        <4> QED
          BY <4>1, <4>2, ReadsSame
      <3>4. CASE w # x /\ x # y
        <4>1. Reads(p, w, x, y, 0)
          BY <1>7, <1>8, <2>4, <3>1, <3>4 DEF PushReads
        <4>2. Reads(q, w, x, y, 0)
          BY <1>9, <3>1, <3>4 DEF LastReads
        <4> QED
          BY <4>1, <4>2, ReadsSame
      <3> QED
        BY <3>2, <3>3, <3>4
    <2>5. CASE Len(s) = 4
      <3>1. w # 0 /\ x # 0 /\ y # 0 /\ z # 0 /\ s[1] = w /\ s[2] = x /\ s[3] = y /\ s[4] = z
        BY <1>3, <1>5, <1>6, <2>5
      <3>2. CASE w = x /\ y = z
        <4>1. Reads(p, 2 * w, 2 * y, 0, 0)
          BY <1>7, <1>8, <2>5, <3>1, <3>2 DEF PushReads
        <4>2. Reads(q, 2 * w, 2 * y, 0, 0)
          BY <1>9, <3>1, <3>2 DEF LastReads
        <4> QED
          BY <4>1, <4>2, ReadsSame
      <3>3. CASE w = x /\ y # z
        <4>1. Reads(p, 2 * w, y, z, 0)
          BY <1>7, <1>8, <2>5, <3>1, <3>3 DEF PushReads
        <4>2. Reads(q, 2 * w, y, z, 0)
          BY <1>9, <3>1, <3>3 DEF LastReads
        <4> QED
          BY <4>1, <4>2, ReadsSame
      <3>4. CASE w # x /\ x = y
        <4>1. Reads(p, w, 2 * x, z, 0)
          BY <1>7, <1>8, <2>5, <3>1, <3>4 DEF PushReads
        <4>2. Reads(q, w, 2 * x, z, 0)
          BY <1>9, <3>1, <3>4 DEF LastReads
        <4> QED
          BY <4>1, <4>2, ReadsSame
      <3>5. CASE w # x /\ x # y /\ y = z
        <4>1. Reads(p, w, x, 2 * y, 0)
          BY <1>7, <1>8, <2>5, <3>1, <3>5 DEF PushReads
        <4>2. Reads(q, w, x, 2 * y, 0)
          BY <1>9, <3>1, <3>5 DEF LastReads
        <4> QED
          BY <4>1, <4>2, ReadsSame
      <3>6. CASE w # x /\ x # y /\ y # z
        <4>1. Reads(p, w, x, y, z)
          BY <1>7, <1>8, <2>5, <3>1, <3>6 DEF PushReads
        <4>2. Reads(q, w, x, y, z)
          BY <1>9, <3>1, <3>6 DEF LastReads
        <4> QED
          BY <4>1, <4>2, ReadsSame
      <3> QED
        BY <3>2, <3>3, <3>4, <3>5, <3>6
    <2>6. Len(s) = 0 \/ Len(s) = 1 \/ Len(s) = 2 \/ Len(s) = 3 \/ Len(s) = 4
      <3>1. \A n \in Nat : n <= 4 => n = 0 \/ n = 1 \/ n = 2 \/ n = 3 \/ n = 4
        OBVIOUS
      <3> QED
        BY <1>4, <3>1
    <2> QED
      BY <2>1, <2>2, <2>3, <2>4, <2>5, <2>6
  <1> QED
    BY <1>1, <1>8, <1>10

\* All six passes.
SixPasses(c) == Pass(5, Pass(4, Pass(3, Pass(2, Pass(1, Pass(0, c))))))

\* They push every line of four.
LEMMA SixPush ==
    ASSUME NEW c \in FourLines
    PROVE  SixPasses(c) = Padded(Pushed(PackOf(c)))
  <1>1. PICK d : d = Pass(3, Pass(2, Pass(1, Pass(0, c))))
    OBVIOUS
  <1>2. d \in FourLines /\ EmptyLast(d) /\ PackOf(d) = PackOf(c)
    BY <1>1, FourPasses
  <1>3. Pass(5, Pass(4, d)) = Padded(Pushed(PackOf(d)))
    BY <1>2, LinePushed
  <1> QED
    BY <1>1, <1>2, <1>3 DEF SixPasses

\* A line and the line of four.
LEMMA PackedPads ==
    ASSUME NEW s \in Seq(Nat), Len(s) \in 2 .. 4
    PROVE  Packed(s) = PackOf(Padded(s))
  <1>1. PICK g : Packs(g, s) /\ Packed(s) = g[Len(s)]
    BY PackedIs
  <1>2. PICK c : c = Padded(s) /\ \A k \in Four : c[k] = IF k <= Len(s) THEN s[k] ELSE 0
    BY PaddedIs
  <1>3. g[0] = <<>> /\ \A k \in 1 .. Len(s) : g[k] = Put(g[k - 1], s[k])
    BY <1>1 DEF Packs
  <1>4. \A q : Put(q, 0) = q
    BY DEF Put
  <1>5. 1 \in Four /\ 2 \in Four /\ 3 \in Four /\ 4 \in Four
    BY DEF Four
  <1>6. PackOf(c) = Put(Put(Put(Put(<<>>, c[1]), c[2]), c[3]), c[4])
    BY DEF PackOf
  <1>7. g[1] = Put(<<>>, c[1]) /\ g[2] = Put(g[1], c[2])
    <2>1. 1 \in 1 .. Len(s) /\ 2 \in 1 .. Len(s) /\ 1 - 1 = 0 /\ 2 - 1 = 1 /\ 1 <= Len(s) /\ 2 <= Len(s)
      <3>1. \A n \in 2 .. 4 : 1 \in 1 .. n /\ 2 \in 1 .. n /\ 1 - 1 = 0 /\ 2 - 1 = 1 /\ 1 <= n /\ 2 <= n
        OBVIOUS
      <3> QED
        BY <3>1
    <2>2. c[1] = s[1] /\ c[2] = s[2]
      BY <1>2, <1>5, <2>1
    <2>3. g[1] = Put(g[0], s[1]) /\ g[2] = Put(g[1], s[2])
      BY <1>3, <2>1
    <2> QED
      BY <1>3, <2>2, <2>3
  <1>8. CASE Len(s) = 2
    <2>1. ~(3 <= Len(s)) /\ ~(4 <= Len(s))
      BY <1>8
    <2>2. c[3] = 0 /\ c[4] = 0
      BY <1>2, <1>5, <2>1
    <2>3. PackOf(c) = g[2]
      BY <1>4, <1>6, <1>7, <2>2
    <2> QED
      BY <1>1, <1>2, <1>8, <2>3
  <1>9. CASE Len(s) = 3
    <2>1. ~(4 <= Len(s)) /\ 3 <= Len(s) /\ 3 \in 1 .. Len(s) /\ 3 - 1 = 2
      BY <1>9
    <2>2. c[3] = s[3] /\ c[4] = 0 /\ g[3] = Put(g[2], s[3])
      BY <1>2, <1>3, <1>5, <2>1
    <2>3. PackOf(c) = g[3]
      BY <1>4, <1>6, <1>7, <2>2
    <2> QED
      BY <1>1, <1>2, <1>9, <2>3
  <1>10. CASE Len(s) = 4
    <2>1. 4 <= Len(s) /\ 3 <= Len(s) /\ 3 \in 1 .. Len(s) /\ 4 \in 1 .. Len(s) /\ 3 - 1 = 2 /\ 4 - 1 = 3
      BY <1>10
    <2>2. c[3] = s[3] /\ c[4] = s[4] /\ g[3] = Put(g[2], s[3]) /\ g[4] = Put(g[3], s[4])
      BY <1>2, <1>3, <1>5, <2>1
    <2>3. PackOf(c) = g[4]
      BY <1>6, <1>7, <2>2
    <2> QED
      BY <1>1, <1>2, <1>10, <2>3
  <1> QED
    BY <1>8, <1>9, <1>10

----------------------------------------------------------------------------
(***************************************************************************)
(* 2048: the loops of a pass, seen from one line.                          *)
(***************************************************************************)
OnLine(t, line, L) == [k \in Four |-> IF k <= L THEN t[line[k]] ELSE 0]

\* The line has L tiles; its pairs have their turn in rounds when[1], when[2],
\* ... of each pass, and the other rounds do not touch it.
LineIn(line, L) ==
    /\ L \in 2 .. 4 /\ line \in [1 .. L -> Tiles]
    /\ \A k, m \in 1 .. L : line[k] = line[m] => k = m
Times(dir, L, when) ==
    /\ when \in [1 .. 3 -> Nat] /\ when[1] < when[2] /\ when[2] < when[3]
    /\ \A k \in 1 .. 3 : k < L <=> when[k] < Rounds(dir)
HasTurn(dir, line, k, q) ==
    /\ ~Skips(dir, Index(dir, q))
    /\ To(dir, Index(dir, q)) = line[k] /\ From(dir, Index(dir, q)) = line[k + 1]
Untouched(dir, line, L, q) ==
    \/ Skips(dir, Index(dir, q))
    \/ \A k \in 1 .. L : line[k] # To(dir, Index(dir, q)) /\ line[k] # From(dir, Index(dir, q))
IsLine(dir, line, L, when) ==
    /\ LineIn(line, L) /\ Times(dir, L, when)
    /\ \A k \in 1 .. 3 : k < L => HasTurn(dir, line, k, when[k])
    /\ \A q \in 0 .. Rounds(dir) - 1 : (\E k \in 1 .. 3 : q = when[k]) \/ Untouched(dir, line, L, q)

\* The tiles on a line.
LEMMA OnLineIs ==
    ASSUME NEW line, NEW L, LineIn(line, L), NEW t \in Boards
    PROVE  /\ OnLine(t, line, L) \in FourLines
           /\ \A k \in 1 .. L : k \in Four /\ OnLine(t, line, L)[k] = t[line[k]]
           /\ \A k \in Four : ~(k <= L) => OnLine(t, line, L)[k] = 0
  <1>1. L \in 2 .. 4 /\ \A k \in 1 .. L : line[k] \in Tiles
    BY DEF LineIn
  <1>2. \A k \in Four : k <= L => k \in 1 .. L
    BY <1>1 DEF Four
  <1>3. \A k \in 1 .. L : k \in Four /\ k <= L
    BY <1>1 DEF Four
  <1>4. \A k \in Four : (IF k <= L THEN t[line[k]] ELSE 0) \in Nat
    BY <1>1, <1>2 DEF Boards
  <1> QED
    BY <1>3, <1>4 DEF OnLine, FourLines

\* The round of pair k.
LEMMA RoundTurn ==
    ASSUME NEW dir \in Directions, NEW line, NEW L, LineIn(line, L),
           NEW b \in Games, NEW r \in Games, NEW j, NEW q,
           Does(dir, j, Index(dir, q), b, r), NEW k \in 1 .. 3, k < L, HasTurn(dir, line, k, q)
    PROVE  OnLine(r.t, line, L) = PairAt(j, OnLine(b.t, line, L), k)
  <1>1. b.t \in Boards /\ r.t \in Boards
    BY DEF Games
  <1>2. PICK c, e : c = OnLine(b.t, line, L) /\ e = OnLine(r.t, line, L)
    OBVIOUS
  <1>3. c \in FourLines /\ e \in FourLines
    BY <1>1, <1>2, OnLineIs
  <1>4. \A m \in 1 .. L : m \in Four /\ c[m] = b.t[line[m]] /\ e[m] = r.t[line[m]]
    BY <1>1, <1>2, OnLineIs
  <1>5. \A m \in Four : ~(m <= L) => c[m] = 0 /\ e[m] = 0
    BY <1>1, <1>2, OnLineIs
  <1>6. L \in 2 .. 4 /\ k \in 1 .. L /\ k + 1 \in 1 .. L /\ k # k + 1
    BY DEF LineIn
  <1>7. PICK x \in Tiles, y \in Tiles : x = line[k] /\ y = line[k + 1]
    BY <1>6 DEF LineIn
  <1>8. /\ ~Skips(dir, Index(dir, q))
        /\ To(dir, Index(dir, q)) = x /\ From(dir, Index(dir, q)) = y
    BY <1>7 DEF HasTurn
  <1>9. \A m \in 1 .. L : m # k /\ m # k + 1 => line[m] \in Tiles /\ line[m] # x /\ line[m] # y
    BY <1>6, <1>7 DEF LineIn
  <1>10. c[k] = b.t[x] /\ c[k + 1] = b.t[y] /\ e[k] = r.t[x] /\ e[k + 1] = r.t[y]
    BY <1>4, <1>6, <1>7
  <1>11. PICK d : d = PairAt(j, c, k)
    OBVIOUS
  <1>12. d \in FourLines /\ \A m \in Four : m # k /\ m # k + 1 => d[m] = c[m]
    BY <1>3, <1>11, PairAtIs
  <1>13. /\ j # 4 => /\ d[k] = IF c[k] = 0 THEN c[k + 1] ELSE c[k]
                     /\ d[k + 1] = IF c[k] = 0 THEN 0 ELSE c[k + 1]
         /\ j = 4 => /\ d[k] = IF c[k] = c[k + 1] THEN 2 * c[k] ELSE c[k]
                     /\ d[k + 1] = IF c[k] = c[k + 1] THEN 0 ELSE c[k + 1]
    BY <1>3, <1>11, PairAtIs
  <1>14. e[k] = d[k] /\ e[k + 1] = d[k + 1] /\ \A z \in Tiles : z # x /\ z # y => r.t[z] = b.t[z]
    <2>1. CASE j # 4
      <3>1. Slides(b, r, x, y)
        BY <1>8, <2>1 DEF Does
      <3>2. CASE b.t[x] # 0
        <4>1. r = b
          BY <3>1, <3>2 DEF Slides
        <4> QED
          BY <1>10, <1>13, <2>1, <3>2, <4>1
      <3>3. CASE b.t[x] = 0
        <4>1. Goes(b, r, x, y, b.t[y], 0)
          BY <3>1, <3>3 DEF Slides
        <4>2. r.t[x] = b.t[y] /\ r.t[y] = 0 /\ \A z \in Tiles : z # x /\ z # y => r.t[z] = b.t[z]
          BY <4>1 DEF Goes
        <4> QED
          BY <1>10, <1>13, <2>1, <3>3, <4>2
      <3> QED
        BY <3>2, <3>3
    <2>2. CASE j = 4
      <3>1. Joins(b, r, x, y)
        BY <1>8, <2>2 DEF Does
      <3>2. CASE b.t[x] # b.t[y]
        <4>1. r = b
          BY <3>1, <3>2 DEF Joins
        <4> QED
          BY <1>10, <1>13, <2>2, <3>2, <4>1
      <3>3. CASE b.t[x] = b.t[y]
        <4>1. Goes(b, r, x, y, 2 * b.t[x], 2 * b.t[x])
          BY <3>1, <3>3 DEF Joins
        <4>2. r.t[x] = 2 * b.t[x] /\ r.t[y] = 0 /\ \A z \in Tiles : z # x /\ z # y => r.t[z] = b.t[z]
          BY <4>1 DEF Goes
        <4> QED
          BY <1>10, <1>13, <2>2, <3>3, <4>2
      <3> QED
        BY <3>2, <3>3
    <2> QED
      BY <2>1, <2>2
  <1>15. ASSUME NEW m \in Four PROVE e[m] = d[m]
    <2>1. CASE m = k \/ m = k + 1
      BY <1>14, <2>1
    <2>2. CASE m # k /\ m # k + 1 /\ ~(m <= L)
      BY <1>5, <1>12, <2>2
    <2>3. CASE m # k /\ m # k + 1 /\ m <= L
      <3>1. m \in 1 .. L
        BY <1>6, <2>3 DEF Four
      <3>2. e[m] = r.t[line[m]] /\ c[m] = b.t[line[m]] /\ r.t[line[m]] = b.t[line[m]]
        BY <1>4, <1>9, <1>14, <2>3, <3>1
      <3> QED
        BY <1>12, <2>3, <3>2
    <2> QED
      BY <2>1, <2>2, <2>3
  <1>16. e \in [Four -> Nat] /\ d \in [Four -> Nat]
    BY <1>3, <1>12 DEF FourLines
  <1>17. e = d
    BY <1>15, <1>16
  <1> QED
    BY <1>2, <1>11, <1>17

\* Another round.
LEMMA RoundElse ==
    ASSUME NEW dir \in Directions, NEW line, NEW L, LineIn(line, L),
           NEW b \in Games, NEW r \in Games, NEW j, NEW q \in 0 .. Rounds(dir) - 1,
           Does(dir, j, Index(dir, q), b, r), Untouched(dir, line, L, q)
    PROVE  OnLine(r.t, line, L) = OnLine(b.t, line, L)
  <1>1. CASE Skips(dir, Index(dir, q))
    BY <1>1 DEF Does
  <1>2. CASE ~Skips(dir, Index(dir, q))
    <2>1. PICK x, y : x = To(dir, Index(dir, q)) /\ y = From(dir, Index(dir, q))
      OBVIOUS
    <2>2. Slides(b, r, x, y) \/ Joins(b, r, x, y)
      BY <1>2, <2>1 DEF Does
    <2>3. \A z \in Tiles : z # x /\ z # y => r.t[z] = b.t[z]
      BY <2>2 DEF Slides, Joins, Goes
    <2>4. ASSUME NEW k \in Four, k <= L PROVE r.t[line[k]] = b.t[line[k]]
      <3>1. k \in 1 .. L
        BY <2>4 DEF Four, LineIn
      <3>2. line[k] \in Tiles /\ line[k] # x /\ line[k] # y
        BY <1>2, <2>1, <3>1 DEF Untouched, LineIn
      <3> QED
        BY <2>3, <3>2
    <2> QED
      BY <2>4 DEF OnLine
  <1> QED
    BY <1>1, <1>2

\* What the first m rounds of pass j make of a line c.
InPass(j, c, when, m) ==
    IF m <= when[1] THEN c
    ELSE IF m <= when[2] THEN PairAt(j, c, 1)
    ELSE IF m <= when[3] THEN PairAt(j, PairAt(j, c, 1), 2)
    ELSE PairAt(j, PairAt(j, PairAt(j, c, 1), 2), 3)

\* A round more.
LEMMA PartStep ==
    ASSUME NEW j, NEW c, NEW when \in [1 .. 3 -> Nat], when[1] < when[2], when[2] < when[3], NEW m \in Nat
    PROVE  /\ \A k \in 1 .. 3 :
                 m = when[k] => InPass(j, c, when, m + 1) = PairAt(j, InPass(j, c, when, m), k)
           /\ (\A k \in 1 .. 3 : m # when[k]) => InPass(j, c, when, m + 1) = InPass(j, c, when, m)
  <1>1. PICK x \in Nat, y \in Nat, z \in Nat : x = when[1] /\ y = when[2] /\ z = when[3] /\ x < y /\ y < z
    OBVIOUS
  <1>2. PICK c1, c2, c3 : c1 = PairAt(j, c, 1) /\ c2 = PairAt(j, c1, 2) /\ c3 = PairAt(j, c2, 3)
    OBVIOUS
  <1>3. \A n : InPass(j, c, when, n) =
                 IF n <= x THEN c ELSE IF n <= y THEN c1 ELSE IF n <= z THEN c2 ELSE c3
    BY <1>1, <1>2 DEF InPass
  <1>4. m = x => InPass(j, c, when, m) = c /\ InPass(j, c, when, m + 1) = c1
    <2> SUFFICES ASSUME m = x PROVE InPass(j, c, when, m) = c /\ InPass(j, c, when, m + 1) = c1
      OBVIOUS
    <2>1. m <= x /\ ~(m + 1 <= x) /\ m + 1 <= y
      BY <1>1
    <2> QED
      BY <1>3, <2>1
  <1>5. m = y => InPass(j, c, when, m) = c1 /\ InPass(j, c, when, m + 1) = c2
    <2> SUFFICES ASSUME m = y PROVE InPass(j, c, when, m) = c1 /\ InPass(j, c, when, m + 1) = c2
      OBVIOUS
    <2>1. ~(m <= x) /\ m <= y /\ ~(m + 1 <= x) /\ ~(m + 1 <= y) /\ m + 1 <= z
      BY <1>1
    <2> QED
      BY <1>3, <2>1
  <1>6. m = z => InPass(j, c, when, m) = c2 /\ InPass(j, c, when, m + 1) = c3
    <2> SUFFICES ASSUME m = z PROVE InPass(j, c, when, m) = c2 /\ InPass(j, c, when, m + 1) = c3
      OBVIOUS
    <2>1. ~(m <= x) /\ ~(m <= y) /\ m <= z /\ ~(m + 1 <= x) /\ ~(m + 1 <= y) /\ ~(m + 1 <= z)
      BY <1>1
    <2> QED
      BY <1>3, <2>1
  <1>7. m # x /\ m # y /\ m # z => InPass(j, c, when, m + 1) = InPass(j, c, when, m)
    <2> SUFFICES ASSUME m # x, m # y, m # z PROVE InPass(j, c, when, m + 1) = InPass(j, c, when, m)
      OBVIOUS
    <2>1. (m + 1 <= x <=> m <= x) /\ (m + 1 <= y <=> m <= y) /\ (m + 1 <= z <=> m <= z)
      BY <1>1
    <2> QED
      BY <1>3, <2>1
  <1>8. \A k \in 1 .. 3 : k = 1 \/ k = 2 \/ k = 3
    OBVIOUS
  <1>9. 1 \in 1 .. 3 /\ 2 \in 1 .. 3 /\ 3 \in 1 .. 3
    OBVIOUS
  <1>10. ASSUME NEW k \in 1 .. 3, m = when[k]
         PROVE  InPass(j, c, when, m + 1) = PairAt(j, InPass(j, c, when, m), k)
    <2>1. CASE k = 1
      BY <1>1, <1>2, <1>4, <1>10, <2>1
    <2>2. CASE k = 2
      BY <1>1, <1>2, <1>5, <1>10, <2>2
    <2>3. CASE k = 3
      BY <1>1, <1>2, <1>6, <1>10, <2>3
    <2> QED
      BY <1>8, <2>1, <2>2, <2>3
  <1>11. (\A k \in 1 .. 3 : m # when[k]) => m # x /\ m # y /\ m # z
    BY <1>1, <1>9
  <1> QED
    BY <1>7, <1>10, <1>11

\* Pass j of a move.
LEMMA PassOnLine ==
    ASSUME NEW dir \in Directions, NEW line, NEW L, NEW when, IsLine(dir, line, L, when),
           NEW t, NEW f, Plays(f, t, dir), NEW j \in 0 .. 5
    PROVE  /\ j * Rounds(dir) \in 0 .. 6 * Rounds(dir) /\ (j + 1) * Rounds(dir) \in 0 .. 6 * Rounds(dir)
           /\ OnLine(f[(j + 1) * Rounds(dir)].t, line, L) = Pass(j, OnLine(f[j * Rounds(dir)].t, line, L))
  <1>1. PICK len \in Nat \ {0} : len = Rounds(dir)
    BY RoundsAre
  <1>2. PICK base \in Nat, top \in Nat : /\ base = j * len /\ top = (j + 1) * len
                                         /\ top = base + len /\ top <= 6 * len
    <2>1. j \in Nat /\ j + 1 <= 6
      OBVIOUS
    <2>2. (j + 1) * len = j * len + len
      BY <2>1
    <2>3. (j + 1) * len <= 6 * len
      <3>1. j = 0 \/ j = 1 \/ j = 2 \/ j = 3 \/ j = 4 \/ j = 5
        OBVIOUS
      <3> QED
        BY <3>1
    <2>4. j * len \in Nat /\ (j + 1) * len \in Nat
      BY <2>1
    <2> QED
      BY <2>2, <2>3, <2>4
  <1>3. LineIn(line, L) /\ L \in 2 .. 4
    BY DEF IsLine, LineIn
  <1>4. /\ when \in [1 .. 3 -> Nat] /\ when[1] < when[2] /\ when[2] < when[3]
        /\ \A k \in 1 .. 3 : k < L <=> when[k] < len
    BY <1>1 DEF IsLine, Times
  <1>5. /\ f \in [0 .. 6 * len -> Games]
        /\ \A n \in 1 .. 6 * len : Does(dir, PassOf(dir, n), TileOf(dir, n), f[n - 1], f[n])
    BY <1>1 DEF Plays
  <1>6. PICK c : c = OnLine(f[base].t, line, L)
    OBVIOUS
  <1> DEFINE S == {m \in 0 .. len : OnLine(f[base + m].t, line, L) = InPass(j, c, when, m)}
  <1>7. 0 \in S
    <2>1. base + 0 = base /\ 0 \in 0 .. len /\ 0 <= when[1]
      BY <1>1, <1>2, <1>4
    <2>2. InPass(j, c, when, 0) = c
      BY <2>1 DEF InPass
    <2> QED
      BY <1>6, <2>1, <2>2
  <1>8. ASSUME NEW m \in 0 .. len - 1, m \in S PROVE m + 1 \in S
    <2>1. PICK n \in Nat : /\ n = base + m + 1 /\ n - 1 = base + m
                          /\ n \in 1 .. 6 * len /\ n - 1 \in 0 .. 6 * len /\ n \in 0 .. 6 * len
      <3>1. PICK K \in Nat : K = 6 * len /\ base + len <= K
        BY <1>1, <1>2
      <3>2. PICK n \in Nat : n = base + m + 1
        BY <1>1
      <3>3. n - 1 = base + m /\ n \in 1 .. K /\ n - 1 \in 0 .. K /\ n \in 0 .. K
        BY <1>1, <3>1, <3>2
      <3> QED
        BY <3>1, <3>2, <3>3
    <2>2. m \in 0 .. Rounds(dir) - 1 /\ n = j * Rounds(dir) + m + 1
      BY <1>1, <1>2, <2>1
    <2>3. PassOf(dir, n) = j /\ TileOf(dir, n) = Index(dir, m)
      BY <2>2, RoundOf
    <2>4. PICK b \in Games, r \in Games : b = f[n - 1] /\ r = f[n]
      BY <1>5, <2>1
    <2>5. Does(dir, j, Index(dir, m), b, r)
      BY <1>5, <2>1, <2>3, <2>4
    <2>6. OnLine(b.t, line, L) = InPass(j, c, when, m)
      BY <1>8, <2>1, <2>4
    <2>7. OnLine(r.t, line, L) = InPass(j, c, when, m + 1)
      <3>1. m \in Nat
        OBVIOUS
      <3>2. CASE \E k \in 1 .. 3 : m = when[k]
        <4>1. PICK k \in 1 .. 3 : m = when[k]
          BY <3>2
        <4>2. when[k] < len
          BY <4>1
        <4>3. k < L
          BY <1>4, <4>2
        <4>4. HasTurn(dir, line, k, m)
          BY <4>1, <4>3 DEF IsLine
        <4>5. OnLine(r.t, line, L) = PairAt(j, OnLine(b.t, line, L), k)
          BY <1>3, <2>5, <4>3, <4>4, RoundTurn
        <4>6. InPass(j, c, when, m + 1) = PairAt(j, InPass(j, c, when, m), k)
          BY <1>4, <3>1, <4>1, PartStep
        <4> QED
          BY <2>6, <4>5, <4>6
      <3>3. CASE \A k \in 1 .. 3 : m # when[k]
        <4>1. Untouched(dir, line, L, m)
          BY <2>2, <3>3 DEF IsLine
        <4>2. OnLine(r.t, line, L) = OnLine(b.t, line, L)
          BY <1>3, <2>2, <2>5, <4>1, RoundElse
        <4>3. InPass(j, c, when, m + 1) = InPass(j, c, when, m)
          BY <1>4, <3>1, <3>3, PartStep
        <4> QED
          BY <2>6, <4>2, <4>3
      <3> QED
        BY <3>2, <3>3
    <2>8. base + (m + 1) = n /\ m + 1 \in 0 .. len
      BY <1>1, <2>1
    <2> QED
      BY <2>4, <2>7, <2>8
  <1> HIDE DEF S
  <1>9. len \in S
    <2>1. 0 .. len \subseteq S
      BY <1>1, <1>7, <1>8, UpTo
    <2>2. len \in 0 .. len
      BY <1>1
    <2> QED
      BY <2>1, <2>2
  <1>10. PICK e : e = OnLine(f[top].t, line, L) /\ e = InPass(j, c, when, len)
    <2>1. base + len = top /\ OnLine(f[base + len].t, line, L) = InPass(j, c, when, len)
      BY <1>2, <1>9 DEF S
    <2> QED
      BY <2>1
  <1>11. f[base] \in Games /\ f[top] \in Games /\ base \in 0 .. 6 * len /\ top \in 0 .. 6 * len
    <2>1. PICK K \in Nat : K = 6 * len
      BY <1>1
    <2>2. base \in 0 .. K /\ top \in 0 .. K
      BY <1>2, <2>1
    <2> QED
      BY <1>5, <2>1, <2>2
  <1>12. c \in FourLines /\ e \in FourLines /\ \A k \in Four : ~(k <= L) => e[k] = 0
    <2>1. PICK u \in Boards, w \in Boards : u = f[base].t /\ w = f[top].t
      BY <1>11 DEF Games
    <2>2. c = OnLine(u, line, L) /\ e = OnLine(w, line, L)
      BY <1>6, <1>10, <2>1
    <2> QED
      BY <1>3, <2>2, OnLineIs
  <1>13. PICK c1, c2, c3 : c1 = PairAt(j, c, 1) /\ c2 = PairAt(j, c1, 2) /\ c3 = PairAt(j, c2, 3)
    OBVIOUS
  <1>14. Pass(j, c) = c3
    BY <1>13 DEF Pass
  <1>15. /\ 1 \in 1 .. 3 /\ 2 \in 1 .. 3 /\ 3 \in 1 .. 3 /\ 3 \in Four /\ 4 \in Four
         /\ 2 + 1 = 3 /\ 3 + 1 = 4
    BY DEF Four
  <1>16. when[1] \in Nat /\ when[2] \in Nat /\ when[3] \in Nat
    BY <1>4, <1>15
  <1>17. e = c3
    <2>1. CASE L = 2
      <3>1. 1 < L /\ ~(2 < L) /\ ~(3 <= L) /\ ~(4 <= L)
        BY <2>1
      <3>2. when[1] < len /\ ~(when[2] < len)
        BY <1>4, <1>15, <3>1
      <3>3. ~(len <= when[1]) /\ len <= when[2]
        BY <1>1, <1>16, <3>2
      <3>4. e = c1
        BY <1>10, <1>13, <3>3 DEF InPass
      <3>5. e[3] = 0 /\ e[4] = 0
        BY <1>12, <1>15, <3>1
      <3>6. PairAt(j, e, 2) = e /\ PairAt(j, e, 3) = e
        BY <1>12, <1>15, <3>5, PairAtEnd
      <3> QED
        BY <1>13, <3>4, <3>6
    <2>2. CASE L = 3
      <3>1. 2 < L /\ ~(3 < L) /\ ~(4 <= L)
        BY <2>2
      <3>2. when[2] < len /\ ~(when[3] < len)
        BY <1>4, <1>15, <3>1
      <3>3. ~(len <= when[1]) /\ ~(len <= when[2]) /\ len <= when[3]
        BY <1>1, <1>4, <1>16, <3>2
      <3>4. e = c2
        BY <1>10, <1>13, <3>3 DEF InPass
      <3>5. e[4] = 0
        BY <1>12, <1>15, <3>1
      <3>6. PairAt(j, e, 3) = e
        BY <1>12, <1>15, <3>5, PairAtEnd
      <3> QED
        BY <1>13, <3>4, <3>6
    <2>3. CASE L = 4
      <3>1. 3 < L
        BY <2>3
      <3>2. when[3] < len
        BY <1>4, <1>15, <3>1
      <3>3. ~(len <= when[1]) /\ ~(len <= when[2]) /\ ~(len <= when[3])
        BY <1>1, <1>4, <1>16, <3>2
      <3> QED
        BY <1>10, <1>13, <3>3 DEF InPass
    <2> QED
      BY <1>3, <2>1, <2>2, <2>3
  <1> QED
    BY <1>1, <1>2, <1>6, <1>10, <1>11, <1>14, <1>17

\* A move, on a line.
LEMMA MoveOnLine ==
    ASSUME NEW dir \in Directions, NEW line, NEW L, NEW when, IsLine(dir, line, L, when),
           NEW t \in Boards
    PROVE  /\ OnLine(move_tile(t, dir).t, line, L) = SixPasses(OnLine(t, line, L))
           /\ move_tile(t, dir).t \in Boards
  <1>1. PICK f : Plays(f, t, dir) /\ move_tile(t, dir) = f[6 * Rounds(dir)]
    BY MoveIs
  <1>2. PICK len \in Nat \ {0} : len = Rounds(dir)
    BY RoundsAre
  <1> DEFINE At(j) == OnLine(f[j * len].t, line, L)
  <1>3. ASSUME NEW j \in 0 .. 5 PROVE At(j + 1) = Pass(j, At(j))
    BY <1>1, <1>2, PassOnLine
  <1>4. At(0) = OnLine(t, line, L)
    <2>1. 0 * len = 0
      BY <1>2
    <2>2. f[0] = [t |-> t, gain |-> 0]
      BY <1>1 DEF Plays
    <2>3. f[0].t = t
      BY <2>2
    <2> QED
      BY <2>1, <2>3
  <1>5. At(6) = OnLine(move_tile(t, dir).t, line, L)
    BY <1>1, <1>2
  <1> HIDE DEF At
  <1>6. /\ 0 \in 0 .. 5 /\ 1 \in 0 .. 5 /\ 2 \in 0 .. 5 /\ 3 \in 0 .. 5 /\ 4 \in 0 .. 5 /\ 5 \in 0 .. 5
        /\ 0 + 1 = 1 /\ 1 + 1 = 2 /\ 2 + 1 = 3 /\ 3 + 1 = 4 /\ 4 + 1 = 5 /\ 5 + 1 = 6
    OBVIOUS
  <1>7. At(1) = Pass(0, At(0)) /\ At(2) = Pass(1, At(1)) /\ At(3) = Pass(2, At(2))
    BY <1>3, <1>6
  <1>8. At(4) = Pass(3, At(3)) /\ At(5) = Pass(4, At(4)) /\ At(6) = Pass(5, At(5))
    BY <1>3, <1>6
  <1>9. At(6) = SixPasses(At(0))
    BY <1>7, <1>8 DEF SixPasses
  <1>10. move_tile(t, dir) \in Games
    <2>1. 6 * len \in 0 .. 6 * len
      BY <1>2
    <2> QED
      BY <1>1, <1>2, <2>1 DEF Plays
  <1>11. move_tile(t, dir).t \in Boards
    BY <1>10 DEF Games
  <1> QED
    BY <1>4, <1>5, <1>9, <1>11

----------------------------------------------------------------------------
(***************************************************************************)
(* 2048: the lines of a board.  up are the tiles of a line in the order of *)
(* the array, a stride apart; the pairs before the first and after the     *)
(* last one are outside the loop or skipped.                               *)
(***************************************************************************)
Ends(dir, i) == i \in 0 .. Rounds(dir) - 1 => Skips(dir, i)
Along(dir, up, L) ==
    /\ L \in 2 .. 4 /\ up \in [1 .. L -> Tiles]
    /\ \A k \in 1 .. L : k < L => up[k + 1] = up[k] + Stride(dir) /\ ~Skips(dir, up[k])
    /\ Ends(dir, up[1] - Stride(dir)) /\ Ends(dir, up[L])

\* Where the tiles are.
LEMMA AlongIs ==
    ASSUME NEW dir \in Directions, NEW up, NEW L, Along(dir, up, L),
           NEW len \in Nat, len = Rounds(dir), NEW st \in 1 .. 4, st = Stride(dir)
    PROVE  /\ \A k \in 1 .. L : up[k] \in Nat /\ (k < L => up[k] < len)
           /\ \A k, m \in 1 .. L : k < m => up[k] < up[m]
           /\ \A k \in 1 .. L : k < L => k + 1 \in 1 .. L /\ up[k + 1] = up[k] + st
  <1>1. L \in 2 .. 4 /\ Rounds(dir) + Stride(dir) = ROWS * COLS
    BY RoundsAre DEF Along
  <1>2. \A k \in 1 .. L : up[k] \in Nat /\ up[k] < len + st
    <2>1. Tiles = 0 .. (len + st) - 1
      BY <1>1 DEF Tiles
    <2>2. \A k \in 1 .. L : up[k] \in Tiles
      BY DEF Along
    <2> QED
      BY <2>1, <2>2
  <1>3. \A k \in 1 .. L : k < L => k + 1 \in 1 .. L /\ up[k + 1] = up[k] + st
    BY <1>1 DEF Along
  <1>4. \A k \in 1 .. L : k < L => up[k] < len
    BY <1>2, <1>3
  <1>5. ASSUME NEW k \in 1 .. L, NEW m \in 1 .. L, k < m PROVE up[k] < up[m]
    <2>1. k < L /\ k + 1 \in 1 .. L /\ up[k] < up[k + 1]
      BY <1>1, <1>2, <1>3, <1>5
    <2>2. k + 1 < L => (k + 1) + 1 \in 1 .. L /\ up[k + 1] < up[(k + 1) + 1]
      BY <1>2, <1>3, <2>1
    <2>3. (k + 1) + 1 < L => up[(k + 1) + 1] < up[((k + 1) + 1) + 1]
      <3>1. SUFFICES ASSUME (k + 1) + 1 < L PROVE up[(k + 1) + 1] < up[((k + 1) + 1) + 1]
        OBVIOUS
      <3>2. PICK n \in 1 .. L : n = (k + 1) + 1 /\ n < L
        BY <1>1, <3>1
      <3> QED
        BY <1>2, <1>3, <3>2
    <2>4. m = k + 1 \/ m = (k + 1) + 1 \/ m = ((k + 1) + 1) + 1
      BY <1>1, <1>5
    <2>5. CASE m = k + 1
      BY <2>1, <2>5
    <2>6. CASE m = (k + 1) + 1
      <3>1. k + 1 < L
        BY <1>1, <2>6
      <3> QED
        BY <1>2, <2>1, <2>2, <2>6, <3>1
    <2>7. CASE m = ((k + 1) + 1) + 1
      <3>1. k + 1 < L /\ (k + 1) + 1 < L
        BY <1>1, <2>7
      <3> QED
        BY <1>2, <2>1, <2>2, <2>3, <2>7, <3>1
    <2> QED
      BY <2>4, <2>5, <2>6, <2>7
  <1> QED
    BY <1>2, <1>3, <1>4, <1>5

\* Moving up or left.
LEMMA UpLine ==
    ASSUME NEW dir \in {"U", "L"}, NEW up, NEW L, Along(dir, up, L)
    PROVE  \E when : IsLine(dir, up, L, when)
  <1>0. dir \in Directions
    BY DEF Directions
  <1>1. PICK len \in Nat \ {0}, st \in 1 .. 4 : len = Rounds(dir) /\ st = Stride(dir)
    BY <1>0, RoundsAre
  <1>2. L \in 2 .. 4 /\ \A k \in 1 .. L : up[k] \in Nat /\ (k < L => up[k] < len)
    BY <1>0, <1>1, AlongIs DEF Along
  <1>3. \A k, m \in 1 .. L : k < m => up[k] < up[m]
    BY <1>0, <1>1, AlongIs
  <1>4. \A k \in 1 .. L : k < L => k + 1 \in 1 .. L /\ up[k + 1] = up[k] + st
    BY <1>0, <1>1, AlongIs
  <1>5. LineIn(up, L)
    <2>1. \A k, m \in 1 .. L : up[k] = up[m] => k = m
      BY <1>2, <1>3
    <2> QED
      BY <2>1 DEF LineIn, Along
  <1> DEFINE when == [k \in 1 .. 3 |-> IF k < L THEN up[k] ELSE len + k]
  <1>6. \A k \in 1 .. 3 : (k < L => k \in 1 .. L) /\ when[k] = IF k < L THEN up[k] ELSE len + k
    BY <1>2
  <1>7. Times(dir, L, when)
    <2>1. \A k \in 1 .. 3 : when[k] \in Nat /\ (k < L <=> when[k] < len)
      BY <1>1, <1>2, <1>6
    <2>2. when \in [1 .. 3 -> Nat]
      BY <2>1
    <2> HIDE DEF when
    <2>3. ASSUME NEW k \in 1 .. 2 PROVE when[k] < when[k + 1]
      <3>1. k \in 1 .. 3 /\ k + 1 \in 1 .. 3
        OBVIOUS
      <3>2. CASE k + 1 < L
        <4>1. k < L /\ k \in 1 .. L /\ k + 1 \in 1 .. L /\ k < k + 1
          BY <1>2, <3>1, <3>2
        <4>2. when[k] = up[k] /\ when[k + 1] = up[k + 1]
          BY <1>6, <3>1, <3>2, <4>1
        <4> QED
          BY <1>3, <4>1, <4>2
      <3>3. CASE ~(k + 1 < L) /\ k < L
        <4>1. when[k] < len /\ when[k + 1] = len + (k + 1) /\ when[k] \in Nat
          BY <1>6, <2>1, <3>1, <3>3
        <4> QED
          BY <1>1, <4>1
      <3>4. CASE ~(k < L)
        <4>1. ~(k + 1 < L)
          BY <1>2, <3>4
        <4>2. when[k] = len + k /\ when[k + 1] = len + (k + 1)
          BY <1>6, <3>1, <3>4, <4>1
        <4> QED
          BY <1>1, <4>2
      <3> QED
        BY <3>2, <3>3, <3>4
    <2>4. when[1] < when[2] /\ when[2] < when[3]
      <3>1. 1 \in 1 .. 2 /\ 2 \in 1 .. 2 /\ 1 + 1 = 2 /\ 2 + 1 = 3
        OBVIOUS
      <3> QED
        BY <2>3, <3>1
    <2> QED
      BY <1>1, <2>1, <2>2, <2>4 DEF Times
  <1> HIDE DEF when
  <1>8. \A i \in 0 .. len - 1 : Index(dir, i) = i /\ To(dir, i) = i /\ From(dir, i) = i + st
    BY <1>0, <1>1, IndexIs, PairIs
  <1>9. ASSUME NEW k \in 1 .. 3, k < L PROVE HasTurn(dir, up, k, when[k])
    <2>1. k \in 1 .. L /\ when[k] = up[k] /\ up[k] \in 0 .. len - 1 /\ up[k + 1] = up[k] + st
      BY <1>2, <1>4, <1>6, <1>9
    <2>2. ~Skips(dir, up[k])
      BY <1>9, <2>1 DEF Along
    <2> QED
      BY <1>8, <2>1, <2>2 DEF HasTurn
  <1>10. ASSUME NEW q \in 0 .. Rounds(dir) - 1, \A k \in 1 .. 3 : q # when[k]
         PROVE  Untouched(dir, up, L, q)
    <2> SUFFICES ASSUME ~Skips(dir, q), NEW k \in 1 .. L
                 PROVE  up[k] # q /\ up[k] # q + st
      BY <1>1, <1>8 DEF Untouched
    <2>0. q \in Nat /\ q < len
      BY <1>1
    <2>1. \A m \in 1 .. L : m < L => up[m] # q
      <3>1. ASSUME NEW m \in 1 .. L, m < L PROVE up[m] # q
        <4>1. m \in 1 .. 3
          BY <1>2, <3>1
        <4> QED
          BY <1>6, <1>10, <3>1, <4>1
      <3> QED
        BY <3>1
    <2>2. up[L] # q
      BY DEF Along, Ends
    <2>3. up[k] # q
      <3>1. k < L \/ k = L
        BY <1>2
      <3> QED
        BY <2>1, <2>2, <3>1
    <2>4. up[k] # q + st
      <3>1. SUFFICES ASSUME up[k] = q + st PROVE FALSE
        OBVIOUS
      <3>2. CASE k = 1
        <4>1. up[1] - st = q
          BY <1>2, <2>0, <3>1, <3>2
        <4> QED
          BY <1>1, <4>1 DEF Along, Ends
      <3>3. CASE k # 1
        <4>1. PICK m \in 1 .. L : m < L /\ m + 1 = k
          BY <1>2, <3>3
        <4>2. up[k] = up[m] + st /\ up[m] \in Nat
          BY <1>2, <1>4, <4>1
        <4>3. up[m] = q
          BY <2>0, <3>1, <4>2
        <4> QED
          BY <2>1, <4>1, <4>3
      <3> QED
        BY <3>2, <3>3
    <2> QED
      BY <2>3, <2>4
  <1>11. \A q \in 0 .. Rounds(dir) - 1 : (\E k \in 1 .. 3 : q = when[k]) \/ Untouched(dir, up, L, q)
    BY <1>10
  <1>12. IsLine(dir, up, L, when)
    BY <1>5, <1>7, <1>9, <1>11 DEF IsLine
  <1> QED
    BY <1>12

\* Moving down or right.
LEMMA DownLine ==
    ASSUME NEW dir \in {"D", "R"}, NEW up, NEW L, Along(dir, up, L),
           NEW down, down = [k \in 1 .. L |-> up[(L - k) + 1]]
    PROVE  \E when : IsLine(dir, down, L, when)
  <1>0. dir \in Directions
    BY DEF Directions
  <1>1. PICK len \in Nat \ {0}, st \in 1 .. 4 : len = Rounds(dir) /\ st = Stride(dir)
    BY <1>0, RoundsAre
  <1>2. L \in 2 .. 4 /\ \A k \in 1 .. L : up[k] \in Nat /\ (k < L => up[k] < len)
    BY <1>0, <1>1, AlongIs DEF Along
  <1>3. \A k, m \in 1 .. L : k < m => up[k] < up[m]
    BY <1>0, <1>1, AlongIs
  <1>4. \A k \in 1 .. L : k < L => k + 1 \in 1 .. L /\ up[k + 1] = up[k] + st
    BY <1>0, <1>1, AlongIs
  <1>5. \A k \in 1 .. L : (L - k) + 1 \in 1 .. L /\ down[k] = up[(L - k) + 1]
    BY <1>2
  <1>6. down[1] = up[L] /\ down[L] = up[1] /\ 1 \in 1 .. L /\ L \in 1 .. L
    <2>1. 1 \in 1 .. L /\ L \in 1 .. L /\ (L - 1) + 1 = L /\ (L - L) + 1 = 1
      BY <1>2
    <2> QED
      BY <1>5, <2>1
  <1>7. ASSUME NEW k \in 1 .. L, k < L
        PROVE  /\ k + 1 \in 1 .. L /\ down[k + 1] \in Nat /\ down[k + 1] < len
               /\ down[k] = down[k + 1] + st /\ ~Skips(dir, down[k + 1])
    <2>1. PICK m \in 1 .. L : /\ m = L - k /\ m < L /\ m + 1 = (L - k) + 1
                             /\ (L - (k + 1)) + 1 = m /\ k + 1 \in 1 .. L
      BY <1>2, <1>7
    <2>2. down[k + 1] = up[m] /\ down[k] = up[m + 1]
      BY <1>5, <2>1
    <2>3. ~Skips(dir, up[m])
      BY <2>1 DEF Along
    <2> QED
      BY <1>2, <1>4, <2>1, <2>2, <2>3
  <1>8. LineIn(down, L)
    <2>1. \A k, m \in 1 .. L : up[k] = up[m] => k = m
      BY <1>2, <1>3
    <2>2. ASSUME NEW k \in 1 .. L, NEW m \in 1 .. L, down[k] = down[m] PROVE k = m
      <3>1. (L - k) + 1 = (L - m) + 1
        BY <1>5, <2>1, <2>2
      <3> QED
        BY <1>2, <3>1
    <2>3. \A k \in 1 .. L : up[(L - k) + 1] \in Tiles
      BY <1>5 DEF Along
    <2>4. down \in [1 .. L -> Tiles]
      BY <2>3
    <2> QED
      BY <1>2, <2>2, <2>4 DEF LineIn
  <1> DEFINE when == [k \in 1 .. 3 |-> IF k < L THEN len - 1 - down[k + 1] ELSE len + k]
  <1>9. \A k \in 1 .. 3 : /\ k < L => k \in 1 .. L
                          /\ when[k] = IF k < L THEN len - 1 - down[k + 1] ELSE len + k
    BY <1>2
  <1>10. Times(dir, L, when)
    <2>1. ASSUME NEW k \in 1 .. 3 PROVE when[k] \in Nat /\ (k < L <=> when[k] < len)
      <3>1. CASE k < L
        <4>1. k \in 1 .. L /\ when[k] = len - 1 - down[k + 1]
          BY <1>9, <3>1
        <4>2. down[k + 1] \in Nat /\ down[k + 1] < len
          BY <1>7, <3>1, <4>1
        <4> HIDE DEF when
        <4> QED
          BY <1>1, <3>1, <4>1, <4>2
      <3>2. CASE ~(k < L)
        <4>1. when[k] = len + k
          BY <1>9, <3>2
        <4> HIDE DEF when
        <4> QED
          BY <1>1, <3>2, <4>1
      <3> QED
        BY <3>1, <3>2
    <2>2. when \in [1 .. 3 -> Nat]
      BY <2>1
    <2> HIDE DEF when
    <2>3. ASSUME NEW k \in 1 .. 2 PROVE when[k] < when[k + 1]
      <3>1. k \in 1 .. 3 /\ k + 1 \in 1 .. 3
        OBVIOUS
      <3>2. CASE k + 1 < L
        <4>1. k < L /\ k \in 1 .. L /\ k + 1 \in 1 .. L
          BY <1>2, <3>1, <3>2
        <4>2. when[k] = len - 1 - down[k + 1] /\ when[k + 1] = len - 1 - down[(k + 1) + 1]
          BY <1>9, <3>1, <3>2, <4>1
        <4>3. PICK n \in 1 .. L : n = k + 1 /\ n < L
          BY <3>2, <4>1
        <4>4. down[n] = down[n + 1] + st /\ down[n + 1] \in Nat
          BY <1>7, <4>3
        <4>5. PICK y \in Nat : y = down[n + 1] /\ down[n] = y + st
          BY <4>4
        <4>6. when[k] = len - 1 - (y + st) /\ when[k + 1] = len - 1 - y
          BY <4>2, <4>3, <4>5
        <4>7. len - 1 - (y + st) < len - 1 - y
          BY <1>1
        <4> QED
          BY <4>6, <4>7
      <3>3. CASE ~(k + 1 < L) /\ k < L
        <4>1. when[k] < len /\ when[k + 1] = len + (k + 1) /\ when[k] \in Nat
          BY <1>9, <2>1, <3>1, <3>3
        <4> QED
          BY <1>1, <4>1
      <3>4. CASE ~(k < L)
        <4>1. ~(k + 1 < L)
          BY <1>2, <3>4
        <4>2. when[k] = len + k /\ when[k + 1] = len + (k + 1)
          BY <1>9, <3>1, <3>4, <4>1
        <4> QED
          BY <1>1, <4>2
      <3> QED
        BY <3>2, <3>3, <3>4
    <2>4. when[1] < when[2] /\ when[2] < when[3]
      <3>1. 1 \in 1 .. 2 /\ 2 \in 1 .. 2 /\ 1 + 1 = 2 /\ 2 + 1 = 3
        OBVIOUS
      <3> QED
        BY <2>3, <3>1
    <2> QED
      BY <1>1, <2>1, <2>2, <2>4 DEF Times
  <1> HIDE DEF when
  <1>11. \A q \in 0 .. len - 1 : Index(dir, q) = len - 1 - q /\ len - 1 - q \in 0 .. len - 1
    BY <1>0, <1>1, IndexIs
  <1>12. \A i \in 0 .. len - 1 : To(dir, i) = i + st /\ From(dir, i) = i
    BY <1>0, <1>1, PairIs
  <1>13. ASSUME NEW k \in 1 .. 3, k < L PROVE HasTurn(dir, down, k, when[k])
    <2>1. k \in 1 .. L /\ when[k] = len - 1 - down[k + 1]
      BY <1>9, <1>13
    <2>2. PICK i \in 0 .. len - 1 : i = down[k + 1] /\ down[k] = i + st /\ ~Skips(dir, i)
      BY <1>7, <1>13, <2>1
    <2>3. PICK q \in 0 .. len - 1 : q = when[k] /\ len - 1 - q = i
      <3>1. len - 1 - i \in 0 .. len - 1 /\ len - 1 - (len - 1 - i) = i
        BY <1>1
      <3>2. when[k] = len - 1 - i
        BY <2>1, <2>2
      <3> QED
        BY <3>1, <3>2
    <2>4. Index(dir, q) = i
      BY <1>11, <2>3
    <2> QED
      BY <1>12, <2>2, <2>3, <2>4 DEF HasTurn
  <1>14. ASSUME NEW q \in 0 .. Rounds(dir) - 1, \A k \in 1 .. 3 : q # when[k]
         PROVE  Untouched(dir, down, L, q)
    <2>1. PICK i \in 0 .. len - 1 : i = len - 1 - q /\ i = Index(dir, q) /\ q = len - 1 - i
      BY <1>1, <1>11
    <2> SUFFICES ASSUME ~Skips(dir, i), NEW k \in 1 .. L
                 PROVE  down[k] # i + st /\ down[k] # i
      BY <1>12, <2>1 DEF Untouched
    <2>2. \A m \in 1 .. L : m < L => down[m + 1] # i
      <3>1. ASSUME NEW m \in 1 .. L, m < L, down[m + 1] = i PROVE FALSE
        <4>1. m \in 1 .. 3
          BY <1>2, <3>1
        <4>2. when[m] = len - 1 - i
          BY <1>9, <3>1, <4>1
        <4> QED
          BY <1>14, <2>1, <4>1, <4>2
      <3> QED
        BY <3>1
    <2>3. up[L] # i
      BY <1>1 DEF Along, Ends
    <2>4. up[1] # i + st
      <3>1. SUFFICES ASSUME up[1] = i + st PROVE FALSE
        OBVIOUS
      <3>2. up[1] - st = i
        BY <3>1
      <3> QED
        BY <1>1, <3>2 DEF Along, Ends
    <2>5. down[k] # i
      <3>1. CASE k = 1
        BY <1>6, <2>3, <3>1
      <3>2. CASE k # 1
        <4>1. PICK m \in 1 .. L : m < L /\ m + 1 = k
          BY <1>2, <3>2
        <4> QED
          BY <2>2, <4>1
      <3> QED
        BY <3>1, <3>2
    <2>6. down[k] # i + st
      <3>1. CASE k = L
        BY <1>6, <2>4, <3>1
      <3>2. CASE k # L
        <4>1. k < L
          BY <1>2, <3>2
        <4>2. down[k] = down[k + 1] + st /\ down[k + 1] \in Nat /\ down[k + 1] # i
          BY <1>7, <2>2, <4>1
        <4> QED
          BY <4>2
      <3> QED
        BY <3>1, <3>2
    <2> QED
      BY <2>5, <2>6
  <1>15. \A q \in 0 .. Rounds(dir) - 1 : (\E k \in 1 .. 3 : q = when[k]) \/ Untouched(dir, down, L, q)
    BY <1>14
  <1>16. IsLine(dir, down, L, when)
    BY <1>8, <1>10, <1>13, <1>15 DEF IsLine
  <1> QED
    BY <1>16

\* The place of a tile.
TileAt(r, c) == COLS * (r - 1) + c - 1

\* A row.
LEMMA RowAlong ==
    ASSUME NEW dir \in {"L", "R"}, NEW r \in 1 .. ROWS
    PROVE  Along(dir, [c \in 1 .. COLS |-> TileAt(r, c)], COLS)
  <1>1. /\ dir \in Directions /\ Stride(dir) = 1 /\ Rounds(dir) = ROWS * COLS - 1
        /\ ROWS \in 2 .. 4 /\ COLS \in 2 .. 4
    BY BoardSizes DEF Directions, Stride, Rounds
  <1>2. PICK base \in Nat, N \in Nat : base = COLS * (r - 1) /\ N = ROWS * COLS /\ base + COLS <= N
    <2>1. r - 1 \in Nat /\ COLS * (r - 1) \in Nat /\ ROWS * COLS \in Nat
      BY <1>1
    <2>2. COLS * (r - 1) + COLS <= ROWS * COLS
      <3>1. CASE COLS = 2
        BY <1>1, <3>1
      <3>2. CASE COLS = 3
        BY <1>1, <3>2
      <3>3. CASE COLS = 4
        BY <1>1, <3>3
      <3> QED
        BY <1>1, <3>1, <3>2, <3>3
    <2> QED
      BY <2>1, <2>2
  <1> DEFINE up == [c \in 1 .. COLS |-> TileAt(r, c)]
  <1>3. \A c \in 1 .. COLS : up[c] = base + c - 1
    BY <1>2 DEF TileAt
  <1>4. up \in [1 .. COLS -> Tiles]
    <2>1. \A c \in 1 .. COLS : TileAt(r, c) \in Tiles
      BY <1>1, <1>2 DEF TileAt, Tiles
    <2> QED
      BY <2>1
  <1> HIDE DEF up
  <1>5. \A i : Skips(dir, i) <=> i % COLS = COLS - 1
    BY DEF Skips
  <1>6. ASSUME NEW c \in 1 .. COLS, c < COLS PROVE up[c + 1] = up[c] + 1 /\ ~Skips(dir, up[c])
    <2>1. PICK q \in Nat, s \in 0 .. COLS - 1, x \in Nat :
             q = r - 1 /\ s = c - 1 /\ x = base + s /\ base = q * COLS
      BY <1>1, <1>2
    <2>2. x % COLS = s
      BY <1>1, <2>1, ModUnique
    <2>3. up[c] = x /\ s # COLS - 1
      BY <1>1, <1>3, <1>6, <2>1
    <2>4. c + 1 \in 1 .. COLS
      BY <1>1, <1>6
    <2>5. up[c + 1] = up[c] + 1
      BY <1>2, <1>3, <2>4
    <2> QED
      BY <1>5, <2>2, <2>3, <2>5
  <1>7. Ends(dir, up[1] - 1)
    <2>1. up[1] = base
      BY <1>1, <1>2, <1>3
    <2> SUFFICES ASSUME base - 1 \in Nat PROVE Skips(dir, base - 1)
      BY <2>1 DEF Ends
    <2>2. r # 1
      BY <1>1, <1>2
    <2>3. PICK q \in Nat, s \in 0 .. COLS - 1, x \in Nat :
             q = r - 2 /\ s = COLS - 1 /\ x = base - 1
      BY <1>1, <2>2
    <2>4. x = q * COLS + s
      <3>1. COLS * (r - 1) = (r - 2) * COLS + COLS
        BY <1>1
      <3> QED
        BY <1>1, <1>2, <2>3, <3>1
    <2>5. x % COLS = s
      BY <1>1, <2>4, ModUnique
    <2> QED
      BY <1>5, <2>3, <2>5
  <1>8. Ends(dir, up[COLS])
    <2>1. PICK q \in Nat, s \in 0 .. COLS - 1, x \in Nat :
             q = r - 1 /\ s = COLS - 1 /\ x = base + s /\ base = q * COLS
      BY <1>1, <1>2
    <2>2. x % COLS = s
      BY <1>1, <2>1, ModUnique
    <2>3. up[COLS] = x
      BY <1>1, <1>3, <2>1
    <2> QED
      BY <1>5, <2>1, <2>2, <2>3 DEF Ends
  <1>9. Along(dir, up, COLS)
    BY <1>1, <1>4, <1>6, <1>7, <1>8 DEF Along
  <1> QED
    BY <1>9 DEF up

\* A column.
LEMMA ColumnAlong ==
    ASSUME NEW dir \in {"U", "D"}, NEW c \in 1 .. COLS
    PROVE  Along(dir, [r \in 1 .. ROWS |-> TileAt(r, c)], ROWS)
  <1>1. /\ dir \in Directions /\ Stride(dir) = COLS /\ Rounds(dir) = ROWS * COLS - COLS
        /\ ROWS \in 2 .. 4 /\ COLS \in 2 .. 4
    BY BoardSizes DEF Directions, Stride, Rounds
  <1> DEFINE up == [r \in 1 .. ROWS |-> TileAt(r, c)]
  <1>2. \A r \in 1 .. ROWS : up[r] = COLS * (r - 1) + c - 1
    BY DEF TileAt
  <1>3. up \in [1 .. ROWS -> Tiles]
    <2>1. ASSUME NEW r \in 1 .. ROWS PROVE TileAt(r, c) \in Tiles
      <3>1. CASE COLS = 2
        BY <1>1, <3>1 DEF TileAt, Tiles
      <3>2. CASE COLS = 3
        BY <1>1, <3>2 DEF TileAt, Tiles
      <3>3. CASE COLS = 4
        BY <1>1, <3>3 DEF TileAt, Tiles
      <3> QED
        BY <1>1, <3>1, <3>2, <3>3
    <2> QED
      BY <2>1
  <1> HIDE DEF up
  <1>4. \A i : ~Skips(dir, i)
    BY DEF Skips
  <1>5. ASSUME NEW r \in 1 .. ROWS, r < ROWS PROVE up[r + 1] = up[r] + COLS
    <2>1. r + 1 \in 1 .. ROWS
      BY <1>1, <1>5
    <2>2. COLS * ((r + 1) - 1) + c - 1 = (COLS * (r - 1) + c - 1) + COLS
      BY <1>1
    <2> QED
      BY <1>2, <2>1, <2>2
  <1>6. ~(up[1] - COLS \in 0 .. Rounds(dir) - 1)
    <2>1. up[1] = c - 1
      BY <1>1, <1>2
    <2> QED
      BY <1>1, <2>1
  <1>7. ~(up[ROWS] \in 0 .. Rounds(dir) - 1)
    <2>1. up[ROWS] = COLS * (ROWS - 1) + c - 1
      BY <1>1, <1>2
    <2>2. COLS * (ROWS - 1) = ROWS * COLS - COLS /\ ROWS * COLS - COLS \in Nat
      BY BoardSizes
    <2> QED
      BY <1>1, <2>1, <2>2
  <1>8. Along(dir, up, ROWS)
    BY <1>1, <1>3, <1>4, <1>5, <1>6, <1>7 DEF Along, Ends
  <1> QED
    BY <1>8 DEF up

\* Every line of the board is one.
LEMMA LinesAre ==
    ASSUME NEW dir \in Directions, NEW line \in Lines[dir]
    PROVE  \E L, when : IsLine(dir, line, L, when)
  <1> DEFINE Row(r) == [c \in 1 .. COLS |-> TileAt(r, c)]
             Column(c) == [r \in 1 .. ROWS |-> TileAt(r, c)]
  <1>1. /\ Lines["L"] = {Row(r) : r \in 1 .. ROWS}
        /\ Lines["R"] = {Reverse(up) : up \in {Row(r) : r \in 1 .. ROWS}}
        /\ Lines["U"] = {Column(c) : c \in 1 .. COLS}
        /\ Lines["D"] = {Reverse(up) : up \in {Column(c) : c \in 1 .. COLS}}
    BY DEF Lines, Directions, TileAt
  <1>2. ROWS \in 2 .. 4 /\ COLS \in 2 .. 4
    BY BoardSizes
  <1>3. \A r : Row(r) = [c \in 1 .. COLS |-> Row(r)[c]] /\ Len(Row(r)) = COLS
    BY <1>2
  <1>4. \A c : Column(c) = [r \in 1 .. ROWS |-> Column(c)[r]] /\ Len(Column(c)) = ROWS
    BY <1>2
  <1>5. \A r \in 1 .. ROWS : \A d \in {"L", "R"} : Along(d, Row(r), COLS)
    BY RowAlong
  <1>6. \A c \in 1 .. COLS : \A d \in {"U", "D"} : Along(d, Column(c), ROWS)
    BY ColumnAlong
  <1> HIDE DEF Row, Column
  <1>7. CASE dir = "L"
    <2>1. PICK r \in 1 .. ROWS : line = Row(r)
      BY <1>1, <1>7
    <2> QED
      BY <1>5, <1>7, <2>1, UpLine
  <1>8. CASE dir = "U"
    <2>1. PICK c \in 1 .. COLS : line = Column(c)
      BY <1>1, <1>8
    <2> QED
      BY <1>6, <1>8, <2>1, UpLine
  <1>9. CASE dir = "R"
    <2>1. PICK r \in 1 .. ROWS : line = Reverse(Row(r))
      BY <1>1, <1>9
    <2>2. line = [k \in 1 .. COLS |-> Row(r)[(COLS - k) + 1]]
      BY <1>3, <2>1 DEF Reverse
    <2>3. Along(dir, Row(r), COLS)
      BY <1>5, <1>9
    <2> QED
      BY <1>9, <2>2, <2>3, DownLine
  <1>10. CASE dir = "D"
    <2>1. PICK c \in 1 .. COLS : line = Reverse(Column(c))
      BY <1>1, <1>10
    <2>2. line = [k \in 1 .. ROWS |-> Column(c)[(ROWS - k) + 1]]
      BY <1>4, <2>1 DEF Reverse
    <2>3. Along(dir, Column(c), ROWS)
      BY <1>6, <1>10
    <2> QED
      BY <1>10, <2>2, <2>3, DownLine
  <1> QED
    BY <1>7, <1>8, <1>9, <1>10 DEF Directions

\* A move pushes a line.
LEMMA MovePushes ==
    ASSUME NEW t \in Boards, NEW dir \in Directions, NEW line \in Lines[dir], NEW want,
           want = Pushed(Packed([k \in DOMAIN line |-> t[line[k]]])), NEW k \in DOMAIN line
    PROVE  move_tile(t, dir).t[line[k]] = IF k <= Len(want) THEN want[k] ELSE 0
  <1>1. PICK L, when : IsLine(dir, line, L, when)
    BY LinesAre
  <1>2. LineIn(line, L) /\ L \in 2 .. 4 /\ DOMAIN line = 1 .. L /\ \A m \in 1 .. L : line[m] \in Tiles
    BY <1>1 DEF IsLine, LineIn
  <1>3. PICK s : s = [m \in 1 .. L |-> t[line[m]]]
    OBVIOUS
  <1>4. s \in Seq(Nat) /\ Len(s) = L /\ \A m \in 1 .. L : s[m] = t[line[m]]
    <2>1. \A m \in 1 .. L : t[line[m]] \in Nat
      BY <1>2 DEF Boards
    <2>2. s \in [1 .. L -> Nat]
      BY <1>3, <2>1
    <2> QED
      BY <1>2, <1>3, <2>2
  <1>5. want = Pushed(Packed(s))
    BY <1>2, <1>3
  <1>6. Padded(s) = OnLine(t, line, L)
    <2>1. \A m \in Four : m <= L => m \in 1 .. L
      BY <1>2 DEF Four
    <2>2. \A m \in Four : (IF m <= Len(s) THEN s[m] ELSE 0) = (IF m <= L THEN t[line[m]] ELSE 0)
      BY <1>4, <2>1
    <2> QED
      BY <2>2 DEF Padded, OnLine
  <1>7. Packed(s) = PackOf(Padded(s))
    BY <1>2, <1>4, PackedPads
  <1>8. Padded(s) \in FourLines
    BY <1>4, PaddedIs
  <1>9. SixPasses(Padded(s)) = Padded(want)
    BY <1>5, <1>7, <1>8, SixPush
  <1>10. PICK u \in Boards : u = move_tile(t, dir).t /\ OnLine(u, line, L) = Padded(want)
    BY <1>1, <1>6, <1>9, MoveOnLine
  <1>11. k \in Four /\ OnLine(u, line, L)[k] = u[line[k]]
    BY <1>2, OnLineIs
  <1>12. Padded(want)[k] = IF k <= Len(want) THEN want[k] ELSE 0
    BY <1>11 DEF Padded
  <1> QED
    BY <1>10, <1>11, <1>12

\* A move pushes every line of the board to its edge, where equal neighbours
\* become one, nearest the edge first, and none merges twice: this is what the
\* six passes of move_tile over the flat array do, in each direction, to every
\* board of a game.
THEOREM MovesPush == GameSpec => []MoveIsPush
  <1>1. ASSUME GameInv PROVE MoveIsPush
    <2>1. tile \in Boards
      <3>1. tile \in [Tiles -> Values]
        BY <1>1 DEF GameInv
      <3>2. Values \subseteq Nat
        BY ValuesAre
      <3> QED
        BY <3>1, <3>2 DEF Boards
    <2>2. ASSUME NEW dir \in Directions, NEW line \in Lines[dir], NEW k \in DOMAIN line
          PROVE  LET want == Pushed(Packed([m \in DOMAIN line |-> tile[line[m]]]))
                 IN  move_tile(tile, dir).t[line[k]] = IF k <= Len(want) THEN want[k] ELSE 0
      BY <2>1, MovePushes
    <2> QED
      BY <2>2 DEF MoveIsPush
  <1> QED
    BY <1>1, GameInvariant, PTL

=============================================================================
