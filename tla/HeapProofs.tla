----------------------------- MODULE HeapProofs -----------------------------
(***************************************************************************)
(* Proofs about Heap, for every size of the heap, of the table and of a    *)
(* block: the neighbours of unused objects for any program, the rest for a *)
(* careful one.                                                            *)
(***************************************************************************)
EXTENDS Heap, Induction

\* size \div 32 + 1 blocks hold size bytes and no more than is free.
LEMMA DivFacts ==
    ASSUME NEW a \in Nat, NEW b \in Nat \ {0}
    PROVE  a \div b \in Nat /\ (a \div b) * b <= a /\ a < (a \div b + 1) * b
  OBVIOUS

\* Bytes below m blocks lie in a block below m.
LEMMA DivBound ==
    ASSUME NEW a \in Nat, NEW b \in Nat \ {0}, NEW m \in Nat, a < m * b
    PROVE  a \div b < m
  OBVIOUS

Table == [0 .. MALLOC_OBJ_NUM -> [used : BOOLEAN, size : Nat]]

\* The recursion of Addresses defines a function.
LEMMA AddressesDef ==
    ASSUME NEW objs \in Table
    PROVE  /\ Addresses(objs) \in [0 .. MALLOC_OBJ_NUM -> Nat]
           /\ Addresses(objs)[0] = 0
           /\ \A i \in 1 .. MALLOC_OBJ_NUM :
                 Addresses(objs)[i] = Addresses(objs)[i - 1] + objs[i - 1].size
  <1> DEFINE N == MALLOC_OBJ_NUM
             D == [a \in Nat \X Nat |-> IF a[1] \in 1 .. N THEN a[2] + objs[a[1] - 1].size ELSE 0]
             Rhs(f) == [i \in 0 .. N |-> IF i = 0 THEN 0 ELSE f[i - 1] + objs[i - 1].size]
             A == Addresses(objs)
  <1>1. N \in Nat /\ 0 \in Nat
    BY HeapAssumption
  <1>2. \A i \in 1 .. N : i - 1 \in 0 .. N /\ objs[i - 1].size \in Nat
    BY <1>1 DEF Table
  <1>3. D \in [Nat \X Nat -> Nat]
    BY <1>2
  <1>4. \A i \in 1 .. N : \A x \in Nat : D[<<i, x>>] = x + objs[i - 1].size
    BY <1>1
  <1> HIDE DEF D
  <1>5. PICK f \in [0 .. N -> Nat] : Iterates(f, N, 0, D)
    BY <1>1, <1>3, Recursion
  <1>6. \A i \in 1 .. N : f[i] = f[i - 1] + objs[i - 1].size
    BY <1>2, <1>4, <1>5 DEF Iterates
  <1>7. f = Rhs(f)
    BY <1>1, <1>5, <1>6 DEF Iterates
  <1>8. A = Rhs(A)
    BY <1>7 DEF Addresses
  <1> HIDE DEF A
  <1>9. A[0] = 0 /\ \A i \in 1 .. N : A[i] = A[i - 1] + objs[i - 1].size
    BY <1>1, <1>8
  <1>10. \A i \in 0 .. N : A[i] \in Nat
    <2> DEFINE T == {i \in 0 .. N : A[i] \in Nat}
    <2>1. 0 \in T
      BY <1>1, <1>9
    <2>2. ASSUME NEW i \in 0 .. N - 1, i \in T PROVE i + 1 \in T
      <3>1. i + 1 \in 1 .. N /\ (i + 1) - 1 = i
        BY <1>1
      <3>2. A[i + 1] = A[i] + objs[i].size /\ objs[i].size \in Nat
        BY <1>2, <1>9, <3>1
      <3> QED
        BY <1>1, <2>2, <3>1, <3>2
    <2> HIDE DEF T
    <2>3. 0 .. N \subseteq T
      BY <1>1, <2>1, <2>2, UpTo
    <2> QED
      BY <2>3 DEF T
  <1>11. A = [i \in 0 .. N |-> A[i]]
    BY <1>8
  <1>12. A \in [0 .. N -> Nat]
    BY <1>10, <1>11
  <1> QED
    BY <1>9, <1>12 DEF A

\* Addresses do not fall.
LEMMA AddressesRise ==
    ASSUME NEW objs \in Table, NEW i \in 0 .. MALLOC_OBJ_NUM, NEW j \in i .. MALLOC_OBJ_NUM
    PROVE  Addresses(objs)[i] <= Addresses(objs)[j]
  <1> DEFINE A == Addresses(objs)
             T == {k \in Nat : i + k <= MALLOC_OBJ_NUM => A[i] <= A[i + k]}
  <1>1. MALLOC_OBJ_NUM \in Nat /\ i \in Nat /\ j \in Nat
    BY HeapAssumption
  <1>2. /\ \A k \in 0 .. MALLOC_OBJ_NUM : A[k] \in Nat
        /\ \A k \in 1 .. MALLOC_OBJ_NUM : A[k] = A[k - 1] + objs[k - 1].size
    BY AddressesDef
  <1> HIDE DEF A
  <1>3. 0 \in T
    BY <1>1, <1>2
  <1>4. ASSUME NEW k \in 0 .. (j - i) - 1, k \in T PROVE k + 1 \in T
    <2> SUFFICES ASSUME i + (k + 1) <= MALLOC_OBJ_NUM PROVE A[i] <= A[i + (k + 1)]
      BY <1>1
    <2>1. /\ i + (k + 1) \in 1 .. MALLOC_OBJ_NUM /\ (i + (k + 1)) - 1 = i + k
          /\ i + k \in 0 .. MALLOC_OBJ_NUM
      BY <1>1
    <2>2. A[i + (k + 1)] = A[i + k] + objs[i + k].size /\ objs[i + k].size \in Nat
      BY <1>2, <2>1 DEF Table
    <2>3. A[i] <= A[i + k] /\ A[i] \in Nat /\ A[i + k] \in Nat
      BY <1>1, <1>2, <1>4, <2>1
    <2> QED
      BY <2>2, <2>3
  <1>5. j - i \in T
    <2> HIDE DEF T
    <2>1. j - i \in Nat
      BY <1>1
    <2>2. 0 .. j - i \subseteq T
      BY <1>3, <1>4, <2>1, UpTo
    <2> QED
      BY <2>1, <2>2
  <1>6. i + (j - i) = j /\ j <= MALLOC_OBJ_NUM
    BY <1>1
  <1> QED
    BY <1>5, <1>6 DEF A

\* The n objects of one table from index a, and of another from index b, have
\* the same sizes; the same addresses, the end of the last included.
SameSizes(objs, a, more, b, n) ==
    /\ a + n <= MALLOC_OBJ_NUM /\ b + n <= MALLOC_OBJ_NUM
    /\ \A k \in 0 .. n - 1 : objs[a + k].size = more[b + k].size
SamePlaces(objs, a, more, b, n) ==
    \A k \in 0 .. n : Addresses(objs)[a + k] = Addresses(more)[b + k]

\* Tables that agree on the sizes of n objects agree on where these end.
LEMMA AddressesShift ==
    ASSUME NEW objs \in Table, NEW more \in Table, NEW n \in Nat, NEW a \in Nat, NEW b \in Nat,
           Addresses(objs)[a] = Addresses(more)[b], SameSizes(objs, a, more, b, n)
    PROVE  SamePlaces(objs, a, more, b, n)
  <1> DEFINE A == Addresses(objs)
             B == Addresses(more)
             T == {k \in Nat : A[a + k] = B[b + k]}
  <1>1. /\ MALLOC_OBJ_NUM \in Nat /\ a + n <= MALLOC_OBJ_NUM /\ b + n <= MALLOC_OBJ_NUM
        /\ \A k \in 0 .. n - 1 : objs[a + k].size = more[b + k].size
    BY HeapAssumption DEF SameSizes
  <1>2. /\ \A k \in 1 .. MALLOC_OBJ_NUM : A[k] = A[k - 1] + objs[k - 1].size
        /\ \A k \in 1 .. MALLOC_OBJ_NUM : B[k] = B[k - 1] + more[k - 1].size
    BY AddressesDef
  <1>3. A[a] = B[b] /\ a + 0 = a /\ b + 0 = b
    OBVIOUS
  <1> HIDE DEF A, B
  <1>4. 0 \in T
    BY <1>3
  <1>5. ASSUME NEW k \in 0 .. n - 1, k \in T PROVE k + 1 \in T
    <2>1. /\ a + (k + 1) \in 1 .. MALLOC_OBJ_NUM /\ (a + (k + 1)) - 1 = a + k
          /\ b + (k + 1) \in 1 .. MALLOC_OBJ_NUM /\ (b + (k + 1)) - 1 = b + k
          /\ k + 1 \in Nat
      BY <1>1
    <2>2. A[a + (k + 1)] = A[a + k] + objs[a + k].size
      BY <1>2, <2>1
    <2>3. B[b + (k + 1)] = B[b + k] + more[b + k].size
      BY <1>2, <2>1
    <2> QED
      BY <1>1, <1>5, <2>1, <2>2, <2>3
  <1>6. 0 .. n \subseteq T
    <2> HIDE DEF T
    <2> QED
      BY <1>4, <1>5, UpTo
  <1> QED
    BY <1>6 DEF A, B, SamePlaces

----------------------------------------------------------------------------
(***************************************************************************)
(* Any program: types and neighbours.                                      *)
(***************************************************************************)
Entry == [used : BOOLEAN, size : Nat]
AnyInv == HeapType /\ UnusedApart

\* The facts of HeapType.
LEMMA TypeFacts ==
    ASSUME HeapType
    PROVE  /\ malloc_objs \in Table /\ MALLOC_OBJ_NUM \in Nat \ {0}
           /\ malloc_obj_count \in Nat /\ malloc_obj_count <= MALLOC_OBJ_NUM
           /\ \A k \in 0 .. MALLOC_OBJ_NUM : /\ malloc_objs[k] \in Entry
                                            /\ malloc_objs[k].used \in BOOLEAN
                                            /\ malloc_objs[k].size \in Nat
           /\ obj_ptr = Addresses(malloc_objs) /\ obj_ptr \in [0 .. MALLOC_OBJ_NUM -> Nat]
           /\ obj_ptr[0] = 0
           /\ \A k \in 1 .. MALLOC_OBJ_NUM : obj_ptr[k] = obj_ptr[k - 1] + malloc_objs[k - 1].size
  <1>1. malloc_objs \in Table
    BY DEF HeapType, Table
  <1> QED
    BY <1>1, HeapAssumption, AddressesDef DEF HeapType, Table, Entry, obj_ptr

\* The program keeps an object, or the size does not fit a type.
LEMMA ReturnedType ==
    ASSUME HeapType, NEW i \in 0 .. MALLOC_OBJ_NUM, NEW size \in Nat, Returned(i, size)
    PROVE  live' \in [Pointers -> Object \cup {NULL}]
  <1>1. [ptr |-> obj_ptr[i], size |-> size] \in Object
    BY TypeFacts DEF Object
  <1> QED
    BY <1>1 DEF Returned, HeapType

\* A split leaves a used object in front of the unused rest.
LEMMA SplitAny ==
    ASSUME AnyInv, NEW i \in 0 .. malloc_obj_count - 1, NEW size \in Nat,
           ~malloc_objs[i].used, size < malloc_objs[i].size * MALLOC_BLOCK_SIZE,
           malloc_obj_count # MALLOC_OBJ_NUM,
           malloc_objs' = Split(i, size), malloc_obj_count' = malloc_obj_count + 1
    PROVE  /\ malloc_objs' \in Table /\ malloc_obj_count' \in 0 .. MALLOC_OBJ_NUM
           /\ UnusedApart'
           /\ size \div MALLOC_BLOCK_SIZE \in Nat
           /\ malloc_objs'[i] = Obj(TRUE, size \div MALLOC_BLOCK_SIZE + 1)
           /\ malloc_objs'[i + 1]
                 = Obj(FALSE, malloc_objs[i].size - (size \div MALLOC_BLOCK_SIZE + 1))
           /\ malloc_objs[i].size - (size \div MALLOC_BLOCK_SIZE + 1) \in Nat
           /\ \A k \in 0 .. i - 1 : malloc_objs'[k] = malloc_objs[k]
           /\ \A k \in i + 2 .. malloc_obj_count + 1 : malloc_objs'[k] = malloc_objs[k - 1]
  <1> DEFINE q == size \div MALLOC_BLOCK_SIZE
             rest == malloc_objs[i].size - (q + 1)
             c == malloc_obj_count
  <1>1. HeapType /\ UnusedApart
    BY DEF AnyInv
  <1>2. /\ c \in Nat /\ c < MALLOC_OBJ_NUM /\ i \in Nat /\ i < c /\ MALLOC_OBJ_NUM \in Nat
        /\ i \in 0 .. MALLOC_OBJ_NUM
    BY <1>1, TypeFacts
  <1>3. q \in Nat /\ rest \in Nat
    <2>1. MALLOC_BLOCK_SIZE \in Nat \ {0} /\ malloc_objs[i].size \in Nat
      BY <1>1, <1>2, TypeFacts, HeapAssumption
    <2>2. q \in Nat
      BY <2>1, DivFacts
    <2>3. PICK m \in Nat : m = malloc_objs[i].size
      BY <2>1
    <2>4. q < m
      BY <2>1, <2>3, DivBound
    <2> QED
      BY <2>2, <2>3, <2>4
  <1>4. \A k \in 0 .. MALLOC_OBJ_NUM :
           malloc_objs'[k] = CASE k = i -> Obj(TRUE, q + 1)
                               [] k = i + 1 -> Obj(FALSE, rest)
                               [] k \in i + 2 .. c + 1 -> malloc_objs[k - 1]
                               [] OTHER -> malloc_objs[k]
    BY DEF Split
  <1> HIDE DEF q, rest
  <1>5. malloc_objs'[i] = Obj(TRUE, q + 1)
    <2>1. i # i + 1 /\ i \notin i + 2 .. c + 1
      BY <1>2
    <2> QED
      BY <1>2, <1>4, <2>1
  <1>6. malloc_objs'[i + 1] = Obj(FALSE, rest)
    <2>1. i + 1 \in 0 .. MALLOC_OBJ_NUM /\ i + 1 # i /\ i + 1 \notin i + 2 .. c + 1
      BY <1>2
    <2> QED
      BY <1>4, <2>1
  <1>7. ASSUME NEW k \in 0 .. i - 1 PROVE malloc_objs'[k] = malloc_objs[k]
    <2>1. k \in 0 .. MALLOC_OBJ_NUM /\ k # i /\ k # i + 1 /\ k \notin i + 2 .. c + 1
      BY <1>2
    <2> QED
      BY <1>4, <2>1
  <1>8. ASSUME NEW k \in i + 2 .. c + 1 PROVE malloc_objs'[k] = malloc_objs[k - 1]
    <2>1. k \in 0 .. MALLOC_OBJ_NUM /\ k # i /\ k # i + 1
      BY <1>2
    <2> QED
      BY <1>4, <2>1
  <1>9. malloc_objs' \in Table
    <2>1. Obj(TRUE, q + 1) \in Entry /\ Obj(FALSE, rest) \in Entry
      BY <1>3 DEF Obj, Entry
    <2>2. ASSUME NEW k \in 0 .. MALLOC_OBJ_NUM PROVE malloc_objs'[k] \in Entry
      <3>1. k \in i + 2 .. c + 1 => k - 1 \in 0 .. MALLOC_OBJ_NUM
        BY <1>2
      <3> QED
        BY <1>1, <1>4, <2>1, <3>1, TypeFacts
    <2>3. malloc_objs' = [k \in 0 .. MALLOC_OBJ_NUM |-> malloc_objs'[k]]
      BY DEF Split
    <2> QED
      BY <2>2, <2>3 DEF Table, Entry
  <1>10. UnusedApart'
    <2>1. malloc_obj_count' - 1 = c
      BY <1>2
    <2> SUFFICES ASSUME NEW k \in 1 .. c
                 PROVE  malloc_objs'[k - 1].used \/ malloc_objs'[k].used
      BY <2>1 DEF UnusedApart
    <2>2. CASE k < i
      <3>1. k \in 1 .. c - 1 /\ k \in 0 .. i - 1 /\ k - 1 \in 0 .. i - 1
        BY <1>2, <2>2
      <3> QED
        BY <1>1, <1>7, <3>1 DEF UnusedApart
    <2>3. CASE k = i
      BY <1>5, <2>3 DEF Obj
    <2>4. CASE k = i + 1
      <3>1. k - 1 = i
        BY <1>2, <2>4
      <3> QED
        BY <1>5, <3>1 DEF Obj
    <2>5. CASE k = i + 2
      <3>1. k \in i + 2 .. c + 1 /\ k - 1 = i + 1 /\ i + 1 \in 1 .. c - 1 /\ (i + 1) - 1 = i
        BY <1>2, <2>5
      <3>2. malloc_objs[i + 1].used
        BY <1>1, <3>1 DEF UnusedApart
      <3> QED
        BY <1>8, <3>1, <3>2
    <2>6. CASE k > i + 2
      <3>1. /\ k \in i + 2 .. c + 1 /\ k - 1 \in i + 2 .. c + 1 /\ k - 1 \in 1 .. c - 1
        BY <1>2, <2>6
      <3>2. malloc_objs[(k - 1) - 1].used \/ malloc_objs[k - 1].used
        BY <1>1, <3>1 DEF UnusedApart
      <3> QED
        BY <1>8, <3>1, <3>2
    <2> QED
      BY <1>2, <2>2, <2>3, <2>4, <2>5, <2>6
  <1>11. malloc_obj_count' \in 0 .. MALLOC_OBJ_NUM
    BY <1>2
  <1> QED
    BY <1>3, <1>5, <1>6, <1>7, <1>8, <1>9, <1>10, <1>11 DEF q, rest

\* An object taken whole was unused between used ones.
LEMMA WholeAny ==
    ASSUME AnyInv, NEW i \in 0 .. malloc_obj_count - 1,
           malloc_objs' = [malloc_objs EXCEPT ![i] = Obj(TRUE, malloc_objs[i].size)],
           UNCHANGED malloc_obj_count
    PROVE  /\ malloc_objs' \in Table /\ UnusedApart'
           /\ malloc_objs'[i] = Obj(TRUE, malloc_objs[i].size)
           /\ \A k \in 0 .. MALLOC_OBJ_NUM : k # i => malloc_objs'[k] = malloc_objs[k]
  <1>1. HeapType /\ UnusedApart
    BY DEF AnyInv
  <1>2. /\ i \in 0 .. MALLOC_OBJ_NUM /\ malloc_obj_count \in Nat
        /\ malloc_obj_count <= MALLOC_OBJ_NUM /\ MALLOC_OBJ_NUM \in Nat
    BY <1>1, TypeFacts
  <1>3. /\ malloc_objs \in Table /\ malloc_objs[i] \in Entry
        /\ \A k \in 0 .. MALLOC_OBJ_NUM : malloc_objs[k] \in Entry
    BY <1>1, <1>2, TypeFacts
  <1>4. \A k \in 0 .. MALLOC_OBJ_NUM : k # i => malloc_objs'[k] = malloc_objs[k]
    BY <1>2, <1>3 DEF Table
  <1>5. malloc_objs'[i] = Obj(TRUE, malloc_objs[i].size)
    BY <1>2, <1>3 DEF Table
  <1>6. malloc_objs' \in Table
    <2>1. Obj(TRUE, malloc_objs[i].size) \in Entry
      BY <1>1, <1>2, TypeFacts DEF Obj, Entry
    <2>2. \A k \in 0 .. MALLOC_OBJ_NUM : malloc_objs'[k] \in Entry
      BY <1>3, <1>4, <1>5, <2>1
    <2>3. malloc_objs' = [k \in 0 .. MALLOC_OBJ_NUM |-> malloc_objs'[k]]
      BY <1>3 DEF Table
    <2> QED
      BY <2>2, <2>3 DEF Table, Entry
  <1>7. UnusedApart'
    <2> SUFFICES ASSUME NEW k \in 1 .. malloc_obj_count - 1
                 PROVE  malloc_objs'[k - 1].used \/ malloc_objs'[k].used
      BY DEF UnusedApart
    <2>1. k \in 0 .. MALLOC_OBJ_NUM /\ k - 1 \in 0 .. MALLOC_OBJ_NUM
      BY <1>2
    <2>2. malloc_objs[k - 1].used \/ malloc_objs[k].used
      BY <1>1 DEF UnusedApart
    <2>3. malloc_objs'[i].used
      BY <1>5 DEF Obj
    <2>4. CASE k = i \/ k - 1 = i
      BY <2>3, <2>4
    <2>5. CASE k # i /\ k - 1 # i
      <3>1. malloc_objs'[k] = malloc_objs[k] /\ malloc_objs'[k - 1] = malloc_objs[k - 1]
        BY <1>4, <2>1, <2>5
      <3> QED
        BY <2>2, <3>1
    <2> QED
      BY <2>4, <2>5
  <1> QED
    BY <1>4, <1>5, <1>6, <1>7

\* What free makes of the table: how many entries go, and where the rest moves.
LEMMA FreedAny ==
    ASSUME AnyInv, NEW i \in 0 .. malloc_obj_count,
           malloc_objs' = Freed(i).objs, malloc_obj_count' = Freed(i).count
    PROVE  /\ malloc_objs' \in Table /\ malloc_obj_count' \in 0 .. MALLOC_OBJ_NUM
           /\ UnusedApart'
  <1> DEFINE c == malloc_obj_count
             below == i < c /\ ~malloc_objs[i + 1].used
             above == i > 0 /\ ~malloc_objs[i - 1].used
             behind == IF i < MALLOC_OBJ_NUM THEN malloc_objs[i + 1].size ELSE 0
             sum == malloc_objs[i].size + (IF below THEN behind ELSE 0)
                                        + (IF above THEN behind ELSE 0)
             move == (IF below THEN 1 ELSE 0) + (IF above THEN 1 ELSE 0)
             at == IF above THEN i - 1 ELSE i
             d == c - move
  <1>1. HeapType /\ UnusedApart
    BY DEF AnyInv
  <1>2. /\ c \in Nat /\ c <= MALLOC_OBJ_NUM /\ i \in Nat /\ i <= c /\ MALLOC_OBJ_NUM \in Nat
        /\ i \in 0 .. MALLOC_OBJ_NUM
    BY <1>1, TypeFacts
  <1>3. /\ malloc_obj_count' = d
        /\ malloc_objs' = [k \in 0 .. MALLOC_OBJ_NUM |->
                            CASE k = at -> Obj(FALSE, sum % SIZE_LIMIT)
                              [] k \in at + 1 .. d - 1 -> malloc_objs[k + move]
                              [] OTHER -> malloc_objs[k]]
    BY DEF Freed
  <1>4. sum \in Nat
    <2>1. malloc_objs[i].size \in Nat
      BY <1>1, <1>2, TypeFacts
    <2>2. behind \in Nat
      <3>1. i < MALLOC_OBJ_NUM => i + 1 \in 0 .. MALLOC_OBJ_NUM
        BY <1>2
      <3> QED
        BY <1>1, <3>1, TypeFacts
    <2> HIDE DEF behind, below, above
    <2> QED
      BY <2>1, <2>2
  <1>5. sum % SIZE_LIMIT \in Nat
    <2> HIDE DEF sum
    <2> QED
      BY <1>4, HeapAssumption
  <1>6. move \in Nat /\ d \in Nat /\ d <= c /\ at \in 0 .. MALLOC_OBJ_NUM /\ at <= i
    BY <1>2
  <1> DEFINE sz == sum % SIZE_LIMIT
  <1>7. \A k \in 0 .. MALLOC_OBJ_NUM :
           /\ k = at => malloc_objs'[k] = Obj(FALSE, sz)
           /\ k \in at + 1 .. d - 1 => malloc_objs'[k] = malloc_objs[k + move]
           /\ k # at /\ k \notin at + 1 .. d - 1 => malloc_objs'[k] = malloc_objs[k]
    <2>1. at \notin at + 1 .. d - 1
      BY <1>6
    <2>2. malloc_objs' = [k \in 0 .. MALLOC_OBJ_NUM |->
                            CASE k = at -> Obj(FALSE, sz)
                              [] k \in at + 1 .. d - 1 -> malloc_objs[k + move]
                              [] OTHER -> malloc_objs[k]]
      BY <1>3
    <2> HIDE DEF sz, at, move, d
    <2> QED
      BY <2>1, <2>2
  <1>8. malloc_objs' \in Table
    <2>1. Obj(FALSE, sz) \in Entry
      BY <1>5 DEF Obj, Entry
    <2>2. ASSUME NEW k \in 0 .. MALLOC_OBJ_NUM PROVE malloc_objs'[k] \in Entry
      <3>1. k \in at + 1 .. d - 1 => k + move \in 0 .. MALLOC_OBJ_NUM
        BY <1>2, <1>6
      <3> HIDE DEF sz, at, move, d
      <3> QED
        BY <1>1, <1>7, <2>1, <3>1, TypeFacts
    <2>3. malloc_objs' = [k \in 0 .. MALLOC_OBJ_NUM |-> malloc_objs'[k]]
      BY <1>3
    <2> QED
      BY <2>2, <2>3 DEF Table, Entry
  <1>9. UnusedApart'
    <2> SUFFICES ASSUME NEW k \in 1 .. d - 1
                 PROVE  malloc_objs'[k - 1].used \/ malloc_objs'[k].used
      BY <1>3 DEF UnusedApart
    <2>1. \A j \in 1 .. c - 1 : malloc_objs[j - 1].used \/ malloc_objs[j].used
      BY <1>1 DEF UnusedApart
    <2>2. k \in 0 .. MALLOC_OBJ_NUM /\ k - 1 \in 0 .. MALLOC_OBJ_NUM /\ k \in 1 .. c - 1
      BY <1>2, <1>6
    <2>3. CASE k < at
      <3>1. /\ k # at /\ k \notin at + 1 .. d - 1
            /\ k - 1 # at /\ k - 1 \notin at + 1 .. d - 1
        BY <1>6, <2>3
      <3> HIDE DEF at, move, d, sz, c
      <3> QED
        BY <1>7, <2>1, <2>2, <3>1
    <2>4. CASE k = at
      <3>1. k - 1 # at /\ k - 1 \notin at + 1 .. d - 1
        BY <1>6, <2>4
      <3>2. malloc_objs'[k - 1] = malloc_objs[k - 1]
        <4> HIDE DEF at, move, d, sz, c
        <4> QED
          BY <1>7, <2>2, <3>1
      <3>3. malloc_objs[k - 1].used
        <4>1. CASE above
          <5>1. k = i - 1 /\ ~malloc_objs[k].used
            BY <2>4, <4>1
          <5> QED
            BY <2>1, <2>2, <5>1
        <4>2. CASE ~above
          <5>1. k = i /\ i > 0
            BY <2>4, <2>2, <4>2
          <5> QED
            BY <4>2, <5>1
        <4> QED
          BY <4>1, <4>2
      <3> QED
        BY <3>2, <3>3
    <2>5. CASE k = at + 1
      <3>1. k \in at + 1 .. d - 1
        BY <1>6, <2>5
      <3>2. malloc_objs'[k] = malloc_objs[k + move]
        <4> HIDE DEF at, move, d, sz, c
        <4> QED
          BY <1>7, <2>2, <3>1
      <3>3. CASE below
        <4>1. k + move = i + 2 /\ i + 2 \in 1 .. c - 1 /\ (i + 2) - 1 = i + 1
          BY <1>2, <2>5, <3>3
        <4>2. malloc_objs[i + 2].used
          BY <2>1, <3>3, <4>1
        <4> QED
          BY <3>2, <4>1, <4>2
      <3>4. CASE ~below
        <4>1. k + move = i + 1 /\ i < c
          BY <1>2, <2>5, <3>4
        <4> QED
          BY <3>2, <3>4, <4>1
      <3> QED
        BY <3>3, <3>4
    <2>6. CASE k > at + 1
      <3>1. /\ k \in at + 1 .. d - 1 /\ k - 1 \in at + 1 .. d - 1
            /\ k + move \in 1 .. c - 1 /\ (k + move) - 1 = (k - 1) + move
        BY <1>2, <1>6, <2>6
      <3>2. malloc_objs[(k + move) - 1].used \/ malloc_objs[k + move].used
        <4> HIDE DEF at, move, d, sz, c
        <4> QED
          BY <2>1, <3>1
      <3>3. malloc_objs'[k] = malloc_objs[k + move]
            /\ malloc_objs'[k - 1] = malloc_objs[(k + move) - 1]
        <4> HIDE DEF at, move, d, sz, c
        <4> QED
          BY <1>7, <2>2, <3>1
      <3> QED
        BY <3>2, <3>3
    <2> QED
      BY <1>6, <2>3, <2>4, <2>5, <2>6
  <1>10. malloc_obj_count' \in 0 .. MALLOC_OBJ_NUM
    BY <1>2, <1>3, <1>6
  <1> QED
    BY <1>8, <1>9, <1>10

\* Every program keeps the types and the unused objects apart.
LEMMA AnyStep == AnyInv /\ [Next]_vars => AnyInv'
  <1> SUFFICES ASSUME AnyInv, [Next]_vars PROVE AnyInv'
    OBVIOUS
  <1>1. HeapType /\ UnusedApart
    BY DEF AnyInv
  <1>2. MALLOC_OBJ_NUM \in Nat \ {0} /\ MALLOC_HEAP_SIZE \in Nat /\ Sizes \subseteq Nat
        /\ malloc_obj_count \in 0 .. MALLOC_OBJ_NUM
    BY <1>1, HeapAssumption DEF HeapType
  <1>3. CASE NewProcess
    <2>1. malloc_objs' \in Table
      BY <1>1, <1>2, <1>3 DEF NewProcess, HeapType, Table, Obj
    <2>2. malloc_obj_count' = 1 /\ live' \in [Pointers -> Object \cup {NULL}]
      BY <1>3 DEF NewProcess
    <2> QED
      BY <1>2, <2>1, <2>2 DEF AnyInv, HeapType, UnusedApart, Table
  <1>4. ASSUME NEW size \in Sizes, syscall_malloc(size) PROVE AnyInv'
    <2>1. CASE malloc_split(size)
      <3>1. PICK i \in FirstFit(size) :
              /\ size < malloc_objs[i].size * MALLOC_BLOCK_SIZE
              /\ malloc_obj_count # MALLOC_OBJ_NUM
              /\ malloc_objs' = Split(i, size)
              /\ malloc_obj_count' = malloc_obj_count + 1
              /\ Returned(i, size)
        BY <2>1 DEF malloc_split
      <3>2. i \in 0 .. malloc_obj_count - 1 /\ ~malloc_objs[i].used /\ size \in Nat
            /\ i \in 0 .. MALLOC_OBJ_NUM
        BY <1>2, <3>1 DEF FirstFit
      <3>3. /\ malloc_objs' \in Table /\ malloc_obj_count' \in 0 .. MALLOC_OBJ_NUM
            /\ UnusedApart'
        BY <3>1, <3>2, SplitAny
      <3>4. live' \in [Pointers -> Object \cup {NULL}]
        BY <1>1, <3>1, <3>2, ReturnedType
      <3> QED
        BY <3>3, <3>4 DEF AnyInv, HeapType, Table
    <2>2. CASE malloc_whole(size)
      <3>1. PICK i \in FirstFit(size) :
              /\ malloc_objs' = [malloc_objs EXCEPT ![i] = Obj(TRUE, malloc_objs[i].size)]
              /\ Returned(i, size) /\ UNCHANGED malloc_obj_count
        BY <2>2 DEF malloc_whole
      <3>2. i \in 0 .. malloc_obj_count - 1 /\ i \in 0 .. MALLOC_OBJ_NUM /\ size \in Nat
        BY <1>2, <3>1 DEF FirstFit
      <3>3. malloc_objs' \in Table /\ UnusedApart'
        BY <3>1, <3>2, WholeAny
      <3>4. live' \in [Pointers -> Object \cup {NULL}]
        BY <1>1, <3>1, <3>2, ReturnedType
      <3> QED
        BY <1>2, <3>1, <3>3, <3>4 DEF AnyInv, HeapType, Table
    <2> QED
      BY <1>4, <2>1, <2>2 DEF syscall_malloc
  <1>5. ASSUME NEW v \in Pointers, syscall_free(v) PROVE AnyInv'
    <2>1. live' \in [Pointers -> Object \cup {NULL}]
      BY <1>1, <1>5 DEF syscall_free, HeapType
    <2>2. PICK i \in FreeIndex(live[v].ptr) :
             IF obj_ptr[i] = live[v].ptr
             THEN malloc_objs' = Freed(i).objs /\ malloc_obj_count' = Freed(i).count
             ELSE UNCHANGED <<malloc_objs, malloc_obj_count>>
      BY <1>5 DEF syscall_free
    <2>3. i \in 0 .. malloc_obj_count
      BY <2>2 DEF FreeIndex
    <2>4. CASE obj_ptr[i] = live[v].ptr
      <3>1. /\ malloc_objs' \in Table /\ malloc_obj_count' \in 0 .. MALLOC_OBJ_NUM
            /\ UnusedApart'
        BY <2>2, <2>3, <2>4, FreedAny
      <3> QED
        BY <2>1, <3>1 DEF AnyInv, HeapType, Table
    <2>5. CASE obj_ptr[i] # live[v].ptr
      BY <1>1, <2>1, <2>2, <2>5 DEF AnyInv, HeapType, UnusedApart
    <2> QED
      BY <2>4, <2>5
  <1>6. CASE UNCHANGED vars
    BY <1>1, <1>6 DEF vars, AnyInv, HeapType, UnusedApart
  <1> QED
    BY <1>3, <1>4, <1>5, <1>6 DEF Next

\* The heap of the first process.
LEMMA AnyInit == Init => AnyInv
  <1> SUFFICES ASSUME Init PROVE AnyInv
    OBVIOUS
  <1>1. MALLOC_OBJ_NUM \in Nat \ {0} /\ MALLOC_HEAP_SIZE \in Nat
    BY HeapAssumption
  <1>2. malloc_objs \in Table
    BY <1>1 DEF Init, Table, Obj
  <1>3. malloc_obj_count = 1 /\ live \in [Pointers -> Object \cup {NULL}]
    BY DEF Init
  <1> QED
    BY <1>1, <1>2, <1>3 DEF AnyInv, HeapType, UnusedApart, Table

\* "unused blocks can't" be neighbours (syscall.h:11), for every program:
\* whatever it asks for and in whatever order it frees, and although free
\* may make the sizes wrong, malloc never splits or takes an object so that two
\* unused ones meet, and free merges what it frees with both neighbours.
THEOREM UnusedNeverMeet == Spec => []UnusedApart
  <1>1. AnyInv => UnusedApart
    BY DEF AnyInv
  <1> QED
    BY <1>1, AnyInit, AnyStep, PTL DEF Spec


----------------------------------------------------------------------------
(***************************************************************************)
(* A careful program: the used entries are the live objects.               *)
(***************************************************************************)

\* The entries as a relation between indices and address and size.
LEMMA EntryFacts ==
    /\ \A k \in 0 .. malloc_obj_count - 1 :
          malloc_objs[k].used => <<obj_ptr[k], malloc_objs[k].size>> \in Entries
    /\ \A e \in Entries : \E k \in 0 .. malloc_obj_count - 1 :
          malloc_objs[k].used /\ e = <<obj_ptr[k], malloc_objs[k].size>>
  BY DEF Entries

\* A used object ends at or before the next one, and in the heap.
LEMMA ObjectsApart ==
    ASSUME CarefulInv, NEW i \in 0 .. malloc_obj_count - 1
    PROVE  /\ i \in 0 .. MALLOC_OBJ_NUM /\ i + 1 \in 0 .. MALLOC_OBJ_NUM
           /\ obj_ptr[i] \in Nat /\ obj_ptr[i + 1] \in Nat /\ malloc_objs[i].size \in Nat
           /\ obj_ptr[i + 1] = obj_ptr[i] + malloc_objs[i].size
           /\ malloc_objs[i].used => malloc_objs[i].size >= 1
           /\ \A j \in i + 1 .. malloc_obj_count :
                 obj_ptr[j] \in Nat /\ obj_ptr[i + 1] <= obj_ptr[j]
           /\ obj_ptr[i + 1] <= MALLOC_HEAP_SIZE
  <1>1. HeapType /\ Owned /\ Tiled
    BY DEF CarefulInv
  <1>2. /\ malloc_obj_count \in Nat /\ malloc_obj_count <= MALLOC_OBJ_NUM /\ MALLOC_OBJ_NUM \in Nat
        /\ malloc_objs \in Table /\ obj_ptr = Addresses(malloc_objs)
        /\ obj_ptr \in [0 .. MALLOC_OBJ_NUM -> Nat]
    BY <1>1, TypeFacts
  <1>3. i \in 0 .. MALLOC_OBJ_NUM /\ i + 1 \in 1 .. MALLOC_OBJ_NUM /\ (i + 1) - 1 = i
        /\ i + 1 \in 0 .. MALLOC_OBJ_NUM
    BY <1>2
  <1>4. obj_ptr[i + 1] = obj_ptr[i] + malloc_objs[i].size
    BY <1>1, <1>3, TypeFacts
  <1>5. malloc_objs[i].used => malloc_objs[i].size >= 1
    BY <1>1, EntryFacts DEF Owned
  <1>6. ASSUME NEW j \in i + 1 .. malloc_obj_count
        PROVE  obj_ptr[j] \in Nat /\ obj_ptr[i + 1] <= obj_ptr[j]
    <2>1. j \in i + 1 .. MALLOC_OBJ_NUM /\ j \in 0 .. MALLOC_OBJ_NUM
      BY <1>2
    <2> QED
      BY <1>2, <1>3, <2>1, AddressesRise
  <1>7. malloc_obj_count \in i + 1 .. malloc_obj_count
    BY <1>2
  <1>8. malloc_objs[i].size \in Nat
    BY <1>1, <1>3, TypeFacts
  <1> QED
    BY <1>1, <1>2, <1>3, <1>4, <1>5, <1>6, <1>7, <1>8 DEF Tiled

\* Used objects have addresses of their own, and no unused object that is not
\* empty has the address of a used one.
LEMMA OwnAddress ==
    ASSUME CarefulInv, NEW i \in 0 .. malloc_obj_count - 1, malloc_objs[i].size >= 1,
           NEW j \in 0 .. malloc_obj_count - 1, malloc_objs[j].used, i # j
    PROVE  obj_ptr[i] # obj_ptr[j]
  <1>1. malloc_obj_count \in Nat
    BY TypeFacts DEF CarefulInv
  <1>2. CASE i < j
    <2>1. j \in i + 1 .. malloc_obj_count
      BY <1>1, <1>2
    <2> QED
      BY <2>1, ObjectsApart
  <1>3. CASE j < i
    <2>1. i \in j + 1 .. malloc_obj_count
      BY <1>1, <1>3
    <2> QED
      BY <2>1, ObjectsApart
  <1> QED
    BY <1>2, <1>3

\* malloc adds an entry and the object that it is.
LEMMA Adding ==
    ASSUME HeapType, Owned, NEW p \in Nat, NEW n \in Nat, n >= 1, NEW size \in Nat,
           BlocksFor(size) <= n, \A e \in Entries : e[1] # p,
           Entries' = Entries \cup {<<p, n>>},
           NEW v \in Pointers, live[v] = NULL,
           live' = [live EXCEPT ![v] = [ptr |-> p, size |-> size]]
    PROVE  Owned'
  <1>1. [ptr |-> p, size |-> size] # NULL
    BY HeapAssumption
  <1>2. /\ \A w \in Pointers : w # v => live'[w] = live[w]
        /\ live'[v] = [ptr |-> p, size |-> size]
    BY DEF HeapType
  <1>3. Live' = Live \cup {v} /\ v \notin Live
    BY <1>1, <1>2 DEF Live
  <1>4. live'[v].ptr = p /\ live'[v].size = size
    BY <1>2
  <1>5. \A w \in Live : w # v /\ w \in Pointers /\ live'[w] = live[w]
    BY <1>2, <1>3 DEF Live
  <1>6. <<p, n>>[1] = p /\ <<p, n>>[2] = n
    OBVIOUS
  <1>7. ASSUME NEW w \in Live' PROVE \E e \in Entries' : Holds(e, w)'
    <2>1. CASE w = v
      <3>1. Holds(<<p, n>>, v)'
        BY <1>4, <1>6 DEF Holds, BlocksFor
      <3> QED
        BY <2>1, <3>1
    <2>2. CASE w \in Live
      <3>1. PICK e \in Entries : Holds(e, w)
        BY <2>2 DEF Owned
      <3>2. Holds(e, w)'
        BY <1>5, <2>2, <3>1 DEF Holds
      <3> QED
        BY <3>1, <3>2
    <2> QED
      BY <1>3, <2>1, <2>2
  <1>8. ASSUME NEW e \in Entries' PROVE e[2] >= 1 /\ \E w \in Live' : Holds(e, w)'
    <2>1. CASE e = <<p, n>>
      <3>1. Holds(e, v)'
        BY <1>4, <1>6, <2>1 DEF Holds, BlocksFor
      <3> QED
        BY <1>3, <1>6, <2>1, <3>1
    <2>2. CASE e \in Entries
      <3>1. PICK w \in Live : Holds(e, w) /\ e[2] >= 1
        BY <2>2 DEF Owned
      <3>2. Holds(e, w)'
        BY <1>5, <3>1 DEF Holds
      <3> QED
        BY <1>3, <3>1, <3>2
    <2> QED
      BY <2>1, <2>2
  <1>9. \A w \in Live : live[w].ptr # p
    BY DEF Owned, Holds
  <1>10. ASSUME NEW u \in Live', NEW w \in Live', live'[u].ptr = live'[w].ptr PROVE u = w
    BY <1>3, <1>4, <1>5, <1>9, <1>10 DEF Owned
  <1> QED
    BY <1>7, <1>8, <1>10 DEF Owned

\* free removes the entry of the object freed.
LEMMA Removing ==
    ASSUME HeapType, Owned, NEW v \in Live, NEW d \in Entries, d[1] = live[v].ptr,
           \A e \in Entries : e[1] = d[1] => e = d,
           Entries' = Entries \ {d}, live' = [live EXCEPT ![v] = NULL]
    PROVE  Owned'
  <1>1. v \in Pointers /\ Live \subseteq Pointers
    BY DEF Live
  <1>2. live'[v] = NULL /\ \A w \in Pointers : w # v => live'[w] = live[w]
    BY <1>1 DEF HeapType
  <1>3. Live' = Live \ {v}
    BY <1>1, <1>2 DEF Live
  <1>4. \A w \in Live' : w \in Live /\ w # v /\ live'[w] = live[w]
    BY <1>1, <1>2, <1>3
  <1>5. ASSUME NEW w \in Live' PROVE \E e \in Entries' : Holds(e, w)'
    <2>1. PICK e \in Entries : Holds(e, w)
      BY <1>4 DEF Owned
    <2>2. e # d
      BY <1>4, <2>1 DEF Owned, Holds
    <2>3. Holds(e, w)'
      BY <1>4, <2>1 DEF Holds
    <2> QED
      BY <2>1, <2>2, <2>3
  <1>6. ASSUME NEW e \in Entries' PROVE e[2] >= 1 /\ \E w \in Live' : Holds(e, w)'
    <2>1. e \in Entries /\ e # d
      OBVIOUS
    <2>2. PICK w \in Live : Holds(e, w) /\ e[2] >= 1
      BY <2>1 DEF Owned
    <2>3. w # v
      BY <2>1, <2>2 DEF Holds
    <2>4. w \in Live' /\ Holds(e, w)'
      BY <1>3, <1>4, <2>2, <2>3 DEF Holds
    <2> QED
      BY <2>2, <2>4
  <1>7. ASSUME NEW u \in Live', NEW w \in Live', live'[u].ptr = live'[w].ptr PROVE u = w
    BY <1>4, <1>7 DEF Owned
  <1> QED
    BY <1>5, <1>6, <1>7 DEF Owned

\* What malloc takes holds the bytes asked for.
LEMMA EnoughBlocks ==
    ASSUME NEW size \in Nat, NEW m \in Nat, size <= m * MALLOC_BLOCK_SIZE
    PROVE  BlocksFor(size) <= m
  <1>1. MALLOC_BLOCK_SIZE \in Nat \ {0}
    BY HeapAssumption
  <1>2. (m + 1) * MALLOC_BLOCK_SIZE = m * MALLOC_BLOCK_SIZE + MALLOC_BLOCK_SIZE
        /\ m * MALLOC_BLOCK_SIZE \in Nat
    BY <1>1
  <1> DEFINE a == size + MALLOC_BLOCK_SIZE - 1
             b == (m + 1) * MALLOC_BLOCK_SIZE
  <1>3. a \in Nat /\ a < b /\ m + 1 \in Nat
    BY <1>1, <1>2
  <1>4. a \div MALLOC_BLOCK_SIZE \in Nat /\ a \div MALLOC_BLOCK_SIZE < m + 1
    <2> HIDE DEF a
    <2> QED
      BY <1>1, <1>3, DivFacts, DivBound
  <1> QED
    BY <1>4 DEF BlocksFor

\* A split adds an entry; the objects behind keep their addresses although
\* they move up in the table.
LEMMA SplitEntries ==
    ASSUME CarefulInv, NEW i \in 0 .. malloc_obj_count - 1, NEW size \in Nat,
           ~malloc_objs[i].used, size < malloc_objs[i].size * MALLOC_BLOCK_SIZE,
           malloc_obj_count # MALLOC_OBJ_NUM,
           malloc_objs' = Split(i, size), malloc_obj_count' = malloc_obj_count + 1
    PROVE  /\ Tiled'
           /\ Entries' = Entries \cup {<<obj_ptr[i], size \div MALLOC_BLOCK_SIZE + 1>>}
  <1> DEFINE q == size \div MALLOC_BLOCK_SIZE
             c == malloc_obj_count
             A == obj_ptr
             B == obj_ptr'
  <1>1. HeapType /\ UnusedApart /\ Tiled /\ AnyInv
    BY DEF CarefulInv, AnyInv
  <1>2. /\ c \in Nat /\ c < MALLOC_OBJ_NUM /\ i \in Nat /\ i < c /\ MALLOC_OBJ_NUM \in Nat
        /\ malloc_objs \in Table /\ A = Addresses(malloc_objs)
        /\ \A k \in 0 .. MALLOC_OBJ_NUM : A[k] \in Nat
    <2>1. /\ c \in Nat /\ c <= MALLOC_OBJ_NUM /\ MALLOC_OBJ_NUM \in Nat /\ malloc_objs \in Table
          /\ A = Addresses(malloc_objs) /\ A \in [0 .. MALLOC_OBJ_NUM -> Nat]
      BY <1>1, TypeFacts
    <2> HIDE DEF A
    <2> QED
      BY <2>1
  <1>3. /\ malloc_objs' \in Table /\ q \in Nat
        /\ malloc_objs'[i] = Obj(TRUE, q + 1)
        /\ malloc_objs'[i + 1] = Obj(FALSE, malloc_objs[i].size - (q + 1))
        /\ malloc_objs[i].size - (q + 1) \in Nat
        /\ \A k \in 0 .. i - 1 : malloc_objs'[k] = malloc_objs[k]
        /\ \A k \in i + 2 .. c + 1 : malloc_objs'[k] = malloc_objs[k - 1]
    BY <1>1, SplitAny
  <1>4. /\ B = Addresses(malloc_objs') /\ B[0] = 0 /\ A[0] = 0
        /\ \A k \in 1 .. MALLOC_OBJ_NUM : B[k] = B[k - 1] + malloc_objs'[k - 1].size
    BY <1>1, <1>3, AddressesDef, TypeFacts DEF obj_ptr
  <1>5. A[i + 1] = A[i] + malloc_objs[i].size /\ malloc_objs[i].size \in Nat
    BY ObjectsApart
  <1> HIDE DEF A, B, q, c
  <1>6. \A k \in 0 .. i : B[k] = A[k]
    <2>1. SameSizes(malloc_objs, 0, malloc_objs', 0, i)
      BY <1>2, <1>3 DEF SameSizes
    <2>2. malloc_objs \in Table /\ malloc_objs' \in Table /\ 0 \in Nat /\ i \in Nat
          /\ Addresses(malloc_objs)[0] = Addresses(malloc_objs')[0]
      BY <1>2, <1>3, <1>4
    <2>3. SamePlaces(malloc_objs, 0, malloc_objs', 0, i)
      BY <2>1, <2>2, AddressesShift
    <2> QED
      BY <1>2, <1>4, <2>3 DEF SamePlaces
  <1>7. B[i + 2] = A[i + 1]
    <2>1. /\ i + 1 \in 1 .. MALLOC_OBJ_NUM /\ (i + 1) - 1 = i
          /\ i + 2 \in 1 .. MALLOC_OBJ_NUM /\ (i + 2) - 1 = i + 1
          /\ i \in 0 .. i /\ i \in 0 .. MALLOC_OBJ_NUM
      BY <1>2
    <2>2. B[i + 1] = A[i] + (q + 1)
      BY <1>3, <1>4, <1>6, <2>1 DEF Obj
    <2>3. B[i + 2] = B[i + 1] + (malloc_objs[i].size - (q + 1))
      BY <1>3, <1>4, <2>1 DEF Obj
    <2>4. A[i] \in Nat
      BY <1>2, <2>1
    <2> QED
      BY <1>3, <1>5, <2>2, <2>3, <2>4
  <1>8. \A k \in i + 2 .. c + 1 : B[k] = A[k - 1]
    <2> DEFINE n == c - (i + 1)
    <2>1. n \in Nat /\ i + 1 \in Nat /\ i + 2 \in Nat
      BY <1>2
    <2>2. ASSUME NEW k \in 0 .. n - 1
          PROVE  malloc_objs[(i + 1) + k].size = malloc_objs'[(i + 2) + k].size
      <3>1. (i + 2) + k \in i + 2 .. c + 1 /\ ((i + 2) + k) - 1 = (i + 1) + k
        BY <1>2
      <3> QED
        BY <1>3, <3>1
    <2>3. SameSizes(malloc_objs, i + 1, malloc_objs', i + 2, n)
      BY <1>2, <2>2 DEF SameSizes
    <2>4. malloc_objs \in Table /\ malloc_objs' \in Table
          /\ Addresses(malloc_objs)[i + 1] = Addresses(malloc_objs')[i + 2]
      BY <1>2, <1>3, <1>4, <1>7
    <2>5. SamePlaces(malloc_objs, i + 1, malloc_objs', i + 2, n)
      <3> HIDE DEF n
      <3> QED
        BY <2>1, <2>3, <2>4, AddressesShift
    <2>6. TAKE k \in i + 2 .. c + 1
    <2>7. k - (i + 2) \in 0 .. n /\ (i + 1) + (k - (i + 2)) = k - 1
          /\ (i + 2) + (k - (i + 2)) = k
      BY <1>2
    <2>8. Addresses(malloc_objs)[(i + 1) + (k - (i + 2))]
             = Addresses(malloc_objs')[(i + 2) + (k - (i + 2))]
      <3> HIDE DEF n
      <3> QED
        BY <2>5, <2>7 DEF SamePlaces
    <2> QED
      BY <1>2, <1>4, <2>7, <2>8
  <1>9. Tiled'
    <2>1. c + 1 \in i + 2 .. c + 1 /\ (c + 1) - 1 = c
      BY <1>2
    <2> QED
      BY <1>1, <1>8, <2>1 DEF Tiled, A, B, c
  <1>10. ASSUME NEW e \in Entries'
         PROVE  e \in Entries \cup {<<A[i], q + 1>>}
    <2>1. PICK k \in 0 .. c : malloc_objs'[k].used /\ e = <<B[k], malloc_objs'[k].size>>
      <3>1. malloc_obj_count' - 1 = c
        BY <1>2 DEF c
      <3> QED
        BY <3>1 DEF Entries, B
    <2>2. CASE k < i
      <3>1. k \in 0 .. i - 1 /\ k \in 0 .. i /\ k \in 0 .. malloc_obj_count - 1
        BY <1>2, <2>2 DEF c
      <3> QED
        BY <1>3, <1>6, <2>1, <3>1, EntryFacts DEF A
    <2>3. CASE k = i
      <3>1. k \in 0 .. i
        BY <1>2, <2>3
      <3> QED
        BY <1>3, <1>6, <2>1, <2>3, <3>1 DEF Obj
    <2>4. CASE k = i + 1
      BY <1>3, <2>1, <2>4 DEF Obj
    <2>5. CASE k > i + 1
      <3>1. k \in i + 2 .. c + 1 /\ k - 1 \in 0 .. malloc_obj_count - 1
        BY <1>2, <2>5 DEF c
      <3>2. e = <<A[k - 1], malloc_objs[k - 1].size>> /\ malloc_objs[k - 1].used
        BY <1>3, <1>8, <2>1, <3>1
      <3> QED
        BY <3>1, <3>2, EntryFacts DEF A
    <2> QED
      BY <1>2, <2>2, <2>3, <2>4, <2>5
  <1>11. ASSUME NEW k \in 0 .. c, malloc_objs'[k].used
         PROVE  <<B[k], malloc_objs'[k].size>> \in Entries'
    <2>1. malloc_obj_count' - 1 = c
      BY <1>2 DEF c
    <2> QED
      BY <1>11, <2>1 DEF Entries, B
  <1>12. <<A[i], q + 1>> \in Entries'
    <2>1. i \in 0 .. c /\ i \in 0 .. i
      BY <1>2
    <2>2. malloc_objs'[i].used /\ malloc_objs'[i].size = q + 1
      BY <1>3 DEF Obj
    <2>3. <<B[i], malloc_objs'[i].size>> \in Entries'
      BY <1>11, <2>1, <2>2
    <2> QED
      BY <1>6, <2>1, <2>2, <2>3
  <1>13. ASSUME NEW e \in Entries PROVE e \in Entries'
    <2>1. PICK k \in 0 .. c - 1 : malloc_objs[k].used /\ e = <<A[k], malloc_objs[k].size>>
      BY EntryFacts DEF A, c
    <2>2. CASE k < i
      <3>1. k \in 0 .. i - 1 /\ k \in 0 .. i /\ k \in 0 .. c
        BY <1>2, <2>2
      <3>2. malloc_objs'[k].used /\ e = <<B[k], malloc_objs'[k].size>>
        BY <1>3, <1>6, <2>1, <3>1
      <3> QED
        BY <1>11, <3>1, <3>2
    <2>3. CASE k > i
      <3>1. k + 1 \in i + 2 .. c + 1 /\ (k + 1) - 1 = k /\ k + 1 \in 0 .. c
        BY <1>2, <2>3
      <3>2. malloc_objs'[k + 1].used /\ e = <<B[k + 1], malloc_objs'[k + 1].size>>
        BY <1>3, <1>8, <2>1, <3>1
      <3> QED
        BY <1>11, <3>1, <3>2
    <2>4. k # i
      BY <2>1
    <2> QED
      BY <1>2, <2>2, <2>3, <2>4
  <1> QED
    BY <1>9, <1>10, <1>12, <1>13 DEF A, q

\* A table whose sizes stay the same keeps every address.
LEMMA SameTable ==
    ASSUME HeapType, malloc_objs' \in Table,
           \A k \in 0 .. MALLOC_OBJ_NUM : malloc_objs'[k].size = malloc_objs[k].size
    PROVE  \A k \in 0 .. MALLOC_OBJ_NUM : obj_ptr'[k] = obj_ptr[k]
  <1>1. malloc_objs \in Table /\ MALLOC_OBJ_NUM \in Nat /\ 0 \in Nat
    BY TypeFacts
  <1>2. SameSizes(malloc_objs, 0, malloc_objs', 0, MALLOC_OBJ_NUM)
    BY <1>1 DEF SameSizes
  <1>3. Addresses(malloc_objs)[0] = Addresses(malloc_objs')[0]
    BY <1>1, AddressesDef
  <1>4. SamePlaces(malloc_objs, 0, malloc_objs', 0, MALLOC_OBJ_NUM)
    BY <1>1, <1>2, <1>3, AddressesShift
  <1> QED
    BY <1>1, <1>4 DEF SamePlaces, obj_ptr

\* An object taken whole becomes an entry where it is.
LEMMA WholeEntries ==
    ASSUME CarefulInv, NEW i \in 0 .. malloc_obj_count - 1,
           malloc_objs' = [malloc_objs EXCEPT ![i] = Obj(TRUE, malloc_objs[i].size)],
           UNCHANGED malloc_obj_count
    PROVE  /\ Tiled'
           /\ Entries' = Entries \cup {<<obj_ptr[i], malloc_objs[i].size>>}
  <1>1. HeapType /\ Tiled /\ AnyInv
    BY DEF CarefulInv, AnyInv
  <1>2. /\ malloc_objs' \in Table /\ malloc_objs'[i] = Obj(TRUE, malloc_objs[i].size)
        /\ \A k \in 0 .. MALLOC_OBJ_NUM : k # i => malloc_objs'[k] = malloc_objs[k]
    BY <1>1, WholeAny
  <1>3. /\ i \in 0 .. MALLOC_OBJ_NUM /\ malloc_obj_count \in 0 .. MALLOC_OBJ_NUM
        /\ \A k \in 0 .. malloc_obj_count - 1 : k \in 0 .. MALLOC_OBJ_NUM
    BY <1>1, TypeFacts
  <1>4. \A k \in 0 .. MALLOC_OBJ_NUM : malloc_objs'[k].size = malloc_objs[k].size
    BY <1>2 DEF Obj
  <1>5. \A k \in 0 .. MALLOC_OBJ_NUM : obj_ptr'[k] = obj_ptr[k]
    BY <1>1, <1>2, <1>4, SameTable
  <1>6. Tiled'
    BY <1>1, <1>3, <1>5 DEF Tiled
  <1>7. malloc_objs'[i].used
    BY <1>2 DEF Obj
  <1>8. ASSUME NEW e \in Entries' PROVE e \in Entries \cup {<<obj_ptr[i], malloc_objs[i].size>>}
    <2>1. PICK k \in 0 .. malloc_obj_count - 1 :
             malloc_objs'[k].used /\ e = <<obj_ptr'[k], malloc_objs'[k].size>>
      BY DEF Entries
    <2>2. e = <<obj_ptr[k], malloc_objs[k].size>>
      BY <1>3, <1>4, <1>5, <2>1
    <2>3. k # i => malloc_objs[k].used
      BY <1>2, <1>3, <2>1
    <2> QED
      BY <2>2, <2>3, EntryFacts
  <1>9. ASSUME NEW k \in 0 .. malloc_obj_count - 1, k = i \/ malloc_objs[k].used
        PROVE  <<obj_ptr[k], malloc_objs[k].size>> \in Entries'
    <2>1. malloc_objs'[k].used
      BY <1>2, <1>3, <1>7, <1>9
    <2>2. <<obj_ptr'[k], malloc_objs'[k].size>> \in Entries'
      BY <2>1 DEF Entries
    <2> QED
      BY <1>3, <1>4, <1>5, <2>2
  <1>10. Entries \subseteq Entries'
    BY <1>9, EntryFacts
  <1> QED
    BY <1>6, <1>8, <1>9, <1>10

\* The freed object, with an object in use in front of it and another behind,
\* is no entry any more; every other object stays where it is.
LEMMA FreedEntries ==
    ASSUME CarefulInv, NEW i \in 0 .. malloc_obj_count - 2, malloc_objs[i].used,
           i > 0 => malloc_objs[i - 1].used,
           malloc_objs' = Freed(i).objs, malloc_obj_count' = Freed(i).count
    PROVE  /\ malloc_obj_count' >= 1 /\ Tiled'
           /\ Entries' = Entries \ {<<obj_ptr[i], malloc_objs[i].size>>}
  <1> DEFINE c == malloc_obj_count
             A == obj_ptr
             B == obj_ptr'
             d == <<A[i], malloc_objs[i].size>>
             below == i < malloc_obj_count /\ ~malloc_objs[i + 1].used
             above == i > 0 /\ ~malloc_objs[i - 1].used
             behind == IF i < MALLOC_OBJ_NUM THEN malloc_objs[i + 1].size ELSE 0
             grown == malloc_objs[i].size + (IF below THEN behind ELSE 0)
                                          + (IF above THEN behind ELSE 0)
             move == (IF below THEN 1 ELSE 0) + (IF above THEN 1 ELSE 0)
             at == IF above THEN i - 1 ELSE i
             left == malloc_obj_count - move
  <1>1. /\ malloc_obj_count' = left
        /\ malloc_objs' = [k \in 0 .. MALLOC_OBJ_NUM |->
                            CASE k = at -> Obj(FALSE, grown % SIZE_LIMIT)
                              [] k \in at + 1 .. left - 1 -> malloc_objs[k + move]
                              [] OTHER -> malloc_objs[k]]
    BY DEF Freed
  <1>2. HeapType /\ UnusedApart /\ Tiled /\ AnyInv
    BY DEF CarefulInv, AnyInv
  <1>3. /\ c \in Nat /\ c <= MALLOC_OBJ_NUM /\ i \in Nat /\ i + 2 <= c /\ MALLOC_OBJ_NUM \in Nat
        /\ i \in 0 .. c - 1 /\ i + 1 \in 0 .. c - 1 /\ i \in 0 .. c
        /\ i \in 0 .. MALLOC_OBJ_NUM /\ i + 1 \in 0 .. MALLOC_OBJ_NUM /\ i < MALLOC_OBJ_NUM
        /\ malloc_objs \in Table
    BY <1>2, TypeFacts
  <1>4. malloc_objs' \in Table
    BY <1>2, <1>3, FreedAny
  <1>5. /\ malloc_objs[i].size \in Nat /\ malloc_objs[i].size >= 1
        /\ malloc_objs[i + 1].size \in Nat
        /\ A[i] \in Nat /\ A[i + 1] = A[i] + malloc_objs[i].size
        /\ A[i + 2] = A[i + 1] + malloc_objs[i + 1].size /\ A[i + 2] <= MALLOC_HEAP_SIZE
    <2>1. (i + 1) + 1 = i + 2
      BY <1>3
    <2> QED
      BY <1>3, <2>1, ObjectsApart
  <1>6. ASSUME NEW k \in 0 .. c - 1, malloc_objs[k].used, k # i PROVE A[k] # A[i]
    BY <1>3, <1>5, <1>6, OwnAddress
  <1>7. /\ B = Addresses(malloc_objs') /\ A = Addresses(malloc_objs)
        /\ B[0] = 0 /\ A[0] = 0
        /\ \A k \in 1 .. MALLOC_OBJ_NUM : B[k] = B[k - 1] + malloc_objs'[k - 1].size
    BY <1>2, <1>4, AddressesDef, TypeFacts DEF obj_ptr
  <1>8. MALLOC_HEAP_SIZE \in Nat /\ SIZE_LIMIT \in Nat /\ MALLOC_HEAP_SIZE < SIZE_LIMIT
    BY HeapAssumption
  <1>9. ASSUME NEW n \in Nat, n <= MALLOC_HEAP_SIZE PROVE n % SIZE_LIMIT = n
    BY <1>8, <1>9
  <1>10. CASE malloc_objs[i + 1].used
    <2>1. /\ malloc_obj_count' = c
          /\ \A k \in 0 .. MALLOC_OBJ_NUM :
                malloc_objs'[k] = IF k = i THEN Obj(FALSE, malloc_objs[i].size)
                                           ELSE malloc_objs[k]
      <3>1. malloc_objs[i].size <= MALLOC_HEAP_SIZE
        BY <1>5, <1>8
      <3>2. malloc_objs[i].size % SIZE_LIMIT = malloc_objs[i].size
        BY <1>5, <1>9, <3>1
      <3>3. at = i /\ move = 0 /\ left = c /\ grown = malloc_objs[i].size
        BY <1>3, <1>5, <1>10
      <3>4. i \notin i + 1 .. c - 1
        BY <1>3
      <3>5. \A k \in 0 .. MALLOC_OBJ_NUM : k + 0 = k
        OBVIOUS
      <3> HIDE DEF at, move, left, grown, c
      <3>6. malloc_obj_count' = c
        BY <1>1, <3>3
      <3>7. malloc_objs' = [k \in 0 .. MALLOC_OBJ_NUM |->
                             CASE k = i -> Obj(FALSE, malloc_objs[i].size)
                               [] k \in i + 1 .. c - 1 -> malloc_objs[k + 0]
                               [] OTHER -> malloc_objs[k]]
        BY <1>1, <3>2, <3>3
      <3> QED
        BY <3>4, <3>5, <3>6, <3>7
    <2>2. \A k \in 0 .. MALLOC_OBJ_NUM : malloc_objs'[k].size = malloc_objs[k].size
      BY <2>1 DEF Obj
    <2>3. \A k \in 0 .. MALLOC_OBJ_NUM : B[k] = A[k]
      BY <1>2, <1>4, <2>2, SameTable
    <2>4. Tiled' /\ malloc_obj_count' >= 1
      <3>1. c \in 0 .. MALLOC_OBJ_NUM /\ c >= 1
        BY <1>3
      <3> QED
        BY <1>2, <2>1, <2>3, <3>1 DEF Tiled
    <2>5. ~malloc_objs'[i].used
      BY <1>3, <2>1 DEF Obj
    <2>6. ASSUME NEW k \in 0 .. c - 1
          PROVE  /\ malloc_objs'[k].used => k # i /\ malloc_objs[k].used
                 /\ k # i /\ malloc_objs[k].used => malloc_objs'[k].used
      <3>1. k \in 0 .. MALLOC_OBJ_NUM
        BY <1>3
      <3> QED
        BY <2>1, <2>5, <3>1
    <2>7. ASSUME NEW e \in Entries' PROVE e \in Entries \ {d}
      <3>1. PICK k \in 0 .. c - 1 : malloc_objs'[k].used /\ e = <<B[k], malloc_objs'[k].size>>
        BY <2>1 DEF Entries
      <3>2. k # i /\ malloc_objs[k].used /\ k \in 0 .. MALLOC_OBJ_NUM
        BY <1>3, <2>6, <3>1
      <3>3. e = <<A[k], malloc_objs[k].size>>
        BY <2>2, <2>3, <3>1, <3>2
      <3>4. e # d
        BY <1>6, <3>2, <3>3
      <3> QED
        BY <3>2, <3>3, <3>4, EntryFacts
    <2>8. ASSUME NEW e \in Entries \ {d} PROVE e \in Entries'
      <3>1. PICK k \in 0 .. c - 1 : malloc_objs[k].used /\ e = <<A[k], malloc_objs[k].size>>
        BY EntryFacts
      <3>2. k # i /\ k \in 0 .. MALLOC_OBJ_NUM
        BY <1>3, <3>1
      <3>3. malloc_objs'[k].used
        BY <2>6, <3>1, <3>2
      <3>4. <<B[k], malloc_objs'[k].size>> \in Entries'
        BY <2>1, <3>3 DEF Entries
      <3> QED
        BY <2>2, <2>3, <3>1, <3>2, <3>4
    <2> QED
      BY <2>4, <2>7, <2>8
  <1>11. CASE ~malloc_objs[i + 1].used
    <2> DEFINE sum == malloc_objs[i].size + malloc_objs[i + 1].size
    <2>1. sum \in Nat /\ A[i] + sum = A[i + 2] /\ sum % SIZE_LIMIT = sum
      <3>1. sum \in Nat /\ sum <= MALLOC_HEAP_SIZE /\ A[i] + sum = A[i + 2]
        BY <1>5, <1>8
      <3> HIDE DEF sum
      <3> QED
        BY <1>9, <3>1
    <2>2. /\ malloc_obj_count' = c - 1
          /\ malloc_objs'[i] = Obj(FALSE, sum)
          /\ \A k \in 0 .. i - 1 : malloc_objs'[k] = malloc_objs[k]
          /\ \A k \in i + 1 .. c - 2 : malloc_objs'[k] = malloc_objs[k + 1]
      <3>1. at = i /\ move = 1 /\ left = c - 1 /\ (c - 1) - 1 = c - 2 /\ grown = sum
        BY <1>3, <1>5, <1>11
      <3>2. i \notin i + 1 .. c - 2
        BY <1>3
      <3>3. /\ \A k \in 0 .. i - 1 : /\ k \in 0 .. MALLOC_OBJ_NUM /\ k # i
                                     /\ k \notin i + 1 .. c - 2
            /\ \A k \in i + 1 .. c - 2 : k \in 0 .. MALLOC_OBJ_NUM /\ k # i
        BY <1>3
      <3> HIDE DEF at, move, left, grown, c, sum
      <3>4. malloc_obj_count' = c - 1
        BY <1>1, <3>1
      <3>5. malloc_objs' = [k \in 0 .. MALLOC_OBJ_NUM |->
                             CASE k = i -> Obj(FALSE, sum)
                               [] k \in i + 1 .. c - 2 -> malloc_objs[k + 1]
                               [] OTHER -> malloc_objs[k]]
        BY <1>1, <2>1, <3>1
      <3> QED
        BY <1>3, <3>2, <3>3, <3>4, <3>5
    <2> HIDE DEF sum, A, B, c
    <2>3. \A k \in 0 .. i : B[k] = A[k]
      <3>1. SameSizes(malloc_objs, 0, malloc_objs', 0, i)
        BY <1>3, <2>2 DEF SameSizes
      <3>2. malloc_objs \in Table /\ malloc_objs' \in Table /\ 0 \in Nat /\ i \in Nat
            /\ Addresses(malloc_objs)[0] = Addresses(malloc_objs')[0]
        BY <1>3, <1>4, <1>7
      <3>3. SamePlaces(malloc_objs, 0, malloc_objs', 0, i)
        BY <3>1, <3>2, AddressesShift
      <3> QED
        BY <1>3, <1>7, <3>3 DEF SamePlaces
    <2>4. B[i + 1] = A[i + 2]
      <3>1. i + 1 \in 1 .. MALLOC_OBJ_NUM /\ (i + 1) - 1 = i /\ i \in 0 .. i
        BY <1>3
      <3>2. malloc_objs'[i].size = sum
        BY <2>2 DEF Obj
      <3> QED
        BY <1>7, <2>1, <2>3, <3>1, <3>2
    <2>5. \A k \in i + 1 .. c - 1 : B[k] = A[k + 1]
      <3> DEFINE n == c - (i + 2)
      <3>1. n \in Nat /\ i + 1 \in Nat /\ i + 2 \in Nat
        BY <1>3
      <3>2. ASSUME NEW k \in 0 .. n - 1
            PROVE  malloc_objs[(i + 2) + k].size = malloc_objs'[(i + 1) + k].size
        <4>1. (i + 1) + k \in i + 1 .. c - 2 /\ ((i + 1) + k) + 1 = (i + 2) + k
          BY <1>3
        <4> QED
          BY <2>2, <4>1
      <3>3. SameSizes(malloc_objs, i + 2, malloc_objs', i + 1, n)
        BY <1>3, <3>2 DEF SameSizes
      <3>4. malloc_objs \in Table /\ malloc_objs' \in Table
            /\ Addresses(malloc_objs)[i + 2] = Addresses(malloc_objs')[i + 1]
        BY <1>3, <1>4, <1>7, <2>4
      <3>5. SamePlaces(malloc_objs, i + 2, malloc_objs', i + 1, n)
        <4> HIDE DEF n
        <4> QED
          BY <3>1, <3>3, <3>4, AddressesShift
      <3>6. TAKE k \in i + 1 .. c - 1
      <3>7. k - (i + 1) \in 0 .. n /\ (i + 2) + (k - (i + 1)) = k + 1
            /\ (i + 1) + (k - (i + 1)) = k
        BY <1>3
      <3>8. Addresses(malloc_objs)[(i + 2) + (k - (i + 1))]
               = Addresses(malloc_objs')[(i + 1) + (k - (i + 1))]
        <4> HIDE DEF n
        <4> QED
          BY <3>5, <3>7 DEF SamePlaces
      <3> QED
        BY <1>7, <3>7, <3>8
    <2>6. Tiled' /\ malloc_obj_count' >= 1
      <3>1. c - 1 \in i + 1 .. c - 1 /\ (c - 1) + 1 = c /\ c - 1 >= 1
        BY <1>3
      <3>2. B[c - 1] = A[c]
        BY <2>5, <3>1
      <3> QED
        BY <1>2, <2>2, <3>1, <3>2 DEF Tiled, A, B, c
    <2>7. ASSUME NEW e \in Entries' PROVE e \in Entries \ {d}
      <3>1. PICK k \in 0 .. c - 2 : malloc_objs'[k].used /\ e = <<B[k], malloc_objs'[k].size>>
        <4>1. malloc_obj_count' - 1 = c - 2
          BY <1>3, <2>2
        <4> QED
          BY <4>1 DEF Entries, B
      <3>2. k # i
        BY <2>2, <3>1 DEF Obj
      <3>3. PICK j \in 0 .. c - 1 : /\ j # i /\ malloc_objs[j].used
                                    /\ e = <<A[j], malloc_objs[j].size>>
        <4>1. CASE k < i
          <5>1. k \in 0 .. i - 1 /\ k \in 0 .. i /\ k \in 0 .. c - 1
            BY <1>3, <4>1
          <5> QED
            BY <2>2, <2>3, <3>1, <3>2, <5>1
        <4>2. CASE k > i
          <5>1. k \in i + 1 .. c - 2 /\ k \in i + 1 .. c - 1 /\ k + 1 \in 0 .. c - 1 /\ k + 1 # i
            BY <1>3, <4>2
          <5> QED
            BY <2>2, <2>5, <3>1, <5>1
        <4> QED
          BY <1>3, <3>2, <4>1, <4>2
      <3>4. e # d
        BY <1>6, <3>3
      <3> QED
        BY <3>3, <3>4, EntryFacts DEF A, c
    <2>8. ASSUME NEW e \in Entries \ {d} PROVE e \in Entries'
      <3>1. PICK k \in 0 .. c - 1 : malloc_objs[k].used /\ e = <<A[k], malloc_objs[k].size>>
        BY EntryFacts DEF A, c
      <3>2. k # i /\ k # i + 1
        BY <1>11, <3>1
      <3>3. PICK j \in 0 .. c - 2 : malloc_objs'[j].used /\ e = <<B[j], malloc_objs'[j].size>>
        <4>1. CASE k < i
          <5>1. k \in 0 .. i - 1 /\ k \in 0 .. i /\ k \in 0 .. c - 2
            BY <1>3, <4>1
          <5> QED
            BY <2>2, <2>3, <3>1, <5>1
        <4>2. CASE k > i + 1
          <5>1. k - 1 \in i + 1 .. c - 2 /\ k - 1 \in i + 1 .. c - 1 /\ k - 1 \in 0 .. c - 2
                /\ (k - 1) + 1 = k
            BY <1>3, <4>2
          <5> QED
            BY <2>2, <2>5, <3>1, <5>1
        <4> QED
          BY <1>3, <3>2, <4>1, <4>2
      <3>4. malloc_obj_count' - 1 = c - 2
        BY <1>3, <2>2
      <3> QED
        BY <3>3, <3>4 DEF Entries, B
    <2> QED
      BY <2>6, <2>7, <2>8 DEF A
  <1> QED
    BY <1>10, <1>11

\* The loop of free stops at the object itself, since the object in front of it
\* is in use and so not empty.
LEMMA FreeFinds ==
    ASSUME CarefulInv, NEW i \in 0 .. malloc_obj_count - 1, i > 0 => malloc_objs[i - 1].used,
           NEW j \in FreeIndex(obj_ptr[i])
    PROVE  j = i
  <1>1. malloc_obj_count \in Nat /\ i \in Nat
    BY TypeFacts DEF CarefulInv
  <1>2. obj_ptr[i] \in Nat
    BY ObjectsApart
  <1>3. i \in 0 .. malloc_obj_count
    BY <1>1
  <1>4. /\ j \in 0 .. malloc_obj_count /\ j <= i
        /\ j = malloc_obj_count \/ obj_ptr[i] <= obj_ptr[j]
    BY <1>2, <1>3 DEF FreeIndex
  <1>5. SUFFICES ASSUME j < i PROVE FALSE
    BY <1>1, <1>4
  <1>6. /\ i - 1 \in 0 .. malloc_obj_count - 1 /\ (i - 1) + 1 = i /\ j \in 0 .. malloc_obj_count - 1
        /\ j # malloc_obj_count /\ malloc_objs[i - 1].used
    BY <1>1, <1>4, <1>5
  <1>7. obj_ptr[i - 1] \in Nat /\ obj_ptr[i - 1] < obj_ptr[i]
    BY <1>6, ObjectsApart
  <1>8. obj_ptr[j] \in Nat /\ obj_ptr[j] <= obj_ptr[i - 1]
    <2>1. CASE j = i - 1
      BY <1>7, <2>1
    <2>2. CASE j < i - 1
      <3>1. i - 1 \in j + 1 .. malloc_obj_count
        BY <1>1, <1>6, <2>2
      <3> QED
        BY <1>6, <1>7, <3>1, ObjectsApart
    <2> QED
      BY <1>1, <1>5, <1>6, <2>1, <2>2
  <1> QED
    BY <1>2, <1>4, <1>6, <1>7, <1>8

\* malloc makes an entry of blocks that no live object has.
LEMMA TakenNew ==
    ASSUME CarefulInv, NEW i \in 0 .. malloc_obj_count - 1, ~malloc_objs[i].used,
           malloc_objs[i].size >= 1, NEW e \in Entries
    PROVE  e[1] # obj_ptr[i]
  <1>1. PICK k \in 0 .. malloc_obj_count - 1 :
           malloc_objs[k].used /\ e = <<obj_ptr[k], malloc_objs[k].size>>
    BY EntryFacts
  <1>2. k # i
    BY <1>1
  <1> QED
    BY <1>1, <1>2, OwnAddress

\* Every step of a careful program keeps the table in step with its objects.
LEMMA CarefulStep == CarefulInv /\ [CarefulNext]_vars => CarefulInv'
  <1> SUFFICES ASSUME CarefulInv, [CarefulNext]_vars PROVE CarefulInv'
    OBVIOUS
  <1>1. HeapType /\ Owned /\ Tiled /\ UnusedApart /\ AnyInv /\ malloc_obj_count >= 1
    BY DEF CarefulInv, AnyInv
  <1>2. AnyInv'
    <2>1. [Next]_vars
      BY DEF CarefulNext, Next, CarefulFree
    <2> QED
      BY <1>1, <2>1, AnyStep
  <1>3. HeapType' /\ UnusedApart'
    BY <1>2 DEF AnyInv
  <1>4. MALLOC_OBJ_NUM \in Nat \ {0} /\ MALLOC_HEAP_SIZE \in Nat /\ Sizes \subseteq Nat
        /\ MALLOC_BLOCK_SIZE \in Nat \ {0} /\ malloc_obj_count \in Nat
    BY <1>1, HeapAssumption, TypeFacts
  <1>5. CASE NewProcess
    <2>1. malloc_obj_count' = 1 /\ malloc_objs'[0] = Obj(FALSE, MALLOC_HEAP_SIZE)
      BY <1>1, <1>4, <1>5 DEF NewProcess, HeapType
    <2>2. Live' = {}
      BY <1>5 DEF NewProcess, Live
    <2>3. Entries' = {}
      BY <2>1 DEF Entries, Obj
    <2>4. Tiled'
      <3>1. malloc_objs' \in Table /\ 1 \in 1 .. MALLOC_OBJ_NUM /\ 1 - 1 = 0
        BY <1>3, <1>4 DEF HeapType, Table
      <3>2. obj_ptr'[1] = obj_ptr'[0] + malloc_objs'[0].size /\ obj_ptr'[0] = 0
        BY <3>1, AddressesDef DEF obj_ptr
      <3> QED
        BY <1>4, <2>1, <3>2 DEF Tiled, Obj
    <2> QED
      BY <1>3, <2>1, <2>2, <2>3, <2>4 DEF CarefulInv, Owned
  <1>6. ASSUME NEW size \in Sizes \ {0}, syscall_malloc(size) PROVE CarefulInv'
    <2>1. size \in Nat /\ size # 0
      BY <1>4
    <2>2. CASE malloc_split(size)
      <3>1. PICK i \in FirstFit(size) :
              /\ size < malloc_objs[i].size * MALLOC_BLOCK_SIZE
              /\ malloc_obj_count # MALLOC_OBJ_NUM
              /\ malloc_objs' = Split(i, size)
              /\ malloc_obj_count' = malloc_obj_count + 1
              /\ Returned(i, size)
        BY <2>2 DEF malloc_split
      <3>2. i \in 0 .. malloc_obj_count - 1 /\ ~malloc_objs[i].used
        BY <3>1 DEF FirstFit
      <3> DEFINE q == size \div MALLOC_BLOCK_SIZE
      <3>3. /\ q \in Nat /\ malloc_objs[i].size - (q + 1) \in Nat
        BY <1>1, <2>1, <3>1, <3>2, SplitAny
      <3>4. Tiled' /\ Entries' = Entries \cup {<<obj_ptr[i], q + 1>>}
        BY <2>1, <3>1, <3>2, SplitEntries
      <3>5. size <= (q + 1) * MALLOC_BLOCK_SIZE
        BY <1>4, <2>1, DivFacts
      <3> HIDE DEF q
      <3>6. obj_ptr[i] \in Nat /\ malloc_objs[i].size \in Nat
        BY <3>2, ObjectsApart
      <3>7. BlocksFor(size) <= q + 1 /\ q + 1 \in Nat /\ q + 1 >= 1 /\ malloc_objs[i].size >= 1
        BY <2>1, <3>3, <3>5, <3>6, EnoughBlocks
      <3>8. \A e \in Entries : e[1] # obj_ptr[i]
        BY <3>2, <3>7, TakenNew
      <3>9. PICK v \in Pointers : /\ live[v] = NULL
                                  /\ live' = [live EXCEPT ![v] = [ptr |-> obj_ptr[i], size |-> size]]
        BY <3>1 DEF Returned
      <3>10. Owned'
        BY <1>1, <2>1, <3>4, <3>6, <3>7, <3>8, <3>9, Adding
      <3>11. malloc_obj_count' >= 1
        BY <1>4, <3>1
      <3> QED
        BY <1>3, <3>4, <3>10, <3>11 DEF CarefulInv
    <2>3. CASE malloc_whole(size)
      <3>1. PICK i \in FirstFit(size) :
              /\ size = malloc_objs[i].size * MALLOC_BLOCK_SIZE
              /\ malloc_objs' = [malloc_objs EXCEPT ![i] = Obj(TRUE, malloc_objs[i].size)]
              /\ Returned(i, size) /\ UNCHANGED malloc_obj_count
        BY <2>3 DEF malloc_whole
      <3>2. i \in 0 .. malloc_obj_count - 1 /\ ~malloc_objs[i].used
        BY <3>1 DEF FirstFit
      <3>3. Tiled' /\ Entries' = Entries \cup {<<obj_ptr[i], malloc_objs[i].size>>}
        BY <3>1, <3>2, WholeEntries
      <3>4. obj_ptr[i] \in Nat /\ malloc_objs[i].size \in Nat
        BY <3>2, ObjectsApart
      <3>5. PICK m \in Nat : m = malloc_objs[i].size
        BY <3>4
      <3>6. m >= 1 /\ size <= m * MALLOC_BLOCK_SIZE
        BY <1>4, <2>1, <3>1, <3>5
      <3>7. BlocksFor(size) <= m
        BY <2>1, <3>6, EnoughBlocks
      <3>8. \A e \in Entries : e[1] # obj_ptr[i]
        BY <3>2, <3>5, <3>6, TakenNew
      <3>9. PICK v \in Pointers : /\ live[v] = NULL
                                  /\ live' = [live EXCEPT ![v] = [ptr |-> obj_ptr[i], size |-> size]]
        BY <3>1 DEF Returned
      <3>10. Entries' = Entries \cup {<<obj_ptr[i], m>>}
        BY <3>3, <3>5
      <3>11. Owned'
        BY <1>1, <2>1, <3>4, <3>6, <3>7, <3>8, <3>9, <3>10, Adding
      <3> QED
        BY <1>1, <1>3, <3>1, <3>3, <3>11 DEF CarefulInv
    <2> QED
      BY <1>6, <2>2, <2>3 DEF syscall_malloc
  <1>7. ASSUME NEW v \in Pointers, CarefulFree(v) PROVE CarefulInv'
    <2>1. PICK i \in 0 .. malloc_obj_count - 2 :
             /\ live[v] # NULL /\ obj_ptr[i] = live[v].ptr /\ malloc_objs[i].used
             /\ i > 0 => malloc_objs[i - 1].used
      BY <1>7 DEF CarefulFree
    <2>2. PICK j \in FreeIndex(live[v].ptr) :
             IF obj_ptr[j] = live[v].ptr
             THEN malloc_objs' = Freed(j).objs /\ malloc_obj_count' = Freed(j).count
             ELSE UNCHANGED <<malloc_objs, malloc_obj_count>>
      BY <1>7 DEF CarefulFree, syscall_free
    <2>3. i \in 0 .. malloc_obj_count - 1
      BY <1>4
    <2>4. j = i
      BY <2>1, <2>2, <2>3, FreeFinds
    <2>5. malloc_objs' = Freed(i).objs /\ malloc_obj_count' = Freed(i).count
      BY <2>1, <2>2, <2>4
    <2> DEFINE d == <<obj_ptr[i], malloc_objs[i].size>>
    <2>6. malloc_obj_count' >= 1 /\ Tiled' /\ Entries' = Entries \ {d}
      BY <2>1, <2>5, FreedEntries
    <2>7. d \in Entries /\ d[1] = live[v].ptr
      BY <2>1, <2>3, EntryFacts
    <2>8. ASSUME NEW e \in Entries, e[1] = d[1] PROVE e = d
      <3>1. PICK k \in 0 .. malloc_obj_count - 1 :
               malloc_objs[k].used /\ e = <<obj_ptr[k], malloc_objs[k].size>>
        BY EntryFacts
      <3>2. malloc_objs[i].size >= 1
        BY <2>1, <2>3, ObjectsApart
      <3>3. k = i
        BY <2>3, <2>8, <3>1, <3>2, OwnAddress
      <3> QED
        BY <3>1, <3>3
    <2>9. live' = [live EXCEPT ![v] = NULL] /\ v \in Live
      BY <1>7, <2>1 DEF CarefulFree, syscall_free, Live
    <2> HIDE DEF d
    <2>10. Owned'
      BY <1>1, <2>6, <2>7, <2>8, <2>9, Removing
    <2> QED
      BY <1>3, <2>6, <2>10 DEF CarefulInv
  <1>8. CASE UNCHANGED vars
    <2>1. obj_ptr' = obj_ptr /\ Entries' = Entries /\ Live' = Live
      BY <1>8 DEF vars, obj_ptr, Entries, Live
    <2>2. \A e \in Entries : \A v \in Live : Holds(e, v)' = Holds(e, v)
      BY <1>8 DEF vars, Holds
    <2>3. Owned'
      BY <1>1, <1>8, <2>1, <2>2 DEF Owned, vars
    <2> QED
      BY <1>1, <1>3, <1>8, <2>1, <2>3 DEF CarefulInv, Tiled, vars
  <1> QED
    BY <1>5, <1>6, <1>7, <1>8 DEF CarefulNext

\* A new process has one unused object and no live one.
LEMMA CarefulInit == Init => CarefulInv
  <1> SUFFICES ASSUME Init PROVE CarefulInv
    OBVIOUS
  <1>1. AnyInv /\ HeapType /\ UnusedApart
    BY AnyInit DEF AnyInv
  <1>2. MALLOC_OBJ_NUM \in Nat \ {0} /\ MALLOC_HEAP_SIZE \in Nat
    BY HeapAssumption
  <1>3. malloc_obj_count = 1 /\ malloc_objs[0] = Obj(FALSE, MALLOC_HEAP_SIZE)
    BY <1>2 DEF Init
  <1>4. Live = {} /\ Entries = {}
    <2>1. Live = {}
      BY DEF Init, Live
    <2>2. \A k \in 0 .. malloc_obj_count - 1 : ~malloc_objs[k].used
      BY <1>3 DEF Obj
    <2> QED
      BY <2>1, <2>2 DEF Entries
  <1>5. Tiled
    <2>1. 1 \in 1 .. MALLOC_OBJ_NUM /\ 1 - 1 = 0
      BY <1>2
    <2>2. obj_ptr[1] = obj_ptr[0] + malloc_objs[0].size /\ obj_ptr[0] = 0
      BY <1>1, <2>1, TypeFacts
    <2> QED
      BY <1>2, <1>3, <2>2 DEF Tiled, Obj
  <1> QED
    BY <1>1, <1>3, <1>4, <1>5 DEF CarefulInv, Owned

\* What is invariant under a careful program.
LEMMA CarefulAlways == CarefulSpec => []CarefulInv
  BY CarefulInit, CarefulStep, PTL DEF CarefulSpec

\* Two live objects never share a block and none leaves the heap, for a program
\* that never asks for 0 bytes and frees an object only while the one in front
\* of it is in use and not as the last of the table, in whatever order its
\* holes are split, reused and merged otherwise, and for every size of the
\* heap, of the table and of a block.
THEOREM ObjectsDisjoint == CarefulSpec => []Disjoint
  <1>1. CarefulInv => Disjoint
    <2> SUFFICES ASSUME CarefulInv, NEW v \in Live
                 PROVE  /\ Extent(live[v]) \subseteq 0 .. MALLOC_HEAP_SIZE - 1
                        /\ \A w \in Live : w # v => Extent(live[w]) \cap Extent(live[v]) = {}
      BY DEF Disjoint
    <2>1. Owned /\ HeapType
      BY DEF CarefulInv
    <2>2. ASSUME NEW w \in Live
          PROVE  \E k \in 0 .. malloc_obj_count - 1 :
                    /\ malloc_objs[k].used /\ obj_ptr[k] = live[w].ptr
                    /\ \A x \in Extent(live[w]) :
                          x \in Int /\ obj_ptr[k] <= x /\ x < obj_ptr[k + 1]
      <3>1. PICK e \in Entries : Holds(e, w)
        BY <2>1 DEF Owned
      <3>2. PICK k \in 0 .. malloc_obj_count - 1 :
               malloc_objs[k].used /\ e = <<obj_ptr[k], malloc_objs[k].size>>
        BY EntryFacts
      <3>3. obj_ptr[k] = live[w].ptr /\ BlocksFor(live[w].size) <= malloc_objs[k].size
        BY <3>1, <3>2 DEF Holds
      <3>4. obj_ptr[k] \in Nat /\ malloc_objs[k].size \in Nat
            /\ obj_ptr[k + 1] = obj_ptr[k] + malloc_objs[k].size
        BY ObjectsApart
      <3>5. BlocksFor(live[w].size) \in Nat
        <4>1. live[w].size \in Nat
          BY <2>1 DEF HeapType, Live, Object
        <4>2. MALLOC_BLOCK_SIZE \in Nat \ {0}
          BY HeapAssumption
        <4>3. live[w].size + MALLOC_BLOCK_SIZE - 1 \in Nat
          BY <4>1, <4>2
        <4> QED
          BY <4>2, <4>3, DivFacts DEF BlocksFor
      <3>6. ASSUME NEW x \in Extent(live[w])
            PROVE  x \in Int /\ obj_ptr[k] <= x /\ x < obj_ptr[k + 1]
        <4>1. x \in obj_ptr[k] .. (obj_ptr[k] + BlocksFor(live[w].size) - 1)
          BY <3>3 DEF Extent
        <4> QED
          BY <3>3, <3>4, <3>5, <4>1
      <3> QED
        BY <3>2, <3>3, <3>6
    <2>3. PICK i \in 0 .. malloc_obj_count - 1 :
             /\ malloc_objs[i].used /\ obj_ptr[i] = live[v].ptr
             /\ \A x \in Extent(live[v]) : x \in Int /\ obj_ptr[i] <= x /\ x < obj_ptr[i + 1]
      BY <2>2
    <2>4. obj_ptr[i] \in Nat /\ obj_ptr[i + 1] \in Nat /\ obj_ptr[i + 1] <= MALLOC_HEAP_SIZE
          /\ MALLOC_HEAP_SIZE \in Nat
      BY ObjectsApart, HeapAssumption
    <2>5. Extent(live[v]) \subseteq 0 .. MALLOC_HEAP_SIZE - 1
      BY <2>3, <2>4
    <2>6. ASSUME NEW w \in Live, w # v, NEW x \in Extent(live[w]), x \in Extent(live[v]) PROVE FALSE
      <3>1. PICK j \in 0 .. malloc_obj_count - 1 :
               /\ malloc_objs[j].used /\ obj_ptr[j] = live[w].ptr
               /\ \A y \in Extent(live[w]) : y \in Int /\ obj_ptr[j] <= y /\ y < obj_ptr[j + 1]
        BY <2>2
      <3>2. /\ x \in Int /\ obj_ptr[i] <= x /\ x < obj_ptr[i + 1]
            /\ obj_ptr[j] <= x /\ x < obj_ptr[j + 1]
        BY <2>3, <2>6, <3>1
      <3>3. i # j
        BY <2>1, <2>3, <2>6, <3>1 DEF Owned
      <3>4. malloc_obj_count \in Nat
        BY <2>1, TypeFacts
      <3>5. CASE i < j
        <4>1. j \in i + 1 .. malloc_obj_count
          BY <3>4, <3>5
        <4>2. obj_ptr[j] \in Nat /\ obj_ptr[i + 1] <= obj_ptr[j]
          BY <4>1, ObjectsApart
        <4> QED
          BY <2>4, <3>2, <4>2
      <3>6. CASE j < i
        <4>1. i \in j + 1 .. malloc_obj_count
          BY <3>4, <3>6
        <4>2. obj_ptr[j + 1] \in Nat /\ obj_ptr[j + 1] <= obj_ptr[i]
          BY <4>1, ObjectsApart
        <4> QED
          BY <2>4, <3>2, <4>2
      <3> QED
        BY <3>3, <3>4, <3>5, <3>6
    <2> QED
      BY <2>5, <2>6
  <1> QED
    BY <1>1, CarefulAlways, PTL

\* The objects of such a program tile the heap exactly: no block is lost or
\* counted twice when holes are split, reused and merged with the hole behind.
THEOREM HeapTiled == CarefulSpec => []Tiled
  <1>1. CarefulInv => Tiled
    BY DEF CarefulInv
  <1> QED
    BY <1>1, CarefulAlways, PTL

\* When such a program has freed every object, the heap is one unused object
\* again, although the table has been shifted by every split and merge.
THEOREM HeapReclaimed == CarefulSpec => []Reclaimed
  <1>1. CarefulInv => Reclaimed
    <2> SUFFICES ASSUME CarefulInv, Live = {}
                 PROVE  malloc_obj_count = 1 /\ malloc_objs[0] = Obj(FALSE, MALLOC_HEAP_SIZE)
      BY DEF Reclaimed
    <2>1. HeapType /\ Owned /\ Tiled /\ UnusedApart /\ malloc_obj_count >= 1
      BY DEF CarefulInv
    <2>2. malloc_obj_count \in Nat
      BY <2>1, TypeFacts
    <2>3. \A k \in 0 .. malloc_obj_count - 1 : ~malloc_objs[k].used
      BY <2>1, EntryFacts DEF Owned
    <2>4. malloc_obj_count = 1
      <3>1. SUFFICES ASSUME malloc_obj_count # 1 PROVE FALSE
        OBVIOUS
      <3>2. 1 \in 1 .. malloc_obj_count - 1 /\ 1 - 1 = 0 /\ 0 \in 0 .. malloc_obj_count - 1
            /\ 1 \in 0 .. malloc_obj_count - 1
        BY <2>1, <2>2, <3>1
      <3>3. malloc_objs[0].used \/ malloc_objs[1].used
        BY <2>1, <3>2 DEF UnusedApart
      <3> QED
        BY <2>3, <3>2, <3>3
    <2>5. 0 \in 0 .. malloc_obj_count - 1 /\ 0 + 1 = 1 /\ 0 \in 0 .. MALLOC_OBJ_NUM
      BY <2>4, HeapAssumption
    <2>6. obj_ptr[1] = obj_ptr[0] + malloc_objs[0].size /\ obj_ptr[0] = 0
          /\ malloc_objs[0].size \in Nat /\ malloc_objs[0] \in Entry
      BY <2>1, <2>5, ObjectsApart, TypeFacts
    <2>7. malloc_objs[0].size = MALLOC_HEAP_SIZE
      BY <2>1, <2>4, <2>6 DEF Tiled
    <2>8. malloc_objs[0].used = FALSE
      BY <2>3, <2>5, <2>6 DEF Entry
    <2>9. ASSUME NEW r \in Entry, r.used = FALSE PROVE r = Obj(FALSE, r.size)
      BY <2>9 DEF Entry, Obj
    <2> QED
      BY <2>4, <2>6, <2>7, <2>8, <2>9
  <1> QED
    BY <1>1, CarefulAlways, PTL
=============================================================================
