-------------------------------- MODULE Heap --------------------------------
(***************************************************************************)
(* The heap of a process (syscall_malloc, syscall_free): a table of        *)
(* objects, used and unused, that tile the heap from its start.  An object *)
(* has no stored address; it is where the sizes before it end.  Sizes are  *)
(* in blocks, addresses in blocks from HEAP_START, requests in bytes.      *)
(***************************************************************************)
EXTENDS Naturals

CONSTANTS
    MALLOC_HEAP_SIZE,   \* blocks of the heap
    MALLOC_OBJ_NUM,     \* entries of the table
    MALLOC_BLOCK_SIZE,  \* bytes of a block
    SIZE_LIMIT,         \* the size field of an entry holds sizes below it (2^15)
    Sizes,              \* bytes that programs ask for
    Pointers,           \* pointer variables of a program
    NULL

ASSUME HeapAssumption ==
    /\ MALLOC_HEAP_SIZE \in Nat \ {0} /\ SIZE_LIMIT \in Nat
    /\ MALLOC_HEAP_SIZE < SIZE_LIMIT
    /\ MALLOC_OBJ_NUM \in Nat \ {0}
    /\ MALLOC_BLOCK_SIZE \in Nat \ {0}
    /\ Sizes \subseteq Nat
    /\ NULL \notin [ptr : Nat, size : Nat]

VARIABLES
    malloc_objs,        \* index -> used, size; the last index is the first
                        \* cell behind the table
    malloc_obj_count,
    live                \* pointer -> the object malloc returned, until freed

vars == <<malloc_objs, malloc_obj_count, live>>

Obj(used, size) == [used |-> used, size |-> size]

Init ==
    /\ malloc_objs = [i \in 0 .. MALLOC_OBJ_NUM |->
                        Obj(FALSE, IF i = 0 THEN MALLOC_HEAP_SIZE ELSE 0)]
    /\ malloc_obj_count = 1
    /\ live = [v \in Pointers |-> NULL]

\* _syscall_execute in the page of an earlier process: the rest of the table
\* keeps what it held.
NewProcess ==
    /\ malloc_objs' = [malloc_objs EXCEPT ![0] = Obj(FALSE, MALLOC_HEAP_SIZE)]
    /\ malloc_obj_count' = 1
    /\ live' = [v \in Pointers |-> NULL]

\* Address of every object (obj_ptr of the loops).
Addresses(objs) ==
    LET at[i \in 0 .. MALLOC_OBJ_NUM] ==
            IF i = 0 THEN 0 ELSE at[i - 1] + objs[i - 1].size
    IN  at

obj_ptr == Addresses(malloc_objs)

(***************************************************************************)
(* syscall_malloc: first fit, whole or split.  A split moves the entries   *)
(* up by one, the one at malloc_obj_count included.                        *)
(***************************************************************************)
FirstFit(size) ==
    LET fits == {i \in 0 .. malloc_obj_count - 1 :
                    /\ ~malloc_objs[i].used
                    /\ size <= malloc_objs[i].size * MALLOC_BLOCK_SIZE}
    IN  {i \in fits : \A j \in fits : i <= j}

\* Faulty variants: the rest keeps the size of the whole; the size is rounded
\* down.
Split_down(i, size) ==
    LET taken == size \div MALLOC_BLOCK_SIZE IN
    [k \in 0 .. MALLOC_OBJ_NUM |->
        CASE k = i -> Obj(TRUE, taken)
          [] k = i + 1 -> Obj(FALSE, malloc_objs[i].size - taken)
          [] k \in i + 2 .. malloc_obj_count + 1 -> malloc_objs[k - 1]
          [] OTHER -> malloc_objs[k]]
Split_keepSize(i, size) ==
    [k \in 0 .. MALLOC_OBJ_NUM |->
        CASE k = i -> Obj(TRUE, size \div MALLOC_BLOCK_SIZE + 1)
          [] k \in i + 1 .. malloc_obj_count + 1 -> malloc_objs[k - 1]
          [] OTHER -> malloc_objs[k]]

Split(i, size) ==
    LET taken == size \div MALLOC_BLOCK_SIZE + 1 IN
    [k \in 0 .. MALLOC_OBJ_NUM |->
        CASE k = i -> Obj(TRUE, taken)
          [] k = i + 1 -> Obj(FALSE, malloc_objs[i].size - taken)
          [] k \in i + 2 .. malloc_obj_count + 1 -> malloc_objs[k - 1]
          [] OTHER -> malloc_objs[k]]

\* The program keeps the result in a variable that holds no object.
Returned(i, size) ==
    \E v \in Pointers :
        /\ live[v] = NULL
        /\ live' = [live EXCEPT ![v] = [ptr |-> obj_ptr[i], size |-> size]]

malloc_split(size) ==
    \E i \in FirstFit(size) :
        /\ size < malloc_objs[i].size * MALLOC_BLOCK_SIZE
        /\ malloc_obj_count # MALLOC_OBJ_NUM
        /\ malloc_objs' = Split(i, size)
        /\ malloc_obj_count' = malloc_obj_count + 1
        /\ Returned(i, size)

malloc_whole(size) ==
    \E i \in FirstFit(size) :
        /\ size = malloc_objs[i].size * MALLOC_BLOCK_SIZE
        /\ malloc_objs' = [malloc_objs EXCEPT ![i] = Obj(TRUE, malloc_objs[i].size)]
        /\ Returned(i, size)
        /\ UNCHANGED malloc_obj_count

syscall_malloc(size) == malloc_split(size) \/ malloc_whole(size)

(***************************************************************************)
(* syscall_free of a pointer that malloc returned: the first object at or  *)
(* behind it is merged with unused neighbours.  Both merges add the size   *)
(* of the object behind it, and the neighbour behind the last object is    *)
(* the cell after the table's end; the sum is stored in the size field.    *)
(***************************************************************************)
FreeIndex(ptr) ==
    LET stops == {i \in 0 .. malloc_obj_count :
                    i = malloc_obj_count \/ ptr <= obj_ptr[i]}
    IN  {i \in stops : \A j \in stops : i <= j}

\* Faulty variant of what follows: no merge with the object behind.
Freed_noMerge(i) ==
    [count |-> malloc_obj_count,
     objs |-> [malloc_objs EXCEPT ![i].used = FALSE]]

\* The table when object i becomes unused.
Freed(i) ==
    LET below == i < malloc_obj_count /\ ~malloc_objs[i + 1].used
        above == i > 0 /\ ~malloc_objs[i - 1].used
        behind == IF i < MALLOC_OBJ_NUM THEN malloc_objs[i + 1].size ELSE 0
        empty_size == malloc_objs[i].size + (IF below THEN behind ELSE 0)
                                          + (IF above THEN behind ELSE 0)
        move == (IF below THEN 1 ELSE 0) + (IF above THEN 1 ELSE 0)
        at == IF above THEN i - 1 ELSE i
        count == malloc_obj_count - move
    IN  [count |-> count,
         objs |-> [k \in 0 .. MALLOC_OBJ_NUM |->
                      CASE k = at -> Obj(FALSE, empty_size % SIZE_LIMIT)
                        [] k \in at + 1 .. count - 1 -> malloc_objs[k + move]
                        [] OTHER -> malloc_objs[k]]]

\* The program frees the object of v; a pointer that is no object's address is
\* refused.
syscall_free(v) ==
    /\ live[v] # NULL
    /\ \E i \in FreeIndex(live[v].ptr) :
          IF obj_ptr[i] = live[v].ptr
          THEN /\ malloc_objs' = Freed(i).objs
               /\ malloc_obj_count' = Freed(i).count
          ELSE UNCHANGED <<malloc_objs, malloc_obj_count>>
    /\ live' = [live EXCEPT ![v] = NULL]

\* Any program.
Next ==
    \/ NewProcess
    \/ \E size \in Sizes : syscall_malloc(size)
    \/ \E v \in Pointers : syscall_free(v)

Spec == Init /\ [][Next]_vars

(***************************************************************************)
(* A careful program: it never asks for 0 bytes, and it frees an object    *)
(* only while the object in front of it, if any, is in use, and not the    *)
(* last object of the table (one that took the rest of the heap whole).    *)
(* Objects may be freed and their blocks reused in any other order.        *)
(***************************************************************************)
CarefulFree(v) ==
    /\ \E i \in 0 .. malloc_obj_count - 2 :
          /\ live[v] # NULL /\ obj_ptr[i] = live[v].ptr /\ malloc_objs[i].used
          /\ i > 0 => malloc_objs[i - 1].used
    /\ syscall_free(v)

CarefulNext ==
    \/ NewProcess
    \/ \E size \in Sizes \ {0} : syscall_malloc(size)
    \/ \E v \in Pointers : CarefulFree(v)

CarefulSpec == Init /\ [][CarefulNext]_vars

----------------------------------------------------------------------------
Live == {v \in Pointers : live[v] # NULL}

\* The blocks of a live object.
BlocksFor(size) == (size + MALLOC_BLOCK_SIZE - 1) \div MALLOC_BLOCK_SIZE
Extent(o) == o.ptr .. (o.ptr + BlocksFor(o.size) - 1)

\* For a careful program no two live objects share a block and none leaves the
\* heap, although addresses are only sums of sizes that syscall_malloc and
\* syscall_free rewrite while they shift the table.
Disjoint ==
    \A v \in Live :
        /\ Extent(live[v]) \subseteq 0 .. MALLOC_HEAP_SIZE - 1
        /\ \A w \in Live : w # v => Extent(live[w]) \cap Extent(live[v]) = {}

\* "used blocks can be ajacent to each other ... but unused blocks can't"
\* (syscall.h:11): whatever a program asks for and frees in whatever order, and
\* however wrong the sizes get, no two unused objects become neighbours.
UnusedApart ==
    \A i \in 1 .. malloc_obj_count - 1 : malloc_objs[i - 1].used \/ malloc_objs[i].used

\* For a careful program the objects tile the heap exactly: no block is lost or
\* counted twice when holes are split, reused and merged with the hole behind.
Tiled == obj_ptr[malloc_obj_count] = MALLOC_HEAP_SIZE

\* When a careful program has freed everything, the heap is one unused object
\* again: no block and no table entry is lost in the holes, splits and merges
\* in between.
Reclaimed ==
    Live = {} => malloc_obj_count = 1 /\ malloc_objs[0] = Obj(FALSE, MALLOC_HEAP_SIZE)

\* "Total amount of heap is 256K, so it doesn't collide with program code"
\* (syscall.h:10): no object leaves the heap, whatever the program.
WithinHeap == \A v \in Live : Extent(live[v]) \subseteq 0 .. MALLOC_HEAP_SIZE - 1

(***************************************************************************)
(* The inductive invariant of CarefulSpec.                                 *)
(***************************************************************************)
Object == [ptr : Nat, size : Nat]

HeapType ==
    /\ malloc_objs \in [0 .. MALLOC_OBJ_NUM -> [used : BOOLEAN, size : Nat]]
    /\ malloc_obj_count \in 0 .. MALLOC_OBJ_NUM
    /\ live \in [Pointers -> Object \cup {NULL}]

\* The used entries of the table, by address and size.
Entries ==
    {<<obj_ptr[i], malloc_objs[i].size>> :
        i \in {k \in 0 .. malloc_obj_count - 1 : malloc_objs[k].used}}

\* Entry e is the object of v.
Holds(e, v) == e[1] = live[v].ptr /\ BlocksFor(live[v].size) <= e[2]

\* The used entries are the live objects, one each; none is empty.
Owned ==
    /\ \A v \in Live : \E e \in Entries : Holds(e, v)
    /\ \A e \in Entries : e[2] >= 1 /\ \E v \in Live : Holds(e, v)
    /\ \A v, w \in Live : live[v].ptr = live[w].ptr => v = w

\* UnusedApart makes the freed hole's neighbour behind a used one, which is
\* what Tiled and Reclaimed need.
CarefulInv == HeapType /\ malloc_obj_count >= 1 /\ Owned /\ Tiled /\ UnusedApart
=============================================================================
