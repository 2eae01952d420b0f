----------------------------- MODULE RtcProofs ------------------------------
(***************************************************************************)
(* Proofs about Rtc, for any number of processes, descriptors, slots and   *)
(* frequencies.                                                            *)
(***************************************************************************)
EXTENDS Rtc, FiniteSetTheorems, Induction

\* The recursion of Pow2 defines a function.
LEMMA Pow2Def ==
    /\ Pow2 \in [0 .. MSK_5 -> Nat]
    /\ Pow2[0] = 1
    /\ \A n \in 1 .. MSK_5 : Pow2[n] = 2 * Pow2[n - 1]
  <1> DEFINE D == [a \in Nat \X Nat |-> 2 * a[2]]
             Rhs(f) == [n \in 0 .. MSK_5 |-> IF n = 0 THEN 1 ELSE 2 * f[n - 1]]
  <1>1. MSK_5 \in Nat /\ 1 \in Nat /\ D \in [Nat \X Nat -> Nat]
    BY RtcAssumption
  <1>2. \A n, k \in Nat : D[<<n, k>>] = 2 * k
    OBVIOUS
  <1> HIDE DEF D
  <1>3. PICK f \in [0 .. MSK_5 -> Nat] : Iterates(f, MSK_5, 1, D)
    BY <1>1, Recursion
  <1>4. \A n \in 1 .. MSK_5 : f[n] = 2 * f[n - 1]
    <2> SUFFICES ASSUME NEW n \in 1 .. MSK_5 PROVE f[n] = 2 * f[n - 1]
      OBVIOUS
    <2>1. n - 1 \in 0 .. MSK_5 /\ n \in Nat
      BY <1>1
    <2>2. f[n - 1] \in Nat
      BY <2>1
    <2> QED
      BY <1>2, <1>3, <2>1, <2>2 DEF Iterates
  <1>5. f = Rhs(f)
    BY <1>1, <1>3, <1>4 DEF Iterates
  <1>6. Pow2 = Rhs(Pow2)
    BY <1>5 DEF Pow2, Fields
  <1>7. \A n \in 0 .. MSK_5 : Pow2[n] = IF n = 0 THEN 1 ELSE 2 * Pow2[n - 1]
    BY <1>6
  <1>8. DOMAIN Pow2 = 0 .. MSK_5
    BY <1>6
  <1>9. \A n \in 0 .. MSK_5 : Pow2[n] \in Nat
    <2> DEFINE T == {n \in 0 .. MSK_5 : Pow2[n] \in Nat}
    <2>1. 0 \in T
      BY <1>1, <1>7
    <2>2. ASSUME NEW n \in 0 .. MSK_5 - 1, n \in T PROVE n + 1 \in T
      <3>1. n + 1 \in 0 .. MSK_5 /\ n + 1 # 0 /\ (n + 1) - 1 = n
        BY <1>1
      <3>2. Pow2[n + 1] = 2 * Pow2[n] /\ Pow2[n] \in Nat
        BY <1>7, <2>2, <3>1
      <3> QED
        BY <3>1, <3>2
    <2>3. 0 .. MSK_5 \subseteq T
      <3> HIDE DEF T
      <3> QED
        BY <1>1, <2>1, <2>2, UpTo
    <2> QED
      BY <2>3
  <1>10. Pow2 = [n \in 0 .. MSK_5 |-> Pow2[n]]
    BY <1>6
  <1>11. Pow2 \in [0 .. MSK_5 -> Nat]
    BY <1>9, <1>10
  <1> QED
    BY <1>1, <1>7, <1>11

\* Powers of two are positive and at most the largest one.
LEMMA Pow2Bound ==
    \A n \in Fields : Pow2[n] \in Nat /\ 1 <= Pow2[n] /\ Pow2[n] <= Pow2[MSK_5]
  <1>1. MSK_5 \in Nat
    BY RtcAssumption
  <1> DEFINE Up == {n \in Fields : Pow2[n] >= 1}
             Down == {k \in Fields : Pow2[MSK_5 - k] <= Pow2[MSK_5]}
  <1>2. 0 \in Up
    BY <1>1, Pow2Def DEF Fields
  <1>3. \A n \in 0 .. MSK_5 - 1 : n \in Up => n + 1 \in Up
    BY <1>1, Pow2Def DEF Fields
  <1>4. Fields \subseteq Up
    <2> HIDE DEF Up
    <2> QED
      BY <1>1, <1>2, <1>3, UpTo DEF Fields
  <1>5. 0 \in Down
    BY <1>1, Pow2Def DEF Fields
  <1>6. ASSUME NEW k \in 0 .. MSK_5 - 1, k \in Down PROVE k + 1 \in Down
    <2> DEFINE m == MSK_5 - k
    <2>1. m \in 1 .. MSK_5 /\ m - 1 = MSK_5 - (k + 1) /\ m - 1 \in Fields
      BY <1>1 DEF Fields
    <2>2. Pow2[m] = 2 * Pow2[m - 1] /\ Pow2[m - 1] \in Nat /\ Pow2[MSK_5] \in Nat
      BY <1>1, <2>1, Pow2Def DEF Fields
    <2>3. Pow2[m] <= Pow2[MSK_5]
      BY <1>6
    <2>4. Pow2[m - 1] <= Pow2[MSK_5]
      BY <2>2, <2>3
    <2> QED
      BY <1>1, <2>1, <2>4 DEF Fields
  <1>7. Fields \subseteq Down
    <2> HIDE DEF Down
    <2> QED
      BY <1>1, <1>5, <1>6, UpTo DEF Fields
  <1> QED
    <2> SUFFICES ASSUME NEW n \in Fields
                 PROVE  Pow2[n] \in Nat /\ 1 <= Pow2[n] /\ Pow2[n] <= Pow2[MSK_5]
      OBVIOUS
    <2>1. MSK_5 - n \in Fields /\ MSK_5 - (MSK_5 - n) = n
      BY <1>1 DEF Fields
    <2>2. Pow2[MSK_5 - (MSK_5 - n)] <= Pow2[MSK_5]
      BY <1>7, <2>1
    <2> QED
      BY <1>1, <1>4, <2>1, <2>2, Pow2Def DEF Fields

\* A ratio is a field; of a frequency that the system frequency covers it is
\* the difference of the exponents.
LEMMA RatioFacts ==
    ASSUME NEW sys \in 0 .. SYS_MAX_POW, NEW freq \in Fields
    PROVE  /\ Ratio(sys, freq) \in Fields
           /\ freq <= sys => Ratio(sys, freq) = sys - freq
  <1> DEFINE d == sys - freq
             m == MSK_5 + 1
  <1>1. d \in Int /\ m \in Nat \ {0} /\ d < m
    BY RtcAssumption DEF Fields
  <1>2. d % m \in 0 .. (m - 1)
    BY <1>1
  <1>3. d >= 0 => d % m = d
    BY <1>1
  <1> QED
    BY <1>1, <1>2, <1>3, RtcAssumption DEF Ratio, Fields

\* The files of a process are its own.
LEMMA OwnedFacts ==
    /\ \A p \in Procs : Owned(p) \subseteq Files
    /\ \A p, q \in Procs : \A f \in Owned(p) : f \in Owned(q) => p = q
  BY DEF Owned, Files

----------------------------------------------------------------------------
(***************************************************************************)
(* Type correctness, one step per action.                                  *)
(***************************************************************************)
Locals == [i : 0 .. MAX_PROC_NUM, file : Files \cup {NULL},
           freq : Fields, ratio : Fields, count : 0 .. COUNT_MAX]

\* What reset_rtc_info stores has its type.
LEMMA ResetType ==
    ASSUME TypeOK, NEW f \in Files, NEW freq_pow \in 1 .. SYS_MAX_POW,
           freq_pow <= sys_freq_pow, reset_rtc_info(f, freq_pow)
    PROVE  inode' \in [Files -> Inodes] /\ pos' \in [Files -> 0 .. Pow2[MSK_5]]
  <1>1. /\ Ratio(sys_freq_pow, freq_pow) \in Fields /\ freq_pow \in Fields
        /\ 0 \in 0 .. COUNT_MAX
    BY RtcAssumption, RatioFacts DEF TypeOK, Fields
  <1>2. Inode(freq_pow, Ratio(sys_freq_pow, freq_pow), 0) \in Inodes
    BY <1>1 DEF Inode, Inodes
  <1>3. Pow2[Ratio(sys_freq_pow, freq_pow)] \in 0 .. Pow2[MSK_5]
    BY <1>1, Pow2Bound, RtcAssumption DEF Fields
  <1> QED
    BY <1>2, <1>3 DEF reset_rtc_info, TypeOK

\* Every step of a call and every interrupt keeps the types.
LEMMA TypeStep == TypeOK /\ IInv /\ [Next]_vars => TypeOK'
  <1> SUFFICES ASSUME TypeOK, IInv, [Next]_vars PROVE TypeOK'
    OBVIOUS
  <1> USE RtcAssumption
  <1>1. 1 \in 1 .. SYS_MAX_POW /\ 1 <= sys_freq_pow
    BY DEF TypeOK
  <1>2. CASE rtc_isr
    <2>1. time_elasped' \in [Slots -> 0 .. (COUNTER_MAX - 1)]
      <3>1. SYS_MAX_POW - sys_freq_pow \in Fields
        BY DEF TypeOK, Fields
      <3>2. Pow2[SYS_MAX_POW - sys_freq_pow] \in Nat
        BY <3>1, Pow2Bound
      <3> QED
        BY <1>2, <3>2 DEF rtc_isr, AlarmCounters, TypeOK
    <2>2. inode' \in [Files -> Inodes]
      BY <1>2 DEF rtc_isr, Gained, AtMost, TypeOK, Inodes
    <2>3. pos' \in [Files -> 0 .. Pow2[MSK_5]]
      <3> SUFFICES ASSUME NEW f \in Files PROVE pos'[f] \in 0 .. Pow2[MSK_5]
        BY <1>2 DEF rtc_isr
      <3>1. inode[f].ratio \in Fields /\ pos[f] \in 0 .. Pow2[MSK_5]
        BY DEF TypeOK, Inodes
      <3>2. Pow2[inode[f].ratio] \in 0 .. Pow2[MSK_5]
        BY <3>1, Pow2Bound DEF Fields
      <3>3. f \in Counted /\ f \notin Expired => pos[f] - 1 \in 0 .. Pow2[MSK_5]
        BY <3>1, Pow2Bound DEF Expired, Fields
      <3>4. pos'[f] = IF f \in Expired THEN Pow2[inode[f].ratio]
                      ELSE IF f \in Counted THEN pos[f] - 1 ELSE pos[f]
        BY <1>2 DEF rtc_isr
      <3> QED
        BY <3>1, <3>2, <3>3, <3>4
    <2>4. credit' \in [Files -> 0 .. COUNT_MAX]
      BY <1>2 DEF rtc_isr, CreditTicks, AtMost, TypeOK
    <2> QED
      BY <1>2, <2>1, <2>2, <2>3, <2>4 DEF rtc_isr, TypeOK, procVars
  <1>3. ASSUME NEW p \in Procs, ProcNext(p) PROVE TypeOK'
    <2>1. Owned(p) \subseteq Files
      BY OwnedFacts
    <2>2. CASE rtc_open(p)
      <3>1. PICK f \in LowestFd(p), i \in LowestSlot :
              /\ reset_rtc_info(f, DefPow)
              /\ kind' = [kind EXCEPT ![f] = "rtc"]
              /\ rtc_files' = [rtc_files EXCEPT ![i] = f]
              /\ time_elasped' = [time_elasped EXCEPT ![i] = 0]
              /\ credit' = [credit EXCEPT ![f] = 0]
        BY <2>2 DEF rtc_open
      <3>2. f \in Files /\ i \in Slots
        BY <2>1 DEF LowestFd, LowestSlot, FreeSlots
      <3>3. inode' \in [Files -> Inodes] /\ pos' \in [Files -> 0 .. Pow2[MSK_5]]
        BY <1>1, <3>1, <3>2, ResetType DEF DefPow
      <3>4. /\ kind' \in [Files -> {"free", "reg", "rtc"}]
            /\ rtc_files' \in [Slots -> Files \cup {NULL}]
            /\ time_elasped' \in [Slots -> 0 .. (COUNTER_MAX - 1)]
            /\ credit' \in [Files -> 0 .. COUNT_MAX]
        BY <3>1, <3>2 DEF TypeOK
      <3>5. UNCHANGED <<sys_freq_pow, pc, loc, hung, everReg>>
        BY <2>2 DEF rtc_open, procVars
      <3> QED
        BY <3>3, <3>4, <3>5 DEF TypeOK
    <2>3. CASE rtc_open_full(p)
      <3>1. PICK f \in LowestFd(p) : reset_rtc_info(f, DefPow)
        BY <2>3 DEF rtc_open_full
      <3>2. f \in Files
        BY <2>1 DEF LowestFd
      <3>3. inode' \in [Files -> Inodes] /\ pos' \in [Files -> 0 .. Pow2[MSK_5]]
        BY <1>1, <3>1, <3>2, ResetType DEF DefPow
      <3> QED
        BY <2>3, <3>3 DEF rtc_open_full, TypeOK, procVars
    <2>4. CASE fs_open(p)
      <3>1. RegInodes \subseteq Inodes /\ 0 \in 0 .. Pow2[MSK_5]
        BY Pow2Bound, RegInodesAssumption DEF Inodes, Fields
      <3> QED
        BY <2>1, <2>4, <3>1 DEF fs_open, LowestFd, TypeOK, procVars
    <2>5. CASE syscall_close(p) \/ Halt(p)
      BY <2>5 DEF syscall_close, Halt, CloseFiles, TypeOK, procVars
    <2>6. CASE rtc_write_low(p)
      <3>1. PICK f \in Owned(p) \cap OpenFiles, freq_pow \in 1 .. USER_MAX_POW :
              freq_pow <= sys_freq_pow /\ reset_rtc_info(f, freq_pow)
        BY <2>6 DEF rtc_write_low
      <3>2. f \in Files /\ freq_pow \in 1 .. SYS_MAX_POW
        BY <2>1
      <3>3. inode' \in [Files -> Inodes] /\ pos' \in [Files -> 0 .. Pow2[MSK_5]]
        BY <3>1, <3>2, ResetType
      <3> QED
        BY <2>6, <3>3 DEF rtc_write_low, TypeOK, procVars
    <2>7. CASE rtc_write_raise(p)
      <3>1. PICK f \in Owned(p) \cap OpenFiles, freq_pow \in 1 .. USER_MAX_POW :
              /\ inode' = [inode EXCEPT ![f].freq = freq_pow]
              /\ sys_freq_pow' = freq_pow
        BY <2>7 DEF rtc_write_raise
      <3>2. f \in Files /\ freq_pow \in 1 .. SYS_MAX_POW
        BY <2>1
      <3>3. inode' \in [Files -> Inodes]
        BY <3>1, <3>2 DEF TypeOK, Inodes, Fields
      <3> QED
        BY <2>7, <3>1, <3>2, <3>3 DEF rtc_write_raise, TypeOK
    <2> DEFINE LocType == loc' \in [Procs -> Locals] /\ pc' \in [Procs -> {"user", "slot", "freq", "ratio", "inode", "pos", "read", "cli"}]
    <2>8. NoLocals \in Locals
      BY DEF NoLocals, Locals, Fields
    <2>9. loc \in [Procs -> Locals] /\ loc[p] \in Locals
      BY DEF TypeOK, Locals
    <2>10. CASE update_slot(p)
      <3> DEFINE g == rtc_files[loc[p].i]
      <3>1. CASE g = NULL
        <4>1. loc' = [loc EXCEPT ![p].i = @ + 1] /\ loc[p].i < MAX_PROC_NUM /\ UNCHANGED pc
          BY <2>10, <3>1 DEF update_slot
        <4>2. LocType
          BY <2>9, <4>1 DEF Locals, TypeOK
        <4> QED
          BY <2>10, <4>2 DEF update_slot, TypeOK, fileVars, Locals
      <3>2. CASE g # NULL
        <4>1. /\ loc' = [loc EXCEPT ![p].file = g]
              /\ pc' = [pc EXCEPT ![p] = "freq"]
              /\ loc[p].i < MAX_PROC_NUM
          BY <2>10, <3>2 DEF update_slot
        <4>2. g \in Files
          BY <2>9, <3>2, <4>1 DEF TypeOK, Slots, Locals
        <4>3. LocType
          BY <2>9, <4>1, <4>2 DEF Locals, TypeOK
        <4> QED
          BY <2>10, <4>3 DEF update_slot, TypeOK, fileVars, Locals
      <3> QED
        BY <3>1, <3>2
    <2>11. CASE update_end(p)
      <3>1. LocType
        BY <2>8, <2>9, <2>11 DEF update_end, TypeOK
      <3> QED
        BY <2>11, <3>1 DEF update_end, TypeOK, fileVars, Locals
    <2>12. CASE update_freq(p)
      <3>1. loc[p].file \in Files
        BY <2>9, <2>12 DEF update_freq, IInv, UpdateInv, UpdateOK, Locals
      <3>2. inode[loc[p].file].freq \in Fields
        BY <3>1 DEF TypeOK, Inodes
      <3>3. LocType
        BY <2>9, <2>12, <3>2 DEF update_freq, TypeOK, Locals
      <3> QED
        BY <2>12, <3>3 DEF update_freq, TypeOK, fileVars, Locals
    <2>13. CASE update_ratio(p)
      <3>1. Ratio(sys_freq_pow, loc[p].freq) \in Fields
        BY <2>9, RatioFacts DEF TypeOK, Locals
      <3>2. LocType
        BY <2>9, <2>13, <3>1 DEF update_ratio, TypeOK, Locals
      <3> QED
        BY <2>13, <3>2 DEF update_ratio, TypeOK, fileVars, Locals
    <2>14. CASE update_inode(p)
      <3>1. loc[p].file \in Files
        BY <2>9, <2>14 DEF update_inode, IInv, UpdateInv, UpdateOK, Locals
      <3>2. Inode(loc[p].freq, loc[p].ratio, 0) \in Inodes
        BY <2>9 DEF Inode, Inodes, Locals
      <3> QED
        BY <2>14, <3>1, <3>2 DEF update_inode, TypeOK
    <2>15. CASE update_pos(p)
      <3>1. loc[p].file \in Files /\ loc[p].i < MAX_PROC_NUM
        BY <2>9, <2>15 DEF update_pos, IInv, UpdateInv, UpdateOK, Locals
      <3>2. Pow2[loc[p].ratio] \in 0 .. Pow2[MSK_5]
        BY <2>9, Pow2Bound DEF Locals, Fields
      <3>3. pos' \in [Files -> 0 .. Pow2[MSK_5]]
        BY <2>15, <3>1, <3>2 DEF update_pos, TypeOK
      <3>4. LocType
        BY <2>8, <2>9, <2>15, <3>1 DEF update_pos, TypeOK, Locals
      <3> QED
        BY <2>15, <3>3, <3>4 DEF update_pos, TypeOK, Locals
    <2>16. CASE rtc_read(p)
      <3>1. LocType
        BY <2>1, <2>9, <2>16 DEF rtc_read, TypeOK, Locals
      <3> QED
        BY <2>16, <3>1 DEF rtc_read, TypeOK, fileVars, Locals
    <2>17. CASE rtc_read_wake(p)
      <3>1. loc[p].file \in Files
        BY <2>1, <2>17 DEF rtc_read_wake, IInv, ReadInv
      <3>2. inode[loc[p].file].count \in 0 .. COUNT_MAX
        BY <3>1 DEF TypeOK, Inodes
      <3>3. LocType
        BY <2>9, <2>17, <3>2 DEF rtc_read_wake, TypeOK, Locals
      <3> QED
        BY <2>17, <3>3 DEF rtc_read_wake, TypeOK, fileVars, Locals
    <2>18. CASE rtc_read_done(p)
      <3>1. loc[p].file \in Files /\ loc[p].count - 1 \in 0 .. COUNT_MAX
        BY <2>1, <2>9, <2>18 DEF rtc_read_done, IInv, ReadInv, Locals
      <3>2. inode' \in [Files -> Inodes]
        BY <2>18, <3>1 DEF rtc_read_done, TypeOK, Inodes
      <3>3. credit' \in [Files -> 0 .. COUNT_MAX]
        BY <2>18, <3>1 DEF rtc_read_done, TypeOK
      <3>4. LocType
        BY <2>8, <2>9, <2>18 DEF rtc_read_done, TypeOK
      <3> QED
        BY <2>18, <3>2, <3>3, <3>4 DEF rtc_read_done, TypeOK, Locals
    <2> QED
      BY <1>3, <2>2, <2>3, <2>4, <2>5, <2>6, <2>7, <2>10, <2>11, <2>13, <2>14,
         <2>15, <2>16, <2>17, <2>18, <2>12 DEF ProcNext
  <1>4. CASE Stopped \/ UNCHANGED vars
    BY <1>4 DEF Stopped, vars, TypeOK
  <1> QED
    BY <1>2, <1>3, <1>4 DEF Next

----------------------------------------------------------------------------
(***************************************************************************)
(* The inductive invariant, one step per action.                           *)
(***************************************************************************)
LEMMA InvInit == Init => TypeOK /\ IInv
  <1> SUFFICES ASSUME Init PROVE TypeOK /\ IInv
    OBVIOUS
  <1>1. TypeOK
    <2>1. Inode(0, 0, 0) \in Inodes
      BY RtcAssumption DEF Inode, Inodes, Fields
    <2>2. NoLocals \in Locals
      BY RtcAssumption DEF NoLocals, Locals, Fields
    <2>3. 0 \in 0 .. Pow2[MSK_5]
      <3>1. MSK_5 \in Fields
        BY RtcAssumption DEF Fields
      <3>2. Pow2[MSK_5] \in Nat
        BY <3>1, Pow2Bound
      <3> QED
        BY <3>2
    <2>4. loc \in [Procs -> Locals] /\ inode \in [Files -> Inodes]
      BY <2>1, <2>2 DEF Init
    <2>5. pos \in [Files -> 0 .. Pow2[MSK_5]]
      BY <2>3 DEF Init
    <2>6. /\ rtc_files \in [Slots -> Files \cup {NULL}]
          /\ time_elasped \in [Slots -> 0 .. (COUNTER_MAX - 1)]
          /\ sys_freq_pow \in 1 .. SYS_MAX_POW
          /\ credit \in [Files -> 0 .. COUNT_MAX]
      BY RtcAssumption DEF Init
    <2>7. /\ kind \in [Files -> {"free", "reg", "rtc"}]
          /\ pc \in [Procs -> {"user", "slot", "freq", "ratio", "inode", "pos", "read", "cli"}]
          /\ hung \in BOOLEAN /\ everReg \subseteq Files
      BY DEF Init
    <2> QED
      BY <2>4, <2>5, <2>6, <2>7 DEF TypeOK, Locals
  <1>2. IInv
    BY DEF Init, IInv, UpdateInv, UpdateOK, ReadInv, StopInv, TableInv, FreqCovered,
           NoPhantomTick, OpenFiles
  <1> QED
    BY <1>1, <1>2

\* Two processes never wait on the same file, and no process waits on a file of
\* a process in user code.
LEMMA ReaderFacts ==
    ASSUME TypeOK, ReadInv, NEW p \in Procs, pc[p] \in {"read", "cli"}
    PROVE  /\ loc[p].file \in Owned(p) /\ loc[p].file \in Files
           /\ kind[loc[p].file] = "rtc"
           /\ \A q \in Procs : q # p => loc[p].file \notin Owned(q)
  BY OwnedFacts DEF ReadInv, OpenFiles

\* A step that leaves the slots and the kinds of the files alone keeps the table.
LEMMA TableStep ==
    ASSUME TableInv, StopInv, UNCHANGED <<rtc_files, kind, hung>>
    PROVE  TableInv' /\ StopInv'
  BY DEF TableInv, StopInv, OpenFiles, FreeSlots

\* reset_rtc_info leaves the file covered and counting, and others alone.
LEMMA ResetCovers ==
    ASSUME TypeOK, NEW f \in Files, NEW freq_pow \in 1 .. SYS_MAX_POW,
           freq_pow <= sys_freq_pow, reset_rtc_info(f, freq_pow), UNCHANGED sys_freq_pow
    PROVE  /\ Covered(f)' /\ inode'[f].ratio <= sys_freq_pow - 1
           /\ pos'[f] >= 1 /\ inode'[f].count = 0
           /\ \A g \in Files : g # f => inode'[g] = inode[g] /\ pos'[g] = pos[g]
           /\ \A g \in Files : Covered(g) => Covered(g)'
  <1>1. /\ Ratio(sys_freq_pow, freq_pow) = sys_freq_pow - freq_pow
        /\ Ratio(sys_freq_pow, freq_pow) \in Fields
    BY RtcAssumption, RatioFacts DEF TypeOK, Fields
  <1>2. Pow2[Ratio(sys_freq_pow, freq_pow)] >= 1
    BY <1>1, Pow2Bound
  <1>3. /\ inode'[f] = Inode(freq_pow, Ratio(sys_freq_pow, freq_pow), 0)
        /\ pos'[f] = Pow2[Ratio(sys_freq_pow, freq_pow)]
        /\ \A g \in Files : g # f => inode'[g] = inode[g] /\ pos'[g] = pos[g]
    BY DEF reset_rtc_info, TypeOK
  <1>4. sys_freq_pow \in Nat
    BY RtcAssumption DEF TypeOK
  <1>5. /\ inode'[f].freq = freq_pow /\ inode'[f].count = 0
        /\ inode'[f].ratio = Ratio(sys_freq_pow, freq_pow)
    BY <1>3 DEF Inode
  <1>6. Covered(f)' /\ inode'[f].ratio <= sys_freq_pow - 1
    BY <1>1, <1>4, <1>5 DEF Covered
  <1> QED
    BY <1>2, <1>3, <1>5, <1>6 DEF Covered

\* A step that keeps the covered frequencies of FILEs used for RTC files only
\* keeps what the updates hold in which it is not a step.
LEMMA UpdateStep ==
    ASSUME TypeOK, TypeOK', UpdateInv, NEW P \in SUBSET Procs,
           sys_freq_pow <= sys_freq_pow', everReg \subseteq everReg',
           \A f \in Files : f \notin everReg' /\ Covered(f) => Covered(f)',
           \A q \in P : pc'[q] \in {"freq", "ratio", "inode", "pos"} =>
               pc'[q] = pc[q] /\ loc'[q] = loc[q]
    PROVE  \A q \in P : UpdateOK(q)'
  <1> SUFFICES ASSUME NEW q \in P, pc'[q] \in {"freq", "ratio", "inode", "pos"}
               PROVE  UpdateOK(q)'
    BY DEF UpdateOK
  <1>1. pc'[q] = pc[q] /\ loc'[q] = loc[q] /\ q \in Procs
    OBVIOUS
  <1>2. loc[q].file \in Files \cup {NULL} /\ loc[q].freq \in Nat /\ loc[q].ratio \in Nat
    BY <1>1 DEF TypeOK, Fields
  <1>3. sys_freq_pow \in Nat /\ sys_freq_pow' \in Nat
    BY RtcAssumption DEF TypeOK
  <1>4. UpdateOK(q)
    BY <1>1 DEF UpdateInv
  <1> QED
    BY <1>1, <1>2, <1>3, <1>4 DEF UpdateOK, Covered

\* Every step of a call and every interrupt keeps the invariant.
LEMMA InvStep == TypeOK /\ IInv /\ [Next]_vars => IInv'
  <1> SUFFICES ASSUME TypeOK, IInv, [Next]_vars PROVE IInv'
    OBVIOUS
  <1> USE RtcAssumption
  <1>1. TypeOK'
    BY TypeStep
  <1>2. UpdateInv /\ ReadInv /\ StopInv /\ TableInv /\ FreqCovered /\ NoPhantomTick
    BY DEF IInv
  <1>3. sys_freq_pow \in Nat /\ sys_freq_pow <= sys_freq_pow
    BY DEF TypeOK
  <1>4. CASE rtc_isr
    <2>1. UpdateInv' /\ ReadInv'
      <3>1. UNCHANGED <<sys_freq_pow, pc, loc, everReg, kind>>
        BY <1>4 DEF rtc_isr, procVars
      <3>2. \A f \in Files : inode'[f].freq = inode[f].freq
        BY <1>4 DEF rtc_isr, Gained, TypeOK, Inodes
      <3>3. UpdateInv'
        BY <1>1, <1>2, <1>3, <3>1, <3>2, UpdateStep DEF UpdateInv, Covered
      <3> QED
        BY <1>2, <3>1, <3>3 DEF ReadInv, OpenFiles
    <2>2. TableInv' /\ StopInv'
      BY <1>2, <1>4, TableStep DEF rtc_isr
    <2>3. FreqCovered'
      <3> SUFFICES ASSUME NEW f \in Files, kind[f] = "rtc", f \notin everReg
                   PROVE  /\ 1 <= inode'[f].freq /\ inode'[f].freq <= sys_freq_pow
                          /\ inode'[f].ratio <= sys_freq_pow - 1
                          /\ pos'[f] >= 1
        BY <1>4 DEF FreqCovered, Covered, OpenFiles, rtc_isr
      <3>1. inode'[f].freq = inode[f].freq /\ inode'[f].ratio = inode[f].ratio
        BY <1>4 DEF rtc_isr, Gained, TypeOK, Inodes
      <3>2. pos[f] >= 1 /\ pos[f] \in Nat
        BY <1>2, Pow2Bound DEF FreqCovered, OpenFiles, TypeOK, Fields
      <3>3. pos'[f] >= 1
        <4>1. inode[f].ratio \in Fields
          BY DEF TypeOK, Inodes
        <4>2. Pow2[inode[f].ratio] >= 1
          BY <4>1, Pow2Bound
        <4>3. pos'[f] = IF f \in Expired THEN Pow2[inode[f].ratio]
                        ELSE IF f \in Counted THEN pos[f] - 1 ELSE pos[f]
          BY <1>4 DEF rtc_isr
        <4> QED
          BY <3>2, <4>2, <4>3 DEF Expired
      <3> QED
        BY <1>2, <3>1, <3>3 DEF FreqCovered, Covered, OpenFiles
    <2>4. NoPhantomTick'
      <3>1. \A f \in Files : credit'[f] >= credit[f]
        BY <1>4 DEF rtc_isr, CreditTicks, AtMost, TypeOK
      <3>2. \A f \in OpenFiles : inode'[f].count <= credit'[f]
        BY <1>2, <1>4 DEF rtc_isr, CreditTicks, Gained, AtMost, TypeOK, Inodes,
                          NoPhantomTick, OpenFiles
      <3>3. ASSUME NEW p \in Procs, pc[p] = "cli"
            PROVE  loc[p].count <= credit'[loc[p].file]
        <4>1. loc[p].file \in Files
          BY <1>2, <3>3, ReaderFacts
        <4>2. loc[p].count \in Nat /\ credit[loc[p].file] \in Nat /\ credit'[loc[p].file] \in Nat
          BY <1>1, <4>1 DEF TypeOK
        <4> QED
          BY <1>2, <3>1, <3>3, <4>1, <4>2 DEF NoPhantomTick
      <3> QED
        BY <1>4, <3>2, <3>3 DEF NoPhantomTick, rtc_isr, procVars, OpenFiles
    <2> QED
      BY <2>1, <2>2, <2>3, <2>4 DEF IInv
  <1>5. CASE Stopped \/ UNCHANGED vars
    BY <1>2, <1>5 DEF Stopped, vars, IInv, UpdateInv, UpdateOK, Covered, ReadInv,
                      StopInv, TableInv, FreqCovered, NoPhantomTick, OpenFiles, FreeSlots
  <1>6. ASSUME NEW p \in Procs, ProcNext(p) PROVE IInv'
    <2>1. Owned(p) \subseteq Files
      BY OwnedFacts
    <2>2. CASE rtc_open(p)
      <3>1. PICK f \in LowestFd(p), i \in LowestSlot :
              /\ reset_rtc_info(f, DefPow)
              /\ kind' = [kind EXCEPT ![f] = "rtc"]
              /\ rtc_files' = [rtc_files EXCEPT ![i] = f]
              /\ credit' = [credit EXCEPT ![f] = 0]
        BY <2>2 DEF rtc_open
      <3>2. /\ f \in Owned(p) /\ f \in Files /\ kind[f] = "free" /\ f # NULL
            /\ i \in Slots /\ rtc_files[i] = NULL
        BY <2>1, NullAssumption DEF LowestFd, LowestSlot, FreeSlots
      <3>3. UNCHANGED <<sys_freq_pow, pc, loc, hung, everReg>> /\ ~hung /\ pc[p] = "user"
        BY <2>2 DEF rtc_open, procVars
      <3>4. /\ \A g \in Files : kind'[g] = IF g = f THEN "rtc" ELSE kind[g]
            /\ \A g \in Files : credit'[g] = IF g = f THEN 0 ELSE credit[g]
            /\ \A j \in Slots : rtc_files'[j] = IF j = i THEN f ELSE rtc_files[j]
        BY <3>1, <3>2 DEF TypeOK
      <3>5. \A q \in Procs : pc[q] \in {"read", "cli"} => loc[q].file # f
        BY <1>2, <3>2, ReaderFacts
      <3>6. UpdateInv'
        <4>1. \A g \in Files : Covered(g) => Covered(g)'
          BY <1>3, <3>1, <3>2, <3>3, ResetCovers DEF DefPow, TypeOK
        <4> QED
          BY <1>1, <1>2, <1>3, <3>3, <4>1, UpdateStep DEF UpdateInv
      <3>7. ReadInv'
        BY <1>2, <3>3, <3>4 DEF ReadInv, OpenFiles
      <3>8. StopInv'
        BY <3>3 DEF StopInv
      <3>9. TableInv'
        <4>1. \A j \in Slots : rtc_files[j] # f
          BY <1>2, <3>2 DEF TableInv
        <4>2. \A j \in Slots : rtc_files[j] # NULL => rtc_files[j] \in Files
          BY DEF TypeOK
        <4>3. \A j \in Slots : rtc_files'[j] # NULL => kind'[rtc_files'[j]] = "rtc"
          BY <1>2, <3>2, <3>4, <4>1, <4>2 DEF TableInv
        <4>4. ASSUME NEW g \in OpenFiles' PROVE \E j \in Slots : rtc_files'[j] = g
          <5>1. CASE g = f
            BY <3>2, <3>4, <5>1
          <5>2. CASE g # f
            <6>1. g \in OpenFiles /\ g # NULL
              BY <3>4, <4>4, <5>2, NullAssumption DEF OpenFiles
            <6>2. PICK j \in Slots : rtc_files[j] = g
              BY <1>2, <6>1 DEF TableInv
            <6> QED
              BY <3>2, <3>4, <6>1, <6>2
          <5> QED
            BY <5>1, <5>2
        <4>5. \A j, k \in Slots :
                rtc_files'[j] = rtc_files'[k] /\ rtc_files'[j] # NULL => j = k
          BY <1>2, <3>2, <3>4, <4>1 DEF TableInv
        <4> QED
          BY <4>3, <4>4, <4>5 DEF TableInv
      <3>10. FreqCovered'
        BY <1>2, <1>3, <3>1, <3>2, <3>3, <3>4, ResetCovers
        DEF FreqCovered, Covered, OpenFiles, DefPow, TypeOK
      <3>11. NoPhantomTick'
        BY <1>2, <3>1, <3>2, <3>3, <3>4, <3>5, ReaderFacts
        DEF NoPhantomTick, OpenFiles, reset_rtc_info, Inode, TypeOK, Inodes
      <3> QED
        BY <3>6, <3>7, <3>8, <3>9, <3>10, <3>11 DEF IInv
    <2>3. CASE rtc_open_full(p)
      <3>1. PICK f \in LowestFd(p) : reset_rtc_info(f, DefPow)
        BY <2>3 DEF rtc_open_full
      <3>2. f \in Files /\ kind[f] = "free"
        BY <2>1 DEF LowestFd
      <3>3. /\ UNCHANGED <<rtc_files, kind, sys_freq_pow, pc, loc, credit, everReg>>
            /\ FreeSlots = {}
        BY <2>3 DEF rtc_open_full, procVars
      <3>4. \A g \in Files : Covered(g) => Covered(g)'
        BY <1>3, <3>1, <3>2, <3>3, ResetCovers DEF DefPow, TypeOK
      <3>5. UpdateInv'
        BY <1>1, <1>2, <1>3, <3>3, <3>4, UpdateStep DEF UpdateInv
      <3>6. UpdateInv' /\ ReadInv'
        BY <1>2, <3>3, <3>5 DEF ReadInv, OpenFiles
      <3>7. StopInv' /\ TableInv'
        BY <1>2, <3>3 DEF StopInv, TableInv, OpenFiles, FreeSlots
      <3>8. FreqCovered' /\ NoPhantomTick'
        BY <1>2, <3>1, <3>2, <3>3
        DEF FreqCovered, Covered, NoPhantomTick, OpenFiles, reset_rtc_info, TypeOK
      <3> QED
        BY <3>6, <3>7, <3>8 DEF IInv
    <2>4. CASE fs_open(p)
      <3>1. PICK f \in LowestFd(p), n \in RegInodes :
              /\ kind' = [kind EXCEPT ![f] = "reg"]
              /\ inode' = [inode EXCEPT ![f] = n]
              /\ pos' = [pos EXCEPT ![f] = 0]
              /\ everReg' = everReg \cup {f}
        BY <2>4 DEF fs_open
      <3>2. f \in Files /\ kind[f] = "free"
        BY <2>1 DEF LowestFd
      <3>3. UNCHANGED <<rtc_files, sys_freq_pow, pc, loc, hung, credit>> /\ ~hung
        BY <2>4 DEF fs_open, procVars
      <3>4. \A g \in Files : (kind'[g] = "rtc") <=> (kind[g] = "rtc")
        BY <3>1, <3>2 DEF TypeOK
      <3>5. UpdateInv' /\ ReadInv'
        <4>1. \A g \in Files : g \notin everReg' /\ Covered(g) => Covered(g)'
          BY <3>1, <3>2, <3>3 DEF Covered, TypeOK
        <4>2. UpdateInv'
          BY <1>1, <1>2, <1>3, <3>1, <3>3, <4>1, UpdateStep DEF UpdateInv
        <4> QED
          BY <1>2, <3>3, <3>4, <4>2 DEF ReadInv, OpenFiles
      <3>6. StopInv' /\ TableInv'
        BY <1>2, <3>3, <3>4 DEF StopInv, TableInv, OpenFiles, TypeOK
      <3>7. FreqCovered' /\ NoPhantomTick'
        BY <1>2, <3>1, <3>2, <3>3, <3>4
        DEF FreqCovered, Covered, NoPhantomTick, OpenFiles, TypeOK
      <3> QED
        BY <3>5, <3>6, <3>7 DEF IInv
    <2>5. CASE syscall_close(p) \/ Halt(p)
      <3>1. PICK F \in SUBSET Owned(p) : CloseFiles(F)
        BY <2>5 DEF syscall_close, Halt
      <3>2. UNCHANGED <<inode, pos, sys_freq_pow, pc, loc, hung, credit, everReg>>
            /\ ~hung /\ pc[p] = "user"
        BY <2>5 DEF syscall_close, Halt, procVars
      <3>3. /\ \A g \in Files : kind'[g] = IF g \in F THEN "free" ELSE kind[g]
            /\ \A j \in Slots : rtc_files'[j] = IF rtc_files[j] \in F THEN NULL
                                                 ELSE rtc_files[j]
        BY <3>1 DEF CloseFiles
      <3>4. \A q \in Procs : pc[q] \in {"read", "cli"} => loc[q].file \notin F
        BY <1>2, <3>2, ReaderFacts
      <3>5. UpdateInv' /\ ReadInv'
        BY <1>2, <3>2, <3>3, <3>4 DEF UpdateInv, UpdateOK, Covered, ReadInv, OpenFiles
      <3>6. NULL \notin F /\ F \subseteq Files
        BY <2>1, NullAssumption
      <3>7. StopInv'
        BY <3>2 DEF StopInv
      <3>8. \A i \in Slots : rtc_files'[i] # NULL => kind'[rtc_files'[i]] = "rtc"
        BY <1>2, <3>3 DEF TableInv, TypeOK
      <3>9. \A f \in OpenFiles' : \E i \in Slots : rtc_files'[i] = f
        BY <1>2, <3>3 DEF TableInv, OpenFiles
      <3>10. \A i, j \in Slots :
               rtc_files'[i] = rtc_files'[j] /\ rtc_files'[i] # NULL => i = j
        BY <1>2, <3>3, <3>6 DEF TableInv
      <3>11. StopInv' /\ TableInv'
        BY <3>7, <3>8, <3>9, <3>10 DEF TableInv
      <3>12. FreqCovered' /\ NoPhantomTick'
        BY <1>2, <3>2, <3>3 DEF FreqCovered, Covered, NoPhantomTick, OpenFiles
      <3> QED
        BY <3>5, <3>11, <3>12 DEF IInv
    <2>6. CASE rtc_write_low(p)
      <3>1. PICK f \in Owned(p) \cap OpenFiles, freq_pow \in 1 .. USER_MAX_POW :
              freq_pow <= sys_freq_pow /\ reset_rtc_info(f, freq_pow)
        BY <2>6 DEF rtc_write_low
      <3>2. UNCHANGED <<rtc_files, kind, sys_freq_pow, pc, loc, hung, credit, everReg>>
        BY <2>6 DEF rtc_write_low, procVars
      <3>3. f \in Files /\ freq_pow \in 1 .. SYS_MAX_POW
        BY <2>1
      <3>4. \A g \in Files : Covered(g) => Covered(g)'
        BY <3>1, <3>2, <3>3, ResetCovers
      <3>5. UpdateInv'
        BY <1>1, <1>2, <1>3, <3>2, <3>4, UpdateStep DEF UpdateInv
      <3>6. UpdateInv' /\ ReadInv'
        BY <1>2, <3>2, <3>5 DEF ReadInv, OpenFiles
      <3>7. StopInv' /\ TableInv'
        BY <1>2, <3>2, TableStep
      <3>8. FreqCovered'
        BY <1>2, <3>1, <3>2, <3>3, ResetCovers DEF FreqCovered, Covered, OpenFiles
      <3>9. NoPhantomTick'
        BY <1>2, <3>1, <3>2, <3>3
        DEF NoPhantomTick, OpenFiles, reset_rtc_info, Inode, TypeOK, Inodes
      <3> QED
        BY <3>6, <3>7, <3>8, <3>9 DEF IInv
    <2>7. CASE rtc_write_raise(p)
      <3>1. PICK f \in Owned(p) \cap OpenFiles, freq_pow \in 1 .. USER_MAX_POW :
              /\ freq_pow > sys_freq_pow
              /\ inode' = [inode EXCEPT ![f].freq = freq_pow]
              /\ sys_freq_pow' = freq_pow
        BY <2>7 DEF rtc_write_raise
      <3>2. /\ UNCHANGED <<rtc_files, kind, pos, loc, hung, credit, everReg>>
            /\ pc' = [pc EXCEPT ![p] = "slot"]
        BY <2>7 DEF rtc_write_raise
      <3>3. f \in Files
        BY <2>1
      <3>4. freq_pow \in Nat /\ \A g \in Files : inode[g].freq \in Nat
        BY DEF TypeOK, Inodes, Fields
      <3>5. /\ \A g \in Files : g # f => inode'[g] = inode[g]
             /\ inode'[f].freq = freq_pow /\ inode'[f].ratio = inode[f].ratio
        BY <3>1, <3>3 DEF TypeOK, Inodes
      <3>6. \A g \in Files : Covered(g) => Covered(g)'
        BY <1>3, <3>1, <3>4, <3>5 DEF Covered
      <3>7. UpdateInv'
        <4>1. \A q \in Procs : pc'[q] \in {"freq", "ratio", "inode", "pos"} =>
                pc'[q] = pc[q] /\ loc'[q] = loc[q]
          BY <3>2 DEF TypeOK
        <4> QED
          BY <1>1, <1>2, <1>3, <3>1, <3>2, <3>4, <3>6, <4>1, UpdateStep DEF UpdateInv
      <3>8. ReadInv'
        BY <1>2, <3>2 DEF ReadInv, OpenFiles, TypeOK
      <3>9. StopInv' /\ TableInv'
        BY <1>2, <3>2, TableStep
      <3>10. FreqCovered'
        <4>1. \A g \in Files : inode[g].ratio \in Nat
          BY DEF TypeOK, Inodes, Fields
        <4> QED
          BY <1>2, <1>3, <3>1, <3>2, <3>3, <3>4, <3>5, <4>1
          DEF FreqCovered, Covered, OpenFiles
      <3>11. NoPhantomTick'
        BY <1>2, <3>1, <3>2, <3>3 DEF NoPhantomTick, OpenFiles, TypeOK, Inodes
      <3> QED
        BY <3>7, <3>8, <3>9, <3>10, <3>11 DEF IInv
    <2>8. ASSUME UNCHANGED <<rtc_files, fileVars, sys_freq_pow, hung, credit, everReg>>
          PROVE  StopInv' /\ TableInv' /\ FreqCovered'
                 /\ \A f \in OpenFiles' : inode'[f].count <= credit'[f]
      BY <1>2, <2>8, TableStep DEF FreqCovered, Covered, NoPhantomTick, OpenFiles, fileVars
    <2>9. ASSUME UNCHANGED <<rtc_files, fileVars, sys_freq_pow, hung, credit, everReg>>,
                  \A q \in Procs \ {p} : pc'[q] = pc[q] /\ loc'[q] = loc[q],
                  UpdateOK(p)'
           PROVE  UpdateInv'
      <3>1. \A f \in Files : Covered(f) => Covered(f)'
        BY <2>9 DEF Covered, fileVars
      <3>2. \A q \in Procs \ {p} : UpdateOK(q)'
        BY <1>1, <1>2, <1>3, <2>9, <3>1, UpdateStep
      <3> QED
        BY <2>9, <3>2 DEF UpdateInv
    <2>10. UpdateOK(p) /\ loc[p].i \in Nat /\ loc[p].freq \in Nat /\ loc[p].ratio \in Nat
      BY <1>2 DEF UpdateInv, TypeOK, Fields
    <2>11. CASE update_slot(p)
      <3> DEFINE g == rtc_files[loc[p].i]
      <3>1. UNCHANGED <<rtc_files, fileVars, sys_freq_pow, hung, credit, everReg>>
            /\ loc[p].i < MAX_PROC_NUM /\ loc[p].i \in Slots /\ pc[p] = "slot"
        BY <2>11 DEF update_slot, TypeOK, Slots
      <3>2. CASE g = NULL
        <4>1. loc' = [loc EXCEPT ![p].i = @ + 1] /\ UNCHANGED pc
          BY <2>11, <3>2 DEF update_slot
        <4>2. UpdateOK(p)'
          BY <3>1, <4>1 DEF UpdateOK
        <4>3. UpdateInv'
          BY <2>9, <3>1, <4>1, <4>2 DEF TypeOK
        <4>4. ReadInv' /\ NoPhantomTick'
          BY <1>2, <2>8, <3>1, <4>1 DEF ReadInv, NoPhantomTick, OpenFiles, TypeOK, fileVars
        <4> QED
          BY <2>8, <3>1, <4>3, <4>4 DEF IInv
      <3>3. CASE g # NULL
        <4>1. /\ loc' = [loc EXCEPT ![p].file = g]
              /\ pc' = [pc EXCEPT ![p] = "freq"]
          BY <2>11, <3>3 DEF update_slot
        <4>2. g \in OpenFiles
          BY <1>2, <3>1, <3>3 DEF TableInv, OpenFiles, TypeOK
        <4>3. g \notin everReg => Covered(g)
          BY <1>2, <4>2 DEF FreqCovered
        <4>4. pc'[p] = "freq" /\ loc'[p].file = g /\ loc'[p].i = loc[p].i
          BY <4>1 DEF TypeOK
        <4>5. UpdateOK(p)'
          BY <3>1, <3>3, <4>3, <4>4 DEF UpdateOK, Covered, fileVars
        <4>6. UpdateInv'
          BY <2>9, <3>1, <4>1, <4>5 DEF TypeOK
        <4>7. ReadInv' /\ NoPhantomTick'
          BY <1>2, <2>8, <3>1, <4>1 DEF ReadInv, NoPhantomTick, OpenFiles, TypeOK, fileVars
        <4> QED
          BY <2>8, <3>1, <4>6, <4>7 DEF IInv
      <3> QED
        BY <3>2, <3>3
    <2>12. CASE update_end(p)
      <3>1. UNCHANGED <<rtc_files, fileVars, sys_freq_pow, hung, credit, everReg>>
        BY <2>12 DEF update_end
      <3>2. pc' = [pc EXCEPT ![p] = "user"] /\ loc' = [loc EXCEPT ![p] = NoLocals]
        BY <2>12 DEF update_end
      <3>3. UpdateOK(p)'
        BY <3>2 DEF UpdateOK, TypeOK
      <3>4. UpdateInv'
        BY <2>9, <3>1, <3>2, <3>3 DEF TypeOK
      <3>5. ReadInv' /\ NoPhantomTick'
        BY <1>2, <2>8, <3>1, <3>2 DEF ReadInv, NoPhantomTick, OpenFiles, TypeOK, fileVars
      <3> QED
        BY <2>8, <3>1, <3>4, <3>5 DEF IInv
    <2>13. CASE update_freq(p)
      <3> DEFINE f == loc[p].file
      <3>1. UNCHANGED <<rtc_files, fileVars, sys_freq_pow, hung, credit, everReg>>
        BY <2>13 DEF update_freq
      <3>2. /\ pc' = [pc EXCEPT ![p] = "ratio"] /\ pc[p] = "freq"
            /\ loc' = [loc EXCEPT ![p].freq = inode[f].freq]
        BY <2>13 DEF update_freq
      <3>3. /\ pc'[p] = "ratio" /\ loc'[p].i = loc[p].i /\ loc'[p].file = f
            /\ loc'[p].freq = inode[f].freq
        BY <3>2 DEF TypeOK
      <3>4. UpdateOK(p)'
        BY <2>10, <3>1, <3>2, <3>3 DEF UpdateOK, Covered
      <3>5. UpdateInv'
        BY <2>9, <3>1, <3>2, <3>4 DEF TypeOK
      <3>6. ReadInv' /\ NoPhantomTick'
        BY <1>2, <2>8, <3>1, <3>2 DEF ReadInv, NoPhantomTick, OpenFiles, TypeOK, fileVars
      <3> QED
        BY <2>8, <3>1, <3>5, <3>6 DEF IInv
    <2>14. CASE update_ratio(p)
      <3> DEFINE f == loc[p].file
                 q == Ratio(sys_freq_pow, loc[p].freq)
      <3>1. UNCHANGED <<rtc_files, fileVars, sys_freq_pow, hung, credit, everReg>>
        BY <2>14 DEF update_ratio
      <3>2. /\ pc' = [pc EXCEPT ![p] = "inode"] /\ pc[p] = "ratio"
            /\ loc' = [loc EXCEPT ![p].ratio = q]
        BY <2>14 DEF update_ratio
      <3>3. /\ pc'[p] = "inode" /\ loc'[p].i = loc[p].i /\ loc'[p].file = f
            /\ loc'[p].freq = loc[p].freq /\ loc'[p].ratio = q
        BY <3>2 DEF TypeOK
      <3>4. loc[p].freq <= sys_freq_pow => q = sys_freq_pow - loc[p].freq
        BY RatioFacts DEF TypeOK
      <3>5. UpdateOK(p)'
        <4> HIDE DEF q
        <4> QED
          BY <1>3, <2>10, <3>1, <3>2, <3>3, <3>4 DEF UpdateOK
      <3>6. UpdateInv'
        BY <2>9, <3>1, <3>2, <3>5 DEF TypeOK
      <3>7. ReadInv' /\ NoPhantomTick'
        BY <1>2, <2>8, <3>1, <3>2 DEF ReadInv, NoPhantomTick, OpenFiles, TypeOK, fileVars
      <3> QED
        BY <2>8, <3>1, <3>6, <3>7 DEF IInv
    <2>15. CASE update_inode(p)
      <3> DEFINE f == loc[p].file
      <3>1. /\ UNCHANGED <<rtc_files, kind, pos, sys_freq_pow, loc, hung, credit, everReg>>
            /\ inode' = [inode EXCEPT ![f] = Inode(loc[p].freq, loc[p].ratio, 0)]
            /\ pc' = [pc EXCEPT ![p] = "pos"] /\ pc[p] = "inode"
        BY <2>15 DEF update_inode
      <3>2. /\ f \in Files
            /\ f \notin everReg => /\ 1 <= loc[p].freq /\ loc[p].freq <= sys_freq_pow
                                   /\ loc[p].ratio <= sys_freq_pow - 1
        BY <2>10, <3>1 DEF UpdateOK, TypeOK
      <3>3. /\ \A g \in Files : g # f => inode'[g] = inode[g]
            /\ inode'[f].freq = loc[p].freq /\ inode'[f].ratio = loc[p].ratio
            /\ inode'[f].count = 0
        BY <3>1, <3>2 DEF TypeOK, Inode
      <3>4. \A g \in Files : g \notin everReg' /\ Covered(g) => Covered(g)'
        BY <3>1, <3>2, <3>3 DEF Covered
      <3>5. \A q \in Procs \ {p} : UpdateOK(q)'
        <4>1. \A q \in Procs \ {p} : pc'[q] = pc[q] /\ loc'[q] = loc[q]
          BY <3>1 DEF TypeOK
        <4> QED
          BY <1>1, <1>2, <1>3, <3>1, <3>4, <4>1, UpdateStep
      <3>6. UpdateOK(p)'
        BY <2>10, <3>1 DEF UpdateOK, TypeOK
      <3>7. UpdateInv' /\ ReadInv'
        BY <1>2, <3>1, <3>5, <3>6 DEF UpdateInv, ReadInv, OpenFiles, TypeOK
      <3>8. StopInv' /\ TableInv'
        BY <1>2, <3>1, TableStep
      <3>9. FreqCovered'
        BY <1>2, <3>1, <3>2, <3>3 DEF FreqCovered, Covered, OpenFiles
      <3>10. NoPhantomTick'
        BY <1>2, <3>1, <3>2, <3>3 DEF NoPhantomTick, OpenFiles, TypeOK
      <3> QED
        BY <3>7, <3>8, <3>9, <3>10 DEF IInv
    <2>16. CASE update_pos(p)
      <3>1. /\ UNCHANGED <<rtc_files, kind, inode, sys_freq_pow, hung, credit, everReg>>
            /\ pos' = [pos EXCEPT ![loc[p].file] = Pow2[loc[p].ratio]]
            /\ loc' = [loc EXCEPT ![p] = [NoLocals EXCEPT !.i = loc[p].i + 1]]
            /\ pc' = [pc EXCEPT ![p] = "slot"]
        BY <2>16 DEF update_pos
      <3>2. Pow2[loc[p].ratio] >= 1
        BY Pow2Bound DEF TypeOK
      <3>3. \A q \in Procs : pc'[q] \in {"freq", "ratio", "inode", "pos"} =>
              pc'[q] = pc[q] /\ loc'[q] = loc[q]
        BY <3>1 DEF TypeOK
      <3>4. UpdateInv'
        BY <1>1, <1>2, <1>3, <3>1, <3>3, UpdateStep DEF UpdateInv, Covered
      <3>5. ReadInv'
        BY <1>2, <3>1 DEF ReadInv, OpenFiles, TypeOK
      <3>6. StopInv' /\ TableInv'
        BY <1>2, <3>1, TableStep
      <3>7. FreqCovered'
        BY <1>2, <3>1, <3>2 DEF FreqCovered, Covered, OpenFiles, TypeOK
      <3>8. NoPhantomTick'
        BY <1>2, <3>1 DEF NoPhantomTick, OpenFiles, TypeOK
      <3> QED
        BY <3>4, <3>5, <3>6, <3>7, <3>8 DEF IInv
    <2>17. CASE rtc_read(p)
      <3>1. UNCHANGED <<rtc_files, fileVars, sys_freq_pow, hung, credit, everReg>>
        BY <2>17 DEF rtc_read
      <3>2. pc'[p] = "read" /\ \A q \in Procs \ {p} : pc'[q] = pc[q] /\ loc'[q] = loc[q]
        BY <2>17 DEF rtc_read, TypeOK
      <3>3. UpdateInv'
        BY <2>9, <3>1, <3>2 DEF UpdateOK
      <3>4. ReadInv' /\ NoPhantomTick'
        BY <1>2, <2>8, <2>17, <3>1
        DEF rtc_read, ReadInv, NoPhantomTick, OpenFiles, TypeOK, fileVars
      <3> QED
        BY <2>8, <3>1, <3>3, <3>4 DEF IInv
    <2>18. CASE rtc_read_wake(p)
      <3>1. UNCHANGED <<rtc_files, fileVars, sys_freq_pow, hung, credit, everReg>>
        BY <2>18 DEF rtc_read_wake
      <3>2. loc[p].file \in Files /\ kind[loc[p].file] = "rtc"
        BY <1>2, <2>18, ReaderFacts DEF rtc_read_wake
      <3>3. inode[loc[p].file].count \in Nat /\ inode[loc[p].file].count <= credit[loc[p].file]
        BY <1>2, <3>2 DEF NoPhantomTick, OpenFiles, TypeOK, Inodes
      <3>4. pc'[p] = "cli" /\ \A q \in Procs \ {p} : pc'[q] = pc[q] /\ loc'[q] = loc[q]
        BY <2>18 DEF rtc_read_wake, TypeOK
      <3>5. UpdateInv'
        BY <2>9, <3>1, <3>4 DEF UpdateOK
      <3>6. ReadInv' /\ NoPhantomTick'
        BY <1>2, <2>8, <2>18, <3>1, <3>3
        DEF rtc_read_wake, ReadInv, NoPhantomTick, OpenFiles, TypeOK, fileVars
      <3> QED
        BY <2>8, <3>1, <3>5, <3>6 DEF IInv
    <2>19. CASE rtc_read_done(p)
      <3> DEFINE f == loc[p].file
      <3>1. /\ UNCHANGED <<rtc_files, kind, pos, sys_freq_pow, hung, everReg>>
            /\ inode' = [inode EXCEPT ![f].count = loc[p].count - 1]
            /\ credit' = [credit EXCEPT ![f] = IF @ > 0 THEN @ - 1 ELSE 0]
            /\ loc' = [loc EXCEPT ![p] = NoLocals]
            /\ pc' = [pc EXCEPT ![p] = "user"] /\ pc[p] = "cli"
        BY <2>19 DEF rtc_read_done
      <3>2. f \in Files /\ \A q \in Procs : q # p /\ pc[q] = "cli" => loc[q].file # f
        BY <1>2, <3>1, ReaderFacts
      <3>3. loc[p].count \in Nat /\ 1 <= loc[p].count /\ loc[p].count <= credit[f]
        BY <1>2, <3>1 DEF ReadInv, NoPhantomTick, TypeOK
      <3>4. \A g \in Files : inode'[g].freq = inode[g].freq /\ inode'[g].ratio = inode[g].ratio
        BY <3>1, <3>2 DEF TypeOK, Inodes
      <3>5. \A q \in Procs : pc'[q] \in {"freq", "ratio", "inode", "pos"} =>
              pc'[q] = pc[q] /\ loc'[q] = loc[q]
        BY <3>1 DEF TypeOK
      <3>6. UpdateInv'
        BY <1>1, <1>2, <1>3, <3>1, <3>4, <3>5, UpdateStep DEF UpdateInv, Covered
      <3>7. UpdateInv' /\ ReadInv'
        BY <1>2, <3>1, <3>6 DEF ReadInv, OpenFiles, TypeOK
      <3>8. StopInv' /\ TableInv'
        BY <1>2, <3>1, TableStep
      <3>9. FreqCovered'
        BY <1>2, <3>1, <3>4 DEF FreqCovered, Covered, OpenFiles
      <3>10. NoPhantomTick'
        BY <1>2, <3>1, <3>2, <3>3, ReaderFacts DEF NoPhantomTick, OpenFiles, TypeOK, Inodes
      <3> QED
        BY <3>7, <3>8, <3>9, <3>10 DEF IInv
    <2> QED
      BY <1>6, <2>2, <2>3, <2>4, <2>5, <2>6, <2>7, <2>11, <2>12, <2>14, <2>15,
         <2>16, <2>17, <2>18, <2>19, <2>13 DEF ProcNext
  <1> QED
    BY <1>4, <1>5, <1>6 DEF Next

\* The inductive invariant.
LEMMA InvAlways == Spec => [](TypeOK /\ IInv)
  <1>1. Init => TypeOK /\ IInv
    BY InvInit
  <1>2. (TypeOK /\ IInv) /\ [Next]_vars => (TypeOK /\ IInv)'
    BY TypeStep, InvStep
  <1> QED
    BY <1>1, <1>2, PTL DEF Spec

----------------------------------------------------------------------------
(***************************************************************************)
(* The theorems.                                                           *)
(***************************************************************************)
\* Every variable of the driver keeps its type, for any number of processes,
\* descriptors and slots and any inode numbers of regular files: the pending
\* ticks of a file stay under their cap, a preempted update never stores
\* through an empty slot, and the masked frequency and ratio stay in their bits,
\* also where the frequency read was a regular file's inode number.
THEOREM RtcTypeCorrect == Spec => []TypeOK
  BY InvAlways, PTL

\* A table without a free slot holds MAX_PROC_NUM different files.
LEMMA FullTable ==
    ASSUME TypeOK, TableInv, FreeSlots = {}
    PROVE  Cardinality(OpenFiles) = MAX_PROC_NUM
  <1>1. \A i \in Slots : rtc_files[i] # NULL
    BY DEF FreeSlots
  <1>2. \A i \in Slots : rtc_files[i] \in OpenFiles
    BY <1>1 DEF TypeOK, TableInv, OpenFiles
  <1>3. rtc_files \in Bijection(Slots, OpenFiles)
    <2>1. rtc_files \in [Slots -> OpenFiles]
      BY <1>2 DEF TypeOK
    <2>2. \A i, j \in Slots : rtc_files[i] = rtc_files[j] => i = j
      BY <1>1 DEF TableInv
    <2>3. \A f \in OpenFiles : \E i \in Slots : rtc_files[i] = f
      BY DEF TableInv
    <2> QED
      BY <2>1, <2>2, <2>3 DEF Bijection, Injection, Surjection, IsInjective
  <1>4. IsFiniteSet(Slots) /\ Cardinality(Slots) = MAX_PROC_NUM
    <2>1. 0 \in Int /\ MAX_PROC_NUM - 1 \in Int /\ 0 <= MAX_PROC_NUM - 1
      BY RtcAssumption
    <2> QED
      BY <2>1, RtcAssumption, FS_Interval DEF Slots
  <1>5. ExistsBijection(Slots, OpenFiles)
    BY <1>3 DEF ExistsBijection
  <1> QED
    BY <1>4, <1>5, FS_Bijection

\* rtc_files lists exactly the open RTC files and the machine stops in rtc_open
\* only with MAX_PROC_NUM of them open.
THEOREM SlotsNeverLeak == Spec => []SlotsMatch
  <1>1. TypeOK /\ IInv => SlotsMatch
    BY FullTable DEF IInv, SlotsMatch, StopInv
  <1> QED
    BY <1>1, InvAlways, PTL

\* The system frequency covers the frequency of every open RTC file in a FILE
\* that was never a regular file's, also while rtc_set_pi_freq recomputes the
\* files with interrupts enabled and FILEs are closed and reopened meanwhile.
THEOREM FrequenciesCovered == Spec => []FreqCovered
  <1>1. IInv => FreqCovered
    BY DEF IInv
  <1> QED
    BY <1>1, InvAlways, PTL

\* rtc_read returns only for ticks that happened and that no earlier read of
\* the file has consumed.
THEOREM ReadsRealTicks == Spec => []NoPhantomTick
  <1>1. IInv => NoPhantomTick
    BY DEF IInv
  <1> QED
    BY <1>1, InvAlways, PTL
=============================================================================
