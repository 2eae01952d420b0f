-------------------------------- MODULE Rtc --------------------------------
(***************************************************************************)
(* The virtualised real-time clock (rtc.c) as several processes use it:    *)
(* one hardware clock, a table of open RTC files, and per file a countdown *)
(* (FILE.pos) and the fields freq, ratio and count packed into FILE.inode. *)
(*                                                                         *)
(* A system call runs with interrupts off except in two places, where a    *)
(* tick may switch to another process and an RTC interrupt may come: the   *)
(* wait loop of rtc_read up to its cli(), and everything rtc_set_pi_freq   *)
(* does after its sti(), the loop that recomputes the open files.  Those   *)
(* are cut into steps; each process has a program counter and the local    *)
(* variables of the call it is in.  The rest of a call is one step.        *)
(*                                                                         *)
(* Frequencies are powers of two and are represented by their exponent.    *)
(***************************************************************************)
EXTENDS Naturals, FiniteSets

CONSTANTS
    Procs,          \* processes
    FDS,            \* descriptors of a process that can hold an RTC file
    MAX_PROC_NUM,   \* size of rtc_files
    USER_MAX_POW,   \* RTC_USER_MAX_FREQ, as an exponent
    SYS_MAX_POW,    \* RTC_SYS_MAX_FREQ, as an exponent
    MSK_5,          \* largest value of the freq and ratio fields of an inode
    RegInodes,      \* inode numbers of regular files, read as such fields
    COUNT_MAX,      \* limit of the count field
    COUNTER_MAX,    \* SYS_COUNTER_MAX
    NULL

ASSUME RtcAssumption ==
    /\ FDS \in Nat /\ MAX_PROC_NUM \in Nat \ {0}
    /\ USER_MAX_POW \in Nat \ {0} /\ SYS_MAX_POW \in Nat
    /\ USER_MAX_POW <= SYS_MAX_POW
    /\ MSK_5 \in Nat /\ SYS_MAX_POW <= MSK_5
    /\ COUNT_MAX \in Nat \ {0} /\ COUNTER_MAX \in Nat \ {0}

Files == Procs \X (1 .. FDS)
Slots == 0 .. (MAX_PROC_NUM - 1)
DefPow == 1                     \* RTC_USER_DEF_FREQ = 2 Hz

ASSUME NullAssumption == NULL \notin Files

\* What the fields can hold, and 1 << n for a field n.  (1 << 31 is negative,
\* but the first decrement wraps it to 2^31 - 1, so it counts like 2^31.)
Fields == 0 .. MSK_5
Pow2[n \in Fields] == IF n = 0 THEN 1 ELSE 2 * Pow2[n - 1]

Inode(freq, ratio, count) == [freq |-> freq, ratio |-> ratio, count |-> count]

\* A file system has fewer than 2^10 inodes, so their numbers have no count.
ASSUME RegInodesAssumption == RegInodes \subseteq [freq : Fields, ratio : Fields, count : {0}]

\* The ratio field for a frequency: the difference of the exponents, masked.
Ratio(sys_pow, freq_pow) == (sys_pow - freq_pow) % (MSK_5 + 1)

VARIABLES
    rtc_files,      \* slot -> open RTC file or NULL
    time_elasped,   \* slot -> progress towards the next alarm
    kind,           \* FILE -> "free", "reg" or "rtc" (flags.used, flags.type)
    inode,          \* FILE -> the fields of FILE.inode
    pos,            \* FILE -> FILE.pos
    sys_freq_pow,   \* system frequency: what the kernel takes the clock's to be
    pc,             \* process -> where it is in an RTC call
    loc,            \* process -> locals of that call
    hung,           \* the kernel executes hlt with interrupts off
    credit,         \* history: virtual ticks of a FILE no read has consumed
    everReg         \* history: FILEs that have held a regular file

fileVars == <<kind, inode, pos>>
procVars == <<pc, loc>>
vars == <<rtc_files, time_elasped, kind, inode, pos, sys_freq_pow, pc, loc, hung, credit, everReg>>

\* No call in progress.
NoLocals == [i |-> 0, file |-> NULL, freq |-> 0, ratio |-> 0, count |-> 0]

(***************************************************************************)
(* After init_rtc, which records 2 Hz (and programs rate 3, 2^13 Hz).      *)
(***************************************************************************)
Init ==
    /\ rtc_files = [i \in Slots |-> NULL]
    /\ time_elasped = [i \in Slots |-> 0]
    /\ kind = [f \in Files |-> "free"]
    /\ inode = [f \in Files |-> Inode(0, 0, 0)]
    /\ pos = [f \in Files |-> 0]
    /\ sys_freq_pow = 1
    /\ pc = [p \in Procs |-> "user"]
    /\ loc = [p \in Procs |-> NoLocals]
    /\ hung = FALSE
    /\ credit = [f \in Files |-> 0]
    /\ everReg = {}

Owned(p) == {p} \X (1 .. FDS)
OpenFiles == {f \in Files : kind[f] = "rtc"}

\* syscall_open takes the lowest free descriptor.
LowestFd(p) ==
    {f \in Owned(p) : kind[f] = "free" /\ \A g \in Owned(p) : g[2] < f[2] => kind[g] # "free"}

FreeSlots == {i \in Slots : rtc_files[i] = NULL}
LowestSlot == {i \in FreeSlots : \A j \in FreeSlots : i <= j}

\* reset_rtc_info with interrupts off.
reset_rtc_info(f, freq_pow) ==
    /\ inode' = [inode EXCEPT ![f] = Inode(freq_pow, Ratio(sys_freq_pow, freq_pow), 0)]
    /\ pos' = [pos EXCEPT ![f] = Pow2[Ratio(sys_freq_pow, freq_pow)]]

(***************************************************************************)
(* rtc_open, by whether rtc_files has room; without room the kernel stops. *)
(***************************************************************************)
rtc_open(p) ==
    /\ ~hung /\ pc[p] = "user"
    /\ \E f \in LowestFd(p), i \in LowestSlot :
          /\ reset_rtc_info(f, DefPow)
          /\ kind' = [kind EXCEPT ![f] = "rtc"]
          /\ rtc_files' = [rtc_files EXCEPT ![i] = f]
          /\ time_elasped' = [time_elasped EXCEPT ![i] = 0]
          /\ credit' = [credit EXCEPT ![f] = 0]
    /\ UNCHANGED <<sys_freq_pow, procVars, hung, everReg>>

rtc_open_full(p) ==
    /\ ~hung /\ pc[p] = "user"
    /\ FreeSlots = {}
    /\ \E f \in LowestFd(p) : reset_rtc_info(f, DefPow)
    /\ hung' = TRUE
    /\ UNCHANGED <<rtc_files, time_elasped, kind, sys_freq_pow, procVars, credit, everReg>>

\* Opening a regular file with the same descriptor table.
fs_open(p) ==
    /\ ~hung /\ pc[p] = "user"
    /\ \E f \in LowestFd(p), inode_num \in RegInodes :
          /\ kind' = [kind EXCEPT ![f] = "reg"]
          /\ inode' = [inode EXCEPT ![f] = inode_num]
          /\ pos' = [pos EXCEPT ![f] = 0]
          /\ everReg' = everReg \cup {f}
    /\ UNCHANGED <<rtc_files, time_elasped, sys_freq_pow, procVars, hung, credit>>

\* Faulty variant: the slot is kept.
CloseFiles_keepSlot(F) ==
    /\ kind' = [f \in Files |-> IF f \in F THEN "free" ELSE kind[f]]
    /\ UNCHANGED rtc_files

(***************************************************************************)
(* rtc_close clears the file's slot.  Its search for the new maximum       *)
(* starts from (uint32_t) -1, which no frequency exceeds, so it never      *)
(* changes the clock.                                                      *)
(***************************************************************************)
CloseFiles(F) ==
    /\ kind' = [f \in Files |-> IF f \in F THEN "free" ELSE kind[f]]
    /\ rtc_files' = [i \in Slots |-> IF rtc_files[i] \in F THEN NULL ELSE rtc_files[i]]

syscall_close(p) ==
    /\ ~hung /\ pc[p] = "user"
    /\ \E f \in Owned(p) : kind[f] # "free" /\ CloseFiles({f})
    /\ UNCHANGED <<time_elasped, inode, pos, sys_freq_pow, procVars, hung, credit, everReg>>

\* halt closes every file; the next process in this PCB starts without files.
Halt(p) ==
    /\ ~hung /\ pc[p] = "user"
    /\ CloseFiles(Owned(p))
    /\ UNCHANGED <<time_elasped, inode, pos, sys_freq_pow, procVars, hung, credit, everReg>>

(***************************************************************************)
(* rtc_write of a valid frequency, by whether it exceeds the system's.     *)
(***************************************************************************)
\* Faulty variant: the frequency is compared the wrong way round.
rtc_write_low_any(p) ==
    /\ ~hung /\ pc[p] = "user"
    /\ \E f \in Owned(p) \cap OpenFiles, freq_pow \in 1 .. USER_MAX_POW :
          /\ inode' = [inode EXCEPT ![f] = Inode(freq_pow, 0, 0)]
          /\ pos' = [pos EXCEPT ![f] = 1]
    /\ UNCHANGED <<rtc_files, time_elasped, kind, sys_freq_pow, procVars, hung, credit, everReg>>

rtc_write_low(p) ==
    /\ ~hung /\ pc[p] = "user"
    /\ \E f \in Owned(p) \cap OpenFiles, freq_pow \in 1 .. USER_MAX_POW :
          /\ freq_pow <= sys_freq_pow
          /\ reset_rtc_info(f, freq_pow)
    /\ UNCHANGED <<rtc_files, time_elasped, kind, sys_freq_pow, procVars, hung, credit, everReg>>

\* Up to the sti() of rtc_set_pi_freq.
rtc_write_raise(p) ==
    /\ ~hung /\ pc[p] = "user"
    /\ \E f \in Owned(p) \cap OpenFiles, freq_pow \in 1 .. USER_MAX_POW :
          /\ freq_pow > sys_freq_pow
          /\ inode' = [inode EXCEPT ![f].freq = freq_pow]
          /\ sys_freq_pow' = freq_pow
    /\ pc' = [pc EXCEPT ![p] = "slot"]
    /\ UNCHANGED <<rtc_files, time_elasped, kind, pos, loc, hung, credit, everReg>>

(***************************************************************************)
(* The update loop of rtc_set_pi_freq, with interrupts enabled: read the   *)
(* slot, then the frequency of the FILE it points to, then the system's    *)
(* to compute the new ratio; store the new inode, then the new pos.        *)
(***************************************************************************)
update_slot(p) ==
    /\ ~hung /\ pc[p] = "slot"
    /\ loc[p].i < MAX_PROC_NUM
    /\ LET f == rtc_files[loc[p].i] IN
       IF f = NULL
       THEN /\ loc' = [loc EXCEPT ![p].i = @ + 1]
            /\ UNCHANGED pc
       ELSE /\ loc' = [loc EXCEPT ![p].file = f]
            /\ pc' = [pc EXCEPT ![p] = "freq"]
    /\ UNCHANGED <<rtc_files, time_elasped, fileVars, sys_freq_pow, hung, credit, everReg>>

update_end(p) ==
    /\ ~hung /\ pc[p] = "slot"
    /\ loc[p].i = MAX_PROC_NUM
    /\ loc' = [loc EXCEPT ![p] = NoLocals]
    /\ pc' = [pc EXCEPT ![p] = "user"]
    /\ UNCHANGED <<rtc_files, time_elasped, fileVars, sys_freq_pow, hung, credit, everReg>>

update_freq(p) ==
    /\ ~hung /\ pc[p] = "freq"
    /\ loc' = [loc EXCEPT ![p].freq = inode[loc[p].file].freq]
    /\ pc' = [pc EXCEPT ![p] = "ratio"]
    /\ UNCHANGED <<rtc_files, time_elasped, fileVars, sys_freq_pow, hung, credit, everReg>>

update_ratio(p) ==
    /\ ~hung /\ pc[p] = "ratio"
    /\ loc' = [loc EXCEPT ![p].ratio = Ratio(sys_freq_pow, loc[p].freq)]
    /\ pc' = [pc EXCEPT ![p] = "inode"]
    /\ UNCHANGED <<rtc_files, time_elasped, fileVars, sys_freq_pow, hung, credit, everReg>>

update_inode(p) ==
    /\ ~hung /\ pc[p] = "inode"
    /\ inode' = [inode EXCEPT ![loc[p].file] = Inode(loc[p].freq, loc[p].ratio, 0)]
    /\ pc' = [pc EXCEPT ![p] = "pos"]
    /\ UNCHANGED <<rtc_files, time_elasped, kind, pos, sys_freq_pow, loc, hung, credit, everReg>>

update_pos(p) ==
    /\ ~hung /\ pc[p] = "pos"
    /\ pos' = [pos EXCEPT ![loc[p].file] = Pow2[loc[p].ratio]]
    /\ loc' = [loc EXCEPT ![p] = [NoLocals EXCEPT !.i = loc[p].i + 1]]
    /\ pc' = [pc EXCEPT ![p] = "slot"]
    /\ UNCHANGED <<rtc_files, time_elasped, kind, inode, sys_freq_pow, hung, credit, everReg>>

(***************************************************************************)
(* rtc_read: wait for a count, with interrupts enabled until the cli()     *)
(* that follows the last look at it; then store the decremented copy.      *)
(***************************************************************************)
rtc_read(p) ==
    /\ ~hung /\ pc[p] = "user"
    /\ \E f \in Owned(p) \cap OpenFiles : loc' = [loc EXCEPT ![p].file = f]
    /\ pc' = [pc EXCEPT ![p] = "read"]
    /\ UNCHANGED <<rtc_files, time_elasped, fileVars, sys_freq_pow, hung, credit, everReg>>

\* Faulty variant: the loop is left without a count.
rtc_read_wake_any(p) ==
    /\ ~hung /\ pc[p] = "read"
    /\ loc' = [loc EXCEPT ![p].count = inode[loc[p].file].count + 1]
    /\ pc' = [pc EXCEPT ![p] = "cli"]
    /\ UNCHANGED <<rtc_files, time_elasped, fileVars, sys_freq_pow, hung, credit, everReg>>

rtc_read_wake(p) ==
    /\ ~hung /\ pc[p] = "read"
    /\ inode[loc[p].file].count # 0
    /\ loc' = [loc EXCEPT ![p].count = inode[loc[p].file].count]
    /\ pc' = [pc EXCEPT ![p] = "cli"]
    /\ UNCHANGED <<rtc_files, time_elasped, fileVars, sys_freq_pow, hung, credit, everReg>>

rtc_read_done(p) ==
    /\ ~hung /\ pc[p] = "cli"
    /\ LET f == loc[p].file IN
       /\ inode' = [inode EXCEPT ![f].count = loc[p].count - 1]
       /\ credit' = [credit EXCEPT ![f] = IF @ > 0 THEN @ - 1 ELSE 0]
    /\ loc' = [loc EXCEPT ![p] = NoLocals]
    /\ pc' = [pc EXCEPT ![p] = "user"]
    /\ UNCHANGED <<rtc_files, time_elasped, kind, pos, sys_freq_pow, hung, everReg>>

(***************************************************************************)
(* rtc_isr: every slot's alarm counter advances; every open file counts    *)
(* down and, at zero, reloads and gains a virtual tick.  The alarm signal  *)
(* itself is action Alarm of module Sched.                                 *)
(***************************************************************************)
AtMost(n, limit) == IF n > limit THEN limit ELSE n
Counted == {f \in Files : \E i \in Slots : rtc_files[i] = f}
Expired == {f \in Counted : pos[f] <= 1}

AlarmCounters ==
    LET step == Pow2[SYS_MAX_POW - sys_freq_pow] IN
    time_elasped' = [i \in Slots |->
        IF time_elasped[i] + step >= COUNTER_MAX THEN 0 ELSE time_elasped[i] + step]

\* Gained(limit): the files whose countdown ends get one more count.
Gained(limit) ==
    inode' = [f \in Files |->
        IF f \in Expired THEN [inode[f] EXCEPT !.count = AtMost(@ + 1, limit)]
        ELSE inode[f]]

CreditTicks ==
    credit' = [f \in Files |->
        IF f \in Expired THEN AtMost(credit[f] + 1, COUNT_MAX) ELSE credit[f]]

\* Faulty variants: the limit is one too high; an ended countdown is not
\* reloaded.
rtc_isr_high_limit ==
    /\ ~hung /\ AlarmCounters /\ Gained(COUNT_MAX + 1) /\ CreditTicks
    /\ pos' = [f \in Files |->
          IF f \in Expired THEN Pow2[inode[f].ratio]
          ELSE IF f \in Counted THEN pos[f] - 1 ELSE pos[f]]
    /\ UNCHANGED <<rtc_files, kind, sys_freq_pow, procVars, hung, everReg>>
rtc_isr_no_reload ==
    /\ ~hung /\ AlarmCounters /\ CreditTicks
    /\ inode' = [f \in Files |->
          IF f \in Counted /\ pos[f] = 1
          THEN [inode[f] EXCEPT !.count = AtMost(@ + 1, COUNT_MAX)] ELSE inode[f]]
    /\ pos' = [f \in Files |->
          IF f \in Counted /\ pos[f] > 0 THEN pos[f] - 1 ELSE pos[f]]
    /\ UNCHANGED <<rtc_files, kind, sys_freq_pow, procVars, hung, everReg>>

rtc_isr ==
    /\ ~hung
    /\ AlarmCounters
    /\ Gained(COUNT_MAX)
    /\ pos' = [f \in Files |->
          IF f \in Expired THEN Pow2[inode[f].ratio]
          ELSE IF f \in Counted THEN pos[f] - 1 ELSE pos[f]]
    /\ CreditTicks
    /\ UNCHANGED <<rtc_files, kind, sys_freq_pow, procVars, hung, everReg>>

\* hlt with interrupts off.
Stopped == hung /\ UNCHANGED vars

ProcNext(p) ==
    \/ rtc_open(p) \/ rtc_open_full(p) \/ fs_open(p) \/ syscall_close(p) \/ Halt(p)
    \/ rtc_write_low(p) \/ rtc_write_raise(p)
    \/ update_slot(p) \/ update_end(p) \/ update_freq(p) \/ update_ratio(p)
    \/ update_inode(p) \/ update_pos(p)
    \/ rtc_read(p) \/ rtc_read_wake(p) \/ rtc_read_done(p)

Next == rtc_isr \/ Stopped \/ \E p \in Procs : ProcNext(p)

Spec == Init /\ [][Next]_vars

(***************************************************************************)
(* The clock goes on ticking, and a process inside a call is scheduled     *)
(* again and again (Sched, EveryTerminalRuns) and so goes on.              *)
(***************************************************************************)
InCall(p) ==
    \/ update_slot(p) \/ update_end(p) \/ update_freq(p) \/ update_ratio(p)
    \/ update_inode(p) \/ update_pos(p) \/ rtc_read_wake(p) \/ rtc_read_done(p)

Fairness == WF_vars(rtc_isr) /\ \A p \in Procs : WF_vars(InCall(p))

FairSpec == Spec /\ Fairness

----------------------------------------------------------------------------
Inodes == [freq : Fields, ratio : Fields, count : 0 .. COUNT_MAX]

TypeOK ==
    /\ rtc_files \in [Slots -> Files \cup {NULL}]
    /\ time_elasped \in [Slots -> 0 .. (COUNTER_MAX - 1)]
    /\ kind \in [Files -> {"free", "reg", "rtc"}]
    /\ inode \in [Files -> Inodes]
    /\ pos \in [Files -> 0 .. Pow2[MSK_5]]
    /\ sys_freq_pow \in 1 .. SYS_MAX_POW
    /\ pc \in [Procs -> {"user", "slot", "freq", "ratio", "inode", "pos", "read", "cli"}]
    /\ loc \in [Procs -> [i : 0 .. MAX_PROC_NUM, file : Files \cup {NULL},
                          freq : Fields, ratio : Fields, count : 0 .. COUNT_MAX]]
    /\ hung \in BOOLEAN
    /\ credit \in [Files -> 0 .. COUNT_MAX]
    /\ everReg \subseteq Files

\* The slots hold open RTC files, all of them, each once.
TableInv ==
    /\ \A i \in Slots : rtc_files[i] # NULL => kind[rtc_files[i]] = "rtc"
    /\ \A f \in OpenFiles : \E i \in Slots : rtc_files[i] = f
    /\ \A i, j \in Slots : rtc_files[i] = rtc_files[j] /\ rtc_files[i] # NULL => i = j

\* rtc_files lists exactly the open RTC files, each once, whatever open, close,
\* halt and an update in progress do, so no slot leaks: rtc_open stops the
\* machine ("halt the system if too many RTC is opend", rtc.c:375) only when
\* MAX_PROC_NUM RTC files are open at that moment.
SlotsMatch == TableInv /\ (hung => Cardinality(OpenFiles) = MAX_PROC_NUM)

\* The promise "the s_freq is always being a multiple of u_freq" (rtc.c:98) for
\* a FILE f: its frequency is a power of two that the system frequency covers.
Covered(f) == 1 <= inode[f].freq /\ inode[f].freq <= sys_freq_pow

\* As long as a FILE is used for RTC files only, the promise of rtc.c:98 holds
\* of it while it is open, even while rtc_set_pi_freq is preempted and stores
\* what it read before, closed and reopened files included: what it stores may
\* be stale but was covered then, and the system frequency never falls.  So the
\* masked ratio is the true difference and the countdown is never empty.
FreqCovered ==
    \A f \in OpenFiles \ everReg :
        /\ Covered(f)
        /\ inode[f].ratio <= sys_freq_pow - 1
        /\ pos[f] >= 1

\* A read never returns for a tick that did not happen: the count of a file,
\* and the copy a read has taken of it, never exceed the virtual ticks that no
\* earlier read of the file has consumed, although the interrupt, the read's
\* store and the resets of other processes overwrite one another.
NoPhantomTick ==
    /\ \A f \in OpenFiles : inode[f].count <= credit[f]
    /\ \A p \in Procs : pc[p] = "cli" => loc[p].count <= credit[loc[p].file]

(***************************************************************************)
(* The inductive invariant.                                                *)
(***************************************************************************)
\* An update that has read a slot holds a FILE and, unless the FILE has held a
\* regular file, reads and then keeps a frequency that the system frequency
\* covers and a ratio computed from such a frequency.
UpdateOK(p) ==
    pc[p] \in {"freq", "ratio", "inode", "pos"} =>
        /\ loc[p].i < MAX_PROC_NUM
        /\ loc[p].file # NULL
        /\ loc[p].file \notin everReg =>
              /\ pc[p] = "freq" => Covered(loc[p].file)
              /\ pc[p] # "freq" => 1 <= loc[p].freq /\ loc[p].freq <= sys_freq_pow
              /\ pc[p] \in {"inode", "pos"} => loc[p].ratio <= sys_freq_pow - 1
UpdateInv == \A p \in Procs : UpdateOK(p)

\* A process that reads waits on an open file of its own, which therefore no
\* other process closes or reads, and has seen a count before it takes one.
ReadInv ==
    \A p \in Procs : pc[p] \in {"read", "cli"} =>
        /\ loc[p].file \in Owned(p) \cap OpenFiles
        /\ pc[p] = "cli" => loc[p].count >= 1

\* The kernel stops only with all slots taken.
StopInv == hung => FreeSlots = {}

IInv == UpdateInv /\ ReadInv /\ StopInv /\ TableInv /\ FreqCovered /\ NoPhantomTick

\* A process blocked in rtc_read gets its tick, although other processes may
\* reset its file by raising the system frequency (unless the kernel stops).
ReadReturns == \A p \in Procs : (pc[p] = "read") ~> (pc[p] = "user" \/ hung)
=============================================================================
