---------------------------- MODULE SchedProofs ----------------------------
(***************************************************************************)
(* Proofs about Sched, for any number of processes, terminals and signals  *)
(* and any content of the uninitialised next_pid.                          *)
(***************************************************************************)
EXTENDS MCSched, Induction, FiniteSetTheorems, TLAPS

\* The turn of pit_isr is always an existing terminal.
LEMMA NextTermType ==
    ASSUME cur_proc_ind \in Terms
    PROVE  NextTerm \in Terms
  BY ConstAssumption, SMT DEF NextTerm, Terms

\* Pids are PCB numbers other than 0.
LEMMA PidFacts == /\ Pids \subseteq Pcbs
                  /\ 0 \in Pcbs
                  /\ 0 \notin Pids
                  /\ \A p \in Pcbs : p # 0 => p \in Pids
                  /\ 0 \in Terms
  BY ConstAssumption, SMT DEF Pids, Pcbs, Terms

\* The return path of an interrupt leaves the CPU in a mode of the model.
LEMMA AfterIsrType ==
    ASSUME NEW at \in Modes, NEW S
    PROVE  AfterIsr(at, S) \in Modes
  BY DEF AfterIsr, Modes

----------------------------------------------------------------------------
(***************************************************************************)
(* Type correctness.                                                       *)
(***************************************************************************)
LEMMA StartTaskType ==
    ASSUME TypeOK, NEW pid \in Pids, NEW par \in Pcbs, NEW t \in Terms,
           NEW f \in Frames, StartTask(pid, par, t, f)
    PROVE  /\ pid_used' \in [Pids -> BOOLEAN]
           /\ parent' \in [Pcbs -> Pcbs]
           /\ term_ind' \in [Pcbs -> Terms]
           /\ signals' \in [Pcbs -> SUBSET Signals]
           /\ handlers' \in [Pcbs -> SUBSET Signals]
           /\ cur_pid' \in [Terms -> Pcbs]
           /\ cur' \in Pcbs
           /\ mode' \in Modes
           /\ page' \in Pcbs
           /\ esp0' \in Pcbs
           /\ frame' \in [Pcbs -> Frames]
  BY PidFacts DEF StartTask, TypeOK, Modes, Frames

\* The context switch at the end of pit_isr keeps every variable typed.
LEMMA SwitchToType ==
    ASSUME TypeOK, NEW next, NEW at \in Interruptible, SwitchTo(next, at)
    PROVE  /\ cur' \in Pcbs
           /\ mode' \in Modes
           /\ page' \in Pcbs
           /\ esp0' \in Pcbs
           /\ vid' \in Terms \cup {Screen}
           /\ frame' \in [Pcbs -> Frames]
           /\ resume' \in [Pcbs -> Interruptible]
  <1>1. CASE Resumable(next)
    <2>1. next \in Pcbs
      BY <1>1 DEF Resumable
    <2>2. AfterIsr(resume[next], signals[next]) \in Modes
      BY <2>1, AfterIsrType DEF TypeOK, Interruptible, Modes
    <2>3. mode' \in Modes
      BY <1>1, <2>2 DEF SwitchTo, Modes
    <2>4. frame' \in [Pcbs -> Frames]
      BY <1>1, <2>1 DEF SwitchTo, TypeOK, Frames
    <2>5. resume' \in [Pcbs -> Interruptible]
      BY <1>1, <2>1 DEF SwitchTo, TypeOK
    <2>6. vid' \in Terms \cup {Screen}
      BY <1>1, <2>1 DEF SwitchTo, TypeOK
    <2> QED
      BY <1>1, <2>1, <2>3, <2>4, <2>5, <2>6 DEF SwitchTo
  <1>2. CASE ~Resumable(next)
    BY <1>2 DEF SwitchTo, TypeOK, mmVars, saved, Modes
  <1> QED
    BY <1>1, <1>2

\* _syscall_halt, called or forced by a signal, keeps every variable typed.
LEMMA HaltCurType ==
    ASSUME TypeOK, NEW m \in Modes, HaltCur(m)
    PROVE  /\ pid_used' \in [Pids -> BOOLEAN]
           /\ cur_pid' \in [Terms -> Pcbs]
           /\ cur' \in Pcbs
           /\ mode' \in Modes
           /\ page' \in Pcbs
           /\ esp0' \in Pcbs
           /\ frame' \in [Pcbs -> Frames]
  <1>1. CASE parent[cur] = 0
    BY <1>1 DEF HaltCur, Restart, TypeOK, mmVars
  <1>2. CASE parent[cur] # 0
    <2>1. AfterIsr("user", signals[parent[cur]]) \in Modes
      BY AfterIsrType DEF Modes
    <2>2. parent[cur] \in Pcbs /\ term_ind[cur] \in Terms
      BY DEF TypeOK
    <2>3. ReturnTo(parent[cur], parent[cur], parent[cur], term_ind[cur])
      BY <1>2 DEF HaltCur
    <2>4. pid_used' \in [Pids -> BOOLEAN]
      BY <2>3 DEF ReturnTo, TypeOK
    <2>5. cur_pid' \in [Terms -> Pcbs]
      BY <2>2, <2>3 DEF ReturnTo, TypeOK
    <2>6. frame' \in [Pcbs -> Frames]
      BY <2>2, <2>3 DEF ReturnTo, TypeOK, Frames
    <2>7. mode' \in Modes
      BY <2>1, <2>3 DEF ReturnTo, Modes
    <2> QED
      BY <2>2, <2>3, <2>4, <2>5, <2>6, <2>7 DEF ReturnTo
  <1> QED
    BY <1>1, <1>2

\* Every variable keeps its type, in every step of the scheduler, the process
\* system calls, the signals and the keyboard commands.
THEOREM TypeCorrect == Spec => []TypeOK
  <1>1. Init => TypeOK
    BY ConstAssumption, PidFacts
    DEF Init, TypeOK, Modes, Frames, Interruptible
  <1>2. TypeOK /\ [Next]_vars => TypeOK'
    <2> SUFFICES ASSUME TypeOK, [Next]_vars PROVE TypeOK'
      OBVIOUS
    <2>1. NextTerm \in Terms
      BY NextTermType DEF TypeOK
    <2>2. \A S : AfterIsr("user", S) \in Modes
      BY AfterIsrType DEF Modes
    <2>3. \A S : mode \in Interruptible => AfterIsr(mode, S) \in Modes
      BY AfterIsrType DEF Modes, Interruptible
    <2>4. CASE Tick
      <3>1. CASE PitLaunch
        <4>1. PICK pid \in LowestFree : StartTask(pid, 0, NextTerm, "launch")
          BY <3>1 DEF PitLaunch
        <4>2. pid \in Pids
          BY DEF LowestFree
        <4> QED
          BY <2>1, <2>4, <3>1, <4>1, <4>2, StartTaskType, PidFacts
          DEF PitLaunch, TypeOK, Frames, Tick
      <3>2. CASE PitNoPid
        BY <2>1, <2>4, <3>2
        DEF PitNoPid, TypeOK, procVars, sigVars, mmVars, Modes, Tick
      <3>3. CASE PitSame
        BY <2>1, <2>3, <2>4, <3>3
        DEF PitSame, TypeOK, procVars, sigVars, mmVars, saved, Tick
      <3>4. CASE PitSwitch
        BY <2>1, <2>4, <3>4, SwitchToType
        DEF PitSwitch, TypeOK, procVars, sigVars, Tick
      <3> QED
        BY <2>4, <3>1, <3>2, <3>3, <3>4 DEF Tick, pit_isr
    <2>5. CASE FallThrough
      <3>1. resume[cur] \in Interruptible
        BY DEF TypeOK
      <3>2. AfterIsr(resume[cur], signals[cur]) \in Modes
        BY <3>1, AfterIsrType DEF Interruptible, Modes
      <3>3. CASE FallThroughSame
        BY <3>2, <3>3
        DEF FallThroughSame, TypeOK, procVars, sigVars, mmVars, Interruptible
      <3>4. CASE FallThroughSwitch
        BY <3>1, <3>4, SwitchToType
        DEF FallThroughSwitch, TypeOK, procVars, sigVars
      <3> QED
        BY <2>5, <3>3, <3>4 DEF FallThrough
    <2>6. CASE Execute
      <3>1. PICK pid \in LowestFree : StartTask(pid, cur, term_ind[cur], "exec")
        BY <2>6 DEF Execute
      <3>2. pid \in Pids /\ cur \in Pcbs /\ term_ind[cur] \in Terms
        BY DEF LowestFree, TypeOK
      <3> QED
        BY <2>6, <3>1, <3>2, StartTaskType DEF Execute, TypeOK, Frames
    <2>7. CASE Halt
      BY <2>2, <2>7, HaltCurType DEF Halt, TypeOK, sigVars
    <2>8. CASE Block
      BY <2>8 DEF Block, TypeOK, procVars, sigVars, mmVars, saved, Modes
    <2>9. CASE Unblock
      BY <2>2, <2>9 DEF Unblock, TypeOK, procVars, sigVars, mmVars, saved
    <2>10. CASE SetHandler
      BY <2>2, <2>10, ConstAssumption
      DEF SetHandler, TypeOK, procVars, mmVars, saved
    <2>11. CASE OtherTrap
      BY <2>2, <2>11 DEF OtherTrap, TypeOK, procVars, sigVars, mmVars, saved
    <2>12. CASE Fault
      BY <2>12 DEF Fault, TypeOK, procVars, mmVars, saved, Modes,
                   Signals, SIG_DIV_ZERO, SIG_SEGFAULT
    <2>13. CASE CtrlC
      <3>1. mode' \in Modes
        BY <2>3, <2>13 DEF CtrlC
      <3>2. signals' \in [Pcbs -> SUBSET Signals]
        BY <2>13 DEF CtrlC, TypeOK, Signals
      <3> QED
        BY <2>13, <3>1, <3>2 DEF CtrlC, TypeOK, procVars, mmVars, saved
    <2>14. CASE AltF
      BY <2>3, <2>14 DEF AltF, TypeOK, procVars, sigVars, mmVars, saved
    <2>15. CASE Alarm
      <3>1. mode' \in Modes
        BY <2>3, <2>15 DEF Alarm
      <3>2. signals' \in [Pcbs -> SUBSET Signals]
        BY <2>15 DEF Alarm, TypeOK, Signals
      <3> QED
        BY <2>15, <3>1, <3>2 DEF Alarm, TypeOK, procVars, mmVars, saved
    <2>16. CASE CheckSignals
      <3>1. PICK s \in Lowest(signals[cur]) :
              LET rest == signals[cur] \ {s} IN
              /\ signals' = [signals EXCEPT ![cur] = rest]
              /\ \/ /\ mode' = "user"
                    /\ UNCHANGED <<pid_used, cur_pid, cur, mmVars, frame>>
                 \/ HaltCur(AfterIsr("user", rest))
                 \/ /\ mode' = AfterIsr("user", rest)
                    /\ UNCHANGED <<pid_used, cur_pid, cur, mmVars, frame>>
        BY <2>16 DEF CheckSignals
      <3>2. signals' \in [Pcbs -> SUBSET Signals]
        BY <3>1 DEF TypeOK
      <3>3. /\ pid_used' \in [Pids -> BOOLEAN]
            /\ cur_pid' \in [Terms -> Pcbs]
            /\ cur' \in Pcbs
            /\ mode' \in Modes
            /\ page' \in Pcbs
            /\ esp0' \in Pcbs
            /\ frame' \in [Pcbs -> Frames]
        BY <2>2, <3>1, HaltCurType DEF TypeOK, mmVars, Modes
      <3> QED
        BY <2>16, <3>2, <3>3 DEF CheckSignals, TypeOK
    <2>17. CASE Wild \/ UNCHANGED vars
      BY <2>17 DEF Wild, vars, TypeOK
    <2> QED
      BY <2>4, <2>5, <2>6, <2>7, <2>8, <2>9, <2>10, <2>11, <2>12, <2>13,
         <2>14, <2>15, <2>16, <2>17 DEF Next
  <1> QED
    BY <1>1, <1>2, PTL DEF Spec

----------------------------------------------------------------------------
(***************************************************************************)
(* The inductive invariant.  One lemma for each way a step acts on the     *)
(* process table: not at all, by starting a process, by switching and by   *)
(* ending a process.                                                       *)
(***************************************************************************)
Core == RunningInv /\ IdleInv /\ ForegroundInv /\ WaitingInv /\ ParentInv

\* A step that leaves the process table, the frames and the address space alone
\* (a blocking read, a key, set_handler) preserves the invariant.
LEMMA QuietStep ==
    ASSUME Core,
           UNCHANGED <<pid_used, parent, term_ind, cur_pid, cur, page, esp0, frame>>,
           cur = 0 => mode' \in {"wait", "uninit"},
           cur # 0 \/ mode' = "uninit" => resume'[0] = "wait"
    PROVE  IInv'
  <1>1. RunningInv' /\ WaitingInv' /\ ParentInv'
    BY DEF Core, RunningInv, WaitingInv, ParentInv
  <1>2. IdleInv'
    BY DEF Core, IdleInv, Resumable
  <1>3. ForegroundInv'
    BY DEF Core, ForegroundInv, Resumable
  <1> QED
    BY <1>1, <1>2, <1>3 DEF IInv

\* A tick starts the shell of a terminal that has no process.
LEMMA LaunchStep ==
    ASSUME TypeOK, Core, NEW pid \in LowestFree, NEW t \in Terms,
           cur_pid[t] = 0, StartTask(pid, 0, t, "launch"),
           mode \in Interruptible,
           resume' = [resume EXCEPT ![cur] = mode]
    PROVE  IInv'
  <1>1. pid \in Pids /\ ~pid_used[pid] /\ pid \in Pcbs /\ pid # 0
    BY PidFacts DEF LowestFree
  <1>2. pid # cur
    BY <1>1 DEF Core, RunningInv
  <1>3. /\ cur' = pid /\ page' = pid /\ esp0' = pid /\ mode' = "user"
        /\ \A p \in Pids : pid_used'[p] = (p = pid \/ pid_used[p])
        /\ \A p \in Pcbs : parent'[p] = IF p = pid THEN 0 ELSE parent[p]
        /\ \A p \in Pcbs : term_ind'[p] = IF p = pid THEN t ELSE term_ind[p]
        /\ \A u \in Terms : cur_pid'[u] = IF u = t THEN pid ELSE cur_pid[u]
        /\ \A p \in Pcbs : frame'[p] = IF p = pid THEN "none"
                                      ELSE IF p = cur THEN "launch" ELSE frame[p]
    BY <1>1 DEF StartTask, TypeOK
  <1>4. RunningInv'
    BY <1>1, <1>3 DEF RunningInv
  <1>5. IdleInv'
    <2>1. Resumable(0)'
      BY <1>1, <1>3, PidFacts DEF Core, IdleInv, Resumable
    <2>2. resume'[0] = "wait"
      BY PidFacts DEF Core, IdleInv, TypeOK, Interruptible
    <2> QED
      BY <1>1, <1>3, <2>1, <2>2 DEF IdleInv
  <1>6. ForegroundInv'
    <2>1. ASSUME NEW u \in Terms, cur_pid'[u] # 0
          PROVE  /\ pid_used'[cur_pid'[u]]
                 /\ term_ind'[cur_pid'[u]] = u
                 /\ (cur_pid[u] # cur => Resumable(cur_pid[u]))'
      <3>1. CASE u = t
        BY <1>1, <1>3, <3>1
      <3>2. CASE u # t
        <4>1. cur_pid'[u] = cur_pid[u] /\ cur_pid[u] \in Pids
          BY <1>3, <2>1, <3>2, PidFacts DEF TypeOK
        <4>2. /\ pid_used[cur_pid[u]]
              /\ term_ind[cur_pid[u]] = u
              /\ cur_pid[u] # cur => Resumable(cur_pid[u])
          BY <4>1, PidFacts DEF Core, ForegroundInv
        <4>3. cur_pid[u] # pid /\ cur_pid[u] \in Pcbs
          BY <1>1, <4>1, <4>2, PidFacts
        <4>4. pid_used'[cur_pid[u]] /\ term_ind'[cur_pid[u]] = u
          BY <1>3, <4>1, <4>2, <4>3
        <4>5. frame'[cur_pid[u]] \in {"pit", "launch"}
          BY <1>3, <4>2, <4>3 DEF Resumable
        <4> QED
          BY <4>1, <4>3, <4>4, <4>5 DEF Resumable
      <3> QED
        BY <3>1, <3>2
    <2>2. ASSUME NEW p \in Pids, Resumable(p)'
          PROVE  pid_used'[p] /\ cur_pid'[term_ind'[p]] = p
      BY <1>1, <1>3, <2>2, PidFacts
      DEF Core, RunningInv, ForegroundInv, Resumable, TypeOK
    <2> QED
      BY <2>1, <2>2 DEF ForegroundInv
  <1>7. WaitingInv'
    BY <1>1, <1>3, PidFacts DEF Core, RunningInv, WaitingInv, TypeOK
  <1>8. ParentInv'
    BY <1>1, <1>3, PidFacts DEF Core, RunningInv, ParentInv, TypeOK
  <1> QED
    BY <1>4, <1>5, <1>6, <1>7, <1>8 DEF IInv

\* The running process starts a child and waits for it.
LEMMA ExecuteStep ==
    ASSUME TypeOK, Core, NEW pid \in LowestFree, cur # 0,
           StartTask(pid, cur, term_ind[cur], "exec"),
           UNCHANGED resume
    PROVE  IInv'
  <1> DEFINE t == term_ind[cur]
  <1>1. pid \in Pids /\ ~pid_used[pid] /\ pid \in Pcbs /\ pid # 0
    BY PidFacts DEF LowestFree
  <1>2. pid # cur /\ cur \in Pids /\ t \in Terms /\ pid_used[cur] /\ cur_pid[t] = cur
        /\ frame[cur] = "none"
    BY <1>1, PidFacts DEF Core, RunningInv, TypeOK
  <1>3. /\ cur' = pid /\ page' = pid /\ esp0' = pid /\ mode' = "user"
        /\ \A p \in Pids : pid_used'[p] = (p = pid \/ pid_used[p])
        /\ \A p \in Pcbs : parent'[p] = IF p = pid THEN cur ELSE parent[p]
        /\ \A p \in Pcbs : term_ind'[p] = IF p = pid THEN t ELSE term_ind[p]
        /\ \A u \in Terms : cur_pid'[u] = IF u = t THEN pid ELSE cur_pid[u]
        /\ \A p \in Pcbs : frame'[p] = IF p = pid THEN "none"
                                      ELSE IF p = cur THEN "exec" ELSE frame[p]
    BY <1>1, <1>2 DEF StartTask, TypeOK
  <1> HIDE DEF t
  <1>4. RunningInv'
    BY <1>1, <1>2, <1>3 DEF RunningInv
  <1>5. IdleInv'
    BY <1>1, <1>2, <1>3, PidFacts DEF Core, IdleInv, Resumable
  <1>6. ForegroundInv'
    <2>1. ASSUME NEW u \in Terms, cur_pid'[u] # 0
          PROVE  /\ pid_used'[cur_pid'[u]]
                 /\ term_ind'[cur_pid'[u]] = u
                 /\ (cur_pid[u] # cur => Resumable(cur_pid[u]))'
      BY <1>1, <1>2, <1>3, <2>1, PidFacts
      DEF Core, ForegroundInv, Resumable, TypeOK, t
    <2>2. ASSUME NEW p \in Pids, Resumable(p)'
          PROVE  pid_used'[p] /\ cur_pid'[term_ind'[p]] = p
      BY <1>1, <1>2, <1>3, <2>2, PidFacts
      DEF Core, ForegroundInv, Resumable, TypeOK
    <2> QED
      BY <2>1, <2>2 DEF ForegroundInv
  <1>7. WaitingInv'
    <2> SUFFICES ASSUME NEW p \in Pids, pid_used'[p]
                 PROVE  \/ cur_pid'[term_ind'[p]] = p
                        \/ /\ frame'[p] = "exec"
                           /\ \E c \in Pids : pid_used'[c] /\ parent'[c] = p
      BY DEF WaitingInv
    <2>1. CASE p = pid
      BY <1>1, <1>2, <1>3, <2>1
    <2>2. CASE p = cur
      BY <1>1, <1>2, <1>3, <2>2, PidFacts
    <2>3. CASE p # pid /\ p # cur
      <3>1. pid_used[p] /\ p \in Pcbs /\ term_ind[p] \in Terms
        BY <1>1, <1>3, <2>3, PidFacts DEF TypeOK
      <3>2. CASE cur_pid[term_ind[p]] = p
        BY <1>1, <1>2, <1>3, <2>3, <3>1, <3>2
      <3>3. CASE frame[p] = "exec" /\ \E c \in Pids : pid_used[c] /\ parent[c] = p
        BY <1>1, <1>2, <1>3, <2>3, <3>1, <3>3, PidFacts
      <3> QED
        BY <3>1, <3>2, <3>3 DEF Core, WaitingInv
    <2> QED
      BY <2>1, <2>2, <2>3
  <1>8. ParentInv'
    BY <1>1, <1>2, <1>3, PidFacts DEF Core, ParentInv, TypeOK, t
  <1> QED
    BY <1>4, <1>5, <1>6, <1>7, <1>8 DEF IInv

\* The end of pit_isr loads the context of another process.
LEMMA SwitchStep ==
    ASSUME TypeOK, Core, NEW next \in Pcbs, next # cur, Resumable(next),
           NEW at \in Interruptible, cur = 0 => at = "wait",
           SwitchTo(next, at),
           UNCHANGED <<pid_used, parent, term_ind, cur_pid>>
    PROVE  IInv'
  <1>1. /\ cur' = next /\ page' = next /\ esp0' = next
        /\ \A p \in Pcbs : frame'[p] = IF p = next THEN "none"
                                      ELSE IF p = cur THEN "pit" ELSE frame[p]
        /\ \A p \in Pcbs : resume'[p] = IF p = cur THEN at ELSE resume[p]
        /\ mode' = IF frame[next] = "launch" THEN "uninit"
                   ELSE AfterIsr(resume[next], signals[next])
    BY DEF SwitchTo, TypeOK
  <1>2. next # 0 => next \in Pids /\ pid_used[next] /\ cur_pid[term_ind[next]] = next
    BY PidFacts DEF Core, ForegroundInv
  <1>3. cur \in Pcbs /\ frame[cur] = "none"
    BY DEF TypeOK, Core, RunningInv
  <1>4. frame[next] \in {"pit", "launch"}
    BY DEF Resumable
  <1>5. RunningInv'
    BY <1>1, <1>2 DEF RunningInv
  <1>6. IdleInv'
    <2>1. resume'[0] = "wait"
      BY <1>1, PidFacts DEF Core, IdleInv
    <2>2. cur' # 0 => Resumable(0)'
      BY <1>1, <1>3, PidFacts DEF Core, IdleInv, Resumable
    <2>3. cur' = 0 => mode' \in {"wait", "uninit"}
      BY <1>1 DEF Core, IdleInv, AfterIsr
    <2> QED
      BY <2>1, <2>2, <2>3 DEF IdleInv
  <1>7. ForegroundInv'
    <2>1. ASSUME NEW u \in Terms, cur_pid'[u] # 0
          PROVE  /\ pid_used'[cur_pid'[u]]
                 /\ term_ind'[cur_pid'[u]] = u
                 /\ (cur_pid[u] # cur => Resumable(cur_pid[u]))'
      BY <1>1, <1>3, <2>1 DEF Core, ForegroundInv, Resumable, TypeOK
    <2>2. ASSUME NEW p \in Pids, Resumable(p)'
          PROVE  pid_used'[p] /\ cur_pid'[term_ind'[p]] = p
      BY <1>1, <2>2, PidFacts DEF Core, RunningInv, ForegroundInv, Resumable
    <2> QED
      BY <2>1, <2>2 DEF ForegroundInv
  <1>8. WaitingInv'
    BY <1>1, <1>2, <1>3, <1>4, PidFacts DEF Core, RunningInv, WaitingInv
  <1>9. ParentInv'
    BY <1>1, <1>3, <1>4, PidFacts DEF Core, ParentInv, TypeOK
  <1> QED
    BY <1>5, <1>6, <1>7, <1>8, <1>9 DEF IInv

\* A process with a parent ends, by its own halt or by a fatal signal.
LEMMA ReturnStep ==
    ASSUME TypeOK, Core, cur # 0, parent[cur] # 0,
           ReturnTo(parent[cur], parent[cur], parent[cur], term_ind[cur]),
           UNCHANGED <<parent, term_ind, resume>>
    PROVE  IInv' /\ mode' # "wild"
  <1> DEFINE par == parent[cur]
             t == term_ind[cur]
  <1>1. /\ cur \in Pids /\ pid_used[cur] /\ cur_pid[t] = cur
        /\ frame[cur] = "none" /\ t \in Terms
    BY PidFacts DEF Core, RunningInv, TypeOK
  <1>2. par \in Pids /\ par \in Pcbs
    BY <1>1, PidFacts DEF TypeOK
  <1>3. /\ pid_used[par] /\ frame[par] = "exec" /\ term_ind[par] = t
        /\ \A c \in Pids : pid_used[c] /\ parent[c] = par => c = cur
    BY <1>1 DEF Core, ParentInv
  <1>4. /\ cur' = par /\ page' = par /\ esp0' = par
        /\ mode' = AfterIsr("user", signals[par])
        /\ \A p \in Pids : pid_used'[p] = (p # cur /\ pid_used[p])
        /\ \A u \in Terms : cur_pid'[u] = IF u = t THEN par ELSE cur_pid[u]
        /\ \A p \in Pcbs : frame'[p] = IF p = par THEN "none" ELSE frame[p]
        /\ UNCHANGED <<parent, term_ind, resume>>
    BY <1>1, <1>2, <1>3 DEF ReturnTo, TypeOK
  <1> HIDE DEF par, t
  <1>5. par # cur /\ par # 0
    BY <1>1, <1>2, <1>3, PidFacts
  <1>6. RunningInv'
    BY <1>1, <1>2, <1>3, <1>4, <1>5 DEF RunningInv
  <1>7. IdleInv'
    BY <1>4, <1>5, PidFacts DEF Core, IdleInv, Resumable
  <1>8. ForegroundInv'
    <2>1. ASSUME NEW u \in Terms, cur_pid'[u] # 0
          PROVE  /\ pid_used'[cur_pid'[u]]
                 /\ term_ind'[cur_pid'[u]] = u
                 /\ (cur_pid[u] # cur => Resumable(cur_pid[u]))'
      <3>1. CASE u = t
        BY <1>1, <1>2, <1>3, <1>4, <1>5, <3>1
      <3>2. CASE u # t
        <4>1. cur_pid'[u] = cur_pid[u] /\ cur_pid[u] \in Pids
          BY <1>4, <2>1, <3>2, PidFacts DEF TypeOK
        <4>2. pid_used[cur_pid[u]] /\ term_ind[cur_pid[u]] = u
          BY <4>1, PidFacts DEF Core, ForegroundInv
        <4>3. cur_pid[u] # cur
          BY <3>2, <4>2 DEF t
        <4>4. Resumable(cur_pid[u])
          BY <4>1, <4>3, PidFacts DEF Core, ForegroundInv
        <4> QED
          BY <1>3, <1>4, <4>1, <4>2, <4>3, <4>4 DEF Resumable
      <3> QED
        BY <3>1, <3>2
    <2>2. ASSUME NEW p \in Pids, Resumable(p)'
          PROVE  pid_used'[p] /\ cur_pid'[term_ind'[p]] = p
      <3>1. p # par /\ Resumable(p)
        BY <1>4, <2>2 DEF Resumable
      <3>2. p # cur
        BY <1>1, <3>1 DEF Resumable
      <3>3. pid_used[p] /\ cur_pid[term_ind[p]] = p
        BY <3>1 DEF Core, ForegroundInv
      <3>4. p \in Pcbs /\ term_ind[p] \in Terms /\ term_ind[p] # t
        BY <1>1, <3>2, <3>3, PidFacts DEF TypeOK
      <3> QED
        BY <1>4, <3>2, <3>3, <3>4
    <2> QED
      BY <2>1, <2>2 DEF ForegroundInv
  <1>9. WaitingInv'
    <2> SUFFICES ASSUME NEW p \in Pids, pid_used'[p]
                 PROVE  \/ cur_pid'[term_ind'[p]] = p
                        \/ /\ frame'[p] = "exec"
                           /\ \E c \in Pids : pid_used'[c] /\ parent'[c] = p
      BY DEF WaitingInv
    <2>1. p # cur /\ pid_used[p] /\ p \in Pcbs /\ term_ind[p] \in Terms
      BY <1>4, PidFacts DEF TypeOK
    <2>2. CASE p = par
      BY <1>1, <1>3, <1>4, <2>2
    <2>3. CASE p # par /\ cur_pid[term_ind[p]] = p
      BY <1>1, <1>4, <2>1, <2>3
    <2>4. CASE /\ p # par /\ frame[p] = "exec"
               /\ \E c \in Pids : pid_used[c] /\ parent[c] = p
      BY <1>4, <2>1, <2>4 DEF par
    <2> QED
      BY <2>1, <2>2, <2>3, <2>4 DEF Core, WaitingInv
  <1>10. ParentInv'
    <2> SUFFICES ASSUME NEW p \in Pids, pid_used'[p], parent'[p] # 0
                 PROVE  /\ pid_used'[parent'[p]]
                        /\ frame'[parent'[p]] = "exec"
                        /\ term_ind'[parent'[p]] = term_ind'[p]
                        /\ \A c \in Pids :
                              pid_used'[c] /\ parent'[c] = parent'[p] => c = p
      BY DEF ParentInv
    <2>1. p # cur /\ pid_used[p] /\ parent[p] # 0
      BY <1>4
    <2>2. /\ pid_used[parent[p]]
          /\ frame[parent[p]] = "exec"
          /\ term_ind[parent[p]] = term_ind[p]
          /\ \A c \in Pids : pid_used[c] /\ parent[c] = parent[p] => c = p
      BY <2>1 DEF Core, ParentInv
    <2>3. parent[p] \in Pids /\ parent[p] \in Pcbs /\ parent[p] # cur /\ parent[p] # par
      BY <1>1, <1>3, <2>1, <2>2, PidFacts DEF TypeOK
    <2> QED
      BY <1>4, <2>1, <2>2, <2>3
  <1>11. mode' # "wild"
    BY <1>4 DEF AfterIsr
  <1> QED
    BY <1>6, <1>7, <1>8, <1>9, <1>10, <1>11 DEF IInv

\* IInv is inductive: an interrupt, a system call, a fault or a key press that
\* finds every PCB holding the frame IInv says leaves them so.
LEMMA InvStep == TypeOK /\ IInv /\ [Next]_vars => IInv'
  <1> SUFFICES ASSUME TypeOK, IInv, [Next]_vars PROVE IInv'
    OBVIOUS
  <1>1. CASE Wild \/ UNCHANGED vars
    BY <1>1 DEF Wild, vars, IInv, Sane, RunningInv, IdleInv, ForegroundInv,
                WaitingInv, ParentInv, Resumable
  <1> SUFFICES ASSUME Next, ~Wild PROVE IInv'
    BY <1>1
  <1>2. mode # "wild"
    BY DEF Next, Wild, Tick, Interruptible, FallThrough, FallThroughSame,
           FallThroughSwitch, Execute, Halt, Block, Unblock, SetHandler,
           OtherTrap, Fault, CtrlC, AltF, Alarm, CheckSignals
  <1>3. Core
    BY <1>2 DEF IInv, Sane, Core
  <1>4. cur = 0 => mode \in {"wait", "uninit"}
    BY <1>3 DEF Core, IdleInv
  <1>5. cur # 0 \/ mode = "uninit" => resume[0] = "wait"
    BY <1>3 DEF Core, IdleInv
  <1>6. CASE Tick
    <2>1. CASE PitLaunch
      BY <1>3, <1>6, <2>1, LaunchStep, NextTermType DEF PitLaunch, Tick, TypeOK
    <2>2. CASE PitNoPid
      <3>1. cur # 0 \/ mode' = "uninit" => resume'[0] = "wait"
        BY <1>4, <1>5, <1>6, <2>2, PidFacts
        DEF PitNoPid, Tick, TypeOK, Interruptible
      <3> QED
        BY <1>3, <2>2, <3>1, QuietStep DEF PitNoPid, procVars, mmVars
    <2>3. CASE PitSame
      <3>1. cur # 0
        BY <2>3 DEF PitSame
      <3> QED
        BY <1>3, <1>5, <2>3, <3>1, QuietStep DEF PitSame, procVars, mmVars, saved
    <2>4. CASE PitSwitch
      <3> DEFINE next == cur_pid[NextTerm]
      <3>1. NextTerm \in Terms
        BY NextTermType DEF TypeOK
      <3>2. next \in Pcbs /\ next # 0 /\ next # cur
        BY <2>4, <3>1 DEF PitSwitch, TypeOK
      <3>3. Resumable(next)
        BY <1>3, <3>1, <3>2 DEF Core, ForegroundInv
      <3>4. mode \in Interruptible /\ (cur = 0 => mode = "wait")
        BY <1>4, <1>6 DEF Tick, Interruptible
      <3> QED
        BY <1>3, <2>4, <3>2, <3>3, <3>4, SwitchStep DEF PitSwitch, procVars
    <2> QED
      BY <1>6, <2>1, <2>2, <2>3, <2>4 DEF Tick, pit_isr
  <1>7. CASE FallThroughSame
    <2>1. cur = 0 => mode' = "wait"
      BY <1>5, <1>7 DEF FallThroughSame, AfterIsr
    <2>2. cur # 0 => resume'[0] = "wait"
      BY <1>5, <1>7, PidFacts DEF FallThroughSame, TypeOK
    <2>3. mode' # "uninit"
      BY <1>7 DEF FallThroughSame, AfterIsr, TypeOK, Interruptible
    <2> QED
      BY <1>3, <1>7, <2>1, <2>2, <2>3, QuietStep
      DEF FallThroughSame, procVars, mmVars
  <1>8. CASE FallThroughSwitch
    <2>1. PICK next \in UNINIT \ {cur} : SwitchTo(next, resume[cur])
      BY <1>8 DEF FallThroughSwitch
    <2>2. CASE Resumable(next)
      <3>1. next \in Pcbs
        BY <2>2 DEF Resumable
      <3>2. resume[cur] \in Interruptible /\ (cur = 0 => resume[cur] = "wait")
        BY <1>5, <1>8 DEF FallThroughSwitch, TypeOK
      <3> QED
        BY <1>3, <1>8, <2>1, <2>2, <3>1, <3>2, SwitchStep
        DEF FallThroughSwitch, procVars
    <2>3. CASE ~Resumable(next)
      BY <2>1, <2>3 DEF SwitchTo, IInv, Sane
    <2> QED
      BY <2>2, <2>3
  <1>9. CASE Execute
    BY <1>3, <1>4, <1>9, ExecuteStep DEF Execute
  <1>10. ASSUME NEW m, m # "uninit", HaltCur(m), cur # 0,
                UNCHANGED <<parent, term_ind, resume>>
         PROVE  IInv'
    <2>1. CASE parent[cur] = 0
      BY <1>3, <1>5, <1>10, <2>1, QuietStep DEF HaltCur, Restart, mmVars
    <2>2. CASE parent[cur] # 0
      BY <1>3, <1>10, <2>2, ReturnStep DEF HaltCur
    <2> QED
      BY <2>1, <2>2
  <1>11. CASE Halt
    BY <1>4, <1>10, <1>11 DEF Halt, AfterIsr
  <1>12. CASE Block \/ OtherTrap \/ SetHandler \/ Fault
    <2>1. cur # 0
      BY <1>4, <1>12 DEF Block, OtherTrap, SetHandler, Fault
    <2> QED
      BY <1>3, <1>5, <1>12, <2>1, QuietStep
      DEF Block, OtherTrap, SetHandler, Fault, procVars, mmVars, saved
  <1>13. CASE Unblock
    BY <1>3, <1>5, <1>13, QuietStep DEF Unblock, procVars, mmVars, saved
  <1>14. CASE CtrlC \/ AltF \/ Alarm
    <2>1. cur = 0 => mode = "wait"
      BY <1>4, <1>14 DEF CtrlC, AltF, Alarm, Interruptible
    <2>2. cur = 0 => mode' = "wait"
      BY <1>14, <2>1 DEF CtrlC, AltF, Alarm, AfterIsr
    <2>3. mode' # "uninit"
      BY <1>14 DEF CtrlC, AltF, Alarm, AfterIsr, Interruptible
    <2> QED
      BY <1>3, <1>5, <1>14, <2>2, <2>3, QuietStep
      DEF CtrlC, AltF, Alarm, procVars, mmVars, saved
  <1>15. CASE CheckSignals
    <2>1. cur # 0
      BY <1>4, <1>15 DEF CheckSignals
    <2>2. CASE \E m : m # "uninit" /\ HaltCur(m)
      BY <1>10, <1>15, <2>1, <2>2 DEF CheckSignals
    <2>3. CASE UNCHANGED <<pid_used, cur_pid, cur, mmVars, frame>>
      BY <1>3, <1>5, <1>15, <2>1, <2>3, QuietStep DEF CheckSignals, mmVars
    <2> QED
      BY <1>15, <2>2, <2>3 DEF CheckSignals, AfterIsr
  <1> QED
    BY <1>6, <1>7, <1>8, <1>9, <1>11, <1>12, <1>13, <1>14, <1>15
    DEF Next, FallThrough, Wild

----------------------------------------------------------------------------
\* The idle loop at the end of entry() satisfies the invariant.
LEMMA InvInit == Init => IInv
  BY PidFacts
  DEF Init, IInv, Sane, RunningInv, IdleInv, ForegroundInv, WaitingInv,
      ParentInv, Resumable

\* The invariant holds in every reachable state of the kernel.
LEMMA InvAlways == Spec => [](TypeOK /\ IInv)
  BY TypeCorrect, InvInit, InvStep, PTL DEF Spec

\* The process that runs has its own page mapped, its own kernel stack in the
\* TSS and is its terminal's foreground, whatever pit_isr, _syscall_execute,
\* _syscall_halt and check_signals did before.
THEOREM RunsInOwnAddressSpace == Spec => []AddressSpace
  <1>1. TypeOK /\ IInv => AddressSpace
    BY DEF IInv, RunningInv, AddressSpace
  <1> QED
    BY <1>1, InvAlways, PTL

\* What pit_isr finds in terms[].cur_pid is a live process with a saved
\* context.
THEOREM ForegroundAlwaysSaved == Spec => []ForegroundSaved
  <1>1. TypeOK /\ IInv => ForegroundSaved
    BY DEF IInv, ForegroundInv, ForegroundSaved
  <1> QED
    BY <1>1, InvAlways, PTL

\* The process table is a forest of execute calls: every process is in the
\* foreground or waits for its only child.
THEOREM CallChainsHold == Spec => []CallChains
  <1>1. TypeOK /\ IInv => CallChains
    BY DEF IInv, WaitingInv, ParentInv, CallChains
  <1> QED
    BY <1>1, InvAlways, PTL

\* _syscall_halt never removes a process without parent, and no execute takes
\* its pid.
THEOREM RootsAlwaysStay == Spec => RootsStay
  <1>1. TypeOK /\ IInv /\ [Next]_vars =>
            [\A p \in Pids : pid_used[p] /\ parent[p] = 0 =>
                pid_used'[p] /\ parent'[p] = 0 /\ term_ind'[p] = term_ind[p]]_vars
    <2> SUFFICES ASSUME TypeOK, IInv, Next,
                        NEW p \in Pids, pid_used[p], parent[p] = 0
                 PROVE  pid_used'[p] /\ parent'[p] = 0 /\ term_ind'[p] = term_ind[p]
      OBVIOUS
    <2>1. ASSUME NEW pid \in LowestFree, NEW par, NEW t, NEW f,
                 StartTask(pid, par, t, f)
          PROVE  pid_used'[p] /\ parent'[p] = 0 /\ term_ind'[p] = term_ind[p]
      BY <2>1, PidFacts DEF StartTask, LowestFree, TypeOK
    <2>2. ASSUME NEW m, HaltCur(m), UNCHANGED <<parent, term_ind>>
          PROVE  pid_used'[p] /\ parent'[p] = 0 /\ term_ind'[p] = term_ind[p]
      BY <2>2 DEF HaltCur, Restart, ReturnTo, TypeOK
    <2>3. CASE PitLaunch
      BY <2>1, <2>3 DEF PitLaunch
    <2>4. CASE Execute
      BY <2>1, <2>4 DEF Execute
    <2>5. CASE Halt \/ CheckSignals
      BY <2>2, <2>5 DEF Halt, CheckSignals
    <2>6. CASE UNCHANGED procVars
      BY <2>6 DEF procVars
    <2> QED
      BY <2>3, <2>4, <2>5, <2>6
      DEF Next, Tick, pit_isr, PitNoPid, PitSame, PitSwitch, FallThrough,
          FallThroughSame, FallThroughSwitch, Block, Unblock, SetHandler,
          OtherTrap, Fault, CtrlC, AltF, Alarm, Wild, vars, procVars
  <1> QED
    BY <1>1, InvAlways, PTL DEF Spec, RootsStay

\* In a state that satisfies the invariant, a step other than the rest of pit_isr
\* with an unassigned next_pid loads only contexts that were saved.
LEMMA WildStep ==
    TypeOK /\ IInv /\ [Next]_vars =>
        [mode' = "wild" => mode \in {"uninit", "wild"}]_vars
  <1> SUFFICES ASSUME TypeOK, IInv, Next, mode \notin {"uninit", "wild"}
               PROVE  mode' # "wild"
    OBVIOUS
  <1>1. Core
    BY DEF IInv, Sane, Core
  <1>2. mode \in {"user", "wait", "ret"}
    BY DEF TypeOK, Modes
  <1>3. \A S : AfterIsr("user", S) # "wild" /\ AfterIsr(mode, S) # "wild"
    BY <1>2 DEF AfterIsr
  <1>4. CASE PitSwitch
    <2> DEFINE next == cur_pid[NextTerm]
    <2>1. NextTerm \in Terms
      BY NextTermType DEF TypeOK
    <2>2. next # 0 /\ next # cur
      BY <1>4 DEF PitSwitch
    <2>3. Resumable(next)
      BY <1>1, <2>1, <2>2 DEF Core, ForegroundInv
    <2>4. resume[next] \in Interruptible
      BY <2>3 DEF Resumable, TypeOK
    <2> QED
      BY <1>4, <2>3, <2>4 DEF PitSwitch, SwitchTo, AfterIsr, Interruptible
  <1>5. ASSUME NEW m, m # "wild", HaltCur(m), cur # 0
        PROVE  mode' # "wild"
    <2>1. CASE parent[cur] = 0
      BY <1>5, <2>1 DEF HaltCur, Restart
    <2>2. CASE parent[cur] # 0
      <3>1. frame[parent[cur]] = "exec"
        BY <1>1, <1>5, <2>2, PidFacts DEF Core, RunningInv, ParentInv, TypeOK
      <3> QED
        BY <1>3, <1>5, <2>2, <3>1 DEF HaltCur, ReturnTo
    <2> QED
      BY <2>1, <2>2
  <1>6. mode # "wait" => cur # 0
    BY <1>1, <1>2 DEF Core, IdleInv
  <1>7. CASE Halt
    BY <1>3, <1>5, <1>6, <1>7 DEF Halt
  <1>8. CASE CheckSignals
    BY <1>3, <1>5, <1>6, <1>8 DEF CheckSignals
  <1>9. CASE PitLaunch \/ Execute
    BY <1>9 DEF PitLaunch, Execute, StartTask
  <1>10. CASE PitNoPid \/ PitSame \/ Block \/ Unblock \/ SetHandler \/ OtherTrap
              \/ Fault \/ CtrlC \/ AltF \/ Alarm
    BY <1>3, <1>10 DEF PitNoPid, PitSame, Block, Unblock, SetHandler,
                       OtherTrap, Fault, CtrlC, AltF, Alarm
  <1> QED
    BY <1>2, <1>4, <1>7, <1>8, <1>9, <1>10
    DEF Next, Tick, pit_isr, FallThrough, FallThroughSame, FallThroughSwitch, Wild

\* A step that resumes a context that was never saved is a step of pit_isr
\* with the uninitialised next_pid; no other tick, halt or signal does it.
THEOREM WildOnlyFromUninit == Spec => OnlyUninitGoesWild
  BY WildStep, InvAlways, PTL DEF Spec, OnlyUninitGoesWild

\* If the uninitialised next_pid always happens to be 0, control only ever
\* returns to the idle loop and the kernel never leaves its saved contexts:
\* the idle loop's own PCB always holds one while a process runs.
THEOREM ZeroIsHarmless == ASSUME UNINIT \subseteq {0} PROVE Spec => []Sane
  <1>1. Init => Sane
    BY DEF Init, Sane
  <1>2. TypeOK /\ IInv /\ Sane /\ [Next]_vars => Sane'
    <2> SUFFICES ASSUME TypeOK, IInv, Sane, [Next]_vars, mode' = "wild"
                 PROVE  FALSE
      BY DEF Sane
    <2>1. mode = "uninit" /\ Next
      BY WildStep DEF vars, Sane
    <2>2. FallThrough
      BY <2>1
      DEF Next, Tick, Interruptible, Execute, Halt, Block, Unblock, SetHandler,
          OtherTrap, Fault, CtrlC, AltF, Alarm, CheckSignals, Wild
    <2>3. resume[cur] \in Interruptible /\ resume[0] \in Interruptible
      BY PidFacts DEF TypeOK
    <2>4. CASE FallThroughSame
      BY <2>3, <2>4 DEF FallThroughSame, AfterIsr, Interruptible
    <2>5. CASE FallThroughSwitch
      <3>1. cur # 0 /\ SwitchTo(0, resume[cur])
        BY <2>5 DEF FallThroughSwitch
      <3>2. Resumable(0)
        BY <3>1 DEF IInv, IdleInv
      <3> QED
        BY <2>3, <3>1, <3>2 DEF SwitchTo, AfterIsr, Interruptible
    <2> QED
      BY <2>2, <2>4, <2>5 DEF FallThrough
  <1> QED
    BY <1>1, <1>2, InvAlways, PTL DEF Spec
----------------------------------------------------------------------------
(***************************************************************************)
(* execute and halt implement the stack of programs of each terminal.  s   *)
(* is the family of stacks a process table and the cur_pid fields stand    *)
(* for: the top is the foreground, every program on a stack is in the      *)
(* table and belongs to the terminal, and its parent is the one below.     *)
(***************************************************************************)
Links(q, t, used, par, ti) ==
    \A i \in 1 .. Len(q) : /\ used[q[i]]
                           /\ ti[q[i]] = t
                           /\ par[q[i]] = IF i = 1 THEN 0 ELSE q[i - 1]

Once(q) == \A i, j \in 1 .. Len(q) : q[i] = q[j] => i = j

TopIs(q, p) == p = IF Len(q) = 0 THEN 0 ELSE q[Len(q)]

Stacked(s, used, par, ti, top) ==
    /\ s \in [Terms -> Seq(Pids)]
    /\ \A t \in Terms : TopIs(s[t], top[t]) /\ Links(s[t], t, used, par, ti) /\ Once(s[t])

\* A stack that holds no program twice fits into the process table.
LEMMA StackFits ==
    ASSUME NEW q \in Seq(Pids), Once(q)
    PROVE  Len(q) \in 0 .. MAX_PROC_NUM - 1
  <1>1. Len(q) \in Nat /\ q \in [1 .. Len(q) -> Pids]
    OBVIOUS
  <1>2. MAX_PROC_NUM - 1 \in Nat /\ 1 \in Int /\ MAX_PROC_NUM - 1 \in Int
    BY ConstAssumption
  <1>3. IsFiniteSet(Pids) /\ Cardinality(Pids) = MAX_PROC_NUM - 1
    BY <1>2, FS_Interval, ConstAssumption DEF Pids
  <1>4. IsFiniteSet(1 .. Len(q)) /\ Cardinality(1 .. Len(q)) = Len(q)
    BY <1>1, FS_Interval
  <1>5. IsInjective(q)
    BY <1>1 DEF IsInjective, Once
  <1>6. q \in Injection(1 .. Len(q), Pids)
    BY <1>1, <1>5 DEF Injection
  <1>7. Cardinality(1 .. Len(q)) <= Cardinality(Pids)
    BY <1>3, <1>6, FS_Injection DEF ExistsInjection
  <1> QED
    BY <1>1, <1>2, <1>3, <1>4, <1>7

Step(c, par) == [p \in Pcbs |-> IF p = 0 THEN <<>> ELSE Append(c[par[p]], p)]

\* What the recursive definition of the chains computes from one length to the
\* next.
LEMMA ChainsAre ==
    ASSUME NEW par \in [Pcbs -> Pcbs]
    PROVE  \A n \in 0 .. MAX_PROC_NUM :
             /\ Chains(par)[n] \in [Pcbs -> Seq(Pids)]
             /\ Chains(par)[n][0] = <<>>
             /\ n # 0 => Chains(par)[n] = Step(Chains(par)[n - 1], par)
  <1> DEFINE V == [Pcbs -> Seq(Pids)]
             c == [p \in Pcbs |-> <<>>]
             D == [q \in Nat \X V |-> Step(q[2], par)]
             Is(g) == g = [n \in 0 .. MAX_PROC_NUM |->
                             [p \in Pcbs |-> IF n = 0 \/ p = 0 THEN <<>>
                                             ELSE Append(g[n - 1][par[p]], p)]]
             chain == CHOOSE g : Is(g)
  <1>1. MAX_PROC_NUM \in Nat
    BY ConstAssumption
  <1>2. c \in V
    OBVIOUS
  <1>3. \A v \in V : Step(v, par) \in V
    BY PidFacts DEF Step
  <1>4. D \in [Nat \X V -> V]
    BY <1>3
  <1>5. \A n, v : n \in Nat /\ v \in V => D[<<n, v>>] = Step(v, par)
    OBVIOUS
  <1> HIDE DEF D
  <1>6. PICK f \in [0 .. MAX_PROC_NUM -> V] : Iterates(f, MAX_PROC_NUM, c, D)
    BY <1>1, <1>2, <1>4, Recursion
  <1> HIDE DEF V, c
  <1>7. ASSUME NEW n \in 1 .. MAX_PROC_NUM PROVE f[n] = Step(f[n - 1], par)
    <2>1. n \in Nat /\ n - 1 \in 0 .. MAX_PROC_NUM
      BY <1>1
    <2>2. f[n - 1] \in V /\ f[n] = D[<<n, f[n - 1]>>]
      BY <1>6, <2>1 DEF Iterates
    <2> QED
      BY <1>5, <2>1, <2>2
  <1>8. f[0] = c
    BY <1>6 DEF Iterates
  <1>9. Is(f)
    <2>1. ASSUME NEW n \in 0 .. MAX_PROC_NUM
          PROVE  f[n] = [p \in Pcbs |-> IF n = 0 \/ p = 0 THEN <<>>
                                        ELSE Append(f[n - 1][par[p]], p)]
      <3>1. CASE n = 0
        BY <1>8, <3>1 DEF c
      <3>2. CASE n # 0
        <4>1. n \in 1 .. MAX_PROC_NUM
          BY <1>1, <3>2
        <4> QED
          BY <1>7, <3>2, <4>1 DEF Step
      <3> QED
        BY <3>1, <3>2
    <2> QED
      BY <1>6, <2>1
  <1>10. Is(chain)
    BY <1>9
  <1>11. Chains(par) = chain
    BY DEF Chains
  <1> HIDE DEF chain
  <1> DEFINE S == {n \in 0 .. MAX_PROC_NUM : chain[n] \in V}
  <1>12. ASSUME NEW n \in 1 .. MAX_PROC_NUM PROVE chain[n] = Step(chain[n - 1], par)
    <2>1. n \in 0 .. MAX_PROC_NUM /\ n # 0
      BY <1>1
    <2>2. chain[n] = [p \in Pcbs |-> IF n = 0 \/ p = 0 THEN <<>>
                                     ELSE Append(chain[n - 1][par[p]], p)]
      BY <1>10, <2>1
    <2> QED
      BY <2>1, <2>2 DEF Step
  <1>13. 0 \in S
    <2>1. chain[0] = c
      BY <1>1, <1>10 DEF c
    <2>2. 0 \in 0 .. MAX_PROC_NUM
      BY <1>1
    <2> QED
      BY <1>2, <2>1, <2>2
  <1>14. \A n \in 0 .. MAX_PROC_NUM - 1 : n \in S => n + 1 \in S
    BY <1>1, <1>3, <1>12
  <1> HIDE DEF S
  <1>15. 0 .. MAX_PROC_NUM \subseteq S
    BY <1>1, <1>13, <1>14, UpTo
  <1> QED
    <2> SUFFICES ASSUME NEW n \in 0 .. MAX_PROC_NUM
                 PROVE  /\ chain[n] \in V
                        /\ chain[n][0] = <<>>
                        /\ n # 0 => chain[n] = Step(chain[n - 1], par)
      BY <1>11 DEF V
    <2>1. chain[n] \in V
      BY <1>15 DEF S
    <2>2. CASE n = 0
      <3>1. chain[0] = c
        BY <1>1, <1>10 DEF c
      <3> QED
        BY <2>1, <2>2, <3>1, PidFacts DEF c
    <2>3. CASE n # 0
      <3>1. n \in 1 .. MAX_PROC_NUM
        BY <1>1, <2>3
      <3>2. chain[n] = Step(chain[n - 1], par)
        BY <1>12, <3>1
      <3> QED
        BY <2>1, <3>2, PidFacts DEF Step
    <2> QED
      BY <2>2, <2>3

\* Following the parents from a program on a stack gives the stack up to it.
LEMMA ChainIsStack ==
    ASSUME NEW q \in Seq(Pids), NEW t, NEW used, NEW par \in [Pcbs -> Pcbs], NEW ti,
           Links(q, t, used, par, ti), Len(q) <= MAX_PROC_NUM - 1
    PROVE  \A k \in 0 .. Len(q) :
             k # 0 => \A n \in k .. MAX_PROC_NUM : Chains(par)[n][q[k]] = SubSeq(q, 1, k)
  <1> DEFINE P(k) == k # 0 => \A n \in k .. MAX_PROC_NUM : Chains(par)[n][q[k]] = SubSeq(q, 1, k)
             S == {k \in 0 .. Len(q) : P(k)}
  <1>1. Len(q) \in Nat /\ MAX_PROC_NUM \in Nat
    BY ConstAssumption
  <1>2. 0 \in S
    BY <1>1
  <1>3. ASSUME NEW k \in 0 .. Len(q) - 1, P(k), NEW n \in k + 1 .. MAX_PROC_NUM
        PROVE  Chains(par)[n][q[k + 1]] = SubSeq(q, 1, k + 1)
    <2>1. n \in 0 .. MAX_PROC_NUM /\ n # 0 /\ n - 1 \in 0 .. MAX_PROC_NUM /\ n - 1 \in k .. MAX_PROC_NUM
      BY <1>1
    <2>2. k + 1 \in 1 .. Len(q) /\ q[k + 1] \in Pids /\ q[k + 1] \in Pcbs /\ q[k + 1] # 0
      BY <1>1, PidFacts
    <2> DEFINE c == Chains(par)[n - 1]
               p == q[k + 1]
    <2>3. Chains(par)[n] = Step(c, par)
      BY <2>1, ChainsAre
    <2>4. c \in [Pcbs -> Seq(Pids)]
      BY <2>1, ChainsAre
    <2>5. Chains(par)[n][p] = Append(c[par[p]], p)
      BY <2>2, <2>3 DEF Step
    <2>6. c[par[p]] = SubSeq(q, 1, k)
      <3>1. CASE k = 0
        <4>1. par[p] = 0
          BY <2>2, <3>1 DEF Links
        <4>2. c[0] = <<>>
          BY <2>1, ChainsAre
        <4>3. SubSeq(q, 1, 0) = <<>>
          BY <1>1
        <4> QED
          BY <3>1, <4>1, <4>2, <4>3
      <3>2. CASE k # 0
        <4>1. par[p] = q[k]
          BY <1>1, <2>2, <3>2 DEF Links
        <4> QED
          BY <1>3, <2>1, <3>2, <4>1
      <3> QED
        BY <3>1, <3>2
    <2>7. Append(SubSeq(q, 1, k), q[k + 1]) = SubSeq(q, 1, k + 1)
      BY <1>1, <2>2
    <2> QED
      BY <2>5, <2>6, <2>7
  <1>4. \A k \in 0 .. Len(q) - 1 : k \in S => k + 1 \in S
    <2> SUFFICES ASSUME NEW k \in 0 .. Len(q) - 1, k \in S PROVE k + 1 \in S
      OBVIOUS
    <2>1. P(k) /\ k + 1 \in 0 .. Len(q)
      BY <1>1
    <2> HIDE DEF P
    <2>2. P(k + 1)
      BY <1>3, <2>1 DEF P
    <2> QED
      BY <2>1, <2>2
  <1> HIDE DEF S
  <1>5. 0 .. Len(q) \subseteq S
    BY <1>1, <1>2, <1>4, UpTo
  <1> QED
    BY <1>5 DEF S

\* A process table and its foreground processes stand for one family of stacks.
LEMMA StacksAreThese ==
    ASSUME NEW s, NEW used, NEW par \in [Pcbs -> Pcbs], NEW ti, NEW top,
           Stacked(s, used, par, ti, top)
    PROVE  StacksOf(par, top) = s
  <1>1. s \in [Terms -> Seq(Pids)]
    BY DEF Stacked
  <1>2. ASSUME NEW t \in Terms PROVE Chains(par)[MAX_PROC_NUM][top[t]] = s[t]
    <2> DEFINE q == s[t]
    <2>1. q \in Seq(Pids) /\ TopIs(q, top[t]) /\ Links(q, t, used, par, ti) /\ Once(q)
      BY DEF Stacked
    <2> HIDE DEF q
    <2>2. Len(q) \in 0 .. MAX_PROC_NUM - 1 /\ MAX_PROC_NUM \in Nat
      BY <2>1, StackFits, ConstAssumption
    <2>3. CASE Len(q) = 0
      <3>1. top[t] = 0 /\ q = <<>>
        BY <2>1, <2>3 DEF TopIs
      <3>2. Chains(par)[MAX_PROC_NUM][0] = <<>>
        BY <2>2, ChainsAre
      <3> QED
        BY <3>1, <3>2 DEF q
    <2>4. CASE Len(q) # 0
      <3>1. top[t] = q[Len(q)]
        BY <2>1, <2>4 DEF TopIs
      <3>2. Len(q) \in 0 .. Len(q) /\ MAX_PROC_NUM \in Len(q) .. MAX_PROC_NUM /\ Len(q) <= MAX_PROC_NUM - 1
        BY <2>2
      <3>3. Chains(par)[MAX_PROC_NUM][q[Len(q)]] = SubSeq(q, 1, Len(q))
        BY <2>1, <2>4, <3>2, ChainIsStack
      <3>4. SubSeq(q, 1, Len(q)) = q
        BY <2>1
      <3> QED
        BY <3>1, <3>3, <3>4 DEF q
    <2> QED
      BY <2>3, <2>4
  <1> QED
    BY <1>1, <1>2 DEF StacksOf

\* A new process of terminal t over its foreground (none if it has no process)
\* is pushed on the stack of t.
LEMMA StackPush ==
    ASSUME NEW s, NEW used \in [Pids -> BOOLEAN], NEW par \in [Pcbs -> Pcbs],
           NEW ti \in [Pcbs -> Terms], NEW top \in [Terms -> Pcbs],
           Stacked(s, used, par, ti, top), NEW t \in Terms, NEW p \in Pids, ~used[p]
    PROVE  Stacked([s EXCEPT ![t] = Append(s[t], p)], [used EXCEPT ![p] = TRUE],
                   [par EXCEPT ![p] = top[t]], [ti EXCEPT ![p] = t], [top EXCEPT ![t] = p])
  <1> DEFINE s1 == [s EXCEPT ![t] = Append(s[t], p)]
             used1 == [used EXCEPT ![p] = TRUE]
             par1 == [par EXCEPT ![p] = top[t]]
             ti1 == [ti EXCEPT ![p] = t]
             top1 == [top EXCEPT ![t] = p]
  <1>1. s \in [Terms -> Seq(Pids)] /\ s1 \in [Terms -> Seq(Pids)]
    BY DEF Stacked
  <1>2. ASSUME NEW u \in Terms, u # t
        PROVE  TopIs(s1[u], top1[u]) /\ Links(s1[u], u, used1, par1, ti1) /\ Once(s1[u])
    <2> DEFINE q == s[u]
    <2>1. s1[u] = q /\ top1[u] = top[u] /\ q \in Seq(Pids)
      BY <1>1, <1>2
    <2>2. TopIs(q, top[u]) /\ Links(q, u, used, par, ti) /\ Once(q)
      BY DEF Stacked
    <2> HIDE DEF q
    <2>3. Links(q, u, used1, par1, ti1)
      BY <2>1, <2>2, PidFacts DEF Links
    <2> HIDE DEF s1, used1, par1, ti1, top1
    <2> QED
      BY <2>1, <2>2, <2>3
  <1>3. TopIs(s1[t], top1[t]) /\ Links(s1[t], t, used1, par1, ti1) /\ Once(s1[t])
    <2> DEFINE q == s[t]
    <2>1. s1[t] = Append(q, p) /\ top1[t] = p /\ q \in Seq(Pids)
      BY <1>1
    <2>2. TopIs(q, top[t]) /\ Links(q, t, used, par, ti) /\ Once(q)
      BY DEF Stacked
    <2> HIDE DEF q
    <2>3. TopIs(Append(q, p), p)
      BY <2>1 DEF TopIs
    <2>4. ASSUME NEW i \in 1 .. Len(q) PROVE q[i] # p /\ q[i] \in Pids
      BY <2>1, <2>2 DEF Links
    <2>5. Links(Append(q, p), t, used1, par1, ti1)
      <3>1. ASSUME NEW i \in 1 .. Len(q) + 1
            PROVE  /\ used1[Append(q, p)[i]]
                   /\ ti1[Append(q, p)[i]] = t
                   /\ par1[Append(q, p)[i]] = IF i = 1 THEN 0 ELSE Append(q, p)[i - 1]
        <4>1. CASE i = Len(q) + 1
          <5>1. Append(q, p)[i] = p
            BY <2>1, <4>1
          <5>2. used1[p] /\ ti1[p] = t /\ par1[p] = top[t]
            BY PidFacts
          <5>3. top[t] = IF i = 1 THEN 0 ELSE Append(q, p)[i - 1]
            BY <2>1, <2>2, <4>1 DEF TopIs
          <5> QED
            BY <5>1, <5>2, <5>3
        <4>2. CASE i # Len(q) + 1
          <5>1. i \in 1 .. Len(q) /\ Append(q, p)[i] = q[i] /\ (i # 1 => Append(q, p)[i - 1] = q[i - 1])
            BY <2>1, <4>2
          <5>2. q[i] # p /\ q[i] \in Pids
            BY <2>4, <5>1
          <5>3. used1[q[i]] /\ ti1[q[i]] = t /\ par1[q[i]] = par[q[i]]
            BY <2>2, <5>1, <5>2, PidFacts DEF Links
          <5> QED
            BY <2>2, <5>1, <5>3 DEF Links
        <4> QED
          BY <4>1, <4>2
      <3>2. Len(Append(q, p)) = Len(q) + 1
        BY <2>1
      <3> HIDE DEF used1, ti1, par1
      <3> QED
        BY <3>1, <3>2 DEF Links
    <2>6. Once(Append(q, p))
      BY <2>1, <2>2, <2>4 DEF Once
    <2> HIDE DEF s1, used1, par1, ti1, top1
    <2> QED
      BY <2>1, <2>3, <2>5, <2>6
  <1> HIDE DEF s1, used1, par1, ti1, top1
  <1>4. Stacked(s1, used1, par1, ti1, top1)
    BY <1>1, <1>2, <1>3 DEF Stacked
  <1> QED
    BY <1>4 DEF s1, used1, par1, ti1, top1

HasParent(p, par) == p \in Pids /\ par[p] # 0
Tall(s, t) == Len(s[t]) > 1
Popped(s, s1, used, used1, par, top, top1, t) ==
    /\ s1 = [s EXCEPT ![t] = SubSeq(s[t], 1, Len(s[t]) - 1)]
    /\ used1 = [used EXCEPT ![top[t]] = FALSE]
    /\ top1 = [top EXCEPT ![t] = par[top[t]]]

\* The end of a program with a parent pops the stack of its terminal, which had
\* at least two programs.
LEMMA StackPop ==
    ASSUME NEW s, NEW used \in [Pids -> BOOLEAN], NEW par \in [Pcbs -> Pcbs],
           NEW ti \in [Pcbs -> Terms], NEW top \in [Terms -> Pcbs],
           Stacked(s, used, par, ti, top), NEW t \in Terms, HasParent(top[t], par),
           NEW s1, NEW used1, NEW top1, Popped(s, s1, used, used1, par, top, top1, t)
    PROVE  Tall(s, t) /\ Stacked(s1, used1, par, ti, top1)
  <1> DEFINE p == top[t]
             q == s[t]
             r == SubSeq(q, 1, Len(q) - 1)
  <1>a. p \in Pids /\ par[p] # 0 /\ top[t] = p
    BY DEF HasParent
  <1>b. /\ s1 = [s EXCEPT ![t] = r]
        /\ used1 = [used EXCEPT ![p] = FALSE]
        /\ top1 = [top EXCEPT ![t] = par[p]]
    BY DEF Popped
  <1> HIDE DEF p
  <1>1. s \in [Terms -> Seq(Pids)] /\ q \in Seq(Pids)
    BY DEF Stacked
  <1>2. TopIs(q, top[t]) /\ Links(q, t, used, par, ti) /\ Once(q)
    BY DEF Stacked
  <1> HIDE DEF q
  <1>3. Len(q) # 0 /\ q[Len(q)] = p
    BY <1>a, <1>2, PidFacts DEF TopIs
  <1>4. Len(q) \in Nat /\ Len(q) \in 1 .. Len(q)
    BY <1>1, <1>3
  <1>5. par[p] = IF Len(q) = 1 THEN 0 ELSE q[Len(q) - 1]
    BY <1>a, <1>2, <1>3, <1>4 DEF Links
  <1>6. Len(q) > 1 /\ par[p] = q[Len(q) - 1] /\ ti[p] = t
    BY <1>a, <1>2, <1>3, <1>4, <1>5 DEF Links
  <1>7. r \in Seq(Pids) /\ Len(r) = Len(q) - 1 /\ \A i \in 1 .. Len(q) - 1 : r[i] = q[i]
    BY <1>1, <1>4, <1>6
  <1> HIDE DEF r
  <1>8. ASSUME NEW i \in 1 .. Len(r) PROVE r[i] \in Pids /\ r[i] # p
    <2>1. i \in 1 .. Len(q) /\ r[i] = q[i] /\ i # Len(q)
      BY <1>4, <1>7
    <2>2. q[i] \in Pids
      BY <1>1, <2>1
    <2>3. q[i] # q[Len(q)]
      BY <1>2, <1>4, <2>1 DEF Once
    <2> QED
      BY <1>3, <2>1, <2>2, <2>3
  <1>9. TopIs(r, par[p])
    <2>1. Len(q) - 1 \in 1 .. Len(q) - 1 /\ Len(r) # 0
      BY <1>4, <1>6, <1>7
    <2>2. r[Len(q) - 1] = q[Len(q) - 1]
      BY <1>7, <2>1
    <2> QED
      BY <1>6, <1>7, <2>1, <2>2 DEF TopIs
  <1>10. Once(r)
    BY <1>2, <1>4, <1>7 DEF Once
  <1>11. Links(r, t, used1, par, ti)
    <2> SUFFICES ASSUME NEW i \in 1 .. Len(r)
                 PROVE  used1[r[i]] /\ ti[r[i]] = t /\ par[r[i]] = IF i = 1 THEN 0 ELSE r[i - 1]
      BY DEF Links
    <2>1. i \in 1 .. Len(q) /\ r[i] = q[i] /\ (i # 1 => r[i - 1] = q[i - 1])
      BY <1>4, <1>7
    <2>2. used1[r[i]] = used[r[i]]
      BY <1>a, <1>b, <1>8
    <2> QED
      BY <1>2, <2>1, <2>2 DEF Links
  <1>12. ASSUME NEW u \in Terms, u # t
         PROVE  TopIs(s1[u], top1[u]) /\ Links(s1[u], u, used1, par, ti) /\ Once(s1[u])
    <2>1. s1[u] = s[u] /\ top1[u] = top[u]
      BY <1>b, <1>1, <1>12
    <2>2. TopIs(s[u], top[u]) /\ Links(s[u], u, used, par, ti) /\ Once(s[u]) /\ s[u] \in Seq(Pids)
      BY <1>1 DEF Stacked
    <2>3. Links(s[u], u, used1, par, ti)
      BY <1>a, <1>b, <1>6, <1>12, <2>2 DEF Links
    <2> QED
      BY <2>1, <2>2, <2>3
  <1>13. s1[t] = r /\ top1[t] = par[p] /\ s1 \in [Terms -> Seq(Pids)]
    BY <1>b, <1>1, <1>7
  <1>14. Stacked(s1, used1, par, ti, top1)
    BY <1>9, <1>10, <1>11, <1>12, <1>13 DEF Stacked
  <1> QED
    BY <1>6, <1>14 DEF Tall, q

StacksInv == Stacked(stacks, pid_used, parent, term_ind, cur_pid)

\* At boot no terminal has a program.
LEMMA StacksInit == Init => StacksInv /\ Abstract!StackInit
  <1> SUFFICES ASSUME Init PROVE StacksInv /\ Abstract!StackInit
    OBVIOUS
  <1> DEFINE s == [t \in Terms |-> <<>>]
  <1>1. Stacked(s, pid_used, parent, term_ind, cur_pid)
    BY DEF Init, Stacked, TopIs, Links, Once
  <1>2. parent \in [Pcbs -> Pcbs]
    BY PidFacts DEF Init
  <1> HIDE DEF s
  <1>3. stacks = s
    BY <1>1, <1>2, StacksAreThese DEF stacks
  <1> QED
    BY <1>1, <1>3 DEF StacksInv, Abstract!StackInit, s

\* A step that leaves the process table and the foregrounds alone leaves the
\* stacks alone.
LEMMA StacksSame ==
    ASSUME StacksInv, UNCHANGED <<pid_used, parent, term_ind, cur_pid>>
    PROVE  StacksInv' /\ UNCHANGED stacks
  BY DEF StacksInv, stacks

\* execute, called by a program or by pit_isr for a shell, pushes a fresh pid.
LEMMA StacksStart ==
    ASSUME TypeOK, StacksInv, NEW pid \in LowestFree, NEW t \in Terms, NEW f,
           StartTask(pid, cur_pid[t], t, f)
    PROVE  StacksInv' /\ Abstract!StackNext
  <1>1. /\ pid_used \in [Pids -> BOOLEAN] /\ parent \in [Pcbs -> Pcbs]
        /\ term_ind \in [Pcbs -> Terms] /\ cur_pid \in [Terms -> Pcbs]
        /\ pid \in Pids /\ ~pid_used[pid]
    BY DEF TypeOK, LowestFree
  <1>2. PICK s : s = stacks
    OBVIOUS
  <1>3. Stacked(s, pid_used, parent, term_ind, cur_pid)
    BY <1>2 DEF StacksInv
  <1>4. PICK s1 : s1 = [s EXCEPT ![t] = Append(s[t], pid)]
    OBVIOUS
  <1>5. Stacked(s1, pid_used', parent', term_ind', cur_pid')
    BY <1>1, <1>3, <1>4, StackPush DEF StartTask
  <1>6. parent' \in [Pcbs -> Pcbs]
    BY <1>1 DEF StartTask
  <1>7. stacks' = s1
    BY <1>5, <1>6, StacksAreThese DEF stacks
  <1>8. pid \notin Abstract!Running
    BY <1>1, <1>2, <1>3 DEF Abstract!Running, Stacked, Links, Abstract!ToSet
  <1>9. Abstract!Start(t, pid)
    BY <1>2, <1>4, <1>7, <1>8 DEF Abstract!Start
  <1>10. Abstract!StackNext
    BY <1>1, <1>9 DEF Abstract!StackNext
  <1> QED
    BY <1>5, <1>7, <1>10 DEF StacksInv

\* halt, called or forced by a signal, pops the caller or changes no stack.
LEMMA StacksHalt ==
    ASSUME TypeOK, StacksInv, NEW m, HaltCur(m), UNCHANGED <<parent, term_ind>>,
           cur # 0, cur_pid[term_ind[cur]] = cur
    PROVE  StacksInv' /\ (Abstract!StackNext \/ UNCHANGED stacks)
  <1>0. /\ pid_used \in [Pids -> BOOLEAN] /\ parent \in [Pcbs -> Pcbs]
        /\ term_ind \in [Pcbs -> Terms] /\ cur_pid \in [Terms -> Pcbs]
        /\ cur \in Pids /\ term_ind[cur] \in Terms
    BY PidFacts DEF TypeOK
  <1>1. CASE parent[cur] = 0
    BY <1>1, StacksSame DEF HaltCur, Restart
  <1>2. CASE parent[cur] # 0
    <2>1. PICK s : s = stacks
      OBVIOUS
    <2>2. Stacked(s, pid_used, parent, term_ind, cur_pid)
      BY <2>1 DEF StacksInv
    <2>3. PICK t \in Terms : t = term_ind[cur]
      BY <1>0
    <2>4. PICK s1 : s1 = [s EXCEPT ![t] = SubSeq(s[t], 1, Len(s[t]) - 1)]
      OBVIOUS
    <2>5. /\ pid_used' = [pid_used EXCEPT ![cur] = FALSE]
          /\ cur_pid' = [cur_pid EXCEPT ![t] = parent[cur]]
      BY <1>2, <2>3 DEF HaltCur, ReturnTo
    <2>6. Len(s[t]) > 1 /\ Stacked(s1, pid_used', parent', term_ind', cur_pid')
      <3>1. HasParent(cur_pid[t], parent)
        BY <1>0, <1>2, <2>3 DEF HasParent
      <3>2. Popped(s, s1, pid_used, pid_used', parent, cur_pid, cur_pid', t)
        BY <2>3, <2>4, <2>5 DEF Popped
      <3> QED
        BY <1>0, <2>2, <3>1, <3>2, StackPop DEF Tall
    <2>7. stacks' = s1
      BY <1>0, <2>6, StacksAreThese DEF stacks
    <2>8. Abstract!Finish(t)
      BY <2>1, <2>4, <2>6, <2>7 DEF Abstract!Finish, Abstract!Front
    <2>9. Abstract!StackNext
      BY <2>8 DEF Abstract!StackNext
    <2> QED
      BY <2>6, <2>7, <2>9 DEF StacksInv
  <1> QED
    BY <1>1, <1>2

\* Every step of the kernel is a step of the stacks or changes none of them.
LEMMA StacksStep ==
    ASSUME TypeOK, IInv, StacksInv, [Next]_vars
    PROVE  StacksInv' /\ (Abstract!StackNext \/ UNCHANGED stacks)
  <1>1. CASE UNCHANGED <<pid_used, parent, term_ind, cur_pid>>
    BY <1>1, StacksSame
  <1>2. ASSUME mode # "wild" PROVE Core
    BY <1>2 DEF IInv, Sane, Core
  <1>3. CASE Tick /\ PitLaunch
    <2>1. NextTerm \in Terms /\ cur_pid[NextTerm] = 0
      BY <1>3, NextTermType DEF PitLaunch, TypeOK
    <2>2. PICK pid \in LowestFree : StartTask(pid, 0, NextTerm, "launch")
      BY <1>3 DEF PitLaunch
    <2> QED
      BY <2>1, <2>2, StacksStart
  <1>4. CASE Execute
    <2>1. cur # 0 /\ cur_pid[term_ind[cur]] = cur
      BY <1>2, <1>4 DEF Execute, Core, RunningInv, IdleInv
    <2>2. PICK pid \in LowestFree : StartTask(pid, cur, term_ind[cur], "exec")
      BY <1>4 DEF Execute
    <2>3. term_ind[cur] \in Terms
      BY DEF TypeOK
    <2> QED
      BY <2>1, <2>2, <2>3, StacksStart
  <1>5. CASE Halt
    <2>1. cur # 0 /\ cur_pid[term_ind[cur]] = cur
      BY <1>2, <1>5 DEF Halt, Core, RunningInv, IdleInv
    <2> QED
      BY <1>5, <2>1, StacksHalt DEF Halt
  <1>6. CASE CheckSignals
    <2>1. cur # 0 /\ cur_pid[term_ind[cur]] = cur
      BY <1>2, <1>6 DEF CheckSignals, Core, RunningInv, IdleInv
    <2>2. CASE \E m : HaltCur(m)
      BY <1>6, <2>1, <2>2, StacksHalt DEF CheckSignals
    <2>3. CASE UNCHANGED <<pid_used, cur_pid>>
      BY <1>1, <1>6, <2>3 DEF CheckSignals
    <2> QED
      BY <1>6, <2>2, <2>3 DEF CheckSignals
  <1> QED
    BY <1>1, <1>3, <1>4, <1>5, <1>6
    DEF Next, Tick, pit_isr, PitNoPid, PitSame, PitSwitch, FallThrough,
        FallThroughSame, FallThroughSwitch, Block, Unblock, SetHandler,
        OtherTrap, Fault, CtrlC, AltF, Alarm, Wild, vars, procVars

\* The process table, the parent fields and the cur_pid fields implement one
\* stack of programs per terminal: execute pushes a pid that no terminal uses,
\* _syscall_halt pops exactly the caller and never the shell at the bottom, and
\* pit_isr, check_signals and the keyboard change no stack otherwise.
THEOREM StacksImplemented == Spec => ImplementsStacks
  <1>1. Init => StacksInv /\ Abstract!StackInit
    BY StacksInit
  <1>2. TypeOK /\ IInv /\ StacksInv /\ [Next]_vars
            => StacksInv' /\ [Abstract!StackNext]_stacks
    BY StacksStep
  <1> QED
    BY <1>1, <1>2, InvAlways, PTL DEF Spec, ImplementsStacks, Abstract!StackSpec

=============================================================================
