------------------------------- MODULE Sched -------------------------------
(***************************************************************************)
(* Processes, scheduler and signals of the kernel: the process table, the  *)
(* timer interrupt that switches between the terminals' foreground         *)
(* processes (scheduling.c), execute and halt (syscall.c), the delivery of *)
(* signals on the way back to user code (signals.c) and the keyboard       *)
(* commands that act on processes (term.c).                                *)
(*                                                                         *)
(* There is one CPU and every IDT gate is an interrupt gate, so a handler  *)
(* runs to its iret without being interrupted.  Hence one action per       *)
(* handler.  The CPU is interruptible in user code and in the sti/hlt      *)
(* loops in which term_read, rtc_read and the boot context wait.  The two  *)
(* places where the code re-enables interrupts by accident (rtc.c:244 and  *)
(* term.c:237) are added by module SchedSti.                               *)
(*                                                                         *)
(* A process is its pid; PCB 0 belongs to the boot context, which becomes  *)
(* the idle loop.  What a PCB's saved esp/ebp pair points to is modelled   *)
(* by frame:                                                               *)
(*   "pit"     the end of pit_isr, saved by a context switch;              *)
(*   "launch"  the _syscall_execute("shell") call inside pit_isr: resuming *)
(*             it continues pit_isr after line 51;                         *)
(*   "exec"    an execute system call that waits for its child;            *)
(*   "none"    nothing that may be resumed (running, dead or stale).       *)
(***************************************************************************)
EXTENDS Naturals, FiniteSets

CONSTANTS
    MAX_PROC_NUM,   \* size of the process table, PCB 0 included
    TERM_NUM,       \* number of terminals
    UNINIT,         \* values the uninitialised next_pid of pit_isr may hold
    RaisedSigs,     \* signals that are raised in this instance
    CatchSigs       \* signals the programs of this instance set handlers for

SIG_DIV_ZERO == 0
SIG_SEGFAULT == 1
SIG_KB_INT == 2
SIG_ALARM == 3
SIG_USER0 == 4
Signals == {SIG_DIV_ZERO, SIG_SEGFAULT, SIG_KB_INT, SIG_ALARM, SIG_USER0}

\* Pids and next_pid are uint8_t.
ASSUME ConstAssumption ==
    /\ MAX_PROC_NUM \in 2 .. 256
    /\ TERM_NUM \in Nat \ {0}
    /\ UNINIT \subseteq 0 .. 255
    /\ RaisedSigs \subseteq Signals
    /\ CatchSigs \subseteq Signals

Pcbs == 0 .. (MAX_PROC_NUM - 1)
Pids == 1 .. (MAX_PROC_NUM - 1)
Terms == 0 .. (TERM_NUM - 1)

\* The displayed screen as a target of the user video page (VID_MEM_ADDR);
\* the other targets are the background pages, one per terminal.
Screen == TERM_NUM

VARIABLES
    pid_used,       \* pid_used[p]: the pid is taken
    parent,         \* PCB field: pid of the parent, 0 for NULL
    term_ind,       \* PCB field: the terminal the process belongs to
    signals,        \* PCB field: set of pending signals
    handlers,       \* PCB field: signals with a non-NULL handler
    cur_pid,        \* terms[t].cur_pid: foreground process, 0 for none yet
    cur_term_ind,   \* the displayed terminal
    cur_proc_ind,   \* pit_isr's static: the terminal whose turn it is
    cur,            \* owner of the kernel stack in use (get_cur_pcb)
    mode,           \* what the CPU is doing on it, see Modes
    page,           \* process whose page is mapped at USER_PAGE_INDEX
    esp0,           \* process whose kernel stack tss.esp0 points to
    vid,            \* target of user_vidmem_page_table[0]
    frame,          \* what the saved esp/ebp of a PCB points to
    resume          \* mode in which the timer interrupted the process

procVars == <<pid_used, parent, term_ind>>
sigVars == <<signals, handlers>>
mmVars == <<page, esp0>>
saved == <<frame, resume>>
vars == <<pid_used, parent, term_ind, signals, handlers, cur_pid,
          cur_term_ind, cur_proc_ind, cur, mode, page, esp0, vid, frame,
          resume>>

(***************************************************************************)
(*   "user"    user code, interrupts enabled;                              *)
(*   "wait"    a sti/hlt loop in the kernel, interrupts enabled;           *)
(*   "ret"     common_isr__return: a user context is about to be resumed   *)
(*             and check_signals finds pending signals;                    *)
(*   "uninit"  pit_isr after line 55 with next_pid never assigned;         *)
(*   "wild"    a context that was never saved has been resumed.            *)
(***************************************************************************)
Modes == {"user", "wait", "ret", "uninit", "wild"}
Interruptible == {"user", "wait"}
Frames == {"none", "pit", "launch", "exec"}

TypeOK ==
    /\ pid_used \in [Pids -> BOOLEAN]
    /\ parent \in [Pcbs -> Pcbs]
    /\ term_ind \in [Pcbs -> Terms]
    /\ signals \in [Pcbs -> SUBSET Signals]
    /\ handlers \in [Pcbs -> SUBSET Signals]
    /\ cur_pid \in [Terms -> Pcbs]
    /\ cur_term_ind \in Terms
    /\ cur_proc_ind \in Terms
    /\ cur \in Pcbs
    /\ mode \in Modes
    /\ page \in Pcbs
    /\ esp0 \in Pcbs
    /\ vid \in Terms \cup {Screen}
    /\ frame \in [Pcbs -> Frames]
    /\ resume \in [Pcbs -> Interruptible]

(***************************************************************************)
(* entry() has run init_pit and idles in its hlt loop.                     *)
(***************************************************************************)
Init ==
    /\ pid_used = [p \in Pids |-> FALSE]
    /\ parent = [p \in Pcbs |-> 0]
    /\ term_ind = [p \in Pcbs |-> 0]
    /\ signals = [p \in Pcbs |-> {}]
    /\ handlers = [p \in Pcbs |-> {}]
    /\ cur_pid = [t \in Terms |-> 0]
    /\ cur_term_ind = 0
    /\ cur_proc_ind = 0
    /\ cur = 0
    /\ mode = "wait"
    /\ page = 0
    /\ esp0 = 0
    /\ vid = Screen
    /\ frame = [p \in Pcbs |-> "none"]
    /\ resume = [p \in Pcbs |-> "user"]

(***************************************************************************)
(* common_isr__return for a handler that interrupted a context in mode at: *)
(* check_signals does nothing unless the context is a user context and     *)
(* some signal is pending.                                                 *)
(***************************************************************************)
\* Faulty variant: pending signals are not looked at.
AfterIsr_noCheck(at, pending) == at

AfterIsr(at, pending) == IF at = "user" /\ pending # {} THEN "ret" ELSE at

\* The pid _syscall_execute takes: the lowest free one, if there is one.
LowestFree ==
    {p \in Pids : ~pid_used[p] /\ \A q \in Pids : q < p => pid_used[q]}

(***************************************************************************)
(* _syscall_execute once the image has been found valid: process pid with  *)
(* parent par becomes the foreground of terminal t and runs; the caller's  *)
(* PCB saves the frame of this call.                                       *)
(***************************************************************************)
StartTask(pid, par, t, callFrame) ==
    /\ page' = pid
    /\ frame' = [frame EXCEPT ![cur] = callFrame, ![pid] = "none"]
    /\ parent' = [parent EXCEPT ![pid] = par]
    /\ signals' = [signals EXCEPT ![pid] = {}]
    /\ term_ind' = [term_ind EXCEPT ![pid] = t]
    /\ cur_pid' = [cur_pid EXCEPT ![t] = pid]
    /\ esp0' = pid
    /\ pid_used' = [pid_used EXCEPT ![pid] = TRUE]
    /\ handlers' = [handlers EXCEPT ![pid] = {}]
    /\ cur' = pid
    /\ mode' = "user"

\* A PCB whose saved esp/ebp may be loaded by the end of pit_isr.
Resumable(p) == p \in Pcbs /\ frame[p] \in {"pit", "launch"}

(***************************************************************************)
(* pit_isr from line 62: map the page and the video page of next, save     *)
(* this context (interrupted in mode at) and load that of next.  A frame   *)
(* saved inside the shell launch continues after line 51.                  *)
(***************************************************************************)
\* Faulty variant: the context of the interrupted process is not saved.
SwitchTo_noSave(next, at) ==
    /\ page' = next
    /\ esp0' = next
    /\ frame' = [frame EXCEPT ![next] = "none"]
    /\ cur' = next
    /\ mode' = IF frame[next] = "launch" THEN "uninit" ELSE resume[next]
    /\ UNCHANGED <<vid, resume>>

SwitchTo(next, at) ==
    IF Resumable(next)
    THEN /\ page' = next
         /\ vid' = IF term_ind[next] # cur_term_ind THEN term_ind[next] ELSE Screen
         /\ esp0' = next
         /\ frame' = [frame EXCEPT ![cur] = "pit", ![next] = "none"]
         /\ resume' = [resume EXCEPT ![cur] = at]
         /\ cur' = next
         /\ mode' = IF frame[next] = "launch" THEN "uninit"
                    ELSE AfterIsr(resume[next], signals[next])
    ELSE /\ mode' = "wild"
         /\ UNCHANGED <<cur, mmVars, vid, saved>>

NextTerm == (cur_proc_ind + 1) % TERM_NUM

(***************************************************************************)
(* pit_isr, by what it finds at the next terminal.                         *)
(***************************************************************************)
\* No process yet: start its shell from inside the interrupt handler.
PitLaunch ==
    /\ cur_proc_ind' = NextTerm
    /\ cur_pid[NextTerm] = 0
    /\ \E pid \in LowestFree : StartTask(pid, 0, NextTerm, "launch")
    /\ resume' = [resume EXCEPT ![cur] = mode]
    /\ UNCHANGED <<cur_term_ind, vid>>

\* No process yet and no pid: execute fails, next_pid was never assigned.
PitNoPid ==
    /\ cur_proc_ind' = NextTerm
    /\ cur_pid[NextTerm] = 0
    /\ LowestFree = {}
    /\ mode' = "uninit"
    /\ resume' = [resume EXCEPT ![cur] = mode]
    /\ UNCHANGED <<procVars, sigVars, cur_pid, cur_term_ind, cur, mmVars, vid,
                   frame>>

\* The interrupted process is the one to run (line 58).
PitSame ==
    /\ cur_proc_ind' = NextTerm
    /\ cur_pid[NextTerm] # 0
    /\ cur_pid[NextTerm] = cur
    /\ mode' = AfterIsr(mode, signals[cur])
    /\ UNCHANGED <<procVars, sigVars, cur_pid, cur_term_ind, cur, mmVars, vid,
                   saved>>

\* Faulty variant: no switch away from a process that waits in the kernel.
PitSwitch_userOnly ==
    /\ mode = "user"
    /\ cur_proc_ind' = NextTerm
    /\ cur_pid[NextTerm] \notin {0, cur}
    /\ SwitchTo(cur_pid[NextTerm], mode)
    /\ UNCHANGED <<procVars, sigVars, cur_pid, cur_term_ind>>

PitSwitch ==
    /\ cur_proc_ind' = NextTerm
    /\ cur_pid[NextTerm] # 0
    /\ cur_pid[NextTerm] # cur
    /\ SwitchTo(cur_pid[NextTerm], mode)
    /\ UNCHANGED <<procVars, sigVars, cur_pid, cur_term_ind>>

pit_isr == PitLaunch \/ PitNoPid \/ PitSame \/ PitSwitch

Tick == mode \in Interruptible /\ pit_isr

(***************************************************************************)
(* The rest of pit_isr when next_pid was never assigned (line 58 on).      *)
(***************************************************************************)
FallThroughSame ==
    /\ mode = "uninit"
    /\ cur \in UNINIT
    /\ mode' = AfterIsr(resume[cur], signals[cur])
    /\ resume' = [resume EXCEPT ![cur] = "user"]
    /\ UNCHANGED <<procVars, sigVars, cur_pid, cur_term_ind, cur_proc_ind, cur,
                   mmVars, vid, frame>>

FallThroughSwitch ==
    /\ mode = "uninit"
    /\ \E next \in UNINIT \ {cur} : SwitchTo(next, resume[cur])
    /\ UNCHANGED <<procVars, sigVars, cur_pid, cur_term_ind, cur_proc_ind>>

FallThrough == FallThroughSame \/ FallThroughSwitch

(***************************************************************************)
(* System calls of the running process.                                    *)
(***************************************************************************)
\* Faulty variant: the child's parent field stays NULL.
Execute_noParent ==
    /\ mode = "user"
    /\ \E pid \in LowestFree : StartTask(pid, 0, term_ind[cur], "exec")
    /\ UNCHANGED <<cur_term_ind, cur_proc_ind, vid, resume>>

\* execute of a valid program.
Execute ==
    /\ mode = "user"
    /\ \E pid \in LowestFree : StartTask(pid, cur, term_ind[cur], "exec")
    /\ UNCHANGED <<cur_term_ind, cur_proc_ind, vid, resume>>

(***************************************************************************)
(* _syscall_halt of the running process.  A process without parent is      *)
(* restarted at its entry point, in restartMode, and keeps its PCB;        *)
(* otherwise the parent's execute returns, and with it the parent's system *)
(* call.  Closing the files is modelled in module Rtc.                     *)
(***************************************************************************)
Restart(restartMode) ==
    /\ mode' = restartMode
    /\ UNCHANGED <<pid_used, cur_pid, cur, mmVars, frame>>

\* Back to par, on the kernel stack of stk and with the esp/ebp of saver; par
\* becomes the foreground of terminal t.
ReturnTo(par, stk, saver, t) ==
    /\ page' = par
    /\ esp0' = stk
    /\ pid_used' = [pid_used EXCEPT ![cur] = FALSE]
    /\ cur_pid' = [cur_pid EXCEPT ![t] = par]
    /\ cur' = par
    /\ frame' = [frame EXCEPT ![saver] = "none"]
    /\ mode' = IF frame[saver] = "exec" THEN AfterIsr("user", signals[par])
               ELSE "wild"

\* Faulty variants: tss.esp0 not restored; no test for a missing parent; the
\* process's own esp/ebp loaded; cur_pid of the displayed terminal set.
HaltCur_keepEsp0(restartMode) ==
    IF parent[cur] = 0 THEN Restart(restartMode)
    ELSE ReturnTo(parent[cur], esp0, parent[cur], term_ind[cur])
HaltCur_noRestart(restartMode) ==
    ReturnTo(parent[cur], parent[cur], parent[cur], term_ind[cur])
HaltCur_ownFrame(restartMode) ==
    IF parent[cur] = 0 THEN Restart(restartMode)
    ELSE ReturnTo(parent[cur], parent[cur], cur, term_ind[cur])
HaltCur_displayed(restartMode) ==
    IF parent[cur] = 0 THEN Restart(restartMode)
    ELSE ReturnTo(parent[cur], parent[cur], parent[cur], cur_term_ind)

HaltCur(restartMode) ==
    IF parent[cur] = 0 THEN Restart(restartMode)
    ELSE ReturnTo(parent[cur], parent[cur], parent[cur], term_ind[cur])

Halt ==
    /\ mode = "user"
    /\ HaltCur(AfterIsr("user", signals[cur]))
    /\ UNCHANGED <<parent, term_ind, sigVars, cur_term_ind, cur_proc_ind, vid,
                   resume>>

\* read of the terminal or of the RTC: waits with interrupts enabled.
Block ==
    /\ mode = "user"
    /\ mode' = "wait"
    /\ UNCHANGED <<procVars, sigVars, cur_pid, cur_term_ind, cur_proc_ind, cur,
                   mmVars, vid, saved>>

\* What the running process waited for has happened; its read returns.
Unblock ==
    /\ mode = "wait"
    /\ cur # 0
    /\ mode' = AfterIsr("user", signals[cur])
    /\ UNCHANGED <<procVars, sigVars, cur_pid, cur_term_ind, cur_proc_ind, cur,
                   mmVars, vid, saved>>

\* set_handler, with a handler or with NULL.
SetHandler ==
    /\ mode = "user"
    /\ \E s \in CatchSigs :
          \/ handlers' = [handlers EXCEPT ![cur] = @ \cup {s}]
          \/ handlers' = [handlers EXCEPT ![cur] = @ \ {s}]
    /\ mode' = AfterIsr("user", signals[cur])
    /\ UNCHANGED <<procVars, signals, cur_pid, cur_term_ind, cur_proc_ind, cur,
                   mmVars, vid, saved>>

\* Any other system call, a failing one, or a device interrupt that changes
\* nothing here; check_signals runs after each of them.
OtherTrap ==
    /\ mode = "user"
    /\ mode' = AfterIsr("user", signals[cur])
    /\ UNCHANGED <<procVars, sigVars, cur_pid, cur_term_ind, cur_proc_ind, cur,
                   mmVars, vid, saved>>

(***************************************************************************)
(* exception_handler: a fault in user code.                                *)
(***************************************************************************)
Fault ==
    /\ mode = "user"
    /\ \E s \in {SIG_DIV_ZERO, SIG_SEGFAULT} \cap RaisedSigs :
          signals' = [signals EXCEPT ![cur] = @ \cup {s}]
    /\ mode' = "ret"
    /\ UNCHANGED <<procVars, handlers, cur_pid, cur_term_ind, cur_proc_ind, cur,
                   mmVars, vid, saved>>

(***************************************************************************)
(* Keyboard interrupt: Control-C signals the foreground process of the     *)
(* displayed terminal (PCB 0 while that terminal has none); Alt-F1..F3     *)
(* display another terminal.                                               *)
(***************************************************************************)
CtrlC ==
    /\ SIG_KB_INT \in RaisedSigs
    /\ mode \in Interruptible
    /\ signals' = [signals EXCEPT ![cur_pid[cur_term_ind]] = @ \cup {SIG_KB_INT}]
    /\ mode' = AfterIsr(mode, signals'[cur])
    /\ UNCHANGED <<procVars, handlers, cur_pid, cur_term_ind, cur_proc_ind, cur,
                   mmVars, vid, saved>>

AltF ==
    /\ mode \in Interruptible
    /\ cur_term_ind' \in Terms
    /\ mode' = AfterIsr(mode, signals[cur])
    /\ UNCHANGED <<procVars, sigVars, cur_pid, cur_proc_ind, cur, mmVars, vid,
                   saved>>

(***************************************************************************)
(* rtc_isr when the 10-second counter of an open RTC file expires: the     *)
(* alarm goes to whatever process is running.                              *)
(***************************************************************************)
Alarm ==
    /\ SIG_ALARM \in RaisedSigs
    /\ mode \in Interruptible
    /\ signals' = [signals EXCEPT ![cur] = @ \cup {SIG_ALARM}]
    /\ mode' = AfterIsr(mode, signals'[cur])
    /\ UNCHANGED <<procVars, handlers, cur_pid, cur_term_ind, cur_proc_ind, cur,
                   mmVars, vid, saved>>

(***************************************************************************)
(* check_signals: one round of its loop, for the lowest pending signal.    *)
(* Interrupts are off, so no signal is raised between two rounds.          *)
(***************************************************************************)
Lowest(S) == {s \in S : \A r \in S : s <= r}

CheckSignals ==
    /\ mode = "ret"
    /\ \E s \in Lowest(signals[cur]) :
          LET rest == signals[cur] \ {s} IN
          /\ signals' = [signals EXCEPT ![cur] = rest]
          /\ \/ /\ s \in handlers[cur]
                /\ mode' = "user"
                /\ UNCHANGED <<pid_used, cur_pid, cur, mmVars, frame>>
             \/ /\ s \notin handlers[cur]
                /\ s < 3
                /\ HaltCur(AfterIsr("user", rest))
             \/ /\ s \notin handlers[cur]
                /\ s >= 3
                /\ mode' = AfterIsr("user", rest)
                /\ UNCHANGED <<pid_used, cur_pid, cur, mmVars, frame>>
    /\ UNCHANGED <<parent, term_ind, handlers, cur_term_ind, cur_proc_ind, vid,
                   resume>>

\* Once control has gone to a context that was never saved, anything may run.
Wild == mode = "wild" /\ UNCHANGED vars

Next ==
    \/ Tick \/ FallThrough
    \/ Execute \/ Halt \/ Block \/ Unblock \/ SetHandler \/ OtherTrap
    \/ Fault \/ CtrlC \/ AltF \/ Alarm \/ CheckSignals \/ Wild

Spec == Init /\ [][Next]_vars

(***************************************************************************)
(* The PIC keeps a timer interrupt pending until interrupts are enabled,   *)
(* so a tick that is possible again and again is taken; code that runs     *)
(* with interrupts off goes on.  Nothing is assumed of programs or users.  *)
(***************************************************************************)
Fairness == SF_vars(Tick) /\ WF_vars(FallThrough) /\ WF_vars(CheckSignals)

FairSpec == Spec /\ Fairness

----------------------------------------------------------------------------
(***************************************************************************)
(* Safety.  All of it is about executions in which no context was resumed  *)
(* that had not been saved.                                                *)
(***************************************************************************)
Sane == mode # "wild"

\* The running process sees its own memory, traps onto its own kernel stack
\* and is the foreground of its terminal, however ticks, execute, halt and
\* signals interleave (pit_isr, _syscall_execute and _syscall_halt each set
\* the page, tss.esp0 and cur_pid by hand).
AddressSpace ==
    Sane /\ cur # 0 =>
        /\ page = cur
        /\ esp0 = cur
        /\ pid_used[cur]
        /\ cur_pid[term_ind[cur]] = cur

\* What the next ticks will load is a context that a tick saved: a foreground
\* process that is not running is never inside an execute call, dead or new.
ForegroundSaved ==
    Sane => \A t \in Terms :
        cur_pid[t] \notin {0, cur} =>
            pid_used[cur_pid[t]] /\ Resumable(cur_pid[t])

\* Every process in the table is the foreground of its terminal or waits in
\* execute for a live child on that terminal, and its parent waits in execute
\* for it alone: no orphan, no leaked pid, no two children of one execute.
CallChains ==
    Sane => \A p \in Pids : pid_used[p] =>
        /\ \/ cur_pid[term_ind[p]] = p
           \/ /\ frame[p] = "exec"
              /\ \E c \in Pids : pid_used[c] /\ parent[c] = p
        /\ parent[p] # 0 =>
              /\ pid_used[parent[p]]
              /\ frame[parent[p]] = "exec"
              /\ term_ind[parent[p]] = term_ind[p]
              /\ \A c \in Pids : pid_used[c] /\ parent[c] = parent[p] => c = p

\* A process without parent (a terminal's shell) is never removed, whoever
\* halts or is killed: _syscall_halt restarts it instead.
RootsStay ==
    [][\A p \in Pids : pid_used[p] /\ parent[p] = 0 =>
            pid_used'[p] /\ parent'[p] = 0 /\ term_ind'[p] = term_ind[p]]_vars

\* Only the uninitialised next_pid of pit_isr can make the kernel resume a
\* context that was never saved; a tick that finds a foreground process, a
\* halt and a fatal signal never do.
OnlyUninitGoesWild ==
    [][mode' = "wild" => mode \in {"uninit", "wild"}]_vars

(***************************************************************************)
(* The inductive invariant behind the safety properties.  It says which    *)
(* frame each PCB holds: the running one none, a foreground process that   *)
(* is switched away from one that the end of pit_isr may load, a process   *)
(* with a child the frame of its execute, and the idle loop, which is      *)
(* never in user code, one to come back to.                                *)
(***************************************************************************)
RunningInv ==
    /\ frame[cur] = "none"
    /\ cur # 0 => /\ page = cur
                  /\ esp0 = cur
                  /\ pid_used[cur]
                  /\ cur_pid[term_ind[cur]] = cur

IdleInv ==
    /\ cur # 0 => Resumable(0)
    /\ cur = 0 => mode \in {"wait", "uninit"}
    /\ cur # 0 \/ mode = "uninit" => resume[0] = "wait"

ForegroundInv ==
    /\ \A t \in Terms : cur_pid[t] # 0 =>
          /\ pid_used[cur_pid[t]]
          /\ term_ind[cur_pid[t]] = t
          /\ cur_pid[t] # cur => Resumable(cur_pid[t])
    /\ \A p \in Pids : Resumable(p) => pid_used[p] /\ cur_pid[term_ind[p]] = p

WaitingInv ==
    \A p \in Pids : pid_used[p] =>
        \/ cur_pid[term_ind[p]] = p
        \/ frame[p] = "exec" /\ \E c \in Pids : pid_used[c] /\ parent[c] = p

ParentInv ==
    \A p \in Pids : pid_used[p] /\ parent[p] # 0 =>
        /\ pid_used[parent[p]]
        /\ frame[parent[p]] = "exec"
        /\ term_ind[parent[p]] = term_ind[p]
        /\ \A c \in Pids : pid_used[c] /\ parent[c] = parent[p] => c = p

IInv == Sane => RunningInv /\ IdleInv /\ ForegroundInv /\ WaitingInv /\ ParentInv

(***************************************************************************)
(* Liveness, under FairSpec.                                               *)
(***************************************************************************)
\* A terminal that has a process gets the CPU again and again, whatever the
\* other processes do (pit_isr gives every terminal its turn), until the
\* uninitialised next_pid makes the kernel resume what was never saved.
EveryTerminalRuns ==
    \A t \in Terms :
        (cur_pid[t] # 0) ~> ((cur = cur_pid[t] /\ mode \in Interruptible) \/ ~Sane)

\* The process waits in a read, running or switched away from.
Blocked(p) ==
    \/ cur = p /\ mode = "wait"
    \/ cur # p /\ frame[p] \in {"pit", "launch"} /\ resume[p] = "wait"

\* Control-C reaches a process that computes: the signal is consumed (by its
\* handler or by halt) unless the process sits in a read, where check_signals
\* sees a kernel context and keeps it pending (or the machine goes wild first).
CtrlCDelivered ==
    \A p \in Pids :
        (pid_used[p] /\ SIG_KB_INT \in signals[p])
            ~> (SIG_KB_INT \notin signals[p] \/ Blocked(p) \/ ~Sane)
=============================================================================
