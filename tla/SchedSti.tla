------------------------------ MODULE SchedSti ------------------------------
(***************************************************************************)
(* Sched with the two windows in which a handler goes on with interrupts   *)
(* enabled although it was entered through an interrupt gate:              *)
(*   rtc_set_pi_freq ends its critical section with sti() (rtc.c:244), so  *)
(*     an rtc_write that raises the frequency returns through              *)
(*     check_signals with interrupts enabled;                              *)
(*   switch_term ends with sti() (term.c:237) inside the keyboard          *)
(*     interrupt.                                                          *)
(* In such a window a timer tick may suspend check_signals, and the        *)
(* _syscall_halt that a fatal signal calls from it, at any point.          *)
(* The modes added are "reti" (common_isr__return with interrupts enabled) *)
(* and "halt1" .. "halt5" (_syscall_halt called from there, before its     *)
(* next store).                                                            *)
(***************************************************************************)
EXTENDS Sched

Windows == {"reti", "halt1", "halt2", "halt3", "halt4", "halt5"}

\* A write to the RTC that raises the system frequency.
RtcRaise ==
    /\ mode = "user"
    /\ mode' = "reti"
    /\ UNCHANGED <<procVars, sigVars, cur_pid, cur_term_ind, cur_proc_ind, cur,
                   mmVars, vid, saved>>

\* Alt-F1..F3 pressed while user code runs, for another terminal.
SwitchTerm ==
    /\ mode = "user"
    /\ cur_term_ind' \in Terms \ {cur_term_ind}
    /\ mode' = "reti"
    /\ UNCHANGED <<procVars, sigVars, cur_pid, cur_proc_ind, cur, mmVars, vid,
                   saved>>

\* The handler's iret.  check_signals may have passed a signal that was raised
\* after it looked.
LeaveWindow ==
    /\ mode = "reti"
    /\ mode' = "user"
    /\ UNCHANGED <<procVars, sigVars, cur_pid, cur_term_ind, cur_proc_ind, cur,
                   mmVars, vid, saved>>

\* check_signals with interrupts enabled, for the lowest pending signal.
CheckSignalsSti ==
    /\ mode = "reti"
    /\ \E s \in Lowest(signals[cur]) :
          /\ signals' = [signals EXCEPT ![cur] = @ \ {s}]
          /\ mode' = CASE s \in handlers[cur] -> "user"
                       [] s \notin handlers[cur] /\ s < 3 /\ parent[cur] # 0 -> "halt1"
                       [] OTHER -> "reti"
    /\ UNCHANGED <<procVars, handlers, cur_pid, cur_term_ind, cur_proc_ind, cur,
                   mmVars, vid, saved>>

(***************************************************************************)
(* _syscall_halt of a process with a parent, one store at a time.          *)
(***************************************************************************)
HaltPage ==
    /\ mode = "halt1"
    /\ page' = parent[cur]
    /\ mode' = "halt2"
    /\ UNCHANGED <<procVars, sigVars, cur_pid, cur_term_ind, cur_proc_ind, cur,
                   esp0, vid, saved>>

HaltEsp0 ==
    /\ mode = "halt2"
    /\ esp0' = parent[cur]
    /\ mode' = "halt3"
    /\ UNCHANGED <<procVars, sigVars, cur_pid, cur_term_ind, cur_proc_ind, cur,
                   page, vid, saved>>

HaltFreePid ==
    /\ mode = "halt3"
    /\ pid_used' = [pid_used EXCEPT ![cur] = FALSE]
    /\ mode' = "halt4"
    /\ UNCHANGED <<parent, term_ind, sigVars, cur_pid, cur_term_ind,
                   cur_proc_ind, cur, mmVars, vid, saved>>

HaltForeground ==
    /\ mode = "halt4"
    /\ cur_pid' = [cur_pid EXCEPT ![term_ind[cur]] = parent[cur]]
    /\ mode' = "halt5"
    /\ UNCHANGED <<procVars, sigVars, cur_term_ind, cur_proc_ind, cur, mmVars,
                   vid, saved>>

HaltJump ==
    /\ mode = "halt5"
    /\ cur' = parent[cur]
    /\ frame' = [frame EXCEPT ![parent[cur]] = "none"]
    /\ mode' = IF frame[parent[cur]] = "exec"
               THEN AfterIsr("user", signals[parent[cur]])
               ELSE "wild"
    /\ UNCHANGED <<procVars, sigVars, cur_pid, cur_term_ind, cur_proc_ind,
                   mmVars, vid, resume>>

\* Interrupts taken inside a window; the interrupted context is a kernel
\* context, so they deliver no signal.
StiTick == mode \in Windows /\ pit_isr

StiCtrlC ==
    /\ SIG_KB_INT \in RaisedSigs
    /\ mode \in Windows
    /\ signals' = [signals EXCEPT ![cur_pid[cur_term_ind]] = @ \cup {SIG_KB_INT}]
    /\ UNCHANGED <<procVars, handlers, cur_pid, cur_term_ind, cur_proc_ind, cur,
                   mode, mmVars, vid, saved>>

StiNext ==
    \/ Next
    \/ RtcRaise \/ SwitchTerm \/ LeaveWindow \/ CheckSignalsSti
    \/ HaltPage \/ HaltEsp0 \/ HaltFreePid \/ HaltForeground \/ HaltJump
    \/ StiTick \/ StiCtrlC

StiSpec == Init /\ [][StiNext]_vars

\* "Revert info from PCB" (syscall.c:17), "Setup next process's paging"
\* (scheduling.c:64): whenever a process runs user code, its own page is
\* mapped and its own kernel stack is in the TSS, also after a halt that a
\* tick interrupted.
OwnAddressSpace == mode = "user" => page = cur /\ esp0 = cur
=============================================================================
