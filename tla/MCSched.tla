------------------------------ MODULE MCSched ------------------------------
(***************************************************************************)
(* Instances of Sched for TLC, and its refinement of TermStacks.           *)
(***************************************************************************)
EXTENDS Sched, Sequences

\* The chain of execute calls that ends in process p, followed through the
\* parent fields par of the PCBs, at most n long.
Chains(par) ==
    LET chain[n \in 0 .. MAX_PROC_NUM] ==
          [p \in Pcbs |-> IF n = 0 \/ p = 0 THEN <<>>
                          ELSE Append(chain[n - 1][par[p]], p)]
    IN  chain

StacksOf(par, top) == [t \in Terms |-> Chains(par)[MAX_PROC_NUM][top[t]]]

stacks == StacksOf(parent, cur_pid)

Abstract == INSTANCE TermStacks WITH Term <- Terms, Pid <- Pids, stack <- stacks

\* execute and halt implement the stack of programs of each terminal: ticks,
\* signals and keys leave the stacks alone, execute pushes a fresh pid, halt
\* (called or forced by a signal) pops exactly the caller's top, and the
\* shell at the bottom stays.
ImplementsStacks == Abstract!StackSpec
=============================================================================
