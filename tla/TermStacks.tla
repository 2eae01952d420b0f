----------------------------- MODULE TermStacks -----------------------------
(***************************************************************************)
(* What execute and halt promise to the user of a terminal: each terminal  *)
(* runs a stack of programs.  The bottom one is its shell, the top one is  *)
(* in the foreground; a program starts on top of the one that executes it  *)
(* and, when it ends, its caller continues.  The shell never goes away.    *)
(* Scheduling, signals and paging are invisible here.                      *)
(***************************************************************************)
EXTENDS Naturals, Sequences, SequencesExt

CONSTANTS Term, Pid

VARIABLE stack

Running == UNION {ToSet(stack[t]) : t \in Term}

StackInit == stack = [t \in Term |-> <<>>]

\* A program starts on terminal t, over the one that is in the foreground.
Start(t, p) ==
    /\ p \notin Running
    /\ stack' = [stack EXCEPT ![t] = Append(@, p)]

\* The foreground program of t ends and its caller continues.
Finish(t) ==
    /\ Len(stack[t]) > 1
    /\ stack' = [stack EXCEPT ![t] = Front(@)]

StackNext == \E t \in Term : Finish(t) \/ \E p \in Pid : Start(t, p)

StackSpec == StackInit /\ [][StackNext]_stack
=============================================================================
