------------------------------- MODULE MCRtc -------------------------------
(***************************************************************************)
(* Instances of Rtc for TLC.                                               *)
(***************************************************************************)
EXTENDS Rtc, TLC

\* Processes are interchangeable.
ProcSymmetry == Permutations(Procs)

\* Inode numbers that read as the lowest and as the highest frequency.
LowAndHigh == {Inode(0, 0, 0), Inode(MSK_5, 0, 0)}
=============================================================================
