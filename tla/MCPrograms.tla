----------------------------- MODULE MCPrograms -----------------------------
(***************************************************************************)
(* The user programs: the process of a terminal is one of the file tools   *)
(* (or any program that makes file calls), or it plays the game.           *)
(***************************************************************************)
EXTENDS MCFileTools, Game2048

VARIABLE program    \* "files" or "2048"

allVars == <<vars, gameVars, program>>

\* No game: the board is empty and over.
NoGame ==
    LET board == [i \in Tiles |-> 0]
    IN  /\ tile = board /\ score = 0 /\ reached = FALSE /\ phase = "end"
        /\ shown = [tile |-> board, score |-> 0, info |-> "normal"]
        /\ placed = [n \in {2, 4} |-> 0]

ProgramsInit ==
    /\ Init
    /\ \/ program = "files" /\ NoGame
       \/ program = "2048" /\ prog = "any" /\ GameInit

ProgramsNext ==
    \/ program = "files" /\ Next /\ UNCHANGED <<gameVars, program>>
    \/ program = "2048" /\ GameNext /\ UNCHANGED <<vars, program>>

ProgramsSpec == ProgramsInit /\ [][ProgramsNext]_allVars /\ WF_vars(Program)
=============================================================================
