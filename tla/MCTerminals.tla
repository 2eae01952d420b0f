---------------------------- MODULE MCTerminals -----------------------------
(***************************************************************************)
(* Instances of Terminals for TLC.                                         *)
(***************************************************************************)
EXTENDS Terminals

\* Single bytes, pieces of sequences, and sequences with the limits crossed: a
\* fourth digit, a fourth argument, a byte's overflow, positions off the screen.
MCChunks ==
    {<<"a">>, <<NL>>, <<CR>>, <<BS>>, <<"ESC">>, <<"ESC", "[">>, <<"[">>, <<"2">>, <<";">>, <<"p">>,
     <<"b", "a">>, <<"ESC", "[", "2", "2", "5", "8", ";", "2", "5", "8">>,
     <<"1", ";", ";", "2", ";", "3", "p">>, <<"ESC", "[", "1", "8", "f">>, <<"ESC", "[", "e">>,
     <<"ESC", "[", "r">>, <<"ESC", "[", "c">>, <<"ESC", "[", "2", "b">>, <<"2", "s">>}
=============================================================================
