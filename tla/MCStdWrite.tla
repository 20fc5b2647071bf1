------------------------------ MODULE MCStdWrite ------------------------------
(* What is written: nothing, part of a line, a line and the start of another;
   and two lines at once. *)
EXTENDS StdWrite
MCChunks == {<<>>, <<"a">>, <<"b", "n">>, <<"a", "n", "b">>}
MCTwoLines == MCChunks \cup {<<"n", "n">>}
=============================================================================
