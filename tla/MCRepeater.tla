----------------------------- MODULE MCRepeater -----------------------------
(* Values of the constants of Repeater for model checking. *)
EXTENDS Repeater

\* The first and the third call are of one method, the second of another.
MCMethod == <<"NewAddress", "ConfirmedBalance", "NewAddress">>
=============================================================================
