------------------------------- MODULE MCDisplay -------------------------------
(* Display over the loading of one file, of no audio. *)
EXTENDS Display

MCSize == [p \in Paths |-> 0]
=============================================================================
