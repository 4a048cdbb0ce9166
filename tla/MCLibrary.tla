------------------------------- MODULE MCLibrary -------------------------------
(* Library with two tracks of the same artist and title read with one tempo or
   another, and a third; and directories named before and after the crate of all
   records. *)
EXTENDS Library

MCTrack == {[key |-> k, bpm |-> b, texts |-> {<<>>}] : k \in 1..3, b \in {0, 120}}
MCRecords == {record(i, t) : i \in 0..3, t \in MCTrack}
=============================================================================
