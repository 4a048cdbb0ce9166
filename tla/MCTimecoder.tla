----------------------------- MODULE MCTimecoder -----------------------------
(***************************************************************************)
(* A table of three short definitions: the first has no flags, the second  *)
(* is narrower and has them all, the third is not in use.  A record of the *)
(* first is longer than it takes to be recognised.                         *)
(***************************************************************************)
EXTENDS Timecoder

MCtimecodes ==
    <<[bits |-> 4, seed |-> {0}, taps |-> {1}, length |-> 8, lookup |-> TRUE,
       phase |-> FALSE, primary |-> FALSE, polarity |-> FALSE],
      [bits |-> 3, seed |-> {0}, taps |-> {1}, length |-> 7, lookup |-> TRUE,
       phase |-> TRUE, primary |-> TRUE, polarity |-> TRUE],
      [bits |-> 3, seed |-> {1}, taps |-> {2}, length |-> 7, lookup |-> FALSE,
       phase |-> TRUE, primary |-> FALSE, polarity |-> FALSE]>>
=============================================================================
