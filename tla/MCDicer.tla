------------------------------- MODULE MCDicer -------------------------------
(* Dicer with a button on either side, each with a deck; the buffer holds the
   commands of all the LEDs, as in the code (dicer.c:65), so that an LED waits for
   its turn when commands of an earlier change are still in it. *)
EXTENDS Dicer

(* What a cut buffer holds, and what the hardware makes of it, decides nothing of
   the rest, and the properties of the run do not look at it: of the states that
   differ in it alone one is enough. *)
AfterCut == IF cut THEN <<led, cue, Len(obuf), fault, cut>> ELSE vars
=============================================================================
