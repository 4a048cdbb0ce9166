----------------------------- MODULE MCTrackBuffer -----------------------------
(* TrackBuffer with samples of three bytes, blocks of a few samples that do not
   divide into the ranges of the meter, and room for three blocks. *)
EXTENDS TrackBuffer
=============================================================================
