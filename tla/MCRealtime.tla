------------------------------ MODULE MCRealtime ------------------------------
(* Realtime with two decks of any kind of device, of which at most one is ALSA's. *)
EXTENDS Realtime

MCKinds == << {"alsa", "jack"}, {"oss", "jack"} >>
=============================================================================
