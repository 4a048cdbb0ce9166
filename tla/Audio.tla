--------------------------------- MODULE Audio ---------------------------------
(* The audio devices of the decks (alsa.c, oss.c, and what device.c adds), and the
   hardware behind them (external). A device is a record
     kind      "alsa", "oss" or "jack"
     capture   its stream from the record player: a state and the periods filled
     playback  its stream to the mixer: a state and the periods queued
     revents   what poll last said of its descriptors, until it is handled
     gone      whether the hardware is no longer there: every call on it fails
     fault     dv->fault: the device is disabled
   and each operator gives the record a function leaves. A period is moved as a
   whole: poll reports a stream once a period can be (alsa.c), and what OSS moves
   of a part of one is as much as there is. JACK calls back instead (Realtime).

   Of streams, poll and the clock this is how the code expects them to be: "The
   device starts when data is written. POLLOUT events are generated in prepared
   state" (alsa.c:352-353), a stream that overruns or underruns stops with an
   error until it is prepared, and is started again, and OSS drops instead. *)
EXTENDS Integers

CONSTANT Periods     \* the periods of a buffer, of which alsa.c:119 wants two

ASSUME AudioAssumption == Periods \in Nat /\ Periods > 1

Stream == [state : {"prepared", "running", "xrun"}, n : 0..Periods]
Device == [kind : {"alsa", "oss", "jack"}, capture : Stream, playback : Stream,
           revents : SUBSET {"in", "out"}, gone : BOOLEAN, fault : BOOLEAN]

prepared == [state |-> "prepared", n |-> 0]
running(n) == [state |-> "running", n |-> n]
xrun == [state |-> "xrun", n |-> 0]

\* alsa_init, oss_init and jack_init, with device_init; OSS needs no start.
opened(kind) ==
    LET stream == IF kind = "oss" THEN running(0) ELSE prepared
    IN [kind |-> kind, capture |-> stream, playback |-> stream,
        revents |-> {}, gone |-> FALSE, fault |-> FALSE]

----------------------------------------------------------------------------
(* The hardware *)

\* A period has been recorded: there is room for it, or there is not.
Recorded(dv) ==
    LET n == dv.capture.n + 1
    IN [dv EXCEPT !.capture = IF n < Periods THEN running(n)
                              ELSE IF dv.kind = "alsa" THEN xrun ELSE @]

\* A period has been played: it was the last one queued, or it was not.
Played(dv) ==
    LET n == dv.playback.n - 1
    IN [dv EXCEPT !.playback = IF n > 0 THEN running(n)
                               ELSE IF dv.kind = "alsa" THEN xrun ELSE running(0)]

\* The streams of hardware that is gone are of no consequence.
unplugged(dv) ==
    [dv EXCEPT !.gone = TRUE, !.capture = prepared, !.playback = prepared]

\* What poll says; of hardware that is gone it says an error, and of ALSA's also
\* that there is something to read and to write, where the error will be found.
Says(dv) ==
    LET in == dv.capture.state = "xrun" \/ dv.capture.n > 0
        out == dv.playback.state # "running" \/ dv.playback.n < Periods
    IN CASE dv.kind = "jack" -> {{}}
         [] dv.kind = "alsa" /\ dv.gone -> {{"in", "out"}}
         [] dv.kind = "oss" /\ dv.gone -> {{}, {"in", "out"}}
         [] dv.kind # "jack" /\ ~dv.gone ->
              {(IF in THEN {"in"} ELSE {}) \cup (IF out THEN {"out"} ELSE {})}

\* Whether poll returns on account of this device, disabled or not.
Wakes(dv) == dv.kind # "jack" /\ (dv.gone \/ Says(dv) # {{}})

----------------------------------------------------------------------------
(* The drivers *)

disabled(dv) == [dv EXCEPT !.fault = TRUE, !.revents = {}]

\* start, of a device that is polled, and whether it fails, at which the program
\* aborts; only ALSA has one.
StartFails(dv) == dv.kind = "alsa" /\ (dv.gone \/ dv.capture.state # "prepared")
start(dv) == IF dv.kind = "alsa" THEN [dv EXCEPT !.capture = running(0)] ELSE dv

\* A read where there is nothing fails (the streams do not block).
ReadFails(dv) == dv.gone \/ (dv.capture.state # "xrun" /\ dv.capture.n = 0)

\* Mutant: the stream is prepared after an overrun, but not started.
capture_NotStarted(dv) ==
    IF ReadFails(dv) THEN disabled(dv)
    ELSE [dv EXCEPT !.capture = IF @.state = "xrun" THEN prepared ELSE running(@.n - 1)]

\* The first half of handle, and pull of OSS: an overrun is an error that is recovered
\* from.
capture(dv) ==
    IF ReadFails(dv) THEN disabled(dv)
    ELSE [dv EXCEPT !.capture = running(IF @.state = "xrun" THEN 0 ELSE @.n - 1)]

\* Whether it read audio, which it then submits to the timecoder.
Captures(dv) == ~dv.gone /\ dv.capture.state = "running" /\ dv.capture.n > 0

\* The second half, and push of OSS: what was collected from the player is queued,
\* which starts the stream, or is lost in an underrun.
playback(dv) ==
    IF dv.gone \/ dv.playback.n = Periods THEN disabled(dv)
    ELSE [dv EXCEPT !.playback = IF @.state = "xrun" THEN prepared ELSE running(@.n + 1)]
=============================================================================
