-------------------------------- MODULE Realtime --------------------------------
(* The life of the program's threads (xwax.c:557-613): the main thread, which sets
   up decks and controllers, starts the realtime thread, the audio devices and the
   interface, serves the rig, and stops them all; the realtime thread of the devices
   that are polled (realtime.c), which Audio describes; the thread of JACK, external,
   that calls back for the decks it drives (jack.c); and the interface (interface.c).

   The program is a path from one call of main to the next; a return of -1 ends the
   process, and all its threads. Of what the decks do with the audio only the
   timecode monitor is modelled, which main allocates and frees. *)
EXTENDS Integers, Sequences, FiniteSets, Audio

CONSTANTS
    DECKS,        \* ARRAY_SIZE(deck), xwax.c:62, and of rt->dv
    CTL,          \* entries of main's table of controllers, xwax.c:138
    CTL_BYTES,    \* its size in bytes, to which xwax.c:526 compares the count
    RT_CTL,       \* ARRAY_SIZE(rt->ctl)
    POLL,         \* entries of rt->pt
    POLL_BYTES,   \* its size in bytes, from which realtime.c:156 subtracts
    Kinds,        \* the kinds of device the decks may have, of each of them
    AlsaFds,      \* the descriptors of an ALSA device, and
    ControllerFds \* those of a controller

ASSUME RealtimeAssumption ==
    /\ \A n \in {DECKS, CTL, CTL_BYTES, RT_CTL, POLL, POLL_BYTES} : n \in Nat \ {0}
    /\ Kinds \in [1..DECKS -> SUBSET {"alsa", "oss", "jack"}]
    /\ AlsaFds \in Nat \ {0} /\ ControllerFds \in Nat

VARIABLES
    main,      \* what the main thread is at
    n,         \* the deck its loop is at
    dv,        \* the device of each deck, in the order of the decks
    nctl,      \* controllers
    npt,       \* rt->npt
    finished,  \* rt->finished
    rt,        \* what the realtime thread is at, and
    rn,        \* the deck its loop is at
    jack,      \* what the thread of JACK is at, and
    jn,        \* the deck its loop is at
    started,   \* the decks whose device has been started
    monitor,   \* those with a monitor
    ui         \* the interface thread

mainVars == <<main, n>>
tables == <<nctl, npt>>
setup == <<dv, tables>>
realtime == <<rt, rn>>
callback == <<jack, jn>>
vars == <<main, n, dv, nctl, npt, finished, rt, rn, jack, jn, started, monitor, ui>>

ndeck == Len(dv)
CallsBack(d) == dv[d].kind = "jack"
Polled(d) == ~CallsBack(d)

\* device_pollfds
Fds == [alsa |-> AlsaFds, oss |-> 1, jack |-> 0]

nstarted == Cardinality({d \in started : CallsBack(d)})

Init ==
    /\ main = "setup" /\ n = 1 /\ dv = <<>> /\ nctl = 0 /\ npt = 0
    /\ finished = FALSE /\ rt = "none" /\ rn = 1 /\ jack = "off" /\ jn = 1
    /\ started = {} /\ monitor = {} /\ ui = "none"

----------------------------------------------------------------------------
(* The arguments of the command line, and the start of the realtime thread *)

Exit == main' = "exit" /\ UNCHANGED <<n, setup>>

\* rt_add_device and rt_add_controller: the entries k that fit in what they take
\* for the room in the table.
Fits(k) == k <= POLL_BYTES - npt

\* The device of a new deck joins the poll table.
Add(kind) ==
    IF Fits(Fds[kind])
    THEN /\ dv' = Append(dv, opened(kind)) /\ npt' = npt + Fds[kind]
         /\ UNCHANGED <<mainVars, nctl>>
    ELSE Exit

\* Mutant: the number of decks is not checked.
AddDeck_NoLimit ==
    /\ main = "setup"
    /\ \E kind \in Kinds[1] : Add(kind)
    /\ UNCHANGED <<finished, realtime, callback, started, monitor, ui>>

\* A deck (xwax.c:288-374, deck.c:52), unless there are too many.
AddDeck ==
    /\ main = "setup"
    /\ IF ndeck < DECKS THEN \E kind \in Kinds[ndeck + 1] : Add(kind) ELSE Exit
    /\ UNCHANGED <<finished, realtime, callback, started, monitor, ui>>

\* A controller (xwax.c:522-544).
AddController ==
    /\ main = "setup"
    /\ IF nctl # CTL_BYTES
       THEN nctl' = nctl + 1 /\ UNCHANGED <<mainVars, dv, npt>>
       ELSE Exit
    /\ UNCHANGED <<finished, realtime, callback, started, monitor, ui>>

\* The end of the arguments (xwax.c:557-569): the controllers join the poll table,
\* and rt_start creates its thread if there is something to poll.
RtStart ==
    /\ main = "setup"
    /\ IF ndeck = 0 \/ nctl > RT_CTL \/ ~Fits(nctl * ControllerFds)
       THEN Exit /\ UNCHANGED rt
       ELSE /\ npt' = npt + nctl * ControllerFds
            /\ IF npt' > 0 THEN main' = "sem_wait" /\ rt' = "init"
                           ELSE main' = "device_start" /\ UNCHANGED rt
            /\ UNCHANGED <<n, dv, nctl>>
    /\ UNCHANGED <<finished, rn, callback, started, monitor, ui>>

\* Mutant: whether the thread gave up is not looked at.
SemWait_NoCheck ==
    /\ main = "sem_wait" /\ rt # "init"
    /\ main' = "device_start"
    /\ UNCHANGED <<n, setup, finished, realtime, callback, started, monitor, ui>>

\* rt_start learns that the thread is initialised or that it gave up.
SemWait ==
    /\ main = "sem_wait" /\ rt # "init"
    /\ IF finished THEN rt = "dead" /\ main' = "exit" ELSE main' = "device_start"
    /\ UNCHANGED <<n, setup, finished, realtime, callback, started, monitor, ui>>

\* A loop of the main thread goes to the next deck, or is over.
NextDeck(next) ==
    IF n < ndeck THEN n' = n + 1 /\ UNCHANGED main ELSE n' = 1 /\ main' = next

\* device_start: JACK rolls from the first start on.
DeviceStart ==
    /\ main = "device_start"
    /\ IF StartFails(dv[n])
       THEN main' = "start_failed" /\ UNCHANGED <<n, dv, jack, started>>
       ELSE /\ dv' = [dv EXCEPT ![n] = start(@)]
            /\ jack' = IF CallsBack(n) /\ nstarted = 0 THEN "idle" ELSE jack
            /\ started' = started \cup {n}
            /\ NextDeck("interface_start")
    /\ UNCHANGED <<tables, finished, realtime, jn, monitor, ui>>

----------------------------------------------------------------------------
(* The interface and the end of the program *)

\* timecoder_monitor_init, for each deck.
MonitorInit ==
    /\ main = "interface_start" /\ n <= ndeck
    /\ monitor' = monitor \cup {n} /\ n' = n + 1
    /\ UNCHANGED <<main, setup, finished, realtime, callback, started, ui>>

\* interface_start launches its thread, or fails at any point before.
Launch ==
    /\ main = "interface_start"
    /\ n' = 1
    /\ \/ n > ndeck /\ ui' = "run" /\ main' = "rig_main"
       \/ UNCHANGED ui /\ main' = "rt_stop"
    /\ UNCHANGED <<setup, finished, realtime, callback, started, monitor>>

\* rig_main returns (see Rig), and interface_stop posts the final event.
InterfaceStop ==
    /\ main = "rig_main"
    /\ main' = "join_ui" /\ ui' = "quit"
    /\ UNCHANGED <<n, setup, finished, realtime, callback, started, monitor>>

InterfaceEnds ==
    /\ ui = "quit" /\ ui' = "dead"
    /\ UNCHANGED <<mainVars, setup, finished, realtime, callback, started, monitor>>

InterfaceJoined ==
    /\ main = "join_ui" /\ ui = "dead" /\ main' = "monitor_clear"
    /\ UNCHANGED <<n, setup, finished, realtime, callback, started, monitor, ui>>

\* timecoder_monitor_clear, for each deck.
MonitorClear ==
    /\ main = "monitor_clear"
    /\ monitor' = monitor \ {n} /\ NextDeck("rt_stop")
    /\ UNCHANGED <<setup, finished, realtime, callback, started, ui>>

\* Mutant: the realtime thread is not told.
RtStop_NoFlag ==
    /\ main = "rt_stop" /\ main' = "device_stop"
    /\ UNCHANGED <<n, setup, finished, realtime, callback, started, monitor, ui>>

\* rt_stop: the flag first, then the devices, then the thread.
RtStop ==
    /\ main = "rt_stop"
    /\ finished' = TRUE /\ main' = "device_stop"
    /\ UNCHANGED <<n, setup, realtime, callback, started, monitor, ui>>

\* device_stop, of the decks of JACK: those that are polled have no such operation.
\* The last deactivates its client, which waits for the callback to return.
DeviceStop ==
    /\ main = "device_stop"
    /\ \E d \in started :
         /\ CallsBack(d) /\ \A e \in started : e < d => Polled(e)
         /\ started' = started \ {d}
         /\ IF nstarted = 1 THEN jack = "idle" /\ jack' = "off" ELSE UNCHANGED jack
    /\ UNCHANGED <<mainVars, setup, finished, realtime, jn, monitor, ui>>

\* Mutant: the thread is not joined.
RtJoined_NoJoin ==
    /\ main = "device_stop" /\ nstarted = 0 /\ main' = "deck_clear"
    /\ UNCHANGED <<n, setup, finished, realtime, callback, started, monitor, ui>>

RtJoined ==
    /\ main = "device_stop" /\ nstarted = 0 /\ rt \in {"none", "dead"}
    /\ main' = "deck_clear"
    /\ UNCHANGED <<n, setup, finished, realtime, callback, started, monitor, ui>>

\* deck_clear: the spin lock of the first deck's player is destroyed, after which
\* spin_clear aborts whatever the result (spin.h:51-52).
DeckClear ==
    /\ main = "deck_clear" /\ main' = "abort"
    /\ UNCHANGED <<n, setup, finished, realtime, callback, started, monitor, ui>>

----------------------------------------------------------------------------
(* The realtime thread, the hardware, and the thread of JACK *)

Alive == main \notin {"exit", "abort", "start_failed"}

\* rt_main: the priority may be refused; the semaphore is posted.
RtInit ==
    /\ rt = "init" /\ Alive
    /\ rt' = "loop" /\ finished' \in {finished, TRUE}
    /\ UNCHANGED <<mainVars, setup, rn, callback, started, monitor, ui>>

RtLoop ==
    /\ rt = "loop" /\ Alive
    /\ rt' = IF finished THEN "dead" ELSE "poll"
    /\ UNCHANGED <<mainVars, setup, finished, rn, callback, started, monitor, ui>>

\* poll returns, and each controller is handled (see Dicer).
PollReturns ==
    /\ rt = "poll" /\ Alive
    /\ \E says \in [1..ndeck -> SUBSET {"in", "out"}] :
         /\ \A d \in 1..ndeck : says[d] \in Says(dv[d])
         /\ dv' = [d \in 1..ndeck |-> IF dv[d].fault THEN dv[d]
                                      ELSE [dv[d] EXCEPT !.revents = says[d]]]
    /\ rt' = "devices"
    /\ UNCHANGED <<mainVars, tables, finished, rn, callback, started, monitor, ui>>

\* A device has something to say, or a controller, or there was a signal.
RtPoll == (\E d \in 1..ndeck : Wakes(dv[d])) /\ PollReturns
RtPress == nctl > 0 /\ PollReturns
RtInterrupted ==
    /\ rt = "poll" /\ Alive /\ rt' = "loop"
    /\ UNCHANGED <<mainVars, setup, finished, rn, callback, started, monitor, ui>>

\* device_handle is done with one device.
Handled ==
    IF rn < ndeck THEN rt' = "devices" /\ rn' = rn + 1 ELSE rt' = "loop" /\ rn' = 1

\* A device that has no such operation, or is disabled.
NextDevice ==
    /\ rt = "devices" /\ Alive
    /\ CallsBack(rn) \/ dv[rn].fault
    /\ Handled
    /\ UNCHANGED <<mainVars, setup, finished, callback, started, monitor, ui>>

\* Its first half, with the code for input or without; if audio was captured,
\* update_monitor finds a monitor (timecoder.c:399) and goes on to plot, or returns.
Input(in) ==
    /\ rt = "devices" /\ Alive
    /\ Polled(rn) /\ ~dv[rn].fault
    /\ dv' = IF in THEN [dv EXCEPT ![rn] = capture(@)] ELSE dv
    /\ rt' = IF in /\ Captures(dv[rn]) /\ rn \in monitor THEN "plot" ELSE "captured"
    /\ UNCHANGED <<mainVars, tables, finished, rn, callback, started, monitor, ui>>

\* Mutant: whether there is anything to read is not looked at.
RtInput_Always == Input(TRUE)

RtInput == rt = "devices" /\ Input("in" \in dv[rn].revents)

RtPlot ==
    /\ rt = "plot" /\ Alive /\ rt' = "captured"
    /\ UNCHANGED <<mainVars, setup, finished, rn, callback, started, monitor, ui>>

\* The second half, of which nothing is left where the first has failed.
RtOutput ==
    /\ rt = "captured" /\ Alive
    /\ LET out == "out" \in dv[rn].revents
           left == IF out THEN playback(dv[rn]) ELSE dv[rn]
       IN dv' = [dv EXCEPT ![rn] = [left EXCEPT !.revents = {}]]
    /\ Handled
    /\ UNCHANGED <<mainVars, tables, finished, callback, started, monitor, ui>>

\* The hardware of a device that is polled: its clock, and its end.
Hardware(d, changed) ==
    /\ dv' = [dv EXCEPT ![d] = changed]
    /\ UNCHANGED <<mainVars, tables, finished, realtime, callback, started, monitor, ui>>

There(d) == Alive /\ d <= ndeck /\ Polled(d) /\ ~dv[d].gone

Record(d) ==
    There(d) /\ dv[d].capture.state = "running" /\ Hardware(d, Recorded(dv[d]))
Play(d) ==
    There(d) /\ dv[d].playback.state = "running" /\ Hardware(d, Played(dv[d]))
Unplug(d) == There(d) /\ Hardware(d, unplugged(dv[d]))

\* process_callback, for each deck of JACK that has been started.
JackCycle ==
    /\ jack = "idle" /\ Alive /\ jack' = "decks"
    /\ UNCHANGED <<mainVars, setup, finished, realtime, jn, started, monitor, ui>>

CalledBack ==
    IF jn < ndeck THEN jack' = "decks" /\ jn' = jn + 1 ELSE jack' = "idle" /\ jn' = 1

JackDeck ==
    /\ jack = "decks" /\ Alive
    /\ IF CallsBack(jn) /\ jn \in started /\ jn \in monitor
       THEN jack' = "plot" /\ UNCHANGED jn
       ELSE CalledBack
    /\ UNCHANGED <<mainVars, setup, finished, realtime, started, monitor, ui>>

JackPlot ==
    /\ jack = "plot" /\ Alive /\ CalledBack
    /\ UNCHANGED <<mainVars, setup, finished, realtime, started, monitor, ui>>

Main ==
    \/ AddDeck \/ AddController \/ RtStart \/ SemWait \/ DeviceStart
    \/ MonitorInit \/ Launch \/ InterfaceStop \/ InterfaceJoined \/ MonitorClear
    \/ RtStop \/ DeviceStop \/ RtJoined \/ DeckClear

Rt == RtInit \/ RtLoop \/ RtPoll \/ NextDevice \/ RtInput \/ RtPlot \/ RtOutput
Jack == JackCycle \/ JackDeck \/ JackPlot

Next ==
    \/ Main \/ InterfaceEnds \/ Rt \/ RtPress \/ RtInterrupted \/ Jack
    \/ \E d \in 1..DECKS : Record(d) \/ Play(d) \/ Unplug(d)

\* The threads run: the main thread where nobody has to make up his mind, the
\* realtime thread, whose poll is not interrupted for ever, and JACK, whose client is
\* deactivated between two of its cycles. The clock of a stream does not stop.
\* Nobody has to touch a controller, and no hardware has to be unplugged.
Fairness ==
    /\ WF_vars(Main /\ main \notin {"setup", "rig_main"})
    /\ SF_vars(DeviceStop)
    /\ WF_vars(InterfaceEnds) /\ WF_vars(Rt) /\ SF_vars(RtPoll) /\ WF_vars(Jack)
    /\ \A d \in 1..DECKS : WF_vars(Record(d)) /\ WF_vars(Play(d))

Spec == Init /\ [][Next]_vars /\ Fairness

----------------------------------------------------------------------------
(* Properties *)

Running == {"device_start", "interface_start", "rig_main", "join_ui",
            "monitor_clear", "rt_stop"}
Stopping == {"device_stop", "deck_clear"}

\* Each thread is at a point of its code, and each loop at a deck; and no more entries
\* of the poll table are used than it has, although the room left in it is given in
\* bytes (realtime.c:156), because decks and controllers are few enough.
TypeOK ==
    /\ main \in {"setup", "sem_wait", "exit", "abort", "start_failed"}
               \cup Running \cup Stopping
    /\ n \in 1..(ndeck + 1) /\ ndeck <= DECKS /\ npt \in 0..POLL
    /\ rt \in {"none", "init", "loop", "poll", "devices", "plot", "captured", "dead"}
    /\ {rn, jn} \subseteq 1..ndeck \cup {1}
    /\ jack \in {"off", "idle", "decks", "plot"}
    /\ dv \in Seq(Device) /\ started \cup monitor \subseteq 1..ndeck

\* From the moment rt_start returns 0 until rt_stop the realtime thread is there
\* if there is anything to poll: it gives up during rt_start or not at all
\* (realtime.c:78-84 against 255-265), although both use the one flag.
RealtimeRuns ==
    main \in Running => IF npt > 0 THEN rt \notin {"none", "init", "dead"}
                                   ELSE rt = "none"

\* JACK calls back while any of its decks is started, and only then: the count of
\* the starts and the stops (jack.c:30) is of all the decks. So when the decks are
\* cleared no thread that uses them is left, although nothing of JACK is joined.
QuietWhenCleared ==
    /\ (jack = "off") <=> (nstarted = 0)
    /\ main \in {"deck_clear", "abort"} =>
         rt \in {"none", "dead"} /\ jack = "off" /\ ui \in {"none", "dead"}

\* A device is disabled, or its start takes the program down, only if its hardware is
\* gone: never because of an overrun or an underrun, or because poll returned for
\* another device or a controller ("This function can be called when there is
\* activity on any file descriptor", device.c:106-107), or because the realtime
\* thread handles it before it is started.
OnlyFailuresDisable ==
    /\ \A d \in 1..ndeck : dv[d].fault => dv[d].gone
    /\ main = "start_failed" => dv[n].gone

\* From its start until rt_stop, a device whose hardware is there is recorded from
\* and played to, whatever overruns and underruns come: its streams, once stopped by
\* one, run again.
Serving(d) == d \in started /\ Polled(d) /\ ~dv[d].gone /\ main \in Running
CaptureStopped(d) == Serving(d) /\ dv[d].capture.state # "running"
PlaybackStopped(d) == Serving(d) /\ dv[d].playback.state # "running"
AudioGoesOn ==
    \A d \in 1..DECKS : []<>~CaptureStopped(d) /\ []<>~PlaybackStopped(d)

\* The start and the stop of the realtime handling come to an end: the threads they
\* wait for do. For that the realtime thread has to return from a poll without
\* timeout (realtime.c:89), to which a device brings it, if there is one.
OnlyControllers == npt > 0 /\ \A d \in 1..ndeck : CallsBack(d)
StartsAndStops ==
    /\ []<>(main # "sem_wait")
    /\ []<>(main \notin {"rt_stop", "device_stop"} \/ OnlyControllers)

(* What comments and assertions say, and the code does not keep *)

\* timecoder.c:391-392: "Plot the given sample value in the x-y monitor", which it
\* does on a monitor it has checked to be there (timecoder.c:399).
MonitorIsThere ==
    (rt = "plot" => rn \in monitor) /\ (jack = "plot" => jn \in monitor)

\* tinyalsa.c:312 and alsa.c:395: "Do not operate on audio until device_start()".
NoAudioBeforeStart == rt \in {"plot", "captured"} => rn \in started

\* player.c:213-214 promises of player_clear: "Post: no resources are allocated by
\* the player"; and main means to print "Done." (xwax.c:610).
ClearReturns == main # "abort"

\* realtime.c:260 says of rt_stop: "Stop realtime handling, which was previously
\* started by rt_start()".
RealtimeStops == main = "rt_stop" ~> main \in {"deck_clear", "abort"}

\* device.c:120 says of a device that fails: "disabling it". poll then returns for the
\* others only.
DisabledIsQuiet == \A d \in 1..ndeck : dv[d].fault => ~Wakes(dv[d])

\* xwax.c:527 refuses "Too many controllers".
ControllersFit == nctl <= CTL
=============================================================================
