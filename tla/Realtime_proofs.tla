---------------------------- MODULE Realtime_proofs ----------------------------
(***************************************************************************)
(* The threads of the program, for any number of decks, of any kinds, and  *)
(* any number of controllers: the realtime thread is there while it is     *)
(* needed, none is left when the decks are cleared, and a device is only   *)
(* given up if its hardware is gone.                                       *)
(***************************************************************************)
EXTENDS Realtime, FiniteSetTheorems, TLAPS

Points == {"setup", "sem_wait", "exit", "abort", "start_failed"} \cup Running \cup Stopping

Types ==
    /\ main \in Points
    /\ n \in 1..(ndeck + 1) /\ ndeck <= DECKS /\ nctl \in Nat /\ npt \in Nat
    /\ finished \in BOOLEAN
    /\ rt \in {"none", "init", "loop", "poll", "devices", "plot", "captured", "dead"}
    /\ rn \in 1..ndeck \cup {1} /\ jn \in 1..ndeck \cup {1}
    /\ jack \in {"off", "idle", "decks", "plot"}
    /\ dv \in Seq(Device) /\ started \subseteq 1..ndeck /\ monitor \subseteq 1..ndeck

(* The order of the calls of main: what has been started by then.          *)
BeforeStart ==
    /\ main = "setup" => n = 1 /\ rt = "none" /\ ~finished /\ started = {}
    /\ main = "sem_wait" => n = 1 /\ npt > 0 /\ rt # "none" /\ started = {}
    /\ main \notin {"setup", "exit"} => ndeck > 0

(* The loops of main that begin at the first deck.                         *)
Loops ==
    /\ main \in {"rig_main", "join_ui"} => n = 1
    /\ main \in {"device_start", "start_failed", "monitor_clear"} => n <= ndeck
    /\ main = "device_start" => started \subseteq 1..(n - 1)

(* The flag of the realtime thread: it is set while rt_start waits, and    *)
(* rt_start then fails, or from rt_stop on.                                *)
Flag ==
    /\ rt = "init" => main = "sem_wait"
    /\ rt = "dead" => finished
    /\ rt # "none" => ndeck > 0
    /\ main \in Running => ~finished /\ (rt = "none" <=> npt = 0)

Interface ==
    /\ main \in {"setup", "sem_wait", "device_start", "interface_start"} => ui = "none"
    /\ main = "monitor_clear" => ui = "dead"
    /\ main \in {"rt_stop", "device_stop", "deck_clear", "abort"} => ui \in {"none", "dead"}

JackStarted == {d \in started : CallsBack(d)}
Callbacks == (jack = "off") <=> (JackStarted = {})
(* What each thread is at. *)
Control == Types /\ BeforeStart /\ Loops /\ Flag /\ Interface

(* Nobody is left when the decks are cleared. *)
Cleared == main \in {"deck_clear", "abort"} => rt \in {"none", "dead"} /\ jack = "off"

-----------------------------------------------------------------------------
(* A device *)

(* It is disabled only where it is gone, and is reported to have room for  *)
(* playback where it has.                                                  *)
Sound(v) ==
    /\ v.fault => v.gone
    /\ v.playback.state # "running" => v.playback.n = 0
    /\ ~v.gone /\ "out" \in v.revents => v.playback.n < Periods

(* What is reported to be readable is.                                     *)
Readable(v) == ~v.gone /\ "in" \in v.revents => v.capture.state = "xrun" \/ v.capture.n > 0

(* ALSA captures nothing before it is started.                             *)
Unstarted(v) == v.kind = "alsa" /\ ~v.gone => v.capture = prepared /\ "in" \notin v.revents

(* The device the realtime thread has read from and not written to.        *)
HalfDone(d) == rt \in {"plot", "captured"} /\ d = rn

Devices ==
    \A d \in 1..ndeck :
        Sound(dv[d]) /\ (HalfDone(d) \/ Readable(dv[d])) /\ (d \in started \/ Unstarted(dv[d]))

StartFailed == main = "start_failed" => dv[n].gone

IInv == Control /\ Callbacks /\ Cleared /\ Devices /\ StartFailed

-----------------------------------------------------------------------------
(* The steps that leave the devices alone *)

(* The steps of main and the threads by which no device changes.           *)
Calls ==
    \/ AddController \/ RtStart \/ SemWait \/ MonitorInit \/ Launch \/ InterfaceStop
    \/ InterfaceEnds \/ InterfaceJoined \/ MonitorClear \/ RtStop \/ RtJoined \/ DeckClear
Handling ==
    \/ RtInit \/ RtLoop \/ RtInterrupted \/ NextDevice \/ RtPlot
    \/ JackCycle \/ JackDeck \/ JackPlot

LEMMA CallsControl == ASSUME IInv, Calls PROVE Control'
<1> USE DEF IInv, Control, Types, BeforeStart, Loops, Flag, Interface,
        Points, Running, Stopping, mainVars, tables, setup, realtime, callback, ndeck
<1>1. CASE AddController
  <2>1. CASE Exit
    BY <1>1, <2>1 DEF AddController, Exit
  <2>2. CASE nctl' = nctl + 1 /\ UNCHANGED <<mainVars, dv, npt>>
    BY <1>1, <2>2 DEF AddController
  <2> QED BY <1>1, <2>1, <2>2 DEF AddController
<1>2. CASE RtStart
  <2>1. CASE Exit /\ UNCHANGED rt
    BY <1>2, <2>1 DEF RtStart, Exit
  <2>2. CASE ndeck # 0 /\ npt' = npt + nctl * ControllerFds
             /\ (IF npt' > 0 THEN main' = "sem_wait" /\ rt' = "init"
                            ELSE main' = "device_start" /\ UNCHANGED rt)
             /\ UNCHANGED <<n, dv, nctl>>
    <3> DEFINE more == nctl * ControllerFds
    <3>1. more \in Nat
      BY RealtimeAssumption
    <3> HIDE DEF more
    <3>2. npt' = npt + more
      BY <2>2 DEF more
    <3>3. CASE npt' > 0
      BY <1>2, <2>2, <3>1, <3>2, <3>3 DEF RtStart
    <3>4. CASE ~(npt' > 0)
      BY <1>2, <2>2, <3>1, <3>2, <3>4 DEF RtStart
    <3> QED BY <3>3, <3>4
  <2> QED BY <1>2, <2>1, <2>2 DEF RtStart
<1>3. CASE SemWait
  BY <1>3 DEF SemWait
<1>4. CASE MonitorInit
  BY <1>4 DEF MonitorInit
<1>5. CASE Launch
  BY <1>5 DEF Launch
<1>6. CASE InterfaceStop
  BY <1>6 DEF InterfaceStop
<1>7. CASE InterfaceEnds
  BY <1>7 DEF InterfaceEnds
<1>8. CASE InterfaceJoined
  BY <1>8 DEF InterfaceJoined
<1>9. CASE MonitorClear
  BY <1>9 DEF MonitorClear, NextDeck
<1>10. CASE RtStop
  BY <1>10 DEF RtStop
<1>11. CASE RtJoined
  BY <1>11 DEF RtJoined
<1>12. CASE DeckClear
  BY <1>12 DEF DeckClear
<1> QED BY <1>1, <1>2, <1>3, <1>4, <1>5, <1>6, <1>7, <1>8, <1>9, <1>10, <1>11, <1>12
        DEF Calls

LEMMA HandlingControl == ASSUME IInv, Handling PROVE Control'
<1> USE DEF IInv, Control, Types, BeforeStart, Loops, Flag, Interface,
        Points, Running, Stopping, mainVars, tables, setup, realtime, callback, ndeck
<1>1. CASE RtInit
  BY <1>1 DEF RtInit
<1>2. CASE RtLoop
  BY <1>2 DEF RtLoop
<1>3. CASE RtInterrupted
  BY <1>3 DEF RtInterrupted
<1>4. CASE NextDevice
  BY <1>4 DEF NextDevice, Handled
<1>5. CASE RtPlot
  BY <1>5 DEF RtPlot
<1>6. CASE JackCycle
  BY <1>6 DEF JackCycle
<1>7. CASE JackDeck
  BY <1>7 DEF JackDeck, CalledBack
<1>8. CASE JackPlot
  BY <1>8 DEF JackPlot, CalledBack
<1> QED BY <1>1, <1>2, <1>3, <1>4, <1>5, <1>6, <1>7, <1>8 DEF Handling

(* The starts and the stops are counted. *)
LEMMA StartedCount ==
    ASSUME IInv
    PROVE  IsFiniteSet(JackStarted) /\ nstarted = Cardinality(JackStarted)
<1>1. started \subseteq 1..ndeck /\ ndeck \in Nat
  BY DEF IInv, Control, Types, ndeck
<1>2. IsFiniteSet(1..ndeck)
  BY <1>1, FS_Interval
<1>3. JackStarted \in SUBSET (1..ndeck)
  BY <1>1, Zenon DEF JackStarted
<1> QED BY <1>2, <1>3, FS_Subset, Zenon DEF nstarted, JackStarted

(* Of the other parts of the invariant they touch nothing but what the     *)
(* realtime thread is at; the decks are cleared after both threads.        *)
LEMMA CallsStep == ASSUME IInv, Calls PROVE IInv'
<1> USE DEF mainVars, tables, setup, realtime, callback, ndeck
<1>1. dv' = dv /\ started' = started /\ jack' = jack /\ rn' = rn
  BY DEF Calls, AddController, Exit, RtStart, SemWait, MonitorInit, Launch, InterfaceStop,
         InterfaceEnds, InterfaceJoined, MonitorClear, NextDeck, RtStop, RtJoined, DeckClear
<1>2. rt' = rt \/ (rt = "none" /\ rt' = "init")
  BY DEF Calls, AddController, Exit, RtStart, SemWait, MonitorInit, Launch, InterfaceStop,
         InterfaceEnds, InterfaceJoined, MonitorClear, RtStop, RtJoined, DeckClear,
         IInv, Control, BeforeStart
<1>3. Callbacks'
  BY <1>1 DEF IInv, Callbacks, JackStarted, CallsBack
<1>4. Devices'
  BY <1>1, <1>2 DEF IInv, Devices, HalfDone
<1>5. Cleared'
  <2>1. CASE RtJoined
    <3>1. nstarted = 0
      BY <2>1 DEF RtJoined
    <3>2. JackStarted = {}
      BY <3>1, StartedCount, FS_EmptySet
    <3> QED BY <1>1, <2>1, <3>2 DEF RtJoined, Cleared, IInv, Callbacks
  <2>2. CASE ~RtJoined
    <3>1. main' \in {"deck_clear", "abort"} => main \in {"deck_clear", "abort"} /\ rt' = rt
      BY <2>2 DEF Calls, AddController, Exit, RtStart, SemWait, MonitorInit, Launch,
         InterfaceStop, InterfaceEnds, InterfaceJoined, MonitorClear, NextDeck, RtStop, DeckClear
    <3> QED BY <1>1, <3>1 DEF IInv, Cleared
  <2> QED BY <2>1, <2>2
<1>6. StartFailed'
  <2>1. main' # "start_failed" \/ (main = "start_failed" /\ n' = n)
    BY DEF Calls, AddController, Exit, RtStart, SemWait, MonitorInit, Launch, InterfaceStop,
         InterfaceEnds, InterfaceJoined, MonitorClear, NextDeck, RtStop, RtJoined, DeckClear
  <2> QED BY <1>1, <2>1 DEF IInv, StartFailed
<1> QED BY <1>3, <1>4, <1>5, <1>6, CallsControl DEF IInv

LEMMA HandlingStep == ASSUME IInv, Handling PROVE IInv'
<1> USE DEF mainVars, tables, setup, realtime, callback, ndeck
<1>1. /\ dv' = dv /\ started' = started /\ main' = main /\ n' = n
      /\ jack' = jack \/ (jack # "off" /\ jack' # "off")
  BY DEF Handling, RtInit, RtLoop, RtInterrupted, NextDevice, RtPlot, JackCycle, JackDeck,
         JackPlot, CalledBack
<1>2. Callbacks' /\ StartFailed'
  BY <1>1 DEF IInv, Callbacks, JackStarted, CallsBack, StartFailed
<1>3. Devices'
  <2>1. rt \in {"plot", "captured"} => rt' \in {"plot", "captured"} /\ rn' = rn
    BY DEF Handling, RtInit, RtLoop, RtInterrupted, NextDevice, RtPlot, JackCycle, JackDeck,
         JackPlot
  <2> QED BY <1>1, <2>1 DEF IInv, Devices, HalfDone
<1>4. Cleared'
  <2>1. main \in {"deck_clear", "abort"} => rt' = rt /\ jack' = jack
    BY DEF Handling, RtInit, RtLoop, RtInterrupted, NextDevice, RtPlot, JackCycle, JackDeck,
         JackPlot, IInv, Cleared
  <2> QED BY <1>1, <2>1 DEF IInv, Cleared
<1> QED BY <1>2, <1>3, <1>4, HandlingControl DEF IInv

-----------------------------------------------------------------------------
(* What the operators of Audio do to a device *)

Fields(w, kind, captured, played, revents, gone, fault) ==
    /\ w \in Device /\ w.kind = kind /\ w.capture = captured /\ w.playback = played
    /\ w.revents = revents /\ w.gone = gone /\ w.fault = fault

(* A device with one of its fields changed.                                *)
LEMMA WithCapture ==
    ASSUME NEW v \in Device, NEW s \in Stream
    PROVE  Fields([v EXCEPT !.capture = s], v.kind, s, v.playback, v.revents, v.gone, v.fault)
BY DEF Device, Fields

LEMMA WithPlayback ==
    ASSUME NEW v \in Device, NEW s \in Stream
    PROVE  Fields([v EXCEPT !.playback = s], v.kind, v.capture, s, v.revents, v.gone, v.fault)
BY DEF Device, Fields

LEMMA WithRevents ==
    ASSUME NEW v \in Device, NEW r \in SUBSET {"in", "out"}
    PROVE  Fields([v EXCEPT !.revents = r], v.kind, v.capture, v.playback, r, v.gone, v.fault)
BY DEF Device, Fields

LEMMA Disabled ==
    ASSUME NEW v \in Device
    PROVE  Fields(disabled(v), v.kind, v.capture, v.playback, {}, v.gone, TRUE)
BY DEF Device, Fields, disabled

LEMMA Unplugged ==
    ASSUME NEW v \in Device
    PROVE  Fields(unplugged(v), v.kind, prepared, prepared, v.revents, TRUE, v.fault)
<1>1. prepared \in Stream
  BY AudioAssumption DEF prepared, Stream
<1> QED BY <1>1 DEF Device, Fields, unplugged

(* A new device. *)
LEMMA OpenedIsSound ==
    ASSUME NEW kind \in {"alsa", "oss", "jack"}
    PROVE  LET v == opened(kind)
           IN v \in Device /\ v.kind = kind /\ Sound(v) /\ Readable(v) /\ Unstarted(v)
BY AudioAssumption DEF opened, Device, Stream, running, prepared, Sound, Readable, Unstarted

(* What poll says is true. *)
LEMMA SaysIsTrue ==
    ASSUME NEW v \in Device, NEW says \in Says(v), Sound(v), ~v.fault
    PROVE  LET w == [v EXCEPT !.revents = says]
           IN /\ w \in Device /\ w.kind = v.kind /\ w.gone = v.gone
              /\ Sound(w) /\ Readable(w) /\ (Unstarted(v) => Unstarted(w))
<1> USE AudioAssumption DEF Device, Stream
<1>1. says \subseteq {"in", "out"}
  BY DEF Says
<1>2. v.kind # "jack" /\ ~v.gone =>
        /\ "in" \in says => v.capture.state = "xrun" \/ v.capture.n > 0
        /\ "out" \in says => v.playback.state # "running" \/ v.playback.n < Periods
  BY DEF Says
<1>3. v.kind = "jack" => says = {}
  BY DEF Says
<1> QED BY <1>1, <1>2, <1>3 DEF Sound, Readable, Unstarted, prepared

(* The start of a device finds it as it was opened, unless it is gone.     *)
LEMMA StartedIsSound ==
    ASSUME NEW v \in Device, Sound(v), Unstarted(v)
    PROVE  /\ start(v) \in Device /\ start(v).kind = v.kind /\ Sound(start(v))
           /\ (Readable(v) => Readable(start(v))) /\ (v.gone => start(v).gone)
<1>1. CASE v.kind = "alsa"
  <2> DEFINE w == [v EXCEPT !.capture = running(0)]
  <2>1. running(0) \in Stream
    BY AudioAssumption DEF running, Stream
  <2>2. Fields(w, v.kind, running(0), v.playback, v.revents, v.gone, v.fault)
    BY <2>1, WithCapture
  <2> HIDE DEF w
  <2>3. w \in Device /\ w.kind = v.kind /\ Sound(w) /\ (v.gone => w.gone) /\ Readable(w)
    BY <1>1, <2>2 DEF Fields, Sound, Readable, Unstarted
  <2> QED BY <1>1, <2>3 DEF start, w
<1>2. CASE v.kind # "alsa"
  BY <1>2 DEF start
<1> QED BY <1>1, <1>2

(* A read of what is readable does not disable the device. *)
LEMMA CaptureIsSound ==
    ASSUME NEW v \in Device, Sound(v), Readable(v), "in" \in v.revents
    PROVE  capture(v) \in Device /\ capture(v).kind = v.kind /\ Sound(capture(v))
           /\ (Unstarted(v) => Unstarted(capture(v)))
<1>1. CASE v.gone
  <2>1. capture(v) = disabled(v)
    BY <1>1 DEF capture, ReadFails
  <2> DEFINE w == disabled(v)
  <2>2. Fields(w, v.kind, v.capture, v.playback, {}, v.gone, TRUE)
    BY Disabled
  <2> HIDE DEF w
  <2>3. w \in Device /\ w.kind = v.kind /\ Sound(w) /\ Unstarted(w)
    BY <1>1, <2>2 DEF Fields, Sound, Unstarted
  <2> QED BY <2>1, <2>3 DEF w
<1>2. CASE ~v.gone
  <2> DEFINE s == running(IF v.capture.state = "xrun" THEN 0 ELSE v.capture.n - 1)
             w == [v EXCEPT !.capture = s]
  <2>1. v.capture \in Stream /\ (v.capture.state = "xrun" \/ v.capture.n > 0)
    BY <1>2 DEF Readable, Device
  <2>2. s \in Stream
    BY <2>1, AudioAssumption DEF Stream, running
  <2>3. capture(v) = w
    BY <1>2, <2>1, AudioAssumption DEF capture, ReadFails, Stream
  <2> HIDE DEF s
  <2>4. Fields(w, v.kind, s, v.playback, v.revents, v.gone, v.fault)
    BY <2>2, WithCapture
  <2> HIDE DEF w
  <2>5. w \in Device /\ w.kind = v.kind /\ Sound(w) /\ (Unstarted(v) => Unstarted(w))
    BY <1>2, <2>4 DEF Fields, Sound, Unstarted
  <2> QED BY <2>3, <2>5
<1> QED BY <1>1, <1>2

(* Nor does a write where there is room; then nothing is left to handle.   *)
LEMMA PlaybackIsSound ==
    ASSUME NEW v \in Device, Sound(v)
    PROVE  LET left == IF "out" \in v.revents THEN playback(v) ELSE v
               w == [left EXCEPT !.revents = {}]
           IN /\ w \in Device /\ w.kind = v.kind /\ Sound(w) /\ Readable(w)
              /\ (Unstarted(v) => Unstarted(w))
<1> USE AudioAssumption DEF Device, Stream
<1>1. CASE "out" \notin v.revents
  BY <1>1 DEF Sound, Readable, Unstarted
<1>2. CASE "out" \in v.revents /\ v.gone
  <2> DEFINE w == [disabled(v) EXCEPT !.revents = {}]
  <2>1. playback(v) = disabled(v)
    BY <1>2 DEF playback
  <2>2. disabled(v) \in Device /\ disabled(v).kind = v.kind
        /\ disabled(v).playback = v.playback /\ disabled(v).gone
    BY <1>2, Disabled DEF Fields
  <2>3. Fields(w, v.kind, disabled(v).capture, v.playback, {}, TRUE, disabled(v).fault)
    BY <1>2, <2>2, WithRevents, Disabled DEF Fields
  <2> HIDE DEF w
  <2>4. w \in Device /\ w.kind = v.kind /\ Sound(w) /\ Readable(w) /\ Unstarted(w)
    BY <2>3 DEF Fields, Sound, Readable, Unstarted
  <2> QED BY <1>2, <2>1, <2>4 DEF w
<1>3. CASE "out" \in v.revents /\ ~v.gone
  <2>1. v.playback.n < Periods
    BY <1>3 DEF Sound
  <2>2. CASE v.playback.state = "xrun"
    <3> DEFINE u == [v EXCEPT !.playback = prepared]
               w == [u EXCEPT !.revents = {}]
    <3>1. playback(v) = u
      BY <1>3, <2>1, <2>2 DEF playback
    <3>2. prepared \in Stream /\ prepared.n = 0
      BY DEF prepared
    <3>3. Fields(u, v.kind, v.capture, prepared, v.revents, v.gone, v.fault)
      BY <3>2, WithPlayback
    <3> HIDE DEF u
    <3>4. Fields(w, v.kind, v.capture, prepared, {}, v.gone, v.fault)
      BY <3>3, WithRevents DEF Fields
    <3> HIDE DEF w
    <3>5. w \in Device /\ w.kind = v.kind /\ Sound(w) /\ Readable(w)
          /\ (Unstarted(v) => Unstarted(w))
      BY <3>2, <3>4 DEF Fields, Sound, Readable, Unstarted
    <3> QED BY <1>3, <3>1, <3>5 DEF w
  <2>3. CASE v.playback.state # "xrun"
    BY <1>3, <2>1, <2>3 DEF playback, running, Sound, Readable, Unstarted
  <2> QED BY <2>2, <2>3
<1> QED BY <1>1, <1>2, <1>3

(* The clock of a stream that runs, and the end of the hardware.           *)
LEMMA HardwareIsSound ==
    ASSUME NEW v \in Device, Sound(v), ~v.gone,
           NEW w, \/ v.capture.state = "running" /\ w = Recorded(v)
                  \/ v.playback.state = "running" /\ w = Played(v)
                  \/ w = unplugged(v)
    PROVE  /\ w \in Device /\ w.kind = v.kind /\ (v.gone => w.gone) /\ Sound(w)
           /\ (Readable(v) => Readable(w)) /\ (Unstarted(v) => Unstarted(w))
<1> USE AudioAssumption DEF Device, Stream
<1>1. CASE v.capture.state = "running" /\ w = Recorded(v)
  BY <1>1 DEF Recorded, running, xrun, Sound, Readable, Unstarted, prepared
<1>2. CASE v.playback.state = "running" /\ w = Played(v)
  BY <1>2 DEF Played, running, xrun, Sound, Readable, Unstarted
<1>3. CASE w = unplugged(v)
  <2>1. prepared.n = 0
    BY DEF prepared
  <2> QED BY <1>3, <2>1, Unplugged DEF Fields, Sound, Readable, Unstarted
<1> QED BY <1>1, <1>2, <1>3

-----------------------------------------------------------------------------
(* The steps that change a device *)

(* The decks stay what they are: no step makes an old one of another kind, *)
(* or brings its hardware back.                                            *)
SameDecks ==
    /\ dv' \in Seq(Device) /\ Len(dv') = Len(dv)
    /\ \A d \in 1..ndeck : dv'[d].kind = dv[d].kind /\ (dv[d].gone => dv'[d].gone)

LEMMA Replaced ==
    ASSUME IInv, NEW i \in 1..ndeck, NEW w \in Device,
           w.kind = dv[i].kind, dv[i].gone => w.gone, dv' = [dv EXCEPT ![i] = w]
    PROVE  /\ SameDecks /\ dv'[i] = w
           /\ \A d \in 1..ndeck : d # i => dv'[d] = dv[d]
<1>1. dv \in Seq(Device)
  BY DEF IInv, Control, Types
<1> QED BY <1>1 DEF SameDecks, ndeck

(* The rest of the invariant does not know the devices but by kind.        *)
Working == {"loop", "poll", "devices", "plot", "captured"}

(* The other threads do nothing. *)
OthersWait == UNCHANGED <<main, n, tables, finished, callback, started, monitor, ui>>

LEMMA OthersStay ==
    ASSUME IInv, SameDecks, OthersWait,
           rt' = rt \/ (rt \in Working /\ rt' \in Working), rn' \in 1..ndeck \cup {1}
    PROVE  Control' /\ Callbacks' /\ StartFailed' /\ Cleared'
<1> USE DEF OthersWait, tables, callback, ndeck, Working
<1>1. ndeck' = ndeck
  BY DEF SameDecks
<1>2. Types'
  BY <1>1 DEF IInv, Control, Types, SameDecks, Points, Running, Stopping
<1>3. BeforeStart' /\ Loops' /\ Flag' /\ Interface'
  BY <1>1 DEF IInv, Control, BeforeStart, Loops, Flag, Interface, Running
<1>4. Callbacks'
  <2>1. started \subseteq 1..ndeck
    BY DEF IInv, Control, Types
  <2>2. JackStarted' = JackStarted
    BY <2>1 DEF JackStarted, CallsBack, SameDecks
  <2> QED BY <2>2 DEF IInv, Callbacks
<1>5. StartFailed'
  <2>1. main = "start_failed" => n \in 1..ndeck
    BY DEF IInv, Control, Types, Loops
  <2> QED BY <2>1 DEF IInv, StartFailed, SameDecks
<1> QED BY <1>2, <1>3, <1>4, <1>5 DEF Control, IInv, Cleared

(* The last step of the realtime thread's look at a device.                *)
LEMMA HandledIs ==
    ASSUME IInv, Handled
    PROVE  rt' \in {"devices", "loop"} /\ rn' \in 1..ndeck \cup {1}
<1>1. ndeck \in Nat /\ rn \in 1..ndeck \cup {1}
  BY DEF IInv, Control, Types, ndeck
<1> QED BY <1>1 DEF Handled

(* When the realtime thread is about, there are decks. *)
LEMMA AtADeck ==
    ASSUME IInv, rt # "none"
    PROVE  rn \in 1..ndeck /\ ndeck \in Nat /\ dv \in Seq(Device) /\ dv[rn] \in Device
<1>1. ndeck \in Nat /\ rn \in 1..ndeck \cup {1} /\ ndeck > 0 /\ dv \in Seq(Device)
  BY DEF IInv, Control, Types, Flag, ndeck
<1> QED BY <1>1 DEF ndeck

LEMMA PollStep == ASSUME IInv, PollReturns PROVE IInv'
<1> USE DEF mainVars, tables, callback
<1>1. PICK says \in [1..ndeck -> SUBSET {"in", "out"}] :
        /\ \A d \in 1..ndeck : says[d] \in Says(dv[d])
        /\ dv' = [d \in 1..ndeck |-> IF dv[d].fault THEN dv[d]
                                     ELSE [dv[d] EXCEPT !.revents = says[d]]]
  BY DEF PollReturns
<1>2. dv \in Seq(Device) /\ ndeck \in Nat /\ ndeck = Len(dv)
  BY DEF IInv, Control, Types, ndeck
<1>3. ASSUME NEW d \in 1..ndeck
      PROVE  /\ dv'[d] \in Device /\ dv'[d].kind = dv[d].kind /\ (dv[d].gone => dv'[d].gone)
             /\ Sound(dv'[d]) /\ Readable(dv'[d]) /\ (Unstarted(dv[d]) => Unstarted(dv'[d]))
  <2>1. dv[d] \in Device /\ Sound(dv[d])
    BY <1>2 DEF IInv, Devices, ndeck
  <2>2. CASE dv[d].fault
    <3>1. dv'[d] = dv[d]
      BY <1>1, <2>2
    <3>2. dv[d].gone
      BY <2>1, <2>2 DEF Sound
    <3> QED BY <2>1, <3>1, <3>2 DEF Readable
  <2>3. CASE ~dv[d].fault
    <3>1. dv'[d] = [dv[d] EXCEPT !.revents = says[d]]
      BY <1>1, <2>3
    <3> QED BY <1>1, <2>1, <2>3, <3>1, SaysIsTrue
  <2> QED BY <2>2, <2>3
<1>4. SameDecks
  <2>1. dv' \in [1..ndeck -> Device]
    BY <1>1, <1>3
  <2>2. dv' \in Seq(Device) /\ Len(dv') = ndeck
    BY <1>2, <2>1
  <2> QED BY <1>2, <1>3, <2>2 DEF SameDecks
<1>5. rt = "poll" /\ rt' = "devices" /\ rn' = rn
      /\ OthersWait
  BY DEF PollReturns, Alive, OthersWait
<1>6. Control' /\ Callbacks' /\ StartFailed' /\ Cleared'
  <2>1. rn \in 1..ndeck \cup {1}
    BY DEF IInv, Control, Types
  <2> QED BY <1>4, <1>5, <2>1, OthersStay DEF Working
<1>7. Devices'
  <2>1. ndeck' = ndeck
    BY <1>4 DEF SameDecks, ndeck
  <2> QED BY <1>3, <1>5, <2>1 DEF IInv, Devices, OthersWait
<1> QED BY <1>6, <1>7 DEF IInv

LEMMA InputStep == ASSUME IInv, RtInput PROVE IInv'
<1> USE DEF mainVars, tables, callback
<1>1. /\ rt = "devices" /\ rt' \in {"plot", "captured"} /\ rn' = rn
      /\ OthersWait
      /\ dv' = IF "in" \in dv[rn].revents THEN [dv EXCEPT ![rn] = capture(@)] ELSE dv
  BY DEF RtInput, Input, OthersWait
<1>2. rn \in 1..ndeck /\ dv[rn] \in Device /\ dv \in Seq(Device) /\ ndeck \in Nat
  BY <1>1, AtADeck
<1>3. Sound(dv[rn]) /\ Readable(dv[rn]) /\ (rn \in started \/ Unstarted(dv[rn]))
  BY <1>1, <1>2 DEF IInv, Devices, HalfDone
<1>4. /\ SameDecks
      /\ Sound(dv'[rn]) /\ (rn \in started \/ Unstarted(dv'[rn]))
      /\ \A d \in 1..ndeck : d # rn => dv'[d] = dv[d]
  <2>1. CASE "in" \in dv[rn].revents
    <3> DEFINE w == capture(dv[rn])
    <3>1. w \in Device /\ w.kind = dv[rn].kind /\ Sound(w) /\ (rn \in started \/ Unstarted(w))
      BY <1>2, <1>3, <2>1, CaptureIsSound
    <3>2. dv[rn].gone => w.gone
      BY <1>2, <1>3, <2>1, Disabled DEF capture, ReadFails, Fields
    <3>3. dv' = [dv EXCEPT ![rn] = w]
      BY <1>1, <2>1
    <3> HIDE DEF w
    <3> QED BY <1>2, <3>1, <3>2, <3>3, Replaced
  <2>2. CASE "in" \notin dv[rn].revents
    BY <1>1, <1>2, <1>3, <2>2 DEF SameDecks
  <2> QED BY <2>1, <2>2
<1>5. Control' /\ Callbacks' /\ StartFailed' /\ Cleared'
  BY <1>1, <1>2, <1>4, OthersStay DEF Working
<1>6. Devices'
  <2>1. ndeck' = ndeck
    BY <1>4 DEF SameDecks, ndeck
  <2> QED BY <1>1, <1>4, <2>1 DEF IInv, Devices, HalfDone, OthersWait
<1> QED BY <1>5, <1>6 DEF IInv

LEMMA OutputStep == ASSUME IInv, RtOutput PROVE IInv'
<1> USE DEF mainVars, tables, callback
<1> DEFINE v == dv[rn]
           left == IF "out" \in v.revents THEN playback(v) ELSE v
           w == [left EXCEPT !.revents = {}]
<1>1. /\ rt = "captured" /\ Handled
      /\ OthersWait
      /\ dv' = [dv EXCEPT ![rn] = w]
  BY DEF RtOutput, OthersWait
<1>2. rn \in 1..ndeck /\ v \in Device /\ dv \in Seq(Device) /\ ndeck \in Nat
  BY <1>1, AtADeck
<1>3. Sound(v) /\ (rn \in started \/ Unstarted(v))
  BY <1>2 DEF IInv, Devices
<1>4. /\ w \in Device /\ w.kind = v.kind /\ Sound(w) /\ Readable(w)
      /\ (rn \in started \/ Unstarted(w))
  BY <1>2, <1>3, PlaybackIsSound
<1>5. v.gone => w.gone
  <2> SUFFICES ASSUME v.gone PROVE w.gone
    OBVIOUS
  <2>1. left \in Device /\ left.gone
    BY <1>2, Disabled DEF playback, Fields
  <2> HIDE DEF left
  <2> QED BY <2>1, WithRevents DEF Fields
<1> HIDE DEF w
<1>6. SameDecks /\ dv'[rn] = w /\ \A d \in 1..ndeck : d # rn => dv'[d] = dv[d]
  BY <1>1, <1>2, <1>4, <1>5, Replaced
<1>7. rt' \in {"devices", "loop"} /\ rn' \in 1..ndeck \cup {1}
  BY <1>1, HandledIs
<1>8. Control' /\ Callbacks' /\ StartFailed' /\ Cleared'
  BY <1>1, <1>6, <1>7, OthersStay DEF Working
<1>9. Devices'
  <2>1. ndeck' = ndeck
    BY <1>6 DEF SameDecks, ndeck
  <2>2. \A d \in 1..ndeck : d # rn => ~HalfDone(d)
    BY DEF HalfDone
  <2> QED BY <1>1, <1>4, <1>6, <2>1, <2>2 DEF IInv, Devices, OthersWait
<1> QED BY <1>8, <1>9 DEF IInv

LEMMA HardwareStep ==
    ASSUME IInv, NEW d \in 1..DECKS, Record(d) \/ Play(d) \/ Unplug(d)
    PROVE  IInv'
<1> DEFINE v == dv[d]
<1>1. PICK w : /\ \/ v.capture.state = "running" /\ w = Recorded(v)
                  \/ v.playback.state = "running" /\ w = Played(v)
                  \/ w = unplugged(v)
               /\ Hardware(d, w)
  BY DEF Record, Play, Unplug
<1>2. There(d)
  BY DEF Record, Play, Unplug
<1>3. d \in 1..ndeck /\ v \in Device /\ dv \in Seq(Device) /\ ndeck \in Nat
  <2>1. dv \in Seq(Device)
    BY DEF IInv, Control, Types
  <2>2. d \in 1..ndeck
    BY <1>2, RealtimeAssumption DEF There, ndeck
  <2> QED BY <2>1, <2>2 DEF ndeck
<1>4. Sound(v) /\ ~v.gone
  BY <1>2, <1>3 DEF IInv, Devices, There
<1>5. /\ w \in Device /\ w.kind = v.kind /\ (v.gone => w.gone) /\ Sound(w)
      /\ (Readable(v) => Readable(w)) /\ (Unstarted(v) => Unstarted(w))
  BY <1>1, <1>3, <1>4, HardwareIsSound
<1>6. SameDecks /\ dv'[d] = w /\ \A e \in 1..ndeck : e # d => dv'[e] = dv[e]
  BY <1>1, <1>3, <1>5, Replaced DEF Hardware
<1>7. /\ OthersWait
      /\ rt' = rt /\ rn' = rn
  BY <1>1 DEF Hardware, OthersWait, realtime, mainVars
<1>8. Control' /\ Callbacks' /\ StartFailed' /\ Cleared'
  <2>1. SameDecks
    BY <1>6
  <2>2. rt' = rt /\ rn' \in 1..ndeck \cup {1}
    BY <1>7 DEF IInv, Control, Types
  <2> QED BY <1>7, <2>1, <2>2, OthersStay
<1>9. Devices'
  <2>1. ndeck' = ndeck
    BY <1>6 DEF SameDecks, ndeck
  <2> QED BY <1>5, <1>6, <1>7, <2>1 DEF IInv, Devices, HalfDone, OthersWait
<1> QED BY <1>8, <1>9 DEF IInv

(* A device is started while its streams are as they were opened; JACK     *)
(* rolls from the first of its decks on.                                   *)
LEMMA DeviceStartStep == ASSUME IInv, DeviceStart PROVE IInv'
<1> USE DEF tables, realtime
<1>1. /\ main = "device_start" /\ n \in 1..ndeck /\ ndeck \in Nat /\ dv \in Seq(Device)
      /\ started \subseteq 1..(n - 1) /\ n \in Nat
  BY DEF DeviceStart, IInv, Control, Types, Loops, ndeck
<1>2. dv[n] \in Device /\ Sound(dv[n]) /\ n \notin started
  BY <1>1 DEF IInv, Devices, ndeck
<1>3. Unstarted(dv[n]) /\ (HalfDone(n) \/ Readable(dv[n]))
  BY <1>1, <1>2 DEF IInv, Devices
<1>4. UNCHANGED <<nctl, npt, finished, rt, rn, jn, monitor, ui>>
  BY DEF DeviceStart
<1>5. CASE StartFails(dv[n])
  <2>1. main' = "start_failed" /\ n' = n /\ dv' = dv /\ jack' = jack /\ started' = started
    BY <1>5 DEF DeviceStart
  <2>2. Control'
    BY <1>1, <1>4, <2>1 DEF IInv, Control, Types, BeforeStart, Loops, Flag, Interface, Points,
                            Running, Stopping, ndeck
  <2>3. Callbacks' /\ Cleared' /\ Devices'
    BY <1>4, <2>1 DEF IInv, Callbacks, JackStarted, CallsBack, Cleared, Devices, HalfDone, ndeck
  <2>4. StartFailed'
    BY <1>2, <1>5, <2>1, <1>3 DEF StartFailed, StartFails, Unstarted, prepared
  <2> QED BY <2>2, <2>3, <2>4 DEF IInv
<1>6. CASE ~StartFails(dv[n])
  <2> DEFINE w == start(dv[n])
  <2>1. /\ dv' = [dv EXCEPT ![n] = w] /\ started' = started \cup {n}
        /\ jack' = IF CallsBack(n) /\ nstarted = 0 THEN "idle" ELSE jack
        /\ NextDeck("interface_start")
    BY <1>6 DEF DeviceStart
  <2>2. w \in Device /\ w.kind = dv[n].kind /\ Sound(w) /\ (HalfDone(n) \/ Readable(w))
        /\ (dv[n].gone => w.gone)
    BY <1>2, <1>3, StartedIsSound
  <2> HIDE DEF w
  <2>3. SameDecks /\ dv'[n] = w /\ \A d \in 1..ndeck : d # n => dv'[d] = dv[d]
    BY <1>1, <2>1, <2>2, Replaced
  <2>4. ndeck' = ndeck
    BY <2>3 DEF SameDecks, ndeck
  <2>5. Control'
    <3>1. CASE n < ndeck
      BY <1>1, <1>4, <2>1, <2>3, <2>4, <3>1 DEF NextDeck, SameDecks, IInv, Control, Types,
         BeforeStart, Loops, Flag, Interface, Points, Running, Stopping
    <3>2. CASE ~(n < ndeck)
      BY <1>1, <1>4, <2>1, <2>3, <2>4, <3>2 DEF NextDeck, SameDecks, IInv, Control, Types,
         BeforeStart, Loops, Flag, Interface, Points, Running, Stopping
    <3> QED BY <3>1, <3>2
  <2>6. Callbacks'
    <3>1. started \subseteq 1..ndeck /\ \A d \in 1..ndeck : CallsBack(d)' <=> CallsBack(d)
      BY <2>3 DEF IInv, Control, Types, SameDecks, CallsBack
    <3>2. JackStarted' = JackStarted \cup (IF CallsBack(n) THEN {n} ELSE {})
      BY <1>1, <2>1, <3>1 DEF JackStarted
    <3>3. nstarted = 0 <=> JackStarted = {}
      BY StartedCount, FS_EmptySet
    <3> QED BY <2>1, <3>2, <3>3 DEF IInv, Callbacks
  <2>7. main' \in {"device_start", "interface_start"}
    BY <1>1, <2>1 DEF NextDeck
  <2>8. Cleared' /\ StartFailed'
    BY <2>7 DEF Cleared, StartFailed
  <2>9. Devices'
    BY <1>4, <2>1, <2>2, <2>3, <2>4 DEF IInv, Devices, HalfDone
  <2> QED BY <2>5, <2>6, <2>8, <2>9 DEF IInv
<1> QED BY <1>5, <1>6

(* The last stop of a deck of JACK is the one after which it is off.       *)
LEMMA DeviceStopStep == ASSUME IInv, DeviceStop PROVE IInv'
<1> USE DEF mainVars, tables, setup, realtime
<1>1. PICK d \in started :
        /\ CallsBack(d) /\ started' = started \ {d}
        /\ IF nstarted = 1 THEN jack = "idle" /\ jack' = "off" ELSE UNCHANGED jack
  BY DEF DeviceStop
<1>2. main = "device_stop"
      /\ UNCHANGED <<main, n, dv, nctl, npt, finished, rt, rn, jn, monitor, ui>>
  BY DEF DeviceStop
<1>3. Control'
  BY <1>1, <1>2 DEF IInv, Control, Types, BeforeStart, Loops, Flag, Interface, ndeck
<1>4. Callbacks'
  <2>1. JackStarted' = JackStarted \ {d} /\ d \in JackStarted
    BY <1>1, <1>2 DEF JackStarted, CallsBack
  <2>2. IsFiniteSet(JackStarted) /\ nstarted = Cardinality(JackStarted)
    BY StartedCount
  <2>3. IsFiniteSet(JackStarted') /\ Cardinality(JackStarted') = nstarted - 1
        /\ nstarted \in Nat
    BY <2>1, <2>2, FS_RemoveElement, FS_CardinalityType
  <2>4. JackStarted' = {} <=> nstarted = 1
    <3>1. JackStarted' = {} <=> Cardinality(JackStarted') = 0
      BY <2>3, FS_EmptySet
    <3> QED BY <2>3, <3>1
  <2> QED BY <1>1, <2>1, <2>4 DEF IInv, Callbacks
<1>5. Cleared' /\ StartFailed'
  BY <1>2 DEF Cleared, StartFailed
<1>6. Devices'
  <2>1. dv[d].kind = "jack"
    BY <1>1 DEF CallsBack
  <2>2. \A e \in 1..ndeck : e \in started' \/ Unstarted(dv[e])
    BY <1>1, <2>1 DEF IInv, Devices, Unstarted
  <2> QED BY <1>2, <2>2 DEF IInv, Devices, HalfDone, ndeck
<1> QED BY <1>3, <1>4, <1>5, <1>6 DEF IInv

LEMMA AddDeckStep == ASSUME IInv, AddDeck PROVE IInv'
<1> USE DEF mainVars, realtime, callback, tables, setup
<1>1. /\ main = "setup" /\ started = {} /\ rt = "none" /\ n = 1 /\ dv \in Seq(Device)
      /\ ndeck \in Nat /\ ndeck = Len(dv) /\ ~finished
  BY DEF AddDeck, IInv, Control, Types, BeforeStart, ndeck
<1>2. UNCHANGED <<finished, realtime, callback, started, monitor, ui, nctl, n>>
  BY DEF AddDeck, Add, Exit
<1>3. CASE Exit
  <2>1. main' = "exit" /\ dv' = dv /\ npt' = npt /\ n' = n
    BY <1>3 DEF Exit
  <2>2. Control'
    BY <1>1, <1>2, <2>1 DEF IInv, Control, Types, BeforeStart, Loops, Flag, Interface, Points,
                            Running, ndeck
  <2> QED BY <1>2, <2>1, <2>2 DEF IInv, Callbacks, JackStarted, CallsBack, Cleared, Devices,
                            HalfDone, StartFailed, ndeck
<1>4. CASE ~Exit
  <2>1. ndeck < DECKS
    BY <1>4 DEF AddDeck
  <2>2. PICK kind \in Kinds[ndeck + 1] :
          dv' = Append(dv, opened(kind)) /\ npt' = npt + Fds[kind] /\ main' = main
    BY <1>4, <2>1 DEF AddDeck, Add
  <2> DEFINE v == opened(kind)
  <2>3. DECKS \in Nat /\ ndeck + 1 \in 1..DECKS
    BY <1>1, <2>1, RealtimeAssumption
  <2>4. kind \in {"alsa", "oss", "jack"}
    BY <2>2, <2>3, RealtimeAssumption
  <2>5. v \in Device /\ Sound(v) /\ Readable(v) /\ Unstarted(v)
    BY <2>4, OpenedIsSound
  <2>6. Fds[kind] \in Nat
    BY <2>4, RealtimeAssumption DEF Fds
  <2> HIDE DEF v
  <2>7. dv' \in Seq(Device) /\ Len(dv') = ndeck + 1 /\ dv'[ndeck + 1] = v
        /\ \A d \in 1..ndeck : dv'[d] = dv[d]
    BY <1>1, <2>2, <2>5 DEF v
  <2>8. Control'
    BY <1>1, <1>2, <2>2, <2>3, <2>6, <2>7 DEF IInv, Control, Types, BeforeStart, Loops, Flag,
       Interface, Points, Running, ndeck
  <2>9. Devices'
    <3> SUFFICES ASSUME NEW d \in 1..(ndeck + 1)
                 PROVE  /\ Sound(dv'[d]) /\ (HalfDone(d)' \/ Readable(dv'[d]))
                        /\ (d \in started' \/ Unstarted(dv'[d]))
      BY <2>7 DEF Devices, ndeck
    <3>1. CASE d = ndeck + 1
      BY <2>5, <2>7, <3>1
    <3>2. CASE d # ndeck + 1
      <4>1. d \in 1..ndeck
        BY <1>1, <3>2
      <4> QED BY <1>1, <1>2, <2>7, <4>1 DEF IInv, Devices, HalfDone
    <3> QED BY <3>1, <3>2
  <2>10. Callbacks' /\ Cleared' /\ StartFailed'
    BY <1>1, <1>2, <2>2 DEF IInv, Callbacks, JackStarted, Cleared, StartFailed
  <2> QED BY <2>8, <2>9, <2>10 DEF IInv
<1> QED BY <1>3, <1>4

(* The threads and the devices are as they should be at every step.        *)
THEOREM Invariance == Spec => []IInv
<1>1. Init => IInv
  <2> SUFFICES ASSUME Init PROVE IInv
    OBVIOUS
  <2> USE DEF Init
  <2>1. ndeck = 0 /\ dv \in Seq(Device) /\ DECKS \in Nat
    <3>1. DECKS \in Nat
      BY RealtimeAssumption
    <3> QED BY <3>1 DEF ndeck
  <2>2. Control
    <3>1. Types
      <4>1. n \in 1..(ndeck + 1) /\ ndeck <= DECKS
        BY <2>1
      <4>2. rn \in 1..ndeck \cup {1} /\ jn \in 1..ndeck \cup {1}
        OBVIOUS
      <4>3. started \subseteq 1..ndeck /\ monitor \subseteq 1..ndeck
        OBVIOUS
      <4> QED BY <2>1, <4>1, <4>2, <4>3 DEF Types, Points
    <3>2. BeforeStart /\ Loops /\ Flag /\ Interface
      BY <2>1 DEF BeforeStart, Loops, Flag, Interface, Running
    <3> QED BY <3>1, <3>2 DEF Control
  <2>3. JackStarted = {}
    BY DEF JackStarted
  <2> QED BY <2>1, <2>2, <2>3 DEF IInv, Callbacks, Cleared, Devices, StartFailed
<1>2. IInv /\ [Next]_vars => IInv'
  <2> SUFFICES ASSUME IInv, [Next]_vars PROVE IInv'
    OBVIOUS
  <2>1. CASE Calls
    BY <2>1, CallsStep
  <2>2. CASE Handling
    BY <2>2, HandlingStep
  <2>3. CASE AddDeck
    BY <2>3, AddDeckStep
  <2>4. CASE DeviceStart
    BY <2>4, DeviceStartStep
  <2>5. CASE DeviceStop
    BY <2>5, DeviceStopStep
  <2>6. CASE PollReturns
    BY <2>6, PollStep
  <2>7. CASE RtInput
    BY <2>7, InputStep
  <2>8. CASE RtOutput
    BY <2>8, OutputStep
  <2>9. CASE \E d \in 1..DECKS : Record(d) \/ Play(d) \/ Unplug(d)
    BY <2>9, HardwareStep
  <2>10. CASE UNCHANGED vars
    BY <2>10 DEF vars, IInv, Control, Types, BeforeStart, Loops, Flag, Interface, Callbacks,
       JackStarted, CallsBack, Cleared, Devices, HalfDone, StartFailed, ndeck
  <2> QED BY <2>1, <2>2, <2>3, <2>4, <2>5, <2>6, <2>7, <2>8, <2>9, <2>10
          DEF Next, Main, Rt, RtPoll, RtPress, Jack, Calls, Handling
<1> QED BY <1>1, <1>2, PTL DEF Spec

-----------------------------------------------------------------------------
(* What it says *)

(* The realtime thread is there from the return of rt_start to rt_stop.    *)
THEOREM RealtimeThreadRuns == Spec => []RealtimeRuns
<1>1. IInv => RealtimeRuns
  BY DEF IInv, Control, Types, Flag, RealtimeRuns, Running
<1> QED BY <1>1, Invariance, PTL

(* No thread that uses the decks is left when they are cleared.            *)
THEOREM ClearedInQuiet == Spec => []QuietWhenCleared
<1>1. IInv => QuietWhenCleared
  <2> SUFFICES ASSUME IInv PROVE QuietWhenCleared
    OBVIOUS
  <2>1. nstarted = 0 <=> JackStarted = {}
    BY StartedCount, FS_EmptySet
  <2> QED BY <2>1 DEF IInv, Callbacks, Cleared, Control, Interface, QuietWhenCleared
<1> QED BY <1>1, Invariance, PTL

(* A device is only given up for its hardware. *)
THEOREM GivenUpForHardware == Spec => []OnlyFailuresDisable
<1>1. IInv => OnlyFailuresDisable
  BY DEF IInv, Devices, Sound, StartFailed, OnlyFailuresDisable
<1> QED BY <1>1, Invariance, PTL

(* The entries of the poll table that the decks and the controllers take.  *)
PollInv ==
    /\ main = "setup" => npt <= ndeck * AlsaFds
    /\ npt <= DECKS * AlsaFds + RT_CTL * ControllerFds

(* Multiples of the same size keep their order. *)
LEMMA Multiples ==
    ASSUME NEW a \in Nat, NEW b \in Nat, NEW size \in Nat, a <= b
    PROVE  a * size \in Nat /\ b * size \in Nat /\ a * size <= b * size
           /\ (a + 1) * size = a * size + size
OBVIOUS

(* Main and rt_start fill the table, and nobody else touches it.           *)
LEMMA PollTable ==
    ASSUME IInv, [Next]_vars
    PROVE  \/ AddDeck \/ RtStart
           \/ npt' = npt /\ (main' = "setup" => main = "setup" /\ ndeck' = ndeck)
<1> USE DEF mainVars, tables, setup, realtime, callback
<1>1. CASE AddController
  BY <1>1 DEF AddController, Exit, ndeck
<1>2. CASE \E d \in 1..DECKS : Record(d) \/ Play(d) \/ Unplug(d)
  <2>1. dv \in Seq(Device)
    BY DEF IInv, Control, Types
  <2>2. ASSUME NEW d \in 1..DECKS, NEW w, dv' = [dv EXCEPT ![d] = w] PROVE ndeck' = ndeck
    BY <2>1, <2>2 DEF ndeck
  <2>3. (\E d \in 1..DECKS : \E w : dv' = [dv EXCEPT ![d] = w]) /\ npt' = npt /\ main' = main
    BY <1>2 DEF Record, Play, Unplug, Hardware
  <2> QED BY <2>2, <2>3
<1>3. CASE SemWait \/ MonitorInit \/ Launch \/ InterfaceStop \/ InterfaceEnds \/ InterfaceJoined
           \/ MonitorClear \/ RtStop \/ RtJoined \/ DeckClear
  BY <1>3 DEF SemWait, MonitorInit, Launch, InterfaceStop, InterfaceEnds, InterfaceJoined,
              MonitorClear, NextDeck, RtStop, RtJoined, DeckClear, ndeck
<1>4. CASE DeviceStart \/ DeviceStop
  BY <1>4 DEF DeviceStart, DeviceStop, NextDeck
<1>5. CASE Handling \/ PollReturns \/ RtInput \/ RtOutput
  <2>1. npt' = npt /\ main' = main
    BY <1>5 DEF Handling, RtInit, RtLoop, RtInterrupted, NextDevice, RtPlot, JackCycle, JackDeck,
                JackPlot, PollReturns, RtInput, Input, RtOutput
  <2>2. main # "setup"
    <3>1. rt # "none" \/ jack # "off"
      BY <1>5 DEF Handling, RtInit, RtLoop, RtInterrupted, NextDevice, RtPlot, JackCycle,
                  JackDeck, JackPlot, PollReturns, RtInput, RtOutput
    <3>2. started = {} => JackStarted = {}
      BY DEF JackStarted
    <3> QED BY <3>1, <3>2 DEF IInv, Control, BeforeStart, Callbacks
  <2> QED BY <2>1, <2>2
<1>6. CASE UNCHANGED vars
  BY <1>6 DEF vars, ndeck
<1> QED BY <1>1, <1>2, <1>3, <1>4, <1>5, <1>6
        DEF Next, Main, Rt, RtPoll, RtPress, Jack, Handling

(* The poll table is large enough for the decks and the controllers that   *)
(* main lets in, although what the code checks is not the number of its    *)
(* entries but that of its bytes: 32 for three decks and three controllers, *)
(* of which ALSA and MIDI want two and one each.                           *)
THEOREM TypeCorrect ==
    ASSUME DECKS * AlsaFds + RT_CTL * ControllerFds <= POLL
    PROVE  Spec => []TypeOK
<1>1. RT_CTL \in Nat /\ DECKS \in Nat /\ POLL \in Nat /\ AlsaFds \in Nat \ {0} /\ ControllerFds \in Nat
  BY RealtimeAssumption
<1> DEFINE most == DECKS * AlsaFds
           controllers == RT_CTL * ControllerFds
<1>2. most \in Nat /\ controllers \in Nat /\ most + controllers <= POLL
  BY <1>1
<1> HIDE DEF most, controllers
<1>3. Init => PollInv
  <2> SUFFICES ASSUME Init PROVE PollInv
    OBVIOUS
  <2>1. ndeck = 0 /\ npt = 0
    BY DEF Init, ndeck
  <2> QED BY <1>1, <1>2, <2>1 DEF PollInv, most, controllers
<1>4. IInv /\ PollInv /\ [Next]_vars => PollInv'
  <2> SUFFICES ASSUME IInv, PollInv, [Next]_vars PROVE PollInv'
    OBVIOUS
  <2>1. npt \in Nat /\ nctl \in Nat /\ ndeck \in Nat /\ ndeck <= DECKS /\ dv \in Seq(Device)
        /\ ndeck = Len(dv)
    BY DEF IInv, Control, Types, ndeck
  <2>2. CASE AddDeck /\ ~Exit
    <3>1. ndeck < DECKS /\ main = "setup" /\ main' = main
      BY <2>2 DEF AddDeck, Add, mainVars
    <3>2. PICK kind \in Kinds[ndeck + 1] :
            dv' = Append(dv, opened(kind)) /\ npt' = npt + Fds[kind]
      BY <2>2, <3>1 DEF AddDeck, Add
    <3>3. kind \in {"alsa", "oss", "jack"}
      <4>1. ndeck + 1 \in 1..DECKS
        BY <1>1, <2>1, <3>1
      <4> QED BY <3>2, <4>1, RealtimeAssumption
    <3>4. Fds[kind] \in Nat /\ Fds[kind] <= AlsaFds
      BY <1>1, <3>3 DEF Fds
    <3> DEFINE filled == ndeck * AlsaFds
               full == (ndeck + 1) * AlsaFds
    <3>5. filled \in Nat /\ full \in Nat /\ full = filled + AlsaFds /\ full <= most
      <4>1. ndeck + 1 \in Nat /\ ndeck + 1 <= DECKS
        BY <1>1, <2>1, <3>1
      <4> QED BY <1>1, <2>1, <4>1, Multiples DEF most
    <3>6. npt <= filled
      BY <3>1 DEF PollInv
    <3>7. ndeck' = ndeck + 1
      BY <2>1, <3>2 DEF ndeck
    <3>8. ndeck' * AlsaFds = full
      BY <3>7
    <3> HIDE DEF filled, full
    <3>9. npt' <= full /\ npt' <= most + controllers
      BY <1>1, <1>2, <2>1, <3>2, <3>4, <3>5, <3>6
    <3> QED BY <3>8, <3>9 DEF PollInv, most, controllers
  <2>3. CASE RtStart /\ npt' # npt
    <3>1. nctl <= RT_CTL /\ npt' = npt + nctl * ControllerFds /\ main = "setup" /\ main' # "setup"
      BY <1>1, <2>1, <2>3 DEF RtStart, Exit, setup, tables
    <3>2. npt <= ndeck * AlsaFds
      BY <3>1 DEF PollInv
    <3>3. ndeck * AlsaFds \in Nat /\ ndeck * AlsaFds <= most
      BY <1>1, <2>1, Multiples DEF most
    <3>4. nctl * ControllerFds \in Nat /\ nctl * ControllerFds <= controllers
      BY <1>1, <2>1, <3>1, Multiples DEF controllers
    <3>5. npt' <= most + controllers
      BY <1>2, <2>1, <3>1, <3>2, <3>3, <3>4
    <3> QED BY <3>1, <3>5 DEF PollInv, most, controllers
  <2>4. CASE npt' = npt /\ (main' = "setup" => main = "setup" /\ ndeck' = ndeck)
    BY <2>4 DEF PollInv
  <2>5. CASE AddDeck /\ Exit
    BY <2>5 DEF PollInv, Exit, setup, tables
  <2>6. CASE RtStart /\ npt' = npt
    BY <2>6 DEF PollInv, RtStart, Exit
  <2> QED BY <2>2, <2>3, <2>4, <2>5, <2>6, PollTable
<1>5. IInv /\ PollInv => TypeOK
  <2> SUFFICES ASSUME IInv, PollInv PROVE TypeOK
    OBVIOUS
  <2>1. npt \in 0..POLL
    <3>1. npt \in Nat /\ npt <= most + controllers
      BY DEF IInv, Control, Types, PollInv, most, controllers
    <3> QED BY <1>1, <1>2, <3>1
  <2> QED BY <2>1 DEF IInv, Control, Types, Points, TypeOK
<1> QED BY <1>3, <1>4, <1>5, Invariance, PTL DEF Spec
===============================================================================
