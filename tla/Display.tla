-------------------------------- MODULE Display ---------------------------------
(* The event loop of the interface (interface.c:1491-1666) over the loading of
   tracks: SDL's queue of events, the timer that asks for a redraw, and the status
   line (status.c), which both the interface and the rig set and only the interface
   draws. Of what is drawn only the status line is not a matter of one event: the
   lists are drawn in the event that changed them, the decks at every tick.

   A message is not told from another, only whether the line on the screen shows the
   last one. Whoever sets or draws it holds the rig lock. *)
EXTENDS Loading

CONSTANT QueueCap       \* events SDL's queue holds

ASSUME DisplayAssumption == QueueCap \in Nat \ {0}

VARIABLES
    queue,          \* SDL's queue, oldest first
    event,          \* the one the interface is at
    status_update,  \* whether the line is to be drawn, at the top of the loop
    fits,           \* whether the window has room for it
    shown,          \* whether it is there and shows the last message
    lost,           \* if not, whether SDL had no room to say that there is one
    main            \* main is in rig_main, joins the interface, or has aborted

line == <<status_update, fits, shown>>
display == <<queue, event, line, lost, main>>
dvars == <<vars, display>>

UserEvents == {"tick", "status", "finish"}      \* of type SDL_USEREVENT
Events == UserEvents \cup {"key", "close", "resize"}

DisplayType ==
    /\ queue \in Seq(Events) /\ Len(queue) <= QueueCap
    /\ event \in Events \cup {"none"}
    /\ {status_update, fits, shown, lost} \subseteq BOOLEAN
    /\ main \in {"rig_main", "join_ui", "abort"}

\* interface_start sets the banner, which is drawn with the first event.
DisplayInit ==
    /\ Init
    /\ queue = <<>> /\ event = "none" /\ lost = FALSE /\ main = "rig_main"
    /\ status_update = TRUE /\ fits = TRUE /\ shown = FALSE

----------------------------------------------------------------------------
(* SDL_PushEvent, and what calls it *)

Room == Len(queue) < QueueCap
Push(e) == Room /\ queue' = Append(queue, e)

\* Mutant: the interface is not notified.
notify_Not == UNCHANGED <<queue, lost>>

\* status_change, which does not look at whether there was room.
notify ==
    \/ Push("status") /\ UNCHANGED lost
    \/ ~Room /\ lost' = ~shown' /\ UNCHANGED queue

\* ticker, until SDL_RemoveTimer: at most one of its events waits.
Ticker ==
    /\ uiPc # "stopped"
    /\ ToSet(queue) \cap UserEvents = {} /\ Push("tick")
    /\ UNCHANGED <<vars, event, line, lost, main>>

\* The user presses a key, closes the window or resizes it, one at a time; SDL drops
\* what does not fit.
User ==
    /\ uiPc # "stopped"
    /\ ToSet(queue) \subseteq UserEvents
    /\ \E e \in Events \ UserEvents : (e = "close" => UserQuits) /\ Push(e)
    /\ UNCHANGED <<vars, event, line, lost, main>>

\* interface_stop, once rig_main has returned, aborts if there is no room.
InterfaceStop ==
    /\ main = "rig_main" /\ rigPc = "finished"
    /\ \/ Push("finish") /\ main' = "join_ui"
       \/ ~Room /\ main' = "abort" /\ UNCHANGED queue
    /\ UNCHANGED <<vars, event, line, lost>>

----------------------------------------------------------------------------
(* The interface thread *)

\* SDL_WaitEvent returns.
Wait ==
    /\ UiEvent
    /\ queue # <<>> /\ event' = Head(queue) /\ queue' = Tail(queue)
    /\ UNCHANGED <<line, lost, main>>

\* The interface is at this event, with the rig lock held.
At(e) == uiPc = "event" /\ event = e

\* The end of an event, in which a message was set or was not: the line is drawn if
\* it is to be and there is room for it in the window; if there is no room it is no
\* longer to be drawn.
Drawn(set, update, room) ==
    /\ shown' = (room /\ (update \/ (shown /\ ~set)))
    /\ status_update' = FALSE /\ fits' = room
    /\ event' = "none"

NoMessage == lost' = (lost /\ ~shown') /\ UNCHANGED <<queue, main>>
Message == notify /\ UNCHANGED main

Tick == At("tick") /\ UiIgnore /\ Drawn(FALSE, status_update, fits) /\ NoMessage

\* Mutant: the new size does not have the line drawn.
Resize_NotDrawn ==
    /\ At("resize") /\ UiIgnore
    /\ \E room \in BOOLEAN : Drawn(FALSE, FALSE, room) /\ NoMessage

Resize ==
    /\ At("resize") /\ UiIgnore
    /\ \E room \in BOOLEAN : Drawn(FALSE, TRUE, room) /\ NoMessage

Status == At("status") /\ UiIgnore /\ Drawn(FALSE, TRUE, fits) /\ NoMessage

\* Keys that move the selector, or that a locked deck refuses, set the status line;
\* others do not.
Key ==
    /\ At("key") /\ UiIgnore
    /\ \/ Drawn(TRUE, status_update, fits) /\ Message
       \/ Drawn(FALSE, status_update, fits) /\ NoMessage

\* Keys that load or clone go on to exchange the tracks, until Loaded.
Load ==
    /\ At("key")
    /\ \/ \E d \in Decks, p \in Paths : UiLoadAgain(d, p) \/ UiLoadNew(d, p)
       \/ \E d, from \in Decks : UiClone(d, from)
    /\ UNCHANGED display

Loads == (UiLock \/ UiPost \/ UiSwap) /\ UNCHANGED display
Loaded == UiPut /\ Drawn(FALSE, status_update, fits) /\ NoMessage

\* Loading has at most one request to quit in the rig's pipe.
Close ==
    /\ At("close")
    /\ UiQuit \/ (UiIgnore /\ "QUIT" \in Range(events))
    /\ Drawn(FALSE, status_update, fits) /\ NoMessage

GiveUp == (At("close") \/ At("resize")) /\ UiGivesUp /\ UNCHANGED display
Finish == At("finish") /\ UiStop /\ UNCHANGED display

----------------------------------------------------------------------------
(* The rig: stop_import sets the line if an import has failed. *)

Fails == rigPc = "wait" /\ Report(Current) = "alert"
RigAlerts ==
    /\ Fails /\ Rigs
    /\ shown' = FALSE /\ Message
    /\ UNCHANGED <<event, status_update, fits>>
RigWorks == ~Fails /\ Rigs /\ UNCHANGED display

Handle == Tick \/ Status \/ Resize \/ Key \/ Load \/ Close \/ Finish

\* The realtime thread, which only ever delays an exchange of tracks, is left out.
Import == \E t \in Tracks : Importers(t) /\ UNCHANGED display

\* An abort ends the program, and every thread of it.
Alive == main # "abort"

DisplayNext ==
    /\ Alive
    /\ \/ Ticker \/ User \/ InterfaceStop \/ Wait \/ Handle \/ Loads \/ Loaded \/ GiveUp
       \/ RigAlerts \/ RigWorks \/ Import

\* As in Loading, with the events that SDL delivers in the order of their coming, and
\* the timer, which goes off again and again.
DisplayFairness ==
    /\ WF_dvars(Alive /\ (RigAlerts \/ (RigSteps /\ RigWorks)))
    /\ SF_dvars(Alive /\ (RigLock \/ RigRelock) /\ RigWorks)
    /\ SF_dvars(Alive /\ RigPoll /\ RigWorks)
    /\ WF_dvars(Alive /\ (Wait \/ Handle \/ (UiPost /\ Loads) \/ Loaded))
    /\ SF_dvars(Alive /\ (UiLock \/ UiSwap) /\ Loads)
    /\ WF_dvars(Alive /\ Ticker) /\ WF_dvars(InterfaceStop)
    /\ \A t \in Tracks :
          WF_dvars(Alive /\ ImporterProgress(t) /\ Importers(t) /\ UNCHANGED display)

DisplaySpec == DisplayInit /\ [][DisplayNext]_dvars /\ DisplayFairness

----------------------------------------------------------------------------
(* Properties *)

\* The interface has ended: as it should, with the rig lock held (UiGivesUp), or
\* with the program.
Ended == uiPc \in {"stopped", "failed"} \/ main = "abort"

\* However the interface and the rig set it and the window changes, the status line
\* comes to show its last message again, if it has room in the window. Excepted is
\* that SDL's queue was full at the time: status_change does not look (interface.c:1519).
StatusIsShown == []<>(shown \/ ~fits \/ lost \/ Ended)

\* A request to quit ends both threads, and so does a failure of the rig. Excepted
\* are the interface's own failure with the rig lock held, after which the rig can wait
\* for it for ever, and interface_stop's abort when SDL's queue is full.
Quitting == "QUIT" \in Range(events) \/ rigPc = "finished"
QuitStops ==
    Quitting ~> \/ uiPc = "stopped" /\ rigPc = "finished"
                \/ uiPc = "failed" \/ main = "abort"
=============================================================================
