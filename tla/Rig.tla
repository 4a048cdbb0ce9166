-------------------------------- MODULE Rig ---------------------------------
(***************************************************************************)
(* rig.c: the main thread.  It polls an event pipe and the pipes of the    *)
(* first few importing tracks with the lock released, and handles tracks   *)
(* with the lock held.                                                     *)
(***************************************************************************)
EXTENDS Track, SequencesExt

CONSTANT EventCap   \* how many events the event pipe holds

ASSUME RigAssumption == EventCap \in Nat \ {0}

VARIABLES
    lock,       \* the rig mutex: "none", "rig" or "ui"
    events,     \* the event pipe, oldest first
    rig,        \* the list `tracks` of rig.c, newest first
    polled,     \* the tracks given the poll entries pt[1], pt[2] .. this time
    revents,    \* pt[i].revents # 0
    rigPc,      \* where rig_main is
    cursor      \* `track` in its walk of the list, as an index

rigVars == <<lock, events, rig, polled, revents, rigPc, cursor>>

RigTypeOK ==
    /\ lock \in {"none", "rig", "ui"}
    /\ events \in Seq({"WAKE", "QUIT"})
    /\ rig \in Seq(Tracks)
    /\ polled \in Seq(Tracks)
    /\ revents \in [1 .. Slots -> BOOLEAN]
    /\ rigPc \in {"relock", "fill", "poll", "drain", "lock", "handle", "read",
                  "wait", "finished"}
    /\ cursor \in Nat

RigInit ==
    /\ lock = "none"
    /\ events = <<>>
    /\ rig = <<>>
    /\ polled = <<>>
    /\ revents = [i \in 1 .. Slots |-> FALSE]
    /\ rigPc = "relock"
    /\ cursor = 1

Listed == Range(rig)

-----------------------------------------------------------------------------
(* rig_post_track, called by track_init with the rig lock held: the list   *)
(* first, then an event that may have to wait for room in the pipe.        *)
ListTrack(t) == rig' = <<t>> \o rig

PostEvent(e) ==
    /\ Len(events) < EventCap
    /\ events' = Append(events, e)

-----------------------------------------------------------------------------
(* mutex_lock on entry, and again when poll was interrupted.               *)
RigRelock ==
    /\ rigPc = "relock"
    /\ lock = "none"
    /\ lock' = "rig"
    /\ rigPc' = "fill"
    /\ UNCHANGED <<importVars, trackVars, events, rig, polled, revents, cursor>>

(* Mutant: more tracks than entries are polled. *)
RigFill_AllTracks ==
    /\ rigPc = "fill"
    /\ polled' = rig
    /\ pe' = [t \in Tracks |->
                 IF t \in Listed THEN CHOOSE i \in DOMAIN rig : rig[i] = t
                 ELSE pe[t]]
    /\ lock' = "none"
    /\ rigPc' = "poll"
    /\ UNCHANGED <<importVars, tracks, refcount, path, pid, terminated, length,
                   outcome, events, rig, revents, cursor>>

(* track_pollfd for as many tracks as there are entries; then unlock.  A   *)
(* track beyond them keeps whatever t->pe it had.                          *)
RigFill ==
    /\ rigPc = "fill"
    /\ LET n == IF Len(rig) < Slots THEN Len(rig) ELSE Slots
       IN  /\ polled' = SubSeq(rig, 1, n)
           /\ pe' = [t \in Tracks |->
                        IF \E i \in 1 .. n : rig[i] = t
                        THEN CHOOSE i \in 1 .. n : rig[i] = t
                        ELSE pe[t]]
    /\ lock' = "none"
    /\ rigPc' = "poll"
    /\ UNCHANGED <<importVars, tracks, refcount, path, pid, terminated, length,
                   outcome, events, rig, revents, cursor>>

(* What poll reports on an entry: data, or that the other end has gone.    *)
Ready(i) == pipe[polled[i]] > 0 \/ proc[polled[i]] # "running"

(* Of pt[0], the event pipe, revents is used at once.  Entries above those *)
(* passed to poll belong to no track.  The descriptors in the entries, and *)
(* below the results once the walk is over, are dead, and are blanked.     *)
RigPoll ==
    /\ rigPc = "poll"
    /\ events # <<>> \/ \E i \in 1 .. Len(polled) : Ready(i)
    /\ revents' = [i \in 1 .. Slots |-> i <= Len(polled) /\ Ready(i)]
    /\ polled' = <<>>
    /\ rigPc' = IF events # <<>> THEN "drain" ELSE "lock"
    /\ UNCHANGED <<importVars, trackVars, lock, events, rig, cursor>>

RigPollInterrupted ==
    /\ rigPc = "poll"
    /\ rigPc' = "relock"
    /\ polled' = <<>>
    /\ UNCHANGED <<importVars, trackVars, lock, events, rig, revents, cursor>>

(* poll, or a read of the event pipe, fails for another reason: rig_main   *)
(* returns -1.                                                             *)
RigPollError ==
    /\ rigPc \in {"poll", "drain"}
    /\ MayFail
    /\ rigPc' = "finished"
    /\ UNCHANGED <<importVars, trackVars, lock, events, rig, polled, revents, cursor>>

(* Mutant: the quit event ends the draining only. *)
RigDrain_BreaksOnQuit ==
    /\ rigPc = "drain"
    /\ IF events = <<>>
       THEN rigPc' = "lock" /\ UNCHANGED events
       ELSE events' = Tail(events) /\ UNCHANGED rigPc
    /\ UNCHANGED <<importVars, trackVars, lock, rig, polled, revents, cursor>>

(* One read of the event pipe, without the lock.                           *)
RigDrain ==
    /\ rigPc = "drain"
    /\ IF events = <<>>
       THEN rigPc' = "lock" /\ UNCHANGED events
       ELSE /\ events' = Tail(events)
            /\ rigPc' = IF Head(events) = "QUIT" THEN "finished" ELSE "drain"
    /\ UNCHANGED <<importVars, trackVars, lock, rig, polled, revents, cursor>>

RigLock ==
    /\ rigPc = "lock"
    /\ lock = "none"
    /\ lock' = "rig"
    /\ rigPc' = "handle"
    /\ UNCHANGED <<importVars, trackVars, events, rig, polled, revents, cursor>>

-----------------------------------------------------------------------------
(* track_handle on each track of the list, the lock held throughout.       *)

Current == rig[cursor]

(* track_handle returns early unless this holds.                           *)
Active(t) == pe[t] # NULL /\ revents[pe[t]]

RigHandle ==
    /\ rigPc = "handle"
    /\ \/ /\ cursor > Len(rig)
          /\ rigPc' = "fill"
          /\ cursor' = 1 /\ revents' = [i \in 1 .. Slots |-> FALSE]
       \/ /\ cursor <= Len(rig) /\ ~Active(Current)
          /\ cursor' = cursor + 1
          /\ UNCHANGED <<rigPc, revents>>
       \/ /\ cursor <= Len(rig) /\ Active(Current)
          /\ rigPc' = "read"
          /\ UNCHANGED <<cursor, revents>>
    /\ UNCHANGED <<importVars, trackVars, lock, events, rig, polled>>

RigRead ==
    /\ rigPc = "read"
    /\ ReadChunk(Current)
    /\ UNCHANGED rigVars

RigReadNothing ==
    /\ rigPc = "read"
    /\ WouldBlock(Current)
    /\ cursor' = cursor + 1
    /\ rigPc' = "handle"
    /\ UNCHANGED <<importVars, trackVars, lock, events, rig, polled, revents>>

RigReadEnds ==
    /\ rigPc = "read"
    /\ NoSpace(Current) \/ EndOfFile(Current)
    /\ CloseFd(Current)
    /\ rigPc' = "wait"
    /\ UNCHANGED <<lock, events, rig, polled, revents, cursor>>

(* waitpid returns; the track leaves the list, so the next one takes its   *)
(* index.                                                                  *)
RigStopImport ==
    /\ rigPc = "wait"
    /\ StopImport(Current)
    /\ rig' = RemoveAt(rig, cursor)
    /\ rigPc' = "handle"
    /\ UNCHANGED <<lock, events, polled, revents, cursor>>

RigNext ==
    \/ RigRelock \/ RigFill \/ RigPoll \/ RigPollInterrupted \/ RigPollError
    \/ RigDrain \/ RigLock \/ RigHandle \/ RigRead \/ RigReadNothing
    \/ RigReadEnds \/ RigStopImport
=============================================================================
