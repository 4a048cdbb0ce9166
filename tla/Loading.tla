------------------------------ MODULE Loading -------------------------------
(***************************************************************************)
(* Loading tracks to decks: the interface thread, which runs each SDL      *)
(* event with the rig lock held (interface.c, deck.c), the swap of a       *)
(* player's track (player.c) against the realtime thread which plays it,   *)
(* the rig thread (Rig) and the import processes (Importer).               *)
(***************************************************************************)
EXTENDS Rig

CONSTANTS
    Decks,
    UserQuits,          \* does the user ever ask to quit?
    NoDeck, NoTrack     \* a thread that is busy with no deck, no track

ASSUME DecksAssumption ==
    /\ IsFiniteSet(Decks)
    /\ UserQuits \in BOOLEAN
    /\ NoDeck \notin Decks
    /\ NoTrack \notin Objects
    /\ {"rig", "interface"} \cap Decks = {}     \* see Uses

VARIABLES
    deck,       \* pl->track of the deck's player
    uiPc,       \* where interface_main is
    uiDeck,     \* the deck its key is about
    uiTrack,    \* `t` and then `x` of deck_load and player_set_track
    rtDeck,     \* the deck whose player lock the realtime thread holds
    rtTrack     \* the track it is playing from meanwhile

uiVars == <<uiPc, uiDeck, uiTrack>>
rtVars == <<rtDeck, rtTrack>>
vars == <<importVars, trackVars, rigVars, deck, uiVars, rtVars>>

TypeOK ==
    /\ ImporterTypeOK
    /\ TrackTypeOK
    /\ RigTypeOK
    /\ deck \in [Decks -> Objects]
    /\ uiPc \in {"idle", "lock", "event", "post", "swap", "put", "stopped",
                "failed"}
    /\ uiDeck \in Decks \union {NoDeck}
    /\ uiTrack \in Objects \union {NoTrack}
    /\ rtDeck \in Decks \union {NoDeck}
    /\ rtTrack \in Objects \union {NoTrack}

(* Once deck_init has run for each deck, and every thread has started; the *)
(* interface thread may have found no display, and left.                   *)
Init ==
    /\ ImporterInit
    /\ TrackInit(Cardinality(Decks))
    /\ RigInit
    /\ deck = [d \in Decks |-> Empty]
    /\ uiPc \in {"idle"} \union (IF MayFail THEN {"stopped"} ELSE {})
    /\ uiDeck = NoDeck /\ uiTrack = NoTrack
    /\ rtDeck = NoDeck /\ rtTrack = NoTrack

-----------------------------------------------------------------------------
(* The interface thread.                                                   *)

(* SDL_WaitEvent returns.                                                  *)
UiEvent ==
    /\ uiPc = "idle"
    /\ uiPc' = "lock"
    /\ UNCHANGED <<importVars, trackVars, rigVars, deck, uiDeck, uiTrack, rtVars>>

UiLock ==
    /\ uiPc = "lock"
    /\ lock = "none"
    /\ lock' = "ui"
    /\ uiPc' = "event"
    /\ UNCHANGED <<importVars, trackVars, events, rig, polled, revents, rigPc,
                   cursor, deck, uiDeck, uiTrack, rtVars>>

(* The end of an event: back to the top of the loop.                       *)
UiUnlock ==
    /\ lock' = "none"
    /\ uiPc' = "idle" /\ uiDeck' = NoDeck /\ uiTrack' = NoTrack
    /\ UNCHANGED <<events, rig, polled, revents, rigPc, cursor>>

(* Mutant: the lock is kept. *)
UiIgnore_KeepsLock ==
    /\ uiPc' = "idle"
    /\ UNCHANGED <<importVars, trackVars, rigVars, deck, uiDeck, uiTrack, rtVars>>

(* Every other event, and a load that changes nothing: the deck is locked, *)
(* or track_get_by_import returns NULL.                                    *)
UiIgnore ==
    /\ UiUnlock
    /\ UNCHANGED <<importVars, trackVars, deck, rtVars>>

(* deck_load of a path that is in memory.                                  *)
UiLoadAgain(d, p) ==
    /\ \E t \in Tracks : Found(t, p) /\ TrackGet(t) /\ uiTrack' = t
    /\ uiDeck' = d
    /\ uiPc' = "swap"
    /\ UNCHANGED <<importVars, rigVars, deck, rtVars>>

(* deck_load of a path that is not: track_init, up to the event that       *)
(* rig_post_track posts.                                                   *)
UiLoadNew(d, p) ==
    /\ ~ \E t \in Tracks : Found(t, p)
    /\ \E t \in Tracks : TrackNew(t, p) /\ ListTrack(t) /\ uiTrack' = t
    /\ uiDeck' = d
    /\ uiPc' = "post"
    /\ UNCHANGED <<lock, events, polled, revents, rigPc, cursor, deck, rtVars>>

(* Mutant: the rig takes no reference. *)
UiPost_NoGet ==
    /\ uiPc = "post"
    /\ PostEvent("WAKE")
    /\ uiPc' = "swap"
    /\ UNCHANGED <<importVars, trackVars, lock, rig, polled, revents, rigPc,
                   cursor, deck, uiDeck, uiTrack, rtVars>>

(* Mutant: the rig is not woken. *)
UiPost_NoWake ==
    /\ uiPc = "post"
    /\ TrackGet(uiTrack)
    /\ uiPc' = "swap"
    /\ UNCHANGED <<importVars, rigVars, deck, uiDeck, uiTrack, rtVars>>

(* The event, then track_get for the deck.                                 *)
UiPost ==
    /\ uiPc = "post"
    /\ PostEvent("WAKE")
    /\ TrackGet(uiTrack)
    /\ uiPc' = "swap"
    /\ UNCHANGED <<importVars, lock, rig, polled, revents, rigPc, cursor, deck,
                   uiDeck, uiTrack, rtVars>>

(* deck_clone, which asks nothing of the deck's lock; d may be `from`.     *)
UiClone(d, from) ==
    /\ TrackGet(deck[from])
    /\ uiDeck' = d /\ uiTrack' = deck[from]
    /\ uiPc' = "swap"
    /\ UNCHANGED <<importVars, rigVars, deck, rtVars>>

(* Mutant: the lock of the player is not taken. *)
UiSwap_NoLock ==
    /\ uiPc = "swap"
    /\ deck' = [deck EXCEPT ![uiDeck] = uiTrack]
    /\ uiTrack' = deck[uiDeck]
    /\ uiPc' = "put"
    /\ UNCHANGED <<importVars, trackVars, rigVars, uiDeck, rtVars>>

(* player_set_track and player_clone: exchange the tracks once the         *)
(* realtime thread has let go of the player's lock.                        *)
UiSwap ==
    /\ uiPc = "swap"
    /\ rtDeck # uiDeck
    /\ deck' = [deck EXCEPT ![uiDeck] = uiTrack]
    /\ uiTrack' = deck[uiDeck]
    /\ uiPc' = "put"
    /\ UNCHANGED <<importVars, trackVars, rigVars, uiDeck, rtVars>>

(* Discard the old track, and finish the event.                            *)
UiPut ==
    /\ uiPc = "put"
    /\ TrackPut(uiTrack)
    /\ UiUnlock
    /\ UNCHANGED <<deck, rtVars>>

(* SDL_QUIT.  One at a time is enough.                                     *)
UiQuit ==
    /\ UserQuits
    /\ "QUIT" \notin Range(events)
    /\ PostEvent("QUIT")
    /\ lock' = "none"
    /\ uiPc' = "idle"
    /\ UNCHANGED <<importVars, trackVars, rig, polled, revents, rigPc, cursor,
                   deck, uiDeck, uiTrack, rtVars>>

(* interface_stop, called by main once rig_main has returned, has this     *)
(* thread leave its loop.                                                  *)
UiStop ==
    /\ rigPc = "finished"
    /\ lock' = "none"
    /\ uiPc' = "stopped"
    /\ UNCHANGED <<importVars, trackVars, events, rig, polled, revents, rigPc,
                   cursor, deck, uiDeck, uiTrack, rtVars>>

(* rig_quit fails to write, or set_size to follow a resize of the window:  *)
(* the thread is left with the rig lock held (interface.c:1561-1569).      *)
UiGivesUp ==
    /\ MayFail
    /\ uiPc' = "failed"
    /\ UNCHANGED <<importVars, trackVars, rigVars, deck, uiDeck, uiTrack, rtVars>>

-----------------------------------------------------------------------------
(* The realtime thread: player_collect takes the player's lock and reads   *)
(* the audio of its track.  It never waits for long, the interface thread  *)
(* holding that lock for an exchange of pointers only.                     *)

RtCollect(d) ==
    /\ rtDeck = NoDeck
    /\ rtDeck' = d
    /\ rtTrack' = deck[d]
    /\ UNCHANGED <<importVars, trackVars, rigVars, deck, uiVars>>

RtDone ==
    /\ rtDeck # NoDeck
    /\ rtDeck' = NoDeck /\ rtTrack' = NoTrack
    /\ UNCHANGED <<importVars, trackVars, rigVars, deck, uiVars>>

-----------------------------------------------------------------------------
Rigs == RigNext /\ UNCHANGED <<deck, uiVars, rtVars>>

(* The event that the interface has taken, with the lock held.              *)
UiHandle ==
    /\ uiPc = "event"
    /\ \/ UiIgnore \/ UiQuit \/ UiStop \/ UiGivesUp
       \/ \E d \in Decks, p \in Paths : UiLoadAgain(d, p) \/ UiLoadNew(d, p)
       \/ \E d, from \in Decks : UiClone(d, from)

Importers(t) ==
    /\ ImporterProgress(t) \/ ImporterFail(t)
    /\ UNCHANGED <<trackVars, rigVars, deck, uiVars, rtVars>>

Next ==
    \/ Rigs
    \/ UiEvent \/ UiLock \/ UiHandle \/ UiPost \/ UiSwap \/ UiPut
    \/ \E d \in Decks : RtCollect(d)
    \/ RtDone
    \/ \E t \in Tracks : Importers(t)

SafetySpec == Init /\ [][Next]_vars

(***************************************************************************)
(* Fairness.  Threads and children that can run do run.  The rig mutex and *)
(* a player's lock do not starve a thread that keeps asking (SF).  Once    *)
(* rig_main has returned, main pushes an event that ends the interface     *)
(* thread, and the SDL queue hands it out in the end.  Nothing makes the   *)
(* user press a key, or poll, the interface thread or an importer fail.    *)
(***************************************************************************)
Others == UNCHANGED <<deck, uiVars, rtVars>>
RigSteps == RigNext /\ ~RigPollInterrupted /\ ~RigPollError /\ Others

UiRuns == (UiHandle /\ uiPc' # "failed") \/ UiPost \/ UiPut \/ (UiEvent /\ rigPc = "finished")

Fairness ==
    /\ WF_vars(RigSteps)
    /\ SF_vars((RigLock \/ RigRelock) /\ Others)
    /\ SF_vars(RigPoll /\ Others)
    /\ WF_vars(UiRuns)
    /\ SF_vars(UiLock \/ UiSwap)
    /\ SF_vars(uiPc = "event" /\ UiStop)
    /\ WF_vars(RtDone)
    /\ \A t \in Tracks :
          WF_vars(ImporterProgress(t)
                    /\ UNCHANGED <<trackVars, rigVars, deck, uiVars, rtVars>>)

Spec == SafetySpec /\ Fairness

-----------------------------------------------------------------------------
(* The interface thread holds a counted reference of its own between       *)
(* track_get and the exchange, and to the old track until it is put.       *)
UiHolds(t) == uiPc \in {"swap", "put"} /\ uiTrack = t

Holders(t) == {d \in Decks : deck[d] = t}

One(b) == IF b THEN 1 ELSE 0

(* A reference count is the number of references there are: from decks,    *)
(* from the rig's list, from the interface thread in the middle of a load, *)
(* and, for the empty track, the one it starts with.  Every get and put of *)
(* track.c, rig.c, deck.c and player.c is in balance.                      *)
RefcountExact ==
    \A t \in tracks \union {Empty} :
        refcount[t] = Cardinality(Holders(t)) + One(t \in Listed)
                        + One(UiHolds(t)) + One(t = Empty)

(* No deck, list, poll or thread keeps a pointer to a track that has been  *)
(* freed; above all the realtime thread, which holds no reference, only    *)
(* the lock of a player whose track may be exchanged and put meanwhile.    *)
NoDangling ==
    /\ Listed \subseteq tracks
    /\ \A d \in Decks : deck[d] \in tracks \union {Empty}
    /\ uiTrack # NoTrack => uiTrack \in tracks \union {Empty}
    /\ rtDeck # NoDeck => rtTrack \in tracks \union {Empty}

(* A track is importing exactly as long as the rig looks after it, once,   *)
(* and its process and read end have not been given back.                  *)
ImportingIffListed ==
    /\ \A t \in tracks : pid[t] <=> t \in Listed
    /\ \A i, j \in DOMAIN rig : rig[i] = rig[j] => i = j
    /\ \A t \in Tracks : proc[t] # "none" <=> t \in Listed
    /\ \A t \in Tracks :
          fd[t] <=> t \in Listed /\ ~(rigPc = "wait" /\ t = Current)

(* Two decks with the same record share one object (track_get_again).      *)
OnePerPath == \A t, u \in tracks : path[t] = path[u] => t = u

(* The assertions and aborts of track.c and player.c: 265 and 371 when the *)
(* last reference goes, 346 and 348 when an import is terminated, 386 and  *)
(* 469 in the rig, player.c:290 when a deck takes the reference.           *)
NoAbort ==
    /\ uiPc = "put" /\ refcount[uiTrack] = 1 => uiTrack # Empty /\ ~pid[uiTrack]
    /\ uiPc = "put" /\ LastButRig(uiTrack) => proc[uiTrack] # "none"
    /\ \A t \in Listed : pid[t]
    /\ uiPc = "swap" => refcount[uiTrack] > 0

Wakes == {i \in DOMAIN events : events[i] = "WAKE"}

(* A wake-up that is still in the pipe is for a track that is still in the *)
(* list, so as many events as there can be imports is all the room the     *)
(* pipe needs for the interface never to block in it with the lock held.   *)
EventsFit == Cardinality(Wakes) <= Len(rig)

(* Wherever audio is reported as completely imported, all of it is there   *)
(* (except beyond the maximum length).                                     *)
CompletedIsWhole ==
    \A t \in tracks : outcome[t] = "completed" =>
        length[t] = Size[path[t]] \/ length[t] >= Capacity

(* The reference counts do what SharedTracks promises: a track is freed in *)
(* the step that ends its last use and in no other, and terminated in the  *)
(* step that leaves the rig its only user (track.c:362).                   *)
Uses ==
    [u \in Decks \union {"rig", "interface"} |->
        (IF u = "rig" THEN Listed
         ELSE IF u = "interface" THEN {t \in Tracks : UiHolds(t)}
         ELSE {deck[u]}) \ {Empty}]

Shared == INSTANCE SharedTracks WITH
    Rig <- "rig", Interface <- "interface",
    uses <- Uses, inMemory <- tracks,
    cancelled <- {t \in tracks : terminated[t]}

CountsShare == Shared!Spec

(* A deck whose track was cut short has had an alert about it.             *)
TruncationReported ==
    \A d \in Decks : deck[d] # Empty =>
        LET t == deck[d]
        IN  ~pid[t] /\ length[t] < Size[path[t]] => outcome[t] = "alert"

(* "Synchronise with the import process and complete it ... Post: track is *)
(* not importing" (track.c:432-435): stop_import does not join a circle of *)
(* waiting. While the rig is in waitpid some process can still move.       *)
Blocked(t) == ~signalled[t] /\ output[t] > 0 /\ pipe[t] = PipeCap /\ HasReader(t)

NoWaitCycle ==
    rigPc = "wait" /\ proc[Current] = "running" =>
        \E t \in Tracks : proc[t] = "running" /\ ~Blocked(t)

(* An event the user makes is handled and the interface ready for the next *)
(* one: neither the rig lock, the event pipe nor a player's lock holds it  *)
(* up for ever.                                                            *)
EventHandled == []<>(uiPc \in {"idle", "stopped", "failed"})

(* Unless new imports are begun for ever, each of which goes before it in  *)
(* the list (rig.c:111), a track that no deck holds any more is freed, its *)
(* import having been brought to an end, or is taken up again, whatever    *)
(* else the user does.  Which track makes no difference: one is enough.    *)
UnwantedFreed ==
    LET t == CHOOSE t \in Tracks : TRUE
    IN  <>[](uiPc # "post") => []<>(t \notin tracks \/ Holders(t) # {} \/ rigPc = "finished")

(* With fewer poll entries than imports the oldest waits for newer ones,   *)
(* but once the user is quiet they all end.                                *)
QuietImportsEnd ==
    <>[](uiPc = "idle") => <>[](rig = <<>> \/ rigPc = "finished")
=============================================================================
