---------------------------- MODULE SharedTracks ----------------------------
(***************************************************************************)
(* What reference counting promises the users of tracks: the decks, the    *)
(* rig while it imports, and the interface in the middle of an operation.  *)
(* A track is in memory exactly as long as somebody uses it, and its       *)
(* import is cancelled at the moment that nobody but the rig does.         *)
(*                                                                         *)
(* There are no counts here, only who uses what.                           *)
(***************************************************************************)
CONSTANTS Tracks, Decks, Rig, Interface

Users == Decks \union {Rig, Interface}

VARIABLES
    uses,       \* uses[u] is the set of tracks that u refers to
    inMemory,
    cancelled   \* tracks whose import has been told to stop

svars == <<uses, inMemory, cancelled>>

Init ==
    /\ uses = [u \in Users |-> {}]
    /\ inMemory = {}
    /\ cancelled = {}

UsedBy(t) == {u \in Users : t \in uses[u]}

(* An import starts. *)
Start(t) ==
    /\ t \notin inMemory
    /\ inMemory' = inMemory \union {t}
    /\ uses' = [uses EXCEPT ![Rig] = @ \union {t}]
    /\ UNCHANGED cancelled

(* The interface gets hold of a track. *)
Take(t) ==
    /\ t \in inMemory
    /\ uses' = [uses EXCEPT ![Interface] = {t}]
    /\ UNCHANGED <<inMemory, cancelled>>

(* A deck gets what the interface holds, which gets what the deck had. *)
Exchange(d) ==
    /\ uses' = [uses EXCEPT ![d] = uses[Interface], ![Interface] = uses[d]]
    /\ UNCHANGED <<inMemory, cancelled>>

Release(u, t) ==
    LET left == UsedBy(t) \ {u}
    IN  /\ t \in uses[u]
        /\ uses' = [uses EXCEPT ![u] = @ \ {t}]
        /\ inMemory' = IF left = {} THEN inMemory \ {t} ELSE inMemory
        /\ cancelled' = IF left = {} THEN cancelled \ {t}
                        ELSE IF left = {Rig} THEN cancelled \union {t}
                        ELSE cancelled

Next ==
    \/ \E t \in Tracks : Start(t) \/ Take(t) \/ Release(Rig, t) \/ Release(Interface, t)
    \/ \E d \in Decks : Exchange(d)

Spec == Init /\ [][Next]_svars
=============================================================================
