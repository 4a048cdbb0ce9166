------------------------------- MODULE Track --------------------------------
(***************************************************************************)
(* track.c: reference counted track objects, shared between decks, and the *)
(* import that fills them.  Every operator here is called with the rig     *)
(* lock held; Rig and Loading say by whom and when.                        *)
(***************************************************************************)
EXTENDS Importer, Sequences, FiniteSets

CONSTANTS
    Paths,      \* (importer, pathname) pairs, the key of track_get_again
    Size,       \* how many chunks each path decodes to
    Empty,      \* the static track `empty`
    Capacity,   \* TRACK_MAX_BLOCKS, in chunks
    MayFail,    \* may malloc, mlock or fork fail?
    Slots       \* poll entries the rig has for tracks: pt[1] .. pt[3]

ASSUME TrackAssumption ==
    /\ Paths # {}
    /\ IsFiniteSet(Tracks)
    /\ Empty \notin Tracks
    /\ Size \in [Paths -> 0 .. MaxData]
    /\ Capacity \in Nat
    /\ MayFail \in BOOLEAN
    /\ Slots \in Nat

Objects == Tracks \union {Empty}
NULL == 0           \* t->pe, otherwise the index of a poll entry

VARIABLES
    tracks,     \* the objects in memory: the list `tracks` of track.c
    refcount,
    path,       \* t->importer and t->path
    pid,        \* t->pid # 0, "track is importing"
    pe,         \* t->pe
    terminated,
    length,     \* chunks of audio in memory
    outcome     \* what stop_import told the user: "none", "completed",
                \* "alert" (error importing) or "silent"

trackVars == <<tracks, refcount, path, pid, pe, terminated, length, outcome>>

TrackTypeOK ==
    /\ tracks \subseteq Tracks
    /\ refcount \in [Objects -> Nat]
    /\ path \in [Tracks -> Paths]
    /\ pid \in [Tracks -> BOOLEAN]
    /\ pe \in [Tracks -> 0 .. Slots]
    /\ terminated \in [Tracks -> BOOLEAN]
    /\ length \in [Tracks -> Nat]
    /\ outcome \in [Tracks -> {"none", "completed", "alert", "silent"}]

(* What a free heap cell contains means nothing.  It is left as it was in  *)
(* refcount and pe, and blank elsewhere.                                   *)
Blank == CHOOSE p \in Paths : TRUE

TrackInit(decks) ==
    /\ tracks = {}
    /\ refcount = [t \in Objects |-> IF t = Empty THEN 1 + decks ELSE 0]
    /\ path = [t \in Tracks |-> Blank]
    /\ pid = [t \in Tracks |-> FALSE]
    /\ pe = [t \in Tracks |-> NULL]
    /\ terminated = [t \in Tracks |-> FALSE]
    /\ length = [t \in Tracks |-> 0]
    /\ outcome = [t \in Tracks |-> "none"]

(* track_clear and free. *)
Free(t) ==
    /\ tracks' = tracks \ {t}
    /\ path' = [path EXCEPT ![t] = Blank]
    /\ length' = [length EXCEPT ![t] = 0]
    /\ outcome' = [outcome EXCEPT ![t] = "none"]
    /\ terminated' = [terminated EXCEPT ![t] = FALSE]

-----------------------------------------------------------------------------
(* track_get_again finds an object by its key.                             *)
Found(t, p) == t \in tracks /\ path[t] = p

TrackGet(t) ==
    /\ refcount' = [refcount EXCEPT ![t] = @ + 1]
    /\ UNCHANGED <<tracks, path, pid, pe, terminated, length, outcome>>

(* Mutant: the poll entry is not reset. *)
TrackNew_KeepsEntry(t, p) ==
    /\ t \notin tracks
    /\ Fork(t, Size[p])
    /\ tracks' = tracks \union {t}
    /\ refcount' = [refcount EXCEPT ![t] = 1]
    /\ path' = [path EXCEPT ![t] = p]
    /\ pid' = [pid EXCEPT ![t] = TRUE]
    /\ terminated' = [terminated EXCEPT ![t] = FALSE]
    /\ length' = [length EXCEPT ![t] = 0]
    /\ outcome' = [outcome EXCEPT ![t] = "none"]
    /\ UNCHANGED pe

(* track_init on a cell from malloc.  rig_post_track takes the rig's       *)
(* reference straight away, so the count that track_init zeroes is one.    *)
TrackNew(t, p) ==
    /\ t \notin tracks
    /\ Fork(t, Size[p])
    /\ tracks' = tracks \union {t}
    /\ refcount' = [refcount EXCEPT ![t] = 1]
    /\ path' = [path EXCEPT ![t] = p]
    /\ pid' = [pid EXCEPT ![t] = TRUE]
    /\ pe' = [pe EXCEPT ![t] = NULL]
    /\ terminated' = [terminated EXCEPT ![t] = FALSE]
    /\ length' = [length EXCEPT ![t] = 0]
    /\ outcome' = [outcome EXCEPT ![t] = "none"]

(* Mutant: one reference too early. *)
LastButRig_TooSoon(t) == t \in Tracks /\ refcount[t] = 3 /\ pid[t]

(* Dropping this reference leaves only the rig's: the import is unwanted.  *)
LastButRig(t) == t \in Tracks /\ refcount[t] = 2 /\ pid[t]

(* track_put, for an object the caller holds a reference to.               *)
TrackPut(t) ==
    /\ refcount' = [refcount EXCEPT ![t] = @ - 1]
    /\ \/ /\ LastButRig(t)
          /\ Kill(t)
          /\ terminated' = [terminated EXCEPT ![t] = TRUE]
          /\ UNCHANGED <<tracks, path, length, outcome>>
       \/ ~LastButRig(t) /\ refcount[t] = 1 /\ Free(t) /\ UNCHANGED importVars
       \/ /\ ~LastButRig(t) /\ refcount[t] # 1
          /\ UNCHANGED <<importVars, tracks, path, length, outcome, terminated>>
    /\ UNCHANGED <<pid, pe>>

-----------------------------------------------------------------------------
(* The steps of track_handle on a track whose poll entry has data.         *)

(* access_pcm returns NULL: no block is free, or none can be had; or read  *)
(* fails.  A chunk is a block.                                             *)
NoSpace(t) == length[t] >= Capacity \/ MayFail

(* read_from_pipe, once round its loop, with something to read.            *)
ReadChunk(t) ==
    /\ length[t] < Capacity
    /\ pipe[t] > 0
    /\ pipe' = [pipe EXCEPT ![t] = @ - 1]
    /\ length' = [length EXCEPT ![t] = @ + 1]
    /\ UNCHANGED <<proc, output, fd, inherits, signalled>>
    /\ UNCHANGED <<tracks, refcount, path, pid, pe, terminated, outcome>>

(* The read would block: more is to come.                                  *)
WouldBlock(t) == length[t] < Capacity /\ pipe[t] = 0 /\ proc[t] = "running"

(* Mutant: what is left in the pipe is not read. *)
EndOfFile_OnHangUp(t) == proc[t] # "running"

(* End of file: the pipe is empty and its writer has gone.                 *)
EndOfFile(t) == pipe[t] = 0 /\ proc[t] # "running"

(* Mutant: the descriptor stays open. *)
CloseFd_Leaks(t) == UNCHANGED <<importVars, trackVars>>

(* stop_import, up to the waitpid that may block.                          *)
CloseFd(t) ==
    /\ fd' = [fd EXCEPT ![t] = FALSE]
    /\ UNCHANGED <<proc, output, pipe, inherits, signalled, trackVars>>

(* The rest of stop_import. *)
Report(t) ==
    IF proc[t] = "ok" THEN "completed"
    ELSE IF terminated[t] THEN "silent" ELSE "alert"

(* Mutant: the rig's reference is not given back. *)
StopImport_NoPut(t) ==
    /\ Exited(t)
    /\ Reap(t)
    /\ pid' = [pid EXCEPT ![t] = FALSE]
    /\ outcome' = [outcome EXCEPT ![t] = Report(t)]
    /\ UNCHANGED <<refcount, tracks, path, length, terminated, pe>>

(* waitpid returns; then track_put gives back the reference that the rig   *)
(* has held.  pid is zero by then, so it never kills.                      *)
StopImport(t) ==
    /\ Exited(t)
    /\ Reap(t)
    /\ pid' = [pid EXCEPT ![t] = FALSE]
    /\ refcount' = [refcount EXCEPT ![t] = @ - 1]
    /\ IF refcount[t] = 1
       THEN Free(t)
       ELSE /\ outcome' = [outcome EXCEPT ![t] = Report(t)]
            /\ UNCHANGED <<tracks, path, length, terminated>>
    /\ UNCHANGED pe
=============================================================================
