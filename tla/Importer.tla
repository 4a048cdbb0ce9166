------------------------------ MODULE Importer ------------------------------
(***************************************************************************)
(* The import processes and their pipes.                                   *)
(*                                                                         *)
(* external.c forks one child per import, its standard output attached to  *)
(* a pipe whose read end the rig reads without blocking.  The child        *)
(* (`import`, which execs a decoder) and the kernel are not part of xwax:  *)
(* they are modelled from what fork_pipe_nb, read, kill, close and waitpid *)
(* in src/ rely on.  A process and its pipe carry the name of the track    *)
(* they were started for; audio is counted in chunks.                      *)
(***************************************************************************)
EXTENDS Naturals

CONSTANTS
    Tracks,     \* the heap cells that malloc may return for a struct track
    MaxData,    \* the longest file, in chunks (a bound)
    PipeCap     \* how many chunks a pipe holds

ASSUME PipeAssumption == MaxData \in Nat /\ PipeCap \in Nat \ {0}

VARIABLES
    proc,       \* "none", "running", or a zombie: "ok" (EXIT_SUCCESS), "failed"
    output,     \* chunks the process has yet to write
    pipe,       \* chunks written and not yet read
    fd,         \* is the read end open in xwax (t->fd)?
    inherits,   \* the tracks whose read ends this process got through fork
    signalled   \* has SIGTERM been sent?

importVars == <<proc, output, pipe, fd, inherits, signalled>>

ImporterTypeOK ==
    /\ proc \in [Tracks -> {"none", "running", "ok", "failed"}]
    /\ output \in [Tracks -> 0 .. MaxData]
    /\ pipe \in [Tracks -> Nat]
    /\ fd \in [Tracks -> BOOLEAN]
    /\ inherits \in [Tracks -> SUBSET Tracks]
    /\ signalled \in [Tracks -> BOOLEAN]

ImporterInit ==
    /\ proc = [t \in Tracks |-> "none"]
    /\ output = [t \in Tracks |-> 0]
    /\ pipe = [t \in Tracks |-> 0]
    /\ fd = [t \in Tracks |-> FALSE]
    /\ inherits = [t \in Tracks |-> {}]
    /\ signalled = [t \in Tracks |-> FALSE]

(* Somebody could still read from t's pipe.  No descriptor is opened with  *)
(* close-on-exec, so the children forked while t->fd was open count too.   *)
HasReader(t) ==
    \/ fd[t]
    \/ \E u \in Tracks : proc[u] = "running" /\ t \in inherits[u]

-----------------------------------------------------------------------------
(* What xwax does to a process.                                            *)

(* do_fork: the child closes its own read end, but keeps every other one   *)
(* that is open at the time.                                               *)
Inherited(t) == {u \in Tracks : fd[u]} \ {t}

(* fork_pipe_nb. *)
Fork(t, size) ==
    /\ proc' = [proc EXCEPT ![t] = "running"]
    /\ output' = [output EXCEPT ![t] = size]
    /\ pipe' = [pipe EXCEPT ![t] = 0]
    /\ fd' = [fd EXCEPT ![t] = TRUE]
    /\ inherits' = [inherits EXCEPT ![t] = Inherited(t)]
    /\ signalled' = [signalled EXCEPT ![t] = FALSE]

Kill(t) ==
    /\ signalled' = [signalled EXCEPT ![t] = TRUE]
    /\ UNCHANGED <<proc, output, pipe, fd, inherits>>

(* waitpid has something to return. *)
Exited(t) == proc[t] \in {"ok", "failed"}

(* The pipe goes with its process: nobody can tell it from a fresh one.    *)
Reap(t) ==
    /\ proc' = [proc EXCEPT ![t] = "none"]
    /\ output' = [output EXCEPT ![t] = 0]
    /\ pipe' = [pipe EXCEPT ![t] = 0]
    /\ inherits' = [u \in Tracks |-> inherits[u] \ {t}]
    /\ signalled' = [signalled EXCEPT ![t] = FALSE]
    /\ UNCHANGED fd

-----------------------------------------------------------------------------
(* What a process does by itself.                                          *)

ImporterWrite(t) ==
    /\ proc[t] = "running"
    /\ output[t] > 0
    /\ pipe[t] < PipeCap
    /\ HasReader(t)
    /\ output' = [output EXCEPT ![t] = @ - 1]
    /\ pipe' = [pipe EXCEPT ![t] = @ + 1]
    /\ UNCHANGED <<proc, fd, inherits, signalled>>

Exit(t, status) ==
    /\ proc[t] = "running"
    /\ proc' = [proc EXCEPT ![t] = status]
    /\ inherits' = [inherits EXCEPT ![t] = {}]
    /\ UNCHANGED <<output, pipe, fd, signalled>>

ImporterFinish(t) == output[t] = 0 /\ Exit(t, "ok")

(* SIGTERM, or SIGPIPE on writing to a pipe that nobody can read.          *)
ImporterDie(t) ==
    /\ signalled[t] \/ (output[t] > 0 /\ ~HasReader(t))
    /\ Exit(t, "failed")

(* exec failed, an unreadable file, a decoder that gives up half way.      *)
ImporterFail(t) == Exit(t, "failed")

(* A running process does something when it can: it never stops short of   *)
(* exiting, unless it is blocked on a full pipe.                           *)
ImporterProgress(t) == ImporterWrite(t) \/ ImporterFinish(t) \/ ImporterDie(t)
=============================================================================
