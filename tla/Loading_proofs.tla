--------------------------- MODULE Loading_proofs ---------------------------
(***************************************************************************)
(* Proofs about Loading, for any number of decks, paths, tracks, poll      *)
(* entries and chunks of audio: what the users of tracks share; that an    *)
(* import reported as complete is, and that the interface never waits for  *)
(* room in the event pipe; and that Loading implements SharedTracks, and   *)
(* Display implements Loading.                                             *)
(***************************************************************************)
EXTENDS Display, FiniteSetTheorems, SequenceTheorems, TLAPS

-----------------------------------------------------------------------------
(* list.h keeps an object at most once in a list.  Facts about sequences   *)
(* without repetition under the two operations the code performs: adding   *)
(* at the head (list_add) and removing an entry (list_del).                *)

Distinct(s) == \A i, j \in DOMAIN s : s[i] = s[j] => i = j

(* list_add: the new entry joins the ones that were there. *)
LEMMA PrependRange ==
    ASSUME NEW S, NEW s \in Seq(S), NEW e \in S
    PROVE  /\ <<e>> \o s \in Seq(S)
           /\ Range(<<e>> \o s) = {e} \union Range(s)
           /\ Distinct(s) /\ e \notin Range(s) => Distinct(<<e>> \o s)
<1> DEFINE r == <<e>> \o s
<1>1. r \in Seq(S) /\ Len(r) = Len(s) + 1 /\ r[1] = e
  OBVIOUS
<1>2. \A i \in 1 .. Len(s) : r[i + 1] = s[i]
  OBVIOUS
<1>3. \A i \in 2 .. Len(r) : i - 1 \in 1 .. Len(s) /\ r[i] = s[i - 1]
  BY <1>1, <1>2
<1>4. DOMAIN r = 1 .. Len(r) /\ DOMAIN s = 1 .. Len(s)
  BY <1>1
<1>5. Len(s) \in Nat
  OBVIOUS
<1> HIDE DEF r
<1>6. Range(r) = {e} \union Range(s)
  <2>1. ASSUME NEW x \in Range(r) PROVE x \in {e} \union Range(s)
    <3>1. PICK i \in 1 .. Len(r) : x = r[i]
      BY <1>4 DEF Range
    <3>2. CASE i = 1
      BY <3>1, <3>2, <1>1
    <3>3. CASE i # 1
      <4>1. i \in 2 .. Len(r)
        BY <3>1, <3>3, <1>1, <1>5
      <4> QED BY <3>1, <4>1, <1>3, <1>4 DEF Range
    <3> QED BY <3>2, <3>3
  <2>2. e \in Range(r)
    BY <1>1, <1>4, <1>5 DEF Range
  <2>3. ASSUME NEW x \in Range(s) PROVE x \in Range(r)
    <3>1. PICK i \in 1 .. Len(s) : x = s[i]
      BY <1>4 DEF Range
    <3>2. i + 1 \in 1 .. Len(r)
      BY <1>1, <1>5
    <3> QED BY <3>1, <3>2, <1>2, <1>4 DEF Range
  <2> QED BY <2>1, <2>2, <2>3
<1>7. ASSUME Distinct(s), e \notin Range(s) PROVE Distinct(r)
  <2> SUFFICES ASSUME NEW i \in 1 .. Len(r), NEW j \in 1 .. Len(r), r[i] = r[j]
               PROVE  i = j
    BY <1>4 DEF Distinct
  <2>1. \A k \in 2 .. Len(r) : r[k] # e
    BY <1>3, <1>4, <1>7 DEF Range
  <2>2. CASE i = 1 \/ j = 1
    BY <2>1, <2>2, <1>1, <1>5
  <2>3. CASE i # 1 /\ j # 1
    <3>1. i \in 2 .. Len(r) /\ j \in 2 .. Len(r)
      BY <2>3, <1>1, <1>5
    <3>2. s[i - 1] = s[j - 1] /\ i - 1 \in DOMAIN s /\ j - 1 \in DOMAIN s
      BY <3>1, <1>3, <1>4
    <3>3. i - 1 = j - 1
      BY <3>2, <1>7 DEF Distinct
    <3> QED BY <3>3, <3>1
  <2> QED BY <2>2, <2>3
<1> QED BY <1>1, <1>6, <1>7 DEF r

(* list_del: that entry goes, and no other. *)
LEMMA RemoveRange ==
    ASSUME NEW S, NEW s \in Seq(S), NEW i \in 1 .. Len(s), Distinct(s)
    PROVE  /\ RemoveAt(s, i) \in Seq(S)
           /\ Range(RemoveAt(s, i)) = Range(s) \ {s[i]}
           /\ Distinct(RemoveAt(s, i))
<1> DEFINE r == RemoveAt(s, i)
<1>1. /\ r \in Seq(S) /\ Len(r) = Len(s) - 1
      /\ \A j \in 1 .. Len(s) - 1 : r[j] = IF j < i THEN s[j] ELSE s[j + 1]
  <2> DEFINE a == SubSeq(s, 1, i - 1)
             b == SubSeq(s, i + 1, Len(s))
  <2>1. /\ a \in Seq(S) /\ Len(a) = i - 1
        /\ \A j \in 1 .. i - 1 : a[j] = s[j]
    OBVIOUS
  <2>2. /\ b \in Seq(S) /\ Len(b) = Len(s) - i
        /\ \A j \in 1 .. Len(s) - i : b[j] = s[i + j]
    OBVIOUS
  <2>3. r = a \o b
    BY DEF RemoveAt
  <2> HIDE DEF a, b, r
  <2>4. /\ r \in Seq(S) /\ Len(r) = Len(a) + Len(b)
        /\ \A j \in 1 .. Len(a) + Len(b) :
              r[j] = IF j <= Len(a) THEN a[j] ELSE b[j - Len(a)]
    <3>1. a \in Seq(S) /\ b \in Seq(S)
      BY <2>1, <2>2
    <3> QED BY <3>1, <2>3
  <2>5. Len(a) + Len(b) = Len(s) - 1
    BY <2>1, <2>2
  <2>6. ASSUME NEW j \in 1 .. Len(s) - 1, j < i PROVE r[j] = s[j]
    BY <2>1, <2>4, <2>5, <2>6
  <2>7. ASSUME NEW j \in 1 .. Len(s) - 1, ~(j < i) PROVE r[j] = s[j + 1]
    <3>1. j - (i - 1) \in 1 .. Len(s) - i /\ i + (j - (i - 1)) = j + 1
      BY <2>7
    <3>2. r[j] = b[j - (i - 1)]
      BY <2>1, <2>4, <2>5, <2>7
    <3> QED BY <2>2, <3>1, <3>2
  <2> QED BY <2>4, <2>5, <2>6, <2>7
<1>2. DOMAIN r = 1 .. Len(s) - 1 /\ DOMAIN s = 1 .. Len(s) /\ Len(s) \in Nat
  BY <1>1
<1> HIDE DEF r
<1>3. ASSUME NEW x \in Range(r) PROVE x \in Range(s) \ {s[i]}
  <2>1. PICK j \in 1 .. Len(s) - 1 : x = r[j]
    BY <1>2 DEF Range
  <2>2. CASE j < i
    <3>1. x = s[j] /\ j \in DOMAIN s /\ j # i
      BY <2>1, <2>2, <1>1, <1>2
    <3> QED BY <3>1, <1>2 DEF Distinct, Range
  <2>3. CASE ~(j < i)
    <3>1. x = s[j + 1] /\ j + 1 \in DOMAIN s /\ j + 1 # i
      BY <2>1, <2>3, <1>1, <1>2
    <3> QED BY <3>1, <1>2 DEF Distinct, Range
  <2> QED BY <2>2, <2>3
<1>4. ASSUME NEW x \in Range(s), x # s[i] PROVE x \in Range(r)
  <2>1. PICK j \in 1 .. Len(s) : x = s[j]
    BY <1>2 DEF Range
  <2>2. CASE j < i
    <3>1. j \in 1 .. Len(s) - 1 /\ r[j] = s[j]
      BY <2>2, <1>1, <1>2
    <3> QED BY <3>1, <2>1, <1>2 DEF Range
  <2>3. CASE j > i
    <3>1. j - 1 \in 1 .. Len(s) - 1 /\ r[j - 1] = s[j]
      BY <2>3, <1>1, <1>2
    <3> QED BY <3>1, <2>1, <1>2 DEF Range
  <2>4. j # i
    BY <1>4, <2>1
  <2> QED BY <2>2, <2>3, <2>4
<1>5. Distinct(r)
  <2> SUFFICES ASSUME NEW j \in 1 .. Len(s) - 1, NEW k \in 1 .. Len(s) - 1, r[j] = r[k]
               PROVE  j = k
    BY <1>2 DEF Distinct
  <2> DEFINE at(n) == IF n < i THEN n ELSE n + 1
  <2>1. at(j) \in DOMAIN s /\ at(k) \in DOMAIN s /\ s[at(j)] = s[at(k)]
    BY <1>1, <1>2
  <2>2. at(j) = at(k)
    BY <2>1 DEF Distinct
  <2> QED BY <2>2
<1> QED BY <1>1, <1>3, <1>4, <1>5 DEF r

(* A list without repetition has as many entries as members. *)
LEMMA DistinctLength ==
    ASSUME NEW S, NEW s \in Seq(S), Distinct(s)
    PROVE  IsFiniteSet(Range(s)) /\ Cardinality(Range(s)) = Len(s)
<1> DEFINE f == [i \in 1 .. Len(s) |-> s[i]]
<1>1. DOMAIN s = 1 .. Len(s) /\ Len(s) \in Nat
  OBVIOUS
<1>2. f \in Bijection(1 .. Len(s), Range(s))
  <2>1. f \in [1 .. Len(s) -> Range(s)]
    BY <1>1 DEF Range
  <2>2. \A i, j \in 1 .. Len(s) : f[i] = f[j] => i = j
    BY <1>1 DEF Distinct
  <2>3. \A x \in Range(s) : \E i \in 1 .. Len(s) : f[i] = x
    BY <1>1 DEF Range
  <2> HIDE DEF f
  <2> QED BY <2>1, <2>2, <2>3 DEF Bijection, Injection, Surjection, IsInjective
<1>3. ExistsBijection(1 .. Len(s), Range(s))
  BY <1>2 DEF ExistsBijection
<1>4. IsFiniteSet(1 .. Len(s)) /\ Cardinality(1 .. Len(s)) = Len(s)
  BY <1>1, FS_Interval
<1> QED BY <1>3, <1>4, FS_Bijection

-----------------------------------------------------------------------------
(* Queues: how often an entry occurs.                                      *)

Places(s, e) == {i \in DOMAIN s : s[i] = e}

(* It occurs finitely often. *)
LEMMA PlacesFinite ==
    ASSUME NEW S, NEW s \in Seq(S), NEW e
    PROVE  IsFiniteSet(Places(s, e)) /\ Cardinality(Places(s, e)) \in Nat
<1>1. Places(s, e) \subseteq 1 .. Len(s) /\ Len(s) \in Nat
  BY DEF Places
<1>2. IsFiniteSet(1 .. Len(s))
  BY <1>1, FS_Interval
<1> QED BY <1>1, <1>2, FS_Subset, FS_CardinalityType

(* It occurs once more when it is written to the queue.                    *)
LEMMA PlacesAppend ==
    ASSUME NEW S, NEW s \in Seq(S), NEW e, NEW x \in S
    PROVE  Cardinality(Places(Append(s, x), e)) =
              Cardinality(Places(s, e)) + (IF x = e THEN 1 ELSE 0)
<1> DEFINE r == Append(s, x)
<1>1. /\ DOMAIN s = 1 .. Len(s) /\ DOMAIN r = 1 .. Len(s) + 1 /\ Len(s) \in Nat
      /\ r[Len(s) + 1] = x /\ \A i \in 1 .. Len(s) : r[i] = s[i]
  OBVIOUS
<1> HIDE DEF r
<1>2. CASE x = e
  <2>1. Places(r, e) = Places(s, e) \union {Len(s) + 1} /\ Len(s) + 1 \notin Places(s, e)
    BY <1>1, <1>2 DEF Places
  <2> QED BY <1>2, <2>1, PlacesFinite, FS_AddElement DEF r
<1>3. CASE x # e
  <2>1. Places(r, e) = Places(s, e)
    BY <1>1, <1>3 DEF Places
  <2> QED BY <1>3, <2>1, PlacesFinite DEF r
<1> QED BY <1>2, <1>3

(* It does not occur more often when the queue is read.                    *)
LEMMA PlacesTail ==
    ASSUME NEW S, NEW s \in Seq(S), NEW e, s # <<>>
    PROVE  Cardinality(Places(Tail(s), e)) <= Cardinality(Places(s, e))
<1> DEFINE r == Tail(s)
           f == [i \in Places(r, e) |-> i + 1]
<1>1. /\ DOMAIN s = 1 .. Len(s) /\ DOMAIN r = 1 .. Len(s) - 1 /\ Len(s) \in Nat
      /\ \A i \in 1 .. Len(s) - 1 : r[i] = s[i + 1]
  OBVIOUS
<1> HIDE DEF r
<1>2. \A i \in Places(r, e) : i \in Nat /\ i + 1 \in Places(s, e)
  BY <1>1 DEF Places
<1>3. f \in [Places(r, e) -> Places(s, e)] /\ \A i, j \in Places(r, e) : f[i] = f[j] => i = j
  BY <1>2
<1>4. f \in Injection(Places(r, e), Places(s, e))
  BY <1>3 DEF Injection, IsInjective
<1> QED BY <1>4, PlacesFinite, FS_Injection DEF r

-----------------------------------------------------------------------------
(* The inductive invariant.                                                *)

(* Who may be inside the rig lock: exactly the thread that is between its  *)
(* lock and its unlock, or has ended there.                                *)
LockInv ==
    /\ lock = "ui" <=> uiPc \in {"event", "post", "swap", "put", "failed"}
    /\ lock = "rig" <=> rigPc \in {"fill", "handle", "read", "wait"}

(* What the interface thread's local variables are good for.               *)
UiInv ==
    /\ uiPc \in {"post", "swap", "put"} => uiDeck \in Decks
    /\ uiPc \in {"swap", "put"} => uiTrack \in tracks \union {Empty}
    /\ uiPc = "post" => uiTrack \in Listed
    /\ uiPc \in {"idle", "lock", "event", "stopped", "failed"} => uiTrack = NoTrack

(* A player's track is not exchanged while its lock is held.               *)
RtInv == rtDeck \in Decks => rtTrack = deck[rtDeck]

(* The walk of the list is at an entry of it.                              *)
CursorInv ==
    /\ cursor \in Nat \ {0}
    /\ rigPc \in {"read", "wait"} => cursor \in 1 .. Len(rig)

ListInv ==
    /\ Distinct(rig)
    /\ Listed \subseteq tracks
    /\ \A t \in tracks : pid[t] <=> t \in Listed

(* The process and the read end of a track in the list are there to be     *)
(* waited for and closed, once.                                            *)
ProcInv ==
    /\ \A t \in Tracks : proc[t] # "none" <=> t \in Listed
    /\ \A t \in Tracks :
          fd[t] <=> t \in Listed /\ ~(rigPc = "wait" /\ t = Current)

DeckInv == \A d \in Decks : deck[d] \in tracks \union {Empty}

IInv ==
    /\ TypeOK
    /\ LockInv
    /\ UiInv
    /\ RtInv
    /\ CursorInv
    /\ ListInv
    /\ ProcInv
    /\ DeckInv
    /\ OnePerPath
    /\ RefcountExact

-----------------------------------------------------------------------------
(* Counting.                                                               *)

(* The references to a track are finitely many: they can be counted. *)
LEMMA HoldersFinite ==
    ASSUME NEW t
    PROVE  IsFiniteSet(Holders(t)) /\ Cardinality(Holders(t)) \in Nat
<1>1. IsFiniteSet(Decks)
  BY DecksAssumption
<1>2. Holders(t) \subseteq Decks
  BY DEF Holders
<1> QED BY <1>1, <1>2, FS_Subset, FS_CardinalityType

(* A track with no reference of some kind counts none. *)
LEMMA NoHolders ==
    ASSUME NEW t, \A d \in Decks : deck[d] # t
    PROVE  Cardinality(Holders(t)) = 0
<1>1. Holders(t) = {}
  BY DEF Holders
<1> QED BY <1>1, FS_EmptySet

(* A track with a reference of some kind counts at least one. *)
LEMMA SomeHolder ==
    ASSUME NEW d \in Decks
    PROVE  Cardinality(Holders(deck[d])) > 0
<1>1. Holders(deck[d]) # {}
  BY DEF Holders
<1> QED BY <1>1, HoldersFinite, FS_EmptySet

(* A count is at least one for each kind of reference there is.            *)
LEMMA CountIsPositive ==
    ASSUME IInv, NEW t \in tracks \union {Empty}
    PROVE  /\ refcount[t] \in Nat
           /\ t \in Listed \/ UiHolds(t) \/ (\E d \in Decks : deck[d] = t) \/ t = Empty
                => refcount[t] > 0
           /\ refcount[t] = 1 /\ UiHolds(t)
                => t \notin Listed /\ (\A d \in Decks : deck[d] # t) /\ t # Empty
           /\ refcount[t] = 1 /\ t \in Listed
                => ~UiHolds(t) /\ (\A d \in Decks : deck[d] # t) /\ t # Empty
<1>1. refcount[t] = Cardinality(Holders(t)) + One(t \in Listed)
                        + One(UiHolds(t)) + One(t = Empty)
  BY DEF IInv, RefcountExact
<1>2. Cardinality(Holders(t)) \in Nat
  BY HoldersFinite
<1>3. (\E d \in Decks : deck[d] = t) => Cardinality(Holders(t)) > 0
  BY SomeHolder
<1> QED BY <1>1, <1>2, <1>3 DEF One

(* The track that the rig is handling is in its list. *)
LEMMA CurrentIsListed ==
    ASSUME IInv, rigPc \in {"read", "wait"}
    PROVE  Current \in Tracks /\ Current \in Listed /\ Current \in tracks
<1>1. rig \in Seq(Tracks) /\ cursor \in 1 .. Len(rig)
  BY DEF IInv, TypeOK, RigTypeOK, CursorInv
<1>2. rig[cursor] \in Tracks /\ cursor \in DOMAIN rig
  BY <1>1
<1>3. rig[cursor] \in Listed
  BY <1>2 DEF Listed, Range
<1> QED BY <1>2, <1>3 DEF Current, IInv, ListInv

(* References that only change hands, or do not change, keep every count.  *)
LEMMA CountsKept ==
    ASSUME RefcountExact, tracks' \subseteq tracks, refcount' = refcount,
           deck' = deck, rig' = rig,
           \A t \in tracks \union {Empty} : UiHolds(t)' <=> UiHolds(t)
    PROVE  RefcountExact'
<1> SUFFICES ASSUME NEW t \in tracks' \union {Empty}
             PROVE  refcount'[t] = Cardinality(Holders(t)') + One(t \in Listed')
                                     + One(UiHolds(t)') + One(t = Empty)
  BY DEF RefcountExact, One
<1>1. Holders(t)' = Holders(t)
  BY DEF Holders
<1>2. Listed' = Listed
  BY DEF Listed
<1>3. refcount[t] = Cardinality(Holders(t)) + One(t \in Listed)
                      + One(UiHolds(t)) + One(t = Empty)
  BY DEF RefcountExact
<1>4. One(UiHolds(t)') = One(UiHolds(t))
  BY DEF One
<1> QED BY <1>1, <1>2, <1>3, <1>4

-----------------------------------------------------------------------------
(* Initially every deck has the empty track. *)

LEMMA Initially == Init => IInv
<1> SUFFICES ASSUME Init PROVE IInv
  OBVIOUS
<1> USE TrackAssumption, DecksAssumption DEF Objects
<1>1. Holders(Empty) = Decks /\ Listed = {}
  BY DEF Init, Holders, RigInit, Listed, Range
<1>2. Cardinality(Decks) \in Nat
  BY FS_CardinalityType
<1>3. TypeOK
  <2>1. ImporterTypeOK
    BY PipeAssumption DEF Init, ImporterInit, ImporterTypeOK
  <2>2. TrackTypeOK
    <3>1. Blank \in Paths
      BY DEF Blank
    <3> QED BY <3>1, <1>2 DEF Init, TrackInit, TrackTypeOK, NULL
  <2>3. RigTypeOK
    BY DEF Init, RigInit, RigTypeOK
  <2> QED BY <2>1, <2>2, <2>3 DEF Init, TypeOK
<1>4. LockInv /\ UiInv /\ RtInv /\ CursorInv /\ DeckInv /\ OnePerPath
  BY DEF Init, TrackInit, RigInit, LockInv, UiInv, RtInv, CursorInv, DeckInv,
         OnePerPath
<1>5. ListInv /\ ProcInv
  BY <1>1 DEF Init, ImporterInit, TrackInit, RigInit, ListInv, ProcInv, Distinct
<1>6. RefcountExact
  <2>1. refcount[Empty] = 1 + Cardinality(Decks) /\ tracks = {}
    BY DEF Init, TrackInit
  <2>2. ~UiHolds(Empty) /\ Empty \notin Listed
    BY <1>1 DEF Init, UiHolds
  <2>3. refcount[Empty] = Cardinality(Holders(Empty)) + One(Empty \in Listed)
                            + One(UiHolds(Empty)) + One(Empty = Empty)
    BY <1>1, <1>2, <2>1, <2>2 DEF One
  <2> QED BY <2>1, <2>3 DEF RefcountExact
<1> QED BY <1>3, <1>4, <1>5, <1>6 DEF IInv

-----------------------------------------------------------------------------
(* The interface thread. *)

(* SDL_WaitEvent returns: no track is involved. *)
LEMMA UiEventStep == IInv /\ UiEvent => IInv'
<1> SUFFICES ASSUME IInv, UiEvent PROVE IInv'
  OBVIOUS
<1> USE DEF IInv, UiEvent, importVars, trackVars, rigVars, uiVars, rtVars
<1>1. TypeOK'
  BY DEF TypeOK, ImporterTypeOK, TrackTypeOK, RigTypeOK
<1>2. LockInv' /\ UiInv' /\ RtInv' /\ CursorInv' /\ DeckInv' /\ OnePerPath'
  BY DEF LockInv, UiInv, RtInv, CursorInv, DeckInv, OnePerPath, Listed
<1>3. ListInv' /\ ProcInv'
  BY DEF ListInv, ProcInv, LockInv, Listed, Current
<1>4. RefcountExact'
  BY CountsKept DEF UiInv, UiHolds
<1> QED BY <1>1, <1>2, <1>3, <1>4

(* rig_lock by the interface thread. *)
LEMMA UiLockStep == IInv /\ UiLock => IInv'
<1> SUFFICES ASSUME IInv, UiLock PROVE IInv'
  OBVIOUS
<1> USE DEF IInv, UiLock, importVars, trackVars, rigVars, uiVars, rtVars
<1>1. TypeOK'
  BY DEF TypeOK, ImporterTypeOK, TrackTypeOK, RigTypeOK
<1>2. LockInv' /\ UiInv' /\ RtInv' /\ CursorInv' /\ DeckInv' /\ OnePerPath'
  BY DEF LockInv, UiInv, RtInv, CursorInv, DeckInv, OnePerPath, Listed
<1>3. ListInv' /\ ProcInv'
  BY DEF ListInv, ProcInv, LockInv, Listed, Current
<1>4. RefcountExact'
  BY CountsKept DEF UiInv, UiHolds
<1> QED BY <1>1, <1>2, <1>3, <1>4

(* A key that changes no track, and a load refused. *)
LEMMA UiIgnoreStep == IInv /\ uiPc = "event" /\ UiIgnore => IInv'
<1> SUFFICES ASSUME IInv, uiPc = "event", UiIgnore PROVE IInv'
  OBVIOUS
<1> USE DEF IInv, UiIgnore, importVars, trackVars, rigVars, uiVars, rtVars
<1>1. TypeOK'
  BY DEF TypeOK, ImporterTypeOK, TrackTypeOK, RigTypeOK, UiUnlock
<1>2. LockInv' /\ UiInv' /\ RtInv' /\ CursorInv' /\ DeckInv' /\ OnePerPath'
  BY DEF LockInv, UiInv, RtInv, CursorInv, DeckInv, OnePerPath, Listed, UiUnlock
<1>3. ListInv' /\ ProcInv'
  BY DEF ListInv, ProcInv, LockInv, Listed, Current, UiUnlock
<1>4. RefcountExact'
  BY CountsKept DEF UiInv, UiHolds, UiUnlock
<1> QED BY <1>1, <1>2, <1>3, <1>4

(* The event that asks rig_main to quit is posted. *)
LEMMA UiQuitStep == IInv /\ uiPc = "event" /\ UiQuit => IInv'
<1> SUFFICES ASSUME IInv, uiPc = "event", UiQuit PROVE IInv'
  OBVIOUS
<1> USE DEF IInv, UiQuit, importVars, trackVars, rigVars, uiVars, rtVars
<1>1. TypeOK'
  BY DEF TypeOK, ImporterTypeOK, TrackTypeOK, RigTypeOK, PostEvent
<1>2. LockInv' /\ UiInv' /\ RtInv' /\ CursorInv' /\ DeckInv' /\ OnePerPath'
  BY DEF LockInv, UiInv, RtInv, CursorInv, DeckInv, OnePerPath, Listed, PostEvent
<1>3. ListInv' /\ ProcInv'
  BY DEF ListInv, ProcInv, LockInv, Listed, Current, PostEvent
<1>4. RefcountExact'
  BY CountsKept DEF UiInv, UiHolds, PostEvent
<1> QED BY <1>1, <1>2, <1>3, <1>4

(* The interface thread leaves its loop. *)
LEMMA UiStopStep == IInv /\ uiPc = "event" /\ UiStop => IInv'
<1> SUFFICES ASSUME IInv, uiPc = "event", UiStop PROVE IInv'
  OBVIOUS
<1> USE DEF IInv, UiStop, importVars, trackVars, rigVars, uiVars, rtVars
<1>1. TypeOK'
  BY DEF TypeOK, ImporterTypeOK, TrackTypeOK, RigTypeOK
<1>2. LockInv' /\ UiInv' /\ RtInv' /\ CursorInv' /\ DeckInv' /\ OnePerPath'
  BY DEF LockInv, UiInv, RtInv, CursorInv, DeckInv, OnePerPath, Listed
<1>3. ListInv' /\ ProcInv'
  BY DEF ListInv, ProcInv, LockInv, Listed, Current
<1>4. RefcountExact'
  BY CountsKept DEF UiInv, UiHolds
<1> QED BY <1>1, <1>2, <1>3, <1>4

(* The interface thread ends with the lock held. *)
LEMMA UiGivesUpStep == IInv /\ uiPc = "event" /\ UiGivesUp => IInv'
<1> SUFFICES ASSUME IInv, uiPc = "event", UiGivesUp PROVE IInv'
  OBVIOUS
<1> USE DEF IInv, UiGivesUp, importVars, trackVars, rigVars, uiVars, rtVars
<1>1. TypeOK'
  BY DEF TypeOK, ImporterTypeOK, TrackTypeOK, RigTypeOK
<1>2. LockInv' /\ UiInv' /\ RtInv' /\ CursorInv' /\ DeckInv' /\ OnePerPath'
  BY DEF LockInv, UiInv, RtInv, CursorInv, DeckInv, OnePerPath, Listed
<1>3. ListInv' /\ ProcInv'
  BY DEF ListInv, ProcInv, LockInv, Listed, Current
<1>4. RefcountExact'
  BY CountsKept DEF UiInv, UiHolds
<1> QED BY <1>1, <1>2, <1>3, <1>4

(* player_set_track and player_clone exchange the track of a deck under its*)
(* lock: references change hands.                                          *)
LEMMA UiSwapStep == IInv /\ UiSwap => IInv'
<1> SUFFICES ASSUME IInv, UiSwap PROVE IInv'
  OBVIOUS
<1> USE DEF IInv, UiSwap, importVars, trackVars, rigVars, uiVars, rtVars
<1> DEFINE new == uiTrack
           old == deck[uiDeck]
<1>1. /\ uiDeck \in Decks /\ new \in tracks \union {Empty}
      /\ old \in tracks \union {Empty}
  BY DEF UiInv, DeckInv
<1>2. TypeOK'
  BY <1>1 DEF TypeOK, ImporterTypeOK, TrackTypeOK, RigTypeOK, Objects
<1>3. LockInv' /\ UiInv' /\ CursorInv' /\ OnePerPath'
  BY <1>1 DEF LockInv, UiInv, CursorInv, OnePerPath
<1>4. DeckInv'
  BY <1>1 DEF DeckInv, TypeOK
<1>5. RtInv'
  BY <1>1 DEF RtInv, TypeOK
<1>6. ListInv' /\ ProcInv'
  BY DEF ListInv, ProcInv, Listed, Current
<1>7. RefcountExact'
  <2> SUFFICES ASSUME NEW t \in tracks \union {Empty}
               PROVE  refcount[t] = Cardinality(Holders(t)') + One(t \in Listed)
                                      + One(UiHolds(t)') + One(t = Empty)
    BY DEF RefcountExact, One, Listed
  <2>1. refcount[t] = Cardinality(Holders(t)) + One(t \in Listed)
                        + One(UiHolds(t)) + One(t = Empty)
    BY DEF RefcountExact
  <2>2. UiHolds(t) <=> t = new
    BY DEF UiHolds
  <2>3. UiHolds(t)' <=> t = old
    BY DEF UiHolds
  <2>4. IsFiniteSet(Holders(t)) /\ Cardinality(Holders(t)) \in Nat
    BY HoldersFinite
  <2>5. CASE new = old
    <3>1. Holders(t)' = Holders(t)
      BY <2>5, <1>1 DEF Holders, TypeOK
    <3> QED BY <3>1, <2>1, <2>2, <2>3, <2>5 DEF One
  <2>6. CASE t = new /\ new # old
    <3>1. Holders(t)' = Holders(t) \union {uiDeck} /\ uiDeck \notin Holders(t)
      BY <2>6, <1>1 DEF Holders, TypeOK
    <3>2. Cardinality(Holders(t)') = Cardinality(Holders(t)) + 1
      BY <3>1, <2>4, FS_AddElement
    <3> QED BY <3>2, <2>1, <2>2, <2>3, <2>4, <2>6 DEF One
  <2>7. CASE t = old /\ new # old
    <3>1. Holders(t)' = Holders(t) \ {uiDeck} /\ uiDeck \in Holders(t)
      BY <2>7, <1>1 DEF Holders, TypeOK
    <3>2. Cardinality(Holders(t)') = Cardinality(Holders(t)) - 1
      BY <3>1, <2>4, FS_RemoveElement
    <3> QED BY <3>2, <2>1, <2>2, <2>3, <2>4, <2>7 DEF One
  <2>8. CASE t # new /\ t # old
    <3>1. Holders(t)' = Holders(t)
      BY <2>8, <1>1 DEF Holders, TypeOK
    <3> QED BY <3>1, <2>1, <2>2, <2>3, <2>8 DEF One
  <2> QED BY <2>5, <2>6, <2>7, <2>8
<1> QED BY <1>2, <1>3, <1>4, <1>5, <1>6, <1>7

-----------------------------------------------------------------------------
(* The realtime thread and the import processes. *)

(* The realtime thread takes a player's lock, and the track with it. *)
LEMMA RtCollectStep == ASSUME NEW d \in Decks PROVE IInv /\ RtCollect(d) => IInv'
<1> SUFFICES ASSUME IInv, RtCollect(d) PROVE IInv'
  OBVIOUS
<1> USE DEF IInv, RtCollect, importVars, trackVars, rigVars, uiVars, rtVars
<1>1. TypeOK'
  BY DEF TypeOK, ImporterTypeOK, TrackTypeOK, RigTypeOK
<1>2. LockInv' /\ UiInv' /\ RtInv' /\ CursorInv' /\ DeckInv' /\ OnePerPath'
  BY DEF LockInv, UiInv, RtInv, CursorInv, DeckInv, OnePerPath, Listed
<1>3. ListInv' /\ ProcInv'
  BY DEF ListInv, ProcInv, LockInv, Listed, Current
<1>4. RefcountExact'
  BY CountsKept DEF UiInv, UiHolds
<1> QED BY <1>1, <1>2, <1>3, <1>4

(* The realtime thread lets the player's lock go. *)
LEMMA RtDoneStep == IInv /\ RtDone => IInv'
<1> SUFFICES ASSUME IInv, RtDone PROVE IInv'
  OBVIOUS
<1> USE DEF IInv, RtDone, importVars, trackVars, rigVars, uiVars, rtVars
<1>1. TypeOK'
  BY DEF TypeOK, ImporterTypeOK, TrackTypeOK, RigTypeOK
<1>2. LockInv' /\ UiInv' /\ RtInv' /\ CursorInv' /\ DeckInv' /\ OnePerPath'
  BY DecksAssumption DEF LockInv, UiInv, RtInv, CursorInv, DeckInv, OnePerPath, Listed
<1>3. ListInv' /\ ProcInv'
  BY DecksAssumption DEF ListInv, ProcInv, LockInv, Listed, Current
<1>4. RefcountExact'
  BY CountsKept DEF UiInv, UiHolds
<1> QED BY <1>1, <1>2, <1>3, <1>4

-----------------------------------------------------------------------------
(* The rig thread, but for the end of an import. *)

(* rig_main takes its lock. *)
LEMMA RigRelockStep == IInv /\ RigRelock /\ Others => IInv'
<1> SUFFICES ASSUME IInv, RigRelock /\ Others PROVE IInv'
  OBVIOUS
<1> USE DEF IInv, RigRelock, Others, importVars, trackVars, rigVars, uiVars, rtVars
<1>1. TypeOK'
  BY DEF TypeOK, ImporterTypeOK, TrackTypeOK, RigTypeOK
<1>2. LockInv' /\ UiInv' /\ RtInv' /\ CursorInv' /\ DeckInv' /\ OnePerPath'
  BY DEF LockInv, UiInv, RtInv, CursorInv, DeckInv, OnePerPath, Listed
<1>3. ListInv' /\ ProcInv'
  BY DEF ListInv, ProcInv, LockInv, Listed, Current
<1>4. RefcountExact'
  BY CountsKept DEF UiInv, UiHolds
<1> QED BY <1>1, <1>2, <1>3, <1>4

(* poll returns. *)
LEMMA RigPollStep == IInv /\ RigPoll /\ Others => IInv'
<1> SUFFICES ASSUME IInv, RigPoll /\ Others PROVE IInv'
  OBVIOUS
<1> USE DEF IInv, RigPoll, Others, importVars, trackVars, rigVars, uiVars, rtVars
<1>1. TypeOK'
  <2>1. [i \in 1 .. Slots |-> i <= Len(polled) /\ Ready(i)] \in [1 .. Slots -> BOOLEAN]
    BY DEF Ready
  <2>2. polled' \in Seq(Tracks)
    OBVIOUS
  <2> QED BY <2>1, <2>2 DEF TypeOK, ImporterTypeOK, TrackTypeOK, RigTypeOK
<1>2. LockInv' /\ UiInv' /\ RtInv' /\ CursorInv' /\ DeckInv' /\ OnePerPath'
  BY DEF LockInv, UiInv, RtInv, CursorInv, DeckInv, OnePerPath, Listed
<1>3. ListInv' /\ ProcInv'
  BY DEF ListInv, ProcInv, LockInv, Listed, Current
<1>4. RefcountExact'
  BY CountsKept DEF UiInv, UiHolds
<1> QED BY <1>1, <1>2, <1>3, <1>4

(* poll is interrupted by a signal. *)
LEMMA RigPollInterruptedStep == IInv /\ RigPollInterrupted /\ Others => IInv'
<1> SUFFICES ASSUME IInv, RigPollInterrupted /\ Others PROVE IInv'
  OBVIOUS
<1> USE DEF IInv, RigPollInterrupted, Others, importVars, trackVars, rigVars, uiVars, rtVars
<1>1. TypeOK'
  BY DEF TypeOK, ImporterTypeOK, TrackTypeOK, RigTypeOK
<1>2. LockInv' /\ UiInv' /\ RtInv' /\ CursorInv' /\ DeckInv' /\ OnePerPath'
  BY DEF LockInv, UiInv, RtInv, CursorInv, DeckInv, OnePerPath, Listed
<1>3. ListInv' /\ ProcInv'
  BY DEF ListInv, ProcInv, LockInv, Listed, Current
<1>4. RefcountExact'
  BY CountsKept DEF UiInv, UiHolds
<1> QED BY <1>1, <1>2, <1>3, <1>4

(* poll fails, and rig_main with it. *)
LEMMA RigPollErrorStep == IInv /\ RigPollError /\ Others => IInv'
<1> SUFFICES ASSUME IInv, RigPollError /\ Others PROVE IInv'
  OBVIOUS
<1> USE DEF IInv, RigPollError, Others, importVars, trackVars, rigVars, uiVars, rtVars
<1>1. TypeOK'
  BY DEF TypeOK, ImporterTypeOK, TrackTypeOK, RigTypeOK
<1>2. LockInv' /\ UiInv' /\ RtInv' /\ CursorInv' /\ DeckInv' /\ OnePerPath'
  BY DEF LockInv, UiInv, RtInv, CursorInv, DeckInv, OnePerPath, Listed
<1>3. ListInv' /\ ProcInv'
  BY DEF ListInv, ProcInv, LockInv, Listed, Current
<1>4. RefcountExact'
  BY CountsKept DEF UiInv, UiHolds
<1> QED BY <1>1, <1>2, <1>3, <1>4

(* The events in the pipe are read. *)
LEMMA RigDrainStep == IInv /\ RigDrain /\ Others => IInv'
<1> SUFFICES ASSUME IInv, RigDrain /\ Others PROVE IInv'
  OBVIOUS
<1> USE DEF IInv, RigDrain, Others, importVars, trackVars, rigVars, uiVars, rtVars
<1>1. TypeOK'
  <2>1. events \in Seq({"WAKE", "QUIT"})
    BY DEF TypeOK, RigTypeOK
  <2>2. events # <<>> => Tail(events) \in Seq({"WAKE", "QUIT"})
    BY <2>1, HeadTailProperties
  <2>3. events' \in Seq({"WAKE", "QUIT"})
    BY <2>1, <2>2
  <2> QED BY <2>3 DEF TypeOK, ImporterTypeOK, TrackTypeOK, RigTypeOK
<1>2. LockInv' /\ UiInv' /\ RtInv' /\ CursorInv' /\ DeckInv' /\ OnePerPath'
  BY DEF LockInv, UiInv, RtInv, CursorInv, DeckInv, OnePerPath, Listed
<1>3. ListInv' /\ ProcInv'
  BY DEF ListInv, ProcInv, LockInv, Listed, Current
<1>4. RefcountExact'
  BY CountsKept DEF UiInv, UiHolds
<1> QED BY <1>1, <1>2, <1>3, <1>4

(* rig_main takes its lock to handle tracks. *)
LEMMA RigLockStep == IInv /\ RigLock /\ Others => IInv'
<1> SUFFICES ASSUME IInv, RigLock /\ Others PROVE IInv'
  OBVIOUS
<1> USE DEF IInv, RigLock, Others, importVars, trackVars, rigVars, uiVars, rtVars
<1>1. TypeOK'
  BY DEF TypeOK, ImporterTypeOK, TrackTypeOK, RigTypeOK
<1>2. LockInv' /\ UiInv' /\ RtInv' /\ CursorInv' /\ DeckInv' /\ OnePerPath'
  BY DEF LockInv, UiInv, RtInv, CursorInv, DeckInv, OnePerPath, Listed
<1>3. ListInv' /\ ProcInv'
  BY DEF ListInv, ProcInv, LockInv, Listed, Current
<1>4. RefcountExact'
  BY CountsKept DEF UiInv, UiHolds
<1> QED BY <1>1, <1>2, <1>3, <1>4

(* The poll table is filled from the list of tracks, and the lock released. *)
LEMMA RigFillStep == IInv /\ RigFill /\ Others => IInv'
<1> SUFFICES ASSUME IInv, RigFill /\ Others PROVE IInv'
  OBVIOUS
<1> USE DEF IInv, RigFill, Others, importVars, trackVars, rigVars, uiVars, rtVars
<1>1. TypeOK'
  <2>1. /\ Len(rig) \in Nat /\ DOMAIN rig = 1 .. Len(rig)
        /\ rig \in Seq(Tracks) /\ pe \in [Tracks -> 0 .. Slots]
    BY DEF TypeOK, TrackTypeOK, RigTypeOK
  <2> DEFINE n == IF Len(rig) < Slots THEN Len(rig) ELSE Slots
  <2>2. n \in 0 .. Slots /\ n <= Len(rig)
    BY <2>1, TrackAssumption
  <2>3. SubSeq(rig, 1, n) \in Seq(Tracks)
    BY <2>1, <2>2
  <2>4. pe' \in [Tracks -> 0 .. Slots]
    <3> DEFINE entry(t) == CHOOSE i \in 1 .. n : rig[i] = t
               value(t) == IF \E i \in 1 .. n : rig[i] = t THEN entry(t) ELSE pe[t]
    <3>1. pe' = [t \in Tracks |-> value(t)]
      OBVIOUS
    <3>2. ASSUME NEW t \in Tracks PROVE value(t) \in 0 .. Slots
      <4> HIDE DEF n
      <4>1. CASE \E i \in 1 .. n : rig[i] = t
        <5>1. entry(t) \in 1 .. n
          BY <4>1
        <5> HIDE DEF entry
        <5> QED BY <4>1, <5>1, <2>2, TrackAssumption
      <4>2. CASE ~ \E i \in 1 .. n : rig[i] = t
        BY <4>2, <2>1
      <4> QED BY <4>1, <4>2
    <3> HIDE DEF value
    <3> QED BY <3>1, <3>2
  <2> QED BY <2>3, <2>4 DEF TypeOK, ImporterTypeOK, TrackTypeOK, RigTypeOK
<1>2. LockInv' /\ UiInv' /\ RtInv' /\ CursorInv' /\ DeckInv' /\ OnePerPath'
  BY DEF LockInv, UiInv, RtInv, CursorInv, DeckInv, OnePerPath, Listed
<1>3. ListInv' /\ ProcInv'
  BY DEF ListInv, ProcInv, LockInv, Listed, Current
<1>4. RefcountExact'
  BY CountsKept DEF UiInv, UiHolds
<1> QED BY <1>1, <1>2, <1>3, <1>4

(* rig_main takes the next track of its list. *)
LEMMA RigHandleStep == IInv /\ RigHandle /\ Others => IInv'
<1> SUFFICES ASSUME IInv, RigHandle /\ Others PROVE IInv'
  OBVIOUS
<1> USE DEF IInv, RigHandle, Others, importVars, trackVars, rigVars, uiVars, rtVars
<1>1. TypeOK'
  <2>1. revents' \in [1 .. Slots -> BOOLEAN]
    BY DEF TypeOK, RigTypeOK
  <2>2. cursor' \in Nat /\ rigPc' \in {"fill", "handle", "read"}
    BY DEF TypeOK, RigTypeOK
  <2>3. RigTypeOK'
    BY <2>1, <2>2 DEF TypeOK, RigTypeOK
  <2> QED BY <2>3 DEF TypeOK, ImporterTypeOK, TrackTypeOK
<1>2. LockInv' /\ UiInv' /\ RtInv' /\ CursorInv' /\ DeckInv' /\ OnePerPath'
  BY DEF LockInv, UiInv, RtInv, CursorInv, DeckInv, OnePerPath, Listed
<1>3. ListInv' /\ ProcInv'
  BY DEF ListInv, ProcInv, LockInv, Listed, Current
<1>4. RefcountExact'
  BY CountsKept DEF UiInv, UiHolds
<1> QED BY <1>1, <1>2, <1>3, <1>4

(* A chunk is read from an import's pipe. *)
LEMMA RigReadStep == IInv /\ RigRead /\ Others => IInv'
<1> SUFFICES ASSUME IInv, RigRead /\ Others PROVE IInv'
  OBVIOUS
<1> USE DEF IInv, RigRead, Others, importVars, trackVars, rigVars, uiVars, rtVars, ReadChunk
<1>1. TypeOK'
  <2>1. /\ pipe \in [Tracks -> Nat] /\ pipe[Current] > 0
        /\ length \in [Tracks -> Nat] /\ Current \in Tracks
    BY CurrentIsListed DEF TypeOK, ImporterTypeOK, TrackTypeOK
  <2>3. pipe' \in [Tracks -> Nat]
    BY <2>1
  <2>4. length' \in [Tracks -> Nat]
    BY <2>1
  <2>5. ImporterTypeOK' /\ TrackTypeOK'
    BY <2>3, <2>4 DEF TypeOK, ImporterTypeOK, TrackTypeOK
  <2> QED BY <2>5 DEF TypeOK, RigTypeOK
<1>2. LockInv' /\ UiInv' /\ RtInv' /\ CursorInv' /\ DeckInv' /\ OnePerPath'
  BY DEF LockInv, UiInv, RtInv, CursorInv, DeckInv, OnePerPath, Listed
<1>3. ListInv' /\ ProcInv'
  BY DEF ListInv, ProcInv, LockInv, Listed, Current
<1>4. RefcountExact'
  BY CountsKept DEF UiInv, UiHolds
<1> QED BY <1>1, <1>2, <1>3, <1>4

(* The pipe is empty for now. *)
LEMMA RigReadNothingStep == IInv /\ RigReadNothing /\ Others => IInv'
<1> SUFFICES ASSUME IInv, RigReadNothing /\ Others PROVE IInv'
  OBVIOUS
<1> USE DEF IInv, RigReadNothing, Others, importVars, trackVars, rigVars, uiVars, rtVars
<1>1. TypeOK'
  BY DEF TypeOK, ImporterTypeOK, TrackTypeOK, RigTypeOK
<1>2. LockInv' /\ UiInv' /\ RtInv' /\ CursorInv' /\ DeckInv' /\ OnePerPath'
  BY DEF LockInv, UiInv, RtInv, CursorInv, DeckInv, OnePerPath, Listed
<1>3. ListInv' /\ ProcInv'
  BY DEF ListInv, ProcInv, LockInv, Listed, Current
<1>4. RefcountExact'
  BY CountsKept DEF UiInv, UiHolds
<1> QED BY <1>1, <1>2, <1>3, <1>4

(* The pipe is at its end, or the track is full: the descriptor is closed. *)
LEMMA RigReadEndsStep == IInv /\ RigReadEnds /\ Others => IInv'
<1> SUFFICES ASSUME IInv, RigReadEnds /\ Others PROVE IInv'
  OBVIOUS
<1> USE DEF IInv, RigReadEnds, Others, importVars, trackVars, rigVars, uiVars, rtVars, CloseFd
<1>1. TypeOK'
  BY DEF TypeOK, ImporterTypeOK, TrackTypeOK, RigTypeOK
<1>2. LockInv' /\ UiInv' /\ RtInv' /\ CursorInv' /\ DeckInv' /\ OnePerPath'
  BY DEF LockInv, UiInv, RtInv, CursorInv, DeckInv, OnePerPath, Listed
<1>5. Current \in Listed /\ fd \in [Tracks -> BOOLEAN]
  BY CurrentIsListed DEF TypeOK, ImporterTypeOK
<1>3. ListInv' /\ ProcInv'
  BY <1>5 DEF ListInv, ProcInv, LockInv, Listed, Current
<1>4. RefcountExact'
  BY CountsKept DEF UiInv, UiHolds
<1> QED BY <1>1, <1>2, <1>3, <1>4

-----------------------------------------------------------------------------
(* Steps that change a count.                                              *)

(* track_get for the interface thread, which then holds the reference.     *)
LEMMA TakenStep ==
    ASSUME IInv, NEW u \in tracks \union {Empty}, TrackGet(u),
           uiPc \in {"event", "post"}, uiPc' = "swap", uiTrack' = u,
           uiDeck' \in Decks, deck' = deck, rtVars' = rtVars,
           importVars' = importVars, lock' = lock, rig' = rig,
           polled' = polled, revents' = revents, rigPc' = rigPc, cursor' = cursor,
           events' \in Seq({"WAKE", "QUIT"})
    PROVE  IInv'
<1> USE DEF IInv, TrackGet, importVars, trackVars, rtVars
<1>1. TypeOK'
  <2>1. refcount \in [Objects -> Nat] /\ u \in Objects
    BY DEF TypeOK, TrackTypeOK, Objects
  <2>2. refcount' \in [Objects -> Nat]
    BY <2>1
  <2> QED BY <2>1, <2>2 DEF TypeOK, ImporterTypeOK, TrackTypeOK, RigTypeOK
<1>2. LockInv' /\ UiInv' /\ RtInv' /\ CursorInv' /\ DeckInv' /\ OnePerPath'
  BY DEF LockInv, UiInv, RtInv, CursorInv, DeckInv, OnePerPath, Listed
<1>3. ListInv' /\ ProcInv'
  BY DEF ListInv, ProcInv, LockInv, Listed, Current
<1>4. RefcountExact'
  <2> SUFFICES ASSUME NEW t \in tracks \union {Empty}
               PROVE  refcount'[t] = Cardinality(Holders(t)') + One(t \in Listed')
                                       + One(UiHolds(t)') + One(t = Empty)
    BY DEF RefcountExact, One
  <2>1. refcount[t] = Cardinality(Holders(t)) + One(t \in Listed)
                        + One(UiHolds(t)) + One(t = Empty)
    BY DEF RefcountExact
  <2>2. Holders(t)' = Holders(t) /\ Cardinality(Holders(t)) \in Nat
    BY HoldersFinite DEF Holders
  <2>3. ~UiHolds(t) /\ (UiHolds(t)' <=> t = u) /\ Listed' = Listed
    BY DEF UiHolds, Listed
  <2>4. refcount'[t] = IF t = u THEN refcount[t] + 1 ELSE refcount[t]
    BY DEF TypeOK, TrackTypeOK, Objects
  <2> QED BY <2>1, <2>2, <2>3, <2>4 DEF One
<1> QED BY <1>1, <1>2, <1>3, <1>4

(* A record already in memory is shared. *)
LEMMA UiLoadAgainStep ==
    ASSUME NEW d \in Decks, NEW p \in Paths
    PROVE  IInv /\ uiPc = "event" /\ UiLoadAgain(d, p) => IInv'
<1> SUFFICES ASSUME IInv, uiPc = "event", UiLoadAgain(d, p) PROVE IInv'
  OBVIOUS
<1>1. PICK t \in Tracks : Found(t, p) /\ TrackGet(t) /\ uiTrack' = t
  BY DEF UiLoadAgain
<1>2. t \in tracks
  BY <1>1 DEF Found
<1>3. events \in Seq({"WAKE", "QUIT"})
  BY DEF IInv, TypeOK, RigTypeOK
<1> QED BY <1>1, <1>2, <1>3, TakenStep DEF UiLoadAgain, rigVars

(* The track of another deck is shared. *)
LEMMA UiCloneStep ==
    ASSUME NEW d \in Decks, NEW from \in Decks
    PROVE  IInv /\ uiPc = "event" /\ UiClone(d, from) => IInv'
<1> SUFFICES ASSUME IInv, uiPc = "event", UiClone(d, from) PROVE IInv'
  OBVIOUS
<1>1. deck[from] \in tracks \union {Empty}
  BY DEF IInv, DeckInv
<1>2. events \in Seq({"WAKE", "QUIT"})
  BY DEF IInv, TypeOK, RigTypeOK
<1> QED BY <1>1, <1>2, TakenStep DEF UiClone, rigVars

(* A new track is posted to the rig, and handed out. *)
LEMMA UiPostStep == IInv /\ UiPost => IInv'
<1> SUFFICES ASSUME IInv, UiPost PROVE IInv'
  OBVIOUS
<1>1. uiTrack \in tracks /\ uiDeck \in Decks
  BY DEF IInv, UiInv, ListInv, UiPost
<1>2. events \in Seq({"WAKE", "QUIT"})
  BY DEF IInv, TypeOK, RigTypeOK
<1>3. events' \in Seq({"WAKE", "QUIT"})
  BY <1>2 DEF UiPost, PostEvent
<1> QED BY <1>1, <1>3, TakenStep DEF UiPost

(* track_init: the rig's reference is the only one yet.                    *)
LEMMA UiLoadNewStep ==
    ASSUME NEW d \in Decks, NEW p \in Paths
    PROVE  IInv /\ uiPc = "event" /\ UiLoadNew(d, p) => IInv'
<1> SUFFICES ASSUME IInv, uiPc = "event", UiLoadNew(d, p) PROVE IInv'
  OBVIOUS
<1>1. PICK t \in Tracks : TrackNew(t, p) /\ ListTrack(t) /\ uiTrack' = t
  BY DEF UiLoadNew
<1> USE DEF UiLoadNew, rtVars
<1>2. /\ t \notin tracks /\ t # Empty /\ t \notin Listed
      /\ rigPc \notin {"fill", "handle", "read", "wait"}
      /\ \A d2 \in Decks : deck[d2] # t
      /\ rig \in Seq(Tracks) /\ Distinct(rig)
  BY <1>1, TrackAssumption
     DEF TrackNew, IInv, ListInv, LockInv, DeckInv, TypeOK, RigTypeOK
<1>3. /\ rig' \in Seq(Tracks) /\ Distinct(rig')
      /\ Listed' = {t} \union Listed
  BY <1>1, <1>2, PrependRange DEF ListTrack, Listed
<1>4. TypeOK'
  <2>1. ImporterTypeOK'
    <3>1. Size[p] \in 0 .. MaxData
      BY TrackAssumption
    <3> QED BY <1>1, <3>1 DEF TrackNew, Fork, Inherited, IInv, TypeOK, ImporterTypeOK
  <2>2. TrackTypeOK'
    <3>1. t \in Objects /\ NULL \in 0 .. Slots
      BY TrackAssumption DEF Objects, NULL
    <3> QED BY <1>1, <3>1 DEF TrackNew, IInv, TypeOK, TrackTypeOK
  <2>3. RigTypeOK'
    BY <1>3 DEF IInv, TypeOK, RigTypeOK
  <2> QED BY <1>1, <2>1, <2>2, <2>3 DEF IInv, TypeOK, Objects
<1>5. LockInv' /\ UiInv' /\ RtInv' /\ CursorInv' /\ DeckInv'
  BY <1>1, <1>2, <1>3
     DEF TrackNew, IInv, LockInv, UiInv, RtInv, CursorInv, DeckInv
<1>6. ListInv'
  BY <1>1, <1>2, <1>3 DEF TrackNew, IInv, ListInv, TypeOK, TrackTypeOK
<1>7. ProcInv'
  BY <1>1, <1>2, <1>3 DEF TrackNew, Fork, IInv, ProcInv, TypeOK, ImporterTypeOK
<1>8. OnePerPath'
  BY <1>1, <1>2 DEF TrackNew, Found, IInv, OnePerPath, TypeOK, TrackTypeOK
<1>9. RefcountExact'
  <2> SUFFICES ASSUME NEW u \in tracks' \union {Empty}
               PROVE  refcount'[u] = Cardinality(Holders(u)') + One(u \in Listed')
                                       + One(UiHolds(u)') + One(u = Empty)
    BY DEF RefcountExact, One
  <2>1. Holders(u)' = Holders(u) /\ ~UiHolds(u)' /\ ~UiHolds(u)
    BY DEF Holders, UiHolds
  <2>2. CASE u = t
    <3>1. Cardinality(Holders(t)) = 0
      BY <1>2, NoHolders
    <3>2. refcount'[t] = 1
      BY <1>1 DEF TrackNew, IInv, TypeOK, TrackTypeOK, Objects
    <3> QED BY <1>2, <1>3, <2>1, <2>2, <3>1, <3>2 DEF One
  <2>3. CASE u # t
    <3>1. u \in tracks \union {Empty}
      BY <1>1, <2>3 DEF TrackNew
    <3>2. refcount[u] = Cardinality(Holders(u)) + One(u \in Listed)
                          + One(UiHolds(u)) + One(u = Empty)
      BY <3>1 DEF IInv, RefcountExact
    <3>3. refcount'[u] = refcount[u]
      BY <1>1, <2>3, <3>1 DEF TrackNew, IInv, TypeOK, TrackTypeOK, Objects
    <3>4. One(u \in Listed') = One(u \in Listed)
      BY <1>3, <2>3 DEF One
    <3>5. One(UiHolds(u)') = One(UiHolds(u))
      BY <2>1 DEF One
    <3> QED BY <2>1, <3>2, <3>3, <3>4, <3>5
  <2> QED BY <2>2, <2>3
<1> QED BY <1>4, <1>5, <1>6, <1>7, <1>8, <1>9 DEF IInv

(* The interface thread gives back the track it exchanged.  If that was    *)
(* the last reference nothing else points to the track.                    *)
LEMMA UiPutStep == IInv /\ UiPut => IInv'
<1> SUFFICES ASSUME IInv, UiPut PROVE IInv'
  OBVIOUS
<1> DEFINE u == uiTrack
<1>1. u \in tracks \union {Empty} /\ u \in Objects /\ UiHolds(u)
  BY DEF IInv, UiInv, UiPut, UiHolds, TypeOK, TrackTypeOK, Objects
<1>2. refcount[u] \in Nat /\ refcount[u] > 0
  BY <1>1, CountIsPositive
<1>3. /\ refcount' = [refcount EXCEPT ![u] = refcount[u] - 1]
      /\ lock = "ui" /\ lock' = "none" /\ uiPc' = "idle"
      /\ uiDeck' = NoDeck /\ uiTrack' = NoTrack
      /\ UNCHANGED <<events, rig, polled, revents, rigPc, cursor, deck, rtVars,
                     pid, pe, proc, output, pipe, fd, inherits>>
  BY DEF UiPut, UiUnlock, TrackPut, IInv, LockInv, Kill, importVars
<1>4. \/ /\ refcount[u] = 1 /\ Free(u) /\ UNCHANGED signalled
      \/ /\ UNCHANGED <<tracks, path, length, outcome>>
         /\ \/ UNCHANGED <<terminated, signalled>>
            \/ /\ u \in Tracks
               /\ terminated' = [terminated EXCEPT ![u] = TRUE]
               /\ signalled' = [signalled EXCEPT ![u] = TRUE]
  BY DEF UiPut, TrackPut, LastButRig, Kill, importVars
<1>5. CASE refcount[u] = 1 /\ Free(u) /\ UNCHANGED signalled
  <2>1. u \notin Listed /\ (\A d \in Decks : deck[d] # u) /\ u # Empty /\ u \in tracks
    BY <1>1, <1>5, CountIsPositive
  <2>2. TypeOK'
    <3>1. Blank \in Paths
      BY TrackAssumption DEF Blank
    <3>2. refcount' \in [Objects -> Nat]
      BY <1>1, <1>2, <1>3 DEF IInv, TypeOK, TrackTypeOK
    <3>3. TrackTypeOK'
      BY <1>3, <1>5, <3>1, <3>2 DEF Free, IInv, TypeOK, TrackTypeOK
    <3>4. ImporterTypeOK' /\ RigTypeOK'
      BY <1>3, <1>5 DEF IInv, TypeOK, ImporterTypeOK, RigTypeOK
    <3> QED BY <1>3, <3>3, <3>4 DEF IInv, TypeOK, rtVars
  <2>3. LockInv' /\ UiInv' /\ RtInv' /\ CursorInv' /\ DeckInv'
    BY <1>3, <1>5, <2>1
       DEF IInv, UiPut, LockInv, UiInv, RtInv, CursorInv, DeckInv, rtVars, Free
  <2>4. ListInv' /\ ProcInv'
    BY <1>3, <1>5, <2>1 DEF IInv, ListInv, ProcInv, Listed, Current, Free
  <2>5. OnePerPath'
    BY <1>5, <2>1 DEF IInv, OnePerPath, Free, TypeOK, TrackTypeOK
  <2>6. RefcountExact'
    <3> SUFFICES ASSUME NEW t \in tracks' \union {Empty}
                 PROVE  refcount'[t] = Cardinality(Holders(t)') + One(t \in Listed')
                                         + One(UiHolds(t)') + One(t = Empty)
      BY DEF RefcountExact, One
    <3>1. t # u /\ t \in tracks \union {Empty}
      BY <1>5, <2>1 DEF Free
    <3>2. refcount[t] = Cardinality(Holders(t)) + One(t \in Listed)
                          + One(UiHolds(t)) + One(t = Empty)
      BY <3>1 DEF IInv, RefcountExact
    <3>3. refcount'[t] = refcount[t] /\ Holders(t)' = Holders(t) /\ Listed' = Listed
      BY <1>3, <3>1 DEF IInv, TypeOK, TrackTypeOK, Objects, Holders, Listed
    <3>4. ~UiHolds(t)' /\ ~UiHolds(t)
      BY <1>3, <3>1 DEF UiHolds
    <3> QED BY <3>2, <3>3, <3>4 DEF One
  <2> QED BY <2>2, <2>3, <2>4, <2>5, <2>6 DEF IInv
<1>6. CASE /\ UNCHANGED <<tracks, path, length, outcome>>
           /\ \/ UNCHANGED <<terminated, signalled>>
              \/ /\ u \in Tracks
                 /\ terminated' = [terminated EXCEPT ![u] = TRUE]
                 /\ signalled' = [signalled EXCEPT ![u] = TRUE]
  <2>1. TypeOK'
    <3>1. refcount' \in [Objects -> Nat]
      BY <1>1, <1>2, <1>3 DEF IInv, TypeOK, TrackTypeOK
    <3>2. TrackTypeOK'
      BY <1>3, <1>6, <3>1 DEF IInv, TypeOK, TrackTypeOK
    <3>3. ImporterTypeOK' /\ RigTypeOK'
      BY <1>3, <1>6 DEF IInv, TypeOK, ImporterTypeOK, RigTypeOK
    <3> QED BY <1>3, <3>2, <3>3 DEF IInv, TypeOK, rtVars
  <2>2. LockInv' /\ UiInv' /\ RtInv' /\ CursorInv' /\ DeckInv' /\ OnePerPath'
    BY <1>3, <1>6
       DEF IInv, UiPut, LockInv, UiInv, RtInv, CursorInv, DeckInv, OnePerPath, rtVars
  <2>3. ListInv' /\ ProcInv'
    BY <1>3, <1>6 DEF IInv, ListInv, ProcInv, Listed, Current
  <2>4. RefcountExact'
    <3> SUFFICES ASSUME NEW t \in tracks \union {Empty}
                 PROVE  refcount'[t] = Cardinality(Holders(t)') + One(t \in Listed')
                                         + One(UiHolds(t)') + One(t = Empty)
      BY <1>6 DEF RefcountExact, One
    <3>1. refcount[t] = Cardinality(Holders(t)) + One(t \in Listed)
                          + One(UiHolds(t)) + One(t = Empty)
      BY DEF IInv, RefcountExact
    <3>2. refcount'[t] = IF t = u THEN refcount[t] - 1 ELSE refcount[t]
      BY <1>1, <1>3 DEF IInv, TypeOK, TrackTypeOK, Objects
    <3>3. Holders(t)' = Holders(t) /\ Listed' = Listed
      BY <1>3 DEF Holders, Listed
    <3>4. ~UiHolds(t)' /\ (UiHolds(t) <=> t = u)
      BY <1>1, <1>3 DEF UiHolds
    <3>5. Cardinality(Holders(t)) \in Nat
      BY HoldersFinite
    <3> QED BY <3>1, <3>2, <3>3, <3>4, <3>5 DEF One
  <2> QED BY <2>1, <2>2, <2>3, <2>4 DEF IInv
<1> QED BY <1>4, <1>5, <1>6

(* stop_import after waitpid: the track leaves the list with the rig's     *)
(* reference, and with it, if there is no other, goes the track.           *)
LEMMA RigStopImportStep == IInv /\ RigStopImport /\ Others => IInv'
<1> SUFFICES ASSUME IInv, RigStopImport, Others PROVE IInv'
  OBVIOUS
<1> DEFINE u == Current
<1>1. /\ u \in Tracks /\ u \in Listed /\ u \in tracks
      /\ rig \in Seq(Tracks) /\ cursor \in 1 .. Len(rig) /\ u = rig[cursor]
  BY CurrentIsListed
     DEF RigStopImport, IInv, CursorInv, TypeOK, RigTypeOK, Current
<1>2. /\ refcount[u] \in Nat /\ refcount[u] > 0 /\ u # Empty
      /\ refcount[u] = 1 => ~UiHolds(u) /\ \A d \in Decks : deck[d] # u
  <2>1. u # Empty
    BY <1>1, TrackAssumption
  <2> QED BY <1>1, <2>1, CountIsPositive
<1>3. /\ rig' \in Seq(Tracks) /\ Distinct(rig')
      /\ Listed' = Listed \ {u}
  BY <1>1, RemoveRange DEF RigStopImport, IInv, ListInv, Listed
<1>4. /\ pid' = [pid EXCEPT ![u] = FALSE]
      /\ refcount' = [refcount EXCEPT ![u] = refcount[u] - 1]
      /\ proc' = [proc EXCEPT ![u] = "none"]
      /\ fd' = fd /\ rigPc = "wait" /\ rigPc' = "handle" /\ lock' = lock
      /\ cursor' = cursor
      /\ UNCHANGED <<deck, uiPc, uiDeck, uiTrack, rtDeck, rtTrack>>
  BY DEF RigStopImport, StopImport, Reap, Others, uiVars, rtVars
<1>5. \/ /\ tracks' = tracks
         /\ path' = path
      \/ /\ refcount[u] = 1
         /\ tracks' = tracks \ {u}
         /\ path' = [path EXCEPT ![u] = Blank]
  BY DEF RigStopImport, StopImport, Free
<1>6. TypeOK'
  <2>1. ImporterTypeOK'
    <3>1. ImporterTypeOK /\ Reap(u)
      BY DEF RigStopImport, StopImport, IInv, TypeOK
    <3> HIDE DEF u
    <3>2. output' \in [Tracks -> 0 .. MaxData]
      BY <1>1, <3>1, PipeAssumption DEF Reap, ImporterTypeOK
    <3>3. inherits' \in [Tracks -> SUBSET Tracks]
      BY <3>1 DEF Reap, ImporterTypeOK
    <3> QED BY <1>1, <3>1, <3>2, <3>3 DEF Reap, ImporterTypeOK
  <2>2. TrackTypeOK'
    <3>1. Blank \in Paths /\ u \in Objects
      BY <1>1, TrackAssumption DEF Blank, Objects
    <3>2. refcount' \in [Objects -> Nat]
      BY <1>2, <1>4, <3>1 DEF IInv, TypeOK, TrackTypeOK
    <3>3. pid' \in [Tracks -> BOOLEAN] /\ pe' \in [Tracks -> 0 .. Slots]
      BY <1>1, <1>4 DEF RigStopImport, StopImport, IInv, TypeOK, TrackTypeOK
    <3>4. CASE Free(u)
      BY <1>1, <3>1, <3>2, <3>3, <3>4 DEF Free, IInv, TypeOK, TrackTypeOK
    <3>5. CASE /\ outcome' = [outcome EXCEPT ![u] = Report(u)]
               /\ UNCHANGED <<tracks, path, length, terminated>>
      <4>1. Report(u) \in {"completed", "alert", "silent"}
        BY DEF Report
      <4> QED BY <1>1, <3>2, <3>3, <3>5, <4>1 DEF IInv, TypeOK, TrackTypeOK
    <3> QED BY <3>4, <3>5 DEF RigStopImport, StopImport
  <2>3. RigTypeOK'
    BY <1>3, <1>4 DEF RigStopImport, IInv, TypeOK, RigTypeOK
  <2> QED BY <1>4, <2>1, <2>2, <2>3 DEF IInv, TypeOK
<1>7. LockInv' /\ RtInv' /\ CursorInv'
  BY <1>4 DEF IInv, LockInv, RtInv, CursorInv
<1>8. UiInv' /\ DeckInv'
  <2>1. ~(uiPc \in {"event", "post", "swap", "put"})
    BY <1>4 DEF IInv, LockInv
  <2> QED BY <1>2, <1>4, <1>5, <2>1 DEF IInv, UiInv, DeckInv
<1>9. ListInv'
  BY <1>1, <1>3, <1>4, <1>5 DEF IInv, ListInv, TypeOK, TrackTypeOK
<1>10. ProcInv'
  BY <1>1, <1>3, <1>4 DEF IInv, ProcInv, TypeOK, ImporterTypeOK
<1>11. OnePerPath'
  BY <1>1, <1>5 DEF IInv, OnePerPath, TypeOK, TrackTypeOK
<1>12. RefcountExact'
  <2> SUFFICES ASSUME NEW t \in tracks' \union {Empty}
               PROVE  refcount'[t] = Cardinality(Holders(t)') + One(t \in Listed')
                                       + One(UiHolds(t)') + One(t = Empty)
    BY DEF RefcountExact, One
  <2>1. t \in tracks \union {Empty}
    BY <1>5
  <2>2. refcount[t] = Cardinality(Holders(t)) + One(t \in Listed)
                        + One(UiHolds(t)) + One(t = Empty)
    BY <2>1 DEF IInv, RefcountExact
  <2>3. refcount'[t] = IF t = u THEN refcount[t] - 1 ELSE refcount[t]
    BY <1>4, <2>1 DEF IInv, TypeOK, TrackTypeOK, Objects
  <2>4. Holders(t)' = Holders(t) /\ Cardinality(Holders(t)) \in Nat
    BY <1>4, HoldersFinite DEF Holders
  <2>5. One(UiHolds(t)') = One(UiHolds(t))
    BY <1>4 DEF UiHolds, One
  <2>6. One(t \in Listed') = IF t = u THEN One(t \in Listed) - 1 ELSE One(t \in Listed)
    BY <1>1, <1>3 DEF One
  <2> HIDE DEF u
  <2> QED BY <2>2, <2>3, <2>4, <2>5, <2>6 DEF One
<1> QED BY <1>6, <1>7, <1>8, <1>9, <1>10, <1>11, <1>12 DEF IInv

(* A process does what it likes with its pipe, and stays until waited for. *)
LEMMA ImportersStep ==
    ASSUME NEW u \in Tracks
    PROVE  IInv /\ Importers(u) => IInv'
<1> SUFFICES ASSUME IInv, Importers(u) PROVE IInv'
  OBVIOUS
<1> USE DEF IInv, Importers, trackVars, rigVars, uiVars, rtVars
<1>1. ImporterTypeOK' /\ fd' = fd /\ \A t \in Tracks : proc'[t] # "none" <=> proc[t] # "none"
  <2>1. CASE ImporterWrite(u)
    <3>1. output[u] - 1 \in 0 .. MaxData /\ pipe[u] + 1 \in Nat
      BY <2>1, PipeAssumption DEF ImporterWrite, TypeOK, ImporterTypeOK
    <3>2. output' \in [Tracks -> 0 .. MaxData]
      BY <2>1, <3>1 DEF ImporterWrite, TypeOK, ImporterTypeOK
    <3>3. pipe' \in [Tracks -> Nat]
      BY <2>1, <3>1 DEF ImporterWrite, TypeOK, ImporterTypeOK
    <3> QED BY <2>1, <3>2, <3>3 DEF ImporterWrite, TypeOK, ImporterTypeOK
  <2>2. ASSUME NEW status \in {"ok", "failed"}, Exit(u, status)
        PROVE  ImporterTypeOK' /\ fd' = fd
                 /\ \A t \in Tracks : proc'[t] # "none" <=> proc[t] # "none"
    BY <2>2 DEF Exit, TypeOK, ImporterTypeOK
  <2> QED BY <2>1, <2>2
      DEF ImporterProgress, ImporterFinish, ImporterDie, ImporterFail
<1>2. TypeOK'
  BY <1>1 DEF TypeOK, TrackTypeOK, RigTypeOK
<1>3. LockInv' /\ UiInv' /\ RtInv' /\ CursorInv' /\ DeckInv' /\ OnePerPath'
  BY DEF LockInv, UiInv, RtInv, CursorInv, DeckInv, OnePerPath, Listed
<1>4. ListInv' /\ ProcInv'
  BY <1>1 DEF ListInv, ProcInv, Listed, Current
<1>5. RefcountExact'
  BY CountsKept DEF UiHolds
<1> QED BY <1>2, <1>3, <1>4, <1>5

-----------------------------------------------------------------------------
(* The theorems.                                                           *)

(* A step that changes nothing. *)
LEMMA Stutter == IInv /\ UNCHANGED vars => IInv'
<1> SUFFICES ASSUME IInv, UNCHANGED vars PROVE IInv'
  OBVIOUS
<1> USE DEF IInv, vars, importVars, trackVars, rigVars, uiVars, rtVars
<1>1. TypeOK'
  BY DEF TypeOK, ImporterTypeOK, TrackTypeOK, RigTypeOK
<1>2. LockInv' /\ UiInv' /\ RtInv' /\ CursorInv' /\ DeckInv' /\ OnePerPath'
  BY DEF LockInv, UiInv, RtInv, CursorInv, DeckInv, OnePerPath, Listed
<1>3. ListInv' /\ ProcInv'
  BY DEF ListInv, ProcInv, Listed, Current
<1>4. RefcountExact'
  BY CountsKept DEF UiHolds
<1> QED BY <1>1, <1>2, <1>3, <1>4

(* Every reachable state satisfies the inductive invariant.                *)
THEOREM Invariance == SafetySpec => []IInv
<1>1. IInv /\ [Next]_vars => IInv'
  <2> SUFFICES ASSUME IInv, [Next]_vars PROVE IInv'
    OBVIOUS
  <2>1. CASE Rigs
    BY <2>1, RigRelockStep, RigFillStep, RigPollStep, RigPollInterruptedStep,
       RigPollErrorStep, RigDrainStep, RigLockStep, RigHandleStep, RigReadStep,
       RigReadNothingStep, RigReadEndsStep, RigStopImportStep
       DEF Rigs, RigNext, Others
  <2>2. CASE UiHandle
    BY <2>2, UiIgnoreStep, UiQuitStep, UiStopStep, UiGivesUpStep,
       UiLoadAgainStep, UiLoadNewStep, UiCloneStep DEF UiHandle
  <2>3. CASE UiEvent \/ UiLock \/ UiPost \/ UiSwap \/ UiPut
    BY <2>3, UiEventStep, UiLockStep, UiPostStep, UiSwapStep, UiPutStep
  <2>4. CASE (\E d \in Decks : RtCollect(d)) \/ RtDone
    BY <2>4, RtCollectStep, RtDoneStep
  <2>5. CASE \E t \in Tracks : Importers(t)
    BY <2>5, ImportersStep
  <2>6. CASE UNCHANGED vars
    BY <2>6, Stutter
  <2> QED BY <2>1, <2>2, <2>3, <2>4, <2>5, <2>6 DEF Next
<1> QED BY Initially, <1>1, PTL DEF SafetySpec

(* Every variable keeps its type, whatever the threads and children do.    *)
THEOREM TypeCorrect == SafetySpec => []TypeOK
<1>1. IInv => TypeOK
  BY DEF IInv
<1> QED BY Invariance, <1>1, PTL

(* Gets and puts balance: a count is the number of its references.         *)
THEOREM CountsAreExact == SafetySpec => []RefcountExact
<1>1. IInv => RefcountExact
  BY DEF IInv
<1> QED BY Invariance, <1>1, PTL

(* No deck, list or thread is left with a pointer to a freed track, the    *)
(* realtime thread included, which has no reference of its own.            *)
THEOREM NothingDangles == SafetySpec => []NoDangling
<1>1. IInv => NoDangling
  <2> SUFFICES ASSUME IInv PROVE NoDangling
    OBVIOUS
  <2>1. Listed \subseteq tracks /\ \A d \in Decks : deck[d] \in tracks \union {Empty}
    BY DEF IInv, ListInv, DeckInv
  <2>2. uiTrack # NoTrack => uiTrack \in tracks \union {Empty}
    BY DEF IInv, UiInv, ListInv, TypeOK
  <2>3. rtDeck # NoDeck => rtTrack \in tracks \union {Empty}
    BY <2>1 DEF IInv, RtInv, TypeOK
  <2> QED BY <2>1, <2>2, <2>3 DEF NoDangling
<1> QED BY Invariance, <1>1, PTL

(* The rig looks after each import exactly once, and its process and       *)
(* descriptor live exactly as long.                                        *)
THEOREM ImportsAreListed == SafetySpec => []ImportingIffListed
<1>1. IInv => ImportingIffListed
  BY DEF IInv, ListInv, ProcInv, Distinct, ImportingIffListed
<1> QED BY Invariance, <1>1, PTL

(* A record that is in memory is in memory once.                           *)
THEOREM TracksAreShared == SafetySpec => []OnePerPath
<1>1. IInv => OnePerPath
  BY DEF IInv
<1> QED BY Invariance, <1>1, PTL

(* The assertions of track.c and player.c on reference counts and import   *)
(* processes never fail.                                                   *)
THEOREM AssertionsHold == SafetySpec => []NoAbort
<1>1. IInv => NoAbort
  <2> SUFFICES ASSUME IInv PROVE NoAbort
    OBVIOUS
  <2>1. ASSUME uiPc \in {"swap", "put"}
        PROVE  /\ refcount[uiTrack] > 0
               /\ refcount[uiTrack] = 1 => uiTrack # Empty /\ ~pid[uiTrack]
    <3>1. UiHolds(uiTrack) /\ uiTrack \in tracks \union {Empty}
      BY <2>1 DEF UiHolds, IInv, UiInv
    <3> QED BY <3>1, CountIsPositive DEF IInv, ListInv, TypeOK, TrackTypeOK
  <2>2. uiPc = "put" /\ LastButRig(uiTrack) => proc[uiTrack] # "none"
    BY TrackAssumption DEF IInv, UiInv, ListInv, ProcInv, LastButRig
  <2>3. \A t \in Listed : pid[t]
    BY DEF IInv, ListInv
  <2> QED BY <2>1, <2>2, <2>3 DEF NoAbort
<1> QED BY Invariance, <1>1, PTL

-----------------------------------------------------------------------------
(* Imports: what is reported as complete is, and the interface never waits *)
(* for room in the event pipe.  The inductive invariants.                  *)

(* Listed tracks that have not been given a poll entry yet.                *)
Unseen == {t \in Listed : pe[t] = NULL}

(* Wake-ups written, and the one about to be.                              *)
Due == Cardinality(Wakes) + One(uiPc = "post")

(* The rig drains the pipe to its end before it handles tracks, and only   *)
(* handles tracks with an entry.  So while it does, wake-ups in the pipe   *)
(* are for tracks without one, which are still listed when it polls again. *)
WakeInv ==
    /\ rigPc \in {"read", "wait"} => pe[Current] # NULL
    /\ uiPc = "post" => pe[uiTrack] = NULL
    /\ rigPc \in {"lock", "handle", "read", "wait"} => Due <= Cardinality(Unseen)
    /\ Due <= Cardinality(Listed)

(* While a track is importing its audio is in memory, in the pipe or yet   *)
(* to be written; its descriptor is closed when it is full, or nothing     *)
(* more can come.                                                          *)
AudioInv ==
    /\ \A t \in Listed :
          /\ length[t] + pipe[t] + output[t] = Size[path[t]]
          /\ proc[t] = "ok" => output[t] = 0
          /\ outcome[t] = "none"
    /\ rigPc = "wait" =>
          \/ length[Current] >= Capacity
          \/ pipe[Current] = 0 /\ proc[Current] # "running"
    /\ CompletedIsWhole

-----------------------------------------------------------------------------
(* Wake-ups.                                                               *)

(* What is counted is finite. *)
LEMMA Counts ==
    ASSUME IInv
    PROVE  /\ IsFiniteSet(Listed) /\ Cardinality(Listed) = Len(rig)
           /\ IsFiniteSet(Unseen) /\ Cardinality(Unseen) <= Cardinality(Listed)
           /\ Cardinality(Listed) \in Nat /\ Cardinality(Unseen) \in Nat
           /\ Wakes = Places(events, "WAKE") /\ Cardinality(Wakes) \in Nat
           /\ events \in Seq({"WAKE", "QUIT"})
<1>1. rig \in Seq(Tracks) /\ Distinct(rig) /\ events \in Seq({"WAKE", "QUIT"})
  BY DEF IInv, TypeOK, RigTypeOK, ListInv
<1>2. IsFiniteSet(Listed) /\ Cardinality(Listed) = Len(rig)
  BY <1>1, DistinctLength DEF Listed
<1>3. Unseen \subseteq Listed
  BY DEF Unseen
<1>4. Wakes = Places(events, "WAKE")
  BY DEF Wakes, Places
<1> QED BY <1>1, <1>2, <1>3, <1>4, PlacesFinite, FS_Subset, FS_CardinalityType

(* Steps that leave the events, the list and the poll entries alone.       *)
LEMMA WakeKept ==
    ASSUME WakeInv, events' = events, rig' = rig, pe' = pe,
           uiPc' = "post" <=> uiPc = "post",
           uiPc = "post" => uiTrack' = uiTrack,
           rigPc' \in {"lock", "handle", "read", "wait"}
             => rigPc \in {"lock", "handle", "read", "wait"},
           rigPc' \in {"read", "wait"} => pe[Current]' # NULL
    PROVE  WakeInv'
<1>1. Listed' = Listed /\ Unseen' = Unseen /\ Due' = Due
  BY DEF Listed, Unseen, Due, Wakes, One
<1> QED BY <1>1 DEF WakeInv

(* The event of a new track is posted. *)
LEMMA WakePost == IInv /\ WakeInv /\ UiPost => WakeInv'
<1> SUFFICES ASSUME IInv, WakeInv, UiPost PROVE WakeInv'
  OBVIOUS
<1>1. /\ events' = Append(events, "WAKE") /\ rig' = rig /\ pe' = pe /\ rigPc' = rigPc
      /\ cursor' = cursor /\ uiPc = "post" /\ uiPc' = "swap"
  BY DEF UiPost, PostEvent, TrackGet
<1>2. Cardinality(Wakes') = Cardinality(Wakes) + 1 /\ Cardinality(Wakes) \in Nat
  <2>1. events \in Seq({"WAKE", "QUIT"}) /\ "WAKE" \in {"WAKE", "QUIT"}
    BY Counts
  <2>2. Cardinality(Places(Append(events, "WAKE"), "WAKE")) = Cardinality(Places(events, "WAKE")) + 1
    BY <2>1, PlacesAppend
  <2>3. Wakes' = Places(Append(events, "WAKE"), "WAKE")
    BY <1>1 DEF Wakes, Places
  <2> QED BY <2>2, <2>3, Counts
<1>3. Listed' = Listed /\ Unseen' = Unseen /\ Current' = Current
  BY <1>1 DEF Listed, Unseen, Current
<1>4. Due' = Due
  BY <1>1, <1>2 DEF Due, One
<1> QED BY <1>1, <1>3, <1>4 DEF WakeInv

(* The event that ends rig_main is not a wake-up. *)
LEMMA WakeQuit == IInv /\ WakeInv /\ uiPc = "event" /\ UiQuit => WakeInv'
<1> SUFFICES ASSUME IInv, WakeInv, uiPc = "event", UiQuit PROVE WakeInv'
  OBVIOUS
<1>1. /\ events' = Append(events, "QUIT") /\ rig' = rig /\ pe' = pe /\ rigPc' = rigPc
      /\ cursor' = cursor /\ uiPc' = "idle"
  BY DEF UiQuit, PostEvent, trackVars
<1>2. Cardinality(Wakes') = Cardinality(Wakes)
  <2>1. /\ events \in Seq({"WAKE", "QUIT"}) /\ "QUIT" \in {"WAKE", "QUIT"}
        /\ "QUIT" # "WAKE" /\ Cardinality(Places(events, "WAKE")) \in Nat
    BY Counts
  <2>2. Cardinality(Places(Append(events, "QUIT"), "WAKE")) = Cardinality(Places(events, "WAKE")) + 0
    BY <2>1, PlacesAppend
  <2>3. Wakes' = Places(Append(events, "QUIT"), "WAKE")
    BY <1>1 DEF Wakes, Places
  <2> QED BY <2>1, <2>2, <2>3, Counts
<1>3. Listed' = Listed /\ Unseen' = Unseen /\ Current' = Current
  BY <1>1 DEF Listed, Unseen, Current
<1>4. Due' = Due
  BY <1>1, <1>2 DEF Due, One
<1> QED BY <1>1, <1>3, <1>4 DEF WakeInv

(* A track is listed, without an entry, and a wake-up is due. *)
LEMMA WakeLoadNew ==
    ASSUME IInv, WakeInv, uiPc = "event",
           NEW d \in Decks, NEW p \in Paths, UiLoadNew(d, p)
    PROVE  WakeInv'
<1>1. PICK t \in Tracks : TrackNew(t, p) /\ ListTrack(t) /\ uiTrack' = t
  BY DEF UiLoadNew
<1>2. t \notin Listed /\ rig \in Seq(Tracks) /\ rigPc \notin {"handle", "read", "wait"}
  BY <1>1 DEF TrackNew, IInv, ListInv, LockInv, TypeOK, RigTypeOK
<1>3. Listed' = Listed \union {t}
  BY <1>1, <1>2, PrependRange DEF ListTrack, Listed
<1>4. /\ pe' = [pe EXCEPT ![t] = NULL] /\ events' = events /\ rigPc' = rigPc
      /\ uiPc' = "post" /\ pe \in [Tracks -> 0 .. Slots]
  BY <1>1 DEF TrackNew, UiLoadNew, IInv, TypeOK, TrackTypeOK
<1>5. Listed \subseteq Tracks
  BY DEF IInv, ListInv, TypeOK, TrackTypeOK
<1>6. Unseen' = Unseen \union {t} /\ t \notin Unseen
  BY <1>2, <1>3, <1>4, <1>5 DEF Unseen
<1>7. /\ Cardinality(Listed') = Cardinality(Listed) + 1
      /\ Cardinality(Unseen') = Cardinality(Unseen) + 1
  BY <1>2, <1>3, <1>6, Counts, FS_AddElement
<1>8. Due' = Due + 1
  BY <1>4, Counts DEF Due, Wakes, One
<1>9. Due \in Nat /\ Cardinality(Listed) \in Nat /\ Cardinality(Unseen) \in Nat
  BY Counts DEF Due, One
<1>10. pe'[t] = NULL
  BY <1>4
<1> QED BY <1>1, <1>2, <1>4, <1>7, <1>8, <1>9, <1>10 DEF WakeInv

(* Tracks get poll entries; the rig does not handle any before it polls.   *)
LEMMA WakeFill == IInv /\ WakeInv /\ RigFill /\ Others => WakeInv'
<1> SUFFICES ASSUME IInv, WakeInv, RigFill, Others PROVE WakeInv'
  OBVIOUS
<1>1. /\ events' = events /\ rig' = rig /\ rigPc' = "poll" /\ uiPc' = uiPc
      /\ uiPc # "post"
  BY DEF RigFill, Others, uiVars, IInv, LockInv
<1>2. Listed' = Listed /\ Due' = Due
  BY <1>1 DEF Listed, Due, Wakes
<1> QED BY <1>1, <1>2 DEF WakeInv

(* With nothing in the pipe, a wake-up is due only for a new track.        *)
LEMMA NoneDue ==
    ASSUME IInv, WakeInv, events = <<>>
    PROVE  Due <= Cardinality(Unseen)
<1>1. Cardinality(Wakes) = 0
  <2>1. Wakes = {}
    BY DEF Wakes
  <2> QED BY <2>1, FS_EmptySet
<1>2. CASE uiPc = "post"
  <2>1. uiTrack \in Unseen
    BY <1>2 DEF WakeInv, Unseen, IInv, UiInv
  <2>2. Cardinality(Unseen) # 0
    BY <2>1, Counts, FS_EmptySet
  <2> QED BY <1>1, <1>2, <2>2, Counts DEF Due, One
<1>3. CASE uiPc # "post"
  BY <1>1, <1>3, Counts DEF Due, One
<1> QED BY <1>2, <1>3

(* Only when poll saw no event does rig_main go on to handle tracks. *)
LEMMA WakePoll == IInv /\ WakeInv /\ RigPoll /\ Others => WakeInv'
<1> SUFFICES ASSUME IInv, WakeInv, RigPoll, Others PROVE WakeInv'
  OBVIOUS
<1>1. /\ events' = events /\ rig' = rig /\ pe' = pe /\ uiPc' = uiPc /\ uiTrack' = uiTrack
      /\ rigPc' = IF events # <<>> THEN "drain" ELSE "lock"
  BY DEF RigPoll, Others, uiVars, trackVars
<1>2. Listed' = Listed /\ Unseen' = Unseen /\ Due' = Due
  BY <1>1 DEF Listed, Unseen, Due, Wakes
<1>3. ASSUME events = <<>> PROVE Due <= Cardinality(Unseen)
  BY <1>3, NoneDue
<1> QED BY <1>1, <1>2, <1>3 DEF WakeInv

(* The pipe has been read to its end, or another event is read. *)
LEMMA WakeDrain == IInv /\ WakeInv /\ RigDrain /\ Others => WakeInv'
<1> SUFFICES ASSUME IInv, WakeInv, RigDrain, Others PROVE WakeInv'
  OBVIOUS
<1>1. /\ rig' = rig /\ pe' = pe /\ uiPc' = uiPc /\ uiTrack' = uiTrack
      /\ \/ events = <<>> /\ events' = events /\ rigPc' = "lock"
         \/ events # <<>> /\ events' = Tail(events) /\ rigPc' \in {"finished", "drain"}
  BY DEF RigDrain, Others, uiVars, trackVars
<1>2. Listed' = Listed /\ Unseen' = Unseen
  BY <1>1 DEF Listed, Unseen
<1>3. CASE events = <<>>
  <2>1. Due' = Due
    BY <1>1, <1>3 DEF Due, Wakes
  <2> QED BY <1>1, <1>2, <1>3, <2>1, NoneDue DEF WakeInv
<1>4. CASE events # <<>>
  <2>1. Cardinality(Wakes') <= Cardinality(Wakes)
    BY <1>1, <1>4, Counts, PlacesTail DEF Places, Wakes
  <2>2. Tail(events) \in Seq({"WAKE", "QUIT"})
    BY <1>4, Counts, HeadTailProperties
  <2>3. Cardinality(Wakes') \in Nat
    <3>1. Wakes' = Places(Tail(events), "WAKE")
      BY <1>1, <1>4 DEF Places, Wakes
    <3>2. Cardinality(Places(Tail(events), "WAKE")) \in Nat
      BY <2>2, PlacesFinite
    <3> QED BY <3>1, <3>2
  <2>4. Due' <= Due /\ Due' \in Nat /\ Due \in Nat
    BY <1>1, <2>1, <2>3, Counts DEF Due, One
  <2> QED BY <1>1, <1>2, <1>4, <2>4, Counts DEF WakeInv
<1> QED BY <1>3, <1>4

(* A track that leaves the list had a poll entry: no wake-up was for it.   *)
LEMMA WakeStopImport == IInv /\ WakeInv /\ RigStopImport /\ Others => WakeInv'
<1> SUFFICES ASSUME IInv, WakeInv, RigStopImport, Others PROVE WakeInv'
  OBVIOUS
<1>1. PICK t \in Tracks :
         /\ t = Current /\ t \in Listed
         /\ rig \in Seq(Tracks) /\ cursor \in 1 .. Len(rig) /\ t = rig[cursor]
  BY CurrentIsListed
     DEF RigStopImport, IInv, CursorInv, TypeOK, RigTypeOK, Current
<1>2. Listed' = Listed \ {t}
  BY <1>1, RemoveRange DEF RigStopImport, IInv, ListInv, Listed
<1>3. /\ pe' = pe /\ events' = events /\ rigPc = "wait" /\ rigPc' = "handle"
      /\ uiPc' = uiPc /\ uiTrack' = uiTrack /\ pe[t] # NULL
  BY <1>1 DEF RigStopImport, StopImport, Others, uiVars, WakeInv
<1>4. Unseen' = Unseen
  BY <1>2, <1>3 DEF Unseen
<1>5. Due' = Due /\ Due <= Cardinality(Unseen) /\ Due \in Nat
  BY <1>3, Counts DEF Due, Wakes, WakeInv, One
<1>6. Unseen \subseteq Listed' /\ IsFiniteSet(Listed')
  BY <1>2, <1>3, Counts, FS_RemoveElement DEF Unseen
<1>7. /\ Cardinality(Unseen) <= Cardinality(Listed')
      /\ Cardinality(Unseen) \in Nat /\ Cardinality(Listed') \in Nat
  BY <1>6, Counts, FS_Subset, FS_CardinalityType
<1> QED BY <1>3, <1>4, <1>5, <1>7 DEF WakeInv

(* The rig's other steps. *)
LEMMA WakeRig ==
    ASSUME IInv, WakeInv, Others,
           \/ RigRelock \/ RigPollInterrupted \/ RigPollError \/ RigLock
           \/ RigHandle \/ RigRead \/ RigReadNothing \/ RigReadEnds
    PROVE  WakeInv'
<1>1. /\ events' = events /\ rig' = rig /\ pe' = pe /\ uiPc' = uiPc /\ uiTrack' = uiTrack
  BY DEF RigRelock, RigPollInterrupted, RigPollError, RigLock, RigHandle, RigRead,
         RigReadNothing, RigReadEnds, ReadChunk, CloseFd, Others, uiVars, trackVars,
         rigVars
<1>2. rigPc' \in {"lock", "handle", "read", "wait"}
        => rigPc \in {"lock", "handle", "read", "wait"}
  BY DEF RigRelock, RigPollInterrupted, RigPollError, RigLock, RigHandle, RigRead,
         RigReadNothing, RigReadEnds, rigVars
<1>3. rigPc' \in {"read", "wait"} => cursor' = cursor
  BY DEF RigRelock, RigPollInterrupted, RigPollError, RigLock, RigHandle, RigRead,
         RigReadNothing, RigReadEnds, rigVars
<1>4. rigPc' \in {"read", "wait"} => pe[Current] # NULL
  BY DEF RigRelock, RigPollInterrupted, RigPollError, RigLock, RigHandle, RigRead,
         RigReadNothing, RigReadEnds, rigVars, WakeInv, Active
<1>5. rigPc' \in {"read", "wait"} => pe[Current]' # NULL
  BY <1>1, <1>3, <1>4 DEF Current
<1> QED BY <1>1, <1>2, <1>5, WakeKept

(* The interface thread's other steps. *)
LEMMA WakeUi ==
    ASSUME IInv, WakeInv,
           \/ UiEvent \/ UiLock \/ UiSwap \/ UiPut
           \/ /\ uiPc = "event"
              /\ \/ UiIgnore \/ UiStop \/ UiGivesUp
                 \/ \E d \in Decks, p \in Paths : UiLoadAgain(d, p)
                 \/ \E d, from \in Decks : UiClone(d, from)
    PROVE  WakeInv'
<1>1. /\ events' = events /\ rig' = rig /\ pe' = pe /\ rigPc' = rigPc /\ cursor' = cursor
      /\ uiPc # "post" /\ uiPc' # "post"
  BY DEF UiEvent, UiLock, UiSwap, UiPut, UiUnlock, UiIgnore, UiStop, UiGivesUp,
         UiLoadAgain, UiClone, TrackGet, TrackPut, trackVars, rigVars
<1>2. rigPc' \in {"read", "wait"} => pe[Current]' # NULL
  BY <1>1 DEF WakeInv, Current
<1> QED BY <1>1, <1>2, WakeKept

(* Steps of others. *)
LEMMA WakeOthers ==
    ASSUME WakeInv,
           \/ \E d \in Decks : RtCollect(d)
           \/ RtDone
           \/ \E t \in Tracks : Importers(t)
           \/ UNCHANGED vars
    PROVE  WakeInv'
<1>1. /\ events' = events /\ rig' = rig /\ pe' = pe /\ rigPc' = rigPc /\ cursor' = cursor
      /\ uiPc' = uiPc /\ uiTrack' = uiTrack
  BY DEF RtCollect, RtDone, Importers, vars, trackVars, rigVars, uiVars
<1>2. rigPc' \in {"read", "wait"} => pe[Current]' # NULL
  BY <1>1 DEF WakeInv, Current
<1> QED BY <1>1, <1>2, WakeKept

(* At first there is nothing to count, nor to wake up for. *)
LEMMA WakeInitially == Init => WakeInv
<1> SUFFICES ASSUME Init PROVE WakeInv
  OBVIOUS
<1>1. /\ events = <<>> /\ rigPc = "relock" /\ uiPc # "post"
      /\ Listed = {}
  BY DEF Init, RigInit, Listed, Range
<1>2. Wakes = {}
  BY <1>1 DEF Wakes
<1> QED BY <1>1, <1>2, FS_EmptySet DEF WakeInv, Due, One

(* Wake-ups keep their bounds, whatever the threads and children do.       *)
LEMMA WakeInvariance == SafetySpec => []WakeInv
<1>1. IInv /\ WakeInv /\ [Next]_vars => WakeInv'
  <2> SUFFICES ASSUME IInv, WakeInv, [Next]_vars PROVE WakeInv'
    OBVIOUS
  <2>1. CASE Rigs
    BY <2>1, WakeFill, WakePoll, WakeDrain, WakeStopImport, WakeRig
       DEF Rigs, RigNext, Others
  <2>2. CASE UiHandle
    BY <2>2, WakeQuit, WakeLoadNew, WakeUi DEF UiHandle
  <2>3. CASE UiEvent \/ UiLock \/ UiPost \/ UiSwap \/ UiPut
    BY <2>3, WakeUi, WakePost
  <2>4. CASE (\E d \in Decks : RtCollect(d)) \/ RtDone
             \/ (\E t \in Tracks : Importers(t)) \/ UNCHANGED vars
    BY <2>4, WakeOthers
  <2> QED BY <2>1, <2>2, <2>3, <2>4 DEF Next
<1> QED BY WakeInitially, Invariance, <1>1, PTL DEF SafetySpec

(* There are never more wake-ups in the event pipe than imports in the     *)
(* list: a pipe with room for as many never blocks the interface thread,   *)
(* which writes to it with the rig lock held.                              *)
THEOREM EventsDoFit == SafetySpec => []EventsFit
<1>1. IInv /\ WakeInv => EventsFit
  BY Counts DEF WakeInv, Due, One, EventsFit
<1> QED BY Invariance, WakeInvariance, <1>1, PTL

-----------------------------------------------------------------------------
(* Audio.                                                                  *)

(* Steps that move no audio.                                               *)
LEMMA AudioKept ==
    ASSUME AudioInv, tracks' = tracks, rig' = rig, length' = length,
           pipe' = pipe, output' = output, proc' = proc, path' = path,
           outcome' = outcome,
           rigPc' = "wait" => rigPc = "wait" /\ cursor' = cursor
    PROVE  AudioInv'
<1>1. Listed' = Listed
  BY DEF Listed
<1>2. rigPc' = "wait" => Current' = Current
  BY DEF Current
<1> QED BY <1>1, <1>2 DEF AudioInv, CompletedIsWhole

(* A new track: all of its audio is yet to be written. *)
LEMMA AudioLoadNew ==
    ASSUME IInv, AudioInv, uiPc = "event",
           NEW d \in Decks, NEW p \in Paths, UiLoadNew(d, p)
    PROVE  AudioInv'
<1>1. PICK t \in Tracks : TrackNew(t, p) /\ ListTrack(t) /\ uiTrack' = t
  BY DEF UiLoadNew
<1>2. /\ t \notin Listed /\ rig \in Seq(Tracks) /\ t \notin tracks
      /\ rigPc' # "wait" /\ Listed \subseteq Tracks
  BY <1>1 DEF TrackNew, UiLoadNew, IInv, ListInv, LockInv, TypeOK, RigTypeOK, TrackTypeOK
<1>3. Listed' = Listed \union {t}
  BY <1>1, <1>2, PrependRange DEF ListTrack, Listed
<1>4. /\ length' = [length EXCEPT ![t] = 0] /\ pipe' = [pipe EXCEPT ![t] = 0]
      /\ output' = [output EXCEPT ![t] = Size[p]] /\ path' = [path EXCEPT ![t] = p]
      /\ proc' = [proc EXCEPT ![t] = "running"] /\ outcome' = [outcome EXCEPT ![t] = "none"]
      /\ tracks' = tracks \union {t} /\ Size[p] \in Nat
  BY <1>1, TrackAssumption, PipeAssumption DEF TrackNew, Fork
<1>5. IInv => ImporterTypeOK /\ TrackTypeOK
  BY DEF IInv, TypeOK
<1>6. ASSUME NEW u \in Listed'
      PROVE  /\ length'[u] + pipe'[u] + output'[u] = Size[path'[u]]
             /\ proc'[u] = "ok" => output'[u] = 0
             /\ outcome'[u] = "none"
  <2>1. CASE u = t
    BY <1>4, <1>5, <2>1 DEF ImporterTypeOK, TrackTypeOK
  <2>2. CASE u # t
    BY <1>2, <1>3, <1>4, <1>5, <2>2 DEF AudioInv, ImporterTypeOK, TrackTypeOK
  <2> QED BY <2>1, <2>2
<1>7. CompletedIsWhole'
  BY <1>2, <1>4, <1>5 DEF AudioInv, CompletedIsWhole, TrackTypeOK
<1> QED BY <1>2, <1>6, <1>7 DEF AudioInv

(* A track is put, and perhaps freed. *)
LEMMA AudioPut == IInv /\ AudioInv /\ UiPut => AudioInv'
<1> SUFFICES ASSUME IInv, AudioInv, UiPut PROVE AudioInv'
  OBVIOUS
<1>1. PICK t \in tracks \union {Empty} : t = uiTrack /\ UiHolds(t)
  BY DEF IInv, UiInv, UiPut, UiHolds
<1>2. /\ rig' = rig /\ rigPc' = rigPc /\ cursor' = cursor /\ pipe' = pipe
      /\ output' = output /\ proc' = proc
      /\ \/ tracks' = tracks /\ path' = path /\ length' = length /\ outcome' = outcome
         \/ refcount[t] = 1 /\ Free(t)
  BY <1>1 DEF UiPut, UiUnlock, TrackPut, Kill, importVars
<1>3. CASE tracks' = tracks /\ path' = path /\ length' = length /\ outcome' = outcome
  BY <1>2, <1>3, AudioKept
<1>4. CASE refcount[t] = 1 /\ Free(t)
  <2>1. t \notin Listed /\ t # Empty
    BY <1>1, <1>4, CountIsPositive
  <2>2. rigPc' # "wait" /\ Listed \subseteq tracks /\ tracks \subseteq Tracks
    BY <1>2 DEF UiPut, IInv, LockInv, ListInv, TypeOK, TrackTypeOK
  <2>3. Listed' = Listed
    BY <1>2 DEF Listed
  <2>4. \A u \in tracks \ {t} :
           length'[u] = length[u] /\ path'[u] = path[u] /\ outcome'[u] = outcome[u]
    BY <1>4, <2>2 DEF Free, IInv, TypeOK, TrackTypeOK
  <2>5. tracks' = tracks \ {t}
    BY <1>4 DEF Free
  <2> QED BY <1>2, <2>1, <2>2, <2>3, <2>4, <2>5 DEF AudioInv, CompletedIsWhole
<1> QED BY <1>2, <1>3, <1>4

(* A chunk goes from the pipe to memory. *)
LEMMA AudioRead == IInv /\ AudioInv /\ RigRead /\ Others => AudioInv'
<1> SUFFICES ASSUME IInv, AudioInv, RigRead, Others PROVE AudioInv'
  OBVIOUS
<1>1. PICK t \in Tracks : t = Current /\ t \in Listed /\ t \in tracks
  BY CurrentIsListed DEF RigRead
<1>2. /\ pipe[t] > 0 /\ pipe' = [pipe EXCEPT ![t] = @ - 1]
      /\ length' = [length EXCEPT ![t] = @ + 1]
      /\ output' = output /\ proc' = proc /\ path' = path /\ outcome' = outcome
      /\ tracks' = tracks /\ rig' = rig /\ rigPc' = "read"
  BY <1>1 DEF RigRead, ReadChunk, rigVars
<1>3. Listed' = Listed /\ Listed \subseteq Tracks /\ ImporterTypeOK /\ TrackTypeOK
  BY <1>2 DEF Listed, IInv, ListInv, TypeOK, TrackTypeOK
<1>4. \A u \in Tracks : u # t => length'[u] = length[u] /\ pipe'[u] = pipe[u]
  BY <1>2, <1>3 DEF ImporterTypeOK, TrackTypeOK
<1>5. length'[t] + pipe'[t] = length[t] + pipe[t]
  BY <1>2, <1>3 DEF ImporterTypeOK, TrackTypeOK
<1>6. \A u \in Listed : length'[u] + pipe'[u] + output'[u] = Size[path'[u]]
  <2> TAKE u \in Listed
  <2>1. length[u] + pipe[u] + output[u] = Size[path[u]]
    BY DEF AudioInv
  <2>2. length'[u] + pipe'[u] = length[u] + pipe[u]
    BY <1>3, <1>4, <1>5
  <2> QED BY <1>2, <2>1, <2>2
<1>7. CompletedIsWhole'
  <2>1. outcome[t] # "completed"
    BY <1>1 DEF AudioInv
  <2> QED BY <1>2, <1>3, <1>4, <2>1 DEF AudioInv, CompletedIsWhole, TrackTypeOK
<1> QED BY <1>2, <1>3, <1>6, <1>7 DEF AudioInv

(* The descriptor is closed for want of room, or at the end.               *)
LEMMA AudioEnds == IInv /\ AudioInv /\ ~MayFail /\ RigReadEnds /\ Others => AudioInv'
<1> SUFFICES ASSUME IInv, AudioInv, ~MayFail, RigReadEnds, Others PROVE AudioInv'
  OBVIOUS
<1>1. /\ length[Current] >= Capacity \/ (pipe[Current] = 0 /\ proc[Current] # "running")
      /\ tracks' = tracks /\ rig' = rig /\ length' = length /\ pipe' = pipe
      /\ output' = output /\ proc' = proc /\ path' = path /\ outcome' = outcome
      /\ cursor' = cursor
  BY DEF RigReadEnds, NoSpace, EndOfFile, CloseFd, trackVars
<1>2. Listed' = Listed /\ Current' = Current
  BY <1>1 DEF Listed, Current
<1> QED BY <1>1, <1>2 DEF AudioInv, CompletedIsWhole

(* "Completed" is reported of a process that wrote everything, whose pipe  *)
(* is empty.                                                               *)
LEMMA AudioStopImport == IInv /\ AudioInv /\ RigStopImport /\ Others => AudioInv'
<1> SUFFICES ASSUME IInv, AudioInv, RigStopImport, Others PROVE AudioInv'
  OBVIOUS
<1>1. PICK t \in Tracks :
         /\ t = Current /\ t \in Listed /\ t \in tracks
         /\ rig \in Seq(Tracks) /\ cursor \in 1 .. Len(rig) /\ t = rig[cursor]
  BY CurrentIsListed
     DEF RigStopImport, IInv, CursorInv, TypeOK, RigTypeOK, Current
<1>2. Listed' = Listed \ {t}
  BY <1>1, RemoveRange DEF RigStopImport, IInv, ListInv, Listed
<1>3. rigPc = "wait" /\ rigPc' = "handle" /\ StopImport(t)
  BY <1>1 DEF RigStopImport
<1>4. /\ Listed \subseteq Tracks /\ tracks \subseteq Tracks
      /\ ImporterTypeOK /\ TrackTypeOK
  BY DEF IInv, ListInv, TypeOK, TrackTypeOK
<1>5. \A u \in Listed' : /\ proc'[u] = proc[u] /\ output'[u] = output[u]
                         /\ pipe'[u] = pipe[u]
  BY <1>2, <1>3, <1>4 DEF StopImport, Reap, ImporterTypeOK
<1>6. \A u \in tracks \ {t} : /\ length'[u] = length[u] /\ path'[u] = path[u]
                              /\ outcome'[u] = outcome[u]
  BY <1>3, <1>4 DEF StopImport, Free, TrackTypeOK
<1>7. Listed' \subseteq tracks \ {t}
  BY <1>2 DEF IInv, ListInv
<1>8. proc[t] = "ok" => length[t] = Size[path[t]] \/ length[t] >= Capacity
  <2> SUFFICES ASSUME proc[t] = "ok", ~(length[t] >= Capacity)
               PROVE  length[t] = Size[path[t]]
    OBVIOUS
  <2>1. pipe[t] = 0 /\ output[t] = 0
    BY <1>1, <1>3 DEF AudioInv
  <2>2. length[t] + pipe[t] + output[t] = Size[path[t]] /\ length[t] \in Nat
    BY <1>1, <1>4 DEF AudioInv, TrackTypeOK
  <2> QED BY <2>1, <2>2
<1>9. CompletedIsWhole'
  <2> SUFFICES ASSUME NEW u \in tracks', outcome'[u] = "completed"
               PROVE  length'[u] = Size[path'[u]] \/ length'[u] >= Capacity
    BY DEF CompletedIsWhole
  <2>1. CASE u # t
    <3>1. u \in tracks \ {t}
      BY <1>3, <2>1 DEF StopImport, Free
    <3> QED BY <1>6, <3>1 DEF AudioInv, CompletedIsWhole
  <2>2. CASE u = t
    <3>1. /\ outcome' = [outcome EXCEPT ![t] = Report(t)]
          /\ length' = length /\ path' = path
      BY <1>3, <2>2 DEF StopImport, Free
    <3>2. proc[t] = "ok"
      BY <1>1, <1>4, <2>2, <3>1 DEF Report, TrackTypeOK
    <3> QED BY <1>8, <2>2, <3>1, <3>2
  <2> QED BY <2>1, <2>2
<1> QED BY <1>2, <1>3, <1>5, <1>6, <1>7, <1>9 DEF AudioInv

(* A process writes a chunk, or ends. *)
LEMMA AudioImporters ==
    ASSUME NEW t \in Tracks, IInv, AudioInv, Importers(t)
    PROVE  AudioInv'
<1>1. /\ tracks' = tracks /\ rig' = rig /\ length' = length /\ path' = path
      /\ outcome' = outcome /\ rigPc' = rigPc /\ cursor' = cursor
  BY DEF Importers, trackVars, rigVars
<1>2. Listed' = Listed /\ Current' = Current /\ Listed \subseteq Tracks /\ ImporterTypeOK
  BY <1>1 DEF Listed, Current, IInv, ListInv, TypeOK, TrackTypeOK
<1>3. rigPc = "wait" => Current \in Tracks
  BY CurrentIsListed
<1>4. CompletedIsWhole'
  BY <1>1 DEF AudioInv, CompletedIsWhole
<1>5. CASE ImporterWrite(t)
  <2>1. /\ proc' = proc /\ proc[t] = "running" /\ output[t] > 0
        /\ output' = [output EXCEPT ![t] = @ - 1] /\ pipe' = [pipe EXCEPT ![t] = @ + 1]
    BY <1>5 DEF ImporterWrite
  <2>2. \A u \in Tracks : u # t => output'[u] = output[u] /\ pipe'[u] = pipe[u]
    BY <1>2, <2>1 DEF ImporterTypeOK
  <2>3. pipe'[t] = pipe[t] + 1 /\ output'[t] = output[t] - 1
    BY <1>2, <2>1 DEF ImporterTypeOK
  <2>4. \A u \in Listed : length'[u] + pipe'[u] + output'[u] = Size[path'[u]]
    <3> TAKE u \in Listed
    <3>1. length[u] + pipe[u] + output[u] = Size[path[u]]
      BY DEF AudioInv
    <3>2. length[u] \in Nat /\ pipe[u] \in Nat /\ output[u] \in Int
      BY <1>2, PipeAssumption DEF IInv, TypeOK, TrackTypeOK, ImporterTypeOK
    <3>3. CASE u = t
      BY <1>1, <2>3, <3>1, <3>2, <3>3
    <3>4. CASE u # t
      BY <1>1, <1>2, <2>2, <3>1, <3>4
    <3> QED BY <3>3, <3>4
  <2>5. \A u \in Listed : proc'[u] = "ok" => output'[u] = 0
    BY <1>2, <2>1, <2>2 DEF AudioInv
  <2>6. rigPc = "wait" => \/ length'[Current] >= Capacity
                          \/ pipe'[Current] = 0 /\ proc'[Current] # "running"
    BY <1>1, <1>3, <2>1, <2>2 DEF AudioInv
  <2> QED BY <1>1, <1>2, <1>4, <2>4, <2>5, <2>6 DEF AudioInv
<1>6. ASSUME NEW status \in {"ok", "failed"}, Exit(t, status),
             status = "ok" => output[t] = 0
      PROVE  AudioInv'
  <2>1. pipe' = pipe /\ output' = output /\ proc' = [proc EXCEPT ![t] = status]
    BY <1>6 DEF Exit
  <2>2. \A u \in Tracks : proc'[u] = IF u = t THEN status ELSE proc[u]
    BY <1>2, <2>1 DEF ImporterTypeOK
  <2>3. \A u \in Listed : proc'[u] = "ok" => output'[u] = 0
    BY <1>2, <1>6, <2>1, <2>2 DEF AudioInv
  <2>4. rigPc = "wait" => \/ length'[Current] >= Capacity
                          \/ pipe'[Current] = 0 /\ proc'[Current] # "running"
    BY <1>1, <1>3, <2>1, <2>2 DEF AudioInv
  <2> QED BY <1>1, <1>2, <1>4, <2>1, <2>3, <2>4 DEF AudioInv
<1> QED BY <1>5, <1>6
    DEF Importers, ImporterProgress, ImporterFinish, ImporterDie, ImporterFail

(* All other steps. *)
LEMMA AudioElse ==
    ASSUME IInv, AudioInv,
           \/ UiEvent \/ UiLock \/ UiPost \/ UiSwap
           \/ /\ uiPc = "event"
              /\ \/ UiIgnore \/ UiQuit \/ UiStop \/ UiGivesUp
                 \/ \E d \in Decks, p \in Paths : UiLoadAgain(d, p)
                 \/ \E d, from \in Decks : UiClone(d, from)
           \/ /\ Others
              /\ \/ RigRelock \/ RigFill \/ RigPoll \/ RigPollInterrupted
                 \/ RigPollError \/ RigDrain \/ RigLock \/ RigHandle \/ RigReadNothing
           \/ \E d \in Decks : RtCollect(d)
           \/ RtDone
           \/ UNCHANGED vars
    PROVE  AudioInv'
<1>1. /\ tracks' = tracks /\ rig' = rig /\ length' = length /\ pipe' = pipe
      /\ output' = output /\ proc' = proc /\ path' = path /\ outcome' = outcome
  BY DEF UiEvent, UiLock, UiPost, UiSwap, UiIgnore, UiUnlock, UiQuit, UiStop, UiGivesUp,
         UiLoadAgain, UiClone, TrackGet, RigRelock, RigFill, RigPoll, RigPollInterrupted,
         RigPollError, RigDrain, RigLock, RigHandle, RigReadNothing, RtCollect, RtDone,
         vars, trackVars, rigVars, importVars
<1>2. rigPc' = "wait" => rigPc = "wait" /\ cursor' = cursor
  BY DEF UiEvent, UiLock, UiPost, UiSwap, UiIgnore, UiUnlock, UiQuit, UiStop, UiGivesUp,
         UiLoadAgain, UiClone, RigRelock, RigFill, RigPoll, RigPollInterrupted,
         RigPollError, RigDrain, RigLock, RigHandle, RigReadNothing, RtCollect, RtDone,
         vars, rigVars
<1> QED BY <1>1, <1>2, AudioKept

(* Nothing is lost on the way from a process to memory, as long as read    *)
(* and malloc do not fail.                                                 *)
LEMMA AudioInvariance ==
    ASSUME ~MayFail
    PROVE  SafetySpec => []AudioInv
<1>1. Init => AudioInv
  BY DEF Init, RigInit, TrackInit, Listed, Range, AudioInv, CompletedIsWhole
<1>2. IInv /\ AudioInv /\ [Next]_vars => AudioInv'
  <2> SUFFICES ASSUME IInv, AudioInv, [Next]_vars PROVE AudioInv'
    OBVIOUS
  <2>1. CASE Rigs
    BY <2>1, AudioRead, AudioEnds, AudioStopImport, AudioElse DEF Rigs, RigNext, Others
  <2>2. CASE UiHandle
    BY <2>2, AudioLoadNew, AudioElse DEF UiHandle
  <2>3. CASE UiEvent \/ UiLock \/ UiPost \/ UiSwap \/ UiPut
    BY <2>3, AudioPut, AudioElse
  <2>4. CASE (\E d \in Decks : RtCollect(d)) \/ RtDone \/ UNCHANGED vars
    BY <2>4, AudioElse
  <2>5. CASE \E t \in Tracks : Importers(t)
    BY <2>5, AudioImporters
  <2> QED BY <2>1, <2>2, <2>3, <2>4, <2>5 DEF Next
<1> QED BY <1>1, <1>2, Invariance, PTL DEF SafetySpec

(* What the user is told was imported completely is all in memory, unless  *)
(* it is longer than memory allows: nothing is left in the pipe when an    *)
(* import ends well (with no failure of malloc, mlock or read: then        *)
(* read_from_pipe gives up, and a process that ended well is still         *)
(* reported as completed).                                                 *)
THEOREM CompletedAreWhole ==
    ASSUME ~MayFail
    PROVE  SafetySpec => []CompletedIsWhole
<1>1. AudioInv => CompletedIsWhole
  BY DEF AudioInv
<1> QED BY AudioInvariance, <1>1, PTL

-----------------------------------------------------------------------------
(* Refinement.  Loading implements SharedTracks: the reference counts of   *)
(* track.c keep the promise that nothing but who uses what decides when a  *)
(* track is freed and when its import is told to stop.  And Display        *)
(* implements Loading: with the events of SDL, the timer and the status    *)
(* line around it, the interface does nothing to tracks that Loading does  *)
(* not.                                                                    *)

Cancelled == {t \in tracks : terminated[t]}

-----------------------------------------------------------------------------
(* What the users of tracks use, in a state that can be reached.           *)

(* The interface thread uses the track it is loading or about to put. *)
LEMMA UsesInterface ==
    ASSUME IInv
    PROVE  Uses["interface"] = IF uiPc \in {"swap", "put"} THEN {uiTrack} \ {Empty} ELSE {}
<1>1. uiPc \in {"swap", "put"} => uiTrack \in Tracks \union {Empty}
  BY DEF IInv, UiInv, TypeOK, TrackTypeOK
<1>2. Uses["interface"] = {t \in Tracks : UiHolds(t)} \ {Empty}
  BY DEF Uses
<1> QED BY <1>1, <1>2, TrackAssumption DEF UiHolds

(* The rig uses what is in its list. *)
LEMMA UsesRig ==
    ASSUME IInv
    PROVE  Uses["rig"] = Listed /\ Listed \subseteq Tracks
<1>1. Listed \subseteq Tracks
  BY DEF IInv, ListInv, TypeOK, TrackTypeOK
<1>2. Uses["rig"] = Listed \ {Empty}
  BY DEF Uses
<1> QED BY <1>1, <1>2, TrackAssumption

(* A deck uses the track it plays. *)
LEMMA UsesDeck ==
    ASSUME NEW d \in Decks
    PROVE  Uses[d] = {deck[d]} \ {Empty}
BY DecksAssumption DEF Uses

(* Who uses a track, by kind. *)
LEMMA Users ==
    ASSUME IInv, NEW t \in tracks
    PROVE  /\ "interface" \in Shared!UsedBy(t) <=> UiHolds(t)
           /\ "rig" \in Shared!UsedBy(t) <=> t \in Listed
           /\ \A d \in Decks : d \in Shared!UsedBy(t) <=> deck[d] = t
           /\ Shared!UsedBy(t) \subseteq Decks \union {"rig", "interface"}
<1>1. t \in Tracks /\ t # Empty
  BY TrackAssumption DEF IInv, TypeOK, TrackTypeOK
<1>2. Shared!UsedBy(t) = {u \in Decks \union {"rig", "interface"} : t \in Uses[u]}
  BY DEF Shared!UsedBy, Shared!Users
<1>3. t \in Uses["interface"] <=> UiHolds(t)
  BY <1>1, UsesInterface DEF UiHolds
<1>4. t \in Uses["rig"] <=> t \in Listed
  BY UsesRig
<1>5. \A d \in Decks : t \in Uses[d] <=> deck[d] = t
  BY <1>1, UsesDeck
<1> QED BY <1>2, <1>3, <1>4, <1>5

(* A track counts no deck exactly if no deck plays it. *)
LEMMA NoHolder ==
    ASSUME NEW t
    PROVE  Cardinality(Holders(t)) = 0 <=> \A d \in Decks : deck[d] # t
<1>1. ASSUME NEW d \in Decks, deck[d] = t PROVE Cardinality(Holders(t)) > 0
  BY <1>1, SomeHolder
<1> QED BY <1>1, HoldersFinite, NoHolders

(* The counts tell who is left when the interface thread puts a track.     *)
LEMMA LeftByInterface ==
    ASSUME IInv, NEW t \in tracks, UiHolds(t)
    PROVE  /\ Shared!UsedBy(t) \ {"interface"} = {} <=> refcount[t] = 1
           /\ Shared!UsedBy(t) \ {"interface"} = {"rig"} <=> LastButRig(t)
<1>1. t # Empty
  BY TrackAssumption DEF IInv, TypeOK, TrackTypeOK
<1>2. Cardinality(Holders(t)) \in Nat
  BY HoldersFinite
<1>3. refcount[t] = Cardinality(Holders(t)) + One(t \in Listed) + 1
  <2>1. refcount[t] = Cardinality(Holders(t)) + One(t \in Listed)
                        + One(UiHolds(t)) + One(t = Empty)
    BY DEF IInv, RefcountExact
  <2> QED BY <1>1, <1>2, <2>1 DEF One
<1>4. Cardinality(Holders(t)) = 0 <=> \A d \in Decks : deck[d] # t
  BY NoHolder
<1>5. pid[t] <=> t \in Listed
  BY DEF IInv, ListInv
<1>6. LastButRig(t) <=> Cardinality(Holders(t)) = 0 /\ t \in Listed
  BY <1>3, <1>2, <1>5 DEF LastButRig, One, IInv, TypeOK, TrackTypeOK
<1>7. refcount[t] = 1 <=> Cardinality(Holders(t)) = 0 /\ t \notin Listed
  BY <1>3, <1>2 DEF One
<1> QED BY <1>4, <1>6, <1>7, Users, DecksAssumption

(* They tell who is left when an import has ended. *)
LEMMA LeftByRig ==
    ASSUME IInv, NEW t \in tracks, t \in Listed
    PROVE  Shared!UsedBy(t) \ {"rig"} = {} <=> refcount[t] = 1
<1>1. t # Empty
  BY TrackAssumption DEF IInv, TypeOK, TrackTypeOK
<1>2. Cardinality(Holders(t)) \in Nat
  BY HoldersFinite
<1>3. refcount[t] = Cardinality(Holders(t)) + 1 + One(UiHolds(t))
  <2>1. refcount[t] = Cardinality(Holders(t)) + One(t \in Listed)
                        + One(UiHolds(t)) + One(t = Empty)
    BY DEF IInv, RefcountExact
  <2> QED BY <1>1, <1>2, <2>1 DEF One
<1>4. Cardinality(Holders(t)) = 0 <=> \A d \in Decks : deck[d] # t
  BY NoHolder
<1>5. refcount[t] = 1 <=> Cardinality(Holders(t)) = 0 /\ ~UiHolds(t)
  BY <1>3, <1>2 DEF One
<1> QED BY <1>4, <1>5, Users, DecksAssumption

(* A step that changes neither references nor objects is no step.          *)
LEMMA SharedStutter ==
    ASSUME rig' = rig, deck' = deck, tracks' = tracks, terminated' = terminated,
           \A t \in Tracks : UiHolds(t)' <=> UiHolds(t)
    PROVE  UNCHANGED <<Uses, tracks, Cancelled>>
<1>1. Listed' = Listed
  BY DEF Listed
<1> QED BY <1>1 DEF Uses, Cancelled

-----------------------------------------------------------------------------
(* Step by step. *)

(* At first nobody uses anything. *)
LEMMA SharedInitially == Init => Shared!Init
<1> SUFFICES ASSUME Init PROVE Shared!Init
  OBVIOUS
<1>1. Listed = {} /\ tracks = {} /\ \A d \in Decks : deck[d] = Empty
  BY DEF Init, RigInit, TrackInit, Listed, Range
<1>2. \A t \in Tracks : ~UiHolds(t)
  BY DEF Init, UiHolds
<1>3. \A u \in Decks \union {"rig", "interface"} : Uses[u] = {}
  BY <1>1, <1>2 DEF Uses
<1>4. Uses = [u \in Decks \union {"rig", "interface"} |-> {}]
  BY <1>3 DEF Uses
<1> QED BY <1>1, <1>4 DEF Shared!Init, Shared!Users

(* track_init starts an import, which only the rig refers to yet.          *)
LEMMA SharedLoadNew ==
    ASSUME IInv, uiPc = "event", NEW d \in Decks, NEW p \in Paths, UiLoadNew(d, p)
    PROVE  Shared!Next
<1>1. PICK t \in Tracks : TrackNew(t, p) /\ ListTrack(t) /\ uiTrack' = t
  BY DEF UiLoadNew
<1>2. t \notin tracks /\ t # Empty /\ tracks' = tracks \union {t} /\ rig \in Seq(Tracks)
  BY <1>1, TrackAssumption DEF TrackNew, IInv, TypeOK, RigTypeOK
<1>3. Listed' = Listed \union {t}
  BY <1>1, <1>2, PrependRange DEF ListTrack, Listed
<1>4. \A u \in Tracks : ~UiHolds(u) /\ ~UiHolds(u)'
  BY DEF UiHolds, UiLoadNew
<1>5. Uses' = [Uses EXCEPT !["rig"] = @ \union {t}]
  BY <1>2, <1>3, <1>4, DecksAssumption DEF Uses, UiLoadNew
<1>6. Cancelled' = Cancelled
  BY <1>1, <1>2 DEF Cancelled, TrackNew, IInv, TypeOK, TrackTypeOK
<1>7. Shared!Start(t)
  BY <1>2, <1>5, <1>6 DEF Shared!Start, Cancelled
<1> QED BY <1>7 DEF Shared!Next

(* track_get for the interface thread, which held nothing. *)
LEMMA SharedTaken ==
    ASSUME IInv, NEW t \in tracks \union {Empty}, uiPc \in {"event", "post"},
           uiPc' = "swap", uiTrack' = t, rig' = rig, deck' = deck, TrackGet(t)
    PROVE  Shared!Next \/ UNCHANGED <<Uses, tracks, Cancelled>>
<1>1. Listed' = Listed /\ tracks' = tracks /\ Cancelled' = Cancelled
  BY DEF Listed, TrackGet, Cancelled
<1>2. \A u \in Tracks : ~UiHolds(u) /\ (UiHolds(u)' <=> u = t)
  BY DEF UiHolds
<1>3. tracks \subseteq Tracks
  BY DEF IInv, TypeOK, TrackTypeOK
<1>4. CASE t = Empty
  <2>1. \A u \in Tracks : UiHolds(u)' <=> UiHolds(u)
    BY <1>2, <1>4, TrackAssumption
  <2> QED BY <2>1, SharedStutter DEF TrackGet
<1>5. CASE t # Empty
  <2>1. Uses' = [Uses EXCEPT !["interface"] = {t}]
    BY <1>1, <1>2, <1>3, <1>5, DecksAssumption DEF Uses
  <2>2. Shared!Take(t)
    BY <1>1, <1>5, <2>1 DEF Shared!Take, Cancelled
  <2> QED BY <1>3, <1>5, <2>2 DEF Shared!Next
<1> QED BY <1>4, <1>5

(* The exchange of tracks between a player and the interface thread.       *)
LEMMA SharedSwap ==
    ASSUME IInv, UiSwap
    PROVE  Shared!Next
<1>1. uiDeck \in Decks /\ uiTrack \in tracks \union {Empty} /\ deck[uiDeck] \in tracks \union {Empty}
  BY DEF IInv, UiInv, DeckInv, UiSwap
<1>2. /\ deck' = [deck EXCEPT ![uiDeck] = uiTrack] /\ uiTrack' = deck[uiDeck]
      /\ uiPc = "swap" /\ uiPc' = "put" /\ rig' = rig /\ tracks' = tracks
      /\ terminated' = terminated
  BY DEF UiSwap, trackVars, rigVars
<1>3. tracks \subseteq Tracks /\ deck \in [Decks -> Objects]
  BY DEF IInv, TypeOK, TrackTypeOK
<1>4. Uses["interface"] = {uiTrack} \ {Empty}
  BY <1>2, UsesInterface
<1>5. Uses[uiDeck] = {deck[uiDeck]} \ {Empty}
  BY <1>1, UsesDeck
<1>6. {t \in Tracks : UiHolds(t)'} \ {Empty} = {deck[uiDeck]} \ {Empty}
  BY <1>1, <1>2, <1>3 DEF UiHolds
<1>7. Listed' = Listed
  BY <1>2 DEF Listed
<1>8. Uses' = [Uses EXCEPT ![uiDeck] = Uses["interface"], !["interface"] = Uses[uiDeck]]
  BY <1>1, <1>2, <1>3, <1>4, <1>5, <1>6, <1>7, DecksAssumption DEF Uses
<1>9. Shared!Exchange(uiDeck)
  BY <1>2, <1>8 DEF Shared!Exchange
<1> QED BY <1>1, <1>9 DEF Shared!Next

(* track_put by the interface thread. *)
LEMMA SharedPut ==
    ASSUME IInv, UiPut
    PROVE  Shared!Next \/ UNCHANGED <<Uses, tracks, Cancelled>>
<1>1. PICK t \in tracks \union {Empty} : t = uiTrack /\ UiHolds(t)
  BY DEF IInv, UiInv, UiPut, UiHolds
<1>2. /\ uiPc = "put" /\ uiPc' = "idle" /\ rig' = rig /\ deck' = deck
      /\ TrackPut(t)
  BY <1>1 DEF UiPut, UiUnlock
<1>3. tracks \subseteq Tracks /\ terminated \in [Tracks -> BOOLEAN]
  BY DEF IInv, TypeOK, TrackTypeOK
<1>4. \A u \in Tracks : ~UiHolds(u)' /\ (UiHolds(u) <=> u = t)
  BY <1>1, <1>2 DEF UiHolds
<1>5. Listed' = Listed
  BY <1>2 DEF Listed
<1>6. CASE t = Empty
  <2>1. ~LastButRig(t) /\ refcount[t] # 1
    BY <1>1, <1>6, CountIsPositive, TrackAssumption DEF LastButRig
  <2>2. tracks' = tracks /\ terminated' = terminated
    BY <1>2, <2>1 DEF TrackPut
  <2>3. \A u \in Tracks : UiHolds(u)' <=> UiHolds(u)
    BY <1>4, <1>6, TrackAssumption
  <2> QED BY <1>2, <2>2, <2>3, SharedStutter
<1>7. CASE t # Empty
  <2> DEFINE left == Shared!UsedBy(t) \ {"interface"}
  <2>1. t \in tracks /\ t \in Tracks
    BY <1>1, <1>3, <1>7
  <2>2. /\ left = {} <=> refcount[t] = 1
        /\ left = {"rig"} <=> LastButRig(t)
    BY <1>1, <2>1, LeftByInterface
  <2>3. t \in Uses["interface"]
    BY <1>1, <2>1, <1>7, UsesInterface DEF UiHolds
  <2>4. Uses' = [Uses EXCEPT !["interface"] = @ \ {t}]
    BY <1>2, <1>4, <1>5, <2>1, DecksAssumption DEF Uses
  <2> HIDE DEF left
  <2>5. /\ tracks' = IF left = {} THEN tracks \ {t} ELSE tracks
        /\ Cancelled' = IF left = {} THEN Cancelled \ {t}
                        ELSE IF left = {"rig"} THEN Cancelled \union {t}
                        ELSE Cancelled
    <3>1. CASE left = {}
      BY <1>2, <1>3, <2>1, <2>2, <3>1 DEF TrackPut, Free, Cancelled
    <3>2. CASE left = {"rig"}
      BY <1>2, <1>3, <2>1, <2>2, <3>2 DEF TrackPut, Cancelled
    <3>3. CASE left # {} /\ left # {"rig"}
      BY <1>2, <1>3, <2>1, <2>2, <3>3 DEF TrackPut, Cancelled
    <3> QED BY <3>1, <3>2, <3>3
  <2>6. Shared!Release("interface", t)
    BY <2>3, <2>4, <2>5 DEF Shared!Release, left, Cancelled
  <2> QED BY <2>1, <2>6 DEF Shared!Next
<1> QED BY <1>6, <1>7

(* The rig's reference goes when the import has ended. *)
LEMMA SharedStopImport ==
    ASSUME IInv, RigStopImport, Others
    PROVE  Shared!Next
<1>1. PICK t \in Tracks :
         /\ t = Current /\ t \in Listed /\ t \in tracks
         /\ rig \in Seq(Tracks) /\ cursor \in 1 .. Len(rig) /\ t = rig[cursor]
  BY CurrentIsListed
     DEF RigStopImport, IInv, CursorInv, TypeOK, RigTypeOK, Current
<1>2. Listed' = Listed \ {t}
  BY <1>1, RemoveRange DEF RigStopImport, IInv, ListInv, Listed
<1>3. StopImport(t) /\ deck' = deck /\ uiPc' = uiPc /\ uiTrack' = uiTrack
  BY <1>1 DEF RigStopImport, Others, uiVars
<1>4. \A u \in Tracks : UiHolds(u)' <=> UiHolds(u)
  BY <1>3 DEF UiHolds
<1>5. Shared!UsedBy(t) \ {"rig"} = {} <=> refcount[t] = 1
  BY <1>1, LeftByRig
<1>6. t \in Uses["rig"]
  BY <1>1, UsesRig
<1>7. Uses' = [Uses EXCEPT !["rig"] = @ \ {t}]
  BY <1>2, <1>3, <1>4, DecksAssumption DEF Uses
<1>8. /\ tracks' = IF refcount[t] = 1 THEN tracks \ {t} ELSE tracks
      /\ Cancelled' = IF refcount[t] = 1 THEN Cancelled \ {t} ELSE Cancelled
  <2>1. CASE refcount[t] = 1
    BY <1>1, <1>3, <2>1 DEF StopImport, Free, Cancelled, IInv, TypeOK, TrackTypeOK
  <2>2. CASE refcount[t] # 1
    BY <1>3, <2>2 DEF StopImport, Cancelled
  <2> QED BY <2>1, <2>2
<1>9. Shared!Release("rig", t)
  BY <1>5, <1>6, <1>7, <1>8 DEF Shared!Release, Cancelled
<1> QED BY <1>1, <1>9 DEF Shared!Next

(* A step of the rig thread but the end of an import. *)
LEMMA SharedRig ==
    ASSUME IInv, RigNext, Others, ~RigStopImport
    PROVE  UNCHANGED <<Uses, tracks, Cancelled>>
<1>1. rig' = rig /\ tracks' = tracks /\ terminated' = terminated
  BY DEF RigNext, RigRelock, RigFill, RigPoll, RigPollInterrupted, RigPollError,
         RigDrain, RigLock, RigHandle, RigRead, RigReadNothing, RigReadEnds,
         ReadChunk, CloseFd, trackVars, rigVars
<1>2. deck' = deck /\ \A t \in Tracks : UiHolds(t)' <=> UiHolds(t)
  BY DEF Others, uiVars, UiHolds
<1> QED BY <1>1, <1>2, SharedStutter

(* A step of the interface thread that touches no reference. *)
LEMMA SharedUi ==
    ASSUME IInv,
           \/ UiEvent \/ UiLock
           \/ uiPc = "event" /\ (UiIgnore \/ UiQuit \/ UiStop \/ UiGivesUp)
    PROVE  UNCHANGED <<Uses, tracks, Cancelled>>
<1>1. rig' = rig /\ tracks' = tracks /\ terminated' = terminated /\ deck' = deck
  BY DEF UiEvent, UiLock, UiIgnore, UiUnlock, UiQuit, UiStop, UiGivesUp,
         trackVars, rigVars
<1>2. \A t \in Tracks : UiHolds(t)' <=> UiHolds(t)
  BY DEF UiEvent, UiLock, UiIgnore, UiUnlock, UiQuit, UiStop, UiGivesUp, UiHolds
<1> QED BY <1>1, <1>2, SharedStutter

(* A step of the realtime thread, of a process, or none. *)
LEMMA SharedOthers ==
    ASSUME \/ \E d \in Decks : RtCollect(d)
           \/ RtDone
           \/ \E t \in Tracks : Importers(t)
           \/ UNCHANGED vars
    PROVE  UNCHANGED <<Uses, tracks, Cancelled>>
<1>1. /\ rig' = rig /\ tracks' = tracks /\ terminated' = terminated /\ deck' = deck
      /\ uiPc' = uiPc /\ uiTrack' = uiTrack
  BY DEF RtCollect, RtDone, Importers, vars, trackVars, rigVars, uiVars
<1> QED BY <1>1, SharedStutter DEF UiHolds

(* A track is freed in the step that ends its last use and in no other,    *)
(* and its import cancelled in the step that leaves the rig its only user: *)
(* track_put's tests of the counts decide exactly that.                    *)
THEOREM CountsDoShare == SafetySpec => CountsShare
<1>1. Init => Shared!Init
  BY SharedInitially
<1>2. IInv /\ [Next]_vars => [Shared!Next]_<<Uses, tracks, Cancelled>>
  <2> SUFFICES ASSUME IInv, [Next]_vars
               PROVE  Shared!Next \/ UNCHANGED <<Uses, tracks, Cancelled>>
    OBVIOUS
  <2>1. CASE Rigs
    <3>1. RigNext /\ Others
      BY <2>1 DEF Rigs, Others
    <3> QED BY <3>1, SharedRig, SharedStopImport
  <2>2. CASE UiHandle
    <3>1. ASSUME NEW d \in Decks, NEW p \in Paths, uiPc = "event", UiLoadAgain(d, p)
          PROVE  Shared!Next \/ UNCHANGED <<Uses, tracks, Cancelled>>
      <4>1. PICK t \in Tracks : Found(t, p) /\ TrackGet(t) /\ uiTrack' = t
        BY <3>1 DEF UiLoadAgain
      <4> QED BY <3>1, <4>1, SharedTaken DEF UiLoadAgain, Found, rigVars
    <3>2. ASSUME NEW d \in Decks, NEW from \in Decks, uiPc = "event", UiClone(d, from)
          PROVE  Shared!Next \/ UNCHANGED <<Uses, tracks, Cancelled>>
      <4>1. deck[from] \in tracks \union {Empty}
        BY DEF IInv, DeckInv
      <4> QED BY <3>2, <4>1, SharedTaken DEF UiClone, rigVars
    <3> QED BY <2>2, <3>1, <3>2, SharedUi, SharedLoadNew DEF UiHandle
  <2>3. CASE UiPost
    <3>1. uiTrack \in tracks
      BY <2>3 DEF IInv, UiInv, ListInv, UiPost
    <3> QED BY <2>3, <3>1, SharedTaken DEF UiPost
  <2>4. CASE UiEvent \/ UiLock \/ UiSwap \/ UiPut
    BY <2>4, SharedUi, SharedSwap, SharedPut
  <2>5. CASE (\E d \in Decks : RtCollect(d)) \/ RtDone \/ (\E t \in Tracks : Importers(t))
             \/ UNCHANGED vars
    BY <2>5, SharedOthers
  <2> QED BY <2>1, <2>2, <2>3, <2>4, <2>5 DEF Next
<1>3. [Shared!Next]_<<Uses, tracks, Cancelled>>
        <=> [Shared!Next]_(Shared!svars)
  BY DEF Shared!svars, Cancelled
<1> QED BY Invariance, <1>1, <1>2, <1>3, PTL DEF SafetySpec, CountsShare, Shared!Spec

-----------------------------------------------------------------------------
(* Display implements Loading.                                             *)

(* Each event of the interface is one of those that Loading has.           *)
LEMMA EventsAreHandled ==
    ASSUME Handle \/ GiveUp
    PROVE  UiHandle
<1>1. uiPc = "event"
  BY DEF Handle, GiveUp, Tick, Status, Resize, Key, Load, Close, Finish, At
<1>2. CASE Tick \/ Status \/ Resize \/ Key
  <2>1. UiIgnore
    BY <1>2 DEF Tick, Status, Resize, Key
  <2> QED BY <1>1, <2>1 DEF UiHandle
<1>3. CASE Load
  BY <1>1, <1>3 DEF Load, UiHandle
<1>4. CASE Close
  BY <1>1, <1>4 DEF Close, UiHandle
<1>5. CASE Finish \/ GiveUp
  BY <1>1, <1>5 DEF Finish, GiveUp, UiHandle
<1> QED BY <1>2, <1>3, <1>4, <1>5 DEF Handle

(* What SDL, the timer, the user and main do leaves the tracks alone, and  *)
(* the event loop of the interface (interface.c:1491) handles, loads and   *)
(* puts as in Loading: what is proved of Loading holds of the program with *)
(* its events.                                                             *)
THEOREM DisplayDoesLoad == DisplaySpec => SafetySpec
<1>1. DisplayInit => Init
  BY DEF DisplayInit
<1>2. [DisplayNext]_dvars => [Next]_vars
  <2> SUFFICES ASSUME [DisplayNext]_dvars PROVE Next \/ UNCHANGED vars
    OBVIOUS
  <2>1. CASE Ticker \/ User \/ InterfaceStop \/ UNCHANGED dvars
    BY <2>1 DEF Ticker, User, InterfaceStop, dvars
  <2>2. CASE Wait
    BY <2>2 DEF Wait, Next
  <2>3. CASE Handle \/ GiveUp
    BY <2>3, EventsAreHandled DEF Next
  <2>4. CASE Loads \/ Loaded
    BY <2>4 DEF Loads, Loaded, Next
  <2>5. CASE RigAlerts \/ RigWorks
    BY <2>5 DEF RigAlerts, RigWorks, Next
  <2>6. CASE Import
    BY <2>6 DEF Import, Next
  <2> QED BY <2>1, <2>2, <2>3, <2>4, <2>5, <2>6 DEF DisplayNext
<1> QED BY <1>1, <1>2, PTL DEF DisplaySpec, SafetySpec

(* So while keys, clicks and the timer compete for SDL's queue, counts     *)
(* stay exact, nothing dangles and no assertion of track.c and player.c    *)
(* fails (interface.c:1491-1666).                                          *)
THEOREM DisplayIsSafe ==
    DisplaySpec => [](RefcountExact /\ NoDangling /\ ImportingIffListed)
<1>1. DisplaySpec => []RefcountExact /\ []NoDangling /\ []ImportingIffListed
  BY DisplayDoesLoad, CountsAreExact, NothingDangles, ImportsAreListed, PTL
<1> QED BY <1>1, PTL
=============================================================================
