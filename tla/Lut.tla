-------------------------------- MODULE Lut ---------------------------------
(***************************************************************************)
(* lut.c: the hash table that takes a timecode to its position.  A lookup  *)
(* walks a chain of slots, one slot at a step.  A timecode is the set of   *)
(* its 1 bits, as in Lfsr.                                                 *)
(***************************************************************************)
EXTENDS Integers

CONSTANTS
    Codes,      \* the timecodes
    HASH_BITS,
    nslots      \* the slots allocated

ASSUME LutAssumption == HASH_BITS \in Nat /\ nslots \in Nat

HASH(timecode) == timecode \intersect (0 .. HASH_BITS - 1)
Hashes == SUBSET (0 .. HASH_BITS - 1)

NO_SLOT == -1
Slots == 0 .. nslots - 1

VARIABLES
    slot,       \* the slots in use, numbered from 0
    table,      \* the head of the chain of each hash
    avail,
    lookup      \* the lookup: where it is on the chain, what it looks for

lut_vars == <<slot, table, avail, lookup>>

Idle == [at |-> "idle"]
Lookup(at, code, n) == [at |-> at, timecode |-> code, slot_no |-> n]

LutTypeOK ==
    /\ avail \in 0 .. nslots
    /\ slot \in [0 .. avail - 1 ->
                    [timecode : Codes, next : Slots \union {NO_SLOT}]]
    /\ table \in [Hashes -> Slots \union {NO_SLOT}]
    /\ lookup = Idle \/ lookup \in [at : {"walk", "found"}, timecode : Codes,
                                    slot_no : Slots \union {NO_SLOT}]

lut_init ==
    /\ slot = [s \in {} |-> NO_SLOT]
    /\ table = [h \in Hashes |-> NO_SLOT]
    /\ avail = 0
    /\ lookup = Idle

(* Mutant: the head of the chain is set before it is read. *)
lut_push_LinkedToItself(timecode) ==
    /\ lookup.at # "walk"
    /\ avail < nslots
    /\ avail' = avail + 1
    /\ slot' = [s \in 0 .. avail |->
                    IF s = avail THEN [timecode |-> timecode, next |-> avail]
                                 ELSE slot[s]]
    /\ table' = [table EXCEPT ![HASH(timecode)] = avail]
    /\ lookup' = Idle

(* timecoder.c:195 pushes as many codes as it asked slots for. *)
lut_push(timecode) ==
    /\ lookup.at # "walk"
    /\ avail < nslots
    /\ avail' = avail + 1
    /\ slot' = [s \in 0 .. avail |->
                    IF s = avail THEN [timecode |-> timecode,
                                       next |-> table[HASH(timecode)]]
                                 ELSE slot[s]]
    /\ table' = [table EXCEPT ![HASH(timecode)] = avail]
    /\ lookup' = Idle

lut_lookup(timecode) ==
    /\ lookup.at # "walk"
    /\ lookup' = Lookup("walk", timecode, table[HASH(timecode)])
    /\ UNCHANGED <<slot, table, avail>>

Holders(c) == {s \in 0 .. avail - 1 : slot[s].timecode = c}

(* A slot that matches, or the end of the chain. *)
Hit == lookup.slot_no \in Holders(lookup.timecode) \union {NO_SLOT}

Return ==
    /\ lookup.at = "walk"
    /\ Hit
    /\ lookup' = [lookup EXCEPT !.at = "found"]
    /\ UNCHANGED <<slot, table, avail>>

Walk ==
    /\ lookup.at = "walk"
    /\ ~Hit
    /\ lookup' = [lookup EXCEPT !.slot_no = slot[lookup.slot_no].next]
    /\ UNCHANGED <<slot, table, avail>>

LutNext ==
    \/ \E c \in Codes : lut_push(c) \/ lut_lookup(c)
    \/ Return
    \/ Walk

LutSpec == lut_init /\ [][LutNext]_lut_vars

-----------------------------------------------------------------------------
(* What a lookup promises, whatever collides: the slot that was given to   *)
(* the code last, and none if the code was never pushed.                   *)
FindsTheLast ==
    lookup.at = "found" =>
        IF Holders(lookup.timecode) = {} THEN lookup.slot_no = NO_SLOT
        ELSE /\ lookup.slot_no \in Holders(lookup.timecode)
             /\ \A s \in Holders(lookup.timecode) : s <= lookup.slot_no

(* The chains have no cycle, so that every lookup comes to an end: a slot   *)
(* is chained to one that was given out before it, or is the end.          *)
ChainsEnd == \A s \in DOMAIN slot : slot[s].next \in {NO_SLOT} \union 0 .. s - 1

-----------------------------------------------------------------------------
(* Why it is so: the slots of a hash are chained from the last to the      *)
(* first, and none is left out.                                            *)
SameHash(h, n) == {s \in 0 .. n - 1 : HASH(slot[s].timecode) = h}

IsLast(x, S) == IF S = {} THEN x = NO_SLOT
                ELSE x \in S /\ \A s \in S : s <= x

Chained ==
    /\ \A h \in Hashes : IsLast(table[h], SameHash(h, avail))
    /\ \A s \in 0 .. avail - 1 :
        IsLast(slot[s].next, SameHash(HASH(slot[s].timecode), s))

OnTheWay ==
    lookup.at # "idle" =>
        /\ \/ lookup.slot_no = NO_SLOT
           \/ lookup.slot_no \in SameHash(HASH(lookup.timecode), avail)
        /\ \A s \in Holders(lookup.timecode) : s <= lookup.slot_no
        /\ lookup.at = "found" => Hit

IInv == LutTypeOK /\ Chained /\ OnTheWay
=============================================================================
