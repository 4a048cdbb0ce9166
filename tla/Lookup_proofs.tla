--------------------------- MODULE Lookup_proofs ----------------------------
(***************************************************************************)
(* Proofs about the hash table (Lut) and the tables of positions built     *)
(* from it (Lookup), for every definition and any size of the table and    *)
(* its hash.                                                               *)
(***************************************************************************)
EXTENDS Lookup, Lfsr_proofs

-----------------------------------------------------------------------------
(* The hash table, alone.                                                  *)

(* A code hashes into the table.                                           *)
LEMMA HashRange == \A c : HASH(c) \in Hashes
BY DEF HASH, Hashes

(* The empty table.                                                        *)
LEMMA InitInv == lut_init => IInv
BY LutAssumption DEF lut_init, IInv, LutTypeOK, Chained, OnTheWay, SameHash,
                     IsLast, Idle, Slots, NO_SLOT

(* A slot pushed goes in front of its chain, and leaves the others.        *)
LEMMA PushStep ==
    ASSUME IInv, NEW c \in Codes, lut_push(c)
    PROVE  IInv'
<1> USE LutAssumption DEF IInv, LutTypeOK
<1> DEFINE h == HASH(c)
<1>1. h \in Hashes
  BY HashRange
<1>2. /\ avail \in Nat /\ avail \in Slots /\ avail' = avail + 1
      /\ \A s \in 0 .. avail - 1 : slot'[s] = slot[s]
      /\ slot'[avail] = [timecode |-> c, next |-> table[h]]
      /\ table' = [table EXCEPT ![h] = avail]
      /\ lookup' = Idle
  BY DEF lut_push, Slots
<1>3. LutTypeOK'
  <2>1. slot' \in [0 .. avail' - 1 ->
                     [timecode : Codes, next : Slots \union {NO_SLOT}]]
    BY <1>1, <1>2 DEF lut_push
  <2>2. avail' \in 0 .. nslots
    BY DEF lut_push
  <2>3. table' \in [Hashes -> Slots \union {NO_SLOT}]
    BY <1>1, <1>2
  <2> QED BY <2>1, <2>2, <2>3, <1>2
<1>4. \A g \in Hashes, m \in 0 .. avail :
          SameHash(g, m)' = SameHash(g, m)
  BY <1>2 DEF SameHash
<1>5. \A g \in Hashes :
          SameHash(g, avail)' =
              SameHash(g, avail) \union (IF g = h THEN {avail} ELSE {})
  <2> TAKE g \in Hashes
  <2>1. \A s \in 0 .. avail - 1 :
            s \in SameHash(g, avail)' <=> s \in SameHash(g, avail)
    BY <1>2 DEF SameHash
  <2>2. avail \in SameHash(g, avail)' <=> g = h
    BY <1>2 DEF SameHash
  <2>3. /\ SameHash(g, avail)' \subseteq 0 .. avail
        /\ SameHash(g, avail) \subseteq 0 .. avail - 1
    BY <1>2 DEF SameHash
  <2> HIDE DEF h
  <2> QED BY <1>2, <2>1, <2>2, <2>3
<1>6. \A g \in Hashes : IsLast(table[g], SameHash(g, avail))
  BY DEF Chained
<1>7. Chained'
  <2> DEFINE Head(g) == IsLast(table[g], SameHash(g, avail))
             Linked(s) == IsLast(slot[s].next, SameHash(HASH(slot[s].timecode), s))
  <2>1. ASSUME NEW g \in Hashes PROVE Head(g)'
    <3>1. SameHash(g, avail) \subseteq 0 .. avail - 1
      BY <1>2 DEF SameHash
    <3>2. table'[g] = IF g = h THEN avail ELSE table[g]
      BY <1>1, <1>2
    <3>3. CASE g = h
      <4>1. SameHash(g, avail)' = SameHash(g, avail) \union {avail}
        BY <1>5, <3>3
      <4>2. table'[g] = avail
        BY <3>2, <3>3
      <4>3. \A s \in SameHash(g, avail)' : s <= avail
        BY <1>2, <3>1, <4>1
      <4> QED BY <4>1, <4>2, <4>3 DEF IsLast
    <3>4. CASE g # h
      <4>1. SameHash(g, avail)' = SameHash(g, avail) /\ table'[g] = table[g]
        BY <1>5, <3>2, <3>4
      <4> QED BY <1>6, <4>1 DEF IsLast
    <3> QED BY <3>3, <3>4
  <2>2. ASSUME NEW s \in 0 .. avail PROVE Linked(s)'
    <3>1. CASE s = avail
      <4>1. slot'[s].next = table[h] /\ slot'[s].timecode = c
        BY <1>2, <3>1
      <4>2. SameHash(h, s)' = SameHash(h, s)
        BY <1>1, <1>2, <1>4, <3>1
      <4>3. SameHash(HASH(slot[s].timecode), s)' = SameHash(h, avail)
        BY <3>1, <4>1, <4>2 DEF SameHash, HASH
      <4> QED BY <1>1, <1>6, <4>1, <4>3 DEF IsLast
    <3>2. CASE s \in 0 .. avail - 1
      <4>1. slot'[s] = slot[s]
        BY <1>2, <3>2
      <4>2. SameHash(HASH(slot[s].timecode), s)' = SameHash(HASH(slot[s].timecode), s)
        BY <1>2, <3>2 DEF SameHash, HASH
      <4>3. Linked(s)
        BY <3>2 DEF Chained
      <4> QED BY <4>1, <4>2, <4>3 DEF IsLast
    <3> QED BY <1>2, <3>1, <3>2
  <2> QED BY <1>2, <2>1, <2>2 DEF Chained
<1>8. OnTheWay'
  BY <1>2 DEF OnTheWay, Idle
<1> HIDE DEF LutTypeOK
<1> QED BY <1>3, <1>7, <1>8

(* A lookup starts at the head of the chain of its hash.                   *)
LEMMA LookupStep ==
    ASSUME IInv, NEW c \in Codes, lut_lookup(c)
    PROVE  IInv'
<1> USE LutAssumption DEF IInv, LutTypeOK
<1>1. HASH(c) \in Hashes
  BY HashRange
<1>2. /\ UNCHANGED <<slot, table, avail>>
      /\ lookup' = Lookup("walk", c, table[HASH(c)])
  BY DEF lut_lookup
<1>3. LutTypeOK'
  BY <1>1, <1>2 DEF Lookup
<1>4. Chained'
  BY <1>2 DEF Chained, SameHash, IsLast
<1>5. OnTheWay'
  <2>1. IsLast(table[HASH(c)], SameHash(HASH(c), avail))
    BY <1>1 DEF Chained
  <2>2. Holders(c) \subseteq SameHash(HASH(c), avail)
    BY DEF Holders, SameHash
  <2>3. /\ lookup'.at = "walk" /\ lookup'.timecode = c
        /\ lookup'.slot_no = table[HASH(c)]
    BY <1>2 DEF Lookup
  <2>4. Holders(c)' = Holders(c) /\ SameHash(HASH(c), avail)' = SameHash(HASH(c), avail)
    BY <1>2 DEF Holders, SameHash
  <2> QED BY <1>2, <2>1, <2>2, <2>3, <2>4 DEF OnTheWay, IsLast
<1> HIDE DEF LutTypeOK
<1> QED BY <1>3, <1>4, <1>5

(* The fields of a lookup in progress.                                     *)
LEMMA LookupFields ==
    ASSUME LutTypeOK, lookup.at # "idle"
    PROVE  /\ lookup.at \in {"walk", "found"} /\ lookup.timecode \in Codes
           /\ lookup.slot_no \in Slots \union {NO_SLOT}
           /\ lookup = Lookup(lookup.at, lookup.timecode, lookup.slot_no)
BY DEF LutTypeOK, Lookup, Idle

(* The slot that matches is the result.                                    *)
LEMMA ReturnStep ==
    ASSUME IInv, Return
    PROVE  IInv'
<1> USE DEF IInv
<1>1. /\ UNCHANGED <<slot, table, avail>> /\ lookup.at = "walk" /\ Hit
      /\ lookup' = [lookup EXCEPT !.at = "found"]
  BY DEF Return
<1>2. /\ lookup'.at = "found" /\ lookup'.timecode = lookup.timecode
      /\ lookup'.slot_no = lookup.slot_no
      /\ lookup' = Lookup("found", lookup.timecode, lookup.slot_no)
  BY <1>1, LookupFields DEF Lookup
<1>3. LutTypeOK'
  BY <1>1, <1>2, LookupFields DEF LutTypeOK, Lookup
<1>4. Chained'
  BY <1>1 DEF Chained, SameHash, IsLast
<1>5. OnTheWay'
  BY <1>1, <1>2 DEF OnTheWay, Holders, SameHash, Hit
<1> QED BY <1>3, <1>4, <1>5

(* The next slot of the chain is the last of its hash before this one.     *)
LEMMA WalkStep ==
    ASSUME IInv, Walk
    PROVE  IInv'
<1> USE DEF IInv
<1> DEFINE here == lookup.slot_no
           c == lookup.timecode
<1>1. /\ UNCHANGED <<slot, table, avail>> /\ lookup.at = "walk" /\ ~Hit
      /\ lookup' = [lookup EXCEPT !.slot_no = slot[here].next]
  BY DEF Walk
<1>2. /\ lookup'.at = "walk" /\ lookup'.timecode = c
      /\ lookup'.slot_no = slot[here].next
      /\ lookup' = Lookup("walk", c, slot[here].next)
  BY <1>1, LookupFields DEF Lookup
<1>3. here \in SameHash(HASH(c), avail) /\ here \notin Holders(c)
  BY <1>1 DEF OnTheWay, Hit
<1>4. /\ here \in 0 .. avail - 1 /\ avail \in Nat
      /\ slot[here].next \in Slots \union {NO_SLOT} /\ HASH(slot[here].timecode) = HASH(c)
  BY <1>3, LutAssumption DEF LutTypeOK, SameHash
<1>5. LutTypeOK'
  BY <1>1, <1>2, <1>4, LookupFields DEF LutTypeOK, Lookup
<1>6. Chained'
  BY <1>1 DEF Chained, SameHash, IsLast
<1>7. OnTheWay'
  <2>1. IsLast(slot[here].next, SameHash(HASH(c), here))
    BY <1>4 DEF Chained
  <2>2. \A s \in Holders(c) : s <= here
    BY <1>1 DEF OnTheWay
  <2>3. Holders(c) \subseteq SameHash(HASH(c), here)
    <3>1. \A s \in Holders(c) : s \in 0 .. here - 1
      BY <1>3, <1>4, <2>2 DEF Holders
    <3> QED BY <3>1 DEF Holders, SameHash
  <2>4. SameHash(HASH(c), here) \subseteq SameHash(HASH(c), avail)
    BY <1>4 DEF SameHash
  <2>5. Holders(c)' = Holders(c) /\ SameHash(HASH(c), avail)' = SameHash(HASH(c), avail)
    BY <1>1 DEF Holders, SameHash
  <2>6. slot[here].next = NO_SLOT \/ slot[here].next \in SameHash(HASH(c), avail)
    BY <2>1, <2>4 DEF IsLast
  <2>7. \A s \in Holders(c) : s <= slot[here].next
    BY <2>1, <2>3 DEF IsLast
  <2> HIDE DEF here, c
  <2>8. /\ lookup'.slot_no = slot[here].next /\ Holders(lookup.timecode)' = Holders(c)
        /\ SameHash(HASH(lookup.timecode), avail)' = SameHash(HASH(c), avail)
    BY <1>1, <1>2 DEF Holders, SameHash
  <2> QED BY <1>2, <2>6, <2>7, <2>8 DEF OnTheWay
<1> QED BY <1>5, <1>6, <1>7

(* The invariant holds of the table and of the lookup, always.             *)
THEOREM Invariance == LutSpec => []IInv
<1>1. IInv /\ [LutNext]_lut_vars => IInv'
  <2> SUFFICES ASSUME IInv, [LutNext]_lut_vars PROVE IInv'
    OBVIOUS
  <2>1. CASE UNCHANGED lut_vars
    BY <2>1 DEF lut_vars, IInv, LutTypeOK, Chained, OnTheWay, SameHash, Holders, IsLast, Hit
  <2> QED BY <2>1, PushStep, LookupStep, ReturnStep, WalkStep DEF LutNext
<1> QED BY <1>1, InitInv, PTL DEF LutSpec

(* Whatever collides, a lookup returns the last slot given to its code, or *)
(* none.                                                                   *)
THEOREM LookupsAreRight == LutSpec => []FindsTheLast
<1>1. IInv => FindsTheLast
  <2> SUFFICES ASSUME IInv, lookup.at = "found"
               PROVE  FindsTheLast
    BY DEF FindsTheLast
  <2>1. Hit /\ \A s \in Holders(lookup.timecode) : s <= lookup.slot_no
    BY DEF IInv, OnTheWay
  <2>2. CASE lookup.slot_no \in Holders(lookup.timecode)
    BY <2>1, <2>2 DEF FindsTheLast
  <2>3. CASE lookup.slot_no = NO_SLOT
    <3>1. Holders(lookup.timecode) = {}
      BY <2>1, <2>3 DEF Holders, NO_SLOT, IInv, LutTypeOK
    <3> QED BY <2>3, <3>1 DEF FindsTheLast
  <2> QED BY <2>1, <2>2, <2>3 DEF Hit
<1> QED BY <1>1, Invariance, PTL

(* The loop of a lookup ends: there are at most as many steps as slots.    *)
THEOREM LookupsEnd == LutSpec => []ChainsEnd
<1>1. IInv => ChainsEnd
  <2> SUFFICES ASSUME IInv, NEW s \in DOMAIN slot
               PROVE  slot[s].next \in {NO_SLOT} \union 0 .. s - 1
    BY DEF ChainsEnd
  <2>1. s \in 0 .. avail - 1
    BY DEF IInv, LutTypeOK
  <2>2. IsLast(slot[s].next, SameHash(HASH(slot[s].timecode), s))
    BY <2>1 DEF IInv, Chained
  <2> QED BY <2>2 DEF IsLast, SameHash
<1> QED BY <1>1, Invariance, PTL

-----------------------------------------------------------------------------
(* The tables of positions.                                                *)

(* The codes that are visited fit the register. *)
THEOREM CodesFit == Spec => []TypeOK
<1>1. Init => TypeOK
  BY DefsAssumption DEF Init, TypeOK
<1>2. TypeOK /\ [Next]_vars => TypeOK'
  <2> SUFFICES ASSUME TypeOK, [Next]_vars PROVE TypeOK'
    OBVIOUS
  <2>1. CASE Step
    <3>1. def.bits \in Nat \ {0} /\ def.length \in Nat
      BY DefsAssumption DEF TypeOK
    <3>2. Fwd(current, def) \subseteq 0 .. def.bits - 1
      BY <3>1 DEF TypeOK, Fwd, Right
    <3> QED BY <2>1, <3>1, <3>2 DEF Step, TypeOK
  <2>2. CASE UNCHANGED <<def, n, current>>
    BY <2>2 DEF TypeOK
  <2> QED BY <2>1, <2>2 DEF Next, Ask, Search, vars
<1> QED BY <1>1, <1>2, PTL DEF Spec

(* The assertion of build_lookup (timecoder.c:220) holds at every step.    *)
THEOREM StepsCanBeUndone == Spec => Symmetric
<1>1. TypeOK /\ [Next]_vars => [n' # n => Rev(current', def) = current]_vars
  <2> SUFFICES ASSUME TypeOK, [Next]_vars, n' # n PROVE Rev(current', def) = current
    BY DEF vars
  <2>1. Step
    BY DEF Next, Ask, Search, vars
  <2> DEFINE top == def.bits - 1
  <2>2. top \in Nat /\ def.bits = top + 1 /\ def.taps \subseteq 0 .. top
    BY DefsAssumption DEF TypeOK
  <2>3. current \subseteq 0 .. top
    BY DEF TypeOK
  <2> HIDE DEF top
  <2>4. Rev(Fwd(current, def), def) = current
    BY <2>2, <2>3, ForwardsThenBack
  <2> QED BY <2>1, <2>4 DEF Step
<1> QED BY <1>1, CodesFit, PTL DEF Spec, Symmetric

(* Building a table and looking codes up in it is a use of the hash table  *)
(* as Lut describes it.                                                    *)
THEOREM UsesTheHashTable == Spec => LutSpec
<1>1. Init => lut_init
  BY DEF Init
<1>2. TypeOK /\ [Next]_vars => [LutNext]_lut_vars
  <2> SUFFICES ASSUME TypeOK, [Next]_vars PROVE [LutNext]_lut_vars
    OBVIOUS
  <2>1. current \in Codes
    BY DefsAssumption DEF TypeOK
  <2>2. CASE Step
    BY <2>1, <2>2 DEF Step, LutNext
  <2>3. CASE Ask
    BY <2>3, DefsAssumption DEF Ask, LutNext
  <2>4. CASE Search
    BY <2>4 DEF Search, LutNext
  <2>5. CASE UNCHANGED vars
    BY <2>5 DEF vars
  <2> QED BY <2>2, <2>3, <2>4, <2>5 DEF Next
<1> QED BY <1>1, <1>2, CodesFit, PTL DEF Spec, LutSpec

(* While there are slots to fill, the next one is for the current code.    *)
Keeps ==
    /\ InOrder
    /\ avail < nslots =>
        current = IF avail = 0 THEN def.seed ELSE Fwd(slot[avail - 1].timecode, def)

(* A lookup gives the position of the code on the record.                  *)
THEOREM PositionsAreFound == Spec => []FindsThePosition
<1>1. Init => Keeps
  BY DEF Init, lut_init, Keeps, InOrder
<1>2. IInv /\ Keeps /\ [Next]_vars => Keeps'
  <2> SUFFICES ASSUME IInv, Keeps, [Next]_vars PROVE Keeps'
    OBVIOUS
  <2>1. avail \in Nat
    BY LutAssumption DEF IInv, LutTypeOK
  <2>2. CASE UNCHANGED <<def, current, slot, avail>>
    BY <2>2 DEF Keeps, InOrder
  <2>3. CASE Step /\ avail < nslots
    <3>1. /\ avail' = avail + 1 /\ def' = def /\ current' = Fwd(current, def)
          /\ slot'[avail].timecode = current
          /\ \A s \in 0 .. avail - 1 : slot'[s] = slot[s]
      BY <2>1, <2>3 DEF Step, lut_push
    <3>2. ASSUME NEW s \in 0 .. avail
          PROVE  slot'[s].timecode =
                     IF s = 0 THEN def.seed ELSE Fwd(slot'[s - 1].timecode, def)
      <4>1. CASE s = avail
        <5>1. s # 0 => slot'[s - 1] = slot[s - 1]
          BY <2>1, <3>1, <4>1
        <5> QED BY <2>3, <3>1, <4>1, <5>1 DEF Keeps
      <4>2. CASE s \in 0 .. avail - 1
        <5>1. slot'[s] = slot[s] /\ (s # 0 => slot'[s - 1] = slot[s - 1])
          BY <2>1, <3>1, <4>2
        <5> QED BY <4>2, <5>1 DEF Keeps, InOrder
      <4> QED BY <2>1, <4>1, <4>2
    <3>3. InOrder'
      BY <2>1, <3>1, <3>2 DEF InOrder
    <3>4. current' = Fwd(slot'[avail' - 1].timecode, def') /\ avail' # 0
      BY <2>1, <3>1
    <3> QED BY <3>3, <3>4 DEF Keeps
  <2>4. CASE Step /\ ~(avail < nslots)
    BY <2>1, <2>4, LutAssumption DEF Step, Keeps, InOrder, lut_vars
  <2> QED BY <2>2, <2>3, <2>4
          DEF Next, Ask, Search, vars, lut_vars, lut_lookup, Return, Walk
<1>3. Keeps => InOrder
  BY DEF Keeps
<1> QED BY <1>1, <1>2, <1>3, UsesTheHashTable, Invariance, LookupsAreRight, PTL
        DEF Spec, FindsThePosition

(* And gives it in the end: no chain of slots has a cycle.                 *)
THEOREM TablesEnd == Spec => []ChainsEnd
BY UsesTheHashTable, LookupsEnd, PTL
=============================================================================
