------------------------------- MODULE Lookup -------------------------------
(***************************************************************************)
(* timecoder.c: build_lookup, which visits the codes of a definition in    *)
(* the order they have on the record and puts each in the hash table of    *)
(* Lut, where its slot is its position; and the lookups that follow, of    *)
(* whatever bitstream was read from a record (timecoder.c:617).            *)
(***************************************************************************)
EXTENDS Lfsr, Lut

CONSTANTS
    Defs,       \* the definitions whose tables are built
    Asked,      \* the bitstreams that are looked up
    Width       \* bits that are enough for every definition

ASSUME DefsAssumption ==
    /\ Width \in Nat /\ Codes = SUBSET (0 .. Width - 1) /\ Asked \subseteq Codes
    /\ \A d \in Defs :
        /\ d.bits \in 1 .. Width /\ d.length \in Nat
        /\ d.seed \subseteq 0 .. d.bits - 1 /\ d.taps \subseteq 0 .. d.bits - 1

VARIABLES def, n, current

vars == <<def, n, current, lut_vars>>

TypeOK ==
    /\ def \in Defs
    /\ n \in 0 .. def.length
    /\ current \subseteq 0 .. def.bits - 1

Init ==
    /\ def \in Defs
    /\ n = 0
    /\ current = def.seed
    /\ lut_init

(* Mutant: the code of the next position is stored. *)
Step_StoresNext ==
    /\ n < def.length
    /\ current' = Fwd(current, def)
    /\ n' = n + 1
    /\ IF avail < nslots THEN lut_push(Fwd(current, def)) ELSE UNCHANGED lut_vars
    /\ UNCHANGED def

(* The code of a position is stored, up to the bound nslots of the model,  *)
(* and the next code generated.                                            *)
Step ==
    /\ n < def.length
    /\ IF avail < nslots THEN lut_push(current) ELSE UNCHANGED lut_vars
    /\ current' = Fwd(current, def)
    /\ n' = n + 1
    /\ UNCHANGED def

(* The table is built. *)
Built == n = def.length

Ask ==
    /\ Built
    /\ \E bitstream \in Asked : lut_lookup(bitstream)
    /\ UNCHANGED <<def, n, current>>

Search == (Return \/ Walk) /\ UNCHANGED <<def, n, current>>

Next == Step \/ Ask \/ Search

Spec == Init /\ [][Next]_vars

-----------------------------------------------------------------------------
(* "check symmetry of the lfsr functions" (timecoder.c:218), without which *)
(* a record played backwards would not be followed.                        *)
Symmetric == [][n' # n => Rev(current', def) = current]_vars

(* "timecode must not wrap" (timecoder.c:214): no position has the code of *)
(* an earlier one.  Going forwards can be undone, so the first code to     *)
(* come up again would be the seed.                                        *)
NoWrap == n \in 1 .. def.length - 1 => current # def.seed

(* The code of slot s is the one the record has at position s. *)
InOrder ==
    \A s \in 0 .. avail - 1 :
        slot[s].timecode = IF s = 0 THEN def.seed ELSE Fwd(slot[s - 1].timecode, def)

(* What timecoder_get_position relies on: a lookup gives the last position *)
(* on the record of the bitstream that was read, whatever codes share its  *)
(* hash, or none if it is not on the record.                               *)
FindsThePosition == InOrder /\ FindsTheLast
=============================================================================
