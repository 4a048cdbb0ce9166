-------------------------------- MODULE Lfsr --------------------------------
(***************************************************************************)
(* timecoder.c: the shift registers that generate a timecode.  A bits_t is *)
(* the set of the positions of its 1 bits, 0 being the least significant;  *)
(* a definition is a record with the fields of struct timecode_def.        *)
(***************************************************************************)
EXTENDS Integers, FiniteSets

(* x >> 1, and (x << 1) & ((1 << n) - 1). *)
Right(x) == {i - 1 : i \in x \ {0}}
Left(x, n) == {i + 1 : i \in x} \intersect (0 .. n - 1)

Lfsr(code, taps) == Cardinality(code \intersect taps) % 2 = 1

Fwd(current, def) ==
    Right(current) \union
        (IF Lfsr(current, def.taps \union {0}) THEN {def.bits - 1} ELSE {})

(* Mutant: the bit that falls out is not tapped. *)
Rev_NoEndTap(current, def) ==
    Left(current, def.bits) \union
        (IF Lfsr(current, Right(def.taps)) THEN {0} ELSE {})

Rev(current, def) ==
    Left(current, def.bits) \union
        (IF Lfsr(current, Right(def.taps) \union {def.bits - 1}) THEN {0} ELSE {})
=============================================================================
