----------------------------- MODULE Timecodes ------------------------------
(***************************************************************************)
(* The table `timecodes` of timecoder.c, hexadecimal numbers written in    *)
(* decimal.                                                                *)
(***************************************************************************)
EXTENDS Integers

(* The positions of the 1 bits of x. *)
Bits(x) == {i \in 0 .. 22 : (x \div 2^i) % 2 = 1}

Definition(bits, seed, taps, length) ==
    [bits |-> bits, seed |-> Bits(seed), taps |-> Bits(taps), length |-> length]

(* Mutant: a tap more. *)
timecodes_WrongTap == <<Definition(20, 142480, 24, 950000)>>

timecodes ==
    <<Definition(20, 364567, 221668, 712000),           \* serato_2a
      Definition(20, 586694, 323800, 922000),           \* serato_2b
      Definition(20, 887616, 216404, 950000),           \* serato_cd
      Definition(23, 1262851, 266304, 1500000),         \* traktor_a
      Definition(23, 3278444, 266304, 2110000),         \* traktor_b
      Definition(20, 142480, 8, 950000),                \* mixvibes_v2
      Definition(20, 142480, 8, 312000)>>               \* mixvibes_7inch
=============================================================================
