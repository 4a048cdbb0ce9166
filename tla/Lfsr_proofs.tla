---------------------------- MODULE Lfsr_proofs -----------------------------
(***************************************************************************)
(* Proofs about the shift registers, for every width and every choice of   *)
(* taps.  The tables of positions and the decoders rest on them.           *)
(***************************************************************************)
EXTENDS Lfsr, FiniteSetTheorems, TLAPS

-----------------------------------------------------------------------------
(* The registers: their two directions undo each other.                    *)

(* Subsets of a register's positions can be counted. *)
LEMMA Countable ==
    ASSUME NEW k \in Nat, NEW x, x \subseteq 0 .. k
    PROVE  IsFiniteSet(x) /\ Cardinality(x) \in Nat
<1>1. IsFiniteSet(0 .. k)
  BY FS_Interval
<1> QED BY <1>1, FS_Subset, FS_CardinalityType

(* Shifting a set of positions does not change how many there are. *)
LEMMA ShiftCounts ==
    ASSUME NEW k \in Nat, NEW x, x \subseteq 1 .. k
    PROVE  Cardinality({i - 1 : i \in x}) = Cardinality(x)
<1> DEFINE y == {i - 1 : i \in x}
           f == [i \in x |-> i - 1]
<1>1. IsFiniteSet(x)
  <2>1. x \subseteq 0 .. k
    OBVIOUS
  <2> QED BY <2>1, Countable
<1>2. f \in [x -> y] /\ \A i, j \in x : f[i] = f[j] => i = j
  OBVIOUS
<1>3. \A j \in y : \E i \in x : f[i] = j
  OBVIOUS
<1>4. f \in Bijection(x, y)
  BY <1>2, <1>3 DEF Bijection, Injection, Surjection, IsInjective
<1> QED BY <1>1, <1>4, FS_Bijection DEF ExistsBijection

(* The bits of a register that has been shifted, one at a time.            *)
LEMMA ShiftedBits ==
    ASSUME NEW k \in Nat, NEW x, x \subseteq 0 .. k
    PROVE  /\ Right(x) \subseteq 0 .. k - 1 /\ Left(x, k + 1) \subseteq 1 .. k
           /\ \A i \in 0 .. k - 1 : i \in Right(x) <=> i + 1 \in x
           /\ \A i \in 1 .. k : i \in Left(x, k + 1) <=> i - 1 \in x
<1>1. Right(x) \subseteq 0 .. k - 1 /\ Left(x, k + 1) \subseteq 1 .. k
  BY DEF Right, Left
<1>2. ASSUME NEW i \in 0 .. k - 1 PROVE i \in Right(x) <=> i + 1 \in x
  <2>1. i \in Right(x) => i + 1 \in x
    BY DEF Right
  <2>2. i + 1 \in x => i + 1 \in x \ {0} /\ (i + 1) - 1 = i
    OBVIOUS
  <2> QED BY <2>1, <2>2 DEF Right
<1>3. ASSUME NEW i \in 1 .. k PROVE i \in Left(x, k + 1) <=> i - 1 \in x
  <2>1. i \in Left(x, k + 1) => i - 1 \in x
    BY DEF Left
  <2>2. i - 1 \in x => (i - 1) + 1 = i /\ i \in 0 .. (k + 1) - 1
    OBVIOUS
  <2> QED BY <2>1, <2>2 DEF Left
<1> QED BY <1>1, <1>2, <1>3

(* Playing backwards over what was just read gives back what was before,   *)
(* so that timecoder.c can follow a record in both directions.             *)
THEOREM ForwardsThenBack ==
    ASSUME NEW tc, NEW k \in Nat, tc.bits = k + 1, tc.taps \subseteq 0 .. k,
           NEW code, code \subseteq 0 .. k
    PROVE  Rev(Fwd(code, tc), tc) = code
<1> DEFINE taps == tc.taps
           ahead == Fwd(code, tc)
           common == (code \intersect taps) \ {0}
           new == Lfsr(code, taps \union {0})
<1>1. ahead = Right(code) \union (IF new THEN {k} ELSE {})
  BY DEF Fwd
<1>2. Left(ahead, k + 1) = code \ {0}
  <2> HIDE DEF ahead, new
  <2>1. /\ ahead \subseteq 0 .. k
        /\ \A i \in 0 .. k - 1 : i \in ahead <=> i + 1 \in code
    <3> DEFINE right == Right(code)
    <3>1. /\ right \subseteq 0 .. k - 1
          /\ \A i \in 0 .. k - 1 : i \in right <=> i + 1 \in code
      BY ShiftedBits
    <3>2. ahead = right \union (IF new THEN {k} ELSE {})
      BY <1>1
    <3> HIDE DEF right
    <3>3. ahead \subseteq 0 .. k
      <4>1. 0 .. k - 1 \subseteq 0 .. k /\ {k} \subseteq 0 .. k
        OBVIOUS
      <4> QED BY <3>1, <3>2, <4>1
    <3>4. ASSUME NEW i \in 0 .. k - 1 PROVE i \in ahead <=> i + 1 \in code
      BY <3>1, <3>2
    <3> QED BY <3>3, <3>4
  <2>2. ASSUME NEW i \in 1 .. k PROVE i \in Left(ahead, k + 1) <=> i \in code
    <3>1. i - 1 \in 0 .. k - 1 /\ (i - 1) + 1 = i
      OBVIOUS
    <3>2. i \in Left(ahead, k + 1) <=> i - 1 \in ahead
      BY <2>1, ShiftedBits
    <3>3. i - 1 \in ahead <=> (i - 1) + 1 \in code
      BY <2>1, <3>1
    <3> QED BY <3>1, <3>2, <3>3
  <2>3. Left(ahead, k + 1) \subseteq 1 .. k
    BY <2>1, ShiftedBits
  <2>4. code \ {0} \subseteq 1 .. k
    OBVIOUS
  <2> DEFINE behind == Left(ahead, k + 1)
  <2> HIDE DEF behind
  <2>5. \A i \in 1 .. k : i \in behind <=> i \in code
    BY <2>2 DEF behind
  <2>6. behind \subseteq 1 .. k
    BY <2>3 DEF behind
  <2>7. behind = code \ {0}
    <3>1. \A i \in behind : i \in code \ {0}
      BY <2>5, <2>6
    <3>2. \A i \in code \ {0} : i \in behind
      BY <2>4, <2>5
    <3> QED BY <3>1, <3>2
  <2> QED BY <2>7 DEF behind
<1>3. IsFiniteSet(common) /\ Cardinality(common) \in Nat
  BY Countable
<1>4. new <=> (Cardinality(common) + (IF 0 \in code THEN 1 ELSE 0)) % 2 = 1
  <2>1. CASE 0 \in code
    <3>1. code \intersect (taps \union {0}) = common \union {0} /\ 0 \notin common
      BY <2>1
    <3> HIDE DEF common
    <3>2. Cardinality(common \union {0}) = Cardinality(common) + 1
      BY <1>3, <3>1, FS_AddElement
    <3> QED BY <2>1, <3>1, <3>2 DEF Lfsr
  <2>2. CASE 0 \notin code
    <3>1. code \intersect (taps \union {0}) = common
      BY <2>2
    <3> HIDE DEF common
    <3>2. new <=> Cardinality(common) % 2 = 1
      BY <3>1 DEF Lfsr
    <3> HIDE DEF new
    <3> QED BY <1>3, <2>2, <3>2
  <2> QED BY <2>1, <2>2
<1> DEFINE back == ahead \intersect (Right(taps) \union {k})
           shifted == {i - 1 : i \in common}
<1>5. /\ IsFiniteSet(shifted) /\ Cardinality(shifted) = Cardinality(common)
      /\ k \notin shifted
  <2>1. common \subseteq 1 .. k
    OBVIOUS
  <2>2. shifted \subseteq 0 .. k
    BY <2>1
  <2> QED BY <2>1, <2>2, ShiftCounts, Countable
<1>6. back = shifted \union (IF new THEN {k} ELSE {})
  <2>1. Right(code) \intersect Right(taps) = shifted
    BY DEF Right
  <2>2. k \notin Right(code)
    BY DEF Right
  <2>3. k \notin Right(taps)
    BY DEF Right
  <2> HIDE DEF new, shifted
  <2> QED BY <1>1, <2>1, <2>2, <2>3
<1>7. Cardinality(back) = Cardinality(common) + (IF new THEN 1 ELSE 0)
  <2> HIDE DEF new, shifted, common
  <2>1. CASE new
    BY <2>1, <1>5, <1>6, FS_AddElement
  <2>2. CASE ~new
    <3>1. back = shifted
      BY <2>2, <1>6
    <3> HIDE DEF back, shifted
    <3> QED BY <2>2, <3>1, <1>3, <1>5
  <2> QED BY <2>1, <2>2
<1>8. Lfsr(ahead, Right(taps) \union {tc.bits - 1}) <=> 0 \in code
  <2> HIDE DEF new, common
  <2>1. Lfsr(ahead, Right(taps) \union {k}) <=> Cardinality(back) % 2 = 1
    BY DEF Lfsr
  <2>2. Cardinality(back) % 2 = 1 <=> 0 \in code
    <3> DEFINE m == Cardinality(common)
    <3>1. m \in Nat /\ Cardinality(back) = m + (IF new THEN 1 ELSE 0)
      BY <1>3, <1>7
    <3>2. new <=> (m + (IF 0 \in code THEN 1 ELSE 0)) % 2 = 1
      BY <1>4
    <3> HIDE DEF m, back, new
    <3>3. CASE 0 \in code
      BY <3>1, <3>2, <3>3
    <3>4. CASE 0 \notin code
      BY <3>1, <3>2, <3>4
    <3> QED BY <3>3, <3>4
  <2>3. tc.bits - 1 = k
    OBVIOUS
  <2> HIDE DEF back, ahead
  <2> QED BY <2>1, <2>2, <2>3
<1>9. Rev(ahead, tc) = (code \ {0}) \union (IF 0 \in code THEN {0} ELSE {})
  BY <1>2, <1>8 DEF Rev
<1> QED BY <1>9

(* And the other way round: a map of finitely many codes to themselves     *)
(* that can be undone reaches every code.                                  *)
THEOREM BackThenForwards ==
    ASSUME NEW tc, NEW k \in Nat, tc.bits = k + 1, tc.taps \subseteq 0 .. k,
           NEW code, code \subseteq 0 .. k
    PROVE  Fwd(Rev(code, tc), tc) = code
<1> DEFINE codes == SUBSET (0 .. k)
           f == [c \in codes |-> Fwd(c, tc)]
<1>1. ASSUME NEW c \in codes PROVE Fwd(c, tc) \in codes /\ Rev(f[c], tc) = c
  <2>1. Fwd(c, tc) \subseteq 0 .. k
    <3> HIDE DEF f
    <3>1. c \subseteq 0 .. k
      OBVIOUS
    <3>2. Right(c) \subseteq 0 .. k - 1
      BY <3>1, ShiftedBits
    <3>3. tc.bits - 1 = k
      OBVIOUS
    <3> QED BY <3>2, <3>3 DEF Fwd
  <2> QED BY <2>1, ForwardsThenBack
<1>2. IsFiniteSet(codes)
  <2>1. IsFiniteSet(0 .. k)
    BY FS_Interval
  <2> QED BY <2>1, FS_SUBSET
<1>3. f \in Injection(codes, codes)
  <2>1. f \in [codes -> codes]
    BY <1>1
  <2>2. \A c, d \in codes : f[c] = f[d] => c = d
    <3> TAKE c, d \in codes
    <3> HAVE f[c] = f[d]
    <3>1. Rev(f[c], tc) = c /\ Rev(f[d], tc) = d
      BY <1>1
    <3> HIDE DEF f
    <3> QED BY <3>1
  <2> HIDE DEF f, codes
  <2> QED BY <2>1, <2>2 DEF Injection, IsInjective
<1>4. PICK c \in codes : f[c] = code
  <2>1. f \in Surjection(codes, codes)
    BY <1>2, <1>3, FS_Injection
  <2>2. code \in codes
    OBVIOUS
  <2> HIDE DEF f, codes
  <2> QED BY <2>1, <2>2 DEF Surjection
<1>5. Rev(code, tc) = c /\ Fwd(c, tc) = code
  BY <1>1, <1>4
<1> QED BY <1>5
=============================================================================
