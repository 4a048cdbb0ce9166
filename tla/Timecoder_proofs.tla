-------------------------- MODULE Timecoder_proofs --------------------------
(***************************************************************************)
(* Proofs about the decoder, for any table of definitions, any record that *)
(* does not wrap, and however the needle is moved and lifted, bits are     *)
(* misread and the definition is changed.                                  *)
(***************************************************************************)
EXTENDS Timecoder, Lfsr_proofs, WellFoundedInduction

-----------------------------------------------------------------------------
(* Numbers.                                                                *)

(* Induction on the numbers, of a set rather than a predicate.             *)
LEMMA Induction ==
    ASSUME NEW K, 0 \in K, \A k \in Nat : k \in K => k + 1 \in K
    PROVE  Nat \subseteq K
<1> SUFFICES ASSUME Nat \ K # {} PROVE FALSE
  OBVIOUS
<1> DEFINE R == OpToRel(<, Nat)
<1>1. \A x, y \in Nat : x < y => <<x, y>> \in R
  BY Zenon DEF OpToRel
<1>2. IsWellFoundedOn(R, Nat)
  BY Zenon, NatLessThanWellFounded
<1> HIDE DEF R
<1>3. PICK x \in Nat \ K : \A y \in Nat \ K : ~ (<<y, x>> \in R)
  BY <1>2, WFMin, Zenon
<1>4. x # 0 /\ x - 1 \in Nat /\ x - 1 < x
  BY <1>3
<1>5. x - 1 \notin K
  BY <1>4
<1> QED BY <1>1, <1>3, <1>4, <1>5

(* Some numbers have a least one,                                          *)
LEMMA Least ==
    ASSUME NEW S, S \subseteq Nat, S # {}
    PROVE  Min(S) \in S /\ \A x \in S : Min(S) <= x
<1> DEFINE K == {k \in Nat : \A x \in S : k <= x}
<1>1. PICK k \in Nat : k \in K /\ k + 1 \notin K
  <2>1. CASE \A k \in Nat : k \in K => k + 1 \in K
    <3>1. 0 \in K
      OBVIOUS
    <3> HIDE DEF K
    <3>2. Nat \subseteq K
      BY <2>1, <3>1, Induction
    <3> USE DEF K
    <3>3. PICK x \in S : TRUE
      OBVIOUS
    <3>4. x + 1 \in K
      BY <3>2, <3>3
    <3> QED BY <3>3, <3>4
  <2> QED BY <2>1
<1>2. PICK x \in S : ~(k + 1 <= x)
  BY <1>1
<1>3. x = k
  BY <1>1, <1>2
<1>4. \E m \in S : \A y \in S : m =< y
  BY <1>1, <1>2, <1>3
<1> QED BY <1>4 DEF Min

(* and if they are bounded a greatest.                                     *)
LEMMA Greatest ==
    ASSUME NEW S, S \subseteq Nat, S # {}, NEW top \in Nat, \A x \in S : x <= top
    PROVE  Max(S) \in S /\ \A x \in S : x <= Max(S)
<1> DEFINE T == {top - x : x \in S}
<1>1. T \subseteq Nat /\ T # {}
  <2>1. PICK x \in S : x \in Nat
    OBVIOUS
  <2>2. top - x \in T
    OBVIOUS
  <2>3. \A y \in S : y \in Nat /\ top - y \in Nat
    OBVIOUS
  <2> QED BY <2>2, <2>3
<1> HIDE DEF T
<1>2. PICK m \in T : \A y \in T : m <= y
  BY <1>1, Least
<1> USE DEF T
<1>3. PICK z \in S : m = top - z
  BY <1>2
<1>4. \A x \in S : z >= x
  <2> TAKE x \in S
  <2>1. top - x \in T
    OBVIOUS
  <2> HIDE DEF T
  <2>2. m <= top - x
    BY <1>2, <2>1
  <2> QED BY <1>3, <2>2
<1> QED BY <1>3, <1>4 DEF Max

(* A count goes up until it is at its limit.                               *)
LEMMA Increments ==
    ASSUME NEW c \in Nat, NEW limit \in Nat
    PROVE  Increment(c, limit) = IF c + 1 <= limit THEN c + 1 ELSE limit
<1> DEFINE S == {c + 1, limit}
<1>1. Min(S) \in S /\ \A x \in S : Min(S) <= x
  <2>1. S \subseteq Nat /\ S # {}
    OBVIOUS
  <2> HIDE DEF S
  <2> QED BY <2>1, Least
<1> QED BY <1>1 DEF Increment

(* The fields of a definition.                                             *)
LEMMA Fields ==
    ASSUME NEW i \in DOMAIN timecodes
    PROVE  LET t == timecodes[i]
           IN  /\ t.bits \in Nat /\ t.bits > 0 /\ t.length \in Nat /\ t.length > 0
               /\ t.phase \in BOOLEAN /\ t.primary \in BOOLEAN
               /\ t.polarity \in BOOLEAN /\ t.lookup \in BOOLEAN
               /\ t.seed \subseteq 0 .. t.bits - 1 /\ t.taps \subseteq 0 .. t.bits - 1
               /\ t.bits <= VALID_BITS /\ VALID_BITS \in Nat
<1>1. timecodes[i] \in Definition
  BY TimecoderAssumption
<1> QED BY <1>1, TimecoderAssumption DEF Definition

(* MaxBits is enough for every definition, and no more than is checked.    *)
LEMMA Widths ==
    ASSUME NEW i \in DOMAIN timecodes
    PROVE  /\ MaxBits \in Nat /\ MaxBits <= VALID_BITS
           /\ timecodes[i].bits <= MaxBits
<1> DEFINE S == {timecodes[j].bits : j \in DOMAIN timecodes}
<1>1. S \subseteq Nat /\ S # {} /\ \A x \in S : x <= VALID_BITS
  BY Fields
<1>2. VALID_BITS \in Nat /\ timecodes[i].bits \in S
  BY Fields
<1> HIDE DEF S
<1>3. Max(S) \in S /\ \A x \in S : x <= Max(S)
  BY <1>1, <1>2, Greatest
<1>4. MaxBits = Max(S)
  BY DEF MaxBits, S
<1> QED BY <1>1, <1>2, <1>3, <1>4

(* What the code makes of the widths.                                      *)
LEMMA Locks ==
    ASSUME NEW i \in DOMAIN timecodes
    PROVE  /\ Settle(i) \in Nat /\ Lock(i) = Settle(i) + VALID_BITS + 1
           /\ Lock(i) \in Nat
           /\ Settle(i) = IF timecodes[i].bits = MaxBits THEN timecodes[i].bits
                          ELSE MaxBits + timecodes[i].bits + 1
BY Fields, Widths DEF Settle, Lock

-----------------------------------------------------------------------------
(* code is the function its definition describes.                          *)

Words == (DOMAIN timecodes) \X Nat

Turn(f, w) == IF w[2] = 0 THEN timecodes[w[1]].seed
                          ELSE Fwd(f[<<w[1], w[2] - 1>>], timecodes[w[1]])

UpTo(f, k) == \A w \in Words : w[2] <= k => f[w] = Turn(f, w)

(* Two functions which describe the same codes agree on them.              *)
LEMMA CodesAgree ==
    ASSUME NEW f, NEW g, NEW k \in Nat, NEW l \in Nat, UpTo(f, k), UpTo(g, l),
           NEW i \in DOMAIN timecodes
    PROVE  \A m \in Nat : m <= k /\ m <= l => f[<<i, m>>] = g[<<i, m>>]
<1> DEFINE K == {m \in Nat : m <= k /\ m <= l => f[<<i, m>>] = g[<<i, m>>]}
<1>1. 0 \in K
  <2>1. <<i, 0>> \in Words /\ <<i, 0>>[1] = i /\ <<i, 0>>[2] = 0
    BY DEF Words
  <2> QED BY <2>1 DEF UpTo, Turn
<1>2. ASSUME NEW m \in Nat, m \in K PROVE m + 1 \in K
  <2> SUFFICES ASSUME m + 1 <= k, m + 1 <= l
               PROVE  f[<<i, m + 1>>] = g[<<i, m + 1>>]
    OBVIOUS
  <2> DEFINE w == <<i, m + 1>>
  <2>1. w \in Words /\ w[1] = i /\ w[2] = m + 1 /\ w[2] # 0 /\ w[2] - 1 = m
    BY DEF Words
  <2>2. f[<<i, m>>] = g[<<i, m>>]
    BY <1>2
  <2> HIDE DEF w
  <2>3. f[w] = Turn(f, w) /\ g[w] = Turn(g, w)
    BY <2>1 DEF UpTo
  <2>4. Turn(f, w) = Turn(g, w)
    BY <2>1, <2>2 DEF Turn
  <2> QED BY <2>3, <2>4 DEF w
<1> HIDE DEF K
<1>3. Nat \subseteq K
  BY <1>1, <1>2, Induction
<1> QED BY <1>3 DEF K

(* There are such functions,                                               *)
LEMMA CodesExist == \A k \in Nat : \E f : UpTo(f, k)
<1> DEFINE K == {k \in Nat : \E f : UpTo(f, k)}
<1>1. 0 \in K
  <2> DEFINE f == [w \in Words |-> timecodes[w[1]].seed]
  <2>1. ASSUME NEW w \in Words, w[2] <= 0 PROVE f[w] = Turn(f, w)
    <3>1. w[2] = 0
      BY <2>1 DEF Words
    <3> QED BY <3>1 DEF Turn
  <2>2. UpTo(f, 0)
    BY <2>1 DEF UpTo
  <2> QED BY <2>2
<1>2. ASSUME NEW k \in Nat, k \in K PROVE k + 1 \in K
  <2>1. PICK f : UpTo(f, k)
    BY <1>2
  <2> DEFINE g == [w \in Words |-> IF w[2] = k + 1 THEN Turn(f, w) ELSE f[w]]
  <2>2. ASSUME NEW w \in Words, w[2] <= k + 1 PROVE g[w] = Turn(g, w)
    <3>1. w[1] \in DOMAIN timecodes /\ w[2] \in Nat
      BY DEF Words
    <3>2. w[2] # 0 => LET v == <<w[1], w[2] - 1>>
                      IN v \in Words /\ v[2] # k + 1
      BY <2>2, <3>1 DEF Words
    <3>3. w[2] # 0 => g[<<w[1], w[2] - 1>>] = f[<<w[1], w[2] - 1>>]
      BY <3>2
    <3>4. g[w] = Turn(f, w)
      <4>1. CASE w[2] = k + 1
        BY <4>1
      <4>2. CASE w[2] # k + 1
        <5>1. w[2] <= k
          BY <2>2, <3>1, <4>2
        <5> QED BY <2>1, <4>2, <5>1 DEF UpTo
      <4> QED BY <4>1, <4>2
    <3> HIDE DEF g
    <3> QED BY <3>3, <3>4 DEF Turn
  <2>3. UpTo(g, k + 1)
    BY <2>2 DEF UpTo
  <2> QED BY <2>3
<1> HIDE DEF K
<1>3. Nat \subseteq K
  BY <1>1, <1>2, Induction
<1> QED BY <1>3 DEF K

(* so that the code of a position is made from the one before it.          *)
LEMMA CodeIs ==
    ASSUME NEW i \in DOMAIN timecodes
    PROVE  /\ code[<<i, 0>>] = timecodes[i].seed
           /\ \A k \in Nat : code[<<i, k + 1>>] = Fwd(code[<<i, k>>], timecodes[i])
<1> DEFINE part(k) == CHOOSE f : UpTo(f, k)
           F == [w \in Words |-> part(w[2])[w]]
<1>1. \A k \in Nat : UpTo(part(k), k)
  BY CodesExist
<1>2. ASSUME NEW w \in Words PROVE F[w] = Turn(F, w)
  <2> HIDE DEF part
  <2>1. w[1] \in DOMAIN timecodes /\ w[2] \in Nat /\ w = <<w[1], w[2]>>
    BY DEF Words
  <2>2. F[w] = Turn(part(w[2]), w)
    BY <1>1, <2>1 DEF UpTo
  <2>3. CASE w[2] = 0
    BY <2>2, <2>3 DEF Turn
  <2>4. CASE w[2] # 0
    <3> DEFINE v == <<w[1], w[2] - 1>>
    <3>1. v \in Words /\ v[2] = w[2] - 1 /\ v[2] \in Nat /\ v[2] <= w[2]
      BY <2>1, <2>4 DEF Words
    <3>2. part(w[2])[v] = part(v[2])[v]
      BY <1>1, <2>1, <3>1, CodesAgree
    <3>3. F[v] = part(w[2])[v]
      BY <3>1, <3>2
    <3> HIDE DEF F
    <3> QED BY <2>2, <2>4, <3>3 DEF Turn
  <2> QED BY <2>3, <2>4
<1> HIDE DEF part
<1>3. F = [w \in Words |-> Turn(F, w)]
  <2> DEFINE G == [w \in Words |-> Turn(F, w)]
  <2>1. DOMAIN F = Words /\ DOMAIN G = Words /\ F = [w \in Words |-> F[w]]
    OBVIOUS
  <2>2. \A w \in Words : F[w] = G[w]
    BY <1>2
  <2> HIDE DEF F
  <2> QED BY <2>1, <2>2
<1> HIDE DEF F
<1>4. code = [w \in Words |-> Turn(code, w)]
  <2>1. code = CHOOSE f : f = [w \in Words |-> Turn(f, w)]
    BY Zenon DEF code, Turn, Words
  <2> QED BY <1>3, <2>1, Zenon
<1>5. ASSUME NEW w \in Words PROVE code[w] = Turn(code, w)
  <2> DEFINE G == [v \in Words |-> Turn(code, v)]
  <2>1. G[w] = Turn(code, w)
    OBVIOUS
  <2>2. code = G
    BY <1>4
  <2> HIDE DEF G
  <2> QED BY <2>1, <2>2
<1>6. code[<<i, 0>>] = timecodes[i].seed
  <2>1. <<i, 0>> \in Words /\ <<i, 0>>[1] = i /\ <<i, 0>>[2] = 0
    BY DEF Words
  <2> QED BY <1>5, <2>1 DEF Turn
<1>7. ASSUME NEW k \in Nat
      PROVE code[<<i, k + 1>>] = Fwd(code[<<i, k>>], timecodes[i])
  <2> DEFINE w == <<i, k + 1>>
  <2>1. w \in Words /\ w[1] = i /\ w[2] = k + 1 /\ w[2] # 0 /\ w[2] - 1 = k
    BY DEF Words
  <2> HIDE DEF w
  <2>2. code[w] = Turn(code, w)
    BY <1>5, <2>1
  <2> QED BY <2>1, <2>2 DEF Turn, w
<1> QED BY <1>6, <1>7

-----------------------------------------------------------------------------
(* The record: its codes and its bits.                                     *)

(* A register which is stepped forwards keeps its width, and all its bits  *)
(* but the last.                                                           *)
LEMMA FwdBits ==
    ASSUME NEW i \in DOMAIN timecodes, NEW x, x \subseteq 0 .. timecodes[i].bits - 1
    PROVE  LET y == Fwd(x, timecodes[i])
           IN  /\ y \subseteq 0 .. timecodes[i].bits - 1
               /\ \A j \in 0 .. timecodes[i].bits - 2 : j \in y <=> j + 1 \in x
               /\ Rev(y, timecodes[i]) = x
<1> DEFINE t == timecodes[i]
           k == t.bits - 1
           y == Fwd(x, t)
<1>1. k \in Nat /\ t.bits = k + 1 /\ t.taps \subseteq 0 .. k /\ x \subseteq 0 .. k
  BY Fields
<1> HIDE DEF k, t
<1>2. /\ Right(x) \subseteq 0 .. k - 1
      /\ \A j \in 0 .. k - 1 : j \in Right(x) <=> j + 1 \in x
  BY <1>1, ShiftedBits
<1>3. y = Right(x) \union (IF Lfsr(x, t.taps \union {0}) THEN {k} ELSE {})
  BY <1>1 DEF Fwd
<1>4. y = Right(x) \/ y = Right(x) \union {k}
  BY <1>3
<1>5. y \subseteq 0 .. k /\ \A j \in 0 .. k - 1 : j \in y <=> j + 1 \in x
  BY <1>1, <1>2, <1>4
<1>6. Rev(y, t) = x
  BY <1>1, ForwardsThenBack
<1> QED BY <1>1, <1>5, <1>6 DEF t

(* The codes of a record have its width.                                   *)
LEMMA CodesFit ==
    ASSUME NEW i \in DOMAIN timecodes
    PROVE  \A k \in Nat : code[<<i, k>>] \subseteq 0 .. timecodes[i].bits - 1
<1> DEFINE K == {k \in Nat : code[<<i, k>>] \subseteq 0 .. timecodes[i].bits - 1}
<1>1. 0 \in K
  BY CodeIs, Fields
<1>2. \A k \in Nat : k \in K => k + 1 \in K
  <2> TAKE k \in Nat
  <2> HAVE k \in K
  <2>1. code[<<i, k + 1>>] = Fwd(code[<<i, k>>], timecodes[i])
    BY CodeIs
  <2> QED BY <2>1, FwdBits
<1> HIDE DEF K
<1>3. Nat \subseteq K
  BY <1>1, <1>2, Induction
<1> QED BY <1>3 DEF K

(* A bit of a code is at the bottom of the register so many codes later.   *)
LEMMA BitsPass ==
    ASSUME NEW i \in DOMAIN timecodes
    PROVE  \A m \in Nat : \A k \in Nat : \A j \in m .. timecodes[i].bits - 1 :
               j \in code[<<i, k>>] <=> j - m \in code[<<i, k + m>>]
<1> DEFINE bits == timecodes[i].bits
           P(m) == \A k \in Nat : \A j \in m .. bits - 1 :
                       j \in code[<<i, k>>] <=> j - m \in code[<<i, k + m>>]
           K == {m \in Nat : P(m)}
<1>0. bits \in Nat
  BY Fields
<1>1. 0 \in K
  <2>1. P(0)
    <3> TAKE k \in Nat
    <3> TAKE j \in 0 .. bits - 1
    <3>1. j - 0 = j /\ k + 0 = k
      BY <1>0
    <3> QED BY <3>1
  <2> QED BY <2>1
<1>2. ASSUME NEW m \in Nat, m \in K PROVE m + 1 \in K
  <2> SUFFICES ASSUME NEW k \in Nat, NEW j \in m + 1 .. bits - 1
               PROVE  j \in code[<<i, k>>] <=> j - (m + 1) \in code[<<i, k + (m + 1)>>]
    OBVIOUS
  <2> HIDE DEF bits
  <2>1. j \in m .. bits - 1 /\ k + m \in Nat /\ (k + m) + 1 = k + (m + 1)
    BY <1>0
  <2>2. j \in code[<<i, k>>] <=> j - m \in code[<<i, k + m>>]
    BY <1>2, <2>1
  <2>3. code[<<i, k + m>>] \subseteq 0 .. bits - 1
    BY <2>1, CodesFit DEF bits
  <2>4. /\ j - (m + 1) \in 0 .. bits - 2
        /\ (j - (m + 1)) + 1 = j - m
    BY <1>0
  <2>5. code[<<i, k + (m + 1)>>] = Fwd(code[<<i, k + m>>], timecodes[i])
    BY <2>1, CodeIs
  <2>6. j - (m + 1) \in code[<<i, k + (m + 1)>>] <=> (j - (m + 1)) + 1 \in code[<<i, k + m>>]
    BY <2>3, <2>4, <2>5, FwdBits DEF bits
  <2> QED BY <2>2, <2>4, <2>6
<1> HIDE DEF K
<1>3. Nat \subseteq K
  BY <1>1, <1>2, Induction
<1> QED BY <1>3 DEF K

(* The codes of the positions on the record, each made from the one before *)
(* it and found again from the one after it.                               *)
LEMMA Codes ==
    ASSUME NEW i \in DOMAIN timecodes
    PROVE  /\ DOMAIN codes[i] = 0 .. timecodes[i].length - 1
           /\ codes[i][0] = timecodes[i].seed
           /\ \A p \in 0 .. timecodes[i].length - 1 :
                /\ codes[i][p] = code[<<i, p>>]
                /\ codes[i][p] \subseteq 0 .. timecodes[i].bits - 1
           /\ \A p \in 0 .. timecodes[i].length - 2 :
                /\ Fwd(codes[i][p], timecodes[i]) = codes[i][p + 1]
                /\ Rev(codes[i][p + 1], timecodes[i]) = codes[i][p]
<1> DEFINE len == timecodes[i].length
<1>1. len \in Nat /\ len > 0
  BY Fields
<1>2. codes[i] = [p \in 0 .. len - 1 |-> code[<<i, p>>]]
  BY DEF codes
<1> HIDE DEF len
<1>3. DOMAIN codes[i] = 0 .. len - 1 /\ \A p \in 0 .. len - 1 : codes[i][p] = code[<<i, p>>]
  BY <1>2
<1>4. \A p \in 0 .. len - 1 : codes[i][p] \subseteq 0 .. timecodes[i].bits - 1
  <2> TAKE p \in 0 .. len - 1
  <2>1. p \in Nat /\ codes[i][p] = code[<<i, p>>]
    BY <1>1, <1>3
  <2> QED BY <2>1, CodesFit
<1>5. ASSUME NEW p \in 0 .. len - 2
      PROVE  /\ Fwd(codes[i][p], timecodes[i]) = codes[i][p + 1]
             /\ Rev(codes[i][p + 1], timecodes[i]) = codes[i][p]
  <2>1. p \in Nat /\ p \in 0 .. len - 1 /\ p + 1 \in 0 .. len - 1
    BY <1>1
  <2>2. codes[i][p + 1] = Fwd(codes[i][p], timecodes[i])
    BY <1>3, <2>1, CodeIs
  <2> QED BY <1>4, <2>1, <2>2, FwdBits
<1>6. codes[i][0] = timecodes[i].seed
  <2>1. 0 \in 0 .. len - 1
    BY <1>1
  <2>2. codes[i][0] = code[<<i, 0>>]
    BY <1>3, <2>1
  <2> QED BY <2>2, CodeIs
<1> QED BY <1>3, <1>4, <1>5, <1>6 DEF len

(* What stands at a position is the bits of the record from there on.      *)
LEMMA BitIs ==
    ASSUME NEW i \in DOMAIN timecodes, NEW p \in 0 .. timecodes[i].length - 1,
           NEW j \in 0 .. timecodes[i].bits - 1
    PROVE  j \in codes[i][p] <=> Bit(i, p + j)
<1> DEFINE len == timecodes[i].length
           bits == timecodes[i].bits
           k == IF p + j < len THEN p + j ELSE len - 1
<1>1. len \in Nat /\ len > 0 /\ bits \in Nat
  BY Fields
<1>2. Bit(i, p + j) <=> (p + j) - k \in codes[i][k]
  BY DEF Bit
<1> HIDE DEF len, bits
<1>3. k - p \in Nat /\ j \in k - p .. bits - 1 /\ p + (k - p) = k /\ k \in 0 .. len - 1
      /\ j - (k - p) = (p + j) - k /\ p \in Nat
  BY <1>1 DEF len, bits
<1> HIDE DEF k
<1>4. j \in code[<<i, p>>] <=> j - (k - p) \in code[<<i, p + (k - p)>>]
  BY <1>3, BitsPass DEF bits
<1>5. codes[i][p] = code[<<i, p>>] /\ codes[i][k] = code[<<i, k>>]
  BY <1>3, Codes DEF len
<1> QED BY <1>2, <1>3, <1>4, <1>5

(* "timecode must not wrap" (timecoder.c:214).                             *)
DoesNotWrap(i) == \A p \in 1 .. timecodes[i].length - 1 : codes[i][p] # timecodes[i].seed

(* As going forwards can be undone, no two positions have the same code.   *)
LEMMA Distinct ==
    ASSUME NEW i \in DOMAIN timecodes, DoesNotWrap(i),
           NEW a \in 0 .. timecodes[i].length - 1, NEW b \in 0 .. timecodes[i].length - 1,
           codes[i][a] = codes[i][b]
    PROVE  a = b
<1> DEFINE len == timecodes[i].length
           P(m) == m < len => \A k \in 0 .. len - 1 : codes[i][m] = codes[i][k] => ~(m < k)
           K == {m \in Nat : P(m)}
<1>0. len \in Nat /\ len > 0
  BY Fields
<1>1. 0 \in K
  <2>1. \A k \in 0 .. len - 1 : 0 < k => codes[i][0] # codes[i][k]
    BY Codes DEF DoesNotWrap
  <2> QED BY <2>1
<1>2. ASSUME NEW m \in Nat, m \in K PROVE m + 1 \in K
  <2> SUFFICES ASSUME m + 1 < len, NEW k \in 0 .. len - 1,
                      codes[i][m + 1] = codes[i][k], m + 1 < k
               PROVE  FALSE
    OBVIOUS
  <2>1. m \in 0 .. len - 2 /\ k - 1 \in 0 .. len - 2 /\ (k - 1) + 1 = k /\ m < k - 1
        /\ k - 1 \in 0 .. len - 1
    BY <1>0
  <2>2. codes[i][m] = codes[i][k - 1]
    <3>1. /\ Rev(codes[i][m + 1], timecodes[i]) = codes[i][m]
          /\ Rev(codes[i][(k - 1) + 1], timecodes[i]) = codes[i][k - 1]
      BY <2>1, Codes
    <3> QED BY <2>1, <3>1
  <2>3. P(m) /\ m < len
    BY <1>0, <1>2
  <2> HIDE DEF K
  <2> QED BY <1>0, <2>1, <2>2, <2>3
<1> HIDE DEF K
<1>3. Nat \subseteq K
  BY <1>1, <1>2, Induction
<1>4. \A m \in Nat : P(m)
  BY <1>3 DEF K
<1>5. a \in Nat /\ b \in Nat /\ a < len /\ b < len
  BY <1>0
<1> QED BY <1>4, <1>5

(* No record has more ones in a row than its register is wide.             *)
LEMMA NotAllOnes ==
    ASSUME NEW i \in DOMAIN timecodes, DoesNotWrap(i), NEW e \in Nat,
           e >= timecodes[i].bits, e < Cycles(i)
    PROVE  \E k \in e - timecodes[i].bits .. e : ~Bit(i, k)
<1> DEFINE bits == timecodes[i].bits
           len == timecodes[i].length
           p == e - bits
<1>1. bits \in Nat /\ bits > 0 /\ len \in Nat
  BY Fields
<1>2. p \in 0 .. len - 1 /\ p + 1 \in 0 .. len - 1
  BY <1>1 DEF Cycles
<1> SUFFICES ASSUME \A k \in p .. e : Bit(i, k) PROVE FALSE
  BY Zenon
<1>3. ASSUME NEW r \in {p, p + 1} PROVE codes[i][r] = 0 .. bits - 1
  <2>1. codes[i][r] \subseteq 0 .. bits - 1
    BY <1>2, Codes
  <2>2. ASSUME NEW j \in 0 .. bits - 1 PROVE j \in codes[i][r]
    <3>1. r + j \in p .. e
      BY <1>1
    <3> QED BY <1>2, <3>1, BitIs
  <2> QED BY <2>1, <2>2
<1>4. p = p + 1
  BY <1>2, <1>3, Distinct
<1> QED BY <1>2, <1>4

-----------------------------------------------------------------------------
(* The register, when right bits are read: what it holds of the record.    *)

Bits(i) == timecodes[i].bits
Gap(i) == MaxBits - Bits(i)

(* The register as the record has it, from place t up, when the bit read   *)
(* last is e; and below place m, when the bit read last, backwards, is e.  *)
Top(i, x, t, e) ==
    \A j \in Nat : j >= t => (j \in x <=> j < Bits(i) /\ Bit(i, e - Bits(i) + 1 + j))
Low(i, x, m, e) ==
    \A j \in Nat : j < m \/ j >= Bits(i) => (j \in x <=> j < Bits(i) /\ Bit(i, e + j))

(* The last m bits were read rightly and in this direction, up to e.       *)
Ahead(i, x, m, e) == m <= e + 1 /\ Top(i, x, MaxBits - m, e)
Behind(i, x, m, e) == e + m <= Cycles(i) /\ (m > 0 => Low(i, x, m, e))
Window(i, f, x, m, e) == IF f THEN Ahead(i, x, m, e) ELSE Behind(i, x, m, e)

(* What another definition left beyond the width, after s bits: it goes    *)
(* down, or is carried up once and is a single bit from then on.  At the   *)
(* width it is carried on as long as the record has ones.                  *)
Rest(i, x) == {j \in x : j >= Bits(i)}
Within(i, x, m) ==
    \/ \A j \in Rest(i, x) : j < Bits(i) + m
    \/ \A j \in Rest(i, x) : j = Bits(i) + m
Ones(i, m, e) == \A k \in e - m + 1 .. e : Bit(i, k)
Cleared(i) == IF Gap(i) = 0 THEN 0 ELSE Gap(i) + Bits(i) + 1

Shifted(i, x, s, e) ==
    /\ s <= e + 1
    /\ s <= Gap(i) => Within(i, x, Gap(i) - s)
    /\ s >= Gap(i) => /\ \A j \in Rest(i, x) : j = Bits(i)
                      /\ Rest(i, x) # {} => Ones(i, s - Gap(i), e)
    /\ s >= Cleared(i) => Top(i, x, Bits(i) - (s - Cleared(i)), e)

Settling(i, f, x, s, e) == IF f THEN Shifted(i, x, s, e) ELSE Behind(i, x, s, e)

(* A bit that enters at the top, or at the bottom.                         *)
Pushed(i, x, b) == IF b THEN Plus(Right(x), Bits(i) - 1) ELSE Right(x)
Pulled(i, x, b) == Left(x, Bits(i)) \union (IF b THEN {0} ELSE {})

(* The addition carries up to the first place that is free.                *)
LEMMA Carries ==
    ASSUME NEW x, NEW k \in Nat, MaxBits \in Nat, k <= MaxBits - 1,
           x \subseteq 0 .. MaxBits - 2
    PROVE  \E c \in k .. MaxBits - 1 :
               /\ c \notin x /\ \A j \in k .. c - 1 : j \in x
               /\ Plus(x, k) = (x \ (k .. c - 1)) \union {c}
<1> DEFINE S == (k .. MaxBits + 1) \ x
           c == Min(S)
<1>1. S \subseteq Nat /\ MaxBits - 1 \in S
  OBVIOUS
<1>2. c \in S /\ \A y \in S : c <= y
  <2> HIDE DEF S
  <2> QED BY <1>1, Least
<1>3. Plus(x, k) = (x \ (k .. c - 1)) \union {c}
  BY DEF Plus
<1> HIDE DEF c
<1>4. c \in k .. MaxBits - 1 /\ c \notin x
  BY <1>1, <1>2
<1>5. ASSUME NEW j \in k .. c - 1, j \notin x PROVE FALSE
  <2>1. j \in S
    BY <1>4, <1>5
  <2> QED BY <1>2, <1>4, <2>1
<1> QED BY <1>3, <1>4, <1>5

(* A register stays below MaxBits.  A new bit finds its place free, unless *)
(* the bit above it comes down at the same time.                           *)
LEMMA PushedBits ==
    ASSUME NEW i \in DOMAIN timecodes, NEW x, x \subseteq 0 .. MaxBits - 1,
           NEW b \in BOOLEAN
    PROVE  LET y == Pushed(i, x, b)
           IN  /\ y \subseteq 0 .. MaxBits - 1
               /\ ~(b /\ Bits(i) \in x) =>
                     \A j \in Nat : j \in y <=> j + 1 \in x \/ (b /\ j = Bits(i) - 1)
               /\ b /\ Bits(i) \in x =>
                     /\ Bits(i) - 1 \notin y
                     /\ \E c \in Bits(i) .. MaxBits - 1 :
                           /\ c + 1 \notin x /\ \A j \in Bits(i) .. c : j \in x
                           /\ \A j \in Nat : j >= Bits(i) - 1 =>
                                 (j \in y <=> j = c \/ (j > c /\ j + 1 \in x))
<1> DEFINE y == Pushed(i, x, b)
           r == Right(x)
           k == Bits(i) - 1
<1>1. MaxBits \in Nat /\ Bits(i) \in Nat /\ Bits(i) > 0 /\ Bits(i) <= MaxBits
  BY Fields, Widths DEF Bits
<1>2. k \in Nat /\ k <= MaxBits - 1 /\ MaxBits - 1 \in Nat /\ Bits(i) = k + 1
  BY <1>1
<1>3. /\ r \subseteq 0 .. MaxBits - 2
      /\ \A j \in Nat : j \in r <=> j + 1 \in x
  <2>1. /\ r \subseteq 0 .. (MaxBits - 1) - 1
        /\ \A j \in 0 .. (MaxBits - 1) - 1 : j \in r <=> j + 1 \in x
    BY <1>2, ShiftedBits
  <2> HIDE DEF r
  <2>2. (MaxBits - 1) - 1 = MaxBits - 2
    BY <1>1
  <2>3. ASSUME NEW j \in Nat PROVE j \in r <=> j + 1 \in x
    <3>1. CASE j <= MaxBits - 2
      BY <1>1, <2>1, <3>1
    <3>2. CASE j > MaxBits - 2
      BY <1>1, <2>1, <3>2
    <3> QED BY <1>1, <3>1, <3>2
  <2> QED BY <2>1, <2>2, <2>3
<1>4. y = IF b THEN Plus(r, k) ELSE r
  BY DEF Pushed
<1> HIDE DEF r, y, k
<1>5. CASE ~b
  <2>1. y = r
    BY <1>4, <1>5
  <2> QED BY <1>1, <1>3, <1>5, <2>1 DEF y
<1>6. CASE b
  <2>2. PICK c \in k .. MaxBits - 1 :
           /\ c \notin r /\ \A j \in k .. c - 1 : j \in r
           /\ Plus(r, k) = (r \ (k .. c - 1)) \union {c}
    BY <1>1, <1>2, <1>3, Carries
  <2>3. y = (r \ (k .. c - 1)) \union {c}
    BY <1>4, <1>6, <2>2
  <2>4. y \subseteq 0 .. MaxBits - 1
    BY <1>1, <1>2, <1>3, <2>3
  <2>5. CASE Bits(i) \notin x
    <3>1. k \notin r
      BY <1>2, <1>3, <2>5
    <3>2. c = k
      BY <1>2, <2>2, <3>1
    <3>3. \A j \in Nat : j \in y <=> j \in r \/ j = k
      BY <1>2, <2>3, <3>2
    <3>4. k = Bits(i) - 1
      BY <1>1, <1>2
    <3> QED BY <1>3, <1>6, <2>4, <2>5, <3>3, <3>4 DEF y
  <2>6. CASE Bits(i) \in x
    <3>1. k \in r
      BY <1>2, <1>3, <2>6
    <3>2. c \in Bits(i) .. MaxBits - 1 /\ c \in Nat
      BY <1>1, <1>2, <2>2, <3>1
    <3>3. c + 1 \notin x
      BY <1>3, <2>2, <3>2
    <3>4. \A j \in Bits(i) .. c : j \in x
      <4> TAKE j \in Bits(i) .. c
      <4>1. j - 1 \in k .. c - 1 /\ j - 1 \in Nat /\ (j - 1) + 1 = j
        BY <1>1, <1>2, <3>2
      <4> QED BY <1>3, <2>2, <4>1
    <3>5. ASSUME NEW j \in Nat, j >= k PROVE j \in y <=> j = c \/ (j > c /\ j + 1 \in x)
      <4>1. j \in r <=> j + 1 \in x
        BY <1>3
      <4>2. j \in k .. c - 1 <=> j < c
        BY <1>2, <3>2, <3>5
      <4> QED BY <2>3, <3>2, <4>1, <4>2
    <3>6. k \notin y
      BY <1>2, <3>2, <3>5
    <3>7. k = Bits(i) - 1
      BY <1>1, <1>2
    <3> QED BY <1>6, <2>4, <2>6, <3>2, <3>3, <3>4, <3>5, <3>6, <3>7 DEF y
  <2> QED BY <2>5, <2>6
<1> QED BY <1>5, <1>6

LEMMA PulledBits ==
    ASSUME NEW i \in DOMAIN timecodes, NEW x, x \subseteq 0 .. MaxBits - 1,
           NEW b \in BOOLEAN
    PROVE  LET y == Pulled(i, x, b)
           IN  /\ y \subseteq 0 .. Bits(i) - 1 /\ y \subseteq 0 .. MaxBits - 1
               /\ 0 \in y <=> b
               /\ \A j \in Nat : j > 0 => (j \in y <=> j < Bits(i) /\ j - 1 \in x)
<1> DEFINE y == Pulled(i, x, b)
           l == Left(x, Bits(i))
<1>1. MaxBits \in Nat /\ Bits(i) \in Nat /\ Bits(i) > 0 /\ Bits(i) <= MaxBits
  BY Fields, Widths DEF Bits
<1>2. l \subseteq 1 .. Bits(i) - 1
  BY <1>1 DEF Left
<1>3. ASSUME NEW j \in Nat, j > 0 PROVE j \in l <=> j < Bits(i) /\ j - 1 \in x
  <2>1. j \in l => j < Bits(i) /\ j - 1 \in x
    BY <1>1 DEF Left
  <2>2. j - 1 \in x => (j - 1) + 1 \in {z + 1 : z \in x} /\ (j - 1) + 1 = j
    BY <1>3
  <2>3. j < Bits(i) => j \in 0 .. Bits(i) - 1
    BY <1>1
  <2> QED BY <2>1, <2>2, <2>3 DEF Left
<1>4. y = l \union (IF b THEN {0} ELSE {})
  BY DEF Pulled
<1> HIDE DEF l, y
<1>5. y \subseteq 0 .. Bits(i) - 1 /\ y \subseteq 0 .. MaxBits - 1 /\ (0 \in y <=> b)
  BY <1>1, <1>2, <1>4
<1>6. \A j \in Nat : j > 0 => (j \in y <=> j < Bits(i) /\ j - 1 \in x)
  BY <1>3, <1>4
<1> QED BY <1>5, <1>6 DEF y

(* The sizes these proofs count with.                                      *)
LEMMA Sizes ==
    ASSUME NEW i \in DOMAIN timecodes
    PROVE  /\ MaxBits \in Nat /\ Bits(i) \in Nat /\ Bits(i) > 0 /\ Bits(i) <= MaxBits
           /\ Gap(i) \in Nat /\ MaxBits = Bits(i) + Gap(i) /\ Cleared(i) \in Nat
           /\ Cleared(i) = IF Gap(i) = 0 THEN 0 ELSE Gap(i) + Bits(i) + 1
           /\ timecodes[i].length \in Nat /\ timecodes[i].length > 0
           /\ Cycles(i) = timecodes[i].length + Bits(i) - 1
           /\ Cycles(i) \in Nat /\ Cycles(i) >= Bits(i)
BY Fields, Widths DEF Bits, Gap, Cleared, Cycles

(* Nothing is claimed before anything was read.                            *)
LEMMA NothingRead ==
    ASSUME NEW i \in DOMAIN timecodes, NEW f \in BOOLEAN,
           NEW x, x \subseteq 0 .. MaxBits - 1,
           NEW e \in Int, IF f THEN e >= -1 ELSE e <= Cycles(i)
    PROVE  Window(i, f, x, 0, e) /\ Settling(i, f, x, 0, e)
<1>1. CASE f
  <2>1. Top(i, x, MaxBits, e)
    BY Sizes DEF Top
  <2>2. Ahead(i, x, 0, e)
    BY <1>1, <2>1, Sizes DEF Ahead
  <2>3. \A j \in Rest(i, x) : j \in Nat /\ j < Bits(i) + Gap(i)
    BY Sizes DEF Rest
  <2>4. Gap(i) = 0 => Rest(i, x) = {}
    <3> SUFFICES ASSUME Gap(i) = 0, NEW j \in Rest(i, x) PROVE FALSE
      OBVIOUS
    <3> QED BY Sizes, <2>3 DEF Rest
  <2>5. Within(i, x, Gap(i) - 0)
    BY <2>3, Sizes DEF Within
  <2>6. 0 >= Gap(i) => Gap(i) = 0
    BY Sizes
  <2>7. 0 >= Cleared(i) => Top(i, x, Bits(i) - (0 - Cleared(i)), e)
    <3>1. SUFFICES ASSUME 0 >= Cleared(i) PROVE Top(i, x, Bits(i) - (0 - Cleared(i)), e)
      OBVIOUS
    <3>2. MaxBits = Bits(i) - (0 - Cleared(i))
      BY <3>1, Sizes
    <3> QED BY <2>1, <3>2
  <2>8. Shifted(i, x, 0, e)
    BY <1>1, <2>4, <2>5, <2>6, <2>7 DEF Shifted
  <2> QED BY <1>1, <2>2, <2>8 DEF Window, Settling
<1>2. CASE ~f
  BY <1>2, Sizes DEF Window, Settling, Behind
<1> QED BY <1>1, <1>2

(* A right bit read forwards adds to the top of the register,              *)
LEMMA TopStep ==
    ASSUME NEW i \in DOMAIN timecodes, NEW x, x \subseteq 0 .. MaxBits - 1,
           NEW b \in BOOLEAN, NEW t \in Int, NEW e \in Int,
           ~(b /\ Bits(i) \in x), b <=> Bit(i, e + 1), Top(i, x, t, e)
    PROVE  Top(i, Pushed(i, x, b), t - 1, e + 1)
<1> DEFINE y == Pushed(i, x, b)
           B == Bits(i)
<1>1. B \in Nat /\ B > 0
  BY Sizes
<1>2. \A j \in Nat : j \in y <=> j + 1 \in x \/ (b /\ j = B - 1)
  BY PushedBits
<1>3. \A j \in Nat : j >= t => (j \in x <=> j < B /\ Bit(i, e - B + 1 + j))
  BY DEF Top
<1> HIDE DEF y, B
<1>4. ASSUME NEW j \in Nat, j >= t - 1
      PROVE  j \in y <=> j < B /\ Bit(i, (e + 1) - B + 1 + j)
  <2>1. /\ j + 1 \in Nat /\ j + 1 >= t
        /\ e - B + 1 + (j + 1) = (e + 1) - B + 1 + j
    BY <1>1, <1>4
  <2>2. j + 1 \in x <=> j + 1 < B /\ Bit(i, (e + 1) - B + 1 + j)
    BY <1>3, <2>1
  <2>3. CASE j = B - 1
    <3>1. j + 1 \notin x
      BY <1>1, <2>2, <2>3
    <3>2. (e + 1) - B + 1 + j = e + 1 /\ j < B
      BY <1>1, <2>3
    <3> QED BY <1>2, <2>3, <3>1, <3>2
  <2>4. CASE j # B - 1
    <3>1. j + 1 < B <=> j < B
      BY <1>1, <2>4
    <3> QED BY <1>2, <2>2, <2>4, <3>1
  <2> QED BY <2>3, <2>4
<1> QED BY <1>4 DEF Top, y, B

(* and one read backwards to the bottom.                                   *)
LEMMA BehindStep ==
    ASSUME NEW i \in DOMAIN timecodes, NEW x, x \subseteq 0 .. MaxBits - 1,
           NEW b \in BOOLEAN, NEW m \in Nat, NEW e \in Int,
           b <=> Bit(i, e - 1), Behind(i, x, m, e)
    PROVE  Behind(i, Pulled(i, x, b), m + 1, e - 1)
<1> DEFINE y == Pulled(i, x, b)
           B == Bits(i)
<1>1. B \in Nat /\ B > 0 /\ Cycles(i) \in Nat
  BY Sizes
<1>2. /\ y \subseteq 0 .. B - 1 /\ (0 \in y <=> b)
      /\ \A j \in Nat : j > 0 => (j \in y <=> j < B /\ j - 1 \in x)
  BY PulledBits
<1>3. m > 0 => \A j \in Nat : j < m \/ j >= B => (j \in x <=> j < B /\ Bit(i, e + j))
  BY DEF Behind, Low
<1>4. (e - 1) + (m + 1) <= Cycles(i)
  BY <1>1 DEF Behind
<1> HIDE DEF y, B
<1>5. ASSUME NEW j \in Nat, j < m + 1 \/ j >= B
      PROVE  j \in y <=> j < B /\ Bit(i, (e - 1) + j)
  <2>1. CASE j = 0
    BY <1>1, <1>2, <2>1
  <2>2. CASE j >= B
    BY <1>1, <1>2, <2>2
  <2>3. CASE j > 0 /\ j < B
    <3>1. j - 1 \in Nat /\ j - 1 < m /\ e + (j - 1) = (e - 1) + j /\ j - 1 < B /\ m > 0
      BY <1>1, <1>5, <2>3
    <3>2. j - 1 \in x <=> Bit(i, (e - 1) + j)
      BY <1>3, <3>1
    <3> QED BY <1>2, <2>3, <3>2
  <2> QED BY <1>1, <2>1, <2>2, <2>3
<1> QED BY <1>4, <1>5 DEF Behind, Low, y, B

(* What was left beyond the width goes down with every bit, or is carried  *)
(* up; it is gone when one of the bits was no one.                         *)
LEMMA ShiftedStep ==
    ASSUME NEW i \in DOMAIN timecodes, DoesNotWrap(i),
           NEW x, x \subseteq 0 .. MaxBits - 1,
           NEW b \in BOOLEAN, NEW s \in Nat, NEW e \in Int, e + 1 < Cycles(i),
           b <=> Bit(i, e + 1), Shifted(i, x, s, e)
    PROVE  Shifted(i, Pushed(i, x, b), s + 1, e + 1)
<1> DEFINE y == Pushed(i, x, b)
           B == Bits(i)
           g == Gap(i)
           carry == b /\ B \in x
<1>1. B \in Nat /\ B > 0 /\ g \in Nat /\ MaxBits \in Nat /\ MaxBits = B + g
  BY Sizes
<1>2. s <= e + 1
  BY DEF Shifted
<1>3. y \subseteq 0 .. MaxBits - 1
  BY PushedBits
<1>4. ~carry => \A j \in Nat : j \in y <=> j + 1 \in x \/ (b /\ j = B - 1)
  BY PushedBits
<1>5. carry => \E c \in B .. MaxBits - 1 :
                   /\ c + 1 \notin x /\ \A j \in B .. c : j \in x
                   /\ \A j \in Nat : j >= B - 1 => (j \in y <=> j = c \/ (j > c /\ j + 1 \in x))
  BY PushedBits
<1>6. /\ \A j : j \in Rest(i, x) <=> j \in x /\ j >= B
      /\ \A j : j \in Rest(i, y) <=> j \in y /\ j >= B
      /\ \A j \in Rest(i, y) : j \in y /\ j >= B /\ j \in Nat
  BY <1>1, <1>3 DEF Rest
<1>0. B = Bits(i) /\ g = Gap(i)
  OBVIOUS
<1> HIDE DEF y, B, g
<1>7. ~carry => \A j \in Rest(i, y) : j \in Nat /\ j + 1 \in Rest(i, x)
  <2> SUFFICES ASSUME ~carry, NEW j \in Rest(i, y) PROVE j \in Nat /\ j + 1 \in Rest(i, x)
    OBVIOUS
  <2>1. j \in y /\ j >= B /\ j \in Nat
    BY <1>3, <1>6
  <2>2. j + 1 \in x /\ j + 1 >= B
    BY <1>1, <1>4, <2>1
  <2> QED BY <1>6, <2>1, <2>2
<1>8. ASSUME s + 1 <= g PROVE Within(i, y, g - (s + 1))
  <2> DEFINE m == g - s
  <2>1. m \in Nat /\ m > 0 /\ g - (s + 1) = m - 1 /\ s <= g
    BY <1>1, <1>8
  <2>2. Within(i, x, m)
    BY <2>1 DEF Shifted, g
  <2> HIDE DEF m
  <2>3. \/ \A j \in Rest(i, x) : j < B + m
        \/ \A j \in Rest(i, x) : j = B + m
    BY <2>2 DEF Within, B
  <2>4. CASE ~carry
    <3>1. \/ \A j \in Rest(i, y) : j < B + (m - 1)
          \/ \A j \in Rest(i, y) : j = B + (m - 1)
      BY <1>1, <1>7, <2>1, <2>3, <2>4
    <3> QED BY <2>1, <3>1 DEF Within, B
  <2>5. CASE carry
    <3>1. PICK c \in B .. MaxBits - 1 :
             /\ c + 1 \notin x /\ \A j \in B .. c : j \in x
             /\ \A j \in Nat : j >= B - 1 => (j \in y <=> j = c \/ (j > c /\ j + 1 \in x))
      BY <1>5, <2>5
    <3>2. B \in Rest(i, x) /\ c \in Rest(i, x)
      BY <1>1, <1>6, <3>1
    <3>3. \A j \in Rest(i, x) : j < B + m
      BY <1>1, <2>1, <2>3, <3>2
    <3>4. ASSUME NEW j \in Rest(i, y) PROVE j = c \/ (c < j /\ j < B + m - 1)
      <4>1. j \in y /\ j >= B /\ j \in Nat
        BY <1>3, <1>6
      <4>2. j = c \/ (j > c /\ j + 1 \in x)
        BY <1>1, <3>1, <4>1
      <4>3. j + 1 \in x => j + 1 < B + m
        BY <1>1, <1>6, <3>3, <4>1
      <4> QED BY <1>1, <2>1, <4>1, <4>2, <4>3
    <3>5. c <= B + m - 1
      BY <1>1, <2>1, <3>2, <3>3
    <3>6. \/ \A j \in Rest(i, y) : j < B + (m - 1)
          \/ \A j \in Rest(i, y) : j = B + (m - 1)
      <4>1. CASE c = B + m - 1
        <5>1. \A j \in Rest(i, y) : j = B + (m - 1)
          <6> TAKE j \in Rest(i, y)
          <6>1. j \in Nat
            BY <1>3, <1>6
          <6> QED BY <1>1, <2>1, <3>4, <4>1, <6>1
        <5> QED BY <5>1
      <4>2. CASE c < B + m - 1
        <5>1. \A j \in Rest(i, y) : j < B + (m - 1)
          <6> TAKE j \in Rest(i, y)
          <6>1. j \in Nat
            BY <1>3, <1>6
          <6> QED BY <1>1, <2>1, <3>4, <4>2, <6>1
        <5> QED BY <5>1
      <4> QED BY <1>1, <2>1, <3>5, <4>1, <4>2
    <3> QED BY <2>1, <3>6 DEF Within, B
  <2> QED BY <2>4, <2>5
<1>9. ASSUME s + 1 >= g
      PROVE  /\ \A j \in Rest(i, y) : j = B
             /\ Rest(i, y) # {} => Ones(i, (s + 1) - g, e + 1)
  <2>1. CASE s + 1 = g
    <3>1. Within(i, y, 0)
      BY <1>1, <1>8, <2>1
    <3>2. \A j \in Rest(i, y) : j = B
      <4>1. \A j \in Rest(i, y) : j \in Nat /\ j >= B
        BY <1>3, <1>6
      <4> QED BY <1>1, <3>1, <4>1 DEF Within, B
    <3>3. Ones(i, (s + 1) - g, e + 1)
      BY <1>1, <2>1 DEF Ones
    <3> QED BY <3>2, <3>3
  <2>2. CASE s >= g
    <3>1. /\ \A j \in Rest(i, x) : j = B
          /\ Rest(i, x) # {} => Ones(i, s - g, e)
      BY <2>2 DEF Shifted, B, g
    <3>2. CASE ~carry
      <4>1. Rest(i, y) = {}
        <5> SUFFICES ASSUME NEW j \in Rest(i, y) PROVE FALSE
          OBVIOUS
        <5>1. j \in Nat /\ j >= B /\ j + 1 = B
          BY <1>3, <1>6, <1>7, <3>1, <3>2
        <5> QED BY <1>1, <5>1
      <4> QED BY <4>1
    <3>3. CASE carry
      <4>1. PICK c \in B .. MaxBits - 1 :
               /\ c + 1 \notin x /\ \A j \in B .. c : j \in x
               /\ \A j \in Nat : j >= B - 1 => (j \in y <=> j = c \/ (j > c /\ j + 1 \in x))
        BY <1>5, <3>3
      <4>2. B \in Rest(i, x) /\ c = B
        BY <1>1, <1>6, <3>1, <4>1
      <4>3. ASSUME NEW j \in Rest(i, y) PROVE j = B
        <5>1. j \in y /\ j >= B /\ j \in Nat
          BY <1>3, <1>6
        <5>2. j = c \/ (j > c /\ j + 1 \in x)
          BY <1>1, <4>1, <5>1
        <5>3. j + 1 \in x => j + 1 = B
          BY <1>1, <1>6, <3>1, <5>1
        <5> QED BY <1>1, <4>2, <5>1, <5>2, <5>3
      <4>4. Ones(i, (s + 1) - g, e + 1)
        <5> SUFFICES ASSUME NEW k \in (e + 1) - ((s + 1) - g) + 1 .. e + 1 PROVE Bit(i, k)
          BY DEF Ones
        <5>1. Ones(i, s - g, e)
          BY <3>1, <4>2
        <5>2. k = e + 1 \/ k \in e - (s - g) + 1 .. e
          BY <1>1
        <5> QED BY <3>3, <5>1, <5>2 DEF Ones
      <4> QED BY <4>3, <4>4
    <3> QED BY <3>2, <3>3
  <2> QED BY <1>1, <1>9, <2>1, <2>2
<1>10. ASSUME s + 1 >= Cleared(i)
       PROVE  Top(i, y, B - ((s + 1) - Cleared(i)), e + 1)
  <2>1. Cleared(i) \in Nat /\ Cleared(i) = IF g = 0 THEN 0 ELSE g + B + 1
    BY Sizes DEF g, B
  <2>2. CASE s >= Cleared(i)
    <3> DEFINE t == B - (s - Cleared(i))
    <3>1. t \in Int /\ t <= B /\ t - 1 = B - ((s + 1) - Cleared(i))
      BY <1>1, <2>1, <2>2
    <3>2. Top(i, x, t, e)
      BY <2>2 DEF Shifted, B
    <3> HIDE DEF t
    <3>3. B \notin x
      BY <1>1, <3>1, <3>2 DEF Top, B
    <3>4. Top(i, y, t - 1, e + 1)
      BY <3>1, <3>2, <3>3, TopStep DEF y, B
    <3> QED BY <3>1, <3>4
  <2>3. CASE s + 1 = Cleared(i)
    <3>1. s = g + B /\ (s + 1) - g = B + 1 /\ s + 1 >= g
      BY <1>1, <2>1, <2>3
    <3>2. e + 1 \in Nat /\ e + 1 >= B
      BY <1>1, <1>2, <3>1
    <3>3. ~Ones(i, B + 1, e + 1)
      <4>1. PICK k \in (e + 1) - B .. e + 1 : ~Bit(i, k)
        BY <3>2, NotAllOnes DEF B, Bits
      <4>2. k \in (e + 1) - (B + 1) + 1 .. e + 1
        BY <1>1, <3>2
      <4> QED BY <4>1, <4>2 DEF Ones
    <3>4. Rest(i, y) = {}
      BY <1>9, <3>1, <3>3
    <3>5. B - ((s + 1) - Cleared(i)) = B
      BY <1>1, <2>3
    <3>6. Top(i, y, B, e + 1)
      <4> SUFFICES ASSUME NEW j \in Nat, j >= B PROVE j \notin y /\ ~(j < B)
        BY DEF Top, B
      <4> QED BY <1>1, <1>6, <3>4
    <3> QED BY <3>5, <3>6
  <2> QED BY <1>10, <2>1, <2>2, <2>3
<1>11. s + 1 <= (e + 1) + 1
  BY <1>2
<1>12. Shifted(i, y, s + 1, e + 1)
  <2>1. s + 1 <= Gap(i) => Within(i, y, Gap(i) - (s + 1))
    BY <1>0, <1>8
  <2>2. s + 1 >= Gap(i) => /\ \A j \in Rest(i, y) : j = Bits(i)
                           /\ Rest(i, y) # {} => Ones(i, (s + 1) - Gap(i), e + 1)
    BY <1>0, <1>9
  <2>3. s + 1 >= Cleared(i) => Top(i, y, Bits(i) - ((s + 1) - Cleared(i)), e + 1)
    BY <1>0, <1>10
  <2> QED BY <1>11, <2>1, <2>2, <2>3 DEF Shifted
<1> QED BY <1>12 DEF y

(* The position of a full register whose bit e was read last.              *)
PosAt(i, f, e) == IF f THEN e - Bits(i) + 1 ELSE e

(* A register that has right bits everywhere holds a code of the record.   *)
LEMMA FullRegister ==
    ASSUME NEW i \in DOMAIN timecodes, NEW p \in 0 .. timecodes[i].length - 1,
           NEW x, x \subseteq 0 .. MaxBits - 1,
           \A j \in Nat : j \in x <=> j < Bits(i) /\ Bit(i, p + j)
    PROVE  x = codes[i][p]
<1>1. codes[i][p] \subseteq 0 .. Bits(i) - 1
  BY Codes DEF Bits
<1>2. \A j \in 0 .. Bits(i) - 1 : j \in codes[i][p] <=> Bit(i, p + j)
  BY BitIs DEF Bits
<1>3. \A j \in x : j \in Nat /\ j < Bits(i) /\ j \in 0 .. Bits(i) - 1 /\ Bit(i, p + j)
  BY Sizes
<1>4. \A j \in codes[i][p] : j \in Nat /\ j < Bits(i) /\ Bit(i, p + j)
  BY <1>1, <1>2, Sizes
<1> QED BY <1>2, <1>3, <1>4

LEMMA TopIsCode ==
    ASSUME NEW i \in DOMAIN timecodes, NEW x, x \subseteq 0 .. MaxBits - 1,
           NEW t \in Int, t <= 0, NEW e \in Int, Bits(i) <= e + 1, e < Cycles(i),
           Top(i, x, t, e)
    PROVE  /\ e - Bits(i) + 1 \in 0 .. timecodes[i].length - 1
           /\ x = codes[i][e - Bits(i) + 1]
<1> DEFINE p == e - Bits(i) + 1
<1>1. p \in 0 .. timecodes[i].length - 1
  BY Sizes
<1>2. \A j \in Nat : j \in x <=> j < Bits(i) /\ Bit(i, p + j)
  BY DEF Top
<1> HIDE DEF p
<1>3. x = codes[i][p]
  BY <1>1, <1>2, FullRegister
<1> QED BY <1>1, <1>3 DEF p

LEMMA LowIsCode ==
    ASSUME NEW i \in DOMAIN timecodes, NEW x, x \subseteq 0 .. MaxBits - 1,
           NEW m \in Nat, m >= Bits(i), NEW e \in Nat, Behind(i, x, m, e)
    PROVE  e \in 0 .. timecodes[i].length - 1 /\ x = codes[i][e]
<1>1. e \in 0 .. timecodes[i].length - 1 /\ m > 0
  BY Sizes DEF Behind
<1>2. ASSUME NEW j \in Nat PROVE j \in x <=> j < Bits(i) /\ Bit(i, e + j)
  <2>1. j < m \/ j >= Bits(i)
    BY Sizes
  <2> QED BY <1>1, <2>1 DEF Behind, Low
<1> QED BY <1>1, <1>2, FullRegister

(* So it does when MaxBits bits were read in one direction, each of them   *)
(* expected,                                                               *)
LEMMA WindowIsCode ==
    ASSUME NEW i \in DOMAIN timecodes, NEW f \in BOOLEAN,
           NEW x \in SUBSET (0 .. MaxBits - 1),
           NEW e \in Int, e < Cycles(i), f \/ e >= 0, Window(i, f, x, MaxBits, e)
    PROVE  /\ PosAt(i, f, e) \in 0 .. timecodes[i].length - 1
           /\ x = codes[i][PosAt(i, f, e)]
<1>1. CASE f
  <2>1. Bits(i) <= e + 1 /\ Top(i, x, 0, e)
    BY <1>1, Sizes DEF Window, Ahead
  <2>2. 0 \in Int /\ 0 <= 0
    OBVIOUS
  <2>3. /\ e - Bits(i) + 1 \in 0 .. timecodes[i].length - 1
        /\ x = codes[i][e - Bits(i) + 1]
    BY <2>1, <2>2, TopIsCode
  <2> QED BY <1>1, <2>3 DEF PosAt
<1>2. CASE ~f
  <2>1. MaxBits \in Nat /\ MaxBits >= Bits(i) /\ e \in Nat
    BY <1>2, Sizes
  <2>2. Behind(i, x, MaxBits, e)
    BY <1>2 DEF Window
  <2>3. e \in 0 .. timecodes[i].length - 1 /\ x = codes[i][e]
    BY <2>1, <2>2, LowIsCode
  <2> QED BY <1>2, <2>3 DEF PosAt
<1> QED BY <1>1, <1>2

(* and when enough were, expected or not.                                  *)
LEMMA SettledIsCode ==
    ASSUME NEW i \in DOMAIN timecodes, NEW f \in BOOLEAN,
           NEW x \in SUBSET (0 .. MaxBits - 1),
           NEW s \in Nat, s >= Settle(i),
           NEW e \in Int, e < Cycles(i), f \/ e >= 0, Settling(i, f, x, s, e)
    PROVE  /\ PosAt(i, f, e) \in 0 .. timecodes[i].length - 1
           /\ x = codes[i][PosAt(i, f, e)]
<1>0. /\ Settle(i) = Cleared(i) + Bits(i) /\ Cleared(i) \in Nat
      /\ Bits(i) \in Nat /\ Bits(i) > 0
  BY Sizes, Locks DEF Bits
<1>1. CASE f
  <2> DEFINE t == Bits(i) - (s - Cleared(i))
  <2>1. s <= e + 1 /\ Top(i, x, t, e)
    BY <1>0, <1>1 DEF Settling, Shifted
  <2>2. Bits(i) <= e + 1 /\ t \in Int /\ t <= 0
    BY <1>0, <2>1
  <2> HIDE DEF t
  <2> QED BY <1>1, <2>1, <2>2, TopIsCode DEF PosAt
<1>2. CASE ~f
  <2>1. s >= Bits(i) /\ e \in Nat
    BY <1>0, <1>2
  <2>2. Behind(i, x, s, e)
    BY <1>2 DEF Settling
  <2>3. e \in 0 .. timecodes[i].length - 1 /\ x = codes[i][e]
    BY <2>1, <2>2, LowIsCode
  <2> QED BY <1>2, <2>3 DEF PosAt
<1> QED BY <1>1, <1>2

(* A bit read in a direction, and the register after it.                   *)
Onward(f, e) == IF f THEN e + 1 ELSE e - 1
Taken(i, f, x, b) == IF f THEN Pushed(i, x, b) ELSE Pulled(i, x, b)

LEMMA WindowStep ==
    ASSUME NEW i \in DOMAIN timecodes, NEW f \in BOOLEAN,
           NEW x, x \subseteq 0 .. MaxBits - 1, NEW b \in BOOLEAN,
           NEW m \in Nat, NEW e \in Int, b <=> Bit(i, Onward(f, e)),
           ~(f /\ b /\ Bits(i) \in x), Window(i, f, x, m, e)
    PROVE  Window(i, f, Taken(i, f, x, b), m + 1, Onward(f, e))
<1>1. CASE f
  <2>1. m <= e + 1 /\ Top(i, x, MaxBits - m, e)
    BY <1>1 DEF Window, Ahead
  <2>2. MaxBits - m \in Int /\ (MaxBits - m) - 1 = MaxBits - (m + 1)
    BY Sizes
  <2>3. Top(i, Pushed(i, x, b), (MaxBits - m) - 1, e + 1)
    BY <1>1, <2>1, <2>2, TopStep DEF Onward
  <2>4. m + 1 <= (e + 1) + 1
    BY <2>1
  <2> QED BY <1>1, <2>2, <2>3, <2>4 DEF Window, Ahead, Taken, Onward
<1>2. CASE ~f
  BY <1>2, BehindStep DEF Window, Taken, Onward
<1> QED BY <1>1, <1>2

LEMMA SettlingStep ==
    ASSUME NEW i \in DOMAIN timecodes, DoesNotWrap(i), NEW f \in BOOLEAN,
           NEW x, x \subseteq 0 .. MaxBits - 1, NEW b \in BOOLEAN,
           NEW s \in Nat, NEW e \in Int, Onward(f, e) < Cycles(i),
           b <=> Bit(i, Onward(f, e)), Settling(i, f, x, s, e)
    PROVE  Settling(i, f, Taken(i, f, x, b), s + 1, Onward(f, e))
<1>1. CASE f
  BY <1>1, ShiftedStep DEF Settling, Taken, Onward
<1>2. CASE ~f
  BY <1>2, BehindStep DEF Settling, Taken, Onward
<1> QED BY <1>1, <1>2

LEMMA TakenFits ==
    ASSUME NEW i \in DOMAIN timecodes, NEW f \in BOOLEAN,
           NEW x, x \subseteq 0 .. MaxBits - 1, NEW b \in BOOLEAN
    PROVE  Taken(i, f, x, b) \subseteq 0 .. MaxBits - 1
BY PushedBits, PulledBits DEF Taken

Stepped(i, f, x) == IF f THEN Fwd(x, timecodes[i]) ELSE Rev(x, timecodes[i])

(* A carry is never expected.                                              *)
LEMMA CarryIsUnexpected ==
    ASSUME NEW i \in DOMAIN timecodes, NEW x, x \subseteq 0 .. MaxBits - 1,
           NEW b \in BOOLEAN, b, Bits(i) \in x
    PROVE  Pushed(i, x, b) # Fwd(x, timecodes[i])
<1>1. Bits(i) - 1 \notin Pushed(i, x, b)
  BY PushedBits
<1>2. Bits(i) - 1 \in Right(x)
  BY Sizes DEF Right
<1> QED BY <1>1, <1>2 DEF Fwd

(* Once the register holds a code of the record, the next is as expected.  *)
LEMMA SettledIsExpected ==
    ASSUME NEW i \in DOMAIN timecodes, DoesNotWrap(i), NEW f \in BOOLEAN,
           NEW x, x \subseteq 0 .. MaxBits - 1, NEW b \in BOOLEAN,
           NEW s \in Nat, s >= Settle(i), NEW e \in Int,
           Onward(f, e) \in 0 .. Cycles(i) - 1,
           b <=> Bit(i, Onward(f, e)), Settling(i, f, x, s, e)
    PROVE  Taken(i, f, x, b) = Stepped(i, f, x)
<1> DEFINE y == Taken(i, f, x, b)
           a == Onward(f, e)
           len == timecodes[i].length
<1>0. /\ Cycles(i) \in Nat /\ Settle(i) \in Nat /\ Settle(i) > 0 /\ len \in Nat
      /\ Settle(i) >= Bits(i) /\ Bits(i) \in Nat /\ Bits(i) > 0
  BY Sizes, Locks DEF Bits
<1>1. e < Cycles(i) /\ (f \/ e >= 0) /\ a \in Int /\ a < Cycles(i) /\ a >= 0
  <2>1. CASE f
    BY <1>0, <2>1 DEF Onward
  <2>2. CASE ~f
    <3>1. e + s <= Cycles(i)
      BY <2>2 DEF Settling, Behind
    <3> QED BY <1>0, <2>2, <3>1 DEF Onward
  <2> QED BY <2>1, <2>2
<1>2. PosAt(i, f, e) \in 0 .. len - 1 /\ x = codes[i][PosAt(i, f, e)]
  BY <1>1, SettledIsCode
<1>3. Settling(i, f, y, s + 1, a) /\ y \subseteq 0 .. MaxBits - 1
  BY <1>1, SettlingStep, TakenFits
<1>4. PosAt(i, f, a) \in 0 .. len - 1 /\ y = codes[i][PosAt(i, f, a)]
  <2>1. s + 1 \in Nat /\ s + 1 >= Settle(i)
    BY <1>0
  <2>2. a \in Int /\ a < Cycles(i) /\ (f \/ a >= 0)
    BY <1>1
  <2>3. Settling(i, f, y, s + 1, a) /\ y \subseteq 0 .. MaxBits - 1
    BY <1>3
  <2> HIDE DEF y, a
  <2>4. PosAt(i, f, a) \in 0 .. timecodes[i].length - 1 /\ y = codes[i][PosAt(i, f, a)]
    BY <2>1, <2>2, <2>3, SettledIsCode
  <2> QED BY <2>4
<1>5. CASE f
  <2>1. PosAt(i, f, a) = PosAt(i, f, e) + 1
    BY <1>0, <1>5 DEF PosAt, Onward
  <2>2. PosAt(i, f, e) \in 0 .. len - 2
    BY <1>0, <1>2, <1>4, <2>1
  <2>3. Fwd(codes[i][PosAt(i, f, e)], timecodes[i]) = codes[i][PosAt(i, f, e) + 1]
    BY <2>2, Codes
  <2> QED BY <1>2, <1>4, <1>5, <2>1, <2>3 DEF Stepped
<1>6. CASE ~f
  <2>1. PosAt(i, f, a) = e - 1 /\ PosAt(i, f, e) = e
    BY <1>6 DEF PosAt, Onward
  <2>2. e - 1 \in 0 .. len - 2 /\ (e - 1) + 1 = e
    BY <1>0, <1>2, <1>4, <2>1
  <2>3. Rev(codes[i][(e - 1) + 1], timecodes[i]) = codes[i][e - 1]
    BY <2>2, Codes
  <2> QED BY <1>2, <1>4, <1>6, <2>1, <2>2, <2>3 DEF Stepped
<1> QED BY <1>5, <1>6

-----------------------------------------------------------------------------
(* What is invariant.                                                      *)

(* Neither channel was left behind by a jump.                              *)
Synced == primary = Primary(needle) /\ secondary = Secondary(needle)

Good == rt.at # "sample" /\ rt.good

(* The bit of the record that is read, or was read last, at quarter q, and *)
(* the one before it.                                                      *)
LastAt(f, q) == IF f THEN q \div 4 - 1 ELSE q \div 4
BeforeAt(f, q) == IF f THEN LastAt(f, q) - 1 ELSE LastAt(f, q) + 1
Last == LastAt(forwards, needle)
Before == BeforeAt(forwards, needle)

Reading ==
    [at : {"sample"}] \union [at : {"bitstream"}, b : BOOLEAN, good : BOOLEAN]
        \union [at : {"count"}, n : 0 .. VALID_BITS + 1, good : BOOLEAN]

TypeInv ==
    /\ primary \in BOOLEAN /\ secondary \in BOOLEAN
    /\ forwards \in BOOLEAN /\ unchecked \in BOOLEAN
    /\ bitstream \subseteq 0 .. MaxBits - 1
    /\ timecode = bitstream
    /\ valid_counter \in 0 .. VALID_BITS + 1
    /\ rt \in Reading
    /\ ui \in {"idle", "reset"}
    /\ clean \in 0 .. MaxBits
    /\ steady \in 0 .. Lock(record)

(* Right bits are those of the record, by its own definition.              *)
SyncInv ==
    /\ clean > 0 \/ steady > 0 \/ Good => def = record /\ Synced
    /\ Good => Last \in 0 .. Cycles(record) - 1
    /\ Good /\ rt.at = "bitstream" => (rt.b <=> Bit(record, Last))

(* Of c right bits the last v came in this direction, up to e.             *)
Truthful(i, f, x, c, v, e) ==
    \A m \in 0 .. MaxBits : m <= c /\ m <= v => Window(i, f, x, m, e)

TruthInv ==
    /\ rt.at = "sample" =>
          Truthful(record, forwards, bitstream, clean, valid_counter, Last)
    /\ rt.at = "bitstream" /\ Good =>
          Truthful(record, forwards, bitstream, clean, valid_counter, Before)
    /\ rt.at = "count" /\ Good =>
          Truthful(record, forwards, bitstream, clean + 1, rt.n, Last)

(* After c right bits in this direction, up to e, the counter is v.        *)
Locking(i, f, x, c, v, e) ==
    \A s \in 0 .. Lock(i) :
        s <= c => Settling(i, f, x, s, e) /\ v >= s - Settle(i)

LockInv ==
    /\ rt.at = "sample" =>
          Locking(record, forwards, bitstream, steady, valid_counter, Last)
    /\ rt.at = "bitstream" /\ Good =>
          Locking(record, forwards, bitstream, steady, valid_counter, Before)
    /\ rt.at = "count" /\ Good =>
          Locking(record, forwards, bitstream, steady + 1, rt.n, Last)

DecoderInv == TypeInv /\ SyncInv /\ TruthInv /\ LockInv

(* One past the table nothing is known of what the decoder makes of the    *)
(* memory there, and the definition is not changed any more.               *)
IInv ==
    /\ record \in Records
    /\ needle \in Groove
    /\ def \in 1 .. Len(timecodes) + 1
    /\ def \in DOMAIN timecodes => timecodes[def].lookup /\ DecoderInv

-----------------------------------------------------------------------------
(* The wave.                                                               *)

(* Half a turn on, and the wave played backwards.                          *)
LEMMA Quarters ==
    ASSUME NEW q \in Nat
    PROVE  LET r == q % 4
           IN  /\ r \in {0, 1, 2, 3} /\ q \div 4 \in Nat /\ q = 4 * (q \div 4) + r
               /\ (q + 0) % 4 = r /\ ((3 - q) + 0) % 4 = 3 - r
               /\ (q + 2) % 4 = IF r < 2 THEN r + 2 ELSE r - 2
               /\ ((3 - q) + 2) % 4 = IF r < 2 THEN 1 - r ELSE 5 - r
<1>1. q % 4 \in {0, 1, 2, 3} /\ q \div 4 \in Nat /\ q = 4 * (q \div 4) + (q % 4)
  OBVIOUS
<1>2. (q + 0) % 4 = q % 4 /\ ((3 - q) + 0) % 4 = 3 - (q % 4)
  OBVIOUS
<1>3. (q + 2) % 4 = IF q % 4 < 2 THEN (q % 4) + 2 ELSE (q % 4) - 2
  OBVIOUS
<1>4. ((3 - q) + 2) % 4 = IF q % 4 < 2 THEN 1 - (q % 4) ELSE 5 - (q % 4)
  OBVIOUS
<1> QED BY <1>1, <1>2, <1>3, <1>4

(* The channels as the record's own definition has them.                   *)
LEMMA Wave ==
    ASSUME record \in DOMAIN timecodes, def = record, NEW q \in Nat
    PROVE  /\ Primary(q) \in BOOLEAN /\ Secondary(q) \in BOOLEAN
           /\ Primary(q) <=> (q % 4 \in {0, 3} <=> ~d.polarity)
           /\ Secondary(q) <=> (q % 4 \in {0, 1} <=> (d.phase <=> d.polarity))
<1> DEFINE r == q % 4
           ph == timecodes[record].phase
           pol == timecodes[record].polarity
           up == r \in {0, 3}
           right == r \in {0, 1}
           z == ((IF ph THEN 3 - q ELSE q) + (IF pol THEN 2 ELSE 0)) % 4
<1>1. ph \in BOOLEAN /\ pol \in BOOLEAN /\ d.phase = ph /\ d.polarity = pol
  BY Fields DEF d
<1>0. Primary(q) = (z \in {0, 3}) /\ Secondary(q) = (z \in {0, 1})
  BY DEF Primary, Secondary, Quarter, d
<1>2. /\ (Primary(q) <=> z \in {0, 3}) /\ (Secondary(q) <=> z \in {0, 1})
      /\ Primary(q) \in BOOLEAN /\ Secondary(q) \in BOOLEAN
  <2>1. (Primary(q) <=> z \in {0, 3}) /\ (Secondary(q) <=> z \in {0, 1})
    BY DEF Primary, Secondary, Quarter, d
  <2>2. (z \in {0, 3}) \in BOOLEAN /\ (z \in {0, 1}) \in BOOLEAN
    OBVIOUS
  <2> HIDE DEF z
  <2> QED BY <1>0, <2>1, <2>2, Zenon
<1>3. /\ r \in {0, 1, 2, 3}
      /\ (q + 0) % 4 = r /\ ((3 - q) + 0) % 4 = 3 - r
      /\ (q + 2) % 4 = IF r < 2 THEN r + 2 ELSE r - 2
      /\ ((3 - q) + 2) % 4 = IF r < 2 THEN 1 - r ELSE 5 - r
  BY Quarters
<1>4. ASSUME ph, pol
      PROVE  /\ Primary(q) <=> (up <=> ~pol)
             /\ Secondary(q) <=> (right <=> (ph <=> pol))
  <2>1. z = IF r < 2 THEN 1 - r ELSE 5 - r
    BY <1>3, <1>4
  <2> HIDE DEF z, r, up, right
  <2>2. /\ z \in {0, 3} <=> r \in {1, 2}
        /\ z \in {0, 1} <=> r \in {0, 1}
    BY <1>3, <2>1
  <2>3. (r \in {1, 2} <=> ~(r \in {0, 3})) /\ (r \in {2, 3} <=> ~(r \in {0, 1}))
    BY <1>3
  <2>4. (Primary(q) <=> ~up) /\ (Secondary(q) <=> right)
    BY <1>2, <2>2, <2>3 DEF up, right
  <2> QED BY <1>1, <1>4, <2>4
<1>5. ASSUME ph, ~pol
      PROVE  /\ Primary(q) <=> (up <=> ~pol)
             /\ Secondary(q) <=> (right <=> (ph <=> pol))
  <2>1. z = 3 - r
    BY <1>3, <1>5
  <2> HIDE DEF z, r, up, right
  <2>2. /\ z \in {0, 3} <=> r \in {0, 3}
        /\ z \in {0, 1} <=> r \in {2, 3}
    BY <1>3, <2>1
  <2>3. (r \in {1, 2} <=> ~(r \in {0, 3})) /\ (r \in {2, 3} <=> ~(r \in {0, 1}))
    BY <1>3
  <2>4. (Primary(q) <=> up) /\ (Secondary(q) <=> ~right)
    BY <1>2, <2>2, <2>3 DEF up, right
  <2> QED BY <1>1, <1>5, <2>4
<1>6. ASSUME ~ph, pol
      PROVE  /\ Primary(q) <=> (up <=> ~pol)
             /\ Secondary(q) <=> (right <=> (ph <=> pol))
  <2>1. z = IF r < 2 THEN r + 2 ELSE r - 2
    BY <1>3, <1>6
  <2> HIDE DEF z, r, up, right
  <2>2. /\ z \in {0, 3} <=> r \in {1, 2}
        /\ z \in {0, 1} <=> r \in {2, 3}
    BY <1>3, <2>1
  <2>3. (r \in {1, 2} <=> ~(r \in {0, 3})) /\ (r \in {2, 3} <=> ~(r \in {0, 1}))
    BY <1>3
  <2>4. (Primary(q) <=> ~up) /\ (Secondary(q) <=> ~right)
    BY <1>2, <2>2, <2>3 DEF up, right
  <2> QED BY <1>1, <1>6, <2>4
<1>7. ASSUME ~ph, ~pol
      PROVE  /\ Primary(q) <=> (up <=> ~pol)
             /\ Secondary(q) <=> (right <=> (ph <=> pol))
  <2>1. z = r
    BY <1>3, <1>7
  <2> HIDE DEF z, r, up, right
  <2>2. /\ z \in {0, 3} <=> r \in {0, 3}
        /\ z \in {0, 1} <=> r \in {0, 1}
    BY <1>3, <2>1
  <2>3. (r \in {1, 2} <=> ~(r \in {0, 3})) /\ (r \in {2, 3} <=> ~(r \in {0, 1}))
    BY <1>3
  <2>4. (Primary(q) <=> up) /\ (Secondary(q) <=> right)
    BY <1>2, <2>2, <2>3 DEF up, right
  <2> QED BY <1>1, <1>7, <2>4
<1>8. /\ Primary(q) <=> (up <=> ~pol)
      /\ Secondary(q) <=> (right <=> (ph <=> pol))
  BY <1>1, <1>4, <1>5, <1>6, <1>7
<1> HIDE DEF z
<1> QED BY <1>1, <1>2, <1>8

(* What process_sample makes of the two channels.                          *)
Seen(p, s, p0, s0, ph, f) ==
    IF TRUE \in {p # p0, s # s0} THEN (IF p # p0 THEN p # s ELSE p = s) # ph ELSE f

LEMMA SeenIs ==
    ASSUME NEW p \in BOOLEAN, NEW s \in BOOLEAN, NEW p0 \in BOOLEAN, NEW s0 \in BOOLEAN,
           NEW ph \in BOOLEAN, NEW f \in BOOLEAN
    PROVE  /\ Seen(p, s, p0, s0, ph, f) \in BOOLEAN
           /\ (p <=> p0) /\ (s <=> s0) => Seen(p, s, p0, s0, ph, f) = f
           /\ ~(p <=> p0) => (Seen(p, s, p0, s0, ph, f) <=> (s <=> (p <=> ph)))
           /\ (p <=> p0) /\ ~(s <=> s0) => (Seen(p, s, p0, s0, ph, f) <=> ~(s <=> (p <=> ph)))
<1>1. CASE p = p0 /\ s = s0
  <2>1. ~(TRUE \in {p # p0, s # s0})
    BY <1>1
  <2> QED BY <1>1, <2>1 DEF Seen
<1>2. CASE p # p0
  <2>1. TRUE \in {p # p0, s # s0}
    BY <1>2
  <2>2. Seen(p, s, p0, s0, ph, f) = ((p # s) # ph)
    BY <1>2, <2>1 DEF Seen
  <2> QED BY <1>2, <2>2
<1>3. CASE p = p0 /\ s # s0
  <2>1. TRUE \in {p # p0, s # s0}
    BY <1>3
  <2>2. Seen(p, s, p0, s0, ph, f) = ((p = s) # ph)
    BY <1>3, <2>1 DEF Seen
  <2> QED BY <1>3, <2>2
<1> QED BY <1>1, <1>2, <1>3

(* One quarter on.                                                         *)
LEMMA NextQuarter ==
    ASSUME NEW q \in Nat
    PROVE  /\ (q + 1) % 4 = IF q % 4 = 3 THEN 0 ELSE (q % 4) + 1
           /\ (q + 1) \div 4 = IF q % 4 = 3 THEN (q \div 4) + 1 ELSE q \div 4
<1>1. q % 4 \in {0, 1, 2, 3} /\ q \div 4 \in Nat /\ q = 4 * (q \div 4) + (q % 4)
  OBVIOUS
<1>2. (q + 1) % 4 \in {0, 1, 2, 3} /\ (q + 1) \div 4 \in Nat
      /\ q + 1 = 4 * ((q + 1) \div 4) + ((q + 1) % 4)
  OBVIOUS
<1> QED BY <1>1, <1>2

(* As the needle goes a quarter forwards, or backwards, one channel        *)
(* crosses, and tells which way; the other channel crosses at the peaks,   *)
(* and a bit is read where the wave has its one sign.                      *)
LEMMA Crossing ==
    ASSUME record \in DOMAIN timecodes, def = record, NEW q \in Nat, NEW f \in BOOLEAN
    PROVE  LET p == Primary(q)
               s == Secondary(q)
               p1 == Primary(q + 1)
               s1 == Secondary(q + 1)
           IN  /\ Seen(p, s, p, s, d.phase, f) = f
               /\ Seen(p1, s1, p, s, d.phase, f) /\ Seen(p1, s1, p, s, d.phase, f) \in BOOLEAN
               /\ ~Seen(p, s, p1, s1, d.phase, f) /\ Seen(p, s, p1, s1, d.phase, f) \in BOOLEAN
               /\ ~(s1 <=> s) /\ ~(p1 <=> d.polarity) <=> q % 4 = 3
               /\ ~(s1 <=> s) /\ ~(p <=> d.polarity) <=> q % 4 = 3
               /\ q % 4 = 3 => (p1 <=> p) /\ ~(s1 <=> s)
<1> DEFINE p == Primary(q)
           s == Secondary(q)
           p1 == Primary(q + 1)
           s1 == Secondary(q + 1)
           r == q % 4
           ph == d.phase
           pol == d.polarity
<1> SUFFICES /\ Seen(p, s, p, s, ph, f) = f
             /\ Seen(p1, s1, p, s, ph, f) /\ Seen(p1, s1, p, s, ph, f) \in BOOLEAN
             /\ ~Seen(p, s, p1, s1, ph, f) /\ Seen(p, s, p1, s1, ph, f) \in BOOLEAN
             /\ ~(s1 <=> s) /\ ~(p1 <=> pol) <=> r = 3
             /\ ~(s1 <=> s) /\ ~(p <=> pol) <=> r = 3
             /\ r = 3 => (p1 <=> p) /\ ~(s1 <=> s)
  OBVIOUS
<1>1. ph \in BOOLEAN /\ pol \in BOOLEAN
  BY Fields DEF d
<1>2. /\ p \in BOOLEAN /\ s \in BOOLEAN
      /\ p <=> (r \in {0, 3} <=> ~pol)
      /\ s <=> (r \in {0, 1} <=> (ph <=> pol))
  BY Wave
<1>3. /\ p1 \in BOOLEAN /\ s1 \in BOOLEAN
      /\ p1 <=> ((q + 1) % 4 \in {0, 3} <=> ~pol)
      /\ s1 <=> ((q + 1) % 4 \in {0, 1} <=> (ph <=> pol))
  BY Wave
<1>4. r \in {0, 1, 2, 3} /\ (q + 1) % 4 = IF r = 3 THEN 0 ELSE r + 1
  BY Quarters, NextQuarter
<1> HIDE DEF p, s, p1, s1, r, ph, pol
<1>5. /\ (r \in {0, 3} <=> r = 0 \/ r = 3) /\ (r \in {0, 1} <=> r = 0 \/ r = 1)
      /\ ((q + 1) % 4 \in {0, 3} <=> r = 2 \/ r = 3)
      /\ ((q + 1) % 4 \in {0, 1} <=> r = 3 \/ r = 0)
  BY <1>4
<1>6. /\ Seen(p1, s1, p, s, ph, f) \in BOOLEAN
      /\ ~(p1 <=> p) => (Seen(p1, s1, p, s, ph, f) <=> (s1 <=> (p1 <=> ph)))
      /\ (p1 <=> p) /\ ~(s1 <=> s) => (Seen(p1, s1, p, s, ph, f) <=> ~(s1 <=> (p1 <=> ph)))
      /\ Seen(p, s, p1, s1, ph, f) \in BOOLEAN
      /\ ~(p <=> p1) => (Seen(p, s, p1, s1, ph, f) <=> (s <=> (p <=> ph)))
      /\ (p <=> p1) /\ ~(s <=> s1) => (Seen(p, s, p1, s1, ph, f) <=> ~(s <=> (p <=> ph)))
      /\ Seen(p, s, p, s, ph, f) = f
  BY <1>1, <1>2, <1>3, SeenIs
<1>7. CASE r = 0
  <2>1. /\ (p <=> ~pol) /\ (s <=> (ph <=> pol)) /\ (p1 <=> pol) /\ (s1 <=> (ph <=> pol))
    BY <1>2, <1>3, <1>5, <1>7
  <2> QED BY <1>1, <1>6, <1>7, <2>1
<1>8. CASE r = 1
  <2>1. /\ (p <=> pol) /\ (s <=> (ph <=> pol)) /\ (p1 <=> pol) /\ (s1 <=> ~(ph <=> pol))
    BY <1>2, <1>3, <1>5, <1>8
  <2> QED BY <1>1, <1>6, <1>8, <2>1
<1>9. CASE r = 2
  <2>1. /\ (p <=> pol) /\ (s <=> ~(ph <=> pol)) /\ (p1 <=> ~pol) /\ (s1 <=> ~(ph <=> pol))
    BY <1>2, <1>3, <1>5, <1>9
  <2> QED BY <1>1, <1>6, <1>9, <2>1
<1>10. CASE r = 3
  <2>1. /\ (p <=> ~pol) /\ (s <=> ~(ph <=> pol)) /\ (p1 <=> ~pol) /\ (s1 <=> (ph <=> pol))
    BY <1>2, <1>3, <1>5, <1>10
  <2> QED BY <1>1, <1>6, <1>10, <2>1
<1> QED BY <1>4, <1>7, <1>8, <1>9, <1>10

-----------------------------------------------------------------------------
(* A sample.                                                               *)

(* The channels are positive or not, whatever the definition.              *)
LEMMA Channels ==
    ASSUME NEW q
    PROVE  Primary(q) \in BOOLEAN /\ Secondary(q) \in BOOLEAN
<1>1. CASE d.primary = timecodes[record].primary
  <2>1. Primary(q) = (Quarter(q) \in {0, 3}) /\ Secondary(q) = (Quarter(q) \in {0, 1})
    BY <1>1 DEF Primary, Secondary
  <2>2. (Quarter(q) \in {0, 3}) \in BOOLEAN /\ (Quarter(q) \in {0, 1}) \in BOOLEAN
    OBVIOUS
  <2> QED BY <2>1, <2>2, Zenon
<1>2. CASE d.primary # timecodes[record].primary
  <2>1. Primary(q) = (Quarter(q) \in {0, 1}) /\ Secondary(q) = (Quarter(q) \in {0, 3})
    BY <1>2 DEF Primary, Secondary
  <2>2. (Quarter(q) \in {0, 3}) \in BOOLEAN /\ (Quarter(q) \in {0, 1}) \in BOOLEAN
    OBVIOUS
  <2> QED BY <2>1, <2>2, Zenon
<1> QED BY <1>1, <1>2

(* What may be read at a crossing.                                         *)
LEMMA AmplitudesAre ==
    ASSUME NEW q, NEW a \in Amplitudes(q)
    PROVE  /\ a \in Reading /\ a.at = "bitstream"
           /\ a.good => def = record /\ \E k \in Peak(q) : a.b <=> Bit(record, k)
<1>1. PICK b \in BOOLEAN :
          a = Bitstream(b, def = record /\ \E k \in Peak(q) : b = Bit(record, k))
  BY DEF Amplitudes
<1> DEFINE g == def = record /\ \E k \in Peak(q) : b = Bit(record, k)
<1>2. a = [at |-> "bitstream", b |-> b, good |-> g]
  BY <1>1 DEF Bitstream
<1>3. g \in BOOLEAN
  OBVIOUS
<1>4. g => def = record /\ \E k \in Peak(q) : b <=> Bit(record, k)
  OBVIOUS
<1> HIDE DEF g
<1>5. a.at = "bitstream" /\ a.b = b /\ a.good = g
  BY <1>2
<1>6. a \in [at : {"bitstream"}, b : BOOLEAN, good : BOOLEAN]
  BY <1>2, <1>3
<1> QED BY <1>4, <1>5, <1>6 DEF Reading

LEMMA SampleIs ==
    ASSUME NEW q, Sample(q)
    PROVE  /\ rt.at = "sample" /\ needle' = q
           /\ primary' = Primary(q) /\ secondary' = Secondary(q)
           /\ forwards' = Seen(Primary(q), Secondary(q), primary, secondary, d.phase, forwards)
           /\ valid_counter' = IF forwards' # forwards THEN 0 ELSE valid_counter
           /\ steady' = IF forwards' # forwards THEN 0 ELSE steady
           /\ \/ rt' = Sampling
              \/ rt' \in Amplitudes(q) /\ Secondary(q) # secondary /\ Primary(q) # d.polarity
           /\ ~(Secondary(q) # secondary /\ Primary(q) # d.polarity) => rt' = Sampling
           /\ Secondary(q) # secondary /\ Primary(q) # d.polarity => rt' \in Amplitudes(q)
           /\ UNCHANGED <<record, def, bitstream, timecode, ui, clean, unchecked>>
BY DEF Sample, Seen, Sampling

(* A right bit is one of a peak that is seen as it is on the record.       *)
LEMMA GoodIsSynced ==
    ASSUME record \in DOMAIN timecodes, NEW q \in Nat, needle \in Nat,
           primary \in BOOLEAN, secondary \in BOOLEAN, Sample(q), rt' # Sampling, rt'.good
    PROVE  /\ def = record /\ Synced
           /\ \E k \in 0 .. Cycles(record) - 1 : /\ {needle, q} = {4 * k + 3, 4 * k + 4}
                                                 /\ rt'.b <=> Bit(record, k)
<1>1. rt' \in Amplitudes(q) /\ Secondary(q) # secondary
  BY SampleIs
<1>2. def = record
  BY <1>1, AmplitudesAre
<1>3. PICK k \in Peak(q) : rt'.b <=> Bit(record, k)
  BY <1>1, AmplitudesAre
<1>4. /\ k \in 0 .. Cycles(record) - 1 /\ {needle, q} = {4 * k + 3, 4 * k + 4}
      /\ Primary(q) = primary
  BY <1>3 DEF Peak
<1>5. k \in Nat
  BY <1>4, Sizes
<1>6. (q = needle + 1 /\ needle % 4 = 3) \/ (needle = q + 1 /\ q % 4 = 3)
  <2>1. (needle = 4 * k + 3 /\ q = 4 * k + 4) \/ (needle = 4 * k + 4 /\ q = 4 * k + 3)
    BY <1>4, <1>5
  <2>2. (4 * k + 3) % 4 = 3
    BY <1>5
  <2> QED BY <1>5, <2>1, <2>2
<1>7. (Primary(q) <=> Primary(needle)) /\ ~(Secondary(q) <=> Secondary(needle))
  <2>1. CASE q = needle + 1 /\ needle % 4 = 3
    <3> DEFINE n == needle
    <3>1. (Primary(n + 1) <=> Primary(n)) /\ ~(Secondary(n + 1) <=> Secondary(n))
      BY <1>2, <2>1, Crossing
    <3> QED BY <2>1, <3>1
  <2>2. CASE needle = q + 1 /\ q % 4 = 3
    <3>1. (Primary(q + 1) <=> Primary(q)) /\ ~(Secondary(q + 1) <=> Secondary(q))
      BY <1>2, <2>2, Crossing
    <3> QED BY <2>2, <3>1
  <2> QED BY <1>6, <2>1, <2>2
<1>8. /\ Primary(q) \in BOOLEAN /\ Secondary(q) \in BOOLEAN
      /\ Primary(needle) \in BOOLEAN /\ Secondary(needle) \in BOOLEAN
  BY Channels
<1>9. Synced
  BY <1>1, <1>4, <1>7, <1>8 DEF Synced
<1> QED BY <1>2, <1>3, <1>4, <1>9

(* When the channels are where the needle is, the direction is that of the *)
(* needle, and the bit before the one that is read was the last one.       *)
LEMMA SyncedSample ==
    ASSUME record \in DOMAIN timecodes, def = record, Synced, forwards \in BOOLEAN,
           needle \in Nat, NEW q \in Nat, q \in {needle - 1, needle, needle + 1}, Sample(q)
    PROVE  /\ rt' = Sampling /\ forwards' = forwards => LastAt(forwards', q) = Last
           /\ rt' # Sampling /\ forwards' = forwards => BeforeAt(forwards', q) = Last
           /\ rt' # Sampling => \/ forwards' /\ q = needle + 1
                                \/ ~forwards' /\ needle = q + 1
<1> DEFINE p == Primary(q)
           s == Secondary(q)
           p0 == Primary(needle)
           s0 == Secondary(needle)
<1>1. /\ forwards' = Seen(p, s, p0, s0, d.phase, forwards)
      /\ ~(s # s0 /\ p # d.polarity) => rt' = Sampling
      /\ s # s0 /\ p # d.polarity => rt' \in Amplitudes(q)
  BY SampleIs DEF Synced
<1>2. s # s0 /\ p # d.polarity => rt' # Sampling
  BY <1>1, AmplitudesAre DEF Sampling
<1>3. /\ p \in BOOLEAN /\ s \in BOOLEAN /\ p0 \in BOOLEAN /\ s0 \in BOOLEAN
      /\ d.polarity \in BOOLEAN
  BY Channels, Fields DEF d
<1>4. rt' # Sampling <=> ~(s <=> s0) /\ ~(p <=> d.polarity)
  BY <1>1, <1>2, <1>3
<1>5. CASE q = needle
  <2>1. s = s0 /\ p = p0
    BY <1>5
  <2>2. rt' = Sampling
    BY <1>3, <1>4, <2>1
  <2>3. LastAt(forwards, q) = Last
    BY <1>5 DEF Last
  <2> QED BY <2>2, <2>3
<1>6. CASE q = needle + 1
  <2>1. /\ Seen(p, s, p0, s0, d.phase, forwards)
        /\ Seen(p, s, p0, s0, d.phase, forwards) \in BOOLEAN
        /\ ~(s <=> s0) /\ ~(p <=> d.polarity) <=> needle % 4 = 3
    BY <1>6, Crossing
  <2>2. q \div 4 = IF needle % 4 = 3 THEN (needle \div 4) + 1 ELSE needle \div 4
    BY <1>6, NextQuarter
  <2>3. forwards' = TRUE /\ (rt' # Sampling <=> needle % 4 = 3)
    BY <1>1, <1>4, <2>1
  <2>4. needle \div 4 \in Nat
    BY Quarters
  <2>5. forwards' = forwards => forwards
    BY <2>3
  <2>6. /\ rt' = Sampling /\ forwards => LastAt(TRUE, q) = Last
        /\ rt' # Sampling /\ forwards => BeforeAt(TRUE, q) = Last
    BY <2>2, <2>3, <2>4 DEF LastAt, BeforeAt, Last
  <2> QED BY <1>6, <2>3, <2>5, <2>6
<1>7. CASE needle = q + 1
  <2>1. /\ ~Seen(p, s, p0, s0, d.phase, forwards)
        /\ Seen(p, s, p0, s0, d.phase, forwards) \in BOOLEAN
        /\ ~(s0 <=> s) /\ ~(p <=> d.polarity) <=> q % 4 = 3
    <3>1. /\ ~Seen(p, s, Primary(q + 1), Secondary(q + 1), d.phase, forwards)
          /\ Seen(p, s, Primary(q + 1), Secondary(q + 1), d.phase, forwards) \in BOOLEAN
      BY Crossing
    <3>2. ~(Secondary(q + 1) <=> s) /\ ~(p <=> d.polarity) <=> q % 4 = 3
      BY Crossing
    <3> QED BY <1>7, <3>1, <3>2
  <2>2. needle \div 4 = IF q % 4 = 3 THEN (q \div 4) + 1 ELSE q \div 4
    BY <1>7, NextQuarter
  <2>3. forwards' = FALSE /\ (rt' # Sampling <=> q % 4 = 3)
    BY <1>1, <1>3, <1>4, <2>1
  <2>4. q \div 4 \in Nat
    BY Quarters
  <2>5. forwards' = forwards => ~forwards
    BY <2>3
  <2>6. /\ rt' = Sampling /\ ~forwards => LastAt(FALSE, q) = Last
        /\ rt' # Sampling /\ ~forwards => BeforeAt(FALSE, q) = Last
    BY <2>2, <2>3, <2>4 DEF LastAt, BeforeAt, Last
  <2> QED BY <1>7, <2>3, <2>5, <2>6
<1>8. q = needle \/ q = needle + 1 \/ needle = q + 1
  OBVIOUS
<1> QED BY <1>5, <1>6, <1>7, <1>8

(* The quarters of the groove, and the bits on both sides of them.         *)
LEMMA InTheGroove ==
    ASSUME record \in DOMAIN timecodes, NEW q \in Groove, NEW f \in BOOLEAN
    PROVE  /\ q \in Nat /\ LastAt(f, q) \in Int
           /\ IF f THEN LastAt(f, q) >= -1 ELSE LastAt(f, q) <= Cycles(record)
           /\ f \/ LastAt(f, q) >= 0
           /\ f => LastAt(f, q) < Cycles(record)
<1>1. Cycles(record) \in Nat
  BY Sizes
<1>2. q \in Nat /\ q <= 4 * Cycles(record)
  BY <1>1 DEF Groove
<1>3. q \div 4 \in Nat /\ q \div 4 <= Cycles(record)
  <2>1. q \div 4 \in Nat /\ q = 4 * (q \div 4) + (q % 4) /\ q % 4 \in {0, 1, 2, 3}
    BY <1>2, Quarters
  <2> QED BY <1>1, <1>2, <2>1
<1> QED BY <1>1, <1>2, <1>3 DEF LastAt

-----------------------------------------------------------------------------
(* The invariant, step by step.                                            *)

(* Nothing is claimed of a decoder that has read nothing since.            *)
LEMMA NoneYet ==
    ASSUME NEW i \in DOMAIN timecodes, NEW f \in BOOLEAN,
           NEW x, x \subseteq 0 .. MaxBits - 1,
           NEW e \in Int, IF f THEN e >= -1 ELSE e <= Cycles(i), NEW v \in Nat
    PROVE  /\ \A c \in Nat : c = 0 \/ v = 0 => Truthful(i, f, x, c, v, e)
           /\ Locking(i, f, x, 0, v, e)
<1>1. Window(i, f, x, 0, e) /\ Settling(i, f, x, 0, e)
  BY NothingRead
<1>2. ASSUME NEW c \in Nat, c = 0 \/ v = 0 PROVE Truthful(i, f, x, c, v, e)
  <2> SUFFICES ASSUME NEW m \in 0 .. MaxBits, m <= c, m <= v
               PROVE  Window(i, f, x, m, e)
    BY DEF Truthful
  <2>1. m = 0
    BY <1>2, Sizes
  <2> QED BY <1>1, <2>1
<1>3. Locking(i, f, x, 0, v, e)
  <2> SUFFICES ASSUME NEW s \in 0 .. Lock(i), s <= 0
               PROVE  Settling(i, f, x, s, e) /\ v >= s - Settle(i)
    BY DEF Locking
  <2>1. s = 0 /\ Settle(i) \in Nat
    BY Locks
  <2> QED BY <1>1, <2>1
<1> QED BY <1>2, <1>3

(* A shorter count claims less.                                            *)
LEMMA Fewer ==
    ASSUME NEW i \in DOMAIN timecodes, NEW f, NEW x, NEW e, NEW c \in Nat, NEW v \in Nat,
           NEW a \in Nat, NEW w \in Nat, a <= c, w <= v, Truthful(i, f, x, c, v, e)
    PROVE  Truthful(i, f, x, a, w, e)
BY Sizes DEF Truthful

LEMMA RecordIs ==
    ASSUME IInv
    PROVE  /\ record \in DOMAIN timecodes /\ needle \in Nat /\ needle \in Groove
           /\ Last \in Int /\ Before \in Int
           /\ MaxBits \in Nat /\ MaxBits <= VALID_BITS /\ VALID_BITS \in Nat
BY TimecoderAssumption, Sizes, Widths DEF IInv, Groove, Last, Before, LastAt, BeforeAt

LEMMA InitHolds == Init => IInv
<1> SUFFICES ASSUME Init PROVE IInv
  OBVIOUS
<1>1. /\ record \in Records /\ needle \in Groove /\ def \in DOMAIN timecodes
      /\ timecodes[def].lookup
      /\ primary = FALSE /\ secondary = FALSE /\ forwards = TRUE /\ bitstream = {}
      /\ timecode = {} /\ valid_counter = 0 /\ rt = [at |-> "sample"] /\ ui = "idle"
      /\ clean = 0 /\ steady = 0 /\ unchecked = FALSE
  BY DEF Init, Sampling
<1>2. record \in DOMAIN timecodes
  BY <1>1, TimecoderAssumption
<1>3. def \in 1 .. Len(timecodes) + 1
  BY <1>1, TimecoderAssumption
<1>4. rt.at = "sample" /\ ~Good
  BY <1>1 DEF Good
<1>5. TypeInv
  <2>1. MaxBits \in Nat /\ Lock(record) \in Nat /\ VALID_BITS \in Nat
    BY <1>2, Sizes, Locks, Fields
  <2>2. rt \in Reading
    BY <1>1 DEF Reading
  <2>3. 0 \in 0 .. VALID_BITS + 1 /\ 0 \in 0 .. MaxBits /\ 0 \in 0 .. Lock(record)
    BY <2>1
  <2> QED BY <1>1, <2>2, <2>3, Zenon DEF TypeInv
<1>6. SyncInv
  BY <1>1, <1>4 DEF SyncInv
<1>7. Last \in Int /\ Last >= -1
  BY <1>1, <1>2, InTheGroove DEF Last
<1>8. /\ Truthful(record, forwards, bitstream, clean, valid_counter, Last)
      /\ Locking(record, forwards, bitstream, steady, valid_counter, Last)
  <2>1. bitstream \subseteq 0 .. MaxBits - 1 /\ forwards \in BOOLEAN /\ 0 \in Nat
    BY <1>1
  <2>2. IF forwards THEN Last >= -1 ELSE Last <= Cycles(record)
    BY <1>1, <1>7
  <2> QED BY <1>1, <1>2, <1>7, <2>1, <2>2, NoneYet
<1>9. TruthInv /\ LockInv
  BY <1>4, <1>8 DEF TruthInv, LockInv
<1> QED BY <1>1, <1>3, <1>5, <1>6, <1>9 DEF IInv, DecoderInv

(* After a sample the bits are where they were, or the direction changed.  *)
LEMMA SampleHolds ==
    ASSUME IInv, NEW q \in {needle - 1, needle, needle + 1} \intersect Groove, Sample(q)
    PROVE  IInv'
<1> DEFINE i == record
           x == bitstream
<1>1. /\ i \in DOMAIN timecodes /\ needle \in Nat /\ q \in Nat /\ q \in Groove
      /\ Last \in Int
  BY RecordIs, InTheGroove
<1>2. /\ rt.at = "sample" /\ needle' = q
      /\ primary' = Primary(q) /\ secondary' = Secondary(q)
      /\ forwards' = Seen(Primary(q), Secondary(q), primary, secondary, d.phase, forwards)
      /\ valid_counter' = IF forwards' # forwards THEN 0 ELSE valid_counter
      /\ steady' = IF forwards' # forwards THEN 0 ELSE steady
      /\ rt' = Sampling \/ rt' \in Amplitudes(q)
      /\ UNCHANGED <<record, def, bitstream, timecode, ui, clean, unchecked>>
  BY SampleIs
<1> SUFFICES ASSUME def \in DOMAIN timecodes PROVE timecodes[def].lookup /\ DecoderInv'
  BY <1>1, <1>2 DEF IInv, Groove
<1>3. timecodes[def].lookup /\ TypeInv /\ SyncInv /\ TruthInv /\ LockInv
  BY DEF IInv, DecoderInv
<1>4. /\ MaxBits \in Nat /\ Lock(i) \in Nat /\ VALID_BITS \in Nat
      /\ x \subseteq 0 .. MaxBits - 1 /\ clean \in Nat /\ steady \in Nat
      /\ valid_counter \in Nat /\ forwards \in BOOLEAN
      /\ primary \in BOOLEAN /\ secondary \in BOOLEAN
  BY <1>1, <1>3, Sizes, Locks, Fields DEF TypeInv
<1>5. forwards' \in BOOLEAN
  <2>1. /\ Primary(q) \in BOOLEAN /\ Secondary(q) \in BOOLEAN /\ d.phase \in BOOLEAN
    BY Channels, Fields DEF d
  <2> QED BY <1>2, <1>4, <2>1, SeenIs
<1>6. TypeInv'
  <2>1. rt' \in Reading
    BY <1>2, AmplitudesAre DEF Reading, Sampling
  <2>2. primary' \in BOOLEAN /\ secondary' \in BOOLEAN
    BY <1>2, Channels
  <2>3. valid_counter' \in 0 .. VALID_BITS + 1 /\ steady' \in 0 .. Lock(i)
    BY <1>2, <1>3, <1>4 DEF TypeInv
  <2> QED BY <1>2, <1>3, <1>5, <2>1, <2>2, <2>3 DEF TypeInv
<1>7. Last' = LastAt(forwards', q) /\ Before' = BeforeAt(forwards', q) /\ Last' \in Int
  BY <1>1, <1>2, <1>5, InTheGroove DEF Last, Before
<1>8. ASSUME rt' # Sampling, rt'.good
      PROVE  /\ def = record /\ Synced
             /\ Last' \in 0 .. Cycles(i) - 1 /\ (rt'.b <=> Bit(i, Last'))
  <2>1. PICK k \in 0 .. Cycles(i) - 1 : /\ {needle, q} = {4 * k + 3, 4 * k + 4}
                                        /\ rt'.b <=> Bit(i, k)
    BY <1>1, <1>4, <1>8, GoodIsSynced
  <2>2. def = record /\ Synced
    BY <1>1, <1>4, <1>8, GoodIsSynced
  <2>3. (forwards' /\ q = needle + 1) \/ (~forwards' /\ needle = q + 1)
    BY <1>1, <1>4, <1>8, <2>2, SyncedSample
  <2>4. k \in Nat
    BY <1>1, <2>1, Sizes
  <2>5. (needle = 4 * k + 3 /\ q = 4 * k + 4) \/ (needle = 4 * k + 4 /\ q = 4 * k + 3)
    BY <1>1, <2>1, <2>4
  <2>6. k = LastAt(forwards', q)
    <3>1. CASE forwards' /\ q = needle + 1
      <4>1. q = 4 * k + 4
        BY <1>1, <2>4, <2>5, <3>1
      <4>2. (4 * k + 4) \div 4 = k + 1
        BY <2>4
      <4> QED BY <2>4, <3>1, <4>1, <4>2 DEF LastAt
    <3>2. CASE ~forwards' /\ needle = q + 1
      <4>1. q = 4 * k + 3
        BY <1>1, <2>4, <2>5, <3>2
      <4>2. (4 * k + 3) \div 4 = k
        BY <2>4
      <4> QED BY <2>4, <3>2, <4>1, <4>2 DEF LastAt
    <3> QED BY <2>3, <3>1, <3>2
  <2> QED BY <1>7, <2>1, <2>2, <2>6
<1>9. rt'.at \in {"sample", "bitstream"} /\ (rt'.at = "sample" <=> rt' = Sampling)
  BY <1>2, AmplitudesAre DEF Sampling
<1>10. Good' => rt' # Sampling /\ rt'.good
  BY <1>9 DEF Good, Sampling
<1>11. SyncInv'
  <2>1. clean' > 0 \/ steady' > 0 => def = record
    <3>1. steady' > 0 => steady > 0
      BY <1>2, <1>4
    <3> QED BY <1>2, <1>3, <3>1 DEF SyncInv
  <2>2. def = record => Synced'
    BY <1>2 DEF Synced, Primary, Secondary, Quarter, d
  <2>3. clean' > 0 \/ steady' > 0 \/ Good' => def' = record' /\ Synced'
    BY <1>2, <1>8, <1>10, <2>1, <2>2
  <2>4. Good' => Last' \in 0 .. Cycles(record') - 1 /\ (rt'.b <=> Bit(record', Last'))
    BY <1>2, <1>8, <1>10
  <2> QED BY <2>3, <2>4 DEF SyncInv
<1> DEFINE Truth(e) == Truthful(i, forwards', x, clean, valid_counter', e)
           Locks1(e) == Locking(i, forwards', x, steady', valid_counter', e)
<1>12. valid_counter' \in Nat /\ steady' \in Nat
  BY <1>2, <1>4
<1>13. ASSUME NEW e \in Int, IF forwards' THEN e >= -1 ELSE e <= Cycles(i),
              (clean > 0 \/ steady > 0) /\ forwards' = forwards => e = Last
       PROVE  Truth(e) /\ Locks1(e)
  <2>1. /\ \A c \in Nat : c = 0 \/ valid_counter' = 0 =>
               Truthful(i, forwards', x, c, valid_counter', e)
        /\ Locking(i, forwards', x, 0, valid_counter', e)
    BY <1>1, <1>4, <1>5, <1>12, <1>13, NoneYet
  <2>2. CASE forwards' # forwards
    BY <1>2, <1>4, <2>1, <2>2
  <2>3. CASE forwards' = forwards
    <3>1. valid_counter' = valid_counter /\ steady' = steady
      BY <1>2, <2>3
    <3>2. clean > 0 => Truth(e)
      BY <1>2, <1>3, <1>13, <2>3, <3>1 DEF TruthInv
    <3>3. steady > 0 => Locks1(e)
      BY <1>2, <1>3, <1>13, <2>3, <3>1 DEF LockInv
    <3>4. clean = 0 => Truth(e)
      BY <1>4, <2>1
    <3>5. steady = 0 => Locks1(e)
      BY <2>1, <3>1
    <3> QED BY <1>4, <3>2, <3>3, <3>4, <3>5
  <2> QED BY <2>2, <2>3
<1>14. clean > 0 \/ steady > 0 => def = record /\ Synced
  BY <1>3 DEF SyncInv
<1>15. ASSUME rt'.at = "sample" PROVE Truth(Last') /\ Locks1(Last')
  <2>1. IF forwards' THEN Last' >= -1 ELSE Last' <= Cycles(i)
    BY <1>1, <1>5, <1>7, InTheGroove
  <2>2. (clean > 0 \/ steady > 0) /\ forwards' = forwards => Last' = Last
    BY <1>1, <1>4, <1>7, <1>9, <1>14, <1>15, SyncedSample
  <2> QED BY <1>7, <1>13, <2>1, <2>2
<1>16. ASSUME rt'.at = "bitstream", Good' PROVE Truth(Before') /\ Locks1(Before')
  <2>1. Last' \in 0 .. Cycles(i) - 1 /\ Cycles(i) \in Nat
    BY <1>1, <1>8, <1>10, <1>16, Sizes
  <2>2. Before' \in Int /\ IF forwards' THEN Before' >= -1 ELSE Before' <= Cycles(i)
    BY <1>7, <2>1 DEF BeforeAt
  <2>3. forwards' = forwards => Before' = Last
    BY <1>1, <1>4, <1>7, <1>8, <1>10, <1>16, SyncedSample
  <2> QED BY <1>13, <2>2, <2>3
<1>17. TruthInv' /\ LockInv'
  BY <1>2, <1>9, <1>15, <1>16 DEF TruthInv, LockInv
<1> QED BY <1>3, <1>6, <1>11, <1>17 DEF DecoderInv

(* No record of those that may be played has a code twice.                 *)
NoneWraps == \A i \in Records : DoesNotWrap(i)

(* What process_bitstream expects and receives.                            *)
LEMMA ReadBitIs ==
    ASSUME def \in DOMAIN timecodes, ReadBit, forwards \in BOOLEAN,
           timecode = bitstream, valid_counter \in 0 .. VALID_BITS + 1
    PROVE  /\ rt.at = "bitstream"
           /\ bitstream' = Taken(def, forwards, bitstream, rt.b) /\ timecode' = bitstream'
           /\ rt'.at = "count" /\ rt' = [at |-> "count", n |-> rt'.n, good |-> rt.good]
           /\ rt'.good = rt.good /\ rt' # Sampling
           /\ rt'.n = IF Stepped(def, forwards, bitstream) # bitstream' THEN 0
                      ELSE IF valid_counter + 1 <= VALID_BITS + 1
                           THEN valid_counter + 1 ELSE VALID_BITS + 1
           /\ unchecked' = FALSE
           /\ UNCHANGED <<record, needle, def, primary, secondary, forwards,
                          valid_counter, ui, clean, steady>>
<1>1. VALID_BITS + 1 \in Nat /\ valid_counter \in Nat
  BY Fields
<1>2. Increment(valid_counter, VALID_BITS + 1) =
          IF valid_counter + 1 <= VALID_BITS + 1 THEN valid_counter + 1 ELSE VALID_BITS + 1
  BY <1>1, Increments
<1>3. Expected = Stepped(def, forwards, bitstream)
  BY DEF Expected, Stepped, d
<1>4. Received(rt.b) = Taken(def, forwards, bitstream, rt.b)
  BY DEF Received, Taken, Pushed, Pulled, Bits, d
<1>5. /\ rt.at = "bitstream" /\ bitstream' = Received(rt.b) /\ timecode' = bitstream'
      /\ rt' = Count(IF Expected = bitstream' THEN Increment(valid_counter, VALID_BITS + 1)
                                              ELSE 0, rt.good)
      /\ unchecked' = FALSE
      /\ UNCHANGED <<record, needle, def, primary, secondary, forwards,
                     valid_counter, ui, clean, steady>>
  BY DEF ReadBit
<1> DEFINE k == IF Expected = bitstream' THEN Increment(valid_counter, VALID_BITS + 1) ELSE 0
<1>6. rt' = [at |-> "count", n |-> k, good |-> rt.good]
  BY <1>5 DEF Count
<1>7. k = IF Stepped(def, forwards, bitstream) # bitstream' THEN 0
          ELSE IF valid_counter + 1 <= VALID_BITS + 1 THEN valid_counter + 1 ELSE VALID_BITS + 1
  BY <1>2, <1>3
<1> HIDE DEF k
<1>8. rt'.at = "count" /\ rt'.n = k /\ rt'.good = rt.good
  BY <1>6
<1>9. rt' # Sampling
  BY <1>8 DEF Sampling
<1> QED BY <1>4, <1>5, <1>6, <1>7, <1>8, <1>9

LEMMA ReadBitHolds ==
    ASSUME NoneWraps, IInv, ReadBit
    PROVE  IInv'
<1> DEFINE i == record
           f == forwards
           x == bitstream
           y == bitstream'
           b == rt.b
           v == valid_counter
           k == rt'.n
<1> SUFFICES ASSUME def \in DOMAIN timecodes PROVE DecoderInv'
  BY DEF IInv, ReadBit, Groove
<1>1. timecodes[def].lookup /\ TypeInv /\ SyncInv /\ TruthInv /\ LockInv
  BY DEF IInv, DecoderInv
<1>2. /\ i \in DOMAIN timecodes /\ i \in Records /\ DoesNotWrap(i)
      /\ Last \in Int /\ Before \in Int /\ Last = Onward(f, Before)
      /\ MaxBits \in Nat /\ MaxBits <= VALID_BITS /\ VALID_BITS \in Nat
      /\ Lock(i) \in Nat /\ Settle(i) \in Nat /\ Lock(i) = Settle(i) + VALID_BITS + 1
  BY RecordIs, Locks DEF IInv, NoneWraps, Onward, Last, Before, BeforeAt
<1>3. /\ rt.at = "bitstream"
      /\ y = Taken(def, f, x, b) /\ timecode' = y
      /\ rt'.at = "count" /\ rt' = [at |-> "count", n |-> k, good |-> rt.good]
      /\ rt'.good = rt.good
      /\ k = IF Stepped(def, f, x) # y THEN 0
             ELSE IF v + 1 <= VALID_BITS + 1 THEN v + 1 ELSE VALID_BITS + 1
      /\ unchecked' = FALSE
      /\ UNCHANGED <<record, needle, def, primary, secondary, forwards,
                     valid_counter, ui, clean, steady>>
  BY <1>1, ReadBitIs DEF TypeInv
<1>4. /\ b \in BOOLEAN /\ rt.good \in BOOLEAN /\ f \in BOOLEAN
      /\ x \subseteq 0 .. MaxBits - 1 /\ v \in 0 .. VALID_BITS + 1 /\ v \in Nat
      /\ clean \in Nat /\ steady \in Nat
  BY <1>1, <1>2, <1>3 DEF TypeInv, Reading
<1>5. y \subseteq 0 .. MaxBits - 1
  BY <1>3, <1>4, TakenFits
<1>6. k \in Nat /\ k <= VALID_BITS + 1 /\ k <= v + 1
  BY <1>2, <1>3, <1>4
<1>7. TypeInv'
  <2>1. rt' \in Reading
    BY <1>2, <1>3, <1>4, <1>6 DEF Reading
  <2> QED BY <1>1, <1>3, <1>5, <2>1 DEF TypeInv
<1>8. Last' = Last /\ (Good' <=> Good)
  BY <1>3 DEF Last, Good
<1>9. SyncInv'
  BY <1>1, <1>3, <1>8 DEF SyncInv, Synced, Primary, Secondary, Quarter, d
<1>10. ASSUME Good
       PROVE  /\ Truthful(i, f, y, clean + 1, k, Last)
              /\ Locking(i, f, y, steady + 1, k, Last)
  <2>1. /\ def = i /\ Last \in 0 .. Cycles(i) - 1 /\ (b <=> Bit(i, Last))
        /\ Truthful(i, f, x, clean, v, Before) /\ Locking(i, f, x, steady, v, Before)
    BY <1>1, <1>3, <1>10 DEF SyncInv, TruthInv, LockInv
  <2>2. y = Taken(i, f, x, b) /\ Cycles(i) \in Nat
    BY <1>2, <1>3, <2>1, Sizes
  <2>3. Window(i, f, y, 0, Last) /\ Settling(i, f, y, 0, Last)
    <3>1. IF f THEN Last >= -1 ELSE Last <= Cycles(i)
      BY <2>1, <2>2
    <3> QED BY <1>2, <1>4, <1>5, <3>1, NothingRead
  <2>4. ASSUME NEW m \in 0 .. MaxBits, m <= clean + 1, m <= k
        PROVE  Window(i, f, y, m, Last)
    <3>1. CASE m = 0
      BY <2>3, <3>1
    <3>2. CASE m > 0
      <4>1. /\ m - 1 \in Nat /\ m - 1 \in 0 .. MaxBits /\ (m - 1) + 1 = m
            /\ m - 1 <= clean /\ m - 1 <= v /\ k > 0
        BY <1>2, <1>4, <1>6, <2>4, <3>2
      <4>2. Window(i, f, x, m - 1, Before)
        BY <2>1, <4>1 DEF Truthful
      <4>3. Stepped(i, f, x) = y
        BY <1>3, <2>1, <4>1
      <4>4. ~(f /\ b /\ Bits(i) \in x)
        BY <1>2, <1>4, <2>2, <4>3, CarryIsUnexpected DEF Taken, Stepped
      <4>5. Window(i, f, Taken(i, f, x, b), (m - 1) + 1, Onward(f, Before))
        BY <1>2, <1>4, <2>1, <4>1, <4>2, <4>4, WindowStep
      <4> QED BY <1>2, <2>2, <4>1, <4>5
    <3> QED BY <1>2, <3>1, <3>2
  <2>5. ASSUME NEW s \in 0 .. Lock(i), s <= steady + 1
        PROVE  Settling(i, f, y, s, Last) /\ k >= s - Settle(i)
    <3>1. CASE s = 0
      BY <1>2, <1>6, <2>3, <3>1
    <3>2. CASE s > 0
      <4>1. /\ s - 1 \in Nat /\ s - 1 \in 0 .. Lock(i) /\ (s - 1) + 1 = s
            /\ s - 1 <= steady /\ s \in Nat
        BY <1>2, <1>4, <2>5, <3>2
      <4>2. Settling(i, f, x, s - 1, Before) /\ v >= (s - 1) - Settle(i)
        BY <2>1, <4>1 DEF Locking
      <4>3. Onward(f, Before) < Cycles(i) /\ (b <=> Bit(i, Onward(f, Before)))
            /\ Onward(f, Before) \in 0 .. Cycles(i) - 1
        BY <1>2, <2>1, <2>2
      <4>4. Settling(i, f, Taken(i, f, x, b), (s - 1) + 1, Onward(f, Before))
        BY <1>2, <1>4, <4>1, <4>2, <4>3, SettlingStep
      <4>5. CASE s - 1 >= Settle(i)
        <5>1. Taken(i, f, x, b) = Stepped(i, f, x)
          <6> DEFINE r == s - 1
                     e == Before
          <6>1. /\ r \in Nat /\ r >= Settle(i) /\ e \in Int
                /\ Onward(f, e) \in 0 .. Cycles(i) - 1
                /\ b <=> Bit(i, Onward(f, e))
                /\ Settling(i, f, x, r, e)
            BY <1>2, <4>1, <4>2, <4>3, <4>5
          <6>2. /\ i \in DOMAIN timecodes /\ DoesNotWrap(i) /\ f \in BOOLEAN
                /\ x \subseteq 0 .. MaxBits - 1 /\ b \in BOOLEAN
            BY <1>2, <1>4
          <6> HIDE DEF r, e, i, f, x, b
          <6> QED BY <6>1, <6>2, SettledIsExpected
        <5>2. k = IF v + 1 <= VALID_BITS + 1 THEN v + 1 ELSE VALID_BITS + 1
          BY <1>3, <2>1, <2>2, <5>1
        <5>3. k >= s - Settle(i)
          BY <1>2, <1>4, <2>5, <4>1, <4>2, <5>2
        <5> QED BY <1>2, <2>2, <4>1, <4>4, <5>3
      <4>6. CASE s - 1 < Settle(i)
        BY <1>2, <1>6, <2>2, <4>1, <4>4, <4>6
      <4> QED BY <1>2, <4>1, <4>5, <4>6
    <3> QED BY <1>2, <3>1, <3>2
  <2> QED BY <2>4, <2>5 DEF Truthful, Locking
<1>11. TruthInv' /\ LockInv'
  BY <1>3, <1>8, <1>10 DEF TruthInv, LockInv
<1> QED BY <1>7, <1>9, <1>11 DEF DecoderInv

(* A step after which no bits are claimed to have been read.               *)
LEMMA NothingClaimed ==
    ASSUME record' \in DOMAIN timecodes, needle' \in Groove', forwards' \in BOOLEAN,
           bitstream' \subseteq 0 .. MaxBits - 1, valid_counter' \in Nat,
           clean' = 0, steady' = 0, ~Good'
    PROVE  SyncInv' /\ TruthInv' /\ LockInv'
<1> DEFINE i == record'
           q == needle'
           f == forwards'
           e == LastAt(f, q)
<1>1. Last' = e
  BY DEF Last
<1>2. /\ e \in Int
      /\ IF f THEN e >= -1 ELSE e <= Cycles(i)
  <2>1. Cycles(i) \in Nat
    BY Sizes
  <2>2. q \in Nat /\ q <= 4 * Cycles(i)
    BY <2>1 DEF Groove
  <2>3. q \div 4 \in Nat /\ q \div 4 <= Cycles(i)
    <3>1. q \div 4 \in Nat /\ q = 4 * (q \div 4) + (q % 4) /\ q % 4 \in {0, 1, 2, 3}
      BY <2>2, Quarters
    <3> DEFINE c == Cycles(i)
               z == q \div 4
               w == q % 4
    <3>2. /\ q \in Nat /\ q <= 4 * c /\ c \in Nat /\ z \in Nat /\ q = 4 * z + w
          /\ w \in {0, 1, 2, 3}
      BY <2>1, <2>2, <3>1
    <3> HIDE DEF q, c, z, w
    <3>3. z \in Nat /\ z <= c
      BY <3>2
    <3> QED BY <3>3 DEF c, z
  <2> QED BY <2>1, <2>3 DEF LastAt
<1>3. /\ Truthful(i, f, bitstream', 0, valid_counter', e)
      /\ Locking(i, f, bitstream', 0, valid_counter', e)
  <2>1. 0 \in Nat
    OBVIOUS
  <2> HIDE DEF e
  <2> QED BY <1>2, <2>1, NoneYet
<1> QED BY <1>1, <1>3 DEF SyncInv, TruthInv, LockInv

LEMMA StoreCounterHolds ==
    ASSUME IInv, StoreCounter
    PROVE  IInv'
<1> DEFINE i == record
<1>1. /\ i \in DOMAIN timecodes /\ Last \in Int /\ MaxBits \in Nat /\ VALID_BITS \in Nat
      /\ Lock(i) \in Nat
  BY RecordIs, Locks
<1>2. /\ rt.at = "count" /\ valid_counter' = rt.n /\ rt' = [at |-> "sample"]
      /\ clean' = IF rt.good THEN Increment(clean, MaxBits) ELSE 0
      /\ steady' = IF rt.good THEN Increment(steady, Lock(i)) ELSE 0
      /\ UNCHANGED <<record, needle, def, primary, secondary, forwards, bitstream,
                     timecode, ui, unchecked>>
  BY DEF StoreCounter, Sampling, decoder
<1> SUFFICES ASSUME def \in DOMAIN timecodes PROVE timecodes[def].lookup /\ DecoderInv'
  BY <1>2 DEF IInv, Groove
<1>3. timecodes[def].lookup /\ TypeInv /\ SyncInv /\ TruthInv /\ LockInv
  BY DEF IInv, DecoderInv
<1>4. /\ rt.n \in 0 .. VALID_BITS + 1 /\ rt.good \in BOOLEAN
      /\ clean \in 0 .. MaxBits /\ clean \in Nat
      /\ steady \in 0 .. Lock(i) /\ steady \in Nat
      /\ forwards \in BOOLEAN /\ bitstream \subseteq 0 .. MaxBits - 1
  BY <1>1, <1>2, <1>3 DEF TypeInv, Reading
<1>5. /\ clean' = IF rt.good THEN IF clean + 1 <= MaxBits THEN clean + 1 ELSE MaxBits ELSE 0
      /\ steady' = IF rt.good THEN IF steady + 1 <= Lock(i) THEN steady + 1 ELSE Lock(i) ELSE 0
  BY <1>1, <1>2, <1>4, Increments
<1>6. /\ clean' \in 0 .. MaxBits /\ steady' \in 0 .. Lock(i)
      /\ clean' <= clean + 1 /\ steady' <= steady + 1
  BY <1>1, <1>4, <1>5
<1>7. TypeInv'
  <2>1. rt' \in Reading
    BY <1>2 DEF Reading
  <2> QED BY <1>2, <1>3, <1>4, <1>6, <2>1 DEF TypeInv
<1>8. rt'.at = "sample" /\ ~Good' /\ Last' = Last
  BY <1>2 DEF Good, Last
<1>9. SyncInv' /\ TruthInv' /\ LockInv'
  <2>1. CASE rt.good
    <3>1. Good
      BY <1>2, <2>1 DEF Good
    <3>2. /\ def = record /\ Synced
          /\ Truthful(i, forwards, bitstream, clean + 1, rt.n, Last)
          /\ Locking(i, forwards, bitstream, steady + 1, rt.n, Last)
      BY <1>2, <1>3, <3>1 DEF SyncInv, TruthInv, LockInv
    <3>3. Synced'
      BY <1>2, <3>2 DEF Synced, Primary, Secondary, Quarter, d
    <3>4. SyncInv'
      BY <1>2, <1>8, <3>2, <3>3 DEF SyncInv
    <3>5. Truthful(i, forwards, bitstream, clean', valid_counter', Last)
      BY <1>1, <1>2, <1>4, <1>6, <3>2 DEF Truthful
    <3>6. Locking(i, forwards, bitstream, steady', valid_counter', Last)
      BY <1>1, <1>2, <1>4, <1>6, <3>2 DEF Locking
    <3> QED BY <1>2, <1>8, <3>4, <3>5, <3>6 DEF TruthInv, LockInv
  <2>2. CASE ~rt.good
    <3>1. clean' = 0 /\ steady' = 0 /\ valid_counter' \in Nat /\ needle' \in Groove'
      BY <1>1, <1>2, <1>4, <1>5, <2>2 DEF IInv, Groove
    <3> QED BY <1>1, <1>2, <1>4, <1>8, <3>1, NothingClaimed
  <2> QED BY <1>4, <2>1, <2>2
<1> QED BY <1>3, <1>7, <1>9 DEF DecoderInv

LEMMA LiftHolds ==
    ASSUME IInv, NEW q \in Groove, Lift(q)
    PROVE  IInv'
<1>1. /\ record \in DOMAIN timecodes /\ MaxBits \in Nat /\ VALID_BITS \in Nat
      /\ Lock(record) \in Nat
  BY RecordIs, Locks
<1>2. /\ rt = [at |-> "sample"] /\ needle' = q /\ clean' = 0 /\ steady' = 0
      /\ UNCHANGED <<record, def, primary, secondary, forwards, bitstream,
                     timecode, valid_counter, rt, ui, unchecked>>
  BY DEF Lift, Sampling, decoder
<1>3. record' \in Records /\ needle' \in Groove' /\ def' \in 1 .. Len(timecodes) + 1
  BY <1>2 DEF IInv, Groove
<1> SUFFICES ASSUME def \in DOMAIN timecodes PROVE timecodes[def].lookup /\ DecoderInv'
  BY <1>2, <1>3 DEF IInv
<1>4. timecodes[def].lookup /\ TypeInv
  BY DEF IInv, DecoderInv
<1>5. TypeInv'
  <2>1. 0 \in 0 .. MaxBits /\ 0 \in 0 .. Lock(record)
    BY <1>1
  <2> QED BY <1>2, <1>4, <2>1 DEF TypeInv
<1>6. SyncInv' /\ TruthInv' /\ LockInv'
  <2>1. ~Good' /\ valid_counter' \in Nat
    BY <1>1, <1>2, <1>4 DEF Good, TypeInv
  <2> QED BY <1>1, <1>2, <1>3, <1>4, <2>1, NothingClaimed DEF TypeInv
<1> QED BY <1>4, <1>5, <1>6 DEF DecoderInv

(* next_definition comes back to where it was at the latest: it ends at a  *)
(* definition with a table, or one past the end if that looks like one.    *)
LEMMA CycleEnds ==
    ASSUME NEW i \in DOMAIN timecodes, timecodes[i].lookup, NEW beyond \in BOOLEAN
    PROVE  LET j == next_definition(i, beyond)
           IN  /\ j \in 1 .. Len(timecodes) + 1
               /\ j \in DOMAIN timecodes => timecodes[j].lookup
               /\ ~beyond => j \in DOMAIN timecodes
<1> DEFINE n == Len(timecodes)
           found(k) == IF After(i, k) \in DOMAIN timecodes
                       THEN timecodes[After(i, k)].lookup ELSE beyond
           S == {k \in 1 .. n + 1 : found(k)}
           m == Min(S)
<1>1. n \in Nat /\ DOMAIN timecodes = 1 .. n /\ i \in 1 .. n
  BY TimecoderAssumption
<1>2. After(i, n + 1) = i
  <2>1. ((i - 1) + (n + 1)) % (n + 1) = i - 1
    <3> DEFINE a == i - 1
               w == n + 1
    <3>1. a \in 0 .. w - 1 /\ w \in Nat /\ w > 0
      BY <1>1
    <3> HIDE DEF a, w
    <3>2. (a + w) % w = a
      BY <3>1
    <3> QED BY <3>2 DEF a, w
  <2>2. i + (n + 1) - 1 = (i - 1) + (n + 1)
    BY <1>1
  <2> QED BY <1>1, <2>1, <2>2 DEF After
<1>3. n + 1 \in S
  BY <1>1, <1>2
<1>4. S \subseteq Nat /\ S # {}
  BY <1>1, <1>3
<1>5. m \in S
  <2> HIDE DEF S
  <2> QED BY <1>4, Least
<1>6. After(i, m) \in 1 .. n + 1
  <2>1. m \in Nat /\ m >= 1
    BY <1>1, <1>5
  <2> HIDE DEF m
  <2>2. ((i + m) - 1) % (n + 1) \in 0 .. n
    BY <1>1, <2>1
  <2>3. i + m - 1 = (i + m) - 1
    BY <1>1, <2>1
  <2> QED BY <1>1, <2>2, <2>3 DEF After
<1>7. /\ After(i, m) \in DOMAIN timecodes => timecodes[After(i, m)].lookup
      /\ ~beyond => After(i, m) \in DOMAIN timecodes
  BY <1>5
<1>8. next_definition(i, beyond) = After(i, m)
  BY DEF next_definition
<1> QED BY <1>6, <1>7, <1>8

LEMMA CycleDefinitionHolds ==
    ASSUME IInv, CycleDefinition
    PROVE  IInv'
<1>1. /\ record \in DOMAIN timecodes /\ MaxBits \in Nat /\ VALID_BITS \in Nat
      /\ Lock(record) \in Nat
  BY RecordIs, Locks
<1>2. /\ def \in DOMAIN timecodes /\ ui' = "reset" /\ clean' = 0 /\ steady' = 0
      /\ unchecked' = TRUE
      /\ rt' = IF rt = [at |-> "sample"] THEN rt ELSE [rt EXCEPT !.good = FALSE]
      /\ UNCHANGED <<record, needle, primary, secondary, forwards, bitstream,
                     timecode, valid_counter>>
  BY DEF CycleDefinition, Sampling, decoder
<1>3. timecodes[def].lookup /\ TypeInv
  BY <1>2 DEF IInv, DecoderInv
<1>4. /\ def' \in 1 .. Len(timecodes) + 1
      /\ def' \in DOMAIN timecodes => timecodes[def'].lookup
  <2>1. PICK beyond \in Beyond : def' = next_definition(def, beyond)
    BY DEF CycleDefinition
  <2> QED BY <1>2, <1>3, <2>1, CycleEnds, TimecoderAssumption
<1>5. rt' \in Reading /\ ~Good'
  <2>1. rt \in Reading
    BY <1>3 DEF TypeInv
  <2>2. CASE rt = [at |-> "sample"]
    BY <1>2, <2>1, <2>2 DEF Good
  <2>3. CASE rt # [at |-> "sample"]
    <3>1. rt' = [rt EXCEPT !.good = FALSE]
      BY <1>2, <2>3
    <3>2. CASE rt \in [at : {"bitstream"}, b : BOOLEAN, good : BOOLEAN]
      <4>1. /\ rt' \in [at : {"bitstream"}, b : BOOLEAN, good : BOOLEAN]
            /\ rt'.good = FALSE
        BY <3>1, <3>2
      <4> QED BY <4>1 DEF Reading, Good
    <3>3. CASE rt \in [at : {"count"}, n : 0 .. VALID_BITS + 1, good : BOOLEAN]
      <4>1. /\ rt' \in [at : {"count"}, n : 0 .. VALID_BITS + 1, good : BOOLEAN]
            /\ rt'.good = FALSE
        BY <3>1, <3>3
      <4> QED BY <4>1 DEF Reading, Good
    <3> QED BY <2>1, <2>3, <3>2, <3>3 DEF Reading
  <2> QED BY <2>2, <2>3
<1>6. TypeInv'
  <2>1. 0 \in 0 .. MaxBits /\ 0 \in 0 .. Lock(record)
    BY <1>1
  <2> QED BY <1>2, <1>3, <1>5, <2>1 DEF TypeInv
<1>7. SyncInv' /\ TruthInv' /\ LockInv'
  <2>1. valid_counter' \in Nat /\ needle' \in Groove'
    BY <1>1, <1>2, <1>3 DEF TypeInv, IInv, Groove
  <2> QED BY <1>1, <1>2, <1>3, <1>5, <2>1, NothingClaimed DEF TypeInv
<1>8. record' \in Records /\ needle' \in Groove'
  BY <1>2 DEF IInv, Groove
<1> QED BY <1>4, <1>6, <1>7, <1>8 DEF IInv, DecoderInv

LEMMA ResetCounterHolds ==
    ASSUME IInv, ResetCounter
    PROVE  IInv'
<1> DEFINE i == record
<1>1. /\ i \in DOMAIN timecodes /\ needle \in Nat /\ needle \in Groove
      /\ Last \in Int /\ Before \in Int
      /\ MaxBits \in Nat /\ VALID_BITS \in Nat /\ Lock(i) \in Nat /\ Cycles(i) \in Nat
  BY RecordIs, Locks, Sizes
<1>2. /\ ui' = "idle" /\ valid_counter' = 0 /\ steady' = 0
      /\ UNCHANGED <<record, needle, def, primary, secondary, forwards, bitstream,
                     timecode, rt, clean, unchecked>>
  BY DEF ResetCounter, decoder
<1> SUFFICES ASSUME def \in DOMAIN timecodes PROVE timecodes[def].lookup /\ DecoderInv'
  BY <1>2 DEF IInv, Groove
<1>3. timecodes[def].lookup /\ TypeInv /\ SyncInv /\ TruthInv /\ LockInv
  BY DEF IInv, DecoderInv
<1>4. /\ forwards \in BOOLEAN /\ bitstream \subseteq 0 .. MaxBits - 1
      /\ clean \in Nat /\ steady \in Nat
  BY <1>1, <1>3 DEF TypeInv
<1>5. TypeInv'
  <2>1. 0 \in 0 .. VALID_BITS + 1 /\ 0 \in 0 .. Lock(i)
    BY <1>1
  <2> QED BY <1>2, <1>3, <2>1 DEF TypeInv
<1>6. (Good' <=> Good) /\ Last' = Last /\ Before' = Before
  BY <1>2 DEF Good, Last, Before
<1>7. SyncInv'
  <2>1. clean' > 0 \/ steady' > 0 \/ Good' => def = record /\ Synced
    BY <1>2, <1>3, <1>6 DEF SyncInv
  <2>2. Synced => Synced'
    BY <1>2 DEF Synced, Primary, Secondary, Quarter, d
  <2> QED BY <1>2, <1>3, <1>6, <2>1, <2>2 DEF SyncInv
<1>8. ASSUME NEW e \in Int, IF forwards THEN e >= -1 ELSE e <= Cycles(i)
      PROVE  /\ Truthful(i, forwards, bitstream, clean, 0, e)
             /\ Locking(i, forwards, bitstream, 0, 0, e)
  BY <1>1, <1>4, <1>8, NoneYet
<1>9. IF forwards THEN Last >= -1 ELSE Last <= Cycles(i)
  BY <1>1, <1>4, InTheGroove DEF Last
<1>10. Good => IF forwards THEN Before >= -1 ELSE Before <= Cycles(i)
  BY <1>1, <1>3, <1>4 DEF SyncInv, Before, BeforeAt, Last
<1>11. rt.at = "count" /\ Good => Locking(i, forwards, bitstream, 1, rt.n, Last)
  BY <1>1, <1>3, <1>4 DEF LockInv, Locking
<1>12. TruthInv'
  BY <1>1, <1>2, <1>3, <1>6, <1>8, <1>9, <1>10 DEF TruthInv
<1>13. LockInv'
  BY <1>1, <1>2, <1>6, <1>8, <1>9, <1>10, <1>11 DEF LockInv
<1> QED BY <1>3, <1>5, <1>7, <1>12, <1>13 DEF DecoderInv

(* Every step keeps it.                                                   *)
LEMMA StepHolds ==
    ASSUME NoneWraps, IInv, [Next]_vars
    PROVE  IInv'
<1>1. CASE \E q \in {needle - 1, needle, needle + 1} \intersect Groove : Sample(q)
  BY <1>1, SampleHolds
<1>2. CASE ReadBit
  BY <1>2, ReadBitHolds
<1>3. CASE StoreCounter
  BY <1>3, StoreCounterHolds
<1>4. CASE \E q \in Landings \intersect Groove : Lift(q)
  BY <1>4, LiftHolds
<1>5. CASE CycleDefinition
  BY <1>5, CycleDefinitionHolds
<1>6. CASE ResetCounter
  BY <1>6, ResetCounterHolds
<1>7. CASE UNCHANGED vars
  BY <1>7
     DEF vars, decoder, reads, IInv, DecoderInv, TypeInv, SyncInv, TruthInv, LockInv,
         Groove, Good, Last, Before, Synced, Primary, Secondary, Quarter, d
<1> QED BY <1>1, <1>2, <1>3, <1>4, <1>5, <1>6, <1>7 DEF Next

-----------------------------------------------------------------------------
(* The invariant holds of every behaviour.                                 *)
THEOREM Invariance ==
    ASSUME NoneWraps
    PROVE  Spec => []IInv
<1>1. IInv /\ [Next]_vars => IInv'
  BY StepHolds
<1> QED BY <1>1, InitHolds, PTL DEF Spec

(* As long as the decoder is with a definition of the table, what it keeps *)
(* is what timecoder_init and the handlers say it is; in particular the    *)
(* register and the timecode never grow wider than the widest definition,  *)
(* though a bit is added to them with a carry (timecoder.c:494).           *)
THEOREM TypeCorrect ==
    ASSUME NoneWraps
    PROVE  Spec => [](PointsToADefinition => TypeOK)
<1>1. IInv => (PointsToADefinition => TypeOK)
  <2> SUFFICES ASSUME IInv, def \in DOMAIN timecodes PROVE TypeOK
    BY DEF PointsToADefinition
  <2>1. TypeInv
    BY DEF IInv, DecoderInv
  <2>2. MaxBits \in Nat
    BY RecordIs
  <2>3. bitstream \subseteq 0 .. MaxBits /\ timecode \subseteq 0 .. MaxBits
    BY <2>1, <2>2 DEF TypeInv
  <2>4. rt.at \in {"sample", "bitstream", "count"}
    BY <2>1 DEF TypeInv, Reading
  <2> QED BY <2>1, <2>3, <2>4 DEF TypeOK, IInv, TypeInv
<1> QED BY <1>1, Invariance, PTL

(* The table finds a code of the record at its position, and nowhere else. *)
LEMMA LookupFinds ==
    ASSUME NEW i \in DOMAIN timecodes, DoesNotWrap(i), def = i,
           NEW p \in 0 .. timecodes[i].length - 1, bitstream = codes[i][p]
    PROVE  Lookup = p
<1> DEFINE at == {n \in DOMAIN codes[def] : codes[def][n] = bitstream}
<1>1. DOMAIN codes[i] = 0 .. timecodes[i].length - 1
  BY Codes
<1>2. at = {p}
  <2>1. ASSUME NEW n \in at PROVE n = p
    BY <1>1, Distinct
  <2> QED BY <1>1, <2>1
<1>3. p \in Nat /\ timecodes[i].length \in Nat
  BY Fields
<1> HIDE DEF at
<1>4. Max(at) = p
  BY <1>2, <1>3, Greatest
<1>5. Lookup = IF at = {} THEN -1 ELSE Max(at)
  BY DEF Lookup, at
<1> QED BY <1>2, <1>4, <1>5

(* Every bit read is one of the record, so the code is one of its codes.   *)
LEMMA InTheTable ==
    ASSUME NEW i \in DOMAIN timecodes, NEW f \in BOOLEAN,
           NEW q \in 0 .. 4 * Cycles(i), NEW m \in Nat, m > 0,
           ~f => LastAt(f, q) + m <= Cycles(i)
    PROVE  LET e == LastAt(f, q)
           IN  e \in Int /\ e < Cycles(i) /\ (f \/ e >= 0)
<1>1. Cycles(i) \in Nat
  BY Sizes
<1>2. q \in Nat /\ q <= 4 * Cycles(i)
  BY <1>1
<1>3. q \div 4 \in Nat /\ q \div 4 <= Cycles(i)
  <2>1. q \div 4 \in Nat /\ q = 4 * (q \div 4) + (q % 4) /\ q % 4 \in {0, 1, 2, 3}
    BY <1>2, Quarters
  <2> QED BY <1>1, <1>2, <2>1
<1> QED BY <1>1, <1>3 DEF LastAt

LEMMA WindowFound ==
    ASSUME NEW i \in DOMAIN timecodes, NEW f \in BOOLEAN,
           NEW x \in SUBSET (0 .. MaxBits - 1), NEW q \in 0 .. 4 * Cycles(i),
           Window(i, f, x, MaxBits, LastAt(f, q))
    PROVE  LET p == PosAt(i, f, LastAt(f, q))
           IN  p \in 0 .. timecodes[i].length - 1 /\ x = codes[i][p]
<1> DEFINE e == LastAt(f, q)
<1>1. MaxBits \in Nat /\ MaxBits > 0 /\ (~f => e + MaxBits <= Cycles(i))
  BY Sizes DEF Window, Behind
<1>2. e \in Int /\ e < Cycles(i) /\ (f \/ e >= 0)
  BY <1>1, InTheTable
<1> HIDE DEF e
<1>3. Window(i, f, x, MaxBits, e)
  BY DEF e
<1>4. PosAt(i, f, e) \in 0 .. timecodes[i].length - 1 /\ x = codes[i][PosAt(i, f, e)]
  BY <1>2, <1>3, WindowIsCode
<1> QED BY <1>4 DEF e

LEMMA SettledFound ==
    ASSUME NEW i \in DOMAIN timecodes, NEW f \in BOOLEAN,
           NEW x \in SUBSET (0 .. MaxBits - 1), NEW q \in 0 .. 4 * Cycles(i),
           NEW s \in Nat, s >= Settle(i), s > 0, Settling(i, f, x, s, LastAt(f, q))
    PROVE  LET p == PosAt(i, f, LastAt(f, q))
           IN  p \in 0 .. timecodes[i].length - 1 /\ x = codes[i][p]
<1> DEFINE e == LastAt(f, q)
<1>1. ~f => e + s <= Cycles(i)
  BY DEF Settling, Behind
<1>2. e \in Int /\ e < Cycles(i) /\ (f \/ e >= 0)
  BY <1>1, InTheTable
<1> HIDE DEF e
<1>3. Settling(i, f, x, s, e)
  BY DEF e
<1>4. PosAt(i, f, e) \in 0 .. timecodes[i].length - 1 /\ x = codes[i][PosAt(i, f, e)]
  BY <1>2, <1>3, SettledIsCode
<1> QED BY <1>4 DEF e

(* The decoder reports where the needle is or no position, once a          *)
(* register's width of right bits was read since the last disturbance,     *)
(* whatever way the record was moved meanwhile (timecoder_get_position).   *)
THEOREM PositionsAreTrue ==
    ASSUME NoneWraps
    PROVE  Spec => []ReportsTheTruth
<1>1. IInv => ReportsTheTruth
  <2> SUFFICES ASSUME IInv, rt = Sampling, def \in DOMAIN timecodes,
                      def = record, clean = MaxBits, ~(valid_counter <= VALID_BITS)
               PROVE  timecoder_get_position = TruePosition
    BY DEF ReportsTheTruth, Asking, timecoder_get_position
  <2> DEFINE i == record
             p == PosAt(i, forwards, Last)
  <2>1. TypeInv /\ TruthInv
    BY DEF IInv, DecoderInv
  <2>2. /\ i \in DOMAIN timecodes /\ DoesNotWrap(i) /\ needle \in 0 .. 4 * Cycles(i)
        /\ MaxBits \in Nat /\ MaxBits <= VALID_BITS /\ VALID_BITS \in Nat
    BY RecordIs DEF IInv, NoneWraps, Groove
  <2>3. /\ forwards \in BOOLEAN /\ bitstream \in SUBSET (0 .. MaxBits - 1)
        /\ valid_counter \in Nat
    BY <2>1, <2>2 DEF TypeInv
  <2>4. Window(i, forwards, bitstream, MaxBits, Last)
    <3>1. Truthful(i, forwards, bitstream, clean, valid_counter, Last)
      BY <2>1 DEF TruthInv, Sampling
    <3> QED BY <2>2, <2>3, <3>1 DEF Truthful
  <2>5. p \in 0 .. timecodes[i].length - 1 /\ bitstream = codes[i][p]
    BY <2>2, <2>3, <2>4, WindowFound DEF Last
  <2>6. p = TruePosition
    <3>1. needle \div 4 \in Nat /\ Bits(i) \in Nat
      BY <2>2, RecordIs, Quarters, Sizes
    <3> QED BY <3>1 DEF PosAt, TruePosition, Last, LastAt, Bits
  <2> HIDE DEF p
  <2>7. Lookup = p
    BY <2>2, <2>5, LookupFinds
  <2> QED BY <2>2, <2>3, <2>6, <2>7 DEF timecoder_get_position
<1> QED BY <1>1, Invariance, PTL

(* A record which plays on in one direction, as it should, is recognised   *)
(* by its own definition after Lock right bits, whatever the register held *)
(* before: the carries that another definition left behind have gone, and  *)
(* then VALID_BITS + 1 bits were expected (process_bitstream).             *)
THEOREM RecordsAreRecognised ==
    ASSUME NoneWraps
    PROVE  Spec => []LocksOn
<1>1. IInv => LocksOn
  <2> SUFFICES ASSUME IInv, rt = Sampling, def \in DOMAIN timecodes,
                      def = record, steady = Lock(record)
               PROVE  timecoder_get_position # -1
    BY DEF LocksOn, Asking
  <2> DEFINE i == record
             p == PosAt(i, forwards, Last)
             s == Lock(i)
  <2>1. TypeInv /\ LockInv
    BY DEF IInv, DecoderInv
  <2>2. /\ i \in DOMAIN timecodes /\ DoesNotWrap(i) /\ needle \in 0 .. 4 * Cycles(i)
        /\ MaxBits \in Nat /\ VALID_BITS \in Nat
        /\ Settle(i) \in Nat /\ s = Settle(i) + VALID_BITS + 1 /\ s \in Nat
    BY RecordIs, Locks DEF IInv, NoneWraps, Groove
  <2>3. /\ forwards \in BOOLEAN /\ bitstream \in SUBSET (0 .. MaxBits - 1)
        /\ valid_counter \in Nat
    BY <2>1, <2>2 DEF TypeInv
  <2>4. Settling(i, forwards, bitstream, s, Last) /\ valid_counter >= s - Settle(i)
    <3>1. Locking(i, forwards, bitstream, steady, valid_counter, Last)
      BY <2>1 DEF LockInv, Sampling
    <3> QED BY <2>2, <2>3, <3>1 DEF Locking
  <2>5. s >= Settle(i) /\ s > 0 /\ valid_counter >= VALID_BITS + 1
    BY <2>2, <2>3, <2>4
  <2> HIDE DEF s
  <2>6. p \in 0 .. timecodes[i].length - 1 /\ p \in Nat /\ bitstream = codes[i][p]
    <3>1. p \in 0 .. timecodes[i].length - 1 /\ bitstream = codes[i][p]
      BY <2>2, <2>3, <2>4, <2>5, SettledFound DEF Last
    <3> QED BY <2>2, <3>1, Fields
  <2> HIDE DEF p
  <2>7. Lookup = p
    BY <2>2, <2>6, LookupFinds
  <2> QED BY <2>2, <2>3, <2>5, <2>6, <2>7 DEF timecoder_get_position
<1> QED BY <1>1, Invariance, PTL
=============================================================================
