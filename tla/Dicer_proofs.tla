----------------------------- MODULE Dicer_proofs -----------------------------
(***************************************************************************)
(* What a controller shows and what it is sent, for any number of LEDs,    *)
(* any length of their commands and any buffer, whatever part of it is     *)
(* taken at a time: the buffer never overflows and, until a memmove left   *)
(* something of it behind (dicer.c:264), commands stay whole, and an LED   *)
(* that counts as synced either shows its state or has it on the way.      *)
(***************************************************************************)
EXTENDS Dicer, FiniteSetTheorems, TLAPS

(* The parts of commands, and what is known of an LED.                     *)
Cmd == [led : Led, on : BOOLEAN, pressed : BOOLEAN, part : 1..PARTS]
Flags == [on : BOOLEAN, pressed : BOOLEAN, synced : BOOLEAN]

(* Each part comes after those before it of the same command, and each     *)
(* command after a whole one.                                              *)
Follows(s) ==
    /\ \A i \in 1..Len(s) :
        /\ s[i].part <= i
        /\ \A p \in 1..s[i].part : s[i - s[i].part + p] = [s[i] EXCEPT !.part = p]
    /\ \A i \in 1..(Len(s) - 1) :
        s[i + 1].part = IF s[i].part = PARTS THEN 1 ELSE s[i].part + 1

Ends(s) == Len(s) > 0 => s[Len(s)].part = PARTS

(* The last of the commands for the LED sets it so, or there is none and   *)
(* it has been set so.                                                     *)
Set(s, l, flags, i) == s[i].led = l /\ s[i].on = flags.on /\ s[i].pressed = flags.pressed
LastFor(s, l, i) == \A k \in (i + 1)..Len(s) : s[k].led # l
Known(flags) == [on |-> flags.on, pressed |-> flags.pressed, known |-> TRUE]

Tells(s, l, flags, seen) ==
    \/ \E i \in 1..Len(s) : Set(s, l, flags, i) /\ LastFor(s, l, i)
    \/ LastFor(s, l, 0) /\ seen = Known(flags)

(* What the hardware has begun to take, and what waits behind it.          *)
Good(m, b, leds, seen) ==
    /\ m \in Seq(Cmd) /\ b \in Seq(Cmd)
    /\ Len(m) < PARTS /\ \A i \in 1..Len(m) : m[i].part = i
    /\ Follows(m \o b) /\ Ends(m \o b)
    /\ \A l \in Led : leds[l].synced => Tells(m \o b, l, leds[l], seen[l])

IInv ==
    /\ led \in [Led -> Flags] /\ cue \subseteq Led /\ cut \in BOOLEAN
    /\ obuf \in Seq(Cmd) /\ Len(obuf) <= OBUF
    /\ \A l \in Led : led[l].on <=> l \in cue
    /\ ~cut => Good(midi, obuf, led, shown)

-----------------------------------------------------------------------------
(* Arithmetic and sequences.                                               *)

(* The quotient and the remainder.                                         *)
LEMMA DivMod ==
    ASSUME NEW b \in Nat \ {0}, NEW k \in Nat
    PROVE  k \div b \in Nat /\ k % b \in 0..(b - 1) /\ k = (k \div b) * b + (k % b)
OBVIOUS

LEMMA DivUnique ==
    ASSUME NEW b \in Nat \ {0}, NEW k \in Nat, NEW q \in Nat, NEW r \in 0..(b - 1),
           k = q * b + r
    PROVE  k \div b = q /\ k % b = r
OBVIOUS

(* The part that follows another in a command of b parts, round and round. *)
LEMMA NextPart ==
    ASSUME NEW b \in Nat \ {0}, NEW v \in 1..b
    PROVE  (v % b) + 1 = IF v = b THEN 1 ELSE v + 1
<1>1. CASE v < b
  <2>1. v \in 0..(b - 1) /\ 0 \in Nat /\ v \in Nat /\ v = 0 * b + v
    BY <1>1
  <2>2. v % b = v
    BY <2>1, DivUnique
  <2> QED BY <1>1, <2>2
<1>2. CASE v = b
  <2>1. 0 \in 0..(b - 1) /\ 1 \in Nat /\ v \in Nat /\ v = 1 * b + 0
    BY <1>2
  <2>2. v % b = 0
    BY <2>1, DivUnique
  <2> QED BY <1>2, <2>2
<1> QED BY <1>1, <1>2

(* Products and the order.                                                 *)
LEMMA OneMore ==
    ASSUME NEW q \in Nat, NEW b \in Nat
    PROVE  (q + 1) * b = q * b + b /\ b * (q + 1) = q * b + b
OBVIOUS

LEMMA TimesMonotonic ==
    ASSUME NEW b \in Nat, NEW q \in Nat, NEW r \in Nat, q <= r
    PROVE  b * q <= b * r /\ q * b <= b * r /\ b * q = q * b
OBVIOUS

LEMMA TimesLess ==
    ASSUME NEW b \in Nat \ {0}, NEW q \in Nat, NEW r \in Nat, q * b < b * r
    PROVE  q < r
OBVIOUS

(* The parts of one command lie at and before its last; what is behind.    *)
LEMMA Within ==
    ASSUME NEW n \in Int, NEW i \in 1..n, NEW q \in Int, q <= i, NEW p \in 1..q
    PROVE  i - q + p \in 1..n
OBVIOUS

LEMMA Behind ==
    ASSUME NEW n \in Nat, NEW d \in Nat, NEW i \in 1..n, i > d
    PROVE  i \in d..n /\ i - d \in 1..(n - d) /\ d + (i - d) = i
OBVIOUS

LEMMA Later ==
    ASSUME NEW n \in Int, NEW i \in 1..n, NEW k \in (i + 1)..n
    PROVE  k \in 1..n /\ k > i
OBVIOUS

(* One list after another.                                                 *)
LEMMA Concat ==
    ASSUME NEW S, NEW a \in Seq(S), NEW b \in Seq(S)
    PROVE  /\ a \o b \in Seq(S) /\ Len(a \o b) = Len(a) + Len(b)
           /\ Len(a) \in Nat /\ Len(b) \in Nat
           /\ \A i \in 1..Len(a) : (a \o b)[i] = a[i]
           /\ \A i \in 1..Len(b) : (a \o b)[Len(a) + i] = b[i]
           /\ \A i \in 1..(Len(a) + Len(b)) :
                  (a \o b)[i] = IF i <= Len(a) THEN a[i] ELSE b[i - Len(a)]
OBVIOUS

-----------------------------------------------------------------------------
(* The LEDs that are synced, in their order.                               *)

(* As many, and no two the same: all.                                      *)
LEMMA OntoFromInto ==
    ASSUME NEW S, NEW T, IsFiniteSet(T), Cardinality(S) = Cardinality(T),
           NEW f \in Injection(S, T)
    PROVE  \A t \in T : \E s \in S : f[s] = t
<1>1. f \in Surjection(S, T)
  BY FS_Injection
<1> QED BY <1>1 DEF Surjection

(* Each LED has a rank among those chosen, and each rank an LED.           *)
LEMMA Ranks ==
    ASSUME NEW now, now \subseteq Led
    PROVE  /\ IsFiniteSet(now) /\ Cardinality(now) \in Nat
           /\ InOrder(now) \in [1..Cardinality(now) -> now]
           /\ \A l \in now : \E i \in 1..Cardinality(now) : InOrder(now)[i] = l
           /\ \A i \in 1..Cardinality(now) : Cardinality(now \cap (1..InOrder(now)[i])) = i
<1> DEFINE upto(l) == now \cap (1..l)
           K == Cardinality(now)
           f == [l \in now |-> Cardinality(upto(l))]
<1>1. Led \subseteq Nat \ {0} /\ IsFiniteSet(Led)
  BY DicerAssumption, FS_Interval DEF Led
<1>2. IsFiniteSet(now) /\ K \in Nat
  BY <1>1, FS_Subset, FS_CardinalityType
<1>3. ASSUME NEW l \in now
      PROVE  IsFiniteSet(upto(l)) /\ Cardinality(upto(l)) \in 1..K
  <2>1. upto(l) \in SUBSET now /\ l \in upto(l)
    BY <1>1
  <2>2. IsFiniteSet(upto(l)) /\ Cardinality(upto(l)) <= K /\ Cardinality(upto(l)) \in Nat
    BY <1>2, <2>1, FS_Subset, FS_CardinalityType
  <2>3. Cardinality(upto(l)) # 0
    BY <2>1, <2>2, FS_EmptySet
  <2> QED BY <1>2, <2>2, <2>3
<1>4. ASSUME NEW l \in now, NEW m \in now, l < m
      PROVE  Cardinality(upto(l)) # Cardinality(upto(m))
  <2>1. upto(l) \in SUBSET upto(m) /\ m \in upto(m) /\ m \notin upto(l)
    BY <1>1, <1>4
  <2> HIDE DEF upto
  <2> QED BY <1>3, <2>1, FS_Subset
<1>5. f \in Injection(now, 1..K)
  <2>1. f \in [now -> 1..K]
    BY <1>3
  <2>2. ASSUME NEW l \in now, NEW m \in now, f[l] = f[m] PROVE l = m
    <3>1. ~(l < m) /\ ~(m < l)
      BY <1>4, <2>2
    <3> QED BY <1>1, <3>1
  <2> QED BY <2>1, <2>2 DEF Injection, IsInjective
<1>6. \A i \in 1..K : \E l \in now : f[l] = i
  <2>1. Cardinality(1..K) = K /\ IsFiniteSet(1..K)
    BY <1>2, FS_Interval
  <2>2. Cardinality(now) = Cardinality(1..K)
    BY <2>1
  <2> DEFINE T == 1..K
  <2>3. IsFiniteSet(T) /\ Cardinality(now) = Cardinality(T) /\ f \in Injection(now, T)
    BY <1>5, <2>1, <2>2
  <2> HIDE DEF f, K, T
  <2>4. \A t \in T : \E l \in now : f[l] = t
    BY <2>3, OntoFromInto
  <2> QED BY <2>4 DEF T
<1>7. \A i \in 1..K : \E l \in now : Cardinality(upto(l)) = i
  BY <1>6
<1>8. \A i \in 1..K : InOrder(now)[i] \in now /\ Cardinality(upto(InOrder(now)[i])) = i
  BY <1>7 DEF InOrder
<1>9. ASSUME NEW l \in now PROVE \E i \in 1..K : InOrder(now)[i] = l
  <2>1. PICK i \in 1..K : Cardinality(upto(l)) = i
    BY <1>3
  <2>2. InOrder(now)[i] \in now /\ Cardinality(upto(InOrder(now)[i])) = i
    BY <1>8
  <2>3. ~(l < InOrder(now)[i]) /\ ~(InOrder(now)[i] < l)
    BY <1>4, <2>1, <2>2
  <2>4. l \in Int /\ InOrder(now)[i] \in Int
    <3>1. \A x \in now : x \in Int
      BY <1>1
    <3> QED BY <2>2, <3>1
  <2>5. InOrder(now)[i] = l
    BY <2>3, <2>4
  <2> WITNESS i \in 1..K
  <2> QED BY <2>5
<1>10. InOrder(now) \in [1..K -> now]
  BY <1>8 DEF InOrder
<1> QED BY <1>2, <1>8, <1>9, <1>10

(* There is room for the commands of all of them.                          *)
LEMMA RoomForNow ==
    ASSUME NEW leds, NEW room \in Nat
    PROVE  /\ NowSynced(leds, room) \subseteq Led
           /\ Cardinality(NowSynced(leds, room)) \in Nat
           /\ PARTS * Cardinality(NowSynced(leds, room)) <= room
<1> DEFINE now == NowSynced(leds, room)
           K == Cardinality(now)
           stale(l) == {m \in 1..l : ~leds[m].synced}
<1>1. now \subseteq Led
  BY DEF NowSynced
<1> HIDE DEF now
<1>2. K \in Nat
  BY <1>1, Ranks
<1>3. CASE K = 0
  BY <1>1, <1>2, <1>3, DicerAssumption DEF now
<1>4. CASE K # 0
  <2> DEFINE l == InOrder(now)[K]
  <2>1. l \in now /\ Cardinality(now \cap (1..l)) = K
    BY <1>1, <1>2, <1>4, Ranks
  <2> HIDE DEF l
  <2>2. PARTS * Cardinality(stale(l)) <= room
    BY <2>1 DEF now, NowSynced
  <2>3. now \cap (1..l) \in SUBSET stale(l) /\ stale(l) \subseteq 1..l /\ l \in Int
    BY <1>1, <2>1, DicerAssumption DEF now, NowSynced, Led
  <2>4. IsFiniteSet(stale(l)) /\ Cardinality(stale(l)) \in Nat
    <3> DEFINE T == stale(l)
    <3>1. T \in SUBSET (1..l) /\ IsFiniteSet(1..l)
      BY <2>3, FS_Interval
    <3> HIDE DEF T
    <3>2. IsFiniteSet(T) /\ Cardinality(T) \in Nat
      BY <3>1, FS_Subset, FS_CardinalityType
    <3> QED BY <3>2 DEF T
  <2>5. K <= Cardinality(stale(l))
    <3> HIDE DEF stale, K
    <3> QED BY <2>1, <2>3, <2>4, FS_Subset
  <2>6. PARTS \in Nat
    BY DicerAssumption
  <2> HIDE DEF stale, K
  <2>7. PARTS * K <= PARTS * Cardinality(stale(l))
    BY <1>2, <2>4, <2>5, <2>6, TimesMonotonic
  <2>8. PARTS * K \in Nat /\ PARTS * Cardinality(stale(l)) \in Nat
    BY <1>2, <2>4, <2>6
  <2> QED BY <1>1, <1>2, <2>2, <2>7, <2>8 DEF now, K
<1> QED BY <1>3, <1>4

LEMMA Joined ==
    ASSUME NEW S, NEW a \in Seq(S), NEW b \in Seq(S), NEW c \in Seq(S)
    PROVE  (a \o b) \o c = a \o (b \o c)
OBVIOUS

(* Small steps of the proofs below.                                        *)
LEMMA Shifted ==
    ASSUME NEW i \in Int, NEW j \in Int, NEW n \in Int, NEW v \in Int, NEW p \in Int,
           i = n + j
    PROVE  i - v + p = n + (j - v + p)
OBVIOUS

LEMMA PartOf ==
    ASSUME NEW s \in Seq(Cmd)
    PROVE  \A i \in 1..Len(s) : s[i] \in Cmd /\ s[i].part \in 1..PARTS
<1>1. \A i \in 1..Len(s) : s[i] \in Cmd
  OBVIOUS
<1>2. \A e \in Cmd : e.part \in 1..PARTS
  BY DEF Cmd
<1> QED BY <1>1, <1>2

(* A list of whole commands may follow whatever ends with one.             *)
LEMMA FollowsMore ==
    ASSUME NEW s \in Seq(Cmd), NEW c \in Seq(Cmd),
           Follows(s), Ends(s), Follows(c), Ends(c)
    PROVE  Follows(s \o c) /\ Ends(s \o c)
<1> DEFINE t == s \o c
<1>1. /\ t \in Seq(Cmd) /\ Len(t) = Len(s) + Len(c)
      /\ Len(s) \in Nat /\ Len(c) \in Nat /\ PARTS \in Nat \ {0}
      /\ \A i \in 1..Len(t) : t[i] = IF i <= Len(s) THEN s[i] ELSE c[i - Len(s)]
  BY Concat, DicerAssumption
<1>2. /\ \A i \in 1..Len(s) : s[i].part \in 1..PARTS
      /\ \A i \in 1..Len(c) : c[i].part \in 1..PARTS
  BY PartOf
<1>3. \A k \in 1..Len(c) : t[Len(s) + k] = c[k]
  BY Concat
<1> HIDE DEF t
<1>4. ASSUME NEW i \in 1..Len(t)
      PROVE  /\ t[i].part <= i
             /\ \A p \in 1..t[i].part : t[i - t[i].part + p] = [t[i] EXCEPT !.part = p]
  <2>1. CASE i <= Len(s)
    <3>1. i \in 1..Len(s) /\ t[i] = s[i]
      BY <1>1, <2>1
    <3>2. /\ s[i].part <= i /\ s[i].part \in 1..PARTS
          /\ \A p \in 1..s[i].part : s[i - s[i].part + p] = [s[i] EXCEPT !.part = p]
      BY <1>2, <3>1 DEF Follows
    <3>3. ASSUME NEW p \in 1..s[i].part PROVE t[i - s[i].part + p] = s[i - s[i].part + p]
      <4>1. i - s[i].part + p \in 1..Len(s)
        BY <1>1, <3>1, <3>2
      <4>2. i - s[i].part + p \in 1..Len(t)
        BY <1>1, <4>1
      <4> QED BY <1>1, <4>1, <4>2
    <3> QED BY <3>1, <3>2, <3>3
  <2>2. CASE i > Len(s)
    <3>1. PICK j \in 1..Len(c) : i = Len(s) + j /\ t[i] = c[j]
      <4>1. i - Len(s) \in 1..Len(c) /\ t[i] = c[i - Len(s)]
        BY <1>1, <2>2
      <4>2. i = Len(s) + (i - Len(s))
        BY <1>1
      <4> QED BY <4>1, <4>2
    <3>2. /\ c[j].part <= j /\ c[j].part \in 1..PARTS
          /\ \A p \in 1..c[j].part : c[j - c[j].part + p] = [c[j] EXCEPT !.part = p]
      BY <1>2 DEF Follows
    <3>3. ASSUME NEW p \in 1..c[j].part PROVE t[i - c[j].part + p] = c[j - c[j].part + p]
      <4>2. /\ c[j].part \in Int /\ i \in Int /\ j \in Int /\ p \in Int
            /\ Len(s) \in Int /\ Len(c) \in Int /\ j \in 1..Len(c)
        BY <1>1, <3>1, <3>2
      <4>1. PICK k \in 1..Len(c) : k = j - c[j].part + p
        BY <3>2, <4>2, Within
      <4>3. i - c[j].part + p = Len(s) + k
        BY <3>1, <4>1, <4>2, Shifted, SMTT(30)
      <4> QED BY <1>3, <4>1, <4>3
    <3>4. c[j].part <= i
      <4>1. c[j].part \in Int /\ j \in Int /\ Len(s) \in Nat
        BY <1>1, <3>2
      <4> QED BY <3>1, <3>2, <4>1
    <3>5. t[i].part <= i
      BY <3>1, <3>4
    <3>6. ASSUME NEW p \in 1..t[i].part
          PROVE  t[i - t[i].part + p] = [t[i] EXCEPT !.part = p]
      <4>1. p \in 1..c[j].part
        BY <3>1
      <4>2. t[i - c[j].part + p] = [c[j] EXCEPT !.part = p]
        BY <3>2, <3>3, <4>1
      <4> QED BY <3>1, <4>2
    <3> QED BY <3>5, <3>6
  <2>3. i <= Len(s) \/ i > Len(s)
    BY <1>1
  <2> QED BY <2>1, <2>2, <2>3
<1>5. ASSUME NEW i \in 1..(Len(t) - 1)
      PROVE  t[i + 1].part = IF t[i].part = PARTS THEN 1 ELSE t[i].part + 1
  <2>1. CASE i < Len(s)
    <3>1. i \in 1..(Len(s) - 1) /\ t[i] = s[i] /\ t[i + 1] = s[i + 1]
      BY <1>1, <2>1
    <3> QED BY <3>1 DEF Follows
  <2>2. CASE i = Len(s)
    <3>1. 1 \in 1..Len(c) /\ t[i + 1] = c[1] /\ t[i] = s[Len(s)] /\ Len(s) > 0
      BY <1>1, <2>2
    <3>3. s[Len(s)].part = PARTS
      BY <3>1 DEF Ends
    <3>2. c[1].part <= 1 /\ c[1].part \in 1..PARTS
      BY <1>2, <3>1 DEF Follows
    <3> QED BY <3>1, <3>2, <3>3
  <2>3. CASE i > Len(s)
    <3> DEFINE j == i - Len(s)
    <3>1. j \in 1..(Len(c) - 1) /\ t[i] = c[j] /\ t[i + 1] = c[j + 1]
      BY <1>1, <2>3
    <3> HIDE DEF j
    <3> QED BY <3>1 DEF Follows
  <2> QED BY <1>1, <2>1, <2>2, <2>3
<1>6. Follows(t)
  BY <1>4, <1>5 DEF Follows
<1>7. Ends(t)
  <2>1. CASE Len(c) = 0
    <3>1. Len(t) = Len(s) /\ (Len(t) > 0 => t[Len(t)] = s[Len(s)])
      BY <1>1, <2>1
    <3> QED BY <3>1 DEF Ends
  <2>2. CASE Len(c) > 0
    <3>1. Len(t) > 0 /\ t[Len(t)] = c[Len(c)]
      BY <1>1, <2>2
    <3> QED BY <2>2, <3>1 DEF Ends
  <2> QED BY <1>1, <2>1, <2>2
<1> QED BY <1>6, <1>7 DEF t

(* What comes behind tells of the LED, or says nothing of it.              *)
LEMMA TellsMore ==
    ASSUME NEW s \in Seq(Cmd), NEW c \in Seq(Cmd), NEW l, NEW flags, NEW seen,
           \/ \E i \in 1..Len(c) : Set(c, l, flags, i) /\ LastFor(c, l, i)
           \/ LastFor(c, l, 0) /\ Tells(s, l, flags, seen)
    PROVE  Tells(s \o c, l, flags, seen)
<1> DEFINE t == s \o c
<1>1. /\ Len(t) = Len(s) + Len(c) /\ Len(s) \in Nat /\ Len(c) \in Nat
      /\ \A i \in 1..Len(t) : t[i] = IF i <= Len(s) THEN s[i] ELSE c[i - Len(s)]
  BY Concat
<1> HIDE DEF t
<1>2. ASSUME NEW i \in 1..Len(c), Set(c, l, flags, i), LastFor(c, l, i)
      PROVE  Tells(t, l, flags, seen)
  <2>1. Len(s) + i \in 1..Len(t) /\ Set(t, l, flags, Len(s) + i)
    <3>1. Len(s) + i \in 1..Len(t) /\ ~(Len(s) + i <= Len(s)) /\ (Len(s) + i) - Len(s) = i
      BY <1>1
    <3>2. t[Len(s) + i] = c[i]
      BY <1>1, <3>1
    <3> QED BY <1>2, <3>1, <3>2 DEF Set
  <2>2. LastFor(t, l, Len(s) + i)
    <3> SUFFICES ASSUME NEW k \in (Len(s) + i + 1)..Len(t) PROVE t[k].led # l
      BY DEF LastFor
    <3>1. k - Len(s) \in (i + 1)..Len(c) /\ t[k] = c[k - Len(s)]
      BY <1>1
    <3> QED BY <1>2, <3>1 DEF LastFor
  <2> QED BY <2>1, <2>2 DEF Tells
<1>3. ASSUME LastFor(c, l, 0), NEW i \in 0..Len(s), LastFor(s, l, i)
      PROVE  LastFor(t, l, i)
  <2> SUFFICES ASSUME NEW k \in (i + 1)..Len(t) PROVE t[k].led # l
    BY DEF LastFor
  <2>1. CASE k <= Len(s)
    BY <1>1, <1>3, <2>1 DEF LastFor
  <2>2. CASE k > Len(s)
    <3>1. k - Len(s) \in 1..Len(c) /\ t[k] = c[k - Len(s)]
      BY <1>1, <2>2
    <3> QED BY <1>3, <3>1 DEF LastFor
  <2> QED BY <1>1, <2>1, <2>2
<1>4. ASSUME LastFor(c, l, 0), NEW i \in 1..Len(s), Set(s, l, flags, i), LastFor(s, l, i)
      PROVE  Tells(t, l, flags, seen)
  <2>1. i \in 1..Len(t) /\ Set(t, l, flags, i)
    BY <1>1, <1>4 DEF Set
  <2> QED BY <1>1, <1>3, <1>4, <2>1 DEF Tells
<1> QED BY <1>1, <1>2, <1>3, <1>4 DEF Tells, t

-----------------------------------------------------------------------------
(* The commands of LEDs, each in its place.                                *)

(* Part p of the j-th command is at one place, and each place is that of   *)
(* one.                                                                    *)
LEMMA PlaceIn ==
    ASSUME NEW b \in Nat \ {0}, NEW K \in Nat, NEW j \in 1..K, NEW p \in 1..b
    PROVE  /\ (j - 1) * b + p \in 1..(b * K)
           /\ ((j - 1) * b + p - 1) \div b + 1 = j
           /\ (((j - 1) * b + p - 1) % b) + 1 = p
<1> DEFINE q == j - 1
<1>1. q \in Nat /\ q + 1 <= K /\ q * b \in Nat /\ b * K \in Nat /\ (q + 1) * b \in Nat
  OBVIOUS
<1>2. (q + 1) * b = q * b + b /\ (q + 1) * b <= b * K
  BY <1>1, OneMore, TimesMonotonic
<1>3. q * b + p \in 1..(b * K)
  BY <1>1, <1>2
<1>4. p - 1 \in 0..(b - 1) /\ q * b + p - 1 \in Nat /\ q * b + p - 1 = q * b + (p - 1)
  BY <1>1
<1>5. (q * b + p - 1) \div b = q /\ (q * b + p - 1) % b = p - 1
  BY <1>1, <1>4, DivUnique
<1>6. q + 1 = j /\ (p - 1) + 1 = p
  OBVIOUS
<1> HIDE DEF q
<1>7. (q * b + p - 1) \div b + 1 = j /\ ((q * b + p - 1) % b) + 1 = p
  BY <1>5, <1>6
<1> QED BY <1>3, <1>7 DEF q

LEMMA PlaceOf ==
    ASSUME NEW b \in Nat \ {0}, NEW K \in Nat, NEW i \in 1..(b * K)
    PROVE  \E j \in 1..K, p \in 1..b : i = (j - 1) * b + p
<1>1. i - 1 \in Nat /\ b * K \in Nat
  OBVIOUS
<1>2. PICK q \in Nat, r \in 0..(b - 1) : i - 1 = q * b + r
  BY <1>1, DivMod
<1>3. q * b \in Nat /\ q * b < b * K
  BY <1>1, <1>2
<1>4. q < K
  BY <1>3, TimesLess
<1>5. q + 1 \in 1..K /\ r + 1 \in 1..b /\ (q + 1) - 1 = q /\ i = q * b + (r + 1)
  BY <1>2, <1>3, <1>4
<1> QED BY <1>5

(* What sync_one_led writes for an LED (dicer.c:148-190).                  *)
LEMMA Fields ==
    ASSUME NEW l, NEW flags, NEW p
    PROVE  /\ led_cmd(l, flags, p).led = l /\ led_cmd(l, flags, p).part = p
           /\ led_cmd(l, flags, p).on = flags.on
           /\ led_cmd(l, flags, p).pressed = flags.pressed
           /\ \A q : [led_cmd(l, flags, p) EXCEPT !.part = q] = led_cmd(l, flags, q)
BY DEF led_cmd

LEMMA CommandsAre ==
    ASSUME NEW leds \in [Led -> Flags], NEW now, now \subseteq Led,
           NEW c, c = Commands(leds, now), NEW K, K = Cardinality(now),
           NEW order, order = InOrder(now)
    PROVE  /\ K \in Nat /\ order \in [1..K -> now]
           /\ c \in Seq(Cmd) /\ Len(c) = PARTS * K
           /\ \A j \in 1..K, p \in 1..PARTS : (j - 1) * PARTS + p \in 1..Len(c)
           /\ \A j \in 1..K, p \in 1..PARTS :
                c[(j - 1) * PARTS + p] = led_cmd(order[j], leds[order[j]], p)
           /\ \A i \in 1..Len(c) :
                \E j \in 1..K, p \in 1..PARTS : i = (j - 1) * PARTS + p
<1> DEFINE of(i) == order[(i - 1) \div PARTS + 1]
           cmd(i) == led_cmd(of(i), leds[of(i)], ((i - 1) % PARTS) + 1)
<1>1. K \in Nat /\ order \in [1..K -> now] /\ PARTS \in Nat \ {0}
  BY Ranks, DicerAssumption
<1>2. c = [i \in 1..(PARTS * K) |-> cmd(i)]
  BY DEF Commands
<1>3. ASSUME NEW j \in 1..K, NEW p \in 1..PARTS
      PROVE  /\ (j - 1) * PARTS + p \in 1..(PARTS * K)
             /\ cmd((j - 1) * PARTS + p) = led_cmd(order[j], leds[order[j]], p)
  <2> DEFINE i == (j - 1) * PARTS + p
  <2>1. i \in 1..(PARTS * K) /\ (i - 1) \div PARTS + 1 = j /\ ((i - 1) % PARTS) + 1 = p
    BY <1>1, PlaceIn
  <2> HIDE DEF i
  <2>2. cmd(i) = led_cmd(order[j], leds[order[j]], p)
    BY <2>1
  <2> QED BY <2>1, <2>2 DEF i
<1>4. \A i \in 1..(PARTS * K) : \E j \in 1..K, p \in 1..PARTS : i = (j - 1) * PARTS + p
  BY <1>1, PlaceOf
<1>5. ASSUME NEW j \in 1..K, NEW p \in 1..PARTS
      PROVE  led_cmd(order[j], leds[order[j]], p) \in Cmd
  BY <1>1 DEF led_cmd, Cmd, Flags
<1> HIDE DEF of, cmd
<1>6. ASSUME NEW i \in 1..(PARTS * K) PROVE cmd(i) \in Cmd
  <2>1. PICK j \in 1..K, p \in 1..PARTS : i = (j - 1) * PARTS + p
    BY <1>4
  <2>2. cmd(i) = led_cmd(order[j], leds[order[j]], p)
    BY <1>3, <2>1
  <2> QED BY <1>5, <2>2
<1>7. PARTS * K \in Nat
  BY <1>1
<1>8. c \in Seq(Cmd) /\ Len(c) = PARTS * K
  BY <1>2, <1>6, <1>7
<1>9. ASSUME NEW j \in 1..K, NEW p \in 1..PARTS
      PROVE  c[(j - 1) * PARTS + p] = led_cmd(order[j], leds[order[j]], p)
  BY <1>2, <1>3
<1>10. \A j \in 1..K, p \in 1..PARTS : (j - 1) * PARTS + p \in 1..Len(c)
  BY <1>3, <1>8
<1>11. \A i \in 1..Len(c) : \E j \in 1..K, p \in 1..PARTS : i = (j - 1) * PARTS + p
  BY <1>4, <1>8
<1> QED BY <1>1, <1>8, <1>9, <1>10, <1>11

(* They are whole, and the last of them for an LED says how it is.         *)
LEMMA CommandsFollow ==
    ASSUME NEW leds \in [Led -> Flags], NEW now, now \subseteq Led
    PROVE  LET c == Commands(leds, now)
           IN /\ c \in Seq(Cmd) /\ Len(c) = PARTS * Cardinality(now)
              /\ Follows(c) /\ Ends(c)
              /\ \A l \in now : \E i \in 1..Len(c) : Set(c, l, leds[l], i) /\ LastFor(c, l, i)
              /\ \A l \in Led \ now : LastFor(c, l, 0)
<1> DEFINE c == Commands(leds, now)
           K == Cardinality(now)
           order == InOrder(now)
           at(j, p) == (j - 1) * PARTS + p
<1>1. /\ K \in Nat /\ order \in [1..K -> now] /\ PARTS \in Nat \ {0}
      /\ c \in Seq(Cmd) /\ Len(c) = PARTS * K /\ Len(c) \in Nat
      /\ \A j \in 1..K, p \in 1..PARTS : at(j, p) \in 1..Len(c)
      /\ \A j \in 1..K, p \in 1..PARTS :
            c[at(j, p)] = led_cmd(order[j], leds[order[j]], p)
      /\ \A i \in 1..Len(c) : \E j \in 1..K, p \in 1..PARTS : i = at(j, p)
  <2>1. PARTS \in Nat \ {0}
    BY DicerAssumption
  <2>2. c = Commands(leds, now) /\ K = Cardinality(now) /\ order = InOrder(now)
    OBVIOUS
  <2> HIDE DEF c, K, order
  <2>3. K \in Nat /\ Len(c) = PARTS * K
    BY <2>2, CommandsAre
  <2>4. order \in [1..K -> now] /\ c \in Seq(Cmd)
    BY <2>2, CommandsAre
  <2>5. Len(c) \in Nat
    BY <2>4
  <2>6. ASSUME NEW j \in 1..K, NEW p \in 1..PARTS
        PROVE  at(j, p) \in 1..Len(c)
    BY <2>2, CommandsAre
  <2>8. ASSUME NEW j \in 1..K, NEW p \in 1..PARTS
        PROVE  c[at(j, p)] = led_cmd(order[j], leds[order[j]], p)
    BY <2>2, CommandsAre, SMTT(30)
  <2>7. ASSUME NEW i \in 1..Len(c)
        PROVE  \E j \in 1..K, p \in 1..PARTS : i = at(j, p)
    BY <2>2, CommandsAre
  <2> HIDE DEF at
  <2> QED BY <2>1, <2>3, <2>4, <2>5, <2>6, <2>7, <2>8
<1>2. \A j \in 1..K, p \in 1..PARTS :
         /\ c[at(j, p)].led = order[j] /\ c[at(j, p)].part = p
         /\ Set(c, order[j], leds[order[j]], at(j, p))
         /\ \A q \in 1..PARTS : [c[at(j, p)] EXCEPT !.part = q] = led_cmd(order[j], leds[order[j]], q)
  <2> HIDE DEF c, K, order, at
  <2> TAKE j \in 1..K, p \in 1..PARTS
  <2>1. c[at(j, p)] = led_cmd(order[j], leds[order[j]], p)
    BY <1>1
  <2> QED BY <2>1, Fields DEF Set
<1>3. /\ \A l \in now : \E j \in 1..K : order[j] = l
      /\ \A j, k \in 1..K : j # k => order[j] # order[k]
  BY Ranks
<1>4. \A j \in 1..K : (j - 1) * PARTS \in Nat
  BY <1>1
<1> HIDE DEF c, K, order
<1>5. ASSUME NEW j \in 1..K, NEW p \in 1..PARTS, NEW k \in 1..p
      PROVE  at(j, p) - p + k = at(j, k) /\ p <= at(j, p) /\ k \in 1..PARTS
  BY <1>1, <1>4
<1>6. ASSUME NEW j \in 1..K, NEW p \in 1..PARTS
      PROVE  /\ p < PARTS => at(j, p) + 1 = at(j, p + 1)
             /\ at(j, PARTS) + 1 = at(j + 1, 1)
  <2>1. ((j + 1) - 1) * PARTS = (j - 1) * PARTS + PARTS
    <3>1. j - 1 \in Nat /\ (j - 1) + 1 = (j + 1) - 1 /\ PARTS \in Nat
      BY <1>1
    <3> QED BY <3>1, OneMore
  <2> QED BY <1>1, <1>4, <2>1
<1>7. ASSUME NEW j \in 1..K, NEW k \in 1..K, NEW p \in 1..PARTS, at(k, p) > at(j, PARTS)
      PROVE  k > j
  <2> SUFFICES ASSUME k <= j PROVE FALSE
    OBVIOUS
  <2>1. j - 1 \in Nat /\ k - 1 \in Nat /\ k - 1 <= j - 1 /\ PARTS \in Nat
    BY <1>1
  <2>2. (k - 1) * PARTS <= (j - 1) * PARTS
    BY <2>1, TimesMonotonic
  <2>3. (k - 1) * PARTS \in Nat /\ (j - 1) * PARTS \in Nat
    BY <1>4
  <2>4. at(k, p) <= at(j, PARTS)
    <3> DEFINE x == (k - 1) * PARTS
               y == (j - 1) * PARTS
    <3>1. x \in Nat /\ y \in Nat /\ x <= y /\ p \in Nat /\ PARTS \in Nat /\ p <= PARTS
      BY <2>1, <2>2, <2>3
    <3> HIDE DEF x, y
    <3>2. x + p <= y + PARTS
      BY <3>1
    <3> QED BY <3>2 DEF x, y
  <2>5. at(k, p) \in Int /\ at(j, PARTS) \in Int
    BY <2>1, <2>3
  <2> HIDE DEF at
  <2> QED BY <1>7, <2>4, <2>5
<1> HIDE DEF at
<1>8. Follows(c)
  <2>1. ASSUME NEW i \in 1..Len(c)
        PROVE  /\ c[i].part <= i
               /\ \A p \in 1..c[i].part : c[i - c[i].part + p] = [c[i] EXCEPT !.part = p]
    <3>1. PICK j \in 1..K, p \in 1..PARTS : i = at(j, p)
      BY <1>1
    <3>2. c[i].part = p
      BY <1>1, <1>2, <3>1
    <3>3. ASSUME NEW k \in 1..p PROVE c[i - p + k] = [c[i] EXCEPT !.part = k]
      <4>1. k \in 1..PARTS /\ i - p + k = at(j, k)
        BY <1>5, <3>1
      <4>2. c[i - p + k] = led_cmd(order[j], leds[order[j]], k)
        BY <1>1, <4>1
      <4>3. [c[i] EXCEPT !.part = k] = led_cmd(order[j], leds[order[j]], k)
        BY <1>2, <3>1, <4>1
      <4> QED BY <4>2, <4>3
    <3>4. p <= i
      BY <1>5, <3>1
    <3> QED BY <3>2, <3>3, <3>4
  <2>2. ASSUME NEW i \in 1..(Len(c) - 1)
        PROVE  c[i + 1].part = IF c[i].part = PARTS THEN 1 ELSE c[i].part + 1
    <3>1. i \in 1..Len(c) /\ i + 1 \in 1..Len(c)
      BY <1>1
    <3>2. PICK j \in 1..K, p \in 1..PARTS : i = at(j, p)
      BY <1>1, <3>1
    <3>3. c[i].part = p
      BY <1>2, <3>2
    <3>4. CASE p < PARTS
      <4>1. p + 1 \in 1..PARTS /\ i + 1 = at(j, p + 1) /\ p # PARTS
        BY <1>1, <1>6, <3>2, <3>4
      <4>2. c[i + 1].part = p + 1
        BY <1>2, <4>1
      <4> QED BY <3>3, <4>1, <4>2
    <3>5. CASE p = PARTS
      <4>1. i + 1 = at(j + 1, 1)
        BY <1>6, <3>2, <3>5
      <4>2. PICK k \in 1..K, q \in 1..PARTS : i + 1 = at(k, q)
        BY <1>1, <3>1
      <4>3. k > j
        BY <1>7, <3>1, <3>2, <3>5, <4>2
      <4>4. j + 1 \in 1..K /\ 1 \in 1..PARTS
        BY <1>1, <4>3
      <4>5. c[i + 1].part = 1
        BY <1>2, <4>1, <4>4
      <4> QED BY <3>3, <3>5, <4>5
    <3> QED BY <1>1, <3>4, <3>5
  <2> QED BY <2>1, <2>2 DEF Follows
<1>9. Ends(c)
  <2> SUFFICES ASSUME Len(c) > 0 PROVE c[Len(c)].part = PARTS
    BY DEF Ends
  <2>1. Len(c) \in 1..Len(c)
    BY <1>1
  <2>2. PICK j \in 1..K, p \in 1..PARTS : Len(c) = at(j, p)
    BY <1>1, <2>1
  <2>3. CASE p < PARTS
    <3>1. p + 1 \in 1..PARTS /\ at(j, p + 1) = Len(c) + 1
      BY <1>1, <1>6, <2>2, <2>3
    <3>2. at(j, p + 1) \in 1..Len(c)
      BY <1>1, <3>1
    <3> QED BY <1>1, <3>1, <3>2
  <2>4. CASE p = PARTS
    <3>1. PARTS \in 1..PARTS /\ Len(c) = at(j, PARTS)
      BY <1>1, <2>2, <2>4
    <3> QED BY <1>2, <3>1
  <2> QED BY <1>1, <2>3, <2>4
<1>10. ASSUME NEW l \in now
      PROVE  \E i \in 1..Len(c) : Set(c, l, leds[l], i) /\ LastFor(c, l, i)
  <2>1. PICK j \in 1..K : order[j] = l
    BY <1>3
  <2>2. PARTS \in 1..PARTS
    BY <1>1
  <2>3. at(j, PARTS) \in 1..Len(c) /\ Set(c, l, leds[l], at(j, PARTS))
    BY <1>1, <1>2, <2>1, <2>2
  <2>4. ASSUME NEW k \in (at(j, PARTS) + 1)..Len(c) PROVE c[k].led # l
    <3>1. k \in 1..Len(c) /\ k > at(j, PARTS)
      <4>1. Len(c) \in Int /\ at(j, PARTS) \in 1..Len(c)
        BY <1>1, <2>3
      <4> HIDE DEF at
      <4> QED BY <4>1, Later
    <3>2. PICK m \in 1..K, p \in 1..PARTS : k = at(m, p)
      BY <1>1, <3>1
    <3>3. m > j
      BY <1>7, <3>1, <3>2
    <3>4. order[m] # l
      BY <1>3, <2>1, <3>3
    <3> QED BY <1>2, <3>2, <3>4
  <2> QED BY <2>3, <2>4 DEF LastFor
<1>11. ASSUME NEW l \in Led \ now PROVE LastFor(c, l, 0)
  <2> SUFFICES ASSUME NEW k \in 1..Len(c) PROVE c[k].led # l
    BY DEF LastFor
  <2>1. PICK j \in 1..K, p \in 1..PARTS : k = at(j, p)
    BY <1>1
  <2>2. c[k].led = order[j] /\ order[j] \in now
    BY <1>1, <1>2, <2>1
  <2> QED BY <2>2
<1> QED BY <1>1, <1>8, <1>9, <1>10, <1>11 DEF c, K

-----------------------------------------------------------------------------
(* What the hardware makes of the commands.                                *)

(* The last command for an LED is whole.                                   *)
LEMMA LastIsWhole ==
    ASSUME NEW s \in Seq(Cmd), Follows(s), Ends(s), NEW l, NEW i \in 1..Len(s),
           s[i].led = l, LastFor(s, l, i)
    PROVE  s[i].part = PARTS
<1>1. Len(s) \in Nat /\ PARTS \in Nat \ {0} /\ s[i].part \in 1..PARTS
  BY PartOf, DicerAssumption
<1>2. SUFFICES ASSUME s[i].part # PARTS PROVE FALSE
  OBVIOUS
<1>3. i # Len(s)
  BY <1>1, <1>2 DEF Ends
<1>4. i \in 1..(Len(s) - 1) /\ i + 1 \in 1..Len(s) /\ i + 1 \in (i + 1)..Len(s)
  BY <1>1, <1>3
<1>5. s[i + 1].part = s[i].part + 1
  BY <1>2, <1>4 DEF Follows
<1>6. s[i].part \in 1..s[i + 1].part /\ (i + 1) - s[i + 1].part + s[i].part = i
  BY <1>1, <1>5
<1>7. s[i] = [s[i + 1] EXCEPT !.part = s[i].part]
  BY <1>4, <1>6 DEF Follows
<1>8. s[i + 1] \in Cmd
  BY <1>4, PartOf
<1>9. s[i + 1].led = l
  BY <1>7, <1>8 DEF Cmd
<1> QED BY <1>4, <1>9 DEF LastFor

(* The last whole command for an LED is shown, or what was.                *)
LEMMA ShowIs ==
    ASSUME NEW t \in Seq(Cmd), Follows(t), NEW l
    PROVE  /\ \A i \in 1..Len(t) :
                t[i].led = l /\ t[i].part = PARTS /\ LastFor(t, l, i) =>
                    Show(t, l) = [on |-> t[i].on, pressed |-> t[i].pressed, known |-> TRUE]
           /\ LastFor(t, l, 0) => Show(t, l) = shown[l]
<1> DEFINE for == {i \in 1..Len(t) : t[i].led = l /\ Shows(t, i)}
<1>1. Len(t) \in Nat /\ PARTS \in Nat \ {0}
  BY DicerAssumption
<1>2. ASSUME LastFor(t, l, 0) PROVE Show(t, l) = shown[l]
  <2>1. for = {}
    BY <1>1, <1>2 DEF LastFor
  <2> QED BY <2>1 DEF Show
<1>3. ASSUME NEW i \in 1..Len(t), t[i].led = l, t[i].part = PARTS, LastFor(t, l, i)
      PROVE  Show(t, l) = [on |-> t[i].on, pressed |-> t[i].pressed, known |-> TRUE]
  <2>1. Shows(t, i)
    BY <1>1, <1>3 DEF Follows, Shows
  <2>2. i \in for
    BY <1>3, <2>1
  <2>3. \A k \in for : k <= i
    <3> SUFFICES ASSUME NEW k \in 1..Len(t), t[k].led = l, k > i PROVE FALSE
      BY <1>1
    <3>1. k \in (i + 1)..Len(t)
      BY <1>1
    <3> QED BY <1>3, <3>1 DEF LastFor
  <2> DEFINE j == CHOOSE j \in for : \A k \in for : k <= j
  <2>4. for \subseteq Nat
    BY <1>1
  <2>5. Show(t, l) = [on |-> t[j].on, pressed |-> t[j].pressed, known |-> TRUE]
    BY <2>2 DEF Show
  <2> HIDE DEF for
  <2>6. j \in for /\ \A k \in for : k <= j
    BY <2>2, <2>3
  <2>7. j = i
    <3> HIDE DEF j
    <3>1. j <= i /\ i <= j /\ i \in Nat /\ j \in Nat
      BY <2>2, <2>3, <2>4, <2>6
    <3> QED BY <3>1
  <2> QED BY <2>5, <2>7
<1> QED BY <1>2, <1>3

(* What it keeps is what follows the last whole command.                   *)
LEMMA RestIs ==
    ASSUME NEW t \in Seq(Cmd), Follows(t)
    PROVE  \E D \in 0..Len(t) :
               /\ Rest(t) \in Seq(Cmd) /\ Len(Rest(t)) = Len(t) - D
               /\ \A i \in 1..(Len(t) - D) : Rest(t)[i] = t[D + i]
               /\ Len(t) - D < PARTS
               /\ \A i \in 1..(Len(t) - D) : t[D + i].part = i
               /\ D = 0 \/ t[D].part = PARTS
<1> DEFINE T == Len(t)
           from(k) == SubSeq(t, T - k + 1, T)
           begun == {k \in 1..(PARTS - 1) :
                       /\ k <= T
                       /\ \A p \in 1..k : from(k)[p] = [Last(t) EXCEPT !.part = p]}
           q == t[T].part
<1>1. T \in Nat /\ PARTS \in Nat \ {0}
  BY DicerAssumption
<1>2. Rest(t) = IF begun = {} THEN <<>> ELSE from(CHOOSE k \in begun : \A m \in begun : m <= k)
  BY DEF Rest
<1>3. Last(t) = t[T]
  BY DEF Last
<1>4. ASSUME NEW k \in 1..T
      PROVE  /\ from(k) \in Seq(Cmd) /\ Len(from(k)) = k
             /\ \A p \in 1..k : from(k)[p] = t[T - k + p]
  <2>1. T - k + 1 \in 1..T
    BY <1>1
  <2> QED BY <1>1, <2>1
<1>5. CASE T = 0
  <2>1. begun = {}
    BY <1>1, <1>5
  <2>2. Rest(t) = <<>>
    BY <1>2, <2>1
  <2> WITNESS 0 \in 0..Len(t)
  <2> QED BY <1>1, <1>5, <2>2
<1>6. CASE T > 0
  <2>1. T \in 1..T /\ q \in 1..PARTS /\ t[T] \in Cmd
    BY <1>1, <1>6, PartOf
  <2>2. q <= T /\ \A p \in 1..q : t[T - q + p] = [t[T] EXCEPT !.part = p]
    BY <2>1 DEF Follows
  <2>3. \A p : [t[T] EXCEPT !.part = p].part = p
    BY <2>1 DEF Cmd
  <2> HIDE DEF from, q
  <2>4. ASSUME NEW k \in begun PROVE k = q
    <3>1. k \in 1..T /\ k \in 1..k /\ from(k)[k] = [t[T] EXCEPT !.part = k]
      BY <1>1, <1>3
    <3>2. from(k)[k] = t[T]
      <4>1. from(k)[k] = t[T - k + k] /\ T - k + k = T
        BY <1>1, <1>4, <3>1
      <4> QED BY <4>1
    <3>3. t[T].part = k
      BY <2>3, <3>1, <3>2
    <3> QED BY <3>3 DEF q
  <2>5. CASE q = PARTS
    <3>1. begun = {}
      BY <1>1, <2>4, <2>5
    <3>2. Rest(t) = <<>>
      BY <1>2, <3>1
    <3>3. T \in 0..T /\ T - T = 0 /\ t[T].part = PARTS
      BY <1>1, <2>5 DEF q
    <3> WITNESS T \in 0..Len(t)
    <3> QED BY <1>1, <3>2, <3>3
  <2>6. CASE q < PARTS
    <3>1. q \in 1..(PARTS - 1) /\ q \in 1..T
      BY <1>1, <2>1, <2>2, <2>6
    <3>2. \A p \in 1..q : from(q)[p] = [Last(t) EXCEPT !.part = p]
      BY <1>3, <1>4, <2>2, <3>1
    <3>3. q \in begun
      BY <1>1, <3>1, <3>2
    <3> HIDE DEF begun
    <3>4. begun = {q}
      BY <2>4, <3>3
    <3>5. (CHOOSE k \in begun : \A m \in begun : m <= k) = q
      BY <3>1, <3>4
    <3>6. Rest(t) = from(q)
      BY <1>2, <3>4, <3>5
    <3> DEFINE D == T - q
    <3>7. D \in 0..T /\ T - D = q
      BY <1>1, <3>1
    <3>8. /\ from(q) \in Seq(Cmd) /\ Len(from(q)) = q
          /\ \A p \in 1..q : from(q)[p] = t[D + p]
      BY <1>4, <3>1
    <3>9. \A p \in 1..q : t[D + p].part = p
      BY <2>2, <2>3
    <3> HIDE DEF D
    <3>10. ASSUME D # 0 PROVE t[D].part = PARTS
      <4>1. D \in 1..(T - 1) /\ D \in 1..T /\ 1 \in 1..q
        BY <1>1, <3>1, <3>7, <3>10
      <4>2. t[D + 1].part = 1
        BY <3>9, <4>1
      <4>3. t[D + 1].part = IF t[D].part = PARTS THEN 1 ELSE t[D].part + 1
        BY <4>1 DEF Follows
      <4>4. t[D].part \in 1..PARTS
        BY <4>1, PartOf
      <4> QED BY <1>1, <4>2, <4>3, <4>4
    <3>11. D \in 0..Len(t)
      BY <3>7
    <3> WITNESS D \in 0..Len(t)
    <3> QED BY <2>6, <3>6, <3>7, <3>8, <3>9, <3>10
  <2> QED BY <1>1, <2>1, <2>5, <2>6
<1> QED BY <1>1, <1>5, <1>6

(* Commands that follow a whole one are whole themselves.                  *)
LEMMA FollowsOn ==
    ASSUME NEW s \in Seq(Cmd), Follows(s), Ends(s), NEW D \in 0..Len(s),
           D = 0 \/ s[D].part = PARTS,
           NEW u \in Seq(Cmd), Len(u) = Len(s) - D,
           \A i \in 1..Len(u) : u[i] = s[D + i]
    PROVE  Follows(u) /\ Ends(u)
<1>1. Len(s) \in Nat /\ Len(u) \in Nat /\ PARTS \in Nat \ {0} /\ D \in Nat
  BY DicerAssumption
<1>2. ASSUME NEW i \in 1..Len(u) PROVE D + i \in 1..Len(s) /\ u[i].part \in 1..PARTS
  BY <1>1, PartOf
<1>3. ASSUME NEW i \in 1..Len(u)
      PROVE  /\ u[i].part <= i
             /\ \A p \in 1..u[i].part : u[i - u[i].part + p] = [u[i] EXCEPT !.part = p]
  <2> DEFINE v == u[i].part
  <2>1. v \in 1..PARTS
    BY <1>2
  <2>6. PICK k \in 1..Len(s) : k = D + i /\ s[k] = u[i]
    BY <1>2
  <2>2. v <= k /\ \A p \in 1..v : s[k - v + p] = [u[i] EXCEPT !.part = p]
    <3>1. s[k].part <= k /\ \A p \in 1..s[k].part : s[k - s[k].part + p] = [s[k] EXCEPT !.part = p]
      BY DEF Follows
    <3> QED BY <2>6, <3>1, Zenon
  <2>3. \A p : [u[i] EXCEPT !.part = p].part = p
    <3>1. u[i] \in Cmd
      OBVIOUS
    <3> QED BY <3>1 DEF Cmd
  <2> HIDE DEF v
  <2>4. v <= i
    <3> SUFFICES ASSUME v > i PROVE FALSE
      BY <1>1, <2>1
    <3>1. v \in Int /\ i \in Int /\ D \in Int /\ PARTS \in Int /\ v <= PARTS /\ i >= 1 /\ D >= 0
      BY <1>1, <2>1
    <3>2. v <= D + i
      BY <2>2, <2>6
    <3>3. v - i \in 1..v /\ D # 0 /\ v - i < PARTS
      BY <3>1, <3>2
    <3>4. k - v + (v - i) = D
      BY <2>6, <3>1
    <3>5. s[D] = [u[i] EXCEPT !.part = v - i]
      BY <2>2, <3>3, <3>4
    <3>6. s[D].part = v - i
      BY <2>3, <3>5
    <3> QED BY <1>1, <2>1, <3>3, <3>6
  <2>5. ASSUME NEW p \in 1..v PROVE u[i - v + p] = [u[i] EXCEPT !.part = p]
    <3>1. i - v + p \in 1..Len(u)
      BY <1>1, <2>1, <2>4
    <3>2. D + (i - v + p) = k - v + p
      <4>1. v \in Int /\ p \in Int /\ i \in Int /\ D \in Int
        BY <1>1, <2>1
      <4> QED BY <2>6, <4>1
    <3>3. u[i - v + p] = s[D + (i - v + p)]
      BY <3>1
    <3> QED BY <2>2, <3>2, <3>3
  <2> QED BY <2>4, <2>5 DEF v
<1>4. ASSUME NEW i \in 1..(Len(u) - 1)
      PROVE  u[i + 1].part = IF u[i].part = PARTS THEN 1 ELSE u[i].part + 1
  <2>1. D + i \in 1..(Len(s) - 1) /\ D + (i + 1) = (D + i) + 1
    BY <1>1
  <2>2. u[i] = s[D + i] /\ u[i + 1] = s[(D + i) + 1]
    <3>1. i \in 1..Len(u) /\ i + 1 \in 1..Len(u)
      BY <1>1
    <3> QED BY <2>1, <3>1
  <2> QED BY <2>1, <2>2 DEF Follows
<1>5. Ends(u)
  <2> SUFFICES ASSUME Len(u) > 0 PROVE u[Len(u)].part = PARTS
    BY DEF Ends
  <2>1. Len(u) \in 1..Len(u) /\ D + Len(u) = Len(s) /\ Len(s) > 0
    BY <1>1
  <2>2. u[Len(u)] = s[Len(s)]
    BY <2>1
  <2> QED BY <2>1, <2>2 DEF Ends
<1> QED BY <1>3, <1>4, <1>5 DEF Follows

-----------------------------------------------------------------------------
(* The steps.                                                              *)

(* sync_all_leds adds commands that are whole, for LEDs as they are.       *)
LEMMA TopUpKeeps ==
    ASSUME IInv, NEW full, full = TopUp(led, obuf)
    PROVE  /\ full.led \in [Led -> Flags]
           /\ full.obuf \in Seq(Cmd) /\ Len(full.obuf) <= OBUF
           /\ \A l \in Led : full.led[l].on = led[l].on
           /\ ~cut => Good(midi, full.obuf, full.led, shown)
<1> DEFINE now == NowSynced(led, OBUF - Len(obuf))
           c == Commands(led, now)
           s == midi \o obuf
<1>1. obuf \in Seq(Cmd) /\ led \in [Led -> Flags] /\ Len(obuf) <= OBUF
  BY DEF IInv
<1>2. OBUF \in Nat /\ Len(obuf) \in Nat /\ OBUF - Len(obuf) \in Nat
  BY <1>1, DicerAssumption
<1>3. now \subseteq Led /\ Cardinality(now) \in Nat /\ PARTS * Cardinality(now) <= OBUF - Len(obuf)
  BY <1>2, RoomForNow
<1>4. /\ full.led = [l \in Led |-> [led[l] EXCEPT !.synced = @ \/ l \in now]]
      /\ full.obuf = obuf \o c
  BY DEF TopUp
<1> HIDE DEF now
<1>5. /\ c \in Seq(Cmd) /\ Len(c) = PARTS * Cardinality(now)
      /\ Follows(c) /\ Ends(c)
      /\ \A l \in now : \E i \in 1..Len(c) : Set(c, l, led[l], i) /\ LastFor(c, l, i)
      /\ \A l \in Led \ now : LastFor(c, l, 0)
  BY <1>1, <1>3, CommandsFollow
<1> HIDE DEF c
<1>6. full.obuf \in Seq(Cmd) /\ Len(full.obuf) = Len(obuf) + Len(c)
  <2>1. Len(obuf \o c) = Len(obuf) + Len(c) /\ obuf \o c \in Seq(Cmd)
    BY <1>1, <1>5, Concat
  <2> QED BY <1>4, <2>1
<1>7. Len(full.obuf) <= OBUF
  <2>1. Len(c) \in Nat
    BY <1>5
  <2> QED BY <1>2, <1>3, <1>5, <1>6, <2>1
<1>8. /\ full.led \in [Led -> Flags]
      /\ \A l \in Led : /\ full.led[l].on = led[l].on /\ full.led[l].pressed = led[l].pressed
                        /\ full.led[l].synced => led[l].synced \/ l \in now
  <2>1. ASSUME NEW l \in Led
        PROVE  /\ full.led[l] \in Flags
               /\ full.led[l].on = led[l].on /\ full.led[l].pressed = led[l].pressed
               /\ full.led[l].synced => led[l].synced \/ l \in now
    <3>1. led[l] \in Flags /\ full.led[l] = [led[l] EXCEPT !.synced = led[l].synced \/ l \in now]
      BY <1>1, <1>4
    <3> QED BY <3>1 DEF Flags
  <2> QED BY <1>4, <2>1
<1>9. ASSUME ~cut
      PROVE  Good(midi, full.obuf, full.led, shown)
  <2>1. /\ midi \in Seq(Cmd) /\ Len(midi) < PARTS /\ \A i \in 1..Len(midi) : midi[i].part = i
        /\ Follows(s) /\ Ends(s)
        /\ \A l \in Led : led[l].synced => Tells(s, l, led[l], shown[l])
    BY <1>9 DEF IInv, Good
  <2>2. midi \o full.obuf = s \o c
    <3>1. (midi \o obuf) \o c = midi \o (obuf \o c)
      BY <1>1, <1>5, <2>1, Joined, SMTT(30)
    <3> QED BY <1>4, <3>1
  <2>3. s \in Seq(Cmd)
    BY <1>1, <2>1, Concat
  <2> HIDE DEF s
  <2>4. Follows(s \o c) /\ Ends(s \o c)
    BY <1>5, <2>1, <2>3, FollowsMore
  <2>5. ASSUME NEW l \in Led, full.led[l].synced
        PROVE  Tells(s \o c, l, full.led[l], shown[l])
    <3>1. Tells(s \o c, l, led[l], shown[l])
      BY <1>5, <1>8, <2>1, <2>3, <2>5, TellsMore
    <3> QED BY <1>8, <3>1 DEF Tells, Set, Known
  <2> QED BY <1>6, <2>1, <2>2, <2>4, <2>5 DEF Good
<1> QED BY <1>6, <1>7, <1>8, <1>9

(* Whatever the memmove moves, what is left are commands.                  *)
LEMMA TakenFits ==
    ASSUME NEW b \in Seq(Cmd), NEW n \in Accepted(Len(b))
    PROVE  Taken(b, n) \in Seq(Cmd) /\ Len(Taken(b, n)) = Len(b) - n
<1> DEFINE N == Len(b) - n
           e(i) == IF i <= n THEN b[i + n] ELSE b[i]
<1>1. N \in Nat
  BY DEF Accepted
<1>2. ASSUME NEW i \in 1..N PROVE e(i) \in Cmd
  <2>1. i \in 1..Len(b) /\ i + n \in 1..Len(b)
    BY DEF Accepted
  <2> QED BY <2>1
<1>3. Taken(b, n) = [i \in 1..N |-> e(i)]
  BY DEF Taken
<1> HIDE DEF N, e
<1>4. Taken(b, n) \in Seq(Cmd) /\ Len(Taken(b, n)) = N
  BY <1>1, <1>2, <1>3
<1> QED BY <1>4 DEF N

(* What the hardware has taken is where it was, and what is left follows,  *)
(* if all of it was moved.                                                 *)
LEMMA TakenIs ==
    ASSUME NEW m \in Seq(Cmd), NEW b \in Seq(Cmd), NEW n \in Accepted(Len(b)),
           ~MovesTooFew(b, n)
    PROVE  /\ n \in 0..Len(b)
           /\ m \o SubSeq(b, 1, n) \in Seq(Cmd) /\ Len(m \o SubSeq(b, 1, n)) = Len(m) + n
           /\ \A i \in 1..(Len(m) + n) : (m \o SubSeq(b, 1, n))[i] = (m \o b)[i]
           /\ Taken(b, n) \in Seq(Cmd) /\ Len(Taken(b, n)) = Len(b) - n
           /\ \A i \in 1..(Len(b) - n) : Taken(b, n)[i] = (m \o b)[Len(m) + n + i]
<1>1. n \in 0..Len(b) /\ (n = 0 \/ 2 * n >= Len(b)) /\ Len(b) \in Nat /\ Len(m) \in Nat
  BY DEF Accepted, MovesTooFew
<1> DEFINE a == SubSeq(b, 1, n)
<1>2. a \in Seq(Cmd) /\ Len(a) = n /\ \A i \in 1..n : a[i] = b[i]
  BY <1>1
<1> HIDE DEF a
<1>3. /\ m \o a \in Seq(Cmd) /\ Len(m \o a) = Len(m) + n
      /\ \A i \in 1..(Len(m) + n) : (m \o a)[i] = IF i <= Len(m) THEN m[i] ELSE a[i - Len(m)]
  BY <1>2, Concat
<1>4. /\ \A i \in 1..(Len(m) + Len(b)) : (m \o b)[i] = IF i <= Len(m) THEN m[i] ELSE b[i - Len(m)]
      /\ \A i \in 1..Len(b) : (m \o b)[Len(m) + i] = b[i]
  BY Concat
<1>5. ASSUME NEW i \in 1..(Len(m) + n) PROVE (m \o a)[i] = (m \o b)[i]
  <2>1. i \in 1..(Len(m) + Len(b))
    BY <1>1
  <2>2. CASE i <= Len(m)
    BY <1>3, <1>4, <2>1, <2>2
  <2>3. CASE ~(i <= Len(m))
    <3>1. i - Len(m) \in 1..n
      BY <1>1, <2>3
    <3> QED BY <1>2, <1>3, <1>4, <2>1, <2>3, <3>1
  <2> QED BY <2>2, <2>3
<1>6. ASSUME NEW i \in 1..(Len(b) - n)
      PROVE  n + i \in 1..Len(b) /\ (IF i <= n THEN b[i + n] ELSE b[i]) = b[n + i]
  BY <1>1
<1>7. /\ Taken(b, n) \in Seq(Cmd) /\ Len(Taken(b, n)) = Len(b) - n
      /\ \A i \in 1..(Len(b) - n) : Taken(b, n)[i] = b[n + i]
  <2>1. Len(b) - n \in Nat
    BY <1>1
  <2>2. \A i \in 1..(Len(b) - n) : b[n + i] \in Cmd
    BY <1>6
  <2> DEFINE N == Len(b) - n
  <2>3. Taken(b, n) = [i \in 1..N |-> b[n + i]]
    BY <1>6 DEF Taken
  <2>4. N \in Nat /\ \A i \in 1..N : b[n + i] \in Cmd
    BY <2>1, <2>2
  <2> HIDE DEF N
  <2>5. Taken(b, n) \in Seq(Cmd) /\ Len(Taken(b, n)) = N /\ \A i \in 1..N : Taken(b, n)[i] = b[n + i]
    BY <2>3, <2>4
  <2> QED BY <2>5 DEF N
<1>8. ASSUME NEW i \in 1..(Len(b) - n) PROVE Taken(b, n)[i] = (m \o b)[Len(m) + n + i]
  <2>1. PICK k \in 1..Len(b) : k = n + i
    BY <1>6
  <2>2. Len(m) + n + i = Len(m) + k
    BY <1>1, <2>1
  <2> QED BY <1>4, <1>7, <2>1, <2>2
<1> QED BY <1>1, <1>3, <1>5, <1>7, <1>8 DEF a

(* What was told of an LED is then shown or still to come.                 *)
LEMMA TakeKeeps ==
    ASSUME NEW m, NEW b, NEW leds, Good(m, b, leds, shown),
           NEW n \in Accepted(Len(b)), ~MovesTooFew(b, n),
           NEW t, t = m \o SubSeq(b, 1, n)
    PROVE  Good(Rest(t), Taken(b, n), leds, [l \in Led |-> Show(t, l)])
<1> DEFINE s == m \o b
           r == Taken(b, n)
           T == Len(t)
<1>1. /\ m \in Seq(Cmd) /\ b \in Seq(Cmd) /\ Follows(s) /\ Ends(s)
      /\ \A l \in Led : leds[l].synced => Tells(s, l, leds[l], shown[l])
  BY DEF Good
<1>2. /\ s \in Seq(Cmd) /\ Len(s) = Len(m) + Len(b) /\ Len(m) \in Nat /\ Len(b) \in Nat
      /\ PARTS \in Nat \ {0}
  BY <1>1, Concat, DicerAssumption
<1>3. /\ n \in 0..Len(b) /\ t \in Seq(Cmd) /\ T = Len(m) + n
      /\ \A i \in 1..(Len(m) + n) : t[i] = s[i]
      /\ r \in Seq(Cmd) /\ Len(r) = Len(b) - n
      /\ \A i \in 1..(Len(b) - n) : r[i] = s[Len(m) + n + i]
  BY <1>1, TakenIs
<1> HIDE DEF s, r
<1>4. /\ Len(s) \in Nat /\ T \in Nat /\ T <= Len(s) /\ Len(s) - T = Len(b) - n
      /\ Len(s) - T \in Nat
  <2>1. Len(s) = Len(m) + Len(b) /\ Len(m) \in Nat /\ Len(b) \in Nat /\ n \in 0..Len(b)
    BY <1>2, <1>3
  <2>2. T = Len(m) + n
    BY <1>3
  <2> HIDE DEF T
  <2> QED BY <2>1, <2>2
<1> HIDE DEF T
<1>5. /\ T \in 0..Len(s) /\ \A i \in 1..T : t[i] = s[i]
      /\ Len(r) = Len(s) - T /\ \A i \in 1..(Len(s) - T) : r[i] = s[T + i]
  <2>1. T = Len(m) + n /\ Len(s) - T = Len(b) - n
    BY <1>3, <1>4
  <2>2. T \in 0..Len(s)
    BY <1>4
  <2>3. \A i \in 1..T : t[i] = s[i]
    BY <1>3
  <2>4. Len(r) = Len(s) - T
    BY <1>3, <2>1
  <2>5. ASSUME NEW i \in 1..(Len(s) - T) PROVE r[i] = s[T + i]
    <3>1. i \in 1..(Len(b) - n)
      BY <2>1
    <3> QED BY <1>3, <2>1, <3>1
  <2> QED BY <2>2, <2>3, <2>4, <2>5
<1>6. Follows(t)
  <2>1. ASSUME NEW i \in 1..T
        PROVE  /\ t[i].part <= i
               /\ \A p \in 1..t[i].part : t[i - t[i].part + p] = [t[i] EXCEPT !.part = p]
    <3>1. i \in 1..Len(s) /\ t[i] = s[i] /\ s[i].part \in 1..PARTS
      <4>1. i \in 1..Len(s)
        BY <1>4
      <4>2. t[i] = s[i]
        BY <1>5
      <4> QED BY <1>2, <4>1, <4>2, PartOf
    <3>2. s[i].part <= i /\ \A p \in 1..s[i].part : s[i - s[i].part + p] = [s[i] EXCEPT !.part = p]
      BY <1>1, <3>1 DEF Follows
    <3>3. ASSUME NEW p \in 1..s[i].part PROVE t[i - s[i].part + p] = s[i - s[i].part + p]
      <4>1. s[i].part \in Int /\ s[i].part <= i /\ T \in Int
        BY <1>4, <3>1, <3>2
      <4>2. \A q \in Int : q <= i => \A k \in 1..q : i - q + k \in 1..T
        BY <4>1, Within
      <4>3. i - s[i].part + p \in 1..T
        BY <4>1, <4>2
      <4> QED BY <1>5, <4>3
    <3>4. t[i].part <= i
      BY <3>1, <3>2
    <3>5. ASSUME NEW p \in 1..t[i].part
          PROVE  t[i - t[i].part + p] = [t[i] EXCEPT !.part = p]
      <4>1. p \in 1..s[i].part
        BY <3>1
      <4>2. t[i - s[i].part + p] = [s[i] EXCEPT !.part = p]
        BY <3>2, <3>3, <4>1
      <4> QED BY <3>1, <4>2
    <3> QED BY <3>4, <3>5
  <2>2. ASSUME NEW i \in 1..(T - 1)
        PROVE  t[i + 1].part = IF t[i].part = PARTS THEN 1 ELSE t[i].part + 1
    <3>1. i \in 1..(Len(s) - 1) /\ t[i] = s[i] /\ t[i + 1] = s[i + 1]
      <4>1. i \in 1..(Len(s) - 1) /\ i \in 1..T /\ i + 1 \in 1..T
        BY <1>4
      <4> QED BY <1>5, <4>1
    <3> QED BY <1>1, <3>1 DEF Follows
  <2> QED BY <2>1, <2>2 DEF Follows, T
<1>7. PICK D \in 0..T :
        /\ Rest(t) \in Seq(Cmd) /\ Len(Rest(t)) = T - D
        /\ \A i \in 1..(T - D) : Rest(t)[i] = t[D + i]
        /\ T - D < PARTS
        /\ \A i \in 1..(T - D) : t[D + i].part = i
        /\ D = 0 \/ t[D].part = PARTS
  BY <1>3, <1>6, RestIs DEF T
<1> DEFINE u == Rest(t) \o r
<1>8. /\ u \in Seq(Cmd) /\ Len(u) = (T - D) + Len(r)
      /\ \A i \in 1..((T - D) + Len(r)) :
            u[i] = IF i <= T - D THEN Rest(t)[i] ELSE r[i - (T - D)]
  <2>1. Rest(t) \in Seq(Cmd) /\ Len(Rest(t)) = T - D
    BY <1>7
  <2>2. r \in Seq(Cmd)
    BY <1>3
  <2> DEFINE h == Rest(t)
  <2>3. /\ h \o r \in Seq(Cmd) /\ Len(h \o r) = Len(h) + Len(r)
        /\ \A i \in 1..(Len(h) + Len(r)) :
             (h \o r)[i] = IF i <= Len(h) THEN h[i] ELSE r[i - Len(h)]
    <3> HIDE DEF h
    <3> QED BY <2>1, <2>2, Concat DEF h
  <2>4. Len(h) = T - D
    BY <2>1
  <2> HIDE DEF h
  <2> QED BY <2>3, <2>4 DEF h
<1> HIDE DEF u
<1>9. /\ D \in 0..Len(s) /\ Len(u) = Len(s) - D
      /\ D = 0 \/ s[D].part = PARTS
      /\ \A i \in 1..Len(u) : u[i] = s[D + i]
  <2>1. D \in 0..Len(s) /\ Len(u) = Len(s) - D /\ Len(s) \in Nat /\ T \in Nat /\ D \in Nat
    <3>1. Len(u) = (T - D) + Len(r) /\ Len(r) = Len(s) - T /\ D \in 0..T
      BY <1>5, <1>7, <1>8
    <3> QED BY <1>4, <3>1
  <2>2. D = 0 \/ s[D].part = PARTS
    <3>1. D = 0 \/ D \in 1..T
      BY <2>1, <1>7
    <3> QED BY <1>5, <1>7, <3>1
  <2>3. ASSUME NEW i \in 1..Len(u) PROVE u[i] = s[D + i]
    <3>1. i \in 1..((T - D) + Len(r))
      BY <1>8
    <3>2. CASE i <= T - D
      <4>1. i \in 1..(T - D) /\ D + i \in 1..T
        BY <1>7, <2>1, <3>2
      <4> QED BY <1>5, <1>7, <1>8, <3>1, <3>2, <4>1
    <3>3. CASE ~(i <= T - D)
      <4>1. i \in Int /\ i <= (T - D) + Len(r) /\ Len(r) = Len(s) - T
        BY <1>5, <2>1, <3>1
      <4>2. i - (T - D) \in 1..(Len(s) - T) /\ T + (i - (T - D)) = D + i
        BY <2>1, <3>3, <4>1
      <4>3. u[i] = r[i - (T - D)]
        BY <1>8, <3>1, <3>3
      <4>4. r[i - (T - D)] = s[T + (i - (T - D))]
        BY <1>5, <4>2
      <4> QED BY <4>2, <4>3, <4>4
    <3> QED BY <3>2, <3>3
  <2> QED BY <2>1, <2>2, <2>3
<1>10. Follows(u) /\ Ends(u)
  BY <1>1, <1>2, <1>8, <1>9, FollowsOn
<1>11. ASSUME NEW l, NEW i \in D..Len(s), LastFor(s, l, i)
       PROVE  LastFor(u, l, i - D)
  <2> SUFFICES ASSUME NEW k \in (i - D + 1)..Len(u) PROVE u[k].led # l
    BY DEF LastFor
  <2>1. k \in 1..Len(u) /\ D + k \in (i + 1)..Len(s)
    BY <1>2, <1>9
  <2> QED BY <1>9, <1>11, <2>1 DEF LastFor
<1>12. ASSUME NEW l, NEW i \in 0..Len(s), i <= D, LastFor(s, l, i)
       PROVE  LastFor(u, l, 0) /\ LastFor(t, l, i)
  <2>1. \A k \in (i + 1)..Len(s) : s[k].led # l
    BY <1>12 DEF LastFor
  <2>2. ASSUME NEW k \in 1..Len(u) PROVE u[k].led # l
    <3>1. D + k \in (i + 1)..Len(s)
      BY <1>2, <1>9, <1>12
    <3> QED BY <1>9, <2>1, <3>1
  <2>3. ASSUME NEW k \in (i + 1)..T PROVE t[k].led # l
    <3>1. k \in (i + 1)..Len(s) /\ k \in 1..T
      BY <1>2, <1>5
    <3> QED BY <1>5, <2>1, <3>1
  <2>4. \A k \in (0 + 1)..Len(u) : u[k].led # l
    BY <2>2
  <2> QED BY <2>3, <2>4 DEF LastFor, T
<1>13. ASSUME NEW l \in Led, leds[l].synced
       PROVE  Tells(u, l, leds[l], Show(t, l))
  <2>1. Tells(s, l, leds[l], shown[l])
    BY <1>1, <1>13
  <2>2. ASSUME NEW i \in 1..Len(s), Set(s, l, leds[l], i), LastFor(s, l, i), i > D
        PROVE  Tells(u, l, leds[l], Show(t, l))
    <3>1. i \in D..Len(s) /\ i - D \in 1..Len(u) /\ D + (i - D) = i
      <4>1. Len(s) \in Nat /\ D \in Nat /\ Len(u) = Len(s) - D
        BY <1>2, <1>9
      <4> QED BY <2>2, <4>1, Behind
    <3>2. LastFor(u, l, i - D)
      BY <1>11, <2>2, <3>1
    <3>3. u[i - D] = s[i]
      BY <1>9, <3>1
    <3> QED BY <2>2, <3>1, <3>2, <3>3 DEF Tells, Set
  <2>3. ASSUME NEW i \in 1..Len(s), Set(s, l, leds[l], i), LastFor(s, l, i), i <= D
        PROVE  Tells(u, l, leds[l], Show(t, l))
    <3>1. LastFor(u, l, 0) /\ LastFor(t, l, i)
      BY <1>2, <1>12, <2>3
    <3>2. s[i].part = PARTS
      BY <1>1, <1>2, <2>3, LastIsWhole DEF Set
    <3>3. i \in 1..Len(t) /\ t[i] = s[i]
      <4>1. i \in 1..T
        BY <1>7, <1>4, <2>3
      <4> QED BY <1>5, <4>1 DEF T
    <3>4. Show(t, l) = [on |-> t[i].on, pressed |-> t[i].pressed, known |-> TRUE]
      BY <1>3, <1>6, <2>3, <3>1, <3>2, <3>3, ShowIs DEF Set
    <3> QED BY <2>3, <3>1, <3>3, <3>4 DEF Tells, Set, Known
  <2>4. ASSUME LastFor(s, l, 0), shown[l] = Known(leds[l])
        PROVE  Tells(u, l, leds[l], Show(t, l))
    <3>1. 0 \in 0..Len(s) /\ 0 <= D
      BY <1>2, <1>7
    <3>2. LastFor(u, l, 0) /\ LastFor(t, l, 0)
      BY <1>12, <2>4, <3>1
    <3>3. Show(t, l) = shown[l]
      BY <1>3, <1>6, <3>2, ShowIs
    <3> QED BY <2>4, <3>2, <3>3 DEF Tells
  <2>5. \A i \in 1..Len(s) : i > D \/ i <= D
    BY <1>9
  <2> QED BY <2>1, <2>2, <2>3, <2>4, <2>5 DEF Tells
<1>14. Len(Rest(t)) < PARTS /\ \A i \in 1..Len(Rest(t)) : Rest(t)[i].part = i
  BY <1>7
<1> QED BY <1>3, <1>7, <1>10, <1>13, <1>14 DEF Good, u, r

LEMMA InitHolds == Init => IInv
<1> SUFFICES ASSUME Init PROVE IInv
  OBVIOUS
<1>1. led \in [Led -> Flags] /\ \A l \in Led : led[l].on = FALSE /\ led[l].synced = FALSE
  BY DEF Init, Flags
<1>2. /\ midi = <<>> /\ obuf = <<>> /\ cue = {} /\ Len(obuf) <= OBUF /\ 0 < PARTS
      /\ cut = FALSE
  BY DicerAssumption DEF Init
<1>3. midi \o obuf = <<>> /\ <<>> \in Seq(Cmd) /\ Len(<<>>) = 0
  BY <1>2
<1>4. Good(midi, obuf, led, shown)
  BY <1>1, <1>2, <1>3 DEF Good, Follows, Ends
<1> QED BY <1>1, <1>2, <1>3, <1>4 DEF IInv

(* An LED that changes is no longer synced, and is on with its cue point   *)
(* (dicer.c:272-325).                                                      *)
LEMMA ReadKeeps ==
    ASSUME IInv, Read
    PROVE  IInv'
<1>1. /\ led \in [Led -> Flags] /\ cue \subseteq Led /\ cut \in BOOLEAN
      /\ obuf \in Seq(Cmd) /\ Len(obuf) <= OBUF
      /\ \A l \in Led : led[l].on <=> l \in cue
      /\ ~cut => Good(midi, obuf, led, shown)
  BY DEF IInv
<1>2. PICK e \in Event : /\ led' = event_decoded([led |-> led, cue |-> cue], e).led
                         /\ cue' = event_decoded([led |-> led, cue |-> cue], e).cue
                         /\ UNCHANGED <<obuf, fault, cut, shown, midi>>
  BY DEF Read
<1>3. e.led \in Led /\ e.on \in BOOLEAN /\ e.shift \in BOOLEAN
  BY DEF Event
<1> DEFINE sets == e.on /\ ~e.shift /\ e.action \in {"CUE", "LOOP"}
           unsets == e.on /\ e.shift
           old == led[e.led]
           new == [old EXCEPT !.pressed = e.on, !.on = (@ \/ sets) /\ ~unsets]
<1>4. CASE Side(e.led) \notin Assigned
  <2>1. led' = led /\ cue' = cue
    BY <1>2, <1>4 DEF event_decoded
  <2> QED BY <1>1, <1>2, <2>1 DEF IInv
<1>5. CASE Side(e.led) \in Assigned
  <2>1. /\ led' = [led EXCEPT ![e.led] = set_led(old, new)]
        /\ cue' = CASE sets -> cue \cup {e.led} [] unsets -> cue \ {e.led} [] OTHER -> cue
    BY <1>2, <1>5 DEF event_decoded
  <2>2. old \in Flags /\ (old.on <=> e.led \in cue)
    BY <1>1, <1>3
  <2>3. new \in Flags /\ new.on = ((old.on \/ sets) /\ ~unsets) /\ new.pressed = e.on
    BY <1>3, <2>2 DEF Flags
  <2> HIDE DEF new
  <2>4. /\ set_led(old, new) \in Flags /\ set_led(old, new).on = new.on
        /\ set_led(old, new).synced => set_led(old, new) = old
    BY <2>2, <2>3 DEF set_led, Flags
  <2> DEFINE to == set_led(old, new)
  <2> HIDE DEF to, old
  <2>5. /\ led' \in [Led -> Flags] /\ led'[e.led] = to
        /\ \A l \in Led \ {e.led} : led'[l] = led[l]
    BY <1>1, <1>3, <2>1, <2>4 DEF to
  <2>6. \A l \in Led : (l \in cue') <=> IF l = e.led THEN (l \in cue \/ sets) /\ ~unsets ELSE l \in cue
    BY <1>3, <2>1
  <2>7. cue' \subseteq Led
    BY <1>1, <1>3, <2>1
  <2>8. \A l \in Led : led'[l].on <=> l \in cue'
    <3> HIDE DEF sets, unsets
    <3>1. to.on = ((old.on \/ sets) /\ ~unsets)
      BY <2>3, <2>4 DEF to
    <3> QED BY <1>1, <2>2, <2>5, <2>6, <3>1
  <2>9. \A l \in Led : led'[l].synced => led'[l] = led[l]
    BY <2>4, <2>5 DEF to, old
  <2>10. ~cut => Good(midi, obuf, led', shown)
    BY <1>1, <2>9 DEF Good
  <2> QED BY <1>1, <1>2, <2>5, <2>7, <2>8, <2>10 DEF IInv
<1> QED BY <1>4, <1>5

(* Adding commands and writing what is taken of them is one step.          *)
LEMMA SyncLedsKeeps ==
    ASSUME IInv, SyncLeds
    PROVE  IInv'
<1> DEFINE full == TopUp(led, obuf)
<1>1. PICK n \in Accepted(Len(full.obuf)) : Take(full, n)
  BY DEF SyncLeds
<1> DEFINE t == midi \o SubSeq(full.obuf, 1, n)
<1>2. /\ led' = full.led /\ obuf' = Taken(full.obuf, n) /\ cue' = cue
      /\ cut' = (cut \/ MovesTooFew(full.obuf, n))
      /\ midi' = Rest(t) /\ shown' = [l \in Led |-> Show(t, l)]
  BY <1>1 DEF Take
<1>3. /\ full.led \in [Led -> Flags]
      /\ full.obuf \in Seq(Cmd) /\ Len(full.obuf) <= OBUF
      /\ \A l \in Led : full.led[l].on = led[l].on
      /\ ~cut => Good(midi, full.obuf, full.led, shown)
  BY TopUpKeeps
<1>4. ~cut' => Good(midi', obuf', led', shown')
  <2>1. SUFFICES ASSUME ~cut, ~MovesTooFew(full.obuf, n)
        PROVE  Good(Rest(t), Taken(full.obuf, n), full.led, [l \in Led |-> Show(t, l)])
    BY <1>2
  <2> QED BY <1>3, <2>1, TakeKeeps
<1>5. obuf' \in Seq(Cmd) /\ Len(obuf') <= OBUF
  <2>1. Taken(full.obuf, n) \in Seq(Cmd) /\ Len(Taken(full.obuf, n)) = Len(full.obuf) - n
    BY <1>3, TakenFits
  <2>2. n \in 0..Len(full.obuf) /\ Len(full.obuf) \in Nat /\ OBUF \in Nat
    BY <1>3, DicerAssumption DEF Accepted
  <2> QED BY <1>2, <1>3, <2>1, <2>2
<1>6. cut' \in BOOLEAN
  BY <1>2 DEF IInv, MovesTooFew
<1>7. cue \subseteq Led /\ \A l \in Led : full.led[l].on <=> l \in cue
  BY <1>3 DEF IInv
<1> HIDE DEF t
<1> QED BY <1>2, <1>3, <1>4, <1>5, <1>6, <1>7 DEF IInv

LEMMA Invariance == Spec => []IInv
<1>1. IInv /\ [Next]_vars => IInv'
  <2> SUFFICES ASSUME IInv, [Next]_vars PROVE IInv'
    OBVIOUS
  <2>1. CASE Read
    BY <2>1, ReadKeeps
  <2>2. CASE ReadError
    BY <2>2 DEF ReadError, IInv
  <2>3. CASE SyncLeds
    BY <2>3, SyncLedsKeeps
  <2>4. CASE UNCHANGED vars
    BY <2>4 DEF vars, IInv
  <2> QED BY <2>1, <2>2, <2>3, <2>4 DEF Next
<1> QED BY <1>1, InitHolds, PTL DEF Spec

LEMMA ShownWhenEmpty == IInv => SyncedIsShown
<1> SUFFICES ASSUME IInv, ~cut, obuf = <<>>, NEW l \in Led, led[l].synced
             PROVE  shown[l] = [on |-> l \in cue, pressed |-> led[l].pressed, known |-> TRUE]
  BY DEF SyncedIsShown, LedsShowMemory
<1>1. /\ midi \in Seq(Cmd) /\ Len(midi) < PARTS /\ \A i \in 1..Len(midi) : midi[i].part = i
      /\ Ends(midi \o obuf) /\ Tells(midi \o obuf, l, led[l], shown[l])
      /\ led[l] \in Flags /\ (led[l].on <=> l \in cue)
  BY DEF IInv, Good
<1>2. midi \o obuf = midi /\ Len(midi) \in Nat
  BY <1>1
<1>3. Len(midi) = 0
  BY <1>1, <1>2, DicerAssumption DEF Ends
<1>4. shown[l] = Known(led[l])
  BY <1>1, <1>2, <1>3 DEF Tells
<1>5. led[l].on = (l \in cue)
  BY <1>1 DEF Flags
<1> QED BY <1>4, <1>5 DEF Known

LEMMA WholeCommands == IInv => CommandsAreWhole
<1> SUFFICES ASSUME IInv, ~cut PROVE CommandsAreWhole
  BY DEF IInv, CommandsAreWhole
<1> DEFINE s == midi \o obuf
           M == Len(midi)
<1>1. /\ midi \in Seq(Cmd) /\ obuf \in Seq(Cmd) /\ M < PARTS /\ \A i \in 1..M : midi[i].part = i
      /\ Follows(s) /\ Len(obuf) <= OBUF
  BY DEF IInv, Good
<1>2. /\ s \in Seq(Cmd) /\ Len(s) = M + Len(obuf) /\ M \in Nat /\ Len(obuf) \in Nat
      /\ PARTS \in Nat \ {0}
      /\ \A i \in 1..M : s[i] = midi[i]
      /\ \A i \in 1..Len(obuf) : s[M + i] = obuf[i]
  BY <1>1, Concat, DicerAssumption
<1> HIDE DEF s, M
<1>3. \A i \in 1..(Len(s) - 1) : s[i + 1].part = IF s[i].part = PARTS THEN 1 ELSE s[i].part + 1
  BY <1>1 DEF Follows
<1>4. ASSUME NEW i \in 1..Len(obuf), i > 1
      PROVE  obuf[i].part = (obuf[i - 1].part % PARTS) + 1
  <2>1. PICK k \in 1..(Len(s) - 1) : k = M + (i - 1) /\ k + 1 = M + i
    BY <1>2, <1>4
  <2>2. i - 1 \in 1..Len(obuf)
    BY <1>2, <1>4
  <2>3. s[k] = obuf[i - 1] /\ s[k + 1] = obuf[i] /\ obuf[i - 1].part \in 1..PARTS
    BY <1>1, <1>2, <2>1, <2>2, PartOf
  <2>4. obuf[i].part = IF obuf[i - 1].part = PARTS THEN 1 ELSE obuf[i - 1].part + 1
    BY <1>3, <2>3
  <2>5. ASSUME NEW v \in 1..PARTS PROVE (v % PARTS) + 1 = IF v = PARTS THEN 1 ELSE v + 1
    BY <1>2, NextPart
  <2> QED BY <2>3, <2>4, <2>5
<1>5. ASSUME 1 \in 1..Len(obuf) PROVE obuf[1].part = M + 1
  <2>1. s[M + 1] = obuf[1] /\ M + 1 \in 1..Len(s)
    BY <1>2, <1>5
  <2>2. CASE M = 0
    <3>1. s[1].part <= 1 /\ s[1].part \in 1..PARTS
      BY <1>1, <1>2, <2>1, <2>2, PartOf DEF Follows
    <3> QED BY <2>1, <2>2, <3>1
  <2>3. CASE M # 0
    <3>1. M \in 1..(Len(s) - 1) /\ M \in 1..M
      BY <1>2, <2>1, <2>3
    <3>2. s[M].part = M /\ M # PARTS
      BY <1>1, <1>2, <3>1
    <3> QED BY <1>3, <2>1, <3>1, <3>2
  <2> QED BY <2>2, <2>3
<1>6. ASSUME NEW i \in 1..Len(obuf)
      PROVE  LET part == IF i > 1 THEN obuf[i - 1].part % PARTS ELSE Len(midi)
             IN obuf[i].part = part + 1
  <2>1. CASE i > 1
    BY <1>4, <2>1
  <2>2. CASE i = 1
    BY <1>5, <2>2 DEF M
  <2> QED BY <2>1, <2>2
<1> QED BY <1>1, <1>6 DEF CommandsAreWhole

-----------------------------------------------------------------------------
(* "Write a MIDI command sequence to sync all hardware LEDs with the state *)
(* held in memory" (dicer.c:225-226): for any number of LEDs, any buffer,  *)
(* and writes that take any part of it, in every state before a memmove    *)
(* first left something behind (dicer.c:264), if nothing waits to be       *)
(* written an LED that counts as synced shows its state.                   *)
THEOREM SyncedLedsAreShown == Spec => []SyncedIsShown
BY Invariance, ShownWhenEmpty, PTL

(* The buffer of dicer.c:65 is never overrun, whatever was taken of it;    *)
(* and until a memmove left something behind the commands that wait stay   *)
(* whole and in order.                                                     *)
THEOREM CommandsStayWhole == Spec => []CommandsAreWhole
BY Invariance, WholeCommands, PTL
=============================================================================
