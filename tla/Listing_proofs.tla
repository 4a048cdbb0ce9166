---------------------------- MODULE Listing_proofs ----------------------------
(***************************************************************************)
(* Proofs about the listings, for any records; about the library that      *)
(* keeps them, for any directories and any lines of their scans; and about *)
(* the selector that shows them, for any crates, windows and searches, and *)
(* however far the copies of listings get before memory fails.             *)
(*                                                                         *)
(* bin_search and the loops that copy are recursive functions.  That there *)
(* are functions with these equations, and what they compute, is shown by  *)
(* induction on the length of the listing.                                 *)
(***************************************************************************)
EXTENDS Library, Selector, FiniteSetTheorems, SequenceTheorems, WellFoundedInduction, TLAPS

-----------------------------------------------------------------------------
(* bin_search is the function its definition describes.                    *)

(* Induction on the numbers, of a set rather than a predicate.             *)
LEMMA Induction ==
    ASSUME NEW K, 0 \in K, \A k \in Nat : k \in K => k + 1 \in K
    PROVE  Nat \subseteq K
<1> SUFFICES ASSUME Nat \ K # {} PROVE FALSE
  OBVIOUS
<1> DEFINE R == OpToRel(<, Nat)
<1>1. \A x, y \in Nat : x < y => <<x, y>> \in R
  BY Zenon DEF OpToRel
<1>2. IsWellFoundedOn(R, Nat)
  BY Zenon, NatLessThanWellFounded
<1> HIDE DEF R
<1>3. PICK x \in Nat \ K : \A y \in Nat \ K : ~ (<<y, x>> \in R)
  BY <1>2, WFMin, Zenon
<1>4. x # 0 /\ x - 1 \in Nat /\ x - 1 < x
  BY <1>3
<1>5. x - 1 \notin K
  BY <1>4
<1> QED BY <1>1, <1>3, <1>4, <1>5

Searches == Seq(Records) \X Records \X {SORT_ARTIST, SORT_BPM}

Halve(f, w) ==
    LET ls == w[1]
        mid == Len(ls) \div 2
        r == Compare(w[2], ls[mid + 1], w[3])
        rest == f[<<SubSeq(ls, mid + 2, Len(ls)), w[2], w[3]>>]
    IN IF ls = <<>> THEN [pos |-> 0, found |-> FALSE]
       ELSE IF r < 0 THEN f[<<SubSeq(ls, 1, mid), w[2], w[3]>>]
       ELSE IF r > 0 THEN [pos |-> mid + 1 + rest.pos, found |-> rest.found]
       ELSE [pos |-> mid, found |-> TRUE]

UpTo(f, k) == \A w \in Searches : Len(w[1]) <= k => f[w] = Halve(f, w)

(* The halves of a listing are shorter listings. *)
LEMMA Halves ==
    ASSUME NEW ls \in Seq(Records), ls # <<>>, NEW mid, mid = Len(ls) \div 2
    PROVE  /\ mid \in Nat /\ mid < Len(ls) /\ ls[mid + 1] \in Records
           /\ SubSeq(ls, 1, mid) \in Seq(Records) /\ Len(SubSeq(ls, 1, mid)) = mid
           /\ SubSeq(ls, mid + 2, Len(ls)) \in Seq(Records)
           /\ Len(SubSeq(ls, mid + 2, Len(ls))) = Len(ls) - mid - 1
           /\ \A i \in 1 .. mid : SubSeq(ls, 1, mid)[i] = ls[i]
           /\ \A i \in 1 .. Len(ls) - mid - 1 :
                 SubSeq(ls, mid + 2, Len(ls))[i] = ls[mid + 1 + i]
<1>1. Len(ls) \in Nat /\ Len(ls) > 0
  OBVIOUS
<1>2. mid \in Nat /\ mid < Len(ls)
  BY <1>1
<1>3. \A i \in 1 .. Len(ls) : ls[i] \in Records
  OBVIOUS
<1>4. ls[mid + 1] \in Records
  BY <1>1, <1>2, <1>3
<1>5. SubSeq(ls, 1, mid) \in Seq(Records) /\ Len(SubSeq(ls, 1, mid)) = mid
      /\ \A i \in 1 .. mid : SubSeq(ls, 1, mid)[i] = ls[i]
  BY <1>1, <1>2, <1>3
<1>6. SubSeq(ls, mid + 2, Len(ls)) \in Seq(Records)
      /\ Len(SubSeq(ls, mid + 2, Len(ls))) = Len(ls) - mid - 1
      /\ \A i \in 1 .. Len(ls) - mid - 1 :
                 SubSeq(ls, mid + 2, Len(ls))[i] = ls[mid + 1 + i]
  <2> DEFINE m == mid + 2
             n == Len(ls)
  <2>1. m \in 1 .. Len(ls) + 1 /\ n \in m - 1 .. Len(ls) /\ n - m + 1 = Len(ls) - mid - 1
        /\ \A i \in 1 .. Len(ls) - mid - 1 : m + i - 1 = mid + 1 + i
    BY <1>1, <1>2
  <2> HIDE DEF m, n
  <2>2. SubSeq(ls, m, n) \in Seq(Records) /\ Len(SubSeq(ls, m, n)) = n - m + 1
        /\ \A i \in 1 .. n - m + 1 : SubSeq(ls, m, n)[i] = ls[m + i - 1]
    BY <2>1, SubSeqProperties
  <2>3. \A i \in 1 .. Len(ls) - mid - 1 : SubSeq(ls, m, n)[i] = ls[mid + 1 + i]
    BY <2>1, <2>2
  <2> QED BY <2>1, <2>2, <2>3 DEF m, n
<1> QED BY <1>1, <1>2, <1>4, <1>5, <1>6

(* A step of the search depends on the searches of shorter listings only.  *)
LEMMA HalveAgrees ==
    ASSUME NEW f, NEW g, NEW w \in Searches,
           \A v \in Searches : Len(v[1]) < Len(w[1]) => f[v] = g[v]
    PROVE  Halve(f, w) = Halve(g, w)
<1> DEFINE ls == w[1]
           mid == Len(ls) \div 2
           low == <<SubSeq(ls, 1, mid), w[2], w[3]>>
           high == <<SubSeq(ls, mid + 2, Len(ls)), w[2], w[3]>>
<1>1. ls \in Seq(Records) /\ w[2] \in Records /\ w[3] \in {SORT_ARTIST, SORT_BPM}
  BY DEF Searches
<1>2. CASE ls = <<>>
  BY <1>2 DEF Halve
<1>3. CASE ls # <<>>
  <2>1. low \in Searches /\ high \in Searches /\ Len(low[1]) < Len(ls) /\ Len(high[1]) < Len(ls)
    <3>1. Len(ls) \in Nat /\ Len(ls) > 0
      BY <1>1, <1>3
    <3>2. /\ SubSeq(ls, 1, mid) \in Seq(Records) /\ Len(SubSeq(ls, 1, mid)) = mid
          /\ SubSeq(ls, mid + 2, Len(ls)) \in Seq(Records)
          /\ Len(SubSeq(ls, mid + 2, Len(ls))) = Len(ls) - mid - 1
          /\ mid \in Nat /\ mid < Len(ls)
      BY <1>1, <1>3, Halves, Zenon
    <3>3. low[1] = SubSeq(ls, 1, mid) /\ high[1] = SubSeq(ls, mid + 2, Len(ls))
      OBVIOUS
    <3>4. low \in Searches /\ high \in Searches
      BY <3>2, <1>1, Zenon DEF Searches
    <3> HIDE DEF mid, ls, low, high
    <3> QED BY <3>1, <3>2, <3>3, <3>4
  <2>2. f[low] = g[low] /\ f[high] = g[high]
    BY <2>1
  <2> QED BY <2>2, <1>3 DEF Halve
<1> QED BY <1>2, <1>3

(* Two functions that search listings up to a length agree on them. *)
LEMMA SearchesAgree ==
    \A k \in Nat : \A f, g : UpTo(f, k) /\ UpTo(g, k) =>
        \A w \in Searches : Len(w[1]) <= k => f[w] = g[w]
<1> DEFINE Agree(k) == \A f, g : UpTo(f, k) /\ UpTo(g, k) =>
                          \A w \in Searches : Len(w[1]) <= k => f[w] = g[w]
           K == {k \in Nat : Agree(k)}
<1>1. \A w \in Searches : Len(w[1]) \in Nat
  BY DEF Searches
<1>2. 0 \in K
  <2> SUFFICES ASSUME NEW f, NEW g, UpTo(f, 0), UpTo(g, 0), NEW w \in Searches, Len(w[1]) <= 0
               PROVE  f[w] = g[w]
    OBVIOUS
  <2>1. \A v \in Searches : Len(v[1]) < Len(w[1]) => f[v] = g[v]
    BY <1>1
  <2>2. Halve(f, w) = Halve(g, w)
    BY <2>1, HalveAgrees, Zenon
  <2> QED BY <2>2 DEF UpTo
<1>3. ASSUME NEW k \in Nat, k \in K PROVE k + 1 \in K
  <2> SUFFICES ASSUME NEW f, NEW g, UpTo(f, k + 1), UpTo(g, k + 1),
                      NEW w \in Searches, Len(w[1]) <= k + 1
               PROVE  f[w] = g[w]
    OBVIOUS
  <2>1. UpTo(f, k) /\ UpTo(g, k)
    BY <1>1 DEF UpTo
  <2>2. \A v \in Searches : Len(v[1]) <= k => f[v] = g[v]
    BY <1>3, <2>1
  <2>3. \A v \in Searches : Len(v[1]) < Len(w[1]) => f[v] = g[v]
    BY <1>1, <2>2
  <2>4. Halve(f, w) = Halve(g, w)
    BY <2>3, HalveAgrees, Zenon
  <2> QED BY <2>4 DEF UpTo
<1> HIDE DEF K
<1>4. Nat \subseteq K
  BY <1>2, <1>3, Induction, Zenon
<1> QED BY <1>4 DEF K

(* There is one for every length. *)
LEMMA SearchesExist == \A k \in Nat : \E f : UpTo(f, k)
<1> DEFINE K == {k \in Nat : \E f : UpTo(f, k)}
<1>1. \A w \in Searches : Len(w[1]) \in Nat
  BY DEF Searches
<1>2. 0 \in K
  <2> DEFINE g == [w \in Searches |-> 0]
             h == [w \in Searches |-> Halve(g, w)]
  <2>1. ASSUME NEW w \in Searches, Len(w[1]) <= 0 PROVE h[w] = Halve(h, w)
    <3>1. \A v \in Searches : Len(v[1]) < Len(w[1]) => g[v] = h[v]
      BY <1>1, <2>1
    <3> HIDE DEF g
    <3>2. Halve(g, w) = Halve(h, w)
      BY <3>1, HalveAgrees, Zenon
    <3> QED BY <3>2
  <2>2. UpTo(h, 0)
    BY <2>1, Zenon DEF UpTo
  <2> QED BY <2>2
<1>3. ASSUME NEW k \in Nat, k \in K PROVE k + 1 \in K
  <2>1. PICK g : UpTo(g, k)
    BY <1>3
  <2> DEFINE h == [w \in Searches |-> Halve(g, w)]
  <2>2. ASSUME NEW w \in Searches, Len(w[1]) <= k + 1 PROVE h[w] = Halve(h, w)
    <3>1. ASSUME NEW v \in Searches, Len(v[1]) < Len(w[1]) PROVE g[v] = h[v]
      <4>1. Len(v[1]) <= k
        BY <1>1, <2>2, <3>1
      <4> QED BY <2>1, <4>1 DEF UpTo
    <3>2. Halve(g, w) = Halve(h, w)
      BY <3>1, HalveAgrees, Zenon
    <3> QED BY <3>2
  <2>3. UpTo(h, k + 1)
    BY <2>2, Zenon DEF UpTo
  <2> QED BY <2>3
<1> HIDE DEF K
<1>4. Nat \subseteq K
  BY <1>2, <1>3, Induction, Zenon
<1> QED BY <1>4 DEF K

(* So the recursion of bin_search defines a function: what it finds in a listing *)
(* is what the definition says.                                                 *)
LEMMA BinSearch ==
    \A w \in Searches : bin_search[w] = Halve(bin_search, w)
<1> DEFINE upTo == [w \in Searches |-> CHOOSE f : UpTo(f, Len(w[1]))]
           some == [w \in Searches |-> upTo[w][w]]
<1>1. \A w \in Searches : Len(w[1]) \in Nat
  BY DEF Searches
<1>2. ASSUME NEW w \in Searches PROVE some[w] = Halve(some, w)
  <2> DEFINE g == CHOOSE f : UpTo(f, Len(w[1]))
  <2>1. UpTo(g, Len(w[1]))
    BY <1>1, SearchesExist, Zenon
  <2>2. ASSUME NEW v \in Searches, Len(v[1]) < Len(w[1]) PROVE g[v] = some[v]
    <3> DEFINE h == CHOOSE f : UpTo(f, Len(v[1]))
    <3>1. UpTo(h, Len(v[1]))
      BY <1>1, SearchesExist, Zenon
    <3>2. UpTo(g, Len(v[1]))
      <4> HIDE DEF g
      <4> QED BY <1>1, <2>1, <2>2 DEF UpTo
    <3>3. h[v] = g[v]
      <4>1. Len(v[1]) \in Nat /\ Len(v[1]) <= Len(v[1])
        BY <1>1
      <4> HIDE DEF g, h
      <4> QED BY <3>1, <3>2, <4>1, SearchesAgree, Zenon
    <3>4. some[v] = h[v]
      BY Zenon
    <3> QED BY <3>3, <3>4, Zenon
  <2>3. some[w] = g[w]
    BY Zenon
  <2> HIDE DEF g, some
  <2>4. Halve(g, w) = Halve(some, w)
    BY <2>2, HalveAgrees, Zenon
  <2>5. g[w] = Halve(g, w)
    BY <1>1, <2>1 DEF UpTo
  <2> QED BY <2>3, <2>4, <2>5, Zenon
<1>3. some = [w \in Searches |-> Halve(some, w)]
  <2> HIDE DEF upTo
  <2>1. some = [w \in Searches |-> some[w]]
    OBVIOUS
  <2> QED BY <1>2, <2>1, Zenon
<1> HIDE DEF some
<1>4. bin_search = CHOOSE f : f = [w \in Searches |-> Halve(f, w)]
  BY Zenon DEF bin_search, Searches, Halve
<1>5. bin_search = [w \in Searches |-> Halve(bin_search, w)]
  BY <1>3, <1>4, Zenon
<1> QED BY <1>5, Zenon

-----------------------------------------------------------------------------
(* The orders of records.                                                  *)

(* Both orders compare as strcmp does, and are linear orders of the ranks. *)
LEMMA CompareType ==
    ASSUME NEW a \in Records, NEW b \in Records, NEW sort
    PROVE  Compare(a, b, sort) \in {-1, 0, 1}
BY ListingAssumption DEF Compare, record_cmp_artist, record_cmp_bpm, Sign

(* Two records the other way round compare the other way round. *)
LEMMA CompareConverse ==
    ASSUME NEW a \in Records, NEW b \in Records, NEW sort
    PROVE  Compare(b, a, sort) = 0 - Compare(a, b, sort)
BY ListingAssumption DEF Compare, record_cmp_artist, record_cmp_bpm, Sign

(* The order is transitive. *)
LEMMA CompareTransitive ==
    ASSUME NEW a \in Records, NEW b \in Records, NEW c \in Records, NEW sort,
           Compare(a, b, sort) < 0, Compare(b, c, sort) < 0
    PROVE  Compare(a, c, sort) < 0
BY ListingAssumption DEF Compare, record_cmp_artist, record_cmp_bpm, Sign

(* Records that are equal in one order or the other have the same rank.    *)
LEMMA CompareEqual ==
    ASSUME NEW a \in Records, NEW b \in Records, NEW sort, Compare(a, b, sort) = 0
    PROVE  a.key = b.key
BY ListingAssumption DEF Compare, record_cmp_artist, record_cmp_bpm, Sign

(* A record is equal to itself. *)
LEMMA CompareSame ==
    ASSUME NEW a \in Records, NEW sort
    PROVE  Compare(a, a, sort) = 0
BY ListingAssumption DEF Compare, record_cmp_artist, record_cmp_bpm, Sign

Finds(z, ls, item, sort) ==
    /\ z.pos \in 0 .. Len(ls) /\ z.found \in BOOLEAN
    /\ z.found => z.pos < Len(ls) /\ Compare(item, ls[z.pos + 1], sort) = 0
    /\ ~z.found /\ Sorted(ls, sort) =>
          /\ \A i \in 1 .. z.pos : Compare(item, ls[i], sort) > 0
          /\ \A i \in z.pos + 1 .. Len(ls) : Compare(item, ls[i], sort) < 0

(* One step of the search, if the search of the half it goes on in is right. *)
LEMMA FindsByHalves ==
    ASSUME NEW f, NEW w \in Searches,
           \A v \in Searches : Len(v[1]) < Len(w[1]) => Finds(f[v], v[1], v[2], v[3])
    PROVE  Finds(Halve(f, w), w[1], w[2], w[3])
<1> DEFINE ls == w[1]
           item == w[2]
           sort == w[3]
           mid == Len(ls) \div 2
           low == SubSeq(ls, 1, mid)
           high == SubSeq(ls, mid + 2, Len(ls))
           x == ls[mid + 1]
           z == Halve(f, w)
           zlow == f[<<low, item, sort>>]
           zhigh == f[<<high, item, sort>>]
<1>1. ls \in Seq(Records) /\ item \in Records /\ sort \in {SORT_ARTIST, SORT_BPM}
  BY DEF Searches
<1>2. CASE ls = <<>>
  <2>1. z = [pos |-> 0, found |-> FALSE] /\ Len(ls) = 0
    BY <1>2 DEF Halve
  <2> HIDE DEF z, ls, item, sort
  <2>2. Finds(z, ls, item, sort)
    BY <2>1 DEF Finds
  <2> QED BY <2>2 DEF z, ls, item, sort
<1>3. CASE ls # <<>>
  <2>1. z = IF Compare(item, x, sort) < 0 THEN zlow
            ELSE IF Compare(item, x, sort) > 0
            THEN [pos |-> mid + 1 + zhigh.pos, found |-> zhigh.found]
            ELSE [pos |-> mid, found |-> TRUE]
    BY <1>3, Zenon DEF Halve
  <2>2. /\ mid \in Nat /\ mid < Len(ls) /\ x \in Records
        /\ low \in Seq(Records) /\ Len(low) = mid
        /\ high \in Seq(Records) /\ Len(high) = Len(ls) - mid - 1
        /\ \A i \in 1 .. mid : low[i] = ls[i]
        /\ \A i \in 1 .. Len(ls) - mid - 1 : high[i] = ls[mid + 1 + i]
    <3> HIDE DEF ls
    <3> QED BY <1>1, <1>3, Halves, Zenon
  <2>3. Len(ls) \in Nat /\ \A i \in 1 .. Len(ls) : ls[i] \in Records
    BY <1>1
  <2>4. Len(low) < Len(ls) /\ Len(high) < Len(ls)
    <3> HIDE DEF low, high, mid, ls
    <3> QED BY <2>2, <2>3
  <2>5. Finds(zlow, low, item, sort)
    <3> DEFINE v == <<low, item, sort>>
    <3>1. v \in Searches /\ v[1] = low /\ v[2] = item /\ v[3] = sort
      BY <1>1, <2>2, Zenon DEF Searches
    <3> QED BY <2>4, <3>1, Zenon
  <2>6. Finds(zhigh, high, item, sort)
    <3> DEFINE v == <<high, item, sort>>
    <3>1. v \in Searches /\ v[1] = high /\ v[2] = item /\ v[3] = sort
      BY <1>1, <2>2, Zenon DEF Searches
    <3> QED BY <2>4, <3>1, Zenon
  <2> HIDE DEF z, zlow, zhigh, low, high, x, mid, ls, item, sort
  <2>7. CASE Compare(item, x, sort) < 0
    <3>1. z = zlow
      BY <2>1, <2>7
    <3>2. /\ z.pos \in 0 .. mid /\ z.found \in BOOLEAN
          /\ z.found => z.pos < mid /\ Compare(item, ls[z.pos + 1], sort) = 0
      BY <2>2, <2>5, <3>1 DEF Finds
    <3>3. ASSUME ~z.found, Sorted(ls, sort)
          PROVE  /\ \A i \in 1 .. z.pos : Compare(item, ls[i], sort) > 0
                 /\ \A i \in z.pos + 1 .. Len(ls) : Compare(item, ls[i], sort) < 0
      <4>1. Sorted(low, sort)
        BY <2>2, <2>3, <3>3 DEF Sorted
      <4>2. /\ \A i \in 1 .. z.pos : Compare(item, low[i], sort) > 0
            /\ \A i \in z.pos + 1 .. mid : Compare(item, low[i], sort) < 0
        BY <2>2, <2>5, <3>1, <3>3, <4>1 DEF Finds
      <4>3. ASSUME NEW i \in mid + 2 .. Len(ls) PROVE Compare(item, ls[i], sort) < 0
        <5>1. ls[i] \in Records /\ x = ls[mid + 1]
          BY <2>2, <2>3 DEF x
        <5>2. Compare(x, ls[i], sort) < 0
          BY <2>2, <2>3, <3>3, <5>1 DEF Sorted
        <5> QED BY <1>1, <2>2, <2>7, <5>1, <5>2, CompareTransitive
      <4>4. ASSUME NEW i \in z.pos + 1 .. Len(ls) PROVE Compare(item, ls[i], sort) < 0
        <5>1. CASE i <= mid
          BY <2>2, <2>3, <3>2, <4>2, <5>1
        <5>2. CASE i = mid + 1
          BY <2>7, <5>2 DEF x
        <5>3. CASE i > mid + 1
          BY <2>2, <2>3, <3>2, <4>3, <5>3
        <5> QED BY <2>2, <2>3, <3>2, <5>1, <5>2, <5>3
      <4>5. ASSUME NEW i \in 1 .. z.pos PROVE Compare(item, ls[i], sort) > 0
        <5>1. i \in 1 .. mid /\ low[i] = ls[i]
          BY <2>2, <3>2
        <5> QED BY <4>2, <5>1
      <4> QED BY <4>4, <4>5
    <3>4. Finds(z, ls, item, sort)
      BY <2>2, <2>3, <3>2, <3>3 DEF Finds
    <3> QED BY <3>4 DEF z, ls, item, sort
  <2>8. CASE Compare(item, x, sort) > 0
    <3>1. ~(Compare(item, x, sort) < 0)
      BY <1>1, <2>2, <2>8, CompareType
    <3>2. z.pos = mid + 1 + zhigh.pos /\ z.found = zhigh.found
      BY <2>1, <2>8, <3>1
    <3>3. zhigh.pos \in 0 .. Len(ls) - mid - 1 /\ z.pos \in mid + 1 .. Len(ls) /\ z.found \in BOOLEAN
      BY <2>2, <2>3, <2>6, <3>2 DEF Finds
    <3>4. z.found => z.pos < Len(ls) /\ Compare(item, ls[z.pos + 1], sort) = 0
      <4> SUFFICES ASSUME z.found PROVE z.pos < Len(ls) /\ Compare(item, ls[z.pos + 1], sort) = 0
        OBVIOUS
      <4>1. zhigh.pos < Len(ls) - mid - 1 /\ Compare(item, high[zhigh.pos + 1], sort) = 0
        BY <2>2, <2>6, <3>2 DEF Finds
      <4>2. mid + 1 + (zhigh.pos + 1) = z.pos + 1 /\ zhigh.pos + 1 \in 1 .. Len(ls) - mid - 1
        BY <2>2, <2>3, <3>2, <3>3, <4>1
      <4>3. high[zhigh.pos + 1] = ls[mid + 1 + (zhigh.pos + 1)]
        BY <2>2, <4>2
      <4> QED BY <2>2, <2>3, <3>2, <3>3, <4>1, <4>2, <4>3
    <3>5. ASSUME ~z.found, Sorted(ls, sort)
          PROVE  /\ \A i \in 1 .. z.pos : Compare(item, ls[i], sort) > 0
                 /\ \A i \in z.pos + 1 .. Len(ls) : Compare(item, ls[i], sort) < 0
      <4>1. Sorted(high, sort)
        <5>1. \A i \in 1 .. Len(high) : mid + 1 + i \in 1 .. Len(ls) /\ high[i] = ls[mid + 1 + i]
          BY <2>2, <2>3
        <5>2. \A i, j \in 1 .. Len(high) : i < j => mid + 1 + i < mid + 1 + j
          BY <2>2
        <5> QED BY <3>5, <5>1, <5>2, Zenon DEF Sorted
      <4>2. /\ \A i \in 1 .. zhigh.pos : Compare(item, high[i], sort) > 0
            /\ \A i \in zhigh.pos + 1 .. Len(ls) - mid - 1 : Compare(item, high[i], sort) < 0
        BY <2>2, <2>6, <3>2, <3>5, <4>1 DEF Finds
      <4>3. ASSUME NEW i \in 1 .. mid PROVE Compare(item, ls[i], sort) > 0
        <5>1. ls[i] \in Records /\ x = ls[mid + 1]
          BY <2>2, <2>3 DEF x
        <5>2. i \in 1 .. Len(ls) /\ mid + 1 \in 1 .. Len(ls) /\ i < mid + 1
          BY <2>2, <2>3
        <5>3. Compare(ls[i], ls[mid + 1], sort) < 0
          BY <3>5, <5>2 DEF Sorted
        <5>4. Compare(x, item, sort) < 0
          BY <1>1, <2>2, <2>8, CompareConverse, CompareType
        <5>5. Compare(ls[i], item, sort) < 0
          BY <1>1, <2>2, <5>1, <5>3, <5>4, CompareTransitive
        <5> QED BY <1>1, <5>1, <5>5, CompareConverse, CompareType
      <4>4. ASSUME NEW i \in mid + 2 .. Len(ls)
            PROVE  i - mid - 1 \in 1 .. Len(ls) - mid - 1 /\ ls[i] = high[i - mid - 1]
        <5>1. i - mid - 1 \in 1 .. Len(ls) - mid - 1 /\ mid + 1 + (i - mid - 1) = i
          BY <2>2, <2>3
        <5> QED BY <2>2, <5>1
      <4>5. ASSUME NEW i \in 1 .. z.pos PROVE Compare(item, ls[i], sort) > 0
        <5>1. CASE i <= mid
          BY <2>2, <4>3, <5>1
        <5>2. CASE i = mid + 1
          BY <2>8, <5>2 DEF x
        <5>3. CASE i > mid + 1
          <6>1. i \in mid + 2 .. Len(ls) /\ i - mid - 1 \in 1 .. zhigh.pos
            BY <2>2, <2>3, <3>2, <3>3, <5>3
          <6> QED BY <4>2, <4>4, <6>1
        <5> QED BY <2>2, <2>3, <3>3, <5>1, <5>2, <5>3
      <4>6. ASSUME NEW i \in z.pos + 1 .. Len(ls) PROVE Compare(item, ls[i], sort) < 0
        <5>1. i \in mid + 2 .. Len(ls) /\ i - mid - 1 \in zhigh.pos + 1 .. Len(ls) - mid - 1
          BY <2>2, <2>3, <3>2, <3>3
        <5> QED BY <4>2, <4>4, <5>1
      <4> QED BY <4>5, <4>6
    <3>6. Finds(z, ls, item, sort)
      BY <2>2, <2>3, <3>3, <3>4, <3>5 DEF Finds
    <3> QED BY <3>6 DEF z, ls, item, sort
  <2>9. CASE Compare(item, x, sort) = 0
    <3>1. z.pos = mid /\ z.found = TRUE
      BY <2>1, <2>9
    <3>2. mid \in 0 .. Len(ls) /\ Compare(item, ls[mid + 1], sort) = 0
      BY <2>2, <2>3, <2>9 DEF x
    <3>3. z.pos \in 0 .. Len(ls) /\ z.found \in BOOLEAN /\ z.found
          /\ z.pos < Len(ls) /\ Compare(item, ls[z.pos + 1], sort) = 0
      BY <2>2, <3>1, <3>2
    <3>4. Finds(z, ls, item, sort)
      BY <3>3, Zenon DEF Finds
    <3> QED BY <3>4 DEF z, ls, item, sort
  <2> QED BY <1>1, <2>2, <2>7, <2>8, <2>9, CompareType
<1> QED BY <1>2, <1>3

(* What bin_search (listing.c:273) promises of every listing, record and  *)
(* order: the entry it reports as found is equal to the item; and where it *)
(* reports none in a listing in order, the entries before the place it     *)
(* returns come before the item, and those from there on come after it.    *)
THEOREM BinSearchFinds ==
    \A ls \in Seq(Records), item \in Records, sort \in {SORT_ARTIST, SORT_BPM} :
        Finds(bin_search[<<ls, item, sort>>], ls, item, sort)
<1> DEFINE Correct(k) == \A w \in Searches : Len(w[1]) <= k => Finds(bin_search[w], w[1], w[2], w[3])
           K == {k \in Nat : Correct(k)}
<1>1. \A w \in Searches : Len(w[1]) \in Nat
  BY DEF Searches
<1>2. 0 \in K
  <2>1. ASSUME NEW w \in Searches, Len(w[1]) <= 0 PROVE Finds(bin_search[w], w[1], w[2], w[3])
    <3>1. \A v \in Searches : Len(v[1]) < Len(w[1]) => Finds(bin_search[v], v[1], v[2], v[3])
      BY <1>1, <2>1
    <3>2. Finds(Halve(bin_search, w), w[1], w[2], w[3])
      BY <3>1, FindsByHalves, Zenon
    <3> QED BY <3>2, BinSearch
  <2> QED BY <2>1
<1>3. ASSUME NEW k \in Nat, k \in K PROVE k + 1 \in K
  <2>1. ASSUME NEW w \in Searches, Len(w[1]) <= k + 1 PROVE Finds(bin_search[w], w[1], w[2], w[3])
    <3>1. ASSUME NEW v \in Searches, Len(v[1]) < Len(w[1]) PROVE Finds(bin_search[v], v[1], v[2], v[3])
      <4>1. Len(v[1]) <= k
        BY <1>1, <2>1, <3>1
      <4> QED BY <1>3, <4>1
    <3>2. Finds(Halve(bin_search, w), w[1], w[2], w[3])
      BY <3>1, FindsByHalves, Zenon
    <3> QED BY <3>2, BinSearch
  <2> QED BY <2>1
<1> HIDE DEF K
<1>4. Nat \subseteq K
  BY <1>2, <1>3, Induction, Zenon
<1>5. ASSUME NEW ls \in Seq(Records), NEW item \in Records, NEW sort \in {SORT_ARTIST, SORT_BPM}
      PROVE  Finds(bin_search[<<ls, item, sort>>], ls, item, sort)
  <2> DEFINE w == <<ls, item, sort>>
  <2>1. w \in Searches /\ w[1] = ls /\ w[2] = item /\ w[3] = sort /\ Len(ls) \in K
    BY <1>4 DEF Searches
  <2>2. Finds(bin_search[w], w[1], w[2], w[3])
    BY <1>1, <2>1 DEF K
  <2> QED BY <2>1, <2>2, Zenon
<1> QED BY <1>5

-----------------------------------------------------------------------------
(* An element goes into a sequence.                                        *)

(* The elements of a sequence, by their places. *)
LEMMA Elements ==
    ASSUME NEW S, NEW s \in Seq(S)
    PROVE  /\ Len(s) \in Nat /\ \A i \in 1 .. Len(s) : s[i] \in S
           /\ \A x : x \in ToSet(s) <=> \E i \in 1 .. Len(s) : x = s[i]
BY DEF ToSet

(* r is s with e put in after k of its elements.                           *)
IsInserted(r, S, s, e, k) ==
    /\ r \in Seq(S) /\ Len(r) = Len(s) + 1
    /\ \A i \in 1 .. k : r[i] = s[i]
    /\ r[k + 1] = e
    /\ \A i \in k + 2 .. Len(s) + 1 : r[i] = s[i - 1]
    /\ ToSet(r) = ToSet(s) \union {e}

(* InsertAt puts an element in, and moves on those behind it. *)
LEMMA Inserted ==
    ASSUME NEW S, NEW s \in Seq(S), NEW e \in S, NEW k \in 0 .. Len(s)
    PROVE  IsInserted(InsertAt(s, k + 1, e), S, s, e, k)
<1> DEFINE a == SubSeq(s, 1, k)
           b == SubSeq(s, k + 1, Len(s))
           r == a \o <<e>> \o b
<1>1. Len(s) \in Nat /\ k \in Nat /\ k <= Len(s) /\ \A i \in 1 .. Len(s) : s[i] \in S
  OBVIOUS
<1>2. InsertAt(s, k + 1, e) = r
  <2>1. (k + 1) - 1 = k
    BY <1>1
  <2> QED BY <2>1, Zenon DEF InsertAt
<1>3. a \in Seq(S) /\ Len(a) = k /\ \A i \in 1 .. k : a[i] = s[i]
  BY <1>1
<1>4. b \in Seq(S) /\ Len(b) = Len(s) - k /\ \A i \in 1 .. Len(s) - k : b[i] = s[k + i]
  <2>1. \A i \in k + 1 .. Len(s) : s[i] \in S
    BY <1>1
  <2>2. b \in Seq(S) /\ Len(b) = (IF k + 1 <= Len(s) THEN Len(s) - (k + 1) + 1 ELSE 0)
        /\ \A i \in 1 .. Len(s) - (k + 1) + 1 : b[i] = s[k + 1 + i - 1]
    BY <1>1, <2>1, SubSeqProperties
  <2> HIDE DEF b
  <2>3. \A i \in 1 .. Len(s) - k : i \in 1 .. Len(s) - (k + 1) + 1 /\ k + 1 + i - 1 = k + i
    BY <1>1
  <2> QED BY <1>1, <2>2, <2>3
<1> HIDE DEF a, b
<1>5. a \o <<e>> \in Seq(S) /\ Len(a \o <<e>>) = k + 1
      /\ (\A i \in 1 .. k : (a \o <<e>>)[i] = s[i]) /\ (a \o <<e>>)[k + 1] = e
  BY <1>1, <1>3
<1>6. r \in Seq(S) /\ Len(r) = Len(s) + 1
      /\ \A i \in 1 .. Len(s) + 1 :
            r[i] = IF i <= k + 1 THEN (a \o <<e>>)[i] ELSE b[i - (k + 1)]
  <2> DEFINE ae == a \o <<e>>
  <2> HIDE DEF ae
  <2>1. ae \in Seq(S) /\ Len(ae) = k + 1
    BY <1>5 DEF ae
  <2>2. ae \o b \in Seq(S) /\ Len(ae \o b) = Len(ae) + Len(b)
        /\ \A i \in 1 .. Len(ae) + Len(b) : (ae \o b)[i] = IF i <= Len(ae) THEN ae[i] ELSE b[i - Len(ae)]
    BY <1>4, <2>1, ConcatProperties
  <2>3. Len(ae) + Len(b) = Len(s) + 1
    BY <1>1, <1>4, <2>1
  <2> QED BY <2>1, <2>2, <2>3, Zenon DEF ae
<1> HIDE DEF r
<1>7. (\A i \in 1 .. k : r[i] = s[i]) /\ r[k + 1] = e
  BY <1>1, <1>5, <1>6
<1>8. ASSUME NEW i \in k + 2 .. Len(s) + 1 PROVE r[i] = s[i - 1]
  <2>1. i - (k + 1) \in 1 .. Len(s) - k /\ k + (i - (k + 1)) = i - 1 /\ ~(i <= k + 1)
        /\ i \in 1 .. Len(s) + 1
    BY <1>1
  <2> QED BY <1>4, <1>6, <2>1
<1>9. ToSet(r) = ToSet(s) \union {e}
  <2>1. \A i \in 1 .. Len(s) + 1 : r[i] \in ToSet(s) \union {e}
    <3> TAKE i \in 1 .. Len(s) + 1
    <3>1. CASE i <= k
      BY <1>1, <1>7, <3>1 DEF ToSet
    <3>2. CASE i = k + 1
      BY <1>7, <3>2
    <3>3. CASE i > k + 1
      <4>1. i \in k + 2 .. Len(s) + 1 /\ i - 1 \in 1 .. Len(s)
        BY <1>1, <3>3
      <4> QED BY <1>8, <4>1 DEF ToSet
    <3> QED BY <1>1, <3>1, <3>2, <3>3
  <2>2. \A i \in 1 .. Len(s) : s[i] \in ToSet(r)
    <3> TAKE i \in 1 .. Len(s)
    <3>1. CASE i <= k
      <4>1. i \in 1 .. Len(r) /\ r[i] = s[i]
        BY <1>1, <1>6, <1>7, <3>1
      <4> QED BY <1>6, <4>1, Elements
    <3>2. CASE i > k
      <4>1. i + 1 \in k + 2 .. Len(s) + 1 /\ i + 1 \in 1 .. Len(r) /\ (i + 1) - 1 = i
        BY <1>1, <1>6, <3>2
      <4>2. r[i + 1] = s[i]
        BY <1>8, <4>1
      <4> QED BY <1>6, <4>1, <4>2, Elements
    <3> QED BY <1>1, <3>1, <3>2
  <2>3. e \in ToSet(r)
    BY <1>1, <1>6, <1>7 DEF ToSet
  <2>4. ASSUME NEW x PROVE x \in ToSet(r) <=> x \in ToSet(s) \union {e}
    <3>1. x \in ToSet(r) => x \in ToSet(s) \union {e}
      BY <1>6, <2>1, Elements
    <3>2. x \in ToSet(s) => x \in ToSet(r)
      BY <2>2, Elements
    <3> QED BY <2>3, <3>1, <3>2
  <2> QED BY <2>4
<1> QED BY <1>2, <1>6, <1>7, <1>8, <1>9 DEF IsInserted

(* listing_insert keeps a listing in order, and what it returns is in it.  *)
LEMMA ListingInserts ==
    ASSUME NEW ls \in Seq(Records), NEW item \in Records,
           NEW sort \in {SORT_ARTIST, SORT_BPM}, Sorted(ls, sort)
    PROVE  LET r == listing_insert(ls, item, sort)
           IN /\ r.listing \in Seq(Records) /\ Sorted(r.listing, sort)
              /\ r.entry \in Records /\ Compare(item, r.entry, sort) = 0
              /\ \/ r.entry \in ToSet(ls) /\ r.listing = ls
                 \/ /\ r.entry = item /\ ToSet(r.listing) = ToSet(ls) \union {item}
                    /\ \A x \in ToSet(ls) : Compare(item, x, sort) # 0
<1> DEFINE z == bin_search[<<ls, item, sort>>]
           new == InsertAt(ls, z.pos + 1, item)
           r == listing_insert(ls, item, sort)
<1>1. Len(ls) \in Nat /\ \A i \in 1 .. Len(ls) : ls[i] \in Records
  OBVIOUS
<1>2. Finds(z, ls, item, sort)
  BY BinSearchFinds, Zenon
<1>3. CASE z.found
  <2>1. r.entry = ls[z.pos + 1] /\ r.listing = ls
    BY <1>3 DEF listing_insert
  <2> HIDE DEF z, r
  <2>2. z.pos + 1 \in 1 .. Len(ls) /\ Compare(item, ls[z.pos + 1], sort) = 0
    BY <1>1, <1>2, <1>3 DEF Finds
  <2>3. r.entry \in Records /\ r.entry \in ToSet(ls)
    BY <1>1, <2>1, <2>2 DEF ToSet
  <2>4. Compare(item, r.entry, sort) = 0
    BY <2>1, <2>2
  <2> QED BY <2>1, <2>3, <2>4 DEF r
<1>4. CASE ~z.found
  <2>1. r.entry = item /\ r.listing = new
    BY <1>4 DEF listing_insert
  <2> HIDE DEF z, r
  <2>2. /\ \A i \in 1 .. z.pos : Compare(item, ls[i], sort) > 0
        /\ \A i \in z.pos + 1 .. Len(ls) : Compare(item, ls[i], sort) < 0
        /\ z.pos \in 0 .. Len(ls)
    BY <1>2, <1>4 DEF Finds
  <2>3. /\ new \in Seq(Records) /\ Len(new) = Len(ls) + 1
        /\ \A i \in 1 .. z.pos : new[i] = ls[i]
        /\ new[z.pos + 1] = item
        /\ \A i \in z.pos + 2 .. Len(ls) + 1 : new[i] = ls[i - 1]
        /\ ToSet(new) = ToSet(ls) \union {item}
    <3>1. IsInserted(new, Records, ls, item, z.pos)
      BY <2>2, Inserted, Zenon
    <3> QED BY <3>1, Zenon DEF IsInserted
  <2> HIDE DEF new
  <2>4. ASSUME NEW i \in 1 .. Len(new), NEW j \in 1 .. Len(new), i < j
        PROVE  Compare(new[i], new[j], sort) < 0
    <3>1. CASE j <= z.pos
      <4>1. i \in 1 .. Len(ls) /\ j \in 1 .. Len(ls) /\ new[i] = ls[i] /\ new[j] = ls[j]
        BY <1>1, <2>2, <2>3, <2>4, <3>1
      <4> QED BY <2>4, <4>1 DEF Sorted
    <3>2. CASE j = z.pos + 1
      <4>1. i \in 1 .. z.pos /\ new[i] = ls[i] /\ new[j] = item /\ ls[i] \in Records
        BY <1>1, <2>2, <2>3, <2>4, <3>2
      <4>2. Compare(item, ls[i], sort) > 0
        BY <2>2, <4>1
      <4>3. /\ Compare(ls[i], item, sort) = 0 - Compare(item, ls[i], sort)
            /\ Compare(item, ls[i], sort) \in {-1, 0, 1}
        BY <4>1, CompareConverse, CompareType
      <4> QED BY <4>1, <4>2, <4>3
    <3>3. CASE j > z.pos + 1
      <4>1. j - 1 \in z.pos + 1 .. Len(ls) /\ j - 1 \in 1 .. Len(ls) /\ new[j] = ls[j - 1]
        BY <1>1, <2>2, <2>3, <2>4, <3>3
      <4>2. CASE i <= z.pos
        <5>1. i \in 1 .. Len(ls) /\ i < j - 1 /\ new[i] = ls[i]
          BY <1>1, <2>2, <2>3, <4>1, <4>2
        <5> QED BY <4>1, <5>1 DEF Sorted
      <4>3. CASE i = z.pos + 1
        BY <2>2, <2>3, <4>1, <4>3
      <4>4. CASE i > z.pos + 1
        <5>1. i - 1 \in 1 .. Len(ls) /\ i - 1 < j - 1 /\ new[i] = ls[i - 1]
          BY <1>1, <2>2, <2>3, <2>4, <4>1, <4>4
        <5> QED BY <4>1, <5>1 DEF Sorted
      <4> QED BY <1>1, <2>2, <2>3, <4>2, <4>3, <4>4
    <3> QED BY <1>1, <2>2, <2>3, <3>1, <3>2, <3>3
  <2>5. Sorted(new, sort)
    BY <2>4 DEF Sorted
  <2>6. ASSUME NEW x \in ToSet(ls) PROVE Compare(item, x, sort) # 0
    <3>1. PICK i \in 1 .. Len(ls) : x = ls[i]
      BY DEF ToSet
    <3> QED BY <1>1, <2>2, <3>1
  <2> QED BY <2>1, <2>3, <2>5, <2>6, CompareSame DEF r
<1> QED BY <1>3, <1>4

(* The elements of a sequence with one more at its end. *)
LEMMA Appended ==
    ASSUME NEW S, NEW o \in Seq(S), NEW r \in S
    PROVE  Append(o, r) \in Seq(S) /\ ToSet(Append(o, r)) = ToSet(o) \union {r}
<1> DEFINE n == Append(o, r)
<1>1. o \in Seq(S) /\ n \in Seq(S) /\ Len(n) = Len(o) + 1 /\ Len(o) \in Nat
      /\ n[Len(o) + 1] = r /\ \A i \in 1 .. Len(o) : n[i] = o[i]
  BY AppendProperties
<1> HIDE DEF n
<1>2. \A x : x \in ToSet(n) <=> \E i \in 1 .. Len(n) : x = n[i]
  BY <1>1, Elements
<1>3. \A x : x \in ToSet(o) <=> \E i \in 1 .. Len(o) : x = o[i]
  BY <1>1, Elements
<1>4. ASSUME NEW x PROVE x \in ToSet(n) <=> x \in ToSet(o) \union {r}
  <2>1. x \in ToSet(n) => x \in ToSet(o) \union {r}
    <3> SUFFICES ASSUME NEW i \in 1 .. Len(n), x = n[i] PROVE x \in ToSet(o) \union {r}
      BY <1>2
    <3>1. CASE i = Len(o) + 1
      BY <1>1, <3>1
    <3>2. CASE i # Len(o) + 1
      <4>1. i \in 1 .. Len(o)
        BY <1>1, <3>2
      <4> QED BY <1>1, <1>3, <4>1
    <3> QED BY <3>1, <3>2
  <2>2. x \in ToSet(o) => x \in ToSet(n)
    <3> SUFFICES ASSUME NEW i \in 1 .. Len(o), x = o[i] PROVE x \in ToSet(n)
      BY <1>3
    <3>1. i \in 1 .. Len(n) /\ n[i] = x
      BY <1>1
    <3> QED BY <1>2, <3>1
  <2>3. r \in ToSet(n)
    <3>1. Len(o) + 1 \in 1 .. Len(n)
      BY <1>1
    <3> QED BY <1>1, <1>2, <3>1
  <2> QED BY <2>1, <2>2, <2>3
<1> QED BY <1>1, <1>4 DEF n

-----------------------------------------------------------------------------
(* The copy of part of a listing.                                          *)

Copies == Seq(Records) \X SUBSET Records

Copy(f, w) ==
    LET src == w[1]
        before == f[<<Front(src), w[2]>>]
    IN IF src = <<>> THEN <<>>
       ELSE IF Last(src) \in w[2] THEN Append(before, Last(src)) ELSE before

CopiesUpTo(f, k) == \A w \in Copies : Len(w[1]) <= k => f[w] = Copy(f, w)

(* A listing that is not empty is one record more than another. *)
LEMMA FrontAndLast ==
    ASSUME NEW ls \in Seq(Records), ls # <<>>
    PROVE  /\ Front(ls) \in Seq(Records) /\ Last(ls) \in Records
           /\ Len(ls) \in Nat /\ Len(ls) = Len(Front(ls)) + 1 /\ Last(ls) = ls[Len(ls)]
           /\ \A i \in 1 .. Len(Front(ls)) : Front(ls)[i] = ls[i]
<1>1. Len(ls) \in Nat /\ Len(ls) > 0 /\ \A i \in 1 .. Len(ls) : ls[i] \in Records
  OBVIOUS
<1>2. Front(ls) = SubSeq(ls, 1, Len(ls) - 1) /\ Last(ls) = ls[Len(ls)]
  BY Zenon DEF Front, Last
<1>3. /\ SubSeq(ls, 1, Len(ls) - 1) \in Seq(Records)
      /\ Len(SubSeq(ls, 1, Len(ls) - 1)) = Len(ls) - 1
      /\ \A i \in 1 .. Len(ls) - 1 : SubSeq(ls, 1, Len(ls) - 1)[i] = ls[i]
  <2> DEFINE n == Len(ls) - 1
  <2>1. Len(ls) \in Nat /\ Len(ls) > 0
    BY <1>1
  <2>2. n \in Nat /\ n < Len(ls)
    BY <2>1
  <2> HIDE DEF n
  <2>3. SubSeq(ls, 1, n) \in Seq(Records) /\ Len(SubSeq(ls, 1, n)) = n
        /\ \A i \in 1 .. n : SubSeq(ls, 1, n)[i] = ls[i]
    BY <1>1, <2>2
  <2> QED BY <2>3 DEF n
<1>4. Last(ls) \in Records
  BY <1>1, <1>2
<1>5. Len(ls) = Len(ls) - 1 + 1
  BY <1>1
<1> QED BY <1>1, <1>2, <1>3, <1>4, <1>5

(* A step of the copy depends on the copies of shorter listings only. *)
LEMMA CopyAgrees ==
    ASSUME NEW f, NEW g, NEW w \in Copies,
           \A v \in Copies : Len(v[1]) < Len(w[1]) => f[v] = g[v]
    PROVE  Copy(f, w) = Copy(g, w)
<1> DEFINE ls == w[1]
           v == <<Front(ls), w[2]>>
<1>1. ls \in Seq(Records) /\ w[2] \in SUBSET Records
  BY DEF Copies
<1>2. CASE ls = <<>>
  BY <1>2 DEF Copy
<1>3. CASE ls # <<>>
  <2>1. Front(ls) \in Seq(Records) /\ Len(Front(ls)) < Len(ls)
    <3> HIDE DEF ls
    <3> QED BY <1>1, <1>3, FrontAndLast
  <2>2. v \in Copies /\ v[1] = Front(ls)
    BY <1>1, <2>1, Zenon DEF Copies
  <2>3. f[v] = g[v]
    BY <2>1, <2>2
  <2> QED BY <2>3, <1>3 DEF Copy
<1> QED BY <1>2, <1>3

(* Two functions that copy listings up to a length agree on them. *)
LEMMA CopiesAgree ==
    \A k \in Nat : \A f, g : CopiesUpTo(f, k) /\ CopiesUpTo(g, k) =>
        \A w \in Copies : Len(w[1]) <= k => f[w] = g[w]
<1> DEFINE Agree(k) == \A f, g : CopiesUpTo(f, k) /\ CopiesUpTo(g, k) =>
                          \A w \in Copies : Len(w[1]) <= k => f[w] = g[w]
           K == {k \in Nat : Agree(k)}
<1>1. \A w \in Copies : Len(w[1]) \in Nat
  BY DEF Copies
<1>2. 0 \in K
  <2> SUFFICES ASSUME NEW f, NEW g, CopiesUpTo(f, 0), CopiesUpTo(g, 0), NEW w \in Copies, Len(w[1]) <= 0
               PROVE  f[w] = g[w]
    OBVIOUS
  <2>1. \A v \in Copies : Len(v[1]) < Len(w[1]) => f[v] = g[v]
    BY <1>1
  <2>2. Copy(f, w) = Copy(g, w)
    BY <2>1, CopyAgrees, Zenon
  <2> QED BY <2>2 DEF CopiesUpTo
<1>3. ASSUME NEW k \in Nat, k \in K PROVE k + 1 \in K
  <2> SUFFICES ASSUME NEW f, NEW g, CopiesUpTo(f, k + 1), CopiesUpTo(g, k + 1),
                      NEW w \in Copies, Len(w[1]) <= k + 1
               PROVE  f[w] = g[w]
    OBVIOUS
  <2>1. CopiesUpTo(f, k) /\ CopiesUpTo(g, k)
    BY <1>1 DEF CopiesUpTo
  <2>2. \A v \in Copies : Len(v[1]) <= k => f[v] = g[v]
    BY <1>3, <2>1
  <2>3. \A v \in Copies : Len(v[1]) < Len(w[1]) => f[v] = g[v]
    BY <1>1, <2>2
  <2>4. Copy(f, w) = Copy(g, w)
    BY <2>3, CopyAgrees, Zenon
  <2> QED BY <2>4 DEF CopiesUpTo
<1> HIDE DEF K
<1>4. Nat \subseteq K
  BY <1>2, <1>3, Induction, Zenon
<1> QED BY <1>4 DEF K

(* There is one for every length. *)
LEMMA CopiesExist == \A k \in Nat : \E f : CopiesUpTo(f, k)
<1> DEFINE K == {k \in Nat : \E f : CopiesUpTo(f, k)}
<1>1. \A w \in Copies : Len(w[1]) \in Nat
  BY DEF Copies
<1>2. 0 \in K
  <2> DEFINE g == [w \in Copies |-> 0]
             h == [w \in Copies |-> Copy(g, w)]
  <2>1. ASSUME NEW w \in Copies, Len(w[1]) <= 0 PROVE h[w] = Copy(h, w)
    <3>1. \A v \in Copies : Len(v[1]) < Len(w[1]) => g[v] = h[v]
      BY <1>1, <2>1
    <3> HIDE DEF g
    <3>2. Copy(g, w) = Copy(h, w)
      BY <3>1, CopyAgrees, Zenon
    <3> QED BY <3>2
  <2>2. CopiesUpTo(h, 0)
    BY <2>1, Zenon DEF CopiesUpTo
  <2> QED BY <2>2
<1>3. ASSUME NEW k \in Nat, k \in K PROVE k + 1 \in K
  <2>1. PICK g : CopiesUpTo(g, k)
    BY <1>3
  <2> DEFINE h == [w \in Copies |-> Copy(g, w)]
  <2>2. ASSUME NEW w \in Copies, Len(w[1]) <= k + 1 PROVE h[w] = Copy(h, w)
    <3>1. ASSUME NEW v \in Copies, Len(v[1]) < Len(w[1]) PROVE g[v] = h[v]
      <4>1. Len(v[1]) <= k
        BY <1>1, <2>2, <3>1
      <4> QED BY <2>1, <4>1 DEF CopiesUpTo
    <3>2. Copy(g, w) = Copy(h, w)
      BY <3>1, CopyAgrees, Zenon
    <3> QED BY <3>2
  <2>3. CopiesUpTo(h, k + 1)
    BY <2>2, Zenon DEF CopiesUpTo
  <2> QED BY <2>3
<1> HIDE DEF K
<1>4. Nat \subseteq K
  BY <1>2, <1>3, Induction, Zenon
<1> QED BY <1>4 DEF K

(* So the recursion of subset defines a function: its value is what the  *)
(* definition says.                                                        *)
LEMMA Subset ==
    \A w \in Copies : subset[w] = Copy(subset, w)
<1> DEFINE upTo == [w \in Copies |-> CHOOSE f : CopiesUpTo(f, Len(w[1]))]
           some == [w \in Copies |-> upTo[w][w]]
<1>1. \A w \in Copies : Len(w[1]) \in Nat
  BY DEF Copies
<1>2. ASSUME NEW w \in Copies PROVE some[w] = Copy(some, w)
  <2> DEFINE g == CHOOSE f : CopiesUpTo(f, Len(w[1]))
  <2>1. CopiesUpTo(g, Len(w[1]))
    BY <1>1, CopiesExist, Zenon
  <2>2. ASSUME NEW v \in Copies, Len(v[1]) < Len(w[1]) PROVE g[v] = some[v]
    <3> DEFINE h == CHOOSE f : CopiesUpTo(f, Len(v[1]))
    <3>1. CopiesUpTo(h, Len(v[1]))
      BY <1>1, CopiesExist, Zenon
    <3>2. CopiesUpTo(g, Len(v[1]))
      <4> HIDE DEF g
      <4> QED BY <1>1, <2>1, <2>2 DEF CopiesUpTo
    <3>3. h[v] = g[v]
      <4>1. Len(v[1]) \in Nat /\ Len(v[1]) <= Len(v[1])
        BY <1>1
      <4> HIDE DEF g, h
      <4> QED BY <3>1, <3>2, <4>1, CopiesAgree, Zenon
    <3>4. some[v] = h[v]
      BY Zenon
    <3> QED BY <3>3, <3>4, Zenon
  <2>3. some[w] = g[w]
    BY Zenon
  <2> HIDE DEF g, some
  <2>4. Copy(g, w) = Copy(some, w)
    BY <2>2, CopyAgrees, Zenon
  <2>5. g[w] = Copy(g, w)
    BY <1>1, <2>1 DEF CopiesUpTo
  <2> QED BY <2>3, <2>4, <2>5, Zenon
<1>3. some = [w \in Copies |-> Copy(some, w)]
  <2> HIDE DEF upTo
  <2>1. some = [w \in Copies |-> some[w]]
    OBVIOUS
  <2> QED BY <1>2, <2>1, Zenon
<1> HIDE DEF some
<1>4. subset = CHOOSE f : f = [w \in Copies |-> Copy(f, w)]
  BY Zenon DEF subset, Copies, Copy
<1>5. subset = [w \in Copies |-> Copy(subset, w)]
  BY <1>3, <1>4, Zenon
<1> QED BY <1>5, Zenon

(* The copy of a listing from the copy of it without its last record. *)
LEMMA SubsetStep ==
    ASSUME NEW src \in Seq(Records), NEW kept \in SUBSET Records
    PROVE  subset[<<src, kept>>] =
              IF src = <<>> THEN <<>>
              ELSE IF Last(src) \in kept
              THEN Append(subset[<<Front(src), kept>>], Last(src))
              ELSE subset[<<Front(src), kept>>]
<1> DEFINE w == <<src, kept>>
<1>1. w \in Copies /\ w[1] = src /\ w[2] = kept
  BY Zenon DEF Copies
<1>2. subset[w] = Copy(subset, w)
  BY <1>1, Subset, Zenon
<1> QED BY <1>1, <1>2 DEF Copy

(* What the copy has, and that it keeps the order.                         *)
LEMMA SubsetIs ==
    \A src \in Seq(Records), kept \in SUBSET Records :
        LET r == subset[<<src, kept>>]
        IN /\ r \in Seq(Records) /\ ToSet(r) = ToSet(src) \cap kept
           /\ \A sort : Sorted(src, sort) => Sorted(r, sort)
<1> DEFINE Correct(k) ==
              \A src \in Seq(Records), kept \in SUBSET Records : Len(src) <= k =>
                 LET r == subset[<<src, kept>>]
                 IN /\ r \in Seq(Records) /\ ToSet(r) = ToSet(src) \cap kept
                    /\ \A sort : Sorted(src, sort) => Sorted(r, sort)
           K == {k \in Nat : Correct(k)}
<1>1. ASSUME NEW src \in Seq(Records), NEW kept \in SUBSET Records
      PROVE  subset[<<src, kept>>] =
                IF src = <<>> THEN <<>>
                ELSE IF Last(src) \in kept
                THEN Append(subset[<<Front(src), kept>>], Last(src))
                ELSE subset[<<Front(src), kept>>]
  BY SubsetStep, Zenon
<1>2. ToSet(<<>>) = {} /\ <<>> \in Seq(Records) /\ \A sort : Sorted(<<>>, sort)
  BY DEF ToSet, Sorted
<1>3. 0 \in K
  <2> SUFFICES ASSUME NEW src \in Seq(Records), NEW kept \in SUBSET Records, Len(src) <= 0
               PROVE  LET r == subset[<<src, kept>>]
                      IN /\ r \in Seq(Records) /\ ToSet(r) = ToSet(src) \cap kept
                         /\ \A sort : Sorted(src, sort) => Sorted(r, sort)
    OBVIOUS
  <2>1. src = <<>>
    OBVIOUS
  <2>2. subset[<<src, kept>>] = <<>>
    BY <1>1, <2>1
  <2> QED BY <1>2, <2>1, <2>2
<1>4. ASSUME NEW k \in Nat, k \in K PROVE k + 1 \in K
  <2> SUFFICES ASSUME NEW src \in Seq(Records), NEW kept \in SUBSET Records, Len(src) <= k + 1
               PROVE  LET r == subset[<<src, kept>>]
                      IN /\ r \in Seq(Records) /\ ToSet(r) = ToSet(src) \cap kept
                         /\ \A sort : Sorted(src, sort) => Sorted(r, sort)
    OBVIOUS
  <2>1. CASE src = <<>>
    <3>1. subset[<<src, kept>>] = <<>>
      BY <1>1, <2>1
    <3> QED BY <1>2, <2>1, <3>1
  <2>2. CASE src # <<>>
    <3> DEFINE front == Front(src)
               last == Last(src)
               r0 == subset[<<front, kept>>]
               r == subset[<<src, kept>>]
    <3>1. /\ front \in Seq(Records) /\ last \in Records
          /\ Len(src) \in Nat /\ Len(src) = Len(front) + 1 /\ last = src[Len(src)]
          /\ \A i \in 1 .. Len(front) : front[i] = src[i]
      BY <2>2, FrontAndLast, Zenon
    <3>2. r = IF last \in kept THEN Append(r0, last) ELSE r0
      BY <1>1, <2>2, Zenon
    <3> HIDE DEF front, last, r
    <3>3. Len(front) \in Nat /\ Len(front) <= k
      BY <3>1
    <3>4. /\ r0 \in Seq(Records) /\ ToSet(r0) = ToSet(front) \cap kept
          /\ \A sort : Sorted(front, sort) => Sorted(r0, sort)
      BY <1>4, <3>1, <3>3
    <3> HIDE DEF r0
    <3>5. ToSet(src) = ToSet(front) \union {last}
      <4>1. \A x : x \in ToSet(src) <=> \E i \in 1 .. Len(src) : x = src[i]
        BY Elements
      <4>2. \A x : x \in ToSet(front) <=> \E i \in 1 .. Len(front) : x = front[i]
        BY <3>1, Elements
      <4>3. ASSUME NEW i \in 1 .. Len(src) PROVE src[i] \in ToSet(front) \union {last}
        <5>1. CASE i = Len(src)
          BY <3>1, <5>1
        <5>2. CASE i # Len(src)
          <6>1. i \in 1 .. Len(front)
            BY <3>1, <3>3, <5>2
          <6> QED BY <3>1, <4>2, <6>1
        <5> QED BY <5>1, <5>2
      <4>4. ASSUME NEW i \in 1 .. Len(front) PROVE front[i] \in ToSet(src)
        <5>1. i \in 1 .. Len(src) /\ front[i] = src[i]
          BY <3>1, <3>3
        <5> QED BY <4>1, <5>1
      <4>5. last \in ToSet(src)
        <5>1. Len(src) \in 1 .. Len(src)
          BY <3>1, <3>3
        <5> QED BY <3>1, <4>1, <5>1
      <4> QED BY <4>1, <4>2, <4>3, <4>4, <4>5
    <3>6. ASSUME NEW sort, Sorted(src, sort)
          PROVE  Sorted(front, sort) /\ \A x \in ToSet(front) : Compare(x, last, sort) < 0
      <4>1. \A i \in 1 .. Len(front) : i \in 1 .. Len(src) /\ i < Len(src) /\ front[i] = src[i]
        BY <3>1, <3>3
      <4>2. Len(src) \in 1 .. Len(src)
        BY <3>1, <3>3
      <4>3. Sorted(front, sort)
        BY <3>6, <4>1, Zenon DEF Sorted
      <4>4. \A i \in 1 .. Len(front) : Compare(front[i], last, sort) < 0
        BY <3>1, <3>6, <4>1, <4>2 DEF Sorted
      <4> QED BY <3>1, <4>3, <4>4, Elements
    <3>7. CASE last \notin kept
      BY <3>2, <3>4, <3>5, <3>6, <3>7 DEF r
    <3>8. CASE last \in kept
      <4>1. r = Append(r0, last)
        BY <3>2, <3>8
      <4>2. /\ r \in Seq(Records) /\ Len(r) = Len(r0) + 1 /\ Len(r0) \in Nat
            /\ r[Len(r0) + 1] = last /\ \A i \in 1 .. Len(r0) : r[i] = r0[i]
        BY <3>1, <3>4, <4>1, AppendProperties
      <4>3. ToSet(r) = ToSet(r0) \union {last}
        BY <3>1, <3>4, <4>1, Appended
      <4>4. ASSUME NEW sort, Sorted(src, sort) PROVE Sorted(r, sort)
        <5>1. ASSUME NEW i \in 1 .. Len(r), NEW j \in 1 .. Len(r), i < j
              PROVE  Compare(r[i], r[j], sort) < 0
          <6>1. i \in 1 .. Len(r0) /\ r[i] = r0[i]
            BY <4>2, <5>1
          <6>2. CASE j = Len(r0) + 1
            <7>1. r0[i] \in ToSet(front)
              BY <3>4, <6>1, Elements
            <7> QED BY <3>6, <4>2, <4>4, <6>1, <6>2, <7>1
          <6>3. CASE j # Len(r0) + 1
            <7>1. j \in 1 .. Len(r0) /\ r[j] = r0[j]
              BY <4>2, <6>3
            <7> QED BY <3>4, <3>6, <4>4, <5>1, <6>1, <7>1 DEF Sorted
          <6> QED BY <6>2, <6>3
        <5> QED BY <5>1 DEF Sorted
      <4> QED BY <3>4, <3>5, <3>8, <4>2, <4>3, <4>4 DEF r
    <3> QED BY <3>7, <3>8
  <2> QED BY <2>1, <2>2
<1> HIDE DEF K
<1>5. Nat \subseteq K
  BY <1>3, <1>4, Induction, Zenon
<1>6. ASSUME NEW src \in Seq(Records), NEW kept \in SUBSET Records
      PROVE  LET r == subset[<<src, kept>>]
             IN /\ r \in Seq(Records) /\ ToSet(r) = ToSet(src) \cap kept
                /\ \A sort : Sorted(src, sort) => Sorted(r, sort)
  <2>1. Len(src) \in K
    BY <1>5
  <2> QED BY <2>1 DEF K
<1> QED BY <1>6

-----------------------------------------------------------------------------
(* The crates.                                                             *)

CrateSet == [by_artist : Seq(Records), by_bpm : Seq(Records), by_order : Seq(Records)]

(* In a listing in order, records of the same rank are one. *)
LEMMA RankIsOnce ==
    ASSUME NEW ls \in Seq(Records), Sorted(ls, SORT_ARTIST),
           NEW x \in ToSet(ls), NEW y \in ToSet(ls), x.key = y.key
    PROVE  x = y
<1>1. PICK i \in 1 .. Len(ls) : x = ls[i]
  BY Elements
<1>2. PICK j \in 1 .. Len(ls) : y = ls[j]
  BY Elements
<1>3. x \in Records /\ y \in Records /\ Len(ls) \in Nat
  BY <1>1, <1>2
<1>4. Compare(x, y, SORT_ARTIST) = 0 /\ Compare(y, x, SORT_ARTIST) = 0
  BY <1>3, ListingAssumption DEF Compare, record_cmp_artist, Sign
<1>5. ~(i < j) /\ ~(j < i)
  BY <1>1, <1>2, <1>4 DEF Sorted
<1> QED BY <1>1, <1>2, <1>3, <1>5

(* crate_add (library.c:100): its assertion holds, the crate keeps its three *)
(* listings of the same records in order, and has the entry it returns.    *)
LEMMA CrateAdds ==
    ASSUME NEW c, Crate(c), NEW r \in Records
    PROVE  LET a == crate_add(c, r)
           IN /\ a.ok /\ Crate(a.crate) /\ a.entry \in Records
              /\ ToSet(a.crate.by_artist) = ToSet(c.by_artist) \union {a.entry}
              /\ a.entry # r => a.crate = c
<1> DEFINE artist == listing_insert(c.by_artist, r, SORT_ARTIST)
           bpm == listing_insert(c.by_bpm, r, SORT_BPM)
           a == crate_add(c, r)
<1>1. /\ c.by_artist \in Seq(Records) /\ Sorted(c.by_artist, SORT_ARTIST)
      /\ c.by_bpm \in Seq(Records) /\ Sorted(c.by_bpm, SORT_BPM)
      /\ c.by_order \in Seq(Records)
      /\ ToSet(c.by_artist) = ToSet(c.by_bpm)
      /\ ToSet(c.by_artist) = ToSet(c.by_order)
  BY DEF Crate, CrateSet
<1>2. /\ artist.listing \in Seq(Records) /\ Sorted(artist.listing, SORT_ARTIST)
      /\ artist.entry \in Records /\ Compare(r, artist.entry, SORT_ARTIST) = 0
      /\ \/ artist.entry \in ToSet(c.by_artist) /\ artist.listing = c.by_artist
         \/ /\ artist.entry = r /\ ToSet(artist.listing) = ToSet(c.by_artist) \union {r}
            /\ \A x \in ToSet(c.by_artist) : Compare(r, x, SORT_ARTIST) # 0
  BY <1>1, ListingInserts, Zenon
<1>3. /\ bpm.listing \in Seq(Records) /\ Sorted(bpm.listing, SORT_BPM)
      /\ bpm.entry \in Records /\ Compare(r, bpm.entry, SORT_BPM) = 0
      /\ \/ bpm.entry \in ToSet(c.by_bpm) /\ bpm.listing = c.by_bpm
         \/ /\ bpm.entry = r /\ ToSet(bpm.listing) = ToSet(c.by_bpm) \union {r}
            /\ \A x \in ToSet(c.by_bpm) : Compare(r, x, SORT_BPM) # 0
  BY <1>1, ListingInserts, Zenon
<1>4. CASE artist.entry # r
  <2>1. a.entry = artist.entry /\ a.crate = c /\ a.ok = TRUE
    BY <1>4 DEF crate_add
  <2> HIDE DEF a, artist
  <2>2. artist.entry \in ToSet(c.by_artist)
    BY <1>2, <1>4
  <2> QED BY <1>2, <2>1, <2>2 DEF a
<1>5. CASE artist.entry = r
  <2>1. /\ a.entry = r /\ a.ok = (bpm.entry = r)
        /\ a.crate = [by_artist |-> artist.listing, by_bpm |-> bpm.listing,
                      by_order |-> Append(c.by_order, r)]
    BY <1>5 DEF crate_add
  <2>2. \A x \in Records : Compare(r, x, SORT_BPM) = 0 => Compare(r, x, SORT_ARTIST) = 0
    BY ListingAssumption DEF Compare, record_cmp_artist, record_cmp_bpm, Sign, SORT_ARTIST, SORT_BPM
  <2> HIDE DEF a, artist, bpm
  <2>3. bpm.entry = r /\ ToSet(bpm.listing) = ToSet(c.by_bpm) \union {r}
    <3>1. CASE bpm.entry \in ToSet(c.by_bpm) /\ bpm.listing = c.by_bpm
      <4>1. bpm.entry \in ToSet(c.by_artist) /\ Compare(r, bpm.entry, SORT_ARTIST) = 0
        BY <1>1, <1>3, <2>2, <3>1
      <4>2. r \in ToSet(c.by_artist)
        BY <1>2, <1>5, <4>1
      <4>3. r.key = bpm.entry.key
        BY <1>3, <4>1, CompareEqual
      <4>4. bpm.entry = r
        BY <1>1, <4>1, <4>2, <4>3, RankIsOnce
      <4> QED BY <1>1, <3>1, <4>2, <4>4
    <3> QED BY <1>3, <3>1
  <2>4. ToSet(artist.listing) = ToSet(c.by_artist) \union {r}
    BY <1>2, <1>5
  <2>5. Append(c.by_order, r) \in Seq(Records)
        /\ ToSet(Append(c.by_order, r)) = ToSet(c.by_order) \union {r}
    BY <1>1, Appended
  <2>6. Crate(a.crate)
    <3>1. a.crate \in CrateSet
      BY <1>2, <1>3, <2>1, <2>5 DEF CrateSet
    <3>2. /\ a.crate.by_artist = artist.listing /\ a.crate.by_bpm = bpm.listing
          /\ a.crate.by_order = Append(c.by_order, r)
      BY <2>1
    <3> QED BY <1>1, <1>2, <1>3, <2>3, <2>4, <2>5, <3>1, <3>2 DEF Crate, CrateSet
  <2>7. a.crate.by_artist = artist.listing
    BY <2>1
  <2> QED BY <1>5, <2>1, <2>3, <2>4, <2>6, <2>7 DEF a
<1> QED BY <1>4, <1>5

-----------------------------------------------------------------------------
(* The inductive invariant.                                                *)

(* The crate of all the records is first in the table, and every crate of  *)
(* the table has its listings.                                             *)
TableInv ==
    /\ crate \in Seq(Nat) /\ Len(crate) > 0 /\ crate[1] = ALL
    /\ contents \in [ToSet(crate) -> CrateSet]
    /\ scan \in ToSet(crate) \union {NONE}
    /\ outcome # "aborted"

CratesInv == \A n \in ToSet(crate) : Crate(contents[n])

Owned == ToSet(contents[ALL].by_artist)

(* A record read is owned or freed; the next is neither.                   *)
OwnedInv ==
    /\ read \in Nat /\ IsFiniteSet(Owned) /\ IsFiniteSet(freed)
    /\ \A r \in Owned \union freed : r.id \in Nat /\ r.id < read
    /\ Owned \cap freed = {}
    /\ Cardinality(Owned) + Cardinality(freed) = read
    /\ \A n \in ToSet(crate) : ToSet(contents[n].by_order) \subseteq Owned

LibraryInv == TableInv /\ CratesInv /\ OwnedInv

(* There is a crate of all records. *)
LEMMA AllIsThere == TableInv => ALL \in ToSet(crate) /\ ToSet(crate) \subseteq Nat
<1> SUFFICES ASSUME TableInv PROVE ALL \in ToSet(crate) /\ ToSet(crate) \subseteq Nat
  OBVIOUS
<1>1. crate \in Seq(Nat) /\ Len(crate) > 0 /\ crate[1] = ALL
  BY DEF TableInv
<1>2. 1 \in 1 .. Len(crate)
  BY <1>1
<1> QED BY <1>1, <1>2, Elements

(* A new crate is in order. *)
LEMMA NoContentsGood == Crate(NoContents) /\ ToSet(NoContents.by_order) = {}
<1>1. NoContents \in CrateSet
  BY DEF NoContents, CrateSet
<1>2. NoContents.by_artist = <<>> /\ NoContents.by_bpm = <<>> /\ NoContents.by_order = <<>>
  BY DEF NoContents
<1>3. ToSet(<<>>) = {}
  BY DEF ToSet
<1>4. \A sort : Sorted(<<>>, sort)
  BY DEF Sorted
<1> QED BY <1>1, <1>2, <1>3, <1>4 DEF Crate, CrateSet

(* The library begins in order, with no record. *)
LEMMA LibraryInitially == LibraryInit => LibraryInv
<1> SUFFICES ASSUME LibraryInit PROVE LibraryInv
  OBVIOUS
<1>1. crate = <<ALL>> /\ contents = [n \in {ALL} |-> NoContents] /\ scan = NONE
      /\ read = 0 /\ freed = {} /\ outcome = "running"
  BY DEF LibraryInit
<1>2. crate \in Seq(Nat) /\ Len(crate) = 1 /\ crate[1] = ALL /\ ToSet(crate) = {ALL}
  <2>1. crate \in Seq(Nat) /\ Len(crate) = 1 /\ crate[1] = ALL
    BY <1>1, LibraryAssumption
  <2> QED BY <2>1, Elements
<1>3. TableInv
  BY <1>1, <1>2, NoContentsGood DEF TableInv, Crate, CrateSet
<1>4. CratesInv
  BY <1>1, <1>2, NoContentsGood DEF CratesInv
<1>5. Owned = {}
  <2>1. contents[ALL] = NoContents
    BY <1>1
  <2> QED BY <2>1, NoContentsGood DEF Owned, Crate
<1>6. OwnedInv
  BY <1>1, <1>2, <1>5, NoContentsGood, FS_EmptySet DEF OwnedInv
<1> QED BY <1>3, <1>4, <1>6 DEF LibraryInv

(* use_crate gives a directory a crate, and leaves the others. *)
LEMMA BeginKeeps == LibraryInv /\ Begin => LibraryInv'
<1> SUFFICES ASSUME LibraryInv, Begin PROVE LibraryInv'
  OBVIOUS
<1>1. PICK name \in Name : scan' = name /\ use_crate(name)
  BY DEF Begin
<1>2. UNCHANGED <<read, freed, outcome>>
  BY DEF Begin
<1>3. TableInv /\ CratesInv /\ OwnedInv /\ name \in Nat
  BY <1>1, LibraryAssumption DEF LibraryInv
<1>4. CASE name \in ToSet(crate)
  <2>1. UNCHANGED <<crate, contents>>
    BY <1>1, <1>4 DEF use_crate
  <2>2. TableInv'
    BY <1>1, <1>2, <1>3, <1>4, <2>1 DEF TableInv
  <2>3. CratesInv' /\ OwnedInv'
    BY <1>2, <1>3, <2>1 DEF CratesInv, OwnedInv, Owned
  <2> QED BY <2>2, <2>3 DEF LibraryInv
<1>5. CASE name \notin ToSet(crate)
  <2> DEFINE before == {i \in 1 .. Len(crate) : CrateBefore(crate[i], name)}
             k == Cardinality(before)
  <2>1. crate' = InsertAt(crate, k + 1, name)
        /\ contents' = [n \in ToSet(crate) \union {name} |->
                           IF n = name THEN NoContents ELSE contents[n]]
    BY <1>1, <1>5 DEF use_crate
  <2>2. crate \in Seq(Nat) /\ Len(crate) \in Nat /\ Len(crate) > 0 /\ crate[1] = ALL
    BY <1>3 DEF TableInv
  <2>3. k \in 1 .. Len(crate)
    <3>1. before \subseteq 1 .. Len(crate) /\ 1 \in before
      BY <2>2 DEF CrateBefore
    <3>2. IsFiniteSet(1 .. Len(crate)) /\ Cardinality(1 .. Len(crate)) = Len(crate)
      BY <2>2, FS_Interval
    <3>3. IsFiniteSet(before) /\ k \in Nat /\ k <= Len(crate)
      BY <3>1, <3>2, FS_Subset, FS_CardinalityType
    <3>4. k # 0
      BY <3>1, <3>3, FS_EmptySet
    <3> QED BY <2>2, <3>3, <3>4
  <2> HIDE DEF k
  <2>4. IsInserted(crate', Nat, crate, name, k)
    <3>1. k \in 0 .. Len(crate)
      BY <2>2, <2>3
    <3>2. IsInserted(InsertAt(crate, k + 1, name), Nat, crate, name, k)
      BY <1>3, <2>2, <3>1, Inserted, Zenon
    <3> QED BY <2>1, <3>2
  <2>5. crate' \in Seq(Nat) /\ Len(crate') > 0 /\ crate'[1] = ALL
        /\ ToSet(crate') = ToSet(crate) \union {name}
    BY <2>2, <2>3, <2>4 DEF IsInserted
  <2>6. name # ALL /\ contents'[ALL] = contents[ALL] /\ contents'[name] = NoContents
        /\ \A n \in ToSet(crate) : contents'[n] = contents[n]
    BY <1>3, <1>5, <2>1, AllIsThere
  <2>7. contents' \in [ToSet(crate') -> CrateSet]
    BY <1>3, <2>1, <2>5, NoContentsGood DEF TableInv, Crate, CrateSet
  <2>8. TableInv'
    BY <1>1, <1>2, <1>3, <2>5, <2>7 DEF TableInv
  <2>9. CratesInv'
    BY <1>3, <2>5, <2>6, NoContentsGood DEF CratesInv
  <2>10. OwnedInv'
    <3>1. Owned' = Owned
      BY <2>6 DEF Owned
    <3>2. \A n \in ToSet(crate') : ToSet(contents'[n].by_order) \subseteq Owned'
      BY <1>3, <2>5, <2>6, <3>1, NoContentsGood DEF OwnedInv
    <3> QED BY <1>2, <1>3, <3>1, <3>2 DEF OwnedInv
  <2> QED BY <2>8, <2>9, <2>10 DEF LibraryInv
<1> QED BY <1>4, <1>5

(* A record read is owned by the crate of all, or it is freed. *)
LEMMA RecordKeeps == LibraryInv /\ Record => LibraryInv'
<1> SUFFICES ASSUME LibraryInv, Record PROVE LibraryInv'
  OBVIOUS
<1> USE DEF LibraryInv
<1>1. PICK t \in Track :
         LET d == record(read, t)
             all == crate_add(contents[ALL], d)
             added == [contents EXCEPT ![ALL] = all.crate]
             own == crate_add(added[scan], all.entry)
         IN /\ freed' = IF all.entry = d THEN freed ELSE freed \cup {d}
            /\ contents' = [added EXCEPT ![scan] = own.crate]
            /\ outcome' = IF all.ok /\ own.ok THEN outcome ELSE "aborted"
  BY DEF Record
<1> DEFINE d == record(read, t)
           all == crate_add(contents[ALL], d)
           added == [contents EXCEPT ![ALL] = all.crate]
           own == crate_add(added[scan], all.entry)
<1>2. /\ freed' = IF all.entry = d THEN freed ELSE freed \cup {d}
      /\ contents' = [added EXCEPT ![scan] = own.crate]
      /\ outcome' = IF all.ok /\ own.ok THEN outcome ELSE "aborted"
  BY <1>1
<1>3. read' = read + 1 /\ UNCHANGED <<crate, scan>> /\ read < MaxRecords
      /\ scan \in ToSet(crate) /\ ALL \in ToSet(crate)
  BY AllIsThere DEF Record, TableInv
<1>4. d \in Records /\ d.id = read
  <2>1. read \in 0 .. MaxRecords - 1
    BY <1>3, LibraryAssumption DEF OwnedInv
  <2> QED BY <2>1, LibraryAssumption DEF record
<1> HIDE DEF d
<1>5. /\ all.ok /\ Crate(all.crate) /\ all.entry \in Records
      /\ ToSet(all.crate.by_artist) = Owned \union {all.entry}
      /\ all.entry # d => all.crate = contents[ALL]
  <2>1. Crate(contents[ALL])
    BY <1>3 DEF CratesInv
  <2> QED BY <1>4, <2>1, CrateAdds, Zenon DEF Owned
<1> HIDE DEF all
<1>6. /\ contents \in [ToSet(crate) -> CrateSet] /\ added \in [ToSet(crate) -> CrateSet]
      /\ added[ALL] = all.crate /\ \A n \in ToSet(crate) \ {ALL} : added[n] = contents[n]
  BY <1>3, <1>5 DEF TableInv, Crate, CrateSet
<1> HIDE DEF added
<1>7. \A n \in ToSet(crate) : Crate(added[n])
  BY <1>5, <1>6 DEF CratesInv
<1>8. /\ own.ok /\ Crate(own.crate)
      /\ ToSet(own.crate.by_artist) = ToSet(added[scan].by_artist) \union {own.entry}
      /\ own.entry # all.entry => own.crate = added[scan]
  <2>1. Crate(added[scan])
    BY <1>3, <1>7
  <2> QED BY <1>5, <2>1, CrateAdds, Zenon
<1> HIDE DEF own
<1>9. /\ contents' \in [ToSet(crate) -> CrateSet]
      /\ contents'[scan] = own.crate
      /\ \A n \in ToSet(crate) \ {scan} : contents'[n] = added[n]
  BY <1>2, <1>3, <1>6, <1>8 DEF Crate, CrateSet
<1>10. TableInv'
  <2>1. outcome' # "aborted"
    BY <1>2, <1>5, <1>8 DEF TableInv
  <2> QED BY <1>3, <1>9, <2>1 DEF TableInv
<1>11. CratesInv'
  BY <1>3, <1>7, <1>8, <1>9 DEF CratesInv
<1>12. OwnedInv'
  <2> DEFINE owned == Owned \union {all.entry}
  <2>1. ToSet(added[ALL].by_artist) = owned
    BY <1>5, <1>6
  <2>2. \A n \in ToSet(crate) : ToSet(added[n].by_order) \subseteq owned
    BY <1>5, <1>6 DEF OwnedInv, Crate
  <2>3. ToSet(own.crate.by_artist) \subseteq owned
    <3>1. CASE own.entry = all.entry
      <4>1. ToSet(added[scan].by_artist) \subseteq owned
        BY <1>3, <1>7, <2>2 DEF Crate
      <4> QED BY <1>8, <3>1, <4>1
    <3>2. CASE own.entry # all.entry
      <4>1. own.crate = added[scan] /\ Crate(added[scan])
        BY <1>3, <1>7, <1>8, <3>2, Zenon
      <4> QED BY <1>3, <2>2, <4>1, Zenon DEF Crate
    <3> QED BY <3>1, <3>2
  <2>4. ToSet(contents'[ALL].by_artist) = owned
    <3>1. CASE scan = ALL
      BY <1>8, <1>9, <2>1, <2>3, <3>1
    <3>2. CASE scan # ALL
      BY <1>3, <1>9, <2>1, <3>2
    <3> QED BY <3>1, <3>2
  <2>5. Owned' = owned
    BY <2>4 DEF Owned
  <2>6. \A n \in ToSet(crate') : ToSet(contents'[n].by_order) \subseteq owned
    BY <1>3, <1>8, <1>9, <2>2, <2>3 DEF Crate
  <2>7. d \notin Owned /\ d \notin freed
    BY <1>4 DEF OwnedInv
  <2>8. CASE all.entry = d
    <3>1. freed' = freed /\ owned = Owned \union {d}
      BY <1>2, <2>8
    <3>2. IsFiniteSet(owned) /\ Cardinality(owned) = Cardinality(Owned) + 1
      BY <2>7, <3>1, FS_AddElement DEF OwnedInv
    <3>3. Cardinality(Owned) \in Nat /\ Cardinality(freed) \in Nat
      BY FS_CardinalityType DEF OwnedInv
    <3> HIDE DEF owned
    <3>4. \A r \in owned \union freed' : r.id \in Nat /\ r.id < read'
      BY <1>3, <1>4, <3>1 DEF OwnedInv
    <3> QED BY <1>3, <2>5, <2>6, <2>7, <3>1, <3>2, <3>3, <3>4 DEF OwnedInv
  <2>9. CASE all.entry # d
    <3>1. freed' = freed \union {d}
      BY <1>2, <2>9
    <3>2. owned = Owned
      BY <1>5, <1>6, <2>1, <2>9 DEF Owned
    <3>3. IsFiniteSet(freed') /\ Cardinality(freed') = Cardinality(freed) + 1
      BY <2>7, <3>1, FS_AddElement DEF OwnedInv
    <3>4. Cardinality(Owned) \in Nat /\ Cardinality(freed) \in Nat
      BY FS_CardinalityType DEF OwnedInv
    <3> HIDE DEF owned
    <3>5. \A r \in owned \union freed' : r.id \in Nat /\ r.id < read'
      BY <1>3, <1>4, <3>1, <3>2 DEF OwnedInv
    <3> QED BY <1>3, <2>5, <2>6, <2>7, <3>1, <3>2, <3>3, <3>4, <3>5 DEF OwnedInv
  <2> QED BY <2>8, <2>9
<1> QED BY <1>10, <1>11, <1>12

(* Every step keeps the invariant. *)
LEMMA LibraryInductive == LibraryInv /\ [LibraryNext]_libraryVars => LibraryInv'
<1> SUFFICES ASSUME LibraryInv, [LibraryNext]_libraryVars PROVE LibraryInv'
  OBVIOUS
<1>1. CASE Begin
  BY <1>1, BeginKeeps
<1>2. CASE Record
  BY <1>2, RecordKeeps
<1>3. CASE Done
  BY <1>3 DEF Done, LibraryInv, TableInv, CratesInv, OwnedInv, Owned
<1>4. CASE Fail
  BY <1>4 DEF Fail, LibraryInv, TableInv, CratesInv, OwnedInv, Owned
<1>5. CASE UNCHANGED libraryVars
  BY <1>5 DEF libraryVars, LibraryInv, TableInv, CratesInv, OwnedInv, Owned
<1> QED BY <1>1, <1>2, <1>3, <1>4, <1>5 DEF LibraryNext

(* The invariant holds of every library that can be reached. *)
THEOREM LibraryInvariant == LibrarySpec => []LibraryInv
<1> QED BY LibraryInitially, LibraryInductive, PTL DEF LibrarySpec

(* The invariant says that the listings agree. *)
LEMMA AgreeFromInvariant == LibraryInv => IndexesAgree
BY DEF LibraryInv, TableInv, CratesInv, IndexesAgree

(* The three listings of each crate have the same records, and two of them *)
(* are in order without repetition, after every line of every scan         *)
(* (library.c:100-119).                                                     *)
THEOREM ListingsAgree == LibrarySpec => []IndexesAgree
<1> QED BY LibraryInvariant, AgreeFromInvariant, PTL

(* The invariant says that records are owned. *)
LEMMA OwnedFromInvariant == LibraryInv => RecordsAreOwned
BY DEF LibraryInv, TableInv, OwnedInv, Owned, RecordsAreOwned

(* Every record read is in the crate of all, which library_clear frees, or *)
(* was freed when it was found to be a duplicate, and never both; and a    *)
(* crate has no other records (library.c:258-284).                         *)
THEOREM EveryRecordIsOwned == LibrarySpec => []RecordsAreOwned
<1> QED BY LibraryInvariant, OwnedFromInvariant, PTL

-----------------------------------------------------------------------------
(* The selector: its windows.                                              *)

ScrollSet == [lines : Nat, offset : Nat, entries : Nat, selected : Int]

(* The selection is an entry, or there is none.                            *)
Shape(s) ==
    /\ s \in ScrollSet
    /\ s.selected >= -1
    /\ s.selected <= 0 \/ s.selected < s.entries

(* The selection is on the screen, if that has at least two lines.         *)
Window(s) ==
    /\ s.entries = 0 => s.offset = 0
    /\ s.entries > 0 => s.selected >= 0 /\ s.offset <= s.selected
    /\ s.lines # 0 => s.lines >= 2 /\ s.selected < s.offset + s.lines

(* Before lists are drawn nothing has moved.                               *)
Fresh(s) == s.lines = 0 => s.offset = 0 /\ s.selected <= 0

(* Without lines the last entry has the window behind it.                  *)
Past(s) == s.lines = 0 /\ s.offset = s.entries /\ s.selected = s.entries - 1

(* Without lines the window begins at the selection or after it.           *)
Steady(s) == s.lines = 0 => s.selected <= s.offset

(* scroll_set_lines (selector.c:39): the selection is moved to within range. *)
LEMMA SetLines ==
    ASSUME NEW s, Shape(s), NEW n \in Nat \ {0}
    PROVE  LET t == scroll_set_lines(s, n)
           IN /\ Shape(t) /\ t.lines = n /\ t.entries = s.entries
              /\ s.selected >= 0 => t.selected >= 0
              /\ s.selected < s.offset + n => t.selected = s.selected
              /\ n >= 2 /\ (Window(s) \/ Past(s)) => Window(t)
<1> DEFINE t == scroll_set_lines(s, n)
<1>1. /\ s \in ScrollSet /\ s.lines \in Nat /\ s.offset \in Nat /\ s.entries \in Nat /\ s.selected \in Int
      /\ s.selected >= -1 /\ (s.selected <= 0 \/ s.selected < s.entries)
  BY DEF Shape, ScrollSet
<1>2. /\ t.lines = n /\ t.entries = s.entries
      /\ t.selected = IF s.selected >= s.offset + n THEN s.offset + n - 1 ELSE s.selected
      /\ t.offset = IF s.offset + n > s.entries THEN (IF s.entries - n < 0 THEN 0 ELSE s.entries - n) ELSE s.offset
  BY <1>1 DEF ScrollSet, scroll_set_lines, FillWindow, AtLeastZero
<1>3. t.lines \in Nat /\ t.offset \in Nat /\ t.entries \in Nat /\ t.selected \in Int
  <2> HIDE DEF t
  <2> QED BY <1>1, <1>2
<1>4. t \in ScrollSet
  BY <1>1, <1>3 DEF ScrollSet, scroll_set_lines, FillWindow, AtLeastZero
<1> HIDE DEF t
<1>5. Shape(t)
  BY <1>1, <1>2, <1>4 DEF Shape
<1>6. s.selected >= 0 => t.selected >= 0
  BY <1>1, <1>2 DEF Window, Fresh, Past
<1>7. s.selected < s.offset + n => t.selected = s.selected
  BY <1>1, <1>2 DEF Window, Fresh, Past
<1>8. n >= 2 /\ (Window(s) \/ Past(s)) => Window(t)
  BY <1>1, <1>2 DEF Window, Fresh, Past
<1> QED BY <1>2, <1>5, <1>6, <1>7, <1>8 DEF t

(* scroll_set_entries (selector.c:55): the selection is an entry, or 0. *)
LEMMA SetEntries ==
    ASSUME NEW s, Shape(s), NEW n \in Nat
    PROVE  LET t == scroll_set_entries(s, n)
           IN /\ Shape(t) /\ t.lines = s.lines /\ t.entries = n
              /\ t.selected >= 0
              /\ n = s.entries /\ s.selected >= 0 => t.selected = s.selected
              /\ Window(s) /\ Fresh(s) => Window(t) /\ Fresh(t)
<1> DEFINE t == scroll_set_entries(s, n)
<1>1. /\ s \in ScrollSet /\ s.lines \in Nat /\ s.offset \in Nat /\ s.entries \in Nat /\ s.selected \in Int
      /\ s.selected >= -1 /\ (s.selected <= 0 \/ s.selected < s.entries)
  BY DEF Shape, ScrollSet
<1>2. /\ t.lines = s.lines /\ t.entries = n
      /\ t.selected = IF (IF s.selected >= n THEN n - 1 ELSE s.selected) < 0 THEN 0 ELSE (IF s.selected >= n THEN n - 1 ELSE s.selected)
      /\ t.offset = IF s.offset + s.lines > n THEN (IF n - s.lines < 0 THEN 0 ELSE n - s.lines) ELSE s.offset
  BY <1>1 DEF ScrollSet, scroll_set_entries, FillWindow, AtLeastZero
<1>3. t.lines \in Nat /\ t.offset \in Nat /\ t.entries \in Nat /\ t.selected \in Int
  <2> HIDE DEF t
  <2> QED BY <1>1, <1>2
<1>4. t \in ScrollSet
  BY <1>1, <1>3 DEF ScrollSet, scroll_set_entries, FillWindow, AtLeastZero
<1> HIDE DEF t
<1>5. Shape(t)
  BY <1>1, <1>2, <1>4 DEF Shape
<1>6. t.selected >= 0
  BY <1>1, <1>2 DEF Window, Fresh, Past
<1>7. n = s.entries /\ s.selected >= 0 => t.selected = s.selected
  BY <1>1, <1>2 DEF Window, Fresh, Past
<1>8. Window(s) /\ Fresh(s) => Window(t) /\ Fresh(t)
  BY <1>1, <1>2 DEF Window, Fresh, Past
<1> QED BY <1>2, <1>5, <1>6, <1>7, <1>8 DEF t

(* scroll_up (selector.c:76) keeps the selection on the screen. *)
LEMMA ScrollUp ==
    ASSUME NEW s, Shape(s), NEW n \in Nat
    PROVE  LET t == scroll_up(s, n)
           IN /\ Shape(t) /\ t.lines = s.lines /\ t.entries = s.entries
              /\ t.selected >= 0
              /\ Window(s) /\ Fresh(s) => Window(t)
              /\ Window(s) /\ Fresh(s) => Steady(t)
<1> DEFINE t == scroll_up(s, n)
<1>1. /\ s \in ScrollSet /\ s.lines \in Nat /\ s.offset \in Nat /\ s.entries \in Nat /\ s.selected \in Int
      /\ s.selected >= -1 /\ (s.selected <= 0 \/ s.selected < s.entries)
  BY DEF Shape, ScrollSet
<1>2. s.lines \div 2 \in Nat /\ (s.lines >= 2 => s.lines \div 2 >= 1 /\ s.lines \div 2 < s.lines)
  BY <1>1
<1>3. /\ t.lines = s.lines /\ t.entries = s.entries
      /\ t.selected = IF s.selected - n < 0 THEN 0 ELSE s.selected - n
      /\ t.offset = IF t.selected < s.offset THEN (IF t.selected - s.lines \div 2 + 1 < 0 THEN 0 ELSE t.selected - s.lines \div 2 + 1) ELSE s.offset
  BY <1>1 DEF ScrollSet, scroll_up, AtLeastZero
<1>4. t.lines \in Nat /\ t.offset \in Nat /\ t.entries \in Nat /\ t.selected \in Int
  <2> HIDE DEF t
  <2> QED BY <1>1, <1>3, <1>2
<1>5. t \in ScrollSet
  BY <1>1, <1>4 DEF ScrollSet, scroll_up, AtLeastZero
<1> HIDE DEF t
<1>6. Shape(t)
  BY <1>1, <1>3, <1>5, <1>2 DEF Shape
<1>7. t.selected >= 0
  BY <1>1, <1>3, <1>2 DEF Window, Fresh, Past
<1>8. Window(s) /\ Fresh(s) => Window(t)
  BY <1>1, <1>3, <1>2 DEF Window, Fresh, Past
<1>9. Window(s) /\ Fresh(s) => Steady(t)
  BY <1>1, <1>3, <1>2 DEF Window, Fresh, Steady
<1> QED BY <1>3, <1>6, <1>7, <1>8, <1>9 DEF t

(* scroll_down (selector.c:92) keeps the selection on the screen. *)
LEMMA ScrollDown ==
    ASSUME NEW s, Shape(s), NEW n \in Nat
    PROVE  LET t == scroll_down(s, n)
           IN /\ Shape(t) /\ t.lines = s.lines /\ t.entries = s.entries
              /\ s.selected >= 0 /\ s.entries > 0 => t.selected >= 0
              /\ Window(s) /\ Fresh(s) => Window(t)
              /\ Window(s) /\ Fresh(s) => Steady(t)
<1> DEFINE t == scroll_down(s, n)
<1>1. /\ s \in ScrollSet /\ s.lines \in Nat /\ s.offset \in Nat /\ s.entries \in Nat /\ s.selected \in Int
      /\ s.selected >= -1 /\ (s.selected <= 0 \/ s.selected < s.entries)
  BY DEF Shape, ScrollSet
<1>2. s.lines \div 2 \in Nat /\ (s.lines >= 2 => s.lines \div 2 >= 1 /\ s.lines \div 2 < s.lines)
  BY <1>1
<1>3. /\ t.lines = s.lines /\ t.entries = s.entries
      /\ t.selected = IF s.selected + n >= s.entries THEN s.entries - 1 ELSE s.selected + n
      /\ t.offset = IF t.selected < s.offset + s.lines THEN s.offset ELSE IF t.selected - s.lines \div 2 + s.lines > s.entries THEN s.entries - s.lines ELSE t.selected - s.lines \div 2
  BY <1>1 DEF ScrollSet, scroll_down
<1>4. t.lines \in Nat /\ t.offset \in Nat /\ t.entries \in Nat /\ t.selected \in Int
  <2> HIDE DEF t
  <2> QED BY <1>1, <1>3, <1>2
<1>5. t \in ScrollSet
  BY <1>1, <1>4 DEF ScrollSet, scroll_down
<1> HIDE DEF t
<1>6. Shape(t)
  BY <1>1, <1>3, <1>5, <1>2 DEF Shape
<1>7. s.selected >= 0 /\ s.entries > 0 => t.selected >= 0
  BY <1>1, <1>3, <1>2 DEF Window, Fresh, Past
<1>8. Window(s) /\ Fresh(s) => Window(t)
  BY <1>1, <1>3, <1>2 DEF Window, Fresh, Past
<1>9. Window(s) /\ Fresh(s) => Steady(t)
  BY <1>1, <1>3, <1>2 DEF Window, Fresh, Steady
<1> QED BY <1>3, <1>6, <1>7, <1>8, <1>9 DEF t

(* scroll_first (selector.c:110) selects the first entry, at the top. *)
LEMMA ScrollFirst ==
    ASSUME NEW s, Shape(s)
    PROVE  LET t == scroll_first(s)
           IN /\ Shape(t) /\ t.lines = s.lines /\ t.entries = s.entries /\ t.selected = 0
              /\ Window(s) => Window(t)
              /\ Window(s) /\ Fresh(s) => Steady(t)
<1> DEFINE t == scroll_first(s)
<1>1. /\ s \in ScrollSet /\ s.lines \in Nat /\ s.offset \in Nat /\ s.entries \in Nat /\ s.selected \in Int
      /\ s.selected >= -1 /\ (s.selected <= 0 \/ s.selected < s.entries)
  BY DEF Shape, ScrollSet
<1>2. /\ t.lines = s.lines /\ t.entries = s.entries
      /\ t.selected = 0 /\ t.offset = 0
  BY <1>1 DEF ScrollSet, scroll_first
<1>3. t.lines \in Nat /\ t.offset \in Nat /\ t.entries \in Nat /\ t.selected \in Int
  <2> HIDE DEF t
  <2> QED BY <1>1, <1>2
<1>4. t \in ScrollSet
  BY <1>1, <1>3 DEF ScrollSet, scroll_first
<1> HIDE DEF t
<1>5. Shape(t)
  BY <1>1, <1>2, <1>4 DEF Shape
<1>6. Window(s) => Window(t)
  BY <1>1, <1>2 DEF Window, Fresh, Past
<1>7. Window(s) /\ Fresh(s) => Steady(t)
  BY <1>1, <1>2 DEF Window, Fresh, Steady
<1> QED BY <1>2, <1>5, <1>6, <1>7 DEF t

(* scroll_last (selector.c:119): without lines the window is past the end. *)
LEMMA ScrollLast ==
    ASSUME NEW s, Shape(s)
    PROVE  LET t == scroll_last(s)
           IN /\ Shape(t) /\ t.lines = s.lines /\ t.entries = s.entries
              /\ Window(s) => Window(t) \/ Past(t)
<1> DEFINE t == scroll_last(s)
<1>1. /\ s \in ScrollSet /\ s.lines \in Nat /\ s.offset \in Nat /\ s.entries \in Nat /\ s.selected \in Int
      /\ s.selected >= -1 /\ (s.selected <= 0 \/ s.selected < s.entries)
  BY DEF Shape, ScrollSet
<1>2. /\ t.lines = s.lines /\ t.entries = s.entries
      /\ t.selected = s.entries - 1
      /\ t.offset = IF s.entries - s.lines < 0 THEN 0 ELSE s.entries - s.lines
  BY <1>1 DEF ScrollSet, scroll_last, AtLeastZero
<1>3. t.lines \in Nat /\ t.offset \in Nat /\ t.entries \in Nat /\ t.selected \in Int
  <2> HIDE DEF t
  <2> QED BY <1>1, <1>2
<1>4. t \in ScrollSet
  BY <1>1, <1>3 DEF ScrollSet, scroll_last, AtLeastZero
<1> HIDE DEF t
<1>5. Shape(t)
  BY <1>1, <1>2, <1>4 DEF Shape
<1>6. Window(s) => Window(t) \/ Past(t)
  BY <1>1, <1>2 DEF Window, Fresh, Past
<1> QED BY <1>2, <1>5, <1>6 DEF t

(* scroll_to (selector.c:130) keeps the line of the screen it selects on. *)
LEMMA ScrollTo ==
    ASSUME NEW s, Shape(s), NEW n \in 0 .. s.entries - 1
    PROVE  LET t == scroll_to(s, n)
           IN /\ Shape(t) /\ t.lines = s.lines /\ t.entries = s.entries /\ t.selected = n
              /\ Window(s) => Window(t)
              /\ Window(s) /\ Fresh(s) => Steady(t)
<1> DEFINE t == scroll_to(s, n)
<1>1. /\ s \in ScrollSet /\ s.lines \in Nat /\ s.offset \in Nat /\ s.entries \in Nat /\ s.selected \in Int
      /\ s.selected >= -1 /\ (s.selected <= 0 \/ s.selected < s.entries)
  BY DEF Shape, ScrollSet
<1>2. /\ t.lines = s.lines /\ t.entries = s.entries
      /\ t.selected = n
      /\ t.offset = IF n - (s.selected - s.offset) < 0 THEN 0 ELSE n - (s.selected - s.offset)
  BY <1>1 DEF ScrollSet, scroll_to, AtLeastZero
<1>3. t.lines \in Nat /\ t.offset \in Nat /\ t.entries \in Nat /\ t.selected \in Int
  <2> HIDE DEF t
  <2> QED BY <1>1, <1>2
<1>4. t \in ScrollSet
  BY <1>1, <1>3 DEF ScrollSet, scroll_to, AtLeastZero
<1> HIDE DEF t
<1>5. Shape(t)
  BY <1>1, <1>2, <1>4 DEF Shape
<1>6. Window(s) => Window(t)
  BY <1>1, <1>2 DEF Window, Fresh, Past
<1>7. Window(s) /\ Fresh(s) => Steady(t)
  BY <1>1, <1>2 DEF Window, Fresh, Steady
<1> QED BY <1>2, <1>5, <1>6, <1>7 DEF t

-----------------------------------------------------------------------------
(* More of the copy of part of a listing.                                  *)

(* Induction on listings: a set that has the empty one, and each one if it *)
(* has the one without its last record, has all of them.                   *)
LEMMA ListingInduction ==
    ASSUME NEW T, <<>> \in T,
           \A src \in Seq(Records) : src # <<>> /\ Front(src) \in T => src \in T
    PROVE  Seq(Records) \subseteq T
<1> DEFINE Correct(k) == \A src \in Seq(Records) : Len(src) <= k => src \in T
           K == {k \in Nat : Correct(k)}
<1>1. 0 \in K
  <2> SUFFICES ASSUME NEW src \in Seq(Records), Len(src) <= 0 PROVE src \in T
    OBVIOUS
  <2>1. src = <<>>
    OBVIOUS
  <2> QED BY <2>1
<1>2. ASSUME NEW k \in Nat, k \in K PROVE k + 1 \in K
  <2> SUFFICES ASSUME NEW src \in Seq(Records), Len(src) <= k + 1, src # <<>> PROVE src \in T
    OBVIOUS
  <2>1. Front(src) \in Seq(Records) /\ Len(src) = Len(Front(src)) + 1
    BY FrontAndLast, Zenon
  <2>2. Len(Front(src)) <= k
    BY <2>1
  <2> QED BY <1>2, <2>1, <2>2
<1> HIDE DEF K
<1>3. Nat \subseteq K
  BY <1>1, <1>2, Induction, Zenon
<1>4. ASSUME NEW src \in Seq(Records) PROVE src \in T
  <2>1. Len(src) \in K
    BY <1>3
  <2> QED BY <2>1 DEF K
<1> QED BY <1>4

(* The listing before its last record, and that record, are what was added to. *)
LEMMA FrontOfAppend ==
    ASSUME NEW ls \in Seq(Records), NEW r \in Records
    PROVE  /\ Append(ls, r) \in Seq(Records) /\ Append(ls, r) # <<>>
           /\ Front(Append(ls, r)) = ls /\ Last(Append(ls, r)) = r
<1> DEFINE n == Append(ls, r)
<1>1. /\ n \in Seq(Records) /\ Len(n) = Len(ls) + 1 /\ Len(ls) \in Nat
      /\ n[Len(ls) + 1] = r /\ \A i \in 1 .. Len(ls) : n[i] = ls[i]
  BY AppendProperties
<1> HIDE DEF n
<1>2. n # <<>>
  BY <1>1
<1>3. /\ Front(n) \in Seq(Records)
      /\ Len(n) = Len(Front(n)) + 1 /\ Last(n) = n[Len(n)]
      /\ \A i \in 1 .. Len(Front(n)) : Front(n)[i] = n[i]
  BY <1>1, <1>2, FrontAndLast, Zenon
<1>4. Len(Front(n)) = Len(ls) /\ Last(n) = r
  BY <1>1, <1>3
<1>5. Front(n) = ls
  <2>1. \A i \in 1 .. Len(ls) : Front(n)[i] = ls[i]
    BY <1>1, <1>3, <1>4
  <2> QED BY <1>3, <1>4, <2>1, SeqEqual
<1> QED BY <1>1, <1>2, <1>4, <1>5 DEF n

(* A copy of part of a copy of part is a copy of what is in both parts.    *)
LEMMA SubsetNested ==
    \A src \in Seq(Records), A, B \in SUBSET Records :
        subset[<<subset[<<src, A>>], B>>] = subset[<<src, A \cap B>>]
<1> SUFFICES ASSUME NEW A \in SUBSET Records, NEW B \in SUBSET Records
             PROVE  \A src \in Seq(Records) :
                       subset[<<subset[<<src, A>>], B>>] = subset[<<src, A \cap B>>]
  OBVIOUS
<1> DEFINE C == A \cap B
           T == {src \in Seq(Records) :
                    subset[<<subset[<<src, A>>], B>>] = subset[<<src, C>>]}
<1>1. <<>> \in Seq(Records) /\ C \in SUBSET Records
  OBVIOUS
<1>2. <<>> \in T
  <2>1. subset[<<(<<>>), A>>] = <<>> /\ subset[<<(<<>>), B>>] = <<>> /\ subset[<<(<<>>), C>>] = <<>>
    BY <1>1, SubsetStep, Zenon
  <2> QED BY <1>1, <2>1
<1>3. ASSUME NEW src \in Seq(Records), src # <<>>, Front(src) \in T PROVE src \in T
  <2> DEFINE front == Front(src)
             last == Last(src)
             r0 == subset[<<front, A>>]
             r == subset[<<src, A>>]
  <2>1. front \in Seq(Records) /\ last \in Records
    BY <1>3, FrontAndLast, Zenon
  <2>2. r = IF last \in A THEN Append(r0, last) ELSE r0
    BY <1>3, SubsetStep, Zenon
  <2>3. subset[<<src, C>>] = IF last \in C THEN Append(subset[<<front, C>>], last)
                             ELSE subset[<<front, C>>]
    BY <1>1, <1>3, SubsetStep, Zenon
  <2>4. r0 \in Seq(Records)
    BY <2>1, SubsetIs, Zenon
  <2>5. subset[<<r0, B>>] = subset[<<front, C>>]
    BY <1>3
  <2> HIDE DEF front, last, r0, r
  <2>6. subset[<<r, B>>] = subset[<<src, C>>]
    <3>1. CASE last \notin A
      BY <2>2, <2>3, <2>5, <3>1
    <3>2. CASE last \in A
      <4>1. /\ r = Append(r0, last) /\ r \in Seq(Records) /\ r # <<>>
            /\ Front(r) = r0 /\ Last(r) = last
        BY <2>1, <2>2, <2>4, <3>2, FrontOfAppend
      <4>2. subset[<<r, B>>] = IF last \in B THEN Append(subset[<<r0, B>>], last)
                               ELSE subset[<<r0, B>>]
        <5>1. r \in Seq(Records) /\ r # <<>> /\ B \in SUBSET Records
          BY <4>1
        <5>2. subset[<<r, B>>] = IF r = <<>> THEN <<>>
                                 ELSE IF Last(r) \in B THEN Append(subset[<<Front(r), B>>], Last(r))
                                 ELSE subset[<<Front(r), B>>]
          BY <5>1, SubsetStep, Zenon
        <5> QED BY <4>1, <5>1, <5>2
      <4> QED BY <2>3, <2>5, <3>2, <4>2
    <3> QED BY <3>1, <3>2
  <2> QED BY <2>6 DEF r
<1> HIDE DEF T
<1>4. Seq(Records) \subseteq T
  BY <1>2, <1>3, ListingInduction, Zenon
<1> QED BY <1>4 DEF T

(* What is copied depends on nothing but which of the records are kept.    *)
LEMMA SubsetSame ==
    \A src \in Seq(Records), A, B \in SUBSET Records :
        ToSet(src) \cap A = ToSet(src) \cap B =>
            subset[<<src, A>>] = subset[<<src, B>>]
<1> SUFFICES ASSUME NEW A \in SUBSET Records, NEW B \in SUBSET Records
             PROVE  \A src \in Seq(Records) : ToSet(src) \cap A = ToSet(src) \cap B =>
                       subset[<<src, A>>] = subset[<<src, B>>]
  OBVIOUS
<1> DEFINE T == {src \in Seq(Records) : ToSet(src) \cap A = ToSet(src) \cap B =>
                    subset[<<src, A>>] = subset[<<src, B>>]}
<1>1. <<>> \in T
  <2>1. <<>> \in Seq(Records)
    OBVIOUS
  <2>2. subset[<<(<<>>), A>>] = <<>> /\ subset[<<(<<>>), B>>] = <<>>
    BY <2>1, SubsetStep, Zenon
  <2> QED BY <2>1, <2>2
<1>2. ASSUME NEW src \in Seq(Records), src # <<>>, Front(src) \in T PROVE src \in T
  <2> SUFFICES ASSUME ToSet(src) \cap A = ToSet(src) \cap B
               PROVE  subset[<<src, A>>] = subset[<<src, B>>]
    OBVIOUS
  <2> DEFINE front == Front(src)
             last == Last(src)
  <2>1. /\ front \in Seq(Records) /\ last \in Records
        /\ Len(src) \in Nat /\ Len(src) = Len(front) + 1 /\ last = src[Len(src)]
        /\ \A i \in 1 .. Len(front) : front[i] = src[i]
    BY <1>2, FrontAndLast, Zenon
  <2>2. subset[<<src, A>>] = (IF last \in A THEN Append(subset[<<front, A>>], last) ELSE subset[<<front, A>>])
    BY <1>2, SubsetStep, Zenon
  <2>3. subset[<<src, B>>] = (IF last \in B THEN Append(subset[<<front, B>>], last) ELSE subset[<<front, B>>])
    BY <1>2, SubsetStep, Zenon
  <2>4. ToSet(front) \cap A = ToSet(front) \cap B => subset[<<front, A>>] = subset[<<front, B>>]
    BY <1>2
  <2> HIDE DEF front, last
  <2>5. last \in ToSet(src)
    <3>1. Len(src) \in 1 .. Len(src)
      BY <2>1
    <3> QED BY <2>1, <3>1, Elements
  <2>6. ToSet(front) \subseteq ToSet(src)
    <3>1. \A i \in 1 .. Len(front) : i \in 1 .. Len(src) /\ front[i] = src[i]
      BY <2>1
    <3> QED BY <2>1, <3>1, Elements
  <2>7. last \in A <=> last \in B
    BY <2>5
  <2>8. ToSet(front) \cap A = ToSet(front) \cap B
    BY <2>6
  <2> QED BY <2>2, <2>3, <2>4, <2>7, <2>8, Zenon
<1> HIDE DEF T
<1>3. Seq(Records) \subseteq T
  BY <1>1, <1>2, ListingInduction, Zenon
<1> QED BY <1>3 DEF T

(* v is the beginning of ls.                                               *)
Begins(v, ls) ==
    /\ v \in Seq(Records) /\ Len(v) <= Len(ls)
    /\ \A i \in 1 .. Len(v) : v[i] = ls[i]

(* A beginning is a prefix. *)
LEMMA BeginsIsPrefix ==
    ASSUME NEW ls \in Seq(Records), NEW v, Begins(v, ls)
    PROVE  IsPrefix(v, ls)
<1>1. SubSeq(v, 1, Len(v)) = SubSeq(ls, 1, Len(v))
  BY DEF Begins
<1> QED BY <1>1 DEF Begins, IsPrefix

(* A beginning that is not shorter is all of it. *)
LEMMA BeginsAll ==
    ASSUME NEW ls \in Seq(Records), NEW v, Begins(v, ls), Len(v) >= Len(ls)
    PROVE  v = ls
BY SeqEqual DEF Begins

(* The beginning of a beginning is one. *)
LEMMA BeginsTransitive ==
    ASSUME NEW ls \in Seq(Records), NEW v, NEW w, Begins(v, w), Begins(w, ls)
    PROVE  Begins(v, ls)
BY DEF Begins

(* What holds of a listing in order holds of its beginning.                *)
LEMMA BeginsKeeps ==
    ASSUME NEW ls \in Seq(Records), NEW v, Begins(v, ls)
    PROVE  /\ ToSet(v) \subseteq ToSet(ls)
           /\ \A sort : Sorted(ls, sort) => Sorted(v, sort)
<1>1. v \in Seq(Records) /\ \A i \in 1 .. Len(v) : i \in 1 .. Len(ls) /\ v[i] = ls[i]
  BY DEF Begins
<1>2. ToSet(v) \subseteq ToSet(ls)
  BY <1>1, Elements
<1>3. ASSUME NEW sort, Sorted(ls, sort) PROVE Sorted(v, sort)
  BY <1>1, <1>3, Zenon DEF Sorted
<1> QED BY <1>2, <1>3

(* The parts copied of a listing's beginning begin the parts copied of it. *)
LEMMA SubsetBegins ==
    \A ls \in Seq(Records), A \in SUBSET Records : \A v :
        Begins(v, ls) => Begins(subset[<<v, A>>], subset[<<ls, A>>])
<1> SUFFICES ASSUME NEW A \in SUBSET Records
             PROVE  \A ls \in Seq(Records) : \A v :
                      Begins(v, ls) => Begins(subset[<<v, A>>], subset[<<ls, A>>])
  OBVIOUS
<1> DEFINE T == {ls \in Seq(Records) : \A v :
                    Begins(v, ls) => Begins(subset[<<v, A>>], subset[<<ls, A>>])}
<1>1. \A ls \in Seq(Records) : Begins(ls, ls)
  BY DEF Begins
<1>2. <<>> \in T
  <2>1. <<>> \in Seq(Records)
    OBVIOUS
  <2> SUFFICES ASSUME NEW v, Begins(v, <<>>) PROVE Begins(subset[<<v, A>>], subset[<<(<<>>), A>>])
    BY <2>1
  <2>2. v = <<>>
    BY DEF Begins
  <2>3. subset[<<(<<>>), A>>] = <<>>
    BY <2>1, SubsetStep, Zenon
  <2> QED BY <1>1, <2>1, <2>2, <2>3
<1>3. ASSUME NEW ls \in Seq(Records), ls # <<>>, Front(ls) \in T PROVE ls \in T
  <2> SUFFICES ASSUME NEW v, Begins(v, ls) PROVE Begins(subset[<<v, A>>], subset[<<ls, A>>])
    OBVIOUS
  <2> DEFINE front == Front(ls)
             last == Last(ls)
             r0 == subset[<<front, A>>]
             r == subset[<<ls, A>>]
  <2>1. /\ front \in Seq(Records) /\ last \in Records
        /\ Len(ls) \in Nat /\ Len(ls) = Len(front) + 1 /\ last = ls[Len(ls)]
        /\ \A i \in 1 .. Len(front) : front[i] = ls[i]
    BY <1>3, FrontAndLast, Zenon
  <2>2. r = IF last \in A THEN Append(r0, last) ELSE r0
    BY <1>3, SubsetStep, Zenon
  <2>3. \A u : Begins(u, front) => Begins(subset[<<u, A>>], r0)
    BY <1>3
  <2>4. r0 \in Seq(Records) /\ r \in Seq(Records)
    BY <2>1, SubsetIs, Zenon
  <2> HIDE DEF front, last, r0, r
  <2>5. CASE Len(v) >= Len(ls)
    <3>1. v = ls
      BY <2>5, BeginsAll
    <3> QED BY <1>1, <2>4, <3>1 DEF r
  <2>6. CASE ~(Len(v) >= Len(ls))
    <3>1. Begins(v, front)
      BY <2>1, <2>6 DEF Begins
    <3>2. Begins(subset[<<v, A>>], r0)
      BY <2>3, <3>1
    <3>3. Begins(r0, r)
      <4>1. CASE last \in A
        <5>1. /\ r = Append(r0, last) /\ Len(r) = Len(r0) + 1 /\ Len(r0) \in Nat
              /\ \A i \in 1 .. Len(r0) : r[i] = r0[i]
          BY <2>1, <2>2, <2>4, <4>1, AppendProperties
        <5> QED BY <2>4, <5>1 DEF Begins
      <4>2. CASE last \notin A
        BY <1>1, <2>2, <2>4, <4>2
      <4> QED BY <4>1, <4>2
    <3>4. Begins(subset[<<v, A>>], r)
      BY <2>4, <3>2, <3>3, BeginsTransitive
    <3> QED BY <3>4 DEF r
  <2> QED BY <2>5, <2>6
<1> HIDE DEF T
<1>4. Seq(Records) \subseteq T
  BY <1>2, <1>3, ListingInduction, Zenon
<1> QED BY <1>4 DEF T

(* As much of a listing as there was memory for is its beginning.          *)
LEMMA CutBegins ==
    ASSUME NEW ls \in Seq(Records), NEW n \in Nat
    PROVE  Begins(Cut(ls, n), ls)
<1>1. CASE n < Len(ls)
  <2>1. Cut(ls, n) = SubSeq(ls, 1, n)
    BY <1>1 DEF Cut
  <2> QED BY <1>1, <2>1 DEF Begins
<1>2. CASE ~(n < Len(ls))
  <2>1. Cut(ls, n) = SubSeq(ls, 1, Len(ls))
    BY <1>2 DEF Cut
  <2> QED BY <2>1 DEF Begins
<1> QED BY <1>1, <1>2

-----------------------------------------------------------------------------
(* The lists the selector makes.                                           *)

All == ToSet(Crates[1].by_order)

Places == 0 .. Len(Crates) - 1

SelectorSet ==
    [crates : ScrollSet, records : ScrollSet, view : Seq(Records),
     search : Seq(Character), sort : 0 .. SORT_END - 1, target : Records \union {NULL},
     toggled : BOOLEAN, toggle_back : Int, whole : BOOLEAN]

(* The records a search is for.                                            *)
Matching(match) == {re \in Records : \A w \in Words(match) : record_match(re, w)}

(* A listing of records of the library, in order unless it is a playlist's. *)
Proper(ls, sort) ==
    /\ ls \in Seq(Records) /\ ToSet(ls) \subseteq All
    /\ sort # SORT_PLAYLIST => Sorted(ls, sort)

(* The records of the first crate are records, and no record is NULL. *)
LEMMA AllAreRecords == All \subseteq Records /\ NULL \notin Records
<1>1. 1 \in 1 .. Len(Crates) /\ Crates[1].by_order \in Seq(Records)
  BY SelectorAssumption DEF Crate
<1>2. All \subseteq Records
  BY <1>1, Elements DEF All
<1> QED BY <1>2, SelectorAssumption

(* listing_match copies the records that match. *)
LEMMA MatchIs ==
    ASSUME NEW ls \in Seq(Records), NEW match
    PROVE  listing_match(ls, match) = subset[<<ls, Matching(match)>>]
<1> DEFINE K == {re \in ToSet(ls) : \A w \in Words(match) : record_match(re, w)}
<1>1. listing_match(ls, match) = subset[<<ls, K>>]
  BY DEF listing_match
<1>2. ToSet(ls) \subseteq Records
  BY Elements
<1>3. K \in SUBSET Records /\ Matching(match) \in SUBSET Records
  BY <1>2 DEF Matching
<1>4. ToSet(ls) \cap K = ToSet(ls) \cap Matching(match)
  BY <1>2 DEF Matching
<1> HIDE DEF K
<1> QED BY <1>1, <1>3, <1>4, SubsetSame

(* The listing of the selected crate is in the selected order. *)
LEMMA InitialIs ==
    ASSUME NEW s, s.crates.selected \in Places, s.sort \in 0 .. SORT_END - 1
    PROVE  Proper(initial(s), s.sort)
<1> DEFINE n == s.crates.selected + 1
           c == Crates[n]
<1>1. n \in 1 .. Len(Crates)
  BY SelectorAssumption DEF Places
<1>2. Crate(c) /\ ToSet(c.by_order) \subseteq All
  BY <1>1, SelectorAssumption DEF All
<1>3. initial(s) = IF s.sort = SORT_ARTIST THEN c.by_artist
                   ELSE IF s.sort = SORT_BPM THEN c.by_bpm ELSE c.by_order
  BY DEF initial
<1> HIDE DEF c
<1>4. /\ c.by_artist \in Seq(Records) /\ c.by_bpm \in Seq(Records) /\ c.by_order \in Seq(Records)
      /\ Sorted(c.by_artist, SORT_ARTIST) /\ Sorted(c.by_bpm, SORT_BPM)
      /\ ToSet(c.by_artist) = ToSet(c.by_bpm) /\ ToSet(c.by_artist) = ToSet(c.by_order)
  BY <1>2 DEF Crate
<1>5. s.sort \in {SORT_ARTIST, SORT_BPM, SORT_PLAYLIST}
  BY DEF SORT_END, SORT_ARTIST, SORT_BPM, SORT_PLAYLIST
<1>6. SORT_ARTIST # SORT_BPM /\ SORT_ARTIST # SORT_PLAYLIST /\ SORT_BPM # SORT_PLAYLIST
  BY DEF SORT_ARTIST, SORT_BPM, SORT_PLAYLIST
<1> QED BY <1>2, <1>3, <1>4, <1>5, <1>6 DEF Proper

(* The match of a listing is in its order, of its records. *)
LEMMA MatchIsProper ==
    ASSUME NEW ls, NEW sort, Proper(ls, sort), NEW match
    PROVE  Proper(listing_match(ls, match), sort)
<1>1. ls \in Seq(Records) /\ Matching(match) \in SUBSET Records
  BY DEF Proper, Matching
<1>2. listing_match(ls, match) = subset[<<ls, Matching(match)>>]
  BY <1>1, MatchIs
<1> QED BY <1>1, <1>2, SubsetIs DEF Proper

(* So is the beginning of a listing. *)
LEMMA BeginsIsProper ==
    ASSUME NEW ls, NEW sort, Proper(ls, sort), NEW v, Begins(v, ls)
    PROVE  Proper(v, sort)
<1>1. ToSet(v) \subseteq ToSet(ls) /\ (Sorted(ls, sort) => Sorted(v, sort)) /\ v \in Seq(Records)
  BY BeginsKeeps DEF Proper, Begins
<1> QED BY <1>1 DEF Proper

-----------------------------------------------------------------------------
(* The selection follows its target.                                       *)

(* A record in a listing in order is found at its place.                   *)
LEMMA FindsRecord ==
    ASSUME NEW ls \in Seq(Records), NEW sort \in {SORT_ARTIST, SORT_BPM}, Sorted(ls, sort),
           NEW r \in Records
    PROVE  /\ listing_find(ls, r, sort) \in 0 .. Len(ls)
           /\ r \in ToSet(ls) => /\ listing_find(ls, r, sort) < Len(ls)
                                 /\ ls[listing_find(ls, r, sort) + 1] = r
<1> DEFINE z == bin_search[<<ls, r, sort>>]
<1>1. Finds(z, ls, r, sort)
  BY BinSearchFinds, Zenon
<1>2. listing_find(ls, r, sort) = z.pos
  BY DEF listing_find
<1> HIDE DEF z
<1>3. z.pos \in 0 .. Len(ls) /\ Len(ls) \in Nat
  BY <1>1 DEF Finds
<1>4. ASSUME r \in ToSet(ls) PROVE z.pos < Len(ls) /\ ls[z.pos + 1] = r
  <2>1. PICK i \in 1 .. Len(ls) : r = ls[i]
    BY <1>4, Elements
  <2>2. Compare(r, ls[i], sort) = 0
    BY <2>1, CompareSame
  <2>3. z.found
    <3> SUFFICES ASSUME ~z.found PROVE FALSE
      OBVIOUS
    <3>1. i \in 1 .. z.pos \/ i \in z.pos + 1 .. Len(ls)
      BY <1>3, <2>1
    <3>2. Compare(r, ls[i], sort) > 0 \/ Compare(r, ls[i], sort) < 0
      BY <1>1, <3>1 DEF Finds
    <3> QED BY <2>2, <3>2
  <2> DEFINE k == z.pos + 1
  <2>4. k \in 1 .. Len(ls) /\ Compare(r, ls[k], sort) = 0
    BY <1>1, <1>3, <2>3 DEF Finds
  <2>5. i = k
    <3>1. ~(i < k)
      BY <2>1, <2>4 DEF Sorted
    <3>2. ~(k < i)
      <4> SUFFICES ASSUME k < i PROVE FALSE
        OBVIOUS
      <4>1. Compare(ls[k], r, sort) < 0
        BY <2>1, <2>4 DEF Sorted
      <4>2. ls[k] \in Records
        BY <2>4
      <4>3. Compare(ls[k], r, sort) = 0 - Compare(r, ls[k], sort)
        BY <4>2, CompareConverse
      <4> QED BY <2>4, <4>1, <4>3
    <3> QED BY <2>1, <2>4, <3>1, <3>2
  <2> QED BY <1>3, <2>1, <2>4, <2>5
<1> QED BY <1>2, <1>3, <1>4

(* The first of a set of positions.                                        *)
LEMMA FirstPlace ==
    ASSUME NEW P \in SUBSET Nat, P # {}
    PROVE  (CHOOSE p \in P : \A q \in P : p <= q) \in P
<1>1. IsWellFoundedOn(OpToRel(<, Nat), Nat)
  BY NatLessThanWellFounded, Zenon
<1>2. \E p \in P : \A q \in P : ~(<<q, p>> \in OpToRel(<, Nat))
  BY <1>1, WFMin, Zenon
<1>3. PICK p \in P : \A q \in P : ~(<<q, p>> \in OpToRel(<, Nat))
  BY <1>2
<1>4. \A q \in P : ~(q < p)
  BY <1>3 DEF OpToRel
<1>5. \A q \in P : p <= q
  BY <1>4
<1> QED BY <1>5

(* What retain_position leaves: the selection where it was, or at a place  *)
(* of the list; at the target, if the list has it.                         *)
Retained(s, t) ==
    \/ t = s /\ s.target \notin ToSet(s.view)
    \/ \E n \in 0 .. Len(s.view) - 1 :
          /\ t = [s EXCEPT !.records = scroll_to(s.records, n)]
          /\ s.target \in ToSet(s.view) => s.view[n + 1] = s.target

(* retain_position (selector.c:164) does that for each order. *)
LEMMA RetainPosition ==
    ASSUME NEW s, s.target \in Records \union {NULL}, s.sort \in 0 .. SORT_END - 1,
           Proper(s.view, s.sort)
    PROVE  Retained(s, retain_position(s))
<1> DEFINE places == {p \in 1 .. Len(s.view) : s.view[p] = s.target}
           first == CHOOSE p \in places : \A q \in places : p <= q
           n == IF s.sort # SORT_PLAYLIST THEN listing_find(s.view, s.target, s.sort)
                ELSE IF places = {} THEN Len(s.view) ELSE first - 1
           t == retain_position(s)
<1>1. t = IF s.target = NULL \/ n >= Len(s.view) THEN s
          ELSE [s EXCEPT !.records = scroll_to(@, n)]
  BY DEF retain_position
<1>2. /\ s.view \in Seq(Records) /\ Len(s.view) \in Nat
      /\ \A x : x \in ToSet(s.view) <=> \E i \in 1 .. Len(s.view) : x = s.view[i]
      /\ NULL \notin ToSet(s.view)
  BY AllAreRecords, Elements DEF Proper
<1>3. CASE s.target = NULL
  BY <1>1, <1>2, <1>3 DEF Retained
<1>4. CASE s.target # NULL
  <2>1. /\ n \in 0 .. Len(s.view)
        /\ s.target \in ToSet(s.view) => n < Len(s.view) /\ s.view[n + 1] = s.target
    <3>1. CASE s.sort # SORT_PLAYLIST
      <4>1. s.sort \in {SORT_ARTIST, SORT_BPM} /\ Sorted(s.view, s.sort)
        BY <3>1 DEF SORT_END, SORT_ARTIST, SORT_BPM, SORT_PLAYLIST, Proper
      <4>2. s.target \in Records
        BY <1>4
      <4>3. n = listing_find(s.view, s.target, s.sort)
        BY <3>1
      <4> HIDE DEF n
      <4> QED BY <1>2, <4>1, <4>2, <4>3, FindsRecord
    <3>2. CASE s.sort = SORT_PLAYLIST /\ places = {}
      BY <1>2, <3>2
    <3>3. CASE s.sort = SORT_PLAYLIST /\ places # {}
      <4>1. n = first - 1
        BY <3>3
      <4>2. places \in SUBSET Nat
        OBVIOUS
      <4>3. first \in places
        BY <3>3, <4>2, FirstPlace, Zenon
      <4> HIDE DEF n, first
      <4> QED BY <1>2, <4>1, <4>3
    <3> QED BY <3>1, <3>2, <3>3
  <2> HIDE DEF n, t
  <2>2. CASE n >= Len(s.view)
    <3>1. t = s /\ s.target \notin ToSet(s.view)
      BY <1>1, <1>2, <2>1, <2>2
    <3> QED BY <3>1 DEF Retained, t
  <2>3. CASE ~(n >= Len(s.view))
    <3>1. t = [s EXCEPT !.records = scroll_to(s.records, n)]
      BY <1>1, <1>4, <2>3
    <3>2. n \in 0 .. Len(s.view) - 1
      BY <1>2, <2>1, <2>3
    <3> QED BY <2>1, <3>1, <3>2 DEF Retained, t
  <2> QED BY <2>2, <2>3
<1> QED BY <1>3, <1>4

-----------------------------------------------------------------------------
(* The inductive invariant.                                                *)

(* The selector between two events, whatever the window.                   *)
Sound(s) ==
    /\ s \in SelectorSet
    /\ Shape(s.crates) /\ s.crates.entries = Len(Crates) /\ s.crates.selected >= 0
    /\ Shape(s.records) /\ s.records.entries = Len(s.view)
    /\ Proper(s.view, s.sort)
    /\ s.target \in All \union {NULL}
    /\ s.toggled => s.crates.selected = 0 /\ s.toggle_back \in Places
    /\ Len(s.search) < SEARCH_SIZE

(* Each list has its selection on the screen, or was not drawn yet.        *)
Drawn(s) ==
    /\ Window(s.crates) /\ Fresh(s.crates)
    /\ Window(s.records) /\ Fresh(s.records)

(* What a key leaves of that for the redraw to restore.                    *)
Moved(s) ==
    /\ Window(s.crates) \/ Past(s.crates)
    /\ Window(s.records) \/ Past(s.records)

(* The list is the match of the search in the selected crate.              *)
Listed(s) ==
    LET match == listing_match(initial(s), s.search)
    IN Begins(s.view, match) /\ (s.whole => s.view = match)

(* A crate is selected. *)
LEMMA CratesSelected ==
    ASSUME NEW s, Sound(s)
    PROVE  s.crates.selected \in Places
<1>1. /\ s.crates \in ScrollSet /\ s.crates.entries = Len(Crates) /\ s.crates.selected >= 0
      /\ s.crates.selected <= 0 \/ s.crates.selected < s.crates.entries
  BY DEF Sound, Shape
<1>2. s.crates.selected \in Int
  BY <1>1 DEF ScrollSet
<1> QED BY <1>1, <1>2, SelectorAssumption DEF Places

(* A redraw moves nothing but the windows. *)
LEMMA RedrawIs ==
    ASSUME NEW s, Sound(s), NEW r \in Nat
    PROVE  LET t == Redraw(s, r)
           IN /\ Sound(t)
              /\ t = [s EXCEPT !.crates = t.crates, !.records = t.records]
              /\ r = TOO_SMALL => t = s
              /\ r # TOO_SMALL =>
                    /\ t.crates = scroll_set_lines(s.crates, r)
                    /\ t.records = scroll_set_lines(s.records, r)
<1> DEFINE t == Redraw(s, r)
<1>1. CASE r = TOO_SMALL
  <2>1. t = s
    BY <1>1 DEF Redraw
  <2>2. s = [s EXCEPT !.crates = s.crates, !.records = s.records]
    BY DEF Sound, SelectorSet
  <2> QED BY <1>1, <2>1, <2>2
<1>2. CASE r # TOO_SMALL
  <2> DEFINE c == scroll_set_lines(s.crates, r)
             d == scroll_set_lines(s.records, r)
  <2>1. t = [s EXCEPT !.crates = c, !.records = d]
    BY <1>2 DEF Redraw, selector_set_lines
  <2>2. r \in Nat \ {0}
    BY <1>2 DEF TOO_SMALL
  <2>3. /\ Shape(c) /\ c.entries = s.crates.entries
        /\ s.crates.selected >= 0 => c.selected >= 0
        /\ s.crates.selected < s.crates.offset + r => c.selected = s.crates.selected
    BY <2>2, SetLines DEF Sound
  <2>4. Shape(d) /\ d.entries = s.records.entries
    BY <2>2, SetLines DEF Sound
  <2> HIDE DEF c, d
  <2>5. s \in SelectorSet /\ c \in ScrollSet /\ d \in ScrollSet
    BY <2>3, <2>4 DEF Sound, Shape
  <2> HIDE DEF t
  <2>6. /\ t \in SelectorSet /\ t.crates = c /\ t.records = d
        /\ t.view = s.view /\ t.sort = s.sort /\ t.target = s.target
        /\ t.toggled = s.toggled /\ t.toggle_back = s.toggle_back /\ t.search = s.search
    BY <2>1, <2>5 DEF SelectorSet
  <2>7. s.toggled => c.selected = 0
    <3> SUFFICES ASSUME s.toggled PROVE c.selected = 0
      OBVIOUS
    <3>1. s.crates.selected = 0 /\ s.crates.offset \in Nat
      BY DEF Sound, Shape, ScrollSet
    <3>2. s.crates.selected < s.crates.offset + r
      BY <2>2, <3>1
    <3> QED BY <2>3, <3>1, <3>2
  <2>8. Sound(t)
    BY <2>3, <2>4, <2>6, <2>7 DEF Sound
  <2> QED BY <1>2, <2>1, <2>6, <2>8 DEF c, d, t
<1> QED BY <1>1, <1>2

(* A window of two lines or more shows the selections. *)
LEMMA RedrawShows ==
    ASSUME NEW s, Sound(s), Moved(s), NEW r \in Nat, r >= 2
    PROVE  LET t == Redraw(s, r)
           IN Drawn(t) /\ t.crates.lines = r /\ t.records.lines = r
<1> DEFINE t == Redraw(s, r)
           c == scroll_set_lines(s.crates, r)
           d == scroll_set_lines(s.records, r)
<1>1. t.crates = c /\ t.records = d
  <2>1. r # TOO_SMALL
    BY DEF TOO_SMALL
  <2> QED BY <2>1, RedrawIs
<1>2. r \in Nat \ {0}
  OBVIOUS
<1>3. c.lines = r /\ Window(c)
  BY <1>2, SetLines DEF Sound, Moved
<1>4. d.lines = r /\ Window(d)
  BY <1>2, SetLines DEF Sound, Moved
<1> HIDE DEF t, c, d
<1>5. Fresh(c) /\ Fresh(d)
  BY <1>3, <1>4 DEF Fresh
<1> QED BY <1>1, <1>3, <1>4, <1>5 DEF Drawn, t

(* A window that shows the selected crate leaves it selected. *)
LEMMA RedrawKeepsCrate ==
    ASSUME NEW s, Sound(s), NEW r \in Nat,
           r = TOO_SMALL \/ s.crates.selected < s.crates.offset + r
    PROVE  Redraw(s, r).crates.selected = s.crates.selected
<1>1. CASE r = TOO_SMALL
  BY <1>1, RedrawIs
<1>2. CASE r # TOO_SMALL
  <2> DEFINE c == scroll_set_lines(s.crates, r)
  <2>1. r \in Nat \ {0}
    BY <1>2 DEF TOO_SMALL
  <2>2. c.selected = s.crates.selected
    BY <1>2, <2>1, SetLines DEF Sound
  <2> HIDE DEF c
  <2>3. Redraw(s, r).crates = c
    BY <1>2, RedrawIs DEF c
  <2> QED BY <2>2, <2>3
<1> QED BY <1>1, <1>2

(* A window with a line for every crate shows the selected one. *)
LEMMA ShowsSelected ==
    ASSUME NEW s, Sound(s), NEW r \in Nat, r >= Len(Crates)
    PROVE  s.crates.selected < s.crates.offset + r
<1>1. s.crates.selected \in Places /\ s.crates.offset \in Nat
  BY CratesSelected DEF Sound, Shape, ScrollSet
<1> QED BY <1>1, SelectorAssumption DEF Places

(* The current record is one of the list. *)
LEMMA CurrentIs ==
    ASSUME NEW s, Shape(s.records), s.records.entries = Len(s.view), s.view \in Seq(Records)
    PROVE  /\ selector_current(s) \in ToSet(s.view) \union {NULL}
           /\ \A n \in 0 .. Len(s.view) - 1 :
                 s.records.selected = n => selector_current(s) = s.view[n + 1]
<1>1. s.records.selected \in Int /\ s.records.selected >= -1 /\ Len(s.view) \in Nat
      /\ (s.records.selected <= 0 \/ s.records.selected < Len(s.view))
  BY DEF Shape, ScrollSet
<1>2. \A n \in 0 .. Len(s.view) - 1 :
         /\ n + 1 \in 1 .. Len(s.view)
         /\ s.records.selected = n => selector_current(s) = s.view[n + 1]
  BY <1>1 DEF selector_current, scroll_current
<1>3. selector_current(s) # NULL => s.records.selected \in 0 .. Len(s.view) - 1
  BY <1>1 DEF selector_current, scroll_current
<1>4. \A i \in 1 .. Len(s.view) : s.view[i] \in ToSet(s.view)
  BY Elements
<1>5. selector_current(s) \in ToSet(s.view) \union {NULL}
  BY <1>2, <1>3, <1>4
<1> QED BY <1>2, <1>5

(* set_target changes nothing else. *)
LEMMA SetTarget ==
    ASSUME NEW s, Sound(s)
    PROVE  LET t == set_target(s)
           IN Sound(t) /\ t = [s EXCEPT !.target = t.target]
<1> DEFINE t == set_target(s)
<1>1. s \in SelectorSet
  BY DEF Sound
<1>2. CASE selector_current(s) = NULL
  <2>1. t = s
    BY <1>2 DEF set_target
  <2>2. s = [s EXCEPT !.target = s.target]
    BY <1>1 DEF SelectorSet
  <2> QED BY <2>1, <2>2
<1>3. CASE selector_current(s) # NULL
  <2> DEFINE r == selector_current(s)
  <2>1. t = [s EXCEPT !.target = r]
    BY <1>3 DEF set_target
  <2>2. r \in ToSet(s.view) /\ s.view \in Seq(Records) /\ ToSet(s.view) \subseteq All
    BY <1>3, CurrentIs DEF Sound, Proper
  <2>3. r \in All /\ r \in Records
    BY <2>2, AllAreRecords
  <2> HIDE DEF r, t
  <2>4. /\ t \in SelectorSet /\ t.target = r /\ t.crates = s.crates /\ t.records = s.records
        /\ t.view = s.view /\ t.sort = s.sort /\ t.search = s.search
        /\ t.toggled = s.toggled /\ t.toggle_back = s.toggle_back
    BY <1>1, <2>1, <2>3 DEF SelectorSet
  <2>5. Sound(t)
    BY <2>3, <2>4 DEF Sound
  <2> QED BY <2>1, <2>4, <2>5 DEF t
<1> QED BY <1>2, <1>3

-----------------------------------------------------------------------------
(* The keys that make a new list.                                          *)

(* The selector where the list is about to be made.                        *)
Ready(s) ==
    /\ s \in SelectorSet
    /\ Shape(s.crates) /\ s.crates.entries = Len(Crates) /\ s.crates.selected >= 0
    /\ Shape(s.records)
    /\ s.target \in All \union {NULL}
    /\ s.toggled => s.crates.selected = 0 /\ s.toggle_back \in Places
    /\ Len(s.search) < SEARCH_SIZE

(* The same but for the list, and at the target if the list has it.        *)
NewlyListed(s, h) ==
    /\ Sound(h) /\ Listed(h)
    /\ h.crates = s.crates /\ h.sort = s.sort /\ h.search = s.search /\ h.target = s.target
    /\ h.records.lines = s.records.lines
    /\ h.target \in ToSet(h.view) => selector_current(h) = h.target
    /\ Window(s.records) /\ Fresh(s.records) =>
          /\ Window(h.records)
          /\ h.target \in ToSet(h.view) =>
                Steady(h.records)

(* crate_has_changed (selector.c:328) makes that list. *)
LEMMA CrateHasChanged ==
    ASSUME NEW s, Ready(s), NEW room \in Nat
    PROVE  NewlyListed(s, crate_has_changed(s, room))
<1> DEFINE match == listing_match(initial(s), s.search)
           view == Cut(match, room)
           d == scroll_set_entries(s.records, Len(view))
           m == [s EXCEPT !.whole = view = match, !.view = view, !.records = d]
           h == crate_has_changed(s, room)
<1>1. s \in SelectorSet
  BY DEF Ready
<1>2. h = retain_position(m)
  <2>1. m = [s EXCEPT !.whole = view = match, !.view = view,
                      !.records = scroll_set_entries(@, Len(view))]
    OBVIOUS
  <2> QED BY <2>1 DEF crate_has_changed
<1>3. s.crates.selected \in Places /\ s.sort \in 0 .. SORT_END - 1
  <2>1. /\ s.crates \in ScrollSet /\ s.crates.entries = Len(Crates) /\ s.crates.selected >= 0
        /\ s.crates.selected <= 0 \/ s.crates.selected < s.crates.entries
    BY DEF Ready, Shape
  <2>2. s.crates.selected \in Int
    BY <2>1 DEF ScrollSet
  <2>3. s.crates.selected \in Places
    BY <2>1, <2>2, SelectorAssumption DEF Places
  <2> QED BY <1>1, <2>3 DEF SelectorSet
<1>4. Proper(match, s.sort) /\ match \in Seq(Records)
  <2>1. Proper(initial(s), s.sort)
    BY <1>3, InitialIs
  <2>2. Proper(match, s.sort)
    BY <2>1, MatchIsProper
  <2> QED BY <2>2 DEF Proper
<1> HIDE DEF match
<1>5. Begins(view, match) /\ Proper(view, s.sort)
  BY <1>4, CutBegins, BeginsIsProper
<1> HIDE DEF view
<1>6. view \in Seq(Records) /\ Len(view) \in Nat
  BY <1>5 DEF Begins
<1>7. /\ Shape(d) /\ d.lines = s.records.lines /\ d.entries = Len(view)
      /\ Window(s.records) /\ Fresh(s.records) => Window(d) /\ Fresh(d)
  BY <1>6, SetEntries DEF Ready
<1> HIDE DEF d
<1>8. /\ m \in SelectorSet /\ m.records = d /\ m.view = view /\ m.whole = (view = match)
      /\ m.crates = s.crates /\ m.sort = s.sort /\ m.search = s.search
      /\ m.target = s.target /\ m.toggled = s.toggled /\ m.toggle_back = s.toggle_back
  <2>1. d \in ScrollSet
    BY <1>7 DEF Shape
  <2> QED BY <1>1, <1>6, <2>1 DEF SelectorSet
<1> HIDE DEF m
<1>9. initial(m) = initial(s)
  BY <1>8 DEF initial
<1>10. Sound(m) /\ Listed(m)
  <2>1. Sound(m)
    BY <1>5, <1>7, <1>8 DEF Ready, Sound
  <2>2. Listed(m)
    BY <1>5, <1>8, <1>9 DEF Listed, match
  <2> QED BY <2>1, <2>2
<1>11. Retained(m, h)
  <2>1. m.target \in Records \union {NULL} /\ m.sort \in 0 .. SORT_END - 1 /\ Proper(m.view, m.sort)
    BY <1>8, <1>10, AllAreRecords DEF Sound, SelectorSet
  <2> QED BY <1>2, <2>1, RetainPosition
<1> HIDE DEF h
<1>12. CASE h = m /\ m.target \notin ToSet(m.view)
  BY <1>7, <1>8, <1>10, <1>12 DEF NewlyListed, h
<1>13. CASE \E n \in 0 .. Len(m.view) - 1 :
              /\ h = [m EXCEPT !.records = scroll_to(m.records, n)]
              /\ m.target \in ToSet(m.view) => m.view[n + 1] = m.target
  <2>1. PICK n \in 0 .. Len(m.view) - 1 :
              /\ h = [m EXCEPT !.records = scroll_to(m.records, n)]
              /\ m.target \in ToSet(m.view) => m.view[n + 1] = m.target
    BY <1>13
  <2> DEFINE e == scroll_to(m.records, n)
  <2>2. n \in 0 .. m.records.entries - 1
    BY <1>7, <1>8
  <2>3. /\ Shape(e) /\ e.lines = d.lines /\ e.entries = d.entries /\ e.selected = n
        /\ Window(d) => Window(e)
        /\ Window(d) /\ Fresh(d) => Steady(e)
    BY <1>7, <1>8, <2>2, ScrollTo
  <2> HIDE DEF e
  <2>4. h = [m EXCEPT !.records = e]
    BY <2>1 DEF e
  <2>5. /\ h \in SelectorSet /\ h.records = e /\ h.view = m.view /\ h.whole = m.whole
        /\ h.crates = m.crates /\ h.sort = m.sort /\ h.search = m.search
        /\ h.target = m.target /\ h.toggled = m.toggled /\ h.toggle_back = m.toggle_back
    <3>1. e \in ScrollSet
      BY <2>3 DEF Shape
    <3> QED BY <1>8, <2>4, <3>1 DEF SelectorSet
  <2>6. Sound(h)
    BY <1>7, <1>8, <1>10, <2>3, <2>5 DEF Sound
  <2>7. initial(h) = initial(m)
    BY <2>5 DEF initial
  <2>8. Listed(h)
    BY <1>10, <2>5, <2>7 DEF Listed
  <2>9. h.target \in ToSet(h.view) => selector_current(h) = h.target
    <3>1. selector_current(h) = h.view[n + 1]
      <4>1. Shape(h.records) /\ h.records.entries = Len(h.view) /\ h.view \in Seq(Records)
        BY <2>6 DEF Sound, Proper
      <4>2. h.records.selected = n /\ n \in 0 .. Len(h.view) - 1
        BY <2>3, <2>5
      <4> QED BY <4>1, <4>2, CurrentIs
    <3> QED BY <2>1, <2>5, <3>1
  <2>10. /\ h.crates = s.crates /\ h.sort = s.sort /\ h.search = s.search /\ h.target = s.target
         /\ h.records.lines = s.records.lines
    BY <1>7, <1>8, <2>3, <2>5
  <2>11. Window(s.records) /\ Fresh(s.records) =>
          Window(h.records) /\ Steady(h.records)
    BY <1>7, <2>3, <2>5
  <2> QED BY <2>6, <2>8, <2>9, <2>10, <2>11 DEF NewlyListed, h
<1> QED BY <1>11, <1>12, <1>13 DEF Retained, h

(* What a key does before the list is made: it selects a crate, an order   *)
(* or a search, and no other target than the record that is selected.      *)
CrateKey(s, s1) ==
    /\ Ready(s1) /\ s1.records = s.records
    /\ s1.target = (IF s1.sort = s.sort THEN s ELSE set_target(s)).target
    /\ s1.crates.lines = s.crates.lines
    /\ Drawn(s) => Window(s1.crates) /\ Steady(s1.crates)

(* To select another crate is such a key. *)
LEMMA CrateKeySelects ==
    ASSUME NEW s, Sound(s), NEW c, Shape(c), c.entries = Len(Crates), c.selected >= 0,
           c.lines = s.crates.lines, Drawn(s) => Window(c) /\ Steady(c)
    PROVE  CrateKey(s, [s EXCEPT !.crates = c, !.toggled = FALSE])
<1> DEFINE t == [s EXCEPT !.crates = c, !.toggled = FALSE]
<1>1. s \in SelectorSet /\ c \in ScrollSet
  BY DEF Sound, Shape
<1>2. /\ t \in SelectorSet /\ t.crates = c /\ t.records = s.records /\ t.toggled = FALSE
      /\ t.sort = s.sort /\ t.target = s.target /\ t.search = s.search
  BY <1>1 DEF SelectorSet
<1> HIDE DEF t
<1>3. Ready(t)
  BY <1>2 DEF Sound, Ready
<1> QED BY <1>2, <1>3 DEF CrateKey, t

(* A list where nothing has moved is steady. *)
LEMMA FreshIsSteady == \A d : Shape(d) /\ Fresh(d) => Steady(d)
BY DEF Shape, ScrollSet, Fresh, Steady

(* The key for the crate before. *)
LEMMA PrevKey ==
    ASSUME NEW s, Sound(s), NEW room \in Nat
    PROVE  \E s1 : CrateKey(s, s1) /\ selector_prev(s, room) = crate_has_changed(s1, room)
<1> DEFINE c == scroll_up(s.crates, 1)
<1>1. /\ Shape(c) /\ c.entries = Len(Crates) /\ c.selected >= 0
      /\ c.lines = s.crates.lines
      /\ Window(s.crates) /\ Fresh(s.crates) => Window(c) /\ Steady(c)
  BY ScrollUp DEF Sound
<1>2. selector_prev(s, room) = crate_has_changed([s EXCEPT !.crates = c, !.toggled = FALSE], room)
  BY DEF selector_prev
<1> HIDE DEF c
<1>3. CrateKey(s, [s EXCEPT !.crates = c, !.toggled = FALSE])
  BY <1>1, CrateKeySelects DEF Drawn
<1> QED BY <1>2, <1>3

(* The key for the crate after. *)
LEMMA NextKey ==
    ASSUME NEW s, Sound(s), NEW room \in Nat
    PROVE  \E s1 : CrateKey(s, s1) /\ selector_next(s, room) = crate_has_changed(s1, room)
<1> DEFINE c == scroll_down(s.crates, 1)
<1>1. /\ Shape(c) /\ c.entries = Len(Crates) /\ c.selected >= 0
      /\ c.lines = s.crates.lines
      /\ Window(s.crates) /\ Fresh(s.crates) => Window(c) /\ Steady(c)
  <2>1. Shape(s.crates) /\ s.crates.entries = Len(Crates) /\ s.crates.entries > 0
        /\ s.crates.selected >= 0
    BY SelectorAssumption DEF Sound
  <2> QED BY <2>1, ScrollDown
<1>2. selector_next(s, room) = crate_has_changed([s EXCEPT !.crates = c, !.toggled = FALSE], room)
  BY DEF selector_next
<1> HIDE DEF c
<1>3. CrateKey(s, [s EXCEPT !.crates = c, !.toggled = FALSE])
  BY <1>1, CrateKeySelects DEF Drawn
<1> QED BY <1>2, <1>3

(* The Tab key goes to the crate of all records, or back. *)
LEMMA ToggleKey ==
    ASSUME NEW s, Sound(s), NEW room \in Nat
    PROVE  \E s1 : CrateKey(s, s1) /\ selector_toggle(s, room) = crate_has_changed(s1, room)
<1>1. CASE s.toggled
  <2> DEFINE c == scroll_to(s.crates, s.toggle_back)
  <2>1. s.toggle_back \in 0 .. s.crates.entries - 1
    BY <1>1 DEF Sound, Places
  <2>2. /\ Shape(c) /\ c.entries = Len(Crates) /\ c.selected = s.toggle_back
        /\ c.lines = s.crates.lines
        /\ Window(s.crates) /\ Fresh(s.crates) => Window(c) /\ Steady(c)
    BY <2>1, ScrollTo DEF Sound
  <2>3. selector_toggle(s, room) = crate_has_changed([s EXCEPT !.crates = c, !.toggled = FALSE], room)
    BY <1>1 DEF selector_toggle
  <2> HIDE DEF c
  <2>4. c.selected >= 0
    BY <2>1, <2>2
  <2>5. CrateKey(s, [s EXCEPT !.crates = c, !.toggled = FALSE])
    BY <2>2, <2>4, CrateKeySelects DEF Drawn
  <2> QED BY <2>3, <2>5
<1>2. CASE ~s.toggled
  <2> DEFINE c == scroll_first(s.crates)
             back == scroll_current(s.crates)
             t == [s EXCEPT !.crates = c, !.toggled = TRUE, !.toggle_back = back]
  <2>1. /\ Shape(c) /\ c.entries = Len(Crates) /\ c.selected = 0
        /\ c.lines = s.crates.lines
        /\ Window(s.crates) /\ Fresh(s.crates) => Window(c) /\ Steady(c)
    BY ScrollFirst DEF Sound
  <2>2. back = s.crates.selected /\ back \in Places /\ back \in Int
    <3>1. s.crates.entries # 0
      BY SelectorAssumption DEF Sound
    <3>2. back = s.crates.selected
      BY <3>1 DEF scroll_current
    <3>3. s.crates.selected \in Places
      BY CratesSelected
    <3> QED BY <3>2, <3>3 DEF Places
  <2>3. selector_toggle(s, room) = crate_has_changed(t, room)
    BY <1>2 DEF selector_toggle
  <2> HIDE DEF c, back
  <2>4. /\ t \in SelectorSet /\ t.crates = c /\ t.records = s.records /\ t.toggle_back = back
        /\ t.sort = s.sort /\ t.target = s.target /\ t.search = s.search
    <3>1. s \in SelectorSet /\ c \in ScrollSet
      BY <2>1 DEF Sound, Shape
    <3> QED BY <2>2, <3>1 DEF SelectorSet
  <2> HIDE DEF t
  <2>5. Ready(t)
    BY <2>1, <2>2, <2>4 DEF Sound, Ready
  <2>6. CrateKey(s, t)
    BY <2>1, <2>4, <2>5 DEF CrateKey, Drawn
  <2> QED BY <2>3, <2>6
<1> QED BY <1>1, <1>2

(* The key for the next order notes the current record first. *)
LEMMA OrderKey ==
    ASSUME NEW s, Sound(s), NEW room \in Nat
    PROVE  \E s1 : /\ CrateKey(s, s1) /\ selector_toggle_order(s, room) = crate_has_changed(s1, room)
                   /\ s1.sort # s.sort
<1> DEFINE u == set_target(s)
           sort == (u.sort + 1) % SORT_END
           t == [u EXCEPT !.sort = sort]
<1>1. Sound(u) /\ u = [s EXCEPT !.target = u.target]
  BY SetTarget
<1>2. /\ u.crates = s.crates /\ u.records = s.records /\ u.sort = s.sort
  BY <1>1 DEF Sound, SelectorSet
<1>3. selector_toggle_order(s, room) = crate_has_changed(t, room)
  BY DEF selector_toggle_order
<1> HIDE DEF u
<1>4. sort \in 0 .. SORT_END - 1 /\ sort # s.sort
  <2>1. s.sort \in 0 .. 2
    BY DEF Sound, SelectorSet, SORT_END
  <2> QED BY <1>2, <2>1 DEF SORT_END
<1> HIDE DEF sort
<1>5. /\ t \in SelectorSet /\ t.crates = s.crates /\ t.records = s.records /\ t.sort = sort
      /\ t.target = u.target /\ t.toggled = u.toggled /\ t.toggle_back = u.toggle_back
      /\ t.search = u.search
  BY <1>1, <1>2, <1>4 DEF Sound, SelectorSet
<1> HIDE DEF t
<1>6. Ready(t)
  BY <1>1, <1>2, <1>5 DEF Sound, Ready
<1>7. CrateKey(s, t)
  BY <1>4, <1>5, <1>6, FreshIsSteady DEF CrateKey, Drawn, Sound, u
<1> QED BY <1>3, <1>4, <1>5, <1>7

(* The backspace key shortens the search. *)
LEMMA ExpandKey ==
    ASSUME NEW s, Sound(s), NEW room \in Nat, s.search # <<>>
    PROVE  \E s1 : CrateKey(s, s1) /\ selector_search_expand(s, room) = crate_has_changed(s1, room)
<1> DEFINE t == [s EXCEPT !.search = Front(s.search)]
<1>1. s \in SelectorSet /\ s.search \in Seq(Character)
  BY DEF Sound, SelectorSet
<1>2. Front(s.search) \in Seq(Character) /\ Len(Front(s.search)) = Len(s.search) - 1
      /\ Len(s.search) \in Nat
  BY <1>1 DEF Front
<1>3. selector_search_expand(s, room) = crate_has_changed(t, room)
  BY DEF selector_search_expand
<1>4. /\ t \in SelectorSet /\ t.crates = s.crates /\ t.records = s.records /\ t.sort = s.sort
      /\ t.target = s.target /\ t.toggled = s.toggled /\ t.toggle_back = s.toggle_back
      /\ t.search = Front(s.search)
  BY <1>1, <1>2 DEF SelectorSet
<1> HIDE DEF t
<1>5. Len(t.search) < SEARCH_SIZE
  BY <1>2, <1>4, SelectorAssumption DEF Sound
<1>6. Ready(t)
  BY <1>4, <1>5 DEF Sound, Ready
<1> QED BY <1>3, <1>4, <1>6, FreshIsSteady DEF CrateKey, Drawn, Sound

-----------------------------------------------------------------------------
(* A longer search matches no more records.                                *)

Ends(match) == {0, Len(match) + 1} \union {i \in 1 .. Len(match) : match[i] = SEPARATOR}

(* The piece between a and b is a word of the search.                      *)
Between(match, a, b) ==
    /\ a \in Ends(match) /\ b \in Ends(match) /\ a < b
    /\ \A k \in Ends(match) : k <= a \/ b <= k
    /\ Cardinality(Ends(match) \intersect 0 .. a) < MAX_WORDS

(* The words are the pieces between two ends, with few ends before them. *)
LEMMA WordsAre ==
    ASSUME NEW match
    PROVE  /\ \A w \in Words(match) :
                 \E a, b : Between(match, a, b) /\ w = SubSeq(match, a + 1, b - 1)
           /\ \A a, b : Between(match, a, b) => SubSeq(match, a + 1, b - 1) \in Words(match)
<1> DEFINE ends == Ends(match)
           adjacent == {e \in ends \X ends : e[1] < e[2] /\ \A k \in ends : k <= e[1] \/ e[2] <= k}
           few == {d \in adjacent : Cardinality(ends \cap 0 .. d[1]) < MAX_WORDS}
<1>1. Words(match) = {SubSeq(match, e[1] + 1, e[2] - 1) : e \in few}
  BY DEF Words, Ends
<1> HIDE DEF ends
<1>2. ASSUME NEW w \in Words(match)
      PROVE  \E a, b : Between(match, a, b) /\ w = SubSeq(match, a + 1, b - 1)
  <2>1. PICK e \in few : w = SubSeq(match, e[1] + 1, e[2] - 1)
    BY <1>1
  <2>2. /\ e \in ends \X ends /\ e[1] < e[2] /\ \A k \in ends : k <= e[1] \/ e[2] <= k
        /\ Cardinality(ends \cap 0 .. e[1]) < MAX_WORDS
    OBVIOUS
  <2>3. e[1] \in ends /\ e[2] \in ends
    BY <2>2
  <2>4. Between(match, e[1], e[2])
    BY <2>2, <2>3, Zenon DEF Between, ends
  <2> QED BY <2>1, <2>4
<1>3. ASSUME NEW a, NEW b, Between(match, a, b)
      PROVE  SubSeq(match, a + 1, b - 1) \in Words(match)
  <2> DEFINE e == <<a, b>>
  <2>1. e \in ends \X ends /\ e[1] = a /\ e[2] = b
    BY <1>3 DEF Between, ends
  <2>2. a < b /\ (\A k \in ends : k <= a \/ b <= k) /\ Cardinality(ends \cap 0 .. a) < MAX_WORDS
    BY <1>3, Zenon DEF Between, ends
  <2> HIDE DEF e
  <2>3. e \in few
    BY <2>1, <2>2, Zenon
  <2> QED BY <1>1, <2>1, <2>3
<1> QED BY <1>2, <1>3

(* Where a word with one more character occurs, so does the word.          *)
LEMMA OccursShorter ==
    ASSUME NEW text \in Seq(Character), NEW word \in Seq(Character), NEW long \in Seq(Character),
           Len(long) = Len(word) + 1, \A i \in 1 .. Len(word) : long[i] = word[i],
           Occurs(long, text)
    PROVE  Occurs(word, text)
<1>1. PICK i \in 1 .. (Len(text) - Len(long) + 1) : SubSeq(text, i, i + Len(long) - 1) = long
  BY DEF Occurs
<1>2. Len(text) \in Nat /\ Len(word) \in Nat /\ Len(long) \in Nat
  OBVIOUS
<1> DEFINE n == Len(word)
           piece == SubSeq(text, i, i + n - 1)
<1>3. i \in 1 .. (Len(text) - n + 1)
  BY <1>1, <1>2
<1>4. piece \in Seq(Character) /\ Len(piece) = n /\ \A j \in 1 .. n : piece[j] = text[i + j - 1]
  BY <1>2, <1>3
<1>5. \A j \in 1 .. n : long[j] = text[i + j - 1]
  <2>1. i + (n + 1) - 1 <= Len(text) /\ i \in Nat /\ i >= 1
    BY <1>1, <1>2
  <2>2. \A j \in 1 .. n + 1 : SubSeq(text, i, i + (n + 1) - 1)[j] = text[i + j - 1]
    BY <1>2, <2>1
  <2>3. long = SubSeq(text, i, i + (n + 1) - 1)
    BY <1>1
  <2> QED BY <1>2, <2>2, <2>3
<1>6. \A j \in 1 .. n : piece[j] = word[j]
  BY <1>4, <1>5
<1> HIDE DEF piece
<1>7. piece = word
  BY <1>4, <1>6, SeqEqual
<1> QED BY <1>3, <1>7 DEF Occurs, piece

(* One more character typed, be it of the last word or a separator, matches *)
(* none but records that matched before: selector_search_refine            *)
(* (selector.c:395) need only search the list on the screen.               *)
LEMMA RefineMatches ==
    ASSUME NEW search \in Seq(Character), NEW key \in Character
    PROVE  Matching(Append(search, key)) \subseteq Matching(search)
<1> DEFINE m == Append(search, key)
           n == Len(search)
<1>1. /\ m \in Seq(Character) /\ Len(m) = n + 1 /\ n \in Nat
      /\ m[n + 1] = key /\ \A i \in 1 .. n : m[i] = search[i]
  BY AppendProperties
<1> HIDE DEF m
<1> SUFFICES ASSUME NEW re \in Records, \A w \in Words(m) : record_match(re, w),
                    NEW w \in Words(search)
             PROVE  record_match(re, w)
  BY DEF Matching, m
<1>2. PICK a, b : Between(search, a, b) /\ w = SubSeq(search, a + 1, b - 1)
  BY WordsAre, Zenon
<1>3. /\ a \in Ends(search) /\ b \in Ends(search) /\ a < b
      /\ \A k \in Ends(search) : k <= a \/ b <= k
      /\ Cardinality(Ends(search) \intersect 0 .. a) < MAX_WORDS
  BY <1>2, Zenon DEF Between
<1>4. a \in 0 .. n /\ b \in 1 .. n + 1
  BY <1>1, <1>3 DEF Ends
<1>5. \A k : k \in Ends(m) <=> \/ k \in Ends(search) /\ k # n + 1
                               \/ k = n + 1 /\ key = SEPARATOR
                               \/ k = n + 2
  <2>1. Ends(m) = {0, n + 2} \union {i \in 1 .. n + 1 : m[i] = SEPARATOR}
    BY <1>1 DEF Ends
  <2>2. Ends(search) = {0, n + 1} \union {i \in 1 .. n : search[i] = SEPARATOR}
    BY DEF Ends
  <2>3. \A k : k \in 1 .. n + 1 <=> k \in 1 .. n \/ k = n + 1
    BY <1>1
  <2>4. n + 1 \notin 1 .. n /\ n + 1 # 0 /\ n + 1 # n + 2 /\ n + 2 # 0
    BY <1>1
  <2> QED BY <1>1, <2>1, <2>2, <2>3, <2>4
<1>6. Ends(m) \intersect 0 .. a = Ends(search) \intersect 0 .. a
  <2>1. n + 1 \notin 0 .. a /\ n + 2 \notin 0 .. a
    BY <1>1, <1>4
  <2> QED BY <1>5, <2>1
<1>7. a \in Ends(m)
  <2>1. a # n + 1
    BY <1>1, <1>4
  <2> QED BY <1>3, <1>5, <2>1
<1>8. CASE b # n + 1 \/ key = SEPARATOR
  <2>1. b \in Ends(m)
    BY <1>3, <1>5, <1>8
  <2>2. ASSUME NEW k \in Ends(m) PROVE k <= a \/ b <= k
    <3>1. k \in Ends(search) \/ k = n + 2
      <4>1. n + 1 \in Ends(search)
        BY DEF Ends
      <4> QED BY <1>5, <4>1
    <3> QED BY <1>1, <1>3, <1>4, <3>1
  <2>3. Between(m, a, b)
    BY <1>3, <1>6, <1>7, <2>1, <2>2, Zenon DEF Between
  <2>4. SubSeq(m, a + 1, b - 1) \in Words(m)
    BY <2>3, WordsAre, Zenon
  <2>5. SubSeq(m, a + 1, b - 1) = w
    <3>1. \A i \in a + 1 .. b - 1 : m[i] = search[i]
      BY <1>1, <1>4
    <3> QED BY <1>1, <1>2, <1>4, <3>1
  <2> QED BY <2>4, <2>5
<1>9. CASE b = n + 1 /\ key # SEPARATOR
  <2>1. n + 2 \in Ends(m)
    BY <1>5
  <2>2. ASSUME NEW k \in Ends(m) PROVE k <= a \/ n + 2 <= k
    <3>1. (k \in Ends(search) /\ k # n + 1) \/ k = n + 2
      BY <1>5, <1>9
    <3>2. k \in Ends(search) /\ k # n + 1 => k \in 0 .. n
      BY <1>1 DEF Ends
    <3> QED BY <1>1, <1>3, <1>4, <1>9, <3>1, <3>2
  <2>3. a < n + 2
    BY <1>1, <1>4
  <2>4. Between(m, a, n + 2)
    BY <1>3, <1>6, <1>7, <2>1, <2>2, <2>3, Zenon DEF Between
  <2> DEFINE long == SubSeq(m, a + 1, n + 1)
  <2>5. long \in Words(m)
    <3>1. SubSeq(m, a + 1, (n + 2) - 1) \in Words(m)
      BY <2>4, WordsAre, Zenon
    <3>2. (n + 2) - 1 = n + 1
      BY <1>1
    <3> QED BY <3>1, <3>2
  <2>6. PICK text \in re.texts : Occurs(long, text)
    BY <2>5 DEF record_match
  <2>7. text \in Seq(Character)
    BY <2>6, ListingAssumption
  <2>8. /\ long \in Seq(Character) /\ Len(long) = n + 1 - a
        /\ \A i \in 1 .. n + 1 - a : long[i] = m[a + i]
    BY <1>1, <1>4
  <2>9. /\ w \in Seq(Character) /\ Len(w) = n - a
        /\ \A i \in 1 .. n - a : w[i] = search[a + i]
    BY <1>1, <1>2, <1>4, <1>9
  <2> HIDE DEF long
  <2>10. \A i \in 1 .. n - a : long[i] = w[i]
    <3>1. \A i \in 1 .. n - a : i \in 1 .. n + 1 - a /\ a + i \in 1 .. n
      BY <1>1, <1>4
    <3> QED BY <1>1, <2>8, <2>9, <3>1
  <2>11. Len(long) = Len(w) + 1
    BY <1>1, <1>4, <2>8, <2>9
  <2>12. Occurs(w, text)
    BY <2>6, <2>7, <2>8, <2>9, <2>10, <2>11, OccursShorter
  <2> QED BY <2>6, <2>12 DEF record_match
<1> QED BY <1>8, <1>9

-----------------------------------------------------------------------------
(* The other keys.                                                         *)

(* A key that makes a new list.                                            *)
NewListKey(s, h) == \E s1 : CrateKey(s, s1) /\ NewlyListed(s1, h)

(* A key that keeps to the crate and the order, and searches no less.      *)
SameListKey(s, h) ==
    /\ Sound(h) /\ (Drawn(s) => Moved(h)) /\ (Listed(s) => Listed(h))
    /\ h.crates = s.crates /\ h.sort = s.sort /\ Len(h.search) >= Len(s.search)

Key(s, h) == NewListKey(s, h) \/ SameListKey(s, h)

(* What is on the screen need not be restored. *)
LEMMA DrawnIsMoved == \A s : Drawn(s) => Moved(s)
BY DEF Drawn, Moved

(* A key that moves the selection moves the target with it. *)
LEMMA MoveKey ==
    ASSUME NEW s, Sound(s), NEW d, Shape(d), d.entries = s.records.entries,
           Drawn(s) => Window(d) \/ Past(d)
    PROVE  SameListKey(s, set_target([s EXCEPT !.records = d]))
<1> DEFINE t == [s EXCEPT !.records = d]
           h == set_target(t)
<1>1. s \in SelectorSet /\ d \in ScrollSet
  BY DEF Sound, Shape
<1>2. /\ t \in SelectorSet /\ t.records = d /\ t.crates = s.crates /\ t.sort = s.sort
      /\ t.search = s.search /\ t.target = s.target /\ t.view = s.view /\ t.whole = s.whole
      /\ t.toggled = s.toggled /\ t.toggle_back = s.toggle_back
  BY <1>1 DEF SelectorSet
<1> HIDE DEF t
<1>3. Sound(t)
  BY <1>2 DEF Sound
<1>4. Sound(h) /\ h = [t EXCEPT !.target = h.target]
  BY <1>3, SetTarget
<1> HIDE DEF h
<1>5. /\ h.crates = s.crates /\ h.records = d /\ h.sort = s.sort /\ h.search = s.search
      /\ h.view = s.view /\ h.whole = s.whole
  BY <1>2, <1>4 DEF SelectorSet
<1>6. initial(h) = initial(s)
  BY <1>5 DEF initial
<1>7. Listed(s) => Listed(h)
  BY <1>5, <1>6 DEF Listed
<1>8. Drawn(s) => Moved(h)
  BY <1>5 DEF Drawn, Moved
<1>9. Len(s.search) >= Len(s.search)
  BY <1>1 DEF SelectorSet
<1> QED BY <1>4, <1>5, <1>7, <1>8, <1>9 DEF SameListKey, h, t

(* A character typed looks at the records of the list only, and finds all  *)
(* that the crate has.                                                     *)
LEMMA RefineKey ==
    ASSUME NEW s, Sound(s), NEW key \in Character, NEW room \in Nat
    PROVE  SameListKey(s, selector_search_refine(s, key, room))
<1> DEFINE search == Append(s.search, key)
           match == listing_match(s.view, search)
           view == Cut(match, room)
           d == scroll_set_entries(s.records, Len(view))
           whole == s.whole /\ view = match
           t == [s EXCEPT !.search = search, !.view = view, !.whole = whole, !.records = d]
           h == selector_search_refine(s, key, room)
<1>1. s \in SelectorSet /\ s.search \in Seq(Character) /\ Len(s.search) \in Nat
  BY DEF Sound, SelectorSet
<1>2. CASE Len(s.search) >= SEARCH_SIZE - 1
  <2>1. h = s
    BY <1>2 DEF selector_search_refine
  <2> QED BY <1>1, <2>1, DrawnIsMoved DEF SameListKey
<1>3. CASE ~(Len(s.search) >= SEARCH_SIZE - 1)
  <2>1. h = set_target(t)
    BY <1>3 DEF selector_search_refine
  <2>2. /\ search \in Seq(Character) /\ Len(search) = Len(s.search) + 1
        /\ Len(search) < SEARCH_SIZE
    BY <1>1, <1>3, SelectorAssumption, AppendProperties
  <2>3. Proper(match, s.sort) /\ match \in Seq(Records)
    <3>1. Proper(s.view, s.sort)
      BY DEF Sound
    <3>2. Proper(match, s.sort)
      BY <3>1, MatchIsProper
    <3> QED BY <3>2 DEF Proper
  <2>4. Matching(search) \subseteq Matching(s.search)
    BY <1>1, RefineMatches
  <2>5. s.view \in Seq(Records)
    BY DEF Sound, Proper
  <2>6. match = subset[<<s.view, Matching(search)>>]
    BY <2>5, MatchIs
  <2> HIDE DEF match, search
  <2>7. Begins(view, match) /\ Proper(view, s.sort)
    BY <2>3, CutBegins, BeginsIsProper
  <2> HIDE DEF view, whole
  <2>8. view \in Seq(Records) /\ Len(view) \in Nat
    BY <2>7 DEF Begins
  <2>9. /\ Shape(d) /\ d.lines = s.records.lines /\ d.entries = Len(view)
        /\ Window(s.records) /\ Fresh(s.records) => Window(d) /\ Fresh(d)
    BY <2>8, SetEntries DEF Sound
  <2> HIDE DEF d
  <2>10. /\ t \in SelectorSet /\ t.records = d /\ t.view = view /\ t.whole = whole
         /\ t.crates = s.crates /\ t.sort = s.sort /\ t.search = search
         /\ t.target = s.target /\ t.toggled = s.toggled /\ t.toggle_back = s.toggle_back
    <3>1. d \in ScrollSet
      BY <2>9 DEF Shape
    <3>2. whole \in BOOLEAN
      BY <1>1 DEF whole, SelectorSet
    <3> QED BY <1>1, <2>2, <2>8, <3>1, <3>2 DEF SelectorSet
  <2> HIDE DEF t, h
  <2>11. Sound(t)
    BY <2>2, <2>7, <2>9, <2>10 DEF Sound
  <2>12. Sound(h) /\ h = [t EXCEPT !.target = h.target]
    BY <2>1, <2>11, SetTarget
  <2>13. /\ h.crates = s.crates /\ h.records = d /\ h.sort = s.sort /\ h.search = search
         /\ h.view = view /\ h.whole = whole
    BY <2>10, <2>12 DEF SelectorSet
  <2>14. initial(h) = initial(s)
    BY <2>13 DEF initial
  <2>15. ASSUME Listed(s) PROVE Listed(h)
    <3> DEFINE ls == initial(s)
               old == listing_match(ls, s.search)
               new == listing_match(ls, search)
    <3>1. ls \in Seq(Records)
      <4>1. s.sort \in 0 .. SORT_END - 1
        BY <1>1 DEF SelectorSet
      <4> QED BY <4>1, CratesSelected, InitialIs DEF Proper
    <3> HIDE DEF ls
    <3>2. /\ old = subset[<<ls, Matching(s.search)>>] /\ new = subset[<<ls, Matching(search)>>]
      BY <3>1, MatchIs
    <3>3. Begins(s.view, old) /\ (s.whole => s.view = old)
      BY <2>15 DEF Listed, ls
    <3> HIDE DEF old, new
    <3>4. /\ Matching(search) \in SUBSET Records /\ Matching(s.search) \in SUBSET Records
          /\ Matching(s.search) \intersect Matching(search) = Matching(search)
      BY <2>4 DEF Matching
    <3>5. old \in Seq(Records) /\ new \in Seq(Records)
      BY <3>1, <3>2, <3>4, SubsetIs
    <3>6. subset[<<old, Matching(search)>>] = new
      <4>1. subset[<<subset[<<ls, Matching(s.search)>>], Matching(search)>>]
              = subset[<<ls, Matching(s.search) \intersect Matching(search)>>]
        BY <3>1, <3>4, SubsetNested, Zenon
      <4> QED BY <3>2, <3>4, <4>1
    <3>7. Begins(match, new)
      <4>1. Begins(subset[<<s.view, Matching(search)>>], subset[<<old, Matching(search)>>])
        BY <3>3, <3>4, <3>5, SubsetBegins, Zenon
      <4> QED BY <2>6, <3>6, <4>1
    <3>8. Begins(view, new)
      BY <2>7, <3>5, <3>7, BeginsTransitive
    <3>9. whole => view = new
      <4> SUFFICES ASSUME whole PROVE view = new
        OBVIOUS
      <4>1. s.whole /\ view = match
        BY DEF whole
      <4> QED BY <2>6, <3>3, <3>6, <4>1
    <3> QED BY <2>13, <2>14, <3>8, <3>9 DEF Listed, new, ls
  <2>16. Drawn(s) => Moved(h)
    BY <2>9, <2>13 DEF Drawn, Moved
  <2>17. Len(h.search) >= Len(s.search)
    BY <1>1, <2>2, <2>13
  <2> QED BY <2>12, <2>13, <2>15, <2>16, <2>17 DEF SameListKey, h
<1> QED BY <1>2, <1>3

-----------------------------------------------------------------------------
(* The events.                                                             *)

(* Every event is a key and then a redraw, or a resize.                    *)
LEMMA EventIs ==
    ASSUME Sound(sel), Next
    PROVE  \/ \E h : Key(sel, h) /\ sel' = Redraw(h, rows) /\ rows' = rows
           \/ \E r \in Rows : sel' = Redraw(sel, r) /\ rows' = r
<1> DEFINE Redrawn(h) == sel' = Redraw(h, rows) /\ rows' = rows
<1>1. Shape(sel.records) /\ sel.records.lines \in Nat /\ Room \subseteq Nat
  BY SelectorAssumption DEF Sound, Shape, ScrollSet
<1>2. ASSUME NEW d, Shape(d), d.entries = sel.records.entries,
             Drawn(sel) => Window(d) \/ Past(d), Move(d)
      PROVE  \E h : Key(sel, h) /\ Redrawn(h)
  <2>1. SameListKey(sel, set_target([sel EXCEPT !.records = d]))
    BY <1>2, MoveKey
  <2> QED BY <1>2, <2>1 DEF Key, Move, Handle
<1>3. ASSUME NEW s1, CrateKey(sel, s1), NEW room \in Nat,
             Handle(crate_has_changed(s1, room))
      PROVE  \E h : Key(sel, h) /\ Redrawn(h)
  <2> DEFINE h == crate_has_changed(s1, room)
  <2>1. Ready(s1)
    BY <1>3 DEF CrateKey
  <2>2. NewlyListed(s1, h)
    BY <2>1, CrateHasChanged
  <2>3. Redrawn(h)
    BY <1>3 DEF Handle
  <2> HIDE DEF h
  <2> QED BY <1>3, <2>2, <2>3 DEF Key, NewListKey
<1>4. CASE Up
  BY <1>1, <1>2, <1>4, ScrollUp DEF Up, Drawn
<1>5. CASE Down
  BY <1>1, <1>2, <1>5, ScrollDown DEF Down, Drawn
<1>6. CASE PageUp
  BY <1>1, <1>2, <1>6, ScrollUp DEF PageUp, Drawn
<1>7. CASE PageDown
  BY <1>1, <1>2, <1>7, ScrollDown DEF PageDown, Drawn
<1>8. CASE Home
  BY <1>1, <1>2, <1>8, ScrollFirst DEF Home, Drawn
<1>9. CASE End
  BY <1>1, <1>2, <1>9, ScrollLast DEF End, Drawn
<1>10. CASE Left
  <2>1. PICK room \in Nat : Handle(selector_prev(sel, room))
    BY <1>1, <1>10 DEF Left
  <2>2. PICK s1 : CrateKey(sel, s1) /\ selector_prev(sel, room) = crate_has_changed(s1, room)
    BY PrevKey
  <2> QED BY <1>3, <2>1, <2>2
<1>11. CASE Right
  <2>1. PICK room \in Nat : Handle(selector_next(sel, room))
    BY <1>1, <1>11 DEF Right
  <2>2. PICK s1 : CrateKey(sel, s1) /\ selector_next(sel, room) = crate_has_changed(s1, room)
    BY NextKey
  <2> QED BY <1>3, <2>1, <2>2
<1>12. CASE Tab
  <2>1. PICK room \in Nat : Handle(selector_toggle(sel, room))
    BY <1>1, <1>12 DEF Tab
  <2>2. PICK s1 : CrateKey(sel, s1) /\ selector_toggle(sel, room) = crate_has_changed(s1, room)
    BY ToggleKey
  <2> QED BY <1>3, <2>1, <2>2
<1>13. CASE CtrlTab
  <2>1. PICK room \in Nat : Handle(selector_toggle_order(sel, room))
    BY <1>1, <1>13 DEF CtrlTab
  <2>2. PICK s1 : CrateKey(sel, s1) /\ selector_toggle_order(sel, room) = crate_has_changed(s1, room)
    BY OrderKey
  <2> QED BY <1>3, <2>1, <2>2
<1>14. CASE Backspace
  <2>1. PICK room \in Nat : Handle(selector_search_expand(sel, room))
    BY <1>1, <1>14 DEF Backspace
  <2>2. CASE sel.search = <<>>
    <3>1. Redrawn(sel)
      BY <2>1, <2>2 DEF selector_search_expand, Handle
    <3>2. Len(sel.search) >= Len(sel.search)
      BY <2>2
    <3>3. SameListKey(sel, sel)
      BY <3>2, DrawnIsMoved DEF SameListKey
    <3> QED BY <3>1, <3>3 DEF Key
  <2>3. CASE sel.search # <<>>
    <3>1. PICK s1 : CrateKey(sel, s1) /\ selector_search_expand(sel, room) = crate_has_changed(s1, room)
      BY <2>3, ExpandKey
    <3> QED BY <1>3, <2>1, <3>1
  <2> QED BY <2>2, <2>3
<1>15. CASE Type
  <2>1. PICK room \in Nat, key \in Character : Handle(selector_search_refine(sel, key, room))
    BY <1>1, <1>15 DEF Type
  <2>2. SameListKey(sel, selector_search_refine(sel, key, room))
    BY RefineKey
  <2> QED BY <2>1, <2>2 DEF Key, Handle
<1>16. CASE Resize
  BY <1>16 DEF Resize
<1> QED
  BY <1>4, <1>5, <1>6, <1>7, <1>8, <1>9, <1>10, <1>11, <1>12, <1>13, <1>14, <1>15, <1>16 DEF Next

(* A copy of everything is the same listing.                               *)
LEMMA SubsetAll == \A src \in Seq(Records) : subset[<<src, Records>>] = src
<1> DEFINE T == {src \in Seq(Records) : subset[<<src, Records>>] = src}
<1>1. Records \in SUBSET Records
  OBVIOUS
<1>2. <<>> \in T
  <2>1. <<>> \in Seq(Records)
    OBVIOUS
  <2>2. subset[<<(<<>>), Records>>] = <<>>
    BY <1>1, <2>1, SubsetStep, Zenon
  <2> QED BY <2>1, <2>2
<1>3. ASSUME NEW src \in Seq(Records), src # <<>>, Front(src) \in T PROVE src \in T
  <2> DEFINE front == Front(src)
             last == Last(src)
  <2>1. /\ front \in Seq(Records) /\ last \in Records
        /\ Len(src) \in Nat /\ Len(src) = Len(front) + 1 /\ last = src[Len(src)]
        /\ \A i \in 1 .. Len(front) : front[i] = src[i]
    BY <1>3, FrontAndLast, Zenon
  <2>2. subset[<<src, Records>>] = IF last \in Records THEN Append(subset[<<front, Records>>], last)
                                   ELSE subset[<<front, Records>>]
    BY <1>1, <1>3, SubsetStep, Zenon
  <2>3. subset[<<src, Records>>] = Append(front, last)
    BY <1>3, <2>1, <2>2
  <2> HIDE DEF front, last
  <2> DEFINE n == Append(front, last)
  <2>4. /\ n \in Seq(Records) /\ Len(n) = Len(front) + 1 /\ Len(front) \in Nat
        /\ n[Len(front) + 1] = last /\ \A i \in 1 .. Len(front) : n[i] = front[i]
    BY <2>1, AppendProperties
  <2> HIDE DEF n
  <2>5. \A i \in 1 .. Len(src) : n[i] = src[i]
    <3> SUFFICES ASSUME NEW i \in 1 .. Len(src) PROVE n[i] = src[i]
      OBVIOUS
    <3>1. CASE i = Len(src)
      BY <2>1, <2>4, <3>1
    <3>2. CASE i # Len(src)
      <4>1. i \in 1 .. Len(front)
        BY <2>1, <2>4, <3>2
      <4> QED BY <2>1, <2>4, <4>1
    <3> QED BY <3>1, <3>2
  <2>6. n = src
    BY <2>1, <2>4, <2>5, SeqEqual
  <2> QED BY <2>3, <2>6 DEF n
<1> HIDE DEF T
<1>4. Seq(Records) \subseteq T
  BY <1>2, <1>3, ListingInduction, Zenon
<1> QED BY <1>4 DEF T

(* No search finds every record.                                           *)
LEMMA EmptySearch == Matching(<<>>) = Records
<1> SUFFICES ASSUME NEW re \in Records, NEW w \in Words(<<>>) PROVE record_match(re, w)
  BY DEF Matching
<1>1. PICK a, b : Between(<<>>, a, b) /\ w = SubSeq(<<>>, a + 1, b - 1)
  BY WordsAre, Zenon
<1>2. a \in Ends(<<>>) /\ b \in Ends(<<>>) /\ a < b
  BY <1>1, Zenon DEF Between
<1>3. Ends(<<>>) = {0, 1}
  BY DEF Ends
<1>4. a = 0 /\ b = 1
  BY <1>2, <1>3
<1>5. w = <<>>
  BY <1>1, <1>4
<1>6. PICK text \in re.texts : TRUE
  BY ListingAssumption
<1>7. text \in Seq(Character)
  BY <1>6, ListingAssumption
<1>8. Occurs(<<>>, text)
  <2>1. 1 \in 1 .. (Len(text) - Len(<<>>) + 1) /\ SubSeq(text, 1, 1 + Len(<<>>) - 1) = <<>>
    BY <1>7
  <2> QED BY <2>1 DEF Occurs
<1> QED BY <1>5, <1>6, <1>8 DEF record_match

-----------------------------------------------------------------------------
(* The invariants.                                                         *)

(* Windows of at least two lines.  In fewer scroll_up leaves the selection *)
(* above the screen (selector.c:85).                                       *)
Roomy == \A r \in Rows \union StartRows : r >= 2

(* A resize leads to a window with a line for every crate, or to one that  *)
(* no window is larger than: neither hides the selected crate.             *)
ShowsCrates ==
    \A r \in Rows : \/ r >= Len(Crates)
                    \/ \A q \in Rows \union StartRows : q <= r

SelectorInv == Sound(sel) /\ rows \in Rows \union StartRows

(* Both lists have the lines of the window, or none before the first draw. *)
ScreenInv ==
    /\ Drawn(sel)
    /\ sel.records.lines \in {0, rows} /\ sel.crates.lines = sel.records.lines

(* A window has a number of lines. *)
LEMMA RowsAreNat == \A r \in Rows \union StartRows : r \in Nat
BY SelectorAssumption

(* The selector begins with the whole of the first crate. *)
LEMMA SelectorInitially ==
    Init => SelectorInv /\ ScreenInv /\ Listed(sel)
<1> SUFFICES ASSUME NEW room \in Room, sel = selector_init(room), rows \in StartRows
             PROVE  SelectorInv /\ ScreenInv /\ Listed(sel)
  BY DEF Init
<1> DEFINE c == scroll_set_entries(scroll_reset, Len(Crates))
           s == [crates |-> c, records |-> scroll_reset, view |-> <<>>, search |-> <<>>,
                 sort |-> SORT_ARTIST, target |-> NULL,
                 toggled |-> FALSE, toggle_back |-> 0, whole |-> TRUE]
           ls == initial(s)
           view == Cut(ls, room)
           d == scroll_set_entries(scroll_reset, Len(view))
           whole == view = ls
<1>1. sel = [s EXCEPT !.view = view, !.records = scroll_set_entries(@, Len(view)), !.whole = whole]
  BY DEF selector_init
<1>2. Shape(scroll_reset) /\ Window(scroll_reset) /\ Fresh(scroll_reset) /\ scroll_reset.lines = 0
  BY DEF Shape, Window, Fresh, ScrollSet, scroll_reset
<1>3. room \in Nat /\ Len(Crates) \in Nat \ {0}
  BY SelectorAssumption
<1>4. /\ Shape(c) /\ c.lines = 0 /\ c.entries = Len(Crates) /\ c.selected >= 0
      /\ Window(c) /\ Fresh(c)
  BY <1>2, <1>3, SetEntries
<1> HIDE DEF c
<1>5. c.selected \in Places /\ c \in ScrollSet
  <2>1. c \in ScrollSet /\ c.selected \in Int
    BY <1>4 DEF Shape, ScrollSet
  <2>2. c.selected <= 0 \/ c.selected < c.entries
    BY <1>4 DEF Shape
  <2> QED BY <1>3, <1>4, <2>1, <2>2 DEF Places
<1>6. s.crates = c /\ s.sort = SORT_ARTIST /\ s.search = <<>> /\ s.records = scroll_reset
  OBVIOUS
<1>7. SORT_ARTIST \in 0 .. SORT_END - 1
  BY DEF SORT_ARTIST, SORT_END
<1>8. Proper(ls, SORT_ARTIST) /\ ls \in Seq(Records)
  BY <1>5, <1>6, <1>7, InitialIs DEF Proper
<1> HIDE DEF ls
<1>9. Begins(view, ls) /\ Proper(view, SORT_ARTIST)
  BY <1>3, <1>8, CutBegins, BeginsIsProper
<1> HIDE DEF view
<1>10. view \in Seq(Records) /\ Len(view) \in Nat
  BY <1>9 DEF Begins
<1>11. /\ Shape(d) /\ d.lines = 0 /\ d.entries = Len(view) /\ Window(d) /\ Fresh(d)
  BY <1>2, <1>10, SetEntries
<1> HIDE DEF whole
<1>12. sel = [crates |-> c, records |-> d, view |-> view, search |-> <<>>,
              sort |-> SORT_ARTIST, target |-> NULL,
              toggled |-> FALSE, toggle_back |-> 0, whole |-> whole]
  BY <1>1
<1> HIDE DEF d, s
<1>13. sel \in SelectorSet
  <2>1. d \in ScrollSet /\ whole \in BOOLEAN /\ <<>> \in Seq(Character)
    BY <1>11 DEF Shape, whole
  <2> QED BY <1>5, <1>7, <1>10, <1>12, <2>1 DEF SelectorSet
<1>14. Len(<<>>) < SEARCH_SIZE
  BY SelectorAssumption
<1>15. Sound(sel)
  BY <1>4, <1>9, <1>11, <1>12, <1>13, <1>14 DEF Sound
<1>16. initial(sel) = ls
  BY <1>6, <1>12 DEF initial, ls
<1>17. Listed(sel)
  <2>1. listing_match(ls, <<>>) = ls
    BY <1>8, MatchIs, EmptySearch, SubsetAll
  <2>2. sel.view = view /\ sel.search = <<>> /\ sel.whole = whole
    BY <1>12
  <2>3. whole => view = ls
    BY DEF whole
  <2> QED BY <1>9, <1>16, <2>1, <2>2, <2>3 DEF Listed
<1>18. ScreenInv
  BY <1>4, <1>11, <1>12 DEF ScreenInv, Drawn
<1> QED BY <1>15, <1>17, <1>18 DEF SelectorInv

(* What every key leaves. *)
LEMMA KeyIs ==
    ASSUME NEW s, Sound(s), NEW h, Key(s, h)
    PROVE  /\ Sound(h) /\ h.crates.lines = s.crates.lines
           /\ Drawn(s) => Moved(h) /\ Window(h.crates) /\ Steady(h.crates)
<1>1. CASE SameListKey(s, h)
  BY <1>1, FreshIsSteady DEF SameListKey, Sound, Drawn
<1>2. CASE NewListKey(s, h)
  <2>1. PICK s1 : CrateKey(s, s1) /\ NewlyListed(s1, h)
    BY <1>2 DEF NewListKey
  <2>2. Sound(h) /\ h.crates = s1.crates /\ s1.crates.lines = s.crates.lines
    BY <2>1 DEF NewlyListed, CrateKey
  <2>3. ASSUME Drawn(s) PROVE Moved(h) /\ Window(h.crates) /\ Steady(h.crates)
    <3>1. s1.records = s.records /\ Window(s1.crates) /\ Steady(s1.crates)
      BY <2>1, <2>3 DEF CrateKey
    <3>2. Window(h.records)
      BY <2>1, <2>3, <3>1 DEF NewlyListed, Drawn
    <3> QED BY <2>2, <3>1, <3>2 DEF Moved
  <2> QED BY <2>2, <2>3
<1> QED BY <1>1, <1>2 DEF Key

(* The redraw after a key leaves the crate that the key selected. *)
LEMMA KeyShowsCrate ==
    ASSUME Roomy, SelectorInv, ScreenInv, NEW h, Key(sel, h)
    PROVE  h.crates.selected < h.crates.offset + rows
<1>1. rows \in Nat /\ rows >= 2
  BY RowsAreNat DEF Roomy, SelectorInv
<1>2. /\ Sound(h) /\ h.crates.lines = sel.crates.lines
      /\ Window(h.crates) /\ Steady(h.crates)
  BY KeyIs DEF SelectorInv, ScreenInv
<1>3. /\ h.crates.selected \in Int /\ h.crates.offset \in Nat
  BY <1>2 DEF Sound, Shape, ScrollSet
<1>4. h.crates.lines \in {0, rows}
  BY <1>2 DEF ScreenInv
<1> QED BY <1>1, <1>2, <1>3, <1>4 DEF Window, Steady

(* Every event keeps the invariant. *)
LEMMA SelectorInductive ==
    SelectorInv /\ [Next]_vars => SelectorInv'
<1> SUFFICES ASSUME SelectorInv, [Next]_vars PROVE SelectorInv'
  OBVIOUS
<1>1. CASE UNCHANGED vars
  BY <1>1 DEF vars, SelectorInv
<1>2. CASE Next
  <2>1. CASE \E h : Key(sel, h) /\ sel' = Redraw(h, rows) /\ rows' = rows
    <3>1. PICK h : Key(sel, h) /\ sel' = Redraw(h, rows) /\ rows' = rows
      BY <2>1
    <3>2. Sound(h) /\ rows \in Nat
      BY <3>1, KeyIs, RowsAreNat DEF SelectorInv
    <3>3. Sound(sel')
      BY <3>1, <3>2, RedrawIs
    <3> QED BY <3>1, <3>3 DEF SelectorInv, Sound, SelectorSet, Shape, Proper
  <2>2. CASE \E r \in Rows : sel' = Redraw(sel, r) /\ rows' = r
    <3>1. PICK r \in Rows : sel' = Redraw(sel, r) /\ rows' = r
      BY <2>2
    <3>2. Sound(sel) /\ r \in Nat
      BY RowsAreNat DEF SelectorInv
    <3>3. Sound(sel')
      BY <3>1, <3>2, RedrawIs
    <3> QED BY <3>1, <3>3 DEF SelectorInv, Sound, SelectorSet, Shape, Proper
  <2> QED BY <1>2, <2>1, <2>2, EventIs DEF SelectorInv
<1> QED BY <1>1, <1>2

(* Every event leaves the selections on the screen. *)
LEMMA ScreenInductive ==
    ASSUME Roomy
    PROVE  SelectorInv /\ ScreenInv /\ [Next]_vars => ScreenInv'
<1> SUFFICES ASSUME SelectorInv, ScreenInv, [Next]_vars PROVE ScreenInv'
  OBVIOUS
<1>1. CASE UNCHANGED vars
  BY <1>1 DEF vars, ScreenInv
<1>2. CASE Next
  <2>1. ASSUME NEW h, Sound(h), Moved(h), NEW r \in Rows \union StartRows,
               sel' = Redraw(h, r), rows' = r
        PROVE  ScreenInv'
    <3>1. r \in Nat /\ r >= 2
      BY RowsAreNat DEF Roomy
    <3>2. Drawn(sel') /\ sel'.crates.lines = r /\ sel'.records.lines = r
      BY <2>1, <3>1, RedrawShows
    <3>3. ScreenInv' = (Drawn(sel') /\ sel'.records.lines \in {0, rows'}
                          /\ sel'.crates.lines = sel'.records.lines)
      BY DEF ScreenInv, Drawn, Window, Fresh
    <3> QED BY <2>1, <3>2, <3>3
  <2>2. CASE \E h : Key(sel, h) /\ sel' = Redraw(h, rows) /\ rows' = rows
    BY <2>1, <2>2, KeyIs DEF SelectorInv, ScreenInv
  <2>3. CASE \E r \in Rows : sel' = Redraw(sel, r) /\ rows' = r
    BY <2>1, <2>3, DrawnIsMoved DEF SelectorInv, ScreenInv
  <2> QED BY <1>2, <2>2, <2>3, EventIs DEF SelectorInv
<1> QED BY <1>1, <1>2

(* A redraw that leaves the crate leaves the list the one it has to be.    *)
LEMMA RedrawKeepsList ==
    ASSUME NEW s, Sound(s), Listed(s), NEW r \in Nat,
           r = TOO_SMALL \/ s.crates.selected < s.crates.offset + r
    PROVE  Listed(Redraw(s, r))
<1> DEFINE t == Redraw(s, r)
<1>1. t = [s EXCEPT !.crates = t.crates, !.records = t.records]
  BY RedrawIs
<1>2. t.crates.selected = s.crates.selected
  BY RedrawKeepsCrate
<1> HIDE DEF t
<1>3. t.view = s.view /\ t.sort = s.sort /\ t.search = s.search /\ t.whole = s.whole
  BY <1>1 DEF Sound, SelectorSet
<1>4. initial(t) = initial(s)
  BY <1>2, <1>3 DEF initial
<1> QED BY <1>3, <1>4 DEF Listed, t

(* The window a resize leads to shows the selected crate. *)
LEMMA ResizeShows ==
    ASSUME Roomy, ShowsCrates, SelectorInv, ScreenInv, NEW r \in Rows
    PROVE  r \in Nat /\ sel.crates.selected < sel.crates.offset + r
<1>1. r \in Nat /\ rows \in Nat /\ r >= 2
  BY RowsAreNat DEF SelectorInv, Roomy
<1>2. CASE r >= Len(Crates)
  BY <1>1, <1>2, ShowsSelected DEF SelectorInv
<1>3. CASE \A q \in Rows \union StartRows : q <= r
  <2>1. rows <= r
    BY <1>3 DEF SelectorInv
  <2>2. /\ sel.crates.selected \in Int /\ sel.crates.offset \in Nat
        /\ sel.crates.lines \in {0, rows}
    BY DEF SelectorInv, ScreenInv, Sound, Shape, ScrollSet
  <2>3. CASE sel.crates.lines = 0
    BY <1>1, <2>2, <2>3 DEF ScreenInv, Drawn, Fresh
  <2>4. CASE sel.crates.lines # 0
    <3>1. sel.crates.lines = rows /\ sel.crates.selected < sel.crates.offset + rows
      BY <2>2, <2>4 DEF ScreenInv, Drawn, Window
    <3> QED BY <1>1, <2>1, <2>2, <3>1
  <2> QED BY <1>1, <2>3, <2>4
<1> QED BY <1>2, <1>3 DEF ShowsCrates

(* Every event leaves the list the match. *)
LEMMA ListInductive ==
    ASSUME Roomy, ShowsCrates
    PROVE  SelectorInv /\ ScreenInv /\ Listed(sel) /\ [Next]_vars => Listed(sel)'
<1> SUFFICES ASSUME SelectorInv, ScreenInv, Listed(sel), [Next]_vars PROVE Listed(sel)'
  OBVIOUS
<1>1. \A x : x = sel' => (Listed(x) => Listed(sel)')
  BY DEF Listed, initial
<1>2. CASE UNCHANGED vars
  BY <1>2 DEF vars, Listed, initial
<1>3. CASE Next
  <2>1. CASE \E h : Key(sel, h) /\ sel' = Redraw(h, rows) /\ rows' = rows
    <3>1. PICK h : Key(sel, h) /\ sel' = Redraw(h, rows) /\ rows' = rows
      BY <2>1
    <3>2. Listed(h)
      BY <3>1 DEF Key, NewListKey, SameListKey, NewlyListed
    <3>3. Sound(h) /\ rows \in Nat
      BY <3>1, KeyIs, RowsAreNat DEF SelectorInv
    <3>4. h.crates.selected < h.crates.offset + rows
      BY <3>1, KeyShowsCrate
    <3>5. Listed(Redraw(h, rows))
      BY <3>2, <3>3, <3>4, RedrawKeepsList
    <3> QED BY <1>1, <3>1, <3>5
  <2>2. CASE \E r \in Rows : sel' = Redraw(sel, r) /\ rows' = r
    <3>1. PICK r \in Rows : sel' = Redraw(sel, r)
      BY <2>2
    <3>2. r \in Nat /\ sel.crates.selected < sel.crates.offset + r
      BY ResizeShows
    <3>3. Listed(Redraw(sel, r))
      BY <3>2, RedrawKeepsList DEF SelectorInv
    <3> QED BY <1>1, <3>1, <3>3
  <2> QED BY <1>3, <2>1, <2>2, EventIs DEF SelectorInv
<1> QED BY <1>2, <1>3

-----------------------------------------------------------------------------
(* The theorems.                                                           *)

(* The invariant holds of every selector that can be reached. *)
THEOREM SelectorInvariant == Spec => []SelectorInv
<1>1. Init => SelectorInv
  BY SelectorInitially
<1>2. SelectorInv /\ [Next]_vars => SelectorInv'
  BY SelectorInductive
<1> QED BY <1>1, <1>2, PTL DEF Spec

(* The invariant says what the types are. *)
LEMMA TypesFromInvariant == SelectorInv => TypeOK
<1> SUFFICES ASSUME SelectorInv PROVE TypeOK
  OBVIOUS
<1>1. ASSUME NEW d, NEW n \in Nat, Shape(d), d.entries = n PROVE ScrollType(d, n)
  <2>1. /\ d.lines \in Nat /\ d.offset \in Nat /\ d.selected \in Int /\ d.selected >= -1
        /\ d.selected <= 0 \/ d.selected < d.entries
    BY <1>1 DEF Shape, ScrollSet
  <2>2. d.selected \in -1 .. n
    BY <1>1, <2>1
  <2> QED BY <1>1, <2>1, <2>2 DEF ScrollType
<1>2. ScrollType(sel.crates, Len(Crates))
  BY <1>1, SelectorAssumption DEF SelectorInv, Sound
<1>3. ScrollType(sel.records, Len(sel.view))
  BY <1>1 DEF SelectorInv, Sound, Proper
<1>4. sel \in SelectorSet /\ Len(sel.search) < SEARCH_SIZE /\ sel.target \in All \union {NULL}
  BY DEF SelectorInv, Sound
<1>5. sel.sort \in 0 .. SORT_END - 1 /\ sel.toggled \in BOOLEAN /\ sel.whole \in BOOLEAN
  BY <1>4 DEF SelectorSet
<1> QED BY <1>2, <1>3, <1>4, <1>5 DEF TypeOK, All

(* The selector is made of what its types say, each window is over the list *)
(* it is for, and the target is a record of the library or NULL.           *)
THEOREM SelectorTypes == Spec => []TypeOK
BY SelectorInvariant, TypesFromInvariant, PTL

(* The invariant says that there is a crate to come back to. *)
LEMMA ToggleFromInvariant == SelectorInv => ToggleComesBack
<1> SUFFICES ASSUME SelectorInv, sel.toggled
             PROVE  sel.crates.selected = 0 /\ ScrollAsserts(sel.crates, sel.toggle_back)
  BY DEF ToggleComesBack
<1>1. sel.crates.selected = 0 /\ sel.toggle_back \in Places /\ sel.crates.entries = Len(Crates)
  BY DEF SelectorInv, Sound
<1> QED BY <1>1 DEF ScrollAsserts, Places

(* While Tab has the user on the crate of all records, that is the crate   *)
(* selected, and the crate to come back to exists: the assertions of       *)
(* scroll_to (selector.c:134-135) hold for every library and window.       *)
THEOREM TogglesComeBack == Spec => []ToggleComesBack
BY SelectorInvariant, ToggleFromInvariant, PTL

(* What is drawn is on the screen. *)
LEMMA OnScreenFromInvariant == SelectorInv /\ ScreenInv => SelectionOnScreen
<1> SUFFICES ASSUME SelectorInv, ScreenInv, sel.crates.lines > 0
             PROVE  /\ OnScreen(sel.crates)
                    /\ Len(sel.view) > 0 /\ sel.records.selected # -1 => OnScreen(sel.records)
  BY DEF SelectionOnScreen
<1>1. ASSUME NEW d, Shape(d), Window(d), d.lines > 0, d.entries > 0
      PROVE  OnScreen(d)
  <2>1. /\ d.lines \in Nat /\ d.offset \in Nat /\ d.entries \in Nat /\ d.selected \in Int
        /\ d.selected <= 0 \/ d.selected < d.entries
    BY <1>1 DEF Shape, ScrollSet
  <2>2. d.selected >= 0 /\ d.offset <= d.selected /\ d.selected < d.offset + d.lines
    BY <1>1, <2>1 DEF Window
  <2> QED BY <1>1, <2>1, <2>2 DEF OnScreen
<1>2. OnScreen(sel.crates)
  BY <1>1, SelectorAssumption DEF SelectorInv, Sound, ScreenInv, Drawn
<1>3. Len(sel.view) > 0 => OnScreen(sel.records)
  BY <1>1 DEF SelectorInv, Sound, ScreenInv, Drawn
<1> QED BY <1>2, <1>3

(* With windows of two lines or more, the selected crate and record are    *)
(* among the lines of the screen after every event (selector.c:27-158).    *)
(* A window of one line is not enough: scroll_up leaves the selection on   *)
(* the line above it.                                                      *)
THEOREM SelectionShows ==
    ASSUME Roomy
    PROVE  Spec => []SelectionOnScreen
<1>1. Init => SelectorInv /\ ScreenInv
  BY SelectorInitially
<1>2. SelectorInv /\ ScreenInv /\ [Next]_vars => SelectorInv' /\ ScreenInv'
  BY SelectorInductive, ScreenInductive
<1>3. SelectorInv /\ ScreenInv => SelectionOnScreen
  BY OnScreenFromInvariant
<1> QED BY <1>1, <1>2, <1>3, PTL DEF Spec

(* The invariant says that the list is the match. *)
LEMMA MatchFromInvariant == SelectorInv /\ Listed(sel) => ViewIsTheMatch
<1> SUFFICES ASSUME SelectorInv, Listed(sel) PROVE ViewIsTheMatch
  OBVIOUS
<1> DEFINE match == listing_match(initial(sel), sel.search)
<1>1. Begins(sel.view, match) /\ (sel.whole => sel.view = match)
  BY DEF Listed
<1>2. match \in Seq(Records)
  <2>1. sel.sort \in 0 .. SORT_END - 1
    BY DEF SelectorInv, Sound, SelectorSet
  <2> QED BY <2>1, CratesSelected, InitialIs, MatchIsProper DEF SelectorInv, Proper
<1>3. ViewIsTheMatch <=> IsPrefix(sel.view, match) /\ (sel.whole => sel.view = match)
  BY DEF ViewIsTheMatch
<1> HIDE DEF match
<1> QED BY <1>1, <1>2, <1>3, BeginsIsPrefix

(* The list is what the selected crate holds for the search in the         *)
(* selected order, or the beginning of that where memory failed, however   *)
(* the search was typed, shortened and typed again (selector.c:328,395).   *)
(* A window made smaller than the list of crates may select another one,   *)
(* and does not list its records; no window here is.                       *)
THEOREM ListIsTheMatch ==
    ASSUME Roomy, ShowsCrates
    PROVE  Spec => []ViewIsTheMatch
<1>1. Init => SelectorInv /\ ScreenInv /\ Listed(sel)
  BY SelectorInitially
<1>2. SelectorInv /\ ScreenInv /\ Listed(sel) /\ [Next]_vars
        => SelectorInv' /\ ScreenInv' /\ Listed(sel)'
  BY SelectorInductive, ScreenInductive, ListInductive
<1>3. SelectorInv /\ Listed(sel) => ViewIsTheMatch
  BY MatchFromInvariant
<1> QED BY <1>1, <1>2, <1>3, PTL DEF Spec

(* A redraw that leaves the selection of the list leaves the current record. *)
LEMMA RedrawKeepsCurrent ==
    ASSUME NEW h, Sound(h), NEW r \in Nat,
           r = TOO_SMALL \/ h.records.selected < h.records.offset + r
    PROVE  selector_current(Redraw(h, r)) = selector_current(h)
<1> DEFINE t == Redraw(h, r)
           d == scroll_set_lines(h.records, r)
<1>1. CASE r = TOO_SMALL
  <2>1. t = h
    BY <1>1, RedrawIs
  <2> QED BY <2>1
<1>2. CASE r # TOO_SMALL
  <2>1. r \in Nat \ {0}
    BY <1>2 DEF TOO_SMALL
  <2>2. d.entries = h.records.entries /\ d.selected = h.records.selected
    BY <1>2, <2>1, SetLines DEF Sound
  <2>3. t.records = d /\ t = [h EXCEPT !.crates = t.crates, !.records = t.records]
    BY <1>2, RedrawIs
  <2> HIDE DEF t, d
  <2>4. t.view = h.view
    BY <2>3 DEF Sound, SelectorSet
  <2>5. selector_current(t) = selector_current(h)
    BY <2>2, <2>3, <2>4 DEF selector_current, scroll_current
  <2> QED BY <2>5 DEF t
<1> QED BY <1>1, <1>2

(* Every event that makes a new list follows the target. *)
LEMMA FollowsStep ==
    ASSUME Roomy, ShowsCrates, SelectorInv, ScreenInv, Next, NewList
    PROVE  /\ sel'.target = (IF sel'.sort = sel.sort THEN sel ELSE set_target(sel)).target
           /\ sel'.target \in ToSet(sel'.view) => selector_current(sel') = sel'.target
<1>1. ASSUME NEW h, Sound(h), NEW r \in Rows \union StartRows, sel' = Redraw(h, r),
             h.crates.selected < h.crates.offset + r
      PROVE  /\ r \in Nat /\ r >= 2
             /\ sel'.crates.selected = h.crates.selected
             /\ sel'.sort = h.sort /\ sel'.search = h.search
             /\ sel'.target = h.target /\ sel'.view = h.view
  <2>1. r \in Nat /\ r >= 2
    BY RowsAreNat DEF Roomy
  <2>2. sel' = [h EXCEPT !.crates = sel'.crates, !.records = sel'.records]
    BY <1>1, <2>1, RedrawIs
  <2>3. sel'.crates.selected = h.crates.selected
    BY <1>1, <2>1, RedrawKeepsCrate
  <2> QED BY <1>1, <2>1, <2>2, <2>3 DEF Sound, SelectorSet
<1>2. \/ sel'.crates.selected # sel.crates.selected \/ sel'.sort # sel.sort
      \/ Len(sel'.search) < Len(sel.search)
  BY DEF NewList
<1>3. sel.search \in Seq(Character)
  BY DEF SelectorInv, Sound, SelectorSet
<1>4. CASE \E r \in Rows : sel' = Redraw(sel, r) /\ rows' = r
  <2>1. PICK r \in Rows : sel' = Redraw(sel, r)
    BY <1>4
  <2>2. sel.crates.selected < sel.crates.offset + r
    BY ResizeShows
  <2>3. /\ sel'.crates.selected = sel.crates.selected
        /\ sel'.sort = sel.sort /\ sel'.search = sel.search
    BY <1>1, <2>1, <2>2 DEF SelectorInv
  <2> QED BY <1>2, <1>3, <2>3
<1>5. CASE \E h : Key(sel, h) /\ sel' = Redraw(h, rows) /\ rows' = rows
  <2>1. PICK h : Key(sel, h) /\ sel' = Redraw(h, rows)
    BY <1>5
  <2>2. Sound(h) /\ h.crates.selected < h.crates.offset + rows
    BY <2>1, KeyIs, KeyShowsCrate DEF SelectorInv
  <2>3. /\ rows \in Nat /\ rows >= 2
        /\ sel'.crates.selected = h.crates.selected
        /\ sel'.sort = h.sort /\ sel'.search = h.search
        /\ sel'.target = h.target /\ sel'.view = h.view
    BY <1>1, <2>1, <2>2 DEF SelectorInv
  <2>4. CASE SameListKey(sel, h)
    <3>1. h.crates = sel.crates /\ h.sort = sel.sort /\ Len(h.search) >= Len(sel.search)
      BY <2>4 DEF SameListKey
    <3>2. h.search \in Seq(Character)
      BY <2>2 DEF Sound, SelectorSet
    <3>3. ~(Len(h.search) < Len(sel.search))
      BY <1>3, <3>1, <3>2
    <3> QED BY <1>2, <2>3, <3>1, <3>3
  <2>5. CASE NewListKey(sel, h)
    <3>1. PICK s1 : CrateKey(sel, s1) /\ NewlyListed(s1, h)
      BY <2>5 DEF NewListKey
    <3>2. /\ s1.records = sel.records /\ h.sort = s1.sort /\ h.target = s1.target
          /\ s1.target = (IF s1.sort = sel.sort THEN sel ELSE set_target(sel)).target
          /\ h.records.lines = s1.records.lines
          /\ h.target \in ToSet(h.view) => selector_current(h) = h.target
      BY <3>1 DEF CrateKey, NewlyListed
    <3>3. sel'.target = (IF sel'.sort = sel.sort THEN sel ELSE set_target(sel)).target
      BY <2>3, <3>2
    <3>4. ASSUME h.target \in ToSet(h.view) PROVE selector_current(sel') = h.target
      <4>1. Window(s1.records) /\ Fresh(s1.records)
        BY <3>2 DEF ScreenInv, Drawn
      <4>2. Window(h.records) /\ Steady(h.records)
        BY <3>1, <3>4, <4>1 DEF NewlyListed
      <4>3. h.records.lines \in {0, rows}
        BY <3>2 DEF ScreenInv
      <4>4. h.records.selected \in Int /\ h.records.offset \in Nat
        BY <2>2 DEF Sound, Shape, ScrollSet
      <4>5. h.records.selected < h.records.offset + rows
        <5>1. CASE h.records.lines = 0
          BY <2>3, <4>2, <4>4, <5>1 DEF Steady
        <5>2. CASE h.records.lines # 0
          BY <2>3, <4>2, <4>3, <4>4, <5>2 DEF Window
        <5> QED BY <5>1, <5>2
      <4>6. selector_current(sel') = selector_current(h)
        BY <2>1, <2>2, <2>3, <4>5, RedrawKeepsCurrent
      <4> QED BY <3>2, <3>4, <4>6
    <3> QED BY <2>3, <3>3, <3>4
  <2> QED BY <2>1, <2>4, <2>5 DEF Key
<1> QED BY <1>4, <1>5, EventIs DEF SelectorInv

(* A new list is shown at the record the user looked at last, if it has    *)
(* it, and forgets it on no event (selector.c:164-193): under the same     *)
(* conditions on windows.                                                  *)
THEOREM TargetIsFollowed ==
    ASSUME Roomy, ShowsCrates
    PROVE  Spec => FollowsTarget
<1>1. Init => SelectorInv /\ ScreenInv
  BY SelectorInitially
<1>2. SelectorInv /\ ScreenInv /\ [Next]_vars => SelectorInv' /\ ScreenInv'
  BY SelectorInductive, ScreenInductive
<1>3. SelectorInv /\ ScreenInv /\ [Next]_vars =>
        [NewList =>
         /\ sel'.target = (IF sel'.sort = sel.sort THEN sel ELSE set_target(sel)).target
         /\ sel'.target \in ToSet(sel'.view) => selector_current(sel') = sel'.target]_vars
  BY FollowsStep
<1> QED BY <1>1, <1>2, <1>3, PTL DEF Spec, FollowsTarget
=============================================================================
