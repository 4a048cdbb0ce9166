------------------------------- MODULE Listing -------------------------------
(* The listings of the music library (listing.c): sequences of records in the
   order of the artist, of the tempo or of the playlist.

   A record is a TLA+ record with the fields
     key    its rank in the order of record_cmp_artist, which compares the
            artist, the title and the path name;
     bpm    its tempo, 0 where it is not known;
     texts  its artist and its title, sequences of letters.
   Nothing here is a state machine: Selector and Library use these operators. *)
EXTENDS Integers, Sequences, FiniteSets, SequencesExt

CONSTANTS
    MAX_WORDS,   \* listing.c:30, one more than the words of a search
    Letter,      \* the characters of texts and searches, but the separator
    Records      \* the records there are

SORT_ARTIST == 0
SORT_BPM == 1
SORT_PLAYLIST == 2
SORT_END == 3

SEPARATOR == " "
Character == Letter \cup {SEPARATOR}

ASSUME ListingAssumption ==
    /\ MAX_WORDS \in Nat /\ MAX_WORDS > 1
    /\ \A r \in Records :
          /\ r.key \in Int /\ r.bpm \in Int
          /\ r.texts \in SUBSET Seq(Character) /\ r.texts # {}

Sign(d) == IF d < 0 THEN -1 ELSE IF d > 0 THEN 1 ELSE 0

record_cmp_artist(a, b) == Sign(a.key - b.key)

\* Fastest to slowest, followed by the unknown.
record_cmp_bpm(a, b) ==
    IF a.bpm = b.bpm THEN record_cmp_artist(a, b) ELSE Sign(b.bpm - a.bpm)

Compare(a, b, sort) ==
    IF sort = SORT_ARTIST THEN record_cmp_artist(a, b) ELSE record_cmp_bpm(a, b)

\* "Pre: base is sorted" (listing.c:269), without records that are equal.
Sorted(ls, sort) ==
    \A i, j \in 1..Len(ls) : i < j => Compare(ls[i], ls[j], sort) < 0

\* struct crate: the same records three times, twice in order.
Crate(c) ==
    /\ c \in [by_artist : Seq(Records), by_bpm : Seq(Records), by_order : Seq(Records)]
    /\ Sorted(c.by_artist, SORT_ARTIST) /\ Sorted(c.by_bpm, SORT_BPM)
    /\ ToSet(c.by_artist) = ToSet(c.by_bpm) /\ ToSet(c.by_artist) = ToSet(c.by_order)

\* bin_search of a listing, an item and an order: the position of the item,
\* counted from 0, or of the first entry ordered after it; "found" on an exact match.
bin_search[w \in Seq(Records) \X Records \X {SORT_ARTIST, SORT_BPM}] ==
    LET ls == w[1]
        mid == Len(ls) \div 2
        r == Compare(w[2], ls[mid + 1], w[3])
        rest == bin_search[<<SubSeq(ls, mid + 2, Len(ls)), w[2], w[3]>>]
    IN IF ls = <<>> THEN [pos |-> 0, found |-> FALSE]
       ELSE IF r < 0 THEN bin_search[<<SubSeq(ls, 1, mid), w[2], w[3]>>]
       ELSE IF r > 0 THEN [pos |-> mid + 1 + rest.pos, found |-> rest.found]
       ELSE [pos |-> mid, found |-> TRUE]

listing_find(ls, item, sort) == bin_search[<<ls, item, sort>>].pos

\* Mutant: the record goes after the first one ordered after it.
listing_insert_After(ls, item, sort) ==
    LET z == bin_search[<<ls, item, sort>>]
        n == IF z.pos < Len(ls) THEN z.pos + 1 ELSE z.pos
    IN IF z.found
       THEN [entry |-> ls[z.pos + 1], listing |-> ls]
       ELSE [entry |-> item, listing |-> InsertAt(ls, n + 1, item)]

\* listing_insert where the memory lasts: the entry in use, and the listing.
listing_insert(ls, item, sort) ==
    LET z == bin_search[<<ls, item, sort>>]
    IN IF z.found
       THEN [entry |-> ls[z.pos + 1], listing |-> ls]
       ELSE [entry |-> item, listing |-> InsertAt(ls, z.pos + 1, item)]

----------------------------------------------------------------------------
(* Matching *)

\* The words of a search are its pieces between separators, as many as the array
\* of MAX_WORDS pointers has room for beside its terminator.
Words(match) ==
    LET ends == {0, Len(match) + 1}
                  \cup {i \in 1..Len(match) : match[i] = SEPARATOR}
        adjacent == {e \in ends \X ends :
                       e[1] < e[2] /\ \A k \in ends : k <= e[1] \/ e[2] <= k}
    IN {SubSeq(match, e[1] + 1, e[2] - 1) :
          e \in {d \in adjacent : Cardinality(ends \cap 0..d[1]) < MAX_WORDS}}

\* strcasestr
Occurs(word, text) ==
    \E i \in 1..(Len(text) - Len(word) + 1) :
        SubSeq(text, i, i + Len(word) - 1) = word

record_match(re, word) == \E text \in re.texts : Occurs(word, text)

\* The records of a listing that are in a set, in its order: the loops that copy.
subset[w \in Seq(Records) \X SUBSET Records] ==
    LET src == w[1]
        before == subset[<<Front(src), w[2]>>]
    IN IF src = <<>> THEN <<>>
       ELSE IF Last(src) \in w[2] THEN Append(before, Last(src)) ELSE before

\* listing_match where the memory lasts: the subset of the listing that matches
\* every word, in its order.
listing_match(src, match) ==
    LET words == Words(match)
        record_match_all(re) == \A w \in words : record_match(re, w)
    IN subset[<<src, {re \in ToSet(src) : record_match_all(re)}>>]
=============================================================================
