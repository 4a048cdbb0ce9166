-------------------------------- MODULE Library --------------------------------
(* The library of records (library.c): every record of the scans in the crate of
   all records, and for each scanned directory a crate named after it. The main
   function imports one directory after the other, before any other thread runs;
   a failure ends the program (xwax.c), but a crate is complete and in order after
   every line of the scan, and library_clear depends on who owns which record.

   A record is an object of its own, with the identity "id": two lines of the same
   track give two objects that compare equal. *)
EXTENDS Listing

CONSTANTS
    Name,        \* the names of directories, numbers in the order of strcmp
    ALL,         \* CRATE_ALL, a name a directory may have too
    Track,       \* what the lines of the scans say: [key, bpm, texts]
    MaxRecords,  \* bound on the records read, over all the scans
    MaxImports   \* bound on the directories scanned

\* The record allocated for a line of a scan, when i were before.
record(i, t) == [id |-> i, key |-> t.key, bpm |-> t.bpm, texts |-> t.texts]

ASSUME LibraryAssumption ==
    /\ Name \subseteq Nat /\ ALL \in Nat
    /\ MaxRecords \in Nat /\ MaxImports \in Nat
    /\ \A i \in 0..(MaxRecords - 1), t \in Track : record(i, t) \in Records

VARIABLES
    crate,      \* lib->crate: the names of the crates in their order
    contents,   \* the listings of each crate
    scan,       \* the crate of the running import, or NONE
    imports,    \* the imports begun
    read,       \* the records allocated so far
    freed,      \* the records freed
    outcome     \* how the program stands

libraryVars == <<crate, contents, scan, imports, read, freed, outcome>>

NONE == -1
NoContents == [by_artist |-> <<>>, by_bpm |-> <<>>, by_order |-> <<>>]

\* crate_cmp: the fixed crate first, then by name. Names do not repeat.
CrateBefore(a, b) == a = ALL \/ (b # ALL /\ a < b)

\* use_crate, of a name that may be the name of the fixed crate. The table is put in
\* order after each crate: the others were, and a new one goes after those before it.
use_crate(name) ==
    IF name \in ToSet(crate)
    THEN UNCHANGED <<crate, contents>>
    ELSE /\ LET before == {i \in 1..Len(crate) : CrateBefore(crate[i], name)}
            IN crate' = InsertAt(crate, Cardinality(before) + 1, name)
         /\ contents' = [n \in ToSet(crate) \cup {name} |->
                           IF n = name THEN NoContents ELSE contents[n]]

\* Mutant: the new record is returned where an equal one was there.
crate_add_ReturnsNew(c, r) ==
    LET artist == listing_insert(c.by_artist, r, SORT_ARTIST)
        bpm == listing_insert(c.by_bpm, r, SORT_BPM)
    IN [entry |-> r, ok |-> TRUE,
        crate |-> IF artist.entry # r THEN c
                  ELSE [by_artist |-> artist.listing, by_bpm |-> bpm.listing,
                        by_order |-> Append(c.by_order, r)]]

\* crate_add where the memory lasts: the entry in use, what the crate holds then
\* and whether its assertion (library.c:113) held.
crate_add(c, r) ==
    LET artist == listing_insert(c.by_artist, r, SORT_ARTIST)
        bpm == listing_insert(c.by_bpm, r, SORT_BPM)
    IN IF artist.entry # r
       THEN [entry |-> artist.entry, crate |-> c, ok |-> TRUE]
       ELSE [entry |-> r, ok |-> bpm.entry = r,
             crate |-> [by_artist |-> artist.listing, by_bpm |-> bpm.listing,
                        by_order |-> Append(c.by_order, r)]]

----------------------------------------------------------------------------
\* library_init
LibraryInit ==
    /\ crate = <<ALL>> /\ contents = [n \in {ALL} |-> NoContents]
    /\ scan = NONE /\ imports = 0
    /\ read = 0 /\ freed = {} /\ outcome = "running"

\* library_import as far as its loop: the crate is there and the scan runs.
Begin ==
    /\ scan = NONE /\ outcome = "running" /\ imports < MaxImports
    /\ \E name \in Name : scan' = name /\ use_crate(name)
    /\ imports' = imports + 1
    /\ UNCHANGED <<read, freed, outcome>>

\* One record of the scan goes into the crate of all, where an existing entry is
\* used instead of it, and then into the user's crate.
Record ==
    /\ scan # NONE /\ outcome = "running" /\ read < MaxRecords
    /\ \E t \in Track :
         LET d == record(read, t)
             all == crate_add(contents[ALL], d)
             added == [contents EXCEPT ![ALL] = all.crate]
             own == crate_add(added[scan], all.entry)
         IN /\ freed' = IF all.entry = d THEN freed ELSE freed \cup {d}
            /\ contents' = [added EXCEPT ![scan] = own.crate]
            /\ outcome' = IF all.ok /\ own.ok THEN outcome ELSE "aborted"
    /\ read' = read + 1
    /\ UNCHANGED <<crate, scan, imports>>

\* The scan ends well.
Done ==
    /\ scan # NONE /\ outcome = "running"
    /\ scan' = NONE
    /\ UNCHANGED <<crate, contents, imports, read, freed, outcome>>

\* It ends badly: fork, a malformed record, memory, or the status of the child.
Fail ==
    /\ scan # NONE /\ outcome = "running"
    /\ scan' = NONE /\ outcome' = "failed"
    /\ UNCHANGED <<crate, contents, imports, read, freed>>

LibraryNext == Begin \/ Record \/ Done \/ Fail

LibrarySpec == LibraryInit /\ [][LibraryNext]_libraryVars

----------------------------------------------------------------------------
(* Properties *)

\* The three listings of a crate hold the same records, two of them in order and
\* without equals, at every moment: the binary search they are found by
\* (listing.c:273-312) needs it, and so the assertion of crate_add, that an entry
\* new to the first is new to the second (library.c:113), does not fail.
IndexesAgree ==
    /\ outcome # "aborted"
    /\ DOMAIN contents = ToSet(crate)
    /\ \A n \in DOMAIN contents : Crate(contents[n])

\* The crate that is first in the table, from whose listing library_clear frees the
\* records (library.c:263-269), owns every record that was read and not freed as one
\* there was already (library.c:505-509), each once; and no crate lists a record
\* that it does not own.
RecordsAreOwned ==
    LET owned == ToSet(contents[crate[1]].by_artist)
    IN /\ Cardinality(owned) + Cardinality(freed) = read /\ owned \cap freed = {}
       /\ \A n \in DOMAIN contents : ToSet(contents[n].by_order) \subseteq owned

\* CHANGES:57 promises "Filtering of duplicate entries in the record library":
\* the crate of all the records lists each of them once.
NoDuplicates == IsInjective(contents[ALL].by_order)
=============================================================================
