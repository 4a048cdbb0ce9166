------------------------------- MODULE Selector -------------------------------
(* The record selector (selector.c) and the keys that drive it (interface.c):
   a list of crates, a list of the records of the selected crate that match the
   search, and the record the user last looked at, which the selection follows
   from one list to the next.

   The main thread does one event at a time: the handler of a key, or a resize
   of the window, and then a redraw, which tells the selector how many lines of
   the lists are on the screen -- unless the window leaves the library too small
   an area, in which case its redraw is abandoned (interface.c:1619-1625).

   The library does not change once the interface runs. A copy of a listing
   that fails for want of memory leaves the part it had got to. *)
EXTENDS Listing, Scroll

CONSTANTS
    Crates,        \* the crates in their order, as the library leaves them;
                   \* the first is the crate of all the records
    SEARCH_SIZE,   \* sizeof(search), selector.h:53
    Rows,          \* the numbers of lines a window has room for
    StartRows,     \* those of the window the program starts with
    Room           \* how many records a copy may get to before memory fails

NULL == [key |-> 0]
TOO_SMALL == 0     \* the library has no area of its own

ASSUME SelectorAssumption ==
    /\ Len(Crates) \in Nat \ {0} /\ SEARCH_SIZE \in Nat \ {0}
    /\ \A c \in 1..Len(Crates) :
          Crate(Crates[c]) /\ ToSet(Crates[c].by_order) \subseteq ToSet(Crates[1].by_order)
    /\ Rows \subseteq Nat /\ StartRows \subseteq Nat /\ Room \subseteq Nat
    /\ NULL \notin Records

VARIABLES
    sel,    \* struct selector; history: "whole" while the list is no failed copy
    rows    \* the lines that fit in the window

vars == <<sel, rows>>

\* A listing as far as memory lasts for n records of it.
Cut(ls, n) == SubSeq(ls, 1, IF n < Len(ls) THEN n ELSE Len(ls))

\* The listing of the selected crate in the selected order.
initial(s) ==
    LET c == Crates[s.crates.selected + 1]
    IN IF s.sort = SORT_ARTIST THEN c.by_artist
       ELSE IF s.sort = SORT_BPM THEN c.by_bpm ELSE c.by_order

selector_init(room) ==
    LET s == [crates |-> scroll_set_entries(scroll_reset, Len(Crates)),
              records |-> scroll_reset, view |-> <<>>, search |-> <<>>,
              sort |-> SORT_ARTIST, target |-> NULL,
              toggled |-> FALSE, toggle_back |-> 0, whole |-> TRUE]
        view == Cut(initial(s), room)
    IN [s EXCEPT !.view = view, !.records = scroll_set_entries(@, Len(view)),
                 !.whole = view = initial(s)]

selector_set_lines(s, lines) ==
    [s EXCEPT !.crates = scroll_set_lines(@, lines),
              !.records = scroll_set_lines(@, lines)]

selector_current(s) ==
    IF scroll_current(s.records) = -1 THEN NULL
    ELSE s.view[s.records.selected + 1]

set_target(s) ==
    IF selector_current(s) = NULL THEN s
    ELSE [s EXCEPT !.target = selector_current(s)]

\* Mutant: the order of the artists is searched whatever the order of the list.
retain_position_ByArtist(s) ==
    LET n == listing_find(s.view, s.target, SORT_ARTIST)
    IN IF s.target = NULL \/ n >= Len(s.view) THEN s
       ELSE [s EXCEPT !.records = scroll_to(@, n)]

\* The selection moves to the target; listing_find gives the place it would
\* have, and the linear search of a playlist its length, where it is absent.
retain_position(s) ==
    LET places == {n \in 1..Len(s.view) : s.view[n] = s.target}
        n == IF s.sort # SORT_PLAYLIST THEN listing_find(s.view, s.target, s.sort)
             ELSE IF places = {} THEN Len(s.view)
             ELSE (CHOOSE p \in places : \A q \in places : p <= q) - 1
    IN IF s.target = NULL \/ n >= Len(s.view) THEN s
       ELSE [s EXCEPT !.records = scroll_to(@, n)]

crate_has_changed(s, room) ==
    LET match == listing_match(initial(s), s.search)
        view == Cut(match, room)
    IN retain_position([s EXCEPT !.whole = view = match,
          !.view = view, !.records = scroll_set_entries(@, Len(view))])

selector_prev(s, room) ==
    crate_has_changed(
        [s EXCEPT !.crates = scroll_up(@, 1), !.toggled = FALSE], room)

\* Mutant: the crate is left while the toggle is still held.
selector_next_KeepsToggle(s, room) ==
    crate_has_changed([s EXCEPT !.crates = scroll_down(@, 1)], room)

selector_next(s, room) ==
    crate_has_changed(
        [s EXCEPT !.crates = scroll_down(@, 1), !.toggled = FALSE], room)

selector_toggle(s, room) ==
    crate_has_changed(
        IF s.toggled
        THEN [s EXCEPT !.crates = scroll_to(@, s.toggle_back), !.toggled = FALSE]
        ELSE [s EXCEPT !.crates = scroll_first(@), !.toggled = TRUE,
                       !.toggle_back = scroll_current(s.crates)], room)

selector_toggle_order(s, room) ==
    crate_has_changed([set_target(s) EXCEPT !.sort = (@ + 1) % SORT_END], room)

\* Mutant: a shorter search, too, only looks at the records of the view.
selector_search_expand_OfView(s, room) ==
    IF s.search = <<>> THEN s
    ELSE LET view == Cut(listing_match(s.view, Front(s.search)), room)
         IN retain_position([s EXCEPT !.search = Front(@), !.view = view,
                               !.records = scroll_set_entries(@, Len(view))])

selector_search_expand(s, room) ==
    IF s.search = <<>> THEN s
    ELSE crate_has_changed([s EXCEPT !.search = Front(@)], room)

\* A longer search can only match fewer records: those of the view are searched.
selector_search_refine(s, key, room) ==
    LET search == Append(s.search, key)
        match == listing_match(s.view, search)
        view == Cut(match, room)
    IN IF Len(s.search) >= SEARCH_SIZE - 1 THEN s
       ELSE set_target([s EXCEPT !.search = search, !.view = view,
                            !.whole = @ /\ view = match,
                            !.records = scroll_set_entries(@, Len(view))])

----------------------------------------------------------------------------
(* The events *)

\* draw_library, where the main loop calls it.
Redraw(s, r) == IF r = TOO_SMALL THEN s ELSE selector_set_lines(s, r)

Init ==
    /\ sel \in {selector_init(room) : room \in Room}
    /\ rows \in StartRows

Handle(s) == sel' = Redraw(s, rows) /\ UNCHANGED rows

\* The keys that move the selection, and then note the target (selector.c:283-322).
Move(scrolled) == Handle(set_target([sel EXCEPT !.records = scrolled]))

Up == Move(scroll_up(sel.records, 1))
Down == Move(scroll_down(sel.records, 1))
PageUp == Move(scroll_up(sel.records, sel.records.lines))
PageDown == Move(scroll_down(sel.records, sel.records.lines))
Home == Move(scroll_first(sel.records))
End == Move(scroll_last(sel.records))

Left == \E room \in Room : Handle(selector_prev(sel, room))
Right == \E room \in Room : Handle(selector_next(sel, room))
Tab == \E room \in Room : Handle(selector_toggle(sel, room))
CtrlTab == \E room \in Room : Handle(selector_toggle_order(sel, room))
Backspace == \E room \in Room : Handle(selector_search_expand(sel, room))
Type == \E room \in Room, key \in Character :
            Handle(selector_search_refine(sel, key, room))

Resize ==
    \E r \in Rows : rows' = r /\ sel' = Redraw(sel, r)

Next == \/ Up \/ Down \/ PageUp \/ PageDown \/ Home \/ End
        \/ Left \/ Right \/ Tab \/ CtrlTab \/ Backspace \/ Type \/ Resize

Spec == Init /\ [][Next]_vars

----------------------------------------------------------------------------
(* Properties *)

ScrollType(s, n) ==
    /\ s.lines \in Nat /\ s.offset \in Nat /\ s.entries = n
    /\ s.selected \in -1..n

\* The selector is made of what its types say, and the window of each list is
\* over the list the selector shows.
TypeOK ==
    /\ ScrollType(sel.crates, Len(Crates))
    /\ ScrollType(sel.records, Len(sel.view))
    /\ Len(sel.search) < SEARCH_SIZE
    /\ sel.sort \in 0..(SORT_END - 1)
    /\ sel.target \in ToSet(Crates[1].by_order) \cup {NULL}
    /\ sel.toggled \in BOOLEAN /\ sel.whole \in BOOLEAN

\* The list on the screen is the whole of what the crate holds for the search, in
\* the selected order, although each character typed only searches the list left by
\* the one before it (selector.c:395-413). Where memory failed since the list was
\* last made, it is the beginning of that: "on failure, dest is valid but
\* incomplete" (listing.c:214).
ViewIsTheMatch ==
    LET match == listing_match(initial(sel), sel.search)
    IN IsPrefix(sel.view, match) /\ (sel.whole => sel.view = match)

OnScreen(s) ==
    /\ s.selected \in 0..(s.entries - 1) /\ s.offset >= 0
    /\ s.selected \in s.offset..(s.offset + s.lines - 1)

\* Once the lists have been drawn the selected crate, and the selected record of
\* a list that has one, exist and are among the lines of the screen.
SelectionOnScreen ==
    sel.crates.lines > 0 =>
        /\ OnScreen(sel.crates)
        /\ Len(sel.view) > 0 /\ sel.records.selected # -1 => OnScreen(sel.records)

\* While the user is away on the crate of all records by the Tab key, that is the
\* crate on the screen, and there is a crate to come back to: the assertion of
\* scroll_to (selector.c:135) will hold.
ToggleComesBack ==
    sel.toggled => /\ sel.crates.selected = 0
                   /\ ScrollAsserts(sel.crates, sel.toggle_back)

\* The user changed the crate or the order, or shortened the search.
NewList ==
    \/ <<sel.crates.selected, sel.sort>> # <<sel.crates.selected, sel.sort>>'
    \/ Len(sel'.search) < Len(sel.search)

\* A new list is shown at the record the user looked at last, if it is in it; and
\* a list which lacks it does not make the selector forget it.
FollowsTarget ==
    [][NewList =>
         /\ sel'.target = (IF sel'.sort = sel.sort THEN sel ELSE set_target(sel)).target
         /\ sel'.target \in ToSet(sel'.view) => selector_current(sel') = sel'.target]_vars

\* selector.c:161-162 says of retain_position: "Scroll to our target entry if it
\* can be found, otherwise leave our position unchanged". A list of the same length
\* or longer which lacks the target leaves the selection where it was.
PositionUnchanged ==
    [][NewList /\ sel'.target \notin ToSet(sel'.view) /\ Len(sel'.view) >= Len(sel.view)
         => sel'.records.selected = sel.records.selected]_vars
=============================================================================
