-------------------------------- MODULE Scroll --------------------------------
(* A scrolling window (selector.c:27-158): "lines" lines on the screen, the
   first of which shows the entry "offset", over a list of "entries" entries of
   which one is selected. Each operator is the window the function leaves. *)
EXTENDS Integers

AtLeastZero(i) == IF i < 0 THEN 0 ELSE i

scroll_reset == [lines |-> 0, offset |-> 0, entries |-> 0, selected |-> -1]

\* The window is moved back where it would show lines past the end of the list.
FillWindow(s) ==
    IF s.offset + s.lines > s.entries
    THEN [s EXCEPT !.offset = AtLeastZero(s.entries - s.lines)] ELSE s

\* Mutant: the selection stays where the screen no longer reaches.
scroll_set_lines_SelectionStays(s, lines) == FillWindow([s EXCEPT !.lines = lines])

scroll_set_lines(s, lines) ==
    FillWindow([s EXCEPT !.lines = lines,
                         !.selected = IF @ >= s.offset + lines
                                      THEN s.offset + lines - 1 ELSE @])

scroll_set_entries(s, entries) ==
    LET t == FillWindow([s EXCEPT !.entries = entries,
                                  !.selected = IF @ >= entries
                                               THEN entries - 1 ELSE @])
    IN [t EXCEPT !.selected = AtLeastZero(@)]

scroll_up(s, n) ==
    LET selected == AtLeastZero(s.selected - n)
    IN [s EXCEPT !.selected = selected,
                 !.offset = IF selected < @
                            THEN AtLeastZero(selected - s.lines \div 2 + 1)
                            ELSE @]

scroll_down(s, n) ==
    LET selected == IF s.selected + n >= s.entries
                    THEN s.entries - 1 ELSE s.selected + n
        offset == selected - s.lines \div 2
    IN [s EXCEPT !.selected = selected,
                 !.offset = IF selected < @ + s.lines THEN @
                            ELSE IF offset + s.lines > s.entries
                                 THEN s.entries - s.lines ELSE offset]

scroll_first(s) == [s EXCEPT !.selected = 0, !.offset = 0]

scroll_last(s) ==
    [s EXCEPT !.selected = s.entries - 1,
              !.offset = AtLeastZero(s.entries - s.lines)]

\* The assertions of scroll_to (selector.c:134-135), and what it does after them.
ScrollAsserts(s, n) == s.selected # -1 /\ n \in 0..(s.entries - 1)

scroll_to(s, n) ==
    [s EXCEPT !.selected = n, !.offset = AtLeastZero(n - (s.selected - s.offset))]

scroll_current(s) == IF s.entries = 0 THEN -1 ELSE s.selected
=============================================================================
