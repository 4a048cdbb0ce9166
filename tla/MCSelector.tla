------------------------------ MODULE MCSelector ------------------------------
(* Selector with five records, of two crates and the crate of all: the titles
   share letters, two tempos are the same and one is not known, and a playlist
   has its own order. *)
EXTENDS Selector

Song(k, b, t) == [key |-> k, bpm |-> b, texts |-> t]

one == Song(1, 120, {<<"a">>, <<"b">>})
two == Song(2, 0, {<<"a", "b">>})
three == Song(3, 120, {<<"b", "a">>})
four == Song(4, 140, {<<"b">>, <<"b", "b">>})

five == Song(5, 90, {<<"a">>})

Kept(artist, bpm, order) == [by_artist |-> artist, by_bpm |-> bpm, by_order |-> order]

MCCrates ==
    << Kept(<<one, two, three, four, five>>, <<four, one, three, five, two>>,
            <<two, four, one, five, three>>),
       Kept(<<one, three>>, <<one, three>>, <<three, one>>),
       Kept(<<two, three, four>>, <<four, three, two>>, <<four, three, two>>) >>
MCRecords == {one, two, three, four, five}
MCLetter == {"a", "b"}
Unbounded == {9}
Failing == {1, 9}
=============================================================================
