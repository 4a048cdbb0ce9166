--------------------------------- MODULE Dicer ---------------------------------
(* A pair of Novation Dicers (dicer.c): buttons with an LED each, which operate the
   cue points of a deck for each side. The realtime thread handles the controller
   when poll returns (controller.c:72-84): it reads the events, and tops up a
   buffer of MIDI commands with those of each LED that is out of date, of which
   the hardware takes as much as it will.

   An LED has its commands for every mode in one piece of PARTS parts; what is
   written may end anywhere, and what is left of it after less than half was taken
   is cut (dicer.c:264). The hardware, external, shows what the last whole command
   for an LED said. Of the deck only its cue points are here, of which
   the controller is the only operator, as dicer.c:297 assumes. *)
EXTENDS Integers, Sequences, FiniteSets, SequencesExt

CONSTANTS
    NBUTTONS,   \* of a side
    Assigned,   \* the sides that have a deck
    PARTS,      \* the parts of an LED's commands
    OBUF        \* how many parts the buffer holds

ASSUME DicerAssumption ==
    /\ NBUTTONS \in Nat \ {0} /\ PARTS \in Nat \ {0} /\ OBUF \in Nat
    /\ Assigned \subseteq {"left", "right"}

VARIABLES
    led,      \* the LEDs in memory: [on, pressed, synced]
    cue,      \* the LEDs whose cue point is set
    obuf,     \* the commands that wait to be written
    fault,    \* the controller is disabled
    cut,      \* ghost: some of what waits was left behind by a memmove
    shown,    \* external: what each LED of the hardware shows, or NONE at first
    midi      \* external: the parts of a command that is not whole yet

vars == <<led, cue, obuf, fault, cut, shown, midi>>

Led == 1..(2 * NBUTTONS)
Side(l) == IF l <= NBUTTONS THEN "left" ELSE "right"
NONE == [on |-> FALSE, pressed |-> FALSE, known |-> FALSE]

Event == [led : Led, action : {"CUE", "LOOP", "ROLL"}, shift : BOOLEAN, on : BOOLEAN]

----------------------------------------------------------------------------
(* Events *)

\* Mutant: an LED that changes keeps its flag.
set_led_KeepsSynced(led_t, new) == new

\* set_led: an LED whose flags change is to be synced.
set_led(led_t, new) ==
    IF new = led_t THEN led_t ELSE [new EXCEPT !.synced = FALSE]

\* event and event_decoded: the LED follows the button, and is on while its cue
\* point is set. deck_cue and deck_punch_in set one that was not.
event_decoded(s, e) ==
    LET sets == e.on /\ ~e.shift /\ e.action \in {"CUE", "LOOP"}
        unsets == e.on /\ e.shift
        new == [s.led[e.led] EXCEPT !.pressed = e.on,
                                    !.on = (@ \/ sets) /\ ~unsets]
    IN IF Side(e.led) \notin Assigned THEN s
       ELSE [led |-> [s.led EXCEPT ![e.led] = set_led(@, new)],
             cue |-> CASE sets -> s.cue \cup {e.led}
                       [] unsets -> s.cue \ {e.led}
                       [] OTHER -> s.cue]

----------------------------------------------------------------------------
(* Synchronising the LEDs *)

led_cmd(l, flags, p) ==
    [led |-> l, on |-> flags.on, pressed |-> flags.pressed, part |-> p]

\* Mutant: commands that fill the buffer are held back.
NowSynced_NotFull(leds, room) ==
    LET stale(l) == {m \in 1..l : ~leds[m].synced}
    IN {l \in Led : ~leds[l].synced /\ PARTS * Cardinality(stale(l)) < room}

\* sync_one_dicer for either side in turn: of the LEDs that are out of date the
\* first ones have room for their commands, and of the others nothing stays.
NowSynced(leds, room) ==
    LET stale(l) == {m \in 1..l : ~leds[m].synced}
    IN {l \in Led : ~leds[l].synced /\ PARTS * Cardinality(stale(l)) <= room}

\* These LEDs as they come.
InOrder(now) ==
    [i \in 1..Cardinality(now) |-> CHOOSE l \in now : Cardinality(now \cap (1..l)) = i]

Commands(leds, now) ==
    LET order == InOrder(now)
        of(i) == order[(i - 1) \div PARTS + 1]
    IN [i \in 1..(PARTS * Cardinality(now)) |->
          led_cmd(of(i), leds[of(i)], ((i - 1) % PARTS) + 1)]

TopUp(leds, buf) ==
    LET now == NowSynced(leds, OBUF - Len(buf))
    IN [led |-> [l \in Led |-> [leds[l] EXCEPT !.synced = @ \/ l \in now]],
        obuf |-> buf \o Commands(leds, now)]

\* Mutant: what is left is not moved.
Taken_NotMoved(buf, z) == SubSeq(buf, 1, Len(buf) - z)

\* The memmove of what is left after z parts were taken (dicer.c:263-266): it moves
\* z of them, however many there are.
Taken(buf, z) ==
    [i \in 1..(Len(buf) - z) |-> IF i <= z THEN buf[i + z] ELSE buf[i]]

MovesTooFew(buf, z) == z > 0 /\ z < Len(buf) - z


\* The hardware's side: a command whose parts follow each other is shown, the last
\* one for an LED in the end; the beginning of another one is kept.
Shows(stream, i) ==
    /\ i >= PARTS
    /\ \A p \in 1..PARTS : stream[i - PARTS + p] = [stream[i] EXCEPT !.part = p]

Show(stream, l) ==
    LET for == {i \in 1..Len(stream) : stream[i].led = l /\ Shows(stream, i)}
        c == stream[CHOOSE i \in for : \A k \in for : k <= i]
    IN IF for = {} THEN shown[l]
       ELSE [on |-> c.on, pressed |-> c.pressed, known |-> TRUE]

Rest(stream) ==
    LET from(k) == SubSeq(stream, Len(stream) - k + 1, Len(stream))
        begun == {k \in 1..(PARTS - 1) :
                    /\ k <= Len(stream)
                    /\ \A p \in 1..k : from(k)[p] = [Last(stream) EXCEPT !.part = p]}
    IN IF begun = {} THEN <<>> ELSE from(CHOOSE k \in begun : \A m \in begun : m <= k)

\* midi_write: how much the hardware takes; none, too, on an error (dicer.c:260).
Accepted(n) == 0..n

----------------------------------------------------------------------------
\* dicer_init
Init ==
    /\ led = [l \in Led |-> [on |-> FALSE, pressed |-> FALSE, synced |-> FALSE]]
    /\ cue = {} /\ obuf = <<>> /\ fault = FALSE /\ cut = FALSE
    /\ shown = [l \in Led |-> NONE] /\ midi = <<>>

\* realtime (dicer.c:423-446), in its steps: an event that midi_read returned,
Read ==
    /\ ~fault
    /\ \E e \in Event :
         LET read == event_decoded([led |-> led, cue |-> cue], e)
         IN led' = read.led /\ cue' = read.cue
    /\ UNCHANGED <<obuf, fault, cut, shown, midi>>

\* its error, which disables the controller (controller.c:80-83),
ReadError ==
    /\ ~fault /\ fault' = TRUE
    /\ UNCHANGED <<led, cue, obuf, cut, shown, midi>>

\* and sync_all_leds when there are no more events, of which n parts are taken.
Take(full, n) ==
    \E stream \in {midi \o SubSeq(full.obuf, 1, n)} :
        /\ ~fault
        /\ led' = full.led /\ obuf' = Taken(full.obuf, n)
        /\ cut' = (cut \/ MovesTooFew(full.obuf, n))
        /\ midi' = Rest(stream) /\ shown' = [l \in Led |-> Show(stream, l)]
        /\ UNCHANGED <<cue, fault>>

SyncLeds ==
    \E full \in {TopUp(led, obuf)} :
        \E n \in Accepted(Len(full.obuf)) : Take(full, n)

\* The hardware takes all there is.
Flush == \E full \in {TopUp(led, obuf)} : Take(full, Len(full.obuf))

Next == Read \/ ReadError \/ SyncLeds

\* The poll of the realtime thread returns for the audio, too, and in the end the
\* hardware takes what it is given.
Spec == Init /\ [][Next]_vars /\ WF_vars(Flush)

----------------------------------------------------------------------------
(* Properties *)

\* "Write a MIDI command sequence to sync all hardware LEDs with the state held in
\* memory" (dicer.c:225-226): once nothing waits to be written, an LED that counts
\* as synced shows whether its button is pressed, and is on if its cue point is set.
\* Not so once a write took some of the buffer but less than half of it.
LedsShowMemory ==
    obuf = <<>> =>
        \A l \in Led : led[l].synced =>
            shown[l] = [on |-> l \in cue, pressed |-> led[l].pressed, known |-> TRUE]

\* Until a memmove left something behind (dicer.c:264), they do: through any order of
\* the buttons and their modes (dicer.c:306-325), errors, and writes that end in the
\* middle of a command.
SyncedIsShown == ~cut => LedsShowMemory

\* The buffer never holds more than it can. Until a memmove left something behind,
\* the commands that wait follow on from what the hardware has taken, each whole and
\* in order: none of its parts is lost or sent twice.
CommandsAreWhole ==
    /\ Len(obuf) <= OBUF
    /\ ~cut => \A i \in 1..Len(obuf) :
        LET part == IF i > 1 THEN obuf[i - 1].part % PARTS ELSE Len(midi)
        IN obuf[i].part = part + 1

\* An LED that is out of date is brought up to date, whatever buttons are pressed
\* meanwhile, if the buffer has the room of all the LEDs, as it has (dicer.c:65).
LedsSettle == \A l \in Led : ~led[l].synced ~> led[l].synced \/ fault
=============================================================================
