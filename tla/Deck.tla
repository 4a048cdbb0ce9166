-------------------------------- MODULE Deck --------------------------------
(***************************************************************************)
(* player.c, deck.c and cues.c: where a deck is in its track.  The thread  *)
(* which drives the audio device collects: the realtime thread or, for a   *)
(* device of JACK, a thread that calls back (jack.c:118).  The realtime    *)
(* thread takes the cue buttons of the controllers (dicer.c), in between   *)
(* the devices it drives; the interface thread recues, clones and switches *)
(* timecode control.  No thread takes a lock.                              *)
(*                                                                         *)
(* One load or store of a field of a player is one step.  A time is a      *)
(* whole number of some unit, counted modulo Wrap, which keeps every sum   *)
(* and every difference that the code makes.                               *)
(***************************************************************************)
EXTENDS Integers, FiniteSetsExt

CONSTANTS
    Players,
    Jack,           \* the decks whose device is of JACK
    Labels,         \* of the cue points that are used
    Cued,           \* the decks whose cue points a controller operates
    Keyed,          \* the decks whose function keys are pressed
    Protected,      \* the decks with `protect' set
    Wrap,           \* the number of different times
    Pitches,        \* 0, the record is still, or 1
    UNSET           \* HUGE_VAL: no cue, no punch, no target

ASSUME DeckAssumption ==
    /\ Jack \subseteq Players /\ Cued \subseteq Players
    /\ Keyed \subseteq Players /\ Protected \subseteq Players
    /\ Wrap \in Nat \ {0}
    /\ Pitches \subseteq 0 .. 1
    /\ UNSET \in Nat /\ UNSET >= Wrap

VARIABLES
    position, offset, target_position, pitch, timecode_control, recalibrate,
    cue,        \* deck->cues.position
    punch,
    audio,      \* where the thread that collects from each player is
    button,     \* where the realtime thread is with a button of a controller
    ui,         \* where the interface thread is
    elapsed,    \* where each deck ought to be in its track
    home,       \* where it would be if it had not been punched in
    raced       \* an operation of one thread ran into one of another

player == <<target_position, pitch, timecode_control, recalibrate>>
deck == <<cue, punch>>
ghosts == <<elapsed, home, raced>>
vars == <<position, offset, player, deck, audio, button, ui, ghosts>>

Times == 0 .. Wrap - 1
Plus(x, y) == (x + y) % Wrap
Minus(x, y) == (x - y) % Wrap

TypeOK ==
    /\ position \in [Players -> Times]
    /\ offset \in [Players -> Times]
    /\ target_position \in [Players -> Times \union {UNSET}]
    /\ pitch \in [Players -> 0 .. 1]
    /\ timecode_control \in [Players -> BOOLEAN]
    /\ recalibrate \in [Players -> BOOLEAN]
    /\ cue \in [Players -> [Labels -> Times \union {UNSET}]]
    /\ punch \in [Players -> Times \union {UNSET}]
    /\ elapsed \in [Players -> Times]
    /\ home \in [Players -> Times \union {UNSET}]
    /\ raced \in [Players -> BOOLEAN]

Init ==
    /\ position = [p \in Players |-> 0]
    /\ offset = [p \in Players |-> 0]
    /\ target_position = [p \in Players |-> UNSET]
    /\ pitch = [p \in Players |-> 0]
    /\ timecode_control = [p \in Players |-> TRUE]
    /\ recalibrate = [p \in Players |-> TRUE]
    /\ cue = [p \in Players |-> [l \in Labels |-> UNSET]]
    /\ punch = [p \in Players |-> UNSET]
    /\ audio = [p \in Players |-> [at |-> "poll"]]
    /\ button = [at |-> "idle"]
    /\ ui = [at |-> "idle"]
    /\ elapsed = [p \in Players |-> 0]
    /\ home = [p \in Players |-> UNSET]
    /\ raced = [p \in Players |-> FALSE]

player_get_elapsed(p) == Minus(position[p], offset[p])

(* The ghosts follow what is played, wherever it is.                       *)
Moved(p, n) ==
    /\ elapsed' = [elapsed EXCEPT ![p] = Plus(@, n)]
    /\ home' = [home EXCEPT ![p] = IF @ = UNSET THEN UNSET ELSE Plus(@, n)]

-----------------------------------------------------------------------------
(* The threads, and operations of two of them that meet.                   *)
In(p, place) == audio[p].at = place
Goes(p, place) == audio' = [audio EXCEPT ![p] = place]

(* JACK calls back for one deck after the other (jack.c:131), and so does  *)
(* the realtime thread handle controllers and devices (realtime.c:99).     *)
RealtimeIsFree ==
    button.at = "idle" /\ \A q \in Players \ Jack : In(q, "poll")

CallbackIsFree == \A q \in Jack : In(q, "poll")

(* The interface, and a button, are between the first load and the store   *)
(* of an operation that involves the player.                               *)
Busy(p) == ui.at \in {"from", "clone", "store"} /\ p \in {ui.pl, ui.from}
Pressed(p) == button.at \in {"in", "out", "seek", "store"} /\ button.pl = p

Calibrating(p) == audio[p].at \in {"offset", "position"}

SpoilsKey(p) == ui' = IF Busy(p) THEN [ui EXCEPT !.late = TRUE] ELSE ui
SpoilsButton(p) ==
    button' = IF Pressed(p) THEN [button EXCEPT !.late = TRUE] ELSE button

(* An elapsed time that has been loaded is not so any more.                *)
MovesOn(p) ==
    button' = IF Pressed(p) /\ button.at # "store" THEN [button EXCEPT !.late = TRUE]
                                                   ELSE button

-----------------------------------------------------------------------------
(* player_collect, by the thread that drives the device.                   *)
After(target) == [at |-> IF target = UNSET THEN "play" ELSE "retarget"]

(* sync_to_timecode: the timecoder has a position or has none, or the      *)
(* needle is outside the safe zone.                                        *)
Collect(p) ==
    /\ IF p \in Jack THEN CallbackIsFree ELSE RealtimeIsFree
    /\ \/ /\ timecode_control[p]
          /\ \E t \in Times \union {UNSET}, v \in Pitches :
                /\ target_position' = [target_position EXCEPT ![p] = t]
                /\ pitch' = [pitch EXCEPT ![p] = v]
                /\ Goes(p, After(t))
       \/ /\ timecode_control[p]
          /\ Goes(p, [at |-> "unsafe"])
          /\ UNCHANGED <<target_position, pitch>>
       \/ /\ ~timecode_control[p]
          /\ Goes(p, After(target_position[p]))
          /\ UNCHANGED <<target_position, pitch>>
    /\ UNCHANGED <<position, offset, recalibrate, timecode_control, deck, button,
                   ui, ghosts>>

LeaveTimecode(p) ==
    /\ In(p, "unsafe")
    /\ timecode_control' = [timecode_control EXCEPT ![p] = FALSE]
    /\ Goes(p, After(target_position[p]))
    /\ UNCHANGED <<position, offset, target_position, pitch, recalibrate, deck,
                   button, ui, ghosts>>

Retarget(p) ==
    /\ In(p, "retarget")
    /\ Goes(p, IF recalibrate[p] THEN [at |-> "offset", offset |-> offset[p]]
                                 ELSE [at |-> "skip"])
    /\ UNCHANGED <<position, offset, player, deck, button, ui, ghosts>>

(* Mutant: only the position is calibrated. *)
CalibrateOffset_Not(p) ==
    /\ In(p, "offset")
    /\ Goes(p, [at |-> "position"])
    /\ SpoilsKey(p) /\ SpoilsButton(p)
    /\ UNCHANGED <<position, offset, player, deck, ghosts>>

(* calibrate_to_timecode_position: two loads and a store, ...              *)
CalibrateOffset(p) ==
    /\ In(p, "offset")
    /\ offset' = [offset EXCEPT ![p] =
                    Plus(audio[p].offset, Minus(target_position[p], position[p]))]
    /\ Goes(p, [at |-> "position"])
    /\ SpoilsKey(p) /\ SpoilsButton(p)
    /\ UNCHANGED <<position, player, deck, ghosts>>

CalibratePosition(p) ==
    /\ In(p, "position")
    /\ position' = [position EXCEPT ![p] = target_position[p]]
    /\ Goes(p, [at |-> "calibrated"])
    /\ SpoilsKey(p) /\ SpoilsButton(p)
    /\ UNCHANGED <<offset, player, deck, ghosts>>

Calibrated(p) ==
    /\ In(p, "calibrated")
    /\ recalibrate' = [recalibrate EXCEPT ![p] = FALSE]
    /\ Goes(p, [at |-> "skip"])
    /\ UNCHANGED <<position, offset, target_position, pitch, timecode_control,
                   deck, button, ui, ghosts>>

(* The rest of retarget: if it is far from where the record is, the track  *)
(* jumps there.                                                            *)
Skip(p) ==
    /\ In(p, "skip")
    /\ \E far \in BOOLEAN :
        position' = [position EXCEPT ![p] = IF far THEN target_position[p] ELSE @]
    /\ Moved(p, Minus(position'[p], position[p])) /\ MovesOn(p)
    /\ target_position' = [target_position EXCEPT ![p] = UNSET]
    /\ Goes(p, [at |-> "play"])
    /\ UNCHANGED <<offset, pitch, timecode_control, recalibrate, deck, ui, raced>>

(* What a buffer holds takes the player on, at the pitch of the record.    *)
Play(p) ==
    /\ In(p, "play")
    /\ \E r \in 0 .. pitch[p] :
        /\ position' = [position EXCEPT ![p] = Plus(@, r)]
        /\ Moved(p, r)
    /\ MovesOn(p)
    /\ Goes(p, [at |-> "poll"])
    /\ UNCHANGED <<offset, player, deck, ui, raced>>

-----------------------------------------------------------------------------
(* The buttons of a controller, by the realtime thread (dicer.c:289).      *)

ShiftButton(p, l) ==
    /\ RealtimeIsFree
    /\ cue' = [cue EXCEPT ![p][l] = UNSET]
    /\ UNCHANGED <<position, offset, player, punch, audio, button, ui, ghosts>>

(* player_seek_to: the load.  The deck is where it was told to go; after a *)
(* punch, it ought to be where it would have been without.  Where it is to *)
(* return to, once a cue has moved it elsewhere, no comment says.          *)
Load(p, op, to, then, late) ==
    LET known == ~late /\ ~raced[p] /\ ~Busy(p) /\ ~In(p, "position")
    IN  /\ button' = [at |-> "store", pl |-> p, offset |-> Minus(position[p], to),
                      punch |-> then, late |-> late]
        /\ elapsed' = [elapsed EXCEPT ![p] =
                          IF op = "out" /\ known /\ home[p] # UNSET THEN home[p] ELSE to]
        /\ home' = [home EXCEPT ![p] =
                       IF op # "in" \/ ~known THEN UNSET
                       ELSE IF punch[p] = UNSET THEN elapsed[p] ELSE @]
        /\ SpoilsKey(p)
        /\ UNCHANGED <<position, offset, player, deck, audio, raced>>

(* player_get_elapsed: the load of the position.                           *)
Elapsed(p, then, l) ==
    /\ button' = [at |-> then, pl |-> p, label |-> l, position |-> position[p],
                  late |-> FALSE]
    /\ UNCHANGED <<position, offset, player, deck, audio, ui, ghosts>>

deck_cue(p, l) ==
    /\ RealtimeIsFree
    /\ \/ cue[p][l] = UNSET /\ Elapsed(p, "set", l)
       \/ cue[p][l] # UNSET /\ Load(p, "cue", cue[p][l], punch[p], FALSE)

deck_punch_in(p, l) ==
    /\ RealtimeIsFree
    /\ Elapsed(p, IF cue[p][l] = UNSET THEN "set" ELSE "in", l)

deck_punch_out(p) ==
    /\ RealtimeIsFree
    /\ punch[p] # UNSET
    /\ Elapsed(p, "out", UNSET)

(* The load of the offset, and what is done with the elapsed time: the     *)
(* cue point is set, ...                                                   *)
LoadedElapsed(p) == Minus(button.position, offset[p])

SetCue(p) ==
    /\ button.at = "set" /\ button.pl = p
    /\ cue' = [cue EXCEPT ![p][button.label] = LoadedElapsed(p)]
    /\ button' = [at |-> "idle"]
    /\ UNCHANGED <<position, offset, player, punch, audio, ui, ghosts>>

Seek(p, op, to, then) ==
    /\ button' = [at |-> "seek", pl |-> p, op |-> op, to |-> to, punch |-> then,
                  late |-> button.late]
    /\ UNCHANGED <<position, offset, player, deck, audio, ui, ghosts>>

(* Mutant: an active punch is not undone first. *)
PunchIn_NotOverriding(p) ==
    /\ button.at = "in" /\ button.pl = p
    /\ LET to == cue[p][button.label]
       IN  Seek(p, "in", to, Minus(to, LoadedElapsed(p)))

(* ... the deck goes to a cue, to return from there, ...                   *)
PunchIn(p) ==
    LET to == cue[p][button.label]
        e == Minus(LoadedElapsed(p), IF punch[p] = UNSET THEN 0 ELSE punch[p])
    IN  /\ button.at = "in" /\ button.pl = p
        /\ Seek(p, "in", to, Minus(to, e))

(* ... or returns.                                                         *)
PunchOut(p) ==
    /\ button.at = "out" /\ button.pl = p
    /\ Seek(p, "out", Minus(LoadedElapsed(p), punch[p]), UNSET)

SeekLoad(p) ==
    /\ button.at = "seek" /\ button.pl = p
    /\ Load(p, button.op, button.to, button.punch, button.late)

SeekStore(p) ==
    /\ button.at = "store" /\ button.pl = p
    /\ offset' = [offset EXCEPT ![p] = button.offset]
    /\ punch' = [punch EXCEPT ![p] = button.punch]
    /\ raced' = [raced EXCEPT ![p] = button.late \/ Calibrating(p)]
    /\ home' = [home EXCEPT ![p] = IF raced'[p] THEN UNSET ELSE @]
    /\ button' = [at |-> "idle"]
    /\ SpoilsKey(p)
    /\ UNCHANGED <<position, player, cue, audio, elapsed>>

-----------------------------------------------------------------------------
(* The interface thread (interface.c:1435).                                *)
UiIdle == ui.at = "idle"

deck_is_locked(p) == p \in Protected /\ pitch[p] # 0

(* deck_recue: offset = position ...                                       *)
deck_recue(p) ==
    /\ UiIdle
    /\ ~deck_is_locked(p)
    /\ ui' = [at |-> "store", pl |-> p, from |-> p, offset |-> position[p],
              late |-> FALSE]
    /\ elapsed' = [elapsed EXCEPT ![p] = 0]
    /\ home' = [home EXCEPT ![p] = UNSET]
    /\ SpoilsButton(p)
    /\ UNCHANGED <<position, offset, player, deck, audio, raced>>

(* player_clone: elapsed = from->position - from->offset ...               *)
deck_clone(p, from) ==
    /\ UiIdle
    /\ ui' = [at |-> "from", pl |-> p, from |-> from, elapsed |-> position[from],
              want |-> elapsed[from],
              late |-> raced[from] \/ (Pressed(from) /\ button.at = "store")]
    /\ UNCHANGED <<position, offset, player, deck, audio, button, ghosts>>

CloneFrom ==
    /\ ui.at = "from"
    /\ ui' = [ui EXCEPT !.at = "clone", !.elapsed = Minus(@, offset[ui.from])]
    /\ UNCHANGED <<position, offset, player, deck, audio, button, ghosts>>

(* ... offset = position - elapsed ...                                     *)
Clone ==
    /\ ui.at = "clone"
    /\ ui' = [at |-> "store", pl |-> ui.pl, from |-> ui.from,
              offset |-> Minus(position[ui.pl], ui.elapsed), late |-> ui.late]
    /\ elapsed' = [elapsed EXCEPT ![ui.pl] = ui.want]
    /\ home' = [home EXCEPT ![ui.pl] = UNSET]
    /\ SpoilsButton(ui.pl)
    /\ UNCHANGED <<position, offset, player, deck, audio, raced>>

(* ... and the store of either.                                            *)
UiStore ==
    /\ ui.at = "store"
    /\ offset' = [offset EXCEPT ![ui.pl] = ui.offset]
    /\ home' = [home EXCEPT ![ui.pl] = UNSET]
    /\ raced' = [raced EXCEPT ![ui.pl] =
                    ui.late \/ \E q \in {ui.pl, ui.from} : Calibrating(q)]
    /\ ui' = [at |-> "idle"]
    /\ SpoilsButton(ui.pl)
    /\ UNCHANGED <<position, player, deck, audio, elapsed>>

(* player_toggle_timecode_control: a load, a store and another store.      *)
Toggle(p) ==
    /\ UiIdle
    /\ ui' = [at |-> "control", pl |-> p, on |-> ~timecode_control[p]]
    /\ UNCHANGED <<position, offset, player, deck, audio, button, ghosts>>

ToggleControl ==
    /\ ui.at = "control"
    /\ timecode_control' = [timecode_control EXCEPT ![ui.pl] = ui.on]
    /\ ui' = [ui EXCEPT !.at = "recalibrate"]
    /\ UNCHANGED <<position, offset, target_position, pitch, recalibrate, deck,
                   audio, button, ghosts>>

ToggleRecalibrate ==
    /\ ui.at = "recalibrate"
    /\ recalibrate' = [recalibrate EXCEPT ![ui.pl] = @ \/ timecode_control[ui.pl]]
    /\ ui' = [at |-> "idle"]
    /\ UNCHANGED <<position, offset, target_position, pitch, timecode_control,
                   deck, audio, button, ghosts>>

Interface ==
    \/ \E p \in Keyed : deck_recue(p) \/ Toggle(p)
    \/ \E p \in Keyed, from \in Players : deck_clone(p, from)
    \/ CloneFrom \/ Clone \/ UiStore \/ ToggleControl \/ ToggleRecalibrate

Audio ==
    \E p \in Players :
        \/ Collect(p) \/ LeaveTimecode(p) \/ Retarget(p)
        \/ CalibrateOffset(p) \/ CalibratePosition(p) \/ Calibrated(p)
        \/ Skip(p) \/ Play(p)

Controller ==
    \E p \in Cued :
        \/ \E l \in Labels : ShiftButton(p, l) \/ deck_cue(p, l) \/ deck_punch_in(p, l)
        \/ deck_punch_out(p)
        \/ SetCue(p) \/ PunchIn(p) \/ PunchOut(p) \/ SeekLoad(p) \/ SeekStore(p)

Next == Audio \/ Controller \/ Interface

Spec == Init /\ [][Next]_vars

-----------------------------------------------------------------------------
(* Between two operations.                                                 *)
Quiet == UiIdle /\ button.at = "idle" /\ \A p \in Players : In(p, "poll")

(* "Synchronise to the position given by the timecoder without affecting   *)
(* the audio playback position" (player.c:360): calibrating, recuing,      *)
(* cloning, cuing, punching in and out leave a deck where they say, unless *)
(* the last of them ran into one of another thread.                        *)
PlaysWhereItShould ==
    Quiet => \A p \in Players : ~raced[p] => player_get_elapsed(p) = elapsed[p]

(* "Seek to a cue point ready to return from it later.  Overrides an       *)
(* existing punch operation" (deck.c:148): what is stored leads back to    *)
(* where the deck would be, whatever is played and jumped meanwhile.  (It  *)
(* is not known where that is once a seek ran into another thread, or a    *)
(* key or a cue moved the deck elsewhere.)                                 *)
PunchLeadsHome ==
    Quiet => \A p \in Players :
        home[p] # UNSET => Minus(player_get_elapsed(p), punch[p]) = home[p]

(* "Cue to the zero position of the track" (player.c:270), "Seek to the    *)
(* given position" (player.c:404), and the same of the other operations,   *)
(* with no exception: so it is with buttons alone, on a deck that is not   *)
(* of JACK, and with keys, or on a deck of JACK, it is not.                *)
EveryOperationHolds ==
    Quiet => \A p \in Players : player_get_elapsed(p) = elapsed[p]

(* "re-sync offset at next opportunity" (player.h:50): once timecode       *)
(* control has been switched on, the next position of the record that is   *)
(* taken up calibrates the player.                                         *)
SwitchingOnCalibrates ==
    [][\A p \in Players :
         ui.at = "recalibrate" /\ ui.pl = p /\ timecode_control[p] /\ In(p, "retarget")
            => ~In(p, "skip")']_vars

-----------------------------------------------------------------------------
(* cues.c: a search that starts from CUE_UNSET.                            *)
Cues(p) == {cue[p][l] : l \in Labels} \ {UNSET}

cues_prev(p, current) ==
    LET r == {c \in Cues(p) : c > UNSET /\ c < current}
    IN  IF r = {} THEN UNSET ELSE Max(r)

(* "Return: the previous cue point before the current position, or         *)
(* CUE_UNSET" (cues.c:58).                                                 *)
FindsThePreviousCue ==
    \A p \in Players, c \in Times :
        LET before == {x \in Cues(p) : x < c}
        IN  cues_prev(p, c) = IF before = {} THEN UNSET ELSE Max(before)
=============================================================================
