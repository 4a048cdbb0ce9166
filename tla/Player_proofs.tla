--------------------------- MODULE Player_proofs ----------------------------
(***************************************************************************)
(* Proofs about Deck, for any number of players and cue points and any     *)
(* range of times: where a deck is in its track, and where it returns to.  *)
(*                                                                         *)
(* Then about TrackBuffer, the memory of the track that a player reads:    *)
(* while it is imported the readers, which take no lock, see the stream    *)
(* and nothing else, for any size of a sample, of a block, of the table of *)
(* blocks and of the meter, any stream and any pieces it is read in.       *)
(***************************************************************************)
EXTENDS Deck, TrackBuffer, TLAPS

Set == Times \union {UNSET}

-----------------------------------------------------------------------------
(* Times are counted modulo Wrap.                                          *)

(* Sums and differences of times.                                          *)
LEMMA Wrapped ==
    ASSUME NEW x \in Int, -Wrap <= x, x < 2 * Wrap
    PROVE  x % Wrap = IF x < 0 THEN x + Wrap ELSE IF x < Wrap THEN x ELSE x - Wrap
<1>1. Wrap \in Nat /\ Wrap > 0
  BY DeckAssumption
<1>2. CASE x < 0
  BY <1>1, <1>2
<1>3. CASE 0 <= x /\ x < Wrap
  BY <1>1, <1>3
<1>4. CASE Wrap <= x
  BY <1>1, <1>4
<1> QED BY <1>1, <1>2, <1>3, <1>4

LEMMA MinusIs ==
    ASSUME NEW x \in Times, NEW y \in Times
    PROVE  /\ Minus(x, y) \in Times
           /\ Minus(x, y) = IF x < y THEN x - y + Wrap ELSE x - y
<1>1. x - y \in Int /\ -Wrap <= x - y /\ x - y < 2 * Wrap /\ x - y < Wrap
  BY DeckAssumption DEF Times
<1>2. Minus(x, y) = IF x - y < 0 THEN x - y + Wrap ELSE x - y
  BY <1>1, Wrapped DEF Minus
<1> QED BY <1>1, <1>2, DeckAssumption DEF Times

LEMMA PlusIs ==
    ASSUME NEW x \in Times, NEW n \in 0 .. Wrap
    PROVE  /\ Plus(x, n) \in Times
           /\ Plus(x, n) = IF x + n < Wrap THEN x + n ELSE x + n - Wrap
<1> DEFINE sum == x + n
<1>1. sum \in Int /\ -Wrap <= sum /\ sum < 2 * Wrap /\ ~(sum < 0)
  BY DeckAssumption DEF Times
<1>2. Plus(x, n) = sum % Wrap
  BY DEF Plus
<1> HIDE DEF sum
<1>3. sum % Wrap = IF sum < Wrap THEN sum ELSE sum - Wrap
  BY <1>1, Wrapped
<1> QED BY <1>1, <1>2, <1>3, DeckAssumption DEF Times, sum

(* Playing and jumping take a place and what it is compared with along.    *)
LEMMA MovedLaw ==
    ASSUME NEW x \in Times, NEW o \in Times, NEW n \in 0 .. Wrap
    PROVE  Minus(Plus(x, n), o) = Plus(Minus(x, o), n)
<1>1. Plus(x, n) \in Times /\ Minus(x, o) \in Times
  BY MinusIs, PlusIs
<1>2. /\ Plus(x, n) = IF x + n < Wrap THEN x + n ELSE x + n - Wrap
      /\ Minus(x, o) = IF x < o THEN x - o + Wrap ELSE x - o
  BY MinusIs, PlusIs
<1>3. /\ Minus(Plus(x, n), o) = IF Plus(x, n) < o THEN Plus(x, n) - o + Wrap ELSE Plus(x, n) - o
      /\ Plus(Minus(x, o), n) = IF Minus(x, o) + n < Wrap THEN Minus(x, o) + n
                                                         ELSE Minus(x, o) + n - Wrap
  BY <1>1, MinusIs, PlusIs
<1>4. Minus(Plus(x, n), o) \in Times /\ Plus(Minus(x, o), n) \in Times
  BY <1>1, MinusIs, PlusIs
<1> QED BY <1>1, <1>2, <1>3, <1>4, DeckAssumption DEF Times

(* A distance leads from one time to the other.                            *)
LEMMA JumpLaw ==
    ASSUME NEW x \in Times, NEW t \in Times
    PROVE  Plus(x, Minus(t, x)) = t
<1>1. /\ Minus(t, x) \in Times /\ Minus(t, x) \in 0 .. Wrap
      /\ Minus(t, x) = IF t < x THEN t - x + Wrap ELSE t - x
  BY MinusIs, DeckAssumption DEF Times
<1>2. Plus(x, Minus(t, x)) = IF x + Minus(t, x) < Wrap THEN x + Minus(t, x)
                                                      ELSE x + Minus(t, x) - Wrap
  BY <1>1, PlusIs
<1> QED BY <1>1, <1>2, DeckAssumption DEF Times

(* Seeking: what is subtracted leads where it should.                      *)
LEMMA SeekLaw ==
    ASSUME NEW x \in Times, NEW t \in Times
    PROVE  Minus(x, Minus(x, t)) = t /\ Minus(x, x) = 0 /\ Minus(x, 0) = x
<1>1. /\ Minus(x, t) \in Times
      /\ Minus(x, t) = IF x < t THEN x - t + Wrap ELSE x - t
  BY MinusIs
<1>2. Minus(x, Minus(x, t)) = IF x < Minus(x, t) THEN x - Minus(x, t) + Wrap
                                                 ELSE x - Minus(x, t)
  BY <1>1, MinusIs
<1>3. 0 \in Times
  BY DeckAssumption DEF Times
<1>4. Minus(x, x) = 0
  BY MinusIs DEF Times
<1>5. Minus(x, 0) = x
  BY <1>3, MinusIs DEF Times
<1> QED BY <1>1, <1>2, <1>4, <1>5, DeckAssumption DEF Times

(* Calibrating: the new offset compensates for the new position.           *)
LEMMA CalibrateLaw ==
    ASSUME NEW x \in Times, NEW o \in Times, NEW t \in Times
    PROVE  Minus(t, Plus(o, Minus(t, x))) = Minus(x, o)
<1> DEFINE d == Minus(t, x)
           q == Plus(o, d)
<1>1. /\ d \in Times /\ d \in 0 .. Wrap
      /\ d = IF t < x THEN t - x + Wrap ELSE t - x
  BY MinusIs, DeckAssumption DEF Times
<1> HIDE DEF d
<1>2. q \in Times /\ q = IF o + d < Wrap THEN o + d ELSE o + d - Wrap
  BY <1>1, PlusIs
<1> HIDE DEF q
<1>3. Minus(t, q) = IF t < q THEN t - q + Wrap ELSE t - q
  BY <1>2, MinusIs
<1>4. Minus(x, o) = IF x < o THEN x - o + Wrap ELSE x - o
  BY MinusIs
<1>5. Minus(t, q) = Minus(x, o)
  BY <1>1, <1>2, <1>3, <1>4, DeckAssumption DEF Times
<1> QED BY <1>5 DEF q, d

LEMMA Numbers ==
    /\ 0 \in Times /\ UNSET \notin Times /\ Times \subseteq 0 .. Wrap /\ 0 .. 1 \subseteq 0 .. Wrap
<1> QED BY DeckAssumption DEF Times

-----------------------------------------------------------------------------
(* The inductive invariant.                                                *)

(* What each thread has loaded, at each place it may be.                   *)
Places ==
    [at : {"poll", "unsafe", "retarget", "position", "calibrated", "skip", "play"}]
        \union [at : {"offset"}, offset : Times]

AudioType == audio \in [Players -> Places]

ButtonType ==
    \/ button = [at |-> "idle"]
    \/ button \in [at : {"set", "in"}, pl : Players, label : Labels, position : Times,
                   late : BOOLEAN]
    \/ button \in [at : {"out"}, pl : Players, label : {UNSET}, position : Times,
                   late : BOOLEAN]
    \/ button \in [at : {"seek"}, pl : Players, op : {"in", "out"}, to : Times,
                   punch : Set, late : BOOLEAN]
    \/ button \in [at : {"store"}, pl : Players, offset : Times, punch : Set,
                   late : BOOLEAN]

UiType ==
    \/ ui = [at |-> "idle"]
    \/ ui \in [at : {"from", "clone"}, pl : Players, from : Players,
               elapsed : Times, want : Times, late : BOOLEAN]
    \/ ui \in [at : {"store"}, pl : Players, from : Players, offset : Times,
               late : BOOLEAN]
    \/ ui \in [at : {"control", "recalibrate"}, pl : Players, on : BOOLEAN]

(* What the thread that collects has loaded is still so when it stores,    *)
(* unless the player has been marked as raced.                             *)
Loaded ==
    \A p \in Players :
        /\ audio[p].at \in {"retarget", "offset", "position", "calibrated", "skip"}
             => target_position[p] \in Times
        /\ In(p, "offset") => raced[p] \/ audio[p].offset = offset[p]

(* A button has what it needs.                                             *)
Held ==
    /\ button.at = "in" => cue[button.pl][button.label] # UNSET
    /\ button.at = "out" => punch[button.pl] # UNSET
    /\ button.at = "seek" => IF button.op = "in" THEN button.punch # UNSET
                             ELSE button.punch = UNSET /\ punch[button.pl] # UNSET

Storing(p) == ui.at = "store" /\ ui.pl = p
Sought(p) == button.at = "store" /\ button.pl = p

(* Where a player will be once a calibration that is half way is done.     *)
Where(p) ==
    Minus(IF In(p, "position") THEN target_position[p] ELSE position[p], offset[p])

Placed ==
    \A p \in Players : ~Storing(p) /\ ~Sought(p) /\ ~raced[p] => Where(p) = elapsed[p]

(* What the interface thread has computed so far is right; it cannot see   *)
(* whether a calibration is half way.                                      *)
KeyComputed ==
    /\ ui.at \in {"from", "clone", "store"} /\ ~ui.late
    /\ ~In(ui.pl, "position") /\ ~In(ui.from, "position")
    => /\ ui.at = "from" => Minus(ui.elapsed, offset[ui.from]) = ui.want
       /\ ui.at = "clone" => ui.elapsed = ui.want
       /\ ui.at = "store" => Minus(position[ui.pl], ui.offset) = elapsed[ui.pl]

(* So is what the realtime thread has, for a button.                       *)
Unpunched(p) == Minus(player_get_elapsed(p), IF punch[p] = UNSET THEN 0 ELSE punch[p])

ButtonComputed ==
    button.at # "idle" /\ ~button.late /\ ~In(button.pl, "position") =>
        /\ button.at \in {"in", "out"} => button.position = position[button.pl]
        /\ button.at = "seek" =>
             Unpunched(button.pl) = IF button.op = "in" THEN Minus(button.to, button.punch)
                                                        ELSE button.to
        /\ button.at = "store" => Minus(position[button.pl], button.offset) = elapsed[button.pl]

(* A deck that has a home is told, and its punch leads there.              *)
Homely ==
    \A p \in Players : home[p] # UNSET =>
        LET back == IF Sought(p) THEN button.punch ELSE punch[p]
        IN  ~raced[p] /\ ~Storing(p) /\ back # UNSET /\ home[p] = Minus(elapsed[p], back)

IInv ==
    /\ TypeOK /\ AudioType /\ ButtonType /\ UiType
    /\ Loaded /\ Held /\ Placed /\ KeyComputed /\ ButtonComputed /\ Homely

(* A step of another thread leaves an operation of the interface where it  *)
(* is, and marks it as late.                                               *)
LEMMA SpoilingKey ==
    ASSUME UiType, NEW p \in Players, SpoilsKey(p)
    PROVE  /\ UiType' /\ ui'.at = ui.at
           /\ ~Busy(p) => ui' = ui
           /\ Busy(p) => ui'.late
           /\ ui.at # "idle" => ui'.pl = ui.pl
           /\ ui.at \in {"from", "clone", "store"} =>
                ui'.from = ui.from /\ (ui.late => ui'.late)
<1>1. CASE ~Busy(p)
  BY <1>1 DEF UiType, SpoilsKey
<1>2. CASE Busy(p)
  <2>1. ui' = [ui EXCEPT !.late = TRUE] /\ ui.at \in {"from", "clone", "store"}
    BY <1>2 DEF SpoilsKey, Busy
  <2>2. UiType'
    BY <2>1 DEF UiType
  <2>3. ui'.at = ui.at /\ ui'.pl = ui.pl /\ ui'.from = ui.from /\ ui'.late
    BY <2>1 DEF UiType
  <2> QED BY <1>2, <2>1, <2>2, <2>3
<1> QED BY <1>1, <1>2

(* So does it leave that of a button.                                      *)
LEMMA SpoilingButton ==
    ASSUME ButtonType, NEW p \in Players, SpoilsButton(p) \/ MovesOn(p)
    PROVE  /\ ButtonType' /\ button'.at = button.at
           /\ button.at # "idle" =>
                /\ button'.pl = button.pl
                /\ button.late => button'.late
                /\ button.at \in {"in", "out"} =>
                     button'.position = button.position /\ button'.label = button.label
                /\ button.at = "seek" => /\ button'.op = button.op /\ button'.to = button.to
                                         /\ button'.punch = button.punch
                /\ button.at = "store" => /\ button'.offset = button.offset
                                          /\ button'.punch = button.punch
           /\ ~Pressed(p) => button' = button
           /\ Pressed(p) /\ SpoilsButton(p) => button'.late
           /\ Pressed(p) /\ button.at # "store" => button'.late
<1>1. CASE button' = button
  BY <1>1 DEF ButtonType, SpoilsButton, MovesOn, Pressed
<1>2. CASE button' = [button EXCEPT !.late = TRUE] /\ Pressed(p)
  <2>1. button.at \in {"in", "out", "seek", "store"}
    BY <1>2 DEF Pressed
  <2>2. ButtonType'
    BY <1>2, <2>1 DEF ButtonType
  <2> QED BY <1>2, <2>1, <2>2 DEF ButtonType
<1> QED BY <1>1, <1>2 DEF SpoilsButton, MovesOn

(* player_collect before and after it calibrates, moves and plays          *)
(* (player.c:425-467) goes from one place to the next.                     *)
LEMMA CollectingKeeps ==
    ASSUME IInv, NEW p \in Players, NEW place \in Places, Goes(p, place), TypeOK',
           ~In(p, "position"), place.at # "position",
           \A q \in Players \ {p} : target_position'[q] = target_position[q],
           place.at \in {"retarget", "offset", "calibrated", "skip"}
             => target_position'[p] \in Times,
           place.at = "offset" => place.offset = offset[p],
           UNCHANGED <<position, offset, deck, button, ui, ghosts>>
    PROVE  IInv'
<1>a. /\ audio' = [audio EXCEPT ![p] = place] /\ audio \in [Players -> Places]
      /\ audio'[p] = place /\ \A q \in Players \ {p} : audio'[q] = audio[q]
  BY DEF IInv, AudioType, Goes
<1>b. \A q \in Players : In(q, "position")' <=> In(q, "position")
  BY <1>a DEF In
<1>c. AudioType' /\ ButtonType' /\ UiType'
  BY <1>a DEF IInv, AudioType, ButtonType, UiType
<1>d. Loaded'
  BY <1>a DEF IInv, Loaded, In, ghosts
<1>e. Held'
  BY DEF IInv, Held, deck
<1>f. Placed'
  <2> SUFFICES ASSUME NEW q \in Players, ~Storing(q)', ~Sought(q)', ~raced'[q]
               PROVE  Where(q)' = elapsed'[q]
    BY DEF Placed
  <2>1. Where(q) = elapsed[q]
    BY DEF IInv, Placed, Storing, Sought, ghosts
  <2> QED BY <1>b, <2>1 DEF Where, ghosts
<1>g. KeyComputed'
  BY <1>b DEF IInv, UiType, KeyComputed, ghosts
<1>h. ButtonComputed'
  BY <1>b DEF IInv, ButtonType, ButtonComputed, Unpunched, player_get_elapsed, deck, ghosts
<1>i. Homely'
  BY DEF IInv, Homely, Storing, Sought, deck, ghosts
<1> QED BY <1>c, <1>d, <1>e, <1>f, <1>g, <1>h, <1>i DEF IInv

LEMMA AfterIs ==
    ASSUME NEW t \in Set
    PROVE  /\ After(t) \in Places
           /\ After(t).at \in {"play", "retarget"}
           /\ After(t).at = "retarget" => t \in Times
<1> QED BY DEF After, Places, Set

LEMMA CollectKeeps ==
    ASSUME IInv, NEW p \in Players, Collect(p)
    PROVE  IInv'
<1>1. In(p, "poll")
  BY DEF Collect, CallbackIsFree, RealtimeIsFree
<1>2. UNCHANGED <<position, offset, recalibrate, timecode_control, deck, button,
                  ui, ghosts>>
  BY DEF Collect
<1>3. CASE \E t \in Set, v \in Pitches :
              /\ target_position' = [target_position EXCEPT ![p] = t]
              /\ pitch' = [pitch EXCEPT ![p] = v]
              /\ Goes(p, After(t))
  <2>1. PICK t \in Set, v \in Pitches :
              /\ target_position' = [target_position EXCEPT ![p] = t]
              /\ pitch' = [pitch EXCEPT ![p] = v]
              /\ Goes(p, After(t))
    BY <1>3
  <2>2. TypeOK'
    BY <1>2, <2>1, DeckAssumption DEF IInv, TypeOK, Set, deck, ghosts
  <2>3. target_position'[p] = t /\ \A q \in Players \ {p} : target_position'[q] = target_position[q]
    BY <2>1 DEF IInv, TypeOK
  <2> QED BY <1>1, <1>2, <2>1, <2>2, <2>3, AfterIs, CollectingKeeps DEF In
<1>4. CASE UNCHANGED <<target_position, pitch>>
           /\ (Goes(p, [at |-> "unsafe"]) \/ Goes(p, After(target_position[p])))
  <2>1. TypeOK'
    BY <1>2, <1>4 DEF IInv, TypeOK, deck, ghosts
  <2>2. [at |-> "unsafe"] \in Places
    BY DEF Places
  <2>3. CASE Goes(p, [at |-> "unsafe"])
    BY <1>1, <1>2, <1>4, <2>1, <2>2, <2>3, CollectingKeeps DEF In
  <2>4. CASE Goes(p, After(target_position[p]))
    <3>1. target_position[p] \in Set
      BY DEF IInv, TypeOK, Set
    <3> QED BY <1>1, <1>2, <1>4, <2>1, <2>4, <3>1, AfterIs, CollectingKeeps DEF In
  <2> QED BY <1>4, <2>3, <2>4
<1> QED BY <1>3, <1>4 DEF Collect, Set

LEMMA LeaveTimecodeKeeps ==
    ASSUME IInv, NEW p \in Players, LeaveTimecode(p)
    PROVE  IInv'
<1>1. TypeOK'
  BY DEF IInv, TypeOK, deck, ghosts, LeaveTimecode
<1>2. target_position[p] \in Set
  BY DEF IInv, TypeOK, Set
<1> QED BY <1>1, <1>2, AfterIs, CollectingKeeps DEF LeaveTimecode, In

(* The decision to calibrate or to skip.                                   *)
LEMMA RetargetKeeps ==
    ASSUME IInv, NEW p \in Players, Retarget(p)
    PROVE  IInv'
<1> DEFINE place == IF recalibrate[p] THEN [at |-> "offset", offset |-> offset[p]]
                                      ELSE [at |-> "skip"]
<1>1. TypeOK'
  BY DEF IInv, TypeOK, player, deck, ghosts, Retarget
<1>2. /\ place \in Places /\ place.at \in {"offset", "skip"}
      /\ place.at = "offset" => place.offset = offset[p]
  BY DEF IInv, TypeOK, Places
<1>3. In(p, "retarget") /\ target_position[p] \in Times
  BY DEF IInv, Loaded, Retarget, In
<1>4. Goes(p, place) /\ UNCHANGED <<position, offset, player, deck, button, ui, ghosts>>
  BY DEF Retarget
<1> HIDE DEF place
<1> QED BY <1>1, <1>2, <1>3, <1>4, CollectingKeeps DEF In, player

(* The flag is cleared last.                                               *)
LEMMA CalibratedKeeps ==
    ASSUME IInv, NEW p \in Players, Calibrated(p)
    PROVE  IInv'
<1>1. TypeOK'
  BY DEF IInv, TypeOK, deck, ghosts, Calibrated
<1>2. In(p, "calibrated") /\ target_position[p] \in Times /\ [at |-> "skip"] \in Places
  BY DEF IInv, Loaded, Calibrated, In, Places
<1>3. Goes(p, [at |-> "skip"])
      /\ UNCHANGED <<position, offset, target_position, deck, button, ui, ghosts>>
  BY DEF Calibrated
<1> QED BY <1>1, <1>2, <1>3, CollectingKeeps DEF In

(* The other threads see a store of a calibration: what they have computed *)
(* is late.                                                                *)
LEMMA CalibratingKeeps ==
    ASSUME IInv, NEW p \in Players, NEW next \in {"position", "calibrated"},
           Calibrating(p), Goes(p, [at |-> next]), TypeOK',
           next = "position" => In(p, "offset"),
           SpoilsKey(p), SpoilsButton(p),
           \A q \in Players \ {p} : position'[q] = position[q] /\ offset'[q] = offset[q],
           ~raced[p] => Where(p)' = Where(p),
           UNCHANGED <<player, deck, ghosts>>
    PROVE  IInv'
<1>a. /\ audio' = [audio EXCEPT ![p] = [at |-> next]] /\ audio \in [Players -> Places]
      /\ [at |-> next] \in Places
      /\ audio'[p] = [at |-> next] /\ \A q \in Players \ {p} : audio'[q] = audio[q]
  BY DEF IInv, AudioType, Goes, Places
<1>b. \A q \in Players \ {p} : In(q, "position")' <=> In(q, "position")
  BY <1>a DEF In
<1>c. AudioType' /\ ButtonType' /\ UiType'
  BY <1>a, SpoilingKey, SpoilingButton DEF IInv, AudioType
<1>d. Loaded'
  <2>1. target_position[p] \in Times
    BY DEF IInv, Loaded, Calibrating
  <2> QED BY <1>a, <2>1 DEF IInv, Loaded, In, player, ghosts
<1>e. Held'
  BY SpoilingButton DEF IInv, Held, deck
<1>f. Placed'
  <2> SUFFICES ASSUME NEW q \in Players, ~Storing(q)', ~Sought(q)', ~raced'[q]
               PROVE  Where(q)' = elapsed'[q]
    BY DEF Placed
  <2>1. ~Storing(q) /\ ~Sought(q) /\ ~raced[q]
    BY SpoilingKey, SpoilingButton DEF IInv, Storing, Sought, ghosts
  <2>2. Where(q) = elapsed[q]
    BY <2>1 DEF IInv, Placed
  <2>3. Where(q)' = Where(q)
    BY <1>b, <2>1 DEF Where, player
  <2> QED BY <2>2, <2>3 DEF ghosts
<1>g. KeyComputed'
  <2> SUFFICES ASSUME ui'.at \in {"from", "clone", "store"}, ~ui'.late,
                      ~In(ui.pl, "position")', ~In(ui.from, "position")'
               PROVE  KeyComputed!2'
    BY DEF KeyComputed
  <2>1. ui' = ui /\ ~Busy(p) /\ ui.pl \in Players \ {p} /\ ui.from \in Players \ {p}
    BY SpoilingKey DEF IInv, Busy, UiType
  <2>2. KeyComputed!2
    BY <1>b, <2>1 DEF IInv, KeyComputed
  <2> QED BY <2>1, <2>2 DEF ghosts
<1>h. ButtonComputed'
  <2> SUFFICES ASSUME button'.at # "idle", ~button'.late, ~In(button.pl, "position")',
                      button'.at # "set"
               PROVE  ButtonComputed!2'
    BY SpoilingButton DEF IInv, ButtonComputed
  <2>1. button' = button /\ ~Pressed(p) /\ button.pl \in Players \ {p}
    BY SpoilingButton DEF IInv, Pressed, ButtonType
  <2>2. ButtonComputed!2
    BY <1>b, <2>1 DEF IInv, ButtonComputed
  <2> QED BY <2>1, <2>2 DEF Unpunched, player_get_elapsed, deck, ghosts
<1>i. Homely'
  BY SpoilingKey, SpoilingButton DEF IInv, Homely, Storing, Sought, deck, ghosts
<1> QED BY <1>c, <1>d, <1>e, <1>f, <1>g, <1>h, <1>i DEF IInv

(* A calibration stores the offset first: until the position follows,      *)
(* the deck is where it will be then.                                      *)
LEMMA CalibrateOffsetKeeps ==
    ASSUME IInv, NEW p \in Players, CalibrateOffset(p)
    PROVE  IInv'
<1> DEFINE new == Plus(audio[p].offset, Minus(target_position[p], position[p]))
<1>a. /\ audio[p].at = "offset" /\ audio[p].offset \in Times
      /\ target_position[p] \in Times /\ position[p] \in Times /\ offset[p] \in Times
      /\ raced[p] \/ audio[p].offset = offset[p]
  BY DEF IInv, TypeOK, AudioType, Places, Loaded, CalibrateOffset, In
<1>b. new \in Times /\ Minus(target_position[p], new) = Minus(position[p], audio[p].offset)
  BY <1>a, MinusIs, PlusIs, CalibrateLaw, Numbers
<1>c. /\ offset' = [offset EXCEPT ![p] = new] /\ Goes(p, [at |-> "position"])
      /\ SpoilsKey(p) /\ SpoilsButton(p) /\ UNCHANGED <<position, player, deck, ghosts>>
  BY DEF CalibrateOffset
<1> HIDE DEF new
<1>1. TypeOK'
  BY <1>b, <1>c DEF IInv, TypeOK, player, deck, ghosts
<1>2. offset'[p] = new /\ \A q \in Players \ {p} : offset'[q] = offset[q]
  BY <1>c DEF IInv, TypeOK
<1>3. In(p, "position")' /\ ~In(p, "position")
  BY <1>a, <1>c DEF IInv, AudioType, Goes, In
<1>4. ~raced[p] => Where(p)' = Where(p)
  BY <1>a, <1>b, <1>c, <1>2, <1>3 DEF Where, player
<1> QED BY <1>a, <1>c, <1>1, <1>2, <1>4, CalibratingKeeps DEF In, Calibrating

(* The position follows, and the deck is where it was.                     *)
LEMMA CalibratePositionKeeps ==
    ASSUME IInv, NEW p \in Players, CalibratePosition(p)
    PROVE  IInv'
<1>a. In(p, "position") /\ target_position[p] \in Times
  BY DEF IInv, Loaded, CalibratePosition, In
<1>b. /\ position' = [position EXCEPT ![p] = target_position[p]]
      /\ Goes(p, [at |-> "calibrated"]) /\ SpoilsKey(p) /\ SpoilsButton(p)
      /\ UNCHANGED <<offset, player, deck, ghosts>>
  BY DEF CalibratePosition
<1>1. TypeOK'
  BY <1>a, <1>b DEF IInv, TypeOK, player, deck, ghosts
<1>2. position'[p] = target_position[p] /\ \A q \in Players \ {p} : position'[q] = position[q]
  BY <1>b DEF IInv, TypeOK
<1>3. ~In(p, "position")'
  BY <1>a, <1>b DEF IInv, AudioType, Goes, In
<1>4. Where(p)' = Where(p)
  BY <1>a, <1>b, <1>2, <1>3 DEF Where
<1> QED BY <1>a, <1>b, <1>1, <1>2, <1>4, CalibratingKeeps DEF In, Calibrating

(* The track moves on, and its deck with it.                               *)
LEMMA MovingKeeps ==
    ASSUME IInv, NEW p \in Players, NEW n \in 0 .. Wrap, NEW next \in {"play", "poll"},
           In(p, "skip") \/ In(p, "play"), Goes(p, [at |-> next]),
           position' = [position EXCEPT ![p] = Plus(@, n)], Moved(p, n), MovesOn(p),
           target_position' \in [Players -> Set],
           \A q \in Players \ {p} : target_position'[q] = target_position[q],
           UNCHANGED <<offset, pitch, timecode_control, recalibrate, deck, ui, raced>>
    PROVE  IInv'
<1>1. TypeOK'
  BY PlusIs DEF IInv, TypeOK, Moved, Set, deck
<1>2. /\ \A q \in Players \ {p} : /\ position'[q] = position[q]
                                 /\ elapsed'[q] = elapsed[q] /\ home'[q] = home[q]
      /\ position'[p] = Plus(position[p], n) /\ elapsed'[p] = Plus(elapsed[p], n)
      /\ home'[p] = IF home[p] = UNSET THEN UNSET ELSE Plus(home[p], n)
  BY DEF IInv, TypeOK, Moved
<1>3. \A o \in Times : Minus(position'[p], o) = Plus(Minus(position[p], o), n)
  BY <1>2, MovedLaw DEF IInv, TypeOK
<1>a. /\ audio' = [audio EXCEPT ![p] = [at |-> next]] /\ audio \in [Players -> Places]
      /\ [at |-> next] \in Places
      /\ audio'[p] = [at |-> next] /\ \A q \in Players \ {p} : audio'[q] = audio[q]
  BY DEF IInv, AudioType, Goes, Places
<1>b. /\ \A q \in Players : In(q, "position")' <=> In(q, "position")
      /\ ~In(p, "position")
  BY <1>a DEF In
<1>c. AudioType' /\ ButtonType' /\ UiType'
  BY <1>a, SpoilingButton DEF IInv, AudioType, UiType
<1>d. Loaded'
  BY <1>a DEF IInv, Loaded, In
<1>e. Held'
  BY SpoilingButton DEF IInv, Held, deck
<1>f. Placed'
  <2> SUFFICES ASSUME NEW q \in Players, ~Storing(q)', ~Sought(q)', ~raced'[q]
               PROVE  Where(q)' = elapsed'[q]
    BY DEF Placed
  <2>1. Where(q) = elapsed[q]
    BY SpoilingButton DEF IInv, Placed, Storing, Sought
  <2>2. CASE q = p
    BY <1>2, <1>3, <1>b, <2>1, <2>2 DEF IInv, TypeOK, Where
  <2>3. CASE q # p
    BY <1>2, <1>b, <2>1, <2>3 DEF Where
  <2> QED BY <2>2, <2>3
<1>g. KeyComputed'
  <2> SUFFICES ASSUME ui.at \in {"from", "clone", "store"}, ~ui.late,
                      ~In(ui.pl, "position"), ~In(ui.from, "position")
               PROVE  KeyComputed!2'
    BY <1>b DEF IInv, UiType, KeyComputed
  <2>1. KeyComputed!2
    BY DEF IInv, KeyComputed
  <2>2. CASE ui.at = "store"
    <3>1. /\ ui.pl \in Players /\ ui.offset \in Times
          /\ Minus(position[ui.pl], ui.offset) = elapsed[ui.pl]
      BY <2>1, <2>2 DEF IInv, UiType
    <3> QED BY <1>2, <1>3, <2>2, <3>1
  <2>3. CASE ui.at # "store"
    BY <2>1, <2>3
  <2> QED BY <2>2, <2>3
<1>h. ButtonComputed'
  <2> SUFFICES ASSUME button'.at \notin {"idle", "set"}, ~button'.late,
                      ~In(button.pl, "position")'
               PROVE  ButtonComputed!2'
    BY DEF ButtonComputed
  <2>1. /\ button' = button /\ button.pl \in Players /\ ~In(button.pl, "position")
        /\ button.pl = p => button.at = "store"
    <3>1. ~(Pressed(p) /\ button.at # "store")
      BY SpoilingButton DEF IInv
    <3>2. button' = button
      BY <3>1 DEF MovesOn
    <3> QED BY <1>b, <3>1, <3>2 DEF IInv, ButtonType, Pressed
  <2>2. ButtonComputed!2
    BY <2>1 DEF IInv, ButtonComputed
  <2>3. CASE button.pl = p
    <3>1. button.offset \in Times /\ Minus(position[p], button.offset) = elapsed[p]
      BY <2>1, <2>2, <2>3 DEF IInv, ButtonType
    <3> QED BY <1>2, <1>3, <2>1, <2>3, <3>1
  <2>4. CASE button.pl # p
    BY <1>2, <2>1, <2>2, <2>4 DEF Unpunched, player_get_elapsed, deck
  <2> QED BY <2>3, <2>4
<1>i. Homely'
  <2> SUFFICES ASSUME NEW q \in Players, home'[q] # UNSET
               PROVE  Homely!(q)!2'
    BY DEF Homely
  <2> DEFINE back == IF Sought(q) THEN button.punch ELSE punch[q]
  <2>1. /\ home[q] # UNSET
        /\ ~raced[q] /\ ~Storing(q) /\ back # UNSET /\ home[q] = Minus(elapsed[q], back)
    BY <1>2 DEF IInv, Homely
  <2>2. back' = back
    BY SpoilingButton DEF IInv, Sought, deck
  <2>3. back \in Times /\ elapsed[q] \in Times
    BY <2>1 DEF IInv, TypeOK, ButtonType, Sought, Set
  <2> HIDE DEF back
  <2>4. q = p => home'[p] = Minus(Plus(elapsed[p], n), back)
    BY <1>2, <2>1, <2>3, MovedLaw
  <2>5. back' # UNSET /\ home'[q] = Minus(elapsed'[q], back')
    BY <1>2, <2>1, <2>2, <2>4
  <2>6. ~raced'[q] /\ ~Storing(q)'
    BY <2>1 DEF Storing
  <2> QED BY <2>5, <2>6 DEF back
<1> QED BY <1>1, <1>c, <1>d, <1>e, <1>f, <1>g, <1>h, <1>i DEF IInv

(* A jump of the record takes the deck along.                              *)
LEMMA SkipKeeps ==
    ASSUME IInv, NEW p \in Players, Skip(p)
    PROVE  IInv'
<1> DEFINE n == Minus(position'[p], position[p])
<1>a. In(p, "skip") /\ Goes(p, [at |-> "play"]) /\ MovesOn(p)
  BY DEF Skip
<1>b. /\ position[p] \in Times /\ target_position[p] \in Times
      /\ position'[p] \in {position[p], target_position[p]}
      /\ position' = [position EXCEPT ![p] = position'[p]]
  BY <1>a DEF IInv, TypeOK, Loaded, Skip, In
<1>c. n \in 0 .. Wrap /\ position' = [position EXCEPT ![p] = Plus(@, n)]
  BY <1>b, MinusIs, JumpLaw, Numbers DEF IInv, TypeOK
<1>d. Moved(p, n) /\ UNCHANGED <<offset, pitch, timecode_control, recalibrate, deck, ui, raced>>
  BY DEF Skip
<1>e. /\ target_position' \in [Players -> Set]
      /\ \A q \in Players \ {p} : target_position'[q] = target_position[q]
  BY DEF Skip, IInv, TypeOK, Set
<1> HIDE DEF n
<1> QED BY <1>a, <1>c, <1>d, <1>e, MovingKeeps

(* So does playing.                                                        *)
LEMMA PlayKeeps ==
    ASSUME IInv, NEW p \in Players, Play(p)
    PROVE  IInv'
<1>a. In(p, "play") /\ Goes(p, [at |-> "poll"]) /\ MovesOn(p)
  BY DEF Play
<1>b. PICK r \in 0 .. pitch[p] : position' = [position EXCEPT ![p] = Plus(@, r)] /\ Moved(p, r)
  BY DEF Play
<1>c. r \in 0 .. Wrap
  BY DeckAssumption DEF IInv, TypeOK
<1>d. UNCHANGED <<offset, player, deck, ui, raced>>
  BY DEF Play
<1>e. target_position' \in [Players -> Set]
  BY <1>d DEF IInv, TypeOK, Set, player
<1> QED BY <1>a, <1>b, <1>c, <1>d, <1>e, MovingKeeps DEF player

(* The buttons of a controller (dicer.c:289), which the realtime thread    *)
(* handles: until its store, a button changes nothing but the cue points.  *)
LEMMA PressingKeeps ==
    ASSUME IInv, TypeOK', ButtonType', Held', ButtonComputed',
           button.at # "store", button'.at # "store",
           UNCHANGED <<position, offset, player, punch, audio, ui, ghosts>>
    PROVE  IInv'
<1>1. AudioType' /\ UiType'
  BY DEF IInv, AudioType, UiType
<1>2. Loaded'
  BY DEF IInv, Loaded, In, player, ghosts
<1>3. Placed'
  BY DEF IInv, Placed, Where, Storing, Sought, In, player, ghosts
<1>4. KeyComputed'
  BY DEF IInv, KeyComputed, In, ghosts
<1>5. Homely'
  BY DEF IInv, Homely, Storing, Sought, ghosts
<1> QED BY <1>1, <1>2, <1>3, <1>4, <1>5 DEF IInv

LEMMA ShiftButtonKeeps ==
    ASSUME IInv, NEW p \in Players, NEW l \in Labels, ShiftButton(p, l)
    PROVE  IInv'
<1>1. TypeOK'
  BY DEF IInv, TypeOK, player, ghosts, ShiftButton
<1>2. button.at = "idle" /\ button' = button
  BY DEF ShiftButton, RealtimeIsFree
<1>3. ButtonType' /\ Held' /\ ButtonComputed'
  BY <1>2 DEF IInv, ButtonType, Held, ButtonComputed
<1> QED BY <1>1, <1>2, <1>3, PressingKeeps DEF ShiftButton

(* The first load of an elapsed time.                                      *)
LEMMA ElapsedKeeps ==
    ASSUME IInv, NEW p \in Players, RealtimeIsFree,
           NEW then \in {"set", "in", "out"}, NEW l, Elapsed(p, then, l),
           then = "out" => l = UNSET /\ punch[p] # UNSET,
           then # "out" => l \in Labels,
           then = "in" => cue[p][l] # UNSET
    PROVE  IInv'
<1>1. button.at = "idle"
  BY DEF RealtimeIsFree
<1>2. /\ button' = [at |-> then, pl |-> p, label |-> l, position |-> position[p],
                    late |-> FALSE]
      /\ UNCHANGED <<position, offset, player, deck, audio, ui, ghosts>>
  BY DEF Elapsed
<1>3. TypeOK'
  BY <1>2 DEF IInv, TypeOK, player, deck, ghosts
<1>4. ButtonType'
  BY <1>2 DEF IInv, TypeOK, ButtonType
<1>5. Held' /\ ButtonComputed'
  BY <1>2 DEF Held, ButtonComputed, deck
<1> QED BY <1>1, <1>2, <1>3, <1>4, <1>5, PressingKeeps DEF deck

LEMMA LoadedElapsedIs ==
    ASSUME IInv, button.at \in {"set", "in", "out"}
    PROVE  /\ button.pl \in Players /\ button.late \in BOOLEAN
           /\ LoadedElapsed(button.pl) \in Times
           /\ button.at # "out" => button.label \in Labels
           /\ /\ ~button.late /\ ~In(button.pl, "position") /\ button.at # "set"
              => LoadedElapsed(button.pl) = player_get_elapsed(button.pl)
<1>1. button.pl \in Players /\ button.position \in Times /\ button.late \in BOOLEAN
      /\ (button.at # "out" => button.label \in Labels)
  BY DEF IInv, ButtonType
<1>2. LoadedElapsed(button.pl) \in Times
  BY <1>1, MinusIs DEF IInv, TypeOK, LoadedElapsed
<1>3. ~button.late /\ ~In(button.pl, "position") /\ button.at # "set"
        => button.position = position[button.pl]
  BY DEF IInv, ButtonComputed
<1> QED BY <1>1, <1>2, <1>3 DEF LoadedElapsed, player_get_elapsed

(* A cue point is set where the deck is.                                   *)
LEMMA SetCueKeeps ==
    ASSUME IInv, NEW p \in Players, SetCue(p)
    PROVE  IInv'
<1>1. button.at = "set" /\ button.pl = p
  BY DEF SetCue
<1>2. LoadedElapsed(p) \in Times
  BY <1>1, LoadedElapsedIs
<1>3. /\ cue' = [cue EXCEPT ![p][button.label] = LoadedElapsed(p)]
      /\ button' = [at |-> "idle"]
      /\ UNCHANGED <<position, offset, player, punch, audio, ui, ghosts>>
  BY DEF SetCue
<1>4. TypeOK'
  BY <1>2, <1>3 DEF IInv, TypeOK, player, ghosts
<1>5. ButtonType' /\ Held' /\ ButtonComputed'
  BY <1>3 DEF ButtonType, Held, ButtonComputed
<1> QED BY <1>1, <1>3, <1>4, <1>5, PressingKeeps

(* A punch in seeks and takes down how to return; a punch out returns.     *)
LEMMA SeekKeeps ==
    ASSUME IInv, NEW p \in Players, NEW op \in {"in", "out"}, NEW to \in Times,
           NEW then \in Set, Seek(p, op, to, then),
           button.at \in {"in", "out"}, button.pl = p,
           IF op = "in" THEN then # UNSET ELSE then = UNSET /\ punch[p] # UNSET,
           ~button.late /\ ~In(p, "position")
             => Unpunched(p) = IF op = "in" THEN Minus(to, then) ELSE to
    PROVE  IInv'
<1>1. /\ button' = [at |-> "seek", pl |-> p, op |-> op, to |-> to, punch |-> then,
                    late |-> button.late]
      /\ UNCHANGED <<position, offset, player, deck, audio, ui, ghosts>>
  BY DEF Seek
<1>2. TypeOK'
  BY <1>1 DEF IInv, TypeOK, player, deck, ghosts
<1>3. ButtonType'
  BY <1>1, LoadedElapsedIs DEF ButtonType
<1>4. Held' /\ ButtonComputed'
  BY <1>1 DEF Held, ButtonComputed, Unpunched, player_get_elapsed, In, deck
<1> QED BY <1>1, <1>2, <1>3, <1>4, PressingKeeps DEF deck

LEMMA PunchInKeeps ==
    ASSUME IInv, NEW p \in Players, PunchIn(p)
    PROVE  IInv'
<1> DEFINE to == cue[p][button.label]
           e == Minus(LoadedElapsed(p), IF punch[p] = UNSET THEN 0 ELSE punch[p])
           then == Minus(to, e)
<1>1. button.at = "in" /\ button.pl = p /\ Seek(p, "in", to, then)
  BY DEF PunchIn
<1>2. to \in Times
  BY <1>1, LoadedElapsedIs DEF IInv, TypeOK, Held
<1>3. e \in Times
  BY <1>1, LoadedElapsedIs, MinusIs, Numbers DEF IInv, TypeOK
<1>4. ~button.late /\ ~In(p, "position") => Unpunched(p) = e
  BY <1>1, LoadedElapsedIs DEF Unpunched
<1> HIDE DEF e
<1>5. then \in Times /\ Minus(to, then) = e
  BY <1>2, <1>3, MinusIs, SeekLaw
<1> HIDE DEF to, then
<1>6. then \in Set /\ then # UNSET
  BY <1>5, Numbers DEF Set
<1> QED BY <1>1, <1>2, <1>4, <1>5, <1>6, SeekKeeps

LEMMA PunchOutKeeps ==
    ASSUME IInv, NEW p \in Players, PunchOut(p)
    PROVE  IInv'
<1> DEFINE to == Minus(LoadedElapsed(p), punch[p])
<1>1. button.at = "out" /\ button.pl = p /\ Seek(p, "out", to, UNSET)
  BY DEF PunchOut
<1>2. punch[p] # UNSET /\ punch[p] \in Times
  BY <1>1 DEF IInv, TypeOK, Held
<1>3. to \in Times
  BY <1>1, <1>2, LoadedElapsedIs, MinusIs
<1>4. ~button.late /\ ~In(p, "position") => Unpunched(p) = to
  BY <1>1, <1>2, LoadedElapsedIs DEF Unpunched
<1> HIDE DEF to
<1> QED BY <1>1, <1>2, <1>3, <1>4, SeekKeeps DEF Set

(* The load of a seek: from here on the deck is where it ought to be only  *)
(* after the store.                                                        *)
LEMMA LoadKeeps ==
    ASSUME IInv, NEW p \in Players, NEW op \in {"cue", "in", "out"},
           NEW to \in Times, NEW then \in Set, NEW late \in BOOLEAN,
           Load(p, op, to, then, late),
           button.at # "store",
           op = "in" => then # UNSET,
           ~late /\ ~In(p, "position") /\ op # "cue"
             => Unpunched(p) = IF op = "in" THEN Minus(to, then) ELSE to
    PROVE  IInv'
<1> DEFINE known == ~late /\ ~raced[p] /\ ~Busy(p) /\ ~In(p, "position")
           new == IF op = "out" /\ known /\ home[p] # UNSET THEN home[p] ELSE to
           back == IF op # "in" \/ ~known THEN UNSET
                   ELSE IF punch[p] = UNSET THEN elapsed[p] ELSE home[p]
<1>1. /\ button' = [at |-> "store", pl |-> p, offset |-> Minus(position[p], to),
                    punch |-> then, late |-> late]
      /\ elapsed' = [elapsed EXCEPT ![p] = new]
      /\ home' = [home EXCEPT ![p] = back]
      /\ SpoilsKey(p)
      /\ UNCHANGED <<position, offset, player, deck, audio, raced>>
  BY DEF Load
<1>2. /\ position[p] \in Times /\ elapsed[p] \in Times
      /\ Minus(position[p], to) \in Times /\ Minus(position[p], Minus(position[p], to)) = to
  BY MinusIs, SeekLaw DEF IInv, TypeOK
<1>3. new \in Times /\ back \in Set
  BY <1>2 DEF IInv, TypeOK, Set
<1>4. known /\ (punch[p] = UNSET \/ home[p] # UNSET)
        => /\ ~Storing(p) /\ ~Sought(p) /\ elapsed[p] = player_get_elapsed(p)
           /\ home[p] # UNSET => punch[p] # UNSET /\ home[p] = Unpunched(p)
  <2> HAVE known /\ (punch[p] = UNSET \/ home[p] # UNSET)
  <2>1. ~Storing(p) /\ ~Sought(p)
    BY DEF Storing, Sought, Busy
  <2>2. elapsed[p] = player_get_elapsed(p)
    BY <2>1 DEF IInv, Placed, Where, player_get_elapsed
  <2>3. home[p] # UNSET => punch[p] # UNSET /\ home[p] = Minus(elapsed[p], punch[p])
    BY <2>1 DEF IInv, Homely
  <2> QED BY <2>1, <2>2, <2>3 DEF Unpunched
<1>5. ~late /\ ~In(p, "position") => new = to
  BY <1>4
<1>6. back # UNSET => /\ ~raced[p] /\ ~Storing(p) /\ op = "in"
                      /\ back = Minus(to, then)
  <2> SUFFICES ASSUME back # UNSET
               PROVE  ~raced[p] /\ ~Storing(p) /\ op = "in" /\ back = Unpunched(p)
    OBVIOUS
  <2>1. known /\ op = "in" /\ (punch[p] = UNSET \/ home[p] # UNSET)
    OBVIOUS
  <2>2. /\ ~Storing(p) /\ elapsed[p] = player_get_elapsed(p)
        /\ punch[p] # UNSET => back = Unpunched(p)
    BY <1>4, <2>1
  <2>3. punch[p] = UNSET => back = Unpunched(p)
    BY <1>2, <2>1, <2>2, SeekLaw DEF Unpunched
  <2> QED BY <2>1, <2>2, <2>3
<1> HIDE DEF new, back, known
<1>a. TypeOK'
  BY <1>1, <1>3 DEF IInv, TypeOK, Set, player, deck
<1>b. AudioType' /\ ButtonType' /\ UiType'
  BY <1>1, <1>2, SpoilingKey DEF IInv, AudioType, ButtonType
<1>c. Loaded' /\ Held'
  BY <1>1 DEF IInv, Loaded, Held, In, player
<1>d. /\ elapsed'[p] = new /\ home'[p] = back
      /\ \A q \in Players \ {p} : elapsed'[q] = elapsed[q] /\ home'[q] = home[q]
      /\ \A q \in Players : Storing(q)' <=> Storing(q)
      /\ Sought(p)' /\ \A q \in Players \ {p} : ~Sought(q)' /\ ~Sought(q)
  BY <1>1, SpoilingKey DEF IInv, TypeOK, Storing, Sought
<1>e. Placed'
  BY <1>1, <1>d DEF IInv, Placed, Where, In, player
<1>f. KeyComputed'
  <2> SUFFICES ASSUME ui'.at \in {"from", "clone", "store"}, ~ui'.late,
                      ~In(ui.pl, "position")', ~In(ui.from, "position")'
               PROVE  KeyComputed!2'
    BY DEF KeyComputed
  <2>1. ui' = ui /\ ~Busy(p) /\ ui.pl \in Players \ {p}
    BY <1>1, SpoilingKey DEF IInv, Busy, UiType
  <2>2. KeyComputed!2
    BY <1>1, <2>1 DEF IInv, KeyComputed, In
  <2> QED BY <1>1, <1>d, <2>1, <2>2
<1>g. ButtonComputed'
  BY <1>1, <1>2, <1>5, <1>d DEF ButtonComputed, In
<1>h. Homely'
  <2> SUFFICES ASSUME NEW q \in Players, home'[q] # UNSET
               PROVE  Homely!(q)!2'
    BY DEF Homely
  <2>1. CASE q = p
    <3>1. then = button'.punch /\ then # UNSET /\ home'[p] = Minus(to, then)
      BY <1>1, <1>6, <1>d, <2>1
    <3>2. elapsed'[p] = to
      <4>1. ~late /\ ~In(p, "position")
        BY <1>d, <2>1 DEF back, known
      <4> QED BY <1>5, <1>d, <4>1
    <3> QED BY <1>1, <1>6, <1>d, <2>1, <3>1, <3>2
  <2>2. CASE q # p
    BY <1>1, <1>d, <2>2 DEF IInv, Homely, deck
  <2> QED BY <2>1, <2>2
<1> QED BY <1>a, <1>b, <1>c, <1>e, <1>f, <1>g, <1>h DEF IInv

LEMMA CueKeeps ==
    ASSUME IInv, NEW p \in Players, NEW l \in Labels, deck_cue(p, l)
    PROVE  IInv'
<1>1. RealtimeIsFree /\ button.at = "idle"
  BY DEF deck_cue, RealtimeIsFree
<1>2. CASE cue[p][l] = UNSET /\ Elapsed(p, "set", l)
  BY <1>1, <1>2, ElapsedKeeps
<1>3. CASE cue[p][l] # UNSET /\ Load(p, "cue", cue[p][l], punch[p], FALSE)
  <2>1. cue[p][l] \in Times /\ punch[p] \in Set
    BY <1>3 DEF IInv, TypeOK, Set
  <2> QED BY <1>1, <1>3, <2>1, LoadKeeps
<1> QED BY <1>2, <1>3 DEF deck_cue

LEMMA PunchKeeps ==
    ASSUME IInv, NEW p \in Players,
           deck_punch_out(p) \/ \E l \in Labels : deck_punch_in(p, l)
    PROVE  IInv'
<1>1. CASE deck_punch_out(p)
  BY <1>1, ElapsedKeeps DEF deck_punch_out
<1>2. CASE \E l \in Labels : deck_punch_in(p, l)
  <2>1. PICK l \in Labels : deck_punch_in(p, l)
    BY <1>2
  <2>2. CASE cue[p][l] = UNSET
    BY <2>1, <2>2, ElapsedKeeps DEF deck_punch_in
  <2>3. CASE cue[p][l] # UNSET
    BY <2>1, <2>3, ElapsedKeeps DEF deck_punch_in
  <2> QED BY <2>2, <2>3
<1> QED BY <1>1, <1>2

LEMMA SeekLoadKeeps ==
    ASSUME IInv, NEW p \in Players, SeekLoad(p)
    PROVE  IInv'
<1>1. /\ button.at = "seek" /\ button.pl = p
      /\ Load(p, button.op, button.to, button.punch, button.late)
  BY DEF SeekLoad
<1>2. /\ button.op \in {"in", "out"} /\ button.to \in Times /\ button.punch \in Set
      /\ button.late \in BOOLEAN
  BY <1>1 DEF IInv, ButtonType
<1>3. /\ button.op = "in" => button.punch # UNSET
      /\ ~button.late /\ ~In(p, "position")
           => Unpunched(p) = IF button.op = "in" THEN Minus(button.to, button.punch)
                                                 ELSE button.to
  BY <1>1 DEF IInv, Held, ButtonComputed
<1> QED BY <1>1, <1>2, <1>3, LoadKeeps

LEMMA SeekStoreKeeps ==
    ASSUME IInv, NEW p \in Players, SeekStore(p)
    PROVE  IInv'
<1>a. /\ button.at = "store" /\ button.pl = p /\ button.offset \in Times
      /\ button.punch \in Set /\ button.late \in BOOLEAN
  BY DEF IInv, ButtonType, SeekStore
<1>b. /\ offset' = [offset EXCEPT ![p] = button.offset]
      /\ punch' = [punch EXCEPT ![p] = button.punch]
      /\ raced' = [raced EXCEPT ![p] = button.late \/ Calibrating(p)]
      /\ home' = [home EXCEPT ![p] = IF raced'[p] THEN UNSET ELSE @]
      /\ button' = [at |-> "idle"] /\ SpoilsKey(p)
      /\ UNCHANGED <<position, player, cue, audio, elapsed>>
  BY DEF SeekStore
<1>c. /\ \A q \in Players \ {p} : /\ offset'[q] = offset[q] /\ punch'[q] = punch[q]
                                 /\ raced'[q] = raced[q] /\ home'[q] = home[q]
      /\ offset'[p] = button.offset /\ punch'[p] = button.punch
      /\ raced'[p] = (button.late \/ Calibrating(p))
      /\ home'[p] = IF raced'[p] THEN UNSET ELSE home[p]
      /\ \A q \in Players : Storing(q)' <=> Storing(q)
      /\ Sought(p) /\ ~Sought(p)' /\ \A q \in Players \ {p} : ~Sought(q)' /\ ~Sought(q)
  BY <1>a, <1>b, SpoilingKey DEF IInv, TypeOK, Storing, Sought
<1>1. TypeOK'
  <2>1. raced'[p] \in BOOLEAN /\ raced' \in [Players -> BOOLEAN]
    BY <1>a, <1>b DEF IInv, TypeOK, Calibrating
  <2> QED BY <1>a, <1>b, <2>1 DEF IInv, TypeOK, Set, player
<1>2. AudioType' /\ ButtonType' /\ UiType'
  BY <1>b, SpoilingKey DEF IInv, AudioType, ButtonType
<1>3. Loaded'
  BY <1>b, <1>c DEF IInv, Loaded, In, player, Calibrating
<1>4. Held' /\ ButtonComputed'
  BY <1>b DEF Held, ButtonComputed
<1>5. Placed'
  <2> SUFFICES ASSUME NEW q \in Players, ~Storing(q)', ~Sought(q)', ~raced'[q]
               PROVE  Where(q)' = elapsed'[q]
    BY DEF Placed
  <2>1. CASE q = p
    <3>1. ~button.late /\ ~In(p, "position")
      BY <1>c, <2>1 DEF Calibrating, In
    <3>2. Minus(position[p], button.offset) = elapsed[p]
      BY <1>a, <3>1 DEF IInv, ButtonComputed
    <3> QED BY <1>b, <1>c, <2>1, <3>1, <3>2 DEF Where, In
  <2>2. CASE q # p
    BY <1>b, <1>c, <2>2 DEF IInv, Placed, Where, In, player
  <2> QED BY <2>1, <2>2
<1>6. KeyComputed'
  <2> SUFFICES ASSUME ui'.at \in {"from", "clone", "store"}, ~ui'.late,
                      ~In(ui.pl, "position")', ~In(ui.from, "position")'
               PROVE  KeyComputed!2'
    BY <1>b, SpoilingKey DEF IInv, KeyComputed
  <2>1. ui' = ui /\ ~Busy(p) /\ ui.pl \in Players \ {p} /\ ui.from \in Players \ {p}
    BY <1>b, SpoilingKey DEF IInv, Busy, UiType
  <2>2. KeyComputed!2
    BY <1>b, <2>1 DEF IInv, KeyComputed, In
  <2> QED BY <1>b, <1>c, <2>1, <2>2
<1>7. Homely'
  <2> SUFFICES ASSUME NEW q \in Players, home'[q] # UNSET
               PROVE  Homely!(q)!2'
    BY DEF Homely
  <2>1. CASE q = p
    BY <1>b, <1>c, <2>1 DEF IInv, TypeOK, Homely
  <2>2. CASE q # p
    BY <1>b, <1>c, <2>2 DEF IInv, Homely
  <2> QED BY <2>1, <2>2
<1> QED BY <1>1, <1>2, <1>3, <1>4, <1>5, <1>6, <1>7 DEF IInv

(* The interface thread (interface.c:1435) loads and computes, then        *)
(* stores: what it computed is right at the store, unless it is late.      *)
LEMMA KeyingKeeps ==
    ASSUME IInv, TypeOK', UiType', KeyComputed',
           ui.at # "store", ui'.at # "store",
           \A p \in Players : target_position'[p] = target_position[p],
           UNCHANGED <<position, offset, deck, audio, button, ghosts>>
    PROVE  IInv'
<1>1. AudioType' /\ ButtonType'
  BY DEF IInv, AudioType, ButtonType
<1>2. Loaded' /\ Held'
  BY DEF IInv, Loaded, Held, In, deck, ghosts
<1>3. Placed'
  BY DEF IInv, Placed, Where, Storing, Sought, In, ghosts
<1>4. ButtonComputed'
  BY DEF IInv, ButtonComputed, Unpunched, player_get_elapsed, In, deck, ghosts
<1>5. Homely'
  BY DEF IInv, Homely, Storing, Sought, deck, ghosts
<1> QED BY <1>1, <1>2, <1>3, <1>4, <1>5 DEF IInv

(* Recuing and cloning alike: from the load on, the deck is where it ought *)
(* to be only after the store.                                             *)
LEMMA KeyedKeeps ==
    ASSUME IInv, NEW p \in Players, NEW want \in Times,
           elapsed' = [elapsed EXCEPT ![p] = want],
           home' = [home EXCEPT ![p] = UNSET],
           SpoilsButton(p),
           UiType', KeyComputed', ui'.at = "store", ui'.pl = p, ui.at # "store",
           UNCHANGED <<position, offset, player, deck, audio, raced>>
    PROVE  IInv'
<1>1. TypeOK'
  BY DEF IInv, TypeOK, player, deck
<1>2. AudioType' /\ ButtonType'
  BY SpoilingButton DEF IInv, AudioType
<1>3. Loaded' /\ Held'
  BY SpoilingButton DEF IInv, Loaded, Held, In, player, deck
<1>4. /\ home'[p] = UNSET
      /\ \A q \in Players \ {p} : elapsed'[q] = elapsed[q] /\ home'[q] = home[q]
      /\ Storing(p)' /\ \A q \in Players \ {p} : ~Storing(q)' /\ ~Storing(q)
      /\ \A q \in Players : Sought(q)' <=> Sought(q)
  BY SpoilingButton DEF IInv, TypeOK, Storing, Sought
<1>5. Placed'
  BY <1>4 DEF IInv, Placed, Where, In, player
<1>6. ButtonComputed'
  <2> SUFFICES ASSUME button'.at \notin {"idle", "set"}, ~button'.late,
                      ~In(button.pl, "position")'
               PROVE  ButtonComputed!2'
    BY SpoilingButton DEF IInv, ButtonComputed
  <2>1. button' = button /\ ~Pressed(p) /\ button.pl \in Players \ {p}
    BY SpoilingButton DEF IInv, Pressed, ButtonType
  <2>2. ButtonComputed!2
    BY <2>1 DEF IInv, ButtonComputed, In
  <2> QED BY <1>4, <2>1, <2>2 DEF Unpunched, player_get_elapsed, deck
<1>7. Homely'
  <2> SUFFICES ASSUME NEW q \in Players, home'[q] # UNSET
               PROVE  Homely!(q)!2'
    BY DEF Homely
  <2>1. q # p
    BY <1>4
  <2>2. Sought(q) => button'.punch = button.punch
    BY SpoilingButton DEF IInv, Sought
  <2> QED BY <1>4, <2>1, <2>2 DEF IInv, Homely, deck
<1> QED BY <1>1, <1>2, <1>3, <1>5, <1>6, <1>7 DEF IInv

LEMMA RecueKeeps ==
    ASSUME IInv, NEW p \in Players, deck_recue(p)
    PROVE  IInv'
<1>1. /\ ui.at = "idle"
      /\ ui' = [at |-> "store", pl |-> p, from |-> p, offset |-> position[p],
                late |-> FALSE]
      /\ elapsed' = [elapsed EXCEPT ![p] = 0] /\ home' = [home EXCEPT ![p] = UNSET]
      /\ SpoilsButton(p)
      /\ UNCHANGED <<position, offset, player, deck, audio, raced>>
  BY DEF deck_recue, UiIdle
<1>2. UiType'
  BY <1>1 DEF IInv, TypeOK, UiType
<1>3. KeyComputed'
  BY <1>1, SeekLaw DEF IInv, TypeOK, KeyComputed
<1> QED BY <1>1, <1>2, <1>3, Numbers, KeyedKeeps

LEMMA CloneOutsetKeeps ==
    ASSUME IInv, NEW p \in Players, NEW from \in Players, deck_clone(p, from)
    PROVE  IInv'
<1> DEFINE late == raced[from] \/ (Pressed(from) /\ button.at = "store")
<1>1. /\ ui.at = "idle"
      /\ ui' = [at |-> "from", pl |-> p, from |-> from, elapsed |-> position[from],
                want |-> elapsed[from], late |-> late]
      /\ UNCHANGED <<position, offset, player, deck, audio, button, ghosts>>
  BY DEF deck_clone, UiIdle
<1>2. TypeOK'
  BY <1>1 DEF IInv, TypeOK, player, deck, ghosts
<1>3. late \in BOOLEAN
  BY DEF IInv, TypeOK
<1>4. ~late /\ ~In(from, "position")
        => Minus(position[from], offset[from]) = elapsed[from]
  BY <1>1 DEF IInv, Placed, Where, Storing, Sought, Pressed
<1> HIDE DEF late
<1>5. UiType'
  BY <1>1, <1>3 DEF IInv, TypeOK, UiType
<1>6. KeyComputed'
  BY <1>1, <1>4 DEF KeyComputed, In
<1> QED BY <1>1, <1>2, <1>5, <1>6, KeyingKeeps DEF player

LEMMA CloneFromKeeps ==
    ASSUME IInv, CloneFrom
    PROVE  IInv'
<1>1. /\ ui \in [at : {"from"}, pl : Players, from : Players, elapsed : Times,
                  want : Times, late : BOOLEAN]
      /\ ui' = [ui EXCEPT !.at = "clone", !.elapsed = Minus(@, offset[ui.from])]
      /\ UNCHANGED <<position, offset, player, deck, audio, button, ghosts>>
  BY DEF IInv, UiType, CloneFrom
<1>2. TypeOK'
  BY <1>1 DEF IInv, TypeOK, player, deck, ghosts
<1>3. Minus(ui.elapsed, offset[ui.from]) \in Times
  BY <1>1, MinusIs DEF IInv, TypeOK
<1>4. UiType'
  BY <1>1, <1>3 DEF UiType
<1>5. KeyComputed'
  BY <1>1 DEF IInv, KeyComputed, In
<1> QED BY <1>1, <1>2, <1>4, <1>5, KeyingKeeps DEF player

LEMMA CloneKeeps ==
    ASSUME IInv, Clone
    PROVE  IInv'
<1>1. /\ ui \in [at : {"clone"}, pl : Players, from : Players, elapsed : Times,
                  want : Times, late : BOOLEAN]
      /\ ui' = [at |-> "store", pl |-> ui.pl, from |-> ui.from,
                offset |-> Minus(position[ui.pl], ui.elapsed), late |-> ui.late]
      /\ elapsed' = [elapsed EXCEPT ![ui.pl] = ui.want]
      /\ home' = [home EXCEPT ![ui.pl] = UNSET]
      /\ SpoilsButton(ui.pl)
      /\ UNCHANGED <<position, offset, player, deck, audio, raced>>
  BY DEF IInv, UiType, Clone
<1>2. /\ Minus(position[ui.pl], ui.elapsed) \in Times
      /\ Minus(position[ui.pl], Minus(position[ui.pl], ui.elapsed)) = ui.elapsed
  BY <1>1, MinusIs, SeekLaw DEF IInv, TypeOK
<1>3. UiType'
  BY <1>1, <1>2 DEF UiType
<1>4. KeyComputed'
  <2> SUFFICES ASSUME ~ui.late, ~In(ui.pl, "position"), ~In(ui.from, "position")
               PROVE  ui.elapsed = elapsed'[ui.pl]
    BY <1>1, <1>2 DEF KeyComputed, In
  <2>1. ui.elapsed = ui.want
    BY <1>1 DEF IInv, KeyComputed
  <2> QED BY <1>1, <2>1 DEF IInv, TypeOK
<1> QED BY <1>1, <1>3, <1>4, KeyedKeeps

LEMMA UiStoreKeeps ==
    ASSUME IInv, UiStore
    PROVE  IInv'
<1> DEFINE p == ui.pl
           met == ui.late \/ \E q \in {ui.pl, ui.from} : Calibrating(q)
<1>a. /\ ui \in [at : {"store"}, pl : Players, from : Players, offset : Times, late : BOOLEAN]
      /\ p \in Players /\ ui.offset \in Times /\ met \in BOOLEAN
  BY DEF IInv, UiType, UiStore, Calibrating
<1>b. /\ offset' = [offset EXCEPT ![p] = ui.offset]
      /\ home' = [home EXCEPT ![p] = UNSET] /\ raced' = [raced EXCEPT ![p] = met]
      /\ ui' = [at |-> "idle"] /\ SpoilsButton(p)
      /\ UNCHANGED <<position, player, deck, audio, elapsed>>
  BY DEF UiStore
<1>c. ~met => /\ ~Calibrating(p)
              /\ Minus(position[p], ui.offset) = elapsed[p]
  BY <1>a DEF IInv, KeyComputed, Calibrating, In
<1>d. Calibrating(p) => met
  OBVIOUS
<1>e. ui.at = "store" /\ ui'.at = "idle"
  BY <1>a, <1>b
<1> HIDE DEF p, met
<1>f. /\ \A q \in Players \ {p} : /\ offset'[q] = offset[q] /\ raced'[q] = raced[q]
                                 /\ home'[q] = home[q]
      /\ offset'[p] = ui.offset /\ raced'[p] = met /\ home'[p] = UNSET
      /\ \A q \in Players : ~Storing(q)' /\ (q # p => ~Storing(q))
      /\ \A q \in Players : Sought(q)' <=> Sought(q)
  BY <1>a, <1>b, <1>e, SpoilingButton DEF IInv, TypeOK, Storing, Sought, p
<1>1. TypeOK'
  BY <1>a, <1>b DEF IInv, TypeOK, player, deck
<1>2. AudioType' /\ ButtonType' /\ UiType'
  BY <1>a, <1>b, SpoilingButton DEF IInv, AudioType, UiType
<1>3. Loaded'
  BY <1>b, <1>d, <1>f DEF IInv, Loaded, In, player, Calibrating
<1>4. Held'
  BY <1>a, <1>b, SpoilingButton DEF IInv, Held, deck
<1>5. Placed'
  <2> SUFFICES ASSUME NEW q \in Players, ~Sought(q)', ~raced'[q]
               PROVE  Where(q)' = elapsed'[q]
    BY DEF Placed
  <2>1. CASE q = p
    <3>1. ~In(p, "position") /\ Minus(position[p], ui.offset) = elapsed[p]
      BY <1>c, <1>f, <2>1 DEF Calibrating, In
    <3> QED BY <1>b, <1>f, <2>1, <3>1 DEF Where, In
  <2>2. CASE q # p
    BY <1>b, <1>f, <2>2 DEF IInv, Placed, Where, In, player
  <2> QED BY <2>1, <2>2
<1>6. KeyComputed'
  BY <1>e DEF KeyComputed
<1>7. ButtonComputed'
  <2> SUFFICES ASSUME button'.at \notin {"idle", "set"}, ~button'.late,
                      ~In(button.pl, "position")'
               PROVE  ButtonComputed!2'
    BY <1>a, <1>b, SpoilingButton DEF IInv, ButtonComputed
  <2>1. button' = button /\ ~Pressed(p) /\ button.pl \in Players \ {p}
    BY <1>a, <1>b, SpoilingButton DEF IInv, Pressed, ButtonType
  <2>2. ButtonComputed!2
    BY <1>b, <2>1 DEF IInv, ButtonComputed, In
  <2> QED BY <1>b, <1>f, <2>1, <2>2 DEF Unpunched, player_get_elapsed, deck
<1>8. Homely'
  <2> SUFFICES ASSUME NEW q \in Players, home'[q] # UNSET
               PROVE  Homely!(q)!2'
    BY DEF Homely
  <2>1. q # p
    BY <1>f
  <2>2. Sought(q) => button'.punch = button.punch
    BY <1>a, <1>b, SpoilingButton DEF IInv, Sought
  <2> QED BY <1>b, <1>f, <2>1, <2>2 DEF IInv, Homely, deck
<1> QED BY <1>1, <1>2, <1>3, <1>4, <1>5, <1>6, <1>7, <1>8 DEF IInv

(* Switching control or calibration on and off moves nothing.              *)
LEMMA ToggleKeeps ==
    ASSUME IInv, (\E p \in Players : Toggle(p)) \/ ToggleControl \/ ToggleRecalibrate
    PROVE  IInv'
<1>1. ui'.at \in {"control", "recalibrate", "idle"} /\ ui.at # "store" /\ UiType' /\ TypeOK'
  <2>1. CASE \E p \in Players : Toggle(p)
    BY <2>1 DEF IInv, TypeOK, UiType, Toggle, UiIdle, player, deck, ghosts
  <2>2. CASE ToggleControl
    <3>1. /\ ui \in [at : {"control"}, pl : Players, on : BOOLEAN]
          /\ ui' = [ui EXCEPT !.at = "recalibrate"]
      BY <2>2 DEF IInv, UiType, ToggleControl
    <3>2. UiType'
      BY <3>1 DEF UiType
    <3>3. TypeOK'
      BY <2>2, <3>1 DEF IInv, TypeOK, ToggleControl, deck, ghosts
    <3> QED BY <3>1, <3>2, <3>3
  <2>3. CASE ToggleRecalibrate
    BY <2>3 DEF IInv, TypeOK, UiType, ToggleRecalibrate, deck, ghosts
  <2> QED BY <2>1, <2>2, <2>3
<1>2. KeyComputed'
  BY <1>1 DEF KeyComputed
<1> QED BY <1>1, <1>2, KeyingKeeps DEF Toggle, ToggleControl, ToggleRecalibrate, player

LEMMA StutterKeeps ==
    ASSUME IInv, UNCHANGED vars
    PROVE  IInv'
<1>1. TypeOK' /\ AudioType' /\ ButtonType' /\ UiType' /\ Loaded' /\ Held'
  BY DEF IInv, TypeOK, AudioType, ButtonType, UiType, Loaded, Held, In,
         vars, player, deck, ghosts
<1>2. Placed' /\ KeyComputed' /\ ButtonComputed' /\ Homely'
  BY DEF IInv, Placed, Where, Storing, Sought, KeyComputed, ButtonComputed, Unpunched,
         player_get_elapsed, Homely, In, vars, player, deck, ghosts
<1> QED BY <1>1, <1>2 DEF IInv

LEMMA InitHolds == Init => IInv
<1> SUFFICES ASSUME Init PROVE IInv
  OBVIOUS
<1>1. TypeOK /\ AudioType /\ ButtonType /\ UiType
  BY Numbers DEF Init, TypeOK, AudioType, Places, ButtonType, UiType
<1>2. Loaded /\ Held /\ KeyComputed /\ ButtonComputed /\ Homely
  BY DEF Init, Loaded, Held, KeyComputed, ButtonComputed, Homely, In
<1>3. Placed
  BY Numbers, SeekLaw DEF Init, Placed, Where, In
<1> QED BY <1>1, <1>2, <1>3 DEF IInv

(* The steps of the three threads are all there are.                       *)
LEMMA StepKeeps == IInv /\ [Next]_vars => IInv'
<1> SUFFICES ASSUME IInv, [Next]_vars PROVE IInv'
  OBVIOUS
<1>1. CASE Audio
  BY <1>1, CollectKeeps, LeaveTimecodeKeeps, RetargetKeeps, CalibrateOffsetKeeps,
     CalibratePositionKeeps, CalibratedKeeps, SkipKeeps, PlayKeeps DEF Audio
<1>2. CASE Controller
  <2> SUFFICES ASSUME NEW p \in Players,
                      \/ \E l \in Labels : \/ ShiftButton(p, l) \/ deck_cue(p, l)
                                          \/ deck_punch_in(p, l)
                      \/ deck_punch_out(p)
                      \/ SetCue(p) \/ PunchIn(p) \/ PunchOut(p) \/ SeekLoad(p) \/ SeekStore(p)
               PROVE  IInv'
    BY <1>2, DeckAssumption DEF Controller
  <2> QED BY ShiftButtonKeeps, CueKeeps, PunchKeeps, SetCueKeeps, PunchInKeeps,
             PunchOutKeeps, SeekLoadKeeps, SeekStoreKeeps
<1>3. CASE Interface
  BY <1>3, RecueKeeps, ToggleKeeps, CloneOutsetKeeps, CloneFromKeeps, CloneKeeps,
     UiStoreKeeps, DeckAssumption DEF Interface
<1>4. CASE UNCHANGED vars
  BY <1>4, StutterKeeps
<1> QED BY <1>1, <1>2, <1>3, <1>4 DEF Next

-----------------------------------------------------------------------------
(* The invariant holds of every behaviour.                                 *)
THEOREM Invariance == Spec => []IInv
<1> QED BY InitHolds, StepKeeps, PTL DEF Spec

(* The fields of the players and of the decks hold what they are for.      *)
THEOREM TypeCorrect == Spec => []TypeOK
<1>1. IInv => TypeOK
  BY DEF IInv
<1> QED BY <1>1, Invariance, PTL

(* Calibrating, recuing, cloning, cuing and punching leave a deck where    *)
(* they say, whatever the threads do meanwhile and whichever of them plays *)
(* it, unless an operation of one ran into one of another (player.c:360,   *)
(* player.c:270, deck.c:148).                                              *)
THEOREM DeckPlaysWhereItShould == Spec => []PlaysWhereItShould
<1>1. IInv => PlaysWhereItShould
  <2> SUFFICES ASSUME IInv, Quiet, NEW p \in Players, ~raced[p]
               PROVE  player_get_elapsed(p) = elapsed[p]
    BY DEF PlaysWhereItShould
  <2>1. ~Storing(p) /\ ~Sought(p) /\ ~In(p, "position")
    BY DEF Quiet, UiIdle, In, Storing, Sought
  <2> QED BY <2>1 DEF IInv, Placed, Where, player_get_elapsed
<1> QED BY <1>1, Invariance, PTL

(* The punch that is stored leads back to where the deck would be without  *)
(* it, however often it was punched in, and whatever was played, jumped    *)
(* and calibrated since (deck.c:148), if it is known where that is.        *)
THEOREM DeckPunchLeadsHome == Spec => []PunchLeadsHome
<1>1. IInv => PunchLeadsHome
  <2> SUFFICES ASSUME IInv, Quiet, NEW p \in Players, home[p] # UNSET
               PROVE  Minus(player_get_elapsed(p), punch[p]) = home[p]
    BY DEF PunchLeadsHome
  <2>1. ~Storing(p) /\ ~Sought(p) /\ ~In(p, "position")
    BY DEF Quiet, UiIdle, In, Storing, Sought
  <2>2. ~raced[p] /\ home[p] = Minus(elapsed[p], punch[p])
    BY <2>1 DEF IInv, Homely
  <2>3. player_get_elapsed(p) = elapsed[p]
    BY <2>1, <2>2 DEF IInv, Placed, Where, player_get_elapsed
  <2> QED BY <2>2, <2>3
<1> QED BY <1>1, Invariance, PTL

(* Where the realtime thread plays every deck and no key is pressed, a     *)
(* button is done before a deck is collected from again.                   *)
Undisturbed ==
    /\ ui.at = "idle" /\ \A p \in Players : ~raced[p]
    /\ button.at # "idle" => \A p \in Players : In(p, "poll")
    /\ button.at \notin {"idle", "set"} => ~button.late

LEMMA UndisturbedStays ==
    ASSUME Jack = {}, Keyed = {}, IInv, Undisturbed, [Next]_vars
    PROVE  Undisturbed'
<1>a. ui.at = "idle" /\ \A p \in Players : ~Busy(p)
  BY DEF Undisturbed, Busy
<1>b. \A p \in Players : ~In(p, "poll") => ~Pressed(p)
  BY DEF Undisturbed, Pressed
<1>1. ASSUME NEW p \in Players, Collect(p) PROVE Undisturbed'
  <2>1. button.at = "idle" /\ button' = button /\ UNCHANGED <<ui, raced>>
    BY <1>1 DEF Collect, RealtimeIsFree, ghosts
  <2> QED BY <2>1 DEF Undisturbed
<1>2. ASSUME NEW p \in Players,
             \/ LeaveTimecode(p) \/ Retarget(p) \/ CalibrateOffset(p)
             \/ CalibratePosition(p) \/ Calibrated(p) \/ Skip(p) \/ Play(p)
      PROVE  Undisturbed'
  <2>1. ~In(p, "poll")
    BY <1>2 DEF LeaveTimecode, Retarget, CalibrateOffset, CalibratePosition, Calibrated,
                Skip, Play, In
  <2>2. button.at = "idle" /\ ~Pressed(p) /\ ~Busy(p)
    BY <1>a, <1>b, <2>1 DEF Undisturbed
  <2>3. UNCHANGED <<button, ui, raced>>
    BY <1>2, <2>2 DEF LeaveTimecode, Retarget, CalibrateOffset, CalibratePosition, Calibrated,
                      Skip, Play, SpoilsKey, SpoilsButton, MovesOn, ghosts
  <2> QED BY <2>2, <2>3 DEF Undisturbed
<1>3. ASSUME NEW p \in Players, NEW l \in Labels, ShiftButton(p, l)
      PROVE  Undisturbed'
  BY <1>3 DEF Undisturbed, ShiftButton, ghosts, In
<1>4. RealtimeIsFree => \A q \in Players : In(q, "poll")
  BY DEF RealtimeIsFree
<1>5. ASSUME NEW p \in Players, NEW then, NEW l, Elapsed(p, then, l), RealtimeIsFree
      PROVE  Undisturbed'
  BY <1>4, <1>5 DEF Undisturbed, Elapsed, ghosts, In
<1>6. ASSUME NEW p \in Players, NEW op, NEW to, NEW then, Load(p, op, to, then, FALSE),
             \A q \in Players : In(q, "poll")
      PROVE  Undisturbed'
  BY <1>a, <1>6 DEF Undisturbed, Load, SpoilsKey, In
<1>7. ASSUME NEW p \in Players, NEW l \in Labels, deck_cue(p, l) \/ deck_punch_in(p, l)
      PROVE  Undisturbed'
  BY <1>4, <1>5, <1>6, <1>7 DEF deck_cue, deck_punch_in
<1>8. ASSUME NEW p \in Players, deck_punch_out(p) PROVE Undisturbed'
  BY <1>5, <1>8 DEF deck_punch_out
<1>9. ASSUME NEW p \in Players, SetCue(p) PROVE Undisturbed'
  BY <1>9 DEF Undisturbed, SetCue, ghosts, In
<1>10. ASSUME NEW p \in Players, PunchIn(p) \/ PunchOut(p) PROVE Undisturbed'
  <2>1. button'.late = button.late /\ button.at \in {"in", "out"} /\ button'.at = "seek"
        /\ UNCHANGED <<audio, ui, raced>>
    BY <1>10 DEF PunchIn, PunchOut, Seek, ghosts
  <2> QED BY <2>1 DEF Undisturbed, In
<1>11. ASSUME NEW p \in Players, SeekLoad(p) PROVE Undisturbed'
  <2>1. /\ Load(p, button.op, button.to, button.punch, button.late)
        /\ button.at = "seek" /\ ~button.late /\ \A q \in Players : In(q, "poll")
    BY <1>11 DEF Undisturbed, SeekLoad
  <2>2. button.late = FALSE
    BY <2>1 DEF IInv, ButtonType
  <2> QED BY <1>6, <2>1, <2>2
<1>12. ASSUME NEW p \in Players, SeekStore(p) PROVE Undisturbed'
  <2>1. button.at = "store" /\ ~button.late /\ In(p, "poll")
    BY <1>12 DEF Undisturbed, SeekStore
  <2>2. ~(button.late \/ Calibrating(p))
    BY <2>1 DEF Calibrating, In
  <2>3. raced' = [raced EXCEPT ![p] = FALSE] /\ ui' = ui /\ button' = [at |-> "idle"]
    BY <1>a, <1>12, <2>2 DEF SeekStore, SpoilsKey
  <2> QED BY <2>3 DEF Undisturbed, IInv, TypeOK
<1>13. CASE Audio
  BY <1>13, <1>1, <1>2 DEF Audio
<1>14. CASE Controller
  BY <1>14, <1>3, <1>7, <1>8, <1>9, <1>10, <1>11, <1>12, DeckAssumption DEF Controller
<1>15. ~Interface
  BY <1>a DEF Interface, CloneFrom, Clone, UiStore, ToggleControl, ToggleRecalibrate
<1>16. CASE UNCHANGED vars
  BY <1>16 DEF Undisturbed, In, vars, ghosts
<1> QED BY <1>13, <1>14, <1>15, <1>16 DEF Next

(* There no operation runs into another, and every one of them holds       *)
(* (player.c:404, deck.c:135): what is lost is lost to the function keys   *)
(* and to the thread of JACK.                                              *)
THEOREM DeckOperationsHold ==
    ASSUME Jack = {}, Keyed = {}
    PROVE  Spec => []EveryOperationHolds
<1>1. Init => Undisturbed
  BY DEF Init, Undisturbed
<1>2. IInv /\ Undisturbed /\ [Next]_vars => Undisturbed'
  BY UndisturbedStays
<1>3. IInv /\ Undisturbed => EveryOperationHolds
  <2> SUFFICES ASSUME IInv, Undisturbed, Quiet, NEW p \in Players
               PROVE  player_get_elapsed(p) = elapsed[p]
    BY DEF EveryOperationHolds
  <2>1. ~Storing(p) /\ ~Sought(p) /\ ~In(p, "position") /\ ~raced[p]
    BY DEF Undisturbed, Quiet, UiIdle, In, Storing, Sought
  <2> QED BY <2>1 DEF IInv, Placed, Where, player_get_elapsed
<1> QED BY <1>1, <1>2, <1>3, Invariance, PTL DEF Spec

-----------------------------------------------------------------------------
(* The memory of a track, filled while it is read.                         *)

(* The samples that are whole.                                             *)
Whole == bytes \div SAMPLE

(* The memory is of whole blocks, and holds what was read.                 *)
Shape ==
    /\ at \in {"access", "read", "commit", "publish", "done"}
    /\ len \in Nat /\ bytes \in Nat /\ length \in Nat
    /\ blocks \in 0..TRACK_MAX_BLOCKS
    /\ pcm \in Seq(Int) /\ Len(pcm) = blocks * TRACK_BLOCK_PCM_BYTES
    /\ bytes <= Len(pcm)

(* A read stays in the block it begins in.                                 *)
InBlock ==
    at \in {"read", "commit"} =>
        /\ len <= TRACK_BLOCK_PCM_BYTES - (bytes % TRACK_BLOCK_PCM_BYTES)
        /\ bytes + len <= Len(pcm)

(* All that is whole is published, but between the meter and the addition; *)
(* then, what is not published yet is of the block in which the track ends. *)
Counted ==
    IF at = "publish"
    THEN length <= Whole /\ Whole <= (length \div TRACK_BLOCK_SAMPLES + 1) * TRACK_BLOCK_SAMPLES
    ELSE length = Whole

(* What was read is the stream, whether it is counted yet or not.          *)
Filled ==
    /\ \A i \in 1..bytes : pcm[i] = i - 1
    /\ at = "commit" => \A i \in 1..(bytes + len) : pcm[i] = i - 1

EntryOf(s) == PpmEntry(s \div TRACK_BLOCK_SAMPLES, s % TRACK_BLOCK_SAMPLES)

Metered == \A s \in 0..((IF at = "publish" THEN Whole ELSE length) - 1) : EntryOf(s) \in ppm

BufferInv == Shape /\ InBlock /\ Counted /\ Filled /\ Metered

-----------------------------------------------------------------------------
(* Arithmetic *)

(* The quotient and the remainder.                                         *)
LEMMA DivMod ==
    ASSUME NEW b \in Nat \ {0}, NEW n \in Nat
    PROVE  n \div b \in Nat /\ n % b \in 0..(b - 1) /\ n = (n \div b) * b + (n % b)
OBVIOUS

LEMMA DivUnique ==
    ASSUME NEW b \in Nat \ {0}, NEW n \in Nat, NEW q \in Nat, NEW r \in 0..(b - 1),
           n = q * b + r
    PROVE  n \div b = q /\ n % b = r
OBVIOUS

(* What is less in units is at least one unit less. *)
LEMMA NextMultiple ==
    ASSUME NEW q \in Nat, NEW m \in Nat, NEW b \in Nat, q < m
    PROVE  (q + 1) * b <= m * b
OBVIOUS

LEMMA OneMore ==
    ASSUME NEW q \in Nat, NEW b \in Nat
    PROVE  (q + 1) * b = q * b + b
OBVIOUS

LEMMA Quotients ==
    ASSUME NEW b \in Nat \ {0}, NEW q \in Nat, NEW m \in Nat, q * b < m * b
    PROVE  q < m
OBVIOUS

LEMMA Associates ==
    ASSUME NEW a \in Nat, NEW b \in Nat, NEW c \in Nat
    PROVE  (a * b) * c = a * (b * c)
OBVIOUS

(* Quotients keep the order. *)
LEMMA DivMonotone ==
    ASSUME NEW b \in Nat \ {0}, NEW n \in Nat, NEW m \in Nat, n <= m
    PROVE  n \div b <= m \div b
<1> DEFINE q == n \div b
           p == m \div b
<1>1. q \in Nat /\ p \in Nat /\ q * b <= n /\ m < (p + 1) * b
  BY DivMod
<1> HIDE DEF q, p
<1>2. q * b < (p + 1) * b
  <2>1. q * b \in Nat /\ (p + 1) * b \in Nat
    BY <1>1
  <2> QED BY <1>1, <2>1
<1>3. q < p + 1
  BY <1>1, <1>2, Quotients
<1> QED BY <1>1, <1>3 DEF q, p

(* A block is of whole samples, so a byte and the sample it is in are of   *)
(* the same block.                                                         *)
LEMMA SameBlock ==
    ASSUME NEW b \in Nat
    PROVE  (b \div SAMPLE) \div TRACK_BLOCK_SAMPLES = b \div TRACK_BLOCK_PCM_BYTES
<1> USE TrackBufferAssumption
<1> DEFINE s == b \div SAMPLE
           r == b % SAMPLE
           k == s \div TRACK_BLOCK_SAMPLES
           f == s % TRACK_BLOCK_SAMPLES
<1>1. s \in Nat /\ r \in 0..(SAMPLE - 1) /\ b = s * SAMPLE + r
  BY DivMod
<1>2. k \in Nat /\ f \in 0..(TRACK_BLOCK_SAMPLES - 1) /\ s = k * TRACK_BLOCK_SAMPLES + f
  BY <1>1, DivMod
<1> HIDE DEF s, r, k, f
<1>3. f * SAMPLE + r \in 0..(TRACK_BLOCK_PCM_BYTES - 1)
  <2>1. (f + 1) * SAMPLE <= TRACK_BLOCK_SAMPLES * SAMPLE
    BY <1>2, NextMultiple
  <2>2. f * SAMPLE \in Nat /\ (f + 1) * SAMPLE = f * SAMPLE + SAMPLE
    BY <1>2
  <2>3. TRACK_BLOCK_PCM_BYTES \in Nat /\ TRACK_BLOCK_PCM_BYTES = TRACK_BLOCK_SAMPLES * SAMPLE
    BY DEF TRACK_BLOCK_PCM_BYTES
  <2> QED BY <1>1, <2>1, <2>2, <2>3
<1>4. b = k * TRACK_BLOCK_PCM_BYTES + (f * SAMPLE + r)
  <2>1. s * SAMPLE = (k * TRACK_BLOCK_SAMPLES) * SAMPLE + f * SAMPLE
    BY <1>2
  <2>2. (k * TRACK_BLOCK_SAMPLES) * SAMPLE = k * (TRACK_BLOCK_SAMPLES * SAMPLE)
    BY <1>2, Associates
  <2>3. k * TRACK_BLOCK_PCM_BYTES \in Nat /\ f * SAMPLE \in Nat
    BY <1>2 DEF TRACK_BLOCK_PCM_BYTES
  <2> QED BY <1>1, <2>1, <2>2, <2>3 DEF TRACK_BLOCK_PCM_BYTES
<1>5. TRACK_BLOCK_PCM_BYTES \in Nat \ {0}
  BY DEF TRACK_BLOCK_PCM_BYTES
<1>6. b \div TRACK_BLOCK_PCM_BYTES = k
  BY <1>2, <1>3, <1>4, <1>5, DivUnique
<1> QED BY <1>6 DEF k, s

(* The length of the memory under more_space.                              *)
LEMMA BlockSize == TRACK_BLOCK_PCM_BYTES \in Nat \ {0}
BY TrackBufferAssumption DEF TRACK_BLOCK_PCM_BYTES

(* A piece that stays in the block of the byte it begins at ends at most   *)
(* one block further: the next block begins where this one's samples end.  *)
LEMMA StaysInBlock ==
    ASSUME NEW b \in Nat, NEW z \in Nat,
           z <= TRACK_BLOCK_PCM_BYTES - (b % TRACK_BLOCK_PCM_BYTES)
    PROVE  (b + z) \div SAMPLE <=
             ((b \div SAMPLE) \div TRACK_BLOCK_SAMPLES + 1) * TRACK_BLOCK_SAMPLES
<1> USE TrackBufferAssumption
<1> DEFINE k == b \div TRACK_BLOCK_PCM_BYTES
           r == b % TRACK_BLOCK_PCM_BYTES
           end == (k + 1) * TRACK_BLOCK_SAMPLES
<1>1. k \in Nat /\ r \in 0..(TRACK_BLOCK_PCM_BYTES - 1) /\ b = k * TRACK_BLOCK_PCM_BYTES + r
  BY BlockSize, DivMod
<1>2. z <= TRACK_BLOCK_PCM_BYTES - r
  OBVIOUS
<1> HIDE DEF k, r
<1>3. b + z <= (k + 1) * TRACK_BLOCK_PCM_BYTES
  <2>1. (k + 1) * TRACK_BLOCK_PCM_BYTES = k * TRACK_BLOCK_PCM_BYTES + TRACK_BLOCK_PCM_BYTES
    BY <1>1, BlockSize
  <2>2. k * TRACK_BLOCK_PCM_BYTES \in Nat
    BY <1>1, BlockSize
  <2> QED BY <1>1, <1>2, <2>1, <2>2, BlockSize
<1>4. end \in Nat /\ (k + 1) * TRACK_BLOCK_PCM_BYTES = end * SAMPLE
  BY <1>1, Associates DEF TRACK_BLOCK_PCM_BYTES
<1>5. (b + z) \div SAMPLE <= (end * SAMPLE) \div SAMPLE
  <2> DEFINE e == end * SAMPLE
  <2>1. e \in Nat /\ b + z \in Nat /\ b + z <= e
    BY <1>3, <1>4
  <2> HIDE DEF e
  <2>2. (b + z) \div SAMPLE <= e \div SAMPLE
    BY <2>1, DivMonotone
  <2> QED BY <2>2 DEF e
<1>6. (end * SAMPLE) \div SAMPLE = end
  <2>1. end * SAMPLE = end * SAMPLE + 0 /\ end * SAMPLE \in Nat
    BY <1>4
  <2> QED BY <1>4, <2>1, DivUnique
<1> QED BY <1>5, <1>6, SameBlock DEF k

(* The entry of a sample that is in the block the track ends in.           *)
LEMMA SampleInBlock ==
    ASSUME NEW l \in Nat, NEW s \in Nat, l <= s,
           s < (l \div TRACK_BLOCK_SAMPLES + 1) * TRACK_BLOCK_SAMPLES
    PROVE  /\ s \div TRACK_BLOCK_SAMPLES = l \div TRACK_BLOCK_SAMPLES
           /\ s % TRACK_BLOCK_SAMPLES = (l % TRACK_BLOCK_SAMPLES) + (s - l)
<1> USE TrackBufferAssumption
<1> DEFINE k == l \div TRACK_BLOCK_SAMPLES
           f == l % TRACK_BLOCK_SAMPLES
<1>1. k \in Nat /\ f \in 0..(TRACK_BLOCK_SAMPLES - 1) /\ l = k * TRACK_BLOCK_SAMPLES + f
  BY DivMod
<1>2. s < (k + 1) * TRACK_BLOCK_SAMPLES
  OBVIOUS
<1> HIDE DEF k, f
<1>3. (k + 1) * TRACK_BLOCK_SAMPLES = k * TRACK_BLOCK_SAMPLES + TRACK_BLOCK_SAMPLES
      /\ k * TRACK_BLOCK_SAMPLES \in Nat
  BY <1>1
<1>4. f + (s - l) \in 0..(TRACK_BLOCK_SAMPLES - 1)
      /\ s = k * TRACK_BLOCK_SAMPLES + (f + (s - l))
  BY <1>1, <1>2, <1>3
<1> QED BY <1>1, <1>4, DivUnique DEF k, f

(* The bytes of a whole sample are in.                                     *)
LEMMA WholeSamples ==
    ASSUME NEW b \in Nat, NEW l \in Nat, l <= b \div SAMPLE
    PROVE  l * SAMPLE <= b /\ l * SAMPLE \in Nat
<1> USE TrackBufferAssumption
<1> DEFINE q == b \div SAMPLE
<1>1. q \in Nat /\ q * SAMPLE <= b
  BY DivMod
<1>2. l <= q
  OBVIOUS
<1> HIDE DEF q
<1>3. l * SAMPLE <= q * SAMPLE /\ l * SAMPLE \in Nat /\ q * SAMPLE \in Nat
  BY <1>1, <1>2
<1> QED BY <1>1, <1>3

-----------------------------------------------------------------------------
(* The inductive invariant *)

LEMMA InitInv == BufferInit => BufferInv
<1> SUFFICES ASSUME BufferInit PROVE BufferInv
  OBVIOUS
<1> USE TrackBufferAssumption DEF BufferInit
<1>1. Shape
  BY BlockSize DEF Shape
<1>2. Whole = 0
  BY DivUnique DEF Whole
<1>3. InBlock /\ Counted /\ Filled /\ Metered
  BY <1>2 DEF InBlock, Counted, Filled, Metered
<1> QED BY <1>1, <1>3 DEF BufferInv

(* Memory put behind memory. *)
LEMMA Appended ==
    ASSUME NEW S, NEW s \in Seq(S), NEW t \in Seq(S)
    PROVE  /\ s \o t \in Seq(S) /\ Len(s \o t) = Len(s) + Len(t)
           /\ Len(s) \in Nat /\ Len(t) \in Nat
           /\ \A i \in 1..Len(s) : (s \o t)[i] = s[i]
OBVIOUS

(* A part of memory. *)
LEMMA Part ==
    ASSUME NEW s \in Seq(Int), NEW first \in Nat, NEW z \in Nat, first + z <= Len(s)
    PROVE  SubSeq(s, first + 1, first + z) = [i \in 1..z |-> s[first + i]]
<1>1. /\ first + 1 \in Int /\ first + z \in Int /\ (first + z) - (first + 1) + 1 = z
      /\ \A i \in 1..z : (first + 1) + i - 1 = first + i
  OBVIOUS
<1> QED BY <1>1

(* more_space adds a block, and leaves the memory that was there.          *)
LEMMA MoreSpace ==
    ASSUME BufferInv, more_space
    PROVE  /\ blocks' \in 0..TRACK_MAX_BLOCKS
           /\ pcm' \in Seq(Int) /\ Len(pcm') = blocks' * TRACK_BLOCK_PCM_BYTES
           /\ blocks' = blocks + 1
           /\ \A i \in 1..Len(pcm) : pcm'[i] = pcm[i]
<1> USE TrackBufferAssumption, BlockSize DEF BufferInv, Shape
<1> DEFINE new == [i \in 1..TRACK_BLOCK_PCM_BYTES |-> GARBAGE]
<1>1. new \in Seq(Int) /\ Len(new) = TRACK_BLOCK_PCM_BYTES
  BY DEF GARBAGE
<1>2. pcm' = pcm \o new /\ blocks' = blocks + 1 /\ blocks' \in 0..TRACK_MAX_BLOCKS
  BY DEF more_space
<1> HIDE DEF new
<1>3. pcm' \in Seq(Int) /\ Len(pcm') = Len(pcm) + Len(new)
      /\ \A i \in 1..Len(pcm) : pcm'[i] = pcm[i]
  <2>1. pcm \in Seq(Int)
    OBVIOUS
  <2> QED BY ONLY <1>1, <1>2, <2>1, Appended
<1>4. blocks' * TRACK_BLOCK_PCM_BYTES = blocks * TRACK_BLOCK_PCM_BYTES + TRACK_BLOCK_PCM_BYTES
  BY <1>2
<1> QED BY <1>1, <1>2, <1>3, <1>4

LEMMA AccessStep == ASSUME BufferInv, access_pcm PROVE BufferInv'
<1> USE DEF access_pcm
<1> DEFINE B == TRACK_BLOCK_PCM_BYTES
           k == bytes \div B
           r == bytes % B
<1>1. Shape /\ bytes \in Nat /\ blocks \in Nat
  BY DEF BufferInv, Shape
<1>2. k \in Nat /\ r \in 0..(B - 1) /\ bytes = k * B + r
  BY <1>1, BlockSize, DivMod
<1>3. /\ blocks' \in 0..TRACK_MAX_BLOCKS /\ k < blocks'
      /\ pcm' \in Seq(Int) /\ Len(pcm') = blocks' * B /\ Len(pcm) <= Len(pcm')
      /\ \A i \in 1..Len(pcm) : pcm'[i] = pcm[i]
  <2>1. CASE k = blocks
    <3>1. more_space
      BY <2>1
    <3>2. blocks * B <= blocks' * B
      BY <1>1, <3>1, MoreSpace, BlockSize
    <3> QED BY <2>1, <3>1, <3>2, <1>1, MoreSpace DEF Shape
  <2>2. CASE k # blocks
    <3>1. blocks' = blocks /\ pcm' = pcm
      BY <2>2
    <3>2. k * B <= blocks * B /\ bytes <= blocks * B
      BY <1>1, <1>2, BlockSize DEF Shape
    <3>3. k < blocks
      <4> SUFFICES ASSUME blocks < k PROVE FALSE
        BY <1>1, <1>2, <2>2
      <4>1. (blocks + 1) * B <= k * B /\ (blocks + 1) * B = blocks * B + B
        BY <1>1, <1>2, NextMultiple, BlockSize
      <4>2. blocks * B \in Nat /\ k * B \in Nat
        BY <1>1, <1>2, BlockSize
      <4> QED BY <1>2, <3>2, <4>1, <4>2, BlockSize
    <3> QED BY <3>1, <3>3, <1>1 DEF Shape
  <2> QED BY <2>1, <2>2
<1>4. /\ at' = "read" /\ bytes' = bytes /\ length' = length /\ ppm' = ppm
      /\ len' = B - r /\ at = "access"
  OBVIOUS
<1>5. bytes <= Len(pcm)
  BY <1>1 DEF Shape
<1> HIDE DEF access_pcm, k, r
<1>6. bytes + (B - r) <= Len(pcm')
  <2>1. (k + 1) * B <= blocks' * B /\ (k + 1) * B = k * B + B
    <3>1. blocks' \in Nat /\ B \in Nat
      BY <1>3, BlockSize
    <3>2. (k + 1) * B <= blocks' * B
      BY <1>2, <1>3, <3>1, NextMultiple
    <3> QED BY <1>2, <3>1, <3>2, OneMore
  <2>2. k * B \in Nat
    BY <1>2, BlockSize
  <2>3. bytes + (B - r) = (k + 1) * B
    BY <1>2, <2>1, <2>2, BlockSize
  <2> QED BY <1>3, <2>1, <2>3
<1>7. Shape'
  <2>1. len' \in Nat
    BY <1>2, <1>4, BlockSize
  <2>2. bytes <= Len(pcm')
    <3>1. pcm \in Seq(Int) /\ pcm' \in Seq(Int)
      BY <1>1, <1>3 DEF Shape
    <3>2. Len(pcm) \in Nat /\ Len(pcm') \in Nat
      BY ONLY <3>1
    <3> QED BY <1>1, <1>3, <1>5, <3>2
  <2> QED BY <1>1, <1>3, <1>4, <2>1, <2>2 DEF Shape
<1>8. InBlock'
  BY <1>4, <1>6, <1>1, <1>2 DEF InBlock, r
<1>9. Counted' /\ Metered'
  BY <1>4 DEF BufferInv, Counted, Metered, Whole, EntryOf
<1>10. Filled'
  <2>1. \A i \in 1..bytes : i \in 1..Len(pcm)
    BY <1>1, <1>5 DEF Shape
  <2> QED BY <1>3, <1>4, <2>1 DEF BufferInv, Filled
<1> QED BY <1>7, <1>8, <1>9, <1>10 DEF BufferInv

LEMMA ReadStep == ASSUME BufferInv, Read PROVE BufferInv'
<1>1. Shape /\ bytes \in Nat /\ pcm \in Seq(Int) /\ at = "read" /\ at' = "commit"
  BY DEF BufferInv, Shape, Read
<1>2. PICK z \in 1..len :
        /\ pcm' = [i \in 1..Len(pcm) |->
                     IF i \in (bytes + 1)..(bytes + z) THEN i - 1 ELSE pcm[i]]
        /\ len' = z
  BY DEF Read
<1>3. z \in Nat /\ z <= len /\ len \in Nat
  BY <1>1, <1>2 DEF Shape
<1>4. bytes' = bytes /\ length' = length /\ blocks' = blocks /\ ppm' = ppm
  BY DEF Read
<1>5. bytes + z <= Len(pcm) /\ z <= TRACK_BLOCK_PCM_BYTES - (bytes % TRACK_BLOCK_PCM_BYTES)
  <2>1. len <= TRACK_BLOCK_PCM_BYTES - (bytes % TRACK_BLOCK_PCM_BYTES) /\ bytes + len <= Len(pcm)
    BY <1>1 DEF BufferInv, InBlock
  <2>2. bytes % TRACK_BLOCK_PCM_BYTES \in Nat
    BY <1>1, BlockSize, DivMod
  <2> QED BY <1>1, <1>3, <2>1, <2>2, BlockSize
<1>6. pcm' \in Seq(Int) /\ Len(pcm') = Len(pcm)
  <2>1. Len(pcm) \in Nat /\ \A i \in 1..Len(pcm) : pcm[i] \in Int /\ i - 1 \in Int
    BY <1>1
  <2> QED BY <1>2, <2>1
<1>7. Shape'
  BY <1>1, <1>2, <1>3, <1>4, <1>6 DEF Shape
<1>8. InBlock'
  BY <1>2, <1>4, <1>5, <1>6 DEF InBlock
<1>9. Counted' /\ Metered'
  BY <1>1, <1>4 DEF BufferInv, Counted, Metered, Whole, EntryOf
<1>10. \A i \in 1..(bytes + z) : pcm'[i] = i - 1
  <2> SUFFICES ASSUME NEW i \in 1..(bytes + z) PROVE pcm'[i] = i - 1
    OBVIOUS
  <2>1. i \in 1..Len(pcm) /\ i \in Nat
    BY <1>1, <1>3, <1>5
  <2>2. CASE i <= bytes
    <3>1. pcm[i] = i - 1
      BY <1>1, <2>1, <2>2 DEF BufferInv, Filled
    <3> QED BY <1>1, <1>2, <2>1, <2>2, <3>1
  <2>3. CASE i > bytes
    BY <1>1, <1>2, <1>3, <2>1, <2>3
  <2> QED BY <2>1, <2>2, <2>3, <1>1
<1>11. Filled'
  <2>1. \A i \in 1..bytes : i \in 1..(bytes + z)
    BY <1>1, <1>3
  <2> QED BY <1>2, <1>4, <1>10, <2>1 DEF Filled
<1> QED BY <1>7, <1>8, <1>9, <1>11 DEF BufferInv

(* commit meters the samples that are whole by now, and no entry is taken  *)
(* back; none of the read is left unaccounted for.                         *)
LEMMA CommitStep == ASSUME BufferInv, commit PROVE BufferInv'
<1> USE TrackBufferAssumption
<1> DEFINE T == TRACK_BLOCK_SAMPLES
           k == length \div T
           f == length % T
           w == (bytes + len) \div SAMPLE
<1>1. /\ at = "commit" /\ at' = "publish" /\ bytes' = bytes + len
      /\ len' = len /\ length' = length /\ blocks' = blocks /\ pcm' = pcm
      /\ ppm' = ppm \cup {PpmEntry(k, g) : g \in f..(f + (w - length) - 1)}
  BY DEF commit, NewSamples
<1>2. len \in Nat /\ bytes \in Nat /\ length \in Nat /\ length = bytes \div SAMPLE
  BY <1>1 DEF BufferInv, Shape, Counted, Whole
<1>3. len <= TRACK_BLOCK_PCM_BYTES - (bytes % TRACK_BLOCK_PCM_BYTES) /\ bytes + len <= Len(pcm)
  BY <1>1 DEF BufferInv, InBlock
<1>4. w \in Nat /\ length <= w /\ w <= (k + 1) * T
  <2>1. w \in Nat
    BY <1>2, DivMod
  <2>2. length <= w
    BY <1>2, DivMonotone
  <2>3. w <= (k + 1) * T
    BY <1>2, <1>3, StaysInBlock
  <2> QED BY <2>1, <2>2, <2>3
<1>5. k \in Nat /\ f \in Nat
  BY <1>2, DivMod
<1>6. Whole' = w
  BY <1>1 DEF Whole
<1> HIDE DEF w, k, f
<1>7. Shape'
  BY <1>1, <1>2, <1>3 DEF BufferInv, Shape
<1>8. InBlock' /\ Filled'
  BY <1>1 DEF BufferInv, InBlock, Filled
<1>9. Counted'
  BY <1>1, <1>4, <1>6 DEF Counted, k
<1>10. ASSUME NEW s \in 0..(w - 1) PROVE EntryOf(s) \in ppm'
  <2>1. CASE s < length
    <3>1. s \in 0..(length - 1)
      BY <1>2, <1>4, <2>1
    <3>2. EntryOf(s) \in ppm
      BY <3>1, <1>1 DEF BufferInv, Metered
    <3> QED BY <3>2, <1>1
  <2>2. CASE length <= s
    <3>1. s \in Nat /\ s < (k + 1) * T
      <4>1. (k + 1) * T \in Nat
        BY <1>5
      <4> QED BY <1>4, <4>1
    <3>2. s \div T = k /\ s % T = f + (s - length)
      BY <1>2, <2>2, <3>1, SampleInBlock DEF k, f
    <3>3. f + (s - length) \in f..(f + (w - length) - 1)
      BY <1>2, <1>4, <1>5, <2>2, <3>1
    <3> QED BY <1>1, <3>2, <3>3 DEF EntryOf
  <2> QED BY <1>2, <2>1, <2>2
<1>11. Metered'
  BY <1>1, <1>6, <1>10 DEF Metered
<1> QED BY <1>7, <1>8, <1>9, <1>11 DEF BufferInv

LEMMA PublishStep == ASSUME BufferInv, Publish PROVE BufferInv' /\ length' = Whole
<1>1. /\ at = "publish" /\ at' = "access" /\ length' = length + (Whole - length)
      /\ len' = len /\ bytes' = bytes /\ blocks' = blocks /\ pcm' = pcm /\ ppm' = ppm
  BY DEF Publish, NewSamples, Whole
<1>2. bytes \in Nat /\ length \in Nat
  BY DEF BufferInv, Shape
<1>3. Whole \in Nat
  BY <1>2, DivMod, TrackBufferAssumption DEF Whole
<1>4. length' = Whole /\ Whole' = Whole
  BY <1>1, <1>2, <1>3 DEF Whole
<1>5. Shape'
  BY <1>1, <1>3, <1>4 DEF BufferInv, Shape
<1>6. InBlock' /\ Counted' /\ Filled'
  BY <1>1, <1>4 DEF BufferInv, InBlock, Counted, Filled
<1>7. Metered'
  BY <1>1, <1>4 DEF BufferInv, Metered, EntryOf
<1> QED BY <1>4, <1>5, <1>6, <1>7 DEF BufferInv

LEMMA StopStep == ASSUME BufferInv, AccessFails \/ EndOfFile PROVE BufferInv'
BY DEF BufferInv, AccessFails, EndOfFile, Shape, InBlock, Counted, Filled, Metered, Whole, EntryOf

(* The samples and the meters below the length are of the stream at every  *)
(* moment, because the length is what is changed last.                     *)
THEOREM BufferInvariance == BufferSpec => []BufferInv
<1>1. BufferInv /\ [BufferNext]_buffer_vars => BufferInv'
  <2> SUFFICES ASSUME BufferInv, [BufferNext]_buffer_vars PROVE BufferInv'
    OBVIOUS
  <2>1. CASE access_pcm
    BY <2>1, AccessStep
  <2>2. CASE Read
    BY <2>2, ReadStep
  <2>3. CASE commit
    BY <2>3, CommitStep
  <2>4. CASE Publish
    BY <2>4, PublishStep
  <2>5. CASE AccessFails \/ EndOfFile
    BY <2>5, StopStep
  <2>6. CASE UNCHANGED buffer_vars
    BY <2>6 DEF buffer_vars, BufferInv, Shape, InBlock, Counted, Filled, Metered, Whole, EntryOf
  <2> QED BY <2>1, <2>2, <2>3, <2>4, <2>5, <2>6 DEF BufferNext
<1> QED BY <1>1, InitInv, PTL DEF BufferSpec

-----------------------------------------------------------------------------
(* What it says *)

(* The length is never ahead of the bytes that are in. *)
LEMMA LengthIsIn ==
    ASSUME BufferInv
    PROVE  /\ bytes \in Nat /\ length \in Nat /\ Whole \in Nat /\ length <= Whole
           /\ length * SAMPLE \in Nat /\ length * SAMPLE <= bytes
<1>1. bytes \in Nat /\ length \in Nat
  BY DEF BufferInv, Shape
<1>2. Whole \in Nat
  BY <1>1, DivMod, TrackBufferAssumption DEF Whole
<1>3. length <= Whole
  BY <1>1, <1>2 DEF BufferInv, Counted
<1> QED BY <1>1, <1>2, <1>3, WholeSamples DEF Whole

(* The memory of the track is within the table of blocks.                  *)
THEOREM BufferTypeCorrect == BufferSpec => []BufferTypeOK
<1>1. BufferInv => BufferTypeOK
  BY LengthIsIn DEF BufferInv, Shape, BufferTypeOK, Whole
<1> QED BY <1>1, BufferInvariance, PTL

(* track_get_sample finds a sample where the bytes of it were read to: the *)
(* blocks are of whole samples.                                            *)
LEMMA SampleIsThere ==
    ASSUME BufferInv, NEW s \in 0..(length - 1)
    PROVE  track_get_sample(s) = [i \in 1..SAMPLE |-> s * SAMPLE + i - 1]
<1> USE TrackBufferAssumption
<1> DEFINE k == s \div TRACK_BLOCK_SAMPLES
           f == s % TRACK_BLOCK_SAMPLES
           first == s * SAMPLE
<1>1. s \in Nat /\ s < length /\ length \in Nat
  BY LengthIsIn
<1>2. k \in Nat /\ f \in Nat /\ s = k * TRACK_BLOCK_SAMPLES + f
  BY <1>1, DivMod
<1>3. k * TRACK_BLOCK_PCM_BYTES + f * SAMPLE = first
  <2> HIDE DEF k, f
  <2>1. k * TRACK_BLOCK_PCM_BYTES = (k * TRACK_BLOCK_SAMPLES) * SAMPLE
    BY <1>2, Associates DEF TRACK_BLOCK_PCM_BYTES
  <2>2. s * SAMPLE = (k * TRACK_BLOCK_SAMPLES) * SAMPLE + f * SAMPLE
    BY <1>2
  <2> QED BY <2>1, <2>2
<1>4. first \in Nat /\ first + SAMPLE <= bytes
  <2>1. (s + 1) * SAMPLE <= length * SAMPLE
    BY <1>1, NextMultiple
  <2>2. first \in Nat /\ (s + 1) * SAMPLE = first + SAMPLE
    BY <1>1
  <2> QED BY <2>1, <2>2, LengthIsIn
<1>5. track_get_sample(s) = SubSeq(pcm, first + 1, first + SAMPLE)
  BY <1>3 DEF track_get_sample
<1> HIDE DEF first
<1>6. pcm \in Seq(Int) /\ bytes <= Len(pcm) /\ bytes \in Nat
  BY DEF BufferInv, Shape
<1>7. SubSeq(pcm, first + 1, first + SAMPLE) = [i \in 1..SAMPLE |-> pcm[first + i]]
  <2>1. Len(pcm) \in Nat /\ first + SAMPLE <= Len(pcm)
    BY <1>4, <1>6
  <2> QED BY <1>4, <1>6, <2>1, Part
<1>8. ASSUME NEW i \in 1..SAMPLE PROVE pcm[first + i] = first + i - 1
  <2> DEFINE j == first + i
  <2>1. j \in 1..bytes
    BY <1>4, <1>6
  <2> HIDE DEF j
  <2>2. pcm[j] = j - 1
    BY <2>1 DEF BufferInv, Filled
  <2>3. pcm[first + i] = (first + i) - 1
    BY <2>2, Zenon DEF j
  <2> QED BY <2>3, <1>4
<1> QED BY <1>5, <1>7, <1>8 DEF first

(* Whatever is played is the stream, or the silence around it. *)
THEOREM TheStreamIsPlayed == BufferSpec => []PlaysTheStream
<1>1. BufferInv => PlaysTheStream
  <2> SUFFICES ASSUME BufferInv, NEW sa \in -4..(length + 1), NEW q \in 0..3
               PROVE  Window(sa)[q] = IF sa + q \in 0..(length - 1)
                        THEN [i \in 1..SAMPLE |-> (sa + q) * SAMPLE + i - 1]
                        ELSE SILENCE
    BY DEF PlaysTheStream
  <2> DEFINE s == sa + q
  <2>1. length \in Nat /\ s \in Int /\ (s \in 0..(length - 1) <=> ~(s < 0 \/ s >= length))
    BY LengthIsIn
  <2>2. Window(sa)[q] = IF s < 0 \/ s >= length THEN SILENCE ELSE track_get_sample(s)
    BY DEF Window
  <2> HIDE DEF s
  <2>3. Window(sa)[q] = IF s \in 0..(length - 1)
                        THEN [i \in 1..SAMPLE |-> s * SAMPLE + i - 1] ELSE SILENCE
    BY <2>1, <2>2, SampleIsThere
  <2> QED BY <2>3 DEF s
<1> QED BY <1>1, BufferInvariance, PTL

(* The meter of a sample that can be seen has its value.                   *)
THEOREM MetersAreThere == BufferSpec => []MetersAreSet
<1>1. BufferInv => MetersAreSet
  <2> SUFFICES ASSUME BufferInv, NEW s \in 0..(length - 1) PROVE EntryOf(s) \in ppm
    BY DEF MetersAreSet, EntryOf
  <2>1. s \in 0..((IF at = "publish" THEN Whole ELSE length) - 1)
    BY LengthIsIn
  <2> QED BY <2>1 DEF BufferInv, Metered
<1> QED BY <1>1, BufferInvariance, PTL

(* The rest of a sample waits for its other half; what is passed on to     *)
(* commit_pcm_samples fits the block the track ends in (track.c:160).      *)
THEOREM ResidueIsCarried == BufferSpec => []ResidueCarriesOver
<1>1. BufferInv => ResidueCarriesOver
  <2> SUFFICES ASSUME BufferInv PROVE ResidueCarriesOver
    OBVIOUS
  <2> USE TrackBufferAssumption
  <2>1. ASSUME at \in {"access", "read", "done"} PROVE bytes - length * SAMPLE < SAMPLE
    <3>1. length = bytes \div SAMPLE
      BY <2>1 DEF BufferInv, Counted, Whole
    <3>2. bytes = length * SAMPLE + (bytes % SAMPLE) /\ bytes % SAMPLE \in 0..(SAMPLE - 1)
      BY <3>1, LengthIsIn, DivMod
    <3> QED BY <3>2, LengthIsIn
  <2>2. ASSUME at = "publish"
        PROVE  (length % TRACK_BLOCK_SAMPLES) + NewSamples(bytes) <= TRACK_BLOCK_SAMPLES
    <3> DEFINE k == length \div TRACK_BLOCK_SAMPLES
               f == length % TRACK_BLOCK_SAMPLES
    <3>1. Whole <= (k + 1) * TRACK_BLOCK_SAMPLES /\ NewSamples(bytes) = Whole - length
      BY <2>2 DEF BufferInv, Counted, Whole, NewSamples
    <3>2. k \in Nat /\ f \in Nat /\ length = k * TRACK_BLOCK_SAMPLES + f
      <4>1. length \in Nat
        BY LengthIsIn
      <4> QED BY <4>1, DivMod
    <3> HIDE DEF k, f
    <3>3. (k + 1) * TRACK_BLOCK_SAMPLES = k * TRACK_BLOCK_SAMPLES + TRACK_BLOCK_SAMPLES
          /\ k * TRACK_BLOCK_SAMPLES \in Nat
      BY <3>2
    <3>4. f + NewSamples(bytes) <= TRACK_BLOCK_SAMPLES
      BY <3>1, <3>2, <3>3, LengthIsIn
    <3> QED BY <3>4 DEF f
  <2> QED BY <2>1, <2>2 DEF ResidueCarriesOver
<1> QED BY <1>1, BufferInvariance, PTL

(* No sample below the length is ever written or withdrawn.                *)
THEOREM PublishedStays == BufferSpec => PublishedIsFinal
<1> DEFINE Final == /\ length' >= length
                    /\ \A i \in 1..(length * SAMPLE) : pcm'[i] = pcm[i]
<1>1. BufferInv /\ [BufferNext]_buffer_vars => [Final]_buffer_vars
  <2> SUFFICES ASSUME BufferInv, BufferNext PROVE Final
    OBVIOUS
  <2>1. pcm \in Seq(Int) /\ bytes <= Len(pcm) /\ length \in Nat /\ bytes \in Nat
    BY DEF BufferInv, Shape
  <2>2. \A i \in 1..(length * SAMPLE) : i \in 1..bytes /\ i \in 1..Len(pcm)
    BY <2>1, LengthIsIn
  <2>3. CASE access_pcm
    <3>1. CASE more_space
      BY <2>1, <2>2, <2>3, <3>1, MoreSpace DEF access_pcm
    <3>2. CASE UNCHANGED <<blocks, pcm>>
      BY <2>1, <2>3, <3>2 DEF access_pcm
    <3> QED BY <2>3, <3>1, <3>2 DEF access_pcm
  <2>4. CASE Read
    <3>1. PICK z \in 1..len :
            pcm' = [i \in 1..Len(pcm) |->
                      IF i \in (bytes + 1)..(bytes + z) THEN i - 1 ELSE pcm[i]]
      BY <2>4 DEF Read
    <3>2. \A i \in 1..bytes : i \notin (bytes + 1)..(bytes + z)
      BY <2>1
    <3>3. \A i \in 1..(length * SAMPLE) : pcm'[i] = pcm[i]
      BY <2>2, <3>1, <3>2
    <3>4. length' = length
      BY <2>4 DEF Read
    <3> QED BY <2>1, <3>3, <3>4
  <2>5. CASE Publish
    <3>1. length' = Whole /\ pcm' = pcm
      BY <2>5, PublishStep DEF Publish
    <3> QED BY <3>1, LengthIsIn
  <2>6. CASE AccessFails \/ EndOfFile \/ commit
    BY <2>1, <2>6 DEF AccessFails, EndOfFile, commit
  <2> QED BY <2>3, <2>4, <2>5, <2>6 DEF BufferNext
<1> QED BY <1>1, BufferInvariance, PTL DEF BufferSpec, PublishedIsFinal
=============================================================================
