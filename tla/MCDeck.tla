------------------------------- MODULE MCDeck -------------------------------
(* A deck of JACK which a controller and the user operate at once.         *)
EXTENDS Deck

(* The code computes with differences only: states that differ in where    *)
(* the record of a deck is, and in the ghost of a deck that was raced, go  *)
(* on alike and satisfy the same invariants.                               *)
FromHere(p, x) == IF x = UNSET THEN UNSET ELSE Minus(x, position[p])

Relative(thread, p) ==
    [f \in DOMAIN thread |-> IF f \in {"position", "offset"}
                             THEN FromHere(p, thread[f]) ELSE thread[f]]

(* The ghost is compared, or will be.                                      *)
Told(p) ==
    /\ ui.at = "store" /\ ui.pl = p => ~ui.late
    /\ button.at = "store" /\ button.pl = p => ~button.late
    /\ raced[p] => \/ ui.at = "store" /\ ui.pl = p
                   \/ button.at = "store" /\ button.pl = p

Interfaces ==
    CASE ui.at = "from" ->
            [ui EXCEPT !.elapsed = FromHere(ui.from, @),
                       !.want = IF ui.late THEN UNSET ELSE @]
      [] ui.at = "clone" -> [ui EXCEPT !.want = IF ui.late THEN UNSET ELSE @]
      [] ui.at = "store" -> Relative(ui, ui.pl)
      [] OTHER -> ui

MCView ==
    <<[p \in Players |-> <<FromHere(p, offset[p]), FromHere(p, target_position[p]),
                           IF Told(p) THEN elapsed[p] ELSE UNSET,
                           Relative(audio[p], p)>>],
      IF button.at = "idle" THEN button ELSE Relative(button, button.pl),
      pitch, timecode_control, recalibrate, deck, home, raced, Interfaces>>
=============================================================================
