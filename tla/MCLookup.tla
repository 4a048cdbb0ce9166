------------------------------ MODULE MCLookup ------------------------------
(* All the definitions there are, at their real size, with the first slots  *)
(* of their tables. One bit of hash makes codes collide; looked up are the  *)
(* codes before, in and after the slots.                                    *)
EXTENDS Lookup, Timecodes

MCDefs == {timecodes[i] : i \in DOMAIN timecodes}
MCCodes == SUBSET (0 .. 22)

AtPosition(d) ==
    LET code[k \in 0 .. nslots] == IF k = 0 THEN d.seed ELSE Fwd(code[k - 1], d)
    IN {code[k] : k \in 0 .. nslots} \union {Rev(d.seed, d)}

MCAsked == UNION {AtPosition(d) : d \in MCDefs}
=============================================================================
