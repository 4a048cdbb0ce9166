----------------------------- MODULE Timecoder ------------------------------
(***************************************************************************)
(* timecoder.c: one decoder, from the two channels of a record to its      *)
(* position.  The realtime thread decodes a sample at a time; the user     *)
(* interface changes the definition under it, without a lock.              *)
(*                                                                         *)
(* The needle is counted in quarters of a cycle, the time between two      *)
(* crossings.  The peak which holds bit k of the record lies between       *)
(* quarters 4k + 3 and 4k + 4.                                             *)
(***************************************************************************)
EXTENDS Lfsr, Sequences, FiniteSetsExt

CONSTANTS
    timecodes,  \* the table of definitions: a sequence of records
    VALID_BITS,
    Records,    \* the definitions the record may have: indices of timecodes
    Landings,   \* the quarters where a needle may be put down
    Beyond      \* the values that may be read as `lookup' after the table

Definition ==
    [bits : Nat \ {0}, length : Nat \ {0}, seed : SUBSET Nat, taps : SUBSET Nat,
     phase : BOOLEAN, primary : BOOLEAN, polarity : BOOLEAN, lookup : BOOLEAN]

ASSUME TimecoderAssumption ==
    /\ timecodes \in Seq(Definition) /\ VALID_BITS \in Nat
    /\ \A i \in DOMAIN timecodes :
        /\ timecodes[i].seed \subseteq 0 .. timecodes[i].bits - 1
        /\ timecodes[i].taps \subseteq 0 .. timecodes[i].bits - 1
        /\ timecodes[i].bits <= VALID_BITS
    /\ Records \subseteq DOMAIN timecodes
    /\ \A i \in Records : timecodes[i].lookup
    /\ Beyond \subseteq BOOLEAN /\ Beyond # {}

VARIABLES
    record,     \* the definition of the record which is playing
    needle,
    def,        \* an index of timecodes, or one more
    primary,    \* whether the primary channel is positive
    secondary,
    forwards,
    bitstream,
    timecode,
    valid_counter,
    rt,         \* where the realtime thread is in the sample
    ui,         \* where the interface is in timecoder_cycle_definition
    clean,      \* right bits read since the last disturbance, up to a limit
    steady,     \* and since the last change of direction
    unchecked   \* no bit was read since the definition was changed

decoder == <<primary, secondary, forwards, bitstream, timecode>>
reads == <<clean, steady, unchecked>>
vars == <<record, needle, def, decoder, valid_counter, rt, ui, reads>>

MaxBits == Max({timecodes[i].bits : i \in DOMAIN timecodes})

d == timecodes[def]

(* The bits after which the register holds the record's, whatever it held  *)
(* before: bits beyond the width of the definition have first to be shifted *)
(* into it, where they are carried on as long as the record has ones.      *)
Settle(i) == LET bits == timecodes[i].bits
             IN  IF bits = MaxBits THEN bits ELSE MaxBits + bits + 1

(* Then as many expected ones as timecoder_get_position wants.             *)
Lock(i) == Settle(i) + VALID_BITS + 1

-----------------------------------------------------------------------------
(* The record: the code of every position, the bits in their order, and    *)
(* the channels that the decoder calls primary and secondary.              *)
code[w \in (DOMAIN timecodes) \X Nat] ==
    IF w[2] = 0 THEN timecodes[w[1]].seed
                ELSE Fwd(code[<<w[1], w[2] - 1>>], timecodes[w[1]])

codes == [i \in DOMAIN timecodes |->
            [n \in 0 .. timecodes[i].length - 1 |-> code[<<i, n>>]]]

Cycles(i) == timecodes[i].length + timecodes[i].bits - 1

Bit(i, k) == LET n == IF k < timecodes[i].length THEN k
                                                 ELSE timecodes[i].length - 1
             IN  k - n \in codes[i][n]

Groove == 0 .. 4 * Cycles(record)

(* The quarter of the wave: ++, -+, --, +- are 0, 1, 2, 3.                 *)
Quarter(q) ==
    ((IF timecodes[record].phase THEN 3 - q ELSE q)
        + (IF timecodes[record].polarity THEN 2 ELSE 0)) % 4

Primary(q) ==
    IF d.primary = timecodes[record].primary THEN Quarter(q) \in {0, 3}
                                             ELSE Quarter(q) \in {0, 1}
Secondary(q) ==
    IF d.primary = timecodes[record].primary THEN Quarter(q) \in {0, 1}
                                             ELSE Quarter(q) \in {0, 3}

-----------------------------------------------------------------------------
Sampling == [at |-> "sample"]
Bitstream(b, good) == [at |-> "bitstream", b |-> b, good |-> good]
Count(n, good) == [at |-> "count", n |-> n, good |-> good]

TypeOK ==
    /\ record \in Records
    /\ needle \in Groove
    /\ def \in 1 .. Len(timecodes) + 1
    /\ {primary, secondary, forwards, unchecked} \subseteq BOOLEAN
    /\ bitstream \subseteq 0 .. MaxBits
    /\ timecode \subseteq 0 .. MaxBits
    /\ valid_counter \in 0 .. VALID_BITS + 1
    /\ rt.at \in {"sample", "bitstream", "count"}
    /\ ui \in {"idle", "reset"}
    /\ clean \in 0 .. MaxBits
    /\ steady \in 0 .. Lock(record)

Init ==
    /\ record \in Records
    /\ needle \in Groove
    /\ def \in {i \in DOMAIN timecodes : timecodes[i].lookup}
    /\ primary = FALSE
    /\ secondary = FALSE
    /\ forwards = TRUE
    /\ bitstream = {}
    /\ timecode = {}
    /\ valid_counter = 0
    /\ rt = Sampling
    /\ ui = "idle"
    /\ clean = 0
    /\ steady = 0
    /\ unchecked = FALSE

(* One more, up to a limit: valid_counter is only ever compared with       *)
(* VALID_BITS.                                                             *)
Increment(n, limit) == Min({n + 1, limit})

(* The peak that the needle passes, if it passes one, and is seen to: a    *)
(* channel which seems to cross as well was left behind by a jump.         *)
Peak(q) == {k \in 0 .. Cycles(record) - 1 : /\ {needle, q} = {4 * k + 3, 4 * k + 4}
                                            /\ Primary(q) = primary}

(* Noise may turn a bit into the other; what is read away from a peak, or  *)
(* by the rules of another record, may be anything.                        *)
Amplitudes(q) ==
    {Bitstream(b, def = record /\ \E k \in Peak(q) : b = Bit(record, k)) :
        b \in BOOLEAN}

(* Mutant: a change of direction does not reset the counter. *)
Sample_KeepCounter(q) ==
    LET p == Primary(q)
        s == Secondary(q)
        crossed == {p # primary, s # secondary}
        same == IF p # primary THEN p # s ELSE p = s
        moves == IF TRUE \in crossed THEN same # d.phase ELSE forwards
    IN  /\ rt = Sampling
        /\ needle' = q
        /\ primary' = p
        /\ secondary' = s
        /\ forwards' = moves
        /\ steady' = IF moves # forwards THEN 0 ELSE steady
        /\ rt' \in IF s # secondary /\ p # d.polarity THEN Amplitudes(q)
                                                      ELSE {Sampling}
        /\ UNCHANGED <<record, def, bitstream, timecode, valid_counter, ui,
                       clean, unchecked>>

(* process_sample: both channels are well above their threshold, and the   *)
(* needle moves by less than a quarter between two samples.                *)
Sample(q) ==
    LET p == Primary(q)
        s == Secondary(q)
        crossed == {p # primary, s # secondary}
        same == IF p # primary THEN p # s ELSE p = s
        moves == IF TRUE \in crossed THEN same # d.phase ELSE forwards
    IN  /\ rt = Sampling
        /\ needle' = q
        /\ primary' = p
        /\ secondary' = s
        /\ forwards' = moves
        /\ valid_counter' = IF moves # forwards THEN 0 ELSE valid_counter
        /\ steady' = IF moves # forwards THEN 0 ELSE steady
        /\ rt' \in IF s # secondary /\ p # d.polarity THEN Amplitudes(q)
                                                      ELSE {Sampling}
        /\ UNCHANGED <<record, def, bitstream, timecode, ui, clean, unchecked>>

(* x + (1 << k), as the code adds the new bit.                             *)
Plus(x, k) == LET j == Min((k .. MaxBits + 1) \ x)
              IN  (x \ (k .. j - 1)) \union {j}

Expected == IF forwards THEN Fwd(timecode, d) ELSE Rev(timecode, d)

Received(b) ==
    IF forwards
    THEN IF b THEN Plus(Right(bitstream), d.bits - 1) ELSE Right(bitstream)
    ELSE Left(bitstream, d.bits) \union (IF b THEN {0} ELSE {})

(* Mutant: an unexpected bit is not taken over into the timecode. *)
ReadBit_NotAdopted ==
    /\ rt.at = "bitstream"
    /\ bitstream' = Received(rt.b)
    /\ timecode' = Expected
    /\ rt' = Count(IF Expected = bitstream' THEN Increment(valid_counter, VALID_BITS + 1)
                                            ELSE 0, rt.good)
    /\ unchecked' = FALSE
    /\ UNCHANGED <<record, needle, def, primary, secondary, forwards,
                   valid_counter, ui, clean, steady>>

(* process_bitstream, up to the new value of the counter ...               *)
ReadBit ==
    /\ rt.at = "bitstream"
    /\ bitstream' = Received(rt.b)
    /\ timecode' = bitstream'
    /\ rt' = Count(IF Expected = bitstream' THEN Increment(valid_counter, VALID_BITS + 1)
                                            ELSE 0, rt.good)
    /\ unchecked' = FALSE
    /\ UNCHANGED <<record, needle, def, primary, secondary, forwards,
                   valid_counter, ui, clean, steady>>

(* ... which is then stored.                                               *)
StoreCounter ==
    /\ rt.at = "count"
    /\ valid_counter' = rt.n
    /\ rt' = Sampling
    /\ clean' = IF rt.good THEN Increment(clean, MaxBits) ELSE 0
    /\ steady' = IF rt.good THEN Increment(steady, Lock(record)) ELSE 0
    /\ UNCHANGED <<record, needle, def, decoder, ui, unchecked>>

-----------------------------------------------------------------------------
(* Moved by hand, or too quiet for the channels to be seen to cross.       *)
Lift(q) ==
    /\ rt = Sampling
    /\ needle' = q
    /\ clean' = 0
    /\ steady' = 0
    /\ UNCHANGED <<record, def, decoder, valid_counter, rt, ui, unchecked>>

(* next_definition: the test lets the pointer one past the end of the      *)
(* table, and looks at the memory there.                                   *)
After(i, n) == ((i + n - 1) % (Len(timecodes) + 1)) + 1

next_definition(i, beyond) ==
    LET found(n) == IF After(i, n) \in DOMAIN timecodes
                    THEN timecodes[After(i, n)].lookup ELSE beyond
    IN  After(i, Min({n \in 1 .. Len(timecodes) + 1 : found(n)}))

(* timecoder_cycle_definition: two stores.                                 *)
CycleDefinition ==
    /\ ui = "idle"
    /\ def \in DOMAIN timecodes
    /\ \E beyond \in Beyond : def' = next_definition(def, beyond)
    /\ ui' = "reset"
    /\ clean' = 0
    /\ steady' = 0
    /\ unchecked' = TRUE
    /\ rt' = IF rt = Sampling THEN rt ELSE [rt EXCEPT !.good = FALSE]
    /\ UNCHANGED <<record, needle, decoder, valid_counter>>

ResetCounter ==
    /\ ui = "reset"
    /\ ui' = "idle"
    /\ valid_counter' = 0
    /\ steady' = 0
    /\ UNCHANGED <<record, needle, def, decoder, rt, clean, unchecked>>

Next ==
    \/ \E q \in {needle - 1, needle, needle + 1} \intersect Groove : Sample(q)
    \/ ReadBit
    \/ StoreCounter
    \/ \E q \in Landings \intersect Groove : Lift(q)
    \/ CycleDefinition
    \/ ResetCounter

Spec == Init /\ [][Next]_vars

-----------------------------------------------------------------------------
(* lut_lookup of the bitstream.                                            *)
Lookup ==
    LET at == {n \in DOMAIN codes[def] : codes[def][n] = bitstream}
    IN  IF at = {} THEN -1 ELSE Max(at)

timecoder_get_position == IF valid_counter <= VALID_BITS THEN -1 ELSE Lookup

(* The realtime thread asks for the position between two samples.          *)
Asking == rt = Sampling /\ def \in DOMAIN timecodes

(* Where the needle is: the first cycle of those whose bits were the last  *)
(* to pass under it.                                                       *)
TruePosition ==
    IF forwards THEN needle \div 4 - timecodes[record].bits ELSE needle \div 4

(* A register's width of right bits after the last misread, jump or change *)
(* of definition, the decoder reports the position the needle is at or     *)
(* none, whatever way the record was moved in between.                     *)
ReportsTheTruth ==
    Asking /\ def = record /\ clean = MaxBits =>
        timecoder_get_position \in {-1, TruePosition}

(* A record which plays on in one direction is recognised, after as many   *)
(* right bits as it takes to get rid of the others.                        *)
LocksOn ==
    Asking /\ def = record /\ steady = Lock(record) => timecoder_get_position # -1

(* "if too few bits have been error checked, then this counts as invalid"  *)
(* (timecoder.c:608): when the definition has been changed, a position is  *)
(* not reported before a bit was checked against it.                       *)
TooFewBitsAreInvalid ==
    Asking /\ ui = "idle" /\ unchecked => timecoder_get_position = -1

(* "Return: pointer to timecode definition" (timecoder.c:547).             *)
PointsToADefinition == def \in DOMAIN timecodes
=============================================================================
