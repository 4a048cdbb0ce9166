------------------------------ MODULE TrackBuffer ------------------------------
(* The audio of a track while it is imported (track.c, track.h). The thread of the
   rig reads what the importer's pipe has, in pieces of any size, straight into
   the blocks of the track, and only then adds the samples that are whole to the
   length; the realtime thread and the interface read the samples and the meters
   below the length at the same time and take no lock.

   A byte of memory is the place in the stream of the byte that was put there. The
   stream may end anywhere, and memory may fail. *)
EXTENDS Integers, Sequences

CONSTANTS
    SAMPLE,                \* bytes of a sample of both channels
    TRACK_BLOCK_SAMPLES,
    TRACK_MAX_BLOCKS,
    TRACK_PPM_RES          \* samples of one value of the meter

ASSUME TrackBufferAssumption ==
    /\ SAMPLE \in Nat \ {0} /\ TRACK_BLOCK_SAMPLES \in Nat \ {0}
    /\ TRACK_MAX_BLOCKS \in Nat \ {0} /\ TRACK_PPM_RES \in Nat \ {0}

VARIABLES
    at,       \* what the thread of the rig is at in read_from_pipe
    len,      \* the room at access_pcm's pointer, then the bytes read there
    bytes, length, blocks,
    pcm,      \* the memory of the blocks, one after the other
    ppm       \* the values of the meter that are set, likewise

buffer_vars == <<at, len, bytes, length, blocks, pcm, ppm>>

TRACK_BLOCK_PCM_BYTES == TRACK_BLOCK_SAMPLES * SAMPLE
GARBAGE == -1
SILENCE == <<"silence">>

BufferInit ==
    /\ at = "access" /\ len = 0
    /\ bytes = 0 /\ length = 0 /\ blocks = 0
    /\ pcm = <<>> /\ ppm = {}

----------------------------------------------------------------------------
(* read_from_pipe *)

\* Mutant: beyond the last block.
more_space_NoLimit ==
    /\ blocks' = blocks + 1
    /\ pcm' = pcm \o [i \in 1..TRACK_BLOCK_PCM_BYTES |-> GARBAGE]

\* more_space, where the memory lasts: what is in the block is garbage.
more_space ==
    /\ blocks < TRACK_MAX_BLOCKS
    /\ blocks' = blocks + 1
    /\ pcm' = pcm \o [i \in 1..TRACK_BLOCK_PCM_BYTES |-> GARBAGE]

access_pcm ==
    /\ at = "access"
    /\ IF bytes \div TRACK_BLOCK_PCM_BYTES = blocks
       THEN more_space ELSE UNCHANGED <<blocks, pcm>>
    /\ len' = TRACK_BLOCK_PCM_BYTES - (bytes % TRACK_BLOCK_PCM_BYTES)
    /\ at' = "read"
    /\ UNCHANGED <<bytes, length, ppm>>

\* It has none for want of memory or beyond the last block.
AccessFails ==
    /\ at = "access" /\ bytes \div TRACK_BLOCK_PCM_BYTES = blocks
    /\ at' = "done"
    /\ UNCHANGED <<len, bytes, length, blocks, pcm, ppm>>

\* Mutant: without the offset in the block.
Read_FromTheStart ==
    /\ at = "read"
    /\ \E z \in 1..len :
         LET start == (bytes \div TRACK_BLOCK_PCM_BYTES) * TRACK_BLOCK_PCM_BYTES
         IN /\ pcm' = [i \in 1..Len(pcm) |->
                         IF i \in (start + 1)..(start + z)
                         THEN bytes + i - start - 1 ELSE pcm[i]]
            /\ len' = z
    /\ at' = "commit"
    /\ UNCHANGED <<bytes, length, blocks, ppm>>

\* read(2): up to len bytes go where access_pcm pointed.
Read ==
    /\ at = "read"
    /\ \E z \in 1..len :
         /\ pcm' = [i \in 1..Len(pcm) |->
                      IF i \in (bytes + 1)..(bytes + z) THEN i - 1 ELSE pcm[i]]
         /\ len' = z
    /\ at' = "commit"
    /\ UNCHANGED <<bytes, length, blocks, ppm>>

\* The end of the stream, or an error; where there is no more for now (EAGAIN)
\* track_handle returns and comes back to access_pcm.
EndOfFile ==
    /\ at = "read" /\ at' \in {"access", "done"}
    /\ UNCHANGED <<len, bytes, length, blocks, pcm, ppm>>

\* The entry of the meter a sample of the block that "length" is in has its value
\* in, counted through all the blocks.
PpmEntry(block, fill) == <<block, fill \div TRACK_PPM_RES>>

\* Mutants: the last sample before it is whole; the residue of the last read forgotten.
NewSamples_Early(b) == ((b + SAMPLE - 1) \div SAMPLE) - length
NewSamples_OfThisRead(b) == len \div SAMPLE

\* What commit passes on when b bytes are in: the samples that are whole by now and not
\* yet counted.
NewSamples(b) == (b \div SAMPLE) - length

\* Mutant: all but the last sample metered.
commit_OneShort ==
    /\ at = "commit"
    /\ bytes' = bytes + len
    /\ LET block == length \div TRACK_BLOCK_SAMPLES
           fill == length % TRACK_BLOCK_SAMPLES
       IN ppm' = ppm \cup {PpmEntry(block, f) :
                             f \in fill..(fill + NewSamples(bytes') - 2)}
    /\ at' = "publish"
    /\ UNCHANGED <<len, length, blocks, pcm>>

\* commit: the bytes are counted, and the samples that are whole by now metered.
commit ==
    /\ at = "commit"
    /\ bytes' = bytes + len
    /\ LET block == length \div TRACK_BLOCK_SAMPLES
           fill == length % TRACK_BLOCK_SAMPLES
       IN ppm' = ppm \cup {PpmEntry(block, f) :
                             f \in fill..(fill + NewSamples(bytes') - 1)}
    /\ at' = "publish"
    /\ UNCHANGED <<len, length, blocks, pcm>>

\* The atomic addition at the end of commit_pcm_samples.
Publish ==
    /\ at = "publish"
    /\ length' = length + NewSamples(bytes)
    /\ at' = "access"
    /\ UNCHANGED <<len, bytes, blocks, pcm, ppm>>

BufferNext ==
    access_pcm \/ AccessFails \/ Read \/ EndOfFile \/ commit \/ Publish

BufferSpec == BufferInit /\ [][BufferNext]_buffer_vars

----------------------------------------------------------------------------
(* The readers *)

\* track_get_sample: the memory of a sample.
track_get_sample(s) ==
    LET first == (s \div TRACK_BLOCK_SAMPLES) * TRACK_BLOCK_PCM_BYTES
                   + (s % TRACK_BLOCK_SAMPLES) * SAMPLE
    IN SubSeq(pcm, first + 1, first + SAMPLE)

\* The four samples build_pcm interpolates between at sample sa (player.c:113-134),
\* silence where the track has none.
Window(sa) ==
    [q \in 0..3 |-> IF sa + q < 0 \/ sa + q >= length
                    THEN SILENCE ELSE track_get_sample(sa + q)]

----------------------------------------------------------------------------
(* Properties *)

\* The memory is of whole blocks and all of it is within the table of blocks.
BufferTypeOK ==
    /\ at \in {"access", "read", "commit", "publish", "done"}
    /\ blocks \in 0..TRACK_MAX_BLOCKS
    /\ Len(pcm) = blocks * TRACK_BLOCK_PCM_BYTES
    /\ bytes <= Len(pcm) /\ length \in 0..(bytes \div SAMPLE)

\* Whatever part of the track a player is in, at whatever moment of the import, it
\* plays the samples of the stream in their places and silence around them, and
\* never memory that is not allocated or not filled (track.c:105-106).
PlaysTheStream ==
    \A sa \in -4..(length + 1) : \A q \in 0..3 :
        Window(sa)[q] = IF sa + q \in 0..(length - 1)
                        THEN [i \in 1..SAMPLE |-> (sa + q) * SAMPLE + i - 1]
                        ELSE SILENCE

\* The interface draws the meter of any sample below the length, and finds it set.
MetersAreSet ==
    \A s \in 0..(length - 1) :
        PpmEntry(s \div TRACK_BLOCK_SAMPLES, s % TRACK_BLOCK_SAMPLES) \in ppm

\* The bytes of a sample may arrive in two pieces: between two reads all but a part
\* of a sample is published, and what was read with the rest of one never goes
\* beyond the block in which the track ends, as commit_pcm_samples asserts
\* (track.c:160).
ResidueCarriesOver ==
    /\ at \in {"access", "read", "done"} => bytes - length * SAMPLE < SAMPLE
    /\ at = "publish" =>
         (length % TRACK_BLOCK_SAMPLES) + NewSamples(bytes) <= TRACK_BLOCK_SAMPLES

\* A sample that was played once can be played again: the length never shrinks, and
\* no memory below it is written any more.
PublishedIsFinal ==
    [][/\ length' >= length
       /\ \A i \in 1..(length * SAMPLE) : pcm'[i] = pcm[i]]_buffer_vars
=============================================================================
