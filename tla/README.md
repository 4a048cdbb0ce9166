# xwax: a TLA+ model

xwax (`src/android-project/jni/xwax-1.4/`) is a digital vinyl system: it follows
a timecode record, decodes where the needle is and how fast it moves, and plays
another record accordingly.  This directory models the program, model-checks
small instances of it with TLC and proves properties for all instances with
TLAPS.  The repository is an Android port; everything beside that directory
(SDL, SDL_ttf, tinyalsa, kernel headers, the Java activity) is vendored or glue
and is not modelled.

## The system

| component | state | operations | partners |
|---|---|---|---|
| tracks (`track.c`) | the list of objects in memory, each with a reference count, its importer process, pipe, poll entry and audio | get by path, get, put, clear, read from pipe, stop import | rig (list, lock), decks (references), importers |
| rig (`rig.c`) | the rig mutex, the event pipe, the list of importing tracks, four poll entries | `rig_main` loop, post a track, post an event, quit | track handling, interface, main |
| importers (`external.c`, the `import` script) | a child process and its pipe | fork with pipe, exec, write, exit | track, rig, the other children (inherited descriptors) |
| interface (`interface.c`) | the SDL event loop, selector, meters | one handler per event, each run with the rig lock held | decks, selector, timecoders' monitors, rig |
| deck and player (`deck.c`, `player.c`, `cues.c`) | track, position, offset, pitch, sync, timecode control; cue points and a punch | load, clone, recue, cue, punch in/out, set timecode; collect (realtime) | interface and controllers call, the audio device collects |
| timecoder (`timecoder.c`, `lut.c`, `pitch.h`) | zero crossings, shift registers, valid counter, reference level, pitch filter, lookup tables | submit audio, get position, cycle definition, monitor | device (realtime), player (realtime), interface |
| realtime (`realtime.c`, `device.c`, `controller.c`, `thread.c`) | one thread that polls the file descriptors of devices and controllers | start, stop, add, handle | audio drivers, controllers |
| audio drivers (`alsa.c`, `oss.c`, `jack.c`, `tinyalsa.c`) | buffers, streams that stop when they run over or dry, poll entries; with JACK a callback thread | start, stop, pollfds, handle | timecoder and player of a deck |
| dicer (`dicer.c`, `midi.c`) | MIDI buffers, one LED state per button | realtime, sync of LEDs, add deck | decks |
| library (`library.c`, `listing.c`) | records, crates, sorted listings | import a scan, add, sort, match | selector |
| selector (`selector.c`) | scrolls, search string, current listing and its refinement | keys, refine, expand, order | interface, library |
| status (`status.c`) | the message and its level | set, notify | everything |
| main (`xwax.c`) | options | start and stop everything in order | everything |

Threads: the main thread runs the rig; the interface has a thread of its own;
one realtime thread drives the devices and controllers (JACK brings another).
The rig lock protects tracks, decks and the library against the first two; a
lock per player protects `player.track` alone against the realtime thread.
Importers are processes.

Not modelled, or only in part: the pitch filter (`pitch.h`: floating point, no
control flow), drawing (`interface.c` up to line 1200: output), the thread checks
(`thread.c`: aborts as a debugging aid), the shuffling of samples in the drivers,
the parsing of a scan's lines; and `tinyalsa.c`.  `Android.mk` compiles that in the
place of `alsa.c` but does not define `WITH_ALSA`, which only the `Makefile` does
for `alsa.c`: nothing calls the `alsa_init` of `tinyalsa.c`, which has other
parameters than the one main would call.  It fills its `pcm_config` only in part and
takes a valid `pcm` for an error, so that no state it would reach is one to state
properties of.  `interface_main` names a variable `surface` that the port has taken
away (`interface.c:1634`); `Display` takes it that what was drawn is still drawn.

Nearly all lines of the repository are of vendored code (SDL, SDL_ttf and FreeType,
tinyalsa, a copy of sed, kernel headers): the program proper is the 10 000
lines of `xwax-1.4/`, of which about a third is drawing and tables.  `PROJECT.json` lists every component
with what is left out.

### How the parts interact

* The interface handles an SDL event with the rig lock held.  A key loads,
  clones or recues a deck, moves the selector, or asks the rig to quit; loading
  gets a track, posts it to the rig's list and writes a wake-up to the rig's pipe.
* The rig polls that pipe and the pipes of up to three imports with the lock
  released, and handles them with the lock held: it reads until the pipe is empty,
  and ends an import by closing, waiting for the child, and putting its reference.
* The realtime thread polls the devices and controllers.  A device submits audio
  to a deck's timecoder and collects audio from its player; a controller moves a
  player's offset, and reads cue points, without a lock.  `player.track` is
  exchanged and used under a lock of the player, and used without a reference.
* A device of JACK is not polled: the library calls back in a thread of its own
  (`jack.c:81-141`), which submits and collects, while the realtime thread goes on
  handling the controllers of the same deck.
* The interface changes a timecoder's definition and a player's fields in the same
  way, without a lock.
* Tracks are read by the players and meters while the rig appends to them; only
  the length, published with a barrier, separates them.
* The status line is set by a key or, at the end of an import, by the rig; setting it
  pushes an event to SDL's queue, so that the interface draws it.  A timer and main
  push events there as well.
* Main starts devices, realtime thread and interface in an order, runs the rig,
  and stops them in another.

### What is hard, and the properties that make it correct

| component | hard behaviour | what must hold |
|---|---|---|
| tracks, rig, importers | sharing by path, termination, a track unlisted and freed in the walk of the list, wake-ups, children that inherit descriptors, signals that race an exit | counts equal references, nothing freed is reachable, an import is listed, polled, waited for and closed exactly once, events never block, wake-ups are not lost, a quit ends everything |
| track audio | pieces cut anywhere, blocks, publication to readers that take no lock | below the length everything is the stream's, metered, and final |
| deck | single loads and stores of two threads, or of three with JACK, calibration, nested punches | a deck plays from where the last operation said; a punch leads back |
| timecoder | changes of direction, misreads, change of definition under it | a position is the needle's or none; a record that plays on is recognised |
| lookup table | hash chains, half an hour of codes | every code finds its position, the registers undo each other |
| threads | start, failure and stop of four threads | a thread is there while used and gone when its objects are cleared |
| drivers | overruns and underruns, devices handled for another's activity, hardware that goes | a stream runs again; a device is disabled only if its hardware is gone |
| interface, status line | events of several threads in a bounded queue, resizes | the last message comes to be shown; a quit ends the threads |
| dicer | partial writes, a full buffer | what counts as synced is shown; in the end everything is synced |
| library | duplicates in and between scans | three indexes agree; each record is owned once |
| selector | two ways to make one list, resizes, failing copies | the list is the match; the selection is on screen and follows its record |

`PROJECT.json` has 40 hazards, each at its line with the properties that cover it.

## Modules

| module | models | state and actions |
|---|---|---|
| `Importer` | `external.c`, the import script and the kernel's part (external) | processes, pipes, descriptors with what children inherit, signals; write, finish, fail, die of a signal or a closed pipe |
| `Track` | `track.c` without audio | list, counts, paths, import, termination, outcome; get, put, read, stop |
| `Rig` | `rig.c` | mutex, event pipe, list, poll table, place in `rig_main`; one action for each step between two system calls or lock operations |
| `Loading` | composes the above with `interface.c`, `deck.c`, `player.c` (`Ui*`, `Rt*`) | what each deck holds, where the interface is, what the realtime thread plays from |
| `Display` | `interface.c:1491-1666, 1813-1824`, `status.c`, over `Loading` | SDL's queue (external), the event at hand, the status line; the timer, the user, one action per kind of event, main's stop |
| `SharedTracks` | abstract: who uses which track; no counts | start, take, exchange, release: a track is in memory exactly while it is used, and told to stop exactly when only the rig is left |
| `TrackBuffer` | `track.c:58-202, 399-430`, `track.h` | memory, bytes, length, blocks, meter; find room, read, commit, publish; `track_get_sample` and the window the player interpolates are operators |
| `Deck` | `player.c`, `deck.c`, `cues.c`, the buttons of `dicer.c` | fields of each player, one load or store at a step; the thread that plays it (`audio`), the realtime thread at a button (`button`), the interface (`ui`); ghosts say where a deck ought to be |
| `Lfsr` | the shift registers of `timecoder.c` | operators on sets of bits |
| `Timecodes` | the table of definitions | a constant |
| `Lut` | `lut.c` | slots, heads of chains, a lookup in progress; init, push, lookup a slot at a step |
| `Lookup` | `build_lookup` over `Lfsr` and `Lut`, then lookups | definition, position, code |
| `Timecoder` | `timecoder.c:371-632` | a needle in the groove of a record, crossings, registers, counter; a sample, a bit, a change of definition by the interface in two stores |
| `Listing` | `listing.c` | operators: order, binary search, insertion, matching |
| `Scroll` | `selector.c:27-158` | operators on a window |
| `Selector` | `selector.c` and the keys of `interface.c` | the selector; one action per key, each with its redraw, and resizes |
| `Library` | `library.c` | crates with three listings, records read and freed; one line of a scan at a step |
| `Audio` | `alsa.c`, `oss.c`, and the hardware (external) | operators on a device: two streams with the periods in them, what poll says, faults; start, capture, playback, recovery |
| `Realtime` | `xwax.c`, `realtime.c`, `jack.c`, `device.c`, `timecoder_monitor_*`, over `Audio` | where each of four threads is, tables, devices, monitors; the two halves of a device's handling are steps of their own |
| `Dicer` | `dicer.c`, `midi.c` | LEDs, buffer, what the hardware shows (external) |

`MC*` modules give constants to these for TLC.  The `*_proofs` hold the theorems,
each beside the module it is named after.  `Loading_proofs` has also those about
`Display` and the refinement of `SharedTracks`; `Player_proofs` is about `Deck` and
about `TrackBuffer`, the memory that a player reads; `Listing_proofs` is about the
listings and then about `Library` and `Selector`, the two that use them; the facts
about registers in `Lfsr_proofs` serve both `Lookup_proofs` and `Timecoder_proofs`.
In a module, a definition whose comment begins with "Mutant:" is a variant of the one
after it, a plausible mistake that the property it is listed with in `PROJECT.json`
detects; nothing else refers to it.  "map" in `PROJECT.json` gives the source lines
of every definition.

### Correspondence

*Grain.*  An action is what a thread does between two points at which another can
observe or disturb it.  Under the rig lock that is from lock to unlock, split where
the thread blocks (`waitpid`, the lock of a player, a write to the event pipe) or
where a thread without the rig lock reads what is written.  In `Deck` and
`Timecoder`, where no lock is taken, it is one load or store of a shared field.
One thing is coarser: a `Sample` of `Timecoder` takes the definition once, where
`process_sample` loads `tc->def` several times, so that a sample in the middle of which
the definition changes is not one read with half of each.

*Threads of a deck.*  The realtime thread handles a button when it is not inside
`player_collect` of a device it polls (`RealtimeIsFree`).  For a deck in `Jack` the
collecting is JACK's, and goes on at any step of a button.

*Data.*  Audio is counted in chunks in `Track`, in periods in `Audio`; in `TrackBuffer` each byte is its
place in the stream.  Times in `Deck` are integers modulo `Wrap`, in which all the
code's sums and differences are exact; the threshold from which a player skips to
the record is a free choice.  In `Timecoder` a sample is one quarter of a cycle and
the amplitude at a peak is that of the bit, or anything after a jump of the needle;
the filters that track zero and level are left out.  A record of the library is its
rank, tempo and words.  Timecodes are sets of their 1 bits, at their real widths in
`Lookup`.

*Memory.*  A freed object is a cell that may be allocated again; a dangling pointer
is one to a cell that is not in `tracks`.

*Undefined behaviour.*  A data race on a field of the player is an interleaving of
its loads and stores.  What `next_definition` reads past the end of the table is
one of `Beyond`.

*Failures.*  `MayFail` lets `malloc`, `mlock`, `fork` and `poll` fail, and the
interface thread, before its loop or with the rig lock held (`UiGivesUp`); hardware
is unplugged at any time, after which each call on it fails; `Room` says
at which record the copy of a listing runs out of memory; children fail at any
point; MIDI may take any part of what is written, and what `dicer.c:264` then
leaves behind is lost (`cut` notes that it has happened).

## Runs

All passing runs explore their whole state space.

| run | instance | what it shows |
|---|---|---|
| `loading` | 2 decks, 2 paths (files of 0 and 2 chunks), 2 cells, pipe of 1 chunk, 1 poll entry, 3 events | reference counts, lists, processes and descriptors stay consistent; nothing freed is in use, not even by the realtime thread; the event pipe does not overflow; a track called complete has all its audio; the counts implement `SharedTracks` |
| `progress` | as above with 1 deck, files of 0 and 1 chunks, fairness | every event is handled; once the user is quiet unwanted tracks are freed and imports end |
| `display` | 1 deck, 1 cell, a file of no chunks, a queue of 2 events, failures, a user who presses keys, resizes and quits | the status line shows the last message; a quit ends the rig and the interface |
| `wait` | 2 decks, 2 files of 3 chunks and tracks of 1, pipe of 1 chunk | *violation*, see below |
| `tables` | all seven definitions at real size, 6 slots, 1 bit of hash | no code repeats, every code is found, chains end, steps can be undone |
| `timecoder` | definitions of 4 and 3 bits with different flags, and one not in use; a record of either; a landing in the middle | positions are the needle's or none; a record is recognised, whatever was in the register |
| `deck` | a deck of JACK with cue buttons and the keys of the user, which clones itself; 3 times, 1 cue point | a deck plays where it should and punches lead back, unless the last operation ran into one of another thread |
| `buffer` | samples of 3 bytes, blocks of 5 samples, 3 blocks, meters of 2 samples | players and meters read the stream below the length, whatever the pieces |
| `selector` | 5 records, 3 crates, windows of 2 to 4 lines, searches of up to 3 characters, copies that fail | list, selection, target and toggle are right after every key |
| `library` | 3 tracks at 2 tempos, 4 records, 3 scans, 3 directory names | indexes agree; records are owned once |
| `realtime` | 2 decks, of ALSA or JACK and of OSS or JACK, buffers of 2 periods, 1 controller | threads are there while needed and gone when their objects are cleared; start and stop end; no device is disabled without cause, and streams recover |
| `dicer` | a button a side, commands of 2 parts, buffer for 2 commands; any part of it is taken | until something was left behind, LEDs that count as synced show what memory holds and commands are whole; all are synced in the end, cut buffers or not |

### Why the bounds are enough

* *Two decks and two tracks* are the smallest instance in which a track is shared,
  one is exchanged for another, both are importing, and a cell is allocated again.
  A file of no chunks ends at once; one of two fills the pipe, and is partly read
  when it is terminated.  With one poll entry, the second import is beyond the
  table, as the fourth is with three.  Three events are more than the pipe ever
  holds of wake-ups (`EventsFit`), so that its size does not matter to them; one
  request to quit waits in the pipe at a time; the user who quits is in `display`.
* *Display*: one event waits while another comes, and a third finds the queue full;
  SDL's queue holds many more, and full it is the same.  At most one event of the user
  waits at a time.  The file is of no chunks, as what an import reads does not
  matter to the line, only how it ends.  The realtime thread is left out: it delays an
  exchange of tracks and no more.
* *Realtime*: the kinds of devices in both orders that matter (polled before
  JACK and after it, both polled, both of JACK).  Two periods are what `alsa.c:119`
  asks for, and an overrun needs no more.  `POLL` is 5 entries, those of all the decks
  and controllers together, in the place of 32, and `POLL_BYTES`, 32, in that of 256.
* *Timecoder*: registers of different widths make one definition's bits spill
  into the other's, where they are carried on.  A record of the first is longer than
  the bits after which it is recognised (`Lock`, 9 of 11), so that it locks from either
  end.  Codes of 3 bits repeat themselves before a record of the second could be: on
  that one the run checks the positions, and that it is recognised is left to the
  theorem.
* *Tables*: chains of up to 6 in two buckets, at both ends of a chain and off it.
  What holds of every length is proved.  `NoWrap`, which depends on the numbers in
  the table of definitions, is checked along the whole of every record: only slots
  are few, codes are generated to the end.
* *Deck*: with three times a sum and a difference are not the same, and a place is
  neither the start nor the cue.  One cue point is enough to punch from one place
  to another, as it can be cleared and set elsewhere while the deck is punched in.
  The deck of the run is of JACK, as one that the realtime thread plays has fewer
  interleavings, and it is cloned from itself.  With `Players = {one, two}` and
  `Cued = {}`, so that it is cloned from another, which another thread plays, the run
  passes too; with buttons as well that is more than TLC can do, and is left to the
  theorem.
  `MCView` takes states as one that differ in where a record is: the code only
  computes with differences.
* *Buffer*: 3, 5 and 2 have no common divisor, so every kind of cut occurs.
* *Selector*: the list is longer and shorter than the window, of one record, and
  empty.  `SEARCH_SIZE` is the size of the buffer: 3 characters and the end.
* *Library*: two records that compare equal in artist and title and differ in
  tempo, a third, and directories that sort before and after the crate of all, or
  have its name.
* *Dicer*: the buffer holds the commands of all the LEDs, as in the code, so that it
  is full when an LED changes again before it is written.  `AfterCut` takes states as
  one that differ in what a cut buffer holds: only its length decides what is added
  to it, and the two invariants of the run say nothing of its content any more.

Bounds that cap a counter: `QueueCap`, `Periods`, `Capacity`, `MaxData`, `PipeCap`, `EventCap`, `nslots`,
`MaxRecords`, `MaxImports`, `TRACK_MAX_BLOCKS`, `SEARCH_SIZE`, `MAX_WORDS` (limits of
the code, smaller), `Wrap` (a modulus), and the caps in `Timecoder` on the ghosts
`clean` and `steady` and on the counter at the value from which it makes no
difference.

### Fairness

* `Loading`: each thread is weakly fair where it can run.  `RigLock`, `UiLock` and
  `UiSwap` are strongly fair: mutexes that are released again and again are got in
  the end (the POSIX mutexes and spin locks used do not promise an order, and a
  starved thread is not what the properties are about).  `RigPoll` is strongly
  fair, as it can be interrupted; nothing makes `poll` or the interface fail.
  Children that can write or exit do; nothing makes a key be pressed, except that the
  SDL queue hands out the event that main pushes after `rig_main` (`UiEvent` when
  the rig has finished, `UiStop`).
  `UnwantedFreed` and `QuietImportsEnd` are about a user who in the end
  begins no more imports, or does nothing more.  The list
  has the newest import first and is scanned until the poll entries run out
  (`rig.c:111-116`): who loads without end keeps an older import from being read, and
  an unwanted one from being wound up, for ever.
* `Display`: the same threads, with SDL's queue first in, first out, so that its last
  event needs no fairness of its own; the timer goes off again and again (SDL runs
  it in a thread), and main stops the interface once `rig_main` has returned.  Nothing
  makes the user do anything.
* `Realtime`: the main thread runs but need not leave the rig or its options; the
  realtime and interface threads run, and `RtPoll` is strongly fair, as signals may
  interrupt a poll but not each one.  The clock of a stream that runs does not stop
  (`Record`, `Play`); stopping a device is strongly fair, as JACK's callback may be
  between two cycles again and again.  Nobody has to touch a controller.  Poll
  is taken to say nothing of a capture stream before its start; `alsa.c:148` has it
  that it "possibly" does.
* `Dicer`: what waits to be written is written as a whole in the end (`Flush`), as
  the hardware drains its input.

## Proofs

Checked by TLAPS for every value of the constants that satisfies the named
assumptions of the modules (`TrackAssumption`, `RigAssumption`, `DecksAssumption`,
`PipeAssumption`, `DisplayAssumption`; `LutAssumption`, `DefsAssumption`;
`TrackBufferAssumption`; `DeckAssumption`; `AudioAssumption`,
`RealtimeAssumption`; `TimecoderAssumption`; `DicerAssumption`; `ListingAssumption`,
`LibraryAssumption`, `SelectorAssumption`).  They say that sizes and counts are
numbers, that sets are finite and that the names of things are apart, and no more;
but `SelectorAssumption` also has the crates as the library leaves them, which is what
`ListingsAgree` and `EveryRecordIsOwned` show of it.

| theorem | module | result |
|---|---|---|
| `TypeCorrect` | `Loading_proofs` | `TypeOK` |
| `CountsAreExact` | `Loading_proofs` | `RefcountExact`: a count is the number of decks, list entries and threads that hold the track |
| `NothingDangles` | `Loading_proofs` | `NoDangling`: no pointer to a freed track, the realtime thread's uncounted one included |
| `ImportsAreListed` | `Loading_proofs` | `ImportingIffListed`: imports, list entries, processes and descriptors go together |
| `TracksAreShared` | `Loading_proofs` | no path is in memory twice |
| `AssertionsHold` | `Loading_proofs` | the assertions of `track.c` and `player.c` on counts and processes hold |
| `EventsDoFit` | `Loading_proofs` | `EventsFit`: no more wake-ups in the event pipe than imports in the list |
| `CompletedAreWhole` | `Loading_proofs` | `CompletedIsWhole`, if `~MayFail` |
| `CountsDoShare` | `Loading_proofs` | `CountsShare`: `Loading` implements `SharedTracks` |
| `DisplayDoesLoad`, `DisplayIsSafe` | `Loading_proofs` | `Display` implements `Loading`, so that counts, pointers and imports are right under the event loop too |
| `BufferTypeCorrect`, `TheStreamIsPlayed`, `MetersAreThere`, `ResidueIsCarried` | `Player_proofs` | `BufferTypeOK`, `PlaysTheStream`, `MetersAreSet`, `ResidueCarriesOver` for any sizes |
| `PublishedStays` | `Player_proofs` | the action property `PublishedIsFinal` |
| `RealtimeThreadRuns`, `ClearedInQuiet`, `GivenUpForHardware` | `Realtime_proofs` | `RealtimeRuns`, `QuietWhenCleared`, `OnlyFailuresDisable` for any decks, devices and controllers |
| `TypeCorrect` | `Realtime_proofs` | `TypeOK`, if the options' limits keep the descriptors within `POLL` |
| `TypeCorrect`, `DeckPlaysWhereItShould`, `DeckPunchLeadsHome` | `Player_proofs` | `TypeOK`, `PlaysWhereItShould`, `PunchLeadsHome` for any players, of JACK or not, cue points and times |
| `DeckOperationsHold` | `Player_proofs` | `EveryOperationHolds`, if no deck is of JACK and no key is pressed: nothing is ever raced |
| `SyncedLedsAreShown`, `CommandsStayWhole` | `Dicer_proofs` | `SyncedIsShown`, `CommandsAreWhole` for any buttons and buffer, whatever part of it is taken |
| `BinSearchFinds` | `Listing_proofs` | a binary search of any sorted listing finds the place of any record, and says if an equal is there |
| `LibraryInvariant`, `ListingsAgree`, `EveryRecordIsOwned` | `Listing_proofs` | `IndexesAgree` and `RecordsAreOwned` for any directories, names and lines of scans |
| `SelectorInvariant`, `SelectorTypes`, `TogglesComeBack` | `Listing_proofs` | `TypeOK` and `ToggleComesBack` for any crates, windows, searches and failures of memory |
| `SelectionShows` | `Listing_proofs` | `SelectionOnScreen`, if `Roomy` |
| `ListIsTheMatch`, `TargetIsFollowed` | `Listing_proofs` | `ViewIsTheMatch` and the action property `FollowsTarget`, if `Roomy` and `ShowsCrates` |
| `ForwardsThenBack`, `BackThenForwards` | `Lfsr_proofs` | the two registers undo each other for any width and taps |
| `Invariance`, `LookupsAreRight` | `Lookup_proofs` | every chain lists the slots of its hash from last to first; a lookup returns the last slot of its code or none |
| `StepsCanBeUndone`, `PositionsAreFound`, `TablesEnd` | `Lookup_proofs` | `Symmetric`, `FindsThePosition`, `ChainsEnd` of the run `tables` for any definitions, any number of slots and hash bits |
| `UsesTheHashTable` | `Lookup_proofs` | `Lookup` implements `Lut` |
| `PositionsAreTrue`, `RecordsAreRecognised` | `Timecoder_proofs` | `ReportsTheTruth` and `LocksOn` for any definitions, records and landings, if `NoneWraps` |
| `TypeCorrect` | `Timecoder_proofs` | `TypeOK` while `def` is in the table, if `NoneWraps`: the registers stay as wide as the widest definition |

Some theorems have a hypothesis beyond these, because the code needs it.
`CompletedAreWhole` wants no failure of `malloc`, `mlock` or `read`: after one,
`read_from_pipe` gives up and a process that ended well is reported all the same.
`TypeCorrect` of `Realtime` wants
`DECKS * AlsaFds + RT_CTL * ControllerFds <= POLL`: the code compares entries with
bytes, and what keeps it right is only how many decks and controllers the options
allow.  `DeckOperationsHold` wants no deck of JACK (`Jack = {}`) and no keys
(`Keyed = {}`): with either it does not hold.  Three of `Selector` want windows
of two lines or more (`Roomy`): in one line, or before any, `scroll_up` leaves the
selection above the window (`selector.c:85`).  Two of them want no resize to hide the
selected crate (`ShowsCrates`: a window has a line for each crate, or none is larger):
`scroll_set_lines` selects another crate then, without listing it.  Three of
`Timecoder` want that no record has a code twice (`NoneWraps`), which `build_lookup`
asserts (`timecoder.c:214`) and `tables` checks of the seven definitions there are.
Every passing run whose property these theorems state satisfies the hypothesis.  Two
kinds of exception are not hypotheses on the constants but part of what is stated:
of `Deck`, that the last operation on a player ran into one of another thread (`raced`),
and of `Dicer`, that a memmove has left something behind (`cut`).  Both are states
of the model that other steps go on from, and the next section shows that they matter.

*Loading.*  `NoDangling` is not inductive: that a `put` does not free what somebody
else holds follows from the counts, that the counts are right follows from who may
change them, and that from the locks.  `IInv` therefore adds to `TypeOK` and
`RefcountExact`: the rig lock is held exactly at certain places of the two threads
(`LockInv`); what the interface's local pointers may be at each place (`UiInv`); a
track is not exchanged while its player's lock is held, so that the realtime thread
plays the deck's track (`RtInv`); the rig's walk is at an entry of the list
(`CursorInv`); the list has no duplicates, its tracks are in memory and are
exactly those importing (`ListInv`); they are exactly those with a process
(`ProcInv`); decks hold tracks in memory (`DeckInv`); one track per path
(`OnePerPath`).  Each action has a lemma, with steps for the conjuncts it disturbs;
a reference that moves from one holder to another is counted with the lemmas on
`Cardinality`.  The first lemmas are what the proof needs of sequences: the range of
a list with an entry put in front or removed, and distinctness.

*Imports.*  A wake-up is written for a track that has no poll entry yet, and
`WakeInv` counts: wake-ups written and about to be are at most the listed tracks.
That is not inductive where the rig removes a track; what is added is that the rig
empties the pipe before it handles tracks, and handles only those with an entry, so
that the wake-ups written since are for tracks it does not remove.  `AudioInv`
says where the audio of a track is: in memory, in the pipe or yet to be written,
with a sum that no step changes; a descriptor is closed only when the memory is
full or nothing is left behind it.

*Refinements.*  `CountsDoShare` maps each step of `Loading` to one of `SharedTracks`
or to none: the users of a track are read off the decks, the list and the
threads, and `IInv` turns `track_put`'s tests of its count into statements about who
they are.  `DisplayDoesLoad` shows that a step of the event loop, the timer, the user
or main is one of `Loading` or leaves its variables alone.

*Buffer.*  `IInv` says that memory is of whole blocks (`Shape`), that a read stays in
the block it begins in (`InBlock`), that the length is the number of whole
samples, except between the meter and the addition (`Counted`), and that what was
read is the stream and metered, counted or not (`Filled`, `Metered`).  The proof is
arithmetic on quotients: a block is of whole samples, so that a sample of the index
arithmetic of `track_get_sample` is where `access_pcm` put it.

*Realtime.*  `Control` relates the places of the four threads, the flag by which
`rt_stop` ends one, and the loops of main; `Callbacks` counts the devices JACK calls
back for; `Devices` says of each device what poll may have reported of it, with an
exception for the one between its capture and its playback.  `PollInv` bounds
the entries of the poll table.

*Deck.*  `PlaysWhereItShould` speaks of the moments when nothing is half way.  `IInv`
says where a deck is at all others: what each of the three threads has loaded, and
where a player will be after a calibration that has stored one field of two
(`Placed`); `Homely` relates the punch to the ghost `home`.  Both are false of a
player that is marked as raced, and only then; times are counted modulo `Wrap`, for
which a few laws of sums and differences are proved first.  For `DeckOperationsHold`
it is added that a button of the realtime thread is between its load and its store
only when no device that the same thread polls is half way, so that without JACK and
keys nothing is marked (`Undisturbed`).

*Dicer.*  `IInv` joins what the hardware has of a command to what waits behind it:
in that list each part follows the one before it of the same command (`Follows`), the
last command is whole (`Ends`), and for an LED that counts as synced the last
command in it says how it is, or there is none and the hardware shows it (`Tells`).
Taking any part of what waits moves the border between the two and changes no list,
if what is left is moved as a whole; once it was not, only the types, the size of the
buffer and that an LED is on with its cue point are invariant.

*Listings.*  `bin_search` and `subset`, the loop of `listing_match`, are recursive
functions.  That such functions exist, and what they compute, is induction on the
length of a listing; it is done on the set of the lengths for which a fact holds, with
`NatLessThanWellFounded`, as no theorem with an operator for a parameter can be used
here.  `BinSearchFinds` is shown for one halving, from what the search finds in each
half.  From it, what `listing_insert` returns is sorted and has one record more or
none.  `MatchIs` and `MatchIsProper` say of `listing_match` which records its result
has, and that it is in the order of the source.

*Library.*  `LibraryInv` has that the crate of all is the first of the table and each
crate has its listings (`TableInv`), `IndexesAgree` of each (`CratesInv`), and the
ownership with what makes it inductive: a record owned or freed has a number below
`read`, so that the next one is neither (`OwnedInv`).

*Selector.*  A step is a key's handler followed by a redraw, so that the invariant is
broken in the middle.  `Sound` holds throughout: windows are over the lists shown, a
list is in order and within the crate of all, the crate to toggle back to is there.
`Drawn` holds after a redraw: each selection is on the screen, or nothing has been drawn
yet; a handler leaves the weaker `Moved`, which a redraw makes `Drawn` again.  `Listed`
says that the view begins the match of the search, and is all of it where no copy
failed.  Refining keeps it because a record that matches the longer search matches the
shorter one: each word of the shorter search is one of the longer's, or one less its
last character, or empty, the limit of `MAX_WORDS` notwithstanding.  `TargetIsFollowed` needs that a search
of a sorted list finds a record that is in it, and that a redraw does not move it away.

*Registers.*  `Fwd` drops bit 0 and puts a parity in at the top, `Rev` drops the top
and puts a parity in at 0.  The two parities are of sets that differ in the bit that
was dropped, so each recovers it; the proof is about parities of cardinalities under
a shift.

*Tables.*  The invariant of `Lut` is `LutTypeOK`, `Chained` (the next of a slot is the
last slot before it with its hash) and `OnTheWay` (a lookup has not passed the slot it
should return).  `Lookup` refines `Lut`, and its slots are the positions in order,
so that the slot found is the position.

*Timecoder.*  The register holds the bits of the record that passed last, in their
order, but three things disturb that: bits of another definition beyond the width,
a change of direction, and a misread, jump or change of definition.  `TruthInv` and
`LockInv` say what is right all the same, at each place of the realtime thread.
`TruthInv` needs no limit to what went before: the last `m` bits that were right, in
one direction and *expected* are where they belong (`Window`), as a carry from beyond the
width changes the bit that has just been added, and so is never expected.  `LockInv`
has no such help, as it is to show that bits come to be expected (`Settling`): what is
beyond the width goes down with each bit, or is carried up once and is a single bit from
then on (`Within`); at the width it is carried on as long as the record has ones
(`Ones`), and a record that does not wrap has not more of them in a row than its
register is wide (`NotAllOnes`).  Then the register fills from the top; when it is full it
holds a code of the record (`FullRegister`), and the next one is as expected, in either
direction, by what is proved of the registers.  So `Settle` is the width, or
`MaxBits + bits + 1` for a definition that is not the widest.  `SyncInv` says that while right bits are
counted both channels are where the needle is; `Crossing` that then the crossings tell
its direction, whatever the flags of the definition, and `SyncedSample` that the bit
read next is the one next to the last.  A position is where `lut_lookup` finds it because
no code comes twice (`Distinct`, by going back to the seed).  `code` is a recursive
function; that it exists is `CodesExist`.

### Only model-checked

Liveness (`EventHandled`, `UnwantedFreed`, `QuietImportsEnd`, `StatusIsShown`,
`QuitStops`, `StartsAndStops`, `AudioGoesOn`, `LedsSettle`): out of the prover's reach.  `NoWrap`: a fact about
numbers in a table.  `DisplayType` holds in the run's instance but is in no cfg: it
says little.  The `TypeOK` of `Deck`, `Selector` and `Timecoder` are in none, and proved.

## Where comments and code disagree

Run `wait` shows one.  `stop_import` waits for a child with the rig lock held
(`track.c:447`).  A child that is stopped because its track is full dies of the
closed pipe, unless another child, forked after it, has inherited the pipe's read
end (`external.c` opens nothing with close-on-exec).  Then the first child blocks on
its full pipe, the second on its own, which the rig no longer reads, and the rig in
`waitpid`; the interface follows at its next event.  `EventHandled` therefore holds
for files that fit in a track, and `progress` has only those.

The others are definitions that no run checks.  Each is false in the instance named;
to see it, put the definition in the place of the cfg's properties.

| definition | instance | what a comment says | what the code does |
|---|---|---|---|
| `Loading!TruncationReported` | `MCLoading.cfg` | an import that fails is alerted (`track.c:454`) | a track terminated by the last deck (`track.c:365`) is found by path and shared again before it is stopped, which is silent: a deck has part of a file |
| `Timecoder!TooFewBitsAreInvalid` | `MCTimecoder.cfg` | "if too few bits have been error checked, then this counts as invalid" (`timecoder.c:608`) | the counter is reset (`timecoder.c:572`) after the definition has changed, and perhaps between the load and store of an increment (`timecoder.c:458`), which undoes it |
| `Timecoder!PointsToADefinition` | `MCTimecoder.cfg`, `Beyond = {TRUE}` | "Return: pointer to timecode definition" (`timecoder.c:547`) | `>` for `>=` (`timecoder.c:557`): one past the end is looked at, and may be taken for a definition |
| `Deck!EveryOperationHolds` | `MCDeck.cfg`, `Keyed = {}` | "Seek to the given position" (`player.c:404`) | a deck of JACK is collected in JACK's thread (`jack.c:118`), its buttons are handled by the realtime thread (`realtime.c:99`), which runs for them alone (`controller.c:60-62`); the seek (`player.c:409`) and the calibration (`player.c:367`) each load and store, and whichever stores last undoes the other |
| `Deck!EveryOperationHolds` | `MCDeck.cfg`, `Jack = Cued = {}` | "Cue to the zero position" (`player.c:270`) | a recue or clone by the interface that meets a calibration loses one of the two (`player.c:275`), whatever the device |
| `Deck!SwitchingOnCalibrates` | `MCDeck.cfg` | "re-sync offset at next opportunity" (`player.h:50`) | timecode control is set before `recalibrate` (`player.c:242-244`; `player_set_timecode_control`, which nothing calls, has the other order), and a position taken up between them makes the deck jump |
| `Deck!FindsThePreviousCue` | `MCDeck.cfg` | "the previous cue point before" (`cues.c:58`) | the search starts from `HUGE_VAL` (`cues.c:68`) and finds nothing; nothing uses it |
| `Selector!PositionUnchanged` | `MCSelector.cfg`, `Rows = StartRows = {2}`, `SEARCH_SIZE = 3`, `Room <- Unbounded` | "otherwise leave our position unchanged" (`selector.c:161`) | `listing_find` returns where the target would be (`selector.c:177`), and the selection goes there |
| `Selector!SelectionOnScreen` | `StartRows = {0}`, `Rows = {0, 2}`; or `StartRows = {1}` | "The current selection is moved to within range" (`selector.c:36`) | with no lines the window moves with the selection down but not up; a larger window leaves it above the screen.  With one line, moving up puts it there (`selector.c:85`) |
| `Selector!ViewIsTheMatch` | `StartRows = {3}`, `Rows = {2, 3}`, `SEARCH_SIZE = 2` | the records are those of the crate selected (`selector.c:201`) | a smaller window moves the selected crate (`selector.c:249`); the list stays that of the other |
| `Library!NoDuplicates` | `MCLibrary.cfg` | "Filtering of duplicate entries" (`CHANGES:57`) | a directory named as the crate of all (`library.c:194`) has each record put into its playlist order twice |
| `Realtime!MonitorIsThere` | `MCRealtime.cfg` | "Plot the given sample value in the x-y monitor" (`timecoder.c:392`), if there is one (`timecoder.c:399`) | `interface_stop` frees the monitors (`interface.c:1827`) before the realtime thread is stopped |
| `Realtime!ClearReturns` | `MCRealtime.cfg` | "Post: no resources are allocated by the player" (`player.c:214`) | `spin_clear` aborts in any case (`spin.h:52`), so that main ends at the first deck it clears |
| `Realtime!NoAudioBeforeStart` | `MCRealtime.cfg` | "Do not operate on audio until device_start()" (`alsa.c:395`) | the thread handles devices once launched (`realtime.c:230`), the starts come after: a deck of OSS, or ALSA's playback, is heard before its start |
| `Realtime!RealtimeStops` | `MCRealtime.cfg` | "Stop realtime handling" (`realtime.c:260`) | if only controllers are polled nothing makes `poll`, which has no timeout (`realtime.c:89`), return, and `rt_stop` waits until one is touched |
| `Realtime!DisabledIsQuiet` | `MCRealtime.cfg` | "disabling it" (`device.c:120`) | the descriptors of a device that failed are still polled: poll returns at once, each time, and the realtime thread never sleeps |
| `Realtime!TypeOK` | `MCRealtime.cfg`, `POLL = 2` | the number of entries filled (`device.c:92`) | the room is given in bytes (`realtime.c:156`) |
| `Realtime!ControllersFit` | `MCRealtime.cfg`, `CTL_BYTES = 3` | "Too many controllers" (`xwax.c:527`) | the count is compared with bytes (`xwax.c:526`) |
| `Dicer!LedsShowMemory` | `MCDicer.cfg` | "sync all hardware LEDs with the state held in memory" (`dicer.c:225`) | after a partial write, `memmove` moves as many bytes as were written, not as are left (`dicer.c:264`): if less than half was taken commands are lost and sent again in pieces, and the LEDs they were for count as synced.  `SyncedIsShown` and `CommandsAreWhole` hold until then |

`StatusIsShown`, `QuitStops` and `StartsAndStops` state exceptions, each of which the
instance reaches: without `lost`, an event that finds SDL's queue full leaves a
message unseen (`interface.c:1519`); with a full queue `interface_stop` aborts
(`interface.c:1820`); and the interface thread that returns with the rig lock held
(`interface.c:1561, 1568`) leaves the rig waiting for ever.

## Plan

Done: every component in the table of modules is model-checked and proved, liveness
apart.  Next:

1. `DisplayType`.
2. Model: the parsing of scans.
