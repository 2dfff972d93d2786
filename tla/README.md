# A TLA+ model of the ZYNQ acquisition board

The repository holds the software of a data-acquisition board built on a Xilinx
Zynq: a Linux program (`src/application`) that takes commands from a PC, programs
the digitiser in the programmable logic (PL) and carries its samples to the PC or
to an SD card, and five kernel drivers (`src/driver`) that it uses or that came
with it. There are no tests and no documents; what the code is meant to do is in
its comments, its enumerations and its commented-out self checks.

## 1. Inventory

### Parts, their state and how they interact

| part | source | state | operations |
|---|---|---|---|
| interrupt drivers | `dataIrq.c`, `irq.c` (the same code) | `irqHappend`, a wait queue | handler, open, release, blocking read |
| register drivers | `axi_csr.c`, `bram.c` (the same code) | the mapping `dev_virtaddr`, the reservation, `f_pos` per file | open, release, read, write, lseek |
| DMA driver | `xfifo_dma.c` | mutex, `writers`, `busy`, buffer address, DMA channel | open, release, read, write, callbacks, /proc |
| register access | `csr.c`, `csr.h` | none of its own | `RegRead`, `RegWrite` (lseek, read, write) |
| acquisition | `app.c`, `main.c` | statics of `app.c`, shared by two threads without a lock | `App`, `AcqStart`, `AcqStop`, `DeliverData_s`, `MesgThread` |
| code generator | `lfsr.c`, `SetDataToRam` | buffer of the code, code RAM | `GetLfsrUint` |
| GPS receiver | `gps.c` | `sbuff`, `s_index`, `tm_time`, `gps_data`, the system clock | `GpsThread`: framing, checksum, two sentences |
| ini files | `inifile.c` | the file itself | read and write of keys, each over the whole file |
| start-up | `main.c`, `InitMem`, `InitGps`, `InitNetLink`, `AcceptLink` | devices, banks, serial port, three sockets, two threads | one attempt at each, and the three accepts |

A record goes like this. START makes the main thread read `Configuration.ini`,
write the registers and set `REC_EN`. At each trigger the PL raises the counter
interrupt, on which `MesgThread` sets `s_ucIsReady`, resets `s_uiFlag` and
`s_ulTotalLen`, opens a file if the record goes to the card, and sends a GPS
message. The PL samples into two banks of block RAM in turn and raises the data
interrupt for each; the main thread counts those interrupts to know the bank and
sends or writes it, until the length of the record is reached.

Beside this runs `GpsThread`: it takes sentences from a serial line, keeps the time
and the position in `gps_data`, which `MesgThread` copies into its message, and
sets the system clock, by whose second `MesgThread` names the file of a record.
Before all of it `main` opens the devices, maps the banks, opens the serial port,
listens on three ports and accepts a connection on each, once.

### What is hard

* Two threads and an interrupt source share `s_ucIsReady`, `s_uiFlag`,
  `s_ulTotalLen`, `s_puiConfigBuf` and `s_pSdHPFd` without a lock, with
  read-modify-writes on both counters.
* The drivers keep one bit per interrupt: interrupts coalesce, are wiped out by
  the clearing store, and outlive the run they belong to.
* STOP can come at any moment of a record, and what it does not clean up the next
  record finds. The main thread blocks for data and hears no command meanwhile.
* The PL acts on the registers after every single write, in the order of writes.
* The DMA driver waits with the mutex given up, and every wait can end by a signal.
* The serial line loses characters, and the frame buffer is checked for nothing.
  A receiver without a fix sends sentences with empty fields, and what was parsed
  last time is used instead.
* The clock is compared with GPS time in blocks of 64 seconds, so it is wrong for a
  while and then set, backwards too, between records named by it.
* `main` ignores what its initialisation returns. A PC that has gone is noticed by
  the SIGPIPE of the second message only, so by a board whose PL is armed, and nothing
  accepts it again: it is the next start of the program that does.
* `Configuration` opens its file twelve times, and the parser takes a name in the
  file for a key that it is the beginning of. A write truncates the file, and what
  `fclose` says of the card is not asked.

The hazards are listed with their lines in `PROJECT.json`; a few more, outside every model, are in section 5.

## 2. Modules

| module | models | state and actions |
|---|---|---|
| `EventLatch` | what an interrupt device promises to one reader | a one-place latch: `Raise`, `Read`, `Return`, `Signal` |
| `IrqDriver` | `dataIrq.c`, `irq.c` | `irqHappend`, the queue, each reader's place in `wait_event_interruptible`; `IRQ` and `Wake` are the two statements of the handler |
| `RecordStream` | what the acquisition promises | the piece of data last handed over: records one after another, each from first to last byte |
| `Acquisition` | `app.c`, `main.c` | the statics under their names; `main` and `mesg` are the places of the two threads; one action per access to shared state or per call; PL, PC and card as environment |
| `AcquisitionInv` | - | the inductive invariant of `Acquisition` |
| `XfifoDma` | `xfifo_dma.c` | the device structure, the channel, the engine, allocated buffers and each client's place in its call |
| `RegDevice` | `axi_csr.c`, `bram.c` | open files, positions, words, mappings |
| `Registers` | `csr.c`, `csr.h` and the register writes of `app.c` | composes `RegDevice` (`Dev`) with the queue of calls the handler still has to make; `Seek`, `Read`, `WriteBack` are the system calls of one `RegWrite` |
| `GpsReceiver` | `gps.c`, and `MesgThread` where it uses the clock and `gps_data` | the statics of `gps.c`; `Frame*` are the branches of `proc_gps`, `gps_gpgga` and `Rmc*` the accesses of the two parsers to what is shared, `Mesg*` the copy; time, receiver, line and crystal as environment |
| `Startup` | `main.c` up to its loop and what it calls | how far `main` is, the sockets and their backlogs, the session accepted on each port; the PC, TCP, the PL (`armed`) and whoever restarts the program as environment |
| `IniFile` | `inifile.c`, `Configuration` as its reader | the file as a sequence of lines, the keys read so far, the steps of a write, the buffers and a card that may be full |
| `MC*` | - | constants for TLC |
| `*_proofs` | - | theorems and proofs |

How the modules fit together: `Acquisition` uses the interrupt devices as two
latches (`cntIrq`, `dataIrq`), and `IrqDriver` is shown to implement `EventLatch`
for the one reader each device has. `Acquisition` takes the registers as two
variables (`recEn`, `regLen`), because the PL does nothing before `REC_EN`;
`Registers` shows that `REC_EN` is indeed set by the last write, over a complete
configuration. `Acquisition` implements `RecordStream`.

Some correspondences that are not obvious:

* A read-modify-write of a static is two steps (`FlagLoad`/`FlagStore`,
  `TotalLoad`/`TotalStore`). The plain stores at the top of `MesgThread` may be
  performed in any order (`MesgStore`): nothing orders them for the other CPU.
* A file is named by the record it is opened for (the code uses the second of the
  trigger); `fclose`, `fwrite` of NULL or of a closed FILE stop the model with
  `crashed = 1`, the name for undefined behaviour.
* `s_ulSampleLength - s_ulTotalLen` is taken modulo `ULONG_MOD`, as unsigned
  arithmetic does.
* A 32-bit word in `Registers` is the set of its bits; masks and shifts are set
  operations, so that isolation of fields can be proved for all words.
* `WorkMode` is the transmitter or the receiver of `app.c`'s own table and goes to
  `CSR_TRANS_EN`. The calibration and work modes that `csr.h` names are values of another
  field, `CSR_MODE`, which nothing writes: the model has it, and it stays 0. The
  registers are zero when the program starts; no code clears them, and a program that
  is started again on an armed PL belongs to `Startup`.
* `GetLfsrUint` writes zeros: the call of its generator is commented out, and the
  last bit of its buffer is never set (a nondeterministic bit of the model).
  `InitialValue` and `GenerationPolymerization`, which it would use, reach no register.
* The register drivers copy the 64-bit `f_pos` into an `unsigned long` (`Index32`): a
  position beyond `ULONG` wraps. `ioremap_nocache` is assumed to find a mapping.
* On the serial line a sentence is four pieces: `$`, the fields, `*` with the
  checksum, CR. A checksum is right exactly when the `*` was sent with the fields
  before it: two different texts of one checksum are left out. Where `fgets` cuts
  the text does not matter, since `proc_gps` keeps its state, so pieces are taken
  one by one. The other sentences of a receiver pass the framing and have no parser.
* `gps_data` is shared a field at a time, in the order of memory (`Memory`). `memset`
  and each `sscanf` are one step that stores several fields; the year is a statement
  and a step of its own (`RmcYear`), and so is each multiplication of minutes. A copy
  that meets GpsThread at such a step takes for each field the value before or after
  it (`Written`), so every interleaving of single stores and loads is there.
* The calendar has `SECS`, `MINS`, `DAY` and months of `DAYS` days: `mktime` is then
  linear. The time zone of the board is taken to be UTC, which is what makes
  `mktime` give GPS time. `year` without a date is a member of `Garbage`.
* A position is the second of the sentence it is from; `Raw` stands for a number
  that was read but not yet multiplied, or was never read.
* In `Startup` a PC that comes again is another session, so that a connection of a
  session that has ended can be told from one of the session that is on. `unlinked` are
  the ports whose calls failed: a failed `bind` or `listen` leaves `InitNetLink`, so the
  ports behind it too; a failed `accept` its own only. `armed` is the PL's: a START or
  STOP (`Command`) changes it, the end of the program does not. `waiting`
  are the ports in TIME_WAIT: the board closed their connections first, and
  `InitNetLink` does not set `SO_REUSEADDR`.
* In `IniFile` a name is a sequence of syllables, and one name may begin another. A
  file is *plain* if none of its names is the beginning of the section or of a key
  without being it. `buf` and `w_buf` hold `MAX_LINES` lines: a longer file fails an
  assertion, a longer text overruns `w_buf` (both stop the model with `aborted = 1`). A
  full card leaves some beginning of the text in the file (`Cut`), be it noticed by
  `fputs` (`WriteFails`, 0 is returned) or by `fclose` (`WriteClose`, 1 is
  returned). Lines end with a newline, the last one too (a header without one would get
  the key that is added to it on its own line).

### Assumptions on the environment

`Acquisition` has a constant `Assumed`. Each member is a timing or a behaviour of
the PL, the PC or the card that the code relies on and does not enforce: `fresh`,
`setup`, `drain`, `gap`, `calm`, `start`, `stop`, `latch`, `link`, `card` (explained
where the constant is declared). A run that leaves one out lets the environment break
it. `latch` is what a STOP in the middle of a record needs to be harmless: the PL is
disarmed before it fills a bank that the main thread is not waiting for, so that no data
interrupt stays in the driver. `card` is that files can be opened and that every
`fwrite`, whose result the code ignores, writes all it was given.

`GpsReceiver` assumes of time only that a second is long enough: `GpsThread` has
parsed the sentences of one before the next (at 9600 baud they take half of it),
`MesgThread` names its file within a second of the trigger, and the crystal is off
by at most one second in `GRANULE`. Triggers are `T_ACQ` seconds apart; `app.c:727`
makes that at least 3. `sbuff` has room for three pieces (a sentence without its end;
the code has 256 characters for one of at most 82).

`Registers` knows nothing of a START on an armed PL beyond what it does: it rewrites
the fields one by one under a running trigger, and `ConfiguredWhenArmed` leaves that
time out (`StartUnderWay`).

`Startup` assumes that one session of the PC connects once to each port, in any order,
and `IniFile` that no key is the beginning of another, which is true of the keys that
`Configuration` asks for. `TimesFit`, that the time between two records fits the 15
bits of `T_DELTA`, is not an ASSUME: nothing in the code sees to it (a hazard at
`app.c:735`), so it is a hypothesis of the two theorems that need it.

## 3. Runs

| run | result | what it shows |
|---|---|---|
| `irq` | pass | no lost wake-up, every latched interrupt is reported, and the driver implements `EventLatch` |
| `acq_orderly` | pass | everything assumed: data intact, records complete, files right, no FILE fault, every record delivered, `RecordStream` implemented, and the inductive invariant |
| `acq_stop` | pass | STOP in the middle of a record, with `latch`, over four records and eight commands: file closed and removed, every command answered |
| `acq_races` | pass | nothing assumed: no FILE leaked |
| `acq_stop_hang` | violation of `EveryCommandAnswered` | STOP next to a trigger: the main thread waits for ever |
| `dma_exclusive` | pass | files open for writing, interrupted locks, failed allocations: buffers and data right, a device nobody has open admits a writer, every call returns |
| `dma_any` | pass | anything may fail: one writer, one transfer |
| `reg_turns` | pass | two programs that take turns: positions valid, mapped while open |
| `registers` | pass | START and STOP in any sequence: armed only over complete settings, which it then holds unless a START rewrites them; values as `csr.h` names them where it does; one field per write |
| `gps` | pass | losses cost at most a sentence each and never make one up; a fix sets the clock right whatever was left over; the clock stays within one second of GPS time, and one more for each loss; with triggers at least 4 seconds apart no record truncates another; a message is of one sentence or, if it was copied while they were parsed, field by field of the last two or zero |
| `startup` | pass | only ports whose calls failed have no connection, the others are of one session; after faults, hang-ups and restarts both sides find each other again, unless a call of `InitNetLink` or `AcceptLink` failed or the PC hung up on a PL that is not armed |
| `ini` | pass | every file of up to four lines: values as the file gives them; a write that the card takes and `w_buf` holds changes one key |

More hazards are not runs of their own; the same modules show them when a constant
or a condition changes:

* `Acquisition` without `"stop"` and `"latch"` in `Assumed` breaks `Intact` and
  `NoFileFault` with two records: a data interrupt that is latched at STOP is read as the
  next record's, the banks are shifted, and the main thread may write before MesgThread
  has opened a file (`fwrite` to NULL). With three records it breaks
  `EveryCommandAnswered`: the stale total is beyond a shorter length, the unsigned
  remainder wraps, and the main thread waits for data that never comes.
* `XfifoDma` with `Modes = {"r"}` breaks `NoBufferLeak`: two readers share the
  buffer address over the unlocked wait; one buffer is freed twice, one never.
* `Acquisition` without `"setup"` in `Assumed` breaks `Intact`: the first bank is
  full before `MesgThread` has reset the counters.
* `Acquisition` without `"stop"` and `"calm"` breaks `StopRemovesFile`: a STOP that
  meets `MesgThread` between `fclose` and `fopen` finds `s_pSdHPFd` NULL, and the
  file that is opened next stays on the card.
* `XfifoDma` with `"release"` in `Events` breaks `AdmitsWhenClosed`: a close that a
  signal interrupts leaves the count up, and no writer is admitted again.
* `RegDevice` with `Sharing = TRUE` breaks `MappedWhileOpen`: nothing refuses a
  second open, and the first of the two closes unmaps the registers.
* `GpsReceiver` with `T_ACQ = 3`, which is the shortest distance `app.c:727` can
  configure, breaks `overwrote = 0` although nothing is lost: a file that is named a
  second after its trigger by a clock that is a second fast has the name of two seconds
  after the trigger; if the clock is then set right and falls a second behind, a record
  named at the next trigger gets the same name. This takes a drift that changes its
  direction, which the model allows. `NoOverwrite` therefore asks for a distance of 4 seconds, and two more for
  each loss; `FilesKept` proves that to be enough.
* `IniFile` without the condition `lost = 0` in `WriteKeepsOthers`: on a full card
  `fclose` cannot write what `fputs` had buffered, and `write_profile_string` returns 1,
  which its comment (`inifile.c:234`) calls success, over a file that is cut off.
* `Startup` with `"start"` in `HangsIn` breaks `LinkedWhenRunning`: a PC that gives
  up before all three connections are accepted leaves one in a backlog, and the
  next accept takes it.
* `Startup` without the escape `unlinked # {}` in `LinksComeUp`: a program that is
  restarted within TIME_WAIT cannot bind, ignores it, and runs on, deaf. With
  `Patient = TRUE`, and no fault of a socket call, it is never reached.
* `Startup` without the escape `Deaf`: a PC that hangs up before any START, or after
  STOP, is never noticed. `recvfrom` returns 0 for ever, no trigger makes MesgThread
  send, and nothing accepts the PC again.

Two comments do not describe the code: `gps.c:412` has the clock set when it is more
than 63 seconds off (the mutant of `TracksGps` does that, and the clock then stays
wrong for ever), and `gps.h:31` counts months from 0 and years from 1900 where
`gps_gprmc` stores months from 1 and full years.

### Bounds

* Interrupt driver: one reader, as the program has for each device (the refinement
  of `EventLatch` needs it). A reader woken by another's interrupt is covered by
  the theorem, which holds for any number. The state is finite without bounds.
* Acquisition: a package of 2 and a bank of 4 bytes keep the ratio of `app.h`. The
  lengths 2, 3, 8, 9 are: exactly a package, one more, exactly two banks, and back
  in bank A. Two records are needed for anything left over from the one before;
  three commands for START, STOP, START. What STOP leaves behind may take effect one
  record later (a total that is too long for a shorter record), so `acq_stop` has four
  records and eight commands, with a long record for the PC and a shorter one for the
  card. `ULONG_MOD = 64` is more than any length.
* DMA driver: two clients, and as many buffers as they can hold, or one more; the
  third client only repeats the second's part.
* Register device: two programs, three words, an `unsigned long` of 4 values, positions
  to the second word of the next round, the offsets -1, 0, 1 and 4.
* Registers: the real labels, tables and sizes; seven configurations that use every
  row of every table between them, the shortest and the longest code, a value that is
  in no table, and the longest impulse whose cycles TLC can count (beyond it the
  product takes bit 31, which the theorems cover); three times. Codes are limited to 2^11 bits, the most that
  `lfsr.c` accepts.
* GPS receiver: a minute of 2 seconds, a day of 8, two of them to a month and two months
  to a year, with the year changing early in a run, so that a run crosses all of them; a
  granule of 4 seconds; an `sbuff` of 4 pieces, one more than a sentence without its end.
  Each of the six environments spends its bound on one thing: 16 seconds of drift (four
  granules); two losses over three granules; four losses within three seconds, which is
  what it takes to run over `sbuff`; three records at least four seconds apart over 12
  seconds (three granules, the time in which a clock can be fast, set, and slow again); a
  record copied while `gps_gprmc` runs, where the year changes; the same while the fix
  comes and goes. Only the last two let MesgThread copy within `gps_gprmc` (`preempts`):
  in the others no property depends on it.
* Start-up: every order of three connections, two faults of any kind (one may hide
  the other), two hang-ups once the board is in its loop (the second meets what the
  first left). Sessions and
  restarts are then bounded by themselves.
* Ini files: nine kinds of lines (the section, a shorter and another one; a key, a
  shorter and an empty one, a value that is no number; a comment), up to four of them,
  so a key can be missing, doubled, in the wrong section or in a second section of
  the name; one write or replacement at any moment; a file that is too long, and files
  of four lines that become too long for `w_buf` by the two or three that are added.

Deadlock is checked except where the program or the environment may really stop:
`acq_races` (undefined behaviour, or blocked for data), `gps` (a crash, or the end of
the seconds), `startup` (everything linked) and `ini` (a failed assertion).

### Fairness

`IrqDriver`: the CPU takes a latched interrupt, finishes the handler, and runs a
thread inside `read()` that can go on. `Acquisition`: Linux runs both threads, and
a PL that samples goes on; neither triggers nor commands are promised.
`XfifoDma`: calls are scheduled and a waiter gets the mutex eventually (strong
fairness: other clients may take it in between), and a DMA that was enabled ends
by one of its callbacks. `Startup`: `main` and the threads are scheduled, an armed PL
triggers again and again (`T_ACQ` is a period; `Acquisition` needs no such promise, since
its properties are about triggers that came), a PC whose connection is refused tries again, TIME_WAIT ends, and a program that
has ended is started again, as the init script of a board does. Nobody need send a
START, so a PL that is not armed may stay so. Hang-ups and faults are not fair: they need not happen.

## 4. Proofs

All theorems hold for every value of the constants that satisfies the ASSUMEs.

* `IrqDriver_proofs`: type correctness; no lost wake-up (inductive with the fact
  that a thread which will sleep is in the queue or about to test the flag again);
  refinement of `EventLatch` when there is one reader.
* `Acquisition_proofs`: type correctness, and `NoFileLeak` with nothing assumed.
  The strengthening `FileInv` says where each thread can be between closing the
  FILE and forgetting the pointer. `StopRemovesFile` with `calm` alone (a command and
  the handling of a trigger do not overlap), by `StopInv`: a command is under way only
  while `MesgThread` is in `read()`, a file that is not open is not on the card, and
  after STOP none is opened until the next START. Interrupts may stay latched there:
  `latch` is not needed. With all assumptions,
  `OrderlyInv` (module `AcquisitionInv`) is inductive, and with it `Intact`,
  `RecordComplete`, `FileDescribesRecord`, `NoFileFault` and the refinement of
  `RecordStream`. The properties are not inductive themselves: they say nothing of the
  counters. `OrderlyInv` describes a record in three phases, `Setup` (`MesgThread` owns
  the counters), `Run` (the main thread does; how `s_uiFlag`, `s_ulTotalLen`, the banks
  and the PL's position relate at each place of `DeliverData_s`), and `Rest`; and
  `ConfigInv`, `CardInv` keep commands and files out of the way. TLC checks it in
  `acq_orderly`.
* `XfifoDma_proofs`: type correctness, `OneWriter` and `OneTransfer` whatever
  fails; and, when all files are open for writing and no signal ends a wait,
  `BufferSafe`, `NoBufferLeak` and, without faults, `ReadsOwnData`, by the invariant
  `ExclusiveInv`: the client inside a transfer is the only one that has the device.
  `AdmitsWhenClosed` needs the converse of the count too (`Counted`), which holds if
  no signal breaks off a close.
* `RegDevice_proofs`: type correctness for any programs; `MappedWhileOpen`
  for any number of programs that take turns.
* `Registers_proofs`: `ReadBack` (RegRead after RegWrite) for every word, field and
  value; type correctness; `FieldIsolation`, by the invariant that what a RegWrite
  read is still in the register when it writes back. `ConfiguredWhenArmed` and
  `ArmsConfigured` for every configuration and time under `TimesFit`, from registers that
  are zero at the start, with words of 32 bits, by `HandlerInv`:
  what is left
  of a handler's calls tells which were made, the registers have what those wrote
  (`Written`), and no write of one START touches the field of another. The words
  of the code RAM are zero but for the bit that `GetLfsrUint` leaves as it was.
* `GpsReceiver_proofs`: type correctness with `Within` (the index is the length of an
  open frame); and
  * `FixSetsClock`, by `FixRead`: what `gps_gprmc` has read at each of its places is of
    the sentence at hand, so nothing left over in `tm_time` matters;
  * `SentenceOnce` for any number of losses, by `InOrder`: what is on the line is later
    than what is in the frame, and that later than what was taken;
  * `LossContained`, by `Counted` and `Contained`: sentences taken and pieces lost
    make up for all sentences gone by, and already for the one under way if its frame
    is no longer whole; after one loss, other than of a `*`, the frame is whole, closed,
    or one of the few that this loss can leave (`Harmless`), none of which crashes;
  * `MessageWhole`, by `DataWhole` and `CopyWhole` (between sentences `gps_data` is of one
    sentence, and an undisturbed copy of it is too) and, for a torn copy, `Fresh` and
    `CopyFresh` (each field, before and after the store under way, is of one of the last
    two seconds, or zero, or minutes not yet multiplied);
  * `TracksGps`, by `Close`. A clock that is off by `e` is in another granule than GPS
    time in at least min(|e|, `GRANULE`) of any `GRANULE` consecutive seconds
    (`GranulesMissed`, a count over the seconds), and each of those sets the clock unless
    its sentence was lost; so a clock cannot stay off by more than the losses, and the
    crystal adds one second in that time. `Close` carries this bound with the second the
    clock was last compared in and with the sentence that is still to come;
  * `NoOverwrite`, by `Named`: every file name is within the error of the clock of the
    trigger it belongs to (`NameBy`), so that names of triggers far enough apart differ.
* `IniFile_proofs`: `ReadIsReference`, the parser against the definition of what a
  plain file says, for files of any length; type correctness; `ReadsFile`, by
  `Undisturbed` (until the file changes it is the one that was begun with, and what
  is not read yet is what was there before). `WriteIsReference`, the same for
  `write_profile_string`, by cases on what `parse_file` found (the key; the section
  without it; neither; no file): what stands before and after the changed line, and in
  which section; `WriteKeepsOthers` from it, for a write that the card took.
* `Startup_proofs`: type correctness; `LinkedWhenRunning` for any orders, faults and
  restarts, accepts that fail among them, if the PC does not hang up while the board
  starts, by `OneSession` (what is
  in the backlogs or accepted while `main` starts is of the present session) and
  `Progress` (at each place of `InitNetLink` and `AcceptLink` the ports before it listen,
  or are connected), with
  `OnceInv`: a session connects once to a port, and a backlog is in the order of sessions.

Only model-checked: the liveness properties (`EventReported`, `RecordDelivered`,
`EveryCommandAnswered`, `CallReturns`, `LinksComeUp`), since the prover does not
handle fairness. Every other property of a passing run is stated by a theorem. The types
of `GpsReceiver` and `IniFile` are proved and not among the invariants of the runs.

## 5. Not modelled

* Text: lengths of values and names, numbers beyond their range, and a `%` in an ini
  file, which `write_profile_string` hands to `sprintf` as a format (`inifile.c:279`).
* A serial line that is silent for two seconds: `fgets` returns nothing then, and
  `GpsThread` asks again.
* Commands that arrive in one segment, beyond what `Acquisition` says of them.
* `CreateDir`, whose result is only printed. That the PL samples as many
  bytes as `app.c:705` computes, with its rounding, and not 0 of them, is assumed.
* In the message: the height and the letters of the hemispheres, stored like the status.
* In `xfifo_dma.c`: positions, statistics, and the failure paths of probe and
  remove. In the register drivers: `container_of` on an `i_cdev` that
  `register_chrdev` never set; the models take the device structure to be valid.
* Codes of more than 2^11 bits and file names of more than 31 characters, for which
  `app.c` leaves its buffers.
* Code that nothing calls: `DeliverData`, `UdpDeliverData`, `UdpInitNetLink`,
  `SaveFileToSd`, `GetAverage`, `TestSd`, the program `gps.c` once was (`org_main` with
  its watchdog, `proc_error`, `writetofile`, `PraseGPS`), the feedback functions of
  `lfsr.c`, and `io_test.c`. `write_profile_string` is not called either; it is
  modelled as the writer of the file that `Configuration` reads.

## 6. Plan

Done: the interrupt drivers, the acquisition with its invariant and refinement, the
DMA driver, the register drivers, the configuration of the PL, the GPS receiver, the
ini files and the start-up, and theorems for every safety property of theirs.

Next, in this order:

1. `XfifoDma`: positions and `lseek`, probe and remove.
2. Proofs: the facts on sequences that two proof modules state alike, once.
