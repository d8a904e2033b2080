# A formal model of the Ai-WB2-12F Arduino core

This directory holds TLA+ models of the Arduino core for the Bouffalo BL602
(`cores/arduino`, `libraries/*`), the TLC configurations that check them on
small instances, and proofs, checked by TLAPS, of the results that matter most.

The code under study is the core's own: about 2700 lines in `cores/arduino` and
3500 in `libraries/*/src`. The SDK (`lib/`) is vendored binaries; what the core
relies on is modelled from its calls and marked external in `PROJECT.json`.

Contents: [1 inventory](#1-inventory), [2 plan](#2-plan),
[3 modules](#3-modules-and-code), [4 runs](#4-what-the-runs-show),
[5 bounds](#5-bounds), [6 fairness](#6-fairness), [7 proofs](#7-proofs),
[8 not modelled](#8-what-is-not-modelled), [9 findings](#9-findings).

## 1. Inventory

The chip has **one RISC-V core**. An interrupt handler therefore runs to its end
before the code it interrupted goes on, and two pieces of code interleave only
where an interrupt or a FreeRTOS task switch can come between two memory
accesses. The sketch's `setup()`/`loop()` run in a task at priority 15; the
SoftwareSerial and Servo tasks run at 18, the tone task at 20, and the stacks of
WiFi and BLE call back from tasks of their own.

| component | state | operations | works with | hard because | what makes it correct |
|---|---|---|---|---|---|
| HardwareSerial | ring, two cursors per port | `begin end available peek read write flush`, the UART interrupt | one handler for both UARTs, lock-free against the sketch | interrupts between any two accesses; a full ring; a request that stays raised | bytes come in order, at most once; answers stay true; no interrupt storm |
| Preferences | 4 KB RAM table shared by all objects (`s_buf`), `_dirty _ns _readOnly _handle` | `begin put* get* remove clear commit end` | sector 1 of the DATA partition | erase-then-write commits cut by power loss; compaction; objects sharing one table | implements a key-value store; room is never lost; changes are marked |
| EEPROM | RAM shadow, `_size _dirty _handle` | `begin end read write update put get commit` | sector 0 of the same partition | failing or cut commits; sizes | a clean shadow is what flash holds; Preferences undisturbed |
| OneWire | search cursor (`_rom`, last discrepancy, last-device flag) | `reset read write select search reset_search crc8` | the wired-AND bus | devices leave and join between calls and bits | a pass reports each device once and nothing else |
| IRremote | edge ring filled by a pin interrupt, `s_head s_tail` | `enableIRIn decode sendNEC` | pin interrupt against the sketch | snapshot read, then advanced with interrupts on; index width | a frame is decoded once; indices stay in the ring |
| SoftwareSerial | ring filled by a sampling task, `_listening` | `begin end available read peek write` | task at priority 18 against the sketch | preemption between two stores; sampling point; a task that polls | the ring is what was sampled; `end()` ends; the sketch runs |
| Tone | pin, half period, cycles left, task handle | `tone noTone` | task at priority 20 that holds the CPU | the task preempts `tone()` between stores | a tone is not disturbed; a counted one ends |
| PWM, ADC, digital I/O | channel owners and values, cache of pin modes | `analogWrite analogRead pinMode digitalWrite digitalRead` | one pin multiplexer, shared with SPI and I2C | caches over hardware that others change; channels stolen | the caches tell what the hardware does |
| SPI | settings, transaction flag | `begin end beginTransaction transfer` setters | the multiplexer, the chip select | a controller set up only when a cache differs; calls out of order | settings reach the controller; one slave listens |
| Wire | transmit queue, receive buffer | `beginTransmission write endTransmission requestFrom read` | the driver, which may fail | queue and buffer at their limits; stale replies | no byte dropped in silence; replies are fresh |
| Hardware timer | `s_inited s_started` | `timer_begin timer_set_period timer_start timer_stop` | its interrupt, whose callback may call the library | half-failed set-up; callback between two stores | the flags tell what the timer does |
| Pin interrupts | function and mode per pin | `attachInterrupt detachInterrupt`, the shared handler | the pin | CHANGE emulated by re-arming; the pin changes meanwhile | no change unseen, the next edge awaited |
| BLE | started, connected and advertising flags in two files | `begin end send connected`, callbacks of the stack | the stack's task | callbacks in the middle of `end()` or after it | the flags tell the connection; on the air while open |
| WiFi | SSID, status, started flags | `begin disconnect status SSID`, events | event task, manager of the SDK | stale events of the previous connection; start in the background | SSID and status tell the network |
| String | buffer, capacity, length | `concat operator= replace remove trim indexOf ...` | a heap that may refuse | terminator, length and capacity in step; stale bytes behind | the buffer is the text; answers are about the text |
| Stream, Print | timeout, progress of a search | `find findUntil parseInt parseFloat readBytes print` | a peer whose bytes come late | restart of a match; byte and timeout racing; rounding | answers exact; numbers read back; calls return |
| Servo, NeoPixel, Watchdog, RTC, pulseIn, CRC | a table, a pixel buffer, a flag at most | driver calls | none | little, or nothing runs (section 8) | none stated |

Every component is listed with its source files and status in `PROJECT.json`
("components"), and every hazard with the line where it bites ("hazards").

## 2. Plan

Written, in this order:

1. `HardwareSerial` with the abstract `ByteStream`: the one component every
   sketch uses, and the purest interleaving problem of the code.
2. `Preferences` with the abstract `KeyValueStore`: crashes and partial failure.
3. `OneWireSearch`: a stateful algorithm against a changing environment.
4. `EEPROM`, and `DataPartition`, which composes it with `KeyValueStore` (the
   specification `Preferences` is shown to implement).
5. `IRremote`: a ring whose indices are wider than it is, and a reader that works
   on a snapshot while the interrupt drops the oldest entries.
6. `Tasks`, which composes `SoftwareSerial` and `Tone` under the fixed priorities
   of `Scheduler`: what the sketch shares with tasks that preempt it, and whether
   it runs at all.
7. `Peripherals`, which composes `Board` (`Pins`, `SPI` and `Wire`: caches over
   hardware that several libraries write) with the four parts that are called
   back, `Timer`, `PinInterrupt`, `BLE` and `WiFi`.
8. `Text`, which composes `Stream`, `Printer` and `WString`: the sequential code
   with the most cases, compared with reference definitions.

Two abstract specifications are stated, `ByteStream` and `KeyValueStore`, and
refined by `HardwareSerial` and `Preferences`; `DataPartition` builds on the
second. Elsewhere the abstract side is a history variable (`unread`, `reply`,
`text`, `offered`) that a single invariant ties to the concrete state.

Left, should the project go on: the transmit side of OneWire with its CRCs as
functions.

## 3. Modules and code

Names follow the source. A definition whose name ends in `_Something` is a
variant of the definition after it, with a plausible bug; it is used nowhere in
the models and serves to show that the properties can tell it from the code.

**`ByteStream`** is the promise of a receive path: bytes numbered as the line
brings them wait in order, some are dropped, `read()` returns the oldest.

**`HardwareSerial`** (HardwareSerial.cpp/.h), for both ports:

* `Arrive`, `Idle` are the UART (external): a byte reaches the FIFO or is lost in
  a full one; the line goes idle and the RTO/RX_END status is latched.
* `Isr` is `uart_irq_handler()` with `uart_rx_notify()` for every port whose
  status is set: bytes go from FIFO to ring until the ring is full, and the byte
  that met the full ring is gone. It is one step, because nothing runs on the
  core meanwhile. It also services a port that was ended while the other one
  interrupts, as the code does.
* `Begin`, `End`, `Available` are the calls; `ReadCheck`, `ReadLoad`,
  `ReadAdvance` are the three memory accesses of `read()` between which the
  handler may run, `PeekCheck` and `PeekLoad` those of `peek()`.
* `accepted`, `delivered` and `answer` are history: what the handler stored, what
  `read()` returned, and what the sketch was last told.

The ring keeps its real arithmetic: cursors masked to `RxSize`, a power of two,
one slot free. `begin()` may or may not clear the FIFO (`bl_uart_init()` is
external). The calls `read()` and `available()` of an empty ring change nothing
and are not steps.

**`KeyValueStore`** is what Preferences promises: a working map, a durable map,
commits that are *not* crash-atomic (nothing or a part of the map may survive),
and never anything else.

**`Preferences`** (Preferences.cpp): the region is kept as the walk over it sees
it: entries, dead ones included, up to the end marker. `Reset`, `Compact`,
`Without`, `Appended`, `TableEnd` are `_reset _compact _remove _append
_tableEnd`; `Begin`, `BeginTooLong`, `Put`, `Remove`, `Clear` the calls; `Erase`
then `Write` (or `EraseFails`, `WriteFails`) the two flash operations of
`commit()`, inside `end()` or not, with `PowerLoss` possible between them and
anywhere else. Abstractions:

* a value is its type tag and its data in one; the twenty typed puts are one
  action, a get of another type reads as absent;
* room is counted in bytes, as the number of the places that the entries occupy
  (`BytesAt`), and a compaction says which entry comes to which place (`Packed`,
  `Place`) instead of moving them one after the other;
* a torn write is cut between two entries or inside the data of the last one
  (`Damaged`); a cut inside a header or a key leaves nothing, or no entry, which
  other cuts already give;
* an erased byte reads as a dead entry, so a walk without end marker ends at the
  end of the region; what `prefs_find()` might read behind `s_buf` is the
  linker's choice and is a listed hazard, not a modelled behaviour;
* `bl_mtd_read()` is assumed to succeed, as the code assumes; erase and write
  fail as the code expects them to;
* `NoName` also stands for the empty name; a put of more than 65535 bytes is
  left out (it never fits).

**`OneWireSearch`** (OneWire.cpp, `search()` and `reset_search()`): one step per
bit. `Agree`, `Discrepancy`, `NobodyAnswers` are the three outcomes of the two
bits a device drives, `Reports` and `RejectsFamily` the two ends, `SearchEnds`
the early return. `Leave` and `Join` are the bus. `_lastFamilyDiscrepancy` is
written and never read by the code and is left out. A device counts as present
when it answers the search command in use.

**`EEPROM`** (EEPROM.cpp/.h): `Begin` with `Load` or `Resize`, `End`, `Write`
(also `update()`), `Put` of two cells, and `commit()` as `CommitErase` and
`CommitWrite` with their failures; `PowerLoss` at any point. A cell stands for a
group of bytes. `resized` is history: `begin()` under a loaded shadow has set
`_size` without reallocating. Reads behind the allocation give any value; what a
write there corrupts is not modelled.

**`DataPartition`** composes `EEPROM` with `KeyValueStore`: the durable map is
the content of the first cell of sector 1. It stands on the run `prefs`, which
shows that Preferences implements that store.

**`IRremote`** (IRremote.cpp, and CHANGE of wiring_interrupt.c): `FrameBegins` and
`FrameEdge` are the remote control and the interrupt: `Measured` records a
duration, `FirstMeasured` is the first edge after `enableIRIn()` (the interrupt is
armed for a rising edge, so the falling edge that begins a frame on an idle line
is not seen, and the first duration runs from `enableIRIn()`), `Unseen` the edges
nobody records. `FrameOf` builds a frame as `sendNEC()` does. `Snapshot`,
`ReadHeader`, `ReadBit` and `Store` are `decode()`, with interrupts possible
between them; two loads of one bit, or of the header, are one step. An entry of
the ring is the duration in microseconds, compared with the thresholds of the
code, and, for the properties only, which duration of which frame it is. A word
is the set of its 1 bits. Indices
are `uint8_t` (`IndexSize`), and an index outside the ring reads anything
(`Beyond`). The sketch attaches only a receiver that is detached; the edges of a
running frame are never too close for the handler.

**`Sketch`** is the loop task: `pc` says where in which call it is. **`Scheduler`**
adds the two tasks above it, `rx` and `player`, and says who has the CPU: a task
that is not in `vTaskDelay()` (or not there at all) keeps it from all below, and
`taskYIELD()` gives it to none of them.

**`SoftwareSerial`** (SoftwareSerial.cpp/.h): the line's time is counted in half
bits, which is what the sampling distinguishes. `RxDetect`, `RxSample`, `RxPush`,
`RxRest`, `RxWake` are `_taskFn()` with `_rxLoop()`; `BeginTail` and `BeginHead`
the two stores of `begin()`, `ReadLoad` and `ReadAdvance` the accesses of
`read()`, `SetListening` `end()` and `listen()`; `StartFrame` and `Tick` the line.
A sample taken at the boundary of two half bits reads either. While the receiver
has the CPU time does not pass by it; while the player has it, samples fall due
and are taken late, as in the code. `_overflow` is written and never read.
`write()` keeps interrupts off and no state.

**`Tone`** (wiring_tone.c): `ToneStart`, `ToneHalf`, `ToneCount` are the stores of
`tone()`, `NoToneCount` and `NoToneRest` those of the sketch's `noTone()`;
`PlayerIdles`, `PlayerPlays`, `PlayerCounts` the task, one period at a time.
**`Tasks`** puts the two libraries under one sketch, with the fairness of section
6.

**`Pins`** (wiring_digital.c, wiring_analog.c): `fun` is the chip's multiplexer,
written by everybody; `pin_modes`, `pwm_channel_pin`, `pwm_channel_val`,
`adc_chan_added` are the caches. One action per call. **`SPI`** (SPI.cpp) adds
the controller's settings, the chip select and the transaction flag; the bytes
and their order are left out. **`Wire`** (Wire.cpp): the transmit queue and the
receive buffer; the driver takes a whole queue or fails, and may have written
part of a reply when it fails. **`Board`** composes the three; `Wire.begin()` and
`setClock()` are what they do to the pins.

**`Timer`** (wiring_timer.c): a call is cut where the timer's interrupt may come
between two of its effects (`TimerReplace`, `TimerSetUp`, `TimerGo`,
`TimerStarted`, ...); the callback is one step and may itself stop, start or set
up the timer. Every driver call may fail. **`PinInterrupt`**
(wiring_interrupt.c): `attachInterrupt()` and `detachInterrupt()` store by store;
the handler enters, reads the level and arms the opposite edge, and calls the
sketch's function, while the pin changes between any two of these. **`BLE`**
(BLE.cpp, ble_native.c) and **`WiFi`** (WiFi.cpp): the calls step by step, and
between the steps the callbacks of the stack's task, or the events that the
manager of the SDK posted and that are handed over later, in order. The stack and
the manager are external and do what the code's calls and comments say of them.

**`Peripherals`** composes `Board` with these four: a call of the sketch at a time,
an interrupt or a callback between any two of its steps, and nothing while the
handler of the pin interrupt runs. `MCPeripherals` explores the parts one at a
time: they share `pc`, and each leaves the others' variables alone, so that the
product of their states has nothing to add. The theorems are about `Peripherals`
itself.

**`WString`** (WString.cpp): the buffer byte by byte, `NUL` and stale bytes
included, over a heap whose largest block is chosen anew for each call;
`text` says what the call makes of the text, independently of the buffer.
A buffer grows by doubling until the request fits, `replace()` builds its result
piece by piece in another String (`Replaced`), and what the result should be is
said of the text alone (`Substituted`). `StringRemove` is `remove()`. **`Printer`** (Print.cpp, and the
conversions of WString.cpp): operators only, texts as sequences of character codes
and a double as a whole number of thousandths. **`Stream`** (Stream.cpp): a call
takes one byte a step; `Misses` and `ChecksClock` are the two halves of
`timedRead()` and `timedPeek()`, between which a byte may come; `WantsNothing` is
the call that has nothing to wait for, an empty target or a length of 0. **`Text`** composes
them: a peer prints, the sketch reads; `MCText` again explores the Strings and
the stream one at a time, because they share nothing.

The `MC*` modules give the constants that a `.cfg` cannot express. The `*_proofs`
modules are section 7.

## 4. What the runs show

| run | module | what it asks | answer |
|---|---|---|---|
| `serial` | MCHardwareSerial | does the lock-free ring keep every promise with two ports and interrupts anywhere? | yes |
| `prefs` | MCPreferences | do two objects over one `s_buf` implement the store through overwrites, compaction, failures and power loss, and is every change marked? | yes, but for one named exception |
| `prefs_readonly` | MCPreferences | does a read-only object leave the stored namespace alone? | no (finding 1) |
| `onewire` | MCOneWireSearch | does the search report every device once, and none that is not there? | yes |
| `partition` | DataPartition | EEPROM beside Preferences: does a clean shadow always equal flash, and is the store undisturbed? | yes, up to one sector |
| `partition_sector` | DataPartition | and with more than one sector? | no (finding 2) |
| `ir` | IRremote | does `decode()` return what was sent, once, and skip nothing? | yes, inside the ring and not overtaken |
| `ir_wrap` | IRremote | and when the frame lies across the end of the ring? | no (finding 3) |
| `tasks` | MCTasks | a sketch, a sampling task and a playing task on one CPU: does the ring survive, and does the sketch run? | yes, when the line falls silent and no tone is endless |
| `softserial` | MCTasks | is the byte received the byte sent? | no (finding 4) |
| `peripherals` | MCPeripherals | do the caches and flags of eight libraries tell what the hardware does, with callbacks anywhere? | yes, outside the named windows |
| `text` | MCText | do Strings, searches and conversions agree with what they are defined to be, and do calls return? | yes, with the named exceptions |

The properties, by what they would catch:

* `RingHoldsAccepted`: the ring is, slot for slot, what the handler accepted and
  `read()` has not returned. Fails with any cursor moved too early, too late or
  by the wrong side.
* `PromiseKept`: check-then-use across interrupts: what `available()` answered
  is still there many interrupts later. (`CallsUnderway` and `PeekIsNextRead`,
  the same for calls under way and for `peek()`, are proved and no longer run.)
* `ImplementsStream`: order and uniqueness across FIFO, ring and `read()`.
* `IrqQuiesces`: a full ring does not keep the FIFO's request raised for ever.
  This is why the notifier takes a byte it cannot store: the variant
  `Taken_CheckRoomFirst`, which looks like an improvement, storms.
* `PollingCatchesUp`: a sketch that keeps reading gets all the ring has.
* `TablesAreSound`, `RoomIsUsable`, `ImplementsStore`, `CallsImplementStore`,
  `PendingIsMarked`: a removed key stays removed, room comes back, a namespace
  never shows another one's keys, each call does to the map what it was asked,
  and `end()` never skips a commit that was due. The exception of
  `PendingIsMarked` is `begin()` with a name too long: it clears `_dirty` before
  it fails (`forgotten`).
* `WalksEveryROM`, `NeverTwice`, `ReportsOnlyDevices`: the first two for a bus
  nobody touches during the pass, the third always. `WalksEveryROM` excepts a
  device of family 0, which the code takes for no device and which ends the pass.
* `CleanShadowIsFlash`, `StoreUndisturbed`: section 9 says where they end.
* `RingIsContiguous`: whoever moves the tail, from however old a snapshot, what
  lies between tail and head is the newest piece of the line without a hole.
  `DecodesWhatWasSent`, `DecodesOnce`, `SkipsNoFrame` speak of a `decode()` that
  read inside the array (`inside`) and whose entries the interrupt did not drop
  meanwhile (`kept`). One that is overtaken may return a frame mixed of two, or
  one that the next `decode()` returns again: 61 edges must come during one call
  for that, at least 17 ms, which needs a task of higher priority to hold the
  sketch up.

* `RingHoldsUnread`, `EndIsEffective`: the sampling task preempts `begin()` between
  its two stores and `read()` between its load and its store, and may be in the
  middle of a frame when `end()` is called.
* `ToneIsExclusive`: `tone()` and `noTone()` store three variables one by one
  while a task of higher priority reads them; that task holds the CPU for as long
  as it plays, so that a tone under way is never changed from outside.
* `SketchKeepsRunning` is what remains of the sketch's CPU: it needs a line that
  falls silent, because a receiver that keeps finding start bits polls at priority
  18 for ever, and that no endless tone plays, because nothing can stop one.
* `ChannelFollowsOwner`, `CacheTellsDirection`, `ControllerFollowsSettings`,
  `OneSlaveListens`: a cache in the library against the hardware behind it, which
  other libraries change too. The variant `Digital_ForgetsMode` shows how little it takes.
* `QueueIsHonest`, `ReplyIsFresh`: I2C's limits and failures.
* `FlagsTellTheTimer`, `ChangesAreSeen`, `FindableWhileOpen`, `ConnectedIsTheLink`,
  `SSIDNamesTheNetwork`: flags that one context sets and another reads. Each names
  the windows in which the code does *not* keep it, as a history variable:
  `crossed` (the timer is set up by its callback before the call that started it
  has said so), `late` (the pin changes between reading and arming), `swapped`
  and `left` (callbacks that cross `end()`; a central that `end()` leaves
  connected), `overtaken` (another access point is reported in the middle of
  `begin()`). The windows are as small as the runs allow: without any one of them
  TLC finds a violation.
* `StringIsText`, `AnswersAreOfTheText`: the buffer, its terminator and the stale
  bytes behind it against the text itself.
* `AnswersAreExact`: `find()` and its relatives against "the first occurrence in
  what was read", with a byte that races the timeout. Targets on which the
  one-byte restart of `find()` is not enough are excluded by `Restartable`; they
  are in the instance, so that the exclusion is not wider than it must be.
* `ReadsBackWhatWasPrinted`, `StringsPrintLikePrint`: two independent conversions
  and a parser have to agree on signs, carries and zeros.
* `EveryCallReturns`: the timeout ends every call of a stream that fell silent.

Each violation run checks one statement that a comment of the code makes and the
code does not keep.

## 5. Bounds

* `serial`: rings of 4 slots behind FIFOs of 2 that request service at 2 bytes;
  5 bytes on port 0 and 1 on port 1. A ring of 4 holds 3, so 5 bytes fill it,
  wrap both cursors, meet a full ring with another byte behind, and overflow the
  FIFO; one byte on port 1 is enough for its interrupt to service port 0.
  `MaxBytes` is the only cap and the theorems do not need it small.
* `prefs`: two objects, two namespaces, two keys, a short and a long value in 14
  bytes: two short values fit if nothing dead lies between them, a long one fits
  alone. `prefs_readonly`: one object, the empty key too, 18 bytes, where a short
  and a long value fit after compaction. Symmetry over the interchangeable
  objects, namespaces and keys is sound: the run has no liveness property.
* `onewire`: six devices of four-bit codes, chosen so that every bit branches,
  both branches of the first bit branch again, and one device is of family 0;
  every subset may be present and every device may leave or join at any time
  (joining between calls).
* `partition`: two sectors of two cells, sizes 1 and 2 (a part of a sector and
  all of it, so that `begin()` can shrink and grow the shadow), one namespace,
  key and value. `partition_sector`: size 3, one cell into the second sector.
* `ir`, `ir_wrap`: frames of 2 bits (7 durations) in a ring of 12, in the
  proportion of 67 to 128 nearly: one frame fits, two do not. Three frames, each
  data or repeat, fill the ring, overrun it, wrap the head and drive the tail to
  an index outside the ring that the next `decode()` starts from.

* `tasks`, `softserial`: frames of two data bits, whose last sample is low, so that
  the receiver takes the rest of the frame for another start bit; a ring of two
  slots, of which one byte fills it and two wrap it; one pin, tones of a pitch or
  none, endless or of two periods. In `softserial` there is no pin and hence no
  tone: the samples are on time and wrong all the same.
* `peripherals`: four pins, two of which share a PWM channel, one of them also a pin
  of SPI, I2C and the ADC, and two chip selects; values on both sides of 255; two
  clocks and modes; a queue of two bytes that three are written to, a receive
  buffer of four slots and requests of 0 to 4 bytes; two periods; two access
  points, and up to four events on their way, enough for a connection, a
  disconnection and the next connection to be reported late.
* `text`: Strings of up to four characters out of two, in buffers that begin at two
  bytes and double, on a heap that gives nothing, one doubling or all; longs of 5
  bits and long longs of 8, so that every long is printed and read back;
  thousandths around every carry; all texts of three characters and two longer
  ones; targets that overlap themselves, and the empty one; reads of 0 and 2 bytes.

Deadlock is checked in every run: the sketch can always make another call.

## 6. Fairness

`HardwareSerial`, `Tasks` and `Text` state fairness.

In `HardwareSerial`: `WF(Isr)`: an interrupt that is pending
and enabled is taken; the core runs with interrupts enabled and the handler has
no rival. `WF` of the second and third access of a call under way: the sketch's
task, once inside `read()` or `peek()`, goes on; the handler ends, and nothing
else is in the model that could stop it for ever. Nothing is assumed of the line
(bytes may stop, time-outs may never come) nor of the sketch, which need not call
anything. `IrqQuiesces` speaks of a line that brings finitely many bytes, as
`MaxBytes` says: a line that never pauses can of course keep its interrupt
raised. `PollingCatchesUp` carries its own assumption: *if* the sketch calls
`read()` again and again whenever there is something (`SF` of `ReadCheck`).

`Tasks`: `WF(Play)`, the player is the highest priority and nothing keeps it from
the CPU; `WF` of the line's time, which passes; `SF(Receive)`, because while the
player sleeps, a whole tick of the scheduler, the receiver has the CPU for much
longer than one of its steps takes, so that a receiver that is enabled again and
again does step. Nothing is assumed of the sketch.

`Text`: `WF` of the steps of a call under way, and of time. Bytes need not come.

## 7. Proofs

All theorems are for every value of the constants that satisfies the named
assumptions in the modules; none rests on an unproved statement.

**`HardwareSerial_proofs`** (assumptions: `RxSize` a power of two of at most
2^15, `FifoDepth` positive, `MaxBytes` a function to the naturals). The
invariant is `TypeOK /\ Safe`, with `Safe` the four safety properties: together
they are inductive. `RingHoldsAccepted` alone is not, since `ReadAdvance` appends
the byte *loaded* before, and only `CallsUnderway` says that it still is the byte
at the tail. The lemmas about the masked cursors (`HeadMoves`, `TailMoves`,
`SlotFromHead`) eliminate the modulus once; `StoringKeepsRing` and
`ReadingKeepsRing` say what the handler and the reader do to one ring;
`IsrKeepsPort` says that an interrupt only lengthens what the task has seen.
Theorems: `TypeCorrect`, `RingCorrect`, `CallsCorrect`, `AvailableCorrect`,
`PeekCorrect`.

The refinement of `ByteStream` is `StreamImplemented`, in the same module. It needs
`InOrder`: the waiting bytes increase, so that what a full ring drops leaves a
subsequence. Each step maps to `Receive`, `Drop`, `Deliver` or a stutter.
`ByteStream` allows a byte to be dropped at any time; `LossesCorrect` says when the
code drops one: at a full FIFO, at a full ring, one in each run of the handler, or in
`begin()`. It counts what arrived and is neither accepted nor in the FIFO (`Lost`).

**`Preferences_proofs`** (a region of any size, entries of any length, any number of
objects, namespaces, keys and values): `TablesCorrect`, `PendingCorrect`,
`RoomCorrect`, `CallsCorrect`, `StoreImplemented`. The invariant `Safe` says that
both tables are sound (well formed, inside the region, one entry per key that is not
dead), and adds `WriteUnderWay`: while a commit writes, its object is still marked
and the shadow has no dead entry, for a write cut short at one would bring it back
to life. The lemmas count bytes as elements of a set: removing, appending and
compacting change that set in ways the theorems of `FiniteSetTheorems` can follow,
and what a compaction does to an entry is read off its `Place`.

What `KeyValueStore` itself guarantees carries over through `StoreImplemented`:
`DurableCorrect` says that no step of the code, a failed flash operation and a loss
of power included, leaves a mixture of the stored table and the one that replaces it.
Its invariant, `ErasedBeforeWritten`, is one of the abstract store alone.

**`OneWireSearch_proofs`** (codes of any length, any population): `TypeCorrect` and
`NoPhantom` rest on `Followed`: the code written so far is the beginning of the code
of *some* device that was there when the call began, and of all devices still on. The
witness may leave; it stays in `began`. `PassWalksEveryROM` and `PassReportsOnce`
speak of a bus that keeps still. Their invariant `PassInv` says what the cursor
stands for: between two calls (`Reported`) the devices found are those whose code
is not behind the last one found, in the order that compares the first different
bit, and `lastDiscrepancy` is the last bit where that code has a 0 and a device that
agrees with it so far has a 1. In a call (`Walking`), up to that bit nothing has
changed, and behind it the least codes are followed, so that the code it arrives at
is the next one. A pass is over when no such bit is left, and then nothing is behind.

**`EEPROM_proofs`**: `TypeCorrect`, `CleanShadow`, `Undisturbed`, under
`OneSector`: every size the sketch asks for is at most a sector, and there is a
second one. Without it the theorems are false, as `partition_sector` shows. The
invariant adds `Confined` (the size never exceeds a sector) and `WritesDirty`
(the write half of a commit runs with a dirty shadow).

**`Tasks_proofs`** (the ring's size a power of two, frames of any width, any pins and
tones): `RingCorrect`, `EndCorrect`, `ToneCorrect`. `RingHoldsUnread` says nothing
between the two stores of `begin()`; the invariant adds that `tail` is 0 there,
because the receiver never moves it, and the second store then makes the property
true whatever was pushed meanwhile. `EndIsEffective` needs that a receiver which
has pushed after `end()` waits where it looks at the flag. `ToneIsExclusive` needs
no invariant, only who has the CPU. `TonesWindDown` and `ReceiverSettles` (below) need
that a period is played on the pin that the sound still has (`ToneInv`), that a frame
is sampled no later than its clock says, and that whatever half bit the line is in,
what is read of it is a bit (`FrameInv`).

**`IRremote_proofs`** (the ring longer than a data frame, its indices twice as many
as its slots): `RingCorrect`, that is `RingIsContiguous`. `decode()` stores a tail
computed from an old snapshot while the interrupt may have moved on, so nothing
holds of the tail itself. The invariant says what makes every tail sound: either
only the slots below the head have been written since `enableIRIn()`, and then no
tail lies above the head, neither `s_tail` nor one that a `decode()` under way will
store; or the whole ring has, and a piece of it that begins anywhere is contiguous.
The newest entry is tied to the position on the line (`Newest`), and a receiver
that still waits for its first edge has written nothing.

A second invariant on top of it, `DecodeInv`, gives `FramesDecoded`,
`FramesDecodedOnce` and `FramesNotSkipped`. No frame that begins between tail and
head has been returned (`Undecoded`), and this must hold of a tail that is yet to be
stored. A `decode()` under way either still has the entries of its snapshot
(`Here`), or the interrupt has dropped one: then the ring is full, everything that
was returned is gone from it, and any tail is good. `BitsRead` says that the bits
collected are the first bits of the frame, and `Outcome` carries what will be
returned to the store.

**`Peripherals_proofs`** begins with the lemmas that every call of `Pins`, `SPI` and
`Wire` keeps that part's invariant: `SpiInv` adds that whatever else is low was left
by `begin()`, `RxInv` the arithmetic of the receive buffer. It adds the
invariants of the parts that are called back: what holds *inside* a call, at each
of its steps, so that it survives an interrupt there (`TimerInv`, `InterruptInv`,
`BleInv`), and for the WiFi station a statement about the queue of events: what
the SSID will be once they are all handled is the access point of the manager
(`WiFiInv`). `Inductive` puts them together for the composition, where a step of
one part leaves the others' variables alone; eleven theorems then give each
property of the run `peripherals` for all pins, channels, sizes, access points and
numbers of events.

**`Text_proofs`**, first part: `AnswersCorrect`, for every target, terminator, length
and timeout. The index of `find()` is the length of the longest beginning of the
target that what was read ends with (`Longest`); restarting on one byte keeps that
exactly when the target is `Restartable`. `readBytes()` keeps what it has read.

Second part: `StringHoldsText` and `StringAnswers`, for every set of characters, heap
and length. The invariant is `Holds`: as many bytes as the text has characters are
the text, and the terminator follows inside the buffer. That the terminator is the
*first* one is what `indexOf()` and `endsWith()` need, and holds because a text has
none. Three definitions of `WString` recurse over data: the doubling of the
capacity, the loop of `replace()` (against `Substituted`, which recurses over the
occurrences) and the search downwards of `lastIndexOf()`. The induction theorems of
the library take an operator, which no prover here can instantiate; instead,
`EveryNumber` states induction for *sets* of naturals (a set that holds 0 and with
each number the next holds all, by the pigeonhole theorem on finite sets),
`LeastExists` follows, and `DescentDefines` shows once that a function which calls
itself on a lower rank exists and satisfies its equation. After that, what a loop
computes is a set of numbers for which it is right.

Third part: numbers. `StringPrints` proves `StringsPrintLikePrint` for every number,
base and number of decimals, on top of the first two parts' invariants. A number is
written digit by digit by a function that calls itself on the quotient;
`DescentDefines` says that it exists and what it satisfies (`TensAre`,
`PrintNumberIs`), and `FixedIs` what rounding and its carry make of a fraction.
`NumberReadBack` is `ReadsBackWhatWasPrinted`: what `print()` wrote, `parseInt()` and
`parseFloat()` read back. `Spells` says how a printout is laid out and `Stands` which
number it stands for; the invariant `NumberInv`
splits the printed text between what the call has consumed (`Follows`) and what is
ready or still arriving (`Ahead`), and `Knows` says that value, sign and fraction of
the call stand for exactly the consumed part. A call that timed out before the last
byte came is exempt, in the property as in the proof.

Fourth part: `CallsRunOut`, on the third part's `StreamBytes` and on a wait that never
exceeds the timeout (`Waiting`).

**Only model-checked.** The four liveness properties (`IrqQuiesces`,
`PollingCatchesUp`, `SketchKeepsRunning`, `EveryCallReturns`): liveness under fairness
is beyond these provers. Of three of them the part that is not about fairness is proved
for every value of the constants, as an action property: something decreases and nothing
but new input increases it, so that steps which do happen cannot happen for ever.
`InterruptsWindDown`, for `IrqQuiesces`: a byte waiting in the FIFO counts one, a latched
time-out one, a timer that will latch one two; every interrupt for a port lowers the sum,
although the sketch does not read and the ring stays full, and a byte that arrives raises
it by three at most. `TonesWindDown` and `ReceiverSettles`, for `SketchKeepsRunning`: the
periods left of a counted tone, which no call of the sketch turns into one that plays for
ever, and the samples left of a frame on a line that is quiet. `CallsRunOut`, for
`EveryCallReturns`: the bytes still to come, and with none taken the time still to wait.
For `PollingCatchesUp` it is `CallsUnderway`. That the steps do happen is TLC's part.
Every safety property of the passing runs, invariants and
action properties alike, is a theorem above. The four runs that expect a violation are
counterexamples and need no proof.

## 8. What is not modelled

* **Servo**: the slots are zero-initialised and only a negative entry counts as
  free (Servo.cpp:68), so `attach()` always fails and nothing else of the library
  ever runs. There is no behaviour to model; the line is a listed hazard.
* Pure I/O and timing: OneWire bit slots, NeoPixel bits, `pulseIn`, watchdog, RTC,
  the levels of digital and analog pins, the busy-waiting of the IR sender, and
  the transmit sides of HardwareSerial and SoftwareSerial, which poll and keep no
  state. An erase of the flash is not cut by power loss in the middle; a write
  may be, anywhere.
* WMath, IPAddress, the CRCs: expressions without state.
* Of String: comparisons and `toInt()`/`toFloat()`, which the C library makes; of
  Print: `printf()`. Of WiFi: `mode()`, whose value nothing reads, and the
  addresses, which are asked of the SDK each time.
* Creation of the loop task and `setup()`; the SDK, the build and packaging
  scripts, the examples.

## 9. Findings

1. `prefs_readonly`: `begin(name, true)` of a namespace other than the stored one
   resets the table and marks it dirty (Preferences.cpp:230-231), so `end()`
   erases what was stored, although "readOnly = true forbids writes"
   (Preferences.h:10).
2. `partition_sector`: `EEPROM.begin()` accepts sizes up to the whole partition,
   and `commit()` then erases the sector Preferences uses (EEPROM.cpp:99),
   although "sector 0 is owned by the EEPROM library, sector 1 is used here"
   (Preferences.cpp:26-27).
3. `ir_wrap`: `decode()` does not mask the indices of a frame's bits
   (IRremote.cpp:191-192), so a frame that lies across the end of the ring is
   read behind the array: the second frame after `enableIRIn()` already does.
   "Returns true and fills *results when a complete frame has been buffered and
   consumed" (IRremote.h:65-66) does not hold for it.
4. `softserial`: `_rxLoop()` waits half a bit after the falling edge and takes its
   first sample there, in the start bit (SoftwareSerial.cpp:88): the byte pushed
   is the byte sent, shifted by one. Its comment says that it "then samples the 8
   data bits at mid-bit" (lines 5-6).

Not runs, but visible in the models, and named in the properties' comments:

* `uart_rx_notify()` stops at the first byte that meets a full ring
  (HardwareSerial.cpp:35-36), though its comment speaks of "the whole RX FIFO"
  (line 26). The bytes left wait for the next interrupt, which is what keeps the
  interrupt from storming.
* `EEPROM.begin()` with another size while a shadow is loaded changes `_size` only
  (EEPROM.cpp:55): a larger size reads and writes behind the allocation, and a
  smaller one erases, at the next `commit()`, bytes it does not write back. Call
  `end()` first.
* The first IR frame after `enableIRIn()` is usually lost, because its header mark
  is measured from `enableIRIn()` and not from its first edge.
* Bytes that follow each other within 200 ms keep SoftwareSerial's receiver polling,
  and its `taskYIELD()` (SoftwareSerial.cpp:84) does not let the sketch run.
* A tone without a duration, or one whose stores the player reads half-done
  (wiring_tone.c:57-58, 69-70), never ends, and the sketch that would call
  `noTone()` never runs.
* A BLE stack that is ready only after `end()` starts advertising
  (ble_native.c:133); so does a disconnection between the two steps of `end()`.
* `SPI.end()` inside a transaction leaves `_inTransaction` set and the slave
  deselected; `begin()` with another chip select leaves the first one selected.
* `analogWrite()` above 255 keeps the low byte of the value, which
  `analogWriteFrequency()` applies afterwards.
* `find()` passes over a target whose prefix overlaps the mismatch (`aab` in
  `aaab`), and `findUntil()` over bytes of a terminator that failed to match.
* `String::reserve()` of more room empties the String; a String appended to itself
  is read from the buffer that `realloc()` gave back; `replace()` on a full heap
  drops pieces; `String(unsigned long)` above the largest long is negative;
  `print(2.9, 0)` prints 2, and `print(-1, HEX)` sixteen digits.
