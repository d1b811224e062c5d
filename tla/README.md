# A verification of rp-pio-usb-host

`rp-pio-usb-host` is a USB 1.1 host for the RP2040 and RP235x: PIO state
machines put packets on two GPIO pins and take them off again, a synchronous
`bus::Bus` runs transactions, and an Embassy adapter (`embassy.rs`) shares that
bus between a controller, an idle task and any number of endpoint pipes. These
modules state what the driver promises and check that it keeps it.

File names without a path are those of `src/rp-pio-usb-host/src/`.

## The system

| component | state | operations | what is hard |
|---|---|---|---|
| Root port (`bus.rs`) | `speed`, `attached`, `debounce` | `detect_speed`, `poll_device_event` | contacts bounce, devices are swapped, the accumulator mixes their samples |
| Controller (`embassy.rs`) | the mutex, a future inside `wait_for_device_event` or `bus_reset` | poll, reset, recover, report | sleeps with the bus locked and the port in between two states |
| Keep-alive (`bus.rs`, `embassy.rs`, `frame_counter.rs`) | `last_sof`, `last_activity`, the frame counter | `tick`, `keepalive`, `sof`, `ls_keepalive` | skipped ticks, two callers, no lock on the counter, a 3 ms deadline |
| OUT pipe (`embassy.rs`, `bus.rs`) | `toggle_data1`, the rest of the buffer | `request_out`, `request_out_packet`, `Bus::request_out`, `out_once` | lost packets and ACKs, retries, dropped futures, message boundaries |
| IN pipe (`embassy.rs`, `bus.rs`) | `toggle_data1` | `request_in`, `Bus::request_in`, `in_once`, `in_reply`, `receive_data_and_ack` | repeated packets, the ACK sent before the packet is judged |
| Control pipe (`embassy.rs`, `bus.rs`) | only locals: every attempt starts over | `control_in`, `control_out`, `control_setup` | three stages, four budgets, a retry of the whole transfer |
| RX driver (`rx_driver.rs`, `rx_pio.rs`) | two state machines, an 8-word FIFO, IRQ flags | `prepare_for_receive`, `start_receive`, `receive` | free-running hardware raced by a polling loop |
| TX driver (`tx_driver.rs`, `tx_pio.rs`) | one state machine and its FIFO, the pins | `transmit`, `prepare_ack_and_release_bus`, `start_tx`, `wait`, `drive_reset_se0`, `release_reset` | who drives the pins after each call, what stays in the FIFO |
| Encoding (`encoding.rs`, `crc.rs`, `pid.rs`) | none | `build_*`, `encode_tx_data`, `calc_crc5`, `calc_crc16` | bit stuffing, packing, tables |
| Clock divider, allocator, chip and RAM helpers | none | `pio_clkdiv_for`, `alloc_pipe`, register access | rounding |

How they interact. The controller, the idle task and the pipes are futures on
Embassy executors. All of them reach `bus::Bus` through one async mutex; the
idle task only tries it and skips its turn when it is taken. `bus::Bus` is
synchronous: a transaction, even a whole control transfer, runs from lock to
unlock without an await. Only a reset sleeps with the mutex held. `Bus` calls
the TX driver, which leaves the pins released, driven to SE0 or driven to J and
may keep a loaded ACK, and the RX driver. The frame counter is shared outside
the mutex.

### What makes each component correct

- Root port: an event costs as many samples as the constants say, a glitch
  reverses nothing, and a change of the socket is noticed in bounded time.
- Controller: nothing but the reset is on the bus during a reset, no event is
  lost, the port is never announced because of what the host itself drives.
- Keep-alive: an attached device never sees an idle bus long enough to suspend.
- Pipes: a packet is taken at most once, in order; a success that reached the
  caller is a success of the other end, and the exceptions can be counted.
- Control pipe: `Ok` means the whole request was done; every transfer ends.
- RX: a packet is delivered as it was on the wire or rejected, and every
  receive ends.
- TX: a packet is played without a gap and leaves the pins released.
- Encoding: decoding what was encoded gives the data back.

## Modules

| module | models | refers to |
|---|---|---|
| `RootPort` | one sample of `poll_device_event` per step, any level of the lines between samples | |
| `ReliableChannel` | abstract: packets taken at most once and in order, and what may spoil that | |
| `PipeOut` | an OUT pipe, a lossy wire and a device's endpoint | implements `ReliableChannel` |
| `PipeIn` | an IN pipe, a lossy wire and a device's endpoint | implements `ReliableChannel` |
| `ControlPipe` | a control pipe and a device's endpoint 0 | |
| `SharedBus` | mutex, controller, idle task, pipes, dropped futures, what the transmitter drives | `RootPort`, with its lines bound to what is plugged in or driven |
| `FrameTiming` | time in ticks: keep-alives, resets, transactions, executors, the counter | |
| `UsbPackets` | PIDs, the packets that are constants, the residue of the CRC, the bits of a byte | |
| `Encoding` | every kind of packet from its fields to the words of the FIFO, as operators | `UsbPackets` |
| `HostPackets` | the host's transactions, the words pushed for their packets, and USB 2.0's own definition of those packets | `Encoding` |
| `Transmit` | transmission bit by bit: player, FIFO, `transmit`, `wait`, the turn of the bus | words and waveforms are constants, which `MCTransmit` takes from `HostPackets` |
| `RxCapture` | reception bit by bit: edge detector, decoder, FIFO, flags, `start_receive`, `receive` | packets and CRCs are constants, which `MCRxCapture` takes from `Encoding` |
| `MCRxCapture`, `MCTransmit` | payloads and endpoints for the runs of `RxCapture` and `Transmit` | |
| `RootPort_proofs`, `SharedBus_proofs`, `FrameTiming_proofs`, `PipeOut_proofs`, `PipeIn_proofs`, `ControlPipe_proofs`, `Transmit_proofs`, `RxCapture_proofs` | theorems about the module of that name | |

### RootPort

`poll_device_event` is the whole method: detect, count, then attach, detach or
neither. `Debounced`, `Attaches` and `Detaches` are its three conditions.
`Wiggle` gives the lines any level. `present`, `absent` and the two runs are
history that no step of the code reads. The source's 15 and 60 are the
constants `DebounceFrames` and `DebounceCap`.

### ReliableChannel, PipeOut and PipeIn

The channel has one packet in flight. The receiver takes it at most once; the
sender is told afterwards. `doubt` is the state in which the receiver takes the
next packet for a repetition: it arises when the sender withdraws a packet that
was already taken, or the receiver refuses a packet it acknowledges.

`PipeOut` runs `request_out` chunk by chunk. `phase` is the await point of the
future, `out_once` and `receive` are the two halves of a transaction, and the
device answers in between. `Lose` turns anything on the wire into silence, which
the code treats as it treats a damaged packet. `Cancel` drops the future where it
is suspended. A packet is its number, not its bytes. In `PipeIn` the host sends
the IN token and `in_reply` is the rest of `Bus::in_once`: the acknowledgement
is decided by `Handshake` (every intact DATA packet), the result by `Accept`,
`Overflow`, `TryAgain`, `Babble` or `Stalled`. Toggle errors after a STALL are settled by
the host stack, outside this repository: `ClearHalt`, then the code's own
`reset_data_toggle`.

The device is the one USB 2.0 describes (section 8.6): it takes a packet with
the expected toggle, acknowledges one with the other toggle without taking it,
and repeats an IN packet until it sees an ACK.

### ControlPipe

Each step is one transaction, with its loss folded in: `DeviceSent` and
`DeviceReceive` are what happened at the device, and the host's half is chosen
independently where a packet may be lost. `stalls`, `polls` and `crcs` are the
budgets of the loops (`stall_polls` and `total_polls` of a read, the retry
counts of `out_once`, `polls` and `crc_errors` of the status stage); a write's
packets and a read's status stage reuse `stalls`. `Execute` is the device
carrying a write out, at any moment after it has the data: it may be late, and
the transfer be sent again. `serves` is the attempt whose SETUP the device heard
last: what it has, it has of that one. It leaves to the host what the host alone can
see to: it drops a repeated packet and acknowledges it, takes the first IN of a status
stage for the end of the data (`DeviceTurns`), and answers a status stage for whatever
request it has carried out. A SETUP may end in a timeout whether or not it was heard,
or, of a device that answers so, in a `Stall` (`Refused`). `honours` says whether it respects wLength; `room` is the caller's
buffer, which may be shorter or longer than wLength. A read of wLength 0 goes from
SETUP to an OUT status stage, as the code's does; the device may or may not
expect that. `stall` also ends a stage with `Babble`, a packet longer than the
host's own buffer.

### SharedBus

A transaction is a single step here because it runs from lock to unlock without
an await. `pc` is the await point of the controller's future. `drive` is what
the transmitter leaves on the pins: every packet's `COMP` releases them, a reset
drives SE0 and its release drives J until a packet's `COMP` or, when nothing
follows, for ever. `staged` is the ACK that `receive_data_and_ack` loads and
starts only for valid DATA. `seen` counts samples that found a device really in
the socket; no code reads it. `Drop` is the caller dropping the controller's future at
any of its awaits: the mutex guard goes with it, the pins and `attached` stay.
`cut` and `lost` remember what such a drop leaves behind, a driven SE0 or J or a
Connected event nobody was told of, until the next packet or event mends it.

`stamp` is the age of the time stamp that the next keep-alive is paced by: `recent`,
less than a frame; `due`, a frame or more; or `old`, that of an earlier device, whose
age wraps and so may be anything. `keepalive` has three outcomes: it sends
(`keepalive_sent`), finds the stamp less than a frame old (`keepalive_not_due`) or no
device attached (`keepalive_detached`). `Elapse` lets the frame go by. So the first
keep-alive of a recovery may send nothing, and J stay driven into the sleep that
follows, where the future may be dropped. Two of the 15 frames are enough to release
the pins: the second call is a frame later.

### FrameTiming

`Advance` lets a tick of time pass, only when no ready task can run. A task is
late only because a transaction occupies its executor. The idle task may be on
the executor of the others, on one that preempts it, or on one it preempts, and
`FrameCounter::next` is split at its load and store, so two of them can
interleave where the placement allows. `age` is the age of the time stamp that
`keepalive` tests: `last_sof` at full speed, `last_activity`, which transactions
renew, at low speed. It counts modulo `Wrap`, the 2^32 us of `wrapping_sub`, and
starts with any value, as the stamp is that of an earlier device: the SE0 does not
stamp anything, so that the first keep-alive of the recovery may find any age too, also
one that has just wrapped and is not due.

### Encoding

`Encoding` computes what the driver computes: `build_token`, `build_sof` and
`build_data_packet` with both CRCs by table, `encode_tx_data` with its state of
ones and level and its bound on the words, the end of packet, the padding and the
packing of symbols into words, and the two constant packets. A symbol is `J`, `K`,
`SE0` or `COMP`, a word a short sequence of them.

### Transmit

One `Bit` is one bit time of the player: `slot` is the jump target it stands on,
`osr` what is left of the word it shifts out, `fifo` the words behind it. Without
a symbol it stands still, holding its level. `Cpu` is faster: `prepare`, `start`
and `feed` are the three parts of `transmit` (load what fits, start, feed the rest
with interrupts off, `Critical`), `wait` its two timed waits, each step between two
looks at the hardware or the clock. `start_receive`, `prepare_ack_and_release_bus`,
`receive`, `end_of_packet` and `ack` are the turn of the bus in a transaction; of
the reception itself only its start and end are kept, the rest is `RxCapture`.
`Interrupt` stops the CPU for some bit times wherever interrupts are on. The device
answers after `Gaps` bit times, or never, and drives the bus for the bits of its
answer (`Answers`) and `EndBits` more, two of `SE0` and one of `J`. The receiver sees
the end at the first of these (`EopSeen`), and the ACK starts at once.

The packets come in as constants: `Transactions`, the words `Encoded` and the
`Waveform` of each packet. The run takes them from `HostPackets`: the words are
what `Encoding` computes, the waveform is what section 7.1 and chapter 8 of USB 2.0
say a packet is, fields bit by bit, CRCs as shift registers, stuffing and NRZI over
the whole sequence. It shares nothing with the driver's tables and running state.
`EncodedExact` compares the two (`Faithful`) for every packet that is sent, when its
words are cut into those the FIFO takes and those to be fed (`pc = "start"`), so
packets longer than the FIFO with the rest; and for the ACK when it is started.
`playing` and `at` say which bit of the waveform should be on the wire now.

### RxCapture

The device is `DeviceSends`: it rests for `gap` bit times, then sends byte by byte,
NRZI and a bit stuffed after six ones, and ends with `SE0`, as section 7.1 of USB 2.0
has it. It shares nothing with the driver's own encoder, and the decoder is checked
against it. The packets (`Packets`), the driver's `crc16_update` (`Crc`) and its value
after each byte (`Sums`) are constants.

One step of the line, `Bit`, is one bit time. `Detect` is the edge detector with
its eight samples taken as one that finds the bit: it clocks the decoder for
every bit from the first `K` to the first `SE0`, an idle line included. The decoder's
registers are `dec_x`, `dec_y` and `isr`; `Decode` is one pass through its program.
The byte of an autopush that found the FIFO full is the one beyond `FifoDepth` in
`fifo`; a decoder that stands there (`Stalled`) misses every trigger but the last
(`trigger`), until a byte is taken (`Pulled`).

`prepare_for_receive` starts both state machines afresh before the host's packet.
`start_receive` follows it, at once or, after an interruption, when the device has
already begun (`late`): it clears the flags and lets the edge detector hunt for a
start, but leaves the decoder as it is. `pc` is the place of `receive` between two
of its reads of the hardware: the clock (`sop`, `clock`), the flag (`started`,
`flag`) and the FIFO (`pull`). `empty` and `end_of_packet` are two steps: the FIFO
is read before the flag. `looked` lets the loop go round once per bit; `delay` is
an interrupt that stops the CPU between any two steps. `waited` is the time since
`tw` or `td` in bit times.

## Runs

| run | what it asks |
|---|---|
| `port` | debounce: hysteresis, events earned, events prompt |
| `pipe_out` | at most once, in order, `Ok` means taken, messages keep their boundaries; implements the channel |
| `pipe_in` | the same for reading; an overflow costs at most two packets; packets drain; implements the channel |
| `bus` | reset undisturbed, no phantom device, no lost event, pins released but after the drops that `BusReleased` names, everybody served, also when calls of the controller are dropped |
| `bus_phantom` | counterexample: a reset of an empty port is announced as a device |
| `bus_recovery` | counterexample: a stale ACK in the recovery interval |
| `timing` | no suspend, recovery paced whatever age it starts with, SOF numbers change |
| `control` | data of both ends agree, `Ok` means done, of a write in the last attempt, every transfer ends |
| `rx` | only exact packets are acknowledged, a prompt CPU reads the right PID and receives every packet that fits, a reception ends |
| `rx_hang` | counterexample: a packet without its end keeps `receive` from returning |
| `rx_short` | counterexample: an interruption makes the host acknowledge a keyboard's report as a packet without data |
| `tx` | the words of every packet are the standard's waveform, the wire carries exactly that, the receiver never hears the host, a prompt host meets nothing of an answer but its end, the buffers fit, every transaction returns |

Bounds and why they are enough.

- `port`: 3 and 7 for 15 and 60 keep `DEBOUNCE_FRAMES` more than twice in
  `DEBOUNCE_CAP`, so the accumulator meets 0, the threshold, the region between
  and the cap. The proofs cover every other value.
- `pipe_out`: buffers of no byte, less than a packet and two full packets, six
  packets, two cancellations, one halt: two cancellations in a row and one
  around a halt are the cases in which toggles go apart and meet again.
- `pipe_in`: four packets, one refused, one halt; packets smaller than, equal
  to and larger than the caller's buffer. Losses and retries are unbounded.
- `bus`: two pipes compete for the mutex; 3 and 5 for the debounce, two frames
  of recovery, the first of which may send nothing, one dropped call (none in the two
  counterexamples, which need none). Plugging, polling and retrying are unbounded; the proofs cover any
  number of drops, pipes and samples.
- `timing`: a frame of two ticks, a reset longer than a frame that is no
  multiple of it, so that ticks fall into and beside it; three frames of recovery, the
  first not due, one that catches up and one in step; `MaxBusy` lets a transaction last a
  whole frame. `MaxAge` bounds how long ticks may find the lock taken by transactions: none
  begins later than two frames after the last SOF. `Wrap` is just more than the ages
  this leaves, so that every age below it is one the first recovery frame may meet, on
  either side of due. The counter wraps at 16.
- `control`: reads and writes of nothing, of whole packets and of parts, into
  buffers shorter, equal and longer; host packet sizes below, at and above the
  device's; budgets of 2, 5, 3 and 2; two attempts, so that an old attempt and a
  new one meet.
- `rx`: low speed, whose timeouts of 8 and 7 us are 12 and 10.5 bit times and
  the tighter ones; 10 is what a whole-microsecond clock may leave of them. The
  payloads have a byte of ten bit times, a packet that ends in a stuffed bit, an
  empty one, one too long for the buffer and one whose first byte is the PID of a
  STALL; the device may also be silent. A FIFO of two words for eight and one
  interrupt of up to 30 bit times, at any point, also before the receiver is
  started: it overflows, and with it the byte held and the bits after it are
  lost. Two receptions, so that the second starts from any state the first may
  leave. That no packet passes that lost bits, or of which the start was missed, is
  a fact of a 16-bit CRC and these payloads, not of the code; and no shorter part of
  these packets has the right CRC, as one of `rx_short` has. `rx_short` has the chip's
  FIFO of eight words, one packet, and an interruption as long as eight bytes.
- `tx`: the source's own FIFO of 8 words, and its 50 us as 75 bit times of low
  speed, the speed at which they are shortest. Payloads of no byte, of the eight of
  a SETUP with bits stuffed across bytes, of 64 bytes of ones, many times the FIFO and
  the most that can be stuffed, and of 65; a
  token of one value and an SOF with stuffed bits. A device answers after 2 or 7
  bit times; an interruption of 6 outlasts the shorter gap, one of 150 a full
  FIFO and the wait. Two transactions, one interruption: what the first leaves in
  the player, its FIFO and its flags is what the second finds.

`CHECK_DEADLOCK FALSE` is said of the two pipes only: their runs end when the
packets are used up. The other models never stop.

Fairness. The executor polls a task whose timer or waker fired, so steps the
code can take are weakly fair; the idle task's `tick` is one of them. In `bus`, a
transaction is strongly fair: the async mutex wakes a waiter on unlock, and a
waiter can be overtaken by a task that runs first, but not for ever, since every
competitor sleeps at least a frame after its turn. `Elapse` is time, which goes on.
It matters to `EventuallyReleased`: after a drop the pins wait for the first tick that
finds the stamp due. The caller returns to
`wait_for_device_event` (as the host stack's loop does), in spite of any number of
calls of `bus_reset`. In `pipe_in`, `DeviceSend`, `DeviceAcked` and the reception
of a DATA packet are strongly fair: a link that loses everything drains nothing.
In `rx` and `tx` time goes on and an interrupt ends. In `control` the only
assumption is that the transfer's loop runs on.

## What disagrees with the documentation

1. `bus_reset` on a port without a device leaves the host driving J;
   `poll_device_event` counts it as a device and announces it
   (`bus_phantom`; comment at `bus.rs:32`).
2. An ACK staged for an IN that was answered by a NAK or not at all is played
   when a reset is released, in the recovery interval for which the comment at
   `bus.rs:25` promises SOFs only (`bus_recovery`).
3. Once a packet has started, the decoder makes a byte of every nine or ten bit
   times, of an idle line too. A packet cut off before its `SE0`, or a glitch of
   a single `K`, keeps `receive` from returning: the drain timeout that the
   comment at `rx_driver.rs:25` expects to end malformed packets starts over with
   every such byte (`rx_hang`). It takes an `SE0`, say the device being
   unplugged, to end it.
4. `receive` looks at the FIFO first and at the end-of-packet flag second
   (`rx_driver.rs:230`), and leaves what came between the two in the FIFO. The packet is
   then a byte or more short, which its CRC tells unless it is right there: the CRC
   of no data is 00 00, with which every keyboard's report begins. An interruption of
   the length of the rest (43 us at low speed) in that place makes the host
   acknowledge the report and return no bytes (`rx_short`; comment at
   `rx_driver.rs:195`). The proof of `AckedExact` led to it: `AcksAreExact` needs
   `NoFalseEnd`.

Known, and stated by no run: an interruption between the end of a transmission and
`start_receive` (`bus.rs:411`) lets the capture begin inside the reply (`late`), and
neither SYNC nor the check bits of the PID are looked at, so that a payload byte
can be taken for a STALL and `in_once` returns `Err(Stall)` of an endpoint that did
not stall (comment at `bus.rs:464`): `PidExact` says of such a capture only that it is
never of a handshake, and the payload that begins with the PID of a STALL makes `rx`
meet it.

Nor does the host wait for a device to leave the bus: the receiver reports the end of
an answer at its first `SE0`, and what comes next, the ACK (`bus.rs:456-458`) or another
transaction, is started over the second and the J the device drives after it. In the model,
whose CPU takes no time, the host's idle J meets that `SE0` and its first K the device's
J; a real CPU spends some of it on the way. No comment speaks of it (that at
`bus.rs:444` asks for a quick ACK), so it is no run: `NoCollision` says that nothing
more than this is met, and that no bit of the answer and not its first `SE0` is.

Also read: a device is detached after as many empty samples as its count has, at
least `DEBOUNCE_FRAMES`, not always `DEBOUNCE_CAP` nor "longer than the time spent
plugged in" (`bus.rs:38-39`; see `Prompt`); while a reset
recovers the frame counter advances twice in a frame, by the recovery loop and by
the idle task's tick (`frame_counter.rs:5`); up to four idle symbols pad a packet,
not three (`encoding.rs:43`); a full packet takes longer than the 25 us of the
comment at `tx_driver.rs:19`, which does no harm since the wait only begins with the
last word fed (`OwnPacketOver`).

## Proofs

Each proof module extends the module it is about and proves an inductive invariant
`IInv` by one lemma per group of actions (`...IInv`); `Inductive` collects them, and
each theorem about a property follows from it. TLC has checked every `IInv` on the
run's instance. The theorems hold for every value of the constants the module's
assumption admits.

- `RootPort_proofs` (`0 < DebounceFrames <= DebounceCap`): types, `Hysteresis`,
  `Earned`, `Prompt`. An event is earned because the accumulator holds no more
  than was paid into it: `DetachedCount` says that of a detached port (the count
  is at most the samples with a device since the detach, and at least the current
  run of them), `AttachedCount` of an attached one (what the count has lost, the
  absent samples have seen).
- `SharedBus_proofs`: `NoTransactionInReset` and `NoEventLost`, and, for callers
  that reset only attached ports (`~ResetsDetached`, without which they are false,
  see `bus_phantom`), `BusReleased` and `AttachReal`. `BusReleased` admits what two
awaits of a reset leave to a caller who drops it there, the SE0 and the sleep after a first
keep-alive that was not due, and no more: after the second the pins are free, since the
sleep before it made the stamp due. `Locking` says the resetting
  call has the mutex and nobody else keeps it; `Finding` that the call that found a
  device has set `attached`; `Driving` what each await of the reset has done to the
  pins; `Counting` that an empty port counts no more than it has seen.
- `FrameTiming_proofs`: `NoSuspend` and `RecoveryPaced`, for every length of a reset
  and every age it starts with. `Waiting` shows that time passes only while a timer of
  whoever has the bus runs; `Pacing` adds up that timer and the quiet time: with the lock
  free `quiet + idle_timer <= 2 * Frame`. In the recovery the first call finds any age:
  if it is due, the age starts over, and if not, it is below a frame; either way, after
  it `quiet + timer <= Frame` and `Frame <= age + timer < 2 * Frame`, so that the second
  is due, and from the second on `age + timer = Frame`. `Unwrapped` says that an age
  which is not an earlier device's is too small to wrap. `SofAdvances` is the
  theorem `SofNumbersAdvance`, whose hypothesis `Enough` says that the longest time
  without a SOF, of skipped ticks and a reset, is shorter than a turn of the counter,
  2048 frames in the code: without it the property is false. `Running` in `SInv` bounds how far the counter is
  ahead of the last SOF, `Loading` which of two interleaved updates may be lost.
- `PipeOut_proofs`: `TypeOK`, `InOrder`, `ExactlyOnce`, `CancelCost`, and that the
  pipe implements `ReliableChannel`. `Wired` says an ACK means that the device's toggle has moved on,
  `Taken` that the packet at work, if taken, moved it; `Exact` is the stronger
  invariant of runs without cancellation and halt. `CInv` keeps accounts: toggles
  that differ over a packet not taken are a `Debt` of one, which only a
  cancellation makes and a packet lost in spite of its Ok pays off. `TInv` adds to
  the types that the packets left fit the bound. `Framing` is the theorem
  `MessagesKeepBoundaries`: in `FInv` the packets not taken are those of some number of
  bytes that completes the message at the device to the one promised.
- `PipeIn_proofs`: `TypeOK`, `InOrder`, `RefusalCost`, and that the pipe implements
  `ReliableChannel`. Here
  the toggles answer the opposite question: `Fresh` shows that a packet whose toggle
  the pipe expects is not one it has, and `Wired` that an ACK on the wire is for a packet
  taken, refused or thought old. `Halting` keeps a halted endpoint without a packet. The
  `Debt` here is two while a refused packet waits for its acknowledgement, one when
  the toggles differ over a packet not read, and void once the endpoint halts.
- `ControlPipe_proofs`: `TypeOK`, `ReadInStep`, `WriteInStep`, `ReadComplete`, `WriteComplete`.
  `Reading` adds to the first that no end is ahead of what the device offers, and
  what a read has in its status stage (`Whole`); `Writing` that from the host's data stage
  on the device serves the last attempt (`serves = attempts`), and that before the host's
  status stage it has all of the data, so that the IN which makes it turn finds nothing
  missing. For the types, `Served` keeps `serves` within the attempts made. `TransferBounded` is the part of `Terminates` that needs no
  fairness: `Longest` is what an attempt has at its SETUP, the budget of each stage, a
  budget for each chunk of a write, and two more; `Fuel` is what is left of it, and
  every transaction spends of it, whatever it was answered. `Charged` keeps the polls
  of a stage within the stage's own budget.
- `Transmit_proofs`: `WireExact`, `OwnPacketOver` and `NoCollision`, for every packet
  and waveform, FIFO, timeout, gap, length of an answer, number and length of
  interruptions. `TxAssumption` is what the callers and USB 2.0 give: only the last
  packet of a transaction is answered, and not before two bit times;
  `WaitAssumption` is the arithmetic of the two waits (145 bit times needed of 152).
  The hypothesis of the theorems, `Encoder`, is what the builders owe the player:
  words that are `Faithful` to the waveform, which TLC checks as `EncodedExact` for
  the run's packets, and an ACK that fits the FIFO. In the invariant `Left` says
  where every word of the packet is (taken, in the FIFO, still to be fed) and
  `Position` that the symbols taken and the place in the player's program go with
  the bit on the wire; a FIFO that runs dry under the player would break both, and
  `Loaded` shows it cannot: interrupts are off while words are missing, and time goes
  on only when the FIFO is full. `Timed` weighs what is left of a packet against what
  is left of the waits. `Looked` and `Prompt` say that an uninterrupted CPU has
  left the bus and listens before the gap of a device is over, and starts nothing
  before the first `SE0` of the answer is past (`Clear`).
- `RxCapture_proofs`: `PidExact`, `Received` and `AckedExact`, for every packet that has a SYNC and
  a PID, and that is one of the three handshakes if it has nothing else
  (`PacketsAssumption`), every gap, buffer, depth of the FIFO and length of the
  interruption, and for timeouts that a prompt device and the longest byte keep
  (`RxAssumption`). `CrcAssumption` names what the CRC of a DATA packet is to
  `crc16_update`; TLC evaluates it on the run's packets. `Sending` says what of the
  packet is still to come. Of a capture begun in time, `Exact` says that nothing was
  lost: the decoder has shifted in what the device shifted out (`Lockstep`), and each
  byte is in the FIFO or was taken (`Queue`). Once the FIFO is full that is no longer
  so, but the two bytes up to the PID are then already there (`FirstTwo`). Of a handshake
  whose start was missed too few bits are left for two bytes (`Missed`, and
  `Unstuffed`: no handshake has six ones in a row). For `Received`, `InTime` says
  that an uninterrupted CPU keeps the FIFO nearly empty and that neither timeout
  expires: `Slack` is how long a byte may have taken given the bits decoded and the
  ones among them, ten bit times at most, and `Flags` says what the detector has
  told by then; `Summed`, that `crc` is the sum of what was taken.
  `AckedExact` is proved of receivers started in time and interruptions that the
  FIFO holds (`HeldByFifo`: 64 bit times in the chip). `Chased` weighs what waits in
  FIFO and register, `Backlog`, against how long the interruption has been, `Behind`:
  before it an empty FIFO, or a byte that is taken next, so that it never fills and
  `Exact` goes on. Hence what is acknowledged is the packet up to a byte where the CRC
  is right (`AcksWhatWasSent`), which is its end if no shorter part of it has the
  residue (`AcksAreExact`, whose hypothesis `NoFalseEnd` the code does not provide,
  see `rx_short`). For the silent device, `Quiet`: no start is seen.
  `ReceptionBounded` is the part of `Ends` that needs no fairness, for receptions begun
  at any time and interruptions of any length: each bit time spends of `Fuel`, which
  is what the interruption, the wait for a start and the packet with its stuffed bits
  may still take, and the steps of `receive` between two bit times spend of `Rank`. Its
  invariant `EInv` says that a detector that runs has an end of packet to come, so
  that the loop goes round only while there is one: with `Malformed` it need not come,
  and the run `rx_hang` shows what follows.

Model-checked only: liveness (`Drains`, `EventuallyReleased`, `EventuallyReported`,
`PipeProgress`, `Terminates`, `Ends`, `Returns`), which is out of the prover's reach
under fairness (what of `Terminates` and `Ends` needs none is proved, see
`TransferBounded` and `ReceptionBounded`); `EncodedExact` and `FitsExactly`, which compute with bits (`Bitwise`),
of which the prover knows nothing; and what `AckedExact` says beyond the theorems: that
a packet which lost bits in a full FIFO, or was met in its middle, has a wrong CRC
is a fact of 16-bit sums and of the run's packets, not of the code.

## Not modelled

- The clock divider, and `set_speed`: which pin is which, and the clock of the
  state machines. Of it `SharedBus` keeps that the player runs for a moment.
- The oversampling of a bit by the edge detector.
- `alloc_pipe`, whose checks keep `mps` in 1..64 and `interval_us` at least a
  frame and which keeps no state; the pipes start from what it returns. Of
  `set_timeout` only the deadline, which the models leave open.
- Payload bytes outside `RxCapture` and `Transmit`: packets are numbers, transfers
  are lengths.
- A device that is not one of USB 2.0, but for the ones named (babble, no respect
  for wLength, silence, glitches).
- `chip.rs`, `pio_instance.rs` and `lib.rs` (register access and glue) and the
  examples, which call the driver as `SharedBus` lets a caller do.

## Plan

1. (done) `RootPort`, `ReliableChannel`, `PipeOut`, `PipeIn`, `SharedBus`,
   `FrameTiming`, `ControlPipe`, `RxCapture`.
2. (done) The rest of `Encoding`; `Transmit` against the standard's waveform;
   dropped futures of the controller; late starts of the receiver; babble, short
   buffers and empty reads.
3. (done) Proofs about `SharedBus`, `FrameTiming`, both pipes and their refinement,
   and `ControlPipe`.
4. (done) `Framing`, `SofAdvances`, the safety of `Transmit` and the reception by
   `RxCapture` (`PidExact`, `Received`) as theorems.
5. (done) `AckedExact` for interruptions the FIFO holds, the counterexample its proof
   led to (`rx_short`), and the bounds on a control transfer and on a reception.
6. Left: no safety property that the prover can reach and a run checks is without
   its theorem. New ones would come with what "Not modelled" lists.
