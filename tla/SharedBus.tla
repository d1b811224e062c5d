----------------------------- MODULE SharedBus -----------------------------
(***************************************************************************)
(* The bus shared by the tasks of embassy.rs: the controller's             *)
(* wait_for_device_event and bus_reset, the idle task's tick and the       *)
(* pipes' transactions, all behind one mutex, and the level the root port  *)
(* is left driving by the transmitter.  Only a reset keeps the mutex       *)
(* across an await, so a transaction or a tick is one step here; its       *)
(* packets are the subject of PipeIn, PipeOut and ControlPipe, the pace of *)
(* the ticks that of FrameTiming.  Of time only this much is kept: whether *)
(* a frame has gone by since the stamp that makes the next keep-alive due. *)
(***************************************************************************)
EXTENDS Naturals

CONSTANTS
    Pipes,              \* the allocated pipes
    DebounceFrames, DebounceCap,
    RecoveryFrames,     \* RESET_RECOVERY_FRAMES, 15 in the source
    ResetsDetached,     \* the caller also resets an empty port
    MaxDrops            \* bound on futures of the controller that are dropped

ASSUME BusAssumption ==
    /\ DebounceFrames \in Nat \ {0} /\ DebounceCap \in Nat /\ DebounceFrames <= DebounceCap
    /\ RecoveryFrames \in Nat /\ RecoveryFrames >= 2
    /\ ResetsDetached \in BOOLEAN /\ MaxDrops \in Nat

VARIABLES
    plugged,            \* what is in the socket
    drive,              \* what SM0 leaves on the pins between two steps
    staged,             \* an ACK is loaded in SM0's FIFO and not started
    speed, attached, debounce,     \* of bus::Bus
    stamp               \* its last_sof at full speed, last_activity at low speed:
                        \* "recent", at least a frame ago ("due"), or of an
                        \* earlier device and "old", whose age, which wraps
                        \* every 2^32 us, may be any

VARIABLES
    lock,               \* who holds Bus::bus between two steps
    pc, call, left,     \* the controller's future and its recovery frames
    pipe                \* the pipes' futures

(* What the caller was told last, and, for the properties, whether a reset *)
(* is under way, what the last step put on the wire, how many samples found*)
(* a device in the socket since the last detach, how many futures may still*)
(* be dropped, whether one was dropped in a reset that still drove the     *)
(* pins, and whether one took the news of an attach with it.               *)
VARIABLES told, resetting, traffic, seen, drops, cut, lost

port  == <<drive, staged, speed, attached, debounce, stamp>>
tasks == <<lock, pc, call, left, pipe>>
dropped == <<drops, cut, lost>>
vars  == <<plugged, port, tasks, told, resetting, traffic, seen, dropped>>

Driven(s) == (drive = "released" /\ plugged = s) \/ (drive = "J" /\ speed = s)

(* The debounce of RootPort, on the lines as the port sees them: a level   *)
(* the host drives itself is sampled like a device's.                      *)
Port == INSTANCE RootPort WITH
    dp <- Driven("Full"), dm <- Driven("Low"), event <- told,
    present <- 0, absent <- 0, presentRun <- 0, absentRun <- 0

AtMost(n, cap) == IF n < cap THEN n ELSE cap

-----------------------------------------------------------------------------

(* The next packet ends a reset that was cut short, the next event makes   *)
(* the caller's knowledge of the port whole.                               *)
Forgiven ==
    /\ cut' = (cut /\ drive' # "released")
    /\ lost' = (lost /\ told' = told)
    /\ UNCHANGED drops

Init ==
    /\ plugged \in {"None", "Full", "Low"}
    /\ drive = "released" /\ staged = FALSE
    /\ speed = "Full" /\ attached = FALSE /\ debounce = 0 /\ stamp = "old"
    /\ lock = "free" /\ pc = "idle" /\ call = "event" /\ left = 0
    /\ pipe = [p \in Pipes |-> "idle"]
    /\ told = "None" /\ resetting = FALSE /\ traffic = "none" /\ seen = 0
    /\ drops = MaxDrops /\ cut = FALSE /\ lost = FALSE

Plug ==
    /\ plugged' \in {"None", "Full", "Low"}
    /\ traffic' = "none"
    /\ UNCHANGED <<port, tasks, told, resetting, seen>>
    /\ Forgiven

(* Every packet the player sends ends in COMP, which releases the bus.     *)
AfterPacketDriven == "J"

AfterPacket == "released"

(* At full speed the time of the last SOF is tested, at low speed that of  *)
(* the last activity; the sleeps between two tests last a frame, so a stamp*)
(* found less than a frame old is due at the next.                         *)
keepalive_sent ==
    /\ attached /\ stamp \in {"due", "old"}
    /\ drive' = AfterPacket /\ staged' = FALSE
    /\ traffic' = "keepalive" /\ stamp' = "recent"

keepalive_not_due ==
    /\ attached /\ stamp \in {"recent", "old"}
    /\ traffic' = "none" /\ stamp' = "recent"
    /\ UNCHANGED <<drive, staged>>

keepalive_detached ==
    /\ ~attached
    /\ traffic' = "none"
    /\ UNCHANGED <<drive, staged, stamp>>

keepalive == keepalive_sent \/ keepalive_not_due \/ keepalive_detached

(* A frame has gone by since the stamp. *)
Elapse ==
    /\ stamp = "recent"
    /\ stamp' = "due" /\ traffic' = "none"
    /\ UNCHANGED <<plugged, drive, staged, speed, attached, debounce, tasks, told,
                   resetting, seen>>
    /\ Forgiven

tick ==
    /\ lock = "free"
    /\ keepalive
    /\ UNCHANGED <<plugged, speed, attached, debounce, tasks, told, resetting, seen>>
    /\ Forgiven

-----------------------------------------------------------------------------

(* A pipe exists once its device was announced, and outlives the device.   *)
request(p) ==
    /\ pipe[p] = "idle" /\ told # "None"
    /\ pipe' = [pipe EXCEPT ![p] = "lock"]
    /\ traffic' = "none"
    /\ UNCHANGED <<plugged, port, lock, pc, call, left, told, resetting, seen>>
    /\ Forgiven

(* One transaction or control transfer, from lock to unlock.  An IN token  *)
(* without a valid DATA packet in reply leaves the ACK in the FIFO.        *)
transaction(p) ==
    /\ pipe[p] = "lock" /\ lock = "free"
    /\ drive' = AfterPacket /\ staged' \in BOOLEAN
    /\ traffic' = "transaction"
    /\ stamp' = IF speed = "Low" THEN "recent" ELSE stamp
    /\ \E next \in {"idle", "backoff"} : pipe' = [pipe EXCEPT ![p] = next]
    /\ UNCHANGED <<plugged, speed, attached, debounce, lock, pc, call, left,
                   told, resetting, seen>>
    /\ Forgiven

retry(p) ==
    /\ pipe[p] = "backoff"
    /\ pipe' = [pipe EXCEPT ![p] = "lock"]
    /\ traffic' = "none"
    /\ UNCHANGED <<plugged, port, lock, pc, call, left, told, resetting, seen>>
    /\ Forgiven

-----------------------------------------------------------------------------

(* The reset keeps the lock from its first SE0 to its last recovery frame. *)
ResetLockDropped == "free"

ResetLock == "controller"

drive_reset_se0 ==
    /\ drive' = "SE0" /\ lock' = ResetLock /\ pc' = "se0" /\ resetting' = TRUE
    /\ traffic' = "reset"

wait_for_device_event ==
    /\ pc = "idle"
    /\ pc' = "poll" /\ call' = "event" /\ traffic' = "none"
    /\ UNCHANGED <<plugged, port, lock, left, pipe, told, resetting, seen>>
    /\ Forgiven

(* One sample.  A connected device is reset before the lock is dropped; a  *)
(* disconnect releases the bus and returns.  set_speed runs SM0 for a      *)
(* moment with the pins as inputs: a staged ACK drains, wholly or in part. *)
PollConnected ==
    LET s == Port!detect_speed
    IN  /\ Port!Attaches(s, Port!Debounced(s))
        /\ speed' = s /\ attached' = TRUE /\ stamp' = "old"
        /\ staged' \in {FALSE, staged}
        /\ drive_reset_se0
        /\ UNCHANGED told

PollDisconnected ==
    LET s == Port!detect_speed
    IN  /\ Port!Detaches(s, Port!Debounced(s))
        /\ attached' = FALSE /\ drive' = "released"
        /\ pc' = "idle" /\ told' = "Disconnected" /\ traffic' = "none"
        /\ UNCHANGED <<speed, staged, stamp, lock, resetting>>

PollNothing ==
    LET s == Port!detect_speed
    IN  /\ ~Port!Attaches(s, Port!Debounced(s))
        /\ ~Port!Detaches(s, Port!Debounced(s))
        /\ pc' = "sleep" /\ traffic' = "none"
        /\ UNCHANGED <<drive, staged, speed, attached, stamp, lock, told, resetting>>

poll_device_event ==
    /\ pc = "poll" /\ lock = "free"
    /\ debounce' = Port!Debounced(Port!detect_speed)
    /\ PollConnected \/ PollDisconnected \/ PollNothing
    /\ seen' = IF attached /\ ~attached' THEN 0
               ELSE IF plugged # "None" THEN AtMost(seen + 1, DebounceFrames)
               ELSE seen
    /\ UNCHANGED <<plugged, call, left, pipe>>
    /\ Forgiven

wait_for_next_frame ==
    /\ pc = "sleep"
    /\ pc' = "poll" /\ traffic' = "none"
    /\ UNCHANGED <<plugged, port, lock, call, left, pipe, told, resetting, seen>>
    /\ Forgiven

(* PioUsbController::bus_reset, called by the host stack. *)
bus_reset ==
    /\ pc = "idle"
    /\ attached \/ ResetsDetached
    /\ pc' = "reset" /\ call' = "reset" /\ traffic' = "none"
    /\ UNCHANGED <<plugged, port, lock, left, pipe, told, resetting, seen>>
    /\ Forgiven

bus_reset_locked ==
    /\ pc = "reset" /\ lock = "free"
    /\ drive_reset_se0
    /\ UNCHANGED <<plugged, staged, speed, attached, debounce, stamp, call, left, pipe, told, seen>>
    /\ Forgiven

(* SM0 runs again and drives J; what is in its FIFO is played, and its     *)
(* COMP releases the bus.  The sleep in the SE0 is longer than a frame.    *)
release_reset ==
    /\ pc = "se0" /\ stamp # "recent"
    /\ drive' = IF staged THEN "released" ELSE "J"
    /\ traffic' = IF staged THEN "ACK" ELSE "none"
    /\ staged' = FALSE
    /\ pc' = "recovery" /\ left' = RecoveryFrames
    /\ UNCHANGED <<plugged, speed, attached, debounce, stamp, lock, call, pipe, told,
                   resetting, seen>>
    /\ Forgiven

recovery_frame ==
    /\ pc = "recovery" /\ left > 0 /\ stamp # "recent"
    /\ keepalive
    /\ left' = left - 1
    /\ UNCHANGED <<plugged, speed, attached, debounce, lock, pc, call, pipe,
                   told, resetting, seen>>
    /\ Forgiven

UnlockForgotten == lock

Unlock == "free"

(* The last recovery frame is over: unlock and return. *)
ReturnForgotten == told

Return == IF call = "event" THEN "Connected" ELSE told

reset_done ==
    /\ pc = "recovery" /\ left = 0 /\ stamp # "recent"
    /\ lock' = Unlock /\ pc' = "idle" /\ resetting' = FALSE
    /\ told' = Return /\ traffic' = "none"
    /\ UNCHANGED <<plugged, port, call, left, pipe, seen>>
    /\ Forgiven

(* The caller drops the future at one of its awaits: for the mutex, for the*)
(* next frame, or within a reset, whose guard frees the mutex.  There is no*)
(* await between the release and the first keep-alive.                     *)
DroppedHeld == lock

DroppedLock == IF pc \in {"se0", "recovery"} THEN "free" ELSE lock

(* In the SE0, or in the frame after the first keep-alive, which may not   *)
(* have been due.                                                          *)
CutShort == pc = "se0" \/ (pc = "recovery" /\ left = RecoveryFrames - 1)

Drop ==
    /\ pc # "idle" /\ drops > 0
    /\ pc = "recovery" => left < RecoveryFrames
    /\ lock' = DroppedLock /\ pc' = "idle" /\ resetting' = FALSE
    /\ drops' = drops - 1
    /\ cut' = ((cut \/ CutShort) /\ drive # "released")
    /\ lost' = (lost \/ (call = "event" /\ pc \in {"se0", "recovery"}))
    /\ traffic' = "none"
    /\ UNCHANGED <<plugged, port, call, left, pipe, told, seen>>

Controller ==
    \/ wait_for_device_event \/ poll_device_event \/ wait_for_next_frame
    \/ bus_reset \/ bus_reset_locked \/ release_reset
    \/ recovery_frame \/ reset_done

Pipe(p) == request(p) \/ transaction(p) \/ retry(p)

Next == Plug \/ Elapse \/ tick \/ Controller \/ Drop \/ \E p \in Pipes : Pipe(p)

Spec == Init /\ [][Next]_vars

(* The executors poll every task whose timer or waker fired, the idle task *)
(* among them; the caller comes back to wait_for_device_event; and a pipe  *)
(* waiting for the mutex is not overtaken for ever, though it may be more  *)
(* than once.                                                              *)
Fairness ==
    /\ WF_vars(Elapse) /\ WF_vars(tick)
    /\ SF_vars(wait_for_device_event)
    /\ WF_vars(poll_device_event) /\ WF_vars(wait_for_next_frame)
    /\ WF_vars(bus_reset_locked) /\ WF_vars(release_reset)
    /\ WF_vars(recovery_frame) /\ WF_vars(reset_done)
    /\ \A p \in Pipes : SF_vars(transaction(p)) /\ WF_vars(retry(p))

FairSpec == Spec /\ Fairness

-----------------------------------------------------------------------------

(* From the SE0 of a reset to its last recovery frame no pipe talks to the *)
(* device, although the reset sleeps many times in between and the pipes   *)
(* of an earlier device go on polling.                                     *)
NoTransactionInReset == resetting => traffic # "transaction"

(* A device is attached only if DEBOUNCE_FRAMES samples taken since the    *)
(* last detach found one in the socket: nothing the host leaves on the     *)
(* lines is counted as a device.                                           *)
AttachReal == attached => seen >= DebounceFrames

(* No event is lost: what the caller was told last is the port's state,    *)
(* except while the call that will tell it is still resetting the device,  *)
(* and after the caller dropped that call: then until the next event.      *)
NoEventLost ==
    (attached # (told = "Connected")) =>
        lost \/ (call = "event" /\ pc \in {"se0", "recovery"})

(* Whenever the mutex is free, the pins are released: the device's pull-up *)
(* is visible to the next sample and the next reply is not collided with.  *)
(* Only a future dropped in the SE0 of its reset, or at the first recovery *)
(* frame when that sent nothing, leaves SE0 or J behind, on a port whose   *)
(* keep-alives go on.  The first keep-alive may not be due; the second is. *)
BusReleased == lock = "free" /\ drive # "released" => cut /\ attached

(* No reset, complete or dropped, keeps the bus for ever: the keep-alive of*)
(* the idle task, if nothing else, releases it.                            *)
EventuallyReleased == []<>(drive = "released")

(* A device that stays plugged in is reported in the end, and so is an     *)
(* empty socket, whatever the pipes and the caller's resets do, unless the *)
(* caller drops the call that had found it.                                *)
EventuallyReported ==
    /\ <>[](plugged # "None" /\ ~lost) => <>[](told = "Connected")
    /\ <>[](plugged = "None") => <>[](told # "Connected")

(* A pipe that waits for the mutex gets it. *)
PipeProgress == \A p \in Pipes : pipe[p] = "lock" ~> pipe[p] # "lock"

(* What the comment on RESET_RECOVERY_FRAMES says: after the reset only    *)
(* keep-alives are on the bus until the recovery frames are over.          *)
SofOnlyRecovery == resetting => traffic \notin {"transaction", "ACK"}
=============================================================================
