---------------------------- MODULE FrameTiming ----------------------------
(***************************************************************************)
(* The pace of the keep-alives while a device is attached: idle_task and   *)
(* tick of embassy.rs, keepalive and bus_reset of bus.rs, and the frame    *)
(* counter both use without a lock.  Time is counted in ticks and passes   *)
(* only when no task that can run is ready, so a task is late only because *)
(* a transaction keeps its executor busy.  The idle task runs on the       *)
(* executor of the others, or on one that preempts it, or on one that it   *)
(* preempts.                                                               *)
(***************************************************************************)
EXTENDS Naturals

CONSTANTS
    Frame,              \* FRAME_INTERVAL_US in ticks
    ResetTicks,         \* RESET_SE0_US in ticks
    RecoveryFrames,     \* RESET_RECOVERY_FRAMES
    FrameNumbers,       \* 2048 in the source
    Wrap,               \* 2^32 us in ticks: a difference of two now_us() wraps
    MaxBusy,            \* bound: ticks one transaction takes
    MaxAge              \* bound: none begins so long after the last SOF

ASSUME TimingAssumption ==
    /\ Frame \in Nat \ {0} /\ ResetTicks \in Nat
    /\ RecoveryFrames \in Nat /\ RecoveryFrames >= 2
    /\ FrameNumbers \in Nat \ {0}
    /\ MaxBusy \in Nat /\ MaxAge \in Nat
    /\ Wrap \in Nat /\ Wrap > MaxAge + MaxBusy + 2 * Frame

VARIABLES
    placement,          \* the idle task: on the "same" executor, "above", "below"
    speed,              \* of the attached device
    lock,               \* "free", "reset" or "transaction"
    age,                \* now_us() less last_sof at full speed, last_activity at
                        \* low speed
    counter             \* FrameCounter::counter

VARIABLES
    idle, idle_timer, idle_saved,       \* idle_task
    pc, timer, left, saved,             \* the controller's bus_reset
    busy                                \* ticks left of a running transaction

(* For the properties: ticks since anything was on the bus, ticks since    *)
(* the last SOF and its number.                                            *)
VARIABLES quiet, since, sof_number

idleVars  == <<idle, idle_timer, idle_saved>>
resetVars == <<pc, timer, left, saved>>
busVars   == <<age, quiet, since, sof_number>>
fixed     == <<placement, speed>>
vars      == <<fixed, lock, busVars, counter, idleVars, resetVars, busy>>

AtMost(n, cap) == IF n < cap THEN n ELSE cap
Less1(n) == IF n = 0 THEN 0 ELSE n - 1

-----------------------------------------------------------------------------

(* Who may run.  The controller and the pipes share an executor.  A task   *)
(* between the load and the store of the counter has not reached an await. *)
IdleRuns  == placement = "above" \/ (busy = 0 /\ pc # "loaded")
OtherRuns == busy = 0 /\ (placement = "below" \/ idle # "loaded")

IdleReady  == idle = "loaded" \/ idle_timer = 0
OtherReady ==
    pc = "loaded" \/ (pc \in {"se0", "frame"} /\ timer = 0) \/ lock = "transaction"

Advance ==
    /\ ~(IdleReady /\ IdleRuns) /\ ~(OtherReady /\ OtherRuns)
    /\ idle_timer' = Less1(idle_timer) /\ timer' = Less1(timer)
    /\ busy' = Less1(busy)
    /\ age' = IF busy > 0 /\ speed = "Low" THEN 0 ELSE (age + 1) % Wrap
    /\ quiet' = IF busy > 0 \/ pc = "se0" THEN 0 ELSE AtMost(quiet + 1, 3 * Frame)
    /\ since' = AtMost(since + 1, 3 * Frame)
    /\ UNCHANGED <<fixed, lock, sof_number, counter, idle, idle_saved,
                   pc, left, saved>>

-----------------------------------------------------------------------------

next_frameStuck(n) == n

next_frame(n) == (n + 1) % FrameNumbers

DueAfter == age > Frame

DueLate == age >= 2 * Frame

Due == age >= Frame

keepalive(number) ==
    \/ /\ Due
       /\ age' = 0 /\ quiet' = 0
       /\ IF speed = "Full" THEN sof_number' = number /\ since' = 0
          ELSE UNCHANGED <<sof_number, since>>
    \/ ~Due /\ UNCHANGED busVars

(* FrameCounter::next is a load and a store; tick then tries the lock.     *)
tick_load ==
    /\ IdleRuns /\ idle = "sleep" /\ idle_timer = 0
    /\ idle' = "loaded" /\ idle_saved' = counter
    /\ UNCHANGED <<fixed, lock, busVars, counter, idle_timer, resetVars, busy>>

tick ==
    /\ IdleRuns /\ idle = "loaded"
    /\ counter' = next_frame(idle_saved)
    /\ IF lock = "free" THEN keepalive(counter') ELSE UNCHANGED busVars
    /\ idle' = "sleep" /\ idle_timer' = Frame
    /\ UNCHANGED <<fixed, lock, idle_saved, resetVars, busy>>

-----------------------------------------------------------------------------

(* A transaction holds the lock and its executor until it is over, and     *)
(* stamps last_activity.                                                   *)
transaction ==
    /\ OtherRuns /\ pc # "loaded" /\ lock = "free" /\ age <= MaxAge
    /\ busy' \in 0 .. MaxBusy
    /\ lock' = "transaction"
    /\ age' = IF speed = "Low" THEN 0 ELSE age
    /\ quiet' = 0
    /\ UNCHANGED <<fixed, since, sof_number, counter, idleVars, resetVars>>

transaction_done ==
    /\ OtherRuns /\ lock = "transaction"
    /\ lock' = "free"
    /\ UNCHANGED <<fixed, busVars, counter, idleVars, resetVars, busy>>

drive_reset_se0 ==
    /\ OtherRuns /\ pc = "idle" /\ lock = "free"
    /\ lock' = "reset" /\ pc' = "se0" /\ timer' = ResetTicks
    /\ quiet' = 0
    /\ UNCHANGED <<fixed, age, since, sof_number, counter, idleVars,
                   left, saved, busy>>

release_reset ==
    /\ OtherRuns /\ pc = "se0" /\ timer = 0
    /\ pc' = "frame" /\ left' = RecoveryFrames
    /\ UNCHANGED <<fixed, lock, busVars, counter, idleVars, timer, saved, busy>>

recovery_load ==
    /\ OtherRuns /\ pc = "frame" /\ timer = 0 /\ left > 0
    /\ pc' = "loaded" /\ saved' = counter
    /\ UNCHANGED <<fixed, lock, busVars, counter, idleVars, timer, left, busy>>

recovery_frame ==
    /\ OtherRuns /\ pc = "loaded"
    /\ counter' = next_frame(saved)
    /\ keepalive(counter')
    /\ pc' = "frame" /\ timer' = Frame /\ left' = left - 1
    /\ UNCHANGED <<fixed, lock, idleVars, saved, busy>>

reset_done ==
    /\ OtherRuns /\ pc = "frame" /\ timer = 0 /\ left = 0
    /\ pc' = "idle" /\ lock' = "free"
    /\ UNCHANGED <<fixed, busVars, counter, idleVars, timer, left, saved, busy>>

-----------------------------------------------------------------------------

(* The device has just been found: its first reset begins.  The time of the*)
(* last packet is that of an earlier device, or of Bus::new, so its age,   *)
(* which wraps, may be any: at the first recovery frame, too.              *)
Init ==
    /\ placement \in {"same", "above", "below"} /\ speed \in {"Full", "Low"}
    /\ lock = "reset" /\ pc = "se0" /\ timer = ResetTicks
    /\ left = 0 /\ saved = 0 /\ busy = 0
    /\ idle = "sleep" /\ idle_timer \in 0 .. Frame /\ idle_saved = 0
    /\ age \in 0 .. Wrap - 1 /\ counter = 0
    /\ quiet = 0 /\ since = 3 * Frame /\ sof_number = 0

Next ==
    \/ Advance
    \/ tick_load \/ tick
    \/ transaction \/ transaction_done
    \/ drive_reset_se0 \/ release_reset
    \/ recovery_load \/ recovery_frame \/ reset_done

Spec == Init /\ [][Next]_vars

-----------------------------------------------------------------------------

(* The attached device never sees an idle bus for more than two frames, so *)
(* it is never suspended (3 ms): not when a tick is skipped for activity   *)
(* just before it, nor when ticks find the lock taken by a reset and the   *)
(* reset has sent its last keep-alive.                                     *)
NoSuspend == quiet <= 2 * Frame

(* During the recovery the bus is never idle for longer than a frame.  The *)
(* age the first keep-alive tests is stale and may have wrapped to anything*)
(* below a frame: then nothing is sent, but the next one is due, and from  *)
(* there on the loop's timer and the age never miss each other by a tick.  *)
RecoveryPaced ==
    pc \in {"frame", "loaded"} /\ left < RecoveryFrames => quiet <= Frame

(* Two SOFs in a row never carry the same frame number: an update of the   *)
(* counter lost between load and store never reaches the wire twice.       *)
SofAdvances == [][since > 0 /\ since' = 0 => sof_number' # sof_number]_vars
=============================================================================
