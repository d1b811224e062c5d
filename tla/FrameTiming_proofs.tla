------------------------- MODULE FrameTiming_proofs -------------------------
(***************************************************************************)
(* The pace of the keep-alives for every length of a frame, of a reset and *)
(* of transactions, every age the first reset may find, every number of    *)
(* recovery frames from two, and the three placements of the idle task; and*)
(* the frame numbers of the SOFs it and the resets send.                   *)
(***************************************************************************)
EXTENDS FrameTiming, TLAPS

Types ==
    /\ placement \in {"same", "above", "below"} /\ speed \in {"Full", "Low"}
    /\ lock \in {"free", "reset", "transaction"}
    /\ pc \in {"idle", "se0", "frame", "loaded"} /\ idle \in {"sleep", "loaded"}
    /\ age \in Nat /\ quiet \in Nat /\ timer \in Nat /\ busy \in Nat
    /\ idle_timer \in 0 .. Frame /\ left \in 0 .. RecoveryFrames

(* Who holds the lock, and who is between the load and the store. *)
Locking ==
    /\ lock = "reset" <=> pc # "idle"
    /\ busy > 0 => lock = "transaction"
    /\ placement = "same" => ~(idle = "loaded" /\ pc = "loaded")

(* The age of a stamp that is not an earlier device's.                     *)
LongestAge == MaxAge + MaxBusy + 2 * Frame

(* What keeps the bus from being quiet: the tick that is due when nobody   *)
(* has the lock, the transaction, the SE0, or the next recovery frame.  The*)
(* first of these may find any age and send nothing; the others find a     *)
(* frame's, and from the second on exactly that.                           *)
Pacing ==
    /\ lock = "free" =>
         /\ quiet <= age /\ quiet + idle_timer <= 2 * Frame
         /\ age + idle_timer <= LongestAge
    /\ lock = "transaction" => quiet = 0 /\ age + busy <= MaxAge + MaxBusy
    /\ pc = "se0" => quiet = 0
    /\ pc \in {"frame", "loaded"} =>
         IF left = RecoveryFrames THEN quiet = 0 /\ timer = 0
         ELSE /\ quiet + timer <= Frame
              /\ age + timer >= Frame /\ age + timer < 2 * Frame
              /\ left < RecoveryFrames - 1 => age + timer = Frame
    /\ pc = "loaded" => timer = 0 /\ left > 0

IInv == Types /\ Locking /\ Pacing

LEMMA InitIInv == Init => IInv
BY TimingAssumption DEF Init, IInv, Types, Locking, Pacing, LongestAge

(* Time passes only while a timer of whoever has the bus is running. *)
LEMMA Waiting ==
    ASSUME IInv, Advance
    PROVE  /\ lock = "free" => idle_timer > 0
           /\ lock = "transaction" => busy > 0
           /\ lock = "reset" => busy = 0 /\ timer > 0 /\ pc \in {"se0", "frame"}
<1>1. ~(IdleReady /\ IdleRuns) /\ ~(OtherReady /\ OtherRuns)
  BY DEF Advance
<1>2. CASE lock = "free"
  <2>1. busy = 0 /\ pc = "idle"
    BY <1>2 DEF IInv, Types, Locking
  <2>2. IdleRuns
    BY <2>1 DEF IdleRuns
  <2> QED
    BY <1>1, <1>2, <2>2 DEF IdleReady, IInv, Types
<1>3. CASE lock = "transaction"
  <2>1. OtherReady /\ pc = "idle"
    BY <1>3 DEF OtherReady, IInv, Types, Locking
  <2>2. SUFFICES ASSUME busy = 0 PROVE FALSE
    BY <1>3 DEF IInv, Types
  <2>3. idle = "loaded"
    BY <1>1, <2>1, <2>2 DEF OtherRuns, IInv, Types
  <2> QED
    BY <1>1, <2>1, <2>2, <2>3 DEF IdleReady, IdleRuns
<1>4. CASE lock = "reset"
  <2>1. busy = 0 /\ pc # "idle"
    BY <1>4 DEF IInv, Types, Locking
  <2>2. SUFFICES ASSUME OtherReady PROVE FALSE
    BY <1>4, <2>1 DEF OtherReady, IInv, Types
  <2>3. idle = "loaded" /\ placement # "below"
    BY <1>1, <2>1, <2>2 DEF OtherRuns, IInv, Types
  <2>4. IdleRuns
    BY <2>1, <2>3 DEF IdleRuns, IInv, Types, Locking
  <2> QED
    BY <1>1, <2>3, <2>4 DEF IdleReady
<1> QED
  BY <1>2, <1>3, <1>4 DEF IInv, Types

(* Where the age is not an earlier device's, it is far from wrapping.      *)
LEMMA Unwrapped ==
    ASSUME NEW a \in Nat, a < LongestAge
    PROVE  (a + 1) % Wrap = a + 1
BY TimingAssumption DEF LongestAge

LEMMA AdvanceIInv ==
    ASSUME IInv, Advance
    PROVE  IInv'
<1>1. /\ UNCHANGED <<placement, speed, lock, idle, pc, left>>
      /\ idle_timer' = Less1(idle_timer) /\ timer' = Less1(timer) /\ busy' = Less1(busy)
      /\ age' = IF busy > 0 /\ speed = "Low" THEN 0 ELSE (age + 1) % Wrap
      /\ quiet' = IF busy > 0 \/ pc = "se0" THEN 0 ELSE AtMost(quiet + 1, 3 * Frame)
  BY DEF Advance, fixed
<1>2. Types'
  <2>1. age' \in Nat
    BY <1>1, TimingAssumption DEF IInv, Types
  <2> QED
    BY <1>1, <2>1, TimingAssumption DEF IInv, Types, Less1, AtMost
<1>3. Locking'
  BY <1>1 DEF IInv, Types, Locking, Less1
<1>4. CASE lock = "free"
  <2>1. busy = 0 /\ pc = "idle" /\ idle_timer > 0
    BY <1>4, Waiting DEF IInv, Types, Locking
  <2>2. age' = age + 1 /\ quiet' = AtMost(quiet + 1, 3 * Frame)
    <3>1. age < LongestAge
      BY <1>4, <2>1, TimingAssumption DEF IInv, Types, Pacing, LongestAge
    <3> QED
      BY <1>1, <2>1, <3>1, Unwrapped DEF IInv, Types
  <2>3. quiet' + idle_timer' <= 2 * Frame /\ quiet' <= age'
    BY <1>1, <1>4, <2>1, <2>2, TimingAssumption DEF IInv, Types, Pacing, AtMost, Less1
  <2>4. age' + idle_timer' <= LongestAge
    BY <1>1, <1>4, <2>1, <2>2, TimingAssumption DEF IInv, Types, Pacing, LongestAge, Less1
  <2> QED
    BY <1>1, <1>2, <1>3, <1>4, <2>1, <2>3, <2>4 DEF IInv, Pacing
<1>5. CASE lock = "transaction"
  <2>1. busy > 0 /\ pc = "idle"
    BY <1>5, Waiting DEF IInv, Types, Locking
  <2>2. quiet' = 0 /\ busy' = busy - 1
    BY <1>1, <2>1 DEF Less1
  <2>3. age' = 0 \/ age' = age + 1
    <3>1. age < LongestAge
      BY <1>5, <2>1, TimingAssumption DEF IInv, Types, Pacing, LongestAge
    <3> QED
      BY <1>1, <3>1, Unwrapped DEF IInv, Types
  <2>4. age' + busy' <= MaxAge + MaxBusy
    BY <1>5, <2>1, <2>2, <2>3, TimingAssumption DEF IInv, Types, Pacing
  <2> QED
    BY <1>1, <1>2, <1>3, <1>5, <2>1, <2>2, <2>4 DEF IInv, Pacing
<1>6. CASE lock = "reset"
  <2>1. busy = 0 /\ timer > 0 /\ pc \in {"se0", "frame"}
    BY <1>6, Waiting
  <2>2. timer' = timer - 1
    BY <1>1, <2>1 DEF Less1
  <2>4. CASE pc = "se0"
    <3>1. quiet' = 0
      BY <1>1, <2>4
    <3> QED
      BY <1>1, <1>2, <1>3, <1>6, <2>4, <3>1 DEF IInv, Types, Pacing
  <2>5. CASE pc = "frame"
    <3>1. /\ quiet' = AtMost(quiet + 1, 3 * Frame) /\ left # RecoveryFrames
          /\ quiet + timer <= Frame
          /\ age + timer >= Frame /\ age + timer < 2 * Frame
          /\ left < RecoveryFrames - 1 => age + timer = Frame
      BY <1>1, <2>1, <2>5 DEF IInv, Pacing
    <3>2. age' = age + 1
      <4>1. age < LongestAge
        BY <3>1, TimingAssumption DEF IInv, Types, LongestAge
      <4> QED
        BY <1>1, <2>1, <4>1, Unwrapped DEF IInv, Types
    <3>3. quiet' + timer' <= Frame
      BY <2>1, <2>2, <3>1, TimingAssumption DEF IInv, Types, AtMost
    <3>4. /\ age' + timer' >= Frame /\ age' + timer' < 2 * Frame
          /\ left < RecoveryFrames - 1 => age' + timer' = Frame
      BY <2>1, <2>2, <3>1, <3>2, TimingAssumption DEF IInv, Types
    <3> QED
      BY <1>1, <1>2, <1>3, <1>6, <2>5, <3>1, <3>3, <3>4 DEF IInv, Pacing
  <2> QED
    BY <2>1, <2>4, <2>5
<1> QED
  BY <1>4, <1>5, <1>6 DEF IInv, Types

(* A keep-alive that is not due finds an age below a frame.                *)
LEMMA Kept ==
    ASSUME IInv, NEW number, keepalive(number)
    PROVE  \/ age >= Frame /\ age' = 0 /\ quiet' = 0
           \/ age < Frame /\ age' = age /\ quiet' = quiet
BY TimingAssumption DEF keepalive, Due, busVars, IInv, Types

LEMMA TickIInv ==
    ASSUME IInv, tick_load \/ tick
    PROVE  IInv'
<1>1. UNCHANGED <<placement, speed, lock, pc, timer, left, busy>>
  BY DEF tick_load, tick, fixed, resetVars
<1>2. CASE tick_load
  <2>1. /\ UNCHANGED <<age, quiet, idle_timer>> /\ idle' = "loaded"
        /\ placement = "same" => pc # "loaded"
    BY <1>2 DEF tick_load, busVars, IdleRuns
  <2>2. Types'
    BY <1>1, <2>1 DEF IInv, Types
  <2>3. Locking' /\ Pacing'
    BY <1>1, <2>1 DEF IInv, Locking, Pacing
  <2> QED
    BY <2>2, <2>3 DEF IInv
<1>3. CASE tick
  <2>1. idle' = "sleep" /\ idle_timer' = Frame
    BY <1>3 DEF tick
  <2>2. CASE lock = "free"
    <3>0. \/ age >= Frame /\ age' = 0 /\ quiet' = 0
          \/ age < Frame /\ age' = age /\ quiet' = quiet
      BY <1>3, <2>2, Kept DEF tick
    <3>1. /\ age' \in Nat /\ quiet' \in Nat /\ quiet' <= age'
          /\ quiet' < Frame /\ age' < Frame
      BY <2>2, <3>0, TimingAssumption DEF IInv, Types, Pacing
    <3>2. pc = "idle" /\ busy = 0
      BY <2>2 DEF IInv, Types, Locking
    <3>3. Types'
      BY <1>1, <2>1, <3>1, TimingAssumption DEF IInv, Types
    <3>4. Locking'
      BY <1>1, <2>1 DEF IInv, Locking
    <3>5. quiet' + idle_timer' <= 2 * Frame /\ age' + idle_timer' <= LongestAge
      <4>1. \A q \in Nat : q < Frame => q + Frame <= 2 * Frame /\ q + Frame <= LongestAge
        BY TimingAssumption DEF LongestAge
      <4> QED
        BY <2>1, <3>1, <4>1
    <3>6. Pacing'
      BY <1>1, <2>2, <3>1, <3>2, <3>5 DEF Pacing
    <3> QED
      BY <3>3, <3>4, <3>6 DEF IInv
  <2>3. CASE lock # "free"
    <3>1. UNCHANGED <<age, quiet>>
      BY <1>3, <2>3 DEF tick, busVars
    <3> QED
      BY <1>1, <2>1, <2>3, <3>1, TimingAssumption DEF IInv, Types, Locking, Pacing
  <2> QED
    BY <2>2, <2>3
<1> QED
  BY <1>2, <1>3

LEMMA TransactionIInv ==
    ASSUME IInv, transaction \/ transaction_done
    PROVE  IInv'
<1>1. UNCHANGED <<placement, speed, idle, idle_timer, pc, timer, left>>
  BY DEF transaction, transaction_done, fixed, idleVars, resetVars
<1>2. CASE transaction
  <2>1. /\ busy' \in Nat /\ lock = "free" /\ lock' = "transaction"
        /\ age' \in Nat /\ quiet' = 0 /\ pc = "idle"
        /\ age' + busy' <= MaxAge + MaxBusy
    <3>1. busy' \in 0 .. MaxBusy /\ age' \in Nat /\ age' <= MaxAge
      BY <1>2, TimingAssumption DEF transaction, IInv, Types
    <3>2. \A a, b \in Nat : a <= MaxAge /\ b <= MaxBusy => a + b <= MaxAge + MaxBusy
      BY TimingAssumption
    <3>3. busy' \in Nat /\ busy' <= MaxBusy
      BY <3>1, TimingAssumption
    <3>4. age' + busy' <= MaxAge + MaxBusy
      BY <3>1, <3>2, <3>3
    <3> QED
      BY <1>2, <3>1, <3>3, <3>4 DEF transaction, IInv, Types, Locking
  <2> QED
    BY <1>1, <2>1 DEF IInv, Types, Locking, Pacing
<1>3. CASE transaction_done
  <2>1. /\ UNCHANGED <<age, quiet, busy>> /\ busy = 0 /\ pc = "idle"
        /\ lock = "transaction" /\ lock' = "free" /\ quiet = 0
        /\ age + busy <= MaxAge + MaxBusy
    BY <1>3 DEF transaction_done, OtherRuns, busVars, IInv, Types, Locking, Pacing
  <2>2. quiet <= age /\ quiet + idle_timer <= 2 * Frame /\ age + idle_timer <= LongestAge
    BY <2>1, TimingAssumption DEF IInv, Types, LongestAge
  <2> QED
    BY <1>1, <2>1, <2>2 DEF IInv, Types, Locking, Pacing
<1> QED
  BY <1>2, <1>3

LEMMA ResetIInv ==
    ASSUME IInv,
           drive_reset_se0 \/ release_reset \/ recovery_load \/ recovery_frame \/ reset_done
    PROVE  IInv'
<1>1. UNCHANGED <<placement, speed, idle, idle_timer, busy>>
  BY DEF drive_reset_se0, release_reset, recovery_load, recovery_frame, reset_done, fixed,
         idleVars
<1>2. CASE drive_reset_se0
  <2>1. /\ lock' = "reset" /\ pc' = "se0" /\ timer' = ResetTicks /\ quiet' = 0
        /\ UNCHANGED <<age, left>> /\ lock = "free"
    BY <1>2 DEF drive_reset_se0
  <2> QED
    BY <1>1, <2>1, TimingAssumption DEF IInv, Types, Locking, Pacing
<1>3. CASE release_reset
  <2>1. /\ UNCHANGED <<lock, age, quiet, timer>>
        /\ pc = "se0" /\ timer = 0 /\ pc' = "frame" /\ left' = RecoveryFrames
    BY <1>3 DEF release_reset, busVars
  <2> QED
    BY <1>1, <2>1, TimingAssumption DEF IInv, Types, Locking, Pacing
<1>4. CASE recovery_load
  <2>1. /\ UNCHANGED <<lock, age, quiet, timer, left>>
        /\ pc = "frame" /\ timer = 0 /\ left > 0 /\ pc' = "loaded"
        /\ placement = "same" => idle # "loaded"
    BY <1>4 DEF recovery_load, busVars, OtherRuns
  <2> QED
    BY <1>1, <2>1 DEF IInv, Types, Locking, Pacing
<1>5. CASE recovery_frame
  <2>1. /\ UNCHANGED lock /\ pc = "loaded" /\ keepalive(counter')
        /\ pc' = "frame" /\ timer' = Frame /\ left' = left - 1
    BY <1>5 DEF recovery_frame
  <2>2. timer = 0 /\ left \in 1 .. RecoveryFrames
    BY <2>1 DEF IInv, Types, Pacing
  <2>3. \/ age >= Frame /\ age' = 0 /\ quiet' = 0
        \/ age < Frame /\ age' = age /\ quiet' = quiet
    BY <2>1, Kept
  <2>4. left' \in 0 .. RecoveryFrames /\ left' # RecoveryFrames
    BY <2>1, <2>2, TimingAssumption
  <2>5. Types' /\ Locking'
    BY <1>1, <2>1, <2>3, <2>4, TimingAssumption DEF IInv, Types, Locking
  <2>6. CASE left = RecoveryFrames
    <3>1. quiet' = 0 /\ age' \in Nat /\ age' < Frame /\ left' = RecoveryFrames - 1
      BY <2>1, <2>3, <2>6, TimingAssumption DEF IInv, Types, Pacing
    <3>2. \A a \in Nat : a < Frame => a + Frame >= Frame /\ a + Frame < 2 * Frame
      BY TimingAssumption
    <3>3. quiet' + timer' <= Frame /\ age' + timer' >= Frame /\ age' + timer' < 2 * Frame
      <4>1. age' + Frame >= Frame /\ age' + Frame < 2 * Frame
        BY <3>1, <3>2
      <4>2. 0 + Frame <= Frame
        BY TimingAssumption
      <4> QED
        BY <2>1, <3>1, <4>1, <4>2
    <3>4. ~(left' < RecoveryFrames - 1)
      BY <3>1, TimingAssumption
    <3> QED
      BY <2>1, <2>4, <2>5, <3>3, <3>4 DEF IInv, Locking, Pacing
  <2>7. CASE left # RecoveryFrames
    <3>1. age' = 0 /\ quiet' = 0
      BY <2>1, <2>2, <2>3, <2>7, TimingAssumption DEF IInv, Types, Pacing
    <3> QED
      BY <2>1, <2>4, <2>5, <3>1, TimingAssumption DEF IInv, Locking, Pacing
  <2> QED
    BY <2>6, <2>7
<1>6. CASE reset_done
  <2>1. /\ UNCHANGED <<age, quiet, timer, left>>
        /\ pc = "frame" /\ timer = 0 /\ left = 0 /\ pc' = "idle" /\ lock' = "free"
    BY <1>6 DEF reset_done, busVars
  <2>2. quiet <= age /\ quiet + idle_timer <= 2 * Frame /\ age + idle_timer <= LongestAge
    <3>1. quiet <= Frame /\ age = Frame
      BY <2>1, TimingAssumption DEF IInv, Types, Pacing
    <3> QED
      BY <3>1, TimingAssumption DEF IInv, Types, LongestAge
  <2> QED
    BY <1>1, <2>1, <2>2 DEF IInv, Types, Locking, Pacing
<1> QED
  BY <1>2, <1>3, <1>4, <1>5, <1>6

LEMMA StutterIInv ==
    ASSUME IInv, UNCHANGED vars
    PROVE  IInv'
BY DEF vars, fixed, busVars, idleVars, resetVars, IInv, Types, Locking, Pacing

(* Somebody's timer always bounds the quiet on the bus. *)
THEOREM Inductive == Spec => []IInv
<1>1. IInv /\ [Next]_vars => IInv'
  BY AdvanceIInv, TickIInv, TransactionIInv, ResetIInv, StutterIInv DEF Next
<1> QED
  BY InitIInv, <1>1, PTL DEF Spec

(* idle_task and bus_reset together never leave the bus idle for more than *)
(* two frames.                                                             *)
THEOREM NeverSuspended == Spec => []NoSuspend
<1>1. IInv => NoSuspend
  BY TimingAssumption DEF IInv, Types, Locking, Pacing, NoSuspend
<1> QED
  BY Inductive, <1>1, PTL

(* Whatever age the first keep-alive of bus_reset's recovery loop finds,   *)
(* the bus is idle for a frame at most until the loop ends: every one after*)
(* the first is due when it is called.                                     *)
THEOREM RecoveryKept == Spec => []RecoveryPaced
<1>1. IInv => RecoveryPaced
  BY TimingAssumption DEF IInv, Types, Pacing, RecoveryPaced
<1> QED
  BY Inductive, <1>1, PTL

-----------------------------------------------------------------------------

(* How far the counter is ahead of the last SOF. *)
Distance(n) ==
    IF n >= sof_number THEN n - sof_number ELSE n + FrameNumbers - sof_number

ahead == Distance(counter)

Numbers ==
    /\ since \in Nat
    /\ counter \in 0 .. FrameNumbers - 1 /\ sof_number \in 0 .. FrameNumbers - 1
    /\ idle_saved \in 0 .. FrameNumbers - 1 /\ saved \in 0 .. FrameNumbers - 1
    /\ idle = "loaded" => idle_timer = 0

LongestRun == LongestAge + ResetTicks

(* The ticks, a frame apart, that r of time without an SOF has seen: no    *)
(* more than the age of that SOF, or, until the second recovery frame, when*)
(* the age may have wrapped, than the longest SE0 and a frame more.        *)
Within(r) ==
    /\ pc = "idle" => r <= age + idle_timer
    /\ pc = "se0" => r + timer <= LongestRun + idle_timer
    /\ pc \in {"frame", "loaded"} =>
         /\ left = RecoveryFrames => r <= LongestRun + idle_timer
         /\ left = RecoveryFrames - 1 => r + timer <= LongestRun + 2 * Frame + idle_timer
         /\ left < RecoveryFrames - 1 => r <= age + idle_timer

Running == Within(Frame * ahead)

(* What a task loaded is still the counter, or the other task has been in  *)
(* between, once: then the store repeats its own.                          *)
Loading ==
    /\ idle = "loaded" =>
           \/ idle_saved = counter
           \/ /\ next_frame(idle_saved) = counter
              /\ pc = "frame" /\ left < RecoveryFrames /\ timer > 0
    /\ pc = "loaded" =>
           \/ saved = counter
           \/ /\ next_frame(saved) = counter /\ ahead >= 1
              /\ idle = "sleep" /\ idle_timer > 0

SInv ==
    /\ Numbers
    /\ speed = "Full" => Running /\ Loading

(* The SE0 of a reset and the transactions that may follow each other leave*)
(* the counter short of a whole turn: 2048 frames in the source.           *)
Enough == MaxAge + MaxBusy + ResetTicks + 7 * Frame <= Frame * FrameNumbers

LEMMA InitSInv == Init => SInv
<1> SUFFICES ASSUME Init PROVE SInv
  OBVIOUS
<1>1. Numbers
  BY TimingAssumption DEF Init, Numbers
<1>2. ahead = 0 /\ Frame * ahead = 0
  BY TimingAssumption DEF Init, ahead, Distance
<1>3. Running /\ Loading
  BY <1>2, TimingAssumption DEF Init, Running, Within, Loading, LongestRun, LongestAge
<1> QED
  BY <1>1, <1>3 DEF SInv

LEMMA DistanceType ==
    ASSUME Numbers, NEW n \in 0 .. FrameNumbers - 1
    PROVE  Distance(n) \in 0 .. FrameNumbers - 1 /\ (n = sof_number => Distance(n) = 0)
BY TimingAssumption DEF Numbers, Distance

LEMMA Stepped ==
    ASSUME Numbers, NEW n \in 0 .. FrameNumbers - 1
    PROVE  /\ next_frame(n) \in 0 .. FrameNumbers - 1
           /\ Distance(n) + 1 < FrameNumbers =>
                  /\ next_frame(n) # sof_number
                  /\ Distance(next_frame(n)) = Distance(n) + 1
<1>1. next_frame(n) = IF n + 1 = FrameNumbers THEN 0 ELSE n + 1
  BY TimingAssumption DEF next_frame
<1> QED
  BY <1>1, TimingAssumption DEF Numbers, Distance

LEMMA Scaled ==
    ASSUME NEW a \in Nat, NEW b \in Nat, Frame * a <= Frame * b
    PROVE  a <= b
<1>1. SUFFICES ASSUME a > b PROVE FALSE
  OBVIOUS
<1>2. PICK d \in Nat : a = b + 1 + d
  <2>1. a - b - 1 \in Nat /\ a = b + 1 + (a - b - 1)
    BY <1>1
  <2> QED
    BY <2>1
<1>3. Frame * a = Frame * b + Frame + Frame * d /\ Frame * d \in Nat /\ Frame * b \in Nat
  BY <1>2, TimingAssumption
<1> QED
  BY <1>3, TimingAssumption

(* One tick more is one frame more. *)
LEMMA OneMore ==
    ASSUME NEW a \in Nat
    PROVE  Frame * a \in Nat /\ Frame * (a + 1) = Frame * a + Frame
BY TimingAssumption

(* The counter never catches up with the number of the last SOF. *)
LEMMA Room ==
    ASSUME IInv, SInv, Enough, speed = "Full"
    PROVE  ahead \in Nat /\ ahead + 2 <= FrameNumbers
<1>1. /\ ahead \in Nat /\ Frame \in Nat \ {0} /\ MaxAge \in Nat
      /\ MaxBusy \in Nat /\ ResetTicks \in Nat /\ FrameNumbers \in Nat
      /\ age \in Nat /\ busy \in Nat /\ timer \in Nat /\ idle_timer \in 0 .. Frame
  BY DistanceType, TimingAssumption DEF SInv, Numbers, ahead, IInv, Types
<1>2. PICK r \in Nat : r = Frame * ahead
  BY <1>1, OneMore
<1>3. Within(r)
  BY <1>2 DEF SInv, Running
<1>4. r <= MaxAge + MaxBusy + ResetTicks + 5 * Frame
  <2>1. CASE lock = "free"
    BY <1>1, <1>3, <2>1 DEF Within, IInv, Types, Locking, Pacing, LongestAge
  <2>2. CASE lock = "transaction"
    BY <1>1, <1>3, <2>2 DEF Within, IInv, Types, Locking, Pacing
  <2>3. CASE pc = "se0"
    BY <1>1, <1>3, <2>3 DEF Within, LongestRun, LongestAge
  <2>4. CASE pc \in {"frame", "loaded"}
    <3>1. CASE left = RecoveryFrames
      BY <1>1, <1>3, <2>4, <3>1 DEF Within, LongestRun, LongestAge
    <3>2. CASE left = RecoveryFrames - 1
      BY <1>1, <1>3, <2>4, <3>2 DEF Within, LongestRun, LongestAge
    <3>3. CASE left < RecoveryFrames - 1
      <4>1. age <= Frame /\ r <= age + idle_timer
        BY <1>1, <1>3, <2>4, <3>3, TimingAssumption DEF Within, IInv, Types, Pacing
      <4> QED
        BY <1>1, <4>1
    <3> QED
      BY <3>1, <3>2, <3>3, TimingAssumption DEF IInv, Types
  <2> QED
    BY <2>1, <2>2, <2>3, <2>4 DEF IInv, Types, Locking
<1>5. Frame * (ahead + 2) = r + 2 * Frame
  BY <1>1, <1>2
<1>6. Frame * (ahead + 2) <= Frame * FrameNumbers
  <2>1. PICK n \in Nat : n = Frame * FrameNumbers
    BY <1>1, OneMore
  <2>2. MaxAge + MaxBusy + ResetTicks + 7 * Frame <= n
    BY <2>1 DEF Enough
  <2>3. r + 2 * Frame <= n
    BY <1>1, <1>4, <2>2
  <2> QED
    BY <1>5, <2>1, <2>3
<1> QED
  BY <1>1, <1>6, Scaled

LEMMA NoDistance ==
    ASSUME counter' = sof_number', counter' \in 0 .. FrameNumbers - 1
    PROVE  ahead' = 0
<1>1. ahead' = IF counter' >= sof_number' THEN counter' - sof_number'
               ELSE counter' + FrameNumbers - sof_number'
  BY DEF ahead, Distance
<1>2. counter' >= sof_number' /\ counter' - sof_number' = 0
  <2>1. \A n, m \in Nat : n = m => n >= m /\ n - m = 0
    OBVIOUS
  <2>2. counter' \in Nat
    BY TimingAssumption
  <2> QED
    BY <2>1, <2>2
<1> QED
  BY <1>1, <1>2

LEMMA AdvanceSInv ==
    ASSUME IInv, SInv, Advance
    PROVE  SInv'
<1>1. /\ UNCHANGED <<placement, speed, lock, sof_number, counter, idle, idle_saved, pc, left,
                     saved>>
      /\ idle_timer' = Less1(idle_timer) /\ timer' = Less1(timer) /\ busy' = Less1(busy)
      /\ age' = IF busy > 0 /\ speed = "Low" THEN 0 ELSE (age + 1) % Wrap
      /\ since' = AtMost(since + 1, 3 * Frame)
  BY DEF Advance, fixed
<1>2. Numbers'
  BY <1>1, TimingAssumption DEF SInv, Numbers, AtMost, Less1
<1>3. ASSUME speed = "Full" PROVE Running' /\ Loading'
  <2>1. ahead' = ahead /\ ahead \in Nat
    BY <1>1, DistanceType, TimingAssumption DEF ahead, Distance, SInv, Numbers
  <2>2. /\ age \in Nat /\ timer \in Nat /\ idle_timer \in Nat /\ idle_timer' \in Nat
        /\ Frame \in Nat \ {0} /\ LongestRun \in Nat
        /\ idle_timer' >= idle_timer - 1
    BY <1>1, TimingAssumption DEF IInv, Types, Less1, LongestRun, LongestAge
  <2>3. pc # "idle" => /\ timer > 0 /\ pc \in {"se0", "frame"} /\ timer' \in Nat
                       /\ timer' = timer - 1
    BY <1>1, <2>2, Waiting DEF IInv, Types, Locking, Less1
  <2>4. pc = "idle" \/ (pc = "frame" /\ left < RecoveryFrames) => age' = age + 1
    <3>1. SUFFICES ASSUME pc = "idle" \/ (pc = "frame" /\ left < RecoveryFrames)
                   PROVE  age < LongestAge
      BY <1>1, <1>3, <2>2, Unwrapped
    <3>2. CASE lock = "free"
      BY <3>2, Waiting, TimingAssumption DEF IInv, Types, Pacing, LongestAge
    <3>3. CASE lock = "transaction"
      BY <3>3, Waiting, TimingAssumption DEF IInv, Types, Pacing, LongestAge
    <3>4. CASE pc = "frame"
      BY <3>1, <3>4, TimingAssumption DEF IInv, Types, Pacing, LongestAge
    <3> QED
      BY <3>1, <3>2, <3>3, <3>4 DEF IInv, Types, Locking
  <2>5. PICK r \in Nat : r = Frame * ahead
    BY <2>1, OneMore
  <2>6. Within(r)
    BY <1>3, <2>5 DEF SInv, Running
  <2>7. \A a, b, i, j \in Nat : r <= a + i /\ b = a + 1 /\ j >= i - 1 => r <= b + j
    BY <2>5
  <2>8. \A t, u, c, i, j \in Nat :
           r + t <= c + i /\ t > 0 /\ u = t - 1 /\ j >= i - 1 => r + u <= c + j
    BY <2>5
  <2>9. pc = "idle" => r <= age' + idle_timer'
    <3>1. SUFFICES ASSUME pc = "idle" PROVE r <= age' + idle_timer'
      OBVIOUS
    <3>2. r <= age + idle_timer /\ age' = age + 1 /\ age' \in Nat
      BY <2>2, <2>4, <2>6, <3>1 DEF Within
    <3> QED
      BY <2>2, <2>7, <3>2
  <2>10. pc = "se0" => r + timer' <= LongestRun + idle_timer'
    <3>1. SUFFICES ASSUME pc = "se0" PROVE r + timer' <= LongestRun + idle_timer'
      OBVIOUS
    <3>2. r + timer <= LongestRun + idle_timer
      BY <2>6, <3>1 DEF Within
    <3> QED
      BY <2>2, <2>3, <2>8, <3>1, <3>2
  <2>11. ASSUME pc \in {"frame", "loaded"}
         PROVE  /\ left # RecoveryFrames
                /\ left = RecoveryFrames - 1 =>
                       r + timer' <= LongestRun + 2 * Frame + idle_timer'
                /\ left < RecoveryFrames - 1 => r <= age' + idle_timer'
    <3>1. left # RecoveryFrames
      BY <2>3, <2>11 DEF IInv, Pacing
    <3>2. CASE left = RecoveryFrames - 1
      <4>1. PICK c \in Nat : c = LongestRun + 2 * Frame
        BY <2>2
      <4>2. r + timer <= c + idle_timer
        BY <2>6, <2>11, <3>2, <4>1 DEF Within
      <4>3. r + timer' <= c + idle_timer'
        BY <2>2, <2>3, <2>8, <2>11, <4>2
      <4> QED
        BY <3>1, <3>2, <4>1, <4>3, TimingAssumption
    <3>3. CASE left < RecoveryFrames - 1
      <4>1. r <= age + idle_timer /\ age' = age + 1 /\ age' \in Nat
        BY <2>2, <2>3, <2>4, <2>6, <2>11, <3>3, TimingAssumption DEF Within, IInv, Types
      <4>2. r <= age' + idle_timer'
        BY <2>2, <2>7, <4>1
      <4> QED
        BY <3>1, <3>3, <4>2, TimingAssumption
    <3> QED
      BY <3>1, <3>2, <3>3
  <2>12. Running'
    BY <1>1, <2>1, <2>5, <2>9, <2>10, <2>11 DEF Running, Within
  <2>13. idle = "loaded" /\ pc # "idle" => FALSE
    <3>1. SUFFICES ASSUME idle = "loaded", pc # "idle" PROVE FALSE
      OBVIOUS
    <3>2. busy = 0 /\ pc # "loaded"
      BY <2>3, <3>1 DEF IInv, Types, Locking
    <3> QED
      BY <3>1, <3>2 DEF Advance, IdleReady, IdleRuns
  <2>14. Loading'
    BY <1>1, <1>3, <2>3, <2>13 DEF SInv, Loading
  <2> QED
    BY <2>12, <2>14
<1> QED
  BY <1>1, <1>2, <1>3 DEF SInv

LEMMA TickSInv ==
    ASSUME IInv, SInv, Enough, tick_load \/ tick
    PROVE  SInv'
<1>1. UNCHANGED <<placement, speed, lock, pc, timer, left, saved, busy>>
  BY DEF tick_load, tick, fixed, resetVars
<1>2. /\ age \in Nat /\ timer \in Nat /\ idle_timer \in 0 .. Frame /\ Frame \in Nat \ {0}
      /\ LongestRun \in Nat
  BY TimingAssumption DEF IInv, Types, LongestRun, LongestAge
<1>3. CASE tick_load
  <2>1. /\ idle' = "loaded" /\ idle_saved' = counter /\ idle_timer = 0
        /\ UNCHANGED <<age, since, sof_number, counter, idle_timer>>
    BY <1>3 DEF tick_load, busVars
  <2>2. Numbers'
    BY <1>1, <2>1 DEF SInv, Numbers
  <2>3. ahead' = ahead
    BY <2>1 DEF ahead, Distance
  <2>4. speed = "Full" => Running'
    BY <1>1, <2>1, <2>3 DEF SInv, Running, Within
  <2>5. speed = "Full" => Loading'
    BY <1>1, <2>1, <2>3 DEF SInv, Loading
  <2> QED
    BY <1>1, <2>2, <2>4, <2>5 DEF SInv
<1>4. CASE tick
  <2>1. /\ idle = "loaded" /\ idle' = "sleep" /\ idle_timer = 0 /\ idle_timer' = Frame
        /\ counter' = next_frame(idle_saved) /\ UNCHANGED idle_saved
        /\ IF lock = "free" THEN keepalive(counter') ELSE UNCHANGED busVars
    BY <1>4 DEF tick, SInv, Numbers
  <2>2. /\ counter' \in 0 .. FrameNumbers - 1
        /\ since' \in Nat /\ sof_number' \in 0 .. FrameNumbers - 1
    <3>1. counter' \in 0 .. FrameNumbers - 1
      BY <2>1, Stepped DEF SInv, Numbers
    <3>2. /\ since' = since \/ since' = 0
          /\ sof_number' = sof_number \/ sof_number' = counter'
      BY <2>1 DEF keepalive, busVars
    <3> QED
      BY <3>1, <3>2 DEF SInv, Numbers
  <2>3. Numbers'
    BY <1>1, <2>1, <2>2 DEF SInv, Numbers
  <2>4. ASSUME speed = "Full" PROVE Running' /\ Loading'
    <3>1. ahead \in Nat /\ ahead + 2 <= FrameNumbers
      BY <2>4, Room
    <3>2. \/ idle_saved = counter
          \/ counter' = counter /\ pc = "frame" /\ left < RecoveryFrames /\ timer > 0
      BY <2>1, <2>4 DEF SInv, Loading
    <3>3. CASE lock = "free" /\ Due
      <4>1. sof_number' = counter' /\ age' = 0 /\ pc = "idle"
        BY <2>1, <2>4, <3>3 DEF keepalive, IInv, Types, Locking
      <4>2. ahead' = 0 /\ Frame * ahead' = 0
        BY <1>2, <2>2, <4>1, NoDistance
      <4> QED
        BY <1>1, <1>2, <2>1, <4>1, <4>2 DEF Running, Within, Loading
    <3>4. CASE ~(lock = "free" /\ Due)
      <4>1. UNCHANGED <<age, sof_number>>
        BY <2>1, <3>4 DEF keepalive, busVars
      <4>2. idle_saved = counter => ahead' = ahead + 1
        <5>1. ahead + 1 < FrameNumbers
          BY <3>1, TimingAssumption
        <5>2. idle_saved = counter => Distance(counter') = ahead + 1
          BY <2>1, <5>1, Stepped DEF SInv, Numbers, ahead
        <5> QED
          BY <4>1, <5>2 DEF ahead, Distance
      <4>3. ahead' = ahead \/ ahead' = ahead + 1
        BY <3>2, <4>1, <4>2 DEF ahead, Distance
      <4>4. PICK r \in Nat : r = Frame * ahead
        BY <3>1, OneMore
      <4>5. PICK q \in Nat : q = Frame * ahead' /\ q <= r + Frame
        BY <1>2, <3>1, <4>3, <4>4, OneMore
      <4>6. Within(r)
        BY <2>4, <4>4 DEF SInv, Running
      <4>7. \A c \in Nat : r <= c + 0 => q <= c + Frame
        BY <1>2, <4>4, <4>5
      <4>8. \A c, t \in Nat : r + t <= c + 0 => q + t <= c + Frame
        BY <1>2, <4>4, <4>5
      <4>9. /\ pc = "idle" => q <= age + Frame
            /\ pc = "se0" => q + timer <= LongestRun + Frame
        BY <1>2, <2>1, <4>6, <4>7, <4>8 DEF Within
      <4>10. pc \in {"frame", "loaded"} =>
               /\ left = RecoveryFrames => q <= LongestRun + Frame
               /\ left = RecoveryFrames - 1 => q + timer <= LongestRun + 2 * Frame + Frame
               /\ left < RecoveryFrames - 1 => q <= age + Frame
        BY <1>2, <2>1, <4>6, <4>7, <4>8 DEF Within
      <4>11. Running'
        BY <1>1, <2>1, <4>1, <4>5, <4>9, <4>10 DEF Running, Within
      <4>12. pc = "loaded" => saved = counter /\ idle_saved = counter
        BY <2>1, <2>4, <3>2 DEF SInv, Loading
      <4>13. Loading'
        BY <1>1, <1>2, <2>1, <3>1, <4>2, <4>12 DEF Loading
      <4> QED
        BY <4>11, <4>13
    <3> QED
      BY <3>3, <3>4
  <2> QED
    BY <1>1, <2>3, <2>4 DEF SInv
<1> QED
  BY <1>3, <1>4

LEMMA TransactionSInv ==
    ASSUME IInv, SInv, transaction \/ transaction_done
    PROVE  SInv'
<1>1. UNCHANGED <<placement, speed, since, sof_number, counter, idle, idle_timer, idle_saved,
                  pc, timer, left, saved>>
  BY DEF transaction, transaction_done, fixed, idleVars, resetVars, busVars
<1>2. ahead' = ahead /\ Numbers'
  BY <1>1 DEF ahead, Distance, SInv, Numbers
<1>3. speed = "Full" => UNCHANGED age
  BY DEF transaction, transaction_done, busVars
<1>4. ASSUME speed = "Full" PROVE Running' /\ Loading'
  BY <1>1, <1>2, <1>3, <1>4 DEF SInv, Running, Within, Loading
<1> QED
  BY <1>1, <1>2, <1>4 DEF SInv

LEMMA ResetSInv ==
    ASSUME IInv, SInv, drive_reset_se0 \/ release_reset \/ reset_done
    PROVE  SInv'
<1>1. UNCHANGED <<placement, speed, age, since, sof_number, counter, idle, idle_timer,
                  idle_saved, saved, busy>>
  BY DEF drive_reset_se0, release_reset, reset_done, fixed, idleVars, busVars
<1>2. ahead' = ahead /\ Numbers'
  BY <1>1 DEF ahead, Distance, SInv, Numbers
<1>3. ASSUME speed = "Full" PROVE Running' /\ Loading'
  <2>1. /\ ahead \in Nat /\ age \in Nat /\ timer \in Nat /\ idle_timer \in Nat
        /\ ResetTicks \in Nat /\ LongestAge \in Nat
        /\ RecoveryFrames \in Nat /\ RecoveryFrames >= 2
    BY DistanceType, TimingAssumption DEF SInv, Numbers, ahead, IInv, Types, LongestAge
  <2>2. PICK r \in Nat : r = Frame * ahead /\ r = Frame * ahead'
    BY <1>2, <2>1, OneMore
  <2>3. Within(r)
    BY <1>3, <2>2 DEF SInv, Running
  <2>4. CASE drive_reset_se0
    <3>1. pc = "idle" /\ pc' = "se0" /\ timer' = ResetTicks /\ lock = "free"
      BY <2>4 DEF drive_reset_se0
    <3>2. r <= age + idle_timer /\ age <= LongestAge
      BY <2>1, <2>3, <3>1 DEF Within, IInv, Pacing
    <3>3. r + ResetTicks <= LongestRun + idle_timer
      BY <2>1, <3>2 DEF LongestRun
    <3> QED
      BY <1>1, <1>2, <1>3, <2>2, <3>1, <3>3 DEF SInv, Running, Within, Loading
  <2>5. CASE release_reset
    <3>1. /\ pc = "se0" /\ timer = 0 /\ pc' = "frame" /\ left' = RecoveryFrames
          /\ UNCHANGED timer
      BY <2>5 DEF release_reset
    <3>2. r <= LongestRun + idle_timer
      BY <2>1, <2>3, <3>1 DEF Within, LongestRun
    <3> QED
      BY <1>1, <1>2, <1>3, <2>1, <2>2, <3>1, <3>2 DEF SInv, Running, Within, Loading
  <2>6. CASE reset_done
    <3>1. pc = "frame" /\ pc' = "idle" /\ timer = 0 /\ left < RecoveryFrames - 1
      BY <2>1, <2>6 DEF reset_done
    <3>2. r <= age + idle_timer
      BY <2>3, <3>1 DEF Within
    <3> QED
      BY <1>1, <1>2, <1>3, <2>2, <3>1, <3>2 DEF SInv, Running, Within, Loading
  <2> QED
    BY <2>4, <2>5, <2>6
<1> QED
  BY <1>1, <1>2, <1>3 DEF SInv

LEMMA RecoverySInv ==
    ASSUME IInv, SInv, Enough, recovery_load \/ recovery_frame
    PROVE  SInv'
<1>1. UNCHANGED <<placement, speed, lock, idle, idle_timer, idle_saved, busy>>
  BY DEF recovery_load, recovery_frame, fixed, idleVars
<1>2. CASE recovery_load
  <2>1. /\ pc = "frame" /\ pc' = "loaded" /\ timer = 0 /\ saved' = counter
        /\ UNCHANGED <<age, since, sof_number, counter, timer, left>>
    BY <1>2 DEF recovery_load, busVars
  <2>2. ahead' = ahead /\ Numbers'
    BY <1>1, <2>1 DEF ahead, Distance, SInv, Numbers
  <2>3. speed = "Full" => Running' /\ Loading'
    BY <1>1, <2>1, <2>2 DEF SInv, Running, Within, Loading
  <2> QED
    BY <1>1, <2>2, <2>3 DEF SInv
<1>3. CASE recovery_frame
  <2>1. /\ pc = "loaded" /\ pc' = "frame" /\ timer' = Frame /\ left' = left - 1
        /\ counter' = next_frame(saved) /\ keepalive(counter') /\ UNCHANGED saved
    BY <1>3 DEF recovery_frame
  <2>2. counter' \in 0 .. FrameNumbers - 1
    BY <2>1, Stepped DEF SInv, Numbers
  <2>3. /\ timer = 0 /\ age \in Nat /\ idle_timer \in Nat /\ Frame \in Nat \ {0}
        /\ left \in 1 .. RecoveryFrames /\ LongestRun \in Nat
    BY <2>1, TimingAssumption DEF IInv, Types, Pacing, LongestRun, LongestAge
  <2>4. /\ since' = since \/ since' = 0
        /\ sof_number' = sof_number \/ sof_number' = counter'
    BY <2>1 DEF keepalive, busVars
  <2>5. Numbers'
    BY <1>1, <2>1, <2>2, <2>4 DEF SInv, Numbers
  <2>6. ASSUME speed = "Full" PROVE Running' /\ Loading'
    <3>1. ASSUME Due PROVE Running'
      <4>1. sof_number' = counter' /\ age' = 0
        BY <2>1, <2>6, <3>1 DEF keepalive
      <4>2. ahead' = 0 /\ Frame * ahead' = 0
        BY <2>2, <2>3, <4>1, NoDistance
      <4>3. left' # RecoveryFrames
        BY <2>1, <2>3, TimingAssumption
      <4> QED
        BY <1>1, <2>1, <2>3, <4>1, <4>2, <4>3 DEF Running, Within
    <3>2. ASSUME ~Due PROVE Running'
      <4>1. UNCHANGED <<age, sof_number>>
        BY <2>1, <3>2 DEF keepalive, busVars
      <4>2. left = RecoveryFrames
        BY <2>1, <2>3, <3>2, TimingAssumption DEF Due, IInv, Types, Pacing
      <4>3. ahead \in Nat /\ ahead + 1 < FrameNumbers
        BY <2>6, Room, TimingAssumption
      <4>4. saved = counter \/ next_frame(saved) = counter
        BY <2>1, <2>6 DEF SInv, Loading
      <4>5. ahead' = ahead \/ ahead' = ahead + 1
        <5>1. saved = counter => Distance(counter') = ahead + 1
          BY <2>1, <4>3, Stepped DEF SInv, Numbers, ahead
        <5> QED
          BY <2>1, <4>1, <4>4, <5>1 DEF ahead, Distance
      <4>6. PICK r \in Nat : r = Frame * ahead
        BY <4>3, OneMore
      <4>7. PICK q \in Nat : q = Frame * ahead' /\ q <= r + Frame
        BY <2>3, <4>3, <4>5, <4>6, OneMore
      <4>8. r <= LongestRun + idle_timer
        BY <2>1, <2>6, <4>2, <4>6 DEF SInv, Running, Within
      <4>9. q + Frame <= LongestRun + 2 * Frame + idle_timer
        BY <2>3, <4>6, <4>7, <4>8
      <4>10. left' = RecoveryFrames - 1 /\ left' # RecoveryFrames
             /\ ~(left' < RecoveryFrames - 1)
        BY <2>1, <4>2, TimingAssumption
      <4> QED
        BY <1>1, <2>1, <4>7, <4>9, <4>10 DEF Running, Within
    <3>3. idle = "loaded" => idle_saved = counter /\ saved = counter
      BY <2>1, <2>6 DEF SInv, Loading
    <3>4. left' < RecoveryFrames /\ timer' > 0
      BY <2>1, <2>3, TimingAssumption
    <3>5. Loading'
      BY <1>1, <2>1, <3>3, <3>4 DEF Loading
    <3> QED
      BY <3>1, <3>2, <3>5
  <2> QED
    BY <1>1, <2>5, <2>6 DEF SInv
<1> QED
  BY <1>2, <1>3

LEMMA StutterSInv ==
    ASSUME SInv, UNCHANGED vars
    PROVE  SInv'
<1>1. UNCHANGED <<speed, lock, age, since, sof_number, counter, idle, idle_timer, idle_saved,
                  pc, timer, left, saved, busy>>
  BY DEF vars, fixed, busVars, idleVars, resetVars
<1>2. ahead' = ahead
  BY <1>1 DEF ahead, Distance
<1> QED
  BY <1>1, <1>2 DEF SInv, Numbers, Running, Within, Loading

(* A step that sends an SOF sends another number than the last. *)
LEMMA SofStep ==
    ASSUME IInv, SInv, Enough, [Next]_vars, since > 0, since' = 0
    PROVE  sof_number' # sof_number
<1>1. CASE tick
  <2>1. /\ idle = "loaded" /\ counter' = next_frame(idle_saved)
        /\ lock = "free" /\ keepalive(counter')
    BY <1>1 DEF tick, busVars
  <2>2. speed = "Full" /\ sof_number' = counter' /\ pc = "idle"
    BY <2>1 DEF keepalive, busVars, IInv, Types, Locking
  <2>3. idle_saved = counter
    BY <2>1, <2>2 DEF SInv, Loading
  <2>4. ahead \in Nat /\ ahead + 1 < FrameNumbers
    BY <2>2, Room, TimingAssumption
  <2> QED
    BY <2>1, <2>2, <2>3, <2>4, Stepped DEF SInv, Numbers, ahead
<1>2. CASE recovery_frame
  <2>1. pc = "loaded" /\ counter' = next_frame(saved) /\ keepalive(counter')
    BY <1>2 DEF recovery_frame
  <2>2. speed = "Full" /\ sof_number' = counter'
    BY <2>1 DEF keepalive, busVars
  <2>3. ahead \in Nat /\ ahead + 1 < FrameNumbers
    BY <2>2, Room, TimingAssumption
  <2>4. CASE saved = counter
    BY <2>1, <2>2, <2>3, <2>4, Stepped DEF SInv, Numbers, ahead
  <2>5. CASE next_frame(saved) = counter /\ ahead >= 1
    BY <2>1, <2>2, <2>5, DistanceType DEF SInv, Numbers, ahead
  <2> QED
    BY <2>1, <2>2, <2>4, <2>5 DEF SInv, Loading
<1>3. CASE Advance
  BY <1>3, TimingAssumption DEF Advance, SInv, Numbers, AtMost
<1>4. CASE \/ tick_load \/ transaction \/ transaction_done \/ drive_reset_se0 \/ release_reset
           \/ recovery_load \/ reset_done \/ UNCHANGED vars
  <2>1. since' = since
    BY <1>4 DEF tick_load, transaction, transaction_done, drive_reset_se0, release_reset,
                recovery_load, reset_done, busVars, vars
  <2> QED
    BY <2>1 DEF SInv, Numbers
<1> QED
  BY <1>1, <1>2, <1>3, <1>4 DEF Next

(* The counter that idle_task and bus_reset share without a lock never puts*)
(* one frame number on the wire twice in a row, whatever updates are lost, *)
(* as long as the ticks that send nothing are fewer than its numbers.      *)
THEOREM SofNumbersAdvance ==
    ASSUME Enough
    PROVE  Spec => SofAdvances
<1>1. IInv /\ SInv /\ [Next]_vars => SInv'
  BY AdvanceSInv, TickSInv, TransactionSInv, ResetSInv, RecoverySInv, StutterSInv DEF Next
<1>2. IInv /\ SInv /\ [Next]_vars => [since > 0 /\ since' = 0 => sof_number' # sof_number]_vars
  BY SofStep
<1> QED
  BY Inductive, InitSInv, <1>1, <1>2, PTL DEF Spec, SofAdvances
=============================================================================
