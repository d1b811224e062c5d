-------------------------- MODULE SharedBus_proofs --------------------------
(***************************************************************************)
(* What the mutex of embassy.rs and the reset that keeps it guarantee, for *)
(* every set of pipes, every debounce, every number of recovery frames and *)
(* of dropped futures.                                                     *)
(***************************************************************************)
EXTENDS SharedBus, TLAPS

InReset == pc \in {"se0", "recovery"}

Types ==
    /\ attached \in BOOLEAN /\ resetting \in BOOLEAN
    /\ cut \in BOOLEAN /\ lost \in BOOLEAN
    /\ plugged \in {"None", "Full", "Low"}
    /\ left \in Nat /\ debounce \in Nat /\ seen \in Nat

(* Whoever is in a reset holds the mutex, and nobody else does. *)
Locking ==
    /\ InReset => resetting /\ lock = "controller"
    /\ ~InReset => ~resetting /\ lock = "free"

(* The call that found a device has set attached and will report it. *)
Finding ==
    /\ pc \in {"poll", "sleep"} => call = "event"
    /\ pc = "reset" => call = "reset"
    /\ InReset /\ call = "event" => attached

(* What a reset has done to the pins at each of its awaits.  If the first  *)
(* recovery frame found nothing due, the second will: its stamp is no      *)
(* longer an earlier device's.                                             *)
Driving ==
    /\ pc = "reset" \/ InReset => attached
    /\ pc = "se0" => drive = "SE0"
    /\ pc = "recovery" =>
         /\ left <= RecoveryFrames
         /\ left < RecoveryFrames - 1 => drive = "released"
         /\ left = RecoveryFrames - 1 => drive = "released" \/ stamp # "old"

(* An empty port is not driven and counts no more than it has seen. *)
Counting ==
    ~attached => drive = "released" /\ debounce < DebounceFrames /\ debounce <= seen

IInv ==
    /\ Types /\ Locking /\ Finding
    /\ NoTransactionInReset /\ NoEventLost
    /\ ~ResetsDetached => Driving /\ BusReleased /\ Counting /\ AttachReal

LEMMA InitIInv == Init => IInv
<1> SUFFICES ASSUME Init PROVE IInv
  OBVIOUS
<1>1. Types
  BY BusAssumption DEF Init, Types
<1>2. Locking /\ Finding
  BY DEF Init, Locking, Finding, InReset
<1>3. NoTransactionInReset /\ NoEventLost
  BY DEF Init, NoTransactionInReset, NoEventLost
<1>4. Driving /\ BusReleased /\ Counting /\ AttachReal
  BY BusAssumption DEF Init, Driving, BusReleased, Counting, AttachReal, InReset
<1> QED
  BY <1>1, <1>2, <1>3, <1>4 DEF IInv

(* A level that is not the host's own is a device's. *)
LEMMA SampleReal ==
    ASSUME plugged \in {"None", "Full", "Low"}, drive \in {"released", "SE0"},
           Port!detect_speed # "None"
    PROVE  plugged # "None"
BY DEF Port!detect_speed, Port!NoSpeed, Driven

(* The accumulator moves by one, and down without a device. *)
LEMMA DebouncedStep ==
    ASSUME Types, NEW s
    PROVE  /\ Port!Debounced(s) \in Nat
           /\ s # "None" => Port!Debounced(s) <= debounce + 1
           /\ s = "None" => Port!Debounced(s) <= debounce
           /\ s = "None" /\ debounce < DebounceFrames => Port!Debounced(s) < DebounceFrames
BY BusAssumption DEF Types, Port!Debounced, Port!NoSpeed, Port!AtMost

(* One sample of poll_device_event. *)
LEMMA PollIInv ==
    ASSUME IInv, poll_device_event
    PROVE  IInv'
<1> DEFINE s == Port!detect_speed
           d == Port!Debounced(s)
<1>1. Types /\ pc = "poll" /\ lock = "free" /\ ~InReset /\ call = "event" /\ ~resetting
  BY DEF IInv, poll_device_event, Locking, Finding, InReset, Types
<1>2. /\ d \in Nat
      /\ s # "None" => d <= debounce + 1
      /\ s = "None" => d <= debounce
      /\ s = "None" /\ debounce < DebounceFrames => d < DebounceFrames
  BY <1>1, DebouncedStep
<1>3. /\ debounce' = d
      /\ seen' = IF attached /\ ~attached' THEN 0
                 ELSE IF plugged # "None" THEN AtMost(seen + 1, DebounceFrames) ELSE seen
      /\ UNCHANGED <<plugged, call, left, pipe>>
      /\ cut' = (cut /\ drive' # "released") /\ lost' = (lost /\ told' = told)
  BY DEF poll_device_event, Forgiven
<1>4. ~ResetsDetached /\ ~attached /\ s # "None" => plugged # "None"
  BY <1>1, SampleReal DEF IInv, Counting, Types
<1>5. ASSUME PollConnected
      PROVE  /\ ~attached /\ d >= DebounceFrames /\ s # "None"
             /\ attached' = TRUE /\ drive' = "SE0"
             /\ lock' = "controller" /\ pc' = "se0" /\ resetting' = TRUE
             /\ traffic' = "reset" /\ told' = told
  BY <1>5, Zenon DEF PollConnected, drive_reset_se0, ResetLock, Port!Attaches, Port!NoSpeed
<1>6. ASSUME PollDisconnected
      PROVE  /\ attached /\ d = 0
             /\ attached' = FALSE /\ drive' = "released"
             /\ pc' = "idle" /\ told' = "Disconnected" /\ traffic' = "none"
             /\ UNCHANGED <<lock, resetting>>
  BY <1>6, Zenon DEF PollDisconnected, Port!Detaches
<1>7. ASSUME PollNothing
      PROVE  /\ attached \/ d < DebounceFrames \/ s = "None"
             /\ pc' = "sleep" /\ traffic' = "none"
             /\ UNCHANGED <<drive, attached, lock, told, resetting>>
  <2>1. ~(~attached /\ d >= DebounceFrames /\ s # "None")
    BY <1>7, Zenon DEF PollNothing, Port!Attaches, Port!NoSpeed
  <2>2. d >= DebounceFrames \/ d < DebounceFrames
    BY <1>2, BusAssumption
  <2> QED
    BY <1>7, <2>1, <2>2, Zenon DEF PollNothing
<1>8. PollConnected \/ PollDisconnected \/ PollNothing
  BY DEF poll_device_event
<1> HIDE DEF s, d
<1>9. CASE PollConnected
  <2>1. Types'
    BY <1>1, <1>2, <1>3, <1>5, <1>9, BusAssumption DEF Types, AtMost
  <2>2. Locking' /\ Finding' /\ NoTransactionInReset'
    BY <1>1, <1>3, <1>5, <1>9 DEF Locking, Finding, NoTransactionInReset, InReset
  <2>3. NoEventLost' /\ Driving' /\ BusReleased'
    BY <1>1, <1>3, <1>5, <1>9 DEF NoEventLost, Driving, BusReleased, InReset
  <2>4. ASSUME ~ResetsDetached PROVE Counting' /\ AttachReal'
    BY <1>1, <1>2, <1>3, <1>4, <1>5, <1>9, <2>4, BusAssumption
       DEF IInv, Counting, AttachReal, Types, AtMost
  <2> QED
    BY <2>1, <2>2, <2>3, <2>4 DEF IInv
<1>10. CASE PollDisconnected
  <2>1. Types'
    BY <1>1, <1>2, <1>3, <1>6, <1>10, BusAssumption DEF Types, AtMost
  <2>2. Locking' /\ Finding' /\ NoTransactionInReset'
    BY <1>1, <1>3, <1>6, <1>10 DEF IInv, Locking, Finding, NoTransactionInReset, InReset
  <2>3. NoEventLost' /\ Driving' /\ BusReleased'
    BY <1>1, <1>3, <1>6, <1>10 DEF NoEventLost, Driving, BusReleased, InReset
  <2>4. Counting' /\ AttachReal'
    BY <1>1, <1>2, <1>3, <1>6, <1>10, BusAssumption DEF Counting, AttachReal
  <2> QED
    BY <2>1, <2>2, <2>3, <2>4 DEF IInv
<1>11. CASE PollNothing
  <2>1. Types'
    BY <1>1, <1>2, <1>3, <1>7, <1>11, BusAssumption DEF Types, AtMost
  <2>2. Locking' /\ Finding' /\ NoTransactionInReset' /\ NoEventLost'
    BY <1>1, <1>3, <1>7, <1>11
       DEF IInv, Locking, Finding, NoTransactionInReset, NoEventLost, InReset, Types
  <2>3. ASSUME ~ResetsDetached PROVE Driving' /\ BusReleased'
    BY <1>1, <1>3, <1>7, <1>11, <2>3 DEF IInv, Driving, BusReleased, InReset, Types
  <2>4. ASSUME ~ResetsDetached PROVE Counting' /\ AttachReal'
    BY <1>1, <1>2, <1>3, <1>4, <1>7, <1>11, <2>4, BusAssumption
       DEF IInv, Counting, AttachReal, Types, AtMost
  <2> QED
    BY <2>1, <2>2, <2>3, <2>4 DEF IInv
<1> QED
  BY <1>8, <1>9, <1>10, <1>11

(* The socket, the idle task and the pipes: nobody but a pipe that got the *)
(* mutex talks, and packets leave the pins released.                       *)
LEMMA OthersIInv ==
    ASSUME IInv, Plug \/ Elapse \/ tick \/ \E p \in Pipes : Pipe(p)
    PROVE  IInv'
<1>1. /\ UNCHANGED <<attached, debounce, lock, pc, call, left, told, resetting, seen>>
      /\ cut' = (cut /\ drive' # "released") /\ lost' = (lost /\ told' = told)
  BY DEF Plug, Elapse, tick, keepalive, keepalive_sent, keepalive_not_due,
         keepalive_detached, Pipe, request, transaction, retry, Forgiven, port, tasks
<1>2. plugged' \in {"None", "Full", "Low"}
  BY DEF Plug, Elapse, tick, keepalive, keepalive_sent, keepalive_not_due,
         keepalive_detached, Pipe, request, transaction, retry, Forgiven, IInv, Types
<1>3. traffic' = "transaction" => ~resetting
  BY DEF Plug, Elapse, tick, keepalive, keepalive_sent, keepalive_not_due,
         keepalive_detached, Pipe, request, transaction, retry, IInv, Locking
<1>4. \/ drive' = drive /\ (stamp' = stamp \/ stamp' # "old")
      \/ drive' = "released" /\ lock = "free"
  BY DEF Plug, Elapse, tick, keepalive, keepalive_sent, keepalive_not_due,
         keepalive_detached, Pipe, request, transaction, retry, AfterPacket, port
<1>5. Types'
  BY <1>1, <1>2 DEF IInv, Types
<1>6. Locking' /\ Finding' /\ NoTransactionInReset' /\ NoEventLost'
  BY <1>1, <1>3 DEF IInv, Locking, Finding, NoTransactionInReset, NoEventLost, InReset, Types
<1>7. ASSUME ~ResetsDetached PROVE Driving' /\ BusReleased'
  BY <1>1, <1>4, <1>7 DEF IInv, Driving, BusReleased, InReset, Locking, Types
<1>8. ASSUME ~ResetsDetached PROVE Counting' /\ AttachReal'
  BY <1>1, <1>4, <1>8 DEF IInv, Counting, AttachReal
<1> QED
  BY <1>5, <1>6, <1>7, <1>8 DEF IInv

(* The calls of the controller's caller, and its waits. *)
LEMMA CallIInv ==
    ASSUME IInv, wait_for_device_event \/ wait_for_next_frame \/ bus_reset
    PROVE  IInv'
<1>1. /\ UNCHANGED <<plugged, drive, attached, debounce, lock, left, told, resetting, seen>>
      /\ cut' = (cut /\ drive' # "released") /\ lost' = (lost /\ told' = told)
      /\ traffic' = "none"
  BY DEF wait_for_device_event, wait_for_next_frame, bus_reset, Forgiven, port
<1>2. ~InReset /\ ~InReset'
  BY DEF wait_for_device_event, wait_for_next_frame, bus_reset, InReset
<1>3. /\ pc' \in {"poll", "sleep"} => call' = "event"
      /\ pc' = "reset" => call' = "reset"
  BY DEF wait_for_device_event, wait_for_next_frame, bus_reset, IInv, Finding
<1>4. ~ResetsDetached /\ pc' = "reset" => attached
  BY DEF wait_for_device_event, wait_for_next_frame, bus_reset
<1>5. Types' /\ Locking' /\ Finding' /\ NoTransactionInReset' /\ NoEventLost'
  BY <1>1, <1>2, <1>3
     DEF IInv, Types, Locking, Finding, NoTransactionInReset, NoEventLost, InReset
<1>6. ASSUME ~ResetsDetached PROVE Driving' /\ BusReleased'
  BY <1>1, <1>2, <1>4, <1>6 DEF IInv, Driving, BusReleased, InReset, Types
<1>7. ASSUME ~ResetsDetached PROVE Counting' /\ AttachReal'
  BY <1>1, <1>7 DEF IInv, Counting, AttachReal
<1> QED
  BY <1>5, <1>6, <1>7 DEF IInv

(* The steps of a reset, from its SE0 to its last recovery frame. *)
LEMMA ResetIInv ==
    ASSUME IInv, bus_reset_locked \/ release_reset \/ recovery_frame
    PROVE  IInv'
<1>1. /\ UNCHANGED <<plugged, attached, debounce, call, told, seen>>
      /\ cut' = (cut /\ drive' # "released") /\ lost' = (lost /\ told' = told)
  BY DEF bus_reset_locked, release_reset, recovery_frame, keepalive, keepalive_sent,
         keepalive_not_due, keepalive_detached, Forgiven
<1>2. InReset' /\ resetting' = TRUE /\ lock' = "controller" /\ traffic' # "transaction"
  <2>1. CASE bus_reset_locked
    BY <2>1 DEF bus_reset_locked, drive_reset_se0, ResetLock, InReset
  <2>2. CASE release_reset \/ recovery_frame
    BY <2>2 DEF release_reset, recovery_frame, keepalive, keepalive_sent, keepalive_not_due,
                keepalive_detached, InReset, IInv, Types, Locking
  <2> QED
    BY <2>1, <2>2
<1>3. left' \in Nat
  BY BusAssumption DEF bus_reset_locked, release_reset, recovery_frame, IInv, Types
<1>4. call = "event" => attached
  <2>1. CASE bus_reset_locked
    BY <2>1 DEF bus_reset_locked, IInv, Finding
  <2>2. CASE release_reset \/ recovery_frame
    BY <2>2 DEF release_reset, recovery_frame, IInv, Finding, InReset
  <2> QED
    BY <2>1, <2>2
<1>5. Types' /\ Locking' /\ Finding' /\ NoTransactionInReset'
  BY <1>1, <1>2, <1>3, <1>4 DEF IInv, Types, Locking, Finding, NoTransactionInReset, InReset
<1>6. NoEventLost'
  BY <1>1 DEF IInv, NoEventLost, InReset, bus_reset_locked, release_reset, recovery_frame, Types
<1>7. ASSUME ~ResetsDetached PROVE Driving'
  <2>1. attached
    BY <1>7 DEF IInv, Driving, InReset, bus_reset_locked, release_reset, recovery_frame
  <2>2. CASE bus_reset_locked
    BY <1>1, <2>1, <2>2 DEF bus_reset_locked, drive_reset_se0, Driving, InReset
  <2>3. CASE release_reset
    BY <1>1, <2>1, <2>3, BusAssumption DEF release_reset, Driving, InReset
  <2>4. CASE recovery_frame
    <3>1. /\ pc = "recovery" /\ pc' = "recovery" /\ left \in Nat /\ left' = left - 1 /\ left > 0
          /\ left <= RecoveryFrames
          /\ left < RecoveryFrames - 1 => drive = "released"
          /\ left = RecoveryFrames - 1 => drive = "released" \/ stamp # "old"
      BY <1>7, <2>4 DEF recovery_frame, IInv, Types, Driving
    <3>2. \/ drive' = "released"
          \/ drive' = drive /\ stamp = "old" /\ stamp' = "recent"
      BY <2>1, <2>4 DEF recovery_frame, keepalive, keepalive_sent, keepalive_not_due,
                        keepalive_detached, AfterPacket
    <3>3. drive' = "released" \/ (drive' = drive /\ stamp' # "old")
      BY <3>2
    <3>4. left' < RecoveryFrames - 1 => drive' = "released"
      BY <3>1, <3>2, BusAssumption
    <3> QED
      BY <1>1, <2>1, <3>1, <3>3, <3>4, BusAssumption DEF Driving, InReset
  <2> QED
    BY <2>2, <2>3, <2>4
<1>8. ASSUME ~ResetsDetached PROVE BusReleased' /\ Counting' /\ AttachReal'
  <2>1. attached
    BY <1>8 DEF IInv, Driving, InReset, bus_reset_locked, release_reset, recovery_frame
  <2> QED
    BY <1>1, <1>2, <1>8, <2>1 DEF IInv, BusReleased, Counting, AttachReal
<1> QED
  BY <1>5, <1>6, <1>7, <1>8 DEF IInv

LEMMA DoneIInv ==
    ASSUME IInv, reset_done
    PROVE  IInv'
<1>1. /\ UNCHANGED <<plugged, drive, attached, debounce, call, left, seen>>
      /\ cut' = (cut /\ drive' # "released") /\ lost' = (lost /\ told' = told)
      /\ pc = "recovery" /\ left = 0
      /\ pc' = "idle" /\ lock' = "free" /\ resetting' = FALSE /\ traffic' = "none"
      /\ told' = IF call = "event" THEN "Connected" ELSE told
  BY DEF reset_done, Forgiven, Return, Unlock, port
<1>2. Types' /\ Locking' /\ Finding' /\ NoTransactionInReset'
  BY <1>1 DEF IInv, Types, Locking, Finding, NoTransactionInReset, InReset
<1>3. NoEventLost'
  BY <1>1 DEF IInv, Finding, NoEventLost, InReset, Types
<1>4. ASSUME ~ResetsDetached PROVE Driving' /\ BusReleased' /\ Counting' /\ AttachReal'
  BY <1>1, <1>4, BusAssumption
     DEF IInv, Driving, BusReleased, Counting, AttachReal, InReset
<1> QED
  BY <1>2, <1>3, <1>4 DEF IInv

LEMMA DropIInv ==
    ASSUME IInv, Drop
    PROVE  IInv'
<1>1. /\ UNCHANGED <<plugged, drive, stamp, attached, debounce, call, left, told, seen>>
      /\ pc = "recovery" => left < RecoveryFrames
      /\ pc' = "idle" /\ lock' = "free" /\ resetting' = FALSE /\ traffic' = "none"
      /\ cut' = ((cut \/ CutShort) /\ drive # "released")
      /\ lost' = (lost \/ (call = "event" /\ pc \in {"se0", "recovery"}))
  BY DEF Drop, DroppedLock, port, IInv, Locking, InReset
<1>2. Types' /\ Locking' /\ Finding' /\ NoTransactionInReset'
  BY <1>1 DEF IInv, Types, Locking, Finding, NoTransactionInReset, InReset
<1>3. NoEventLost'
  BY <1>1 DEF IInv, NoEventLost, InReset, Types
<1>4. ASSUME ~ResetsDetached PROVE Driving' /\ BusReleased' /\ Counting' /\ AttachReal'
  <2>1. ASSUME drive # "released" PROVE (cut \/ CutShort) /\ attached
    <3>1. CASE InReset
      BY <1>1, <1>4, <2>1, <3>1, BusAssumption DEF IInv, Driving, Types, CutShort, InReset
    <3>2. CASE ~InReset
      BY <1>4, <2>1, <3>2 DEF IInv, BusReleased, Locking
    <3> QED
      BY <3>1, <3>2
  <2>2. Driving' /\ BusReleased'
    BY <1>1, <2>1 DEF Driving, BusReleased, InReset
  <2> QED
    BY <1>1, <1>4, <2>2 DEF IInv, Counting, AttachReal
<1> QED
  BY <1>2, <1>3, <1>4 DEF IInv

LEMMA StutterIInv ==
    ASSUME IInv, UNCHANGED vars
    PROVE  IInv'
<1>1. UNCHANGED <<plugged, drive, stamp, attached, debounce, lock, pc, call, left, told,
                  resetting, traffic, seen, cut, lost>>
  BY DEF vars, port, tasks, dropped
<1> QED
  BY <1>1 DEF IInv, Types, Locking, Finding, NoTransactionInReset, NoEventLost, Driving,
              BusReleased, Counting, AttachReal, InReset

(* The mutex, the pins and the news of an attach fit together at every     *)
(* await of the controller, whoever else runs there.                       *)
THEOREM Inductive == Spec => []IInv
<1>1. IInv /\ [Next]_vars => IInv'
  BY OthersIInv, CallIInv, PollIInv, ResetIInv, DoneIInv, DropIInv, StutterIInv
     DEF Next, Controller
<1> QED
  BY InitIInv, <1>1, PTL DEF Spec

(* From the SE0 of a reset to its last recovery frame no pipe talks to the *)
(* device (bus_reset in embassy.rs and bus.rs).                            *)
THEOREM ResetUndisturbed == Spec => []NoTransactionInReset
<1>1. IInv => NoTransactionInReset
  BY DEF IInv
<1> QED
  BY Inductive, <1>1, PTL

(* An attach or a detach is told to the caller, but for the call that was  *)
(* dropped while it reset the device (wait_for_device_event).              *)
THEOREM EventsTold == Spec => []NoEventLost
<1>1. IInv => NoEventLost
  BY DEF IInv
<1> QED
  BY Inductive, <1>1, PTL

(* The pins are released whenever the mutex is free, but for the SE0 or the*)
(* J of a reset dropped before its second keep-alive, if no one resets an  *)
(* empty port: wherever the first keep-alive stood, whatever the age of the*)
(* stamp it found (keepalive and bus_reset in bus.rs).                     *)
THEOREM PinsReleased ==
    ASSUME ~ResetsDetached
    PROVE  Spec => []BusReleased
<1>1. IInv => BusReleased
  BY DEF IInv
<1> QED
  BY Inductive, <1>1, PTL

(* Then no level of the host's own is ever counted as a device             *)
(* (poll_device_event).                                                    *)
THEOREM AttachesReal ==
    ASSUME ~ResetsDetached
    PROVE  Spec => []AttachReal
<1>1. IInv => AttachReal
  BY DEF IInv
<1> QED
  BY Inductive, <1>1, PTL
=============================================================================
