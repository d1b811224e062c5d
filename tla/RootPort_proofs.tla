-------------------------- MODULE RootPort_proofs --------------------------
(***************************************************************************)
(* What the debounce of the root port guarantees for every DEBOUNCE_FRAMES *)
(* and DEBOUNCE_CAP with 0 < DEBOUNCE_FRAMES <= DEBOUNCE_CAP.              *)
(***************************************************************************)
EXTENDS RootPort, TLAPS

(* The lines say Full, Low or nothing. *)
LEMMA DetectType ==
    ASSUME TypeOK
    PROVE  detect_speed \in Speed \cup {NoSpeed} /\ NoSpeed \notin Speed
BY DEF TypeOK, detect_speed, Speed, NoSpeed

(* One sample moves the accumulator by one, within 0 .. DEBOUNCE_CAP. *)
LEMMA DebouncedStep ==
    ASSUME TypeOK, NEW s \in Speed \cup {NoSpeed}
    PROVE  /\ Debounced(s) \in 0 .. DebounceCap
           /\ s # NoSpeed => Debounced(s) = AtMost(debounce + 1, DebounceCap)
           /\ s = NoSpeed => Debounced(s) = IF debounce > 0 THEN debounce - 1 ELSE 0
BY DebounceAssumption DEF TypeOK, Debounced, AtMost

LEMMA InitIInv == Init => IInv
<1> SUFFICES ASSUME Init PROVE IInv
  OBVIOUS
<1>0. attached \in BOOLEAN
  BY Zenon DEF Init
<1>1. TypeOK
  BY <1>0, DebounceAssumption DEF Init, TypeOK, Speed
<1>2. ~attached /\ event = "None" /\ debounce = 0 /\ present = 0 /\ presentRun = 0
  BY DEF Init
<1> QED
  BY <1>1, <1>2, DebounceAssumption DEF IInv, DetachedCount, AttachedCount, Earned

LEMMA PollIInv ==
    ASSUME IInv, poll_device_event
    PROVE  IInv'
<1> DEFINE s == detect_speed
           d == Debounced(s)
<1>1. s \in Speed \cup {NoSpeed} /\ NoSpeed \notin Speed
  BY DetectType DEF IInv
<1>2. /\ d \in 0 .. DebounceCap
      /\ s # NoSpeed => d = AtMost(debounce + 1, DebounceCap)
      /\ s = NoSpeed => d = IF debounce > 0 THEN debounce - 1 ELSE 0
  BY <1>1, DebouncedStep DEF IInv
<1>3. debounce' = d /\ Record(s) /\ UNCHANGED <<dp, dm>>
  BY DEF poll_device_event
<1> HIDE DEF s, d
<1>4. CASE Attaches(s, d)
  <2>1. speed' = s /\ attached' = TRUE /\ event' = "Connected"
    BY <1>4, Zenon DEF poll_device_event, Attaches, Detaches, s, d
  <2>2. s # NoSpeed /\ ~attached /\ d = DebounceFrames
    BY <1>2, <1>4, DebounceAssumption DEF Attaches, IInv, TypeOK, DetachedCount, AtMost
  <2>3. present' = DebounceFrames /\ absent' = 0 /\ absentRun' = 0
    BY <1>2, <1>3, <2>1, <2>2, DebounceAssumption
       DEF Record, IInv, TypeOK, DetachedCount, AtMost
  <2>4. presentRun' \in 0 .. DebounceFrames
    BY <1>3, <2>2, DebounceAssumption DEF Record, AtMost, IInv, TypeOK
  <2> QED
    BY <1>1, <1>2, <1>3, <2>1, <2>2, <2>3, <2>4, DebounceAssumption
       DEF IInv, TypeOK, DetachedCount, AttachedCount, Earned
<1>5. CASE Detaches(s, d)
  <2>1. attached' = FALSE /\ event' = "Disconnected" /\ speed' = speed
    BY <1>5, Zenon DEF poll_device_event, Attaches, Detaches, s, d
  <2>2. s = NoSpeed /\ attached /\ d = 0 /\ debounce = 1
    BY <1>2, <1>5 DEF Detaches, IInv, TypeOK, AttachedCount
  <2>3. absent' >= DebounceFrames /\ absent' \in 0 .. DebounceCap
    BY <1>3, <2>1, <2>2, DebounceAssumption
       DEF Record, IInv, TypeOK, AttachedCount, AtMost
  <2>4. present' = 0 /\ presentRun' = 0 /\ absentRun' \in 0 .. DebounceCap
    BY <1>3, <2>1, <2>2, DebounceAssumption DEF Record, IInv, TypeOK, AtMost
  <2>5. attached' \in BOOLEAN /\ ~attached'
    BY <2>1, Zenon
  <2>6. TypeOK'
    BY <1>2, <1>3, <2>1, <2>3, <2>4, <2>5, DebounceAssumption DEF IInv, TypeOK
  <2>7. DetachedCount' /\ AttachedCount'
    BY <1>3, <2>2, <2>4, <2>5, DebounceAssumption DEF DetachedCount, AttachedCount
  <2> QED
    BY <2>1, <2>3, <2>6, <2>7 DEF IInv, Earned
<1>6. CASE ~Attaches(s, d) /\ ~Detaches(s, d)
  <2>1. event' = "None" /\ speed' = speed /\ attached' = attached
    BY <1>6, Zenon DEF poll_device_event, s, d
  <2>2. TypeOK'
    BY <1>2, <1>3, <2>1, DebounceAssumption DEF IInv, TypeOK, Record, AtMost
  <2>3. CASE attached
    <3>1. d > 0
      BY <1>2, <1>6, <2>3 DEF Detaches, IInv, TypeOK, AttachedCount, AtMost
    <3>2. AttachedCount'
      BY <1>2, <1>3, <2>1, <2>3, <3>1, DebounceAssumption
         DEF IInv, TypeOK, AttachedCount, Record, AtMost
    <3> QED
      BY <2>1, <2>2, <2>3, <3>2 DEF IInv, DetachedCount, Earned
  <2>4. CASE ~attached
    <3>1. d < DebounceFrames
      BY <1>2, <1>6, <2>4, DebounceAssumption
         DEF Attaches, IInv, TypeOK, DetachedCount, AtMost
    <3>2. DetachedCount'
      BY <1>2, <1>3, <2>1, <2>4, <3>1, DebounceAssumption
         DEF IInv, TypeOK, DetachedCount, Record, AtMost
    <3> QED
      BY <2>1, <2>2, <2>4, <3>2 DEF IInv, AttachedCount, Earned
  <2> QED BY <2>3, <2>4
<1> QED BY <1>4, <1>5, <1>6

(* The inductive invariant: the accumulator never runs ahead of the samples *)
(* that paid for it, on either side of the hysteresis.                      *)
THEOREM Inductive == Spec => []IInv
<1>1. ASSUME IInv, [Next]_vars PROVE IInv'
  <2>1. CASE poll_device_event
    BY <1>1, <2>1, PollIInv
  <2>2. CASE Wiggle
    BY <1>1, <2>2 DEF Wiggle, history, IInv, TypeOK, DetachedCount, AttachedCount,
       Earned
  <2>3. CASE UNCHANGED vars
    BY <1>1, <2>3 DEF vars, portVars, history, IInv, TypeOK, DetachedCount,
       AttachedCount, Earned
  <2> QED BY <1>1, <2>1, <2>2, <2>3 DEF Next
<1> QED BY <1>1, InitIInv, PTL DEF Spec

(* Every variable keeps its type, and debounce never leaves 0..DEBOUNCE_CAP. *)
THEOREM TypeCorrect == Spec => []TypeOK
<1>1. IInv => TypeOK BY DEF IInv
<1> QED BY <1>1, Inductive, PTL

(* A detached port is below the attach threshold, an attached one above 0. *)
THEOREM HysteresisHolds == Spec => []Hysteresis
<1>1. IInv => Hysteresis
  BY DEF IInv, TypeOK, DetachedCount, AttachedCount, Hysteresis
<1> QED BY <1>1, Inductive, PTL

(* Connected is reported only after DEBOUNCE_FRAMES samples with a device  *)
(* since the last detach, Disconnected only after DEBOUNCE_FRAMES without  *)
(* one since the attach.                                                   *)
THEOREM EventsEarned == Spec => []Earned
<1>1. IInv => Earned BY DEF IInv
<1> QED BY <1>1, Inductive, PTL

(* A device that stays is attached after DEBOUNCE_FRAMES samples, and one  *)
(* that is gone is detached after DEBOUNCE_CAP.                            *)
THEOREM EventsPrompt == Spec => []Prompt
<1>1. IInv => Prompt
  BY DebounceAssumption DEF IInv, TypeOK, DetachedCount, AttachedCount,
     Prompt
<1> QED BY <1>1, Inductive, PTL
=============================================================================
