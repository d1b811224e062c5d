------------------------- MODULE ControlPipe_proofs -------------------------
(***************************************************************************)
(* Both ends of a control transfer agree on its data, and Ok means done,   *)
(* for every packet size, every length, all budgets and any number of      *)
(* attempts.                                                               *)
(***************************************************************************)
EXTENDS ControlPipe, Integers, TLAPS

Types ==
    /\ kind \in {"in", "out"}
    /\ toggle \in BOOLEAN /\ dtoggle \in BOOLEAN /\ honours \in BOOLEAN
    /\ wlen \in Nat /\ room \in Nat /\ mps \in Nat \ {0}
    /\ total \in Nat /\ has \in Nat /\ offset \in Nat /\ serves \in Nat /\ attempts \in Nat

(* All the device has of what was asked for. *)
Whole ==
    /\ total <= room /\ total <= has
    /\ honours => total <= wlen
    /\ mps <= DevMps => total >= Least(wlen, has)

Reading ==
    /\ ReadInStep
    /\ stage = "data" /\ kind = "in" => offset <= Offered /\ total <= room
    /\ stage = "status" /\ kind = "in" => Whole

(* The device leaves its data stage with the last byte; the host then      *)
(* waits for an ACK, or is in the status stage.  It leaves the SETUP only  *)
(* with the ACK of this attempt's, so the device serves this attempt.      *)
Writing ==
    /\ WriteInStep
    /\ stage = "data" /\ kind = "out" =>
         /\ total < wlen
         /\ \/ dstage = "out" /\ offset < wlen
            \/ dstage \in {"status", "done"} /\ offset = wlen
    /\ stage = "status" /\ kind = "out" => dstage \in {"status", "done"} /\ offset = wlen
    /\ stage \in {"data", "status"} /\ kind = "out" => serves = attempts

Answered ==
    /\ result = "Ok" => stage = "idle"
    /\ ReadComplete /\ WriteComplete

IInv == Types /\ Reading /\ Writing /\ Answered

LEMMA InitIInv == Init => IInv
<1> SUFFICES ASSUME Init PROVE IInv
  OBVIOUS
<1>1. toggle \in BOOLEAN /\ dtoggle \in BOOLEAN /\ honours \in BOOLEAN
  BY Zenon DEF Init
<1>2. Types
  BY <1>1, ControlAssumption DEF Init, Types
<1> QED
  BY <1>2 DEF Init, IInv, Reading, Writing, Answered, ReadInStep, WriteInStep, ReadComplete,
              WriteComplete

(* The packet a device sends next. *)
LEMMA PacketFacts ==
    ASSUME Types
    PROVE  /\ Offered \in Nat /\ Offered <= has /\ Offered >= Least(wlen, has)
           /\ honours => Offered <= wlen
           /\ offset <= Offered =>
                /\ PacketLen \in Nat /\ offset + PacketLen <= Offered
                /\ PacketLen < DevMps => offset + PacketLen = Offered
BY ControlAssumption DEF Types, Offered, PacketLen, Least

(* A chunk of a write that is not complete. *)
LEMMA ChunkFacts ==
    ASSUME Types, total < wlen
    PROVE  Chunk \in Nat /\ Chunk > 0 /\ total + Chunk <= wlen
BY DEF Types, Chunk, Least

(* Steps that move no data, and end the attempt if they move the stage.    *)
LEMMA PauseIInv ==
    ASSUME IInv,
           UNCHANGED <<request, nature, device, total, toggle>>,
           \/ UNCHANGED <<stage, attempts, result>>
           \/ stage # "idle" /\ stage' \in {"idle", "retry", "setup"}
              /\ (result' = result \/ result' # "Ok")
              /\ attempts' \in {attempts, attempts + 1}
    PROVE  IInv'
<1>1. /\ UNCHANGED <<kind, wlen, mps, room, has, honours, dstage, offset, dtoggle, serves,
                     total, toggle>>
  BY DEF request, nature, device
<1>2. stage # "idle" => result # "Ok"
  BY DEF IInv, Answered
<1>3. CASE UNCHANGED <<stage, attempts, result>>
  BY <1>1, <1>3 DEF IInv, Types, Reading, Writing, Answered, ReadInStep, WriteInStep,
     ReadComplete, WriteComplete, Whole, PacketLen, Offered, Chunk
<1>4. CASE stage # "idle" /\ stage' \in {"idle", "retry", "setup"} /\ result' # "Ok"
           /\ attempts' \in {attempts, attempts + 1}
  BY <1>1, <1>4 DEF IInv, Types, Reading, Writing, Answered, ReadInStep, WriteInStep,
     ReadComplete, WriteComplete
<1> QED
  BY <1>2, <1>3, <1>4

LEMMA RequestIInv ==
    ASSUME IInv, NEW k \in {"in", "out"}, NEW n \in Lengths, NEW len \in Lengths,
           Request(k, n, len)
    PROVE  IInv'
<1>1. /\ kind' = k /\ wlen' = n /\ room' = len /\ serves' = 0 /\ attempts' = 1
      /\ UNCHANGED <<mps, total, toggle, has, honours, offset, dtoggle>>
      /\ stage' \in {"setup", "idle"} /\ result' # "Ok"
  BY DEF Request, Finish, nature
<1>2. Types'
  BY <1>1, ControlAssumption DEF IInv, Types
<1> QED
  BY <1>1, <1>2 DEF IInv, Reading, Writing, Answered, ReadInStep, WriteInStep,
     ReadComplete, WriteComplete

(* After a SETUP both ends are at the start of the data stage. *)
LEMMA SetupIInv ==
    ASSUME IInv, control_setup
    PROVE  IInv'
<1>1. /\ UNCHANGED <<kind, wlen, mps, room, has, honours, attempts>>
      /\ total' = 0 /\ toggle' = TRUE
      /\ stage = "setup" /\ result # "Ok" /\ result' # "Ok"
      /\ \/ UNCHANGED <<offset, dtoggle, serves>>
         \/ offset' = 0 /\ dtoggle' = TRUE /\ serves' = attempts
  BY DEF control_setup, StartOver, DeviceSetup, Refused, DataOrStatus, TimeOut, Finish, request,
         nature, device, IInv, Answered
<1>2. Types'
  <2>1. toggle' \in BOOLEAN /\ dtoggle' \in BOOLEAN /\ honours' \in BOOLEAN
    BY <1>1, Zenon DEF IInv, Types
  <2>2. offset' \in Nat /\ serves' \in Nat
    BY <1>1 DEF IInv, Types
  <2> QED
    BY <1>1, <2>1, <2>2 DEF IInv, Types
<1>3. \/ stage' \in {"idle", "retry"}
      \/ /\ stage' = IF wlen > 0 THEN "data" ELSE "status"
         /\ offset' = 0 /\ dtoggle' = TRUE /\ serves' = attempts
         /\ kind = "out" => dstage' = IF wlen > 0 THEN "out" ELSE "status"
  BY DEF control_setup, DeviceSetup, Refused, DataOrStatus, TimeOut, Finish
<1>4. CASE stage' \in {"idle", "retry"}
  BY <1>1, <1>2, <1>4 DEF IInv, Reading, Writing, Answered, ReadInStep, WriteInStep,
     ReadComplete, WriteComplete
<1>5. CASE /\ stage' = IF wlen > 0 THEN "data" ELSE "status"
           /\ offset' = 0 /\ dtoggle' = TRUE /\ serves' = attempts
           /\ kind = "out" => dstage' = IF wlen > 0 THEN "out" ELSE "status"
  <2>1. Types /\ wlen \in Nat /\ room \in Nat /\ has \in Nat
    BY DEF IInv, Types
  <2>2. Offered' \in Nat
    BY <1>2, PacketFacts, <2>1, <1>1 DEF Offered
  <2>3. Reading'
    <3>1. ReadInStep'
      BY <1>1, <1>5 DEF ReadInStep
    <3>2. stage' = "data" /\ kind' = "in" => offset' <= Offered' /\ total' <= room'
      BY <1>1, <1>5, <2>1, <2>2
    <3>3. stage' = "status" /\ kind' = "in" => Whole'
      BY <1>1, <1>5, <2>1 DEF Whole, Least
    <3> QED
      BY <3>1, <3>2, <3>3 DEF Reading
  <2>4. Writing'
    BY <1>1, <1>5, <2>1 DEF Writing, WriteInStep
  <2>5. Answered'
    BY <1>1 DEF Answered, ReadComplete, WriteComplete
  <2> QED
    BY <1>2, <2>3, <2>4, <2>5 DEF IInv
<1> QED
  BY <1>3, <1>4, <1>5

(* One packet of a read: it is copied if the toggles agree, and the ACK    *)
(* may reach the device.                                                   *)
LEMMA ReadIInv ==
    ASSUME IInv, in_data
    PROVE  IInv'
<1> DEFINE n == PacketLen
<1>1. /\ UNCHANGED <<kind, wlen, mps, room, has, honours, attempts, serves>>
      /\ stage = "data" /\ kind = "in" /\ result # "Ok"
  BY DEF in_data, DeviceSent, request, nature, device, IInv, Answered
<1>2. Types /\ offset <= Offered /\ total <= room
      /\ total = IF toggle = dtoggle THEN offset ELSE offset + n
  BY <1>1 DEF IInv, Reading, ReadInStep
<1>3. /\ Offered \in Nat /\ Offered <= has /\ Offered >= Least(wlen, has)
      /\ honours => Offered <= wlen
      /\ n \in Nat /\ offset + n <= Offered
      /\ n < DevMps => offset + n = Offered
  BY <1>2, PacketFacts
<1>4. Offered' = Offered
  BY <1>1 DEF Offered
<1>5. \/ UNCHANGED <<offset, dtoggle>>
      \/ offset' = offset + n /\ dtoggle' = ~dtoggle
  BY DEF in_data, DeviceSent, device
<1>6. offset' \in Nat /\ dtoggle' \in BOOLEAN /\ offset' <= Offered'
  <2>1. dtoggle' \in BOOLEAN
    BY <1>2, <1>5, Zenon DEF Types
  <2>2. offset' = offset \/ offset' = offset + n
    BY <1>5
  <2> QED
    BY <1>2, <1>3, <1>4, <2>1, <2>2 DEF Types
<1>7. UNCHANGED offset => PacketLen' = n
  BY <1>4 DEF PacketLen
<1>8. CASE toggle # dtoggle
  <2>1. UNCHANGED <<stage, result, total, toggle>>
    BY <1>8 DEF in_data
  <2>2. Types'
    BY <1>1, <1>2, <1>6, <2>1 DEF Types
  <2>3. ReadInStep'
    BY <1>2, <1>5, <1>7, <1>8, <2>1 DEF ReadInStep, Types
  <2> QED
    BY <1>1, <1>2, <1>6, <2>1, <2>2, <2>3 DEF IInv, Reading, Writing, Answered, WriteInStep,
       ReadComplete, WriteComplete
<1>9. CASE toggle = dtoggle
  <2>1. Copy(n)
    BY <1>9 DEF in_data
  <2>2. CASE total + n > room
    <3>1. stage' = "idle" /\ result' = "BufferOverflow" /\ UNCHANGED <<total, toggle>>
      BY <2>1, <2>2 DEF Copy, Finish
    <3>2. Types'
      BY <1>1, <1>2, <1>6, <3>1 DEF Types
    <3> QED
      BY <3>1, <3>2 DEF IInv, Reading, Writing, Answered, ReadInStep, WriteInStep,
         ReadComplete, WriteComplete
  <2>3. CASE ~(total + n > room)
    <3>1. /\ total' = total + n /\ toggle' = ~toggle /\ UNCHANGED result
          /\ stage' = IF n < mps \/ total + n >= wlen THEN "status" ELSE "data"
      BY <2>1, <2>3 DEF Copy, Flipped, Completed
    <3>2. total' \in Nat /\ toggle' \in BOOLEAN /\ total' <= room
      BY <1>2, <1>3, <2>3, <3>1 DEF Types
    <3>3. Types'
      BY <1>1, <1>2, <1>6, <3>2 DEF Types
    <3>4. total' = offset + n
      BY <1>2, <1>9, <3>1
    <3>5. ReadInStep'
      BY <1>2, <1>5, <1>7, <1>9, <3>1, <3>4 DEF ReadInStep, Types
    <3>6. stage' = "status" => Whole'
      <4>1. total' <= has /\ (honours => total' <= wlen)
        BY <1>2, <1>3, <3>4 DEF Types
      <4>2. stage' = "status" /\ mps <= DevMps => total' >= Least(wlen, has)
        BY <1>2, <1>3, <3>1, <3>4, ControlAssumption DEF Types, Least
      <4> QED
        BY <1>1, <3>2, <4>1, <4>2 DEF Whole
    <3> QED
      BY <1>1, <1>6, <3>1, <3>2, <3>3, <3>5, <3>6 DEF IInv, Reading, Writing, Answered,
         WriteInStep, ReadComplete, WriteComplete
  <2> QED
    BY <2>2, <2>3
<1> QED
  BY <1>8, <1>9

LEMMA ReadStatusIInv ==
    ASSUME IInv, status_out
    PROVE  IInv'
<1>1. /\ UNCHANGED <<kind, wlen, mps, room, has, honours, total, toggle, offset, dtoggle,
                     attempts, serves>>
      /\ stage = "status" /\ kind = "in"
      /\ stage' = "idle" \/ UNCHANGED <<stage, result>>
  BY DEF status_out, request, nature, Finish
<1>2. Types' /\ Whole /\ Whole' /\ (result = "Ok" => stage = "idle")
  BY <1>1 DEF IInv, Types, Reading, Answered, Whole
<1>3. ReadComplete'
  BY <1>1, <1>2 DEF ReadComplete, Whole, Types, Least
<1> QED
  BY <1>1, <1>2, <1>3 DEF IInv, Reading, Writing, Answered, ReadInStep, WriteInStep,
     WriteComplete

(* One packet of a write: it is taken if the toggles agree, and the ACK    *)
(* may reach the host.                                                     *)
LEMMA WriteIInv ==
    ASSUME IInv, out_data
    PROVE  IInv'
<1> DEFINE n == Chunk
<1>1. /\ UNCHANGED <<kind, wlen, mps, room, has, honours, attempts, serves, result>>
      /\ stage = "data" /\ kind = "out" /\ result # "Ok"
  BY DEF out_data, DeviceReceive, request, nature, device, IInv, Answered
<1>2. /\ Types /\ total < wlen
      /\ offset = IF toggle = dtoggle THEN total ELSE total + n
      /\ \/ dstage = "out" /\ offset < wlen
         \/ dstage \in {"status", "done"} /\ offset = wlen
      /\ serves = attempts
  BY <1>1 DEF IInv, Writing, WriteInStep
<1>3. n \in Nat /\ n > 0 /\ total + n <= wlen
  BY <1>2, ChunkFacts
<1>4. /\ offset' = total + n /\ dtoggle' = ~toggle /\ dtoggle' \in BOOLEAN
      /\ \/ dstage' = "out" /\ offset' < wlen
         \/ dstage' \in {"status", "done"} /\ offset' = wlen
      /\ total + n = wlen => dstage' \in {"status", "done"}
  <2>1. CASE toggle = dtoggle
    <3>1. dstage = "out"
      BY <1>2, <2>1 DEF Types
    <3>2. /\ offset' = offset + n /\ dtoggle' = ~dtoggle
          /\ dstage' = IF offset + n = wlen THEN "status" ELSE "out"
      BY <2>1, <3>1 DEF out_data, DeviceReceive
    <3>3. dtoggle' = ~toggle /\ dtoggle' \in BOOLEAN
      BY <2>1, <3>2, Zenon
    <3>4. offset' = total + n
      BY <1>2, <2>1, <3>2
    <3> QED
      BY <1>2, <1>3, <3>2, <3>3, <3>4 DEF Types
  <2>2. CASE toggle # dtoggle
    <3>1. UNCHANGED <<dstage, offset, dtoggle>>
      BY <2>2 DEF out_data, DeviceReceive, device
    <3>2. offset = total + n
      BY <1>2, <2>2
    <3>3. dtoggle' = ~toggle /\ dtoggle' \in BOOLEAN
      <4>1. dtoggle = ~toggle /\ dtoggle \in BOOLEAN
        BY <1>2, <2>2 DEF Types
      <4> QED
        BY <3>1, <4>1, Zenon
    <3> QED
      BY <1>2, <1>3, <3>1, <3>2, <3>3
  <2> QED
    BY <2>1, <2>2
<1>5. CASE UNCHANGED <<stage, total, toggle>>
  <2>1. Chunk' = n
    BY <1>1, <1>5 DEF Chunk
  <2>2. Types'
    BY <1>1, <1>2, <1>3, <1>4, <1>5 DEF Types
  <2>3. WriteInStep'
    BY <1>2, <1>4, <1>5, <2>1 DEF WriteInStep, Types
  <2> QED
    BY <1>1, <1>2, <1>4, <1>5, <2>2, <2>3 DEF IInv, Reading, Writing, Answered, ReadInStep,
       ReadComplete, WriteComplete
<1>6. CASE /\ total' = total + n /\ toggle' = ~toggle
           /\ stage' = IF total + n = wlen THEN "status" ELSE "data"
  <2>1. total' \in Nat /\ toggle' \in BOOLEAN /\ toggle' = dtoggle' /\ total' = offset'
    BY <1>2, <1>3, <1>4, <1>6 DEF Types
  <2>2. Types'
    BY <1>1, <1>2, <1>4, <2>1 DEF Types
  <2>3. WriteInStep'
    BY <2>1 DEF WriteInStep
  <2>4. stage' = "data" => total' < wlen
    BY <1>2, <1>3, <1>6 DEF Types
  <2> QED
    BY <1>1, <1>3, <1>4, <1>6, <2>1, <2>2, <2>3, <2>4 DEF IInv, Reading, Writing, Answered,
       ReadInStep, ReadComplete, WriteComplete
<1>7. \/ UNCHANGED <<stage, total, toggle>>
      \/ /\ total' = total + n /\ toggle' = ~toggle
         /\ stage' = IF total + n = wlen THEN "status" ELSE "data"
  BY DEF out_data, Flipped
<1> QED
  BY <1>5, <1>6, <1>7

LEMMA WriteStatusIInv ==
    ASSUME IInv, status_in
    PROVE  IInv'
<1>1. /\ UNCHANGED <<kind, wlen, mps, room, has, honours, total, toggle, dstage, offset,
                     dtoggle, attempts, serves>>
      /\ stage = "status" /\ kind = "out" /\ stage' = "idle"
  BY DEF status_in, Poll, Finish, request, nature, device
<1>2. Types' /\ offset = wlen /\ serves = attempts
  BY <1>1 DEF IInv, Types, Writing
<1> QED
  BY <1>1, <1>2 DEF IInv, Reading, Writing, Answered, ReadInStep, WriteInStep, ReadComplete,
     WriteComplete

(* The device has all its data before the host asks for the status.        *)
LEMMA TurnedAlready ==
    ASSUME IInv, Poll, DeviceTurns
    PROVE  dstage' = dstage
BY DEF IInv, Writing, Poll, DeviceTurns

LEMMA ExecuteIInv ==
    ASSUME IInv, Execute
    PROVE  IInv'
<1>1. /\ UNCHANGED <<kind, wlen, mps, room, has, honours, total, toggle, stage, result,
                     offset, dtoggle, attempts, serves>>
      /\ dstage = "status" /\ dstage' = "done"
  BY DEF Execute, request, nature
<1>2. Types'
  BY <1>1 DEF IInv, Types
<1>3. Reading' /\ Writing'
  BY <1>1 DEF IInv, Reading, Writing, ReadInStep, WriteInStep, Whole, PacketLen, Offered, Chunk
<1>4. Answered'
  BY <1>1 DEF IInv, Answered, ReadComplete, WriteComplete
<1> QED
  BY <1>2, <1>3, <1>4 DEF IInv

(* The toggles tell the ends of a transfer apart by at most one packet. *)
THEOREM Inductive == Spec => []IInv
<1>1. ASSUME IInv, [Next]_vars PROVE IInv'
  <2>1. ASSUME Retry \/ in_data_none \/ in_data_timeout \/ out_none \/ out_timeout
               \/ status_in_silent \/ status_in_nak \/ status_in_crc \/ status_in_bad
               \/ status_in_exhausted \/ stall \/ UNCHANGED vars
        PROVE  IInv'
    <3>1. /\ UNCHANGED <<request, nature, device, total, toggle>>
          /\ \/ UNCHANGED <<stage, attempts, result>>
             \/ stage # "idle" /\ stage' \in {"idle", "retry", "setup"}
                /\ (result' = result \/ result' # "Ok")
                /\ attempts' \in {attempts, attempts + 1}
      BY <1>1, <2>1, TurnedAlready DEF Retry, in_data_none, in_data_timeout, out_none, out_timeout,
         status_in_silent, status_in_nak, status_in_crc, status_in_bad, status_in_exhausted,
         stall, vars, device, Poll, TimeOut, Finish
    <3> QED
      BY <1>1, <3>1, PauseIInv
  <2> QED
    BY <1>1, <2>1, RequestIInv, SetupIInv, ReadIInv, ReadStatusIInv, WriteIInv,
       WriteStatusIInv, ExecuteIInv DEF Next, Transfer
<1> QED
  BY InitIInv, <1>1, PTL DEF Spec

(* In the data stage of a read neither end loses count, whatever is lost. *)
THEOREM ReadsInStep == Spec => []ReadInStep
<1>1. IInv => ReadInStep
  BY DEF IInv, Reading
<1> QED
  BY Inductive, <1>1, PTL

(* The same for the data stage of a write. *)
THEOREM WritesInStep == Spec => []WriteInStep
<1>1. IInv => WriteInStep
  BY DEF IInv, Writing
<1> QED
  BY Inductive, <1>1, PTL

(* Ok of control_in means all the data, of a device with packets of the    *)
(* size the host stack configured or larger.                               *)
THEOREM OkMeansRead == Spec => []ReadComplete
<1>1. IInv => ReadComplete
  BY DEF IInv, Answered
<1> QED
  BY Inductive, <1>1, PTL

(* Ok of control_out means that the device has all the data, and all of it *)
(* from the last attempt: the host neither leaves the SETUP without an ACK,*)
(* nor the data stage while a chunk may have been dropped as a repetition. *)
THEOREM OkMeansWritten == Spec => []WriteComplete
<1>1. IInv => WriteComplete
  BY DEF IInv, Answered
<1> QED
  BY Inductive, <1>1, PTL

-----------------------------------------------------------------------------

(* No SETUP is heard before it is sent.                                    *)
Served == serves <= attempts

Stages == {"idle", "setup", "data", "status", "retry"}

Results == {"none", "Ok", "Timeout", "Stall", "BadResponse", "BufferOverflow",
            "Disconnected", "Babble"}

Progress ==
    /\ stage \in Stages /\ result \in Results
    /\ attempts \in 0 .. MaxAttempts
    /\ stage = "retry" => attempts < MaxAttempts

Budgets ==
    /\ stalls \in 0 .. StallBudget /\ crcs \in 0 .. CrcBudget /\ replied \in BOOLEAN
    /\ polls \in 0 .. (IF TotalCap > StatusAttempts THEN TotalCap ELSE StatusAttempts)

Sizes ==
    /\ wlen \in Lengths \cup {0} /\ mps \in HostMps /\ room \in Lengths \cup {0}
    /\ has \in Lengths
    /\ dstage \in {"none", "in", "out", "status", "done"}

Within == total <= (IF kind = "in" THEN room ELSE wlen) \/ stage \in {"idle", "setup"}

TInv == Progress /\ Budgets /\ Sizes /\ Within /\ Served

LEMMA InitTInv == Init => TInv
<1> SUFFICES ASSUME Init PROVE TInv
  OBVIOUS
<1>1. replied \in BOOLEAN
  BY Zenon DEF Init
<1>2. Budgets
  BY <1>1, ControlAssumption DEF Init, Budgets
<1>3. Progress /\ Sizes /\ Within /\ Served
  BY ControlAssumption DEF Init, Progress, Sizes, Within, Served, Stages, Results
<1> QED
  BY <1>2, <1>3 DEF TInv

(* No loop runs past its budget. *)
LEMMA BudgetsKept ==
    ASSUME Budgets, Next
    PROVE  Budgets'
<1>1. CASE UNCHANGED counters
  BY <1>1 DEF counters, Budgets
<1>2. CASE control_setup
  <2>1. stalls' = 0 /\ crcs' = 0 /\ polls' = 0
    BY <1>2 DEF control_setup, StartOver
  <2>2. replied' \in BOOLEAN
    BY <1>2, Zenon DEF control_setup, StartOver
  <2> QED
    BY <2>1, <2>2, ControlAssumption DEF Budgets
<1>3. CASE in_data \/ in_data_none
  <2>1. /\ stalls < StallBudget /\ polls < TotalCap /\ polls' = polls + 1
        /\ stalls' = stalls \/ stalls' = 0 \/ stalls' = stalls + 1
        /\ UNCHANGED <<crcs, replied>>
    BY <1>3 DEF in_data, in_data_none, Copy, BudgetLeft, Spent
  <2> QED
    BY <2>1, ControlAssumption DEF Budgets
<1>4. CASE status_out \/ out_data \/ out_none
  <2>1. /\ stalls < StallBudget
        /\ stalls' = stalls \/ stalls' = 0 \/ stalls' = stalls + 1
        /\ UNCHANGED <<polls, crcs, replied>>
    BY <1>4 DEF status_out, out_data, out_none, Spent
  <2> QED
    BY <2>1, ControlAssumption DEF Budgets
<1>5. CASE status_in \/ status_in_silent \/ status_in_nak \/ status_in_crc \/ status_in_bad
  <2>1. /\ polls < StatusAttempts /\ crcs < CrcBudget /\ polls' = polls + 1
        /\ crcs' = crcs \/ crcs' = crcs + 1
        /\ replied' = replied \/ replied' = TRUE
        /\ UNCHANGED stalls
    BY <1>5 DEF status_in, status_in_silent, status_in_nak, status_in_crc, status_in_bad,
       Poll, PollsLeft, Spent
  <2>2. replied' \in BOOLEAN
    BY <2>1 DEF Budgets
  <2> QED
    BY <2>1, <2>2, ControlAssumption DEF Budgets
<1>6. CASE Retry \/ in_data_timeout \/ out_timeout \/ status_in_exhausted \/ stall \/ Execute
           \/ \E k \in {"in", "out"}, n, len \in Lengths : Request(k, n, len)
  <2>1. UNCHANGED counters
    BY <1>6 DEF Retry, in_data_timeout, out_timeout, status_in_exhausted, stall, Execute,
       Request
  <2> QED
    BY <1>1, <2>1
<1> QED
  BY <1>2, <1>3, <1>4, <1>5, <1>6 DEF Next, Transfer

(* A retry begins only before the deadline. *)
LEMMA ProgressKept ==
    ASSUME Progress, Next
    PROVE  Progress'
<1>1. ASSUME UNCHANGED attempts, stage' \in Stages, result' \in Results,
             stage' = "retry" => attempts < MaxAttempts
      PROVE  Progress'
  BY <1>1 DEF Progress
<1>2. ASSUME NEW k \in {"in", "out"}, NEW n \in Lengths, NEW len \in Lengths,
             Request(k, n, len)
      PROVE  Progress'
  BY <1>2, ControlAssumption DEF Request, Finish, Progress, Stages, Results
<1>3. CASE Retry
  BY <1>3, ControlAssumption DEF Retry, Progress, Stages
<1>4. CASE \/ control_setup \/ in_data_timeout \/ out_timeout \/ status_in_exhausted
  <2>1. /\ UNCHANGED attempts
        /\ \/ TimeOut
           \/ stage' \in {"data", "status"} /\ UNCHANGED result
           \/ stage' = "idle" /\ result' \in Results
    BY <1>4 DEF control_setup, Refused, DataOrStatus, in_data_timeout, out_timeout,
       status_in_exhausted, Finish, Results
  <2> QED
    BY <1>1, <2>1 DEF TimeOut, Finish, Progress, Stages, Results
<1>5. CASE \/ in_data \/ in_data_none \/ status_out \/ out_data \/ out_none
           \/ status_in \/ status_in_silent \/ status_in_nak \/ status_in_crc
           \/ status_in_bad \/ stall \/ Execute
  <2>1. /\ UNCHANGED attempts
        /\ \/ UNCHANGED <<stage, result>>
           \/ stage' \in {"data", "status"} /\ UNCHANGED result
           \/ stage' = "idle" /\ result' \in Results
    BY <1>5 DEF in_data, in_data_none, Copy, status_out, out_data, out_none, status_in,
       status_in_silent, status_in_nak, status_in_crc, status_in_bad, stall, Execute,
       Finish, Results
  <2> QED
    BY <1>1, <2>1 DEF Progress, Stages
<1> QED
  BY <1>2, <1>3, <1>4, <1>5 DEF Next, Transfer

LEMMA SizesKept ==
    ASSUME Sizes, Next
    PROVE  Sizes'
<1>1. /\ UNCHANGED <<mps, has>>
      /\ wlen' \in Lengths \cup {0} /\ room' \in Lengths \cup {0}
  BY DEF Next, Transfer, Request, Retry, control_setup, in_data, in_data_none,
     in_data_timeout, status_out, out_data, out_none, out_timeout, status_in,
     status_in_silent, status_in_nak, status_in_crc, status_in_bad, status_in_exhausted,
     stall, Execute, request, nature, Sizes
<1>2. dstage' = dstage \/ dstage' \in {"none", "in", "out", "status", "done"}
  BY DEF Next, Transfer, Request, Retry, control_setup, DeviceSetup, in_data, DeviceSent,
     in_data_none, in_data_timeout, status_out, out_data, DeviceReceive, out_none,
     out_timeout, status_in, status_in_silent, status_in_nak, status_in_crc, status_in_bad,
     status_in_exhausted, stall, Execute, DeviceTurns, device
<1> QED
  BY <1>1, <1>2 DEF Sizes

(* What is copied fits the buffer, and no more is sent than there is. *)
LEMMA WithinKept ==
    ASSUME IInv, Within, Next
    PROVE  Within'
<1>1. CASE in_data
  <2>1. UNCHANGED <<kind, room>> /\ kind = "in" /\ stage = "data"
    BY <1>1 DEF in_data, request
  <2>2. \/ UNCHANGED total
        \/ total' = total + PacketLen /\ ~(total + PacketLen > room)
    BY <1>1 DEF in_data, Copy
  <2>3. total' <= room
    BY <2>1, <2>2, PacketFacts DEF IInv, Reading, Types
  <2> QED
    BY <2>1, <2>3 DEF Within
<1>2. CASE out_data
  <2>1. UNCHANGED <<kind, wlen>> /\ kind = "out" /\ stage = "data"
        /\ (UNCHANGED total \/ total' = total + Chunk)
    BY <1>2 DEF out_data, request
  <2>2. total' <= wlen
    BY <2>1, ChunkFacts DEF IInv, Writing, Types
  <2> QED
    BY <2>1, <2>2 DEF Within
<1>3. CASE control_setup
  <2>1. total' = 0 /\ UNCHANGED <<kind, room, wlen>>
    BY <1>3 DEF control_setup, StartOver, request
  <2> QED
    BY <2>1 DEF Within, IInv, Types
<1>4. CASE Retry \/ \E k \in {"in", "out"}, n, len \in Lengths : Request(k, n, len)
  BY <1>4 DEF Retry, Request, Finish, Within
<1>5. CASE \/ in_data_none \/ in_data_timeout \/ status_out \/ out_none \/ out_timeout
           \/ status_in \/ status_in_silent \/ status_in_nak \/ status_in_crc
           \/ status_in_bad \/ status_in_exhausted \/ stall \/ Execute
  <2>1. /\ UNCHANGED <<kind, room, wlen, total>>
        /\ stage' = stage \/ stage \notin {"idle", "setup"} \/ stage' = "idle"
    BY <1>5 DEF in_data_none, in_data_timeout, status_out, out_none, out_timeout,
       status_in, status_in_silent, status_in_nak, status_in_crc, status_in_bad,
       status_in_exhausted, stall, Execute, request, Finish, Poll
  <2> QED
    BY <2>1 DEF Within
<1> QED
  BY <1>1, <1>2, <1>3, <1>4, <1>5 DEF Next, Transfer

LEMMA ServedKept ==
    ASSUME IInv, TInv, Next
    PROVE  Served'
<1>1. serves <= attempts /\ attempts \in Nat
  BY ControlAssumption DEF TInv, Served, Progress
<1>2. \/ UNCHANGED attempts /\ serves' \in {serves, attempts}
      \/ attempts' = 1 /\ serves' = 0
      \/ attempts' = attempts + 1 /\ UNCHANGED serves
  BY DEF Next, Transfer, Request, Retry, control_setup, DeviceSetup, in_data, DeviceSent,
     in_data_none, in_data_timeout, status_out, out_data, DeviceReceive, out_none,
     out_timeout, status_in, status_in_silent, status_in_nak, status_in_crc, status_in_bad,
     status_in_exhausted, stall, Execute, device
<1>3. serves \in Nat
  BY DEF IInv, Types
<1> QED
  BY <1>1, <1>2, <1>3 DEF Served

LEMMA StutterTInv ==
    ASSUME TInv, UNCHANGED vars
    PROVE  TInv'
BY DEF vars, request, counters, nature, device, TInv, Progress, Budgets, Sizes, Within,
       Served

(* Every loop of a transfer stays within its budget, what is copied within *)
(* the caller's buffer, and no attempt starts past the deadline.           *)
THEOREM TypeCorrect == Spec => []TypeOK
<1>1. IInv /\ TInv /\ [Next]_vars => TInv'
  BY BudgetsKept, ProgressKept, SizesKept, WithinKept, ServedKept, StutterTInv DEF TInv
<1>2. ASSUME IInv, TInv PROVE TypeOK
  <2>1. total \in Nat /\ serves \in Nat /\ offset \in Nat /\ room \in Nat /\ wlen \in Nat
    BY <1>2 DEF IInv, Types
  <2>2. total \in 0 .. (IF kind = "in" THEN room ELSE wlen) \/ stage \in {"idle", "setup"}
    BY <1>2, <2>1 DEF TInv, Within
  <2>3. serves \in 0 .. MaxAttempts
    BY <1>2, <2>1, ControlAssumption DEF TInv, Served, Progress
  <2>4. kind \in {"in", "out"} /\ toggle \in BOOLEAN /\ dtoggle \in BOOLEAN
        /\ honours \in BOOLEAN
    BY <1>2 DEF IInv, Types
  <2> QED
    BY <1>2, <2>1, <2>2, <2>3, <2>4
       DEF TInv, Progress, Budgets, Sizes, Stages, Results, TypeOK
<1> QED
  BY Inductive, InitTInv, <1>1, <1>2, PTL DEF Spec
-----------------------------------------------------------------------------

(* How many transactions an attempt may still take: each of them spends of *)
(* the budget of its loop, and a chunk of a write has one of its own.      *)
Pieces(n, size) == (n + size - 1) \div size

StatusBudget == IF kind = "in" THEN StallBudget ELSE StatusAttempts

DataBudget(n) == IF kind = "in" THEN TotalCap ELSE StallBudget * Pieces(n, mps)

Longest == 2 + StatusBudget + DataBudget(wlen)

Fuel ==
    CASE stage = "setup"  -> Longest
      [] stage = "data"   -> 1 + StatusBudget + DataBudget(wlen - total)
                             - (IF kind = "in" THEN polls ELSE stalls)
      [] stage = "status" -> 1 + StatusBudget - (IF kind = "in" THEN stalls ELSE polls)
      [] OTHER            -> 0

Charged ==
    stage \in {"data", "status"} =>
        polls <= (IF kind = "in" THEN TotalCap ELSE IF stage = "data" THEN 0 ELSE StatusAttempts)

Transaction == Transfer /\ stage # "retry"

(* A chunk less, and one to send at least while there are bytes.           *)
LEMMA PiecesFacts ==
    ASSUME NEW size \in Nat \ {0}, NEW n \in Nat
    PROVE  /\ Pieces(n, size) \in Nat /\ Pieces(0, size) = 0
           /\ n > 0 => Pieces(n, size) >= 1
                       /\ Pieces(n - Least(size, n), size) = Pieces(n, size) - 1
<1>1. Pieces(n, size) \in Nat /\ Pieces(0, size) = 0
  BY DEF Pieces
<1>2. ASSUME n > size PROVE Pieces(n - size, size) = Pieces(n, size) - 1 /\ Pieces(n, size) >= 1
  <2> DEFINE a == n + size - 1
             q == a \div size
             r == a % size
  <2>1. a \in Nat /\ a = size * q + r /\ r \in 0 .. size - 1 /\ q \in Nat
    OBVIOUS
  <2>2. a - size = size * (q - 1) + r
    BY <2>1
  <2>3. (a - size) \div size = q - 1 /\ q >= 1
    BY <1>2, <2>1, <2>2
  <2> QED
    BY <2>3 DEF Pieces
<1>3. ASSUME n > 0, n <= size PROVE Pieces(n, size) = 1
  BY <1>3 DEF Pieces
<1> QED
  BY <1>1, <1>2, <1>3 DEF Least

LEMMA FuelTypes ==
    ASSUME IInv, TInv
    PROVE  /\ StatusBudget \in Nat \ {0} /\ StallBudget \in Nat /\ TotalCap \in Nat
           /\ StatusAttempts \in Nat
           /\ kind \in {"in", "out"} /\ mps \in Nat \ {0} /\ wlen \in Nat /\ total \in Nat
           /\ stalls \in Nat /\ polls \in Nat /\ stalls <= StallBudget
           /\ \A n \in Nat : DataBudget(n) \in Nat
           /\ kind = "in" => \A n \in Int : DataBudget(n) = TotalCap
<1>1. /\ StallBudget \in Nat \ {0} /\ StatusAttempts \in Nat \ {0} /\ TotalCap \in Nat \ {0}
  BY ControlAssumption
<1>2. kind \in {"in", "out"} /\ mps \in Nat \ {0} /\ wlen \in Nat /\ total \in Nat
  BY DEF IInv, Types
<1>3. stalls \in Nat /\ polls \in Nat /\ stalls <= StallBudget
  BY <1>1 DEF TInv, Budgets
<1>4. \A n \in Nat : DataBudget(n) \in Nat
  <2>1. ASSUME NEW n \in Nat PROVE StallBudget * Pieces(n, mps) \in Nat
    <3>1. Pieces(n, mps) \in Nat
      BY <1>2, PiecesFacts
    <3> QED
      BY <1>1, <3>1
  <2> QED
    BY <1>1, <2>1 DEF DataBudget
<1> QED
  BY <1>1, <1>2, <1>3, <1>4 DEF StatusBudget, DataBudget

(* What is left is never more than what an attempt has at its start.       *)
LEMMA FuelBounds ==
    ASSUME IInv, TInv, Charged
    PROVE  /\ Fuel \in 0 .. Longest
           /\ stage \in {"setup", "data", "status"} => Fuel >= 1
<1>1. Longest \in Nat /\ Longest >= 2
  BY FuelTypes DEF Longest
<1>2. CASE stage = "setup"
  BY <1>1, <1>2 DEF Fuel
<1>3. CASE stage = "data" /\ kind = "in"
  <2>1. Fuel = 1 + StatusBudget + TotalCap - polls /\ Longest = 2 + StatusBudget + TotalCap
    BY <1>3 DEF Fuel, Longest, DataBudget
  <2>2. polls <= TotalCap
    BY <1>3 DEF Charged
  <2> QED
    BY <2>1, <2>2, FuelTypes
<1>4. CASE stage = "data" /\ kind = "out"
  <2> DEFINE p == Pieces(wlen - total, mps)
             w == Pieces(wlen, mps)
  <2>1. Fuel = 1 + StatusBudget + StallBudget * p - stalls
        /\ Longest = 2 + StatusBudget + StallBudget * w
    BY <1>4 DEF Fuel, Longest, DataBudget
  <2>2. total < wlen
    BY <1>4 DEF IInv, Writing
  <2>3. p \in Nat /\ p >= 1 /\ w \in Nat /\ p <= w
    <3>1. wlen - total \in Nat /\ wlen - total > 0
      BY <2>2, FuelTypes
    <3>2. p \in Nat /\ p >= 1 /\ w \in Nat
      BY <3>1, PiecesFacts, FuelTypes
    <3>3. p <= w
      BY <3>1, FuelTypes DEF Pieces
    <3> QED
      BY <3>2, <3>3
  <2>4. StallBudget * p >= StallBudget /\ StallBudget * p <= StallBudget * w
        /\ StallBudget * p \in Nat /\ StallBudget * w \in Nat
    <3> HIDE DEF p, w
    <3> QED
      BY <2>3, FuelTypes
  <2> HIDE DEF p, w
  <2> QED
    BY <2>1, <2>4, FuelTypes
<1>5. CASE stage = "status"
  <2>1. Fuel = 1 + StatusBudget - (IF kind = "in" THEN stalls ELSE polls)
    BY <1>5 DEF Fuel
  <2>2. (IF kind = "in" THEN stalls ELSE polls) \in 0 .. StatusBudget
    BY <1>5, FuelTypes DEF Charged, StatusBudget
  <2>3. Longest >= 1 + StatusBudget
    BY FuelTypes DEF Longest
  <2> QED
    BY <1>1, <2>1, <2>2, <2>3, FuelTypes
<1>6. CASE stage \in {"idle", "retry"}
  BY <1>1, <1>6 DEF Fuel
<1> QED
  BY <1>2, <1>3, <1>4, <1>5, <1>6, FuelTypes DEF TInv, Progress, Stages

(* An attempt that is given up, or answered, needs nothing more.           *)
LEMMA EndsSpend ==
    ASSUME IInv, TInv, Charged, stage \in {"setup", "data", "status"},
           stage' \in {"idle", "retry"}
    PROVE  Charged' /\ Fuel' < Fuel
<1>1. Fuel' = 0
  BY DEF Fuel
<1>2. Fuel >= 1 /\ Fuel \in Nat
  BY FuelBounds, FuelTypes DEF Longest
<1> QED
  BY <1>1, <1>2 DEF Charged

LEMMA SetupSpends ==
    ASSUME IInv, TInv, Charged, control_setup
    PROVE  Charged' /\ Fuel' < Fuel
<1>1. /\ stage = "setup" /\ total' = 0 /\ stalls' = 0 /\ polls' = 0
      /\ UNCHANGED <<kind, wlen, mps>>
      /\ stage' \in {"idle", "retry"} \/ stage' = IF wlen > 0 THEN "data" ELSE "status"
  BY DEF control_setup, StartOver, Refused, DataOrStatus, TimeOut, Finish, request
<1>2. UNCHANGED <<StatusBudget, DataBudget(wlen)>>
  BY <1>1 DEF StatusBudget, DataBudget
<1>3. Charged'
  BY <1>1, FuelTypes DEF Charged
<1>4. Fuel = 2 + StatusBudget + DataBudget(wlen) /\ DataBudget(wlen) \in Nat
  BY <1>1, FuelTypes DEF Fuel, Longest
<1>5. CASE stage' = "data"
  <2>1. wlen' - total' = wlen
    BY <1>1, FuelTypes
  <2>2. DataBudget(wlen - total)' = DataBudget(wlen)
    BY <1>1, <2>1 DEF DataBudget
  <2>3. Fuel' = 1 + StatusBudget' + DataBudget(wlen - total)'
                 - (IF kind' = "in" THEN polls' ELSE stalls')
    BY <1>5 DEF Fuel
  <2>4. Fuel' = 1 + StatusBudget + DataBudget(wlen)
    BY <1>1, <1>2, <1>4, <2>2, <2>3, FuelTypes
  <2> QED
    BY <1>3, <1>4, <2>4, FuelTypes
<1>6. CASE stage' = "status"
  <2>1. Fuel' = 1 + StatusBudget' - (IF kind' = "in" THEN stalls' ELSE polls')
    BY <1>6 DEF Fuel
  <2>2. Fuel' = 1 + StatusBudget
    BY <1>1, <1>2, <2>1, FuelTypes
  <2> QED
    BY <1>3, <1>4, <2>2, FuelTypes
<1>7. CASE stage' \in {"idle", "retry"}
  BY <1>1, <1>7, EndsSpend
<1> QED
  BY <1>1, <1>5, <1>6, <1>7

LEMMA ReadSpends ==
    ASSUME IInv, TInv, Charged, in_data \/ in_data_none
    PROVE  Charged' /\ Fuel' < Fuel
<1>1. /\ stage = "data" /\ kind = "in" /\ polls < TotalCap /\ polls' = polls + 1
      /\ UNCHANGED <<kind, wlen, mps>>
      /\ stage' \in {"idle", "data"} \/ (stage' = "status" /\ stalls' = 0)
  BY DEF in_data, in_data_none, Copy, Finish, BudgetLeft, Spent, request
<1>2. UNCHANGED StatusBudget /\ StatusBudget = StallBudget
  BY <1>1 DEF StatusBudget
<1>3. Charged'
  BY <1>1, FuelTypes DEF Charged
<1>4. Fuel = 1 + StatusBudget + TotalCap - polls
  BY <1>1 DEF Fuel, DataBudget
<1>5. CASE stage' = "data"
  <2>1. Fuel' = 1 + StatusBudget + TotalCap - polls'
    BY <1>1, <1>2, <1>5 DEF Fuel, DataBudget
  <2> QED
    BY <1>1, <1>3, <1>4, <2>1, FuelTypes
<1>6. CASE stage' = "status" /\ stalls' = 0
  <2>1. Fuel' = 1 + StatusBudget
    BY <1>1, <1>2, <1>6, FuelTypes DEF Fuel
  <2> QED
    BY <1>1, <1>3, <1>4, <2>1, FuelTypes
<1> QED
  BY <1>1, <1>5, <1>6, EndsSpend

LEMMA WriteSpends ==
    ASSUME IInv, TInv, Charged, out_data
    PROVE  Charged' /\ Fuel' < Fuel
<1> DEFINE n == wlen - total
           p == Pieces(n, mps)
<1>1. /\ stage = "data" /\ kind = "out" /\ stalls < StallBudget
      /\ UNCHANGED <<kind, wlen, mps, polls>>
      /\ \/ /\ total' = total + Chunk /\ stalls' = 0
            /\ stage' = IF total + Chunk = wlen THEN "status" ELSE "data"
         \/ stalls' = stalls + 1 /\ UNCHANGED <<stage, total>>
  BY DEF out_data, Spent, request
<1>2. total < wlen /\ polls = 0
  BY <1>1, FuelTypes DEF IInv, Writing, Charged
<1>3. n \in Nat /\ n > 0 /\ Chunk = Least(mps, n) /\ p \in Nat /\ p >= 1
      /\ Pieces(n - Chunk, mps) = p - 1 /\ Chunk \in Nat
  <2>1. n \in Nat /\ n > 0
    BY <1>2, FuelTypes
  <2>2. Chunk = Least(mps, n)
    BY DEF Chunk
  <2>3. Chunk \in Nat
    BY <1>2, ChunkFacts DEF IInv
  <2> QED
    BY <2>1, <2>2, <2>3, PiecesFacts, FuelTypes
<1>4. UNCHANGED StatusBudget
  BY <1>1 DEF StatusBudget
<1>5. Charged'
  BY <1>1, <1>2, FuelTypes DEF Charged
<1>6. Fuel = 1 + StatusBudget + StallBudget * p - stalls
  BY <1>1 DEF Fuel, DataBudget
<1> HIDE DEF p
<1>7. StallBudget * p \in Nat /\ StallBudget * (p - 1) = StallBudget * p - StallBudget
      /\ StallBudget * (p - 1) \in Nat
  BY <1>3, FuelTypes
<1>8. CASE total' = total + Chunk /\ stalls' = 0 /\ stage' = "data"
  <2>1. wlen' - total' = n - Chunk
    BY <1>1, <1>3, <1>8, FuelTypes
  <2>2. DataBudget(wlen - total)' = StallBudget * (p - 1)
    BY <1>1, <1>3, <2>1 DEF DataBudget
  <2>3. Fuel' = 1 + StatusBudget' + StallBudget * (p - 1) - 0
    BY <1>1, <1>8, <2>2 DEF Fuel
  <2> QED
    BY <1>1, <1>4, <1>5, <1>6, <1>7, <2>3, FuelTypes
<1>9. CASE total' = total + Chunk /\ stalls' = 0 /\ stage' = "status"
  <2>1. Fuel' = 1 + StatusBudget' - 0
    BY <1>1, <1>2, <1>9 DEF Fuel
  <2> QED
    BY <1>1, <1>4, <1>5, <1>6, <1>7, <2>1, FuelTypes
<1>10. CASE stalls' = stalls + 1 /\ UNCHANGED <<stage, total>>
  <2>1. Fuel' = 1 + StatusBudget' + StallBudget * p - stalls'
    BY <1>1, <1>10 DEF Fuel, DataBudget, p
  <2> QED
    BY <1>1, <1>4, <1>5, <1>6, <1>7, <1>10, <2>1, FuelTypes
<1> QED
  BY <1>1, <1>8, <1>9, <1>10

(* The status stage of a read, and what moves no data.                     *)
LEMMA RetriesSpend ==
    ASSUME IInv, TInv, Charged, status_out \/ out_none
    PROVE  Charged' /\ Fuel' < Fuel
<1>1. /\ stage \in {"data", "status"} /\ (stage = "data" <=> kind = "out")
      /\ stalls < StallBudget
      /\ UNCHANGED <<kind, wlen, mps, polls, total>>
      /\ stage' = "idle" \/ (UNCHANGED stage /\ stalls' = stalls + 1)
  BY FuelTypes DEF status_out, out_none, Finish, Spent, request
<1>2. CASE UNCHANGED stage /\ stalls' = stalls + 1
  <2>1. UNCHANGED <<StatusBudget, DataBudget(wlen - total)>>
    BY <1>1 DEF StatusBudget, DataBudget
  <2>2. Charged'
    BY <1>1, <1>2 DEF Charged
  <2>3. CASE stage = "data"
    <3>1. wlen - total \in Nat
      BY <1>1, <2>3, FuelTypes DEF IInv, Writing
    <3>2. /\ Fuel = 1 + StatusBudget + DataBudget(wlen - total) - stalls
          /\ Fuel' = 1 + StatusBudget + DataBudget(wlen - total) - stalls'
      BY <1>1, <1>2, <2>1, <2>3, FuelTypes DEF Fuel
    <3> QED
      BY <1>2, <2>2, <3>1, <3>2, FuelTypes
  <2>4. CASE stage = "status"
    <3>1. Fuel = 1 + StatusBudget - stalls /\ Fuel' = 1 + StatusBudget - stalls'
      BY <1>1, <1>2, <2>1, <2>4, FuelTypes DEF Fuel
    <3> QED
      BY <1>2, <2>2, <3>1, FuelTypes
  <2> QED
    BY <1>1, <2>3, <2>4
<1> QED
  BY <1>1, <1>2, EndsSpend

LEMMA PollSpends ==
    ASSUME IInv, TInv, Charged,
           status_in \/ status_in_silent \/ status_in_nak \/ status_in_crc \/ status_in_bad
    PROVE  Charged' /\ Fuel' < Fuel
<1>1. /\ stage = "status" /\ kind = "out" /\ polls < StatusAttempts /\ polls' = polls + 1
      /\ UNCHANGED <<kind, wlen, mps>>
      /\ stage' = "idle" \/ UNCHANGED stage
  BY DEF status_in, status_in_silent, status_in_nak, status_in_crc, status_in_bad, Poll,
     PollsLeft, Spent, Finish, request
<1>2. CASE UNCHANGED stage
  <2>1. UNCHANGED StatusBudget
    BY <1>1 DEF StatusBudget
  <2>2. Charged'
    BY <1>1, <1>2, FuelTypes DEF Charged
  <2>3. Fuel = 1 + StatusBudget - polls /\ Fuel' = 1 + StatusBudget - polls'
    BY <1>1, <1>2, <2>1 DEF Fuel
  <2> QED
    BY <1>1, <2>2, <2>3, FuelTypes
<1> QED
  BY <1>1, <1>2, EndsSpend

LEMMA GivingUpSpends ==
    ASSUME IInv, TInv, Charged,
           in_data_timeout \/ out_timeout \/ status_in_exhausted \/ stall
    PROVE  Charged' /\ Fuel' < Fuel
<1>1. stage \in {"data", "status"} /\ stage' \in {"idle", "retry"}
  BY DEF in_data_timeout, out_timeout, status_in_exhausted, stall, TimeOut, Finish
<1> QED
  BY <1>1, EndsSpend

LEMMA TransactionSpends ==
    ASSUME IInv, TInv, Charged, Transaction
    PROVE  Charged' /\ Fuel' < Fuel
<1>1. ~Retry
  BY DEF Transaction, Retry
<1> QED
  BY <1>1, SetupSpends, ReadSpends, WriteSpends, RetriesSpend, PollSpends, GivingUpSpends
     DEF Transaction, Transfer

LEMMA RetryOnly ==
    ASSUME Transfer, stage = "retry"
    PROVE  Retry
BY DEF Transfer, control_setup, in_data, in_data_none, in_data_timeout, status_out, out_data,
   out_none, out_timeout, status_in, status_in_silent, status_in_nak, status_in_crc,
   status_in_bad, status_in_exhausted, stall, Poll

LEMMA ExecuteKeeps ==
    ASSUME Execute
    PROVE  UNCHANGED <<stage, polls, Fuel>>
<1>1. UNCHANGED <<stage, kind, wlen, mps, total, stalls, polls>>
  BY DEF Execute, request, counters
<1> QED
  BY <1>1 DEF Fuel, Longest, StatusBudget, DataBudget

LEMMA ChargedKept ==
    ASSUME IInv, TInv, Charged, [Next]_vars
    PROVE  Charged'
<1>1. CASE Execute
  <2>1. UNCHANGED <<stage, kind, polls>>
    BY <1>1 DEF Execute, request, counters
  <2> QED
    BY <2>1 DEF Charged
<1>2. CASE UNCHANGED vars
  <2>1. UNCHANGED <<stage, kind, polls>>
    BY <1>2 DEF vars, request, counters
  <2> QED
    BY <2>1 DEF Charged
<1>3. CASE Retry
  BY <1>3 DEF Charged, Retry
<1>4. CASE \E k \in {"in", "out"}, n, len \in Lengths : Request(k, n, len)
  <2>1. stage' \in {"setup", "idle"}
    BY <1>4 DEF Request, Finish
  <2> QED
    BY <2>1 DEF Charged
<1>5. CASE Transfer /\ ~Retry
  <2>1. Transaction
    BY <1>5, RetryOnly DEF Transaction
  <2> QED
    BY <2>1, TransactionSpends
<1> QED
  BY <1>1, <1>2, <1>3, <1>4, <1>5 DEF Next

(* A control transfer, which keeps the bus and its executor from its SETUP *)
(* to its result, takes at most Longest transactions whatever the device   *)
(* answers and the link loses: every transaction is charged to a budget,   *)
(* and a step that is none leaves them alone.                              *)
THEOREM TransferBounded ==
    Spec => []( /\ Fuel \in 0 .. Longest
                /\ stage = "setup" => Fuel = Longest )
            /\ [][ /\ Transaction => Fuel' < Fuel
                   /\ Execute => Fuel' = Fuel ]_vars
<1>1. Init => Charged
  BY DEF Init, Charged
<1>2. IInv /\ TInv /\ Charged /\ [Next]_vars => Charged'
  BY ChargedKept
<1>3. IInv /\ TInv /\ Charged =>
        [(Transaction => Fuel' < Fuel) /\ (Execute => Fuel' = Fuel)]_vars
  BY TransactionSpends, ExecuteKeeps
<1>4. IInv /\ TInv /\ Charged => Fuel \in 0 .. Longest /\ (stage = "setup" => Fuel = Longest)
  BY FuelBounds DEF Fuel
<1>5. IInv /\ TInv /\ [Next]_vars => TInv'
  BY BudgetsKept, ProgressKept, SizesKept, WithinKept, ServedKept, StutterTInv DEF TInv
<1> QED
  BY Inductive, InitTInv, <1>1, <1>2, <1>3, <1>4, <1>5, PTL DEF Spec
=============================================================================
