---------------------------- MODULE ControlPipe ----------------------------
(***************************************************************************)
(* Control transfers: Bus::control_setup, control_in and control_out of    *)
(* bus.rs, the retry of PioPipe::control_in and control_out in embassy.rs, *)
(* and the device's endpoint 0.  A transfer keeps the bus from its SETUP   *)
(* to its result; each transaction in it is one step, whose token, data or *)
(* handshake may be lost, so that the two ends disagree about it.          *)
(***************************************************************************)
EXTENDS Naturals

CONSTANTS
    DevMps,             \* maximum packet size of the device's endpoint 0
    HostMps,            \* sizes the host stack may have configured
    Lengths,            \* lengths of data stages and of the caller's buffers
    StallBudget,        \* DATA_STALL_BUDGET
    TotalCap,           \* DATA_TOTAL_CAP
    StatusAttempts,     \* STATUS_POLL_ATTEMPTS
    CrcBudget,          \* STATUS_CRC_ERROR_BUDGET
    MaxAttempts         \* bound: transfers before the deadline

ASSUME ControlAssumption ==
    /\ DevMps \in Nat \ {0} /\ HostMps \subseteq Nat \ {0}
    /\ Lengths \subseteq Nat
    /\ StallBudget \in Nat \ {0} /\ TotalCap \in Nat \ {0}
    /\ StatusAttempts \in Nat \ {0} /\ CrcBudget \in Nat \ {0}
    /\ MaxAttempts \in Nat \ {0}

VARIABLES
    kind, wlen, mps,    \* the request: "in" or "out", its length, PioPipe::mps
    room,               \* data.len() of a read
    stage,              \* of the host: "idle", "setup", "data", "status", "retry"
    total,              \* bytes copied, or sent and acknowledged
    toggle,             \* expect_data1, toggle_data1
    stalls, polls, crcs, replied,   \* the loops' counters and got_any_reply
    attempts,           \* SETUPs of this request so far
    result              \* what the caller got last

VARIABLES
    has,                \* bytes the device has for a read
    honours,            \* it sends no more than wLength
    dstage,             \* of the device: "none", "in", "out", "status", "done"
    offset,             \* bytes it knows delivered, or has received
    dtoggle,            \* toggle of the next data packet, TRUE for DATA1
    serves              \* the attempt whose SETUP it heard last, 0 for an earlier
                        \* request's

request == <<kind, wlen, mps, room>>
counters == <<stalls, polls, crcs, replied>>
nature == <<has, honours>>
device == <<dstage, offset, dtoggle, serves>>
vars == <<request, stage, total, toggle, counters, attempts, result, nature, device>>

Least(m, n) == IF m < n THEN m ELSE n

-----------------------------------------------------------------------------

Init ==
    /\ kind = "out" /\ wlen = 0 /\ mps \in HostMps /\ room = 0
    /\ stage = "idle" /\ total = 0 /\ toggle = TRUE
    /\ stalls = 0 /\ polls = 0 /\ crcs = 0 /\ replied = FALSE
    /\ attempts = 0 /\ result = "none"
    /\ has \in Lengths \ {0} /\ honours \in BOOLEAN
    /\ dstage = "none" /\ offset = 0 /\ dtoggle = TRUE /\ serves = 0

Finish(r) == stage' = "idle" /\ result' = r

(* The caller's request.  Of a read whose buffer is too short for wLength  *)
(* not even the SETUP is sent.                                             *)
Request(k, n, len) ==
    /\ stage = "idle"
    /\ kind' = k /\ wlen' = n /\ room' = len
    /\ \/ (k = "in" => n <= len) /\ stage' = "setup" /\ result' = "none"
       \/ k = "in" /\ n > len /\ Finish("BufferOverflow")
    /\ attempts' = 1 /\ serves' = 0
    /\ UNCHANGED <<mps, total, toggle, counters, nature, dstage, offset, dtoggle>>

(* A Timeout is retried from the SETUP until the deadline has passed; any  *)
(* other error goes to the caller.                                         *)
TimeOut ==
    \/ stage' = "retry" /\ attempts < MaxAttempts /\ UNCHANGED result
    \/ Finish("Timeout")

RetryFreshDeadline ==
    /\ stage = "retry"
    /\ stage' = "setup"
    /\ UNCHANGED <<request, total, toggle, counters, attempts, result, nature, device>>

Retry ==
    /\ stage = "retry"
    /\ stage' = "setup" /\ attempts' = attempts + 1
    /\ UNCHANGED <<request, total, toggle, counters, result, nature, device>>

-----------------------------------------------------------------------------

(* SETUP: the device takes every one it hears and starts over.  A read of  *)
(* no byte it may take for a request whose status stage is IN, and then not*)
(* answer the OUT of the host's.                                           *)
DeviceSetup ==
    /\ dstage' \in IF kind = "in" THEN IF wlen > 0 THEN {"in"} ELSE {"in", "none"}
                   ELSE IF wlen > 0 THEN {"out"} ELSE {"status"}
    /\ offset' = 0 /\ dtoggle' = TRUE /\ serves' = attempts

(* Every attempt starts with fresh local variables.                        *)
StartOverKeepsToggle ==
    /\ total' = 0 /\ stalls' = 0 /\ polls' = 0
    /\ crcs' = 0 /\ replied' = FALSE
    /\ UNCHANGED toggle

StartOver ==
    /\ total' = 0 /\ toggle' = TRUE /\ stalls' = 0 /\ polls' = 0
    /\ crcs' = 0 /\ replied' = FALSE

DataOrStatus == stage' = (IF wlen > 0 THEN "data" ELSE "status") /\ UNCHANGED result

(* No ACK is a Timeout, a STALL is the end. *)
RefusedIgnored == DataOrStatus \/ Finish("Stall")

Refused == TimeOut \/ Finish("Stall")

control_setup ==
    /\ stage = "setup"
    /\ StartOver
    /\ \/ UNCHANGED device /\ Refused
       \/ DeviceSetup /\ (Refused \/ DataOrStatus)
    /\ UNCHANGED <<request, attempts, nature>>

-----------------------------------------------------------------------------

(* Every try is charged to its loop's budget. *)
Spent(n) == n + 1

(* The data stage of a read. *)
Offered == IF honours THEN Least(wlen, has) ELSE has
PacketLen == Least(DevMps, Offered - offset)

BudgetLeftInclusive == stalls <= StallBudget /\ polls <= TotalCap

BudgetLeft == stalls < StallBudget /\ polls < TotalCap

CompletedEarly(n, sum) == n <= mps \/ sum >= wlen

Completed(n, sum) == n < mps \/ sum >= wlen

FlippedNever(t) == t

Flipped(t) == ~t

(* DATA from the device; the host acknowledges it, and the ACK may be lost. *)
DeviceSent(n) ==
    \/ UNCHANGED device
    \/ /\ offset' = offset + n /\ dtoggle' = ~dtoggle
       /\ dstage' = IF n < DevMps \/ (honours /\ offset + n = wlen) THEN "done" ELSE dstage
       /\ UNCHANGED serves

Copy(n) ==
    IF total + n > room
    THEN Finish("BufferOverflow") /\ UNCHANGED <<total, toggle, stalls>>
    ELSE /\ total' = total + n
         /\ toggle' = Flipped(toggle)
         /\ stalls' = 0
         /\ stage' = IF Completed(n, total + n) THEN "status" ELSE "data"
         /\ UNCHANGED result

in_data ==
    /\ stage = "data" /\ kind = "in" /\ BudgetLeft
    /\ dstage = "in"
    /\ polls' = Spent(polls)
    /\ DeviceSent(PacketLen)
    /\ IF dtoggle = toggle
       THEN Copy(PacketLen)
       ELSE stalls' = Spent(stalls) /\ UNCHANGED <<stage, result, total, toggle>>
    /\ UNCHANGED <<request, crcs, replied, attempts, nature>>

(* NAK, a lost or damaged packet, or a reply that is no DATA: poll again. *)
in_data_none ==
    /\ stage = "data" /\ kind = "in" /\ BudgetLeft
    /\ polls' = Spent(polls) /\ stalls' = Spent(stalls)
    /\ UNCHANGED <<request, stage, total, toggle, crcs, replied, attempts, result,
                   nature, device>>

in_data_timeout ==
    /\ stage = "data" /\ kind = "in" /\ ~BudgetLeft
    /\ TimeOut
    /\ UNCHANGED <<request, total, toggle, counters, attempts, nature, device>>

(* The status stage of a read: OUT with an empty DATA1.                    *)
status_out ==
    /\ stage = "status" /\ kind = "in" /\ stalls < StallBudget
    /\ dstage \in {"in", "done"}
    /\ dstage' = "done"
    /\ \/ Finish("Ok") /\ UNCHANGED stalls
       \/ stalls' = Spent(stalls) /\ UNCHANGED <<stage, result>>
    /\ UNCHANGED <<request, total, toggle, polls, crcs, replied, attempts, nature,
                   offset, dtoggle, serves>>

-----------------------------------------------------------------------------

(* The data stage of a write: chunks of mps, each retried until its ACK.   *)
Chunk == Least(mps, wlen - total)

DeviceReceive(t, n) ==
    IF dstage = "out" /\ dtoggle = t
    THEN /\ offset' = offset + n /\ dtoggle' = ~dtoggle
         /\ dstage' = IF offset + n = wlen THEN "status" ELSE "out"
         /\ UNCHANGED serves
    ELSE UNCHANGED device

out_data ==
    /\ stage = "data" /\ kind = "out" /\ stalls < StallBudget
    /\ dstage # "none" /\ Chunk <= DevMps
    /\ DeviceReceive(toggle, Chunk)
    /\ \/ /\ total' = total + Chunk
          /\ toggle' = Flipped(toggle)
          /\ stalls' = 0
          /\ stage' = IF total + Chunk = wlen THEN "status" ELSE "data"
       \/ stalls' = Spent(stalls) /\ UNCHANGED <<stage, total, toggle>>
    /\ UNCHANGED <<request, polls, crcs, replied, attempts, result, nature>>

(* NAK, or the packet or its handshake is lost, with nothing done: retry.  *)
out_none ==
    /\ \/ stage = "data" /\ kind = "out"
       \/ stage = "status" /\ kind = "in"
    /\ stalls < StallBudget
    /\ stalls' = Spent(stalls)
    /\ UNCHANGED <<request, stage, total, toggle, polls, crcs, replied, attempts,
                   result, nature, device>>

out_timeout ==
    /\ \/ stage = "data" /\ kind = "out"
       \/ stage = "status" /\ kind = "in"
    /\ stalls = StallBudget
    /\ TimeOut
    /\ UNCHANGED <<request, total, toggle, counters, attempts, nature, device>>

-----------------------------------------------------------------------------

(* The status stage of a write: IN until the device returns an empty DATA  *)
(* packet, which it does once it has carried the request out.              *)
PollsLeft == polls < StatusAttempts /\ crcs < CrcBudget

Poll == stage = "status" /\ kind = "out" /\ PollsLeft /\ polls' = Spent(polls)

(* An IN tells a device that waits for data that there is no more: it will *)
(* carry out what it has got.                                              *)
DeviceTurns == dstage' = IF dstage = "out" THEN "status" ELSE dstage

status_in ==
    /\ Poll /\ dstage = "done"
    /\ Finish("Ok")
    /\ UNCHANGED <<request, total, toggle, stalls, crcs, replied, attempts, nature, device>>

status_in_silent ==
    /\ Poll
    /\ UNCHANGED <<request, stage, total, toggle, stalls, crcs, replied, attempts,
                   result, nature, device>>

status_in_nak ==
    /\ Poll
    /\ replied' = TRUE
    /\ DeviceTurns
    /\ UNCHANGED <<request, stage, total, toggle, stalls, crcs, attempts, result,
                   nature, offset, dtoggle, serves>>

status_in_crc ==
    /\ Poll /\ dstage = "done"
    /\ replied' = TRUE /\ crcs' = Spent(crcs)
    /\ UNCHANGED <<request, stage, total, toggle, stalls, attempts, result, nature, device>>

(* A packet that is neither NAK nor an empty DATA. *)
status_in_bad ==
    /\ Poll
    /\ Finish("BadResponse")
    /\ UNCHANGED <<request, total, toggle, stalls, crcs, replied, attempts, nature, device>>

status_in_exhausted ==
    /\ stage = "status" /\ kind = "out" /\ ~PollsLeft
    /\ \/ ~replied /\ Finish("Disconnected")
       \/ replied /\ crcs >= CrcBudget /\ Finish("BadResponse")
       \/ replied /\ crcs < CrcBudget /\ TimeOut
    /\ UNCHANGED <<request, total, toggle, counters, attempts, nature, device>>

-----------------------------------------------------------------------------

(* The device refuses the request in any transaction after the SETUP, or   *)
(* answers an IN with more than the host's buffer holds.                   *)
stall ==
    /\ stage \in {"data", "status"}
    /\ \/ Finish("Stall")
       \/ kind = (IF stage = "data" THEN "in" ELSE "out") /\ Finish("Babble")
    /\ UNCHANGED <<request, total, toggle, counters, attempts, nature, device>>

(* It takes its time over a write, and other tasks' transactions with other *)
(* endpoints may go on meanwhile. *)
Execute ==
    /\ dstage = "status"
    /\ dstage' = "done"
    /\ UNCHANGED <<request, stage, total, toggle, counters, attempts, result, nature,
                   offset, dtoggle, serves>>

Transfer ==
    \/ Retry \/ control_setup
    \/ in_data \/ in_data_none \/ in_data_timeout \/ status_out
    \/ out_data \/ out_none \/ out_timeout
    \/ status_in \/ status_in_silent \/ status_in_nak \/ status_in_crc
    \/ status_in_bad \/ status_in_exhausted
    \/ stall

Next ==
    \/ \E k \in {"in", "out"}, n, len \in Lengths : Request(k, n, len)
    \/ Transfer
    \/ Execute

Spec == Init /\ [][Next]_vars

(* The transfer's loop runs on; whatever the device does, a transaction    *)
(* has an outcome.                                                         *)
FairSpec == Spec /\ WF_vars(Transfer)

-----------------------------------------------------------------------------

(* Types and ranges. *)
TypeOK ==
    /\ kind \in {"in", "out"} /\ wlen \in Lengths \cup {0} /\ mps \in HostMps
    /\ room \in Lengths \cup {0}
    /\ stage \in {"idle", "setup", "data", "status", "retry"}
    /\ total \in 0 .. (IF kind = "in" THEN room ELSE wlen) \/ stage \in {"idle", "setup"}
    /\ toggle \in BOOLEAN /\ dtoggle \in BOOLEAN /\ replied \in BOOLEAN
    /\ stalls \in 0 .. StallBudget /\ crcs \in 0 .. CrcBudget
    /\ polls \in 0 .. (IF TotalCap > StatusAttempts THEN TotalCap ELSE StatusAttempts)
    /\ attempts \in 0 .. MaxAttempts
    /\ result \in {"none", "Ok", "Timeout", "Stall", "BadResponse", "BufferOverflow",
                   "Disconnected", "Babble"}
    /\ has \in Lengths /\ honours \in BOOLEAN
    /\ dstage \in {"none", "in", "out", "status", "done"}
    /\ offset \in Nat /\ serves \in 0 .. MaxAttempts

(* In the data stage of a read the toggles tell the two ends apart: equal,  *)
(* the host has what the device knows delivered; different, it has one      *)
(* packet more, the one whose ACK was lost.                                 *)
ReadInStep ==
    stage = "data" /\ kind = "in" =>
        total = IF toggle = dtoggle THEN offset ELSE offset + PacketLen

(* The same for a write, the other way round. *)
WriteInStep ==
    stage = "data" /\ kind = "out" =>
        offset = IF toggle = dtoggle THEN total ELSE total + Chunk

(* A read that returns Ok has all of the device's bytes up to wLength, and *)
(* no more of a device that honours it, unless the host stack configured   *)
(* larger packets than the device sends.  Of one that does not, what came  *)
(* in the last packet may be more, if there is room for it.                *)
ReadComplete ==
    result = "Ok" /\ kind = "in" /\ mps <= DevMps =>
        /\ total >= Least(wlen, has) /\ total <= Least(room, has)
        /\ honours => total <= wlen

(* Of a write that returns Ok the device has all the data, and it has them *)
(* from the last attempt, not from one that timed out before.  The host    *)
(* alone sees to that: a device takes the first IN it hears for the end of *)
(* the data stage, drops a repeated packet in spite of its ACK, and answers*)
(* the status stage of a request it has carried out whoever asks.          *)
WriteComplete ==
    result = "Ok" /\ kind = "out" => offset = wlen /\ serves = attempts

(* A transfer gives the bus back, whatever the device answers and the link  *)
(* loses: every loop has a budget that something spends.                    *)
Terminates == stage # "idle" ~> stage = "idle"
=============================================================================
