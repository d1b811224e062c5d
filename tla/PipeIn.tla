------------------------------- MODULE PipeIn -------------------------------
(***************************************************************************)
(* A bulk or interrupt IN pipe: PioPipe::request_in of embassy.rs, which   *)
(* polls until something else than Timeout comes back, Bus::request_in,    *)
(* in_once and in_reply of bus.rs, one transaction on the locked bus, and  *)
(* the device's endpoint at the other end of a lossy wire.  The host       *)
(* acknowledges every intact DATA packet before it looks at its toggle or  *)
(* its length.                                                             *)
(***************************************************************************)
EXTENDS Naturals, Sequences, FiniteSets

CONSTANTS
    Sizes,          \* payload sizes of the device's packets
    Rooms,          \* lengths of the buffers the caller passes
    MaxPackets,     \* bound: packets the device produces
    MaxRefusals,    \* bound: packets that do not fit the caller's buffer
    MaxHalts        \* bound: halts of the endpoint

ASSUME InAssumption ==
    /\ Sizes \subseteq Nat /\ Rooms \subseteq Nat
    /\ MaxPackets \in Nat /\ MaxRefusals \in Nat /\ MaxHalts \in Nat

VARIABLES
    toggle_data1,   \* PioPipe::toggle_data1
    phase,          \* where the pipe's future is, see Phase
    room,           \* out.len() of the request
    wire            \* what is on the bus, see Wire

VARIABLES
    data1,          \* the toggle of the packet the device sends
    halted,         \* the endpoint answers STALL
    loaded,         \* number of the packet in the device's buffer, 0 for none
    size            \* its length

VARIABLES
    made,           \* packets the device has produced
    acked,          \* packets the device saw acknowledged
    read,           \* packets returned to the caller
    refused,        \* packets that came back as BufferOverflow
    refusals, halts

host   == <<toggle_data1, phase, room>>
device == <<data1, halted, loaded, size, made, acked>>
caller == <<read, refused, refusals, halts>>
vars   == <<host, wire, device, caller>>

(* "lock" waits for the shared bus, "reply" holds it, "backoff" sleeps     *)
(* interval_us.  After a STALL the host stack clears the halt and calls    *)
(* reset_data_toggle.                                                      *)
Phase == {"idle", "lock", "reply", "backoff", "stalled", "cleared"}

Data == {"DATA0", "DATA1"}
Wire == Data \cup {"quiet", "IN", "ACK", "NAK", "STALL", "babble", "silence"}

DataPid(t) == IF t THEN "DATA1" ELSE "DATA0"

-----------------------------------------------------------------------------

Init ==
    /\ toggle_data1 = FALSE /\ phase = "idle" /\ room = 0
    /\ wire = "quiet"
    /\ data1 = FALSE /\ halted = FALSE /\ loaded = 0 /\ size = 0
    /\ made = 0 /\ acked = <<>> /\ read = <<>> /\ refused = {}
    /\ refusals = 0 /\ halts = 0

request_in(n) ==
    /\ phase = "idle"
    /\ refusals < MaxRefusals \/ \A s \in Sizes : s <= n
    /\ phase' = "lock" /\ room' = n
    /\ UNCHANGED <<toggle_data1, wire, device, caller>>

(* The IN token; it goes out once the ACK of the last transaction is gone. *)
in_token ==
    /\ phase = "lock" /\ wire = "quiet"
    /\ wire' = "IN" /\ phase' = "reply"
    /\ UNCHANGED <<toggle_data1, room, device, caller>>

(* The packet is the one the pipe waits for, and the caller has room. *)
ExpectedAny(pid) == pid \in Data

Expected(pid) == pid = DataPid(toggle_data1)

FitsStrict(n) == n < room

Fits(n) == n <= room

(* receive_data_and_ack fires the pre-staged ACK for every intact DATA. *)
HandshakeAny(pid) == IF pid \in Data \cup {"babble", "silence"} THEN "ACK" ELSE "quiet"

HandshakeMatching(pid) == IF Expected(pid) THEN "ACK" ELSE "quiet"

Handshake(pid) == IF pid \in Data THEN "ACK" ELSE "quiet"

Accept ==
    /\ Expected(wire) /\ Fits(size)
    /\ read' = Append(read, loaded)
    /\ toggle_data1' = ~toggle_data1
    /\ phase' = "idle"
    /\ UNCHANGED <<refused, refusals>>

(* BufferOverflow: acknowledged, not delivered, the toggle stays. *)
Overflow ==
    /\ Expected(wire) /\ ~Fits(size)
    /\ refused' = refused \cup {loaded} /\ refusals' = refusals + 1
    /\ phase' = "idle"
    /\ UNCHANGED <<toggle_data1, read>>

(* An old packet again, a NAK, or nothing usable: poll again later. *)
TryAgain ==
    /\ wire \in Data => ~Expected(wire)
    /\ wire \notin {"STALL", "babble"}
    /\ phase' = "backoff"
    /\ UNCHANGED <<toggle_data1, read, refused, refusals>>

(* More than the longest packet: an error for the caller, and no ACK. *)
Babble ==
    /\ wire = "babble"
    /\ phase' = "idle"
    /\ UNCHANGED <<toggle_data1, read, refused, refusals>>

Stalled ==
    /\ wire = "STALL"
    /\ phase' = "stalled"
    /\ UNCHANGED <<toggle_data1, read, refused, refusals>>

in_reply ==
    /\ phase = "reply" /\ wire # "IN"
    /\ Accept \/ Overflow \/ TryAgain \/ Babble \/ Stalled
    /\ wire' = Handshake(wire)
    /\ UNCHANGED <<room, device, halts>>

Wake ==
    /\ phase = "backoff" /\ phase' = "lock"
    /\ UNCHANGED <<toggle_data1, room, wire, device, caller>>

(* The future is dropped where it is suspended; the toggle lives on. *)
Cancel ==
    /\ phase \in {"lock", "backoff"} /\ phase' = "idle"
    /\ UNCHANGED <<toggle_data1, room, wire, device, caller>>

-----------------------------------------------------------------------------

DeviceLoad(n) ==
    /\ loaded = 0 /\ ~halted /\ made < MaxPackets
    /\ made' = made + 1 /\ loaded' = made + 1 /\ size' = n
    /\ UNCHANGED <<host, wire, data1, halted, acked, caller>>

(* The device sends the packet it has until somebody acknowledges it. *)
DeviceSend ==
    /\ wire = "IN" /\ loaded # 0 /\ ~halted
    /\ wire' = DataPid(data1)
    /\ UNCHANGED <<host, device, caller>>

(* It, or the noise behind its packet, goes on for too long. *)
DeviceBabble ==
    /\ wire = "IN"
    /\ wire' = "babble"
    /\ UNCHANGED <<host, device, caller>>

DeviceBusy ==
    /\ wire = "IN"
    /\ wire' = IF halted THEN "STALL" ELSE "NAK"
    /\ UNCHANGED <<host, device, caller>>

DeviceAcked ==
    /\ wire = "ACK"
    /\ wire' = "quiet"
    /\ data1' = ~data1
    /\ acked' = Append(acked, loaded) /\ loaded' = 0
    /\ UNCHANGED <<host, halted, size, made, caller>>

(* A halting endpoint drops what it had to send. *)
DeviceHalt ==
    /\ wire = "quiet" /\ ~halted /\ halts < MaxHalts
    /\ phase \notin {"stalled", "cleared"}
    /\ halted' = TRUE /\ halts' = halts + 1 /\ loaded' = 0
    /\ UNCHANGED <<host, wire, data1, size, made, acked, read, refused, refusals>>

(* Token, data or handshake is lost or damaged: nothing usable arrives,    *)
(* and nobody waits for an answer to a lost ACK.                           *)
Lose ==
    /\ wire \in Data \cup {"IN", "ACK", "NAK", "STALL"}
    /\ wire' = IF wire = "ACK" THEN "quiet" ELSE "silence"
    /\ UNCHANGED <<host, device, caller>>

(* CLEAR_FEATURE(ENDPOINT_HALT) reaches the device, on the control pipe;   *)
(* then the host stack resets the pipe's toggle to match.                  *)
ClearHalt ==
    /\ phase = "stalled" /\ phase' = "cleared"
    /\ halted' = FALSE /\ data1' = FALSE
    /\ UNCHANGED <<toggle_data1, room, wire, loaded, size, made, acked, caller>>

reset_data_toggleForgets ==
    /\ phase = "cleared" /\ phase' = "idle"
    /\ UNCHANGED <<toggle_data1, room, wire, device, caller>>

reset_data_toggle ==
    /\ phase = "cleared" /\ phase' = "idle"
    /\ toggle_data1' = FALSE
    /\ UNCHANGED <<room, wire, device, caller>>

Host ==
    \/ \E n \in Rooms : request_in(n)
    \/ in_token \/ in_reply \/ Wake \/ Cancel
    \/ reset_data_toggle

Device ==
    \/ \E n \in Sizes : DeviceLoad(n)
    \/ DeviceSend \/ DeviceBabble \/ DeviceBusy \/ DeviceAcked
    \/ DeviceHalt \/ ClearHalt

Next == Host \/ Device \/ Lose

Spec == Init /\ [][Next]_vars

(* The caller keeps reading and is not cancelled before its turn for ever, *)
(* the executor polls the future, the device answers, and the link is not  *)
(* dead: of infinitely many tries some reach the other side.               *)
Fairness ==
    /\ WF_vars(\E n \in Rooms : request_in(n))
    /\ SF_vars(in_token) /\ WF_vars(in_reply) /\ WF_vars(Wake)
    /\ SF_vars(wire \in Data /\ in_reply)
    /\ SF_vars(DeviceSend) /\ WF_vars(DeviceBusy) /\ SF_vars(DeviceAcked)
    /\ SF_vars(wire = "STALL" /\ in_reply)
    /\ WF_vars(ClearHalt) /\ WF_vars(reset_data_toggle)

FairSpec == Spec /\ Fairness

-----------------------------------------------------------------------------

Elements(s) == {s[i] : i \in DOMAIN s}

taken == loaded # 0 /\ read # <<>> /\ read[Len(read)] = loaded
doubt == phase # "cleared" /\ toggle_data1 # data1 /\ ~taken

(* Types and ranges. *)
TypeOK ==
    /\ toggle_data1 \in BOOLEAN /\ data1 \in BOOLEAN /\ halted \in BOOLEAN
    /\ phase \in Phase /\ wire \in Wire
    /\ room \in Rooms \cup {0} /\ size \in Sizes \cup {0}
    /\ made \in 0 .. MaxPackets /\ loaded \in {0, made}
    /\ acked \in Seq(1 .. MaxPackets) /\ read \in Seq(1 .. MaxPackets)
    /\ refused \subseteq 1 .. MaxPackets
    /\ refusals \in 0 .. MaxRefusals /\ halts \in 0 .. MaxHalts

(* The caller never reads a packet twice, nor one after a later one: a     *)
(* packet sent again because its ACK was lost is recognised by its toggle, *)
(* and dropping the future between two polls forgets nothing.              *)
InOrder == \A i, j \in DOMAIN read : i < j => read[i] < read[j]

(* Every packet the device saw acknowledged reached the caller, except the *)
(* one a BufferOverflow reports and the next one, which the pipe takes for *)
(* a repetition because the overflow left its toggle behind.               *)
RefusalCost == Cardinality(Elements(acked) \ Elements(read)) <= 2 * refusals

(* No livelock: while somebody reads, a packet does not stay in the device *)
(* for ever.  An old packet must be acknowledged again for that to hold.   *)
Drains == \A k \in 1 .. MaxPackets : loaded = k ~> loaded # k

(* The pipe implements the abstract channel, the device being the sender.  *)
Channel == INSTANCE ReliableChannel WITH
    last <- made, inflight <- loaded, taken <- taken, doubt <- doubt,
    log <- read, confirmed <- acked, refused <- refused

ChannelSpec == Channel!Spec
=============================================================================
