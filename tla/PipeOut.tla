------------------------------ MODULE PipeOut ------------------------------
(***************************************************************************)
(* A bulk or interrupt OUT pipe: PioPipe::request_out of embassy.rs, which *)
(* cuts a buffer into packets and retries each one, Bus::request_out and   *)
(* Bus::out_once of bus.rs, one transaction on the locked bus, and the     *)
(* device's endpoint at the other end of a lossy wire.                     *)
(***************************************************************************)
EXTENDS Naturals, Sequences, FiniteSets

CONSTANTS
    Mps,            \* the endpoint's maximum packet size
    Lengths,        \* lengths of the buffers the caller sends
    MaxPackets,     \* bound: packets begun
    MaxCancels,     \* bound: requests dropped by the caller
    MaxHalts        \* bound: halts of the endpoint

ASSUME OutAssumption ==
    /\ Mps \in Nat \ {0}
    /\ Lengths \subseteq Nat
    /\ MaxPackets \in Nat /\ MaxCancels \in Nat /\ MaxHalts \in Nat

VARIABLES
    toggle_data1,   \* PioPipe::toggle_data1
    phase,          \* where the pipe's future is, see Phase
    queue,          \* sizes of the packets of this request not yet sent
    wire            \* what is on the bus, see Wire

VARIABLES
    expect_data1,   \* the device's own toggle
    halted,         \* the endpoint answers STALL
    got,            \* numbers of the packets the device took
    partial,        \* bytes of the message the device is receiving
    messages        \* lengths of the messages it has received

(* What the caller sees, and the bounds' counters. *)
VARIABLES
    begun,          \* packets begun so far, the number of the current one
    oks,            \* numbers of the packets that returned Ok
    promised,       \* lengths of the messages asked for and closed
    owed,           \* bytes asked for since the last closed message
    cancels, halts

host   == <<toggle_data1, phase, queue>>
device == <<expect_data1, halted, got, partial, messages>>
caller == <<begun, oks, promised, owed, cancels, halts>>
vars   == <<host, wire, device, caller>>

(* "chunk" is request_out between two packets, "lock" waits for the shared *)
(* bus, "reply" holds it, "backoff" sleeps interval_us.  After a STALL the *)
(* host stack clears the halt and calls reset_data_toggle.                 *)
Phase == {"idle", "chunk", "lock", "reply", "backoff", "stalled", "cleared"}

Data == {"DATA0", "DATA1"}
Wire == Data \cup {"quiet", "ACK", "NAK", "STALL", "silence"}

DataPid(t) == IF t THEN "DATA1" ELSE "DATA0"

-----------------------------------------------------------------------------

(* A zero-length packet ends a transfer the packet sizes leave open. *)
NeverZlp(len, ensure) == FALSE

needs_terminating_zlp(len, ensure) ==
    ensure /\ len # 0 /\ len % Mps = 0

PacketsUncut(len, ensure) ==
    <<len>>

(* buf.chunks(mps), then the zero-length packet. *)
Packets(len, ensure) ==
    LET full  == [i \in 1 .. len \div Mps |-> Mps]
        rest  == IF len % Mps # 0 THEN <<len % Mps>> ELSE <<>>
        empty == IF len = 0 \/ needs_terminating_zlp(len, ensure) THEN <<0>> ELSE <<>>
    IN  full \o rest \o empty

(* The device sees the end of a message in a packet shorter than Mps. *)
Closes(len, ensure) == ensure \/ len = 0 \/ len % Mps # 0

Init ==
    /\ toggle_data1 = FALSE /\ phase = "idle" /\ queue = <<>>
    /\ wire = "quiet"
    /\ expect_data1 = FALSE /\ halted = FALSE
    /\ got = <<>> /\ partial = 0 /\ messages = <<>>
    /\ begun = 0 /\ oks = <<>> /\ promised = <<>> /\ owed = 0
    /\ cancels = 0 /\ halts = 0

request_out(len, ensure) ==
    /\ phase = "idle"
    /\ begun + Len(Packets(len, ensure)) <= MaxPackets
    /\ queue' = Packets(len, ensure)
    /\ phase' = "chunk"
    /\ promised' = IF Closes(len, ensure) THEN Append(promised, owed + len) ELSE promised
    /\ owed' = IF Closes(len, ensure) THEN 0 ELSE owed + len
    /\ UNCHANGED <<toggle_data1, wire, device, begun, oks, cancels, halts>>

(* The next packet of the request, or Ok(()) to the caller. *)
request_out_packet ==
    /\ phase = "chunk" /\ queue # <<>>
    /\ begun' = begun + 1
    /\ phase' = "lock"
    /\ UNCHANGED <<toggle_data1, queue, wire, device, oks, promised, owed, cancels, halts>>

request_out_ok ==
    /\ phase = "chunk" /\ queue = <<>>
    /\ phase' = "idle"
    /\ UNCHANGED <<toggle_data1, queue, wire, device, caller>>

(* The bus is ours: OUT token and DATA with the current toggle. *)
out_once ==
    /\ phase = "lock"
    /\ wire' = DataPid(toggle_data1)
    /\ phase' = "reply"
    /\ UNCHANGED <<toggle_data1, queue, device, caller>>

(* The handshake decides: only an ACK advances the toggle and the request. *)
AckedByNak(handshake) == handshake \in {"ACK", "NAK"}

Acked(handshake) == handshake = "ACK"

FlippedAlways(handshake) == ~toggle_data1

FlippedNever(handshake) == toggle_data1

Flipped(handshake) == IF Acked(handshake) THEN ~toggle_data1 ELSE toggle_data1

receive ==
    /\ phase = "reply" /\ wire \notin Data
    /\ toggle_data1' = Flipped(wire)
    /\ \/ /\ Acked(wire)
          /\ queue' = Tail(queue) /\ phase' = "chunk"
          /\ oks' = Append(oks, begun)
       \/ /\ wire = "STALL"
          /\ queue' = <<>> /\ phase' = "stalled"
          /\ UNCHANGED oks
       \/ /\ ~Acked(wire) /\ wire # "STALL"
          /\ phase' = "backoff"
          /\ UNCHANGED <<queue, oks>>
    /\ wire' = "quiet"
    /\ UNCHANGED <<device, begun, promised, owed, cancels, halts>>

Wake ==
    /\ phase = "backoff" /\ phase' = "lock"
    /\ UNCHANGED <<toggle_data1, queue, wire, device, caller>>

(* The future is dropped where it is suspended; the toggle lives on. *)
Cancel ==
    /\ phase \in {"lock", "backoff"} /\ cancels < MaxCancels
    /\ phase' = "idle" /\ queue' = <<>>
    /\ cancels' = cancels + 1
    /\ UNCHANGED <<toggle_data1, wire, device, begun, oks, promised, owed, halts>>

-----------------------------------------------------------------------------

(* The device: take a packet with the toggle it expects, acknowledge an    *)
(* old one again without taking it, or be busy, or halted.                 *)
DeviceTake ==
    /\ wire = DataPid(expect_data1) /\ ~halted
    /\ wire' = "ACK"
    /\ expect_data1' = ~expect_data1
    /\ got' = Append(got, begun)
    /\ LET size == Head(queue)
       IN  IF size < Mps
           THEN partial' = 0 /\ messages' = Append(messages, partial + size)
           ELSE partial' = partial + size /\ UNCHANGED messages
    /\ UNCHANGED <<host, halted, caller>>

DeviceDiscard ==
    /\ wire = DataPid(~expect_data1) /\ ~halted
    /\ wire' = "ACK"
    /\ UNCHANGED <<host, device, caller>>

DeviceBusy ==
    /\ wire \in Data
    /\ wire' = IF halted THEN "STALL" ELSE "NAK"
    /\ UNCHANGED <<host, device, caller>>

DeviceHalt ==
    /\ wire = "quiet" /\ ~halted /\ halts < MaxHalts
    /\ phase \notin {"stalled", "cleared"}
    /\ halted' = TRUE /\ halts' = halts + 1
    /\ UNCHANGED <<host, wire, expect_data1, got, partial, messages,
                   begun, oks, promised, owed, cancels>>

(* Token, data or handshake is lost or damaged: nothing usable arrives. *)
Lose ==
    /\ wire \in Data \cup {"ACK", "NAK", "STALL"}
    /\ wire' = "silence"
    /\ UNCHANGED <<host, device, caller>>

(* CLEAR_FEATURE(ENDPOINT_HALT) reaches the device, on the control pipe;   *)
(* then the host stack resets the pipe's toggle to match.                  *)
ClearHalt ==
    /\ phase = "stalled" /\ phase' = "cleared"
    /\ halted' = FALSE /\ expect_data1' = FALSE
    /\ UNCHANGED <<toggle_data1, queue, wire, got, partial, messages, caller>>

reset_data_toggleForgets ==
    /\ phase = "cleared" /\ phase' = "idle"
    /\ UNCHANGED <<toggle_data1, queue, wire, device, caller>>

reset_data_toggle ==
    /\ phase = "cleared" /\ phase' = "idle"
    /\ toggle_data1' = FALSE
    /\ UNCHANGED <<queue, wire, device, caller>>

Host ==
    \/ \E len \in Lengths, ensure \in BOOLEAN : request_out(len, ensure)
    \/ request_out_packet \/ request_out_ok
    \/ out_once \/ receive \/ Wake \/ Cancel
    \/ reset_data_toggle

Device ==
    \/ DeviceTake \/ DeviceDiscard \/ DeviceBusy
    \/ DeviceHalt \/ ClearHalt

Next == Host \/ Device \/ Lose

Spec == Init /\ [][Next]_vars

-----------------------------------------------------------------------------

Elements(s) == {s[i] : i \in DOMAIN s}

IsPrefixOf(s, t) == Len(s) <= Len(t) /\ \A i \in DOMAIN s : s[i] = t[i]

(* The packet the pipe is working on, 0 for none, and whether the device   *)
(* has it already.                                                         *)
current == IF phase \in {"lock", "reply", "backoff"} THEN begun ELSE 0
taken   == current # 0 /\ got # <<>> /\ got[Len(got)] = current
doubt   == phase # "cleared" /\ toggle_data1 # expect_data1 /\ ~taken

(* Types and ranges; no packet is larger than the endpoint takes. *)
TypeOK ==
    /\ toggle_data1 \in BOOLEAN /\ expect_data1 \in BOOLEAN /\ halted \in BOOLEAN
    /\ phase \in Phase /\ wire \in Wire
    /\ queue \in Seq(0 .. Mps)
    /\ got \in Seq(1 .. MaxPackets) /\ oks \in Seq(1 .. MaxPackets)
    /\ partial \in Nat /\ owed \in Nat
    /\ messages \in Seq(Nat) /\ promised \in Seq(Nat)
    /\ begun \in 0 .. MaxPackets
    /\ cancels \in 0 .. MaxCancels /\ halts \in 0 .. MaxHalts

(* Whatever is lost, retried, cancelled or halted, the device never takes  *)
(* a packet twice and never takes one after a later one: a retry carries   *)
(* the toggle of the packet it repeats.                                    *)
InOrder == \A i, j \in DOMAIN got : i < j => got[i] < got[j]

(* While no request is cancelled and the endpoint not halted, Ok means     *)
(* taken, in order, and the device is at most one packet ahead of what the *)
(* caller was told (its ACK is on the wire or was lost).                   *)
ExactlyOnce ==
    cancels = 0 /\ halts = 0 => IsPrefixOf(oks, got) /\ Len(got) <= Len(oks) + 1

(* A packet that returned Ok and was thrown away by the device is the      *)
(* price of a cancelled request, and each cancellation costs one at most.  *)
(* Halts cost none: reset_data_toggle puts both ends back in step.         *)
CancelCost == Cardinality(Elements(oks) \ Elements(got)) <= cancels

(* The device reassembles the buffers the caller sent: chunks and          *)
(* zero-length packets put the message boundaries where they were asked.   *)
Framing ==
    cancels = 0 /\ halts = 0 =>
        /\ IsPrefixOf(messages, promised)
        /\ phase = "idle" => messages = promised /\ partial = owed

(* The pipe implements the abstract channel. *)
Channel == INSTANCE ReliableChannel WITH
    last <- begun, inflight <- current, taken <- taken, doubt <- doubt,
    log <- got, confirmed <- oks, refused <- {}

ChannelSpec == Channel!Spec
=============================================================================
