----------------------------- MODULE RxCapture -----------------------------
(***************************************************************************)
(* Reception of a device's packet: the edge detector and the NRZI decoder  *)
(* of rx_pio.rs, which run freely, the decoder's FIFO and the IRQ flags,   *)
(* and RxDriver::receive, which polls them and may be interrupted between  *)
(* any two of its reads.  One step of the line is one bit time: the        *)
(* detector's eight-fold oversampling is taken to find every bit once.     *)
(***************************************************************************)
EXTENDS UsbPackets, Sequences

CONSTANTS
    Packets,            \* what a device sends, in bytes
    Crc(_, _),          \* crc16_update
    Sums,               \* of each packet, the CRC after each byte from the PID on
    Gaps,               \* bit times of idle before the device answers
    Malformed,          \* the line may also glitch, or a packet be cut off
    Room,               \* out.len()
    FifoDepth,          \* words of the joined RX FIFO, 8 in the chip
    SopBits,            \* RX_SOP_TIMEOUT_US in bit times
    DrainBits,          \* RX_DRAIN_TIMEOUT_US in bit times
    MaxReceives,        \* bound: packets received one after the other
    MaxDelay            \* bound: bit times of the one interruption of the CPU

(* A packet has its SYNC and a PID, and if nothing else it is a handshake. *)
ASSUME PacketsAssumption ==
    \A p \in Packets :
        /\ p \in Seq(0 .. 255) /\ Len(p) >= 2 /\ p[1] = USB_SYNC
        /\ Len(p) = 2 => p[2] \in {USB_PID_ACK, USB_PID_NAK, USB_PID_STALL}

(* A DATA packet ends in the CRC of what it carries. *)
ASSUME CrcAssumption ==
    \A p \in Packets : p[2] \in {USB_PID_DATA0, USB_PID_DATA1} =>
        /\ Len(p) >= 4 /\ Sums[p][Len(p)] = USB_CRC16_RESIDUE
        /\ Sums[p][2] = 65535
        /\ \A i \in 3 .. Len(p) : Sums[p][i] = Crc(Sums[p][i - 1], p[i])

(* An answer begins within the first timeout, with a bit time to see it in,*)
(* and a byte with two stuffed bits is shorter than the second.            *)
ASSUME RxAssumption ==
    /\ Malformed \in BOOLEAN
    /\ \A n \in {Room, FifoDepth, SopBits, DrainBits, MaxReceives} : n \in Nat \ {0}
    /\ MaxDelay \in Nat
    /\ Gaps \subseteq Nat /\ \A g \in Gaps : g + 2 <= SopBits
    /\ DrainBits >= 9

VARIABLES
    line,               \* the level now
    gap, rest, byte,    \* idle bit times, bytes and bits the device has yet to send
    ones, end,          \* ones in a row it sent, and the SE0s still to come
    det,                \* the edge detector: "eop", "start" or "run"
    irq_start, irq_eop, \* IRQ_RX_START and IRQ_RX_EOP
    dec_x, dec_y, isr, fifo,    \* the decoder's registers and RX FIFO
    trigger             \* DECODER_TRIGGER, not yet taken by the decoder

VARIABLES
    pc,                 \* where receive is
    out, idx, overflowed, crc,      \* its variables
    waited,             \* now_us() - tw or now_us() - td, in bit times
    status              \* its result

VARIABLES
    sent,               \* the packet being sent, <<>> for none
    late,               \* it had begun when the receiver was started
    receives, delay, looked,        \* the bounds, and who is next
    prompt              \* the CPU has never been interrupted

device == <<line, gap, rest, byte, ones, end>>
decoder == <<dec_x, dec_y, isr, fifo>>
pio    == <<det, irq_start, irq_eop, decoder, trigger>>
host   == <<out, idx, overflowed, crc, status>>
vars   == <<device, pio, pc, host, waited, sent, late, receives, delay, looked, prompt>>

AtMost(n, cap) == IF n < cap THEN n ELSE cap

-----------------------------------------------------------------------------

Octets(p) == [i \in 1 .. Len(p) |-> Octet(p[i])]

(* The first n bits of a NAK. *)
CutOff(n) ==
    IF n <= 8 THEN <<SubSeq(Octet(USB_SYNC), 1, n)>>
    ELSE <<Octet(USB_SYNC), SubSeq(Octet(USB_PID_NAK), 1, n - 8)>>

(* What the device does next: a packet, silence, or in a malformed world a *)
(* packet without its end, of which the shortest is a glitch.              *)
Transmissions ==
    {[packet |-> p, gap |-> g, rest |-> Octets(p), end |-> 2] : p \in Packets, g \in Gaps}
    \cup {[packet |-> <<>>, gap |-> 0, rest |-> <<>>, end |-> 0]}
    \cup IF Malformed
         THEN {[packet |-> <<>>, gap |-> 0, rest |-> CutOff(n), end |-> 0] : n \in 1 .. 16}
         ELSE {}

Other(level) == IF level = "J" THEN "K" ELSE "J"

Coming == IF byte # <<>> THEN byte ELSE IF rest # <<>> THEN Head(rest) ELSE <<>>

(* One bit time of the device: NRZI, in which a zero is a transition and   *)
(* one is stuffed in after six ones, then two bit times of SE0.            *)
DeviceSends ==
    \/ /\ gap > 0
       /\ gap' = gap - 1
       /\ UNCHANGED <<line, rest, byte, ones, end>>
    \/ /\ gap = 0 /\ ones = 6
       /\ line' = Other(line) /\ ones' = 0
       /\ UNCHANGED <<gap, rest, byte, end>>
    \/ /\ gap = 0 /\ ones # 6 /\ Coming # <<>>
       /\ \/ Head(Coming) = 1 /\ line' = line /\ ones' = ones + 1
          \/ Head(Coming) = 0 /\ line' = Other(line) /\ ones' = 0
       /\ byte' = Tail(Coming)
       /\ rest' = IF byte # <<>> THEN rest ELSE Tail(rest)
       /\ UNCHANGED <<gap, end>>
    \/ /\ gap = 0 /\ ones # 6 /\ Coming = <<>>
       /\ line' = IF end > 0 THEN "SE0" ELSE "J"
       /\ end' = IF end > 0 THEN end - 1 ELSE 0
       /\ UNCHANGED <<gap, rest, byte, ones>>

-----------------------------------------------------------------------------

Byte(b) ==
    b[1] + 2 * b[2] + 4 * b[3] + 8 * b[4] + 16 * b[5] + 32 * b[6] + 64 * b[7] + 128 * b[8]

BIT_REPEAT_COUNTSeven == 7

BIT_REPEAT_COUNT == 6

(* One trigger of the decoder, whose FIFO holds `words`.  K and SE0 both   *)
(* leave the sensed line low; the bit after six ones is dropped.           *)
Shift(bit, words) ==
    \/ /\ Len(isr) < 7
       /\ isr' = Append(isr, bit) /\ fifo' = words
    \/ /\ Len(isr) = 7
       /\ isr' = <<>> /\ fifo' = Append(words, Byte(Append(isr, bit)))

Decode(level, words) ==
    \/ /\ dec_y = 0
       /\ dec_x' = ~dec_x /\ dec_y' = BIT_REPEAT_COUNT
       /\ isr' = isr /\ fifo' = words
    \/ /\ dec_y # 0 /\ (level # "J") = dec_x
       /\ dec_x' = dec_x /\ dec_y' = dec_y - 1
       /\ Shift(1, words)
    \/ /\ dec_y # 0 /\ (level # "J") # dec_x
       /\ dec_x' = ~dec_x /\ dec_y' = BIT_REPEAT_COUNT
       /\ Shift(0, words)

(* The byte after a full FIFO is not pushed but held in the ISR: a decoder *)
(* that cannot push stands still, and remembers one trigger.               *)
Stalled == Len(fifo) > FifoDepth

Triggered(level) ==
    \/ Stalled /\ trigger' = TRUE /\ UNCHANGED decoder
    \/ ~Stalled /\ Decode(level, fifo) /\ UNCHANGED trigger

(* pio_sm_try_pull_rx makes room for the byte that is held. *)
Pulled ==
    /\ \/ trigger /\ Decode(line, Tail(fifo))
       \/ ~trigger /\ fifo' = Tail(fifo) /\ UNCHANGED <<dec_x, dec_y, isr>>
    /\ trigger' = FALSE

IsEopNever(level) == FALSE

IsEop(level) == level = "SE0"

(* One bit time of the edge detector.  It hunts for the first K, then      *)
(* triggers the decoder once per bit up to and including the SE0.          *)
Detect(level) ==
    \/ /\ det = "start" /\ level = "K"
       /\ det' = "run" /\ irq_start' = TRUE
       /\ Triggered(level)
       /\ UNCHANGED irq_eop
    \/ /\ det = "run" /\ ~IsEop(level)
       /\ Triggered(level)
       /\ UNCHANGED <<det, irq_start, irq_eop>>
    \/ /\ det = "run" /\ IsEop(level)
       /\ det' = "eop" /\ irq_eop' = TRUE
       /\ Triggered(level)
       /\ UNCHANGED irq_start
    \/ /\ det = "eop" \/ (det = "start" /\ level # "K")
       /\ UNCHANGED pio

(* The polling loop goes round more than once per bit unless interrupted,  *)
(* between any two of its steps, for some bit times.                       *)
Bit ==
    /\ looked \/ delay > 0
    /\ DeviceSends
    /\ Detect(line')
    /\ waited' = AtMost(waited + 1, SopBits + DrainBits)
    /\ looked' = (pc = "done")
    /\ delay' = IF looked THEN delay ELSE delay - 1
    /\ prompt' = (prompt /\ looked)
    /\ UNCHANGED <<pc, host, sent, late, receives>>

-----------------------------------------------------------------------------

(* prepare_for_receive, then the host's own packet up to its end, which    *)
(* this model does not play.  Both state machines start over, and the      *)
(* detector waits for its EOP flag to be cleared: the device, which counts *)
(* from the end of the host's packet, may be faster than start_receive.    *)
RearmedWithStaleFifo ==
    dec_x' = FALSE /\ dec_y' = BIT_REPEAT_COUNT /\ isr' = <<>> /\ fifo' = fifo

Rearmed ==
    dec_x' = FALSE /\ dec_y' = BIT_REPEAT_COUNT /\ isr' = <<>> /\ fifo' = <<>>

prepare_for_receive ==
    /\ pc = "done" /\ receives < MaxReceives
    /\ receives' = receives + 1
    /\ det' = "eop" /\ irq_start' = FALSE /\ irq_eop' = TRUE
    /\ Rearmed /\ trigger' = FALSE
    /\ \E t \in Transmissions :
        sent' = t.packet /\ gap' = t.gap /\ rest' = t.rest /\ end' = t.end
    /\ line' = "J" /\ byte' = <<>> /\ ones' = 0 /\ late' = FALSE
    /\ pc' = "prepared" /\ looked' = FALSE
    /\ UNCHANGED <<host, waited, delay, prompt>>

(* The device's packet is on its way. *)
Begun == sent # <<>> /\ Len(rest) < Len(sent)

start_receive ==
    /\ pc = "prepared"
    /\ irq_start' = FALSE /\ irq_eop' = FALSE /\ trigger' = FALSE
    /\ det' = IF det = "eop" THEN "start" ELSE det
    /\ pc' = "armed" /\ late' = Begun
    /\ UNCHANGED <<decoder, host, waited, looked>>

receive ==
    /\ pc = "armed"
    /\ pc' = "sop" /\ waited' = 0
    /\ out' = <<>> /\ idx' = 0 /\ overflowed' = FALSE /\ crc' = 65535
    /\ status' = "none"
    /\ UNCHANGED <<pio, looked>>

Return(s) ==
    /\ pc' = "done" /\ status' = s /\ looked' = TRUE
    /\ UNCHANGED <<pio, waited, out, idx, overflowed, crc>>

(* Wait for the start of a packet: the clock, then the flag. *)
SilentNever == FALSE

Silent == waited >= SopBits

wait_sop ==
    /\ pc = "sop"
    /\ \/ /\ ~Silent /\ pc' = "started"
          /\ UNCHANGED <<pio, host, waited, looked>>
       \/ /\ Silent /\ Return("NoReply")

got_start ==
    /\ pc = "started"
    /\ \/ /\ irq_start
          /\ pc' = "pull" /\ waited' = 0 /\ UNCHANGED looked
       \/ /\ ~irq_start
          /\ pc' = "sop" /\ looked' = TRUE /\ UNCHANGED waited
    /\ UNCHANGED <<pio, host>>

(* The loop: take a byte, else look for the end, else look at the clock.   *)
Counted == Room + 2

take ==
    LET b == Head(fifo)
    IN  /\ pc = "pull" /\ fifo # <<>>
        /\ Pulled
        /\ idx' = AtMost(idx + 1, Counted)
        /\ IF idx < Room
           THEN out' = Append(out, b) /\ UNCHANGED overflowed
           ELSE overflowed' = TRUE /\ UNCHANGED out
        /\ crc' = IF idx >= 2 /\ idx < Counted THEN Crc(crc, b) ELSE crc
        /\ waited' = 0
        /\ UNCHANGED <<det, irq_start, irq_eop, pc, status, looked>>

empty ==
    /\ pc = "pull" /\ fifo = <<>>
    /\ pc' = "flag"
    /\ UNCHANGED <<pio, host, waited, looked>>

ValidWithoutCrc ==
    /\ AtMost(idx, Room) >= 4
    /\ out[2] \in {USB_PID_DATA0, USB_PID_DATA1}

Valid ==
    /\ AtMost(idx, Room) >= 4
    /\ crc = USB_CRC16_RESIDUE
    /\ out[2] \in {USB_PID_DATA0, USB_PID_DATA1}

end_of_packet ==
    /\ pc = "flag"
    /\ \/ /\ irq_eop
          /\ Return(IF overflowed THEN "Overflow" ELSE IF Valid THEN "ValidData" ELSE "Invalid")
       \/ /\ ~irq_eop /\ pc' = "clock"
          /\ UNCHANGED <<pio, host, waited, looked>>

DrainedEarly == waited >= DrainBits

Drained == waited > DrainBits

drain ==
    /\ pc = "clock"
    /\ \/ /\ Drained
          /\ Return(IF overflowed THEN "Overflow" ELSE "Invalid")
       \/ /\ ~Drained /\ pc' = "pull" /\ looked' = TRUE
          /\ UNCHANGED <<pio, host, waited>>

Cpu ==
    /\ ~looked
    /\ \/ start_receive
       \/ /\ receive \/ wait_sop \/ got_start \/ take \/ empty \/ end_of_packet \/ drain
          /\ UNCHANGED late
    /\ delay' = IF prompt THEN delay ELSE 0
    /\ UNCHANGED <<device, sent, receives, prompt>>

Init ==
    /\ line = "J" /\ gap = 0 /\ rest = <<>> /\ byte = <<>> /\ ones = 0 /\ end = 0
    /\ det = "eop" /\ irq_start = FALSE /\ irq_eop = TRUE
    /\ dec_x = FALSE /\ dec_y = BIT_REPEAT_COUNT /\ isr = <<>> /\ fifo = <<>> /\ trigger = FALSE
    /\ pc = "done" /\ out = <<>> /\ idx = 0 /\ overflowed = FALSE /\ crc = 65535
    /\ status = "none" /\ waited = 0
    /\ sent = <<>> /\ late = FALSE /\ receives = 0 /\ delay = MaxDelay /\ looked = TRUE /\ prompt = TRUE

Next == Bit \/ prepare_for_receive \/ Cpu

Spec == Init /\ [][Next]_vars

(* Time passes, and an interrupt ends. *)
FairSpec == Spec /\ WF_vars(Bit) /\ WF_vars(Cpu)

-----------------------------------------------------------------------------

(* The host acknowledges only what the device sent, to the last byte: not  *)
(* a packet that lost bits in a full FIFO, not one cut off by the buffer,   *)
(* not one whose last bytes were still on their way when the flag was read.*)
(* It takes packets of which no shorter part has the residue.              *)
AckedExact == pc = "done" /\ status = "ValidData" => out = sent

(* A receiver that was started before the device answered delivers the PID *)
(* that was sent, whatever came after it: ACK, NAK and STALL are believed   *)
(* without a check.  One started late, at a K of the packet's middle, may   *)
(* take a piece of the payload for the PID, but never makes one of a        *)
(* handshake, which has not two bytes left.                                 *)
PidExact ==
    pc = "done" /\ Len(out) >= 2 /\ sent # <<>> =>
        IF late THEN Len(sent) > 2 ELSE out[2] = sent[2]

(* A CPU that is not interrupted receives every packet that fits, however  *)
(* many bits were stuffed into it: no timeout is too short for it.         *)
Received ==
    pc = "done" /\ prompt /\ sent # <<>> =>
        IF Len(sent) > Room THEN status = "Overflow"
        ELSE /\ out = sent
             /\ status = IF sent[2] \in {USB_PID_DATA0, USB_PID_DATA1}
                         THEN "ValidData" ELSE "Invalid"

(* Every receive ends, with a reply or without: the CPU polls with the bus *)
(* locked and nothing else on its executor runs until it does.             *)
Ends == pc # "done" ~> pc = "done"
=============================================================================
