-------------------------- MODULE RxCapture_proofs --------------------------
(***************************************************************************)
(* Reception, for every packet, gap, buffer, depth of the FIFO, timeout and*)
(* interruption of the CPU: a receiver started in time delivers the PID    *)
(* that was sent, and an uninterrupted one the whole packet.               *)
(***************************************************************************)
EXTENDS RxCapture, Integers, SequenceTheorems, TLAPS

DataPids == {USB_PID_DATA0, USB_PID_DATA1}

Handshakes == {USB_PID_ACK, USB_PID_NAK, USB_PID_STALL}

-----------------------------------------------------------------------------

Types ==
    /\ line \in {"J", "K", "SE0"}
    /\ gap \in Nat /\ ones \in 0 .. 6 /\ end \in 0 .. 2
    /\ rest \in Seq(Seq({0, 1})) /\ byte \in Seq({0, 1})
    /\ det \in {"eop", "start", "run"} /\ irq_start \in BOOLEAN /\ irq_eop \in BOOLEAN
    /\ dec_x \in BOOLEAN /\ dec_y \in 0 .. 6
    /\ isr \in Seq({0, 1}) /\ Len(isr) <= 7 /\ fifo \in Seq(Nat)
    /\ trigger \in BOOLEAN
    /\ pc \in {"prepared", "armed", "sop", "started", "pull", "flag", "clock", "done"}
    /\ out \in Seq(Nat) /\ idx \in 0 .. Counted /\ overflowed \in BOOLEAN /\ waited \in Nat
    /\ sent \in Packets \cup {<<>>}
    /\ late \in BOOLEAN /\ looked \in BOOLEAN /\ prompt \in BOOLEAN

(* What receive has counted it has kept, as far as the buffer goes. *)
Kept == Len(out) = AtMost(idx, Room) /\ (overflowed <=> idx > Room)

(* The device is in the middle of byte Begins of its packet. *)
Begins == Len(sent) - Len(rest)

Sending ==
    /\ Len(rest) <= Len(sent) /\ Len(byte) <= 7
    /\ \A i \in 1 .. Len(rest) : rest[i] = Octet(sent[Begins + i])
    /\ byte # <<>> => Begins >= 1
    /\ \A i \in 1 .. Len(byte) : byte[i] = Octet(sent[Begins])[8 - Len(byte) + i]
    /\ Begins = 0 => line = "J" /\ ones = 0
    /\ gap > 0 => Begins = 0
    /\ end = 2 => line # "SE0"
    /\ end # 2 => rest = <<>> /\ byte = <<>> /\ ones # 6

(* No handshake has six ones in a row, nor two in its SYNC. *)
Unstuffed ==
    Len(sent) = 2 =>
        /\ Begins = 1 => ones <= (IF byte = <<>> THEN 1 ELSE 0)
        /\ Begins = 1 /\ Len(byte) = 7 => line = "K"
        /\ Begins = 2 => ones <= (IF Len(byte) >= 3 THEN 7 - Len(byte) ELSE 2 - Len(byte))

Before == pc \in {"prepared", "armed"}

Taken == IF Before THEN 0 ELSE idx

Got == IF Before THEN <<>> ELSE out

Fresh == ~dec_x /\ dec_y = 6 /\ isr = <<>> /\ fifo = <<>>

Waiting == det = "eop" /\ Fresh /\ ~trigger /\ ~late

(* The decoder has lost nothing: it has shifted in what the device has     *)
(* shifted out, and the bytes are in the FIFO or were taken.               *)
Decoded == IF byte = <<>> THEN Begins ELSE Begins - 1

Lockstep ==
    \/ det = "start" /\ Begins = 0 /\ Fresh
    \/ /\ det = "run" /\ Begins >= 1 /\ end = 2
       /\ (dec_x <=> line = "K") /\ dec_y = 6 - ones
       /\ Len(isr) = (IF byte = <<>> THEN 0 ELSE 8 - Len(byte))
       /\ \A i \in 1 .. Len(isr) : isr[i] = Octet(sent[Begins])[i]
    \/ det = "eop" /\ rest = <<>> /\ byte = <<>>

Queue ==
    /\ Len(fifo) <= Decoded
    /\ \A i \in 1 .. Len(fifo) : fifo[i] = sent[Decoded - Len(fifo) + i]
    /\ Taken = AtMost(Decoded - Len(fifo), Counted)
    /\ \A i \in 1 .. Len(Got) : Got[i] = sent[i]

Exact == Lockstep /\ Queue /\ ~trigger /\ Len(fifo) <= FifoDepth

(* It may have lost something, but not of the first two bytes. *)
FirstTwo ==
    /\ Taken + Len(fifo) >= 2
    /\ \A i \in 1 .. Len(Got) : i <= 2 => Got[i] = sent[i]
    /\ \A i \in 1 .. Len(fifo) : Taken + i <= 2 => fifo[i] = sent[Taken + i]

(* It began after the device: of a handshake, not two bytes are left. *)
BitsLeft == 8 * Len(rest) + Len(byte)

Captured == 8 * (Taken + Len(fifo)) + Len(isr)

Missed ==
    /\ ~trigger
    /\ det = "start" => Captured = 0 /\ (BitsLeft <= 14 \/ (BitsLeft = 15 /\ line = "K"))
    /\ det = "run" => Captured + BitsLeft + 1 <= 15 /\ end = 2
    /\ det = "eop" => Captured <= 15

Receiving ==
    /\ pc = "prepared" => Waiting
    /\ pc # "prepared" /\ ~late => Exact \/ FirstTwo
    /\ pc # "prepared" /\ late /\ Len(sent) = 2 => Missed

IInv == Types /\ Kept /\ (sent # <<>> => Sending /\ Unstuffed /\ Receiving)

-----------------------------------------------------------------------------

(* An uninterrupted CPU.  Slack is how long a byte may have been on its    *)
(* way of which n bits are decoded, the last m of them ones.               *)
Slack(n, m) == IF m + 6 <= n THEN n + 2 ELSE IF m <= n THEN n + 1 ELSE n

Flags ==
    /\ det = "start" => ~irq_start /\ ~irq_eop
    /\ det = "run" => irq_start /\ ~irq_eop
    /\ det = "eop" => irq_start /\ irq_eop

InTime ==
    /\ ~late
    /\ pc # "prepared" => Exact /\ Flags
    /\ Before => ~looked /\ Begins = 0 /\ gap + 2 <= SopBits
    /\ pc # "prepared" /\ Before => det = "start"
    /\ pc \in {"sop", "started"} =>
        /\ det = "start" => waited + gap + 2 <= SopBits
        /\ det = "run" => ~looked /\ waited < SopBits /\ Len(isr) = 1 /\ fifo = <<>>
        /\ det # "eop"
    /\ pc \in {"started", "flag", "clock"} => ~looked
    /\ pc \in {"pull", "flag", "clock"} =>
        /\ det # "start"
        /\ det = "run" /\ fifo = <<>> => waited <= Slack(Len(isr), ones)
    /\ pc \in {"flag", "clock"} \/ (pc = "pull" /\ looked) => fifo = <<>>
    /\ pc = "clock" \/ (pc = "pull" /\ looked) => det = "run"
    /\ pc = "done" => det = "eop"

Summed ==
    ~Before =>
        /\ idx <= 2 => crc = 65535
        /\ idx >= 3 /\ sent[2] \in DataPids => crc = Sums[sent][idx]

PInv == prompt /\ sent # <<>> => InTime /\ Summed /\ Received

-----------------------------------------------------------------------------

(* An element of a sequence. *)
LEMMA ElementFacts ==
    ASSUME NEW S, NEW s \in Seq(S)
    PROVE  Len(s) \in Nat /\ \A i \in 1 .. Len(s) : s[i] \in S
OBVIOUS

(* The eight bits of a byte, and the byte that eight bits make.            *)
LEMMA OctetFacts ==
    ASSUME NEW b \in 0 .. 255
    PROVE  /\ Octet(b) \in Seq({0, 1}) /\ Len(Octet(b)) = 8
           /\ \A i \in 1 .. 8 : Octet(b)[i] \in {0, 1}
           /\ Byte(Octet(b)) = b
<1>1. Octet(b) \in Seq({0, 1}) /\ Len(Octet(b)) = 8
  BY DEF Octet
<1>2. \A i \in 1 .. 8 : Octet(b)[i] \in {0, 1}
  BY <1>1, ElementFacts
<1>3. b = (b % 2) + 2 * (b \div 2)
  OBVIOUS
<1>4. b \div 2 = ((b \div 2) % 2) + 2 * (b \div 4)
  OBVIOUS
<1>5. b \div 4 = ((b \div 4) % 2) + 2 * (b \div 8)
  OBVIOUS
<1>6. b \div 8 = ((b \div 8) % 2) + 2 * (b \div 16)
  OBVIOUS
<1>7. b \div 16 = ((b \div 16) % 2) + 2 * (b \div 32)
  OBVIOUS
<1>8. b \div 32 = ((b \div 32) % 2) + 2 * (b \div 64)
  OBVIOUS
<1>9. b \div 64 = ((b \div 64) % 2) + 2 * (b \div 128) /\ b \div 128 = (b \div 128) % 2
  OBVIOUS
<1>10. Byte(Octet(b)) = (b % 2) + 2 * ((b \div 2) % 2) + 4 * ((b \div 4) % 2)
                        + 8 * ((b \div 8) % 2) + 16 * ((b \div 16) % 2)
                        + 32 * ((b \div 32) % 2) + 64 * ((b \div 64) % 2)
                        + 128 * ((b \div 128) % 2)
  BY DEF Byte, Octet
<1>11. Byte(Octet(b)) = b
  BY <1>3, <1>4, <1>5, <1>6, <1>7, <1>8, <1>9, <1>10
<1> QED
  BY <1>1, <1>2, <1>11

(* The byte of which these are the bits. *)
LEMMA ByteOf ==
    ASSUME NEW b \in 0 .. 255, NEW s \in Seq({0, 1}),
           \A i \in 1 .. 8 : s[i] = Octet(b)[i]
    PROVE  Byte(s) = b
<1>1. /\ s[1] = Octet(b)[1] /\ s[2] = Octet(b)[2] /\ s[3] = Octet(b)[3]
      /\ s[4] = Octet(b)[4] /\ s[5] = Octet(b)[5] /\ s[6] = Octet(b)[6]
      /\ s[7] = Octet(b)[7] /\ s[8] = Octet(b)[8]
  OBVIOUS
<1>2. Byte(s) = Byte(Octet(b))
  BY Zenon, <1>1 DEF Byte
<1> QED
  BY <1>2, OctetFacts

(* A sequence without its first element, and with one more.                *)
LEMMA TailFacts ==
    ASSUME NEW S, NEW s \in Seq(S), s # <<>>
    PROVE  /\ Tail(s) \in Seq(S) /\ Head(s) = s[1] /\ Head(s) \in S /\ Len(s) \in Nat \ {0}
           /\ Len(Tail(s)) = Len(s) - 1
           /\ \A i \in 1 .. Len(Tail(s)) : Tail(s)[i] = s[i + 1]
OBVIOUS

(* A sequence with one more element. *)
LEMMA AppendFacts ==
    ASSUME NEW S, NEW s \in Seq(S), NEW e \in S
    PROVE  /\ Append(s, e) \in Seq(S) /\ Len(s) \in Nat /\ Len(Append(s, e)) = Len(s) + 1
           /\ \A i \in 1 .. Len(s) : Append(s, e)[i] = s[i]
           /\ Append(s, e)[Len(s) + 1] = e
OBVIOUS

(* Eight bits make a number. *)
LEMMA ByteNat ==
    ASSUME NEW s \in Seq({0, 1}), Len(s) = 8
    PROVE  Byte(s) \in Nat
<1>1. \A i \in 1 .. 8 : s[i] \in {0, 1}
  BY ElementFacts
<1>2. /\ s[1] \in Nat /\ s[2] \in Nat /\ s[3] \in Nat /\ s[4] \in Nat
      /\ s[5] \in Nat /\ s[6] \in Nat /\ s[7] \in Nat /\ s[8] \in Nat
  BY <1>1
<1>3. ASSUME NEW a \in Nat, NEW b \in Nat
      PROVE  /\ a + 2 * b \in Nat /\ a + 4 * b \in Nat /\ a + 8 * b \in Nat
             /\ a + 16 * b \in Nat /\ a + 32 * b \in Nat /\ a + 64 * b \in Nat
             /\ a + 128 * b \in Nat
  OBVIOUS
<1>4. s[1] + 2 * s[2] + 4 * s[3] + 8 * s[4] \in Nat
  BY Zenon, <1>2, <1>3
<1>5. s[1] + 2 * s[2] + 4 * s[3] + 8 * s[4] + 16 * s[5] + 32 * s[6] \in Nat
  BY Zenon, <1>2, <1>3, <1>4
<1>6. s[1] + 2 * s[2] + 4 * s[3] + 8 * s[4] + 16 * s[5] + 32 * s[6] + 64 * s[7] + 128 * s[8] \in Nat
  BY ZenonT(40), <1>2, <1>3, <1>5
<1> QED
  BY Zenon, <1>6 DEF Byte

(* The empty sequence by its length. *)
LEMMA EmptyFacts ==
    ASSUME NEW S, NEW s \in Seq(S)
    PROVE  Len(s) \in Nat /\ (s = <<>> <=> Len(s) = 0)
OBVIOUS

(* The packet on its way. *)
LEMMA SentFacts ==
    ASSUME Types, sent # <<>>
    PROVE  /\ sent \in Packets /\ sent \in Seq(0 .. 255) /\ Len(sent) \in Nat /\ Len(sent) >= 2
           /\ \A i \in 1 .. Len(sent) : sent[i] \in 0 .. 255
           /\ sent[1] = USB_SYNC
           /\ Len(sent) = 2 => sent[2] \in Handshakes
<1>1. sent \in Packets
  BY DEF Types
<1>2. sent \in Seq(0 .. 255) /\ Len(sent) >= 2 /\ sent[1] = USB_SYNC
      /\ (Len(sent) = 2 => sent[2] \in Handshakes)
  BY <1>1, PacketsAssumption DEF Handshakes
<1>3. Len(sent) \in Nat /\ \A i \in 1 .. Len(sent) : sent[i] \in 0 .. 255
  BY <1>2, ElementFacts
<1> QED
  BY <1>1, <1>2, <1>3

-----------------------------------------------------------------------------

(* One trigger of the decoder shifts in at most one bit, and loses none. *)
LEMMA DecodeFacts ==
    ASSUME Types, NEW level, NEW words \in Seq(Nat), Decode(level, words)
    PROVE  /\ dec_x' \in BOOLEAN /\ dec_y' \in 0 .. 6
           /\ isr' \in Seq({0, 1}) /\ Len(isr') <= 7 /\ fifo' \in Seq(Nat)
           /\ 8 * Len(fifo') + Len(isr') <= 8 * Len(words) + Len(isr) + 1
           /\ 8 * Len(fifo') + Len(isr') >= 8 * Len(words) + Len(isr)
           /\ fifo' = words \/ \E b \in Nat : fifo' = Append(words, b)
<1>0. /\ dec_x \in BOOLEAN /\ dec_y \in 0 .. 6 /\ isr \in Seq({0, 1}) /\ Len(isr) <= 7
      /\ Len(isr) \in Nat /\ Len(words) \in Nat
  BY DEF Types
<1>1. ASSUME NEW bit \in {0, 1}, Shift(bit, words)
      PROVE  /\ isr' \in Seq({0, 1}) /\ Len(isr') <= 7 /\ fifo' \in Seq(Nat)
             /\ 8 * Len(fifo') + Len(isr') <= 8 * Len(words) + Len(isr) + 1
             /\ 8 * Len(fifo') + Len(isr') >= 8 * Len(words) + Len(isr)
             /\ fifo' = words \/ \E b \in Nat : fifo' = Append(words, b)
  <2>0. Append(isr, bit) \in Seq({0, 1}) /\ Len(Append(isr, bit)) = Len(isr) + 1
    BY <1>0, AppendFacts
  <2>1. CASE Len(isr) < 7 /\ isr' = Append(isr, bit) /\ fifo' = words
    BY <1>0, <2>0, <2>1
  <2>2. CASE Len(isr) = 7 /\ isr' = <<>> /\ fifo' = Append(words, Byte(Append(isr, bit)))
    <3>0. Len(Append(isr, bit)) = 8
      BY <2>0, <2>2
    <3>1. Byte(Append(isr, bit)) \in Nat
      BY <2>0, <3>0, ByteNat
    <3>2. fifo' \in Seq(Nat) /\ Len(fifo') = Len(words) + 1
      BY <2>2, <3>1, AppendFacts
    <3>3. isr' \in Seq({0, 1}) /\ Len(isr') = 0
      BY <2>2
    <3>4. \E b \in Nat : fifo' = Append(words, b)
      BY <2>2, <3>1
    <3> QED
      BY <1>0, <2>2, <3>2, <3>3, <3>4
  <2> QED
    BY <1>1, <2>1, <2>2 DEF Shift
<1>2. CASE dec_y = 0 /\ dec_x' = ~dec_x /\ dec_y' = BIT_REPEAT_COUNT /\ isr' = isr /\ fifo' = words
  <2>1. dec_x' \in BOOLEAN
    BY <1>0, <1>2
  <2>2. dec_y' \in 0 .. 6
    BY <1>2 DEF BIT_REPEAT_COUNT
  <2> QED
    BY <1>0, <1>2, <2>1, <2>2
<1>3. CASE dec_y # 0 /\ dec_x' = dec_x /\ dec_y' = dec_y - 1 /\ Shift(1, words)
  <2>1. dec_x' \in BOOLEAN
    BY <1>0, <1>3
  <2>2. dec_y' \in 0 .. 6
    BY <1>0, <1>3
  <2> QED
    BY <1>1, <1>3, <2>1, <2>2
<1>4. CASE dec_x' = ~dec_x /\ dec_y' = BIT_REPEAT_COUNT /\ Shift(0, words)
  <2>1. dec_x' \in BOOLEAN
    BY <1>0, <1>4
  <2>2. dec_y' \in 0 .. 6
    BY <1>4 DEF BIT_REPEAT_COUNT
  <2> QED
    BY <1>1, <1>4, <2>1, <2>2
<1> QED
  BY <1>2, <1>3, <1>4 DEF Decode

(* What one bit time does to the decoder and the FIFO.  *)
LEMMA DetectFacts ==
    ASSUME Types, NEW level, Detect(level)
    PROVE  /\ det' \in {"eop", "start", "run"} /\ irq_start' \in BOOLEAN /\ irq_eop' \in BOOLEAN
           /\ dec_x' \in BOOLEAN /\ dec_y' \in 0 .. 6 /\ trigger' \in BOOLEAN
           /\ isr' \in Seq({0, 1}) /\ Len(isr') <= 7 /\ fifo' \in Seq(Nat)
           /\ 8 * Len(fifo') + Len(isr') <= 8 * Len(fifo) + Len(isr) + 1
           /\ 8 * Len(fifo') + Len(isr') >= 8 * Len(fifo) + Len(isr)
           /\ fifo' = fifo \/ \E b \in Nat : fifo' = Append(fifo, b)
<1>0. /\ det \in {"eop", "start", "run"} /\ irq_start \in BOOLEAN /\ irq_eop \in BOOLEAN
      /\ dec_x \in BOOLEAN /\ dec_y \in 0 .. 6 /\ trigger \in BOOLEAN
      /\ isr \in Seq({0, 1}) /\ Len(isr) <= 7 /\ fifo \in Seq(Nat)
      /\ Len(isr) \in Nat /\ Len(fifo) \in Nat
  BY DEF Types
<1>1. CASE Triggered(level)
  <2>1. trigger' \in BOOLEAN /\ dec_x' \in BOOLEAN /\ dec_y' \in 0 .. 6
        /\ isr' \in Seq({0, 1}) /\ Len(isr') <= 7 /\ fifo' \in Seq(Nat)
        /\ 8 * Len(fifo') + Len(isr') <= 8 * Len(fifo) + Len(isr) + 1
        /\ 8 * Len(fifo') + Len(isr') >= 8 * Len(fifo) + Len(isr)
        /\ (fifo' = fifo \/ \E b \in Nat : fifo' = Append(fifo, b))
    <3>1. CASE Stalled /\ trigger' = TRUE /\ UNCHANGED decoder
      BY <1>0, <3>1 DEF decoder
    <3>2. CASE ~Stalled /\ Decode(level, fifo) /\ UNCHANGED trigger
      BY <1>0, <3>2, DecodeFacts
    <3> QED
      BY <1>1, <3>1, <3>2 DEF Triggered
  <2>2. det' \in {"eop", "start", "run"} /\ irq_start' \in BOOLEAN /\ irq_eop' \in BOOLEAN
    BY <1>0 DEF Detect, pio
  <2> QED
    BY <2>1, <2>2
<1>2. CASE UNCHANGED pio
  <2>1. /\ det' = det /\ irq_start' = irq_start /\ irq_eop' = irq_eop
        /\ dec_x' = dec_x /\ dec_y' = dec_y /\ trigger' = trigger
        /\ isr' = isr /\ fifo' = fifo
    BY <1>2 DEF pio, decoder
  <2>2. /\ 8 * Len(fifo) + Len(isr) <= 8 * Len(fifo) + Len(isr) + 1
        /\ 8 * Len(fifo) + Len(isr) >= 8 * Len(fifo) + Len(isr)
    BY <1>0
  <2> QED
    BY <1>0, <2>1, <2>2
<1> QED
  BY <1>1, <1>2 DEF Detect

-----------------------------------------------------------------------------

(* One bit time of a device that sends: it waits, stuffs a bit, sends the  *)
(* next bit of its packet, or ends it.                                     *)
Waits ==
    /\ Begins = 0 /\ gap > 0 /\ gap' = gap - 1 /\ Begins' = 0
    /\ line' = line /\ ones' = ones /\ end' = end /\ byte' = byte /\ rest' = rest

Stuffs ==
    /\ ones = 6 /\ ones' = 0
    /\ line' = Other(line) /\ end = 2 /\ end' = end
    /\ gap = 0 /\ gap' = gap /\ byte' = byte /\ rest' = rest /\ Begins' = Begins

BitSent == Octet(sent[Begins'])[8 - Len(byte')]

SendsBit ==
    /\ ones # 6 /\ end = 2 /\ end' = 2 /\ gap = 0 /\ gap' = 0
    /\ byte # <<>> \/ rest # <<>>
    /\ Begins' \in 1 .. Len(sent)
    /\ Begins' = IF byte = <<>> THEN Begins + 1 ELSE Begins
    /\ Len(byte') = IF byte = <<>> THEN 7 ELSE Len(byte) - 1
    /\ BitSent \in {0, 1}
    /\ BitSent = 1 => line' = line /\ ones' = ones + 1
    /\ BitSent = 0 => line' = Other(line) /\ ones' = 0

Ceases ==
    /\ ones # 6 /\ ones' = ones /\ rest = <<>> /\ byte = <<>>
    /\ line' = (IF end > 0 THEN "SE0" ELSE "J")
    /\ end' = (IF end > 0 THEN end - 1 ELSE 0)
    /\ gap' = gap /\ byte' = byte /\ rest' = rest /\ Begins' = Begins

(* The device sends the next bit of its packet. *)
LEMMA BitIsSent ==
    ASSUME Types, sent # <<>>, Sending, sent' = sent, gap = 0, ones # 6, Coming # <<>>,
           DeviceSends
    PROVE  /\ SendsBit
           /\ rest' \in Seq(Seq({0, 1})) /\ byte' \in Seq({0, 1})
           /\ Len(rest') <= Len(sent) /\ Len(byte') <= 7
           /\ \A i \in 1 .. Len(rest') : rest'[i] = Octet(sent[Begins' + i])
           /\ \A i \in 1 .. Len(byte') : byte'[i] = Octet(sent[Begins'])[8 - Len(byte') + i]
<1>0. /\ rest \in Seq(Seq({0, 1})) /\ byte \in Seq({0, 1}) /\ Len(rest) \in Nat /\ Len(byte) \in Nat
      /\ gap \in Nat
  BY DEF Types
<1>1. /\ sent \in Seq(0 .. 255) /\ Len(sent) \in Nat
      /\ \A i \in 1 .. Len(sent) : sent[i] \in 0 .. 255
  BY SentFacts
<1>2. /\ Len(rest) <= Len(sent) /\ Len(byte) <= 7
      /\ \A i \in 1 .. Len(rest) : rest[i] = Octet(sent[Begins + i])
      /\ byte # <<>> => Begins >= 1
      /\ \A i \in 1 .. Len(byte) : byte[i] = Octet(sent[Begins])[8 - Len(byte) + i]
      /\ end # 2 => rest = <<>> /\ byte = <<>>
  BY DEF Sending
<1>3. /\ Head(Coming) = 1 => line' = line /\ ones' = ones + 1
      /\ Head(Coming) = 0 => line' = Other(line) /\ ones' = 0
      /\ byte' = Tail(Coming)
      /\ rest' = IF byte # <<>> THEN rest ELSE Tail(rest)
      /\ gap' = gap /\ end' = end
  <2>1. ~(gap > 0) /\ ~(Coming = <<>>) /\ ~(ones = 6)
    BY <1>0
  <2> QED
    BY <2>1 DEF DeviceSends
<1>4. byte # <<>> \/ rest # <<>>
  BY DEF Coming
<1>5. CASE byte # <<>>
  <2>1. Coming = byte /\ rest' = rest
    BY <1>3, <1>5 DEF Coming
  <2>2. /\ Tail(byte) \in Seq({0, 1}) /\ Head(byte) = byte[1] /\ Head(byte) \in {0, 1}
        /\ Len(byte) \in Nat \ {0} /\ Len(Tail(byte)) = Len(byte) - 1
        /\ \A i \in 1 .. Len(Tail(byte)) : Tail(byte)[i] = byte[i + 1]
    BY <1>0, <1>5, TailFacts
  <2>3. byte' \in Seq({0, 1}) /\ Len(byte') = Len(byte) - 1 /\ Len(byte') \in Nat
    BY <1>3, <2>1, <2>2
  <2>4. Begins' = Begins /\ Begins >= 1 /\ Begins \in Nat /\ Begins <= Len(sent)
    BY <1>0, <1>1, <1>2, <1>5, <2>1 DEF Begins
  <2>5. Head(byte) = Octet(sent[Begins])[8 - Len(byte')]
    <3>1. byte[1] = Octet(sent[Begins])[8 - Len(byte) + 1]
      BY <1>2, <2>2
    <3>2. 8 - Len(byte) + 1 = 8 - Len(byte')
      BY <1>0, <2>3
    <3> QED
      BY <2>2, <3>1, <3>2
  <2>6. BitSent = Head(byte)
    BY <2>4, <2>5 DEF BitSent
  <2>7. ASSUME NEW i \in 1 .. Len(byte')
        PROVE  byte'[i] = Octet(sent[Begins'])[8 - Len(byte') + i]
    <3>1. byte'[i] = byte[i + 1]
      BY <1>3, <2>1, <2>2
    <3>2. i + 1 \in 1 .. Len(byte) /\ 8 - Len(byte) + (i + 1) = 8 - Len(byte') + i
      BY <2>2, <2>3
    <3>3. byte[i + 1] = Octet(sent[Begins])[8 - Len(byte) + (i + 1)]
      BY <1>2, <3>2
    <3> QED
      BY <2>4, <3>1, <3>2, <3>3
  <2>8. SendsBit
    <3>1. BitSent \in {0, 1}
      BY <2>2, <2>6
    <3>2. /\ BitSent = 1 => line' = line /\ ones' = ones + 1
          /\ BitSent = 0 => line' = Other(line) /\ ones' = 0
      BY <1>3, <2>1, <2>6
    <3>3. end = 2 /\ end' = 2 /\ gap' = 0
      BY <1>2, <1>3, <1>5
    <3>4. Begins' \in 1 .. Len(sent)
      BY <1>1, <2>4
    <3> QED
      BY <1>4, <1>5, <2>3, <2>4, <3>1, <3>2, <3>3, <3>4 DEF SendsBit
  <2>9. \A i \in 1 .. Len(rest') : rest'[i] = Octet(sent[Begins' + i])
    BY <1>2, <2>1, <2>4
  <2>10. rest' \in Seq(Seq({0, 1})) /\ Len(rest') <= Len(sent) /\ Len(byte') <= 7
    BY <1>0, <1>2, <2>1, <2>3
  <2> QED
    BY <2>3, <2>7, <2>8, <2>9, <2>10
<1>6. CASE byte = <<>>
  <2>0. rest # <<>> /\ Coming = Head(rest) /\ rest' = Tail(rest)
    BY <1>3, <1>4, <1>6 DEF Coming
  <2>1. /\ Tail(rest) \in Seq(Seq({0, 1})) /\ Head(rest) = rest[1]
        /\ Len(rest) \in Nat \ {0} /\ Len(Tail(rest)) = Len(rest) - 1
        /\ \A i \in 1 .. Len(Tail(rest)) : Tail(rest)[i] = rest[i + 1]
    BY <1>0, <2>0, TailFacts
  <2>2. rest' \in Seq(Seq({0, 1})) /\ Len(rest') = Len(rest) - 1 /\ Len(rest') \in Nat
    BY <2>0, <2>1
  <2>3. Begins' = Begins + 1 /\ Begins' \in 1 .. Len(sent)
    BY <1>0, <1>1, <1>2, <2>2 DEF Begins
  <2>4. Head(rest) = Octet(sent[Begins'])
    <3>1. rest[1] = Octet(sent[Begins + 1])
      BY <1>2, <2>1
    <3> QED
      BY <2>1, <2>3, <3>1
  <2>5. sent[Begins'] \in 0 .. 255
    BY <1>1, <2>3
  <2> DEFINE oct == Octet(sent[Begins'])
  <2>6. oct \in Seq({0, 1}) /\ Len(oct) = 8 /\ \A i \in 1 .. 8 : oct[i] \in {0, 1}
    BY <2>5, OctetFacts
  <2>7. byte' = Tail(oct) /\ Head(Coming) = Head(oct)
    BY <1>3, <2>0, <2>4
  <2>8. oct # <<>>
    BY <2>6
  <2>9. /\ Tail(oct) \in Seq({0, 1}) /\ Head(oct) = oct[1] /\ Len(Tail(oct)) = Len(oct) - 1
        /\ \A i \in 1 .. Len(Tail(oct)) : Tail(oct)[i] = oct[i + 1]
    <3> HIDE DEF oct
    <3> QED
      BY <2>6, <2>8, TailFacts
  <2>10. byte' \in Seq({0, 1}) /\ Len(byte') = 7
    BY <2>6, <2>7, <2>9
  <2>11. BitSent = Head(oct)
    <3>1. BitSent = oct[1]
      BY <2>10 DEF BitSent
    <3> QED
      BY <2>9, <3>1
  <2>12. ASSUME NEW i \in 1 .. Len(byte')
         PROVE  byte'[i] = oct[8 - Len(byte') + i]
    <3>0. i \in 1 .. 7 /\ i \in 1 .. Len(Tail(oct))
      BY <2>7, <2>10
    <3>1. 8 - Len(byte') + i = i + 1 /\ i \in 1 .. Len(Tail(oct))
      BY <2>10, <3>0
    <3>2. byte'[i] = oct[i + 1]
      BY <2>7, <2>9, <3>1
    <3> QED
      BY <3>1, <3>2
  <2>13. ASSUME NEW i \in 1 .. Len(rest')
         PROVE  rest'[i] = Octet(sent[Begins' + i])
    <3>1. rest'[i] = rest[i + 1] /\ i + 1 \in 1 .. Len(rest)
      BY <2>0, <2>1, <2>2
    <3>2. rest[i + 1] = Octet(sent[Begins + (i + 1)])
      BY <1>2, <3>1
    <3>3. Begins + (i + 1) = Begins' + i
      BY <1>0, <1>1, <2>2, <2>3 DEF Begins
    <3> QED
      BY <3>1, <3>2, <3>3
  <2>14. SendsBit
    <3>1. BitSent \in {0, 1}
      BY <2>6, <2>9, <2>11
    <3>2. /\ BitSent = 1 => line' = line /\ ones' = ones + 1
          /\ BitSent = 0 => line' = Other(line) /\ ones' = 0
      BY <1>3, <2>7, <2>11
    <3>3. end = 2 /\ end' = 2 /\ gap' = 0
      BY <1>2, <1>3, <2>0
    <3> QED
      BY <1>4, <1>6, <2>3, <2>10, <3>1, <3>2, <3>3 DEF SendsBit
  <2>15. Len(rest') <= Len(sent) /\ Len(byte') <= 7
    BY <1>0, <1>1, <1>2, <2>2, <2>10
  <2> QED
    BY <2>2, <2>10, <2>12, <2>13, <2>14, <2>15
<1> QED
  BY <1>5, <1>6

DeviceTypes ==
    /\ line \in {"J", "K", "SE0"}
    /\ gap \in Nat /\ ones \in 0 .. 6 /\ end \in 0 .. 2
    /\ rest \in Seq(Seq({0, 1})) /\ byte \in Seq({0, 1})

(* A transition leaves the line at J or K. *)
LEMMA OtherFacts ==
    \A level : Other(level) \in {"J", "K"}
BY DEF Other

(* Whatever the device does, the rest of its packet is still to come. *)
LEMMA SendingBit ==
    ASSUME Types, sent # <<>>, Sending, sent' = sent, DeviceSends
    PROVE  (Waits \/ Stuffs \/ SendsBit \/ Ceases) /\ DeviceTypes' /\ Sending'
<1>0. /\ line \in {"J", "K", "SE0"} /\ gap \in Nat /\ ones \in 0 .. 6 /\ end \in 0 .. 2
      /\ rest \in Seq(Seq({0, 1})) /\ byte \in Seq({0, 1}) /\ Len(rest) \in Nat /\ Len(byte) \in Nat
  BY DEF Types
<1>1. Len(sent) \in Nat /\ Len(sent) >= 2 /\ Begins \in Nat
  BY <1>0, SentFacts DEF Begins, Sending
<1>2. CASE gap > 0
  <2>1. /\ gap' = gap - 1 /\ line' = line /\ ones' = ones /\ end' = end
        /\ byte' = byte /\ rest' = rest
    BY <1>0, <1>2 DEF DeviceSends
  <2>2. Begins = 0 /\ Begins' = Begins
    BY <1>2, <2>1 DEF Sending, Begins
  <2>3. Waits
    BY <1>2, <2>1, <2>2 DEF Waits
  <2>4. DeviceTypes'
    BY <1>0, <1>2, <2>1 DEF DeviceTypes
  <2>5. Sending'
    BY <2>1, <2>2 DEF Sending
  <2> QED
    BY <2>3, <2>4, <2>5
<1>3. CASE gap = 0 /\ ones = 6
  <2>1. /\ line' = Other(line) /\ ones' = 0 /\ gap' = gap /\ end' = end
        /\ byte' = byte /\ rest' = rest
    BY <1>3 DEF DeviceSends
  <2>2. Begins' = Begins /\ end = 2
    BY <1>3, <2>1 DEF Sending, Begins
  <2>3. Stuffs
    BY <1>3, <2>1, <2>2 DEF Stuffs
  <2>4. DeviceTypes'
    BY <1>0, <2>1, OtherFacts DEF DeviceTypes
  <2>5. Begins # 0
    BY <1>3 DEF Sending
  <2>6. line' # "SE0"
    BY <2>1, OtherFacts
  <2>7. Sending'
    BY <1>3, <2>1, <2>2, <2>5, <2>6 DEF Sending
  <2> QED
    BY <2>3, <2>4, <2>7
<1>4. CASE gap = 0 /\ ones # 6 /\ Coming # <<>>
  <2>1. /\ SendsBit
        /\ rest' \in Seq(Seq({0, 1})) /\ byte' \in Seq({0, 1})
        /\ Len(rest') <= Len(sent) /\ Len(byte') <= 7
        /\ \A i \in 1 .. Len(rest') : rest'[i] = Octet(sent[Begins' + i])
        /\ \A i \in 1 .. Len(byte') : byte'[i] = Octet(sent[Begins'])[8 - Len(byte') + i]
    BY <1>4, BitIsSent
  <2>2. end = 2 /\ end' = 2 /\ gap' = 0 /\ Begins' >= 1
        /\ (BitSent = 1 \/ BitSent = 0)
        /\ (BitSent = 1 => line' = line /\ ones' = ones + 1)
        /\ (BitSent = 0 => line' = Other(line) /\ ones' = 0)
    BY <1>1, <2>1 DEF SendsBit
  <2>3. line # "SE0"
    BY <2>2 DEF Sending
  <2>4. line' \in {"J", "K"}
    BY <1>0, <2>2, <2>3, OtherFacts
  <2>5. ones' \in 0 .. 6
    BY <1>0, <1>4, <2>2
  <2>6. DeviceTypes'
    BY <2>1, <2>2, <2>4, <2>5 DEF DeviceTypes
  <2>7. Begins' # 0
    BY <1>1, <2>1 DEF SendsBit
  <2>8. Sending'
    <3>1. /\ Len(rest') <= Len(sent') /\ Len(byte') <= 7
          /\ \A i \in 1 .. Len(rest') : rest'[i] = Octet(sent'[Begins' + i])
          /\ \A i \in 1 .. Len(byte') : byte'[i] = Octet(sent'[Begins'])[8 - Len(byte') + i]
      BY <2>1
    <3>2. /\ byte' # <<>> => Begins' >= 1
          /\ Begins' = 0 => line' = "J" /\ ones' = 0
          /\ gap' > 0 => Begins' = 0
          /\ end' = 2 => line' # "SE0"
          /\ end' # 2 => rest' = <<>> /\ byte' = <<>> /\ ones' # 6
      <4>1. ~(gap' > 0)
        BY <2>2
      <4> QED
        BY <4>1, <2>2, <2>4, <2>7
    <3> QED
      BY <3>1, <3>2 DEF Sending
  <2> QED
    BY <2>1, <2>6, <2>8
<1>5. CASE gap = 0 /\ ones # 6 /\ Coming = <<>>
  <2>1. /\ line' = (IF end > 0 THEN "SE0" ELSE "J")
        /\ end' = (IF end > 0 THEN end - 1 ELSE 0)
        /\ gap' = gap /\ byte' = byte /\ rest' = rest /\ ones' = ones
    <3>1. ~(gap > 0)
      BY <1>5
    <3> QED
      BY <1>5, <3>1 DEF DeviceSends
  <2>2. byte = <<>> /\ Begins' = Begins
    BY <1>5, <2>1 DEF Coming, Begins
  <2>3. rest = <<>>
    <3>1. CASE rest # <<>>
      <4>1. Coming = Head(rest) /\ Head(rest) = rest[1] /\ Len(rest) \in Nat \ {0}
        BY <1>0, <2>2, <3>1, TailFacts DEF Coming
      <4>2. rest[1] = Octet(sent[Begins + 1]) /\ Begins + 1 \in 1 .. Len(sent)
        BY <1>0, <1>1, <4>1 DEF Sending, Begins
      <4>3. Len(Octet(sent[Begins + 1])) = 8
        BY <4>2, SentFacts, OctetFacts
      <4>4. Len(<<>>) = 0
        OBVIOUS
      <4>5. Octet(sent[Begins + 1]) = <<>>
        BY Zenon, <1>5, <4>1, <4>2
      <4>6. Len(<<>>) = 8
        BY Zenon, <4>3, <4>5
      <4> QED
        BY <4>4, <4>6
    <3> QED
      BY <3>1
  <2>4. Ceases
    BY <1>5, <2>1, <2>2, <2>3 DEF Ceases
  <2>5. DeviceTypes'
    BY <1>0, <2>1 DEF DeviceTypes
  <2>6. Begins # 0
    <3>1. Len(rest) = 0
      BY <2>3
    <3> QED
      BY <1>1, <3>1 DEF Begins
  <2>7. end' # 2
    BY <1>0, <2>1
  <2>8. Sending'
    <3>1. Begins' # 0
      BY <2>2, <2>6
    <3>2. /\ Len(rest') <= Len(sent') /\ Len(byte') <= 7
          /\ \A i \in 1 .. Len(rest') : rest'[i] = Octet(sent'[Begins' + i])
          /\ byte' # <<>> => Begins' >= 1
          /\ \A i \in 1 .. Len(byte') : byte'[i] = Octet(sent'[Begins'])[8 - Len(byte') + i]
      BY <2>1, <2>2 DEF Sending
    <3>3. ~(gap' > 0)
      BY <1>5, <2>1
    <3> QED
      BY <1>5, <2>1, <2>2, <2>3, <2>7, <3>1, <3>2, <3>3 DEF Sending
  <2> QED
    BY <2>4, <2>5, <2>8
<1> QED
  BY <1>0, <1>2, <1>3, <1>4, <1>5

(* A handshake in bits: its SYNC, and two zeros of its PID. *)
LEMMA HandshakeBits ==
    /\ \A j \in 1 .. 7 : Octet(USB_SYNC)[j] = 0
    /\ \A p \in Handshakes : Octet(p)[1] = 0 /\ Octet(p)[6] = 0
<1>1. Octet(USB_SYNC) = <<0, 0, 0, 0, 0, 0, 0, 1>>
  BY DEF Octet, USB_SYNC
<1>2. \A j \in 1 .. 7 : Octet(USB_SYNC)[j] = 0
  BY <1>1
<1>3. Octet(210)[1] = 0 /\ Octet(210)[6] = 0
  BY DEF Octet
<1>4. Octet(90)[1] = 0 /\ Octet(90)[6] = 0
  BY DEF Octet
<1>5. Octet(30)[1] = 0 /\ Octet(30)[6] = 0
  BY DEF Octet
<1> QED
  BY <1>2, <1>3, <1>4, <1>5 DEF Handshakes, USB_PID_ACK, USB_PID_NAK, USB_PID_STALL

(* A handshake is never stuffed. *)
LEMMA UnstuffedBit ==
    ASSUME Types, sent # <<>>, Sending, Unstuffed, sent' = sent, DeviceTypes',
           Waits \/ Stuffs \/ SendsBit \/ Ceases
    PROVE  Unstuffed'
<1> SUFFICES ASSUME Len(sent) = 2
             PROVE  /\ Begins' = 1 => ones' <= (IF byte' = <<>> THEN 1 ELSE 0)
                    /\ Begins' = 1 /\ Len(byte') = 7 => line' = "K"
                    /\ Begins' = 2 => ones' <= (IF Len(byte') >= 3 THEN 7 - Len(byte')
                                                ELSE 2 - Len(byte'))
  BY DEF Unstuffed
<1>0. /\ ones \in 0 .. 6 /\ Len(rest) \in Nat /\ Len(byte) \in Nat /\ Len(byte') \in Nat
      /\ byte \in Seq({0, 1}) /\ byte' \in Seq({0, 1}) /\ ones' \in 0 .. 6
  BY DEF Types, DeviceTypes
<1>1. /\ Begins = 1 => ones <= (IF byte = <<>> THEN 1 ELSE 0)
      /\ Begins = 1 /\ Len(byte) = 7 => line = "K"
      /\ Begins = 2 => ones <= (IF Len(byte) >= 3 THEN 7 - Len(byte) ELSE 2 - Len(byte))
  BY DEF Unstuffed
<1>2. /\ sent[1] = USB_SYNC /\ sent[2] \in Handshakes
      /\ Begins \in 0 .. 2 /\ Len(byte) <= 7
      /\ Begins = 0 => line = "J" /\ ones = 0 /\ byte = <<>>
  <2>1. sent[1] = USB_SYNC /\ sent[2] \in Handshakes
    BY SentFacts
  <2>2. Len(rest) <= 2 /\ Begins = 2 - Len(rest)
    BY DEF Sending, Begins
  <2>3. Begins \in 0 .. 2
    BY <1>0, <2>2
  <2>4. Len(byte) <= 7 /\ (Begins = 0 => line = "J" /\ ones = 0)
        /\ (byte # <<>> => Begins >= 1)
    BY DEF Sending
  <2>5. Begins = 0 => byte = <<>>
    BY <2>3, <2>4
  <2> QED
    BY <2>1, <2>3, <2>4, <2>5
<1>3. /\ byte = <<>> <=> Len(byte) = 0
      /\ byte' = <<>> <=> Len(byte') = 0
  BY <1>0, EmptyFacts
<1>4. CASE Waits
  BY <1>1, <1>4 DEF Waits
<1>5. CASE Stuffs
  <2>1. ones = 6
    BY <1>5 DEF Stuffs
  <2> QED
    BY <1>0, <1>1, <1>2, <1>3, <2>1
<1>6. CASE Ceases
  BY <1>1, <1>6 DEF Ceases
<1>7. CASE SendsBit
  <2>1. /\ Begins' = IF byte = <<>> THEN Begins + 1 ELSE Begins
        /\ Len(byte') = IF byte = <<>> THEN 7 ELSE Len(byte) - 1
        /\ BitSent = 1 => line' = line /\ ones' = ones + 1
        /\ BitSent = 0 => line' = Other(line) /\ ones' = 0
        /\ BitSent \in {0, 1}
    BY <1>7 DEF SendsBit
  <2> DEFINE b == Begins
             c == Begins'
             m == Len(byte)
             n == Len(byte')
  <2>2. m \in Nat /\ n \in Nat /\ m <= 7 /\ b \in 0 .. 2 /\ (b = 0 => m = 0)
    <3>1. Len(<<>>) = 0
      OBVIOUS
    <3> QED
      BY <1>0, <1>2, <3>1
  <2>3. (m = 0 /\ c = b + 1 /\ n = 7) \/ (m # 0 /\ c = b /\ n = m - 1)
    BY <1>3, <2>1
  <2>4. /\ b = 1 => ones <= (IF m = 0 THEN 1 ELSE 0)
        /\ b = 2 => ones <= (IF m >= 3 THEN 7 - m ELSE 2 - m)
    BY <1>1, <1>3
  <2>5. byte' = <<>> <=> n = 0
    BY <1>3
  <2>6. BitSent = Octet(sent[c])[8 - n]
    BY DEF BitSent
  <2>7. b = 0 => line = "J"
    BY <1>2
  <2>11. c \in 1 .. 2
    BY <1>7 DEF SendsBit
  <2> HIDE DEF b, c, m, n
  <2>8. CASE c = 1
    <3>1. BitSent = Octet(USB_SYNC)[8 - n]
      BY <1>2, <2>6, <2>8
    <3>2. CASE n = 0
      <4>1. m = 1 /\ b = 1
        BY <2>2, <2>3, <2>8, <3>2
      <4>2. ones <= 0
        BY <2>4, <4>1
      <4>3. ones' <= 1
        BY <1>0, <2>1, <4>2
      <4>4. c # 2 /\ n # 7
        BY <2>8, <3>2
      <4> QED
        BY <2>5, <3>2, <4>3, <4>4 DEF c, n
    <3>3. CASE n # 0
      <4>1. n \in 1 .. 7
        BY <2>2, <2>3, <3>3
      <4>2. 8 - n \in 1 .. 7
        BY <4>1
      <4>3. BitSent = 0
        BY <3>1, <4>2, HandshakeBits
      <4>4. line' = Other(line) /\ ones' = 0
        BY <2>1, <4>3
      <4>5. n = 7 => b = 0
        BY <2>2, <2>3, <2>8
      <4>6. n = 7 => line' = "K"
        BY <2>7, <4>4, <4>5 DEF Other
      <4>7. c # 2 /\ byte' # <<>>
        BY <2>5, <2>8, <3>3
      <4>8. ones' <= 0
        BY <4>4
      <4> QED
        BY <4>6, <4>7, <4>8 DEF c, n
    <3> QED
      BY <3>2, <3>3
  <2>9. CASE c = 2
    <3>1. BitSent = Octet(sent[2])[8 - n]
      BY <2>6, <2>9
    <3>2. ones' <= (IF n >= 3 THEN 7 - n ELSE 2 - n)
      <4>1. CASE n = 2 \/ n = 7
        <5>1. 8 - n = 1 \/ 8 - n = 6
          BY <4>1
        <5>2. BitSent = 0
          BY <1>2, <3>1, <5>1, HandshakeBits
        <5>3. ones' = 0
          BY <2>1, <5>2
        <5> QED
          BY <4>1, <5>3
      <4>2. CASE n # 2 /\ n # 7
        <5>1. b = 2 /\ m = n + 1 /\ m # 3
          BY <2>2, <2>3, <2>9, <4>2
        <5>2. ones <= (IF m >= 3 THEN 7 - m ELSE 2 - m)
          BY <2>4, <5>1
        <5>3. ones' <= ones + 1
          <6>1. ones' = ones + 1 \/ ones' = 0
            BY <2>1
          <6> QED
            BY <1>0, <6>1
        <5> QED
          BY <1>0, <2>2, <5>1, <5>2, <5>3
      <4> QED
        BY <4>1, <4>2
    <3>3. c # 1
      BY <2>9
    <3> QED
      BY <3>2, <3>3 DEF c, n
  <2>10. c = 1 \/ c = 2
    BY <2>11
  <2> QED
    BY <2>8, <2>9, <2>10
<1> QED
  BY <1>4, <1>5, <1>6, <1>7

-----------------------------------------------------------------------------

(* The decoder makes of each level what the device made it of. *)
LEMMA DecodesBit ==
    ASSUME Types, NEW bit \in {0, 1}, NEW level, NEW words,
           ones # 6, line # "SE0", dec_x <=> line = "K", dec_y = 6 - ones,
           bit = 1 => level = line, bit = 0 => level = Other(line),
           Decode(level, words)
    PROVE  /\ Shift(bit, words)
           /\ dec_x' <=> level = "K"
           /\ dec_y' = 6 - (IF bit = 1 THEN ones + 1 ELSE 0)
<1>0. line \in {"J", "K"} /\ ones \in 0 .. 6 /\ dec_x \in BOOLEAN
  BY DEF Types
<1>1. dec_y # 0
  BY <1>0
<1>2. CASE bit = 1
  <2>1. (level # "J") = dec_x
    BY <1>0, <1>2
  <2>2. dec_x' = dec_x /\ dec_y' = dec_y - 1 /\ Shift(1, words)
    BY <1>1, <2>1 DEF Decode
  <2>3. dec_x' <=> level = "K"
    BY <1>2, <2>2
  <2>4. dec_y' = 6 - (ones + 1)
    BY <1>0, <2>2
  <2> QED
    BY <1>2, <2>2, <2>3, <2>4
<1>3. CASE bit = 0
  <2>1. (level # "J") # dec_x
    BY <1>0, <1>3 DEF Other
  <2>2. dec_x' = ~dec_x /\ dec_y' = 6 /\ Shift(0, words)
    BY <1>1, <2>1 DEF Decode, BIT_REPEAT_COUNT
  <2>3. dec_x' <=> level = "K"
    BY <1>0, <1>3, <2>2 DEF Other
  <2>4. dec_y' = 6 - 0
    BY <2>2
  <2> QED
    BY <1>3, <2>2, <2>3, <2>4
<1> QED
  BY <1>2, <1>3

(* The decoder drops the bit after six ones. *)
LEMMA DropsStuffed ==
    ASSUME Types, NEW words,
           line # "SE0", dec_x <=> line = "K", dec_y = 0, Decode(Other(line), words)
    PROVE  /\ dec_x' <=> Other(line) = "K"
           /\ dec_y' = 6 /\ isr' = isr /\ fifo' = words
<1>0. line \in {"J", "K"} /\ dec_x \in BOOLEAN
  BY DEF Types
<1>1. dec_x' = ~dec_x /\ dec_y' = 6 /\ isr' = isr /\ fifo' = words
  BY DEF Decode, BIT_REPEAT_COUNT
<1>2. dec_x' <=> Other(line) = "K"
  BY <1>0, <1>1 DEF Other
<1> QED
  BY <1>1, <1>2

(* The queue of bytes grows with the bytes the device has sent. *)
LEMMA QueueGrows ==
    ASSUME Types, sent # <<>>, Queue, sent' = sent, Taken' = Taken, Got' = Got, Decoded \in Nat,
           \/ Decoded' = Decoded /\ fifo' = fifo
           \/ /\ Decoded' = Decoded + 1 /\ Decoded + 1 <= Len(sent)
              /\ fifo' = Append(fifo, sent[Decoded + 1])
    PROVE  Queue'
<1>0. fifo \in Seq(Nat) /\ Len(fifo) \in Nat
  BY DEF Types
<1>1. /\ Len(fifo) <= Decoded
      /\ \A i \in 1 .. Len(fifo) : fifo[i] = sent[Decoded - Len(fifo) + i]
      /\ Taken = AtMost(Decoded - Len(fifo), Counted)
      /\ \A i \in 1 .. Len(Got) : Got[i] = sent[i]
  BY DEF Queue
<1>2. CASE Decoded' = Decoded /\ fifo' = fifo
  BY <1>1, <1>2 DEF Queue
<1>3. CASE /\ Decoded' = Decoded + 1 /\ Decoded + 1 <= Len(sent)
           /\ fifo' = Append(fifo, sent[Decoded + 1])
  <2>1. sent[Decoded + 1] \in Nat
    <3>1. Decoded + 1 \in 1 .. Len(sent)
      BY <1>3, SentFacts
    <3>2. sent[Decoded + 1] \in 0 .. 255
      BY <3>1, SentFacts
    <3>3. \A v \in 0 .. 255 : v \in Nat
      OBVIOUS
    <3> QED
      BY Zenon, <3>2, <3>3
  <2> DEFINE b == sent[Decoded + 1]
             k == Decoded
             m == Len(fifo)
             n == Len(fifo')
  <2>2. /\ n = m + 1 /\ \A i \in 1 .. m : fifo'[i] = fifo[i]
        /\ fifo'[m + 1] = b
    BY <1>0, <1>3, <2>1, AppendFacts
  <2>3. m \in Nat /\ k \in Nat /\ m <= k
    BY <1>0, <1>1
  <2>4. ASSUME NEW i \in 1 .. n
        PROVE  fifo'[i] = sent[(k + 1) - n + i]
    <3> HIDE DEF b, k, m, n
    <3>1. (k + 1) - n + i = k - m + i
      BY <2>2, <2>3
    <3>2. CASE i = m + 1
      <4>1. k - m + i = k + 1
        BY <2>3, <3>2
      <4>2. b = sent[k + 1]
        BY DEF b, k
      <4> QED
        BY <2>2, <3>1, <3>2, <4>1, <4>2
    <3>3. CASE i \in 1 .. m
      <4>1. fifo[i] = sent[k - m + i]
        BY <1>1, <3>3 DEF k, m
      <4> QED
        BY <2>2, <3>1, <3>3, <4>1
    <3>4. i = m + 1 \/ i \in 1 .. m
      BY <2>2, <2>3
    <3> QED
      BY <3>2, <3>3, <3>4
  <2>5. n <= k + 1 /\ (k + 1) - n = k - m
    <3> HIDE DEF b, k, m, n
    <3> QED
      BY <2>2, <2>3
  <2>6. Taken' = AtMost((k + 1) - n, Counted')
    <3>1. Counted' = Counted
      BY DEF Counted
    <3> QED
      BY <1>1, <2>5, <3>1
  <2> QED
    BY <1>1, <1>3, <2>4, <2>5, <2>6 DEF Queue
<1> QED
  BY <1>2, <1>3

(* Of two bytes in the queue none is past the second. *)
LEMMA QueueTwo ==
    ASSUME NEW f \in Seq(Nat), NEW k \in Nat, NEW t \in Nat, NEW p \in Seq(0 .. 255),
           Len(f) >= 2, Len(f) <= k, t = AtMost(k - Len(f), Counted),
           \A i \in 1 .. Len(f) : f[i] = p[k - Len(f) + i]
    PROVE  /\ t + Len(f) >= 2
           /\ \A i \in 1 .. Len(f) : t + i <= 2 => f[i] = p[t + i]
<1>0. Len(f) \in Nat /\ Room \in Nat \ {0}
  BY RxAssumption
<1>1. t \in Nat /\ (t < Room + 2 => t = k - Len(f))
  BY <1>0 DEF AtMost, Counted
<1>2. ASSUME NEW i \in 1 .. Len(f), t + i <= 2
      PROVE  f[i] = p[t + i]
  <2>1. t < Room + 2
    BY <1>0, <1>1, <1>2
  <2> QED
    BY <1>1, <2>1
<1> QED
  BY <1>0, <1>1, <1>2

(* The decoder keeps step with the device, over stuffed bits and the end. *)
LEMMA LockstepBit ==
    ASSUME Types, sent # <<>>, Sending, Sending', DeviceTypes', sent' = sent,
           Waits \/ Stuffs \/ SendsBit \/ Ceases,
           Exact, Detect(line'), Taken' = Taken, Got' = Got
    PROVE  Lockstep' /\ Queue' /\ trigger' = FALSE
<1>0. /\ line \in {"J", "K", "SE0"} /\ ones \in 0 .. 6 /\ Len(rest) \in Nat /\ Len(byte) \in Nat
      /\ byte \in Seq({0, 1}) /\ byte' \in Seq({0, 1}) /\ Len(byte') \in Nat
      /\ isr \in Seq({0, 1}) /\ Len(isr) \in Nat /\ fifo \in Seq(Nat) /\ Len(fifo) \in Nat
      /\ dec_x \in BOOLEAN /\ trigger \in BOOLEAN
  BY DEF Types, DeviceTypes
<1>1. /\ Len(byte) <= 7 /\ Len(byte') <= 7 /\ (byte # <<>> => Begins >= 1)
      /\ (Begins = 0 => line = "J" /\ ones = 0) /\ (end = 2 => line # "SE0")
  BY DEF Sending
<1>2. Begins \in Nat /\ Len(sent) \in Nat /\ Len(sent) >= 2
  BY <1>0, SentFacts DEF Sending, Begins
<1>3. Queue /\ Lockstep /\ ~trigger /\ ~Stalled
  <2>1. Len(fifo) <= FifoDepth /\ FifoDepth \in Nat
    BY RxAssumption DEF Exact
  <2>2. ~Stalled
    BY <1>0, <2>1 DEF Stalled
  <2> QED
    BY <2>2 DEF Exact
<1>4. Triggered(line') => Decode(line', fifo) /\ trigger' = trigger
  BY <1>3 DEF Triggered
<1>5. Decoded = (IF byte = <<>> THEN Begins ELSE Begins - 1) /\ Decoded \in Nat
  BY <1>1, <1>2 DEF Decoded
<1>6. Decoded' = (IF byte' = <<>> THEN Begins' ELSE Begins' - 1)
  BY DEF Decoded
<1>7. /\ byte = <<>> <=> Len(byte) = 0
      /\ byte' = <<>> <=> Len(byte') = 0
      /\ isr = <<>> <=> Len(isr) = 0
  BY <1>0, EmptyFacts
<1>8. ASSUME Decoded' = Decoded, fifo' = fifo
      PROVE  Queue'
  BY <1>3, <1>5, <1>8, QueueGrows
<1>9. rest = <<>> => Begins # 0
  <2>1. rest = <<>> => Len(rest) = 0
    BY <1>0
  <2> QED
    BY <1>2, <2>1 DEF Begins
<1>10. CASE det = "start" /\ Begins = 0 /\ Fresh
  <2>1. line = "J" /\ ones = 0 /\ byte = <<>> /\ ~dec_x /\ dec_y = 6 /\ isr = <<>> /\ fifo = <<>>
    BY <1>1, <1>10 DEF Fresh
  <2>2. CASE Waits
    <3>1. /\ line' = "J" /\ Begins' = 0 /\ byte' = byte
      BY <2>1, <2>2 DEF Waits
    <3>2. UNCHANGED pio
      BY <1>10, <3>1 DEF Detect
    <3>3. /\ det' = det /\ dec_x' = dec_x /\ dec_y' = dec_y /\ isr' = isr /\ fifo' = fifo
          /\ trigger' = trigger
      BY <3>2 DEF pio, decoder
    <3>4. Lockstep'
      BY <1>10, <3>1, <3>3 DEF Lockstep, Fresh
    <3>5. Decoded' = Decoded
      BY <1>5, <1>6, <1>10, <3>1
    <3>6. Queue'
      BY <1>8, <3>3, <3>5
    <3> QED
      BY <1>3, <3>3, <3>4, <3>6
  <2>3. CASE SendsBit
    <3>1. Begins' = 1 /\ Len(byte') = 7 /\ byte' # <<>> /\ end' = 2
      <4>1. Begins' = Begins + 1 /\ Len(byte') = 7 /\ end' = 2
        BY <2>1, <2>3 DEF SendsBit
      <4> QED
        BY <1>7, <1>10, <4>1
    <3>2. BitSent = 0 /\ Octet(sent[1])[1] = 0
      <4>1. BitSent = Octet(USB_SYNC)[1] /\ Octet(USB_SYNC) = Octet(sent[1])
        BY <3>1, SentFacts DEF BitSent
      <4>2. Octet(USB_SYNC)[1] = 0
        BY HandshakeBits
      <4> QED
        BY <4>1, <4>2
    <3>3. line' = Other(line) /\ line' = "K" /\ ones' = 0
      BY <2>1, <2>3, <3>2 DEF SendsBit, Other
    <3>4. det' = "run" /\ Triggered(line')
      BY <1>10, <3>3 DEF Detect
    <3>5. Decode(line', fifo) /\ trigger' = FALSE
      BY <1>3, <1>4, <3>4
    <3>6. Shift(0, fifo) /\ (dec_x' <=> line' = "K") /\ dec_y' = 6 - 0
      <4>1. ones # 6 /\ line # "SE0" /\ (dec_x <=> line = "K") /\ dec_y = 6 - ones
        BY <2>1
      <4>2. ASSUME NEW bit \in {0, 1}, bit = 0
            PROVE  Shift(bit, fifo) /\ (dec_x' <=> line' = "K")
                   /\ dec_y' = 6 - (IF bit = 1 THEN ones + 1 ELSE 0)
        BY <3>3, <3>5, <4>1, <4>2, DecodesBit
      <4> QED
        BY <4>2
    <3>7. isr' = Append(isr, 0) /\ fifo' = fifo
      <4>1. Len(isr) # 7
        BY <1>7, <2>1
      <4> QED
        BY <3>6, <4>1 DEF Shift
    <3>8. Len(isr') = 1 /\ isr'[1] = 0
      BY <2>1, <3>7
    <3>9. Lockstep'
      <4>1. \A i \in 1 .. Len(isr') : isr'[i] = Octet(sent'[Begins'])[i]
        BY <3>1, <3>2, <3>8
      <4>2. dec_y' = 6 - ones' /\ Len(isr') = 8 - Len(byte')
        BY <3>1, <3>3, <3>6, <3>8
      <4>3. Begins' >= 1
        BY <3>1
      <4> QED
        BY <3>1, <3>4, <3>6, <4>1, <4>2, <4>3 DEF Lockstep
    <3>10. Decoded' = Decoded
      BY <1>5, <1>6, <1>10, <2>1, <3>1
    <3>11. Queue'
      BY <1>8, <3>7, <3>10
    <3> QED
      BY <3>5, <3>9, <3>11
  <2>4. ~Stuffs
    BY <2>1 DEF Stuffs
  <2>5. ~Ceases
    BY <1>9, <1>10 DEF Ceases
  <2> QED
    BY <2>2, <2>3, <2>4, <2>5
<1>11. CASE /\ det = "run" /\ Begins >= 1 /\ end = 2
            /\ (dec_x <=> line = "K") /\ dec_y = 6 - ones
            /\ Len(isr) = (IF byte = <<>> THEN 0 ELSE 8 - Len(byte))
            /\ \A i \in 1 .. Len(isr) : isr[i] = Octet(sent[Begins])[i]
  <2>0. line # "SE0"
    BY <1>1, <1>11
  <2>1. ~Waits
    BY <1>2, <1>11 DEF Waits
  <2>2. CASE Stuffs
    <3>1. /\ ones = 6 /\ ones' = 0 /\ line' = Other(line) /\ end' = end
          /\ byte' = byte /\ rest' = rest /\ Begins' = Begins
      BY <2>2 DEF Stuffs
    <3>2. line' # "SE0"
      BY <3>1, OtherFacts
    <3>3. det' = "run" /\ Triggered(line')
      BY <1>11, <3>2 DEF Detect, IsEop
    <3>4. Decode(line', fifo) /\ trigger' = FALSE
      BY <1>3, <1>4, <3>3
    <3>5. dec_y = 0
      BY <1>11, <3>1
    <3>6. (dec_x' <=> line' = "K") /\ dec_y' = 6 /\ isr' = isr /\ fifo' = fifo
      BY <1>11, <2>0, <3>1, <3>4, <3>5, DropsStuffed
    <3>7. Lockstep'
      <4>1. dec_y' = 6 - ones'
        BY <3>1, <3>6
      <4> QED
        BY <1>11, <3>1, <3>3, <3>6, <4>1 DEF Lockstep
    <3>8. Queue'
      BY <1>5, <1>6, <1>8, <3>1, <3>6
    <3> QED
      BY <3>4, <3>7, <3>8
  <2>3. CASE SendsBit
    <3>1. /\ ones # 6 /\ end' = 2
          /\ Begins' = (IF byte = <<>> THEN Begins + 1 ELSE Begins)
          /\ Len(byte') = (IF byte = <<>> THEN 7 ELSE Len(byte) - 1)
          /\ BitSent \in {0, 1}
          /\ BitSent = 1 => line' = line /\ ones' = ones + 1
          /\ BitSent = 0 => line' = Other(line) /\ ones' = 0
          /\ Begins' \in 1 .. Len(sent)
      BY <2>3 DEF SendsBit
    <3>2. line' # "SE0"
      BY <2>0, <3>1, OtherFacts
    <3>3. det' = "run" /\ Triggered(line')
      BY <1>11, <3>2 DEF Detect, IsEop
    <3>4. Decode(line', fifo) /\ trigger' = FALSE
      BY <1>3, <1>4, <3>3
    <3> DEFINE bit == BitSent
               m == Len(byte)
               n == Len(byte')
               h == Len(isr)
    <3>5. Shift(bit, fifo) /\ (dec_x' <=> line' = "K")
          /\ dec_y' = 6 - (IF bit = 1 THEN ones + 1 ELSE 0)
      <4>1. (bit = 1 => line' = line) /\ (bit = 0 => line' = Other(line)) /\ bit \in {0, 1}
        BY <3>1
      <4> HIDE DEF bit
      <4> QED
        BY <1>11, <2>0, <3>1, <3>4, <4>1, DecodesBit
    <3>6. dec_y' = 6 - ones'
      <4>1. ones' = (IF bit = 1 THEN ones + 1 ELSE 0)
        BY <3>1
      <4> QED
        BY <3>5, <4>1
    <3>7. /\ m \in Nat /\ n \in Nat /\ h \in Nat /\ m <= 7
          /\ (m = 0 /\ n = 7 /\ h = 0) \/ (m # 0 /\ n = m - 1 /\ h = 8 - m)
          /\ byte = <<>> <=> m = 0
          /\ byte' = <<>> <=> n = 0
      <4>1. h = (IF byte = <<>> THEN 0 ELSE 8 - m)
        BY <1>11
      <4>2. n = (IF byte = <<>> THEN 7 ELSE m - 1)
        BY <3>1
      <4> QED
        BY <1>0, <1>1, <1>7, <4>1, <4>2
    <3>8. bit = Octet(sent[Begins'])[8 - n] /\ bit \in {0, 1}
      BY <3>1 DEF BitSent
    <3>9. CASE byte' # <<>>
      <4> HIDE DEF bit, m, n, h
      <4>1. h < 7 /\ h + 1 = 8 - n /\ n # 0
        BY <3>7, <3>9
      <4>2. isr' = Append(isr, bit) /\ fifo' = fifo
        <5>1. Len(isr) # 7
          BY <4>1 DEF h
        <5> QED
          BY <3>5, <5>1 DEF Shift
      <4>3. /\ Len(isr') = h + 1 /\ \A i \in 1 .. h : isr'[i] = isr[i]
            /\ isr'[h + 1] = bit
        BY <1>0, <3>8, <4>2, AppendFacts DEF h
      <4>4. ASSUME NEW i \in 1 .. Len(isr')
            PROVE  isr'[i] = Octet(sent[Begins'])[i]
        <5>1. i \in 1 .. h \/ i = h + 1
          BY <3>7, <4>3
        <5>2. CASE i = h + 1
          BY <3>8, <4>1, <4>3, <5>2
        <5>3. CASE i \in 1 .. h
          <6>1. byte # <<>>
            BY <3>7, <5>3
          <6>2. Begins' = Begins
            BY <3>1, <6>1
          <6>3. isr[i] = Octet(sent[Begins])[i]
            BY <1>11, <5>3 DEF h
          <6> QED
            BY <4>3, <5>3, <6>2, <6>3
        <5> QED
          BY <5>1, <5>2, <5>3
      <4>5. Len(isr') = 8 - Len(byte')
        BY <4>1, <4>3 DEF n
      <4>6. Begins' >= 1
        BY <1>2, <3>1
      <4>7. Lockstep'
        BY <3>1, <3>3, <3>5, <3>6, <3>9, <4>4, <4>5, <4>6 DEF Lockstep
      <4>8. Decoded' = Decoded
        BY <1>2, <1>5, <1>6, <3>1, <3>9
      <4>9. Queue'
        BY <1>8, <4>2, <4>8
      <4> QED
        BY <3>4, <4>7, <4>9
    <3>10. CASE byte' = <<>>
      <4> HIDE DEF bit, m, n, h
      <4>1. n = 0 /\ m = 1 /\ h = 7 /\ byte # <<>>
        BY <3>7, <3>10
      <4>2. Begins' = Begins /\ Begins \in 1 .. Len(sent)
        BY <3>1, <4>1
      <4>3. isr' = <<>> /\ fifo' = Append(fifo, Byte(Append(isr, bit)))
        <5>1. Len(isr) = 7
          BY <4>1 DEF h
        <5> QED
          BY <3>5, <5>1 DEF Shift
      <4> DEFINE s == Append(isr, bit)
      <4>4. /\ s \in Seq({0, 1}) /\ \A i \in 1 .. h : s[i] = isr[i]
            /\ s[h + 1] = bit
        BY <1>0, <3>8, AppendFacts DEF h
      <4>5. ASSUME NEW i \in 1 .. 8
            PROVE  s[i] = Octet(sent[Begins])[i]
        <5> HIDE DEF s
        <5>1. i \in 1 .. h \/ i = h + 1
          BY <4>1
        <5>2. CASE i = h + 1
          <6>1. i = 8 - n
            BY <4>1, <5>2
          <6> QED
            BY <3>8, <4>2, <4>4, <5>2, <6>1
        <5>3. CASE i \in 1 .. h
          <6>1. isr[i] = Octet(sent[Begins])[i]
            BY <1>11, <5>3 DEF h
          <6> QED
            BY <4>4, <5>3, <6>1
        <5> QED
          BY <5>1, <5>2, <5>3
      <4>6. Byte(s) = sent[Begins]
        <5>1. sent[Begins] \in 0 .. 255
          BY <4>2, SentFacts
        <5> HIDE DEF s
        <5> QED
          BY <4>4, <4>5, <5>1, ByteOf
      <4>7. Decoded = Begins - 1 /\ Decoded' = Begins
        BY <1>5, <1>6, <3>10, <4>1, <4>2
      <4>8. Decoded' = Decoded + 1 /\ Decoded + 1 = Begins /\ Decoded + 1 <= Len(sent)
        BY <1>2, <4>2, <4>7
      <4>9. fifo' = Append(fifo, sent[Decoded + 1])
        BY <4>3, <4>6, <4>8
      <4>10. Queue'
        BY <1>3, <1>5, <4>8, <4>9, QueueGrows
      <4>11. Len(isr') = 0 /\ Begins' >= 1
        BY <4>2, <4>3
      <4>12. \A i \in 1 .. Len(isr') : isr'[i] = Octet(sent'[Begins'])[i]
        BY <4>11
      <4>13. Lockstep'
        BY <3>1, <3>3, <3>5, <3>6, <3>10, <4>11, <4>12 DEF Lockstep
      <4> QED
        BY <3>4, <4>10, <4>13
    <3> QED
      BY <3>9, <3>10
  <2>4. CASE Ceases
    <3>1. line' = "SE0" /\ ones # 6 /\ rest' = <<>> /\ byte' = <<>> /\ byte = <<>> /\ Begins' = Begins
      BY <1>11, <2>4 DEF Ceases
    <3>2. det' = "eop" /\ Triggered(line')
      BY <1>11, <3>1 DEF Detect, IsEop
    <3>3. Decode(line', fifo) /\ trigger' = FALSE
      BY <1>3, <1>4, <3>2
    <3>4. dec_y # 0
      BY <1>0, <1>11, <3>1
    <3>5. Len(isr) # 7
      BY <1>11, <3>1
    <3>6. fifo' = fifo
      BY <3>3, <3>4, <3>5 DEF Decode, Shift
    <3>7. Lockstep'
      BY <3>1, <3>2 DEF Lockstep
    <3>8. Queue'
      BY <1>5, <1>6, <1>8, <3>1, <3>6
    <3> QED
      BY <3>3, <3>7, <3>8
  <2> QED
    BY <2>1, <2>2, <2>3, <2>4
<1>12. CASE det = "eop" /\ rest = <<>> /\ byte = <<>>
  <2>1. UNCHANGED pio
    BY <1>12 DEF Detect
  <2>2. det' = det /\ fifo' = fifo /\ trigger' = trigger
    BY <2>1 DEF pio, decoder
  <2>3. ~SendsBit
    BY <1>12 DEF SendsBit
  <2>4. rest' = rest /\ byte' = byte /\ Begins' = Begins
    BY <1>12, <2>3 DEF Waits, Stuffs, Ceases
  <2>5. Lockstep'
    BY <1>12, <2>2, <2>4 DEF Lockstep
  <2>6. Queue'
    BY <1>5, <1>6, <1>8, <2>2, <2>4
  <2> QED
    BY <1>3, <2>2, <2>5, <2>6
<1> QED
  BY <1>3, <1>10, <1>11, <1>12 DEF Lockstep

(* A push does not touch the first two bytes. *)
LEMMA FirstTwoGrows ==
    ASSUME Types, FirstTwo, sent' = sent, Taken' = Taken, Got' = Got, Taken \in Nat,
           fifo' = fifo \/ \E b \in Nat : fifo' = Append(fifo, b)
    PROVE  FirstTwo'
<1>0. fifo \in Seq(Nat) /\ Len(fifo) \in Nat
  BY DEF Types
<1>1. /\ Taken + Len(fifo) >= 2
      /\ \A i \in 1 .. Len(Got) : i <= 2 => Got[i] = sent[i]
      /\ \A i \in 1 .. Len(fifo) : Taken + i <= 2 => fifo[i] = sent[Taken + i]
  BY DEF FirstTwo
<1>2. CASE fifo' = fifo
  BY <1>1, <1>2 DEF FirstTwo
<1>3. ASSUME NEW b \in Nat, fifo' = Append(fifo, b)
      PROVE  FirstTwo'
  <2>1. Len(fifo') = Len(fifo) + 1 /\ \A i \in 1 .. Len(fifo) : fifo'[i] = fifo[i]
    BY <1>0, <1>3, AppendFacts
  <2>2. ASSUME NEW i \in 1 .. Len(fifo'), Taken + i <= 2
        PROVE  fifo'[i] = sent[Taken + i]
    <3>1. i # Len(fifo) + 1
      BY <1>0, <1>1, <2>2
    <3>2. i \in 1 .. Len(fifo)
      BY <1>0, <2>1, <3>1
    <3> QED
      BY <1>1, <2>1, <2>2, <3>2
  <2>3. Taken + Len(fifo') >= 2
    BY <1>0, <1>1, <2>1
  <2> QED
    BY <1>1, <2>2, <2>3 DEF FirstTwo
<1> QED
  BY <1>2, <1>3

(* One bit time of a reception: exact, or from the second byte on not.     *)
LEMMA ExactBit ==
    ASSUME Types, sent # <<>>, Sending, Sending', DeviceTypes', sent' = sent,
           Waits \/ Stuffs \/ SendsBit \/ Ceases,
           Exact, Detect(line'), Taken' = Taken, Got' = Got
    PROVE  /\ Len(fifo') <= FifoDepth => Exact'
           /\ Exact' \/ FirstTwo'
<1>1. Lockstep' /\ Queue' /\ ~trigger'
  BY LockstepBit
<1>2. Len(fifo') <= FifoDepth => Exact'
  BY <1>1 DEF Exact
<1>3. fifo' \in Seq(Nat) /\ Len(fifo') \in Nat /\ FifoDepth \in Nat \ {0}
  BY DetectFacts, RxAssumption
<1>4. CASE Len(fifo') > FifoDepth
  <2> DEFINE k == Decoded'
             t == Taken'
             f == fifo'
  <2>1. k \in Nat
    <3>1. Len(rest') \in Nat /\ byte' \in Seq({0, 1}) /\ Len(sent) \in Nat
      BY SentFacts DEF DeviceTypes
    <3>2. Len(rest') <= Len(sent') /\ (byte' # <<>> => Begins' >= 1)
      BY DEF Sending
    <3>3. Begins' = Len(sent) - Len(rest')
      BY DEF Begins
    <3>4. Begins' \in Nat
      BY <3>1, <3>2, <3>3
    <3>5. Decoded' = (IF byte' = <<>> THEN Begins' ELSE Begins' - 1)
      BY DEF Decoded
    <3> DEFINE n == Begins'
    <3>6. n \in Nat /\ (byte' # <<>> => n >= 1) /\ k = (IF byte' = <<>> THEN n ELSE n - 1)
      BY <3>2, <3>4, <3>5
    <3> HIDE DEF n, k
    <3> QED
      BY <3>6
  <2>2. /\ Len(f) <= k
        /\ \A i \in 1 .. Len(f) : f[i] = sent[k - Len(f) + i]
        /\ t = AtMost(k - Len(f), Counted)
        /\ \A i \in 1 .. Len(Got') : Got'[i] = sent[i]
    <3>1. Counted' = Counted
      BY DEF Counted
    <3> QED
      BY <1>1, <3>1 DEF Queue
  <2>3. Len(f) >= 2 /\ f \in Seq(Nat)
    BY <1>3, <1>4
  <2>4. /\ t + Len(f) >= 2
        /\ \A i \in 1 .. Len(f) : t + i <= 2 => f[i] = sent[t + i]
    <3>1. /\ Len(f) <= k /\ t = AtMost(k - Len(f), Counted)
          /\ \A i \in 1 .. Len(f) : f[i] = sent[k - Len(f) + i]
      BY <2>2
    <3>2. sent \in Seq(0 .. 255)
      BY SentFacts
    <3>3. t \in Nat
      <4>1. Room \in Nat \ {0} /\ Len(f) \in Nat
        BY <1>3, RxAssumption
      <4> HIDE DEF k, t, f
      <4> QED
        BY <2>1, <3>1, <4>1 DEF AtMost, Counted
    <3> HIDE DEF k, t, f
    <3> QED
      BY ZenonT(40), <2>1, <2>3, <3>1, <3>2, <3>3, QueueTwo
  <2>5. Taken' + Len(fifo') >= 2
    BY <2>4
  <2>6. \A i \in 1 .. Len(Got') : i <= 2 => Got'[i] = sent'[i]
    BY <2>2
  <2>7. \A i \in 1 .. Len(fifo') : Taken' + i <= 2 => fifo'[i] = sent'[Taken' + i]
    BY <2>4
  <2> QED
    BY Zenon, <1>2, <2>5, <2>6, <2>7 DEF FirstTwo
<1> QED
  BY <1>2, <1>3, <1>4

(* A handshake of which the first bit was missed never makes two bytes.    *)
LEMMA MissedBit ==
    ASSUME Types, sent # <<>>, Sending, Unstuffed, DeviceTypes', sent' = sent, Len(sent) = 2,
           Waits \/ Stuffs \/ SendsBit \/ Ceases,
           Missed, Detect(line'), Taken' = Taken, Taken \in Nat
    PROVE  Missed'
<1>0. /\ line \in {"J", "K", "SE0"} /\ ones \in 0 .. 6 /\ Len(rest) \in Nat /\ Len(byte) \in Nat
      /\ byte \in Seq({0, 1}) /\ byte' \in Seq({0, 1}) /\ Len(byte') \in Nat /\ Len(rest') \in Nat
      /\ isr \in Seq({0, 1}) /\ Len(isr) \in Nat /\ fifo \in Seq(Nat) /\ Len(fifo) \in Nat
      /\ det \in {"eop", "start", "run"}
  BY DEF Types, DeviceTypes
<1>1. /\ det' \in {"eop", "start", "run"} /\ Len(isr') \in Nat /\ Len(fifo') \in Nat
      /\ 8 * Len(fifo') + Len(isr') <= 8 * Len(fifo) + Len(isr) + 1
  <2>1. isr' \in Seq({0, 1}) /\ fifo' \in Seq(Nat) /\ det' \in {"eop", "start", "run"}
        /\ 8 * Len(fifo') + Len(isr') <= 8 * Len(fifo) + Len(isr) + 1
    BY DetectFacts
  <2> QED
    BY <2>1
<1> DEFINE r == Len(rest)
           m == Len(byte)
           cap == 8 * (Taken + Len(fifo)) + Len(isr)
           cap1 == 8 * (Taken + Len(fifo')) + Len(isr')
           left == 8 * r + m
           left1 == 8 * Len(rest') + Len(byte')
<1>2. cap1 <= cap + 1 /\ cap \in Nat /\ cap1 \in Nat
  BY <1>0, <1>1
<1>3. /\ ~trigger
      /\ det = "start" => cap = 0 /\ (left <= 14 \/ (left = 15 /\ line = "K"))
      /\ det = "run" => cap + left + 1 <= 15 /\ end = 2
      /\ det = "eop" => cap <= 15
  BY DEF Missed, Captured, BitsLeft
<1>4. ASSUME ~trigger',
             det' = "start" => cap1 = 0 /\ (left1 <= 14 \/ (left1 = 15 /\ line' = "K")),
             det' = "run" => cap1 + left1 + 1 <= 15 /\ end' = 2,
             det' = "eop" => cap1 <= 15
      PROVE  Missed'
  BY <1>4 DEF Missed, Captured, BitsLeft
<1>5. /\ r <= 2 /\ m <= 7 /\ Begins = 2 - r
      /\ Begins = 0 => line = "J" /\ ones = 0
      /\ end = 2 => line # "SE0"
  BY DEF Sending, Begins
<1>6. ones # 6
  <2>1. /\ Begins = 1 => ones <= (IF byte = <<>> THEN 1 ELSE 0)
        /\ Begins = 2 => ones <= (IF m >= 3 THEN 7 - m ELSE 2 - m)
    BY DEF Unstuffed
  <2> HIDE DEF r, m
  <2>2. Begins = 0 \/ Begins = 1 \/ Begins = 2
    <3>1. r \in Nat
      BY <1>0 DEF r
    <3>2. r = 0 \/ r = 1 \/ r = 2
      BY <1>5, <3>1
    <3> QED
      BY <1>5, <3>2
  <2>3. m \in Nat
    BY <1>0 DEF m
  <2> QED
    BY <1>0, <1>5, <2>1, <2>2, <2>3
<1>7. /\ ~Stalled
      /\ Triggered(line') => trigger' = trigger
  <2>1. Taken + Len(fifo) <= 1
    <3>1. cap <= 15
      <4> HIDE DEF cap, left
      <4>1. left \in Nat
        BY <1>0 DEF left, r, m
      <4>2. CASE det = "start"
        BY <1>3, <4>2
      <4>3. CASE det = "run"
        BY <1>2, <1>3, <4>1, <4>3
      <4>4. CASE det = "eop"
        BY <1>3, <4>4
      <4> QED
        BY <1>0, <4>2, <4>3, <4>4
    <3> QED
      BY <1>0, <3>1
  <2>2. FifoDepth \in Nat \ {0}
    BY RxAssumption
  <2>3. ~Stalled
    BY <1>0, <2>1, <2>2 DEF Stalled
  <2> QED
    BY <2>3 DEF Triggered
<1>8. ASSUME UNCHANGED pio
      PROVE  det' = det /\ trigger' = trigger /\ cap1 = cap
  BY <1>8 DEF pio, decoder
<1>9. byte = <<>> <=> m = 0
  BY <1>0, EmptyFacts
<1>10. CASE Waits
  <2>1. Begins = 0 /\ line' = line /\ rest' = rest /\ byte' = byte
    BY <1>10 DEF Waits
  <2>2. left >= 16
    <3>1. r \in Nat /\ m \in Nat /\ Begins = 2 - r /\ left = 8 * r + m
      BY <1>0, <1>5
    <3> HIDE DEF r, m, left
    <3>2. r = 2
      BY <2>1, <3>1
    <3> QED
      BY <3>1, <3>2
  <2>3. cap + left + 1 > 15 /\ ~(cap + left + 1 <= 15)
    <3>1. left \in Nat
      BY <1>0
    <3> HIDE DEF cap, left
    <3> QED
      BY <1>2, <2>2, <3>1
  <2>4. det = "eop"
    <3> HIDE DEF cap, left
    <3>1. left \in Nat
      BY <1>0 DEF left, r, m
    <3>2. det # "start"
      BY <1>3, <2>2, <3>1
    <3>3. det # "run"
      BY <1>3, <2>3
    <3> QED
      BY <1>0, <3>2, <3>3
  <2>5. UNCHANGED pio
    BY <2>4 DEF Detect
  <2> QED
    BY <1>3, <1>4, <1>8, <2>4, <2>5
<1>11. ~Stuffs
  BY <1>6 DEF Stuffs
<1>12. CASE SendsBit
  <2>1. /\ end = 2 /\ end' = 2
        /\ Begins' = (IF byte = <<>> THEN Begins + 1 ELSE Begins)
        /\ Len(byte') = (IF byte = <<>> THEN 7 ELSE Len(byte) - 1)
        /\ BitSent \in {0, 1}
        /\ BitSent = 1 => line' = line
        /\ BitSent = 0 => line' = Other(line)
    BY <1>12 DEF SendsBit
  <2>2. Begins' = 2 - Len(rest')
    BY DEF Begins
  <2>3. left1 = left - 1
    <3>1. CASE byte = <<>>
      BY SMTT(40), <1>0, <1>5, <1>9, <2>1, <2>2, <3>1
    <3>2. CASE byte # <<>>
      BY <1>0, <1>5, <1>9, <2>1, <2>2, <3>2
    <3> QED
      BY <3>1, <3>2
  <2>4. line' # "SE0"
    BY <1>5, <2>1, OtherFacts
  <2>5. left \in Nat /\ left1 \in Nat
    BY <1>0
  <2>6. left = 15 /\ line = "K" => line' = "J"
    <3> SUFFICES ASSUME left = 15, line = "K"
                 PROVE  line' = "J"
      OBVIOUS
    <3>1. r = 1 /\ m = 7
      <4>1. r \in Nat /\ m \in Nat /\ 8 * r + m = 15
        BY <1>0
      <4> HIDE DEF r, m
      <4> QED
        BY <1>5, <4>1
    <3>2. byte # <<>> /\ Begins = 1
      BY <1>5, <1>9, <3>1
    <3>3. Begins' = 1 /\ Len(byte') = 6
      BY <2>1, <3>1, <3>2
    <3>4. BitSent = Octet(USB_SYNC)[2]
      BY <3>3, SentFacts DEF BitSent
    <3>5. BitSent = 0
      BY <3>4, HandshakeBits
    <3> QED
      BY <2>1, <3>5 DEF Other
  <2> HIDE DEF cap, cap1, left, left1
  <2>7. CASE det = "start" /\ line' = "K"
    <3>1. det' = "run" /\ Triggered(line')
      BY <2>7 DEF Detect
    <3>2. cap = 0 /\ left <= 14
      BY <1>3, <2>6, <2>7
    <3>3. cap1 + left1 + 1 <= 15
      BY <1>2, <2>3, <2>5, <3>2
    <3> QED
      BY <1>3, <1>4, <1>7, <2>1, <3>1, <3>3
  <2>8. CASE det = "start" /\ line' # "K"
    <3>1. UNCHANGED pio
      BY <2>8 DEF Detect
    <3>2. cap = 0 /\ left1 <= 14
      BY <1>3, <2>3, <2>5, <2>8
    <3> QED
      BY <1>3, <1>4, <1>8, <2>8, <3>1, <3>2
  <2>9. CASE det = "run"
    <3>1. det' = "run" /\ Triggered(line')
      BY <2>4, <2>9 DEF Detect, IsEop
    <3>2. cap1 + left1 + 1 <= 15
      BY <1>2, <1>3, <2>3, <2>5, <2>9
    <3> QED
      BY <1>3, <1>4, <1>7, <2>1, <3>1, <3>2
  <2>10. CASE det = "eop"
    <3>1. UNCHANGED pio
      BY <2>10 DEF Detect
    <3> QED
      BY <1>3, <1>4, <1>8, <2>10, <3>1
  <2> QED
    BY <1>0, <2>7, <2>8, <2>9, <2>10
<1>13. CASE Ceases
  <2>1. /\ rest = <<>> /\ byte = <<>> /\ rest' = rest /\ byte' = byte
        /\ line' = (IF end > 0 THEN "SE0" ELSE "J")
    BY <1>13 DEF Ceases
  <2>2. left = 0 /\ left1 = 0
    BY <2>1
  <2> HIDE DEF cap, cap1, left, left1
  <2>3. CASE det = "start"
    <3>1. line' # "K"
      BY <2>1
    <3>2. UNCHANGED pio
      BY <2>3, <3>1 DEF Detect
    <3> QED
      BY <1>3, <1>4, <1>8, <2>2, <2>3, <3>2
  <2>4. CASE det = "run"
    <3>1. line' = "SE0"
      BY <1>3, <2>1, <2>4
    <3>2. det' = "eop" /\ Triggered(line')
      BY <2>4, <3>1 DEF Detect, IsEop
    <3>3. cap1 <= 15
      BY <1>2, <1>3, <2>2, <2>4
    <3> QED
      BY <1>3, <1>4, <1>7, <3>2, <3>3
  <2>5. CASE det = "eop"
    <3>1. UNCHANGED pio
      BY <2>5 DEF Detect
    <3> QED
      BY <1>3, <1>4, <1>8, <2>5, <3>1
  <2> QED
    BY <1>0, <2>3, <2>4, <2>5
<1> QED
  BY <1>10, <1>11, <1>12, <1>13

-----------------------------------------------------------------------------

(* Types, whatever is sent. *)
LEMMA DeviceTypesBit ==
    ASSUME Types, DeviceSends
    PROVE  DeviceTypes'
<1>0. /\ line \in {"J", "K", "SE0"} /\ gap \in Nat /\ ones \in 0 .. 6 /\ end \in 0 .. 2
      /\ rest \in Seq(Seq({0, 1})) /\ byte \in Seq({0, 1})
  BY DEF Types
<1>1. CASE gap > 0 /\ gap' = gap - 1 /\ UNCHANGED <<line, rest, byte, ones, end>>
  BY <1>0, <1>1 DEF DeviceTypes
<1>2. CASE line' = Other(line) /\ ones' = 0 /\ UNCHANGED <<gap, rest, byte, end>>
  BY <1>0, <1>2, OtherFacts DEF DeviceTypes
<1>3. CASE /\ ones # 6 /\ Coming # <<>>
           /\ \/ Head(Coming) = 1 /\ line' = line /\ ones' = ones + 1
              \/ Head(Coming) = 0 /\ line' = Other(line) /\ ones' = 0
           /\ byte' = Tail(Coming)
           /\ rest' = IF byte # <<>> THEN rest ELSE Tail(rest)
           /\ UNCHANGED <<gap, end>>
  <2>1. Coming \in Seq({0, 1}) /\ (byte = <<>> => rest # <<>>)
    <3>1. rest # <<>> => Head(rest) \in Seq({0, 1})
      BY <1>0, TailFacts
    <3> QED
      BY <1>0, <1>3, <3>1 DEF Coming
  <2>2. byte' \in Seq({0, 1})
    BY <1>3, <2>1, TailFacts
  <2>3. rest' \in Seq(Seq({0, 1}))
    BY <1>0, <1>3, <2>1, TailFacts
  <2>4. line' \in {"J", "K", "SE0"} /\ ones' \in 0 .. 6
    BY <1>0, <1>3, OtherFacts
  <2> QED
    BY <1>0, <1>3, <2>2, <2>3, <2>4 DEF DeviceTypes
<1>4. CASE /\ line' = (IF end > 0 THEN "SE0" ELSE "J")
           /\ end' = (IF end > 0 THEN end - 1 ELSE 0)
           /\ UNCHANGED <<gap, rest, byte, ones>>
  BY <1>0, <1>4 DEF DeviceTypes
<1> QED
  BY <1>1, <1>2, <1>3, <1>4 DEF DeviceSends

(* A bit time keeps the types. *)
LEMMA TypesBit ==
    ASSUME Types, Bit
    PROVE  Types'
<1>1. DeviceTypes'
  BY DeviceTypesBit DEF Bit
<1>2. /\ det' \in {"eop", "start", "run"} /\ irq_start' \in BOOLEAN /\ irq_eop' \in BOOLEAN
      /\ dec_x' \in BOOLEAN /\ dec_y' \in 0 .. 6 /\ trigger' \in BOOLEAN
      /\ isr' \in Seq({0, 1}) /\ Len(isr') <= 7 /\ fifo' \in Seq(Nat)
  BY DetectFacts DEF Bit
<1>3. waited' \in Nat
  <2>1. SopBits \in Nat /\ DrainBits \in Nat /\ waited \in Nat
    BY RxAssumption DEF Types
  <2> QED
    BY <2>1 DEF Bit, AtMost
<1>4. looked' \in BOOLEAN /\ prompt' \in BOOLEAN
  <2>1. looked' = (pc = "done") /\ prompt' = (prompt /\ looked)
    BY DEF Bit
  <2> QED
    BY <2>1 DEF Types
<1>5. /\ pc' = pc /\ out' = out /\ idx' = idx /\ overflowed' = overflowed /\ sent' = sent
      /\ late' = late /\ Counted' = Counted
  BY DEF Bit, host, Counted
<1>6. /\ pc \in {"prepared", "armed", "sop", "started", "pull", "flag", "clock", "done"}
      /\ out \in Seq(Nat) /\ idx \in 0 .. Counted /\ overflowed \in BOOLEAN
      /\ sent \in Packets \cup {<<>>} /\ late \in BOOLEAN
  BY DEF Types
<1> QED
  BY Zenon, <1>1, <1>2, <1>3, <1>4, <1>5, <1>6 DEF Types, DeviceTypes

(* The bits of what a device may send. *)
LEMMA CutOffTypes ==
    ASSUME NEW n \in 1 .. 16
    PROVE  CutOff(n) \in Seq(Seq({0, 1}))
<1>1. ASSUME NEW b \in 0 .. 255, NEW k \in 0 .. 8
      PROVE  SubSeq(Octet(b), 1, k) \in Seq({0, 1})
  <2>1. Octet(b) \in Seq({0, 1}) /\ Len(Octet(b)) = 8
    BY OctetFacts
  <2>2. ASSUME NEW s \in Seq({0, 1}), Len(s) = 8
        PROVE  SubSeq(s, 1, k) \in Seq({0, 1})
    <3>1. \A i \in 1 .. 8 : s[i] \in {0, 1}
      BY <2>2, ElementFacts
    <3>2. \A i \in 1 .. k : s[i] \in {0, 1}
      BY <3>1
    <3>3. 1 \in Int /\ k \in Int
      OBVIOUS
    <3> QED
      BY <3>2, <3>3, SubSeqProperties
  <2> QED
    BY <2>1, <2>2
<1>2. USB_SYNC \in 0 .. 255 /\ USB_PID_NAK \in 0 .. 255
  BY DEF USB_SYNC, USB_PID_NAK
<1>3. CASE n <= 8
  <2>1. SubSeq(Octet(USB_SYNC), 1, n) \in Seq({0, 1})
    <3>1. n \in 0 .. 8
      BY <1>3
    <3> QED
      BY <1>1, <1>2, <3>1
  <2> QED
    BY <1>3, <2>1 DEF CutOff
<1>4. CASE ~(n <= 8)
  <2>1. SubSeq(Octet(USB_PID_NAK), 1, n - 8) \in Seq({0, 1})
    <3>1. n - 8 \in 0 .. 8
      BY <1>4
    <3> QED
      BY <1>1, <1>2, <3>1
  <2>2. Octet(USB_SYNC) \in Seq({0, 1})
    BY <1>2, OctetFacts
  <2> QED
    BY <1>4, <2>1, <2>2 DEF CutOff
<1> QED
  BY <1>3, <1>4

(* What a device may do next. *)
LEMMA TransmissionFacts ==
    ASSUME NEW t \in Transmissions
    PROVE  /\ t.gap \in Nat /\ t.end \in 0 .. 2 /\ t.rest \in Seq(Seq({0, 1}))
           /\ t.packet \in Packets \cup {<<>>}
           /\ t.packet # <<>> =>
                /\ t.rest = Octets(t.packet) /\ t.gap \in Gaps /\ t.end = 2
<1>1. ASSUME NEW p \in Packets
      PROVE  Octets(p) \in Seq(Seq({0, 1}))
  <2>1. p \in Seq(0 .. 255)
    BY PacketsAssumption
  <2>2. Len(p) \in Nat /\ \A i \in 1 .. Len(p) : p[i] \in 0 .. 255
    BY <2>1, ElementFacts
  <2>3. \A i \in 1 .. Len(p) : Octet(p[i]) \in Seq({0, 1})
    BY <2>2, OctetFacts
  <2> QED
    BY <2>2, <2>3 DEF Octets
<1>2. CASE \E p \in Packets, g \in Gaps :
             t = [packet |-> p, gap |-> g, rest |-> Octets(p), end |-> 2]
  <2>1. PICK p \in Packets, g \in Gaps :
             t = [packet |-> p, gap |-> g, rest |-> Octets(p), end |-> 2]
    BY <1>2
  <2>2. g \in Nat
    BY RxAssumption
  <2>3. t.packet = p /\ t.gap = g /\ t.rest = Octets(p) /\ t.end = 2
    BY <2>1
  <2> QED
    BY <1>1, <2>2, <2>3
<1>3. CASE t = [packet |-> <<>>, gap |-> 0, rest |-> <<>>, end |-> 0]
  BY <1>3
<1>4. CASE \E n \in 1 .. 16 : t = [packet |-> <<>>, gap |-> 0, rest |-> CutOff(n), end |-> 0]
  <2>1. PICK n \in 1 .. 16 : t = [packet |-> <<>>, gap |-> 0, rest |-> CutOff(n), end |-> 0]
    BY <1>4
  <2>2. t.packet = <<>> /\ t.gap = 0 /\ t.rest = CutOff(n) /\ t.end = 0
    BY <2>1
  <2>3. CutOff(n) \in Seq(Seq({0, 1}))
    BY CutOffTypes
  <2> QED
    BY <2>2, <2>3
<1> QED
  BY <1>2, <1>3, <1>4 DEF Transmissions

-----------------------------------------------------------------------------

(* What was taken, before receive and in it. *)
LEMMA TakenNat ==
    ASSUME Types
    PROVE  Taken \in Nat /\ Taken \in 0 .. Counted /\ Got \in Seq(Nat) /\ Counted \in Nat
<1>1. Room \in Nat
  BY RxAssumption
<1> QED
  BY <1>1 DEF Types, Taken, Got, Counted

(* A bit time keeps the invariant. *)
LEMMA IInvBit ==
    ASSUME IInv, Bit
    PROVE  IInv'
<1>1. Types /\ Kept
  BY DEF IInv
<1>2. Types'
  BY <1>1, TypesBit
<1>3. /\ pc' = pc /\ out' = out /\ idx' = idx /\ overflowed' = overflowed /\ sent' = sent
      /\ late' = late /\ Taken' = Taken /\ Got' = Got
  BY DEF Bit, host, Taken, Got, Before
<1>4. Kept'
  BY <1>1, <1>3 DEF Kept
<1>5. Detect(line') /\ DeviceSends
  BY DEF Bit
<1>6. ASSUME sent # <<>>
      PROVE  Sending' /\ Unstuffed' /\ Receiving'
  <2>1. Sending /\ Unstuffed /\ Receiving
    BY <1>6 DEF IInv
  <2>2. (Waits \/ Stuffs \/ SendsBit \/ Ceases) /\ DeviceTypes' /\ Sending'
    BY <1>1, <1>3, <1>5, <1>6, <2>1, SendingBit
  <2>3. Unstuffed'
    BY <1>1, <1>3, <1>6, <2>1, <2>2, UnstuffedBit
  <2>4. CASE pc = "prepared"
    <3>1. Waiting
      BY <2>1, <2>4 DEF Receiving
    <3>2. UNCHANGED pio
      BY <1>5, <3>1 DEF Waiting, Detect
    <3>3. Waiting'
      BY <1>3, <3>1, <3>2 DEF Waiting, Fresh, pio, decoder
    <3> QED
      BY <1>3, <2>2, <2>3, <2>4, <3>3 DEF Receiving
  <2>5. CASE pc # "prepared"
    <3>1. ASSUME ~late
          PROVE  Exact' \/ FirstTwo'
      <4>1. CASE Exact
        BY <1>1, <1>3, <1>5, <1>6, <2>1, <2>2, <4>1, ExactBit
      <4>2. CASE FirstTwo
        <5>1. fifo' = fifo \/ \E b \in Nat : fifo' = Append(fifo, b)
          BY <1>1, <1>5, DetectFacts
        <5>2. Taken \in Nat
          BY <1>1, TakenNat
        <5> QED
          BY <1>1, <1>3, <4>2, <5>1, <5>2, FirstTwoGrows
      <4> QED
        BY <2>1, <2>5, <3>1, <4>1, <4>2 DEF Receiving
    <3>2. ASSUME late, Len(sent) = 2
          PROVE  Missed'
      <4>1. Missed
        BY <2>1, <2>5, <3>2 DEF Receiving
      <4>2. Taken \in Nat
        BY <1>1, TakenNat
      <4> QED
        BY <1>1, <1>3, <1>5, <1>6, <2>1, <2>2, <3>2, <4>1, <4>2, MissedBit
    <3>3. Receiving'
      BY <1>3, <2>5, <3>1, <3>2 DEF Receiving
    <3> QED
      BY <2>2, <2>3, <3>3
  <2> QED
    BY <2>4, <2>5
<1> QED
  BY <1>2, <1>3, <1>4, <1>6 DEF IInv

(* A reception is prepared: both state machines start over. *)
LEMMA TypesPrepare ==
    ASSUME Types, prepare_for_receive
    PROVE  Types'
<1>1. PICK t \in Transmissions :
         sent' = t.packet /\ gap' = t.gap /\ rest' = t.rest /\ end' = t.end
  BY DEF prepare_for_receive
<1>2. gap' \in Nat /\ end' \in 0 .. 2 /\ rest' \in Seq(Seq({0, 1})) /\ sent' \in Packets \cup {<<>>}
  BY <1>1, TransmissionFacts
<1>3. /\ det' = "eop" /\ irq_start' = FALSE /\ irq_eop' = TRUE /\ trigger' = FALSE
      /\ dec_x' = FALSE /\ dec_y' = 6 /\ isr' = <<>> /\ fifo' = <<>>
      /\ line' = "J" /\ byte' = <<>> /\ ones' = 0 /\ late' = FALSE
      /\ pc' = "prepared" /\ looked' = FALSE
      /\ out' = out /\ idx' = idx /\ overflowed' = overflowed /\ waited' = waited
      /\ prompt' = prompt /\ Counted' = Counted
  BY DEF prepare_for_receive, Rearmed, BIT_REPEAT_COUNT, host, Counted
<1>4. /\ out \in Seq(Nat) /\ idx \in 0 .. Counted /\ overflowed \in BOOLEAN /\ waited \in Nat
      /\ prompt \in BOOLEAN
  BY DEF Types
<1>5. /\ isr' \in Seq({0, 1}) /\ Len(isr') <= 7 /\ fifo' \in Seq(Nat) /\ byte' \in Seq({0, 1})
      /\ ones' \in 0 .. 6 /\ dec_y' \in 0 .. 6
  BY <1>3
<1> QED
  BY <1>2, <1>3, <1>4, <1>5 DEF Types

(* Prepared, the state machines and the device are at their beginning. *)
LEMMA IInvPrepare ==
    ASSUME IInv, prepare_for_receive
    PROVE  IInv'
<1>1. Types /\ Kept
  BY DEF IInv
<1>2. Types'
  BY <1>1, TypesPrepare
<1>3. /\ det' = "eop" /\ trigger' = FALSE
      /\ dec_x' = FALSE /\ dec_y' = 6 /\ isr' = <<>> /\ fifo' = <<>>
      /\ line' = "J" /\ byte' = <<>> /\ ones' = 0 /\ late' = FALSE
      /\ pc' = "prepared" /\ out' = out /\ idx' = idx /\ overflowed' = overflowed
  BY DEF prepare_for_receive, Rearmed, BIT_REPEAT_COUNT, host
<1>4. Kept'
  BY <1>1, <1>3 DEF Kept
<1>5. ASSUME sent' # <<>>
      PROVE  Sending' /\ Unstuffed' /\ Receiving'
  <2>1. PICK t \in Transmissions :
           sent' = t.packet /\ gap' = t.gap /\ rest' = t.rest /\ end' = t.end
    BY DEF prepare_for_receive
  <2>2. sent' \in Packets /\ rest' = Octets(sent') /\ end' = 2
    BY <1>5, <2>1, TransmissionFacts
  <2>3. sent' \in Seq(0 .. 255) /\ Len(sent') \in Nat
    BY <2>2, PacketsAssumption
  <2>4. /\ Len(rest') = Len(sent')
        /\ \A i \in 1 .. Len(rest') : rest'[i] = Octet(sent'[i])
    BY <2>2, <2>3 DEF Octets
  <2>5. Begins' = 0
    BY <2>3, <2>4 DEF Begins
  <2>6. Len(byte') = 0
    BY <1>3
  <2>7. Sending'
    <3>1. \A i \in 1 .. Len(rest') : rest'[i] = Octet(sent'[Begins' + i])
      BY <2>4, <2>5
    <3> QED
      BY <1>3, <2>2, <2>3, <2>4, <2>5, <2>6, <3>1 DEF Sending
  <2>8. Unstuffed'
    BY <2>5 DEF Unstuffed
  <2>9. Receiving'
    BY <1>3 DEF Receiving, Waiting, Fresh
  <2> QED
    BY <2>7, <2>8, <2>9
<1> QED
  BY <1>2, <1>4, <1>5 DEF IInv

(* The receiver is started, before the device or late. *)
LEMMA StartExact ==
    ASSUME Types, sent # <<>>, Sending, Waiting, pc = "prepared", start_receive,
           UNCHANGED device, sent' = sent, ~late'
    PROVE  Exact'
<1>0. /\ Len(rest) \in Nat /\ Len(byte) \in Nat /\ byte \in Seq({0, 1}) /\ Len(sent) \in Nat
      /\ Counted \in Nat /\ FifoDepth \in Nat
  <2>1. Len(rest) \in Nat /\ Len(byte) \in Nat /\ byte \in Seq({0, 1})
    BY DEF Types
  <2>2. Len(sent) \in Nat
    BY SentFacts
  <2>3. Counted \in Nat
    BY TakenNat
  <2>4. FifoDepth \in Nat
    BY RxAssumption
  <2> QED
    BY <2>1, <2>2, <2>3, <2>4
<1>1. /\ det' = "start" /\ dec_x' = FALSE /\ dec_y' = 6 /\ isr' = <<>> /\ fifo' = <<>>
      /\ trigger' = FALSE /\ pc' = "armed"
  BY DEF start_receive, decoder, Waiting, Fresh, Types
<1>2. byte' = byte /\ rest' = rest /\ Begins' = Begins
  BY DEF device, Begins
<1>3. Len(rest) = Len(sent)
  <2>1. ~(Len(rest) < Len(sent)) /\ Len(rest) <= Len(sent)
    BY DEF start_receive, Begun, Sending
  <2> QED
    BY <1>0, <2>1
<1>4. Begins = 0 /\ byte = <<>>
  BY <1>0, <1>3 DEF Begins, Sending
<1>5. Lockstep'
  BY <1>1, <1>2, <1>4 DEF Lockstep, Fresh
<1>6. Len(fifo') = 0 /\ Decoded' = 0 /\ Taken' = 0 /\ Got' = <<>> /\ Len(Got') = 0
  BY <1>1, <1>2, <1>4 DEF Decoded, Taken, Got, Before
<1>7. Queue'
  <2>1. AtMost(0, Counted) = 0 /\ Counted' = Counted
    BY <1>0 DEF AtMost, Counted
  <2>2. \A i \in 1 .. Len(fifo') : fifo'[i] = sent'[Decoded' - Len(fifo') + i]
    BY <1>6
  <2>3. \A i \in 1 .. Len(Got') : Got'[i] = sent'[i]
    BY <1>6
  <2>4. Taken' = AtMost(Decoded' - Len(fifo'), Counted')
    BY <1>6, <2>1
  <2> QED
    BY <1>6, <2>2, <2>3, <2>4 DEF Queue
<1> QED
  BY <1>0, <1>1, <1>5, <1>6, <1>7 DEF Exact

(* Started late, the receiver has missed the first bit at least. *)
LEMMA StartMissed ==
    ASSUME Types, sent # <<>>, Sending, Unstuffed, Waiting, pc = "prepared", start_receive,
           UNCHANGED device, sent' = sent, late', Len(sent) = 2
    PROVE  Missed'
<1>0. Len(rest) \in Nat /\ Len(byte) \in Nat /\ byte \in Seq({0, 1})
  BY DEF Types
<1>1. /\ det' = "start" /\ isr' = <<>> /\ fifo' = <<>>
      /\ trigger' = FALSE /\ pc' = "armed"
  BY DEF start_receive, decoder, Waiting, Fresh, Types
<1>2. byte' = byte /\ rest' = rest /\ line' = line
  BY DEF device
<1>3. Len(fifo') = 0 /\ Len(isr') = 0 /\ Taken' = 0
  BY <1>1 DEF Taken, Before
<1>4. Captured' = 0
  BY <1>3 DEF Captured
<1> DEFINE r == Len(rest)
           m == Len(byte)
<1>5. r < 2 /\ m <= 7 /\ (r = 1 /\ m = 7 => line = "K")
  <2>1. r < 2
    BY DEF start_receive, Begun
  <2>2. r = 1 => Begins = 1
    BY DEF Begins
  <2>3. m <= 7
    BY DEF Sending
  <2> QED
    BY <2>1, <2>2, <2>3 DEF Unstuffed
<1>6. BitsLeft' = 8 * r + m
  BY <1>2 DEF BitsLeft
<1>7. 8 * r + m <= 14 \/ (8 * r + m = 15 /\ r = 1 /\ m = 7)
  <2>1. r \in Nat /\ m \in Nat
    BY <1>0
  <2> HIDE DEF r, m
  <2> QED
    BY <1>5, <2>1
<1> HIDE DEF r, m
<1> QED
  BY <1>1, <1>2, <1>4, <1>5, <1>6, <1>7 DEF Missed

-----------------------------------------------------------------------------

(* The CPU's steps but take.  Of these only receive touches the buffer,    *)
(* and only start_receive the state machines.                              *)
LEMMA StartTypes ==
    ASSUME Types, Kept, start_receive, UNCHANGED device, sent' = sent, prompt' = prompt
    PROVE  Types' /\ Kept'
<1>1. /\ irq_start' = FALSE /\ irq_eop' = FALSE /\ trigger' = FALSE
      /\ det' = (IF det = "eop" THEN "start" ELSE det)
      /\ pc' = "armed" /\ late' = Begun /\ waited' = waited /\ looked' = looked
      /\ out' = out /\ idx' = idx /\ overflowed' = overflowed
      /\ dec_x' = dec_x /\ dec_y' = dec_y /\ isr' = isr /\ fifo' = fifo
      /\ line' = line /\ gap' = gap /\ rest' = rest /\ byte' = byte /\ ones' = ones /\ end' = end
  BY DEF start_receive, decoder, host, device
<1>2. late' \in BOOLEAN
  BY <1>1 DEF Begun
<1>3. Counted' = Counted
  BY DEF Counted
<1>4. Types'
  BY <1>1, <1>2, <1>3 DEF Types
<1> QED
  BY <1>1, <1>4 DEF Kept

Polls == wait_sop \/ got_start \/ empty \/ end_of_packet \/ drain

(* A poll touches neither the state machines nor the buffer. *)
LEMMA PollFacts ==
    ASSUME Types, Polls
    PROVE  /\ UNCHANGED pio
           /\ out' = out /\ idx' = idx /\ overflowed' = overflowed /\ crc' = crc
           /\ pc \in {"sop", "started", "pull", "flag", "clock"}
           /\ pc' \in {"sop", "started", "pull", "flag", "clock", "done"}
           /\ waited' \in {waited, 0} /\ looked' \in {looked, TRUE}
BY DEF Polls, wait_sop, got_start, empty, end_of_packet, drain, Return, host

(* The polls keep the types. *)
LEMMA CpuTypes ==
    ASSUME Types, Kept, receive \/ Polls, UNCHANGED device, sent' = sent, prompt' = prompt,
           late' = late
    PROVE  Types' /\ Kept'
<1>0. Room \in Nat /\ waited \in Nat /\ looked \in BOOLEAN
  BY RxAssumption DEF Types
<1>1. /\ line' = line /\ gap' = gap /\ rest' = rest /\ byte' = byte /\ ones' = ones /\ end' = end
  BY DEF device
<1>2. ASSUME UNCHANGED pio
      PROVE  /\ det' = det /\ irq_start' = irq_start /\ irq_eop' = irq_eop /\ trigger' = trigger
             /\ dec_x' = dec_x /\ dec_y' = dec_y /\ isr' = isr /\ fifo' = fifo
  BY <1>2 DEF pio, decoder
<1>3. Counted' = Counted /\ Counted = Room + 2
  BY DEF Counted
<1>4. CASE receive
  <2>1. /\ UNCHANGED pio
        /\ out' = <<>> /\ idx' = 0 /\ overflowed' = FALSE /\ pc' = "sop" /\ waited' = 0
        /\ looked' = looked
    BY <1>4 DEF receive
  <2>2. out' \in Seq(Nat) /\ idx' \in 0 .. Counted /\ Len(out') = 0 /\ waited' \in Nat
    BY <1>0, <1>3, <2>1
  <2>3. pc' \in {"prepared", "armed", "sop", "started", "pull", "flag", "clock", "done"}
        /\ overflowed' \in BOOLEAN /\ looked' \in BOOLEAN
    BY <1>0, <2>1
  <2>4. /\ det' = det /\ irq_start' = irq_start /\ irq_eop' = irq_eop /\ trigger' = trigger
        /\ dec_x' = dec_x /\ dec_y' = dec_y /\ isr' = isr /\ fifo' = fifo
    BY <1>2, <2>1
  <2>5. Types'
    BY <1>1, <1>3, <2>2, <2>3, <2>4 DEF Types
  <2>6. Kept'
    BY <1>0, <2>1, <2>2 DEF Kept, AtMost
  <2> QED
    BY <2>5, <2>6
<1>5. CASE Polls
  <2>1. /\ UNCHANGED pio /\ out' = out /\ idx' = idx /\ overflowed' = overflowed
        /\ pc' \in {"sop", "started", "pull", "flag", "clock", "done"}
        /\ waited' \in Nat /\ looked' \in BOOLEAN
    <3>1. waited' \in {waited, 0} /\ looked' \in {looked, TRUE}
      BY <1>5, PollFacts
    <3>2. waited' \in Nat
      BY <1>0, <3>1
    <3>3. looked' \in BOOLEAN
      <4>1. looked' = looked \/ looked' = TRUE
        BY Zenon, <3>1
      <4> QED
        BY <1>0, <4>1
    <3> QED
      BY <1>5, <3>2, <3>3, PollFacts
  <2>2. Types'
    BY <1>1, <1>2, <1>3, <2>1 DEF Types
  <2>3. Kept'
    BY <2>1 DEF Kept
  <2> QED
    BY <2>2, <2>3
<1> QED
  BY <1>4, <1>5

(* The polls keep what the receiver has. *)
LEMMA CpuReceiving ==
    ASSUME Types, sent # <<>>, Sending, Unstuffed, Receiving, receive \/ Polls,
           UNCHANGED device, sent' = sent, late' = late
    PROVE  Sending' /\ Unstuffed' /\ Receiving' /\ (Exact => Exact')
<1>1. /\ line' = line /\ gap' = gap /\ rest' = rest /\ byte' = byte /\ ones' = ones /\ end' = end
      /\ Begins' = Begins
  BY DEF device, Begins
<1>2. UNCHANGED pio /\ pc' # "prepared" /\ pc # "prepared" /\ Taken' = Taken /\ Got' = Got
  <2>1. CASE receive
    BY <2>1 DEF receive, Taken, Got, Before
  <2>2. CASE Polls
    <3>1. ~Before /\ ~Before'
      BY <2>2, PollFacts DEF Before
    <3> QED
      BY <2>2, <3>1, PollFacts DEF Taken, Got, Before
  <2> QED
    BY <2>1, <2>2
<1>3. /\ det' = det /\ trigger' = trigger
      /\ dec_x' = dec_x /\ dec_y' = dec_y /\ isr' = isr /\ fifo' = fifo
  BY <1>2 DEF pio, decoder
<1>4. Sending'
  BY <1>1 DEF Sending
<1>5. Unstuffed'
  BY <1>1 DEF Unstuffed
<1>6. Exact => Exact'
  <2>1. Decoded' = Decoded
    BY <1>1 DEF Decoded
  <2>2. Lockstep => Lockstep'
    BY <1>1, <1>3 DEF Lockstep, Fresh
  <2>3. Queue => Queue'
    BY <1>2, <1>3, <2>1 DEF Queue, Counted
  <2> QED
    BY <1>3, <2>2, <2>3 DEF Exact
<1>7. FirstTwo => FirstTwo'
  BY <1>2, <1>3 DEF FirstTwo
<1>8. Missed => Missed'
  <2>1. Captured' = Captured /\ BitsLeft' = BitsLeft
    BY <1>1, <1>2, <1>3 DEF Captured, BitsLeft
  <2> QED
    BY <1>1, <1>3, <2>1 DEF Missed
<1>9. Receiving'
  BY <1>2, <1>6, <1>7, <1>8 DEF Receiving
<1> QED
  BY <1>4, <1>5, <1>6, <1>9

(* A byte is taken: what the three cases have in common. *)
LEMMA TakeFacts ==
    ASSUME Types, Kept, take
    PROVE  /\ fifo \in Seq(Nat) /\ fifo # <<>> /\ Len(fifo) \in Nat \ {0}
           /\ Head(fifo) = fifo[1] /\ fifo[1] \in Nat
           /\ Tail(fifo) \in Seq(Nat) /\ Len(Tail(fifo)) = Len(fifo) - 1
           /\ \A i \in 1 .. Len(Tail(fifo)) : Tail(fifo)[i] = fifo[i + 1]
           /\ pc = "pull" /\ pc' = "pull" /\ Pulled
           /\ idx \in Nat /\ idx <= Counted /\ Taken = idx /\ Got = out
           /\ idx' = AtMost(idx + 1, Counted) /\ Taken' = idx' /\ Got' = out'
           /\ IF idx < Room THEN out' = Append(out, fifo[1]) /\ overflowed' = overflowed
                            ELSE out' = out /\ overflowed' = TRUE
           /\ det' = det /\ irq_start' = irq_start /\ irq_eop' = irq_eop /\ waited' = 0
           /\ looked' = looked
<1>1. fifo \in Seq(Nat) /\ fifo # <<>>
  BY DEF Types, take
<1>2. /\ Head(fifo) = fifo[1] /\ fifo[1] \in Nat /\ Len(fifo) \in Nat \ {0}
      /\ Tail(fifo) \in Seq(Nat) /\ Len(Tail(fifo)) = Len(fifo) - 1
      /\ \A i \in 1 .. Len(Tail(fifo)) : Tail(fifo)[i] = fifo[i + 1]
  BY <1>1, TailFacts
<1>3. pc = "pull" /\ pc' = "pull" /\ Pulled /\ idx' = AtMost(idx + 1, Counted)
      /\ det' = det /\ irq_start' = irq_start /\ irq_eop' = irq_eop /\ waited' = 0 /\ looked' = looked
  BY DEF take
<1>4. IF idx < Room THEN out' = Append(out, fifo[1]) /\ overflowed' = overflowed
                    ELSE out' = out /\ overflowed' = TRUE
  BY <1>2 DEF take
<1>5. Taken = idx /\ Got = out /\ Taken' = idx' /\ Got' = out'
  BY <1>3 DEF Taken, Got, Before
<1>6. idx \in Nat /\ idx <= Counted
  <2>1. Counted \in Nat /\ idx \in 0 .. Counted
    BY TakenNat DEF Types
  <2> QED
    BY <2>1
<1> QED
  BY <1>1, <1>2, <1>3, <1>4, <1>5, <1>6

(* A pull takes one byte, and may let the decoder push another. *)
LEMMA PulledFacts ==
    ASSUME Types, Pulled, Tail(fifo) \in Seq(Nat)
    PROVE  /\ dec_x' \in BOOLEAN /\ dec_y' \in 0 .. 6 /\ trigger' = FALSE
           /\ isr' \in Seq({0, 1}) /\ Len(isr') <= 7 /\ fifo' \in Seq(Nat)
           /\ fifo' = Tail(fifo) \/ \E b \in Nat : fifo' = Append(Tail(fifo), b)
<1>1. CASE trigger /\ Decode(line, Tail(fifo))
  BY <1>1, DecodeFacts DEF Pulled
<1>2. CASE fifo' = Tail(fifo) /\ UNCHANGED <<dec_x, dec_y, isr>>
  BY <1>2 DEF Pulled, Types
<1> QED
  BY <1>1, <1>2 DEF Pulled

(* A byte taken is counted, and kept while there is room. *)
LEMMA TakeTypes ==
    ASSUME Types, Kept, take, UNCHANGED device, sent' = sent, prompt' = prompt, late' = late
    PROVE  Types' /\ Kept'
<1>1. /\ line' = line /\ gap' = gap /\ rest' = rest /\ byte' = byte /\ ones' = ones /\ end' = end
  BY DEF device
<1>2. /\ dec_x' \in BOOLEAN /\ dec_y' \in 0 .. 6 /\ trigger' = FALSE
      /\ isr' \in Seq({0, 1}) /\ Len(isr') <= 7 /\ fifo' \in Seq(Nat)
  BY TakeFacts, PulledFacts
<1>3. /\ det' = det /\ irq_start' = irq_start /\ irq_eop' = irq_eop /\ pc' = "pull"
      /\ waited' = 0 /\ looked' = looked /\ fifo[1] \in Nat
      /\ idx \in Nat /\ idx <= Counted /\ idx' = AtMost(idx + 1, Counted)
  BY TakeFacts
<1>4. IF idx < Room THEN out' = Append(out, fifo[1]) /\ overflowed' = overflowed
                    ELSE out' = out /\ overflowed' = TRUE
  BY TakeFacts
<1>5. Counted' = Counted /\ Counted = Room + 2 /\ Room \in Nat
  BY RxAssumption DEF Counted
<1>6. idx' \in 0 .. Counted /\ idx' = (IF idx < Room + 2 THEN idx + 1 ELSE Room + 2)
  <2>1. idx' = (IF idx + 1 < Room + 2 THEN idx + 1 ELSE Room + 2)
    BY <1>3, <1>5 DEF AtMost
  <2> QED
    BY <1>3, <1>5, <2>1
<1>7. /\ out \in Seq(Nat) /\ Len(out) \in Nat /\ overflowed \in BOOLEAN
      /\ Len(out) = (IF idx < Room THEN idx ELSE Room) /\ (overflowed <=> idx > Room)
  BY DEF Types, Kept, AtMost
<1>8. CASE idx < Room
  <2>1. out' = Append(out, fifo[1]) /\ overflowed' = overflowed
    BY <1>4, <1>8
  <2>2. out' \in Seq(Nat) /\ Len(out') = Len(out) + 1
    BY <1>3, <1>7, <2>1, AppendFacts
  <2>3. idx' = idx + 1 /\ ~(idx > Room) /\ ~(idx' > Room)
    BY <1>3, <1>5, <1>6, <1>8
  <2>4. Len(out') = (IF idx' < Room THEN idx' ELSE Room)
    BY <1>3, <1>5, <1>7, <1>8, <2>2, <2>3
  <2>5. overflowed' <=> idx' > Room
    BY <1>7, <2>1, <2>3
  <2>6. Types'
    BY ZenonT(40), <1>1, <1>2, <1>3, <1>5, <1>6, <1>7, <2>1, <2>2 DEF Types
  <2>7. Kept'
    BY <2>4, <2>5 DEF Kept, AtMost
  <2> QED
    BY <2>6, <2>7
<1>9. CASE ~(idx < Room)
  <2>1. out' = out /\ overflowed' = TRUE
    BY <1>4, <1>9
  <2>2. idx' > Room /\ Len(out) = Room /\ ~(idx' < Room)
    BY <1>3, <1>5, <1>6, <1>7, <1>9
  <2>3. Types'
    BY <1>1, <1>2, <1>3, <1>5, <1>6, <1>7, <2>1 DEF Types
  <2>4. Kept'
    BY <2>1, <2>2 DEF Kept, AtMost
  <2> QED
    BY <2>3, <2>4
<1> QED
  BY <1>8, <1>9

(* The byte taken is the next one the device sent. *)
LEMMA TakeExact ==
    ASSUME Types, Kept, sent # <<>>, Sending, Exact, take, UNCHANGED device, sent' = sent
    PROVE  Exact'
<1>0. /\ Lockstep /\ ~trigger /\ Len(fifo) <= FifoDepth
      /\ Len(fifo) <= Decoded
      /\ \A i \in 1 .. Len(fifo) : fifo[i] = sent[Decoded - Len(fifo) + i]
      /\ Taken = AtMost(Decoded - Len(fifo), Counted)
      /\ \A i \in 1 .. Len(Got) : Got[i] = sent[i]
  BY DEF Exact, Queue
<1>1. /\ byte' = byte /\ rest' = rest /\ line' = line /\ ones' = ones /\ end' = end
      /\ Begins' = Begins /\ Decoded' = Decoded
  BY DEF device, Begins, Decoded
<1>2. /\ fifo \in Seq(Nat) /\ fifo # <<>> /\ Len(fifo) \in Nat \ {0} /\ fifo[1] \in Nat
      /\ Tail(fifo) \in Seq(Nat) /\ Len(Tail(fifo)) = Len(fifo) - 1
      /\ \A i \in 1 .. Len(Tail(fifo)) : Tail(fifo)[i] = fifo[i + 1]
  BY TakeFacts
<1>3. /\ idx \in Nat /\ idx <= Counted /\ Taken = idx /\ Got = out
      /\ idx' = AtMost(idx + 1, Counted) /\ Taken' = idx' /\ Got' = out' /\ det' = det
  BY TakeFacts
<1>4. IF idx < Room THEN out' = Append(out, fifo[1]) ELSE out' = out
  BY TakeFacts
<1>5. trigger' = FALSE /\ dec_x' = dec_x /\ dec_y' = dec_y /\ isr' = isr /\ fifo' = Tail(fifo)
  BY <1>0, TakeFacts DEF Pulled
<1>6. Counted' = Counted /\ Counted = Room + 2 /\ Room \in Nat /\ FifoDepth \in Nat
  BY RxAssumption DEF Counted
<1>7. Decoded \in Nat
  <2>1. Len(rest) \in Nat /\ Len(sent) \in Nat
    BY SentFacts DEF Types
  <2>2. Begins \in Nat /\ (byte # <<>> => Begins >= 1)
    BY <2>1 DEF Sending, Begins
  <2> QED
    BY <2>2 DEF Decoded
<1>8. Lockstep'
  BY <1>0, <1>1, <1>2, <1>3, <1>5 DEF Lockstep, Fresh
<1> DEFINE k == Decoded
           n == Len(fifo)
<1>9. k \in Nat /\ n \in Nat \ {0} /\ n <= k /\ Len(fifo') = n - 1 /\ idx = AtMost(k - n, Counted)
  BY <1>0, <1>2, <1>3, <1>5, <1>7
<1>10. ASSUME NEW i \in 1 .. Len(fifo')
       PROVE  fifo'[i] = sent[k - Len(fifo') + i]
  <2>1. fifo'[i] = fifo[i + 1]
    BY <1>2, <1>5
  <2>2. i + 1 \in 1 .. n
    <3> HIDE DEF n, k
    <3> QED
      BY <1>9
  <2>3. fifo[i + 1] = sent[k - n + (i + 1)]
    BY <1>0, <2>2
  <2>4. k - n + (i + 1) = k - Len(fifo') + i
    <3> HIDE DEF n, k
    <3> QED
      BY <1>9
  <2> QED
    BY <2>1, <2>3, <2>4
<1>11. idx' = AtMost(k - Len(fifo'), Counted) /\ (idx < Room => idx = k - n)
  <2> HIDE DEF n, k
  <2>1. idx = (IF k - n < Room + 2 THEN k - n ELSE Room + 2)
    BY <1>6, <1>9 DEF AtMost
  <2>2. idx' = (IF idx + 1 < Room + 2 THEN idx + 1 ELSE Room + 2)
    BY <1>3, <1>6 DEF AtMost
  <2>3. k - Len(fifo') = (k - n) + 1 /\ k - n \in Nat
    BY <1>9
  <2> DEFINE d == k - n
  <2> HIDE DEF d
  <2>4. idx' = (IF d + 1 < Room + 2 THEN d + 1 ELSE Room + 2)
    BY <1>6, <2>1, <2>2, <2>3 DEF d
  <2>5. AtMost(k - Len(fifo'), Counted) = (IF d + 1 < Room + 2 THEN d + 1 ELSE Room + 2)
    BY <1>6, <2>3 DEF d, AtMost
  <2> QED
    BY <1>6, <2>1, <2>3, <2>4, <2>5
<1>12. ASSUME NEW i \in 1 .. Len(out')
       PROVE  out'[i] = sent[i]
  <2>1. out \in Seq(Nat) /\ Len(out) \in Nat /\ \A j \in 1 .. Len(out) : out[j] = sent[j]
    BY <1>0, <1>3 DEF Types
  <2>2. CASE idx < Room
    <3>1. /\ Len(out') = Len(out) + 1 /\ \A j \in 1 .. Len(out) : out'[j] = out[j]
          /\ out'[Len(out) + 1] = fifo[1]
      <4>1. out' = Append(out, fifo[1]) /\ fifo[1] \in Nat
        BY <1>2, <1>4, <2>2
      <4> QED
        BY <2>1, <4>1, AppendFacts
    <3>2. Len(out) = idx
      BY <2>2 DEF Kept, AtMost
    <3>3. CASE i = idx + 1
      <4>1. fifo[1] = sent[k - n + 1]
        <5>1. 1 \in 1 .. n
          BY <1>9
        <5> QED
          BY <1>0, <5>1
      <4>2. k - n + 1 = i
        <5> HIDE DEF n, k
        <5> QED
          BY <1>11, <2>2, <3>3
      <4> QED
        BY <3>1, <3>2, <3>3, <4>1, <4>2
    <3>4. CASE i # idx + 1
      <4>1. i \in 1 .. Len(out)
        BY <2>1, <3>1, <3>2, <3>4
      <4> QED
        BY <2>1, <3>1, <4>1
    <3> QED
      BY <3>3, <3>4
  <2>3. CASE ~(idx < Room)
    BY <1>4, <2>1, <2>3
  <2> QED
    BY <2>2, <2>3
<1>13. Queue'
  <2>1. Len(fifo') <= Decoded'
    <3>1. Len(fifo') <= k
      <4> HIDE DEF n, k
      <4> QED
        BY <1>9
    <3> QED
      BY <1>1, <3>1
  <2>2. \A i \in 1 .. Len(fifo') : fifo'[i] = sent'[Decoded' - Len(fifo') + i]
    BY <1>1, <1>10
  <2>3. Taken' = AtMost(Decoded' - Len(fifo'), Counted')
    BY <1>1, <1>3, <1>6, <1>11
  <2>4. \A i \in 1 .. Len(Got') : Got'[i] = sent'[i]
    BY <1>3, <1>12
  <2> QED
    BY <2>1, <2>2, <2>3, <2>4 DEF Queue
<1>14. Len(fifo') <= FifoDepth
  BY <1>0, <1>2, <1>5, <1>6
<1> QED
  BY <1>5, <1>8, <1>13, <1>14 DEF Exact

(* Bytes taken and bytes queued, of which the first two are right. *)
LEMMA TwoTaken ==
    ASSUME NEW t \in Nat, NEW f \in Seq(Nat), f # <<>>, NEW f1 \in Seq(Nat),
           NEW p \in Seq(0 .. 255),
           t <= Counted, t + Len(f) >= 2,
           \A i \in 1 .. Len(f) : t + i <= 2 => f[i] = p[t + i],
           f1 = Tail(f) \/ \E b \in Nat : f1 = Append(Tail(f), b)
    PROVE  /\ AtMost(t + 1, Counted) + Len(f1) >= 2
           /\ \A i \in 1 .. Len(f1) :
                AtMost(t + 1, Counted) + i <= 2 => f1[i] = p[AtMost(t + 1, Counted) + i]
<1>0. Counted = Room + 2 /\ Room \in Nat \ {0}
  BY RxAssumption DEF Counted
<1> DEFINE t1 == AtMost(t + 1, Counted)
<1>1. t1 \in Nat /\ (t1 = t + 1 \/ t1 >= 3)
  BY <1>0 DEF AtMost
<1>2. /\ Tail(f) \in Seq(Nat) /\ Len(f) \in Nat \ {0} /\ Len(Tail(f)) = Len(f) - 1
      /\ \A i \in 1 .. Len(Tail(f)) : Tail(f)[i] = f[i + 1]
  BY TailFacts
<1>3. /\ Len(f1) \in Nat /\ Len(f1) >= Len(f) - 1
      /\ \A i \in 1 .. Len(f) - 1 : f1[i] = f[i + 1]
  <2>1. CASE f1 = Tail(f)
    BY <1>2, <2>1
  <2>2. ASSUME NEW b \in Nat, f1 = Append(Tail(f), b)
        PROVE  /\ Len(f1) \in Nat /\ Len(f1) >= Len(f) - 1
               /\ \A i \in 1 .. Len(f) - 1 : f1[i] = f[i + 1]
    <3> DEFINE g == Tail(f)
    <3>1. g \in Seq(Nat) /\ Len(g) = Len(f) - 1 /\ (\A i \in 1 .. Len(g) : g[i] = f[i + 1])
          /\ f1 = Append(g, b)
      BY <1>2, <2>2
    <3> HIDE DEF g
    <3>2. Len(f1) = Len(g) + 1 /\ \A i \in 1 .. Len(g) : f1[i] = g[i]
      BY <3>1, AppendFacts
    <3>3. Len(f1) \in Nat /\ Len(f1) >= Len(f) - 1
      <4> DEFINE n == Len(f)
                 n1 == Len(f1)
      <4>1. n \in Nat \ {0} /\ n1 = (n - 1) + 1
        BY <1>2, <3>1, <3>2
      <4> HIDE DEF n, n1
      <4>2. n1 \in Nat /\ n1 >= n - 1
        BY <4>1
      <4> QED
        BY <4>2 DEF n, n1
    <3>4. \A i \in 1 .. Len(f) - 1 : f1[i] = f[i + 1]
      BY <3>1, <3>2
    <3> QED
      BY <3>3, <3>4
  <2> QED
    BY <2>1, <2>2
<1> HIDE DEF t1
<1>4. t1 + Len(f1) >= 2
  BY <1>1, <1>2, <1>3
<1>5. ASSUME NEW i \in 1 .. Len(f1), t1 + i <= 2
      PROVE  f1[i] = p[t1 + i]
  <2>1. t1 = t + 1 /\ t + (i + 1) = t1 + i /\ t + (i + 1) <= 2
    BY <1>1, <1>3, <1>5
  <2>2. i \in 1 .. Len(f) - 1 /\ i + 1 \in 1 .. Len(f)
    BY <1>2, <1>3, <2>1
  <2>3. f[i + 1] = p[t + (i + 1)]
    BY <2>1, <2>2
  <2> QED
    BY <1>3, <2>1, <2>2, <2>3
<1> QED
  BY <1>4, <1>5 DEF t1

(* The first two bytes taken are right, though later ones may not be. *)
LEMMA TakeFirstTwo ==
    ASSUME Types, Kept, sent # <<>>, FirstTwo, take, sent' = sent
    PROVE  FirstTwo'
<1>1. /\ fifo \in Seq(Nat) /\ fifo # <<>> /\ Len(fifo) \in Nat \ {0} /\ fifo[1] \in Nat
      /\ Tail(fifo) \in Seq(Nat)
  BY TakeFacts
<1>2. /\ idx \in Nat /\ idx <= Counted /\ Taken = idx /\ Got = out
      /\ idx' = AtMost(idx + 1, Counted) /\ Taken' = idx' /\ Got' = out'
  BY TakeFacts
<1>3. IF idx < Room THEN out' = Append(out, fifo[1]) ELSE out' = out
  BY TakeFacts
<1>4. fifo' \in Seq(Nat) /\ (fifo' = Tail(fifo) \/ \E b \in Nat : fifo' = Append(Tail(fifo), b))
  BY <1>1, TakeFacts, PulledFacts
<1>5. /\ idx + Len(fifo) >= 2
      /\ \A i \in 1 .. Len(out) : i <= 2 => out[i] = sent[i]
      /\ \A i \in 1 .. Len(fifo) : idx + i <= 2 => fifo[i] = sent[idx + i]
  BY <1>2 DEF FirstTwo
<1>6. sent \in Seq(0 .. 255)
  BY SentFacts
<1>7. /\ Taken' + Len(fifo') >= 2
      /\ \A i \in 1 .. Len(fifo') : Taken' + i <= 2 => fifo'[i] = sent[Taken' + i]
  <2> DEFINE f == fifo
             f1 == fifo'
  <2>1. /\ idx \in Nat /\ f \in Seq(Nat) /\ f # <<>> /\ f1 \in Seq(Nat)
        /\ idx <= Counted /\ idx + Len(f) >= 2
        /\ \A i \in 1 .. Len(f) : idx + i <= 2 => f[i] = sent[idx + i]
        /\ f1 = Tail(f) \/ \E b \in Nat : f1 = Append(Tail(f), b)
    BY <1>1, <1>2, <1>4, <1>5
  <2> HIDE DEF f, f1
  <2>2. /\ AtMost(idx + 1, Counted) + Len(f1) >= 2
        /\ \A i \in 1 .. Len(f1) :
             AtMost(idx + 1, Counted) + i <= 2 => f1[i] = sent[AtMost(idx + 1, Counted) + i]
    BY ZenonT(40), <1>6, <2>1, TwoTaken
  <2> QED
    BY <1>2, <2>2 DEF f1
<1>8. ASSUME NEW i \in 1 .. Len(out'), i <= 2
      PROVE  out'[i] = sent[i]
  <2>1. out \in Seq(Nat) /\ Len(out) \in Nat
    BY DEF Types
  <2>2. CASE idx < Room
    <3>1. /\ Len(out') = Len(out) + 1 /\ \A j \in 1 .. Len(out) : out'[j] = out[j]
          /\ out'[Len(out) + 1] = fifo[1]
      <4>1. out' = Append(out, fifo[1]) /\ fifo[1] \in Nat
        BY <1>1, <1>3, <2>2
      <4> QED
        BY <2>1, <4>1, AppendFacts
    <3>2. Len(out) = idx
      BY <2>2 DEF Kept, AtMost
    <3>3. CASE i = idx + 1
      <4>1. 1 \in 1 .. Len(fifo)
        BY <1>1
      <4>2. fifo[1] = sent[idx + 1]
        BY <1>5, <1>8, <3>3, <4>1
      <4> QED
        BY <3>1, <3>2, <3>3, <4>2
    <3>4. CASE i # idx + 1
      <4>1. i \in 1 .. Len(out)
        BY <2>1, <3>1, <3>2, <3>4
      <4> QED
        BY <1>5, <1>8, <3>1, <4>1
    <3> QED
      BY <3>3, <3>4
  <2>3. CASE ~(idx < Room)
    BY <1>3, <1>5, <1>8, <2>3
  <2> QED
    BY <2>2, <2>3
<1> QED
  BY <1>2, <1>7, <1>8 DEF FirstTwo

(* Of a missed handshake no second byte is taken. *)
LEMMA TakeMissed ==
    ASSUME Types, Kept, sent # <<>>, Missed, take, UNCHANGED device, sent' = sent
    PROVE  Missed'
<1>0. Len(rest) \in Nat /\ Len(byte) \in Nat /\ Len(isr) \in Nat
  BY DEF Types
<1>1. /\ Len(fifo) \in Nat \ {0} /\ Len(Tail(fifo)) = Len(fifo) - 1
      /\ idx \in Nat /\ idx <= Counted /\ Taken = idx
      /\ idx' = AtMost(idx + 1, Counted) /\ Taken' = idx' /\ det' = det
  BY TakeFacts
<1>2. trigger' = FALSE /\ isr' = isr /\ fifo' = Tail(fifo)
  BY TakeFacts DEF Pulled, Missed
<1>3. rest' = rest /\ byte' = byte /\ end' = end
  BY DEF device
<1>4. BitsLeft' = BitsLeft /\ BitsLeft \in Nat
  BY <1>0, <1>3 DEF BitsLeft
<1>5. Captured' <= Captured /\ Captured' \in Nat /\ Captured \in Nat /\ Captured # 0
  <2>1. Counted = Room + 2 /\ Room \in Nat
    BY RxAssumption DEF Counted
  <2>2. idx' <= idx + 1 /\ idx' \in Nat
    BY <1>1, <2>1 DEF AtMost
  <2>3. Captured = 8 * (idx + Len(fifo)) + Len(isr)
    BY <1>1 DEF Captured
  <2>4. Captured' = 8 * (idx' + (Len(fifo) - 1)) + Len(isr)
    BY <1>1, <1>2 DEF Captured
  <2> QED
    <3> DEFINE n == Len(fifo)
               h == Len(isr)
               i1 == idx'
               c == Captured
               c1 == Captured'
    <3>1. /\ n \in Nat \ {0} /\ h \in Nat /\ i1 \in Nat /\ i1 <= idx + 1 /\ idx \in Nat
          /\ c = 8 * (idx + n) + h /\ c1 = 8 * (i1 + (n - 1)) + h
      BY <1>0, <1>1, <2>2, <2>3, <2>4
    <3> HIDE DEF n, h, i1, c, c1
    <3>2. c1 <= c /\ c1 \in Nat /\ c \in Nat /\ c # 0
      BY <3>1
    <3> QED
      BY <3>2 DEF c, c1
<1>6. det # "start"
  BY <1>5 DEF Missed
<1>7. det = "run" => Captured' + BitsLeft' + 1 <= 15 /\ end' = 2
  <2>1. det = "run" => Captured + BitsLeft + 1 <= 15 /\ end = 2
    BY DEF Missed
  <2> QED
    <3> DEFINE c == Captured
               c1 == Captured'
               b == BitsLeft
    <3>1. c \in Nat /\ c1 \in Nat /\ b \in Nat /\ c1 <= c
      BY <1>4, <1>5
    <3> HIDE DEF c, c1, b
    <3>2. c + b + 1 <= 15 => c1 + b + 1 <= 15
      BY <3>1
    <3> QED
      BY <1>3, <1>4, <2>1, <3>2 DEF c, c1, b
<1>8. det = "eop" => Captured' <= 15
  <2>1. det = "eop" => Captured <= 15
    BY DEF Missed
  <2> QED
    BY <1>5, <2>1
<1> QED
  BY <1>1, <1>2, <1>6, <1>7, <1>8 DEF Missed

(* A step of the CPU keeps the invariant. *)
LEMMA IInvCpu ==
    ASSUME IInv, Cpu
    PROVE  IInv'
<1>1. Types /\ Kept /\ UNCHANGED device /\ sent' = sent /\ prompt' = prompt
  BY DEF IInv, Cpu
<1>2. CASE start_receive
  <2>1. Types' /\ Kept'
    BY <1>1, <1>2, StartTypes
  <2>2. ASSUME sent # <<>>
        PROVE  Sending' /\ Unstuffed' /\ Receiving'
    <3>1. Sending /\ Unstuffed /\ Waiting /\ pc = "prepared" /\ pc' # "prepared"
      BY <1>2, <2>2 DEF IInv, Receiving, start_receive
    <3>2. ~late' => Exact'
      BY <1>1, <1>2, <2>2, <3>1, StartExact
    <3>3. late' /\ Len(sent) = 2 => Missed'
      BY <1>1, <1>2, <2>2, <3>1, StartMissed
    <3>4. Receiving'
      BY <1>1, <3>1, <3>2, <3>3 DEF Receiving
    <3>5. Sending' /\ Unstuffed'
      BY <1>1, <3>1 DEF device, Sending, Unstuffed, Begins
    <3> QED
      BY <3>4, <3>5
  <2> QED
    BY <1>1, <2>1, <2>2 DEF IInv
<1>3. CASE (receive \/ Polls) /\ late' = late
  <2>1. Types' /\ Kept'
    BY <1>1, <1>3, CpuTypes
  <2>2. ASSUME sent # <<>>
        PROVE  Sending' /\ Unstuffed' /\ Receiving'
    <3>1. Sending /\ Unstuffed /\ Receiving
      BY <2>2 DEF IInv
    <3> QED
      BY <1>1, <1>3, <2>2, <3>1, CpuReceiving
  <2> QED
    BY <1>1, <2>1, <2>2 DEF IInv
<1>4. CASE take /\ late' = late
  <2>1. Types' /\ Kept'
    BY <1>1, <1>4, TakeTypes
  <2>2. ASSUME sent # <<>>
        PROVE  Sending' /\ Unstuffed' /\ Receiving'
    <3>1. Sending /\ Unstuffed /\ Receiving /\ pc = "pull" /\ pc' = "pull"
      BY <1>1, <1>4, <2>2, TakeFacts DEF IInv
    <3>2. ~late => Exact' \/ FirstTwo'
      <4>1. Exact => Exact'
        BY <1>1, <1>4, <2>2, <3>1, TakeExact
      <4>2. FirstTwo => FirstTwo'
        BY <1>1, <1>4, <2>2, TakeFirstTwo
      <4> QED
        BY <3>1, <4>1, <4>2 DEF Receiving
    <3>3. late /\ Len(sent) = 2 => Missed'
      <4>1. late /\ Len(sent) = 2 => Missed
        BY <3>1 DEF Receiving
      <4> QED
        BY <1>1, <1>4, <2>2, <4>1, TakeMissed
    <3>4. Receiving'
      BY <1>1, <1>4, <3>1, <3>2, <3>3 DEF Receiving
    <3>5. Sending' /\ Unstuffed'
      BY <1>1, <3>1 DEF device, Sending, Unstuffed, Begins
    <3> QED
      BY <3>4, <3>5
  <2> QED
    BY <1>1, <2>1, <2>2 DEF IInv
<1> QED
  BY <1>2, <1>3, <1>4 DEF Cpu, Polls

(* The receiver's invariant: what the decoder has shifted in, and where    *)
(* each byte is, against what the device has sent.                         *)
THEOREM Inductive == Spec => []IInv
<1>1. Init => IInv
  <2> SUFFICES ASSUME Init
               PROVE  IInv
    OBVIOUS
  <2>1. /\ line = "J" /\ gap = 0 /\ rest = <<>> /\ byte = <<>> /\ ones = 0 /\ end = 0
        /\ det = "eop" /\ irq_start = FALSE /\ irq_eop = TRUE
        /\ dec_x = FALSE /\ dec_y = 6 /\ isr = <<>> /\ fifo = <<>> /\ trigger = FALSE
        /\ pc = "done" /\ out = <<>> /\ idx = 0 /\ overflowed = FALSE
        /\ waited = 0 /\ sent = <<>> /\ late = FALSE /\ looked = TRUE /\ prompt = TRUE
    BY DEF Init, BIT_REPEAT_COUNT
  <2>2. Room \in Nat /\ Counted \in Nat
    BY RxAssumption DEF Counted
  <2>3. Len(out) = 0 /\ Len(isr) = 0
    BY <2>1
  <2>4. Types
    <3>1. /\ rest \in Seq(Seq({0, 1})) /\ byte \in Seq({0, 1}) /\ isr \in Seq({0, 1})
          /\ fifo \in Seq(Nat) /\ out \in Seq(Nat)
      BY <2>1
    <3>2. gap \in Nat /\ waited \in Nat /\ ones \in 0 .. 6 /\ end \in 0 .. 2
          /\ dec_y \in 0 .. 6 /\ Len(isr) <= 7 /\ idx \in 0 .. Counted
      BY <2>1, <2>2, <2>3
    <3>3. /\ irq_start \in BOOLEAN /\ irq_eop \in BOOLEAN /\ dec_x \in BOOLEAN
          /\ trigger \in BOOLEAN /\ overflowed \in BOOLEAN /\ late \in BOOLEAN
          /\ looked \in BOOLEAN /\ prompt \in BOOLEAN
      BY <2>1
    <3>4. /\ line \in {"J", "K", "SE0"} /\ det \in {"eop", "start", "run"}
          /\ pc \in {"prepared", "armed", "sop", "started", "pull", "flag", "clock", "done"}
          /\ sent \in Packets \cup {<<>>}
      BY <2>1
    <3> QED
      BY Zenon, <3>1, <3>2, <3>3, <3>4 DEF Types
  <2>5. Kept
    BY <2>1, <2>2, <2>3 DEF Kept, AtMost
  <2> QED
    BY <2>1, <2>4, <2>5 DEF IInv
<1>2. IInv /\ [Next]_vars => IInv'
  <2>1. CASE UNCHANGED vars
    <3>1. /\ line' = line /\ gap' = gap /\ rest' = rest /\ byte' = byte /\ ones' = ones /\ end' = end
          /\ det' = det /\ irq_start' = irq_start /\ irq_eop' = irq_eop /\ trigger' = trigger
          /\ dec_x' = dec_x /\ dec_y' = dec_y /\ isr' = isr /\ fifo' = fifo
          /\ pc' = pc /\ out' = out /\ idx' = idx /\ overflowed' = overflowed /\ waited' = waited
          /\ sent' = sent /\ late' = late /\ looked' = looked /\ prompt' = prompt
      BY <2>1 DEF vars, device, pio, decoder, host
    <3>2. Begins' = Begins /\ Taken' = Taken /\ Got' = Got /\ Decoded' = Decoded /\ Counted' = Counted
      BY <3>1 DEF Begins, Taken, Got, Before, Decoded, Counted
    <3>3. Types' = Types
      BY <3>1, <3>2 DEF Types
    <3>4. Kept' = Kept
      BY <3>1 DEF Kept
    <3>5. Sending' = Sending /\ Unstuffed' = Unstuffed
      BY <3>1, <3>2 DEF Sending, Unstuffed
    <3>6. Exact' = Exact /\ Waiting' = Waiting
      BY <3>1, <3>2 DEF Exact, Waiting, Lockstep, Queue, Fresh
    <3>7. FirstTwo' = FirstTwo /\ Missed' = Missed
      BY <3>1, <3>2 DEF FirstTwo, Missed, Captured, BitsLeft
    <3>8. Receiving' = Receiving
      BY <3>1, <3>6, <3>7 DEF Receiving
    <3> QED
      BY <3>1, <3>3, <3>4, <3>5, <3>8 DEF IInv
  <2> QED
    BY <2>1, IInvBit, IInvPrepare, IInvCpu DEF Next
<1> QED
  BY <1>1, <1>2, PTL DEF Spec

(* PidExact: a receiver that was started in time delivers the PID that was *)
(* sent, whatever is lost after it; one started late makes no PID of a     *)
(* handshake.                                                              *)
THEOREM PidIsExact == Spec => []PidExact
<1>1. IInv => PidExact
  <2> SUFFICES ASSUME IInv, pc = "done", Len(out) >= 2, sent # <<>>
               PROVE  IF late THEN Len(sent) > 2 ELSE out[2] = sent[2]
    BY DEF PidExact
  <2>1. Types /\ Kept /\ Receiving
    BY DEF IInv
  <2>2. Len(sent) \in Nat /\ Len(sent) >= 2
    BY <2>1, SentFacts
  <2>3. Got = out /\ Taken = idx /\ Len(out) \in Nat
    BY <2>1 DEF Got, Taken, Before, Types
  <2>4. idx \in Nat /\ idx >= 2
    <3>1. Room \in Nat /\ idx \in Nat
      BY <2>1, TakenNat, <2>3, RxAssumption
    <3> QED
      BY <2>1, <3>1 DEF Kept, AtMost
  <2>5. ASSUME late, Len(sent) = 2
        PROVE  FALSE
    <3>1. Missed
      BY <2>1, <2>5 DEF Receiving
    <3> DEFINE n == Len(fifo)
               h == Len(isr)
               b == BitsLeft
    <3>2. n \in Nat /\ h \in Nat /\ b \in Nat /\ Captured = 8 * (idx + n) + h
      BY <2>1, <2>3 DEF Captured, BitsLeft, Types
    <3>3. det \in {"eop", "start", "run"}
      BY <2>1 DEF Types
    <3> HIDE DEF n, h, b
    <3>4. Captured \in Nat /\ Captured >= 16
      BY <2>4, <3>2
    <3>5. det # "start"
      BY <3>1, <3>4 DEF Missed
    <3>6. det # "eop"
      BY <3>1, <3>4 DEF Missed
    <3>7. det # "run"
      <4>1. det = "run" => Captured + b + 1 <= 15
        BY <3>1 DEF Missed, b
      <4> HIDE DEF Captured
      <4> QED
        BY <3>2, <3>4, <4>1
    <3> QED
      BY <3>3, <3>5, <3>6, <3>7
  <2>6. ASSUME ~late
        PROVE  out[2] = sent[2]
    <3>1. 2 \in 1 .. Len(out)
      BY <2>3
    <3>2. CASE Exact
      BY <2>3, <3>1, <3>2 DEF Exact, Queue
    <3>3. CASE FirstTwo
      BY <2>3, <3>1, <3>3 DEF FirstTwo
    <3> QED
      BY <2>1, <2>6, <3>2, <3>3 DEF Receiving
  <2> QED
    <3>1. late => Len(sent) > 2
      BY <2>2, <2>5
    <3>2. ~late => out[2] = sent[2]
      BY <2>6
    <3> QED
      BY Zenon, <3>1, <3>2
<1> QED
  BY <1>1, Inductive, PTL

-----------------------------------------------------------------------------

(* A CPU that is not interrupted: it looks at the flags and at the FIFO    *)
(* once per bit at least.                                                  *)
LEMMA SlackFacts ==
    /\ \A n \in 0 .. 7, m \in 0 .. 6 : Slack(n, m) \in 0 .. 9
    /\ \A n \in 0 .. 6, m \in 0 .. 5 :
        Slack(n, m) + 1 <= Slack(n + 1, m + 1) /\ Slack(n, m) + 1 <= Slack(n + 1, 0)
    /\ \A n \in 0 .. 7 : Slack(n, 6) + 1 <= Slack(n, 0)
BY DEF Slack

(* The shift register as an index. *)
LEMMA ShiftLength ==
    ASSUME NEW s \in Seq({0, 1}), Len(s) <= 7
    PROVE  Len(s) \in 0 .. 7
<1> DEFINE n == Len(s)
<1>1. n \in Nat /\ n <= 7
  OBVIOUS
<1> HIDE DEF n
<1>2. n \in 0 .. 7
  BY <1>1
<1> QED
  BY <1>2 DEF n

(* The flags follow the edge detector. *)
LEMMA FlagsBit ==
    ASSUME Types, Flags, NEW level, Detect(level)
    PROVE  Flags'
<1>1. det \in {"eop", "start", "run"}
  BY DEF Types
<1>2. CASE UNCHANGED pio
  <2>1. det' = det /\ irq_start' = irq_start /\ irq_eop' = irq_eop
    BY <1>2 DEF pio
  <2> QED
    BY <2>1 DEF Flags
<1>3. CASE det = "start" /\ det' = "run" /\ irq_start' = TRUE /\ irq_eop' = irq_eop
  BY <1>3 DEF Flags
<1>4. CASE det = "run" /\ UNCHANGED <<det, irq_start, irq_eop>>
  BY <1>4 DEF Flags
<1>5. CASE det = "run" /\ det' = "eop" /\ irq_eop' = TRUE /\ irq_start' = irq_start
  BY <1>5 DEF Flags
<1> QED
  BY <1>2, <1>3, <1>4, <1>5 DEF Detect

(* A bit time while the CPU waits for the start of a packet.               *)
LEMMA SopBit ==
    ASSUME Types, sent # <<>>, Sending, Waits \/ Stuffs \/ SendsBit \/ Ceases,
           Exact, Flags, det = "start", Detect(line'), sent' = sent
    PROVE  \/ det' = "start" /\ gap > 0 /\ gap' = gap - 1 /\ fifo' = <<>>
           \/ det' = "run" /\ gap = 0 /\ fifo' = <<>> /\ Len(isr') = 1
<1>1. Begins = 0 /\ Fresh /\ line = "J" /\ ones = 0 /\ ~trigger
  BY DEF Exact, Lockstep, Sending
<1>2. fifo = <<>> /\ isr = <<>> /\ ~dec_x /\ dec_y = 6 /\ Len(fifo) = 0 /\ Len(isr) = 0
  BY <1>1 DEF Fresh
<1>3. CASE Waits
  <2>1. line' = "J" /\ gap > 0 /\ gap' = gap - 1
    BY <1>1, <1>3 DEF Waits
  <2>2. UNCHANGED pio
    BY <2>1 DEF Detect
  <2> QED
    BY <1>2, <2>1, <2>2 DEF pio, decoder
<1>4. CASE SendsBit
  <2>1. Begins' = 1 /\ Len(byte') = 7 /\ gap = 0
    <3>1. byte = <<>>
      BY <1>1 DEF Sending
    <3> QED
      BY <1>1, <1>4, <3>1 DEF SendsBit
  <2>2. BitSent = 0
    <3>1. BitSent = Octet(USB_SYNC)[1]
      BY <2>1, SentFacts DEF BitSent
    <3> QED
      BY <3>1, HandshakeBits
  <2>3. line' = "K"
    BY <1>1, <1>4, <2>2 DEF SendsBit, Other
  <2>4. det' = "run" /\ Triggered(line')
    BY <2>3 DEF Detect
  <2>5. ~Stalled
    <3>1. FifoDepth \in Nat
      BY RxAssumption
    <3> QED
      BY <1>2, <3>1 DEF Stalled
  <2>6. Decode(line', fifo)
    BY <2>4, <2>5 DEF Triggered
  <2>7. Shift(0, fifo)
    <3>1. (line' # "J") # dec_x
      BY <1>2, <2>3
    <3> QED
      BY <1>2, <2>6, <3>1 DEF Decode
  <2>8. isr' = <<0>> /\ fifo' = <<>>
    BY <1>2, <2>7 DEF Shift
  <2> QED
    BY <2>1, <2>4, <2>8
<1>5. ~Stuffs
  BY <1>1 DEF Stuffs
<1>6. ~Ceases
  <2>1. rest = <<>> => Len(rest) = 0
    OBVIOUS
  <2>2. rest # <<>>
    BY <1>1, <2>1, SentFacts DEF Begins
  <2> QED
    BY <2>2 DEF Ceases
<1> QED
  BY <1>3, <1>4, <1>5, <1>6

(* A bit time of a packet: the byte on its way comes closer. *)
LEMMA RunBit ==
    ASSUME Types, Types', sent # <<>>, Sending, Sending',
           Waits \/ Stuffs \/ SendsBit \/ Ceases,
           Exact, Exact', det = "run", det' = "run", fifo = <<>>, fifo' = <<>>,
           Detect(line'), sent' = sent
    PROVE  Slack(Len(isr), ones) + 1 <= Slack(Len(isr'), ones')
<1>0. /\ ones \in 0 .. 6 /\ ones' \in 0 .. 6 /\ byte \in Seq({0, 1}) /\ byte' \in Seq({0, 1})
      /\ Len(byte) \in Nat /\ Len(byte') \in Nat
      /\ isr \in Seq({0, 1}) /\ Len(isr) \in 0 .. 7 /\ isr' \in Seq({0, 1}) /\ Len(isr') \in 0 .. 7
      /\ Len(fifo) = 0 /\ Len(fifo') = 0
  <2>1. /\ ones \in 0 .. 6 /\ ones' \in 0 .. 6 /\ byte \in Seq({0, 1}) /\ byte' \in Seq({0, 1})
        /\ isr \in Seq({0, 1}) /\ Len(isr) <= 7 /\ isr' \in Seq({0, 1}) /\ Len(isr') <= 7
    BY DEF Types
  <2>2. Len(isr) \in Nat /\ Len(isr') \in Nat /\ Len(byte) \in Nat /\ Len(byte') \in Nat
    BY <2>1, EmptyFacts
  <2>3. Len(isr) \in 0 .. 7 /\ Len(isr') \in 0 .. 7
    BY <2>1, ShiftLength
  <2>4. Len(fifo) = 0 /\ Len(fifo') = 0
    OBVIOUS
  <2> QED
    BY <2>1, <2>2, <2>3, <2>4
<1>1. /\ Begins >= 1 /\ end = 2 /\ end' = 2
      /\ Len(isr) = (IF byte = <<>> THEN 0 ELSE 8 - Len(byte))
      /\ Len(isr') = (IF byte' = <<>> THEN 0 ELSE 8 - Len(byte'))
  BY DEF Exact, Lockstep
<1>2. Len(isr') >= Len(isr)
  <2>1. 8 * Len(fifo') + Len(isr') >= 8 * Len(fifo) + Len(isr)
    BY DetectFacts
  <2> QED
    BY <1>0, <2>1
<1>3. ~Waits
  BY <1>1 DEF Waits
<1>4. CASE Stuffs
  <2>1. ones = 6 /\ ones' = 0 /\ Len(isr') = Len(isr)
    BY <1>1, <1>4 DEF Stuffs
  <2> QED
    BY <1>0, <2>1, SlackFacts
<1>5. CASE SendsBit
  <2>1. /\ Len(byte') = (IF byte = <<>> THEN 7 ELSE Len(byte) - 1)
        /\ ones # 6 /\ (ones' = ones + 1 \/ ones' = 0)
    BY <1>5 DEF SendsBit
  <2> DEFINE n == Len(isr)
             n1 == Len(isr')
             m == Len(byte)
             m1 == Len(byte')
  <2>2. n1 = n + 1 /\ n \in 0 .. 6
    <3>1. /\ n \in 0 .. 7 /\ n1 \in 0 .. 7 /\ m \in Nat /\ m1 \in Nat /\ n1 >= n
          /\ n = (IF m = 0 THEN 0 ELSE 8 - m)
          /\ n1 = (IF m1 = 0 THEN 0 ELSE 8 - m1)
          /\ m1 = (IF m = 0 THEN 7 ELSE m - 1)
      <4>1. (byte = <<>> <=> m = 0) /\ (byte' = <<>> <=> m1 = 0)
        BY <1>0, EmptyFacts
      <4>2. n = (IF m = 0 THEN 0 ELSE 8 - m) /\ n1 = (IF m1 = 0 THEN 0 ELSE 8 - m1)
        BY <1>1, <4>1
      <4>3. m1 = (IF m = 0 THEN 7 ELSE m - 1)
        BY <2>1, <4>1
      <4> QED
        BY <1>0, <1>2, <4>2, <4>3
    <3> HIDE DEF n, n1, m, m1
    <3> QED
      BY <3>1
  <2>3. ones \in 0 .. 5
    BY <1>0, <2>1
  <2> HIDE DEF n, n1
  <2>4. Slack(n, ones) + 1 <= Slack(n1, ones')
    BY <2>1, <2>2, <2>3, SlackFacts
  <2> QED
    BY <2>4 DEF n, n1
<1>6. ~Ceases
  <2>1. Ceases => end' # 2
    BY <1>1 DEF Ceases
  <2> QED
    BY <1>1, <2>1
<1> QED
  BY <1>3, <1>4, <1>5, <1>6

(* A bit time of an uninterrupted reception. *)
LEMMA InTimeBit ==
    ASSUME IInv, IInv', sent # <<>>, prompt, looked, InTime, Bit
    PROVE  InTime'
<1>1. Types /\ Types' /\ Sending /\ Sending' /\ sent' = sent
  BY DEF IInv, Bit
<1>2. /\ pc' = pc /\ Detect(line') /\ DeviceSends /\ late' = late /\ Taken' = Taken /\ Got' = Got
      /\ looked' = (pc = "done")
  BY DEF Bit, host, Taken, Got, Before
<1>3. Waits \/ Stuffs \/ SendsBit \/ Ceases
  BY <1>1, <1>2, SendingBit
<1>4. pc \in {"sop", "pull", "done"} /\ Exact /\ Flags /\ ~late
  <2>1. ~Before
    BY DEF InTime
  <2>2. pc \notin {"started", "flag", "clock"}
    BY DEF InTime
  <2> QED
    BY <1>1, <2>1, <2>2 DEF InTime, Types, Before
<1>5. Flags'
  BY <1>1, <1>2, <1>4, FlagsBit
<1>6. ~Before' /\ pc' # "prepared"
  BY <1>2, <1>4 DEF Before
<1>7. fifo' \in Seq(Nat) /\ Len(fifo') \in Nat /\ FifoDepth \in Nat \ {0}
  BY <1>1, RxAssumption DEF Types
<1>8. Len(fifo') <= FifoDepth => Exact'
  BY <1>1, <1>2, <1>3, <1>4, ExactBit DEF Types, DeviceTypes
<1>9. waited' = AtMost(waited + 1, SopBits + DrainBits) /\ waited' <= waited + 1 /\ waited \in Nat
  <2>1. waited \in Nat /\ SopBits \in Nat /\ DrainBits \in Nat
    BY <1>1, RxAssumption DEF Types
  <2>2. waited' = AtMost(waited + 1, SopBits + DrainBits)
    BY DEF Bit
  <2> QED
    BY <2>1, <2>2 DEF AtMost
<1>10. CASE pc = "sop"
  <2>1. det = "start" /\ waited + gap + 2 <= SopBits
    <3>1. det # "run" /\ det # "eop"
      BY <1>10 DEF InTime
    <3>2. det = "start"
      BY <1>1, <3>1 DEF Types
    <3> QED
      BY <1>10, <3>2 DEF InTime
  <2>2. \/ det' = "start" /\ gap > 0 /\ gap' = gap - 1 /\ fifo' = <<>>
        \/ det' = "run" /\ gap = 0 /\ fifo' = <<>> /\ Len(isr') = 1
    BY <1>1, <1>2, <1>3, <1>4, <2>1, SopBit
  <2>3. Exact'
    <3>1. Len(fifo') = 0
      BY <2>2
    <3> QED
      BY <1>7, <1>8, <3>1
  <2>4. gap \in Nat /\ SopBits \in Nat /\ waited' \in Nat
    BY <1>1, RxAssumption DEF Types
  <2>5. det' = "start" => waited' + gap' + 2 <= SopBits
    BY <1>9, <2>1, <2>2, <2>4
  <2>6. det' = "run" => waited' < SopBits
    BY <1>9, <2>1, <2>2, <2>4
  <2>7. det' # "eop" /\ ~looked' /\ (det' = "run" => Len(isr') = 1 /\ fifo' = <<>>)
    BY <1>2, <1>10, <2>2
  <2> QED
    BY <1>2, <1>4, <1>5, <1>6, <1>10, <2>3, <2>5, <2>6, <2>7 DEF InTime
<1>11. CASE pc = "pull"
  <2>1. det = "run" /\ fifo = <<>> /\ waited <= Slack(Len(isr), ones)
    BY <1>11 DEF InTime
  <2>2. Exact'
    <3>1. fifo' = fifo \/ \E b \in Nat : fifo' = Append(fifo, b)
      BY <1>1, <1>2, DetectFacts
    <3>2. Len(fifo') = 0 \/ Len(fifo') = 1
      BY <2>1, <3>1
    <3>3. Len(fifo') <= FifoDepth
      <4> DEFINE n == Len(fifo')
      <4>1. (n = 0 \/ n = 1) /\ FifoDepth \in Nat \ {0}
        BY <1>7, <3>2
      <4> HIDE DEF n
      <4>2. n <= FifoDepth
        BY <4>1
      <4> QED
        BY <4>2 DEF n
    <3> QED
      BY <1>8, <3>3
  <2>3. det' # "start"
    <3>1. det' = det \/ det' = "eop"
      BY <1>2, <2>1 DEF Detect
    <3> QED
      BY <2>1, <3>1
  <2>4. det' = "run" /\ fifo' = <<>> => waited' <= Slack(Len(isr'), ones')
    <3> SUFFICES ASSUME det' = "run", fifo' = <<>>
                 PROVE  waited' <= Slack(Len(isr'), ones')
      OBVIOUS
    <3>1. Slack(Len(isr), ones) + 1 <= Slack(Len(isr'), ones')
      BY <1>1, <1>2, <1>3, <1>4, <2>1, <2>2, RunBit
    <3> DEFINE a == Slack(Len(isr), ones)
               b == Slack(Len(isr'), ones')
    <3>2. a \in Nat /\ b \in Nat
      <4>1. /\ ones \in 0 .. 6 /\ ones' \in 0 .. 6 /\ isr \in Seq({0, 1}) /\ isr' \in Seq({0, 1})
            /\ Len(isr) <= 7 /\ Len(isr') <= 7
        BY <1>1 DEF Types
      <4>3. Len(isr) \in 0 .. 7 /\ Len(isr') \in 0 .. 7
        BY <4>1, ShiftLength
      <4>4. a \in 0 .. 9 /\ b \in 0 .. 9
        BY <4>1, <4>3, SlackFacts
      <4> HIDE DEF a, b
      <4> QED
        BY <4>4
    <3>3. waited' \in Nat /\ waited' <= waited + 1 /\ waited \in Nat /\ waited <= a /\ a + 1 <= b
      BY <1>1, <1>9, <2>1, <3>1 DEF Types
    <3> HIDE DEF a, b
    <3>4. waited' <= b
      BY <3>2, <3>3
    <3> QED
      BY <3>4 DEF b
  <2> QED
    BY <1>2, <1>4, <1>5, <1>6, <1>11, <2>2, <2>3, <2>4 DEF InTime
<1>12. CASE pc = "done"
  <2>1. det = "eop"
    BY <1>12 DEF InTime
  <2>2. UNCHANGED pio
    BY <1>2, <2>1 DEF Detect
  <2>3. det' = "eop" /\ fifo' = fifo
    BY <2>1, <2>2 DEF pio, decoder
  <2>4. Exact'
    <3>1. Len(fifo) <= FifoDepth
      BY <1>4 DEF Exact
    <3> QED
      BY <1>8, <2>3, <3>1
  <2> QED
    BY <1>2, <1>4, <1>5, <1>6, <1>12, <2>3, <2>4 DEF InTime
<1> QED
  BY <1>4, <1>10, <1>11, <1>12

(* The receiver is prepared, and started before the device answers.        *)
LEMMA PromptPrepare ==
    ASSUME IInv', prepare_for_receive, sent' # <<>>
    PROVE  InTime' /\ Summed' /\ Received'
<1>1. /\ byte' = <<>> /\ late' = FALSE /\ pc' = "prepared" /\ looked' = FALSE
  BY DEF prepare_for_receive
<1>2. PICK t \in Transmissions : sent' = t.packet /\ gap' = t.gap /\ rest' = t.rest
  BY DEF prepare_for_receive
<1>3. sent' \in Packets /\ rest' = Octets(sent') /\ gap' \in Gaps
  BY <1>2, TransmissionFacts
<1>4. gap' + 2 <= SopBits
  BY <1>3, RxAssumption
<1>5. Begins' = 0
  <2>1. sent' \in Seq(0 .. 255) /\ Len(sent') \in Nat
    BY <1>3, PacketsAssumption
  <2>2. Len(rest') = Len(sent')
    BY <1>3, <2>1 DEF Octets
  <2> QED
    BY <2>1, <2>2 DEF Begins
<1>6. InTime'
  BY <1>1, <1>4, <1>5 DEF InTime, Before
<1>7. Summed' /\ Received'
  BY <1>1 DEF Summed, Received, Before
<1> QED
  BY <1>6, <1>7

(* An uninterrupted start_receive is before the device's answer. *)
LEMMA PromptStart ==
    ASSUME IInv, Types', sent # <<>>, InTime, start_receive, ~looked, UNCHANGED device, sent' = sent
    PROVE  InTime' /\ Summed' /\ Received'
<1>1. Types /\ Sending /\ pc = "prepared" /\ Waiting
  BY DEF IInv, Receiving, start_receive
<1>2. Begins = 0 /\ gap + 2 <= SopBits
  BY <1>1 DEF InTime, Before
<1>3. ~late'
  <2>1. Len(rest) = Len(sent)
    BY <1>1, <1>2, SentFacts DEF Begins, Types
  <2>2. ~(Len(rest) < Len(sent))
    BY <1>1, <2>1, SentFacts
  <2> QED
    BY <2>2 DEF start_receive, Begun
<1>4. Exact'
  BY <1>1, <1>3, StartExact
<1>5. /\ det' = "start" /\ irq_start' = FALSE /\ irq_eop' = FALSE /\ pc' = "armed" /\ looked' = looked
      /\ gap' = gap /\ Begins' = Begins
  BY <1>1 DEF start_receive, Waiting, device, Begins
<1>6. Flags'
  BY <1>5 DEF Flags
<1>7. InTime'
  BY <1>2, <1>3, <1>4, <1>5, <1>6 DEF InTime, Before
<1>8. Summed' /\ Received'
  BY <1>5 DEF Summed, Received, Before
<1> QED
  BY <1>7, <1>8

(* receive begins to wait, with its clock at zero. *)
LEMMA PromptReceive ==
    ASSUME IInv, sent # <<>>, InTime, receive, ~looked, UNCHANGED device, sent' = sent, late' = late
    PROVE  InTime' /\ Summed' /\ Received'
<1>1. Types /\ Sending /\ Unstuffed /\ Receiving /\ pc = "armed"
  BY DEF IInv, receive
<1>2. Exact /\ Flags /\ det = "start" /\ Begins = 0 /\ gap + 2 <= SopBits /\ ~late
  BY <1>1 DEF InTime, Before
<1>3. Exact'
  BY <1>1, <1>2, CpuReceiving
<1>4. /\ UNCHANGED pio /\ pc' = "sop" /\ waited' = 0 /\ looked' = looked /\ idx' = 0 /\ crc' = 65535
      /\ gap' = gap
  BY DEF receive, device
<1>5. det' = "start" /\ irq_start' = irq_start /\ irq_eop' = irq_eop
  BY <1>2, <1>4 DEF pio
<1>6. Flags'
  BY <1>2, <1>5 DEF Flags
<1>7. waited' + gap' + 2 <= SopBits
  BY <1>1, <1>2, <1>4 DEF Types
<1>8. InTime'
  BY <1>2, <1>3, <1>4, <1>5, <1>6, <1>7 DEF InTime, Before
<1>9. Summed'
  BY <1>4 DEF Summed
<1>10. Received'
  BY <1>4 DEF Received
<1> QED
  BY <1>8, <1>9, <1>10

(* No poll gives up a packet: neither timeout expires.                     *)
LEMMA PromptPoll ==
    ASSUME IInv, sent # <<>>, InTime, Polls, ~looked, UNCHANGED device, sent' = sent, late' = late
    PROVE  InTime' /\ (pc' = "done" => end_of_packet)
<1>1. Types /\ Sending /\ Unstuffed /\ Receiving
  BY DEF IInv
<1>2. /\ UNCHANGED pio /\ out' = out /\ idx' = idx
      /\ pc \in {"sop", "started", "pull", "flag", "clock"}
      /\ pc' \in {"sop", "started", "pull", "flag", "clock", "done"}
  BY <1>1, PollFacts
<1>3. Exact /\ Flags /\ ~late
  BY <1>2 DEF InTime
<1>4. Exact'
  BY <1>1, <1>3, CpuReceiving
<1>5. /\ det' = det /\ irq_start' = irq_start /\ irq_eop' = irq_eop /\ isr' = isr /\ fifo' = fifo
      /\ gap' = gap /\ ones' = ones
  BY <1>2 DEF pio, decoder, device
<1>6. Flags' /\ ~late' /\ ~Before' /\ pc' # "prepared"
  BY <1>2, <1>3, <1>5 DEF Flags, Before
<1>7. det \in {"eop", "start", "run"} /\ waited \in Nat /\ gap \in Nat /\ ones \in 0 .. 6
      /\ Len(isr) \in 0 .. 7 /\ SopBits \in Nat /\ DrainBits \in Nat /\ DrainBits >= 9
  BY <1>1, ShiftLength, RxAssumption DEF Types
<1>8. Slack(Len(isr), ones) \in 0 .. 9
  BY <1>7, SlackFacts
<1>9. CASE wait_sop
  <2>1. pc = "sop" /\ ~Silent
    <3>1. pc = "sop"
      BY <1>9 DEF wait_sop
    <3>2. det # "eop" /\ (det = "start" => waited + gap + 2 <= SopBits)
          /\ (det = "run" => waited < SopBits)
      BY <3>1 DEF InTime
    <3>3. ~(waited >= SopBits)
      BY <1>7, <3>2
    <3> QED
      BY <3>1, <3>3 DEF Silent
  <2>2. pc' = "started" /\ waited' = waited /\ looked' = looked
    BY <1>9, <2>1 DEF wait_sop
  <2>3. InTime'
    BY <1>4, <1>5, <1>6, <2>1, <2>2 DEF InTime
  <2> QED
    BY <2>2, <2>3
<1>10. CASE got_start
  <2>1. pc = "started" /\ det # "eop"
    BY <1>10 DEF got_start, InTime
  <2>2. CASE irq_start
    <3>1. det = "run"
      BY <1>3, <1>7, <2>1, <2>2 DEF Flags
    <3>2. pc' = "pull" /\ waited' = 0 /\ looked' = looked
      BY <1>10, <2>2 DEF got_start
    <3>3. waited' <= Slack(Len(isr'), ones')
      <4>1. 0 <= Slack(Len(isr), ones)
        BY <1>8
      <4> QED
        BY <1>5, <3>2, <4>1
    <3>4. InTime'
      BY <1>4, <1>5, <1>6, <3>1, <3>2, <3>3 DEF InTime
    <3> QED
      BY <3>2, <3>4
  <2>3. CASE ~irq_start
    <3>1. det = "start"
      BY <1>3, <1>7, <2>1, <2>3 DEF Flags
    <3>2. pc' = "sop" /\ waited' = waited
      BY <1>10, <2>3 DEF got_start
    <3>3. waited' + gap' + 2 <= SopBits
      BY <1>5, <2>1, <3>1, <3>2 DEF InTime
    <3>4. InTime'
      BY <1>4, <1>5, <1>6, <3>1, <3>2, <3>3 DEF InTime
    <3> QED
      BY <3>2, <3>4
  <2> QED
    BY <2>2, <2>3
<1>11. CASE empty
  <2>1. /\ pc = "pull" /\ fifo = <<>> /\ pc' = "flag" /\ waited' = waited /\ looked' = looked
    BY <1>11 DEF empty
  <2>2. InTime'
    BY <1>4, <1>5, <1>6, <2>1 DEF InTime
  <2> QED
    BY <2>1, <2>2
<1>12. CASE end_of_packet
  <2>1. pc = "flag" /\ fifo = <<>> /\ det # "start"
    BY <1>12 DEF end_of_packet, InTime
  <2>2. CASE irq_eop
    <3>1. det = "eop"
      BY <1>3, <1>7, <2>1, <2>2 DEF Flags
    <3>2. pc' = "done" /\ looked' = TRUE
      BY <1>12, <2>2 DEF end_of_packet, Return
    <3> QED
      BY <1>4, <1>5, <1>6, <1>12, <3>1, <3>2 DEF InTime
  <2>3. CASE ~irq_eop
    <3>1. det = "run"
      BY <1>3, <1>7, <2>1, <2>3 DEF Flags
    <3>2. pc' = "clock" /\ waited' = waited /\ looked' = looked
      BY <1>12, <2>3 DEF end_of_packet
    <3> QED
      BY <1>4, <1>5, <1>6, <2>1, <3>1, <3>2 DEF InTime
  <2> QED
    BY <2>2, <2>3
<1>13. CASE drain
  <2>1. pc = "clock" /\ fifo = <<>> /\ det = "run" /\ waited <= Slack(Len(isr), ones)
    BY <1>13 DEF drain, InTime
  <2>2. ~Drained
    BY <1>7, <1>8, <2>1 DEF Drained
  <2>3. pc' = "pull" /\ looked' = TRUE /\ waited' = waited
    BY <1>13, <2>2 DEF drain
  <2>4. InTime'
    BY <1>4, <1>5, <1>6, <2>1, <2>3 DEF InTime
  <2> QED
    BY <2>3, <2>4
<1> QED
  BY <1>9, <1>10, <1>11, <1>12, <1>13 DEF Polls

(* A byte taken restarts the clock. *)
LEMMA PromptTake ==
    ASSUME IInv, sent # <<>>, InTime, take, ~looked, UNCHANGED device, sent' = sent, late' = late
    PROVE  InTime'
<1>1. Types /\ Kept /\ Sending
  BY DEF IInv
<1>2. pc = "pull" /\ pc' = "pull" /\ det' = det /\ irq_start' = irq_start /\ irq_eop' = irq_eop
      /\ waited' = 0 /\ looked' = looked
  BY <1>1, TakeFacts
<1>3. Exact /\ Flags /\ ~late /\ det # "start"
  BY <1>2 DEF InTime
<1>4. Exact'
  BY <1>1, <1>2, <1>3, TakeExact DEF take
<1>5. Flags' /\ ~Before'
  BY <1>2, <1>3 DEF Flags, Before
<1>6. waited' <= Slack(Len(isr'), ones')
  <2>1. /\ isr' \in Seq({0, 1}) /\ Len(isr') <= 7
    BY <1>1, TakeFacts, PulledFacts
  <2>2. Len(isr') \in 0 .. 7 /\ ones' \in 0 .. 6
    BY <1>1, <2>1, ShiftLength DEF device, Types
  <2>3. Slack(Len(isr'), ones') \in 0 .. 9
    BY <2>2, SlackFacts
  <2> DEFINE a == Slack(Len(isr'), ones')
  <2> HIDE DEF a
  <2>4. a \in 0 .. 9
    BY <2>3 DEF a
  <2>5. waited' <= a
    BY <1>2, <2>4
  <2> QED
    BY <2>5 DEF a
<1> QED
  BY <1>2, <1>3, <1>4, <1>5, <1>6 DEF InTime

(* The CRC of what was taken. *)
LEMMA SummedTake ==
    ASSUME IInv, sent # <<>>, Exact, Summed, take, sent' = sent
    PROVE  Summed'
<1>1. Types /\ Kept
  BY DEF IInv
<1>2. /\ fifo # <<>> /\ Len(fifo) \in Nat \ {0} /\ Head(fifo) = fifo[1]
      /\ idx \in Nat /\ idx <= Counted /\ Taken = idx
      /\ idx' = AtMost(idx + 1, Counted) /\ pc = "pull" /\ pc' = "pull"
  BY <1>1, TakeFacts
<1>3. crc' = IF idx >= 2 /\ idx < Counted THEN Crc(crc, fifo[1]) ELSE crc
  BY <1>2 DEF take
<1>4. Counted = Room + 2 /\ Counted' = Counted /\ Room \in Nat \ {0}
  BY RxAssumption DEF Counted
<1>5. /\ idx <= 2 => crc = 65535
      /\ idx >= 3 /\ sent[2] \in DataPids => crc = Sums[sent][idx]
  BY <1>2 DEF Summed, Before
<1>6. idx' = (IF idx < Counted THEN idx + 1 ELSE idx)
  BY <1>2, <1>4 DEF AtMost
<1>7. idx' <= 2 => crc' = 65535
  <2>1. idx' <= 2 => idx <= 2 /\ ~(idx >= 2 /\ idx < Counted)
    BY <1>2, <1>4, <1>6
  <2> QED
    BY <1>3, <1>5, <2>1
<1>8. ASSUME idx' >= 3, sent[2] \in DataPids
      PROVE  crc' = Sums[sent][idx']
  <2>1. CASE idx < Counted
    <3>1. idx' = idx + 1 /\ idx >= 2 /\ idx' - 1 = idx
      BY <1>2, <1>6, <1>8, <2>1
    <3>2. crc' = Crc(crc, fifo[1])
      BY <1>3, <2>1, <3>1
    <3>3. fifo[1] = sent[idx + 1] /\ idx + 1 \in 3 .. Len(sent)
      <4> DEFINE k == Decoded
                 n == Len(fifo)
      <4>1. /\ n <= k /\ idx = AtMost(k - n, Counted)
            /\ \A i \in 1 .. n : fifo[i] = sent[k - n + i]
        BY <1>2 DEF Exact, Queue
      <4>2. k \in Nat /\ k <= Len(sent) /\ Len(sent) \in Nat
        <5>1. Len(rest) \in Nat /\ Len(sent) \in Nat /\ Len(rest) <= Len(sent)
              /\ (byte # <<>> => Begins >= 1)
          BY <1>1, SentFacts DEF Types, IInv, Sending
        <5>2. Begins \in 0 .. Len(sent)
          BY <5>1 DEF Begins
        <5>3. k = (IF byte = <<>> THEN Begins ELSE Begins - 1)
          BY DEF Decoded
        <5> HIDE DEF k
        <5>4. byte = <<>> => k \in Nat /\ k <= Len(sent)
          BY <5>1, <5>2, <5>3
        <5>5. byte # <<>> => k \in Nat /\ k <= Len(sent)
          BY <5>1, <5>2, <5>3
        <5> QED
          BY <5>1, <5>4, <5>5
      <4>3. 1 \in 1 .. n /\ fifo[1] = sent[k - n + 1]
        <5>1. 1 \in 1 .. n
          BY <1>2
        <5> QED
          BY <4>1, <5>1
      <4> HIDE DEF k, n
      <4>4. n \in Nat \ {0}
        BY <1>2 DEF n
      <4>5. idx = k - n
        BY <1>4, <2>1, <4>1, <4>2, <4>4 DEF AtMost
      <4>6. idx + 1 \in 3 .. Len(sent)
        BY <3>1, <4>1, <4>2, <4>4, <4>5
      <4> QED
        BY <4>3, <4>5, <4>6
    <3>4. sent \in Packets /\ sent[2] \in {USB_PID_DATA0, USB_PID_DATA1}
      BY <1>1, <1>8, SentFacts DEF DataPids
    <3>5. /\ Sums[sent][2] = 65535
          /\ \A i \in 3 .. Len(sent) : Sums[sent][i] = Crc(Sums[sent][i - 1], sent[i])
      BY <3>4, CrcAssumption
    <3>6. crc = Sums[sent][idx]
      <4>1. CASE idx = 2
        BY <1>5, <3>5, <4>1
      <4>2. CASE idx >= 3
        BY <1>5, <1>8, <4>2
      <4> QED
        BY <1>2, <3>1, <4>1, <4>2
    <3>7. Sums[sent][idx + 1] = Crc(Sums[sent][(idx + 1) - 1], sent[idx + 1])
      BY <3>3, <3>5
    <3>8. (idx + 1) - 1 = idx
      BY <1>2
    <3> QED
      BY <3>1, <3>2, <3>3, <3>6, <3>7, <3>8
  <2>2. CASE ~(idx < Counted)
    BY <1>3, <1>5, <1>6, <1>8, <2>2
  <2> QED
    BY <2>1, <2>2
<1> QED
  BY <1>2, <1>7, <1>8 DEF Summed, Before

(* The end of the packet: all of it was taken, or all there was room for.  *)
LEMMA ReceivedEnd ==
    ASSUME IInv, sent # <<>>, InTime, Summed, end_of_packet, UNCHANGED device, sent' = sent
    PROVE  Received'
<1> SUFFICES ASSUME irq_eop
             PROVE  Received'
  <2>1. ~irq_eop => pc' # "done"
    BY DEF end_of_packet
  <2> QED
    BY <2>1 DEF Received
<1>1. Types /\ Kept /\ pc = "flag"
  BY DEF IInv, end_of_packet
<1>2. Exact /\ Flags /\ det # "start" /\ fifo = <<>>
  BY <1>1 DEF InTime
<1>3. det = "eop"
  <2>1. det # "run"
    BY <1>2 DEF Flags
  <2> QED
    BY <1>1, <1>2, <2>1 DEF Types
<1>4. rest = <<>> /\ byte = <<>>
  BY <1>2, <1>3 DEF Exact, Lockstep
<1>5. Len(rest) = 0 /\ Len(fifo) = 0 /\ Len(sent) \in Nat /\ Len(sent) >= 2
  BY <1>1, <1>2, <1>4, SentFacts
<1>6. Decoded = Len(sent) /\ Taken = idx /\ Got = out
  BY <1>1, <1>4, <1>5 DEF Decoded, Begins, Taken, Got, Before
<1>7. idx = AtMost(Len(sent), Counted) /\ \A i \in 1 .. Len(out) : out[i] = sent[i]
  BY <1>2, <1>5, <1>6 DEF Exact, Queue
<1>8. Room \in Nat \ {0} /\ Counted = Room + 2
  BY RxAssumption DEF Counted
<1>9. /\ out' = out /\ pc' = "done"
      /\ status' = IF overflowed THEN "Overflow" ELSE IF Valid THEN "ValidData" ELSE "Invalid"
  BY DEF end_of_packet, Return
<1>10. CASE Len(sent) > Room
  <2>1. idx > Room
    BY <1>5, <1>7, <1>8, <1>10 DEF AtMost
  <2>2. overflowed
    BY <1>1, <2>1 DEF Kept
  <2> QED
    BY <1>9, <1>10, <2>2 DEF Received
<1>11. CASE ~(Len(sent) > Room)
  <2>1. idx = Len(sent) /\ ~(idx > Room) /\ AtMost(idx, Room) = Len(sent)
    BY <1>5, <1>7, <1>8, <1>11 DEF AtMost
  <2>2. ~overflowed /\ Len(out) = Len(sent)
    BY <1>1, <2>1 DEF Kept
  <2>3. out = sent
    <3>1. out \in Seq(Nat)
      BY <1>1 DEF Types
    <3>2. sent \in Seq(0 .. 255)
      BY <1>1, SentFacts
    <3> QED
      BY <1>7, <2>2, <3>1, <3>2
  <2>4. sent[2] \in DataPids => Valid
    <3> SUFFICES ASSUME sent[2] \in DataPids
                 PROVE  Valid
      OBVIOUS
    <3>1. sent \in Packets /\ sent[2] \in {USB_PID_DATA0, USB_PID_DATA1}
      BY <1>1, SentFacts DEF DataPids
    <3>2. Len(sent) >= 4 /\ Sums[sent][Len(sent)] = USB_CRC16_RESIDUE
      BY <3>1, CrcAssumption
    <3>3. crc = Sums[sent][idx]
      <4>1. idx >= 3
        BY <1>5, <2>1, <3>2
      <4> QED
        BY <1>1, <4>1 DEF Summed, Before
    <3> QED
      BY <2>1, <2>3, <3>1, <3>2, <3>3 DEF Valid
  <2>5. sent[2] \notin DataPids => ~Valid
    BY <2>3 DEF Valid, DataPids
  <2>6. status' = IF sent[2] \in DataPids THEN "ValidData" ELSE "Invalid"
    BY <1>9, <2>2, <2>4, <2>5
  <2> QED
    BY <1>9, <1>11, <2>3, <2>6 DEF Received, DataPids
<1> QED
  BY <1>10, <1>11

(* Every step keeps an uninterrupted reception in time. *)
LEMMA PInvNext ==
    ASSUME IInv, IInv', PInv, Next
    PROVE  PInv'
<1> SUFFICES ASSUME prompt', sent' # <<>>
             PROVE  InTime' /\ Summed' /\ Received'
  BY DEF PInv
<1>1. CASE prepare_for_receive
  BY <1>1, PromptPrepare
<1>2. CASE Bit
  <2>1. sent' = sent /\ prompt /\ looked
    BY <1>2 DEF Bit
  <2>2. InTime /\ Summed /\ Received
    BY <2>1 DEF PInv
  <2>3. InTime'
    BY <1>2, <2>1, <2>2, InTimeBit
  <2>4. pc' = pc /\ out' = out /\ idx' = idx /\ crc' = crc /\ status' = status
    BY <1>2 DEF Bit, host
  <2>5. Summed'
    BY <2>1, <2>2, <2>4 DEF Summed, Before
  <2>6. Received'
    BY <2>1, <2>2, <2>4 DEF Received
  <2> QED
    BY <2>3, <2>5, <2>6
<1>3. CASE Cpu
  <2>1. UNCHANGED device /\ sent' = sent /\ prompt /\ ~looked
    BY <1>3 DEF Cpu
  <2>2. InTime /\ Summed /\ Received /\ Types'
    BY <2>1 DEF PInv, IInv
  <2>3. CASE start_receive
    BY <2>1, <2>2, <2>3, PromptStart
  <2>4. CASE receive /\ late' = late
    BY <2>1, <2>2, <2>4, PromptReceive
  <2>5. CASE take /\ late' = late
    <3>1. pc = "pull" /\ pc' = "pull"
      BY <2>5 DEF take
    <3>2. Exact
      BY <2>2, <3>1 DEF InTime
    <3>3. InTime'
      BY <2>1, <2>2, <2>5, PromptTake
    <3>4. Summed'
      BY <2>1, <2>2, <2>5, <3>2, SummedTake
    <3>5. Received'
      BY <3>1 DEF Received
    <3> QED
      BY <3>3, <3>4, <3>5
  <2>6. CASE Polls /\ late' = late
    <3>1. InTime' /\ (pc' = "done" => end_of_packet)
      BY <2>1, <2>2, <2>6, PromptPoll
    <3>2. Received'
      <4>1. CASE pc' = "done"
        BY <2>1, <2>2, <3>1, <4>1, ReceivedEnd
      <4>2. CASE pc' # "done"
        BY <4>2 DEF Received
      <4> QED
        BY <4>1, <4>2
    <3>3. Summed'
      <4>1. idx' = idx /\ crc' = crc /\ ~Before
        BY <2>6, PollFacts DEF IInv, Before
      <4> QED
        BY <2>1, <2>2, <4>1 DEF Summed
    <3> QED
      BY <3>1, <3>2, <3>3
  <2> QED
    BY <1>3, <2>3, <2>4, <2>5, <2>6 DEF Cpu, Polls
<1> QED
  BY <1>1, <1>2, <1>3 DEF Next

(* Received: a CPU that is not interrupted receives every packet that fits *)
(* its buffer, whatever its bytes, and recognises every other as one that  *)
(* does not: neither of its two timeouts is too short.                     *)
THEOREM ReceivesAll == Spec => []Received
<1>1. Init => PInv
  BY DEF Init, PInv
<1>2. IInv /\ IInv' /\ PInv /\ [Next]_vars => PInv'
  <2>1. CASE UNCHANGED vars
    <3>1. /\ UNCHANGED <<device, pio, host>> /\ pc' = pc /\ waited' = waited /\ sent' = sent
          /\ late' = late /\ looked' = looked /\ prompt' = prompt
      BY <2>1 DEF vars
    <3>2. /\ gap' = gap /\ rest' = rest /\ byte' = byte /\ ones' = ones /\ end' = end /\ line' = line
          /\ det' = det /\ irq_start' = irq_start /\ irq_eop' = irq_eop /\ trigger' = trigger
          /\ dec_x' = dec_x /\ dec_y' = dec_y /\ isr' = isr /\ fifo' = fifo
          /\ out' = out /\ idx' = idx /\ crc' = crc /\ status' = status
      BY <3>1 DEF device, pio, decoder, host
    <3>3. Begins' = Begins /\ Before' = Before /\ Taken' = Taken /\ Got' = Got
          /\ Decoded' = Decoded /\ Counted' = Counted
      BY <3>1, <3>2 DEF Begins, Before, Taken, Got, Decoded, Counted
    <3>4. Exact' = Exact /\ Flags' = Flags
      BY <3>1, <3>2, <3>3 DEF Exact, Lockstep, Queue, Fresh, Flags
    <3>5. InTime' = InTime
      BY <3>1, <3>2, <3>3, <3>4 DEF InTime
    <3>6. Summed' = Summed
      BY <3>1, <3>2, <3>3 DEF Summed
    <3>7. Received' = Received
      BY <3>1, <3>2 DEF Received
    <3> QED
      BY <3>1, <3>5, <3>6, <3>7 DEF PInv
  <2>2. CASE Next
    BY <2>2, PInvNext
  <2> QED
    BY <2>1, <2>2
<1>3. PInv => Received
  BY DEF PInv, Received
<1> QED
  BY <1>1, <1>2, <1>3, Inductive, PTL DEF Spec

-----------------------------------------------------------------------------

(* An interruption that the FIFO can hold.  Behind is how long it has been *)
(* by now, and Backlog the bits that wait for the CPU.                     *)
HeldByFifo == MaxDelay < 8 * FifoDepth

Behind == MaxDelay - delay

Backlog == 8 * Len(fifo) + Len(isr)

Chased ==
    /\ Exact /\ Flags
    /\ pc \in {"armed", "started", "flag", "clock"} => ~looked
    /\ pc = "sop" /\ looked => det = "start"
    /\ Backlog <= Behind + (IF pc = "pull" /\ ~looked THEN 8 ELSE 7)

(* What is acknowledged is what was sent, up to where the CRC is right.    *)
AckedPart ==
    /\ Len(out) \in 4 .. Len(sent) /\ \A i \in 1 .. Len(out) : out[i] = sent[i]
    /\ sent[2] \in DataPids /\ Sums[sent][Len(out)] = USB_CRC16_RESIDUE

Answer ==
    sent # <<>> /\ ~late =>
        /\ pc \notin {"prepared", "done"} => Chased /\ Summed
        /\ pc = "done" /\ status = "ValidData" => AckedPart

(* A device that stays silent leaves the receiver waiting for a start.     *)
Quiet ==
    sent = <<>> =>
        /\ line = "J" /\ rest = <<>> /\ byte = <<>> /\ ones = 0 /\ end = 0
        /\ det # "run" /\ ~irq_start
        /\ pc \in {"prepared", "armed", "sop", "started", "done"}
        /\ ~Before => status # "ValidData"

AInv ==
    /\ delay \in 0 .. MaxDelay
    /\ Answer
    /\ ~Malformed => Quiet

(* What waits, in the FIFO f and the register s. *)
LEMMA WaitingBits ==
    ASSUME NEW f \in Seq(Nat), NEW s \in Seq({0, 1}), Len(s) <= 7
    PROVE  /\ Len(f) \in Nat /\ Len(s) \in 0 .. 7 /\ 8 * Len(f) + Len(s) \in Nat
           /\ f = <<>> => 8 * Len(f) + Len(s) <= 7
           /\ f = <<>> /\ s = <<>> => 8 * Len(f) + Len(s) = 0
<1>1. Len(f) \in Nat /\ Len(s) \in 0 .. 7
  BY ShiftLength
<1>2. f = <<>> => Len(f) = 0
  BY EmptyFacts
<1>3. s = <<>> => Len(s) = 0
  BY EmptyFacts
<1> DEFINE n == Len(f)
           m == Len(s)
<1> HIDE DEF n, m
<1>4. n \in Nat /\ m \in 0 .. 7 /\ (f = <<>> => n = 0) /\ (s = <<>> => m = 0)
  BY <1>1, <1>2, <1>3 DEF n, m
<1>5. /\ 8 * n + m \in Nat
      /\ f = <<>> => 8 * n + m <= 7
      /\ f = <<>> /\ s = <<>> => 8 * n + m = 0
  BY <1>4
<1> QED
  BY <1>1, <1>5 DEF n, m

LEMMA BacklogNat ==
    ASSUME Types
    PROVE  /\ Backlog \in Nat /\ Len(fifo) \in Nat /\ Len(isr) \in 0 .. 7
           /\ fifo = <<>> => Backlog <= 7
           /\ Fresh => Backlog = 0
BY WaitingBits DEF Types, Backlog, Fresh

LEMMA BacklogNext ==
    ASSUME Types'
    PROVE  /\ 8 * Len(fifo') + Len(isr') \in Nat /\ Len(fifo') \in Nat
           /\ Len(isr') \in 0 .. 7
BY WaitingBits DEF Types

LEMMA BehindNat ==
    ASSUME NEW d \in 0 .. MaxDelay
    PROVE  MaxDelay \in Nat /\ MaxDelay - d \in Nat /\ MaxDelay - d <= MaxDelay
<1>1. MaxDelay \in Nat
  BY RxAssumption
<1> QED
  BY <1>1

LEMMA ChasedNext ==
    ASSUME Exact', Flags',
           pc' \in {"armed", "started", "flag", "clock"} => ~looked',
           pc' = "sop" /\ looked' => det' = "start",
           8 * Len(fifo') + Len(isr')
             <= (MaxDelay - delay') + (IF pc' = "pull" /\ ~looked' THEN 8 ELSE 7)
    PROVE  Chased'
BY DEF Chased, Backlog, Behind

(* A bit time adds a bit to what waits, and the FIFO has room for it.      *)
LEMMA ChasedBit ==
    ASSUME HeldByFifo, IInv, IInv', sent # <<>>, delay \in 0 .. MaxDelay, Chased,
           pc \notin {"prepared", "done"}, Bit
    PROVE  Chased'
<1> DEFINE b == 8 * Len(fifo) + Len(isr)
           c == 8 * Len(fifo') + Len(isr')
<1>1. Types /\ Types' /\ Sending /\ Sending' /\ sent' = sent
  BY DEF IInv, Bit
<1>2. /\ pc' = pc /\ Detect(line') /\ DeviceSends /\ Taken' = Taken /\ Got' = Got
      /\ looked' = FALSE /\ delay' = (IF looked THEN delay ELSE delay - 1)
      /\ looked \/ delay > 0
  BY DEF Bit, host, Taken, Got, Before
<1>3. (Waits \/ Stuffs \/ SendsBit \/ Ceases) /\ DeviceTypes'
  BY <1>1, <1>2, SendingBit
<1>4. Exact /\ Flags
  BY DEF Chased
<1>5. Flags'
  BY <1>1, <1>2, <1>4, FlagsBit
<1>6. MaxDelay \in Nat /\ FifoDepth \in Nat /\ MaxDelay < 8 * FifoDepth
  BY RxAssumption DEF HeldByFifo
<1>7. /\ b \in Nat /\ c \in Nat /\ c <= b + 1
      /\ Len(fifo') \in Nat /\ Len(isr') \in 0 .. 7
      /\ det = "start" => b = 0
      /\ b <= MaxDelay - delay + (IF pc = "pull" /\ ~looked THEN 8 ELSE 7)
  <2>1. b = Backlog /\ b \in Nat
    BY <1>1, BacklogNat DEF Backlog
  <2>2. c \in Nat /\ Len(fifo') \in Nat /\ Len(isr') \in 0 .. 7
    BY <1>1, BacklogNext
  <2>3. c <= b + 1
    BY <1>1, <1>2, DetectFacts
  <2>4. det = "start" => b = 0
    BY <1>1, <1>4, <2>1, BacklogNat DEF Exact, Lockstep
  <2> QED
    BY <2>1, <2>2, <2>3, <2>4 DEF Chased, Behind
<1> HIDE DEF b, c
<1>8. c <= (MaxDelay - delay') + (IF pc' = "pull" /\ ~looked' THEN 8 ELSE 7)
  <2>1. CASE ~looked
    <3>1. b <= MaxDelay - delay + (IF pc = "pull" THEN 8 ELSE 7)
      BY <1>7, <2>1
    <3>2. delay' = delay - 1
      BY <1>2, <2>1
    <3> QED
      BY <1>2, <1>6, <1>7, <3>1, <3>2
  <2>2. CASE looked /\ pc = "sop"
    <3>1. det = "start" /\ delay' = delay
      BY <1>2, <2>2 DEF Chased
    <3> QED
      BY <1>2, <1>6, <1>7, <2>2, <3>1
  <2>3. CASE looked /\ pc = "pull"
    <3>1. b <= MaxDelay - delay + 7 /\ delay' = delay
      BY <1>2, <1>7, <2>3
    <3> QED
      BY <1>2, <1>6, <1>7, <2>3, <3>1
  <2> QED
    BY <1>1, <2>1, <2>2, <2>3 DEF Chased, Types
<1>9. Len(fifo') <= FifoDepth
  <2>1. delay' \in 0 .. MaxDelay
    BY <1>2, <1>6
  <2> DEFINE d == MaxDelay - delay'
             e == IF pc' = "pull" /\ ~looked' THEN 8 ELSE 7
  <2>2. d \in Nat /\ d <= MaxDelay /\ e \in Nat /\ e <= 8 /\ c <= d + e
    BY <1>8, <2>1, BehindNat
  <2> HIDE DEF d, e
  <2>4. c <= MaxDelay + 8
    BY <1>6, <1>7, <2>2
  <2>3. c = 8 * Len(fifo') + Len(isr')
    BY DEF c
  <2> QED
    BY <1>6, <1>7, <2>3, <2>4
<1>10. Exact'
  BY <1>1, <1>2, <1>3, <1>4, <1>9, ExactBit
<1> QED
  BY <1>2, <1>5, <1>8, <1>10, ChasedNext DEF c

(* A receiver that was started in time has nothing waiting.                *)
LEMMA ChasedStart ==
    ASSUME IInv, Types', sent # <<>>, start_receive, UNCHANGED device, sent' = sent, ~late',
           ~looked, delay' \in 0 .. MaxDelay
    PROVE  Chased' /\ Summed'
<1>1. Types /\ Sending /\ pc = "prepared" /\ Waiting
  BY DEF IInv, Receiving, start_receive
<1>2. Exact'
  BY <1>1, StartExact
<1>3. /\ det' = "start" /\ irq_start' = FALSE /\ irq_eop' = FALSE /\ pc' = "armed"
      /\ looked' = looked /\ fifo' = fifo /\ isr' = isr
  BY <1>1 DEF start_receive, Waiting, decoder
<1>4. Flags'
  BY <1>3 DEF Flags
<1> DEFINE c == 8 * Len(fifo') + Len(isr')
           d == MaxDelay - delay'
<1>5. c = 0
  BY <1>1, <1>3, BacklogNat DEF Waiting, Backlog
<1>6. d \in Nat
  BY BehindNat
<1> HIDE DEF c, d
<1>7. c <= d + 7
  BY <1>5, <1>6
<1>8. Chased'
  BY <1>2, <1>3, <1>4, <1>7, ChasedNext DEF c, d
<1>9. Summed'
  BY <1>3 DEF Summed, Before
<1> QED
  BY <1>8, <1>9

LEMMA ChasedDelay ==
    ASSUME delay \in 0 .. MaxDelay, delay' \in {delay, 0}, NEW k \in Nat, NEW b \in Nat,
           b <= Behind + k
    PROVE  b <= (MaxDelay - delay') + k
<1>1. MaxDelay \in Nat /\ b <= MaxDelay - delay + k
  BY RxAssumption DEF Behind
<1>2. CASE delay' = delay
  BY <1>1, <1>2
<1>3. CASE delay' = 0
  BY <1>1, <1>3
<1> QED
  BY <1>2, <1>3

(* A poll, and the start of the wait, touch nothing that waits.            *)
LEMMA ChasedPoll ==
    ASSUME IInv, sent # <<>>, delay \in 0 .. MaxDelay, Chased, receive \/ Polls,
           UNCHANGED device, sent' = sent, late' = late, ~looked,
           delay' \in {delay, 0}, pc' # "done"
    PROVE  Chased'
<1> DEFINE c == 8 * Len(fifo') + Len(isr')
           d == MaxDelay - delay'
<1>1. Types /\ Sending /\ Unstuffed /\ Receiving
  BY DEF IInv
<1>2. Exact /\ Flags
  BY DEF Chased
<1>3. Exact'
  BY <1>1, <1>2, CpuReceiving
<1>4. UNCHANGED pio
  <2>1. Polls => UNCHANGED pio
    BY <1>1, PollFacts
  <2>2. receive => UNCHANGED pio
    BY DEF receive
  <2> QED
    BY <2>1, <2>2
<1>5. /\ det' = det /\ irq_start' = irq_start /\ irq_eop' = irq_eop /\ isr' = isr /\ fifo' = fifo
  BY <1>4 DEF pio, decoder
<1>6. Flags'
  BY <1>2, <1>5 DEF Flags
<1>7. /\ c = Backlog /\ Backlog \in Nat /\ (fifo = <<>> => c <= 7)
      /\ pc = "pull" => Backlog <= Behind + 8
      /\ pc # "pull" => Backlog <= Behind + 7
  BY <1>1, <1>5, BacklogNat DEF Backlog, Chased
<1>8. d \in Nat
  <2>1. delay' \in 0 .. MaxDelay
    BY RxAssumption
  <2> QED
    BY <2>1, BehindNat
<1>9. /\ c \in Nat
      /\ pc = "pull" => c <= d + 8
      /\ pc # "pull" => c <= d + 7
  BY <1>7, ChasedDelay
<1> HIDE DEF c, d
<1>10. ASSUME pc' \in {"sop", "started", "flag", "clock"}, c <= d + 7, pc' # "sop" => ~looked',
              pc' = "sop" /\ looked' => det' = "start"
       PROVE  Chased'
  BY <1>3, <1>6, <1>10, ChasedNext DEF c, d
<1>11. CASE receive
  BY <1>9, <1>10, <1>11 DEF receive
<1>12. CASE wait_sop
  BY <1>9, <1>10, <1>12 DEF wait_sop, Return
<1>13. CASE got_start
  <2>1. CASE irq_start
    <3>1. pc = "started" /\ pc' = "pull" /\ looked' = looked
      BY <1>13, <2>1 DEF got_start
    <3>2. c <= d + 8
      BY <1>8, <1>9, <3>1
    <3> QED
      BY <1>3, <1>6, <3>1, <3>2, ChasedNext DEF c, d
  <2>2. CASE ~irq_start
    <3>1. pc = "started" /\ pc' = "sop"
      BY <1>13, <2>2 DEF got_start
    <3>2. det' = "start"
      BY <1>1, <1>2, <1>5, <2>2 DEF Flags, Types
    <3> QED
      BY <1>9, <1>10, <3>1, <3>2
  <2> QED
    BY <2>1, <2>2
<1>14. CASE empty
  <2>1. pc' = "flag" /\ looked' = looked /\ fifo = <<>>
    BY <1>14 DEF empty
  <2>2. c <= d + 7
    BY <1>7, <1>8, <1>9, <2>1
  <2> QED
    BY <1>10, <2>1, <2>2
<1>15. CASE end_of_packet
  BY <1>9, <1>10, <1>15 DEF end_of_packet, Return
<1>16. CASE drain
  <2>1. pc = "clock" /\ pc' = "pull" /\ looked' = TRUE
    BY <1>16 DEF drain, Return
  <2>2. c <= d + 7
    BY <1>9, <2>1
  <2> QED
    BY <1>3, <1>6, <2>1, <2>2, ChasedNext DEF c, d
<1> QED
  BY <1>11, <1>12, <1>13, <1>14, <1>15, <1>16 DEF Polls

(* A byte taken is one less that waits. *)
LEMMA ChasedTake ==
    ASSUME IInv, Types', sent # <<>>, delay \in 0 .. MaxDelay, Chased, take,
           UNCHANGED device, sent' = sent, ~looked, delay' \in {delay, 0}
    PROVE  Chased'
<1> DEFINE b == 8 * Len(fifo) + Len(isr)
           c == 8 * Len(fifo') + Len(isr')
           d == MaxDelay - delay'
<1>1. Types /\ Kept /\ Sending
  BY DEF IInv
<1>2. /\ pc = "pull" /\ pc' = "pull" /\ looked' = looked
      /\ det' = det /\ irq_start' = irq_start /\ irq_eop' = irq_eop
      /\ Len(Tail(fifo)) = Len(fifo) - 1 /\ Pulled
  BY <1>1, TakeFacts
<1>3. Exact /\ Flags /\ ~trigger
  BY DEF Chased, Exact
<1>4. Exact' /\ Flags'
  BY <1>1, <1>2, <1>3, TakeExact DEF Flags
<1>5. fifo' = Tail(fifo) /\ isr' = isr
  BY <1>2, <1>3 DEF Pulled
<1>6. b = Backlog /\ b \in Nat /\ c <= b /\ c \in Nat
  <2>1. Len(fifo) \in Nat /\ Len(isr) \in 0 .. 7 /\ b \in Nat /\ c \in Nat
    BY <1>1, BacklogNat, BacklogNext DEF Backlog
  <2>2. Len(fifo') = Len(fifo) - 1 /\ Len(isr') = Len(isr)
    BY <1>2, <1>5
  <2> QED
    BY <2>1, <2>2 DEF Backlog
<1>7. b <= d + 8 /\ d \in Nat
  <2>1. Backlog <= Behind + 8
    BY <1>2 DEF Chased
  <2>2. delay' \in 0 .. MaxDelay
    BY RxAssumption
  <2>3. d \in Nat
    BY <2>2, BehindNat
  <2>4. b <= d + 8
    BY <1>6, <2>1, ChasedDelay
  <2> QED
    BY <2>3, <2>4
<1> HIDE DEF b, c, d
<1>8. c <= d + 8
  BY <1>6, <1>7
<1> QED
  BY <1>2, <1>4, <1>8, ChasedNext DEF c, d

(* What is found valid at the end of a packet. *)
LEMMA AckedEnd ==
    ASSUME IInv, sent # <<>>, Chased, Summed, Polls, UNCHANGED device, sent' = sent,
           pc' = "done", status' = "ValidData"
    PROVE  AckedPart'
<1>1. Types /\ Kept
  BY DEF IInv
<1>2. end_of_packet /\ out' = out /\ pc = "flag" /\ ~overflowed /\ Valid
  BY <1>1, PollFacts DEF Polls, wait_sop, got_start, empty, end_of_packet, drain, Return
<1>3. Room \in Nat \ {0} /\ idx \in Nat /\ Len(sent) \in Nat /\ Len(out) \in Nat
  BY <1>1, RxAssumption, SentFacts DEF Types, Counted
<1>4. Len(out) = idx /\ idx >= 4
  BY <1>1, <1>2, <1>3 DEF Kept, Valid, AtMost
<1>5. Taken = idx /\ Got = out
  BY <1>2 DEF Taken, Got, Before
<1>6. \A i \in 1 .. Len(out) : out[i] = sent[i]
  BY <1>5 DEF Chased, Exact, Queue
<1>7. idx <= Len(sent)
  <2>1. Len(rest) \in Nat /\ Len(fifo) \in Nat /\ Len(rest) <= Len(sent) /\ Counted \in Nat
    BY <1>1, BacklogNat, TakenNat DEF Types, IInv, Sending
  <2>2. Begins \in Int /\ Begins <= Len(sent)
    BY <1>3, <2>1 DEF Begins
  <2>3. Decoded \in Int /\ Decoded <= Len(sent)
    BY <1>3, <2>2 DEF Decoded
  <2>4. idx = AtMost(Decoded - Len(fifo), Counted)
    BY <1>5 DEF Chased, Exact, Queue
  <2>5. idx <= Decoded - Len(fifo)
    BY <2>1, <2>3, <2>4 DEF AtMost
  <2> QED
    BY <1>3, <2>1, <2>3, <2>5
<1>8. sent[2] \in DataPids
  <2>1. 2 \in 1 .. Len(out)
    BY <1>3, <1>4
  <2> QED
    BY <1>2, <1>6, <2>1 DEF Valid, DataPids
<1>9. Sums[sent][Len(out)] = USB_CRC16_RESIDUE
  BY <1>2, <1>3, <1>4, <1>8 DEF Valid, Summed, Before
<1> QED
  BY <1>2, <1>3, <1>4, <1>6, <1>7, <1>8, <1>9 DEF AckedPart

(* Every step keeps what is known of an answer.                            *)
LEMMA AnswerNext ==
    ASSUME HeldByFifo, IInv, IInv', delay \in 0 .. MaxDelay, delay' \in 0 .. MaxDelay,
           Answer, Next
    PROVE  Answer'
<1> SUFFICES ASSUME sent' # <<>>, ~late'
             PROVE  /\ pc' \notin {"prepared", "done"} => Chased' /\ Summed'
                    /\ pc' = "done" /\ status' = "ValidData" => AckedPart'
  BY DEF Answer
<1>1. CASE prepare_for_receive
  BY <1>1 DEF prepare_for_receive
<1>2. CASE Bit
  <2>1. /\ sent' = sent /\ late' = late /\ pc' = pc
        /\ out' = out /\ idx' = idx /\ crc' = crc /\ status' = status
    BY <1>2 DEF Bit, host
  <2>2. CASE pc \notin {"prepared", "done"}
    <3>1. Chased /\ Summed
      BY <2>1, <2>2 DEF Answer
    <3>2. Chased'
      BY <1>2, <2>1, <2>2, <3>1, ChasedBit
    <3>3. Summed'
      BY <2>1, <3>1 DEF Summed, Before
    <3> QED
      BY <2>1, <2>2, <3>2, <3>3
  <2>3. CASE pc = "done" /\ status = "ValidData"
    <3>1. AckedPart
      BY <2>1, <2>3 DEF Answer
    <3>2. AckedPart'
      BY <2>1, <3>1 DEF AckedPart
    <3> QED
      BY <2>1, <2>3, <3>2
  <2> QED
    BY <2>1, <2>2, <2>3
<1>3. CASE Cpu
  <2>1. /\ UNCHANGED device /\ sent' = sent /\ ~looked /\ delay' \in {delay, 0} /\ Types'
    BY <1>3 DEF Cpu, IInv
  <2>2. CASE start_receive
    <3>1. Chased' /\ Summed' /\ pc' = "armed"
      BY <2>1, <2>2, ChasedStart DEF start_receive
    <3> QED
      BY <3>1
  <2>3. CASE receive /\ late' = late
    <3>1. pc = "armed" /\ pc' = "sop" /\ idx' = 0 /\ crc' = 65535
      BY <2>3 DEF receive
    <3>2. Chased'
      BY <2>1, <2>3, <3>1, ChasedPoll DEF Answer
    <3>3. Summed'
      BY <3>1 DEF Summed
    <3> QED
      BY <3>1, <3>2, <3>3
  <2>4. CASE take /\ late' = late
    <3>1. pc = "pull" /\ pc' = "pull"
      BY <2>4 DEF take
    <3>2. Chased /\ Summed /\ Exact
      BY <2>1, <2>4, <3>1 DEF Answer, Chased
    <3>3. Chased' /\ Summed'
      BY <2>1, <2>4, <3>2, ChasedTake, SummedTake
    <3> QED
      BY <3>1, <3>3
  <2>5. CASE Polls /\ late' = late
    <3>1. idx' = idx /\ crc' = crc /\ pc \in {"sop", "started", "pull", "flag", "clock"}
          /\ pc' \in {"sop", "started", "pull", "flag", "clock", "done"}
      BY <2>5, PollFacts DEF IInv
    <3>2. Chased /\ Summed
      BY <2>1, <2>5, <3>1 DEF Answer
    <3>3. pc' # "done" => Chased'
      BY <2>1, <2>5, <3>2, ChasedPoll
    <3>4. Summed'
      BY <2>1, <3>1, <3>2 DEF Summed, Before
    <3>5. pc' = "done" /\ status' = "ValidData" => AckedPart'
      BY <2>1, <2>5, <3>2, AckedEnd
    <3> QED
      BY <3>3, <3>4, <3>5
  <2> QED
    BY <1>3, <2>2, <2>3, <2>4, <2>5 DEF Cpu, Polls
<1> QED
  BY <1>1, <1>2, <1>3 DEF Next

(* A silent device has no start.                                           *)
LEMMA QuietNext ==
    ASSUME ~Malformed, Types, Quiet, Next
    PROVE  Quiet'
<1> SUFFICES ASSUME sent' = <<>>
             PROVE  /\ line' = "J" /\ rest' = <<>> /\ byte' = <<>> /\ ones' = 0 /\ end' = 0
                    /\ det' # "run" /\ ~irq_start'
                    /\ pc' \in {"prepared", "armed", "sop", "started", "done"}
                    /\ ~Before' => status' # "ValidData"
  BY DEF Quiet
<1>1. CASE prepare_for_receive
  <2>1. PICK t \in Transmissions :
          sent' = t.packet /\ gap' = t.gap /\ rest' = t.rest /\ end' = t.end
    BY <1>1 DEF prepare_for_receive
  <2>2. t.rest = <<>> /\ t.end = 0
    <3>1. ASSUME NEW p \in Packets, NEW g \in Gaps,
                 t = [packet |-> p, gap |-> g, rest |-> Octets(p), end |-> 2]
          PROVE  FALSE
      <4>1. p = <<>>
        BY <2>1, <3>1
      <4>2. Len(p) >= 2
        BY PacketsAssumption
      <4> QED
        BY <4>1, <4>2
    <3>2. t = [packet |-> <<>>, gap |-> 0, rest |-> <<>>, end |-> 0]
      BY <3>1 DEF Transmissions
    <3> QED
      BY <3>2
  <2>3. /\ line' = "J" /\ byte' = <<>> /\ ones' = 0 /\ det' = "eop" /\ irq_start' = FALSE
        /\ pc' = "prepared"
    BY <1>1 DEF prepare_for_receive
  <2> QED
    BY <2>1, <2>2, <2>3 DEF Before
<1>2. CASE Bit
  <2>1. /\ sent = <<>> /\ pc' = pc /\ status' = status /\ DeviceSends /\ Detect(line')
    BY <1>2 DEF Bit, host
  <2>2. /\ line = "J" /\ rest = <<>> /\ byte = <<>> /\ ones = 0 /\ end = 0
        /\ det # "run" /\ ~irq_start
        /\ pc \in {"prepared", "armed", "sop", "started", "done"}
        /\ ~Before => status # "ValidData"
    BY <2>1 DEF Quiet
  <2>3. Coming = <<>>
    BY <2>2 DEF Coming
  <2>4. line' = "J" /\ rest' = <<>> /\ byte' = <<>> /\ ones' = 0 /\ end' = 0
    BY <2>1, <2>2, <2>3 DEF DeviceSends
  <2>5. det' = det /\ irq_start' = irq_start
    BY <2>1, <2>2, <2>4 DEF Detect, pio
  <2> QED
    BY <2>1, <2>2, <2>4, <2>5 DEF Before
<1>3. CASE Cpu
  <2>1. sent = <<>> /\ UNCHANGED device
    BY <1>3 DEF Cpu
  <2>2. /\ line = "J" /\ rest = <<>> /\ byte = <<>> /\ ones = 0 /\ end = 0
        /\ det # "run" /\ ~irq_start
        /\ pc \in {"prepared", "armed", "sop", "started", "done"}
        /\ ~Before => status # "ValidData"
    BY <2>1 DEF Quiet
  <2>3. line' = "J" /\ rest' = <<>> /\ byte' = <<>> /\ ones' = 0 /\ end' = 0
    BY <2>1, <2>2 DEF device
  <2>4. CASE start_receive
    <3>1. det' # "run" /\ irq_start' = FALSE /\ pc' = "armed"
      BY <2>2, <2>4 DEF start_receive
    <3> QED
      BY <2>3, <3>1 DEF Before
  <2>5. CASE receive
    <3>1. det' = det /\ irq_start' = irq_start /\ pc' = "sop" /\ status' = "none"
      BY <2>5 DEF receive, pio
    <3> QED
      BY <2>2, <2>3, <3>1
  <2>6. CASE wait_sop \/ got_start
    <3>1. /\ det' = det /\ irq_start' = irq_start /\ pc' \in {"started", "sop", "done"}
          /\ status' \in {status, "NoReply"} /\ ~Before
      BY <2>2, <2>6 DEF wait_sop, got_start, Return, pio, host, Before
    <3> QED
      BY <2>2, <2>3, <3>1
  <2>7. CASE take \/ empty \/ end_of_packet \/ drain
    BY <2>2, <2>7 DEF take, empty, end_of_packet, drain
  <2> QED
    BY <1>3, <2>4, <2>5, <2>6, <2>7 DEF Cpu
<1> QED
  BY <1>1, <1>2, <1>3 DEF Next

THEOREM AnswersHeld ==
    ASSUME HeldByFifo
    PROVE  Spec => []AInv
<1>1. Init => AInv
  <2> SUFFICES ASSUME Init
               PROVE  AInv
    OBVIOUS
  <2>1. delay \in 0 .. MaxDelay
    BY RxAssumption DEF Init
  <2> QED
    BY <2>1 DEF Init, AInv, Answer, Quiet
<1>2. IInv /\ IInv' /\ AInv /\ [Next]_vars => AInv'
  <2> SUFFICES ASSUME IInv, IInv', AInv, [Next]_vars
               PROVE  AInv'
    OBVIOUS
  <2>1. CASE UNCHANGED vars
    <3>1. /\ UNCHANGED <<device, pio, host>> /\ pc' = pc /\ waited' = waited /\ sent' = sent
          /\ late' = late /\ looked' = looked /\ delay' = delay
      BY <2>1 DEF vars
    <3>2. /\ gap' = gap /\ rest' = rest /\ byte' = byte /\ ones' = ones /\ end' = end /\ line' = line
          /\ det' = det /\ irq_start' = irq_start /\ irq_eop' = irq_eop /\ trigger' = trigger
          /\ dec_x' = dec_x /\ dec_y' = dec_y /\ isr' = isr /\ fifo' = fifo
          /\ out' = out /\ idx' = idx /\ crc' = crc /\ status' = status
      BY <3>1 DEF device, pio, decoder, host
    <3>3. Begins' = Begins /\ Before' = Before /\ Taken' = Taken /\ Got' = Got
          /\ Decoded' = Decoded /\ Counted' = Counted
      BY <3>1, <3>2 DEF Begins, Before, Taken, Got, Decoded, Counted
    <3>4. Exact' = Exact /\ Flags' = Flags /\ Summed' = Summed /\ AckedPart' = AckedPart
      BY <3>1, <3>2, <3>3 DEF Exact, Lockstep, Queue, Fresh, Flags, Summed, AckedPart
    <3>5. Chased' = Chased
      BY <3>1, <3>2, <3>4 DEF Chased, Backlog, Behind
    <3>6. Answer' = Answer /\ Quiet' = Quiet
      BY <3>1, <3>2, <3>3, <3>4, <3>5 DEF Answer, Quiet
    <3> QED
      BY <3>1, <3>6 DEF AInv
  <2>2. CASE Next
    <3>1. delay' \in 0 .. MaxDelay
      <4>1. delay \in 0 .. MaxDelay /\ MaxDelay \in Nat
        BY RxAssumption DEF AInv
      <4>2. delay' \in {delay, 0} \/ (delay > 0 /\ delay' = delay - 1)
        BY <2>2 DEF Next, Bit, prepare_for_receive, Cpu
      <4> QED
        BY <4>1, <4>2
    <3>2. Answer'
      BY <2>2, <3>1, AnswerNext DEF AInv
    <3>3. ~Malformed => Quiet'
      BY <2>2, QuietNext DEF AInv, IInv
    <3> QED
      BY <3>1, <3>2, <3>3 DEF AInv
  <2> QED
    BY <2>1, <2>2
<1> QED
  BY <1>1, <1>2, Inductive, PTL DEF Spec

(* An interruption the FIFO can hold, wherever it falls, does not make the *)
(* host acknowledge anything but what the device has sent, to where the    *)
(* CRC was right: the byte on its way when the flag was read may be missed.*)
THEOREM AcksWhatWasSent ==
    ASSUME HeldByFifo
    PROVE  Spec => [](pc = "done" /\ status = "ValidData" /\ sent # <<>> /\ ~late => AckedPart)
<1>1. AInv => (pc = "done" /\ status = "ValidData" /\ sent # <<>> /\ ~late => AckedPart)
  BY DEF AInv, Answer
<1> QED
  BY <1>1, AnswersHeld, PTL

(* No packet has the CRC of its end before its end.                        *)
NoFalseEnd ==
    \A p \in Packets : p[2] \in DataPids =>
        \A n \in 4 .. Len(p) - 1 : Sums[p][n] # USB_CRC16_RESIDUE

(* AckedExact, of a receiver started in time, an interruption the FIFO can *)
(* hold and packets in which no shorter one is hidden: what is             *)
(* acknowledged is the packet.                                             *)
THEOREM AcksAreExact ==
    ASSUME HeldByFifo, ~Malformed, NoFalseEnd
    PROVE  Spec => [](~late => AckedExact)
<1>1. IInv /\ AInv => (~late => AckedExact)
  <2> SUFFICES ASSUME IInv, AInv, ~late, pc = "done", status = "ValidData"
               PROVE  out = sent
    BY DEF AckedExact
  <2>1. sent # <<>>
    BY DEF AInv, Quiet, Before
  <2>2. AckedPart
    BY <2>1 DEF AInv, Answer
  <2>3. /\ sent \in Packets /\ sent \in Seq(0 .. 255) /\ Len(sent) \in Nat
        /\ out \in Seq(Nat) /\ Len(out) \in Nat
    BY <2>1, SentFacts DEF IInv, Types
  <2>4. \A n \in 4 .. Len(sent) - 1 : Sums[sent][n] # USB_CRC16_RESIDUE
    BY <2>2, <2>3 DEF NoFalseEnd, AckedPart
  <2>5. Len(out) = Len(sent)
    <3>1. Len(out) \notin 4 .. Len(sent) - 1
      BY <2>2, <2>4 DEF AckedPart
    <3> QED
      BY <2>2, <2>3, <3>1 DEF AckedPart
  <2> QED
    BY <2>2, <2>3, <2>5 DEF AckedPart
<1> QED
  BY <1>1, AnswersHeld, Inductive, PTL

-----------------------------------------------------------------------------

(* The safety of Ends: how much longer a reception may take.  Its bit      *)
(* times are those of an interruption, of the wait for a start and of the  *)
(* packet, each of whose bits may bring a stuffed one; its steps, between  *)
(* two bit times, those of one turn of a loop and of the bytes that wait.  *)
AtLeast(n, m) == IF n < m THEN m ELSE n

OnWire == gap + 2 * BitsLeft + (IF ones = 6 THEN 1 ELSE 0) + end

Remaining == IF waited < SopBits THEN SopBits - waited ELSE 0

Window ==
    CASE Before -> SopBits
      [] pc = "sop" /\ ~looked -> Remaining
      [] pc = "started" \/ (pc = "sop" /\ looked) -> AtLeast(Remaining, 1)
      [] OTHER -> 0

Packet ==
    CASE pc = "done" -> 0
      [] pc = "clock" \/ (pc = "pull" /\ looked) -> AtLeast(OnWire, 1)
      [] OTHER -> OnWire

Fuel == delay + Window + Packet

Place ==
    CASE pc = "prepared" -> 7 [] pc = "armed" -> 6 [] pc = "sop" -> 5 [] pc = "started" -> 4
      [] pc = "pull" -> 3 [] pc = "flag" -> 2 [] pc = "clock" -> 1 [] OTHER -> 0

Rank == IF looked THEN 0 ELSE Place + Len(fifo) + (IF trigger THEN 2 ELSE 0)

Spends ==
    /\ Bit /\ pc # "done" => Fuel' < Fuel
    /\ Cpu => Fuel' <= Fuel /\ Rank' < Rank

(* A detector that runs has an end of packet to come.                      *)
EInv ==
    /\ delay \in Nat
    /\ pc \in {"prepared", "armed", "started", "flag", "clock"} => ~looked
    /\ pc = "prepared" => det = "eop"
    /\ pc \notin {"prepared", "done"} => Flags
    /\ pc \in {"pull", "flag", "clock"} => det # "start"
    /\ det = "run" => end = 2
    /\ Quiet

LEMMA OnWireNat ==
    ASSUME Types
    PROVE  /\ Len(rest) \in Nat /\ Len(byte) \in Nat /\ gap \in Nat /\ end \in 0 .. 2 /\ OnWire \in Nat
           /\ end = 2 => OnWire >= 2
           /\ Len(fifo) \in Nat /\ waited \in Nat /\ SopBits \in Nat /\ DrainBits \in Nat
           /\ Remaining \in Nat
<1>1. /\ Len(rest) \in Nat /\ Len(byte) \in Nat /\ gap \in Nat /\ end \in 0 .. 2
      /\ Len(fifo) \in Nat /\ waited \in Nat
  BY DEF Types
<1>2. SopBits \in Nat /\ DrainBits \in Nat
  BY RxAssumption
<1> DEFINE n == Len(rest)
           m == Len(byte)
<1>3. OnWire = gap + 2 * (8 * n + m) + (IF ones = 6 THEN 1 ELSE 0) + end
  BY DEF OnWire, BitsLeft
<1>4. n \in Nat /\ m \in Nat
  BY <1>1
<1> HIDE DEF n, m
<1>5. OnWire \in Nat /\ (end = 2 => OnWire >= 2)
  BY <1>1, <1>3, <1>4
<1> QED
  BY <1>1, <1>2, <1>5 DEF Remaining

(* Every bit time takes one of what is on its way.                         *)
LEMMA OnWireBit ==
    ASSUME IInv, Quiet, DeviceSends, sent' = sent
    PROVE  OnWire' \in Nat /\ OnWire' <= OnWire /\ (OnWire >= 1 => OnWire' < OnWire)
<1>1. /\ Len(rest) \in Nat /\ Len(byte) \in Nat /\ gap \in Nat /\ end \in 0 .. 2 /\ ones \in 0 .. 6
      /\ rest \in Seq(Seq({0, 1})) /\ byte \in Seq({0, 1})
  BY OnWireNat DEF IInv, Types
<1> DEFINE n == Len(rest)
           m == Len(byte)
           nn == Len(rest')
           mm == Len(byte')
<1>2. /\ OnWire = gap + 2 * (8 * n + m) + (IF ones = 6 THEN 1 ELSE 0) + end
      /\ OnWire' = gap' + 2 * (8 * nn + mm) + (IF ones' = 6 THEN 1 ELSE 0) + end'
  BY DEF OnWire, BitsLeft
<1>3. n \in Nat /\ m \in Nat /\ (byte = <<>> => m = 0)
  BY <1>1
<1>4. CASE gap > 0 /\ gap' = gap - 1 /\ UNCHANGED <<rest, byte, ones, end>>
  <2>1. nn = n /\ mm = m /\ ones' = ones /\ end' = end /\ gap' = gap - 1
    BY <1>4
  <2> HIDE DEF n, m, nn, mm
  <2> QED
    BY <1>1, <1>2, <1>3, <1>4, <2>1
<1>5. CASE ones = 6 /\ ones' = 0 /\ UNCHANGED <<gap, rest, byte, end>>
  <2>1. nn = n /\ mm = m /\ gap' = gap /\ end' = end
    BY <1>5
  <2> HIDE DEF n, m, nn, mm
  <2> QED
    BY <1>1, <1>2, <1>3, <1>5, <2>1
<1>6. CASE sent # <<>> /\ SendsBit
  <2>1. /\ nn = IF byte = <<>> THEN n - 1 ELSE n
        /\ mm = IF byte = <<>> THEN 7 ELSE m - 1
        /\ gap = 0 /\ gap' = 0 /\ end' = end /\ ones # 6 /\ nn \in Nat /\ mm \in Nat
    <3>1. Len(sent) \in Nat
      BY <1>6, SentFacts DEF IInv, Types
    <3>2. rest' \in Seq(Seq({0, 1})) /\ byte' \in Seq({0, 1})
      BY DeviceTypesBit DEF IInv, DeviceTypes
    <3>3. nn \in Nat /\ mm \in Nat
      BY <3>2
    <3>4. Len(sent) - nn = IF byte = <<>> THEN Len(sent) - n + 1 ELSE Len(sent) - n
      BY <1>6 DEF SendsBit, Begins
    <3>5. nn = IF byte = <<>> THEN n - 1 ELSE n
      <4> HIDE DEF n, nn
      <4> QED
        BY <1>3, <3>1, <3>3, <3>4
    <3> QED
      BY <1>6, <3>3, <3>5 DEF SendsBit
  <2> HIDE DEF n, m, nn, mm
  <2> QED
    BY <1>1, <1>2, <1>3, <2>1
<1>7. CASE /\ gap = 0 /\ Coming = <<>> /\ ones # 6 /\ UNCHANGED <<gap, rest, byte, ones>>
           /\ end' = (IF end > 0 THEN end - 1 ELSE 0)
  <2>1. nn = n /\ mm = m /\ gap' = gap /\ ones' = ones /\ n = 0 /\ m = 0
    <3>1. n = 0 /\ m = 0
      <4>1. byte = <<>>
        BY <1>7 DEF Coming
      <4>2. rest = <<>> \/ Head(rest) = <<>>
        BY <1>7, <4>1 DEF Coming
      <4>3. rest = <<>>
        <5>1. CASE sent = <<>>
          BY <5>1 DEF Quiet
        <5>2. CASE sent # <<>> /\ rest # <<>>
          <6>1. /\ Len(rest) >= 1 /\ Head(rest) = rest[1]
            BY <1>1, <5>2, EmptyFacts, TailFacts
          <6>2. Head(rest) = Octet(sent[Begins + 1]) /\ Begins + 1 \in 1 .. Len(sent)
            <7>1. Len(sent) \in Nat /\ Len(rest) <= Len(sent)
              BY <5>2, SentFacts DEF IInv, Types, Sending
            <7>2. rest[1] = Octet(sent[Begins + 1])
              BY <1>1, <5>2, <6>1 DEF IInv, Sending
            <7>3. Begins + 1 \in 1 .. Len(sent)
              BY <1>1, <6>1, <7>1 DEF Begins
            <7> QED
              BY <6>1, <7>2, <7>3
          <6>3. sent[Begins + 1] \in 0 .. 255
            BY <5>2, <6>2, SentFacts, ElementFacts DEF IInv, Types
          <6>4. /\ Octet(sent[Begins + 1]) \in Seq({0, 1})
                /\ Len(Octet(sent[Begins + 1])) = 8
            BY <6>3, OctetFacts
          <6>5. Octet(sent[Begins + 1]) # <<>>
            <7> DEFINE o == Octet(sent[Begins + 1])
            <7>1. o \in Seq({0, 1}) /\ Len(o) = 8
              BY <6>4
            <7> HIDE DEF o
            <7>2. o = <<>> => Len(o) = 0
              BY <7>1, EmptyFacts
            <7>3. o # <<>>
              BY <7>1, <7>2
            <7> QED
              BY <7>3 DEF o
          <6> QED
            BY <4>2, <6>2, <6>5
        <5> QED
          BY <5>1, <5>2
      <4> QED
        BY <4>1, <4>3
    <3> QED
      BY <1>7, <3>1
  <2> HIDE DEF n, m, nn, mm
  <2> QED
    BY <1>1, <1>2, <1>7, <2>1
<1>8. CASE sent # <<>>
  <2>1. Waits \/ Stuffs \/ SendsBit \/ Ceases
    BY <1>8, SendingBit DEF IInv
  <2>2. CASE gap = 0 /\ ones # 6 /\ Coming # <<>>
    <3>1. ~Waits /\ ~Stuffs /\ ~Ceases
      BY <2>2 DEF Waits, Stuffs, Ceases, Coming
    <3> QED
      BY <1>6, <1>8, <2>1, <3>1
  <2> QED
    BY <1>4, <1>5, <1>7, <2>2 DEF DeviceSends
<1>9. CASE sent = <<>>
  <2>1. rest = <<>> /\ byte = <<>> /\ ones = 0
    BY <1>9 DEF Quiet
  <2>2. Coming = <<>>
    BY <2>1 DEF Coming
  <2> QED
    BY <1>4, <1>7, <2>1, <2>2 DEF DeviceSends
<1> QED
  BY <1>8, <1>9

(* Neither runs below nothing.                                             *)
LEMMA FuelNat ==
    ASSUME Types, delay \in Nat
    PROVE  /\ Remaining \in Nat /\ OnWire \in Nat
           /\ Window \in Nat /\ Packet \in Nat /\ Fuel \in Nat /\ Rank \in Nat
<1>1. Remaining \in Nat /\ OnWire \in Nat /\ SopBits \in Nat /\ Len(fifo) \in Nat
  BY OnWireNat
<1>2. AtLeast(Remaining, 1) \in Nat /\ AtLeast(OnWire, 1) \in Nat
  BY <1>1 DEF AtLeast
<1>3. Window \in Nat
  BY <1>1, <1>2 DEF Window
<1>4. Packet \in Nat
  BY <1>1, <1>2 DEF Packet
<1>5. Place \in Nat
  BY DEF Place
<1>6. Fuel \in Nat
  BY <1>3, <1>4 DEF Fuel
<1>7. Rank \in Nat
  BY <1>1, <1>5 DEF Rank
<1> QED
  BY <1>1, <1>3, <1>4, <1>6, <1>7

(* A start is the device's, and an end of packet comes before the idle     *)
(* line.                                                                   *)
LEMMA EndToCome ==
    ASSUME IInv, Quiet, Quiet', det = "run" => end = 2, DeviceSends, Detect(line'),
           sent' = sent, det' = "run"
    PROVE  end' = 2
<1>1. sent # <<>>
  BY DEF Quiet
<1>2. Waits \/ Stuffs \/ SendsBit \/ Ceases
  BY <1>1, SendingBit DEF IInv
<1>3. (det = "start" /\ line' = "K") \/ (det = "run" /\ line' # "SE0")
  BY DEF Detect, IsEop, pio
<1>4. Begins = 0 => line # "K"
  BY <1>1 DEF IInv, Sending
<1>5. ~Ceases
  BY <1>3 DEF Ceases
<1>6. CASE Waits
  BY <1>3, <1>4, <1>6 DEF Waits
<1>7. CASE Stuffs \/ SendsBit
  BY <1>7 DEF Stuffs, SendsBit
<1> QED
  BY <1>2, <1>5, <1>6, <1>7

(* A bit time is one of an interruption, of the wait or of the packet.     *)
LEMMA BitSpends ==
    ASSUME ~Malformed, IInv, EInv, Bit, pc # "done"
    PROVE  EInv' /\ Fuel' < Fuel
<1>0. Types /\ DeviceSends /\ Detect(line') /\ sent' = sent /\ pc' = pc
  BY DEF Bit, IInv
<1>1. /\ looked \in BOOLEAN /\ delay \in Nat /\ (looked \/ delay > 0)
      /\ waited' = AtMost(waited + 1, SopBits + DrainBits)
      /\ looked' = FALSE /\ delay' = (IF looked THEN delay ELSE delay - 1) /\ pc' = pc
      /\ pc \in {"prepared", "armed", "sop", "started", "pull", "flag", "clock"}
  BY DEF Bit, IInv, Types, EInv
<1>2. Quiet'
  BY QuietNext DEF EInv, IInv, Next
<1>3. det' = "run" => end' = 2
  BY <1>0, <1>2, EndToCome DEF EInv
<1>4. pc = "prepared" => det' = "eop"
  BY <1>0 DEF EInv, Detect, pio
<1>5. pc # "prepared" => Flags'
  <2>1. pc # "prepared" => Flags
    BY <1>1 DEF EInv
  <2> QED
    BY <1>0, <2>1, FlagsBit
<1>6. pc \in {"pull", "flag", "clock"} => det' # "start"
  BY <1>0 DEF EInv, Detect, pio, Types
<1>7. delay' \in Nat
  BY <1>1
<1>8. EInv'
  BY <1>1, <1>2, <1>3, <1>4, <1>5, <1>6, <1>7 DEF EInv
<1>9. OnWire \in Nat /\ OnWire' \in Nat /\ OnWire' <= OnWire /\ (OnWire >= 1 => OnWire' < OnWire)
  <2>1. Quiet
    BY DEF EInv
  <2>2. OnWire' \in Nat /\ OnWire' <= OnWire /\ (OnWire >= 1 => OnWire' < OnWire)
    BY <1>0, <2>1, OnWireBit
  <2> QED
    BY <1>0, <2>2, OnWireNat
<1>10. /\ Remaining \in Nat /\ Remaining' \in Nat /\ Remaining' <= Remaining
       /\ Remaining >= 1 => Remaining' < Remaining
  <2>1. waited \in Nat /\ SopBits \in Nat /\ DrainBits \in Nat
    BY <1>0, OnWireNat
  <2> QED
    BY <1>1, <2>1 DEF Remaining, AtMost
<1>11. Before' = Before /\ SopBits \in Nat
  BY <1>0, OnWireNat DEF Before
<1> DEFINE w == OnWire
           ww == OnWire'
           r == Remaining
           rr == Remaining'
<1>12. Window' = (CASE Before -> SopBits
                    [] pc = "sop" -> rr
                    [] pc = "started" -> AtLeast(rr, 1)
                    [] OTHER -> 0)
  BY <1>1, <1>11 DEF Window, Before, AtLeast
<1>13. Packet' = (IF pc = "clock" THEN AtLeast(ww, 1) ELSE ww)
  BY <1>1 DEF Packet, AtLeast
<1>14. Fuel = delay + Window + Packet /\ Fuel' = delay' + Window' + Packet'
  BY DEF Fuel
<1> DEFINE W == Window'
           P == Packet'
<1> HIDE DEF w, ww, r, rr, W, P
<1>15. CASE looked /\ pc = "sop"
  <2>1. Window = AtLeast(r, 1) /\ Packet = w /\ W = rr /\ P = ww
    BY <1>12, <1>13, <1>15 DEF Window, Packet, Before, w, ww, r, rr, W, P
  <2>2. Fuel = delay + AtLeast(r, 1) + w /\ Fuel' = delay + rr + ww
    BY <1>1, <1>14, <1>15, <2>1 DEF W, P
  <2> QED
    <3>1. /\ w \in Nat /\ ww \in Nat /\ ww <= w /\ r \in Nat /\ rr \in Nat
          /\ rr <= r /\ (r >= 1 => rr < r)
      BY <1>9, <1>10 DEF w, ww, r, rr
    <3> DEFINE F == Fuel'
    <3>2. F = delay + rr + ww
      BY <2>2
    <3> HIDE DEF F
    <3>3. F < Fuel
      BY <1>1, <2>2, <3>1, <3>2 DEF AtLeast
    <3> QED
      BY <1>8, <3>3 DEF F
<1>16. CASE looked /\ pc = "pull"
  <2>1. Window = 0 /\ Packet = AtLeast(w, 1) /\ W = 0 /\ P = ww
    BY <1>12, <1>13, <1>16 DEF Window, Packet, Before, w, ww, r, rr, W, P
  <2>2. Fuel = delay + AtLeast(w, 1) /\ Fuel' = delay + ww
    BY <1>1, <1>9, <1>14, <1>16, <2>1 DEF W, P, AtLeast, w, ww
  <2> QED
    <3>1. w \in Nat /\ ww \in Nat /\ ww <= w /\ (w >= 1 => ww < w)
      BY <1>9 DEF w, ww
    <3> DEFINE F == Fuel'
    <3>2. F = delay + ww
      BY <2>2
    <3> HIDE DEF F
    <3>3. F < Fuel
      BY <1>1, <2>2, <3>1, <3>2 DEF AtLeast
    <3> QED
      BY <1>8, <3>3 DEF F
<1>17. CASE ~looked
  <2>1. /\ Window = (CASE Before -> SopBits
                       [] pc = "sop" -> r
                       [] pc = "started" -> AtLeast(r, 1)
                       [] OTHER -> 0)
        /\ Packet = (IF pc = "clock" THEN AtLeast(w, 1) ELSE w)
    BY <1>1, <1>17 DEF Window, Packet, Before, w, r
  <2>2. W \in Nat /\ Window \in Nat /\ W <= Window
    BY <1>1, <1>10, <1>11, <1>12, <2>1 DEF W, r, rr, AtLeast, Before
  <2>3. P \in Nat /\ Packet \in Nat /\ P <= Packet
    BY <1>1, <1>9, <1>13, <2>1 DEF P, w, ww, AtLeast
  <2>4. Fuel' = delay - 1 + W + P
    BY <1>1, <1>14, <1>17 DEF W, P
  <2> QED
    BY <1>1, <1>8, <1>14, <1>17, <2>2, <2>3, <2>4
<1> QED
  BY <1>1, <1>15, <1>16, <1>17 DEF EInv

(* A step takes a byte, or goes on to the next look at the hardware.       *)
LEMMA CpuSpends ==
    ASSUME ~Malformed, IInv, EInv, Cpu
    PROVE  EInv' /\ Fuel' <= Fuel /\ Rank' < Rank
<1>0. /\ 1 \in Nat /\ 2 \in Nat /\ 3 \in Nat /\ 4 \in Nat /\ 5 \in Nat /\ 6 \in Nat /\ 7 \in Nat
      /\ 7 > 6 /\ 6 > 5 /\ 5 > 4 /\ 4 > 3 /\ 3 > 2 /\ 2 > 1
  OBVIOUS
<1>1. /\ Types /\ Kept /\ ~looked /\ UNCHANGED device /\ sent' = sent
      /\ delay \in Nat /\ delay' \in {delay, 0}
  BY DEF Cpu, IInv, EInv
<1>2. /\ OnWire \in Nat /\ OnWire' = OnWire /\ end' = end /\ (end = 2 => OnWire >= 2)
  <2>1. /\ gap' = gap /\ rest' = rest /\ byte' = byte /\ ones' = ones /\ end' = end
    BY <1>1 DEF device
  <2> QED
    BY <1>1, <2>1, OnWireNat DEF OnWire, BitsLeft
<1>3. Quiet'
  BY QuietNext DEF EInv, IInv, Next
<1>4. /\ Window \in Nat /\ Packet \in Nat /\ Fuel = delay + Window + Packet
      /\ Rank = Place + Len(fifo) + (IF trigger THEN 2 ELSE 0) /\ Place \in Nat
      /\ Len(fifo) \in Nat /\ trigger \in BOOLEAN
      /\ SopBits \in Nat /\ waited \in Nat /\ Remaining \in Nat
  BY <1>1, FuelNat, OnWireNat DEF Fuel, Rank, Place, Types
<1>5. Fuel' = delay' + Window' + Packet'
  BY DEF Fuel
<1>6. /\ pc \in {"prepared", "armed", "started", "flag", "clock"} => ~looked
      /\ pc = "prepared" => det = "eop"
      /\ pc \notin {"prepared", "done"} => Flags
      /\ pc \in {"pull", "flag", "clock"} => det # "start"
      /\ det = "run" => end = 2
  BY DEF EInv
<1>7. ASSUME Window' \in Nat, Packet' \in Nat, Window' <= Window, Packet' <= Packet
      PROVE  Fuel' <= Fuel
  <2> DEFINE W == Window'
             P == Packet'
  <2>1. Fuel' = delay' + W + P
    BY <1>5
  <2> HIDE DEF W, P
  <2>2. W \in Nat /\ P \in Nat /\ W <= Window /\ P <= Packet
    BY <1>7 DEF W, P
  <2> DEFINE F == Fuel'
             d == delay'
  <2>3. F = d + W + P /\ d \in Nat /\ d <= delay
    BY <1>1, <2>1
  <2> HIDE DEF F, d
  <2>4. F <= Fuel
    BY <1>1, <1>4, <2>2, <2>3
  <2> QED
    BY <2>4 DEF F
<1>8. ASSUME NEW p \in Nat, NEW q \in Nat, p > q, Place = p, Place' = q,
             ~looked', fifo' = fifo, trigger' = trigger \/ trigger' = FALSE
      PROVE  Rank' < Rank
  <2> DEFINE n == Len(fifo)
             t == IF trigger' THEN 2 ELSE 0
             s == IF trigger THEN 2 ELSE 0
             R == Rank'
  <2>1. R = q + n + t /\ Rank = p + n + s /\ n \in Nat
    BY <1>4, <1>8 DEF Rank
  <2>2. s \in Nat /\ t \in Nat /\ t <= s
    BY <1>4, <1>8
  <2> HIDE DEF n, t, s, R
  <2>3. R < Rank
    BY <1>8, <2>1, <2>2
  <2> QED
    BY <2>3 DEF R
<1>9. ASSUME looked' = TRUE, pc # "done"
      PROVE  Rank' < Rank
  <2>1. Rank' = 0
    BY <1>9 DEF Rank
  <2>2. Place >= 1
    BY <1>1, <1>9 DEF Place, Types
  <2> QED
    BY <1>4, <2>1, <2>2
<1>10. CASE start_receive
  <2>1. /\ pc = "prepared" /\ pc' = "armed" /\ looked' = FALSE /\ fifo' = fifo
        /\ trigger' = FALSE /\ det' = "start" /\ ~irq_start' /\ ~irq_eop'
    BY <1>1, <1>6, <1>10 DEF start_receive, decoder
  <2>2. Window' = Window /\ Packet' = Packet
    BY <1>1, <1>2, <2>1 DEF Window, Packet, Before
  <2>3. Place = 7 /\ Place' = 6
    BY <2>1 DEF Place
  <2>4. EInv'
    BY <1>1, <1>3, <2>1 DEF EInv, Flags
  <2> QED
    <3>1. Fuel' <= Fuel
      BY <1>4, <1>7, <2>2
    <3>2. Rank' < Rank
      BY <1>8, <1>0, <2>1, <2>3
    <3> QED
      BY <2>4, <3>1, <3>2
<1>11. CASE receive
  <2>1. /\ pc = "armed" /\ pc' = "sop" /\ looked' = FALSE /\ fifo' = fifo /\ trigger' = trigger
        /\ det' = det /\ irq_start' = irq_start /\ irq_eop' = irq_eop /\ waited' = 0
    BY <1>1, <1>11 DEF receive, pio, decoder
  <2>2. Remaining' = SopBits
    BY <1>4, <2>1 DEF Remaining
  <2>3. Window' = Window /\ Packet' = Packet
    BY <1>1, <1>2, <2>1, <2>2 DEF Window, Packet, Before
  <2>4. Place = 6 /\ Place' = 5
    BY <2>1 DEF Place
  <2>5. EInv'
    BY <1>1, <1>2, <1>3, <1>6, <2>1 DEF EInv, Flags
  <2> QED
    <3>1. Fuel' <= Fuel
      BY <1>4, <1>7, <2>3
    <3>2. Rank' < Rank
      BY <1>8, <1>0, <2>1, <2>4
    <3> QED
      BY <2>5, <3>1, <3>2
<1>12. CASE Polls
  <2>1. /\ fifo' = fifo /\ trigger' = trigger /\ det' = det /\ irq_start' = irq_start
        /\ irq_eop' = irq_eop /\ pc \in {"sop", "started", "pull", "flag", "clock"}
        /\ pc' \in {"sop", "started", "pull", "flag", "clock", "done"}
    BY <1>1, <1>12, PollFacts DEF pio, decoder
  <2>2. Flags'
    BY <1>6, <2>1 DEF Flags
  <2>3. det' = "run" => end' = 2
    BY <1>2, <1>6, <2>1
  <2>4. CASE pc' = "done" /\ looked' = TRUE
    <3>1. Window' = 0 /\ Packet' = 0
      BY <2>4 DEF Window, Packet, Before
    <3>2. EInv'
      BY <1>1, <1>3, <2>3, <2>4 DEF EInv
    <3> QED
      BY <1>4, <1>7, <1>9, <2>1, <2>4, <3>1, <3>2
  <2>5. CASE pc = "sop" /\ pc' = "started" /\ looked' = looked /\ waited' = waited /\ ~Silent
    <3>1. Remaining >= 1 /\ Remaining' = Remaining
      BY <1>4, <2>5 DEF Remaining, Silent
    <3>2. Window' = Window /\ Packet' = Packet
      BY <1>1, <1>2, <1>4, <2>5, <3>1 DEF Window, Packet, Before, AtLeast
    <3>3. Place = 5 /\ Place' = 4
      BY <2>5 DEF Place
    <3>4. EInv'
      BY <1>1, <1>3, <2>1, <2>2, <2>3, <2>5 DEF EInv
    <3> QED
      <4>1. Fuel' <= Fuel
        BY <1>4, <1>7, <3>2
      <4>2. Rank' < Rank
        BY <1>1, <1>8, <1>0, <2>1, <2>5, <3>3
      <4> QED
        BY <3>4, <4>1, <4>2
  <2>6. CASE pc = "started" /\ pc' = "pull" /\ looked' = looked /\ irq_start
    <3>1. Window' = 0 /\ Packet' = Packet
      BY <1>1, <1>2, <2>6 DEF Window, Packet, Before
    <3>2. Place = 4 /\ Place' = 3
      BY <2>6 DEF Place
    <3>3. det # "start"
      BY <1>6, <2>6 DEF Flags
    <3>4. EInv'
      BY <1>1, <1>3, <2>1, <2>2, <2>3, <2>6, <3>3 DEF EInv
    <3> QED
      <4>1. Fuel' <= Fuel
        BY <1>4, <1>7, <3>1
      <4>2. Rank' < Rank
        BY <1>1, <1>8, <1>0, <2>1, <2>6, <3>2
      <4> QED
        BY <3>4, <4>1, <4>2
  <2>7. CASE pc = "started" /\ pc' = "sop" /\ looked' = TRUE /\ waited' = waited
    <3>1. Remaining' = Remaining
      BY <2>7 DEF Remaining
    <3>2. Window' = Window /\ Packet' = Packet
      BY <1>1, <1>2, <2>7, <3>1 DEF Window, Packet, Before
    <3>3. EInv'
      BY <1>1, <1>3, <2>1, <2>2, <2>3, <2>7 DEF EInv
    <3> QED
      BY <1>4, <1>7, <1>9, <2>1, <2>7, <3>2, <3>3
  <2>8. CASE pc = "pull" /\ pc' = "flag" /\ looked' = looked
    <3>1. Window' = Window /\ Packet' = Packet
      BY <1>1, <1>2, <2>8 DEF Window, Packet, Before
    <3>2. Place = 3 /\ Place' = 2
      BY <2>8 DEF Place
    <3>3. EInv'
      BY <1>1, <1>3, <1>6, <2>1, <2>2, <2>3, <2>8 DEF EInv
    <3> QED
      <4>1. Fuel' <= Fuel
        BY <1>4, <1>7, <3>1
      <4>2. Rank' < Rank
        BY <1>1, <1>8, <1>0, <2>1, <2>8, <3>2
      <4> QED
        BY <3>3, <4>1, <4>2
  <2>9. CASE pc = "flag" /\ pc' = "clock" /\ looked' = looked /\ ~irq_eop
    <3>1. det = "run"
      BY <1>1, <1>6, <2>9 DEF Flags, Types
    <3>2. OnWire >= 2
      BY <1>2, <1>6, <3>1
    <3>3. Window' = Window /\ Packet' = Packet
      BY <1>1, <1>2, <2>9, <3>2 DEF Window, Packet, Before, AtLeast
    <3>4. Place = 2 /\ Place' = 1
      BY <2>9 DEF Place
    <3>5. EInv'
      BY <1>1, <1>3, <1>6, <2>1, <2>2, <2>3, <2>9 DEF EInv
    <3> QED
      <4>1. Fuel' <= Fuel
        BY <1>4, <1>7, <3>3
      <4>2. Rank' < Rank
        BY <1>1, <1>8, <1>0, <2>1, <2>9, <3>4
      <4> QED
        BY <3>5, <4>1, <4>2
  <2>10. CASE pc = "clock" /\ pc' = "pull" /\ looked' = TRUE
    <3>1. Window' = Window /\ Packet' = Packet
      BY <1>1, <1>2, <2>10 DEF Window, Packet, Before
    <3>2. EInv'
      BY <1>1, <1>3, <1>6, <2>1, <2>2, <2>3, <2>10 DEF EInv
    <3> QED
      BY <1>4, <1>7, <1>9, <2>1, <2>10, <3>1, <3>2
  <2>11. CASE wait_sop
    BY <2>4, <2>5, <2>11 DEF wait_sop, Return
  <2>12. CASE got_start
    BY <2>6, <2>7, <2>12 DEF got_start
  <2>13. CASE empty
    BY <2>8, <2>13 DEF empty
  <2>14. CASE end_of_packet
    BY <2>4, <2>9, <2>14 DEF end_of_packet, Return
  <2>15. CASE drain
    BY <2>4, <2>10, <2>15 DEF drain, Return
  <2> QED
    BY <1>12, <2>11, <2>12, <2>13, <2>14, <2>15 DEF Polls
<1>13. CASE take
  <2>1. /\ pc = "pull" /\ pc' = "pull" /\ Pulled /\ det' = det /\ irq_start' = irq_start
        /\ irq_eop' = irq_eop /\ looked' = looked
        /\ Len(fifo) \in Nat \ {0} /\ Tail(fifo) \in Seq(Nat) /\ Len(Tail(fifo)) = Len(fifo) - 1
    BY <1>1, <1>13, TakeFacts
  <2>2. Window' = Window /\ Packet' = Packet
    BY <1>1, <1>2, <2>1 DEF Window, Packet, Before
  <2>3. /\ trigger' = FALSE /\ fifo' \in Seq(Nat) /\ Len(fifo') \in Nat
        /\ Len(fifo') <= Len(fifo) /\ (~trigger => Len(fifo') = Len(fifo) - 1)
    <3>1. /\ trigger' = FALSE /\ fifo' \in Seq(Nat)
          /\ fifo' = Tail(fifo) \/ \E b \in Nat : fifo' = Append(Tail(fifo), b)
      BY <1>1, <2>1, PulledFacts
    <3>2. ~trigger => fifo' = Tail(fifo)
      BY <2>1 DEF Pulled
    <3>3. ASSUME NEW b \in Nat, fifo' = Append(Tail(fifo), b)
          PROVE  Len(fifo') = Len(fifo)
      <4>1. Len(Append(Tail(fifo), b)) = Len(Tail(fifo)) + 1
        BY <2>1, AppendFacts
      <4> QED
        BY <2>1, <3>3, <4>1
    <3>4. Len(fifo') \in Nat
      BY <3>1
    <3> QED
      <4>1. CASE fifo' = Tail(fifo)
        BY <2>1, <3>1, <4>1
      <4>2. CASE \E b \in Nat : fifo' = Append(Tail(fifo), b)
        <5>1. PICK b \in Nat : fifo' = Append(Tail(fifo), b)
          BY <4>2
        <5>2. Len(fifo') = Len(fifo)
          BY <3>3, <5>1
        <5> QED
          <6>1. ~trigger => Len(fifo') = Len(fifo) - 1
            BY <2>1, <3>2
          <6> QED
            BY <1>4, <3>1, <3>4, <5>2, <6>1
      <4> QED
        BY <3>1, <4>1, <4>2
  <2>4. Rank' < Rank
    <3> DEFINE n == Len(fifo')
    <3>1. Rank' = 3 + n /\ Place = 3
      <4>1. Place = 3 /\ Place' = 3
        BY <2>1 DEF Place
      <4>2. Rank' = 3 + n + 0
        BY <1>1, <2>1, <2>3, <4>1 DEF Rank
      <4>3. n \in Nat
        BY <2>3
      <4> HIDE DEF n
      <4> QED
        BY <4>1, <4>2, <4>3
    <3> HIDE DEF n
    <3>2. n \in Nat /\ n <= Len(fifo) /\ (~trigger => n = Len(fifo) - 1)
      BY <2>3 DEF n
    <3> QED
      BY <1>4, <3>1, <3>2
  <2>5. EInv'
    BY <1>1, <1>2, <1>3, <1>6, <2>1 DEF EInv, Flags
  <2> QED
    BY <1>4, <1>7, <2>2, <2>4, <2>5
<1> QED
  BY <1>10, <1>11, <1>12, <1>13 DEF Cpu, Polls

LEMMA EInvInductive ==
    ASSUME ~Malformed
    PROVE  Spec => [](IInv /\ EInv)
<1>1. Init => EInv
  BY RxAssumption DEF Init, EInv, Quiet, Before
<1>2. IInv /\ EInv /\ [Next]_vars => EInv'
  <2> SUFFICES ASSUME IInv, EInv, [Next]_vars
               PROVE  EInv'
    OBVIOUS
  <2>1. CASE UNCHANGED vars
    <3>1. /\ line' = line /\ rest' = rest /\ byte' = byte /\ ones' = ones /\ end' = end
          /\ det' = det /\ irq_start' = irq_start /\ irq_eop' = irq_eop
          /\ pc' = pc /\ status' = status /\ sent' = sent /\ looked' = looked /\ delay' = delay
      BY <2>1 DEF vars, device, pio, host
    <3> QED
      BY <3>1 DEF EInv, Flags, Quiet, Before
  <2>2. CASE Bit /\ pc # "done"
    BY <2>2, BitSpends
  <2>3. CASE Bit /\ pc = "done"
    <3>1. /\ pc' = pc /\ sent' = sent /\ delay' \in {delay, delay - 1} /\ (looked \/ delay > 0)
          /\ delay' = IF looked THEN delay ELSE delay - 1
          /\ DeviceSends /\ Detect(line')
      BY <2>3 DEF Bit
    <3>2. Quiet'
      BY <2>3, QuietNext DEF EInv, IInv, Next
    <3>3. det' = "run" => end' = 2
      BY <3>1, <3>2, EndToCome DEF EInv
    <3> QED
      BY <2>3, <3>1, <3>2, <3>3 DEF EInv
  <2>4. CASE prepare_for_receive
    <3>1. pc' = "prepared" /\ looked' = FALSE /\ det' = "eop" /\ delay' = delay
      BY <2>4 DEF prepare_for_receive
    <3>2. Quiet'
      BY <2>4, QuietNext DEF EInv, IInv, Next
    <3> QED
      BY <3>1, <3>2 DEF EInv
  <2>5. CASE Cpu
    BY <2>5, CpuSpends
  <2> QED
    BY <2>1, <2>2, <2>3, <2>4, <2>5 DEF Next
<1> QED
  BY <1>1, <1>2, Inductive, PTL DEF Spec

(* The safety of Ends, whatever the interruptions and wherever the packet  *)
(* was met: every bit time of a reception spends of Fuel and no step adds  *)
(* to it, and the steps between two bit times spend of Rank.  It takes a   *)
(* device that ends its packet, without which it is not so (see rx_hang).  *)
THEOREM ReceptionBounded ==
    ASSUME ~Malformed
    PROVE  Spec => [](Fuel \in Nat /\ Rank \in Nat) /\ [][Spends]_vars
<1>1. IInv /\ EInv => Fuel \in Nat /\ Rank \in Nat
  BY FuelNat DEF IInv, EInv
<1>2. IInv /\ EInv /\ [Next]_vars => [Spends]_vars
  BY BitSpends, CpuSpends DEF Spends
<1> QED
  BY <1>1, <1>2, EInvInductive, PTL DEF Spec
=============================================================================
