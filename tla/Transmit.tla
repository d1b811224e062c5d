------------------------------ MODULE Transmit ------------------------------
(***************************************************************************)
(* Transmission of the host's packets: the symbol player of tx_pio.rs with *)
(* its FIFO, TxDriver::transmit, which loads, feeds and awaits it, and the *)
(* turn of the bus from the host to the device and back in transactions of *)
(* bus.rs.  One step of the player is one bit time; the CPU is faster, but *)
(* may be interrupted outside its critical section.  What words a packet   *)
(* is pushed as, and what it should be on the wire, are constants here:    *)
(* HostPackets has them.                                                   *)
(***************************************************************************)
EXTENDS UsbPackets, Sequences

CONSTANTS
    Transactions,       \* what the host sends: sequences of packets
    Encoded(_),         \* the words pushed for a packet, or None
    Waveform(_),        \* what USB 2.0 has on the wire for it, a bit time each
    TxFifoDepth,        \* TX_FIFO_DEPTH, 8
    WaitBits,           \* TX_WAIT_TIMEOUT_US in bit times, 75 at low speed
    SopBits,            \* RX_SOP_TIMEOUT_US in bit times
    Gaps,               \* bit times after which a device answers
    Answers,            \* bit times of its answer, up to the SE0
    Delays,             \* bit times of an interruption of the CPU
    MaxInterrupts,      \* bound on those
    MaxTransactions     \* bound on transactions

VARIABLES
    fifo, osr,          \* words and, of the word being played, symbols to come
    slot,               \* what the player's program does in this bit time
    enabled,            \* SM0 runs
    oe,                 \* D+ and D- are outputs
    irq_eop             \* IRQ_TX_EOP_BIT

VARIABLES
    pc, todo, remaining,    \* where the CPU is; packets and words still to go
    then,               \* where it goes after a packet
    waited,             \* now_us() - start, in bit times
    result

VARIABLES
    gap, talk,          \* bit times until the device answers, and until it has left
    irq_start,          \* IRQ_RX_START

    playing, at,        \* the packet that should be on the wire, and its bit
    asked,              \* the transaction
    count, interrupts, away, looked,    \* the bounds, and who is next
    prompt              \* no interruption since the bus was last quiet

player == <<fifo, osr, slot, enabled, oe, irq_eop>>
device == <<gap, talk, irq_start>>
history == <<playing, at>>
bounds == <<count, interrupts, away>>
vars == <<player, device, history, bounds, pc, todo, remaining, then, waited, result,
          asked, looked, prompt>>

AtMost(n, cap) == IF n < cap THEN n ELSE cap

-----------------------------------------------------------------------------

Packets == {Ack} \cup UNION {{t[i] : i \in DOMAIN t} : t \in Transactions}

Answered(p) ==
    p.pid \in {USB_PID_IN, USB_PID_DATA0, USB_PID_DATA1}

Nothing == [pid |-> "none"]

(* A device answers the last packet of a transaction, after two bit times  *)
(* at least and within the host's patience (USB 2.0, 7.1.18).              *)
ASSUME TxAssumption ==
    /\ \A n \in {TxFifoDepth, WaitBits, SopBits, MaxTransactions} : n \in Nat \ {0}
    /\ Gaps \subseteq 2 .. SopBits
    /\ Answers \cup Delays \subseteq Nat \ {0} /\ MaxInterrupts \in Nat
    /\ \A t \in Transactions :
        t \in Seq(Packets) /\ t # <<>> /\ \A i \in 1 .. Len(t) - 1 : ~Answered(t[i])
    /\ Nothing \notin Packets

(* The two waits of TxDriver::wait together outlast a full FIFO, the word  *)
(* being played and the end of the packet: 145 of 152 bit times.           *)
ASSUME WaitAssumption == 16 * TxFifoDepth + 17 <= 2 * (WaitBits + 1)

-----------------------------------------------------------------------------

(* The player: slot 1 or 3 fetches the next symbol, slot 0 falls through to*)
(* slot 1 and slot 2 to slot 3.  Without a symbol it stands still.         *)
Fetched == IF osr # <<>> THEN osr ELSE IF fifo # <<>> THEN Head(fifo) ELSE <<>>

Enter(s) ==
    /\ slot' = s
    /\ irq_eop' = (irq_eop \/ s = "SE0")
    /\ oe' = (oe /\ s # "COMP")

Play ==
    \/ /\ slot = "start"
       /\ slot' = "J" /\ oe' = TRUE
       /\ UNCHANGED <<fifo, osr, irq_eop>>
    \/ /\ slot = "SE0" /\ slot' = "SE0_again"
       /\ UNCHANGED <<fifo, osr, irq_eop, oe>>
    \/ /\ slot = "SE0_again" /\ slot' = "J"
       /\ UNCHANGED <<fifo, osr, irq_eop, oe>>
    \/ /\ slot = "COMP" /\ slot' = "K"
       /\ UNCHANGED <<fifo, osr, irq_eop, oe>>
    \/ /\ slot \in {"J", "K"} /\ Fetched # <<>>
       /\ Enter(Head(Fetched))
       /\ osr' = Tail(Fetched)
       /\ fifo' = IF osr = <<>> THEN Tail(fifo) ELSE fifo
    \/ /\ slot \in {"J", "K"} /\ Fetched = <<>>
       /\ UNCHANGED <<fifo, osr, slot, irq_eop, oe>>

(* What should be on the wire goes on by itself. *)
Due ==
    IF playing # Nothing /\ at < Len(Waveform(playing))
    THEN at' = at + 1 /\ UNCHANGED playing
    ELSE at' = 0 /\ playing' = Nothing

Over == playing # Nothing /\ at = Len(Waveform(playing))

(* A device that got a packet answers after a gap, or not at all.  It ends *)
(* its answer with two bit times of SE0 and drives one of J (7.1.7.2).     *)
EndBits == 3

Answer ==
    \/ /\ Over /\ Answered(playing)
       /\ \E g \in Gaps : gap' = g - 1
       /\ UNCHANGED talk
    \/ /\ gap > 0
       /\ gap' = gap - 1
       /\ IF gap = 1 THEN \E n \in Answers : talk' = n + EndBits ELSE UNCHANGED talk
    \/ /\ gap = 0
       /\ talk' = IF talk > 0 THEN talk - 1 ELSE 0
       /\ UNCHANGED gap

Bit ==
    /\ looked \/ away > 0
    /\ IF enabled THEN Play /\ UNCHANGED enabled ELSE UNCHANGED player
    /\ Due
    /\ Answer
    /\ irq_start' = (irq_start \/ talk' > 0)
    /\ waited' = AtMost(waited + 1, WaitBits + 1)
    /\ away' = IF away > 0 THEN away - 1 ELSE 0
    /\ looked' = (pc = "idle")
    /\ UNCHANGED <<pc, todo, remaining, then, result, asked, count, interrupts, prompt>>

(* Interrupts are off while words are fed to a running player. *)
CriticalNever == FALSE

Critical == pc = "feed"

Interrupt ==
    /\ pc # "idle" /\ ~Critical /\ away = 0 /\ interrupts > 0
    /\ \E n \in Delays : away' = n
    /\ interrupts' = interrupts - 1 /\ prompt' = FALSE
    /\ UNCHANGED <<player, device, history, count, pc, todo, remaining, then, waited,
                   result, asked, looked>>

-----------------------------------------------------------------------------

(* prepare_tx_packet: the state machine stops and starts over, its FIFO is *)
(* emptied and takes what fits of the packet.                              *)
prepare_tx_packet(initial) ==
    /\ fifo' = initial
    /\ osr' = <<>> /\ slot' = "start" /\ enabled' = FALSE /\ irq_eop' = FALSE

start_txAfterFeeding == enabled' = (enabled \/ remaining = <<>>)

start_tx == enabled' = TRUE

(* A transaction.  Its DATA packet is built before anything is sent. *)
Begin ==
    /\ pc = "idle" /\ count < MaxTransactions
    /\ \E t \in Transactions :
        /\ asked' = t
        /\ IF \E i \in DOMAIN t : Encoded(t[i]) = None
           THEN /\ result' = "BufferOverflow"
                /\ UNCHANGED <<pc, todo, looked>>
           ELSE /\ result' = "sent"
                /\ pc' = "transmit" /\ todo' = t /\ looked' = FALSE
    /\ count' = count + 1 /\ prompt' = (prompt \/ gap + talk = 0)
    /\ UNCHANGED <<player, device, history, interrupts, away, remaining, then, waited>>

(* TxDriver::transmit: load, start, and, with interrupts off, feed. *)
prepare ==
    LET all == Encoded(Head(todo))
        n   == AtMost(Len(all), TxFifoDepth)
    IN  /\ pc = "transmit"
        /\ prepare_tx_packet(SubSeq(all, 1, n))
        /\ remaining' = SubSeq(all, n + 1, Len(all))
        /\ pc' = "start"
        /\ UNCHANGED <<oe, irq_start, history, todo, then, waited, looked>>

start ==
    /\ pc = "start"
    /\ start_tx
    /\ playing' = Head(todo) /\ at' = 0 /\ todo' = Tail(todo)
    /\ then' = IF Len(todo) > 1 THEN "transmit"
               ELSE IF Answered(Head(todo)) THEN "start_receive" ELSE "idle"
    /\ pc' = IF remaining = <<>> THEN "eop" ELSE "feed"
    /\ waited' = 0
    /\ UNCHANGED <<fifo, osr, slot, oe, irq_eop, irq_start, remaining, looked>>

tx_full == Len(fifo) >= TxFifoDepth

feed ==
    /\ pc = "feed"
    /\ \/ /\ tx_full /\ looked' = TRUE
          /\ UNCHANGED <<fifo, remaining, pc, waited>>
       \/ /\ ~tx_full
          /\ fifo' = Append(fifo, Head(remaining)) /\ remaining' = Tail(remaining)
          /\ pc' = IF Tail(remaining) = <<>> THEN "eop" ELSE "feed"
          /\ waited' = 0 /\ UNCHANGED looked
    /\ UNCHANGED <<osr, slot, enabled, oe, irq_eop, irq_start, history, todo, then>>

(* TxDriver::wait: first for the end of the packet, then for the pins, each*)
(* for a limited time.                                                     *)
TxWaitHalf == WaitBits \div 2

TxWait == WaitBits

Done(next) == pc' = next /\ waited' = 0 /\ looked' = (next = "idle")

Again(next) == pc' = next /\ UNCHANGED waited

wait ==
    /\ \/ pc = "eop" /\ irq_eop /\ Done("released")
       \/ pc = "eop" /\ ~irq_eop /\ Again("eop_clock") /\ UNCHANGED looked
       \/ pc = "eop_clock" /\ waited > TxWait /\ Done("released")
       \/ pc = "eop_clock" /\ waited <= TxWait /\ Again("eop") /\ looked' = TRUE
       \/ pc = "released" /\ ~oe /\ Done(then)
       \/ pc = "released" /\ oe /\ Again("released_clock") /\ UNCHANGED looked
       \/ pc = "released_clock" /\ waited > TxWait /\ Done(then)
       \/ pc = "released_clock" /\ waited <= TxWait /\ Again("released") /\ looked' = TRUE
    /\ UNCHANGED <<player, irq_start, history, todo, remaining, then>>

(* The turn of the bus.  Of the reception RxCapture has the details: here  *)
(* it is a start that comes in time or not, and an end.                    *)
start_receive ==
    /\ pc = "start_receive"
    /\ irq_start' = FALSE
    /\ Done(IF asked[1].pid = USB_PID_IN THEN "stage" ELSE "receive")
    /\ UNCHANGED <<player, history, todo, remaining, then>>

prepare_ack_and_release_bus ==
    /\ pc = "stage"
    /\ prepare_tx_packet(Encoded(Ack)) /\ oe' = FALSE /\ remaining' = <<>>
    /\ Done("receive")
    /\ UNCHANGED <<irq_start, history, todo, then>>

receive ==
    /\ pc = "receive"
    /\ \/ waited >= SopBits /\ Done("idle")
       \/ waited < SopBits /\ irq_start /\ Done("data")
       \/ waited < SopBits /\ ~irq_start /\ Again(pc) /\ looked' = TRUE
    /\ UNCHANGED <<player, irq_start, history, todo, remaining, then>>

(* The answer's first SE0 raises IRQ_RX_EOP.  Valid DATA get an ACK, and   *)
(* all else nothing; what comes next does not wait for the device to leave.*)
EopSeenStale == TRUE

EopSeen == talk <= EndBits

end_of_packet ==
    /\ pc = "data"
    /\ \/ ~EopSeen /\ Again(pc) /\ looked' = TRUE
       \/ EopSeen /\ Done("idle")
       \/ EopSeen /\ asked[1].pid = USB_PID_IN /\ Done("ack")
    /\ UNCHANGED <<player, irq_start, history, todo, remaining, then>>

ack ==
    /\ pc = "ack"
    /\ start_tx
    /\ playing' = Ack /\ at' = 0
    /\ then' = "idle" /\ Done("eop")
    /\ UNCHANGED <<fifo, osr, slot, oe, irq_eop, irq_start, todo, remaining>>

Cpu ==
    /\ ~looked /\ away = 0
    /\ prepare \/ start \/ feed \/ wait \/ start_receive
       \/ prepare_ack_and_release_bus \/ receive \/ end_of_packet \/ ack
    /\ UNCHANGED <<gap, talk, result, asked, bounds, prompt>>

Init ==
    /\ fifo = <<>> /\ osr = <<>> /\ slot = "J" /\ enabled = TRUE
    /\ oe = FALSE /\ irq_eop = FALSE
    /\ pc = "idle" /\ todo = <<>> /\ remaining = <<>> /\ then = "idle" /\ waited = 0
    /\ result = "none" /\ asked = <<>>
    /\ gap = 0 /\ talk = 0 /\ irq_start = FALSE
    /\ playing = Nothing /\ at = 0
    /\ count = 0 /\ interrupts = MaxInterrupts /\ away = 0 /\ looked = TRUE /\ prompt = TRUE

Next == Bit \/ Interrupt \/ Begin \/ Cpu

Spec == Init /\ [][Next]_vars

(* Time passes, and an interrupt ends. *)
FairSpec == Spec /\ WF_vars(Bit) /\ WF_vars(Cpu)

-----------------------------------------------------------------------------

(* What the host drives now. *)
Wire ==
    IF ~oe THEN "Z" ELSE IF slot \in {"SE0", "SE0_again"} THEN "SE0" ELSE slot

(* Words of 16 symbols that the player makes a waveform of: the first J is *)
(* its own, SE0 takes it two bit times, COMP is the release, and J pads.   *)
SymbolAt(wave, k) ==
    LET bits == Len(wave) - 4
    IN  CASE k <= bits     -> wave[k + 1]
          [] k = bits + 1  -> "SE0"
          [] k = bits + 2  -> "COMP"
          [] OTHER         -> "J"

Faithful(words, wave) ==
    LET bits == Len(wave) - 4
    IN  /\ bits >= 0 /\ wave[1] = "J"
        /\ \A k \in 2 .. bits + 1 : wave[k] \in {"J", "K"}
        /\ wave[bits + 2] = "SE0" /\ wave[bits + 3] = "SE0" /\ wave[bits + 4] = "J"
        /\ 16 * Len(words) \in bits + 2 .. bits + 18
        /\ \A w \in DOMAIN words :
            Len(words[w]) = 16
            /\ \A j \in 1 .. 16 : words[w][j] = SymbolAt(wave, 16 * (w - 1) + j)

(* What is loaded for a packet, in the FIFO and to be fed, is USB's        *)
(* waveform, with its CRC, its stuffed bits, its end and the release of the*)
(* pins, and at most one word of padding: the driver's tables, its packing *)
(* and its constants against the standard's own words.  An ACK still has   *)
(* all its words in the FIFO when the answer is over.                      *)
EncodedExact ==
    /\ pc = "start" => Faithful(fifo \o remaining, Waveform(Head(todo)))
    /\ pc = "ack" => Faithful(fifo, Waveform(Ack))

(* The wire has, bit time by bit time, exactly the packet that was to be   *)
(* sent, from its first bit to the release of the pins: no gap where the   *)
(* FIFO ran dry, no end cut off by the next packet, nothing of an earlier  *)
(* one before it, no error in its CRC or its stuffed bits.                 *)
WireExact == Wire = IF at = 0 THEN "Z" ELSE Waveform(playing)[at]

(* The receiver is not started on the host's own packet: the wait for a    *)
(* packet's end is long enough for what the FIFO may still hold.           *)
OwnPacketOver == pc \in {"stage", "receive", "data"} => playing = Nothing

(* Without an interruption the host has left the bus when a device answers,*)
(* be it as fast as it may, and stays away from the answer's bits and its  *)
(* first SE0.  It does not wait for the second and the J: an ACK, or the   *)
(* next transaction, may begin over them, and no more than its idle J and  *)
(* its first bit meet them.                                                *)
NoCollision == prompt /\ oe /\ talk > 0 => at + talk <= EndBits

(* A transaction is refused for its payload's length and for nothing else: *)
(* the buffers hold the longest encoding of 64 bytes.                      *)
FitsExactly ==
    asked # <<>> =>
        (result = "BufferOverflow" <=>
            \E i \in DOMAIN asked :
                asked[i].pid \in {USB_PID_DATA0, USB_PID_DATA1}
                /\ Len(asked[i].data) > MAX_DATA_PAYLOAD_BYTES)

(* Every transaction ends: the player makes room for every word, with      *)
(* interrupts off and no timeout, and every other wait has one.            *)
Returns == pc # "idle" ~> pc = "idle"
=============================================================================
