--------------------------- MODULE Transmit_proofs ---------------------------
(***************************************************************************)
(* Transmission, for every packet, depth of the FIFO, timeout, gap of a    *)
(* device and number of interruptions: the wire carries the waveform, the  *)
(* receiver never hears the host, and an uninterrupted host meets nothing  *)
(* of a device's answer but its end.                                       *)
(***************************************************************************)
EXTENDS Transmit, Integers, TLAPS

USE DEF EndBits

Levels == {"J", "K", "SE0", "COMP"}

(* What the builders owe the player: faithful words, and an ACK that fits  *)
(* the FIFO, into which it is pushed without waiting.  For the packets of  *)
(* its run, TLC checks the first as EncodedExact.                          *)
Encoder ==
    /\ \A p \in Packets : Encoded(p) \in Seq(Seq(Levels)) /\ Waveform(p) \in Seq(Levels)
    /\ \A p \in Packets : Encoded(p) # None => Faithful(Encoded(p), Waveform(p))
    /\ Encoded(Ack) # None /\ Len(Encoded(Ack)) <= TxFifoDepth

-----------------------------------------------------------------------------

(* The inductive invariant.  While a packet is sent: how many of its words *)
(* and symbols the player has taken, where the others are, and that its    *)
(* place in the program and the bit on the wire go with that number.       *)
Bits(p) == Len(Waveform(p)) - 4

Drawn == Len(Encoded(playing)) - Len(fifo) - Len(remaining)

Taken == 16 * Drawn - Len(osr)

Left ==
    /\ Len(fifo) <= TxFifoDepth /\ Len(osr) <= 15
    /\ Drawn >= 0
    /\ \A i \in 1 .. Len(osr) :
        Drawn > 0 /\ osr[i] = Encoded(playing)[Drawn][16 - Len(osr) + i]
    /\ \A i \in 1 .. Len(fifo) : fifo[i] = Encoded(playing)[Drawn + i]
    /\ \A i \in 1 .. Len(remaining) :
        remaining[i] = Encoded(playing)[Drawn + Len(fifo) + i]

Position ==
    \/ at = 0 /\ slot = "start" /\ Taken = 0 /\ ~oe /\ ~irq_eop
    \/ at \in 1 .. Bits(playing) + 1 /\ slot = Waveform(playing)[at]
       /\ Taken = at - 1 /\ oe /\ ~irq_eop
    \/ at = Bits(playing) + 2 /\ slot = "SE0" /\ Taken = at - 1 /\ oe /\ irq_eop
    \/ at = Bits(playing) + 3 /\ slot = "SE0_again" /\ Taken = at - 2 /\ oe /\ irq_eop
    \/ at = Bits(playing) + 4 /\ slot = "J" /\ Taken = at - 3 /\ oe /\ irq_eop

Sending ==
    playing # Nothing =>
        /\ playing \in Packets /\ Encoded(playing) # None
        /\ enabled /\ Left /\ Position

(* Between packets the player is stopped or plays padding. *)
Padding(s) == \A i \in 1 .. Len(s) : s[i] = "J"

Quiet ==
    playing = Nothing =>
        /\ at = 0 /\ ~oe
        /\ enabled =>
            /\ slot \in {"J", "K", "COMP"} /\ Padding(osr)
            /\ \A i \in 1 .. Len(fifo) : Padding(fifo[i])

(* A packet that is loaded and not yet started, and one being fed. *)
Ready(words) ==
    /\ ~enabled /\ slot = "start" /\ osr = <<>> /\ ~irq_eop
    /\ Len(fifo) <= TxFifoDepth /\ Len(fifo) + Len(remaining) = Len(words)
    /\ \A i \in 1 .. Len(fifo) : fifo[i] = words[i]
    /\ \A i \in 1 .. Len(remaining) : remaining[i] = words[Len(fifo) + i]

Loaded ==
    /\ pc = "start" => Ready(Encoded(Head(todo)))
    /\ (pc \in {"receive", "data"} /\ asked[1].pid = USB_PID_IN) \/ pc = "ack" =>
        Ready(Encoded(Ack))
    /\ pc = "feed" =>
        /\ remaining # <<>> /\ away = 0 /\ playing # Nothing
        /\ looked => tx_full
    /\ pc \notin {"start", "feed"} => remaining = <<>>

AfterStart == {"feed", "eop", "eop_clock", "released", "released_clock"}

Planned ==
    /\ todo \in Seq(Packets)
    /\ \A i \in 1 .. Len(todo) : Encoded(todo[i]) # None
    /\ \A i \in 1 .. Len(todo) - 1 : ~Answered(todo[i])
    /\ pc \in {"transmit", "start"} => todo # <<>>
    /\ pc \in AfterStart =>
        then \in {"idle", "transmit", "start_receive"}
        /\ (then = "transmit" => todo # <<>>)
    /\ playing # Nothing /\ Answered(playing) => then = "start_receive"
    /\ playing # Nothing => pc \in AfterStart

(* What is left of the packet fits the time that is left of the waits. *)
Rest == Len(Waveform(playing)) + 1 - at

Timed ==
    playing # Nothing =>
        /\ at = 0 => waited = 0
        /\ pc \in {"eop", "eop_clock"} => Rest + waited <= 16 * TxFifoDepth + 17
        /\ pc \in {"released", "released_clock"} =>
            at > 0 /\ Rest + waited <= WaitBits + 1

(* An uninterrupted CPU has looked at all there is before time goes on. *)
Looked ==
    /\ away > 0 => ~prompt /\ pc # "idle"
    /\ prompt /\ looked =>
        /\ pc \in {"idle", "feed", "eop", "released", "receive", "data"}
        /\ pc = "receive" => ~irq_start /\ waited < SopBits
        /\ pc = "data" => talk > EndBits
    /\ prompt /\ (pc = "eop_clock" \/ (pc = "eop" /\ looked)) => ~irq_eop
    /\ prompt /\ (pc = "released_clock" \/ (pc = "released" /\ looked)) => oe

(* Before an answer the CPU listens, or is about to.  While there are bits *)
(* of it to come it listens; what begins over its end begins after its     *)
(* first SE0, and is not further than the device is.                       *)
Prompt ==
    prompt =>
        /\ gap > 0 =>
            /\ playing = Nothing /\ talk = 0 /\ gap < SopBits
            /\ \/ pc = "released" /\ then = "start_receive"
               \/ pc = "start_receive"
               \/ pc = "stage" /\ ~irq_start
               \/ pc = "receive" /\ ~irq_start /\ gap + waited < SopBits
        /\ talk > EndBits =>
            /\ playing = Nothing
            /\ \/ pc = "receive" /\ irq_start /\ waited < SopBits
               \/ pc = "data"
        /\ talk > 0 /\ talk <= EndBits =>
            \/ playing = Nothing /\ pc \in {"data", "ack", "idle", "transmit", "start"}
            \/ playing # Nothing /\ at + talk <= EndBits

Types ==
    /\ fifo \in Seq(Seq(Levels)) /\ osr \in Seq(Levels) /\ remaining \in Seq(Seq(Levels))
    /\ enabled \in BOOLEAN /\ oe \in BOOLEAN /\ irq_eop \in BOOLEAN /\ irq_start \in BOOLEAN
    /\ looked \in BOOLEAN /\ prompt \in BOOLEAN
    /\ pc \in AfterStart \cup {"idle", "transmit", "start", "start_receive", "stage",
                               "receive", "data", "ack"}
    /\ at \in Nat /\ waited \in Nat /\ gap \in Nat /\ talk \in Nat /\ away \in Nat

IInv == Types /\ Sending /\ Quiet /\ Loaded /\ Planned /\ Timed /\ Looked /\ Prompt

-----------------------------------------------------------------------------

(* A packet that is sent: its length, its words and its waveform. *)
LEMMA Symbols ==
    ASSUME Encoder, NEW p \in Packets, Encoded(p) # None
    PROVE  /\ Encoded(p) \in Seq(Seq(Levels)) /\ Len(Encoded(p)) \in Nat \ {0}
           /\ Waveform(p) \in Seq(Levels) /\ Bits(p) \in Nat
           /\ Len(Waveform(p)) = Bits(p) + 4
           /\ Waveform(p)[1] = "J"
           /\ \A k \in 1 .. Bits(p) + 1 : Waveform(p)[k] \in {"J", "K"}
           /\ Waveform(p)[Bits(p) + 2] = "SE0" /\ Waveform(p)[Bits(p) + 3] = "SE0"
           /\ Waveform(p)[Bits(p) + 4] = "J"
           /\ Bits(p) + 2 <= 16 * Len(Encoded(p)) /\ 16 * Len(Encoded(p)) <= Bits(p) + 18
           /\ \A w \in 1 .. Len(Encoded(p)) :
               Encoded(p)[w] \in Seq(Levels) /\ Len(Encoded(p)[w]) = 16
<1> DEFINE words == Encoded(p)
           wave == Waveform(p)
<1>1. words \in Seq(Seq(Levels)) /\ wave \in Seq(Levels) /\ words # <<>>
  BY DEF Encoder, None
<1>2. Faithful(words, wave)
  BY DEF Encoder
<1>3. Len(words) \in Nat \ {0} /\ Len(wave) \in Nat
  BY <1>1
<1>4. Bits(p) \in Nat /\ Len(wave) = Bits(p) + 4 /\ wave[1] = "J"
  BY <1>2, <1>3 DEF Faithful, Bits
<1>5. \A k \in 1 .. Bits(p) + 1 : wave[k] \in {"J", "K"}
  <2>1. \A k \in 2 .. Bits(p) + 1 : wave[k] \in {"J", "K"}
    BY <1>2 DEF Faithful, Bits
  <2> QED
    BY <2>1, <1>4
<1>6. /\ wave[Bits(p) + 2] = "SE0" /\ wave[Bits(p) + 3] = "SE0" /\ wave[Bits(p) + 4] = "J"
      /\ Bits(p) + 2 <= 16 * Len(words) /\ 16 * Len(words) <= Bits(p) + 18
  BY <1>2, <1>3, <1>4 DEF Faithful, Bits
<1>7. ASSUME NEW w \in 1 .. Len(words)
      PROVE  words[w] \in Seq(Levels) /\ Len(words[w]) = 16
  <2>1. words[w] \in Seq(Levels) /\ w \in DOMAIN words
    BY <1>1, <1>3
  <2> QED
    BY <2>1, <1>2 DEF Faithful
<1> QED
  BY <1>1, <1>3, <1>4, <1>5, <1>6, <1>7

(* One symbol, by its number. *)
LEMMA SymbolOf ==
    ASSUME Encoder, NEW p \in Packets, Encoded(p) # None,
           NEW w \in 1 .. Len(Encoded(p)), NEW j \in 1 .. 16,
           NEW k, k = 16 * (w - 1) + j
    PROVE  Encoded(p)[w][j] = SymbolAt(Waveform(p), k)
<1> DEFINE words == Encoded(p)
           wave == Waveform(p)
<1>1. words \in Seq(Seq(Levels))
  BY DEF Encoder
<1>2. Faithful(words, wave)
  BY DEF Encoder
<1>3. w \in DOMAIN words
  BY <1>1
<1>4. words[w][j] = SymbolAt(wave, 16 * (w - 1) + j)
  BY <1>2, <1>3 DEF Faithful
<1> QED
  BY <1>4

(* A sequence without its first element. *)
LEMMA TailFacts ==
    ASSUME NEW S, NEW s \in Seq(S), s # <<>>
    PROVE  /\ Tail(s) \in Seq(S) /\ Head(s) = s[1] /\ Head(s) \in S /\ Len(s) \in Nat /\ Len(s) >= 1
           /\ Len(Tail(s)) = Len(s) - 1 /\ Len(Tail(s)) \in Nat
           /\ \A i \in 1 .. Len(Tail(s)) : Tail(s)[i] = s[i + 1]
OBVIOUS

(* The next symbol is there when the player comes for it.  *)
LEMMA SymbolThere ==
    ASSUME Encoder, Types, Sending, Loaded, playing # Nothing, looked \/ away > 0,
           Taken < 16 * Len(Encoded(playing))
    PROVE  /\ Fetched # <<>>
           /\ osr = <<>> =>
               /\ fifo # <<>> /\ Drawn + 1 \in 1 .. Len(Encoded(playing))
               /\ Taken = 16 * Drawn /\ fifo[1] = Encoded(playing)[Drawn + 1]
<1> DEFINE words == Encoded(playing)
           N == Len(words)
<1>1. /\ playing \in Packets /\ Encoded(playing) # None /\ Left
  BY DEF Sending
<1>0. words = Encoded(playing) /\ N = Len(words)
  OBVIOUS
<1>2. /\ words \in Seq(Seq(Levels)) /\ N \in Nat \ {0}
      /\ \A w \in 1 .. N : words[w] \in Seq(Levels) /\ Len(words[w]) = 16
  BY <1>1, Symbols
<1>3. /\ fifo \in Seq(Seq(Levels)) /\ osr \in Seq(Levels) /\ remaining \in Seq(Seq(Levels))
  BY DEF Types
<1>7. Len(fifo) \in Nat /\ Len(osr) \in Nat /\ Len(osr) <= 15 /\ Len(remaining) \in Nat
  <2>1. fifo \in Seq(Seq(Levels)) /\ osr \in Seq(Levels) /\ remaining \in Seq(Seq(Levels))
    BY DEF Types
  <2>2. Len(osr) <= 15
    BY <1>1 DEF Left
  <2> QED
    BY <2>1, <2>2
<1>4. Drawn = N - Len(fifo) - Len(remaining) /\ Drawn \in Nat /\ Drawn <= N
      /\ Taken = 16 * Drawn - Len(osr) /\ Taken < 16 * N
  <2>1. Drawn = N - Len(fifo) - Len(remaining) /\ Drawn >= 0
    BY <1>1 DEF Drawn, Left
  <2>2. Drawn \in Nat /\ Drawn <= N
    BY <2>1, <1>2, <1>7
  <2> QED
    BY <2>1, <2>2 DEF Taken
<1> HIDE DEF words, N
<1>5. CASE osr # <<>>
  BY <1>5 DEF Fetched
<1>6. CASE osr = <<>>
  <2>1. Len(osr) = 0 /\ Taken = 16 * Drawn /\ Drawn < N
    BY <1>2, <1>4, <1>6, <1>7
  <2>2. fifo # <<>>
    <3>1. CASE remaining = <<>>
      <4>1. Len(remaining) = 0
        BY <3>1
      <4> QED
        BY <4>1, <2>1, <1>2, <1>4, <1>7
    <3>2. CASE remaining # <<>>
      <4>1. pc = "feed"
        <5>1. pc = "start" => ~enabled
          BY DEF Loaded, Ready
        <5> QED
          BY <3>2, <5>1 DEF Loaded, Sending
      <4>2. Len(fifo) >= TxFifoDepth
        BY <4>1 DEF Loaded, tx_full
      <4> QED
        BY <4>2, TxAssumption, <1>7
    <3> QED
      BY <3>1, <3>2
  <2>3. Fetched = fifo[1] /\ Len(fifo) >= 1
    BY <1>3, <1>6, <2>2 DEF Fetched
  <2>4. Drawn + 1 \in 1 .. N /\ fifo[1] = words[Drawn + 1]
    <3>1. 1 \in 1 .. Len(fifo)
      BY <1>3, <2>3
    <3> QED
      BY <3>1, <2>1, <1>0, <1>1, <1>4 DEF Left
  <2>5. fifo[1] \in Seq(Levels) /\ Len(fifo[1]) = 16
    BY <2>4, <1>2
  <2>16. fifo[1] # <<>>
    <3>1. \A s \in Seq(Levels) : s = <<>> => Len(s) # 16
      OBVIOUS
    <3> QED
      BY Zenon, <3>1, <2>5
  <2> QED
    BY <1>0, <2>1, <2>2, <2>3, <2>4, <2>16
<1> QED
  BY <1>5, <1>6

(* It is the packet's next symbol. *)
Draws ==
    /\ osr' = Tail(Fetched) /\ fifo' = (IF osr = <<>> THEN Tail(fifo) ELSE fifo)
    /\ UNCHANGED <<remaining, playing>>

LEMMA NextSymbol ==
    ASSUME Encoder, Types, Sending, Loaded, playing # Nothing, looked \/ away > 0,
           Taken < 16 * Len(Encoded(playing)), Draws
    PROVE  /\ Fetched # <<>> /\ Left' /\ Taken' = Taken + 1
           /\ \E w \in 1 .. Len(Encoded(playing)), j \in 1 .. 16 :
               16 * (w - 1) + j = Taken + 1 /\ Head(Fetched) = Encoded(playing)[w][j]
<1> DEFINE words == Encoded(playing)
           N == Len(words)
<1>1. /\ playing \in Packets /\ Encoded(playing) # None /\ Left
  BY DEF Sending
<1>0. words = Encoded(playing) /\ words = Encoded(playing') /\ N = Len(words)
  BY DEF Draws
<1>2. /\ words \in Seq(Seq(Levels)) /\ N \in Nat \ {0}
      /\ \A w \in 1 .. N : words[w] \in Seq(Levels) /\ Len(words[w]) = 16
  BY <1>1, Symbols
<1>3. /\ fifo \in Seq(Seq(Levels)) /\ osr \in Seq(Levels) /\ remaining \in Seq(Seq(Levels))
  BY DEF Types
<1>7. Len(fifo) \in Nat /\ Len(osr) \in Nat /\ Len(osr) <= 15 /\ Len(remaining) \in Nat
  <2>1. fifo \in Seq(Seq(Levels)) /\ osr \in Seq(Levels) /\ remaining \in Seq(Seq(Levels))
    BY DEF Types
  <2>2. Len(osr) <= 15
    BY <1>1 DEF Left
  <2> QED
    BY <2>1, <2>2
<1>4. Drawn = N - Len(fifo) - Len(remaining) /\ Drawn \in Nat /\ Drawn <= N
      /\ Taken = 16 * Drawn - Len(osr) /\ Taken < 16 * N
  <2>1. Drawn = N - Len(fifo) - Len(remaining) /\ Drawn >= 0
    BY <1>1 DEF Drawn, Left
  <2>2. Drawn \in Nat /\ Drawn <= N
    BY <2>1, <1>2, <1>7
  <2> QED
    BY <2>1, <2>2 DEF Taken
<1> HIDE DEF words, N
<1>5. CASE osr # <<>>
  <2>1. Fetched = osr /\ fifo' = fifo /\ osr' = Tail(osr) /\ Len(osr) >= 1
    BY <1>3, <1>5 DEF Fetched, Draws
  <2>2. Len(osr') = Len(osr) - 1 /\ Len(osr') \in Nat
    BY <1>3, <2>1
  <2>20. \A i \in 1 .. Len(osr') : osr'[i] = osr[i + 1]
    BY <1>3, <2>1
  <2>3. Drawn' = Drawn
    BY <1>0, <1>4, <2>1 DEF Drawn, Draws
  <2>4. Taken' = Taken + 1
    BY <2>2, <2>3, <1>4, <1>7 DEF Taken
  <2>5. Drawn > 0 /\ \A i \in 1 .. Len(osr) : osr[i] = words[Drawn][16 - Len(osr) + i]
    <3>1. 1 \in 1 .. Len(osr)
      BY <1>3, <2>1
    <3> QED
      BY <1>0, <1>1, <3>1 DEF Left
  <2>6. \A i \in 1 .. Len(osr') : Drawn' > 0 /\ osr'[i] = words[Drawn'][16 - Len(osr') + i]
    <3> SUFFICES ASSUME NEW i \in 1 .. Len(osr')
                 PROVE  Drawn' > 0 /\ osr'[i] = words[Drawn'][16 - Len(osr') + i]
      OBVIOUS
    <3>1. i + 1 \in 1 .. Len(osr) /\ 16 - Len(osr) + (i + 1) = 16 - Len(osr') + i
      BY <2>2, <1>7
    <3> QED
      BY <3>1, <2>20, <2>3, <2>5
  <2>7. Left'
    <3>1. remaining' = remaining /\ words = Encoded(playing')
      BY <1>0 DEF Draws
    <3>2. Len(fifo') <= TxFifoDepth /\ Len(osr') <= 15 /\ Drawn' >= 0
      <4>1. Len(fifo) <= TxFifoDepth
        BY <1>1 DEF Left
      <4>2. Len(osr') <= 15
        BY <2>2, <1>7
      <4>3. Drawn' >= 0
        BY <2>3, <1>4
      <4> QED
        BY <4>1, <4>2, <4>3, <2>1
    <3>3. \A i \in 1 .. Len(fifo') : fifo'[i] = words[Drawn' + i]
      BY <1>0, <1>1, <2>1, <2>3 DEF Left
    <3>4. \A i \in 1 .. Len(remaining') : remaining'[i] = words[Drawn' + Len(fifo') + i]
      BY <1>0, <1>1, <2>1, <2>3, <3>1 DEF Left
    <3> QED
      BY <2>6, <3>1, <3>2, <3>3, <3>4 DEF Left
  <2>8. Drawn \in 1 .. N /\ 16 - Len(osr) + 1 \in 1 .. 16
        /\ 16 * (Drawn - 1) + (16 - Len(osr) + 1) = Taken + 1
    <3>1. Len(osr) >= 1 /\ Drawn > 0
      BY <2>1, <2>5
    <3>2. Drawn \in 1 .. N
      BY <3>1, <1>2, <1>4
    <3>3. 16 - Len(osr) + 1 \in 1 .. 16
      <4>1. \A l \in Nat : l >= 1 /\ l <= 15 => 16 - l + 1 \in 1 .. 16
        OBVIOUS
      <4> QED
        BY <3>1, <4>1, <1>7
    <3>4. 16 * (Drawn - 1) + (16 - Len(osr) + 1) = Taken + 1
      BY <1>4, <1>7
    <3> QED
      BY <3>2, <3>3, <3>4
  <2>9. Head(Fetched) = words[Drawn][16 - Len(osr) + 1]
    <3>1. Head(osr) = osr[1] /\ 1 \in 1 .. Len(osr)
      BY <1>3, <2>1
    <3> QED
      BY <3>1, <2>1, <2>5
  <2> QED
    BY <1>0, <1>5, <2>1, <2>4, <2>7, <2>8, <2>9
<1>6. CASE osr = <<>>
  <2>1. Len(osr) = 0 /\ Taken = 16 * Drawn /\ Drawn < N
    BY <1>2, <1>4, <1>6, <1>7
  <2>2. fifo # <<>>
    BY <1>6, SymbolThere
  <2>3. Fetched = fifo[1] /\ fifo' = Tail(fifo) /\ osr' = Tail(fifo[1]) /\ Len(fifo) >= 1
    BY <1>3, <1>6, <2>2 DEF Fetched, Draws
  <2>4. Drawn + 1 \in 1 .. N /\ fifo[1] = words[Drawn + 1]
    <3>1. 1 \in 1 .. Len(fifo)
      BY <1>3, <2>3
    <3> QED
      BY <3>1, <1>0, <1>1, <1>4 DEF Left
  <2>5. fifo[1] \in Seq(Levels) /\ Len(fifo[1]) = 16
    BY <2>4, <1>2
  <2>16. fifo[1] # <<>>
    <3>1. \A s \in Seq(Levels) : s = <<>> => Len(s) # 16
      OBVIOUS
    <3> QED
      BY Zenon, <3>1, <2>5
  <2>6. Len(osr') = 15 /\ \A i \in 1 .. 15 : osr'[i] = words[Drawn + 1][i + 1]
    <3>1. Len(osr') = 15
      BY <2>3, <2>5, <2>16, TailFacts
    <3>2. \A i \in 1 .. Len(osr') : osr'[i] = fifo[1][i + 1]
      BY <2>3, <2>5, <2>16, TailFacts
    <3> QED
      BY <3>1, <3>2, <2>4
  <2>7. Len(fifo') = Len(fifo) - 1 /\ Len(fifo') \in Nat
    BY <1>3, <2>3
  <2>70. \A i \in 1 .. Len(fifo') : fifo'[i] = fifo[i + 1]
    BY <1>3, <2>3
  <2>8. Drawn' = Drawn + 1
    <3>1. Drawn' = N - Len(fifo') - Len(remaining)
      BY <1>0 DEF Drawn, Draws
    <3>2. \A n, f, m \in Nat : n - (f - 1) - m = (n - f - m) + 1
      OBVIOUS
    <3> QED
      BY <3>1, <3>2, <2>7, <1>2, <1>4, <1>7
  <2>9. Taken' = Taken + 1
    BY <2>6, <2>8, <2>1, <1>4 DEF Taken
  <2>10. \A i \in 1 .. Len(osr') : Drawn' > 0 /\ osr'[i] = words[Drawn'][16 - Len(osr') + i]
    <3> SUFFICES ASSUME NEW i \in 1 .. 15
                 PROVE  Drawn' > 0 /\ osr'[i] = words[Drawn'][16 - 15 + i]
      BY <2>6
    <3>1. 16 - 15 + i = i + 1
      OBVIOUS
    <3>2. Drawn' > 0
      BY <2>8, <1>4
    <3>3. osr'[i] = words[Drawn'][i + 1]
      BY <2>6, <2>8
    <3> QED
      BY <3>1, <3>2, <3>3
  <2>11. \A i \in 1 .. Len(fifo') : fifo'[i] = words[Drawn' + i]
    <3> SUFFICES ASSUME NEW i \in 1 .. Len(fifo')
                 PROVE  fifo'[i] = words[Drawn' + i]
      OBVIOUS
    <3>1. i + 1 \in 1 .. Len(fifo) /\ Drawn + (i + 1) = Drawn' + i
      BY <2>7, <2>8, <1>4, <1>7
    <3>2. fifo[i + 1] = words[Drawn + (i + 1)]
      BY <3>1, <1>0, <1>1 DEF Left
    <3> QED
      BY <3>1, <3>2, <2>70
  <2>12. \A i \in 1 .. Len(remaining') : remaining'[i] = words[Drawn' + Len(fifo') + i]
    <3> SUFFICES ASSUME NEW i \in 1 .. Len(remaining)
                 PROVE  remaining[i] = words[Drawn' + Len(fifo') + i]
      BY DEF Draws
    <3>1. Drawn' + Len(fifo') + i = Drawn + Len(fifo) + i
      BY <2>7, <2>8, <1>4, <1>7
    <3> QED
      BY <3>1, <1>0, <1>1 DEF Left
  <2>13. Left'
    <3>1. words = Encoded(playing')
      BY <1>0
    <3>2. Len(fifo') <= TxFifoDepth
      <4>1. Len(fifo) <= TxFifoDepth /\ TxFifoDepth \in Nat
        BY <1>1, TxAssumption DEF Left
      <4> QED
        BY <4>1, <2>7, <1>7
    <3>3. Len(osr') <= 15 /\ Drawn' >= 0
      BY <2>6, <2>8, <1>4
    <3> QED
      BY <2>10, <2>11, <2>12, <3>1, <3>2, <3>3 DEF Left
  <2>14. Head(Fetched) = words[Drawn + 1][1] /\ Fetched # <<>>
    BY <2>3, <2>4, <2>5, <2>16, TailFacts
  <2>15. 16 * ((Drawn + 1) - 1) + 1 = Taken + 1
    BY <2>1, <1>4
  <2> QED
    BY <1>0, <2>4, <2>9, <2>13, <2>14, <2>15
<1> QED
  BY <1>5, <1>6

(* A bit time in which nothing is fetched. *)
LEMMA NothingTaken ==
    ASSUME Left, UNCHANGED <<fifo, osr, remaining, playing>>
    PROVE  Left' /\ Taken' = Taken
<1>1. Drawn' = Drawn
  BY DEF Drawn
<1>2. Taken' = Taken
  BY <1>1 DEF Taken
<1> QED
  BY <1>1, <1>2 DEF Left

(* Where the player is, from the number of the bit on the wire. *)
LEMMA Positions ==
    ASSUME Encoder, Types, Sending, playing # Nothing
    PROVE  /\ at <= Bits(playing) + 4
           /\ at = 0 => slot = "start" /\ Taken = 0 /\ ~oe /\ ~irq_eop
           /\ at >= 1 => oe
           /\ at >= 1 /\ at <= Bits(playing) + 1 =>
               slot = Waveform(playing)[at] /\ Taken = at - 1 /\ ~irq_eop
           /\ at >= Bits(playing) + 2 => irq_eop
           /\ at = Bits(playing) + 2 => slot = "SE0" /\ Taken = at - 1
           /\ at = Bits(playing) + 3 => slot = "SE0_again" /\ Taken = at - 2
           /\ at = Bits(playing) + 4 => slot = "J" /\ Taken = at - 3
<1> DEFINE b == Bits(playing)
           wave == Waveform(playing)
<1>1. b \in Nat
  BY Symbols DEF Sending
<1>2. at \in Nat
  BY DEF Types
<1>3. \/ at = 0 /\ slot = "start" /\ Taken = 0 /\ ~oe /\ ~irq_eop
      \/ at \in 1 .. b + 1 /\ slot = wave[at] /\ Taken = at - 1 /\ oe /\ ~irq_eop
      \/ at = b + 2 /\ slot = "SE0" /\ Taken = at - 1 /\ oe /\ irq_eop
      \/ at = b + 3 /\ slot = "SE0_again" /\ Taken = at - 2 /\ oe /\ irq_eop
      \/ at = b + 4 /\ slot = "J" /\ Taken = at - 3 /\ oe /\ irq_eop
  BY DEF Sending, Position
<1> HIDE DEF b, wave
<1>4. /\ at <= b + 4
      /\ at = 0 => slot = "start" /\ Taken = 0 /\ ~oe /\ ~irq_eop
      /\ at >= 1 => oe
      /\ at >= 1 /\ at <= b + 1 => slot = wave[at] /\ Taken = at - 1 /\ ~irq_eop
      /\ at >= b + 2 => irq_eop
      /\ at = b + 2 => slot = "SE0" /\ Taken = at - 1
      /\ at = b + 3 => slot = "SE0_again" /\ Taken = at - 2
      /\ at = b + 4 => slot = "J" /\ Taken = at - 3
  <2>1. CASE at = 0 /\ slot = "start" /\ Taken = 0 /\ ~oe /\ ~irq_eop
    BY <1>1, <1>2, <2>1
  <2>2. CASE at \in 1 .. b + 1 /\ slot = wave[at] /\ Taken = at - 1 /\ oe /\ ~irq_eop
    <3>1. /\ at # 0 /\ at >= 1 /\ at <= b + 1 /\ at <= b + 4 /\ ~(at >= b + 2)
          /\ at # b + 2 /\ at # b + 3 /\ at # b + 4
      BY <1>1, <1>2, <2>2
    <3> QED
      BY Zenon, <2>2, <3>1
  <2>3. CASE at = b + 2 /\ slot = "SE0" /\ Taken = at - 1 /\ oe /\ irq_eop
    BY <1>1, <1>2, <2>3
  <2>4. CASE at = b + 3 /\ slot = "SE0_again" /\ Taken = at - 2 /\ oe /\ irq_eop
    BY <1>1, <1>2, <2>4
  <2>5. CASE at = b + 4 /\ slot = "J" /\ Taken = at - 3 /\ oe /\ irq_eop
    BY <1>1, <1>2, <2>5
  <2> QED
    BY <1>3, <2>1, <2>2, <2>3, <2>4, <2>5
<1> QED
  BY <1>4 DEF b, wave

(* A bit time within a packet: the player puts its next bit on the wire. *)
LEMMA PlaySends ==
    ASSUME Encoder, Types, Sending, Loaded, Bit, playing # Nothing, at < Bits(playing) + 4
    PROVE  playing' = playing /\ at' = at + 1 /\ Sending'
<1> DEFINE b == Bits(playing)
           wave == Waveform(playing)
           N == Len(Encoded(playing))
<1>1. playing \in Packets /\ Encoded(playing) # None /\ enabled /\ Left /\ Position
  BY DEF Sending
<1>2. /\ b \in Nat /\ Len(wave) = b + 4 /\ wave[1] = "J" /\ N \in Nat
      /\ \A k \in 1 .. b + 1 : wave[k] \in {"J", "K"}
      /\ wave[b + 2] = "SE0" /\ b + 2 <= 16 * N
  BY <1>1, Symbols
<1>3. at \in Nat /\ at < b + 4
  BY DEF Types
<1>4. playing' = playing /\ at' = at + 1
  BY <1>2, <1>3 DEF Bit, Due
<1>5. Play /\ enabled' /\ remaining' = remaining /\ (looked \/ away > 0)
  BY <1>1 DEF Bit
<1>0. b = Bits(playing) /\ b = Bits(playing') /\ wave = Waveform(playing)
      /\ wave = Waveform(playing') /\ N = Len(Encoded(playing))
  BY <1>4
<1> HIDE DEF b, wave, N
<1>10. ASSUME Left',
              \/ at' \in 1 .. b + 1 /\ slot' = wave[at'] /\ Taken' = at' - 1 /\ oe' /\ ~irq_eop'
              \/ at' = b + 2 /\ slot' = "SE0" /\ Taken' = at' - 1 /\ oe' /\ irq_eop'
              \/ at' = b + 3 /\ slot' = "SE0_again" /\ Taken' = at' - 2 /\ oe' /\ irq_eop'
              \/ at' = b + 4 /\ slot' = "J" /\ Taken' = at' - 3 /\ oe' /\ irq_eop'
       PROVE  Sending'
  <2>1. Position'
    BY <1>0, <1>10 DEF Position
  <2> QED
    BY <1>1, <1>4, <1>5, <1>10, <2>1 DEF Sending
<1>6. CASE at = 0
  <2>1. slot = "start" /\ Taken = 0 /\ ~irq_eop
    BY <1>6, Positions
  <2>2. slot' = "J" /\ oe' = TRUE /\ UNCHANGED <<fifo, osr, irq_eop>>
    BY <1>5, <2>1 DEF Play
  <2>3. Left' /\ Taken' = 0
    BY <1>1, <1>4, <1>5, <2>1, <2>2, NothingTaken
  <2>4. at' = 1 /\ 1 \in 1 .. b + 1 /\ Taken' = 1 - 1
    BY <1>2, <1>4, <1>6, <2>3
  <2> QED
    <3>1. at' \in 1 .. b + 1 /\ Taken' = at' - 1
      BY <1>2, <2>3, <2>4
    <3>2. slot' = wave[at']
      BY <1>2, <2>2, <2>4
    <3>3. oe' /\ ~irq_eop'
      BY Zenon, <2>1, <2>2
    <3> QED
      BY Zenon, <1>4, <1>10, <2>3, <3>1, <3>2, <3>3
<1>7. CASE at >= 1 /\ at <= b + 1
  <2>1. slot = wave[at] /\ Taken = at - 1 /\ oe /\ ~irq_eop
    BY <1>0, <1>7, Positions
  <2>2. slot \in {"J", "K"}
    BY <1>2, <1>3, <1>7, <2>1
  <2>3. Taken < 16 * N
    BY <1>2, <1>3, <1>7, <2>1
  <2>4. Fetched # <<>>
    BY <1>0, <1>5, <2>3, SymbolThere
  <2>5. Enter(Head(Fetched)) /\ Draws
    BY <1>4, <1>5, <2>2, <2>4 DEF Play, Draws
  <2>6. Left' /\ Taken' = Taken + 1
    BY <1>0, <1>5, <2>3, <2>5, NextSymbol
  <2>7. PICK w \in 1 .. Len(Encoded(playing)), j \in 1 .. 16 :
          16 * (w - 1) + j = Taken + 1 /\ Head(Fetched) = Encoded(playing)[w][j]
    BY <1>0, <1>5, <2>3, <2>5, NextSymbol
  <2>8. at = 16 * (w - 1) + j
    BY <2>1, <2>7, <1>3
  <2>12. Encoded(playing)[w][j] = CASE at <= b     -> wave[at + 1]
                                    [] at = b + 1  -> "SE0"
                                    [] at = b + 2  -> "COMP"
                                    [] OTHER       -> "J"
    <3>1. Encoded(playing)[w][j] = SymbolAt(Waveform(playing), at)
      BY ZenonT(40), <1>1, <2>8, SymbolOf
    <3> QED
      BY <3>1 DEF SymbolAt, b, wave, Bits
  <2>9. Taken' = at' - 1 /\ at' \in Nat
    BY <2>1, <2>6, <1>3, <1>4
  <2>10. CASE at <= b
    <3>1. Head(Fetched) = wave[at + 1]
      BY SMTT(40), <1>2, <1>3, <2>7, <2>10, <2>12
    <3>2. at + 1 \in 1 .. b + 1
      BY <1>2, <1>3, <2>10
    <3>3. Head(Fetched) \in {"J", "K"}
      BY <1>2, <3>1, <3>2
    <3>4. slot' = wave[at + 1] /\ oe' /\ ~irq_eop'
      BY <2>1, <2>5, <3>1, <3>3 DEF Enter
    <3> QED
      BY <1>4, <1>10, <2>6, <2>9, <3>2, <3>4
  <2>11. CASE at = b + 1
    <3>1. Head(Fetched) = "SE0"
      BY <1>2, <1>3, <2>7, <2>11, <2>12
    <3>2. slot' = "SE0" /\ oe' /\ irq_eop'
      BY <2>1, <2>5, <3>1 DEF Enter
    <3>3. at' = b + 2
      BY <1>2, <1>4, <2>11
    <3> QED
      BY Zenon, <1>4, <1>10, <2>6, <2>9, <3>2, <3>3
  <2> QED
    BY <1>2, <1>3, <1>7, <2>10, <2>11
<1>8. CASE at = b + 2
  <2>1. slot = "SE0" /\ Taken = at - 1 /\ oe /\ irq_eop
    BY SMTT(40), <1>0, <1>2, <1>3, <1>8, Positions
  <2>2. slot' = "SE0_again" /\ UNCHANGED <<fifo, osr, irq_eop, oe>>
    BY <1>5, <2>1 DEF Play
  <2>3. Left' /\ Taken' = Taken
    BY <1>1, <1>4, <1>5, <2>2, NothingTaken
  <2>4. at' \in Nat /\ at' = b + 3 /\ Taken' = at' - 2
    BY <1>2, <1>4, <1>8, <2>1, <2>3
  <2>5. oe' /\ irq_eop'
    BY Zenon, <2>1, <2>2
  <2> QED
    BY Zenon, <1>4, <1>10, <2>2, <2>3, <2>4, <2>5
<1>9. CASE at = b + 3
  <2>1. slot = "SE0_again" /\ Taken = at - 2 /\ oe /\ irq_eop
    BY SMTT(40), <1>0, <1>2, <1>3, <1>9, Positions
  <2>2. slot' = "J" /\ UNCHANGED <<fifo, osr, irq_eop, oe>>
    BY <1>5, <2>1 DEF Play
  <2>3. Left' /\ Taken' = Taken
    BY <1>1, <1>4, <1>5, <2>2, NothingTaken
  <2>4. at' \in Nat /\ at' = b + 4 /\ Taken' = at' - 3
    BY <1>2, <1>4, <1>9, <2>1, <2>3
  <2>5. oe' /\ irq_eop'
    BY Zenon, <2>1, <2>2
  <2> QED
    BY Zenon, <1>4, <1>10, <2>2, <2>3, <2>4, <2>5
<1> QED
  BY <1>2, <1>3, <1>4, <1>6, <1>7, <1>8, <1>9

(* While words are fed, the packet is far from its end. *)
LEMMA NotFed ==
    ASSUME Encoder, Types, Sending, Loaded, playing # Nothing, looked \/ away > 0,
           pc = "feed"
    PROVE  at <= Bits(playing)
<1> DEFINE b == Bits(playing)
           N == Len(Encoded(playing))
<1>1. b \in Nat /\ N \in Nat /\ 16 * N <= b + 18
  BY Symbols DEF Sending
<1>2. Len(fifo) \in Nat /\ Len(remaining) \in Nat /\ Len(osr) \in Nat /\ at \in Nat
  BY DEF Types
<1>3. Len(fifo) >= 1
  <2>1. Len(fifo) >= TxFifoDepth
    BY DEF Loaded, tx_full
  <2>2. TxFifoDepth \in Nat \ {0}
    BY TxAssumption
  <2> QED
    BY <1>2, <2>1, <2>2
<1>4. Len(remaining) >= 1
  <2>1. remaining # <<>> /\ remaining \in Seq(Seq(Levels))
    BY DEF Loaded, Types
  <2> QED
    BY <2>1, TailFacts
<1>5. Taken <= b - 14
  <2>1. Taken = 16 * (N - Len(fifo) - Len(remaining)) - Len(osr)
    BY DEF Taken, Drawn
  <2> HIDE DEF b, N
  <2> QED
    BY <1>1, <1>2, <1>3, <1>4, <2>1
<1>6. /\ at <= b + 4
      /\ at >= 1 /\ at <= b + 1 => Taken = at - 1
      /\ at = b + 2 => Taken = at - 1
      /\ at = b + 3 => Taken = at - 2
      /\ at = b + 4 => Taken = at - 3
  BY Positions
<1> HIDE DEF b, N
<1>7. at <= b
  <2>1. CASE at <= b + 1
    BY <1>1, <1>2, <1>5, <1>6, <2>1
  <2>2. CASE at > b + 1
    BY <1>1, <1>2, <1>5, <1>6, <2>2
  <2> QED
    BY <1>1, <1>2, <2>1, <2>2
<1> QED
  BY <1>7 DEF b

(* The symbols still to come, by their numbers. *)
LEMMA ToCome ==
    ASSUME Encoder, Types, Sending, playing # Nothing
    PROVE  /\ \A i \in 1 .. Len(osr) : osr[i] = SymbolAt(Waveform(playing), Taken + i)
           /\ \A i \in 1 .. Len(fifo) :
               /\ fifo[i] \in Seq(Levels) /\ Len(fifo[i]) = 16
               /\ \A j \in 1 .. 16 :
                   fifo[i][j] = SymbolAt(Waveform(playing), 16 * (Drawn + i - 1) + j)
<1> DEFINE words == Encoded(playing)
           wave == Waveform(playing)
           N == Len(words)
<1>1. playing \in Packets /\ Encoded(playing) # None /\ Left
  BY DEF Sending
<1>2. N \in Nat \ {0} /\ \A w \in 1 .. N : words[w] \in Seq(Levels) /\ Len(words[w]) = 16
  BY <1>1, Symbols
<1>3. Len(fifo) \in Nat /\ Len(remaining) \in Nat /\ Len(osr) \in Nat /\ Len(osr) <= 15
  <2>1. Len(osr) <= 15
    BY <1>1 DEF Left
  <2> QED
    BY <2>1 DEF Types
<1>4. Drawn = N - Len(fifo) - Len(remaining) /\ Drawn \in Nat /\ Drawn <= N
      /\ Taken = 16 * Drawn - Len(osr)
  <2>1. Drawn = N - Len(fifo) - Len(remaining) /\ Drawn >= 0
    BY <1>1 DEF Drawn, Left
  <2>2. Drawn \in Nat /\ Drawn <= N
    BY <2>1, <1>2, <1>3
  <2> QED
    BY <2>1, <2>2 DEF Taken
<1>5. ASSUME NEW w \in 1 .. N, NEW j \in 1 .. 16, NEW k, k = 16 * (w - 1) + j
      PROVE  words[w][j] = SymbolAt(wave, k)
  BY ZenonT(40), <1>1, <1>5, SymbolOf
<1>6. /\ \A i \in 1 .. Len(osr) : Drawn > 0 /\ osr[i] = words[Drawn][16 - Len(osr) + i]
      /\ \A i \in 1 .. Len(fifo) : fifo[i] = words[Drawn + i]
  BY <1>1 DEF Left
<1> HIDE DEF words, wave, N
<1>7. ASSUME NEW i \in 1 .. Len(osr)
      PROVE  osr[i] = SymbolAt(wave, Taken + i)
  <2>1. Drawn \in 1 .. N
    BY <1>2, <1>4, <1>6
  <2>2. 16 - Len(osr) + i \in 1 .. 16
    <3>1. \A l \in Nat : l <= 15 /\ i <= l => 16 - l + i \in 1 .. 16
      OBVIOUS
    <3> QED
      BY SMTT(40), <3>1, <1>3
  <2>3. Taken + i = 16 * (Drawn - 1) + (16 - Len(osr) + i)
    BY <1>3, <1>4
  <2>4. osr[i] = words[Drawn][16 - Len(osr) + i]
    BY <1>6
  <2> QED
    BY <1>5, <2>1, <2>2, <2>3, <2>4
<1>8. ASSUME NEW i \in 1 .. Len(fifo)
      PROVE  /\ fifo[i] \in Seq(Levels) /\ Len(fifo[i]) = 16
             /\ \A j \in 1 .. 16 : fifo[i][j] = SymbolAt(wave, 16 * (Drawn + i - 1) + j)
  <2>1. Drawn + i \in 1 .. N /\ fifo[i] = words[Drawn + i]
    BY <1>2, <1>3, <1>4, <1>6
  <2>2. ASSUME NEW j \in 1 .. 16
        PROVE  fifo[i][j] = SymbolAt(wave, 16 * (Drawn + i - 1) + j)
    <3> DEFINE w == Drawn + i
               k == 16 * (Drawn + i - 1) + j
    <3>1. w \in 1 .. N /\ fifo[i] = words[w]
      BY <2>1
    <3>2. k = 16 * (w - 1) + j
      BY <1>4
    <3> HIDE DEF w, k
    <3>3. words[w][j] = SymbolAt(wave, k)
      BY <1>5, <3>1, <3>2
    <3> QED
      BY <3>1, <3>3 DEF k
  <2> QED
    BY <1>2, <2>1, <2>2
<1> QED
  BY <1>7, <1>8 DEF wave

(* The bit time after a packet's last: the pins are released, and nothing  *)
(* but padding is left.                                                    *)
LEMMA PlayEnds ==
    ASSUME Encoder, Types, Sending, Loaded, Bit, playing # Nothing, at >= Bits(playing) + 4
    PROVE  playing' = Nothing /\ at' = 0 /\ pc # "feed" /\ Quiet' /\ at = Bits(playing) + 4
<1> DEFINE b == Bits(playing)
           wave == Waveform(playing)
           N == Len(Encoded(playing))
<1>1. playing \in Packets /\ Encoded(playing) # None /\ enabled
  BY DEF Sending
<1>2. b \in Nat /\ Len(wave) = b + 4 /\ N \in Nat /\ b + 2 <= 16 * N
  BY <1>1, Symbols
<1>3. at = b + 4 /\ slot = "J" /\ Taken = b + 1 /\ oe /\ irq_eop
  <2>1. at <= b + 4 /\ at \in Nat /\ at >= b + 4
    BY Positions DEF Types
  <2>2. at = b + 4
    BY <2>1, <1>2
  <2>3. slot = "J" /\ Taken = at - 3
    BY <2>2, Positions
  <2>4. oe /\ irq_eop
    <3>1. at >= 1 /\ at >= b + 2
      BY <2>2, <1>2
    <3> QED
      BY <3>1, Positions
  <2> QED
    BY <1>2, <2>2, <2>3, <2>4
<1>4. playing' = Nothing /\ at' = 0 /\ Play /\ enabled' /\ (looked \/ away > 0)
  BY <1>1, <1>2, <1>3 DEF Bit, Due
<1>5. pc # "feed"
  <2>1. pc = "feed" => at <= b
    BY <1>4, NotFed
  <2> QED
    BY <2>1, <1>2, <1>3
<1>6. Taken < 16 * N
  BY <1>2, <1>3
<1>7. /\ Fetched # <<>>
      /\ osr = <<>> =>
          fifo # <<>> /\ Taken = 16 * Drawn /\ fifo[1] = Encoded(playing)[Drawn + 1]
  BY <1>4, <1>6, SymbolThere
<1>8. Enter(Head(Fetched)) /\ osr' = Tail(Fetched)
      /\ fifo' = IF osr = <<>> THEN Tail(fifo) ELSE fifo
  BY <1>3, <1>4, <1>7 DEF Play
<1>9. /\ \A i \in 1 .. Len(osr) : osr[i] = SymbolAt(wave, Taken + i)
      /\ \A i \in 1 .. Len(fifo) :
          /\ fifo[i] \in Seq(Levels) /\ Len(fifo[i]) = 16
          /\ \A j \in 1 .. 16 : fifo[i][j] = SymbolAt(wave, 16 * (Drawn + i - 1) + j)
  BY ToCome
<1>10. ASSUME NEW k \in Nat
       PROVE  /\ k = b + 2 => SymbolAt(wave, k) = "COMP"
              /\ k > b + 2 => SymbolAt(wave, k) = "J"
  BY <1>2 DEF SymbolAt, Bits
<1>11. osr \in Seq(Levels) /\ fifo \in Seq(Seq(Levels)) /\ Len(osr) \in Nat /\ Len(fifo) \in Nat
  BY DEF Types
<1>12. Drawn \in Int /\ 16 * Drawn = Taken + Len(osr) /\ Taken \in Nat
  <2>1. Drawn = N - Len(fifo) - Len(remaining) /\ Len(remaining) \in Nat
    BY DEF Drawn, Types
  <2> QED
    BY <2>1, <1>2, <1>3, <1>11 DEF Taken
<1> HIDE DEF b, wave, N
<1>13. CASE osr # <<>>
  <2>1. Fetched = osr /\ osr' = Tail(osr) /\ fifo' = fifo
    BY <1>8, <1>13 DEF Fetched
  <2>2. /\ Head(osr) = osr[1] /\ Len(osr) >= 1 /\ Len(osr') = Len(osr) - 1 /\ Len(osr') \in Nat
        /\ \A i \in 1 .. Len(osr') : osr'[i] = osr[i + 1]
    BY <1>11, <1>13, <2>1, TailFacts
  <2>3. Head(Fetched) = "COMP"
    <3>1. osr[1] = SymbolAt(wave, Taken + 1) /\ Taken + 1 = b + 2 /\ Taken + 1 \in Nat
      BY <1>2, <1>3, <1>9, <2>2, <1>11
    <3> QED
      BY <3>1, <2>1, <2>2, <1>10
  <2>4. Padding(osr')
    <3> SUFFICES ASSUME NEW i \in 1 .. Len(osr')
                 PROVE  osr'[i] = "J"
      BY DEF Padding
    <3>1. i + 1 \in 1 .. Len(osr)
      BY <2>2, <1>11
    <3>2. osr'[i] = SymbolAt(wave, Taken + (i + 1))
      BY <3>1, <2>2, <1>9
    <3>3. Taken + (i + 1) \in Nat /\ Taken + (i + 1) > b + 2
      BY <1>2, <1>3, <2>2
    <3> QED
      BY <3>2, <3>3, <1>10
  <2>5. ASSUME NEW i \in 1 .. Len(fifo')
        PROVE  Padding(fifo'[i])
    <3> SUFFICES ASSUME NEW j \in 1 .. 16
                 PROVE  fifo[i][j] = "J"
      BY <1>9, <2>1 DEF Padding
    <3>1. 16 * (Drawn + i - 1) + j \in Nat /\ 16 * (Drawn + i - 1) + j > b + 2
      <4>1. Drawn + i - 1 >= Drawn /\ Drawn + i - 1 \in Int
        BY <1>11, <1>12, <2>1
      <4> QED
        BY <4>1, <1>2, <1>3, <1>11, <1>12, <2>2
    <3> QED
      BY <3>1, <1>9, <1>10, <2>1
  <2> QED
    BY <1>3, <1>4, <1>5, <1>8, <2>3, <2>4, <2>5 DEF Quiet, Enter, b
<1>14. CASE osr = <<>>
  <2>1. fifo # <<>> /\ Fetched = fifo[1] /\ osr' = Tail(fifo[1]) /\ fifo' = Tail(fifo)
        /\ Len(osr) = 0
    BY <1>7, <1>8, <1>11, <1>14 DEF Fetched
  <2>2. /\ Len(fifo) >= 1 /\ Len(fifo') = Len(fifo) - 1 /\ Len(fifo') \in Nat
        /\ \A i \in 1 .. Len(fifo') : fifo'[i] = fifo[i + 1]
    BY <1>11, <2>1, TailFacts
  <2>3. fifo[1] \in Seq(Levels) /\ Len(fifo[1]) = 16
        /\ \A j \in 1 .. 16 : fifo[1][j] = SymbolAt(wave, 16 * (Drawn + 1 - 1) + j)
    BY <1>9, <1>11, <2>2
  <2>4. /\ Head(fifo[1]) = fifo[1][1] /\ Len(osr') = 15
        /\ \A i \in 1 .. Len(osr') : osr'[i] = fifo[1][i + 1]
    BY <1>7, <2>1, <2>3, TailFacts
  <2>5. \A j \in 1 .. 16 : fifo[1][j] = SymbolAt(wave, Taken + j)
    <3>1. 16 * (Drawn + 1 - 1) = Taken
      BY <1>12, <2>1
    <3> QED
      BY Zenon, <2>3, <3>1
  <2>6. Head(Fetched) = "COMP"
    <3>1. fifo[1][1] = SymbolAt(wave, Taken + 1) /\ Taken + 1 = b + 2 /\ Taken + 1 \in Nat
      BY <1>2, <1>3, <2>5
    <3> QED
      BY <3>1, <2>1, <2>4, <1>10
  <2>7. Padding(osr')
    <3> SUFFICES ASSUME NEW i \in 1 .. 15
                 PROVE  osr'[i] = "J"
      BY <2>4 DEF Padding
    <3>2. osr'[i] = SymbolAt(wave, Taken + (i + 1))
      BY <2>4, <2>5
    <3>3. Taken + (i + 1) \in Nat /\ Taken + (i + 1) > b + 2
      BY <1>2, <1>3
    <3> QED
      BY <3>2, <3>3, <1>10
  <2>8. ASSUME NEW i \in 1 .. Len(fifo')
        PROVE  Padding(fifo'[i])
    <3>1. i + 1 \in 1 .. Len(fifo) /\ fifo'[i] = fifo[i + 1]
      BY <2>2, <1>11
    <3> SUFFICES ASSUME NEW j \in 1 .. 16
                 PROVE  fifo[i + 1][j] = "J"
      BY <1>9, <3>1 DEF Padding
    <3>2. 16 * (Drawn + (i + 1) - 1) + j \in Nat /\ 16 * (Drawn + (i + 1) - 1) + j > b + 2
      <4>1. Drawn + (i + 1) - 1 >= Drawn + 1 /\ Drawn + (i + 1) - 1 \in Int
        BY <1>12, <2>2
      <4> QED
        BY <4>1, <1>2, <1>3, <1>12, <2>1
    <3> QED
      BY <3>1, <3>2, <1>9, <1>10
  <2> QED
    BY <1>3, <1>4, <1>5, <1>8, <2>6, <2>7, <2>8 DEF Quiet, Enter, b
<1> QED
  BY <1>13, <1>14

(* Between packets: padding, or a player that stands still. *)
LEMMA PlayIdles ==
    ASSUME Types, Quiet, Bit, playing = Nothing
    PROVE  playing' = Nothing /\ at' = 0 /\ Quiet'
<1>1. playing' = Nothing /\ at' = 0 /\ ~oe
  BY DEF Bit, Due, Quiet
<1>2. CASE ~enabled
  BY <1>1, <1>2 DEF Bit, Quiet, player
<1>3. CASE enabled
  <2>1. Play /\ slot \in {"J", "K", "COMP"} /\ Padding(osr)
        /\ \A i \in 1 .. Len(fifo) : Padding(fifo[i])
    BY <1>3 DEF Bit, Quiet
  <2>2. osr \in Seq(Levels) /\ fifo \in Seq(Seq(Levels)) /\ Len(osr) \in Nat /\ Len(fifo) \in Nat
    BY DEF Types
  <2>3. CASE UNCHANGED <<fifo, osr, oe>> /\ slot' \in {"J", "K", "COMP"}
    BY <1>1, <2>1, <2>3 DEF Quiet
  <2>4. CASE /\ Fetched # <<>> /\ Enter(Head(Fetched)) /\ osr' = Tail(Fetched)
             /\ fifo' = IF osr = <<>> THEN Tail(fifo) ELSE fifo
    <3>1. CASE osr # <<>>
      <4>1. Fetched = osr /\ osr' = Tail(osr) /\ fifo' = fifo
        BY <2>4, <3>1 DEF Fetched
      <4>2. Head(osr) = osr[1] /\ Len(osr) >= 1 /\ Len(osr') = Len(osr) - 1
            /\ \A i \in 1 .. Len(osr') : osr'[i] = osr[i + 1]
        BY <2>2, <3>1, <4>1, TailFacts
      <4>3. Head(Fetched) = "J" /\ Padding(osr')
        BY <2>1, <2>2, <4>1, <4>2 DEF Padding
      <4> QED
        BY <1>1, <2>1, <2>4, <4>1, <4>3 DEF Quiet, Enter
    <3>2. CASE osr = <<>>
      <4>1. fifo # <<>> /\ Fetched = Head(fifo) /\ osr' = Tail(Fetched) /\ fifo' = Tail(fifo)
        BY <2>4, <3>2 DEF Fetched
      <4>2. Head(fifo) = fifo[1] /\ Head(fifo) \in Seq(Levels)
            /\ Len(fifo) >= 1 /\ Len(fifo') = Len(fifo) - 1
            /\ \A i \in 1 .. Len(fifo') : fifo'[i] = fifo[i + 1]
        BY <2>2, <4>1, TailFacts
      <4>3. Padding(Fetched) /\ \A i \in 1 .. Len(fifo') : Padding(fifo'[i])
        BY <2>1, <2>2, <4>1, <4>2
      <4>4. Head(Fetched) = Fetched[1] /\ Len(Fetched) >= 1 /\ Len(osr') = Len(Fetched) - 1
            /\ Len(Fetched) \in Nat /\ \A i \in 1 .. Len(osr') : osr'[i] = Fetched[i + 1]
        BY <2>4, <4>1, <4>2, TailFacts
      <4>5. Head(Fetched) = "J" /\ Padding(osr')
        BY <4>3, <4>4 DEF Padding
      <4> QED
        BY <1>1, <2>1, <2>4, <4>3, <4>5 DEF Quiet, Enter
    <3> QED
      BY <3>1, <3>2
  <2> QED
    BY <2>1, <2>3, <2>4 DEF Play
<1> QED
  BY <1>2, <1>3

-----------------------------------------------------------------------------

(* The types, over a bit time. *)
LEMMA BitTypes ==
    ASSUME Types, Bit
    PROVE  Types'
<1>1. fifo' \in Seq(Seq(Levels)) /\ osr' \in Seq(Levels)
  <2>1. CASE UNCHANGED <<fifo, osr>>
    BY <2>1 DEF Types
  <2>2. CASE /\ Fetched # <<>> /\ osr' = Tail(Fetched)
             /\ fifo' = IF osr = <<>> THEN Tail(fifo) ELSE fifo
    <3>1. osr \in Seq(Levels) /\ fifo \in Seq(Seq(Levels))
      BY DEF Types
    <3>2. fifo # <<>> => Head(fifo) \in Seq(Levels) /\ Tail(fifo) \in Seq(Seq(Levels))
      BY <3>1, TailFacts
    <3>3. Fetched \in Seq(Levels)
      BY <2>2, <3>1, <3>2 DEF Fetched
    <3>4. osr' \in Seq(Levels)
      BY <2>2, <3>3, TailFacts
    <3>5. osr = <<>> => fifo # <<>>
      BY <2>2 DEF Fetched
    <3> QED
      BY <2>2, <3>1, <3>2, <3>4, <3>5
  <2>3. enabled => UNCHANGED <<fifo, osr>>
                   \/ /\ Fetched # <<>> /\ osr' = Tail(Fetched)
                      /\ fifo' = IF osr = <<>> THEN Tail(fifo) ELSE fifo
    BY DEF Bit, Play
  <2>4. ~enabled => UNCHANGED <<fifo, osr>>
    BY DEF Bit, player
  <2> QED
    BY <2>1, <2>2, <2>3, <2>4
<1>2. oe' \in BOOLEAN /\ irq_eop' \in BOOLEAN
  <2>1. CASE enabled
    <3>1. Play
      BY <2>1 DEF Bit
    <3>2. oe \in BOOLEAN /\ irq_eop \in BOOLEAN
      BY DEF Types
    <3>3. oe' = oe \/ oe' = TRUE \/ \E s : oe' = (oe /\ s # "COMP")
      BY Zenon, <3>1 DEF Play, Enter
    <3>4. irq_eop' = irq_eop \/ \E s : irq_eop' = (irq_eop \/ s = "SE0")
      BY Zenon, <3>1 DEF Play, Enter
    <3>5. oe' \in BOOLEAN
      BY Zenon, <3>2, <3>3
    <3>6. irq_eop' \in BOOLEAN
      BY Zenon, <3>2, <3>4
    <3> QED
      BY <3>5, <3>6
  <2>2. CASE ~enabled
    <3>1. oe' = oe /\ irq_eop' = irq_eop
      BY <2>2 DEF Bit, player
    <3> QED
      BY Zenon, <3>1 DEF Types
  <2> QED
    BY <2>1, <2>2
<1>3. enabled' \in BOOLEAN
  <2>1. enabled' = enabled
    BY DEF Bit, player
  <2> QED
    BY Zenon, <2>1 DEF Types
<1>4. gap' \in Nat
  <2>1. \A g \in Gaps : g - 1 \in Nat
    BY TxAssumption
  <2>2. gap \in Nat
    BY DEF Types
  <2> QED
    BY <2>1, <2>2 DEF Bit, Answer
<1>5. talk' \in Nat
  <2>1. \A n \in Answers : n + EndBits \in Nat
    BY TxAssumption
  <2>2. talk \in Nat
    BY DEF Types
  <2> QED
    BY <2>1, <2>2 DEF Bit, Answer
<1>6. at' \in Nat /\ waited' \in Nat /\ away' \in Nat
  BY SMTT(40), TxAssumption DEF Bit, Due, AtMost, Types
<1>7. irq_start' \in BOOLEAN /\ looked' \in BOOLEAN
  BY Zenon DEF Bit
<1>8. remaining' = remaining /\ pc' = pc /\ prompt' = prompt
  BY DEF Bit
<1>9. remaining' \in Seq(Seq(Levels)) /\ prompt' \in BOOLEAN
      /\ pc' \in AfterStart \cup {"idle", "transmit", "start", "start_receive", "stage",
                                  "receive", "data", "ack"}
  BY Zenon, <1>8 DEF Types
<1> QED
  BY <1>1, <1>2, <1>3, <1>4, <1>5, <1>6, <1>7, <1>9 DEF Types

(* What a bit time does to the packet on the wire. *)
LEMMA BitPacket ==
    ASSUME Encoder, IInv, Bit
    PROVE  /\ Sending' /\ Quiet'
           /\ \/ playing' = Nothing /\ (playing # Nothing => pc # "feed")
              \/ /\ playing # Nothing /\ playing' = playing /\ at' = at + 1
                 /\ at < Len(Waveform(playing))
<1> USE DEF IInv
<1>1. CASE playing = Nothing
  <2>1. playing' = Nothing /\ Quiet'
    BY <1>1, PlayIdles
  <2> QED
    BY <1>1, <2>1 DEF Sending
<1>2. CASE playing # Nothing
  <2>1. Bits(playing) \in Nat /\ Len(Waveform(playing)) = Bits(playing) + 4 /\ at \in Nat
    BY <1>2, Symbols DEF Sending, Types
  <2>2. CASE at < Bits(playing) + 4
    <3>1. playing' = playing /\ at' = at + 1 /\ Sending'
      BY <1>2, <2>2, PlaySends
    <3>2. Quiet'
      BY <1>2, <3>1 DEF Quiet
    <3> QED
      BY <1>2, <2>1, <2>2, <3>1, <3>2
  <2>3. CASE at >= Bits(playing) + 4
    <3>1. playing' = Nothing /\ pc # "feed" /\ Quiet'
      BY <1>2, <2>3, PlayEnds
    <3> QED
      BY <3>1 DEF Sending
  <2> QED
    BY <2>1, <2>2, <2>3
<1> QED
  BY <1>1, <1>2

(* The turn of the bus in a bit time: an answer starts, or goes on, when   *)
(* an uninterrupted CPU has left the bus and listens.                      *)
LEMMA BitPrompt ==
    ASSUME Encoder, IInv, Bit
    PROVE  Prompt'
<1> USE DEF IInv
<1> SUFFICES ASSUME prompt
             PROVE  Prompt'
  BY DEF Bit, Prompt
<1>1. /\ gap \in Nat /\ talk \in Nat /\ waited \in Nat /\ at \in Nat
      /\ pc' = pc /\ then' = then /\ prompt' = prompt
  BY DEF Types, Bit
<1>2. looked /\ pc \in {"idle", "feed", "eop", "released", "receive", "data"}
      /\ (pc = "receive" => ~irq_start /\ waited < SopBits)
  <2>1. away = 0
    BY DEF Types, Looked
  <2>2. looked
    BY <2>1 DEF Bit
  <2> QED
    BY <2>2 DEF Looked
<1>3. waited' \in Nat /\ waited' <= waited + 1
  BY <1>1, TxAssumption DEF Bit, AtMost
<1>4. playing = Nothing => playing' = Nothing
  BY BitPacket
<1>5. CASE Over /\ Answered(playing) /\ (\E g \in Gaps : gap' = g - 1) /\ UNCHANGED talk
  <2>1. playing # Nothing /\ at = Len(Waveform(playing))
    BY <1>5 DEF Over
  <2>2. gap = 0 /\ talk' = 0
    <3>1. at >= 4
      BY <2>1, Symbols DEF Sending
    <3> QED
      BY <1>1, <1>5, <2>1, <3>1 DEF Prompt
  <2>3. gap' < SopBits
    BY <1>5, TxAssumption
  <2>4. playing' = Nothing
    <3>1. at \in Nat => ~(at < at)
      OBVIOUS
    <3> QED
      BY <1>1, <2>1, <3>1, BitPacket
  <2>5. then = "start_receive" /\ pc \in AfterStart
    BY <1>5, <2>1 DEF Planned
  <2>6. Bits(playing) \in Nat /\ at = Bits(playing) + 4
    BY <2>1, Symbols DEF Sending
  <2>7. pc # "feed"
    <3>1. pc = "feed" => at <= Bits(playing)
      BY <1>2, <2>1, NotFed
    <3> QED
      BY <2>6, <3>1
  <2>8. pc # "eop"
    <3>1. irq_eop
      <4>1. at >= Bits(playing) + 2
        BY <2>6
      <4> QED
        BY <4>1, <2>1, Positions
    <3> QED
      BY <1>2, <3>1 DEF Looked
  <2>9. pc = "released"
    BY <1>2, <2>5, <2>7, <2>8 DEF AfterStart
  <2> QED
    BY <1>1, <2>2, <2>3, <2>4, <2>5, <2>9 DEF Prompt
<1>6. CASE /\ gap > 0 /\ gap' = gap - 1
           /\ IF gap = 1 THEN \E n \in Answers : talk' = n + EndBits ELSE UNCHANGED talk
  <2>1. /\ playing = Nothing /\ talk = 0 /\ gap < SopBits
        /\ \/ pc = "released"
           \/ pc = "receive" /\ ~irq_start /\ gap + waited < SopBits
    BY <1>2, <1>6 DEF Prompt
  <2>2. pc # "released" => pc = "receive" /\ ~irq_start /\ gap + waited < SopBits
    BY <2>1
  <2>3. pc # "released"
    BY <1>2, <2>1 DEF Looked, Quiet
  <2>4. pc = "receive" /\ gap + waited < SopBits /\ playing' = Nothing
    BY <1>4, <2>1, <2>2, <2>3
  <2>5. CASE gap = 1
    <3>1. gap' = 0 /\ talk' \in Nat /\ talk' > EndBits /\ talk' > 0
      BY <1>6, <2>5, TxAssumption
    <3>2. irq_start'
      BY Zenon, <3>1 DEF Bit
    <3>3. waited' < SopBits
      BY <1>1, <1>3, <2>4, <2>5, TxAssumption
    <3> QED
      BY <1>1, <2>4, <3>1, <3>2, <3>3 DEF Prompt
  <2>6. CASE gap # 1
    <3>1. talk' = 0 /\ gap' = gap - 1
      BY <1>6, <2>1, <2>6
    <3>2. ~irq_start'
      <4>1. ~(talk' > 0)
        BY <3>1
      <4> QED
        BY Zenon, <1>2, <2>4, <4>1 DEF Bit
    <3>3. gap' < SopBits /\ gap' + waited' < SopBits
      BY <1>1, <1>3, <2>1, <2>4, <3>1, TxAssumption
    <3> QED
      BY <1>1, <2>4, <3>1, <3>2, <3>3 DEF Prompt
  <2> QED
    BY <2>5, <2>6
<1>7. CASE gap = 0 /\ talk' = (IF talk > 0 THEN talk - 1 ELSE 0) /\ UNCHANGED gap
  <2>1. gap' = 0
    BY <1>7
  <2>2. talk' \in Nat /\ talk' <= talk /\ (talk' > 0 => talk = talk' + 1)
    BY <1>1, <1>7
  <2>3. talk > EndBits => playing = Nothing /\ pc = "data"
    BY <1>2 DEF Prompt
  <2>4. talk > 0 /\ talk <= EndBits /\ playing = Nothing => pc = "idle"
    <3>1. pc = "data" => talk > EndBits
      BY <1>2 DEF Looked
    <3> QED
      BY <1>1, <1>2, <3>1 DEF Prompt
  <2>5. talk > 0 /\ talk <= EndBits /\ playing # Nothing => at + talk <= EndBits
    BY DEF Prompt
  <2>6. ASSUME playing # Nothing, talk > 0, talk <= EndBits
        PROVE  playing' = playing /\ at' = at + 1
    <3>1. at < 4
      BY <1>1, <2>5, <2>6
    <3>2. at < Len(Waveform(playing))
      BY <1>1, <2>6, <3>1, Symbols DEF Sending
    <3> QED
      BY <2>6, <3>2 DEF Bit, Due
  <2>7. CASE talk > EndBits
    <3>1. playing' = Nothing /\ pc' = "data"
      BY <1>1, <1>4, <2>3, <2>7
    <3> QED
      BY <2>1, <3>1 DEF Prompt
  <2>8. CASE talk > 0 /\ talk <= EndBits
    <3>1. ~(talk' > EndBits)
      BY <1>1, <2>2, <2>8
    <3>2. CASE playing = Nothing
      BY <1>1, <1>4, <2>1, <2>4, <2>8, <3>1, <3>2 DEF Prompt
    <3>3. CASE playing # Nothing
      <4>1. playing' # Nothing /\ at' = at + 1 /\ at + talk <= EndBits
        BY <2>5, <2>6, <2>8, <3>3
      <4>2. talk' > 0 => at' + talk' <= EndBits
        <5>1. ASSUME talk' > 0
              PROVE  at' + talk' = at + talk
          <6>1. PICK t \in Nat : talk' = t
            BY <2>2
          <6>2. talk = t + 1
            BY <2>2, <5>1, <6>1
          <6> QED
            BY <1>1, <4>1, <6>1, <6>2
        <5> QED
          BY <4>1, <5>1
      <4> QED
        BY <2>1, <3>1, <4>1, <4>2 DEF Prompt
    <3> QED
      BY <3>2, <3>3
  <2>9. CASE talk = 0
    <3>1. talk' = 0
      BY <1>7, <2>9
    <3> QED
      BY <2>1, <3>1 DEF Prompt
  <2> QED
    BY <1>1, <2>7, <2>8, <2>9
<1> QED
  BY <1>5, <1>6, <1>7 DEF Bit, Answer

LEMMA BitKeeps ==
    ASSUME Encoder, IInv, Bit
    PROVE  IInv'
<1> USE DEF IInv
<1>1. Types'
  BY BitTypes
<1>2. /\ Sending' /\ Quiet'
      /\ \/ playing' = Nothing /\ (playing # Nothing => pc # "feed")
         \/ /\ playing # Nothing /\ playing' = playing /\ at' = at + 1
            /\ at < Len(Waveform(playing))
  BY BitPacket
<1>3. /\ UNCHANGED <<pc, todo, remaining, then, asked, prompt>>
      /\ looked' = (pc = "idle") /\ (looked \/ away > 0)
      /\ away' = (IF away > 0 THEN away - 1 ELSE 0)
      /\ waited' = AtMost(waited + 1, WaitBits + 1)
      /\ ~enabled => UNCHANGED player
  BY DEF Bit
<1>4. Loaded'
  <2>1. pc = "feed" => remaining # <<>> /\ away = 0 /\ playing # Nothing
    BY DEF Loaded
  <2>2. pc = "feed" => away' = 0 /\ playing' # Nothing /\ ~looked'
    <3>1. pc = "feed" => away' = 0
      BY <1>3, <2>1
    <3>2. pc = "feed" => playing' # Nothing
      BY Zenon, <1>2, <2>1
    <3>3. pc = "feed" => ~looked'
      BY <1>3
    <3> QED
      BY <3>1, <3>2, <3>3
  <2>3. pc = "start" => Ready(Encoded(Head(todo)))'
    BY <1>3 DEF Loaded, Ready, player
  <2>4. (pc \in {"receive", "data"} /\ asked[1].pid = USB_PID_IN) \/ pc = "ack" =>
          Ready(Encoded(Ack))'
    BY <1>3 DEF Loaded, Ready, player
  <2>5. pc \notin {"start", "feed"} => remaining = <<>>
    BY DEF Loaded
  <2> QED
    BY <1>3, <2>1, <2>2, <2>3, <2>4, <2>5 DEF Loaded
<1>5. Planned'
  BY <1>2, <1>3 DEF Planned
<1>6. Timed'
  <2> SUFFICES ASSUME playing' # Nothing
               PROVE  Timed'
    BY DEF Timed
  <2>1. playing # Nothing /\ playing' = playing /\ at' = at + 1 /\ at \in Nat
    BY <1>2 DEF Types
  <2>2. waited \in Nat /\ waited' \in Nat /\ waited' <= waited + 1
    BY <1>3, TxAssumption DEF AtMost, Types
  <2>3. Len(Waveform(playing)) \in Nat
    BY <2>1, Symbols DEF Sending
  <2>4. Rest \in Int /\ Rest' = Rest - 1
    BY <2>1, <2>3 DEF Rest
  <2> QED
    BY SMTT(40), <1>3, <2>1, <2>2, <2>4, TxAssumption DEF Timed
<1>7. Looked'
  <2>1. away' > 0 => away > 0
    BY <1>3 DEF Types
  <2>2. prompt => away = 0 /\ looked
    BY <1>3 DEF Looked, Types
  <2>3. prompt => pc # "eop_clock" /\ pc # "released_clock"
    BY <2>2 DEF Looked
  <2> QED
    BY <1>3, <2>1, <2>3 DEF Looked
<1>8. Prompt'
  BY BitPrompt
<1> QED
  BY <1>1, <1>2, <1>4, <1>5, <1>6, <1>7, <1>8

LEMMA InterruptKeeps ==
    ASSUME IInv, Interrupt
    PROVE  IInv'
<1> USE DEF IInv
<1>1. /\ UNCHANGED <<player, device, history, pc, todo, remaining, then, waited, asked, looked>>
      /\ away' \in Nat /\ ~prompt' /\ prompt' \in BOOLEAN /\ pc # "idle" /\ pc # "feed"
  BY TxAssumption DEF Interrupt, Critical
<1>2. Types'
  BY <1>1 DEF Types, player, device, history
<1>3. Sending' /\ Quiet'
  BY <1>1 DEF Sending, Left, Position, Taken, Drawn, Quiet, player, history
<1>4. Loaded'
  BY <1>1 DEF Loaded, Ready, player, history
<1>5. Planned' /\ Timed'
  BY <1>1 DEF Planned, Timed, Rest, history
<1>6. Looked' /\ Prompt'
  BY <1>1 DEF Looked, Prompt
<1> QED
  BY <1>2, <1>3, <1>4, <1>5, <1>6

(* Outside of a packet's own transmission nothing is on the wire, and an   *)
(* uninterrupted host has no answer to meet before it has sent a packet,   *)
(* but the end of the one before.                                          *)
LEMMA Silent ==
    ASSUME IInv, pc \notin AfterStart
    PROVE  playing = Nothing /\ at = 0 /\ ~oe
<1>1. playing = Nothing
  BY DEF IInv, Planned
<1> QED
  BY <1>1 DEF IInv, Quiet

LEMMA NoAnswer ==
    ASSUME IInv, prompt, pc \notin {"released", "start_receive", "stage", "receive", "data"}
    PROVE  /\ gap = 0 /\ talk <= EndBits
           /\ talk > 0 => \/ playing = Nothing /\ pc \in {"ack", "idle", "transmit", "start"}
                          \/ playing # Nothing /\ at + talk <= EndBits
<1>1. gap \in Nat /\ talk \in Nat /\ ~(gap > 0) /\ ~(talk > EndBits)
  BY DEF IInv, Types, Prompt
<1>2. talk <= EndBits
  BY <1>1
<1> QED
  BY <1>1, <1>2 DEF IInv, Prompt

LEMMA BeginKeeps ==
    ASSUME IInv, Begin
    PROVE  IInv'
<1> USE DEF IInv
<1>1. /\ UNCHANGED <<player, device, history, away, remaining, then, waited>>
      /\ pc = "idle" /\ prompt' = (prompt \/ gap + talk = 0)
  BY DEF Begin
<1>2. PICK t \in Transactions :
        \/ UNCHANGED <<pc, todo, looked>>
        \/ /\ \A i \in DOMAIN t : Encoded(t[i]) # None
           /\ pc' = "transmit" /\ todo' = t /\ looked' = FALSE
  BY DEF Begin
<1>3. playing = Nothing /\ at = 0 /\ ~oe
  BY <1>1, Silent DEF AfterStart
<1>4. pc' \in {"idle", "transmit"} /\ looked' \in BOOLEAN /\ (pc' = "transmit" => ~looked')
  BY <1>1, <1>2 DEF Types
<1>5. Types'
  <2>1. prompt' \in BOOLEAN
    BY Zenon, <1>1
  <2> QED
    BY <1>1, <1>4, <2>1 DEF Types, player, device, history
<1>6. Sending' /\ Quiet' /\ Timed'
  BY <1>1, <1>3 DEF Sending, Quiet, Timed, player, history
<1>7. Loaded'
  BY <1>1, <1>4 DEF Loaded
<1>8. Planned'
  <2>1. playing' = Nothing
    BY <1>1, <1>3 DEF history
  <2>2. CASE UNCHANGED <<pc, todo, looked>>
    BY <1>1, <2>1, <2>2 DEF Planned, AfterStart
  <2>3. CASE /\ \A i \in DOMAIN t : Encoded(t[i]) # None
             /\ pc' = "transmit" /\ todo' = t /\ looked' = FALSE
    <3>1. t \in Seq(Packets) /\ t # <<>> /\ \A i \in 1 .. Len(t) - 1 : ~Answered(t[i])
      BY TxAssumption
    <3>2. \A i \in 1 .. Len(t) : Encoded(t[i]) # None
      BY <3>1, <2>3
    <3> QED
      BY <1>1, <2>1, <2>3, <3>1, <3>2 DEF Planned, AfterStart
  <2> QED
    BY <1>2, <2>2, <2>3
<1>9. Looked'
  <2>1. away' = 0
    BY <1>1 DEF Looked, Types
  <2> QED
    BY <1>4, <2>1 DEF Looked
<1>10. Prompt'
  <2>1. prompt' => gap = 0 /\ talk <= EndBits
    <3>1. CASE prompt
      BY <1>1, <3>1, NoAnswer
    <3>2. CASE gap + talk = 0
      BY <3>2 DEF Types
    <3> QED
      BY Zenon, <1>1, <3>1, <3>2
  <2>2. gap' = gap /\ talk' = talk /\ playing' = Nothing /\ talk \in Nat
    BY <1>1, <1>3 DEF device, history, Types
  <2>3. ~(0 > 0) /\ (talk <= EndBits => ~(talk > EndBits))
    BY <2>2
  <2> QED
    BY <1>4, <2>1, <2>2, <2>3 DEF Prompt
<1> QED
  BY <1>5, <1>6, <1>7, <1>8, <1>9, <1>10

(* What every step of the CPU has in common. *)
Working == ~looked /\ away = 0 /\ UNCHANGED <<gap, talk, result, asked, bounds, prompt>>

LEMMA PrepareKeeps ==
    ASSUME Encoder, IInv, Working, prepare
    PROVE  IInv'
<1> USE DEF IInv
<1> DEFINE all == Encoded(Head(todo))
           n == AtMost(Len(all), TxFifoDepth)
<1>1. /\ pc = "transmit" /\ pc' = "start"
      /\ fifo' = SubSeq(all, 1, n) /\ remaining' = SubSeq(all, n + 1, Len(all))
      /\ osr' = <<>> /\ slot' = "start" /\ enabled' = FALSE /\ irq_eop' = FALSE
      /\ UNCHANGED <<oe, irq_start, playing, at, todo, then, waited, looked>>
  BY DEF prepare, prepare_tx_packet, history
<1>2. UNCHANGED <<gap, talk, asked, away, prompt>> /\ ~looked /\ away = 0
  BY DEF Working, bounds
<1>3. playing = Nothing /\ at = 0 /\ ~oe
  BY <1>1, Silent DEF AfterStart
<1>4. todo \in Seq(Packets) /\ todo # <<>> /\ Head(todo) \in Packets
  BY <1>1, TailFacts DEF Planned
<1>5. all \in Seq(Seq(Levels)) /\ Len(all) \in Nat
  BY <1>4 DEF Encoder
<1>6. TxFifoDepth \in Nat /\ n \in Nat /\ n <= Len(all) /\ n <= TxFifoDepth
  BY <1>5, TxAssumption DEF AtMost
<1> HIDE DEF all, n
<1>7. /\ fifo' \in Seq(Seq(Levels)) /\ remaining' \in Seq(Seq(Levels))
      /\ Len(fifo') = n /\ Len(remaining') = Len(all) - n
      /\ \A i \in 1 .. Len(fifo') : fifo'[i] = all[i]
      /\ \A i \in 1 .. Len(remaining') : remaining'[i] = all[n + i]
  <2>1. fifo' \in Seq(Seq(Levels)) /\ Len(fifo') = n
    BY <1>1, <1>5, <1>6
  <2>2. \A i \in 1 .. n : fifo'[i] = all[i]
    BY <1>1, <1>5, <1>6
  <2>3. remaining' \in Seq(Seq(Levels)) /\ Len(remaining') = Len(all) - n
    BY <1>1, <1>5, <1>6
  <2>4. \A i \in 1 .. Len(all) - n : remaining'[i] = all[n + i]
    BY <1>1, <1>5, <1>6
  <2> QED
    BY <2>1, <2>2, <2>3, <2>4
<1>8. Types'
  <2>1. osr' \in Seq(Levels)
    BY <1>1
  <2>2. enabled' \in BOOLEAN /\ irq_eop' \in BOOLEAN /\ pc' = "start"
    BY <1>1
  <2> QED
    BY <1>1, <1>2, <1>7, <2>1, <2>2 DEF Types
<1>9. Sending' /\ Quiet' /\ Timed'
  BY <1>1, <1>3 DEF Sending, Quiet, Timed
<1>10. Loaded'
  <2>1. all = Encoded(Head(todo'))
    BY <1>1 DEF all
  <2>2. Len(fifo') <= TxFifoDepth /\ Len(fifo') + Len(remaining') = Len(all)
    BY <1>5, <1>6, <1>7
  <2>3. \A i \in 1 .. Len(remaining') : remaining'[i] = all[Len(fifo') + i]
    BY <1>7
  <2>4. Ready(Encoded(Head(todo)))'
    BY <1>1, <1>7, <2>1, <2>2, <2>3 DEF Ready
  <2> QED
    BY <1>1, <2>4 DEF Loaded
<1>11. Planned'
  BY <1>1, <1>3, <1>4 DEF Planned, AfterStart
<1>12. Looked'
  BY <1>1, <1>2 DEF Looked
<1>13. Prompt'
  BY <1>1, <1>2, NoAnswer DEF Prompt
<1> QED
  BY <1>8, <1>9, <1>10, <1>11, <1>12, <1>13

(* The start of a packet that is loaded, and the time it needs if nothing  *)
(* of it is still to be fed.                                               *)
LEMMA Starts ==
    ASSUME Encoder, IInv, playing = Nothing,
           NEW p \in Packets, Encoded(p) # None, Ready(Encoded(p)),
           playing' = p, at' = 0, enabled',
           UNCHANGED <<fifo, osr, slot, oe, irq_eop, remaining>>
    PROVE  /\ Sending' /\ playing' # Nothing
           /\ remaining = <<>> => Rest' <= 16 * TxFifoDepth + 17
<1> DEFINE words == Encoded(p)
<1>1. /\ slot = "start" /\ osr = <<>> /\ ~irq_eop /\ ~oe
      /\ Len(fifo) <= TxFifoDepth /\ Len(fifo) + Len(remaining) = Len(words)
      /\ \A i \in 1 .. Len(fifo) : fifo[i] = words[i]
      /\ \A i \in 1 .. Len(remaining) : remaining[i] = words[Len(fifo) + i]
  BY DEF Ready, IInv, Quiet
<1>2. Len(fifo) \in Nat /\ Len(remaining) \in Nat /\ Len(words) \in Nat /\ Len(osr) = 0
  BY SMTT(40), <1>1, Symbols DEF IInv, Types
<1>3. playing' # Nothing
  BY TxAssumption
<1>4. words = Encoded(playing')
  OBVIOUS
<1>5. Len(Waveform(p)) = Bits(p) + 4 /\ Bits(p) \in Nat /\ Bits(p) + 2 <= 16 * Len(words)
  BY Symbols
<1> HIDE DEF words
<1>6. Drawn' = 0 /\ Taken' = 0
  <2>1. Drawn' = Len(words) - Len(fifo) - Len(remaining)
    BY <1>4 DEF Drawn
  <2>2. Drawn' = 0
    BY <2>1, <1>1, <1>2
  <2>3. Taken' = 16 * Drawn' - Len(osr)
    BY DEF Taken
  <2> QED
    BY <2>2, <2>3, <1>2
<1>7. Left'
  <2>1. Len(fifo') <= TxFifoDepth /\ Len(osr') <= 15 /\ Drawn' >= 0 /\ Len(osr') = 0
    BY <1>1, <1>2, <1>6
  <2>2. \A i \in 1 .. Len(fifo') : fifo'[i] = words[Drawn' + i]
    BY <1>1, <1>6
  <2>3. \A i \in 1 .. Len(remaining') : remaining'[i] = words[Drawn' + Len(fifo') + i]
    <3>1. \A i \in 1 .. Len(remaining) : 0 + Len(fifo) + i = Len(fifo) + i
      BY <1>2
    <3> QED
      BY <3>1, <1>1, <1>6
  <2> QED
    BY <2>1, <2>2, <2>3, <1>4 DEF Left
<1>8. Position'
  BY <1>1, <1>6 DEF Position
<1>9. remaining = <<>> => Rest' <= 16 * TxFifoDepth + 17
  <2>1. Rest' = Len(Waveform(p)) + 1
    BY <1>5 DEF Rest
  <2>2. remaining = <<>> => Len(remaining) = 0
    OBVIOUS
  <2>3. TxFifoDepth \in Nat
    BY TxAssumption
  <2>4. SUFFICES ASSUME remaining = <<>>
                 PROVE  Rest' <= 16 * TxFifoDepth + 17
    OBVIOUS
  <2>5. Len(words) <= TxFifoDepth
    <3>1. Len(words) = Len(fifo)
      BY <2>2, <2>4, <1>1, <1>2
    <3> QED
      BY <3>1, <1>1
  <2>6. Bits(p) + 2 <= 16 * TxFifoDepth
    BY <2>3, <2>5, <1>2, <1>5
  <2> QED
    BY <2>1, <2>3, <2>6, <1>5
<1> QED
  BY <1>3, <1>4, <1>7, <1>8, <1>9 DEF Sending, words

LEMMA StartKeeps ==
    ASSUME Encoder, IInv, Working, start
    PROVE  IInv'
<1> USE DEF IInv
<1>1. /\ pc = "start" /\ enabled' = TRUE
      /\ playing' = Head(todo) /\ at' = 0 /\ todo' = Tail(todo)
      /\ then' = IF Len(todo) > 1 THEN "transmit"
                 ELSE IF Answered(Head(todo)) THEN "start_receive" ELSE "idle"
      /\ pc' = (IF remaining = <<>> THEN "eop" ELSE "feed") /\ waited' = 0
      /\ UNCHANGED <<fifo, osr, slot, oe, irq_eop, irq_start, remaining, looked>>
  BY DEF start, start_tx
<1>2. UNCHANGED <<gap, talk, asked, away, prompt>> /\ ~looked /\ away = 0
  BY DEF Working, bounds
<1>3. playing = Nothing
  BY <1>1, Silent DEF AfterStart
<1>4. todo \in Seq(Packets) /\ todo # <<>> /\ Ready(Encoded(Head(todo)))
  BY <1>1 DEF Planned, Loaded
<1>5. /\ Head(todo) \in Packets /\ Head(todo) = todo[1] /\ Len(todo) \in Nat /\ Len(todo) >= 1
      /\ Tail(todo) \in Seq(Packets) /\ Len(Tail(todo)) = Len(todo) - 1
      /\ \A i \in 1 .. Len(Tail(todo)) : Tail(todo)[i] = todo[i + 1]
  BY <1>4, TailFacts
<1>6. Encoded(Head(todo)) # None
  BY <1>5 DEF Planned
<1>7. /\ Sending' /\ playing' # Nothing
      /\ remaining = <<>> => Rest' <= 16 * TxFifoDepth + 17
  BY <1>1, <1>3, <1>4, <1>5, <1>6, Starts
<1>8. Types'
  BY <1>1, <1>2 DEF Types, AfterStart
<1>9. Quiet'
  BY <1>7 DEF Quiet
<1>10. Loaded'
  BY <1>1, <1>2, <1>7 DEF Loaded
<1>11. Planned'
  <2>1. \A i \in 1 .. Len(todo') : i + 1 \in 1 .. Len(todo) /\ todo'[i] = todo[i + 1]
    BY <1>1, <1>5
  <2>2. \A i \in 1 .. Len(todo') : Encoded(todo'[i]) # None
    BY <2>1 DEF Planned
  <2>3. \A i \in 1 .. Len(todo') - 1 : i + 1 \in 1 .. Len(todo) - 1 /\ todo'[i] = todo[i + 1]
    BY <1>1, <1>5
  <2>4. \A i \in 1 .. Len(todo') - 1 : ~Answered(todo'[i])
    BY <2>3 DEF Planned
  <2>5. then' \in {"idle", "transmit", "start_receive"}
    BY <1>1
  <2>6. then' = "transmit" => todo' # <<>>
    <3>1. then' = "transmit" => Len(todo') >= 1
      BY <1>1, <1>5
    <3> QED
      BY <3>1
  <2>7. Answered(playing') => then' = "start_receive"
    <3>1. Len(todo) > 1 => ~Answered(todo[1])
      BY <1>5 DEF Planned
    <3> QED
      BY <3>1, <1>1, <1>5
  <2>8. pc' \in AfterStart /\ pc' \notin {"transmit", "start"} /\ todo' \in Seq(Packets)
    BY <1>1, <1>5 DEF AfterStart
  <2> QED
    BY <2>2, <2>4, <2>5, <2>6, <2>7, <2>8 DEF Planned
<1>12. Timed'
  <2>1. Rest' \in Int
    BY <1>1, <1>5, <1>6, Symbols DEF Rest
  <2> QED
    BY <1>1, <1>7, <2>1 DEF Timed
<1>13. Looked'
  BY <1>1, <1>2 DEF Looked
<1>14. Prompt'
  <2>1. prompt => gap = 0 /\ talk <= EndBits
    BY <1>1, NoAnswer
  <2>2. playing' # Nothing /\ at' + talk' = talk /\ talk \in Nat
    BY <1>1, <1>2, <1>7 DEF Types
  <2> QED
    BY <1>2, <2>1, <2>2 DEF Prompt
<1> QED
  BY <1>7, <1>8, <1>9, <1>10, <1>11, <1>12, <1>13, <1>14

LEMMA AckKeeps ==
    ASSUME Encoder, IInv, Working, ack
    PROVE  IInv'
<1> USE DEF IInv
<1>1. /\ pc = "ack" /\ enabled' = TRUE
      /\ playing' = Ack /\ at' = 0 /\ then' = "idle"
      /\ pc' = "eop" /\ waited' = 0 /\ looked' = FALSE
      /\ UNCHANGED <<fifo, osr, slot, oe, irq_eop, irq_start, remaining, todo>>
  BY DEF ack, start_tx, Done
<1>2. UNCHANGED <<gap, talk, asked, away, prompt>> /\ ~looked /\ away = 0
  BY DEF Working, bounds
<1>3. playing = Nothing
  BY <1>1, Silent DEF AfterStart
<1>4. Ready(Encoded(Ack)) /\ remaining = <<>>
  BY <1>1 DEF Loaded
<1>5. Ack \in Packets /\ Encoded(Ack) # None /\ ~Answered(Ack)
  BY DEF Packets, Encoder, Answered, Ack, USB_PID_ACK, USB_PID_IN, USB_PID_DATA0, USB_PID_DATA1
<1>6. Sending' /\ playing' # Nothing /\ Rest' <= 16 * TxFifoDepth + 17
  BY <1>1, <1>3, <1>4, <1>5, Starts
<1>7. Types'
  BY <1>1, <1>2 DEF Types, AfterStart
<1>8. Quiet' /\ Loaded'
  BY <1>1, <1>4, <1>6 DEF Quiet, Loaded
<1>9. Planned'
  BY <1>1, <1>5 DEF Planned, AfterStart
<1>10. Timed'
  <2>1. Rest' \in Int
    BY <1>1, <1>5, Symbols DEF Rest
  <2> QED
    BY <1>1, <1>6, <2>1 DEF Timed
<1>11. Looked'
  BY <1>1, <1>2 DEF Looked
<1>12. Prompt'
  <2>1. prompt => gap = 0 /\ talk <= EndBits
    BY <1>1, NoAnswer
  <2>2. playing' # Nothing /\ at' + talk' = talk /\ talk \in Nat
    BY <1>1, <1>2, <1>6 DEF Types
  <2> QED
    BY <1>2, <2>1, <2>2 DEF Prompt
<1> QED
  BY <1>6, <1>7, <1>8, <1>9, <1>10, <1>11, <1>12

(* A word more in the FIFO, and one less to come. *)
LEMMA Feeds ==
    ASSUME Encoder, IInv, playing # Nothing, remaining # <<>>, ~tx_full,
           fifo' = Append(fifo, Head(remaining)), remaining' = Tail(remaining),
           UNCHANGED <<osr, slot, enabled, oe, irq_eop, playing, at>>
    PROVE  /\ Sending' /\ fifo' \in Seq(Seq(Levels)) /\ remaining' \in Seq(Seq(Levels))
           /\ remaining' = <<>> => Rest' <= 16 * TxFifoDepth + 17
<1> DEFINE words == Encoded(playing)
           b == Bits(playing)
           N == Len(words)
<1> USE DEF IInv
<1>1. playing \in Packets /\ Encoded(playing) # None /\ enabled /\ Left /\ Position
  BY DEF Sending
<1>2. words = Encoded(playing') /\ N \in Nat /\ b \in Nat /\ Len(Waveform(playing)) = b + 4
      /\ b + 2 <= 16 * N
  BY <1>1, Symbols
<1>3. fifo \in Seq(Seq(Levels)) /\ remaining \in Seq(Seq(Levels))
      /\ Len(fifo) \in Nat /\ Len(osr) \in Nat /\ Len(remaining) \in Nat /\ at \in Nat
  BY DEF Types
<1>4. TxFifoDepth \in Nat /\ Len(fifo) < TxFifoDepth
  BY <1>3, TxAssumption DEF tx_full
<1>5. /\ Head(remaining) = remaining[1] /\ Head(remaining) \in Seq(Levels)
      /\ Len(remaining) >= 1
      /\ remaining' \in Seq(Seq(Levels)) /\ Len(remaining') = Len(remaining) - 1
      /\ \A i \in 1 .. Len(remaining') : remaining'[i] = remaining[i + 1]
  BY <1>3, TailFacts
<1>6. /\ fifo' \in Seq(Seq(Levels)) /\ Len(fifo') = Len(fifo) + 1
      /\ fifo'[Len(fifo) + 1] = remaining[1]
      /\ \A i \in 1 .. Len(fifo) : fifo'[i] = fifo[i]
  BY <1>3, <1>5
<1>7. /\ Drawn = N - Len(fifo) - Len(remaining) /\ Drawn >= 0
      /\ Len(osr) <= 15 /\ Taken = 16 * Drawn - Len(osr)
      /\ \A i \in 1 .. Len(fifo) : fifo[i] = words[Drawn + i]
      /\ \A i \in 1 .. Len(remaining) : remaining[i] = words[Drawn + Len(fifo) + i]
  BY <1>1 DEF Left, Drawn, Taken
<1>8. Drawn' = N - Len(fifo') - Len(remaining')
  BY <1>2 DEF Drawn
<1>9. b = Bits(playing') /\ Rest' = b + 5 - at
  BY <1>2, <1>3 DEF Rest
<1>10. /\ at = 0 => Taken = 0
       /\ at >= 1 => at >= Taken + 1
  <2>1. /\ at = 0 => Taken = 0
        /\ at >= 1 /\ at <= b + 1 => Taken = at - 1
        /\ at = b + 2 => Taken = at - 1
        /\ at = b + 3 => Taken = at - 2
        /\ at = b + 4 => Taken = at - 3
        /\ at <= b + 4
    BY Positions
  <2> HIDE DEF b
  <2> QED
    BY <2>1, <1>2, <1>3
<1> HIDE DEF words, b, N
<1>11. Drawn' = Drawn
  <2>1. \A n, f, r \in Nat : n - (f + 1) - (r - 1) = n - f - r
    OBVIOUS
  <2> QED
    BY <2>1, <1>2, <1>3, <1>5, <1>6, <1>7, <1>8
<1>12. Taken' = Taken
  BY <1>11 DEF Taken
<1>13. \A i \in 1 .. Len(fifo') : fifo'[i] = words[Drawn' + i]
  <2> SUFFICES ASSUME NEW i \in 1 .. Len(fifo')
               PROVE  fifo'[i] = words[Drawn' + i]
    OBVIOUS
  <2>1. CASE i \in 1 .. Len(fifo)
    BY <2>1, <1>6, <1>7, <1>11
  <2>2. CASE i = Len(fifo) + 1
    <3>1. remaining[1] = words[Drawn + Len(fifo) + 1]
      BY <1>3, <1>5, <1>7
    <3>2. Drawn \in Int
      BY <1>2, <1>3, <1>7
    <3>3. Drawn + Len(fifo) + 1 = Drawn' + i
      BY <2>2, <3>2, <1>3, <1>11
    <3> QED
      BY <2>2, <3>1, <3>3, <1>6
  <2> QED
    BY <2>1, <2>2, <1>3, <1>6
<1>14. \A i \in 1 .. Len(remaining') : remaining'[i] = words[Drawn' + Len(fifo') + i]
  <2> SUFFICES ASSUME NEW i \in 1 .. Len(remaining')
               PROVE  remaining'[i] = words[Drawn' + Len(fifo') + i]
    OBVIOUS
  <2>1. i + 1 \in 1 .. Len(remaining) /\ remaining'[i] = remaining[i + 1]
    BY <1>3, <1>5
  <2>2. Drawn \in Int
    BY <1>2, <1>3, <1>7
  <2>3. Drawn + Len(fifo) + (i + 1) = Drawn' + Len(fifo') + i
    BY <2>2, <1>3, <1>6, <1>11
  <2> QED
    BY <2>1, <2>3, <1>7
<1>15. Left'
  <2>1. Len(fifo') <= TxFifoDepth /\ Len(osr') <= 15 /\ Drawn' >= 0
    BY <1>3, <1>4, <1>6, <1>7, <1>11
  <2>2. \A i \in 1 .. Len(osr) : Drawn > 0 /\ osr[i] = words[Drawn][16 - Len(osr) + i]
    BY <1>1 DEF Left, words
  <2>3. \A i \in 1 .. Len(osr') : Drawn' > 0 /\ osr'[i] = words[Drawn'][16 - Len(osr') + i]
    BY <2>2, <1>11
  <2> QED
    BY <2>1, <2>3, <1>2, <1>13, <1>14 DEF Left
<1>16. Position'
  BY <1>1, <1>12 DEF Position
<1>17. ASSUME remaining' = <<>>
       PROVE  Rest' <= 16 * TxFifoDepth + 17
  <2>1. Len(remaining') = 0
    <3>1. Len(<<>>) = 0
      OBVIOUS
    <3> QED
      BY Zenon, <3>1, <1>17
  <2>2. Drawn = N - Len(fifo') /\ Len(fifo') \in Nat /\ Len(fifo') <= TxFifoDepth
    <3>1. Len(fifo') \in Nat /\ Len(fifo') <= TxFifoDepth
      BY <1>3, <1>4, <1>6
    <3>2. \A n, f \in Nat : n - f - 0 = n - f
      OBVIOUS
    <3> QED
      BY <2>1, <3>1, <3>2, <1>2, <1>8, <1>11
  <2>3. Drawn \in Nat
    BY <2>2, <1>2, <1>7
  <2>4. CASE at = 0
    <3>1. 16 * Drawn = Len(osr)
      BY <2>3, <2>4, <1>3, <1>7, <1>10
    <3>2. Drawn = 0
      BY <2>3, <3>1, <1>3, <1>7
    <3> QED
      BY SMTT(40), <2>2, <2>4, <3>2, <1>2, <1>4, <1>9
  <2>5. CASE at >= 1
    <3>1. at >= 16 * Drawn - 14
      BY SMTT(40), <2>3, <2>5, <1>3, <1>7, <1>10
    <3>2. \A f, n, a, l, d \in Nat :
            f <= d /\ a >= 16 * (n - f) - 14 /\ l + 2 <= 16 * n => l + 5 - a <= 16 * d + 17
      OBVIOUS
    <3> QED
      BY <2>2, <3>1, <3>2, <1>2, <1>3, <1>4, <1>9
  <2> QED
    BY <2>4, <2>5, <1>3
<1> QED
  BY <1>1, <1>5, <1>6, <1>15, <1>16, <1>17 DEF Sending

LEMMA FeedKeeps ==
    ASSUME Encoder, IInv, Working, feed
    PROVE  IInv'
<1> USE DEF IInv
<1>1. /\ pc = "feed" /\ playing # Nothing /\ remaining # <<>> /\ away = 0
      /\ UNCHANGED <<osr, slot, enabled, oe, irq_eop, irq_start, playing, at, todo, then>>
  BY DEF feed, Loaded, history
<1>2. UNCHANGED <<gap, talk, asked, away, prompt>> /\ ~looked
  BY DEF Working, bounds
<1>3. CASE tx_full /\ looked' = TRUE /\ UNCHANGED <<fifo, remaining, pc, waited>>
  <2>1. Types'
    BY <1>1, <1>2, <1>3 DEF Types
  <2>2. Sending' /\ Quiet'
    BY <1>1, <1>3 DEF Sending, Left, Position, Taken, Drawn, Quiet
  <2>3. Loaded'
    BY <1>1, <1>2, <1>3 DEF Loaded, tx_full
  <2>4. Planned' /\ Timed'
    BY <1>1, <1>3 DEF Planned, Timed, Rest
  <2>5. Looked' /\ Prompt'
    BY <1>1, <1>2, <1>3 DEF Looked, Prompt
  <2> QED
    BY <2>1, <2>2, <2>3, <2>4, <2>5
<1>4. CASE /\ ~tx_full
           /\ fifo' = Append(fifo, Head(remaining)) /\ remaining' = Tail(remaining)
           /\ pc' = (IF Tail(remaining) = <<>> THEN "eop" ELSE "feed")
           /\ waited' = 0 /\ UNCHANGED looked
  <2>1. /\ Sending' /\ fifo' \in Seq(Seq(Levels)) /\ remaining' \in Seq(Seq(Levels))
        /\ remaining' = <<>> => Rest' <= 16 * TxFifoDepth + 17
    BY <1>1, <1>4, Feeds
  <2>2. pc' \in {"eop", "feed"} /\ (pc' = "eop" <=> remaining' = <<>>)
    BY <1>4
  <2>3. Types'
    BY <1>1, <1>2, <1>4, <2>1, <2>2 DEF Types, AfterStart
  <2>4. Quiet'
    BY <1>1 DEF Quiet
  <2>5. Loaded'
    BY <1>1, <1>2, <1>4, <2>2 DEF Loaded
  <2>6. Planned'
    BY <1>1, <2>2 DEF Planned, AfterStart
  <2>7. Timed'
    <3>1. Rest' \in Int
      BY <1>1, Symbols DEF Rest, Types, Sending
    <3> QED
      BY <1>4, <2>1, <2>2, <3>1 DEF Timed
  <2>8. Looked'
    BY <1>1, <1>2, <1>4, <2>2 DEF Looked
  <2>9. Prompt'
    BY <1>1, <1>2, <2>2, NoAnswer DEF Prompt
  <2> QED
    BY <2>1, <2>3, <2>4, <2>5, <2>6, <2>7, <2>8, <2>9
<1> QED
  BY <1>3, <1>4 DEF feed

(* A step of the CPU that leaves the player and what it plays alone. *)
LEMMA Leaves ==
    ASSUME IInv, UNCHANGED <<player, history, todo, remaining, then>>
    PROVE  /\ Sending' /\ Quiet' /\ Rest' = Rest
           /\ \A words : Ready(words) => Ready(words)'
<1>1. Sending' /\ Quiet'
  BY DEF IInv, Sending, Left, Position, Taken, Drawn, Quiet, player, history
<1>2. Rest' = Rest
  BY DEF Rest, history
<1> QED
  BY <1>1, <1>2 DEF Ready, player

(* No answer to come, and at most the end of one. *)
Clear ==
    /\ gap = 0 /\ talk <= EndBits
    /\ talk > 0 => playing # Nothing /\ at + talk <= EndBits

(* The two waits.  Either finds what it waits for, or its timeout is       *)
(* longer than what is left.                                               *)
LEMMA WaitKeeps ==
    ASSUME Encoder, IInv, Working, wait
    PROVE  IInv'
<1> USE DEF IInv
<1>1. UNCHANGED <<player, irq_start, history, todo, remaining, then>> /\ pc \in AfterStart
      /\ pc # "feed"
  BY DEF wait, AfterStart
<1>2. UNCHANGED <<gap, talk, asked, away, prompt>> /\ ~looked /\ away = 0
  BY DEF Working, bounds
<1>3. Sending' /\ Quiet' /\ Rest' = Rest
  BY <1>1, Leaves
<1>4. remaining' = <<>> /\ at \in Nat /\ waited \in Nat /\ gap \in Nat /\ talk \in Nat
  BY <1>1 DEF Loaded, Types, AfterStart
<1>5. /\ playing' = playing /\ at' = at /\ irq_eop' = irq_eop /\ oe' = oe
      /\ UNCHANGED <<fifo, osr, slot, enabled>>
  BY <1>1 DEF player, history
<1>6. playing # Nothing =>
        /\ Rest \in Int /\ Rest >= 1
        /\ irq_eop => at > 0 /\ Rest <= 3
        /\ ~oe => at = 0
  <2> SUFFICES ASSUME playing # Nothing
               PROVE  /\ Rest \in Int /\ Rest >= 1
                      /\ irq_eop => at > 0 /\ Rest <= 3
                      /\ ~oe => at = 0
    OBVIOUS
  <2>1. Bits(playing) \in Nat /\ Len(Waveform(playing)) = Bits(playing) + 4
    BY Symbols DEF Sending
  <2>2. Rest = Bits(playing) + 5 - at
    BY <2>1, <1>4 DEF Rest
  <2>3. /\ at <= Bits(playing) + 4
        /\ at = 0 => ~irq_eop
        /\ at >= 1 => oe
        /\ at >= 1 /\ at <= Bits(playing) + 1 => ~irq_eop
    BY Positions
  <2>4. Rest \in Int /\ Rest >= 1
    BY <2>1, <2>2, <2>3, <1>4
  <2>5. ~oe => at = 0
    BY <2>3, <1>4
  <2>6. ASSUME irq_eop
        PROVE  at > 0 /\ Rest <= 3
    BY <2>1, <2>2, <2>3, <2>6, <1>4
  <2> QED
    BY <2>4, <2>5, <2>6
<1>7. WaitBits \in Nat /\ 16 <= WaitBits /\ TxFifoDepth \in Nat
  BY TxAssumption, WaitAssumption
<1>8. then \in {"idle", "transmit", "start_receive"} /\ (then = "transmit" => todo # <<>>)
  BY <1>1 DEF Planned
<1>9. pc # "released" => (prompt => Clear)
  BY <1>1, NoAnswer DEF AfterStart, Clear
<1>10. ASSUME pc' \in AfterStart \ {"feed"}, waited' \in Nat, looked' \in BOOLEAN,
              playing # Nothing =>
                /\ at = 0 => waited' = 0
                /\ pc' \in {"eop", "eop_clock"} => Rest + waited' <= 16 * TxFifoDepth + 17
                /\ pc' \in {"released", "released_clock"} =>
                    at > 0 /\ Rest + waited' <= WaitBits + 1,
              prompt /\ looked' => pc' \in {"eop", "released"},
              prompt /\ (pc' = "eop_clock" \/ (pc' = "eop" /\ looked')) => ~irq_eop,
              prompt /\ (pc' = "released_clock" \/ (pc' = "released" /\ looked')) => oe,
              prompt => Clear
       PROVE  IInv'
  <2>1. Types'
    BY <1>1, <1>2, <1>4, <1>5, <1>10 DEF Types
  <2>2. Loaded'
    BY <1>4, <1>10 DEF Loaded, AfterStart
  <2>3. Planned'
    BY <1>1, <1>5, <1>8, <1>10 DEF Planned, AfterStart
  <2>4. Timed'
    BY <1>3, <1>5, <1>10 DEF Timed
  <2>5. Looked'
    BY <1>2, <1>5, <1>10 DEF Looked
  <2>6. Prompt'
    BY <1>2, <1>4, <1>5, <1>10 DEF Prompt, Clear
  <2> QED
    BY <1>3, <2>1, <2>2, <2>3, <2>4, <2>5, <2>6
<1>11. ASSUME playing = Nothing, pc' = then, waited' = 0, looked' = (then = "idle"),
              pc = "released" \/ (prompt => Clear)
       PROVE  IInv'
  <2>1. looked' \in BOOLEAN
    BY <1>11
  <2>2. Types'
    BY <1>1, <1>2, <1>4, <1>5, <1>8, <1>11, <2>1 DEF Types
  <2>3. Loaded'
    BY <1>4, <1>8, <1>11 DEF Loaded
  <2>4. Planned' /\ Timed'
    BY <1>1, <1>5, <1>8, <1>11 DEF Planned, Timed, AfterStart
  <2>5. Looked'
    <3>1. pc' \in {"idle", "transmit", "start_receive"} /\ (looked' => pc' = "idle")
      BY <1>8, <1>11
    <3> QED
      BY <1>2, <3>1 DEF Looked
  <2>6. prompt => talk = 0
    BY <1>1, <1>4, <1>11 DEF Prompt, Clear, AfterStart
  <2>7. Prompt'
    BY <1>1, <1>2, <1>4, <1>5, <1>8, <1>11, <2>6 DEF Prompt, Clear
  <2> QED
    BY <1>3, <2>2, <2>3, <2>4, <2>5, <2>7
<1>12. CASE pc = "eop" /\ irq_eop /\ Done("released")
  <2>1. pc' = "released" /\ waited' = 0 /\ looked' = FALSE
    BY <1>12 DEF Done
  <2>2. playing # Nothing => at > 0 /\ Rest <= WaitBits + 1
    BY <1>6, <1>7, <1>12
  <2>3. playing # Nothing => at # 0 /\ Rest + waited' <= WaitBits + 1
    BY <1>4, <1>6, <2>1, <2>2
  <2>4. pc' \in AfterStart \ {"feed"} /\ waited' \in Nat /\ looked' \in BOOLEAN
    BY <2>1 DEF AfterStart
  <2> QED
    BY <1>9, <1>10, <1>12, <2>1, <2>2, <2>3, <2>4
<1>13. CASE pc = "eop" /\ ~irq_eop /\ Again("eop_clock") /\ UNCHANGED looked
  <2>1. pc' = "eop_clock" /\ waited' = waited /\ looked' = looked /\ looked \in BOOLEAN
    BY <1>13 DEF Again, Types
  <2> QED
    BY <1>2, <1>4, <1>9, <1>10, <1>13, <2>1 DEF AfterStart, Timed
<1>14. CASE pc = "eop_clock" /\ waited > TxWait /\ Done("released")
  <2>1. pc' = "released" /\ waited' = 0 /\ looked' = FALSE
    BY <1>14 DEF Done
  <2>2. waited >= WaitBits + 1
    <3>1. waited > WaitBits
      BY <1>14 DEF TxWait
    <3> QED
      BY <3>1, <1>4, <1>7
  <2>3. playing # Nothing => at # 0 /\ Rest + waited <= 16 * TxFifoDepth + 17
    BY <1>4, <1>7, <1>14, <2>2 DEF Timed
  <2>4. playing # Nothing => at # 0 /\ at > 0 /\ Rest + waited' <= WaitBits + 1
    BY <1>4, <1>6, <1>7, <2>1, <2>2, <2>3, WaitAssumption
  <2>5. pc' \in AfterStart \ {"feed"} /\ waited' \in Nat /\ looked' \in BOOLEAN
    BY <2>1 DEF AfterStart
  <2> QED
    BY <1>9, <1>10, <1>14, <2>1, <2>4, <2>5
<1>15. CASE pc = "eop_clock" /\ waited <= TxWait /\ Again("eop") /\ looked' = TRUE
  <2>1. pc' = "eop" /\ waited' = waited
    BY <1>15 DEF Again
  <2>2. prompt => ~irq_eop
    BY <1>15 DEF Looked
  <2> QED
    BY <1>4, <1>9, <1>10, <1>15, <2>1, <2>2 DEF AfterStart, Timed
<1>16. CASE pc = "released" /\ ~oe /\ Done(then)
  <2>1. playing = Nothing
    BY <1>4, <1>6, <1>16 DEF Timed
  <2> QED
    BY <1>11, <1>16, <2>1 DEF Done
<1>17. CASE pc = "released" /\ oe /\ Again("released_clock") /\ UNCHANGED looked
  <2>1. pc' = "released_clock" /\ waited' = waited /\ looked' = looked /\ looked \in BOOLEAN
    BY <1>17 DEF Again, Types
  <2>2. prompt => Clear
    BY <1>4, <1>17 DEF Prompt, Quiet, Clear
  <2> QED
    BY <1>2, <1>4, <1>10, <1>17, <2>1, <2>2 DEF AfterStart, Timed
<1>18. CASE pc = "released_clock" /\ waited > TxWait /\ Done(then)
  <2>1. waited >= WaitBits + 1
    BY <1>4, <1>7, <1>18 DEF TxWait
  <2>2. playing = Nothing
    <3>1. playing # Nothing => Rest + waited <= WaitBits + 1 /\ Rest >= 1 /\ Rest \in Int
      BY <1>6, <1>18 DEF Timed
    <3> QED
      BY <1>4, <1>7, <2>1, <3>1
  <2> QED
    BY <1>9, <1>11, <1>18, <2>2 DEF Done
<1>19. CASE pc = "released_clock" /\ waited <= TxWait /\ Again("released") /\ looked' = TRUE
  <2>1. pc' = "released" /\ waited' = waited
    BY <1>19 DEF Again
  <2>2. prompt => oe
    BY <1>19 DEF Looked
  <2> QED
    BY <1>4, <1>9, <1>10, <1>19, <2>1, <2>2 DEF AfterStart, Timed
<1> QED
  BY <1>12, <1>13, <1>14, <1>15, <1>16, <1>17, <1>18, <1>19 DEF wait

(* The steps of the turn: nothing of the host's is on the wire.  What each *)
(* of them must bring is what a device that answers will meet.             *)
Turning == {"start_receive", "stage", "receive", "data", "ack", "idle"}

LEMMA Turns ==
    ASSUME IInv, Working, pc \in Turning \ {"idle", "ack"}, pc' \in Turning,
           UNCHANGED <<history, todo, then>>, remaining' = <<>>,
           fifo' \in Seq(Seq(Levels)), osr' \in Seq(Levels), irq_start' \in BOOLEAN,
           irq_eop' \in BOOLEAN, looked' \in BOOLEAN, waited' \in Nat,
           UNCHANGED <<fifo, osr, slot, enabled, oe>> \/ (~enabled' /\ ~oe'),
           oe' \in BOOLEAN, enabled' \in BOOLEAN,
           (pc' \in {"receive", "data"} /\ asked[1].pid = USB_PID_IN) \/ pc' = "ack" =>
               Ready(Encoded(Ack))',
           prompt /\ looked' =>
               /\ pc' \in {"idle", "receive", "data"}
               /\ pc' = "receive" => ~irq_start' /\ waited' < SopBits
               /\ pc' = "data" => talk > EndBits,
           prompt /\ gap > 0 =>
               \/ pc' = "stage" /\ ~irq_start'
               \/ pc' = "receive" /\ ~irq_start' /\ gap + waited' < SopBits,
           prompt /\ talk > EndBits =>
               \/ pc' = "receive" /\ irq_start' /\ waited' < SopBits
               \/ pc' = "data",
           prompt /\ talk > 0 /\ talk <= EndBits => pc' \in {"data", "ack", "idle"}
    PROVE  IInv'
<1> USE DEF IInv
<1>1. UNCHANGED <<gap, talk, asked, away, prompt>> /\ ~looked /\ away = 0
  BY DEF Working, bounds
<1>2. playing = Nothing /\ at = 0 /\ ~oe
  BY Silent DEF AfterStart, Turning
<1>3. playing' = Nothing /\ at' = 0
  BY <1>2 DEF history
<1>4. Types'
  BY <1>1, <1>3 DEF Types, Turning
<1>5. Sending' /\ Quiet' /\ Timed'
  BY <1>2, <1>3 DEF Sending, Quiet, Timed
<1>6. Loaded'
  BY <1>1 DEF Loaded, Turning
<1>7. Planned'
  BY <1>3 DEF Planned, Turning, AfterStart
<1>8. Looked'
  BY <1>1 DEF Looked, Turning
<1>9. Prompt'
  BY <1>1, <1>3 DEF Prompt
<1> QED
  BY <1>4, <1>5, <1>6, <1>7, <1>8, <1>9

LEMMA TurnKeeps ==
    ASSUME Encoder, IInv, Working,
           start_receive \/ prepare_ack_and_release_bus \/ receive \/ end_of_packet
    PROVE  IInv'
<1> USE DEF IInv
<1>1. gap \in Nat /\ talk \in Nat /\ waited \in Nat /\ SopBits \in Nat \ {0} /\ ~looked
      /\ asked' = asked
  BY TxAssumption DEF Types, Working
<1>2. ASSUME UNCHANGED <<player, remaining>>, pc \in Turning \ {"idle", "ack"}
      PROVE  /\ UNCHANGED <<fifo, osr, slot, enabled, oe>> /\ remaining' = <<>>
             /\ fifo' \in Seq(Seq(Levels)) /\ osr' \in Seq(Levels) /\ irq_eop' \in BOOLEAN
             /\ oe' \in BOOLEAN /\ enabled' \in BOOLEAN
             /\ pc \in {"receive", "data"} /\ asked[1].pid = USB_PID_IN => Ready(Encoded(Ack))'
  <2>1. pc \in {"receive", "data"} /\ asked[1].pid = USB_PID_IN => Ready(Encoded(Ack))'
    BY <1>2 DEF Loaded, Ready, player
  <2>2. remaining' = <<>>
    BY <1>2 DEF Loaded, Turning
  <2> QED
    BY <1>2, <2>1, <2>2 DEF Types, player
<1>7. playing = Nothing
  BY Silent DEF start_receive, prepare_ack_and_release_bus, receive, end_of_packet, AfterStart
<1>8. ASSUME prompt, talk > 0, talk <= EndBits
      PROVE  pc = "data"
  BY <1>7, <1>8 DEF Prompt, start_receive, prepare_ack_and_release_bus, receive, end_of_packet
<1>3. CASE start_receive
  <2>1. /\ pc = "start_receive" /\ irq_start' = FALSE /\ waited' = 0 /\ looked' = FALSE
        /\ pc' = (IF asked[1].pid = USB_PID_IN THEN "stage" ELSE "receive")
        /\ UNCHANGED <<player, history, todo, remaining, then>>
    BY <1>3 DEF start_receive, Done
  <2>2. prompt => talk = 0 /\ (gap > 0 => gap < SopBits)
    BY <1>1, <1>8, <2>1 DEF Prompt
  <2>3. pc \in Turning \ {"idle", "ack"} /\ pc' \in Turning
    BY <2>1 DEF Turning
  <2>4. prompt /\ gap > 0 =>
          \/ pc' = "stage" /\ ~irq_start'
          \/ pc' = "receive" /\ ~irq_start' /\ gap + waited' < SopBits
    BY <1>1, <2>1, <2>2
  <2>5. ~((pc' \in {"receive", "data"} /\ asked[1].pid = USB_PID_IN) \/ pc' = "ack")
    BY <2>1
  <2>6. irq_start' \in BOOLEAN /\ looked' \in BOOLEAN /\ waited' \in Nat /\ ~looked'
    BY <2>1
  <2>7. prompt => ~(talk > 0) /\ ~(talk > EndBits)
    BY <2>2
  <2> QED
    BY <1>2, <2>1, <2>3, <2>4, <2>5, <2>6, <2>7, Turns
<1>4. CASE prepare_ack_and_release_bus
  <2>1. /\ pc = "stage" /\ fifo' = Encoded(Ack) /\ osr' = <<>> /\ slot' = "start"
        /\ enabled' = FALSE /\ irq_eop' = FALSE /\ oe' = FALSE /\ remaining' = <<>>
        /\ pc' = "receive" /\ waited' = 0 /\ looked' = FALSE
        /\ UNCHANGED <<irq_start, history, todo, then>>
    BY <1>4 DEF prepare_ack_and_release_bus, prepare_tx_packet, Done
  <2>2. prompt => talk = 0 /\ (gap > 0 => gap < SopBits /\ ~irq_start)
    BY <1>1, <1>8, <2>1 DEF Prompt
  <2>3. fifo' \in Seq(Seq(Levels)) /\ Len(fifo') <= TxFifoDepth
    BY <2>1 DEF Encoder, Packets
  <2>4. Ready(Encoded(Ack))'
    <3>1. Len(fifo') \in Nat /\ Len(remaining') = 0
      BY <2>1, <2>3
    <3> QED
      BY <2>1, <2>3, <3>1 DEF Ready
  <2>5. pc \in Turning \ {"idle", "ack"} /\ pc' \in Turning /\ osr' \in Seq(Levels)
        /\ irq_start' \in BOOLEAN
    BY <2>1 DEF Turning, Types
  <2>6. prompt /\ gap > 0 => ~irq_start' /\ gap + waited' < SopBits
    BY <1>1, <2>1, <2>2
  <2>7. /\ looked' \in BOOLEAN /\ waited' \in Nat /\ irq_eop' \in BOOLEAN
        /\ oe' \in BOOLEAN /\ enabled' \in BOOLEAN /\ ~looked' /\ ~enabled' /\ ~oe'
    BY <2>1
  <2>8. prompt => ~(talk > 0) /\ ~(talk > EndBits)
    BY <2>2
  <2> QED
    BY <2>1, <2>3, <2>4, <2>5, <2>6, <2>7, <2>8, Turns
<1>5. CASE receive
  <2>1. /\ pc = "receive" /\ UNCHANGED <<player, irq_start, history, todo, remaining, then>>
        /\ irq_start' \in BOOLEAN
        /\ pc \in Turning \ {"idle", "ack"}
    BY <1>5 DEF receive, Turning, Types
  <2>2. prompt =>
          /\ gap > 0 => ~irq_start /\ gap + waited < SopBits /\ talk = 0
          /\ talk > 0 => irq_start /\ waited < SopBits
          /\ ~(talk > 0 /\ talk <= EndBits) /\ (talk > EndBits => talk > 0)
    BY <1>1, <1>8, <2>1 DEF Prompt
  <2>3. CASE waited >= SopBits /\ Done("idle")
    <3>1. pc' = "idle" /\ waited' = 0 /\ looked' = TRUE /\ pc' \in Turning
      BY <2>3 DEF Done, Turning
    <3>2. prompt => ~(gap > 0) /\ ~(talk > 0) /\ ~(talk > EndBits)
      BY <1>1, <2>2, <2>3
    <3> QED
      BY <1>2, <2>1, <3>1, <3>2, Turns
  <2>4. CASE waited < SopBits /\ irq_start /\ Done("data")
    <3>1. pc' = "data" /\ waited' = 0 /\ looked' = FALSE /\ pc' \in Turning
      BY <2>4 DEF Done, Turning
    <3>2. prompt => ~(gap > 0)
      BY <1>1, <2>2, <2>4
    <3> QED
      BY <1>2, <2>1, <3>1, <3>2, Turns
  <2>5. CASE waited < SopBits /\ ~irq_start /\ Again(pc) /\ looked' = TRUE
    <3>1. pc' = "receive" /\ waited' = waited /\ pc' \in Turning
      BY <2>1, <2>5 DEF Again, Turning
    <3> QED
      BY <1>1, <1>2, <2>1, <2>2, <2>5, <3>1, Turns
  <2> QED
    BY <1>5, <2>3, <2>4, <2>5 DEF receive
<1>6. CASE end_of_packet
  <2>1. /\ pc = "data" /\ UNCHANGED <<player, irq_start, history, todo, remaining, then>>
        /\ irq_start' \in BOOLEAN
        /\ pc \in Turning \ {"idle", "ack"}
    BY <1>6 DEF end_of_packet, Turning, Types
  <2>2. prompt => ~(gap > 0)
    BY <1>1, <2>1 DEF Prompt
  <2>3. CASE ~(talk <= EndBits) /\ Again(pc) /\ looked' = TRUE
    <3>1. pc' = "data" /\ waited' = waited /\ pc' \in Turning /\ talk > EndBits
      BY <1>1, <2>1, <2>3 DEF Again, Turning
    <3> QED
      BY <1>1, <1>2, <2>1, <2>2, <2>3, <3>1, Turns
  <2>4. CASE talk <= EndBits /\ Done("idle")
    <3>1. pc' = "idle" /\ waited' = 0 /\ looked' = TRUE /\ pc' \in Turning
      BY <2>4 DEF Done, Turning
    <3>2. ~(talk > EndBits)
      BY <1>1, <2>4
    <3> QED
      BY <1>2, <2>1, <2>2, <3>1, <3>2, Turns
  <2>5. CASE talk <= EndBits /\ asked[1].pid = USB_PID_IN /\ Done("ack")
    <3>1. pc' = "ack" /\ waited' = 0 /\ looked' = FALSE /\ pc' \in Turning
      BY <2>5 DEF Done, Turning
    <3>2. Ready(Encoded(Ack))'
      BY <1>2, <2>1, <2>5
    <3>3. waited' \in Nat /\ looked' \in BOOLEAN
      BY <3>1
    <3>4. ~(talk > EndBits)
      BY <1>1, <2>5
    <3> QED
      BY <1>2, <2>1, <2>2, <3>1, <3>2, <3>3, <3>4, Turns
  <2> QED
    BY <1>6, <2>3, <2>4, <2>5 DEF end_of_packet, EopSeen
<1> QED
  BY <1>3, <1>4, <1>5, <1>6

-----------------------------------------------------------------------------

(* The invariant holds throughout. *)
THEOREM Inductive == ASSUME Encoder PROVE Spec => []IInv
<1>1. Init => IInv
  <2> SUFFICES ASSUME Init
               PROVE  IInv
    OBVIOUS
  <2>1. Types
    <3>1. /\ enabled \in BOOLEAN /\ oe \in BOOLEAN /\ irq_eop \in BOOLEAN
          /\ irq_start \in BOOLEAN /\ looked \in BOOLEAN /\ prompt \in BOOLEAN
      BY Zenon DEF Init
    <3> QED
      BY <3>1 DEF Init, Types
  <2>2. Sending /\ Quiet /\ Loaded /\ Timed
    BY DEF Init, Sending, Quiet, Padding, Loaded, Timed
  <2>3. Planned
    <3>1. todo = <<>> /\ todo \in Seq(Packets) /\ Len(todo) = 0
      BY DEF Init
    <3> QED
      BY <3>1 DEF Init, Planned, AfterStart
  <2>4. Looked /\ Prompt
    BY DEF Init, Looked, Prompt
  <2> QED
    BY <2>1, <2>2, <2>3, <2>4 DEF IInv
<1>2. IInv /\ [Next]_vars => IInv'
  <2> SUFFICES ASSUME IInv, [Next]_vars
               PROVE  IInv'
    OBVIOUS
  <2>1. CASE Bit
    BY <2>1, BitKeeps
  <2>2. CASE Interrupt
    BY <2>2, InterruptKeeps
  <2>3. CASE Begin
    BY <2>3, BeginKeeps
  <2>4. CASE Cpu
    <3>1. Working
      BY <2>4 DEF Cpu, Working
    <3>2. CASE prepare
      BY <3>1, <3>2, PrepareKeeps
    <3>3. CASE start
      BY <3>1, <3>3, StartKeeps
    <3>4. CASE feed
      BY <3>1, <3>4, FeedKeeps
    <3>5. CASE wait
      BY <3>1, <3>5, WaitKeeps
    <3>6. CASE start_receive \/ prepare_ack_and_release_bus \/ receive \/ end_of_packet
      BY <3>1, <3>6, TurnKeeps
    <3>7. CASE ack
      BY <3>1, <3>7, AckKeeps
    <3> QED
      BY <2>4, <3>2, <3>3, <3>4, <3>5, <3>6, <3>7 DEF Cpu
  <2>5. CASE UNCHANGED vars
    <3> USE <2>5 DEF vars, player, device, history, bounds
    <3>1. Types'
      BY DEF IInv, Types
    <3>2. Sending' /\ Quiet'
      BY DEF IInv, Sending, Left, Position, Taken, Drawn, Quiet
    <3>3. Loaded'
      BY DEF IInv, Loaded, Ready, tx_full
    <3>4. Planned' /\ Timed'
      BY DEF IInv, Planned, Timed, Rest
    <3>5. Looked' /\ Prompt'
      BY DEF IInv, Looked, Prompt
    <3> QED
      BY <3>1, <3>2, <3>3, <3>4, <3>5 DEF IInv
  <2> QED
    BY <2>1, <2>2, <2>3, <2>4, <2>5 DEF Next
<1> QED
  BY <1>1, <1>2, PTL DEF Spec

(* The wire carries the packet, bit time by bit time, whatever its length  *)
(* and however long the CPU is away: TxDriver::transmit and the player.    *)
THEOREM WireIsExact == ASSUME Encoder PROVE Spec => []WireExact
<1>1. ASSUME IInv
      PROVE  WireExact
  <2> USE <1>1 DEF IInv
  <2>1. CASE playing = Nothing
    BY <2>1 DEF Quiet, WireExact, Wire
  <2>2. CASE playing # Nothing
    <3> DEFINE b == Bits(playing)
               wave == Waveform(playing)
    <3>1. /\ b \in Nat /\ at \in Nat
          /\ wave[b + 2] = "SE0" /\ wave[b + 3] = "SE0" /\ wave[b + 4] = "J"
          /\ \A k \in 1 .. b + 1 : wave[k] \in {"J", "K"}
      BY <2>2, Symbols DEF Sending, Types
    <3>2. /\ at <= b + 4
          /\ at = 0 => ~oe
          /\ at >= 1 => oe
          /\ at >= 1 /\ at <= b + 1 => slot = wave[at]
          /\ at = b + 2 => slot = "SE0"
          /\ at = b + 3 => slot = "SE0_again"
          /\ at = b + 4 => slot = "J"
      BY <2>2, Positions
    <3> HIDE DEF b, wave
    <3>3. CASE at = 0
      BY <3>2, <3>3 DEF WireExact, Wire
    <3>4. CASE at >= 1 /\ at <= b + 1
      <4>1. slot = wave[at] /\ slot \in {"J", "K"} /\ oe
        BY <3>1, <3>2, <3>4
      <4>2. Wire = slot
        BY <4>1 DEF Wire
      <4>3. at # 0
        BY <3>4
      <4> QED
        BY <4>1, <4>2, <4>3 DEF WireExact, wave
    <3>5. CASE at >= b + 2
      <4>1. at = b + 2 \/ at = b + 3 \/ at = b + 4
        BY <3>1, <3>2, <3>5
      <4>2. oe /\ at # 0
        BY <3>1, <3>2, <3>5
      <4>3. Wire = wave[at]
        BY <3>1, <3>2, <4>1, <4>2 DEF Wire
      <4> QED
        BY <4>2, <4>3 DEF WireExact, wave
    <3> QED
      BY <3>1, <3>3, <3>4, <3>5
  <2> QED
    BY <2>1, <2>2
<1> QED
  BY <1>1, Inductive, PTL

(* The receiver never hears the host: no wait of TxDriver::wait expires    *)
(* while anything of a packet is left.                                     *)
THEOREM ReceivesNotItself == ASSUME Encoder PROVE Spec => []OwnPacketOver
<1>1. IInv => OwnPacketOver
  BY DEF IInv, Planned, AfterStart, OwnPacketOver
<1> QED
  BY <1>1, Inductive, PTL

(* An uninterrupted host never drives the bus against the bits of an answer*)
(* or its first SE0, for every gap and length of it, and what it begins    *)
(* over the rest of its end is no further than its own first bit.          *)
THEOREM NeverCollides == ASSUME Encoder PROVE Spec => []NoCollision
<1>1. ASSUME IInv, prompt, oe, talk > 0
      PROVE  at + talk <= EndBits
  <2>1. playing # Nothing
    BY <1>1 DEF IInv, Quiet
  <2>2. talk <= EndBits
    BY <1>1, <2>1 DEF IInv, Types, Prompt
  <2> QED
    BY <1>1, <2>1, <2>2 DEF IInv, Prompt
<1>2. IInv => NoCollision
  BY <1>1 DEF NoCollision
<1> QED
  BY <1>2, Inductive, PTL

=============================================================================
