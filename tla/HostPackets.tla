---------------------------- MODULE HostPackets -----------------------------
(***************************************************************************)
(* The packets of the host's transactions, twice: as the words the driver  *)
(* pushes for them, and as the waveform that USB 2.0 asks for.  Transmit   *)
(* takes both as constants.                                                *)
(***************************************************************************)
EXTENDS Encoding, FiniteSets
LOCAL INSTANCE SequencesExt
LOCAL INSTANCE FiniteSetsExt

CONSTANTS
    FrameNumbers, Endpoints, Payloads   \* what is sent; an endpoint is <<addr, ep>>

ASSUME PacketAssumption ==
    /\ \A f \in FrameNumbers : f \in 0 .. 2047
    /\ \A e \in Endpoints : e[1] \in 0 .. 127 /\ e[2] \in 0 .. 15
    /\ \A p \in Payloads : \A i \in DOMAIN p : p[i] \in 0 .. 255

-----------------------------------------------------------------------------

Sofs == {[pid |-> USB_PID_SOF, data |-> <<f>>] : f \in FrameNumbers}

Tokens(pid) == {[pid |-> pid, data |-> e] : e \in Endpoints}

Datas(pid) == {[pid |-> pid, data |-> p] : p \in Payloads}

HostTransactions ==
    {<<p>> : p \in Sofs \cup {KeepAlive} \cup Tokens(USB_PID_IN)}
    \cup Tokens(USB_PID_SETUP) \X {d \in Datas(USB_PID_DATA0) : Len(d.data) = 8}
    \cup Tokens(USB_PID_OUT) \X Datas(USB_PID_DATA1)

AllPackets == {Ack} \cup UNION {{t[i] : i \in DOMAIN t} : t \in HostTransactions}

(* The words that are pushed for a packet. *)
EncodedTable ==
    [p \in AllPackets |->
        CASE p.pid = NoPid        -> LS_KEEPALIVE_PACKET
          [] p.pid = USB_PID_ACK  -> ACK_PACKET
          [] p.pid = USB_PID_SOF  -> build_sof(p.data[1])
          [] p.pid \in {USB_PID_IN, USB_PID_OUT, USB_PID_SETUP} ->
                 build_token(p.pid, p.data[1], p.data[2])
          [] OTHER                -> build_data(p.pid, p.data)]

HostEncoded(p) == EncodedTable[p]

-----------------------------------------------------------------------------

(* What USB 2.0 says a packet looks like, in its own words: fields sent    *)
(* least significant bit first, a CRC as a shift register that is sent     *)
(* complemented from its top (8.3.5), a zero stuffed after every six ones  *)
(* (7.1.9), a zero as a transition (7.1.8), two bit times of SE0 and one of*)
(* J (7.1.7.2); before it, the host drives J.                              *)
Field(n, width) == [i \in 1 .. width |-> (n \div 2^(i - 1)) % 2]

Crc(width, poly, fields) ==
    LET Shift(r, bit) ==
            IF r \div 2^(width - 1) = bit
            THEN (2 * r) % 2^width
            ELSE ((2 * r) % 2^width) ^^ poly
        Through(field) == [r \in 0 .. 2^width - 1 |-> FoldLeft(Shift, r, field)]
        reg[i \in 0 .. Len(fields)] ==
            IF i = 0 THEN 2^width - 1 ELSE Through(fields[i])[reg[i - 1]]
        sum == reg[Len(fields)]
    IN  [j \in 1 .. width |-> 1 - ((sum \div 2^(width - j)) % 2)]

Crc5(fields) == Crc(5, 5, fields)

Crc16(fields) == Crc(16, 32773, fields)

Fields(p) ==
    IF p.pid = USB_PID_SOF THEN <<Field(p.data[1], 11)>>
    ELSE IF p.pid \in {USB_PID_IN, USB_PID_OUT, USB_PID_SETUP}
    THEN <<Field(p.data[1], 7), Field(p.data[2], 4)>>
    ELSE [i \in DOMAIN p.data |-> Field(p.data[i], 8)]

DataBits(p) ==
    <<0, 0, 0, 0, 0, 0, 0, 1>> \o Field(p.pid, 8) \o FlattenSeq(Fields(p)) \o
    (IF p.pid = USB_PID_ACK THEN <<>>
     ELSE IF p.pid \in {USB_PID_DATA0, USB_PID_DATA1} THEN Crc16(Fields(p))
     ELSE Crc5(Fields(p)))

OnesUpTo(bits, i) ==
    i - Max({0} \cup {j \in 1 .. i : bits[j] = 0})

(* A place for every bit and one after it, which only a stuffed bit takes. *)
Stuffed(bits) ==
    LET empty   == 2
        Full(i) == LET ones == OnesUpTo(bits, i) IN ones > 0 /\ ones % 6 = 0
        places  == [k \in 1 .. 2 * Len(bits) |->
                       IF k % 2 = 1 THEN bits[k \div 2 + 1]
                       ELSE IF Full(k \div 2) THEN 0 ELSE empty]
    IN  SelectSeq(places, LAMBDA b : b # empty)

Nrzi(bits) ==
    [i \in DOMAIN bits |-> Level(Cardinality({j \in 1 .. i : bits[j] = 0}) % 2 = 0)]

WaveformTable ==
    [p \in AllPackets |->
        <<"J">> \o (IF p.pid = NoPid THEN <<>> ELSE Nrzi(Stuffed(DataBits(p)))) \o
        <<"SE0", "SE0", "J">>]

StandardWaveform(p) == WaveformTable[p]
=============================================================================
