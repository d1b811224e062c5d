------------------------------ MODULE Encoding ------------------------------
(***************************************************************************)
(* Packets as bytes, as symbols and as words for the transmit FIFO, and    *)
(* what the players of tx_pio.rs make of a symbol: encoding.rs and crc.rs. *)
(***************************************************************************)
EXTENDS UsbPackets, Sequences, Bitwise
LOCAL INSTANCE SequencesExt

(* One division step of the reflected polynomial, eight of them per byte. *)
CrcShift(rem) == IF rem % 2 = 1 THEN (rem \div 2) ^^ 40961 ELSE rem \div 2

CRC16_TBL ==
    [i \in 0 .. 255 |-> FoldLeft(LAMBDA rem, j : CrcShift(rem), i, [j \in 1 .. 8 |-> j])]

crc16_update(rem, b) == (rem \div 256) ^^ CRC16_TBL[(rem % 256) ^^ b]

calc_crc16(data) == FoldLeft(crc16_update, 65535, data) ^^ 65535

build_data_packet(pid, payload) ==
    LET sum == calc_crc16(payload)
    IN  <<USB_SYNC, pid>> \o payload \o <<sum % 256, sum \div 256>>

handshake(pid) == <<USB_SYNC, pid>>

(* CRC5 of an eleven-bit value, five bits at a time after the first. *)
CRC5_TBL ==
    [i \in 0 .. 31 |->
        <<0, 11, 22, 29, 5, 14, 19, 24, 10, 1, 28, 23, 15, 4, 25, 18,
          20, 31, 2, 9, 17, 26, 7, 12, 30, 21, 8, 3, 27, 16, 13, 6>>[i + 1]]

calc_crc5(data) ==
    LET mixed == data ^^ 31
        first == IF mixed % 2 = 1 THEN 20 ELSE 0
        lsb   == CRC5_TBL[((mixed \div 2) % 32) ^^ first]
    IN  CRC5_TBL[((mixed \div 64) % 32) ^^ lsb] ^^ 31

(* A token and a SOF carry eleven bits and their CRC5. *)
short_packet(pid, data) ==
    <<USB_SYNC, pid, data % 256, (data \div 256) + 8 * calc_crc5(data)>>

sof_packet(frame) == short_packet(USB_PID_SOF, frame % 2048)

token_packet(pid, addr, ep) == short_packet(pid, (ep % 16) * 128 + (addr % 128))

-----------------------------------------------------------------------------

Level(j) == IF j THEN "J" ELSE "K"

(* NRZI: a zero is a transition.  A transition is forced after `stuffing`  *)
(* ones in a row.                                                          *)
StuffingLate == 7

Stuffing == 6

Put(e, bit) ==
    LET j    == IF bit = 1 THEN e.state_j ELSE ~e.state_j
        left == IF bit = 1 THEN e.stuffing - 1 ELSE Stuffing
    IN  IF left = 0
        THEN [out |-> e.out \o <<Level(j), Level(~j)>>, state_j |-> ~j, stuffing |-> Stuffing]
        ELSE [out |-> Append(e.out, Level(j)), state_j |-> j, stuffing |-> left]

Eop == <<"SE0", "COMP">>

PutByte(e, b) ==
    LET new == FoldLeft(Put, [e EXCEPT !.out = <<>>], Octet(b))
    IN  [out |-> e.out \o new.out, state_j |-> new.state_j, stuffing |-> new.stuffing]

encode_tx_data(buffer) ==
    FoldLeft(PutByte, [out |-> <<>>, state_j |-> TRUE, stuffing |-> Stuffing], buffer).out \o Eop

(* The player spends two bit times on SE0; COMP releases the lines to the  *)
(* pull-up of J.                                                           *)
Played(symbols) ==
    FlattenSeq([i \in DOMAIN symbols |->
        CASE symbols[i] = "SE0"  -> <<"SE0", "SE0">>
          [] symbols[i] = "COMP" -> <<"J">>
          [] OTHER               -> <<symbols[i]>>])
-----------------------------------------------------------------------------

CeilDiv(n, k) == (n + k - 1) \div k

(* Four symbols to a byte, four bytes to a word; at least one idle symbol  *)
(* pads a packet to whole bytes, more pad it to whole words.  A packet that*)
(* outgrows one of its buffers is None.                                    *)
repack_for_fifo(symbols, n_words) ==
    [w \in 1 .. n_words |->
        [j \in 1 .. 16 |->
            LET i == 16 * (w - 1) + j
            IN  IF i <= Len(symbols) THEN symbols[i] ELSE "J"]]

encode(packet, scratch, words) ==
    LET symbols == encode_tx_data(packet)
        n       == CeilDiv(Len(symbols) + 1, 4)
        n_words == CeilDiv(n, 4)
    IN  IF n > scratch \/ n_words > words THEN None ELSE repack_for_fifo(symbols, n_words)

(* Without the end of the packet and its padding. *)
MAX_ENCODED_PACKET_BYTESBitsOnly == 158

MAX_ENCODED_PACKET_BYTES == 160

MAX_DATA_PACKET_WORDS == 40

build_sof(frame) == encode(sof_packet(frame), 12, 3)

build_token(pid, addr, ep) == encode(token_packet(pid, addr, ep), 12, 3)

build_data(pid, payload) ==
    IF Len(payload) > MAX_DATA_PAYLOAD_BYTES THEN None
    ELSE encode(build_data_packet(pid, payload), MAX_ENCODED_PACKET_BYTES, MAX_DATA_PACKET_WORDS)

(* The constants of the source, as eight hexadecimal digits per word.      *)
Symbol == [n \in 0 .. 3 |-> <<"SE0", "J", "COMP", "K">>[n + 1]]

Word(digits) ==
    FlattenSeq([i \in 1 .. 8 |-> <<Symbol[digits[i] \div 4], Symbol[digits[i] % 4]>>])

ACK_PACKET ==
    <<Word(<<13, 13, 13, 15, 5, 13, 7, 15>>), Word(<<2, 5, 5, 5, 5, 5, 5, 5>>)>>

LS_KEEPALIVE_PACKET == <<Word(<<2, 5, 5, 5, 5, 5, 5, 5>>)>>
=============================================================================
