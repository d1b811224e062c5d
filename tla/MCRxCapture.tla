----------------------------- MODULE MCRxCapture -----------------------------
(***************************************************************************)
(* Packets for the runs of RxCapture: handshakes, and payloads chosen for  *)
(* their bits: none, one with a byte stretched to ten bit times by two     *)
(* stuffed bits, one whose packet ends in a stuffed bit, one too long for  *)
(* the buffer, and one whose first byte is the PID of a STALL.             *)
(***************************************************************************)
EXTENDS Encoding, RxCapture
LOCAL INSTANCE SequencesExt

MCPayloads == {<<>>, <<248, 255>>, <<0, 68>>, <<255, 0, 1>>, <<30, 5>>}

MCPackets ==
    {build_data_packet(pid, p) : pid \in {USB_PID_DATA0, USB_PID_DATA1}, p \in MCPayloads}
    \cup {handshake(pid) : pid \in {USB_PID_ACK, USB_PID_NAK, USB_PID_STALL}}

SumsOf(packets) ==
    [p \in packets |->
        [i \in 1 .. Len(p) |-> FoldLeft(crc16_update, 65535, SubSeq(p, 3, i))]]

MCSums == SumsOf(MCPackets)

(* A keyboard's report of one key.  Its first two bytes, the modifiers and *)
(* a reserved one, are what the CRC of an empty payload is.                *)
MCReports == {build_data_packet(USB_PID_DATA1, <<0, 0, 4, 0, 0, 0, 0, 0>>)}

MCReportSums == SumsOf(MCReports)
=============================================================================
