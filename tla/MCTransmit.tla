----------------------------- MODULE MCTransmit -----------------------------
(***************************************************************************)
(* Packets for the run of Transmit: payloads of no byte, of the eight of a *)
(* SETUP with bits stuffed across them, the longest of ones, which outgrows*)
(* the FIFO and stuffs most, and one too long.                             *)
(***************************************************************************)
EXTENDS HostPackets, Transmit

MCEndpoints == {<<93, 9>>}

Ones(n) == [i \in 1 .. n |-> 255]

MCPayloads ==
    {<<>>, <<0, 126, 255, 3, 0, 85, 129, 64>>, Ones(64), Ones(65)}
=============================================================================
