----------------------------- MODULE UsbPackets -----------------------------
(***************************************************************************)
(* What the modules on packets share: the PIDs of pid.rs, and a packet of  *)
(* the host as its PID and what it carries.                                *)
(***************************************************************************)
EXTENDS Naturals

USB_SYNC      == 128
USB_PID_SOF   == 165
USB_PID_SETUP == 45
USB_PID_IN    == 105
USB_PID_OUT   == 225
USB_PID_DATA0 == 195
USB_PID_DATA1 == 75
USB_PID_ACK   == 210
USB_PID_NAK   == 90
USB_PID_STALL == 30

MAX_DATA_PAYLOAD_BYTES == 64

USB_CRC16_RESIDUE == 45057

(* A byte goes out with its low bit first. *)
Octet(b) ==
    <<b % 2, (b \div 2) % 2, (b \div 4) % 2, (b \div 8) % 2,
      (b \div 16) % 2, (b \div 32) % 2, (b \div 64) % 2, (b \div 128) % 2>>

(* NoPid is the lone end of packet that keeps a low-speed device awake. *)
NoPid == 0

KeepAlive == [pid |-> NoPid, data |-> <<>>]

Ack == [pid |-> USB_PID_ACK, data |-> <<>>]

(* The words of a packet that outgrows a buffer of its encoder. *)
None == <<>>
=============================================================================
