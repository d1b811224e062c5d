---------------------------- MODULE PipeIn_proofs ----------------------------
(***************************************************************************)
(* An IN pipe delivers in order and implements ReliableChannel, for every  *)
(* size of packets and buffers, and any number of packets, losses, polls,  *)
(* cancellations, overflows and halts.                                     *)
(***************************************************************************)
EXTENDS PipeIn, FiniteSetTheorems, TLAPS

Recovering == phase \in {"stalled", "cleared"}

Types ==
    /\ toggle_data1 \in BOOLEAN /\ data1 \in BOOLEAN
    /\ made \in Nat /\ loaded \in {0, made} /\ read \in Seq(Nat)

(* A packet on the wire carries the device's toggle, while the pipe waits  *)
(* for it; an ACK is for a packet the pipe has met: it took it, refused it *)
(* or thought it an old one.                                               *)
Wired ==
    /\ wire \in Data => phase = "reply" /\ loaded # 0 /\ wire = DataPid(data1)
    /\ wire = "ACK" => loaded # 0 /\ (toggle_data1 # data1 \/ loaded \in refused)
    /\ phase # "reply" => wire \in {"quiet", "ACK"}
    /\ phase = "reply" => wire # "ACK"
    /\ Recovering => wire = "quiet"

(* A halted endpoint has nothing to send. *)
Halting ==
    /\ halted => loaded = 0
    /\ wire = "STALL" \/ phase = "stalled" => halted
    /\ phase = "cleared" => data1 = FALSE

(* The packets read are of the past, and the device's packet, if it was    *)
(* read, has moved the pipe's toggle.                                      *)
Taken ==
    /\ \A i \in DOMAIN read : read[i] <= made
    /\ taken => toggle_data1 # data1 /\ phase # "cleared"

IInv == Types /\ Wired /\ Halting /\ Taken /\ InOrder

LEMMA InitIInv == Init => IInv
<1> SUFFICES ASSUME Init PROVE IInv
  OBVIOUS
<1>1. Types
  <2>1. toggle_data1 \in BOOLEAN /\ data1 \in BOOLEAN
    BY Zenon DEF Init
  <2>2. made \in Nat /\ loaded \in {0, made} /\ read \in Seq(Nat)
    BY DEF Init
  <2> QED
    BY <2>1, <2>2 DEF Types
<1>2. ~halted
  BY Zenon DEF Init
<1>3. Wired /\ Halting /\ Taken /\ InOrder
  BY <1>2 DEF Init, Wired, Halting, Taken, taken, InOrder, Recovering, Data
<1> QED
  BY <1>1, <1>3 DEF IInv

(* Only a reply, an ACK and a halt move toggles and packets; the other     *)
(* steps of the pipe leave taken as it is.                                 *)
LEMMA CallIInv ==
    ASSUME IInv, (\E n \in Rooms : request_in(n)) \/ in_token \/ Wake \/ Cancel
    PROVE  IInv'
<1>1. /\ UNCHANGED <<toggle_data1, data1, halted, loaded, made, read, refused>>
      /\ phase \in {"idle", "lock", "backoff"} /\ phase' \notin {"stalled", "cleared"}
      /\ \/ wire' = "IN" /\ phase' = "reply"
         \/ wire' = wire /\ phase' # "reply"
  BY DEF request_in, in_token, Wake, Cancel, device, caller
<1>2. Types' /\ InOrder'
  BY <1>1 DEF IInv, Types, InOrder
<1>3. Wired'
  BY <1>1 DEF IInv, Wired, Recovering, Data
<1>4. Halting'
  BY <1>1 DEF IInv, Wired, Halting
<1>5. Taken'
  BY <1>1 DEF IInv, Taken, taken
<1> QED
  BY <1>2, <1>3, <1>4, <1>5 DEF IInv

LEMMA ResetIInv ==
    ASSUME IInv, reset_data_toggle
    PROVE  IInv' /\ data1 = FALSE /\ ~taken /\ ~taken'
<1>1. /\ UNCHANGED <<data1, halted, loaded, made, read, refused, wire>>
      /\ phase = "cleared" /\ phase' = "idle" /\ toggle_data1' = FALSE
  BY DEF reset_data_toggle, device, caller
<1>2. wire = "quiet" /\ data1 = FALSE /\ ~taken
  BY <1>1 DEF IInv, Wired, Halting, Taken, Recovering
<1>3. ~taken'
  BY <1>1, <1>2 DEF taken
<1>4. Types' /\ InOrder'
  BY <1>1 DEF IInv, Types, InOrder
<1>5. Wired' /\ Halting'
  BY <1>1, <1>2 DEF IInv, Wired, Halting, Recovering, Data
<1>6. Taken'
  BY <1>1, <1>3 DEF IInv, Taken
<1> QED
  BY <1>2, <1>3, <1>4, <1>5, <1>6 DEF IInv

(* A packet the pipe expects is not one it has. *)
LEMMA Fresh ==
    ASSUME IInv, wire \in Data, Expected(wire)
    PROVE  /\ toggle_data1 = data1 /\ phase = "reply"
           /\ loaded = made /\ loaded # 0 /\ ~taken
           /\ \A i \in DOMAIN read : read[i] < loaded
<1>1. wire = DataPid(data1) /\ loaded # 0 /\ loaded = made /\ phase = "reply"
  BY DEF IInv, Wired, Types
<1>2. toggle_data1 = data1
  BY <1>1 DEF Expected, DataPid, IInv, Types
<1>3. ~taken
  BY <1>2 DEF IInv, Taken
<1>4. read \in Seq(Nat) /\ made \in Nat
  BY DEF IInv, Types
<1>5. SUFFICES ASSUME NEW i \in DOMAIN read PROVE read[i] < loaded
  BY <1>1, <1>2, <1>3
<1>6. read # <<>> /\ i \in 1 .. Len(read) /\ Len(read) \in DOMAIN read
  BY <1>4, <1>5
<1>7. read[Len(read)] # loaded
  BY <1>1, <1>3, <1>6 DEF taken
<1>8. read[i] \in Nat /\ read[Len(read)] \in Nat /\ read[i] <= made /\ read[Len(read)] <= made
  BY <1>4, <1>6 DEF IInv, Taken
<1>9. i < Len(read) => read[i] < read[Len(read)]
  BY <1>6 DEF IInv, InOrder
<1> QED
  BY <1>1, <1>4, <1>6, <1>7, <1>8, <1>9

LEMMA AcceptIInv ==
    ASSUME IInv, in_reply, Accept
    PROVE  IInv' /\ taken'
<1>1. /\ UNCHANGED <<data1, halted, loaded, made, refused>>
      /\ phase = "reply" /\ phase' = "idle" /\ wire' = Handshake(wire)
      /\ read' = Append(read, loaded) /\ toggle_data1' = ~toggle_data1
  BY DEF in_reply, Accept, device
<1>2. wire \in Data /\ Expected(wire) /\ wire' = "ACK"
  BY <1>1 DEF Accept, Expected, DataPid, Data, Handshake
<1>3. /\ toggle_data1 = data1 /\ loaded = made /\ loaded # 0
      /\ \A i \in DOMAIN read : read[i] < loaded
  BY <1>2, Fresh
<1>4. read \in Seq(Nat) /\ loaded \in Nat /\ made \in Nat
      /\ toggle_data1 \in BOOLEAN /\ data1 \in BOOLEAN
  BY DEF IInv, Types
<1>5. /\ read' \in Seq(Nat) /\ DOMAIN read' = 1 .. Len(read) + 1 /\ Len(read') = Len(read) + 1
      /\ \A i \in 1 .. Len(read) : read'[i] = read[i]
      /\ read'[Len(read) + 1] = loaded
  BY <1>1, <1>4
<1>6. toggle_data1' # data1' /\ toggle_data1' \in BOOLEAN
  BY <1>1, <1>3, <1>4
<1>7. Types'
  BY <1>1, <1>3, <1>4, <1>5, <1>6 DEF Types
<1>8. Wired' /\ Halting'
  BY <1>1, <1>2, <1>3, <1>6 DEF IInv, Wired, Halting, Recovering, Data
<1>9. taken'
  BY <1>1, <1>3, <1>4, <1>5 DEF taken
<1>10. Taken'
  BY <1>1, <1>3, <1>4, <1>5, <1>6 DEF Taken
<1>11. InOrder'
  <2>1. SUFFICES ASSUME NEW i \in DOMAIN read', NEW j \in DOMAIN read', i < j
                 PROVE  read'[i] < read'[j]
    BY DEF InOrder
  <2>2. i \in 1 .. Len(read) /\ i \in DOMAIN read
    BY <1>4, <1>5, <2>1
  <2>3. CASE j \in 1 .. Len(read)
    BY SMTT(40), <1>4, <1>5, <2>1, <2>2, <2>3 DEF IInv, InOrder
  <2>4. CASE j = Len(read) + 1
    BY <1>3, <1>5, <2>2, <2>4
  <2> QED
    BY <1>4, <1>5, <2>1, <2>3, <2>4
<1> QED
  BY <1>7, <1>8, <1>9, <1>10, <1>11 DEF IInv

(* The other replies leave the toggle where it is. *)
LEMMA ReplyIInv ==
    ASSUME IInv, in_reply, Overflow \/ TryAgain \/ Babble \/ Stalled
    PROVE  IInv'
<1>1. /\ UNCHANGED <<toggle_data1, data1, halted, loaded, made, read>>
      /\ phase = "reply" /\ wire' = Handshake(wire)
      /\ phase' \in {"idle", "backoff", "stalled"}
      /\ phase' = "stalled" => wire = "STALL"
      /\ refused \subseteq refused'
  BY DEF in_reply, Overflow, TryAgain, Babble, Stalled, device
<1>2. wire \in Data => toggle_data1 # data1 \/ loaded \in refused'
  <2>1. CASE Overflow
    BY <2>1 DEF Overflow
  <2>2. CASE TryAgain
    BY <2>2 DEF TryAgain, Expected, IInv, Wired
  <2>3. CASE Babble \/ Stalled
    BY <2>3 DEF Babble, Stalled, Data
  <2> QED
    BY <2>1, <2>2, <2>3
<1>3. wire' = "ACK" => wire \in Data
  BY <1>1 DEF Handshake
<1>4. wire' \in {"quiet", "ACK"} /\ (wire = "STALL" => wire' = "quiet")
  BY <1>1 DEF Handshake, Data
<1>5. Types' /\ InOrder'
  BY <1>1 DEF IInv, Types, InOrder
<1>6. Wired'
  BY <1>1, <1>2, <1>3, <1>4 DEF IInv, Wired, Recovering, Data
<1>7. Halting'
  BY <1>1, <1>4 DEF IInv, Halting
<1>8. Taken'
  BY <1>1 DEF IInv, Taken, taken
<1> QED
  BY <1>5, <1>6, <1>7, <1>8 DEF IInv

LEMMA LoadIInv ==
    ASSUME IInv, NEW n \in Sizes, DeviceLoad(n)
    PROVE  IInv' /\ ~taken'
<1>1. /\ UNCHANGED <<toggle_data1, data1, halted, phase, wire, read, refused>>
      /\ loaded = 0 /\ ~halted /\ made' = made + 1 /\ loaded' = made + 1
  BY DEF DeviceLoad, host, caller
<1>2. read \in Seq(Nat) /\ made \in Nat
  BY DEF IInv, Types
<1>3. \A i \in DOMAIN read : read[i] \in Nat /\ read[i] <= made
  BY <1>2 DEF IInv, Taken
<1>4. read # <<>> => Len(read) \in DOMAIN read
  BY <1>2
<1>5. ~taken'
  BY <1>1, <1>2, <1>3, <1>4 DEF taken
<1>6. Types' /\ InOrder'
  BY <1>1, <1>2 DEF IInv, Types, InOrder
<1>7. Wired' /\ Halting'
  BY <1>1, <1>2 DEF IInv, Wired, Halting, Recovering
<1>8. Taken'
  BY <1>1, <1>2, <1>3, <1>5 DEF Taken
<1> QED
  BY <1>5, <1>6, <1>7, <1>8 DEF IInv

LEMMA AckedIInv ==
    ASSUME IInv, DeviceAcked
    PROVE  IInv' /\ loaded # 0 /\ ~taken'
<1>1. /\ UNCHANGED <<toggle_data1, halted, phase, made, read, refused>>
      /\ wire = "ACK" /\ wire' = "quiet" /\ data1' = ~data1 /\ loaded' = 0
  BY DEF DeviceAcked, host, caller
<1>2. loaded # 0 /\ phase \notin {"stalled", "cleared"}
  BY <1>1 DEF IInv, Wired, Recovering
<1>3. ~taken'
  BY <1>1 DEF taken
<1>4. Types' /\ InOrder'
  BY <1>1 DEF IInv, Types, InOrder
<1>5. Wired' /\ Halting'
  BY <1>1, <1>2 DEF IInv, Wired, Halting, Recovering, Data
<1>6. Taken'
  BY <1>1, <1>3 DEF IInv, Taken
<1> QED
  BY <1>2, <1>3, <1>4, <1>5, <1>6 DEF IInv

LEMMA HaltIInv ==
    ASSUME IInv, DeviceHalt \/ ClearHalt
    PROVE  IInv' /\ ~taken' /\ loaded' = 0
<1>1. /\ UNCHANGED <<toggle_data1, wire, made, read, refused>>
      /\ wire = "quiet"
      /\ phase' # "reply" => phase # "reply"
      /\ phase' = "cleared" => data1' = FALSE
      /\ data1' = data1 \/ data1' = FALSE
      /\ phase' = "stalled" => halted'
  BY DEF DeviceHalt, ClearHalt, host, caller, IInv, Wired, Recovering
<1>2. loaded' = 0
  BY DEF DeviceHalt, ClearHalt, IInv, Halting
<1>3. ~taken'
  BY <1>2 DEF taken
<1>4. Types' /\ InOrder'
  BY <1>1, <1>2 DEF IInv, Types, InOrder
<1>5. Wired' /\ Halting'
  BY <1>1, <1>2 DEF IInv, Wired, Halting, Recovering, Data
<1>6. Taken'
  BY <1>1, <1>3 DEF IInv, Taken
<1> QED
  BY <1>2, <1>3, <1>4, <1>5, <1>6 DEF IInv

LEMMA WireIInv ==
    ASSUME IInv, DeviceSend \/ DeviceBabble \/ DeviceBusy \/ Lose
    PROVE  IInv'
<1>1. /\ UNCHANGED <<toggle_data1, data1, halted, loaded, phase, made, read, refused>>
  BY DEF DeviceSend, DeviceBabble, DeviceBusy, Lose, host, device, caller
<1>2. /\ wire # "quiet"
      /\ \/ wire' = DataPid(data1) /\ loaded # 0 /\ wire = "IN"
         \/ wire' = "STALL" /\ halted /\ wire = "IN"
         \/ wire' \in {"babble", "NAK", "silence"} /\ wire # "ACK"
         \/ wire' = "quiet" /\ wire = "ACK"
  BY DEF DeviceSend, DeviceBabble, DeviceBusy, Lose, Data
<1>3. Types' /\ InOrder'
  BY <1>1 DEF IInv, Types, InOrder
<1>4. Wired'
  BY <1>1, <1>2 DEF IInv, Wired, Recovering, Data, DataPid
<1>5. Halting'
  BY <1>1, <1>2 DEF IInv, Halting, DataPid
<1>6. Taken'
  BY <1>1 DEF IInv, Taken, taken
<1> QED
  BY <1>3, <1>4, <1>5, <1>6 DEF IInv

LEMMA StutterIInv ==
    ASSUME IInv, UNCHANGED vars
    PROVE  IInv'
BY DEF vars, host, device, caller, IInv, Types, Wired, Halting, Taken, taken, InOrder,
       Recovering

(* Toggles that agree mean a packet the pipe does not have. *)
THEOREM Inductive == Spec => []IInv
<1>1. IInv /\ [Next]_vars => IInv'
  <2>1. ASSUME IInv, in_reply PROVE IInv'
    BY <2>1, AcceptIInv, ReplyIInv DEF in_reply
  <2> QED
    BY <2>1, CallIInv, ResetIInv, LoadIInv, AckedIInv, HaltIInv, WireIInv, StutterIInv
       DEF Next, Host, Device
<1> QED
  BY InitIInv, <1>1, PTL DEF Spec

(* The caller never reads a packet twice, nor one after a later one,       *)
(* although every repetition of a packet is acknowledged by in_once.       *)
THEOREM NeverTwice == Spec => []InOrder
<1>1. IInv => InOrder
  BY DEF IInv
<1> QED
  BY Inductive, <1>1, PTL

-----------------------------------------------------------------------------

(* A caller who could not be refused any more has room for every packet. *)
TInv ==
    /\ TypeOK
    /\ phase \in {"lock", "reply", "backoff"} /\ refusals = MaxRefusals =>
         \A s \in Sizes : s <= room

LEMMA InitTInv == Init => TInv
<1> SUFFICES ASSUME Init PROVE TInv
  OBVIOUS
<1>1. toggle_data1 \in BOOLEAN /\ data1 \in BOOLEAN /\ halted \in BOOLEAN
  BY Zenon DEF Init
<1> QED
  BY <1>1, InAssumption DEF Init, TInv, TypeOK, Phase, Wire

LEMMA HostTInv ==
    ASSUME IInv, TInv, Host
    PROVE  TInv'
<1>1. UNCHANGED <<data1, halted, loaded, size, made, acked, halts>>
  BY DEF Host, request_in, in_token, in_reply, Wake, Cancel, reset_data_toggle, device, caller
<1>2. CASE in_reply
  <2>1. /\ UNCHANGED room /\ phase = "reply" /\ wire' \in {"quiet", "ACK"}
        /\ phase' \in {"idle", "backoff", "stalled"}
    BY <1>2 DEF in_reply, Handshake, Accept, Overflow, TryAgain, Babble, Stalled
  <2>2. CASE Accept
    <3>1. /\ read' = Append(read, loaded) /\ toggle_data1' = ~toggle_data1
          /\ UNCHANGED <<refused, refusals>> /\ wire \in Data /\ Expected(wire)
      BY <2>2 DEF Accept, Expected, DataPid, Data
    <3>2. loaded \in 1 .. MaxPackets
      BY <3>1, Fresh, InAssumption DEF TInv, TypeOK
    <3>3. read' \in Seq(1 .. MaxPackets)
      BY <3>1, <3>2 DEF TInv, TypeOK
    <3> QED
      BY <1>1, <2>1, <3>1, <3>3 DEF TInv, TypeOK, Phase, Wire
  <2>3. CASE Overflow
    <3>1. /\ UNCHANGED <<toggle_data1, read>> /\ wire \in Data /\ Expected(wire)
          /\ refused' = refused \cup {loaded} /\ refusals' = refusals + 1
          /\ ~(size <= room) /\ phase' = "idle"
      BY <2>3 DEF Overflow, Expected, DataPid, Data, Fits
    <3>2. loaded \in 1 .. MaxPackets
      BY <3>1, Fresh, InAssumption DEF TInv, TypeOK
    <3>3. size \in Sizes /\ refusals # MaxRefusals
      BY <2>1, <3>1, InAssumption DEF TInv, TypeOK
    <3>4. refusals' \in 0 .. MaxRefusals
      BY <3>1, <3>3, InAssumption DEF TInv, TypeOK
    <3> QED
      BY <1>1, <2>1, <3>1, <3>2, <3>4 DEF TInv, TypeOK, Phase, Wire
  <2>4. CASE TryAgain \/ Babble \/ Stalled
    <3>1. UNCHANGED <<toggle_data1, read, refused, refusals>>
      BY <2>4 DEF TryAgain, Babble, Stalled
    <3> QED
      BY <1>1, <2>1, <3>1 DEF TInv, TypeOK, Phase, Wire
  <2> QED
    BY <1>2, <2>2, <2>3, <2>4 DEF in_reply
<1>3. ASSUME NEW n \in Rooms, request_in(n) PROVE TInv'
  <2>1. /\ phase' = "lock" /\ room' = n
        /\ refusals < MaxRefusals \/ \A s \in Sizes : s <= n
        /\ UNCHANGED <<toggle_data1, wire, read, refused, refusals>>
    BY <1>3 DEF request_in, caller
  <2>2. refusals = MaxRefusals => \A s \in Sizes : s <= n
    BY <2>1, InAssumption
  <2> QED
    BY <1>1, <2>1, <2>2 DEF TInv, TypeOK, Phase
<1>4. CASE in_token \/ Wake \/ Cancel
  <2>1. /\ UNCHANGED <<toggle_data1, room, read, refused, refusals>>
        /\ phase \in {"lock", "backoff"} /\ phase' \in Phase
        /\ wire' = wire \/ wire' = "IN"
    BY <1>4 DEF in_token, Wake, Cancel, caller, Phase
  <2> QED
    BY <1>1, <2>1 DEF TInv, TypeOK, Wire
<1>5. CASE reset_data_toggle
  BY <1>1, <1>5 DEF reset_data_toggle, caller, TInv, TypeOK, Phase
<1> QED
  BY <1>2, <1>3, <1>4, <1>5 DEF Host

LEMMA DeviceTInv ==
    ASSUME IInv, TInv, Device \/ Lose
    PROVE  TInv'
<1>1. UNCHANGED <<toggle_data1, room, read, refused, refusals>>
  BY DEF Device, DeviceLoad, DeviceSend, DeviceBabble, DeviceBusy, DeviceAcked, DeviceHalt,
         ClearHalt, Lose, host, caller
<1>2. ASSUME NEW n \in Sizes, DeviceLoad(n) PROVE TInv'
  <2>1. /\ made < MaxPackets /\ made' = made + 1 /\ loaded' = made + 1 /\ size' = n
        /\ UNCHANGED <<phase, wire, data1, halted, acked, halts>>
    BY <1>2 DEF DeviceLoad, host, caller
  <2>2. made' \in 0 .. MaxPackets
    BY <2>1, InAssumption DEF TInv, TypeOK
  <2> QED
    BY <1>1, <2>1, <2>2 DEF TInv, TypeOK
<1>3. CASE DeviceAcked
  <2>1. /\ wire = "ACK" /\ wire' = "quiet" /\ data1' = ~data1 /\ loaded' = 0
        /\ acked' = Append(acked, loaded)
        /\ UNCHANGED <<phase, halted, size, made, halts>>
    BY <1>3 DEF DeviceAcked, host, caller
  <2>2. loaded \in 1 .. MaxPackets
    BY <2>1, InAssumption DEF IInv, Wired, TInv, TypeOK
  <2>3. acked' \in Seq(1 .. MaxPackets)
    BY <2>1, <2>2 DEF TInv, TypeOK
  <2> QED
    BY <1>1, <2>1, <2>3 DEF TInv, TypeOK, Wire
<1>4. CASE DeviceHalt
  <2>1. /\ halted' = TRUE /\ halts' = halts + 1 /\ halts < MaxHalts /\ loaded' = 0
        /\ UNCHANGED <<phase, wire, data1, size, made, acked>>
    BY <1>4 DEF DeviceHalt, host
  <2>2. halts' \in 0 .. MaxHalts
    BY <2>1, InAssumption DEF TInv, TypeOK
  <2> QED
    BY <1>1, <2>1, <2>2 DEF TInv, TypeOK
<1>5. CASE ClearHalt
  BY <1>1, <1>5 DEF ClearHalt, caller, TInv, TypeOK, Phase
<1>6. CASE DeviceSend \/ DeviceBabble \/ DeviceBusy \/ Lose
  <2>1. /\ UNCHANGED <<phase, data1, halted, loaded, size, made, acked, halts>>
        /\ wire' \in Wire
    BY <1>6 DEF DeviceSend, DeviceBabble, DeviceBusy, Lose, host, device, caller, Wire, Data,
       DataPid
  <2> QED
    BY <1>1, <2>1 DEF TInv, TypeOK
<1> QED
  BY <1>2, <1>3, <1>4, <1>5, <1>6 DEF Device

(* Only a packet the device has is acknowledged, and one that does not fit *)
(* is refused only to a caller whose buffer allows it.                     *)
THEOREM TypeCorrect == Spec => []TypeOK
<1>1. TInv /\ UNCHANGED vars => TInv'
  BY DEF vars, host, device, caller, TInv, TypeOK
<1>2. IInv /\ TInv /\ [Next]_vars => TInv'
  BY <1>1, HostTInv, DeviceTInv DEF Next
<1>3. TInv => TypeOK
  BY DEF TInv
<1> QED
  BY Inductive, InitTInv, <1>2, <1>3, PTL DEF Spec

-----------------------------------------------------------------------------

LEMMA InitChannel == Init => Channel!Init
<1> SUFFICES ASSUME Init PROVE Channel!Init
  OBVIOUS
<1>1. ~taken
  BY DEF Init, taken
<1>2. ~doubt
  <2>1. toggle_data1 = data1
    BY Zenon DEF Init
  <2> QED
    BY <2>1 DEF doubt
<1> QED
  BY <1>1, <1>2 DEF Init, Channel!Init, taken, doubt

LEMMA Truths ==
    taken \in BOOLEAN /\ doubt \in BOOLEAN /\ taken' \in BOOLEAN /\ doubt' \in BOOLEAN
BY DEF taken, doubt

(* A step that moves neither toggles nor packets is none of the channel's. *)
LEMMA Idle ==
    ASSUME UNCHANGED <<toggle_data1, data1, loaded, made, read, acked, refused>>,
           phase = "cleared" <=> phase' = "cleared"
    PROVE  UNCHANGED Channel!vars
<1>1. taken' <=> taken
  BY DEF taken
<1>2. doubt' <=> doubt
  BY <1>1 DEF doubt
<1> QED
  BY <1>1, <1>2, Truths DEF Channel!vars

LEMMA HostChannel ==
    ASSUME IInv, Host
    PROVE  [Channel!Next]_(Channel!vars)
<1>1. UNCHANGED <<data1, loaded, made, acked>>
  BY DEF Host, request_in, in_token, in_reply, Wake, Cancel, reset_data_toggle, device
<1>2. CASE in_reply /\ Accept
  <2>1. /\ phase' = "idle" /\ read' = Append(read, loaded)
        /\ toggle_data1' = ~toggle_data1 /\ UNCHANGED refused
        /\ wire \in Data /\ Expected(wire)
    BY <1>2 DEF Accept, Expected, DataPid, Data
  <2>2. toggle_data1 = data1 /\ phase = "reply" /\ loaded # 0 /\ ~taken
    BY <2>1, Fresh
  <2>3. taken'
    BY <1>2, AcceptIInv
  <2>4. ~doubt /\ ~doubt'
    BY <2>2, <2>3 DEF doubt
  <2>5. Channel!Take
    BY <1>1, <2>1, <2>2, <2>3, <2>4, Truths DEF Channel!Take
  <2> QED
    BY <2>5 DEF Channel!Next
<1>3. CASE in_reply /\ Overflow
  <2>1. /\ phase' = "idle" /\ refused' = refused \cup {loaded}
        /\ UNCHANGED <<toggle_data1, read>>
        /\ wire \in Data /\ Expected(wire)
    BY <1>3 DEF Overflow, Expected, DataPid, Data
  <2>2. toggle_data1 = data1 /\ phase = "reply" /\ loaded # 0 /\ ~taken
    BY <2>1, Fresh
  <2>3. ~taken'
    BY <1>1, <2>1, <2>2 DEF taken
  <2>4. ~doubt /\ ~doubt'
    BY <1>1, <2>1, <2>2 DEF doubt
  <2>5. Channel!Refuse
    BY <1>1, <2>1, <2>2, <2>3, <2>4, Truths DEF Channel!Refuse
  <2> QED
    BY <2>5 DEF Channel!Next
<1>4. CASE in_reply /\ (TryAgain \/ Babble \/ Stalled)
  <2>1. /\ UNCHANGED <<toggle_data1, read, refused>>
        /\ phase # "cleared" /\ phase' # "cleared"
    BY <1>4 DEF in_reply, TryAgain, Babble, Stalled
  <2> QED
    BY <1>1, <2>1, Idle
<1>5. CASE (\E n \in Rooms : request_in(n)) \/ in_token \/ Wake \/ Cancel
  <2>1. /\ UNCHANGED <<toggle_data1, read, refused>>
        /\ phase # "cleared" /\ phase' # "cleared"
    BY <1>5 DEF request_in, in_token, Wake, Cancel, caller
  <2> QED
    BY <1>1, <2>1, Idle
<1>6. CASE reset_data_toggle
  <2>1. UNCHANGED <<read, refused>> /\ phase = "cleared" /\ toggle_data1' = FALSE
    BY <1>6 DEF reset_data_toggle, caller
  <2>2. data1 = FALSE /\ ~taken /\ ~taken'
    BY <1>6, ResetIInv
  <2>3. ~doubt /\ ~doubt'
    BY <1>1, <2>1, <2>2 DEF doubt
  <2> QED
    BY <1>1, <2>1, <2>2, <2>3, Truths DEF Channel!vars
<1>7. in_reply => Accept \/ Overflow \/ TryAgain \/ Babble \/ Stalled
  BY DEF in_reply
<1> QED
  BY <1>2, <1>3, <1>4, <1>5, <1>6, <1>7 DEF Host

LEMMA DeviceChannel ==
    ASSUME IInv, Device \/ Lose
    PROVE  [Channel!Next]_(Channel!vars)
<1>1. UNCHANGED <<toggle_data1, read, refused>>
  BY DEF Device, DeviceLoad, DeviceSend, DeviceBabble, DeviceBusy, DeviceAcked, DeviceHalt,
         ClearHalt, Lose, host, caller
<1>2. ASSUME NEW n \in Sizes, DeviceLoad(n) PROVE [Channel!Next]_(Channel!vars)
  <2>1. /\ loaded = 0 /\ made' = made + 1 /\ loaded' = made + 1
        /\ UNCHANGED <<data1, phase, acked>>
    BY <1>2 DEF DeviceLoad, host
  <2>2. ~taken /\ ~taken'
    BY <1>2, <2>1, LoadIInv DEF taken
  <2>3. doubt' <=> doubt
    BY <1>1, <2>1, <2>2 DEF doubt
  <2>4. Channel!Submit
    BY <1>1, <2>1, <2>2, <2>3, Truths DEF Channel!Submit
  <2> QED
    BY <2>4 DEF Channel!Next
<1>3. CASE DeviceAcked
  <2>1. /\ wire = "ACK" /\ data1' = ~data1 /\ loaded' = 0
        /\ acked' = Append(acked, loaded) /\ UNCHANGED <<phase, made>>
    BY <1>3 DEF DeviceAcked, host
  <2>2. loaded # 0 /\ ~taken'
    BY <1>3, AckedIInv
  <2>3. phase # "cleared" /\ (toggle_data1 # data1 \/ loaded \in refused)
    BY <2>1 DEF IInv, Wired, Recovering
  <2>4. taken => toggle_data1 # data1
    BY DEF IInv, Taken
  <2>5. doubt <=> toggle_data1 # data1 /\ ~taken
    BY <2>3 DEF doubt
  <2>6. toggle_data1' # data1' <=> toggle_data1 = data1
    BY <1>1, <2>1 DEF IInv, Types
  <2>7. doubt' <=> toggle_data1 = data1
    BY <2>1, <2>2, <2>3, <2>6 DEF doubt
  <2>8. /\ taken \/ doubt \/ loaded \in refused
        /\ doubt' <=> ~taken /\ ~doubt
    BY <2>3, <2>4, <2>5, <2>7
  <2>9. Channel!Confirm
    BY <1>1, <2>1, <2>2, <2>8, Truths DEF Channel!Confirm
  <2> QED
    BY <2>9 DEF Channel!Next
<1>4. CASE DeviceHalt
  <2>1. /\ UNCHANGED <<phase, data1, made, acked>> /\ phase # "cleared" /\ loaded' = 0
    BY <1>4 DEF DeviceHalt, host
  <2>2. ~taken'
    BY <1>4, HaltIInv
  <2>3. doubt' <=> toggle_data1 # data1
    BY <1>1, <2>1, <2>2 DEF doubt
  <2>4. doubt' <=> taken \/ doubt
    BY <2>1, <2>3 DEF doubt, IInv, Taken
  <2>5. CASE loaded = 0
    <3>1. ~taken
      BY <2>5 DEF taken
    <3> QED
      BY <1>1, <2>1, <2>2, <2>4, <2>5, <3>1, Truths DEF Channel!vars
  <2>6. CASE loaded # 0
    BY <1>1, <2>1, <2>2, <2>4, <2>6, Truths DEF Channel!Withdraw, Channel!Next
  <2> QED
    BY <2>5, <2>6
<1>5. CASE ClearHalt
  <2>1. phase' = "cleared" /\ UNCHANGED <<loaded, made, acked>>
    BY <1>5 DEF ClearHalt
  <2>2. loaded = 0 /\ ~taken' /\ ~taken
    BY <1>5, <2>1, HaltIInv DEF taken
  <2>3. ~doubt'
    BY <2>1 DEF doubt
  <2>4. Channel!Reset
    BY <1>1, <2>1, <2>2, <2>3, Truths DEF Channel!Reset
  <2> QED
    BY <2>4 DEF Channel!Next
<1>6. CASE DeviceSend \/ DeviceBabble \/ DeviceBusy \/ Lose
  <2>1. UNCHANGED <<data1, loaded, made, acked, phase>>
    BY <1>6 DEF DeviceSend, DeviceBabble, DeviceBusy, Lose, host, device
  <2> QED
    BY <1>1, <2>1, Idle
<1> QED
  BY <1>2, <1>3, <1>4, <1>5, <1>6 DEF Device

(* The pipe of embassy.rs, with a device and a lossy wire, is a reliable   *)
(* channel from the device to the caller, overflows and halts included.    *)
THEOREM ImplementsChannel == Spec => ChannelSpec
<1>1. IInv /\ [Next]_vars => [Channel!Next]_(Channel!vars)
  <2>1. ASSUME UNCHANGED vars PROVE UNCHANGED Channel!vars
    <3>1. UNCHANGED <<toggle_data1, data1, loaded, made, read, acked, refused, phase>>
      BY <2>1 DEF vars, host, device, caller
    <3> QED
      BY <3>1, Idle
  <2> QED
    BY <2>1, HostChannel, DeviceChannel DEF Next
<1> QED
  BY Inductive, InitChannel, <1>1, PTL DEF Spec, ChannelSpec, Channel!Spec

-----------------------------------------------------------------------------

(* Packets acknowledged and never read, and those that will be: the next   *)
(* one when the toggles differ, and the refused one before it as well.     *)
Missing == Elements(acked) \ Elements(read)

Debt ==
    IF halted \/ phase = "cleared" \/ taken THEN 0
    ELSE IF toggle_data1 # data1 THEN 1
    ELSE IF loaded \in refused THEN 2
    ELSE 0

Refused ==
    /\ refused \subseteq 1 .. made
    /\ phase = "cleared" => loaded \notin refused

Account == IsFiniteSet(Missing) /\ Cardinality(Missing) + Debt <= 2 * refusals

CInv == acked \in Seq(Nat) /\ refusals \in Nat /\ Refused /\ Account

LEMMA ElementsAppend ==
    ASSUME NEW s \in Seq(Nat), NEW e \in Nat
    PROVE  Elements(Append(s, e)) = Elements(s) \cup {e}
<1>1. /\ DOMAIN Append(s, e) = 1 .. Len(s) + 1 /\ DOMAIN s = 1 .. Len(s) /\ Len(s) \in Nat
      /\ \A i \in 1 .. Len(s) : Append(s, e)[i] = s[i]
      /\ Append(s, e)[Len(s) + 1] = e
  OBVIOUS
<1>2. 1 .. Len(s) + 1 = (1 .. Len(s)) \cup {Len(s) + 1}
  BY <1>1
<1> QED
  BY <1>1, <1>2 DEF Elements

LEMMA InitCInv == Init => CInv
<1> SUFFICES ASSUME Init PROVE CInv
  OBVIOUS
<1>1. acked = <<>> /\ acked \in Seq(Nat) /\ refusals = 0 /\ refused = {}
  BY DEF Init
<1>2. Missing = {}
  BY <1>1 DEF Missing, Elements
<1>3. toggle_data1 = data1
  BY Zenon DEF Init
<1>4. Debt = 0
  BY <1>1, <1>3 DEF Debt
<1> QED
  BY <1>1, <1>2, <1>4, FS_EmptySet DEF CInv, Refused, Account

(* A step pays for a missing packet with its debt, and a refusal allows a  *)
(* debt of two.                                                            *)
LEMMA Paid ==
    ASSUME CInv, refusals' \in Nat,
           \/ Missing' \subseteq Missing /\ Debt' <= Debt /\ refusals' = refusals
           \/ Missing' \subseteq Missing /\ refusals' = refusals + 1
           \/ Missing' \subseteq Missing \cup {loaded} /\ Debt' < Debt /\ refusals' = refusals
    PROVE  Account'
<1>1. IsFiniteSet(Missing) /\ Cardinality(Missing) \in Nat
      /\ Cardinality(Missing) + Debt <= 2 * refusals /\ refusals \in Nat
  BY FS_CardinalityType DEF CInv, Account
<1>2. Debt \in 0 .. 2 /\ Debt' \in 0 .. 2
  BY DEF Debt
<1>3. CASE Missing' \subseteq Missing
  <2>1. /\ IsFiniteSet(Missing') /\ Cardinality(Missing') \in Nat
        /\ Cardinality(Missing') <= Cardinality(Missing)
    BY <1>1, <1>3, FS_Subset, FS_CardinalityType
  <2> QED
    BY <1>1, <1>2, <1>3, <2>1 DEF Account
<1>4. CASE Missing' \subseteq Missing \cup {loaded} /\ Debt' < Debt /\ refusals' = refusals
  <2>1. /\ IsFiniteSet(Missing \cup {loaded})
        /\ \/ Cardinality(Missing \cup {loaded}) = Cardinality(Missing)
           \/ Cardinality(Missing \cup {loaded}) = Cardinality(Missing) + 1
    BY <1>1, FS_AddElement
  <2>2. /\ IsFiniteSet(Missing') /\ Cardinality(Missing') \in Nat
        /\ Cardinality(Missing') <= Cardinality(Missing \cup {loaded})
    BY <1>4, <2>1, FS_Subset, FS_CardinalityType
  <2> QED
    BY <1>1, <1>2, <1>4, <2>1, <2>2 DEF Account
<1> QED
  BY <1>3, <1>4

LEMMA ReplyCInv ==
    ASSUME IInv, CInv, in_reply
    PROVE  CInv'
<1>1. /\ UNCHANGED <<data1, halted, loaded, made, acked>>
      /\ phase # "cleared" /\ phase' # "cleared"
  BY DEF in_reply, device, Accept, Overflow, TryAgain, Babble, Stalled
<1>2. CASE Accept
  <2>1. read' = Append(read, loaded) /\ UNCHANGED <<refused, refusals>> /\ taken'
    BY <1>2, AcceptIInv DEF Accept
  <2>2. Elements(Append(read, loaded)) = Elements(read) \cup {loaded}
    BY ElementsAppend DEF IInv, Types
  <2>3. Elements(acked') = Elements(acked) /\ Elements(read') = Elements(Append(read, loaded))
    BY <1>1, <2>1
  <2>4. Missing' \subseteq Missing
    BY <2>2, <2>3 DEF Missing
  <2>5. Debt' <= Debt
    BY <2>1 DEF Debt
  <2> QED
    BY <1>1, <2>1, <2>4, <2>5, Paid DEF CInv, Refused
<1>3. CASE Overflow
  <2>1. /\ UNCHANGED read /\ refused' = refused \cup {loaded} /\ refusals' = refusals + 1
        /\ wire \in Data /\ Expected(wire)
    BY <1>3 DEF Overflow, Expected, DataPid, Data
  <2>2. loaded \in 1 .. made
    BY <2>1, Fresh DEF IInv, Types
  <2>3. Missing' = Missing
    BY <1>1, <2>1 DEF Missing, Elements
  <2>4. refusals' \in Nat
    BY <2>1 DEF CInv
  <2>5. Account'
    BY <2>1, <2>3, <2>4, Paid
  <2> QED
    BY <1>1, <2>1, <2>2, <2>4, <2>5 DEF CInv, Refused
<1>4. CASE TryAgain \/ Babble \/ Stalled
  <2>1. UNCHANGED <<toggle_data1, read, refused, refusals>>
    BY <1>4 DEF TryAgain, Babble, Stalled
  <2>2. Missing' = Missing /\ Debt' = Debt
    BY <1>1, <2>1 DEF Missing, Elements, Debt, taken
  <2>3. Debt' <= Debt
    BY <2>2 DEF Debt
  <2>4. Account'
    BY <2>1, <2>2, <2>3, Paid DEF CInv
  <2> QED
    BY <1>1, <2>1, <2>4 DEF CInv, Refused
<1> QED
  BY <1>2, <1>3, <1>4 DEF in_reply

LEMMA AckedCInv ==
    ASSUME IInv, CInv, DeviceAcked
    PROVE  CInv'
<1>1. /\ UNCHANGED <<toggle_data1, halted, phase, made, read, refused, refusals>>
      /\ wire = "ACK" /\ data1' = ~data1 /\ loaded' = 0
      /\ acked' = Append(acked, loaded)
  BY DEF DeviceAcked, host, caller
<1>2. /\ loaded # 0 /\ ~halted /\ phase # "cleared"
      /\ toggle_data1 # data1 \/ loaded \in refused
  BY <1>1 DEF IInv, Wired, Halting, Recovering
<1>3. ~taken' /\ loaded \in Nat /\ acked \in Seq(Nat)
  BY <1>1 DEF taken, IInv, Types, CInv
<1>4. Elements(Append(acked, loaded)) = Elements(acked) \cup {loaded}
  BY <1>3, ElementsAppend
<1>5. Elements(acked') = Elements(Append(acked, loaded)) /\ Elements(read') = Elements(read)
  BY <1>1
<1>6. 0 \notin refused
  BY DEF CInv, Refused, IInv, Types
<1>7. toggle_data1' = data1' <=> toggle_data1 # data1
  BY <1>1 DEF IInv, Types
<1>8. Account'
  <2>1. CASE taken
    <3>1. loaded \in Elements(read)
      BY <2>1 DEF taken, Elements, IInv, Types
    <3>2. Missing' \subseteq Missing
      BY <1>4, <1>5, <3>1 DEF Missing
    <3>3. toggle_data1 # data1
      BY <2>1 DEF IInv, Taken
    <3>4. Debt' <= Debt
      BY <1>1, <1>6, <1>7, <3>3 DEF Debt
    <3> QED
      BY <1>1, <3>2, <3>4, Paid DEF CInv
  <2>2. CASE ~taken
    <3>1. Missing' \subseteq Missing \cup {loaded}
      BY <1>4, <1>5 DEF Missing
    <3>2. Debt' < Debt
      BY <1>1, <1>2, <1>3, <1>6, <1>7, <2>2 DEF Debt
    <3> QED
      BY <1>1, <3>1, <3>2, Paid DEF CInv
  <2> QED
    BY <2>1, <2>2
<1>9. acked' \in Seq(Nat)
  BY <1>1, <1>3
<1> QED
  BY <1>1, <1>2, <1>8, <1>9 DEF CInv, Refused

LEMMA LoadCInv ==
    ASSUME IInv, CInv, NEW n \in Sizes, DeviceLoad(n)
    PROVE  CInv'
<1>1. /\ UNCHANGED <<toggle_data1, data1, halted, phase, read, acked, refused, refusals>>
      /\ loaded = 0 /\ made' = made + 1 /\ loaded' = made + 1
  BY DEF DeviceLoad, host, caller
<1>2. made \in Nat /\ refused \subseteq 1 .. made
  BY DEF IInv, Types, CInv, Refused
<1>3. loaded \notin refused /\ loaded' \notin refused'
  BY <1>1, <1>2
<1>4. ~taken /\ ~taken'
  BY <1>1, LoadIInv DEF taken
<1>5. Missing' = Missing /\ Debt' = Debt /\ Debt' <= Debt
  BY <1>1, <1>3, <1>4 DEF Missing, Elements, Debt
<1>6. Account'
  BY <1>1, <1>5, Paid DEF CInv
<1>7. refused' \subseteq 1 .. made'
  BY <1>1, <1>2
<1> QED
  BY <1>1, <1>3, <1>6, <1>7 DEF CInv, Refused

LEMMA ResetCInv ==
    ASSUME IInv, CInv, DeviceHalt \/ ClearHalt \/ reset_data_toggle
    PROVE  CInv'
<1>1. UNCHANGED <<made, read, acked, refused, refusals>>
  BY DEF DeviceHalt, ClearHalt, reset_data_toggle, device, caller
<1>2. Debt' = 0
  <2>1. CASE DeviceHalt \/ ClearHalt
    BY <2>1 DEF DeviceHalt, ClearHalt, Debt
  <2>2. CASE reset_data_toggle
    <3>1. /\ UNCHANGED <<data1, loaded>> /\ phase = "cleared" /\ toggle_data1' = FALSE
          /\ data1 = FALSE
      BY <2>2, ResetIInv DEF reset_data_toggle, device
    <3> QED
      BY <1>1, <3>1 DEF Debt, CInv, Refused
  <2> QED
    BY <2>1, <2>2
<1>3. phase' = "cleared" => loaded' = 0
  BY HaltIInv DEF DeviceHalt, ClearHalt, reset_data_toggle
<1>4. Refused'
  BY <1>1, <1>3 DEF CInv, Refused, IInv, Types
<1>5. Missing' = Missing /\ Debt' <= Debt
  BY <1>1, <1>2 DEF Missing, Elements, Debt
<1>6. Account'
  BY <1>1, <1>5, Paid DEF CInv
<1> QED
  BY <1>1, <1>4, <1>6 DEF CInv

(* The other steps move neither toggles nor packets. *)
LEMMA IdleCInv ==
    ASSUME CInv,
           UNCHANGED <<toggle_data1, data1, halted, loaded, made, read, acked, refused, refusals>>,
           phase = "cleared" <=> phase' = "cleared"
    PROVE  CInv'
<1>1. Missing' = Missing /\ Debt' = Debt
  BY DEF Missing, Elements, Debt, taken
<1> QED
  BY <1>1 DEF CInv, Refused, Account

(* A packet the device saw acknowledged and the caller never read is paid  *)
(* for by a BufferOverflow of in_reply: two at most for each, and none for *)
(* what was lost, dropped or halted.                                       *)
THEOREM RefusalsCost == Spec => []RefusalCost
<1>1. IInv /\ CInv /\ [Next]_vars => CInv'
  <2>1. ASSUME IInv, CInv,
               \/ (\E n \in Rooms : request_in(n)) \/ in_token \/ Wake \/ Cancel
               \/ DeviceSend \/ DeviceBabble \/ DeviceBusy \/ Lose
               \/ UNCHANGED vars
        PROVE  CInv'
    BY <2>1, IdleCInv DEF request_in, in_token, Wake, Cancel, DeviceSend, DeviceBabble,
       DeviceBusy, Lose, vars, host, device, caller
  <2> QED
    BY <2>1, ReplyCInv, AckedCInv, LoadCInv, ResetCInv DEF Next, Host, Device
<1>2. CInv => RefusalCost
  <2>1. CInv => Cardinality(Missing) \in Nat /\ Debt \in 0 .. 2
    BY FS_CardinalityType DEF CInv, Account, Debt
  <2> QED
    BY <2>1 DEF CInv, Account, RefusalCost, Missing
<1> QED
  BY Inductive, InitCInv, <1>1, <1>2, PTL DEF Spec
=============================================================================
