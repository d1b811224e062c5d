--------------------------- MODULE PipeOut_proofs ---------------------------
(***************************************************************************)
(* An OUT pipe delivers in order, keeps the boundaries of messages and     *)
(* implements ReliableChannel, for every packet size, every length of the  *)
(* caller's buffers, and any number of packets, losses, retries,           *)
(* cancellations and halts.                                                *)
(***************************************************************************)
EXTENDS PipeOut, FiniteSetTheorems, SequenceTheorems, TLAPS

Working == phase \in {"lock", "reply", "backoff"}

Types ==
    /\ toggle_data1 \in BOOLEAN /\ expect_data1 \in BOOLEAN
    /\ begun \in Nat /\ got \in Seq(Nat)

(* A packet is on the wire, or its answer, only while the pipe listens; it *)
(* carries the pipe's toggle, and an ACK says the device's has moved on.   *)
Wired ==
    /\ phase # "reply" => wire = "quiet"
    /\ wire \in Data => wire = DataPid(toggle_data1)
    /\ wire = "ACK" => toggle_data1 # expect_data1

(* The packets taken are of the past, and the one at work, if it was taken,*)
(* has moved the device's toggle.                                          *)
Taken ==
    /\ Working => begun > 0
    /\ \A i \in DOMAIN got : got[i] <= begun
    /\ Working /\ got # <<>> /\ got[Len(got)] = begun => toggle_data1 # expect_data1
    /\ phase = "cleared" => expect_data1 = FALSE

IInv == Types /\ Wired /\ Taken /\ InOrder

LEMMA InitIInv == Init => IInv
<1> SUFFICES ASSUME Init PROVE IInv
  OBVIOUS
<1>1. Types
  <2>1. toggle_data1 \in BOOLEAN /\ expect_data1 \in BOOLEAN
    BY Zenon DEF Init
  <2>2. begun \in Nat /\ got \in Seq(Nat)
    BY DEF Init
  <2> QED
    BY <2>1, <2>2 DEF Types
<1>2. Wired /\ Taken
  BY DEF Init, Wired, Taken, Working, Data
<1>3. InOrder
  BY DEF Init, InOrder
<1> QED
  BY <1>1, <1>2, <1>3 DEF IInv

(* Between two transactions the wire is quiet and the toggles stand, until *)
(* they are reset together.                                                *)
LEMMA CallIInv ==
    ASSUME IInv,
           \/ \E len \in Lengths, ensure \in BOOLEAN : request_out(len, ensure)
           \/ request_out_ok \/ Wake \/ Cancel \/ reset_data_toggle
    PROVE  IInv'
<1>1. /\ UNCHANGED <<expect_data1, got, begun, wire>>
      /\ phase # "reply" /\ phase' # "reply" /\ phase' # "cleared"
      /\ Working' => Working
      /\ toggle_data1' = toggle_data1 \/ (toggle_data1' = FALSE /\ phase = "cleared")
  BY DEF request_out, request_out_ok, Wake, Cancel, reset_data_toggle, host, device, caller,
         Working
<1>2. Types'
  BY <1>1 DEF IInv, Types
<1>3. wire = "quiet" /\ wire \notin Data
  BY <1>1 DEF IInv, Wired, Data
<1>4. Wired'
  BY <1>1, <1>3 DEF Wired
<1>5. Working => phase # "cleared"
  BY DEF Working
<1>6. Taken' /\ InOrder'
  BY <1>1, <1>5 DEF IInv, Taken, InOrder
<1> QED
  BY <1>2, <1>4, <1>6 DEF IInv

LEMMA BeginIInv ==
    ASSUME IInv, request_out_packet
    PROVE  IInv'
<1>1. /\ UNCHANGED <<expect_data1, toggle_data1, got, wire>>
      /\ begun' = begun + 1 /\ phase = "chunk" /\ phase' = "lock"
  BY DEF request_out_packet, device
<1>2. Types' /\ InOrder'
  BY <1>1 DEF IInv, Types, InOrder
<1>3. Wired'
  BY <1>1 DEF IInv, Wired, Data
<1>4. \A i \in DOMAIN got : got[i] \in Nat /\ got[i] <= begun
  BY DEF IInv, Types, Taken
<1>5. got # <<>> => Len(got) \in DOMAIN got
  BY DEF IInv, Types
<1>6. Taken'
  BY <1>1, <1>4, <1>5 DEF IInv, Types, Taken
<1> QED
  BY <1>2, <1>3, <1>6 DEF IInv

LEMMA TransactionIInv ==
    ASSUME IInv, out_once \/ receive
    PROVE  IInv'
<1>1. UNCHANGED <<expect_data1, got, begun>>
  BY DEF out_once, receive, device, caller
<1>2. CASE out_once
  <2>1. /\ UNCHANGED toggle_data1
        /\ wire' = DataPid(toggle_data1) /\ phase = "lock" /\ phase' = "reply"
    BY <1>2 DEF out_once
  <2>2. Types' /\ InOrder'
    BY <1>1, <2>1 DEF IInv, Types, InOrder
  <2>3. Wired'
    BY <1>1, <2>1 DEF Wired, Data, DataPid
  <2>4. Taken'
    BY <1>1, <2>1 DEF IInv, Taken, Working
  <2> QED
    BY <2>2, <2>3, <2>4 DEF IInv
<1>3. CASE receive
  <2>1. /\ phase = "reply" /\ wire' = "quiet" /\ toggle_data1' = Flipped(wire)
        /\ \/ phase' = "chunk"
           \/ phase' = "stalled" /\ ~Acked(wire)
           \/ phase' = "backoff" /\ ~Acked(wire)
    BY <1>3 DEF receive, Acked
  <2>2. toggle_data1' \in BOOLEAN
    BY <2>1 DEF Flipped, IInv, Types
  <2>3. Types' /\ InOrder'
    BY <1>1, <2>2 DEF IInv, Types, InOrder
  <2>4. Wired'
    BY <2>1 DEF Wired, Data
  <2>5. Working' => Working /\ toggle_data1' = toggle_data1
    BY <2>1 DEF Working, Flipped
  <2>6. phase' # "cleared"
    BY <2>1
  <2>7. Taken'
    BY <1>1, <2>5, <2>6 DEF IInv, Taken
  <2> QED
    BY <2>3, <2>4, <2>7 DEF IInv
<1> QED
  BY <1>2, <1>3

(* A packet with the toggle the device expects is not one it has. *)
LEMMA TakeIInv ==
    ASSUME IInv, DeviceTake
    PROVE  IInv' /\ Working /\ toggle_data1 = expect_data1
<1>1. /\ UNCHANGED <<toggle_data1, phase, begun>>
      /\ wire = DataPid(expect_data1) /\ wire' = "ACK"
      /\ expect_data1' = ~expect_data1 /\ got' = Append(got, begun)
  BY DEF DeviceTake, host, caller
<1>2. wire \in Data /\ phase = "reply" /\ Working
  BY <1>1 DEF IInv, Wired, DataPid, Data, Working
<1>3. toggle_data1 = expect_data1
  BY <1>1, <1>2 DEF IInv, Wired, Types, DataPid
<1>4. got \in Seq(Nat) /\ begun \in Nat
  BY DEF IInv, Types
<1>5. /\ Len(got') = Len(got) + 1 /\ DOMAIN got' = 1 .. Len(got) + 1
      /\ \A i \in 1 .. Len(got) : got'[i] = got[i]
      /\ got'[Len(got) + 1] = begun
  BY <1>1, <1>4
<1>6. Types'
  BY <1>1, <1>4 DEF IInv, Types
<1>7. Wired'
  BY <1>1, <1>2, <1>3 DEF IInv, Types, Wired, Data
<1>8. \A i \in DOMAIN got : got[i] < begun
  <2>1. SUFFICES ASSUME NEW i \in DOMAIN got PROVE got[i] < begun
    OBVIOUS
  <2>2. got[i] \in Nat /\ got[i] <= begun /\ i \in 1 .. Len(got) /\ Len(got) \in DOMAIN got
    BY <1>4, <2>1 DEF IInv, Taken
  <2>3. got[Len(got)] # begun /\ got[Len(got)] \in Nat /\ got[Len(got)] <= begun
    BY <1>2, <1>3, <1>4, <2>2 DEF IInv, Taken
  <2>4. i < Len(got) => got[i] < got[Len(got)]
    BY <2>2 DEF IInv, InOrder
  <2> QED
    BY <1>4, <2>2, <2>3, <2>4
<1>9. Taken'
  BY <1>1, <1>2, <1>3, <1>4, <1>5, <1>8 DEF IInv, Types, Taken, Working
<1>10. InOrder'
  <2>1. SUFFICES ASSUME NEW i \in DOMAIN got', NEW j \in DOMAIN got', i < j
                 PROVE  got'[i] < got'[j]
    BY DEF InOrder
  <2>2. i \in 1 .. Len(got) /\ i \in DOMAIN got
    BY <1>4, <1>5, <2>1
  <2>3. CASE j \in 1 .. Len(got)
    BY <1>4, <1>5, <2>1, <2>2, <2>3 DEF IInv, InOrder
  <2>4. CASE j = Len(got) + 1
    BY <1>5, <1>8, <2>2, <2>4
  <2> QED
    BY <1>4, <1>5, <2>1, <2>3, <2>4
<1> QED
  BY <1>2, <1>3, <1>6, <1>7, <1>9, <1>10 DEF IInv

(* What else the device does, and the wire. *)
LEMMA WireIInv ==
    ASSUME IInv, DeviceDiscard \/ DeviceBusy \/ DeviceHalt \/ ClearHalt \/ Lose
    PROVE  IInv'
<1>1. /\ UNCHANGED <<toggle_data1, got, begun>>
      /\ Working' => Working /\ UNCHANGED expect_data1
      /\ phase' = "reply" <=> phase = "reply"
      /\ expect_data1' = expect_data1 \/ expect_data1' = FALSE
      /\ phase' = "cleared" => expect_data1' = FALSE
  BY DEF DeviceDiscard, DeviceBusy, DeviceHalt, ClearHalt, Lose, host, device, caller, Working,
         IInv, Taken
<1>2. Types'
  BY <1>1 DEF IInv, Types
<1>3. CASE DeviceDiscard
  <2>1. /\ UNCHANGED <<toggle_data1, expect_data1, phase>>
        /\ wire = DataPid(~expect_data1) /\ wire' = "ACK"
    BY <1>3 DEF DeviceDiscard, host, device
  <2>2. wire \in Data /\ toggle_data1 # expect_data1
    BY <2>1 DEF IInv, Wired, Types, DataPid, Data
  <2> QED
    BY <1>1, <1>2, <2>1, <2>2 DEF IInv, Wired, Taken, InOrder, Data, Working
<1>4. CASE DeviceBusy \/ Lose
  <2>1. /\ UNCHANGED <<toggle_data1, expect_data1, phase>>
        /\ wire # "quiet" /\ wire' \in {"STALL", "NAK", "silence"}
    BY <1>4 DEF DeviceBusy, Lose, host, device, Data
  <2> QED
    BY <1>1, <1>2, <2>1 DEF IInv, Wired, Taken, InOrder, Data, Working
<1>5. CASE DeviceHalt \/ ClearHalt
  <2>1. wire = "quiet" /\ wire' = "quiet"
    BY <1>5 DEF DeviceHalt, ClearHalt, IInv, Wired
  <2> QED
    BY <1>1, <1>2, <2>1 DEF IInv, Wired, Taken, InOrder, Data
<1> QED
  BY <1>3, <1>4, <1>5

LEMMA StutterIInv ==
    ASSUME IInv, UNCHANGED vars
    PROVE  IInv'
BY DEF vars, host, device, caller, IInv, Types, Wired, Taken, InOrder, Working

(* The toggles are out of step exactly when the device has the packet.    *)
THEOREM Inductive == Spec => []IInv
<1>1. IInv /\ [Next]_vars => IInv'
  BY CallIInv, BeginIInv, TransactionIInv, TakeIInv, WireIInv, StutterIInv
     DEF Next, Host, Device
<1> QED
  BY InitIInv, <1>1, PTL DEF Spec

(* The device never takes a packet twice, nor one after a later one: a     *)
(* retry of request_out_packet carries the toggle of the packet it repeats.*)
THEOREM NeverTwice == Spec => []InOrder
<1>1. IInv => InOrder
  BY DEF IInv
<1> QED
  BY Inductive, <1>1, PTL

-----------------------------------------------------------------------------

(* While no request is cancelled and no endpoint halted, what the device   *)
(* took is what returned Ok, and the packet at work if the toggles differ. *)
Exact ==
    cancels = 0 /\ halts = 0 =>
        /\ ~halted /\ wire # "STALL" /\ phase \notin {"stalled", "cleared"}
        /\ toggle_data1 = expect_data1 => got = oks
        /\ toggle_data1 # expect_data1 => Working /\ got = Append(oks, begun)

Bounds == cancels \in Nat /\ halts \in Nat /\ oks \in Seq(Nat)

EInv == Bounds /\ Exact

LEMMA InitEInv == Init => EInv
<1> SUFFICES ASSUME Init PROVE EInv
  OBVIOUS
<1>1. Bounds
  BY DEF Init, Bounds
<1>2. ~halted /\ toggle_data1 = expect_data1
  BY Zenon DEF Init
<1> QED
  BY <1>1, <1>2 DEF Init, EInv, Exact

LEMMA HostEInv ==
    ASSUME IInv, EInv, Host
    PROVE  EInv'
<1>1. UNCHANGED <<expect_data1, halted, got, halts>>
  BY DEF Host, request_out, request_out_packet, request_out_ok, out_once, receive, Wake,
         Cancel, reset_data_toggle, device, host, caller
<1>2. CASE Cancel
  <2>1. cancels' = cancels + 1 /\ UNCHANGED oks
    BY <1>2 DEF Cancel
  <2> QED
    BY <1>1, <2>1 DEF EInv, Bounds, Exact
<1>3. CASE receive
  <2>1. /\ UNCHANGED <<begun, cancels>> /\ wire' = "quiet" /\ phase = "reply"
        /\ toggle_data1' = Flipped(wire)
        /\ \/ Acked(wire) /\ oks' = Append(oks, begun)
           \/ wire = "STALL" /\ UNCHANGED oks
           \/ ~Acked(wire) /\ UNCHANGED oks /\ phase' = "backoff"
    BY <1>3 DEF receive
  <2>2. Bounds'
    <3>1. begun \in Nat /\ oks \in Seq(Nat)
      BY DEF IInv, Types, EInv, Bounds
    <3>2. oks' = oks \/ oks' = Append(oks, begun)
      BY <2>1
    <3>3. oks' \in Seq(Nat)
      BY <3>1, <3>2
    <3> QED
      BY <1>1, <2>1, <3>3 DEF EInv, Bounds
  <2>3. CASE Acked(wire) /\ oks' = Append(oks, begun)
    <3>1. toggle_data1 # expect_data1 /\ toggle_data1' = expect_data1
      BY <2>1, <2>3 DEF Acked, Flipped, IInv, Types, Wired
    <3>2. phase' \notin {"stalled", "cleared"}
      BY <1>3, <2>3 DEF receive, Acked
    <3> QED
      BY <1>1, <2>1, <2>2, <2>3, <3>1, <3>2 DEF EInv, Exact
  <2>4. CASE wire = "STALL" /\ UNCHANGED oks
    BY <1>1, <2>1, <2>2, <2>4 DEF EInv, Exact
  <2>5. CASE ~Acked(wire) /\ UNCHANGED oks /\ phase' = "backoff"
    BY <1>1, <2>1, <2>2, <2>5 DEF EInv, Exact, Flipped, Working
  <2> QED
    BY <2>1, <2>3, <2>4, <2>5
<1>4. CASE request_out_packet
  BY <1>1, <1>4 DEF request_out_packet, EInv, Bounds, Exact, Working
<1>5. CASE out_once
  BY <1>1, <1>5 DEF out_once, EInv, Bounds, Exact, Working, DataPid, caller
<1>6. CASE Wake \/ request_out_ok \/ reset_data_toggle
           \/ \E len \in Lengths, ensure \in BOOLEAN : request_out(len, ensure)
  BY <1>1, <1>6 DEF Wake, request_out_ok, reset_data_toggle, request_out,
                    EInv, Bounds, Exact, Working, caller
<1> QED
  BY <1>2, <1>3, <1>4, <1>5, <1>6 DEF Host

LEMMA DeviceEInv ==
    ASSUME IInv, EInv, Device \/ Lose
    PROVE  EInv'
<1>1. UNCHANGED <<toggle_data1, begun, oks, cancels>>
  BY DEF Device, DeviceTake, DeviceDiscard, DeviceBusy, DeviceHalt, ClearHalt, Lose,
         host, device, caller
<1>2. CASE DeviceTake
  <2>1. Working /\ toggle_data1 = expect_data1
    BY <1>2, TakeIInv
  <2>2. /\ UNCHANGED <<phase, halted, halts>> /\ wire' = "ACK"
        /\ expect_data1' = ~expect_data1 /\ got' = Append(got, begun)
    BY <1>2 DEF DeviceTake, host, caller
  <2> QED
    BY <1>1, <2>1, <2>2 DEF IInv, Types, EInv, Bounds, Exact, Working
<1>3. CASE DeviceHalt
  BY <1>1, <1>3 DEF DeviceHalt, EInv, Bounds, Exact
<1>4. CASE ClearHalt
  BY <1>1, <1>4 DEF ClearHalt, EInv, Bounds, Exact, caller
<1>5. CASE DeviceDiscard \/ DeviceBusy \/ Lose
  <2>1. /\ UNCHANGED <<phase, expect_data1, halted, got, halts>>
        /\ wire' = "STALL" => halted
    BY <1>5 DEF DeviceDiscard, DeviceBusy, Lose, host, device, caller
  <2> QED
    BY <1>1, <2>1 DEF EInv, Bounds, Exact, Working
<1> QED
  BY <1>2, <1>3, <1>4, <1>5 DEF Device

LEMMA StutterEInv ==
    ASSUME EInv, UNCHANGED vars
    PROVE  EInv'
BY DEF vars, host, device, caller, EInv, Bounds, Exact, Working

(* While no request is cancelled and the endpoint not halted, a packet that*)
(* returned Ok from out_once was taken, in order, and at most the packet at*)
(* work was taken without the caller's knowing.                            *)
THEOREM OkMeansTaken == Spec => []ExactlyOnce
<1>1. IInv /\ EInv /\ [Next]_vars => EInv'
  BY HostEInv, DeviceEInv, StutterEInv DEF Next
<1>2. IInv /\ EInv => ExactlyOnce
  BY SMTT(40) DEF IInv, Types, EInv, Bounds, Exact, ExactlyOnce, IsPrefixOf
<1> QED
  BY Inductive, InitEInv, <1>1, <1>2, PTL DEF Spec

-----------------------------------------------------------------------------

(* buf.chunks and the packet behind them. *)
LEMMA PacketsType ==
    ASSUME NEW len \in Nat, NEW ensure \in BOOLEAN
    PROVE  Packets(len, ensure) \in Seq(0 .. Mps)
<1> DEFINE full  == [i \in 1 .. len \div Mps |-> Mps]
           rest  == IF len % Mps # 0 THEN <<len % Mps>> ELSE <<>>
           empty == IF len = 0 \/ needs_terminating_zlp(len, ensure) THEN <<0>> ELSE <<>>
<1>1. Mps \in Nat \ {0} /\ len \div Mps \in Nat /\ len % Mps \in 0 .. Mps
  BY OutAssumption
<1>2. full \in Seq(0 .. Mps) /\ rest \in Seq(0 .. Mps) /\ empty \in Seq(0 .. Mps)
  <2>1. full \in Seq(0 .. Mps)
    <3>1. \A n \in Nat : [i \in 1 .. n |-> Mps] \in Seq({Mps})
      OBVIOUS
    <3>2. full \in Seq({Mps})
      BY <1>1, <3>1
    <3>3. {Mps} \subseteq 0 .. Mps
      BY <1>1
    <3> QED
      BY <3>2, <3>3
  <2>2. rest \in Seq(0 .. Mps)
    <3>1. <<len % Mps>> \in Seq(0 .. Mps) /\ <<>> \in Seq(0 .. Mps)
      BY <1>1
    <3> QED
      BY <3>1
  <2>3. empty \in Seq(0 .. Mps)
    <3>1. 0 \in 0 .. Mps
      BY <1>1
    <3>2. <<0>> \in Seq(0 .. Mps) /\ <<>> \in Seq(0 .. Mps)
      BY <3>1
    <3> QED
      BY <3>2
  <2> QED
    BY <2>1, <2>2, <2>3
<1>3. full \o rest \in Seq(0 .. Mps)
  BY <1>2
<1>4. full \o rest \o empty \in Seq(0 .. Mps)
  BY <1>2, <1>3
<1> QED
  BY <1>4 DEF Packets

(* A request begins only packets the bound has room for. *)
TInv ==
    /\ TypeOK
    /\ phase = "chunk" => begun + Len(queue) <= MaxPackets
    /\ Working => queue # <<>> /\ begun + Len(queue) <= MaxPackets + 1

LEMMA InitTInv == Init => TInv
<1> SUFFICES ASSUME Init PROVE TInv
  OBVIOUS
<1>1. toggle_data1 \in BOOLEAN /\ expect_data1 \in BOOLEAN /\ halted \in BOOLEAN
  BY Zenon DEF Init
<1> QED
  BY <1>1, OutAssumption DEF Init, TInv, TypeOK, Phase, Wire, Working

LEMMA HostTInv ==
    ASSUME IInv, TInv, Host
    PROVE  TInv'
<1>1. UNCHANGED <<expect_data1, halted, got, partial, messages, halts>>
  BY DEF Host, request_out, request_out_packet, request_out_ok, out_once, receive, Wake,
         Cancel, reset_data_toggle, device, host, caller
<1>2. ASSUME NEW len \in Lengths, NEW ensure \in BOOLEAN, request_out(len, ensure)
      PROVE  TInv'
  <2>1. /\ begun + Len(Packets(len, ensure)) <= MaxPackets
        /\ queue' = Packets(len, ensure) /\ phase' = "chunk"
        /\ promised' = promised \/ promised' = Append(promised, owed + len)
        /\ owed' = 0 \/ owed' = owed + len
        /\ UNCHANGED <<toggle_data1, wire, begun, oks, cancels>>
    BY <1>2 DEF request_out
  <2>2. len \in Nat /\ owed \in Nat /\ promised \in Seq(Nat)
    BY OutAssumption DEF TInv, TypeOK
  <2>3. owed' \in Nat /\ promised' \in Seq(Nat)
    <3>1. owed + len \in Nat
      BY <2>2
    <3>2. Append(promised, owed + len) \in Seq(Nat)
      BY <2>2, <3>1
    <3>3. /\ promised' = promised \/ promised' = Append(promised, owed + len)
          /\ owed' = 0 \/ owed' = owed + len
      BY <2>1
    <3>4. promised' \in Seq(Nat)
      BY Zenon, <2>2, <3>2, <3>3
    <3> QED
      BY <3>1, <3>3, <3>4
  <2>4. queue' \in Seq(0 .. Mps)
    BY <2>1, <2>2, PacketsType
  <2> QED
    BY <1>1, <2>1, <2>3, <2>4 DEF TInv, TypeOK, Phase, Working
<1>3. CASE request_out_packet
  <2>1. /\ phase = "chunk" /\ queue # <<>> /\ begun' = begun + 1 /\ phase' = "lock"
        /\ UNCHANGED <<toggle_data1, queue, wire, oks, promised, owed, cancels>>
    BY <1>3 DEF request_out_packet
  <2>2. /\ queue \in Seq(0 .. Mps) /\ begun \in 0 .. MaxPackets /\ MaxPackets \in Nat
        /\ begun + Len(queue) <= MaxPackets
    BY <2>1, OutAssumption DEF TInv, TypeOK
  <2>3. Len(queue) \in Nat \ {0}
    BY <2>1, <2>2
  <2>4. begun' \in 0 .. MaxPackets /\ begun' + Len(queue') <= MaxPackets + 1
    BY <2>1, <2>2, <2>3
  <2> QED
    BY <1>1, <2>1, <2>4 DEF TInv, TypeOK, Phase, Working
<1>4. CASE receive
  <2>1. /\ phase = "reply" /\ Working /\ wire' = "quiet" /\ toggle_data1' = Flipped(wire)
        /\ \/ queue' = Tail(queue) /\ phase' = "chunk" /\ oks' = Append(oks, begun)
           \/ queue' = <<>> /\ phase' = "stalled" /\ UNCHANGED oks
           \/ phase' = "backoff" /\ UNCHANGED <<queue, oks>>
        /\ UNCHANGED <<begun, promised, owed, cancels>>
    BY <1>4 DEF receive, Working
  <2>2. toggle_data1' \in BOOLEAN
    BY <2>1 DEF Flipped, TInv, TypeOK
  <2>3. begun \in 1 .. MaxPackets
    BY <2>1, OutAssumption DEF IInv, Taken, TInv, TypeOK
  <2>4. oks' \in Seq(1 .. MaxPackets)
    <3>1. oks \in Seq(1 .. MaxPackets) /\ Append(oks, begun) \in Seq(1 .. MaxPackets)
      BY <2>3 DEF TInv, TypeOK
    <3> QED
      BY <2>1, <3>1
  <2>5. /\ Tail(queue) \in Seq(0 .. Mps) /\ Len(Tail(queue)) = Len(queue) - 1
        /\ Len(queue) \in Nat
    BY <2>1 DEF TInv, TypeOK
  <2>6. queue' \in Seq(0 .. Mps)
    <3>1. queue \in Seq(0 .. Mps) /\ <<>> \in Seq(0 .. Mps)
      BY DEF TInv, TypeOK
    <3> QED
      BY <2>1, <2>5, <3>1
  <2>7. phase' = "chunk" => begun' + Len(queue') <= MaxPackets
    BY <2>1, <2>3, <2>5, OutAssumption DEF TInv
  <2>8. Working' => queue' = queue
    BY <2>1 DEF Working
  <2> QED
    BY <1>1, <2>1, <2>2, <2>4, <2>6, <2>7, <2>8 DEF TInv, TypeOK, Phase, Wire
<1>5. CASE out_once
  BY <1>1, <1>5 DEF out_once, caller, TInv, TypeOK, Phase, Wire, Data, DataPid, Working
<1>6. CASE Cancel
  <2>1. /\ phase' = "idle" /\ queue' = <<>> /\ cancels' = cancels + 1 /\ cancels < MaxCancels
        /\ UNCHANGED <<toggle_data1, wire, begun, oks, promised, owed>>
    BY <1>6 DEF Cancel
  <2>2. cancels' \in 0 .. MaxCancels /\ queue' \in Seq(0 .. Mps)
    BY <2>1, OutAssumption DEF TInv, TypeOK
  <2> QED
    BY <1>1, <2>1, <2>2 DEF TInv, TypeOK, Phase, Working
<1>7. CASE request_out_ok \/ Wake \/ reset_data_toggle
  <2>1. /\ toggle_data1' \in BOOLEAN /\ phase' \in Phase
        /\ UNCHANGED <<queue, wire, begun, oks, promised, owed, cancels>>
        /\ phase' # "chunk" /\ (Working' => Working)
    BY <1>7 DEF request_out_ok, Wake, reset_data_toggle, caller, TInv, TypeOK, Phase, Working
  <2> QED
    BY <1>1, <2>1 DEF TInv, TypeOK
<1> QED
  BY <1>2, <1>3, <1>4, <1>5, <1>6, <1>7 DEF Host

LEMMA DeviceTInv ==
    ASSUME IInv, TInv, Device \/ Lose
    PROVE  TInv'
<1>1. UNCHANGED <<toggle_data1, queue, begun, oks, promised, owed, cancels>>
  BY DEF Device, DeviceTake, DeviceDiscard, DeviceBusy, DeviceHalt, ClearHalt, Lose,
         host, device, caller
<1>2. CASE DeviceTake
  <2>1. /\ UNCHANGED <<phase, halted, halts>> /\ wire' = "ACK" /\ Working
        /\ expect_data1' = ~expect_data1 /\ got' = Append(got, begun)
        /\ \/ partial' = 0 /\ messages' = Append(messages, partial + Head(queue))
           \/ partial' = partial + Head(queue) /\ UNCHANGED messages
    BY <1>2, TakeIInv DEF DeviceTake, host, caller
  <2>2. begun \in 1 .. MaxPackets
    BY <2>1, OutAssumption DEF IInv, Taken, TInv, TypeOK
  <2>3. got' \in Seq(1 .. MaxPackets)
    BY <2>1, <2>2 DEF TInv, TypeOK
  <2>4. Head(queue) \in 0 .. Mps
    <3>1. queue # <<>> /\ queue \in Seq(0 .. Mps)
      BY <2>1 DEF TInv, TypeOK
    <3> QED
      BY <3>1, HeadTailProperties
  <2>5. partial + Head(queue) \in Nat
    BY <2>4, OutAssumption DEF TInv, TypeOK
  <2>6. partial' \in Nat /\ messages' \in Seq(Nat)
    <3>1. partial + Head(queue) \in Nat /\ messages \in Seq(Nat)
      BY <2>5 DEF TInv, TypeOK
    <3>2. Append(messages, partial + Head(queue)) \in Seq(Nat)
      BY <3>1
    <3>3. \/ partial' = 0 /\ messages' = Append(messages, partial + Head(queue))
          \/ partial' = partial + Head(queue) /\ UNCHANGED messages
      BY <2>1
    <3>4. messages' \in Seq(Nat)
      BY Zenon, <3>1, <3>2, <3>3
    <3>5. partial' \in Nat
      BY <3>1, <3>3
    <3> QED
      BY <3>4, <3>5
  <2> QED
    BY <1>1, <2>1, <2>3, <2>6 DEF TInv, TypeOK, Wire, Working
<1>3. CASE DeviceHalt
  <2>1. /\ halted' = TRUE /\ halts' = halts + 1 /\ halts < MaxHalts
        /\ UNCHANGED <<phase, wire, expect_data1, got, partial, messages>>
    BY <1>3 DEF DeviceHalt, host
  <2>2. halts' \in 0 .. MaxHalts
    BY <2>1, OutAssumption DEF TInv, TypeOK
  <2> QED
    BY <1>1, <2>1, <2>2 DEF TInv, TypeOK, Working
<1>4. CASE ClearHalt
  BY <1>1, <1>4 DEF ClearHalt, caller, TInv, TypeOK, Phase, Working
<1>5. CASE DeviceDiscard \/ DeviceBusy \/ Lose
  <2>1. /\ UNCHANGED <<phase, expect_data1, halted, got, partial, messages, halts>>
        /\ wire' \in Wire
    BY <1>5 DEF DeviceDiscard, DeviceBusy, Lose, host, device, caller, Wire
  <2> QED
    BY <1>1, <2>1 DEF TInv, TypeOK, Working
<1> QED
  BY <1>2, <1>3, <1>4, <1>5 DEF Device

(* request_out cuts every buffer into packets the endpoint takes, and the  *)
(* pipe always has a packet at hand when it is about to send one.          *)
THEOREM TypeCorrect == Spec => []TypeOK
<1>1. TInv /\ UNCHANGED vars => TInv'
  BY DEF vars, host, device, caller, TInv, TypeOK, Working
<1>2. IInv /\ TInv /\ [Next]_vars => TInv'
  BY <1>1, HostTInv, DeviceTInv DEF Next
<1>3. TInv => TypeOK
  BY DEF TInv
<1> QED
  BY Inductive, InitTInv, <1>2, <1>3, PTL DEF Spec

-----------------------------------------------------------------------------

LEMMA InitChannel == Init => Channel!Init
BY DEF Init, Channel!Init, current, taken, doubt

(* Between two packets nothing is taken, and doubt is what the toggles say.*)
LEMMA Between ==
    /\ ~Working => current = 0 /\ ~taken
    /\ Working => current = begun
    /\ taken => Working
    /\ ~Working' => current' = 0 /\ ~taken'
    /\ Working' => current' = begun'
    /\ taken' => Working'
BY DEF Working, current, taken

LEMMA Truths ==
    taken \in BOOLEAN /\ doubt \in BOOLEAN /\ taken' \in BOOLEAN /\ doubt' \in BOOLEAN
BY DEF taken, doubt

(* A step that moves neither toggles nor packets is none of the channel's. *)
LEMMA Idle ==
    ASSUME UNCHANGED <<toggle_data1, expect_data1, got, oks, begun>>,
           Working' <=> Working, phase' # "cleared", phase # "cleared"
    PROVE  UNCHANGED Channel!vars
<1>1. current' = current
  BY DEF Working, current
<1>2. taken' <=> taken
  BY <1>1 DEF taken
<1>3. doubt' <=> doubt
  BY <1>2 DEF doubt
<1> QED
  BY <1>1, <1>2, <1>3, Truths DEF Channel!vars

LEMMA HostChannel ==
    ASSUME IInv, IInv', Host
    PROVE  [Channel!Next]_(Channel!vars)
<1>1. UNCHANGED <<expect_data1, got>>
  BY DEF Host, request_out, request_out_packet, request_out_ok, out_once, receive, Wake,
         Cancel, reset_data_toggle, device, host, caller
<1>2. CASE request_out_packet
  <2>1. /\ begun' = begun + 1 /\ ~Working /\ Working' /\ UNCHANGED <<toggle_data1, oks>>
        /\ phase # "cleared" /\ phase' # "cleared"
    BY <1>2 DEF request_out_packet, Working
  <2>2. got # <<>> => Len(got) \in DOMAIN got /\ got[Len(got)] \in Nat
    BY DEF IInv, Types
  <2>3. ~taken /\ ~taken'
    BY <1>1, <2>1, <2>2, Between DEF IInv, Types, Taken, taken
  <2>4. doubt' <=> doubt
    BY <1>1, <2>1, <2>3 DEF doubt
  <2>5. Channel!Submit
    BY <1>1, <2>1, <2>3, <2>4, Between, Truths DEF Channel!Submit
  <2> QED
    BY <2>5 DEF Channel!Next
<1>3. ASSUME UNCHANGED <<toggle_data1, oks, begun>>, Working, ~Working', phase' # "cleared"
      PROVE  Channel!Withdraw
  <2>1. ~taken' /\ (doubt' <=> toggle_data1 # expect_data1)
    BY <1>1, <1>3, Between DEF doubt
  <2>2. taken => toggle_data1 # expect_data1
    BY <1>3, Between DEF taken, IInv, Taken
  <2>3. phase # "cleared"
    BY <1>3 DEF Working
  <2>4. doubt' <=> taken \/ doubt
    BY <2>1, <2>2, <2>3 DEF doubt
  <2>5. current # 0
    BY <1>3, Between DEF IInv, Types, Taken
  <2> QED
    BY <1>1, <1>3, <2>1, <2>4, <2>5, Between, Truths DEF Channel!Withdraw
<1>4. CASE receive
  <2>1. /\ UNCHANGED begun /\ phase = "reply" /\ Working
        /\ toggle_data1' = Flipped(wire)
    BY <1>4 DEF receive, Working
  <2>2. CASE Acked(wire)
    <3>1. oks' = Append(oks, begun) /\ phase' = "chunk" /\ ~Working'
      BY <1>4, <2>2 DEF receive, Acked, Working
    <3>2. toggle_data1 # expect_data1 /\ toggle_data1' = expect_data1
      BY <2>1, <2>2 DEF Acked, Flipped, IInv, Types, Wired
    <3>3. current = begun /\ current # 0 /\ current' = 0 /\ ~taken'
      BY <2>1, <3>1, Between DEF IInv, Types, Taken
    <3>4. taken \/ doubt
      BY <2>1, <3>2 DEF doubt
    <3>5. ~doubt'
      BY <1>1, <3>2 DEF doubt
    <3>6. Channel!Confirm
      BY <1>1, <2>1, <3>1, <3>3, <3>4, <3>5, Truths DEF Channel!Confirm
    <3> QED
      BY <3>6 DEF Channel!Next
  <2>3. CASE ~Acked(wire)
    <3>1. /\ UNCHANGED <<toggle_data1, oks>>
          /\ phase' \in {"stalled", "backoff"}
      BY <1>4, <2>1, <2>3 DEF receive, Flipped
    <3>2. CASE phase' = "stalled"
      <4>1. ~Working' /\ phase' # "cleared"
        BY <3>2 DEF Working
      <4> QED
        BY <1>3, <2>1, <3>1, <4>1 DEF Channel!Next
    <3>3. CASE phase' = "backoff"
      <4>1. Working' /\ phase' # "cleared"
        BY <3>3 DEF Working
      <4> QED
        BY <1>1, <2>1, <3>1, <4>1, Idle
    <3> QED
      BY <3>1, <3>2, <3>3
  <2> QED
    BY <2>2, <2>3
<1>5. CASE Cancel
  <2>1. UNCHANGED <<toggle_data1, oks, begun>> /\ Working /\ ~Working' /\ phase' # "cleared"
    BY <1>5 DEF Cancel, Working
  <2> QED
    BY <1>3, <2>1 DEF Channel!Next
<1>6. CASE reset_data_toggle
  <2>1. /\ UNCHANGED <<oks, begun>> /\ ~Working /\ ~Working'
        /\ phase = "cleared" /\ toggle_data1' = FALSE /\ expect_data1 = FALSE
    BY <1>6 DEF reset_data_toggle, Working, caller, IInv, Taken
  <2>2. ~doubt /\ ~doubt'
    BY <1>1, <2>1 DEF doubt
  <2> QED
    BY <1>1, <2>1, <2>2, Between, Truths DEF Channel!vars
<1>7. CASE request_out_ok \/ out_once \/ Wake
           \/ \E len \in Lengths, ensure \in BOOLEAN : request_out(len, ensure)
  <2>1. /\ UNCHANGED <<toggle_data1, oks, begun>>
        /\ Working' <=> Working
        /\ phase # "cleared" /\ phase' # "cleared"
    BY <1>7 DEF request_out, request_out_ok, out_once, Wake, caller, Working
  <2> QED
    BY <1>1, <2>1, Idle
<1> QED
  BY <1>2, <1>4, <1>5, <1>6, <1>7 DEF Host

LEMMA DeviceChannel ==
    ASSUME IInv, Device \/ Lose
    PROVE  [Channel!Next]_(Channel!vars)
<1>1. UNCHANGED <<toggle_data1, oks, begun>>
  BY DEF Device, DeviceTake, DeviceDiscard, DeviceBusy, DeviceHalt, ClearHalt, Lose,
         host, device, caller
<1>2. CASE DeviceTake
  <2>1. /\ Working /\ Working' /\ toggle_data1 = expect_data1
        /\ UNCHANGED phase /\ got' = Append(got, begun) /\ got \in Seq(Nat) /\ begun > 0
    BY <1>2, TakeIInv DEF DeviceTake, host, caller, Working, IInv, Types, Taken
  <2>2. current = begun /\ current' = begun /\ current # 0
    BY <1>1, <2>1, Between DEF IInv, Types
  <2>3. ~taken /\ ~doubt
    BY <2>1, <2>2 DEF taken, doubt, IInv, Taken
  <2>4. got' # <<>> /\ got'[Len(got')] = begun
    BY <2>1 DEF IInv, Types
  <2>5. taken'
    BY <2>2, <2>4 DEF taken
  <2>6. ~doubt'
    BY <2>5 DEF doubt
  <2>7. Channel!Take
    BY <1>1, <2>1, <2>2, <2>3, <2>5, <2>6, Truths DEF Channel!Take
  <2> QED
    BY <2>7 DEF Channel!Next
<1>3. CASE ClearHalt
  <2>1. /\ ~Working /\ ~Working' /\ phase' = "cleared" /\ UNCHANGED got
    BY <1>3 DEF ClearHalt, Working
  <2>2. ~doubt'
    BY <2>1 DEF doubt
  <2>3. Channel!Reset
    BY <1>1, <2>1, <2>2, Between, Truths DEF Channel!Reset
  <2> QED
    BY <2>3 DEF Channel!Next
<1>4. CASE DeviceDiscard \/ DeviceBusy \/ DeviceHalt \/ Lose
  <2>1. UNCHANGED <<expect_data1, got, phase>>
    BY <1>4 DEF DeviceDiscard, DeviceBusy, DeviceHalt, Lose, host, device
  <2>2. UNCHANGED <<current, taken, doubt>>
    BY <1>1, <2>1 DEF current, taken, doubt
  <2> QED
    BY <1>1, <2>1, <2>2 DEF Channel!vars
<1> QED
  BY <1>2, <1>3, <1>4 DEF Device

(* The pipe of embassy.rs, with a device and a lossy wire, is a reliable   *)
(* channel.                                                                *)
THEOREM ImplementsChannel == Spec => ChannelSpec
<1>1. IInv /\ IInv' /\ [Next]_vars => [Channel!Next]_(Channel!vars)
  <2>1. ASSUME IInv, UNCHANGED vars PROVE UNCHANGED Channel!vars
    <3>1. UNCHANGED <<toggle_data1, expect_data1, phase, got, oks, begun>>
      BY <2>1 DEF vars, host, device, caller
    <3>2. UNCHANGED <<current, taken, doubt>>
      BY <3>1 DEF current, taken, doubt
    <3> QED
      BY <3>1, <3>2 DEF Channel!vars
  <2> QED
    BY <2>1, HostChannel, DeviceChannel DEF Next
<1> QED
  BY Inductive, InitChannel, <1>1, PTL DEF Spec, ChannelSpec, Channel!Spec

-----------------------------------------------------------------------------

(* Packets that returned Ok and were thrown away, and the one that will be.*)
Missing == Elements(oks) \ Elements(got)

Owing == toggle_data1 # expect_data1 /\ ~taken /\ phase \notin {"stalled", "cleared"}

Debt == IF Owing THEN 1 ELSE 0

CInv ==
    /\ oks \in Seq(Nat) /\ cancels \in Nat
    /\ IsFiniteSet(Missing) /\ Cardinality(Missing) + Debt <= cancels

LEMMA ElementsAppend ==
    ASSUME NEW s \in Seq(Nat), NEW e \in Nat
    PROVE  Elements(Append(s, e)) = Elements(s) \cup {e}
<1>1. /\ DOMAIN Append(s, e) = 1 .. Len(s) + 1 /\ DOMAIN s = 1 .. Len(s) /\ Len(s) \in Nat
      /\ \A i \in 1 .. Len(s) : Append(s, e)[i] = s[i]
      /\ Append(s, e)[Len(s) + 1] = e
  OBVIOUS
<1>2. 1 .. Len(s) + 1 = (1 .. Len(s)) \cup {Len(s) + 1}
  BY <1>1
<1> QED
  BY <1>1, <1>2 DEF Elements

LEMMA InitCInv == Init => CInv
<1> SUFFICES ASSUME Init PROVE CInv
  OBVIOUS
<1>1. oks = <<>> /\ oks \in Seq(Nat) /\ cancels = 0
  BY DEF Init
<1>2. Missing = {}
  BY <1>1 DEF Missing, Elements
<1>3. toggle_data1 = expect_data1
  BY Zenon DEF Init
<1>4. Debt = 0
  BY <1>3 DEF Debt, Owing
<1> QED
  BY <1>1, <1>2, <1>4, FS_EmptySet DEF CInv

(* A step pays for a missing packet with its debt, or a cancellation for   *)
(* the debt.                                                               *)
LEMMA Paid ==
    ASSUME CInv, oks' \in Seq(Nat), cancels' \in Nat,
           \/ /\ Missing' = Missing \/ Missing' = Missing \ {begun}
              /\ cancels' >= cancels
              /\ Owing' => Owing \/ cancels' = cancels + 1
           \/ /\ Missing' = Missing \cup {begun}
              /\ Owing /\ ~Owing' /\ cancels' = cancels
    PROVE  CInv'
<1>1. IsFiniteSet(Missing) /\ Cardinality(Missing) \in Nat /\ Cardinality(Missing) + Debt <= cancels
      /\ cancels \in Nat
  BY FS_CardinalityType DEF CInv
<1>2. Debt \in {0, 1} /\ Debt' \in {0, 1} /\ (Debt = 1 <=> Owing) /\ (Debt' = 1 <=> Owing')
  BY DEF Debt
<1>3. CASE /\ Missing' = Missing \/ Missing' = Missing \ {begun}
           /\ cancels' >= cancels
           /\ Owing' => Owing \/ cancels' = cancels + 1
  <2>1. IsFiniteSet(Missing') /\ Cardinality(Missing') \in Nat
        /\ Cardinality(Missing') <= Cardinality(Missing)
    <3>1. Missing' \in SUBSET Missing
      BY <1>3
    <3> QED
      BY <1>1, <3>1, FS_Subset, FS_CardinalityType
  <2> QED
    BY <1>1, <1>2, <1>3, <2>1 DEF CInv
<1>4. CASE Missing' = Missing \cup {begun} /\ Owing /\ ~Owing' /\ cancels' = cancels
  <2>1. /\ IsFiniteSet(Missing \cup {begun})
        /\ \/ Cardinality(Missing \cup {begun}) = Cardinality(Missing)
           \/ Cardinality(Missing \cup {begun}) = Cardinality(Missing) + 1
    BY <1>1, FS_AddElement
  <2>2. /\ IsFiniteSet(Missing') /\ Cardinality(Missing') \in Nat
        /\ Cardinality(Missing') <= Cardinality(Missing) + 1
    BY <1>1, <1>4, <2>1
  <2> QED
    BY <1>1, <1>2, <1>4, <2>2 DEF CInv
<1> QED
  BY <1>3, <1>4

LEMMA HostCInv ==
    ASSUME IInv, CInv, Host
    PROVE  CInv'
<1>1. UNCHANGED <<expect_data1, got>>
  BY DEF Host, request_out, request_out_packet, request_out_ok, out_once, receive, Wake,
         Cancel, reset_data_toggle, device, host, caller
<1>2. ASSUME UNCHANGED <<oks, cancels>>, Owing' => Owing
      PROVE  CInv'
  <2>1. Missing' = Missing
    BY <1>1, <1>2 DEF Missing, Elements
  <2> QED
    BY <1>2, <2>1, Paid DEF CInv
<1>3. CASE receive
  <2>1. phase = "reply" /\ toggle_data1' = Flipped(wire) /\ UNCHANGED <<begun, cancels>>
    BY <1>3 DEF receive
  <2>2. CASE Acked(wire)
    <3>1. oks' = Append(oks, begun) /\ oks \in Seq(Nat) /\ begun \in Nat
      BY <1>3, <2>2 DEF receive, Acked, CInv, IInv, Types
    <3>2. toggle_data1 # expect_data1 /\ toggle_data1' = expect_data1
      BY <2>1, <2>2 DEF Acked, Flipped, IInv, Types, Wired
    <3>3. ~Owing'
      BY <1>1, <3>2 DEF Owing
    <3>4. Missing' = (Elements(oks) \cup {begun}) \ Elements(got)
      <4>1. Elements(Append(oks, begun)) = Elements(oks) \cup {begun}
        BY <3>1, ElementsAppend
      <4>2. Elements(oks') = Elements(Append(oks, begun)) /\ Elements(got') = Elements(got)
        BY <1>1, <3>1
      <4> QED
        BY <4>1, <4>2 DEF Missing
    <3>5. oks' \in Seq(Nat) /\ cancels' \in Nat /\ cancels' >= cancels
      BY <2>1, <3>1 DEF CInv
    <3>6. CASE begun \in Elements(got)
      <4>1. Missing' = Missing
        BY <3>4, <3>6 DEF Missing
      <4> QED
        BY <3>3, <3>5, <4>1, Paid
    <3>7. CASE begun \notin Elements(got)
      <4>1. Missing' = Missing \cup {begun}
        BY <3>4, <3>7 DEF Missing
      <4>2. ~taken
        BY <2>1, <3>7, Between DEF taken, Elements, Working, IInv, Types
      <4>3. Owing
        BY <2>1, <3>2, <4>2 DEF Owing
      <4> QED
        BY <2>1, <3>3, <3>5, <4>1, <4>3, Paid
    <3> QED
      BY <3>6, <3>7
  <2>3. CASE ~Acked(wire)
    <3>1. /\ UNCHANGED <<toggle_data1, oks>>
          /\ phase' \in {"stalled", "backoff"}
      BY <1>3, <2>1, <2>3 DEF receive, Flipped
    <3>2. phase' = "backoff" => (taken' <=> taken)
      BY <1>1, <2>1 DEF taken, current
    <3>3. Owing' => Owing
      BY <1>1, <2>1, <3>1, <3>2 DEF Owing
    <3> QED
      BY <1>2, <2>1, <3>1, <3>3
  <2> QED
    BY <2>2, <2>3
<1>4. CASE Cancel
  <2>1. cancels' = cancels + 1 /\ UNCHANGED oks
    BY <1>4 DEF Cancel
  <2>2. Missing' = Missing
    BY <1>1, <2>1 DEF Missing, Elements
  <2>3. oks' \in Seq(Nat) /\ cancels' \in Nat /\ cancels' >= cancels
    BY <2>1 DEF CInv
  <2> QED
    BY <2>1, <2>2, <2>3, Paid
<1>5. CASE reset_data_toggle
  <2>1. UNCHANGED <<oks, cancels>> /\ toggle_data1' = FALSE /\ expect_data1 = FALSE
    BY <1>5 DEF reset_data_toggle, caller, IInv, Taken
  <2>2. ~Owing'
    BY <1>1, <2>1 DEF Owing
  <2> QED
    BY <1>2, <2>1, <2>2
<1>6. CASE request_out_packet
  <2>1. UNCHANGED <<toggle_data1, oks, cancels>> /\ phase = "chunk"
    BY <1>6 DEF request_out_packet
  <2>2. ~taken
    BY <2>1, Between DEF Working
  <2>3. Owing' => Owing
    BY <1>1, <2>1, <2>2 DEF Owing
  <2> QED
    BY <1>2, <2>1, <2>3
<1>7. CASE request_out_ok \/ out_once \/ Wake
           \/ \E len \in Lengths, ensure \in BOOLEAN : request_out(len, ensure)
  <2>1. /\ UNCHANGED <<toggle_data1, oks, cancels, begun>>
        /\ Working' <=> Working
        /\ phase \notin {"stalled", "cleared"}
    BY <1>7 DEF request_out, request_out_ok, out_once, Wake, caller, Working
  <2>2. taken' <=> taken
    BY <1>1, <2>1 DEF taken, current, Working
  <2>3. Owing' => Owing
    BY <1>1, <2>1, <2>2 DEF Owing
  <2> QED
    BY <1>2, <2>1, <2>3
<1> QED
  BY <1>3, <1>4, <1>5, <1>6, <1>7 DEF Host

LEMMA DeviceCInv ==
    ASSUME IInv, CInv, Device \/ Lose
    PROVE  CInv'
<1>1. UNCHANGED <<toggle_data1, begun, oks, cancels>>
  BY DEF Device, DeviceTake, DeviceDiscard, DeviceBusy, DeviceHalt, ClearHalt, Lose,
         host, device, caller
<1>2. oks' \in Seq(Nat) /\ cancels' \in Nat /\ cancels' >= cancels
  BY <1>1 DEF CInv
<1>3. CASE DeviceTake
  <2>1. /\ UNCHANGED phase /\ got' = Append(got, begun) /\ got \in Seq(Nat) /\ begun \in Nat
        /\ begun > 0 /\ Working
    BY <1>3, TakeIInv DEF DeviceTake, host, IInv, Types, Taken
  <2>2. Elements(got') = Elements(got) \cup {begun}
    BY <2>1, ElementsAppend
  <2>3. Missing' = Missing \ {begun}
    BY <1>1, <2>2 DEF Missing, Elements
  <2>4. got' # <<>> /\ got'[Len(got')] = begun /\ current' = begun /\ current' # 0
    BY <1>1, <2>1 DEF current, Working
  <2>5. ~Owing'
    BY <2>4 DEF Owing, taken
  <2> QED
    BY <1>2, <2>3, <2>5, Paid
<1>4. CASE ClearHalt
  <2>1. UNCHANGED got /\ ~Owing'
    BY <1>4 DEF ClearHalt, Owing
  <2>2. Missing' = Missing
    BY <1>1, <2>1 DEF Missing, Elements
  <2> QED
    BY <1>2, <2>1, <2>2, Paid
<1>5. CASE DeviceDiscard \/ DeviceBusy \/ DeviceHalt \/ Lose
  <2>1. UNCHANGED <<expect_data1, got, phase>>
    BY <1>5 DEF DeviceDiscard, DeviceBusy, DeviceHalt, Lose, host, device
  <2>2. Missing' = Missing /\ (Owing' <=> Owing)
    BY <1>1, <2>1 DEF Missing, Elements, Owing, taken, current
  <2> QED
    BY <1>2, <2>2, Paid
<1> QED
  BY <1>3, <1>4, <1>5 DEF Device

LEMMA StutterCInv ==
    ASSUME CInv, UNCHANGED vars
    PROVE  CInv'
<1>1. UNCHANGED <<toggle_data1, expect_data1, phase, got, oks, begun, cancels>>
  BY DEF vars, host, device, caller
<1>2. Missing' = Missing /\ Debt' = Debt
  BY <1>1 DEF Missing, Elements, Debt, Owing, taken, current
<1> QED
  BY <1>1, <1>2 DEF CInv

(* Every packet that returned Ok and never reached the device is paid for  *)
(* by a request the caller dropped: halts and losses cost nothing.         *)
THEOREM CancelsCost == Spec => []CancelCost
<1>1. IInv /\ CInv /\ [Next]_vars => CInv'
  BY HostCInv, DeviceCInv, StutterCInv DEF Next
<1>2. CInv => CancelCost
  <2>1. CInv => Cardinality(Missing) \in Nat /\ Debt \in {0, 1}
    BY FS_CardinalityType DEF CInv, Debt
  <2> QED
    BY <2>1 DEF CInv, CancelCost, Missing
<1> QED
  BY Inductive, InitCInv, <1>1, <1>2, PTL DEF Spec

-----------------------------------------------------------------------------

(* A buffer shorter than a packet is one packet, and closes its message.   *)
LEMMA LastPacket ==
    ASSUME NEW len \in Nat, NEW ensure \in BOOLEAN, len < Mps
    PROVE  Packets(len, ensure) = <<len>> /\ Closes(len, ensure)
<1>1. Mps \in Nat \ {0}
  BY OutAssumption
<1>2. len \div Mps = 0 /\ len % Mps = len
  BY <1>1
<1> DEFINE full  == [i \in 1 .. len \div Mps |-> Mps]
           rest  == IF len % Mps # 0 THEN <<len % Mps>> ELSE <<>>
           empty == IF len = 0 \/ needs_terminating_zlp(len, ensure) THEN <<0>> ELSE <<>>
<1>3. full = <<>>
  <2>1. 1 .. len \div Mps = {}
    BY <1>2
  <2> QED
    BY <2>1
<1>4. rest \o empty = <<len>>
  <2>1. <<len>> \in Seq(Nat) /\ <<>> \o <<len>> = <<len>> /\ <<len>> \o <<>> = <<len>>
    OBVIOUS
  <2>2. \/ rest = <<>> /\ empty = <<len>>
        \/ rest = <<len>> /\ empty = <<>>
    BY <1>2 DEF needs_terminating_zlp
  <2> QED
    BY Zenon, <2>1, <2>2
<1>5. full \o rest \o empty = <<len>>
  <2>1. rest \in Seq(Nat) /\ <<>> \o rest = rest
    BY <1>2
  <2> QED
    BY <1>3, <1>4, <2>1
<1> QED
  BY <1>2, <1>5 DEF Packets, Closes

(* Division finds the only quotient that leaves a remainder. *)
LEMMA Quotient ==
    ASSUME NEW m \in Nat \ {0}, NEW a \in Nat, NEW q \in Nat, NEW r \in 0 .. m - 1,
           a = m * q + r
    PROVE  a \div m = q /\ a % m = r
<1> DEFINE p == a \div m
           s == a % m
<1>1. p \in Nat /\ s \in 0 .. m - 1 /\ a = m * p + s
  OBVIOUS
<1> HIDE DEF p, s
<1>2. \A x, y \in Nat : x < y => m * x + m <= m * y
  <2>1. SUFFICES ASSUME NEW x \in Nat, NEW y \in Nat, x < y
                 PROVE  m * x + m <= m * y
    OBVIOUS
  <2>2. PICK d \in Nat : y = x + 1 + d
    <3>1. y - x - 1 \in Nat /\ y = x + 1 + (y - x - 1)
      BY <2>1
    <3> QED
      BY <3>1
  <2>3. m * y = m * x + m + m * d /\ m * d \in Nat /\ m * x \in Nat
    BY <2>2
  <2> QED
    BY <2>3
<1>3. m * p \in Nat /\ m * q \in Nat
  BY <1>1
<1>4. ~(p < q) /\ ~(q < p)
  <2>1. p < q => m * p + m <= m * q
    BY <1>1, <1>2
  <2>2. q < p => m * q + m <= m * p
    BY <1>1, <1>2
  <2> DEFINE mp == m * p
             mq == m * q
  <2>3. mp \in Nat /\ mq \in Nat /\ mp + s = mq + r
    BY <1>1, <1>3
  <2> HIDE DEF mp, mq
  <2>4. ~(mp + m <= mq) /\ ~(mq + m <= mp)
    BY <1>1, <2>3
  <2> QED
    BY <2>1, <2>2, <2>4 DEF mp, mq
<1>5. p = q
  BY <1>1, <1>4
<1> QED
  BY <1>1, <1>3, <1>5 DEF p, s

(* A full packet off the front leaves the packets of the bytes behind it.  *)
LEMMA Division ==
    ASSUME NEW len \in Nat, len >= Mps
    PROVE  /\ Mps \in Nat \ {0} /\ len \div Mps \in Nat \ {0} /\ len % Mps \in Nat
           /\ (len - Mps) \div Mps = len \div Mps - 1
           /\ (len - Mps) % Mps = len % Mps
<1>1. Mps \in Nat \ {0}
  BY OutAssumption
<1> DEFINE q == len \div Mps
           r == len % Mps
<1>2. q \in Nat /\ r \in 0 .. Mps - 1 /\ len = Mps * q + r
  BY <1>1
<1>3. q # 0
  BY <1>1, <1>2
<1>4. len - Mps = Mps * (q - 1) + r
  BY <1>1, <1>2
<1>5. (len - Mps) \div Mps = q - 1 /\ (len - Mps) % Mps = r
  <2>1. q - 1 \in Nat /\ len - Mps \in Nat
    BY <1>1, <1>2, <1>3
  <2> QED
    BY <1>1, <1>2, <1>4, <2>1, Quotient
<1> QED
  BY <1>1, <1>2, <1>3, <1>5

(* Constant sequences, and what follows them. *)
LEMMA Behind ==
    ASSUME NEW n \in Nat \ {0}, NEW c \in Nat, NEW s \in Seq(Nat)
    PROVE  /\ [i \in 1 .. n |-> c] \o s # <<>>
           /\ Head([i \in 1 .. n |-> c] \o s) = c
           /\ Tail([i \in 1 .. n |-> c] \o s) = [i \in 1 .. n - 1 |-> c] \o s
<1> DEFINE long  == [i \in 1 .. n |-> c]
           short == [i \in 1 .. n - 1 |-> c]
           all   == long \o s
           less  == short \o s
<1>1. /\ long \in Seq(Nat) /\ Len(long) = n /\ \A i \in 1 .. n : long[i] = c
      /\ short \in Seq(Nat) /\ Len(short) = n - 1 /\ \A i \in 1 .. n - 1 : short[i] = c
  <2>1. \A k \in Nat : [i \in 1 .. k |-> c] \in Seq(Nat) /\ Len([i \in 1 .. k |-> c]) = k
    OBVIOUS
  <2> QED
    BY <2>1
<1> HIDE DEF long, short
<1>2. /\ all \in Seq(Nat) /\ Len(all) = n + Len(s)
      /\ \A i \in 1 .. n + Len(s) : all[i] = IF i <= n THEN long[i] ELSE s[i - n]
      /\ less \in Seq(Nat) /\ Len(less) = n - 1 + Len(s)
      /\ \A i \in 1 .. n - 1 + Len(s) :
             less[i] = IF i <= n - 1 THEN short[i] ELSE s[i - (n - 1)]
  <2>1. /\ all \in Seq(Nat) /\ Len(all) = Len(long) + Len(s)
        /\ \A i \in 1 .. Len(long) + Len(s) :
               all[i] = IF i <= Len(long) THEN long[i] ELSE s[i - Len(long)]
    BY <1>1, ConcatProperties
  <2>2. /\ less \in Seq(Nat) /\ Len(less) = Len(short) + Len(s)
        /\ \A i \in 1 .. Len(short) + Len(s) :
               less[i] = IF i <= Len(short) THEN short[i] ELSE s[i - Len(short)]
    BY <1>1, ConcatProperties
  <2> QED
    BY Zenon, <1>1, <2>1, <2>2
<1>3. Len(s) \in Nat
  OBVIOUS
<1> HIDE DEF all, less
<1>4. all # <<>> /\ Head(all) = c
  <2>1. Len(all) \in Nat /\ Len(all) > 0 /\ all[1] = c
    BY <1>1, <1>2, <1>3
  <2> QED
    BY <1>2, <2>1
<1>5. /\ Tail(all) \in Seq(Nat) /\ Len(Tail(all)) = n + Len(s) - 1
      /\ \A i \in 1 .. n + Len(s) - 1 : Tail(all)[i] = all[i + 1]
  <2>1. /\ Tail(all) \in Seq(Nat) /\ Len(Tail(all)) = Len(all) - 1
        /\ \A i \in 1 .. Len(Tail(all)) : Tail(all)[i] = all[i + 1]
    BY <1>2, <1>4, HeadTailProperties
  <2> QED
    BY <1>2, <1>3, <2>1
<1>6. \A i \in 1 .. n + Len(s) - 1 : Tail(all)[i] = less[i]
  <2>1. SUFFICES ASSUME NEW i \in 1 .. n + Len(s) - 1
                 PROVE  all[i + 1] = less[i]
    BY <1>5
  <2>2. /\ i + 1 - n = i - (n - 1) /\ (i + 1 <= n <=> i <= n - 1)
        /\ i \in 1 .. n - 1 + Len(s) /\ i + 1 \in 1 .. n + Len(s)
    BY <1>3
  <2>3. CASE i <= n - 1
    <3>1. all[i + 1] = long[i + 1] /\ less[i] = short[i]
      BY Zenon, <1>2, <2>2, <2>3
    <3>2. i + 1 \in 1 .. n /\ i \in 1 .. n - 1
      BY <1>3, <2>3
    <3> QED
      BY <1>1, <3>1, <3>2
  <2>4. CASE ~(i <= n - 1)
    <3>1. all[i + 1] = s[i + 1 - n] /\ less[i] = s[i - (n - 1)]
      <4>1. ~(i + 1 <= n)
        BY <2>2, <2>4
      <4>2. all[i + 1] = s[i + 1 - n]
        BY SMTT(40), <1>2, <2>2, <4>1
      <4>3. less[i] = s[i - (n - 1)]
        BY <1>2, <2>2, <2>4
      <4> QED
        BY <4>2, <4>3
    <3>2. \A k, l : k = l => s[k] = s[l]
      OBVIOUS
    <3> QED
      BY Zenon, <2>2, <3>1, <3>2
  <2> QED
    BY <2>3, <2>4
<1>7. Tail(all) = less
  <2>1. n + Len(s) - 1 = n - 1 + Len(s)
    BY <1>3
  <2> QED
    BY <1>2, <1>3, <1>5, <1>6, <2>1, SeqEqual
<1> QED
  BY <1>4, <1>7 DEF all, less, long, short

LEMMA ConcatNats ==
    \A s, t, u \in Seq(Nat) : (s \o t) \o u = s \o (t \o u)
BY SMTT(40), ConcatAssociative

(* A longer one begins with a full packet; those of what is left follow.   *)
LEMMA FirstPacket ==
    ASSUME NEW len \in Nat, NEW ensure \in BOOLEAN, len >= Mps
    PROVE  /\ Packets(len, ensure) # <<>>
           /\ Head(Packets(len, ensure)) = Mps
           /\ len = Mps /\ ~ensure =>
                  Tail(Packets(len, ensure)) = <<>> /\ ~Closes(len, ensure)
           /\ ~(len = Mps /\ ~ensure) =>
                  /\ Tail(Packets(len, ensure)) = Packets(len - Mps, ensure)
                  /\ Closes(len - Mps, ensure) <=> Closes(len, ensure)
<1>1. /\ Mps \in Nat \ {0} /\ len \div Mps \in Nat \ {0} /\ len % Mps \in Nat
      /\ (len - Mps) \div Mps = len \div Mps - 1
      /\ (len - Mps) % Mps = len % Mps
  BY Division
<1> DEFINE n     == len \div Mps
           rest  == IF len % Mps # 0 THEN <<len % Mps>> ELSE <<>>
           Empty(l) == IF l = 0 \/ needs_terminating_zlp(l, ensure) THEN <<0>> ELSE <<>>
           Full(k) == [i \in 1 .. k |-> Mps]
<1>2. rest \in Seq(Nat) /\ \A l \in Nat : Empty(l) \in Seq(Nat)
  BY <1>1
<1>3. \A k \in Nat : Full(k) \in Seq(Nat)
  BY <1>1
<1>4. Packets(len, ensure) = Full(n) \o (rest \o Empty(len))
  <2>1. Packets(len, ensure) = Full(n) \o rest \o Empty(len)
    BY DEF Packets
  <2> DEFINE s == Full(n)
             t == rest
             u == Empty(len)
  <2>2. s \in Seq(Nat) /\ t \in Seq(Nat) /\ u \in Seq(Nat)
    BY <1>1, <1>2, <1>3
  <2>3. (s \o t) \o u = s \o (t \o u)
    <3> HIDE DEF s, t, u
    <3> QED
      BY <2>2, ConcatNats
  <2> QED
    BY <2>1, <2>3
<1>5. rest \o Empty(len) \in Seq(Nat)
  BY <1>2
<1>6. /\ Packets(len, ensure) # <<>> /\ Head(Packets(len, ensure)) = Mps
      /\ Tail(Packets(len, ensure)) = Full(n - 1) \o (rest \o Empty(len))
  <2> DEFINE s == rest \o Empty(len)
  <2>1. s \in Seq(Nat)
    BY <1>5
  <2> HIDE DEF s
  <2>2. Full(n) \o s # <<>> /\ Head(Full(n) \o s) = Mps /\ Tail(Full(n) \o s) = Full(n - 1) \o s
    BY ZenonT(40), <1>1, <2>1, Behind
  <2> QED
    BY Zenon, <1>4, <2>2 DEF s
<1>7. ASSUME len = Mps, ~ensure
      PROVE  Tail(Packets(len, ensure)) = <<>> /\ ~Closes(len, ensure)
  <2>1. n = 1 /\ len % Mps = 0 /\ len # 0
    BY <1>1, <1>7
  <2>2. rest \o Empty(len) = <<>>
    BY <1>7, <2>1 DEF needs_terminating_zlp
  <2>3. Full(n - 1) = <<>>
    BY <2>1
  <2> QED
    BY <1>6, <1>7, <2>1, <2>2, <2>3 DEF Closes
<1>8. ASSUME ~(len = Mps /\ ~ensure)
      PROVE  /\ Tail(Packets(len, ensure)) = Packets(len - Mps, ensure)
             /\ Closes(len - Mps, ensure) <=> Closes(len, ensure)
  <2>1. len - Mps \in Nat /\ n - 1 \in Nat
    BY <1>1
  <2>2. Packets(len - Mps, ensure) = Full(n - 1) \o (rest \o Empty(len - Mps))
    <3> DEFINE few == Full(n - 1)
               end == Empty(len - Mps)
    <3>1. Packets(len - Mps, ensure) = few \o rest \o end
      BY <1>1 DEF Packets
    <3>2. few \in Seq(Nat) /\ rest \in Seq(Nat) /\ end \in Seq(Nat)
      BY <1>2, <1>3, <2>1
    <3>3. few \o rest \o end = few \o (rest \o end)
      <4> HIDE DEF few, rest, end
      <4> QED
        BY <3>2, ConcatNats
    <3> QED
      BY Zenon, <3>1, <3>3
  <2>3. len - Mps = 0 => len = Mps /\ ensure /\ len % Mps = 0
    BY <1>1, <1>8
  <2>4. Empty(len - Mps) = Empty(len)
    BY <1>1, <2>3 DEF needs_terminating_zlp
  <2>5. Closes(len - Mps, ensure) <=> Closes(len, ensure)
    BY <1>1, <2>3 DEF Closes
  <2> QED
    BY <1>6, <2>2, <2>4, <2>5
<1> QED
  BY <1>6, <1>7, <1>8

(* The packets the device has not taken yet. *)
Untaken == IF toggle_data1 = expect_data1 THEN queue ELSE Tail(queue)

(* They are those of some number of bytes, which completes the message the *)
(* device is receiving to the one that was promised.                       *)
Outstanding(len, ensure) ==
    /\ Untaken = Packets(len, ensure)
    /\ IF Closes(len, ensure)
       THEN promised = Append(messages, partial + len) /\ owed = 0
       ELSE promised = messages /\ owed = partial + len

Settled == Untaken = <<>> /\ promised = messages /\ owed = partial

FInv ==
    cancels = 0 /\ halts = 0 =>
        /\ Settled \/ \E len \in Nat, ensure \in BOOLEAN : Outstanding(len, ensure)
        /\ phase = "idle" => queue = <<>>

LEMMA InitFInv == Init => FInv
<1> SUFFICES ASSUME Init PROVE FInv
  OBVIOUS
<1>1. toggle_data1 = expect_data1
  BY Zenon DEF Init
<1>2. queue = <<>> /\ promised = messages /\ owed = partial
  BY DEF Init
<1> QED
  BY <1>1, <1>2 DEF FInv, Settled, Untaken

LEMMA PacketsNotEmpty ==
    ASSUME NEW len \in Nat, NEW ensure \in BOOLEAN
    PROVE  Packets(len, ensure) # <<>>
<1>1. CASE len < Mps
  <2>1. Packets(len, ensure) = <<len>>
    BY <1>1, LastPacket
  <2> QED
    BY <2>1
<1>2. CASE len >= Mps
  BY <1>2, FirstPacket
<1> QED
  BY <1>1, <1>2, OutAssumption

(* A step that leaves alone what is untaken and what is promised. *)
LEMMA SameFInv ==
    ASSUME FInv, cancels' = 0 /\ halts' = 0 => cancels = 0 /\ halts = 0,
           Untaken' = Untaken, UNCHANGED <<promised, messages, partial, owed>>,
           cancels' = 0 /\ halts' = 0 /\ phase' = "idle" => queue' = <<>>
    PROVE  FInv'
BY DEF FInv, Settled, Outstanding

LEMMA HostFInv ==
    ASSUME IInv, EInv, TInv, FInv, Host
    PROVE  FInv'
<1>1. UNCHANGED <<expect_data1, partial, messages, halts>>
  BY DEF Host, request_out, request_out_packet, request_out_ok, out_once, receive, Wake,
         Cancel, reset_data_toggle, device, host, caller
<1>2. ASSUME NEW len \in Lengths, NEW ensure \in BOOLEAN, request_out(len, ensure)
      PROVE  FInv'
  <2>1. /\ UNCHANGED <<toggle_data1, cancels>> /\ phase = "idle" /\ phase' = "chunk"
        /\ queue' = Packets(len, ensure)
        /\ promised' = IF Closes(len, ensure) THEN Append(promised, owed + len) ELSE promised
        /\ owed' = IF Closes(len, ensure) THEN 0 ELSE owed + len
    BY <1>2 DEF request_out
  <2>2. SUFFICES ASSUME cancels = 0, halts = 0
                 PROVE  Outstanding(len, ensure)'
    BY <1>1, <2>1, OutAssumption DEF FInv
  <2>3. toggle_data1 = expect_data1
    BY <2>1, <2>2 DEF EInv, Exact, Working
  <2>4. Untaken = <<>> /\ Untaken' = Packets(len, ensure)
    BY <1>1, <2>1, <2>2, <2>3 DEF FInv, Untaken
  <2>5. promised = messages /\ owed = partial
    BY <2>2, <2>4, PacketsNotEmpty DEF FInv, Settled, Outstanding
  <2> QED
    BY <1>1, <2>1, <2>4, <2>5 DEF Outstanding
<1>3. CASE receive
  <2>1. /\ phase = "reply" /\ toggle_data1' = Flipped(wire)
        /\ UNCHANGED <<promised, owed, cancels>>
        /\ phase' # "idle"
        /\ \/ Acked(wire) /\ queue' = Tail(queue)
           \/ wire = "STALL"
           \/ ~Acked(wire) /\ UNCHANGED queue
    BY <1>3 DEF receive
  <2>2. CASE Acked(wire) /\ queue' = Tail(queue)
    <3>1. toggle_data1 # expect_data1 /\ toggle_data1' = expect_data1
      BY <2>1, <2>2 DEF Acked, Flipped, IInv, Types, Wired
    <3>2. Untaken' = Untaken
      BY <1>1, <2>2, <3>1 DEF Untaken
    <3> QED
      BY <1>1, <2>1, <3>2, SameFInv
  <2>3. CASE wire = "STALL"
    BY <1>1, <2>1, <2>3 DEF EInv, Exact, FInv
  <2>4. CASE ~Acked(wire) /\ UNCHANGED queue
    <3>1. Untaken' = Untaken
      BY <1>1, <2>1, <2>4 DEF Flipped, Untaken
    <3> QED
      BY <1>1, <2>1, <3>1, SameFInv
  <2> QED
    BY <2>1, <2>2, <2>3, <2>4
<1>4. CASE Cancel
  BY <1>4 DEF Cancel, EInv, Bounds, FInv
<1>5. CASE reset_data_toggle
  <2>1. /\ phase = "cleared" /\ UNCHANGED <<promised, owed, cancels, halts>>
    BY <1>5 DEF reset_data_toggle, caller
  <2> QED
    BY <2>1 DEF EInv, Exact, FInv
<1>6. CASE request_out_packet \/ request_out_ok \/ out_once \/ Wake
  <2>1. /\ UNCHANGED <<toggle_data1, queue, promised, owed, cancels>>
        /\ phase' = "idle" => queue = <<>>
    BY <1>6 DEF request_out_packet, request_out_ok, out_once, Wake, caller
  <2>2. Untaken' = Untaken
    BY <1>1, <2>1 DEF Untaken
  <2> QED
    BY <1>1, <2>1, <2>2, SameFInv
<1> QED
  BY <1>2, <1>3, <1>4, <1>5, <1>6 DEF Host

(* The device takes the first of the packets it has not. *)
LEMMA TakeFInv ==
    ASSUME IInv, EInv, TInv, FInv, DeviceTake
    PROVE  FInv'
<1>1. /\ UNCHANGED <<toggle_data1, phase, queue, promised, owed, cancels, halts>>
      /\ expect_data1' = ~expect_data1
      /\ IF Head(queue) < Mps
         THEN partial' = 0 /\ messages' = Append(messages, partial + Head(queue))
         ELSE partial' = partial + Head(queue) /\ UNCHANGED messages
  BY DEF DeviceTake, host, caller
<1>2. Working /\ toggle_data1 = expect_data1
  BY TakeIInv
<1>3. Untaken = queue /\ Untaken' = Tail(queue) /\ queue # <<>> /\ phase # "idle"
  BY <1>1, <1>2 DEF Untaken, TInv, Working, IInv, Types
<1>4. SUFFICES ASSUME cancels = 0, halts = 0
               PROVE  Settled' \/ \E l \in Nat, e \in BOOLEAN : Outstanding(l, e)'
  BY <1>1, <1>3 DEF FInv
<1>5. PICK len \in Nat, ensure \in BOOLEAN : Outstanding(len, ensure)
  BY <1>3, <1>4 DEF FInv, Settled
<1>6. queue = Packets(len, ensure) /\ partial \in Nat /\ Mps \in Nat \ {0}
  BY <1>3, <1>5, OutAssumption DEF Outstanding, TInv, TypeOK
<1>7. CASE len < Mps
  <2>1. Head(queue) = len /\ Tail(queue) = <<>> /\ Closes(len, ensure)
    <3>1. queue = <<len>> /\ Closes(len, ensure)
      BY <1>6, <1>7, LastPacket
    <3> QED
      BY <3>1
  <2> QED
    BY <1>1, <1>3, <1>5, <1>7, <2>1 DEF Settled, Outstanding
<1>8. CASE len >= Mps
  <2>1. Head(queue) = Mps
    BY <1>6, <1>8, FirstPacket
  <2>2. partial' = partial + Mps /\ UNCHANGED messages
    BY <1>1, <1>6, <2>1
  <2>3. CASE len = Mps /\ ~ensure
    <3>1. Tail(queue) = <<>> /\ ~Closes(len, ensure)
      BY <1>6, <1>8, <2>3, FirstPacket
    <3> QED
      BY <1>1, <1>3, <1>5, <2>2, <2>3, <3>1 DEF Settled, Outstanding
  <2>4. CASE ~(len = Mps /\ ~ensure)
    <3>1. /\ Tail(queue) = Packets(len - Mps, ensure)
          /\ Closes(len - Mps, ensure) <=> Closes(len, ensure)
      BY <1>6, <1>8, <2>4, FirstPacket
    <3>2. len - Mps \in Nat /\ partial' + (len - Mps) = partial + len
      BY <1>6, <1>8, <2>2
    <3>3. Outstanding(len - Mps, ensure)'
      BY <1>1, <1>3, <1>5, <2>2, <3>1, <3>2 DEF Outstanding
    <3> QED
      BY <3>2, <3>3
  <2> QED
    BY <2>3, <2>4
<1> QED
  BY <1>6, <1>7, <1>8

LEMMA DeviceFInv ==
    ASSUME IInv, EInv, TInv, FInv, Device \/ Lose
    PROVE  FInv'
<1>1. CASE DeviceTake
  BY <1>1, TakeFInv
<1>2. CASE DeviceHalt
  BY <1>2 DEF DeviceHalt, EInv, Bounds, FInv
<1>3. CASE ClearHalt
  <2>1. phase = "stalled" /\ UNCHANGED <<cancels, halts>>
    BY <1>3 DEF ClearHalt, caller
  <2> QED
    BY <2>1 DEF EInv, Exact, FInv
<1>4. CASE DeviceDiscard \/ DeviceBusy \/ Lose
  <2>1. UNCHANGED <<toggle_data1, expect_data1, phase, queue, promised, owed, messages,
                    partial, cancels, halts>>
    BY <1>4 DEF DeviceDiscard, DeviceBusy, Lose, host, device, caller
  <2>2. Untaken' = Untaken
    BY <2>1 DEF Untaken
  <2>3. cancels = 0 /\ halts = 0 /\ phase = "idle" => queue = <<>>
    BY DEF FInv
  <2> QED
    BY <2>1, <2>2, <2>3, SameFInv
<1> QED
  BY <1>1, <1>2, <1>3, <1>4 DEF Device

LEMMA StutterFInv ==
    ASSUME FInv, UNCHANGED vars
    PROVE  FInv'
<1>1. UNCHANGED <<toggle_data1, expect_data1, phase, queue, promised, owed, messages,
                  partial, cancels, halts>>
  BY DEF vars, host, device, caller
<1>2. Untaken' = Untaken
  BY <1>1 DEF Untaken
<1>3. cancels = 0 /\ halts = 0 /\ phase = "idle" => queue = <<>>
  BY DEF FInv
<1> QED
  BY <1>1, <1>2, <1>3, SameFInv

(* The chunks and the zero-length packets of request_out reach the device  *)
(* as the buffers the caller sent, whatever their lengths, the packet size *)
(* and the losses: no message is split, joined with the next or left open. *)
THEOREM MessagesKeepBoundaries == Spec => []Framing
<1>1. IInv /\ EInv /\ [Next]_vars => EInv'
  BY HostEInv, DeviceEInv, StutterEInv DEF Next
<1>2. IInv /\ TInv /\ [Next]_vars => TInv'
  <2>1. TInv /\ UNCHANGED vars => TInv'
    BY DEF vars, host, device, caller, TInv, TypeOK, Working
  <2> QED
    BY <2>1, HostTInv, DeviceTInv DEF Next
<1>3. IInv /\ EInv /\ TInv /\ FInv /\ [Next]_vars => FInv'
  BY HostFInv, DeviceFInv, StutterFInv DEF Next
<1>4. EInv /\ TInv /\ FInv => Framing
  <2>1. SUFFICES ASSUME EInv, TInv, FInv, cancels = 0, halts = 0
                 PROVE  /\ IsPrefixOf(messages, promised)
                        /\ phase = "idle" => messages = promised /\ partial = owed
    BY DEF Framing
  <2>2. messages \in Seq(Nat) /\ promised \in Seq(Nat)
    BY <2>1 DEF TInv, TypeOK
  <2>3. promised = messages \/ \E len \in Nat : promised = Append(messages, partial + len)
    BY <2>1 DEF FInv, Settled, Outstanding
  <2>4. IsPrefixOf(messages, promised)
    BY <2>2, <2>3 DEF IsPrefixOf
  <2>5. ASSUME phase = "idle" PROVE messages = promised /\ partial = owed
    <3>1. Untaken = <<>>
      BY <2>1, <2>5 DEF EInv, Exact, FInv, Untaken, Working
    <3> QED
      BY <2>1, <3>1, PacketsNotEmpty DEF FInv, Settled, Outstanding
  <2> QED
    BY <2>4, <2>5
<1> QED
  BY Inductive, InitEInv, InitTInv, InitFInv, <1>1, <1>2, <1>3, <1>4, PTL DEF Spec
=============================================================================
