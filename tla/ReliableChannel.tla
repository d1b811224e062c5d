-------------------------- MODULE ReliableChannel --------------------------
(***************************************************************************)
(* What an endpoint pipe promises about its packets, whichever way they    *)
(* travel.  A sender has one packet in flight; the receiver takes it at    *)
(* most once and in order; the sender is told so only afterwards.  Two     *)
(* things spoil the promise, and only for a packet that can be named: the  *)
(* sender withdraws a packet the receiver has already taken, or the        *)
(* receiver refuses a packet and acknowledges it all the same.  Both leave *)
(* the channel in doubt: the next packet is confirmed and thrown away.     *)
(***************************************************************************)
EXTENDS Naturals, Sequences

VARIABLES
    last,       \* number of the packet sent last
    inflight,   \* number of the packet being sent, 0 for none
    taken,      \* the receiver has the packet in flight
    doubt,      \* the receiver will mistake the packet for an old one
    log,        \* the packets the receiver took, in order
    confirmed,  \* the packets the sender believes are taken, in order
    refused     \* the packets the receiver has answered with an error

vars == <<last, inflight, taken, doubt, log, confirmed, refused>>

Init ==
    /\ last = 0 /\ inflight = 0
    /\ taken = FALSE /\ doubt = FALSE
    /\ log = <<>> /\ confirmed = <<>>
    /\ refused = {}

Submit ==
    /\ inflight = 0
    /\ last' = last + 1 /\ inflight' = last + 1
    /\ UNCHANGED <<taken, doubt, log, confirmed, refused>>

Take ==
    /\ inflight # 0 /\ ~taken /\ ~doubt
    /\ taken' = TRUE /\ log' = Append(log, inflight)
    /\ UNCHANGED <<last, inflight, doubt, confirmed, refused>>

Refuse ==
    /\ inflight # 0 /\ ~taken /\ ~doubt
    /\ refused' = refused \cup {inflight}
    /\ UNCHANGED <<last, inflight, taken, doubt, log, confirmed>>

(* A packet is confirmed because it was taken, because the receiver        *)
(* mistakes it for an old one, or because the receiver refused it.         *)
Confirm ==
    /\ inflight # 0
    /\ taken \/ doubt \/ inflight \in refused
    /\ confirmed' = Append(confirmed, inflight)
    /\ doubt' = (~taken /\ ~doubt)
    /\ inflight' = 0 /\ taken' = FALSE
    /\ UNCHANGED <<last, log, refused>>

Withdraw ==
    /\ inflight # 0
    /\ doubt' = (taken \/ doubt)
    /\ inflight' = 0 /\ taken' = FALSE
    /\ UNCHANGED <<last, log, confirmed, refused>>

(* Both ends start over from DATA0. *)
Reset ==
    /\ inflight = 0
    /\ doubt' = FALSE
    /\ UNCHANGED <<last, inflight, taken, log, confirmed, refused>>

Next == Submit \/ Take \/ Refuse \/ Confirm \/ Withdraw \/ Reset

Spec == Init /\ [][Next]_vars
=============================================================================
