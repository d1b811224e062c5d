------------------------------ MODULE RootPort ------------------------------
(***************************************************************************)
(* The root port of rp-pio-usb-host: what Bus::poll_device_event of        *)
(* rp-pio-usb-host/src/bus.rs does with one sample of the D+/D- lines.     *)
(* The lines belong to the environment: a device, its contacts bouncing,   *)
(* a cable pulled between two samples.                                     *)
(***************************************************************************)
EXTENDS Naturals

CONSTANTS
    DebounceFrames,     \* DEBOUNCE_FRAMES, 15 in the source
    DebounceCap         \* DEBOUNCE_CAP, 60 in the source

ASSUME DebounceAssumption ==
    /\ DebounceFrames \in Nat \ {0}
    /\ DebounceCap \in Nat
    /\ DebounceFrames <= DebounceCap

Speed   == {"Full", "Low"}
NoSpeed == "None"

VARIABLES
    dp, dm,             \* the real levels of D+ and D-
    speed,              \* Bus::speed
    attached,           \* Bus::attached
    debounce,           \* Bus::debounce
    event               \* what the last poll_device_event returned

portVars == <<dp, dm, speed, attached, debounce, event>>

(* History of the samples, for the properties: how many samples saw a      *)
(* device since the last detach and how many saw none since the last       *)
(* attach, and the length of the current run of either kind.  Each is      *)
(* saturated where the properties stop looking.                            *)
VARIABLES present, absent, presentRun, absentRun

history == <<present, absent, presentRun, absentRun>>
vars    == <<portVars, history>>

AtMost(n, cap) == IF n < cap THEN n ELSE cap

-----------------------------------------------------------------------------

(* D+ high is a full-speed device, D- high a low-speed one. *)
detect_speed ==
    CASE dp /\ ~dm -> "Full"
      [] dm /\ ~dp -> "Low"
      [] OTHER     -> NoSpeed

(* The saturating accumulator after one sample. *)
DebouncedUncapped(s) ==
    IF s # NoSpeed THEN debounce + 1 ELSE IF debounce > 0 THEN debounce - 1 ELSE 0

DebouncedByTwo(s) ==
    IF s # NoSpeed THEN AtMost(debounce + 2, DebounceCap)
    ELSE IF debounce > 0 THEN debounce - 1 ELSE 0

Debounced(s) ==
    IF s # NoSpeed THEN AtMost(debounce + 1, DebounceCap)
    ELSE IF debounce > 0 THEN debounce - 1 ELSE 0

AttachesOffByOne(s, d) == ~attached /\ d > DebounceFrames /\ s # NoSpeed

Attaches(s, d) == ~attached /\ d >= DebounceFrames /\ s # NoSpeed

DetachesEarly(s, d) == attached /\ d < DebounceFrames /\ s = NoSpeed

Detaches(s, d) == attached /\ d = 0 /\ s = NoSpeed

Record(s) ==
    /\ present'    = IF event' = "Disconnected" THEN 0
                     ELSE IF s # NoSpeed THEN AtMost(present + 1, DebounceFrames)
                     ELSE present
    /\ absent'     = IF event' = "Connected" THEN 0
                     ELSE IF s = NoSpeed THEN AtMost(absent + 1, DebounceCap)
                     ELSE absent
    /\ presentRun' = IF s # NoSpeed THEN AtMost(presentRun + 1, DebounceFrames) ELSE 0
    /\ absentRun'  = IF s = NoSpeed THEN AtMost(absentRun + 1, DebounceCap) ELSE 0

-----------------------------------------------------------------------------

Init ==
    /\ dp \in BOOLEAN /\ dm \in BOOLEAN
    /\ speed = "Full" /\ attached = FALSE /\ debounce = 0
    /\ event = "None"
    /\ present = 0 /\ absent = 0 /\ presentRun = 0 /\ absentRun = 0

(* One sample: count it, then attach, detach or neither. *)
poll_device_event ==
    LET s == detect_speed
        d == Debounced(s)
    IN  /\ debounce' = d
        /\ \/ /\ Attaches(s, d)
              /\ speed' = s /\ attached' = TRUE /\ event' = "Connected"
           \/ /\ Detaches(s, d)
              /\ attached' = FALSE /\ event' = "Disconnected"
              /\ UNCHANGED speed
           \/ /\ ~Attaches(s, d) /\ ~Detaches(s, d)
              /\ event' = "None"
              /\ UNCHANGED <<speed, attached>>
        /\ Record(s)
        /\ UNCHANGED <<dp, dm>>

(* Between two samples the lines do what they like. *)
Wiggle ==
    /\ dp' \in BOOLEAN /\ dm' \in BOOLEAN
    /\ UNCHANGED <<speed, attached, debounce, event, history>>

Next == poll_device_event \/ Wiggle

Spec == Init /\ [][Next]_vars

-----------------------------------------------------------------------------

(* Every variable has its type; the history stays within its saturation. *)
TypeOK ==
    /\ dp \in BOOLEAN /\ dm \in BOOLEAN
    /\ speed \in Speed
    /\ attached \in BOOLEAN
    /\ debounce \in 0 .. DebounceCap
    /\ event \in {"None", "Connected", "Disconnected"}
    /\ present \in 0 .. DebounceFrames /\ presentRun \in 0 .. DebounceFrames
    /\ absent \in 0 .. DebounceCap /\ absentRun \in 0 .. DebounceCap

(* The accumulator has hysteresis: a detached port is always below the     *)
(* attach threshold and an attached one above zero, whatever the lines did *)
(* in between, so no single sample can turn an event into its opposite.    *)
Hysteresis ==
    IF attached THEN debounce > 0 ELSE debounce < DebounceFrames

(* A Connected event was paid for with DEBOUNCE_FRAMES samples that saw a  *)
(* device, all taken since the previous detach, and a Disconnected event   *)
(* with as many without a device since the attach: neither a glitch on an  *)
(* empty port, nor what is left of the last device, nor a flickering       *)
(* contact that is mostly closed makes an event.                           *)
Earned ==
    /\ event = "Connected" => present >= DebounceFrames
    /\ event = "Disconnected" => absent >= DebounceFrames

(* A device that stays plugged in is attached within DEBOUNCE_FRAMES       *)
(* samples, whatever was on the lines before it, and one that is pulled is *)
(* detached within DEBOUNCE_CAP, however long it had been plugged in.      *)
(* bus.rs:38-39 has it that a detach takes "longer than the time spent     *)
(* plugged in".  Read literally that is not so, neither here nor in Earned:*)
(* the count stops at the cap, so that many empty samples are enough after *)
(* any time plugged in, and bounces count against it before the detach.    *)
Prompt ==
    /\ presentRun >= DebounceFrames => attached
    /\ absentRun >= DebounceCap => ~attached

-----------------------------------------------------------------------------

(* The accumulator against the history: what makes the properties above    *)
(* inductive.  A detached port owes its count to the samples since the     *)
(* detach; an attached one has spent at most what it was given.            *)
DetachedCount ==
    ~attached => /\ debounce < DebounceFrames
                 /\ debounce <= present
                 /\ presentRun <= debounce

AttachedCount ==
    attached => /\ debounce > 0
                /\ debounce + absent >= DebounceFrames
                /\ debounce + absentRun <= DebounceCap

IInv == TypeOK /\ DetachedCount /\ AttachedCount /\ Earned
=============================================================================
