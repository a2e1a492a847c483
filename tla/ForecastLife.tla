---------------------------- MODULE ForecastLife ----------------------------
(***************************************************************************)
(* What the calibration tracker promises of a forecast, without threads,   *)
(* transactions or clocks: it is locked once and for ever, stays open until*)
(* it is resolved or voided, a void is final, and a resolution can only be *)
(* superseded by another one.                                              *)
(***************************************************************************)
EXTENDS Naturals, Sequences

CONSTANT Content

VARIABLES status,  \* each forecast: open, yes, no or voided
          said     \* its content

fvars == <<status, said>>

Init == status = << >> /\ said = << >>

Lock ==
    /\ \E c \in Content : said' = Append(said, c)
    /\ status' = Append(status, "open")

Resolve(f) ==
    /\ status[f] # "voided"
    /\ \E verdict \in {"yes", "no"} : status' = [status EXCEPT ![f] = verdict]
    /\ UNCHANGED said

Void(f) ==
    /\ status[f] = "open"
    /\ status' = [status EXCEPT ![f] = "voided"]
    /\ UNCHANGED said

Next == Lock \/ \E f \in DOMAIN status : Resolve(f) \/ Void(f)

Spec == Init /\ [][Next]_fvars
=============================================================================
