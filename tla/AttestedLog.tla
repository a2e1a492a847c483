---------------------------- MODULE AttestedLog ----------------------------
(***************************************************************************)
(* What an attested store promises, without locks, files or processes: a   *)
(* set of append-only tables, each with an anchor -- the number of its     *)
(* rows that are attested outside the database.  The anchor follows the    *)
(* table and never passes it, and the rows of one transaction are all that *)
(* can ever be missing from it: nothing is appended to a store whose last  *)
(* transaction is not anchored yet.                                        *)
(***************************************************************************)
EXTENDS Integers, Sequences

CONSTANTS Table, Payload

VARIABLES log,      \* the payloads of each table, in order
          anchored  \* how many of them the manifest attests

lvars == <<log, anchored>>

Anchored(t) == anchored[t] = Len(log[t])

Init == log = [t \in Table |-> << >>] /\ anchored = [t \in Table |-> 0]

Extends(new, old) ==
    Len(old) <= Len(new) /\ \A i \in DOMAIN old : new[i] = old[i]

\* One transaction: tables grow at their ends.
Commit ==
    /\ \A t \in Table : Anchored(t)
    /\ \A t \in Table : log'[t] \in Seq(Payload) /\ Extends(log'[t], log[t])
    /\ UNCHANGED anchored

\* The anchor of one table moves towards the table's end.
Anchor(t) ==
    /\ \E n \in (anchored[t] + 1) .. Len(log[t]) :
          anchored' = [anchored EXCEPT ![t] = n]
    /\ UNCHANGED log

Next == Commit \/ \E t \in Table : Anchor(t)

Spec == Init /\ [][Next]_lvars
=============================================================================
