--------------------------- MODULE MCEgressCalls ---------------------------
(***************************************************************************)
(* Small instances of EgressCalls.                                         *)
(***************************************************************************)
EXTENDS EgressCallsInductive, TLC

CONSTANTS w1, w2, plain, named, broken, public, internal, b1, b2

\* Live with identifiers to screen for; live without, which main() refuses; and live
\* off, with nothing configured.
MCEnvs ==
    {[live |-> TRUE, identifiers |-> TRUE, ledger |-> "local", allow_remote |-> FALSE],
     [live |-> TRUE, identifiers |-> FALSE, ledger |-> "remote", allow_remote |-> TRUE],
     [live |-> FALSE, identifiers |-> FALSE, ledger |-> "none", allow_remote |-> FALSE]}
=============================================================================
