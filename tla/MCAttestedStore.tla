-------------------------- MODULE MCAttestedStore --------------------------
(***************************************************************************)
(* Small instances of AttestedStore: two processes, of which the first has *)
(* two threads, and stores with the table layouts of the servers.          *)
(***************************************************************************)
EXTENDS AttestedStoreInductive, TLC

CONSTANTS p1, p2, w1, w2, w3, row, other

\* Three threads over two processes, and two over two.
MCHost == w1 :> p1 @@ w2 :> p1 @@ w3 :> p2
MCPair == w1 :> p1 @@ w3 :> p2

\* evidence_ledger/store.py: one row of one table per write.
LedgerTables == <<"evidence", "grades">>
LedgerShapes == {<<"evidence">>, <<"grades">>}

\* ach_engine/store.py: create_matrix inserts a matrix and its hypotheses in one
\* transaction, add_hypothesis one hypothesis.
MatrixTables == <<"matrices", "hypotheses">>
MatrixShapes == {<<"matrices", "hypotheses", "hypotheses">>, <<"hypotheses">>}

\* staleness.py: evidence-ledger writes, ach-engine reads.
SignalTables == <<"stale_events", "grade_signals">>
SignalShapes == {<<"stale_events">>, <<"grade_signals">>}
=============================================================================
