---------------------- MODULE AttestedStoreInductive -----------------------
(***************************************************************************)
(* The inductive invariants of AttestedStore, stated apart from the proofs *)
(* that use them so that TLC checks them too: IInv, under which the rows'  *)
(* chains and the write lock are safe, and ManifestInv, under which the    *)
(* manifest says of the rows what it should.                               *)
(***************************************************************************)
EXTENDS AttestedStore

\* A store that takes no file lock is written by one process (the deployment of
\* the ACH engine and the egress audit).
ASSUME SoleWriterAssumption ==
    LockPolicy = "never" => \A p, q \in Writer : p = q

\* The write lock and the file lock keep who they should out: a worker is inside
\* a lock block exactly when it holds its process's lock, calls run in open
\* processes only, an open writer that locks holds the file lock, and a booting
\* process has one active thread.
LockInv ==
    /\ \A w \in Worker : pc[w] \in Inside <=> wlock[Host[w]] = w
    /\ \A p \in Proc : wlock[p] # NoWorker => Host[wlock[p]] = p
    /\ \A w \in Worker : pc[w] # "idle" => phase[Host[w]] \in {"booting", "serving"}
    /\ \A w \in Worker : pc[w] \in Writing => Host[w] \in Writer
    /\ \A p \in Proc :
          Locks(p) /\ phase[p] \in {"booting", "serving"} => flock = p
    /\ \A v, w \in Worker :
          /\ Host[v] = Host[w] /\ phase[Host[v]] = "booting"
          /\ pc[v] # "idle" /\ pc[w] # "idle"
          => v = w

\* What a call has collected when it is at a given point.
SectionInv ==
    /\ \A w \in Worker : pc[w] \notin Writing => owed[w] = << >> /\ done[w] = 0
    /\ \A w \in Worker :
          pc[w] \in {"head", "insert"} => Len(owed[w]) < Len(shape[w])
    /\ \A w \in Worker :
          pc[w] = "sync" => manifest # << >> /\ done[w] < Len(owed[w])
    /\ \A w \in Worker : pc[w] = "walk" => Len(snap[w]) < Len(Tables)

\* A transaction is open only in a serving writer, and the head a worker has read
\* is still the head when it inserts.
TxnInv ==
    /\ txn = NoProc => view = db
    /\ txn # NoProc => txn \in Writer /\ phase[txn] = "serving"
    /\ \A w \in Worker :
          pc[w] \in {"head", "insert", "commit"} => phase[Host[w]] = "serving"
    /\ \A w \in Worker : pc[w] = "insert" => prev[w] = LastHash(view[NextTable(w)])

\* Every table some line is about has a last such line.
LastInv ==
    \A t \in Table :
        About(manifest, t) # {} =>
            \E i \in About(manifest, t) : \A j \in About(manifest, t) : j <= i

\* A verify has an attempt left as long as it runs.
TriesInv == \A w \in Worker : pc[w] \in Walking \cup {"retry"} => tries[w] > 0

IInv == TypeOK /\ LockInv /\ SectionInv /\ TxnInv /\ LastInv /\ RowsChained /\ TriesInv

-----------------------------------------------------------------------------
(* The strengthening behind the properties of the manifest.                 *)

\* A hash is as long as the chain it closes.
Numbered(rows) == \A n \in DOMAIN rows : Len(rows[n].row_hash) = n

\* The connection's rows extend the committed ones.
GrowthInv ==
    \A t \in Table :
        /\ Numbered(db[t]) /\ Numbered(view[t])
        /\ Len(db[t]) <= Len(view[t])
        /\ \A n \in DOMAIN db[t] : view[t][n] = db[t][n]

\* The owed attestations no line stands for yet.
Pending(w) ==
    {j \in DOMAIN owed[w] : \/ pc[w] = "attest" /\ j > done[w]
                            \/ pc[w] = "sync" /\ j > done[w] + 1}

\* Entry o is owed for the n-th row of its table, n the length of its head.
RowNo(o) == Len(o.head)
Names(o, rows) ==
    /\ RowNo(o) \in DOMAIN rows[o.table]
    /\ rows[o.table][RowNo(o)].row_hash = o.head

\* Each owed entry names a row the writer has inserted (or, for a baseline, the
\* last row of its table), in the order of insertion.
OwedBy(w) ==
    /\ \A j \in DOMAIN owed[w] :
          /\ Names(owed[w][j], view)
          /\ owed[w][j].count = IF Seeding(w) THEN RowNo(owed[w][j]) ELSE 0
          /\ Seeding(w) => RowNo(owed[w][j]) = Len(db[owed[w][j].table])
          /\ pc[w] \in {"head", "insert", "commit"} =>
                RowNo(owed[w][j]) > Len(db[owed[w][j].table])
    /\ \A j, k \in DOMAIN owed[w] :
          j < k /\ owed[w][j].table = owed[w][k].table =>
              RowNo(owed[w][j]) < RowNo(owed[w][k])
    /\ pc[w] \in {"head", "insert", "commit"} => done[w] = 0 /\ ~Seeding(w)
    /\ pc[w] = "commit" => owed[w] # << >>
    /\ pc[w] \in {"attest", "sync"} => txn = NoProc /\ done[w] < Len(owed[w])

OwedInv == \A w \in Worker : OwedBy(w)

\* A cache is never ahead of the file, and one that knows the tail of the file
\* knows its counts; a writer at fsync has not counted its last line yet.
CacheInv ==
    /\ \A i \in DOMAIN manifest : Len(manifest[i].manifest_hash) = i
    /\ \A p \in Proc :
          /\ Len(cachedHead[p]) <= Len(manifest)
          /\ cachedHead[p] = TailHash(manifest) =>
                \A t \in Table : cachedCount[p][t] = AttCount(manifest, t)
    /\ \A w \in Worker : pc[w] = "sync" =>
          \A t \in Table \ {manifest[Len(manifest)].says.table} :
              cachedCount[Host[w]][t] = AttCount(manifest, t)

\* The attested count stays below what is still to be attested.
CountInv ==
    /\ \A t \in Table : AttCount(manifest, t) <= Len(db[t])
    /\ \A w \in Worker : \A j \in Pending(w) :
          AttCount(manifest, owed[w][j].table) < RowNo(owed[w][j])

\* A loss shows in a table whose attested count will never catch up, unless a
\* baseline is under way.
LossInv ==
    lost => \/ \E w \in Worker : Seeding(w) /\ Pending(w) # {}
            \/ \E t \in Table :
                  /\ AttCount(manifest, t) < Len(db[t])
                  /\ \A w \in Worker : \A j \in Pending(w) :
                        owed[w][j].table = t =>
                            AttCount(manifest, t) + 1 < RowNo(owed[w][j])

\* A fork of the manifest's chain stays, so the rest need only hold without one.
FileInv ==
    /\ ~manifestFile => manifest = << >>
    /\ SelfChained(manifest) => CacheInv /\ CountInv /\ LossInv

\* Where the file lock comes before the manifest is read and fsync does not
\* fail, an open writer knows the tail of the file.
Careful == LockPolicy # "after" /\ "fsync" \notin Faults

TailInv ==
    /\ SelfChained(manifest)
    /\ \A p \in Proc : phase[p] # "opened"
    /\ \A p \in Writer :
          /\ phase[p] \in {"booting", "serving"}
          /\ \A w \in Workers(p) : pc[w] # "sync"
          => cachedHead[p] = TailHash(manifest)

\* Where a failing write rolls back, an open transaction is that of a write in
\* progress.
Uncommitted == {w \in Worker : pc[w] \in {"head", "insert", "commit"}}
OwnedTxn == txn # NoProc => \E w \in Uncommitted : Host[w] = txn

\* So a writer's walk has seen what is committed, ...
WalkSees ==
    \A w \in Worker :
        Host[w] \in Writer /\ pc[w] \in Walking =>
            \A i \in DOMAIN snap[w] :
                /\ snap[w][i].head = LastHash(db[Tables[i]])
                /\ snap[w][i].count = Len(db[Tables[i]])

\* ... all of it when it comes to the manifest.
WalkEnds == \A w \in Worker : pc[w] = "check" => Len(snap[w]) = Len(Tables)

WalkInv == OwnedTxn /\ WalkSees /\ WalkEnds

\* Between writes nothing is left to attest ...
AllAttested ==
    Attesting = {} /\ ~lost => \A t \in Table : AttCount(manifest, t) = Len(db[t])

\* ... and within one its thread still owes a line for the rest.
OwesTheRest ==
    \A w \in Attesting, t \in Table :
        \A n \in (AttCount(manifest, t) + 1) .. Len(db[t]) :
            \E j \in Pending(w) :
                owed[w][j].table = t /\ (Seeding(w) \/ RowNo(owed[w][j]) = n)

\* What a transaction has inserted it will owe.
OwesInserted ==
    \A w \in Uncommitted, t \in Table :
        \A n \in (Len(db[t]) + 1) .. Len(view[t]) :
            \E j \in DOMAIN owed[w] :
                owed[w][j].table = t /\ RowNo(owed[w][j]) = n

\* The books balance while nothing is lost or a baseline is under way.
Whole == ~lost \/ \E w \in Worker : Seeding(w) /\ Pending(w) # {}

AccountInv ==
    /\ OwesInserted
    /\ Whole => AttestsCommittedRows /\ AllAttested /\ OwesTheRest

\* Where no manifest I/O fails at all, a store that is served has lost nothing,
\* and one that is not served is only ever given a baseline.
Reliable == Careful /\ RollsBack /\ Faults = {}

ServesWhole == \A p \in Writer : phase[p] = "serving" => ~lost

AttestsWhileServing ==
    \A w \in Attesting : ~Seeding(w) => phase[Host[w]] = "serving"

ServiceInv == ServesWhole /\ AttestsWhileServing /\ AttestsCommittedRows

ManifestInv ==
    /\ GrowthInv /\ OwedInv /\ FileInv
    /\ Careful => TailInv
    /\ RollsBack => WalkInv
    /\ Careful /\ RollsBack => AccountInv
    /\ Reliable => ServiceInv

\* The two together: what a run checks of the strengthening.
StoreInv == IInv /\ ManifestInv

-----------------------------------------------------------------------------
(* What no step may do to the two files.                                    *)

\* A committed row stays what and where it is, and so does a manifest line.
FilesGrow ==
    /\ \A t \in Table : \A n \in DOMAIN db[t] :
          n \in DOMAIN db'[t] /\ db'[t][n] = db[t][n]
    /\ \A n \in DOMAIN manifest : n \in DOMAIN manifest' /\ manifest'[n] = manifest[n]

-----------------------------------------------------------------------------
(* What WriteLockIsReleased and BootDecides rest on: how far a call is from *)
(* the end of its lock block, and a verify from its verdict.                *)

\* The steps a worker can take before it leaves its block: two for a row, one for the
\* commit, two for a manifest line; one for a table, one for the manifest's check, and
\* one for the pause before a further attempt.
SectionLeft(w) ==
    CASE pc[w] = "head" -> 2 * (Len(shape[w]) - Len(owed[w])) + 2 * Len(shape[w]) + 1
      [] pc[w] = "insert" -> 2 * (Len(shape[w]) - Len(owed[w])) + 2 * Len(shape[w])
      [] pc[w] = "commit" -> 2 * Len(owed[w]) + 1
      [] pc[w] = "attest" -> 2 * (Len(owed[w]) - done[w])
      [] pc[w] = "sync" -> 2 * (Len(owed[w]) - done[w]) - 1
      [] pc[w] = "retry" -> Len(Tables) + 2
      [] pc[w] = "walk" -> Len(Tables) - Len(snap[w]) + 1
      [] pc[w] = "check" -> 1
      [] OTHER -> 0

\* Whoever holds a write lock is a thread of its process inside a block, with steps left.
HoldersWork ==
    \A p \in Proc : wlock[p] # NoWorker =>
        \E w \in Workers(p) : wlock[p] = w /\ pc[w] \in Inside /\ SectionLeft(w) > 0

\* A step of a call uses up an attempt, or a step of the attempt or write it is in.
Nearer(w) ==
    \/ tries'[w] < tries[w]
    \/ tries'[w] = tries[w] /\ SectionLeft(w)' < SectionLeft(w)

\* What others do leaves a call where it is, or ends it with its process; and a verify of
\* a start that ends without a further attempt decides the start.
CallsRunDown ==
    \A w \in Worker :
        /\ Proceeds(w) => Nearer(w)
        /\ pc[w] # "idle" /\ ~Proceeds(w) =>
              \/ pc'[w] = "idle" /\ phase'[Host[w]] = "down"
              \/ /\ pc'[w] = pc[w] /\ tries'[w] = tries[w]
                 /\ SectionLeft(w)' = SectionLeft(w)
        /\ phase[Host[w]] = "booting" /\ pc[w] \in Walking /\ pc'[w] = "idle" =>
              phase'[Host[w]] # "booting"
=============================================================================
