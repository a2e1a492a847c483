--------------------------- MODULE AttestedStore ---------------------------
(***************************************************************************)
(* The append-only store every server of the state layer is built on: a    *)
(* SQLite file whose tables are hash chains, and beside it a manifest file *)
(* that attests, after each commit, the new head and row count of a table. *)
(*                                                                         *)
(* The two files cannot share a transaction, so a write is a sequence of   *)
(* steps -- read the head, INSERT, commit, write the manifest line, fsync  *)
(* it and remember it -- run under a lock that belongs to ONE process.     *)
(* Other processes that open the same files are kept out by an advisory    *)
(* file lock (evidence ledger, calibration tracker) or only by deployment  *)
(* (signal store, ACH engine, egress audit).                               *)
(*                                                                         *)
(* SHA-256 is modelled as an injective function: a hash IS the sequence of *)
(* payloads it commits to, GENESIS is the empty one.                       *)
(***************************************************************************)
EXTENDS Integers, Sequences

CONSTANTS
    Proc,        \* the processes that open the store
    Worker,      \* the threads that run its operations
    Host,        \* the process each worker belongs to
    Writer,      \* the processes that write; the others only verify
    NoProc,      \* "nobody holds the file lock", "no transaction is open"
    NoWorker,    \* "nobody holds the write lock"
    Tables,      \* the store's _TABLES tuple
    Shapes,      \* a transaction's rows, as the tables they go to
    Payload,     \* what a row can say
    LockPolicy,  \* when a writer takes the file lock: "before" its manifest
                 \* is read, "after" it, or "never"
    RollsBack,   \* whether a failing write rolls its transaction back
    Attempts,    \* verify_stable's budget
    Faults,      \* the manifest I/O errors considered: "write", "fsync"
    MaxRows,     \* bound: rows of a table when a write may still begin
    MaxCrashes,  \* bound: process crashes
    MaxFaults    \* bound: manifest I/O errors

Table == {Tables[i] : i \in DOMAIN Tables}

ASSUME StoreAssumption ==
    /\ Host \in [Worker -> Proc]
    /\ Writer \subseteq Proc
    /\ NoProc \notin Proc
    /\ NoWorker \notin Worker
    /\ Tables \in Seq(STRING) \ {<< >>}
    /\ \A i, j \in DOMAIN Tables : Tables[i] = Tables[j] => i = j
    /\ Shapes \subseteq Seq(Table) \ {<<>>}
    /\ LockPolicy \in {"before", "after", "never"} /\ RollsBack \in BOOLEAN
    /\ Attempts \in Nat \ {0}
    /\ Faults \subseteq {"write", "fsync"}
    /\ MaxRows \in Nat /\ MaxCrashes \in Nat /\ MaxFaults \in Nat

-----------------------------------------------------------------------------
(* Hashes, rows and manifest lines.                                         *)

GENESIS == << >>
row_hash(prev, payload) == Append(prev, payload)

Hash == Seq(Payload)
Row == [payload : Payload, prev_hash : Hash, row_hash : Hash]

\* What a manifest line attests; its own hash covers exactly this.
Attestation == [table : Table, head : Hash, count : Nat]
ManifestHash == Seq(Attestation)
Line == [says : Attestation,
         prev_manifest_hash : ManifestHash, manifest_hash : ManifestHash]

\* An append the writer still owes; count 0 lets Manifest.append count itself.
Owed == [table : Table, head : Hash, count : Nat]

LastHash(rows) == IF rows = << >> THEN GENESIS ELSE rows[Len(rows)].row_hash

\* The forward walk of verify_chain over one table.
Chained(rows) ==
    \A i \in DOMAIN rows :
        /\ rows[i].prev_hash = IF i = 1 THEN GENESIS ELSE rows[i - 1].row_hash
        /\ rows[i].row_hash = row_hash(rows[i].prev_hash, rows[i].payload)

\* The self-chain walk of Manifest.check.
SelfChained(lines) ==
    \A i \in DOMAIN lines :
        /\ lines[i].prev_manifest_hash =
               IF i = 1 THEN GENESIS ELSE lines[i - 1].manifest_hash
        /\ lines[i].manifest_hash =
               row_hash(lines[i].prev_manifest_hash, lines[i].says)

\* The last line about table t, as both _read_state and check find it.
About(lines, t) == {i \in DOMAIN lines : lines[i].says.table = t}
LastAbout(lines, t) ==
    CHOOSE i \in About(lines, t) : \A j \in About(lines, t) : j <= i
AttHead(lines, t) ==
    IF About(lines, t) = {} THEN GENESIS ELSE lines[LastAbout(lines, t)].says.head
AttCount(lines, t) ==
    IF About(lines, t) = {} THEN 0 ELSE lines[LastAbout(lines, t)].says.count

TailHash(lines) ==
    IF lines = << >> THEN GENESIS ELSE lines[Len(lines)].manifest_hash

-----------------------------------------------------------------------------
VARIABLES
    db,            \* committed rows of each table
    view,          \* rows as the connection with the open transaction sees them
    txn,           \* the process whose connection has a transaction open
    manifest,      \* lines of the manifest file
    manifestFile,  \* whether the manifest file exists
    flock,         \* the process that holds the file lock
    phase,         \* each process: down, opened, booting, serving or refused
    cachedHead,    \* Manifest._head of each process
    cachedCount,   \* Manifest._counts of each process
    wlock,         \* the worker that holds each process's _write_lock
    pc,            \* where each worker is
    shape,         \* the rows its transaction is to insert
    prev,          \* the head it has read for the next one
    owed,          \* the manifest appends its transaction calls for
    done,          \* how many of those are attested
    snap,          \* heads and counts its verify has read so far
    tries,         \* verify attempts it has left
    verdict,       \* what its last verify returned
    lost,          \* some committed row will never be attested
    crashes, faults

disk == <<db, view, txn, manifest, manifestFile>>
process == <<flock, phase, cachedHead, cachedCount>>
writing == <<shape, prev, owed, done>>
verifying == <<snap, tries, verdict>>
bounds == <<crashes, faults>>
vars == <<disk, process, wlock, pc, writing, verifying, lost, bounds>>

Phase == {"down", "opened", "booting", "serving", "refused"}
Writing == {"head", "insert", "commit", "attest", "sync"}
Walking == {"walk", "check"}
Inside == Writing \cup Walking

TypeOK ==
    /\ db \in [Table -> Seq(Row)] /\ view \in [Table -> Seq(Row)]
    /\ txn \in Proc \cup {NoProc}
    /\ manifest \in Seq(Line) /\ manifestFile \in BOOLEAN
    /\ flock \in Proc \cup {NoProc}
    /\ phase \in [Proc -> Phase]
    /\ cachedHead \in [Proc -> ManifestHash]
    /\ cachedCount \in [Proc -> [Table -> Nat]]
    /\ wlock \in [Proc -> Worker \cup {NoWorker}]
    /\ pc \in [Worker -> Inside \cup {"idle", "retry"}]
    /\ shape \in [Worker -> Seq(Table)] /\ prev \in [Worker -> Hash]
    /\ owed \in [Worker -> Seq(Owed)] /\ done \in [Worker -> Nat]
    /\ snap \in [Worker -> Seq([head : Hash, count : Nat])]
    /\ tries \in [Worker -> Nat]
    /\ verdict \in [Worker -> {"none", "ok", "mismatch"}]
    /\ lost \in BOOLEAN
    /\ crashes \in Nat /\ faults \in Nat

Init ==
    /\ db = [t \in Table |-> << >>] /\ view = db /\ txn = NoProc
    /\ manifest = << >> /\ manifestFile = FALSE
    /\ flock = NoProc /\ phase = [p \in Proc |-> "down"]
    /\ cachedHead = [p \in Proc |-> GENESIS]
    /\ cachedCount = [p \in Proc |-> [t \in Table |-> 0]]
    /\ wlock = [p \in Proc |-> NoWorker]
    /\ pc = [w \in Worker |-> "idle"]
    /\ shape = [w \in Worker |-> << >>] /\ prev = [w \in Worker |-> GENESIS]
    /\ owed = [w \in Worker |-> << >>] /\ done = [w \in Worker |-> 0]
    /\ snap = [w \in Worker |-> << >>] /\ tries = [w \in Worker |-> 0]
    /\ verdict = [w \in Worker |-> "none"]
    /\ lost = FALSE /\ crashes = 0 /\ faults = 0

-----------------------------------------------------------------------------
(* Opening, closing and crashing.                                           *)

Down(p) == phase[p] \in {"down", "refused"}
Workers(p) == {w \in Worker : Host[w] = p}
\* No tool call runs: before the server serves, its main thread is alone.
OnlyMain(p) == \A w \in Workers(p) : pc[w] = "idle"
\* Mutant of Locks: the file lock is never taken.
LocksNever(p) == FALSE
Locks(p) == p \in Writer /\ LockPolicy # "never"

\* Mutants of ReadManifest: the counts begin at 0 again; a chain begun afresh.
ReadManifestUncounted(p) ==
    /\ cachedHead' = [cachedHead EXCEPT ![p] = TailHash(manifest)]
    /\ cachedCount' = [cachedCount EXCEPT ![p] = [t \in Table |-> 0]]
ReadManifestAfresh(p) ==
    /\ cachedHead' = [cachedHead EXCEPT ![p] = GENESIS]
    /\ cachedCount' = [cachedCount EXCEPT
                          ![p] = [t \in Table |-> AttCount(manifest, t)]]

\* Manifest.__init__: the tail hash and last counts, read once and kept.
ReadManifest(p) ==
    /\ cachedHead' = [cachedHead EXCEPT ![p] = TailHash(manifest)]
    /\ cachedCount' = [cachedCount EXCEPT
                          ![p] = [t \in Table |-> AttCount(manifest, t)]]

\* The store's constructor.  Where the file lock comes first, the manifest is
\* read under it; where no lock is taken, the store is open at once.
Open(p) ==
    /\ Down(p)
    /\ IF Locks(p) /\ LockPolicy = "before"
       THEN flock = NoProc /\ flock' = p
       ELSE UNCHANGED flock
    /\ ReadManifest(p)
    /\ phase' = [phase EXCEPT ![p] =
                    IF Locks(p) /\ LockPolicy = "after" THEN "opened"
                    ELSE "booting"]
    /\ UNCHANGED <<disk, wlock, pc, writing, verifying, lost, bounds>>

\* The lock taken by a store constructed after this one (signal store).
TakeLock(p) ==
    /\ phase[p] = "opened" /\ flock = NoProc
    /\ flock' = p
    /\ phase' = [phase EXCEPT ![p] = "booting"]
    /\ UNCHANGED <<disk, cachedHead, cachedCount, wlock, pc, writing,
                   verifying, lost, bounds>>

\* LOCK_NB: a second process does not wait, its constructor raises.
LockHeld(p) ==
    /\ phase[p] = "opened" /\ flock # NoProc
    /\ phase' = [phase EXCEPT ![p] = "down"]
    /\ UNCHANGED <<disk, flock, cachedHead, cachedCount, wlock, pc, writing,
                   verifying, lost, bounds>>

Unlocked(p) == IF flock = p THEN NoProc ELSE flock

\* What is left of a process's workers when the process is gone.
Gone(p) ==
    LET Reset(f, x) == [w \in Worker |-> IF Host[w] = p THEN x ELSE f[w]]
    IN /\ wlock' = [wlock EXCEPT ![p] = NoWorker]
       /\ pc' = Reset(pc, "idle")
       /\ shape' = Reset(shape, << >>) /\ prev' = Reset(prev, GENESIS)
       /\ owed' = Reset(owed, << >>) /\ done' = Reset(done, 0)
       /\ snap' = Reset(snap, << >>) /\ tries' = Reset(tries, 0)
       /\ verdict' = Reset(verdict, "none")

\* The open transaction of p's connection is rolled back.
Discard(p) ==
    IF txn = p THEN view' = db /\ txn' = NoProc ELSE UNCHANGED <<view, txn>>

\* Shutdown between calls: close() drops the connection and the file lock.
Stop(p) ==
    /\ phase[p] \in {"booting", "serving"}
    /\ OnlyMain(p)
    /\ phase' = [phase EXCEPT ![p] = "down"]
    /\ flock' = Unlocked(p)
    /\ Gone(p) /\ Discard(p)
    /\ UNCHANGED <<db, manifest, manifestFile, cachedHead, cachedCount, lost,
                   bounds>>

\* Appends of w that no longer happen if w stops here.
Forgets(w) ==
    \/ pc[w] = "attest" /\ done[w] < Len(owed[w])
    \/ pc[w] = "sync" /\ done[w] + 1 < Len(owed[w])

\* The process dies anywhere: SQLite rolls the open transaction back, the OS
\* drops the file lock, and appends still owed are never made.
Crash(p) ==
    /\ ~Down(p) /\ crashes < MaxCrashes
    /\ crashes' = crashes + 1
    /\ phase' = [phase EXCEPT ![p] = "down"]
    /\ flock' = Unlocked(p)
    /\ lost' = (lost \/ \E w \in Workers(p) : Forgets(w))
    /\ Gone(p) /\ Discard(p)
    /\ UNCHANGED <<db, manifest, manifestFile, cachedHead, cachedCount, faults>>

-----------------------------------------------------------------------------
(* Writing: everything below happens under the process's _write_lock.       *)

\* Rows as a statement of process p sees them: its own open transaction is on
\* the connection all its threads share.
Seen(p) == IF txn = p THEN view ELSE db

\* Mutant of Acquire: no lock.
AcquireAlways(w) == wlock' = [wlock EXCEPT ![Host[w]] = w]
Acquire(w) == wlock[Host[w]] = NoWorker /\ wlock' = [wlock EXCEPT ![Host[w]] = w]

\* Mutant of Leave: an exit that keeps the lock.
LeaveLocked(w) ==
    /\ UNCHANGED wlock
    /\ pc' = [pc EXCEPT ![w] = "idle"]
    /\ shape' = [shape EXCEPT ![w] = << >>] /\ prev' = [prev EXCEPT ![w] = GENESIS]
    /\ owed' = [owed EXCEPT ![w] = << >>] /\ done' = [done EXCEPT ![w] = 0]

\* Leaving the `with self._write_lock` block of a write, by return or exception.
Leave(w) ==
    /\ wlock' = [wlock EXCEPT ![Host[w]] = NoWorker]
    /\ pc' = [pc EXCEPT ![w] = "idle"]
    /\ shape' = [shape EXCEPT ![w] = << >>]
    /\ prev' = [prev EXCEPT ![w] = GENESIS]
    /\ owed' = [owed EXCEPT ![w] = << >>]
    /\ done' = [done EXCEPT ![w] = 0]

\* A write tool takes the lock; its transaction will insert the rows of sh.
Begin(w, sh) ==
    /\ pc[w] = "idle" /\ phase[Host[w]] = "serving" /\ Host[w] \in Writer
    /\ \A t \in Table : Len(view[t]) < MaxRows
    /\ Acquire(w)
    /\ pc' = [pc EXCEPT ![w] = "head"]
    /\ shape' = [shape EXCEPT ![w] = sh]
    /\ UNCHANGED <<disk, process, prev, owed, done, verifying, lost, bounds>>

NextTable(w) == shape[w][Len(owed[w]) + 1]

\* _head(table) for the next row.
ReadHead(w) ==
    /\ pc[w] = "head"
    /\ prev' = [prev EXCEPT ![w] = LastHash(Seen(Host[w])[NextTable(w)])]
    /\ pc' = [pc EXCEPT ![w] = "insert"]
    /\ UNCHANGED <<disk, process, wlock, shape, owed, done, verifying, lost,
                   bounds>>

\* INSERT: the first one opens the transaction (SQLite's own write lock).
Insert(w, d) ==
    LET t == NextTable(w)
        rh == row_hash(prev[w], d)
    IN /\ pc[w] = "insert" /\ txn \in {NoProc, Host[w]}
       /\ txn' = Host[w]
       /\ view' = [view EXCEPT ![t] = Append(@,
                     [payload |-> d, prev_hash |-> prev[w], row_hash |-> rh])]
       /\ owed' = [owed EXCEPT ![w] =
                     Append(@, [table |-> t, head |-> rh, count |-> 0])]
       /\ pc' = [pc EXCEPT ![w] =
                   IF Len(owed[w]) + 1 = Len(shape[w]) THEN "commit" ELSE "head"]
       /\ UNCHANGED <<db, manifest, manifestFile, process, wlock, shape, prev,
                      done, verifying, lost, bounds>>

\* A statement, a check between statements or the commit itself raises: nothing
\* is attested and the transaction is rolled back -- except by the egress audit,
\* whose record() leaves it open on the connection.
Rollback(w) ==
    /\ pc[w] \in {"head", "insert", "commit"}
    /\ IF RollsBack THEN Discard(Host[w]) ELSE UNCHANGED <<view, txn>>
    /\ Leave(w)
    /\ UNCHANGED <<db, manifest, manifestFile, process, verifying, lost, bounds>>

Commit(w) ==
    /\ pc[w] = "commit"
    /\ db' = view /\ txn' = NoProc
    /\ pc' = [pc EXCEPT ![w] = "attest"]
    /\ UNCHANGED <<view, manifest, manifestFile, process, wlock, writing,
                   verifying, lost, bounds>>

-----------------------------------------------------------------------------
(* Manifest.append, once for each owed attestation, in order.               *)

\* Mutant of Owes: the manifest is appended to before the commit.
OwesBeforeCommit(w) == pc[w] \in {"commit", "attest"} /\ done[w] < Len(owed[w])
Owes(w) == pc[w] = "attest" /\ done[w] < Len(owed[w])

\* Only seed() states its counts.
Seeding(w) == owed[w] # << >> /\ owed[w][1].count # 0

\* Mutants of LineCount: off by one; the table recounted.
LineCountStale(p, o) == IF o.count = 0 THEN cachedCount[p][o.table] ELSE o.count
LineCountRecounts(p, o) == IF o.count = 0 THEN Len(db[o.table]) ELSE o.count

\* Counted from the CACHED count unless the caller gives one.
LineCount(p, o) == IF o.count = 0 THEN cachedCount[p][o.table] + 1 ELSE o.count

\* The line append() writes, chained to the CACHED tail hash.
NewLine(w) ==
    LET p == Host[w]
        o == owed[w][done[w] + 1]
        c == LineCount(p, o)
        says == [table |-> o.table, head |-> o.head, count |-> c]
    IN [says |-> says, prev_manifest_hash |-> cachedHead[p],
        manifest_hash |-> row_hash(cachedHead[p], says)]

\* os.open and write: the line is in the file.
WriteLine(w) ==
    /\ Owes(w)
    /\ manifest' = Append(manifest, NewLine(w)) /\ manifestFile' = TRUE
    /\ pc' = [pc EXCEPT ![w] = "sync"]
    /\ lost' = (lost /\ ~(Seeding(w) /\ done[w] + 1 = Len(owed[w])))
    /\ UNCHANGED <<db, view, txn, process, wlock, writing, verifying, bounds>>

\* os.open or write raises: no line (perhaps a new, empty file), and the caller
\* gets the exception although its rows are committed.
WriteFails(w) ==
    /\ Owes(w) /\ "write" \in Faults /\ faults < MaxFaults
    /\ faults' = faults + 1
    /\ manifestFile' \in {manifestFile, TRUE}
    /\ lost' = TRUE
    /\ Leave(w)
    /\ UNCHANGED <<db, view, txn, manifest, process, verifying, crashes>>

\* Mutant of Remember: the count stays what it was.
RememberHead(p, line) ==
    /\ cachedHead' = [cachedHead EXCEPT ![p] = line.manifest_hash]
    /\ UNCHANGED cachedCount
Remember(p, line) ==
    /\ cachedHead' = [cachedHead EXCEPT ![p] = line.manifest_hash]
    /\ cachedCount' = [cachedCount EXCEPT ![p][line.says.table] = line.says.count]

\* fsync returned: only now does the process remember the line.
SyncLine(w) ==
    LET p == Host[w]
        line == manifest[Len(manifest)]
        last == done[w] + 1 = Len(owed[w])
    IN /\ pc[w] = "sync"
       /\ Remember(p, line)
       /\ IF last THEN Leave(w)
          ELSE /\ done' = [done EXCEPT ![w] = @ + 1]
               /\ pc' = [pc EXCEPT ![w] = "attest"]
               /\ UNCHANGED <<wlock, shape, prev, owed>>
       /\ UNCHANGED <<disk, flock, phase, verifying, lost, bounds>>

\* fsync raises: the line is in the file, the process has forgotten it.
SyncFails(w) ==
    /\ pc[w] = "sync" /\ "fsync" \in Faults /\ faults < MaxFaults
    /\ faults' = faults + 1
    /\ lost' = (lost \/ Forgets(w))
    /\ Leave(w)
    /\ UNCHANGED <<disk, process, verifying, crashes>>

\* seed_manifest_baseline, run by hand on a store that is open but not served:
\* attest every non-empty table as it is, in the order of Tables, if no manifest
\* file exists yet.
Seed(w) ==
    LET p == Host[w]
        Baseline(t) == [table |-> t, head |-> LastHash(Seen(p)[t]),
                        count |-> Len(Seen(p)[t])]
    IN /\ phase[p] = "booting" /\ OnlyMain(p) /\ p \in Writer
       /\ ~manifestFile
       /\ \E k \in DOMAIN Tables : \E pick \in [1..k -> DOMAIN Tables] :
             /\ \A i, j \in 1..k : i < j => pick[i] < pick[j]
             /\ {pick[i] : i \in 1..k} =
                    {n \in DOMAIN Tables : Seen(p)[Tables[n]] # << >>}
             /\ owed' = [owed EXCEPT ![w] =
                            [i \in 1..k |-> Baseline(Tables[pick[i]])]]
       /\ Acquire(w)
       /\ pc' = [pc EXCEPT ![w] = "attest"]
       /\ UNCHANGED <<disk, process, shape, prev, done, verifying, lost, bounds>>

-----------------------------------------------------------------------------
(* Verifying: verify_chain, alone or under verify_stable, and the boot gate. *)

Budget(p) == IF phase[p] = "booting" THEN {Attempts} ELSE {1, Attempts}

\* Mutant of Walk: verify_chain without the write lock.
WalkUnlocked(w) ==
    /\ UNCHANGED wlock
    /\ pc' = [pc EXCEPT ![w] = "walk"]
    /\ snap' = [snap EXCEPT ![w] = << >>]
Walk(w) ==
    /\ Acquire(w)
    /\ pc' = [pc EXCEPT ![w] = "walk"]
    /\ snap' = [snap EXCEPT ![w] = << >>]

VerifyBegin(w, n) ==
    /\ pc[w] = "idle"
    /\ \/ phase[Host[w]] = "serving"
       \/ phase[Host[w]] = "booting" /\ OnlyMain(Host[w])
    /\ n \in Budget(Host[w])
    /\ Walk(w)
    /\ tries' = [tries EXCEPT ![w] = n]
    /\ verdict' = [verdict EXCEPT ![w] = "none"]
    /\ UNCHANGED <<disk, process, writing, lost, bounds>>

\* verify_stable, after its pause.
VerifyAgain(w) ==
    /\ pc[w] = "retry"
    /\ Walk(w)
    /\ UNCHANGED <<disk, process, writing, tries, verdict, lost, bounds>>

\* Mutants of BootOutcome: main() ignores the verdict; it verifies again.
BootServes(ok) == "serving"
BootTriesAgain(ok) == IF ok THEN "serving" ELSE "booting"

\* main() serves a store that verifies and exits on one that does not.
BootOutcome(ok) == IF ok THEN "serving" ELSE "refused"

\* One attempt ends: on a mismatch verify_stable tries again while it may.  The
\* last verdict of a boot decides whether the server serves or exits.
Conclude(w, ok) ==
    LET p == Host[w]
        again == ~ok /\ tries[w] > 1
    IN /\ wlock' = [wlock EXCEPT ![p] = NoWorker]
       /\ snap' = [snap EXCEPT ![w] = << >>]
       /\ tries' = [tries EXCEPT ![w] = IF again THEN @ - 1 ELSE 0]
       /\ pc' = [pc EXCEPT ![w] = IF again THEN "retry" ELSE "idle"]
       /\ verdict' = [verdict EXCEPT ![w] = IF ok THEN "ok" ELSE "mismatch"]
       /\ IF phase[p] = "booting" /\ ~again
          THEN /\ phase' = [phase EXCEPT ![p] = BootOutcome(ok)]
               /\ flock' = IF ok THEN flock ELSE Unlocked(p)
          ELSE UNCHANGED <<phase, flock>>
       /\ UNCHANGED <<disk, cachedHead, cachedCount, writing, lost, bounds>>

NextWalk(w) == Tables[Len(snap[w]) + 1]

\* The table walked last leads on to the manifest.
WalkOn(w, rows) ==
    /\ snap' = [snap EXCEPT ![w] =
                  Append(@, [head |-> LastHash(rows), count |-> Len(rows)])]
    /\ pc' = [pc EXCEPT ![w] =
                IF Len(snap[w]) + 1 = Len(Tables) THEN "check" ELSE "walk"]
    /\ UNCHANGED <<disk, process, wlock, writing, tries, verdict, lost, bounds>>

\* SELECT * of one table and its walk, which a broken chain ends.
WalkTable(w) ==
    LET rows == Seen(Host[w])[NextWalk(w)]
    IN /\ pc[w] = "walk"
       /\ IF Chained(rows) THEN WalkOn(w, rows) ELSE Conclude(w, FALSE)

\* Mutant of check: that the heads agree is enough.
checkHeads(heads) ==
    \A i \in DOMAIN Tables : heads[i].head = AttHead(manifest, Tables[i])

\* Manifest.check of the heads and counts the walk has found.
check(heads) ==
    /\ SelfChained(manifest)
    /\ \A i \in DOMAIN Tables : /\ heads[i].head = AttHead(manifest, Tables[i])
                                /\ heads[i].count = AttCount(manifest, Tables[i])

CheckManifest(w) == pc[w] = "check" /\ Conclude(w, check(snap[w]))

-----------------------------------------------------------------------------
ProcessStep ==
    \E p \in Proc : Open(p) \/ TakeLock(p) \/ LockHeld(p) \/ Stop(p) \/ Crash(p)

WriteStep ==
    \E w \in Worker :
        \/ \E sh \in Shapes : Begin(w, sh)
        \/ \E d \in Payload : Insert(w, d)
        \/ ReadHead(w) \/ Rollback(w) \/ Commit(w)

AttestStep ==
    \E w \in Worker :
        WriteLine(w) \/ WriteFails(w) \/ SyncLine(w) \/ SyncFails(w) \/ Seed(w)

VerifyStep ==
    \E w \in Worker :
        \/ \E n \in {1, Attempts} : VerifyBegin(w, n)
        \/ VerifyAgain(w) \/ WalkTable(w) \/ CheckManifest(w)

Next == ProcessStep \/ WriteStep \/ AttestStep \/ VerifyStep

Spec == Init /\ [][Next]_vars

-----------------------------------------------------------------------------
(* Safety.                                                                  *)

\* Workers between the commit of their rows and the last attestation of them.
Attesting == {w \in Worker : pc[w] \in {"attest", "sync"}}

\* What a verify in one instant would find: the disk's two files agree.
Intact ==
    /\ SelfChained(manifest)
    /\ \A t \in Table : /\ Chained(db[t])
                        /\ AttHead(manifest, t) = LastHash(db[t])
                        /\ AttCount(manifest, t) = Len(db[t])

\* At most one thread, over all processes, is between the start of a write and its
\* last manifest line (the _write_lock within a process, the flock or the
\* deployment's sole writer across them).
WritesAreSerial ==
    \A v, w \in Worker : pc[v] \in Writing /\ pc[w] \in Writing => v = w

\* Threads, restarts and hand-overs between processes never fork a table's row
\* chain, not even inside an open transaction (the _write_lock / flock pair).
RowsChained == \A t \in Table : Chained(db[t]) /\ Chained(view[t])

\* Nor do they fork the manifest's own chain, whose tail every process caches
\* from the moment it opens the store (Manifest.__init__, Manifest.append).
ManifestChained == SelfChained(manifest)

\* The manifest never runs ahead of the database: a line about n rows names the
\* hash of the n-th COMMITTED row, so a rolled-back or crashed transaction has
\* no line (every writer appends only after its commit).
AttestsCommittedRows ==
    \A i \in DOMAIN manifest :
        LET s == manifest[i].says
        IN /\ s.count \in 1..Len(db[s.table])
           /\ s.head = db[s.table][s.count].row_hash

\* Whenever no write is between its commit and its last attestation, and no
\* attestation has been lost, the two files agree: nothing but a loss can make a
\* server refuse its own healthy store.
IntactBetweenWrites == Attesting = {} /\ ~lost => Intact

\* A lost attestation never heals by itself: later appends, whose counts come
\* from the cached count, leave the mismatch visible to every later verify.
LostStaysVisible == lost /\ Attesting = {} => ~Intact

\* A verify of a process that writes holds the write lock from its first SELECT
\* to its manifest check, so its verdict is the truth about the disk at the
\* instant it is given -- never the torn view of an in-flight write.
VerdictIsTrue ==
    [][\A w \in Worker :
          /\ Host[w] \in Writer /\ pc[w] \in Walking
          /\ pc'[w] \in {"idle", "retry"} /\ verdict'[w] # "none"
          => (verdict'[w] = "ok" <=> Intact)]_vars

-----------------------------------------------------------------------------
(* Progress.                                                                *)

\* A call that has started runs on: a thread inside a lock block takes its next
\* step or raises, a paused verify_stable wakes up, and main() verifies at boot.
Proceeds(w) ==
    \/ ReadHead(w) \/ (\E d \in Payload : Insert(w, d)) \/ Rollback(w) \/ Commit(w)
    \/ WriteLine(w) \/ WriteFails(w) \/ SyncLine(w) \/ SyncFails(w)
    \/ WalkTable(w) \/ CheckManifest(w) \/ VerifyAgain(w)

BootVerifies(p) ==
    /\ phase[p] = "booting"
    /\ \E w \in Workers(p) : \E n \in Budget(p) : VerifyBegin(w, n)

Fairness ==
    /\ \A w \in Worker : WF_vars(Proceeds(w))
    /\ \A p \in Proc : WF_vars(BootVerifies(p))

FairSpec == Spec /\ Fairness

\* Whatever fails inside it, a lock block is left: no error path keeps the write
\* lock and with it every later call of the process.
WriteLockIsReleased ==
    \A p \in Proc : wlock[p] # NoWorker ~> wlock[p] = NoWorker

\* A start ends: verify_stable gives up after its budget, so main() either
\* serves or exits.
BootDecides ==
    \A p \in Proc : phase[p] = "booting" ~> phase[p] \in {"serving", "refused", "down"}

-----------------------------------------------------------------------------
(* The promise the store implements (AttestedLog).                          *)

Said(rows) == [i \in DOMAIN rows |-> rows[i].payload]

Log == INSTANCE AttestedLog
    WITH log <- [t \in Table |-> Said(db[t])],
         anchored <- [t \in Table |-> AttCount(manifest, t)]

\* The store implements the attested log: committed rows only ever grow at the
\* end, the attested count follows them and never passes them, and no write
\* commits on top of rows that are not attested yet.
ImplementsAttestedLog == Log!Spec
=============================================================================
