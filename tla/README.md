# Verification of the intelligence-analysis state layer

TLA+ modules, TLC configurations and TLAPS proofs for the four MCP servers under
`src/mcp_servers/` and the stores they share. Everything is translated from the
source; `PROJECT.json` maps each definition to its lines, lists the runs, the hazards
and the theorems.

To check: `tlc -config StoreLedger.cfg MCAttestedStore` (and so on, one `.cfg` per run
below; `PagedReads` and `CalibrationReport` are run as they are), and `tlapm` on the eight
`*_proofs` modules.

## 1. The system

Four servers and one store that two of them share. Each server is a process; its tools
run on several threads over ONE SQLite connection (`check_same_thread=False`). Every
store is a SQLite file whose tables are hash chains, and beside it a `.manifest.jsonl`
file that attests, after each commit, a table's new head and row count.

| Part | State | Operations | Correct when |
|---|---|---|---|
| attested store (`common.py`; `__init__`, `_transaction`, `_insert`, `verify_chain` of every `store.py`, `staleness.py`, `audit.py`) | tables of chained rows, an open transaction, the manifest file, its tail hash and counts CACHED in each process, an in-process write lock, an advisory file lock | open, write (head, INSERT, commit, one manifest line per row, fsync), seed a manifest, verify once or with retries, serve or refuse at boot, stop, crash | chains never fork; the manifest says nothing that is not committed; the two files agree between writes; a verify's verdict is true; a loss is never hidden |
| calibration tracker (`calibration_tracker/`) | forecasts, resolutions, voids | log_forecast (absorbed by an equal one inside a window), resolve, correct, void, get, list, report | one verdict per forecast; a retry never locks twice; a report is complete and consistent |
| evidence ledger (`evidence_ledger/`) | evidence, grades; writes the signals | add_evidence, grade_evidence, update_grade (each grade signals twice), get, list, history | one first grade; signals follow the grades |
| signal store (`staleness.py`) | stale_events, grade_signals; written by the ledger, read by the engine | mark_stale, mark_graded; latest_grade_source, is_cell_stale | the engine learns of every acknowledged grade |
| ACH engine (`ach_engine/`) | matrices, hypotheses, cells | create_matrix, add_hypothesis, rate_cell, score_matrix, get, list | nothing is ranked on evidence whose latest grade is not analyst_confirmed, or on a rating older than it |
| OSINT toolkit (`osint_toolkit/`) | the egress audit (an attested store), artifacts in a directory, URLs of this session, its environment | search, fetch, compute_hash, extract_exif, reverse_image_search, get_map_tile, propose_to_ledger, verify_chain | no connection without its audit row before it, nor past the guard; every answer is what the audit says; every call ends |

How they interact. A call to the ledger writes its own database and then, in the same
critical section, the signal store's database: there is no transaction over the two. The
engine only READS the signal store, statement by statement, from another process. The
OSINT toolkit reaches the ledger by a tool call over the network (`propose_to_ledger`).
A store's database and its manifest are likewise two files with no common transaction.

What is hard, and what the properties are aimed at (the full list with lines is
`hazards` in `PROJECT.json`):

- crash or I/O error between a commit and its manifest line, or between a line and the
  in-memory tail (`common.py:156-161`);
- a manifest cached by a process before it holds the file lock (`evidence_ledger/server.py:35-36`);
- threads that read a chain's head, insert and attest; a verify in the middle of them;
- several chained rows in one transaction (`create_matrix`);
- an audit write that is not rolled back (`audit.py:74-87`);
- check-then-insert of verdicts, first grades and duplicates, and wall clocks set back;
- a grade committed before its two signals, each of which may fail and is retried;
- reads of several statements while others write: reports, records, scores;
- staleness as a comparison of two processes' clocks;
- DNS answers that change between a check and the connection, redirects, and audit
  writes, artifact files and ledger answers that fail around a connection;
- listings read page by page while rows are inserted, rolled back and their seq reused;
- times that an analyst asserts, against a flag that looks for hindsight.

## 2. Modules

| Module | What it is |
|---|---|
| `AttestedStore` | the store's mechanism, for any processes, threads, tables, transaction shapes and lock policy |
| `AttestedLog` | what the store promises: append-only tables with an anchor that follows them; no new transaction while one is not anchored |
| `AttestedStoreInductive` | `IInv` and `ManifestInv`, the inductive invariants (`StoreInv` is both), and the measure of a lock block's remaining steps, apart from their proofs so that TLC can check them too |
| `AttestedStore_proofs` | proofs: locks, transactions and row chains (section 5) |
| `AttestedManifest_proofs` | proofs: the manifest, losses, verdicts, the refinement of `AttestedLog` |
| `MCAttestedStore` | table layouts of the servers |
| `CalibrationTracker` | forecasts: writes under the lock, reads without it, on one connection |
| `CalibrationTrackerInductive` | `TrackerInv` and `LifeInv`, the inductive invariants |
| `CalibrationTracker_proofs` | proofs: verdicts, duplicates, rollbacks |
| `CalibrationLife_proofs` | proofs: reports, the window, the refinement of `ForecastLife` |
| `ForecastLife` | what a forecast goes through: open, then resolved (and corrected) or voided for ever |
| `MCCalibrationTracker` | instance |
| `CollectThenGrade` | ledger, signal store and engine together: grade, signal, rate, score |
| `CollectThenGradeInductive` | `CollectInv`, the inductive invariant; `RecordsGrow` and `SettledInv`, of two more theorems |
| `CollectThenGrade_proofs` | its proof, and those of the gate's properties |
| `MCCollectThenGrade` | instance |
| `EgressCalls` | the OSINT toolkit: gates, audit rows, DNS, redirects, connection, artifact, proposal, start and crash |
| `EgressCallsInductive` | `EgressInv`, the inductive invariant, and the measure of a call's remaining steps |
| `EgressCalls_proofs` | its proof, and those of the toolkit's properties |
| `MCEgressCalls` | instance: three environments |
| `PagedReads` | the three listings, page by page, over concurrent inserts and rollbacks; its inductive invariant |
| `PagedReads_proofs` | proofs of it and of `ListingComplete` |
| `CalibrationReport` | the report's hindsight flags over asserted times, and its arithmetic |
| `CalibrationReport_proofs` | proofs: the flags, the buckets, the decomposition of the score |

The other components sit on the store's promise: there a write is a commit and a
manifest line that can fail (`CalibrationTracker`, `CollectThenGrade`, `EgressCalls`), or
a commit or a rollback (`PagedReads`), and row chains do not appear again.

### AttestedStore and the code

`db` is what is committed, `view`/`txn` the open transaction on a process's connection,
`manifest` the lines of the file and `manifestFile` whether the file exists,
`cachedHead`/`cachedCount` the fields `_head` and `_counts` of `Manifest`, `wlock` the
`_write_lock` of each process, `flock` the advisory file lock of `_acquire_process_lock`,
`phase` the life of a process (down, opened, booting, serving, refused) and `pc`, `shape`,
`prev`, `owed`, `done`, `snap`, `tries`, `verdict` the local variables of a call. `lost`
is a history variable: an attestation that was owed will never be made.

One write is `Begin`, then `ReadHead` and `Insert` per row, `Commit`, then `WriteLine` and
`SyncLine` per row. `Rollback` is an exception before the commit; `WriteFails` and
`SyncFails` are errors of the manifest. A verify is `VerifyBegin`, `WalkTable` per table,
`CheckManifest`; `Conclude` is `verify_stable`'s decision and `main()`'s. The constant
`LockPolicy` says where the store takes its file lock: "before" it reads the manifest
(ledger, tracker), "after" (the signal store, which the ledger's server constructs before
the ledger), or "never" (engine, audit). `RollsBack` is FALSE for the audit only.

Two threads that share a connection see each other's open transaction (`Seen`). The row
hash is an injective function of the previous hash and the payload, i.e. SHA-256 without
collisions; a hash IS the sequence of payloads it commits to.

### CalibrationTracker and the code

A write takes the lock (`Begin`), is decided, refused or absorbed by the checks under it
(`Decide`, `Refuse`, `Absorb`), inserts, commits and attests. `disk` is committed, `rows` what the
shared connection sees, so a reader between INSERT and commit sees a row that may be
rolled back. `get_forecast` is three SELECTs, the report 2n+2 of them, and each is an action. `real`
and `wall` are two clocks because `created_ts` is `time.time()`; `SetBack` sets only
`wall`. The content of a forecast stands for every field the duplicate check compares.

### CollectThenGrade and the code

Grading: `Grade`, `Check`, `InsertGrade`, `AttestGrade`, then for each of the two signals
`Stamp`, `InsertSignal`, `AttestFirst`/`AttestLast`, all inside the ledger's lock;
`SignalFails` restarts both signals once and then raises. Rating: verify the signal
store, read the evidence's grade, stamp, insert. Scoring: cells, hypotheses, coverage,
verify, then grade and staleness cell by cell. `Restart` has `main()`'s boot gate: a
ledger whose manifest lacks a row does not serve. `ReadClock` is `time.time()` of either
process: the clock has moved on by one of `Ticks`, or not at all if 0 is one of them, and
then a rating and a mark carry the same time (`MarkedAfter` is the code's strict `>`).
`acked`, and the fields `bound`,
`settled`, `begun`, `seen` and `basis`, are history: what had been acknowledged or
committed when a call began, or which grade a rating looked at.

### EgressCalls and the code

`env` is what the server reads from its environment when it starts, `log`, `open` and
`manifest` the egress audit (committed rows, rows of the open transaction, lines), `lock`
its `_lock`, `session` the set `_session_urls`, `artifacts` the files of the artifact
store, `ledger` what `add_evidence` stored for proposals. `calls` and `connections` are
history. A call starts as `Search`, `ReverseImageSearch`, `GetMapTile`, `Fetch` or
`Propose`, which contain the gates that read nothing else; each audit row is
`RecordInsert`, `RecordCommit`, `RecordAttest`, and what follows a row is `AfterRow`. A
fetch then is `Guard` (first validation), the row of the attempt, `Hop` (validation and
pinning, again for the first URL), `Connect`, and one of `NetworkFails`, `Redirect`,
`Oversize`, `Receive`; then `Store`, the row "ok", `Remember`. `Boot` is `main()` with its
three gates. Everything outside answers as it likes: a resolution is any set of
addresses, each time it is asked. An exception that no handler names ends in "masked
error": `Escapes`, `CommitFails`, `AttestFails`, `StoreFails`. `CommitFails` leaves the
transaction open, for `record()` does not roll back, or SQLite has done so itself.

### PagedReads and the code

`rows` is the table as the shared connection sees it, `durable` how many of its rows are
committed, a position its seq. `Page` is the SELECT of a listing, `Get` the look-up of one
of its rows with the filter of `list_forecasts`, `Answer` the end of a call with or without
a cursor. A look-up can find its row gone (`Vanished`), because the SELECT saw a write in
progress; the client then repeats the call with the cursor it has, as it does after a
crash. `kind` and `wanted` choose the listing and its filter.

### CalibrationReport and the code

`now` is the server's clock, `forecasts` the analyst's forecasts with the horizon and the
resolution times he asserted and the lock time the server wrote. `Scored`, `BeforeHorizon`,
`Certified`, `Flagged` and `Corrected` are the report's counters as sets; `made` is history.
`pairs` is the report's list of probability and outcome, filled by `Collect`; `Brier`,
`Reliability`, `ResolutionComponent` are its sums, with exact arithmetic in place of floats.

## 3. Runs

Every run finishes within about two minutes on two workers. Deadlock is checked except in
`EgressCalls` and `PagedReads`, which may really stop: all calls of the bound have been
made, or the listing has ended and the inserts are used up. That nothing hangs before is
their liveness property.

| Run | Question | Instance |
|---|---|---|
| `StoreLedger` | do chains, manifest and verdicts survive threads, restarts and crashes? | 2 processes, 3 threads, lock "before", 2 payloads, 2 crashes |
| `StoreMatrix` | do multi-row transactions implement the attested log? | lock "never", one writer and one verifying process, create_matrix's shape, 1 crash |
| `StoreLive` | does every lock block end and every start decide, and is no loss and no fork hidden, from a verify least of all? | lock "after", failing write and fsync, 1 crash, fairness |
| `CalibWrites` | one verdict, clean rollbacks, complete reports, the abstract life | 2 threads, 2 forecasts, 2 resolutions each, commit and manifest errors, 1 crash |
| `CalibRetry` | is a retry locked twice, or absorbed too late? | 2 threads, 3 forecasts, window 1, time up to 4, one step back of the wall clock, 1 crash |
| `GateFaults` | does an acknowledged grade bind every later score? | failing commits and manifest lines, retry, crash, clock set back |
| `GateRegrade` | may a ranking rest on an old rating, or on two moments? | 2 graders, 2 analysts, 2 grades, 2 ratings, 2 hypotheses, a clock that may stand still between two stamps |
| `EgressCalls` | is every connection announced and guarded, every answer audited, every call finite? | 2 threads, 2 calls, 3 URLs (plain, with an identifier, malformed), 1 redirect, 3 environments, failing commit, manifest line and artifact file, 1 crash, fairness |
| `PagedReads` | does a listing return each row once, and end? | 4 inserts, pages of 1 and 2 (asked for as 0 to 3), 1 crash, fairness |
| `CalibrationReport` | can the hindsight flag be avoided? do the buckets and the score add up? | 1 forecast, 2 resolutions, time up to 5, every horizon and asserted time; 4 scored pairs of 6 probabilities |

Properties, by run:

- `StoreLedger`: `WritesAreSerial`, `RowsChained`, `ManifestChained`,
  `AttestsCommittedRows` (the manifest never runs ahead), `IntactBetweenWrites` (only a
  lost attestation can make a server refuse its healthy store), `VerdictIsTrue` (a
  writer's verify answers the truth of that instant), and `StoreInv`, the invariant of the
  proofs.
- `StoreMatrix`: `ImplementsAttestedLog`, the refinement of `AttestedLog`. It needs the
  boot gate: with it removed, a transaction starts on rows that are not anchored; and it
  needs the attestations to follow the commit.
- `StoreLive`: `LostStaysVisible` (counts continue from the cached value, so a missing line
  is never papered over), `WriteLockIsReleased`, `BootDecides`, and `VerdictIsTrue` where
  lines fail and an fsync error has forked the manifest: such a store is refused, even if
  every head agrees (the mutant `checkHeads`).
- `CalibWrites`: `OneVerdict`, `RowsAreCommitted`, `ReportIsComplete`,
  `ImplementsForecastLife`, and `TrackerInv` and `LifeInv`, the invariants of the proofs.
- `CalibRetry`: `NoDuplicate` (even when the clock is set back), `AbsorbsInWindowOnly`
  (as long as it was not).
- `GateFaults`: `AcknowledgedGradesBind`, and `CollectInv`, the invariant of the proofs.
- `GateRegrade`: `SignalsFollowGrades`, `ReRatedAfterRegrade` (counting from the stamp of
  a rating, not from the start of its call, and as far as two stamps can tell: `Tied`),
  `NotBornStale` (why mark_stale comes before mark_graded, and why the comparison is
  strict: with `>=` a rating stamped at the instant of its own grade's mark is born stale),
  `RanksOneMoment`.
- `EgressCalls`: `AttemptPrecedesConnection` (the row "attempt (live)" is committed and
  attested before a socket opens, whatever the audit does), `OnlyGuardedConnections` (only
  allowed addresses, on every hop and however DNS changes; no fetch of a URL with an
  identifier, in whatever environment the server was started), `EndsAsRecorded` (a call
  that ended with an answer or a named error left exactly the rows of that end, attested,
  and an "ok" row has its artifact), `UnconfirmedFollowsOk` (an unconfirmed fetch rests on
  a fetch of this process that ended with its "ok" row), `ProposalsAreTrue` (evidence names
  the bytes the artifact has, once per call even when the answer is lost), `CallsEnd`, and
  `EgressInv`, the invariant of the proofs.
- `PagedReads`: `ListingComplete` (what was committed when the listing began and fits the
  filter is returned; nothing twice, nothing out of order), `ListingEnds`, and
  `ListingInv`, the invariant of the proofs.
- `CalibrationReport`: `UnflaggedOnlyAfterWaiting` (no horizon and no asserted time avoids
  the flag without a wait by the server's clock, less the tolerance; a clock that is set
  forward passes for one), `EarlyGradeStaysVisible` (a correction takes the flag of
  an early grade away, but is then counted itself), `ReportAddsUp` (each pair in one
  bucket, and Brier = reliability - resolution + uncertainty where it must be), and
  `ReportInv`, the invariant of the proofs.

Each property has at least one mutant: a definition of the module changed as a plausible
bug would change it (a lock not taken, a swapped order, a stale count), under which the
same run finds it violated. The mutants stand next to what they change.

### Disagreements between the code and what it says of itself

| Run | Says | Does |
|---|---|---|
| `StoreHandover` | `staleness.py:33`: the store "must be correct independent of external discipline" | the ledger's server caches the signal manifest before it holds the process lock; a hand-over forks the manifest chain |
| `GateCrash` | `evidence_ledger/server.py:148`: the engine refuses evidence whose latest grade is not analyst_confirmed | a crash between a grade and its signals leaves the engine with the previous grade, and nothing reconciles them |

The models show more effects that no run is kept for; to see one, check the formula given.

- A crash between a commit and its manifest line is never repaired: every later start
  refuses the untampered store, although `common.py:63-64` says that an un-attested row
  "self-resolves within one append" (`phase[p] # "refused"` in `StoreLedger`).
- `EgressAudit.record` does not roll back, so after a failed commit the next record commits
  two rows with one line, whose count is one short of the row it names (`AttestsCommittedRows` with
  `RollsBack = FALSE`, `LockPolicy = "never"`); the log is refused at the next start.
- The report reads an uncommitted resolution on the shared connection; if that commit fails
  and the forecast is then voided, it is scored and counted as voided
  (`Scored(w) \cap report[w].voided = {}` in `CalibWrites`).
- An fsync error after the line was written forks the manifest chain at the next append
  (`StoreHandover` with `Faults = {"fsync"}`).
- A rating stamped at the instant at which a regrade was marked counts as fresh, whichever
  came first (`score[w].cells[p].seen >= score[w].bound[p[1]]` in place of `RatedSince(w, p)`
  in `GateRegrade`).
- A rating begun before a regrade and stamped after it counts as fresh; after the clock is
  set back an old rating does, and `log_forecast` absorbs forecasts of any later moment.
- A record read while a correction commits shows the old outcome with the new count.
- A listing can return a row that is then rolled back, as its last one.
- A live fetch whose artifact cannot be written, or that is redirected to a URL that
  `urlsplit` refuses with ValueError, leaves the row of its attempt and none of an outcome.
- A proposal whose answer is lost is in the ledger, and a client that repeats the call adds
  it again; the tool itself never repeats it.

### Bounds, and why they are enough

Two processes are the least for which the file lock matters, a third thread the least
for two writers beside a verify. Two rows per table (three where a transaction has three)
suffice to fork a chain and to continue after a loss. Two crashes allow a crash, a
recovery and another crash. Two forecasts let a report skip one; three forecasts and time
up to 4 with a window of 1 cover both sides of its end and a retry after the clock was set
back. Two grades are a grade and a regrade; two ratings a re-rating, or full coverage of
two hypotheses. One evidence item keeps the gate's runs small: a score reads each
item separately, and what several items add is in the plan. Symmetry is used in
`GateRegrade` only (threads of a kind are alike, and its properties are invariants).
Two calls of the toolkit are a fetch and what rests on it: an unconfirmed fetch, a
proposal, or a second thread in the audit; one redirect and a limit of one reach both a
followed and a refused hop. Four inserts give a full page, a page after it, a rollback and
its seq again. In the report time is coarse: a day is 3, a certifying horizon 2, the
tolerance 1, so each limit can be missed, met and passed; probabilities are the ends and
neighbours of the first and the last bucket.

What a bound stops is only the start of work (`Begin`, `Grade`, `Rate`, `AddHypothesis`) or a
fault, never a step of a call in flight. `CalibWrites` has no clock ticks, `GateRegrade`
no faults, `GateFaults` one grader and one analyst: each run keeps the dimensions its
question needs. Between two stamps of `GateRegrade` the clock moves by 0 or 1: only the
order and the equality of stamps matter. `GateFaults`, whose clock may be set back, lets it
move by 1; its properties do not compare stamps beyond what `CollectInv` says of them.

## 4. Fairness

Three runs check liveness. In `StoreLive` a thread inside a lock block is weakly fair
(`Proceeds`): the operating system runs it on, and each of its steps succeeds or raises;
SQLite's statements and the manifest's file calls have time-outs or return. A booting
process verifies (`BootVerifies`): `main()` calls `verify_stable` before it serves. In
`EgressCalls` a thread inside a call is weakly fair (`Continue`): sockets have a time-out of
15 s (`egress.py:140,150`), the resolver and the ledger's client return or raise. In
`PagedReads` the client of a listing goes on reading it; inserts, and hence the rows that
can prolong a listing, are bounded. No fairness is given to new calls, to starts, to
faults or to crashes. Nothing says that a thread waiting for a lock gets it while others
keep taking it: `threading.Lock` is not fair, and the code promises no such thing; with two
threads and a bound on calls it does.

## 5. Proofs

Every safety invariant and every action property that a passing run checks is proved, and
so are both refinements; only the four liveness properties are not, and of those the
progress measure is proved (below). Each theorem holds for every value of the constants that the module's
one ASSUME admits: any number of processes, threads, rows, forecasts, crashes and faults.
Those assumptions say what shape the constants have and that the sets of addresses, URLs
and bodies are not empty; TLC evaluates them. No theorem assumes a bound of a run. One
assumption is about the arithmetic: `CalibrationReport` counts in units of 1/`Unit`, and
`Unit` is a multiple of every size a report can have, so that a bucket's observed frequency
is exact (the code has floats, whose rounding is not modelled); for each `MaxPairs` there is
such a `Unit`, e.g. its factorial.

### The store's rows: `AttestedStore_proofs`

For all three lock policies, with and without rollback, with and without I/O errors:

- `IInvHolds`: `Spec => []IInv`
- `TypeCorrect`: `Spec => []TypeOK`
- `RowsNeverFork`: `Spec => []RowsChained`
- `OneWriteAtATime`: `Spec => []WritesAreSerial`

Beside `StoreAssumption` it takes `SoleWriterAssumption`: a store that takes no file lock
has one writing process. The code relies on it for the engine and the audit, and it cannot
be dropped: two unlocked writers fork a chain at once (the mutant `LocksNever`).

`RowsChained` alone is not inductive: an `Insert` chains onto the head the worker read
earlier, so one must know that nobody appended since. `IInv` adds

- `LockInv`: being inside a lock block is holding the lock; an open writer that locks
  holds the file lock; hence (`OneWriter`) one writer overall;
- `SectionInv`: what a call has collected at each point (which row is next, which
  attestations are owed);
- `TxnInv`: no open transaction means `view = db`, a transaction belongs to a serving
  writer, and the head a worker has read is still the head when it inserts;
- `LastInv`: if a table has lines, one is the last, so that `AttCount` is well defined;
- `TriesInv`: a verify has at most as many attempts left as its caller gave it.

The proof goes layer by layer -- types (`TypeStep`), locks (`LockStep`), rows (`RowsStep`)
-- each with one lemma per group of actions, one step per action.

### The store's manifest: `AttestedManifest_proofs`

What can be said of the manifest depends on the deployment, so the theorems have
hypotheses, the weakest the proofs go through with:

- `Careful`: the file lock is taken before the manifest is read, or never (one process
  writes), and fsync does not fail;
- `RollsBack`: a failing write rolls its transaction back;
- `Reliable`: both, and no manifest I/O error at all. Crashes, hand-overs and exceptions
  before the commit remain.

| Theorem | States | For |
|---|---|---|
| `LossIsNeverHealed` | `[]LostStaysVisible` | every store |
| `ManifestNeverForks` | `[]ManifestChained` | `Careful` |
| `VerdictHolds` | `VerdictIsTrue` | `RollsBack` |
| `FilesAgree` | `[]IntactBetweenWrites` | `Careful`, `RollsBack` |
| `ManifestFollowsRows` | `[]AttestsCommittedRows` | `Reliable` |
| `StoreIsAnAttestedLog` | `ImplementsAttestedLog` | `Reliable` |
| `StoreInvHolds` | `[]StoreInv`, i.e. `IInv` and `ManifestInv` | every store: its parts carry the hypotheses |

The ledger, the tracker and the engine meet the hypotheses while their disk does not fail
them. The signal store does not meet `Careful` (the ledger's server reads its manifest
before it holds the lock), the audit does not meet `RollsBack`. The hypotheses are not there for
convenience: without `Careful`, TLC breaks `ManifestChained` (the run `StoreHandover`, or
its cfg with the lock "before" and `Faults = {"fsync"}`), `IntactBetweenWrites` and
`AttestsCommittedRows`; without `RollsBack` (`StoreMatrix` with `RollsBack = FALSE`) it
breaks `VerdictIsTrue`, `IntactBetweenWrites` and `AttestsCommittedRows`; with failing writes
(`Faults = {"write"}`) it breaks `AttestsCommittedRows` and the refinement. No run shows
that the refinement needs `Careful`.

`ManifestInv`, in the order in which its parts are proved:

- `GrowthInv`: a hash is as long as the chain it closes, so it tells the number of its row,
  and the open transaction extends the committed rows;
- `OwedInv`: each entry a thread still owes names a row it inserted, in their order;
- `FileInv`: unless the manifest has forked (a fork stays), a cache is never ahead of the
  file and one that knows its tail knows its counts (`CacheInv`), and the attested count of
  a table is below every entry that is still to come (`CountInv`). `LossInv` is why a loss
  is never healed: some table has an attested count that stays more than one below
  whatever will be attested next, so that no line can catch up;
- `TailInv`, under `Careful`: an open writer knows the tail of the file, so it cannot fork;
- `WalkInv`, under `RollsBack`: an open transaction belongs to a write in progress, a walk
  excludes it, so what a writer's walk has seen is what is committed until it concludes;
- `AccountInv`, under both: until something is lost, each committed row is attested, or a
  thread inside the lock owes its line;
- `ServiceInv`, under `Reliable`: the boot gate serves no store that has lost anything, so
  each line that is written comes after all the lines before it.

The refinement then is one lemma per action that touches the two files: a commit is the
log's commit on anchored tables, a line raises an anchor to a committed row, a lost line
and everything else is a stutter.

Two action theorems hold of every store, whatever it locks and whatever fails:

- `NothingIsRewritten`: `Spec => [][FilesGrow]_vars`, committed rows and manifest lines are
  only added to;
- `BlocksRunDown`: `Spec => []HoldersWork /\ [][CallsRunDown]_vars`, what `StoreLive`'s
  liveness rests on. A held write lock is held by a thread inside a block that has steps
  left (`SectionLeft`); each of its steps uses up an attempt of its verify, or a step of the
  attempt or write (`Nearer`); no step of another thread gives it more, save the crash
  that ends it; and a start whose verify ends is decided.

### The tracker: `CalibrationTracker_proofs` and `CalibrationLife_proofs`

- `TrackerInvHolds`: `Spec => []TrackerInv`
- `TypeCorrect`: `Spec => []TypeOK`
- `OneVerdictHolds`: `Spec => []OneVerdict`
- `NeverLockedTwice`: `Spec => []NoDuplicate`
- `RollbackIsLocal`: `Spec => []RowsAreCommitted`
- `LifeInvHolds`: `Spec => []LifeInv`
- `ReportsMissNothing`: `Spec => []ReportIsComplete`
- `AbsorbedInWindow`: `Spec => AbsorbsInWindowOnly`
- `TrackerIsForecastLife`: `Spec => ImplementsForecastLife`

The invariants about verdicts and duplicates are not inductive, for the INSERT does not
look again at what was checked before it. `TrackerInv` adds

- `LockInv`: whoever is between the checks and the manifest line holds the lock, so nobody
  else is there (`Alone`);
- `Decided`: what a call has checked still holds when it inserts, since only the lock's
  holder changes the rows;
- `Verdicts` and `Spaced` of the rows the connection sees as well as of the committed
  ones, which a commit or a rollback makes equal;
- `HasLast`: the duplicate query, which takes the last row, has an answer;
- `Stamped`: the wall clock gains nothing on real time (it ticks with it or falls back), so
  a forecast is at least as old as its stamp says. What looks older than the window
  therefore IS older, which is why setting the clock back can make `log_forecast` absorb
  too much but never lock twice. A clock set forward is not modelled; it would break this.

The layers are types (`TypeStep`), the lock (`LockStep`) and the rows (`RowsStep`); an
INSERT has one lemma per kind of row (`LogSound`, `ResolveSound`, `VoidSound`).

`LifeInv` rests on `TrackerInv` and has three parts, each with its step lemma:

- `OneRow`: before a commit the connection sees exactly one row that is not committed, a
  new forecast or a verdict on an open or resolved one. The commit makes that row a step of
  `ForecastLife` (`RowLives`), and nothing else changes `disk` (`DiskChanges`);
- `Synced`: until the wall clock is first set back, stamps are the real time, so what looks
  young enough to be absorbed is;
- `ReportsInv`: each forecast a report owes is scored, or is in the list it has still to look
  at. A forecast stays resolved, so the look finds it, whatever is rolled back meanwhile.

### The gate: `CollectThenGrade_proofs`

- `CollectInvHolds`: `Spec => []CollectInv`
- `SignalsAreInOrder`: `Spec => []SignalsFollowGrades`
- `AcknowledgedBind`: `Spec => []AcknowledgedGradesBind`
- `RankedTogether`: `Spec => []RanksOneMoment`
- `ReRated`: `Spec => [](steps = 0 => ReRatedAfterRegrade)`
- `BornFresh`: `Spec => [](steps = 0 => NotBornStale)`
- `RecordsOnlyGrow`: `Spec => [][RecordsGrow]_vars`
- `LatestBindsUntilLost`: `Spec => [](Faults = {} /\ crashes = 0 => LatestGradeBinds)`

`ReRated` and `BornFresh` compare time stamps of two processes and hold as long as the wall clock was
not set back (`steps = 0`); the runs that check the bare properties have no such step, and
with one TLC breaks them. `CollectInv` follows a grade on its way to a ranking:

- `LedgerInv`: the one grader inside the lock works on its item's last grade and writes
  stale event and signal in this order; hence signals are in the order of the grades, and a
  grade that was answered has both (a crash in between leaves it unanswered);
- `StampInv`, `Timely`, `Born`: no stamp is ahead of the clock; what a rating's stamp is
  above, the rating has seen; and the grade a confirmed rating rests on was marked stale not
  after the rating was stamped, unless the signal store has lost a line (`Refused`), and
  then no score passes its verify;
- `RateInv`, `ScoreInv`: what a call has established so far. A score is done with a cell when
  it has found a confirmed grade at least as late as any that was answered before it began
  (`Bound`), and its list of hypotheses is that of the moment of its cells.

`RecordsOnlyGrow` says that grades, stale events and signals are only added to, and that an
answer is given for an item's last grade only, with both signals in place, so what was
answered for an item never goes back. `LatestBindsUntilLost` is the other side of the
disagreement that `GateCrash` shows: where no write fails and the ledger has not crashed,
every item's last grade is answered or its call is still at work (`Answered`, `SettledInv`),
so the promise of `evidence_ledger/server.py:148` holds through every interleaving of
gradings, ratings and scores, and only a lost signal breaks it.

### The toolkit: `EgressCalls_proofs`

- `EgressInvHolds`: `Spec => []EgressInv`
- `TypeCorrect`: `Spec => []TypeOK`
- `AttemptsComeFirst`: `Spec => []AttemptPrecedesConnection`
- `ConnectionsAreGuarded`: `Spec => []OnlyGuardedConnections`
- `ProvenanceIsRecorded`: `Spec => []UnconfirmedFollowsOk`
- `AnswersAreRecorded`: `Spec => []EndsAsRecorded`
- `ProposalsStayTrue`: `Spec => []ProposalsAreTrue`
- `NothingIsRewritten`: `Spec => [][History]_vars`
- `CallsRunDown`: what `CallsEnd` rests on: `StepsLeft` is at most `3 * MaxRedirects + 13`
  and 0 exactly when it is over, no call runs without its worker (`NoOrphans`), the audit's lock
  is held by a worker in the middle of a row (`LockInv`), and `[][RunsDown]_vars`, each step
  of a call lowers its measure and nothing else raises it

`EgressInv` says where each call stands: `RunInv`, the three facts behind `CallsRunDown`
(the third: no call has followed more redirects than allowed); `OwnInv`, a worker is alone in its call, and holds
the audit's lock inside a transaction; `AuditInv`, the rows of a running call are those of
the steps it has taken (`SoFar`), each attested save the one being written, and an open
transaction holds, besides the row about to be committed, only rows of calls that already
ended in a masked error -- which is why a commit that takes them along adds nothing to a
call that has ended otherwise; `GateInv`, what the gates have established for a worker on
its way to a connection, and that whatever is in `session` was fetched to an attested row;
`LedgerInv`, a proposal carries its artifact's bytes and is in the ledger once added. An
outcome is given only after its row, so every ended call is in order for good.
`NothingIsRewritten` is used throughout: it keeps facts about the past true.

### Listings and the report: `PagedReads_proofs`, `CalibrationReport_proofs`

- `ListingInvHolds`: `Spec => []ListingInv`
- `ListingsAreComplete`: `Spec => []ListingComplete`
- `AnswersMoveTheCursor`: `Spec => [][CursorAdvances]_vars`
- `BucketsPartition`: every probability is in exactly one of ten buckets
- `ReportAlwaysAddsUp`: `Spec => []ReportAddsUp`
- `ReportInvHolds`: `Spec => []ReportInv`
- `FlagNeedsWaiting`: `Spec => []UnflaggedOnlyAfterWaiting`
- `EarlyGradesVisible`: `Spec => []EarlyGradeStaysVisible`

The danger in a listing is the reuse of a seq: the rollback of an insert takes
AUTOINCREMENT's counter back too, so a cursor that stands on a row in progress would skip
the next insert. `ListingInv` says why it never does: writers are alone, so only the last
row can be uncommitted (`Grown`), and a cursor is given only if there was a further row,
hence not on the last one (`InCall`, `Received`). What was received reaches up to the cursor;
what is owed above it is in the page, or after the page and then there is a cursor.
`NotEmpty` adds that a page which promises a further one has rows or has moved the cursor.
Hence each answer ends the listing or moves its cursor up, to a committed row
(`AnswersMoveTheCursor`); rows being bounded, that is why a listing ends.

`ReportAlwaysAddsUp` holds for any number of pairs, any probabilities and any width of the
buckets: each pair is counted in one bucket, and Brier = reliability - resolution +
uncertainty where the forecasts of a bucket agree. The report's sums are recursive
functions (`SumTo`), and the library's induction takes a predicate as a parameter, which
the provers cannot instantiate; `NatInd` therefore is induction for a SET of numbers, from
the least element of its complement (`WFMin`), and each fact about sums (`SumToAdd`,
`SumToScale`, `SumToExchange`, `SumToCount`) is a set in it. The argument is the textbook
one: the sum over all pairs is exchanged with the sum over buckets (`SumToExchange`), each
bucket's part is expanded (`Bucketwise`, `BucketTerms`; empty buckets, which the code skips,
add nothing), and the parts are put together (`Decomposition`).

An unflagged forecast has a long gap between its lock and its asserted resolution, or a
certifying horizon not after it (`Waited`); either bounds the asserted time from below, and
`ReportInv` bounds it by the clock of the call from above. If the first resolution was too
early and there is no flag, the latest one is another, and all but the first are
corrections.

### Only model-checked

- Liveness (`WriteLockIsReleased`, `BootDecides`, `CallsEnd`, `ListingEnds`): fairness and
  ENABLED are out of the prover's reach. What is proved is that every step of a call, a
  block or a listing lowers a measure that nobody else raises (`CallsRunDown`,
  `BlocksRunDown`, `AnswersMoveTheCursor`); what is left to TLC is that a call in the middle
  always has a step it can take, and that fairness makes it take it.
- The two disagreements of section 3, which are counterexamples.

## 6. Not modelled, and why

- A line of the manifest is written whole or not at all; a torn line is not modelled
  (reading one raises in `Manifest`'s constructor).
- Tampering: the models are of the code among its own processes.
- In-memory stores (tests only), manifests from before counts were recorded.
- Arguments that validation rejects change nothing and are left out.
- The audit without rollback is no instance of `AttestedStore` in a run (`RollsBack` is
  FALSE in none; the proofs cover both); `EgressCalls` models it with its own rows.
- In `EgressCalls`: what makes an address internal or a text carry an identifier (the
  environment chooses), allowed hosts of connectors (no caller passes any), the
  comparison of two hops' hosts, EXIF and hashes of artifacts, two processes on one audit.
- In `CollectThenGrade`: crashes of the engine (it keeps nothing between calls), the
  engine's own manifest, the time stamp of mark_graded (nothing compares it), what a grade
  says besides its judgment_source.
- Two engine processes that write one database: the design declares one writer.
- `get_source_history`, `get_matrix` and the order of the ranking (planned below); the
  rounding of floats.
- EXIF parsing, URL parsing, response models, scripts, CI, documents: stateless.

## 7. Plan

Done: the store and its abstract log; the tracker and the life of a forecast; the gate
between ledger and engine; the OSINT toolkit; listings and the report; proofs of the
safety properties of all of them, of both refinements, and of the measures behind the
liveness properties. Next, in this order:

1. Scoring with several items (what one can say of the moments at which they were read),
   the order of the ranking as a function checked against a reference definition, and
   `get_matrix` and `get_source_history` as reads of several statements.
2. Proofs about what that adds. What is left of the properties that exist is out of the
   prover's reach (end of section 5).

The project keeps few runs: a new component takes one passing run, and an existing
disagreement gives way to it, its effect kept in the list above.
