------------------------- MODULE CalibrationTracker -------------------------
(***************************************************************************)
(* The calibration tracker: forecasts that are logged, resolved, corrected *)
(* or voided, and read while others write them.                            *)
(*                                                                         *)
(* One process serves the database (its file lock keeps others out), on    *)
(* several threads that share ONE SQLite connection.  Every write holds    *)
(* _write_lock from its checks to its manifest line; every read runs       *)
(* without it, one SELECT after the other, and sees the uncommitted row of *)
(* a write in progress.                                                    *)
(*                                                                         *)
(* Row chains and the manifest's content are AttestedStore's; here an      *)
(* append only matters as a step that can fail after the commit.  Texts    *)
(* and probabilities are one value, the content of a forecast; arguments   *)
(* that validation rejects change nothing and are left out.                *)
(***************************************************************************)
EXTENDS Integers, Sequences, FiniteSets

CONSTANTS
    Worker,          \* threads that run tool calls
    NoWorker,        \* "nobody holds the write lock"
    Content,         \* what a forecast can say (every field of the dedup key)
    Window,          \* IDEMPOTENCY_WINDOW_S
    Ops,             \* the calls considered: "log", "resolve", "void", "get", "report"
    Faults,          \* the errors considered: "commit", "attest"
    MaxForecasts,    \* bound: forecasts
    MaxResolutions,  \* bound: resolutions of one forecast
    MaxTime,         \* bound: the real clock
    MaxCrashes,      \* bound: crashes of the process
    MaxSteps         \* bound: times the wall clock is set back

ASSUME TrackerAssumption ==
    /\ NoWorker \notin Worker
    /\ Window \in Nat /\ MaxTime \in Nat
    /\ Ops \subseteq {"log", "resolve", "void", "get", "report"}
    /\ Faults \subseteq {"commit", "attest"}
    /\ MaxForecasts \in Nat /\ MaxResolutions \in Nat
    /\ MaxCrashes \in Nat /\ MaxSteps \in Nat

Resolution == [outcome : BOOLEAN, is_correction : BOOLEAN]

\* A row of forecasts with the rows of resolutions and voids about it; `made` is
\* the real time of `created_ts`, which is the wall clock's.
Forecast == [content : Content, created_ts : Nat, made : Nat,
             resolutions : Seq(Resolution), voids : Nat]

\* A tool call.  `now` is log_forecast's reading of the clock, at the real time
\* `made`; `forecast` is the one it answers with.
Call ==
    [op : {"log"}, content : Content, forecast : Nat, now : Nat, made : Nat]
    \cup [op : {"resolve"}, forecast : Nat, outcome : BOOLEAN,
          is_correction : BOOLEAN]
    \cup [op : {"void", "get"}, forecast : Nat]
    \cup [op : {"none", "report"}]

NoCall == [op |-> "none"]

VARIABLES
    disk,    \* committed forecasts, in the order of their rows
    rows,    \* forecasts as the shared connection sees them
    lock,    \* the worker that holds _write_lock
    pc,      \* where each worker is
    call,    \* the call each worker runs
    record,  \* the ForecastRecord it is reading: its latest resolution (an
             \* index, 0 if none), its correction count and its void
    report,  \* the report it is computing
    real, wall, crashes, steps

clocks == <<real, wall, steps>>
reading == <<record, report>>
vars == <<disk, rows, lock, pc, call, record, report, crashes, clocks>>

Record == [resolution : Nat, correction_count : Nat, voided : BOOLEAN]
Tally == [resolved : SUBSET Nat, todo : SUBSET Nat, pairs : SUBSET (Nat \X Nat),
          corrected : SUBSET Nat, voided : SUBSET Nat]
NoRecord == [resolution |-> 0, correction_count |-> 0, voided |-> FALSE]
NoReport == [resolved |-> {}, todo |-> {}, pairs |-> {}, corrected |-> {}, voided |-> {}]

InLock == {"decide", "insert", "commit", "attest"}
Reading == {"row", "corrections", "voided"}
Reporting == {"rows", "next", "corrected"}

TypeOK ==
    /\ disk \in Seq(Forecast) /\ rows \in Seq(Forecast)
    /\ lock \in Worker \cup {NoWorker}
    /\ pc \in [Worker -> {"idle", "return"} \cup InLock \cup Reading \cup Reporting]
    /\ call \in [Worker -> Call]
    /\ record \in [Worker -> Record] /\ report \in [Worker -> Tally]
    /\ real \in Nat /\ wall \in Nat /\ crashes \in Nat /\ steps \in Nat

Init ==
    /\ disk = << >> /\ rows = << >> /\ lock = NoWorker
    /\ pc = [w \in Worker |-> "idle"] /\ call = [w \in Worker |-> NoCall]
    /\ record = [w \in Worker |-> NoRecord]
    /\ report = [w \in Worker |-> NoReport]
    /\ real = 0 /\ wall = 0 /\ crashes = 0 /\ steps = 0

-----------------------------------------------------------------------------
(* What the queries find.                                                   *)

\* _latest_resolution: the index of the last one, 0 if there is none.
LatestResolution(f) == Len(rows[f].resolutions)
CorrectionCount(f) ==
    Cardinality({i \in DOMAIN rows[f].resolutions : rows[f].resolutions[i].is_correction})
IsVoided(f) == rows[f].voids > 0
Voided == {f \in DOMAIN rows : IsVoided(f)}

\* The dedup query: the last forecast with this content.
Existing(c) == {f \in DOMAIN rows : rows[f].content = c}
LastExisting(c) == CHOOSE f \in Existing(c) : \A g \in Existing(c) : g <= f

\* Mutant of IsDuplicate: no window.
IsDuplicateForEver(c) == Existing(c) # {}
\* Mutant of IsDuplicate: the window excludes its end.
IsDuplicateStrict(c) ==
    Existing(c) # {} /\ wall - rows[LastExisting(c)].created_ts < Window
IsDuplicate(c) ==
    Existing(c) # {} /\ wall - rows[LastExisting(c)].created_ts <= Window

\* Mutant of MayResolve: no look at the voids.
MayResolveVoided(f, is_correction) ==
    /\ f \in DOMAIN rows
    /\ is_correction <=> rows[f].resolutions # << >>

\* Mutant of MayVoid: no look at the earlier voids.
MayVoidTwice(f) == f \in DOMAIN rows /\ rows[f].resolutions = << >>

\* The checks of resolve_forecast and void_forecast.
MayResolve(f, is_correction) ==
    /\ f \in DOMAIN rows /\ ~IsVoided(f)
    /\ is_correction <=> rows[f].resolutions # << >>
MayVoid(f) == f \in DOMAIN rows /\ ~IsVoided(f) /\ rows[f].resolutions = << >>

-----------------------------------------------------------------------------
(* Writing.                                                                 *)

Fits(c) ==
    CASE c.op = "log" -> Len(rows) < MaxForecasts
      [] c.op = "resolve" ->
             c.forecast \in DOMAIN rows
             /\ Len(rows[c.forecast].resolutions) < MaxResolutions
      [] c.op = "void" -> c.forecast \in DOMAIN rows

\* Mutant of Acquire: no lock.
AcquireAlways(w) == lock' = w
Acquire(w) == lock = NoWorker /\ lock' = w

\* A write call takes the lock.
Begin(w, c) ==
    /\ pc[w] = "idle" /\ c.op \in Ops /\ Fits(c)
    /\ Acquire(w)
    /\ pc' = [pc EXCEPT ![w] = "decide"] /\ call' = [call EXCEPT ![w] = c]
    /\ UNCHANGED <<disk, rows, reading, crashes, clocks>>

Calls ==
    [op : {"log"}, content : Content, forecast : {0}, now : {0}, made : {0}]
    \cup [op : {"resolve"}, forecast : DOMAIN rows, outcome : BOOLEAN,
          is_correction : BOOLEAN]
    \cup [op : {"void"}, forecast : DOMAIN rows]

\* The call is over for w: it raises, or has answered.
Finish(w) ==
    /\ pc' = [pc EXCEPT ![w] = "idle"]
    /\ call' = [call EXCEPT ![w] = NoCall]
    /\ record' = [record EXCEPT ![w] = NoRecord]
    /\ report' = [report EXCEPT ![w] = NoReport]

Allowed(c) ==
    \/ c.op = "log" /\ ~IsDuplicate(c.content)
    \/ c.op = "resolve" /\ MayResolve(c.forecast, c.is_correction)
    \/ c.op = "void" /\ MayVoid(c.forecast)

\* The checks under the lock pass.
Decide(w) ==
    /\ pc[w] = "decide" /\ Allowed(call[w])
    /\ pc' = [pc EXCEPT ![w] = "insert"]
    /\ call' = IF call[w].op = "log"
               THEN [call EXCEPT ![w].now = wall, ![w].made = real] ELSE call
    /\ UNCHANGED <<disk, rows, lock, reading, crashes, clocks>>

\* They do not: the call raises.
Refuse(w) ==
    /\ pc[w] = "decide" /\ call[w].op # "log" /\ ~Allowed(call[w])
    /\ lock' = NoWorker
    /\ Finish(w)
    /\ UNCHANGED <<disk, rows, crashes, clocks>>

\* A retry of log_forecast: it answers with the forecast it finds, read under
\* the lock.
Absorb(w) ==
    /\ pc[w] = "decide" /\ call[w].op = "log" /\ IsDuplicate(call[w].content)
    /\ call' = [call EXCEPT ![w].forecast = LastExisting(call[w].content)]
    /\ pc' = [pc EXCEPT ![w] = "row"]
    /\ UNCHANGED <<disk, rows, lock, reading, crashes, clocks>>

\* The rows with the one the call inserts.
Inserted(c) ==
    CASE c.op = "log" ->
           Append(rows, [content |-> c.content, created_ts |-> c.now, made |-> c.made,
                         resolutions |-> << >>, voids |-> 0])
      [] c.op = "resolve" ->
           [rows EXCEPT ![c.forecast].resolutions =
               Append(@, [outcome |-> c.outcome, is_correction |-> c.is_correction])]
      [] c.op = "void" -> [rows EXCEPT ![c.forecast].voids = @ + 1]

Insert(w) ==
    /\ pc[w] = "insert"
    /\ rows' = Inserted(call[w])
    /\ call' = IF call[w].op = "log"
               THEN [call EXCEPT ![w].forecast = Len(rows) + 1] ELSE call
    /\ pc' = [pc EXCEPT ![w] = "commit"]
    /\ UNCHANGED <<disk, lock, reading, crashes, clocks>>

Commit(w) ==
    /\ pc[w] = "commit"
    /\ disk' = rows
    /\ pc' = [pc EXCEPT ![w] = "attest"]
    /\ UNCHANGED <<rows, lock, call, reading, crashes, clocks>>

\* Mutant of CommitFails: no rollback.
CommitFailsOpen(w) ==
    /\ pc[w] = "commit" /\ "commit" \in Faults
    /\ lock' = NoWorker
    /\ Finish(w)
    /\ UNCHANGED <<disk, rows, crashes, clocks>>

\* `except Exception: rollback; raise`.
CommitFails(w) ==
    /\ pc[w] = "commit" /\ "commit" \in Faults
    /\ rows' = disk
    /\ lock' = NoWorker
    /\ Finish(w)
    /\ UNCHANGED <<disk, crashes, clocks>>

\* Manifest.append; log_forecast answers inside its lock, the others after it.
Attest(w) ==
    /\ pc[w] = "attest"
    /\ lock' = IF call[w].op = "log" THEN lock ELSE NoWorker
    /\ pc' = [pc EXCEPT ![w] = "row"]
    /\ UNCHANGED <<disk, rows, call, reading, crashes, clocks>>

\* Manifest.append raises: the caller gets an error, the row stays.
AttestFails(w) ==
    /\ pc[w] = "attest" /\ "attest" \in Faults
    /\ lock' = NoWorker
    /\ Finish(w)
    /\ UNCHANGED <<disk, rows, crashes, clocks>>

-----------------------------------------------------------------------------
(* get_forecast: three SELECTs after the forecast's own row.                *)

Get(w, f) ==
    /\ pc[w] = "idle" /\ "get" \in Ops /\ f \in DOMAIN rows
    /\ pc' = [pc EXCEPT ![w] = "row"]
    /\ call' = [call EXCEPT ![w] = [op |-> "get", forecast |-> f]]
    /\ UNCHANGED <<disk, rows, lock, reading, crashes, clocks>>

\* _forecast_row and _latest_resolution.
ReadResolution(w) ==
    /\ pc[w] = "row" /\ call[w].forecast \in DOMAIN rows
    /\ record' = [record EXCEPT
                     ![w].resolution = LatestResolution(call[w].forecast)]
    /\ pc' = [pc EXCEPT ![w] = "corrections"]
    /\ UNCHANGED <<disk, rows, lock, call, report, crashes, clocks>>

ReadCorrections(w) ==
    /\ pc[w] = "corrections" /\ call[w].forecast \in DOMAIN rows
    /\ record' = [record EXCEPT
                     ![w].correction_count = CorrectionCount(call[w].forecast)]
    /\ pc' = [pc EXCEPT ![w] = "voided"]
    /\ UNCHANGED <<disk, rows, lock, call, report, crashes, clocks>>

\* The record is complete, and log_forecast's lock ends here.
ReadVoided(w) ==
    /\ pc[w] = "voided" /\ call[w].forecast \in DOMAIN rows
    /\ record' = [record EXCEPT ![w].voided = IsVoided(call[w].forecast)]
    /\ lock' = IF lock = w THEN NoWorker ELSE lock
    /\ pc' = [pc EXCEPT ![w] = "return"]
    /\ UNCHANGED <<disk, rows, call, report, crashes, clocks>>

\* A forecast read before its own commit failed is gone: unknown forecast_id.
Unknown(w) ==
    /\ pc[w] \in Reading /\ call[w].forecast \notin DOMAIN rows
    /\ lock' = IF lock = w THEN NoWorker ELSE lock
    /\ Finish(w)
    /\ UNCHANGED <<disk, rows, crashes, clocks>>

Return(w) ==
    /\ pc[w] = "return"
    /\ Finish(w)
    /\ UNCHANGED <<disk, rows, lock, crashes, clocks>>

-----------------------------------------------------------------------------
(* get_calibration_report: one SELECT for the forecasts, two for each of    *)
(* them, one for the voids.                                                 *)

Report(w) ==
    /\ pc[w] = "idle" /\ "report" \in Ops
    /\ pc' = [pc EXCEPT ![w] = "rows"]
    /\ call' = [call EXCEPT ![w] = [op |-> "report"]]
    /\ UNCHANGED <<disk, rows, lock, reading, crashes, clocks>>

\* `resolved` remembers what was committed when the report began.
ReportRows(w) ==
    /\ pc[w] = "rows"
    /\ report' = [report EXCEPT
            ![w].todo = DOMAIN rows \ Voided,
            ![w].resolved = {f \in DOMAIN disk : disk[f].resolutions # << >>}]
    /\ pc' = [pc EXCEPT ![w] = "next"]
    /\ UNCHANGED <<disk, rows, lock, call, record, crashes, clocks>>

\* Mutant of ReportNext: a forecast whose first resolution was corrected is left out.
ReportNextFirst(w) ==
    /\ pc[w] = "next"
    /\ \E f \in report[w].todo :
          /\ \A g \in report[w].todo : f <= g
          /\ LET n == IF f \in DOMAIN rows THEN LatestResolution(f) ELSE 0
             IN /\ report' = [report EXCEPT
                       ![w].todo = @ \ {f},
                       ![w].pairs = IF n = 1 THEN @ \cup {<<f, n>>} ELSE @]
                /\ pc' = [pc EXCEPT ![w] = IF n = 1 THEN "corrected" ELSE "next"]
    /\ UNCHANGED <<disk, rows, lock, call, record, crashes, clocks>>

\* The latest resolution of the next forecast, which is scored if it has one.
ReportNext(w) ==
    /\ pc[w] = "next"
    /\ \E f \in report[w].todo :
          /\ \A g \in report[w].todo : f <= g
          /\ LET n == IF f \in DOMAIN rows THEN LatestResolution(f) ELSE 0
             IN /\ report' = [report EXCEPT
                       ![w].todo = @ \ {f},
                       ![w].pairs = IF n > 0 THEN @ \cup {<<f, n>>} ELSE @]
                /\ pc' = [pc EXCEPT ![w] = IF n > 0 THEN "corrected" ELSE "next"]
    /\ UNCHANGED <<disk, rows, lock, call, record, crashes, clocks>>

Scored(w) == {pair[1] : pair \in report[w].pairs}

\* n_corrected, for the forecast just scored.
ReportCorrected(w) ==
    /\ pc[w] = "corrected"
    /\ LET f == CHOOSE f \in Scored(w) : \A g \in Scored(w) : g <= f
       IN report' = [report EXCEPT ![w].corrected =
                        IF f \in DOMAIN rows /\ CorrectionCount(f) > 0
                        THEN @ \cup {f} ELSE @]
    /\ pc' = [pc EXCEPT ![w] = "next"]
    /\ UNCHANGED <<disk, rows, lock, call, record, crashes, clocks>>

\* n_voided, the last query.
ReportVoided(w) ==
    /\ pc[w] = "next" /\ report[w].todo = {}
    /\ report' = [report EXCEPT ![w].voided = Voided]
    /\ pc' = [pc EXCEPT ![w] = "return"]
    /\ UNCHANGED <<disk, rows, lock, call, record, crashes, clocks>>

-----------------------------------------------------------------------------
(* The process and its clock.                                               *)

Crash ==
    /\ crashes < MaxCrashes
    /\ crashes' = crashes + 1
    /\ rows' = disk /\ lock' = NoWorker
    /\ pc' = [w \in Worker |-> "idle"] /\ call' = [w \in Worker |-> NoCall]
    /\ record' = [w \in Worker |-> NoRecord]
    /\ report' = [w \in Worker |-> NoReport]
    /\ UNCHANGED <<disk, clocks>>

Tick ==
    /\ real < MaxTime
    /\ real' = real + 1 /\ wall' = wall + 1
    /\ UNCHANGED <<disk, rows, lock, pc, call, reading, crashes, steps>>

\* The wall clock, which time.time() reads, is set back.  (Set forward, it would end
\* the window early; the model has no such step.)
SetBack ==
    /\ steps < MaxSteps /\ wall > 0
    /\ wall' = 0 /\ steps' = steps + 1
    /\ UNCHANGED <<disk, rows, lock, pc, call, reading, crashes, real>>

-----------------------------------------------------------------------------
WriteStep ==
    \E w \in Worker :
        \/ \E c \in Calls : Begin(w, c)
        \/ Decide(w) \/ Refuse(w) \/ Absorb(w) \/ Insert(w)
        \/ Commit(w) \/ CommitFails(w) \/ Attest(w) \/ AttestFails(w)

ReadStep ==
    \E w \in Worker :
        \/ \E f \in DOMAIN rows : Get(w, f)
        \/ ReadResolution(w) \/ ReadCorrections(w) \/ ReadVoided(w) \/ Unknown(w)
        \/ Report(w) \/ ReportRows(w) \/ ReportNext(w) \/ ReportCorrected(w)
        \/ ReportVoided(w) \/ Return(w)

Next == WriteStep \/ ReadStep \/ Crash \/ Tick \/ SetBack

Spec == Init /\ [][Next]_vars

-----------------------------------------------------------------------------
(* Safety.                                                                  *)

\* Two concurrent resolves, a resolve and a void, two voids: only one gets
\* through.  A forecast has one first resolution, corrections follow it, and it
\* is never both resolved and voided nor voided twice (the checks and the INSERT
\* are one critical section).
OneVerdict ==
    \A f \in DOMAIN disk :
        /\ \A i \in DOMAIN disk[f].resolutions :
              disk[f].resolutions[i].is_correction <=> i > 1
        /\ disk[f].voids <= 1
        /\ disk[f].voids = 0 \/ disk[f].resolutions = << >>

\* Retries and concurrent copies of a log_forecast never lock it twice: two
\* forecasts of the same content are more than the window apart, as long as the wall
\* clock is not set forward.
NoDuplicate ==
    \A f, g \in DOMAIN disk :
        f < g /\ disk[f].content = disk[g].content
        => disk[g].made - disk[f].made > Window

\* And no more is absorbed than that: as long as the wall clock was never set
\* back, log_forecast answers with an earlier forecast only within the window
\* (server.py's promise to the caller).
AbsorbsInWindowOnly ==
    [][\A w \in Worker :
          steps = 0 /\ pc[w] = "decide" /\ pc'[w] = "row"
          => real - rows[call'[w].forecast].made <= Window]_vars

\* A thread inside a transaction is alone in the lock, so a rollback takes back
\* its own row and nothing else.
RowsAreCommitted == (\A w \in Worker : pc[w] # "commit") => rows = disk

\* A report misses no forecast that was resolved when it began.
ReportIsComplete ==
    \A w \in Worker :
        pc[w] = "return" /\ call[w].op = "report"
        => report[w].resolved \subseteq Scored(w)

-----------------------------------------------------------------------------
(* The life of a forecast (ForecastLife).                                   *)

StatusOf(f) ==
    IF f.voids > 0 THEN "voided"
    ELSE IF f.resolutions = << >> THEN "open"
    ELSE IF f.resolutions[Len(f.resolutions)].outcome THEN "yes" ELSE "no"

Life == INSTANCE ForecastLife
    WITH status <- [f \in DOMAIN disk |-> StatusOf(disk[f])],
         said <- [f \in DOMAIN disk |-> disk[f].content]

\* Every commit is one step of one forecast's life.
ImplementsForecastLife == Life!Spec
=============================================================================
