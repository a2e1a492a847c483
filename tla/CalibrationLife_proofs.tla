----------------------- MODULE CalibrationLife_proofs -----------------------
(***************************************************************************)
(* Proofs about what the calibration tracker answers and promises: a commit*)
(* is one step of one forecast's life, a report misses nothing, and        *)
(* log_forecast absorbs no more than its window.                           *)
(***************************************************************************)
EXTENDS CalibrationTracker_proofs

-----------------------------------------------------------------------------
(* Who changes what.                                                        *)

\* The types the proofs below keep needing.
LEMMA Shapely ==
    ASSUME TrackerInv
    PROVE  /\ TypeOK /\ LockInv /\ RowsInv
           /\ rows \in Seq(Forecast) /\ disk \in Seq(Forecast)
           /\ pc \in [Worker -> {"idle", "return"} \cup InLock \cup Reading \cup Reporting]
           /\ call \in [Worker -> Call] /\ report \in [Worker -> Tally]
           /\ real \in Nat /\ wall \in Nat /\ steps \in Nat
BY DEF TrackerInv, TypeOK

\* Where a write leaves its worker.
LEMMA WriteMoves ==
    ASSUME TrackerInv, NEW w \in Worker,
           \/ \E c \in Calls : Begin(w, c)
           \/ Decide(w) \/ Refuse(w) \/ Absorb(w) \/ Insert(w)
           \/ Commit(w) \/ CommitFails(w) \/ Attest(w) \/ AttestFails(w)
    PROVE  /\ pc'[w] \in InLock \cup {"idle", "row"}
           /\ pc'[w] = "row" => call'[w].op # "report"
           /\ pc'[w] = "commit" => Insert(w)
           /\ pc'[w] = "insert" => Decide(w)
           /\ \A v \in Worker \ {w} : /\ pc'[v] = pc[v] /\ call'[v] = call[v]
                                      /\ report'[v] = report[v]
           /\ Insert(w) \/ CommitFails(w) \/ rows' = rows
           /\ Commit(w) \/ disk' = disk
           /\ UNCHANGED <<wall, real, steps>>
<1> USE Shapely DEF InLock, reading, clocks
<1>1. CASE \E c \in Calls : Begin(w, c)
  BY <1>1 DEF Begin
<1>2. CASE Decide(w)
  BY <1>2 DEF Decide
<1>3. CASE Refuse(w) \/ AttestFails(w)
  BY <1>3 DEF Refuse, AttestFails, Finish
<1>4. CASE Absorb(w)
  <2>1. call'[w] = [call[w] EXCEPT !.forecast = LastExisting(call[w].content)]
    BY <1>4 DEF Absorb
  <2>2. call'[w].op = "log"
    BY <1>4, <2>1 DEF Absorb, Call
  <2>. QED  BY <1>4, <2>2 DEF Absorb
<1>5. CASE Insert(w)
  BY <1>5 DEF Insert
<1>6. CASE Commit(w)
  BY <1>6 DEF Commit
<1>7. CASE CommitFails(w)
  BY <1>7 DEF CommitFails, Finish
<1>8. CASE Attest(w)
  <2>1. call[w].op \in {"log", "resolve", "void"}
    BY <1>8 DEF Attest, LockInv
  <2>. QED  BY <1>8, <2>1 DEF Attest
<1>. QED  BY <1>1, <1>2, <1>3, <1>4, <1>5, <1>6, <1>7, <1>8

-----------------------------------------------------------------------------
(* The row a call adds.                                                     *)

\* log_forecast's.
LEMMA LogRow ==
    ASSUME TrackerInv, NEW w \in Worker, Insert(w), call[w].op = "log"
    PROVE  /\ Len(rows') = Len(rows) + 1 /\ DOMAIN rows' = 1 .. Len(rows) + 1
           /\ DOMAIN rows = 1 .. Len(rows) /\ Len(rows) \in Nat
           /\ \A f \in DOMAIN rows : rows'[f] = rows[f]
           /\ rows'[Len(rows')].resolutions = << >>
           /\ rows'[Len(rows')].voids = 0
           /\ rows'[Len(rows')].created_ts = call[w].now
           /\ rows'[Len(rows')].made = call[w].made
<1> DEFINE c == call[w]
           row == [content |-> c.content, created_ts |-> c.now, made |-> c.made,
                   resolutions |-> << >>, voids |-> 0]
<1>1. rows \in Seq(Forecast) /\ rows' = Append(rows, row)
  BY Shapely DEF Insert, Inserted
<1>2. /\ row.created_ts = c.now /\ row.made = c.made
      /\ row.resolutions = << >> /\ row.voids = 0
  OBVIOUS
<1> HIDE DEF row, c
<1>3. /\ Len(rows) \in Nat /\ DOMAIN rows = 1 .. Len(rows)
      /\ Len(rows') = Len(rows) + 1 /\ DOMAIN rows' = 1 .. Len(rows) + 1
      /\ rows'[Len(rows) + 1] = row /\ \A i \in 1 .. Len(rows) : rows'[i] = rows[i]
  BY <1>1, AppendProperties, LenProperties
<1>. QED  BY <1>2, <1>3 DEF c

\* resolve_forecast's and void_forecast's.
LEMMA VerdictRow ==
    ASSUME TrackerInv, NEW w \in Worker, Insert(w), call[w].op # "log"
    PROVE  /\ call[w].forecast \in DOMAIN rows
           /\ AddsVerdict(rows, rows', call[w].forecast)
           /\ \A f \in DOMAIN rows : /\ rows'[f].created_ts = rows[f].created_ts
                                     /\ rows'[f].made = rows[f].made
<1> DEFINE c == call[w]
           e == c.forecast
           said == [outcome |-> c.outcome, is_correction |-> c.is_correction]
<1>0. rows \in Seq(Forecast) /\ pc[w] = "insert" /\ c \in Call
  BY Shapely DEF Insert
<1>1. Decided(w) /\ c.op \in {"resolve", "void"}
  BY <1>0, Shapely DEF RowsInv, LockInv, InLock
<1>2. e \in DOMAIN rows /\ rows[e].voids = 0 /\ (c.op = "void" => rows[e].resolutions = << >>)
  <2>1. e \in DOMAIN rows /\ ~(rows[e].voids > 0)
        /\ (c.op = "void" => rows[e].resolutions = << >>)
    BY <1>1 DEF Decided, MayResolve, MayVoid, IsVoided
  <2>2. rows[e] \in Forecast
    BY <1>0, <2>1
  <2>. QED  BY <2>1, <2>2 DEF Forecast
<1>3. rows[e] \in Forecast /\ Len(rows) \in Nat /\ DOMAIN rows = 1 .. Len(rows)
  BY <1>0, <1>2, LenProperties
<1>4. CASE c.op = "resolve"
  <2>1. rows' = [rows EXCEPT ![e] =
            [rows[e] EXCEPT !.resolutions = Append(rows[e].resolutions, said)]]
    BY <1>4 DEF Insert, Inserted
  <2>2. said \in Resolution
    BY <1>0, <1>4 DEF Call, Resolution
  <2> HIDE DEF said, c, e
  <2>3. /\ rows'[e].resolutions = Append(rows[e].resolutions, said)
        /\ rows'[e].voids = 0 /\ rows'[e].content = rows[e].content
        /\ rows'[e].created_ts = rows[e].created_ts /\ rows'[e].made = rows[e].made
        /\ \A f \in DOMAIN rows \ {e} : rows'[f] = rows[f]
    BY <1>2, <1>3, <2>1 DEF Forecast
  <2>4. Len(rows') = Len(rows)
    BY <1>0, <1>2, <1>3, <2>1
  <2>. QED  BY <1>2, <2>2, <2>3, <2>4 DEF AddsVerdict, e, c
<1>5. CASE c.op = "void"
  <2>1. rows' = [rows EXCEPT ![e] = [rows[e] EXCEPT !.voids = rows[e].voids + 1]]
    BY <1>5 DEF Insert, Inserted
  <2> HIDE DEF c, e
  <2>2. /\ rows'[e].resolutions = << >>
        /\ rows'[e].voids = 1 /\ rows'[e].content = rows[e].content
        /\ rows'[e].created_ts = rows[e].created_ts /\ rows'[e].made = rows[e].made
        /\ \A f \in DOMAIN rows \ {e} : rows'[f] = rows[f]
    BY <1>2, <1>3, <1>5, <2>1 DEF Forecast
  <2>3. Len(rows') = Len(rows)
    BY <1>0, <1>2, <1>3, <2>1
  <2>. QED  BY <1>2, <1>5, <2>2, <2>3 DEF AddsVerdict, e, c
<1>. QED  BY <1>1, <1>4, <1>5

LEMMA InsertAdds ==
    ASSUME TrackerInv, NEW w \in Worker, Insert(w)
    PROVE  AddsRow(disk', rows')
<1>1. pc[w] = "insert" /\ disk' = disk
  BY DEF Insert
<1>2. rows = disk
  BY <1>1, Alone, Shapely DEF RowsInv, RowsAreCommitted, InLock
<1>3. CASE call[w].op = "log"
  BY <1>1, <1>2, <1>3, LogRow DEF AddsRow, AddsForecast
<1>4. CASE call[w].op # "log"
  BY <1>1, <1>2, <1>4, VerdictRow DEF AddsRow
<1>. QED  BY <1>3, <1>4

\* A read, a crash or a tick of a clock leaves nobody at a commit who was not.
LEMMA OthersAdd ==
    ASSUME TrackerInv, OneRow, ReadStep \/ Crash \/ Tick \/ SetBack \/ UNCHANGED vars
    PROVE  OneRow'
<1>1. CASE ReadStep
  BY <1>1, Shapely, ReadStepFrame DEF OneRow, InLock
<1>2. CASE Crash
  BY <1>2 DEF Crash, OneRow
<1>3. CASE Tick \/ SetBack \/ UNCHANGED vars
  BY <1>3 DEF Tick, SetBack, vars, OneRow
<1>. QED  BY <1>1, <1>2, <1>3

LEMMA OneRowStep == TrackerInv /\ OneRow /\ [Next]_vars => OneRow'
<1> SUFFICES ASSUME TrackerInv, OneRow, NEW w \in Worker,
                    \/ \E c \in Calls : Begin(w, c)
                    \/ Decide(w) \/ Refuse(w) \/ Absorb(w) \/ Insert(w)
                    \/ Commit(w) \/ CommitFails(w) \/ Attest(w) \/ AttestFails(w),
                    NEW v \in Worker, pc'[v] = "commit"
             PROVE  AddsRow(disk', rows')
  BY OthersAdd DEF Next, WriteStep, OneRow
<1>1. CASE v = w
  BY <1>1, WriteMoves, InsertAdds
<1>2. CASE v # w
  <2>1. pc[v] = "commit"
    BY <1>2, WriteMoves
  <2>2. pc[w] \notin InLock
    BY <1>2, <2>1, Alone, Shapely DEF InLock
  <2>3. UNCHANGED <<rows, disk>>
    BY <2>2, WriteMoves DEF Insert, CommitFails, Commit, InLock
  <2>. QED  BY <2>1, <2>3 DEF OneRow
<1>. QED  BY <1>1, <1>2

-----------------------------------------------------------------------------
(* The clock before it is first set back.                                   *)

LEMMA SyncedFrame ==
    ASSUME Synced, UNCHANGED steps, UNCHANGED disk, rows' \in {rows, disk},
           wall = real => wall' = real',
           \A v \in Worker : pc'[v] = "insert" => pc[v] = "insert" /\ call'[v] = call[v]
    PROVE  Synced'
BY DEF Synced, Exact

LEMMA InsertSynced ==
    ASSUME TrackerInv, Synced, NEW w \in Worker, Insert(w)
    PROVE  Synced'
<1>1. /\ UNCHANGED <<disk, wall, real, steps>> /\ pc[w] = "insert"
      /\ \A v \in Worker : pc'[v] # "insert"
  BY Shapely, Alone DEF Insert, clocks, InLock
<1>2. ASSUME Exact(rows), call[w].op = "log" => call[w].now = call[w].made
      PROVE  Exact(rows)'
  <2>1. CASE call[w].op = "log"
    <3> SUFFICES ASSUME NEW f \in DOMAIN rows'
                 PROVE  rows'[f].created_ts = rows'[f].made
      BY DEF Exact
    <3>1. CASE f \in DOMAIN rows
      BY <1>2, <2>1, <3>1, LogRow DEF Exact
    <3>2. CASE f \notin DOMAIN rows
      <4>1. f = Len(rows')
        BY <2>1, <3>2, LogRow
      <4>. QED  BY <1>2, <2>1, <4>1, LogRow
    <3>. QED  BY <3>1, <3>2
  <2>2. CASE call[w].op # "log"
    <3>1. DOMAIN rows' = DOMAIN rows
      <4>1. Inserted(call[w]) \in Seq(Forecast) /\ rows' = Inserted(call[w])
        BY <1>1, InsertedType, Shapely DEF Insert, RowsInv
      <4>2. Len(rows') = Len(rows)
        BY <2>2, VerdictRow DEF AddsVerdict
      <4>. QED  BY <4>1, <4>2, Shapely, LenProperties
    <3>. QED  BY <1>2, <2>2, <3>1, VerdictRow DEF Exact
  <2>. QED  BY <2>1, <2>2
<1>. QED  BY <1>1, <1>2 DEF Synced, Exact

LEMMA SyncedStep == TrackerInv /\ Synced /\ [Next]_vars => Synced'
<1> SUFFICES ASSUME TrackerInv, Synced, [Next]_vars PROVE Synced'
  OBVIOUS
<1>1. ASSUME NEW w \in Worker,
             \/ \E c \in Calls : Begin(w, c)
             \/ Decide(w) \/ Refuse(w) \/ Absorb(w) \/ Insert(w)
             \/ Commit(w) \/ CommitFails(w) \/ Attest(w) \/ AttestFails(w)
      PROVE  Synced'
  <2>1. CASE Insert(w)
    BY <2>1, InsertSynced
  <2>2. CASE Decide(w)
    <3>1. /\ UNCHANGED <<disk, rows, wall, real, steps>>
          /\ \A v \in Worker \ {w} : pc'[v] = pc[v] /\ call'[v] = call[v]
      BY <1>1, <2>2, WriteMoves DEF Decide
    <3>2. call'[w].op = "log" => call'[w].now = wall /\ call'[w].made = real
      <4>1. CASE call[w].op = "log"
        <5>1. call'[w] = [call[w] EXCEPT !.now = wall, !.made = real]
          BY <2>2, <4>1, Shapely DEF Decide
        <5>. QED  BY <4>1, <5>1, Shapely DEF Call
      <4>2. CASE call[w].op # "log"
        BY <2>2, <4>2 DEF Decide
      <4>. QED  BY <4>1, <4>2
    <3>. QED  BY <3>1, <3>2 DEF Synced, Exact
  <2>3. CASE Commit(w)
    <3>1. /\ disk' = rows /\ rows' = rows /\ UNCHANGED <<wall, real, steps>>
          /\ \A v \in Worker : pc'[v] = "insert" => pc[v] = "insert" /\ call'[v] = call[v]
      BY <2>3, Shapely DEF Commit, clocks
    <3>. QED  BY <3>1 DEF Synced, Exact
  <2>4. CASE ~Insert(w) /\ ~Decide(w) /\ ~Commit(w)
    <3>1. rows' \in {rows, disk}
      BY <1>1, <2>4, WriteMoves DEF CommitFails
    <3>. QED  BY <1>1, <2>4, <3>1, WriteMoves, SyncedFrame
  <2>. QED  BY <2>1, <2>2, <2>3, <2>4
<1>2. CASE ReadStep
  <2>1. PICK w \in Worker :
            /\ pc'[w] \notin InLock
            /\ \A v \in Worker \ {w} : pc'[v] = pc[v] /\ call'[v] = call[v]
            /\ UNCHANGED <<rows, disk, clocks>>
    BY <1>2, ReadStepFrame, Shapely
  <2>. QED  BY <2>1, SyncedFrame DEF InLock, clocks
<1>3. CASE Crash
  BY <1>3, SyncedFrame DEF Crash, clocks
<1>4. CASE Tick
  <2>1. wall = real => wall' = real'
    BY <1>4 DEF Tick
  <2>. QED  BY <1>4, <2>1, SyncedFrame DEF Tick
<1>5. CASE SetBack
  BY <1>5, Shapely DEF SetBack, Synced
<1>6. CASE UNCHANGED vars
  BY <1>6, SyncedFrame DEF vars, clocks
<1>. QED  BY <1>1, <1>2, <1>3, <1>4, <1>5, <1>6 DEF Next, WriteStep

-----------------------------------------------------------------------------
(* Reports.                                                                 *)

\* What a row added to the committed ones keeps.
LEMMA StaysResolved ==
    ASSUME NEW old \in Seq(Forecast), NEW new \in Seq(Forecast), AddsRow(old, new),
           NEW f \in DOMAIN old, old[f].resolutions # << >>
    PROVE  f \in DOMAIN new /\ new[f].resolutions # << >>
<1>1. /\ DOMAIN old = 1 .. Len(old) /\ DOMAIN new = 1 .. Len(new)
      /\ Len(old) \in Nat /\ Len(new) \in Nat
  BY LenProperties
<1>2. CASE AddsForecast(old, new)
  BY <1>1, <1>2 DEF AddsForecast
<1>3. ASSUME NEW g \in DOMAIN old, AddsVerdict(old, new, g)
      PROVE  f \in DOMAIN new /\ new[f].resolutions # << >>
  <2>1. f \in DOMAIN new
    BY <1>1, <1>3 DEF AddsVerdict
  <2>2. CASE f # g
    BY <1>3, <2>1, <2>2 DEF AddsVerdict
  <2>3. CASE f = g
    <3>1. old[f] \in Forecast
      OBVIOUS
    <3>2. PICK r \in Resolution : new[f].resolutions = Append(old[f].resolutions, r)
      BY <1>3, <2>3 DEF AddsVerdict
    <3>3. old[f].resolutions \in Seq(Resolution)
      BY <3>1 DEF Forecast
    <3>4. Len(new[f].resolutions) = Len(old[f].resolutions) + 1
          /\ Len(old[f].resolutions) \in Nat
      BY <3>2, <3>3, AppendProperties, LenProperties
    <3>5. Len(<< >>) = 0
      BY EmptySeq
    <3>. QED  BY <2>1, <3>4, <3>5
  <2>. QED  BY <2>2, <2>3
<1>. QED  BY <1>2, <1>3 DEF AddsRow

\* A forecast that is committed with a verdict is seen with one, and not voided.
LEMMA SeenResolved ==
    ASSUME TrackerInv, OneRow, NEW f \in DOMAIN disk, disk[f].resolutions # << >>
    PROVE  f \in DOMAIN rows /\ LatestResolution(f) > 0 /\ ~IsVoided(f)
<1>1. f \in DOMAIN rows /\ rows[f].resolutions # << >>
  <2>1. CASE \E w \in Worker : pc[w] = "commit"
    BY <2>1, StaysResolved, Shapely DEF OneRow
  <2>2. CASE \A w \in Worker : pc[w] # "commit"
    BY <2>2, Shapely DEF RowsInv, RowsAreCommitted
  <2>. QED  BY <2>1, <2>2
<1>2. rows[f] \in Forecast
  BY <1>1, Shapely
<1>3. rows[f].resolutions \in Seq(Resolution) /\ rows[f].voids \in Nat
  BY <1>2 DEF Forecast
<1>4. LatestResolution(f) > 0
  <2>1. Len(rows[f].resolutions) \in Nat /\ Len(rows[f].resolutions) # 0
    BY <1>1, <1>3, EmptySeq, LenProperties
  <2>. QED  BY <2>1 DEF LatestResolution
<1>5. ~IsVoided(f)
  BY <1>1, <1>3, Shapely DEF RowsInv, Sound, Verdicts, IsVoided
<1>. QED  BY <1>1, <1>4, <1>5

\* The committed forecasts change by commits alone.
LEMMA DiskChanges ==
    ASSUME TrackerInv, [Next]_vars
    PROVE  disk' = disk \/ \E w \in Worker : Commit(w)
<1>1. CASE WriteStep
  BY <1>1, WriteMoves DEF WriteStep
<1>2. CASE ReadStep
  BY <1>2, ReadStepFrame, Shapely
<1>3. CASE Crash \/ Tick \/ SetBack \/ UNCHANGED vars
  BY <1>3 DEF Crash, Tick, SetBack, vars
<1>. QED  BY <1>1, <1>2, <1>3 DEF Next

\* A committed verdict stays one.
VerdictsStay ==
    \A f \in DOMAIN disk :
        disk[f].resolutions # << >> =>
            f \in DOMAIN disk' /\ disk'[f].resolutions # << >>

LEMMA DiskKeepsVerdicts == TrackerInv /\ OneRow /\ [Next]_vars => VerdictsStay
<1> SUFFICES ASSUME TrackerInv, OneRow, [Next]_vars PROVE VerdictsStay
  OBVIOUS
<1>1. disk' = disk \/ \E w \in Worker : Commit(w)
  BY DiskChanges
<1>2. ASSUME NEW w \in Worker, Commit(w) PROVE VerdictsStay
  <2>1. disk' = rows /\ AddsRow(disk, rows)
    BY <1>2 DEF Commit, OneRow
  <2>. QED  BY <2>1, StaysResolved, Shapely DEF VerdictsStay
<1>. QED  BY <1>1, <1>2 DEF VerdictsStay

\* Whoever the step is not of keeps what its report owes.
LEMMA OwesKept ==
    ASSUME VerdictsStay, NEW v \in Worker, OwesInv(v),
           pc'[v] = pc[v], call'[v] = call[v], report'[v] = report[v]
    PROVE  OwesInv(v)'
BY DEF VerdictsStay, OwesInv, Owes, Scored

\* Away from a report nothing is owed.
LEMMA OwesNothing ==
    ASSUME NEW v \in Worker, pc'[v] \notin {"next", "corrected", "return"},
           pc'[v] \in Reading => call'[v].op # "report"
    PROVE  OwesInv(v)'
BY DEF OwesInv, Owes

\* The next forecast of a report: it is scored, or has no verdict.
LEMMA NextOwes ==
    ASSUME TrackerInv, OneRow, VerdictsStay, NEW w \in Worker, OwesInv(w), ReportNext(w)
    PROVE  OwesInv(w)'
<1> PICK f \in report[w].todo :
        LET k == IF f \in DOMAIN rows THEN LatestResolution(f) ELSE 0
        IN  /\ report' = [report EXCEPT
                   ![w].todo = @ \ {f},
                   ![w].pairs = IF k > 0 THEN @ \cup {<<f, k>>} ELSE @]
            /\ pc' = [pc EXCEPT ![w] = IF k > 0 THEN "corrected" ELSE "next"]
  BY DEF ReportNext
<1> DEFINE n == IF f \in DOMAIN rows THEN LatestResolution(f) ELSE 0
<1>1. report[w] \in Tally
  BY Shapely
<1>2. /\ report'[w].todo = report[w].todo \ {f}
      /\ report'[w].pairs = IF n > 0 THEN report[w].pairs \cup {<<f, n>>} ELSE report[w].pairs
      /\ report'[w].resolved = report[w].resolved
  BY <1>1, Shapely DEF Tally
<1>3. pc[w] = "next" /\ pc'[w] \in {"corrected", "next"} /\ disk' = disk
  BY Shapely DEF ReportNext
<1>4. Scored(w) \subseteq Scored(w)' /\ (n > 0 => f \in Scored(w)')
  <2>1. CASE n > 0
    <3>1. report'[w].pairs = report[w].pairs \cup {<<f, n>>}
      BY <1>2, <2>1
    <3>2. f = <<f, n>>[1]
      OBVIOUS
    <3>3. Scored(w)' = Scored(w) \cup {f}
      BY <3>1, <3>2, Zenon DEF Scored
    <3>. QED  BY <3>3
  <2>2. CASE ~(n > 0)
    <3>1. report'[w].pairs = report[w].pairs
      BY <1>2, <2>2
    <3>. QED  BY <2>2, <3>1 DEF Scored
  <2>. QED  BY <2>1, <2>2
<1>5. ASSUME NEW g \in report'[w].resolved
      PROVE  /\ g \in DOMAIN disk /\ disk[g].resolutions # << >>
             /\ g \in report'[w].todo \cup Scored(w)'
  <2>1. /\ g \in DOMAIN disk /\ disk[g].resolutions # << >>
        /\ g \in report[w].todo \cup Scored(w)
    BY <1>2, <1>3, <1>5 DEF OwesInv, Owes
  <2>2. g = f => n > 0
    BY <2>1, SeenResolved
  <2>. QED  BY <1>2, <1>4, <2>1, <2>2
<1>. QED  BY <1>3, <1>5 DEF OwesInv, Owes, Reading

\* The first query of a report, and its last.
LEMMA RowsOwe ==
    ASSUME TrackerInv, OneRow, NEW w \in Worker, ReportRows(w)
    PROVE  OwesInv(w)'
<1>1. report[w] \in Tally
  BY Shapely
<1>2. /\ report'[w].todo = DOMAIN rows \ Voided
      /\ report'[w].resolved = {f \in DOMAIN disk : disk[f].resolutions # << >>}
      /\ pc'[w] = "next" /\ disk' = disk
  BY <1>1, Shapely DEF ReportRows, Tally
<1>3. \A f \in report'[w].resolved : f \in report'[w].todo
  BY <1>2, SeenResolved DEF Voided
<1>. QED  BY <1>2, <1>3 DEF OwesInv, Owes, Reading

LEMMA VoidedOwes ==
    ASSUME TrackerInv, NEW w \in Worker, OwesInv(w), ReportVoided(w)
    PROVE  OwesInv(w)'
<1>1. report[w] \in Tally
  BY Shapely
<1>2. /\ report'[w].todo = {} /\ report'[w].resolved = report[w].resolved
      /\ report'[w].pairs = report[w].pairs /\ report[w].todo = {}
      /\ pc[w] = "next" /\ pc'[w] = "return" /\ disk' = disk
  BY <1>1, Shapely DEF ReportVoided, Tally
<1>3. Scored(w)' = Scored(w)
  BY <1>2 DEF Scored
<1>. QED  BY <1>2, <1>3 DEF OwesInv, Owes, Reading

LEMMA CorrectedOwes ==
    ASSUME TrackerInv, NEW w \in Worker, OwesInv(w), ReportCorrected(w)
    PROVE  OwesInv(w)'
<1> PICK f : report' = [report EXCEPT ![w].corrected =
                           IF f \in DOMAIN rows /\ CorrectionCount(f) > 0
                           THEN @ \cup {f} ELSE @]
  BY DEF ReportCorrected
<1>1. report[w] \in Tally
  BY Shapely
<1>2. /\ report'[w].todo = report[w].todo /\ report'[w].resolved = report[w].resolved
      /\ report'[w].pairs = report[w].pairs
  BY <1>1, Shapely DEF Tally
<1>3. pc[w] = "corrected" /\ pc'[w] = "next" /\ disk' = disk
  BY Shapely DEF ReportCorrected
<1>4. Scored(w)' = Scored(w)
  BY <1>2 DEF Scored
<1>. QED  BY <1>2, <1>3, <1>4 DEF OwesInv, Owes, Reading

LEMMA ReadOwes ==
    ASSUME TrackerInv, OneRow, ReportsInv, VerdictsStay, ReadStep
    PROVE  ReportsInv'
<1> PICK w \in Worker :
        \/ \E f \in DOMAIN rows : Get(w, f)
        \/ ReadResolution(w) \/ ReadCorrections(w) \/ ReadVoided(w)
        \/ Unknown(w) \/ Report(w) \/ ReportRows(w) \/ ReportNext(w)
        \/ ReportCorrected(w) \/ ReportVoided(w) \/ Return(w)
  BY DEF ReadStep
<1>0. OwesInv(w)
  BY DEF ReportsInv
<1>1. ASSUME \A v \in Worker \ {w} : /\ pc'[v] = pc[v] /\ call'[v] = call[v]
                                     /\ report'[v] = report[v],
             OwesInv(w)'
      PROVE  ReportsInv'
  BY <1>1, OwesKept DEF ReportsInv
<1> USE Shapely DEF reading
<1>2. CASE \E f \in DOMAIN rows : Get(w, f)
  BY <1>1, <1>2, OwesNothing DEF Get
<1>3. CASE ReadResolution(w)
  BY <1>0, <1>1, <1>3, OwesNothing DEF ReadResolution, OwesInv, Reading
<1>4. CASE ReadCorrections(w)
  BY <1>0, <1>1, <1>4, OwesNothing DEF ReadCorrections, OwesInv, Reading
<1>5. CASE ReadVoided(w)
  <2>1. pc'[w] = "return" /\ call'[w].op # "report"
    BY <1>0, <1>5 DEF ReadVoided, OwesInv, Reading
  <2>2. OwesInv(w)'
    BY <2>1 DEF OwesInv, Owes, Reading
  <2>. QED  BY <1>1, <1>5, <2>2 DEF ReadVoided
<1>6. CASE Unknown(w) \/ Return(w)
  BY <1>1, <1>6, OwesNothing DEF Unknown, Return, Finish, Reading
<1>7. CASE Report(w)
  BY <1>1, <1>7, OwesNothing DEF Report, Reading
<1>8. CASE ReportRows(w)
  BY <1>1, <1>8, RowsOwe DEF ReportRows
<1>9. CASE ReportNext(w)
  <2>1. \A v \in Worker \ {w} : /\ pc'[v] = pc[v] /\ call'[v] = call[v]
                                /\ report'[v] = report[v]
    BY <1>9 DEF ReportNext
  <2>. QED  BY <1>0, <1>1, <1>9, <2>1, NextOwes
<1>10. CASE ReportCorrected(w)
  <2>1. \A v \in Worker \ {w} : /\ pc'[v] = pc[v] /\ call'[v] = call[v]
                                /\ report'[v] = report[v]
    BY <1>10 DEF ReportCorrected
  <2>. QED  BY <1>0, <1>1, <1>10, <2>1, CorrectedOwes
<1>11. CASE ReportVoided(w)
  BY <1>0, <1>1, <1>11, VoidedOwes DEF ReportVoided
<1>. QED  BY <1>2, <1>3, <1>4, <1>5, <1>6, <1>7, <1>8, <1>9, <1>10, <1>11

LEMMA ReportsStep == TrackerInv /\ OneRow /\ ReportsInv /\ [Next]_vars => ReportsInv'
<1> SUFFICES ASSUME TrackerInv, OneRow, ReportsInv, [Next]_vars PROVE ReportsInv'
  OBVIOUS
<1>0. VerdictsStay
  BY DiskKeepsVerdicts
<1>1. ASSUME NEW w \in Worker,
             \/ \E c \in Calls : Begin(w, c)
             \/ Decide(w) \/ Refuse(w) \/ Absorb(w) \/ Insert(w)
             \/ Commit(w) \/ CommitFails(w) \/ Attest(w) \/ AttestFails(w)
      PROVE  ReportsInv'
  <2>1. OwesInv(w)'
    BY <1>1, WriteMoves, OwesNothing DEF InLock, Reading
  <2>2. \A v \in Worker \ {w} : OwesInv(v)'
    BY <1>0, <1>1, WriteMoves, OwesKept DEF ReportsInv
  <2>. QED  BY <2>1, <2>2 DEF ReportsInv
<1>2. CASE Crash
  BY <1>2, OwesNothing DEF Crash, ReportsInv, Reading
<1>3. CASE Tick \/ SetBack \/ UNCHANGED vars
  BY <1>0, <1>3, OwesKept DEF Tick, SetBack, vars, reading, ReportsInv
<1>. QED  BY <1>0, <1>1, <1>2, <1>3, ReadOwes DEF Next, WriteStep

-----------------------------------------------------------------------------
(* The life of a forecast.                                                  *)

Statuses(s) == [f \in DOMAIN s |-> StatusOf(s[f])]
Contents(s) == [f \in DOMAIN s |-> s[f].content]

Status == {"open", "yes", "no", "voided"}

\* A sequence of forecasts tells one status and one content of each.
LEMMA LifeTypes ==
    ASSUME NEW s \in Seq(Forecast)
    PROVE  /\ Statuses(s) \in Seq(Status) /\ Len(Statuses(s)) = Len(s)
           /\ Contents(s) \in Seq(Content) /\ Len(Contents(s)) = Len(s)
           /\ \A f \in DOMAIN s : Statuses(s)[f] = StatusOf(s[f])
           /\ \A f \in DOMAIN s : Contents(s)[f] = s[f].content
<1>1. Len(s) \in Nat /\ DOMAIN s = 1 .. Len(s)
  BY LenProperties
<1>2. \A f \in DOMAIN s : StatusOf(s[f]) \in Status
  BY DEF StatusOf, Status
<1>3. \A f \in DOMAIN s : s[f].content \in Content
  <2> TAKE f \in DOMAIN s
  <2>1. s[f] \in Forecast
    OBVIOUS
  <2>. QED  BY <2>1 DEF Forecast
<1>4. /\ Statuses(s) = [f \in 1 .. Len(s) |-> StatusOf(s[f])]
      /\ Contents(s) = [f \in 1 .. Len(s) |-> s[f].content]
  BY <1>1 DEF Statuses, Contents
<1>5. Statuses(s) \in Seq(Status) /\ Contents(s) \in Seq(Content)
  BY <1>1, <1>2, <1>3, <1>4
<1>6. Len(Statuses(s)) = Len(s) /\ Len(Contents(s)) = Len(s)
  BY <1>1, <1>4, <1>5, LenProperties
<1>. QED  BY <1>1, <1>4, <1>5, <1>6

\* A sequence that another one extends by an element.
LEMMA OneLonger ==
    ASSUME NEW S, NEW s \in Seq(S), NEW t \in Seq(S), Len(t) = Len(s) + 1,
           \A i \in 1 .. Len(s) : t[i] = s[i]
    PROVE  t = Append(s, t[Len(t)])
<1>1. Len(s) \in Nat /\ Len(t) \in Nat /\ t[Len(t)] \in S
  <2>1. Len(t) \in DOMAIN t /\ Len(s) \in Nat /\ Len(t) \in Nat
    BY LenProperties
  <2>. QED  BY <2>1
<1> PICK e \in S : e = t[Len(t)]
  BY <1>1
<1>2. /\ Append(s, e) \in Seq(S) /\ Len(Append(s, e)) = Len(s) + 1
      /\ Append(s, e)[Len(s) + 1] = e
      /\ \A i \in 1 .. Len(s) : Append(s, e)[i] = s[i]
  BY AppendProperties
<1>3. \A i \in 1 .. Len(t) : t[i] = Append(s, e)[i]
  BY <1>1, <1>2
<1>4. t = Append(s, e)
  BY <1>2, <1>3, SeqEqual
<1>. QED  BY <1>4

\* A row added to the committed forecasts is one step of one forecast's life.
LEMMA RowLives ==
    ASSUME TrackerInv, disk' \in Seq(Forecast), AddsRow(disk, disk')
    PROVE  Life!Next
<1> DEFINE old == disk
           new == disk'
<1>1. /\ old \in Seq(Forecast) /\ Len(old) \in Nat /\ Len(new) \in Nat
      /\ DOMAIN old = 1 .. Len(old) /\ DOMAIN new = 1 .. Len(new)
  BY Shapely, LenProperties
<1>2. /\ Statuses(old) \in Seq(Status) /\ Len(Statuses(old)) = Len(old)
      /\ Statuses(new) \in Seq(Status) /\ Len(Statuses(new)) = Len(new)
      /\ Contents(old) \in Seq(Content) /\ Len(Contents(old)) = Len(old)
      /\ Contents(new) \in Seq(Content) /\ Len(Contents(new)) = Len(new)
      /\ \A f \in DOMAIN old : /\ Statuses(old)[f] = StatusOf(old[f])
                               /\ Contents(old)[f] = old[f].content
      /\ \A f \in DOMAIN new : /\ Statuses(new)[f] = StatusOf(new[f])
                               /\ Contents(new)[f] = new[f].content
  BY <1>1, LifeTypes
<1>3. CASE AddsForecast(old, new)
  <2>1. /\ Len(new) = Len(old) + 1 /\ \A f \in DOMAIN old : new[f] = old[f]
        /\ StatusOf(new[Len(new)]) = "open"
    BY <1>3, <1>1 DEF AddsForecast, StatusOf
  <2>2. Statuses(new) = Append(Statuses(old), "open")
    <3>1. Statuses(new)[Len(new)] = "open"
      BY <1>1, <1>2, <2>1
    <3>2. ASSUME NEW i \in 1 .. Len(Statuses(old))
          PROVE  Statuses(new)[i] = Statuses(old)[i]
      <4>1. i \in 1 .. Len(old)
        BY <1>2
      <4>2. i \in DOMAIN old /\ i \in DOMAIN new /\ new[i] = old[i]
        BY <4>1, <1>1, <2>1
      <4>. QED  BY <1>2, <4>2
    <3>. QED  BY <1>2, <2>1, <3>1, <3>2, OneLonger
  <2>3. \E c \in Content : Contents(new) = Append(Contents(old), c)
    <3>1. ASSUME NEW i \in 1 .. Len(Contents(old))
          PROVE  Contents(new)[i] = Contents(old)[i]
      <4>1. i \in 1 .. Len(old)
        BY <1>2
      <4>2. i \in DOMAIN old /\ i \in DOMAIN new /\ new[i] = old[i]
        BY <4>1, <1>1, <2>1
      <4>. QED  BY <1>2, <4>2
    <3>2. Contents(new) = Append(Contents(old), Contents(new)[Len(Contents(new))])
      BY <1>2, <2>1, <3>1, OneLonger
    <3>3. Contents(new)[Len(Contents(new))] \in Content
      BY <1>1, <1>2, <2>1
    <3>. QED  BY <3>2, <3>3
  <2>4. Life!Lock
    BY <2>2, <2>3 DEF Life!Lock, Statuses, Contents
  <2>. QED  BY <2>4 DEF Life!Next
<1>4. ASSUME NEW f \in DOMAIN old, AddsVerdict(old, new, f) PROVE Life!Next
  <2>1. /\ DOMAIN new = DOMAIN old
        /\ \A g \in DOMAIN old \ {f} : new[g] = old[g]
        /\ \A g \in DOMAIN old : new[g].content = old[g].content
    BY <1>1, <1>4 DEF AddsVerdict
  <2>2. Contents(new) = Contents(old)
    BY <2>1 DEF Contents
  <2>3. Statuses(new) = [Statuses(old) EXCEPT ![f] = StatusOf(new[f])]
    BY <2>1 DEF Statuses
  <2>4. f \in DOMAIN Statuses(old) /\ Statuses(old)[f] = StatusOf(old[f])
    BY DEF Statuses
  <2>5. StatusOf(old[f]) # "voided"
    BY <1>4 DEF AddsVerdict, StatusOf
  <2>6. CASE new[f].voids = 0
    <3>1. new[f].resolutions # << >>
      <4>1. PICK r \in Resolution : new[f].resolutions = Append(old[f].resolutions, r)
        BY <1>4, <2>6 DEF AddsVerdict
      <4>2. old[f].resolutions \in Seq(Resolution)
        <5>1. old[f] \in Forecast
          BY <1>1
        <5>. QED  BY <5>1 DEF Forecast
      <4>3. /\ Len(new[f].resolutions) = Len(old[f].resolutions) + 1
            /\ Len(old[f].resolutions) \in Nat /\ Len(<< >>) = 0
        BY <4>1, <4>2, AppendProperties, LenProperties, EmptySeq
      <4>. QED  BY <4>3
    <3>2. StatusOf(new[f]) \in {"yes", "no"}
      BY <2>6, <3>1 DEF StatusOf
    <3>3. Life!Resolve(f)
      BY <2>2, <2>3, <2>4, <2>5, <3>2 DEF Life!Resolve, Statuses, Contents
    <3>. QED  BY <2>4, <3>3 DEF Life!Next, Statuses
  <2>7. CASE new[f].voids # 0
    <3>1. /\ new[f].voids = 1 /\ old[f].voids = 0 /\ old[f].resolutions = << >>
      BY <1>4, <2>7 DEF AddsVerdict
    <3>2. StatusOf(new[f]) = "voided" /\ StatusOf(old[f]) = "open"
      BY <3>1 DEF StatusOf
    <3>3. Life!Void(f)
      BY <2>2, <2>3, <2>4, <3>2 DEF Life!Void, Statuses, Contents
    <3>. QED  BY <2>4, <3>3 DEF Life!Next, Statuses
  <2>. QED  BY <2>6, <2>7
<1>. QED  BY <1>3, <1>4 DEF AddsRow

LEMMA InitLives == Init => Life!Init
<1> SUFFICES ASSUME Init PROVE Life!Init
  OBVIOUS
<1>1. disk = << >> /\ disk \in Seq(Forecast) /\ Len(disk) = 0
  BY EmptySeq DEF Init
<1>2. /\ Statuses(disk) \in Seq(Status) /\ Len(Statuses(disk)) = 0
      /\ Contents(disk) \in Seq(Content) /\ Len(Contents(disk)) = 0
  BY <1>1, LifeTypes
<1>3. Statuses(disk) = << >> /\ Contents(disk) = << >>
  BY <1>2, EmptySeq
<1>. QED  BY <1>3 DEF Life!Init, Statuses, Contents

\* Every step is one of a forecast's life or leaves the committed ones alone.
LEMMA LifeStutters == TrackerInv /\ OneRow /\ [Next]_vars => [Life!Next]_(Life!fvars)
<1> SUFFICES ASSUME TrackerInv, OneRow, [Next]_vars PROVE [Life!Next]_(Life!fvars)
  OBVIOUS
<1>1. ASSUME NEW w \in Worker, Commit(w) PROVE Life!Next
  <2>1. disk' = rows /\ AddsRow(disk, rows)
    BY <1>1 DEF Commit, OneRow
  <2>. QED  BY <2>1, RowLives, Shapely
<1>2. CASE disk' = disk
  BY <1>2 DEF Life!fvars
<1>3. disk' = disk \/ \E w \in Worker : Commit(w)
  BY DiskChanges
<1>. QED  BY <1>1, <1>2, <1>3

-----------------------------------------------------------------------------
(* The theorems.                                                            *)

\* Of the steps from the checks under the lock to the answer there is one.
LEMMA OnlyAbsorbed ==
    ASSUME TrackerInv, [Next]_vars, NEW w \in Worker, pc[w] = "decide", pc'[w] = "row"
    PROVE  Absorb(w)
<1>1. ASSUME NEW v \in Worker,
             \/ \E c \in Calls : Begin(v, c)
             \/ Decide(v) \/ Refuse(v) \/ Absorb(v) \/ Insert(v)
             \/ Commit(v) \/ CommitFails(v) \/ Attest(v) \/ AttestFails(v)
      PROVE  Absorb(w)
  <2>1. v = w
    BY <1>1, WriteMoves
  <2>2. \A c \in Calls : ~Begin(w, c)
    BY DEF Begin
  <2>3. ~Decide(w) /\ ~Refuse(w) /\ ~AttestFails(w)
    BY Shapely DEF Decide, Refuse, AttestFails, Finish
  <2>4. ~Insert(w) /\ ~Commit(w) /\ ~CommitFails(w) /\ ~Attest(w)
    BY DEF Insert, Commit, CommitFails, Attest
  <2>. QED  BY <1>1, <2>1, <2>2, <2>3, <2>4
<1>2. CASE ReadStep
  BY <1>2, ReadStepFrame, Shapely DEF InLock
<1>3. CASE Crash \/ Tick \/ SetBack \/ UNCHANGED vars
  BY <1>3 DEF Crash, Tick, SetBack, vars
<1>. QED  BY <1>1, <1>2, <1>3 DEF Next, WriteStep

LEMMA LifeStep == TrackerInv /\ LifeInv /\ [Next]_vars => TrackerInv' /\ LifeInv'
<1>1. TrackerInv /\ [Next]_vars => TrackerInv'
  BY TypeStep, LockStep, RowsStep DEF TrackerInv
<1>. QED  BY <1>1, OneRowStep, SyncedStep, ReportsStep DEF LifeInv

LEMMA InitLife == Init => TrackerInv /\ LifeInv
<1> SUFFICES ASSUME Init PROVE LifeInv
  BY TrackerInit
<1>1. /\ disk = << >> /\ rows = << >> /\ wall = real
      /\ \A w \in Worker : pc[w] = "idle"
  BY DEF Init
<1>2. DOMAIN << >> = {}
  BY EmptySeq
<1>. QED  BY <1>1, <1>2
          DEF LifeInv, OneRow, Synced, Exact, ReportsInv, OwesInv, Owes, Reading

\* Before its commit a call has added one row, and a report has scored or has
\* still to look at each forecast it owes: LifeInv.
THEOREM LifeInvHolds == Spec => []LifeInv
BY InitLife, LifeStep, PTL DEF Spec

\* get_calibration_report's 2n + 2 reads, between which others log, resolve,
\* correct, void, roll back and crash, miss no forecast that was resolved when the
\* report began: ReportIsComplete.
THEOREM ReportsMissNothing == Spec => []ReportIsComplete
<1>1. LifeInv => ReportIsComplete
  BY DEF LifeInv, ReportsInv, OwesInv, Owes, ReportIsComplete
<1>. QED  BY <1>1, LifeInvHolds, PTL

\* log_forecast answers with an earlier forecast only within the window, as long as
\* the wall clock was never set back: AbsorbsInWindowOnly.
THEOREM AbsorbedInWindow == Spec => AbsorbsInWindowOnly
<1>1. TrackerInv /\ LifeInv /\ [Next]_vars =>
          [\A w \in Worker :
              steps = 0 /\ pc[w] = "decide" /\ pc'[w] = "row"
              => real - rows[call'[w].forecast].made <= Window]_vars
  <2> SUFFICES ASSUME TrackerInv, LifeInv, [Next]_vars, NEW w \in Worker,
                      steps = 0, pc[w] = "decide", pc'[w] = "row"
               PROVE  real - rows[call'[w].forecast].made <= Window
    OBVIOUS
  <2>1. Absorb(w)
    BY OnlyAbsorbed
  <2> DEFINE f == LastExisting(call[w].content)
  <2>2. f \in DOMAIN rows /\ wall - rows[f].created_ts <= Window
    BY <2>1, LastExistingIsLast, Shapely DEF Absorb, IsDuplicate, Existing, RowsInv
  <2>3. call'[w].forecast = f
    <3>1. call'[w] = [call[w] EXCEPT !.forecast = f] /\ call[w].op = "log"
      BY <2>1, Shapely DEF Absorb
    <3>. QED  BY <3>1, Shapely DEF Call
  <2>4. wall = real /\ rows[f].created_ts = rows[f].made
    BY <2>2 DEF LifeInv, Synced, Exact
  <2> HIDE DEF f
  <2>. QED  BY <2>2, <2>3, <2>4
<1>. QED  BY <1>1, InitLife, LifeStep, PTL DEF Spec, AbsorbsInWindowOnly

\* Every commit, whatever fails and whoever else runs, is one step of one
\* forecast's life: it is locked, resolved (again) or voided.
THEOREM TrackerIsForecastLife == Spec => ImplementsForecastLife
<1>1. TrackerInv /\ LifeInv /\ [Next]_vars => [Life!Next]_(Life!fvars)
  BY LifeStutters DEF LifeInv
<1>. QED  BY <1>1, InitLife, LifeStep, InitLives, PTL
          DEF Spec, ImplementsForecastLife, Life!Spec
=============================================================================
