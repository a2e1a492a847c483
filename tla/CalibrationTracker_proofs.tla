--------------------- MODULE CalibrationTracker_proofs ---------------------
(***************************************************************************)
(* Proofs that a forecast gets one verdict, that a retry never locks it    *)
(* twice within the window, and that a rollback takes back its own row,    *)
(* whatever the interleaving, the failures and the wall clock.             *)
(***************************************************************************)
EXTENDS CalibrationTrackerInductive, SequenceTheorems, FiniteSetTheorems, TLAPS

-----------------------------------------------------------------------------
(* Facts about the data.                                                    *)

\* The dedup query's answer is the last forecast with the content.
LEMMA LastExistingIsLast ==
    ASSUME TypeOK, Sound(rows), NEW c, Existing(c) # {}
    PROVE  /\ LastExisting(c) \in Existing(c)
           /\ \A g \in Existing(c) : g <= LastExisting(c)
<1>1. PICK f \in Existing(c) : TRUE
  OBVIOUS
<1>2. \E g \in Existing(c) : \A h \in Existing(c) : h <= g
  BY <1>1 DEF Sound, HasLast, Existing
<1>. QED  BY <1>2 DEF LastExisting

\* The corrections of a forecast are counted by a number.
LEMMA CorrectionCountType ==
    ASSUME TypeOK, NEW f \in DOMAIN rows
    PROVE  CorrectionCount(f) \in Nat
<1> DEFINE resolutions == rows[f].resolutions
           corrections == {i \in DOMAIN resolutions : resolutions[i].is_correction}
<1>1. resolutions \in Seq(Resolution)
  <2>1. rows \in Seq(Forecast)
    BY DEF TypeOK
  <2>2. rows[f] \in Forecast
    BY <2>1
  <2>. QED  BY <2>2 DEF Forecast
<1>2. DOMAIN resolutions = 1 .. Len(resolutions) /\ Len(resolutions) \in Nat
  BY <1>1, LenProperties
<1>3. IsFiniteSet(1 .. Len(resolutions))
  BY <1>2, FS_Interval
<1>4. IsFiniteSet(corrections)
  <2>1. corrections \subseteq 1 .. Len(resolutions)
    BY <1>2
  <2>. QED  BY <1>3, <2>1, FS_Subset
<1>. QED  BY <1>4, FS_CardinalityType DEF CorrectionCount

\* A worker in the lock is the only one there.
LEMMA Alone ==
    ASSUME LockInv, NEW v \in Worker, NEW w \in Worker,
           pc[v] \in InLock, pc[w] \in InLock
    PROVE  v = w
BY DEF LockInv

\* The row a write inserts is a row.
LEMMA InsertedType ==
    ASSUME TypeOK, LockInv, NEW w \in Worker, pc[w] = "insert", Decided(w)
    PROVE  Inserted(call[w]) \in Seq(Forecast)
<1> DEFINE c == call[w]
<1>0. c \in Call /\ rows \in Seq(Forecast)
  BY DEF TypeOK
<1>1. CASE c.op = "log"
  <2> DEFINE row == [content |-> c.content, created_ts |-> c.now, made |-> c.made,
                     resolutions |-> << >>, voids |-> 0]
  <2>1. row \in Forecast
    BY <1>0, <1>1, EmptySeq DEF Call, Forecast
  <2>2. Inserted(c) = Append(rows, row)
    BY <1>1 DEF Inserted
  <2>. HIDE DEF row
  <2>. QED  BY <1>0, <2>1, <2>2, AppendProperties
<1>2. CASE c.op = "resolve"
  <2> DEFINE f == c.forecast
             said == [outcome |-> c.outcome, is_correction |-> c.is_correction]
  <2>1. f \in DOMAIN rows
    BY <1>2 DEF Decided, MayResolve
  <2>2. said \in Resolution
    BY <1>0, <1>2 DEF Call, Resolution
  <2>3. rows[f] \in Forecast
    BY <1>0, <2>1
  <2>4. Append(rows[f].resolutions, said) \in Seq(Resolution)
    <3>. HIDE DEF said
    <3>. QED  BY <2>2, <2>3, AppendProperties DEF Forecast
  <2>5. [rows[f] EXCEPT !.resolutions = Append(rows[f].resolutions, said)] \in Forecast
    <3>. HIDE DEF said
    <3>. QED  BY <2>3, <2>4 DEF Forecast
  <2>6. Inserted(c) = [rows EXCEPT ![f] =
            [rows[f] EXCEPT !.resolutions = Append(rows[f].resolutions, said)]]
    BY <1>2 DEF Inserted
  <2>. QED  BY <1>0, <2>1, <2>5, <2>6, ExceptSeq
<1>3. CASE c.op = "void"
  <2> DEFINE f == c.forecast
  <2>1. f \in DOMAIN rows
    BY <1>3 DEF Decided, MayVoid
  <2>2. rows[f] \in Forecast
    BY <1>0, <2>1
  <2>3. [rows[f] EXCEPT !.voids = rows[f].voids + 1] \in Forecast
    BY <2>2 DEF Forecast
  <2>4. Inserted(c) = [rows EXCEPT ![f] = [rows[f] EXCEPT !.voids = rows[f].voids + 1]]
    BY <1>3 DEF Inserted
  <2>. QED  BY <1>0, <2>1, <2>3, <2>4, ExceptSeq
<1>. QED  BY <1>1, <1>2, <1>3 DEF LockInv, InLock

-----------------------------------------------------------------------------
(* Types.                                                                   *)

\* Whoever finishes leaves typed variables behind.
LEMMA FinishTypes ==
    ASSUME TypeOK, NEW w \in Worker, Finish(w)
    PROVE  /\ pc' \in [Worker -> {"idle", "return"} \cup InLock \cup Reading \cup Reporting]
           /\ call' \in [Worker -> Call]
           /\ record' \in [Worker -> Record] /\ report' \in [Worker -> Tally]
<1>1. NoCall \in Call
  BY DEF NoCall, Call
<1>2. NoRecord \in Record
  BY DEF NoRecord, Record
<1>3. NoReport \in Tally
  BY DEF NoReport, Tally
<1>. QED  BY <1>1, <1>2, <1>3 DEF Finish, TypeOK

LEMMA WriteStepTypes == TrackerInv /\ WriteStep => TypeOK'
<1> SUFFICES ASSUME TrackerInv, NEW w \in Worker,
                    \/ \E c \in Calls : Begin(w, c)
                    \/ Decide(w) \/ Refuse(w) \/ Absorb(w) \/ Insert(w)
                    \/ Commit(w) \/ CommitFails(w) \/ Attest(w) \/ AttestFails(w)
             PROVE  TypeOK'
  BY DEF WriteStep
<1> USE TrackerAssumption DEF TrackerInv, reading, clocks
<1>0. /\ DOMAIN rows \subseteq Nat /\ Len(rows) \in Nat
      /\ call[w] \in Call
  BY LenProperties DEF TypeOK
<1>1. ASSUME NEW c \in Calls, Begin(w, c) PROVE TypeOK'
  <2>1. c \in Call
    BY <1>0 DEF Calls, Call
  <2>. QED  BY <1>1, <2>1 DEF Begin, Acquire, TypeOK, InLock
<1>2. CASE Decide(w)
  <2>1. call[w].op = "log" => [call[w] EXCEPT !.now = wall, !.made = real] \in Call
    BY <1>0 DEF Call, TypeOK
  <2>2. call' \in [Worker -> Call]
    BY <1>2, <2>1 DEF Decide, TypeOK
  <2>. QED  BY <1>2, <2>2 DEF Decide, TypeOK, InLock
<1>3. CASE Refuse(w)
  BY <1>3, FinishTypes DEF Refuse, TypeOK
<1>4. CASE Absorb(w)
  <2>1. LastExisting(call[w].content) \in DOMAIN rows
    BY <1>4, LastExistingIsLast DEF Absorb, IsDuplicate, Existing, RowsInv
  <2>2. [call[w] EXCEPT !.forecast = LastExisting(call[w].content)] \in Call
    BY <1>0, <1>4, <2>1 DEF Absorb, Call
  <2>3. call' \in [Worker -> Call]
    BY <1>4, <2>2 DEF Absorb, TypeOK
  <2>. QED  BY <1>4, <2>3 DEF Absorb, TypeOK, Reading
<1>5. CASE Insert(w)
  <2>1. rows' \in Seq(Forecast)
    BY <1>5, InsertedType DEF Insert, RowsInv
  <2>2. call[w].op = "log" => [call[w] EXCEPT !.forecast = Len(rows) + 1] \in Call
    BY <1>0, SMTT(30) DEF Call
  <2>3. call' \in [Worker -> Call]
    BY <1>5, <2>2 DEF Insert, TypeOK
  <2>. QED  BY <1>5, <2>1, <2>3 DEF Insert, TypeOK, InLock
<1>6. CASE Commit(w)
  BY <1>6 DEF Commit, TypeOK, InLock
<1>7. CASE CommitFails(w)
  BY <1>7, FinishTypes DEF CommitFails, TypeOK
<1>8. CASE Attest(w)
  BY <1>8 DEF Attest, TypeOK, Reading
<1>9. CASE AttestFails(w)
  BY <1>9, FinishTypes DEF AttestFails, TypeOK
<1>. QED  BY <1>1, <1>2, <1>3, <1>4, <1>5, <1>6, <1>7, <1>8, <1>9

\* A report in progress stays one when its fields are updated.
LEMMA TallyTypes ==
    ASSUME TypeOK, NEW w \in Worker, NEW r \in Tally,
           report' = [report EXCEPT ![w] = r]
    PROVE  report' \in [Worker -> Tally]
BY DEF TypeOK

LEMMA ReadStepTypes == TrackerInv /\ ReadStep => TypeOK'
<1> SUFFICES ASSUME TrackerInv, NEW w \in Worker,
                    \/ \E f \in DOMAIN rows : Get(w, f)
                    \/ ReadResolution(w) \/ ReadCorrections(w) \/ ReadVoided(w)
                    \/ Unknown(w) \/ Report(w) \/ ReportRows(w) \/ ReportNext(w)
                    \/ ReportCorrected(w) \/ ReportVoided(w) \/ Return(w)
             PROVE  TypeOK'
  BY DEF ReadStep
<1> USE TrackerAssumption DEF TrackerInv, reading, clocks
<1>0. /\ DOMAIN rows \subseteq Nat /\ DOMAIN disk \subseteq Nat
      /\ Voided \subseteq Nat
  BY LenProperties DEF TypeOK, Voided
<1>a. ASSUME NEW f \in DOMAIN rows PROVE LatestResolution(f) \in Nat
  <2>1. rows \in Seq(Forecast)
    BY DEF TypeOK
  <2>2. rows[f] \in Forecast
    BY <2>1
  <2>. QED  BY <2>2, LenProperties DEF LatestResolution, Forecast
<1>1. ASSUME NEW f \in DOMAIN rows, Get(w, f) PROVE TypeOK'
  <2>1. [op |-> "get", forecast |-> f] \in Call
    BY <1>0 DEF Call
  <2>. QED  BY <1>1, <2>1 DEF Get, TypeOK, Reading
<1>2. CASE ReadResolution(w)
  <2>1. LatestResolution(call[w].forecast) \in Nat
    BY <1>2, <1>a DEF ReadResolution
  <2>. QED  BY <1>2, <2>1 DEF ReadResolution, TypeOK, Reading, Record
<1>3. CASE ReadCorrections(w)
  <2>1. CorrectionCount(call[w].forecast) \in Nat
    BY <1>3, CorrectionCountType DEF ReadCorrections
  <2>. QED  BY <1>3, <2>1 DEF ReadCorrections, TypeOK, Reading, Record
<1>4. CASE ReadVoided(w)
  <2>1. IsVoided(call[w].forecast) \in BOOLEAN
    BY DEF IsVoided
  <2>2. record' \in [Worker -> Record]
    <3>1. [record[w] EXCEPT !.voided = IsVoided(call[w].forecast)] \in Record
      BY <2>1 DEF TypeOK, Record
    <3>. QED  BY <1>4, <3>1 DEF ReadVoided, TypeOK
  <2>. QED  BY <1>4, <2>2 DEF ReadVoided, TypeOK
<1>5. CASE Unknown(w)
  BY <1>5, FinishTypes DEF Unknown, TypeOK
<1>6. CASE Report(w)
  <2>1. [op |-> "report"] \in Call
    BY DEF Call
  <2>. QED  BY <1>6, <2>1 DEF Report, TypeOK, Reporting
<1>7. CASE ReportRows(w)
  <2>1. /\ DOMAIN rows \ Voided \subseteq Nat
        /\ {f \in DOMAIN disk : disk[f].resolutions # << >>} \subseteq Nat
    BY <1>0
  <2>2. [report[w] EXCEPT
            !.todo = DOMAIN rows \ Voided,
            !.resolved = {f \in DOMAIN disk : disk[f].resolutions # << >>}] \in Tally
    BY <2>1 DEF TypeOK, Tally
  <2>3. report' \in [Worker -> Tally]
    BY <1>7, <2>2, TallyTypes DEF ReportRows
  <2>. QED  BY <1>7, <2>3 DEF ReportRows, TypeOK, Reporting
<1>8. CASE ReportNext(w)
  <2>1. PICK f \in report[w].todo :
           LET n == IF f \in DOMAIN rows THEN LatestResolution(f) ELSE 0
           IN /\ report' = [report EXCEPT
                     ![w].todo = @ \ {f},
                     ![w].pairs = IF n > 0 THEN @ \cup {<<f, n>>} ELSE @]
              /\ pc' = [pc EXCEPT ![w] = IF n > 0 THEN "corrected" ELSE "next"]
    BY <1>8 DEF ReportNext
  <2> DEFINE n == IF f \in DOMAIN rows THEN LatestResolution(f) ELSE 0
  <2>2. f \in Nat /\ n \in Nat
    <3>1. report[w] \in Tally
      BY DEF TypeOK
    <3>. QED  BY <1>a, <3>1 DEF Tally
  <2>3. pc' \in [Worker -> {"idle", "return"} \cup InLock \cup Reading \cup Reporting]
    BY <2>1 DEF TypeOK, Reporting
  <2>4. report' \in [Worker -> Tally]
    <3> DEFINE left == report[w].todo \ {f}
               pairs == IF n > 0 THEN report[w].pairs \cup {<<f, n>>}
                        ELSE report[w].pairs
    <3>1. report' = [report EXCEPT ![w] = [report[w] EXCEPT !.todo = left, !.pairs = pairs]]
      BY <2>1
    <3>2. left \in SUBSET Nat /\ pairs \in SUBSET (Nat \X Nat)
      BY <2>2 DEF TypeOK, Tally
    <3>. HIDE DEF left, pairs
    <3>3. [report[w] EXCEPT !.todo = left, !.pairs = pairs] \in Tally
      BY <3>2 DEF TypeOK, Tally
    <3>. QED  BY <3>1, <3>3, TallyTypes
  <2>. QED  BY <1>8, <2>3, <2>4 DEF ReportNext, TypeOK
<1>9. CASE ReportCorrected(w)
  <2>1. PICK f : report' = [report EXCEPT ![w].corrected =
                        IF f \in DOMAIN rows /\ CorrectionCount(f) > 0
                        THEN @ \cup {f} ELSE @]
    BY <1>9 DEF ReportCorrected
  <2>2. [report[w] EXCEPT !.corrected =
              IF f \in DOMAIN rows /\ CorrectionCount(f) > 0
              THEN @ \cup {f} ELSE @] \in Tally
    BY <1>0 DEF TypeOK, Tally
  <2>3. report' \in [Worker -> Tally]
    BY <2>1, <2>2, TallyTypes
  <2>. QED  BY <1>9, <2>3 DEF ReportCorrected, TypeOK, Reporting
<1>10. CASE ReportVoided(w)
  <2>1. [report[w] EXCEPT !.voided = Voided] \in Tally
    BY <1>0 DEF TypeOK, Tally
  <2>2. report' \in [Worker -> Tally]
    BY <1>10, <2>1, TallyTypes DEF ReportVoided
  <2>. QED  BY <1>10, <2>2 DEF ReportVoided, TypeOK
<1>11. CASE Return(w)
  BY <1>11, FinishTypes DEF Return, TypeOK
<1>. QED  BY <1>1, <1>2, <1>3, <1>4, <1>5, <1>6, <1>7, <1>8, <1>9, <1>10, <1>11

LEMMA TypeStep == TrackerInv /\ [Next]_vars => TypeOK'
<1>1. ASSUME TypeOK, Crash PROVE TypeOK'
  BY <1>1 DEF Crash, TypeOK, clocks, NoCall, Call, NoRecord, Record, NoReport, Tally
<1>2. ASSUME TypeOK, Tick \/ SetBack PROVE TypeOK'
  BY <1>2 DEF Tick, SetBack, TypeOK, reading
<1>3. ASSUME TypeOK, UNCHANGED vars PROVE TypeOK'
  BY <1>3 DEF TypeOK, vars, clocks
<1>. QED
  BY <1>1, <1>2, <1>3, WriteStepTypes, ReadStepTypes DEF Next, TrackerInv

-----------------------------------------------------------------------------
(* The lock.                                                                *)

\* A worker that leaves the lock, or stays in it with its call, disturbs nobody.
LEMMA StepLocks ==
    ASSUME LockInv, NEW w \in Worker,
           \A v \in Worker \ {w} : pc'[v] = pc[v] /\ call'[v] = call[v],
           pc'[w] \in InLock =>
               lock' = w /\ call'[w].op \in {"log", "resolve", "void"},
           lock' = lock \/ lock \in {w, NoWorker} \/ pc[w] \in InLock
    PROVE  LockInv'
<1> SUFFICES ASSUME NEW v \in Worker, pc'[v] \in InLock
             PROVE  lock' = v /\ call'[v].op \in {"log", "resolve", "void"}
  BY DEF LockInv
<1>1. CASE v = w
  BY <1>1
<1>2. CASE v # w
  <2>1. pc[v] \in InLock /\ call'[v] = call[v]
    BY <1>2
  <2>2. lock = v /\ call[v].op \in {"log", "resolve", "void"}
    BY <2>1 DEF LockInv
  <2>3. lock \notin {w, NoWorker} /\ pc[w] \notin InLock
    BY <1>2, <2>2, TrackerAssumption DEF LockInv
  <2>. QED  BY <2>1, <2>2, <2>3
<1>. QED  BY <1>1, <1>2

LEMMA WriteStepLocks == TrackerInv /\ WriteStep => LockInv'
<1> SUFFICES ASSUME TrackerInv, NEW w \in Worker,
                    \/ \E c \in Calls : Begin(w, c)
                    \/ Decide(w) \/ Refuse(w) \/ Absorb(w) \/ Insert(w)
                    \/ Commit(w) \/ CommitFails(w) \/ Attest(w) \/ AttestFails(w)
             PROVE  LockInv'
  BY DEF WriteStep
<1>0. /\ pc \in [Worker -> {"idle", "return"} \cup InLock \cup Reading \cup Reporting]
      /\ call \in [Worker -> Call] /\ LockInv
  BY DEF TrackerInv, TypeOK
<1>1. ASSUME NEW c \in Calls, Begin(w, c) PROVE LockInv'
  <2>1. c.op \in {"log", "resolve", "void"}
    BY DEF Calls
  <2>. QED  BY <1>0, <1>1, <2>1, StepLocks DEF Begin, Acquire
<1>2. ASSUME pc[w] \in InLock, pc'[w] \in InLock, lock' = lock,
             call'[w].op = call[w].op,
             \A v \in Worker \ {w} : pc'[v] = pc[v] /\ call'[v] = call[v]
      PROVE  LockInv'
  BY <1>0, <1>2, StepLocks DEF LockInv
<1>3. ASSUME pc[w] \in InLock, pc'[w] \notin InLock,
             \A v \in Worker \ {w} : pc'[v] = pc[v] /\ call'[v] = call[v]
      PROVE  LockInv'
  BY <1>0, <1>3, StepLocks
<1>4. CASE Decide(w)
  <2>1. call'[w].op = call[w].op
    BY <1>0, <1>4 DEF Decide, Call
  <2>. QED  BY <1>0, <1>2, <1>4, <2>1 DEF Decide, InLock
<1>5. CASE Insert(w)
  <2>1. call'[w].op = call[w].op
    BY <1>0, <1>5 DEF Insert, Call
  <2>. QED  BY <1>0, <1>2, <1>5, <2>1 DEF Insert, InLock
<1>6. CASE Commit(w)
  BY <1>0, <1>2, <1>6 DEF Commit, InLock
<1>7. CASE Refuse(w)
  BY <1>0, <1>3, <1>7 DEF Refuse, Finish, InLock
<1>8. CASE Absorb(w)
  BY <1>0, <1>3, <1>8 DEF Absorb, InLock
<1>9. CASE CommitFails(w)
  BY <1>0, <1>3, <1>9 DEF CommitFails, Finish, InLock
<1>10. CASE Attest(w)
  BY <1>0, <1>3, <1>10 DEF Attest, InLock
<1>11. CASE AttestFails(w)
  BY <1>0, <1>3, <1>11 DEF AttestFails, Finish, InLock
<1>. QED
  BY <1>1, <1>4, <1>5, <1>6, <1>7, <1>8, <1>9, <1>10, <1>11

\* What a read does to the lock, the forecasts and the other workers.
LEMMA ReadStepFrame ==
    ASSUME TypeOK, ReadStep
    PROVE  \E w \in Worker :
               /\ pc'[w] \notin InLock
               /\ lock' = lock \/ lock = w
               /\ pc[w] \notin InLock
               /\ \A v \in Worker \ {w} : pc'[v] = pc[v] /\ call'[v] = call[v]
               /\ UNCHANGED <<rows, disk, clocks>>
<1>1. PICK w \in Worker :
        \/ \E f \in DOMAIN rows : Get(w, f)
        \/ ReadResolution(w) \/ ReadCorrections(w) \/ ReadVoided(w)
        \/ Unknown(w) \/ Report(w) \/ ReportRows(w) \/ ReportNext(w)
        \/ ReportCorrected(w) \/ ReportVoided(w) \/ Return(w)
  BY DEF ReadStep
<1>0. pc \in [Worker -> {"idle", "return"} \cup InLock \cup Reading \cup Reporting]
      /\ call \in [Worker -> Call]
  BY DEF TypeOK
<1> USE DEF InLock, Reading
<1>2. CASE \E f \in DOMAIN rows : Get(w, f)
  BY <1>0, <1>2 DEF Get
<1>3. CASE ReadResolution(w) \/ ReadCorrections(w) \/ ReadVoided(w)
  BY <1>0, <1>3 DEF ReadResolution, ReadCorrections, ReadVoided
<1>4. CASE Unknown(w) \/ Return(w)
  BY <1>0, <1>4 DEF Unknown, Return, Finish
<1>5. CASE Report(w) \/ ReportRows(w)
  BY <1>0, <1>5 DEF Report, ReportRows
<1>6. CASE ReportNext(w)
  <2>1. /\ pc[w] = "next" /\ UNCHANGED <<disk, rows, lock, call, clocks>>
        /\ \E s \in {"corrected", "next"} : pc' = [pc EXCEPT ![w] = s]
    BY <1>6 DEF ReportNext
  <2>. QED  BY <1>0, <2>1
<1>7. CASE ReportCorrected(w) \/ ReportVoided(w)
  BY <1>0, <1>7 DEF ReportCorrected, ReportVoided
<1>. QED  BY <1>1, <1>2, <1>3, <1>4, <1>5, <1>6, <1>7

LEMMA LockStep == TrackerInv /\ [Next]_vars => LockInv'
<1>1. ASSUME TrackerInv, ReadStep PROVE LockInv'
  <2>1. PICK w \in Worker :
               /\ pc'[w] \notin InLock
               /\ lock' = lock \/ lock = w
               /\ \A v \in Worker \ {w} : pc'[v] = pc[v] /\ call'[v] = call[v]
    BY <1>1, ReadStepFrame DEF TrackerInv
  <2>. QED  BY <1>1, <2>1, StepLocks DEF TrackerInv
<1>2. ASSUME TrackerInv, Crash PROVE LockInv'
  BY <1>2 DEF Crash, LockInv, InLock
<1>3. ASSUME TrackerInv, Tick \/ SetBack \/ UNCHANGED vars PROVE LockInv'
  BY <1>3 DEF Tick, SetBack, vars, LockInv, TrackerInv
<1>. QED  BY <1>1, <1>2, <1>3, WriteStepLocks DEF Next

-----------------------------------------------------------------------------
(* The forecasts.                                                           *)

\* Steps that change neither forecasts nor clocks, and do not decide.
LEMMA RowsFrame ==
    ASSUME RowsInv, NEW w \in Worker, UNCHANGED <<rows, disk, clocks>>,
           pc[w] # "commit", pc'[w] # "insert",
           \A v \in Worker \ {w} : pc'[v] = pc[v] /\ call'[v] = call[v]
    PROVE  RowsInv'
<1>1. UNCHANGED <<rows, disk, wall, real>>
  BY DEF clocks
<1>2. RowsAreCommitted'
  BY <1>1 DEF RowsInv, RowsAreCommitted
<1>3. Sound(rows)' /\ Sound(disk)'
  BY <1>1 DEF RowsInv, Sound, Stamped, NoYounger
<1>4. ASSUME NEW v \in Worker, pc'[v] = "insert" PROVE Decided(v)'
  <2>1. v # w /\ pc[v] = "insert" /\ call'[v] = call[v]
    BY <1>4
  <2>2. Decided(v)
    BY <2>1 DEF RowsInv
  <2>. QED
    BY <1>1, <2>1, <2>2
       DEF Decided, NoYounger, Existing, MayResolve, MayVoid, IsVoided
<1>. QED  BY <1>2, <1>3, <1>4 DEF RowsInv

\* The checks of a write, read under the lock, are what its INSERT needs.
LEMMA DecideRows ==
    ASSUME TrackerInv, NEW w \in Worker, Decide(w)
    PROVE  RowsInv'
<1> USE TrackerAssumption DEF TrackerInv
<1>0. /\ UNCHANGED <<rows, disk, wall, real>>
      /\ pc[w] = "decide" /\ \A v \in Worker \ {w} : pc'[v] = pc[v]
      /\ Allowed(call[w])
  BY DEF Decide, clocks, TypeOK
<1>1. /\ rows \in Seq(Forecast) /\ call[w] \in Call /\ wall \in Nat /\ real \in Nat
  BY DEF TypeOK
<1>2. RowsAreCommitted'
  BY <1>0 DEF RowsInv, RowsAreCommitted
<1>3. Sound(rows)' /\ Sound(disk)'
  BY <1>0 DEF RowsInv, Sound, Stamped, NoYounger
<1>4. ASSUME NEW v \in Worker, v # w, pc'[v] = "insert" PROVE Decided(v)'
  BY <1>0, <1>4, Alone DEF InLock
<1>5. Decided(w)'
  <2>1. CASE call[w].op = "log"
    <3> DEFINE c == call[w].content
    <3>1. call'[w] = [call[w] EXCEPT !.now = wall, !.made = real]
      BY <2>1 DEF Decide, TypeOK
    <3>2. /\ call'[w].op = "log" /\ call'[w].content = c
          /\ call'[w].now = wall /\ call'[w].made = real
      BY <1>1, <2>1, <3>1 DEF Call
    <3>3. NoYounger(call[w].now, call[w].made)'
      BY <1>0, <1>1, <3>2 DEF NoYounger
    <3>4. ASSUME NEW f \in Existing(c) PROVE real - rows[f].made > Window
      <4>1. ~IsDuplicate(c)
        BY <1>0, <2>1 DEF Allowed
      <4> DEFINE last == LastExisting(c)
      <4>2. last \in Existing(c) /\ f <= last
        BY <3>4, LastExistingIsLast DEF RowsInv
      <4>3. wall - rows[last].created_ts > Window
        <5>1. rows[last] \in Forecast
          BY <1>1, <4>2 DEF Existing
        <5>. QED  BY <1>1, <3>4, <4>1, <5>1 DEF IsDuplicate, Forecast
      <4>4. /\ f \in DOMAIN rows /\ last \in DOMAIN rows
            /\ rows[f].content = rows[last].content
        BY <4>2 DEF Existing
      <4>5. /\ rows[f].made \in Nat /\ rows[last].made \in Nat
            /\ rows[last].created_ts \in Nat
        <5>1. rows[f] \in Forecast /\ rows[last] \in Forecast
          BY <1>1, <4>4
        <5>. QED  BY <5>1 DEF Forecast
      <4>6. real - rows[last].made > Window
        <5>1. wall - rows[last].created_ts <= real - rows[last].made
          BY <4>4 DEF RowsInv, Sound, Stamped, NoYounger
        <5>. QED  BY <1>1, <4>3, <4>5, <5>1
      <4>7. f # last => rows[last].made - rows[f].made > Window
        <5>1. f \in Int /\ last \in Int
          BY <1>1, <4>4
        <5>2. f # last => f < last
          BY <4>2, <5>1
        <5>. QED  BY <4>4, <5>2 DEF RowsInv, Sound, Spaced
      <4>. HIDE DEF last
      <4>. QED  BY <1>1, <4>5, <4>6, <4>7
    <3>5. \A f \in Existing(call[w].content)' :
              call'[w].made - rows'[f].made > Window
      BY <1>0, <3>2, <3>4 DEF Existing
    <3>. QED  BY <3>2, <3>3, <3>5 DEF Decided
  <2>2. CASE call[w].op # "log"
    <3>1. call' = call
      BY <2>2 DEF Decide
    <3>. QED
      BY <1>0, <2>2, <3>1 DEF Allowed, Decided, MayResolve, MayVoid, IsVoided
  <2>. QED  BY <2>1, <2>2
<1>. QED  BY <1>2, <1>3, <1>4, <1>5 DEF RowsInv

\* A write to a forecast's resolutions or voids leaves its place in the ledger.
LEMMA SamePlace ==
    ASSUME Sound(rows), UNCHANGED <<wall, real>>, DOMAIN rows' = DOMAIN rows,
           \A f \in DOMAIN rows :
               /\ rows'[f].content = rows[f].content
               /\ rows'[f].created_ts = rows[f].created_ts
               /\ rows'[f].made = rows[f].made
    PROVE  Spaced(rows)' /\ HasLast(rows)' /\ Stamped(rows)'
<1>1. Spaced(rows)'
  BY DEF Sound, Spaced
<1>2. HasLast(rows)'
  <2> SUFFICES ASSUME NEW f \in DOMAIN rows
               PROVE  \E g \in DOMAIN rows :
                          /\ rows'[g].content = rows'[f].content
                          /\ \A h \in DOMAIN rows :
                                rows'[h].content = rows'[f].content => h <= g
    BY DEF HasLast
  <2>1. PICK g \in DOMAIN rows :
            /\ rows[g].content = rows[f].content
            /\ \A h \in DOMAIN rows : rows[h].content = rows[f].content => h <= g
    BY DEF Sound, HasLast
  <2>. QED  BY <2>1
<1>3. Stamped(rows)'
  BY DEF Sound, Stamped, NoYounger
<1>. QED  BY <1>1, <1>2, <1>3

\* The forecast log_forecast inserts.
LEMMA LogSound ==
    ASSUME TrackerInv, NEW w \in Worker, Insert(w), call[w].op = "log", Decided(w)
    PROVE  Sound(rows)'
<1> DEFINE c == call[w]
           row == [content |-> c.content, created_ts |-> c.now, made |-> c.made,
                   resolutions |-> << >>, voids |-> 0]
           n == Len(rows) + 1
<1>0. rows \in Seq(Forecast) /\ Sound(rows) /\ UNCHANGED <<wall, real>>
  BY DEF TrackerInv, TypeOK, RowsInv, Insert, clocks
<1>1. rows' = Append(rows, row)
  BY DEF Insert, Inserted
<1>2. /\ row.content = c.content /\ row.created_ts = c.now /\ row.made = c.made
      /\ row.resolutions = << >> /\ row.voids = 0
  OBVIOUS
<1>3. /\ NoYounger(c.now, c.made)
      /\ \A f \in Existing(c.content) : c.made - rows[f].made > Window
  BY DEF Decided
<1> HIDE DEF row, c
<1>4. /\ Len(rows) \in Nat /\ DOMAIN rows = 1 .. Len(rows)
      /\ DOMAIN rows' = DOMAIN rows \cup {n} /\ n \notin DOMAIN rows
      /\ rows'[n] = row /\ \A i \in DOMAIN rows : rows'[i] = rows[i] /\ i < n
      /\ n <= n
  BY <1>0, <1>1, AppendProperties, LenProperties
<1>a. \A i \in DOMAIN rows : ~(n < i) /\ i <= n
  BY <1>4
<1> HIDE DEF n
<1>5. Verdicts(rows)'
  BY <1>0, <1>2, <1>4, EmptySeq DEF Sound, Verdicts
<1>6. Spaced(rows)'
  <2> SUFFICES ASSUME NEW f \in DOMAIN rows', NEW g \in DOMAIN rows',
                      f < g, rows'[f].content = rows'[g].content
               PROVE  rows'[g].made - rows'[f].made > Window
    BY DEF Spaced
  <2>1. CASE f \in DOMAIN rows /\ g \in DOMAIN rows
    BY <1>0, <1>4, <2>1 DEF Sound, Spaced
  <2>2. CASE f \in DOMAIN rows /\ g = n
    BY <1>2, <1>3, <1>4, <2>2 DEF Existing
  <2>3. f # n
    BY <1>4, <1>a
  <2>. QED  BY <1>4, <2>1, <2>2, <2>3
<1>7. HasLast(rows)'
  <2> SUFFICES ASSUME NEW f \in DOMAIN rows'
               PROVE  \E g \in DOMAIN rows' :
                          /\ rows'[g].content = rows'[f].content
                          /\ \A h \in DOMAIN rows' :
                                rows'[h].content = rows'[f].content => h <= g
    BY DEF HasLast
  <2>1. CASE rows'[f].content = rows'[n].content
    BY <1>4, <1>a, <2>1
  <2>2. CASE rows'[f].content # rows'[n].content
    <3>1. f \in DOMAIN rows
      BY <1>4, <2>2
    <3>2. PICK g \in DOMAIN rows :
            /\ rows[g].content = rows[f].content
            /\ \A h \in DOMAIN rows : rows[h].content = rows[f].content => h <= g
      BY <1>0, <3>1 DEF Sound, HasLast
    <3>. QED  BY <1>4, <2>2, <3>1, <3>2
  <2>. QED  BY <2>1, <2>2
<1>8. Stamped(rows)'
  BY <1>0, <1>2, <1>3, <1>4 DEF Sound, Stamped, NoYounger
<1>. QED  BY <1>5, <1>6, <1>7, <1>8 DEF Sound

\* The resolution resolve_forecast inserts.
LEMMA ResolveSound ==
    ASSUME TrackerInv, NEW w \in Worker, Insert(w), call[w].op = "resolve", Decided(w)
    PROVE  Sound(rows)'
<1> DEFINE c == call[w]
           e == c.forecast
           said == [outcome |-> c.outcome, is_correction |-> c.is_correction]
           old == rows[e].resolutions
<1>0. rows \in Seq(Forecast) /\ Sound(rows) /\ UNCHANGED <<wall, real>>
  BY DEF TrackerInv, TypeOK, RowsInv, Insert, clocks
<1>1. e \in DOMAIN rows /\ rows[e].voids <= 0 /\ (c.is_correction <=> old # << >>)
  <2>1. MayResolve(e, c.is_correction)
    BY DEF Decided
  <2>2. rows[e] \in Forecast
    BY <1>0, <2>1 DEF MayResolve
  <2>. QED  BY <2>1, <2>2 DEF MayResolve, IsVoided, Forecast
<1>2. rows' = [rows EXCEPT ![e].resolutions = Append(old, said)]
  BY DEF Insert, Inserted
<1>3. rows[e] \in Forecast
  BY <1>0, <1>1
<1>4. old \in Seq(Resolution) /\ rows[e].voids = 0
  BY <1>1, <1>3 DEF Forecast
<1>5. said \in Resolution /\ said.is_correction = c.is_correction
  <2>1. c \in Call
    BY DEF TrackerInv, TypeOK
  <2>. QED  BY <2>1 DEF Call, Resolution
<1>6. /\ DOMAIN rows' = DOMAIN rows
      /\ rows'[e].resolutions = Append(old, said) /\ rows'[e].voids = 0
      /\ \A f \in DOMAIN rows \ {e} : rows'[f] = rows[f]
      /\ \A f \in DOMAIN rows :
            /\ rows'[f].content = rows[f].content
            /\ rows'[f].created_ts = rows[f].created_ts
            /\ rows'[f].made = rows[f].made
  <2> HIDE DEF said, old
  <2>. QED  BY <1>0, <1>1, <1>2, <1>3, <1>4 DEF Forecast
<1>7. Verdicts(rows)'
  <2>1. ASSUME NEW i \in DOMAIN rows'[e].resolutions
        PROVE  rows'[e].resolutions[i].is_correction <=> i > 1
    <3> HIDE DEF said, c
    <3>1. /\ Len(old) \in Nat /\ DOMAIN old = 1 .. Len(old)
          /\ DOMAIN Append(old, said) = 1 .. Len(old) + 1
          /\ Append(old, said)[Len(old) + 1] = said
          /\ \A j \in 1 .. Len(old) : Append(old, said)[j] = old[j]
      BY <1>4, <1>5, AppendProperties, LenProperties
    <3>2. old = << >> <=> Len(old) = 0
      BY <1>4, EmptySeq
    <3>3. \A j \in DOMAIN old : old[j].is_correction <=> j > 1
      BY <1>0, <1>1 DEF Sound, Verdicts
    <3>4. CASE i = Len(old) + 1
      BY <1>1, <1>5, <1>6, <3>1, <3>2, <3>4
    <3>5. CASE i \in 1 .. Len(old)
      BY <1>6, <3>1, <3>3, <3>5
    <3>. QED  BY <1>6, <3>1, <3>4, <3>5
  <2>2. ASSUME NEW f \in DOMAIN rows, f # e
        PROVE  /\ \A i \in DOMAIN rows'[f].resolutions :
                     rows'[f].resolutions[i].is_correction <=> i > 1
               /\ rows'[f].voids <= 1
               /\ rows'[f].voids = 0 \/ rows'[f].resolutions = << >>
    <3>1. rows'[f] = rows[f]
      BY <1>6, <2>2
    <3>. QED  BY <1>0, <3>1 DEF Sound, Verdicts
  <2>3. rows'[e].voids = 0
    BY <1>6
  <2> HIDE DEF e
  <2>. QED  BY <1>6, <2>1, <2>2, <2>3 DEF Verdicts
<1>. QED  BY <1>0, <1>6, <1>7, SamePlace DEF Sound

\* The void void_forecast inserts.
LEMMA VoidSound ==
    ASSUME TrackerInv, NEW w \in Worker, Insert(w), call[w].op = "void", Decided(w)
    PROVE  Sound(rows)'
<1> DEFINE e == call[w].forecast
<1>0. rows \in Seq(Forecast) /\ Sound(rows) /\ UNCHANGED <<wall, real>>
  BY DEF TrackerInv, TypeOK, RowsInv, Insert, clocks
<1>1. e \in DOMAIN rows /\ rows[e].resolutions = << >> /\ ~(rows[e].voids > 0)
  BY DEF Decided, MayVoid, IsVoided
<1>2. rows[e] \in Forecast
  BY <1>0, <1>1
<1>3. rows[e].voids = 0
  BY <1>1, <1>2 DEF Forecast
<1>4. rows' = [rows EXCEPT ![e] = [rows[e] EXCEPT !.voids = 1]]
  <2>1. rows' = [rows EXCEPT ![e] = [rows[e] EXCEPT !.voids = rows[e].voids + 1]]
    BY DEF Insert, Inserted
  <2>. QED  BY <1>3, <2>1
<1>5. /\ DOMAIN rows' = DOMAIN rows
      /\ rows'[e].resolutions = << >> /\ rows'[e].voids = 1
      /\ \A f \in DOMAIN rows \ {e} : rows'[f] = rows[f]
      /\ \A f \in DOMAIN rows :
            /\ rows'[f].content = rows[f].content
            /\ rows'[f].created_ts = rows[f].created_ts
            /\ rows'[f].made = rows[f].made
  <2> HIDE DEF e
  <2>. QED  BY <1>0, <1>1, <1>2, <1>4 DEF Forecast
<1>6. Verdicts(rows)'
  BY <1>0, <1>5, EmptySeq DEF Sound, Verdicts
<1>. QED  BY <1>0, <1>5, <1>6, SamePlace DEF Sound

LEMMA InsertRows ==
    ASSUME TrackerInv, NEW w \in Worker, Insert(w)
    PROVE  RowsInv'
<1>0. /\ pc[w] = "insert" /\ pc'[w] = "commit"
      /\ \A v \in Worker \ {w} : pc'[v] = pc[v]
      /\ UNCHANGED <<disk, wall, real>>
  BY DEF Insert, TrackerInv, TypeOK, clocks
<1>1. Decided(w)
  BY <1>0 DEF TrackerInv, RowsInv
<1>2. call[w].op \in {"log", "resolve", "void"}
  BY <1>0 DEF TrackerInv, LockInv, InLock
<1>3. Sound(rows)'
  BY <1>1, <1>2, LogSound, ResolveSound, VoidSound
<1>4. Sound(disk)'
  BY <1>0 DEF TrackerInv, RowsInv, Sound, Stamped, NoYounger
<1>5. RowsAreCommitted'
  BY <1>0 DEF RowsAreCommitted
<1>6. \A v \in Worker : pc'[v] # "insert"
  BY <1>0, Alone DEF TrackerInv, InLock
<1>. QED  BY <1>3, <1>4, <1>5, <1>6 DEF RowsInv

\* The end of a transaction: it is committed, or rolled back.
LEMMA EndRows ==
    ASSUME TrackerInv, NEW w \in Worker, Commit(w) \/ CommitFails(w)
    PROVE  RowsInv'
<1>0. /\ pc[w] = "commit" /\ pc'[w] \notin {"commit", "insert"}
      /\ \A v \in Worker \ {w} : pc'[v] = pc[v]
      /\ rows' = disk' /\ rows' \in {rows, disk}
      /\ UNCHANGED <<wall, real>>
  BY DEF Commit, CommitFails, Finish, TrackerInv, TypeOK, clocks
<1>1. Sound(rows)' /\ Sound(disk)'
  BY <1>0 DEF TrackerInv, RowsInv, Sound, Stamped, NoYounger
<1>2. RowsAreCommitted'
  BY <1>0 DEF RowsAreCommitted
<1>3. \A v \in Worker : pc'[v] # "insert"
  BY <1>0, Alone DEF TrackerInv, InLock
<1>. QED  BY <1>1, <1>2, <1>3 DEF RowsInv

LEMMA WriteRows == TrackerInv /\ WriteStep => RowsInv'
<1> SUFFICES ASSUME TrackerInv, NEW w \in Worker,
                    \/ \E c \in Calls : Begin(w, c)
                    \/ Decide(w) \/ Refuse(w) \/ Absorb(w) \/ Insert(w)
                    \/ Commit(w) \/ CommitFails(w) \/ Attest(w) \/ AttestFails(w)
             PROVE  RowsInv'
  BY DEF WriteStep
<1>0. /\ pc \in [Worker -> {"idle", "return"} \cup InLock \cup Reading \cup Reporting]
      /\ call \in [Worker -> Call] /\ RowsInv
  BY DEF TrackerInv, TypeOK
<1>1. ASSUME NEW c \in Calls, Begin(w, c) PROVE RowsInv'
  BY <1>0, <1>1, RowsFrame DEF Begin
<1>2. CASE Refuse(w)
  BY <1>0, <1>2, RowsFrame DEF Refuse, Finish
<1>3. CASE Absorb(w)
  BY <1>0, <1>3, RowsFrame DEF Absorb
<1>4. CASE Attest(w)
  BY <1>0, <1>4, RowsFrame DEF Attest
<1>5. CASE AttestFails(w)
  BY <1>0, <1>5, RowsFrame DEF AttestFails, Finish
<1>. QED
  BY <1>1, <1>2, <1>3, <1>4, <1>5, DecideRows, InsertRows, EndRows

LEMMA ReadRows == TrackerInv /\ ReadStep => RowsInv'
<1> SUFFICES ASSUME TrackerInv, ReadStep PROVE RowsInv'
  OBVIOUS
<1>1. PICK w \in Worker :
          /\ pc'[w] \notin InLock /\ pc[w] \notin InLock
          /\ \A v \in Worker \ {w} : pc'[v] = pc[v] /\ call'[v] = call[v]
          /\ UNCHANGED <<rows, disk, clocks>>
  BY ReadStepFrame DEF TrackerInv
<1>. QED  BY <1>1, RowsFrame DEF TrackerInv, InLock

\* A clock that runs no faster than the other shows no greater age.
LEMMA StaysOlder ==
    \A r, r2, c, c2, ts, made \in Nat :
        /\ c - ts <= r - made
        /\ \/ c2 = c + 1 /\ r2 = r + 1
           \/ c2 <= c /\ r2 = r
        => c2 - ts <= r2 - made
OBVIOUS

\* Time: nothing gets younger, whichever way the wall clock goes.
LEMMA ClockRows ==
    ASSUME TrackerInv, Tick \/ SetBack
    PROVE  RowsInv'
<1>0. UNCHANGED <<disk, rows, pc, call>>
  BY DEF Tick, SetBack
<1>1. /\ rows \in Seq(Forecast) /\ disk \in Seq(Forecast) /\ call \in [Worker -> Call]
      /\ real \in Nat /\ wall \in Nat
  BY DEF TrackerInv, TypeOK
<1>2. /\ wall' \in Nat /\ real' \in Nat
      /\ \/ wall' = wall + 1 /\ real' = real + 1
         \/ wall' <= wall /\ real' = real
  BY <1>1 DEF Tick, SetBack
<1>3. ASSUME NEW ts \in Nat, NEW made \in Nat, wall - ts <= real - made
      PROVE  wall' - ts <= real' - made
  BY <1>1, <1>2, <1>3, StaysOlder, Zenon
<1>4. ASSUME NEW s \in Seq(Forecast),
             \A f \in DOMAIN s : wall - s[f].created_ts <= real - s[f].made
      PROVE  \A f \in DOMAIN s : wall' - s[f].created_ts <= real' - s[f].made
  <2> SUFFICES ASSUME NEW f \in DOMAIN s
               PROVE  wall' - s[f].created_ts <= real' - s[f].made
    OBVIOUS
  <2>1. s[f].created_ts \in Nat /\ s[f].made \in Nat
    <3>1. s[f] \in Forecast
      OBVIOUS
    <3>. QED  BY <3>1 DEF Forecast
  <2>. QED  BY <1>3, <1>4, <2>1
<1>5. Stamped(rows)' /\ Stamped(disk)'
  BY <1>0, <1>1, <1>4 DEF TrackerInv, RowsInv, Sound, Stamped, NoYounger
<1>6. Sound(rows)' /\ Sound(disk)'
  BY <1>0, <1>5 DEF TrackerInv, RowsInv, Sound
<1>7. ASSUME NEW v \in Worker, pc'[v] = "insert" PROVE Decided(v)'
  <2>1. Decided(v)
    BY <1>0, <1>7 DEF TrackerInv, RowsInv
  <2>2. CASE call[v].op = "log"
    <3>1. call[v].now \in Nat /\ call[v].made \in Nat
      BY <1>1, <2>2 DEF Call
    <3>2. NoYounger(call[v].now, call[v].made)'
      BY <1>0, <1>3, <2>1, <2>2, <3>1 DEF Decided, NoYounger
    <3>. QED  BY <1>0, <2>1, <2>2, <3>2 DEF Decided, Existing
  <2>3. CASE call[v].op # "log"
    BY <1>0, <2>1, <2>3 DEF Decided, MayResolve, MayVoid, IsVoided
  <2>. QED  BY <2>2, <2>3
<1>8. RowsAreCommitted'
  BY <1>0 DEF TrackerInv, RowsInv, RowsAreCommitted
<1>. QED  BY <1>6, <1>7, <1>8 DEF RowsInv

LEMMA RowsStep == TrackerInv /\ [Next]_vars => RowsInv'
<1>1. ASSUME TrackerInv, Crash PROVE RowsInv'
  BY <1>1
     DEF Crash, TrackerInv, RowsInv, RowsAreCommitted, Sound, Stamped, NoYounger, clocks
<1>2. ASSUME TrackerInv, UNCHANGED vars PROVE RowsInv'
  <2>1. UNCHANGED <<disk, rows, pc, call, wall, real>>
    BY <1>2 DEF vars, clocks
  <2>2. Sound(rows)' /\ Sound(disk)' /\ RowsAreCommitted'
    BY <1>2, <2>1
       DEF TrackerInv, RowsInv, RowsAreCommitted, Sound, Stamped, NoYounger
  <2>3. ASSUME NEW v \in Worker, pc'[v] = "insert" PROVE Decided(v)'
    <3>1. Decided(v)
      BY <1>2, <2>1, <2>3 DEF TrackerInv, RowsInv
    <3>. QED
      BY <2>1, <3>1 DEF Decided, NoYounger, Existing, MayResolve, MayVoid, IsVoided
  <2>. QED  BY <2>2, <2>3 DEF RowsInv
<1>. QED  BY <1>1, <1>2, WriteRows, ReadRows, ClockRows DEF Next

-----------------------------------------------------------------------------
(* The theorems.                                                            *)

LEMMA TrackerInit == Init => TrackerInv
<1> SUFFICES ASSUME Init PROVE TrackerInv
  OBVIOUS
<1>1. TypeOK
  BY EmptySeq
     DEF Init, TypeOK, NoCall, Call, NoRecord, Record, NoReport, Tally
<1>2. LockInv
  BY DEF Init, LockInv, InLock
<1>3. DOMAIN disk = {} /\ DOMAIN rows = {}
  BY EmptySeq DEF Init
<1>4. RowsInv
  BY <1>3
     DEF Init, RowsInv, RowsAreCommitted, Sound, Verdicts, Spaced, HasLast, Stamped
<1>. QED  BY <1>1, <1>2, <1>4 DEF TrackerInv

\* The inductive invariant holds of every behaviour.
THEOREM TrackerInvHolds == Spec => []TrackerInv
<1>1. TrackerInv /\ [Next]_vars => TrackerInv'
  BY TypeStep, LockStep, RowsStep DEF TrackerInv
<1>. QED  BY <1>1, TrackerInit, PTL DEF Spec

\* Forecasts, calls, records and reports keep their types.
THEOREM TypeCorrect == Spec => []TypeOK
<1>1. TrackerInv => TypeOK
  BY DEF TrackerInv
<1>. QED  BY <1>1, TrackerInvHolds, PTL

\* resolve_forecast and void_forecast, however many threads call them: a forecast
\* has one first resolution, only corrections after it, and is never both resolved
\* and voided nor voided twice.
THEOREM OneVerdictHolds == Spec => []OneVerdict
<1>1. TrackerInv => OneVerdict
  BY DEF TrackerInv, RowsInv, Sound, Verdicts, OneVerdict
<1>. QED  BY <1>1, TrackerInvHolds, PTL

\* log_forecast, however often it is retried and however the wall clock is set
\* back: two forecasts of one content are more than the window apart.
THEOREM NeverLockedTwice == Spec => []NoDuplicate
<1>1. TrackerInv => NoDuplicate
  BY DEF TrackerInv, RowsInv, Sound, Spaced, NoDuplicate
<1>. QED  BY <1>1, TrackerInvHolds, PTL

\* The rollback of a failed commit on the connection all threads share takes back
\* the row of its own call and nothing else.
THEOREM RollbackIsLocal == Spec => []RowsAreCommitted
<1>1. TrackerInv => RowsAreCommitted
  BY DEF TrackerInv, RowsInv
<1>. QED  BY <1>1, TrackerInvHolds, PTL
=============================================================================
