-------------------------- MODULE CollectThenGrade --------------------------
(***************************************************************************)
(* The gate between two servers.  The evidence ledger grades evidence and  *)
(* writes two signals about each grade into the signal store; the ACH      *)
(* engine rates cells of a matrix and ranks it only if every rated item is *)
(* graded analyst_confirmed and no cell is older than the last grade.      *)
(*                                                                         *)
(* There is no transaction over the two databases: a grade is committed,   *)
(* attested, and only then signalled, each signal being committed and      *)
(* attested in turn, with one retry of both; the engine reads the signals  *)
(* one SELECT after the other while the ledger writes.                     *)
(*                                                                         *)
(* A ledger process (its lock keeps others out) and an engine process run  *)
(* several threads each.  What is committed is all the other process sees, *)
(* so a commit is one step.  The engine's own rows are visible to its      *)
(* threads from the INSERT on; its INSERT and commit are one step here.    *)
(* What a grade or a rating says besides its judgment_source is left out.  *)
(***************************************************************************)
EXTENDS Integers, Sequences, FiniteSets

CONSTANTS
    Grader,        \* threads of the evidence ledger
    Analyst,       \* threads of the ACH engine
    Nobody,        \* "nobody holds the ledger's write lock"
    Evidence,      \* evidence items
    Sources,       \* the judgment sources graders use in this instance
    Faults,        \* the errors considered: "insert", "attest"
    Ticks,         \* how far the clock moves between two readings, 0: not at all
    MaxGrades,     \* bound: grades of one item
    MaxCells,      \* bound: ratings
    MaxHypotheses, \* bound: hypotheses of the matrix
    MaxCrashes,    \* bound: crashes of the ledger
    MaxSteps       \* bound: times the wall clock is set back

Source == {"model_draft", "analyst_confirmed"}

ASSUME GateAssumption ==
    /\ Grader \cap Analyst = {} /\ Nobody \notin Grader
    /\ Sources \subseteq Source
    /\ Faults \subseteq {"insert", "attest"}
    /\ Ticks \subseteq Nat
    /\ MaxGrades \in Nat /\ MaxCells \in Nat /\ MaxHypotheses \in Nat \ {0}
    /\ MaxCrashes \in Nat /\ MaxSteps \in Nat

VARIABLES
    grades,     \* the ledger: the judgment sources of each item's grades
    acked,      \* the last grade of each item whose call returned normally
    stale,      \* stale_events: the item, the grade and its marked_ts
    signals,    \* grade_signals: the item, the grade and its judgment_source
    unattested, \* rows that their manifest does not know: grades, signals
    serving,    \* the ledger's process is up
    lock,       \* the grader inside the ledger's write lock
    cells,      \* the matrix: the effective rating of each rated pair
    hypotheses, \* how many hypotheses it has
    rated,      \* how many ratings were begun
    pc,         \* where each thread is
    call,       \* the grading or rating each thread runs
    score,      \* what each analyst's score_matrix has read
    now, crashes, steps

ledger == <<grades, acked, serving, lock, crashes>>
signalled == <<stale, signals>>
matrix == <<cells, hypotheses, rated>>
clock == <<now, steps>>
vars == <<ledger, signalled, unattested, matrix, pc, call, score, clock>>

Pair == Evidence \X (1 .. MaxHypotheses)

\* A grading knows its own grade number; a rating remembers how many grades of
\* its item there were when it took its time stamp (`seen`) and which grade the
\* signal it read was about (`basis`).
Grading == [op : {"grade"}, evidence : Evidence, source : Source, first : BOOLEAN,
            grade : Nat, attempt : {1, 2}, signal : {1, 2}, ts : Nat]
Rating == [op : {"rate"}, evidence : Evidence, hypothesis : 1 .. MaxHypotheses,
           source : Source, seen : Nat, basis : Nat, ts : Nat]
Cell == [source : Source, seen : Nat, basis : Nat, ts : Nat]
StaleEvent == [evidence : Evidence, grade : Nat, ts : Nat]
GradeSignal == [evidence : Evidence, grade : Nat, source : Source]

\* The effective ratings of a matrix, and what a score_matrix call that read them holds.
AreRatings(rows) == DOMAIN rows \subseteq Pair /\ rows \in [DOMAIN rows -> Cell]
Scoring(rows) ==
    [cells : {rows}, bound : [Evidence -> Nat] \cup {<< >>},
     settled : [Evidence -> Nat] \cup {<< >>}, begun : Nat, ranked : Nat,
     todo : SUBSET Pair, pair : Pair \cup {<< >>}]

NoCall == [op |-> "none"]
NoScore == [cells |-> << >>, bound |-> << >>, settled |-> << >>, begun |-> 0,
            ranked |-> 0, todo |-> {}, pair |-> << >>]

Threads == Grader \cup Analyst
Label == {"idle", "check", "grade", "line", "stamp", "signal", "signal_line", "verify",
          "source", "rate", "insert", "hypotheses", "gate", "stale", "ranked"}

TypeOK ==
    /\ grades \in [Evidence -> Seq(Source)]
    /\ acked \in [Evidence -> Nat]
    /\ stale \in Seq(StaleEvent) /\ signals \in Seq(GradeSignal)
    /\ unattested \in [{"grades", "signals"} -> Nat]
    /\ serving \in BOOLEAN /\ lock \in Grader \cup {Nobody}
    /\ AreRatings(cells)
    /\ hypotheses \in 1 .. MaxHypotheses /\ rated \in 0 .. MaxCells
    /\ pc \in [Threads -> Label]
    /\ call \in [Threads -> {NoCall} \cup Grading \cup Rating]
    /\ score = [w \in Analyst |-> score[w]]
    /\ \A w \in Analyst :
          AreRatings(score[w].cells) /\ score[w] \in Scoring(score[w].cells)
    /\ now \in Nat /\ crashes \in 0 .. MaxCrashes /\ steps \in 0 .. MaxSteps

Init ==
    /\ grades = [e \in Evidence |-> << >>] /\ acked = [e \in Evidence |-> 0]
    /\ stale = << >> /\ signals = << >>
    /\ unattested = [grades |-> 0, signals |-> 0]
    /\ serving = TRUE /\ lock = Nobody
    /\ cells = << >> /\ hypotheses = 1 /\ rated = 0
    /\ pc = [t \in Threads |-> "idle"] /\ call = [t \in Threads |-> NoCall]
    /\ score = [w \in Analyst |-> NoScore]
    /\ now = 0 /\ crashes = 0 /\ steps = 0

Goto(t, label) == pc' = [pc EXCEPT ![t] = label]

-----------------------------------------------------------------------------
(* The evidence ledger: grade_evidence and update_grade.                    *)

\* Mutant of Acquire: the check runs outside the lock.
AcquireAlways(g) == lock' = g
Acquire(g) == lock = Nobody /\ lock' = g

Grade(g, e, source, first) ==
    /\ serving /\ pc[g] = "idle" /\ Len(grades[e]) < MaxGrades
    /\ Acquire(g)
    /\ Goto(g, "check")
    /\ call' = [call EXCEPT ![g] =
           [op |-> "grade", evidence |-> e, source |-> source, first |-> first,
            grade |-> 0, attempt |-> 1, signal |-> 1, ts |-> 0]]
    /\ UNCHANGED <<grades, acked, serving, crashes, signalled, unattested, matrix,
                   score, clock>>

\* The call raises, or has answered.
Leave(g) ==
    /\ lock' = Nobody
    /\ Goto(g, "idle")
    /\ call' = [call EXCEPT ![g] = NoCall]

\* require_first, or the need for a grade to supersede.
Check(g) ==
    /\ pc[g] = "check"
    /\ call[g].first <=> grades[call[g].evidence] = << >>
    /\ Goto(g, "grade")
    /\ UNCHANGED <<ledger, signalled, unattested, matrix, call, score, clock>>

CheckFails(g) ==
    /\ pc[g] = "check"
    /\ ~(call[g].first <=> grades[call[g].evidence] = << >>)
    /\ Leave(g)
    /\ UNCHANGED <<grades, acked, serving, crashes, signalled, unattested, matrix,
                   score, clock>>

\* `with self._conn`: the grade is committed, or rolled back.
InsertGrade(g) ==
    /\ pc[g] = "grade"
    /\ LET e == call[g].evidence
       IN /\ grades' = [grades EXCEPT ![e] = Append(@, call[g].source)]
          /\ call' = [call EXCEPT ![g].grade = Len(grades[e]) + 1]
    /\ unattested' = [unattested EXCEPT !.grades = @ + 1]
    /\ Goto(g, "line")
    /\ UNCHANGED <<acked, serving, lock, crashes, signalled, matrix, score, clock>>

\* Mutant of InsertGradeFails: the error is swallowed, the manifest line follows.
InsertGradeFailsOn(g) ==
    /\ pc[g] = "grade" /\ "insert" \in Faults
    /\ Goto(g, "line")
    /\ UNCHANGED <<ledger, signalled, unattested, matrix, call, score, clock>>

InsertGradeFails(g) ==
    /\ pc[g] = "grade" /\ "insert" \in Faults
    /\ Leave(g)
    /\ UNCHANGED <<grades, acked, serving, crashes, signalled, unattested, matrix,
                   score, clock>>

\* The grade's manifest line.  When it fails, the signals are never tried.
AttestGrade(g) ==
    /\ pc[g] = "line"
    /\ unattested' = [unattested EXCEPT !.grades = @ - 1]
    /\ Goto(g, "stamp")
    /\ UNCHANGED <<ledger, signalled, matrix, call, score, clock>>

AttestGradeFails(g) ==
    /\ pc[g] = "line" /\ "attest" \in Faults
    /\ Leave(g)
    /\ UNCHANGED <<grades, acked, serving, crashes, signalled, unattested, matrix,
                   score, clock>>

-----------------------------------------------------------------------------
(* _mark_staleness_signals: mark_stale, then mark_graded, tried twice.      *)

\* Mutant of SignalOrder: mark_graded comes first.
SignalOrderSwapped == <<"graded", "stale">>
SignalOrder == <<"stale", "graded">>

\* time.time(), the clock of both servers: two readings may find it at one instant.
ReadClock == now' \in {now + d : d \in Ticks}

\* Each signal takes its time stamp.  mark_graded's is never compared: its reading of
\* the clock is left out.
Stamp(g) ==
    /\ pc[g] = "stamp"
    /\ IF SignalOrder[call[g].signal] = "stale" THEN ReadClock ELSE UNCHANGED now
    /\ call' = [call EXCEPT ![g].ts = now']
    /\ Goto(g, "signal")
    /\ UNCHANGED <<ledger, signalled, unattested, matrix, score, steps>>

InsertSignal(g) ==
    /\ pc[g] = "signal"
    /\ LET c == call[g]
       IN \/ /\ SignalOrder[c.signal] = "stale"
             /\ stale' = Append(stale, [evidence |-> c.evidence, grade |-> c.grade,
                                        ts |-> c.ts])
             /\ UNCHANGED signals
          \/ /\ SignalOrder[c.signal] = "graded"
             /\ signals' = Append(signals, [evidence |-> c.evidence,
                                            grade |-> c.grade, source |-> c.source])
             /\ UNCHANGED stale
    /\ unattested' = [unattested EXCEPT !.signals = @ + 1]
    /\ Goto(g, "signal_line")
    /\ UNCHANGED <<ledger, matrix, call, score, clock>>

\* The first signal has its line: the second one follows.
AttestFirst(g) ==
    /\ pc[g] = "signal_line" /\ call[g].signal = 1
    /\ unattested' = [unattested EXCEPT !.signals = @ - 1]
    /\ call' = [call EXCEPT ![g].signal = 2]
    /\ Goto(g, "stamp")
    /\ UNCHANGED <<ledger, signalled, matrix, score, clock>>

\* Both have: the call returns.
AttestLast(g) ==
    /\ pc[g] = "signal_line" /\ call[g].signal = 2
    /\ unattested' = [unattested EXCEPT !.signals = @ - 1]
    /\ acked' = [acked EXCEPT ![call[g].evidence] = call[g].grade]
    /\ Leave(g)
    /\ UNCHANGED <<grades, serving, crashes, signalled, matrix, score, clock>>

\* Mutant of GiveUp: the second failure is swallowed, the call returns normally.
GiveUpSilently(g) ==
    /\ acked' = [acked EXCEPT ![call[g].evidence] = call[g].grade]
    /\ Leave(g)
\* The second failure raises.
GiveUp(g) == Leave(g) /\ UNCHANGED acked

\* The first failure starts both signals again.
TryAgain(g) ==
    /\ call' = [call EXCEPT ![g].attempt = 2, ![g].signal = 1]
    /\ Goto(g, "stamp")
    /\ UNCHANGED <<acked, lock>>

\* The signal is rolled back, or is committed and stays without its line.
SignalFails(g) ==
    /\ \/ pc[g] = "signal" /\ "insert" \in Faults
       \/ pc[g] = "signal_line" /\ "attest" \in Faults
    /\ \/ call[g].attempt = 1 /\ TryAgain(g)
       \/ call[g].attempt = 2 /\ GiveUp(g)
    /\ UNCHANGED <<grades, serving, crashes, signalled, unattested, matrix, score,
                   clock>>

-----------------------------------------------------------------------------
(* The signals, as the engine queries them.                                 *)

\* verify_stable: it may pass while the last row waits for its line.
SignalsOk == unattested["signals"] = 0

SignalsOf(e) == {i \in DOMAIN signals : signals[i].evidence = e}
\* Mutant of LatestSignal: the oldest row.
FirstSignal(e) ==
    IF SignalsOf(e) = {} THEN 0
    ELSE CHOOSE i \in SignalsOf(e) : \A j \in SignalsOf(e) : i <= j
\* The row latest_grade_source reads, 0 if there is none.
LatestSignal(e) ==
    IF SignalsOf(e) = {} THEN 0
    ELSE CHOOSE i \in SignalsOf(e) : \A j \in SignalsOf(e) : j <= i
Confirmed(e) ==
    LatestSignal(e) # 0 /\ signals[LatestSignal(e)].source = "analyst_confirmed"

\* Mutant of MarkedAfter: a tie counts as stale.
MarkedSince(s, c) == s.ts >= c.ts
\* marked_ts > rated_ts: a tie does not.
MarkedAfter(s, c) == s.ts > c.ts

\* Mutant of CellStale: the item's oldest mark is what is compared.
CellStaleFirst(e, c) ==
    \E i \in DOMAIN stale :
        /\ stale[i].evidence = e /\ MarkedAfter(stale[i], c)
        /\ \A j \in 1 .. i - 1 : stale[j].evidence # e
\* _cell_stale: its latest is, MAX(marked_ts).
CellStale(e, c) ==
    \E i \in DOMAIN stale : stale[i].evidence = e /\ MarkedAfter(stale[i], c)

-----------------------------------------------------------------------------
(* The ACH engine: add_hypothesis and rate_cell.                            *)

AddHypothesis ==
    /\ hypotheses < MaxHypotheses
    /\ hypotheses' = hypotheses + 1
    /\ UNCHANGED <<ledger, signalled, unattested, cells, rated, pc, call, score, clock>>

\* Only analyst_confirmed asks for the evidence's grade.
Rate(w, e, h, source) ==
    /\ pc[w] = "idle" /\ rated < MaxCells /\ h <= hypotheses
    /\ Goto(w, IF source = "analyst_confirmed" THEN "verify" ELSE "rate")
    /\ call' = [call EXCEPT ![w] =
           [op |-> "rate", evidence |-> e, hypothesis |-> h, source |-> source,
            seen |-> 0, basis |-> 0, ts |-> 0]]
    /\ rated' = rated + 1
    /\ UNCHANGED <<ledger, signalled, unattested, cells, hypotheses, score, clock>>

\* The call is over for analyst w.
Finish(w) ==
    /\ Goto(w, "idle")
    /\ call' = [call EXCEPT ![w] = NoCall]
    /\ score' = [score EXCEPT ![w] = NoScore]

Raise(w) ==
    /\ Finish(w)
    /\ UNCHANGED <<ledger, signalled, unattested, matrix, clock>>

\* rate_cell and score_matrix both verify the signal store first.
VerifySignals(w) ==
    /\ pc[w] = "verify" /\ SignalsOk
    /\ Goto(w, IF call[w].op = "rate" THEN "source" ELSE "gate")
    /\ UNCHANGED <<ledger, signalled, unattested, matrix, call, score, clock>>

VerifySignalsFails(w) == pc[w] = "verify" /\ ~SignalsOk /\ Raise(w)

RateReadsGrade(w) ==
    /\ pc[w] = "source" /\ Confirmed(call[w].evidence)
    /\ call' = [call EXCEPT
           ![w].basis = signals[LatestSignal(call[w].evidence)].grade]
    /\ Goto(w, "rate")
    /\ UNCHANGED <<ledger, signalled, unattested, matrix, score, clock>>

RateUnconfirmed(w) == pc[w] = "source" /\ ~Confirmed(call[w].evidence) /\ Raise(w)

\* rated_ts.
RateStamp(w) ==
    /\ pc[w] = "rate"
    /\ ReadClock
    /\ call' = [call EXCEPT ![w].ts = now',
                            ![w].seen = Len(grades[call[w].evidence])]
    /\ Goto(w, "insert")
    /\ UNCHANGED <<ledger, signalled, unattested, matrix, score, steps>>

\* The row supersedes the pair's earlier one.
RateInsert(w) ==
    /\ pc[w] = "insert"
    /\ LET c == call[w]
           pair == <<c.evidence, c.hypothesis>>
           cell == [source |-> c.source, seen |-> c.seen, basis |-> c.basis,
                    ts |-> c.ts]
       IN cells' = [p \in DOMAIN cells \cup {pair} |-> IF p = pair THEN cell ELSE cells[p]]
    /\ Finish(w)
    /\ UNCHANGED <<ledger, signalled, unattested, hypotheses, rated, clock>>

RateInsertFails(w) == pc[w] = "insert" /\ "insert" \in Faults /\ Raise(w)

-----------------------------------------------------------------------------
(* score_matrix.                                                            *)

\* No cells have been rated yet: it raises at once.
ScoreNothing(w) == pc[w] = "idle" /\ DOMAIN cells = {} /\ UNCHANGED vars

\* The last grade of each item that no call in progress may still signal.
Settled ==
    IF \A g \in Grader : pc[g] = "idle" THEN [e \in Evidence |-> Len(grades[e])]
    ELSE acked

\* _effective_cells, one SELECT; `bound`, `settled` and `begun` remember the moment.
Score(w) ==
    /\ pc[w] = "idle" /\ DOMAIN cells # {}
    /\ score' = [score EXCEPT ![w] = [NoScore EXCEPT !.cells = cells, !.bound = acked,
                                !.settled = Settled, !.begun = hypotheses]]
    /\ Goto(w, "hypotheses")
    /\ UNCHANGED <<ledger, signalled, unattested, matrix, call, clock>>

\* Mutant of Covered: only hypotheses that have a rating need them all.
CoveredIfRated(rows, n) ==
    \A p, q \in DOMAIN rows : <<p[1], q[2]>> \in DOMAIN rows
\* Every rated item is rated against every hypothesis.
Covered(rows, n) == \A p \in DOMAIN rows, h \in 1 .. n : <<p[1], h>> \in DOMAIN rows

\* _hypotheses, and the coverage of what was read.
ScoreHypotheses(w) ==
    /\ pc[w] = "hypotheses" /\ Covered(score[w].cells, hypotheses)
    /\ score' = [score EXCEPT ![w].ranked = hypotheses,
                              ![w].todo = DOMAIN score[w].cells]
    /\ Goto(w, "verify")
    /\ UNCHANGED <<ledger, signalled, unattested, matrix, call, clock>>

ScoreUncovered(w) ==
    pc[w] = "hypotheses" /\ ~Covered(score[w].cells, hypotheses) /\ Raise(w)

\* A blocker ends the call here: the code lists the other ones before it raises.
ScoreReadsGrade(w) ==
    /\ pc[w] = "gate"
    /\ \E p \in score[w].todo :
          /\ Confirmed(p[1])
          /\ score' = [score EXCEPT ![w].pair = p]
    /\ Goto(w, "stale")
    /\ UNCHANGED <<ledger, signalled, unattested, matrix, call, clock>>

ScoreUnconfirmed(w) ==
    pc[w] = "gate" /\ (\E p \in score[w].todo : ~Confirmed(p[1])) /\ Raise(w)

Scoreable(p, c) == ~CellStale(p[1], c) /\ c.source = "analyst_confirmed"

ScoreReadsStale(w) ==
    /\ pc[w] = "stale" /\ Scoreable(score[w].pair, score[w].cells[score[w].pair])
    /\ score' = [score EXCEPT ![w].todo = @ \ {score[w].pair}]
    /\ Goto(w, IF score[w].todo = {score[w].pair} THEN "ranked" ELSE "gate")
    /\ UNCHANGED <<ledger, signalled, unattested, matrix, call, clock>>

ScoreStale(w) ==
    /\ pc[w] = "stale" /\ ~Scoreable(score[w].pair, score[w].cells[score[w].pair])
    /\ Raise(w)

\* The ranking is returned.
Ranked(w) == pc[w] = "ranked" /\ Raise(w)

-----------------------------------------------------------------------------
(* The ledger's process, and the clock of both.                             *)

Crash ==
    /\ serving /\ crashes < MaxCrashes
    /\ serving' = FALSE /\ lock' = Nobody /\ crashes' = crashes + 1
    /\ pc' = [t \in Threads |-> IF t \in Grader THEN "idle" ELSE pc[t]]
    /\ call' = [t \in Threads |-> IF t \in Grader THEN NoCall ELSE call[t]]
    /\ UNCHANGED <<grades, acked, signalled, unattested, matrix, score, clock>>

\* A start verifies both stores and refuses to serve if one fails.
Restart ==
    /\ ~serving /\ unattested = [grades |-> 0, signals |-> 0]
    /\ serving' = TRUE
    /\ UNCHANGED <<grades, acked, lock, crashes, signalled, unattested, matrix, pc,
                   call, score, clock>>

SetBack ==
    /\ steps < MaxSteps /\ now > 0
    /\ now' = 0 /\ steps' = steps + 1
    /\ UNCHANGED <<ledger, signalled, unattested, matrix, pc, call, score>>

-----------------------------------------------------------------------------
LedgerStep ==
    \E g \in Grader :
        \/ \E e \in Evidence, source \in Sources, first \in BOOLEAN :
              Grade(g, e, source, first)
        \/ Check(g) \/ CheckFails(g) \/ InsertGrade(g) \/ InsertGradeFails(g)
        \/ AttestGrade(g) \/ AttestGradeFails(g) \/ Stamp(g) \/ InsertSignal(g)
        \/ AttestFirst(g) \/ AttestLast(g) \/ SignalFails(g)

RateStep ==
    \E w \in Analyst :
        \/ \E e \in Evidence, h \in 1 .. MaxHypotheses, source \in Source :
              Rate(w, e, h, source)
        \/ VerifySignals(w) \/ VerifySignalsFails(w) \/ RateReadsGrade(w)
        \/ RateUnconfirmed(w) \/ RateStamp(w) \/ RateInsert(w) \/ RateInsertFails(w)

ScoreStep ==
    \E w \in Analyst :
        \/ ScoreNothing(w) \/ Score(w) \/ ScoreHypotheses(w) \/ ScoreUncovered(w)
        \/ ScoreReadsGrade(w) \/ ScoreUnconfirmed(w) \/ ScoreReadsStale(w)
        \/ ScoreStale(w) \/ Ranked(w)

Next ==
    LedgerStep \/ AddHypothesis \/ RateStep \/ ScoreStep \/ Crash \/ Restart \/ SetBack

Spec == Init /\ [][Next]_vars

-----------------------------------------------------------------------------
(* Safety.                                                                  *)

\* Concurrent gradings of one item: one first grade, and no correction of an
\* ungraded item, so the ledger numbers an item's grades without gaps and the
\* signals of two grades never interleave (the check and both databases' writes
\* are one critical section).
SignalsFollowGrades ==
    /\ \A i, j \in DOMAIN signals :
          i < j /\ signals[i].evidence = signals[j].evidence
          => signals[i].grade <= signals[j].grade
    /\ \A i \in DOMAIN signals :
          /\ signals[i].grade \in DOMAIN grades[signals[i].evidence]
          /\ signals[i].source = grades[signals[i].evidence][signals[i].grade]

\* A grade whose call returned binds every score that begins after it: the
\* ranking rests on that grade or a later one, and it is analyst_confirmed,
\* whatever failures, retries and crashes came before.
AcknowledgedGradesBind ==
    \A w \in Analyst :
        pc[w] = "ranked" =>
            \A p \in DOMAIN score[w].cells :
                \E k \in DOMAIN grades[p[1]] :
                    /\ k >= score[w].bound[p[1]]
                    /\ grades[p[1]][k] = "analyst_confirmed"

\* A later grade was marked at the very instant a rating was stamped.
Tied(e, c) ==
    \E i \in DOMAIN stale :
        stale[i].evidence = e /\ stale[i].ts = c.ts /\ stale[i].grade > c.seen

\* The rating of pair p came after every grade that binds analyst w's score, as far as
\* two stamps can tell.
RatedSince(w, p) ==
    LET c == score[w].cells[p]
    IN  c.seen >= score[w].bound[p[1]] \/ Tied(p[1], c)

\* A ranking never uses a rating stamped before a grade that was acknowledged
\* when the score began, unless the clock showed one instant for the rating and the
\* mark: the item must be rated again first.
ReRatedAfterRegrade ==
    \A w \in Analyst :
        pc[w] = "ranked" => \A p \in DOMAIN score[w].cells : RatedSince(w, p)

\* The grade that allows an analyst_confirmed rating, or an earlier one, never
\* makes it stale afterwards (mark_stale runs before mark_graded, and a mark of the
\* same instant does not count), unless the signal store is already refused.
NotBornStale ==
    \A p \in DOMAIN cells :
        cells[p].source = "analyst_confirmed" /\ SignalsOk =>
            \A i \in DOMAIN stale :
                stale[i].evidence = p[1] /\ stale[i].grade <= cells[p].basis
                => ~MarkedAfter(stale[i], cells[p])

\* The hypotheses a ranking compares are those of the moment its cells were read,
\* although they are read later.
RanksOneMoment ==
    \A w \in Analyst : pc[w] = "ranked" => score[w].ranked = score[w].begun

\* The tool's promise, also for a grade whose call did not return: once nobody is
\* grading, the latest grade binds every score that begins.
LatestGradeBinds ==
    \A w \in Analyst :
        pc[w] = "ranked" =>
            \A p \in DOMAIN score[w].cells :
                \E k \in DOMAIN grades[p[1]] :
                    /\ k >= score[w].settled[p[1]]
                    /\ grades[p[1]][k] = "analyst_confirmed"
=============================================================================
