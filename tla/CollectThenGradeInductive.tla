--------------------- MODULE CollectThenGradeInductive ---------------------
(***************************************************************************)
(* The inductive strengthening of the safety properties of                 *)
(* CollectThenGrade, stated apart from its proof so that TLC checks it     *)
(* too.  What compares time stamps is claimed as long as the wall clock    *)
(* was not set back.                                                       *)
(***************************************************************************)
EXTENDS CollectThenGrade

-----------------------------------------------------------------------------
(* The ledger's threads.                                                    *)

\* Where a grader is once its grade is committed, and where it is about to signal.
Committed == {"line", "stamp", "signal", "signal_line"}
Signalling == {"stamp", "signal", "signal_line"}

StaleOf(e, k) == \E i \in DOMAIN stale : stale[i].evidence = e /\ stale[i].grade = k
SignalOf(e, k) == \E i \in DOMAIN signals : signals[i].evidence = e /\ signals[i].grade = k

\* A row of the signal store has lost its line for ever: the store is refused.
Refused ==
    IF \E g \in Grader : pc[g] = "signal_line" THEN unattested["signals"] > 1
                                               ELSE unattested["signals"] > 0

\* The one grader inside the lock: its grade is the item's last, the lines it owes are
\* counted, and its signals are written in their order, the last of them only once.
GraderInv(g) ==
    /\ lock = g /\ call[g] \in Grading
    /\ pc[g] \in {"check", "grade"} \cup Committed
    /\ pc[g] = "line" => unattested["grades"] > 0
    /\ pc[g] = "signal_line" => unattested["signals"] > 0
    /\ pc[g] \in Committed =>
          /\ call[g].grade > 0 /\ call[g].grade = Len(grades[call[g].evidence])
          /\ grades[call[g].evidence][call[g].grade] = call[g].source
    /\ pc[g] = "signal_line" \/ call[g].signal = 2 =>
          pc[g] \in Signalling /\ StaleOf(call[g].evidence, call[g].grade)
    /\ pc[g] = "signal_line" /\ call[g].signal = 2 =>
          SignalOf(call[g].evidence, call[g].grade)
    /\ pc[g] \in Committed /\ SignalOf(call[g].evidence, call[g].grade) =>
          Refused \/ (pc[g] = "signal_line" /\ call[g].signal = 2)

\* What the ledger wrote: signals in the order of the grades they are about, no event
\* about a grade there is not, and both of every grade that a call has answered for.
LedgerInv ==
    /\ \A g \in Grader : pc[g] # "idle" => GraderInv(g)
    /\ SignalsFollowGrades
    /\ \A i \in DOMAIN stale : stale[i].grade \in DOMAIN grades[stale[i].evidence]
    /\ \A e \in Evidence : acked[e] > 0 => StaleOf(e, acked[e]) /\ SignalOf(e, acked[e])

\* No time stamp is ahead of the clock.
StampInv ==
    steps = 0 =>
        /\ \A i \in DOMAIN stale : stale[i].ts <= now
        /\ \A g \in Grader : pc[g] = "signal" => call[g].ts <= now

-----------------------------------------------------------------------------
(* The engine's threads.                                                    *)

\* A confirmed rating rests on a signal.
Based(e, c) == c.source = "analyst_confirmed" => SignalOf(e, c.basis)

\* What a rating's time stamp says: of the grades it came after, and of those it rests on.
Timely(e, c) ==
    /\ c.ts <= now
    /\ \A i \in DOMAIN stale :
          stale[i].evidence = e /\ stale[i].ts < c.ts => stale[i].grade <= c.seen
    /\ \A g \in Grader :
          pc[g] = "signal" /\ call[g].evidence = e /\ call[g].ts < c.ts
          => call[g].grade <= c.seen
Born(e, c) ==
    c.source = "analyst_confirmed" =>
        Refused \/ \A i \in DOMAIN stale :
                       stale[i].evidence = e /\ stale[i].grade <= c.basis
                       => stale[i].ts <= c.ts

CellInv(p) ==
    /\ p[2] <= hypotheses
    /\ Based(p[1], cells[p])
    /\ steps = 0 => Timely(p[1], cells[p]) /\ Born(p[1], cells[p])

\* A rating on its way: what it says already holds.
RateInv(w) ==
    LET c == call[w]
    IN  /\ c \in Rating /\ c.hypothesis <= hypotheses
        /\ c.source # "analyst_confirmed" => pc[w] \in {"rate", "insert"}
        /\ pc[w] \in {"rate", "insert"} => Based(c.evidence, c)
        /\ pc[w] = "insert" /\ steps = 0 => Timely(c.evidence, c) /\ Born(c.evidence, c)

\* Some grade as late as the one analyst w's score is bound by is analyst_confirmed.
Bound(w, e) ==
    \E k \in DOMAIN grades[e] :
        k >= score[w].bound[e] /\ grades[e][k] = "analyst_confirmed"

\* A score that has begun: what it read, and what it is bound by.
ScoreBegun(w) ==
    LET s == score[w]
    IN  /\ s.bound \in [Evidence -> Nat] /\ \A e \in Evidence : s.bound[e] <= acked[e]
        /\ DOMAIN s.cells # {} /\ s.begun <= hypotheses
        /\ \A p \in DOMAIN s.cells :
              /\ p[2] <= s.begun
              /\ steps = 0 => Timely(p[1], s.cells[p])

\* What it has found out about the cells it is done with.
ScoreInv(w) ==
    LET s == score[w]
    IN  /\ ScoreBegun(w)
        /\ pc[w] # "hypotheses" =>
              /\ s.ranked = s.begun /\ s.todo \subseteq DOMAIN s.cells
              /\ \A p \in DOMAIN s.cells \ s.todo :
                    /\ Bound(w, p[1])
                    /\ steps = 0 => RatedSince(w, p)
        /\ pc[w] = "stale" => s.pair \in s.todo /\ Bound(w, s.pair[1])
        /\ pc[w] = "ranked" => s.todo = {}

\* An analyst is idle, rates or scores.
RatesNow(w) == pc[w] \in {"verify", "source", "rate", "insert"} /\ call[w] # NoCall
ScoresNow(w) == pc[w] \in {"hypotheses", "verify", "gate", "stale", "ranked"} /\ call[w] = NoCall
AnalystInv(w) ==
    \/ pc[w] = "idle" /\ call[w] = NoCall /\ score[w] = NoScore
    \/ RatesNow(w) /\ score[w] = NoScore /\ RateInv(w)
    \/ ScoresNow(w) /\ ScoreInv(w)

CollectInv ==
    /\ TypeOK /\ LedgerInv /\ StampInv
    /\ \A p \in DOMAIN cells : CellInv(p)
    /\ \A w \in Analyst : AnalystInv(w)

-----------------------------------------------------------------------------
(* What no step takes back.                                                 *)

\* Rows are only added behind those there are, and none is changed.
Extends(rows, longer) ==
    DOMAIN rows \subseteq DOMAIN longer /\ \A i \in DOMAIN rows : longer[i] = rows[i]

\* The ledger and the signal store are only added to, by no crash, retry or failure less.
\* A call that is answered answers for its item's last grade, once both databases say so,
\* and so an item's answered grade never moves back to an earlier one.
RecordsGrow ==
    /\ \A e \in Evidence : Extends(grades[e], grades'[e])
    /\ Extends(stale, stale') /\ Extends(signals, signals')
    /\ \A e \in Evidence :
          /\ acked[e] <= acked'[e]
          /\ acked'[e] # acked[e] =>
                /\ acked'[e] = Len(grades[e])
                /\ StaleOf(e, acked'[e]) /\ SignalOf(e, acked'[e])

-----------------------------------------------------------------------------
(* What LatestGradeBinds costs: it may fail after an error or a crash only. *)

\* Every item's last grade was answered for, or its call is still at work.
Answered ==
    \A e \in Evidence :
        \/ acked[e] = Len(grades[e])
        \/ \E g \in Grader : pc[g] \in Committed /\ call[g].evidence = e

\* Where no write fails and the ledger never crashed, what nobody may still signal is what
\* was answered.
SettledInv ==
    Faults = {} /\ crashes = 0 =>
        Answered /\ \A w \in Analyst : score[w].settled = score[w].bound
=============================================================================
