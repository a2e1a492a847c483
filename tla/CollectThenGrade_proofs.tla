----------------------- MODULE CollectThenGrade_proofs -----------------------
(***************************************************************************)
(* Proofs that the signals of the ledger follow its grades, and that a     *)
(* ranking rests on every grade that was acknowledged before it began,     *)
(* whatever errors, retries, crashes and interleavings come before.        *)
(***************************************************************************)
EXTENDS CollectThenGradeInductive, SequenceTheorems, WellFoundedInduction, TLAPS

-----------------------------------------------------------------------------
(* Facts about the data.                                                    *)

\* What TypeOK says of one thread, one item and one row.
LEMMA Typed ==
    ASSUME TypeOK
    PROVE  /\ \A t \in Threads :
                 pc[t] \in Label /\ call[t] \in {NoCall} \cup Grading \cup Rating
           /\ \A e \in Evidence : /\ Len(grades[e]) \in Nat
                                  /\ DOMAIN grades[e] = 1 .. Len(grades[e])
                                  /\ \A k \in DOMAIN grades[e] : grades[e][k] \in Source
                                  /\ acked[e] \in Nat
           /\ Len(stale) \in Nat /\ DOMAIN stale = 1 .. Len(stale)
           /\ \A i \in DOMAIN stale : stale[i] \in StaleEvent
           /\ Len(signals) \in Nat /\ DOMAIN signals = 1 .. Len(signals)
           /\ \A i \in DOMAIN signals : signals[i] \in GradeSignal
           /\ unattested["grades"] \in Nat /\ unattested["signals"] \in Nat
           /\ \A p \in DOMAIN cells : p \in Pair /\ cells[p] \in Cell
           /\ \A w \in Analyst : \A p \in DOMAIN score[w].cells :
                 p \in Pair /\ score[w].cells[p] \in Cell
           /\ hypotheses \in Nat /\ now \in Nat /\ steps \in Nat
<1>1. \A e \in Evidence : grades[e] \in Seq(Source) /\ acked[e] \in Nat
  BY DEF TypeOK
<1>2. \A e \in Evidence : /\ Len(grades[e]) \in Nat
                          /\ DOMAIN grades[e] = 1 .. Len(grades[e])
                          /\ \A k \in DOMAIN grades[e] : grades[e][k] \in Source
  BY <1>1, LenProperties, ElementOfSeq
<1>3. /\ Len(stale) \in Nat /\ DOMAIN stale = 1 .. Len(stale)
      /\ \A i \in DOMAIN stale : stale[i] \in StaleEvent
  BY LenProperties, ElementOfSeq DEF TypeOK
<1>4. /\ Len(signals) \in Nat /\ DOMAIN signals = 1 .. Len(signals)
      /\ \A i \in DOMAIN signals : signals[i] \in GradeSignal
  BY LenProperties, ElementOfSeq DEF TypeOK
<1>5. /\ \A p \in DOMAIN cells : p \in Pair /\ cells[p] \in Cell
      /\ \A w \in Analyst : \A p \in DOMAIN score[w].cells :
            p \in Pair /\ score[w].cells[p] \in Cell
  BY DEF TypeOK, AreRatings
<1>6. hypotheses \in Nat /\ now \in Nat /\ steps \in Nat
  BY GateAssumption DEF TypeOK
<1>7. unattested["grades"] \in Nat /\ unattested["signals"] \in Nat
  BY DEF TypeOK
<1>8. \A t \in Threads : pc[t] \in Label /\ call[t] \in {NoCall} \cup Grading \cup Rating
  BY DEF TypeOK
<1>. QED  BY <1>1, <1>2, <1>3, <1>4, <1>5, <1>6, <1>7, <1>8

LEMMA GradingFields ==
    ASSUME NEW c \in Grading
    PROVE  /\ c.evidence \in Evidence /\ c.source \in Source /\ c.grade \in Nat
           /\ c.signal \in {1, 2} /\ c.attempt \in {1, 2} /\ c.ts \in Nat
           /\ c # NoCall
BY DEF Grading, NoCall

LEMMA RatingFields ==
    ASSUME NEW c \in Rating
    PROVE  /\ c.evidence \in Evidence /\ c.hypothesis \in 1 .. MaxHypotheses
           /\ c.source \in Source /\ c.seen \in Nat /\ c.basis \in Nat /\ c.ts \in Nat
           /\ c # NoCall /\ c.op = "rate" /\ NoCall.op # "rate"
BY DEF Rating, NoCall

\* A grading's fields change one by one.
LEMMA GradingExcept ==
    ASSUME NEW c \in Grading, NEW n \in Nat
    PROVE  /\ [c EXCEPT !.grade = n] \in Grading /\ [c EXCEPT !.ts = n] \in Grading
           /\ [c EXCEPT !.signal = 2] \in Grading
           /\ [c EXCEPT !.attempt = 2, !.signal = 1] \in Grading
           /\ [c EXCEPT !.grade = n].grade = n /\ [c EXCEPT !.grade = n].evidence = c.evidence
           /\ [c EXCEPT !.grade = n].source = c.source
           /\ [c EXCEPT !.grade = n].signal = c.signal
BY DEF Grading

LEMMA RatingExcept ==
    ASSUME NEW c \in Rating, NEW m \in Nat, NEW n \in Nat
    PROVE  /\ [c EXCEPT !.basis = n] \in Rating
           /\ [c EXCEPT !.ts = m, !.seen = n] \in Rating
BY DEF Rating

\* The order of the signals, by number.
LEMMA SignalOrderFacts ==
    /\ SignalOrder[1] = "stale" /\ SignalOrder[2] = "graded"
    /\ \A n \in {1, 2} : SignalOrder[n] = "stale" <=> n = 1
    /\ \A n \in {1, 2} : SignalOrder[n] = "graded" <=> n = 2
BY DEF SignalOrder

\* A thread is a grader or an analyst.
LEMMA Apart ==
    /\ \A g \in Grader : g \in Threads /\ g \notin Analyst
    /\ \A w \in Analyst : w \in Threads /\ w \notin Grader
BY GateAssumption DEF Threads

\* Every set of numbers has a smallest one.
LEMMA SmallestOf ==
    ASSUME NEW S \in SUBSET Nat, S # {}
    PROVE  \E m \in S : \A k \in S : m <= k
<1>1. PICK m \in S : \A k \in S : ~(<<k, m>> \in OpToRel(<, Nat))
  BY NatLessThanWellFounded, WFMin
<1>2. \A k \in S : ~(k < m)
  BY <1>1 DEF OpToRel
<1>. QED  BY <1>2

\* latest_grade_source: the row it reads is the item's last one.
LEMMA LatestIsLast ==
    ASSUME TypeOK, NEW e \in Evidence
    PROVE  \/ SignalsOf(e) = {} /\ LatestSignal(e) = 0
           \/ /\ LatestSignal(e) \in DOMAIN signals
              /\ signals[LatestSignal(e)].evidence = e
              /\ \A j \in DOMAIN signals : signals[j].evidence = e => j <= LatestSignal(e)
<1>1. CASE SignalsOf(e) = {}
  BY <1>1 DEF LatestSignal
<1>2. CASE SignalsOf(e) # {}
  <2> DEFINE n == Len(signals)
             S == {n - i : i \in SignalsOf(e)}
  <2>1. n \in Nat /\ DOMAIN signals = 1 .. n
    BY Typed
  <2>2. SignalsOf(e) \subseteq 1 .. n
    BY <2>1 DEF SignalsOf
  <2>. HIDE DEF n
  <2>3. S \in SUBSET Nat /\ S # {}
    BY <1>2, <2>1, <2>2
  <2>4. PICK m \in S : \A k \in S : m <= k
    BY <2>3, SmallestOf
  <2>5. PICK i \in SignalsOf(e) : m = n - i
    BY <2>4
  <2>6. \A j \in SignalsOf(e) : j <= i
    <3>1. SUFFICES ASSUME NEW j \in SignalsOf(e) PROVE j <= i
      OBVIOUS
    <3>2. n - j \in S
      OBVIOUS
    <3>3. m <= n - j
      BY <2>4, <3>2
    <3>. QED  BY <3>3, <2>5, <2>2, <2>1
  <2>7. LatestSignal(e) \in SignalsOf(e) /\ \A j \in SignalsOf(e) : j <= LatestSignal(e)
    BY <1>2, <2>6 DEF LatestSignal
  <2>. QED  BY <2>7 DEF SignalsOf
<1>. QED  BY <1>1, <1>2

-----------------------------------------------------------------------------
(* What every step keeps, and what that leaves of the claims about a rating *)
(* and a score.                                                             *)

LEMMA HypothesesAreCounted ==
    /\ TypeOK => hypotheses \in Nat
    /\ TypeOK' => hypotheses' \in Nat
<1>1. MaxHypotheses \in Nat
  BY GateAssumption
<1>2. (TypeOK => hypotheses \in 1 .. MaxHypotheses)
      /\ (TypeOK' => hypotheses' \in 1 .. MaxHypotheses)
  BY DEF TypeOK
<1>. QED  BY <1>1, <1>2

\* Nothing is taken back.
Grows ==
    /\ \A e \in Evidence :
          /\ DOMAIN grades[e] \subseteq DOMAIN grades'[e] /\ acked[e] <= acked'[e]
          /\ \A k \in DOMAIN grades[e] : grades'[e][k] = grades[e][k]
    /\ DOMAIN stale \subseteq DOMAIN stale' /\ \A i \in DOMAIN stale : stale'[i] = stale[i]
    /\ DOMAIN signals \subseteq DOMAIN signals'
    /\ \A i \in DOMAIN signals : signals'[i] = signals[i]
    /\ Refused => Refused'
    /\ hypotheses <= hypotheses'
    /\ steps' = 0 => steps = 0 /\ now <= now'

\* Only a grader about to signal writes a stale event, with a time stamp it took before.
Stamped ==
    /\ \A i \in DOMAIN stale' \ DOMAIN stale : \E g \in Grader :
          /\ pc[g] = "signal" /\ call[g].signal = 1
          /\ stale'[i].evidence = call[g].evidence /\ stale'[i].grade = call[g].grade
          /\ stale'[i].ts = call[g].ts
    /\ \A g \in Grader :
          pc'[g] = "signal" =>
              \/ pc[g] = "signal" /\ call'[g] = call[g]
              \/ call'[g].ts \in Nat /\ call'[g].ts >= now

LEMMA SignalsStay ==
    ASSUME Grows, NEW e, NEW k
    PROVE  (SignalOf(e, k) => SignalOf(e, k)') /\ (StaleOf(e, k) => StaleOf(e, k)')
BY DEF Grows, SignalOf, StaleOf

LEMMA BasedStays ==
    ASSUME Grows, NEW e, NEW c, Based(e, c)
    PROVE  Based(e, c)'
BY SignalsStay DEF Based

LEMMA TimelyStays ==
    ASSUME CollectInv, Grows, Stamped, steps' = 0, NEW e, NEW c, c.ts \in Nat, TypeOK',
           Timely(e, c)
    PROVE  Timely(e, c)'
<1>1. steps = 0 /\ now <= now' /\ now \in Nat /\ now' \in Nat
  BY Typed DEF Grows, CollectInv, TypeOK
<1>2. c.ts <= now'
  BY <1>1 DEF Timely
<1>3. ASSUME NEW i \in DOMAIN stale', stale'[i].evidence = e, stale'[i].ts < c.ts
      PROVE  stale'[i].grade <= c.seen
  <2>1. CASE i \in DOMAIN stale
    BY <1>3, <2>1 DEF Grows, Timely
  <2>2. CASE i \notin DOMAIN stale
    BY <1>3, <2>2 DEF Stamped, Timely
  <2>. QED  BY <2>1, <2>2
<1>4. ASSUME NEW g \in Grader, pc'[g] = "signal", call'[g].evidence = e,
             call'[g].ts < c.ts
      PROVE  call'[g].grade <= c.seen
  <2>1. CASE pc[g] = "signal" /\ call'[g] = call[g]
    BY <1>4, <2>1 DEF Timely
  <2>2. CASE call'[g].ts \in Nat /\ call'[g].ts >= now
    BY <1>1, <1>4, <2>2 DEF Timely
  <2>. QED  BY <1>4, <2>1, <2>2 DEF Stamped
<1>. QED  BY <1>2, <1>3, <1>4 DEF Timely

\* A new event about a grade that a rating rests on is a second one: the first try of
\* its signals left a row without a line.
LEMMA BornStays ==
    ASSUME CollectInv, Grows, Stamped, NEW e \in Evidence, NEW c, c.basis \in Nat,
           Based(e, c), Born(e, c)
    PROVE  Born(e, c)'
<1>1. SUFFICES ASSUME c.source = "analyst_confirmed", ~Refused, ~Refused',
                      NEW i \in DOMAIN stale', stale'[i].evidence = e,
                      stale'[i].grade <= c.basis
               PROVE  stale'[i].ts <= c.ts
  BY DEF Born, Grows
<1>2. CASE i \in DOMAIN stale
  BY <1>1, <1>2 DEF Grows, Born
<1>3. CASE i \notin DOMAIN stale
  <2>1. PICK g \in Grader : /\ pc[g] = "signal" /\ call[g].signal = 1
                            /\ call[g].evidence = e /\ call[g].grade <= c.basis
    BY <1>1, <1>3 DEF Stamped
  <2>2. GraderInv(g)
    BY <2>1 DEF CollectInv, LedgerInv
  <2>3. call[g].grade = Len(grades[e]) /\ call[g].grade \in Nat
    BY <2>1, <2>2, GradingFields DEF GraderInv, Committed
  <2>4. PICK j \in DOMAIN signals : signals[j].evidence = e /\ signals[j].grade = c.basis
    BY <1>1 DEF Based, SignalOf
  <2>5. c.basis \in 1 .. Len(grades[e])
    BY <2>4, Typed DEF CollectInv, LedgerInv, SignalsFollowGrades
  <2>6. c.basis = call[g].grade
    BY <2>1, <2>3, <2>5
  <2>7. SignalOf(e, call[g].grade)
    BY <2>4, <2>6 DEF SignalOf
  <2>. QED  BY <1>1, <2>1, <2>2, <2>7 DEF GraderInv, Committed
<1>. QED  BY <1>2, <1>3

\* A step that leaves a cell alone leaves what is claimed of it.
LEMMA CellStays ==
    ASSUME CollectInv, Grows, Stamped, TypeOK', NEW p \in DOMAIN cells,
           p \in DOMAIN cells', cells'[p] = cells[p]
    PROVE  CellInv(p)'
<1>1. PICK e, c : e = p[1] /\ c = cells[p]
  OBVIOUS
<1>2. e \in Evidence /\ c \in Cell /\ p[2] \in Nat
  BY <1>1, Typed DEF CollectInv, Pair
<1>3. c.ts \in Nat /\ c.basis \in Nat
  BY <1>2 DEF Cell
<1>4. p[2] <= hypotheses /\ Based(e, c) /\ (steps = 0 => Timely(e, c) /\ Born(e, c))
  BY <1>1 DEF CollectInv, CellInv
<1>5. p[2] <= hypotheses'
  <2>1. hypotheses \in Nat /\ hypotheses' \in Nat
    BY HypothesesAreCounted DEF CollectInv
  <2>2. hypotheses <= hypotheses'
    BY DEF Grows
  <2>. QED  BY <1>2, <1>4, <2>1, <2>2
<1>6. Based(e, c)'
  BY <1>4, BasedStays
<1>7. steps' = 0 => Timely(e, c)' /\ Born(e, c)'
  BY <1>2, <1>3, <1>4, TimelyStays, BornStays DEF Grows
<1>. QED  BY <1>1, <1>5, <1>6, <1>7 DEF CellInv, Based, Timely, Born

\* A step that leaves an analyst alone leaves what is claimed of its call.
LEMMA RateStays ==
    ASSUME CollectInv, Grows, Stamped, TypeOK', NEW w \in Analyst,
           pc'[w] = pc[w], call'[w] = call[w], RateInv(w)
    PROVE  RateInv(w)'
<1>1. PICK c : c = call[w]
  OBVIOUS
<1>2. c \in Rating /\ c.hypothesis <= hypotheses
  BY <1>1 DEF RateInv
<1>3. c.evidence \in Evidence /\ c.hypothesis \in Nat /\ c.basis \in Nat /\ c.ts \in Nat
  BY <1>2, RatingFields
<1>4. c.hypothesis <= hypotheses'
  <2>1. hypotheses \in Nat /\ hypotheses' \in Nat
    BY HypothesesAreCounted DEF CollectInv
  <2>2. hypotheses <= hypotheses'
    BY DEF Grows
  <2>. QED  BY <1>2, <1>3, <2>1, <2>2
<1>5. PICK e : e = c.evidence
  OBVIOUS
<1>6. /\ c.source # "analyst_confirmed" => pc[w] \in {"rate", "insert"}
      /\ pc[w] \in {"rate", "insert"} => Based(e, c)
      /\ pc[w] = "insert" /\ steps = 0 => Timely(e, c) /\ Born(e, c)
  BY <1>1, <1>5 DEF RateInv
<1>7. pc[w] \in {"rate", "insert"} => Based(e, c)'
  BY <1>6, BasedStays
<1>8. pc[w] = "insert" /\ steps' = 0 => Timely(e, c)' /\ Born(e, c)'
  BY <1>3, <1>5, <1>6, TimelyStays, BornStays DEF Grows
<1>. QED  BY <1>1, <1>2, <1>4, <1>5, <1>6, <1>7, <1>8 DEF RateInv, Based, Timely, Born

LEMMA ScoreBegunStays ==
    ASSUME CollectInv, Grows, Stamped, TypeOK', NEW w \in Analyst, ScoreBegun(w),
           score'[w].cells = score[w].cells, score'[w].bound = score[w].bound,
           score'[w].begun = score[w].begun
    PROVE  ScoreBegun(w)'
<1>1. PICK s : s = score[w]
  OBVIOUS
<1>2. /\ s.bound \in [Evidence -> Nat] /\ \A e \in Evidence : s.bound[e] <= acked[e]
      /\ DOMAIN s.cells # {} /\ s.begun <= hypotheses /\ s.begun \in Nat
      /\ \A p \in DOMAIN s.cells :
            p \in Pair /\ s.cells[p] \in Cell /\ p[2] <= s.begun
  BY <1>1, Typed DEF ScoreBegun, CollectInv, TypeOK, Scoring
<1>3. \A e \in Evidence : s.bound[e] <= acked'[e]
  <2>1. \A e \in Evidence : acked[e] \in Nat /\ acked'[e] \in Nat /\ acked[e] <= acked'[e]
    BY DEF Grows, CollectInv, TypeOK
  <2>. QED  BY <1>2, <2>1
<1>4. s.begun <= hypotheses'
  <2>1. hypotheses \in Nat /\ hypotheses' \in Nat
    BY HypothesesAreCounted DEF CollectInv
  <2>2. hypotheses <= hypotheses'
    BY DEF Grows
  <2>. QED  BY <1>2, <2>1, <2>2
<1>5. ASSUME NEW p \in DOMAIN s.cells, steps' = 0
      PROVE  Timely(p[1], s.cells[p])'
  <2>1. PICK e, c : e = p[1] /\ c = s.cells[p]
    OBVIOUS
  <2>2. Timely(e, c) /\ c.ts \in Nat
    BY <1>1, <1>2, <1>5, <2>1 DEF ScoreBegun, Grows, Cell
  <2>3. Timely(e, c)'
    BY <1>5, <2>2, TimelyStays
  <2>. QED  BY <2>1, <2>3
<1>6. s.cells = score'[w].cells /\ s.bound = score'[w].bound /\ s.begun = score'[w].begun
  BY <1>1
<1>. QED  BY <1>2, <1>3, <1>4, <1>5, <1>6 DEF ScoreBegun

LEMMA BoundStays ==
    ASSUME CollectInv, Grows, NEW w \in Analyst, score'[w].bound = score[w].bound,
           NEW e \in Evidence, Bound(w, e)
    PROVE  Bound(w, e)'
BY DEF Bound, Grows

\* A rating that came after the grades that bind a score, or tied with one, still does.
LEMMA RatedSinceStays ==
    ASSUME Grows, NEW w \in Analyst, NEW p,
           score'[w].cells[p] = score[w].cells[p], score'[w].bound = score[w].bound,
           RatedSince(w, p)
    PROVE  RatedSince(w, p)'
<1>1. PICK e, c : e = p[1] /\ c = score[w].cells[p]
  OBVIOUS
<1>2. Tied(e, c) => Tied(e, c)'
  BY DEF Grows, Tied
<1>. QED  BY <1>1, <1>2 DEF RatedSince, Tied

LEMMA ScoreStays ==
    ASSUME CollectInv, Grows, Stamped, TypeOK', NEW w \in Analyst,
           pc'[w] = pc[w], score'[w] = score[w], ScoreInv(w)
    PROVE  ScoreInv(w)'
<1>1. PICK s : s = score[w]
  OBVIOUS
<1>2. /\ ScoreBegun(w)'
      /\ \A p \in DOMAIN s.cells : p \in Pair
  BY <1>1, Typed, ScoreBegunStays DEF ScoreInv, CollectInv
<1>6. ASSUME pc[w] # "hypotheses"
      PROVE  /\ s.ranked = s.begun /\ s.todo \subseteq DOMAIN s.cells
             /\ \A p \in DOMAIN s.cells \ s.todo :
                   /\ Bound(w, p[1])'
                   /\ steps' = 0 => RatedSince(w, p)'
  <2>1. ASSUME NEW p \in DOMAIN s.cells \ s.todo
        PROVE  Bound(w, p[1])' /\ (steps' = 0 => RatedSince(w, p)')
    <3>1. Bound(w, p[1])'
      BY <1>1, <1>2, <1>6, <2>1, BoundStays DEF ScoreInv, Pair
    <3>2. steps' = 0 => RatedSince(w, p)
      BY <1>1, <1>6, <2>1 DEF ScoreInv, Grows
    <3>. QED  BY <3>1, <3>2, RatedSinceStays
  <2>. QED  BY <1>1, <1>6, <2>1 DEF ScoreInv
<1>7. pc[w] = "stale" => s.pair \in s.todo /\ Bound(w, s.pair[1])'
  <2>. SUFFICES ASSUME pc[w] = "stale" PROVE s.pair \in s.todo /\ Bound(w, s.pair[1])'
    OBVIOUS
  <2>1. s.pair \in s.todo /\ Bound(w, s.pair[1]) /\ s.pair \in Pair
    BY <1>1, <1>2, <1>6 DEF ScoreInv
  <2>. QED  BY <2>1, BoundStays DEF Pair
<1>8. pc[w] = "ranked" => s.todo = {}
  BY <1>1 DEF ScoreInv
<1>9. s = score'[w]
  BY <1>1
<1>. QED  BY <1>1, <1>2, <1>6, <1>7, <1>8, <1>9 DEF ScoreInv

LEMMA AnalystStays ==
    ASSUME CollectInv, Grows, Stamped, TypeOK', NEW w \in Analyst,
           pc'[w] = pc[w], call'[w] = call[w], score'[w] = score[w]
    PROVE  AnalystInv(w)'
BY RateStays, ScoreStays DEF CollectInv, AnalystInv, RatesNow, ScoresNow

-----------------------------------------------------------------------------
(* The ledger's steps.                                                      *)

\* What a step of the ledger, or of its process, leaves to the engine.
LEMMA LedgerKeeps ==
    ASSUME CollectInv, TypeOK', LedgerInv', StampInv', Grows, Stamped,
           UNCHANGED <<cells, score>>,
           \A w \in Analyst : pc'[w] = pc[w] /\ call'[w] = call[w]
    PROVE  CollectInv'
<1>1. \A p \in DOMAIN cells' : CellInv(p)'
  BY CellStays
<1>2. \A w \in Analyst : AnalystInv(w)'
  BY AnalystStays
<1>. QED  BY <1>1, <1>2 DEF CollectInv

\* A grader that is not idle holds the lock, alone.
LEMMA Alone ==
    ASSUME CollectInv, NEW g \in Grader, pc[g] # "idle"
    PROVE  /\ GraderInv(g) /\ lock = g /\ call[g] \in Grading
           /\ \A h \in Grader \ {g} : pc[h] = "idle"
BY DEF CollectInv, LedgerInv, GraderInv

\* What Refused says, before and after a step, if only g may be at work.
LEMMA RefusedWhen ==
    ASSUME NEW g \in Grader
    PROVE  /\ (\A h \in Grader \ {g} : pc[h] = "idle") =>
                  /\ pc[g] = "signal_line" => (Refused <=> unattested["signals"] > 1)
                  /\ pc[g] # "signal_line" => (Refused <=> unattested["signals"] > 0)
           /\ (\A h \in Grader \ {g} : pc'[h] = "idle") =>
                  /\ pc'[g] = "signal_line" => (Refused' <=> unattested'["signals"] > 1)
                  /\ pc'[g] # "signal_line" => (Refused' <=> unattested'["signals"] > 0)
<1>1. ASSUME \A h \in Grader \ {g} : pc[h] = "idle"
      PROVE  (\E h \in Grader : pc[h] = "signal_line") <=> pc[g] = "signal_line"
  BY <1>1
<1>2. ASSUME \A h \in Grader \ {g} : pc'[h] = "idle"
      PROVE  (\E h \in Grader : pc'[h] = "signal_line") <=> pc'[g] = "signal_line"
  BY <1>2
<1>. QED  BY <1>1, <1>2 DEF Refused

\* A step of thread t.
LEMMA Moves ==
    ASSUME TypeOK, NEW t \in Threads, NEW l \in Label,
           NEW c \in {NoCall} \cup Grading \cup Rating,
           pc' = [pc EXCEPT ![t] = l], call' = [call EXCEPT ![t] = c]
    PROVE  /\ pc' \in [Threads -> Label]
           /\ call' \in [Threads -> {NoCall} \cup Grading \cup Rating]
           /\ pc'[t] = l /\ call'[t] = c
           /\ \A u \in Threads \ {t} : pc'[u] = pc[u] /\ call'[u] = call[u]
BY DEF TypeOK

\* The same for a grader, in the words of the invariant.
LEMMA GraderMoves ==
    ASSUME TypeOK, NEW g \in Grader, NEW l \in Label,
           NEW c \in {NoCall} \cup Grading,
           pc' = [pc EXCEPT ![g] = l], call' = [call EXCEPT ![g] = c]
    PROVE  /\ pc' \in [Threads -> Label]
           /\ call' \in [Threads -> {NoCall} \cup Grading \cup Rating]
           /\ pc'[g] = l /\ call'[g] = c
           /\ \A h \in Grader \ {g} : pc'[h] = pc[h] /\ call'[h] = call[h]
           /\ \A w \in Analyst : pc'[w] = pc[w] /\ call'[w] = call[w]
<1>1. g \in Threads /\ c \in {NoCall} \cup Grading \cup Rating
  BY Apart
<1>. QED  BY <1>1, Moves, Apart

\* A step that writes no grade, no signal and no answer.
LEMMA SameBooksOf ==
    ASSUME CollectInv, TypeOK',
           UNCHANGED <<grades, acked, stale, signals>>, hypotheses <= hypotheses',
           Refused => Refused', steps' = 0 => steps = 0 /\ now <= now',
           \A g \in Grader : pc'[g] # "idle" => GraderInv(g)',
           \A g \in Grader :
              pc'[g] = "signal" =>
                  \/ pc[g] = "signal" /\ call'[g] = call[g]
                  \/ call'[g].ts \in Nat /\ call'[g].ts >= now /\ call'[g].ts <= now'
    PROVE  LedgerInv' /\ StampInv' /\ Grows /\ Stamped
<1>1. Grows
  <2>1. \A e \in Evidence : acked[e] \in Nat
    BY DEF CollectInv, TypeOK
  <2>. QED  BY <2>1 DEF Grows
<1>2. Stamped
  BY DEF Stamped
<1>3. LedgerInv'
  BY DEF CollectInv, LedgerInv, SignalsFollowGrades, StaleOf, SignalOf
<1>4. StampInv'
  <2>. SUFFICES ASSUME steps' = 0
                PROVE  /\ \A i \in DOMAIN stale' : stale'[i].ts <= now'
                       /\ \A g \in Grader : pc'[g] = "signal" => call'[g].ts <= now'
    BY DEF StampInv
  <2>1. /\ now <= now' /\ now \in Nat /\ now' \in Nat
        /\ \A i \in DOMAIN stale : stale[i].ts <= now
        /\ \A g \in Grader : pc[g] = "signal" => call[g].ts <= now
    BY DEF CollectInv, StampInv, TypeOK
  <2>2. \A i \in DOMAIN stale : stale[i].ts \in Nat
    BY Typed DEF CollectInv, StaleEvent
  <2>3. \A g \in Grader : pc[g] = "signal" => call[g].ts \in Nat
    BY Alone, GradingFields
  <2>4. \A i \in DOMAIN stale' : stale'[i].ts <= now'
    BY <2>1, <2>2
  <2>. QED  BY <2>1, <2>3, <2>4
<1>. QED  BY <1>1, <1>2, <1>3, <1>4

LEMMA SameBooks ==
    ASSUME CollectInv, TypeOK',
           UNCHANGED <<grades, acked, stale, signals, hypotheses>>,
           Refused => Refused', steps' = 0 => steps = 0 /\ now <= now',
           \A g \in Grader : pc'[g] # "idle" => GraderInv(g)',
           \A g \in Grader :
              pc'[g] = "signal" =>
                  \/ pc[g] = "signal" /\ call'[g] = call[g]
                  \/ call'[g].ts \in Nat /\ call'[g].ts >= now /\ call'[g].ts <= now'
    PROVE  LedgerInv' /\ StampInv' /\ Grows /\ Stamped
<1>1. hypotheses <= hypotheses'
  BY HypothesesAreCounted DEF CollectInv
<1>. QED  BY <1>1, SameBooksOf

\* A step that no grader takes.
LEMMA QuietLedger ==
    ASSUME CollectInv, TypeOK',
           UNCHANGED <<grades, acked, lock, stale, signals, unattested>>,
           hypotheses <= hypotheses', steps' = 0 => steps = 0 /\ now <= now',
           \A g \in Grader : pc'[g] = pc[g] /\ call'[g] = call[g]
    PROVE  LedgerInv' /\ StampInv' /\ Grows /\ Stamped
<1>1. Refused <=> Refused'
  BY DEF Refused
<1>2. ASSUME NEW g \in Grader, pc'[g] # "idle"
      PROVE  GraderInv(g)'
  <2>1. GraderInv(g)
    BY <1>2, Alone
  <2>. QED  BY <1>1, <2>1 DEF GraderInv, StaleOf, SignalOf
<1>. QED  BY <1>1, <1>2, SameBooksOf

\* What it leaves of a grader's claims.
LEMMA SameClaims ==
    ASSUME UNCHANGED <<stale, signals>>, NEW e, NEW k
    PROVE  (StaleOf(e, k)' <=> StaleOf(e, k)) /\ (SignalOf(e, k)' <=> SignalOf(e, k))
BY DEF StaleOf, SignalOf

LEMMA GradeKeeps ==
    ASSUME CollectInv, NEW g \in Grader, NEW e \in Evidence, NEW source \in Sources,
           NEW first \in BOOLEAN, Grade(g, e, source, first)
    PROVE  CollectInv'
<1> DEFINE c == [op |-> "grade", evidence |-> e, source |-> source, first |-> first,
                 grade |-> 0, attempt |-> 1, signal |-> 1, ts |-> 0]
<1>1. c \in Grading /\ c.signal = 1
  BY GateAssumption DEF Grading
<1>2. pc' = [pc EXCEPT ![g] = "check"] /\ call' = [call EXCEPT ![g] = c]
  BY DEF Grade, Goto
<1>. HIDE DEF c
<1>3. TypeOK /\ "check" \in Label
  BY DEF CollectInv, Label
<1>4. /\ pc' \in [Threads -> Label]
      /\ call' \in [Threads -> {NoCall} \cup Grading \cup Rating]
      /\ pc'[g] = "check" /\ call'[g] = c
      /\ \A h \in Grader \ {g} : pc'[h] = pc[h] /\ call'[h] = call[h]
      /\ \A w \in Analyst : pc'[w] = pc[w] /\ call'[w] = call[w]
  BY <1>1, <1>2, <1>3, GraderMoves
<1>5. \A h \in Grader : pc[h] = "idle"
  BY Alone, GateAssumption DEF Grade, Acquire
<1>6. lock' = g /\ lock' \in Grader \cup {Nobody}
  BY DEF Grade, Acquire
<1>7. TypeOK'
  BY <1>3, <1>4, <1>6 DEF Grade, TypeOK, signalled, matrix, clock
<1>8. UNCHANGED <<grades, acked, stale, signals, hypotheses, unattested, now, steps, cells,
                  score>>
  BY DEF Grade, signalled, matrix, clock
<1>9. GraderInv(g)'
  BY <1>1, <1>4, <1>6 DEF GraderInv, Committed, Signalling
<1>10. Refused => Refused'
  BY <1>4, <1>5, <1>8, RefusedWhen
<1>11. now \in Nat
  BY <1>3 DEF TypeOK
<1>12. LedgerInv' /\ StampInv' /\ Grows /\ Stamped
  BY <1>4, <1>5, <1>7, <1>8, <1>9, <1>10, <1>11, SameBooks
<1>. QED  BY <1>4, <1>7, <1>8, <1>12, LedgerKeeps

\* The call raises: what its grader wrote stays as it is.
LEMMA LeaveKeeps ==
    ASSUME CollectInv, NEW g \in Grader, pc[g] # "idle", Leave(g),
           UNCHANGED <<grades, acked, serving, crashes, signalled, unattested, matrix,
                       score, clock>>
    PROVE  CollectInv'
<1>1. pc' = [pc EXCEPT ![g] = "idle"] /\ call' = [call EXCEPT ![g] = NoCall]
      /\ lock' = Nobody
  BY DEF Leave, Goto
<1>2. TypeOK /\ "idle" \in Label
  BY DEF CollectInv, Label
<1>3. /\ pc' \in [Threads -> Label]
      /\ call' \in [Threads -> {NoCall} \cup Grading \cup Rating]
      /\ pc'[g] = "idle"
      /\ \A h \in Grader \ {g} : pc'[h] = pc[h] /\ call'[h] = call[h]
      /\ \A w \in Analyst : pc'[w] = pc[w] /\ call'[w] = call[w]
  BY <1>1, <1>2, GraderMoves
<1>4. GraderInv(g) /\ \A h \in Grader \ {g} : pc[h] = "idle"
  BY Alone
<1>5. TypeOK'
  BY <1>1, <1>2, <1>3 DEF TypeOK, signalled, matrix, clock
<1>6. UNCHANGED <<grades, acked, stale, signals, hypotheses, unattested, now, steps, cells,
                  score>>
  BY DEF signalled, matrix, clock
<1>7. Refused => Refused'
  <2>1. \A h \in Grader \ {g} : pc'[h] = "idle"
    BY <1>3, <1>4
  <2>2. unattested["signals"] \in Nat
    BY <1>2 DEF TypeOK
  <2>3. /\ pc[g] = "signal_line" => (Refused <=> unattested["signals"] > 1)
        /\ pc[g] # "signal_line" => (Refused <=> unattested["signals"] > 0)
    BY <1>4, RefusedWhen
  <2>4. Refused' <=> unattested'["signals"] > 0
    BY <1>3, <2>1, RefusedWhen
  <2>. QED  BY <1>6, <2>2, <2>3, <2>4
<1>8. now \in Nat
  BY <1>2 DEF TypeOK
<1>9. LedgerInv' /\ StampInv' /\ Grows /\ Stamped
  BY <1>3, <1>4, <1>5, <1>6, <1>7, <1>8, SameBooks
<1>. QED  BY <1>3, <1>5, <1>6, <1>9, LedgerKeeps

LEMMA CheckKeeps ==
    ASSUME CollectInv, NEW g \in Grader, Check(g)
    PROVE  CollectInv'
<1>1. pc' = [pc EXCEPT ![g] = "grade"] /\ pc[g] = "check" /\ call' = call
  BY DEF Check, Goto
<1>2. TypeOK /\ g \in Threads /\ "grade" \in Label
  BY Apart DEF CollectInv, Label
<1>3. /\ pc' \in [Threads -> Label] /\ pc'[g] = "grade"
      /\ \A h \in Grader \ {g} : pc'[h] = pc[h]
      /\ \A w \in Analyst : pc'[w] = pc[w]
  BY <1>1, <1>2, Apart DEF TypeOK
<1>4. GraderInv(g) /\ lock = g /\ call[g] \in Grading /\ \A h \in Grader \ {g} : pc[h] = "idle"
  BY <1>1, Alone
<1>5. UNCHANGED <<grades, acked, stale, signals, hypotheses, unattested, now, steps, cells,
                  score, lock, serving, rated, crashes>>
  BY DEF Check, ledger, signalled, matrix, clock
<1>6. TypeOK'
  BY <1>1, <1>2, <1>3, <1>5 DEF TypeOK, AreRatings, Scoring
<1>7. GraderInv(g)'
  BY <1>1, <1>3, <1>4, <1>5 DEF GraderInv, Committed, Signalling
<1>8. Refused => Refused'
  BY <1>1, <1>3, <1>4, <1>5, RefusedWhen
<1>9. now \in Nat
  BY <1>2 DEF TypeOK
<1>10. LedgerInv' /\ StampInv' /\ Grows /\ Stamped
  BY <1>3, <1>4, <1>5, <1>6, <1>7, <1>8, <1>9, SameBooks
<1>. QED  BY <1>1, <1>3, <1>5, <1>6, <1>10, LedgerKeeps

\* No signal is about a grade that is only now committed.
LEMMA InsertGradeKeeps ==
    ASSUME CollectInv, NEW g \in Grader, InsertGrade(g)
    PROVE  CollectInv'
<1> PICK e, n : e = call[g].evidence /\ n = Len(grades[e]) + 1
  OBVIOUS
<1> DEFINE c == [call[g] EXCEPT !.grade = n]
<1>1. TypeOK /\ "line" \in Label /\ pc[g] = "grade"
  BY DEF InsertGrade, CollectInv, Label
<1>2. GraderInv(g) /\ lock = g /\ call[g] \in Grading /\ \A h \in Grader \ {g} : pc[h] = "idle"
  BY <1>1, Alone
<1>3. e \in Evidence /\ call[g].source \in Source
  BY <1>2, GradingFields
<1>4. grades[e] \in Seq(Source) /\ Len(grades[e]) \in Nat
  BY <1>1, <1>3, Typed DEF TypeOK
<1>5. c \in Grading /\ c.grade = n /\ c.evidence = e /\ c.source = call[g].source
      /\ c.signal = call[g].signal
  <2>1. n \in Nat
    BY <1>4
  <2>. QED  BY <1>2, <2>1, GradingExcept
<1>6. /\ pc' = [pc EXCEPT ![g] = "line"] /\ call' = [call EXCEPT ![g] = c]
      /\ grades' = [grades EXCEPT ![e] = Append(grades[e], call[g].source)]
      /\ unattested' = [unattested EXCEPT !["grades"] = unattested["grades"] + 1]
  BY DEF InsertGrade, Goto
<1>7. /\ Append(grades[e], call[g].source) \in Seq(Source)
      /\ Len(Append(grades[e], call[g].source)) = n
      /\ DOMAIN Append(grades[e], call[g].source) = 1 .. n
      /\ DOMAIN grades[e] = 1 .. Len(grades[e])
      /\ \A k \in 1 .. Len(grades[e]) : Append(grades[e], call[g].source)[k] = grades[e][k]
      /\ Append(grades[e], call[g].source)[n] = call[g].source
  BY <1>3, <1>4, AppendProperties, LenProperties
<1>. HIDE DEF c
<1>8. /\ pc' \in [Threads -> Label]
      /\ call' \in [Threads -> {NoCall} \cup Grading \cup Rating]
      /\ pc'[g] = "line" /\ call'[g] = c
      /\ \A h \in Grader \ {g} : pc'[h] = pc[h] /\ call'[h] = call[h]
      /\ \A w \in Analyst : pc'[w] = pc[w] /\ call'[w] = call[w]
  BY <1>1, <1>5, <1>6, GraderMoves
<1>9. UNCHANGED <<acked, serving, lock, crashes, stale, signals, cells, hypotheses, rated,
                  score, now, steps>>
  BY DEF InsertGrade, signalled, matrix, clock
<1>10. /\ grades' \in [Evidence -> Seq(Source)]
       /\ grades'[e] = Append(grades[e], call[g].source)
       /\ \A d \in Evidence \ {e} : grades'[d] = grades[d]
  BY <1>1, <1>3, <1>6, <1>7 DEF TypeOK
<1>11. /\ unattested' \in [{"grades", "signals"} -> Nat]
       /\ unattested'["signals"] = unattested["signals"]
       /\ unattested'["grades"] > 0
  BY <1>1, <1>6 DEF TypeOK
<1>12. TypeOK'
  BY <1>1, <1>8, <1>9, <1>10, <1>11 DEF TypeOK, AreRatings, Scoring
<1>13. \A d \in Evidence :
          /\ DOMAIN grades[d] \subseteq DOMAIN grades'[d]
          /\ \A k \in DOMAIN grades[d] : grades'[d][k] = grades[d][k]
  <2>1. DOMAIN grades'[e] = 1 .. n /\ DOMAIN grades[e] = 1 .. Len(grades[e])
    BY <1>7, <1>10
  <2>2. 1 .. Len(grades[e]) \subseteq 1 .. n
    <3>1. n = Len(grades[e]) + 1 /\ Len(grades[e]) \in Nat
      BY <1>4
    <3>. QED  BY <3>1
  <2>3. \A k \in DOMAIN grades[e] : grades'[e][k] = grades[e][k]
    BY <1>7, <1>10
  <2>. QED  BY <1>10, <2>1, <2>2, <2>3
<1>14. Grows
  <2>1. Refused => Refused'
    BY <1>1, <1>2, <1>8, <1>11, RefusedWhen
  <2>2. hypotheses \in Nat /\ now \in Nat /\ \A d \in Evidence : acked[d] \in Nat
    BY <1>1, HypothesesAreCounted DEF TypeOK
  <2>. QED  BY <1>9, <1>13, <2>1, <2>2 DEF Grows
<1>15. Stamped
  BY <1>1, <1>2, <1>8, <1>9 DEF Stamped
<1>16. ~SignalOf(e, n)
  <2>1. \A i \in DOMAIN signals : signals[i].grade \in DOMAIN grades[signals[i].evidence]
    BY DEF CollectInv, LedgerInv, SignalsFollowGrades
  <2>2. n \notin DOMAIN grades[e]
    BY <1>4, <1>7
  <2>. QED  BY <2>1, <2>2 DEF SignalOf
<1>17. GraderInv(g)'
  <2>1. ~SignalOf(e, n)'
    BY <1>9, <1>16, SameClaims
  <2>2. ~SignalOf(call[g].evidence, call[g].grade)'
    BY <1>5, <1>8, <2>1 DEF SignalOf
  <2>3. n > 0 /\ n \in Nat
    BY <1>4
  <2>. QED  BY <1>1, <1>2, <1>5, <1>7, <1>8, <1>9, <1>10, <1>11, <2>2, <2>3
            DEF GraderInv, Committed, Signalling
<1>18. LedgerInv'
  <2>1. \A h \in Grader : pc'[h] # "idle" => GraderInv(h)'
    BY <1>2, <1>8, <1>17
  <2>2. \A i \in DOMAIN signals : signals[i] \in GradeSignal
    BY <1>1, Typed
  <2>3. SignalsFollowGrades'
    BY <1>9, <1>13, <2>2 DEF CollectInv, LedgerInv, SignalsFollowGrades, GradeSignal
  <2>4. \A i \in DOMAIN stale : stale[i].evidence \in Evidence
    BY <1>1, Typed DEF StaleEvent
  <2>5. \A i \in DOMAIN stale' : stale'[i].grade \in DOMAIN grades'[stale'[i].evidence]
    BY <1>9, <1>13, <2>4 DEF CollectInv, LedgerInv
  <2>6. \A d \in Evidence : acked'[d] > 0 => (StaleOf(d, acked[d]) /\ SignalOf(d, acked[d]))'
    BY <1>9 DEF CollectInv, LedgerInv, StaleOf, SignalOf
  <2>. QED  BY <2>1, <2>3, <2>5, <2>6 DEF LedgerInv
<1>19. StampInv'
  BY <1>1, <1>2, <1>8, <1>9 DEF CollectInv, StampInv
<1>. QED  BY <1>8, <1>9, <1>12, <1>14, <1>15, <1>18, <1>19, LedgerKeeps

\* A grader's next step that writes no row.
LEMMA GoesOnKeeps ==
    ASSUME CollectInv, NEW g \in Grader, pc[g] # "idle", NEW l \in Label, NEW c \in Grading,
           pc' = [pc EXCEPT ![g] = l], call' = [call EXCEPT ![g] = c],
           UNCHANGED <<grades, acked, lock, serving, crashes, signalled, matrix, score, steps>>,
           unattested' \in [{"grades", "signals"} -> Nat], now' \in Nat, now <= now',
           Refused => Refused', GraderInv(g)', l = "signal" => c.ts >= now /\ c.ts <= now'
    PROVE  CollectInv'
<1>1. TypeOK /\ \A h \in Grader \ {g} : pc[h] = "idle"
  BY Alone DEF CollectInv
<1>2. /\ pc' \in [Threads -> Label]
      /\ call' \in [Threads -> {NoCall} \cup Grading \cup Rating]
      /\ pc'[g] = l /\ call'[g] = c
      /\ \A h \in Grader \ {g} : pc'[h] = pc[h] /\ call'[h] = call[h]
      /\ \A w \in Analyst : pc'[w] = pc[w] /\ call'[w] = call[w]
  BY <1>1, GraderMoves
<1>3. UNCHANGED <<grades, acked, lock, serving, crashes, stale, signals, cells, hypotheses,
                  rated, score, steps>>
  BY DEF signalled, matrix
<1>4. TypeOK'
  BY <1>1, <1>2, <1>3 DEF TypeOK, AreRatings, Scoring
<1>5. c.ts \in Nat
  BY GradingFields
<1>6. LedgerInv' /\ StampInv' /\ Grows /\ Stamped
  BY <1>1, <1>2, <1>3, <1>4, <1>5, SameBooks
<1>. QED  BY <1>2, <1>3, <1>4, <1>6, LedgerKeeps

LEMMA AttestGradeKeeps ==
    ASSUME CollectInv, NEW g \in Grader, AttestGrade(g)
    PROVE  CollectInv'
<1> DEFINE c == call[g]
<1>1. /\ pc[g] = "line" /\ pc' = [pc EXCEPT ![g] = "stamp"] /\ call' = call
      /\ unattested' = [unattested EXCEPT !["grades"] = unattested["grades"] - 1]
      /\ UNCHANGED <<ledger, signalled, matrix, score, now, steps>>
  BY DEF AttestGrade, Goto, clock
<1>2. TypeOK /\ "stamp" \in Label
  BY DEF CollectInv, Label
<1>3. GraderInv(g) /\ lock = g /\ c \in Grading /\ \A h \in Grader \ {g} : pc[h] = "idle"
  BY <1>1, Alone
<1>4. /\ unattested' \in [{"grades", "signals"} -> Nat]
      /\ unattested'["signals"] = unattested["signals"]
  <2>1. unattested["grades"] - 1 \in Nat
    BY <1>1, <1>2, <1>3 DEF GraderInv, TypeOK
  <2>. QED  BY <1>1, <1>2, <2>1 DEF TypeOK
<1>5. call' = [call EXCEPT ![g] = c] /\ pc'[g] = "stamp" /\ now \in Nat
      /\ \A h \in Grader \ {g} : pc'[h] = "idle"
  BY <1>1, <1>2, <1>3, Apart DEF TypeOK
<1>6. UNCHANGED <<grades, lock, stale, signals>>
  BY <1>1 DEF ledger, signalled
<1>7. Refused <=> Refused'
  BY <1>1, <1>3, <1>4, <1>5, RefusedWhen
<1>8. GraderInv(g)'
  BY <1>1, <1>3, <1>4, <1>5, <1>6, <1>7
     DEF GraderInv, Committed, Signalling, StaleOf, SignalOf
<1>9. now' \in Nat /\ now <= now'
  BY <1>1, <1>5
<1>. QED  BY <1>1, <1>2, <1>3, <1>4, <1>5, <1>7, <1>8, <1>9, GoesOnKeeps DEF ledger

LEMMA ClockGoesOn ==
    ASSUME now \in Nat, ReadClock
    PROVE  now' \in Nat /\ now <= now'
BY GateAssumption DEF ReadClock

LEMMA StampKeeps ==
    ASSUME CollectInv, NEW g \in Grader, Stamp(g)
    PROVE  CollectInv'
<1> PICK n : n = now'
  OBVIOUS
<1> DEFINE c == [call[g] EXCEPT !.ts = n]
<1>1. /\ pc[g] = "stamp" /\ pc' = [pc EXCEPT ![g] = "signal"]
      /\ call' = [call EXCEPT ![g] = c] /\ now' = n
      /\ ReadClock \/ now' = now
      /\ UNCHANGED <<ledger, signalled, unattested, matrix, score, steps>>
  BY DEF Stamp, Goto
<1>2. TypeOK /\ "signal" \in Label /\ now \in Nat /\ n \in Nat /\ now <= n
  BY <1>1, ClockGoesOn DEF CollectInv, Label, TypeOK
<1>3. GraderInv(g) /\ lock = g /\ call[g] \in Grading /\ \A h \in Grader \ {g} : pc[h] = "idle"
  BY <1>1, Alone
<1>4. /\ c \in Grading /\ c.ts = n /\ c.evidence = call[g].evidence
      /\ c.grade = call[g].grade /\ c.source = call[g].source /\ c.signal = call[g].signal
  BY <1>2, <1>3, GradingExcept DEF Grading
<1>. HIDE DEF c
<1>5. /\ pc'[g] = "signal" /\ call'[g] = c /\ \A h \in Grader \ {g} : pc'[h] = "idle"
  <2>1. /\ pc' \in [Threads -> Label]
        /\ call' \in [Threads -> {NoCall} \cup Grading \cup Rating]
        /\ pc'[g] = "signal" /\ call'[g] = c
        /\ \A h \in Grader \ {g} : pc'[h] = pc[h] /\ call'[h] = call[h]
        /\ \A w \in Analyst : pc'[w] = pc[w] /\ call'[w] = call[w]
    BY <1>1, <1>2, <1>4, GraderMoves
  <2>. QED  BY <1>3, <2>1
<1>6. UNCHANGED <<grades, lock, stale, signals, unattested>>
  BY <1>1 DEF ledger, signalled
<1>7. Refused <=> Refused'
  BY <1>1, <1>3, <1>5, <1>6, RefusedWhen
<1>8. GraderInv(g)'
  BY <1>1, <1>3, <1>4, <1>5, <1>6, <1>7
     DEF GraderInv, Committed, Signalling, StaleOf, SignalOf
<1>9. unattested' \in [{"grades", "signals"} -> Nat]
  BY <1>2, <1>6 DEF TypeOK
<1>10. now' \in Nat /\ now <= now' /\ c.ts >= now /\ c.ts <= now'
  BY <1>1, <1>2, <1>4
<1>. QED  BY <1>1, <1>2, <1>3, <1>4, <1>7, <1>8, <1>9, <1>10, GoesOnKeeps DEF ledger

LEMMA AttestFirstKeeps ==
    ASSUME CollectInv, NEW g \in Grader, AttestFirst(g)
    PROVE  CollectInv'
<1> DEFINE c == [call[g] EXCEPT !.signal = 2]
<1>1. /\ pc[g] = "signal_line" /\ call[g].signal = 1 /\ pc' = [pc EXCEPT ![g] = "stamp"]
      /\ call' = [call EXCEPT ![g] = c]
      /\ unattested' = [unattested EXCEPT !["signals"] = unattested["signals"] - 1]
      /\ UNCHANGED <<ledger, signalled, matrix, score, now, steps>>
  BY DEF AttestFirst, Goto, clock
<1>2. TypeOK /\ "stamp" \in Label /\ now \in Nat /\ unattested["signals"] \in Nat
  BY DEF CollectInv, Label, TypeOK
<1>3. GraderInv(g) /\ lock = g /\ call[g] \in Grading /\ \A h \in Grader \ {g} : pc[h] = "idle"
  BY <1>1, Alone
<1>4. /\ c \in Grading /\ c.evidence = call[g].evidence
      /\ c.grade = call[g].grade /\ c.source = call[g].source /\ c.signal = 2
  BY <1>2, <1>3, GradingExcept DEF Grading
<1>. HIDE DEF c
<1>5. /\ pc'[g] = "stamp" /\ call'[g] = c /\ \A h \in Grader \ {g} : pc'[h] = "idle"
  <2>1. /\ pc' \in [Threads -> Label]
        /\ call' \in [Threads -> {NoCall} \cup Grading \cup Rating]
        /\ pc'[g] = "stamp" /\ call'[g] = c
        /\ \A h \in Grader \ {g} : pc'[h] = pc[h] /\ call'[h] = call[h]
        /\ \A w \in Analyst : pc'[w] = pc[w] /\ call'[w] = call[w]
    BY <1>1, <1>2, <1>4, GraderMoves
  <2>. QED  BY <1>3, <2>1
<1>6. UNCHANGED <<grades, lock, stale, signals>>
  BY <1>1 DEF ledger, signalled
<1>7. /\ unattested' \in [{"grades", "signals"} -> Nat]
      /\ unattested'["signals"] = unattested["signals"] - 1
  <2>1. unattested["signals"] - 1 \in Nat
    BY <1>1, <1>2, <1>3 DEF GraderInv
  <2>. QED  BY <1>1, <1>2, <2>1 DEF TypeOK
<1>8. Refused <=> Refused'
  <2>1. Refused <=> unattested["signals"] > 1
    BY <1>1, <1>3, RefusedWhen
  <2>2. Refused' <=> unattested'["signals"] > 0
    BY <1>5, RefusedWhen
  <2>. QED  BY <1>2, <1>7, <2>1, <2>2
<1>9. GraderInv(g)'
  BY <1>1, <1>3, <1>4, <1>5, <1>6, <1>8
     DEF GraderInv, Committed, Signalling, StaleOf, SignalOf
<1>10. now' \in Nat /\ now <= now'
  BY <1>1, <1>2
<1>. QED  BY <1>1, <1>2, <1>3, <1>4, <1>7, <1>8, <1>9, <1>10, GoesOnKeeps DEF ledger

\* A failed signal: both are tried again once, and then the call raises.
LEMMA SignalFailsKeeps ==
    ASSUME CollectInv, NEW g \in Grader, SignalFails(g)
    PROVE  CollectInv'
<1>1. pc[g] \in {"signal", "signal_line"}
      /\ UNCHANGED <<grades, serving, crashes, signalled, unattested, matrix, score, clock>>
  BY DEF SignalFails
<1>2. CASE GiveUp(g)
  BY <1>1, <1>2, LeaveKeeps DEF GiveUp
<1>3. CASE TryAgain(g)
  <2> DEFINE c == [call[g] EXCEPT !.attempt = 2, !.signal = 1]
  <2>1. pc' = [pc EXCEPT ![g] = "stamp"] /\ call' = [call EXCEPT ![g] = c]
        /\ UNCHANGED <<acked, lock>>
    BY <1>3 DEF TryAgain, Goto
  <2>2. TypeOK /\ "stamp" \in Label /\ now \in Nat /\ unattested["signals"] \in Nat
    BY DEF CollectInv, Label, TypeOK
  <2>3. GraderInv(g) /\ lock = g /\ call[g] \in Grading
        /\ \A h \in Grader \ {g} : pc[h] = "idle"
    BY <1>1, Alone
  <2>4. /\ c \in Grading /\ c.evidence = call[g].evidence
        /\ c.grade = call[g].grade /\ c.source = call[g].source /\ c.signal = 1
    BY <2>2, <2>3, GradingExcept DEF Grading
  <2>. HIDE DEF c
  <2>5. /\ pc'[g] = "stamp" /\ call'[g] = c /\ \A h \in Grader \ {g} : pc'[h] = "idle"
    <3>1. /\ pc' \in [Threads -> Label]
          /\ call' \in [Threads -> {NoCall} \cup Grading \cup Rating]
          /\ pc'[g] = "stamp" /\ call'[g] = c
          /\ \A h \in Grader \ {g} : pc'[h] = pc[h] /\ call'[h] = call[h]
          /\ \A w \in Analyst : pc'[w] = pc[w] /\ call'[w] = call[w]
      BY <2>1, <2>2, <2>4, GraderMoves
    <3>. QED  BY <2>3, <3>1
  <2>6. UNCHANGED <<grades, lock, stale, signals, unattested, now, steps>>
    BY <1>1, <2>1 DEF signalled, clock
  <2>7. Refused' <=> unattested["signals"] > 0
    BY <2>5, <2>6, RefusedWhen
  <2>8. Refused => Refused'
    BY <2>2, <2>3, <2>7, RefusedWhen
  <2>9. SignalOf(c.evidence, c.grade) => Refused'
    <3>1. CASE pc[g] = "signal"
      BY <2>3, <2>4, <2>8, <3>1 DEF GraderInv, Committed
    <3>2. CASE pc[g] = "signal_line"
      BY <2>3, <2>7, <3>2 DEF GraderInv
    <3>. QED  BY <1>1, <3>1, <3>2
  <2>10. GraderInv(g)'
    BY <1>1, <2>3, <2>4, <2>5, <2>6, <2>9
       DEF GraderInv, Committed, Signalling, StaleOf, SignalOf
  <2>11. unattested' \in [{"grades", "signals"} -> Nat]
    BY <2>2, <2>6 DEF TypeOK
  <2>12. now' \in Nat /\ now <= now'
    BY <2>2, <2>6
  <2>. QED  BY <1>1, <2>1, <2>2, <2>3, <2>4, <2>6, <2>8, <2>10, <2>11, <2>12, GoesOnKeeps
<1>. QED  BY <1>2, <1>3 DEF SignalFails

\* What an InsertSignal does to the log it does not write is left out: the two cases are
\* told apart first.
LEMMA WritesStale ==
    ASSUME CollectInv, NEW g \in Grader, InsertSignal(g)
    PROVE  \/ /\ call[g].signal = 1 /\ UNCHANGED signals
              /\ stale' = Append(stale, [evidence |-> call[g].evidence,
                                         grade |-> call[g].grade, ts |-> call[g].ts])
           \/ /\ call[g].signal = 2 /\ UNCHANGED stale
              /\ signals' = Append(signals, [evidence |-> call[g].evidence,
                                grade |-> call[g].grade, source |-> call[g].source])
<1>1. call[g] \in Grading
  BY Alone DEF InsertSignal
<1>2. call[g].signal \in {1, 2}
  BY <1>1, GradingFields
<1>. QED  BY <1>2, SignalOrderFacts DEF InsertSignal

LEMMA InsertSignalKeeps ==
    ASSUME CollectInv, NEW g \in Grader, InsertSignal(g)
    PROVE  CollectInv'
<1> PICK c, e, k : c = call[g] /\ e = c.evidence /\ k = c.grade
  OBVIOUS
<1>1. /\ pc[g] = "signal" /\ pc' = [pc EXCEPT ![g] = "signal_line"] /\ call' = call
      /\ unattested' = [unattested EXCEPT !["signals"] = unattested["signals"] + 1]
      /\ UNCHANGED <<grades, acked, lock, serving, crashes, cells, hypotheses, rated, score,
                     now, steps>>
  BY DEF InsertSignal, Goto, ledger, matrix, clock
<1>2. TypeOK /\ "signal_line" \in Label /\ now \in Nat /\ unattested["signals"] \in Nat
      /\ hypotheses \in Nat /\ g \in Threads
  BY HypothesesAreCounted, Apart DEF CollectInv, Label, TypeOK
<1>3. GraderInv(g) /\ lock = g /\ c \in Grading /\ \A h \in Grader \ {g} : pc[h] = "idle"
  BY <1>1, Alone
<1>4. e \in Evidence /\ c.source \in Source /\ k \in Nat /\ c.ts \in Nat
  BY <1>3, GradingFields
<1>5. /\ k > 0 /\ k = Len(grades[e]) /\ grades[e][k] = c.source
  BY <1>1, <1>3 DEF GraderInv, Committed
<1>6. /\ pc' \in [Threads -> Label] /\ pc'[g] = "signal_line"
      /\ \A h \in Grader \ {g} : pc'[h] = "idle" /\ pc'[h] = pc[h]
      /\ \A w \in Analyst : pc'[w] = pc[w]
  BY <1>1, <1>2, <1>3, Apart DEF TypeOK
<1>7. /\ unattested' \in [{"grades", "signals"} -> Nat]
      /\ unattested'["signals"] = unattested["signals"] + 1
  BY <1>1, <1>2 DEF TypeOK
<1>8. Refused => Refused'
  <2>1. Refused <=> unattested["signals"] > 0
    BY <1>1, <1>3, RefusedWhen
  <2>2. Refused' <=> unattested'["signals"] > 1
    BY <1>6, RefusedWhen
  <2>. QED  BY <1>2, <1>7, <2>1, <2>2
<1>9. DOMAIN grades[e] = 1 .. Len(grades[e]) /\ k \in DOMAIN grades[e]
  BY <1>2, <1>4, <1>5, Typed
<1>10. CASE /\ c.signal = 1 /\ UNCHANGED signals
            /\ stale' = Append(stale, [evidence |-> e, grade |-> k, ts |-> c.ts])
  <2> DEFINE row == [evidence |-> e, grade |-> k, ts |-> c.ts]
             n == Len(stale) + 1
  <2>1. row \in StaleEvent /\ row.evidence = e /\ row.grade = k /\ row.ts = c.ts
    BY <1>4 DEF StaleEvent
  <2>2. stale \in Seq(StaleEvent) /\ stale' = Append(stale, row)
    BY <1>2, <1>10 DEF TypeOK
  <2>. HIDE DEF row
  <2>3. /\ stale' \in Seq(StaleEvent) /\ stale'[n] = row
        /\ DOMAIN stale = 1 .. Len(stale) /\ Len(stale) \in Nat
        /\ DOMAIN stale' = 1 .. n
        /\ \A i \in 1 .. Len(stale) : stale'[i] = stale[i]
    BY <2>1, <2>2, AppendProperties, LenProperties
  <2>4. /\ DOMAIN stale \subseteq DOMAIN stale' /\ \A i \in DOMAIN stale : stale'[i] = stale[i]
        /\ n \in DOMAIN stale' /\ \A i \in DOMAIN stale' \ DOMAIN stale : i = n
    BY <2>3
  <2>. HIDE DEF n
  <2>5. TypeOK'
    BY <1>1, <1>2, <1>6, <1>7, <1>10, <2>3 DEF TypeOK, AreRatings, Scoring
  <2>6. Grows
    BY <1>1, <1>2, <1>8, <1>10, <2>4 DEF Grows, TypeOK
  <2>7. Stamped
    BY <1>1, <1>3, <1>6, <1>10, <2>1, <2>3, <2>4 DEF Stamped
  <2>8. StaleOf(e, k)'
    BY <2>1, <2>3, <2>4 DEF StaleOf
  <2>9. SignalOf(e, k) => Refused'
    BY <1>1, <1>3, <1>8, <1>10 DEF GraderInv, Committed
  <2>10. SignalOf(e, k)' => Refused'
    BY <1>10, <2>9 DEF SignalOf
  <2>11. GraderInv(g)'
    BY <1>1, <1>2, <1>3, <1>5, <1>6, <1>7, <1>10, <2>8, <2>10
       DEF GraderInv, Committed, Signalling, StaleOf, SignalOf
  <2>12. LedgerInv'
    <3>1. \A h \in Grader : pc'[h] # "idle" => GraderInv(h)'
      BY <1>6, <2>11
    <3>2. SignalsFollowGrades'
      BY <1>1, <1>10 DEF CollectInv, LedgerInv, SignalsFollowGrades
    <3>3. \A i \in DOMAIN stale' : stale'[i].grade \in DOMAIN grades'[stale'[i].evidence]
      BY <1>1, <1>9, <2>1, <2>3, <2>4 DEF CollectInv, LedgerInv
    <3>4. \A d \in Evidence :
             acked'[d] > 0 => (StaleOf(d, acked[d]) /\ SignalOf(d, acked[d]))'
      BY <1>1, <1>10, <2>4 DEF CollectInv, LedgerInv, StaleOf, SignalOf
    <3>. QED  BY <3>1, <3>2, <3>3, <3>4 DEF LedgerInv
  <2>13. StampInv'
    BY <1>1, <1>3, <1>6, <2>1, <2>3, <2>4 DEF CollectInv, StampInv
  <2>. QED  BY <1>1, <1>6, <2>5, <2>6, <2>7, <2>12, <2>13, LedgerKeeps
<1>11. CASE /\ c.signal = 2 /\ UNCHANGED stale
            /\ signals' = Append(signals, [evidence |-> e, grade |-> k, source |-> c.source])
  <2> DEFINE row == [evidence |-> e, grade |-> k, source |-> c.source]
             n == Len(signals) + 1
  <2>1. row \in GradeSignal /\ row.evidence = e /\ row.grade = k /\ row.source = c.source
    BY <1>4 DEF GradeSignal
  <2>2. signals \in Seq(GradeSignal) /\ signals' = Append(signals, row)
    BY <1>2, <1>11 DEF TypeOK
  <2>. HIDE DEF row
  <2>3. /\ signals' \in Seq(GradeSignal) /\ signals'[n] = row
        /\ DOMAIN signals = 1 .. Len(signals) /\ Len(signals) \in Nat
        /\ DOMAIN signals' = 1 .. n
        /\ \A i \in 1 .. Len(signals) : signals'[i] = signals[i]
    BY <2>1, <2>2, AppendProperties, LenProperties
  <2>4. /\ DOMAIN signals \subseteq DOMAIN signals' /\ n \in Nat
        /\ \A i \in DOMAIN signals : signals'[i] = signals[i] /\ i < n
        /\ n \in DOMAIN signals' /\ \A i \in DOMAIN signals' \ DOMAIN signals : i = n
    BY <2>3
  <2>. HIDE DEF n
  <2>5. TypeOK'
    BY <1>1, <1>2, <1>6, <1>7, <1>11, <2>3 DEF TypeOK, AreRatings, Scoring
  <2>6. Grows
    BY <1>1, <1>2, <1>8, <1>11, <2>4 DEF Grows, TypeOK
  <2>7. Stamped
    BY <1>1, <1>3, <1>6, <1>11 DEF Stamped
  <2>8. SignalOf(e, k)' /\ StaleOf(e, k)'
    <3>1. StaleOf(e, k)
      BY <1>1, <1>3, <1>11 DEF GraderInv
    <3>. QED  BY <1>11, <2>1, <2>3, <2>4, <3>1 DEF SignalOf, StaleOf
  <2>9. GraderInv(g)'
    BY <1>1, <1>2, <1>3, <1>5, <1>6, <1>7, <1>11, <2>8
       DEF GraderInv, Committed, Signalling, StaleOf, SignalOf
  <2>10. SignalsFollowGrades'
    <3>1. \A i \in DOMAIN signals' : /\ signals'[i].grade \in DOMAIN grades[signals'[i].evidence]
                                     /\ signals'[i].source =
                                          grades[signals'[i].evidence][signals'[i].grade]
      BY <1>5, <1>9, <2>1, <2>3, <2>4 DEF CollectInv, LedgerInv, SignalsFollowGrades
    <3>2. \A i \in DOMAIN signals : signals[i].evidence = e => signals[i].grade <= k
      BY <1>4, <1>5, <1>9 DEF CollectInv, LedgerInv, SignalsFollowGrades
    <3>3. ASSUME NEW i \in DOMAIN signals', NEW j \in DOMAIN signals',
                 i < j, signals'[i].evidence = signals'[j].evidence
          PROVE  signals'[i].grade <= signals'[j].grade
      <4>1. CASE j \in DOMAIN signals
        <5>1. i \in DOMAIN signals
          BY <2>3, <2>4, <3>3, <4>1
        <5>. QED  BY <2>4, <3>3, <4>1, <5>1 DEF CollectInv, LedgerInv, SignalsFollowGrades
      <4>2. CASE j = n
        <5>1. i \in DOMAIN signals
          BY <2>3, <2>4, <3>3, <4>2
        <5>. QED  BY <2>1, <2>3, <2>4, <3>2, <3>3, <4>2, <5>1
      <4>. QED  BY <2>4, <4>1, <4>2
    <3>. QED  BY <1>1, <3>1, <3>3 DEF SignalsFollowGrades
  <2>11. LedgerInv'
    <3>1. \A h \in Grader : pc'[h] # "idle" => GraderInv(h)'
      BY <1>6, <2>9
    <3>2. \A i \in DOMAIN stale' : stale'[i].grade \in DOMAIN grades'[stale'[i].evidence]
      BY <1>1, <1>11 DEF CollectInv, LedgerInv
    <3>3. \A d \in Evidence :
             acked'[d] > 0 => (StaleOf(d, acked[d]) /\ SignalOf(d, acked[d]))'
      BY <1>1, <1>11, <2>4 DEF CollectInv, LedgerInv, StaleOf, SignalOf
    <3>. QED  BY <2>10, <3>1, <3>2, <3>3 DEF LedgerInv
  <2>12. StampInv'
    BY <1>1, <1>6, <1>11 DEF CollectInv, StampInv
  <2>. QED  BY <1>1, <1>6, <2>5, <2>6, <2>7, <2>11, <2>12, LedgerKeeps
<1>. QED  BY <1>10, <1>11, WritesStale

\* The call is answered only after both signals have their lines.
LEMMA AttestLastKeeps ==
    ASSUME CollectInv, NEW g \in Grader, AttestLast(g)
    PROVE  CollectInv'
<1> PICK e, k : e = call[g].evidence /\ k = call[g].grade
  OBVIOUS
<1>1. /\ pc[g] = "signal_line" /\ call[g].signal = 2 /\ lock' = Nobody
      /\ pc' = [pc EXCEPT ![g] = "idle"] /\ call' = [call EXCEPT ![g] = NoCall]
      /\ unattested' = [unattested EXCEPT !["signals"] = unattested["signals"] - 1]
      /\ acked' = [acked EXCEPT ![e] = k]
      /\ UNCHANGED <<grades, serving, crashes, stale, signals, cells, hypotheses, rated, score,
                     now, steps>>
  BY DEF AttestLast, Leave, Goto, signalled, matrix, clock
<1>2. TypeOK /\ "idle" \in Label /\ now \in Nat /\ unattested["signals"] \in Nat
      /\ hypotheses \in Nat
  BY HypothesesAreCounted DEF CollectInv, Label, TypeOK
<1>3. GraderInv(g) /\ lock = g /\ call[g] \in Grading /\ \A h \in Grader \ {g} : pc[h] = "idle"
  BY <1>1, Alone
<1>4. e \in Evidence /\ k \in Nat
  BY <1>3, GradingFields
<1>5. /\ pc' \in [Threads -> Label]
      /\ call' \in [Threads -> {NoCall} \cup Grading \cup Rating]
      /\ pc'[g] = "idle" /\ call'[g] = NoCall
      /\ \A h \in Grader \ {g} : pc'[h] = pc[h] /\ call'[h] = call[h]
      /\ \A w \in Analyst : pc'[w] = pc[w] /\ call'[w] = call[w]
  BY <1>1, <1>2, GraderMoves
<1>6. k = Len(grades[e]) /\ StaleOf(e, k) /\ SignalOf(e, k) /\ unattested["signals"] > 0
  BY <1>1, <1>3 DEF GraderInv, Committed
<1>7. /\ unattested' \in [{"grades", "signals"} -> Nat]
      /\ unattested'["signals"] = unattested["signals"] - 1
  <2>1. unattested["signals"] - 1 \in Nat
    BY <1>2, <1>6
  <2>. QED  BY <1>1, <1>2, <2>1 DEF TypeOK
<1>8. acked' \in [Evidence -> Nat] /\ acked'[e] = k
      /\ \A d \in Evidence \ {e} : acked'[d] = acked[d]
  BY <1>1, <1>2, <1>4 DEF TypeOK
<1>9. TypeOK'
  BY <1>1, <1>2, <1>5, <1>7, <1>8 DEF TypeOK, AreRatings, Scoring
<1>10. Refused => Refused'
  <2>1. Refused <=> unattested["signals"] > 1
    BY <1>1, <1>3, RefusedWhen
  <2>2. \A h \in Grader \ {g} : pc'[h] = "idle"
    BY <1>3, <1>5
  <2>3. Refused' <=> unattested'["signals"] > 0
    BY <1>5, <2>2, RefusedWhen
  <2>. QED  BY <1>2, <1>7, <2>1, <2>3
<1>11. acked[e] <= k /\ \A d \in Evidence : acked[d] \in Nat
  <2>1. acked[e] > 0 => acked[e] \in DOMAIN grades[e]
    BY <1>4 DEF CollectInv, LedgerInv, SignalsFollowGrades, SignalOf
  <2>2. DOMAIN grades[e] = 1 .. k /\ \A d \in Evidence : acked[d] \in Nat
    BY <1>2, <1>4, <1>6, Typed
  <2>. QED  BY <1>4, <2>1, <2>2
<1>12. Grows
  <2>1. \A d \in Evidence : acked[d] <= acked'[d]
    BY <1>4, <1>8, <1>11
  <2>. QED  BY <1>1, <1>2, <1>10, <2>1 DEF Grows
<1>13. Stamped
  BY <1>1, <1>5 DEF Stamped
<1>14. LedgerInv'
  <2>1. \A h \in Grader : pc'[h] = "idle"
    BY <1>3, <1>5
  <2>2. SignalsFollowGrades'
        /\ \A i \in DOMAIN stale' : stale'[i].grade \in DOMAIN grades'[stale'[i].evidence]
    BY <1>1 DEF CollectInv, LedgerInv, SignalsFollowGrades
  <2>3. ASSUME NEW d \in Evidence, acked'[d] > 0
        PROVE  (StaleOf(d, acked[d]) /\ SignalOf(d, acked[d]))'
    <3> PICK m : m = acked'[d]
      OBVIOUS
    <3>1. StaleOf(d, m) /\ SignalOf(d, m)
      <4>1. CASE d = e
        BY <1>6, <1>8, <4>1
      <4>2. CASE d # e
        BY <1>8, <2>3, <4>2 DEF CollectInv, LedgerInv
      <4>. QED  BY <4>1, <4>2
    <3>. QED  BY <1>1, <3>1 DEF StaleOf, SignalOf
  <2>. QED  BY <2>1, <2>2, <2>3 DEF LedgerInv
<1>15. StampInv'
  BY <1>1, <1>5 DEF CollectInv, StampInv
<1>. QED  BY <1>1, <1>5, <1>9, <1>12, <1>13, <1>14, <1>15, LedgerKeeps

\* A crash ends every call of the ledger; a row may stay without its line.
LEMMA CrashKeeps ==
    ASSUME CollectInv, Crash
    PROVE  CollectInv'
<1>1. /\ pc' = [t \in Threads |-> IF t \in Grader THEN "idle" ELSE pc[t]]
      /\ call' = [t \in Threads |-> IF t \in Grader THEN NoCall ELSE call[t]]
      /\ serving' = FALSE /\ lock' = Nobody /\ crashes' = crashes + 1 /\ crashes < MaxCrashes
      /\ UNCHANGED <<grades, acked, stale, signals, unattested, cells, hypotheses, rated,
                     score, now, steps>>
  BY DEF Crash, signalled, matrix, clock
<1>2. TypeOK /\ "idle" \in Label /\ now \in Nat /\ unattested["signals"] \in Nat
  BY DEF CollectInv, Label, TypeOK
<1>3. /\ pc' \in [Threads -> Label]
      /\ call' \in [Threads -> {NoCall} \cup Grading \cup Rating]
      /\ \A h \in Grader : pc'[h] = "idle"
      /\ \A w \in Analyst : pc'[w] = pc[w] /\ call'[w] = call[w]
  BY <1>1, <1>2, Apart DEF TypeOK
<1>4. crashes' \in 0 .. MaxCrashes
  BY <1>1, <1>2, GateAssumption DEF TypeOK
<1>5. TypeOK'
  BY <1>1, <1>2, <1>3, <1>4 DEF TypeOK, AreRatings, Scoring
<1>6. Refused => Refused'
  <2>1. Refused' <=> unattested["signals"] > 0
    BY <1>1, <1>3 DEF Refused
  <2>2. Refused => unattested["signals"] > 0
    BY <1>2 DEF Refused
  <2>. QED  BY <2>1, <2>2
<1>7. LedgerInv' /\ StampInv' /\ Grows /\ Stamped
  BY <1>1, <1>2, <1>3, <1>5, <1>6, SameBooks
<1>. QED  BY <1>1, <1>3, <1>5, <1>7, LedgerKeeps

\* Steps that no thread takes.
LEMMA RestartKeeps ==
    ASSUME CollectInv, Restart \/ SetBack \/ AddHypothesis
    PROVE  CollectInv'
<1>1. /\ UNCHANGED <<grades, acked, lock, crashes, stale, signals, unattested, cells, rated,
                     pc, call, score>>
      /\ serving' \in BOOLEAN /\ hypotheses' \in 1 .. MaxHypotheses /\ hypotheses <= hypotheses'
      /\ now' \in Nat /\ steps' \in 0 .. MaxSteps
      /\ steps' = 0 => steps = 0 /\ now <= now'
  <2>1. TypeOK /\ hypotheses \in Nat /\ now \in Nat /\ steps \in 0 .. MaxSteps
        /\ MaxSteps \in Nat /\ MaxHypotheses \in Nat /\ hypotheses \in 1 .. MaxHypotheses
        /\ serving \in BOOLEAN
    BY HypothesesAreCounted, GateAssumption DEF CollectInv, TypeOK
  <2>2. CASE Restart
    BY <2>1, <2>2 DEF Restart, signalled, matrix, clock
  <2>3. CASE SetBack
    BY <2>1, <2>3 DEF SetBack, ledger, signalled, matrix
  <2>4. CASE AddHypothesis
    BY <2>1, <2>4 DEF AddHypothesis, ledger, signalled, clock
  <2>. QED  BY <2>2, <2>3, <2>4
<1>2. TypeOK /\ hypotheses \in Nat /\ now \in Nat
  BY HypothesesAreCounted DEF CollectInv, TypeOK
<1>3. TypeOK'
  BY <1>1, <1>2 DEF TypeOK, AreRatings, Scoring
<1>4. LedgerInv' /\ StampInv' /\ Grows /\ Stamped
  BY <1>1, <1>3, QuietLedger
<1>. QED  BY <1>1, <1>3, <1>4, LedgerKeeps

-----------------------------------------------------------------------------
(* The engine's steps.                                                      *)

\* A step of analyst w.
EngineStep(w) ==
    /\ UNCHANGED <<ledger, signalled, unattested, hypotheses, steps>>
    /\ now <= now'
    /\ \A t \in Threads \ {w} : pc'[t] = pc[t] /\ call'[t] = call[t]
    /\ \A v \in Analyst \ {w} : score'[v] = score[v]

LEMMA EngineStepIsQuiet ==
    ASSUME CollectInv, TypeOK', NEW w \in Analyst, EngineStep(w)
    PROVE  /\ LedgerInv' /\ StampInv' /\ Grows /\ Stamped
           /\ \A v \in Analyst \ {w} : AnalystInv(v)'
<1>1. hypotheses \in Nat
  BY HypothesesAreCounted DEF CollectInv
<1>2. LedgerInv' /\ StampInv' /\ Grows /\ Stamped
  BY <1>1, QuietLedger, Apart DEF EngineStep, ledger, signalled
<1>3. \A v \in Analyst \ {w} : AnalystInv(v)'
  BY <1>2, AnalystStays, Apart DEF EngineStep
<1>. QED  BY <1>2, <1>3

LEMMA EngineKeeps ==
    ASSUME CollectInv, TypeOK', NEW w \in Analyst, EngineStep(w), cells' = cells,
           AnalystInv(w)'
    PROVE  CollectInv'
<1>1. /\ LedgerInv' /\ StampInv' /\ Grows /\ Stamped
      /\ \A v \in Analyst \ {w} : AnalystInv(v)'
  BY EngineStepIsQuiet
<1>2. \A p \in DOMAIN cells' : CellInv(p)'
  BY <1>1, CellStays
<1>. QED  BY <1>1, <1>2 DEF CollectInv

\* What an analyst's program counter says about its call.
LEMMA Rates ==
    ASSUME CollectInv, NEW w \in Analyst, pc[w] \in {"source", "rate", "insert"}
    PROVE  call[w] \in Rating /\ score[w] = NoScore /\ RateInv(w) /\ call[w] # NoCall
BY RatingFields DEF CollectInv, AnalystInv, ScoresNow, RatesNow, RateInv

LEMMA Scores ==
    ASSUME CollectInv, NEW w \in Analyst, pc[w] \in {"hypotheses", "gate", "stale", "ranked"}
    PROVE  call[w] = NoCall /\ ScoreInv(w)
BY DEF CollectInv, AnalystInv, ScoresNow, RatesNow

LEMMA NoScoreTyped == AreRatings(NoScore.cells) /\ NoScore \in Scoring(NoScore.cells)
<1>1. << >> \in [{} -> Cell] /\ DOMAIN << >> = {}
  OBVIOUS
<1>. QED  BY <1>1 DEF NoScore, Scoring, AreRatings

\* The type of a step of analyst w that changes its call, its score, or both.
LEMMA EngineTyped ==
    ASSUME CollectInv, NEW w \in Analyst, NEW l \in Label,
           NEW c \in {NoCall} \cup Rating, NEW s,
           AreRatings(s.cells), s \in Scoring(s.cells),
           pc' = [pc EXCEPT ![w] = l], call' = [call EXCEPT ![w] = c],
           score' = [score EXCEPT ![w] = s],
           UNCHANGED <<ledger, signalled, unattested, hypotheses, steps>>,
           AreRatings(cells'), rated' \in 0 .. MaxCells, now' \in Nat, now <= now'
    PROVE  /\ TypeOK' /\ EngineStep(w)
           /\ pc'[w] = l /\ call'[w] = c /\ score'[w] = s
<1>1. TypeOK /\ w \in Threads /\ c \in {NoCall} \cup Grading \cup Rating
  BY Apart DEF CollectInv
<1>2. /\ pc' \in [Threads -> Label]
      /\ call' \in [Threads -> {NoCall} \cup Grading \cup Rating]
      /\ pc'[w] = l /\ call'[w] = c
      /\ \A u \in Threads \ {w} : pc'[u] = pc[u] /\ call'[u] = call[u]
  BY <1>1, Moves
<1>3. score = [v \in Analyst |-> score[v]]
      /\ \A v \in Analyst : AreRatings(score[v].cells) /\ score[v] \in Scoring(score[v].cells)
  BY <1>1 DEF TypeOK
<1>4. score' = [v \in Analyst |-> IF v = w THEN s ELSE score[v]]
  BY <1>3
<1>5. /\ score' = [v \in Analyst |-> score'[v]] /\ score'[w] = s
      /\ \A v \in Analyst \ {w} : score'[v] = score[v]
  BY <1>4
<1>6. \A v \in Analyst : AreRatings(score'[v].cells) /\ score'[v] \in Scoring(score'[v].cells)
  BY <1>3, <1>5
<1>7. TypeOK'
  <2>1. /\ grades' \in [Evidence -> Seq(Source)] /\ acked' \in [Evidence -> Nat]
        /\ stale' \in Seq(StaleEvent) /\ signals' \in Seq(GradeSignal)
        /\ unattested' \in [{"grades", "signals"} -> Nat]
        /\ serving' \in BOOLEAN /\ lock' \in Grader \cup {Nobody}
        /\ hypotheses' \in 1 .. MaxHypotheses
        /\ crashes' \in 0 .. MaxCrashes /\ steps' \in 0 .. MaxSteps
    BY <1>1 DEF TypeOK, ledger, signalled
  <2>2. (\A v \in Analyst : AreRatings(score[v].cells) /\ score[v] \in Scoring(score[v].cells))'
    BY <1>6 DEF AreRatings, Scoring
  <2>3. AreRatings(cells)'
    BY DEF AreRatings
  <2>. QED  BY <1>2, <1>5, <2>1, <2>2, <2>3 DEF TypeOK
<1>8. EngineStep(w)
  BY <1>2, <1>5 DEF EngineStep
<1>. QED  BY <1>2, <1>5, <1>7, <1>8

\* A call that ends, whatever its answer.
LEMMA FinishKeeps ==
    ASSUME CollectInv, NEW w \in Analyst, Raise(w)
    PROVE  CollectInv'
<1>1. /\ pc' = [pc EXCEPT ![w] = "idle"] /\ call' = [call EXCEPT ![w] = NoCall]
      /\ score' = [score EXCEPT ![w] = NoScore]
      /\ UNCHANGED <<ledger, signalled, unattested, hypotheses, rated, cells, now, steps>>
  BY DEF Raise, Finish, Goto, matrix, clock
<1>2. /\ AreRatings(cells') /\ rated' \in 0 .. MaxCells /\ now' \in Nat /\ now <= now'
      /\ "idle" \in Label
  BY <1>1 DEF CollectInv, TypeOK, Label, AreRatings
<1>3. /\ TypeOK' /\ EngineStep(w)
      /\ pc'[w] = "idle" /\ call'[w] = NoCall /\ score'[w] = NoScore
  BY <1>1, <1>2, NoScoreTyped, EngineTyped
<1>4. AnalystInv(w)'
  BY <1>3 DEF AnalystInv
<1>. QED  BY <1>1, <1>3, <1>4, EngineKeeps

\* What a step that leaves a call, or a score, as it is leaves as a function.
LEMMA Unmoved ==
    ASSUME CollectInv, NEW w \in Analyst
    PROVE  /\ call = [call EXCEPT ![w] = call[w]] /\ score = [score EXCEPT ![w] = score[w]]
           /\ AreRatings(score[w].cells) /\ score[w] \in Scoring(score[w].cells)
           /\ AreRatings(cells) /\ rated \in 0 .. MaxCells /\ now \in Nat
<1>1. TypeOK /\ w \in Threads
  BY Apart DEF CollectInv
<1>. QED  BY <1>1 DEF TypeOK

LEMMA RateKeeps ==
    ASSUME CollectInv, NEW w \in Analyst, NEW e \in Evidence, NEW h \in 1 .. MaxHypotheses,
           NEW source \in Source, Rate(w, e, h, source)
    PROVE  CollectInv'
<1> DEFINE c == [op |-> "rate", evidence |-> e, hypothesis |-> h, source |-> source,
                 seen |-> 0, basis |-> 0, ts |-> 0]
           l == IF source = "analyst_confirmed" THEN "verify" ELSE "rate"
<1>1. /\ pc[w] = "idle" /\ pc' = [pc EXCEPT ![w] = l] /\ call' = [call EXCEPT ![w] = c]
      /\ rated < MaxCells /\ rated' = rated + 1 /\ h <= hypotheses
      /\ UNCHANGED <<ledger, signalled, unattested, cells, hypotheses, score, now, steps>>
  BY DEF Rate, Goto, clock
<1>2. c \in Rating /\ c.hypothesis = h /\ c.source = source
  BY DEF Rating
<1>3. /\ l \in {"verify", "rate"} /\ l \in Label
      /\ source # "analyst_confirmed" => l = "rate"
      /\ source = "analyst_confirmed" => l = "verify"
  BY DEF Label
<1>. HIDE DEF c, l
<1>4. rated' \in 0 .. MaxCells
  BY <1>1, Unmoved, GateAssumption
<1>5. score[w] = NoScore
  BY <1>1 DEF CollectInv, AnalystInv, ScoresNow, RatesNow
<1>6. /\ TypeOK' /\ EngineStep(w)
      /\ pc'[w] = l /\ call'[w] = c /\ score'[w] = score[w]
  <2>1. score' = [score EXCEPT ![w] = score[w]] /\ AreRatings(cells') /\ now' \in Nat
        /\ now <= now'
    BY <1>1, Unmoved
  <2>. QED  BY <1>1, <1>2, <1>3, <1>4, <2>1, Unmoved, EngineTyped
<1>7. AnalystInv(w)'
  BY <1>1, <1>2, <1>3, <1>5, <1>6, RatingFields
     DEF AnalystInv, RatesNow, RateInv, Based
<1>. QED  BY <1>1, <1>6, <1>7, EngineKeeps

LEMMA VerifySignalsKeeps ==
    ASSUME CollectInv, NEW w \in Analyst, VerifySignals(w)
    PROVE  CollectInv'
<1> DEFINE l == IF call[w].op = "rate" THEN "source" ELSE "gate"
<1>1. /\ pc[w] = "verify" /\ pc' = [pc EXCEPT ![w] = l]
      /\ UNCHANGED <<ledger, signalled, unattested, cells, rated, hypotheses, call, score, now,
                     steps>>
  BY DEF VerifySignals, Goto, clock, matrix
<1>2. \/ RatesNow(w) /\ score[w] = NoScore /\ RateInv(w)
      \/ ScoresNow(w) /\ ScoreInv(w)
  BY <1>1 DEF CollectInv, AnalystInv
<1>3. /\ RatesNow(w) /\ RateInv(w) => call[w] \in Rating /\ l = "source"
      /\ ScoresNow(w) => call[w] = NoCall /\ l = "gate"
      /\ l \in Label
  BY RatingFields DEF RateInv, ScoresNow, NoCall, Label
<1>. HIDE DEF l
<1>4. /\ TypeOK' /\ EngineStep(w)
      /\ pc'[w] = l /\ call'[w] = call[w] /\ score'[w] = score[w]
  <2>1. /\ score' = [score EXCEPT ![w] = score[w]] /\ AreRatings(cells') /\ now' \in Nat
        /\ call' = [call EXCEPT ![w] = call[w]] /\ rated' \in 0 .. MaxCells /\ now <= now'
        /\ call[w] \in {NoCall} \cup Rating
    BY <1>1, <1>2, <1>3, Unmoved
  <2>. QED  BY <1>1, <1>3, <2>1, Unmoved, EngineTyped
<1>5. Grows /\ Stamped
  BY <1>4, EngineStepIsQuiet
<1>6. CASE RatesNow(w) /\ score[w] = NoScore /\ RateInv(w)
  BY <1>1, <1>3, <1>4, <1>6, EngineKeeps DEF AnalystInv, RatesNow, RateInv
<1>7. CASE ScoresNow(w) /\ ScoreInv(w)
  <2>1. ScoreBegun(w)'
    BY <1>4, <1>5, <1>7, ScoreBegunStays DEF ScoreInv
  <2>2. \A e : Bound(w, e) => Bound(w, e)'
    BY <1>1, <1>4 DEF Bound, ledger
  <2>3. steps' = steps /\ \A p : RatedSince(w, p) => RatedSince(w, p)'
    BY <1>1, <1>4, <1>5, RatedSinceStays
  <2>4. ScoreInv(w)'
    BY <1>1, <1>3, <1>4, <1>7, <2>1, <2>2, <2>3 DEF ScoreInv
  <2>. QED  BY <1>1, <1>3, <1>4, <1>7, <2>4, EngineKeeps DEF AnalystInv, ScoresNow
<1>. QED  BY <1>2, <1>6, <1>7

\* The rating rests on the signal it read.
LEMMA RateReadsGradeKeeps ==
    ASSUME CollectInv, NEW w \in Analyst, RateReadsGrade(w)
    PROVE  CollectInv'
<1> PICK e, b : e = call[w].evidence /\ b = signals[LatestSignal(e)].grade
  OBVIOUS
<1> DEFINE c == [call[w] EXCEPT !.basis = b]
<1>1. /\ pc[w] = "source" /\ pc' = [pc EXCEPT ![w] = "rate"]
      /\ call' = [call EXCEPT ![w] = c] /\ Confirmed(e)
      /\ UNCHANGED <<ledger, signalled, unattested, cells, rated, hypotheses, score, now,
                     steps>>
  BY DEF RateReadsGrade, Goto, clock, matrix
<1>2. call[w] \in Rating /\ score[w] = NoScore /\ RateInv(w)
  BY <1>1, Rates
<1>3. e \in Evidence
  BY <1>2, RatingFields
<1>4. SignalOf(e, b) /\ b \in Nat
  <2>1. LatestSignal(e) \in DOMAIN signals /\ signals[LatestSignal(e)].evidence = e
    BY <1>1, <1>3, LatestIsLast DEF Confirmed, CollectInv
  <2>. QED  BY <2>1, Typed DEF SignalOf, CollectInv, GradeSignal
<1>5. /\ c \in Rating /\ c.evidence = e /\ c.basis = b /\ c.source = call[w].source
      /\ c.hypothesis = call[w].hypothesis
  BY <1>2, <1>4, RatingExcept DEF Rating
<1>. HIDE DEF c
<1>6. /\ TypeOK' /\ EngineStep(w)
      /\ pc'[w] = "rate" /\ call'[w] = c /\ score'[w] = score[w]
  <2>1. /\ score' = [score EXCEPT ![w] = score[w]] /\ AreRatings(cells') /\ now' \in Nat
        /\ rated' \in 0 .. MaxCells /\ now <= now' /\ "rate" \in Label
    BY <1>1, Unmoved DEF Label
  <2>. QED  BY <1>1, <1>5, <2>1, Unmoved, EngineTyped
<1>7. SignalOf(e, b)'
  BY <1>1, <1>4 DEF SignalOf, signalled
<1>8. RateInv(w)'
  BY <1>1, <1>2, <1>5, <1>6, <1>7 DEF RateInv, Based
<1>9. AnalystInv(w)'
  BY <1>2, <1>5, <1>6, <1>8, RatingFields DEF AnalystInv, RatesNow
<1>. QED  BY <1>1, <1>6, <1>9, EngineKeeps

\* Every grade and event so far was there when a rating takes its time stamp.
LEMMA RateStampKeeps ==
    ASSUME CollectInv, NEW w \in Analyst, RateStamp(w)
    PROVE  CollectInv'
<1> PICK e, m, n : e = call[w].evidence /\ m = now' /\ n = Len(grades[e])
  OBVIOUS
<1>0. PICK c : c = [call[w] EXCEPT !.ts = m, !.seen = n]
  OBVIOUS
<1>1. /\ pc[w] = "rate" /\ pc' = [pc EXCEPT ![w] = "insert"]
      /\ call' = [call EXCEPT ![w] = c] /\ now' = m /\ ReadClock
      /\ UNCHANGED <<ledger, signalled, unattested, cells, rated, hypotheses, score, steps>>
  BY <1>0 DEF RateStamp, Goto, matrix
<1>2. call[w] \in Rating /\ score[w] = NoScore /\ RateInv(w)
  BY <1>1, Rates
<1>3. e \in Evidence /\ now \in Nat /\ call[w].basis \in Nat
  BY <1>2, RatingFields, Unmoved
<1>4. m \in Nat /\ now <= m /\ n \in Nat /\ DOMAIN grades[e] = 1 .. n
  BY <1>1, <1>3, ClockGoesOn, Typed DEF CollectInv
<1>5. /\ c \in Rating /\ c.evidence = e /\ c.basis = call[w].basis
      /\ c.source = call[w].source /\ c.hypothesis = call[w].hypothesis
      /\ c.ts = m /\ c.seen = n
  BY <1>0, <1>2, <1>4, RatingExcept DEF Rating
<1>6. /\ TypeOK' /\ EngineStep(w)
      /\ pc'[w] = "insert" /\ call'[w] = c /\ score'[w] = score[w]
  <2>1. /\ score' = [score EXCEPT ![w] = score[w]] /\ AreRatings(cells') /\ now' \in Nat
        /\ rated' \in 0 .. MaxCells /\ now <= now' /\ "insert" \in Label
    BY <1>1, <1>3, <1>4, Unmoved DEF Label
  <2>. QED  BY <1>1, <1>5, <2>1, Unmoved, EngineTyped
<1>7. UNCHANGED <<grades, stale, signals, steps>>
      /\ \A g \in Grader : pc'[g] = pc[g] /\ call'[g] = call[g]
  BY <1>1, <1>6, Apart DEF EngineStep, ledger, signalled
<1>8. \A i \in DOMAIN stale : stale[i].evidence = e => stale[i].grade <= n
  <2>1. \A i \in DOMAIN stale : stale[i].grade \in DOMAIN grades[stale[i].evidence]
    BY DEF CollectInv, LedgerInv
  <2>. QED  BY <1>4, <2>1
<1>9. ASSUME steps' = 0
      PROVE  Timely(e, c)' /\ Born(e, c)'
  <2>1. \A g \in Grader :
           pc[g] = "signal" /\ call[g].evidence = e => call[g].grade <= n
    <3>1. ASSUME NEW g \in Grader, pc[g] = "signal", call[g].evidence = e
          PROVE  call[g].grade <= n
      <4>1. GraderInv(g)
        BY <3>1, Alone
      <4>2. call[g].grade = Len(grades[call[g].evidence])
        BY <3>1, <4>1 DEF GraderInv, Committed
      <4>. QED  BY <1>4, <3>1, <4>2
    <3>. QED  BY <3>1
  <2>2. \A i \in DOMAIN stale : stale[i].ts \in Nat /\ stale[i].ts <= now
    BY <1>7, <1>9, Typed DEF CollectInv, StampInv, StaleEvent
  <2>3. Timely(e, c)'
    BY <1>1, <1>4, <1>5, <1>7, <1>8, <2>1 DEF Timely
  <2>4. \A i \in DOMAIN stale : stale[i].ts <= m
    BY <1>3, <1>4, <2>2
  <2>5. Born(e, c)'
    BY <1>5, <1>7, <2>4 DEF Born
  <2>. QED  BY <2>3, <2>5
<1>10. Based(e, c)'
  BY <1>1, <1>2, <1>5, <1>7 DEF RateInv, Based, SignalOf
<1>11. RateInv(w)'
  <2>1. (Based(call[w].evidence, call[w]))'
    BY <1>5, <1>6, <1>10 DEF Based
  <2>2. steps' = 0 =>
          (Timely(call[w].evidence, call[w]) /\ Born(call[w].evidence, call[w]))'
    BY <1>5, <1>6, <1>9 DEF Timely, Born
  <2>. QED  BY <1>1, <1>2, <1>5, <1>6, <2>1, <2>2 DEF RateInv, EngineStep
<1>12. AnalystInv(w)'
  BY <1>2, <1>5, <1>6, <1>11, RatingFields DEF AnalystInv, RatesNow
<1>. QED  BY <1>1, <1>6, <1>12, EngineKeeps

\* The rating becomes a cell, with what was claimed of it.
LEMMA RateInsertKeeps ==
    ASSUME CollectInv, NEW w \in Analyst, RateInsert(w)
    PROVE  CollectInv'
<1>0. PICK c, e, pair, cell :
          /\ c = call[w] /\ e = c.evidence /\ pair = <<c.evidence, c.hypothesis>>
          /\ cell = [source |-> c.source, seen |-> c.seen, basis |-> c.basis, ts |-> c.ts]
  OBVIOUS
<1>1. /\ pc[w] = "insert" /\ pc' = [pc EXCEPT ![w] = "idle"]
      /\ call' = [call EXCEPT ![w] = NoCall] /\ score' = [score EXCEPT ![w] = NoScore]
      /\ cells' = [p \in DOMAIN cells \cup {pair} |-> IF p = pair THEN cell ELSE cells[p]]
      /\ UNCHANGED <<ledger, signalled, unattested, hypotheses, rated, now, steps>>
  BY <1>0 DEF RateInsert, Finish, Goto, clock
<1>2. c \in Rating /\ score[w] = NoScore /\ RateInv(w)
  BY <1>0, <1>1, Rates
<1>3. e \in Evidence /\ c.hypothesis \in 1 .. MaxHypotheses
  BY <1>0, <1>2, RatingFields
<1>4. /\ pair \in Pair /\ pair[1] = e /\ pair[2] = c.hypothesis
      /\ cell \in Cell /\ cell.source = c.source /\ cell.basis = c.basis
      /\ cell.ts = c.ts /\ cell.seen = c.seen
  BY <1>0, <1>2, <1>3, RatingFields DEF Pair, Cell
<1>5. /\ DOMAIN cells' = DOMAIN cells \cup {pair} /\ cells'[pair] = cell
      /\ \A p \in DOMAIN cells \ {pair} : cells'[p] = cells[p]
  BY <1>1
<1>6. AreRatings(cells')
  <2>1. DOMAIN cells \subseteq Pair /\ \A p \in DOMAIN cells : cells[p] \in Cell
    BY Unmoved, Typed DEF CollectInv
  <2>. QED  BY <1>1, <1>4, <2>1 DEF AreRatings
<1>7. /\ rated' \in 0 .. MaxCells /\ now' \in Nat /\ now <= now' /\ "idle" \in Label
  BY <1>1, Unmoved DEF Label
<1>8. /\ TypeOK' /\ EngineStep(w)
      /\ pc'[w] = "idle" /\ call'[w] = NoCall /\ score'[w] = NoScore
  BY <1>1, <1>6, <1>7, NoScoreTyped, EngineTyped
<1>9. /\ LedgerInv' /\ StampInv' /\ Grows /\ Stamped
      /\ \A v \in Analyst \ {w} : AnalystInv(v)'
  BY <1>8, EngineStepIsQuiet
<1>10. AnalystInv(w)'
  BY <1>8 DEF AnalystInv
<1>11. \A p \in DOMAIN cells \ {pair} : CellInv(p)'
  BY <1>5, <1>8, <1>9, CellStays
<1>12. CellInv(pair)'
  <2>1. /\ c.hypothesis <= hypotheses /\ Based(e, c)
        /\ steps = 0 => Timely(e, c) /\ Born(e, c)
    BY <1>0, <1>1, <1>2 DEF RateInv
  <2>2. Based(e, c)'
    BY <1>9, <2>1, BasedStays
  <2>3. steps' = 0 => Timely(e, c)' /\ Born(e, c)'
    BY <1>2, <1>3, <1>8, <1>9, <2>1, RatingFields, TimelyStays, BornStays DEF Grows
  <2>4. pair[2] <= hypotheses'
    BY <1>1, <1>4, <2>1
  <2>. QED  BY <1>4, <1>5, <2>2, <2>3, <2>4 DEF CellInv, Based, Timely, Born
<1>. QED  BY <1>5, <1>8, <1>9, <1>10, <1>11, <1>12 DEF CollectInv

\* A score begins: it is bound by what has been acknowledged.
LEMMA ScoreKeeps ==
    ASSUME CollectInv, NEW w \in Analyst, Score(w)
    PROVE  CollectInv'
<1>0. PICK s : s = [NoScore EXCEPT !.cells = cells, !.bound = acked,
                                   !.settled = Settled, !.begun = hypotheses]
  OBVIOUS
<1>1. /\ pc[w] = "idle" /\ DOMAIN cells # {} /\ pc' = [pc EXCEPT ![w] = "hypotheses"]
      /\ score' = [score EXCEPT ![w] = s]
      /\ UNCHANGED <<ledger, signalled, unattested, hypotheses, cells, rated, call, now, steps>>
  BY <1>0 DEF Score, Goto, matrix, clock
<1>2. /\ hypotheses \in Nat /\ acked \in [Evidence -> Nat]
      /\ \A e \in Evidence : Len(grades[e]) \in Nat
  BY Typed DEF CollectInv, TypeOK
<1>3. Settled \in [Evidence -> Nat]
  BY <1>2 DEF Settled
<1>4. s = [cells |-> cells, bound |-> acked, settled |-> Settled, begun |-> hypotheses,
           ranked |-> 0, todo |-> {}, pair |-> << >>]
  BY <1>0 DEF NoScore
<1>5. /\ s.cells = cells /\ s.bound = acked /\ s.begun = hypotheses
      /\ AreRatings(s.cells) /\ s \in Scoring(s.cells)
  BY <1>2, <1>3, <1>4, Unmoved DEF Scoring
<1>6. call[w] = NoCall
  BY <1>1 DEF CollectInv, AnalystInv, ScoresNow, RatesNow
<1>7. /\ TypeOK' /\ EngineStep(w)
      /\ pc'[w] = "hypotheses" /\ call'[w] = NoCall /\ score'[w] = s
  <2>1. /\ call' = [call EXCEPT ![w] = NoCall] /\ AreRatings(cells') /\ now' \in Nat
        /\ rated' \in 0 .. MaxCells /\ now <= now' /\ "hypotheses" \in Label
    BY <1>1, <1>6, Unmoved DEF Label
  <2>. QED  BY <1>1, <1>5, <2>1, EngineTyped
<1>8. ScoreBegun(w)'
  <2>1. \A p \in DOMAIN cells : CellInv(p)
    BY DEF CollectInv
  <2>2. UNCHANGED <<acked, stale>> /\ \A g \in Grader : pc'[g] = pc[g] /\ call'[g] = call[g]
    BY <1>1, <1>7, Apart DEF EngineStep, ledger, signalled
  <2>3. \A e \in Evidence : acked[e] <= acked[e]
    BY <1>2
  <2>. QED  BY <1>1, <1>2, <1>5, <1>7, <2>1, <2>2, <2>3 DEF ScoreBegun, CellInv, Timely
<1>9. AnalystInv(w)'
  BY <1>7, <1>8 DEF AnalystInv, ScoresNow, ScoreInv
<1>. QED  BY <1>1, <1>7, <1>9, EngineKeeps

\* The coverage of what was read leaves no hypothesis that came later.
LEMMA ScoreHypothesesKeeps ==
    ASSUME CollectInv, NEW w \in Analyst, ScoreHypotheses(w)
    PROVE  CollectInv'
<1>0. PICK r, s : r = score[w]
                  /\ s = [r EXCEPT !.ranked = hypotheses, !.todo = DOMAIN r.cells]
  OBVIOUS
<1>1. /\ pc[w] = "hypotheses" /\ pc' = [pc EXCEPT ![w] = "verify"]
      /\ score' = [score EXCEPT ![w] = s] /\ Covered(r.cells, hypotheses)
      /\ UNCHANGED <<ledger, signalled, unattested, hypotheses, cells, rated, call, now, steps>>
  BY <1>0 DEF ScoreHypotheses, Goto, matrix, clock
<1>2. call[w] = NoCall /\ ScoreInv(w)
  BY <1>1, Scores
<1>3. /\ r \in Scoring(r.cells) /\ AreRatings(r.cells) /\ hypotheses \in Nat
      /\ DOMAIN r.cells \subseteq Pair
  BY <1>0, Unmoved, HypothesesAreCounted DEF CollectInv, AreRatings
<1>4. /\ s.cells = r.cells /\ s.bound = r.bound /\ s.begun = r.begun /\ s.ranked = hypotheses
      /\ s.todo = DOMAIN r.cells /\ s \in Scoring(s.cells) /\ r.begun \in Nat
  BY <1>0, <1>3 DEF Scoring
<1>5. r.begun = hypotheses
  <2>1. PICK p \in DOMAIN r.cells : TRUE
    BY <1>0, <1>2 DEF ScoreInv, ScoreBegun
  <2>2. hypotheses \in 1 .. hypotheses
    BY <1>3 DEF CollectInv, TypeOK
  <2>3. <<p[1], hypotheses>> \in DOMAIN r.cells
    BY <1>1, <2>1, <2>2 DEF Covered
  <2>4. \A q \in DOMAIN r.cells : q[2] <= r.begun
    BY <1>0, <1>2 DEF ScoreInv, ScoreBegun
  <2>5. hypotheses <= r.begun
    BY <2>3, <2>4
  <2>6. r.begun <= hypotheses
    BY <1>0, <1>2 DEF ScoreInv, ScoreBegun
  <2>. QED  BY <1>3, <1>4, <2>5, <2>6
<1>6. /\ TypeOK' /\ EngineStep(w)
      /\ pc'[w] = "verify" /\ call'[w] = NoCall /\ score'[w] = s
  <2>1. /\ call' = [call EXCEPT ![w] = NoCall] /\ AreRatings(cells') /\ now' \in Nat
        /\ rated' \in 0 .. MaxCells /\ now <= now' /\ "verify" \in Label
        /\ AreRatings(s.cells) /\ s \in Scoring(s.cells)
    BY <1>1, <1>2, <1>3, <1>4, Unmoved DEF Label
  <2>. QED  BY <1>1, <2>1, EngineTyped
<1>7. ScoreBegun(w)'
  BY <1>0, <1>2, <1>4, <1>6, EngineStepIsQuiet, ScoreBegunStays DEF ScoreInv
<1>8. AnalystInv(w)'
  BY <1>4, <1>5, <1>6, <1>7 DEF AnalystInv, ScoresNow, ScoreInv
<1>. QED  BY <1>1, <1>6, <1>8, EngineKeeps

\* The last signal of an item is about a grade as late as the last answered one.
LEMMA ConfirmedIsBound ==
    ASSUME CollectInv, NEW w \in Analyst, NEW e \in Evidence, ScoreBegun(w), Confirmed(e)
    PROVE  Bound(w, e)
<1> DEFINE i == LatestSignal(e)
           k == signals[i].grade
<1>1. /\ i \in DOMAIN signals /\ signals[i].evidence = e
      /\ \A j \in DOMAIN signals : signals[j].evidence = e => j <= i
  BY LatestIsLast DEF Confirmed, CollectInv
<1>2. signals[i].source = "analyst_confirmed"
  BY DEF Confirmed
<1>. HIDE DEF i
<1>3. k \in DOMAIN grades[e] /\ grades[e][k] = "analyst_confirmed"
  BY <1>1, <1>2 DEF CollectInv, LedgerInv, SignalsFollowGrades
<1>4. /\ score[w].bound[e] \in Nat /\ acked[e] \in Nat /\ score[w].bound[e] <= acked[e]
      /\ k \in Nat /\ k > 0
  <2>1. DOMAIN grades[e] = 1 .. Len(grades[e]) /\ Len(grades[e]) \in Nat /\ acked[e] \in Nat
    BY Typed DEF CollectInv
  <2>. QED  BY <1>3, <2>1 DEF ScoreBegun
<1>5. acked[e] <= k
  <2>1. CASE acked[e] = 0
    BY <1>4, <2>1
  <2>2. CASE acked[e] > 0
    <3>1. PICK j \in DOMAIN signals : signals[j].evidence = e /\ signals[j].grade = acked[e]
      BY <2>2 DEF CollectInv, LedgerInv, SignalOf
    <3>2. j <= i /\ j \in Nat /\ i \in Nat
      BY <1>1, <3>1, Typed DEF CollectInv
    <3>3. CASE j = i
      BY <1>4, <3>1, <3>3
    <3>4. CASE j < i
      BY <1>1, <3>1, <3>4 DEF CollectInv, LedgerInv, SignalsFollowGrades
    <3>. QED  BY <3>2, <3>3, <3>4
  <2>. QED  BY <1>4, <2>1, <2>2
<1>. QED  BY <1>3, <1>4, <1>5 DEF Bound

LEMMA ScoreReadsGradeKeeps ==
    ASSUME CollectInv, NEW w \in Analyst, ScoreReadsGrade(w)
    PROVE  CollectInv'
<1>0. PICK r, p, s : /\ r = score[w] /\ p \in r.todo /\ Confirmed(p[1])
                     /\ s = [r EXCEPT !.pair = p] /\ score' = [score EXCEPT ![w] = s]
  BY DEF ScoreReadsGrade
<1>1. /\ pc[w] = "gate" /\ pc' = [pc EXCEPT ![w] = "stale"]
      /\ UNCHANGED <<ledger, signalled, unattested, hypotheses, cells, rated, call, now, steps>>
  BY DEF ScoreReadsGrade, Goto, matrix, clock
<1>2. call[w] = NoCall /\ ScoreInv(w)
  BY <1>1, Scores
<1>3. /\ r \in Scoring(r.cells) /\ AreRatings(r.cells) /\ DOMAIN r.cells \subseteq Pair
      /\ r.todo \subseteq DOMAIN r.cells /\ ScoreBegun(w)
  BY <1>0, <1>1, <1>2, Unmoved DEF AreRatings, ScoreInv
<1>4. p \in Pair /\ p[1] \in Evidence
  BY <1>0, <1>3 DEF Pair
<1>5. /\ s.cells = r.cells /\ s.bound = r.bound /\ s.begun = r.begun /\ s.ranked = r.ranked
      /\ s.todo = r.todo /\ s.pair = p /\ s \in Scoring(s.cells)
  BY <1>0, <1>3, <1>4 DEF Scoring
<1>6. /\ TypeOK' /\ EngineStep(w)
      /\ pc'[w] = "stale" /\ call'[w] = NoCall /\ score'[w] = s
  <2>1. /\ call' = [call EXCEPT ![w] = NoCall] /\ AreRatings(cells') /\ now' \in Nat
        /\ rated' \in 0 .. MaxCells /\ now <= now' /\ "stale" \in Label
        /\ AreRatings(s.cells) /\ s \in Scoring(s.cells)
    BY <1>1, <1>2, <1>3, <1>5, Unmoved DEF Label
  <2>. QED  BY <1>0, <1>1, <2>1, EngineTyped
<1>7. ScoreBegun(w)'
  BY <1>0, <1>3, <1>5, <1>6, EngineStepIsQuiet, ScoreBegunStays
<1>8. \A e \in Evidence : Bound(w, e) => Bound(w, e)'
  BY <1>0, <1>5, <1>6, EngineStepIsQuiet, BoundStays
<1>9. Bound(w, p[1])
  BY <1>0, <1>3, <1>4, ConfirmedIsBound
<1>10. ScoreInv(w)'
  <2>1. \A q \in DOMAIN s.cells \ s.todo :
           /\ Bound(w, q[1])'
           /\ steps' = 0 => RatedSince(w, q)'
    <3>1. ASSUME NEW q \in DOMAIN s.cells \ s.todo
          PROVE  Bound(w, q[1]) /\ (steps = 0 => RatedSince(w, q)) /\ q[1] \in Evidence
      BY <1>0, <1>1, <1>2, <1>3, <1>5, <3>1 DEF ScoreInv, Pair
    <3>2. Grows /\ steps' = steps
      BY <1>1, <1>6, EngineStepIsQuiet
    <3>. QED  BY <1>0, <1>5, <1>6, <1>8, <3>1, <3>2, RatedSinceStays
  <2>2. r.ranked = r.begun
    BY <1>0, <1>1, <1>2 DEF ScoreInv
  <2>. QED  BY <1>0, <1>3, <1>4, <1>5, <1>6, <1>7, <1>8, <1>9, <2>1, <2>2 DEF ScoreInv
<1>11. AnalystInv(w)'
  BY <1>6, <1>10 DEF AnalystInv, ScoresNow
<1>. QED  BY <1>1, <1>6, <1>11, EngineKeeps

\* A cell that is not stale was rated after every grade that was answered, or at the
\* instant of its mark.
LEMMA FreshIsSeen ==
    ASSUME CollectInv, steps = 0, NEW w \in Analyst, NEW p \in DOMAIN score[w].cells,
           ScoreBegun(w), ~CellStale(p[1], score[w].cells[p])
    PROVE  RatedSince(w, p)
<1> DEFINE e == p[1]
           c == score[w].cells[p]
<1>1. e \in Evidence /\ c \in Cell
  BY Typed DEF CollectInv, Pair
<1>2. Timely(e, c)
  BY DEF ScoreBegun
<1>3. /\ score[w].bound[e] \in Nat /\ acked[e] \in Nat /\ score[w].bound[e] <= acked[e]
      /\ c.seen \in Nat /\ c.ts \in Nat
  BY <1>1, Typed DEF ScoreBegun, Cell, CollectInv
<1>4. CASE acked[e] = 0
  BY <1>3, <1>4 DEF RatedSince
<1>5. CASE acked[e] > 0
  <2>1. PICK i \in DOMAIN stale : stale[i].evidence = e /\ stale[i].grade = acked[e]
    BY <1>1, <1>5 DEF CollectInv, LedgerInv, StaleOf
  <2>2. stale[i].ts \in Nat /\ ~(stale[i].ts > c.ts)
    BY <2>1, Typed DEF CollectInv, StaleEvent, CellStale, MarkedAfter
  <2>3. stale[i].ts <= c.ts
    BY <1>3, <2>2
  <2>4. CASE stale[i].ts < c.ts
    <3>1. acked[e] <= c.seen
      BY <1>2, <2>1, <2>4 DEF Timely
    <3>. QED  BY <1>3, <3>1 DEF RatedSince
  <2>5. CASE stale[i].ts = c.ts
    <3>1. acked[e] <= c.seen \/ Tied(e, c)
      BY <1>3, <2>1, <2>5 DEF Tied
    <3>. QED  BY <1>3, <3>1 DEF RatedSince
  <2>. QED  BY <1>3, <2>2, <2>3, <2>4, <2>5
<1>. QED  BY <1>3, <1>4, <1>5

LEMMA ScoreReadsStaleKeeps ==
    ASSUME CollectInv, NEW w \in Analyst, ScoreReadsStale(w)
    PROVE  CollectInv'
<1>0. PICK r, p, s, l :
          /\ r = score[w] /\ p = r.pair /\ s = [r EXCEPT !.todo = r.todo \ {p}]
          /\ l = IF r.todo = {p} THEN "ranked" ELSE "gate"
  OBVIOUS
<1>1. /\ pc[w] = "stale" /\ pc' = [pc EXCEPT ![w] = l] /\ score' = [score EXCEPT ![w] = s]
      /\ ~CellStale(p[1], r.cells[p])
      /\ UNCHANGED <<ledger, signalled, unattested, hypotheses, cells, rated, call, now, steps>>
  BY <1>0 DEF ScoreReadsStale, Scoreable, Goto, matrix, clock
<1>2. call[w] = NoCall /\ ScoreInv(w)
  BY <1>1, Scores
<1>3. /\ r \in Scoring(r.cells) /\ AreRatings(r.cells) /\ DOMAIN r.cells \subseteq Pair
      /\ r.todo \subseteq DOMAIN r.cells /\ ScoreBegun(w)
      /\ p \in r.todo /\ Bound(w, p[1])
  BY <1>0, <1>1, <1>2, Unmoved DEF AreRatings, ScoreInv
<1>4. /\ s.cells = r.cells /\ s.bound = r.bound /\ s.begun = r.begun /\ s.ranked = r.ranked
      /\ s.todo = r.todo \ {p} /\ s \in Scoring(s.cells)
  BY <1>0, <1>3 DEF Scoring
<1>5. l \in Label /\ l \in {"ranked", "gate"} /\ (l = "ranked" => s.todo = {})
  BY <1>0, <1>4 DEF Label
<1>6. /\ TypeOK' /\ EngineStep(w)
      /\ pc'[w] = l /\ call'[w] = NoCall /\ score'[w] = s
  <2>1. /\ call' = [call EXCEPT ![w] = NoCall] /\ AreRatings(cells') /\ now' \in Nat
        /\ rated' \in 0 .. MaxCells /\ now <= now'
        /\ AreRatings(s.cells) /\ s \in Scoring(s.cells)
    BY <1>1, <1>2, <1>3, <1>4, Unmoved
  <2>. QED  BY <1>1, <1>5, <2>1, EngineTyped
<1>7. ScoreBegun(w)'
  BY <1>0, <1>3, <1>4, <1>6, EngineStepIsQuiet, ScoreBegunStays
<1>8. \A e \in Evidence : Bound(w, e) => Bound(w, e)'
  BY <1>0, <1>4, <1>6, EngineStepIsQuiet, BoundStays
<1>9. /\ Grows /\ steps' = steps
      /\ \A q : RatedSince(w, q) => RatedSince(w, q)'
  <2>1. Grows /\ steps' = steps
    BY <1>1, <1>6, EngineStepIsQuiet
  <2>. QED  BY <1>0, <1>4, <1>6, <2>1, RatedSinceStays
<1>10. \A q \in DOMAIN s.cells \ s.todo :
          /\ Bound(w, q[1])'
          /\ steps' = 0 => RatedSince(w, q)'
  <2>1. ASSUME NEW q \in DOMAIN s.cells \ s.todo
        PROVE  /\ Bound(w, q[1])'
               /\ steps' = 0 => RatedSince(w, q)'
    <3>1. q[1] \in Evidence /\ p[1] \in Evidence
      BY <1>3, <1>4, <2>1 DEF Pair
    <3>2. CASE q = p
      <4>1. steps = 0 => RatedSince(w, p)
        BY <1>0, <1>1, <1>3, FreshIsSeen
      <4>. QED  BY <1>3, <1>8, <1>9, <3>1, <3>2, <4>1
    <3>3. CASE q # p
      <4>1. q \in DOMAIN r.cells \ r.todo
        BY <1>4, <2>1, <3>3
      <4>2. Bound(w, q[1]) /\ (steps = 0 => RatedSince(w, q))
        BY <1>0, <1>1, <1>2, <4>1 DEF ScoreInv
      <4>. QED  BY <1>8, <1>9, <3>1, <4>2
    <3>. QED  BY <3>2, <3>3
  <2>. QED  BY <2>1
<1>11. ScoreInv(w)'
  <2>1. r.ranked = r.begun
    BY <1>0, <1>1, <1>2 DEF ScoreInv
  <2>2. s.todo \subseteq DOMAIN s.cells
    BY <1>3, <1>4
  <2>. QED  BY <1>4, <1>5, <1>6, <1>7, <1>10, <2>1, <2>2 DEF ScoreInv
<1>12. AnalystInv(w)'
  BY <1>5, <1>6, <1>11 DEF AnalystInv, ScoresNow
<1>. QED  BY <1>1, <1>6, <1>12, EngineKeeps

-----------------------------------------------------------------------------
(* The invariant.                                                           *)

LEMMA StutterKeeps ==
    ASSUME CollectInv, UNCHANGED vars
    PROVE  CollectInv'
<1>1. /\ UNCHANGED <<grades, acked, serving, lock, crashes, stale, signals, unattested, cells,
                     hypotheses, rated, pc, call, score, now, steps>>
  BY DEF vars, ledger, signalled, matrix, clock
<1>2. TypeOK /\ hypotheses \in Nat /\ now \in Nat
  BY HypothesesAreCounted DEF CollectInv, TypeOK
<1>3. TypeOK'
  BY <1>1, <1>2 DEF TypeOK, AreRatings, Scoring
<1>4. hypotheses <= hypotheses' /\ (steps' = 0 => steps = 0 /\ now <= now')
  BY <1>1, <1>2
<1>5. LedgerInv' /\ StampInv' /\ Grows /\ Stamped
  BY <1>1, <1>3, <1>4, QuietLedger
<1>. QED  BY <1>1, <1>3, <1>5, LedgerKeeps

LEMMA LedgerStepKeeps ==
    ASSUME CollectInv, LedgerStep
    PROVE  CollectInv'
<1>1. PICK g \in Grader :
          \/ \E e \in Evidence, source \in Sources, first \in BOOLEAN :
                Grade(g, e, source, first)
          \/ Check(g) \/ CheckFails(g) \/ InsertGrade(g) \/ InsertGradeFails(g)
          \/ AttestGrade(g) \/ AttestGradeFails(g) \/ Stamp(g) \/ InsertSignal(g)
          \/ AttestFirst(g) \/ AttestLast(g) \/ SignalFails(g)
  BY DEF LedgerStep
<1>2. CASE \E e \in Evidence, source \in Sources, first \in BOOLEAN :
              Grade(g, e, source, first)
  BY <1>2, GradeKeeps
<1>3. CASE Check(g)
  BY <1>3, CheckKeeps
<1>4. CASE CheckFails(g)
  BY <1>4, LeaveKeeps DEF CheckFails
<1>5. CASE InsertGrade(g)
  BY <1>5, InsertGradeKeeps
<1>6. CASE InsertGradeFails(g)
  BY <1>6, LeaveKeeps DEF InsertGradeFails
<1>7. CASE AttestGrade(g)
  BY <1>7, AttestGradeKeeps
<1>8. CASE AttestGradeFails(g)
  BY <1>8, LeaveKeeps DEF AttestGradeFails
<1>9. CASE Stamp(g)
  BY <1>9, StampKeeps
<1>10. CASE InsertSignal(g)
  BY <1>10, InsertSignalKeeps
<1>11. CASE AttestFirst(g)
  BY <1>11, AttestFirstKeeps
<1>12. CASE AttestLast(g)
  BY <1>12, AttestLastKeeps
<1>13. CASE SignalFails(g)
  BY <1>13, SignalFailsKeeps
<1>. QED  BY <1>1, <1>2, <1>3, <1>4, <1>5, <1>6, <1>7, <1>8, <1>9, <1>10, <1>11, <1>12, <1>13

LEMMA RateStepKeeps ==
    ASSUME CollectInv, RateStep
    PROVE  CollectInv'
<1>1. PICK w \in Analyst :
          \/ \E e \in Evidence, h \in 1 .. MaxHypotheses, source \in Source :
                Rate(w, e, h, source)
          \/ VerifySignals(w) \/ VerifySignalsFails(w) \/ RateReadsGrade(w)
          \/ RateUnconfirmed(w) \/ RateStamp(w) \/ RateInsert(w) \/ RateInsertFails(w)
  BY DEF RateStep
<1>2. CASE \E e \in Evidence, h \in 1 .. MaxHypotheses, source \in Source :
              Rate(w, e, h, source)
  BY <1>2, RateKeeps
<1>3. CASE VerifySignals(w)
  BY <1>3, VerifySignalsKeeps
<1>4. CASE VerifySignalsFails(w) \/ RateUnconfirmed(w) \/ RateInsertFails(w)
  BY <1>4, FinishKeeps DEF VerifySignalsFails, RateUnconfirmed, RateInsertFails
<1>5. CASE RateReadsGrade(w)
  BY <1>5, RateReadsGradeKeeps
<1>6. CASE RateStamp(w)
  BY <1>6, RateStampKeeps
<1>7. CASE RateInsert(w)
  BY <1>7, RateInsertKeeps
<1>. QED  BY <1>1, <1>2, <1>3, <1>4, <1>5, <1>6, <1>7

LEMMA ScoreStepKeeps ==
    ASSUME CollectInv, ScoreStep
    PROVE  CollectInv'
<1>1. PICK w \in Analyst :
          \/ ScoreNothing(w) \/ Score(w) \/ ScoreHypotheses(w) \/ ScoreUncovered(w)
          \/ ScoreReadsGrade(w) \/ ScoreUnconfirmed(w) \/ ScoreReadsStale(w)
          \/ ScoreStale(w) \/ Ranked(w)
  BY DEF ScoreStep
<1>2. CASE ScoreNothing(w)
  BY <1>2, StutterKeeps DEF ScoreNothing
<1>3. CASE Score(w)
  BY <1>3, ScoreKeeps
<1>4. CASE ScoreHypotheses(w)
  BY <1>4, ScoreHypothesesKeeps
<1>5. CASE ScoreUncovered(w) \/ ScoreUnconfirmed(w) \/ ScoreStale(w) \/ Ranked(w)
  BY <1>5, FinishKeeps DEF ScoreUncovered, ScoreUnconfirmed, ScoreStale, Ranked
<1>6. CASE ScoreReadsGrade(w)
  BY <1>6, ScoreReadsGradeKeeps
<1>7. CASE ScoreReadsStale(w)
  BY <1>7, ScoreReadsStaleKeeps
<1>. QED  BY <1>1, <1>2, <1>3, <1>4, <1>5, <1>6, <1>7

LEMMA CollectInvInit ==
    ASSUME Init
    PROVE  CollectInv
<1>1. TypeOK
  <2>1. /\ grades \in [Evidence -> Seq(Source)] /\ acked \in [Evidence -> Nat]
        /\ stale \in Seq(StaleEvent) /\ signals \in Seq(GradeSignal)
        /\ unattested \in [{"grades", "signals"} -> Nat]
        /\ serving \in BOOLEAN /\ lock \in Grader \cup {Nobody}
        /\ hypotheses \in 1 .. MaxHypotheses /\ rated \in 0 .. MaxCells
    BY GateAssumption DEF Init
  <2>2. /\ pc \in [Threads -> Label]
        /\ call \in [Threads -> {NoCall} \cup Grading \cup Rating]
        /\ now \in Nat /\ crashes \in 0 .. MaxCrashes /\ steps \in 0 .. MaxSteps
    BY GateAssumption DEF Init, Label
  <2>3. /\ score = [w \in Analyst |-> score[w]]
        /\ \A w \in Analyst :
              AreRatings(score[w].cells) /\ score[w] \in Scoring(score[w].cells)
    BY NoScoreTyped DEF Init
  <2>4. AreRatings(cells)
    BY NoScoreTyped DEF Init, NoScore
  <2>. QED  BY <2>1, <2>2, <2>3, <2>4 DEF TypeOK
<1>2. DOMAIN stale = {} /\ DOMAIN signals = {} /\ DOMAIN cells = {}
  BY DEF Init
<1>3. \A t \in Threads : pc[t] = "idle" /\ call[t] = NoCall
  BY DEF Init
<1>4. LedgerInv /\ StampInv
  BY <1>2, <1>3, Apart DEF LedgerInv, StampInv, SignalsFollowGrades, Init
<1>5. \A w \in Analyst : AnalystInv(w)
  BY <1>3, Apart DEF AnalystInv, Init
<1>. QED  BY <1>1, <1>2, <1>4, <1>5 DEF CollectInv

\* The strengthening holds of every state of the gate, for any number of graders, analysts,
\* items and hypotheses, and whatever errors, crashes and clock steps happen.
THEOREM CollectInvHolds == Spec => []CollectInv
<1>1. Init => CollectInv
  BY CollectInvInit
<1>2. CollectInv /\ [Next]_vars => CollectInv'
  BY LedgerStepKeeps, RateStepKeeps, ScoreStepKeeps, CrashKeeps, RestartKeeps, StutterKeeps
     DEF Next
<1>. QED  BY <1>1, <1>2, PTL DEF Spec

-----------------------------------------------------------------------------
(* What follows.                                                            *)

\* The signals of an item are in the order of the grades they are about, and say what those
\* grades say.
THEOREM SignalsAreInOrder == Spec => []SignalsFollowGrades
<1>1. CollectInv => SignalsFollowGrades
  BY DEF CollectInv, LedgerInv
<1>. QED  BY <1>1, CollectInvHolds, PTL

\* A ranking rests on an analyst_confirmed grade as late as any that was answered before the
\* score began, through failed signals, retries, crashes and steps of the clock.
THEOREM AcknowledgedBind == Spec => []AcknowledgedGradesBind
<1>1. CollectInv => AcknowledgedGradesBind
  <2>1. SUFFICES ASSUME CollectInv, NEW w \in Analyst, pc[w] = "ranked",
                        NEW p \in DOMAIN score[w].cells
                 PROVE  \E k \in DOMAIN grades[p[1]] :
                           /\ k >= score[w].bound[p[1]]
                           /\ grades[p[1]][k] = "analyst_confirmed"
    BY DEF AcknowledgedGradesBind
  <2>2. ScoreInv(w)
    BY <2>1, Scores
  <2>3. Bound(w, p[1])
    BY <2>1, <2>2 DEF ScoreInv
  <2>. QED  BY <2>3 DEF Bound
<1>. QED  BY <1>1, CollectInvHolds, PTL

\* A ranking compares the hypotheses of the moment its cells were read.
THEOREM RankedTogether == Spec => []RanksOneMoment
<1>1. CollectInv => RanksOneMoment
  BY Scores DEF RanksOneMoment, ScoreInv
<1>. QED  BY <1>1, CollectInvHolds, PTL

\* As long as the wall clock was not set back, a ranking uses no rating that was stamped
\* before a grade answered before the score began, unless the clock showed one instant for
\* the rating and for a later grade's mark.
THEOREM ReRated == Spec => [](steps = 0 => ReRatedAfterRegrade)
<1>1. CollectInv => (steps = 0 => ReRatedAfterRegrade)
  BY Scores DEF ReRatedAfterRegrade, ScoreInv
<1>. QED  BY <1>1, CollectInvHolds, PTL

\* As long as the wall clock was not set back, the grade a confirmed rating rests on never
\* makes it stale, unless a signal lost its line and the store is refused.
THEOREM BornFresh == Spec => [](steps = 0 => NotBornStale)
<1>1. CollectInv => (steps = 0 => NotBornStale)
  <2>1. SUFFICES ASSUME CollectInv, steps = 0, NEW p \in DOMAIN cells,
                        cells[p].source = "analyst_confirmed", SignalsOk,
                        NEW i \in DOMAIN stale, stale[i].evidence = p[1],
                        stale[i].grade <= cells[p].basis
                 PROVE  ~MarkedAfter(stale[i], cells[p])
    BY DEF NotBornStale
  <2>2. Born(p[1], cells[p])
    BY <2>1 DEF CollectInv, CellInv
  <2>3. ~Refused
    BY <2>1 DEF Refused, SignalsOk
  <2>4. stale[i].ts \in Nat /\ cells[p].ts \in Nat
    BY <2>1, Typed DEF CollectInv, StaleEvent, Cell
  <2>5. stale[i].ts <= cells[p].ts
    BY <2>1, <2>2, <2>3 DEF Born
  <2>. QED  BY <2>4, <2>5 DEF MarkedAfter
<1>. QED  BY <1>1, CollectInvHolds, PTL

-----------------------------------------------------------------------------
(* Nothing is taken back, an answered grade least of all.                   *)

LEMMA RecordsStay ==
    ASSUME CollectInv, UNCHANGED <<grades, acked, stale, signals>>
    PROVE  RecordsGrow
<1>1. \A e \in Evidence : acked[e] \in Nat
  BY DEF CollectInv, TypeOK
<1>. QED  BY <1>1 DEF RecordsGrow, Extends

LEMMA InsertGradeGrows ==
    ASSUME CollectInv, NEW g \in Grader, InsertGrade(g)
    PROVE  RecordsGrow
<1>1. TypeOK /\ call[g] \in Grading
  BY Alone DEF InsertGrade, CollectInv
<1> PICK d, n : d = call[g].evidence /\ n = Len(grades[d])
  OBVIOUS
<1>2. /\ grades' = [grades EXCEPT ![d] = Append(grades[d], call[g].source)]
      /\ UNCHANGED <<acked, stale, signals>>
  BY DEF InsertGrade, signalled
<1>3. /\ d \in Evidence /\ call[g].source \in Source /\ grades[d] \in Seq(Source)
      /\ grades \in [Evidence -> Seq(Source)] /\ \A e \in Evidence : acked[e] \in Nat
  BY <1>1, GradingFields DEF TypeOK
<1>4. /\ DOMAIN Append(grades[d], call[g].source) = 1 .. n + 1
      /\ DOMAIN grades[d] = 1 .. n /\ n \in Nat
      /\ \A k \in 1 .. n : Append(grades[d], call[g].source)[k] = grades[d][k]
  BY <1>3, AppendProperties, LenProperties
<1>5. ASSUME NEW e \in Evidence
      PROVE  Extends(grades[e], grades'[e])
  <2>1. CASE e = d
    BY <1>2, <1>3, <1>4, <2>1 DEF Extends
  <2>2. CASE e # d
    BY <1>2, <1>3, <2>2 DEF Extends
  <2>. QED  BY <2>1, <2>2
<1>. QED  BY <1>2, <1>3, <1>5 DEF RecordsGrow, Extends

LEMMA InsertSignalGrows ==
    ASSUME CollectInv, NEW g \in Grader, InsertSignal(g)
    PROVE  RecordsGrow
<1>1. TypeOK /\ call[g] \in Grading /\ UNCHANGED <<grades, acked>>
  BY Alone DEF InsertSignal, CollectInv, ledger
<1> PICK c, r, s : /\ c = call[g]
                   /\ r = [evidence |-> c.evidence, grade |-> c.grade, ts |-> c.ts]
                   /\ s = [evidence |-> c.evidence, grade |-> c.grade, source |-> c.source]
  OBVIOUS
<1>2. r \in StaleEvent /\ s \in GradeSignal
  BY <1>1, GradingFields DEF StaleEvent, GradeSignal
<1>3. \/ UNCHANGED signals /\ stale' = Append(stale, r)
      \/ UNCHANGED stale /\ signals' = Append(signals, s)
  BY WritesStale
<1>4. /\ DOMAIN Append(stale, r) = 1 .. Len(stale) + 1
      /\ DOMAIN stale = 1 .. Len(stale) /\ Len(stale) \in Nat
      /\ \A i \in 1 .. Len(stale) : Append(stale, r)[i] = stale[i]
  BY <1>1, <1>2, AppendProperties, LenProperties DEF TypeOK
<1>5. /\ DOMAIN Append(signals, s) = 1 .. Len(signals) + 1
      /\ DOMAIN signals = 1 .. Len(signals) /\ Len(signals) \in Nat
      /\ \A i \in 1 .. Len(signals) : Append(signals, s)[i] = signals[i]
  BY <1>1, <1>2, AppendProperties, LenProperties DEF TypeOK
<1>6. Extends(stale, stale') /\ Extends(signals, signals')
  BY <1>3, <1>4, <1>5 DEF Extends
<1>7. \A e \in Evidence : acked[e] \in Nat
  BY <1>1 DEF TypeOK
<1>. QED  BY <1>1, <1>6, <1>7 DEF RecordsGrow, Extends

\* Every grade there is a signal of is one of the item's, the one answered for too.
LEMMA AttestLastGrows ==
    ASSUME CollectInv, NEW g \in Grader, AttestLast(g)
    PROVE  RecordsGrow
<1> PICK d, k : d = call[g].evidence /\ k = call[g].grade
  OBVIOUS
<1>1. /\ pc[g] = "signal_line" /\ call[g].signal = 2
      /\ acked' = [acked EXCEPT ![d] = k] /\ UNCHANGED <<grades, stale, signals>>
  BY DEF AttestLast, signalled
<1>2. TypeOK /\ GraderInv(g) /\ call[g] \in Grading
  BY <1>1, Alone DEF CollectInv
<1>3. d \in Evidence /\ acked \in [Evidence -> Nat]
  BY <1>2, GradingFields DEF TypeOK
<1>4. k = Len(grades[d]) /\ StaleOf(d, k) /\ SignalOf(d, k)
  BY <1>1, <1>2 DEF GraderInv, Committed
<1>5. acked[d] <= k
  <2>1. acked[d] > 0 => acked[d] \in DOMAIN grades[d]
    BY <1>3 DEF CollectInv, LedgerInv, SignalsFollowGrades, SignalOf
  <2>2. DOMAIN grades[d] = 1 .. k /\ k \in Nat
    BY <1>2, <1>3, <1>4, Typed
  <2>. QED  BY <1>3, <2>1, <2>2
<1>6. ASSUME NEW e \in Evidence
      PROVE  /\ acked[e] <= acked'[e]
             /\ acked'[e] # acked[e] =>
                   /\ acked'[e] = Len(grades[e])
                   /\ StaleOf(e, acked'[e]) /\ SignalOf(e, acked'[e])
  <2>1. CASE e = d
    BY <1>1, <1>3, <1>4, <1>5, <2>1
  <2>2. CASE e # d
    BY <1>1, <1>3, <2>2
  <2>. QED  BY <2>1, <2>2
<1>. QED  BY <1>1, <1>6 DEF RecordsGrow, Extends

LEMMA LedgerStepGrows ==
    ASSUME CollectInv, LedgerStep
    PROVE  RecordsGrow
<1>1. PICK g \in Grader :
          \/ \E e \in Evidence, source \in Sources, first \in BOOLEAN :
                Grade(g, e, source, first)
          \/ Check(g) \/ CheckFails(g) \/ InsertGrade(g) \/ InsertGradeFails(g)
          \/ AttestGrade(g) \/ AttestGradeFails(g) \/ Stamp(g) \/ InsertSignal(g)
          \/ AttestFirst(g) \/ AttestLast(g) \/ SignalFails(g)
  BY DEF LedgerStep
<1>2. CASE \/ \E e \in Evidence, source \in Sources, first \in BOOLEAN :
                 Grade(g, e, source, first)
           \/ Check(g) \/ CheckFails(g) \/ InsertGradeFails(g) \/ AttestGrade(g)
           \/ AttestGradeFails(g) \/ Stamp(g) \/ AttestFirst(g)
  BY <1>2, RecordsStay
     DEF Grade, Check, CheckFails, InsertGradeFails, AttestGrade, AttestGradeFails, Stamp,
         AttestFirst, ledger, signalled
<1>3. CASE SignalFails(g)
  BY <1>3, RecordsStay DEF SignalFails, TryAgain, GiveUp, signalled
<1>. QED  BY <1>1, <1>2, <1>3, InsertGradeGrows, InsertSignalGrows, AttestLastGrows

\* The engine only reads what the ledger wrote.
LEMMA OthersGrow ==
    ASSUME CollectInv,
           RateStep \/ ScoreStep \/ AddHypothesis \/ Crash \/ Restart \/ SetBack
           \/ UNCHANGED vars
    PROVE  RecordsGrow
<1>1. CASE RateStep
  <2>1. UNCHANGED <<ledger, signalled>>
    BY <1>1 DEF RateStep, Rate, VerifySignals, VerifySignalsFails, RateReadsGrade,
                RateUnconfirmed, RateStamp, RateInsert, RateInsertFails, Raise
  <2>. QED  BY <2>1, RecordsStay DEF ledger, signalled
<1>2. CASE ScoreStep
  <2>1. UNCHANGED <<ledger, signalled>>
    BY <1>2 DEF ScoreStep, ScoreNothing, Score, ScoreHypotheses, ScoreUncovered,
                ScoreReadsGrade, ScoreUnconfirmed, ScoreReadsStale, ScoreStale, Ranked,
                Raise, vars
  <2>. QED  BY <2>1, RecordsStay DEF ledger, signalled
<1>3. CASE AddHypothesis \/ Crash \/ Restart \/ SetBack \/ UNCHANGED vars
  BY <1>3, RecordsStay
     DEF AddHypothesis, Crash, Restart, SetBack, vars, ledger, signalled
<1>. QED  BY <1>1, <1>2, <1>3

\* No step of either server takes back a grade, an event or a signal, and an answer is only
\* ever given for an item's last grade, whose two signals are there: what a caller was told
\* once is never replaced by an older answer, through failures, retries and crashes.
THEOREM RecordsOnlyGrow == Spec => [][RecordsGrow]_vars
<1>1. CollectInv /\ [Next]_vars => RecordsGrow
  BY LedgerStepGrows, OthersGrow DEF Next
<1>. QED  BY <1>1, CollectInvHolds, PTL DEF Spec

-----------------------------------------------------------------------------
(* LatestGradeBinds fails only after an error or a crash: interleavings do  *)
(* not break it.                                                            *)

\* A step that writes no grade, answers for none and lets the graders go on.
LEMMA AnsweredStays ==
    ASSUME Answered, UNCHANGED <<grades, acked>>,
           \A g \in Grader :
               pc[g] \in Committed =>
                   pc'[g] \in Committed /\ call'[g].evidence = call[g].evidence
    PROVE  Answered'
BY DEF Answered, Committed

\* Steps of a grader that keep its call, and no answer.
LEMMA GraderAnswers ==
    ASSUME CollectInv, Answered, NEW g \in Grader, Faults = {},
           \/ \E e \in Evidence, source \in Sources, first \in BOOLEAN :
                 Grade(g, e, source, first)
           \/ Check(g) \/ CheckFails(g) \/ InsertGradeFails(g) \/ AttestGrade(g)
           \/ AttestGradeFails(g) \/ Stamp(g) \/ InsertSignal(g) \/ AttestFirst(g)
           \/ SignalFails(g)
    PROVE  Answered' /\ UNCHANGED <<crashes, score>>
<1>1. /\ pc \in [Threads -> Label] /\ call \in [Threads -> {NoCall} \cup Grading \cup Rating]
      /\ \A h \in Grader : h \in Threads
  BY Apart DEF CollectInv, TypeOK
<1>2. pc[g] # "idle" => call[g] \in Grading
  BY Alone
<1>3. CASE \E e \in Evidence, source \in Sources, first \in BOOLEAN :
              Grade(g, e, source, first)
  <2>1. pc[g] = "idle" /\ UNCHANGED <<grades, acked, crashes, score>>
    BY <1>3 DEF Grade
  <2>2. \A h \in Grader \ {g} : pc'[h] = pc[h] /\ call'[h] = call[h]
    BY <1>1, <1>3 DEF Grade, Goto
  <2>. QED  BY <2>1, <2>2, AnsweredStays DEF Committed
<1>4. CASE Check(g)
  <2>1. pc[g] = "check" /\ UNCHANGED <<grades, acked, crashes, score, call>>
    BY <1>4 DEF Check, ledger
  <2>2. \A h \in Grader \ {g} : pc'[h] = pc[h]
    BY <1>1, <1>4 DEF Check, Goto
  <2>. QED  BY <2>1, <2>2, AnsweredStays DEF Committed
<1>5. CASE CheckFails(g)
  <2>1. pc[g] = "check" /\ UNCHANGED <<grades, acked, crashes, score>>
    BY <1>5 DEF CheckFails
  <2>2. \A h \in Grader \ {g} : pc'[h] = pc[h] /\ call'[h] = call[h]
    BY <1>1, <1>5 DEF CheckFails, Leave, Goto
  <2>. QED  BY <2>1, <2>2, AnsweredStays DEF Committed
<1>6. CASE InsertGradeFails(g) \/ AttestGradeFails(g) \/ SignalFails(g)
  BY <1>6 DEF InsertGradeFails, AttestGradeFails, SignalFails
<1>7. CASE AttestGrade(g)
  <2>1. UNCHANGED <<grades, acked, crashes, score, call>>
    BY <1>7 DEF AttestGrade, ledger
  <2>2. pc'[g] = "stamp" /\ \A h \in Grader \ {g} : pc'[h] = pc[h]
    BY <1>1, <1>7 DEF AttestGrade, Goto
  <2>. QED  BY <2>1, <2>2, AnsweredStays DEF Committed
<1>8. CASE Stamp(g)
  <2>1. pc[g] = "stamp" /\ UNCHANGED <<grades, acked, crashes, score>>
    BY <1>8 DEF Stamp, ledger
  <2>2. /\ pc'[g] = "signal" /\ call'[g].evidence = call[g].evidence
        /\ \A h \in Grader \ {g} : pc'[h] = pc[h] /\ call'[h] = call[h]
    BY <1>1, <1>2, <1>8, <2>1 DEF Stamp, Goto, Grading
  <2>. QED  BY <2>1, <2>2, AnsweredStays DEF Committed
<1>9. CASE InsertSignal(g)
  <2>1. UNCHANGED <<grades, acked, crashes, score, call>>
    BY <1>9 DEF InsertSignal, ledger
  <2>2. pc'[g] = "signal_line" /\ \A h \in Grader \ {g} : pc'[h] = pc[h]
    BY <1>1, <1>9 DEF InsertSignal, Goto
  <2>. QED  BY <2>1, <2>2, AnsweredStays DEF Committed
<1>10. CASE AttestFirst(g)
  <2>1. pc[g] = "signal_line" /\ UNCHANGED <<grades, acked, crashes, score>>
    BY <1>10 DEF AttestFirst, ledger
  <2>2. /\ pc'[g] = "stamp" /\ call'[g].evidence = call[g].evidence
        /\ \A h \in Grader \ {g} : pc'[h] = pc[h] /\ call'[h] = call[h]
    BY <1>1, <1>2, <1>10, <2>1 DEF AttestFirst, Goto, Grading
  <2>. QED  BY <2>1, <2>2, AnsweredStays DEF Committed
<1>. QED  BY <1>3, <1>4, <1>5, <1>6, <1>7, <1>8, <1>9, <1>10

\* A grade is committed: its call is at work.
LEMMA InsertGradeAnswers ==
    ASSUME CollectInv, Answered, NEW g \in Grader, InsertGrade(g)
    PROVE  Answered' /\ UNCHANGED <<crashes, score>>
<1> PICK d : d = call[g].evidence
  OBVIOUS
<1>1. /\ pc[g] = "grade" /\ UNCHANGED <<acked, crashes, score>>
      /\ grades' = [grades EXCEPT ![d] = Append(grades[d], call[g].source)]
      /\ call' = [call EXCEPT ![g].grade = Len(grades[d]) + 1]
      /\ pc' = [pc EXCEPT ![g] = "line"]
  BY DEF InsertGrade, Goto
<1>2. /\ pc \in [Threads -> Label] /\ call \in [Threads -> {NoCall} \cup Grading \cup Rating]
      /\ grades \in [Evidence -> Seq(Source)] /\ \A h \in Grader : h \in Threads
      /\ call[g] \in Grading
  BY <1>1, Alone, Apart DEF CollectInv, TypeOK
<1>3. /\ pc'[g] = "line" /\ call'[g].evidence = d
      /\ \A h \in Grader \ {g} : pc'[h] = pc[h] /\ call'[h] = call[h]
  BY <1>1, <1>2 DEF Grading
<1>4. ASSUME NEW e \in Evidence
      PROVE  \/ acked'[e] = Len(grades'[e])
             \/ \E h \in Grader : pc'[h] \in Committed /\ call'[h].evidence = e
  <2>1. CASE e = d
    BY <1>3, <2>1 DEF Committed
  <2>2. CASE e # d
    BY <1>1, <1>2, <1>3, <2>2 DEF Answered, Committed
  <2>. QED  BY <2>1, <2>2
<1>. QED  BY <1>1, <1>4 DEF Answered, Committed

\* A call is answered: for the item's last grade.
LEMMA AttestLastAnswers ==
    ASSUME CollectInv, Answered, NEW g \in Grader, AttestLast(g)
    PROVE  Answered' /\ UNCHANGED <<crashes, score>>
<1> PICK d : d = call[g].evidence
  OBVIOUS
<1>1. /\ pc[g] = "signal_line" /\ acked' = [acked EXCEPT ![d] = call[g].grade]
      /\ UNCHANGED <<grades, crashes, score>>
  BY DEF AttestLast
<1>2. /\ acked \in [Evidence -> Nat] /\ GraderInv(g)
      /\ \A h \in Grader \ {g} : pc[h] = "idle"
  BY <1>1, Alone DEF CollectInv, TypeOK
<1>3. call[g].grade = Len(grades[d])
  BY <1>1, <1>2 DEF GraderInv, Committed
<1>4. ASSUME NEW e \in Evidence
      PROVE  acked'[e] = Len(grades'[e])
  <2>1. CASE e = d
    BY <1>1, <1>2, <1>3, <2>1
  <2>2. CASE e # d
    BY <1>1, <1>2, <2>2 DEF Answered, Committed
  <2>. QED  BY <2>1, <2>2
<1>. QED  BY <1>1, <1>4 DEF Answered

LEMMA LedgerStepSettles ==
    ASSUME CollectInv, SettledInv, LedgerStep
    PROVE  SettledInv'
<1>1. SUFFICES ASSUME Faults = {}, crashes' = 0
               PROVE  Answered' /\ \A w \in Analyst : score'[w].settled = score'[w].bound
  BY DEF SettledInv
<1>2. PICK g \in Grader :
          \/ \E e \in Evidence, source \in Sources, first \in BOOLEAN :
                Grade(g, e, source, first)
          \/ Check(g) \/ CheckFails(g) \/ InsertGrade(g) \/ InsertGradeFails(g)
          \/ AttestGrade(g) \/ AttestGradeFails(g) \/ Stamp(g) \/ InsertSignal(g)
          \/ AttestFirst(g) \/ AttestLast(g) \/ SignalFails(g)
  BY DEF LedgerStep
<1>3. UNCHANGED <<crashes, score>>
  BY <1>2 DEF Grade, Check, CheckFails, InsertGrade, InsertGradeFails, AttestGrade,
              AttestGradeFails, Stamp, InsertSignal, AttestFirst, AttestLast, SignalFails,
              ledger
<1>4. Answered /\ \A w \in Analyst : score[w].settled = score[w].bound
  BY <1>1, <1>3 DEF SettledInv
<1>5. Answered'
  BY <1>1, <1>2, <1>4, GraderAnswers, InsertGradeAnswers, AttestLastAnswers
<1>. QED  BY <1>3, <1>4, <1>5

\* Where a score begins, what it is bound by is all there is to be bound by.
LEMMA BeginsSettled ==
    ASSUME CollectInv, Answered
    PROVE  Settled = acked
<1>1. acked \in [Evidence -> Nat]
  BY DEF CollectInv, TypeOK
<1>2. ASSUME \A g \in Grader : pc[g] = "idle"
      PROVE  [e \in Evidence |-> Len(grades[e])] = acked
  <2>1. \A e \in Evidence : acked[e] = Len(grades[e])
    BY <1>2 DEF Answered, Committed
  <2>. QED  BY <1>1, <2>1
<1>. QED  BY <1>2 DEF Settled

LEMMA ScoreSettles ==
    ASSUME CollectInv, Answered, \A w \in Analyst : score[w].settled = score[w].bound,
           RateStep \/ ScoreStep
    PROVE  \A w \in Analyst : score'[w].settled = score'[w].bound
<1>1. \A w \in Analyst : score[w] \in Scoring(score[w].cells)
  BY DEF CollectInv, TypeOK
<1>2. score = [w \in Analyst |-> score[w]]
  BY DEF CollectInv, TypeOK
<1>3. CASE UNCHANGED score
  BY <1>3
<1>4. CASE \E w \in Analyst : score' = [score EXCEPT ![w] = NoScore]
  <2>1. PICK w \in Analyst : score' = [score EXCEPT ![w] = NoScore]
    BY <1>4
  <2>2. score' = [v \in Analyst |-> IF v = w THEN NoScore ELSE score[v]]
    BY <1>2, <2>1
  <2>3. NoScore.settled = NoScore.bound
    BY DEF NoScore
  <2>. QED  BY <2>2, <2>3
<1>5. CASE \E w \in Analyst : Score(w)
  <2>1. PICK w \in Analyst : Score(w)
    BY <1>5
  <2>2. PICK s : s = [NoScore EXCEPT !.cells = cells, !.bound = acked,
                                     !.settled = Settled, !.begun = hypotheses]
    OBVIOUS
  <2>3. s.settled = Settled /\ s.bound = acked
    BY <2>2 DEF NoScore
  <2>4. score' = [score EXCEPT ![w] = s]
    BY <2>1, <2>2 DEF Score
  <2>5. score' = [v \in Analyst |-> IF v = w THEN s ELSE score[v]]
    BY <1>2, <2>4
  <2>. QED  BY <2>3, <2>5, BeginsSettled
<1>6. CASE \E w \in Analyst : ScoreHypotheses(w) \/ ScoreReadsGrade(w) \/ ScoreReadsStale(w)
  <2>1. PICK w \in Analyst : ScoreHypotheses(w) \/ ScoreReadsGrade(w) \/ ScoreReadsStale(w)
    BY <1>6
  <2>2. PICK s : /\ score' = [score EXCEPT ![w] = s]
                 /\ \/ s = [score[w] EXCEPT !.ranked = hypotheses,
                                              !.todo = DOMAIN score[w].cells]
                    \/ \E p \in score[w].todo : s = [score[w] EXCEPT !.pair = p]
                    \/ s = [score[w] EXCEPT !.todo = score[w].todo \ {score[w].pair}]
    <3>1. CASE ScoreHypotheses(w)
      BY <3>1 DEF ScoreHypotheses
    <3>2. CASE ScoreReadsGrade(w)
      BY <3>2 DEF ScoreReadsGrade
    <3>3. CASE ScoreReadsStale(w)
      BY <3>3 DEF ScoreReadsStale
    <3>. QED  BY <2>1, <3>1, <3>2, <3>3
  <2>3. s.settled = score[w].settled /\ s.bound = score[w].bound
    BY <1>1, <2>2 DEF Scoring
  <2>4. score' = [v \in Analyst |-> IF v = w THEN s ELSE score[v]]
    BY <1>2, <2>2
  <2>. QED  BY <2>3, <2>4
<1>7. \/ UNCHANGED score \/ \E w \in Analyst : score' = [score EXCEPT ![w] = NoScore]
      \/ \E w \in Analyst : Score(w)
      \/ \E w \in Analyst : ScoreHypotheses(w) \/ ScoreReadsGrade(w) \/ ScoreReadsStale(w)
  <2>1. CASE RateStep
    BY <2>1 DEF RateStep, Rate, VerifySignals, VerifySignalsFails, RateReadsGrade,
                RateUnconfirmed, RateStamp, RateInsert, RateInsertFails, Raise, Finish
  <2>2. CASE ScoreStep
    BY <2>2 DEF ScoreStep, ScoreNothing, ScoreUncovered, ScoreUnconfirmed, ScoreStale,
                Ranked, Raise, Finish, vars
  <2>. QED  BY <2>1, <2>2
<1>. QED  BY <1>3, <1>4, <1>5, <1>6, <1>7

\* The engine's steps leave the graders and what they wrote alone.
LEMMA EngineLeavesGraders ==
    ASSUME CollectInv, RateStep \/ ScoreStep
    PROVE  /\ UNCHANGED <<grades, acked, crashes>>
           /\ \A g \in Grader : pc'[g] = pc[g] /\ call'[g] = call[g]
<1>1. /\ pc \in [Threads -> Label] /\ call \in [Threads -> {NoCall} \cup Grading \cup Rating]
      /\ \A g \in Grader : g \in Threads /\ g \notin Analyst
  BY Apart DEF CollectInv, TypeOK
<1>2. CASE RateStep
  <2>1. UNCHANGED ledger
    BY <1>2 DEF RateStep, Rate, VerifySignals, VerifySignalsFails, RateReadsGrade,
                RateUnconfirmed, RateStamp, RateInsert, RateInsertFails, Raise
  <2>2. \A g \in Grader : pc'[g] = pc[g]
    BY <1>1, <1>2 DEF RateStep, Rate, VerifySignals, VerifySignalsFails, RateReadsGrade,
                RateUnconfirmed, RateStamp, RateInsert, RateInsertFails, Raise, Finish, Goto
  <2>3. \A g \in Grader : call'[g] = call[g]
    BY <1>1, <1>2 DEF RateStep, Rate, VerifySignals, VerifySignalsFails, RateReadsGrade,
                RateUnconfirmed, RateStamp, RateInsert, RateInsertFails, Raise, Finish
  <2>. QED  BY <2>1, <2>2, <2>3 DEF ledger
<1>3. CASE ScoreStep
  <2>1. UNCHANGED ledger
    BY <1>3 DEF ScoreStep, ScoreNothing, Score, ScoreHypotheses, ScoreUncovered,
                ScoreReadsGrade, ScoreUnconfirmed, ScoreReadsStale, ScoreStale, Ranked,
                Raise, vars
  <2>2. \A g \in Grader : pc'[g] = pc[g]
    BY <1>1, <1>3 DEF ScoreStep, ScoreNothing, Score, ScoreHypotheses, ScoreUncovered,
                ScoreReadsGrade, ScoreUnconfirmed, ScoreReadsStale, ScoreStale, Ranked,
                Raise, Finish, Goto, vars
  <2>3. \A g \in Grader : call'[g] = call[g]
    BY <1>1, <1>3 DEF ScoreStep, ScoreNothing, Score, ScoreHypotheses, ScoreUncovered,
                ScoreReadsGrade, ScoreUnconfirmed, ScoreReadsStale, ScoreStale, Ranked,
                Raise, Finish, vars
  <2>. QED  BY <2>1, <2>2, <2>3 DEF ledger
<1>. QED  BY <1>2, <1>3

LEMMA OthersSettle ==
    ASSUME CollectInv, SettledInv,
           RateStep \/ ScoreStep \/ AddHypothesis \/ Crash \/ Restart \/ SetBack
           \/ UNCHANGED vars
    PROVE  SettledInv'
<1>1. CASE RateStep \/ ScoreStep
  <2>1. Answered => Answered'
    BY <1>1, EngineLeavesGraders, AnsweredStays
  <2>. QED  BY <1>1, <2>1, EngineLeavesGraders, ScoreSettles DEF SettledInv
<1>2. CASE Crash
  <2>1. crashes \in Nat /\ crashes' = crashes + 1
    BY <1>2, GateAssumption DEF Crash, CollectInv, TypeOK
  <2>. QED  BY <2>1 DEF SettledInv
<1>3. CASE AddHypothesis \/ Restart \/ SetBack \/ UNCHANGED vars
  <2>1. UNCHANGED <<grades, acked, crashes, pc, call, score>>
    BY <1>3 DEF AddHypothesis, Restart, SetBack, vars, ledger, matrix
  <2>. QED  BY <2>1 DEF SettledInv, Answered, Committed
<1>. QED  BY <1>1, <1>2, <1>3

\* Where no write fails, and as long as the ledger did not crash, the latest grade of every
\* item binds every score that begins while nobody is grading: what breaks this promise of
\* the tool (the run GateCrash) is a grade that was committed and never signalled, never an
\* interleaving of gradings, ratings and scores.
THEOREM LatestBindsUntilLost == Spec => [](Faults = {} /\ crashes = 0 => LatestGradeBinds)
<1>1. Init => SettledInv
  BY DEF Init, SettledInv, Answered, NoScore
<1>2. CollectInv /\ SettledInv /\ [Next]_vars => SettledInv'
  BY LedgerStepSettles, OthersSettle DEF Next
<1>3. CollectInv /\ SettledInv => (Faults = {} /\ crashes = 0 => LatestGradeBinds)
  <2>1. SUFFICES ASSUME CollectInv, SettledInv, Faults = {}, crashes = 0,
                        NEW w \in Analyst, pc[w] = "ranked", NEW p \in DOMAIN score[w].cells
                 PROVE  \E k \in DOMAIN grades[p[1]] :
                           /\ k >= score[w].settled[p[1]]
                           /\ grades[p[1]][k] = "analyst_confirmed"
    BY DEF LatestGradeBinds
  <2>2. ScoreInv(w) /\ score[w].settled = score[w].bound
    BY <2>1, Scores DEF SettledInv
  <2>3. Bound(w, p[1])
    BY <2>1, <2>2 DEF ScoreInv
  <2>. QED  BY <2>2, <2>3 DEF Bound
<1>. QED  BY <1>1, <1>2, <1>3, CollectInvHolds, PTL DEF Spec
=============================================================================
