-------------------- MODULE CalibrationTrackerInductive --------------------
(***************************************************************************)
(* The inductive invariants of CalibrationTracker, stated apart from the   *)
(* proofs that use them so that TLC checks them too: TrackerInv, under     *)
(* which the checks of a write still hold when it inserts, and LifeInv,    *)
(* under which a commit is one step of one forecast's life.                *)
(***************************************************************************)
EXTENDS CalibrationTracker

\* Whoever is between the checks of a write and its manifest line holds the lock,
\* and is running a write.
LockInv ==
    \A w \in Worker :
        pc[w] \in InLock => lock = w /\ call[w].op \in {"log", "resolve", "void"}

\* OneVerdict and NoDuplicate, of the committed forecasts and of those the
\* connection sees.
Verdicts(s) ==
    \A f \in DOMAIN s :
        /\ \A i \in DOMAIN s[f].resolutions :
              s[f].resolutions[i].is_correction <=> i > 1
        /\ s[f].voids <= 1
        /\ s[f].voids = 0 \/ s[f].resolutions = << >>
Spaced(s) ==
    \A f, g \in DOMAIN s :
        f < g /\ s[f].content = s[g].content => s[g].made - s[f].made > Window

\* The dedup query has an answer: of the forecasts of one content, one is last.
HasLast(s) ==
    \A f \in DOMAIN s : \E g \in DOMAIN s :
        /\ s[g].content = s[f].content
        /\ \A h \in DOMAIN s : s[h].content = s[f].content => h <= g

\* The wall clock never runs faster than time itself, so what was stamped ts at
\* the time made is at least as old as it looks.
NoYounger(ts, made) == wall - ts <= real - made
Stamped(s) == \A f \in DOMAIN s : NoYounger(s[f].created_ts, s[f].made)

Sound(s) == Verdicts(s) /\ Spaced(s) /\ HasLast(s) /\ Stamped(s)

\* What a call has checked under the lock still holds when it inserts its row.
Decided(w) ==
    \/ /\ call[w].op = "log"
       /\ NoYounger(call[w].now, call[w].made)
       /\ \A f \in Existing(call[w].content) :
             call[w].made - rows[f].made > Window
    \/ call[w].op = "resolve" /\ MayResolve(call[w].forecast, call[w].is_correction)
    \/ call[w].op = "void" /\ MayVoid(call[w].forecast)

RowsInv ==
    /\ RowsAreCommitted
    /\ Sound(rows) /\ Sound(disk)
    /\ \A w \in Worker : pc[w] = "insert" => Decided(w)

TrackerInv == TypeOK /\ LockInv /\ RowsInv

-----------------------------------------------------------------------------
(* What a commit and a report rest on.                                      *)

\* The one row a call adds to the committed forecasts: a new forecast ...
AddsForecast(old, new) ==
    /\ Len(new) = Len(old) + 1
    /\ \A f \in DOMAIN old : new[f] = old[f]
    /\ new[Len(new)].resolutions = << >> /\ new[Len(new)].voids = 0

\* ... or the verdict on one: a resolution, or the void of an open one.
AddsVerdict(old, new, f) ==
    /\ Len(new) = Len(old)
    /\ \A g \in DOMAIN old \ {f} : new[g] = old[g]
    /\ new[f].content = old[f].content /\ old[f].voids = 0
    /\ \/ /\ \E r \in Resolution : new[f].resolutions = Append(old[f].resolutions, r)
          /\ new[f].voids = 0
       \/ /\ old[f].resolutions = << >> /\ new[f].resolutions = << >>
          /\ new[f].voids = 1

AddsRow(old, new) ==
    AddsForecast(old, new) \/ \E f \in DOMAIN old : AddsVerdict(old, new, f)

\* Before the commit the connection sees that row and no other.
OneRow == \A w \in Worker : pc[w] = "commit" => AddsRow(disk, rows)

\* Until the wall clock is first set back, its stamps are the real time.
Exact(s) == \A f \in DOMAIN s : s[f].created_ts = s[f].made
Synced ==
    steps = 0 =>
        /\ wall = real /\ Exact(rows) /\ Exact(disk)
        /\ \A w \in Worker :
              pc[w] = "insert" /\ call[w].op = "log" => call[w].now = call[w].made

\* A report has scored, or has still to look at, each forecast it owes.
Owes(w) ==
    \/ pc[w] \in {"next", "corrected"}
    \/ pc[w] = "return" /\ call[w].op = "report"
OwesInv(w) ==
    /\ pc[w] \in Reading => call[w].op # "report"
    /\ pc[w] = "return" /\ call[w].op = "report" => report[w].todo = {}
    /\ Owes(w) => \A f \in report[w].resolved :
          /\ f \in DOMAIN disk /\ disk[f].resolutions # << >>
          /\ f \in report[w].todo \cup Scored(w)

ReportsInv == \A w \in Worker : OwesInv(w)

LifeInv == OneRow /\ Synced /\ ReportsInv
=============================================================================
