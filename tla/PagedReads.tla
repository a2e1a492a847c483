----------------------------- MODULE PagedReads -----------------------------
(***************************************************************************)
(* A client reads a listing page by page -- list_forecasts, list_evidence  *)
(* or list_matrices -- while rows are inserted, committed and rolled back. *)
(*                                                                         *)
(* A listing runs without the write lock on the connection the writers     *)
(* use: one SELECT gives the page, and one look-up per row, by its id,     *)
(* gives the items.  It sees the row of a write in progress, which may     *)
(* still be rolled back; the next insert then gets the same seq, for the   *)
(* rollback takes AUTOINCREMENT's counter back as well.                    *)
(*                                                                         *)
(* A row's position is its seq.  A resolution is committed in one step;    *)
(* what readers see of an uncommitted one is in CalibrationTracker.        *)
(***************************************************************************)
EXTENDS Integers, Sequences, FiniteSets, FiniteSetsExt

CONSTANTS
    Kinds,       \* the listings considered: "forecasts", "evidence", "matrices"
    Limits,      \* page sizes a client asks for
    MaxLimit,    \* the largest a server gives (1000 in the code)
    MaxInserts,  \* bound: inserts, rolled back ones too
    MaxCrashes   \* bound: crashes of the server

ASSUME PagedAssumption ==
    /\ Kinds \subseteq {"forecasts", "evidence", "matrices"}
    /\ Limits \subseteq Int /\ MaxLimit \in Nat \ {0}
    /\ MaxInserts \in Nat /\ MaxCrashes \in Nat

VARIABLES
    kind, wanted,  \* which listing, and list_forecasts' filter `resolved`
    rows,     \* the table as the shared connection sees it
    durable,  \* how many of its rows are committed
    inserts, crashes,
    pc,       \* the client: "idle", in a call ("page", "get"), or "done"
    after,    \* the cursor it passes
    page,     \* rows of the page still to be looked up
    more,     \* whether the SELECT found a row after the page
    last,     \* last_seq
    items,    \* items of the call in progress
    seen,     \* items of the answers received
    before    \* history: the rows committed when the listing began

table == <<rows, durable, inserts>>
client == <<pc, after, page, more, last, items, seen, before>>
vars == <<kind, wanted, table, crashes, client>>

\* `matches`: the row is of the case (and of the analyst) that is listed.
Row == [id : Nat, matches : BOOLEAN, resolved : BOOLEAN]
Ref == [seq : Nat, id : Nat]

TypeOK ==
    /\ kind \in Kinds /\ wanted \in {"all", "resolved", "open"}
    /\ rows \in Seq(Row) /\ durable \in Nat /\ inserts \in Nat /\ crashes \in Nat
    /\ pc \in {"idle", "page", "get", "done"}
    /\ after \in Nat /\ page \subseteq Ref /\ more \in BOOLEAN /\ last \in Nat
    /\ items \in Seq(Ref) /\ seen \in Seq(Ref) /\ before \in Seq(Row)

Init ==
    /\ kind \in Kinds
    /\ wanted \in IF kind = "forecasts" THEN {"all", "resolved", "open"} ELSE {"all"}
    /\ rows = << >> /\ durable = 0 /\ inserts = 0 /\ crashes = 0
    /\ pc = "idle" /\ after = 0 /\ page = {} /\ more = FALSE /\ last = 0
    /\ items = << >> /\ seen = << >> /\ before = << >>

-----------------------------------------------------------------------------
(* The writers, one at a time.                                              *)

InTransaction == Len(rows) > durable

Insert ==
    /\ ~InTransaction /\ inserts < MaxInserts
    /\ \E m \in BOOLEAN :
        rows' = Append(rows, [id |-> inserts + 1, matches |-> m, resolved |-> FALSE])
    /\ inserts' = inserts + 1
    /\ UNCHANGED <<kind, wanted, durable, crashes, client>>

Commit ==
    /\ InTransaction /\ durable' = Len(rows)
    /\ UNCHANGED <<kind, wanted, rows, inserts, crashes, client>>

Rollback ==
    /\ InTransaction /\ rows' = SubSeq(rows, 1, durable)
    /\ UNCHANGED <<kind, wanted, durable, inserts, crashes, client>>

Resolve(s) ==
    /\ kind = "forecasts" /\ ~InTransaction /\ ~rows[s].resolved
    /\ rows' = [rows EXCEPT ![s].resolved = TRUE]
    /\ UNCHANGED <<kind, wanted, durable, inserts, crashes, client>>

-----------------------------------------------------------------------------
(* The listing.                                                             *)

Begin ==
    /\ pc = "idle" /\ pc' = "page" /\ before' = SubSeq(rows, 1, durable)
    /\ UNCHANGED <<kind, wanted, table, crashes, after, page, more, last, items, seen>>

\* list_evidence refuses a limit out of range, the others bring it into range.
Accepts(limit) == kind = "evidence" => limit \in 1 .. MaxLimit
\* Mutant of Clamped: the lower end is forgotten.
ClampedAbove(limit) == IF limit < MaxLimit THEN limit ELSE MaxLimit
Clamped(limit) == IF limit < 1 THEN 1 ELSE IF limit > MaxLimit THEN MaxLimit ELSE limit

\* Mutant of Matching: the cursor's row is read again.
MatchingFrom == {s \in DOMAIN rows : s >= after /\ rows[s].matches}
Matching == {s \in DOMAIN rows : s > after /\ rows[s].matches}

\* The first n of the matching rows, or all of them.
FirstRows(n) ==
    {S \in SUBSET Matching :
        /\ Cardinality(S) = Min({n, Cardinality(Matching)})
        /\ \A a \in S, b \in Matching \ S : a < b}

\* The SELECT, which asks for one row more than the limit to learn whether it is there.
Page ==
    /\ pc = "page"
    /\ \E limit \in Limits : \E S \in FirstRows(Clamped(limit)) :
        /\ Accepts(limit)
        /\ page' = {[seq |-> s, id |-> rows[s].id] : s \in S}
        /\ more' = (S # Matching)
    /\ pc' = "get" /\ last' = after /\ items' = << >>
    /\ UNCHANGED <<kind, wanted, table, crashes, after, seen, before>>

\* The row of the page that is looked up next, and whether it is still there.
IsNext(r) == r \in page /\ \A q \in page : r.seq <= q.seq
Present(r) == r.seq \in DOMAIN rows /\ rows[r.seq].id = r.id

Wanted(row) ==
    CASE wanted = "all" -> TRUE
      [] wanted = "resolved" -> row.resolved
      [] wanted = "open" -> ~row.resolved

\* Mutant of Get: a filtered row does not move last_seq.
GetSkipping ==
    /\ pc = "get"
    /\ \E r \in page :
        /\ IsNext(r) /\ Present(r)
        /\ page' = page \ {r}
        /\ IF Wanted(rows[r.seq]) THEN items' = Append(items, r) /\ last' = r.seq
                                  ELSE UNCHANGED <<items, last>>
    /\ UNCHANGED <<kind, wanted, table, crashes, pc, after, more, seen, before>>
Get ==
    /\ pc = "get"
    /\ \E r \in page :
        /\ IsNext(r) /\ Present(r)
        /\ page' = page \ {r} /\ last' = r.seq
        /\ items' = IF Wanted(rows[r.seq]) THEN Append(items, r) ELSE items
    /\ UNCHANGED <<kind, wanted, table, crashes, pc, after, more, seen, before>>

\* The client has no answer, and asks again with the cursor it has.
AskAgain ==
    /\ pc' = "page" /\ page' = {} /\ items' = << >>
    /\ UNCHANGED <<after, more, last, seen, before>>

\* The row was rolled back since the SELECT: "unknown forecast_id".
Vanished ==
    /\ pc = "get" /\ \E r \in page : IsNext(r) /\ ~Present(r)
    /\ AskAgain
    /\ UNCHANGED <<kind, wanted, table, crashes>>

\* Mutant of Answer: a cursor is given whenever there were items, for polling.
AnswerAlways ==
    /\ pc = "get" /\ page = {}
    /\ seen' = seen \o items
    /\ \/ (more \/ items # << >>) /\ pc' = "page" /\ after' = last
       \/ ~(more \/ items # << >>) /\ pc' = "done" /\ UNCHANGED after
    /\ UNCHANGED <<kind, wanted, table, crashes, page, more, last, items, before>>
\* next_cursor is last_seq if there is more, and None ends the listing.
Answer ==
    /\ pc = "get" /\ page = {}
    /\ seen' = seen \o items
    /\ \/ more /\ pc' = "page" /\ after' = last
       \/ ~more /\ pc' = "done" /\ UNCHANGED after
    /\ UNCHANGED <<kind, wanted, table, crashes, page, more, last, items, before>>

\* The server dies and starts again; rows that were not committed are gone.
Crash ==
    /\ pc = "get" /\ crashes < MaxCrashes
    /\ crashes' = crashes + 1
    /\ rows' = SubSeq(rows, 1, durable)
    /\ AskAgain
    /\ UNCHANGED <<kind, wanted, durable, inserts>>

-----------------------------------------------------------------------------
Write == Insert \/ Commit \/ Rollback \/ \E s \in DOMAIN rows : Resolve(s)
Read == Page \/ Get \/ Vanished \/ Answer
Next == Write \/ Begin \/ Read \/ Crash

Spec == Init /\ [][Next]_vars

\* The client of a listing goes on reading it.
FairSpec == Spec /\ WF_vars(Read)

-----------------------------------------------------------------------------
(* Properties.                                                              *)

\* A row that a listing must return: it was committed when the listing began and fits
\* the filter from then on (a resolution is never taken back).
Owed(s) ==
    /\ s \in DOMAIN before /\ before[s].matches
    /\ wanted = "resolved" => before[s].resolved
    /\ wanted = "open" => ~rows[s].resolved

\* A listing read to its end has every row it owes, and whatever it returned it returned
\* once and in order, although its pages were read between other calls' inserts and
\* rollbacks (calibration store.py:476-494, evidence store.py:428-433, ach store.py:523-528).
ListingComplete ==
    /\ \A i, j \in DOMAIN seen : i < j => seen[i].seq < seen[j].seq
    /\ pc = "done" =>
           \A s \in DOMAIN before : Owed(s) =>
               \E i \in DOMAIN seen : seen[i] = [seq |-> s, id |-> before[s].id]

\* A listing comes to its end, even if a filter lets no row of a page through
\* (calibration store.py:489-491).
ListingEnds == pc = "page" ~> pc = "done"

-----------------------------------------------------------------------------
(* The inductive invariant of the proofs.                                   *)

\* The committed rows of the beginning are still there.
Grown ==
    /\ durable <= Len(rows) /\ Len(rows) <= durable + 1
    /\ pc = "idle" => before = << >>
    /\ Len(before) <= durable
    /\ \A s \in DOMAIN before :
           /\ rows[s].id = before[s].id /\ rows[s].matches = before[s].matches
           /\ before[s].resolved => rows[s].resolved

Increasing(refs) == \A i, j \in DOMAIN refs : i < j => refs[i].seq < refs[j].seq
Holds(refs, s) == \E i \in DOMAIN refs : refs[i] = [seq |-> s, id |-> before[s].id]

\* What was received reaches up to the cursor, and the cursor is a committed row's.
Received ==
    /\ Increasing(seen)
    /\ after <= durable
    /\ pc # "done" => \A i \in DOMAIN seen : seen[i].seq <= after
    /\ pc \in {"page", "get"} => \A s \in DOMAIN before : Owed(s) /\ s <= after => Holds(seen, s)
    /\ pc = "done" => \A s \in DOMAIN before : Owed(s) => Holds(seen, s)
    /\ pc = "idle" => after = 0 /\ seen = << >>

\* The call in progress: its items reach up to last_seq, and what it owes above is in
\* the page or after it.
InCall ==
    pc = "get" =>
        /\ after <= last
        /\ Increasing(items)
        /\ \A i \in DOMAIN items : after < items[i].seq /\ items[i].seq <= last
        /\ \A r \in page : last < r.seq /\ \A q \in page : q.seq = r.seq => q = r
        /\ \A s \in DOMAIN before :
               Owed(s) /\ after < s => \/ s <= last /\ Holds(items, s)
                                       \/ [seq |-> s, id |-> before[s].id] \in page
                                       \/ more /\ last < s /\ \A r \in page : r.seq < s
        /\ more => last <= durable /\ \A r \in page : r.seq <= durable

\* A page that is not the last has a row, be it one that the filter drops: the cursor
\* that follows it is a new one.
NotEmpty == pc = "get" /\ more => page # {} \/ after < last

ListingInv == TypeOK /\ Grown /\ Received /\ InCall /\ NotEmpty

\* An answer ends the listing or moves its cursor, to a committed row; nothing else does.
CursorAdvances ==
    /\ Answer => pc' = "done" \/ after < after'
    /\ after' # after => Answer /\ after' <= durable'
=============================================================================
