------------------------ MODULE EgressCallsInductive ------------------------
(***************************************************************************)
(* The inductive strengthening of the safety properties of EgressCalls,    *)
(* stated apart from its proof so that TLC checks it too.                  *)
(***************************************************************************)
EXTENDS EgressCalls

Active(w) == pc[w] # "idle"
Recording == {"record", "commit", "attest"}

\* A process that serves has passed main()'s gates; one that does not has no session
\* and runs no call.
ServesInv ==
    /\ phase = "serving" => MayServe(env)
    /\ phase # "serving" => session = {} /\ \A w \in Worker : ~Active(w)

\* A worker inside a call runs one of this life, alone; inside a transaction it holds
\* the audit's lock.
CallInv(w) ==
    /\ local[w].id \in DOMAIN calls
    /\ calls[local[w].id].status = "running" /\ calls[local[w].id].life = life
    /\ pc[w] \in {"commit", "attest"} => lock = w
OwnInv ==
    /\ \A w \in Worker : Active(w) => CallInv(w)
    /\ \A v, w \in Worker :
          Active(v) /\ Active(w) /\ v # w => local[v].id # local[w].id

\* The rows that worker w's call has committed so far.
SoFar(w) ==
    CASE pc[w] \in {"record", "commit"} -> Before(local[w].row)
      [] pc[w] = "attest" -> Append(Before(local[w].row), local[w].row)
      [] pc[w] \in {"hop", "connect", "response", "store"} -> <<"attempt (live)">>
      [] pc[w] = "remember" -> RowsFor("ok")
      [] OTHER -> << >>

RowOf(w) == [call |-> local[w].id, outcome |-> local[w].row]
Last(rows) == rows[Len(rows)]

\* What a transaction that is not committed holds: the rows of commits that failed,
\* and after them the row of the one worker that is about to commit.
OpenInv ==
    \A i \in DOMAIN open :
        /\ open[i].call \in DOMAIN calls
        /\ \/ calls[open[i].call].status = "masked error"
           \/ i = Len(open) /\ \E w \in Worker : pc[w] = "commit" /\ open[i] = RowOf(w)

HasArtifact(row) == row.outcome = "ok" => calls[row.call].artifact \in DOMAIN artifacts

\* The rows of a running call are those of the steps it has taken, and each is attested,
\* save the one whose manifest line is still to be written.
RowsInv(w) ==
    /\ RowsAre(log, local[w].id, SoFar(w))
    /\ \A i \in DOMAIN log : log[i].call = local[w].id =>
          Attested(i) \/ (pc[w] = "attest" /\ i = Len(log))
    /\ pc[w] = "commit" => open # << >> /\ Last(open) = RowOf(w)
    /\ pc[w] = "attest" => log # << >> /\ Last(log) = RowOf(w)

AuditInv ==
    /\ OpenInv
    /\ \A i \in DOMAIN log : log[i].call \in DOMAIN calls
    /\ \A w \in Worker : Active(w) => RowsInv(w)
    /\ EndsAsRecorded
    /\ \A i \in DOMAIN open : HasArtifact(open[i])
    /\ \A w \in Worker : pc[w] \in Recording => HasArtifact(RowOf(w))

\* A fetch that call d of this life ended with its attested "ok" row.
Fetched(d, u, l) ==
    /\ calls[d].status = "ok" /\ calls[d].life = l /\ calls[d].final = u
    /\ \E i \in DOMAIN log : log[i] = [call |-> d, outcome |-> "ok"] /\ Attested(i)

\* Call c may fetch: it is confirmed, or an earlier call gave its URL provenance.
MayFetch(c) ==
    calls[c].confirmed \/ \E d \in 1 .. c - 1 : Fetched(d, calls[c].url, calls[c].life)

\* A worker that connects, or will once the row of its attempt is recorded.
Live(w) ==
    \/ pc[w] \in {"hop", "connect", "response"}
    \/ pc[w] \in Recording /\ local[w].row = "attempt (live)"

\* What the gates have established for a worker on its way to a connection.
PassedInv(w) ==
    /\ pc[w] = "guard" \/ Live(w) => MayFetch(local[w].id)
    /\ pc[w] = "guard" => ~Screened(calls[local[w].id].url)
    /\ Live(w) => calls[local[w].id].url \notin Sensitive
    /\ pc[w] = "connect" => local[w].ip \in Public

GateInv ==
    /\ \A u \in session : \E d \in DOMAIN calls : Fetched(d, u, life)
    /\ \A w \in Worker : PassedInv(w)
    /\ \A c \in connections : c.call \in DOMAIN calls
    /\ AttemptPrecedesConnection /\ OnlyGuardedConnections /\ UnconfirmedFollowsOk

\* A proposal carries the bytes of its artifact; it is in the ledger once it was added,
\* and not before.
LedgerInv ==
    /\ ProposalsAreTrue
    /\ \A i \in DOMAIN ledger :
          ledger[i].artifact \in DOMAIN artifacts /\ ledger[i].call \in DOMAIN calls
    /\ \A w \in Worker : pc[w] = "propose" =>
          /\ local[w].artifact \in DOMAIN artifacts
          /\ artifacts[local[w].artifact] = local[w].body
          /\ \A i \in DOMAIN ledger : ledger[i].call # local[w].id
    /\ \A w \in Worker : pc[w] = "answer" =>
          \E i \in DOMAIN ledger : ledger[i].call = local[w].id

\* A call that runs has a thread that runs it; who waits for the audit's lock waits for a
\* thread that commits or attests; and no fetch has followed more redirects than allowed.
NoOrphans ==
    \A c \in DOMAIN calls : calls[c].status = "running" =>
        \E w \in Worker : Active(w) /\ local[w].id = c
LockInv == lock # NoWorker => lock \in Worker /\ pc[lock] \in {"commit", "attest"}
HopsInv == \A w \in Worker : local[w].hops <= MaxRedirects
RunInv == NoOrphans /\ LockInv /\ HopsInv

EgressInv ==
    TypeOK /\ ServesInv /\ OwnInv /\ RunInv /\ AuditInv /\ GateInv /\ LedgerInv

-----------------------------------------------------------------------------
(* What CallsEnd rests on: how far a call is from its end.                  *)

\* The steps that worker w's call can still take: three for a redirect, three for a row
\* (and what the row of a live attempt leads to), one each for the others.
Hops(w) == 3 * (MaxRedirects - local[w].hops)
Attempting(row) == row = "attempt (live)"
AfterRowLeft(w) == IF Attempting(local[w].row) THEN Hops(w) + 7 ELSE 0
StepsLeft(w) ==
    CASE pc[w] \in {"remember", "answer"} -> 1
      [] pc[w] = "propose" -> 2
      [] pc[w] = "attest" -> AfterRowLeft(w) + 3
      [] pc[w] = "commit" -> AfterRowLeft(w) + 4
      [] pc[w] = "record" -> AfterRowLeft(w) + 5
      [] pc[w] = "store" -> 6
      [] pc[w] = "response" -> Hops(w) + 7
      [] pc[w] = "connect" -> Hops(w) + 8
      [] pc[w] = "hop" -> Hops(w) + 9
      [] pc[w] = "guard" -> Hops(w) + 13
      [] OTHER -> 0

\* A step of a call brings it nearer to its end, and what others do leaves it where it
\* is or, when the process dies, ends it.
RunsDown ==
    \A w \in Worker :
        /\ Continue(w) => StepsLeft(w)' < StepsLeft(w)
        /\ ~Begin(w) /\ ~Continue(w) => StepsLeft(w)' \in {0, StepsLeft(w)}
=============================================================================
