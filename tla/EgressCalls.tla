---------------------------- MODULE EgressCalls ----------------------------
(***************************************************************************)
(* The tools of osint-toolkit: the gates a call passes, the audit rows it  *)
(* leaves, what it connects to, the artifact it stores and what it         *)
(* proposes to the evidence ledger.                                        *)
(*                                                                         *)
(* One process serves; its tools run on several threads over one audit     *)
(* log, and everything around them answers as it likes: DNS gives another  *)
(* answer at each question, a remote host redirects, breaks or sends a     *)
(* body, the ledger adds, refuses or loses its answer, the audit's commit, *)
(* its manifest line and the artifact's file may fail, and the process may *)
(* die at any point and start again with another environment.              *)
(*                                                                         *)
(* Row chains are AttestedStore's; here a row is the outcome that a call   *)
(* recorded, and the manifest the positions it attests.  A refusal of      *)
(* validate_url for a scheme, a port or a literal is a resolution to       *)
(* nothing.  compute_hash, extract_exif and verify_chain change nothing.   *)
(***************************************************************************)
EXTENDS Integers, Sequences, FiniteSets

CONSTANTS
    Worker,        \* threads that run tool calls
    NoWorker,      \* "nobody holds the audit's lock"
    Url,           \* URLs and search texts
    Sensitive,     \* those that carry a case or source identifier
    Malformed,     \* those urlsplit or urljoin raise ValueError on
    Public, Internal,  \* addresses _ip_blocked allows, and those it blocks
    Body,          \* what a remote host may send
    Envs,          \* environments a process may be started in
    Faults,        \* the errors considered: "commit", "attest", "put"
    MaxRedirects,  \* max_redirects of fetch_pinned (5 in the code)
    MaxCalls,      \* bound: calls
    MaxCrashes     \* bound: crashes of the process

Env == [live : BOOLEAN, identifiers : BOOLEAN,
        ledger : {"none", "local", "remote"}, allow_remote : BOOLEAN]

ASSUME EgressAssumption ==
    /\ NoWorker \notin Worker
    /\ Url # {} /\ Sensitive \subseteq Url /\ Malformed \subseteq Url
    /\ Public # {} /\ Public \cap Internal = {}
    /\ Body # {}
    /\ Envs \subseteq Env
    /\ Faults \subseteq {"commit", "attest", "put"}
    /\ MaxRedirects \in Nat /\ MaxCalls \in Nat /\ MaxCrashes \in Nat

VARIABLES
    env,          \* the environment of the process
    phase,        \* "down", "serving" or "refused"
    life,         \* how many times it began to serve
    log,          \* committed rows of egress_log
    open,         \* rows of a transaction that is not committed
    manifest,     \* the positions of log that the manifest's lines attest
    lock,         \* the worker that holds the audit's _lock
    session,      \* _session_urls
    artifacts,    \* stored bodies; a token is a position
    ledger,       \* evidence that proposals added
    calls,        \* history: every call, with how it ended
    connections,  \* history: every connection
    pc, local,    \* where each worker is, and its local variables
    crashes

audit == <<log, open, manifest, lock>>
process == <<env, phase, life, crashes>>
vars == <<process, audit, session, artifacts, ledger, calls, connections, pc, local>>

\* The outcomes that rows record, and the ends of calls that have no row of their own.
Outcome == {"blocked (confirmation required)", "blocked (screen)",
            "blocked (pre-fetch guard)", "attempt (live off)", "attempt (live)",
            "blocked (fetch guard)", "error (network/TLS)", "ok", "attempt"}
Unrecorded == {"running", "lost", "masked error", "no connector", "unknown artifact",
               "no ledger", "ledger error", "transport error", "bad answer", "proposed"}

Row == [call : Nat, outcome : Outcome]
CallRecord == [tool : {"fetch", "connector", "propose"}, url : Url, confirmed : BOOLEAN,
               life : Nat, status : Outcome \cup Unrecorded, final : Url, artifact : Nat]
Local == [id : Nat, row : Outcome, cur : Url, ip : Public \cup Internal, hops : Nat,
          body : Body, artifact : Nat]
Label == {"idle", "record", "commit", "attest", "guard", "hop", "connect", "response",
          "store", "remember", "propose", "answer"}

NoLocal == [id |-> 0, row |-> "attempt", cur |-> CHOOSE u \in Url : TRUE,
            ip |-> CHOOSE a \in Public : TRUE, hops |-> 0,
            body |-> CHOOSE b \in Body : TRUE, artifact |-> 0]

TypeOK ==
    /\ env \in Env /\ phase \in {"down", "serving", "refused"} /\ life \in Nat
    /\ log \in Seq(Row) /\ open \in Seq(Row) /\ manifest \in Seq(Nat)
    /\ lock \in Worker \cup {NoWorker}
    /\ session \subseteq Url /\ artifacts \in Seq(Body)
    /\ ledger \in Seq([call : Nat, artifact : Nat, sha : Body])
    /\ calls \in Seq(CallRecord)
    /\ connections \subseteq [call : Nat, ip : Public \cup Internal]
    /\ pc \in [Worker -> Label]
    /\ local \in [Worker -> Local]

Init ==
    /\ env \in Envs /\ phase = "down" /\ life = 0 /\ crashes = 0
    /\ log = << >> /\ open = << >> /\ manifest = << >> /\ lock = NoWorker
    /\ session = {} /\ artifacts = << >> /\ ledger = << >>
    /\ calls = << >> /\ connections = {}
    /\ pc = [w \in Worker |-> "idle"] /\ local = [w \in Worker |-> NoLocal]

-----------------------------------------------------------------------------
(* The start of the server: main().                                         *)

\* verify_chain's comparison of the rows with the manifest.
Intact == Len(manifest) = Len(log) /\ (log # << >> => manifest[Len(manifest)] = Len(log))

\* Mutant of MayServe: live egress without identifiers to screen for.
MayServeUnscreened(e) == e.ledger = "remote" => e.allow_remote
MayServe(e) ==
    /\ e.ledger = "remote" => e.allow_remote
    /\ e.live => e.identifiers

Boot ==
    /\ phase # "serving"
    /\ \E e \in Envs :
        /\ env' = e
        /\ \/ Intact /\ MayServe(e) /\ phase' = "serving" /\ life' = life + 1
           \/ ~(Intact /\ MayServe(e)) /\ phase' = "refused" /\ life' = life
    /\ UNCHANGED <<crashes, audit, session, artifacts, ledger, calls, connections, pc,
                   local>>

\* What is in memory is gone: the open transaction, the session, the calls.
Crash ==
    /\ phase = "serving" /\ crashes < MaxCrashes
    /\ phase' = "down" /\ crashes' = crashes + 1
    /\ open' = << >> /\ lock' = NoWorker /\ session' = {}
    /\ calls' = [c \in DOMAIN calls |->
                    IF calls[c].status = "running" THEN [calls[c] EXCEPT !.status = "lost"]
                                                   ELSE calls[c]]
    /\ pc' = [w \in Worker |-> "idle"] /\ local' = [w \in Worker |-> NoLocal]
    /\ UNCHANGED <<env, life, log, manifest, artifacts, ledger, connections>>

-----------------------------------------------------------------------------
(* How a call goes on.                                                      *)

\* Worker w's call ends: its client is told `status`.
End(w, status) ==
    /\ pc' = [pc EXCEPT ![w] = "idle"]
    /\ local' = [local EXCEPT ![w] = NoLocal]
    /\ calls' = [calls EXCEPT ![local[w].id].status = status]

\* Worker w goes on at `label`, with the local variables l, or records a row first.
Go(w, label) == pc' = [pc EXCEPT ![w] = label] /\ UNCHANGED <<local, calls>>
GoWith(w, label, l) ==
    /\ pc' = [pc EXCEPT ![w] = label] /\ local' = [local EXCEPT ![w] = l]
    /\ UNCHANGED calls
RecordRow(w, outcome) ==
    /\ pc' = [pc EXCEPT ![w] = "record"]
    /\ local' = [local EXCEPT ![w].row = outcome]
    /\ UNCHANGED calls

\* A call begins, and has passed or failed the gates that read nothing but its
\* arguments and the session: it ends, goes on at a label, or records a row.
Start(w, tool, url, confirmed, artifact, label, row) ==
    /\ pc' = [pc EXCEPT ![w] = label]
    /\ local' = [local EXCEPT ![w] = [NoLocal EXCEPT !.id = Len(calls) + 1, !.row = row,
                                      !.cur = url, !.artifact = artifact]]
    /\ calls' = Append(calls, [tool |-> tool, url |-> url, confirmed |-> confirmed,
                               life |-> life, status |-> "running", final |-> url,
                               artifact |-> 0])

StartAndEnd(w, tool, url, status) ==
    /\ calls' = Append(calls, [tool |-> tool, url |-> url, confirmed |-> TRUE,
                               life |-> life, status |-> status, final |-> url,
                               artifact |-> 0])
    /\ UNCHANGED <<pc, local>>

MayStart(w) == phase = "serving" /\ pc[w] = "idle" /\ Len(calls) < MaxCalls

-----------------------------------------------------------------------------
(* EgressAudit.record: one row, under the audit's lock, with no rollback.   *)

RecordInsert(w) ==
    /\ pc[w] = "record" /\ lock = NoWorker
    /\ lock' = w /\ open' = Append(open, [call |-> local[w].id, outcome |-> local[w].row])
    /\ Go(w, "commit")
    /\ UNCHANGED <<process, log, manifest, session, artifacts, ledger, connections>>

RecordCommit(w) ==
    /\ pc[w] = "commit"
    /\ log' = log \o open /\ open' = << >>
    /\ Go(w, "attest")
    /\ UNCHANGED <<process, manifest, lock, session, artifacts, ledger, connections>>

\* Mutant of CommitFails: the audit is best effort, the call goes on.
CommitFailsIgnored(w) ==
    /\ pc[w] = "commit" /\ "commit" \in Faults
    /\ lock' = NoWorker
    /\ IF local[w].row = "attempt (live)" THEN Go(w, "hop") ELSE End(w, local[w].row)
    /\ UNCHANGED <<process, log, open, manifest, session, artifacts, ledger, connections>>
\* The exception leaves record() and the tool: the client gets a masked error.  The
\* transaction stays open, or SQLite has rolled it back itself.
CommitFails(w) ==
    /\ pc[w] = "commit" /\ "commit" \in Faults
    /\ lock' = NoWorker /\ open' \in {open, << >>}
    /\ End(w, "masked error")
    /\ UNCHANGED <<process, log, manifest, session, artifacts, ledger, connections>>

\* What follows a row: the attempt's connection, the success's session entry, or the
\* error that the row's outcome names.
AfterRow(w) ==
    \/ local[w].row = "attempt (live)" /\ Go(w, "hop")
    \/ local[w].row = "ok" /\ Go(w, "remember")
    \/ local[w].row = "attempt" /\ End(w, "no connector")
    \/ /\ local[w].row \notin {"attempt (live)", "ok", "attempt"}
       /\ End(w, local[w].row)

RecordAttest(w) ==
    /\ pc[w] = "attest"
    /\ manifest' = Append(manifest, Len(log)) /\ lock' = NoWorker
    /\ AfterRow(w)
    /\ UNCHANGED <<process, log, open, session, artifacts, ledger, connections>>

AttestFails(w) ==
    /\ pc[w] = "attest" /\ "attest" \in Faults
    /\ lock' = NoWorker
    /\ End(w, "masked error")
    /\ UNCHANGED <<process, log, open, manifest, session, artifacts, ledger, connections>>

-----------------------------------------------------------------------------
(* search, reverse_image_search and get_map_tile.                           *)

\* _screen: does the outgoing text carry an identifier?
Screened(text) == env.identifiers /\ text \in Sensitive

Search(w) ==
    /\ MayStart(w)
    /\ \E text \in Url :
        Start(w, "connector", text, TRUE, 0, "record",
              IF Screened(text) THEN "blocked (screen)" ELSE "attempt")
    /\ UNCHANGED <<process, audit, session, artifacts, ledger, connections>>

\* The connectors that need the analyst's consent, and the image they would upload.
ReverseImageSearch(w) ==
    /\ MayStart(w)
    /\ \E confirmed \in BOOLEAN, a \in 1 .. Len(artifacts) + 1 :
        \/ ~confirmed /\ Start(w, "connector", NoLocal.cur, FALSE, a, "record",
                               "blocked (confirmation required)")
        \/ /\ confirmed /\ a > Len(artifacts)
           /\ StartAndEnd(w, "connector", NoLocal.cur, "unknown artifact")
        \/ /\ confirmed /\ a <= Len(artifacts)
           /\ Start(w, "connector", NoLocal.cur, TRUE, a, "record", "attempt")
    /\ UNCHANGED <<process, audit, session, artifacts, ledger, connections>>

GetMapTile(w) ==
    /\ MayStart(w)
    /\ \E confirmed \in BOOLEAN :
        Start(w, "connector", NoLocal.cur, confirmed, 0, "record",
              IF confirmed THEN "attempt" ELSE "blocked (confirmation required)")
    /\ UNCHANGED <<process, audit, session, artifacts, ledger, connections>>

-----------------------------------------------------------------------------
(* fetch.                                                                   *)

\* The consent or provenance gate, then the screen.
Fetch(w) ==
    /\ MayStart(w)
    /\ \E url \in Url, confirmed \in BOOLEAN :
        \/ /\ ~(url \in session \/ confirmed)
           /\ Start(w, "fetch", url, confirmed, 0, "record",
                    "blocked (confirmation required)")
        \/ /\ url \in session \/ confirmed
           /\ IF Screened(url)
              THEN Start(w, "fetch", url, confirmed, 0, "record", "blocked (screen)")
              ELSE Start(w, "fetch", url, confirmed, 0, "guard", "attempt")
    /\ UNCHANGED <<process, audit, session, artifacts, ledger, connections>>

\* validate_url of a host that DNS resolves to `ips`.
Validates(ips) == ips # {} /\ ips \cap Internal = {}

\* The validation before anything is fetched, and the row that says what comes next.
Guard(w) ==
    /\ pc[w] = "guard" /\ local[w].cur \notin Malformed
    /\ \E ips \in SUBSET (Public \cup Internal) :
        RecordRow(w, CASE ~Validates(ips) -> "blocked (pre-fetch guard)"
                       [] Validates(ips) /\ env.live -> "attempt (live)"
                       [] OTHER -> "attempt (live off)")
    /\ UNCHANGED <<process, audit, session, artifacts, ledger, connections>>

\* urlsplit raises ValueError, which no handler of fetch names.
Escapes(w) ==
    /\ pc[w] \in {"guard", "hop"} /\ local[w].cur \in Malformed
    /\ End(w, "masked error")
    /\ UNCHANGED <<process, audit, session, artifacts, ledger, connections>>

\* Mutant of Hop: a host that resolves to nothing is not refused, and `pinned` stays None.
HopUnresolved(w) ==
    /\ pc[w] = "hop" /\ local[w].cur \notin Malformed
    /\ \E ips \in SUBSET (Public \cup Internal) :
        IF ips \cap Internal = {}
        THEN \E ip \in IF ips = {} THEN {"None"} ELSE ips :
                 GoWith(w, "connect", [local[w] EXCEPT !.ip = ip])
        ELSE RecordRow(w, "blocked (fetch guard)")
    /\ UNCHANGED <<process, audit, session, artifacts, ledger, connections>>
\* fetch_pinned validates every URL it is about to ask, the first one again, and pins
\* one of the addresses of this resolution.
Hop(w) ==
    /\ pc[w] = "hop" /\ local[w].cur \notin Malformed
    /\ \E ips \in SUBSET (Public \cup Internal) :
        IF Validates(ips)
        THEN \E ip \in ips : GoWith(w, "connect", [local[w] EXCEPT !.ip = ip])
        ELSE RecordRow(w, "blocked (fetch guard)")
    /\ UNCHANGED <<process, audit, session, artifacts, ledger, connections>>

\* Mutant of Connect: the host is resolved once more.
ConnectByName(w) ==
    /\ pc[w] = "connect"
    /\ \E ip \in Public \cup Internal :
        connections' = connections \cup {[call |-> local[w].id, ip |-> ip]}
    /\ Go(w, "response")
    /\ UNCHANGED <<process, audit, session, artifacts, ledger>>
Connect(w) ==
    /\ pc[w] = "connect"
    /\ connections' = connections \cup {[call |-> local[w].id, ip |-> local[w].ip]}
    /\ Go(w, "response")
    /\ UNCHANGED <<process, audit, session, artifacts, ledger>>

\* Mutant of NetworkFails: only EgressError is caught and recorded.
NetworkFailsUnrecorded(w) ==
    /\ pc[w] = "response"
    /\ End(w, "error (network/TLS)")
    /\ UNCHANGED <<process, audit, session, artifacts, ledger, connections>>
\* A time-out, a refused connection, a TLS or an HTTP error.
NetworkFails(w) ==
    /\ pc[w] = "response"
    /\ RecordRow(w, "error (network/TLS)")
    /\ UNCHANGED <<process, audit, session, artifacts, ledger, connections>>

\* Mutant of Redirect: hops are not counted.
RedirectForEver(w) ==
    /\ pc[w] = "response"
    /\ \E u \in Url : GoWith(w, "hop", [local[w] EXCEPT !.cur = u])
    /\ UNCHANGED <<process, audit, session, artifacts, ledger, connections>>
Redirect(w) ==
    /\ pc[w] = "response"
    /\ IF local[w].hops + 1 > MaxRedirects
       THEN RecordRow(w, "blocked (fetch guard)")
       ELSE \E u \in Url :
                GoWith(w, "hop", [local[w] EXCEPT !.cur = u, !.hops = local[w].hops + 1])
    /\ UNCHANGED <<process, audit, session, artifacts, ledger, connections>>

\* The final answer: too large, or a body to keep.
Oversize(w) ==
    /\ pc[w] = "response"
    /\ RecordRow(w, "blocked (fetch guard)")
    /\ UNCHANGED <<process, audit, session, artifacts, ledger, connections>>
\* Mutant of Receive: the URL has provenance before its success is stored and recorded.
ReceiveAndRemember(w) ==
    /\ pc[w] = "response"
    /\ \E b \in Body : GoWith(w, "store", [local[w] EXCEPT !.body = b])
    /\ session' = session \cup {local[w].cur}
    /\ UNCHANGED <<process, audit, artifacts, ledger, connections>>
Receive(w) ==
    /\ pc[w] = "response"
    /\ \E b \in Body : GoWith(w, "store", [local[w] EXCEPT !.body = b])
    /\ UNCHANGED <<process, audit, session, artifacts, ledger, connections>>

\* Mutant of Store: the success is recorded and the body thrown away.
StoreNothing(w) ==
    /\ pc[w] = "store"
    /\ RecordRow(w, "ok")
    /\ UNCHANGED <<process, audit, session, artifacts, ledger, connections>>
\* ArtifactStore.put: a fresh token each time.
Store(w) ==
    /\ pc[w] = "store"
    /\ artifacts' = Append(artifacts, local[w].body)
    /\ calls' = [calls EXCEPT ![local[w].id].artifact = Len(artifacts) + 1]
    /\ local' = [local EXCEPT ![w].row = "ok"]
    /\ pc' = [pc EXCEPT ![w] = "record"]
    /\ UNCHANGED <<process, audit, session, ledger, connections>>
\* OSError in put: no handler, hence no row of an outcome.
StoreFails(w) ==
    /\ pc[w] = "store" /\ "put" \in Faults
    /\ End(w, "masked error")
    /\ UNCHANGED <<process, audit, session, artifacts, ledger, connections>>

Remember(w) ==
    /\ pc[w] = "remember"
    /\ session' = session \cup {local[w].cur}
    /\ calls' = [calls EXCEPT ![local[w].id].status = "ok",
                              ![local[w].id].final = local[w].cur]
    /\ pc' = [pc EXCEPT ![w] = "idle"] /\ local' = [local EXCEPT ![w] = NoLocal]
    /\ UNCHANGED <<process, audit, artifacts, ledger, connections>>

-----------------------------------------------------------------------------
(* propose_to_ledger.                                                       *)

\* The artifact is read, and its bytes are on their way.
ProposeStarts(w, a) ==
    /\ pc' = [pc EXCEPT ![w] = "propose"]
    /\ local' = [local EXCEPT ![w] = [NoLocal EXCEPT !.id = Len(calls) + 1, !.artifact = a,
                                                     !.body = artifacts[a]]]
    /\ calls' = Append(calls, [tool |-> "propose", url |-> NoLocal.cur, confirmed |-> TRUE,
                               life |-> life, status |-> "running",
                               final |-> NoLocal.cur, artifact |-> a])

Propose(w) ==
    /\ MayStart(w)
    /\ \E a \in 1 .. Len(artifacts) + 1 :
        \/ /\ a > Len(artifacts)
           /\ StartAndEnd(w, "propose", NoLocal.cur, "unknown artifact")
        \/ /\ a <= Len(artifacts) /\ env.ledger = "none"
           /\ StartAndEnd(w, "propose", NoLocal.cur, "no ledger")
        \/ a <= Len(artifacts) /\ env.ledger # "none" /\ ProposeStarts(w, a)
    /\ UNCHANGED <<process, audit, session, artifacts, ledger, connections>>

\* The request arrives and the ledger adds the evidence.
LedgerAdds(w) ==
    /\ pc[w] = "propose"
    /\ ledger' = Append(ledger, [call |-> local[w].id, artifact |-> local[w].artifact,
                                 sha |-> local[w].body])
    /\ Go(w, "answer")
    /\ UNCHANGED <<process, audit, session, artifacts, connections>>

\* The ledger refuses, or the request never arrives.
LedgerRefuses(w) ==
    /\ pc[w] = "propose"
    /\ \E status \in {"ledger error", "transport error"} : End(w, status)
    /\ UNCHANGED <<process, audit, session, artifacts, ledger, connections>>

\* Mutant of Answered: a lost answer is answered by asking again.
AnsweredOrRetried(w) ==
    /\ pc[w] = "answer"
    /\ \/ End(w, "proposed")
       \/ Go(w, "propose")
    /\ UNCHANGED <<process, audit, session, artifacts, ledger, connections>>
\* The evidence is there; the answer names it, is lost, is an error of what the ledger
\* does after its commit, or has no usable content.
Answered(w) ==
    /\ pc[w] = "answer"
    /\ \E status \in {"proposed", "transport error", "ledger error", "bad answer"} :
        End(w, status)
    /\ UNCHANGED <<process, audit, session, artifacts, ledger, connections>>

-----------------------------------------------------------------------------
Begin(w) ==
    \/ Search(w) \/ ReverseImageSearch(w) \/ GetMapTile(w) \/ Fetch(w) \/ Propose(w)
Continue(w) ==
    \/ RecordInsert(w) \/ RecordCommit(w) \/ CommitFails(w) \/ RecordAttest(w)
    \/ AttestFails(w)
    \/ Guard(w) \/ Escapes(w) \/ Hop(w) \/ Connect(w) \/ NetworkFails(w) \/ Redirect(w)
    \/ Oversize(w) \/ Receive(w) \/ Store(w) \/ StoreFails(w) \/ Remember(w)
    \/ LedgerAdds(w) \/ LedgerRefuses(w) \/ Answered(w)

Next == Boot \/ Crash \/ \E w \in Worker : Begin(w) \/ Continue(w)

Spec == Init /\ [][Next]_vars

\* A thread inside a call runs on: DNS, sockets (15 s), the ledger's client and SQLite
\* return or raise.  Nothing is said of new calls, of starts or of crashes.
FairSpec == Spec /\ \A w \in Worker : WF_vars(Continue(w))

-----------------------------------------------------------------------------
(* Properties.                                                              *)

Attested(i) == \E j \in DOMAIN manifest : manifest[j] = i

\* The rows of call c have the outcomes s, in this order.
RowsAre(rows, c, s) ==
    \E at \in [DOMAIN s -> DOMAIN rows] :
        /\ \A j, k \in DOMAIN s : j < k => at[j] < at[k]
        /\ \A j \in DOMAIN s : rows[at[j]] = [call |-> c, outcome |-> s[j]]
        /\ \A i \in DOMAIN rows : rows[i].call = c => \E j \in DOMAIN s : at[j] = i

\* No connection is made before the row of its attempt is committed and attested,
\* whatever fails or dies in the audit (server.py:190-194).
AttemptPrecedesConnection ==
    \A c \in connections :
        \E i \in DOMAIN log :
            log[i] = [call |-> c.call, outcome |-> "attempt (live)"] /\ Attested(i)

\* Only addresses that the guard allows are connected to, on every hop and however DNS
\* answers between the validations (egress.py:171-173); and no fetch that was asked for
\* with an identifier in its URL connects, in whatever environment the server was started
\* (server.py:90-99 with the gate of main, 440-448).
OnlyGuardedConnections ==
    \A c \in connections : c.ip \in Public /\ calls[c.call].url \notin Sensitive

\* The row that comes before one with this outcome, and which rows a call leaves that
\* ended as `status`.
Before(outcome) ==
    IF outcome \in {"ok", "blocked (fetch guard)", "error (network/TLS)"}
    THEN <<"attempt (live)">> ELSE << >>
RowsFor(status) ==
    CASE status = "no connector" -> <<"attempt">>
      [] status \in Outcome -> Append(Before(status), status)
      [] OTHER -> << >>

\* What a client is told is what the audit says: a call that ended with an answer or a
\* named error has left exactly the rows of that end, in order, all of them attested
\* (server.py:102-122 and 190-212).  Only masked errors and crashes are exempt.  And a row
\* that says "ok" has its artifact, even if the process died right after it (211-212).
EndsAsRecorded ==
    /\ \A c \in DOMAIN calls :
        calls[c].status \notin {"running", "lost", "masked error"} =>
            /\ RowsAre(log, c, RowsFor(calls[c].status))
            /\ \A i \in DOMAIN log : log[i].call = c => Attested(i)
    /\ \A i \in DOMAIN log :
        log[i].outcome = "ok" => calls[log[i].call].artifact \in DOMAIN artifacts

\* An unconfirmed fetch connects only on behalf of a URL that an earlier call of the
\* same process fetched to its end, with its attested "ok" row (server.py:162-167, 213).
UnconfirmedFollowsOk ==
    \A c \in connections :
        \/ calls[c.call].confirmed
        \/ \E d \in 1 .. c.call - 1 :
               /\ calls[d].status = "ok" /\ calls[d].life = calls[c.call].life
               /\ calls[d].final = calls[c.call].url
               /\ \E i \in DOMAIN log :
                      log[i] = [call |-> d, outcome |-> "ok"] /\ Attested(i)

\* Evidence names the bytes its artifact still has, and one call adds it at most once,
\* even when the answer is lost (server.py:343-376).
ProposalsAreTrue ==
    /\ \A i \in DOMAIN ledger : artifacts[ledger[i].artifact] = ledger[i].sha
    /\ \A i, j \in DOMAIN ledger : i # j => ledger[i].call # ledger[j].call
    /\ \A c \in DOMAIN calls : calls[c].status = "proposed" =>
           \E i \in DOMAIN ledger : ledger[i].call = c

\* Every call comes to an end, even if the remote host redirects for ever
\* (egress.py:174-179).
CallsEnd ==
    \A c \in 1 .. MaxCalls :
        (c \in DOMAIN calls /\ calls[c].status = "running")
            ~> (c \in DOMAIN calls /\ calls[c].status # "running")
=============================================================================
