------------------------- MODULE EgressCalls_proofs -------------------------
(***************************************************************************)
(* Proofs that no connection is made without its attested row, its guard   *)
(* and its consent, that a call ends as its rows say, and that proposals   *)
(* are true, whatever DNS, remote hosts, the ledger, failures and crashes  *)
(* do.                                                                     *)
(***************************************************************************)
EXTENDS EgressCallsInductive, SequenceTheorems, TLAPS

-----------------------------------------------------------------------------
(* Facts about the data.                                                    *)

\* The placeholder of an idle worker is typed.
LEMMA NoLocalType == NoLocal \in Local
<1>1. (CHOOSE u \in Url : TRUE) \in Url
  BY EgressAssumption
<1>2. (CHOOSE a \in Public : TRUE) \in Public
  BY EgressAssumption
<1>3. (CHOOSE b \in Body : TRUE) \in Body
  BY EgressAssumption
<1>. QED  BY <1>1, <1>2, <1>3 DEF NoLocal, Local, Outcome

\* What TypeOK says of one worker and one call.
LEMMA Typed ==
    ASSUME TypeOK
    PROVE  /\ \A w \in Worker : pc[w] \in Label /\ local[w] \in Local
           /\ Len(calls) \in Nat /\ DOMAIN calls = 1 .. Len(calls)
           /\ \A c \in DOMAIN calls : calls[c] \in CallRecord
           /\ Len(log) \in Nat /\ DOMAIN log = 1 .. Len(log)
           /\ \A i \in DOMAIN log : log[i] \in Row
           /\ Len(open) \in Nat /\ DOMAIN open = 1 .. Len(open)
           /\ \A i \in DOMAIN open : open[i] \in Row
           /\ Len(manifest) \in Nat /\ DOMAIN manifest = 1 .. Len(manifest)
           /\ Len(artifacts) \in Nat /\ DOMAIN artifacts = 1 .. Len(artifacts)
           /\ \A a \in DOMAIN artifacts : artifacts[a] \in Body
           /\ Len(ledger) \in Nat /\ DOMAIN ledger = 1 .. Len(ledger)
BY LenProperties, ElementOfSeq DEF TypeOK

\* A call's fields change; what it was stays.
LEMMA CallExcept ==
    ASSUME TypeOK, NEW c \in DOMAIN calls, NEW r \in CallRecord,
           calls' = [calls EXCEPT ![c] = r]
    PROVE  /\ calls' \in Seq(CallRecord) /\ DOMAIN calls' = DOMAIN calls
           /\ Len(calls') = Len(calls)
           /\ calls'[c] = r /\ \A d \in DOMAIN calls \ {c} : calls'[d] = calls[d]
<1>1. calls \in Seq(CallRecord) /\ c \in 1 .. Len(calls)
  BY LenProperties DEF TypeOK
<1>. QED  BY <1>1, ExceptSeq

\* How a call's end changes its record.
LEMMA EndCalls ==
    ASSUME TypeOK, NEW w \in Worker, Active(w), CallInv(w),
           NEW status \in Outcome \cup Unrecorded, End(w, status)
    PROVE  /\ calls' \in Seq(CallRecord) /\ DOMAIN calls' = DOMAIN calls
           /\ Len(calls') = Len(calls)
           /\ calls'[local[w].id] = [calls[local[w].id] EXCEPT !.status = status]
           /\ \A d \in DOMAIN calls \ {local[w].id} : calls'[d] = calls[d]
           /\ pc' \in [Worker -> Label] /\ pc'[w] = "idle"
           /\ local' \in [Worker -> Local] /\ local'[w] = NoLocal
           /\ \A v \in Worker \ {w} : pc'[v] = pc[v] /\ local'[v] = local[v]
<1> DEFINE r == [calls[local[w].id] EXCEPT !.status = status]
<1>1. local[w].id \in DOMAIN calls
  BY DEF CallInv
<1>2. r \in CallRecord
  BY <1>1, Typed DEF CallRecord
<1>3. calls' = [calls EXCEPT ![local[w].id] = r]
  BY DEF End
<1>4. pc' \in [Worker -> Label] /\ local' \in [Worker -> Local]
  BY NoLocalType DEF End, TypeOK, Label
<1>. HIDE DEF r
<1>5. /\ calls' \in Seq(CallRecord) /\ DOMAIN calls' = DOMAIN calls
      /\ Len(calls') = Len(calls)
      /\ calls'[local[w].id] = r
      /\ \A d \in DOMAIN calls \ {local[w].id} : calls'[d] = calls[d]
  BY <1>1, <1>2, <1>3, CallExcept
<1>6. /\ pc'[w] = "idle" /\ local'[w] = NoLocal
      /\ \A v \in Worker \ {w} : pc'[v] = pc[v] /\ local'[v] = local[v]
  BY DEF End, TypeOK
<1>. QED  BY <1>4, <1>5, <1>6 DEF r

\* A call that begins is the last one.
LEMMA NewCall ==
    ASSUME TypeOK, NEW r \in CallRecord, calls' = Append(calls, r)
    PROVE  /\ calls' \in Seq(CallRecord) /\ Len(calls') = Len(calls) + 1
           /\ DOMAIN calls' = 1 .. Len(calls) + 1 /\ DOMAIN calls \subseteq DOMAIN calls'
           /\ Len(calls) + 1 \in DOMAIN calls' /\ Len(calls) + 1 \notin DOMAIN calls
           /\ calls'[Len(calls) + 1] = r
           /\ \A d \in DOMAIN calls : calls'[d] = calls[d]
<1>1. calls \in Seq(CallRecord) /\ Len(calls) \in Nat /\ DOMAIN calls = 1 .. Len(calls)
  BY Typed DEF TypeOK
<1>2. /\ calls' \in Seq(CallRecord) /\ Len(calls') = Len(calls) + 1
      /\ calls'[Len(calls) + 1] = r
      /\ \A d \in 1 .. Len(calls) : calls'[d] = calls[d]
  BY <1>1, AppendProperties
<1>3. DOMAIN calls' = 1 .. Len(calls')
  BY <1>2, LenProperties
<1>. QED  BY <1>1, <1>2, <1>3

-----------------------------------------------------------------------------
(* What a step of one worker may do to the calls and to the other workers.  *)

Others(w) ==
    /\ UNCHANGED process
    /\ \A v \in Worker \ {w} : pc'[v] = pc[v] /\ local'[v] = local[v]
    /\ DOMAIN calls \subseteq DOMAIN calls'
    /\ \A c \in DOMAIN calls :
          ~(Active(w) /\ c = local[w].id) => calls'[c] = calls[c]

\* Its call goes on, ends, or is a new one.
GoesOn(w) ==
    /\ Active(w) /\ Active(w)' /\ local'[w].id = local[w].id
    /\ DOMAIN calls' = DOMAIN calls
    /\ \/ calls'[local[w].id] = calls[local[w].id]
       \/ /\ Len(artifacts) + 1 \in DOMAIN artifacts'
          /\ calls'[local[w].id] =
                [calls[local[w].id] EXCEPT !.artifact = Len(artifacts) + 1]

Ends(w) ==
    /\ Active(w) /\ ~Active(w)'
    /\ DOMAIN calls' = DOMAIN calls
    /\ \E status \in (Outcome \cup Unrecorded) \ {"running"}, u \in Url :
          calls'[local[w].id] = [calls[local[w].id] EXCEPT !.status = status, !.final = u]

Begins(w) ==
    /\ ~Active(w) /\ phase = "serving"
    /\ DOMAIN calls' = 1 .. Len(calls) + 1 /\ DOMAIN calls = 1 .. Len(calls)
    /\ calls'[Len(calls) + 1].life = life
    /\ IF Active(w)'
       THEN /\ local'[w].id = Len(calls) + 1
            /\ calls'[Len(calls) + 1].status = "running"
       ELSE calls'[Len(calls) + 1].status \in {"unknown artifact", "no ledger"}

\* The part of TypeOK about calls and workers.
RunOK ==
    /\ calls \in Seq(CallRecord) /\ pc \in [Worker -> Label]
    /\ local \in [Worker -> Local]

LEMMA StartStep ==
    ASSUME TypeOK, NEW w \in Worker, MayStart(w), UNCHANGED process,
           NEW tool \in {"fetch", "connector", "propose"}, NEW url \in Url,
           NEW confirmed \in BOOLEAN, NEW artifact \in Nat,
           NEW label \in Label \ {"idle"}, NEW row \in Outcome,
           Start(w, tool, url, confirmed, artifact, label, row)
    PROVE  RunOK' /\ Others(w) /\ Begins(w)
<1> DEFINE r == [tool |-> tool, url |-> url, confirmed |-> confirmed, life |-> life,
                 status |-> "running", final |-> url, artifact |-> 0]
           l == [NoLocal EXCEPT !.id = Len(calls) + 1, !.row = row, !.cur = url,
                                !.artifact = artifact]
<1>1. r \in CallRecord
  BY DEF TypeOK, CallRecord, Unrecorded
<1>2. calls' = Append(calls, r) /\ pc' = [pc EXCEPT ![w] = label]
      /\ local' = [local EXCEPT ![w] = l]
  BY DEF Start
<1>3. l \in Local /\ l.id = Len(calls) + 1
  <2>1. Len(calls) + 1 \in Nat
    BY Typed
  <2>. QED  BY <2>1, NoLocalType DEF Local
<1>4. r.status = "running" /\ r.life = life
  OBVIOUS
<1> HIDE DEF r, l
<1>5. RunOK'
  BY <1>1, <1>2, <1>3, NewCall DEF RunOK, TypeOK
<1>6. Others(w)
  BY <1>1, <1>2, <1>3, NewCall DEF Others, TypeOK
<1>7. Active(w)' /\ local'[w] = l
  BY <1>2 DEF Active, TypeOK
<1>8. Begins(w)
  BY <1>1, <1>2, <1>3, <1>4, <1>7, NewCall, Typed DEF Begins, MayStart, Active
<1>. QED  BY <1>5, <1>6, <1>8

LEMMA StartAndEndStep ==
    ASSUME TypeOK, NEW w \in Worker, MayStart(w), UNCHANGED process,
           NEW tool \in {"fetch", "connector", "propose"}, NEW url \in Url,
           NEW status \in {"unknown artifact", "no ledger"},
           StartAndEnd(w, tool, url, status)
    PROVE  RunOK' /\ Others(w) /\ Begins(w)
<1> DEFINE r == [tool |-> tool, url |-> url, confirmed |-> TRUE, life |-> life,
                 status |-> status, final |-> url, artifact |-> 0]
<1>1. r \in CallRecord
  BY DEF TypeOK, CallRecord, Unrecorded
<1>2. calls' = Append(calls, r) /\ UNCHANGED <<pc, local>>
  BY DEF StartAndEnd
<1>3. r.status = status /\ r.life = life
  OBVIOUS
<1> HIDE DEF r
<1>4. RunOK'
  BY <1>1, <1>2, NewCall DEF RunOK, TypeOK
<1>5. Others(w)
  BY <1>1, <1>2, NewCall DEF Others, TypeOK
<1>6. Begins(w)
  BY <1>1, <1>2, <1>3, NewCall, Typed DEF Begins, MayStart, Active
<1>. QED  BY <1>4, <1>5, <1>6

LEMMA ProposeStep ==
    ASSUME TypeOK, NEW w \in Worker, MayStart(w), UNCHANGED process,
           NEW a \in 1 .. Len(artifacts) + 1, a <= Len(artifacts), ProposeStarts(w, a)
    PROVE  RunOK' /\ Others(w) /\ Begins(w)
<1> DEFINE r == [tool |-> "propose", url |-> NoLocal.cur, confirmed |-> TRUE,
                 life |-> life, status |-> "running", final |-> NoLocal.cur,
                 artifact |-> a]
           l == [NoLocal EXCEPT !.id = Len(calls) + 1, !.artifact = a,
                                !.body = artifacts[a]]
<1>0. a \in Nat /\ a \in DOMAIN artifacts /\ Len(calls) + 1 \in Nat
  BY Typed
<1>1. r \in CallRecord
  BY <1>0, NoLocalType DEF TypeOK, CallRecord, Unrecorded, Local
<1>2. calls' = Append(calls, r) /\ pc' = [pc EXCEPT ![w] = "propose"]
      /\ local' = [local EXCEPT ![w] = l]
  BY DEF ProposeStarts
<1>3. l \in Local /\ l.id = Len(calls) + 1
  <2>1. artifacts[a] \in Body
    BY <1>0, Typed
  <2>. QED  BY <1>0, <2>1, NoLocalType DEF Local
<1>4. r.status = "running" /\ r.life = life
  OBVIOUS
<1> HIDE DEF r, l
<1>5. RunOK'
  BY <1>1, <1>2, <1>3, NewCall DEF RunOK, TypeOK, Label
<1>6. Others(w)
  BY <1>1, <1>2, <1>3, NewCall DEF Others, TypeOK
<1>7. Active(w)' /\ local'[w] = l
  BY <1>2 DEF Active, TypeOK
<1>8. Begins(w)
  BY <1>1, <1>2, <1>3, <1>4, <1>7, NewCall, Typed DEF Begins, MayStart, Active
<1>. QED  BY <1>5, <1>6, <1>8

\* What the variables around the calls keep of TypeOK.
RestOK ==
    /\ env \in Env /\ phase \in {"down", "serving", "refused"} /\ life \in Nat
    /\ log \in Seq(Row) /\ open \in Seq(Row) /\ manifest \in Seq(Nat)
    /\ lock \in Worker \cup {NoWorker}
    /\ session \subseteq Url /\ artifacts \in Seq(Body)
    /\ ledger \in Seq([call : Nat, artifact : Nat, sha : Body])
    /\ connections \subseteq [call : Nat, ip : Public \cup Internal]

LEMMA TypeParts == TypeOK <=> RunOK /\ RestOK
BY DEF TypeOK, RunOK, RestOK

LEMMA BeginStep ==
    ASSUME TypeOK, NEW w \in Worker, Begin(w)
    PROVE  TypeOK' /\ Others(w) /\ Begins(w)
<1>0. NoLocal.cur \in Url /\ {"idle", "record", "guard", "propose"} \subseteq Label
  BY NoLocalType DEF Local, Label
<1>1. UNCHANGED <<process, audit, session, artifacts, ledger, connections>> /\ MayStart(w)
  BY DEF Begin, Search, ReverseImageSearch, GetMapTile, Fetch, Propose
<1>2. RestOK'
  BY <1>1, TypeParts DEF RestOK, process, audit
<1>3. RunOK' /\ Others(w) /\ Begins(w)
  <2>1. CASE Search(w)
    <3>1. PICK text \in Url :
            Start(w, "connector", text, TRUE, 0, "record",
                  IF Screened(text) THEN "blocked (screen)" ELSE "attempt")
      BY <2>1 DEF Search
    <3>2. (IF Screened(text) THEN "blocked (screen)" ELSE "attempt") \in Outcome
      BY DEF Outcome
    <3>. QED  BY <1>0, <1>1, <3>1, <3>2, StartStep
  <2>2. CASE ReverseImageSearch(w)
    <3>1. PICK confirmed \in BOOLEAN, a \in 1 .. Len(artifacts) + 1 :
            \/ Start(w, "connector", NoLocal.cur, FALSE, a, "record",
                     "blocked (confirmation required)")
            \/ StartAndEnd(w, "connector", NoLocal.cur, "unknown artifact")
            \/ Start(w, "connector", NoLocal.cur, TRUE, a, "record", "attempt")
      BY <2>2 DEF ReverseImageSearch
    <3>2. a \in Nat
      BY Typed
    <3>3. {"blocked (confirmation required)", "attempt"} \subseteq Outcome
      BY DEF Outcome
    <3>. QED  BY <1>0, <1>1, <3>1, <3>2, <3>3, StartStep, StartAndEndStep
  <2>3. CASE GetMapTile(w)
    <3>1. PICK confirmed \in BOOLEAN :
            Start(w, "connector", NoLocal.cur, confirmed, 0, "record",
                  IF confirmed THEN "attempt" ELSE "blocked (confirmation required)")
      BY <2>3 DEF GetMapTile
    <3>2. (IF confirmed THEN "attempt" ELSE "blocked (confirmation required)") \in Outcome
      BY DEF Outcome
    <3>. QED  BY <1>0, <1>1, <3>1, <3>2, StartStep
  <2>4. CASE Fetch(w)
    <3>1. PICK url \in Url, confirmed \in BOOLEAN :
            \/ Start(w, "fetch", url, confirmed, 0, "record",
                     "blocked (confirmation required)")
            \/ Start(w, "fetch", url, confirmed, 0, "record", "blocked (screen)")
            \/ Start(w, "fetch", url, confirmed, 0, "guard", "attempt")
      BY <2>4 DEF Fetch
    <3>2. {"blocked (confirmation required)", "blocked (screen)", "attempt"}
             \subseteq Outcome
      BY DEF Outcome
    <3>. QED  BY <1>0, <1>1, <3>1, <3>2, StartStep
  <2>5. CASE Propose(w)
    <3>1. PICK a \in 1 .. Len(artifacts) + 1 :
            \/ StartAndEnd(w, "propose", NoLocal.cur, "unknown artifact")
            \/ StartAndEnd(w, "propose", NoLocal.cur, "no ledger")
            \/ /\ a <= Len(artifacts)
               /\ ProposeStarts(w, a)
      BY <2>5, Typed DEF Propose
    <3>2. ASSUME a <= Len(artifacts), ProposeStarts(w, a)
          PROVE  RunOK' /\ Others(w) /\ Begins(w)
      BY <1>1, <3>2, ProposeStep
    <3>3. ASSUME NEW status \in {"unknown artifact", "no ledger"},
                 StartAndEnd(w, "propose", NoLocal.cur, status)
          PROVE  RunOK' /\ Others(w) /\ Begins(w)
      BY <1>0, <1>1, <3>3, StartAndEndStep
    <3>. QED  BY <3>1, <3>2, <3>3
  <2>. QED  BY <2>1, <2>2, <2>3, <2>4, <2>5 DEF Begin
<1>. QED  BY <1>2, <1>3 DEF TypeOK, RunOK, RestOK

\* How worker w's call goes on or ends: its label, its local variables, its record.
LEMMA EndStep ==
    ASSUME TypeOK, NEW w \in Worker, Active(w), CallInv(w), UNCHANGED process,
           NEW status \in (Outcome \cup Unrecorded) \ {"running"}, End(w, status)
    PROVE  RunOK' /\ Others(w) /\ Ends(w)
<1> DEFINE id == local[w].id
           r == [calls[id] EXCEPT !.status = status]
<1>1. id \in DOMAIN calls /\ calls[id] \in CallRecord
  BY Typed DEF CallInv
<1>2. r = [calls[id] EXCEPT !.status = status, !.final = calls[id].final]
      /\ calls[id].final \in Url
  BY <1>1 DEF CallRecord
<1>3. calls'[id] = r
  BY EndCalls
<1>4. RunOK'
  BY EndCalls DEF RunOK
<1>5. Others(w)
  BY EndCalls DEF Others
<1>6. DOMAIN calls' = DOMAIN calls /\ ~Active(w)'
  BY EndCalls DEF Active
<1>7. Ends(w)
  BY <1>2, <1>3, <1>6 DEF Ends
<1>. QED  BY <1>4, <1>5, <1>7

LEMMA GoStep ==
    ASSUME TypeOK, NEW w \in Worker, Active(w), CallInv(w), UNCHANGED process,
           NEW label \in Label \ {"idle"}, NEW l \in Local, l.id = local[w].id,
           GoWith(w, label, l)
    PROVE  RunOK' /\ Others(w) /\ GoesOn(w)
BY DEF GoWith, RunOK, Others, GoesOn, TypeOK, Active

LEMMA GoLabel ==
    ASSUME TypeOK, NEW w \in Worker, Active(w), CallInv(w), UNCHANGED process,
           NEW label \in Label \ {"idle"}, Go(w, label)
    PROVE  RunOK' /\ Others(w) /\ GoesOn(w)
BY DEF Go, RunOK, Others, GoesOn, TypeOK, Active

LEMMA RecordStep ==
    ASSUME TypeOK, NEW w \in Worker, Active(w), CallInv(w), UNCHANGED process,
           NEW outcome \in Outcome, RecordRow(w, outcome)
    PROVE  RunOK' /\ Others(w) /\ GoesOn(w)
<1> DEFINE l == [local[w] EXCEPT !.row = outcome]
<1>1. l \in Local /\ l.id = local[w].id
  BY Typed DEF Local
<1>2. "record" \in Label \ {"idle"}
  BY DEF Label
<1>3. GoWith(w, "record", l)
  BY DEF RecordRow, GoWith
<1>. QED  BY <1>1, <1>2, <1>3, GoStep

LEMMA AuditStepTypes ==
    ASSUME TypeOK, NEW w \in Worker, Active(w), CallInv(w),
           \/ RecordInsert(w) \/ RecordCommit(w) \/ CommitFails(w) \/ RecordAttest(w)
           \/ AttestFails(w)
    PROVE  TypeOK' /\ Others(w) /\ (GoesOn(w) \/ Ends(w))
<1>0. /\ {"hop", "remember", "commit", "attest"} \subseteq Label \ {"idle"}
      /\ {"no connector", "masked error"} \subseteq
             (Outcome \cup Unrecorded) \ {"running"}
      /\ local[w].row \in Outcome
      /\ local[w].row \in (Outcome \cup Unrecorded) \ {"running"}
      /\ local[w].id \in Nat
  BY Typed DEF Label, Outcome, Unrecorded, Local
<1>1. UNCHANGED <<process, session, artifacts, ledger, connections>>
  BY DEF RecordInsert, RecordCommit, CommitFails, RecordAttest, AttestFails
<1>2. RestOK'
  <2>1. CASE RecordInsert(w)
    <3>1. RowOf(w) \in Row
      BY <1>0 DEF RowOf, Row
    <3>2. Append(open, RowOf(w)) \in Seq(Row)
      BY <3>1, AppendProperties DEF TypeOK
    <3>. QED  BY <1>1, <2>1, <3>2 DEF RecordInsert, RowOf, RestOK, TypeOK, process
  <2>2. CASE RecordCommit(w)
    <3>1. log \o open \in Seq(Row) /\ << >> \in Seq(Row)
      BY ConcatProperties, EmptySeq DEF TypeOK
    <3>. QED  BY <1>1, <2>2, <3>1 DEF RecordCommit, RestOK, TypeOK, process
  <2>3. CASE CommitFails(w)
    <3>1. open' \in Seq(Row)
      BY <2>3, EmptySeq DEF CommitFails, TypeOK
    <3>. QED  BY <1>1, <2>3, <3>1 DEF CommitFails, RestOK, TypeOK, process
  <2>4. CASE RecordAttest(w)
    <3>1. Append(manifest, Len(log)) \in Seq(Nat)
      BY Typed, AppendProperties DEF TypeOK
    <3>. QED  BY <1>1, <2>4, <3>1 DEF RecordAttest, RestOK, TypeOK, process
  <2>5. CASE AttestFails(w)
    BY <1>1, <2>5 DEF AttestFails, RestOK, TypeOK, process
  <2>. QED  BY <2>1, <2>2, <2>3, <2>4, <2>5
<1>3. RunOK' /\ Others(w) /\ (GoesOn(w) \/ Ends(w))
  <2>1. ASSUME NEW label \in {"hop", "remember", "commit", "attest"}, Go(w, label)
        PROVE  RunOK' /\ Others(w) /\ (GoesOn(w) \/ Ends(w))
    BY <1>0, <1>1, <2>1, GoLabel
  <2>2. ASSUME NEW status \in (Outcome \cup Unrecorded) \ {"running"}, End(w, status)
        PROVE  RunOK' /\ Others(w) /\ (GoesOn(w) \/ Ends(w))
    BY <1>1, <2>2, EndStep
  <2>. QED  BY <1>0, <2>1, <2>2
            DEF RecordInsert, RecordCommit, CommitFails, RecordAttest, AttestFails, AfterRow
<1>. QED  BY <1>2, <1>3 DEF TypeOK, RunOK, RestOK

LEMMA FetchStepTypes ==
    ASSUME TypeOK, NEW w \in Worker, Active(w), CallInv(w),
           \/ Guard(w) \/ Escapes(w) \/ Hop(w) \/ Connect(w) \/ NetworkFails(w)
           \/ Redirect(w) \/ Oversize(w) \/ Receive(w) \/ Store(w) \/ StoreFails(w)
           \/ Remember(w)
    PROVE  TypeOK' /\ Others(w) /\ (GoesOn(w) \/ Ends(w))
<1>0. /\ {"hop", "connect", "response", "store", "record"} \subseteq Label \ {"idle"}
      /\ {"ok", "blocked (fetch guard)", "error (network/TLS)", "attempt (live)",
          "attempt (live off)", "blocked (pre-fetch guard)"} \subseteq Outcome
      /\ {"ok", "masked error"} \subseteq (Outcome \cup Unrecorded) \ {"running"}
      /\ local[w] \in Local /\ local[w].id \in DOMAIN calls
      /\ calls[local[w].id] \in CallRecord
  BY Typed DEF Label, Outcome, Unrecorded, CallInv
<1>1. UNCHANGED <<process, log, open, manifest, lock, ledger>>
  BY DEF Guard, Escapes, Hop, Connect, NetworkFails, Redirect, Oversize, Receive, Store,
         StoreFails, Remember, audit
<1>2. RestOK'
  <2>1. CASE Connect(w)
    <3>1. [call |-> local[w].id, ip |-> local[w].ip] \in
              [call : Nat, ip : Public \cup Internal]
      BY <1>0 DEF Local
    <3>. QED  BY <1>1, <2>1, <3>1 DEF Connect, RestOK, TypeOK, process
  <2>2. CASE Store(w)
    <3>1. Append(artifacts, local[w].body) \in Seq(Body)
      BY <1>0, AppendProperties DEF TypeOK, Local
    <3>. QED  BY <1>1, <2>2, <3>1 DEF Store, RestOK, TypeOK, process
  <2>3. CASE Remember(w)
    BY <1>0, <1>1, <2>3 DEF Remember, RestOK, TypeOK, process, Local
  <2>. QED  BY <1>1, <2>1, <2>2, <2>3
            DEF Guard, Escapes, Hop, NetworkFails, Redirect, Oversize, Receive, StoreFails,
                RestOK, TypeOK, process
<1>3. RunOK' /\ Others(w) /\ (GoesOn(w) \/ Ends(w))
  <2>1. ASSUME NEW outcome \in Outcome, RecordRow(w, outcome)
        PROVE  RunOK' /\ Others(w) /\ (GoesOn(w) \/ Ends(w))
    BY <1>1, <2>1, RecordStep
  <2>2. ASSUME NEW label \in Label \ {"idle"}, NEW l \in Local, l.id = local[w].id,
               GoWith(w, label, l)
        PROVE  RunOK' /\ Others(w) /\ (GoesOn(w) \/ Ends(w))
    BY <1>1, <2>2, GoStep
  <2>3. CASE Guard(w) \/ NetworkFails(w) \/ Oversize(w)
    BY <1>0, <2>1, <2>3 DEF Guard, NetworkFails, Oversize
  <2>4. CASE Escapes(w) \/ StoreFails(w)
    BY <1>0, <1>1, <2>4, EndStep DEF Escapes, StoreFails
  <2>5. CASE Hop(w)
    <3>1. ASSUME NEW ip \in Public \cup Internal
          PROVE  /\ [local[w] EXCEPT !.ip = ip] \in Local
                 /\ [local[w] EXCEPT !.ip = ip].id = local[w].id
      BY <1>0 DEF Local
    <3>. QED  BY <1>0, <2>1, <2>2, <2>5, <3>1 DEF Hop
  <2>6. CASE Connect(w)
    BY <1>0, <1>1, <2>6, GoLabel DEF Connect
  <2>7. CASE Redirect(w)
    <3>1. ASSUME NEW u \in Url
          PROVE  /\ [local[w] EXCEPT !.cur = u, !.hops = local[w].hops + 1] \in Local
                 /\ [local[w] EXCEPT !.cur = u, !.hops = local[w].hops + 1].id = local[w].id
      <4> DEFINE n == local[w].hops + 1
                 l == [local[w] EXCEPT !.cur = u]
      <4>1. n \in Nat
        <5>1. local[w].hops \in Nat
          BY <1>0 DEF Local
        <5>. QED  BY <5>1
      <4>2. l \in Local /\ l.id = local[w].id
        BY <1>0 DEF Local
      <4> HIDE DEF n, l
      <4>3. [l EXCEPT !.hops = n] \in Local /\ [l EXCEPT !.hops = n].id = local[w].id
        BY <4>1, <4>2 DEF Local
      <4>. QED  BY <4>3 DEF n, l
    <3>. QED  BY <1>0, <2>1, <2>2, <2>7, <3>1 DEF Redirect
  <2>8. CASE Receive(w)
    <3>1. ASSUME NEW b \in Body
          PROVE  /\ [local[w] EXCEPT !.body = b] \in Local
                 /\ [local[w] EXCEPT !.body = b].id = local[w].id
      BY <1>0 DEF Local
    <3>. QED  BY <1>0, <2>2, <2>8, <3>1 DEF Receive
  <2>9. CASE Store(w)
    <3> DEFINE r == [calls[local[w].id] EXCEPT !.artifact = Len(artifacts) + 1]
               l == [local[w] EXCEPT !.row = "ok"]
    <3>1. r \in CallRecord
      <4>1. Len(artifacts) + 1 \in Nat
        BY Typed
      <4>. QED  BY <1>0, <4>1 DEF CallRecord
    <3>2. l \in Local /\ l.id = local[w].id
      BY <1>0 DEF Local
    <3>3. calls' = [calls EXCEPT ![local[w].id] = r] /\ local' = [local EXCEPT ![w] = l]
          /\ pc' = [pc EXCEPT ![w] = "record"]
      BY <2>9 DEF Store
    <3>4. calls'[local[w].id] = [calls[local[w].id] EXCEPT !.artifact = Len(artifacts) + 1]
          /\ DOMAIN calls' = DOMAIN calls
          /\ \A d \in DOMAIN calls \ {local[w].id} : calls'[d] = calls[d]
      BY <1>0, <3>1, <3>3, CallExcept
    <3> HIDE DEF r, l
    <3>5. RunOK'
      BY <1>0, <3>1, <3>2, <3>3, CallExcept DEF RunOK, TypeOK
    <3>6. Others(w)
      BY <1>1, <3>3, <3>4 DEF Others, TypeOK
    <3>7. Len(artifacts) + 1 \in DOMAIN artifacts'
      <4>1. local[w].body \in Body /\ Len(artifacts) \in Nat
        BY <1>0, Typed DEF Local
      <4>. QED  BY <2>9, <4>1, AppendProperties, LenProperties DEF Store, TypeOK
    <3>8. GoesOn(w)
      BY <3>2, <3>3, <3>4, <3>7 DEF GoesOn, Active, TypeOK
    <3>. QED  BY <3>5, <3>6, <3>8
  <2>10. CASE Remember(w)
    <3> DEFINE r == [calls[local[w].id] EXCEPT !.status = "ok", !.final = local[w].cur]
    <3>1. r \in CallRecord /\ local[w].cur \in Url
      BY <1>0 DEF CallRecord, Local
    <3>2. calls' = [calls EXCEPT ![local[w].id] = r]
          /\ local' = [local EXCEPT ![w] = NoLocal] /\ pc' = [pc EXCEPT ![w] = "idle"]
      BY <2>10 DEF Remember
    <3>3. calls'[local[w].id] =
              [calls[local[w].id] EXCEPT !.status = "ok", !.final = local[w].cur]
          /\ DOMAIN calls' = DOMAIN calls
          /\ \A d \in DOMAIN calls \ {local[w].id} : calls'[d] = calls[d]
      BY <1>0, <3>1, <3>2, CallExcept
    <3> HIDE DEF r
    <3>4. RunOK'
      BY <1>0, <3>1, <3>2, CallExcept, NoLocalType DEF RunOK, TypeOK, Label
    <3>5. Others(w)
      BY <1>1, <3>2, <3>3 DEF Others, TypeOK
    <3>6. ~Active(w)'
      BY <3>2 DEF Active, TypeOK
    <3>7. Ends(w)
      BY <1>0, <3>1, <3>3, <3>6 DEF Ends
    <3>. QED  BY <3>4, <3>5, <3>7
  <2>. QED  BY <2>3, <2>4, <2>5, <2>6, <2>7, <2>8, <2>9, <2>10
<1>. QED  BY <1>2, <1>3 DEF TypeOK, RunOK, RestOK

LEMMA LedgerStepTypes ==
    ASSUME TypeOK, NEW w \in Worker, Active(w), CallInv(w),
           LedgerAdds(w) \/ LedgerRefuses(w) \/ Answered(w)
    PROVE  TypeOK' /\ Others(w) /\ (GoesOn(w) \/ Ends(w))
<1>0. /\ "answer" \in Label \ {"idle"} /\ local[w] \in Local
      /\ {"ledger error", "transport error", "proposed", "bad answer"} \subseteq
             (Outcome \cup Unrecorded) \ {"running"}
  BY Typed DEF Label, Outcome, Unrecorded
<1>1. UNCHANGED <<process, audit, session, artifacts, connections>>
  BY DEF LedgerAdds, LedgerRefuses, Answered
<1>2. RestOK'
  <2>1. CASE LedgerAdds(w)
    <3>1. [call |-> local[w].id, artifact |-> local[w].artifact, sha |-> local[w].body]
             \in [call : Nat, artifact : Nat, sha : Body]
      BY <1>0 DEF Local
    <3>2. ledger' \in Seq([call : Nat, artifact : Nat, sha : Body])
      BY <2>1, <3>1, AppendProperties DEF LedgerAdds, TypeOK
    <3>. QED  BY <1>1, <3>2 DEF RestOK, TypeOK, process, audit
  <2>. QED  BY <1>1, <2>1 DEF LedgerRefuses, Answered, RestOK, TypeOK, process, audit
<1>3. RunOK' /\ Others(w) /\ (GoesOn(w) \/ Ends(w))
  BY <1>0, <1>1, GoLabel, EndStep DEF LedgerAdds, LedgerRefuses, Answered
<1>. QED  BY <1>2, <1>3 DEF TypeOK, RunOK, RestOK

\* Every step of a worker, in these terms.
LEMMA WorkerStep ==
    ASSUME TypeOK, OwnInv, NEW w \in Worker, Begin(w) \/ Continue(w)
    PROVE  /\ TypeOK' /\ Others(w)
           /\ \/ Begin(w) /\ Begins(w)
              \/ Continue(w) /\ Active(w) /\ CallInv(w) /\ (GoesOn(w) \/ Ends(w))
<1>1. CASE Begin(w)
  BY <1>1, BeginStep
<1>2. CASE Continue(w)
  <2>1. Active(w)
    BY <1>2 DEF Active, Continue, RecordInsert, RecordCommit, CommitFails, RecordAttest,
            AttestFails, Guard, Escapes, Hop, Connect, NetworkFails, Redirect, Oversize,
            Receive, Store, StoreFails, Remember, LedgerAdds, LedgerRefuses, Answered
  <2>2. CallInv(w)
    BY <2>1 DEF OwnInv
  <2>. QED  BY <1>2, <2>1, <2>2, AuditStepTypes, FetchStepTypes, LedgerStepTypes
            DEF Continue
<1>. QED  BY <1>1, <1>2

\* A crash ends the running calls and leaves the others.
LEMMA CrashCalls ==
    ASSUME TypeOK, Crash
    PROVE  /\ TypeOK'
           /\ DOMAIN calls' = DOMAIN calls
           /\ \A c \in DOMAIN calls :
                 calls'[c] = IF calls[c].status = "running"
                             THEN [calls[c] EXCEPT !.status = "lost"] ELSE calls[c]
           /\ phase' = "down" /\ session' = {} /\ \A w \in Worker : ~Active(w)'
<1> DEFINE Ended(c) == IF calls[c].status = "running"
                       THEN [calls[c] EXCEPT !.status = "lost"] ELSE calls[c]
<1>1. calls' = [c \in 1 .. Len(calls) |-> Ended(c)] /\ Len(calls) \in Nat
  BY Typed DEF Crash
<1>2. ASSUME NEW c \in 1 .. Len(calls) PROVE Ended(c) \in CallRecord
  <2>1. calls[c] \in CallRecord
    BY Typed
  <2>. QED  BY <2>1 DEF CallRecord, Unrecorded
<1>3. DOMAIN calls' = DOMAIN calls /\ \A c \in DOMAIN calls : calls'[c] = Ended(c)
  BY <1>1, Typed
<1> HIDE DEF Ended
<1>4. calls' \in Seq(CallRecord)
  BY <1>1, <1>2, IsASeq
<1>5. RunOK'
  BY <1>4, NoLocalType DEF RunOK, Crash, Label
<1>6. RestOK'
  BY EmptySeq DEF Crash, RestOK, TypeOK
<1>. QED  BY <1>3, <1>5, <1>6 DEF TypeOK, RunOK, RestOK, Ended, Crash, Active

LEMMA BootStep ==
    ASSUME TypeOK, ServesInv, Boot
    PROVE  /\ TypeOK' /\ ServesInv'
           /\ session = {} /\ \A w \in Worker : ~Active(w) /\ ~Active(w)'
BY EgressAssumption DEF Boot, TypeOK, ServesInv, Active, audit

-----------------------------------------------------------------------------
(* History: what a step may do to what was written.                         *)

Grows(s, t) == \A i \in DOMAIN s : i \in DOMAIN t /\ t[i] = s[i]

\* Rows, lines, artifacts and evidence are only added; a call keeps what it was asked,
\* and, once it has ended, how it ended.
History ==
    /\ Grows(log, log') /\ Grows(manifest, manifest')
    /\ Grows(artifacts, artifacts') /\ Grows(ledger, ledger')
    /\ \A c \in DOMAIN calls :
          /\ c \in DOMAIN calls'
          /\ calls'[c].url = calls[c].url /\ calls'[c].confirmed = calls[c].confirmed
          /\ calls'[c].life = calls[c].life
          /\ calls[c].status # "running" => calls'[c] = calls[c]

LEMMA GrowsAppend ==
    ASSUME NEW S, NEW s \in Seq(S), NEW e \in S
    PROVE  Grows(s, Append(s, e)) /\ Grows(s, s)
<1>1. DOMAIN s = 1 .. Len(s) /\ Len(s) \in Nat
  BY LenProperties
<1>2. /\ DOMAIN Append(s, e) = 1 .. Len(s) + 1
      /\ \A i \in 1 .. Len(s) : Append(s, e)[i] = s[i]
  BY AppendProperties, LenProperties
<1>. QED  BY <1>1, <1>2 DEF Grows

LEMMA GrowsConcat ==
    ASSUME NEW S, NEW s \in Seq(S), NEW t \in Seq(S)
    PROVE  Grows(s, s \o t)
<1>1. DOMAIN s = 1 .. Len(s) /\ Len(s) \in Nat /\ Len(t) \in Nat
  BY LenProperties
<1>2. /\ DOMAIN (s \o t) = 1 .. Len(s) + Len(t)
      /\ \A i \in 1 .. Len(s) + Len(t) :
            (s \o t)[i] = IF i <= Len(s) THEN s[i] ELSE t[i - Len(s)]
  BY ConcatProperties, LenProperties
<1>. QED  BY <1>1, <1>2 DEF Grows

LEMMA CallHistory ==
    ASSUME TypeOK, NEW w \in Worker, Others(w),
           Begins(w) \/ (Active(w) /\ CallInv(w) /\ (GoesOn(w) \/ Ends(w)))
    PROVE  \A c \in DOMAIN calls :
              /\ c \in DOMAIN calls'
              /\ calls'[c].url = calls[c].url /\ calls'[c].confirmed = calls[c].confirmed
              /\ calls'[c].life = calls[c].life
              /\ calls[c].status # "running" => calls'[c] = calls[c]
<1> SUFFICES ASSUME NEW c \in DOMAIN calls
             PROVE  /\ c \in DOMAIN calls'
                    /\ calls'[c].url = calls[c].url
                    /\ calls'[c].confirmed = calls[c].confirmed
                    /\ calls'[c].life = calls[c].life
                    /\ calls[c].status # "running" => calls'[c] = calls[c]
  OBVIOUS
<1>1. CASE ~(Active(w) /\ c = local[w].id)
  BY <1>1 DEF Others
<1>2. CASE Active(w) /\ c = local[w].id
  <2>1. calls[c] \in CallRecord /\ calls[c].status = "running" /\ c \in DOMAIN calls'
    BY <1>2, Typed DEF CallInv, Others, Begins
  <2>2. CASE GoesOn(w)
    BY <1>2, <2>1, <2>2 DEF GoesOn, CallRecord
  <2>3. CASE Ends(w)
    BY <1>2, <2>1, <2>3 DEF Ends, CallRecord
  <2>. QED  BY <1>2, <2>2, <2>3 DEF Begins
<1>. QED  BY <1>1, <1>2

LEMMA StepHistory ==
    ASSUME TypeOK, OwnInv, Next
    PROVE  History
<1>0. /\ Grows(log, log) /\ Grows(manifest, manifest) /\ Grows(artifacts, artifacts)
      /\ Grows(ledger, ledger)
  BY DEF Grows
<1>1. CASE Boot
  BY <1>0, <1>1 DEF Boot, History, audit
<1>2. CASE Crash
  <2>1. \A c \in DOMAIN calls : calls[c] \in CallRecord
    BY Typed
  <2>. QED  BY <1>0, <1>2, <2>1, CrashCalls DEF Crash, History, CallRecord
<1>3. ASSUME NEW w \in Worker, Begin(w) \/ Continue(w) PROVE History
  <2>1. Grows(log, log')
    <3>1. CASE RecordCommit(w)
      BY <3>1, GrowsConcat DEF RecordCommit, TypeOK
    <3>. QED  BY <1>0, <1>3, <3>1
              DEF Begin, Search, ReverseImageSearch, GetMapTile, Fetch, Propose, Continue,
                  RecordInsert, CommitFails, RecordAttest, AttestFails, Guard, Escapes,
                  Hop, Connect, NetworkFails, Redirect, Oversize, Receive, Store,
                  StoreFails, Remember, LedgerAdds, LedgerRefuses, Answered, audit
  <2>2. Grows(manifest, manifest')
    <3>1. CASE RecordAttest(w)
      BY <3>1, GrowsAppend, Typed DEF RecordAttest, TypeOK
    <3>. QED  BY <1>0, <1>3, <3>1
              DEF Begin, Search, ReverseImageSearch, GetMapTile, Fetch, Propose, Continue,
                  RecordInsert, RecordCommit, CommitFails, AttestFails, Guard, Escapes,
                  Hop, Connect, NetworkFails, Redirect, Oversize, Receive, Store,
                  StoreFails, Remember, LedgerAdds, LedgerRefuses, Answered, audit
  <2>3. Grows(artifacts, artifacts')
    <3>1. CASE Store(w)
      <4>1. local[w].body \in Body
        BY Typed DEF Local
      <4>. QED  BY <3>1, <4>1, GrowsAppend DEF Store, TypeOK
    <3>. QED  BY <1>0, <1>3, <3>1
              DEF Begin, Search, ReverseImageSearch, GetMapTile, Fetch, Propose, Continue,
                  RecordInsert, RecordCommit, CommitFails, RecordAttest, AttestFails,
                  Guard, Escapes, Hop, Connect, NetworkFails, Redirect, Oversize, Receive,
                  StoreFails, Remember, LedgerAdds, LedgerRefuses, Answered
  <2>4. Grows(ledger, ledger')
    <3>1. CASE LedgerAdds(w)
      <4>1. [call |-> local[w].id, artifact |-> local[w].artifact, sha |-> local[w].body]
               \in [call : Nat, artifact : Nat, sha : Body]
        BY Typed DEF Local
      <4>. QED  BY <3>1, <4>1, GrowsAppend DEF LedgerAdds, TypeOK
    <3>. QED  BY <1>0, <1>3, <3>1
              DEF Begin, Search, ReverseImageSearch, GetMapTile, Fetch, Propose, Continue,
                  RecordInsert, RecordCommit, CommitFails, RecordAttest, AttestFails,
                  Guard, Escapes, Hop, Connect, NetworkFails, Redirect, Oversize, Receive,
                  Store, StoreFails, Remember, LedgerRefuses, Answered
  <2>. QED  BY <1>3, <2>1, <2>2, <2>3, <2>4, WorkerStep, CallHistory DEF History
<1>. QED  BY <1>1, <1>2, <1>3 DEF Next

-----------------------------------------------------------------------------
(* A worker's call and its lock.                                            *)

\* The lock is taken by the INSERT, and kept to the manifest line.
LEMMA LockStep ==
    ASSUME TypeOK, OwnInv, NEW w \in Worker, Begin(w) \/ Continue(w)
    PROVE  \A v \in Worker : pc'[v] \in {"commit", "attest"} => lock' = v
<1>1. \A v \in Worker : pc[v] \in {"commit", "attest"} => lock = v
  BY DEF OwnInv, CallInv, Active
<1>2. lock # w => pc[w] \notin {"commit", "attest"}
  BY <1>1
<1>3. \A v \in Worker \ {w} : pc'[v] = pc[v]
  BY WorkerStep DEF Others
<1>4. CASE RecordInsert(w)
  BY <1>1, <1>3, <1>4, EgressAssumption DEF RecordInsert
<1>5. CASE RecordCommit(w)
  BY <1>1, <1>3, <1>5 DEF RecordCommit
<1>6. CASE CommitFails(w) \/ RecordAttest(w) \/ AttestFails(w)
  <2>1. pc[w] \in {"commit", "attest"}
    BY <1>6 DEF CommitFails, RecordAttest, AttestFails
  <2>2. pc'[w] \notin {"commit", "attest"}
    BY <1>6 DEF CommitFails, RecordAttest, AttestFails, AfterRow, End, Go, TypeOK
  <2>. QED  BY <1>1, <1>3, <2>1, <2>2
<1>7. CASE UNCHANGED lock /\ pc'[w] \notin {"commit", "attest"}
  BY <1>1, <1>3, <1>7
<1>8. CASE Begin(w)
  BY <1>7, <1>8 DEF Begin, Search, ReverseImageSearch, GetMapTile, Fetch, Propose, Start,
          StartAndEnd, ProposeStarts, MayStart, TypeOK, audit
<1>9. CASE \/ Guard(w) \/ Escapes(w) \/ Hop(w) \/ Connect(w) \/ NetworkFails(w)
           \/ Redirect(w) \/ Oversize(w) \/ Receive(w) \/ Store(w) \/ StoreFails(w)
           \/ Remember(w) \/ LedgerAdds(w) \/ LedgerRefuses(w) \/ Answered(w)
  BY <1>7, <1>9 DEF Guard, Escapes, Hop, Connect, NetworkFails, Redirect, Oversize, Receive,
          Store, StoreFails, Remember, LedgerAdds, LedgerRefuses, Answered, RecordRow, Go,
          GoWith, End, TypeOK, audit
<1>. QED  BY <1>4, <1>5, <1>6, <1>8, <1>9 DEF Continue

LEMMA OwnStep ==
    ASSUME TypeOK, OwnInv, ServesInv, [Next]_vars
    PROVE  TypeOK' /\ OwnInv' /\ ServesInv'
<1>1. CASE UNCHANGED vars
  BY <1>1 DEF vars, process, audit, TypeOK, OwnInv, ServesInv, CallInv, Active, MayServe
<1>2. CASE Boot
  BY <1>2, BootStep DEF OwnInv
<1>3. CASE Crash
  BY <1>3, CrashCalls DEF OwnInv, ServesInv
<1>4. ASSUME NEW w \in Worker, Begin(w) \/ Continue(w)
      PROVE  TypeOK' /\ OwnInv' /\ ServesInv'
  <2>0. TypeOK' /\ Others(w) /\ UNCHANGED <<env, phase, life>>
    BY <1>4, WorkerStep DEF Others, process
  <2>1. /\ phase = "serving"
        /\ \/ Begins(w)
           \/ Active(w) /\ CallInv(w) /\ (GoesOn(w) \/ Ends(w))
    BY <1>4, WorkerStep DEF Begins, ServesInv
  <2>2. ServesInv'
    BY <2>0, <2>1 DEF ServesInv, MayServe
  <2>3. ASSUME NEW v \in Worker, v # w, Active(v)'
        PROVE  /\ Active(v) /\ CallInv(v)' /\ local'[v].id = local[v].id
               /\ local[v].id \in DOMAIN calls
    <3>1. /\ Active(v) /\ local'[v] = local[v]
      BY <2>0, <2>3 DEF Others, Active
    <3>2. /\ CallInv(v) /\ ~(Active(w) /\ local[v].id = local[w].id)
      BY <2>3, <3>1 DEF OwnInv
    <3>3. calls'[local[v].id] = calls[local[v].id] /\ local[v].id \in DOMAIN calls'
      BY <2>0, <3>2 DEF Others, CallInv
    <3>4. pc'[v] \in {"commit", "attest"} => lock' = v
      BY <1>4, LockStep
    <3>. QED  BY <2>0, <3>1, <3>2, <3>3, <3>4 DEF CallInv
  <2>4. ASSUME Active(w)'
        PROVE  /\ CallInv(w)'
               /\ \/ Active(w) /\ local'[w].id = local[w].id
                  \/ local'[w].id \notin DOMAIN calls
    <3>1. pc'[w] \in {"commit", "attest"} => lock' = w
      BY <1>4, LockStep
    <3>2. CASE Begins(w)
      <4>1. Len(calls) \in Nat
        BY Typed
      <4>. QED  BY <2>0, <2>4, <3>1, <3>2, <4>1 DEF Begins, CallInv
    <3>3. CASE Active(w) /\ CallInv(w) /\ GoesOn(w)
      <4>1. calls[local[w].id] \in CallRecord
        BY <3>3, Typed DEF CallInv
      <4>. QED  BY <2>0, <3>1, <3>3, <4>1 DEF GoesOn, CallInv, CallRecord
    <3>. QED  BY <2>1, <2>4, <3>2, <3>3 DEF Ends
  <2>5. ASSUME NEW u \in Worker, NEW v \in Worker, Active(u)', Active(v)', u # v
        PROVE  local'[u].id # local'[v].id
    BY <2>3, <2>4, <2>5 DEF OwnInv
  <2>6. OwnInv'
    BY <2>3, <2>4, <2>5 DEF OwnInv
  <2>. QED  BY <2>0, <2>2, <2>6
<1>. QED  BY <1>1, <1>2, <1>3, <1>4 DEF Next

-----------------------------------------------------------------------------
(* The rows of a call.                                                      *)

\* Where the rows of a longer log come from.
LEMMA ConcatRows ==
    ASSUME NEW rows \in Seq(Row), NEW more \in Seq(Row), NEW i \in DOMAIN (rows \o more)
    PROVE  \/ i \in DOMAIN rows /\ (rows \o more)[i] = rows[i]
           \/ /\ i \notin DOMAIN rows /\ i - Len(rows) \in DOMAIN more
              /\ (rows \o more)[i] = more[i - Len(rows)]
<1>1. /\ DOMAIN rows = 1 .. Len(rows) /\ Len(rows) \in Nat
      /\ DOMAIN more = 1 .. Len(more) /\ Len(more) \in Nat
      /\ i \in 1 .. Len(rows) + Len(more)
      /\ (rows \o more)[i] = IF i <= Len(rows) THEN rows[i] ELSE more[i - Len(rows)]
  BY ConcatProperties, LenProperties
<1>2. CASE i <= Len(rows)
  BY <1>1, <1>2
<1>3. CASE i > Len(rows)
  BY <1>1, <1>3
<1>. QED  BY <1>1, <1>2, <1>3

LEMMA RowsAreNone ==
    ASSUME NEW rows \in Seq(Row), NEW c, \A i \in DOMAIN rows : rows[i].call # c
    PROVE  RowsAre(rows, c, << >>)
<1> DEFINE at == [j \in {} |-> 1]
<1>1. DOMAIN << >> = {}
  OBVIOUS
<1>2. at \in [{} -> DOMAIN rows]
  OBVIOUS
<1>. QED  BY <1>1, <1>2 DEF RowsAre

\* Rows of other calls change nothing.
LEMMA RowsAreKept ==
    ASSUME NEW rows \in Seq(Row), NEW more \in Seq(Row), NEW c, NEW s,
           RowsAre(rows, c, s), \A i \in DOMAIN more : more[i].call # c
    PROVE  RowsAre(rows \o more, c, s)
<1>1. /\ DOMAIN rows = 1 .. Len(rows) /\ Len(rows) \in Nat
      /\ DOMAIN more = 1 .. Len(more) /\ Len(more) \in Nat
      /\ DOMAIN (rows \o more) = 1 .. Len(rows) + Len(more)
      /\ \A i \in 1 .. Len(rows) + Len(more) :
            (rows \o more)[i] = IF i <= Len(rows) THEN rows[i] ELSE more[i - Len(rows)]
  BY ConcatProperties, LenProperties
<1>2. PICK at \in [DOMAIN s -> DOMAIN rows] :
        /\ \A j, k \in DOMAIN s : j < k => at[j] < at[k]
        /\ \A j \in DOMAIN s : rows[at[j]] = [call |-> c, outcome |-> s[j]]
        /\ \A i \in DOMAIN rows : rows[i].call = c => \E j \in DOMAIN s : at[j] = i
  BY DEF RowsAre
<1>3. at \in [DOMAIN s -> DOMAIN (rows \o more)]
  BY <1>1, <1>2
<1>4. \A j \in DOMAIN s : (rows \o more)[at[j]] = [call |-> c, outcome |-> s[j]]
  BY <1>1, <1>2
<1>5. ASSUME NEW i \in DOMAIN (rows \o more), (rows \o more)[i].call = c
      PROVE  \E j \in DOMAIN s : at[j] = i
  <2>1. i \in DOMAIN rows /\ rows[i].call = c
    <3>1. CASE i > Len(rows)
      <4>1. i - Len(rows) \in DOMAIN more /\ (rows \o more)[i] = more[i - Len(rows)]
        BY <1>1, <1>5, <3>1
      <4>. QED  BY <1>5, <4>1
    <3>. QED  BY <1>1, <1>5, <3>1
  <2>. QED  BY <1>2, <2>1
<1>. QED  BY <1>2, <1>3, <1>4, <1>5 DEF RowsAre

\* The last of the new rows is the call's, and the only one.
LEMMA RowsAreMore ==
    ASSUME NEW rows \in Seq(Row), NEW more \in Seq(Row), NEW c, NEW s \in Seq(Outcome),
           NEW o \in Outcome, RowsAre(rows, c, s),
           more # << >>, Last(more) = [call |-> c, outcome |-> o],
           \A i \in DOMAIN more : i # Len(more) => more[i].call # c
    PROVE  RowsAre(rows \o more, c, Append(s, o))
<1> DEFINE all == rows \o more
           n == Len(rows) + Len(more)
           m == Len(s)
<1>1. /\ DOMAIN rows = 1 .. Len(rows) /\ Len(rows) \in Nat
      /\ DOMAIN more = 1 .. Len(more) /\ Len(more) \in Nat \ {0}
      /\ DOMAIN all = 1 .. n
      /\ \A i \in 1 .. n :
            all[i] = IF i <= Len(rows) THEN rows[i] ELSE more[i - Len(rows)]
  BY ConcatProperties, LenProperties, EmptySeq
<1>2. /\ m \in Nat /\ DOMAIN s = 1 .. m
      /\ DOMAIN Append(s, o) = 1 .. m + 1
      /\ \A j \in 1 .. m : Append(s, o)[j] = s[j]
      /\ Append(s, o)[m + 1] = o
  BY LenProperties, AppendProperties
<1>3. PICK at \in [DOMAIN s -> DOMAIN rows] :
        /\ \A j, k \in DOMAIN s : j < k => at[j] < at[k]
        /\ \A j \in DOMAIN s : rows[at[j]] = [call |-> c, outcome |-> s[j]]
        /\ \A i \in DOMAIN rows : rows[i].call = c => \E j \in DOMAIN s : at[j] = i
  BY DEF RowsAre
<1> DEFINE to == [j \in 1 .. m + 1 |-> IF j <= m THEN at[j] ELSE n]
<1> HIDE DEF all, n, m
<1>4. n = Len(rows) + Len(more) /\ n \in Nat /\ n > Len(rows)
  BY <1>1 DEF n
<1>5. to \in [DOMAIN Append(s, o) -> DOMAIN all]
  BY <1>1, <1>2, <1>3, <1>4
<1>6. \A j, k \in 1 .. m + 1 : j < k => to[j] < to[k]
  <2> SUFFICES ASSUME NEW j \in 1 .. m + 1, NEW k \in 1 .. m + 1, j < k
               PROVE  to[j] < to[k]
    OBVIOUS
  <2>1. j \in 1 .. m /\ to[j] = at[j] /\ at[j] \in 1 .. Len(rows)
    BY <1>1, <1>2, <1>3
  <2>2. CASE k <= m
    <3>1. k \in 1 .. m /\ to[k] = at[k]
      BY <1>2, <2>2
    <3>. QED  BY <1>2, <1>3, <2>1, <3>1
  <2>3. CASE k > m
    <3>1. to[k] = n
      BY <1>2, <2>3
    <3>. QED  BY <1>1, <1>4, <2>1, <3>1
  <2>. QED  BY <1>2, <2>2, <2>3
<1>7. ASSUME NEW j \in 1 .. m + 1
      PROVE  all[to[j]] = [call |-> c, outcome |-> Append(s, o)[j]]
  <2>1. CASE j <= m
    <3>1. j \in 1 .. m /\ to[j] = at[j] /\ at[j] \in 1 .. Len(rows)
      BY <1>1, <1>2, <1>3, <2>1
    <3>2. all[at[j]] = rows[at[j]]
      BY <1>1, <1>4, <3>1
    <3>. QED  BY <1>2, <1>3, <3>1, <3>2
  <2>2. CASE j > m
    <3>1. j = m + 1 /\ to[j] = n
      BY <1>2, <2>2
    <3>2. all[n] = more[Len(more)]
      BY <1>1, <1>4
    <3>. QED  BY <1>2, <3>1, <3>2 DEF Last
  <2>. QED  BY <1>2, <2>1, <2>2
<1>8. ASSUME NEW i \in DOMAIN all, all[i].call = c
      PROVE  \E j \in 1 .. m + 1 : to[j] = i
  <2>1. CASE i <= Len(rows)
    <3>1. i \in DOMAIN rows /\ rows[i].call = c
      BY <1>1, <1>8, <2>1
    <3>2. PICK j \in DOMAIN s : at[j] = i
      BY <1>3, <3>1
    <3>3. j \in 1 .. m + 1 /\ to[j] = i
      BY <1>2, <3>2
    <3>. QED  BY <3>3
  <2>2. CASE i > Len(rows)
    <3>1. i - Len(rows) \in DOMAIN more /\ all[i] = more[i - Len(rows)]
      BY <1>1, <1>4, <2>2
    <3>2. i - Len(rows) = Len(more)
      BY <1>8, <3>1
    <3>3. i = n
      BY <1>1, <1>4, <3>2
    <3>4. m + 1 \in 1 .. m + 1 /\ to[m + 1] = n
      BY <1>2
    <3>. QED  BY <3>3, <3>4
  <2>. QED  BY <1>1, <1>4, <2>1, <2>2
<1> DEFINE t == Append(s, o)
<1>9. /\ to \in [DOMAIN t -> DOMAIN all]
      /\ \A j, k \in DOMAIN t : j < k => to[j] < to[k]
      /\ \A j \in DOMAIN t : all[to[j]] = [call |-> c, outcome |-> t[j]]
      /\ \A i \in DOMAIN all : all[i].call = c => \E j \in DOMAIN t : to[j] = i
  BY <1>2, <1>5, <1>6, <1>7, <1>8
<1> HIDE DEF to, t
<1>10. RowsAre(all, c, t)
  BY <1>9 DEF RowsAre
<1>. QED  BY <1>10 DEF all, t

LEMMA RowsForFacts ==
    /\ \A o \in Outcome \ {"attempt", "attempt (live)"} : RowsFor(o) = Append(Before(o), o)
    /\ RowsFor("no connector") = Append(Before("attempt"), "attempt")
    /\ Append(Before("attempt (live)"), "attempt (live)") = <<"attempt (live)">>
    /\ \A o \in Outcome : Before(o) \in Seq(Outcome)
    /\ \A status \in {"unknown artifact", "no ledger", "ledger error", "transport error",
                       "bad answer", "proposed"} : RowsFor(status) = << >>
<1>1. Append(<< >>, "attempt (live)") = <<"attempt (live)">>
      /\ Append(<< >>, "attempt") = <<"attempt">>
  OBVIOUS
<1>2. <<"attempt (live)">> \in Seq(Outcome) /\ << >> \in Seq(Outcome)
  BY DEF Outcome
<1>. QED  BY <1>1, <1>2 DEF RowsFor, Before, Outcome

\* The values of SoFar, label by label.
LEMMA SoFarFacts ==
    ASSUME NEW w \in Worker
    PROVE  /\ pc[w] \in {"record", "commit"} => SoFar(w) = Before(local[w].row)
           /\ pc[w] = "attest" => SoFar(w) = Append(Before(local[w].row), local[w].row)
           /\ pc[w] \in {"hop", "connect", "response", "store"} =>
                 SoFar(w) = <<"attempt (live)">>
           /\ pc[w] = "remember" => SoFar(w) = RowsFor("ok")
           /\ pc[w] \in {"idle", "guard", "propose", "answer"} => SoFar(w) = << >>
BY DEF SoFar

LEMMA SoFarFactsNext ==
    ASSUME NEW w \in Worker
    PROVE  /\ pc'[w] \in {"record", "commit"} => SoFar(w)' = Before(local'[w].row)
           /\ pc'[w] = "attest" =>
                 SoFar(w)' = Append(Before(local'[w].row), local'[w].row)
           /\ pc'[w] \in {"hop", "connect", "response", "store"} =>
                 SoFar(w)' = <<"attempt (live)">>
           /\ pc'[w] = "remember" => SoFar(w)' = RowsFor("ok")
           /\ pc'[w] \in {"idle", "guard", "propose", "answer"} => SoFar(w)' = << >>
BY DEF SoFar

-----------------------------------------------------------------------------
(* The audit: what the rows say of the calls.                               *)

\* What a worker's step leaves for the audit when it writes nothing there.
Quiet(w) ==
    /\ UNCHANGED <<log, open, manifest, lock>>
    /\ pc[w] \notin {"commit", "attest"} /\ pc'[w] \notin {"commit", "attest"}
    /\ Active(w)' => SoFar(w)' = SoFar(w)
    /\ ~Active(w)' => \/ calls'[local[w].id].status = "masked error"
                      \/ RowsFor(calls'[local[w].id].status) = SoFar(w)
    /\ pc'[w] \in Recording => HasArtifact(RowOf(w))'

\* A recorded row.
LEMMA RecordedRow ==
    ASSUME TypeOK, NEW w \in Worker, NEW o \in Outcome, RecordRow(w, o)
    PROVE  /\ pc'[w] = "record" /\ local'[w].row = o /\ SoFar(w)' = Before(o)
           /\ local'[w].id = local[w].id
           /\ o # "ok" => HasArtifact(RowOf(w))'
<1>1. local[w] \in Local
  BY Typed
<1>2. pc'[w] = "record" /\ local'[w].row = o /\ local'[w].id = local[w].id
  BY <1>1 DEF RecordRow, TypeOK, Local
<1>. QED  BY <1>2, SoFarFactsNext DEF HasArtifact, RowOf

LEMMA EndStatus ==
    ASSUME TypeOK, NEW w \in Worker, Active(w), CallInv(w),
           NEW status \in Outcome \cup Unrecorded, End(w, status)
    PROVE  pc'[w] = "idle" /\ calls'[local[w].id].status = status
<1>1. calls[local[w].id] \in CallRecord
  BY Typed DEF CallInv
<1>2. /\ pc'[w] = "idle"
      /\ calls'[local[w].id] = [calls[local[w].id] EXCEPT !.status = status]
  BY EndCalls
<1>. HIDE DEF Active, CallInv, End
<1>3. [calls[local[w].id] EXCEPT !.status = status].status = status
  BY <1>1 DEF CallRecord
<1>. QED  BY <1>2, <1>3

LEMMA FetchIsQuiet ==
    ASSUME TypeOK, NEW w \in Worker, Active(w), CallInv(w),
           \/ Guard(w) \/ Escapes(w) \/ Hop(w) \/ Connect(w) \/ NetworkFails(w)
           \/ Redirect(w) \/ Oversize(w) \/ Receive(w) \/ Store(w) \/ StoreFails(w)
           \/ Remember(w)
    PROVE  Quiet(w)
<1>0. /\ {"ok", "blocked (fetch guard)", "error (network/TLS)", "attempt (live)",
          "attempt (live off)", "blocked (pre-fetch guard)"} \subseteq Outcome
      /\ "masked error" \in Unrecorded
      /\ local[w] \in Local /\ local[w].id \in DOMAIN calls
      /\ calls[local[w].id] \in CallRecord
  BY Typed DEF Outcome, Unrecorded, CallInv
<1>1. UNCHANGED <<log, open, manifest, lock>>
  BY DEF Guard, Escapes, Hop, Connect, NetworkFails, Redirect, Oversize, Receive, Store,
         StoreFails, Remember, audit
<1>a. ASSUME NEW o \in Outcome \ {"ok"}, RecordRow(w, o), SoFar(w) = Before(o),
             pc[w] \notin {"commit", "attest"}
      PROVE  Quiet(w)
  BY <1>1, <1>a, RecordedRow DEF Quiet, Active
<1>b. ASSUME NEW from \in {"hop", "connect", "response", "store"}, pc[w] = from,
             NEW to \in {"hop", "connect", "response", "store"}, pc'[w] = to
      PROVE  Quiet(w)
  BY <1>1, <1>b, SoFarFacts, SoFarFactsNext DEF Quiet, Active, Recording
<1>c. ASSUME End(w, "masked error"), pc[w] \notin {"commit", "attest"}
      PROVE  Quiet(w)
  BY <1>0, <1>1, <1>c, EndStatus DEF Quiet, Active, Recording
<1>1a. CASE Guard(w)
  <2>1. Before("blocked (pre-fetch guard)") = << >> /\ Before("attempt (live)") = << >>
        /\ Before("attempt (live off)") = << >> /\ SoFar(w) = << >>
    BY <1>1a, SoFarFacts DEF Before, Guard
  <2>2. pc[w] = "guard"
        /\ \E o \in {"blocked (pre-fetch guard)", "attempt (live)", "attempt (live off)"} :
              RecordRow(w, o)
    BY <1>1a DEF Guard
  <2>. QED  BY <1>0, <1>a, <2>1, <2>2
<1>2. CASE Escapes(w) \/ StoreFails(w)
  BY <1>2, <1>c DEF Escapes, StoreFails
<1>3. CASE \/ NetworkFails(w) \/ Oversize(w)
           \/ Hop(w) /\ RecordRow(w, "blocked (fetch guard)")
           \/ Redirect(w) /\ RecordRow(w, "blocked (fetch guard)")
  <2>1. pc[w] \in {"hop", "response"}
    BY <1>3 DEF NetworkFails, Oversize, Hop, Redirect
  <2>2. SoFar(w) = <<"attempt (live)">>
    BY <2>1, SoFarFacts
  <2>3. Before("blocked (fetch guard)") = <<"attempt (live)">>
        /\ Before("error (network/TLS)") = <<"attempt (live)">>
    BY DEF Before
  <2>. QED  BY <1>0, <1>3, <1>a, <2>1, <2>2, <2>3 DEF NetworkFails, Oversize
<1>4. CASE Hop(w) /\ ~RecordRow(w, "blocked (fetch guard)")
  BY <1>4, <1>b DEF Hop, GoWith, TypeOK
<1>5. CASE Redirect(w) /\ ~RecordRow(w, "blocked (fetch guard)")
  BY <1>5, <1>b DEF Redirect, GoWith, TypeOK
<1>6. CASE Connect(w)
  BY <1>6, <1>b DEF Connect, Go, TypeOK
<1>7. CASE Receive(w)
  BY <1>7, <1>b DEF Receive, GoWith, TypeOK
<1>8. CASE Store(w)
  <2>1. pc[w] = "store" /\ pc'[w] = "record" /\ local'[w].row = "ok"
        /\ local'[w].id = local[w].id
    BY <1>0, <1>8 DEF Store, TypeOK, Local
  <2>2. SoFar(w)' = SoFar(w)
    BY <2>1, SoFarFacts, SoFarFactsNext DEF Before
  <2>3. calls'[local[w].id].artifact = Len(artifacts) + 1
    BY <1>0, <1>8 DEF Store, CallRecord, TypeOK
  <2>4. Len(artifacts) + 1 \in DOMAIN artifacts'
    <3>1. local[w].body \in Body /\ Len(artifacts) \in Nat
      BY <1>0, Typed DEF Local
    <3>. QED  BY <1>8, <3>1, AppendProperties, LenProperties DEF Store, TypeOK
  <2>. QED  BY <1>1, <2>1, <2>2, <2>3, <2>4 DEF Quiet, Active, HasArtifact, RowOf
<1>9. CASE Remember(w)
  <2>1. pc[w] = "remember" /\ pc'[w] = "idle"
    BY <1>9 DEF Remember, TypeOK
  <2>2. calls'[local[w].id].status = "ok"
    BY <1>0, <1>9 DEF Remember, CallRecord, TypeOK
  <2>. QED  BY <1>1, <2>1, <2>2, SoFarFacts DEF Quiet, Active, Recording
<1>. QED  BY <1>1a, <1>2, <1>3, <1>4, <1>5, <1>6, <1>7, <1>8, <1>9

LEMMA ProposalIsQuiet ==
    ASSUME TypeOK, NEW w \in Worker, Active(w), CallInv(w),
           LedgerAdds(w) \/ LedgerRefuses(w) \/ Answered(w)
    PROVE  Quiet(w)
<1>1. UNCHANGED <<log, open, manifest, lock>> /\ pc[w] \in {"propose", "answer"}
  BY DEF LedgerAdds, LedgerRefuses, Answered, audit
<1>2. CASE LedgerAdds(w)
  <2>1. pc'[w] = "answer"
    BY <1>2 DEF LedgerAdds, Go, TypeOK
  <2>. QED  BY <1>1, <2>1, SoFarFacts, SoFarFactsNext DEF Quiet, Active, Recording
<1>3. ASSUME NEW status \in {"ledger error", "transport error", "proposed", "bad answer"},
             End(w, status)
      PROVE  Quiet(w)
  <2>1. status \in Unrecorded
    BY DEF Unrecorded
  <2>2. pc'[w] = "idle" /\ calls'[local[w].id].status = status
    BY <1>3, <2>1, EndStatus
  <2>. QED  BY <1>1, <2>2, SoFarFacts, RowsForFacts DEF Quiet, Active, Recording
<1>. QED  BY <1>2, <1>3 DEF LedgerRefuses, Answered

\* A call's artifact stays stored, also when the step gives it another.
LEMMA ArtifactsStay ==
    ASSUME TypeOK, OwnInv, NEW w \in Worker, Begin(w) \/ Continue(w),
           NEW c \in DOMAIN calls, calls[c].artifact \in DOMAIN artifacts
    PROVE  calls'[c].artifact \in DOMAIN artifacts'
<1>1. calls[c].artifact \in DOMAIN artifacts'
  BY StepHistory DEF History, Grows, Next
<1>2. Others(w) /\ (Begins(w) \/ GoesOn(w) \/ Ends(w))
  BY WorkerStep
<1>3. CASE ~(Active(w) /\ c = local[w].id)
  BY <1>1, <1>2, <1>3 DEF Others
<1>4. CASE Active(w) /\ c = local[w].id
  <2>1. calls[c] \in CallRecord
    BY Typed
  <2>2. CASE GoesOn(w)
    BY <1>1, <1>4, <2>1, <2>2 DEF GoesOn, CallRecord
  <2>3. CASE Ends(w)
    BY <1>1, <1>4, <2>1, <2>3 DEF Ends, CallRecord
  <2>. QED  BY <1>2, <1>4, <2>2, <2>3 DEF Begins
<1>. QED  BY <1>3, <1>4

\* What a commit publishes besides its own row are rows of masked errors.
LEMMA OpenRowsElsewhere ==
    ASSUME TypeOK, OwnInv, OpenInv, NEW w \in Worker, pc[w] = "commit",
           NEW c, c # local[w].id,
           c \in DOMAIN calls => calls[c].status # "masked error"
    PROVE  \A i \in DOMAIN open : open[i].call # c
<1>1. \A u \in Worker : pc[u] = "commit" => u = w
  BY DEF OwnInv, CallInv, Active
<1>2. RowOf(w).call = local[w].id
  BY DEF RowOf
<1>3. ASSUME NEW i \in DOMAIN open, open[i].call = c PROVE FALSE
  <2>1. c \in DOMAIN calls /\ calls[c].status # "masked error"
    BY <1>3 DEF OpenInv
  <2>2. open[i] = RowOf(w)
    BY <1>1, <1>3, <2>1 DEF OpenInv
  <2>. QED  BY <1>2, <1>3, <2>2
<1>. QED  BY <1>3

\* The other workers' rows are as before: whoever writes to the audit holds its lock.
LEMMA OthersRows ==
    ASSUME TypeOK, OwnInv, AuditInv, NEW w \in Worker, Begin(w) \/ Continue(w),
           \/ UNCHANGED <<log, open, manifest>>
           \/ lock \in {NoWorker, w} /\ UNCHANGED log
           \/ pc[w] = "commit" /\ log' = log \o open,
           NEW v \in Worker, v # w, Active(v)'
    PROVE  RowsInv(v)'
<1>1. /\ pc'[v] = pc[v] /\ local'[v] = local[v] /\ Active(v)
      /\ History
  BY WorkerStep, StepHistory DEF Others, Active, Next
<1>2. /\ SoFar(v)' = SoFar(v) /\ RowOf(v)' = RowOf(v)
      /\ RowsInv(v)
  BY <1>1 DEF SoFar, RowOf, AuditInv
<1>3. \A i : Attested(i) => Attested(i)'
  BY <1>1 DEF History, Grows, Attested
<1>4. CASE UNCHANGED <<log, open, manifest>>
  BY <1>1, <1>2, <1>4 DEF RowsInv, Attested
<1>5. ASSUME lock \in {NoWorker, w} PROVE pc[v] \notin {"commit", "attest"}
  BY <1>1, <1>5, EgressAssumption DEF OwnInv, CallInv
<1>6. CASE lock \in {NoWorker, w} /\ UNCHANGED log
  BY <1>1, <1>2, <1>3, <1>5, <1>6 DEF RowsInv
<1>7. CASE pc[w] = "commit" /\ log' = log \o open
  <2>1. lock = w /\ local[v].id # local[w].id /\ local[v].id \in DOMAIN calls
        /\ calls[local[v].id].status = "running"
    BY <1>1, <1>7 DEF OwnInv, CallInv, Active
  <2>2. \A i \in DOMAIN open : open[i].call # local[v].id
    BY <1>7, <2>1, OpenRowsElsewhere DEF AuditInv
  <2>3. log \in Seq(Row) /\ open \in Seq(Row)
    BY DEF TypeOK
  <2>4. RowsAre(log', local[v].id, SoFar(v))
    BY <1>2, <1>7, <2>2, <2>3, RowsAreKept DEF RowsInv
  <2>5. ASSUME NEW i \in DOMAIN log', log'[i].call = local[v].id
        PROVE  i \in DOMAIN log /\ log[i].call = local[v].id
    BY <1>7, <2>2, <2>3, <2>5, ConcatRows
  <2>. QED  BY <1>1, <1>2, <1>3, <1>5, <2>1, <2>4, <2>5 DEF RowsInv
<1>. QED  BY <1>4, <1>6, <1>7

\* HasArtifact of a row after the step.
HasArtifactNext(row) == row.outcome = "ok" => calls'[row.call].artifact \in DOMAIN artifacts'

LEMMA AfterLast ==
    ASSUME NEW n \in Nat, NEW c \in 1 .. n + 1, c \notin 1 .. n
    PROVE  c = n + 1
OBVIOUS

\* A worker's step preserves AuditInv if it keeps what its own rows, its own end and the
\* open transaction have to satisfy.
LEMMA AuditStep ==
    ASSUME TypeOK, OwnInv, AuditInv, NEW w \in Worker, Begin(w) \/ Continue(w),
           \/ UNCHANGED <<log, open, manifest>>
           \/ lock \in {NoWorker, w} /\ UNCHANGED log
           \/ pc[w] = "commit" /\ log' = log \o open,
           OpenInv',
           \A i \in DOMAIN open' : \/ \E j \in DOMAIN open : open'[i] = open[j]
                                  \/ HasArtifactNext(open'[i]),
           Active(w)' => RowsInv(w)',
           Active(w) /\ ~Active(w)' =>
              \/ calls'[local[w].id].status = "masked error"
              \/ /\ RowsAre(log', local[w].id, RowsFor(calls'[local[w].id].status))
                 /\ \A i \in DOMAIN log' : log'[i].call = local[w].id => Attested(i)',
           pc'[w] \in Recording => HasArtifact(RowOf(w))'
    PROVE  AuditInv'
<1>1. /\ History /\ Others(w)
      /\ Begins(w) \/ (Active(w) /\ CallInv(w) /\ (GoesOn(w) \/ Ends(w)))
  BY StepHistory, WorkerStep DEF Next
<1>2. /\ log \in Seq(Row) /\ open \in Seq(Row)
      /\ log' = log \/ (pc[w] = "commit" /\ log' = log \o open)
  BY DEF TypeOK
<1>3. ASSUME NEW row \in Row, row.call \in DOMAIN calls, HasArtifact(row)
      PROVE  HasArtifactNext(row)
  BY <1>3, ArtifactsStay DEF HasArtifact, HasArtifactNext
<1>4. ASSUME NEW i \in DOMAIN log'
      PROVE  /\ log'[i] \in Row /\ log'[i].call \in DOMAIN calls /\ HasArtifact(log'[i])
             /\ i \in DOMAIN log => log'[i] = log[i]
             /\ i \notin DOMAIN log => \E j \in DOMAIN open : log'[i] = open[j]
  <2>1. \/ i \in DOMAIN log /\ log'[i] = log[i]
        \/ i \notin DOMAIN log /\ \E j \in DOMAIN open : log'[i] = open[j]
    <3>1. CASE log' = log
      BY <3>1
    <3>2. CASE log' = log \o open
      <4>1. \/ i \in DOMAIN log /\ log'[i] = log[i]
            \/ /\ i \notin DOMAIN log /\ i - Len(log) \in DOMAIN open
               /\ log'[i] = open[i - Len(log)]
        BY <1>2, <3>2, ConcatRows
      <4>. QED  BY <4>1
    <3>. QED  BY <1>2, <3>1, <3>2
  <2>2. /\ i \in DOMAIN log => log[i] \in Row /\ log[i].call \in DOMAIN calls
                               /\ HasArtifact(log[i])
        /\ \A j \in DOMAIN open : open[j] \in Row /\ open[j].call \in DOMAIN calls
                                  /\ HasArtifact(open[j])
    <3>1. \A k \in DOMAIN log : log[k] \in Row /\ log[k].call \in DOMAIN calls
                                /\ HasArtifact(log[k])
      BY Typed DEF AuditInv, EndsAsRecorded, HasArtifact
    <3>. QED  BY <3>1, Typed DEF AuditInv, OpenInv
  <2>. QED  BY <2>1, <2>2
<1>5. \A i \in DOMAIN log' : log'[i].call \in DOMAIN calls'
  BY <1>1, <1>4 DEF History
<1>6. \A v \in Worker : Active(v)' => RowsInv(v)'
  BY OthersRows
<1>7. \A i \in DOMAIN open' : HasArtifactNext(open'[i])
  <2>1. \A j \in DOMAIN open : HasArtifactNext(open[j])
    BY <1>3, Typed DEF AuditInv, OpenInv
  <2>. QED  BY <2>1
<1>8. ASSUME NEW v \in Worker, pc'[v] \in Recording PROVE HasArtifact(RowOf(v))'
  <2>1. CASE v # w
    <3>1. pc'[v] = pc[v] /\ local'[v] = local[v] /\ Active(v)
      BY <1>1, <1>8, <2>1 DEF Others, Active, Recording
    <3>2. RowOf(v) \in Row /\ RowOf(v).call \in DOMAIN calls /\ HasArtifact(RowOf(v))
      BY <1>8, <3>1, Typed DEF AuditInv, OwnInv, CallInv, RowOf, Row, Local
    <3>3. RowOf(v)' = RowOf(v) /\ HasArtifactNext(RowOf(v))
      BY <1>3, <3>1, <3>2 DEF RowOf
    <3>. QED  BY <3>3 DEF HasArtifact, HasArtifactNext
  <2>. QED  BY <1>8, <2>1
<1>9. EndsAsRecorded'
  <2>1. ASSUME NEW c \in DOMAIN calls',
               calls'[c].status \notin {"running", "lost", "masked error"}
        PROVE  /\ RowsAre(log', c, RowsFor(calls'[c].status))
               /\ \A i \in DOMAIN log' : log'[i].call = c => Attested(i)'
    <3>1. CASE Active(w) /\ c = local[w].id
      <4>1. calls[c] \in CallRecord /\ calls[c].status = "running"
        BY <1>1, <3>1, Typed DEF Begins, CallInv
      <4>2. ~GoesOn(w)
        BY <2>1, <3>1, <4>1 DEF GoesOn, CallRecord
      <4>. QED  BY <1>1, <2>1, <3>1, <4>2 DEF Ends, Begins
    <3>2. CASE c \in DOMAIN calls /\ ~(Active(w) /\ c = local[w].id)
      <4>1. /\ calls'[c] = calls[c]
            /\ RowsAre(log, c, RowsFor(calls[c].status))
            /\ \A i \in DOMAIN log : log[i].call = c => Attested(i)
        BY <1>1, <2>1, <3>2 DEF Others, AuditInv, EndsAsRecorded
      <4>2. pc[w] = "commit" => \A j \in DOMAIN open : open[j].call # c
        BY <2>1, <3>2, <4>1, OpenRowsElsewhere DEF AuditInv, Active
      <4>3. RowsAre(log', c, RowsFor(calls[c].status))
        BY <1>2, <4>1, <4>2, RowsAreKept
      <4>4. \A i : Attested(i) => Attested(i)'
        BY <1>1 DEF History, Grows, Attested
      <4>5. \A i \in DOMAIN log' : log'[i].call = c => i \in DOMAIN log /\ log[i].call = c
        BY <1>2, <1>4, <4>2
      <4>. QED  BY <4>1, <4>3, <4>4, <4>5
    <3>3. CASE c \notin DOMAIN calls
      <4>1. Begins(w) /\ ~Active(w) /\ c = Len(calls) + 1
        <5>1. Begins(w)
          BY <1>1, <3>3 DEF GoesOn, Ends
        <5>2. /\ Len(calls) \in Nat
              /\ c \in 1 .. Len(calls) + 1 /\ c \notin 1 .. Len(calls)
          BY <2>1, <3>3, <5>1, Typed DEF Begins
        <5>3. c = Len(calls) + 1
          BY <5>2, AfterLast
        <5>. QED  BY <5>1, <5>3 DEF Begins
      <4>2. /\ calls'[c].status \in {"unknown artifact", "no ledger"}
        BY <2>1, <4>1 DEF Begins
      <4>3. \A i \in DOMAIN log' : log'[i].call # c
        BY <1>4, <3>3
      <4>4. log' \in Seq(Row)
        BY WorkerStep DEF TypeOK
      <4>. QED  BY <4>2, <4>3, <4>4, RowsAreNone, RowsForFacts
    <3>. QED  BY <3>1, <3>2, <3>3
  <2>2. ASSUME NEW i \in DOMAIN log', log'[i].outcome = "ok"
        PROVE  calls'[log'[i].call].artifact \in DOMAIN artifacts'
    BY <1>3, <1>4, <2>2 DEF HasArtifactNext
  <2>. QED  BY <2>1, <2>2 DEF EndsAsRecorded
<1>10. \A i \in DOMAIN open' : HasArtifact(open[i])'
  BY <1>7 DEF HasArtifact, HasArtifactNext
<1>. QED  BY <1>5, <1>6, <1>8, <1>9, <1>10 DEF AuditInv

\* A transaction that the step leaves alone.
LEMMA OpenStays ==
    ASSUME TypeOK, OwnInv, AuditInv, NEW w \in Worker, Begin(w) \/ Continue(w),
           open' = open,
           pc[w] = "commit" => calls'[local[w].id].status = "masked error"
    PROVE  OpenInv'
<1>1. History /\ Others(w)
  BY StepHistory, WorkerStep DEF Next
<1>2. ASSUME NEW i \in DOMAIN open
      PROVE  /\ open[i].call \in DOMAIN calls'
             /\ \/ calls'[open[i].call].status = "masked error"
                \/ i = Len(open) /\ \E v \in Worker : pc'[v] = "commit" /\ open[i] = RowOf(v)'
  <2>1. open[i].call \in DOMAIN calls /\ open[i].call \in DOMAIN calls'
    BY <1>1 DEF AuditInv, OpenInv, History
  <2>2. CASE calls[open[i].call].status = "masked error"
    BY <1>1, <2>1, <2>2 DEF History
  <2>3. ASSUME i = Len(open), NEW v \in Worker, pc[v] = "commit", open[i] = RowOf(v)
        PROVE  \/ calls'[open[i].call].status = "masked error"
               \/ pc'[v] = "commit" /\ open[i] = RowOf(v)'
    <3>1. CASE v = w
      <4>1. RowOf(w).call = local[w].id
        BY DEF RowOf
      <4>. QED  BY <2>3, <3>1, <4>1
    <3>2. CASE v # w
      <4>1. pc'[v] = pc[v] /\ local'[v] = local[v]
        BY <1>1, <3>2 DEF Others
      <4>. QED  BY <2>3, <4>1 DEF RowOf
    <3>. QED  BY <3>1, <3>2
  <2>. QED  BY <2>1, <2>2, <2>3 DEF AuditInv, OpenInv
<1>. QED  BY <1>2 DEF OpenInv

LEMMA QuietAudit ==
    ASSUME TypeOK, OwnInv, AuditInv, NEW w \in Worker, Continue(w),
           Active(w), CallInv(w), Quiet(w)
    PROVE  AuditInv'
<1>1. UNCHANGED <<log, open, manifest>> /\ pc[w] # "commit" /\ pc[w] # "attest"
  BY DEF Quiet
<1>2. OpenInv'
  BY <1>1, OpenStays
<1>3. RowsInv(w)
  BY DEF AuditInv
<1>4. ASSUME Active(w)' PROVE RowsInv(w)'
  <2>1. local'[w].id = local[w].id
    BY <1>4, WorkerStep DEF Begins, GoesOn, Ends
  <2>2. SoFar(w)' = SoFar(w) /\ pc'[w] # "commit" /\ pc'[w] # "attest"
    BY <1>4 DEF Quiet
  <2>. QED  BY <1>1, <1>3, <2>1, <2>2 DEF RowsInv, Attested
<1>5. ASSUME ~Active(w)'
      PROVE  \/ calls'[local[w].id].status = "masked error"
             \/ /\ RowsAre(log', local[w].id, RowsFor(calls'[local[w].id].status))
                /\ \A i \in DOMAIN log' : log'[i].call = local[w].id => Attested(i)'
  <2>1. CASE RowsFor(calls'[local[w].id].status) = SoFar(w)
    BY <1>1, <1>3, <2>1 DEF RowsInv, Attested
  <2>. QED  BY <1>5, <2>1 DEF Quiet
<1>6. pc'[w] \in Recording => HasArtifact(RowOf(w))'
  BY DEF Quiet
<1>. QED  BY <1>1, <1>2, <1>4, <1>5, <1>6, AuditStep

\* What a call's beginning records, if it records anything.
LEMMA StartRow ==
    ASSUME TypeOK, NEW w \in Worker, NEW tool, NEW url, NEW confirmed, NEW artifact,
           NEW label \in {"record", "guard"}, NEW row \in Outcome,
           Before(row) = << >>, row # "ok",
           Start(w, tool, url, confirmed, artifact, label, row)
    PROVE  SoFar(w)' = << >> /\ pc'[w] = label /\ HasArtifact(RowOf(w))'
<1> DEFINE l == [NoLocal EXCEPT !.id = Len(calls) + 1, !.row = row, !.cur = url,
                                !.artifact = artifact]
<1>1. l.row = row
  BY DEF NoLocal
<1>2. pc'[w] = label /\ local'[w] = l
  BY DEF Start, TypeOK
<1>3. local'[w].row = row
  BY <1>1, <1>2
<1>. QED  BY <1>2, <1>3, SoFarFactsNext DEF HasArtifact, RowOf

LEMMA BeginAudit ==
    ASSUME TypeOK, OwnInv, AuditInv, NEW w \in Worker, Begin(w)
    PROVE  AuditInv'
<1>1. UNCHANGED <<log, open, manifest>> /\ pc[w] = "idle" /\ ~Active(w)
  BY DEF Begin, Search, ReverseImageSearch, GetMapTile, Fetch, Propose, MayStart, audit,
         Active
<1>2. /\ Before("attempt") = << >> /\ Before("blocked (screen)") = << >>
      /\ Before("blocked (confirmation required)") = << >>
      /\ {"attempt", "blocked (screen)", "blocked (confirmation required)"}
            \subseteq Outcome
  BY DEF Before, Outcome
<1>3. Active(w)' =>
        /\ SoFar(w)' = << >> /\ pc'[w] \in {"record", "guard", "propose"}
        /\ pc'[w] \in Recording => HasArtifact(RowOf(w))'
  <2>1. CASE \E tool, url, confirmed, artifact :
               \E label \in {"record", "guard"},
                  row \in {"attempt", "blocked (screen)",
                           "blocked (confirmation required)"} :
                     Start(w, tool, url, confirmed, artifact, label, row)
    <3> PICK tool, url, confirmed, artifact :
               \E label \in {"record", "guard"},
                  row \in {"attempt", "blocked (screen)",
                           "blocked (confirmation required)"} :
                     Start(w, tool, url, confirmed, artifact, label, row)
      BY <2>1
    <3>1. PICK label \in {"record", "guard"},
               row \in {"attempt", "blocked (screen)",
                        "blocked (confirmation required)"} :
                  Start(w, tool, url, confirmed, artifact, label, row)
      OBVIOUS
    <3>2. row \in Outcome /\ Before(row) = << >> /\ row # "ok"
      BY <1>2
    <3>3. SoFar(w)' = << >> /\ pc'[w] = label /\ HasArtifact(RowOf(w))'
      BY <3>1, <3>2, StartRow
    <3>. QED  BY <3>3
  <2>2. CASE \E tool, url, status : StartAndEnd(w, tool, url, status)
    BY <1>1, <2>2 DEF StartAndEnd, Active
  <2>3. CASE \E a : ProposeStarts(w, a)
    <3>1. pc'[w] = "propose"
      BY <2>3 DEF ProposeStarts, TypeOK
    <3>. QED  BY <3>1, SoFarFactsNext DEF Recording
  <2>4. CASE Search(w)
    BY <2>1, <2>4 DEF Search
  <2>5. CASE ReverseImageSearch(w)
    BY <2>1, <2>2, <2>5 DEF ReverseImageSearch
  <2>6. CASE GetMapTile(w)
    BY <2>1, <2>6 DEF GetMapTile
  <2>7. CASE Fetch(w)
    BY <2>1, <2>7 DEF Fetch
  <2>8. CASE Propose(w)
    BY <2>2, <2>3, <2>8 DEF Propose
  <2>. QED  BY <2>4, <2>5, <2>6, <2>7, <2>8 DEF Begin
<1>4. OpenInv'
  BY <1>1, OpenStays
<1>5. ASSUME Active(w)' PROVE RowsInv(w)'
  <2>1. local'[w].id \notin DOMAIN calls
    <3>1. local'[w].id = Len(calls) + 1
      BY <1>1, <1>5, BeginStep DEF Begins
    <3>. QED  BY <3>1, Typed
  <2>2. \A i \in DOMAIN log : log[i].call # local'[w].id
    BY <2>1 DEF AuditInv
  <2>3. log \in Seq(Row)
    BY DEF TypeOK
  <2>4. RowsAre(log, local'[w].id, << >>)
    BY <2>2, <2>3, RowsAreNone
  <2>. QED  BY <1>1, <1>3, <1>5, <2>2, <2>4 DEF RowsInv
<1>6. pc'[w] \in Recording => HasArtifact(RowOf(w))'
  BY <1>3 DEF Recording, Active
<1>. QED  BY <1>1, <1>4, <1>5, <1>6, AuditStep

LEMMA InsertAudit ==
    ASSUME TypeOK, OwnInv, AuditInv, NEW w \in Worker, RecordInsert(w)
    PROVE  AuditInv'
<1>1. /\ Active(w) /\ CallInv(w) /\ RowsInv(w) /\ pc[w] = "record" /\ lock = NoWorker
      /\ UNCHANGED <<log, manifest, local, calls, artifacts>> /\ pc'[w] = "commit"
      /\ open' = Append(open, RowOf(w))
  BY DEF RecordInsert, Go, OwnInv, AuditInv, Active, RowOf, TypeOK
<1>2. RowOf(w)' = RowOf(w) /\ RowOf(w) \in Row /\ RowOf(w).call \in DOMAIN calls
  BY <1>1, Typed DEF RowOf, Row, Local, CallInv
<1>3. /\ DOMAIN open = 1 .. Len(open) /\ Len(open) \in Nat
      /\ DOMAIN open' = 1 .. Len(open) + 1 /\ Len(open') = Len(open) + 1
      /\ open'[Len(open) + 1] = RowOf(w)
      /\ \A i \in 1 .. Len(open) : open'[i] = open[i]
  BY <1>1, <1>2, AppendProperties, LenProperties, Typed DEF TypeOK
<1>4. HasArtifact(RowOf(w)) /\ HasArtifactNext(RowOf(w)) /\ HasArtifact(RowOf(w))'
  BY <1>1 DEF AuditInv, Recording, HasArtifact, HasArtifactNext, RowOf
<1>5. OpenInv'
  <2>1. ASSUME NEW i \in DOMAIN open, i # Len(open) + 1
        PROVE  open[i].call \in DOMAIN calls /\ calls[open[i].call].status = "masked error"
    <3>1. \A u \in Worker : pc[u] # "commit"
      BY <1>1, EgressAssumption DEF OwnInv, CallInv, Active
    <3>. QED  BY <3>1 DEF AuditInv, OpenInv
  <2>2. ASSUME NEW i \in DOMAIN open'
        PROVE  /\ open'[i].call \in DOMAIN calls'
               /\ \/ calls'[open'[i].call].status = "masked error"
                  \/ i = Len(open') /\ pc'[w] = "commit" /\ open'[i] = RowOf(w)'
    <3>1. CASE i = Len(open) + 1
      BY <1>1, <1>2, <1>3, <3>1
    <3>2. CASE i # Len(open) + 1
      <4>1. i \in DOMAIN open /\ open'[i] = open[i]
        BY <1>3, <2>2, <3>2
      <4>. QED  BY <1>1, <2>1, <3>2, <4>1
    <3>. QED  BY <3>1, <3>2
  <2>. QED  BY <2>2 DEF OpenInv
<1>6. \A i \in DOMAIN open' : \/ \E j \in DOMAIN open : open'[i] = open[j]
                             \/ HasArtifactNext(open'[i])
  <2> TAKE i \in DOMAIN open'
  <2>1. CASE i = Len(open) + 1
    BY <1>3, <1>4, <2>1
  <2>2. CASE i # Len(open) + 1
    <3>1. i \in DOMAIN open /\ open'[i] = open[i]
      BY <1>3, <2>2
    <3>. QED  BY <3>1
  <2>. QED  BY <2>1, <2>2
<1>7. RowsInv(w)'
  <2>1. SoFar(w)' = SoFar(w)
    BY <1>1, SoFarFacts, SoFarFactsNext
  <2>2. open' # << >> /\ Last(open)' = RowOf(w)'
    BY <1>2, <1>3 DEF Last
  <2>. QED  BY <1>1, <2>1, <2>2 DEF RowsInv, Attested
<1>8. Active(w)' /\ (Begin(w) \/ Continue(w))
  BY <1>1 DEF Active, Continue
<1>. QED  BY <1>1, <1>4, <1>5, <1>6, <1>7, <1>8, AuditStep

LEMMA CommitAudit ==
    ASSUME TypeOK, OwnInv, AuditInv, NEW w \in Worker, RecordCommit(w)
    PROVE  AuditInv'
<1>1. /\ Active(w) /\ CallInv(w) /\ RowsInv(w) /\ pc[w] = "commit" /\ lock = w
      /\ UNCHANGED <<manifest, local, calls, artifacts>> /\ pc'[w] = "attest"
      /\ log' = log \o open /\ open' = << >>
  BY DEF RecordCommit, Go, OwnInv, CallInv, AuditInv, Active, TypeOK
<1>2. /\ RowOf(w)' = RowOf(w) /\ RowOf(w).call = local[w].id
      /\ local[w].row \in Outcome
      /\ RowOf(w) = [call |-> local[w].id, outcome |-> local[w].row]
  BY <1>1, Typed DEF RowOf, Local
<1>3. log \in Seq(Row) /\ open \in Seq(Row) /\ open # << >> /\ Last(open) = RowOf(w)
  BY <1>1 DEF TypeOK, RowsInv
<1>4. \A i \in DOMAIN open : i # Len(open) => open[i].call # local[w].id
  BY <1>1 DEF AuditInv, OpenInv, CallInv
<1>5. RowsAre(log', local[w].id, SoFar(w)')
  <2>1. RowsAre(log, local[w].id, Before(local[w].row))
    BY <1>1, SoFarFacts DEF RowsInv
  <2>2. SoFar(w)' = Append(Before(local[w].row), local[w].row)
    BY <1>1, SoFarFactsNext
  <2>3. Before(local[w].row) \in Seq(Outcome)
    BY <1>2, RowsForFacts
  <2>. QED  BY <1>1, <1>2, <1>3, <1>4, <2>1, <2>2, <2>3, RowsAreMore
<1>6. /\ DOMAIN log = 1 .. Len(log) /\ Len(log) \in Nat
      /\ DOMAIN open = 1 .. Len(open) /\ Len(open) \in Nat \ {0}
      /\ DOMAIN log' = 1 .. Len(log) + Len(open) /\ Len(log') = Len(log) + Len(open)
      /\ log'[Len(log) + Len(open)] = open[Len(open)]
  BY <1>1, <1>3, ConcatProperties, LenProperties, EmptySeq
<1>7. ASSUME NEW i \in DOMAIN log', log'[i].call = local[w].id
      PROVE  Attested(i) \/ i = Len(log')
  <2>1. CASE i \in DOMAIN log /\ log'[i] = log[i]
    BY <1>1, <1>7, <2>1 DEF RowsInv
  <2>2. CASE i - Len(log) \in DOMAIN open /\ log'[i] = open[i - Len(log)]
    <3>1. i - Len(log) = Len(open)
      BY <1>4, <1>7, <2>2
    <3>. QED  BY <1>6, <1>7, <3>1
  <2>. QED  BY <1>1, <1>3, <1>7, <2>1, <2>2, ConcatRows
<1>8. RowsInv(w)'
  <2>1. log' # << >> /\ Last(log)' = RowOf(w)'
    BY <1>2, <1>3, <1>6 DEF Last
  <2>. QED  BY <1>1, <1>5, <1>7, <2>1 DEF RowsInv, Attested
<1>9. OpenInv' /\ \A i \in DOMAIN open' : FALSE
  BY <1>1 DEF OpenInv
<1>10. Active(w)' /\ (Begin(w) \/ Continue(w))
  BY <1>1 DEF Active, Continue
<1>11. HasArtifact(RowOf(w))'
  BY <1>1 DEF AuditInv, Recording, HasArtifact, RowOf
<1>. QED  BY <1>1, <1>8, <1>9, <1>10, <1>11, AuditStep

LEMMA FailsAudit ==
    ASSUME TypeOK, OwnInv, AuditInv, NEW w \in Worker, CommitFails(w) \/ AttestFails(w)
    PROVE  AuditInv'
<1>1. /\ Active(w) /\ CallInv(w) /\ pc[w] \in {"commit", "attest"} /\ lock = w
      /\ End(w, "masked error") /\ UNCHANGED <<log, manifest>>
      /\ open' \in {open, << >>} /\ Continue(w)
  BY DEF CommitFails, AttestFails, OwnInv, CallInv, Active, Continue
<1>2. "masked error" \in Unrecorded
  BY DEF Unrecorded
<1>3. pc'[w] = "idle" /\ calls'[local[w].id].status = "masked error"
  BY <1>1, <1>2, EndStatus
<1>4. OpenInv'
  <2>1. CASE open' = open
    BY <1>1, <1>3, <2>1, OpenStays
  <2>2. CASE open' = << >>
    <3>1. DOMAIN open' = {}
      BY <2>2
    <3>. QED  BY <3>1 DEF OpenInv
  <2>. QED  BY <1>1, <2>1, <2>2
<1>5. \A i \in DOMAIN open' : \E j \in DOMAIN open : open'[i] = open[j]
  <2>1. CASE open' = << >>
    <3>1. DOMAIN open' = {}
      BY <2>1
    <3>. QED  BY <3>1
  <2>. QED  BY <1>1, <2>1
<1>. QED  BY <1>1, <1>3, <1>4, <1>5, AuditStep DEF Active, Recording

LEMMA AttestAudit ==
    ASSUME TypeOK, OwnInv, AuditInv, NEW w \in Worker, RecordAttest(w)
    PROVE  AuditInv'
<1>1. /\ Active(w) /\ CallInv(w) /\ RowsInv(w) /\ pc[w] = "attest" /\ lock = w
      /\ UNCHANGED <<log, open>> /\ manifest' = Append(manifest, Len(log))
      /\ AfterRow(w) /\ Continue(w)
  BY DEF RecordAttest, OwnInv, CallInv, AuditInv, Active, Continue
<1>2. /\ manifest' \in Seq(Nat) /\ DOMAIN manifest' = 1 .. Len(manifest) + 1
      /\ manifest'[Len(manifest) + 1] = Len(log) /\ Len(manifest) \in Nat
  BY <1>1, Typed, AppendProperties, LenProperties DEF TypeOK
<1>3. Attested(Len(log))' /\ \A i : Attested(i) => Attested(i)'
  <2>1. History
    BY <1>1, StepHistory DEF Next
  <2>2. Len(manifest) + 1 \in DOMAIN manifest' /\ manifest'[Len(manifest) + 1] = Len(log)'
    BY <1>1, <1>2
  <2>3. Attested(Len(log))'
    BY <2>2 DEF Attested
  <2>. QED  BY <2>1, <2>3 DEF Attested, History, Grows
<1>4. \A i \in DOMAIN log' : log'[i].call = local[w].id => Attested(i)'
  BY <1>1, <1>3 DEF RowsInv
<1>5. RowsAre(log', local[w].id, Append(Before(local[w].row), local[w].row))
  BY <1>1, SoFarFacts DEF RowsInv
<1>6. local[w].row \in Outcome
  BY Typed DEF Local
<1>7. ASSUME Active(w)' PROVE RowsInv(w)'
  <2>1. /\ local'[w] = local[w]
        /\ \/ local[w].row = "attempt (live)" /\ pc'[w] = "hop"
           \/ local[w].row = "ok" /\ pc'[w] = "remember"
    BY <1>1, <1>7 DEF AfterRow, Go, End, TypeOK, Active
  <2>2. SoFar(w)' = Append(Before(local[w].row), local[w].row)
    BY <2>1, SoFarFactsNext, RowsForFacts DEF Outcome
  <2>. QED  BY <1>4, <1>5, <2>1, <2>2 DEF RowsInv
<1>8. ASSUME ~Active(w)'
      PROVE  RowsAre(log', local[w].id, RowsFor(calls'[local[w].id].status))
  <2>1. CASE local[w].row = "attempt" /\ End(w, "no connector")
    <3>1. calls'[local[w].id].status = "no connector"
      BY <1>1, <2>1, EndStatus DEF Unrecorded
    <3>. QED  BY <1>5, <2>1, <3>1, RowsForFacts
  <2>2. CASE local[w].row \notin {"attempt (live)", "ok", "attempt"} /\ End(w, local[w].row)
    <3>1. calls'[local[w].id].status = local[w].row
      BY <1>1, <1>6, <2>2, EndStatus
    <3>. QED  BY <1>5, <1>6, <2>2, <3>1, RowsForFacts
  <2>3. CASE Go(w, "hop") \/ Go(w, "remember")
    BY <1>8, <2>3 DEF Go, Active, TypeOK
  <2>. QED  BY <1>1, <2>1, <2>2, <2>3 DEF AfterRow
<1>9. pc'[w] \notin Recording
  BY <1>1 DEF AfterRow, Go, End, TypeOK, Recording
<1>10. OpenInv'
  BY <1>1, OpenStays
<1>11. \A i \in DOMAIN open' : \E j \in DOMAIN open : open'[i] = open[j]
  BY <1>1
<1>. QED  BY <1>1, <1>4, <1>7, <1>8, <1>9, <1>10, <1>11, AuditStep

\* A crash ends calls only as "lost", and takes the open transaction with it.
LEMMA CrashAudit ==
    ASSUME TypeOK, OwnInv, AuditInv, Crash
    PROVE  AuditInv'
<1>1. /\ UNCHANGED <<log, manifest, artifacts>> /\ open' = << >>
      /\ DOMAIN calls' = DOMAIN calls /\ \A w \in Worker : pc'[w] = "idle"
  BY CrashCalls DEF Crash
<1>2. ASSUME NEW c \in DOMAIN calls
      PROVE  /\ calls'[c].artifact = calls[c].artifact
             /\ calls'[c].status # "lost" => calls'[c].status = calls[c].status
  <2>1. calls[c] \in CallRecord
    BY Typed
  <2>. QED  BY <2>1, CrashCalls DEF CallRecord
<1>3. EndsAsRecorded'
  <2>1. \A i \in DOMAIN log : log[i].call \in DOMAIN calls
    BY DEF AuditInv
  <2>2. ASSUME NEW c \in DOMAIN calls',
               calls'[c].status \notin {"running", "lost", "masked error"}
        PROVE  /\ RowsAre(log', c, RowsFor(calls'[c].status))
               /\ \A i \in DOMAIN log' : log'[i].call = c => Attested(i)'
    BY <1>1, <1>2, <2>2 DEF AuditInv, EndsAsRecorded, Attested
  <2>. QED  BY <1>1, <1>2, <2>1, <2>2 DEF AuditInv, EndsAsRecorded
<1>4. \A i \in DOMAIN log' : log'[i].call \in DOMAIN calls'
  BY <1>1 DEF AuditInv
<1>5. DOMAIN open' = {}
  BY <1>1
<1>6. \A w \in Worker : ~Active(w)' /\ pc'[w] \notin Recording
  BY <1>1 DEF Active, Recording
<1>. QED  BY <1>3, <1>4, <1>5, <1>6 DEF AuditInv, OpenInv

LEMMA AuditHolds ==
    ASSUME TypeOK, ServesInv, OwnInv, AuditInv, [Next]_vars
    PROVE  AuditInv'
<1>1. CASE UNCHANGED vars
  BY <1>1 DEF vars, process, audit, AuditInv, OpenInv, RowOf, Active, RowsInv, SoFar,
          Attested, EndsAsRecorded, HasArtifact
<1>2. CASE Boot
  BY <1>2 DEF Boot, audit, AuditInv, OpenInv, RowOf, Active, RowsInv, SoFar,
          Attested, EndsAsRecorded, HasArtifact
<1>3. CASE Crash
  BY <1>3, CrashAudit
<1>4. ASSUME NEW w \in Worker, Begin(w) \/ Continue(w) PROVE AuditInv'
  <2>1. CASE Begin(w)
    BY <2>1, BeginAudit
  <2>2. CASE \/ RecordInsert(w) \/ RecordCommit(w) \/ CommitFails(w) \/ RecordAttest(w)
             \/ AttestFails(w)
    BY <2>2, InsertAudit, CommitAudit, FailsAudit, AttestAudit
  <2>3. CASE \/ Guard(w) \/ Escapes(w) \/ Hop(w) \/ Connect(w) \/ NetworkFails(w)
             \/ Redirect(w) \/ Oversize(w) \/ Receive(w) \/ Store(w) \/ StoreFails(w)
             \/ Remember(w) \/ LedgerAdds(w) \/ LedgerRefuses(w) \/ Answered(w)
    <3>1. Active(w) /\ CallInv(w)
      BY <2>3 DEF Guard, Escapes, Hop, Connect, NetworkFails, Redirect, Oversize, Receive,
              Store, StoreFails, Remember, LedgerAdds, LedgerRefuses, Answered, Active,
              OwnInv
    <3>2. Quiet(w) /\ Continue(w)
      BY <2>3, <3>1, FetchIsQuiet, ProposalIsQuiet DEF Continue
    <3>. QED  BY <3>1, <3>2, QuietAudit
  <2>. QED  BY <1>4, <2>1, <2>2, <2>3 DEF Continue
<1>. QED  BY <1>1, <1>2, <1>3, <1>4 DEF Next

-----------------------------------------------------------------------------
(* The gates: what was established before a connection stays true.          *)

LEMMA FetchedStays ==
    ASSUME TypeOK, History, NEW d \in DOMAIN calls, NEW u, NEW l, Fetched(d, u, l)
    PROVE  d \in DOMAIN calls' /\ Fetched(d, u, l)'
<1>1. d \in DOMAIN calls' /\ calls'[d] = calls[d]
  BY DEF Fetched, History
<1>2. \A i : Attested(i) => Attested(i)'
  BY DEF History, Grows, Attested
<1>. QED  BY <1>1, <1>2 DEF Fetched, History, Grows

LEMMA MayFetchStays ==
    ASSUME TypeOK, History, NEW c \in DOMAIN calls, MayFetch(c)
    PROVE  MayFetch(c)'
<1>1. /\ calls'[c].url = calls[c].url /\ calls'[c].confirmed = calls[c].confirmed
      /\ calls'[c].life = calls[c].life
  BY DEF History
<1>2. CASE calls[c].confirmed
  BY <1>1, <1>2 DEF MayFetch
<1>3. ASSUME NEW d \in 1 .. c - 1, Fetched(d, calls[c].url, calls[c].life)
      PROVE  MayFetch(c)'
  <2>1. d \in DOMAIN calls
    BY Typed
  <2>2. PICK u, l : u = calls[c].url /\ l = calls[c].life
    OBVIOUS
  <2>3. Fetched(d, u, l)'
    BY <1>3, <2>1, <2>2, FetchedStays
  <2>. QED  BY <1>1, <2>2, <2>3 DEF MayFetch, Fetched
<1>. QED  BY <1>2, <1>3 DEF MayFetch

\* What is true of a connection.
Justified(c) ==
    /\ c.call \in DOMAIN calls
    /\ \E i \in DOMAIN log :
          log[i] = [call |-> c.call, outcome |-> "attempt (live)"] /\ Attested(i)
    /\ c.ip \in Public /\ calls[c.call].url \notin Sensitive
    /\ MayFetch(c.call)

LEMMA GateParts ==
    GateInv <=> /\ \A u \in session : \E d \in DOMAIN calls : Fetched(d, u, life)
                /\ \A w \in Worker : PassedInv(w)
                /\ \A c \in connections : Justified(c)
BY DEF GateInv, Justified, AttemptPrecedesConnection, OnlyGuardedConnections,
       UnconfirmedFollowsOk, MayFetch, Fetched

LEMMA GatePartsNext ==
    GateInv' <=> /\ \A u \in session' : \E d \in DOMAIN calls' : Fetched(d, u, life)'
                 /\ \A w \in Worker : PassedInv(w)'
                 /\ \A c \in connections' : Justified(c)'
BY DEF GateInv, Justified, AttemptPrecedesConnection, OnlyGuardedConnections,
       UnconfirmedFollowsOk, MayFetch, Fetched

LEMMA JustifiedStays ==
    ASSUME TypeOK, History, NEW c, Justified(c)
    PROVE  Justified(c)'
<1>1. \A i : Attested(i) => Attested(i)'
  BY DEF History, Grows, Attested
<1>2. c.call \in DOMAIN calls' /\ calls'[c.call].url = calls[c.call].url
  BY DEF Justified, History
<1>3. MayFetch(c.call)'
  BY MayFetchStays DEF Justified
<1>4. \E i \in DOMAIN log' :
          log'[i] = [call |-> c.call, outcome |-> "attempt (live)"] /\ Attested(i)'
  BY <1>1 DEF Justified, History, Grows
<1>. QED  BY <1>2, <1>3, <1>4 DEF Justified

\* How a worker comes to be on its way to a connection.
LEMMA LiveStep ==
    ASSUME TypeOK, NEW w \in Worker, Continue(w)
    PROVE  /\ pc'[w] # "guard"
           /\ Live(w)' => Live(w) \/ (pc[w] = "guard" /\ env.live)
           /\ pc'[w] = "connect" => local'[w].ip \in Public
<1>0. local[w] \in Local
  BY Typed
<1>1. CASE \E o \in Outcome : RecordRow(w, o) /\ (o = "attempt (live)" => pc[w] = "guard" /\ env.live)
  BY <1>1, RecordedRow DEF Live
<1>2. CASE \E status \in Outcome \cup Unrecorded : End(w, status)
  BY <1>2 DEF End, TypeOK, Live, Recording
<1>3. ASSUME NEW label \in {"commit", "attest", "hop", "response", "answer", "remember"},
             Go(w, label),
             label \in {"commit", "attest"} => pc[w] \in Recording,
             label \in {"hop", "response"} => Live(w)
      PROVE  /\ pc'[w] # "guard" /\ pc'[w] # "connect"
             /\ Live(w)' => Live(w)
  BY <1>3 DEF Go, TypeOK, Live, Recording
<1>4. CASE RecordInsert(w) \/ RecordCommit(w) \/ Connect(w) \/ LedgerAdds(w)
  BY <1>3, <1>4 DEF RecordInsert, RecordCommit, Connect, LedgerAdds, Live, Recording
<1>5. CASE CommitFails(w) \/ AttestFails(w) \/ Escapes(w) \/ StoreFails(w)
           \/ LedgerRefuses(w) \/ Answered(w)
  BY <1>2, <1>5 DEF CommitFails, AttestFails, Escapes, StoreFails, LedgerRefuses, Answered,
          Unrecorded
<1>6. CASE RecordAttest(w)
  <2>1. local[w].row \in Outcome /\ pc[w] = "attest"
    BY <1>0, <1>6 DEF Local, RecordAttest
  <2>2. CASE Go(w, "hop") /\ local[w].row = "attempt (live)"
    BY <1>3, <2>1, <2>2 DEF Live, Recording
  <2>3. CASE Go(w, "remember")
    BY <1>3, <2>3
  <2>4. CASE \E status \in Outcome \cup Unrecorded : End(w, status)
    BY <1>2, <2>4
  <2>. QED  BY <1>6, <2>1, <2>2, <2>3, <2>4 DEF RecordAttest, AfterRow, Unrecorded
<1>7. CASE Guard(w)
  BY <1>1, <1>7 DEF Guard, Outcome
<1>8. CASE NetworkFails(w) \/ Oversize(w)
  BY <1>1, <1>8 DEF NetworkFails, Oversize, Outcome
<1>9. CASE Hop(w)
  <2>1. CASE RecordRow(w, "blocked (fetch guard)")
    BY <1>1, <2>1 DEF Outcome
  <2>2. ASSUME NEW ips \in SUBSET (Public \cup Internal), Validates(ips), NEW ip \in ips,
               GoWith(w, "connect", [local[w] EXCEPT !.ip = ip])
        PROVE  /\ pc'[w] = "connect" /\ local'[w].ip \in Public
    BY <1>0, <2>2 DEF Validates, GoWith, TypeOK, Local
  <2>3. pc[w] = "hop"
    BY <1>9 DEF Hop
  <2>. QED  BY <1>9, <2>1, <2>2, <2>3 DEF Hop, Live
<1>10. CASE Redirect(w)
  <2>1. CASE RecordRow(w, "blocked (fetch guard)")
    BY <1>1, <2>1 DEF Outcome
  <2>. QED  BY <1>10, <2>1 DEF Redirect, GoWith, TypeOK, Live
<1>11. CASE Receive(w)
  BY <1>11 DEF Receive, GoWith, TypeOK, Live, Recording
<1>12. CASE Store(w)
  <2>1. pc'[w] = "record" /\ local'[w].row = "ok"
    BY <1>0, <1>12 DEF Store, TypeOK, Local
  <2>. QED  BY <2>1 DEF Live
<1>13. CASE Remember(w)
  BY <1>13 DEF Remember, TypeOK, Live, Recording
<1>. QED  BY <1>4, <1>5, <1>6, <1>7, <1>8, <1>9, <1>10, <1>11, <1>12, <1>13 DEF Continue

\* What a running call's rows are made of.
LEMMA HasRow ==
    ASSUME TypeOK, NEW c, NEW s \in Seq(Outcome), NEW j \in DOMAIN s, RowsAre(log, c, s)
    PROVE  \E i \in DOMAIN log : log[i] = [call |-> c, outcome |-> s[j]]
BY DEF RowsAre

\* A worker on its way to a connection has its attempt's attested row, and one about to
\* remember its URL the row of its success.
LEMMA RowOfAttempt ==
    ASSUME TypeOK, OwnInv, AuditInv, NEW w \in Worker
    PROVE  /\ pc[w] = "connect" =>
                 \E i \in DOMAIN log : /\ Attested(i)
                     /\ log[i] = [call |-> local[w].id, outcome |-> "attempt (live)"]
           /\ pc[w] = "remember" =>
                 \E i \in DOMAIN log : /\ Attested(i)
                     /\ log[i] = [call |-> local[w].id, outcome |-> "ok"]
<1>1. ASSUME pc[w] \in {"connect", "remember"}
      PROVE  /\ RowsAre(log, local[w].id, SoFar(w))
             /\ \A i \in DOMAIN log : log[i].call = local[w].id => Attested(i)
  BY <1>1 DEF AuditInv, RowsInv, Active
<1>2. ASSUME NEW i \in DOMAIN log, NEW o,
             log[i] = [call |-> local[w].id, outcome |-> o]
      PROVE  log[i].call = local[w].id
  BY <1>2
<1>3. CASE pc[w] = "connect"
  <2>1. SoFar(w) = <<"attempt (live)">>
    BY <1>3, SoFarFacts
  <2>2. <<"attempt (live)">> \in Seq(Outcome) /\ 1 \in DOMAIN <<"attempt (live)">>
    BY DEF Outcome
  <2>3. \E i \in DOMAIN log : log[i] = [call |-> local[w].id, outcome |-> "attempt (live)"]
    BY <1>1, <1>3, <2>1, <2>2, HasRow
  <2>. QED  BY <1>1, <1>2, <1>3, <2>3
<1>4. CASE pc[w] = "remember"
  <2>1. SoFar(w) = Append(Before("ok"), "ok")
    BY <1>4, SoFarFacts, RowsForFacts DEF Outcome
  <2>2. Before("ok") \in Seq(Outcome) /\ Len(Before("ok")) = 1 /\ "ok" \in Outcome
    BY RowsForFacts DEF Before, Outcome
  <2> DEFINE s == Append(Before("ok"), "ok")
  <2>3. s \in Seq(Outcome) /\ 2 \in DOMAIN s /\ s[2] = "ok"
    <3>1. s \in Seq(Outcome) /\ Len(s) = 2 /\ s[2] = "ok"
      BY <2>2, AppendProperties
    <3>. QED  BY <3>1, LenProperties
  <2> HIDE DEF s
  <2>4. \E i \in DOMAIN log : log[i] = [call |-> local[w].id, outcome |-> s[2]]
    BY <1>1, <1>4, <2>1, <2>3, HasRow DEF s
  <2>5. \E i \in DOMAIN log : log[i] = [call |-> local[w].id, outcome |-> "ok"]
    BY <2>3, <2>4
  <2>. QED  BY <1>1, <1>2, <1>4, <2>5
<1>. QED  BY <1>3, <1>4

\* What a step does to the session.
LEMMA SessionStep ==
    ASSUME TypeOK, OwnInv, AuditInv, GateInv, NEW w \in Worker, Begin(w) \/ Continue(w)
    PROVE  \A u \in session' : \E d \in DOMAIN calls' : Fetched(d, u, life)'
<1>1. History /\ UNCHANGED life
  BY StepHistory, WorkerStep DEF Next, Others, process
<1>2. ASSUME NEW u \in session PROVE \E d \in DOMAIN calls' : Fetched(d, u, life)'
  <2>1. PICK d \in DOMAIN calls : Fetched(d, u, life)
    BY DEF GateInv
  <2>2. PICK l : l = life /\ l = life'
    BY <1>1
  <2>3. d \in DOMAIN calls' /\ Fetched(d, u, l)'
    BY <1>1, <2>1, <2>2, FetchedStays
  <2>. QED  BY <2>2, <2>3 DEF Fetched
<1>3. CASE Remember(w)
  <2>1. /\ local[w].id \in DOMAIN calls /\ calls[local[w].id].life = life
        /\ calls[local[w].id] \in CallRecord
    BY <1>3, Typed DEF Remember, OwnInv, CallInv, Active
  <2>2. local[w].cur \in Url
    BY Typed DEF Local
  <2>3. /\ calls' = [calls EXCEPT ![local[w].id] = [calls[local[w].id] EXCEPT
                                                      !.status = "ok", !.final = local[w].cur]]
        /\ session' = session \cup {local[w].cur} /\ pc[w] = "remember"
        /\ UNCHANGED <<log, manifest, life>>
    BY <1>3 DEF Remember, audit, process
  <2>4. /\ local[w].id \in DOMAIN calls' /\ calls'[local[w].id].status = "ok"
        /\ calls'[local[w].id].final = local[w].cur /\ calls'[local[w].id].life = life
    BY <2>1, <2>2, <2>3 DEF CallRecord
  <2>5. PICK c, u : c = local[w].id /\ u = local[w].cur
    OBVIOUS
  <2>6. \E i \in DOMAIN log : log[i] = [call |-> c, outcome |-> "ok"] /\ Attested(i)
    BY <2>3, <2>5, RowOfAttempt
  <2>7. \E i \in DOMAIN log' : log'[i] = [call |-> c, outcome |-> "ok"] /\ Attested(i)'
    BY <2>3, <2>6 DEF Attested
  <2>8. Fetched(c, u, life)' /\ c \in DOMAIN calls'
    BY <2>3, <2>4, <2>5, <2>7 DEF Fetched
  <2>9. \A v \in session' : v \in session \/ v = u
    BY <2>3, <2>5
  <2>. QED  BY <1>2, <2>8, <2>9
<1>4. CASE UNCHANGED session
  BY <1>2, <1>4
<1>. QED  BY <1>3, <1>4 DEF Begin, Search, ReverseImageSearch, GetMapTile, Fetch, Propose,
          Continue, RecordInsert, RecordCommit, CommitFails, RecordAttest, AttestFails,
          Guard, Escapes, Hop, Connect, NetworkFails, Redirect, Oversize, Receive, Store,
          StoreFails, LedgerAdds, LedgerRefuses, Answered

\* A connection is the one of a worker that may make it.
LEMMA ConnectionsStep ==
    ASSUME TypeOK, OwnInv, AuditInv, GateInv, NEW w \in Worker, Begin(w) \/ Continue(w)
    PROVE  \A c \in connections' : Justified(c)'
<1>1. History
  BY StepHistory DEF Next
<1>2. \A c \in connections : Justified(c)'
  BY <1>1, GateParts, JustifiedStays
<1>3. CASE Connect(w)
  <2>1. PICK c : c = [call |-> local[w].id, ip |-> local[w].ip]
    OBVIOUS
  <2>2. c.call = local[w].id /\ c.ip = local[w].ip
    BY <2>1
  <2>3. /\ connections' = connections \cup {c} /\ pc[w] = "connect"
        /\ local[w].id \in DOMAIN calls
    BY <1>3, <2>1 DEF Connect, OwnInv, CallInv, Active
  <2>4. /\ MayFetch(local[w].id) /\ calls[local[w].id].url \notin Sensitive
        /\ local[w].ip \in Public
    BY <2>3 DEF GateInv, PassedInv, Live
  <2>5. Justified(c)
    BY <2>2, <2>3, <2>4, RowOfAttempt DEF Justified
  <2>. QED  BY <1>1, <1>2, <2>3, <2>5, JustifiedStays
<1>4. CASE UNCHANGED connections
  BY <1>2, <1>4
<1>. QED  BY <1>3, <1>4 DEF Begin, Search, ReverseImageSearch, GetMapTile, Fetch, Propose,
          Continue, RecordInsert, RecordCommit, CommitFails, RecordAttest, AttestFails,
          Guard, Escapes, Hop, NetworkFails, Redirect, Oversize, Receive, Store,
          StoreFails, Remember, LedgerAdds, LedgerRefuses, Answered

\* A fetch that begins has passed its gate, and a row of its refusal is not an attempt.
LEMMA BeginPassed ==
    ASSUME TypeOK, OwnInv, AuditInv, GateInv, NEW w \in Worker, Begin(w)
    PROVE  PassedInv(w)'
<1>1. ASSUME pc'[w] \in {"idle", "propose"} \/ (pc'[w] = "record" /\ local'[w].row # "attempt (live)")
      PROVE  PassedInv(w)'
  BY <1>1 DEF PassedInv, Live, Recording
<1>2. ASSUME NEW tool, NEW url, NEW confirmed, NEW artifact, NEW label, NEW row,
             Start(w, tool, url, confirmed, artifact, label, row)
      PROVE  /\ pc'[w] = label /\ local'[w].row = row /\ local'[w].id = Len(calls) + 1
             /\ calls' = Append(calls, [tool |-> tool, url |-> url, confirmed |-> confirmed,
                                        life |-> life, status |-> "running", final |-> url,
                                        artifact |-> 0])
  BY <1>2 DEF Start, TypeOK, NoLocal
<1>3. CASE \E tool, url, confirmed, artifact, row :
             /\ row # "attempt (live)"
             /\ Start(w, tool, url, confirmed, artifact, "record", row)
  BY <1>1, <1>2, <1>3
<1>4. CASE (\E tool, url, status : StartAndEnd(w, tool, url, status)) /\ pc[w] = "idle"
  BY <1>1, <1>4 DEF StartAndEnd
<1>5. CASE \E a : ProposeStarts(w, a)
  BY <1>1, <1>5 DEF ProposeStarts, TypeOK
<1>6. ASSUME NEW url \in Url, NEW confirmed \in BOOLEAN, url \in session \/ confirmed,
             ~Screened(url), UNCHANGED <<env, life>>,
             Start(w, "fetch", url, confirmed, 0, "guard", "attempt")
      PROVE  PassedInv(w)'
  <2> DEFINE r == [tool |-> "fetch", url |-> url, confirmed |-> confirmed, life |-> life,
                   status |-> "running", final |-> url, artifact |-> 0]
  <2>1. r \in CallRecord
    BY DEF TypeOK, CallRecord, Unrecorded
  <2>2. /\ pc'[w] = "guard" /\ local'[w].id = Len(calls) + 1
        /\ calls' = Append(calls, r)
    BY <1>2, <1>6
  <2>3. r.url = url /\ r.confirmed = confirmed /\ r.life = life
    OBVIOUS
  <2> HIDE DEF r
  <2>4. calls'[Len(calls) + 1] = r /\ Len(calls) \in Nat /\ DOMAIN calls = 1 .. Len(calls)
    BY <2>1, <2>2, NewCall, Typed
  <2>5. PICK c : c = Len(calls) + 1
    OBVIOUS
  <2>6. MayFetch(c)'
    <3>1. CASE confirmed
      BY <2>3, <2>4, <2>5, <3>1 DEF MayFetch
    <3>2. CASE url \in session
      <4>1. PICK d \in DOMAIN calls : Fetched(d, url, life)
        BY <3>2 DEF GateInv
      <4>2. PICK l : l = life
        OBVIOUS
      <4>3. Fetched(d, url, l)'
        BY <4>1, <4>2, FetchedStays, StepHistory DEF Next
      <4>4. d \in 1 .. c - 1
        BY <2>4, <2>5, <4>1
      <4>. QED  BY <2>3, <2>4, <2>5, <4>2, <4>3, <4>4 DEF MayFetch, Fetched
    <3>. QED  BY <1>6, <3>1, <3>2
  <2>. QED  BY <1>6, <2>2, <2>3, <2>4, <2>5, <2>6 DEF PassedInv, Live, Recording, Screened,
            MayFetch, Fetched
<1>7. CASE Search(w)
  BY <1>3, <1>7 DEF Search
<1>8. CASE ReverseImageSearch(w)
  BY <1>3, <1>4, <1>8 DEF ReverseImageSearch, MayStart
<1>9. CASE GetMapTile(w)
  BY <1>3, <1>9 DEF GetMapTile
<1>10. CASE Fetch(w)
  BY <1>3, <1>6, <1>10 DEF Fetch, process
<1>11. CASE Propose(w)
  BY <1>4, <1>5, <1>11 DEF Propose, MayStart
<1>. QED  BY <1>7, <1>8, <1>9, <1>10, <1>11 DEF Begin

\* A fetch that goes on keeps what it has passed: with egress live, a process that serves
\* has identifiers, so that the screen has seen the URL.
LEMMA ContinuePassed ==
    ASSUME TypeOK, ServesInv, OwnInv, GateInv, NEW w \in Worker, Continue(w), Active(w)
    PROVE  PassedInv(w)'
<1>1. /\ History /\ UNCHANGED env
      /\ Active(w)' => local'[w].id = local[w].id
      /\ local[w].id \in DOMAIN calls
  BY StepHistory, WorkerStep DEF Next, Others, process, Begins, GoesOn, Ends, OwnInv, CallInv
<1>2. CASE ~Active(w)'
  BY <1>2 DEF Active, PassedInv, Live, Recording
<1>3. CASE Active(w)'
  <2>1. PICK c : c = local[w].id
    OBVIOUS
  <2>2. c = local'[w].id /\ c \in DOMAIN calls /\ calls'[c].url = calls[c].url
    BY <1>1, <1>3, <2>1 DEF History
  <2>3. /\ pc'[w] # "guard"
        /\ Live(w)' => Live(w) \/ (pc[w] = "guard" /\ env.live)
        /\ pc'[w] = "connect" => local'[w].ip \in Public
    BY LiveStep
  <2>4. PassedInv(w) /\ MayServe(env)
    BY DEF GateInv, ServesInv
  <2>5. ASSUME Live(w)' PROVE MayFetch(c)' /\ calls'[c].url \notin Sensitive
    <3>1. MayFetch(c)
      BY <2>1, <2>3, <2>4, <2>5 DEF PassedInv
    <3>2. calls[c].url \notin Sensitive
      <4>1. CASE Live(w)
        BY <2>1, <2>4, <4>1 DEF PassedInv
      <4>2. CASE pc[w] = "guard" /\ env.live
        BY <2>1, <2>4, <4>2 DEF PassedInv, Screened, MayServe
      <4>. QED  BY <2>3, <2>5, <4>1, <4>2
    <3>. QED  BY <1>1, <2>2, <3>1, <3>2, MayFetchStays
  <2>. QED  BY <2>2, <2>3, <2>5 DEF PassedInv, MayFetch, Fetched
<1>. QED  BY <1>2, <1>3

\* A worker that takes no step keeps what it has passed.
LEMMA PassedStays ==
    ASSUME TypeOK, OwnInv, GateInv, History, NEW v \in Worker,
           pc'[v] = pc[v], local'[v] = local[v], env' = env
    PROVE  PassedInv(v)'
<1>1. PassedInv(v) /\ Live(v)' = Live(v)
  BY DEF GateInv, Live
<1>2. CASE pc[v] = "guard" \/ Live(v)
  <2>1. PICK c : c = local[v].id
    OBVIOUS
  <2>2. c \in DOMAIN calls
    BY <1>2, <2>1 DEF OwnInv, CallInv, Active, Live, Recording
  <2>3. MayFetch(c)' /\ calls'[c].url = calls[c].url
    BY <1>1, <1>2, <2>1, <2>2, MayFetchStays DEF PassedInv, History
  <2>. QED  BY <1>1, <2>1, <2>3 DEF PassedInv, MayFetch, Fetched, Screened
<1>3. CASE ~(pc[v] = "guard" \/ Live(v))
  BY <1>1, <1>3 DEF PassedInv, Live
<1>. QED  BY <1>2, <1>3

LEMMA GateHolds ==
    ASSUME TypeOK, ServesInv, OwnInv, AuditInv, GateInv, [Next]_vars
    PROVE  GateInv'
<1>1. CASE UNCHANGED vars
  <2>1. UNCHANGED <<env, life, session, connections, log, manifest, calls, pc, local>>
        /\ History
    BY <1>1 DEF vars, process, audit, History, Grows
  <2>2. \A u \in session' : \E d \in DOMAIN calls' : Fetched(d, u, life)'
    BY <2>1 DEF GateInv, Fetched, Attested
  <2>3. \A w \in Worker : PassedInv(w)'
    BY <2>1, PassedStays
  <2>4. \A c \in connections' : Justified(c)'
    BY <2>1, GateParts, JustifiedStays
  <2>. QED  BY <2>2, <2>3, <2>4, GatePartsNext
<1>2. CASE Boot \/ Crash
  <2>1. /\ session' = {} /\ UNCHANGED connections
        /\ \A w \in Worker : ~Active(w)'
    BY <1>2, BootStep, CrashCalls DEF Boot, Crash
  <2>2. History
    BY <1>2, StepHistory DEF Next
  <2>3. \A c \in connections' : Justified(c)'
    BY <2>1, <2>2, GateParts, JustifiedStays
  <2>4. \A w \in Worker : PassedInv(w)'
    BY <2>1 DEF Active, PassedInv, Live, Recording
  <2>. QED  BY <2>1, <2>3, <2>4, GatePartsNext
<1>3. ASSUME NEW w \in Worker, Begin(w) \/ Continue(w) PROVE GateInv'
  <2>1. PassedInv(w)'
    <3>1. CASE Begin(w)
      BY <3>1, BeginPassed
    <3>2. CASE Continue(w)
      <4>1. Active(w)
        BY <3>2 DEF Active, Continue, RecordInsert, RecordCommit, CommitFails, RecordAttest,
                AttestFails, Guard, Escapes, Hop, Connect, NetworkFails, Redirect, Oversize,
                Receive, Store, StoreFails, Remember, LedgerAdds, LedgerRefuses, Answered
      <4>. QED  BY <3>2, <4>1, ContinuePassed
    <3>. QED  BY <1>3, <3>1, <3>2
  <2>2. ASSUME NEW v \in Worker, v # w PROVE PassedInv(v)'
    <3>1. /\ pc'[v] = pc[v] /\ local'[v] = local[v] /\ UNCHANGED env /\ History
      BY <1>3, <2>2, WorkerStep, StepHistory DEF Others, process, Next
    <3>. QED  BY <3>1, PassedStays
  <2>. QED  BY <1>3, <2>1, <2>2, SessionStep, ConnectionsStep, GatePartsNext
<1>. QED  BY <1>1, <1>2, <1>3 DEF Next

-----------------------------------------------------------------------------
(* The proposals.                                                           *)

\* A call is told that its proposal was added only by the ledger's answer, and its bytes
\* are on their way only from its beginning.
LEMMA ProposedStep ==
    ASSUME TypeOK, NEW w \in Worker, Continue(w), Active(w), CallInv(w)
    PROVE  /\ ~Active(w)' /\ calls'[local[w].id].status = "proposed" => pc[w] = "answer"
           /\ pc'[w] # "propose"
           /\ pc'[w] = "answer" => LedgerAdds(w)
           /\ ~LedgerAdds(w) => UNCHANGED ledger
<1>1. pc'[w] # "propose"
  BY DEF Continue, RecordInsert, RecordCommit, CommitFails, RecordAttest, AfterRow,
         AttestFails, Guard, Escapes, Hop, Connect, NetworkFails, Redirect, Oversize,
         Receive, Store, StoreFails, Remember, LedgerAdds, LedgerRefuses, Answered,
         RecordRow, Go, GoWith, End, TypeOK
<1>2. pc'[w] = "answer" => LedgerAdds(w)
  BY DEF Continue, RecordInsert, RecordCommit, CommitFails, RecordAttest, AfterRow,
         AttestFails, Guard, Escapes, Hop, Connect, NetworkFails, Redirect, Oversize,
         Receive, Store, StoreFails, Remember, LedgerRefuses, Answered,
         RecordRow, Go, GoWith, End, TypeOK
<1>3. ~LedgerAdds(w) => UNCHANGED ledger
  BY DEF Continue, RecordInsert, RecordCommit, CommitFails, RecordAttest, AttestFails,
         Guard, Escapes, Hop, Connect, NetworkFails, Redirect, Oversize, Receive, Store,
         StoreFails, Remember, LedgerRefuses, Answered
<1>4. ASSUME ~Active(w)', calls'[local[w].id].status = "proposed" PROVE pc[w] = "answer"
  <2>1. ASSUME NEW status \in (Outcome \cup Unrecorded) \ {"proposed"}, End(w, status)
        PROVE  FALSE
    BY <1>4, <2>1, EndStatus
  <2>2. CASE Remember(w)
    <3>1. calls[local[w].id] \in CallRecord
      BY Typed DEF CallInv
    <3>2. calls'[local[w].id].status = "ok"
      BY <2>2, <3>1 DEF Remember, CallRecord, CallInv
    <3>. QED  BY <1>4, <3>2
  <2>3. CASE RecordAttest(w)
    <3>1. local[w].row \in (Outcome \cup Unrecorded) \ {"proposed"}
          /\ "no connector" \in (Outcome \cup Unrecorded) \ {"proposed"}
      BY Typed DEF Local, Outcome, Unrecorded
    <3>2. CASE Go(w, "hop") \/ Go(w, "remember")
      BY <1>4, <3>2 DEF Go, Active, TypeOK
    <3>. QED  BY <2>1, <2>3, <3>1, <3>2 DEF RecordAttest, AfterRow
  <2>4. CASE CommitFails(w) \/ AttestFails(w) \/ Escapes(w) \/ StoreFails(w)
             \/ LedgerRefuses(w)
    <3>1. {"masked error", "ledger error", "transport error"}
             \subseteq (Outcome \cup Unrecorded) \ {"proposed"}
      BY DEF Unrecorded
    <3>. QED  BY <2>1, <2>4, <3>1 DEF CommitFails, AttestFails, Escapes, StoreFails,
              LedgerRefuses
  <2>5. CASE \/ RecordInsert(w) \/ RecordCommit(w) \/ Guard(w) \/ Hop(w) \/ Connect(w)
             \/ NetworkFails(w) \/ Redirect(w) \/ Oversize(w) \/ Receive(w) \/ Store(w)
             \/ LedgerAdds(w)
    BY <1>4, <2>5 DEF RecordInsert, RecordCommit, Guard, Hop, Connect, NetworkFails,
            Redirect, Oversize, Receive, Store, LedgerAdds, RecordRow, Go, GoWith, TypeOK,
            Active
  <2>. QED  BY <2>2, <2>3, <2>4, <2>5 DEF Continue, Answered
<1>. QED  BY <1>1, <1>2, <1>3, <1>4

\* What a proposal that begins is about to send.
LEMMA ProposeBegins ==
    ASSUME TypeOK, NEW w \in Worker, Begin(w)
    PROVE  /\ UNCHANGED <<ledger, artifacts>> /\ pc'[w] # "answer"
           /\ pc'[w] = "propose" =>
                 /\ local'[w].artifact \in DOMAIN artifacts
                 /\ artifacts[local'[w].artifact] = local'[w].body
                 /\ local'[w].id \notin DOMAIN calls
<1>1. UNCHANGED <<ledger, artifacts>> /\ pc[w] = "idle"
  BY DEF Begin, Search, ReverseImageSearch, GetMapTile, Fetch, Propose, MayStart
<1>2. CASE Search(w) \/ ReverseImageSearch(w) \/ GetMapTile(w) \/ Fetch(w)
  BY <1>1, <1>2 DEF Search, ReverseImageSearch, GetMapTile, Fetch, Start, StartAndEnd, TypeOK
<1>3. CASE Propose(w)
  <2>1. CASE \E url, status : StartAndEnd(w, "propose", url, status)
    BY <1>1, <2>1 DEF StartAndEnd
  <2>2. ASSUME NEW a \in 1 .. Len(artifacts) + 1, a <= Len(artifacts), ProposeStarts(w, a)
        PROVE  /\ pc'[w] = "propose" /\ local'[w].artifact = a /\ a \in DOMAIN artifacts
               /\ local'[w].body = artifacts[a] /\ local'[w].id = Len(calls) + 1
    BY <2>2, Typed DEF ProposeStarts, TypeOK, NoLocal
  <2>3. Len(calls) + 1 \notin DOMAIN calls
    BY Typed
  <2>. QED  BY <1>3, <2>1, <2>2, <2>3 DEF Propose
<1>. QED  BY <1>1, <1>2, <1>3 DEF Begin

LEMMA LedgerWorkerStep ==
    ASSUME TypeOK, OwnInv, LedgerInv, NEW w \in Worker, Begin(w) \/ Continue(w)
    PROVE  LedgerInv'
<1>1. /\ History /\ Others(w)
      /\ \/ Begin(w) /\ Begins(w) /\ ~Active(w)
         \/ Continue(w) /\ Active(w) /\ CallInv(w) /\ (GoesOn(w) \/ Ends(w))
  <2>1. Begin(w) => Begins(w)
    BY BeginStep
  <2>2. Continue(w) => Active(w)
    BY DEF Active, Continue, RecordInsert, RecordCommit, CommitFails, RecordAttest,
           AttestFails, Guard, Escapes, Hop, Connect, NetworkFails, Redirect, Oversize,
           Receive, Store, StoreFails, Remember, LedgerAdds, LedgerRefuses, Answered
  <2>. QED  BY <2>1, <2>2, StepHistory, WorkerStep DEF Next, Begins
<1>2. \A a \in DOMAIN artifacts : a \in DOMAIN artifacts' /\ artifacts'[a] = artifacts[a]
  BY <1>1 DEF History, Grows
<1>3. \A i \in DOMAIN ledger : i \in DOMAIN ledger' /\ ledger'[i] = ledger[i]
  BY <1>1 DEF History, Grows
<1>4. ASSUME NEW i \in DOMAIN ledger'
      PROVE  \/ i \in DOMAIN ledger /\ ledger'[i] = ledger[i]
             \/ /\ LedgerAdds(w) /\ i = Len(ledger) + 1
                /\ ledger'[i] = [call |-> local[w].id, artifact |-> local[w].artifact,
                                 sha |-> local[w].body]
  <2>1. CASE LedgerAdds(w)
    <3>1. [call |-> local[w].id, artifact |-> local[w].artifact, sha |-> local[w].body]
             \in [call : Nat, artifact : Nat, sha : Body]
      BY Typed DEF Local
    <3>2. /\ DOMAIN ledger' = 1 .. Len(ledger) + 1 /\ Len(ledger) \in Nat
          /\ DOMAIN ledger = 1 .. Len(ledger)
          /\ ledger'[Len(ledger) + 1] = [call |-> local[w].id, artifact |-> local[w].artifact,
                                         sha |-> local[w].body]
      BY <2>1, <3>1, AppendProperties, LenProperties, Typed DEF LedgerAdds, TypeOK
    <3>3. CASE i \in DOMAIN ledger
      BY <1>3, <3>3
    <3>4. CASE i \notin DOMAIN ledger
      <4>1. i = Len(ledger) + 1
        BY <1>4, <3>2, <3>4, AfterLast
      <4>. QED  BY <2>1, <3>2, <4>1
    <3>. QED  BY <3>3, <3>4
  <2>2. CASE UNCHANGED ledger
    BY <2>2
  <2>. QED  BY <1>1, <2>1, <2>2, ProposedStep, ProposeBegins
<1>5. LedgerAdds(w) =>
        /\ pc[w] = "propose" /\ pc'[w] = "answer" /\ local'[w] = local[w]
        /\ local[w].id \in DOMAIN calls
        /\ local[w].artifact \in DOMAIN artifacts
        /\ artifacts[local[w].artifact] = local[w].body
        /\ \A i \in DOMAIN ledger : ledger[i].call # local[w].id
        /\ Len(ledger) + 1 \in DOMAIN ledger'
  <2>1. ASSUME LedgerAdds(w) PROVE Len(ledger) + 1 \in DOMAIN ledger'
    <3>1. [call |-> local[w].id, artifact |-> local[w].artifact, sha |-> local[w].body]
             \in [call : Nat, artifact : Nat, sha : Body]
      BY Typed DEF Local
    <3>. QED  BY <2>1, <3>1, AppendProperties, LenProperties, Typed DEF LedgerAdds, TypeOK
  <2>. QED  BY <2>1 DEF LedgerAdds, Go, TypeOK, LedgerInv, OwnInv, CallInv, Active
<1>6. \A i \in DOMAIN ledger' :
        /\ ledger'[i].artifact \in DOMAIN artifacts' /\ ledger'[i].call \in DOMAIN calls'
        /\ artifacts'[ledger'[i].artifact] = ledger'[i].sha
  <2> TAKE i \in DOMAIN ledger'
  <2>1. CASE i \in DOMAIN ledger /\ ledger'[i] = ledger[i]
    BY <1>1, <1>2, <2>1 DEF LedgerInv, ProposalsAreTrue, History
  <2>2. CASE LedgerAdds(w) /\ ledger'[i] = [call |-> local[w].id, artifact |-> local[w].artifact,
                                            sha |-> local[w].body]
    BY <1>1, <1>2, <1>5, <2>2 DEF History
  <2>. QED  BY <1>4, <2>1, <2>2
<1>7. \A i, j \in DOMAIN ledger' : i # j => ledger'[i].call # ledger'[j].call
  <2>1. ASSUME NEW i \in DOMAIN ledger',
               LedgerAdds(w), ledger'[i] = [call |-> local[w].id, artifact |-> local[w].artifact,
                                            sha |-> local[w].body]
        PROVE  \A j \in DOMAIN ledger : ledger[j].call # ledger'[i].call
    BY <1>5, <2>1
  <2>. QED  BY <1>4, <2>1 DEF LedgerInv, ProposalsAreTrue
<1>8. ASSUME NEW c \in DOMAIN calls', calls'[c].status = "proposed"
      PROVE  \E i \in DOMAIN ledger' : ledger'[i].call = c
  <2>1. CASE c \in DOMAIN calls /\ ~(Active(w) /\ c = local[w].id)
    BY <1>1, <1>3, <1>8, <2>1 DEF Others, LedgerInv, ProposalsAreTrue
  <2>2. CASE Active(w) /\ c = local[w].id
    <3>1. calls[c] \in CallRecord /\ calls[c].status = "running"
      BY <1>1, <2>2, Typed DEF CallInv
    <3>2. ~Active(w)'
      BY <1>1, <1>8, <2>2, <3>1 DEF GoesOn, Ends, CallRecord
    <3>3. pc[w] = "answer"
      BY <1>1, <1>8, <2>2, <3>2, ProposedStep
    <3>. QED  BY <1>3, <2>2, <3>3 DEF LedgerInv
  <2>3. CASE c \notin DOMAIN calls
    <3>1. Begins(w) /\ Len(calls) \in Nat
      BY <1>1, <2>3, Typed DEF GoesOn, Ends
    <3>2. c = Len(calls) + 1
      BY <1>8, <2>3, <3>1, AfterLast DEF Begins
    <3>. QED  BY <1>8, <3>1, <3>2 DEF Begins
  <2>. QED  BY <2>1, <2>2, <2>3
<1>9. ASSUME NEW v \in Worker, pc'[v] = "propose"
      PROVE  /\ local'[v].artifact \in DOMAIN artifacts'
             /\ artifacts'[local'[v].artifact] = local'[v].body
             /\ \A i \in DOMAIN ledger' : ledger'[i].call # local'[v].id
  <2>1. CASE v = w
    <3>1. Begin(w)
      BY <1>1, <1>9, <2>1, ProposedStep
    <3>2. \A i \in DOMAIN ledger : ledger[i].call # local'[w].id
      BY <1>9, <2>1, <3>1, ProposeBegins DEF LedgerInv
    <3>. QED  BY <1>9, <2>1, <3>1, <3>2, ProposeBegins
  <2>2. CASE v # w
    <3>1. pc'[v] = pc[v] /\ local'[v] = local[v]
      BY <1>1, <2>2 DEF Others
    <3>2. LedgerAdds(w) => local[v].id # local[w].id
      BY <1>5, <1>9, <2>2, <3>1 DEF OwnInv, Active
    <3>. QED  BY <1>2, <1>4, <1>9, <3>1, <3>2 DEF LedgerInv
  <2>. QED  BY <2>1, <2>2
<1>10. ASSUME NEW v \in Worker, pc'[v] = "answer"
       PROVE  \E i \in DOMAIN ledger' : ledger'[i].call = local'[v].id
  <2>1. CASE v = w
    <3>1. LedgerAdds(w)
      BY <1>1, <1>10, <2>1, ProposedStep, ProposeBegins
    <3>2. Len(ledger) + 1 \in DOMAIN ledger' /\ Len(ledger) + 1 \notin DOMAIN ledger
      BY <1>5, <3>1, Typed
    <3>3. ledger'[Len(ledger) + 1].call = local[w].id
      BY <1>4, <3>2
    <3>. QED  BY <1>5, <2>1, <3>1, <3>2, <3>3
  <2>2. CASE v # w
    <3>1. pc'[v] = pc[v] /\ local'[v] = local[v]
      BY <1>1, <2>2 DEF Others
    <3>. QED  BY <1>3, <1>10, <3>1 DEF LedgerInv
  <2>. QED  BY <2>1, <2>2
<1>. QED  BY <1>6, <1>7, <1>8, <1>9, <1>10 DEF LedgerInv, ProposalsAreTrue

LEMMA LedgerHolds ==
    ASSUME TypeOK, ServesInv, OwnInv, LedgerInv, [Next]_vars
    PROVE  LedgerInv'
<1>1. CASE UNCHANGED vars
  BY <1>1 DEF vars, LedgerInv, ProposalsAreTrue
<1>2. CASE Boot
  BY <1>2 DEF Boot, LedgerInv, ProposalsAreTrue
<1>3. CASE Crash
  <2>1. /\ UNCHANGED <<ledger, artifacts>> /\ DOMAIN calls' = DOMAIN calls
        /\ \A w \in Worker : pc'[w] = "idle"
    BY <1>3, CrashCalls DEF Crash
  <2>2. ASSUME NEW c \in DOMAIN calls, calls'[c].status = "proposed"
        PROVE  calls[c].status = "proposed"
    <3>1. calls[c] \in CallRecord
      BY Typed
    <3>. QED  BY <1>3, <2>2, <3>1, CrashCalls DEF CallRecord
  <2>. QED  BY <2>1, <2>2 DEF LedgerInv, ProposalsAreTrue
<1>4. ASSUME NEW w \in Worker, Begin(w) \/ Continue(w) PROVE LedgerInv'
  BY <1>4, LedgerWorkerStep
<1>. QED  BY <1>1, <1>2, <1>3, <1>4 DEF Next

-----------------------------------------------------------------------------
(* How far a call is from its end.                                          *)

\* A call has a step left as long as it runs, and never more than the hops allow.
LEMMA StepsLeftType ==
    ASSUME TypeOK, HopsInv, NEW w \in Worker
    PROVE  /\ local[w].hops \in Nat /\ Hops(w) \in Nat /\ Hops(w) <= 3 * MaxRedirects
           /\ StepsLeft(w) \in 0 .. 3 * MaxRedirects + 13
           /\ StepsLeft(w) = 0 <=> ~Active(w)
<1>1. local[w].hops \in Nat /\ local[w].hops <= MaxRedirects /\ pc[w] \in Label
  BY Typed DEF Local, HopsInv
<1>2. Hops(w) \in Nat /\ Hops(w) <= 3 * MaxRedirects
  BY <1>1, EgressAssumption DEF Hops
<1>3. AfterRowLeft(w) = 0 \/ AfterRowLeft(w) = Hops(w) + 7
  BY DEF AfterRowLeft
<1>4. /\ pc[w] = "idle" => StepsLeft(w) = 0
      /\ pc[w] \in {"remember", "answer"} => StepsLeft(w) = 1
      /\ pc[w] = "propose" => StepsLeft(w) = 2
      /\ pc[w] = "store" => StepsLeft(w) = 6
  BY DEF StepsLeft
<1>5. /\ pc[w] = "attest" => StepsLeft(w) = AfterRowLeft(w) + 3
      /\ pc[w] = "commit" => StepsLeft(w) = AfterRowLeft(w) + 4
      /\ pc[w] = "record" => StepsLeft(w) = AfterRowLeft(w) + 5
  BY DEF StepsLeft
<1>6. /\ pc[w] = "response" => StepsLeft(w) = Hops(w) + 7
      /\ pc[w] = "connect" => StepsLeft(w) = Hops(w) + 8
      /\ pc[w] = "hop" => StepsLeft(w) = Hops(w) + 9
      /\ pc[w] = "guard" => StepsLeft(w) = Hops(w) + 13
  BY DEF StepsLeft
<1> HIDE DEF Hops, AfterRowLeft, StepsLeft
<1>7. pc[w] # "idle" => StepsLeft(w) \in 1 .. Hops(w) + 13
  BY <1>1, <1>2, <1>3, <1>4, <1>5, <1>6 DEF Label
<1>. QED  BY <1>1, <1>2, <1>4, <1>7, EgressAssumption DEF Active

\* A call that ends has no step left, and one that goes on fewer than before.
LEMMA ContinueCounts ==
    ASSUME TypeOK, HopsInv, NEW w \in Worker, Continue(w)
    PROVE  StepsLeft(w)' < StepsLeft(w) /\ local'[w].hops <= MaxRedirects
<1>0. /\ local[w].hops \in Nat /\ Hops(w) \in Nat /\ local[w].hops <= MaxRedirects
      /\ StepsLeft(w) \in Nat /\ (Active(w) => StepsLeft(w) > 0)
      /\ pc \in [Worker -> Label] /\ local \in [Worker -> Local] /\ local[w] \in Local
  BY StepsLeftType DEF HopsInv, TypeOK
<1>1. NoLocal.hops = 0 /\ MaxRedirects \in Nat
  BY EgressAssumption DEF NoLocal
<1>2. ASSUME NEW status, End(w, status), Active(w)
      PROVE  StepsLeft(w)' < StepsLeft(w) /\ local'[w].hops <= MaxRedirects
  <2>1. pc'[w] = "idle" /\ local'[w] = NoLocal
    BY <1>0, <1>2 DEF End
  <2>2. StepsLeft(w)' = 0
    BY <2>1 DEF StepsLeft
  <2>. QED  BY <1>0, <1>1, <1>2, <2>1, <2>2
\* A row that no attempt's: three steps, from a label with more.
<1>3. ASSUME NEW outcome \in Outcome, ~Attempting(outcome), RecordRow(w, outcome),
             pc[w] \in {"guard", "hop", "response", "store"}
      PROVE  StepsLeft(w)' < StepsLeft(w) /\ local'[w].hops <= MaxRedirects
  <2>1. pc'[w] = "record" /\ local'[w].row = outcome /\ local'[w].hops = local[w].hops
    BY <1>0, <1>3 DEF RecordRow, Local
  <2>2. StepsLeft(w)' = 5
    <3>1. AfterRowLeft(w)' = 0
      BY <1>3, <2>1 DEF AfterRowLeft
    <3>. QED  BY <2>1, <3>1 DEF StepsLeft
  <2>3. StepsLeft(w) >= 6
    <3>1. pc[w] \in {"guard", "hop", "response", "store"} /\ Hops(w) \in Nat
      BY <1>0, <1>3
    <3>. QED  BY ONLY <3>1 DEF StepsLeft
  <2>. QED  BY <1>0, <2>1, <2>2, <2>3
<1>4. ASSUME NEW label \in {"commit", "attest", "hop", "remember", "response", "answer"},
             Go(w, label)
      PROVE  /\ pc'[w] = label /\ local' = local /\ Hops(w)' = Hops(w)
             /\ AfterRowLeft(w)' = AfterRowLeft(w) /\ local'[w].hops <= MaxRedirects
  BY <1>0, <1>4 DEF Go, Hops, AfterRowLeft, Attempting
<1>5. AfterRowLeft(w) \in Nat
  BY <1>0 DEF AfterRowLeft
<1>6. CASE RecordInsert(w)
  BY <1>4, <1>5, <1>6 DEF RecordInsert, StepsLeft
<1>7. CASE RecordCommit(w)
  BY <1>4, <1>5, <1>7 DEF RecordCommit, StepsLeft
<1>8. CASE RecordAttest(w)
  <2>1. pc[w] = "attest" /\ AfterRow(w)
    BY <1>8 DEF RecordAttest
  <2>2. StepsLeft(w) = AfterRowLeft(w) + 3
    BY <2>1 DEF StepsLeft
  <2>3. CASE Attempting(local[w].row) /\ Go(w, "hop")
    <3>1. StepsLeft(w)' = Hops(w) + 9 /\ AfterRowLeft(w) = Hops(w) + 7
      BY <1>4, <2>3 DEF StepsLeft, AfterRowLeft
    <3>. QED  BY <1>0, <1>4, <2>2, <2>3, <3>1
  <2>4. CASE Go(w, "remember")
    <3>1. StepsLeft(w)' = 1
      BY <1>4, <2>4 DEF StepsLeft
    <3>. QED  BY <1>4, <1>5, <2>2, <2>4, <3>1
  <2>5. CASE End(w, "no connector") \/ End(w, local[w].row)
    BY <1>2, <2>1, <2>5 DEF Active
  <2>. QED  BY <2>1, <2>3, <2>4, <2>5 DEF AfterRow, Attempting
<1>9. CASE CommitFails(w) \/ AttestFails(w) \/ Escapes(w) \/ StoreFails(w) \/ LedgerRefuses(w)
           \/ Answered(w)
  <2>1. Active(w) /\ \E status \in Outcome \cup Unrecorded : End(w, status)
    BY <1>9 DEF CommitFails, AttestFails, Escapes, StoreFails, LedgerRefuses, Answered,
            Active, Unrecorded
  <2>. QED  BY <1>2, <2>1
<1>10. CASE Guard(w)
  <2>1. pc[w] = "guard" /\ \E outcome \in Outcome : RecordRow(w, outcome)
    BY <1>10 DEF Guard, Outcome
  <2>2. PICK outcome \in Outcome : RecordRow(w, outcome)
    BY <2>1
  <2>3. CASE Attempting(outcome)
    <3>1. pc'[w] = "record" /\ local'[w].row = outcome /\ local'[w].hops = local[w].hops
      BY <1>0, <2>2 DEF RecordRow, Local
    <3>2. Hops(w)' = Hops(w)
      BY <3>1 DEF Hops
    <3>3. StepsLeft(w)' = Hops(w) + 12
      <4>1. AfterRowLeft(w)' = Hops(w) + 7
        BY <2>3, <3>1, <3>2 DEF AfterRowLeft
      <4>. QED  BY <1>0, <3>1, <4>1 DEF StepsLeft
    <3>4. StepsLeft(w) = Hops(w) + 13
      BY <2>1 DEF StepsLeft
    <3>. QED  BY <1>0, <3>1, <3>3, <3>4
  <2>. QED  BY <1>3, <2>1, <2>2, <2>3
<1>11. ASSUME NEW label \in {"hop", "connect", "store"}, NEW l \in Local, GoWith(w, label, l)
       PROVE  pc'[w] = label /\ local'[w] = l /\ Hops(w)' = 3 * (MaxRedirects - l.hops)
  BY <1>0, <1>11 DEF GoWith, Hops
<1>12. CASE Hop(w)
  <2>1. CASE RecordRow(w, "blocked (fetch guard)")
    BY <1>3, <1>12, <2>1 DEF Hop, Outcome, Attempting
  <2>2. ASSUME NEW ip \in Public \cup Internal,
               GoWith(w, "connect", [local[w] EXCEPT !.ip = ip])
        PROVE  StepsLeft(w)' < StepsLeft(w) /\ local'[w].hops <= MaxRedirects
    <3> DEFINE l == [local[w] EXCEPT !.ip = ip]
    <3>1. l \in Local /\ l.hops = local[w].hops
      BY <1>0 DEF Local
    <3> HIDE DEF l
    <3>2. pc'[w] = "connect" /\ local'[w] = l /\ Hops(w)' = Hops(w)
      BY <1>11, <2>2, <3>1 DEF l, Hops
    <3>3. StepsLeft(w)' = Hops(w) + 8 /\ StepsLeft(w) = Hops(w) + 9
      BY <1>12, <3>2 DEF Hop, StepsLeft
    <3>. QED  BY <1>0, <3>1, <3>2, <3>3
  <2>. QED  BY <1>12, <2>1, <2>2 DEF Hop
<1>13. CASE Connect(w)
  <2>1. StepsLeft(w)' = Hops(w) + 7 /\ StepsLeft(w) = Hops(w) + 8
    BY <1>4, <1>13 DEF Connect, StepsLeft
  <2>. QED  BY <1>0, <1>4, <1>13, <2>1 DEF Connect
<1>14. CASE NetworkFails(w) \/ Oversize(w)
  BY <1>3, <1>14 DEF NetworkFails, Oversize, Outcome, Attempting
<1>15. CASE Redirect(w)
  <2>1. CASE RecordRow(w, "blocked (fetch guard)")
    BY <1>3, <1>15, <2>1 DEF Redirect, Outcome, Attempting
  <2>2. ASSUME NEW u \in Url, local[w].hops + 1 <= MaxRedirects,
               GoWith(w, "hop", [local[w] EXCEPT !.cur = u, !.hops = local[w].hops + 1])
        PROVE  StepsLeft(w)' < StepsLeft(w) /\ local'[w].hops <= MaxRedirects
    <3> DEFINE n == local[w].hops + 1
               m == [local[w] EXCEPT !.cur = u]
               l == [m EXCEPT !.hops = n]
    <3>1. n \in Nat
      BY <1>0
    <3>2. m \in Local
      BY <1>0 DEF Local
    <3>3. GoWith(w, "hop", l)
      BY <2>2
    <3> HIDE DEF m, n
    <3>4. l \in Local /\ l.hops = n
      BY <3>1, <3>2 DEF Local
    <3> HIDE DEF l
    <3>5. pc'[w] = "hop" /\ local'[w] = l /\ Hops(w)' = 3 * (MaxRedirects - n)
      BY <1>11, <3>3, <3>4
    <3>6. 3 * (MaxRedirects - n) = Hops(w) - 3
      BY <1>0, <1>1 DEF n, Hops
    <3>7. StepsLeft(w)' = Hops(w) + 6 /\ StepsLeft(w) = Hops(w) + 7
      <4>1. pc[w] = "response" /\ StepsLeft(w)' = Hops(w)' + 9
        BY <1>15, <3>5 DEF Redirect, StepsLeft
      <4>2. StepsLeft(w) = Hops(w) + 7
        BY <4>1 DEF StepsLeft
      <4>. QED  BY <1>0, <3>5, <3>6, <4>1, <4>2
    <3>8. local'[w].hops <= MaxRedirects
      BY <2>2, <3>4, <3>5 DEF n
    <3>. QED  BY <1>0, <3>7, <3>8
  <2>3. ~ (local[w].hops + 1 > MaxRedirects) => local[w].hops + 1 <= MaxRedirects
    BY <1>0, <1>1
  <2>. QED  BY <1>15, <2>1, <2>2, <2>3, Zenon DEF Redirect
<1>16. CASE Receive(w)
  <2>1. PICK b \in Body : GoWith(w, "store", [local[w] EXCEPT !.body = b])
    BY <1>16 DEF Receive
  <2> DEFINE l == [local[w] EXCEPT !.body = b]
  <2>2. l \in Local /\ l.hops = local[w].hops
    BY <1>0 DEF Local
  <2> HIDE DEF l
  <2>3. pc'[w] = "store" /\ local'[w] = l
    BY <1>11, <2>1, <2>2 DEF l
  <2>4. StepsLeft(w)' = 6 /\ StepsLeft(w) = Hops(w) + 7
    BY <1>16, <2>3 DEF Receive, StepsLeft
  <2>. QED  BY <1>0, <2>2, <2>3, <2>4
<1>17. CASE Store(w)
  <2>1. pc'[w] = "record" /\ local'[w].row = "ok" /\ local'[w].hops = local[w].hops
    BY <1>0, <1>17 DEF Store, Local
  <2>2. ~Attempting(local'[w].row)
    BY <2>1 DEF Attempting
  <2>3. AfterRowLeft(w)' = 0
    BY <2>2 DEF AfterRowLeft
  <2>4. StepsLeft(w)' = 5 /\ StepsLeft(w) = 6
    BY <1>17, <2>1, <2>3 DEF Store, StepsLeft
  <2>. QED  BY <1>0, <2>1, <2>4
<1>18. CASE Remember(w)
  <2>1. pc'[w] = "idle" /\ local'[w] = NoLocal
    BY <1>0, <1>18 DEF Remember
  <2>2. StepsLeft(w)' = 0 /\ StepsLeft(w) = 1
    BY <1>18, <2>1 DEF Remember, StepsLeft
  <2>. QED  BY <1>1, <2>1, <2>2
<1>19. CASE LedgerAdds(w)
  <2>1. StepsLeft(w)' = 1 /\ StepsLeft(w) = 2
    BY <1>4, <1>19 DEF LedgerAdds, StepsLeft
  <2>. QED  BY <1>4, <1>19, <2>1 DEF LedgerAdds
<1>. QED  BY <1>6, <1>7, <1>8, <1>9, <1>10, <1>12, <1>13, <1>14, <1>15, <1>16, <1>17, <1>18,
              <1>19 DEF Continue

\* A new call has followed no redirect yet.
LEMMA BeginHops ==
    ASSUME TypeOK, HopsInv, NEW w \in Worker, Begin(w)
    PROVE  local'[w].hops <= MaxRedirects
<1>1. NoLocal.hops = 0 /\ MaxRedirects \in Nat /\ NoLocal \in Local
  BY EgressAssumption, NoLocalType DEF NoLocal
<1>2. local[w].hops <= MaxRedirects /\ local \in [Worker -> Local]
  BY DEF HopsInv, TypeOK
<1>3. ASSUME NEW tool, NEW url, NEW confirmed, NEW artifact, NEW label, NEW row,
             Start(w, tool, url, confirmed, artifact, label, row)
      PROVE  local'[w].hops <= MaxRedirects
  BY <1>1, <1>2, <1>3 DEF Start, Local
<1>4. ASSUME NEW a, ProposeStarts(w, a)
      PROVE  local'[w].hops <= MaxRedirects
  BY <1>1, <1>2, <1>4 DEF ProposeStarts, Local
<1>5. ASSUME local' = local
      PROVE  local'[w].hops <= MaxRedirects
  BY <1>2, <1>5
<1>. QED  BY <1>3, <1>4, <1>5 DEF Begin, Search, ReverseImageSearch, GetMapTile, Fetch,
              Propose, StartAndEnd

\* Whoever takes the lock works, and gives it back when it has done.
LEMMA LockKept ==
    ASSUME TypeOK, OwnInv, LockInv, NEW w \in Worker, Begin(w) \/ Continue(w)
    PROVE  LockInv'
<1>0. \A v \in Worker \ {w} : pc'[v] = pc[v]
  BY WorkerStep DEF Others
<1>1. \A v \in Worker : pc[v] \in {"commit", "attest"} => lock = v
  BY DEF OwnInv, CallInv, Active
<1>2. CASE RecordInsert(w)
  BY <1>2 DEF RecordInsert, Go, LockInv, TypeOK
<1>3. CASE RecordCommit(w)
  <2>1. lock' = w /\ pc'[w] = "attest"
    BY <1>1, <1>3 DEF RecordCommit, Go, TypeOK
  <2>. QED  BY <2>1 DEF LockInv
<1>4. CASE CommitFails(w) \/ RecordAttest(w) \/ AttestFails(w)
  BY <1>4 DEF CommitFails, RecordAttest, AttestFails, LockInv
<1>5. CASE UNCHANGED lock /\ pc[w] \notin {"commit", "attest"}
  BY <1>0, <1>5 DEF LockInv
<1>6. CASE Begin(w)
  BY <1>5, <1>6 DEF Begin, Search, ReverseImageSearch, GetMapTile, Fetch, Propose, MayStart,
          audit
<1>7. CASE \/ Guard(w) \/ Escapes(w) \/ Hop(w) \/ Connect(w) \/ NetworkFails(w)
           \/ Redirect(w) \/ Oversize(w) \/ Receive(w) \/ Store(w) \/ StoreFails(w)
           \/ Remember(w) \/ LedgerAdds(w) \/ LedgerRefuses(w) \/ Answered(w)
  BY <1>5, <1>7 DEF Guard, Escapes, Hop, Connect, NetworkFails, Redirect, Oversize, Receive,
          Store, StoreFails, Remember, LedgerAdds, LedgerRefuses, Answered, audit
<1>. QED  BY <1>2, <1>3, <1>4, <1>6, <1>7 DEF Continue

\* The calls that run have threads that run them, the audit's lock a thread that works.
LEMMA RunHolds ==
    ASSUME TypeOK, OwnInv, ServesInv, RunInv, [Next]_vars
    PROVE  RunInv'
<1>1. CASE UNCHANGED vars
  BY <1>1 DEF vars, process, audit, RunInv, NoOrphans, LockInv, HopsInv, Active
<1>2. CASE Boot
  BY <1>2 DEF Boot, RunInv, NoOrphans, LockInv, HopsInv, Active, audit
<1>3. CASE Crash
  <2>1. NoOrphans'
    <3>1. \A c \in DOMAIN calls' : calls'[c].status # "running"
      <4> SUFFICES ASSUME NEW c \in DOMAIN calls' PROVE calls'[c].status # "running"
        OBVIOUS
      <4>1. c \in DOMAIN calls /\ calls[c] \in CallRecord
        BY <1>3, CrashCalls, Typed
      <4>2. calls'[c] = IF calls[c].status = "running"
                        THEN [calls[c] EXCEPT !.status = "lost"] ELSE calls[c]
        BY <1>3, <4>1, CrashCalls
      <4>. QED  BY <4>1, <4>2 DEF CallRecord
    <3>. QED  BY <3>1 DEF NoOrphans
  <2>2. LockInv' /\ HopsInv'
    <3>1. NoLocal.hops = 0 /\ MaxRedirects \in Nat
      BY EgressAssumption DEF NoLocal
    <3>. QED  BY <1>3, <3>1 DEF Crash, LockInv, HopsInv
  <2>. QED  BY <2>1, <2>2 DEF RunInv
<1>4. ASSUME NEW w \in Worker, Begin(w) \/ Continue(w)
      PROVE  RunInv'
  <2>0. /\ TypeOK' /\ Others(w)
        /\ \/ Begin(w) /\ Begins(w)
           \/ Continue(w) /\ Active(w) /\ CallInv(w) /\ (GoesOn(w) \/ Ends(w))
    BY <1>4, WorkerStep
  <2>1. NoOrphans'
    <3> SUFFICES ASSUME NEW c \in DOMAIN calls', calls'[c].status = "running"
                 PROVE  \E v \in Worker : Active(v)' /\ local'[v].id = c
      BY DEF NoOrphans
    <3>1. CASE c \in DOMAIN calls /\ ~(Active(w) /\ c = local[w].id)
      <4>1. calls'[c] = calls[c]
        BY <2>0, <3>1 DEF Others
      <4>2. PICK v \in Worker : Active(v) /\ local[v].id = c
        BY <3>1, <4>1 DEF RunInv, NoOrphans
      <4>3. v # w
        BY <3>1, <4>2
      <4>. QED  BY <2>0, <4>2, <4>3 DEF Others, Active
    <3>2. CASE Active(w) /\ c = local[w].id
      <4>1. Continue(w) /\ CallInv(w) /\ (GoesOn(w) \/ Ends(w))
        BY <2>0, <3>2 DEF Begins
      <4>2. CASE GoesOn(w)
        BY <3>2, <4>2 DEF GoesOn
      <4>3. CASE Ends(w)
        <5>1. calls[c] \in CallRecord
          BY <3>2, <4>1, Typed DEF CallInv
        <5>2. PICK status \in (Outcome \cup Unrecorded) \ {"running"}, u \in Url :
                 calls'[c] = [calls[c] EXCEPT !.status = status, !.final = u]
          BY <3>2, <4>3 DEF Ends
        <5>3. calls'[c].status = status
          BY <5>1, <5>2 DEF CallRecord
        <5>. QED  BY <5>3
      <4>. QED  BY <4>1, <4>2, <4>3
    <3>3. CASE c \notin DOMAIN calls
      <4>1. Begins(w)
        BY <2>0, <3>3 DEF GoesOn, Ends
      <4>2. Len(calls) \in Nat
        BY Typed
      <4>3. DOMAIN calls = 1 .. Len(calls) /\ DOMAIN calls' = 1 .. Len(calls) + 1
        BY <4>1, Typed DEF Begins
      <4>5. c = Len(calls) + 1
        BY <3>3, <4>2, <4>3
      <4>4. Active(w)' /\ local'[w].id = c
        BY <4>1, <4>5 DEF Begins
      <4>. QED  BY <4>4
    <3>. QED  BY <3>1, <3>2, <3>3
  <2>2. HopsInv'
    <3>1. local'[w].hops <= MaxRedirects
      <4>1. CASE Continue(w)
        BY <4>1, ContinueCounts DEF RunInv
      <4>2. CASE Begin(w)
        BY <4>2, BeginHops DEF RunInv
      <4>. QED  BY <1>4, <4>1, <4>2
    <3>2. \A v \in Worker \ {w} : local'[v].hops <= MaxRedirects
      BY <2>0 DEF Others, RunInv, HopsInv
    <3>. QED  BY <3>1, <3>2 DEF HopsInv
  <2>3. LockInv'
    BY <1>4, <2>0, LockKept DEF RunInv
  <2>. QED  BY <2>1, <2>2, <2>3 DEF RunInv
<1>. QED  BY <1>1, <1>2, <1>3, <1>4 DEF Next

\* Every step of a call brings it nearer to its end, and no step of another thread and no
\* start leads it away from there.
LEMMA StepCounts ==
    ASSUME TypeOK, OwnInv, RunInv, [Next]_vars
    PROVE  [RunsDown]_vars
<1> SUFFICES ASSUME NEW w \in Worker, Next
             PROVE  /\ Continue(w) => StepsLeft(w)' < StepsLeft(w)
                    /\ ~Begin(w) /\ ~Continue(w) => StepsLeft(w)' \in {0, StepsLeft(w)}
  BY DEF RunsDown
<1>1. CASE Continue(w)
  BY <1>1, ContinueCounts DEF RunInv
<1>2. ASSUME pc'[w] = pc[w], local'[w] = local[w]
      PROVE  StepsLeft(w)' = StepsLeft(w)
  <2>1. Hops(w)' = Hops(w) /\ AfterRowLeft(w)' = AfterRowLeft(w)
    BY <1>2 DEF Hops, AfterRowLeft
  <2>. QED  BY <1>2, <2>1 DEF StepsLeft
<1>3. CASE \E v \in Worker \ {w} : Begin(v) \/ Continue(v)
  <2>1. pc'[w] = pc[w] /\ local'[w] = local[w]
    BY <1>3, WorkerStep DEF Others
  <2>2. StepsLeft(w)' = StepsLeft(w)
    BY <1>2, <2>1
  <2>. QED  BY <1>1, <2>2
<1>4. CASE Boot
  <2>1. pc'[w] = pc[w] /\ local'[w] = local[w]
    BY <1>4 DEF Boot
  <2>2. StepsLeft(w)' = StepsLeft(w)
    BY <1>2, <2>1
  <2>. QED  BY <1>1, <2>2
<1>5. CASE Crash
  <2>1. pc'[w] = "idle"
    BY <1>5 DEF Crash
  <2>2. StepsLeft(w)' = 0
    BY <2>1, Zenon DEF StepsLeft
  <2>. QED  BY <1>1, <2>2
<1>. QED  BY <1>1, <1>3, <1>4, <1>5 DEF Next

-----------------------------------------------------------------------------
(* The theorems.                                                            *)

\* The inductive invariant holds: of the calls, the audit's rows, the gates and the ledger.
THEOREM EgressInvHolds == Spec => []EgressInv
<1>1. Init => EgressInv
  <2> SUFFICES ASSUME Init PROVE EgressInv
    OBVIOUS
  <2>1. TypeOK
    <3>1. /\ << >> \in Seq(Row) /\ << >> \in Seq(Nat) /\ << >> \in Seq(Body)
          /\ << >> \in Seq([call : Nat, artifact : Nat, sha : Body])
          /\ << >> \in Seq(CallRecord)
      BY EmptySeq
    <3>. QED  BY <3>1, NoLocalType, EgressAssumption DEF Init, TypeOK, Label
  <2>2. \A w \in Worker : pc[w] = "idle"
    BY DEF Init
  <2>3. DOMAIN log = {} /\ DOMAIN open = {} /\ DOMAIN calls = {} /\ DOMAIN ledger = {}
    BY DEF Init
  <2>4. ServesInv /\ OwnInv
    BY <2>2 DEF Init, ServesInv, OwnInv, Active
  <2>5. AuditInv
    BY <2>2, <2>3 DEF AuditInv, OpenInv, EndsAsRecorded, Active, Recording
  <2>6. GateInv
    BY <2>2, <2>3 DEF Init, GateInv, PassedInv, Live, Recording, AttemptPrecedesConnection,
            OnlyGuardedConnections, UnconfirmedFollowsOk
  <2>7. LedgerInv
    BY <2>2, <2>3 DEF LedgerInv, ProposalsAreTrue
  <2>8. RunInv
    <3>1. NoLocal.hops = 0 /\ MaxRedirects \in Nat
      BY EgressAssumption DEF NoLocal
    <3>. QED  BY <2>3, <3>1 DEF Init, RunInv, NoOrphans, LockInv, HopsInv
  <2>. QED  BY <2>1, <2>4, <2>5, <2>6, <2>7, <2>8 DEF EgressInv
<1>2. EgressInv /\ [Next]_vars => EgressInv'
  BY OwnStep, RunHolds, AuditHolds, GateHolds, LedgerHolds DEF EgressInv
<1>. QED  BY <1>1, <1>2, PTL DEF Spec

\* The state is typed.
THEOREM TypeCorrect == Spec => []TypeOK
<1>1. EgressInv => TypeOK
  BY DEF EgressInv
<1>. QED  BY <1>1, EgressInvHolds, PTL

\* No connection before the attested row of its attempt (server.py:190-194).
THEOREM AttemptsComeFirst == Spec => []AttemptPrecedesConnection
<1>1. EgressInv => AttemptPrecedesConnection
  BY DEF EgressInv, GateInv
<1>. QED  BY <1>1, EgressInvHolds, PTL

\* Only addresses that the guard allows, and no URL with an identifier in it
\* (egress.py:171-173, server.py:90-99 and 440-448).
THEOREM ConnectionsAreGuarded == Spec => []OnlyGuardedConnections
<1>1. EgressInv => OnlyGuardedConnections
  BY DEF EgressInv, GateInv
<1>. QED  BY <1>1, EgressInvHolds, PTL

\* An unconfirmed fetch follows a recorded success of its URL in the same process
\* (server.py:162-167, 213).
THEOREM ProvenanceIsRecorded == Spec => []UnconfirmedFollowsOk
<1>1. EgressInv => UnconfirmedFollowsOk
  BY DEF EgressInv, GateInv
<1>. QED  BY <1>1, EgressInvHolds, PTL

\* A call that ended with an answer or a named error has left exactly the rows of its end
\* (server.py:102-122 and 190-212).
THEOREM AnswersAreRecorded == Spec => []EndsAsRecorded
<1>1. EgressInv => EndsAsRecorded
  BY DEF EgressInv, AuditInv
<1>. QED  BY <1>1, EgressInvHolds, PTL

\* Evidence names the bytes of its artifact, added once for each call that says so
\* (server.py:343-376).
THEOREM ProposalsStayTrue == Spec => []ProposalsAreTrue
<1>1. EgressInv => ProposalsAreTrue
  BY DEF EgressInv, LedgerInv
<1>. QED  BY <1>1, EgressInvHolds, PTL

\* Nothing that was written is rewritten: rows, manifest lines, artifacts and evidence are
\* only added, and a call that has ended keeps how it ended.
THEOREM NothingIsRewritten == Spec => [][History]_vars
<1>1. EgressInv /\ [Next]_vars => [History]_vars
  BY StepHistory DEF EgressInv
<1>. QED  BY <1>1, EgressInvHolds, PTL DEF Spec

\* Why every call ends, however a remote host redirects (egress.py:174-179): a running call
\* has a thread, which has at most 3 * MaxRedirects + 13 steps left and gets nearer to the
\* end with each; and the lock it may wait for is held by a thread whose next step needs
\* none.  What this leaves to fairness is that a thread inside a call goes on.
THEOREM CallsRunDown ==
    Spec => /\ [](\A w \in Worker :
                     /\ StepsLeft(w) \in 0 .. 3 * MaxRedirects + 13
                     /\ StepsLeft(w) = 0 <=> ~Active(w))
            /\ [](NoOrphans /\ LockInv)
            /\ [][RunsDown]_vars
<1>1. EgressInv => \A w \in Worker :
                      /\ StepsLeft(w) \in 0 .. 3 * MaxRedirects + 13
                      /\ StepsLeft(w) = 0 <=> ~Active(w)
  BY StepsLeftType DEF EgressInv, RunInv
<1>2. EgressInv => NoOrphans /\ LockInv
  BY DEF EgressInv, RunInv
<1>3. EgressInv /\ [Next]_vars => [RunsDown]_vars
  BY StepCounts DEF EgressInv
<1>. QED  BY <1>1, <1>2, <1>3, EgressInvHolds, PTL DEF Spec

=============================================================================
