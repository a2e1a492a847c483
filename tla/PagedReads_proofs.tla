------------------------- MODULE PagedReads_proofs -------------------------
(***************************************************************************)
(* A listing read to its end is complete, for any number of rows, inserts, *)
(* rollbacks, page sizes and crashes.                                      *)
(*                                                                         *)
(* The heart of it: a cursor is given only if the SELECT found a further   *)
(* row, and only the last row of the table can be uncommitted, so the      *)
(* cursor is a committed row's seq and no rollback can take it back.       *)
(***************************************************************************)
EXTENDS PagedReads, FiniteSetTheorems, TLAPS

-----------------------------------------------------------------------------
(* Types.                                                                   *)

\* Every step keeps the variables in their types.
LEMMA TypeStep == ListingInv /\ [Next]_vars => TypeOK'
<1> SUFFICES ASSUME ListingInv, [Next]_vars PROVE TypeOK'
  OBVIOUS
<1> USE PagedAssumption DEF ListingInv, TypeOK, Grown, table, client
<1>1. CASE Insert
  BY <1>1 DEF Insert, Row
<1>2. CASE Commit
  BY <1>2 DEF Commit
<1>3. CASE Rollback
  BY <1>3 DEF Rollback
<1>4. ASSUME NEW s \in DOMAIN rows, Resolve(s) PROVE TypeOK'
  <2>0. rows[s] \in Row
    OBVIOUS
  <2>1. [rows[s] EXCEPT !.resolved = TRUE] \in Row
    BY ONLY <2>0 DEF Row
  <2>2. rows' = [rows EXCEPT ![s] = [rows[s] EXCEPT !.resolved = TRUE]]
    BY <1>4 DEF Resolve
  <2>3. rows' \in Seq(Row)
    BY <2>1, <2>2
  <2> QED
    BY <1>4, <2>3 DEF Resolve
<1>5. CASE Begin
  BY <1>5 DEF Begin
<1>6. CASE Page
  <2>1. PICK limit \in Limits : \E S \in FirstRows(Clamped(limit)) :
            /\ page' = {[seq |-> s, id |-> rows[s].id] : s \in S}
            /\ more' = (S # Matching)
    BY <1>6 DEF Page
  <2>2. PICK S \in FirstRows(Clamped(limit)) :
            /\ page' = {[seq |-> s, id |-> rows[s].id] : s \in S}
            /\ more' = (S # Matching)
    BY <2>1
  <2>3. \A s \in S : s \in Nat /\ rows[s] \in Row
    BY <2>2 DEF FirstRows, Matching
  <2>4. page' \subseteq Ref
    BY ONLY <2>2, <2>3 DEF Ref, Row
  <2>5. more' \in BOOLEAN
    BY <2>2
  <2>6. items' \in Seq(Ref)
    BY <1>6 DEF Page
  <2> QED
    BY <1>6, <2>4, <2>5, <2>6 DEF Page
<1>7. CASE Get
  <2>1. PICK r \in page :
            /\ page' = page \ {r} /\ last' = r.seq
            /\ items' = IF Wanted(rows[r.seq]) THEN Append(items, r) ELSE items
    BY <1>7 DEF Get
  <2>2. r \in Ref
    BY <2>1
  <2>3. last' \in Nat
    BY ONLY <2>1, <2>2 DEF Ref
  <2>4. items' \in Seq(Ref)
    BY <2>1, <2>2
  <2> QED
    BY <1>7, <2>1, <2>3, <2>4 DEF Get
<1>8. CASE Vanished
  BY <1>8 DEF Vanished, AskAgain
<1>9. CASE Answer
  BY <1>9 DEF Answer
<1>10. CASE Crash
  BY <1>10 DEF Crash, AskAgain
<1>11. CASE UNCHANGED vars
  BY <1>11 DEF vars
<1> QED
  BY <1>1, <1>2, <1>3, <1>4, <1>5, <1>6, <1>7, <1>8, <1>9, <1>10, <1>11
     DEF Next, Write, Read

-----------------------------------------------------------------------------
(* The rows.                                                                *)

\* The rows that were committed at the beginning stay, and none becomes owed that was
\* not.
LEMMA TableStep ==
  ASSUME ListingInv, [Next]_vars
  PROVE  /\ Grown'
         /\ durable <= durable'
         /\ pc # "idle" => before' = before /\ wanted' = wanted
         /\ pc # "idle" => \A s \in DOMAIN before : Owed(s)' => Owed(s)
<1> USE DEF ListingInv, TypeOK, Grown, Owed, table, client
<1>0. \A s \in DOMAIN before : s \in DOMAIN rows /\ s \in 1 .. durable
  OBVIOUS
<1>1. CASE Insert
  <2>1. \A s \in DOMAIN rows : rows'[s] = rows[s]
    BY <1>1 DEF Insert
  <2>2. Len(rows') = Len(rows) + 1
    BY <1>1 DEF Insert
  <2> QED
    BY <1>0, <1>1, <2>1, <2>2 DEF Insert, InTransaction
<1>2. CASE Commit
  BY <1>2 DEF Commit, InTransaction
<1>3. CASE Rollback
  <2>1. Len(rows') = durable /\ \A s \in 1 .. durable : rows'[s] = rows[s]
    BY <1>3 DEF Rollback
  <2> QED
    BY <1>0, <1>3, <2>1 DEF Rollback
<1>4. ASSUME NEW t \in DOMAIN rows, Resolve(t)
      PROVE  /\ Grown'
             /\ durable <= durable'
             /\ pc # "idle" => before' = before /\ wanted' = wanted
             /\ pc # "idle" => \A s \in DOMAIN before : Owed(s)' => Owed(s)
  <2>1. Len(rows') = Len(rows)
    BY <1>4 DEF Resolve
  <2>2. \A s \in DOMAIN rows : /\ rows'[s].id = rows[s].id
                               /\ rows'[s].matches = rows[s].matches
                               /\ rows[s].resolved => rows'[s].resolved
    BY <1>4 DEF Resolve, Row
  <2> QED
    BY <1>0, <1>4, <2>1, <2>2 DEF Resolve
<1>5. CASE Begin
  <2>1. Len(before') = durable /\ \A s \in 1 .. durable : before'[s] = rows[s]
    BY <1>5 DEF Begin
  <2> QED
    BY <1>5, <2>1 DEF Begin
<1>6. CASE Page
  BY <1>6 DEF Page
<1>7. CASE Get
  BY <1>7 DEF Get
<1>8. CASE Vanished
  BY <1>8 DEF Vanished, AskAgain
<1>9. CASE Answer
  BY <1>9 DEF Answer
<1>10. CASE Crash
  <2>1. Len(rows') = durable /\ \A s \in 1 .. durable : rows'[s] = rows[s]
    BY <1>10 DEF Crash
  <2> QED
    BY <1>0, <1>10, <2>1 DEF Crash, AskAgain
<1>11. CASE UNCHANGED vars
  BY <1>11 DEF vars
<1> QED
  BY <1>1, <1>2, <1>3, <1>4, <1>5, <1>6, <1>7, <1>8, <1>9, <1>10, <1>11
     DEF Next, Write, Read

-----------------------------------------------------------------------------
(* The listing.                                                             *)

\* A write, or a step of nobody, leaves what the client knows true.
LEMMA WriteKeeps ==
  ASSUME ListingInv, [Next]_vars, UNCHANGED client
  PROVE  Received' /\ InCall'
<1>1. /\ durable <= durable' /\ durable \in Nat /\ durable' \in Nat
      /\ pc # "idle" => \A s \in DOMAIN before : Owed(s)' => Owed(s)
  BY TableStep, TypeStep DEF ListingInv, TypeOK
<1>2. /\ pc' = pc /\ after' = after /\ page' = page /\ more' = more /\ last' = last
      /\ items' = items /\ seen' = seen /\ before' = before
  BY DEF client
<1>3. /\ after \in Nat /\ last \in Nat /\ page \subseteq Ref
      /\ pc \in {"idle", "page", "get", "done"}
  BY DEF ListingInv, TypeOK
<1>4. \A r \in page : r.seq \in Nat
  BY <1>3 DEF Ref
<1>5. Received'
  BY <1>1, <1>2, <1>3 DEF ListingInv, Received, Increasing, Holds
<1>6. InCall'
  BY <1>1, <1>2, <1>3, <1>4 DEF ListingInv, InCall, Increasing, Holds
<1> QED
  BY <1>5, <1>6

\* A call that fails is forgotten.
LEMMA AskAgainKeeps ==
  ASSUME ListingInv, [Next]_vars, pc = "get", AskAgain
  PROVE  Received' /\ InCall'
<1>1. /\ durable <= durable' /\ durable \in Nat /\ durable' \in Nat
      /\ before' = before
      /\ \A s \in DOMAIN before : Owed(s)' => Owed(s)
  BY TableStep, TypeStep DEF ListingInv, TypeOK
<1>2. pc' = "page" /\ after' = after /\ seen' = seen /\ after \in Nat
  BY DEF AskAgain, ListingInv, TypeOK
<1> QED
  BY <1>1, <1>2 DEF ListingInv, Received, InCall, Increasing, Holds

\* The first call.
LEMMA BeginKeeps ==
  ASSUME ListingInv, Begin
  PROVE  Received' /\ InCall'
<1>1. /\ pc = "idle" /\ pc' = "page" /\ after' = after /\ seen' = seen
      /\ durable' = durable
  BY DEF Begin, table
<1>2. after = 0 /\ seen = << >>
  BY <1>1 DEF ListingInv, Received
<1>3. DOMAIN before' \subseteq Nat \ {0}
  BY DEF Begin, ListingInv, TypeOK, Grown
<1> QED
  BY <1>1, <1>2, <1>3 DEF ListingInv, TypeOK, Received, InCall, Increasing, Holds

\* The SELECT: what is owed above the cursor is in the page or after it, and a page that
\* is not the last is of committed rows.
LEMMA PageKeeps ==
  ASSUME ListingInv, Page
  PROVE  Received' /\ InCall'
<1>1. /\ pc = "page" /\ pc' = "get" /\ last' = after /\ items' = << >>
      /\ after' = after /\ seen' = seen /\ before' = before /\ rows' = rows
      /\ wanted' = wanted /\ durable' = durable
  BY DEF Page, table
<1>2. /\ after \in Nat /\ durable \in Nat /\ Len(rows) \in Nat
      /\ DOMAIN rows = 1 .. Len(rows) /\ DOMAIN before = 1 .. Len(before)
      /\ Len(before) \in Nat /\ Len(before) <= durable
      /\ durable <= Len(rows) /\ Len(rows) <= durable + 1
  BY DEF ListingInv, TypeOK, Grown
<1>3. PICK limit \in Limits : \E S \in FirstRows(Clamped(limit)) :
          /\ page' = {[seq |-> s, id |-> rows[s].id] : s \in S}
          /\ more' = (S # Matching)
  BY DEF Page
<1>4. PICK S \in FirstRows(Clamped(limit)) :
          /\ page' = {[seq |-> s, id |-> rows[s].id] : s \in S}
          /\ more' = (S # Matching)
  BY <1>3
<1>5. S \subseteq Matching /\ \A a \in S, b \in Matching \ S : a < b
  BY <1>4 DEF FirstRows
<1>6. \A s \in Matching : s \in 1 .. Len(rows) /\ after < s
  BY <1>2 DEF Matching
<1>7. \A r \in page' : r.seq \in S /\ r = [seq |-> r.seq, id |-> rows[r.seq].id]
  BY <1>4
<1>8. ASSUME NEW s \in DOMAIN before, Owed(s), after < s
      PROVE  \/ [seq |-> s, id |-> before[s].id] \in page'
             \/ more' /\ \A r \in page' : r.seq < s
  <2>1. s \in Matching /\ rows[s].id = before[s].id
    BY <1>2, <1>8 DEF Owed, Matching, ListingInv, Grown
  <2>2. CASE s \in S
    BY <1>4, <2>1, <2>2
  <2>3. CASE s \notin S
    BY <1>4, <1>5, <1>7, <2>1, <2>3
  <2> QED
    BY <2>2, <2>3
<1>9. ASSUME more' PROVE after <= durable /\ \A r \in page' : r.seq <= durable
  <2>1. PICK b \in Matching : b \notin S
    BY <1>4, <1>5, <1>9
  <2>2. \A a \in S : a < b /\ a \in Nat
    BY <1>5, <1>6, <2>1
  <2>3. b \in Nat /\ b <= durable + 1 /\ after < b
    BY <1>2, <1>6, <2>1
  <2> QED
    BY <1>2, <1>7, <2>2, <2>3
<1>10. \A s \in DOMAIN before : Owed(s)' <=> Owed(s)
  BY <1>1 DEF Owed
<1>11. Received'
  BY <1>1, <1>2, <1>10 DEF ListingInv, Received, Increasing, Holds
<1>12. \A r \in page' : after < r.seq /\ \A q \in page' : q.seq = r.seq => q = r
  BY <1>5, <1>6, <1>7
<1>13. InCall'
  BY <1>1, <1>2, <1>8, <1>9, <1>10, <1>12 DEF InCall, Increasing
<1> QED
  BY <1>11, <1>13

\* A look-up: the row goes from the page to the items, unless the filter drops it.
LEMMA GetKeeps ==
  ASSUME ListingInv, Get
  PROVE  Received' /\ InCall'
<1>1. /\ pc = "get" /\ pc' = "get" /\ after' = after /\ more' = more /\ seen' = seen
      /\ before' = before /\ rows' = rows /\ wanted' = wanted /\ durable' = durable
  BY DEF Get, table
<1>2. PICK r \in page :
          /\ IsNext(r) /\ Present(r)
          /\ page' = page \ {r} /\ last' = r.seq
          /\ items' = IF Wanted(rows[r.seq]) THEN Append(items, r) ELSE items
  BY DEF Get
<1>3. /\ after \in Nat /\ last \in Nat /\ items \in Seq(Ref) /\ page \subseteq Ref
      /\ durable \in Nat /\ wanted \in {"all", "resolved", "open"}
      /\ DOMAIN before \subseteq Nat
  BY DEF ListingInv, TypeOK
<1>4. \A q \in Ref : q.seq \in Nat /\ q = [seq |-> q.seq, id |-> q.id]
  BY DEF Ref
<1>5. InCall /\ after <= last
  BY <1>1 DEF ListingInv, InCall
<1>6. last < r.seq /\ \A q \in page : q # r => r.seq < q.seq
  BY <1>1, <1>2, <1>3, <1>4, <1>5 DEF InCall, IsNext
<1>7. \A s \in DOMAIN before : Owed(s)' <=> Owed(s)
  BY <1>1 DEF Owed
<1>8. Received'
  BY <1>1, <1>7 DEF ListingInv, Received, Increasing, Holds
<1>9. \A i \in DOMAIN items : after < items[i].seq /\ items[i].seq <= last /\ items[i].seq \in Nat
  <2>1. \A i \in DOMAIN items : items[i] \in Ref
    BY <1>3
  <2> QED
    BY <1>1, <1>4, <1>5, <2>1 DEF InCall
<1>10. /\ \A i \in DOMAIN items : i \in DOMAIN items' /\ items'[i] = items[i]
       /\ \A i \in DOMAIN items' :
              \/ i \in DOMAIN items
              \/ i = Len(items) + 1 /\ items'[i] = r
       /\ DOMAIN items = 1 .. Len(items) /\ Len(items) \in Nat
       /\ Wanted(rows[r.seq]) =>
              Len(items) + 1 \in DOMAIN items' /\ items'[Len(items) + 1] = r
  BY <1>2, <1>3
<1>11. Increasing(items') /\ \A i \in DOMAIN items' : after < items'[i].seq /\ items'[i].seq <= r.seq
  <2>1. Increasing(items) /\ r.seq \in Nat
    BY <1>1, <1>3, <1>4, <1>5 DEF InCall
  <2>2. \A i \in DOMAIN items' : after < items'[i].seq /\ items'[i].seq <= r.seq
    BY <1>3, <1>5, <1>6, <1>9, <1>10, <2>1
  <2>3. ASSUME NEW i \in DOMAIN items', NEW j \in DOMAIN items', i < j
        PROVE  items'[i].seq < items'[j].seq
    <3>1. i \in DOMAIN items
      BY <1>10, <2>3
    <3>2. CASE j \in DOMAIN items
      BY <1>10, <2>1, <2>3, <3>1, <3>2 DEF Increasing
    <3>3. CASE j = Len(items) + 1 /\ items'[j] = r
      BY <1>3, <1>6, <1>9, <1>10, <2>1, <3>1, <3>3
    <3> QED
      BY <1>10, <3>2, <3>3
  <2> QED
    BY <2>2, <2>3 DEF Increasing
<1>12. ASSUME NEW s \in DOMAIN before, Owed(s), after < s
       PROVE  \/ s <= r.seq /\ Holds(items, s)'
              \/ [seq |-> s, id |-> before[s].id] \in page'
              \/ more /\ r.seq < s /\ \A q \in page' : q.seq < s
  <2>0. s \in Nat /\ r.seq \in Nat
    BY <1>3, <1>4
  <2>1. CASE s <= last /\ Holds(items, s)
    BY <1>1, <1>3, <1>6, <1>10, <2>0, <2>1 DEF Holds
  <2>2. CASE [seq |-> s, id |-> before[s].id] = r
    <3>1. r.seq = s
      BY <2>2
    <3>2. Wanted(rows[s])
      BY <1>3, <1>12 DEF Owed, Wanted, ListingInv, Grown
    <3> QED
      BY <1>1, <1>10, <2>0, <2>2, <3>1, <3>2 DEF Holds
  <2>3. CASE [seq |-> s, id |-> before[s].id] \in page \ {r}
    BY <1>2, <2>3
  <2>4. CASE more /\ last < s /\ \A q \in page : q.seq < s
    BY <1>2, <2>4
  <2> QED
    BY <1>1, <1>5, <1>12, <2>1, <2>2, <2>3, <2>4 DEF InCall
<1>13. InCall'
  <2>1. after <= r.seq /\ \A q \in page' : r.seq < q.seq
    BY <1>2, <1>3, <1>4, <1>5, <1>6
  <2>2. \A q, t \in page' : t.seq = q.seq => t = q
    BY <1>1, <1>2, <1>5 DEF InCall
  <2>3. more => r.seq <= durable /\ \A q \in page' : q.seq <= durable
    BY <1>1, <1>2, <1>5 DEF InCall
  <2> QED
    BY <1>1, <1>2, <1>7, <1>11, <1>12, <2>1, <2>2, <2>3 DEF InCall
<1> QED
  BY <1>8, <1>13

\* An answer: the items join what was received, and the cursor moves to the last of them.
LEMMA AnswerKeeps ==
  ASSUME ListingInv, Answer
  PROVE  Received' /\ InCall'
<1>1. /\ pc = "get" /\ page = {} /\ seen' = seen \o items /\ before' = before
      /\ rows' = rows /\ wanted' = wanted /\ durable' = durable
      /\ \/ more /\ pc' = "page" /\ after' = last
         \/ ~more /\ pc' = "done" /\ after' = after
  BY DEF Answer, table
<1>2. /\ after \in Nat /\ last \in Nat /\ items \in Seq(Ref) /\ seen \in Seq(Ref)
      /\ durable \in Nat /\ more \in BOOLEAN /\ DOMAIN before \subseteq Nat
  BY DEF ListingInv, TypeOK
<1>3. InCall /\ Received
  BY DEF ListingInv
<1>4. \A q \in Ref : q.seq \in Nat
  BY DEF Ref
<1>5. /\ \A i \in DOMAIN seen : i \in DOMAIN seen' /\ seen'[i] = seen[i]
      /\ \A i \in DOMAIN items :
             Len(seen) + i \in DOMAIN seen' /\ seen'[Len(seen) + i] = items[i]
      /\ \A i \in DOMAIN seen' : i \in DOMAIN seen \/ i - Len(seen) \in DOMAIN items
      /\ Len(seen) \in Nat /\ DOMAIN seen = 1 .. Len(seen)
      /\ DOMAIN items \subseteq Nat \ {0} /\ DOMAIN seen' \subseteq Nat
  BY <1>1, <1>2
<1>6. \A i \in DOMAIN seen' : i \notin DOMAIN seen => seen'[i] = items[i - Len(seen)]
  <2>1. \A i \in DOMAIN seen' : i \in Nat /\ Len(seen) + (i - Len(seen)) = i
    BY <1>5
  <2> QED
    BY <1>5, <2>1
<1>7. /\ \A i \in DOMAIN seen : seen[i].seq \in Nat /\ seen[i].seq <= after
      /\ \A i \in DOMAIN items : /\ items[i].seq \in Nat /\ after < items[i].seq
                                 /\ items[i].seq <= last
  <2>1. \A i \in DOMAIN seen : seen[i] \in Ref
    BY <1>2
  <2>2. \A i \in DOMAIN items : items[i] \in Ref
    BY <1>2
  <2> QED
    BY <1>1, <1>3, <1>4, <2>1, <2>2 DEF InCall, Received
<1>8. Increasing(seen')
  <2> SUFFICES ASSUME NEW i \in DOMAIN seen', NEW j \in DOMAIN seen', i < j
               PROVE  seen'[i].seq < seen'[j].seq
    BY DEF Increasing
  <2>1. CASE j \in DOMAIN seen
    <3>1. i \in DOMAIN seen
      BY <1>5, <2>1
    <3> QED
      BY <1>3, <1>5, <2>1, <3>1 DEF Received, Increasing
  <2>2. CASE i \in DOMAIN seen /\ j \notin DOMAIN seen
    BY <1>2, <1>5, <1>6, <1>7, <2>2
  <2>3. CASE i \notin DOMAIN seen /\ j \notin DOMAIN seen
    <3>1. i - Len(seen) < j - Len(seen)
      BY <1>5
    <3> QED
      BY <1>1, <1>3, <1>5, <1>6, <2>3, <3>1 DEF InCall, Increasing
  <2>4. CASE i \notin DOMAIN seen /\ j \in DOMAIN seen
    BY <1>5, <2>4
  <2> QED
    BY <2>1, <2>2, <2>3, <2>4
<1>9. \A s \in DOMAIN before : Owed(s)' <=> Owed(s)
  BY <1>1 DEF Owed
<1>10. \A s \in DOMAIN before : Holds(seen, s) \/ Holds(items, s) => Holds(seen, s)'
  BY <1>1, <1>5 DEF Holds
<1>11. \A s \in DOMAIN before : Owed(s) /\ s <= after => Holds(seen, s)
  BY <1>1, <1>3 DEF Received
<1>12. \A s \in DOMAIN before : Owed(s) /\ after < s =>
           (s <= last /\ Holds(items, s)) \/ (more /\ last < s)
  BY <1>1, <1>3 DEF InCall
<1>13. CASE more
  <2>1. pc' = "page" /\ after' = last /\ last <= durable /\ after <= last
    BY <1>1, <1>3, <1>13 DEF InCall
  <2>2. \A i \in DOMAIN seen' : seen'[i].seq <= last
    BY <1>2, <1>5, <1>6, <1>7, <2>1
  <2>3. \A s \in DOMAIN before : Owed(s) /\ s <= last => Holds(seen, s)'
    BY <1>2, <1>10, <1>11, <1>12
  <2> QED
    BY <1>1, <1>8, <1>9, <2>1, <2>2, <2>3 DEF Received, InCall
<1>14. CASE ~more
  <2>1. pc' = "done" /\ after' = after
    BY <1>1, <1>14
  <2>2. \A s \in DOMAIN before : Owed(s) => Holds(seen, s)'
    BY <1>2, <1>10, <1>11, <1>12, <1>14
  <2> QED
    BY <1>1, <1>3, <1>8, <1>9, <2>1, <2>2 DEF Received, InCall
<1> QED
  BY <1>2, <1>13, <1>14

-----------------------------------------------------------------------------
(* Why a listing comes to its end.                                          *)

\* The smaller of two numbers.
LEMMA MinOfTwo ==
    ASSUME NEW m \in Nat, NEW n \in Nat
    PROVE  Min({m, n}) = IF m <= n THEN m ELSE n
<1>1. PICK x \in {m, n} : \A y \in {m, n} : x <= y
  OBVIOUS
<1>2. Min({m, n}) \in {m, n} /\ \A y \in {m, n} : Min({m, n}) <= y
  BY <1>1 DEF Min
<1>. QED  BY <1>2

\* If there are matching rows, the SELECT finds one of them: no limit is below 1.
LEMMA FirstRowsNotEmpty ==
    ASSUME TypeOK, NEW limit \in Limits, NEW S \in FirstRows(Clamped(limit)), S # Matching
    PROVE  S # {}
<1> SUFFICES ASSUME S = {} PROVE FALSE
  OBVIOUS
<1>1. Clamped(limit) \in Nat /\ Clamped(limit) >= 1
  BY PagedAssumption DEF Clamped
<1>2. IsFiniteSet(Matching)
  <2>1. DOMAIN rows = 1 .. Len(rows) /\ Len(rows) \in Nat
    BY DEF TypeOK
  <2>2. IsFiniteSet(1 .. Len(rows))
    BY <2>1, FS_Interval
  <2>3. Matching \subseteq 1 .. Len(rows)
    BY <2>1 DEF Matching
  <2>. QED  BY <2>2, <2>3, FS_Subset
<1>3. Cardinality(Matching) \in Nat /\ (Cardinality(Matching) = 0 <=> Matching = {})
  BY <1>2, FS_CardinalityType, FS_EmptySet
<1>4. Cardinality(S) = 0
  BY FS_EmptySet
<1>5. Min({Clamped(limit), Cardinality(Matching)}) = 0
  BY <1>4 DEF FirstRows
<1>6. Cardinality(Matching) = 0
  BY <1>1, <1>3, <1>5, MinOfTwo
<1>. QED  BY <1>3, <1>6

\* A page that is not the last leads to a new cursor.
LEMMA NotEmptyKeeps ==
    ASSUME ListingInv, [Next]_vars
    PROVE  NotEmpty'
<1>1. CASE Page
  <2>1. PICK limit \in Limits : \E S \in FirstRows(Clamped(limit)) :
            /\ page' = {[seq |-> s, id |-> rows[s].id] : s \in S}
            /\ more' = (S # Matching)
    BY <1>1 DEF Page
  <2>2. PICK S \in FirstRows(Clamped(limit)) :
            /\ page' = {[seq |-> s, id |-> rows[s].id] : s \in S}
            /\ more' = (S # Matching)
    BY <2>1
  <2>3. more' => S # {}
    BY <2>2, FirstRowsNotEmpty DEF ListingInv
  <2>4. more' => page' # {}
    BY <2>2, <2>3
  <2>. QED  BY <2>4 DEF NotEmpty
<1>2. CASE Get
  <2>1. PICK r \in page : last' = r.seq
    BY <1>2 DEF Get
  <2>2. pc = "get" /\ after' = after
    BY <1>2 DEF Get
  <2>3. after <= last /\ last < r.seq
    BY <2>1, <2>2 DEF ListingInv, InCall
  <2>4. r.seq \in Nat /\ after \in Nat /\ last \in Nat
    BY <2>1 DEF ListingInv, TypeOK, Ref
  <2>. QED  BY <2>1, <2>2, <2>3, <2>4 DEF NotEmpty
<1>3. CASE Write \/ UNCHANGED vars
  BY <1>3 DEF Write, Insert, Commit, Rollback, Resolve, vars, client, ListingInv, NotEmpty
<1>4. CASE Begin \/ Vanished \/ Crash \/ Answer
  BY <1>4 DEF Begin, Vanished, Crash, AskAgain, Answer, NotEmpty
<1>. QED  BY <1>1, <1>2, <1>3, <1>4 DEF Next, Read

LEMMA CursorStep ==
    ASSUME ListingInv, [Next]_vars
    PROVE  [CursorAdvances]_vars
<1>1. CASE Answer
  <2>1. /\ pc = "get" /\ page = {} /\ durable' = durable
        /\ (more /\ after' = last) \/ (~more /\ pc' = "done" /\ after' = after)
    BY <1>1 DEF Answer, table
  <2>2. more => after < last /\ last <= durable
    BY <2>1 DEF ListingInv, NotEmpty, InCall
  <2>. QED  BY <1>1, <2>1, <2>2 DEF CursorAdvances
<1>2. CASE ~Answer
  <2>1. after' = after
    BY <1>2 DEF Next, Read, Write, Insert, Commit, Rollback, Resolve, Begin, Page, Get,
            Vanished, Crash, AskAgain, vars, client
  <2>. QED  BY <1>2, <2>1 DEF CursorAdvances
<1>. QED  BY <1>1, <1>2

-----------------------------------------------------------------------------
(* The theorems.                                                            *)

LEMMA ListingStep == ListingInv /\ [Next]_vars => ListingInv'
<1> SUFFICES ASSUME ListingInv, [Next]_vars PROVE ListingInv'
  OBVIOUS
<1>1. TypeOK' /\ Grown'
  BY TypeStep, TableStep
<1>2. Received' /\ InCall'
  <2>1. CASE Write \/ UNCHANGED vars
    <3>1. UNCHANGED client
      BY <2>1 DEF Write, Insert, Commit, Rollback, Resolve, vars
    <3> QED
      BY <3>1, WriteKeeps
  <2>2. CASE Begin
    BY <2>2, BeginKeeps
  <2>3. CASE Page
    BY <2>3, PageKeeps
  <2>4. CASE Get
    BY <2>4, GetKeeps
  <2>5. CASE Vanished \/ Crash
    <3>1. pc = "get" /\ AskAgain
      BY <2>5 DEF Vanished, Crash
    <3> QED
      BY <3>1, AskAgainKeeps
  <2>6. CASE Answer
    BY <2>6, AnswerKeeps
  <2> QED
    BY <2>1, <2>2, <2>3, <2>4, <2>5, <2>6 DEF Next, Read
<1> QED
  BY <1>1, <1>2, NotEmptyKeeps DEF ListingInv

\* The inductive invariant holds in every behaviour: the committed rows stay, a cursor is
\* a committed row's, and a call in progress has lost nothing above its cursor.
THEOREM ListingInvHolds == Spec => []ListingInv
<1>1. ASSUME Init PROVE ListingInv
  <2>1. TypeOK
    <3>1. wanted \in {"all", "resolved", "open"}
      BY <1>1 DEF Init
    <3>2. rows \in Seq(Row) /\ before \in Seq(Row) /\ items \in Seq(Ref) /\ seen \in Seq(Ref)
      BY <1>1 DEF Init
    <3>3. page \subseteq Ref
      BY <1>1 DEF Init
    <3> QED
      BY <1>1, <3>1, <3>2, <3>3 DEF Init, TypeOK
  <2>2. Grown /\ Received /\ InCall /\ NotEmpty
    BY <1>1 DEF Init, Grown, Received, InCall, Increasing, NotEmpty
  <2> QED
    BY <2>1, <2>2 DEF ListingInv
<1> QED
  BY <1>1, ListingStep, PTL DEF Spec

\* A listing read to its end has every row it owes, once and in order, whatever was
\* inserted, rolled back or lost in a crash between its pages.
THEOREM ListingsAreComplete == Spec => []ListingComplete
<1>1. ListingInv => ListingComplete
  BY DEF ListingInv, Received, Increasing, Holds, ListingComplete
<1> QED
  BY <1>1, ListingInvHolds, PTL

\* Why a listing comes to its end when its client reads on, even if a filter lets no row
\* of a page through (calibration store.py:489-491): an answer ends it or moves its cursor
\* further, to a committed row, and a call that is lost or refused leaves the cursor where
\* it was.  How often calls can be lost, and that the client reads on, is not said here.
THEOREM AnswersMoveTheCursor == Spec => [][CursorAdvances]_vars
<1>1. ListingInv /\ [Next]_vars => [CursorAdvances]_vars
  BY CursorStep
<1> QED
  BY <1>1, ListingInvHolds, PTL DEF Spec
=============================================================================
