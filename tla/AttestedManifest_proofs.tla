----------------------- MODULE AttestedManifest_proofs -----------------------
(***************************************************************************)
(* Proofs about the manifest of an attested store: what its lines say of   *)
(* the rows, when the two files agree, that a lost attestation stays       *)
(* visible, and that the store implements the attested log.                *)
(***************************************************************************)
EXTENDS AttestedStore_proofs

-----------------------------------------------------------------------------
(* Who is where.                                                            *)

\* While a worker is inside a write, no other one is and no other one owes.
LEMMA Alone ==
    ASSUME IInv, NEW w \in Worker, pc[w] \in Writing, NEW v \in Worker \ {w}
    PROVE  pc[v] \notin Writing /\ owed[v] = << >>
BY OneWriter DEF IInv, SectionInv

\* An entry of a worker, with its parts.
LEMMA OwedEntry ==
    ASSUME IInv, NEW w \in Worker, NEW j \in DOMAIN owed[w]
    PROVE  /\ owed[w][j].table \in Table /\ owed[w][j].head \in Hash
           /\ owed[w][j].count \in Nat /\ RowNo(owed[w][j]) \in Nat
<1>1. owed[w] \in Seq(Owed)
  BY Shapely
<1>2. owed[w][j] \in Owed
  BY <1>1
<1>. QED  BY <1>2, LenProperties DEF Owed, Hash, RowNo

\* Rows of a table, with their lengths.
LEMMA RowsOf ==
    ASSUME IInv, NEW t \in Table
    PROVE  /\ db[t] \in Seq(Row) /\ view[t] \in Seq(Row)
           /\ Len(db[t]) \in Nat /\ DOMAIN db[t] = 1 .. Len(db[t])
           /\ Len(view[t]) \in Nat /\ DOMAIN view[t] = 1 .. Len(view[t])
BY Shapely, LenProperties

-----------------------------------------------------------------------------
(* Rows and what is owed for them.                                          *)

HandInv == GrowthInv /\ OwedInv

\* A worker outside a write owes nothing.
LEMMA OwesNothing ==
    ASSUME NEW w \in Worker, pc'[w] \notin Writing, owed'[w] = << >>
    PROVE  OwedBy(w)' /\ Pending(w)' = {}
BY DEF OwedBy, Writing, Pending

\* Another worker's step leaves alone what a worker owes.
LEMMA OwesTheSame ==
    ASSUME NEW w \in Worker, OwedBy(w), UNCHANGED <<db, view, txn>>,
           pc'[w] = pc[w], owed'[w] = owed[w], done'[w] = done[w]
    PROVE  OwedBy(w)' /\ Pending(w)' = Pending(w)
BY DEF OwedBy, Pending, Seeding

LEMMA ProcessStepHands == IInv /\ HandInv /\ ProcessStep => HandInv'
<1> SUFFICES ASSUME IInv, HandInv, NEW p \in Proc,
                    \/ Open(p) \/ TakeLock(p) \/ LockHeld(p) \/ Stop(p) \/ Crash(p)
             PROVE  HandInv'
  BY DEF ProcessStep
<1> USE DEF disk, writing
<1>1. CASE Open(p) \/ TakeLock(p) \/ LockHeld(p)
  <2>1. UNCHANGED <<db, view, txn, pc, owed, done>>
    BY <1>1 DEF Open, TakeLock, LockHeld
  <2>2. \A w \in Worker : OwedBy(w)'
    BY <2>1, OwesTheSame DEF HandInv, OwedInv
  <2>. QED  BY <2>1, <2>2 DEF HandInv, GrowthInv, OwedInv
<1>2. CASE Stop(p) \/ Crash(p)
  <2>1. Gone(p) /\ Discard(p) /\ db' = db /\ phase[p] \in {"booting", "serving", "opened"}
    BY <1>2, Shapely DEF Stop, Crash, Down, Phase
  <2>2. GrowthInv'
    <3>1. view' = db \/ view' = view
      BY <2>1 DEF Discard
    <3>2. \A t \in Table : Len(db[t]) \in Nat
      BY RowsOf
    <3>. QED  BY <2>1, <3>1, <3>2 DEF HandInv, GrowthInv
  <2>3. ASSUME NEW w \in Worker PROVE OwedBy(w)'
    <3>1. /\ pc'[w] = (IF Host[w] = p THEN "idle" ELSE pc[w])
          /\ owed'[w] = (IF Host[w] = p THEN << >> ELSE owed[w])
          /\ done'[w] = (IF Host[w] = p THEN 0 ELSE done[w])
      BY <2>1 DEF Gone
    <3>2. CASE Host[w] = p \/ pc[w] \notin Writing
      <4>1. pc'[w] \notin Writing /\ owed'[w] = << >>
        BY <3>1, <3>2 DEF IInv, SectionInv, Writing
      <4>. QED  BY <4>1, OwesNothing
    <3>3. CASE Host[w] # p /\ pc[w] \in Writing
      <4>1. txn # p
        <5>1. /\ Host[w] \in Writer /\ phase[Host[w]] \in {"booting", "serving"}
              /\ Host[w] \in Proc /\ "idle" \notin Writing
          BY <3>3, Shapely DEF LockInv, Writing
        <5>2. ASSUME txn = p PROVE p \in Writer /\ phase[p] = "serving"
          BY <5>2, Shapely, StoreAssumption DEF TxnInv
        <5>. QED  BY <3>3, <5>1, <5>2, Shapely, OneOpenWriter
      <4>2. UNCHANGED <<view, txn>>
        BY <2>1, <4>1 DEF Discard
      <4>. QED  BY <2>1, <3>1, <3>3, <4>2, OwesTheSame DEF HandInv, OwedInv
    <3>. QED  BY <3>2, <3>3
  <2>. QED  BY <2>2, <2>3 DEF HandInv, OwedInv
<1>. QED  BY <1>1, <1>2

\* The head of a table is as long as the table.
LEMMA HeadCounts ==
    ASSUME NEW rows \in Seq(Row), Numbered(rows)
    PROVE  Len(LastHash(rows)) = Len(rows)
BY EmptySeq DEF Numbered, LastHash, GENESIS

LEMMA NumberedAppend ==
    ASSUME NEW rows \in Seq(Row), Numbered(rows), NEW r \in Row,
           Len(r.row_hash) = Len(rows) + 1
    PROVE  Numbered(Append(rows, r))
BY AppendProperties DEF Numbered

LEMMA InsertHands ==
    ASSUME IInv, HandInv, NEW w \in Worker, NEW d \in Payload, Insert(w, d)
    PROVE  HandInv'
<1> PICK t, rh : t = NextTable(w) /\ rh = row_hash(prev[w], d)
  OBVIOUS
<1> DEFINE r == [payload |-> d, prev_hash |-> prev[w], row_hash |-> rh]
           o == [table |-> t, head |-> rh, count |-> 0]
           n == Len(view[t]) + 1
           k == Len(owed[w]) + 1
<1>1. /\ pc[w] = "insert" /\ t \in Table /\ prev[w] \in Hash /\ "insert" \in Writing
      /\ prev[w] = LastHash(view[t])
  BY Shapely, NextTableType DEF Insert, SectionInv, TxnInv, Writing
<1>2. view[t] \in Seq(Row) /\ Numbered(view[t]) /\ n \in Nat /\ Len(view[t]) \in Nat
      /\ Len(db[t]) \in Nat /\ Len(db[t]) <= Len(view[t])
  BY <1>1, RowsOf DEF HandInv, GrowthInv
<1>3. rh \in Hash /\ Len(rh) = n
  <2>1. Len(prev[w]) = Len(view[t])
    BY <1>1, <1>2, HeadCounts
  <2>. QED  BY <1>1, <2>1, AppendProperties DEF row_hash, Hash
<1>4. r \in Row /\ r.row_hash = rh /\ o \in Owed /\ o.table = t /\ o.head = rh /\ o.count = 0
  BY <1>1, <1>3 DEF Row, Owed
<1>5. /\ view' = [view EXCEPT ![t] = Append(view[t], r)]
      /\ owed' = [owed EXCEPT ![w] = Append(owed[w], o)]
      /\ db' = db /\ done' = done /\ txn' = Host[w]
      /\ pc'[w] \in {"head", "commit"} /\ \A v \in Worker \ {w} : pc'[v] = pc[v]
  BY Shapely DEF Insert
<1> HIDE DEF r, o
<1>6. /\ Append(view[t], r) \in Seq(Row) /\ Len(Append(view[t], r)) = n
      /\ Append(view[t], r)[n] = r
      /\ \A i \in 1 .. Len(view[t]) : Append(view[t], r)[i] = view[t][i]
      /\ Numbered(Append(view[t], r))
  <2>1. Numbered(Append(view[t], r))
    BY <1>2, <1>3, <1>4, NumberedAppend
  <2>. QED  BY <1>2, <1>4, <2>1, AppendProperties
<1>7. /\ view'[t] = Append(view[t], r)
      /\ \A u \in Table \ {t} : view'[u] = view[u]
  BY <1>1, <1>5, Shapely
<1>8. GrowthInv'
  <2>1. \A u \in Table \ {t} :
            /\ Numbered(db'[u]) /\ Numbered(view'[u])
            /\ Len(db'[u]) <= Len(view'[u])
            /\ \A i \in DOMAIN db'[u] : view'[u][i] = db'[u][i]
    BY <1>5, <1>7 DEF HandInv, GrowthInv
  <2>2. /\ Numbered(db'[t]) /\ Numbered(view'[t])
        /\ Len(db'[t]) <= Len(view'[t])
    BY <1>1, <1>2, <1>5, <1>6, <1>7 DEF HandInv, GrowthInv
  <2>3. \A i \in DOMAIN db'[t] : view'[t][i] = db'[t][i]
    <3>1. \A i \in DOMAIN db[t] : i \in 1 .. Len(view[t]) /\ view[t][i] = db[t][i]
      BY <1>1, <1>2, RowsOf DEF HandInv, GrowthInv
    <3>. QED  BY <1>5, <1>6, <1>7, <3>1
  <2>. QED  BY <2>1, <2>2, <2>3 DEF GrowthInv
<1>9. /\ owed[w] \in Seq(Owed) /\ owed'[w] = Append(owed[w], o) /\ k \in Nat
      /\ DOMAIN owed[w] = 1 .. Len(owed[w]) /\ DOMAIN owed'[w] = 1 .. k
      /\ \A j \in DOMAIN owed[w] : owed'[w][j] = owed[w][j]
      /\ owed'[w][k] = o /\ owed'[w] # << >> /\ Len(owed[w]) \in Nat
      /\ \A v \in Worker \ {w} : owed'[v] = owed[v]
  <2>1. /\ owed[w] \in Seq(Owed) /\ owed'[w] = Append(owed[w], o)
        /\ \A v \in Worker \ {w} : owed'[v] = owed[v]
    BY <1>5, Shapely
  <2>2. /\ Len(owed[w]) \in Nat /\ DOMAIN owed[w] = 1 .. Len(owed[w])
        /\ Len(Append(owed[w], o)) = k /\ Append(owed[w], o) \in Seq(Owed)
        /\ \A j \in 1 .. Len(owed[w]) : Append(owed[w], o)[j] = owed[w][j]
        /\ Append(owed[w], o)[k] = o
    BY <1>4, <2>1, AppendProperties, LenProperties
  <2>3. DOMAIN Append(owed[w], o) = 1 .. k /\ Append(owed[w], o) # << >>
    BY <2>2, LenProperties, EmptySeq
  <2>. QED  BY <2>1, <2>2, <2>3
<1>10. \A j \in DOMAIN owed'[w] : j \in DOMAIN owed[w] \/ j = k
  BY <1>9
<1>11. RowNo(o) = n
  BY <1>3, <1>4 DEF RowNo
<1>12. \A j \in DOMAIN owed[w] :
          /\ owed[w][j].table \in Table /\ RowNo(owed[w][j]) \in Nat
          /\ Names(owed[w][j], view) /\ owed[w][j].count = 0
          /\ RowNo(owed[w][j]) > Len(db[owed[w][j].table])
          /\ RowNo(owed[w][j]) <= Len(view[owed[w][j].table])
  <2>1. OwedBy(w) /\ ~Seeding(w)
    BY <1>1 DEF HandInv, OwedInv, OwedBy
  <2>2. ASSUME NEW j \in DOMAIN owed[w]
        PROVE  RowNo(owed[w][j]) <= Len(view[owed[w][j].table])
    BY <2>1, OwedEntry, RowsOf DEF OwedBy, Names
  <2>. QED  BY <1>1, <2>1, <2>2, OwedEntry DEF OwedBy
<1>13. ~Seeding(w)'
  <2>1. CASE owed[w] = << >>
    <3>1. k = 1
      BY <2>1
    <3>. QED  BY <1>4, <1>9, <3>1 DEF Seeding
  <2>2. CASE owed[w] # << >>
    <3>1. 1 \in DOMAIN owed[w]
      BY <1>9, <2>2, EmptySeq
    <3>. QED  BY <1>9, <1>12, <3>1 DEF Seeding
  <2>. QED  BY <2>1, <2>2
<1>14. ASSUME NEW j \in DOMAIN owed'[w]
       PROVE  /\ Names(owed[w][j], view)' /\ owed'[w][j].count = 0
              /\ RowNo(owed'[w][j]) > Len(db'[owed'[w][j].table])
  <2>1. CASE j \in DOMAIN owed[w]
    <3>1. owed'[w][j] = owed[w][j] /\ owed[w][j].table \in Table
          /\ Names(owed[w][j], view)
      BY <1>9, <1>12, <2>1
    <3>2. \A u \in Table : /\ DOMAIN view[u] \subseteq DOMAIN view'[u]
                           /\ \A i \in DOMAIN view[u] : view'[u][i] = view[u][i]
      <4> TAKE u \in Table
      <4>1. DOMAIN view[u] = 1 .. Len(view[u]) /\ DOMAIN view'[t] = 1 .. n
        <5>1. DOMAIN Append(view[t], r) = 1 .. n
          BY <1>2, <1>6, LenProperties
        <5>. QED  BY <1>7, <5>1, RowsOf
      <4>2. CASE u = t
        BY <1>1, <1>2, <1>6, <1>7, <4>1, <4>2
      <4>3. CASE u # t
        BY <1>7, <4>3
      <4>. QED  BY <4>2, <4>3
    <3>3. Names(owed[w][j], view)'
      BY <3>1, <3>2 DEF Names, RowNo
    <3>. QED  BY <1>5, <1>12, <2>1, <3>1, <3>3
  <2>2. CASE j = k
    <3>1. n \in DOMAIN view'[t] /\ view'[t][n].row_hash = rh
      BY <1>2, <1>4, <1>6, <1>7
    <3>2. Names(owed[w][j], view)'
      BY <1>4, <1>9, <1>11, <2>2, <3>1 DEF Names, RowNo
    <3>. QED  BY <1>2, <1>4, <1>5, <1>9, <1>11, <2>2, <3>2
  <2>. QED  BY <1>10, <2>1, <2>2
<1>15. ASSUME NEW i \in DOMAIN owed'[w], NEW j \in DOMAIN owed'[w], i < j,
              owed'[w][i].table = owed'[w][j].table
       PROVE  RowNo(owed'[w][i]) < RowNo(owed'[w][j])
  <2>1. i \in DOMAIN owed[w]
    BY <1>9, <1>15
  <2>2. CASE j \in DOMAIN owed[w]
    BY <1>9, <1>15, <2>1, <2>2 DEF HandInv, OwedInv, OwedBy
  <2>3. CASE j = k
    BY <1>2, <1>4, <1>9, <1>11, <1>12, <1>15, <2>1, <2>3
  <2>. QED  BY <1>10, <2>2, <2>3
<1>16. done'[w] = 0
  BY <1>1, <1>5 DEF HandInv, OwedInv, OwedBy
<1>17. OwedBy(w)'
  BY <1>5, <1>9, <1>13, <1>14, <1>15, <1>16 DEF OwedBy
<1>18. \A v \in Worker \ {w} : OwedBy(v)'
  BY <1>1, <1>5, <1>9, Alone, OwesNothing
<1>. QED  BY <1>8, <1>17, <1>18 DEF HandInv, OwedInv

LEMMA WriteStepHands == IInv /\ HandInv /\ WriteStep => HandInv'
<1> SUFFICES ASSUME IInv, HandInv, NEW w \in Worker,
                    \/ \E sh \in Shapes : Begin(w, sh)
                    \/ \E d \in Payload : Insert(w, d)
                    \/ ReadHead(w) \/ Rollback(w) \/ Commit(w)
             PROVE  HandInv'
  BY DEF WriteStep
<1> USE DEF disk, process, writing, verifying, bounds
<1>0. {"head", "insert", "commit"} \subseteq Writing /\ "idle" \notin Writing
  BY DEF Writing
<1>1. ASSUME NEW sh \in Shapes, Begin(w, sh) PROVE HandInv'
  <2>1. /\ UNCHANGED <<db, view, txn, owed, done>> /\ pc'[w] = "head"
        /\ \A v \in Worker \ {w} : pc'[v] = pc[v]
        /\ owed[w] = << >> /\ done[w] = 0
    BY <1>0, <1>1, Shapely DEF Begin, SectionInv
  <2>2. OwedBy(w)'
    BY <2>1 DEF OwedBy, Seeding
  <2>3. \A v \in Worker \ {w} : OwedBy(v)'
    BY <2>1, OwesTheSame DEF HandInv, OwedInv
  <2>. QED  BY <2>1, <2>2, <2>3 DEF HandInv, OwedInv, GrowthInv
<1>2. CASE ReadHead(w)
  <2>1. /\ UNCHANGED <<db, view, txn, owed, done>> /\ pc[w] = "head" /\ pc'[w] = "insert"
        /\ \A v \in Worker \ {w} : pc'[v] = pc[v]
    BY <1>2, Shapely DEF ReadHead
  <2>2. OwedBy(w)'
    BY <2>1 DEF OwedBy, Seeding, HandInv, OwedInv
  <2>3. \A v \in Worker \ {w} : OwedBy(v)'
    BY <2>1, OwesTheSame DEF HandInv, OwedInv
  <2>. QED  BY <2>1, <2>2, <2>3 DEF HandInv, OwedInv, GrowthInv
<1>3. CASE Rollback(w)
  <2>1. /\ pc[w] \in {"head", "insert", "commit"} /\ db' = db
        /\ view' = view \/ view' = db
        /\ pc'[w] = "idle" /\ owed'[w] = << >>
        /\ \A v \in Worker \ {w} : pc'[v] = pc[v] /\ owed'[v] = owed[v]
    BY <1>3, Shapely DEF Rollback, Leave, Discard
  <2>2. \A v \in Worker : OwedBy(v)'
    BY <1>0, <2>1, Alone, OwesNothing
  <2>3. GrowthInv'
    <3>1. \A t \in Table : Len(db[t]) \in Nat
      BY RowsOf
    <3>. QED  BY <2>1, <3>1 DEF HandInv, GrowthInv
  <2>. QED  BY <2>2, <2>3 DEF HandInv, OwedInv
<1>4. CASE Commit(w)
  <2>1. /\ pc[w] = "commit" /\ db' = view /\ txn' = NoProc /\ pc'[w] = "attest"
        /\ UNCHANGED <<view, owed, done>> /\ \A v \in Worker \ {w} : pc'[v] = pc[v]
    BY <1>4, Shapely DEF Commit
  <2>2. \A v \in Worker \ {w} : OwedBy(v)'
    BY <1>0, <2>1, Alone, OwesNothing
  <2>3. OwedBy(w)'
    <3>1. OwedBy(w) /\ ~Seeding(w) /\ ~Seeding(w)' /\ owed[w] # << >> /\ done[w] = 0
      BY <2>1 DEF HandInv, OwedInv, OwedBy, Seeding
    <3>2. Len(owed[w]) > 0
      BY <3>1, Shapely, EmptySeq, LenProperties
    <3>. QED  BY <2>1, <3>1, <3>2 DEF OwedBy, Names
  <2>4. GrowthInv'
    <3>1. \A t \in Table : Len(view[t]) \in Nat
      BY RowsOf
    <3>. QED  BY <2>1, <3>1 DEF HandInv, GrowthInv
  <2>. QED  BY <2>2, <2>3, <2>4 DEF HandInv, OwedInv
<1>. QED  BY <1>1, <1>2, <1>3, <1>4, InsertHands

\* What a baseline owes: the last row of every table that has one, once each.
LEMMA SeedOwes ==
    ASSUME IInv, HandInv, NEW w \in Worker, Seed(w)
    PROVE  /\ UNCHANGED <<db, view, txn, manifest, manifestFile, phase, lost, cachedHead,
                          cachedCount, done>>
           /\ Host[w] \in Writer /\ phase[Host[w]] = "booting" /\ ~manifestFile
           /\ txn = NoProc /\ view = db
           /\ pc[w] = "idle" /\ pc'[w] = "attest"
           /\ done[w] = 0 /\ Len(owed'[w]) \in Nat /\ Len(owed'[w]) > 0
           /\ DOMAIN owed'[w] = 1 .. Len(owed'[w])
           /\ \A v \in Worker \ {w} : pc'[v] = pc[v] /\ owed'[v] = owed[v]
           /\ \A j \in DOMAIN owed'[w] :
                 \E t \in Table :
                     /\ owed'[w][j] = [table |-> t, head |-> LastHash(db[t]),
                                       count |-> Len(db[t])]
                     /\ db[t] # << >>
           /\ \A i, j \in DOMAIN owed'[w] : i < j => owed'[w][i].table # owed'[w][j].table
           /\ \A t \in Table :
                 db[t] # << >> => \E j \in DOMAIN owed'[w] : owed'[w][j].table = t
<1> DEFINE p == Host[w]
           Baseline(t) == [table |-> t, head |-> LastHash(Seen(p)[t]),
                           count |-> Len(Seen(p)[t])]
<1>1. PICK k \in DOMAIN Tables : \E pick \in [1..k -> DOMAIN Tables] :
          /\ \A i, j \in 1..k : i < j => pick[i] < pick[j]
          /\ {pick[i] : i \in 1..k} = {n \in DOMAIN Tables : Seen(p)[Tables[n]] # << >>}
          /\ owed' = [owed EXCEPT ![w] = [i \in 1..k |-> Baseline(Tables[pick[i]])]]
  BY ZenonT(30) DEF Seed
<1>2. PICK pick \in [1..k -> DOMAIN Tables] :
          /\ \A i, j \in 1..k : i < j => pick[i] < pick[j]
          /\ {pick[i] : i \in 1..k} = {n \in DOMAIN Tables : Seen(p)[Tables[n]] # << >>}
          /\ owed' = [owed EXCEPT ![w] = [i \in 1..k |-> Baseline(Tables[pick[i]])]]
  BY <1>1
<1>3. /\ UNCHANGED <<db, view, txn, manifest, manifestFile, phase, lost, cachedHead,
                     cachedCount, done>>
      /\ p \in Writer /\ phase[p] = "booting" /\ ~manifestFile /\ OnlyMain(p)
      /\ pc'[w] = "attest" /\ \A v \in Worker \ {w} : pc'[v] = pc[v]
  BY Shapely DEF Seed, disk, process, writing
<1>4. pc[w] = "idle" /\ done[w] = 0
  <2>1. pc[w] = "idle"
    BY <1>3 DEF OnlyMain, Workers
  <2>. QED  BY <2>1, Shapely DEF SectionInv, Writing
<1>5. txn = NoProc /\ view = db /\ Seen(p) = db
  <2>1. ASSUME txn # NoProc PROVE FALSE
    <3>1. txn \in Writer /\ phase[txn] = "serving"
      BY <2>1, Shapely DEF TxnInv
    <3>2. txn = p
      BY <1>3, <3>1, Shapely, StoreAssumption, OneOpenWriter
    <3>. QED  BY <1>3, <3>1, <3>2
  <2>. QED  BY <2>1, Shapely DEF TxnInv, Seen
<1>6. k \in Nat /\ k > 0 /\ \A i \in DOMAIN Tables : Tables[i] \in Table /\ i \in Nat
  BY StoreAssumption DEF Table
<1>7. /\ owed'[w] = [i \in 1..k |-> Baseline(Tables[pick[i]])]
      /\ \A v \in Worker \ {w} : owed'[v] = owed[v]
  BY <1>2, Shapely
<1>8. DOMAIN owed'[w] = 1..k /\ Len(owed'[w]) = k
  <2>1. owed'[w] \in Seq(Owed)
    <3>1. ASSUME NEW i \in 1..k PROVE Baseline(Tables[pick[i]]) \in Owed
      <4>1. Tables[pick[i]] \in Table
        BY <1>6
      <4>2. /\ db[Tables[pick[i]]] \in Seq(Row) /\ Len(db[Tables[pick[i]]]) \in Nat
            /\ LastHash(db[Tables[pick[i]]]) \in Hash
        BY <4>1, RowsOf, LastHashType
      <4>. QED  BY <1>5, <4>1, <4>2 DEF Owed
    <3>. HIDE DEF Baseline
    <3>2. [i \in 1..k |-> Baseline(Tables[pick[i]])] \in Seq(Owed)
      BY <1>6, <3>1
    <3>. QED  BY <1>7, <3>2
  <2>2. DOMAIN owed'[w] = 1..k
    BY <1>7
  <2>. QED  BY <1>6, <2>1, <2>2, LenProperties
<1>9. ASSUME NEW j \in 1..k
      PROVE  /\ Tables[pick[j]] \in Table
             /\ owed'[w][j] = [table |-> Tables[pick[j]], head |-> LastHash(db[Tables[pick[j]]]),
                               count |-> Len(db[Tables[pick[j]]])]
             /\ db[Tables[pick[j]]] # << >> /\ owed'[w][j].table = Tables[pick[j]]
  <2>1. pick[j] \in {n \in DOMAIN Tables : Seen(p)[Tables[n]] # << >>}
    BY <1>2
  <2>. QED  BY <1>5, <1>6, <1>7, <2>1
<1>10. ASSUME NEW i \in 1..k, NEW j \in 1..k, i < j
       PROVE  owed'[w][i].table # owed'[w][j].table
  <2>1. pick[i] \in DOMAIN Tables /\ pick[j] \in DOMAIN Tables /\ pick[i] # pick[j]
    BY <1>2, <1>6, <1>10
  <2>2. Tables[pick[i]] # Tables[pick[j]]
    BY <2>1, StoreAssumption
  <2>. QED  BY <1>9, <2>2
<1>11. ASSUME NEW t \in Table, db[t] # << >>
       PROVE  \E j \in 1..k : owed'[w][j].table = t
  <2>1. PICK n \in DOMAIN Tables : Tables[n] = t
    BY DEF Table
  <2>2. n \in {pick[i] : i \in 1..k}
    BY <1>2, <1>5, <1>11, <2>1
  <2>3. PICK j \in 1..k : pick[j] = n
    BY <2>2
  <2>. QED  BY <1>9, <2>1, <2>3
<1>. QED
  <2>1. Len(owed'[w]) \in Nat /\ Len(owed'[w]) > 0
    BY <1>6, <1>8
  <2>2. \A j \in DOMAIN owed'[w] :
                 \E t \in Table :
                     /\ owed'[w][j] = [table |-> t, head |-> LastHash(db[t]),
                                       count |-> Len(db[t])]
                     /\ db[t] # << >>
    BY <1>8, <1>9
  <2>. QED  BY <1>3, <1>4, <1>5, <1>7, <1>8, <1>10, <1>11, <2>1, <2>2

\* Every baseline entry names the last row of its table and counts up to it.
LEMMA SeedEntries ==
    ASSUME IInv, HandInv, NEW w \in Worker, Seed(w)
    PROVE  /\ Seeding(w)' /\ Pending(w)' = DOMAIN owed'[w]
           /\ \A j \in DOMAIN owed'[w] :
                 /\ owed'[w][j].table \in Table
                 /\ RowNo(owed'[w][j]) \in Nat /\ RowNo(owed'[w][j]) > 0
                 /\ RowNo(owed'[w][j]) = Len(db[owed'[w][j].table])
                 /\ owed'[w][j].count = RowNo(owed'[w][j])
                 /\ Names(owed[w][j], view)'
<1>1. ASSUME NEW j \in DOMAIN owed'[w]
      PROVE  /\ owed'[w][j].table \in Table
             /\ RowNo(owed'[w][j]) \in Nat /\ RowNo(owed'[w][j]) > 0
             /\ RowNo(owed'[w][j]) = Len(db[owed'[w][j].table])
             /\ owed'[w][j].count = RowNo(owed'[w][j])
             /\ Names(owed[w][j], view)'
  <2>1. PICK t \in Table : /\ owed'[w][j] = [table |-> t, head |-> LastHash(db[t]),
                                             count |-> Len(db[t])]
                           /\ db[t] # << >>
    BY SeedOwes
  <2>2. db[t] \in Seq(Row) /\ Numbered(db[t]) /\ Len(db[t]) \in Nat /\ Len(db[t]) > 0
    BY <2>1, RowsOf, EmptySeq DEF HandInv, GrowthInv
  <2>3. Len(LastHash(db[t])) = Len(db[t]) /\ LastHash(db[t]) = db[t][Len(db[t])].row_hash
    BY <2>1, <2>2, HeadCounts DEF LastHash
  <2>4. /\ owed'[w][j].table = t /\ owed'[w][j].head = LastHash(db[t])
        /\ owed'[w][j].count = Len(db[t])
    BY <2>1
  <2>5. view' = db /\ Len(db[t]) \in DOMAIN db[t]
    BY <2>2, SeedOwes
  <2>6. Names(owed[w][j], view)'
    BY <2>3, <2>4, <2>5 DEF Names, RowNo
  <2>. QED  BY <2>2, <2>3, <2>4, <2>6 DEF RowNo
<1>2. /\ DOMAIN owed'[w] = 1 .. Len(owed'[w]) /\ Len(owed'[w]) \in Nat
      /\ Len(owed'[w]) > 0 /\ pc'[w] = "attest" /\ done'[w] = 0
  BY SeedOwes
<1>3. Seeding(w)'
  <2>1. 1 \in DOMAIN owed'[w] /\ owed'[w] # << >>
    BY <1>2, EmptySeq
  <2>2. owed'[w][1].count = RowNo(owed'[w][1]) /\ RowNo(owed'[w][1]) \in Nat
        /\ RowNo(owed'[w][1]) > 0
    BY <1>1, <2>1
  <2>3. owed'[w][1].count # 0
    BY <2>2
  <2>. QED  BY <2>1, <2>3 DEF Seeding
<1>4. Pending(w)' = DOMAIN owed'[w]
  BY <1>2 DEF Pending
<1>. QED  BY <1>1, <1>3, <1>4

\* The steps of Manifest.append, seen from what is owed.
LEMMA WriterStays ==
    ASSUME IInv, NEW w \in Worker,
           WriteLine(w) \/ WriteFails(w) \/ SyncLine(w) \/ SyncFails(w)
    PROVE  /\ pc[w] \in {"attest", "sync"} /\ pc[w] \in Writing
           /\ UNCHANGED <<db, view, txn, phase, flock, snap>>
           /\ \A v \in Worker \ {w} :
                 /\ pc[v] \notin Writing /\ owed[v] = << >>
                 /\ pc'[v] = pc[v] /\ owed'[v] = owed[v]
<1>1. /\ pc[w] \in {"attest", "sync"}
      /\ UNCHANGED <<db, view, txn, phase, flock, snap>>
      /\ \A v \in Worker \ {w} : pc'[v] = pc[v] /\ owed'[v] = owed[v]
  <2> USE Shapely DEF disk, process, writing, verifying
  <2>1. CASE WriteLine(w)
    BY <2>1 DEF WriteLine, Owes
  <2>2. CASE WriteFails(w)
    BY <2>2 DEF WriteFails, Owes, Leave
  <2>3. CASE SyncLine(w)
    BY <2>3 DEF SyncLine, Leave
  <2>4. CASE SyncFails(w)
    BY <2>4 DEF SyncFails, Leave
  <2>. QED  BY <2>1, <2>2, <2>3, <2>4
<1>2. pc[w] \in Writing
  BY <1>1 DEF Writing
<1>. QED  BY <1>1, <1>2, Alone

LEMMA AttestStepHands == IInv /\ HandInv /\ AttestStep => HandInv'
<1> SUFFICES ASSUME IInv, HandInv, NEW w \in Worker,
                    WriteLine(w) \/ WriteFails(w) \/ SyncLine(w) \/ SyncFails(w)
                    \/ Seed(w)
             PROVE  HandInv'
  BY DEF AttestStep
<1>1. CASE Seed(w)
  <2>1. OwedBy(w)'
    BY <1>1, SeedOwes, SeedEntries DEF OwedBy
  <2>2. \A v \in Worker \ {w} : OwedBy(v)'
    BY <1>1, SeedOwes, OwesTheSame DEF HandInv, OwedInv
  <2>. QED  BY <1>1, <2>1, <2>2, SeedOwes DEF HandInv, GrowthInv, OwedInv
<1>2. CASE WriteLine(w) \/ WriteFails(w) \/ SyncLine(w) \/ SyncFails(w)
  <2>1. GrowthInv'
    BY <1>2, WriterStays DEF HandInv, GrowthInv
  <2>2. \A v \in Worker \ {w} : OwedBy(v)'
    BY <1>2, WriterStays, OwesNothing
  <2>3. OwedBy(w)'
    <3>1. CASE pc'[w] = "idle" /\ owed'[w] = << >>
      BY <3>1, OwesNothing DEF Writing
    <3>2. CASE /\ pc[w] \in {"attest", "sync"} /\ pc'[w] \in {"attest", "sync"}
               /\ owed'[w] = owed[w] /\ done'[w] < Len(owed[w])
      BY <1>2, <3>2, WriterStays DEF OwedBy, Names, Seeding, HandInv, OwedInv
    <3>3. CASE WriteLine(w)
      BY <3>2, <3>3, Shapely DEF WriteLine, Owes, writing
    <3>4. CASE WriteFails(w)
      BY <3>1, <3>4, Shapely DEF WriteFails, Leave
    <3>5. CASE SyncFails(w)
      BY <3>1, <3>5, Shapely DEF SyncFails, Leave
    <3>6. CASE SyncLine(w) /\ done[w] + 1 = Len(owed[w])
      BY <3>1, <3>6, Shapely DEF SyncLine, Leave
    <3>7. CASE SyncLine(w) /\ done[w] + 1 # Len(owed[w])
      <4>1. /\ pc[w] = "sync" /\ pc'[w] = "attest" /\ owed'[w] = owed[w]
            /\ done'[w] = done[w] + 1
        BY <3>7, Shapely DEF SyncLine
      <4>2. done[w] < Len(owed[w]) /\ done[w] \in Nat /\ Len(owed[w]) \in Nat
        BY <4>1, Shapely, LenProperties DEF HandInv, OwedInv, OwedBy
      <4>. QED  BY <3>2, <3>7, <4>1, <4>2
    <3>. QED  BY <1>2, <3>3, <3>4, <3>5, <3>6, <3>7
  <2>. QED  BY <2>1, <2>2, <2>3 DEF HandInv, OwedInv
<1>. QED  BY <1>1, <1>2

\* A step of a verify keeps its worker outside the writes.
LEMMA VerifierStays ==
    ASSUME IInv, NEW w \in Worker,
           \/ \E n \in {1, Attempts} : VerifyBegin(w, n)
           \/ VerifyAgain(w) \/ WalkTable(w) \/ CheckManifest(w)
    PROVE  /\ pc[w] \notin Writing /\ pc'[w] \notin Writing
           /\ UNCHANGED <<disk, writing, lost, cachedHead, cachedCount>>
           /\ \A v \in Worker \ {w} : pc'[v] = pc[v] /\ snap'[v] = snap[v]
           /\ pc[w] \in Walking => wlock[Host[w]] = w
<1> USE Shapely DEF disk, process, writing, verifying, bounds
<1>1. CASE \E n \in {1, Attempts} : VerifyBegin(w, n)
  BY <1>1 DEF VerifyBegin, Walk, Walking, Writing, IInv, TypeOK
<1>2. CASE VerifyAgain(w)
  BY <1>2 DEF VerifyAgain, Walk, Walking, Writing, IInv, TypeOK
<1>3. pc[w] \in Walking => wlock[Host[w]] = w
  BY DEF LockInv, Inside
<1>4. CASE pc[w] = "walk" /\ WalkOn(w, Seen(Host[w])[NextWalk(w)])
  BY <1>3, <1>4 DEF WalkOn, Walking, Writing, IInv, TypeOK
<1>5. CASE pc[w] = "walk" /\ Conclude(w, FALSE)
  BY <1>3, <1>5 DEF Conclude, Walking, Writing, IInv, TypeOK
<1>6. CASE CheckManifest(w)
  BY <1>3, <1>6 DEF CheckManifest, Conclude, Walking, Writing, IInv, TypeOK
<1>. QED  BY <1>1, <1>2, <1>4, <1>5, <1>6 DEF WalkTable

LEMMA VerifyStepHands == IInv /\ HandInv /\ VerifyStep => HandInv'
<1> SUFFICES ASSUME IInv, HandInv, NEW w \in Worker,
                    \/ \E n \in {1, Attempts} : VerifyBegin(w, n)
                    \/ VerifyAgain(w) \/ WalkTable(w) \/ CheckManifest(w)
             PROVE  HandInv'
  BY DEF VerifyStep
<1>1. OwedBy(w)'
  <2>1. pc[w] \notin Writing /\ pc'[w] \notin Writing /\ owed' = owed
    BY VerifierStays DEF writing
  <2>2. owed[w] = << >>
    BY <2>1 DEF IInv, SectionInv
  <2>. QED  BY <2>1, <2>2, OwesNothing
<1>2. \A v \in Worker \ {w} : OwedBy(v)'
  BY VerifierStays, OwesTheSame DEF HandInv, OwedInv, disk, writing
<1>. QED  BY <1>1, <1>2, VerifierStays DEF HandInv, OwedInv, GrowthInv, disk

LEMMA HandStep == IInv /\ HandInv /\ [Next]_vars => HandInv'
<1>1. CASE Next
  BY <1>1, ProcessStepHands, WriteStepHands, AttestStepHands, VerifyStepHands
     DEF Next
<1>2. CASE UNCHANGED vars
  <2>1. HandInv => HandInv'
    BY <1>2, OwesTheSame DEF HandInv, GrowthInv, OwedInv, vars, disk, writing
  <2>. QED  BY <2>1
<1>. QED  BY <1>1, <1>2

-----------------------------------------------------------------------------
(* The manifest's lines and what the processes remember of them.            *)

\* Every table some of these lines is about has a last such line.
HaveLast(lines) ==
    \A t \in Table :
        About(lines, t) # {} =>
            \E i \in About(lines, t) : \A j \in About(lines, t) : j <= i

\* What one more line changes.
LEMMA OneMoreLine ==
    ASSUME NEW lines \in Seq(Line), HaveLast(lines), NEW line \in Line
    PROVE  /\ TailHash(Append(lines, line)) = line.manifest_hash
           /\ \A t \in Table :
                 /\ AttCount(Append(lines, line), t) =
                       IF line.says.table = t THEN line.says.count ELSE AttCount(lines, t)
                 /\ AttHead(Append(lines, line), t) =
                       IF line.says.table = t THEN line.says.head ELSE AttHead(lines, t)
           /\ SelfChained(Append(lines, line)) <=>
                 /\ SelfChained(lines)
                 /\ line.prev_manifest_hash = TailHash(lines)
                 /\ line.manifest_hash = row_hash(line.prev_manifest_hash, line.says)
<1> PICK more, n : more = Append(lines, line) /\ n = Len(lines)
  OBVIOUS
<1>1. /\ more \in Seq(Line) /\ n \in Nat /\ Len(more) = n + 1 /\ more[n + 1] = line
      /\ \A i \in 1 .. n : more[i] = lines[i]
      /\ DOMAIN more = 1 .. (n + 1) /\ DOMAIN lines = 1 .. n
  BY AppendProperties, LenProperties
<1>2. TailHash(more) = line.manifest_hash
  BY <1>1, EmptySeq DEF TailHash
<1>3. ASSUME NEW t \in Table
      PROVE  /\ AttCount(more, t) =
                   IF line.says.table = t THEN line.says.count ELSE AttCount(lines, t)
             /\ AttHead(more, t) =
                   IF line.says.table = t THEN line.says.head ELSE AttHead(lines, t)
  <2>1. CASE line.says.table = t
    <3>1. n + 1 \in About(more, t) /\ \A j \in About(more, t) : j <= n + 1
      BY <1>1, <2>1 DEF About
    <3>2. /\ LastAbout(more, t) \in About(more, t)
          /\ \A j \in About(more, t) : j <= LastAbout(more, t)
      BY <1>1, <3>1, LastAboutIsLast
    <3>3. About(more, t) \subseteq Nat
      BY <1>1 DEF About
    <3>4. LastAbout(more, t) = n + 1
      BY <1>1, <3>1, <3>2, <3>3
    <3>. QED  BY <1>1, <2>1, <3>1, <3>4 DEF AttCount, AttHead
  <2>2. CASE line.says.table # t
    <3>1. About(more, t) = About(lines, t)
      BY <1>1, <2>2 DEF About
    <3>2. LastAbout(more, t) = LastAbout(lines, t)
      BY <3>1 DEF LastAbout
    <3>3. CASE About(lines, t) = {}
      BY <2>2, <3>1, <3>3 DEF AttCount, AttHead
    <3>4. CASE About(lines, t) # {}
      <4>1. LastAbout(lines, t) \in About(lines, t)
        BY <3>4, LastAboutIsLast DEF HaveLast
      <4>2. LastAbout(lines, t) \in 1 .. n
        BY <1>1, <4>1 DEF About
      <4>3. more[LastAbout(more, t)] = lines[LastAbout(lines, t)]
        BY <1>1, <3>2, <4>2
      <4>. QED  BY <2>2, <3>1, <3>4, <4>3 DEF AttCount, AttHead
    <3>. QED  BY <3>3, <3>4
  <2>. QED  BY <2>1, <2>2
<1>4. SelfChained(more) <=>
          /\ SelfChained(lines)
          /\ line.prev_manifest_hash = TailHash(lines)
          /\ line.manifest_hash = row_hash(line.prev_manifest_hash, line.says)
  <2> DEFINE Before(s, i) == IF i = 1 THEN GENESIS ELSE s[i - 1].manifest_hash
             Linked(s, i) ==
                 /\ s[i].prev_manifest_hash = Before(s, i)
                 /\ s[i].manifest_hash = row_hash(s[i].prev_manifest_hash, s[i].says)
  <2>1. /\ SelfChained(more) <=> \A i \in 1 .. (n + 1) : Linked(more, i)
        /\ SelfChained(lines) <=> \A i \in 1 .. n : Linked(lines, i)
    BY <1>1 DEF SelfChained
  <2>2. \A i \in 1 .. n : Before(more, i) = Before(lines, i) /\ more[i] = lines[i]
    BY <1>1
  <2>3. Before(more, n + 1) = TailHash(lines)
    BY <1>1, EmptySeq DEF TailHash
  <2>4. \A i \in 1 .. n : Linked(more, i) <=> Linked(lines, i)
    BY <2>2
  <2>5. Linked(more, n + 1) <=>
            /\ line.prev_manifest_hash = TailHash(lines)
            /\ line.manifest_hash = row_hash(line.prev_manifest_hash, line.says)
    BY <1>1, <2>3
  <2>6. \A i \in 1 .. (n + 1) : i \in 1 .. n \/ i = n + 1
    BY <1>1
  <2>7. 1 .. n \subseteq 1 .. (n + 1) /\ n + 1 \in 1 .. (n + 1)
    BY <1>1
  <2>. HIDE DEF Linked, Before
  <2>. QED  BY <2>1, <2>4, <2>5, <2>6, <2>7
<1>. QED  BY <1>2, <1>3, <1>4

\* The entry the next line is for, and the count it gives.
NextOwed(w) == owed[w][done[w] + 1]
NextCount(w) == LineCount(Host[w], NextOwed(w))

\* The line for the next owed entry.
LEMMA NewLineParts ==
    ASSUME IInv, NEW w \in Worker, done[w] < Len(owed[w])
    PROVE  /\ done[w] + 1 \in DOMAIN owed[w] /\ NextCount(w) \in Nat
           /\ NewLine(w) \in Line
           /\ NewLine(w).prev_manifest_hash = cachedHead[Host[w]]
           /\ NewLine(w).manifest_hash = row_hash(cachedHead[Host[w]], NewLine(w).says)
           /\ NewLine(w).says.table = NextOwed(w).table
           /\ NewLine(w).says.head = NextOwed(w).head
           /\ NewLine(w).says.count = NextCount(w)
           /\ NewLine(w).says \in Attestation
<1> PICK o, c : o = NextOwed(w) /\ c = NextCount(w)
  OBVIOUS
<1>1. /\ owed[w] \in Seq(Owed) /\ done[w] \in Nat /\ Host[w] \in Proc
      /\ cachedCount \in [Proc -> [Table -> Nat]]
      /\ cachedHead \in [Proc -> ManifestHash]
  BY Shapely DEF TypeOK
<1>2. done[w] + 1 \in DOMAIN owed[w]
  BY <1>1, LenProperties
<1>3. o.table \in Table /\ o.head \in Hash /\ o.count \in Nat
  BY <1>2, OwedEntry DEF NextOwed
<1>4. cachedCount[Host[w]][o.table] \in Nat
  BY <1>1, <1>3
<1>5. c \in Nat
  BY <1>3, <1>4 DEF LineCount, NextCount
<1>6. NewLine(w).says = [table |-> o.table, head |-> o.head, count |-> c]
  BY DEF NewLine, NextOwed, NextCount
<1>7. NewLine(w).says \in Attestation
  BY <1>3, <1>5, <1>6 DEF Attestation
<1>8. /\ NewLine(w).prev_manifest_hash = cachedHead[Host[w]]
      /\ NewLine(w).manifest_hash = row_hash(cachedHead[Host[w]], NewLine(w).says)
  BY DEF NewLine
<1>9. row_hash(cachedHead[Host[w]], NewLine(w).says) \in ManifestHash
  BY <1>1, <1>7 DEF row_hash, ManifestHash
<1>10. NewLine(w) \in Line
  BY <1>1, <1>6, <1>7, <1>9 DEF NewLine, Line
<1>. QED  BY <1>2, <1>5, <1>6, <1>7, <1>8, <1>10

\* What a line written changes.
LEMMA LineWritten ==
    ASSUME IInv, NEW w \in Worker, WriteLine(w)
    PROVE  /\ pc[w] = "attest" /\ pc'[w] = "sync" /\ done[w] < Len(owed[w])
           /\ done[w] + 1 \in DOMAIN owed[w]
           /\ UNCHANGED <<db, view, txn, process, writing>> /\ manifestFile' = TRUE
           /\ lost' = (lost /\ ~(Seeding(w) /\ done[w] + 1 = Len(owed[w])))
           /\ manifest' \in Seq(Line) /\ Len(manifest') = Len(manifest) + 1
           /\ Len(manifest) \in Nat /\ DOMAIN manifest = 1 .. Len(manifest)
           /\ manifest'[Len(manifest')] = NewLine(w)
           /\ \A i \in 1 .. Len(manifest) : manifest'[i] = manifest[i]
           /\ NewLine(w).says.table = NextOwed(w).table
           /\ NewLine(w).says.head = NextOwed(w).head
           /\ NewLine(w).says.count = NextCount(w)
           /\ NewLine(w).prev_manifest_hash = cachedHead[Host[w]]
           /\ TailHash(manifest') = NewLine(w).manifest_hash
           /\ Len(TailHash(manifest')) = Len(cachedHead[Host[w]]) + 1
           /\ \A t \in Table :
                 /\ AttCount(manifest', t) =
                       IF NextOwed(w).table = t THEN NextCount(w)
                       ELSE AttCount(manifest, t)
                 /\ AttHead(manifest', t) =
                       IF NextOwed(w).table = t THEN NextOwed(w).head
                       ELSE AttHead(manifest, t)
           /\ SelfChained(manifest') <=>
                 SelfChained(manifest) /\ cachedHead[Host[w]] = TailHash(manifest)
<1> PICK o, c : o = NextOwed(w) /\ c = NextCount(w)
  OBVIOUS
<1>1. /\ pc[w] = "attest" /\ pc'[w] = "sync" /\ done[w] < Len(owed[w])
      /\ UNCHANGED <<db, view, txn, process, writing>> /\ manifestFile' = TRUE
      /\ lost' = (lost /\ ~(Seeding(w) /\ done[w] + 1 = Len(owed[w])))
      /\ manifest' = Append(manifest, NewLine(w)) /\ manifest \in Seq(Line)
  BY Shapely DEF WriteLine, Owes
<1>2. /\ NewLine(w) \in Line /\ NewLine(w).prev_manifest_hash = cachedHead[Host[w]]
      /\ NewLine(w).manifest_hash = row_hash(cachedHead[Host[w]], NewLine(w).says)
      /\ NewLine(w).says.table = o.table /\ NewLine(w).says.head = o.head
      /\ NewLine(w).says.count = c /\ NewLine(w).says \in Attestation
      /\ done[w] + 1 \in DOMAIN owed[w]
  BY <1>1, NewLineParts
<1>3. HaveLast(manifest)
  BY DEF IInv, LastInv, HaveLast
<1>4. /\ manifest' \in Seq(Line) /\ Len(manifest') = Len(manifest) + 1
      /\ Len(manifest) \in Nat /\ DOMAIN manifest = 1 .. Len(manifest)
      /\ manifest'[Len(manifest')] = NewLine(w)
      /\ \A i \in 1 .. Len(manifest) : manifest'[i] = manifest[i]
  BY <1>1, <1>2, AppendProperties, LenProperties
<1>5. Len(NewLine(w).manifest_hash) = Len(cachedHead[Host[w]]) + 1
  <2>1. cachedHead[Host[w]] \in ManifestHash
    BY Shapely DEF TypeOK
  <2>. QED  BY <1>2, <2>1, AppendProperties DEF row_hash, ManifestHash
<1> HIDE DEF NewLine
<1>6. /\ TailHash(manifest') = NewLine(w).manifest_hash
      /\ \A t \in Table :
            /\ AttCount(manifest', t) =
                  IF NewLine(w).says.table = t THEN NewLine(w).says.count
                  ELSE AttCount(manifest, t)
            /\ AttHead(manifest', t) =
                  IF NewLine(w).says.table = t THEN NewLine(w).says.head
                  ELSE AttHead(manifest, t)
      /\ SelfChained(manifest') <=>
            /\ SelfChained(manifest)
            /\ NewLine(w).prev_manifest_hash = TailHash(manifest)
            /\ NewLine(w).manifest_hash =
                   row_hash(NewLine(w).prev_manifest_hash, NewLine(w).says)
  BY <1>1, <1>2, <1>3, OneMoreLine
<1>7. SelfChained(manifest') <=>
          SelfChained(manifest) /\ cachedHead[Host[w]] = TailHash(manifest)
  BY <1>2, <1>6
<1>8. \A t \in Table :
         /\ AttCount(manifest', t) = IF o.table = t THEN c ELSE AttCount(manifest, t)
         /\ AttHead(manifest', t) = IF o.table = t THEN o.head ELSE AttHead(manifest, t)
  BY <1>2, <1>6
<1>9. Len(TailHash(manifest')) = Len(cachedHead[Host[w]]) + 1
  BY <1>5, <1>6
<1>. QED  BY <1>1, <1>2, <1>4, <1>6, <1>7, <1>8, <1>9

\* ... of the counts alone.
LEMMA LineCounts ==
    ASSUME IInv, NEW w \in Worker, WriteLine(w), NEW t \in Table
    PROVE  AttCount(manifest', t) =
               IF NextOwed(w).table = t THEN NextCount(w) ELSE AttCount(manifest, t)
BY LineWritten, ZenonT(30)

\* A pending entry names a committed row.
LEMMA PendingEntry ==
    ASSUME IInv, HandInv, NEW w \in Worker, NEW j \in Pending(w)
    PROVE  /\ pc[w] \in {"attest", "sync"} /\ pc[w] \in Writing
           /\ j \in DOMAIN owed[w] /\ j \in Nat
           /\ txn = NoProc /\ view = db
           /\ owed[w][j].table \in Table /\ RowNo(owed[w][j]) \in Nat
           /\ RowNo(owed[w][j]) \in 1 .. Len(db[owed[w][j].table])
           /\ db[owed[w][j].table][RowNo(owed[w][j])].row_hash = owed[w][j].head
<1>1. /\ pc[w] \in {"attest", "sync"} /\ pc[w] \in Writing /\ j \in DOMAIN owed[w]
  BY DEF Pending, Writing
<1>2. txn = NoProc /\ Names(owed[w][j], view)
  BY <1>1 DEF HandInv, OwedInv, OwedBy
<1>3. view = db
  BY <1>2, Shapely DEF TxnInv
<1>4. owed[w][j].table \in Table /\ RowNo(owed[w][j]) \in Nat /\ j \in Nat
  <2>1. DOMAIN owed[w] \subseteq Nat
    BY Shapely, LenProperties
  <2>. QED  BY <1>1, <2>1, OwedEntry
<1>. QED  BY <1>1, <1>2, <1>3, <1>4, RowsOf DEF Names

\* What a worker would forget is what it still owes.
LEMMA ForgetsPending ==
    ASSUME IInv, NEW w \in Worker
    PROVE  Forgets(w) <=> Pending(w) # {}
<1>1. /\ Len(owed[w]) \in Nat /\ DOMAIN owed[w] = 1 .. Len(owed[w]) /\ done[w] \in Nat
  BY Shapely, LenProperties
<1>2. ASSUME Forgets(w) PROVE Pending(w) # {}
  <2>1. CASE pc[w] = "attest" /\ done[w] < Len(owed[w])
    <3>1. done[w] + 1 \in Pending(w)
      BY <1>1, <2>1 DEF Pending
    <3>. QED  BY <3>1
  <2>2. CASE pc[w] = "sync" /\ done[w] + 1 < Len(owed[w])
    <3>1. done[w] + 2 \in Pending(w)
      BY <1>1, <2>2 DEF Pending
    <3>. QED  BY <3>1
  <2>. QED  BY <1>2, <2>1, <2>2 DEF Forgets
<1>3. ASSUME NEW j \in Pending(w) PROVE Forgets(w)
  BY <1>1, <1>3 DEF Pending, Forgets
<1>. QED  BY <1>2, <1>3

\* Counts of attested rows are numbers.
LEMMA CountsAreNumbers ==
    ASSUME IInv, NEW t \in Table
    PROVE  AttCount(manifest, t) \in Nat
BY Shapely, AttTypes DEF IInv

\* A step that leaves the files and caches alone and in which no worker comes to
\* owe more.
LEMMA FilesUntouched ==
    ASSUME FileInv,
           UNCHANGED <<manifest, manifestFile, cachedHead, cachedCount, db, lost>>,
           \A v \in Worker :
               /\ Pending(v)' \subseteq Pending(v)
               /\ \A j \in Pending(v)' : owed'[v][j] = owed[v][j]
               /\ pc'[v] = "sync" => pc[v] = "sync"
               /\ Seeding(v) /\ Pending(v) # {} => Seeding(v)' /\ Pending(v)' # {}
    PROVE  FileInv'
<1>1. SelfChained(manifest)' => CacheInv' /\ CountInv'
  BY DEF FileInv, CacheInv, CountInv
<1>2. SelfChained(manifest)' => LossInv'
  BY DEF FileInv, LossInv
<1>. QED  BY <1>1, <1>2 DEF FileInv

\* When all that was owed is forgotten, the loss shows.
LEMMA LossShows ==
    ASSUME IInv, HandInv, CountInv, UNCHANGED <<manifest, db>>,
           \A v \in Worker : Pending(v)' = {},
           NEW w \in Worker, Pending(w) # {}
    PROVE  LossInv'
<1>1. PICK j \in Pending(w) : TRUE
  OBVIOUS
<1>2. /\ owed[w][j].table \in Table
      /\ RowNo(owed[w][j]) <= Len(db[owed[w][j].table])
      /\ RowNo(owed[w][j]) \in Nat /\ Len(db[owed[w][j].table]) \in Nat
  BY PendingEntry, RowsOf
<1>3. AttCount(manifest, owed[w][j].table) < Len(db[owed[w][j].table])
  BY <1>2, CountsAreNumbers DEF CountInv
<1>4. \E t \in Table : AttCount(manifest', t) < Len(db'[t])
  BY <1>2, <1>3
<1>. QED  BY <1>4 DEF LossInv

\* An old loss goes on showing when nobody comes to owe more.
LEMMA LossStays ==
    ASSUME UNCHANGED <<manifest, db>>,
           \A v \in Worker : /\ Pending(v)' \subseteq Pending(v)
                             /\ \A j \in Pending(v)' : owed'[v][j] = owed[v][j],
           NEW t \in Table, AttCount(manifest, t) < Len(db[t]),
           \A w \in Worker : \A j \in Pending(w) :
               owed[w][j].table = t => AttCount(manifest, t) + 1 < RowNo(owed[w][j])
    PROVE  LossInv'
BY DEF LossInv

\* A constructor reads the tail of the manifest and the counts.
LEMMA OpenFiles ==
    ASSUME IInv, FileInv, NEW p \in Proc, Open(p)
    PROVE  FileInv'
<1> USE DEF disk, writing
<1>1. /\ UNCHANGED <<db, view, txn, manifest, manifestFile, pc, owed, done, lost>>
      /\ cachedHead' = [cachedHead EXCEPT ![p] = TailHash(manifest)]
      /\ cachedCount' = [cachedCount EXCEPT
                            ![p] = [t \in Table |-> AttCount(manifest, t)]]
      /\ phase[p] \in {"down", "refused"}
  BY DEF Open, ReadManifest, Down
<1>2. cachedHead \in [Proc -> ManifestHash] /\ cachedCount \in [Proc -> [Table -> Nat]]
  BY Shapely DEF TypeOK
<1>3. /\ cachedHead'[p] = TailHash(manifest)
      /\ \A t \in Table : cachedCount'[p][t] = AttCount(manifest, t)
      /\ \A q \in Proc \ {p} : cachedHead'[q] = cachedHead[q]
                               /\ cachedCount'[q] = cachedCount[q]
  BY <1>1, <1>2
<1>4. ASSUME CacheInv PROVE CacheInv'
  <2>1. Len(TailHash(manifest)) <= Len(manifest)
    <3>1. manifest \in Seq(Line) /\ Len(manifest) \in Nat /\ DOMAIN manifest = 1 .. Len(manifest)
      BY Shapely, LenProperties
    <3>2. CASE manifest = << >>
      BY <3>1, <3>2 DEF TailHash, GENESIS
    <3>3. CASE manifest # << >>
      <4>1. Len(manifest) \in DOMAIN manifest
        BY <3>1, <3>3, EmptySeq
      <4>. QED  BY <1>4, <3>1, <3>3, <4>1 DEF CacheInv, TailHash
    <3>. QED  BY <3>2, <3>3
  <2>2. ASSUME NEW w \in Worker, pc'[w] = "sync" PROVE Host[w] # p /\ Host[w] \in Proc
    BY <1>1, <2>2, Shapely DEF LockInv
  <2>3. \A q \in Proc :
           /\ Len(cachedHead'[q]) <= Len(manifest')
           /\ cachedHead'[q] = TailHash(manifest') =>
                 \A t \in Table : cachedCount'[q][t] = AttCount(manifest', t)
    BY <1>1, <1>3, <1>4, <2>1 DEF CacheInv
  <2>4. \A w \in Worker : pc'[w] = "sync" =>
           \A t \in Table \ {manifest'[Len(manifest')].says.table} :
               cachedCount'[Host[w]][t] = AttCount(manifest', t)
    BY <1>1, <1>3, <1>4, <2>2 DEF CacheInv
  <2>. QED  BY <1>1, <1>4, <2>3, <2>4 DEF CacheInv
<1>5. CountInv => CountInv'
  BY <1>1 DEF CountInv, Pending
<1>6. LossInv => LossInv'
  BY <1>1 DEF LossInv, Pending, Seeding
<1>. QED  BY <1>1, <1>4, <1>5, <1>6 DEF FileInv

\* What a process's end leaves of its workers' debts.
LEMMA GoneDebts ==
    ASSUME NEW p \in Proc, Gone(p), NEW w \in Worker
    PROVE  /\ Pending(w)' = IF Host[w] = p THEN {} ELSE Pending(w)
           /\ Host[w] # p => /\ owed'[w] = owed[w] /\ Seeding(w)' = Seeding(w)
                             /\ pc'[w] = pc[w]
           /\ Host[w] = p => pc'[w] = "idle"
BY DEF Gone, Pending, Seeding

LEMMA CrashFiles ==
    ASSUME IInv, HandInv, FileInv, NEW p \in Proc, Crash(p)
    PROVE  FileInv'
<1>1. /\ UNCHANGED <<db, manifest, manifestFile, cachedHead, cachedCount>> /\ Gone(p)
      /\ lost' = (lost \/ \E w \in Workers(p) : Forgets(w))
  BY DEF Crash
<1>2. \A v \in Worker :
         /\ Pending(v)' \subseteq Pending(v)
         /\ \A j \in Pending(v)' : owed'[v][j] = owed[v][j]
         /\ pc'[v] = "sync" => pc[v] = "sync"
  BY <1>1, GoneDebts
<1>3. ASSUME SelfChained(manifest) PROVE CacheInv' /\ CountInv'
  BY <1>1, <1>2, <1>3 DEF FileInv, CacheInv, CountInv
<1>4. ASSUME SelfChained(manifest), lost' PROVE LossInv'
  <2>1. CountInv /\ LossInv
    BY <1>4 DEF FileInv
  <2>2. CASE \E w \in Workers(p) : Pending(w) # {}
    <3>1. PICK w \in Workers(p) : Pending(w) # {}
      BY <2>2
    <3>2. w \in Worker /\ Host[w] = p
      BY DEF Workers
    <3>3. pc[w] \in Writing
      BY <3>1, <3>2, PendingEntry
    <3>4. ASSUME NEW v \in Worker PROVE Pending(v)' = {}
      <4>1. CASE v = w
        BY <1>1, <3>2, <4>1, GoneDebts
      <4>2. CASE v # w
        <5>1. Pending(v) = {}
          BY <3>2, <3>3, <4>2, Alone DEF Pending, Writing
        <5>. QED  BY <1>2, <5>1
      <4>. QED  BY <4>1, <4>2
    <3>. QED  BY <1>1, <2>1, <3>1, <3>2, <3>4, LossShows
  <2>3. CASE \A w \in Workers(p) : Pending(w) = {}
    <3>1. lost
      BY <1>1, <1>4, <2>3, ForgetsPending DEF Workers
    <3>2. CASE \E w \in Worker : Seeding(w) /\ Pending(w) # {}
      <4>1. PICK w \in Worker : Seeding(w) /\ Pending(w) # {}
        BY <3>2
      <4>2. Host[w] # p
        BY <2>3, <4>1 DEF Workers
      <4>3. Seeding(w)' /\ Pending(w)' # {}
        BY <1>1, <4>1, <4>2, GoneDebts
      <4>. QED  BY <4>3 DEF LossInv
    <3>3. CASE \E t \in Table :
                  /\ AttCount(manifest, t) < Len(db[t])
                  /\ \A w \in Worker : \A j \in Pending(w) :
                        owed[w][j].table = t =>
                            AttCount(manifest, t) + 1 < RowNo(owed[w][j])
      BY <1>1, <1>2, <3>3, LossStays
    <3>. QED  BY <2>1, <3>1, <3>2, <3>3 DEF LossInv
  <2>. QED  BY <2>2, <2>3
<1>5. ~lost' => LossInv'
  BY DEF LossInv
<1>. QED  BY <1>1, <1>3, <1>4, <1>5 DEF FileInv

LEMMA ProcessStepFiles == IInv /\ HandInv /\ FileInv /\ ProcessStep => FileInv'
<1> SUFFICES ASSUME IInv, HandInv, FileInv, NEW p \in Proc,
                    \/ Open(p) \/ TakeLock(p) \/ LockHeld(p) \/ Stop(p) \/ Crash(p)
             PROVE  FileInv'
  BY DEF ProcessStep
<1>1. CASE TakeLock(p) \/ LockHeld(p)
  <2>1. UNCHANGED <<db, manifest, manifestFile, cachedHead, cachedCount, pc, owed, done, lost>>
    BY <1>1 DEF TakeLock, LockHeld, disk, writing
  <2>. QED  BY <2>1, FilesUntouched DEF Pending, Seeding
<1>2. CASE Stop(p)
  <2>1. /\ UNCHANGED <<db, manifest, manifestFile, cachedHead, cachedCount, lost>> /\ Gone(p)
        /\ \A w \in Workers(p) : pc[w] = "idle"
    BY <1>2 DEF Stop, OnlyMain
  <2>2. \A v \in Worker :
           /\ Pending(v)' = Pending(v)
           /\ \A j \in Pending(v)' : owed'[v][j] = owed[v][j]
           /\ pc'[v] = "sync" => pc[v] = "sync"
           /\ Seeding(v) /\ Pending(v) # {} => Seeding(v)'
    <3> SUFFICES ASSUME NEW v \in Worker
                 PROVE  /\ Pending(v)' = Pending(v)
                        /\ \A j \in Pending(v)' : owed'[v][j] = owed[v][j]
                        /\ pc'[v] = "sync" => pc[v] = "sync"
                        /\ Seeding(v) /\ Pending(v) # {} => Seeding(v)'
      OBVIOUS
    <3>1. CASE Host[v] = p
      <4>1. Pending(v) = {}
        BY <2>1, <3>1 DEF Workers, Pending
      <4>. QED  BY <2>1, <3>1, <4>1, GoneDebts
    <3>2. CASE Host[v] # p
      BY <2>1, <3>2, GoneDebts
    <3>. QED  BY <3>1, <3>2
  <2>. QED  BY <2>1, <2>2, FilesUntouched
<1>. QED  BY <1>1, <1>2, OpenFiles, CrashFiles

LEMMA WriteStepFiles == IInv /\ HandInv /\ FileInv /\ WriteStep => FileInv'
<1> SUFFICES ASSUME IInv, HandInv, FileInv, NEW w \in Worker,
                    \/ \E sh \in Shapes : Begin(w, sh)
                    \/ \E d \in Payload : Insert(w, d)
                    \/ ReadHead(w) \/ Rollback(w) \/ Commit(w)
             PROVE  FileInv'
  BY DEF WriteStep
<1> USE DEF disk, process, writing, verifying, bounds
<1>0. {"head", "insert", "commit"} \subseteq Writing /\ "idle" \notin Writing
  BY DEF Writing
<1>1. ASSUME UNCHANGED <<manifest, manifestFile, cachedHead, cachedCount, db, lost>>,
             pc[w] \notin {"attest", "sync"}, pc'[w] \notin {"attest", "sync"},
             \A v \in Worker \ {w} : /\ pc'[v] = pc[v] /\ owed'[v] = owed[v]
                                     /\ done'[v] = done[v]
      PROVE  FileInv'
  <2>1. Pending(w) = {} /\ Pending(w)' = {}
    BY <1>1 DEF Pending
  <2>2. \A v \in Worker \ {w} : Pending(v)' = Pending(v) /\ Seeding(v)' = Seeding(v)
    BY <1>1 DEF Pending, Seeding
  <2>. QED  BY <1>1, <2>1, <2>2, FilesUntouched
<1>2. CASE \E sh \in Shapes : Begin(w, sh)
  BY <1>1, <1>2, Shapely DEF Begin
<1>3. CASE \E d \in Payload : Insert(w, d)
  BY <1>1, <1>3, Shapely DEF Insert
<1>4. CASE ReadHead(w)
  BY <1>1, <1>4, Shapely DEF ReadHead
<1>5. CASE Rollback(w)
  BY <1>1, <1>5, Shapely DEF Rollback, Leave
<1>6. CASE Commit(w)
  <2>1. /\ pc[w] = "commit" /\ db' = view /\ pc'[w] = "attest"
        /\ UNCHANGED <<manifest, manifestFile, cachedHead, cachedCount, owed, done, lost>>
        /\ \A v \in Worker \ {w} : pc'[v] = pc[v]
    BY <1>6, Shapely DEF Commit
  <2>2. \A v \in Worker : Pending(v) = {} /\ (v # w => Pending(v)' = {})
    BY <1>0, <2>1, Alone DEF Pending, Writing
  <2>3. \A j \in Pending(w)' :
           /\ j \in DOMAIN owed[w] /\ owed[w][j].table \in Table
           /\ Len(db[owed[w][j].table]) < RowNo(owed[w][j])
           /\ RowNo(owed[w][j]) \in Nat
    BY <2>1, OwedEntry DEF Pending, HandInv, OwedInv, OwedBy
  <2>4. \A t \in Table : /\ Len(db[t]) <= Len(db'[t]) /\ Len(db[t]) \in Nat
                         /\ Len(db'[t]) \in Nat /\ AttCount(manifest, t) \in Nat
    BY <2>1, RowsOf, CountsAreNumbers DEF HandInv, GrowthInv
  <2>5. CacheInv => CacheInv'
    BY <2>1 DEF CacheInv
  <2>6. ASSUME CountInv PROVE CountInv'
    <3>1. \A t \in Table : AttCount(manifest', t) <= Len(db'[t])
      BY <2>1, <2>4, <2>6 DEF CountInv
    <3>2. \A j \in Pending(w)' : AttCount(manifest', owed'[w][j].table) < RowNo(owed'[w][j])
      BY <2>1, <2>3, <2>4, <2>6 DEF CountInv
    <3>. QED  BY <2>2, <3>1, <3>2 DEF CountInv
  <2>7. ASSUME CountInv, LossInv, lost PROVE LossInv'
    <3>1. PICK t \in Table : AttCount(manifest, t) < Len(db[t])
      BY <2>2, <2>7 DEF LossInv
    <3>2. AttCount(manifest', t) < Len(db'[t])
      BY <2>1, <2>4, <3>1
    <3>3. \A j \in Pending(w)' :
             owed'[w][j].table = t => AttCount(manifest', t) + 1 < RowNo(owed'[w][j])
      BY <2>1, <2>3, <2>4, <3>1
    <3>. QED  BY <2>2, <3>2, <3>3 DEF LossInv
  <2>8. ~lost => LossInv'
    BY <2>1 DEF LossInv
  <2>. QED  BY <2>1, <2>5, <2>6, <2>7, <2>8 DEF FileInv
<1>. QED  BY <1>2, <1>3, <1>4, <1>5, <1>6

LEMMA VerifyStepFiles == IInv /\ HandInv /\ FileInv /\ VerifyStep => FileInv'
<1> SUFFICES ASSUME IInv, HandInv, FileInv, NEW w \in Worker,
                    \/ \E n \in {1, Attempts} : VerifyBegin(w, n)
                    \/ VerifyAgain(w) \/ WalkTable(w) \/ CheckManifest(w)
             PROVE  FileInv'
  BY DEF VerifyStep
<1>1. /\ pc[w] \notin Writing /\ pc'[w] \notin Writing
      /\ UNCHANGED <<db, manifest, manifestFile, cachedHead, cachedCount, lost, owed, done>>
      /\ \A v \in Worker \ {w} : pc'[v] = pc[v]
  BY VerifierStays DEF disk, writing
<1>2. Pending(w) = {} /\ Pending(w)' = {} /\ pc'[w] # "sync"
  BY <1>1 DEF Pending, Writing
<1>3. \A v \in Worker \ {w} : Pending(v)' = Pending(v) /\ Seeding(v)' = Seeding(v)
  BY <1>1 DEF Pending, Seeding
<1>. QED  BY <1>1, <1>2, <1>3, FilesUntouched

LEMMA TailCounts ==
    ASSUME IInv, CacheInv
    PROVE  Len(TailHash(manifest)) = Len(manifest)
<1>1. manifest \in Seq(Line) /\ Len(manifest) \in Nat /\ DOMAIN manifest = 1 .. Len(manifest)
  BY Shapely, LenProperties
<1>2. CASE manifest = << >>
  BY <1>1, <1>2 DEF TailHash, GENESIS
<1>3. CASE manifest # << >>
  <2>1. Len(manifest) \in DOMAIN manifest
    BY <1>1, <1>3, EmptySeq
  <2>. QED  BY <1>1, <1>3, <2>1 DEF CacheInv, TailHash
<1>. QED  BY <1>2, <1>3

\* The line written by a process that knows the tail of the file: its count is
\* above the attested one and at most the number of the row it names.
LEMMA NextLine ==
    ASSUME IInv, HandInv, FileInv, NEW w \in Worker, WriteLine(w),
           SelfChained(manifest), cachedHead[Host[w]] = TailHash(manifest)
    PROVE  /\ NextOwed(w).table \in Table /\ NextCount(w) \in Nat
           /\ RowNo(NextOwed(w)) \in Nat
           /\ AttCount(manifest, NextOwed(w).table) < NextCount(w)
           /\ NextCount(w) <= RowNo(NextOwed(w))
           /\ RowNo(NextOwed(w)) \in 1 .. Len(db[NextOwed(w).table])
           /\ db[NextOwed(w).table][RowNo(NextOwed(w))].row_hash = NextOwed(w).head
           /\ Seeding(w) => /\ NextCount(w) = RowNo(NextOwed(w))
                             /\ RowNo(NextOwed(w)) = Len(db[NextOwed(w).table])
           /\ ~Seeding(w) => NextCount(w) = AttCount(manifest, NextOwed(w).table) + 1
           /\ done[w] + 1 \in Pending(w) /\ Seeding(w)' = Seeding(w)
           /\ Pending(w)' = Pending(w) \ {done[w] + 1}
           /\ \A j \in Pending(w)' :
                 /\ j \in DOMAIN owed[w] /\ owed'[w][j] = owed[w][j]
                 /\ RowNo(owed[w][j]) \in Nat
                 /\ owed[w][j].table = NextOwed(w).table =>
                       RowNo(NextOwed(w)) < RowNo(owed[w][j])
           /\ \A v \in Worker \ {w} :
                 Pending(v) = {} /\ Pending(v)' = {} /\ pc'[v] # "sync"
<1> PICK o, c : o = NextOwed(w) /\ c = NextCount(w)
  OBVIOUS
<1>1. /\ pc[w] = "attest" /\ pc'[w] = "sync" /\ done[w] < Len(owed[w]) /\ c \in Nat
      /\ done[w] + 1 \in DOMAIN owed[w] /\ UNCHANGED <<owed, done>>
  BY LineWritten, NewLineParts DEF writing
<1>2. /\ done[w] \in Nat /\ Len(owed[w]) \in Nat /\ DOMAIN owed[w] = 1 .. Len(owed[w])
  BY Shapely, LenProperties
<1>3. done[w] + 1 \in Pending(w)
  BY <1>1, <1>2 DEF Pending
<1>4. Pending(w)' = Pending(w) \ {done[w] + 1}
  BY <1>1, <1>2 DEF Pending
<1>5. /\ o.table \in Table /\ RowNo(o) \in Nat /\ RowNo(o) \in 1 .. Len(db[o.table])
      /\ db[o.table][RowNo(o)].row_hash = o.head
  BY <1>3, PendingEntry DEF NextOwed
<1>6. /\ AttCount(manifest, o.table) \in Nat
      /\ AttCount(manifest, o.table) < RowNo(o)
      /\ cachedCount[Host[w]][o.table] = AttCount(manifest, o.table)
  <2>1. CacheInv /\ CountInv /\ Host[w] \in Proc
    BY Shapely DEF FileInv
  <2>. QED  BY <1>3, <1>5, <2>1, CountsAreNumbers DEF CacheInv, CountInv, NextOwed
<1>7. /\ o.count = IF Seeding(w) THEN RowNo(o) ELSE 0
      /\ Seeding(w) => RowNo(o) = Len(db[o.table])
  BY <1>1 DEF HandInv, OwedInv, OwedBy, NextOwed
<1>8. /\ Seeding(w) => c = RowNo(o)
      /\ ~Seeding(w) => c = AttCount(manifest, o.table) + 1
  BY <1>5, <1>6, <1>7 DEF LineCount, NextCount
<1>9. AttCount(manifest, o.table) < c /\ c <= RowNo(o)
  BY <1>5, <1>6, <1>8
<1>10. ASSUME NEW j \in Pending(w)'
       PROVE  /\ j \in DOMAIN owed[w] /\ owed'[w][j] = owed[w][j]
              /\ RowNo(owed[w][j]) \in Nat
              /\ owed[w][j].table = o.table => RowNo(o) < RowNo(owed[w][j])
  <2>1. j \in DOMAIN owed[w] /\ done[w] + 1 < j
    BY <1>1, <1>2 DEF Pending
  <2>. QED  BY <1>1, <2>1, OwedEntry DEF HandInv, OwedInv, OwedBy, NextOwed
<1>11. \A v \in Worker \ {w} : Pending(v) = {} /\ Pending(v)' = {} /\ pc'[v] # "sync"
  BY WriterStays DEF Pending, Writing
<1>12. Seeding(w)' = Seeding(w)
  BY <1>1 DEF Seeding
<1>. QED  BY <1>1, <1>3, <1>4, <1>5, <1>7, <1>8, <1>9, <1>10, <1>11, <1>12

LEMMA WriteLineFiles ==
    ASSUME IInv, HandInv, FileInv, NEW w \in Worker, WriteLine(w)
    PROVE  FileInv'
<1> PICK o, c : o = NextOwed(w) /\ c = NextCount(w)
  OBVIOUS
<1> DEFINE n == Len(manifest) + 1
<1>1. /\ UNCHANGED <<db, view, txn, process, writing>> /\ manifestFile' = TRUE
      /\ pc'[w] = "sync" /\ manifest' \in Seq(Line) /\ Len(manifest') = n
      /\ lost' = (lost /\ ~(Seeding(w) /\ done[w] + 1 = Len(owed[w])))
      /\ Len(manifest) \in Nat /\ DOMAIN manifest = 1 .. Len(manifest)
      /\ \A i \in 1 .. Len(manifest) : manifest'[i] = manifest[i]
      /\ manifest'[n] = NewLine(w) /\ NewLine(w).says.table = o.table
      /\ TailHash(manifest') = NewLine(w).manifest_hash
      /\ Len(TailHash(manifest')) = Len(cachedHead[Host[w]]) + 1
      /\ SelfChained(manifest') <=>
            SelfChained(manifest) /\ cachedHead[Host[w]] = TailHash(manifest)
  BY LineWritten
<1>2. \A t \in Table :
         AttCount(manifest', t) = IF o.table = t THEN c ELSE AttCount(manifest, t)
  BY LineCounts
<1>3. SUFFICES ASSUME SelfChained(manifest), cachedHead[Host[w]] = TailHash(manifest)
               PROVE  CacheInv' /\ CountInv' /\ LossInv'
  BY <1>1 DEF FileInv
<1>4. CacheInv /\ CountInv /\ LossInv /\ Host[w] \in Proc
  BY <1>3, Shapely DEF FileInv
<1>5. /\ o.table \in Table /\ c \in Nat /\ RowNo(o) \in Nat
      /\ AttCount(manifest, o.table) < c /\ c <= RowNo(o)
      /\ RowNo(o) \in 1 .. Len(db[o.table])
      /\ ~Seeding(w) => c = AttCount(manifest, o.table) + 1
      /\ done[w] + 1 \in Pending(w) /\ Seeding(w)' = Seeding(w)
      /\ Pending(w)' = Pending(w) \ {done[w] + 1}
      /\ \A j \in Pending(w)' :
            /\ j \in DOMAIN owed[w] /\ owed'[w][j] = owed[w][j]
            /\ RowNo(owed[w][j]) \in Nat
            /\ owed[w][j].table = o.table => RowNo(o) < RowNo(owed[w][j])
      /\ \A v \in Worker \ {w} : Pending(v) = {} /\ Pending(v)' = {} /\ pc'[v] # "sync"
  BY <1>3, NextLine
<1>6. \A t \in Table : Len(db[t]) \in Nat /\ AttCount(manifest, t) \in Nat
  BY RowsOf, CountsAreNumbers
<1>7. CacheInv'
  <2>1. Len(cachedHead[Host[w]]) = Len(manifest)
    BY <1>3, <1>4, TailCounts
  <2>2. \A i \in DOMAIN manifest' : Len(manifest'[i].manifest_hash) = i
    <3>1. DOMAIN manifest' = 1 .. n
      BY <1>1, LenProperties
    <3>2. Len(manifest'[n].manifest_hash) = n
      BY <1>1, <2>1
    <3>3. \A i \in 1 .. Len(manifest) : Len(manifest'[i].manifest_hash) = i
      BY <1>1, <1>4 DEF CacheInv
    <3>4. \A i \in 1 .. n : i = n \/ i \in 1 .. Len(manifest)
      BY <1>1
    <3>. QED  BY <3>1, <3>2, <3>3, <3>4
  <2>3. \A q \in Proc : /\ Len(cachedHead'[q]) <= Len(manifest')
                        /\ cachedHead'[q] # TailHash(manifest')
    <3>1. \A q \in Proc : /\ Len(cachedHead[q]) <= Len(manifest)
                          /\ cachedHead[q] \in ManifestHash
      BY <1>4, Shapely DEF CacheInv, TypeOK
    <3>2. \A q \in Proc : Len(cachedHead[q]) \in Nat
      BY <3>1, LenProperties DEF ManifestHash
    <3>3. cachedHead' = cachedHead
      BY <1>1 DEF process
    <3>. QED  BY <1>1, <2>1, <3>1, <3>2, <3>3
  <2>4. \A v \in Worker : pc'[v] = "sync" =>
           \A t \in Table \ {manifest'[Len(manifest')].says.table} :
               cachedCount'[Host[v]][t] = AttCount(manifest', t)
    <3>1. \A t \in Table : cachedCount[Host[w]][t] = AttCount(manifest, t)
      BY <1>3, <1>4 DEF CacheInv
    <3>2. cachedCount' = cachedCount
      BY <1>1 DEF process
    <3>3. \A t \in Table \ {o.table} : AttCount(manifest', t) = AttCount(manifest, t)
      BY <1>2
    <3>. QED  BY <1>1, <1>5, <3>1, <3>2, <3>3
  <2>. QED  BY <2>2, <2>3, <2>4 DEF CacheInv
<1>8. CountInv'
  <2>1. \A t \in Table : AttCount(manifest', t) <= Len(db'[t])
    BY <1>1, <1>2, <1>4, <1>5, <1>6 DEF CountInv
  <2>2. ASSUME NEW j \in Pending(w)'
        PROVE  AttCount(manifest', owed'[w][j].table) < RowNo(owed'[w][j])
    <3>1. /\ j \in Pending(w) /\ owed'[w][j] = owed[w][j] /\ RowNo(owed[w][j]) \in Nat
          /\ owed[w][j].table \in Table
      BY <1>5, OwedEntry
    <3>2. CASE owed[w][j].table = o.table
      BY <1>2, <1>5, <3>1, <3>2
    <3>3. CASE owed[w][j].table # o.table
      BY <1>2, <1>4, <3>1, <3>3 DEF CountInv
    <3>. QED  BY <3>2, <3>3
  <2>. QED  BY <1>5, <2>1, <2>2 DEF CountInv
<1>9. ASSUME lost' PROVE LossInv'
  <2>1. lost /\ ~(Seeding(w) /\ done[w] + 1 = Len(owed[w]))
    BY <1>1, <1>9
  <2>2. CASE Seeding(w)
    <3>1. /\ done[w] \in Nat /\ Len(owed[w]) \in Nat /\ DOMAIN owed[w] = 1 .. Len(owed[w])
          /\ done[w] < Len(owed[w]) /\ UNCHANGED <<owed, done>>
      BY <1>1, Shapely, LenProperties, LineWritten DEF writing
    <3>2. done[w] + 2 \in Pending(w)'
      BY <1>1, <2>1, <2>2, <3>1 DEF Pending
    <3>. QED  BY <1>5, <2>2, <3>2 DEF LossInv
  <2>3. CASE ~Seeding(w)
    <3>1. PICK t \in Table :
              /\ AttCount(manifest, t) < Len(db[t])
              /\ \A v \in Worker : \A j \in Pending(v) :
                    owed[v][j].table = t => AttCount(manifest, t) + 1 < RowNo(owed[v][j])
      BY <1>4, <1>5, <2>1, <2>3 DEF LossInv
    <3>2. AttCount(manifest', t) < Len(db'[t])
      <4>1. CASE t = o.table
        <5>1. AttCount(manifest, t) + 1 < RowNo(o)
          BY <1>5, <3>1, <4>1 DEF NextOwed
        <5>. QED  BY <1>1, <1>2, <1>5, <1>6, <2>3, <4>1, <5>1
      <4>2. CASE t # o.table
        BY <1>1, <1>2, <3>1, <4>2
      <4>. QED  BY <4>1, <4>2
    <3>3. ASSUME NEW j \in Pending(w)', owed'[w][j].table = t
          PROVE  AttCount(manifest', t) + 1 < RowNo(owed'[w][j])
      <4>1. /\ j \in Pending(w) /\ owed'[w][j] = owed[w][j] /\ RowNo(owed[w][j]) \in Nat
        BY <1>5
      <4>2. CASE t = o.table
        <5>1. AttCount(manifest, t) + 1 < RowNo(o)
          BY <1>5, <3>1, <4>2 DEF NextOwed
        <5>2. RowNo(o) < RowNo(owed[w][j])
          BY <1>5, <3>3, <4>1, <4>2
        <5>. QED  BY <1>2, <1>5, <1>6, <2>3, <4>1, <4>2, <5>1, <5>2
      <4>3. CASE t # o.table
        BY <1>2, <3>1, <3>3, <4>1, <4>3
      <4>. QED  BY <4>2, <4>3
    <3>. QED  BY <1>5, <3>2, <3>3 DEF LossInv
  <2>. QED  BY <2>2, <2>3
<1>10. ~lost' => LossInv'
  BY DEF LossInv
<1>. QED  BY <1>7, <1>8, <1>9, <1>10

\* The last line is the last about its table.
LEMMA LastLineCounts ==
    ASSUME NEW lines \in Seq(Line), lines # << >>
    PROVE  /\ lines[Len(lines)] \in Line
           /\ AttCount(lines, lines[Len(lines)].says.table) = lines[Len(lines)].says.count
<1> PICK t, n : n = Len(lines) /\ t = lines[n].says.table
  OBVIOUS
<1>1. n \in Nat /\ n \in DOMAIN lines /\ DOMAIN lines = 1 .. n
  BY LenProperties, EmptySeq
<1>2. lines[n] \in Line /\ t \in Table
  <2>1. lines[n] \in Line
    BY <1>1
  <2>2. lines[n].says \in Attestation
    BY <2>1 DEF Line
  <2>. QED  BY <2>1, <2>2 DEF Attestation
<1>3. n \in About(lines, t) /\ \A j \in About(lines, t) : j <= n
  BY <1>1 DEF About
<1>4. /\ LastAbout(lines, t) \in About(lines, t)
      /\ \A j \in About(lines, t) : j <= LastAbout(lines, t)
  BY <1>2, <1>3, LastAboutIsLast
<1>5. About(lines, t) \subseteq Nat
  BY <1>1 DEF About
<1>6. LastAbout(lines, t) = n
  BY <1>3, <1>4, <1>5
<1>. QED  BY <1>2, <1>3, <1>6 DEF AttCount

\* What a successful fsync changes.
LEMMA LineSynced ==
    ASSUME IInv, HandInv, NEW w \in Worker, SyncLine(w)
    PROVE  /\ pc[w] = "sync" /\ manifest # << >> /\ manifest[Len(manifest)] \in Line
           /\ pc'[w] \in {"attest", "idle"}
           /\ UNCHANGED <<disk, flock, phase, lost>>
           /\ cachedHead'[Host[w]] = TailHash(manifest)
           /\ \A t \in Table :
                 cachedCount'[Host[w]][t] =
                     IF t = manifest[Len(manifest)].says.table THEN AttCount(manifest, t)
                     ELSE cachedCount[Host[w]][t]
           /\ \A q \in Proc \ {Host[w]} : /\ cachedHead'[q] = cachedHead[q]
                                          /\ cachedCount'[q] = cachedCount[q]
           /\ Pending(w)' = Pending(w)
           /\ \A j \in Pending(w)' : owed'[w][j] = owed[w][j]
           /\ Seeding(w) /\ Pending(w) # {} => Seeding(w)'
           /\ pc'[w] = "idle" => Pending(w) = {}
           /\ \A v \in Worker \ {w} : /\ pc[v] \notin Writing /\ pc'[v] = pc[v]
                                      /\ Pending(v) = {} /\ Pending(v)' = {}
<1> PICK p, line : p = Host[w] /\ line = manifest[Len(manifest)]
  OBVIOUS
<1>1. /\ pc[w] = "sync" /\ manifest # << >> /\ manifest \in Seq(Line) /\ p \in Proc
  BY Shapely DEF SyncLine, SectionInv
<1>2. line \in Line /\ AttCount(manifest, line.says.table) = line.says.count
  BY <1>1, LastLineCounts
<1>3. cachedHead \in [Proc -> ManifestHash] /\ cachedCount \in [Proc -> [Table -> Nat]]
  BY Shapely DEF TypeOK
<1>4. /\ cachedHead' = [cachedHead EXCEPT ![p] = line.manifest_hash]
      /\ cachedCount' = [cachedCount EXCEPT ![p][line.says.table] = line.says.count]
      /\ UNCHANGED <<disk, flock, phase, lost>>
  BY DEF SyncLine, Remember
<1>5. line.says.table \in Table
  BY <1>2 DEF Line, Attestation
<1>6. /\ cachedHead'[p] = TailHash(manifest)
      /\ \A q \in Proc \ {p} : cachedHead'[q] = cachedHead[q]
                               /\ cachedCount'[q] = cachedCount[q]
  BY <1>1, <1>3, <1>4 DEF TailHash
<1>7. \A t \in Table :
         cachedCount'[p][t] = IF t = line.says.table THEN AttCount(manifest, t)
                              ELSE cachedCount[p][t]
  BY <1>1, <1>2, <1>3, <1>4, <1>5
<1>8. /\ owed[w] \in Seq(Owed) /\ DOMAIN owed[w] = 1 .. Len(owed[w])
      /\ Len(owed[w]) \in Nat /\ done[w] \in Nat /\ done[w] < Len(owed[w])
  BY <1>1, Shapely, LenProperties DEF HandInv, OwedInv, OwedBy
<1>9. /\ Pending(w)' = Pending(w) /\ pc'[w] \in {"attest", "idle"}
      /\ \A j \in Pending(w)' : owed'[w][j] = owed[w][j]
      /\ Seeding(w) /\ Pending(w) # {} => Seeding(w)'
      /\ pc'[w] = "idle" => Pending(w) = {}
  <2>1. CASE done[w] + 1 = Len(owed[w])
    <3>1. owed'[w] = << >> /\ pc'[w] = "idle"
      BY <2>1, Shapely DEF SyncLine, Leave
    <3>2. Pending(w) = {} /\ Pending(w)' = {}
      BY <1>1, <1>8, <2>1, <3>1 DEF Pending
    <3>. QED  BY <3>1, <3>2
  <2>2. CASE done[w] + 1 # Len(owed[w])
    <3>1. owed' = owed /\ pc'[w] = "attest" /\ done'[w] = done[w] + 1
      BY <2>2, Shapely DEF SyncLine
    <3>2. Pending(w)' = Pending(w)
      BY <1>1, <3>1 DEF Pending
    <3>. QED  BY <3>1, <3>2 DEF Seeding
  <2>. QED  BY <2>1, <2>2
<1>10. \A v \in Worker \ {w} : /\ pc[v] \notin Writing /\ pc'[v] = pc[v]
                               /\ Pending(v) = {} /\ Pending(v)' = {}
  BY WriterStays DEF Pending, Writing
<1>. QED  BY <1>1, <1>2, <1>4, <1>6, <1>7, <1>9, <1>10

\* A write that leaves by an exception of the manifest forgets what it owed.
LEMMA WriterLeaves ==
    ASSUME IInv, NEW w \in Worker, Leave(w),
           WriteFails(w) \/ SyncFails(w)
    PROVE  /\ UNCHANGED <<db, view, txn, phase, flock, manifest, cachedHead, cachedCount>>
           /\ manifestFile => manifestFile'
           /\ pc'[w] = "idle" /\ \A v \in Worker : Pending(v)' = {} /\ pc'[v] \notin Writing
           /\ \A v \in Worker \ {w} : pc[v] \notin Writing /\ Pending(v) = {}
<1>1. /\ UNCHANGED <<db, view, txn, phase, flock, manifest, cachedHead, cachedCount>>
      /\ pc[w] \in {"attest", "sync"} /\ pc'[w] = "idle" /\ owed'[w] = << >>
  BY Shapely DEF WriteFails, SyncFails, Owes, Leave, process, disk
<1>0. manifestFile => manifestFile'
  <2>1. manifestFile' \in {manifestFile, TRUE}
    BY DEF WriteFails, SyncFails, disk
  <2>. QED  BY <2>1, Zenon
<1>2. \A v \in Worker \ {w} : pc[v] \notin Writing /\ pc'[v] = pc[v]
  BY WriterStays
<1>3. \A v \in Worker : pc'[v] \notin Writing
  BY <1>1, <1>2 DEF Writing
<1>. QED  BY <1>0, <1>1, <1>2, <1>3 DEF Pending, Writing

LEMMA AttestStepFiles == IInv /\ HandInv /\ FileInv /\ AttestStep => FileInv'
<1> SUFFICES ASSUME IInv, HandInv, FileInv, NEW w \in Worker,
                    WriteLine(w) \/ WriteFails(w) \/ SyncLine(w) \/ SyncFails(w)
                    \/ Seed(w)
             PROVE  FileInv'
  BY DEF AttestStep
<1>1. CASE SyncLine(w)
  <2>1. UNCHANGED <<db, manifest, manifestFile, lost>>
    BY <1>1, LineSynced DEF disk
  <2>2. ASSUME CacheInv PROVE CacheInv'
    <3>1. \A i \in DOMAIN manifest' : Len(manifest'[i].manifest_hash) = i
      BY <2>1, <2>2 DEF CacheInv
    <3>2. Len(TailHash(manifest)) = Len(manifest) /\ Len(manifest) \in Nat
      BY <2>2, TailCounts, Shapely, LenProperties
    <3>3. \A t \in Table : cachedCount'[Host[w]][t] = AttCount(manifest, t)
      BY <1>1, <2>2, LineSynced DEF CacheInv
    <3>4. \A q \in Proc :
             /\ Len(cachedHead'[q]) <= Len(manifest')
             /\ cachedHead'[q] = TailHash(manifest') =>
                   \A t \in Table : cachedCount'[q][t] = AttCount(manifest', t)
      BY <1>1, <2>1, <2>2, <3>2, <3>3, LineSynced DEF CacheInv
    <3>5. \A v \in Worker : pc'[v] # "sync"
      BY <1>1, LineSynced DEF Writing
    <3>. QED  BY <3>1, <3>4, <3>5 DEF CacheInv
  <2>3. CountInv => CountInv'
    BY <1>1, <2>1, LineSynced DEF CountInv
  <2>4. LossInv => LossInv'
    BY <1>1, <2>1, LineSynced DEF LossInv
  <2>. QED  BY <2>1, <2>2, <2>3, <2>4 DEF FileInv
<1>2. ASSUME WriteFails(w) \/ SyncFails(w), Leave(w),
             lost' => lost \/ Pending(w) # {}, manifestFile => manifestFile'
      PROVE  FileInv'
  <2>1. ASSUME SelfChained(manifest) PROVE CacheInv' /\ CountInv'
    BY <1>2, <2>1, WriterLeaves DEF FileInv, CacheInv, CountInv, Writing
  <2>2. ASSUME SelfChained(manifest), lost' PROVE LossInv'
    <3>1. CASE Pending(w) # {}
      BY <1>2, <2>2, <3>1, WriterLeaves, LossShows DEF FileInv
    <3>2. CASE Pending(w) = {}
      <4>1. \A v \in Worker : Pending(v) = {}
        BY <1>2, <3>2, WriterLeaves
      <4>2. PICK t \in Table : AttCount(manifest, t) < Len(db[t])
        BY <1>2, <2>2, <3>2, <4>1 DEF FileInv, LossInv
      <4>. QED  BY <1>2, <4>1, <4>2, WriterLeaves, LossStays
    <3>. QED  BY <3>1, <3>2
  <2>3. ~lost' => LossInv'
    BY DEF LossInv
  <2>. QED  BY <1>2, <2>1, <2>2, <2>3, WriterLeaves DEF FileInv
<1>3. CASE WriteFails(w)
  <2>1. Leave(w) /\ Pending(w) # {} /\ (manifestFile => manifestFile')
    <3>1. Forgets(w)
      BY <1>3 DEF WriteFails, Owes, Forgets
    <3>2. Leave(w)
      BY <1>3 DEF WriteFails
    <3>3. manifestFile => manifestFile'
      BY <1>3, <3>2, WriterLeaves
    <3>. QED  BY <3>1, <3>2, <3>3, ForgetsPending
  <2>. QED  BY <1>2, <1>3, <2>1
<1>4. CASE SyncFails(w)
  <2>1. Leave(w) /\ (lost' => lost \/ Forgets(w)) /\ manifestFile' = manifestFile
    BY <1>4 DEF SyncFails, disk
  <2>. QED  BY <1>2, <1>4, <2>1, ForgetsPending
<1>5. CASE Seed(w)
  <2>1. /\ UNCHANGED <<db, manifest, manifestFile, cachedHead, cachedCount, lost>>
        /\ pc'[w] = "attest" /\ manifest = << >>
        /\ \A v \in Worker \ {w} : pc'[v] = pc[v] /\ owed'[v] = owed[v]
        /\ Host[w] \in Writer /\ phase[Host[w]] = "booting"
        /\ DOMAIN owed'[w] = 1 .. Len(owed'[w]) /\ Len(owed'[w]) \in Nat
        /\ Len(owed'[w]) > 0 /\ done' = done
    BY <1>5, SeedOwes DEF FileInv
  <2>2. /\ Seeding(w)' /\ Pending(w)' = DOMAIN owed'[w]
        /\ \A j \in DOMAIN owed'[w] :
              /\ RowNo(owed'[w][j]) \in Nat /\ RowNo(owed'[w][j]) > 0
    BY <1>5, SeedEntries
  <2>3. \A v \in Worker \ {w} : Pending(v)' = Pending(v)
    BY <2>1 DEF Pending
  <2>4. \A t \in Table : AttCount(manifest, t) = 0
    BY <2>1 DEF AttCount, About
  <2>5. CacheInv => CacheInv'
    BY <2>1 DEF CacheInv
  <2>6. ASSUME CountInv PROVE CountInv'
    <3>1. \A j \in Pending(w)' : AttCount(manifest', owed'[w][j].table) < RowNo(owed'[w][j])
      <4>1. ASSUME NEW j \in DOMAIN owed'[w] PROVE owed'[w][j].table \in Table
        BY <1>5, SeedEntries
      <4>. QED  BY <2>1, <2>2, <2>4, <4>1
    <3>. QED  BY <2>1, <2>3, <2>6, <3>1 DEF CountInv
  <2>7. LossInv'
    <3>1. 1 \in Pending(w)'
      BY <2>1, <2>2
    <3>. QED  BY <2>2, <3>1 DEF LossInv
  <2>. QED  BY <2>1, <2>5, <2>6, <2>7 DEF FileInv
<1>. QED  BY <1>1, <1>3, <1>4, <1>5, WriteLineFiles

LEMMA FileStep == IInv /\ HandInv /\ FileInv /\ [Next]_vars => FileInv'
<1>1. CASE Next
  BY <1>1, ProcessStepFiles, WriteStepFiles, AttestStepFiles, VerifyStepFiles
     DEF Next
<1>2. CASE UNCHANGED vars
  <2>1. FileInv => FileInv'
    BY <1>2, FilesUntouched DEF vars, disk, process, writing, Pending, Seeding
  <2>. QED  BY <2>1
<1>. QED  BY <1>1, <1>2

-----------------------------------------------------------------------------
(* A lost attestation stays visible.                                        *)

LossyInv == IInv /\ HandInv /\ FileInv

LEMMA InitLossy == Init => LossyInv
<1> SUFFICES ASSUME Init PROVE LossyInv
  OBVIOUS
<1>1. IInv
  BY InitIInv
<1>2. /\ \A t \in Table : db[t] = << >> /\ view[t] = << >>
      /\ \A w \in Worker : /\ owed[w] = << >> /\ pc[w] = "idle"
      /\ manifest = << >> /\ manifestFile = FALSE /\ lost = FALSE
      /\ \A p \in Proc : /\ cachedHead[p] = << >>
                         /\ \A t \in Table : cachedCount[p][t] = 0
  BY DEF Init, GENESIS
<1>3. HandInv
  <2>1. GrowthInv
    BY <1>2 DEF GrowthInv, Numbered
  <2>2. OwedInv
    BY <1>2 DEF OwedInv, OwedBy
  <2>. QED  BY <2>1, <2>2 DEF HandInv
<1>4. FileInv
  <2>1. \A t \in Table : AttCount(manifest, t) = 0
    BY <1>2 DEF AttCount, About
  <2>2. CacheInv
    BY <1>2, <2>1 DEF CacheInv
  <2>3. CountInv
    BY <1>2, <2>1 DEF CountInv, Pending
  <2>. QED  BY <1>2, <2>2, <2>3 DEF FileInv, LossInv
<1>. QED  BY <1>1, <1>3, <1>4 DEF LossyInv

LEMMA LossyStep == LossyInv /\ [Next]_vars => LossyInv'
BY IInvStep, HandStep, FileStep DEF LossyInv

\* A loss that nobody is about to repair shows.
LEMMA LossIsVisible == LossyInv => LostStaysVisible
<1> SUFFICES ASSUME LossyInv, lost, Attesting = {}, Intact PROVE FALSE
  BY DEF LostStaysVisible
<1>1. LossInv /\ IInv
  BY DEF LossyInv, FileInv, Intact
<1>2. \A w \in Worker : Pending(w) = {}
  BY DEF Attesting, Pending
<1>3. PICK t \in Table : AttCount(manifest, t) < Len(db[t])
  BY <1>1, <1>2 DEF LossInv
<1>4. AttCount(manifest, t) = Len(db[t])
  BY DEF Intact
<1>. QED  BY <1>1, <1>3, <1>4, RowsOf

\* Whatever crashes, failing writes and failing fsyncs happen, whichever locks a
\* store takes: the attested count of a table of a damaged store stays below its
\* rows, or the manifest's chain is broken, until a baseline is taken.
THEOREM LossIsNeverHealed == Spec => []LostStaysVisible
BY InitLossy, LossyStep, LossIsVisible, PTL DEF Spec

-----------------------------------------------------------------------------
(* How far a lock block is from its end, and a verify from its verdict.     *)

\* The value of SectionLeft at each place.
LEMMA LeftAt ==
    ASSUME NEW w \in Worker
    PROVE  /\ pc[w] = "head" =>
                 SectionLeft(w) = 2 * (Len(shape[w]) - Len(owed[w])) + 2 * Len(shape[w]) + 1
           /\ pc[w] = "insert" =>
                 SectionLeft(w) = 2 * (Len(shape[w]) - Len(owed[w])) + 2 * Len(shape[w])
           /\ pc[w] = "commit" => SectionLeft(w) = 2 * Len(owed[w]) + 1
           /\ pc[w] = "attest" => SectionLeft(w) = 2 * (Len(owed[w]) - done[w])
           /\ pc[w] = "sync" => SectionLeft(w) = 2 * (Len(owed[w]) - done[w]) - 1
           /\ pc[w] = "retry" => SectionLeft(w) = Len(Tables) + 2
           /\ pc[w] = "walk" => SectionLeft(w) = Len(Tables) - Len(snap[w]) + 1
           /\ pc[w] = "check" => SectionLeft(w) = 1
           /\ pc[w] = "idle" => SectionLeft(w) = 0
BY Zenon DEF SectionLeft

LEMMA LeftAtNext ==
    ASSUME NEW w \in Worker
    PROVE  /\ pc'[w] = "head" =>
                 SectionLeft(w)'
                    = 2 * (Len(shape'[w]) - Len(owed'[w])) + 2 * Len(shape'[w]) + 1
           /\ pc'[w] = "insert" =>
                 SectionLeft(w)' = 2 * (Len(shape'[w]) - Len(owed'[w])) + 2 * Len(shape'[w])
           /\ pc'[w] = "commit" => SectionLeft(w)' = 2 * Len(owed'[w]) + 1
           /\ pc'[w] = "attest" => SectionLeft(w)' = 2 * (Len(owed'[w]) - done'[w])
           /\ pc'[w] = "sync" => SectionLeft(w)' = 2 * (Len(owed'[w]) - done'[w]) - 1
           /\ pc'[w] = "retry" => SectionLeft(w)' = Len(Tables) + 2
           /\ pc'[w] = "walk" => SectionLeft(w)' = Len(Tables) - Len(snap'[w]) + 1
           /\ pc'[w] = "check" => SectionLeft(w)' = 1
           /\ pc'[w] = "idle" => SectionLeft(w)' = 0
BY Zenon DEF SectionLeft

\* The lengths the measure is built from.
LEMMA Lengths ==
    ASSUME IInv, OwedInv, NEW w \in Worker
    PROVE  /\ Len(shape[w]) \in Nat /\ Len(owed[w]) \in Nat /\ done[w] \in Nat
           /\ Len(snap[w]) \in Nat /\ Len(Tables) \in Nat /\ Len(Tables) > 0
           /\ tries[w] \in Nat /\ pc[w] \in Inside \cup {"idle", "retry"}
           /\ pc[w] \in {"head", "insert"} => Len(owed[w]) < Len(shape[w])
           /\ pc[w] \in {"attest", "sync"} => done[w] < Len(owed[w])
           /\ pc[w] = "walk" => Len(snap[w]) < Len(Tables)
           /\ pc[w] \in Walking \cup {"retry"} => tries[w] > 0
<1>1. /\ shape[w] \in Seq(Table) /\ owed[w] \in Seq(Owed) /\ done[w] \in Nat
      /\ snap[w] \in Seq([head : Hash, count : Nat]) /\ tries[w] \in Nat
      /\ pc[w] \in Inside \cup {"idle", "retry"}
  BY DEF IInv, TypeOK
<1>2. Tables \in Seq(STRING) /\ Tables # << >>
  BY StoreAssumption
<1>3. Len(Tables) \in Nat /\ Len(Tables) > 0
  BY <1>2, LenProperties, EmptySeq
<1>4. pc[w] \in {"attest", "sync"} => done[w] < Len(owed[w])
  BY DEF OwedInv, OwedBy
<1>5. pc[w] = "walk" => Len(snap[w]) < Len(Tables)
  BY DEF IInv, SectionInv
<1>6. pc[w] \in {"head", "insert"} => Len(owed[w]) < Len(shape[w])
  BY DEF IInv, SectionInv
<1>7. pc[w] \in Walking \cup {"retry"} => tries[w] > 0
  BY DEF IInv, TriesInv
<1>8. Len(shape[w]) \in Nat /\ Len(owed[w]) \in Nat /\ Len(snap[w]) \in Nat
  BY <1>1, LenProperties
<1>. QED  BY <1>1, <1>3, <1>4, <1>5, <1>6, <1>7, <1>8

\* A call that is inside a block, or is about to verify again, has a step left.
LEMMA LeftType ==
    ASSUME IInv, OwedInv, NEW w \in Worker
    PROVE  SectionLeft(w) \in Nat /\ (pc[w] # "idle" => SectionLeft(w) > 0)
<1>1. pc[w] \in {"head", "insert", "commit", "attest", "sync", "walk", "check", "retry",
                 "idle"}
  BY Lengths DEF Inside, Writing, Walking
<1>2. PICK n \in Nat, k \in Nat, d \in Nat, s \in Nat, m \in Nat :
         /\ n = Len(shape[w]) /\ k = Len(owed[w]) /\ d = done[w] /\ s = Len(snap[w])
         /\ m = Len(Tables)
  BY Lengths
<1>3. CASE pc[w] \in {"head", "insert"}
  <2>1. k < n
    BY <1>2, <1>3, Lengths
  <2>2. SectionLeft(w) \in {2 * (n - k) + 2 * n + 1, 2 * (n - k) + 2 * n}
    BY <1>2, <1>3, LeftAt
  <2>. QED  BY <2>1, <2>2
<1>4. CASE pc[w] \in {"commit", "attest", "sync"}
  <2>1. pc[w] \in {"attest", "sync"} => d < k
    BY <1>2, Lengths
  <2>2. \/ SectionLeft(w) = 2 * k + 1
        \/ d < k /\ SectionLeft(w) \in {2 * (k - d), 2 * (k - d) - 1}
    BY <1>2, <1>4, <2>1, LeftAt
  <2>. QED  BY <2>2
<1>5. CASE pc[w] \in {"walk", "check", "retry", "idle"}
  <2>1. pc[w] = "walk" => s < m
    BY <1>2, Lengths
  <2>2. \/ s < m /\ SectionLeft(w) = m - s + 1
        \/ SectionLeft(w) \in {1, m + 2}
        \/ SectionLeft(w) = 0 /\ pc[w] = "idle"
    BY <1>2, <1>5, <2>1, LeftAt
  <2>. QED  BY <2>2
<1>. QED  BY <1>1, <1>3, <1>4, <1>5

\* Leaving a block takes the last step of it.
LEMMA LeavesNearer ==
    ASSUME IInv, OwedInv, NEW w \in Worker, pc[w] # "idle", pc'[w] = "idle",
           tries'[w] = tries[w]
    PROVE  Nearer(w)
<1>1. SectionLeft(w) > 0 /\ SectionLeft(w)' = 0
  BY LeftType, LeftAtNext
<1>. QED  BY <1>1 DEF Nearer

\* Every step of a write brings it nearer to its end, ...
LEMMA WriteNearer ==
    ASSUME IInv, OwedInv, NEW w \in Worker,
           \/ \E x \in Payload : Insert(w, x)
           \/ ReadHead(w) \/ Rollback(w) \/ Commit(w)
           \/ WriteLine(w) \/ WriteFails(w) \/ SyncLine(w) \/ SyncFails(w)
    PROVE  Nearer(w)
<1> USE Shapely DEF disk, process, writing, verifying, bounds
<1>1. PICK n \in Nat, k \in Nat, d \in Nat :
         n = Len(shape[w]) /\ k = Len(owed[w]) /\ d = done[w]
  BY Lengths
<1>2. tries'[w] = tries[w]
  BY DEF Insert, ReadHead, Rollback, Commit, WriteLine, WriteFails, SyncLine, SyncFails
<1>3. CASE Rollback(w) \/ WriteFails(w) \/ SyncFails(w)
  <2>1. pc[w] # "idle" /\ pc'[w] = "idle"
    BY <1>3 DEF Rollback, WriteFails, SyncFails, Leave, Owes
  <2>. QED  BY <1>2, <2>1, LeavesNearer
<1>4. CASE ReadHead(w)
  <2>1. pc[w] = "head" /\ pc'[w] = "insert" /\ shape' = shape /\ owed' = owed
    BY <1>4 DEF ReadHead
  <2>2. SectionLeft(w) = 2 * (n - k) + 2 * n + 1 /\ SectionLeft(w)' = 2 * (n - k) + 2 * n
    BY <1>1, <2>1, LeftAt, LeftAtNext
  <2>. QED  BY <1>2, <2>2 DEF Nearer
<1>5. CASE \E x \in Payload : Insert(w, x)
  <2>1. PICK o : owed' = [owed EXCEPT ![w] = Append(owed[w], o)]
    BY <1>5 DEF Insert
  <2>2. Len(owed'[w]) = k + 1
    <3>1. owed'[w] = Append(owed[w], o) /\ owed[w] \in Seq(Owed)
      BY <2>1
    <3>. QED  BY <1>1, <3>1
  <2>3. pc[w] = "insert" /\ shape' = shape
        /\ pc'[w] = IF k + 1 = n THEN "commit" ELSE "head"
    BY <1>1, <1>5 DEF Insert
  <2>4. SectionLeft(w) = 2 * (n - k) + 2 * n
    BY <1>1, <2>3, LeftAt
  <2>5. \/ k + 1 = n /\ SectionLeft(w)' = 2 * (k + 1) + 1
        \/ SectionLeft(w)' = 2 * (n - (k + 1)) + 2 * n + 1
    BY <1>1, <2>2, <2>3, LeftAtNext
  <2>. QED  BY <1>2, <2>4, <2>5 DEF Nearer
<1>6. CASE Commit(w)
  <2>1. pc[w] = "commit" /\ pc'[w] = "attest" /\ owed' = owed /\ done' = done
    BY <1>6 DEF Commit
  <2>2. SectionLeft(w) = 2 * k + 1 /\ SectionLeft(w)' = 2 * (k - d)
    BY <1>1, <2>1, LeftAt, LeftAtNext
  <2>. QED  BY <1>2, <2>2 DEF Nearer
<1>7. CASE WriteLine(w)
  <2>1. pc[w] = "attest" /\ pc'[w] = "sync" /\ owed' = owed /\ done' = done
    BY <1>7 DEF WriteLine, Owes
  <2>2. SectionLeft(w) = 2 * (k - d) /\ SectionLeft(w)' = 2 * (k - d) - 1
    BY <1>1, <2>1, LeftAt, LeftAtNext
  <2>. QED  BY <1>2, <2>2 DEF Nearer
<1>8. CASE SyncLine(w)
  <2>1. pc[w] = "sync"
        /\ \/ Leave(w)
           \/ pc'[w] = "attest" /\ owed' = owed /\ done' = [done EXCEPT ![w] = done[w] + 1]
    BY <1>8 DEF SyncLine
  <2>2. CASE Leave(w)
    <3>1. pc'[w] = "idle"
      BY <2>2 DEF Leave
    <3>. QED  BY <1>2, <2>1, <3>1, LeavesNearer
  <2>3. CASE pc'[w] = "attest" /\ owed' = owed /\ done' = [done EXCEPT ![w] = done[w] + 1]
    <3>1. Len(owed'[w]) = k /\ done'[w] = d + 1
      BY <1>1, <2>3
    <3>2. SectionLeft(w) = 2 * (k - d) - 1 /\ SectionLeft(w)' = 2 * (k - (d + 1))
      BY <1>1, <2>1, <2>3, <3>1, LeftAt, LeftAtNext
    <3>. QED  BY <1>2, <3>2 DEF Nearer
  <2>. QED  BY <2>1, <2>2, <2>3
<1>. QED  BY <1>3, <1>4, <1>5, <1>6, <1>7, <1>8

\* ... and so does every step of a verify.
LEMMA VerifyNearer ==
    ASSUME IInv, OwedInv, NEW w \in Worker,
           VerifyAgain(w) \/ WalkTable(w) \/ CheckManifest(w)
    PROVE  Nearer(w)
<1> USE Shapely DEF disk, process, writing, verifying, bounds
<1>0. snap \in [Worker -> Seq([head : Hash, count : Nat])]
  BY DEF IInv, TypeOK
<1>1. PICK m \in Nat, s \in Nat : m = Len(Tables) /\ s = Len(snap[w])
  BY Lengths
<1>2. CASE VerifyAgain(w)
  <2>1. /\ pc[w] = "retry" /\ pc'[w] = "walk" /\ snap'[w] = << >>
        /\ tries'[w] = tries[w]
    BY <1>0, <1>2 DEF VerifyAgain, Walk
  <2>2. SectionLeft(w) = m + 2 /\ SectionLeft(w)' = m - 0 + 1
    BY <1>1, <2>1, LeftAt, LeftAtNext
  <2>. QED  BY <2>1, <2>2 DEF Nearer
<1>3. ASSUME NEW rows, pc[w] = "walk", WalkOn(w, rows)
      PROVE  Nearer(w)
  <2>1. PICK x : snap' = [snap EXCEPT ![w] = Append(snap[w], x)]
    BY <1>3 DEF WalkOn
  <2>2. Len(snap'[w]) = s + 1
    <3>1. snap'[w] = Append(snap[w], x) /\ snap[w] \in Seq([head : Hash, count : Nat])
      BY <1>0, <2>1
    <3>. QED  BY <1>1, <3>1
  <2>3. tries' = tries /\ pc'[w] = IF s + 1 = m THEN "check" ELSE "walk"
    BY <1>1, <1>3 DEF WalkOn
  <2>4. SectionLeft(w) = m - s + 1
    BY <1>1, <1>3, LeftAt
  <2>5. \/ s + 1 = m /\ SectionLeft(w)' = 1
        \/ SectionLeft(w)' = m - (s + 1) + 1
    BY <1>1, <2>2, <2>3, LeftAtNext
  <2>. QED  BY <2>3, <2>4, <2>5 DEF Nearer
<1>4. ASSUME NEW ok, pc[w] \in Walking, Conclude(w, ok)
      PROVE  Nearer(w)
  BY <1>4, ConcludeNearer DEF Nearer
<1>5. CASE WalkTable(w)
  <2>1. pc[w] = "walk" /\ pc[w] \in Walking
    BY <1>5 DEF WalkTable, Walking
  <2>2. \/ \E rows : WalkOn(w, rows)
        \/ Conclude(w, FALSE)
    BY <1>5 DEF WalkTable
  <2>. QED  BY <1>3, <1>4, <2>1, <2>2
<1>6. CASE CheckManifest(w)
  <2>1. pc[w] \in Walking /\ \E ok : Conclude(w, ok)
    BY <1>6 DEF CheckManifest, Walking
  <2>. QED  BY <1>4, <2>1
<1>. QED  BY <1>2, <1>5, <1>6

\* The verdict of a boot decides it, and no other step ends a walk of a process that goes
\* on booting.
LEMMA WalkEndsBoot ==
    ASSUME IInv, NEW w \in Worker, pc[w] \in Walking, pc'[w] = "idle", [Next]_vars
    PROVE  phase[Host[w]] = "booting" => phase'[Host[w]] # "booting"
<1> USE Shapely DEF disk, process, writing, verifying, bounds
<1>1. pc[w] # "idle" /\ pc[w] \notin {"head", "insert", "commit", "attest", "sync", "retry"}
  BY DEF Walking
<1>2. CASE UNCHANGED vars
  BY <1>1, <1>2 DEF vars
<1>3. CASE ProcessStep
  <2>1. pc'[w] # pc[w]
    BY <1>1
  <2>2. phase'[Host[w]] = "down"
    BY <1>3, <2>1, ProcessLeaves DEF ProcessStep
  <2>. QED  BY <2>2
<1>4. ASSUME NEW v \in Worker,
             \/ \E sh \in Shapes : Begin(v, sh)
             \/ \E d \in Payload : Insert(v, d)
             \/ ReadHead(v) \/ Rollback(v) \/ Commit(v)
             \/ WriteLine(v) \/ WriteFails(v) \/ SyncLine(v) \/ SyncFails(v) \/ Seed(v)
             \/ \E n \in {1, Attempts} : VerifyBegin(v, n)
             \/ VerifyAgain(v) \/ WalkTable(v) \/ CheckManifest(v)
      PROVE  phase[Host[w]] = "booting" => phase'[Host[w]] # "booting"
  <2>1. v = w
    <3>1. pc'[w] # pc[w]
      BY <1>1
    <3>. QED  BY <1>4, <3>1, OthersStay
  <2>2. WalkTable(w) \/ CheckManifest(w)
    <3>1. ~Seed(w)
      BY <1>1, StoreAssumption DEF Seed, OnlyMain, Workers
    <3>2. \A n \in {1, Attempts} : ~VerifyBegin(w, n)
      BY <1>1 DEF VerifyBegin
    <3>3. \A sh \in Shapes : ~Begin(w, sh)
      BY <1>1 DEF Begin
    <3>4. \A d \in Payload : ~Insert(w, d)
      BY <1>1 DEF Insert
    <3>5. ~ReadHead(w) /\ ~Rollback(w) /\ ~Commit(w) /\ ~WriteLine(w) /\ ~WriteFails(w)
          /\ ~SyncLine(w) /\ ~SyncFails(w) /\ ~VerifyAgain(w)
      BY <1>1 DEF ReadHead, Rollback, Commit, WriteLine, WriteFails, SyncLine, SyncFails,
              VerifyAgain, Owes
    <3>. QED  BY <1>4, <2>1, <3>1, <3>2, <3>3, <3>4, <3>5
  <2>3. \E ok : Conclude(w, ok)
    <3>1. ~\E rows : WalkOn(w, rows)
      BY DEF WalkOn
    <3>. QED  BY <2>2, <3>1 DEF WalkTable, CheckManifest
  <2>. QED  BY <2>3, ConcludeNearer
<1>. QED  BY <1>2, <1>3, <1>4 DEF Next, WriteStep, AttestStep, VerifyStep

\* A call that nobody moves has as many steps left as before.
LEMMA LeftSame ==
    ASSUME NEW w \in Worker, pc'[w] = pc[w], shape'[w] = shape[w], owed'[w] = owed[w],
           done'[w] = done[w], snap'[w] = snap[w]
    PROVE  SectionLeft(w)' = SectionLeft(w)
BY DEF SectionLeft

LEMMA CallsStep ==
    ASSUME IInv, OwedInv, [Next]_vars
    PROVE  [CallsRunDown]_vars
<1> SUFFICES ASSUME NEW w \in Worker, Next
             PROVE  /\ Proceeds(w) => Nearer(w)
                    /\ pc[w] # "idle" /\ ~Proceeds(w) =>
                          \/ pc'[w] = "idle" /\ phase'[Host[w]] = "down"
                          \/ /\ pc'[w] = pc[w] /\ tries'[w] = tries[w]
                             /\ SectionLeft(w)' = SectionLeft(w)
                    /\ phase[Host[w]] = "booting" /\ pc[w] \in Walking /\ pc'[w] = "idle" =>
                          phase'[Host[w]] # "booting"
  BY DEF CallsRunDown
<1>1. Proceeds(w) => Nearer(w)
  BY WriteNearer, VerifyNearer DEF Proceeds
<1>2. ASSUME pc[w] # "idle", ~Proceeds(w)
      PROVE  \/ pc'[w] = "idle" /\ phase'[Host[w]] = "down"
             \/ /\ pc'[w] = pc[w] /\ tries'[w] = tries[w]
                /\ SectionLeft(w)' = SectionLeft(w)
  <2>1. CASE ProcessStep
    BY <2>1, ProcessLeaves, LeftSame DEF ProcessStep
  <2>2. ASSUME NEW v \in Worker,
               \/ \E sh \in Shapes : Begin(v, sh)
               \/ \E d \in Payload : Insert(v, d)
               \/ ReadHead(v) \/ Rollback(v) \/ Commit(v)
               \/ WriteLine(v) \/ WriteFails(v) \/ SyncLine(v) \/ SyncFails(v) \/ Seed(v)
               \/ \E n \in {1, Attempts} : VerifyBegin(v, n)
               \/ VerifyAgain(v) \/ WalkTable(v) \/ CheckManifest(v)
        PROVE  /\ pc'[w] = pc[w] /\ tries'[w] = tries[w]
               /\ SectionLeft(w)' = SectionLeft(w)
    <3>1. v # w
      <4> SUFFICES ASSUME v = w PROVE FALSE
        OBVIOUS
      <4>1. ~Seed(w)
        BY <1>2, StoreAssumption DEF Seed, OnlyMain, Workers
      <4>2. \A n \in {1, Attempts} : ~VerifyBegin(w, n)
        BY <1>2 DEF VerifyBegin
      <4>3. \A sh \in Shapes : ~Begin(w, sh)
        BY <1>2 DEF Begin
      <4>. QED  BY <1>2, <2>2, <4>1, <4>2, <4>3 DEF Proceeds
    <3>. QED  BY <2>2, <3>1, OthersStay, LeftSame
  <2>. QED  BY <2>1, <2>2 DEF Next, WriteStep, AttestStep, VerifyStep
<1>3. phase[Host[w]] = "booting" /\ pc[w] \in Walking /\ pc'[w] = "idle" =>
         phase'[Host[w]] # "booting"
  BY WalkEndsBoot
<1>. QED  BY <1>1, <1>2, <1>3

LEMMA LockHoldersWork ==
    ASSUME IInv, OwedInv
    PROVE  HoldersWork
<1> SUFFICES ASSUME NEW p \in Proc, wlock[p] # NoWorker
             PROVE  \E w \in Workers(p) :
                       wlock[p] = w /\ pc[w] \in Inside /\ SectionLeft(w) > 0
  BY DEF HoldersWork
<1> DEFINE w == wlock[p]
<1>1. w \in Worker /\ Host[w] = p /\ pc[w] \in Inside
  BY DEF IInv, TypeOK, LockInv
<1>2. pc[w] # "idle"
  BY <1>1 DEF Inside, Writing, Walking
<1>3. SectionLeft(w) > 0
  BY <1>1, <1>2, LeftType
<1>. QED  BY <1>1, <1>3 DEF Workers

\* Why every lock block ends and every start is decided, whatever fails (the `with
\* self._write_lock` blocks, verify_stable's budget): who holds the lock has steps left;
\* each step of a call uses up one of them, or an attempt; nothing else moves the call but
\* the end of its process; and a start's verify ends with another attempt or a verdict that
\* decides.  What this leaves to fairness is that a call that has begun goes on.
THEOREM BlocksRunDown == Spec => []HoldersWork /\ [][CallsRunDown]_vars
<1>1. LossyInv => HoldersWork
  BY LockHoldersWork DEF LossyInv, HandInv
<1>2. LossyInv /\ [Next]_vars => [CallsRunDown]_vars
  BY CallsStep DEF LossyInv, HandInv
<1>. QED  BY <1>1, <1>2, InitLossy, LossyStep, PTL DEF Spec

-----------------------------------------------------------------------------
(* The manifest's chain.                                                    *)

\* Process phases during a verify: only a booting process changes its own.
LEMMA VerifyPhases ==
    ASSUME IInv, NEW w \in Worker,
           \/ \E n \in {1, Attempts} : VerifyBegin(w, n)
           \/ VerifyAgain(w) \/ WalkTable(w) \/ CheckManifest(w)
    PROVE  \A q \in Proc :
              \/ phase'[q] = phase[q]
              \/ phase[q] = "booting" /\ phase'[q] \in {"serving", "refused"}
<1> USE Shapely DEF disk, process, writing, verifying, bounds
<1>1. CASE \E n \in {1, Attempts} : VerifyBegin(w, n)
  BY <1>1 DEF VerifyBegin
<1>2. CASE VerifyAgain(w)
  BY <1>2 DEF VerifyAgain
<1>3. CASE pc[w] = "walk" /\ WalkOn(w, Seen(Host[w])[NextWalk(w)])
  BY <1>3 DEF WalkOn
<1>4. ASSUME NEW ok \in BOOLEAN, Conclude(w, ok)
      PROVE  \A q \in Proc :
                \/ phase'[q] = phase[q]
                \/ phase[q] = "booting" /\ phase'[q] \in {"serving", "refused"}
  BY <1>4 DEF Conclude, BootOutcome
<1>5. CASE CheckManifest(w)
  <2>1. check(snap[w]) \in BOOLEAN
    BY DEF check, SelfChained
  <2>. QED  BY <1>4, <1>5, <2>1 DEF CheckManifest
<1>. QED  BY <1>1, <1>2, <1>3, <1>4, <1>5 DEF WalkTable

\* A step that leaves the file and the caches alone and opens no process.
LEMMA TailKept ==
    ASSUME TailInv, UNCHANGED <<manifest, cachedHead>>,
           \A q \in Proc : phase'[q] # phase[q] =>
               /\ phase'[q] # "opened"
               /\ phase'[q] \in {"booting", "serving"} =>
                     phase[q] \in {"booting", "serving"},
           \A v \in Worker :
               pc[v] = "sync" => \/ pc'[v] = "sync"
                                 \/ phase'[Host[v]] \notin {"booting", "serving"}
    PROVE  TailInv'
<1>1. SelfChained(manifest)' /\ \A q \in Proc : phase'[q] # "opened"
  BY DEF TailInv
<1>2. ASSUME NEW q \in Writer, phase'[q] \in {"booting", "serving"},
             \A v \in Workers(q) : pc'[v] # "sync"
      PROVE  cachedHead'[q] = TailHash(manifest')
  <2>1. q \in Proc /\ phase[q] \in {"booting", "serving"}
    BY <1>2, StoreAssumption
  <2>2. \A v \in Workers(q) : pc[v] # "sync"
    BY <1>2 DEF Workers
  <2>. QED  BY <2>1, <2>2 DEF TailInv
<1>. QED  BY <1>1, <1>2 DEF TailInv, Workers

\* A writer that is to write a line knows the tail of the file.
LEMMA WriterKnows ==
    ASSUME IInv, TailInv, NEW w \in Worker, pc[w] = "attest"
    PROVE  /\ cachedHead[Host[w]] = TailHash(manifest) /\ SelfChained(manifest)
           /\ \A q \in Writer : phase[q] \in {"booting", "serving"} => q = Host[w]
<1>1. /\ pc[w] \in Writing /\ Host[w] \in Writer /\ Host[w] \in Proc
      /\ phase[Host[w]] \in {"booting", "serving"}
  BY Shapely DEF LockInv, Writing
<1>2. \A v \in Workers(Host[w]) : pc[v] # "sync"
  BY <1>1, Alone DEF Workers, Writing
<1>. QED  BY <1>1, <1>2, OneOpenWriter, Shapely, StoreAssumption DEF TailInv

LEMMA TailStep ==
    ASSUME Careful, IInv, HandInv, TailInv, [Next]_vars
    PROVE  TailInv'
<1> USE DEF disk, process, writing, verifying, bounds
<1>1. ASSUME NEW p \in Proc,
             Open(p) \/ TakeLock(p) \/ LockHeld(p) \/ Stop(p) \/ Crash(p)
      PROVE  TailInv'
  <2>1. CASE Open(p)
    <3>1. /\ manifest' = manifest /\ pc' = pc
          /\ cachedHead' = [cachedHead EXCEPT ![p] = TailHash(manifest)]
          /\ phase' = [phase EXCEPT ![p] = "booting"]
      BY <2>1 DEF Open, ReadManifest, Careful
    <3>2. /\ cachedHead'[p] = TailHash(manifest)
          /\ \A q \in Proc \ {p} : cachedHead'[q] = cachedHead[q] /\ phase'[q] = phase[q]
          /\ phase'[p] = "booting"
      BY <3>1, Shapely DEF TypeOK
    <3>3. \A q \in Proc : phase'[q] # "opened"
      BY <3>2 DEF TailInv
    <3>. QED  BY <3>1, <3>2, <3>3, StoreAssumption DEF TailInv, Workers
  <2>2. CASE TakeLock(p) \/ LockHeld(p)
    BY <2>2 DEF TakeLock, LockHeld, TailInv
  <2>3. CASE Stop(p) \/ Crash(p)
    <3>1. /\ UNCHANGED <<manifest, cachedHead>> /\ Gone(p)
          /\ phase' = [phase EXCEPT ![p] = "down"]
      BY <2>3 DEF Stop, Crash
    <3>2. phase'[p] = "down" /\ \A q \in Proc \ {p} : phase'[q] = phase[q]
      BY <3>1, Shapely
    <3>3. \A v \in Worker : Host[v] # p => pc'[v] = pc[v]
      BY <3>1, GoneDebts
    <3>. QED  BY <3>1, <3>2, <3>3, TailKept
  <2>. QED  BY <1>1, <2>1, <2>2, <2>3
<1>2. ASSUME NEW w \in Worker,
             \/ \E sh \in Shapes : Begin(w, sh)
             \/ \E d \in Payload : Insert(w, d)
             \/ ReadHead(w) \/ Rollback(w) \/ Commit(w)
      PROVE  TailInv'
  BY <1>2, WriteSteps, TailKept
<1>3. ASSUME NEW w \in Worker,
             \/ \E n \in {1, Attempts} : VerifyBegin(w, n)
             \/ VerifyAgain(w) \/ WalkTable(w) \/ CheckManifest(w)
      PROVE  TailInv'
  <2>1. /\ UNCHANGED <<manifest, cachedHead>> /\ pc[w] # "sync"
        /\ \A v \in Worker \ {w} : pc'[v] = pc[v]
    BY <1>3, VerifierStays DEF Writing
  <2>2. \A q \in Proc : \/ phase'[q] = phase[q]
                        \/ phase[q] = "booting" /\ phase'[q] \in {"serving", "refused"}
    BY <1>3, VerifyPhases
  <2>. QED  BY <2>1, <2>2, TailKept
<1>4. ASSUME NEW w \in Worker, WriteLine(w) PROVE TailInv'
  <2>1. /\ pc[w] = "attest" /\ pc'[w] = "sync" /\ UNCHANGED <<phase, cachedHead>>
        /\ SelfChained(manifest') <=>
              SelfChained(manifest) /\ cachedHead[Host[w]] = TailHash(manifest)
    BY <1>4, LineWritten
  <2>2. /\ SelfChained(manifest')
        /\ \A q \in Writer : phase[q] \in {"booting", "serving"} => q = Host[w]
    BY <2>1, WriterKnows
  <2>3. \A q \in Writer :
           ~ (/\ phase'[q] \in {"booting", "serving"}
              /\ \A v \in Workers(q) : pc'[v] # "sync")
    BY <2>1, <2>2 DEF Workers
  <2>. QED  BY <2>1, <2>2, <2>3 DEF TailInv, Workers
<1>5. ASSUME NEW w \in Worker, SyncLine(w) PROVE TailInv'
  <2>1. /\ pc[w] = "sync" /\ UNCHANGED <<phase, manifest>>
        /\ cachedHead'[Host[w]] = TailHash(manifest)
    BY <1>5, LineSynced
  <2>2. /\ pc[w] \in Writing /\ Host[w] \in Writer /\ Host[w] \in Proc
        /\ phase[Host[w]] \in {"booting", "serving"}
    BY <2>1, Shapely DEF LockInv, Writing
  <2>3. \A q \in Writer : phase[q] \in {"booting", "serving"} => q = Host[w]
    BY <2>2, OneOpenWriter, Shapely, StoreAssumption
  <2>. QED  BY <2>1, <2>3 DEF TailInv, Workers
<1>6. ASSUME NEW w \in Worker, WriteFails(w) PROVE TailInv'
  <2>1. Leave(w) /\ pc[w] = "attest"
    BY <1>6 DEF WriteFails, Owes
  <2>. QED  BY <1>6, <2>1, WriterLeaves, WriterStays, TailKept
<1>7. ASSUME NEW w \in Worker, Seed(w) PROVE TailInv'
  BY <1>7, SeedOwes, TailKept
<1>8. CASE UNCHANGED vars
  BY <1>8, TailKept DEF vars
<1>9. ~ \E w \in Worker : SyncFails(w)
  BY DEF SyncFails, Careful
<1>. QED  BY <1>1, <1>2, <1>3, <1>4, <1>5, <1>6, <1>7, <1>8, <1>9
          DEF Next, ProcessStep, WriteStep, AttestStep, VerifyStep

\* Where the file lock comes before the manifest is read (or one process writes)
\* and fsync does not fail, no crash, hand-over or failing write makes a writer
\* chain a line onto anything but the last one: ManifestChained.
THEOREM ManifestNeverForks ==
    ASSUME Careful PROVE Spec => []ManifestChained
<1>1. Init => LossyInv /\ TailInv
  <2> SUFFICES ASSUME Init PROVE TailInv
    BY InitLossy
  <2>1. \A p \in Proc : phase[p] = "down"
    BY DEF Init
  <2>2. SelfChained(manifest)
    BY DEF Init, SelfChained
  <2>. QED  BY <2>1, <2>2, StoreAssumption DEF TailInv
<1>2. LossyInv /\ TailInv /\ [Next]_vars => (LossyInv /\ TailInv)'
  BY LossyStep, TailStep DEF LossyInv
<1>3. TailInv => ManifestChained
  BY DEF TailInv, ManifestChained
<1>. QED  BY <1>1, <1>2, <1>3, PTL DEF Spec

-----------------------------------------------------------------------------
(* What a verify sees.                                                      *)

\* While a writer's verify walks, its process has no transaction open: the
\* statement sees what is committed.
LEMMA WalkerSeesCommitted ==
    ASSUME IInv, OwnedTxn, NEW w \in Worker, pc[w] \in Walking
    PROVE  Seen(Host[w]) = db
<1>1. wlock[Host[w]] = w /\ pc[w] \notin Writing
  BY Shapely DEF LockInv, Inside, Walking, Writing
<1>2. ASSUME txn = Host[w] PROVE FALSE
  <2>1. Host[w] # NoProc
    BY Shapely, StoreAssumption
  <2>2. PICK v \in Uncommitted : Host[v] = Host[w]
    BY <1>2, <2>1 DEF OwnedTxn
  <2>3. v \in Worker /\ pc[v] \in Writing
    BY DEF Uncommitted, Writing
  <2>4. wlock[Host[v]] = v
    BY <2>3, Shapely DEF LockInv, Inside
  <2>. QED  BY <1>1, <2>2, <2>3, <2>4
<1>. QED  BY <1>2 DEF Seen

\* While a worker is inside a write, no writer's worker walks.
LEMMA NobodyWalks ==
    ASSUME IInv, NEW v \in Worker, pc[v] \in Writing,
           NEW w \in Worker, Host[w] \in Writer
    PROVE  pc[w] \notin Walking
<1> SUFFICES ASSUME pc[w] \in Walking PROVE FALSE
  OBVIOUS
<1>1. /\ Host[v] \in Writer /\ phase[Host[v]] \in {"booting", "serving"}
      /\ phase[Host[w]] \in {"booting", "serving"}
  BY Shapely DEF LockInv, Writing, Walking
<1>2. Host[v] = Host[w]
  BY <1>1, Shapely, OneOpenWriter
<1>3. wlock[Host[v]] = v /\ wlock[Host[w]] = w
  BY Shapely DEF LockInv, Inside
<1>. QED  BY <1>2, <1>3 DEF Writing, Walking

\* A step that commits nothing and in which no walk gets further.
LEMMA WalkKept ==
    ASSUME WalkSees, WalkEnds, UNCHANGED db,
           \A v \in Worker : pc'[v] \in Walking =>
               \/ pc'[v] = "walk" /\ snap'[v] = << >>
               \/ pc'[v] = pc[v] /\ snap'[v] = snap[v]
    PROVE  WalkSees' /\ WalkEnds'
<1>1. WalkSees'
  BY DEF WalkSees
<1>2. WalkEnds'
  BY DEF WalkEnds, Walking
<1>. QED  BY <1>1, <1>2

\* A step that opens no transaction and in which no write ends.
LEMMA TxnKept ==
    ASSUME OwnedTxn, txn' \in {txn, NoProc}, Uncommitted \subseteq Uncommitted'
    PROVE  OwnedTxn'
BY DEF OwnedTxn

LEMMA WriteStepWalks ==
    ASSUME RollsBack, IInv, WalkInv, NEW w \in Worker,
           \/ \E sh \in Shapes : Begin(w, sh)
           \/ \E d \in Payload : Insert(w, d)
           \/ ReadHead(w) \/ Rollback(w) \/ Commit(w)
    PROVE  WalkInv'
<1> USE DEF disk, process, writing, verifying, bounds
<1>0. /\ snap' = snap /\ pc'[w] \notin Walking
      /\ \A v \in Worker \ {w} : pc'[v] = pc[v]
  BY WriteSteps DEF Walking
<1>1. OwnedTxn'
  <2>1. CASE \E sh \in Shapes : Begin(w, sh)
    <3>1. txn' = txn /\ pc[w] = "idle"
      BY <2>1 DEF Begin
    <3>. QED  BY <1>0, <3>1, TxnKept DEF Uncommitted, WalkInv
  <2>2. CASE \E d \in Payload : Insert(w, d)
    <3>1. txn' = Host[w] /\ pc'[w] \in {"head", "commit"}
      BY <2>2, Shapely DEF Insert
    <3>. QED  BY <3>1 DEF OwnedTxn, Uncommitted
  <2>3. CASE ReadHead(w)
    <3>1. txn' = txn /\ pc'[w] = "insert"
      BY <2>3, Shapely DEF ReadHead
    <3>. QED  BY <1>0, <3>1, TxnKept DEF Uncommitted, WalkInv
  <2>4. CASE Rollback(w)
    <3>1. Discard(Host[w]) /\ txn \in {NoProc, Host[w]}
      BY <2>4, Shapely, SeenIsView DEF Rollback
    <3>. QED  BY <3>1 DEF Discard, OwnedTxn
  <2>5. CASE Commit(w)
    BY <2>5 DEF Commit, OwnedTxn
  <2>. QED  BY <2>1, <2>2, <2>3, <2>4, <2>5
<1>2. CASE Commit(w)
  <2>1. pc[w] \in Writing
    BY <1>2 DEF Commit, Writing
  <2>2. WalkSees'
    BY <1>0, <2>1, NobodyWalks DEF WalkSees
  <2>3. WalkEnds'
    BY <1>0 DEF WalkEnds, WalkInv, Walking
  <2>. QED  BY <1>1, <2>2, <2>3 DEF WalkInv
<1>3. CASE ~Commit(w)
  <2>1. db' = db
    BY <1>3 DEF Begin, Insert, ReadHead, Rollback
  <2>2. WalkSees' /\ WalkEnds'
    BY <1>0, <2>1, WalkKept DEF WalkInv
  <2>. QED  BY <1>1, <2>2 DEF WalkInv
<1>. QED  BY <1>2, <1>3

\* One more table walked.
LEMMA WalkOnWalks ==
    ASSUME IInv, WalkInv, NEW w \in Worker, pc[w] = "walk",
           WalkOn(w, Seen(Host[w])[NextWalk(w)])
    PROVE  WalkSees' /\ WalkEnds'
<1> PICK n, rows : n = Len(snap[w]) + 1 /\ rows = Seen(Host[w])[NextWalk(w)]
  OBVIOUS
<1>1. rows = db[Tables[n]]
  BY WalkerSeesCommitted DEF NextWalk, WalkInv, Walking
<1>2. snap \in [Worker -> Seq([head : Hash, count : Nat])]
  BY Shapely DEF TypeOK
<1>3. /\ UNCHANGED <<db, txn>> /\ \A v \in Worker \ {w} : pc'[v] = pc[v] /\ snap'[v] = snap[v]
      /\ snap'[w] = Append(snap[w], [head |-> LastHash(rows), count |-> Len(rows)])
      /\ pc'[w] = IF n = Len(Tables) THEN "check" ELSE "walk"
  BY <1>2, Shapely DEF WalkOn, disk
<1>4. n \in 1 .. Len(Tables)
  <2>1. Len(snap[w]) \in Nat /\ Len(Tables) \in Nat
    BY <1>2, StoreAssumption, LenProperties
  <2>. QED  BY <2>1, Shapely DEF SectionInv
<1>5. Tables[n] \in Table
  <2>1. DOMAIN Tables = 1 .. Len(Tables)
    BY StoreAssumption, LenProperties
  <2>. QED  BY <1>4, <2>1 DEF Table
<1>6. LastHash(rows) \in Hash /\ Len(rows) \in Nat
  BY <1>1, <1>5, RowsOf, LastHashType
<1>7. /\ Len(snap'[w]) = n /\ DOMAIN snap'[w] = 1 .. n
      /\ snap'[w][n].head = LastHash(rows) /\ snap'[w][n].count = Len(rows)
      /\ \A i \in 1 .. Len(snap[w]) : snap'[w][i] = snap[w][i]
      /\ DOMAIN snap[w] = 1 .. Len(snap[w]) /\ Len(snap[w]) \in Nat
  <2> DEFINE e == [head |-> LastHash(rows), count |-> Len(rows)]
  <2>1. e \in [head : Hash, count : Nat] /\ e.head = LastHash(rows) /\ e.count = Len(rows)
    BY <1>6
  <2>2. snap[w] \in Seq([head : Hash, count : Nat]) /\ snap'[w] = Append(snap[w], e)
    BY <1>2, <1>3
  <2> HIDE DEF e
  <2>3. /\ Len(snap'[w]) = n /\ snap'[w] \in Seq([head : Hash, count : Nat])
        /\ snap'[w][n] = e
        /\ \A i \in 1 .. Len(snap[w]) : snap'[w][i] = snap[w][i]
    BY <2>1, <2>2, AppendProperties
  <2>. QED  BY <2>1, <2>2, <2>3, LenProperties
<1>8. WalkEnds'
  BY <1>3, <1>7 DEF WalkInv, WalkEnds
<1>9. ASSUME Host[w] \in Writer, NEW i \in DOMAIN snap'[w]
      PROVE  /\ snap'[w][i].head = LastHash(db[Tables[i]])
             /\ snap'[w][i].count = Len(db[Tables[i]])
  <2>1. CASE i = n
    BY <1>1, <1>7, <2>1
  <2>2. CASE i # n
    <3>1. i \in DOMAIN snap[w] /\ snap'[w][i] = snap[w][i]
      BY <1>7, <2>2
    <3>. QED  BY <1>9, <3>1 DEF WalkInv, WalkSees, Walking
  <2>. QED  BY <2>1, <2>2
<1>10. WalkSees'
  <2> SUFFICES ASSUME NEW v \in Worker, Host[v] \in Writer, pc'[v] \in Walking,
                      NEW i \in DOMAIN snap'[v]
               PROVE  /\ snap'[v][i].head = LastHash(db'[Tables[i]])
                      /\ snap'[v][i].count = Len(db'[Tables[i]])
    BY DEF WalkSees
  <2>1. CASE v = w
    BY <1>3, <1>9, <2>1
  <2>2. CASE v # w
    BY <1>3, <2>2 DEF WalkInv, WalkSees
  <2>. QED  BY <2>1, <2>2
<1>. QED  BY <1>8, <1>10

\* A verify's attempt ends.
LEMMA ConcludeEnds ==
    ASSUME IInv, NEW w \in Worker, NEW ok \in BOOLEAN, Conclude(w, ok)
    PROVE  /\ pc'[w] \in {"idle", "retry"} /\ \A v \in Worker \ {w} : pc'[v] = pc[v]
           /\ verdict'[w] = IF ok THEN "ok" ELSE "mismatch"
BY Shapely DEF Conclude, IInv, TypeOK

LEMMA VerifyStepWalks ==
    ASSUME IInv, WalkInv, NEW w \in Worker,
           \/ \E n \in {1, Attempts} : VerifyBegin(w, n)
           \/ VerifyAgain(w) \/ WalkTable(w) \/ CheckManifest(w)
    PROVE  WalkInv'
<1>0. /\ UNCHANGED <<db, txn>> /\ pc[w] \notin Writing
      /\ \A v \in Worker \ {w} : pc'[v] = pc[v] /\ snap'[v] = snap[v]
  BY VerifierStays DEF disk
<1>1. OwnedTxn'
  BY <1>0, TxnKept DEF WalkInv, Uncommitted, Writing
<1>2. CASE pc'[w] = "walk" /\ snap'[w] = << >>
  BY <1>0, <1>1, <1>2, WalkKept DEF WalkInv
<1>3. CASE pc'[w] \in {"idle", "retry"}
  <2>1. pc'[w] \notin Walking
    BY <1>3 DEF Walking
  <2>. QED  BY <1>0, <1>1, <2>1, WalkKept DEF WalkInv
<1>4. CASE pc[w] = "walk" /\ WalkOn(w, Seen(Host[w])[NextWalk(w)])
  BY <1>1, <1>4, WalkOnWalks DEF WalkInv
<1>5. ASSUME VerifyAgain(w) \/ \E n \in {1, Attempts} : VerifyBegin(w, n)
      PROVE  pc'[w] = "walk" /\ snap'[w] = << >>
  BY <1>5, Shapely DEF VerifyAgain, VerifyBegin, Walk, IInv, TypeOK
<1>6. ASSUME CheckManifest(w) PROVE pc'[w] \in {"idle", "retry"}
  <2>1. check(snap[w]) \in BOOLEAN
    BY DEF check, SelfChained
  <2>. QED  BY <1>6, <2>1, ConcludeEnds DEF CheckManifest
<1>. QED  BY <1>2, <1>3, <1>4, <1>5, <1>6, ConcludeEnds DEF WalkTable

\* A process gone takes its transaction and its walks with it.
LEMMA GoneWalks ==
    ASSUME IInv, WalkInv, NEW p \in Proc, Stop(p) \/ Crash(p)
    PROVE  WalkInv'
<1>1. Gone(p) /\ Discard(p) /\ db' = db
  BY DEF Stop, Crash
<1>2. \A v \in Worker : /\ Host[v] = p => pc'[v] = "idle"
                        /\ Host[v] # p => pc'[v] = pc[v] /\ snap'[v] = snap[v]
  BY <1>1 DEF Gone
<1>3. WalkSees' /\ WalkEnds'
  BY <1>1, <1>2, WalkKept DEF WalkInv, Walking
<1>4. OwnedTxn'
  <2>1. CASE txn = p
    BY <1>1, <2>1 DEF Discard, OwnedTxn
  <2>2. CASE txn # p
    BY <1>1, <1>2, <2>2 DEF Discard, WalkInv, OwnedTxn, Uncommitted
  <2>. QED  BY <2>1, <2>2
<1>. QED  BY <1>3, <1>4 DEF WalkInv

LEMMA WalkStep ==
    ASSUME RollsBack, IInv, HandInv, WalkInv, [Next]_vars
    PROVE  WalkInv'
<1>1. ASSUME NEW p \in Proc, Open(p) \/ TakeLock(p) \/ LockHeld(p)
      PROVE  WalkInv'
  <2>1. UNCHANGED <<db, txn, pc, snap>>
    BY <1>1 DEF Open, TakeLock, LockHeld, disk, verifying
  <2>. QED  BY <2>1, WalkKept, TxnKept DEF WalkInv, Uncommitted
<1>2. ASSUME NEW w \in Worker,
             WriteLine(w) \/ WriteFails(w) \/ SyncLine(w) \/ SyncFails(w)
      PROVE  WalkInv'
  <2>1. /\ pc[w] \in {"attest", "sync"} /\ UNCHANGED <<db, txn, snap>>
        /\ \A v \in Worker \ {w} : pc'[v] = pc[v]
    BY <1>2, WriterStays
  <2>2. pc'[w] \notin Walking
    BY <1>2, Shapely DEF WriteLine, WriteFails, SyncLine, SyncFails, Leave, Walking
  <2>3. OwnedTxn'
    BY <2>1, TxnKept DEF WalkInv, Uncommitted
  <2>. QED  BY <2>1, <2>2, <2>3, WalkKept DEF WalkInv
<1>3. ASSUME NEW w \in Worker, Seed(w) PROVE WalkInv'
  <2>1. /\ UNCHANGED <<db, txn>> /\ pc[w] = "idle" /\ pc'[w] = "attest"
        /\ \A v \in Worker \ {w} : pc'[v] = pc[v]
    BY <1>3, SeedOwes
  <2>2. snap' = snap
    BY <1>3 DEF Seed, verifying
  <2>. QED  BY <2>1, <2>2, TxnKept, WalkKept DEF WalkInv, Uncommitted, Walking
<1>4. CASE UNCHANGED vars
  <2>1. UNCHANGED <<db, txn, pc, snap>>
    BY <1>4 DEF vars, disk, verifying
  <2>. QED  BY <2>1, WalkKept, TxnKept DEF WalkInv, Uncommitted
<1>. QED  BY <1>1, <1>2, <1>3, <1>4, GoneWalks, WriteStepWalks, VerifyStepWalks
          DEF Next, ProcessStep, WriteStep, AttestStep, VerifyStep

\* A complete walk and the manifest's own check are a check of the two files.
LEMMA CheckIsIntact ==
    ASSUME IInv, WalkInv, NEW w \in Worker, pc[w] = "check", Host[w] \in Writer
    PROVE  check(snap[w]) <=> Intact
<1>1. /\ DOMAIN snap[w] = DOMAIN Tables
      /\ \A i \in DOMAIN Tables : /\ snap[w][i].head = LastHash(db[Tables[i]])
                                  /\ snap[w][i].count = Len(db[Tables[i]])
  <2>1. snap[w] \in Seq([head : Hash, count : Nat]) /\ Tables \in Seq(STRING)
    BY StoreAssumption DEF IInv, TypeOK
  <2>2. DOMAIN snap[w] = DOMAIN Tables
    BY <2>1, LenProperties DEF WalkInv, WalkEnds
  <2>. QED  BY <2>2 DEF WalkInv, WalkSees, Walking
<1>2. \A t \in Table : Chained(db[t])
  BY DEF IInv, RowsChained
<1>. QED  BY <1>1, <1>2 DEF check, Intact, Table

LEMMA VerdictStep ==
    ASSUME IInv, WalkInv, [Next]_vars, NEW w \in Worker,
           Host[w] \in Writer, pc[w] \in Walking,
           pc'[w] \in {"idle", "retry"}, verdict'[w] # "none"
    PROVE  verdict'[w] = "ok" <=> Intact
<1>0. pc'[w] # pc[w] /\ pc[w] \notin Writing /\ pc[w] \notin {"idle", "retry"}
  BY DEF Walking, Writing
<1>1. CASE WalkTable(w) \/ CheckManifest(w)
  <2>1. CASE WalkTable(w)
    <3>1. /\ pc[w] = "walk" /\ IF Chained(Seen(Host[w])[NextWalk(w)])
             THEN WalkOn(w, Seen(Host[w])[NextWalk(w)]) ELSE Conclude(w, FALSE)
      BY <2>1 DEF WalkTable
    <3>2. NextWalk(w) \in Table
      <4>1. snap[w] \in Seq([head : Hash, count : Nat]) /\ Tables \in Seq(STRING)
        BY StoreAssumption DEF IInv, TypeOK
      <4>2. Len(snap[w]) + 1 \in DOMAIN Tables
        BY <3>1, <4>1, Shapely, LenProperties DEF SectionInv
      <4>. QED  BY <4>2 DEF NextWalk, Table
    <3>3. Chained(Seen(Host[w])[NextWalk(w)])
      BY <3>2 DEF IInv, RowsChained, Seen
    <3>4. WalkOn(w, Seen(Host[w])[NextWalk(w)])
      BY <3>1, <3>3
    <3>5. pc'[w] \in {"check", "walk"}
      BY <3>4, Shapely DEF WalkOn
    <3>. QED  BY <3>5
  <2>2. CASE CheckManifest(w)
    <3>1. pc[w] = "check" /\ Conclude(w, check(snap[w])) /\ check(snap[w]) \in BOOLEAN
      BY <2>2 DEF CheckManifest, check, SelfChained
    <3>2. verdict'[w] = IF check(snap[w]) THEN "ok" ELSE "mismatch"
      BY <3>1, ConcludeEnds
    <3>. QED  BY <3>1, <3>2, CheckIsIntact
  <2>. QED  BY <1>1, <2>1, <2>2
<1>2. ASSUME NEW p \in Proc, Open(p) \/ TakeLock(p) \/ LockHeld(p) PROVE FALSE
  BY <1>0, <1>2 DEF Open, TakeLock, LockHeld
<1>3. ASSUME NEW p \in Proc, Stop(p) \/ Crash(p) PROVE FALSE
  <2>1. Gone(p)
    BY <1>3 DEF Stop, Crash
  <2>. QED  BY <1>0, <2>1 DEF Gone
<1>4. ASSUME NEW v \in Worker,
             \/ \E sh \in Shapes : Begin(v, sh)
             \/ \E d \in Payload : Insert(v, d)
             \/ ReadHead(v) \/ Rollback(v) \/ Commit(v)
      PROVE  FALSE
  <2>1. pc[v] \in {"idle", "head", "insert", "commit"} /\ \A u \in Worker \ {v} : pc'[u] = pc[u]
    BY <1>4, WriteSteps
  <2>. QED  BY <1>0, <2>1 DEF Walking
<1>5. ASSUME NEW v \in Worker,
             WriteLine(v) \/ WriteFails(v) \/ SyncLine(v) \/ SyncFails(v)
      PROVE  FALSE
  BY <1>0, <1>5, WriterStays
<1>6. ASSUME NEW v \in Worker, Seed(v) PROVE FALSE
  <2>1. UNCHANGED verifying /\ pc' = [pc EXCEPT ![v] = "attest"]
    BY <1>6 DEF Seed
  <2>. QED  BY <1>0, <2>1, Shapely
<1>7. ASSUME NEW v \in Worker,
             (\E n \in {1, Attempts} : VerifyBegin(v, n)) \/ VerifyAgain(v)
      PROVE  FALSE
  BY <1>0, <1>7, Shapely DEF VerifyBegin, VerifyAgain, Walk
<1>8. ASSUME NEW v \in Worker \ {w}, WalkTable(v) \/ CheckManifest(v) PROVE FALSE
  BY <1>0, <1>8, VerifierStays
<1>9. CASE UNCHANGED vars
  BY <1>0, <1>9 DEF vars
<1>. QED  BY <1>1, <1>2, <1>3, <1>4, <1>5, <1>6, <1>7, <1>8, <1>9
          DEF Next, ProcessStep, WriteStep, AttestStep, VerifyStep

\* A verify's verdict is the truth about the two files at the instant it is given,
\* where a failing write rolls back: VerdictIsTrue.
THEOREM VerdictHolds ==
    ASSUME RollsBack PROVE Spec => VerdictIsTrue
<1>1. Init => LossyInv /\ WalkInv
  <2> SUFFICES ASSUME Init PROVE WalkInv
    BY InitLossy
  <2>1. txn = NoProc /\ \A w \in Worker : pc[w] = "idle"
    BY DEF Init
  <2>. QED  BY <2>1 DEF WalkInv, OwnedTxn, WalkSees, WalkEnds, Walking
<1>2. LossyInv /\ WalkInv /\ [Next]_vars => (LossyInv /\ WalkInv)'
  BY LossyStep, WalkStep DEF LossyInv
<1>3. LossyInv /\ WalkInv /\ [Next]_vars =>
         [\A w \in Worker :
             /\ Host[w] \in Writer /\ pc[w] \in Walking
             /\ pc'[w] \in {"idle", "retry"} /\ verdict'[w] # "none"
             => (verdict'[w] = "ok" <=> Intact)]_vars
  BY VerdictStep DEF LossyInv
<1>. QED  BY <1>1, <1>2, <1>3, PTL DEF Spec, VerdictIsTrue

-----------------------------------------------------------------------------
(* What is committed is attested or owed.                                   *)

\* Only a commit changes the committed rows, only a line the manifest.
LEMMA FilesChange ==
    ASSUME IInv, HandInv, [Next]_vars,
           \A w \in Worker : ~Commit(w) /\ ~WriteLine(w)
    PROVE  UNCHANGED <<db, manifest>>
<1> USE DEF disk
<1>1. ASSUME NEW p \in Proc,
             Open(p) \/ TakeLock(p) \/ LockHeld(p) \/ Stop(p) \/ Crash(p)
      PROVE  UNCHANGED <<db, manifest>>
  BY <1>1 DEF Open, TakeLock, LockHeld, Stop, Crash
<1>2. ASSUME NEW w \in Worker,
             \/ \E sh \in Shapes : Begin(w, sh)
             \/ \E d \in Payload : Insert(w, d)
             \/ ReadHead(w) \/ Rollback(w)
      PROVE  UNCHANGED <<db, manifest>>
  BY <1>2 DEF Begin, Insert, ReadHead, Rollback
<1>3. ASSUME NEW w \in Worker,
             WriteFails(w) \/ SyncLine(w) \/ SyncFails(w) \/ Seed(w)
      PROVE  UNCHANGED <<db, manifest>>
  BY <1>3 DEF WriteFails, SyncLine, SyncFails, Seed
<1>4. ASSUME NEW w \in Worker,
             \/ \E n \in {1, Attempts} : VerifyBegin(w, n)
             \/ VerifyAgain(w) \/ WalkTable(w) \/ CheckManifest(w)
      PROVE  UNCHANGED <<db, manifest>>
  BY <1>4, VerifierStays
<1>5. CASE UNCHANGED vars
  BY <1>5 DEF vars
<1>. QED  BY <1>1, <1>2, <1>3, <1>4, <1>5
          DEF Next, ProcessStep, WriteStep, AttestStep, VerifyStep

\* What was written stays.
LEMMA FilesStep ==
    ASSUME LossyInv, [Next]_vars
    PROVE  [FilesGrow]_vars
<1>0. IInv /\ HandInv /\ GrowthInv
  BY DEF LossyInv, HandInv
<1>1. CASE \E w \in Worker : Commit(w)
  <2>1. db' = view /\ manifest' = manifest
    BY <1>1 DEF Commit
  <2>2. ASSUME NEW t \in Table, NEW n \in DOMAIN db[t]
        PROVE  n \in DOMAIN view[t] /\ view[t][n] = db[t][n]
    <3>1. Len(db[t]) <= Len(view[t]) /\ view[t][n] = db[t][n]
      BY <1>0 DEF GrowthInv
    <3>. QED  BY <1>0, <3>1, RowsOf
  <2>. QED  BY <2>1, <2>2 DEF FilesGrow
<1>2. CASE \E w \in Worker : WriteLine(w)
  <2>1. /\ db' = db /\ manifest' \in Seq(Line) /\ Len(manifest') = Len(manifest) + 1
        /\ Len(manifest) \in Nat /\ DOMAIN manifest = 1 .. Len(manifest)
        /\ \A n \in 1 .. Len(manifest) : manifest'[n] = manifest[n]
    BY <1>0, <1>2, LineWritten
  <2>2. DOMAIN manifest' = 1 .. Len(manifest) + 1
    BY <2>1, LenProperties
  <2>. QED  BY <2>1, <2>2 DEF FilesGrow
<1>3. CASE \A w \in Worker : ~Commit(w) /\ ~WriteLine(w)
  BY <1>0, <1>3, FilesChange DEF FilesGrow
<1>. QED  BY <1>1, <1>2, <1>3

\* Nothing that was written is rewritten, whatever fails, crashes or forks: committed rows
\* and manifest lines are only added to (no statement updates or deletes a row; the manifest
\* is opened with O_APPEND).
THEOREM NothingIsRewritten == Spec => [][FilesGrow]_vars
<1>1. LossyInv /\ [Next]_vars => [FilesGrow]_vars
  BY FilesStep
<1>. QED  BY <1>1, InitLossy, LossyStep, PTL DEF Spec

\* The next line a writer writes counts up to the row it names: the rows between
\* the attested count and it have lines of their own.
LEMMA NextInOrder ==
    ASSUME IInv, HandInv, FileInv, TailInv, OwesTheRest, NEW w \in Worker, WriteLine(w)
    PROVE  NextCount(w) = RowNo(NextOwed(w))
<1> PICK o, c : o = NextOwed(w) /\ c = NextCount(w)
  OBVIOUS
<1>1. /\ cachedHead[Host[w]] = TailHash(manifest) /\ SelfChained(manifest)
      /\ pc[w] = "attest"
  BY WriterKnows, LineWritten
<1>2. /\ o.table \in Table /\ c \in Nat /\ RowNo(o) \in Nat /\ c <= RowNo(o)
      /\ RowNo(o) \in 1 .. Len(db[o.table]) /\ AttCount(manifest, o.table) < c
      /\ Seeding(w) => c = RowNo(o)
      /\ ~Seeding(w) => c = AttCount(manifest, o.table) + 1
      /\ Pending(w)' = Pending(w) \ {done[w] + 1}
  BY <1>1, NextLine
<1>3. \A j \in Pending(w)' :
         /\ RowNo(owed[w][j]) \in Nat
         /\ owed[w][j].table = o.table => RowNo(o) < RowNo(owed[w][j])
  BY <1>1, NextLine
<1>4. CASE ~Seeding(w)
  <2>1. Len(db[o.table]) \in Nat /\ AttCount(manifest, o.table) \in Nat
    BY <1>2, RowsOf, CountsAreNumbers
  <2>2. c \in (AttCount(manifest, o.table) + 1) .. Len(db[o.table])
    BY <1>2, <1>4, <2>1
  <2>3. w \in Attesting
    BY <1>1 DEF Attesting
  <2>4. PICK j \in Pending(w) : owed[w][j].table = o.table /\ RowNo(owed[w][j]) = c
    BY <1>2, <1>4, <2>2, <2>3 DEF OwesTheRest
  <2>5. j = done[w] + 1
    BY <1>2, <1>3, <2>4
  <2>. QED  BY <2>4, <2>5 DEF NextOwed
<1>. QED  BY <1>2, <1>4

\* Every line names a committed row, and the one counted.
LEMMA LinesNameRows ==
    ASSUME IInv, HandInv, FileInv, TailInv, AttestsCommittedRows, [Next]_vars,
           \A w \in Worker : WriteLine(w) => OwesTheRest
    PROVE  AttestsCommittedRows'
<1>1. ASSUME NEW w \in Worker, WriteLine(w) PROVE AttestsCommittedRows'
  <2> PICK o, c : o = NextOwed(w) /\ c = NextCount(w)
    OBVIOUS
  <2>1. /\ db' = db /\ manifest' \in Seq(Line) /\ Len(manifest') = Len(manifest) + 1
        /\ Len(manifest) \in Nat /\ DOMAIN manifest = 1 .. Len(manifest)
        /\ manifest'[Len(manifest')] = NewLine(w)
        /\ \A i \in 1 .. Len(manifest) : manifest'[i] = manifest[i]
        /\ NewLine(w).says.table = o.table /\ NewLine(w).says.head = o.head
        /\ NewLine(w).says.count = c
    BY <1>1, LineWritten
  <2>2. /\ cachedHead[Host[w]] = TailHash(manifest) /\ SelfChained(manifest)
    BY <1>1, WriterKnows, LineWritten
  <2>3. /\ RowNo(o) \in 1 .. Len(db[o.table]) /\ c = RowNo(o)
        /\ db[o.table][RowNo(o)].row_hash = o.head
    BY <1>1, <2>2, NextLine, NextInOrder
  <2>4. DOMAIN manifest' = 1 .. (Len(manifest) + 1)
    BY <2>1, LenProperties
  <2> HIDE DEF NewLine
  <2>5. ASSUME NEW i \in DOMAIN manifest'
        PROVE  LET s == manifest'[i].says
               IN /\ s.count \in 1 .. Len(db[s.table])
                  /\ s.head = db[s.table][s.count].row_hash
    <3>1. CASE i = Len(manifest) + 1
      <4>1. manifest'[i] = NewLine(w)
        BY <2>1, <3>1
      <4>2. /\ manifest'[i].says.table = o.table /\ manifest'[i].says.head = o.head
            /\ manifest'[i].says.count = c
        BY <2>1, <4>1
      <4>. QED  BY <2>3, <4>2
    <3>2. CASE i # Len(manifest) + 1
      <4>1. i \in DOMAIN manifest /\ manifest'[i] = manifest[i]
        BY <2>1, <2>4, <3>2
      <4>. QED  BY <4>1 DEF AttestsCommittedRows
    <3>. QED  BY <3>1, <3>2
  <2>. QED  BY <2>1, <2>5 DEF AttestsCommittedRows
<1>2. ASSUME NEW w \in Worker, Commit(w) PROVE AttestsCommittedRows'
  <2>1. db' = view /\ manifest' = manifest
    BY <1>2 DEF Commit
  <2>2. ASSUME NEW i \in DOMAIN manifest
        PROVE  LET s == manifest[i].says
               IN /\ s.count \in 1 .. Len(view[s.table])
                  /\ s.head = view[s.table][s.count].row_hash
    <3> PICK s : s = manifest[i].says
      OBVIOUS
    <3>1. s.table \in Table
      <4>1. manifest[i] \in Line
        BY Shapely
      <4>. QED  BY <4>1 DEF Line, Attestation
    <3>2. s.count \in 1 .. Len(db[s.table]) /\ s.head = db[s.table][s.count].row_hash
      BY DEF AttestsCommittedRows
    <3>3. view[s.table][s.count] = db[s.table][s.count] /\ Len(db[s.table]) <= Len(view[s.table])
      BY <3>1, <3>2, RowsOf DEF HandInv, GrowthInv
    <3>. QED  BY <3>1, <3>2, <3>3, RowsOf
  <2>. QED  BY <2>1, <2>2 DEF AttestsCommittedRows
<1>3. CASE \A w \in Worker : ~Commit(w) /\ ~WriteLine(w)
  BY <1>3, FilesChange DEF AttestsCommittedRows
<1>. QED  BY <1>1, <1>2, <1>3

\* Only a boot whose verify found the files intact ends in serving.
LEMMA ServesIntact ==
    ASSUME IInv, WalkInv, NEW w \in Worker, NEW p \in Writer,
           \/ \E n \in {1, Attempts} : VerifyBegin(w, n)
           \/ VerifyAgain(w) \/ WalkTable(w) \/ CheckManifest(w),
           phase[p] # "serving", phase'[p] = "serving"
    PROVE  pc[w] = "check" /\ Host[w] = p /\ Intact
<1>1. p \in Proc /\ phase'[p] # phase[p]
  BY StoreAssumption
<1>2. ~ (VerifyAgain(w) \/ \E n \in {1, Attempts} : VerifyBegin(w, n))
  BY <1>1 DEF VerifyAgain, VerifyBegin, process
<1>3. ASSUME NEW ok \in BOOLEAN, Conclude(w, ok) PROVE ok /\ Host[w] = p
  BY <1>1, <1>3, Shapely DEF Conclude, BootOutcome
<1>4. ~ WalkTable(w)
  BY <1>1, <1>3 DEF WalkTable, WalkOn, process
<1>5. /\ pc[w] = "check" /\ Conclude(w, check(snap[w])) /\ check(snap[w]) \in BOOLEAN
  BY <1>2, <1>4 DEF CheckManifest, check, SelfChained
<1>6. check(snap[w]) /\ Host[w] = p
  BY <1>3, <1>5
<1>. QED  BY <1>5, <1>6, CheckIsIntact

\* A crash loses nothing in a process other than its own.
LEMMA CrashServes ==
    ASSUME IInv, NEW p \in Proc, Crash(p),
           NEW q \in Writer, phase[q] = "serving", q # p, ~lost
    PROVE  ~lost'
<1>1. ASSUME NEW w \in Workers(p), Forgets(w) PROVE FALSE
  <2>1. w \in Worker /\ Host[w] = p /\ pc[w] \in Writing
    BY <1>1 DEF Forgets, Workers, Writing
  <2>2. p \in Writer /\ phase[p] \in {"booting", "serving"}
    BY <2>1, Shapely DEF LockInv, Writing
  <2>. QED  BY <2>2, Shapely, StoreAssumption, OneOpenWriter
<1>2. lost' = (lost \/ \E w \in Workers(p) : Forgets(w))
  BY DEF Crash
<1>. QED  BY <1>1, <1>2

LEMMA ServesStep ==
    ASSUME Reliable, LossyInv, WalkInv, ServesWhole, [Next]_vars
    PROVE  ServesWhole'
<1> SUFFICES ASSUME NEW p \in Writer, phase'[p] = "serving" PROVE ~lost'
  BY DEF ServesWhole
<1>0. IInv /\ HandInv /\ p \in Proc
  BY StoreAssumption DEF LossyInv
<1> USE DEF disk, process, writing, verifying, bounds
<1>1. ASSUME lost' => lost, phase[p] = "serving" PROVE ~lost'
  BY <1>1 DEF ServesWhole
<1>2. ASSUME NEW q \in Proc, Open(q) \/ TakeLock(q) \/ LockHeld(q) \/ Stop(q)
      PROVE  ~lost'
  <2>1. lost' = lost /\ phase[p] = "serving"
    BY <1>0, <1>2, Shapely DEF Open, TakeLock, LockHeld, Stop
  <2>. QED  BY <1>1, <2>1
<1>3. ASSUME NEW q \in Proc, Crash(q) PROVE ~lost'
  <2>1. q # p /\ phase[p] = "serving"
    BY <1>0, <1>3, Shapely DEF Crash
  <2>2. ~lost
    BY <2>1 DEF ServesWhole
  <2>. QED  BY <1>0, <1>3, <2>1, <2>2, CrashServes
<1>4. ASSUME NEW w \in Worker,
             \/ \E sh \in Shapes : Begin(w, sh)
             \/ \E d \in Payload : Insert(w, d)
             \/ ReadHead(w) \/ Rollback(w) \/ Commit(w)
      PROVE  ~lost'
  <2>1. lost' = lost /\ phase' = phase
    BY <1>0, <1>4, WriteSteps
  <2>. QED  BY <1>1, <2>1
<1>5. ASSUME NEW w \in Worker, WriteLine(w) PROVE ~lost'
  <2>1. phase' = phase
    BY <1>0, <1>5, LineWritten
  <2>2. lost' => lost
    BY <1>5 DEF WriteLine
  <2>. QED  BY <1>1, <2>1, <2>2
<1>6. ASSUME NEW w \in Worker, SyncLine(w) PROVE ~lost'
  <2>1. lost' = lost /\ phase' = phase
    BY <1>0, <1>6, LineSynced
  <2>. QED  BY <1>1, <2>1
<1>7. ASSUME NEW w \in Worker, Seed(w) PROVE ~lost'
  <2>1. lost' = lost /\ phase' = phase
    BY <1>0, <1>7, SeedOwes
  <2>. QED  BY <1>1, <2>1
<1>8. \A w \in Worker : ~WriteFails(w) /\ ~SyncFails(w)
  BY DEF Reliable, WriteFails, SyncFails
<1>9. ASSUME NEW w \in Worker,
             \/ \E n \in {1, Attempts} : VerifyBegin(w, n)
             \/ VerifyAgain(w) \/ WalkTable(w) \/ CheckManifest(w)
      PROVE  ~lost'
  <2>1. lost' = lost
    BY <1>0, <1>9, VerifierStays
  <2>2. CASE phase[p] # "serving"
    <3>1. pc[w] = "check" /\ Host[w] = p /\ Intact
      BY <1>0, <1>9, <2>2, ServesIntact
    <3>2. Attesting = {}
      <4>1. pc[w] \in Walking
        BY <3>1 DEF Walking
      <4>2. ASSUME NEW v \in Attesting PROVE FALSE
        <5>1. v \in Worker /\ pc[v] \in Writing
          BY DEF Attesting, Writing
        <5>. QED  BY <1>0, <3>1, <4>1, <5>1, NobodyWalks
      <4>. QED  BY <4>2
    <3>. QED  BY <2>1, <3>1, <3>2, LossIsVisible DEF LostStaysVisible
  <2>. QED  BY <1>1, <2>1, <2>2
<1>10. CASE UNCHANGED vars
  <2>1. lost' = lost /\ phase' = phase
    BY <1>10 DEF vars
  <2>. QED  BY <1>1, <2>1
<1>. QED  BY <1>2, <1>3, <1>4, <1>5, <1>6, <1>7, <1>8, <1>9, <1>10
          DEF Next, ProcessStep, WriteStep, AttestStep, VerifyStep

\* Steps that leave the files alone and in which nobody comes to owe less.
LEMMA RestKept ==
    ASSUME OwesTheRest, UNCHANGED <<db, manifest>>,
           \A v \in Attesting' :
               /\ v \in Attesting /\ Pending(v) \subseteq Pending(v)'
               /\ \A j \in Pending(v) : owed'[v][j] = owed[v][j]
               /\ Seeding(v) /\ Pending(v) # {} => Seeding(v)'
    PROVE  OwesTheRest'
BY DEF OwesTheRest

LEMMA InsertedKept ==
    ASSUME IInv, OwesInserted, UNCHANGED db, view' = view \/ view' = db,
           \A v \in Uncommitted' : v \in Uncommitted /\ owed'[v] = owed[v]
    PROVE  OwesInserted'
<1>1. CASE view' = view
  BY <1>1 DEF OwesInserted
<1>2. CASE view' = db
  <2>1. \A t \in Table : (Len(db'[t]) + 1) .. Len(view'[t]) = {}
    BY <1>2, RowsOf
  <2>. QED  BY <2>1 DEF OwesInserted
<1>. QED  BY <1>1, <1>2

Debts == AllAttested /\ OwesTheRest

\* A step that changes neither the files nor who is attesting.
LEMMA DebtsKept ==
    ASSUME IInv, OwesInserted, UNCHANGED <<db, manifest, lost>>,
           view' = view \/ view' = db,
           \A v \in Worker :
               /\ pc[v] \in {"attest", "sync"} \/ pc'[v] \in {"attest", "sync"} =>
                     /\ pc'[v] = pc[v] /\ owed'[v] = owed[v] /\ done'[v] = done[v]
               /\ pc'[v] \in {"head", "insert", "commit"} =>
                     pc[v] \in {"head", "insert", "commit"} /\ owed'[v] = owed[v]
    PROVE  OwesInserted' /\ (Debts => Debts')
<1>1. Attesting' = Attesting
  BY DEF Attesting
<1>2. AllAttested => AllAttested'
  BY <1>1 DEF AllAttested
<1>3. OwesTheRest => OwesTheRest'
  <2>1. \A v \in Attesting' : Pending(v)' = Pending(v) /\ Seeding(v)' = Seeding(v)
    BY DEF Attesting, Pending, Seeding
  <2>2. \A v \in Attesting' : owed'[v] = owed[v] /\ v \in Attesting
    BY DEF Attesting
  <2>. QED  BY <2>1, <2>2, RestKept
<1>4. OwesInserted'
  BY InsertedKept DEF Uncommitted
<1>. QED  BY <1>2, <1>3, <1>4 DEF Debts

\* A write begins when nothing is left uncommitted.
LEMMA BeginsClean ==
    ASSUME IInv, OwnedTxn, NEW w \in Worker, NEW sh \in Shapes, Begin(w, sh)
    PROVE  view = db
<1>1. /\ Host[w] \in Writer /\ phase[Host[w]] = "serving" /\ wlock[Host[w]] = NoWorker
  BY DEF Begin, Acquire
<1>2. ASSUME txn # NoProc PROVE FALSE
  <2>1. PICK v \in Uncommitted : Host[v] = txn
    BY <1>2 DEF OwnedTxn
  <2>2. /\ v \in Worker /\ pc[v] \in Writing /\ txn \in Writer /\ phase[txn] = "serving"
    BY <1>2, Shapely DEF Uncommitted, Writing, TxnInv
  <2>3. txn = Host[w]
    BY <1>1, <2>2, Shapely, StoreAssumption, OneOpenWriter
  <2>4. wlock[Host[v]] = v
    BY <2>2, Shapely DEF LockInv, Inside
  <2>. QED  BY <1>1, <2>1, <2>2, <2>3, <2>4, StoreAssumption
<1>. QED  BY <1>2, Shapely DEF TxnInv

LEMMA InsertDebts ==
    ASSUME IInv, HandInv, OwesInserted, NEW w \in Worker, NEW d \in Payload, Insert(w, d)
    PROVE  OwesInserted'
<1> PICK t, rh : t = NextTable(w) /\ rh = row_hash(prev[w], d)
  OBVIOUS
<1> DEFINE o == [table |-> t, head |-> rh, count |-> 0]
           k == Len(owed[w]) + 1
           n == Len(view[t]) + 1
<1>1. /\ pc[w] = "insert" /\ pc[w] \in Writing /\ t \in Table /\ prev[w] \in Hash
      /\ prev[w] = LastHash(view[t]) /\ db' = db
      /\ view' = [view EXCEPT ![t] = Append(view[t],
                    [payload |-> d, prev_hash |-> prev[w], row_hash |-> rh])]
      /\ owed' = [owed EXCEPT ![w] = Append(owed[w], o)]
      /\ \A v \in Worker \ {w} : pc'[v] = pc[v]
  BY Shapely, NextTableType DEF Insert, SectionInv, TxnInv, Writing
<1>2. /\ view[t] \in Seq(Row) /\ Numbered(view[t]) /\ Len(view[t]) \in Nat
  BY <1>1, RowsOf DEF HandInv, GrowthInv
<1>3. rh \in Hash /\ Len(rh) = n
  <2>1. Len(prev[w]) = Len(view[t])
    BY <1>1, <1>2, HeadCounts
  <2>. QED  BY <1>1, <2>1, AppendProperties DEF row_hash, Hash
<1>4. /\ o \in Owed /\ o.table = t /\ RowNo(o) = n
  BY <1>1, <1>3 DEF Owed, RowNo
<1>5. /\ Len(view'[t]) = n /\ \A u \in Table \ {t} : view'[u] = view[u]
  <2>1. [payload |-> d, prev_hash |-> prev[w], row_hash |-> rh] \in Row
    BY <1>1, <1>3 DEF Row
  <2>. QED  BY <1>1, <1>2, <2>1, AppendProperties, Shapely
<1> HIDE DEF o
<1>6. /\ DOMAIN owed[w] = 1 .. Len(owed[w]) /\ Len(owed[w]) \in Nat
      /\ DOMAIN owed'[w] = 1 .. k /\ owed'[w][k] = o
      /\ \A j \in 1 .. Len(owed[w]) : owed'[w][j] = owed[w][j]
  <2>1. owed[w] \in Seq(Owed) /\ owed'[w] = Append(owed[w], o)
    BY <1>1, Shapely
  <2>2. /\ Append(owed[w], o) \in Seq(Owed) /\ Len(Append(owed[w], o)) = k
        /\ Append(owed[w], o)[k] = o
        /\ \A j \in 1 .. Len(owed[w]) : Append(owed[w], o)[j] = owed[w][j]
    BY <1>4, <2>1, AppendProperties
  <2>. QED  BY <2>1, <2>2, LenProperties
<1>7. Uncommitted' \subseteq {w}
  <2>1. \A v \in Worker \ {w} : pc'[v] \notin Writing
    BY <1>1, Alone
  <2>. QED  BY <2>1 DEF Uncommitted, Writing
<1>8. ASSUME NEW u \in Table, NEW m \in (Len(db[u]) + 1) .. Len(view'[u])
      PROVE  \E j \in DOMAIN owed'[w] : owed'[w][j].table = u /\ RowNo(owed'[w][j]) = m
  <2>1. CASE u = t /\ m = n
    <3>1. k \in DOMAIN owed'[w]
      BY <1>6
    <3>. QED  BY <1>4, <1>6, <2>1, <3>1
  <2>2. CASE ~ (u = t /\ m = n)
    <3>1. m \in (Len(db[u]) + 1) .. Len(view[u])
      BY <1>2, <1>5, <2>2, RowsOf
    <3>2. w \in Uncommitted
      BY <1>1 DEF Uncommitted
    <3>3. PICK j \in DOMAIN owed[w] : owed[w][j].table = u /\ RowNo(owed[w][j]) = m
      BY <3>1, <3>2 DEF OwesInserted
    <3>4. j \in DOMAIN owed'[w] /\ owed'[w][j] = owed[w][j]
      BY <1>6
    <3>. QED  BY <3>3, <3>4
  <2>. QED  BY <2>1, <2>2
<1>. QED  BY <1>1, <1>7, <1>8 DEF OwesInserted

LEMMA CommitDebts ==
    ASSUME IInv, HandInv, OwesInserted, NEW w \in Worker, Commit(w)
    PROVE  OwesInserted' /\ (~lost /\ Debts => Debts')
<1>1. /\ pc[w] = "commit" /\ pc[w] \in Writing /\ db' = view /\ pc'[w] = "attest"
      /\ UNCHANGED <<manifest, owed, done>>
      /\ \A v \in Worker \ {w} : pc'[v] = pc[v]
  BY Shapely DEF Commit, writing, Writing
<1>2. \A v \in Worker \ {w} : pc[v] \notin Writing /\ pc'[v] \notin Writing
  BY <1>1, Alone
<1>3. Attesting = {} /\ Attesting' = {w} /\ Uncommitted' = {}
  BY <1>1, <1>2 DEF Attesting, Uncommitted, Writing
<1>4. Pending(w)' = DOMAIN owed[w]
  <2>1. done[w] = 0 /\ DOMAIN owed[w] = 1 .. Len(owed[w])
    BY <1>1, Shapely, LenProperties DEF HandInv, OwedInv, OwedBy
  <2>. QED  BY <1>1, <2>1 DEF Pending
<1>5. ASSUME ~lost, Debts PROVE OwesTheRest'
  <2>1. \A t \in Table : AttCount(manifest, t) = Len(db[t])
    BY <1>3, <1>5 DEF AllAttested, Debts
  <2>2. ASSUME NEW t \in Table,
               NEW n \in (AttCount(manifest, t) + 1) .. Len(view[t])
        PROVE  \E j \in DOMAIN owed[w] : owed[w][j].table = t /\ RowNo(owed[w][j]) = n
    BY <1>1, <2>1 DEF OwesInserted, Uncommitted
  <2>. QED  BY <1>1, <1>3, <1>4, <2>2 DEF OwesTheRest
<1>. QED  BY <1>3, <1>5 DEF AllAttested, OwesInserted, Debts

LEMMA LineDebts ==
    ASSUME IInv, HandInv, FileInv, TailInv, NEW w \in Worker, WriteLine(w)
    PROVE  OwesInserted' /\ (Debts => Debts')
<1> PICK o, c : o = NextOwed(w) /\ c = NextCount(w)
  OBVIOUS
<1>1. /\ pc[w] = "attest" /\ pc'[w] = "sync" /\ UNCHANGED <<db, owed, done>>
      /\ \A t \in Table :
            AttCount(manifest', t) = IF o.table = t THEN c ELSE AttCount(manifest, t)
  <2>1. pc[w] = "attest" /\ pc'[w] = "sync" /\ UNCHANGED <<db, owed, done>>
    BY LineWritten DEF writing
  <2>. QED  BY <2>1, LineCounts
<1>2. \A v \in Worker \ {w} : pc'[v] \notin Writing
  BY WriterStays
<1>3. Attesting' = {w} /\ Uncommitted' = {} /\ w \in Attesting
  BY <1>1, <1>2 DEF Attesting, Uncommitted, Writing
<1>4. cachedHead[Host[w]] = TailHash(manifest) /\ SelfChained(manifest)
  BY <1>1, WriterKnows
<1>5. /\ o.table \in Table /\ c \in Nat
      /\ OwesTheRest => c = RowNo(o)
      /\ AttCount(manifest, o.table) < c
      /\ Seeding(w) => RowNo(o) = Len(db[o.table])
      /\ Pending(w)' = Pending(w) \ {done[w] + 1} /\ Seeding(w)' = Seeding(w)
  BY <1>4, NextLine, NextInOrder
<1>6. o = owed[w][done[w] + 1]
  BY DEF NextOwed
<1>7. ASSUME OwesTheRest, NEW t \in Table, NEW n \in (AttCount(manifest', t) + 1) .. Len(db[t])
      PROVE  \E j \in Pending(w)' :
                 owed[w][j].table = t /\ (Seeding(w) \/ RowNo(owed[w][j]) = n)
  <2>1. /\ AttCount(manifest, t) \in Nat /\ Len(db[t]) \in Nat
        /\ n \in (AttCount(manifest, t) + 1) .. Len(db[t])
        /\ o.table = t => c < n /\ ~Seeding(w)
    <3>1. AttCount(manifest, t) \in Nat /\ Len(db[t]) \in Nat
      BY CountsAreNumbers, RowsOf
    <3>2. CASE o.table = t
      <4>1. AttCount(manifest', t) = c
        BY <1>1, <3>2
      <4>2. n \in Int /\ c + 1 <= n /\ n <= Len(db[t])
        BY <1>5, <3>1, <4>1
      <4>. QED  BY <1>5, <1>7, <3>1, <3>2, <4>2
    <3>3. CASE o.table # t
      <4>1. AttCount(manifest', t) = AttCount(manifest, t)
        BY <1>1, <3>3
      <4>. QED  BY <3>1, <3>3, <4>1
    <3>. QED  BY <3>2, <3>3
  <2>2. PICK j \in Pending(w) :
            owed[w][j].table = t /\ (Seeding(w) \/ RowNo(owed[w][j]) = n)
    BY <1>3, <1>7, <2>1 DEF OwesTheRest
  <2>3. j # done[w] + 1
    BY <1>5, <1>6, <1>7, <2>1, <2>2
  <2>. QED  BY <1>5, <2>2, <2>3
<1>8. OwesTheRest => OwesTheRest'
  BY <1>1, <1>3, <1>5, <1>7 DEF OwesTheRest
<1>. QED  BY <1>3, <1>8 DEF AllAttested, OwesInserted, Debts

\* A writer that owes nothing has attested all there is.
LEMMA PaidUp ==
    ASSUME IInv, FileInv, TailInv, OwesTheRest, NEW w \in Attesting, Pending(w) = {}
    PROVE  \A t \in Table : AttCount(manifest, t) = Len(db[t])
<1> SUFFICES ASSUME NEW t \in Table PROVE AttCount(manifest, t) = Len(db[t])
  OBVIOUS
<1>1. AttCount(manifest, t) \in Nat /\ Len(db[t]) \in Nat
  BY CountsAreNumbers, RowsOf
<1>2. AttCount(manifest, t) <= Len(db[t])
  BY DEF TailInv, FileInv, CountInv
<1>3. AttCount(manifest, t) + 1 \notin (AttCount(manifest, t) + 1) .. Len(db[t])
  BY DEF OwesTheRest
<1>. QED  BY <1>1, <1>2, <1>3

LEMMA SyncDebts ==
    ASSUME IInv, HandInv, FileInv, TailInv, NEW w \in Worker, SyncLine(w)
    PROVE  OwesInserted' /\ (Debts => Debts')
<1>1. /\ pc[w] = "sync" /\ pc'[w] \in {"attest", "idle"}
      /\ UNCHANGED <<db, manifest>>
      /\ Pending(w)' = Pending(w)
      /\ \A j \in Pending(w) : owed'[w][j] = owed[w][j]
      /\ Seeding(w) /\ Pending(w) # {} => Seeding(w)'
      /\ pc'[w] = "idle" => Pending(w) = {}
      /\ \A v \in Worker \ {w} : pc[v] \notin Writing /\ pc'[v] = pc[v]
  BY LineSynced DEF disk
<1>2. w \in Attesting /\ Attesting' \subseteq {w} /\ Uncommitted' = {}
  BY <1>1 DEF Attesting, Uncommitted, Writing
<1>3. OwesTheRest => OwesTheRest'
  BY <1>1, <1>2, RestKept
<1>4. OwesTheRest => AllAttested'
  <2>1. CASE pc'[w] = "idle"
    BY <1>1, <1>2, <2>1, PaidUp DEF AllAttested
  <2>2. CASE pc'[w] = "attest"
    <3>1. w \in Attesting'
      BY <2>2 DEF Attesting
    <3>. QED  BY <3>1 DEF AllAttested
  <2>. QED  BY <1>1, <2>1, <2>2
<1>. QED  BY <1>2, <1>3, <1>4 DEF OwesInserted, Debts

LEMMA SeedDebts ==
    ASSUME IInv, HandInv, FileInv, NEW w \in Worker, Seed(w)
    PROVE  OwesInserted' /\ Debts' /\ AttestsCommittedRows'
<1>1. /\ UNCHANGED <<db, view, manifest>> /\ pc'[w] = "attest" /\ ~manifestFile
      /\ view = db
      /\ \A v \in Worker \ {w} : pc'[v] = pc[v] /\ owed'[v] = owed[v]
      /\ \A t \in Table :
            db[t] # << >> => \E j \in DOMAIN owed'[w] : owed'[w][j].table = t
      /\ Host[w] \in Writer /\ phase[Host[w]] = "booting"
  BY SeedOwes
<1>2. Seeding(w)' /\ Pending(w)' = DOMAIN owed'[w]
  BY SeedEntries
<1>3. w \in Attesting'
  BY <1>1 DEF Attesting
<1>4. \A v \in Worker \ {w} : pc'[v] \notin Writing
  <2> SUFFICES ASSUME NEW v \in Worker \ {w}, pc[v] \in Writing PROVE FALSE
    BY <1>1
  <2>1. Host[v] \in Writer /\ phase[Host[v]] \in {"booting", "serving"}
    BY Shapely DEF LockInv, Writing
  <2>2. Host[v] = Host[w]
    BY <1>1, <2>1, Shapely, OneOpenWriter
  <2>3. pc[v] = "idle"
    BY <2>2 DEF Seed, OnlyMain, Workers
  <2>. QED  BY <2>3 DEF Writing
<1>5. Attesting' = {w} /\ Uncommitted' = {}
  BY <1>1, <1>3, <1>4 DEF Attesting, Uncommitted, Writing
<1>6. OwesTheRest'
  <2>1. ASSUME NEW t \in Table, NEW n \in (AttCount(manifest, t) + 1) .. Len(db[t])
        PROVE  \E j \in DOMAIN owed'[w] : owed'[w][j].table = t
    <3>1. AttCount(manifest, t) \in Nat /\ Len(db[t]) \in Nat
      BY CountsAreNumbers, RowsOf
    <3>2. Len(db[t]) > 0
      BY <3>1
    <3>3. db[t] # << >>
      BY <3>2, EmptySeq
    <3>. QED  BY <1>1, <3>3
  <2>. QED  BY <1>1, <1>2, <1>5, <2>1 DEF OwesTheRest
<1>7. AttestsCommittedRows'
  BY <1>1 DEF FileInv, AttestsCommittedRows
<1>. QED  BY <1>3, <1>5, <1>6, <1>7 DEF AllAttested, OwesInserted, Debts

\* A process gone while it owes lines is a loss; one that owes none has attested
\* all there is.
LEMMA GoneDebtsKept ==
    ASSUME IInv, HandInv, FileInv, TailInv, OwesInserted,
           NEW p \in Proc, Stop(p) \/ Crash(p)
    PROVE  OwesInserted' /\ (Debts => Debts')
<1>1. /\ UNCHANGED <<db, manifest>> /\ Gone(p) /\ Discard(p)
      /\ \A v \in Worker : /\ Host[v] = p => pc'[v] = "idle"
                           /\ Host[v] # p => pc'[v] = pc[v] /\ owed'[v] = owed[v]
                                             /\ Pending(v)' = Pending(v)
                                             /\ Seeding(v)' = Seeding(v)
  BY GoneDebts DEF Stop, Crash
<1>2. OwesTheRest => OwesTheRest'
  BY <1>1, RestKept DEF Attesting
<1>3. OwesInserted'
  BY <1>1, InsertedKept DEF Discard, Uncommitted
<1>4. ASSUME Debts, Attesting' = {}, ~lost'
      PROVE  \A t \in Table : AttCount(manifest, t) = Len(db[t])
  <2>1. ~lost /\ \A w \in Workers(p) : Pending(w) = {}
    <3>1. CASE Crash(p)
      <4>1. lost' = (lost \/ \E w \in Workers(p) : Forgets(w))
        BY <3>1 DEF Crash
      <4>2. ~lost /\ \A w \in Workers(p) : ~Forgets(w)
        BY <1>4, <4>1
      <4>. QED  BY <4>2, ForgetsPending DEF Workers
    <3>2. CASE Stop(p)
      BY <1>4, <3>2 DEF Stop, OnlyMain, Workers, Pending
    <3>. QED  BY <3>1, <3>2
  <2>2. CASE Attesting = {}
    BY <1>4, <2>1, <2>2 DEF AllAttested, Debts
  <2>3. CASE Attesting # {}
    <3>1. PICK w \in Attesting : TRUE
      BY <2>3
    <3>2. Host[w] = p
      BY <1>1, <1>4 DEF Attesting
    <3>3. Pending(w) = {}
      BY <2>1, <3>2 DEF Attesting, Workers
    <3>. QED  BY <1>4, <3>3, PaidUp DEF Debts
  <2>. QED  BY <2>2, <2>3
<1>5. Debts => AllAttested'
  BY <1>1, <1>4 DEF AllAttested
<1>. QED  BY <1>2, <1>3, <1>5 DEF Debts

\* Only a baseline repairs: a store that is whole after another step was whole
\* before it, and no write failed in it.
LEMMA WasWhole ==
    ASSUME Careful, IInv, HandInv, [Next]_vars, Whole', \A w \in Worker : ~Seed(w)
    PROVE  Whole /\ \A w \in Worker : ~WriteFails(w)
<1> USE DEF disk, process, writing, verifying, bounds
<1>1. ASSUME NEW w \in Worker, WriteFails(w) PROVE FALSE
  <2>1. Leave(w) /\ lost' = TRUE
    BY <1>1 DEF WriteFails
  <2>2. \A v \in Worker : Pending(v)' = {}
    BY <1>1, <2>1, WriterLeaves
  <2>. QED  BY <2>1, <2>2 DEF Whole
<1>2. ASSUME lost => lost',
             \A v \in Worker : Seeding(v)' /\ Pending(v)' # {} =>
                                   Seeding(v) /\ Pending(v) # {}
      PROVE  Whole
  BY <1>2 DEF Whole
<1>3. ASSUME NEW p \in Proc, Open(p) \/ TakeLock(p) \/ LockHeld(p) PROVE Whole
  <2>1. UNCHANGED <<lost, pc, owed, done>>
    BY <1>3 DEF Open, TakeLock, LockHeld
  <2>. QED  BY <1>2, <2>1 DEF Seeding, Pending
<1>4. ASSUME NEW p \in Proc, Stop(p) \/ Crash(p) PROVE Whole
  <2>1. Gone(p) /\ (lost => lost')
    <3>1. CASE Stop(p)
      BY <3>1 DEF Stop
    <3>2. CASE Crash(p)
      <4>1. lost' = (lost \/ \E w \in Workers(p) : Forgets(w))
        BY <3>2 DEF Crash
      <4>. QED  BY <3>2, <4>1 DEF Crash
    <3>. QED  BY <1>4, <3>1, <3>2
  <2>2. \A v \in Worker : /\ Pending(v)' = IF Host[v] = p THEN {} ELSE Pending(v)
                          /\ Host[v] # p => Seeding(v)' = Seeding(v)
    BY <2>1, GoneDebts
  <2>. QED  BY <1>2, <2>1, <2>2
<1>5. ASSUME NEW w \in Worker,
             \/ \E sh \in Shapes : Begin(w, sh)
             \/ \E d \in Payload : Insert(w, d)
             \/ ReadHead(w) \/ Rollback(w) \/ Commit(w)
      PROVE  Whole
  <2>1. lost' = lost
    BY <1>5, WriteSteps
  <2>2. \A v \in Worker \ {w} : pc'[v] = pc[v] /\ owed'[v] = owed[v] /\ done'[v] = done[v]
    BY <1>5, Shapely DEF Begin, Insert, ReadHead, Rollback, Leave, Commit
  <2>3. \A v \in Worker \ {w} : Seeding(v)' = Seeding(v) /\ Pending(v)' = Pending(v)
    BY <2>2 DEF Seeding, Pending
  <2>4. ~(Seeding(w)' /\ Pending(w)' # {})
    <3>1. CASE Commit(w)
      <4>1. ~Seeding(w) /\ owed' = owed
        BY <3>1 DEF Commit, HandInv, OwedInv, OwedBy
      <4>. QED  BY <4>1 DEF Seeding
    <3>2. CASE ~Commit(w)
      <4>1. pc'[w] \notin {"attest", "sync"}
        BY <1>5, <3>2, Shapely DEF Begin, Insert, ReadHead, Rollback, Leave
      <4>. QED  BY <4>1 DEF Pending
    <3>. QED  BY <3>1, <3>2
  <2>. QED  BY <1>2, <2>1, <2>3, <2>4
<1>6. ASSUME NEW w \in Worker, WriteLine(w) PROVE Whole
  <2>1. /\ pc[w] = "attest" /\ done[w] + 1 \in DOMAIN owed[w] /\ UNCHANGED <<owed, done>>
        /\ pc'[w] = "sync" /\ \A v \in Worker \ {w} : pc'[v] = pc[v]
    BY <1>6, LineWritten, WriterStays
  <2>2. /\ DOMAIN owed[w] \subseteq Nat /\ done[w] \in Nat
    BY Shapely, LenProperties
  <2>3. done[w] + 1 \in Pending(w)
    BY <2>1, <2>2 DEF Pending
  <2>4. \A v \in Worker : Seeding(v)' = Seeding(v) /\ Pending(v)' \subseteq Pending(v)
    BY <2>1, <2>2, Shapely, LenProperties DEF Seeding, Pending
  <2>5. lost' = (lost /\ ~(Seeding(w) /\ done[w] + 1 = Len(owed[w])))
    BY <1>6 DEF WriteLine
  <2>6. CASE Seeding(w)
    BY <2>3, <2>6 DEF Whole
  <2>7. CASE ~Seeding(w)
    BY <1>2, <2>4, <2>5, <2>7
  <2>. QED  BY <2>6, <2>7
<1>7. ASSUME NEW w \in Worker, SyncLine(w) PROVE Whole
  <2>1. /\ lost' = lost /\ Pending(w)' = Pending(w)
        /\ \A v \in Worker \ {w} : Pending(v)' = {}
        /\ \A j \in Pending(w)' : owed'[w][j] = owed[w][j]
    BY <1>7, LineSynced
  <2>2. ASSUME Seeding(w)', Pending(w)' # {} PROVE Seeding(w)
    <3>1. owed' = owed
      BY <1>7, <2>2, Shapely DEF SyncLine, Leave, Seeding
    <3>. QED  BY <2>2, <3>1 DEF Seeding
  <2>. QED  BY <1>2, <2>1, <2>2
<1>8. ASSUME NEW w \in Worker,
             \/ \E n \in {1, Attempts} : VerifyBegin(w, n)
             \/ VerifyAgain(w) \/ WalkTable(w) \/ CheckManifest(w)
      PROVE  Whole
  <2>1. /\ pc'[w] \notin Writing /\ UNCHANGED <<lost, owed, done>>
        /\ \A v \in Worker \ {w} : pc'[v] = pc[v]
    BY <1>8, VerifierStays
  <2>. QED  BY <1>2, <2>1 DEF Seeding, Pending, Writing
<1>9. ASSUME UNCHANGED vars PROVE Whole
  <2>1. UNCHANGED <<lost, pc, owed, done>>
    BY <1>9 DEF vars
  <2>. QED  BY <1>2, <2>1 DEF Seeding, Pending
<1>10. ~ \E w \in Worker : SyncFails(w)
  BY DEF SyncFails, Careful
<1>. QED  BY <1>1, <1>3, <1>4, <1>5, <1>6, <1>7, <1>8, <1>9, <1>10
          DEF Next, ProcessStep, WriteStep, AttestStep, VerifyStep

\* A writer at work on a transaction has lost nothing if the books balance.
LEMMA WritesWhole ==
    ASSUME IInv, HandInv, Whole, NEW w \in Worker,
           pc[w] \in {"head", "insert", "commit"}
    PROVE  ~lost
<1>1. ASSUME NEW v \in Worker, Pending(v) # {} PROVE FALSE
  <2>1. pc[w] \in Writing /\ pc[v] \in {"attest", "sync"}
    BY <1>1 DEF Writing, Pending
  <2>. QED  BY <2>1, Alone DEF Writing
<1>. QED  BY <1>1 DEF Whole

AccountedInv == LossyInv /\ TailInv /\ WalkInv /\ AccountInv

\* What a step keeps of the accounts.
LEMMA StepDebts ==
    ASSUME Careful, AccountedInv, [Next]_vars
    PROVE  /\ OwesInserted'
           /\ Debts /\ Whole /\ (\A w \in Worker : ~WriteFails(w) /\ ~Seed(w)) => Debts'
<1>0. /\ IInv /\ HandInv /\ FileInv /\ TailInv /\ WalkInv /\ OwnedTxn /\ OwesInserted
  BY DEF AccountedInv, LossyInv, AccountInv, WalkInv
<1> DEFINE Kept == OwesInserted' /\ (Debts => Debts')
<1> USE DEF disk, process, writing, verifying, bounds
<1>1. ASSUME NEW p \in Proc, Open(p) \/ TakeLock(p) \/ LockHeld(p) PROVE Kept
  <2>1. UNCHANGED <<db, view, manifest, lost, pc, owed, done>>
    BY <1>1 DEF Open, TakeLock, LockHeld
  <2>. QED  BY <1>0, <2>1, DebtsKept
<1>2. ASSUME NEW p \in Proc, Stop(p) \/ Crash(p) PROVE Kept
  BY <1>0, <1>2, GoneDebtsKept
<1>3. ASSUME NEW w \in Worker, NEW sh \in Shapes, Begin(w, sh) PROVE Kept
  <2>1. /\ UNCHANGED <<db, view, manifest, lost, owed, done>>
        /\ pc[w] = "idle" /\ pc'[w] = "head" /\ \A v \in Worker \ {w} : pc'[v] = pc[v]
    BY <1>0, <1>3, Shapely DEF Begin
  <2>2. Attesting' = Attesting
    BY <2>1 DEF Attesting
  <2>3. AllAttested => AllAttested'
    BY <1>0, <2>1, <2>2 DEF AllAttested
  <2>4. OwesTheRest => OwesTheRest'
    BY <1>0, <2>1, <2>2, RestKept DEF Pending, Seeding, Attesting
  <2>5. OwesInserted'
    <3>1. view = db
      BY <1>0, <1>3, BeginsClean
    <3>2. \A t \in Table : (Len(db'[t]) + 1) .. Len(view'[t]) = {}
      BY <1>0, <2>1, <3>1, RowsOf
    <3>. QED  BY <3>2 DEF OwesInserted
  <2>. QED  BY <2>3, <2>4, <2>5 DEF Debts
<1>4. ASSUME NEW w \in Worker, NEW d \in Payload, Insert(w, d) PROVE Kept
  <2>1. /\ UNCHANGED <<db, manifest, lost, done>> /\ pc[w] = "insert"
        /\ pc[w] \in Writing
        /\ pc'[w] \in {"head", "commit"} /\ \A v \in Worker \ {w} : pc'[v] = pc[v]
    BY <1>0, <1>4, Shapely DEF Insert, Writing
  <2>2. Attesting = {} /\ Attesting' = {}
    BY <1>0, <2>1, Alone DEF Attesting, Writing
  <2>3. OwesInserted'
    BY <1>0, <1>4, InsertDebts
  <2>. QED  BY <2>1, <2>2, <2>3 DEF AllAttested, OwesTheRest, Debts
<1>5. ASSUME NEW w \in Worker, ReadHead(w) PROVE Kept
  <2>1. /\ UNCHANGED <<db, view, manifest, lost, owed, done>>
        /\ pc[w] = "head" /\ pc'[w] = "insert" /\ \A v \in Worker \ {w} : pc'[v] = pc[v]
    BY <1>0, <1>5, Shapely DEF ReadHead
  <2>. QED  BY <1>0, <2>1, DebtsKept
<1>6. ASSUME NEW w \in Worker, Rollback(w) PROVE Kept
  <2>1. /\ UNCHANGED <<db, manifest, lost>>
        /\ view' = view \/ view' = db
        /\ pc[w] \in {"head", "insert", "commit"} /\ pc'[w] = "idle"
        /\ \A v \in Worker \ {w} : pc'[v] = pc[v] /\ owed'[v] = owed[v] /\ done'[v] = done[v]
    BY <1>0, <1>6, Shapely DEF Rollback, Leave, Discard
  <2>. QED  BY <1>0, <2>1, DebtsKept
<1>7. ASSUME NEW w \in Worker, Commit(w)
      PROVE  OwesInserted' /\ (Debts /\ Whole => Debts')
  <2>1. Whole => ~lost
    BY <1>0, <1>7, WritesWhole DEF Commit
  <2>. QED  BY <1>0, <1>7, <2>1, CommitDebts
<1>8. ASSUME NEW w \in Worker, WriteLine(w) \/ SyncLine(w) PROVE Kept
  BY <1>0, <1>8, LineDebts, SyncDebts
<1>9. ASSUME NEW w \in Worker, WriteFails(w) PROVE OwesInserted'
  <2>1. \A v \in Worker : pc'[v] \notin Writing
    BY <1>0, <1>9, WriterLeaves DEF WriteFails
  <2>. QED  BY <2>1 DEF OwesInserted, Uncommitted, Writing
<1>10. ASSUME NEW w \in Worker, Seed(w) PROVE OwesInserted'
  BY <1>0, <1>10, SeedDebts
<1>11. ASSUME NEW w \in Worker,
             \/ \E n \in {1, Attempts} : VerifyBegin(w, n)
             \/ VerifyAgain(w) \/ WalkTable(w) \/ CheckManifest(w)
      PROVE  Kept
  <2>1. /\ pc[w] \notin Writing /\ pc'[w] \notin Writing
        /\ UNCHANGED <<db, view, manifest, lost, owed, done>>
        /\ \A v \in Worker \ {w} : pc'[v] = pc[v]
    BY <1>0, <1>11, VerifierStays
  <2>. QED  BY <1>0, <2>1, DebtsKept DEF Writing
<1>12. ASSUME UNCHANGED vars PROVE Kept
  <2>1. UNCHANGED <<db, view, manifest, lost, pc, owed, done>>
    BY <1>12 DEF vars
  <2>. QED  BY <1>0, <2>1, DebtsKept
<1>13. ~ \E w \in Worker : SyncFails(w)
  BY DEF SyncFails, Careful
<1> HIDE DEF disk, process, writing, verifying, bounds
<1>. QED  BY <1>1, <1>2, <1>3, <1>4, <1>5, <1>6, <1>7, <1>8, <1>9, <1>10, <1>11,
             <1>12, <1>13
          DEF Next, ProcessStep, WriteStep, AttestStep, VerifyStep

LEMMA AccountStep ==
    ASSUME Careful, AccountedInv, [Next]_vars
    PROVE  AccountInv'
<1>0. IInv /\ HandInv /\ FileInv /\ TailInv
  BY DEF AccountedInv, LossyInv
<1>1. OwesInserted'
  BY StepDebts
<1>2. ASSUME Whole' PROVE Debts' /\ AttestsCommittedRows'
  <2>1. CASE \E w \in Worker : Seed(w)
    BY <1>0, <2>1, SeedDebts
  <2>2. CASE \A w \in Worker : ~Seed(w)
    <3>1. Whole /\ \A w \in Worker : ~WriteFails(w)
      BY <1>0, <1>2, <2>2, WasWhole
    <3>2. Debts /\ OwesTheRest /\ AttestsCommittedRows
      BY <3>1 DEF AccountedInv, AccountInv, Debts
    <3>3. Debts'
      BY <2>2, <3>1, <3>2, StepDebts
    <3>4. AttestsCommittedRows'
      BY <1>0, <3>2, LinesNameRows
    <3>. QED  BY <3>3, <3>4
  <2>. QED  BY <2>1, <2>2
<1>. QED  BY <1>1, <1>2 DEF AccountInv, Debts

LEMMA AccountedStep ==
    ASSUME Careful, RollsBack, AccountedInv, [Next]_vars
    PROVE  AccountedInv'
<1>1. LossyInv'
  BY LossyStep DEF AccountedInv
<1>2. TailInv' /\ WalkInv'
  BY TailStep, WalkStep DEF AccountedInv, LossyInv
<1>. QED  BY <1>1, <1>2, AccountStep DEF AccountedInv

LEMMA InitAccounted == Init => AccountedInv
<1> SUFFICES ASSUME Init PROVE AccountedInv
  OBVIOUS
<1>1. /\ \A p \in Proc : phase[p] = "down"
      /\ txn = NoProc
      /\ \A w \in Worker : pc[w] = "idle"
      /\ manifest = << >> /\ \A t \in Table : db[t] = << >>
  BY DEF Init
<1>2. TailInv
  <2>1. SelfChained(manifest)
    BY <1>1 DEF SelfChained
  <2>. QED  BY <1>1, <2>1, StoreAssumption DEF TailInv
<1>3. WalkInv
  BY <1>1 DEF WalkInv, OwnedTxn, WalkSees, WalkEnds, Walking
<1>4. AccountInv
  <2>1. Attesting = {} /\ Uncommitted = {}
    BY <1>1 DEF Attesting, Uncommitted
  <2>2. AllAttested
    <3>1. \A t \in Table : AttCount(manifest, t) = 0
      BY <1>1 DEF AttCount, About
    <3>. QED  BY <1>1, <3>1 DEF AllAttested
  <2>. QED  BY <1>1, <2>1, <2>2
            DEF AccountInv, AttestsCommittedRows, OwesTheRest, OwesInserted
<1>. QED  BY <1>2, <1>3, <1>4, InitLossy DEF AccountedInv

\* The last line about a table names its last row when all rows are attested.
LEMMA HeadsAgree ==
    ASSUME IInv, AttestsCommittedRows, NEW t \in Table, AttCount(manifest, t) = Len(db[t])
    PROVE  AttHead(manifest, t) = LastHash(db[t])
<1>1. CASE About(manifest, t) = {}
  <2>1. Len(db[t]) = 0
    BY <1>1 DEF AttCount
  <2>2. db[t] = << >>
    BY <2>1, RowsOf, EmptySeq
  <2>. QED  BY <1>1, <2>2 DEF AttHead, LastHash
<1>2. CASE About(manifest, t) # {}
  <2> PICK i : i = LastAbout(manifest, t)
    OBVIOUS
  <2>1. i \in DOMAIN manifest /\ manifest[i].says.table = t
    <3>1. PICK k \in About(manifest, t) : \A j \in About(manifest, t) : j <= k
      BY <1>2 DEF IInv, LastInv
    <3>. QED  BY <3>1, Shapely, LastAboutIsLast DEF About
  <2>2. /\ AttCount(manifest, t) = manifest[i].says.count
        /\ AttHead(manifest, t) = manifest[i].says.head
    BY <1>2 DEF AttCount, AttHead
  <2>3. /\ Len(db[t]) \in 1 .. Len(db[t])
        /\ manifest[i].says.head = db[t][Len(db[t])].row_hash
    BY <2>1, <2>2 DEF AttestsCommittedRows
  <2>4. db[t] # << >>
    BY <2>3, RowsOf, EmptySeq
  <2>. QED  BY <2>2, <2>3, <2>4 DEF LastHash
<1>. QED  BY <1>1, <1>2

\* Where the file lock comes first, failing writes roll back and fsync does not
\* fail, the two files agree between writes unless a crash or a failing write has
\* cost an attestation: IntactBetweenWrites.
THEOREM FilesAgree ==
    ASSUME Careful, RollsBack PROVE Spec => []IntactBetweenWrites
<1>1. AccountedInv /\ [Next]_vars => AccountedInv'
  BY AccountedStep
<1>2. AccountedInv => IntactBetweenWrites
  <2> SUFFICES ASSUME AccountedInv, Attesting = {}, ~lost PROVE Intact
    BY DEF IntactBetweenWrites
  <2>1. IInv /\ AttestsCommittedRows
    BY DEF AccountedInv, LossyInv, AccountInv, Whole
  <2>2. \A t \in Table : AttCount(manifest, t) = Len(db[t])
    BY DEF AccountedInv, AccountInv, Whole, AllAttested
  <2>3. \A t \in Table : AttHead(manifest, t) = LastHash(db[t])
    BY <2>1, <2>2, HeadsAgree
  <2>4. SelfChained(manifest) /\ \A t \in Table : Chained(db[t])
    BY <2>1 DEF AccountedInv, TailInv, IInv, RowsChained
  <2>. QED  BY <2>2, <2>3, <2>4 DEF Intact
<1>. QED  BY <1>1, <1>2, InitAccounted, PTL DEF Spec

-----------------------------------------------------------------------------
(* Without manifest I/O errors.                                             *)

\* A thread attests a transaction of its own only while its process serves.
LEMMA AttestsStep ==
    ASSUME IInv, HandInv, AttestsWhileServing, [Next]_vars
    PROVE  AttestsWhileServing'
<1> USE DEF disk, process, writing, verifying, bounds
\* No process stops serving under a thread that goes on attesting.
<1>1. ASSUME \A v \in Worker :
                pc'[v] \in {"attest", "sync"} /\ ~Seeding(v)' =>
                    /\ pc[v] \in {"attest", "sync"} /\ ~Seeding(v)
                    /\ phase[Host[v]] = "serving" => phase'[Host[v]] = "serving"
      PROVE  AttestsWhileServing'
  BY <1>1 DEF AttestsWhileServing, Attesting
<1>2. ASSUME NEW p \in Proc, Open(p) \/ TakeLock(p) \/ LockHeld(p)
      PROVE  AttestsWhileServing'
  <2>1. /\ UNCHANGED <<pc, owed>> /\ phase[p] # "serving"
        /\ \A q \in Proc \ {p} : phase'[q] = phase[q]
    BY <1>2, Shapely DEF Open, Down, TakeLock, LockHeld
  <2>. QED  BY <1>1, <2>1, Shapely DEF Seeding
<1>3. ASSUME NEW p \in Proc, Stop(p) \/ Crash(p) PROVE AttestsWhileServing'
  <2>1. Gone(p) /\ \A q \in Proc \ {p} : phase'[q] = phase[q]
    BY <1>3, Shapely DEF Stop, Crash
  <2>2. \A v \in Worker : /\ Host[v] # p => pc'[v] = pc[v] /\ Seeding(v)' = Seeding(v)
                          /\ Host[v] = p => pc'[v] = "idle"
    BY <2>1, GoneDebts
  <2>. QED  BY <1>1, <2>1, <2>2, Shapely
<1>4. ASSUME NEW w \in Worker,
             \/ \E sh \in Shapes : Begin(w, sh)
             \/ \E d \in Payload : Insert(w, d)
             \/ ReadHead(w) \/ Rollback(w)
      PROVE  AttestsWhileServing'
  <2>1. /\ phase' = phase /\ pc'[w] \notin {"attest", "sync"}
        /\ \A v \in Worker \ {w} : pc'[v] = pc[v] /\ owed'[v] = owed[v]
    BY <1>4, Shapely DEF Begin, Insert, ReadHead, Rollback, Leave
  <2>. QED  BY <1>1, <2>1 DEF Seeding
<1>5. ASSUME NEW w \in Worker, Commit(w) PROVE AttestsWhileServing'
  <2>1. /\ UNCHANGED <<phase, owed>> /\ pc[w] = "commit"
        /\ \A v \in Worker \ {w} : pc'[v] = pc[v]
    BY <1>5, Shapely DEF Commit
  <2>2. phase[Host[w]] = "serving"
    BY <2>1, Shapely DEF TxnInv
  <2>. QED  BY <2>1, <2>2 DEF AttestsWhileServing, Attesting, Seeding
<1>6. ASSUME NEW w \in Worker,
             WriteLine(w) \/ WriteFails(w) \/ SyncLine(w) \/ SyncFails(w)
      PROVE  AttestsWhileServing'
  <2>1. /\ phase' = phase /\ pc[w] \in {"attest", "sync"}
        /\ \A v \in Worker \ {w} : pc'[v] = pc[v] /\ owed'[v] = owed[v]
    BY <1>6, WriterStays
  <2>2. pc'[w] = "idle" \/ owed'[w] = owed[w]
    BY <1>6, Shapely DEF WriteLine, WriteFails, SyncLine, SyncFails, Leave
  <2>. QED  BY <1>1, <2>1, <2>2 DEF Seeding
<1>7. ASSUME NEW w \in Worker, Seed(w) PROVE AttestsWhileServing'
  <2>1. /\ phase' = phase /\ Seeding(w)'
        /\ \A v \in Worker \ {w} : pc'[v] = pc[v] /\ owed'[v] = owed[v]
    BY <1>7, SeedOwes, SeedEntries
  <2>. QED  BY <1>1, <2>1 DEF Seeding
<1>8. ASSUME NEW w \in Worker,
             \/ \E n \in {1, Attempts} : VerifyBegin(w, n)
             \/ VerifyAgain(w) \/ WalkTable(w) \/ CheckManifest(w)
      PROVE  AttestsWhileServing'
  <2>1. /\ pc'[w] \notin Writing /\ owed' = owed
        /\ \A v \in Worker \ {w} : pc'[v] = pc[v]
    BY <1>8, VerifierStays
  <2>2. \A q \in Proc : phase[q] = "serving" => phase'[q] = "serving"
    BY <1>8, VerifyPhases
  <2>. QED  BY <1>1, <2>1, <2>2, Shapely DEF Seeding, Writing
<1>9. ASSUME UNCHANGED vars PROVE AttestsWhileServing'
  <2>1. UNCHANGED <<phase, pc, owed>>
    BY <1>9 DEF vars
  <2>. QED  BY <1>1, <2>1 DEF Seeding
<1>. QED  BY <1>2, <1>3, <1>4, <1>5, <1>6, <1>7, <1>8, <1>9
          DEF Next, ProcessStep, WriteStep, AttestStep, VerifyStep

ReliableInv == AccountedInv /\ ServiceInv

LEMMA ReliableStep ==
    ASSUME Reliable, ReliableInv, [Next]_vars
    PROVE  ReliableInv'
<1>0. /\ IInv /\ HandInv /\ FileInv /\ TailInv /\ WalkInv /\ LossyInv /\ AccountedInv
      /\ ServesWhole /\ AttestsWhileServing /\ AttestsCommittedRows
  BY DEF ReliableInv, AccountedInv, LossyInv, ServiceInv
<1>1. AccountedInv' /\ ServesWhole' /\ AttestsWhileServing'
  <2>1. AccountedInv'
    BY <1>0, AccountedStep DEF Reliable
  <2>2. ServesWhole'
    BY <1>0, ServesStep
  <2>3. AttestsWhileServing'
    BY <1>0, AttestsStep
  <2>. QED  BY <2>1, <2>2, <2>3
<1>2. ASSUME NEW w \in Worker, WriteLine(w) PROVE OwesTheRest
  <2>1. w \in Attesting /\ pc[w] \in Writing /\ done[w] + 1 \in DOMAIN owed[w]
    BY <1>0, <1>2, LineWritten DEF Attesting, Writing
  <2>2. Whole
    <3>1. CASE Seeding(w)
      <4>1. done[w] + 1 \in Pending(w)
        <5>1. pc[w] = "attest" /\ done[w] \in Nat
          BY <1>0, <1>2, Shapely, LineWritten
        <5>. QED  BY <2>1, <5>1 DEF Pending
      <4>. QED  BY <3>1, <4>1 DEF Whole
    <3>2. CASE ~Seeding(w)
      <4>1. phase[Host[w]] = "serving" /\ Host[w] \in Writer
        BY <1>0, <2>1, <3>2, Shapely DEF AttestsWhileServing, LockInv
      <4>. QED  BY <1>0, <4>1 DEF ServesWhole, Whole
    <3>. QED  BY <3>1, <3>2
  <2>. QED  BY <1>0, <2>2 DEF AccountedInv, AccountInv
<1>3. AttestsCommittedRows'
  BY <1>0, <1>2, LinesNameRows
<1>. QED  BY <1>1, <1>3 DEF ReliableInv, ServiceInv

LEMMA InitReliable == Init => ReliableInv
<1> SUFFICES ASSUME Init PROVE ServiceInv
  BY InitAccounted DEF ReliableInv
<1>1. /\ \A w \in Worker : pc[w] = "idle"
      /\ lost = FALSE /\ manifest = << >>
  BY DEF Init
<1>. QED  BY <1>1 DEF ServiceInv, ServesWhole, AttestsWhileServing, Attesting,
                      AttestsCommittedRows

\* Where failing writes roll back and no manifest I/O fails, a manifest line is
\* about a committed row, counted right: AttestsCommittedRows.
THEOREM ManifestFollowsRows ==
    ASSUME Reliable PROVE Spec => []AttestsCommittedRows
<1>1. ReliableInv /\ [Next]_vars => ReliableInv'
  BY ReliableStep
<1>2. ReliableInv => AttestsCommittedRows
  BY DEF ReliableInv, ServiceInv
<1>. QED  BY <1>1, <1>2, InitReliable, PTL DEF Spec

-----------------------------------------------------------------------------
(* All of it at once.                                                       *)

\* The inductive invariant of the rows, the locks and the manifest holds, each part in
\* the deployments it is stated for, whatever they are: StoreInv.
THEOREM StoreInvHolds == Spec => []StoreInv
<1>1. Init => IInv /\ ManifestInv
  <2> SUFFICES ASSUME Init PROVE IInv /\ ManifestInv
    OBVIOUS
  <2>. QED  BY InitReliable DEF ReliableInv, AccountedInv, LossyInv, HandInv, ManifestInv
<1>2. IInv /\ ManifestInv /\ [Next]_vars => (IInv /\ ManifestInv)'
  <2> SUFFICES ASSUME IInv, ManifestInv, [Next]_vars PROVE IInv' /\ ManifestInv'
    OBVIOUS
  <2>1. LossyInv /\ IInv /\ HandInv /\ FileInv
    BY DEF ManifestInv, HandInv, LossyInv
  <2>2. IInv' /\ GrowthInv' /\ OwedInv' /\ FileInv'
    BY <2>1, LossyStep DEF LossyInv, HandInv
  <2>3. Careful => TailInv'
    BY <2>1, TailStep DEF ManifestInv
  <2>4. RollsBack => WalkInv'
    BY <2>1, WalkStep DEF ManifestInv
  <2>5. Careful /\ RollsBack => AccountInv'
    BY <2>1, AccountStep DEF ManifestInv, AccountedInv
  <2>6. Reliable => ServiceInv'
    BY <2>1, ReliableStep DEF ManifestInv, ReliableInv, AccountedInv, Reliable
  <2>. QED  BY <2>2, <2>3, <2>4, <2>5, <2>6 DEF ManifestInv
<1>. QED  BY <1>1, <1>2, PTL DEF Spec, StoreInv

-----------------------------------------------------------------------------
(* The store implements the attested log.                                   *)

\* What the rows of a table say: one payload a row.
LEMMA SaidRows ==
    ASSUME NEW rows \in Seq(Row)
    PROVE  /\ Said(rows) \in Seq(Payload) /\ Len(Said(rows)) = Len(rows)
           /\ \A i \in DOMAIN rows : Said(rows)[i] = rows[i].payload
<1>1. Len(rows) \in Nat /\ DOMAIN rows = 1 .. Len(rows)
  BY LenProperties
<1>2. \A i \in DOMAIN rows : rows[i].payload \in Payload
  <2> TAKE i \in DOMAIN rows
  <2>1. rows[i] \in Row
    OBVIOUS
  <2>. QED  BY <2>1 DEF Row
<1>3. Said(rows) = [i \in 1 .. Len(rows) |-> rows[i].payload]
  BY <1>1 DEF Said
<1>4. Said(rows) \in Seq(Payload)
  BY <1>1, <1>2, <1>3
<1>5. Len(Said(rows)) = Len(rows)
  BY <1>1, <1>3, <1>4, LenProperties
<1>. QED  BY <1>1, <1>3, <1>4, <1>5

LEMMA InitLogs == Init => Log!Init
<1> SUFFICES ASSUME Init PROVE Log!Init
  OBVIOUS
<1>1. \A t \in Table : db[t] = << >> /\ AttCount(manifest, t) = 0
  BY DEF Init, AttCount, About
<1>2. Said(<< >>) = << >>
  <2>1. Said(<< >>) \in Seq(Payload) /\ Len(Said(<< >>)) = 0
    BY EmptyTypes, SaidRows
  <2>. QED  BY <2>1, EmptySeq
<1>. QED  BY <1>1, <1>2 DEF Log!Init

\* A commit finds every table anchored and extends some.
LEMMA CommitLogs ==
    ASSUME ReliableInv, NEW w \in Worker, Commit(w)
    PROVE  Log!Commit
<1>0. IInv /\ HandInv /\ GrowthInv
  BY DEF ReliableInv, AccountedInv, LossyInv, HandInv
<1>1. /\ pc[w] = "commit" /\ pc[w] \in Writing /\ db' = view /\ manifest' = manifest
  BY DEF Commit, Writing
<1>2. Attesting = {}
  BY <1>0, <1>1, Alone DEF Attesting, Writing
<1>3. ~lost
  <2>1. Host[w] \in Writer /\ phase[Host[w]] = "serving"
    BY <1>0, <1>1, Shapely DEF LockInv, TxnInv, Writing
  <2>. QED  BY <2>1 DEF ReliableInv, ServiceInv, ServesWhole
<1>4. ASSUME NEW t \in Table
      PROVE  /\ AttCount(manifest, t) = Len(Said(db[t]))
             /\ Said(db'[t]) \in Seq(Payload)
             /\ Log!Extends(Said(db'[t]), Said(db[t]))
  <2>1. AttCount(manifest, t) = Len(db[t])
    BY <1>2, <1>3 DEF ReliableInv, AccountedInv, AccountInv, Whole, AllAttested
  <2>2. /\ db[t] \in Seq(Row) /\ view[t] \in Seq(Row)
        /\ Len(db[t]) \in Nat /\ Len(view[t]) \in Nat
        /\ DOMAIN db[t] = 1 .. Len(db[t]) /\ DOMAIN view[t] = 1 .. Len(view[t])
        /\ Len(db[t]) <= Len(view[t]) /\ \A i \in DOMAIN db[t] : view[t][i] = db[t][i]
    BY <1>0, RowsOf DEF GrowthInv
  <2>3. /\ Said(db[t]) \in Seq(Payload) /\ Len(Said(db[t])) = Len(db[t])
        /\ \A i \in DOMAIN db[t] : Said(db[t])[i] = db[t][i].payload
        /\ Said(view[t]) \in Seq(Payload) /\ Len(Said(view[t])) = Len(view[t])
        /\ \A i \in DOMAIN view[t] : Said(view[t])[i] = view[t][i].payload
    BY <2>2, SaidRows
  <2>4. DOMAIN Said(db[t]) = 1 .. Len(db[t])
    BY <2>3, LenProperties
  <2>5. Log!Extends(Said(view[t]), Said(db[t]))
    BY <2>2, <2>3, <2>4 DEF Log!Extends
  <2>. QED  BY <1>1, <2>1, <2>3, <2>5
<1>. QED  BY <1>1, <1>4 DEF Log!Commit, Log!Anchored

\* A line moves the anchor of its table.
LEMMA LineLogs ==
    ASSUME ReliableInv, NEW w \in Worker, WriteLine(w)
    PROVE  \E t \in Table : Log!Anchor(t)
<1> PICK o, c : o = NextOwed(w) /\ c = NextCount(w)
  OBVIOUS
<1>0. IInv /\ HandInv /\ FileInv /\ TailInv
  BY DEF ReliableInv, AccountedInv, LossyInv
<1>1. /\ db' = db
      /\ \A t \in Table :
            AttCount(manifest', t) = IF o.table = t THEN c ELSE AttCount(manifest, t)
  <2>1. db' = db
    BY <1>0, LineWritten
  <2>. QED  BY <1>0, <2>1, LineCounts
<1>2. cachedHead[Host[w]] = TailHash(manifest) /\ SelfChained(manifest)
  BY <1>0, WriterKnows, LineWritten
<1>3. /\ o.table \in Table /\ c \in Nat /\ RowNo(o) \in 1 .. Len(db[o.table])
      /\ AttCount(manifest, o.table) < c /\ c <= RowNo(o)
  BY <1>0, <1>2, NextLine
<1>4. Len(Said(db[o.table])) = Len(db[o.table]) /\ Len(db[o.table]) \in Nat
      /\ AttCount(manifest, o.table) \in Nat
  BY <1>0, <1>3, RowsOf, SaidRows, CountsAreNumbers
<1>5. c \in (AttCount(manifest, o.table) + 1) .. Len(Said(db[o.table]))
  BY <1>3, <1>4
<1>6. [t \in Table |-> AttCount(manifest', t)]
        = [[t \in Table |-> AttCount(manifest, t)] EXCEPT ![o.table] = c]
  BY <1>1, <1>3
<1>7. Log!Anchor(o.table)
  BY <1>1, <1>3, <1>5, <1>6 DEF Log!Anchor
<1>. QED  BY <1>3, <1>7

\* Where failing writes roll back and no manifest I/O fails, crashes and hand-overs
\* included, every step of the store is a step of the attested log or a stutter.
THEOREM StoreIsAnAttestedLog ==
    ASSUME Reliable PROVE Spec => ImplementsAttestedLog
<1>1. ReliableInv /\ [Next]_vars => ReliableInv'
  BY ReliableStep
<1>2. ReliableInv /\ [Next]_vars => [Log!Next]_(Log!lvars)
  <2> SUFFICES ASSUME ReliableInv, [Next]_vars PROVE [Log!Next]_(Log!lvars)
    OBVIOUS
  <2>1. CASE \E w \in Worker : Commit(w)
    BY <2>1, CommitLogs DEF Log!Next
  <2>2. CASE \E w \in Worker : WriteLine(w)
    BY <2>2, LineLogs DEF Log!Next
  <2>3. CASE \A w \in Worker : ~Commit(w) /\ ~WriteLine(w)
    <3>1. UNCHANGED <<db, manifest>>
      BY <2>3, FilesChange DEF ReliableInv, AccountedInv, LossyInv
    <3>. QED  BY <3>1 DEF Log!lvars
  <2>. QED  BY <2>1, <2>2, <2>3
<1>. QED  BY <1>1, <1>2, InitReliable, InitLogs, PTL
          DEF Spec, ImplementsAttestedLog, Log!Spec
=============================================================================
