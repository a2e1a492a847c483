------------------------ MODULE AttestedStore_proofs ------------------------
(***************************************************************************)
(* Proofs that the rows of an attested store never fork, whatever crashes, *)
(* I/O errors and interleavings of threads and processes happen.           *)
(***************************************************************************)
EXTENDS AttestedStoreInductive, SequenceTheorems, TLAPS

-----------------------------------------------------------------------------
(* Facts about the data.                                                    *)

\* The last line about a table is one of the lines, and none is later.
LEMMA LastAboutIsLast ==
    ASSUME NEW lines \in Seq(Line), NEW t \in Table,
           NEW i \in About(lines, t), \A j \in About(lines, t) : j <= i
    PROVE  /\ LastAbout(lines, t) \in About(lines, t)
           /\ \A j \in About(lines, t) : j <= LastAbout(lines, t)
BY DEF LastAbout

\* Attested heads and counts have their types.
LEMMA AttTypes ==
    ASSUME NEW t \in Table, manifest \in Seq(Line), LastInv
    PROVE  AttHead(manifest, t) \in Hash /\ AttCount(manifest, t) \in Nat
<1>1. CASE About(manifest, t) = {}
  BY <1>1 DEF AttHead, AttCount, Hash, GENESIS
<1>2. CASE About(manifest, t) # {}
  <2>1. PICK i \in About(manifest, t) : \A j \in About(manifest, t) : j <= i
    BY <1>2 DEF LastInv
  <2>2. LastAbout(manifest, t) \in About(manifest, t)
    BY <2>1, LastAboutIsLast
  <2>3. manifest[LastAbout(manifest, t)] \in Line
    BY <2>2 DEF About
  <2>4. manifest[LastAbout(manifest, t)].says \in Attestation
    BY <2>3 DEF Line
  <2>. QED  BY <1>2, <2>4 DEF AttHead, AttCount, Attestation
<1>. QED  BY <1>1, <1>2

\* The last hash of a chain of rows is a hash.
LEMMA LastHashType ==
    ASSUME NEW rows \in Seq(Row)
    PROVE  LastHash(rows) \in Hash
<1>1. CASE rows = << >>
  BY <1>1 DEF LastHash, Hash, GENESIS
<1>2. CASE rows # << >>
  <2>1. rows[Len(rows)] \in Row
    BY <1>2
  <2>. QED  BY <1>2, <2>1 DEF LastHash, Row
<1>. QED  BY <1>1, <1>2

\* A row hashed onto the last hash of a chain extends the chain.
LEMMA ChainedAppend ==
    ASSUME NEW rows \in Seq(Row), Chained(rows), NEW d \in Payload
    PROVE  Chained(Append(rows, [payload |-> d, prev_hash |-> LastHash(rows),
                                 row_hash |-> row_hash(LastHash(rows), d)]))
BY DEF Chained, LastHash, Row, GENESIS

LEMMA TailHashType ==
    ASSUME manifest \in Seq(Line)
    PROVE  TailHash(manifest) \in ManifestHash
<1>1. CASE manifest = << >>
  BY <1>1 DEF TailHash, ManifestHash, GENESIS
<1>2. CASE manifest # << >>
  <2>1. manifest[Len(manifest)] \in Line
    BY <1>2
  <2>. QED  BY <1>2, <2>1 DEF TailHash, Line
<1>. QED  BY <1>1, <1>2


-----------------------------------------------------------------------------
(* Types.                                                                   *)

\* The empty sequence has every sequence type of the state.
LEMMA EmptyTypes ==
    /\ << >> \in Seq(Row) /\ << >> \in Seq(Line) /\ << >> \in Seq(Table)
    /\ << >> \in Seq(Owed) /\ << >> \in Seq([head : Hash, count : Nat])
    /\ GENESIS \in Hash /\ GENESIS \in ManifestHash
BY DEF GENESIS, Hash, ManifestHash

LEMMA InitTypes == Init => TypeOK /\ SectionInv /\ LastInv
<1> SUFFICES ASSUME Init PROVE TypeOK /\ SectionInv /\ LastInv
  OBVIOUS
<1>1. TypeOK
  BY StoreAssumption, EmptyTypes DEF Init, TypeOK, Phase
<1>2. SectionInv
  BY DEF Init, SectionInv, Writing
<1>3. LastInv
  BY DEF Init, LastInv, About
<1>. QED  BY <1>1, <1>2, <1>3

TypeInv == TypeOK /\ SectionInv /\ LastInv

\* A process that is gone leaves its workers well-typed and out of any section.
LEMMA GoneTypes ==
    ASSUME TypeOK, NEW p \in Proc, Gone(p)
    PROVE  /\ wlock' \in [Proc -> Worker \cup {NoWorker}]
           /\ pc' \in [Worker -> Inside \cup {"idle", "retry"}]
           /\ shape' \in [Worker -> Seq(Table)] /\ prev' \in [Worker -> Hash]
           /\ owed' \in [Worker -> Seq(Owed)] /\ done' \in [Worker -> Nat]
           /\ snap' \in [Worker -> Seq([head : Hash, count : Nat])]
           /\ tries' \in [Worker -> Nat]
           /\ verdict' \in [Worker -> {"none", "ok", "mismatch"}]
BY EmptyTypes DEF Gone, TypeOK

LEMMA DiscardTypes ==
    ASSUME TypeOK, NEW p \in Proc, Discard(p)
    PROVE  view' \in [Table -> Seq(Row)] /\ txn' \in Proc \cup {NoProc}
BY DEF Discard, TypeOK

LEMMA ProcessStepTypes == TypeInv /\ ProcessStep => TypeInv'
<1> SUFFICES ASSUME TypeInv, NEW p \in Proc,
                    \/ Open(p) \/ TakeLock(p) \/ LockHeld(p) \/ Stop(p) \/ Crash(p)
             PROVE  TypeInv'
  BY DEF ProcessStep
<1> USE StoreAssumption DEF TypeInv, disk, writing, verifying, bounds
<1>1. CASE Open(p)
  <2>1. TailHash(manifest) \in ManifestHash
    BY TailHashType DEF TypeOK
  <2>2. [t \in Table |-> AttCount(manifest, t)] \in [Table -> Nat]
    BY AttTypes DEF TypeOK
  <2>3. TypeOK'
    BY <1>1, <2>1, <2>2 DEF Open, ReadManifest, TypeOK, Phase
  <2>. QED  BY <1>1, <2>3 DEF Open, SectionInv, NextTable, LastInv, About
<1>2. CASE TakeLock(p)
  <2>1. TypeOK'
    BY <1>2 DEF TakeLock, TypeOK, Phase
  <2>. QED  BY <1>2, <2>1 DEF TakeLock, SectionInv, LastInv, About
<1>3. CASE LockHeld(p)
  <2>1. TypeOK'
    BY <1>3 DEF LockHeld, TypeOK, Phase
  <2>. QED  BY <1>3, <2>1 DEF LockHeld, SectionInv, LastInv, About
<1>4. CASE Stop(p)
  <2>1. TypeOK'
    <3>1. view' \in [Table -> Seq(Row)] /\ txn' \in Proc \cup {NoProc}
      BY <1>4, DiscardTypes DEF Stop
    <3>2. phase' \in [Proc -> Phase] /\ flock' \in Proc \cup {NoProc}
      BY <1>4 DEF Stop, Unlocked, TypeOK, Phase
    <3>. QED  BY <1>4, <3>1, <3>2, GoneTypes DEF Stop, TypeOK
  <2>2. SectionInv'
    BY <1>4 DEF Stop, Gone, SectionInv, TypeOK, Writing
  <2>. QED  BY <1>4, <2>1, <2>2 DEF Stop, LastInv, About
<1>5. CASE Crash(p)
  <2>1. view' \in [Table -> Seq(Row)] /\ txn' \in Proc \cup {NoProc}
    BY <1>5, DiscardTypes DEF Crash
  <2>2. phase' \in [Proc -> Phase] /\ flock' \in Proc \cup {NoProc}
    BY <1>5 DEF Crash, Unlocked, TypeOK, Phase
  <2>3. lost' \in BOOLEAN /\ crashes' \in Nat
    BY <1>5 DEF Crash, TypeOK
  <2>4. TypeOK'
    BY <1>5, <2>1, <2>2, <2>3, GoneTypes DEF Crash, TypeOK
  <2>5. SectionInv'
    BY <1>5 DEF Crash, Gone, SectionInv, TypeOK, Writing
  <2>. QED  BY <1>5, <2>4, <2>5 DEF Crash, LastInv, About
<1>. QED  BY <1>1, <1>2, <1>3, <1>4, <1>5

\* Rows seen by a process, and the table of its worker's next row.
LEMMA SeenTypes ==
    ASSUME TypeOK, NEW p \in Proc
    PROVE  Seen(p) \in [Table -> Seq(Row)]
BY DEF Seen, TypeOK

LEMMA NextTableType ==
    ASSUME TypeOK, NEW w \in Worker, Len(owed[w]) < Len(shape[w])
    PROVE  NextTable(w) \in Table
<1>1. shape[w] \in Seq(Table) /\ owed[w] \in Seq(Owed)
  BY DEF TypeOK
<1>2. Len(owed[w]) + 1 \in 1..Len(shape[w])
  BY <1>1
<1>. QED  BY <1>1, <1>2, ElementOfSeq DEF NextTable

\* Leaving a lock block resets what the write had collected.
LEMMA LeaveTypes ==
    ASSUME TypeOK, NEW w \in Worker, Leave(w)
    PROVE  /\ wlock' \in [Proc -> Worker \cup {NoWorker}]
           /\ pc' \in [Worker -> Inside \cup {"idle", "retry"}]
           /\ shape' \in [Worker -> Seq(Table)] /\ prev' \in [Worker -> Hash]
           /\ owed' \in [Worker -> Seq(Owed)] /\ done' \in [Worker -> Nat]
BY EmptyTypes DEF Leave, TypeOK

LEMMA WriteStepTypes == TypeInv /\ WriteStep => TypeInv'
<1> SUFFICES ASSUME TypeInv, NEW w \in Worker,
                    \/ \E sh \in Shapes : Begin(w, sh)
                    \/ \E d \in Payload : Insert(w, d)
                    \/ ReadHead(w) \/ Rollback(w) \/ Commit(w)
             PROVE  TypeInv'
  BY DEF WriteStep
<1> USE StoreAssumption DEF TypeInv, disk, process, writing, verifying, bounds
<1>0. Host[w] \in Proc
  OBVIOUS
<1>1. ASSUME NEW sh \in Shapes, Begin(w, sh) PROVE TypeInv'
  <2>1. sh \in Seq(Table) /\ sh # << >>
    OBVIOUS
  <2>2. TypeOK'
    BY <1>1, <2>1 DEF Begin, Acquire, TypeOK, Inside, Writing
  <2>3. owed[w] = << >> /\ Len(owed[w]) < Len(sh)
    BY <1>1, <2>1 DEF Begin, SectionInv, Writing
  <2>4. shape'[w] = sh /\ pc'[w] = "head"
        /\ \A v \in Worker \ {w} : shape'[v] = shape[v] /\ pc'[v] = pc[v]
    BY <1>1 DEF Begin, TypeOK
  <2>5. SectionInv'
    BY <1>1, <2>3, <2>4 DEF Begin, SectionInv, Writing
  <2>. QED  BY <1>1, <2>2, <2>5 DEF Begin, LastInv, About
<1>2. ASSUME NEW d \in Payload, Insert(w, d) PROVE TypeInv'
  <2>1. Len(owed[w]) < Len(shape[w])
    BY <1>2 DEF Insert, SectionInv
  <2>2. NextTable(w) \in Table
    BY <2>1, NextTableType
  <2>3. prev[w] \in Hash /\ row_hash(prev[w], d) \in Hash
    BY DEF TypeOK, row_hash, Hash
  <2>4. [payload |-> d, prev_hash |-> prev[w], row_hash |-> row_hash(prev[w], d)]
            \in Row
    BY <2>3 DEF Row
  <2>5. [table |-> NextTable(w), head |-> row_hash(prev[w], d), count |-> 0] \in Owed
    BY <2>2, <2>3 DEF Owed
  <2>6. view' \in [Table -> Seq(Row)]
    BY <1>2, <2>2, <2>4 DEF Insert, TypeOK
  <2>7. owed' \in [Worker -> Seq(Owed)]
    BY <1>2, <2>5 DEF Insert, TypeOK
  <2>8. txn' \in Proc \cup {NoProc}
        /\ pc' \in [Worker -> Inside \cup {"idle", "retry"}]
    BY <1>2 DEF Insert, TypeOK, Inside, Writing
  <2>9. TypeOK'
    BY <1>2, <2>6, <2>7, <2>8 DEF Insert, TypeOK
  <2>10. Len(owed'[w]) = Len(owed[w]) + 1 /\ \A v \in Worker \ {w} : owed'[v] = owed[v]
    BY <1>2, <2>5 DEF Insert, TypeOK
  <2>11. pc'[w] = (IF Len(owed[w]) + 1 = Len(shape[w]) THEN "commit" ELSE "head")
         /\ \A v \in Worker \ {w} : pc'[v] = pc[v]
    BY <1>2 DEF Insert, TypeOK
  <2>12. Len(owed[w]) \in Nat /\ Len(shape[w]) \in Nat
    <3>1. owed[w] \in Seq(Owed) /\ shape[w] \in Seq(Table)
      BY DEF TypeOK
    <3>. QED  BY <3>1, LenProperties
  <2>13. SectionInv'
    <3>1. \A v \in Worker : pc'[v] \notin Writing => owed'[v] = << >> /\ done'[v] = 0
      BY <1>2, <2>10, <2>11 DEF Insert, SectionInv, Writing
    <3>2. \A v \in Worker :
              pc'[v] \in {"head", "insert"} => Len(owed'[v]) < Len(shape'[v])
      BY <1>2, <2>1, <2>10, <2>11, <2>12 DEF Insert, SectionInv
    <3>3. \A v \in Worker :
              pc'[v] = "sync" => manifest' # << >> /\ done'[v] < Len(owed'[v])
      BY <1>2, <2>10, <2>11 DEF Insert, SectionInv
    <3>4. \A v \in Worker : pc'[v] = "walk" => Len(snap'[v]) < Len(Tables)
      BY <1>2, <2>11 DEF Insert, SectionInv
    <3>. QED  BY <3>1, <3>2, <3>3, <3>4 DEF SectionInv
  <2>. QED  BY <1>2, <2>9, <2>13 DEF Insert, LastInv, About
<1>3. CASE ReadHead(w)
  <2>1. Len(owed[w]) < Len(shape[w])
    BY <1>3 DEF ReadHead, SectionInv
  <2>2. Seen(Host[w])[NextTable(w)] \in Seq(Row)
    BY <2>1, <1>0, NextTableType, SeenTypes
  <2>3. LastHash(Seen(Host[w])[NextTable(w)]) \in Hash
    BY <2>2, LastHashType
  <2>4. TypeOK'
    BY <1>3, <2>3 DEF ReadHead, TypeOK, Inside, Writing
  <2>5. SectionInv'
    BY <1>3, <2>1 DEF ReadHead, SectionInv, TypeOK, Writing
  <2>. QED  BY <1>3, <2>4, <2>5 DEF ReadHead, LastInv, About
<1>4. CASE Rollback(w)
  <2>1. view' \in [Table -> Seq(Row)] /\ txn' \in Proc \cup {NoProc}
    BY <1>4, <1>0, DiscardTypes DEF Rollback, TypeOK
  <2>2. TypeOK'
    BY <1>4, <2>1, LeaveTypes DEF Rollback, TypeOK
  <2>3. SectionInv'
    BY <1>4 DEF Rollback, Leave, SectionInv, TypeOK, Writing
  <2>. QED  BY <1>4, <2>2, <2>3 DEF Rollback, LastInv, About
<1>5. CASE Commit(w)
  <2>1. TypeOK'
    BY <1>5 DEF Commit, TypeOK, Inside, Writing
  <2>2. SectionInv'
    BY <1>5 DEF Commit, SectionInv, TypeOK, Writing
  <2>. QED  BY <1>5, <2>1, <2>2 DEF Commit, LastInv, About
<1>. QED  BY <1>1, <1>2, <1>3, <1>4, <1>5

LEMMA AttestStepTypes == TypeInv /\ AttestStep => TypeInv'
<1> SUFFICES ASSUME TypeInv, NEW w \in Worker,
                    WriteLine(w) \/ WriteFails(w) \/ SyncLine(w) \/ SyncFails(w)
                    \/ Seed(w)
             PROVE  TypeInv'
  BY DEF AttestStep
<1> USE StoreAssumption DEF TypeInv, disk, process, writing, verifying, bounds
<1>0. Host[w] \in Proc
  OBVIOUS
<1>1. CASE WriteLine(w)
  <2> DEFINE o == owed[w][done[w] + 1]
  <2>1. o \in Owed
    <3>1. owed[w] \in Seq(Owed) /\ done[w] \in Nat
      BY DEF TypeOK
    <3>2. done[w] + 1 \in 1..Len(owed[w])
      BY <1>1, <3>1 DEF WriteLine, Owes
    <3>. QED  BY <3>1, <3>2, ElementOfSeq
  <2>2. NewLine(w) \in Line
    <3>1. o.table \in Table /\ o.head \in Hash /\ o.count \in Nat
      BY <2>1 DEF Owed
    <3>8. cachedCount \in [Proc -> [Table -> Nat]]
      BY DEF TypeOK
    <3> HIDE DEF o
    <3>2. cachedCount[Host[w]][o.table] \in Nat
      BY <1>0, <3>1, <3>8
    <3>6. LineCount(Host[w], o) \in Nat
      BY <3>1, <3>2 DEF LineCount
    <3>7. NewLine(w).says = [table |-> o.table, head |-> o.head,
                             count |-> LineCount(Host[w], o)]
      BY DEF NewLine, o
    <3>3. NewLine(w).says \in Attestation
      BY <3>1, <3>6, <3>7 DEF Attestation
    <3>4. cachedHead[Host[w]] \in ManifestHash
      BY <1>0 DEF TypeOK
    <3>5. row_hash(cachedHead[Host[w]], NewLine(w).says) \in ManifestHash
      BY <3>3, <3>4 DEF row_hash, ManifestHash
    <3>. QED  BY <3>3, <3>4, <3>5 DEF NewLine, Line
  <2>3. manifest' \in Seq(Line) /\ manifest' # << >>
    <3>1. manifest \in Seq(Line) /\ manifest' = Append(manifest, NewLine(w))
      BY <1>1 DEF WriteLine, TypeOK
    <3>. QED  BY <2>2, <3>1, AppendProperties, EmptySeq
  <2>4. TypeOK'
    BY <1>1, <2>3 DEF WriteLine, TypeOK, Inside, Writing
  <2>5. SectionInv'
    BY <1>1, <2>3 DEF WriteLine, Owes, SectionInv, TypeOK, Writing
  <2>6. LastInv'
    <3> SUFFICES ASSUME NEW t \in Table, About(manifest', t) # {}
                 PROVE  \E i \in About(manifest', t) :
                            \A j \in About(manifest', t) : j <= i
      BY DEF LastInv
    <3>1. /\ Len(manifest') = Len(manifest) + 1
          /\ manifest'[Len(manifest) + 1] = NewLine(w)
          /\ \A i \in 1..Len(manifest) : manifest'[i] = manifest[i]
          /\ Len(manifest) \in Nat
          /\ DOMAIN manifest = 1..Len(manifest)
          /\ DOMAIN manifest' = 1..(Len(manifest) + 1)
      BY <1>1, <2>2 DEF WriteLine, TypeOK
    <3>2. CASE NewLine(w).says.table = t
      <4>1. Len(manifest) + 1 \in About(manifest', t)
        BY <3>1, <3>2 DEF About
      <4>2. \A j \in About(manifest', t) : j <= Len(manifest) + 1
        BY <3>1 DEF About
      <4>. QED  BY <4>1, <4>2
    <3>3. CASE NewLine(w).says.table # t
      <4>1. About(manifest', t) = About(manifest, t)
        BY <3>1, <3>3 DEF About
      <4>. QED  BY <4>1 DEF LastInv
    <3>. QED  BY <3>2, <3>3
  <2>. QED  BY <2>4, <2>5, <2>6
<1>2. CASE WriteFails(w)
  <2>1. TypeOK'
    <3>1. Leave(w) /\ faults' \in Nat /\ lost' \in BOOLEAN
      BY <1>2 DEF WriteFails, TypeOK
    <3>. QED  BY <1>2, <3>1, LeaveTypes DEF WriteFails, TypeOK
  <2>2. SectionInv'
    BY <1>2 DEF WriteFails, Leave, SectionInv, TypeOK, Writing
  <2>. QED  BY <1>2, <2>1, <2>2 DEF WriteFails, LastInv, About
<1>3. CASE SyncLine(w)
  <2>1. manifest[Len(manifest)] \in Line
    <3>1. manifest \in Seq(Line) /\ manifest # << >>
      BY <1>3 DEF SyncLine, SectionInv, TypeOK
    <3>2. Len(manifest) \in 1..Len(manifest)
      BY <3>1, EmptySeq
    <3>. QED  BY <3>1, <3>2, ElementOfSeq
  <2>2. /\ manifest[Len(manifest)].manifest_hash \in ManifestHash
        /\ manifest[Len(manifest)].says.table \in Table
        /\ manifest[Len(manifest)].says.count \in Nat
    BY <2>1 DEF Line, Attestation
  <2>3. cachedHead' \in [Proc -> ManifestHash]
    BY <1>3, <2>2 DEF SyncLine, Remember, TypeOK
  <2>4. cachedCount' \in [Proc -> [Table -> Nat]]
    BY <1>3, <2>2 DEF SyncLine, Remember, TypeOK
  <2>5. CASE done[w] + 1 = Len(owed[w])
    <3>1. Leave(w)
      BY <1>3, <2>5 DEF SyncLine
    <3>2. TypeOK'
      BY <1>3, <2>3, <2>4, <3>1, LeaveTypes DEF SyncLine, TypeOK
    <3>3. SectionInv'
      BY <1>3, <3>1 DEF SyncLine, Leave, SectionInv, TypeOK, Writing
    <3>. QED  BY <1>3, <3>2, <3>3 DEF SyncLine, LastInv, About
  <2>6. CASE done[w] + 1 # Len(owed[w])
    <3>1. /\ done' = [done EXCEPT ![w] = @ + 1]
          /\ pc' = [pc EXCEPT ![w] = "attest"]
          /\ UNCHANGED <<wlock, shape, prev, owed>>
      BY <1>3, <2>6 DEF SyncLine
    <3>2. TypeOK'
      <4>1. done' \in [Worker -> Nat]
            /\ pc' \in [Worker -> Inside \cup {"idle", "retry"}]
        BY <3>1 DEF TypeOK, Inside, Writing
      <4>. QED  BY <1>3, <2>3, <2>4, <3>1, <4>1 DEF SyncLine, TypeOK
    <3>3. SectionInv'
      BY <1>3, <3>1 DEF SyncLine, SectionInv, TypeOK, Writing
    <3>. QED  BY <1>3, <3>2, <3>3 DEF SyncLine, LastInv, About
  <2>. QED  BY <2>5, <2>6
<1>4. CASE SyncFails(w)
  <2>1. TypeOK'
    <3>1. Leave(w) /\ faults' \in Nat /\ lost' \in BOOLEAN
      BY <1>4 DEF SyncFails, TypeOK
    <3>. QED  BY <1>4, <3>1, LeaveTypes DEF SyncFails, TypeOK
  <2>2. SectionInv'
    BY <1>4 DEF SyncFails, Leave, SectionInv, TypeOK, Writing
  <2>. QED  BY <1>4, <2>1, <2>2 DEF SyncFails, LastInv, About
<1>5. CASE Seed(w)
  <2> DEFINE p == Host[w]
             Baseline(t) == [table |-> t, head |-> LastHash(Seen(p)[t]),
                             count |-> Len(Seen(p)[t])]
  <2>0. PICK k \in DOMAIN Tables : \E pick \in [1..k -> DOMAIN Tables] :
            owed' = [owed EXCEPT ![w] = [i \in 1..k |-> Baseline(Tables[pick[i]])]]
    BY <1>5, ZenonT(60) DEF Seed
  <2>1. PICK pick \in [1..k -> DOMAIN Tables] :
            owed' = [owed EXCEPT ![w] = [i \in 1..k |-> Baseline(Tables[pick[i]])]]
    BY <2>0
  <2>2. \A t \in Table : Baseline(t) \in Owed
    <3> SUFFICES ASSUME NEW t \in Table PROVE Baseline(t) \in Owed
      OBVIOUS
    <3>1. Seen(p)[t] \in Seq(Row)
      BY <1>0, SeenTypes
    <3>2. LastHash(Seen(p)[t]) \in Hash /\ Len(Seen(p)[t]) \in Nat
      BY <3>1, LastHashType, LenProperties
    <3>. QED  BY <3>2 DEF Owed
  <2>3. [i \in 1..k |-> Baseline(Tables[pick[i]])] \in Seq(Owed)
    <3>1. \A i \in 1..k : Tables[pick[i]] \in Table
      BY DEF Table
    <3>2. k \in Nat
      OBVIOUS
    <3>. HIDE DEF Baseline
    <3>. QED  BY <2>2, <3>1, <3>2
  <2>4. owed' \in [Worker -> Seq(Owed)]
    BY <2>1, <2>3 DEF TypeOK
  <2>5. wlock' \in [Proc -> Worker \cup {NoWorker}]
        /\ pc' \in [Worker -> Inside \cup {"idle", "retry"}]
    BY <1>5 DEF Seed, Acquire, TypeOK, Inside, Writing
  <2>6. TypeOK'
    BY <1>5, <2>4, <2>5 DEF Seed, TypeOK
  <2>7. /\ pc'[w] = "attest" /\ \A v \in Worker \ {w} : pc'[v] = pc[v]
        /\ \A v \in Worker \ {w} : owed'[v] = owed[v]
    BY <1>5, <2>1 DEF Seed, TypeOK
  <2>8. SectionInv'
    <3>1. UNCHANGED <<shape, done, snap, manifest>>
      BY <1>5 DEF Seed
    <3>2. \A v \in Worker : pc'[v] \notin Writing => owed'[v] = << >> /\ done'[v] = 0
      BY <2>7, <3>1 DEF SectionInv, Writing
    <3>3. \A v \in Worker :
              pc'[v] \in {"head", "insert"} => Len(owed'[v]) < Len(shape'[v])
      BY <2>7, <3>1 DEF SectionInv
    <3>4. \A v \in Worker :
              pc'[v] = "sync" => manifest' # << >> /\ done'[v] < Len(owed'[v])
      BY <2>7, <3>1 DEF SectionInv
    <3>5. \A v \in Worker : pc'[v] = "walk" => Len(snap'[v]) < Len(Tables)
      BY <2>7, <3>1 DEF SectionInv
    <3>. QED  BY <3>2, <3>3, <3>4, <3>5 DEF SectionInv
  <2>9. manifest' = manifest
    BY <1>5 DEF Seed
  <2>10. LastInv'
    BY <2>9 DEF LastInv, About
  <2>. QED  BY <2>6, <2>8, <2>10
<1>. QED  BY <1>1, <1>2, <1>3, <1>4, <1>5

LEMMA VerifyStepTypes == TypeInv /\ VerifyStep => TypeInv'
<1> SUFFICES ASSUME TypeInv, NEW w \in Worker,
                    \/ \E n \in {1, Attempts} : VerifyBegin(w, n)
                    \/ VerifyAgain(w) \/ WalkTable(w) \/ CheckManifest(w)
             PROVE  TypeInv'
  BY DEF VerifyStep
<1> USE StoreAssumption DEF TypeInv, disk, process, writing, verifying, bounds
<1>0. Host[w] \in Proc
  OBVIOUS
<1>1. Len(<< >>) < Len(Tables)
  <2>1. Tables \in Seq(STRING) /\ Tables # << >>
    OBVIOUS
  <2>. QED  BY <2>1, EmptySeq
<1>2. ASSUME NEW n \in {1, Attempts}, VerifyBegin(w, n) PROVE TypeInv'
  <2>1. TypeOK'
    <3>1. wlock' \in [Proc -> Worker \cup {NoWorker}]
          /\ pc' \in [Worker -> Inside \cup {"idle", "retry"}]
      BY <1>2 DEF VerifyBegin, Walk, Acquire, TypeOK, Inside, Walking
    <3>2. snap' \in [Worker -> Seq([head : Hash, count : Nat])]
      BY <1>2, EmptyTypes DEF VerifyBegin, Walk, TypeOK
    <3>3. tries' \in [Worker -> Nat]
          /\ verdict' \in [Worker -> {"none", "ok", "mismatch"}]
      BY <1>2 DEF VerifyBegin, TypeOK
    <3>. QED  BY <1>2, <3>1, <3>2, <3>3 DEF VerifyBegin, TypeOK
  <2>2. SectionInv'
    BY <1>2, <1>1 DEF VerifyBegin, Walk, SectionInv, TypeOK, Writing
  <2>. QED  BY <1>2, <2>1, <2>2 DEF VerifyBegin, LastInv, About
<1>3. CASE VerifyAgain(w)
  <2>1. TypeOK'
    BY <1>3, EmptyTypes DEF VerifyAgain, Walk, Acquire, TypeOK, Inside, Walking
  <2>2. SectionInv'
    BY <1>3, <1>1 DEF VerifyAgain, Walk, SectionInv, TypeOK, Writing
  <2>. QED  BY <1>3, <2>1, <2>2 DEF VerifyAgain, LastInv, About
<1>4. ASSUME NEW ok \in BOOLEAN, pc[w] \in Walking, Conclude(w, ok) PROVE TypeInv'
  <2>0. snap' \in [Worker -> Seq([head : Hash, count : Nat])]
    BY <1>4, EmptyTypes DEF Conclude, TypeOK
  <2>1. tries' \in [Worker -> Nat]
    <3>1. tries[w] \in Nat /\ (tries[w] > 1 => tries[w] - 1 \in Nat)
      BY DEF TypeOK
    <3>. QED  BY <1>4, <3>1 DEF Conclude, TypeOK
  <2>2. wlock' \in [Proc -> Worker \cup {NoWorker}]
        /\ pc' \in [Worker -> Inside \cup {"idle", "retry"}]
        /\ verdict' \in [Worker -> {"none", "ok", "mismatch"}]
    BY <1>4 DEF Conclude, TypeOK
  <2>3. phase' \in [Proc -> Phase] /\ flock' \in Proc \cup {NoProc}
    BY <1>4, <1>0 DEF Conclude, BootOutcome, Unlocked, TypeOK, Phase
  <2>4. TypeOK'
    BY <1>4, <2>0, <2>1, <2>2, <2>3 DEF Conclude, TypeOK
  <2>5. SectionInv'
    BY <1>4 DEF Conclude, SectionInv, TypeOK, Writing, Walking
  <2>. QED  BY <1>4, <2>4, <2>5 DEF Conclude, LastInv, About
<1>5. CASE pc[w] = "walk" /\ WalkOn(w, Seen(Host[w])[NextWalk(w)])
  <2> DEFINE rows == Seen(Host[w])[NextWalk(w)]
  <2>1. snap[w] \in Seq([head : Hash, count : Nat]) /\ Len(snap[w]) < Len(Tables)
    BY <1>5 DEF SectionInv, TypeOK
  <2>2. Len(snap[w]) + 1 \in DOMAIN Tables
    BY <2>1
  <2>3. rows \in Seq(Row)
    <3>1. NextWalk(w) \in Table
      BY <2>2 DEF NextWalk, Table
    <3>2. Seen(Host[w]) \in [Table -> Seq(Row)]
      BY <1>0, SeenTypes
    <3>. QED  BY <3>1, <3>2
  <2>4. [head |-> LastHash(rows), count |-> Len(rows)] \in [head : Hash, count : Nat]
    BY <2>3, LastHashType, LenProperties
  <2>5. snap' \in [Worker -> Seq([head : Hash, count : Nat])]
        /\ Len(snap'[w]) = Len(snap[w]) + 1
        /\ \A v \in Worker \ {w} : snap'[v] = snap[v]
    <3> DEFINE seen == [head |-> LastHash(rows), count |-> Len(rows)]
    <3>1. snap' = [snap EXCEPT ![w] = Append(snap[w], seen)]
      BY <1>5 DEF WalkOn
    <3>2. seen \in [head : Hash, count : Nat]
      BY <2>4
    <3>. HIDE DEF seen
    <3>3. /\ Append(snap[w], seen) \in Seq([head : Hash, count : Nat])
          /\ Len(Append(snap[w], seen)) = Len(snap[w]) + 1
      BY <2>1, <3>2, AppendProperties
    <3>. QED  BY <3>1, <3>3 DEF TypeOK
  <2>6. TypeOK'
    BY <1>5, <2>5 DEF WalkOn, TypeOK, Inside, Walking
  <2>7. pc'[w] = (IF Len(snap[w]) + 1 = Len(Tables) THEN "check" ELSE "walk")
        /\ \A v \in Worker \ {w} : pc'[v] = pc[v]
    BY <1>5 DEF WalkOn, TypeOK
  <2>8. SectionInv'
    <3>1. \A v \in Worker : pc'[v] = "walk" => Len(snap'[v]) < Len(Tables)
      <4>1. Len(snap[w]) \in Nat /\ Len(Tables) \in Nat
        BY <2>1, LenProperties
      <4>2. pc'[w] = "walk" => Len(snap'[w]) < Len(Tables)
        BY <2>1, <2>5, <2>7, <4>1
      <4>. QED  BY <2>5, <2>7, <4>2 DEF SectionInv
    <3>. QED  BY <1>5, <2>7, <3>1 DEF WalkOn, SectionInv, Writing
  <2>. QED  BY <1>5, <2>6, <2>8 DEF WalkOn, LastInv, About
<1>6. CASE pc[w] = "walk" /\ Conclude(w, FALSE)
  BY <1>6, <1>4 DEF Walking
<1>7. CASE CheckManifest(w)
  <2>1. check(snap[w]) \in BOOLEAN
    BY DEF check, SelfChained
  <2>. QED  BY <1>7, <2>1, <1>4 DEF CheckManifest, Walking
<1>. QED  BY <1>2, <1>3, <1>5, <1>6, <1>7 DEF WalkTable

LEMMA TypeStep == TypeInv /\ [Next]_vars => TypeInv'
<1>1. TypeInv /\ Next => TypeInv'
  BY ProcessStepTypes, WriteStepTypes, AttestStepTypes, VerifyStepTypes DEF Next
<1>2. TypeInv /\ UNCHANGED vars => TypeInv'
  <2> SUFFICES ASSUME TypeInv, UNCHANGED vars PROVE TypeInv'
    OBVIOUS
  <2> USE DEF TypeInv, vars, disk, process, writing, verifying, bounds
  <2>1. TypeOK'
    BY DEF TypeOK
  <2>2. SectionInv'
    BY DEF SectionInv
  <2>3. LastInv'
    BY DEF LastInv, About
  <2>. QED  BY <2>1, <2>2, <2>3
<1>. QED  BY <1>1, <1>2

-----------------------------------------------------------------------------
(* Locks.                                                                   *)

\* At most one process is open for writing.
LEMMA OneOpenWriter ==
    ASSUME LockInv, NEW p \in Proc, NEW q \in Proc, p \in Writer, q \in Writer,
           phase[p] \in {"booting", "serving"}, phase[q] \in {"booting", "serving"}
    PROVE  p = q
<1>1. CASE LockPolicy = "never"
  BY <1>1, SoleWriterAssumption
<1>2. CASE LockPolicy # "never"
  BY <1>2 DEF LockInv, Locks
<1>. QED  BY <1>1, <1>2

\* At most one worker, over all processes, is inside a write.
LEMMA OneWriter ==
    ASSUME TypeOK, LockInv, NEW v \in Worker, NEW w \in Worker,
           pc[v] \in Writing, pc[w] \in Writing
    PROVE  v = w
<1>1. /\ Host[v] \in Writer /\ Host[w] \in Writer
      /\ phase[Host[v]] \in {"booting", "serving"}
      /\ phase[Host[w]] \in {"booting", "serving"}
      /\ wlock[Host[v]] = v /\ wlock[Host[w]] = w
  BY DEF LockInv, Inside, Writing
<1>2. Host[v] \in Proc /\ Host[w] \in Proc
  BY StoreAssumption
<1>3. Host[v] = Host[w]
  BY <1>1, <1>2, OneOpenWriter
<1>. QED  BY <1>1, <1>3

LEMMA ProcessStepLocks == TypeInv /\ LockInv /\ ProcessStep => LockInv'
<1> SUFFICES ASSUME TypeInv, LockInv, NEW p \in Proc,
                    \/ Open(p) \/ TakeLock(p) \/ LockHeld(p) \/ Stop(p) \/ Crash(p)
             PROVE  LockInv'
  BY DEF ProcessStep
<1> USE StoreAssumption DEF TypeInv, TypeOK, disk, writing, verifying, bounds
<1>1. CASE Open(p)
  <2>1. UNCHANGED <<pc, wlock>> /\ \A w \in Workers(p) : pc[w] = "idle"
    BY <1>1 DEF Open, Down, LockInv, Workers
  <2>2. \A q \in Proc \ {p} : phase'[q] = phase[q]
    BY <1>1 DEF Open
  <2>3. \A w \in Worker : pc'[w] # "idle" => phase'[Host[w]] \in {"booting", "serving"}
    BY <2>1, <2>2 DEF LockInv, Workers
  <2>4. \A q \in Proc : Locks(q) /\ phase'[q] \in {"booting", "serving"} => flock' = q
    BY <1>1, <2>2 DEF Open, LockInv, Locks
  <2>5. \A v, w \in Worker :
            /\ Host[v] = Host[w] /\ phase'[Host[v]] = "booting"
            /\ pc'[v] # "idle" /\ pc'[w] # "idle"
            => v = w
    BY <2>1, <2>2 DEF LockInv, Workers
  <2>. QED  BY <2>1, <2>3, <2>4, <2>5 DEF LockInv, Locks
<1>2. CASE TakeLock(p)
  <2>1. UNCHANGED <<pc, wlock>> /\ \A w \in Workers(p) : pc[w] = "idle"
    BY <1>2 DEF TakeLock, LockInv, Workers
  <2>2. \A q \in Proc \ {p} : phase'[q] = phase[q]
    BY <1>2 DEF TakeLock
  <2>3. \A w \in Worker : pc'[w] # "idle" => phase'[Host[w]] \in {"booting", "serving"}
    BY <2>1, <2>2 DEF LockInv, Workers
  <2>4. \A q \in Proc : Locks(q) /\ phase'[q] \in {"booting", "serving"} => flock' = q
    BY <1>2, <2>2 DEF TakeLock, LockInv, Locks
  <2>5. \A v, w \in Worker :
            /\ Host[v] = Host[w] /\ phase'[Host[v]] = "booting"
            /\ pc'[v] # "idle" /\ pc'[w] # "idle"
            => v = w
    BY <2>1, <2>2 DEF LockInv, Workers
  <2>. QED  BY <2>1, <2>3, <2>4, <2>5 DEF LockInv, Locks
<1>3. CASE LockHeld(p)
  <2>1. UNCHANGED <<pc, wlock, flock>> /\ \A w \in Workers(p) : pc[w] = "idle"
    BY <1>3 DEF LockHeld, LockInv, Workers
  <2>2. phase'[p] = "down" /\ \A q \in Proc \ {p} : phase'[q] = phase[q]
    BY <1>3 DEF LockHeld
  <2>. QED  BY <2>1, <2>2 DEF LockInv, Locks, Workers
<1>4. ASSUME phase' = [phase EXCEPT ![p] = "down"], flock' = Unlocked(p), Gone(p)
      PROVE  LockInv'
  <2>1. phase'[p] = "down" /\ \A q \in Proc \ {p} : phase'[q] = phase[q]
    BY <1>4
  <2>2. wlock'[p] = NoWorker /\ \A q \in Proc \ {p} : wlock'[q] = wlock[q]
    BY <1>4 DEF Gone
  <2>3. \A w \in Worker : pc'[w] = IF Host[w] = p THEN "idle" ELSE pc[w]
    BY <1>4 DEF Gone
  <2>4. \A w \in Worker : pc'[w] \in Inside <=> wlock'[Host[w]] = w
    <3> SUFFICES ASSUME NEW w \in Worker
                 PROVE  pc'[w] \in Inside <=> wlock'[Host[w]] = w
      OBVIOUS
    <3>1. CASE Host[w] = p
      BY <3>1, <2>2, <2>3 DEF Inside, Writing, Walking
    <3>2. CASE Host[w] # p
      BY <3>2, <2>2, <2>3 DEF LockInv
    <3>. QED  BY <3>1, <3>2
  <2>5. \A q \in Proc : wlock'[q] # NoWorker => Host[wlock'[q]] = q
    BY <2>2 DEF LockInv
  <2>6. \A w \in Worker : pc'[w] # "idle" => phase'[Host[w]] \in {"booting", "serving"}
    BY <2>1, <2>3 DEF LockInv
  <2>7. \A w \in Worker : pc'[w] \in Writing => Host[w] \in Writer
    BY <2>3 DEF LockInv, Writing
  <2>8. \A q \in Proc : Locks(q) /\ phase'[q] \in {"booting", "serving"} => flock' = q
    BY <1>4, <2>1 DEF LockInv, Unlocked
  <2>9. \A v, w \in Worker :
            /\ Host[v] = Host[w] /\ phase'[Host[v]] = "booting"
            /\ pc'[v] # "idle" /\ pc'[w] # "idle"
            => v = w
    BY <2>1, <2>3 DEF LockInv
  <2>. QED  BY <2>4, <2>5, <2>6, <2>7, <2>8, <2>9 DEF LockInv, Locks
<1>5. CASE Stop(p)
  BY <1>4, <1>5 DEF Stop
<1>6. CASE Crash(p)
  BY <1>4, <1>6 DEF Crash
<1>. QED  BY <1>1, <1>2, <1>3, <1>5, <1>6

\* A step of worker w that takes, keeps or frees its process's write lock and
\* touches neither the phases nor the file lock.
LEMMA WorkerStepLocks ==
    ASSUME TypeInv, LockInv, NEW w \in Worker,
           \A v \in Worker \ {w} : pc'[v] = pc[v],
           \A q \in Proc \ {Host[w]} : wlock'[q] = wlock[q],
           \/ wlock[Host[w]] = w
           \/ wlock[Host[w]] = NoWorker /\ wlock'[Host[w]] = w,
           \/ pc'[w] \in Inside /\ wlock'[Host[w]] = w
           \/ pc'[w] \notin Inside /\ wlock'[Host[w]] = NoWorker,
           pc'[w] # "idle" => phase[Host[w]] \in {"booting", "serving"},
           pc'[w] \in Writing => Host[w] \in Writer,
           \/ pc[w] # "idle" \/ pc'[w] = "idle"
           \/ phase[Host[w]] = "serving" \/ OnlyMain(Host[w]),
           UNCHANGED <<phase, flock>>
    PROVE  LockInv'
<1> USE StoreAssumption DEF TypeInv, TypeOK
<1>1. \A v \in Worker : Host[v] \in Proc
  OBVIOUS
<1>4. \A v \in Worker \ {w} : Host[v] = Host[w] => wlock[Host[v]] # v
  <2> SUFFICES ASSUME NEW v \in Worker \ {w}, Host[v] = Host[w] PROVE wlock[Host[v]] # v
    OBVIOUS
  <2>. QED  OBVIOUS
<1>5. \A v \in Worker : pc'[v] \in Inside <=> wlock'[Host[v]] = v
  <2> SUFFICES ASSUME NEW v \in Worker
               PROVE  pc'[v] \in Inside <=> wlock'[Host[v]] = v
    OBVIOUS
  <2>1. CASE v = w
    BY <2>1
  <2>2. CASE v # w /\ Host[v] = Host[w]
    BY <2>2, <1>4 DEF LockInv
  <2>3. CASE Host[v] # Host[w]
    <3>1. pc'[v] = pc[v] /\ wlock'[Host[v]] = wlock[Host[v]]
      BY <1>1, <2>3
    <3>. QED  BY <3>1 DEF LockInv
  <2>. QED  BY <2>1, <2>2, <2>3
<1>6. \A q \in Proc : wlock'[q] # NoWorker => Host[wlock'[q]] = q
  <2> SUFFICES ASSUME NEW q \in Proc, wlock'[q] # NoWorker PROVE Host[wlock'[q]] = q
    OBVIOUS
  <2>1. CASE q = Host[w]
    BY <2>1
  <2>2. CASE q # Host[w]
    BY <2>2 DEF LockInv
  <2>. QED  BY <2>1, <2>2
<1>7. \A v \in Worker : pc'[v] # "idle" => phase'[Host[v]] \in {"booting", "serving"}
  BY DEF LockInv
<1>8. \A v \in Worker : pc'[v] \in Writing => Host[v] \in Writer
  BY DEF LockInv
<1>9. \A q \in Proc : Locks(q) /\ phase'[q] \in {"booting", "serving"} => flock' = q
  BY DEF LockInv
<1>10. ASSUME NEW u \in Worker, NEW v \in Worker, Host[u] = Host[v],
              phase'[Host[u]] = "booting", pc'[u] # "idle", pc'[v] # "idle"
       PROVE  u = v
  <2>1. phase[Host[u]] = "booting" /\ phase[Host[v]] = "booting"
    BY <1>10
  <2>2. CASE u # w /\ v # w
    BY <2>1, <2>2, <1>10 DEF LockInv
  <2>3. CASE pc[w] # "idle"
    <3>1. pc[u] # "idle" /\ pc[v] # "idle"
      BY <2>3, <1>10
    <3>. QED  BY <2>1, <3>1, <1>10 DEF LockInv
  <2>4. CASE (u = w \/ v = w) /\ pc[w] = "idle"
    <3>1. OnlyMain(Host[w])
      BY <2>1, <2>4, <1>10
    <3>2. \A x \in Worker \ {w} : Host[x] = Host[w] => pc'[x] = "idle"
      BY <3>1 DEF OnlyMain, Workers
    <3>. QED  BY <2>4, <3>2, <1>10
  <2>. QED  BY <2>2, <2>3, <2>4
<1>. QED  BY <1>5, <1>6, <1>7, <1>8, <1>9, <1>10 DEF LockInv, Locks

LEMMA LeaveLocks ==
    ASSUME TypeInv, LockInv, NEW w \in Worker, pc[w] \in Writing, Leave(w),
           UNCHANGED <<phase, flock>>
    PROVE  LockInv'
<1>1. wlock[Host[w]] = w
  BY DEF LockInv, Inside
<1>2. /\ pc'[w] = "idle" /\ \A v \in Worker \ {w} : pc'[v] = pc[v]
      /\ wlock'[Host[w]] = NoWorker
      /\ \A q \in Proc \ {Host[w]} : wlock'[q] = wlock[q]
  BY StoreAssumption DEF Leave, TypeInv, TypeOK
<1>3. "idle" \notin Inside /\ "idle" \notin Writing
  BY DEF Inside, Writing, Walking
<1>. QED  BY <1>1, <1>2, <1>3, WorkerStepLocks

\* A step from one place inside a section to another.
LEMMA InsideStepLocks ==
    ASSUME TypeInv, LockInv, NEW w \in Worker,
           pc[w] \in Inside, pc'[w] \in Inside,
           pc'[w] \in Writing => pc[w] \in Writing,
           \A v \in Worker \ {w} : pc'[v] = pc[v],
           UNCHANGED <<wlock, phase, flock>>
    PROVE  LockInv'
<1>1. pc[w] # "idle"
  BY DEF Inside, Writing, Walking
<1>2. wlock[Host[w]] = w /\ phase[Host[w]] \in {"booting", "serving"}
  BY <1>1 DEF LockInv
<1>3. pc'[w] \in Writing => Host[w] \in Writer
  BY DEF LockInv
<1>. QED  BY <1>1, <1>2, <1>3, WorkerStepLocks

\* A step that takes the write lock.
LEMMA AcquireLocks ==
    ASSUME TypeInv, LockInv, NEW w \in Worker, Acquire(w),
           pc'[w] \in Inside, \A v \in Worker \ {w} : pc'[v] = pc[v],
           phase[Host[w]] \in {"booting", "serving"},
           pc'[w] \in Writing => Host[w] \in Writer,
           \/ pc[w] # "idle"
           \/ phase[Host[w]] = "serving" \/ OnlyMain(Host[w]),
           UNCHANGED <<phase, flock>>
    PROVE  LockInv'
<1>1. /\ wlock[Host[w]] = NoWorker /\ wlock'[Host[w]] = w
      /\ \A q \in Proc \ {Host[w]} : wlock'[q] = wlock[q]
  BY StoreAssumption DEF Acquire, TypeInv, TypeOK
<1>. QED  BY <1>1, WorkerStepLocks

LEMMA WriteStepLocks == TypeInv /\ LockInv /\ WriteStep => LockInv'
<1> SUFFICES ASSUME TypeInv, LockInv, NEW w \in Worker,
                    \/ \E sh \in Shapes : Begin(w, sh)
                    \/ \E d \in Payload : Insert(w, d)
                    \/ ReadHead(w) \/ Rollback(w) \/ Commit(w)
             PROVE  LockInv'
  BY DEF WriteStep
<1> USE DEF process
<1>0. pc \in [Worker -> Inside \cup {"idle", "retry"}]
  BY DEF TypeInv, TypeOK
<1>1. ASSUME NEW sh \in Shapes, Begin(w, sh) PROVE LockInv'
  <2>1. pc'[w] = "head" /\ \A v \in Worker \ {w} : pc'[v] = pc[v]
    BY <1>0, <1>1 DEF Begin
  <2>2. "head" \in Inside /\ "head" \in Writing
    BY DEF Inside, Writing
  <2>. QED  BY <1>1, <2>1, <2>2, AcquireLocks DEF Begin
<1>2. ASSUME NEW d \in Payload, Insert(w, d) PROVE LockInv'
  <2>1. /\ pc'[w] \in {"commit", "head"} /\ pc[w] = "insert"
        /\ \A v \in Worker \ {w} : pc'[v] = pc[v]
        /\ UNCHANGED <<wlock, phase, flock>>
    BY <1>0, <1>2 DEF Insert
  <2>2. pc'[w] \in Inside /\ pc[w] \in Inside /\ pc[w] \in Writing
    BY <2>1 DEF Inside, Writing
  <2>. QED  BY <2>1, <2>2, InsideStepLocks
<1>3. CASE ReadHead(w)
  <2>1. /\ pc'[w] = "insert" /\ pc[w] = "head"
        /\ \A v \in Worker \ {w} : pc'[v] = pc[v]
        /\ UNCHANGED <<wlock, phase, flock>>
    BY <1>0, <1>3 DEF ReadHead
  <2>2. pc'[w] \in Inside /\ pc[w] \in Writing /\ pc[w] \in Inside
    BY <2>1 DEF Inside, Writing
  <2>. QED  BY <2>1, <2>2, InsideStepLocks
<1>4. CASE Rollback(w)
  <2>1. pc[w] \in Writing
    BY <1>4 DEF Rollback, Writing
  <2>. QED  BY <1>4, <2>1, LeaveLocks DEF Rollback
<1>5. CASE Commit(w)
  <2>1. /\ pc'[w] = "attest" /\ pc[w] = "commit"
        /\ \A v \in Worker \ {w} : pc'[v] = pc[v]
        /\ UNCHANGED <<wlock, phase, flock>>
    BY <1>0, <1>5 DEF Commit
  <2>2. pc'[w] \in Inside /\ pc[w] \in Writing /\ pc[w] \in Inside
    BY <2>1 DEF Inside, Writing
  <2>. QED  BY <2>1, <2>2, InsideStepLocks
<1>. QED  BY <1>1, <1>2, <1>3, <1>4, <1>5

LEMMA AttestStepLocks == TypeInv /\ LockInv /\ AttestStep => LockInv'
<1> SUFFICES ASSUME TypeInv, LockInv, NEW w \in Worker,
                    WriteLine(w) \/ WriteFails(w) \/ SyncLine(w) \/ SyncFails(w)
                    \/ Seed(w)
             PROVE  LockInv'
  BY DEF AttestStep
<1> USE DEF process
<1>0. pc \in [Worker -> Inside \cup {"idle", "retry"}]
  BY DEF TypeInv, TypeOK
<1>a. "attest" \in Inside /\ "sync" \in Inside /\ "attest" \in Writing /\ "sync" \in Writing
  BY DEF Inside, Writing
<1>1. CASE WriteLine(w)
  <2>1. /\ pc'[w] = "sync" /\ pc[w] = "attest"
        /\ \A v \in Worker \ {w} : pc'[v] = pc[v]
        /\ UNCHANGED <<wlock, phase, flock>>
    BY <1>0, <1>1 DEF WriteLine, Owes
  <2>. QED  BY <1>a, <2>1, InsideStepLocks
<1>2. CASE WriteFails(w)
  BY <1>a, <1>2, LeaveLocks DEF WriteFails, Owes
<1>3. CASE SyncLine(w)
  <2>1. CASE done[w] + 1 = Len(owed[w])
    BY <1>a, <1>3, <2>1, LeaveLocks DEF SyncLine
  <2>2. CASE done[w] + 1 # Len(owed[w])
    <3>1. /\ pc'[w] = "attest" /\ pc[w] = "sync"
          /\ \A v \in Worker \ {w} : pc'[v] = pc[v]
          /\ UNCHANGED <<wlock, phase, flock>>
      BY <1>0, <1>3, <2>2 DEF SyncLine
    <3>. QED  BY <1>a, <3>1, InsideStepLocks
  <2>. QED  BY <2>1, <2>2
<1>4. CASE SyncFails(w)
  BY <1>a, <1>4, LeaveLocks DEF SyncFails
<1>5. CASE Seed(w)
  <2>1. pc'[w] = "attest" /\ \A v \in Worker \ {w} : pc'[v] = pc[v]
    BY <1>0, <1>5 DEF Seed
  <2>. QED  BY <1>a, <1>5, <2>1, AcquireLocks DEF Seed
<1>. QED  BY <1>1, <1>2, <1>3, <1>4, <1>5

LEMMA VerifyStepLocks == TypeInv /\ LockInv /\ VerifyStep => LockInv'
<1> SUFFICES ASSUME TypeInv, LockInv, NEW w \in Worker,
                    \/ \E n \in {1, Attempts} : VerifyBegin(w, n)
                    \/ VerifyAgain(w) \/ WalkTable(w) \/ CheckManifest(w)
             PROVE  LockInv'
  BY DEF VerifyStep
<1> USE DEF process
<1>0. pc \in [Worker -> Inside \cup {"idle", "retry"}]
  BY DEF TypeInv, TypeOK
<1>a. /\ "walk" \in Inside /\ "check" \in Inside
      /\ "walk" \notin Writing /\ "check" \notin Writing
      /\ "idle" \notin Inside /\ "retry" \notin Inside
      /\ "idle" \notin Writing /\ "retry" \notin Writing
  BY DEF Inside, Writing, Walking
<1>1. ASSUME NEW n \in {1, Attempts}, VerifyBegin(w, n) PROVE LockInv'
  <2>1. pc'[w] = "walk" /\ \A v \in Worker \ {w} : pc'[v] = pc[v]
    BY <1>0, <1>1 DEF VerifyBegin, Walk
  <2>2. Acquire(w)
    BY <1>1 DEF VerifyBegin, Walk
  <2>3. phase[Host[w]] \in {"booting", "serving"}
        /\ (phase[Host[w]] = "serving" \/ OnlyMain(Host[w]))
    BY <1>1 DEF VerifyBegin
  <2>4. UNCHANGED <<phase, flock>>
    BY <1>1 DEF VerifyBegin
  <2>. QED  BY <1>a, <2>1, <2>2, <2>3, <2>4, AcquireLocks
<1>2. CASE VerifyAgain(w)
  <2>1. phase[Host[w]] \in {"booting", "serving"} /\ pc[w] # "idle"
    BY <1>2 DEF VerifyAgain, LockInv
  <2>2. pc'[w] = "walk" /\ \A v \in Worker \ {w} : pc'[v] = pc[v]
    BY <1>0, <1>2 DEF VerifyAgain, Walk
  <2>. QED  BY <1>a, <1>2, <2>1, <2>2, AcquireLocks DEF VerifyAgain, Walk
<1>3. CASE pc[w] = "walk" /\ WalkOn(w, Seen(Host[w])[NextWalk(w)])
  <2>1. /\ pc'[w] \in {"check", "walk"} /\ pc[w] = "walk"
        /\ \A v \in Worker \ {w} : pc'[v] = pc[v]
        /\ UNCHANGED <<wlock, phase, flock>>
    BY <1>0, <1>3 DEF WalkOn
  <2>. QED  BY <1>a, <2>1, InsideStepLocks
<1>4. ASSUME NEW ok \in BOOLEAN, pc[w] \in Walking, Conclude(w, ok) PROVE LockInv'
  <2> USE StoreAssumption DEF TypeInv, TypeOK
  <2> DEFINE p == Host[w]
             again == ~ok /\ tries[w] > 1
  <2>1. /\ pc'[w] = (IF again THEN "retry" ELSE "idle")
        /\ \A v \in Worker \ {w} : pc'[v] = pc[v]
        /\ wlock'[p] = NoWorker /\ \A q \in Proc \ {p} : wlock'[q] = wlock[q]
        /\ pc'[w] \notin Inside /\ pc'[w] \notin Writing
    BY <1>a, <1>4 DEF Conclude
  <2>2. wlock[p] = w /\ pc[w] # "idle" /\ phase[p] \in {"booting", "serving"}
    BY <1>a, <1>4 DEF LockInv, Inside
  <2>3. CASE ~(phase[p] = "booting" /\ ~again)
    <3>1. UNCHANGED <<phase, flock>>
      BY <1>4, <2>3 DEF Conclude
    <3>. QED  BY <2>1, <2>2, <3>1, WorkerStepLocks
  <2>4. CASE phase[p] = "booting" /\ ~again
    <3>1. /\ phase'[p] = (IF ok THEN "serving" ELSE "refused")
          /\ \A q \in Proc \ {p} : phase'[q] = phase[q]
          /\ flock' = (IF ok THEN flock ELSE Unlocked(p))
      BY <1>4, <2>4 DEF Conclude, BootOutcome
    <3>2. \A v \in Worker : Host[v] = p => pc'[v] = "idle"
      <4> SUFFICES ASSUME NEW v \in Worker, Host[v] = p PROVE pc'[v] = "idle"
        OBVIOUS
      <4>1. CASE v = w
        BY <2>1, <2>4, <4>1
      <4>2. CASE v # w
        BY <2>1, <2>2, <2>4, <4>2 DEF LockInv
      <4>. QED  BY <4>1, <4>2
    <3>3. \A v \in Worker : pc'[v] \in Inside <=> wlock'[Host[v]] = v
      <4> SUFFICES ASSUME NEW v \in Worker
                   PROVE  pc'[v] \in Inside <=> wlock'[Host[v]] = v
        OBVIOUS
      <4>1. CASE Host[v] = p
        BY <1>a, <2>1, <3>2, <4>1
      <4>2. CASE Host[v] # p
        <5>1. Host[v] \in Proc \ {p} /\ v # w
          BY <4>2
        <5>. QED  BY <2>1, <5>1 DEF LockInv
      <4>. QED  BY <4>1, <4>2
    <3>4. \A q \in Proc : wlock'[q] # NoWorker => Host[wlock'[q]] = q
      BY <2>1 DEF LockInv
    <3>5. \A v \in Worker : pc'[v] # "idle" => phase'[Host[v]] \in {"booting", "serving"}
      <4> SUFFICES ASSUME NEW v \in Worker, pc'[v] # "idle"
                   PROVE  phase'[Host[v]] \in {"booting", "serving"}
        OBVIOUS
      <4>1. Host[v] # p /\ v # w
        BY <3>2
      <4>. QED  BY <2>1, <3>1, <4>1 DEF LockInv
    <3>6. \A v \in Worker : pc'[v] \in Writing => Host[v] \in Writer
      BY <2>1 DEF LockInv
    <3>7. \A q \in Proc : Locks(q) /\ phase'[q] \in {"booting", "serving"} => flock' = q
      BY <2>2, <3>1 DEF LockInv, Unlocked
    <3>8. \A u, v \in Worker :
              /\ Host[u] = Host[v] /\ phase'[Host[u]] = "booting"
              /\ pc'[u] # "idle" /\ pc'[v] # "idle"
              => u = v
      <4> SUFFICES ASSUME NEW u \in Worker, NEW v \in Worker, Host[u] = Host[v],
                          phase'[Host[u]] = "booting", pc'[u] # "idle", pc'[v] # "idle"
                   PROVE  u = v
        OBVIOUS
      <4>1. Host[u] # p /\ u # w /\ v # w
        BY <3>2
      <4>. QED  BY <2>1, <3>1, <4>1 DEF LockInv
    <3>. QED  BY <3>3, <3>4, <3>5, <3>6, <3>7, <3>8 DEF LockInv, Locks
  <2>. QED  BY <2>3, <2>4
<1>5. CASE pc[w] = "walk" /\ Conclude(w, FALSE)
  BY <1>4, <1>5 DEF Walking
<1>6. CASE CheckManifest(w)
  <2>1. check(snap[w]) \in BOOLEAN
    BY DEF check, SelfChained
  <2>. QED  BY <1>4, <1>6, <2>1 DEF CheckManifest, Walking
<1>. QED  BY <1>1, <1>2, <1>3, <1>5, <1>6 DEF WalkTable

LEMMA LockStep == TypeInv /\ LockInv /\ [Next]_vars => LockInv'
<1>1. TypeInv /\ LockInv /\ Next => LockInv'
  BY ProcessStepLocks, WriteStepLocks, AttestStepLocks, VerifyStepLocks DEF Next
<1>2. LockInv /\ UNCHANGED vars => LockInv'
  BY DEF LockInv, Locks, vars, process
<1>. QED  BY <1>1, <1>2

-----------------------------------------------------------------------------
(* Transactions and row chains.                                             *)

RowsInv == TxnInv /\ RowsChained

\* Inside a write, a statement sees the transaction's own rows.
LEMMA SeenIsView ==
    ASSUME TypeInv, LockInv, TxnInv, NEW w \in Worker,
           pc[w] \in {"head", "insert", "commit"}
    PROVE  /\ Seen(Host[w]) = view
           /\ txn \in {NoProc, Host[w]}
           /\ Host[w] \in Writer /\ phase[Host[w]] = "serving"
<1>1. Host[w] \in Proc /\ Host[w] \in Writer /\ phase[Host[w]] = "serving"
  BY StoreAssumption DEF LockInv, TxnInv, Writing
<1>2. txn \in {NoProc, Host[w]}
  <2>1. CASE txn # NoProc
    <3>1. txn \in Proc /\ txn \in Writer /\ phase[txn] = "serving"
      BY <2>1 DEF TypeInv, TypeOK, TxnInv
    <3>. QED  BY <1>1, <3>1, OneOpenWriter
  <2>. QED  BY <2>1
<1>3. Seen(Host[w]) = view
  BY <1>2 DEF Seen, TxnInv
<1>. QED  BY <1>1, <1>2, <1>3

\* A step of worker w that leaves the database, the transaction and the serving
\* processes alone.
LEMMA RowsFrame ==
    ASSUME RowsInv, NEW w \in Worker, UNCHANGED <<db, view, txn>>,
           \A p \in Proc : phase[p] = "serving" => phase'[p] = "serving",
           \A v \in Worker \ {w} : /\ pc'[v] = pc[v] /\ prev'[v] = prev[v]
                                   /\ shape'[v] = shape[v] /\ owed'[v] = owed[v],
           pc'[w] # "insert",
           pc'[w] \in {"head", "insert", "commit"} => phase[Host[w]] = "serving"
    PROVE  RowsInv'
<1>0. Host \in [Worker -> Proc] /\ Writer \subseteq Proc
  BY StoreAssumption
<1>1. \A v \in Worker : pc'[v] = "insert" => prev'[v] = LastHash(view'[NextTable(v)'])
  BY DEF RowsInv, TxnInv, NextTable
<1>2. txn' # NoProc => txn' \in Writer /\ phase'[txn'] = "serving"
  BY <1>0 DEF RowsInv, TxnInv
<1>3. \A v \in Worker :
         pc'[v] \in {"head", "insert", "commit"} => phase'[Host[v]] = "serving"
  BY <1>0 DEF RowsInv, TxnInv
<1>. QED  BY <1>1, <1>2, <1>3 DEF RowsInv, TxnInv, RowsChained

LEMMA ProcessStepRows == TypeInv /\ LockInv /\ RowsInv /\ ProcessStep => RowsInv'
<1> SUFFICES ASSUME TypeInv, LockInv, RowsInv, NEW p \in Proc,
                    \/ Open(p) \/ TakeLock(p) \/ LockHeld(p) \/ Stop(p) \/ Crash(p)
             PROVE  RowsInv'
  BY DEF ProcessStep
<1> USE StoreAssumption DEF disk, writing, verifying, bounds
<1>0. phase \in [Proc -> Phase] /\ pc \in [Worker -> Inside \cup {"idle", "retry"}]
  BY DEF TypeInv, TypeOK
\* A process that does not serve changes its phase.
<1>1. ASSUME UNCHANGED <<disk, pc, writing>>, phase[p] # "serving",
             \A q \in Proc \ {p} : phase'[q] = phase[q]
      PROVE  RowsInv'
  <2>1. txn' # NoProc => txn' \in Writer /\ phase'[txn'] = "serving"
    BY <1>1 DEF RowsInv, TxnInv
  <2>2. \A v \in Worker :
           pc'[v] \in {"head", "insert", "commit"} => phase'[Host[v]] = "serving"
    BY <1>1 DEF RowsInv, TxnInv
  <2>. QED  BY <1>1, <2>1, <2>2 DEF RowsInv, TxnInv, RowsChained, NextTable
<1>2. CASE Open(p)
  BY <1>0, <1>1, <1>2 DEF Open, Down
<1>3. CASE TakeLock(p)
  BY <1>0, <1>1, <1>3 DEF TakeLock
<1>4. CASE LockHeld(p)
  BY <1>0, <1>1, <1>4 DEF LockHeld
\* A process closes or dies.
<1>5. ASSUME Gone(p), Discard(p), db' = db, phase' = [phase EXCEPT ![p] = "down"]
      PROVE  RowsInv'
  <2>1. \A v \in Worker :
           /\ pc'[v] = (IF Host[v] = p THEN "idle" ELSE pc[v])
           /\ Host[v] # p => /\ prev'[v] = prev[v] /\ shape'[v] = shape[v]
                             /\ owed'[v] = owed[v]
    BY <1>5 DEF Gone
  <2>2. \A q \in Proc \ {p} : phase'[q] = phase[q]
    BY <1>0, <1>5
  <2>3. txn' # NoProc => txn' \in Writer /\ phase'[txn'] = "serving"
    BY <1>5, <2>2 DEF RowsInv, TxnInv, Discard
  <2>4. txn' = NoProc => view' = db'
    BY <1>5 DEF RowsInv, TxnInv, Discard
  <2>5. \A v \in Worker :
           pc'[v] \in {"head", "insert", "commit"} => phase'[Host[v]] = "serving"
    BY <2>1, <2>2 DEF RowsInv, TxnInv
  <2>6. \A t \in Table : Chained(view'[t])
    BY <1>5 DEF RowsInv, RowsChained, Discard
  <2>7. ASSUME NEW v \in Worker, pc'[v] = "insert"
        PROVE  prev'[v] = LastHash(view'[NextTable(v)'])
    <3>1. pc[v] = "insert" /\ Host[v] # p /\ NextTable(v)' = NextTable(v)
      BY <2>1, <2>7 DEF NextTable
    <3>2. txn # p
      BY <3>1, SeenIsView DEF RowsInv
    <3>3. view' = view
      BY <1>5, <3>2 DEF Discard
    <3>. QED  BY <2>1, <3>1, <3>3 DEF RowsInv, TxnInv
  <2>. QED  BY <1>5, <2>3, <2>4, <2>5, <2>6, <2>7 DEF RowsInv, TxnInv, RowsChained
<1>6. CASE Stop(p)
  BY <1>5, <1>6 DEF Stop
<1>7. CASE Crash(p)
  BY <1>5, <1>7 DEF Crash
<1>. QED  BY <1>2, <1>3, <1>4, <1>6, <1>7

LEMMA WriteStepRows == TypeInv /\ LockInv /\ RowsInv /\ WriteStep => RowsInv'
<1> SUFFICES ASSUME TypeInv, LockInv, RowsInv, NEW w \in Worker,
                    \/ \E sh \in Shapes : Begin(w, sh)
                    \/ \E d \in Payload : Insert(w, d)
                    \/ ReadHead(w) \/ Rollback(w) \/ Commit(w)
             PROVE  RowsInv'
  BY DEF WriteStep
<1> USE DEF disk, process, writing, verifying, bounds
<1>0. /\ pc \in [Worker -> Inside \cup {"idle", "retry"}]
      /\ shape \in [Worker -> Seq(Table)] /\ prev \in [Worker -> Hash]
      /\ owed \in [Worker -> Seq(Owed)]
      /\ db \in [Table -> Seq(Row)] /\ view \in [Table -> Seq(Row)]
  BY DEF TypeInv, TypeOK
\* The worker that writes is the only one.
<1>a. ASSUME pc[w] \in Writing
      PROVE  \A v \in Worker \ {w} : pc[v] \notin Writing
  BY <1>a, OneWriter DEF TypeInv
<1>b. {"head", "insert", "commit"} \subseteq Writing
  BY DEF Writing
<1>1. ASSUME NEW sh \in Shapes, Begin(w, sh) PROVE RowsInv'
  <2>1. /\ pc'[w] = "head" /\ UNCHANGED <<db, view, txn, phase, prev, owed>>
        /\ phase[Host[w]] = "serving"
        /\ \A v \in Worker \ {w} : pc'[v] = pc[v] /\ shape'[v] = shape[v]
    BY <1>0, <1>1 DEF Begin
  <2>. QED  BY <2>1, RowsFrame
\* What every other write step has in common.
<1>2. ASSUME pc[w] \in {"head", "insert", "commit"}, phase' = phase,
             \A v \in Worker \ {w} : pc'[v] = pc[v],
             txn' \in {NoProc, txn, Host[w]}, txn' = NoProc => view' = db',
             \A t \in Table : Chained(db'[t]) /\ Chained(view'[t]),
             pc'[w] = "insert" => prev'[w] = LastHash(view'[NextTable(w)'])
      PROVE  RowsInv'
  <2>1. Host[w] \in Writer /\ phase[Host[w]] = "serving" /\ txn \in {NoProc, Host[w]}
    BY <1>2, SeenIsView DEF RowsInv
  <2>2. \A v \in Worker \ {w} : pc'[v] \notin Writing
    BY <1>2, <1>a, <1>b
  <2>3. \A v \in Worker : pc'[v] = "insert" => prev'[v] = LastHash(view'[NextTable(v)'])
    BY <1>2, <2>2, <1>b
  <2>4. \A v \in Worker :
           pc'[v] \in {"head", "insert", "commit"} => phase'[Host[v]] = "serving"
    BY <1>2, <2>1, <2>2, <1>b
  <2>5. txn' # NoProc => txn' \in Writer /\ phase'[txn'] = "serving"
    BY <1>2, <2>1
  <2>. QED  BY <1>2, <2>3, <2>4, <2>5 DEF RowsInv, TxnInv, RowsChained
<1>3. CASE ReadHead(w)
  <2>1. /\ pc[w] = "head" /\ UNCHANGED <<db, view, txn, phase, shape, owed>>
        /\ \A v \in Worker \ {w} : pc'[v] = pc[v]
        /\ prev'[w] = LastHash(Seen(Host[w])[NextTable(w)])
    BY <1>0, <1>3 DEF ReadHead
  <2>2. Seen(Host[w]) = view
    BY <2>1, SeenIsView DEF RowsInv
  <2>3. NextTable(w)' = NextTable(w)
    BY <2>1 DEF NextTable
  <2>. QED  BY <1>2, <2>1, <2>2, <2>3 DEF RowsInv, TxnInv, RowsChained
<1>4. ASSUME NEW d \in Payload, Insert(w, d) PROVE RowsInv'
  <2> DEFINE t == NextTable(w)
             r == [payload |-> d, prev_hash |-> prev[w],
                   row_hash |-> row_hash(prev[w], d)]
  <2>1. /\ pc[w] = "insert" /\ pc'[w] # "insert" /\ txn' = Host[w] /\ db' = db
        /\ phase' = phase /\ \A v \in Worker \ {w} : pc'[v] = pc[v]
        /\ view' = [view EXCEPT ![t] = Append(view[t], r)]
    BY <1>0, <1>4 DEF Insert
  <2>2. Host[w] # NoProc
    BY StoreAssumption
  <2>3. t \in Table
    BY <2>1, NextTableType DEF TypeInv, SectionInv
  <2>4. prev[w] = LastHash(view[t])
    BY <2>1 DEF RowsInv, TxnInv
  <2>5. Chained(Append(view[t], r))
    <3>1. view[t] \in Seq(Row) /\ Chained(view[t])
      BY <1>0, <2>3 DEF RowsInv, RowsChained
    <3>. QED  BY <2>4, <3>1, ChainedAppend
  <2> HIDE DEF t, r
  <2>6. \A u \in Table : Chained(view'[u])
    <3>1. view'[t] = Append(view[t], r) /\ \A u \in Table \ {t} : view'[u] = view[u]
      BY <1>0, <2>1, <2>3
    <3>. QED  BY <2>5, <3>1 DEF RowsInv, RowsChained
  <2>. QED  BY <1>2, <2>1, <2>2, <2>6 DEF RowsInv, RowsChained
<1>5. CASE Rollback(w)
  <2>1. /\ pc[w] \in {"head", "insert", "commit"} /\ pc'[w] = "idle"
        /\ phase' = phase /\ \A v \in Worker \ {w} : pc'[v] = pc[v] /\ db' = db
    BY <1>0, <1>5 DEF Rollback, Leave
  <2>2. db' = db
    BY <1>5 DEF Rollback
  <2>3. \/ view' = db /\ txn' = NoProc
        \/ UNCHANGED <<view, txn>>
    BY <1>5 DEF Rollback, Discard
  <2>. QED  BY <1>2, <2>1, <2>2, <2>3 DEF RowsInv, TxnInv, RowsChained
<1>6. CASE Commit(w)
  <2>1. /\ pc[w] = "commit" /\ pc'[w] = "attest" /\ phase' = phase
        /\ \A v \in Worker \ {w} : pc'[v] = pc[v]
        /\ db' = view /\ view' = view /\ txn' = NoProc
    BY <1>0, <1>6 DEF Commit
  <2>. QED  BY <1>2, <2>1 DEF RowsInv, RowsChained
<1>. QED  BY <1>1, <1>3, <1>4, <1>5, <1>6

LEMMA AttestStepRows == TypeInv /\ LockInv /\ RowsInv /\ AttestStep => RowsInv'
<1> SUFFICES ASSUME TypeInv, LockInv, RowsInv, NEW w \in Worker,
                    WriteLine(w) \/ WriteFails(w) \/ SyncLine(w) \/ SyncFails(w)
                    \/ Seed(w)
             PROVE  RowsInv'
  BY DEF AttestStep
<1> USE DEF disk, process, writing, verifying, bounds
<1>0. /\ pc \in [Worker -> Inside \cup {"idle", "retry"}]
      /\ shape \in [Worker -> Seq(Table)] /\ prev \in [Worker -> Hash]
      /\ owed \in [Worker -> Seq(Owed)]
  BY DEF TypeInv, TypeOK
<1>1. /\ UNCHANGED <<db, view, txn, phase>>
      /\ pc'[w] \notin {"head", "insert", "commit"}
  <2>1. CASE WriteLine(w)
    BY <1>0, <2>1 DEF WriteLine, Owes
  <2>2. CASE WriteFails(w)
    BY <1>0, <2>2 DEF WriteFails, Leave, Owes
  <2>3. CASE SyncLine(w)
    BY <1>0, <2>3 DEF SyncLine, Leave
  <2>4. CASE SyncFails(w)
    BY <1>0, <2>4 DEF SyncFails, Leave
  <2>5. CASE Seed(w)
    BY <1>0, <2>5 DEF Seed
  <2>. QED  BY <2>1, <2>2, <2>3, <2>4, <2>5
<1>2. \A v \in Worker \ {w} : /\ pc'[v] = pc[v] /\ prev'[v] = prev[v]
                              /\ shape'[v] = shape[v] /\ owed'[v] = owed[v]
  <2>1. CASE WriteLine(w)
    BY <1>0, <2>1 DEF WriteLine
  <2>2. CASE WriteFails(w)
    BY <1>0, <2>2 DEF WriteFails, Leave
  <2>3. CASE SyncLine(w)
    BY <1>0, <2>3 DEF SyncLine, Leave
  <2>4. CASE SyncFails(w)
    BY <1>0, <2>4 DEF SyncFails, Leave
  <2>5. CASE Seed(w)
    BY <1>0, <2>5 DEF Seed
  <2>. QED  BY <2>1, <2>2, <2>3, <2>4, <2>5
<1>. QED  BY <1>1, <1>2, RowsFrame

LEMMA VerifyStepRows == TypeInv /\ LockInv /\ RowsInv /\ VerifyStep => RowsInv'
<1> SUFFICES ASSUME TypeInv, LockInv, RowsInv, NEW w \in Worker,
                    \/ \E n \in {1, Attempts} : VerifyBegin(w, n)
                    \/ VerifyAgain(w) \/ WalkTable(w) \/ CheckManifest(w)
             PROVE  RowsInv'
  BY DEF VerifyStep
<1> USE DEF disk, process, writing, verifying, bounds
<1>0. /\ pc \in [Worker -> Inside \cup {"idle", "retry"}]
      /\ phase \in [Proc -> Phase]
  BY DEF TypeInv, TypeOK
<1>1. /\ UNCHANGED <<db, view, txn, prev, shape, owed>>
      /\ pc'[w] \notin {"head", "insert", "commit"}
      /\ \A q \in Proc : phase[q] = "serving" => phase'[q] = "serving"
      /\ \A v \in Worker \ {w} : pc'[v] = pc[v]
  <2>1. CASE \E n \in {1, Attempts} : VerifyBegin(w, n)
    BY <1>0, <2>1 DEF VerifyBegin, Walk
  <2>2. CASE VerifyAgain(w)
    BY <1>0, <2>2 DEF VerifyAgain, Walk
  <2>3. CASE pc[w] = "walk" /\ WalkOn(w, Seen(Host[w])[NextWalk(w)])
    BY <1>0, <2>3 DEF WalkOn
  <2>4. CASE pc[w] = "walk" /\ Conclude(w, FALSE)
    BY <1>0, <2>4 DEF Conclude
  <2>5. CASE CheckManifest(w)
    BY <1>0, <2>5 DEF CheckManifest, Conclude
  <2>. QED  BY <2>1, <2>2, <2>3, <2>4, <2>5 DEF WalkTable
<1>. QED  BY <1>1, RowsFrame

LEMMA RowsStep == TypeInv /\ LockInv /\ RowsInv /\ [Next]_vars => RowsInv'
<1>1. TypeInv /\ LockInv /\ RowsInv /\ Next => RowsInv'
  BY ProcessStepRows, WriteStepRows, AttestStepRows, VerifyStepRows DEF Next
<1>2. RowsInv /\ UNCHANGED vars => RowsInv'
  BY DEF RowsInv, TxnInv, RowsChained, NextTable, vars, disk, process, writing
<1>. QED  BY <1>1, <1>2

-----------------------------------------------------------------------------
(* Verifies: an attempt is left as long as one runs.                        *)

\* The types the proofs below keep needing.
LEMMA Shapely ==
    ASSUME IInv
    PROVE  /\ TypeInv /\ TypeOK /\ LockInv /\ TxnInv /\ RowsInv /\ SectionInv
           /\ pc \in [Worker -> Inside \cup {"idle", "retry"}]
           /\ phase \in [Proc -> Phase]
           /\ owed \in [Worker -> Seq(Owed)] /\ done \in [Worker -> Nat]
           /\ shape \in [Worker -> Seq(Table)] /\ prev \in [Worker -> Hash]
           /\ db \in [Table -> Seq(Row)] /\ view \in [Table -> Seq(Row)]
           /\ manifest \in Seq(Line)
           /\ \A w \in Worker : Host[w] \in Proc
BY StoreAssumption DEF IInv, TypeInv, RowsInv, TypeOK

\* The steps of a write until its commit: no file, cache or verify changes.
LEMMA WriteSteps ==
    ASSUME IInv, NEW w \in Worker,
           \/ \E sh \in Shapes : Begin(w, sh)
           \/ \E d \in Payload : Insert(w, d)
           \/ ReadHead(w) \/ Rollback(w) \/ Commit(w)
    PROVE  /\ UNCHANGED <<manifest, manifestFile, phase, flock, cachedHead, cachedCount,
                          snap, verdict, lost>>
           /\ pc[w] \in {"idle", "head", "insert", "commit"}
           /\ pc'[w] \in {"idle", "head", "insert", "commit", "attest"}
           /\ \A v \in Worker \ {w} : pc'[v] = pc[v]
<1> USE Shapely DEF disk, process, writing, verifying, bounds
<1>1. CASE \E sh \in Shapes : Begin(w, sh)
  BY <1>1 DEF Begin
<1>2. CASE \E d \in Payload : Insert(w, d)
  BY <1>2 DEF Insert
<1>3. CASE ReadHead(w)
  BY <1>3 DEF ReadHead
<1>4. CASE Rollback(w)
  BY <1>4 DEF Rollback, Leave
<1>5. CASE Commit(w)
  BY <1>5 DEF Commit
<1>. QED  BY <1>1, <1>2, <1>3, <1>4, <1>5

\* What a step of a worker leaves of the others.
LEMMA OthersStay ==
    ASSUME IInv, NEW w \in Worker,
           \/ \E sh \in Shapes : Begin(w, sh)
           \/ \E d \in Payload : Insert(w, d)
           \/ ReadHead(w) \/ Rollback(w) \/ Commit(w)
           \/ WriteLine(w) \/ WriteFails(w) \/ SyncLine(w) \/ SyncFails(w) \/ Seed(w)
           \/ \E n \in {1, Attempts} : VerifyBegin(w, n)
           \/ VerifyAgain(w) \/ WalkTable(w) \/ CheckManifest(w)
    PROVE  \A v \in Worker \ {w} :
              /\ pc'[v] = pc[v] /\ tries'[v] = tries[v] /\ shape'[v] = shape[v]
              /\ owed'[v] = owed[v] /\ done'[v] = done[v] /\ snap'[v] = snap[v]
<1> USE Shapely DEF disk, process, writing, verifying, bounds
<1>0. snap \in [Worker -> Seq([head : Hash, count : Nat])] /\ tries \in [Worker -> Nat]
  BY DEF IInv, TypeOK
<1>1. CASE \E sh \in Shapes : Begin(w, sh)
  BY <1>1 DEF Begin
<1>2. CASE \E d \in Payload : Insert(w, d)
  BY <1>2 DEF Insert
<1>3. CASE ReadHead(w) \/ Commit(w)
  BY <1>3 DEF ReadHead, Commit
<1>4. CASE Rollback(w)
  BY <1>4 DEF Rollback, Leave
<1>5. CASE WriteLine(w)
  BY <1>5 DEF WriteLine
<1>6. CASE WriteFails(w) \/ SyncFails(w)
  BY <1>6 DEF WriteFails, SyncFails, Leave
<1>7. CASE SyncLine(w)
  BY <1>7 DEF SyncLine, Leave
<1>8. CASE Seed(w)
  BY <1>8 DEF Seed
<1>9. CASE \E n \in {1, Attempts} : VerifyBegin(w, n)
  BY <1>0, <1>9 DEF VerifyBegin, Walk
<1>10. CASE VerifyAgain(w)
  BY <1>0, <1>10 DEF VerifyAgain, Walk
<1>11. ASSUME NEW rows, WalkOn(w, rows)
       PROVE  \A v \in Worker \ {w} :
                 /\ pc'[v] = pc[v] /\ tries'[v] = tries[v] /\ shape'[v] = shape[v]
                 /\ owed'[v] = owed[v] /\ done'[v] = done[v] /\ snap'[v] = snap[v]
  BY <1>0, <1>11 DEF WalkOn
<1>12. ASSUME NEW ok, Conclude(w, ok)
       PROVE  \A v \in Worker \ {w} :
                 /\ pc'[v] = pc[v] /\ tries'[v] = tries[v] /\ shape'[v] = shape[v]
                 /\ owed'[v] = owed[v] /\ done'[v] = done[v] /\ snap'[v] = snap[v]
  BY <1>0, <1>12 DEF Conclude
<1>. QED  BY <1>1, <1>2, <1>3, <1>4, <1>5, <1>6, <1>7, <1>8, <1>9, <1>10, <1>11, <1>12
          DEF WalkTable, CheckManifest

\* What a process that opens, stops or dies leaves of the calls.
LEMMA ProcessLeaves ==
    ASSUME IInv, NEW p \in Proc,
           Open(p) \/ TakeLock(p) \/ LockHeld(p) \/ Stop(p) \/ Crash(p)
    PROVE  \A w \in Worker :
              \/ /\ pc'[w] = pc[w] /\ tries'[w] = tries[w] /\ shape'[w] = shape[w]
                 /\ owed'[w] = owed[w] /\ done'[w] = done[w] /\ snap'[w] = snap[w]
              \/ pc'[w] = "idle" /\ phase'[Host[w]] = "down"
<1> USE DEF disk, process, writing, verifying, bounds
<1>1. CASE Open(p) \/ TakeLock(p) \/ LockHeld(p)
  BY <1>1 DEF Open, TakeLock, LockHeld
<1>2. CASE Stop(p) \/ Crash(p)
  <2>1. Gone(p) /\ phase' = [phase EXCEPT ![p] = "down"] /\ phase \in [Proc -> Phase]
    BY <1>2 DEF Stop, Crash, IInv, TypeOK
  <2>. QED  BY <2>1 DEF Gone
<1>. QED  BY <1>1, <1>2

\* A verdict uses up an attempt, all of them unless another one follows; and it decides
\* a start whose last one it is.
LEMMA ConcludeNearer ==
    ASSUME IInv, NEW w \in Worker, pc[w] \in Walking, NEW ok, Conclude(w, ok)
    PROVE  /\ tries'[w] < tries[w]
           /\ pc'[w] \in {"idle", "retry"} /\ (pc'[w] = "retry" => tries'[w] > 0)
           /\ phase[Host[w]] = "booting" /\ pc'[w] = "idle" => phase'[Host[w]] # "booting"
<1>1. /\ tries \in [Worker -> Nat] /\ tries[w] \in Nat /\ tries[w] > 0
      /\ pc \in [Worker -> Inside \cup {"idle", "retry"}]
      /\ phase \in [Proc -> Phase] /\ Host[w] \in Proc
  BY StoreAssumption DEF IInv, TypeOK, TriesInv
<1>2. \/ tries[w] > 1 /\ tries'[w] = tries[w] - 1
      \/ tries'[w] = 0 /\ pc'[w] = "idle"
  BY <1>1 DEF Conclude
<1>3. pc'[w] \in {"idle", "retry"}
  BY <1>1 DEF Conclude
<1>4. phase[Host[w]] = "booting" /\ pc'[w] = "idle" => phase'[Host[w]] # "booting"
  BY <1>1 DEF Conclude, BootOutcome
<1>. QED  BY <1>1, <1>2, <1>3, <1>4

\* A verify that has begun has an attempt left.
LEMMA TriesStep ==
    ASSUME IInv, [Next]_vars
    PROVE  TriesInv'
<1> USE Shapely DEF disk, process, writing, verifying, bounds
<1>0. tries \in [Worker -> Nat] /\ snap \in [Worker -> Seq([head : Hash, count : Nat])]
  BY DEF IInv, TypeOK
<1>1. \A w \in Worker : pc[w] \in Walking \cup {"retry"} => tries[w] > 0
  BY DEF IInv, TriesInv
<1>2. CASE UNCHANGED vars
  BY <1>1, <1>2 DEF vars, TriesInv
<1>3. CASE ProcessStep
  <2>1. \A w \in Worker : pc'[w] = "idle" \/ (pc'[w] = pc[w] /\ tries'[w] = tries[w])
    BY <1>3, ProcessLeaves DEF ProcessStep
  <2>. QED  BY <1>1, <2>1 DEF TriesInv, Walking
<1>4. ASSUME NEW w \in Worker,
             \/ \E sh \in Shapes : Begin(w, sh)
             \/ \E d \in Payload : Insert(w, d)
             \/ ReadHead(w) \/ Rollback(w) \/ Commit(w)
             \/ WriteLine(w) \/ WriteFails(w) \/ SyncLine(w) \/ SyncFails(w) \/ Seed(w)
             \/ \E n \in {1, Attempts} : VerifyBegin(w, n)
             \/ VerifyAgain(w) \/ WalkTable(w) \/ CheckManifest(w)
      PROVE  TriesInv'
  <2>1. \A v \in Worker \ {w} : pc'[v] = pc[v] /\ tries'[v] = tries[v]
    BY <1>4, OthersStay
  <2>2. pc'[w] \in Walking \cup {"retry"} => tries'[w] > 0
    <3>1. CASE \/ \E sh \in Shapes : Begin(w, sh)
               \/ \E d \in Payload : Insert(w, d)
               \/ ReadHead(w) \/ Rollback(w) \/ Commit(w)
      <4>1. pc'[w] \in {"idle", "head", "insert", "commit", "attest"}
        BY <3>1, WriteSteps
      <4>. QED  BY <4>1 DEF Walking
    <3>2. CASE WriteLine(w) \/ WriteFails(w) \/ SyncLine(w) \/ SyncFails(w) \/ Seed(w)
      <4>1. pc'[w] \in {"idle", "attest", "sync"}
        BY <3>2 DEF WriteLine, WriteFails, SyncLine, SyncFails, Seed, Leave
      <4>. QED  BY <4>1 DEF Walking
    <3>3. CASE \E n \in {1, Attempts} : VerifyBegin(w, n)
      BY <1>0, <3>3, StoreAssumption DEF VerifyBegin
    <3>4. CASE VerifyAgain(w)
      BY <1>1, <3>4 DEF VerifyAgain
    <3>5. ASSUME NEW rows, pc[w] = "walk", WalkOn(w, rows)
          PROVE  pc'[w] \in Walking \cup {"retry"} => tries'[w] > 0
      BY <1>1, <3>5 DEF WalkOn, Walking
    <3>6. ASSUME NEW ok, pc[w] \in Walking, Conclude(w, ok)
          PROVE  pc'[w] \in Walking \cup {"retry"} => tries'[w] > 0
      BY <3>6, ConcludeNearer DEF Walking
    <3>7. CASE WalkTable(w)
      <4>1. pc[w] = "walk" /\ pc[w] \in Walking
        BY <3>7 DEF WalkTable, Walking
      <4>2. (\E rows : WalkOn(w, rows)) \/ Conclude(w, FALSE)
        BY <3>7 DEF WalkTable
      <4>. QED  BY <3>5, <3>6, <4>1, <4>2
    <3>8. CASE CheckManifest(w)
      <4>1. pc[w] \in Walking /\ \E ok : Conclude(w, ok)
        BY <3>8 DEF CheckManifest, Walking
      <4>. QED  BY <3>6, <4>1
    <3>. QED  BY <1>4, <3>1, <3>2, <3>3, <3>4, <3>7, <3>8
  <2>. QED  BY <1>1, <2>1, <2>2 DEF TriesInv
<1>. QED  BY <1>2, <1>3, <1>4 DEF Next, WriteStep, AttestStep, VerifyStep

-----------------------------------------------------------------------------
(* The invariant and the theorems.                                          *)

LEMMA InitIInv == Init => IInv
<1> SUFFICES ASSUME Init PROVE IInv
  OBVIOUS
<1>1. TypeOK /\ SectionInv /\ LastInv
  BY InitTypes
<1>2. LockInv
  <2>1. \A w \in Worker : wlock[Host[w]] # w
    BY StoreAssumption DEF Init
  <2>. QED  BY <2>1 DEF Init, LockInv, Inside, Writing, Walking
<1>3. TxnInv
  BY DEF Init, TxnInv
<1>4. RowsChained
  BY DEF Init, RowsChained, Chained
<1>5. TriesInv
  BY DEF Init, TriesInv, Walking
<1>. QED  BY <1>1, <1>2, <1>3, <1>4, <1>5 DEF IInv

LEMMA IInvStep == IInv /\ [Next]_vars => IInv'
BY TypeStep, LockStep, RowsStep, TriesStep DEF IInv, TypeInv, RowsInv

\* IInv is an invariant of every behaviour, for all numbers of processes, threads,
\* tables, rows, crashes and I/O errors.
THEOREM IInvHolds == Spec => []IInv
<1>1. Init => IInv
  BY InitIInv
<1>2. IInv /\ [Next]_vars => IInv'
  BY IInvStep
<1>. QED  BY <1>1, <1>2, PTL DEF Spec

\* The store's variables keep their types.
THEOREM TypeCorrect == Spec => []TypeOK
<1>1. IInv => TypeOK
  BY DEF IInv
<1>. QED  BY <1>1, IInvHolds, PTL

\* No table's hash chain ever forks, committed or inside an open transaction:
\* the write lock within a process and the file lock (or the sole writer) across
\* processes keep every INSERT on the head its _head() call has read.
THEOREM RowsNeverFork == Spec => []RowsChained
<1>1. IInv => RowsChained
  BY DEF IInv
<1>. QED  BY <1>1, IInvHolds, PTL

\* At most one thread of all processes is between the start of a write and its
\* last manifest line (WritesAreSerial, the purpose of _write_lock and the flock).
THEOREM OneWriteAtATime == Spec => []WritesAreSerial
<1>1. IInv => WritesAreSerial
  BY OneWriter DEF IInv, WritesAreSerial
<1>. QED  BY <1>1, IInvHolds, PTL
=============================================================================
