--------------------------- MODULE BatchWriterProofs ---------------------------
(***************************************************************************)
(* Proofs that the transaction written statement by statement implements   *)
(* the one step of Registry, for any uploads, names, rows and orders of    *)
(* the rows, and that the registry's theorems hold of it for that reason.  *)
(***************************************************************************)
EXTENDS BatchWriter, RegistryProofs

-------------------------------------------------------------------------------
(* The refinement                                                          *)

\* What a transaction has written of a row is what Progress says.
LEMMA WrittenRows ==
  ASSUME NEW u \in Uploads, Progress(u), NEW n \in DOMAIN draft[u]
  PROVE  /\ draft[u][n] = RowSoFar(u, n)
         /\ draft[u][n].type = batch[u].type[n]
         /\ draft[u][n].business = batch[u].business[n]
         /\ draft[u][n].domestic =
              IF pass[u] = "edges" /\ batch[u].type[n] = "FQ"
                THEN batch[u].domestic[n] ELSE domestic[n]
<1>1. \A f : n \in DOMAIN f /\ f = [m \in DOMAIN f |-> RowSoFar(u, m)] => f[n] = RowSoFar(u, n)
  OBVIOUS
<1>2. draft[u][n] = RowSoFar(u, n)
  BY <1>1 DEF Progress
<1> QED
  BY <1>2 DEF RowSoFar

\* An upload that has reached the edges has written all its names.
LEMMA AllWritten ==
  ASSUME WriterInv, NEW u \in Uploads, pass[u] = "edges"
  PROVE  /\ step[u] = "validated"
         /\ DOMAIN draft[u] = NamesOf(batch[u])
         /\ NamesOf(batch[u]) \subseteq found[u]
         /\ NamesOf(batch[u]) \subseteq locked[u]
         /\ \A n \in NamesOf(batch[u]) :
              /\ draft[u][n].type = batch[u].type[n]
              /\ draft[u][n].business = batch[u].business[n]
              /\ draft[u][n].domestic =
                   IF batch[u].type[n] = "FQ" THEN batch[u].domestic[n] ELSE domestic[n]
<1>1. Progress(u)
  BY DEF WriterInv
<1>2. /\ step[u] = "validated"
      /\ DOMAIN draft[u] = NamesOf(batch[u])
      /\ NamesOf(batch[u]) \subseteq found[u]
      /\ NamesOf(batch[u]) \subseteq locked[u]
  BY <1>1 DEF Progress
<1> QED
  BY <1>1, <1>2, WrittenRows

\* What the index let the transaction write fits it as a whole.
LEMMA WrittenIdsFit ==
  ASSUME TypeOK, WriterInv, NEW u \in Uploads, pass[u] = "edges"
  PROVE  /\ SeenBusiness(u) = BusinessAfter(batch[u])
         /\ UniqueIds(BusinessAfter(batch[u]))
<1>1. SeenBusiness(u) = BusinessAfter(batch[u])
  BY AllWritten DEF SeenBusiness, BusinessAfter
<1>2. ASSUME NEW n \in Names, NEW m \in Names, n # m, n \in DOMAIN draft[u],
             SeenBusiness(u)[n] # NoId
      PROVE  SeenBusiness(u)[n] # SeenBusiness(u)[m]
  <2>1. IdsReserved(u) /\ SeenBusiness(u)[n] = draft[u][n].business
    BY <1>2 DEF WriterInv, SeenBusiness
  <2> QED
    BY <1>2, <2>1 DEF IdsReserved
<1>3. UniqueIds(SeenBusiness(u))
  <2> SUFFICES ASSUME NEW n \in Names, NEW m \in Names, n # m,
                      SeenBusiness(u)[n] = SeenBusiness(u)[m], SeenBusiness(u)[n] # NoId
               PROVE  FALSE
    BY DEF UniqueIds
  <2>1. n \notin DOMAIN draft[u] /\ m \notin DOMAIN draft[u]
    BY <1>2
  <2> QED
    BY <2>1 DEF SeenBusiness, WriterInv, UniqueIds
<1> QED
  BY <1>1, <1>3

\* The commit of a transaction is the commit of its batch.
LEMMA CommitIsCommit ==
  ASSUME TypeOK, WriterInv, NEW u \in Uploads, CommitTx(u)
  PROVE  Commit(u)
<1>1. pass[u] = "edges" /\ batch[u] \in Batches \cup {EmptyBatch}
  BY DEF CommitTx, TypeOK
<1>2. EdgeRecords(u) = DOMAIN batch[u].rows
  BY <1>1, AllWritten, BatchRefers DEF EdgeRecords
<1>3. draftEdges[u] = batch[u].rows
  <2>1. /\ DOMAIN draftEdges[u] = DOMAIN batch[u].rows
        /\ draftEdges[u] = [p \in DOMAIN draftEdges[u] |-> batch[u].rows[p]]
    BY <1>2 DEF CommitTx, WriterInv, Progress
  <2> QED
    BY <1>1, <2>1, BatchRefers
<1>4. SeenType(u) = TypeAfter(batch[u])
  BY <1>1, AllWritten DEF SeenType, TypeAfter
<1>5. SeenDomestic(u) = DomesticAfter(batch[u])
  <2>1. ASSUME NEW n \in Names PROVE SeenDomestic(u)[n] = DomesticAfter(batch[u])[n]
    <3>1. CASE n \in NamesOf(batch[u])
      BY <1>1, <3>1, AllWritten DEF SeenDomestic, DomesticAfter
    <3>2. CASE n \notin NamesOf(batch[u])
      BY <1>1, <3>2, AllWritten DEF SeenDomestic, DomesticAfter, NamesOf
    <3> QED
      BY <3>1, <3>2
  <2> QED
    BY <2>1 DEF SeenDomestic, DomesticAfter
<1>6. SeenBusiness(u) = BusinessAfter(batch[u]) /\ UniqueIds(BusinessAfter(batch[u]))
  BY <1>1, WrittenIdsFit
<1> QED
  BY <1>1, <1>3, <1>4, <1>5, <1>6, AllWritten DEF CommitTx, Commit

\* Every step of a transaction is a step of Registry, or none.
LEMMA StepRefines ==
  ASSUME TypeOK, WriterInv, [WriterNext]_writerVars
  PROVE  [Next]_vars
<1>1. CASE UNCHANGED writerVars
  BY <1>1 DEF writerVars
<1>2. ASSUME NEW u \in Uploads, Validate(u) PROVE [Next]_vars
  BY <1>2 DEF Validate, Next
<1>3. ASSUME NEW u \in Uploads, LockRow(u) PROVE [Next]_vars
  BY <1>3 DEF LockRow
<1>4. ASSUME NEW u \in Uploads, PutRow(u) PROVE [Next]_vars
  BY <1>4 DEF PutRow
<1>5. ASSUME NEW u \in Uploads, RejectId(u) PROVE [Next]_vars
  BY <1>5 DEF RejectId, Next
<1>6. ASSUME NEW u \in Uploads, Proceed(u) PROVE [Next]_vars
  <2>1. CASE CommitTx(u)
    BY <2>1, CommitIsCommit DEF Next
  <2>2. CASE ~CommitTx(u)
    BY <1>6, <2>2 DEF Proceed, Begin, LookUp, SetDomestics, UpsertEdge
  <2> QED
    BY <2>1, <2>2
<1>7. ASSUME NEW u \in Uploads, LoseTx(u) PROVE [Next]_vars
  BY <1>7 DEF LoseTx, Next
<1>8. ASSUME NEW S \in SUBSET Uploads, BreakDeadlock(S) PROVE [Next]_vars
  BY <1>8 DEF BreakDeadlock, Next
<1> QED
  BY <1>1, <1>2, <1>3, <1>4, <1>5, <1>6, <1>7, <1>8 DEF WriterNext

-------------------------------------------------------------------------------
(* The inductive invariant                                                 *)

\* A transaction that does not move keeps its progress if the rows it has written
\* keep the columns it leaves alone.
LEMMA ProgressKept ==
  ASSUME NEW u \in Uploads, Progress(u),
         pass'[u] = pass[u], next'[u] = next[u], locked'[u] = locked[u],
         draft'[u] = draft[u], found'[u] = found[u], draftEdges'[u] = draftEdges[u],
         step'[u] = step[u], batch'[u] = batch[u],
         \A n \in DOMAIN draft[u] : domestic'[n] = domestic[n]
  PROVE  Progress(u)'
<1>1. \A n \in DOMAIN draft[u] : RowSoFar(u, n)' = RowSoFar(u, n)
  BY DEF RowSoFar
<1>2. [n \in DOMAIN draft'[u] |-> RowSoFar(u, n)'] = [n \in DOMAIN draft[u] |-> RowSoFar(u, n)]
  BY <1>1
<1>3. draft'[u] = [n \in DOMAIN draft'[u] |-> RowSoFar(u, n)']
  BY <1>2 DEF Progress
<1>4. draftEdges'[u] = [p \in DOMAIN draftEdges'[u] |-> batch'[u].rows[p]]
  BY DEF Progress
<1> QED
  BY <1>3, <1>4 DEF Progress

\* Outside of a transaction there is no progress to keep.
LEMMA ProgressNone ==
  ASSUME NEW u \in Uploads, pass'[u] = "none", locked'[u] = {},
         draft'[u] = NoRows, draftEdges'[u] = NoEdges
  PROVE  Progress(u)'
<1>1. DOMAIN NoRows = {} /\ DOMAIN NoEdges = {}
  BY DEF NoRows, NoEdges
<1>2. \A f : DOMAIN f = {} /\ f = NoRows => f = [n \in {} |-> RowSoFar(u, n)']
  BY DEF NoRows
<1>3. \A f : DOMAIN f = {} /\ f = NoEdges => f = [p \in {} |-> batch'[u].rows[p]]
  BY DEF NoEdges
<1>4. draft'[u] = [n \in DOMAIN draft'[u] |-> RowSoFar(u, n)']
  BY <1>1, <1>2
<1>5. draftEdges'[u] = [p \in DOMAIN draftEdges'[u] |-> batch'[u].rows[p]]
  BY <1>1, <1>3
<1> QED
  BY <1>1, <1>4, <1>5 DEF Progress

\* The IDs a transaction has written stay its own while the others only drop what
\* they have written, or commit it.
LEMMA IdsKept ==
  ASSUME NEW u \in Uploads, IdsReserved(u), draft'[u] = draft[u],
         \A v \in Uploads \ {u} : draft'[v] = draft[v] \/ draft'[v] = NoRows,
         \A m \in Names \ DOMAIN draft[u] :
           \/ business'[m] = business[m]
           \/ \E v \in Uploads \ {u} : m \in DOMAIN draft[v] /\ business'[m] = draft[v][m].business
  PROVE  IdsReserved(u)'
<1> SUFFICES ASSUME NEW n \in DOMAIN draft[u], draft[u][n].business # NoId
             PROVE  /\ \A m \in Names \ {n} : SeenBusiness(u)'[m] # draft[u][n].business
                    /\ \A v \in Uploads \ {u} : \A m \in DOMAIN draft'[v] :
                         draft'[v][m].business # draft[u][n].business
  BY DEF IdsReserved
<1>1. /\ \A m \in Names \ {n} : SeenBusiness(u)[m] # draft[u][n].business
      /\ \A v \in Uploads \ {u} : \A m \in DOMAIN draft[v] :
           draft[v][m].business # draft[u][n].business
  BY DEF IdsReserved
<1>2. ASSUME NEW m \in Names \ {n} PROVE SeenBusiness(u)'[m] # draft[u][n].business
  <2>1. CASE m \in DOMAIN draft[u]
    BY <1>1, <2>1 DEF SeenBusiness
  <2>2. CASE m \notin DOMAIN draft[u]
    BY <1>1, <2>2 DEF SeenBusiness
  <2> QED
    BY <2>1, <2>2
<1>3. ASSUME NEW v \in Uploads \ {u}, NEW m \in DOMAIN draft'[v]
      PROVE  draft'[v][m].business # draft[u][n].business
  BY <1>1, <1>3 DEF NoRows
<1> QED
  BY <1>2, <1>3

\* Whoever has written nothing has reserved nothing.
LEMMA IdsNone ==
  ASSUME NEW u \in Uploads, draft'[u] = NoRows
  PROVE  IdsReserved(u)'
  BY DEF IdsReserved, NoRows

\* The end of a transaction that does not commit.
LEMMA EndKeeps ==
  ASSUME TypeOK, WriterInv, NEW u \in Uploads, EndTx(u),
         UNCHANGED <<domestic, business>>,
         \A v \in Uploads \ {u} : step'[v] = step[v] /\ batch'[v] = batch[v]
  PROVE  WriterInv'
<1>1. TxTypes'
  BY DEF WriterInv, TxTypes, EndTx
<1>2. /\ pass'[u] = "none" /\ locked'[u] = {} /\ draft'[u] = NoRows /\ draftEdges'[u] = NoEdges
      /\ \A v \in Uploads \ {u} :
           /\ pass'[v] = pass[v] /\ next'[v] = next[v] /\ locked'[v] = locked[v]
           /\ draft'[v] = draft[v] /\ found'[v] = found[v] /\ draftEdges'[v] = draftEdges[v]
  BY DEF WriterInv, TxTypes, EndTx
<1>3. ASSUME NEW v \in Uploads PROVE Progress(v)' /\ IdsReserved(v)'
  <2>1. CASE v = u
    BY <1>2, <2>1, ProgressNone, IdsNone
  <2>2. CASE v # u
    <3>1. Progress(v) /\ IdsReserved(v)
      BY DEF WriterInv
    <3>2. Progress(v)'
      BY <1>2, <2>2, <3>1, ProgressKept
    <3>3. IdsReserved(v)'
      BY <1>2, <2>2, <3>1, IdsKept
    <3> QED
      BY <3>2, <3>3
  <2> QED
    BY <2>1, <2>2
<1>4. UniqueIds(business)'
  BY DEF WriterInv, UniqueIds
<1>5. \A v, w \in Uploads : v # w => locked'[v] \cap locked'[w] = {}
  BY <1>2 DEF WriterInv
<1> QED
  BY <1>1, <1>3, <1>4, <1>5 DEF WriterInv

\* Validation concerns uploads that have no transaction yet.
LEMMA ValidateKeeps ==
  ASSUME TypeOK, WriterInv, NEW u \in Uploads, Validate(u)
  PROVE  WriterInv'
<1>1. step[u] # "validated" /\ UNCHANGED <<domestic, business, txVars>>
  BY DEF Validate, Submit, CheckBusinessIds, CheckGraph, registryVars
<1>2. \A v \in Uploads \ {u} : step'[v] = step[v] /\ batch'[v] = batch[v]
  BY DEF Validate, Submit, CheckBusinessIds, CheckGraph, TypeOK
<1>3. pass[u] = "none" /\ locked[u] = {} /\ draft[u] = NoRows /\ draftEdges[u] = NoEdges
  BY <1>1 DEF WriterInv, Progress
<1>4. ASSUME NEW v \in Uploads PROVE Progress(v)'
  <2>1. CASE v = u
    BY <1>1, <1>3, <2>1, ProgressNone DEF txVars
  <2>2. CASE v # u
    <3>1. Progress(v)
      BY DEF WriterInv
    <3> QED
      BY <1>1, <1>2, <2>2, <3>1, ProgressKept DEF txVars
  <2> QED
    BY <2>1, <2>2
<1>5. ASSUME NEW v \in Uploads PROVE IdsReserved(v)'
  BY <1>1 DEF WriterInv, IdsReserved, SeenBusiness, txVars
<1> QED
  BY <1>1, <1>4, <1>5 DEF WriterInv, TxTypes, UniqueIds, txVars

\* A commit leaves the rows others have locked as they are.
LEMMA CommitKeeps ==
  ASSUME TypeOK, WriterInv, NEW u \in Uploads, CommitTx(u)
  PROVE  WriterInv'
<1>1. TxTypes'
  BY DEF WriterInv, TxTypes, CommitTx, EndTx
<1>2. /\ pass'[u] = "none" /\ locked'[u] = {} /\ draft'[u] = NoRows /\ draftEdges'[u] = NoEdges
      /\ \A v \in Uploads \ {u} :
           /\ pass'[v] = pass[v] /\ next'[v] = next[v] /\ locked'[v] = locked[v]
           /\ draft'[v] = draft[v] /\ found'[v] = found[v] /\ draftEdges'[v] = draftEdges[v]
  BY DEF WriterInv, TxTypes, CommitTx, EndTx
<1>3. \A v \in Uploads \ {u} : step'[v] = step[v] /\ batch'[v] = batch[v]
  BY DEF CommitTx, Leave, TypeOK
<1>4. ASSUME NEW v \in Uploads, v # u
      PROVE  \A n \in DOMAIN draft[v] : n \in Names /\ n \notin DOMAIN draft[u]
  <2>1. DOMAIN draft[v] \subseteq locked[v] /\ DOMAIN draft[u] \subseteq locked[u]
    BY DEF WriterInv, Progress
  <2> QED
    BY <1>4, <2>1 DEF WriterInv, TxTypes
<1>5. ASSUME NEW v \in Uploads PROVE Progress(v)' /\ IdsReserved(v)'
  <2>1. CASE v = u
    BY <1>2, <2>1, ProgressNone, IdsNone
  <2>2. CASE v # u
    <3>1. Progress(v) /\ IdsReserved(v)
      BY DEF WriterInv
    <3>2. \A n \in DOMAIN draft[v] : domestic'[n] = domestic[n]
      BY <1>4, <2>2 DEF CommitTx, SeenDomestic
    <3>3. \A m \in Names :
            business'[m] = IF m \in DOMAIN draft[u] THEN draft[u][m].business ELSE business[m]
      BY DEF CommitTx, SeenBusiness
    <3>4. Progress(v)'
      BY <1>2, <1>3, <2>2, <3>1, <3>2, ProgressKept
    <3>5. IdsReserved(v)'
      BY <1>2, <2>2, <3>1, <3>3, IdsKept
    <3> QED
      BY <3>4, <3>5
  <2> QED
    BY <2>1, <2>2
<1>6. UniqueIds(business)'
  <2>1. pass[u] = "edges" /\ business' = SeenBusiness(u)
    BY DEF CommitTx
  <2> QED
    BY <2>1, WrittenIdsFit DEF UniqueIds
<1>7. \A v, w \in Uploads : v # w => locked'[v] \cap locked'[w] = {}
  BY <1>2 DEF WriterInv
<1> QED
  BY <1>1, <1>5, <1>6, <1>7 DEF WriterInv

\* A step inside a transaction leaves all other transactions as they are.
LEMMA OthersKeep ==
  ASSUME WriterInv, NEW u \in Uploads, UNCHANGED vars,
         \A v \in Uploads \ {u} :
           /\ pass'[v] = pass[v] /\ next'[v] = next[v] /\ locked'[v] = locked[v]
           /\ draft'[v] = draft[v] /\ found'[v] = found[v] /\ draftEdges'[v] = draftEdges[v]
  PROVE  \A v \in Uploads \ {u} : Progress(v)'
<1> SUFFICES ASSUME NEW v \in Uploads \ {u} PROVE Progress(v)'
  OBVIOUS
<1>1. Progress(v)
  BY DEF WriterInv
<1> QED
  BY <1>1, ProgressKept DEF vars, registryVars

\* A step that writes no row and locks none keeps what is reserved.
LEMMA NothingWrittenKeeps ==
  ASSUME WriterInv, NEW u \in Uploads, UNCHANGED <<vars, draft, locked>>, TxTypes', Progress(u)',
         \A v \in Uploads \ {u} :
           /\ pass'[v] = pass[v] /\ next'[v] = next[v]
           /\ found'[v] = found[v] /\ draftEdges'[v] = draftEdges[v]
  PROVE  WriterInv'
<1>1. \A v \in Uploads : Progress(v)'
  BY OthersKeep
<1>2. \A v \in Uploads : IdsReserved(v)'
  BY DEF WriterInv, IdsReserved, SeenBusiness, vars, registryVars
<1> QED
  BY <1>1, <1>2 DEF WriterInv, UniqueIds, vars, registryVars

\* Before pass 3, what is written depends on the batch and the tables only.
LEMMA RowsKept ==
  ASSUME NEW u \in Uploads, Progress(u), UNCHANGED vars, draft'[u] = draft[u],
         pass[u] # "edges", pass'[u] # "edges"
  PROVE  draft'[u] = [n \in DOMAIN draft'[u] |-> RowSoFar(u, n)']
<1>1. \A n \in DOMAIN draft[u] : RowSoFar(u, n)' = RowSoFar(u, n)
  BY DEF RowSoFar, vars, registryVars
<1>2. [n \in DOMAIN draft'[u] |-> RowSoFar(u, n)'] = [n \in DOMAIN draft[u] |-> RowSoFar(u, n)]
  BY <1>1
<1> QED
  BY <1>2 DEF Progress

\* The transaction begins.
LEMMA BeginKeeps ==
  ASSUME WriterInv, NEW u \in Uploads, Begin(u)
  PROVE  WriterInv'
<1>1. /\ step[u] = "validated" /\ pass[u] = "none"
      /\ UNCHANGED <<vars, locked, draft, found, draftEdges>>
      /\ Advance(u, NamesOf(batch[u]))
  BY DEF Begin
<1>2. /\ Progress(u)
      /\ locked[u] = {} /\ draft[u] = NoRows /\ draftEdges[u] = NoEdges
      /\ DOMAIN NoRows = {}
  BY <1>1 DEF WriterInv, Progress, NoRows
<1>3. \/ pass'[u] = "entities" /\ next'[u] \in NamesOf(batch[u])
      \/ pass'[u] = "lookup" /\ NamesOf(batch[u]) = {}
  BY <1>1 DEF Advance, WriterInv, TxTypes
<1>4. draft'[u] = [n \in DOMAIN draft'[u] |-> RowSoFar(u, n)']
  BY <1>1, <1>2, <1>3, RowsKept
<1>5. Progress(u)'
  BY <1>1, <1>2, <1>3, <1>4 DEF Progress, vars
<1>6. TxTypes'
  BY <1>1 DEF Advance, WriterInv, TxTypes, NamesOf
<1>7. \A v \in Uploads \ {u} : pass'[v] = pass[v] /\ next'[v] = next[v]
  BY <1>1 DEF Advance, WriterInv, TxTypes
<1> QED
  BY <1>1, <1>5, <1>6, <1>7, NothingWrittenKeeps

\* A row is locked by one transaction.
LEMMA LockRowKeeps ==
  ASSUME WriterInv, NEW u \in Uploads, LockRow(u)
  PROVE  WriterInv'
<1>1. /\ pass[u] = "entities" /\ next[u] \notin locked[u]
      /\ \A v \in Uploads : ~Waits(u, v)
      /\ locked' = [locked EXCEPT ![u] = @ \cup {next[u]}]
      /\ UNCHANGED <<vars, pass, next, draft, found, draftEdges>>
  BY DEF LockRow
<1>2. Progress(u) /\ next[u] \in NamesOf(batch[u])
  BY <1>1 DEF WriterInv, Progress
<1>3. locked'[u] = locked[u] \cup {next[u]} /\ \A v \in Uploads \ {u} : locked'[v] = locked[v]
  BY <1>1 DEF WriterInv, TxTypes
<1>4. \A v \in Uploads \ {u} : next[u] \notin locked[v]
  BY <1>1 DEF Waits, WaitsForRow
<1>5. TxTypes'
  BY <1>1, <1>2 DEF WriterInv, TxTypes, NamesOf
<1>6. draft'[u] = [n \in DOMAIN draft'[u] |-> RowSoFar(u, n)']
  BY <1>1, <1>2, RowsKept
<1>7. Progress(u)'
  BY <1>1, <1>2, <1>3, <1>6 DEF Progress, vars
<1>8. \A v \in Uploads : Progress(v)'
  BY <1>1, <1>3, <1>7, OthersKeep
<1>9. \A v \in Uploads : IdsReserved(v)'
  BY <1>1 DEF WriterInv, IdsReserved, SeenBusiness, vars, registryVars
<1>10. \A v, w \in Uploads : v # w => locked'[v] \cap locked'[w] = {}
  BY <1>3, <1>4 DEF WriterInv
<1> QED
  BY <1>1, <1>5, <1>8, <1>9, <1>10 DEF WriterInv, UniqueIds, vars, registryVars

\* The ID a row is written with is in no other row, neither in one that is
\* committed nor in one that is not.
LEMMA IdIsFree ==
  ASSUME WriterInv, NEW u \in Uploads, PutRow(u), Id(u) # NoId
  PROVE  /\ \A m \in Names \ {next[u]} : SeenBusiness(u)[m] # Id(u)
         /\ \A v \in Uploads \ {u} : \A m \in DOMAIN draft[v] : draft[v][m].business # Id(u)
<1>1. pass[u] = "entities" /\ next[u] \in locked[u] /\ ~IdRejected(u)
  BY DEF PutRow
<1>2. \A v \in Uploads : DOMAIN draft[v] \subseteq locked[v]
  BY DEF WriterInv, Progress
<1>3. ASSUME NEW v \in Uploads \ {u}, NEW m \in DOMAIN draft[v]
      PROVE  m \notin locked[u] /\ draft[v][m].business # Id(u) /\ business[m] # Id(u)
  <2>1. m \notin locked[u]
    BY <1>2 DEF WriterInv
  <2>2. ~WaitsForId(u, v)
    BY DEF PutRow, Waits
  <2> QED
    BY <1>1, <2>1, <2>2 DEF WaitsForId
<1>4. ASSUME NEW m \in Names \ {next[u]}, SeenBusiness(u)[m] = Id(u) PROVE FALSE
  <2>1. PICK v \in Uploads \ {u} : m \in DOMAIN draft[v]
    BY <1>1, <1>4 DEF IdRejected
  <2>2. m \notin DOMAIN draft[u]
    BY <1>2, <1>3, <2>1
  <2> QED
    BY <1>3, <1>4, <2>1, <2>2 DEF SeenBusiness
<1> QED
  BY <1>3, <1>4

\* A row is written as the batch has it, and takes its ID from nobody.
LEMMA PutRowKeeps ==
  ASSUME WriterInv, NEW u \in Uploads, PutRow(u)
  PROVE  WriterInv'
<1>1. /\ pass[u] = "entities" /\ next[u] \in locked[u]
      /\ draft' = [draft EXCEPT ![u] =
           [n \in DOMAIN draft[u] \cup {next[u]} |->
              IF n = next[u] THEN Version(u) ELSE draft[u][n]]]
      /\ Advance(u, NamesOf(batch[u]) \ DOMAIN draft'[u])
      /\ UNCHANGED <<vars, locked, found, draftEdges>>
  BY DEF PutRow
<1>2. /\ Progress(u)
      /\ next[u] \in NamesOf(batch[u]) \ DOMAIN draft[u]
      /\ DOMAIN draft[u] \subseteq NamesOf(batch[u])
  BY <1>1 DEF WriterInv, Progress
<1>3. /\ draft'[u] = [n \in DOMAIN draft[u] \cup {next[u]} |->
                         IF n = next[u] THEN Version(u) ELSE draft[u][n]]
      /\ \A v \in Uploads \ {u} : draft'[v] = draft[v]
  BY <1>1 DEF WriterInv, TxTypes
<1>4. /\ DOMAIN draft'[u] = DOMAIN draft[u] \cup {next[u]}
      /\ draft'[u][next[u]] = Version(u)
      /\ \A n \in DOMAIN draft[u] : draft'[u][n] = draft[u][n]
  BY <1>2, <1>3
<1>5. /\ \/ pass'[u] = "entities" /\ next'[u] \in NamesOf(batch[u]) \ DOMAIN draft'[u]
         \/ pass'[u] = "lookup" /\ NamesOf(batch[u]) \ DOMAIN draft'[u] = {}
      /\ \A v \in Uploads \ {u} : pass'[v] = pass[v] /\ next'[v] = next[v]
  BY <1>1 DEF Advance, WriterInv, TxTypes
<1>6. \A n \in DOMAIN draft'[u] : draft'[u][n] = RowSoFar(u, n)'
  <2>1. ASSUME NEW n, n = next[u] PROVE draft'[u][n] = RowSoFar(u, n)'
    BY <1>1, <1>4, <1>5, <2>1 DEF Version, Id, RowSoFar, vars, registryVars
  <2>2. ASSUME NEW n \in DOMAIN draft[u] PROVE draft'[u][n] = RowSoFar(u, n)'
    <3>1. draft'[u][n] = RowSoFar(u, n)
      BY <1>2, <1>4, WrittenRows
    <3> QED
      BY <1>1, <1>5, <3>1 DEF RowSoFar, vars, registryVars
  <2>3. \A n \in DOMAIN draft'[u] : n = next[u] \/ n \in DOMAIN draft[u]
    BY <1>4
  <2> QED
    BY <2>1, <2>2, <2>3
<1>7. draft'[u] = [n \in DOMAIN draft'[u] |-> RowSoFar(u, n)']
  <2>1. draft'[u] = [n \in DOMAIN draft'[u] |-> draft'[u][n]]
    BY <1>3
  <2>2. [n \in DOMAIN draft'[u] |-> draft'[u][n]] = [n \in DOMAIN draft'[u] |-> RowSoFar(u, n)']
    BY <1>6
  <2> QED
    BY <2>1, <2>2
<1>8. Progress(u)'
  BY <1>1, <1>2, <1>4, <1>5, <1>7 DEF Progress, vars
<1>9. \A v \in Uploads : Progress(v)'
  BY <1>1, <1>3, <1>5, <1>8, OthersKeep
<1>10. draft'[u][next[u]].business = Id(u)
  BY <1>4 DEF Version
<1>11. \A m \in Names \ {next[u]} : SeenBusiness(u)'[m] = SeenBusiness(u)[m]
  BY <1>1, <1>4 DEF SeenBusiness, vars, registryVars
<1>12. IdsReserved(u)'
  <2> SUFFICES ASSUME NEW n \in DOMAIN draft'[u], draft'[u][n].business # NoId
               PROVE  /\ \A m \in Names \ {n} : SeenBusiness(u)'[m] # draft'[u][n].business
                      /\ \A v \in Uploads \ {u} : \A m \in DOMAIN draft'[v] :
                           draft'[v][m].business # draft'[u][n].business
    BY DEF IdsReserved
  <2>1. CASE n = next[u]
    BY <1>3, <1>10, <1>11, <2>1, IdIsFree
  <2>2. CASE n # next[u]
    <3>1. n \in DOMAIN draft[u] /\ draft'[u][n].business = draft[u][n].business
      BY <1>4, <2>2
    <3>2. /\ \A m \in Names \ {n} : SeenBusiness(u)[m] # draft[u][n].business
          /\ \A v \in Uploads \ {u} : \A m \in DOMAIN draft[v] :
               draft[v][m].business # draft[u][n].business
      BY <3>1 DEF WriterInv, IdsReserved
    <3>3. SeenBusiness(u)'[next[u]] = Id(u) \/ next[u] \notin Names
      BY <1>4, <1>10 DEF SeenBusiness
    <3>4. n \in Names /\ SeenBusiness(u)[n] = draft[u][n].business
      BY <1>2, <3>1 DEF SeenBusiness, NamesOf
    <3>5. draft[u][n].business # Id(u)
      BY <2>2, <3>1, <3>4, IdIsFree
    <3> QED
      BY <1>3, <1>11, <3>1, <3>2, <3>3, <3>5
  <2> QED
    BY <2>1, <2>2
<1>13. ASSUME NEW v \in Uploads \ {u} PROVE IdsReserved(v)'
  <2>1. IdsReserved(v) /\ SeenBusiness(v)' = SeenBusiness(v)
    BY <1>1, <1>3 DEF WriterInv, SeenBusiness, vars, registryVars
  <2> SUFFICES ASSUME NEW n \in DOMAIN draft[v], draft[v][n].business # NoId,
                      NEW w \in Uploads \ {v}, NEW m \in DOMAIN draft'[w]
               PROVE  draft'[w][m].business # draft[v][n].business
    BY <1>3, <2>1 DEF IdsReserved
  <2>2. CASE w = u /\ m = next[u]
    BY <1>10, <2>2, IdIsFree
  <2>3. CASE ~(w = u /\ m = next[u])
    <3>1. m \in DOMAIN draft[w] /\ draft'[w][m] = draft[w][m]
      BY <1>3, <1>4, <2>3
    <3> QED
      BY <2>1, <3>1 DEF IdsReserved
  <2> QED
    BY <2>2, <2>3
<1>14. TxTypes'
  <2>1. /\ pass' \in [Uploads -> {"none", "entities", "lookup", "domestics", "edges"}]
        /\ next' \in [Uploads -> Names \cup {NoName}]
    BY <1>1 DEF Advance, WriterInv, TxTypes, NamesOf
  <2>2. draft' = [v \in Uploads |-> draft'[v]]
    BY <1>1 DEF WriterInv, TxTypes
  <2> QED
    BY <1>1, <2>1, <2>2 DEF WriterInv, TxTypes
<1> QED
  BY <1>1, <1>9, <1>12, <1>13, <1>14 DEF WriterInv, UniqueIds, vars, registryVars

\* The lookup finds every name of the batch, since the transaction sees its rows.
LEMMA LookUpKeeps ==
  ASSUME WriterInv, NEW u \in Uploads, LookUp(u)
  PROVE  WriterInv'
<1>1. /\ pass[u] = "lookup"
      /\ found' = [found EXCEPT ![u] = {n \in Names : SeenType(u)[n] # "absent"}]
      /\ pass' = [pass EXCEPT ![u] = "domestics"]
      /\ UNCHANGED <<vars, next, locked, draft, draftEdges>>
  BY DEF LookUp
<1>2. Progress(u) /\ DOMAIN draft[u] = NamesOf(batch[u])
  BY <1>1 DEF WriterInv, Progress
<1>3. \A n \in NamesOf(batch[u]) : draft[u][n].type = batch[u].type[n]
  BY <1>2, WrittenRows
<1>4. pass'[u] = "domestics" /\ NamesOf(batch[u]) \subseteq found'[u]
  BY <1>1, <1>2, <1>3 DEF WriterInv, TxTypes, SeenType, NamesOf
<1>5. draft'[u] = [n \in DOMAIN draft'[u] |-> RowSoFar(u, n)']
  BY <1>1, <1>2, <1>4, RowsKept
<1>6. Progress(u)'
  BY <1>1, <1>2, <1>4, <1>5 DEF Progress, vars
<1>7. TxTypes'
  BY <1>1 DEF WriterInv, TxTypes
<1>8. \A v \in Uploads \ {u} : pass'[v] = pass[v] /\ found'[v] = found[v]
  BY <1>1 DEF WriterInv, TxTypes
<1> QED
  BY <1>1, <1>6, <1>7, <1>8, NothingWrittenKeeps

\* Pass 2 finds every Domestic Entity of the batch.
LEMMA SetDomesticsKeeps ==
  ASSUME TypeOK, WriterInv, NEW u \in Uploads, SetDomestics(u)
  PROVE  WriterInv'
<1>1. /\ pass[u] = "domestics"
      /\ draft' = [draft EXCEPT ![u] = [n \in DOMAIN draft[u] |-> Resolved(u, n)]]
      /\ pass' = [pass EXCEPT ![u] = "edges"]
      /\ UNCHANGED <<vars, next, locked, found, draftEdges>>
  BY DEF SetDomestics
<1>2. /\ Progress(u)
      /\ DOMAIN draft[u] = NamesOf(batch[u]) /\ NamesOf(batch[u]) \subseteq found[u]
  BY <1>1 DEF WriterInv, Progress
<1>3. pass'[u] = "edges" /\ draft'[u] = [n \in DOMAIN draft[u] |-> Resolved(u, n)]
  BY <1>1 DEF WriterInv, TxTypes
<1>4. \A v \in Uploads \ {u} : pass'[v] = pass[v] /\ draft'[v] = draft[v]
  BY <1>1 DEF WriterInv, TxTypes
<1>5. \A n \in DOMAIN draft[u] : draft[u][n] = RowSoFar(u, n)
  BY <1>2, WrittenRows
<1>6. ASSUME NEW n \in DOMAIN draft[u] PROVE Resolved(u, n) = RowSoFar(u, n)'
  <2>1. batch[u] \in Batches \cup {EmptyBatch} /\ n \in Names
    BY <1>2 DEF TypeOK, NamesOf
  <2>2. batch[u].type[n] = "FQ" => batch[u].domestic[n] \in found[u]
    BY <1>2, <2>1, BatchRefers
  <2>3. Resolved(u, n) = [draft[u][n] EXCEPT !.domestic =
                    IF batch[u].type[n] = "FQ" THEN batch[u].domestic[n] ELSE @]
    BY <2>2 DEF Resolved
  <2>4. draft[u][n] = [type |-> batch[u].type[n], business |-> batch[u].business[n],
                       domestic |-> domestic[n]]
    BY <1>1, <1>5 DEF RowSoFar
  <2>5. Resolved(u, n) = [type |-> batch[u].type[n], business |-> batch[u].business[n],
                  domestic |-> IF batch[u].type[n] = "FQ" THEN batch[u].domestic[n]
                               ELSE domestic[n]]
    BY <2>3, <2>4
  <2> QED
    BY <1>1, <1>3, <2>5 DEF RowSoFar, vars, registryVars
<1>7. draft'[u] = [n \in DOMAIN draft'[u] |-> RowSoFar(u, n)']
  <2>1. DOMAIN draft'[u] = DOMAIN draft[u]
    BY <1>3
  <2>2. [n \in DOMAIN draft[u] |-> Resolved(u, n)] = [n \in DOMAIN draft[u] |-> RowSoFar(u, n)']
    BY <1>6
  <2> QED
    BY <1>3, <2>1, <2>2
<1>8. Progress(u)'
  BY <1>1, <1>2, <1>3, <1>7 DEF Progress, vars
<1>9. \A v \in Uploads : Progress(v)'
  BY <1>1, <1>4, <1>8, OthersKeep
<1>10. /\ DOMAIN draft'[u] = DOMAIN draft[u]
       /\ \A n \in DOMAIN draft[u] : draft'[u][n].business = draft[u][n].business
  <2>1. ASSUME NEW n \in DOMAIN draft[u] PROVE draft'[u][n].business = draft[u][n].business
    <3>1. draft'[u][n] = RowSoFar(u, n)'
      BY <1>3, <1>6
    <3>2. draft'[u][n].business = batch'[u].business[n]
      BY <3>1 DEF RowSoFar
    <3> QED
      BY <1>1, <1>2, <3>2, WrittenRows DEF vars
  <2> QED
    BY <1>3, <2>1
<1>11. \A v \in Uploads :
         /\ DOMAIN draft'[v] = DOMAIN draft[v]
         /\ \A n \in DOMAIN draft[v] : draft'[v][n].business = draft[v][n].business
  BY <1>4, <1>10
<1>12. \A v \in Uploads : SeenBusiness(v)' = SeenBusiness(v)
  BY <1>1, <1>11 DEF SeenBusiness, vars, registryVars
<1>13. \A v \in Uploads : IdsReserved(v)'
  BY <1>11, <1>12 DEF WriterInv, IdsReserved
<1>14. TxTypes'
  BY <1>1 DEF WriterInv, TxTypes
<1> QED
  BY <1>1, <1>9, <1>13, <1>14 DEF WriterInv, UniqueIds, vars, registryVars

\* An edge is written as the batch has it.
LEMMA UpsertEdgeKeeps ==
  ASSUME WriterInv, NEW u \in Uploads, NEW p \in Pairs, UpsertEdge(u, p)
  PROVE  WriterInv'
<1>1. /\ pass[u] = "edges" /\ p \in DOMAIN batch[u].rows
      /\ draftEdges' = [draftEdges EXCEPT ![u] =
           [q \in DOMAIN @ \cup {p} |-> batch[u].rows[q]]]
      /\ UNCHANGED <<vars, pass, next, locked, draft, found>>
  BY DEF UpsertEdge, EdgeRecords
<1>2. Progress(u)
  BY DEF WriterInv
<1>3. /\ draftEdges'[u] = [q \in DOMAIN draftEdges[u] \cup {p} |-> batch[u].rows[q]]
      /\ \A v \in Uploads \ {u} : draftEdges'[v] = draftEdges[v]
  BY <1>1 DEF WriterInv, TxTypes
<1>4. /\ DOMAIN draftEdges'[u] \subseteq DOMAIN batch'[u].rows
      /\ draftEdges'[u] = [q \in DOMAIN draftEdges'[u] |-> batch'[u].rows[q]]
  BY <1>1, <1>2, <1>3 DEF Progress, vars
<1>5. draft'[u] = [n \in DOMAIN draft'[u] |-> RowSoFar(u, n)']
  <2>1. \A n \in DOMAIN draft[u] : RowSoFar(u, n)' = RowSoFar(u, n)
    BY <1>1 DEF RowSoFar, vars, registryVars
  <2>2. [n \in DOMAIN draft'[u] |-> RowSoFar(u, n)'] = [n \in DOMAIN draft[u] |-> RowSoFar(u, n)]
    BY <1>1, <2>1
  <2> QED
    BY <1>1, <1>2, <2>2 DEF Progress
<1>6. Progress(u)'
  BY <1>1, <1>2, <1>4, <1>5 DEF Progress, vars
<1>7. TxTypes'
  BY <1>1 DEF WriterInv, TxTypes
<1> QED
  BY <1>1, <1>3, <1>6, <1>7, NothingWrittenKeeps

\* In the initial state there are no transactions and no IDs.
LEMMA WriterStarts == WriterInit => WriterInv
<1> SUFFICES ASSUME WriterInit PROVE WriterInv
  OBVIOUS
<1>1. TxTypes
  BY DEF WriterInit, TxTypes, NoRows, NoEdges
<1>2. UniqueIds(business)
  BY DEF WriterInit, Init, UniqueIds
<1>3. ASSUME NEW u \in Uploads PROVE Progress(u) /\ IdsReserved(u)
  <2>1. /\ DOMAIN NoRows = {} /\ DOMAIN NoEdges = {}
        /\ pass[u] = "none" /\ locked[u] = {} /\ draft[u] = NoRows /\ draftEdges[u] = NoEdges
    <3>1. DOMAIN NoRows = {} /\ DOMAIN NoEdges = {}
      BY DEF NoRows, NoEdges
    <3> QED
      BY <3>1 DEF WriterInit
  <2>2. \A f : DOMAIN f = {} /\ f = NoRows => f = [n \in {} |-> RowSoFar(u, n)]
    BY DEF NoRows
  <2>3. \A f : DOMAIN f = {} /\ f = NoEdges => f = [p \in {} |-> batch[u].rows[p]]
    BY DEF NoEdges
  <2>4. draft[u] = [n \in DOMAIN draft[u] |-> RowSoFar(u, n)]
    BY <2>1, <2>2
  <2>5. draftEdges[u] = [p \in DOMAIN draftEdges[u] |-> batch[u].rows[p]]
    BY <2>1, <2>3
  <2> QED
    BY <2>1, <2>4, <2>5 DEF Progress, IdsReserved
<1>4. \A u, v \in Uploads : u # v => locked[u] \cap locked[v] = {}
  BY DEF WriterInit
<1> QED
  BY <1>1, <1>2, <1>3, <1>4 DEF WriterInv

\* Every step of the transactions preserves the invariant.
LEMMA WriterStep ==
  ASSUME TypeOK, WriterInv, [WriterNext]_writerVars
  PROVE  WriterInv'
<1>1. CASE UNCHANGED writerVars
  <2>1. ASSUME NEW u \in Uploads PROVE Progress(u)' /\ IdsReserved(u)'
    <3>1. Progress(u) /\ IdsReserved(u)
      BY DEF WriterInv
    <3>2. Progress(u)'
      BY <1>1, <3>1, ProgressKept DEF writerVars, vars, txVars
    <3>3. IdsReserved(u)'
      BY <1>1, <3>1, IdsKept DEF writerVars, vars, txVars
    <3> QED
      BY <3>2, <3>3
  <2> QED
    BY <1>1, <2>1 DEF WriterInv, TxTypes, UniqueIds, writerVars, vars, txVars
<1>2. ASSUME NEW u \in Uploads, Validate(u) PROVE WriterInv'
  BY <1>2, ValidateKeeps
<1>3. ASSUME NEW u \in Uploads, LockRow(u) PROVE WriterInv'
  BY <1>3, LockRowKeeps
<1>4. ASSUME NEW u \in Uploads, PutRow(u) PROVE WriterInv'
  BY <1>4, PutRowKeeps
<1>5. ASSUME NEW u \in Uploads, Proceed(u) PROVE WriterInv'
  BY <1>5, BeginKeeps, LookUpKeeps, SetDomesticsKeeps, UpsertEdgeKeeps, CommitKeeps DEF Proceed
<1>6. ASSUME NEW u \in Uploads, RollBack(u), EndTx(u) PROVE WriterInv'
  <2>1. /\ UNCHANGED <<domestic, business>>
        /\ \A v \in Uploads \ {u} : step'[v] = step[v] /\ batch'[v] = batch[v]
    BY <1>6 DEF RollBack, Leave, TypeOK, registryVars
  <2> QED
    BY <1>6, <2>1, EndKeeps
<1> QED
  BY <1>1, <1>2, <1>3, <1>4, <1>5, <1>6 DEF WriterNext, RejectId, LoseTx, BreakDeadlock

\* An edge refers to entities of its file, which whoever writes the edge has locked.
LEMMA NobodyWaitsForEdges ==
  ASSUME TypeOK, WriterInv
  PROVE  WaitsOnlyInPass1
<1> SUFFICES ASSUME NEW u \in Uploads, NEW v \in Uploads, u # v, WaitsForEdge(u, v)
             PROVE  FALSE
  BY DEF WaitsOnlyInPass1, Waits, WaitsForRow, WaitsForId
<1>1. PICK p \in DOMAIN batch[u].rows : p \in DOMAIN draftEdges[v]
  BY DEF WaitsForEdge
<1>2. pass[u] = "edges" /\ pass[v] = "edges" /\ p \in DOMAIN batch[v].rows
  <2>1. Progress(v)
    BY DEF WriterInv
  <2>2. DOMAIN NoEdges = {}
    BY DEF NoEdges
  <2>3. draftEdges[v] # NoEdges
    BY <1>1, <2>2
  <2> QED
    BY <1>1, <2>1, <2>3 DEF WaitsForEdge, Progress
<1>3. batch[u] \in Batches \cup {EmptyBatch} /\ batch[v] \in Batches \cup {EmptyBatch}
  BY DEF TypeOK
<1>4. p[1] \in NamesOf(batch[u]) /\ p[1] \in NamesOf(batch[v])
  BY <1>1, <1>2, <1>3, BatchRefers
<1>5. p[1] \in locked[u] /\ p[1] \in locked[v]
  BY <1>2, <1>4, AllWritten
<1> QED
  BY <1>5 DEF WriterInv

-------------------------------------------------------------------------------
(* The theorems                                                            *)

\* In every reachable state the rows of a transaction are locked by it alone, are
\* what its batch says, and have business IDs nobody else has or is writing.
THEOREM WritesAreReserved == WriterSpec => []WriterInv
<1>1. WriterInit => TypeOK /\ WriterInv
  BY TypeInit, WriterStarts DEF WriterInit
<1>2. TypeOK /\ WriterInv /\ [WriterNext]_writerVars => TypeOK' /\ WriterInv'
  BY StepRefines, TypeStep, WriterStep
<1> QED
  BY <1>1, <1>2, PTL DEF WriterSpec

\* The transaction, statement by statement and interleaved with any others, is
\* the one step Commit of Registry, or none.
THEOREM WriterRefinesRegistry == WriterSpec => ImplementsRegistry
<1>1. WriterInit => Init
  BY DEF WriterInit
<1>2. TypeOK /\ WriterInv /\ [WriterNext]_writerVars => [Next]_vars
  BY StepRefines
<1>3. WriterInit => TypeOK /\ WriterInv
  BY TypeInit, WriterStarts DEF WriterInit
<1>4. TypeOK /\ WriterInv /\ [WriterNext]_writerVars => TypeOK' /\ WriterInv'
  BY StepRefines, TypeStep, WriterStep
<1> QED
  BY <1>1, <1>2, <1>3, <1>4, PTL DEF WriterSpec, Spec, ImplementsRegistry

\* Two transactions never wait for each other's edges, so no deadlock ever has one
\* that has written its entities.
THEOREM WaitsEndWithPass1 == WriterSpec => []WaitsOnlyInPass1
<1>1. TypeOK /\ WriterInv => WaitsOnlyInPass1
  BY NobodyWaitsForEdges
<1>2. WriterInit => TypeOK /\ WriterInv
  BY TypeInit, WriterStarts DEF WriterInit
<1>3. TypeOK /\ WriterInv /\ [WriterNext]_writerVars => TypeOK' /\ WriterInv'
  BY StepRefines, TypeStep, WriterStep
<1> QED
  BY <1>1, <1>2, <1>3, PTL DEF WriterSpec

\* What validation protects in Registry it protects statement by statement: the
\* graph is sound unless an upload committed on edges that were outdated ...
THEOREM WriterGraphSoundness == WriterSpec => []SoundUnlessOverlapped
<1>1. WriterSpec => Spec
  BY WriterRefinesRegistry DEF ImplementsRegistry
<1> QED
  BY <1>1, GraphSoundness

\* ... and edges and Domestic Entities always have their rows.
THEOREM WriterReferencesResolve == WriterSpec => []ReferencesResolve
<1>1. WriterSpec => Spec
  BY WriterRefinesRegistry DEF ImplementsRegistry
<1> QED
  BY <1>1, ReferencesHaveRows

\* ... and what a transaction has written would pass validation again.
THEOREM WriterReuploads == WriterSpec => ReuploadPasses
<1>1. WriterSpec => Spec
  BY WriterRefinesRegistry DEF ImplementsRegistry
<1> QED
  BY <1>1, ReuploadValidates

\* An ID that the index has in another row is one the check would have found, had
\* it been committed then: within the batch, IDs differ.
LEMMA RejectedIdsAreTaken ==
  ASSUME TypeOK, WriterInv, NEW u \in Uploads, IdRejected(u)
  PROVE  /\ step[u] = "validated"
         /\ \E n \in Names : IdTaken(batch[u], n)
<1>1. Progress(u) /\ batch[u] \in Batches \cup {EmptyBatch} /\ pass[u] = "entities"
  BY DEF WriterInv, TypeOK, IdRejected
<1>2. step[u] = "validated" /\ next[u] \in Names
  BY <1>1 DEF Progress, NamesOf
<1>3. PICK m \in Names \ {next[u]} : SeenBusiness(u)[m] = Id(u)
  BY DEF IdRejected
<1>4. batch[u].business[m] # Id(u)
  <2>1. Id(u) = batch[u].business[next[u]] /\ Id(u) # NoId
    BY DEF Id, IdRejected
  <2> QED
    BY <1>1, <1>2, <2>1 DEF Batches, Consistent, EmptyBatch
<1>5. m \notin DOMAIN draft[u]
  BY <1>1, <1>3, <1>4, WrittenRows DEF SeenBusiness
<1>6. business[m] = batch[u].business[next[u]] /\ batch[u].business[next[u]] # NoId
  BY <1>3, <1>5 DEF SeenBusiness, Id, IdRejected
<1> QED
  BY <1>2, <1>3, <1>6 DEF IdTaken

\* Row by row, the index rejects no upload but one that another's commit overtook
\* after its IDs were looked up.
THEOREM WriterIndexRejections == WriterSpec => []IndexRejectsOnlyOverlaps
<1>1. TypeOK /\ WriterInv /\ IdsInv => IndexRejectsOnlyOverlaps
  BY RejectedIdsAreTaken DEF IdsInv, IndexRejectsOnlyOverlaps
<1>2. WriterSpec => []TypeOK /\ []IdsInv
  BY WriterRefinesRegistry, RegistryTypes, CheckedIdsStayFree, PTL DEF ImplementsRegistry
<1> QED
  BY <1>1, <1>2, WritesAreReserved, PTL

===============================================================================
