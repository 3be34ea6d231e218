---------------------------- MODULE RegistryProofs ----------------------------
(***************************************************************************)
(* Proofs that the registry keeps its types, that its ownership graph is   *)
(* sound as long as no upload commits on edges another commit outdated,    *)
(* and that the unique index only ever rejects uploads that overlap, for   *)
(* any numbers of uploads, names, business IDs, rows and percentages.      *)
(***************************************************************************)
EXTENDS Registry, TLAPS

-------------------------------------------------------------------------------
(* Types                                                                   *)

\* What can be in flight: an upload's batch, or none.
LEMMA BatchTypes ==
  ASSUME NEW b \in Batches \cup {EmptyBatch}
  PROVE  /\ b.type \in [Names -> {"absent", "Entity", "FQ"}]
         /\ b.domestic \in [Names -> Names \cup {NoName}]
         /\ b.business \in [Names -> BusinessIds \cup {NoId}]
         /\ DOMAIN b.rows \subseteq Pairs
         /\ b.rows \in [DOMAIN b.rows -> 1 .. FullOwnership]
<1>1. CASE b = EmptyBatch
  BY <1>1 DEF EmptyBatch
<1>2. CASE b \in Batches
  <2>1. /\ b.type \in [Names -> Types \cup {"absent"}]
        /\ b.domestic \in [Names -> Names \cup {NoName}]
        /\ b.business \in [Names -> BusinessIds \cup {NoId}]
        /\ b.rows \in EdgeSets
    BY <1>2 DEF Batches, BatchShapes, Consistent
  <2>2. PICK D \in SUBSET Pairs : b.rows \in [D -> Percentages]
    BY <2>1 DEF EdgeSets
  <2>3. Percentages \subseteq 1 .. FullOwnership /\ Types \subseteq {"Entity", "FQ"}
    BY BatchAssumption
  <2>4. DOMAIN b.rows = D
    BY <2>2
  <2>5. b.rows \in [DOMAIN b.rows -> 1 .. FullOwnership]
    BY <2>2, <2>3, <2>4
  <2>6. b.type \in [Names -> {"absent", "Entity", "FQ"}]
    BY <2>1, <2>3
  <2> QED
    BY <2>1, <2>2, <2>4, <2>5, <2>6
<1> QED
  BY <1>1, <1>2

\* Merging an upload's rows keeps the table's type.
LEMMA MergeTypes ==
  ASSUME NEW existing, NEW rows,
         DOMAIN existing \subseteq Pairs, existing \in [DOMAIN existing -> 1 .. FullOwnership],
         DOMAIN rows \subseteq Pairs, rows \in [DOMAIN rows -> 1 .. FullOwnership]
  PROVE  /\ DOMAIN Merge(existing, rows) \subseteq Pairs
         /\ Merge(existing, rows) \in [DOMAIN Merge(existing, rows) -> 1 .. FullOwnership]
  BY DEF Merge

\* The registry starts empty.
LEMMA TypeInit == Init => TypeOK
  BY DEF Init, TypeOK, EmptyBatch

\* Every action keeps the types.
LEMMA TypeStep ==
  ASSUME TypeOK, [Next]_vars
  PROVE  TypeOK'
<1> USE DEF TypeOK
<1>1. CASE UNCHANGED vars
  BY <1>1 DEF vars
<1>2. ASSUME NEW u \in Uploads, Submit(u) PROVE TypeOK'
  BY <1>2 DEF Submit, registryVars
<1>3. ASSUME NEW u \in Uploads, CheckBusinessIds(u) PROVE TypeOK'
  <2>1. (\E n \in Names : IdTaken(batch[u], n)) \in BOOLEAN
    OBVIOUS
  <2> QED
    BY <1>3, <2>1 DEF CheckBusinessIds, registryVars
<1>4. ASSUME NEW u \in Uploads, CheckGraph(u) PROVE TypeOK'
  <2>1. step'[u] \in {"idle", "validated"} /\ step' = [step EXCEPT ![u] = step'[u]]
    BY <1>4 DEF CheckGraph
  <2> QED
    BY <1>4, <2>1 DEF CheckGraph, registryVars
<1>5. ASSUME NEW u \in Uploads, Commit(u) PROVE TypeOK'
  <2>1. batch[u] \in Batches \cup {EmptyBatch}
    OBVIOUS
  <2> DEFINE b == batch[u]
  <2>2. /\ b.type \in [Names -> {"absent", "Entity", "FQ"}]
        /\ b.domestic \in [Names -> Names \cup {NoName}]
        /\ b.business \in [Names -> BusinessIds \cup {NoId}]
        /\ DOMAIN b.rows \subseteq Pairs
        /\ b.rows \in [DOMAIN b.rows -> 1 .. FullOwnership]
    BY <2>1, BatchTypes
  <2>3. /\ DOMAIN Merge(edges, b.rows) \subseteq Pairs
        /\ Merge(edges, b.rows) \in [DOMAIN Merge(edges, b.rows) -> 1 .. FullOwnership]
    BY <2>2, MergeTypes
  <2>4. DOMAIN edges' \subseteq Pairs /\ edges' \in [DOMAIN edges' -> 1 .. FullOwnership]
    BY <1>5, <2>3 DEF Commit, Outdate
  <2>5. type' \in [Names -> {"absent", "Entity", "FQ"}]
    BY <1>5, <2>2 DEF Commit, TypeAfter
  <2>6. domestic' \in [Names -> Names \cup {NoName}]
    BY <1>5, <2>2 DEF Commit, DomesticAfter
  <2>7. business' \in [Names -> BusinessIds \cup {NoId}]
    BY <1>5, <2>2 DEF Commit, BusinessAfter
  <2>8. /\ step' \in [Uploads -> {"idle", "businessIds", "graph", "validated"}]
        /\ errors' \in [Uploads -> BOOLEAN]
        /\ staleIds' \subseteq Uploads
        /\ stale' \subseteq Uploads
        /\ overlapped' \in BOOLEAN
    BY <1>5 DEF Commit, Outdate, Leave
  <2>9. batch' \in [Uploads -> Batches \cup {EmptyBatch}]
    BY <1>5 DEF Commit, Outdate, Leave
  <2> QED
    BY <2>4, <2>5, <2>6, <2>7, <2>8, <2>9
<1>6. ASSUME NEW u \in Uploads, RollBack(u) PROVE TypeOK'
  BY <1>6 DEF RollBack, Leave, registryVars
<1> QED
  BY <1>1, <1>2, <1>3, <1>4, <1>5, <1>6 DEF Next

\* Table columns and uploads keep their types in every reachable state.
THEOREM RegistryTypes == Spec => []TypeOK
<1>1. TypeOK /\ [Next]_vars => TypeOK'
  BY TypeStep
<1> QED
  BY TypeInit, <1>1, PTL DEF Spec

-------------------------------------------------------------------------------
(* The ownership graph                                                     *)

\* A merge that closes no cycle and makes no child of its rows over-owned keeps
\* a sound graph sound: other children keep their totals.
LEMMA MergeKeepsSound ==
  ASSUME NEW existing, NEW rows, Sound(existing),
         ~Cyclic(DOMAIN Merge(existing, rows)), OverOwnedRows(existing, rows) = {}
  PROVE  Sound(Merge(existing, rows))
<1> DEFINE merged == Merge(existing, rows)
<1>1. ASSUME NEW n \in Names, NEW p \in DOMAIN rows, p[2] = n
      PROVE  ~(TotalOf(merged, n) > FullOwnership)
  BY <1>1 DEF OverOwnedRows
<1>2. ASSUME NEW n \in Names, ~\E p \in DOMAIN rows : p[2] = n
      PROVE  ~(TotalOf(merged, n) > FullOwnership)
  <2>1. {q \in DOMAIN merged : q[2] = n} = {q \in DOMAIN existing : q[2] = n}
    BY <1>2 DEF Merge
  <2>2. \A q \in {r \in DOMAIN existing : r[2] = n} : merged[q] = existing[q]
    BY <1>2 DEF Merge
  <2>3. Holdings(merged, n) = Holdings(existing, n)
    BY <2>1, <2>2 DEF Holdings
  <2>4. TotalOf(merged, n) = TotalOf(existing, n)
    BY <2>3 DEF TotalOf
  <2> QED
    BY <2>4 DEF Sound
<1>3. ~\E n \in Names : TotalOf(merged, n) > FullOwnership
  BY <1>1, <1>2
<1> QED
  BY <1>3 DEF Sound

\* Nobody holds nothing: the fold over no holdings is its base.
LEMMA EmptyTotal ==
  ASSUME NEW holdings, DOMAIN holdings = {}
  PROVE  Total(holdings) = 0
<1> DEFINE Rec(f) ==
      [s \in SUBSET {} |->
         IF s = {} THEN 0
         ELSE LET x == CHOOSE y \in s : TRUE IN holdings[x] + f[s \ {x}]]
<1>1. Total(holdings) = (CHOOSE f : f = Rec(f))[DOMAIN holdings]
  BY DEF Total, FoldFunction, FoldFunctionOnSet, MapThenFoldSet
<1>2. PICK g : g = [s \in SUBSET {} |-> 0]
  OBVIOUS
<1>3. g = Rec(g)
  BY <1>2
<1>4. \A f : f = Rec(f) => f[{}] = 0
  OBVIOUS
<1> QED
  BY <1>1, <1>3, <1>4

\* The registry starts without edges: nobody owns, and nobody is owned.
LEMMA GraphInit == Init => GraphInv
<1> SUFFICES ASSUME Init PROVE Sound(edges)
  BY DEF Init, GraphInv
<1>1. DOMAIN edges = {}
  BY DEF Init
<1>2. ~Cyclic(DOMAIN edges)
  BY <1>1 DEF Cyclic, Loops
<1>3. ASSUME NEW n \in Names PROVE TotalOf(edges, n) = 0
  <2>1. DOMAIN Holdings(edges, n) = {}
    BY <1>1 DEF Holdings
  <2> QED
    BY <2>1, EmptyTotal DEF TotalOf
<1> QED
  BY <1>2, <1>3 DEF Sound, FullOwnership

\* What an upload was validated against is what it is merged into, unless another
\* upload commits in between: every action keeps GraphInv.
LEMMA GraphStep ==
  ASSUME TypeOK, GraphInv, [Next]_vars
  PROVE  GraphInv'
<1>1. CASE UNCHANGED vars
  BY <1>1 DEF vars, GraphInv, Sound
<1>2. ASSUME NEW u \in Uploads, Submit(u) PROVE GraphInv'
  <2>1. \A v \in Uploads : step'[v] = "validated" => step[v] = "validated" /\ batch'[v] = batch[v]
    BY <1>2 DEF Submit, TypeOK
  <2> QED
    BY <1>2, <2>1 DEF Submit, registryVars, GraphInv, Sound
<1>3. ASSUME NEW u \in Uploads, CheckBusinessIds(u) PROVE GraphInv'
  <2>1. \A v \in Uploads : step'[v] = "validated" => step[v] = "validated"
    BY <1>3 DEF CheckBusinessIds, TypeOK
  <2> QED
    BY <1>3, <2>1 DEF CheckBusinessIds, registryVars, GraphInv, Sound
<1>4. ASSUME NEW u \in Uploads, CheckGraph(u) PROVE GraphInv'
  <2> SUFFICES ASSUME ~overlapped PROVE GraphInv'
    BY <1>4 DEF CheckGraph, GraphInv
  <2>1. Sound(edges) /\ UNCHANGED edges
    BY <1>4 DEF GraphInv, CheckGraph, registryVars
  <2>2. ASSUME step'[u] = "validated" PROVE Sound(Merge(edges, batch[u].rows)) /\ batch'[u] = batch[u]
    <3>1. PICK cycleErrors \in CycleVerdicts(DOMAIN edges, DOMAIN batch[u].rows) :
            step'[u] = IF errors[u] \/ cycleErrors \/ OverOwnedRows(edges, batch[u].rows) # {}
                         THEN "idle" ELSE "validated"
      BY <1>4 DEF CheckGraph, TypeOK
    <3>2. ~cycleErrors /\ OverOwnedRows(edges, batch[u].rows) = {}
      BY <2>2, <3>1
    <3>3. ~Cyclic(DOMAIN Merge(edges, batch[u].rows))
      <4>1. DOMAIN Merge(edges, batch[u].rows) = DOMAIN edges \cup DOMAIN batch[u].rows
        BY DEF Merge
      <4> QED
        BY <2>1, <3>2, <4>1, Zenon DEF CycleVerdicts, Sound
    <3>4. batch'[u] = batch[u]
      BY <1>4, <2>2 DEF CheckGraph, TypeOK
    <3> QED
      BY <2>1, <3>2, <3>3, <3>4, MergeKeepsSound
  <2>3. ASSUME NEW v \in Uploads, v # u
        PROVE  step'[v] = step[v] /\ batch'[v] = batch[v] /\ (v \in stale' <=> v \in stale)
    BY <1>4, <2>3 DEF CheckGraph, TypeOK
  <2>4. ASSUME NEW v \in Uploads, step'[v] = "validated", v \notin stale'
        PROVE  Sound(Merge(edges, batch'[v].rows))
    BY <2>2, <2>3, <2>4 DEF GraphInv
  <2> QED
    BY <2>1, <2>4 DEF GraphInv, Sound
<1>5. ASSUME NEW u \in Uploads, Commit(u) PROVE GraphInv'
  <2> SUFFICES ASSUME ~overlapped, u \notin stale PROVE GraphInv'
    BY <1>5 DEF Commit, Outdate, GraphInv
  <2>1. Sound(Merge(edges, batch[u].rows)) /\ edges' = Merge(edges, batch[u].rows)
    BY <1>5 DEF Commit, Outdate, GraphInv
  <2>2. ASSUME NEW v \in Uploads, step'[v] = "validated" PROVE v \in stale'
    BY <1>5, <2>2 DEF Commit, Outdate, Leave, TypeOK
  <2> QED
    BY <2>1, <2>2 DEF GraphInv, Sound
<1>6. ASSUME NEW u \in Uploads, RollBack(u) PROVE GraphInv'
  <2>1. \A v \in Uploads : step'[v] = "validated" =>
          step[v] = "validated" /\ batch'[v] = batch[v] /\ (v \in stale' <=> v \in stale)
    BY <1>6 DEF RollBack, Leave, TypeOK
  <2> QED
    BY <1>6, <2>1 DEF RollBack, registryVars, GraphInv, Sound
<1> QED
  BY <1>1, <1>2, <1>3, <1>4, <1>5, <1>6 DEF Next

\* Uploads that do not overlap leave the ownership graph acyclic and nobody owned
\* beyond 100%, and what they validated still holds when they commit.
THEOREM ValidatedStaysSound == Spec => []GraphInv
<1>1. TypeOK /\ GraphInv /\ [Next]_vars => GraphInv'
  BY GraphStep
<1> QED
  BY GraphInit, RegistryTypes, <1>1, PTL DEF Spec

\* The graph is sound in every state until an upload commits on outdated edges.
THEOREM GraphSoundness == Spec => []SoundUnlessOverlapped
<1>1. GraphInv => SoundUnlessOverlapped
  BY DEF GraphInv, SoundUnlessOverlapped
<1> QED
  BY ValidatedStaysSound, <1>1, PTL

-------------------------------------------------------------------------------
(* Business IDs                                                            *)

\* Every action keeps IdsInv.
LEMMA IdsStep ==
  ASSUME TypeOK, IdsInv, [Next]_vars
  PROVE  IdsInv'
<1>1. CASE UNCHANGED vars
  BY <1>1 DEF vars, IdsInv, UniqueIds, IdTaken
<1>2. ASSUME NEW u \in Uploads, Submit(u) PROVE IdsInv'
  <2>1. \A v \in Uploads : step'[v] = IF v = u THEN "businessIds" ELSE step[v]
    BY <1>2 DEF Submit, TypeOK
  <2>2. \A v \in Uploads \ {u} : batch'[v] = batch[v]
    BY <1>2 DEF Submit, TypeOK
  <2>3. UNCHANGED <<business, errors, staleIds>> /\ step[u] = "idle"
    BY <1>2 DEF Submit, registryVars
  <2> QED
    BY <2>1, <2>2, <2>3 DEF IdsInv, UniqueIds, IdTaken
<1>3. ASSUME NEW u \in Uploads, CheckBusinessIds(u) PROVE IdsInv'
  <2>1. \A v \in Uploads : step'[v] = IF v = u THEN "graph" ELSE step[v]
    BY <1>3 DEF CheckBusinessIds, TypeOK
  <2>2. UNCHANGED <<business, batch>>
    BY <1>3 DEF CheckBusinessIds, registryVars
  <2>3. \A v \in Uploads \ {u} : errors'[v] = errors[v] /\ (v \in staleIds' <=> v \in staleIds)
    BY <1>3 DEF CheckBusinessIds, TypeOK
  <2>4. errors'[u] \/ \A n \in Names : ~IdTaken(batch[u], n)
    <3>1. CASE \E n \in Names : IdTaken(batch[u], n)
      BY <1>3, <3>1 DEF CheckBusinessIds, TypeOK
    <3> QED
      BY <3>1
  <2> QED
    BY <2>1, <2>2, <2>3, <2>4 DEF IdsInv, UniqueIds, IdTaken
<1>4. ASSUME NEW u \in Uploads, CheckGraph(u) PROVE IdsInv'
  <2>1. \A v \in Uploads \ {u} :
          step'[v] = step[v] /\ batch'[v] = batch[v] /\ errors'[v] = errors[v]
    BY <1>4 DEF CheckGraph, TypeOK
  <2>2. UNCHANGED <<business, staleIds>> /\ step[u] = "graph" /\ errors'[u] = FALSE
    BY <1>4 DEF CheckGraph, registryVars, TypeOK
  <2>3. step'[u] \in {"graph", "validated"} => ~errors[u] /\ batch'[u] = batch[u]
    BY <1>4 DEF CheckGraph, TypeOK
  <2> QED
    BY <2>1, <2>2, <2>3 DEF IdsInv, UniqueIds, IdTaken
<1>5. ASSUME NEW u \in Uploads, Commit(u) PROVE IdsInv'
  <2>1. UniqueIds(business)'
    BY <1>5 DEF Commit, UniqueIds
  <2>2. \A v \in Uploads : step'[v] = IF v = u THEN "idle" ELSE step[v]
    BY <1>5 DEF Commit, Outdate, Leave, TypeOK
  <2>3. \A v \in Uploads : step'[v] \in {"graph", "validated"} => v \in staleIds'
    BY <1>5, <2>2 DEF Commit, Outdate
  <2>4. UNCHANGED errors /\ step[u] = "validated"
    BY <1>5 DEF Commit, Outdate, Leave
  <2> QED
    BY <2>1, <2>2, <2>3, <2>4 DEF IdsInv
<1>6. ASSUME NEW u \in Uploads, RollBack(u) PROVE IdsInv'
  <2>1. \A v \in Uploads : step'[v] = IF v = u THEN "idle" ELSE step[v]
    BY <1>6 DEF RollBack, Leave, TypeOK
  <2>2. \A v \in Uploads \ {u} : batch'[v] = batch[v] /\ (v \in staleIds' <=> v \in staleIds)
    BY <1>6 DEF RollBack, Leave, TypeOK
  <2>3. UNCHANGED <<business, errors>> /\ step[u] = "validated"
    BY <1>6 DEF RollBack, Leave, registryVars
  <2> QED
    BY <2>1, <2>2, <2>3 DEF IdsInv, UniqueIds, IdTaken
<1> QED
  BY <1>1, <1>2, <1>3, <1>4, <1>5, <1>6 DEF Next

\* No business ID is in the empty registry.
LEMMA IdsInit == Init => IdsInv
  BY DEF Init, IdsInv, UniqueIds

\* Once checked without an error, an upload's IDs belong to no row of another
\* name until another upload commits.
THEOREM CheckedIdsStayFree == Spec => []IdsInv
<1>1. TypeOK /\ IdsInv /\ [Next]_vars => IdsInv'
  BY IdsStep
<1> QED
  BY IdsInit, RegistryTypes, <1>1, PTL DEF Spec

-------------------------------------------------------------------------------
(* References between rows                                                 *)

\* Rows and Domestic Entities of a batch refer to names of the batch.
LEMMA BatchRefers ==
  ASSUME NEW b \in Batches \cup {EmptyBatch}
  PROVE  /\ \A p \in DOMAIN b.rows : p[1] \in NamesOf(b) /\ p[2] \in NamesOf(b)
         /\ \A n \in Names : b.type[n] = "FQ" => b.domestic[n] \in NamesOf(b)
         /\ b.rows = [p \in DOMAIN b.rows |-> b.rows[p]]
<1>1. CASE b = EmptyBatch
  BY <1>1 DEF EmptyBatch
<1>2. CASE b \in Batches
  <2>1. Consistent(b) /\ b.domestic \in [Names -> Names \cup {NoName}]
    BY <1>2 DEF Batches, BatchShapes
  <2>2. DOMAIN b.rows \subseteq Pairs /\ b.rows = [p \in DOMAIN b.rows |-> b.rows[p]]
    BY BatchTypes
  <2>3. \A p \in DOMAIN b.rows : p[1] \in NamesOf(b) /\ p[2] \in NamesOf(b)
    BY <2>1, <2>2 DEF Consistent, NamesOf, Pairs
  <2>4. \A n \in Names : b.type[n] = "FQ" => b.domestic[n] \in NamesOf(b)
    BY <2>1 DEF Consistent, NamesOf
  <2> QED
    BY <2>2, <2>3, <2>4
<1> QED
  BY <1>1, <1>2

\* A commit writes the rows its own references need and takes none away.
LEMMA ReferencesStep ==
  ASSUME TypeOK, ReferencesResolve, [Next]_vars
  PROVE  ReferencesResolve'
<1>1. CASE UNCHANGED registryVars
  BY <1>1 DEF ReferencesResolve, registryVars
<1>2. ASSUME NEW u \in Uploads, Commit(u) PROVE ReferencesResolve'
  <2>1. batch[u] \in Batches \cup {EmptyBatch}
    BY DEF TypeOK
  <2>2. /\ type' = TypeAfter(batch[u])
        /\ domestic' = DomesticAfter(batch[u])
        /\ edges' = Merge(edges, batch[u].rows)
    BY <1>2 DEF Commit
  <2>3. \A n \in NamesOf(batch[u]) : type'[n] # "absent"
    BY <2>2 DEF TypeAfter, NamesOf
  <2>4. \A n \in Names : type[n] # "absent" => type'[n] # "absent"
    BY <2>2 DEF TypeAfter, NamesOf
  <2>5. ASSUME NEW p \in DOMAIN edges' PROVE type'[p[1]] # "absent" /\ type'[p[2]] # "absent"
    <3>1. CASE p \in DOMAIN batch[u].rows
      BY <2>1, <2>3, <3>1, BatchRefers
    <3>2. CASE p \in DOMAIN edges
      <4>1. p[1] \in Names /\ p[2] \in Names
        BY <3>2 DEF TypeOK, Pairs
      <4> QED
        BY <2>4, <3>2, <4>1 DEF ReferencesResolve
    <3> QED
      BY <2>2, <3>1, <3>2 DEF Merge
  <2>6. ASSUME NEW n \in Names, domestic'[n] # NoName PROVE type'[domestic'[n]] # "absent"
    <3>1. CASE batch[u].type[n] = "FQ"
      BY <2>1, <2>2, <2>3, <3>1, BatchRefers DEF DomesticAfter
    <3>2. CASE batch[u].type[n] # "FQ"
      <4>1. domestic'[n] = domestic[n] /\ domestic[n] \in Names
        BY <2>2, <2>6, <3>2 DEF DomesticAfter, TypeOK
      <4> QED
        BY <2>4, <2>6, <4>1 DEF ReferencesResolve
    <3> QED
      BY <3>1, <3>2
  <2> QED
    BY <2>5, <2>6 DEF ReferencesResolve
<1> QED
  BY <1>1, <1>2 DEF Next, Submit, CheckBusinessIds, CheckGraph, RollBack, vars, registryVars

\* No upload, however it is interleaved, leaves an edge or a Domestic Entity that
\* points to a name without a row.
THEOREM ReferencesHaveRows == Spec => []ReferencesResolve
<1>1. Init => ReferencesResolve
  BY DEF Init, ReferencesResolve
<1>2. TypeOK /\ ReferencesResolve /\ [Next]_vars => ReferencesResolve'
  BY ReferencesStep
<1> QED
  BY <1>1, <1>2, RegistryTypes, PTL DEF Spec

-------------------------------------------------------------------------------
(* Uploading again                                                         *)

\* Rows merged in before change nothing when merged in again.
LEMMA MergeTwice ==
  ASSUME NEW existing, NEW rows
  PROVE  Merge(Merge(existing, rows), rows) = Merge(existing, rows)
<1> DEFINE M == Merge(existing, rows)
<1>1. /\ DOMAIN M = DOMAIN existing \cup DOMAIN rows
      /\ M = [p \in DOMAIN M |-> M[p]]
      /\ \A p \in DOMAIN rows : M[p] = rows[p]
  BY DEF Merge
<1> HIDE DEF M
<1>2. Merge(M, rows) = [p \in DOMAIN M |-> IF p \in DOMAIN rows THEN rows[p] ELSE M[p]]
  BY <1>1 DEF Merge
<1>3. Merge(M, rows) = [p \in DOMAIN M |-> M[p]]
  BY <1>1, <1>2
<1> QED
  BY <1>1, <1>3 DEF M

\* What a commit leaves sound, with the index it asked, lets its batch pass again.
LEMMA CommittedPasses ==
  ASSUME TypeOK, NEW u \in Uploads, Commit(u), Sound(edges)'
  PROVE  \A c \in {batch[u]} : Passes(c)'
<1> DEFINE b == batch[u]
<1>1. b \in Batches \cup {EmptyBatch}
  BY DEF TypeOK
<1>2. edges' = Merge(edges, b.rows) /\ business' = BusinessAfter(b) /\ UniqueIds(BusinessAfter(b))
  BY DEF Commit
<1>3. ASSUME NEW n \in Names, NEW m \in Names \ {n},
             b.business[n] # NoId, business'[m] = b.business[n]
      PROVE  FALSE
  <2>1. n \in NamesOf(b)
    BY <1>1, <1>3 DEF Batches, Consistent, EmptyBatch, NamesOf
  <2>2. business'[n] = b.business[n]
    BY <1>2, <2>1 DEF BusinessAfter
  <2> QED
    BY <1>2, <1>3, <2>2 DEF UniqueIds
<1>4. Merge(edges', b.rows) = edges'
  BY <1>2, MergeTwice
<1>5. ASSUME NEW p \in DOMAIN b.rows
      PROVE  ~(TotalOf(edges', p[2]) > FullOwnership)
  <2>1. p[2] \in Names
    BY <1>1, BatchTypes DEF Pairs
  <2> QED
    BY <2>1 DEF Sound
<1>6. ~Cyclic(DOMAIN edges')
  BY DEF Sound
<1> HIDE DEF b
<1>7. OverOwnedRows(edges', b.rows) = {}
  BY <1>4, <1>5 DEF OverOwnedRows
<1>8. \A n \in Names : ~ \E m \in Names \ {n} : b.business[n] # NoId /\ business'[m] = b.business[n]
  BY <1>3
<1>9. ASSUME NEW c \in {batch[u]} PROVE Passes(c)'
  <2>1. c = b
    BY DEF b
  <2> QED
    BY <1>4, <1>6, <1>7, <1>8, <2>1 DEF Passes, IdTaken
<1> QED
  BY <1>9

\* README: re-uploading is idempotent, never an error.  What an upload has just
\* committed, on edges nobody had outdated, would pass validation again.
THEOREM ReuploadValidates == Spec => ReuploadPasses
<1> DEFINE Again == \A u \in Uploads : \A b \in {batch[u]} :
              Commit(u) => overlapped' \/ Passes(b)'
<1>1. TypeOK /\ GraphInv' => Again
  <2> SUFFICES ASSUME TypeOK, GraphInv', NEW u \in Uploads, Commit(u), ~overlapped'
               PROVE  \A b \in {batch[u]} : Passes(b)'
    OBVIOUS
  <2>1. Sound(edges)'
    BY DEF GraphInv
  <2> QED
    BY <2>1, CommittedPasses
<1>2. TypeOK /\ GraphInv' => [Again]_vars
  BY <1>1
<1> HIDE DEF Again
<1>3. [][Again]_vars => ReuploadPasses
  BY PTL DEF Again, ReuploadPasses
<1> QED
  BY <1>2, <1>3, RegistryTypes, ValidatedStaysSound, PTL

===============================================================================
