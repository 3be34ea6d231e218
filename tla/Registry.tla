------------------------------- MODULE Registry -------------------------------
(***************************************************************************)
(* Uploads onto the registry, POST /upload and POST /upload/async alike:   *)
(* validateUpload reads the owners of the batch's business IDs, then the   *)
(* persisted ownership edges, and collects errors; a batch without errors  *)
(* is written later, in one transaction that does not look again.  Between *)
(* the reads and the transaction any other upload may commit.              *)
(*                                                                         *)
(* A batch here is one the sheet validators accept: names are unique, rows *)
(* and Domestic Entities refer to names of the batch, an FQ has a Domestic *)
(* Entity and no ownership row, both of type 'Entity'.  Filings and the    *)
(* columns no rule relates (status, jurisdiction, dates) are left out.     *)
(***************************************************************************)
EXTENDS UploadBatch

CONSTANT Uploads  \* requests in flight at a time

VARIABLES
  type,       \* entities.registration_type, "absent" without a row
  domestic,   \* entities.domestic_entity_id, as a name
  business,   \* entities.business_id
  edges,      \* ownership_edges: pairs to percentages
  step,       \* where an upload stands
  batch,      \* what it uploads
  errors,     \* has its validation found an error so far?
  staleIds,   \* uploads whose business IDs were read before the last commit
  stale,      \* uploads whose edges were read before the last commit
  overlapped  \* did an upload commit although it was stale?

registryVars == <<type, domestic, business, edges>>
vars == <<type, domestic, business, edges, step, batch, errors, staleIds, stale,
          overlapped>>

Init ==
  /\ type = [n \in Names |-> "absent"]
  /\ domestic = [n \in Names |-> NoName]
  /\ business = [n \in Names |-> NoId]
  /\ edges = [p \in {} |-> 0]
  /\ step = [u \in Uploads |-> "idle"]
  /\ batch = [u \in Uploads |-> EmptyBatch]
  /\ errors = [u \in Uploads |-> FALSE]
  /\ staleIds = {}
  /\ stale = {}
  /\ overlapped = FALSE

-------------------------------------------------------------------------------
(* Validation                                                              *)

\* A request arrives, is parsed, and its sheets pass.
Submit(u) ==
  /\ step[u] = "idle"
  /\ step' = [step EXCEPT ![u] = "businessIds"]
  /\ \E b \in Batches : batch' = [batch EXCEPT ![u] = b]
  /\ UNCHANGED <<registryVars, errors, staleIds, stale, overlapped>>

\* Mutant: rows the batch itself brings up to date are no obstacle.
IdTakenOutsideBatch(b, n) ==
  \E m \in Names \ NamesOf(b) : b.business[n] # NoId /\ business[m] = b.business[n]

\* A business ID of the batch that a row of another name has: ownerNameByBusinessId
IdTaken(b, n) ==
  \E m \in Names \ {n} : b.business[n] # NoId /\ business[m] = b.business[n]

\* Mutant: the errors found are not added to those of the upload.
CheckBusinessIdsUncollected(u) ==
  /\ step[u] = "businessIds"
  /\ step' = [step EXCEPT ![u] = "graph"]
  /\ staleIds' = staleIds \ {u}
  /\ UNCHANGED <<registryVars, batch, errors, stale, overlapped>>

\* validateBusinessIdsAgainstDb
CheckBusinessIds(u) ==
  /\ step[u] = "businessIds"
  /\ errors' = [errors EXCEPT ![u] = \E n \in Names : IdTaken(batch[u], n)]
  /\ step' = [step EXCEPT ![u] = "graph"]
  /\ staleIds' = staleIds \ {u}
  /\ UNCHANGED <<registryVars, batch, stale, overlapped>>

\* Mutant: the upload's rows are judged without the persisted edges.
CheckGraphInIsolation(u) ==
  /\ step[u] = "graph"
  /\ step' = [step EXCEPT ![u] =
       IF errors[u] \/ Cyclic(DOMAIN batch[u].rows)
                    \/ OverOwnedRows([p \in {} |-> 0], batch[u].rows) # {}
         THEN "idle" ELSE "validated"]
  /\ batch' = [batch EXCEPT ![u] = IF step'[u] = "idle" THEN EmptyBatch ELSE @]
  /\ errors' = [errors EXCEPT ![u] = FALSE]
  /\ stale' = stale \ {u}
  /\ UNCHANGED <<registryVars, staleIds, overlapped>>

\* loadExistingEdges, validateOwnershipGraph, and the verdict on the upload: 422
\* with the errors collected, or on to the write.
CheckGraph(u) ==
  /\ step[u] = "graph"
  /\ \E cycleErrors \in CycleVerdicts(DOMAIN edges, DOMAIN batch[u].rows) :
       step' = [step EXCEPT ![u] =
         IF errors[u] \/ cycleErrors \/ OverOwnedRows(edges, batch[u].rows) # {}
           THEN "idle" ELSE "validated"]
  /\ batch' = [batch EXCEPT ![u] = IF step'[u] = "idle" THEN EmptyBatch ELSE @]
  /\ errors' = [errors EXCEPT ![u] = FALSE]
  /\ stale' = stale \ {u}
  /\ UNCHANGED <<registryVars, staleIds, overlapped>>

-------------------------------------------------------------------------------
(* The write as one step; BatchWriter has its statements                   *)

\* Pass 1 upserts the batch's entities, all columns but domestic_entity_id; pass
\* 2 sets that for the FQ rows only; pass 3 upserts the edges.
TypeAfter(b)     == [n \in Names |-> IF n \in NamesOf(b) THEN b.type[n] ELSE type[n]]
BusinessAfter(b) == [n \in Names |-> IF n \in NamesOf(b) THEN b.business[n] ELSE business[n]]
DomesticAfter(b) == [n \in Names |-> IF b.type[n] = "FQ" THEN b.domestic[n] ELSE domestic[n]]

\* The partial unique index on business_id.
UniqueIds(ids) ==
  \A n, m \in Names : ids[n] = ids[m] => n = m \/ ids[n] = NoId

Leave(u) ==
  /\ step' = [step EXCEPT ![u] = "idle"]
  /\ batch' = [batch EXCEPT ![u] = EmptyBatch]
  /\ UNCHANGED errors

\* A commit outdates what the other uploads have read of the tables.
Outdate(u) ==
  /\ staleIds' = {v \in Uploads : step[v] \in {"graph", "validated"}} \ {u}
  /\ stale' = {v \in Uploads : step[v] = "validated"} \ {u}
  /\ overlapped' = (overlapped \/ u \in stale)

\* The transaction commits.
Commit(u) ==
  /\ step[u] = "validated"
  /\ UniqueIds(BusinessAfter(batch[u]))
  /\ type' = TypeAfter(batch[u])
  /\ business' = BusinessAfter(batch[u])
  /\ domestic' = DomesticAfter(batch[u])
  /\ edges' = Merge(edges, batch[u].rows)
  /\ Outdate(u)
  /\ Leave(u)

\* It rolls back: the unique index rejects a row (another upload took the ID
\* meanwhile), a deadlock, a lost connection.
RollBack(u) ==
  /\ step[u] = "validated"
  /\ staleIds' = staleIds \ {u}
  /\ stale' = stale \ {u}
  /\ Leave(u)
  /\ UNCHANGED <<registryVars, overlapped>>

Next == \E u \in Uploads :
  Submit(u) \/ CheckBusinessIds(u) \/ CheckGraph(u) \/ Commit(u) \/ RollBack(u)

Spec == Init /\ [][Next]_vars

-------------------------------------------------------------------------------
(* Properties                                                              *)

TypeOK ==
  /\ type \in [Names -> {"absent", "Entity", "FQ"}]
  /\ domestic \in [Names -> Names \cup {NoName}]
  /\ business \in [Names -> BusinessIds \cup {NoId}]
  /\ DOMAIN edges \subseteq Pairs
  /\ edges \in [DOMAIN edges -> 1 .. FullOwnership]
  /\ step \in [Uploads -> {"idle", "businessIds", "graph", "validated"}]
  /\ batch \in [Uploads -> Batches \cup {EmptyBatch}]
  /\ errors \in [Uploads -> BOOLEAN]
  /\ staleIds \subseteq Uploads
  /\ stale \subseteq Uploads
  /\ overlapped \in BOOLEAN

Sound(pairs) ==
  /\ ~Cyclic(DOMAIN pairs)
  /\ ~\E n \in Names : TotalOf(pairs, n) > FullOwnership

\* The graph is acyclic and nobody is owned beyond 100%, as long as every upload
\* commits before another commit outdates the edges it was validated against.
\* Validation alone protects the graph exactly that far.
SoundUnlessOverlapped == overlapped \/ Sound(edges)

\* Edges and Domestic Entities never point to names without a row.
ReferencesResolve ==
  /\ \A p \in DOMAIN edges : type[p[1]] # "absent" /\ type[p[2]] # "absent"
  /\ \A n \in Names : domestic[n] # NoName => type[domestic[n]] # "absent"

\* README: re-uploading is idempotent, never an error: what was just committed
\* validates against what it left.
Passes(b) ==
  /\ \A n \in Names : ~IdTaken(b, n)
  /\ OverOwnedRows(edges, b.rows) = {}
  /\ ~Cyclic(DOMAIN Merge(edges, b.rows))

ReuploadPasses ==
  [][\A u \in Uploads : \A b \in {batch[u]} :
       Commit(u) => overlapped' \/ Passes(b)']_vars

\* SUBTREE_CTE's child_links: ownership edges, and an FQ under its Domestic Entity.
ChildLinks ==
  DOMAIN edges \cup
    {<<domestic[n], n>> : n \in {m \in Names : type[m] = "FQ" /\ domestic[m] # NoName}}

\* fetchCandidateRoots: top level entities.
CandidateRoots ==
  {n \in Names : type[n] = "Entity" /\ \A p \in DOMAIN edges : p[2] # n}

\* What the comment on SUBTREE_CTE says: the walk down from the roots always
\* terminates, since no loop of child_links can be reached from them.
SubtreeWalkTerminates ==
  \A S \in SUBSET Names : Loops(S, ChildLinks) =>
    \E T \in SUBSET Names :
      /\ CandidateRoots \subseteq T
      /\ \A l \in ChildLinks : l[1] \in T => l[2] \in T
      /\ ~(S \subseteq T)

-------------------------------------------------------------------------------
(* The inductive invariants behind SoundUnlessOverlapped and BatchWriter's *)
(* IndexRejectsOnlyOverlaps                                                *)

\* As long as nothing overlapped, a validated batch that no commit has outdated
\* still fits the persisted edges.
GraphInv ==
  \/ overlapped
  \/ /\ Sound(edges)
     /\ \A u \in Uploads :
          step[u] = "validated" /\ u \notin stale => Sound(Merge(edges, batch[u].rows))

\* Between the check of its IDs and the next commit, a batch has an error or no row
\* of another name has one of its IDs.
IdsInv ==
  /\ UniqueIds(business)
  /\ \A u \in Uploads : errors[u] => step[u] = "graph"
  /\ \A u \in Uploads :
       step[u] \in {"graph", "validated"} /\ u \notin staleIds =>
         errors[u] \/ \A n \in Names : ~IdTaken(batch[u], n)
===============================================================================
