----------------------------- MODULE BatchWriter -----------------------------
(***************************************************************************)
(* The transaction of an upload statement by statement, as processUpload   *)
(* and writeUploadBatch execute it: pass 1 upserts the entities row by     *)
(* row, a query looks up the ids of all names, pass 2 sets the Domestic    *)
(* Entities, pass 3 upserts the edges.  Nothing of it is visible to others *)
(* before the commit; the rows it has written stay locked until then, at   *)
(* READ COMMITTED.  It implements the one step Commit of Registry, whose   *)
(* validation steps are used as they are.                                  *)
(*                                                                         *)
(* Waiting is PostgreSQL's: an upsert waits for the transaction that holds *)
(* the row's key, then for one that writes or replaces a row of the same   *)
(* business ID; of uploads that wait for each other one is rolled back.    *)
(***************************************************************************)
EXTENDS Registry

VARIABLES
  pass,        \* the pass of the transaction, "none" outside of one
  next,        \* the entities row pass 1 is at, in the order of the file
  locked,      \* names whose rows it has locked
  draft,       \* row versions it has written, none of them committed
  found,       \* idByName: the names whose ids the lookup returned
  draftEdges   \* ownership rows it has written

txVars == <<pass, next, locked, draft, found, draftEdges>>
writerVars == <<vars, txVars>>

NoRows == [n \in {} |-> NoName]
NoEdges == [p \in {} |-> 0]

WriterInit ==
  /\ Init
  /\ pass = [u \in Uploads |-> "none"]
  /\ next = [u \in Uploads |-> NoName]
  /\ locked = [u \in Uploads |-> {}]
  /\ draft = [u \in Uploads |-> NoRows]
  /\ found = [u \in Uploads |-> {}]
  /\ draftEdges = [u \in Uploads |-> NoEdges]

-------------------------------------------------------------------------------
(* Waiting                                                                 *)

\* The columns as the transaction sees them: what it has written, else what is
\* committed.
SeenType(u)     == [n \in Names |-> IF n \in DOMAIN draft[u] THEN draft[u][n].type ELSE type[n]]
SeenBusiness(u) == [n \in Names |-> IF n \in DOMAIN draft[u] THEN draft[u][n].business ELSE business[n]]
SeenDomestic(u) == [n \in Names |-> IF n \in DOMAIN draft[u] THEN draft[u][n].domestic ELSE domestic[n]]

Id(u) == batch[u].business[next[u]]

\* Another transaction has locked the row, holds its business ID in the index
\* (by a version not committed or by one it replaces), or has written the edge.
WaitsForRow(u, v) ==
  pass[u] = "entities" /\ next[u] \notin locked[u] /\ next[u] \in locked[v]

WaitsForId(u, v) ==
  /\ pass[u] = "entities" /\ next[u] \in locked[u]
  /\ Id(u) # NoId
  /\ \E m \in DOMAIN draft[v] \ {next[u]} : Id(u) \in {draft[v][m].business, business[m]}

WaitsForEdge(u, v) ==
  /\ pass[u] = "edges"
  /\ \E p \in DOMAIN batch[u].rows \ DOMAIN draftEdges[u] : p \in DOMAIN draftEdges[v]

Waits(u, v) == u # v /\ (WaitsForRow(u, v) \/ WaitsForId(u, v) \/ WaitsForEdge(u, v))

\* The unique index has the ID in a row nobody is changing.
IdRejected(u) ==
  /\ pass[u] = "entities" /\ next[u] \in locked[u]
  /\ Id(u) # NoId
  /\ \E m \in Names \ {next[u]} :
       /\ SeenBusiness(u)[m] = Id(u)
       /\ \A v \in Uploads \ {u} : m \notin DOMAIN draft[v]

\* Uploads each of which waits for another one of them.
Deadlocked(S) == S # {} /\ \A u \in S : \E v \in S : Waits(u, v)

-------------------------------------------------------------------------------
(* The transaction                                                         *)

\* On to another row of the file, or to the lookup after the last: any order of
\* the rows may be that of the file.
Advance(u, left) ==
  \/ \E n \in left : /\ next' = [next EXCEPT ![u] = n]
                     /\ pass' = [pass EXCEPT ![u] = "entities"]
  \/ /\ left = {}
     /\ next' = [next EXCEPT ![u] = NoName]
     /\ pass' = [pass EXCEPT ![u] = "lookup"]

Begin(u) ==
  /\ step[u] = "validated" /\ pass[u] = "none"
  /\ Advance(u, NamesOf(batch[u]))
  /\ UNCHANGED <<vars, locked, draft, found, draftEdges>>

\* Pass 1, ON CONFLICT (entity_name_key): the row is locked ...
LockRow(u) ==
  /\ pass[u] = "entities" /\ next[u] \notin locked[u]
  /\ \A v \in Uploads : ~Waits(u, v)
  /\ locked' = [locked EXCEPT ![u] = @ \cup {next[u]}]
  /\ UNCHANGED <<vars, pass, next, draft, found, draftEdges>>

\* ... and inserted or updated, all columns but domestic_entity_id.
Version(u) ==
  [type |-> batch[u].type[next[u]], business |-> Id(u), domestic |-> domestic[next[u]]]

PutRow(u) ==
  /\ pass[u] = "entities" /\ next[u] \in locked[u]
  /\ \A v \in Uploads : ~Waits(u, v)
  /\ ~IdRejected(u)
  /\ draft' = [draft EXCEPT ![u] =
       [n \in DOMAIN draft[u] \cup {next[u]} |->
          IF n = next[u] THEN Version(u) ELSE draft[u][n]]]
  /\ Advance(u, NamesOf(batch[u]) \ DOMAIN draft'[u])
  /\ UNCHANGED <<vars, locked, found, draftEdges>>

\* Mutants: the lookup runs outside of the transaction, or pass 1 in one of its own.
LookUpOutside(u) ==
  /\ pass[u] = "lookup"
  /\ found' = [found EXCEPT ![u] = {n \in Names : type[n] # "absent"}]
  /\ pass' = [pass EXCEPT ![u] = "domestics"]
  /\ UNCHANGED <<vars, next, locked, draft, draftEdges>>
LookUpUnlocked(u) ==
  /\ pass[u] = "lookup"
  /\ found' = [found EXCEPT ![u] = {n \in Names : SeenType(u)[n] # "absent"}]
  /\ pass' = [pass EXCEPT ![u] = "domestics"]
  /\ locked' = [locked EXCEPT ![u] = {}]
  /\ UNCHANGED <<vars, next, draft, draftEdges>>

\* idByName, from the transaction's own view of the table.
LookUp(u) ==
  /\ pass[u] = "lookup"
  /\ found' = [found EXCEPT ![u] = {n \in Names : SeenType(u)[n] # "absent"}]
  /\ pass' = [pass EXCEPT ![u] = "domestics"]
  /\ UNCHANGED <<vars, next, locked, draft, draftEdges>>

\* A row after pass 2; a Domestic Entity without an id gives NULL.
Resolved(u, n) ==
  [draft[u][n] EXCEPT !.domestic =
     IF batch[u].type[n] # "FQ" THEN @
     ELSE IF batch[u].domestic[n] \in found[u] THEN batch[u].domestic[n] ELSE NoName]

\* Pass 2: one UPDATE for all FQ rows.
SetDomestics(u) ==
  /\ pass[u] = "domestics"
  /\ draft' = [draft EXCEPT ![u] = [n \in DOMAIN draft[u] |-> Resolved(u, n)]]
  /\ pass' = [pass EXCEPT ![u] = "edges"]
  /\ UNCHANGED <<vars, next, locked, found, draftEdges>>

\* edgeRecords: rows with a name without an id are dropped.
EdgeRecords(u) == {p \in DOMAIN batch[u].rows : p[1] \in found[u] /\ p[2] \in found[u]}

\* Mutant: the edges are not written through the transaction.
UpsertEdgeOutside(u, p) ==
  /\ pass[u] = "edges"
  /\ p \in EdgeRecords(u) \ DOMAIN draftEdges[u]
  /\ draftEdges' = [draftEdges EXCEPT ![u] =
       [q \in DOMAIN @ \cup {p} |-> batch[u].rows[q]]]
  /\ edges' = [q \in DOMAIN edges \cup {p} |->
                 IF q = p THEN batch[u].rows[p] ELSE edges[q]]
  /\ UNCHANGED <<type, domestic, business, step, batch, errors, staleIds, stale,
                 overlapped, pass, next, locked, draft, found>>

\* Pass 3, ON CONFLICT (parent_entity_id, child_entity_id).
UpsertEdge(u, p) ==
  /\ pass[u] = "edges"
  /\ p \in EdgeRecords(u) \ DOMAIN draftEdges[u]
  /\ \A v \in Uploads \ {u} : p \notin DOMAIN draftEdges[v]
  /\ draftEdges' = [draftEdges EXCEPT ![u] =
       [q \in DOMAIN @ \cup {p} |-> batch[u].rows[q]]]
  /\ UNCHANGED <<vars, pass, next, locked, draft, found>>

\* Mutant: the transaction is left open, with its locks.
LeaveOpen(u) ==
  /\ pass' = [pass EXCEPT ![u] = "none"]
  /\ next' = [next EXCEPT ![u] = NoName]
  /\ draft' = [draft EXCEPT ![u] = NoRows]
  /\ found' = [found EXCEPT ![u] = {}]
  /\ draftEdges' = [draftEdges EXCEPT ![u] = NoEdges]
  /\ UNCHANGED locked

EndTx(u) ==
  /\ pass' = [pass EXCEPT ![u] = "none"]
  /\ next' = [next EXCEPT ![u] = NoName]
  /\ locked' = [locked EXCEPT ![u] = {}]
  /\ draft' = [draft EXCEPT ![u] = NoRows]
  /\ found' = [found EXCEPT ![u] = {}]
  /\ draftEdges' = [draftEdges EXCEPT ![u] = NoEdges]

\* All passes are done: what was written becomes visible at once.
CommitTx(u) ==
  /\ pass[u] = "edges"
  /\ DOMAIN draftEdges[u] = EdgeRecords(u)
  /\ type' = SeenType(u)
  /\ business' = SeenBusiness(u)
  /\ domestic' = SeenDomestic(u)
  /\ edges' = Merge(edges, draftEdges[u])
  /\ Outdate(u)
  /\ Leave(u)
  /\ EndTx(u)

\* It is rolled back by the unique index, as the victim of a deadlock, or for
\* any reason of the connection or the process, at any time.
RejectId(u) == IdRejected(u) /\ RollBack(u) /\ EndTx(u)

BreakDeadlock(S) == Deadlocked(S) /\ \E u \in S : RollBack(u) /\ EndTx(u)

LoseTx(u) == RollBack(u) /\ EndTx(u)

Validate(u) ==
  /\ Submit(u) \/ CheckBusinessIds(u) \/ CheckGraph(u)
  /\ UNCHANGED txVars

Proceed(u) ==
  \/ Begin(u) \/ LookUp(u) \/ SetDomestics(u)
  \/ \E p \in Pairs : UpsertEdge(u, p)
  \/ CommitTx(u)

WriterNext ==
  \/ \E u \in Uploads :
       Validate(u) \/ LockRow(u) \/ PutRow(u) \/ RejectId(u) \/ Proceed(u) \/ LoseTx(u)
  \/ \E S \in SUBSET Uploads : BreakDeadlock(S)

WriterSpec == WriterInit /\ [][WriterNext]_writerVars

-------------------------------------------------------------------------------
(* Properties                                                              *)

\* The whole transaction is the one step Commit of Registry, or none: four passes
\* of statements, executed between those of other uploads, write exactly what
\* the upload says over the tables as they are at the commit, and the database
\* accepts it only if the unique index holds then.
ImplementsRegistry == Spec

\* Row by row, the unique index only ever rejects an upload if another one
\* committed after its IDs were looked up: the check against the database leaves
\* no other conflict for pass 1 to hit, in whatever order it writes the rows.
IndexRejectsOnlyOverlaps ==
  \A u \in Uploads : IdRejected(u) => u \in staleIds

\* Uploads only ever wait for each other in pass 1.  An edge refers to rows of its
\* own file, so whoever has reached the edges has locked both their entities:
\* deadlocks are confined to the upserts of entities, and whoever has its
\* entities gets through.
WaitsOnlyInPass1 == \A u, v \in Uploads : Waits(u, v) => pass[u] = "entities"

\* The row of a name as far as the transaction has come.
RowSoFar(u, n) ==
  [type |-> batch[u].type[n], business |-> batch[u].business[n],
   domestic |-> IF pass[u] = "edges" /\ batch[u].type[n] = "FQ"
                  THEN batch[u].domestic[n] ELSE domestic[n]]

\* No row is written by two transactions, and what each has written is what its
\* batch says, with the columns it leaves alone as they are committed now.
Progress(u) ==
  LET names == NamesOf(batch[u]) IN
  /\ pass[u] # "none" => step[u] = "validated"
  /\ pass[u] = "none" => locked[u] = {} /\ draft[u] = NoRows
  /\ pass[u] = "entities" => next[u] \in names \ DOMAIN draft[u]
  /\ pass[u] \in {"lookup", "domestics", "edges"} => DOMAIN draft[u] = names
  /\ pass[u] \in {"domestics", "edges"} => names \subseteq found[u]
  /\ pass[u] # "edges" => draftEdges[u] = NoEdges
  /\ DOMAIN draft[u] \subseteq locked[u] /\ locked[u] \subseteq names
  /\ draft[u] = [n \in DOMAIN draft[u] |-> RowSoFar(u, n)]
  /\ DOMAIN draftEdges[u] \subseteq DOMAIN batch[u].rows
  /\ draftEdges[u] = [p \in DOMAIN draftEdges[u] |-> batch[u].rows[p]]

\* A business ID written and not committed is in no other row, seen or unseen.
IdsReserved(u) ==
  \A n \in DOMAIN draft[u] :
    draft[u][n].business # NoId =>
      /\ \A m \in Names \ {n} : SeenBusiness(u)[m] # draft[u][n].business
      /\ \A v \in Uploads \ {u} : \A m \in DOMAIN draft[v] :
           draft[v][m].business # draft[u][n].business

\* What a transaction has written is typed by Progress.
TxTypes ==
  /\ pass \in [Uploads -> {"none", "entities", "lookup", "domestics", "edges"}]
  /\ next \in [Uploads -> Names \cup {NoName}]
  /\ locked \in [Uploads -> SUBSET Names]
  /\ found \in [Uploads -> SUBSET Names]
  /\ draft = [u \in Uploads |-> draft[u]]
  /\ draftEdges = [u \in Uploads |-> draftEdges[u]]

WriterInv ==
  /\ TxTypes
  /\ UniqueIds(business)
  /\ \A u \in Uploads : Progress(u) /\ IdsReserved(u)
  /\ \A u, v \in Uploads : u # v => locked[u] \cap locked[v] = {}
===============================================================================
