------------------------------ MODULE UploadBatch ------------------------------
(***************************************************************************)
(* What one upload holds once its sheets are validated: entities by name,  *)
(* and ownership rows.  Registry takes any such batch, SheetValidation     *)
(* shows that what the sheet validators accept is one.                     *)
(***************************************************************************)
EXTENDS OwnershipGraph, FiniteSets

CONSTANTS
  NoName, NoId,  \* SQL NULL, of a Domestic Entity and of a business ID
  BusinessIds,
  Types,         \* bound: registration types the batches use
  Percentages,   \* bound: percentages the rows use, in hundredths
  MaxRows        \* bound: ownership rows of a batch

ASSUME BatchAssumption ==
  /\ NoName \notin Names
  /\ NoId \notin BusinessIds
  /\ Types \subseteq {"Entity", "FQ"}
  /\ Percentages \subseteq 1 .. FullOwnership

EdgeSets == UNION {[D -> Percentages] : D \in SUBSET Pairs}

\* The types of a batch's parts, and the rules between its rows.
BatchShapes ==
  [type: [Names -> Types \cup {"absent"}], domestic: [Names -> Names \cup {NoName}],
   business: [Names -> BusinessIds \cup {NoId}], rows: EdgeSets]

Consistent(b) ==
  /\ \A n \in Names :
       /\ b.type[n] = "FQ" <=> b.domestic[n] # NoName
       /\ b.domestic[n] # NoName => b.type[b.domestic[n]] = "Entity"
       /\ b.business[n] # NoId => b.type[n] # "absent"
  /\ \A n, m \in Names :
       b.business[n] = b.business[m] => n = m \/ b.business[n] = NoId
  /\ \A p \in DOMAIN b.rows : b.type[p[1]] = "Entity" /\ b.type[p[2]] = "Entity"

Batches == {b \in BatchShapes : Consistent(b) /\ Cardinality(DOMAIN b.rows) <= MaxRows}

EmptyBatch ==
  [type |-> [n \in Names |-> "absent"], domestic |-> [n \in Names |-> NoName],
   business |-> [n \in Names |-> NoId], rows |-> [p \in {} |-> 0]]

NamesOf(b) == {n \in Names : b.type[n] # "absent"}
===============================================================================
