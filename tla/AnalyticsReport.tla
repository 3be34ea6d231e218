---------------------------- MODULE AnalyticsReport ----------------------------
(***************************************************************************)
(* The part of GET /analytics that shows the same as GET /entities: chart  *)
(* (c), the numbers of subsidiaries and FQs below each top-level entity.   *)
(* The list leaves the walk down to a recursive query, the report walks    *)
(* over maps in memory, and counts an entity once however often it meets   *)
(* it.  The tables are those of EntitiesList; that the report may have     *)
(* read them earlier is in AnalyticsCache.                                 *)
(***************************************************************************)
EXTENDS EntitiesList

\* edgesByParent, fqsByDomesticId
SubsidiariesOf(e) == {c \in Entities : <<e, c>> \in owns}
FqsOf(e) == {f \in Fqs : domestic[f] = e}

\* Mutant: only what the root itself owns is looked at.
DirectSubsidiaries(root) == SubsidiariesOf(root)

\* collectDescendants: what is popped from the stack adds what it owns, and what
\* is not new is not pushed again.  The order does not matter to the result.
subsidiaryIds(root) ==
  LET ids[k \in 0 .. Cardinality(Entities)] ==
        IF k = 0 THEN {}
        ELSE ids[k - 1] \cup UNION {SubsidiariesOf(e) : e \in ids[k - 1] \cup {root}}
  IN  ids[Cardinality(Entities)]

fqIds(root) == UNION {FqsOf(e) : e \in subsidiaryIds(root) \cup {root}}

\* The list and the report call the same entities top level and give each the same
\* descendants, unless an edge appeared between the queries of the list: the names
\* in its tree are as many, each taken once, as the report counts.
ReportCountsTheTree ==
  [][FetchSubtrees =>
       grown \/ \A r \in pageRoots :
         LET below == {Name(row) : row \in {path \in rows' : path[1] = r /\ path # <<r>>}} IN
         /\ r \in CandidateRoots
         /\ Cardinality(below \cap Entities) = Cardinality(subsidiaryIds(r))
         /\ Cardinality(below \cap Fqs) = Cardinality(fqIds(r))]_vars
===============================================================================
