----------------------------- MODULE EntitiesList -----------------------------
(***************************************************************************)
(* GET /entities, one request: getEntitiesList reads the top level          *)
(* entities, then those with a match for the search term below them, then   *)
(* the filings of those, to keep the ones of the compliance status asked    *)
(* for, then the subtrees of one page, each in a query of its own.  Uploads *)
(* commit between the queries.                                              *)
(*                                                                         *)
(* Entities and FQs are numbers in the order their names sort.  A search    *)
(* term is the set of names it occurs in; the filters on columns            *)
(* (jurisdiction, status) are the set of entities they let pass, which no   *)
(* upload changes here, nor registration types.  Filings are not modelled:  *)
(* which candidates have the compliance status is open until it is read.    *)
(***************************************************************************)
EXTENDS Naturals, Sequences, FiniteSets

CONSTANTS
  Entities, Fqs,   \* disjoint sets of naturals
  NoName,          \* domestic_entity_id of an FQ without a row
  NoTerm,          \* no search term
  Filters,         \* bound: what a filter lets pass
  Terms,           \* bound: search terms
  PageSizes,       \* bound: page sizes
  MaxPage,         \* bound: highest page asked for
  MaxUploads       \* bound: uploads committed

Nodes == Entities \cup Fqs
Graph == INSTANCE OwnershipGraph WITH Names <- Entities

ASSUME ListAssumption ==
  /\ Entities \subseteq Nat /\ Fqs \subseteq Nat /\ Entities \cap Fqs = {}
  /\ IsFiniteSet(Nodes)
  /\ NoName \notin Nodes
  /\ Filters \subseteq SUBSET Entities
  /\ Terms \subseteq SUBSET Nodes \cup {NoTerm}
  /\ PageSizes \subseteq Nat \ {0} /\ MaxPage \in Nat \ {0} /\ MaxUploads \in Nat

VARIABLES
  known,       \* entities with a row
  owns,        \* ownership_edges
  domestic,    \* domestic_entity_id of each FQ
  uploads,     \* uploads committed so far
  step,        \* the query the request sends next
  request,     \* its parameters
  candidates,  \* the top-level rows left
  rows,        \* what fetchSubtrees returned: a path from a page's root for a row
  grown,       \* did an edge appear since the candidates were read?
  moved        \* did an FQ move since the search?

registry == <<known, owns, domestic, uploads>>
vars == <<registry, step, request, candidates, rows, grown, moved>>

Queries ==
  [filter : Filters, term : Terms, complianceStatus : BOOLEAN,
   page : 1 .. MaxPage, pageSize : PageSizes]

Init ==
  /\ known \in SUBSET Entities
  /\ owns \in {E \in SUBSET (known \X known) : ~Graph!Cyclic(E)}
  /\ domestic \in [Fqs -> known \cup {NoName}]
  /\ uploads = 0
  /\ step = "candidates"
  /\ request \in Queries
  /\ candidates = {}
  /\ rows = {}
  /\ grown = FALSE
  /\ moved = FALSE

-------------------------------------------------------------------------------
(* The queries                                                             *)

\* SUBTREE_CTE's child_links: the subsidiaries, and an FQ under its Domestic Entity.
ChildLinks ==
  owns \cup {<<domestic[f], f>> : f \in {g \in Fqs : domestic[g] # NoName}}

\* The recursion: UNION ALL, so one row for each path down from a root.
Walk(links, roots) ==
  LET level[k \in 1 .. Cardinality(Nodes)] ==
        IF k = 1 THEN {<<r>> : r \in roots}
        ELSE UNION {{Append(p, l[2]) : l \in {m \in links : m[1] = p[k - 1]}} :
                      p \in level[k - 1]}
  IN  UNION {level[k] : k \in DOMAIN level}

\* Mutant: the walk follows subsidiaries only.
SubsidiariesOnly(roots) == Walk(owns, roots)

Subtrees(roots) == Walk(ChildLinks, roots)

Name(row) == row[Len(row)]

\* Mutant: subsidiaries are listed at the top level too.
AllEntities == known \cap request.filter

\* fetchCandidateRoots
CandidateRoots ==
  {e \in known \cap request.filter : \A p \in known : <<p, e>> \notin owns}

\* Mutant: a last page that is not full is not counted.
TotalPagesDown(total, size) == IF total < size THEN 1 ELSE total \div size

TotalPages(total, size) == IF total = 0 THEN 1 ELSE (total + size - 1) \div size

\* The page of the sorted rows S: a page beyond the last is the last.
PageOf(S, page, size) ==
  LET last == TotalPages(Cardinality(S), size)
      start == ((IF page < last THEN page ELSE last) - 1) * size
      place(e) == Cardinality({f \in S : f <= e})
  IN  {e \in S : start < place(e) /\ place(e) <= start + size}

pageRoots == PageOf(candidates, request.page, request.pageSize)

-------------------------------------------------------------------------------
(* The request                                                             *)

\* Whatever is not asked for is skipped, and without candidates left the request is
\* answered at once.
AfterSearch == IF request.complianceStatus THEN "compliance" ELSE "subtrees"

FetchCandidates ==
  /\ step = "candidates"
  /\ candidates' = CandidateRoots
  /\ step' = IF CandidateRoots = {} THEN "done"
             ELSE IF request.term = NoTerm THEN AfterSearch ELSE "search"
  /\ UNCHANGED <<registry, request, rows, grown, moved>>

\* Mutant: the matches of all candidates together let every candidate stay.
FindMatchingAnywhere ==
  /\ step = "search"
  /\ candidates' = {r \in candidates :
       \E row \in Subtrees(candidates) : Name(row) \in request.term}
  /\ step' = IF candidates' = {} THEN "done" ELSE AfterSearch
  /\ UNCHANGED <<registry, request, rows, grown, moved>>

\* findRootsMatchingSearch: a candidate stays if a row of its subtree matches.
FindMatching ==
  /\ step = "search"
  /\ candidates' = {r \in candidates : \E row \in Subtrees({r}) : Name(row) \in request.term}
  /\ step' = IF candidates' = {} THEN "done" ELSE AfterSearch
  /\ UNCHANGED <<registry, request, rows, grown, moved>>

\* The filings of the candidates are read, and those of another status dropped.
FilterCompliance ==
  /\ step = "compliance"
  /\ \E S \in Filters : candidates' = candidates \cap S
  /\ step' = IF candidates' = {} THEN "done" ELSE "subtrees"
  /\ UNCHANGED <<registry, request, rows, grown, moved>>

\* fetchSubtrees, for the roots of the page only.
FetchSubtrees ==
  /\ step = "subtrees"
  /\ rows' = Subtrees(pageRoots)
  /\ step' = "done"
  /\ UNCHANGED <<registry, request, candidates, grown, moved>>

-------------------------------------------------------------------------------
(* Uploads: rows are only ever added, but an FQ may get another Domestic Entity *)

Uploaded ==
  /\ uploads < MaxUploads
  /\ step # "done"
  /\ uploads' = uploads + 1
  /\ UNCHANGED <<step, request, candidates, rows>>

UploadEntity(e) ==
  /\ e \notin known
  /\ known' = known \cup {e}
  /\ Uploaded
  /\ UNCHANGED <<owns, domestic, grown, moved>>

UploadEdge(p, c) ==
  /\ <<p, c>> \notin owns
  /\ ~Graph!Cyclic(owns \cup {<<p, c>>})
  /\ known' = known \cup {p, c}
  /\ owns' = owns \cup {<<p, c>>}
  /\ grown' = (grown \/ step # "candidates")
  /\ Uploaded
  /\ UNCHANGED <<domestic, moved>>

UploadFq(f, e) ==
  /\ domestic[f] # e
  /\ known' = known \cup {e}
  /\ domestic' = [domestic EXCEPT ![f] = e]
  /\ moved' = (moved \/ step \in {"compliance", "subtrees"})
  /\ Uploaded
  /\ UNCHANGED <<owns, grown>>

Next ==
  \/ FetchCandidates
  \/ FindMatching
  \/ FilterCompliance
  \/ FetchSubtrees
  \/ \E e \in Entities : UploadEntity(e)
  \/ \E p, c \in Entities : UploadEdge(p, c)
  \/ \E f \in Fqs, e \in Entities : UploadFq(f, e)

Spec == Init /\ [][Next]_vars

-------------------------------------------------------------------------------
(* Properties                                                              *)

\* The links below n: every set that holds n and what its members lead to also
\* holds the link's parent.
Below(n, links) ==
  {l \in links :
     \A T \in SUBSET Nodes :
       n \in T /\ (\A m \in links : m[1] \in T => m[2] \in T) => l[1] \in T}

\* childrenByParent: the rows of all roots of the page, grouped by viaParentId.
Nested == {row \in rows : Len(row) > 1}
ViaParent(row) == row[Len(row) - 1]
ChildrenOf(p) == {row \in Nested : ViaParent(row) = p}

\* buildChildren shows below every root of the page exactly the subsidiaries and
\* FQs below it at any depth, although it groups the rows of all roots together:
\* those of the database as it is when the subtrees are read.
TreesAreSubtrees ==
  [][FetchSubtrees =>
       \A r \in pageRoots :
         Below(r, {<<ViaParent(row), Name(row)>> : row \in Nested})' = Below(r, ChildLinks)]_vars

\* subsidiaryCount and fqCount of a top-level row are the numbers of its
\* subsidiaries and FQs, no edge having appeared since the candidates were read.
TopLevelCountsExact ==
  [][FetchSubtrees =>
       grown \/ \A r \in pageRoots :
         Cardinality(ChildrenOf(r)') = Cardinality({l \in ChildLinks : l[1] = r})]_vars

\* Every top-level row of a search has a match among the names shown in its own
\* subtree, unless an FQ moved between the search and the reading of subtrees.
SearchedRootsShowMatch ==
  step = "done" /\ request.term # NoTerm =>
    moved \/ \A r \in pageRoots : \E row \in rows : row[1] = r /\ Name(row) \in request.term

\* A page is never empty while something is left to list, holds no more rows
\* than its size, and every row is on exactly one page.
PagesPartition ==
  LET size == request.pageSize
      pages == 1 .. TotalPages(Cardinality(candidates), size)
  IN  /\ candidates # {} => pageRoots # {}
      /\ Cardinality(pageRoots) <= size
      /\ \A e \in candidates : \E p \in pages : e \in PageOf(candidates, p, size)
      /\ \A p, q \in pages :
           PageOf(candidates, p, size) \cap PageOf(candidates, q, size) # {} => p = q

\* What the comment on buildChildren says: a child appears once per parent.
ChildrenOncePerParent ==
  \A row, other \in Nested :
    Name(row) = Name(other) /\ ViaParent(row) = ViaParent(other) => row = other

-------------------------------------------------------------------------------
(* The inductive invariant of a request                                    *)

RegistryTypes ==
  /\ known \subseteq Entities
  /\ owns \subseteq known \X known
  /\ ~Graph!Cyclic(owns)
  /\ domestic \in [Fqs -> known \cup {NoName}]

\* Between the queries the candidates stay top level, unless an edge appears, and
\* keep their matches, unless an FQ moves.
ListInv ==
  /\ RegistryTypes
  /\ step \in {"candidates", "search", "compliance", "subtrees", "done"}
  /\ request \in Queries
  /\ candidates \subseteq Entities
  /\ step \in {"search", "compliance", "subtrees"} =>
       /\ candidates \subseteq known \cap request.filter
       /\ grown \/ candidates \subseteq CandidateRoots
  /\ step \in {"compliance", "subtrees"} /\ request.term # NoTerm =>
       moved \/ \A r \in candidates : \E row \in Subtrees({r}) : Name(row) \in request.term
  /\ SearchedRootsShowMatch
===============================================================================
