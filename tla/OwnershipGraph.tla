---------------------------- MODULE OwnershipGraph ----------------------------
(***************************************************************************)
(* The ownership graph an upload is validated against: the persisted edges *)
(* with the upload's rows laid over them, percentages in hundredths (the   *)
(* sheet allows two decimals), nodes normalized entity names.  An edge set *)
(* with its percentages is a function from (parent, child) pairs.          *)
(***************************************************************************)
EXTENDS Naturals, Functions

CONSTANT Names   \* normalized entity names

\* No row and no persisted edge joins a name to itself.
Pairs == {p \in Names \X Names : p[1] # p[2]}

\* Upsert semantics: a row replaces the edge of its pair, other edges stay.
Merge(existing, rows) ==
  [p \in DOMAIN existing \cup DOMAIN rows |->
     IF p \in DOMAIN rows THEN rows[p] ELSE existing[p]]

\* What all parents together own of child.
Holdings(edges, child) ==
  [p \in {q \in DOMAIN edges : q[2] = child} |-> edges[p]]
Total(holdings) == FoldFunction(+, 0, holdings)
TotalOf(edges, child) == Total(Holdings(edges, child))

FullOwnership == 10000

\* Mutants: the total of the upload's rows only, and a row's new percentage
\* counted on top of the one it replaces.
OverOwnedByRowsAlone(existing, rows) ==
  {p \in DOMAIN rows : TotalOf(rows, p[2]) > FullOwnership}
OverOwnedWithOldValue(existing, rows) ==
  {p \in DOMAIN rows : TotalOf(existing, p[2]) + TotalOf(rows, p[2]) > FullOwnership}

\* Rows get the over-100% error by their child's total in the merged graph.
OverOwnedRows(existing, rows) ==
  {p \in DOMAIN rows : TotalOf(Merge(existing, rows), p[2]) > FullOwnership}

\* Every member of S owns a member of S.  In a finite graph such a set contains
\* a cycle, and the nodes of a cycle are such a set.
Loops(S, pairs) == S # {} /\ \A n \in S : \E m \in S : <<n, m>> \in pairs

Cyclic(pairs) == \E S \in SUBSET Names : Loops(S, pairs)

\* n reaches itself: every set that holds what n owns, and what its members own,
\* holds n.
OnCycle(n, pairs) ==
  \A T \in SUBSET Names :
    /\ \A m \in Names : <<n, m>> \in pairs => m \in T
    /\ \A k \in T, m \in Names : <<k, m>> \in pairs => m \in T
    => n \in T

\* The verdicts the walk can give on an upload's rows, whatever its order: exact on
\* an acyclic graph, and otherwise never an error unless both names of a row are on
\* cycles.  CycleDetection gives one of them (theorem WalkGivesVerdict).
CycleVerdicts(existing, rows) ==
  LET merged == existing \cup rows IN
  {verdict \in BOOLEAN :
     /\ ~Cyclic(existing) => (verdict <=> Cyclic(merged))
     /\ verdict => \E p \in rows : OnCycle(p[1], merged) /\ OnCycle(p[2], merged)}
===============================================================================
