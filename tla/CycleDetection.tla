---------------------------- MODULE CycleDetection ----------------------------
(***************************************************************************)
(* validateOwnershipGraph's search for cycles: the depth first walk of     *)
(* detectCyclicNodes over the merged graph, one step per child looked at,  *)
(* and the rows it makes errors of.  The walk follows the insertion order  *)
(* of a Map, which depends on the rows' order: here any order is possible. *)
(***************************************************************************)
EXTENDS OwnershipGraph, FiniteSets, Sequences

CONSTANTS
  MaxExisting,   \* bound: persisted edges
  MaxRows        \* bound: rows of the upload

VARIABLES
  existing,   \* pairs persisted before the upload
  rows,       \* pairs of the upload's rows
  color,      \* of each name
  stack,      \* the names being visited, outermost first
  todo,       \* children a visit has still to look at
  cyclic      \* the names found on cycles

vars == <<existing, rows, color, stack, todo, cyclic>>

merged == existing \cup rows

Children(n) == {m \in Names : <<n, m>> \in merged}

\* Names without an edge are not in the graph.
allNodes == {n \in Names : \E p \in merged : n = p[1] \/ n = p[2]}

Init ==
  /\ existing \in SUBSET Pairs
  /\ rows \in SUBSET Pairs
  /\ Cardinality(existing) <= MaxExisting
  /\ Cardinality(rows) <= MaxRows
  /\ color = [n \in Names |-> "white"]
  /\ stack = <<>>
  /\ todo = [n \in Names |-> {}]
  /\ cyclic = {}

top == stack[Len(stack)]

\* The loop over allNodes starts a visit.
VisitRoot(n) ==
  /\ stack = <<>>
  /\ n \in allNodes
  /\ color[n] = "white"
  /\ color' = [color EXCEPT ![n] = "gray"]
  /\ stack' = <<n>>
  /\ todo' = [todo EXCEPT ![n] = Children(n)]
  /\ UNCHANGED <<existing, rows, cyclic>>

\* visit(next) of a white child
Descend(next) ==
  /\ stack # <<>>
  /\ next \in todo[top]
  /\ color[next] = "white"
  /\ color' = [color EXCEPT ![next] = "gray"]
  /\ stack' = Append(stack, next)
  /\ todo' = [todo EXCEPT ![top] = @ \ {next}, ![next] = Children(next)]
  /\ UNCHANGED <<existing, rows, cyclic>>

\* Mutant: the slice starts after the node the edge leads back to.
CloseCycleOffByOne(next) ==
  /\ stack # <<>>
  /\ next \in todo[top]
  /\ color[next] = "gray"
  /\ \E start \in DOMAIN stack :
       /\ stack[start] = next
       /\ cyclic' = cyclic \cup {stack[i] : i \in start + 1 .. Len(stack)}
  /\ todo' = [todo EXCEPT ![top] = @ \ {next}]
  /\ UNCHANGED <<existing, rows, color, stack>>

\* Mutant: only the first cycle is looked for.
CloseFirstCycle(next) ==
  /\ stack # <<>>
  /\ next \in todo[top]
  /\ color[next] = "gray"
  /\ \E cycleStart \in DOMAIN stack :
       /\ stack[cycleStart] = next
       /\ cyclic' = IF cyclic = {} THEN {stack[i] : i \in cycleStart .. Len(stack)} ELSE cyclic
  /\ todo' = [todo EXCEPT ![top] = @ \ {next}]
  /\ UNCHANGED <<existing, rows, color, stack>>

\* Mutant: the whole stack is taken for the cycle.
CloseCycleWholeStack(next) ==
  /\ stack # <<>>
  /\ next \in todo[top]
  /\ color[next] = "gray"
  /\ cyclic' = cyclic \cup {stack[i] : i \in DOMAIN stack}
  /\ todo' = [todo EXCEPT ![top] = @ \ {next}]
  /\ UNCHANGED <<existing, rows, color, stack>>

\* An edge back to a gray name: the stack from there on is a cycle.
CloseCycle(next) ==
  /\ stack # <<>>
  /\ next \in todo[top]
  /\ color[next] = "gray"
  /\ \E cycleStart \in DOMAIN stack :
       /\ stack[cycleStart] = next
       /\ cyclic' = cyclic \cup {stack[i] : i \in cycleStart .. Len(stack)}
  /\ todo' = [todo EXCEPT ![top] = @ \ {next}]
  /\ UNCHANGED <<existing, rows, color, stack>>

\* Mutant: the loop over the children does not move on.
PassBlackStays(next) ==
  /\ stack # <<>>
  /\ next \in todo[top]
  /\ color[next] = "black"
  /\ UNCHANGED <<existing, rows, color, stack, todo, cyclic>>

\* A black child is passed over.
PassBlack(next) ==
  /\ stack # <<>>
  /\ next \in todo[top]
  /\ color[next] = "black"
  /\ todo' = [todo EXCEPT ![top] = @ \ {next}]
  /\ UNCHANGED <<existing, rows, color, stack, cyclic>>

\* Mutant: a visit ends without looking at the children left.
LeaveEarly ==
  /\ stack # <<>>
  /\ color' = [color EXCEPT ![top] = "black"]
  /\ stack' = SubSeq(stack, 1, Len(stack) - 1)
  /\ todo' = [todo EXCEPT ![top] = {}]
  /\ UNCHANGED <<existing, rows, cyclic>>

\* All children looked at: the visit returns.
Leave ==
  /\ stack # <<>>
  /\ todo[top] = {}
  /\ color' = [color EXCEPT ![top] = "black"]
  /\ stack' = SubSeq(stack, 1, Len(stack) - 1)
  /\ UNCHANGED <<existing, rows, todo, cyclic>>

Done == stack = <<>> /\ \A n \in allNodes : color[n] # "white"

\* The walk returns.
Return == Done /\ UNCHANGED vars

Next ==
  \/ \E n \in Names :
       VisitRoot(n) \/ Descend(n) \/ CloseCycle(n) \/ PassBlack(n)
  \/ Leave
  \/ Return

Spec == Init /\ [][Next]_vars

FairSpec == Spec /\ WF_vars(Next)

\* The rows that get the cycle error.
FlaggedRows == {p \in rows : p[1] \in cyclic /\ p[2] \in cyclic}

-------------------------------------------------------------------------------
(* Properties                                                              *)

Colors == {"white", "gray", "black"}

TypeOK ==
  /\ existing \subseteq Pairs
  /\ rows \subseteq Pairs
  /\ color \in [Names -> Colors]
  /\ stack \in Seq(Names)
  /\ todo \in [Names -> SUBSET Names]
  /\ cyclic \subseteq Names

\* A name is only ever flagged if it owns itself through others.
FlaggedOnCycles == \A n \in cyclic : OnCycle(n, merged)

\* An upload onto an acyclic graph gets a cycle error on one of its own rows
\* exactly if it closes a cycle: none slips through, none is imagined.
RejectsExactlyCycles ==
  Done /\ ~Cyclic(existing) => (FlaggedRows # {} <=> Cyclic(merged))

\* What the walk decides is one of the verdicts Registry leaves open.
GivesAVerdict == Done => (FlaggedRows # {}) \in CycleVerdicts(existing, rows)

\* The walk ends on every graph.
Terminates == <>Done

\* What is left of the walk: names to begin and to end a visit of, edges to look at.
WorkLeft ==
  {<<"begin", n>> : n \in {m \in Names : color[m] = "white"}} \cup
  {<<"look", p>> : p \in {e \in merged : color[e[1]] = "white" \/ e[2] \in todo[e[1]]}} \cup
  {<<"end", n>> : n \in {m \in Names : color[m] # "black"}}

\* No edge is looked at twice and no name visited twice: every step leaves less to do.
EveryStepIsWork == [][WorkLeft' \subseteq WorkLeft /\ WorkLeft' # WorkLeft]_vars

\* The parent of row q leads from the child of p.
LeadsTo(p, q) ==
  \A T \in SUBSET Names :
    /\ p[2] \in T
    /\ \A k \in T, m \in Names : <<k, m>> \in merged => m \in T
    => q[1] \in T

\* graph-validator.spec.ts: rows of a cycle are flagged.  Not all of them are, since
\* black names are passed over; but whatever cycle a row is on, some row that is
\* tangled up with it is flagged, so no tangle of cycles goes unreported.
EveryTangleFlagged ==
  Done /\ ~Cyclic(existing) =>
    \A p \in rows : LeadsTo(p, p) => \E q \in FlaggedRows : LeadsTo(p, q) /\ LeadsTo(q, p)

-------------------------------------------------------------------------------
(* The inductive invariant of the walk                                     *)

\* The gray names are the stack, each once, and the stack is a path.
StackDistinct ==
  \A i, j \in DOMAIN stack : stack[i] = stack[j] => i = j

GrayIsStacked ==
  \A n \in Names : color[n] = "gray" <=> \E i \in DOMAIN stack : stack[i] = n

StackIsPath ==
  \A i \in DOMAIN stack :
    i + 1 \in DOMAIN stack => <<stack[i], stack[i + 1]>> \in merged

\* What is flagged contains a loop.
FlaggedLoop ==
  cyclic # {} => \E S \in SUBSET cyclic : Loops(S, merged)

\* The parts of the graph that no path leaves and comes back to.
Closed(T) == \A p \in merged : p[1] \in T => p[2] \in T
Parts == {C \in SUBSET Names : \E V \in SUBSET (Names \ C) : Closed(V) /\ Closed(C \cup V)}

\* As long as no loop of such a part is flagged, black names own, of the part, only
\* black names, a visited name owns, of what it has looked at, only black names and
\* the next on the stack, and no black names form a loop.
Unflagged(C) == \A S \in SUBSET (cyclic \cap C) : ~Loops(S, merged)

BlackIsClosed(C) ==
  \A n, m \in C : <<n, m>> \in merged /\ color[n] = "black" => color[m] = "black"

LookedAt(C) ==
  \A i \in DOMAIN stack, m \in C :
    stack[i] \in C /\ <<stack[i], m>> \in merged /\ m \notin todo[stack[i]] =>
      \/ color[m] = "black"
      \/ i + 1 \in DOMAIN stack /\ stack[i + 1] = m

BlackHasNoLoop(C) ==
  \A S \in SUBSET {n \in C : color[n] = "black"} : ~Loops(S, merged)

WalkInv ==
  /\ StackDistinct
  /\ GrayIsStacked
  /\ StackIsPath
  /\ \A n \in Names : todo[n] \subseteq Children(n)
  /\ FlaggedLoop
  /\ \A C \in Parts : Unflagged(C) => BlackIsClosed(C) /\ LookedAt(C) /\ BlackHasNoLoop(C)
===============================================================================
