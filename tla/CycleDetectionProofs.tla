------------------------- MODULE CycleDetectionProofs -------------------------
(***************************************************************************)
(* For any set of names and any graph: the walk of detectCyclicNodes       *)
(* makes a cycle error of some row of the upload exactly if the upload     *)
(* closes a cycle, flags no name that is on none, and leaves no tangle of  *)
(* cycles without a flagged row.                                           *)
(***************************************************************************)
EXTENDS CycleDetection, OrderFacts

\* Every step keeps the types.
LEMMA TypeStep == TypeOK /\ [Next]_vars => TypeOK'
<1>. SUFFICES ASSUME TypeOK, [Next]_vars PROVE TypeOK'
  OBVIOUS
<1>. USE DEF TypeOK, Colors
<1>1. ASSUME NEW n \in Names, VisitRoot(n) PROVE TypeOK'
  BY <1>1 DEF VisitRoot, Children
<1>2. ASSUME NEW n \in Names, Descend(n) PROVE TypeOK'
  <2>1. top \in Names
    BY <1>2 DEF Descend, top
  <2>. QED
    BY <1>2, <2>1 DEF Descend, Children
<1>3. ASSUME NEW n \in Names, CloseCycle(n) PROVE TypeOK'
  BY <1>3 DEF CloseCycle, top
<1>4. ASSUME NEW n \in Names, PassBlack(n) PROVE TypeOK'
  BY <1>4 DEF PassBlack, top
<1>5. CASE Leave
  BY <1>5 DEF Leave, top
<1>6. CASE UNCHANGED vars
  BY <1>6 DEF vars
<1>. QED
  BY <1>1, <1>2, <1>3, <1>4, <1>5, <1>6 DEF Next, Return

\* TypeOK: the walk keeps its types.
THEOREM WalkTypes == Spec => []TypeOK
<1>1. Init => TypeOK
  BY DEF Init, TypeOK, Colors
<1>2. TypeOK /\ [Next]_vars => TypeOK'
  BY TypeStep
<1>. QED
  BY <1>1, <1>2, PTL DEF Spec

-------------------------------------------------------------------------------
(* The walk invariant                                                      *)

\* Adding a name without a way back to a closed loop free set keeps it loop
\* free: what the name owns, it owns inside the old set.
LEMMA LoopFreeGrows ==
  ASSUME NEW B, NEW pairs, NEW n,
         \A S \in SUBSET B : ~Loops(S, pairs),
         \A k \in B, m \in B \cup {n} : <<k, m>> \in pairs => m \in B,
         n \notin B,
         <<n, n>> \notin pairs
  PROVE  \A S \in SUBSET (B \cup {n}) : ~Loops(S, pairs)
<1>. SUFFICES ASSUME NEW S \in SUBSET (B \cup {n}), Loops(S, pairs) PROVE FALSE
  OBVIOUS
<1>1. S \cap B # {}
  <2>1. PICK k \in S : TRUE
    BY DEF Loops
  <2>2. PICK m \in S : <<k, m>> \in pairs
    BY DEF Loops
  <2>. QED
    BY <2>1, <2>2
<1>2. \A k \in S \cap B : \E m \in S \cap B : <<k, m>> \in pairs
  BY DEF Loops
<1>. QED
  BY <1>1, <1>2 DEF Loops

\* The names of the stack from a place on, closed by an edge back to that place,
\* form a loop.
LEMMA SliceLoops ==
  ASSUME TypeOK, StackIsPath, stack # <<>>,
         NEW start \in DOMAIN stack, <<top, stack[start]>> \in merged
  PROVE  Loops({stack[i] : i \in start .. Len(stack)}, merged)
<1>. DEFINE S == {stack[i] : i \in start .. Len(stack)}
<1>1. start \in 1 .. Len(stack) /\ Len(stack) \in Nat
  BY DEF TypeOK
<1>2. stack[start] \in S
  <2>1. start \in start .. Len(stack)
    BY <1>1
  <2>. QED
    BY <2>1
<1>3. ASSUME NEW i \in start .. Len(stack)
      PROVE  \E m \in S : <<stack[i], m>> \in merged
  <2>1. CASE i = Len(stack)
    BY <1>2, <2>1 DEF top
  <2>2. CASE i # Len(stack)
    <3>1. i \in DOMAIN stack /\ i + 1 \in DOMAIN stack /\ i + 1 \in start .. Len(stack)
      BY <1>1, <1>3, <2>2 DEF TypeOK
    <3>2. <<stack[i], stack[i + 1]>> \in merged
      BY <3>1 DEF StackIsPath
    <3>. QED
      BY <3>1, <3>2
  <2>. QED
    BY <2>1, <2>2
<1>. QED
  BY <1>2, <1>3 DEF Loops

\* A closed set that holds a name of the stack holds those above it, too.
LEMMA PathStays ==
  ASSUME TypeOK, StackIsPath, NEW T, Closed(T),
         NEW i \in DOMAIN stack, stack[i] \in T, NEW j \in i .. Len(stack)
  PROVE  stack[j] \in T
<1>. SUFFICES ASSUME stack[j] \notin T PROVE FALSE
  OBVIOUS
<1>. DEFINE Out == {k \in i .. Len(stack) : stack[k] \notin T}
<1>1. Len(stack) \in Nat /\ i \in 1 .. Len(stack) /\ DOMAIN stack = 1 .. Len(stack)
  BY DEF TypeOK
<1>2. Out \subseteq Nat /\ Out # {}
  BY <1>1
<1>3. PICK k \in Out : \A h \in Out : k <= h
  <2>. HIDE DEF Out
  <2>. QED
    BY <1>2, LeastNatural
<1>4. k # i /\ k \in i .. Len(stack) /\ stack[k] \notin T
  OBVIOUS
<1>5. k - 1 \in i .. Len(stack) /\ k - 1 \in DOMAIN stack /\ (k - 1) + 1 = k /\ k \in DOMAIN stack
  BY <1>1, <1>4
<1>6. k - 1 \notin Out
  <2>1. \A h \in Out : k <= h
    BY <1>3
  <2>. HIDE DEF Out
  <2>. QED
    BY <1>1, <1>4, <2>1
<1>7. stack[k - 1] \in T
  BY <1>5, <1>6
<1>8. <<stack[k - 1], stack[k]>> \in merged
  BY <1>5 DEF StackIsPath
<1>. QED
  BY <1>4, <1>7, <1>8 DEF Closed

\* A part of the graph holds a path between two of its names.
LEMMA PathInPart ==
  ASSUME TypeOK, StackIsPath, stack # <<>>, NEW C \in Parts,
         NEW i \in DOMAIN stack, stack[i] \in C, top \in C
  PROVE  {stack[j] : j \in i .. Len(stack)} \subseteq C
<1>1. PICK V \in SUBSET (Names \ C) : Closed(V) /\ Closed(C \cup V)
  BY DEF Parts
<1>2. ASSUME NEW j \in i .. Len(stack) PROVE stack[j] \in C
  <2>1. Len(stack) \in Nat /\ DOMAIN stack = 1 .. Len(stack) /\ j \in DOMAIN stack
        /\ Len(stack) \in j .. Len(stack)
    BY DEF TypeOK
  <2>2. stack[j] \in C \cup V
    BY <1>1, PathStays
  <2>3. stack[j] \in V => top \in V
    BY <1>1, <2>1, PathStays DEF top
  <2>. QED
    BY <2>2, <2>3
<1>. QED
  BY <1>2

\* The whole graph is one of its parts.
LEMMA WholeIsPart == ASSUME TypeOK PROVE Names \in Parts
<1>1. merged \subseteq Names \X Names
  BY DEF TypeOK, merged, Pairs
<1>2. Closed({}) /\ Closed(Names \cup {})
  BY <1>1 DEF Closed
<1>. QED
  BY <1>2 DEF Parts

\* What of a part is black, looked at and free of loops.
PartInv(C) == BlackIsClosed(C) /\ LookedAt(C) /\ BlackHasNoLoop(C)

\* Every step keeps WalkInv.
LEMMA WalkStep == TypeOK /\ TypeOK' /\ WalkInv /\ [Next]_vars => WalkInv'
<1>. SUFFICES ASSUME TypeOK, TypeOK', WalkInv, [Next]_vars PROVE WalkInv'
  OBVIOUS
<1>0. Len(stack) \in Nat /\ DOMAIN stack = 1 .. Len(stack)
  BY DEF TypeOK
<1>00. merged' = merged => Parts' = Parts
  BY DEF Parts, Closed
<1>1. ASSUME NEW n \in Names, VisitRoot(n) PROVE WalkInv'
  <2>. USE <1>1 DEF VisitRoot
  <2>1. merged' = merged /\ Len(stack') = 1 /\ DOMAIN stack' = {1} /\ stack'[1] = n
    BY DEF merged
  <2>2. \A k \in Names : color[k] # "gray"
    BY DEF WalkInv, GrayIsStacked
  <2>3. StackDistinct' /\ GrayIsStacked' /\ StackIsPath'
    BY <2>1, <2>2 DEF StackDistinct, GrayIsStacked, StackIsPath, TypeOK
  <2>4. (\A k \in Names : todo[k] \subseteq Children(k))'
    BY <2>1 DEF WalkInv, TypeOK, Children
  <2>5. FlaggedLoop'
    BY <2>1 DEF WalkInv, FlaggedLoop
  <2>6. ASSUME NEW C \in Parts, Unflagged(C)' PROVE PartInv(C)'
    <3>0. C \subseteq Names /\ PartInv(C)
      BY <2>1, <2>6 DEF WalkInv, Unflagged, PartInv, Parts
    <3>1. \A k \in C : color'[k] = "black" <=> color[k] = "black"
      BY <3>0 DEF TypeOK
    <3>2. BlackHasNoLoop(C)'
      BY <2>1, <3>0, <3>1 DEF PartInv, BlackHasNoLoop
    <3>3. BlackIsClosed(C)'
      BY <2>1, <3>0, <3>1 DEF PartInv, BlackIsClosed
    <3>4. LookedAt(C)'
      BY <2>1, <3>0 DEF LookedAt, Children, TypeOK
    <3>. QED
      BY <3>2, <3>3, <3>4 DEF PartInv
  <2>. QED
    BY <1>00, <2>1, <2>3, <2>4, <2>5, <2>6 DEF WalkInv, PartInv
<1>2. ASSUME NEW n \in Names, Descend(n) PROVE WalkInv'
  <2>. USE <1>2 DEF Descend
  <2>1. /\ merged' = merged
        /\ Len(stack') = Len(stack) + 1
        /\ DOMAIN stack' = 1 .. Len(stack) + 1
        /\ stack'[Len(stack) + 1] = n
        /\ \A i \in DOMAIN stack : stack'[i] = stack[i]
    BY <1>0 DEF merged, TypeOK
  <2>2. Len(stack) \in DOMAIN stack /\ top \in Names /\ top = stack[Len(stack)]
    BY <1>0 DEF TypeOK, top
  <2>3. <<top, n>> \in merged
    BY <2>2 DEF WalkInv, Children
  <2>4. \A i \in DOMAIN stack : stack[i] # n /\ color[stack[i]] = "gray" /\ stack[i] \in Names
    BY <1>0 DEF WalkInv, GrayIsStacked, TypeOK
  <2>5. StackDistinct'
    BY <1>0, <2>1, <2>4 DEF WalkInv, StackDistinct
  <2>6. GrayIsStacked'
    BY <1>0, <2>1, <2>4 DEF WalkInv, GrayIsStacked, TypeOK
  <2>7. StackIsPath'
    BY <1>0, <2>1, <2>2, <2>3 DEF WalkInv, StackIsPath
  <2>8. (\A k \in Names : todo[k] \subseteq Children(k))'
    BY <2>1, <2>2 DEF WalkInv, TypeOK, Children
  <2>9. FlaggedLoop'
    BY <2>1 DEF WalkInv, FlaggedLoop
  <2>10. ASSUME NEW C \in Parts, Unflagged(C)' PROVE PartInv(C)'
    <3>0. C \subseteq Names /\ PartInv(C)
      BY <2>1, <2>10 DEF WalkInv, Unflagged, PartInv, Parts
    <3>1. \A k \in C : color'[k] = "black" <=> color[k] = "black"
      BY <3>0 DEF TypeOK
    <3>2. BlackHasNoLoop(C)'
      BY <2>1, <3>0, <3>1 DEF PartInv, BlackHasNoLoop
    <3>3. BlackIsClosed(C)'
      BY <2>1, <3>0, <3>1 DEF PartInv, BlackIsClosed
    <3>4. ASSUME NEW i \in DOMAIN stack', NEW m \in C,
                 stack'[i] \in C, <<stack'[i], m>> \in merged, m \notin todo'[stack'[i]]
          PROVE  \/ color'[m] = "black"
                 \/ i + 1 \in DOMAIN stack' /\ stack'[i + 1] = m
      <4>1. CASE i = Len(stack) + 1
        BY <2>1, <2>2, <2>4, <3>0, <3>4, <4>1 DEF TypeOK, Children
      <4>2. CASE i = Len(stack)
        <5>1. m = n \/ m \notin todo[stack[i]]
          BY <2>1, <2>2, <2>4, <3>4, <4>2 DEF TypeOK
        <5>2. CASE m = n
          BY <1>0, <2>1, <2>2, <4>2, <5>2
        <5>3. CASE m \notin todo[stack[i]]
          <6>1. color[m] = "black"
            BY <1>0, <2>1, <2>2, <3>0, <3>4, <4>2, <5>3 DEF PartInv, LookedAt
          <6>. QED
            BY <6>1, <3>1
        <5>. QED
          BY <5>1, <5>2, <5>3
      <4>3. CASE i \in 1 .. Len(stack) - 1
        <5>1. i \in DOMAIN stack /\ i + 1 \in DOMAIN stack /\ stack'[i] = stack[i]
              /\ stack'[i + 1] = stack[i + 1] /\ i + 1 \in DOMAIN stack'
          BY <1>0, <2>1, <4>3
        <5>2. stack[i] # top
          BY <1>0, <2>2, <4>3, <5>1 DEF WalkInv, StackDistinct
        <5>3. m \notin todo[stack[i]]
          BY <2>2, <2>4, <3>4, <5>1, <5>2 DEF TypeOK
        <5>. QED
          BY <3>0, <3>1, <3>4, <5>1, <5>3 DEF PartInv, LookedAt
      <4>. QED
        BY <1>0, <2>1, <4>1, <4>2, <4>3
    <3>. QED
      BY <2>1, <3>2, <3>3, <3>4 DEF LookedAt, PartInv
  <2>. QED
    BY <1>00, <2>1, <2>5, <2>6, <2>7, <2>8, <2>9, <2>10 DEF WalkInv, PartInv
<1>3. ASSUME NEW n \in Names, CloseCycle(n) PROVE WalkInv'
  <2>. USE <1>3 DEF CloseCycle
  <2>1. merged' = merged /\ top \in Names
    BY <1>0 DEF merged, TypeOK, top
  <2>2. PICK start \in DOMAIN stack :
          /\ stack[start] = n
          /\ cyclic' = cyclic \cup {stack[i] : i \in start .. Len(stack)}
    OBVIOUS
  <2>3. <<top, stack[start]>> \in merged
    BY <2>1, <2>2 DEF WalkInv, Children
  <2>4. Loops({stack[i] : i \in start .. Len(stack)}, merged)
    BY <2>3, SliceLoops DEF WalkInv
  <2>5. FlaggedLoop'
    BY <2>1, <2>2, <2>4 DEF FlaggedLoop
  <2>6. ASSUME NEW C \in Parts, Unflagged(C)' PROVE PartInv(C)'
    <3>0. C \subseteq Names /\ PartInv(C)
      BY <2>1, <2>2, <2>6 DEF WalkInv, Unflagged, PartInv, Parts
    <3>1. BlackHasNoLoop(C)' /\ BlackIsClosed(C)'
      BY <2>1, <3>0 DEF PartInv, BlackHasNoLoop, BlackIsClosed
    <3>2. ~(top \in C /\ n \in C)
      <4>. SUFFICES ASSUME top \in C, n \in C PROVE FALSE
        OBVIOUS
      <4>. DEFINE S == {stack[i] : i \in start .. Len(stack)}
      <4>1. S \subseteq C
        BY <2>2, PathInPart DEF WalkInv
      <4>2. S \in SUBSET (cyclic' \cap C) /\ Loops(S, merged)
        BY <2>2, <2>4, <4>1
      <4>. HIDE DEF S
      <4>. QED
        BY <2>1, <2>6, <4>2 DEF Unflagged
    <3>3. ASSUME NEW i \in DOMAIN stack, NEW m \in C, stack[i] \in C,
                 <<stack[i], m>> \in merged, m \notin todo'[stack[i]]
          PROVE  \/ color[m] = "black"
                 \/ i + 1 \in DOMAIN stack /\ stack[i + 1] = m
      <4>1. m \notin todo[stack[i]]
        BY <2>1, <3>0, <3>2, <3>3 DEF TypeOK
      <4>. QED
        BY <3>0, <3>3, <4>1 DEF PartInv, LookedAt
    <3>. QED
      BY <2>1, <3>1, <3>3 DEF LookedAt, PartInv
  <2>7. StackDistinct' /\ GrayIsStacked' /\ StackIsPath'
    BY <2>1 DEF WalkInv, StackDistinct, GrayIsStacked, StackIsPath
  <2>8. (\A k \in Names : todo[k] \subseteq Children(k))'
    BY <2>1 DEF WalkInv, TypeOK, Children
  <2>. QED
    BY <1>00, <2>1, <2>5, <2>6, <2>7, <2>8 DEF WalkInv, PartInv
<1>4. ASSUME NEW n \in Names, PassBlack(n) PROVE WalkInv'
  <2>. USE <1>4 DEF PassBlack
  <2>1. merged' = merged /\ top \in Names
    BY <1>0 DEF merged, TypeOK, top
  <2>2. StackDistinct' /\ GrayIsStacked' /\ StackIsPath' /\ FlaggedLoop'
    BY <2>1 DEF WalkInv, StackDistinct, GrayIsStacked, StackIsPath, FlaggedLoop
  <2>3. (\A k \in Names : todo[k] \subseteq Children(k))'
    BY <2>1 DEF WalkInv, TypeOK, Children
  <2>4. ASSUME NEW C \in Parts, Unflagged(C)' PROVE PartInv(C)'
    <3>0. C \subseteq Names /\ PartInv(C)
      BY <2>1, <2>4 DEF WalkInv, Unflagged, PartInv, Parts
    <3>1. BlackHasNoLoop(C)' /\ BlackIsClosed(C)'
      BY <2>1, <3>0 DEF PartInv, BlackHasNoLoop, BlackIsClosed
    <3>2. ASSUME NEW i \in DOMAIN stack, NEW m \in C, stack[i] \in C,
                 <<stack[i], m>> \in merged, m \notin todo'[stack[i]]
          PROVE  \/ color[m] = "black"
                 \/ i + 1 \in DOMAIN stack /\ stack[i + 1] = m
      <4>1. m = n \/ m \notin todo[stack[i]]
        BY <2>1, <3>0, <3>2 DEF TypeOK
      <4>. QED
        BY <3>0, <3>2, <4>1 DEF PartInv, LookedAt
    <3>. QED
      BY <2>1, <3>1, <3>2 DEF LookedAt, PartInv
  <2>. QED
    BY <1>00, <2>1, <2>2, <2>3, <2>4 DEF WalkInv, PartInv
<1>5. CASE Leave
  <2>. USE <1>5 DEF Leave
  <2>1. /\ merged' = merged
        /\ Len(stack') = Len(stack) - 1
        /\ DOMAIN stack' = 1 .. Len(stack) - 1
        /\ \A i \in DOMAIN stack' : stack'[i] = stack[i]
        /\ top \in Names /\ Len(stack) \in DOMAIN stack /\ top = stack[Len(stack)]
    BY <1>0 DEF merged, TypeOK, top
  <2>2. \A i \in DOMAIN stack' : stack[i] # top /\ i \in DOMAIN stack
    BY <1>0, <2>1 DEF WalkInv, StackDistinct
  <2>3. StackDistinct' /\ StackIsPath'
    BY <1>0, <2>1 DEF WalkInv, StackDistinct, StackIsPath
  <2>4. GrayIsStacked'
    <3>. SUFFICES ASSUME NEW k \in Names
                  PROVE  color'[k] = "gray" <=> \E i \in DOMAIN stack' : stack'[i] = k
      BY DEF GrayIsStacked
    <3>1. color'[k] = "gray" <=> color[k] = "gray" /\ k # top
      BY <2>1 DEF TypeOK
    <3>2. (\E i \in DOMAIN stack' : stack'[i] = k) <=>
          (\E i \in DOMAIN stack : stack[i] = k) /\ k # top
      <4>1. ASSUME NEW i \in DOMAIN stack', stack'[i] = k
            PROVE  (\E h \in DOMAIN stack : stack[h] = k) /\ k # top
        BY <2>1, <2>2, <4>1
      <4>2. ASSUME NEW i \in DOMAIN stack, stack[i] = k, k # top
            PROVE  \E h \in DOMAIN stack' : stack'[h] = k
        <5>1. i \in DOMAIN stack'
          BY <1>0, <2>1, <4>2
        <5>. QED
          BY <2>1, <4>2, <5>1
      <4>. QED
        BY <4>1, <4>2
    <3>. QED
      BY <3>1, <3>2 DEF WalkInv, GrayIsStacked
  <2>5. (\A k \in Names : todo[k] \subseteq Children(k))' /\ FlaggedLoop'
    BY <2>1 DEF WalkInv, FlaggedLoop, Children
  <2>6. ASSUME NEW C \in Parts, Unflagged(C)' PROVE PartInv(C)'
    <3>. DEFINE B == {k \in C : color[k] = "black"}
    <3>0. C \subseteq Names /\ PartInv(C)
      BY <2>1, <2>6 DEF WalkInv, Unflagged, PartInv, Parts
    <3>1. color[top] = "gray"
      BY <2>1 DEF WalkInv, GrayIsStacked
    <3>2. \A k \in C : color'[k] = "black" <=> color[k] = "black" \/ k = top
      BY <2>1, <3>0 DEF TypeOK
    <3>3. \A m \in C : top \in C /\ <<top, m>> \in merged => m \in B
      <4>. SUFFICES ASSUME NEW m \in C, top \in C, <<top, m>> \in merged
                    PROVE  color[m] = "black"
        OBVIOUS
      <4>1. Len(stack) + 1 \notin DOMAIN stack
        BY <1>0
      <4>2. m \notin todo[stack[Len(stack)]]
        BY <2>1
      <4>. QED
        BY <2>1, <3>0, <4>1, <4>2 DEF PartInv, LookedAt
    <3>4. \A k \in B, m \in C : <<k, m>> \in merged => m \in B
      BY <3>0 DEF PartInv, BlackIsClosed
    <3>5. BlackIsClosed(C)'
      BY <2>1, <3>2, <3>3, <3>4 DEF BlackIsClosed
    <3>6. \A S \in SUBSET B : ~Loops(S, merged)
      BY <3>0 DEF PartInv, BlackHasNoLoop
    <3>7. BlackHasNoLoop(C)'
      <4>1. CASE top \in C
        <5>1. {k \in C : color'[k] = "black"} = B \cup {top}
          BY <3>2, <4>1
        <5>2. top \notin B /\ <<top, top>> \notin merged
          BY <2>1, <3>1, <3>3, <4>1
        <5>3. \A k \in B, m \in B \cup {top} : <<k, m>> \in merged => m \in B
          BY <3>4, <4>1
        <5>4. \A S \in SUBSET (B \cup {top}) : ~Loops(S, merged)
          <6>. HIDE DEF B
          <6>. QED
            BY <3>6, <5>2, <5>3, LoopFreeGrows
        <5>. QED
          BY <2>1, <5>1, <5>4 DEF BlackHasNoLoop
      <4>2. CASE top \notin C
        <5>1. {k \in C : color'[k] = "black"} = B
          BY <3>2, <4>2
        <5>. QED
          BY <2>1, <3>6, <5>1 DEF BlackHasNoLoop
      <4>. QED
        BY <4>1, <4>2
    <3>8. ASSUME NEW i \in DOMAIN stack', NEW m \in C,
                 stack[i] \in C, <<stack[i], m>> \in merged, m \notin todo[stack[i]]
          PROVE  \/ color'[m] = "black"
                 \/ i + 1 \in DOMAIN stack' /\ stack'[i + 1] = m
      <4>1. color[m] = "black" \/ (i + 1 \in DOMAIN stack /\ stack[i + 1] = m)
        BY <2>2, <3>0, <3>8 DEF PartInv, LookedAt
      <4>2. CASE color[m] = "black"
        BY <3>2, <4>2
      <4>3. CASE i + 1 \in DOMAIN stack' /\ stack[i + 1] = m
        BY <2>1, <4>3
      <4>4. CASE i + 1 = Len(stack) /\ stack[i + 1] = m
        BY <2>1, <3>2, <4>4
      <4>. QED
        BY <1>0, <2>1, <4>1, <4>2, <4>3, <4>4
    <3>9. LookedAt(C)'
      BY <2>1, <3>8 DEF LookedAt
    <3>. QED
      BY <3>5, <3>7, <3>9 DEF PartInv
  <2>. QED
    BY <1>00, <2>1, <2>3, <2>4, <2>5, <2>6 DEF WalkInv, PartInv
<1>6. CASE UNCHANGED vars
  <2>1. StackDistinct' /\ GrayIsStacked' /\ StackIsPath' /\ FlaggedLoop'
        /\ (\A k \in Names : todo[k] \subseteq Children(k))'
    BY <1>6 DEF vars, WalkInv, StackDistinct, GrayIsStacked, StackIsPath, FlaggedLoop,
                Children, merged
  <2>2. merged' = merged /\ UNCHANGED <<color, stack, todo, cyclic>>
    BY <1>6 DEF vars, merged
  <2>3. ASSUME NEW C \in Parts, Unflagged(C)' PROVE PartInv(C)'
    <3>1. PartInv(C)
      BY <2>2, <2>3 DEF WalkInv, Unflagged, PartInv
    <3>. QED
      BY <2>2, <3>1 DEF PartInv, BlackIsClosed, LookedAt, BlackHasNoLoop
  <2>. QED
    BY <1>00, <2>1, <2>2, <2>3 DEF WalkInv, PartInv
<1>. QED
  BY <1>1, <1>2, <1>3, <1>4, <1>5, <1>6 DEF Next, Return

\* Before the walk all names are white, and no path is begun.
LEMMA WalkInit == Init => WalkInv
  BY DEF Init, WalkInv, StackDistinct, GrayIsStacked, StackIsPath, FlaggedLoop,
         Parts, BlackIsClosed, LookedAt, BlackHasNoLoop, Loops

\* WalkInv: the colors, the stack and what is flagged fit together.
THEOREM WalkInvariant == Spec => []WalkInv
<1>1. Init => WalkInv
  BY WalkInit
<1>2. TypeOK /\ TypeOK' /\ WalkInv /\ [Next]_vars => WalkInv'
  BY WalkStep
<1>. QED
  BY <1>1, <1>2, WalkTypes, PTL DEF Spec

-------------------------------------------------------------------------------
(* What the walk decides                                                   *)

\* When the walk is done, the graph has a loop only if something is flagged.
LEMMA UnflaggedIsAcyclic ==
  ASSUME TypeOK, WalkInv, Done, cyclic = {}
  PROVE  ~Cyclic(merged)
<1>. SUFFICES ASSUME NEW S \in SUBSET Names, Loops(S, merged) PROVE FALSE
  BY DEF Cyclic
<1>1. \A n \in allNodes : color[n] = "black"
  BY DEF Done, WalkInv, GrayIsStacked, TypeOK, Colors, allNodes
<1>2. S \subseteq allNodes
  <2>. SUFFICES ASSUME NEW n \in S PROVE n \in allNodes
    OBVIOUS
  <2>1. PICK m \in S : <<n, m>> \in merged
    BY DEF Loops
  <2>. QED
    BY <2>1 DEF allNodes
<1>3. S \in SUBSET {n \in Names : color[n] = "black"}
  BY <1>1, <1>2
<1>4. Unflagged(Names)
  BY DEF Unflagged, Loops
<1>5. BlackHasNoLoop(Names)
  BY <1>4, WholeIsPart DEF WalkInv
<1>. QED
  BY <1>3, <1>5 DEF BlackHasNoLoop

\* Of a flagged loop that is new, one row is the upload's.
LEMMA NewLoopHasRow ==
  ASSUME TypeOK, WalkInv, cyclic # {}, ~Cyclic(existing)
  PROVE  FlaggedRows # {}
<1>1. PICK S \in SUBSET cyclic : Loops(S, merged)
  BY DEF WalkInv, FlaggedLoop
<1>2. S \in SUBSET Names /\ S # {}
  BY <1>1 DEF TypeOK, Loops
<1>3. PICK n \in S : \A m \in S : <<n, m>> \notin existing
  BY <1>2 DEF Cyclic, Loops
<1>4. PICK m \in S : <<n, m>> \in merged
  BY <1>1 DEF Loops
<1>5. <<n, m>> \in rows
  BY <1>3, <1>4 DEF merged
<1>. QED
  BY <1>5 DEF FlaggedRows

\* RejectsExactlyCycles: an upload onto an acyclic graph gets a cycle error
\* exactly if the merged graph is cyclic, whatever the order of the walk.
THEOREM CycleErrorsAreExact == Spec => []RejectsExactlyCycles
<1>1. TypeOK /\ WalkInv => RejectsExactlyCycles
  <2>. SUFFICES ASSUME TypeOK, WalkInv, Done, ~Cyclic(existing)
                PROVE  FlaggedRows # {} <=> Cyclic(merged)
    BY DEF RejectsExactlyCycles
  <2>1. ASSUME FlaggedRows # {} PROVE Cyclic(merged)
    <3>1. cyclic # {}
      BY <2>1 DEF FlaggedRows
    <3>2. PICK S \in SUBSET cyclic : Loops(S, merged)
      BY <3>1 DEF WalkInv, FlaggedLoop
    <3>. QED
      BY <3>2 DEF TypeOK, Cyclic
  <2>2. ASSUME Cyclic(merged) PROVE FlaggedRows # {}
    BY <2>2, UnflaggedIsAcyclic, NewLoopHasRow
  <2>. QED
    BY <2>1, <2>2
<1>. QED
  BY <1>1, WalkTypes, WalkInvariant, PTL

-------------------------------------------------------------------------------
(* What is flagged                                                         *)

\* Each name of the slice an edge closes owns itself through the others.
LEMMA SliceOnCycle ==
  ASSUME TypeOK, StackIsPath, stack # <<>>,
         NEW start \in DOMAIN stack, <<top, stack[start]>> \in merged,
         NEW j \in start .. Len(stack)
  PROVE  OnCycle(stack[j], merged)
<1>1. /\ Len(stack) \in Nat /\ DOMAIN stack = 1 .. Len(stack)
      /\ \A i \in DOMAIN stack : stack[i] \in Names
  BY DEF TypeOK
<1>2. j \in DOMAIN stack /\ Len(stack) \in DOMAIN stack
  BY <1>1
<1>. SUFFICES ASSUME NEW T \in SUBSET Names,
                     \A m \in Names : <<stack[j], m>> \in merged => m \in T,
                     \A k \in T, m \in Names : <<k, m>> \in merged => m \in T
              PROVE  stack[j] \in T
  BY DEF OnCycle
<1>3. Closed(T)
  BY DEF Closed, TypeOK, merged, Pairs
<1>4. top \in T \/ j = Len(stack)
  <2>1. CASE j # Len(stack)
    <3>1. j + 1 \in DOMAIN stack /\ Len(stack) \in j + 1 .. Len(stack)
      BY <1>1, <1>2, <2>1
    <3>2. stack[j + 1] \in T
      BY <1>1, <1>2, <3>1 DEF StackIsPath
    <3>. QED
      BY <1>3, <3>1, <3>2, PathStays DEF top
  <2>. QED
    BY <2>1
<1>5. stack[start] \in T
  BY <1>1, <1>4 DEF top
<1>. QED
  BY <1>3, <1>5, PathStays

\* FlaggedOnCycles: no name is flagged that is on no cycle.
THEOREM OnlyCyclesFlagged == Spec => []FlaggedOnCycles
<1>1. Init => FlaggedOnCycles
  BY DEF Init, FlaggedOnCycles
<1>2. TypeOK /\ WalkInv /\ FlaggedOnCycles /\ [Next]_vars => FlaggedOnCycles'
  <2>. SUFFICES ASSUME TypeOK, WalkInv, FlaggedOnCycles, [Next]_vars PROVE FlaggedOnCycles'
    OBVIOUS
  <2>1. ASSUME NEW n \in Names, CloseCycle(n) PROVE FlaggedOnCycles'
    <3>1. merged' = merged
      BY <2>1 DEF CloseCycle, merged
    <3>2. PICK start \in DOMAIN stack :
            /\ stack[start] = n
            /\ cyclic' = cyclic \cup {stack[i] : i \in start .. Len(stack)}
      BY <2>1 DEF CloseCycle
    <3>3. <<top, stack[start]>> \in merged /\ stack # <<>>
      BY <2>1, <3>2 DEF CloseCycle, WalkInv, Children, TypeOK, top
    <3>4. \A i \in start .. Len(stack) : OnCycle(stack[i], merged)
      BY <3>3, SliceOnCycle DEF WalkInv
    <3>. QED
      BY <3>1, <3>2, <3>4 DEF FlaggedOnCycles
  <2>2. ASSUME cyclic' = cyclic, merged' = merged PROVE FlaggedOnCycles'
    BY <2>2 DEF FlaggedOnCycles
  <2>. QED
    BY <2>1, <2>2 DEF Next, VisitRoot, Descend, PassBlack, Leave, Return, vars, merged
<1>. QED
  BY <1>1, <1>2, WalkTypes, WalkInvariant, PTL DEF Spec

\* m owns n, perhaps through others, or is n.
Reaches(m, n) == \A T \in SUBSET Names : m \in T /\ Closed(T) => n \in T

\* The names a row is tangled up with: its child reaches them, they reach its parent.
Tangle(p) == {n \in Names : Reaches(p[2], n) /\ Reaches(n, p[1])}

LEMMA ReachesOn ==
  ASSUME TypeOK, NEW k, NEW m \in Names, <<k, m>> \in merged, NEW n
  PROVE  /\ Reaches(n, k) => Reaches(n, m)
         /\ Reaches(m, n) => Reaches(k, n)
  BY DEF Reaches, Closed

LEMMA LeadsReaches ==
  ASSUME TypeOK, NEW p, NEW q
  PROVE  LeadsTo(p, q) <=> Reaches(p[2], q[1])
<1>1. \A T \in SUBSET Names :
        Closed(T) <=> \A k \in T, m \in Names : <<k, m>> \in merged => m \in T
  BY DEF Closed, TypeOK, merged, Pairs
<1>. QED
  BY <1>1 DEF LeadsTo, Reaches

\* The tangle of a row on a cycle is a part of the graph, and a loop.
LEMMA TangleIsALoop ==
  ASSUME TypeOK, NEW p \in rows, LeadsTo(p, p)
  PROVE  Tangle(p) \in Parts /\ Loops(Tangle(p), merged)
<1>. DEFINE C == Tangle(p)
            U == {n \in Names : Reaches(p[2], n)}
            V == {n \in U : ~Reaches(n, p[1])}
<1>1. p[1] \in Names /\ p[2] \in Names /\ p = <<p[1], p[2]>> /\ p \in merged
  BY DEF TypeOK, Pairs, merged
<1>2. Reaches(p[2], p[1])
  BY LeadsReaches
<1>3. \A n : Reaches(n, n)
  BY DEF Reaches
<1>4. p[1] \in C /\ p[2] \in C
  BY <1>1, <1>2, <1>3 DEF Tangle
<1>5. \A e \in merged : e = <<e[1], e[2]>> /\ e[1] \in Names /\ e[2] \in Names
  BY DEF TypeOK, merged, Pairs
<1>6. Closed(U)
  BY <1>5, ReachesOn DEF Closed
<1>7. Closed(V)
  BY <1>5, ReachesOn DEF Closed
<1>8. C \in Parts
  <2>1. V \in SUBSET (Names \ C) /\ C \cup V = U
    BY DEF Tangle
  <2>2. C \in SUBSET Names
    BY DEF Tangle
  <2>. HIDE DEF C, U, V
  <2>. QED
    BY <1>6, <1>7, <2>1, <2>2 DEF Parts
<1>9. ASSUME NEW n \in C PROVE \E m \in C : <<n, m>> \in merged
  <2>1. CASE n = p[1]
    BY <1>1, <1>4, <2>1
  <2>2. CASE n # p[1]
    <3>. DEFINE T == {n} \cup {m \in Names : \E c \in Names : <<n, c>> \in merged /\ Reaches(c, m)}
    <3>1. T \in SUBSET Names /\ n \in T
      BY DEF Tangle
    <3>2. ASSUME NEW e \in merged, e[1] \in T PROVE e[2] \in T
      <4>1. CASE e[1] = n
        BY <1>3, <1>5, <4>1
      <4>2. CASE e[1] # n
        <5>1. PICK c \in Names : <<n, c>> \in merged /\ Reaches(c, e[1])
          BY <3>2, <4>2
        <5>2. Reaches(c, e[2])
          BY <1>5, <5>1, ReachesOn
        <5>. QED
          BY <1>5, <5>1, <5>2
      <4>. QED
        BY <4>1, <4>2
    <3>3. p[1] \in T
      <4>1. Closed(T)
        BY <3>2 DEF Closed
      <4>2. Reaches(n, p[1])
        BY DEF Tangle
      <4>. HIDE DEF T
      <4>. QED
        BY <3>1, <4>1, <4>2 DEF Reaches
    <3>4. PICK c \in Names : <<n, c>> \in merged /\ Reaches(c, p[1])
      BY <2>2, <3>3
    <3>5. Reaches(p[2], c)
      BY <3>4, ReachesOn DEF Tangle
    <3>. QED
      BY <3>4, <3>5 DEF Tangle
  <2>. QED
    BY <2>1, <2>2
<1>. QED
  BY <1>4, <1>8, <1>9 DEF Loops

\* EveryTangleFlagged: of the rows on a cycle, and of those tangled up with each,
\* one is flagged, whatever the order of the walk.
THEOREM TanglesFlagged == Spec => []EveryTangleFlagged
<1>1. TypeOK /\ WalkInv => EveryTangleFlagged
  <2>. SUFFICES ASSUME TypeOK, WalkInv, Done, ~Cyclic(existing),
                       NEW p \in rows, LeadsTo(p, p)
                PROVE  \E q \in FlaggedRows : LeadsTo(p, q) /\ LeadsTo(q, p)
    BY DEF EveryTangleFlagged
  <2>. DEFINE C == Tangle(p)
  <2>1. C \in Parts /\ Loops(C, merged) /\ C \subseteq Names
    BY TangleIsALoop DEF Tangle
  <2>2. \A n \in allNodes : color[n] = "black"
    BY DEF Done, WalkInv, GrayIsStacked, TypeOK, Colors, allNodes
  <2>3. C = {n \in C : color[n] = "black"}
    <3>1. ASSUME NEW n \in C PROVE n \in allNodes
      <4>1. PICK m \in C : <<n, m>> \in merged
        BY <2>1 DEF Loops
      <4>. QED
        BY <2>1, <4>1 DEF allNodes
    <3>. QED
      BY <2>2, <3>1
  <2>4. ~Unflagged(C)
    <3>. HIDE DEF C
    <3>. QED
      BY <2>1, <2>3 DEF WalkInv, BlackHasNoLoop
  <2>5. PICK S \in SUBSET (cyclic \cap C) : Loops(S, merged)
    BY <2>4 DEF Unflagged
  <2>6. S \in SUBSET Names /\ S # {}
    BY <2>1, <2>5 DEF Loops
  <2>7. PICK n \in S : \A m \in S : <<n, m>> \notin existing
    BY <2>6 DEF Cyclic, Loops
  <2>8. PICK m \in S : <<n, m>> \in merged
    BY <2>5 DEF Loops
  <2>9. <<n, m>> \in FlaggedRows
    BY <2>5, <2>7, <2>8 DEF merged, FlaggedRows
  <2>10. LeadsTo(p, <<n, m>>) /\ LeadsTo(<<n, m>>, p)
    BY <2>5, LeadsReaches DEF Tangle
  <2>. QED
    BY <2>9, <2>10
<1>. QED
  BY <1>1, WalkTypes, WalkInvariant, PTL

-------------------------------------------------------------------------------
(* The verdict                                                             *)

\* GivesAVerdict: the choice of Registry's CheckGraph has every outcome of the walk,
\* whatever the graph and the order.
THEOREM WalkGivesVerdict == Spec => []GivesAVerdict
<1>1. TypeOK /\ FlaggedOnCycles /\ RejectsExactlyCycles => GivesAVerdict
  <2>. SUFFICES ASSUME TypeOK, FlaggedOnCycles, RejectsExactlyCycles, Done
                PROVE  (FlaggedRows # {}) \in CycleVerdicts(existing, rows)
    BY DEF GivesAVerdict
  <2>1. ~Cyclic(existing) => (FlaggedRows # {} <=> Cyclic(merged))
    BY DEF RejectsExactlyCycles
  <2>2. FlaggedRows # {} => \E p \in rows : OnCycle(p[1], merged) /\ OnCycle(p[2], merged)
    BY DEF FlaggedRows, FlaggedOnCycles
  <2>3. merged = existing \cup rows
    BY DEF merged
  <2>. QED
    BY <2>1, <2>2, <2>3, Zenon DEF CycleVerdicts
<1>. QED
  BY <1>1, WalkTypes, OnlyCyclesFlagged, CycleErrorsAreExact, PTL

-------------------------------------------------------------------------------
(* The work of the walk                                                    *)

\* What is in WorkLeft, kind by kind.
LEMMA WorkKinds ==
  /\ \A n : <<"begin", n>> \in WorkLeft <=> n \in Names /\ color[n] = "white"
  /\ \A p : <<"look", p>> \in WorkLeft <=>
       p \in merged /\ (color[p[1]] = "white" \/ p[2] \in todo[p[1]])
  /\ \A n : <<"end", n>> \in WorkLeft <=> n \in Names /\ color[n] # "black"
  /\ \A w \in WorkLeft : \E x : w \in {<<"begin", x>>, <<"look", x>>, <<"end", x>>}
  BY DEF WorkLeft

LEMMA NextWorkKinds ==
  (/\ \A n : <<"begin", n>> \in WorkLeft <=> n \in Names /\ color[n] = "white"
   /\ \A p : <<"look", p>> \in WorkLeft <=>
        p \in merged /\ (color[p[1]] = "white" \/ p[2] \in todo[p[1]])
   /\ \A n : <<"end", n>> \in WorkLeft <=> n \in Names /\ color[n] # "black"
   /\ \A w \in WorkLeft : \E x : w \in {<<"begin", x>>, <<"look", x>>, <<"end", x>>})'
  BY WorkKinds, PTL

\* Nothing begins white again, an edge looked at stays so, and a visit ended too.
LEMMA WorkNotAdded ==
  ASSUME merged' = merged,
         \A n \in Names : color'[n] = "white" => color[n] = "white",
         \A n \in Names : color'[n] # "black" => color[n] # "black",
         \A p \in merged : color'[p[1]] = "white" \/ p[2] \in todo'[p[1]] =>
                             color[p[1]] = "white" \/ p[2] \in todo[p[1]]
  PROVE  WorkLeft' \subseteq WorkLeft
<1>1. ASSUME NEW w \in WorkLeft' PROVE w \in WorkLeft
  <2>1. PICK x : w \in {<<"begin", x>>, <<"look", x>>, <<"end", x>>}
    BY NextWorkKinds
  <2>2. CASE w = <<"begin", x>>
    BY <2>2, WorkKinds, NextWorkKinds
  <2>3. CASE w = <<"look", x>>
    BY <2>3, WorkKinds, NextWorkKinds
  <2>4. CASE w = <<"end", x>>
    BY <2>4, WorkKinds, NextWorkKinds
  <2>. QED
    BY <2>1, <2>2, <2>3, <2>4
<1>. QED
  BY <1>1

\* EveryStepIsWork: on a finite graph the walk can only take so many steps.
THEOREM WalkShrinks == Spec => EveryStepIsWork
<1>. DEFINE Less == WorkLeft' \subseteq WorkLeft /\ WorkLeft' # WorkLeft
<1>1. TypeOK /\ TypeOK' /\ WalkInv /\ [Next]_vars => [Less]_vars
  <2>. SUFFICES ASSUME TypeOK, TypeOK', WalkInv, Next, ~ UNCHANGED vars PROVE Less
    BY DEF Next
  <2>1. /\ \A p \in merged : p[1] \in Names /\ p[2] \in Names /\ p = <<p[1], p[2]>>
        /\ \A n, m \in Names : m \in todo[n] => <<n, m>> \in merged
    BY DEF TypeOK, merged, Pairs, WalkInv, Children
  <2>2. stack # <<>> => top \in Names /\ color[top] = "gray"
    <3>1. ASSUME stack # <<>> PROVE Len(stack) \in DOMAIN stack
      BY <3>1 DEF TypeOK
    <3>. QED
      BY <3>1 DEF TypeOK, WalkInv, GrayIsStacked, top
  <2>3. ASSUME NEW n \in Names, VisitRoot(n) PROVE Less
    <3>1. /\ merged' = merged
          /\ color' = [color EXCEPT ![n] = "gray"] /\ color[n] = "white"
          /\ todo' = [todo EXCEPT ![n] = Children(n)]
      BY <2>3 DEF VisitRoot, merged
    <3>2. WorkLeft' \subseteq WorkLeft
      BY <2>1, <3>1, WorkNotAdded DEF TypeOK
    <3>3. <<"begin", n>> \in WorkLeft /\ <<"begin", n>> \notin WorkLeft'
      BY <3>1, WorkKinds, NextWorkKinds DEF TypeOK
    <3>. QED
      BY <3>2, <3>3
  <2>4. ASSUME NEW n \in Names, Descend(n) PROVE Less
    <3>1. /\ merged' = merged /\ n \in todo[top] /\ top # n
          /\ color' = [color EXCEPT ![n] = "gray"] /\ color[n] = "white"
          /\ todo' = [todo EXCEPT ![top] = @ \ {n}, ![n] = Children(n)]
      BY <2>2, <2>4 DEF Descend, merged
    <3>2. \A m \in Names \ {n} : todo'[m] \subseteq todo[m] /\ color'[m] = color[m]
      BY <3>1 DEF TypeOK
    <3>3. WorkLeft' \subseteq WorkLeft
      BY <2>1, <3>1, <3>2, WorkNotAdded DEF TypeOK
    <3>4. <<"begin", n>> \in WorkLeft /\ <<"begin", n>> \notin WorkLeft'
      BY <3>1, WorkKinds, NextWorkKinds DEF TypeOK
    <3>. QED
      BY <3>3, <3>4
  <2>5. ASSUME NEW n \in Names, CloseCycle(n) \/ PassBlack(n) PROVE Less
    <3>1. /\ merged' = merged /\ n \in todo[top] /\ stack # <<>>
          /\ color' = color /\ todo' = [todo EXCEPT ![top] = @ \ {n}]
      BY <2>5 DEF CloseCycle, PassBlack, merged
    <3>2. \A m \in Names : todo'[m] \subseteq todo[m]
      BY <3>1 DEF TypeOK
    <3>3. WorkLeft' \subseteq WorkLeft
      BY <2>1, <3>1, <3>2, WorkNotAdded DEF TypeOK
    <3>4. n \notin todo'[top] /\ <<top, n>> \in merged /\ color'[top] # "white"
      BY <2>1, <2>2, <3>1 DEF TypeOK
    <3>. DEFINE p == <<top, n>>
    <3>5. p[1] = top /\ p[2] = n
      OBVIOUS
    <3>. HIDE DEF p
    <3>6. <<"look", p>> \in WorkLeft /\ <<"look", p>> \notin WorkLeft'
      BY <3>1, <3>4, <3>5, WorkKinds, NextWorkKinds DEF p
    <3>. QED
      BY <3>3, <3>6
  <2>6. ASSUME Leave PROVE Less
    <3>1. /\ merged' = merged /\ todo' = todo /\ stack # <<>>
          /\ color' = [color EXCEPT ![top] = "black"]
      BY <2>6 DEF Leave, merged
    <3>2. WorkLeft' \subseteq WorkLeft
      BY <2>1, <2>2, <3>1, WorkNotAdded DEF TypeOK
    <3>3. color[top] # "black" /\ color'[top] = "black" /\ top \in Names
      BY <2>2, <3>1 DEF TypeOK
    <3>4. <<"end", top>> \in WorkLeft /\ <<"end", top>> \notin WorkLeft'
      <4>. DEFINE t == top
      <4>1. color[t] # "black" /\ color'[t] = "black" /\ t \in Names
        BY <3>3
      <4>. HIDE DEF t
      <4>2. <<"end", t>> \in WorkLeft /\ <<"end", t>> \notin WorkLeft'
        BY <4>1, WorkKinds, NextWorkKinds
      <4>. QED
        BY <4>2 DEF t
    <3>. QED
      BY <3>2, <3>4
  <2>. QED
    BY <2>3, <2>4, <2>5, <2>6 DEF Next, Return
<1>. HIDE DEF Less
<1>2. [][Less]_vars => EveryStepIsWork
  BY PTL DEF Less, EveryStepIsWork
<1>. QED
  BY <1>1, <1>2, WalkTypes, WalkInvariant, PTL DEF Spec
===============================================================================
