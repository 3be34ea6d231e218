-------------------------- MODULE EntitiesListProofs --------------------------
(***************************************************************************)
(* For any tables, filters and page sizes: the walk of the recursive query *)
(* returns the paths down from its roots, so the trees of a page are the   *)
(* subtrees of its roots, with their counts; a search shows its matches;   *)
(* and the pages partition what is listed.                                 *)
(***************************************************************************)
EXTENDS AnalyticsReport, OrderFacts, SequenceTheorems

-------------------------------------------------------------------------------
(* The recursive query                                                     *)

\* A path of links down from a root.
IsPath(p, links, roots) ==
  /\ p \in Seq(Nodes) /\ p # <<>>
  /\ p[1] \in roots
  /\ \A i \in 1 .. Len(p) - 1 : <<p[i], p[i + 1]>> \in links

\* One step of the recursion, and its levels up to one.
Onwards(f, links, k) ==
  UNION {{Append(p, l[2]) : l \in {m \in links : m[1] = p[k - 1]}} : p \in f[k - 1]}

AreLevels(f, links, roots, n) ==
  f = [k \in 1 .. n |-> IF k = 1 THEN {<<r>> : r \in roots} ELSE Onwards(f, links, k)]

LEMMA NodesCounted ==
  /\ IsFiniteSet(Nodes) /\ Cardinality(Nodes) \in Nat
  /\ \A n \in Nodes : n \in Nat
  /\ \A S \in SUBSET Nodes : IsFiniteSet(S) /\ Cardinality(S) \in Nat
  BY ListAssumption, FS_CardinalityType, FS_Subset DEF Nodes

\* The recursion is well defined: there are such levels, up to any.
LEMMA LevelsExist ==
  ASSUME NEW links, NEW roots, NEW n \in Nat
  PROVE  \E f : AreLevels(f, links, roots, n)
<1>. DEFINE Without == {m \in Nat : ~ \E f : AreLevels(f, links, roots, m)}
<1>. SUFFICES ASSUME Without # {} PROVE FALSE
  OBVIOUS
<1>1. PICK m \in Without : \A h \in Without : m <= h
  <2>1. Without \subseteq Nat
    OBVIOUS
  <2>. HIDE DEF Without
  <2>. QED
    BY <2>1, LeastNatural
<1>2. m \in Nat /\ \A f : ~AreLevels(f, links, roots, m)
  OBVIOUS
<1>3. CASE m = 0
  <2>. DEFINE f == [k \in 1 .. 0 |-> {}]
  <2>1. AreLevels(f, links, roots, 0)
    BY DEF AreLevels
  <2>. QED
    BY <1>2, <1>3, <2>1
<1>4. CASE m # 0
  <2>1. m - 1 \in Nat /\ m - 1 \notin Without
    <3>1. \A h \in Without : m <= h
      BY <1>1
    <3>. HIDE DEF Without
    <3>. QED
      BY <1>2, <1>4, <3>1
  <2>2. PICK f : AreLevels(f, links, roots, m - 1)
    BY <2>1
  <2>. DEFINE first == {<<r>> : r \in roots}
              g == [k \in 1 .. m |-> IF k < m THEN f[k] ELSE
                                     IF k = 1 THEN first ELSE Onwards(f, links, k)]
  <2>3. \A k \in 1 .. m - 1 : f[k] = IF k = 1 THEN first ELSE Onwards(f, links, k)
    BY <2>2 DEF AreLevels
  <2>4. ASSUME NEW k \in 1 .. m, k # 1 PROVE Onwards(f, links, k) = Onwards(g, links, k)
    <3>1. k - 1 \in 1 .. m /\ k - 1 < m
      BY <1>2, <2>4
    <3>2. g[k - 1] = f[k - 1]
      BY <3>1
    <3>. HIDE DEF g
    <3>. QED
      BY <3>2 DEF Onwards
  <2>5. ASSUME NEW k \in 1 .. m
        PROVE  g[k] = IF k = 1 THEN first ELSE Onwards(g, links, k)
    <3>1. CASE k < m
      <4>1. k \in 1 .. m - 1 /\ g[k] = f[k]
        BY <1>2, <3>1
      <4>. QED
        BY <2>3, <2>4, <4>1
    <3>2. CASE ~(k < m)
      BY <2>4, <3>2
    <3>. QED
      BY <3>1, <3>2
  <2>6. DOMAIN g = 1 .. m /\ g = [k \in 1 .. m |-> g[k]]
    OBVIOUS
  <2>. HIDE DEF g
  <2>7. AreLevels(g, links, roots, m)
    BY <2>5, <2>6 DEF AreLevels
  <2>. QED
    BY <1>2, <2>7
<1>. QED
  BY <1>3, <1>4

\* Walk returns what its levels hold.
LEMMA WalkLevels ==
  ASSUME NEW links, NEW roots
  PROVE  \E f : /\ AreLevels(f, links, roots, Cardinality(Nodes))
                /\ Walk(links, roots) = UNION {f[k] : k \in 1 .. Cardinality(Nodes)}
<1>. DEFINE f == CHOOSE g : AreLevels(g, links, roots, Cardinality(Nodes))
<1>1. AreLevels(f, links, roots, Cardinality(Nodes))
  BY LevelsExist, NodesCounted
<1>2. Walk(links, roots) = UNION {f[k] : k \in DOMAIN f}
  BY DEF Walk, AreLevels, Onwards
<1>3. DOMAIN f = 1 .. Cardinality(Nodes)
  BY <1>1 DEF AreLevels
<1>. QED
  BY <1>1, <1>2, <1>3

\* Each level holds the paths of its length.
HoldPaths(f, links, roots, n) ==
  \A k \in 1 .. n : \A p : p \in f[k] <=> IsPath(p, links, roots) /\ Len(p) = k

LEMMA LevelPaths ==
  ASSUME NEW links \in SUBSET (Nodes \X Nodes), NEW roots \in SUBSET Nodes,
         NEW n \in Nat, NEW f, AreLevels(f, links, roots, n)
  PROVE  HoldPaths(f, links, roots, n)
<1>. DEFINE Wrong == {k \in 1 .. n : ~ \A p : p \in f[k] <=> IsPath(p, links, roots) /\ Len(p) = k}
<1>. SUFFICES ASSUME Wrong # {} PROVE FALSE
  BY DEF HoldPaths
<1>1. PICK k \in Wrong : \A h \in Wrong : k <= h
  <2>1. Wrong \subseteq Nat
    OBVIOUS
  <2>. HIDE DEF Wrong
  <2>. QED
    BY <2>1, LeastNatural
<1>2. k \in 1 .. n /\ k \in Nat /\ ~ \A p : p \in f[k] <=> IsPath(p, links, roots) /\ Len(p) = k
  OBVIOUS
<1>3. CASE k = 1
  <2>1. f[1] = {<<r>> : r \in roots}
    BY <1>2, <1>3 DEF AreLevels
  <2>2. ASSUME NEW p \in f[1] PROVE IsPath(p, links, roots) /\ Len(p) = 1
    <3>1. PICK r \in roots : p = <<r>>
      BY <2>1
    <3>. QED
      BY <3>1 DEF IsPath
  <2>3. ASSUME NEW p, IsPath(p, links, roots), Len(p) = 1 PROVE p \in f[1]
    <3>1. p = <<p[1]>>
      BY <2>3 DEF IsPath
    <3>. QED
      BY <2>1, <2>3, <3>1 DEF IsPath
  <2>. QED
    BY <1>2, <1>3, <2>2, <2>3
<1>4. CASE k # 1
  <2>1. k - 1 \in 1 .. n /\ k - 1 \in Nat /\ k - 1 # 0 /\ k - 1 \notin Wrong
    <3>1. \A h \in Wrong : k <= h
      BY <1>1
    <3>. HIDE DEF Wrong
    <3>. QED
      BY <1>2, <1>4, <3>1
  <2>2. \A q : q \in f[k - 1] <=> IsPath(q, links, roots) /\ Len(q) = k - 1
    BY <2>1
  <2>. HIDE DEF Wrong
  <2>3. f[k] = UNION {{Append(q, l[2]) : l \in {m \in links : m[1] = q[k - 1]}} : q \in f[k - 1]}
    BY <1>2, <1>4 DEF AreLevels, Onwards
  <2>4. ASSUME NEW p \in f[k] PROVE IsPath(p, links, roots) /\ Len(p) = k
    <3>1. PICK q \in f[k - 1] : \E l \in links : l[1] = q[k - 1] /\ p = Append(q, l[2])
      BY <2>3
    <3>2. PICK l \in links : l[1] = q[k - 1] /\ p = Append(q, l[2])
      BY <3>1
    <3>3. q \in Seq(Nodes) /\ Len(q) = k - 1 /\ q[1] \in roots
          /\ \A i \in 1 .. Len(q) - 1 : <<q[i], q[i + 1]>> \in links
      BY <2>2 DEF IsPath
    <3>4. l = <<l[1], l[2]>> /\ l[2] \in Nodes
      OBVIOUS
    <3>5. /\ p \in Seq(Nodes) /\ Len(p) = k /\ p[k] = l[2]
          /\ \A i \in 1 .. k - 1 : p[i] = q[i]
      <4>1. Len(q) + 1 = k
        BY <1>2, <3>3
      <4>2. /\ p \in Seq(Nodes) /\ Len(p) = Len(q) + 1 /\ p[Len(q) + 1] = l[2]
            /\ \A i \in 1 .. Len(q) : p[i] = q[i]
        BY <3>2, <3>3, <3>4
      <4>. QED
        BY <1>2, <3>3, <4>1, <4>2
    <3>6. p # <<>> /\ p[1] \in roots
      BY <2>1, <3>3, <3>5
    <3>7. ASSUME NEW i \in 1 .. Len(p) - 1 PROVE <<p[i], p[i + 1]>> \in links
      <4>1. CASE i = k - 1
        <5>1. i \in 1 .. k - 1 /\ i + 1 = k
          BY <1>2, <2>1, <4>1
        <5>2. p[i] = l[1] /\ p[i + 1] = l[2]
          BY <3>2, <3>5, <4>1, <5>1
        <5>. QED
          BY <3>4, <5>2
      <4>2. CASE i # k - 1
        <5>1. i \in 1 .. Len(q) - 1 /\ i \in 1 .. k - 1 /\ i + 1 \in 1 .. k - 1
          BY <2>1, <3>3, <3>5, <3>7, <4>2
        <5>. QED
          BY <3>3, <3>5, <5>1
      <4>. QED
        BY <4>1, <4>2
    <3>. QED
      BY <3>5, <3>6, <3>7 DEF IsPath
  <2>5. ASSUME NEW p, IsPath(p, links, roots), Len(p) = k PROVE p \in f[k]
    <3>. DEFINE q == [i \in 1 .. k - 1 |-> p[i]]
                l == <<p[k - 1], p[k]>>
    <3>1. /\ p \in Seq(Nodes) /\ p[1] \in roots
          /\ \A i \in 1 .. k - 1 : <<p[i], p[i + 1]>> \in links
          /\ \A i \in 1 .. k : p[i] \in Nodes
      BY <2>1, <2>5 DEF IsPath
    <3>2. /\ q \in Seq(Nodes) /\ Len(q) = k - 1
          /\ \A i \in 1 .. k - 1 : q[i] = p[i]
      <4>1. \A i \in 1 .. k - 1 : p[i] \in Nodes
        BY <2>1, <3>1
      <4>2. q \in [1 .. k - 1 -> Nodes]
        BY <4>1
      <4>3. q \in Seq(Nodes)
        BY <2>1, <4>2, SeqDef
      <4>4. Len(q) = k - 1
        BY <2>1, <4>2, <4>3, LenProperties
      <4>. QED
        BY <4>3, <4>4
    <3>3. l \in links /\ l[1] = q[k - 1] /\ l[2] = p[k]
      <4>1. k - 1 \in 1 .. k - 1 /\ (k - 1) + 1 = k
        BY <1>2, <2>1
      <4>. QED
        BY <3>1, <3>2, <4>1
    <3>. HIDE DEF q, l
    <3>4. q \in f[k - 1]
      <4>1. \A i \in 1 .. Len(q) - 1 : i \in 1 .. k - 1 /\ i + 1 \in 1 .. k - 1
        BY <2>1, <3>2
      <4>2. q # <<>> /\ q[1] \in roots
        BY <2>1, <3>1, <3>2
      <4>. QED
        BY <2>2, <3>1, <3>2, <4>1, <4>2 DEF IsPath
    <3>5. p = Append(q, l[2])
      <4>1. /\ Append(q, l[2]) \in Seq(Nodes) /\ Len(Append(q, l[2])) = k
            /\ \A i \in 1 .. k : Append(q, l[2])[i] = p[i]
        BY <1>2, <2>1, <3>1, <3>2, <3>3
      <4>. QED
        BY <2>5, <3>1, <4>1, SeqEqual
    <3>6. p \in {Append(q, m[2]) : m \in {h \in links : h[1] = q[k - 1]}}
      BY <3>3, <3>5
    <3>. QED
      BY <2>3, <3>4, <3>6
  <2>. QED
    BY <1>2, <2>4, <2>5
<1>. QED
  BY <1>3, <1>4

\* Walk returns the paths down from its roots that are not longer than there are
\* nodes.
LEMMA WalkIsPaths ==
  ASSUME NEW links \in SUBSET (Nodes \X Nodes), NEW roots \in SUBSET Nodes
  PROVE  \A p : p \in Walk(links, roots)
                 <=> IsPath(p, links, roots) /\ Len(p) <= Cardinality(Nodes)
<1>1. PICK f : /\ AreLevels(f, links, roots, Cardinality(Nodes))
               /\ Walk(links, roots) = UNION {f[k] : k \in 1 .. Cardinality(Nodes)}
  BY WalkLevels
<1>2. \A k \in 1 .. Cardinality(Nodes) : \A p :
        p \in f[k] <=> IsPath(p, links, roots) /\ Len(p) = k
  <2>1. HoldPaths(f, links, roots, Cardinality(Nodes))
    BY <1>1, NodesCounted, LevelPaths
  <2>. QED
    BY <2>1 DEF HoldPaths
<1>3. ASSUME NEW p
      PROVE  p \in Walk(links, roots) <=> \E k \in 1 .. Cardinality(Nodes) : p \in f[k]
  BY <1>1
<1>4. ASSUME NEW p, IsPath(p, links, roots)
      PROVE  Len(p) \in 1 .. Cardinality(Nodes) <=> Len(p) <= Cardinality(Nodes)
  <2>1. Len(p) \in Nat \ {0}
    BY <1>4, EmptySeq DEF IsPath
  <2>. QED
    BY <2>1, NodesCounted
<1>. QED
  BY <1>2, <1>3, <1>4

\* More links and more roots make more rows, and a row of one root starts at it.
LEMMA WalkGrows ==
  ASSUME NEW links \in SUBSET (Nodes \X Nodes), NEW more \in SUBSET (Nodes \X Nodes),
         links \subseteq more,
         NEW roots \in SUBSET Nodes, NEW r \in roots, NEW row \in Walk(links, {r})
  PROVE  row \in Walk(more, roots) /\ row[1] = r
<1>1. IsPath(row, links, {r}) /\ Len(row) <= Cardinality(Nodes)
  BY WalkIsPaths
<1>2. IsPath(row, more, roots) /\ row[1] = r
  BY <1>1 DEF IsPath
<1>. QED
  BY <1>1, <1>2, WalkIsPaths

-------------------------------------------------------------------------------
(* The inductive invariant                                                 *)

LEMMA LinksTyped ==
  ASSUME RegistryTypes
  PROVE  /\ ChildLinks \in SUBSET (Nodes \X Nodes)
         /\ \A l \in ChildLinks : l = <<l[1], l[2]>> /\ l[1] \in Entities /\ l[2] \in Nodes
         /\ \A l \in ChildLinks : l[2] \in Entities => l \in owns
<1>1. ASSUME NEW l \in ChildLinks
      PROVE  \/ l \in owns
             \/ \E f \in Fqs : domestic[f] # NoName /\ l = <<domestic[f], f>>
  BY DEF ChildLinks
<1>2. ASSUME NEW l \in owns PROVE l = <<l[1], l[2]>> /\ l[1] \in Entities /\ l[2] \in Entities
  BY DEF RegistryTypes
<1>3. ASSUME NEW f \in Fqs, domestic[f] # NoName PROVE domestic[f] \in Entities
  BY <1>3 DEF RegistryTypes
<1>4. ASSUME NEW l \in ChildLinks
      PROVE  /\ l = <<l[1], l[2]>> /\ l[1] \in Entities /\ l[2] \in Nodes
             /\ l[2] \in Entities => l \in owns
  <2>1. CASE l \in owns
    BY <1>2, <2>1 DEF Nodes
  <2>2. ASSUME NEW f \in Fqs, domestic[f] # NoName, l = <<domestic[f], f>>
        PROVE  l[1] \in Entities /\ l[2] \in Fqs /\ l = <<l[1], l[2]>>
    BY <1>3, <2>2
  <2>. QED
    BY <1>1, <2>1, <2>2, ListAssumption DEF Nodes
<1>5. ChildLinks \subseteq Nodes \X Nodes
  BY <1>4 DEF Nodes
<1>. QED
  BY <1>4, <1>5

LEMMA NextLinksTyped == RegistryTypes' => (ChildLinks \in SUBSET (Nodes \X Nodes))'
<1>1. RegistryTypes => ChildLinks \in SUBSET (Nodes \X Nodes)
  BY LinksTyped
<1>. QED
  BY <1>1, PTL

\* Uploads keep the registry a registry, and only moving an FQ takes a link away.
LEMMA UploadStep ==
  ASSUME RegistryTypes, Next
  PROVE  RegistryTypes' /\ (ChildLinks \subseteq ChildLinks' \/ moved' \/ step \notin {"compliance", "subtrees"})
<1>1. ASSUME UNCHANGED registry PROVE RegistryTypes' /\ ChildLinks' = ChildLinks
  BY <1>1 DEF registry, RegistryTypes, ChildLinks, Graph!Cyclic, Graph!Loops
<1>2. ASSUME NEW e \in Entities, UploadEntity(e)
      PROVE  RegistryTypes' /\ ChildLinks' = ChildLinks
  BY <1>2 DEF UploadEntity, RegistryTypes, ChildLinks, Graph!Cyclic, Graph!Loops
<1>3. ASSUME NEW p \in Entities, NEW c \in Entities, UploadEdge(p, c)
      PROVE  RegistryTypes' /\ ChildLinks \subseteq ChildLinks'
  <2>1. ~Graph!Cyclic(owns)'
    BY <1>3 DEF UploadEdge, Graph!Cyclic, Graph!Loops
  <2>2. /\ known' \subseteq Entities
        /\ owns' \subseteq known' \X known'
        /\ domestic' \in [Fqs -> known' \cup {NoName}]
    BY <1>3 DEF UploadEdge, RegistryTypes
  <2>3. ChildLinks \subseteq ChildLinks'
    BY <1>3 DEF UploadEdge, ChildLinks
  <2>. QED
    BY <2>1, <2>2, <2>3 DEF RegistryTypes
<1>4. ASSUME NEW f \in Fqs, NEW e \in Entities, UploadFq(f, e)
      PROVE  RegistryTypes' /\ (moved' \/ step \notin {"compliance", "subtrees"})
  BY <1>4 DEF UploadFq, RegistryTypes, Graph!Cyclic, Graph!Loops
<1>. QED
  BY <1>1, <1>2, <1>3, <1>4 DEF Next, FetchCandidates, FindMatching, FilterCompliance,
                               FetchSubtrees

\* A page is made of candidates.
LEMMA PageOfCandidates == pageRoots \subseteq candidates
  BY DEF pageRoots, PageOf

\* Every step keeps ListInv.
LEMMA ListStep == ASSUME ListInv, [Next]_vars PROVE ListInv'
<1>1. RegistryTypes /\ candidates \subseteq Entities
  BY DEF ListInv
<1>2. CASE FetchCandidates
  <2>. USE <1>2 DEF FetchCandidates
  <2>1. RegistryTypes'
    BY <1>1, UploadStep DEF Next
  <2>2. /\ candidates' = CandidateRoots /\ CandidateRoots' = CandidateRoots
        /\ CandidateRoots \subseteq known \cap request.filter
        /\ UNCHANGED <<known, request, rows, grown, moved>>
    BY DEF registry, CandidateRoots
  <2>3. step' = "done" => pageRoots' = {}
    BY DEF AfterSearch, pageRoots, PageOf
  <2>4. SearchedRootsShowMatch'
    BY <2>3 DEF SearchedRootsShowMatch
  <2>5. /\ step' \in {"done", "compliance", "subtrees", "search"}
        /\ step' \in {"compliance", "subtrees"} => request'.term = NoTerm
    BY DEF AfterSearch
  <2>. QED
    BY <1>1, <2>1, <2>2, <2>4, <2>5 DEF ListInv, RegistryTypes
<1>3. CASE FindMatching
  <2>. USE <1>3 DEF FindMatching
  <2>1. RegistryTypes'
    BY <1>1, UploadStep DEF Next
  <2>2. /\ candidates' \subseteq candidates /\ CandidateRoots' = CandidateRoots
        /\ UNCHANGED <<known, request, rows, grown, moved>>
    BY DEF registry, CandidateRoots
  <2>3. step' = "done" => pageRoots' = {}
    BY DEF AfterSearch, pageRoots, PageOf
  <2>4. SearchedRootsShowMatch'
    BY <2>3 DEF SearchedRootsShowMatch
  <2>5. step' \in {"done", "compliance", "subtrees"}
    BY DEF AfterSearch
  <2>6. \A r \in candidates' : \E row \in Subtrees({r})' : Name(row) \in request.term
    <3>1. Subtrees({})' = Subtrees({}) /\ ChildLinks' = ChildLinks
      BY DEF registry, Subtrees, ChildLinks
    <3>2. \A r : Walk(ChildLinks, {r})' = Walk(ChildLinks, {r})
      BY <3>1 DEF Walk
    <3>. QED
      BY <3>1, <3>2 DEF Subtrees
  <2>. QED
    BY <1>1, <2>1, <2>2, <2>4, <2>5, <2>6 DEF ListInv
<1>4. CASE FilterCompliance
  <2>. USE <1>4 DEF FilterCompliance
  <2>1. RegistryTypes'
    BY <1>1, UploadStep DEF Next
  <2>2. /\ candidates' \subseteq candidates /\ CandidateRoots' = CandidateRoots
        /\ UNCHANGED <<known, request, rows, grown, moved>>
    BY DEF registry, CandidateRoots
  <2>3. step' = "done" => pageRoots' = {}
    BY DEF pageRoots, PageOf
  <2>4. SearchedRootsShowMatch'
    BY <2>3 DEF SearchedRootsShowMatch
  <2>5. step' \in {"done", "subtrees"}
    OBVIOUS
  <2>6. ASSUME request.term # NoTerm, ~moved, NEW r \in candidates'
        PROVE  \E row \in Subtrees({r})' : Name(row) \in request.term
    <3>1. \A n : Subtrees({n})' = Subtrees({n})
      BY DEF registry, Subtrees, Walk, ChildLinks
    <3>. QED
      BY <2>2, <2>6, <3>1 DEF ListInv
  <2>7. candidates' \subseteq known \cap request.filter /\ (grown \/ candidates' \subseteq CandidateRoots)
    BY <2>2 DEF ListInv
  <2>. QED
    BY <1>1, <2>1, <2>2, <2>4, <2>5, <2>6, <2>7 DEF ListInv
<1>5. CASE FetchSubtrees
  <2>. USE <1>5 DEF FetchSubtrees
  <2>1. RegistryTypes'
    BY <1>1, UploadStep DEF Next
  <2>2. pageRoots' = pageRoots /\ UNCHANGED <<request, candidates, grown, moved>>
    BY DEF pageRoots
  <2>3. ASSUME request.term # NoTerm, ~moved, NEW r \in pageRoots
        PROVE  \E row \in rows' : row[1] = r /\ Name(row) \in request.term
    <3>1. PICK row \in Subtrees({r}) : Name(row) \in request.term
      BY <2>3, PageOfCandidates DEF ListInv
    <3>2. pageRoots \in SUBSET Nodes
      BY <1>1, PageOfCandidates DEF Nodes
    <3>3. row \in Subtrees(pageRoots) /\ row[1] = r
      BY <1>1, <3>2, LinksTyped, WalkGrows DEF Subtrees
    <3>. QED
      BY <3>1, <3>3
  <2>4. SearchedRootsShowMatch'
    BY <2>2, <2>3 DEF SearchedRootsShowMatch
  <2>. QED
    BY <1>1, <2>1, <2>2, <2>4 DEF ListInv
<1>6. CASE /\ Uploaded /\ RegistryTypes' /\ known \subseteq known'
           /\ (ChildLinks \subseteq ChildLinks' \/ moved' \/ step \notin {"compliance", "subtrees"})
           /\ (moved => moved') /\ (grown => grown')
           /\ (step = "candidates" \/ grown' \/ owns' = owns)
  <2>. USE <1>6 DEF Uploaded
  <2>1. UNCHANGED <<step, request, candidates, rows>>
    OBVIOUS
  <2>2. step \in {"search", "compliance", "subtrees"} => grown' \/ candidates \subseteq CandidateRoots'
    <3>. SUFFICES ASSUME step \in {"search", "compliance", "subtrees"}, ~grown'
                  PROVE  candidates \subseteq CandidateRoots'
      OBVIOUS
    <3>1. candidates \subseteq known \cap request.filter /\ candidates \subseteq CandidateRoots
          /\ owns' = owns
      BY DEF ListInv
    <3>2. ASSUME NEW e \in candidates, NEW p \in known' PROVE <<p, e>> \notin owns
      BY <1>1, <3>1 DEF CandidateRoots, RegistryTypes
    <3>. QED
      BY <2>1, <3>1, <3>2 DEF CandidateRoots
  <2>3. ASSUME step \in {"compliance", "subtrees"}, request.term # NoTerm, ~moved', NEW r \in candidates
        PROVE  \E row \in Subtrees({r})' : Name(row) \in request.term
    <3>1. PICK row \in Subtrees({r}) : Name(row) \in request.term
      BY <2>3 DEF ListInv
    <3>2. ChildLinks \subseteq ChildLinks'
      BY <2>3
    <3>3. ChildLinks' \in SUBSET (Nodes \X Nodes) /\ ChildLinks \in SUBSET (Nodes \X Nodes)
      BY <1>1, <1>6, LinksTyped, NextLinksTyped
    <3>4. {r} \in SUBSET Nodes
      BY <1>1 DEF Nodes
    <3>5. row \in Walk(ChildLinks', {r})
      BY <3>1, <3>2, <3>3, <3>4, WalkGrows DEF Subtrees
    <3>6. Subtrees({r})' = Walk(ChildLinks', {r})
      BY DEF Subtrees, Walk
    <3>. QED
      BY <3>1, <3>5, <3>6
  <2>4. step # "done" /\ SearchedRootsShowMatch'
    BY DEF SearchedRootsShowMatch
  <2>. QED
    BY <1>1, <2>1, <2>2, <2>3, <2>4 DEF ListInv
<1>7. ASSUME NEW e \in Entities, UploadEntity(e) PROVE ListInv'
  BY <1>1, <1>6, <1>7, UploadStep DEF UploadEntity, Next
<1>8. ASSUME NEW p \in Entities, NEW c \in Entities, UploadEdge(p, c) PROVE ListInv'
  BY <1>1, <1>6, <1>8, UploadStep DEF UploadEdge, Next
<1>9. ASSUME NEW f \in Fqs, NEW e \in Entities, UploadFq(f, e) PROVE ListInv'
  BY <1>1, <1>6, <1>9, UploadStep DEF UploadFq, Next
<1>10. CASE UNCHANGED vars
  <2>1. /\ RegistryTypes' /\ CandidateRoots' = CandidateRoots
        /\ SearchedRootsShowMatch' = SearchedRootsShowMatch
        /\ UNCHANGED <<known, step, request, candidates, grown, moved>>
    BY <1>1, <1>10 DEF vars, registry, RegistryTypes, CandidateRoots, SearchedRootsShowMatch,
                      Graph!Cyclic, Graph!Loops, pageRoots, PageOf
  <2>2. \A r : Subtrees({r})' = Subtrees({r})
    BY <1>10 DEF vars, registry, Subtrees, Walk, ChildLinks
  <2>. QED
    BY <2>1, <2>2 DEF ListInv
<1>. QED
  BY <1>2, <1>3, <1>4, <1>5, <1>7, <1>8, <1>9, <1>10 DEF Next

\* ListInv: what a request has read so far still holds of the tables.
THEOREM ListInvariant == Spec => []ListInv
<1>1. Init => ListInv
  <2>. SUFFICES ASSUME Init PROVE ListInv
    OBVIOUS
  <2>1. RegistryTypes /\ request \in Queries /\ step = "candidates" /\ candidates = {}
    BY DEF Init, RegistryTypes
  <2>. QED
    BY <2>1 DEF ListInv, SearchedRootsShowMatch
<1>2. ListInv /\ [Next]_vars => ListInv'
  BY ListStep
<1>. QED
  BY <1>1, <1>2, PTL DEF Spec

\* SearchedRootsShowMatch, whatever the tables, the filters and the page.
THEOREM SearchesShowMatch == Spec => []SearchedRootsShowMatch
<1>1. ListInv => SearchedRootsShowMatch
  BY DEF ListInv
<1>. QED
  BY <1>1, ListInvariant, PTL

-------------------------------------------------------------------------------
(* The pages                                                               *)

\* The page asked for, a page beyond the last being the last.
Shown(S, page, size) ==
  IF page < TotalPages(Cardinality(S), size) THEN page ELSE TotalPages(Cardinality(S), size)

\* There are enough pages, and not one too many.
LEMMA PagesSuffice ==
  ASSUME NEW n \in Nat, NEW size \in Nat, size # 0
  PROVE  /\ TotalPages(n, size) \in Nat /\ 1 <= TotalPages(n, size)
         /\ n <= TotalPages(n, size) * size
         /\ n # 0 => (TotalPages(n, size) - 1) * size < n
<1>1. CASE n = 0
  BY <1>1 DEF TotalPages
<1>2. CASE n # 0
  <2>. DEFINE t == (n + size - 1) \div size
  <2>1. n + size - 1 \in Nat /\ size <= n + size - 1
    BY <1>2
  <2>2. t \in Nat /\ t * size <= n + size - 1 /\ n + size - 1 < t * size + size
    BY <2>1, Quotient
  <2>3. TotalPages(n, size) = t
    BY <1>2 DEF TotalPages
  <2>. HIDE DEF t
  <2>4. t # 0
    BY <2>1, <2>2
  <2>5. t * size \in Nat /\ (t - 1) * size = t * size - size /\ 1 <= t
    BY <2>2, <2>4, ProductsOrdered
  <2>. QED
    BY <2>1, <2>2, <2>3, <2>5
<1>. QED
  BY <1>1, <1>2

\* A page holds the places after its start.
LEMMA PageHolds ==
  ASSUME NEW S, NEW page \in Nat, NEW size \in Nat, size # 0
  PROVE  \A e : e \in PageOf(S, page, size) <=>
           /\ e \in S
           /\ (Shown(S, page, size) - 1) * size < Places(S)[e]
           /\ Places(S)[e] <= (Shown(S, page, size) - 1) * size + size
<1>1. \A e \in S : Places(S)[e] = Cardinality({f \in S : f <= e})
  BY DEF Places
<1>. QED
  BY <1>1 DEF PageOf, Shown

LEMMA ShownIsPage ==
  ASSUME NEW S, Cardinality(S) \in Nat, NEW page \in Nat, page # 0,
         NEW size \in Nat, size # 0
  PROVE  /\ Shown(S, page, size) \in Nat /\ 1 <= Shown(S, page, size)
         /\ Shown(S, page, size) <= TotalPages(Cardinality(S), size)
         /\ page <= TotalPages(Cardinality(S), size) => Shown(S, page, size) = page
<1>1. /\ TotalPages(Cardinality(S), size) \in Nat
      /\ 1 <= TotalPages(Cardinality(S), size)
  BY PagesSuffice
<1>. QED
  BY <1>1 DEF Shown

\* What PagesPartition says of the candidates holds of any finite set.
LEMMA PagesOfSet ==
  ASSUME NEW S, IsFiniteSet(S), \A n \in S : n \in Nat,
         NEW page \in Nat, page # 0, NEW size \in Nat, size # 0
  PROVE  LET pages == 1 .. TotalPages(Cardinality(S), size)
         IN  /\ S # {} => PageOf(S, page, size) # {}
             /\ Cardinality(PageOf(S, page, size)) <= size
             /\ \A e \in S : \E p \in pages : e \in PageOf(S, p, size)
             /\ \A p, q \in pages :
                  PageOf(S, p, size) \cap PageOf(S, q, size) # {} => p = q
<1>. DEFINE n == Cardinality(S)
            last == TotalPages(n, size)
            g == Places(S)
<1>1. /\ n \in Nat /\ g \in [S -> 1 .. n]
      /\ \A e, f \in S : g[e] = g[f] => e = f
      /\ \A k \in 1 .. n : \E e \in S : g[e] = k
  BY PlacesFill
<1>2. last \in Nat /\ 1 <= last /\ n <= last * size /\ (n # 0 => (last - 1) * size < n)
  BY <1>1, PagesSuffice
<1>3. \A e \in S : g[e] \in Nat /\ 1 <= g[e] /\ g[e] <= n
  BY <1>1
<1>4. ASSUME S # {} PROVE n # 0
  BY <1>1, <1>3, <1>4
<1>5. ASSUME NEW k \in Nat, k # 0
      PROVE  /\ \A e : e \in PageOf(S, k, size) <=>
                 /\ e \in S /\ (Shown(S, k, size) - 1) * size < g[e]
                 /\ g[e] <= (Shown(S, k, size) - 1) * size + size
             /\ Shown(S, k, size) \in Nat /\ 1 <= Shown(S, k, size)
             /\ Shown(S, k, size) <= last
             /\ k <= last => Shown(S, k, size) = k
             /\ (Shown(S, k, size) - 1) * size \in Nat
  <2>1. /\ Shown(S, k, size) \in Nat /\ 1 <= Shown(S, k, size)
        /\ Shown(S, k, size) <= last
        /\ k <= last => Shown(S, k, size) = k
    BY <1>1, <1>5, ShownIsPage
  <2>2. Shown(S, k, size) - 1 \in Nat
    BY <2>1
  <2>3. (Shown(S, k, size) - 1) * size \in Nat
    BY <2>2, ProductsOrdered
  <2>4. \A e : e \in PageOf(S, k, size) <=>
                 /\ e \in S /\ (Shown(S, k, size) - 1) * size < Places(S)[e]
                 /\ Places(S)[e] <= (Shown(S, k, size) - 1) * size + size
    BY <1>5, PageHolds
  <2>. QED
    BY <2>1, <2>3, <2>4
<1>. HIDE DEF g, last, n
\* The row after the start of the page is on it.
<1>6. ASSUME S # {} PROVE PageOf(S, page, size) # {}
  <2>. DEFINE start == (Shown(S, page, size) - 1) * size
  <2>1. start \in Nat /\ start <= (last - 1) * size
    <3>1. Shown(S, page, size) - 1 \in Nat /\ last - 1 \in Nat
          /\ Shown(S, page, size) - 1 <= last - 1
      BY <1>2, <1>5
    <3>. QED
      BY <3>1, ProductsOrdered
  <2>2. (last - 1) * size \in Nat
    <3>1. last - 1 \in Nat
      BY <1>2
    <3>. QED
      BY <3>1, ProductsOrdered
  <2>3. start + 1 \in 1 .. n
    <3>. HIDE DEF start
    <3>. QED
      BY <1>1, <1>2, <1>4, <1>6, <2>1, <2>2
  <2>4. PICK e \in S : g[e] = start + 1
    BY <1>1, <2>3
  <2>5. start < g[e] /\ g[e] <= start + size
    <3>. HIDE DEF start
    <3>. QED
      BY <2>1, <2>4
  <2>. QED
    BY <1>5, <2>5
\* The places of a page are size numbers at most.
<1>7. Cardinality(PageOf(S, page, size)) <= size
  <2>. DEFINE start == (Shown(S, page, size) - 1) * size
              P == PageOf(S, page, size)
              h == [e \in P |-> g[e]]
  <2>1. start \in Nat
    BY <1>5
  <2>2. \A e \in P : e \in S /\ start < g[e] /\ g[e] <= start + size
    BY <1>5
  <2>. HIDE DEF start, P
  <2>3. \A e \in P : h[e] \in start + 1 .. start + size
    BY <1>3, <2>1, <2>2
  <2>4. h \in Injection(P, start + 1 .. start + size)
    BY <1>1, <2>2, <2>3 DEF Injection, IsInjective
  <2>5. /\ IsFiniteSet(start + 1 .. start + size)
        /\ Cardinality(start + 1 .. start + size) = size
    <3>1. start + 1 \in Int /\ start + size \in Int /\ ~(start + 1 > start + size)
          /\ (start + size) - (start + 1) + 1 = size
      BY <2>1
    <3>. QED
      BY <3>1, FS_Interval
  <2>6. Cardinality(P) <= size
    <3>. HIDE DEF h
    <3>. QED
      BY <2>4, <2>5, FS_Injection
  <2>. QED
    BY <2>6 DEF P
\* A row is on the page that its place divided by the size tells.
<1>8. ASSUME NEW e \in S PROVE \E p \in 1 .. last : e \in PageOf(S, p, size)
  <2>. DEFINE t == (g[e] - 1) \div size
              p == t + 1
  <2>1. g[e] \in Nat /\ 1 <= g[e] /\ g[e] <= n /\ g[e] - 1 \in Nat
    BY <1>3
  <2>2. t \in Nat /\ t * size <= g[e] - 1 /\ g[e] - 1 < t * size + size
    BY <2>1, Quotient
  <2>. HIDE DEF t
  <2>3. t < last
    <3>1. t * size \in Nat /\ last * size \in Nat /\ (last <= t => last * size <= t * size)
      BY <1>2, <2>2, ProductsOrdered
    <3>. QED
      BY <1>1, <1>2, <2>1, <2>2, <3>1
  <2>4. p \in Nat /\ p # 0 /\ p <= last /\ p - 1 = t /\ p \in 1 .. last
    BY <1>2, <2>2, <2>3
  <2>. HIDE DEF p
  <2>5. Shown(S, p, size) - 1 = t
    BY <1>5, <2>4
  <2>6. t * size < g[e] /\ g[e] <= t * size + size
    <3>1. t * size \in Nat
      BY <2>2, ProductsOrdered
    <3>. QED
      BY <2>1, <2>2, <3>1
  <2>7. e \in PageOf(S, p, size)
    BY <1>5, <2>4, <2>5, <2>6
  <2>. QED
    BY <2>4, <2>7
\* An earlier page ends before a later one starts.
<1>9. ASSUME NEW p \in 1 .. last, NEW q \in 1 .. last, p < q,
             NEW e \in PageOf(S, p, size), e \in PageOf(S, q, size)
      PROVE  FALSE
  <2>1. p \in Nat /\ q \in Nat /\ p # 0 /\ q # 0 /\ p <= last /\ q <= last
        /\ p - 1 \in Nat /\ q - 1 \in Nat /\ p - 1 < q - 1
    BY <1>2, <1>9
  <2>2. e \in S /\ g[e] <= (p - 1) * size + size /\ (q - 1) * size < g[e]
    BY <1>5, <1>9, <2>1
  <2>3. (p - 1) * size \in Nat /\ (q - 1) * size \in Nat
        /\ (p - 1) * size + size <= (q - 1) * size
    BY <2>1, ProductsOrdered
  <2>. QED
    BY <1>3, <2>2, <2>3
<1>10. \A p, q \in 1 .. last : PageOf(S, p, size) \cap PageOf(S, q, size) # {} => p = q
  <2>. SUFFICES ASSUME NEW p \in 1 .. last, NEW q \in 1 .. last, p # q
                PROVE  PageOf(S, p, size) \cap PageOf(S, q, size) = {}
    OBVIOUS
  <2>1. p < q \/ q < p
    BY <1>2
  <2>. QED
    BY <1>9, <2>1
<1>. QED
  BY <1>6, <1>7, <1>8, <1>10 DEF last, n

\* PagesPartition, for any page size and any page asked for.
THEOREM PagesPartitioned == Spec => []PagesPartition
<1>1. ListInv => PagesPartition
  <2>. SUFFICES ASSUME ListInv PROVE PagesPartition
    OBVIOUS
  <2>1. IsFiniteSet(candidates) /\ \A n \in candidates : n \in Nat
    <3>1. candidates \in SUBSET Nodes
      BY DEF ListInv, Nodes
    <3>. QED
      BY <3>1, NodesCounted
  <2>2. /\ request.page \in Nat /\ request.page # 0
        /\ request.pageSize \in Nat /\ request.pageSize # 0
    <3>1. request.page \in 1 .. MaxPage /\ request.pageSize \in PageSizes
      BY DEF ListInv, Queries
    <3>2. MaxPage \in Nat /\ \A k \in PageSizes : k \in Nat /\ k # 0
      BY ListAssumption
    <3>3. \A k \in 1 .. MaxPage : k \in Nat /\ k # 0
      BY <3>2
    <3>. QED
      BY <3>1, <3>2, <3>3
  <2>. QED
    BY <2>1, <2>2, PagesOfSet DEF PagesPartition, pageRoots
<1>. QED
  BY <1>1, ListInvariant, PTL

-------------------------------------------------------------------------------
(* The trees                                                               *)

\* A link out of the end of a path makes a longer one.
LEMMA PathExtends ==
  ASSUME NEW links \in SUBSET (Nodes \X Nodes), NEW roots \in SUBSET Nodes,
         NEW p, IsPath(p, links, roots), NEW y, <<Name(p), y>> \in links
  PROVE  /\ IsPath(Append(p, y), links, roots)
         /\ Len(Append(p, y)) = Len(p) + 1 /\ Append(p, y)[1] = p[1]
         /\ Name(Append(p, y)) = y /\ ViaParent(Append(p, y)) = Name(p)
<1>1. /\ p \in Seq(Nodes) /\ p[1] \in roots /\ Len(p) \in Nat /\ Len(p) # 0
      /\ \A i \in 1 .. Len(p) - 1 : <<p[i], p[i + 1]>> \in links
  BY EmptySeq DEF IsPath
<1>2. y \in Nodes
  OBVIOUS
<1>. DEFINE q == Append(p, y)
<1>3. /\ q \in Seq(Nodes) /\ Len(q) = Len(p) + 1 /\ q[Len(p) + 1] = y
      /\ \A i \in 1 .. Len(p) : q[i] = p[i]
  BY <1>1, <1>2
<1>. HIDE DEF q
<1>4. q # <<>> /\ q[1] = p[1] /\ Len(q) - 1 = Len(p) /\ q[Len(p)] = p[Len(p)]
  BY <1>1, <1>3
<1>5. ASSUME NEW i \in 1 .. Len(q) - 1 PROVE <<q[i], q[i + 1]>> \in links
  <2>1. CASE i = Len(p)
    BY <1>3, <1>4, <2>1 DEF Name
  <2>2. CASE i # Len(p)
    <3>1. i \in 1 .. Len(p) - 1 /\ i \in 1 .. Len(p) /\ i + 1 \in 1 .. Len(p)
      BY <1>1, <1>4, <2>2
    <3>. QED
      BY <1>1, <1>3, <3>1
  <2>. QED
    BY <2>1, <2>2
<1>6. IsPath(q, links, roots)
  BY <1>1, <1>3, <1>4, <1>5 DEF IsPath
<1>7. Name(q) = y /\ ViaParent(q) = Name(p)
  BY <1>3, <1>4 DEF Name, ViaParent
<1>. QED
  BY <1>3, <1>4, <1>6, <1>7 DEF q

\* A path of more than one node is a shorter one and a link.
LEMMA PathShortens ==
  ASSUME NEW links \in SUBSET (Nodes \X Nodes), NEW roots \in SUBSET Nodes,
         NEW p, IsPath(p, links, roots), Len(p) > 1
  PROVE  \E q : /\ IsPath(q, links, roots)
                /\ Len(q) = Len(p) - 1 /\ q[1] = p[1] /\ Name(q) = ViaParent(p)
                /\ <<ViaParent(p), Name(p)>> \in links
<1>1. /\ p \in Seq(Nodes) /\ p[1] \in roots /\ Len(p) \in Nat /\ Len(p) > 1
      /\ \A i \in 1 .. Len(p) - 1 : <<p[i], p[i + 1]>> \in links
      /\ \A i \in 1 .. Len(p) : p[i] \in Nodes
  BY DEF IsPath
<1>. DEFINE n == Len(p) - 1
            q == [i \in 1 .. n |-> p[i]]
<1>2. n \in Nat /\ n # 0 /\ n \in 1 .. Len(p) - 1 /\ n + 1 = Len(p)
      /\ \A i \in 1 .. n : i \in 1 .. Len(p)
  BY <1>1
<1>. HIDE DEF n
<1>3. q \in Seq(Nodes) /\ Len(q) = n /\ \A i \in 1 .. n : q[i] = p[i]
  <2>1. q \in [1 .. n -> Nodes]
    BY <1>1, <1>2
  <2>2. q \in Seq(Nodes)
    BY <1>2, <2>1, SeqDef
  <2>. QED
    BY <1>2, <2>1, <2>2, LenProperties
<1>. HIDE DEF q
<1>4. q # <<>> /\ q[1] = p[1] /\ q[n] = p[n]
  BY <1>2, <1>3
<1>5. ASSUME NEW i \in 1 .. Len(q) - 1 PROVE <<q[i], q[i + 1]>> \in links
  <2>1. i \in 1 .. n /\ i + 1 \in 1 .. n /\ i \in 1 .. Len(p) - 1
    BY <1>2, <1>3
  <2>. QED
    BY <1>1, <1>3, <2>1
<1>6. IsPath(q, links, roots)
  BY <1>1, <1>3, <1>4, <1>5 DEF IsPath
<1>7. ViaParent(p) = p[n] /\ Name(p) = p[n + 1] /\ Name(q) = p[n]
  BY <1>2, <1>3, <1>4 DEF ViaParent, Name, n
<1>8. <<ViaParent(p), Name(p)>> \in links
  BY <1>1, <1>2, <1>7
<1>. QED
  BY <1>3, <1>4, <1>6, <1>7, <1>8 DEF n

\* The tables hold no loop, so a path meets no node twice.
LEMMA PathMeetsOnce ==
  ASSUME RegistryTypes, NEW roots \in SUBSET Nodes, NEW p, IsPath(p, ChildLinks, roots),
         NEW i \in 1 .. Len(p), NEW j \in 1 .. Len(p), i < j
  PROVE  p[i] # p[j]
<1>. SUFFICES ASSUME p[i] = p[j] PROVE FALSE
  OBVIOUS
<1>1. /\ p \in Seq(Nodes) /\ Len(p) \in Nat
      /\ \A k \in 1 .. Len(p) - 1 : <<p[k], p[k + 1]>> \in ChildLinks
  BY DEF IsPath
<1>2. /\ \A l \in ChildLinks : l[1] \in Entities
      /\ \A l \in ChildLinks : l[2] \in Entities => l \in owns
  BY LinksTyped
<1>3. \A k \in 1 .. Len(p) - 1 : p[k] \in Entities
  BY <1>1, <1>2
<1>. DEFINE S == {p[k] : k \in i .. j - 1}
<1>4. \A k \in i .. j - 1 : k \in Nat /\ k \in 1 .. Len(p) - 1 /\ p[k] \in Entities
  BY <1>1, <1>3
<1>5. S \in SUBSET Entities
  BY <1>4
<1>6. p[i] \in S
  OBVIOUS
<1>7. ASSUME NEW k \in i .. j - 1 PROVE \E m \in S : <<p[k], m>> \in owns
  <2>1. p[k + 1] \in S
    <3>1. CASE k = j - 1
      <4>1. k + 1 = j
        BY <3>1
      <4>. QED
        BY <1>6, <4>1
    <3>2. CASE k # j - 1
      <4>1. k + 1 \in i .. j - 1
        BY <3>2
      <4>. QED
        BY <4>1
    <3>. QED
      BY <3>1, <3>2
  <2>2. <<p[k], p[k + 1]>> \in ChildLinks
    BY <1>1, <1>4
  <2>3. p[k + 1] \in Entities
    BY <1>5, <2>1
  <2>4. <<p[k], p[k + 1]>> \in owns
    BY <1>2, <2>2, <2>3
  <2>. QED
    BY <2>1, <2>4
<1>8. \A n \in S : \E m \in S : <<n, m>> \in owns
  BY <1>7
<1>. HIDE DEF S
<1>9. Graph!Loops(S, owns)
  BY <1>6, <1>8 DEF Graph!Loops
<1>10. Graph!Cyclic(owns)
  BY <1>5, <1>9 DEF Graph!Cyclic
<1>. QED
  BY <1>10 DEF RegistryTypes

\* So every path is short enough for the walk, and a path of entities is shorter.
LEMMA PathsAreShort ==
  ASSUME RegistryTypes, NEW roots \in SUBSET Nodes, NEW p, IsPath(p, ChildLinks, roots)
  PROVE  /\ Len(p) \in Nat /\ Len(p) <= Cardinality(Nodes)
         /\ Name(p) \in Entities => Len(p) <= Cardinality(Entities)
<1>1. /\ p \in Seq(Nodes) /\ Len(p) \in Nat /\ Len(p) # 0
      /\ \A k \in 1 .. Len(p) : p[k] \in Nodes
      /\ \A k \in 1 .. Len(p) - 1 : <<p[k], p[k + 1]>> \in ChildLinks
  BY EmptySeq DEF IsPath
<1>2. \A i, j \in 1 .. Len(p) : p[i] = p[j] => i = j
  <2>1. \A i, j \in 1 .. Len(p) : i < j => p[i] # p[j]
    BY PathMeetsOnce
  <2>. QED
    BY <1>1, <2>1
<1>3. IsFiniteSet(1 .. Len(p)) /\ Cardinality(1 .. Len(p)) = Len(p)
  BY <1>1, FS_Interval
<1>. DEFINE f == [k \in 1 .. Len(p) |-> p[k]]
<1>4. ASSUME NEW S \in SUBSET Nodes, \A k \in 1 .. Len(p) : p[k] \in S
      PROVE  Len(p) <= Cardinality(S)
  <2>1. f \in Injection(1 .. Len(p), S)
    BY <1>2, <1>4 DEF Injection, IsInjective
  <2>2. IsFiniteSet(S)
    BY NodesCounted
  <2>. HIDE DEF f
  <2>. QED
    BY <1>3, <2>1, <2>2, FS_Injection
<1>5. Len(p) <= Cardinality(Nodes)
  BY <1>1, <1>4
<1>6. ASSUME Name(p) \in Entities PROVE Len(p) <= Cardinality(Entities)
  <2>1. \A k \in 1 .. Len(p) - 1 : p[k] \in Entities
    BY <1>1, LinksTyped
  <2>2. ASSUME NEW k \in 1 .. Len(p) PROVE p[k] \in Entities
    <3>1. k = Len(p) \/ k \in 1 .. Len(p) - 1
      BY <1>1
    <3>. QED
      BY <1>6, <2>1, <3>1 DEF Name
  <2>3. Entities \in SUBSET Nodes
    BY DEF Nodes
  <2>. QED
    BY <1>4, <2>2, <2>3
<1>. QED
  BY <1>1, <1>5, <1>6

\* The walk returns the paths, all of them.
LEMMA SubtreesArePaths ==
  ASSUME RegistryTypes, NEW roots \in SUBSET Nodes
  PROVE  \A p : p \in Subtrees(roots) <=> IsPath(p, ChildLinks, roots)
<1>1. ChildLinks \in SUBSET (Nodes \X Nodes)
  BY LinksTyped
<1>2. \A p : p \in Walk(ChildLinks, roots)
               <=> IsPath(p, ChildLinks, roots) /\ Len(p) <= Cardinality(Nodes)
  BY <1>1, WalkIsPaths
<1>. QED
  BY <1>2, PathsAreShort DEF Subtrees

\* The links that the rows of a walk show, and the nodes in the tree of one root.
Grouped(W) == {<<ViaParent(row), Name(row)>> : row \in {path \in W : Len(path) > 1}}
InTree(W, r) == {Name(row) : row \in {path \in W : path[1] = r}}

\* The tree of a root holds the root, and what its members lead to, by a link shown.
LEMMA TreesClosed ==
  ASSUME RegistryTypes, NEW R \in SUBSET Nodes, NEW r \in R
  PROVE  /\ r \in InTree(Subtrees(R), r) /\ InTree(Subtrees(R), r) \subseteq Nodes
         /\ \A l \in ChildLinks :
              l[1] \in InTree(Subtrees(R), r) =>
                /\ l \in Grouped(Subtrees(R))
                /\ \E row \in Subtrees(R) : row[1] = r /\ Len(row) > 1 /\ Name(row) = l[2]
                /\ l[2] \in InTree(Subtrees(R), r)
         /\ Grouped(Subtrees(R)) \subseteq ChildLinks
<1>. DEFINE W == Subtrees(R)
<1>1. /\ ChildLinks \in SUBSET (Nodes \X Nodes)
      /\ \A l \in ChildLinks : l = <<l[1], l[2]>>
  BY LinksTyped
<1>2. \A row : row \in W <=> IsPath(row, ChildLinks, R)
  BY SubtreesArePaths
<1>. HIDE DEF W
<1>3. ASSUME NEW row \in W PROVE row \in Seq(Nodes) /\ Len(row) \in Nat /\ Name(row) \in Nodes
  <2>1. row \in Seq(Nodes) /\ row # <<>>
    BY <1>2 DEF IsPath
  <2>2. Len(row) \in 1 .. Len(row)
    BY <2>1, EmptySeq
  <2>. QED
    BY <2>1, <2>2 DEF Name
<1>4. r \in InTree(W, r)
  <2>1. <<r>> \in Seq(Nodes) /\ <<r>> # <<>> /\ Len(<<r>>) = 1 /\ <<r>>[1] = r
    OBVIOUS
  <2>2. IsPath(<<r>>, ChildLinks, R) /\ Name(<<r>>) = r
    BY <2>1 DEF IsPath, Name
  <2>. QED
    BY <1>2, <2>1, <2>2 DEF InTree
<1>5. InTree(W, r) \subseteq Nodes
  BY <1>3 DEF InTree
<1>6. ASSUME NEW l \in ChildLinks, l[1] \in InTree(W, r)
      PROVE  /\ l \in Grouped(W) /\ l[2] \in InTree(W, r)
             /\ \E row \in W : row[1] = r /\ Len(row) > 1 /\ Name(row) = l[2]
  <2>1. PICK path \in W : path[1] = r /\ Name(path) = l[1]
    BY <1>6 DEF InTree
  <2>2. IsPath(path, ChildLinks, R) /\ Len(path) \in Nat /\ Len(path) # 0
    <3>1. IsPath(path, ChildLinks, R)
      BY <1>2
    <3>. QED
      BY <1>3, <3>1, EmptySeq DEF IsPath
  <2>3. <<Name(path), l[2]>> \in ChildLinks
    BY <1>1, <2>1
  <2>. DEFINE row == Append(path, l[2])
  <2>4. /\ IsPath(row, ChildLinks, R) /\ Len(row) = Len(path) + 1 /\ row[1] = r
        /\ Name(row) = l[2] /\ ViaParent(row) = l[1]
    BY <1>1, <2>1, <2>2, <2>3, PathExtends
  <2>. HIDE DEF row
  <2>5. row \in W /\ Len(row) > 1
    BY <1>2, <2>2, <2>4
  <2>6. l = <<ViaParent(row), Name(row)>>
    BY <1>1, <2>4
  <2>7. l \in Grouped(W)
    BY <2>5, <2>6 DEF Grouped
  <2>. QED
    BY <2>4, <2>5, <2>7 DEF InTree
<1>7. Grouped(W) \subseteq ChildLinks
  <2>1. \A row \in W : Len(row) > 1 => <<ViaParent(row), Name(row)>> \in ChildLinks
    BY <1>1, <1>2, PathShortens
  <2>. QED
    BY <2>1 DEF Grouped
<1>. QED
  BY <1>4, <1>5, <1>6, <1>7 DEF W

\* What is grouped shows the same below a root as the tables do.
LEMMA TreesShowSubtrees ==
  ASSUME RegistryTypes, NEW R \in SUBSET Nodes, NEW r \in R
  PROVE  Below(r, Grouped(Subtrees(R))) = Below(r, ChildLinks)
<1>. DEFINE M == Grouped(Subtrees(R))
            T0 == InTree(Subtrees(R), r)
<1>1. /\ r \in T0 /\ T0 \in SUBSET Nodes
      /\ \A l \in ChildLinks : l[1] \in T0 => l \in M /\ l[2] \in T0
      /\ M \subseteq ChildLinks
  BY TreesClosed
<1>. HIDE DEF M, T0
<1>2. ASSUME NEW l \in Below(r, M) PROVE l \in Below(r, ChildLinks)
  <2>1. l \in M /\ \A T \in SUBSET Nodes :
          r \in T /\ (\A m \in M : m[1] \in T => m[2] \in T) => l[1] \in T
    BY DEF Below
  <2>. QED
    BY <1>1, <2>1 DEF Below
<1>3. ASSUME NEW l \in Below(r, ChildLinks) PROVE l \in Below(r, M)
  <2>1. l \in ChildLinks /\ \A T \in SUBSET Nodes :
          r \in T /\ (\A m \in ChildLinks : m[1] \in T => m[2] \in T) => l[1] \in T
    BY DEF Below
  <2>2. l \in M
    BY <1>1, <2>1
  <2>3. ASSUME NEW T \in SUBSET Nodes, r \in T, \A m \in M : m[1] \in T => m[2] \in T
        PROVE  l[1] \in T
    <3>1. T \cap T0 \in SUBSET Nodes /\ r \in T \cap T0
      BY <1>1, <2>3
    <3>2. \A m \in ChildLinks : m[1] \in T \cap T0 => m[2] \in T \cap T0
      BY <1>1, <2>3
    <3>. QED
      BY <2>1, <3>1, <3>2
  <2>. QED
    BY <2>2, <2>3 DEF Below
<1>. QED
  BY <1>2, <1>3 DEF M

\* A page is made of entities.
LEMMA PageOfEntities == ASSUME ListInv PROVE pageRoots \in SUBSET Entities /\ pageRoots \in SUBSET Nodes
  BY PageOfCandidates DEF ListInv, Nodes

\* TreesAreSubtrees, whatever the tables, and whatever uploads did before.
THEOREM TreesShown == Spec => TreesAreSubtrees
<1>. DEFINE Shows == FetchSubtrees => \A r \in pageRoots :
       Below(r, {<<ViaParent(row), Name(row)>> : row \in Nested})' = Below(r, ChildLinks)
<1>1. ListInv => Shows
  <2>. SUFFICES ASSUME ListInv, FetchSubtrees, NEW r \in pageRoots
                PROVE  Below(r, {<<ViaParent(row), Name(row)>> : row \in Nested})' = Below(r, ChildLinks)
    OBVIOUS
  <2>1. {<<ViaParent(row), Name(row)>> : row \in Nested'} = Grouped(Subtrees(pageRoots))
    BY DEF FetchSubtrees, Nested, Grouped
  <2>2. Below(r, Grouped(Subtrees(pageRoots))) = Below(r, ChildLinks)
    BY PageOfEntities, TreesShowSubtrees DEF ListInv
  <2>. QED
    BY <2>1, <2>2 DEF Below, ViaParent, Name
<1>2. ListInv => [Shows]_vars
  BY <1>1
<1>. HIDE DEF Shows
<1>3. [][Shows]_vars => TreesAreSubtrees
  BY PTL DEF Shows, TreesAreSubtrees
<1>. QED
  BY <1>2, <1>3, ListInvariant, PTL

\* Nothing leads to a root that no edge has reached since: its children are the ends
\* of the links out of it, each in one row.
LEMMA ChildrenAreLinks ==
  ASSUME RegistryTypes, NEW R \in SUBSET Nodes, NEW r \in R \cap Entities,
         \A p \in known : <<p, r>> \notin owns
  PROVE  {row \in Subtrees(R) : Len(row) > 1 /\ ViaParent(row) = r} = {l \in ChildLinks : l[1] = r}
<1>. DEFINE W == Subtrees(R)
<1>1. /\ ChildLinks \in SUBSET (Nodes \X Nodes)
      /\ \A l \in ChildLinks : l = <<l[1], l[2]>> /\ l[1] \in Nodes /\ l[2] \in Nodes
      /\ \A l \in ChildLinks : l[2] \in Entities => l \in owns
      /\ \A l \in owns : l[1] \in known
  BY LinksTyped DEF RegistryTypes
<1>2. \A row : row \in W <=> IsPath(row, ChildLinks, R)
  BY SubtreesArePaths
<1>3. \A n : <<n, r>> \notin ChildLinks
  BY <1>1
<1>. HIDE DEF W
<1>4. ASSUME NEW row \in W, Len(row) > 1, ViaParent(row) = r
      PROVE  row \in ChildLinks /\ row[1] = r
  <2>1. /\ row \in Seq(Nodes) /\ Len(row) \in Nat
        /\ \A i \in 1 .. Len(row) - 1 : <<row[i], row[i + 1]>> \in ChildLinks
    BY <1>2 DEF IsPath
  <2>2. row[Len(row) - 1] = r
    BY <1>4 DEF ViaParent
  <2>3. Len(row) = 2
    <3>. SUFFICES ASSUME Len(row) # 2 PROVE FALSE
      OBVIOUS
    <3>. \A n \in Nat : n > 1 /\ n # 2 => n - 2 \in 1 .. n - 1 /\ (n - 2) + 1 = n - 1
      OBVIOUS
    <3>1. Len(row) - 2 \in 1 .. Len(row) - 1 /\ (Len(row) - 2) + 1 = Len(row) - 1
      BY <1>4, <2>1
    <3>2. <<row[Len(row) - 2], row[(Len(row) - 2) + 1]>> \in ChildLinks
      BY <2>1, <3>1
    <3>. QED
      BY <1>3, <2>2, <3>1, <3>2
  <2>4. <<row[1], row[2]>> \in ChildLinks /\ row[1] = r
    <3>1. 1 \in 1 .. Len(row) - 1
      BY <2>3
    <3>. QED
      BY <2>1, <2>2, <2>3, <3>1
  <2>5. row = <<row[1], row[2]>>
    BY <2>1, <2>3
  <2>. QED
    BY <2>4, <2>5
<1>5. ASSUME NEW l \in ChildLinks, l[1] = r
      PROVE  l \in W /\ Len(l) > 1 /\ ViaParent(l) = r
  <2>1. l = <<r, l[2]>> /\ l[2] \in Nodes /\ r \in Nodes /\ <<r, l[2]>> \in ChildLinks
    BY <1>1, <1>5
  <2>. DEFINE m == l[2]
              row == <<r, m>>
  <2>. HIDE DEF m
  <2>2. row \in Seq(Nodes) /\ Len(row) = 2 /\ row # <<>> /\ row[1] = r /\ row[2] = m
    BY <2>1 DEF m
  <2>3. \A i \in 1 .. Len(row) - 1 : <<row[i], row[i + 1]>> \in ChildLinks
    <3>1. \A i \in 1 .. Len(row) - 1 : i = 1
      BY <2>2
    <3>. QED
      BY <2>1, <2>2, <3>1 DEF m
  <2>4. IsPath(row, ChildLinks, R)
    BY <2>2, <2>3 DEF IsPath
  <2>5. l = row
    BY <2>1 DEF m
  <2>. HIDE DEF row
  <2>6. Len(row) - 1 = 1 /\ Len(row) > 1
    BY <2>2
  <2>7. row \in W /\ ViaParent(row) = r
    BY <1>2, <2>2, <2>4, <2>6 DEF ViaParent
  <2>. QED
    BY <2>5, <2>6, <2>7
<1>. QED
  BY <1>4, <1>5 DEF W

\* The roots of a page are still top level, unless an edge has appeared.
LEMMA RootsStayRoots ==
  ASSUME ListInv, step = "subtrees", ~grown, NEW r \in pageRoots
  PROVE  r \in CandidateRoots /\ r \in Entities /\ \A p \in known : <<p, r>> \notin owns
<1>1. r \in candidates /\ candidates \subseteq CandidateRoots
  BY PageOfCandidates DEF ListInv
<1>2. r \in CandidateRoots
  BY <1>1
<1>. QED
  BY <1>2 DEF CandidateRoots, ListInv, RegistryTypes

\* TopLevelCountsExact, whatever the tables.
THEOREM CountsExact == Spec => TopLevelCountsExact
<1>. DEFINE Counts == FetchSubtrees =>
       grown \/ \A r \in pageRoots :
         Cardinality(ChildrenOf(r)') = Cardinality({l \in ChildLinks : l[1] = r})
<1>1. ListInv => Counts
  <2>. SUFFICES ASSUME ListInv, FetchSubtrees, ~grown, NEW r \in pageRoots
                PROVE  Cardinality(ChildrenOf(r)') = Cardinality({l \in ChildLinks : l[1] = r})
    OBVIOUS
  <2>1. ChildrenOf(r)' = {row \in Subtrees(pageRoots) : Len(row) > 1 /\ ViaParent(row) = r}
    BY DEF FetchSubtrees, ChildrenOf, Nested, ViaParent
  <2>2. step = "subtrees"
    BY DEF FetchSubtrees
  <2>3. r \in Entities /\ \A p \in known : <<p, r>> \notin owns
    BY <2>2, RootsStayRoots
  <2>4. {row \in Subtrees(pageRoots) : Len(row) > 1 /\ ViaParent(row) = r}
          = {l \in ChildLinks : l[1] = r}
    BY <2>3, PageOfEntities, ChildrenAreLinks DEF ListInv
  <2>. QED
    BY <2>1, <2>4
<1>2. ListInv => [Counts]_vars
  BY <1>1
<1>. HIDE DEF Counts
<1>3. [][Counts]_vars => TopLevelCountsExact
  BY PTL DEF Counts, TopLevelCountsExact
<1>. QED
  BY <1>2, <1>3, ListInvariant, PTL

-------------------------------------------------------------------------------
(* The report's walk                                                       *)

\* What collectDescendants has found when a node has been popped k times down.
IdsStep(f, root, k) == f[k - 1] \cup UNION {SubsidiariesOf(e) : e \in f[k - 1] \cup {root}}

AreIds(f, root, n) == f = [k \in 0 .. n |-> IF k = 0 THEN {} ELSE IdsStep(f, root, k)]

LEMMA IdsExist ==
  ASSUME NEW root, NEW n \in Nat
  PROVE  \E f : AreIds(f, root, n)
<1>. DEFINE Without == {m \in Nat : ~ \E f : AreIds(f, root, m)}
<1>. SUFFICES ASSUME Without # {} PROVE FALSE
  OBVIOUS
<1>1. PICK m \in Without : \A h \in Without : m <= h
  <2>1. Without \subseteq Nat
    OBVIOUS
  <2>. HIDE DEF Without
  <2>. QED
    BY <2>1, LeastNatural
<1>2. m \in Nat /\ \A f : ~AreIds(f, root, m)
  OBVIOUS
<1>3. CASE m = 0
  <2>. DEFINE f == [k \in 0 .. 0 |-> {}]
  <2>1. AreIds(f, root, 0)
    BY DEF AreIds
  <2>. QED
    BY <1>2, <1>3, <2>1
<1>4. CASE m # 0
  <2>1. m - 1 \in Nat /\ m - 1 \notin Without
    <3>1. \A h \in Without : m <= h
      BY <1>1
    <3>. HIDE DEF Without
    <3>. QED
      BY <1>2, <1>4, <3>1
  <2>2. PICK f : AreIds(f, root, m - 1)
    BY <2>1
  <2>. DEFINE g == [k \in 0 .. m |-> IF k < m THEN f[k] ELSE
                                     IF k = 0 THEN {} ELSE IdsStep(f, root, k)]
  <2>3. \A k \in 0 .. m - 1 : f[k] = IF k = 0 THEN {} ELSE IdsStep(f, root, k)
    BY <2>2 DEF AreIds
  <2>4. ASSUME NEW k \in 0 .. m, k # 0 PROVE IdsStep(f, root, k) = IdsStep(g, root, k)
    <3>1. k - 1 \in 0 .. m /\ k - 1 < m
      BY <1>2, <2>4
    <3>2. g[k - 1] = f[k - 1]
      BY <3>1
    <3>. HIDE DEF g
    <3>. QED
      BY <3>2 DEF IdsStep
  <2>5. ASSUME NEW k \in 0 .. m
        PROVE  g[k] = IF k = 0 THEN {} ELSE IdsStep(g, root, k)
    <3>1. CASE k < m
      <4>1. k \in 0 .. m - 1 /\ g[k] = f[k]
        BY <1>2, <3>1
      <4>. QED
        BY <2>3, <2>4, <4>1
    <3>2. CASE ~(k < m)
      BY <2>4, <3>2
    <3>. QED
      BY <3>1, <3>2
  <2>6. DOMAIN g = 0 .. m /\ g = [k \in 0 .. m |-> g[k]]
    OBVIOUS
  <2>. HIDE DEF g
  <2>7. AreIds(g, root, m)
    BY <2>5, <2>6 DEF AreIds
  <2>. QED
    BY <1>2, <2>7
<1>. QED
  BY <1>3, <1>4

LEMMA IdsAreLast ==
  ASSUME NEW root
  PROVE  /\ Cardinality(Entities) \in Nat
         /\ \E f : /\ AreIds(f, root, Cardinality(Entities))
                   /\ subsidiaryIds(root) = f[Cardinality(Entities)]
<1>. DEFINE f == CHOOSE g : AreIds(g, root, Cardinality(Entities))
<1>1. Cardinality(Entities) \in Nat
  BY NodesCounted DEF Nodes
<1>2. AreIds(f, root, Cardinality(Entities))
  BY <1>1, IdsExist
<1>3. subsidiaryIds(root) = f[Cardinality(Entities)]
  BY DEF subsidiaryIds, AreIds, IdsStep
<1>. QED
  BY <1>1, <1>2, <1>3

\* e ends a path of links down from root, of more than one node and n at most.
EndsPath(e, root, n) ==
  \E p : IsPath(p, ChildLinks, {root}) /\ Len(p) > 1 /\ Len(p) <= n /\ Name(p) = e

IdsEndPaths(f, root, n) ==
  \A k \in 0 .. n : \A e : e \in f[k] <=> e \in Entities /\ EndsPath(e, root, k + 1)

\* One link further: what the walk over maps adds.
LEMMA PathsStep ==
  ASSUME RegistryTypes, NEW root \in Entities, NEW k \in Nat, k # 0, NEW e
  PROVE  e \in Entities /\ EndsPath(e, root, k + 1) <=>
           \/ e \in Entities /\ EndsPath(e, root, k)
           \/ \E x \in Entities : (x = root \/ EndsPath(x, root, k)) /\ <<x, e>> \in owns
<1>1. /\ ChildLinks \in SUBSET (Nodes \X Nodes) /\ {root} \in SUBSET Nodes
      /\ \A l \in ChildLinks : l[1] \in Entities
      /\ \A l \in ChildLinks : l[2] \in Entities => l \in owns
      /\ owns \subseteq ChildLinks
      /\ \A x, y : <<x, y>> \in owns => y \in Entities
  BY LinksTyped DEF Nodes, ChildLinks, RegistryTypes
<1>2. ASSUME EndsPath(e, root, k) PROVE EndsPath(e, root, k + 1)
  <2>1. PICK p : IsPath(p, ChildLinks, {root}) /\ Len(p) > 1 /\ Len(p) <= k /\ Name(p) = e
    BY <1>2 DEF EndsPath
  <2>2. Len(p) \in Nat
    BY <2>1 DEF IsPath
  <2>3. Len(p) <= k + 1
    BY <2>1, <2>2
  <2>. QED
    BY <2>1, <2>3 DEF EndsPath
<1>3. ASSUME NEW x \in Entities, x = root \/ EndsPath(x, root, k), <<x, e>> \in owns
      PROVE  e \in Entities /\ EndsPath(e, root, k + 1)
  <2>1. PICK q : IsPath(q, ChildLinks, {root}) /\ Len(q) <= k /\ Name(q) = x
    <3>1. CASE x = root
      <4>. DEFINE q == <<root>>
      <4>1. q \in Seq(Nodes) /\ q # <<>> /\ Len(q) = 1 /\ q[1] = root
        BY <1>1
      <4>2. IsPath(q, ChildLinks, {root}) /\ Name(q) = x
        BY <3>1, <4>1 DEF IsPath, Name
      <4>3. Len(q) <= k
        BY <4>1
      <4>. HIDE DEF q
      <4>. QED
        BY <4>2, <4>3
    <3>2. CASE EndsPath(x, root, k)
      BY <3>2 DEF EndsPath
    <3>. QED
      BY <1>3, <3>1, <3>2
  <2>2. Len(q) \in Nat /\ Len(q) # 0
    BY <2>1, EmptySeq DEF IsPath
  <2>. DEFINE p == Append(q, e)
  <2>3. IsPath(p, ChildLinks, {root}) /\ Len(p) = Len(q) + 1 /\ Name(p) = e
    BY <1>1, <1>3, <2>1, PathExtends
  <2>. HIDE DEF p
  <2>4. Len(p) > 1 /\ Len(p) <= k + 1
    BY <2>1, <2>2, <2>3
  <2>. QED
    BY <1>1, <1>3, <2>3, <2>4 DEF EndsPath
<1>4. ASSUME e \in Entities, EndsPath(e, root, k + 1), ~EndsPath(e, root, k)
      PROVE  \E x \in Entities : (x = root \/ EndsPath(x, root, k)) /\ <<x, e>> \in owns
  <2>1. PICK p : IsPath(p, ChildLinks, {root}) /\ Len(p) > 1 /\ Len(p) <= k + 1 /\ Name(p) = e
    BY <1>4 DEF EndsPath
  <2>2. Len(p) \in Nat
    BY <2>1 DEF IsPath
  <2>3. PICK q : /\ IsPath(q, ChildLinks, {root})
                 /\ Len(q) = Len(p) - 1 /\ q[1] = p[1] /\ Name(q) = ViaParent(p)
                 /\ <<ViaParent(p), Name(p)>> \in ChildLinks
    BY <1>1, <2>1, PathShortens
  <2>4. Name(q) \in Entities /\ <<Name(q), e>> \in owns
    BY <1>1, <1>4, <2>1, <2>3
  <2>5. CASE Len(q) = 1
    <3>1. Name(q) = root
      BY <2>3, <2>5 DEF IsPath, Name
    <3>. QED
      BY <2>4, <3>1
  <2>6. CASE Len(q) # 1
    <3>1. Len(q) > 1 /\ Len(q) <= k
      BY <2>1, <2>2, <2>3, <2>6
    <3>2. EndsPath(Name(q), root, k)
      BY <2>3, <3>1 DEF EndsPath
    <3>. QED
      BY <2>4, <3>2
  <2>. QED
    BY <2>5, <2>6
<1>. QED
  BY <1>2, <1>3, <1>4

LEMMA IdsHoldEnds ==
  ASSUME RegistryTypes, NEW root \in Entities, NEW n \in Nat, NEW f, AreIds(f, root, n)
  PROVE  IdsEndPaths(f, root, n)
<1>. DEFINE Right(k) == \A e : e \in f[k] <=> e \in Entities /\ EndsPath(e, root, k + 1)
            Wrong == {k \in 0 .. n : ~Right(k)}
<1>. SUFFICES ASSUME Wrong # {} PROVE FALSE
  BY DEF IdsEndPaths
<1>1. PICK k \in Wrong : \A h \in Wrong : k <= h
  <2>1. Wrong \subseteq Nat
    OBVIOUS
  <2>. HIDE DEF Wrong
  <2>. QED
    BY <2>1, LeastNatural
<1>2. k \in 0 .. n /\ k \in Nat /\ ~Right(k)
  OBVIOUS
<1>3. CASE k = 0
  <2>1. f[0] = {}
    BY <1>2, <1>3 DEF AreIds
  <2>2. ASSUME NEW e, EndsPath(e, root, 0 + 1) PROVE FALSE
    <3>1. PICK p : IsPath(p, ChildLinks, {root}) /\ Len(p) > 1 /\ Len(p) <= 0 + 1
      BY <2>2 DEF EndsPath
    <3>2. Len(p) \in Nat
      BY <3>1 DEF IsPath
    <3>. QED
      BY <3>1, <3>2
  <2>. QED
    BY <1>2, <1>3, <2>1, <2>2
<1>4. CASE k # 0
  <2>1. k - 1 \in 0 .. n /\ k - 1 \notin Wrong /\ (k - 1) + 1 = k
    <3>1. \A h \in Wrong : k <= h
      BY <1>1
    <3>. HIDE DEF Wrong
    <3>. QED
      BY <1>2, <1>4, <3>1
  <2>2. Right(k - 1)
    BY <2>1
  <2>. HIDE DEF Wrong
  <2>3. \A e : e \in f[k - 1] <=> e \in Entities /\ EndsPath(e, root, k)
    BY <2>1, <2>2
  <2>4. f[k] = f[k - 1] \cup UNION {SubsidiariesOf(x) : x \in f[k - 1] \cup {root}}
    BY <1>2, <1>4 DEF AreIds, IdsStep
  <2>5. ASSUME NEW e
        PROVE  e \in f[k] <=> \/ e \in f[k - 1]
                              \/ \E x \in f[k - 1] \cup {root} : e \in SubsidiariesOf(x)
    BY <2>4
  <2>6. ASSUME NEW e, NEW x PROVE e \in SubsidiariesOf(x) <=> <<x, e>> \in owns
    BY DEF SubsidiariesOf, RegistryTypes
  <2>7. ASSUME NEW e
        PROVE  e \in f[k] <=>
                 \/ e \in Entities /\ EndsPath(e, root, k)
                 \/ \E x \in Entities : (x = root \/ EndsPath(x, root, k)) /\ <<x, e>> \in owns
    BY <2>3, <2>5, <2>6
  <2>. HIDE DEF Right
  <2>8. Right(k)
    BY <1>2, <1>4, <2>7, PathsStep DEF Right
  <2>. QED
    BY <1>2, <2>8
<1>. QED
  BY <1>3, <1>4

\* The names below a root are what the report collects.
LEMMA BelowIsCollected ==
  ASSUME RegistryTypes, NEW R \in SUBSET Nodes, NEW r \in R \cap Entities
  PROVE  LET below == {Name(row) : row \in {path \in Subtrees(R) : path[1] = r /\ path # <<r>>}}
         IN  below \cap Entities = subsidiaryIds(r) /\ below \cap Fqs = fqIds(r)
<1>. DEFINE W == Subtrees(R)
            below == {Name(row) : row \in {path \in W : path[1] = r /\ path # <<r>>}}
            n == Cardinality(Entities)
<1>1. /\ ChildLinks \in SUBSET (Nodes \X Nodes) /\ {r} \in SUBSET Nodes
      /\ \A l \in ChildLinks : l = <<l[1], l[2]>> /\ l[1] \in Entities
      /\ \A p : p \in W <=> IsPath(p, ChildLinks, R)
  BY LinksTyped, SubtreesArePaths
<1>. HIDE DEF W
<1>2. \A p : IsPath(p, ChildLinks, {r}) <=> p \in W /\ p[1] = r
  BY <1>1 DEF IsPath
<1>3. ASSUME NEW p, IsPath(p, ChildLinks, {r})
      PROVE  Len(p) \in Nat /\ (p # <<r>> <=> Len(p) > 1)
  <2>1. p \in Seq(Nodes) /\ Len(p) \in Nat /\ Len(p) # 0 /\ p[1] = r
    BY <1>3, EmptySeq DEF IsPath
  <2>2. Len(p) = 1 => p = <<r>>
    BY <2>1
  <2>3. p = <<r>> => Len(p) = 1
    OBVIOUS
  <2>4. Len(p) # 1 <=> Len(p) > 1
    BY <2>1
  <2>5. p = <<r>> <=> Len(p) = 1
    BY <2>2, <2>3
  <2>. QED
    BY <2>1, <2>4, <2>5, Zenon
<1>4. \A e : e \in below <=> \E p : IsPath(p, ChildLinks, {r}) /\ Len(p) > 1 /\ Name(p) = e
  BY <1>2, <1>3
<1>. HIDE DEF below
<1>5. \A e : e \in subsidiaryIds(r) <=> e \in Entities /\ EndsPath(e, r, n + 1)
  <2>1. n \in Nat
    BY IdsAreLast
  <2>2. PICK f : AreIds(f, r, n) /\ subsidiaryIds(r) = f[n]
    BY IdsAreLast
  <2>. HIDE DEF n
  <2>3. IdsEndPaths(f, r, n)
    BY <2>1, <2>2, IdsHoldEnds
  <2>. QED
    BY <2>1, <2>2, <2>3 DEF IdsEndPaths
<1>6. ASSUME NEW e \in Entities, e \in below PROVE e \in subsidiaryIds(r)
  <2>1. PICK p : IsPath(p, ChildLinks, {r}) /\ Len(p) > 1 /\ Name(p) = e
    BY <1>4, <1>6
  <2>2. Len(p) \in Nat /\ Len(p) <= n /\ n \in Nat
    BY <1>1, <1>6, <2>1, PathsAreShort, IdsAreLast
  <2>. HIDE DEF n
  <2>3. Len(p) <= n + 1
    BY <2>2
  <2>. QED
    BY <1>5, <2>1, <2>3 DEF EndsPath
<1>7. ASSUME NEW e \in subsidiaryIds(r) PROVE e \in Entities /\ e \in below
  BY <1>4, <1>5 DEF EndsPath
<1>8. below \cap Entities = subsidiaryIds(r)
  BY <1>6, <1>7
\* An FQ is below its Domestic Entity only, by a link that is no edge.
<1>9. ASSUME NEW l \in ChildLinks, l[2] \in Fqs PROVE domestic[l[2]] = l[1]
  <2>1. l \notin owns
    BY <1>9, ListAssumption DEF RegistryTypes
  <2>. QED
    BY <1>9, <2>1 DEF ChildLinks
<1>10. ASSUME NEW f \in Fqs, f \in below PROVE f \in fqIds(r)
  <2>1. PICK p : IsPath(p, ChildLinks, {r}) /\ Len(p) > 1 /\ Name(p) = f
    BY <1>4, <1>10
  <2>2. PICK q : /\ IsPath(q, ChildLinks, {r})
                 /\ Len(q) = Len(p) - 1 /\ Name(q) = ViaParent(p)
                 /\ <<ViaParent(p), Name(p)>> \in ChildLinks
    BY <1>1, <2>1, PathShortens
  <2>. DEFINE x == Name(q)
  <2>3. <<x, f>> \in ChildLinks
    BY <2>1, <2>2
  <2>4. x \in Entities /\ f \in FqsOf(x)
    BY <1>1, <1>9, <2>3 DEF FqsOf
  <2>5. x = r \/ x \in below
    <3>1. CASE Len(q) = 1
      BY <2>2, <3>1 DEF IsPath, Name
    <3>2. CASE Len(q) # 1
      <4>1. Len(q) > 1
        BY <1>3, <2>1, <2>2, <3>2
      <4>. QED
        BY <1>4, <2>2, <4>1
    <3>. QED
      BY <3>1, <3>2
  <2>. HIDE DEF x
  <2>6. x \in subsidiaryIds(r) \cup {r}
    BY <1>6, <2>4, <2>5
  <2>. QED
    BY <2>4, <2>6 DEF fqIds
<1>11. ASSUME NEW f \in fqIds(r) PROVE f \in Fqs /\ f \in below
  <2>1. PICK x \in subsidiaryIds(r) \cup {r} : f \in FqsOf(x)
    BY DEF fqIds
  <2>2. f \in Fqs /\ domestic[f] = x /\ x \in Entities
    BY <1>7, <2>1 DEF FqsOf
  <2>3. <<x, f>> \in ChildLinks
    <3>1. x # NoName
      BY <2>2, ListAssumption DEF Nodes
    <3>. QED
      BY <2>2, <3>1 DEF ChildLinks
  <2>4. PICK q : IsPath(q, ChildLinks, {r}) /\ Name(q) = x
    <3>1. CASE x = r
      <4>. DEFINE q == <<r>>
      <4>1. q \in Seq(Nodes) /\ q # <<>> /\ Len(q) = 1 /\ q[1] = r
        BY <1>1
      <4>2. IsPath(q, ChildLinks, {r}) /\ Name(q) = x
        BY <3>1, <4>1 DEF IsPath, Name
      <4>. QED
        BY <4>2
    <3>2. CASE x # r
      BY <1>4, <1>7, <2>1, <3>2
    <3>. QED
      BY <3>1, <3>2
  <2>5. Len(q) \in Nat /\ Len(q) # 0
    BY <2>4, EmptySeq DEF IsPath
  <2>. DEFINE p == Append(q, f)
  <2>6. IsPath(p, ChildLinks, {r}) /\ Len(p) = Len(q) + 1 /\ Name(p) = f
    BY <1>1, <2>3, <2>4, PathExtends
  <2>. HIDE DEF p
  <2>7. Len(p) > 1
    BY <2>5, <2>6
  <2>. QED
    BY <1>4, <2>2, <2>6, <2>7
<1>12. below \cap Fqs = fqIds(r)
  BY <1>10, <1>11
<1>. QED
  BY <1>8, <1>12 DEF below, W

\* ReportCountsTheTree, whatever the tables.
THEOREM ReportAgrees == Spec => ReportCountsTheTree
<1>. DEFINE Agrees == FetchSubtrees =>
       grown \/ \A r \in pageRoots :
         LET below == {Name(row) : row \in {path \in rows' : path[1] = r /\ path # <<r>>}} IN
         /\ r \in CandidateRoots
         /\ Cardinality(below \cap Entities) = Cardinality(subsidiaryIds(r))
         /\ Cardinality(below \cap Fqs) = Cardinality(fqIds(r))
<1>1. ListInv => Agrees
  <2>. SUFFICES ASSUME ListInv, FetchSubtrees, ~grown, NEW r \in pageRoots
                PROVE
         LET below == {Name(row) : row \in {path \in rows' : path[1] = r /\ path # <<r>>}} IN
         /\ r \in CandidateRoots
         /\ Cardinality(below \cap Entities) = Cardinality(subsidiaryIds(r))
         /\ Cardinality(below \cap Fqs) = Cardinality(fqIds(r))
    OBVIOUS
  <2>1. rows' = Subtrees(pageRoots) /\ step = "subtrees"
    BY DEF FetchSubtrees
  <2>2. r \in CandidateRoots /\ r \in Entities
    BY <2>1, RootsStayRoots
  <2>. DEFINE shown == {Name(row) : row \in {path \in Subtrees(pageRoots) : path[1] = r /\ path # <<r>>}}
  <2>3. shown \cap Entities = subsidiaryIds(r) /\ shown \cap Fqs = fqIds(r)
    BY <2>2, PageOfEntities, BelowIsCollected DEF ListInv
  <2>4. {Name(row) : row \in {path \in rows' : path[1] = r /\ path # <<r>>}} = shown
    BY <2>1
  <2>. HIDE DEF shown
  <2>. QED
    BY <2>2, <2>3, <2>4
<1>2. ListInv => [Agrees]_vars
  BY <1>1
<1>. HIDE DEF Agrees
<1>3. [][Agrees]_vars => ReportCountsTheTree
  BY PTL DEF Agrees, ReportCountsTheTree
<1>. QED
  BY <1>2, <1>3, ListInvariant, PTL
===============================================================================
