------------------------- MODULE AnalyticsCacheProofs -------------------------
(***************************************************************************)
(* Proofs that the analytics cache is stale, or of two moments, only if an *)
(* upload outran the request that filled it, for any numbers of requests,  *)
(* uploads and faults.                                                     *)
(***************************************************************************)
EXTENDS AnalyticsCache, TLAPS

\* An empty cache, and a request that has read nothing, are well typed.
LEMMA NothingType ==
  /\ Nothing \in [entities : Versions, edges : Versions]
  /\ [r \in Readers |-> Nothing] \in [Readers -> [entities : Versions, edges : Versions]]
<1> DEFINE S == [entities : Versions, edges : Versions]
<1>1. Nothing \in S
  BY DEF Nothing, Versions
<1> HIDE DEF S
<1>2. [r \in Readers |-> Nothing] \in [Readers -> S]
  BY <1>1
<1> QED
  BY <1>1, <1>2 DEF S

\* The counters start at zero and the cache empty.
LEMMA TypeInit == Init => TypeOK
<1> SUFFICES ASSUME Init PROVE TypeOK
  OBVIOUS
<1>1. cache \in [entities : Versions, edges : Versions]
  BY NothingType DEF Init, Empty
<1>2. read \in [Readers -> [entities : Versions, edges : Versions]]
  BY NothingType DEF Init
<1> QED
  BY <1>1, <1>2 DEF Init, TypeOK

\* Every action keeps the types.
LEMMA TypeStep ==
  ASSUME TypeOK, [Next]_vars
  PROVE  TypeOK'
<1> USE DEF TypeOK, Versions, Nothing, Empty
<1>1. CASE UNCHANGED vars
  BY <1>1 DEF vars
<1>2. ASSUME NEW r \in Readers, AnswerFromCache(r) PROVE TypeOK'
  BY <1>2 DEF AnswerFromCache, vars
<1>3. ASSUME NEW r \in Readers, Request(r) PROVE TypeOK'
  BY <1>3 DEF Request
<1>4. ASSUME NEW r \in Readers, ReadEntities(r) PROVE TypeOK'
  BY <1>4 DEF ReadEntities
<1>5. ASSUME NEW r \in Readers, ReadEdges(r) PROVE TypeOK'
  BY <1>5 DEF ReadEdges
<1>6. ASSUME NEW r \in Readers, Fill(r) PROVE TypeOK'
  <2>1. (r \in outrun) \in BOOLEAN
    OBVIOUS
  <2> QED
    BY <1>6, <2>1 DEF Fill
<1>7. ASSUME NEW w \in Writers, Commit(w) PROVE TypeOK'
  BY <1>7 DEF Commit, Commits
<1>8. ASSUME NEW w \in Writers, Clear(w) PROVE TypeOK'
  BY <1>8 DEF Clear
<1>9. CASE CommitUnacknowledged
  <2>1. (unknown \/ cache # Empty) \in BOOLEAN
    OBVIOUS
  <2> QED
    BY <1>9, <2>1 DEF CommitUnacknowledged, Commits
<1>10. CASE Crash
  <2> HIDE DEF Nothing, Empty, Versions
  <2>1. cache' \in [entities : Versions, edges : Versions]
    BY <1>10, NothingType DEF Crash, Empty
  <2>3. read' \in [Readers -> [entities : Versions, edges : Versions]]
    BY <1>10, NothingType DEF Crash
  <2>2. \A r \in Readers : read'[r] = Nothing
    BY <1>10 DEF Crash
  <2>4. db' \in Nat /\ faults' \in Nat
    BY <1>10 DEF Crash
  <2>5. reader' \in [Readers -> {"idle", "reading"}]
    BY <1>10 DEF Crash
  <2>6. writer' \in [Writers -> {"idle", "committed"}]
    BY <1>10 DEF Crash
  <2>7. outrun' \subseteq Readers /\ tainted' \in BOOLEAN /\ unknown' \in BOOLEAN
    BY <1>10 DEF Crash
  <2> QED
    BY <2>1, <2>2, <2>3, <2>4, <2>5, <2>6, <2>7
<1> QED
  BY <1>1, <1>2, <1>3, <1>4, <1>5, <1>6, <1>7, <1>8, <1>9, <1>10 DEF Next

\* Cache, requests and uploads keep their types.
THEOREM CacheTypes == Spec => []TypeOK
<1>1. TypeOK /\ [Next]_vars => TypeOK'
  BY TypeStep
<1> QED
  BY TypeInit, <1>1, PTL DEF Spec

-------------------------------------------------------------------------------
(* Freshness                                                               *)

\* An empty cache is fresh and whole.
LEMMA CacheInit == Init => CacheInv
  BY DEF Init, CacheInv, FreshUnlessOutrun, WholeUnlessOutrun, Empty, Nothing

\* Every action keeps CacheInv.
LEMMA CacheStep ==
  ASSUME TypeOK, CacheInv, [Next]_vars
  PROVE  CacheInv'
<1> USE DEF Nothing, Empty, Current
<1>1. CASE UNCHANGED vars
  BY <1>1 DEF vars, CacheInv, FreshUnlessOutrun, WholeUnlessOutrun, Clearing
<1>2. ASSUME NEW r \in Readers, AnswerFromCache(r) PROVE CacheInv'
  BY <1>2 DEF AnswerFromCache, vars, CacheInv, FreshUnlessOutrun, WholeUnlessOutrun, Clearing
<1>3. ASSUME NEW r \in Readers, Request(r) PROVE CacheInv'
  BY <1>3 DEF Request, TypeOK, CacheInv, FreshUnlessOutrun, WholeUnlessOutrun, Clearing
<1>4. ASSUME NEW r \in Readers, ReadEntities(r) PROVE CacheInv'
  BY <1>4 DEF ReadEntities, TypeOK, CacheInv, FreshUnlessOutrun, WholeUnlessOutrun, Clearing
<1>5. ASSUME NEW r \in Readers, ReadEdges(r) PROVE CacheInv'
  BY <1>5 DEF ReadEdges, TypeOK, CacheInv, FreshUnlessOutrun, WholeUnlessOutrun, Clearing
<1>6. ASSUME NEW r \in Readers, Fill(r) PROVE CacheInv'
  \* What a request not outrun has read is the present content.
  <2>1. r \in outrun \/ cache' = Current'
    BY <1>6 DEF Fill, TypeOK, CacheInv
  <2>2. \A s \in Readers \ outrun' :
          read'[s].entities \in {NoVersion, db'} /\ read'[s].edges \in {NoVersion, db'}
    BY <1>6 DEF Fill, TypeOK, CacheInv
  <2>3. \A s \in outrun' : reader'[s] = "reading"
    BY <1>6 DEF Fill, TypeOK, CacheInv
  <2>4. r \in outrun => tainted'
    BY <1>6 DEF Fill
  <2>5. cache' = Current' => cache'.entities = cache'.edges
    OBVIOUS
  <2>6. FreshUnlessOutrun' /\ WholeUnlessOutrun'
    BY <2>1, <2>4, <2>5 DEF FreshUnlessOutrun, WholeUnlessOutrun
  <2> QED
    BY <2>2, <2>3, <2>6 DEF CacheInv
\* A commit leaves only requests that had not begun to read outside outrun.
<1>7. ASSUME Commits PROVE /\ \A s \in Readers \ outrun' : read'[s] = Nothing
                           /\ \A s \in outrun' : reader'[s] = "reading"
                           /\ UNCHANGED <<cache, tainted>>
  BY <1>7 DEF Commits, TypeOK
<1>8. ASSUME NEW w \in Writers, Commit(w) PROVE CacheInv'
  <2>1. Clearing'
    BY <1>8 DEF Commit, TypeOK, Clearing
  <2> QED
    BY <1>7, <1>8, <2>1 DEF Commit, CacheInv, FreshUnlessOutrun, WholeUnlessOutrun
<1>9. ASSUME NEW w \in Writers, Clear(w) PROVE CacheInv'
  BY <1>9 DEF Clear, TypeOK, CacheInv, FreshUnlessOutrun, WholeUnlessOutrun
<1>10. CASE CommitUnacknowledged
  <2>1. cache = Empty \/ unknown'
    BY <1>10 DEF CommitUnacknowledged
  <2> QED
    BY <1>7, <1>10, <2>1 DEF CommitUnacknowledged, CacheInv, FreshUnlessOutrun, WholeUnlessOutrun
<1>11. CASE Crash
  BY <1>11 DEF Crash, CacheInv, FreshUnlessOutrun, WholeUnlessOutrun
<1> QED
  BY <1>1, <1>2, <1>3, <1>4, <1>5, <1>6, <1>8, <1>9, <1>10, <1>11 DEF Next

\* CacheInv: what requests have read, and what the cache may then hold.
THEOREM CacheInvariant == Spec => []CacheInv
<1>1. TypeOK /\ CacheInv /\ [Next]_vars => CacheInv'
  BY CacheStep
<1> QED
  BY CacheInit, CacheTypes, <1>1, PTL DEF Spec

\* FreshUnlessOutrun: the cache is only ever stale for good if an upload outran
\* the request that filled it, or its commit was never acknowledged.
THEOREM CacheFreshness == Spec => []FreshUnlessOutrun
<1>1. CacheInv => FreshUnlessOutrun
  BY DEF CacheInv
<1> QED
  BY CacheInvariant, <1>1, PTL

\* WholeUnlessOutrun: the cached tables are of one moment if no upload outran the
\* request that read them.
THEOREM CacheWholeness == Spec => []WholeUnlessOutrun
<1>1. CacheInv => WholeUnlessOutrun
  BY DEF CacheInv
<1> QED
  BY CacheInvariant, <1>1, PTL
===============================================================================
