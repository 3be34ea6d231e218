---------------------------- MODULE AnalyticsCache ----------------------------
(***************************************************************************)
(* The cached base of GET /analytics: the whole entities and ownership     *)
(* tables, read by two queries on connections of their own, kept until an  *)
(* upload has committed and then sets analyticsBaseCache to null.  Reads,  *)
(* commits and the code after an await interleave freely.                  *)
(*                                                                         *)
(* A table's content is the number of uploads committed before it was      *)
(* read; filings are read anew by each request and are left out.           *)
(***************************************************************************)
EXTENDS Naturals

CONSTANTS
  Readers,      \* GET /analytics requests at a time
  Writers,      \* uploads at a time: inline, callback or fallback run
  NoVersion,    \* a table not read yet; an empty cache holds no table
  MaxUploads,   \* bound: uploads committed
  MaxFaults     \* bound: lost answers and crashes

ASSUME CacheAssumption ==
  /\ NoVersion \notin Nat
  /\ MaxUploads \in Nat
  /\ MaxFaults \in Nat

VARIABLES
  db,        \* uploads committed so far
  cache,     \* analyticsBaseCache
  reader,    \* does a request read the tables?
  read,      \* what it has read of them
  writer,    \* is an upload's transaction committed, and the cache not cleared?
  faults,    \* faults so far
  outrun,    \* reading requests during which an upload committed
  tainted,   \* did such a request fill the cache?
  unknown    \* did an upload nobody knows of commit after the cache was filled?

vars == <<db, cache, reader, read, writer, faults, outrun, tainted, unknown>>

Versions == Nat \cup {NoVersion}
Nothing == [entities |-> NoVersion, edges |-> NoVersion]
Empty == Nothing

Init ==
  /\ db = 0
  /\ cache = Empty
  /\ reader = [r \in Readers |-> "idle"]
  /\ read = [r \in Readers |-> Nothing]
  /\ writer = [w \in Writers |-> "idle"]
  /\ faults = 0
  /\ outrun = {}
  /\ tainted = FALSE
  /\ unknown = FALSE

-------------------------------------------------------------------------------
(* GET /analytics                                                          *)

\* With a filled cache the request has its base in the same tick.
AnswerFromCache(r) ==
  /\ reader[r] = "idle"
  /\ cache # Empty
  /\ UNCHANGED vars

\* With an empty cache it starts both reads.
Request(r) ==
  /\ reader[r] = "idle"
  /\ cache = Empty
  /\ reader' = [reader EXCEPT ![r] = "reading"]
  /\ UNCHANGED <<db, cache, read, writer, faults, outrun, tainted, unknown>>

\* The queries of the Promise.all run on two connections, in either order.
ReadEntities(r) ==
  /\ reader[r] = "reading"
  /\ read[r].entities = NoVersion
  /\ read' = [read EXCEPT ![r].entities = db]
  /\ UNCHANGED <<db, cache, reader, writer, faults, outrun, tainted, unknown>>

ReadEdges(r) ==
  /\ reader[r] = "reading"
  /\ read[r].edges = NoVersion
  /\ read' = [read EXCEPT ![r].edges = db]
  /\ UNCHANGED <<db, cache, reader, writer, faults, outrun, tainted, unknown>>

\* Mutant: the cache is filled as soon as one of the reads is back.
FillEarly(r) ==
  /\ reader[r] = "reading"
  /\ read[r] # Nothing
  /\ cache' = read[r]
  /\ tainted' = (r \in outrun)
  /\ reader' = [reader EXCEPT ![r] = "idle"]
  /\ read' = [read EXCEPT ![r] = Nothing]
  /\ outrun' = outrun \ {r}
  /\ unknown' = FALSE
  /\ UNCHANGED <<db, writer, faults>>

\* Both are back: they become the cache, whatever it holds by now.
Fill(r) ==
  /\ reader[r] = "reading"
  /\ read[r].entities # NoVersion /\ read[r].edges # NoVersion
  /\ cache' = read[r]
  /\ tainted' = (r \in outrun)
  /\ reader' = [reader EXCEPT ![r] = "idle"]
  /\ read' = [read EXCEPT ![r] = Nothing]
  /\ outrun' = outrun \ {r}
  /\ unknown' = FALSE
  /\ UNCHANGED <<db, writer, faults>>

-------------------------------------------------------------------------------
(* Uploads                                                                 *)

\* The database commits an upload.
Commits ==
  /\ db < MaxUploads
  /\ db' = db + 1
  /\ outrun' = {r \in Readers : reader[r] = "reading"}
  /\ UNCHANGED <<cache, reader, read, tainted>>

\* Mutant: the cache is cleared before the transaction and not after it.
CommitUncleared(w) ==
  /\ writer[w] = "idle"
  /\ Commits
  /\ UNCHANGED <<writer, faults, unknown>>

Commit(w) ==
  /\ writer[w] = "idle"
  /\ Commits
  /\ writer' = [writer EXCEPT ![w] = "committed"]
  /\ UNCHANGED <<faults, unknown>>

\* Its acknowledgement is lost: the transaction's promise rejects, and the line
\* that clears the cache is not reached.
CommitUnacknowledged ==
  /\ faults < MaxFaults
  /\ faults' = faults + 1
  /\ Commits
  /\ unknown' = (unknown \/ cache # Empty)
  /\ UNCHANGED writer

\* Mutant: a path that writes without clearing the cache.
ClearForgotten(w) ==
  /\ writer[w] = "committed"
  /\ writer' = [writer EXCEPT ![w] = "idle"]
  /\ UNCHANGED <<db, cache, reader, read, faults, outrun, tainted, unknown>>

\* The code after the transaction's await: this.analyticsBaseCache = null, or
\* invalidateAnalyticsCache().
Clear(w) ==
  /\ writer[w] = "committed"
  /\ writer' = [writer EXCEPT ![w] = "idle"]
  /\ cache' = Empty
  /\ tainted' = FALSE
  /\ unknown' = FALSE
  /\ UNCHANGED <<db, reader, read, faults, outrun>>

\* The process dies and comes back with an empty cache.
Crash ==
  /\ faults < MaxFaults
  /\ faults' = faults + 1
  /\ cache' = Empty
  /\ reader' = [r \in Readers |-> "idle"]
  /\ read' = [r \in Readers |-> Nothing]
  /\ writer' = [w \in Writers |-> "idle"]
  /\ outrun' = {}
  /\ tainted' = FALSE
  /\ unknown' = FALSE
  /\ UNCHANGED db

Next ==
  \/ \E r \in Readers :
       AnswerFromCache(r) \/ Request(r) \/ ReadEntities(r) \/ ReadEdges(r) \/ Fill(r)
  \/ \E w \in Writers : Commit(w) \/ Clear(w)
  \/ CommitUnacknowledged
  \/ Crash

Spec == Init /\ [][Next]_vars

-------------------------------------------------------------------------------
(* Properties                                                              *)

TypeOK ==
  /\ db \in Nat
  /\ cache \in [entities : Versions, edges : Versions]
  /\ reader \in [Readers -> {"idle", "reading"}]
  /\ read \in [Readers -> [entities : Versions, edges : Versions]]
  /\ writer \in [Writers -> {"idle", "committed"}]
  /\ faults \in Nat
  /\ outrun \subseteq Readers
  /\ tainted \in BOOLEAN
  /\ unknown \in BOOLEAN
  /\ \A r \in Readers : reader[r] = "idle" => read[r] = Nothing

Current == [entities |-> db, edges |-> db]

\* Is an upload about to clear the cache?
Clearing == \E w \in Writers : writer[w] = "committed"

\* The cache holds the database's present content, both tables of one moment,
\* unless an upload is about to clear it, the answer to a later commit was lost,
\* or it was filled by a request that an upload's commit outran.
FreshUnlessOutrun == cache \in {Empty, Current} \/ Clearing \/ unknown \/ tainted

\* The two tables of the cache are of one moment unless an upload outran the
\* request that read them: edges and Domestic Entities then have their entities.
WholeUnlessOutrun == cache.entities = cache.edges \/ tainted

\* What the comment on analyticsBaseCache says: the data only changes by uploads,
\* and they clear the cache, so that reading it anew would be redundant.
FreshBetweenUploads == cache \in {Empty, Current} \/ Clearing \/ unknown

-------------------------------------------------------------------------------
(* The inductive invariant                                                 *)

\* A request no commit has outrun has read the present content.  The cache is
\* empty or whole, and empty or current, with the exceptions above.
CacheInv ==
  /\ \A r \in Readers \ outrun :
       read[r].entities \in {NoVersion, db} /\ read[r].edges \in {NoVersion, db}
  /\ \A r \in outrun : reader[r] = "reading"
  /\ FreshUnlessOutrun
  /\ WholeUnlessOutrun
===============================================================================
