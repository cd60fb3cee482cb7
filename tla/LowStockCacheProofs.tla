------------------------ MODULE LowStockCacheProofs ------------------------
(***************************************************************************)
(* No cached list outlives the invalidation of a change it does not have,  *)
(* for any thresholds, readers and writers: whoever has the change and has *)
(* not been answered still has the key before it.                          *)
(***************************************************************************)
EXTENDS LowStockCache, TLAPS

\* The run will still visit t, or has found it and will unlink it.
Covers(i, t) ==
    \/ invalidation[i].at \in Active /\ t \in invalidation[i].todo
    \/ invalidation[i].at = "unlink" /\ t \in invalidation[i].found

\* Whoever made a change that the list of t does not have is a writer that will
\* still drop the list, and has no answer yet.
UpToDate(t) ==
    /\ answered <= cache[t].list
    /\ \A w \in Writers : written[w] > cache[t].list => Covers(w, t)

\* An entry that was true when it was stored and is not up to date is one that
\* survived an outage: the invalidation that began with the connection covers it.
EntryInv(t) ==
    cache[t] # NoEntry /\ ~cache[t].outdated /\ connected /\ timeouts = 0 =>
        Covers(Ready, t) \/ UpToDate(t)

CacheInv ==
    /\ TypeOK
    /\ answered <= version
    /\ \A w \in Writers : written[w] <= version
    /\ \A t \in Thresholds : EntryInv(t)

LEMMA CacheInit == Init => CacheInv
  <1> SUFFICES ASSUME Init PROVE CacheInv
    OBVIOUS
  <1>1. cache \in [Thresholds -> Entries \cup {NoEntry}]
    <2>1. [list |-> 0, outdated |-> FALSE] \in Entries
      BY CacheAssumption DEF Entries, Versions
    <2> DEFINE E == [list |-> 0, outdated |-> FALSE]
    <2>2. cache \in [Thresholds -> {NoEntry, E}]
      BY DEF Init
    <2> HIDE DEF E
    <2>3. {NoEntry, E} \subseteq Entries \cup {NoEntry}
      BY <2>1 DEF E
    <2> QED
      BY <2>2, <2>3
  <1>2. reader \in [Readers -> Requests]
    <2> DEFINE Starts == [at : {"start"}, key : Thresholds, list : {0}, since : {0}]
    <2>1. Starts \subseteq Requests
      BY CacheAssumption DEF Requests, Versions
    <2>2. reader \in [Readers -> Starts]
      BY DEF Init
    <2> HIDE DEF Starts
    <2> QED
      BY <2>1, <2>2
  <1>3. Idle \in Runs /\ Begun \in Runs
    BY DEF Idle, Begun, Runs, Active
  <1>4. version \in Versions /\ 0 \in Versions
    BY CacheAssumption DEF Init, Versions
  <1>5. invalidation \in [Invalidators -> Runs] /\ written \in [Writers -> Versions]
    BY <1>3, <1>4 DEF Init
  <1>6. drops \in 0..MaxDrops /\ timeouts \in 0..MaxTimeouts
    BY CacheAssumption DEF Init
  <1>7. TypeOK
    BY <1>1, <1>2, <1>4, <1>5, <1>6 DEF Init, TypeOK
  <1>8. \A t \in Thresholds : EntryInv(t)
    BY DEF Init, EntryInv, Covers, Begun, Active, Invalidators
  <1> QED
    BY <1>4, <1>7, <1>8 DEF Init, CacheInv

(***************************************************************************)
(* Types.                                                                  *)
(***************************************************************************)
LEMMA GetTyped ==
    ASSUME TypeOK, NEW r \in Readers, Get(r)
    PROVE  TypeOK'
  <1>1. reader[r] \in Requests /\ answered \in Versions
    BY DEF TypeOK
  <1> DEFINE begun(t) == [reader[r] EXCEPT !.key = t, !.since = answered]
  <1>2. PICK t \in Thresholds :
          \/ /\ cache[t] # NoEntry
             /\ reader' = [reader EXCEPT ![r] = [begun(t) EXCEPT !.at = "done", !.list = cache[t].list]]
          \/ reader' = [reader EXCEPT ![r] = [begun(t) EXCEPT !.at = "query"]]
    BY DEF Get
  <1>3. cache[t] # NoEntry => cache[t].list \in Versions
    BY DEF TypeOK, Entries
  <1>4. begun(t) \in Requests
    BY <1>1 DEF Requests
  <1> HIDE DEF begun
  <1>5. reader'[r] \in Requests
    <2>1. /\ cache[t] # NoEntry => [begun(t) EXCEPT !.at = "done", !.list = cache[t].list] \in Requests
          /\ [begun(t) EXCEPT !.at = "query"] \in Requests
      BY <1>3, <1>4 DEF Requests
    <2>2. r \in DOMAIN reader
      BY DEF TypeOK
    <2> QED
      BY <1>2, <2>1, <2>2
  <1>6. reader' \in [Readers -> Requests]
    <2>1. reader \in [Readers -> Requests] /\ reader' = [reader EXCEPT ![r] = reader'[r]]
      BY <1>2 DEF TypeOK
    <2> QED
      BY <1>5, <2>1
  <1>7. timeouts' \in 0..MaxTimeouts
    <2>1. timeouts' = timeouts \/ (timeouts < MaxTimeouts /\ timeouts' = timeouts + 1)
      BY DEF Get, TimesOut
    <2> QED
      BY <2>1, CacheAssumption DEF TypeOK
  <1> QED
    BY <1>6, <1>7 DEF Get, TypeOK

LEMMA QueryTyped ==
    ASSUME TypeOK, NEW r \in Readers, Query(r)
    PROVE  TypeOK'
  <1>1. reader' \in [Readers -> Requests]
    BY DEF Query, TypeOK, Requests
  <1> QED
    BY <1>1 DEF Query, TypeOK

LEMMA SetTyped ==
    ASSUME TypeOK, NEW r \in Readers, Set(r)
    PROVE  TypeOK'
  <1>1. Stored(r) \in Entries /\ reader[r].key \in Thresholds
    BY DEF Stored, Entries, TypeOK, Requests
  <1>2. cache' = [cache EXCEPT ![reader[r].key] = Stored(r)] \/ cache' = cache
    BY DEF Set
  <1>3. cache' \in [Thresholds -> Entries \cup {NoEntry}]
    BY <1>1, <1>2 DEF TypeOK
  <1>4. reader' \in [Readers -> Requests]
    BY DEF Set, TypeOK, Requests
  <1>5. timeouts' \in 0..MaxTimeouts
    BY CacheAssumption DEF Set, TimesOut, TypeOK
  <1> QED
    BY <1>3, <1>4, <1>5 DEF Set, TypeOK

LEMMA ScanTyped ==
    ASSUME TypeOK, NEW i \in Invalidators, Scan(i)
    PROVE  TypeOK'
  <1>1. PICK batch \in SUBSET invalidation[i].todo :
          invalidation' = [invalidation EXCEPT ![i] =
            [at |-> IF {t \in batch : cache[t] # NoEntry} # {} THEN "unlink"
                    ELSE IF invalidation[i].todo \ batch # {} THEN "scan" ELSE "done",
             todo |-> invalidation[i].todo \ batch,
             found |-> {t \in batch : cache[t] # NoEntry}]]
    BY DEF Scan
  <1>2. invalidation[i] \in Runs
    BY DEF TypeOK
  <1>3. invalidation'[i] \in Runs
    BY <1>1, <1>2 DEF Runs, Active, TypeOK
  <1>4. invalidation' \in [Invalidators -> Runs]
    BY <1>1, <1>3 DEF TypeOK
  <1> QED
    BY <1>4 DEF Scan, TypeOK

LEMMA DropTyped ==
    ASSUME TypeOK, NEW i \in Invalidators, NEW at \in {"scan", "done"},
           cache' = cache \/ Dropped(i),
           invalidation' = [invalidation EXCEPT ![i].at = at],
           timeouts' \in 0..MaxTimeouts,
           UNCHANGED <<version, answered, connected, reader, written, drops>>
    PROVE  TypeOK'
  <1>1. cache' \in [Thresholds -> Entries \cup {NoEntry}]
    BY DEF Dropped, TypeOK
  <1>2. invalidation' \in [Invalidators -> Runs]
    BY DEF TypeOK, Runs, Active
  <1> QED
    BY <1>1, <1>2 DEF TypeOK

LEMMA TypeStep == TypeOK /\ [Next]_vars => TypeOK'
  <1> SUFFICES ASSUME TypeOK, [Next]_vars PROVE TypeOK'
    OBVIOUS
  <1>1. ASSUME NEW i \in Invalidators, Unlink(i) PROVE TypeOK'
    BY <1>1, DropTyped DEF Unlink, TypeOK
  <1>2. ASSUME NEW i \in Invalidators, GiveUp(i) PROVE TypeOK'
    <2>1. timeouts' \in 0..MaxTimeouts
      BY <1>2, CacheAssumption DEF GiveUp, TimesOut, TypeOK
    <2> QED
      BY <1>2, <2>1, DropTyped DEF GiveUp
  <1>3. ASSUME NEW w \in Writers, Commit(w) PROVE TypeOK'
    <2>1. Begun \in Runs
      BY DEF Begun, Runs, Active
    <2>2. invalidation' \in [Invalidators -> Runs]
      BY <1>3, <2>1 DEF Commit, TypeOK
    <2>3. version + 1 \in Versions
      BY <1>3, CacheAssumption DEF Commit, TypeOK, Versions
    <2> QED
      BY <1>3, <2>2, <2>3 DEF Commit, TypeOK
  <1>4. ASSUME NEW w \in Writers, Answer(w) PROVE TypeOK'
    <2>1. Idle \in Runs
      BY DEF Idle, Runs
    <2>2. invalidation' \in [Invalidators -> Runs]
      BY <1>4, <2>1 DEF Answer, TypeOK
    <2> QED
      BY <1>4, <2>2 DEF Answer, TypeOK
  <1>5. CASE Disconnect
    <2>1. \A i \in Invalidators : [invalidation[i] EXCEPT !.at = "done"] \in Runs
      BY DEF TypeOK, Runs
    <2>2. invalidation' \in [Invalidators -> Runs]
      BY <1>5, <2>1 DEF Disconnect, TypeOK
    <2>3. drops' \in 0..MaxDrops
      BY <1>5, CacheAssumption DEF Disconnect, TypeOK
    <2> QED
      BY <1>5, <2>2, <2>3 DEF Disconnect, TypeOK
  <1>6. CASE Reconnect
    <2>1. Begun \in Runs
      BY DEF Begun, Runs, Active
    <2>2. invalidation' \in [Invalidators -> Runs]
      BY <1>6, <2>1 DEF Reconnect, TypeOK
    <2> QED
      BY <1>6, <2>2 DEF Reconnect, TypeOK
  <1>7. ASSUME NEW t \in Thresholds, Expire(t) PROVE TypeOK'
    BY <1>7 DEF Expire, TypeOK
  <1>8. CASE UNCHANGED vars
    BY <1>8 DEF vars, TypeOK
  <1> QED
    BY <1>1, <1>2, <1>3, <1>4, <1>5, <1>6, <1>7, <1>8, GetTyped, QueryTyped, SetTyped, ScanTyped
       DEF Next, Read, Invalidate

(***************************************************************************)
(* The entries. A step that leaves an entry alone, and every run over it,  *)
(* keeps what is known of it; the others make the entry, or begin a run    *)
(* over it.                                                                *)
(***************************************************************************)
LEMMA Kept ==
    ASSUME NEW t \in Thresholds, EntryInv(t), cache'[t] = cache[t],
           connected' => connected, timeouts' = 0 => timeouts = 0,
           UNCHANGED <<answered, written>>,
           cache[t] # NoEntry => \A i \in Invalidators : Covers(i, t) => Covers(i, t)'
    PROVE  EntryInv(t)'
  BY DEF EntryInv, UpToDate, Invalidators

LEMMA SameRuns ==
    ASSUME CacheInv, UNCHANGED <<version, answered, connected, invalidation, written>>,
           timeouts' = 0 => timeouts = 0,
           \A t \in Thresholds : cache'[t] = cache[t] \/ EntryInv(t)'
    PROVE  answered' <= version' /\ (\A w \in Writers : written'[w] <= version')
             /\ \A t \in Thresholds : EntryInv(t)'
  BY Kept DEF CacheInv, Covers

\* A list that is stored before the stock moves on has every change.
LEMMA SetEntries ==
    ASSUME CacheInv, NEW r \in Readers, Set(r)
    PROVE  \A t \in Thresholds : cache'[t] = cache[t] \/ EntryInv(t)'
  <1> SUFFICES ASSUME NEW t \in Thresholds, cache'[t] # cache[t] PROVE EntryInv(t)'
    OBVIOUS
  <1>1. cache' = [cache EXCEPT ![reader[r].key] = Stored(r)]
    BY DEF Set
  <1>2. cache'[t] = Stored(r)
    BY <1>1 DEF CacheInv, TypeOK
  <1>3. reader[r].list \in Int /\ version \in Int /\ answered \in Int
        /\ \A w \in Writers : written[w] \in Int
    BY DEF CacheInv, TypeOK, Requests, Versions
  <1>4. ~Stored(r).outdated => version <= Stored(r).list
    <2>1. Stored(r).list = reader[r].list /\ (~Stored(r).outdated => ~(reader[r].list < version))
      BY Zenon DEF Stored
    <2> QED
      BY <1>3, <2>1
  <1>5. ~Stored(r).outdated => UpToDate(t)'
    BY <1>2, <1>3, <1>4 DEF Set, UpToDate, CacheInv, Stored
  <1> QED
    BY <1>2, <1>5 DEF EntryInv

\* What a run passes is dropped, or was not there.
LEMMA ScanCovers ==
    ASSUME CacheInv, NEW i \in Invalidators, Scan(i), NEW t \in Thresholds, cache[t] # NoEntry,
           NEW j \in Invalidators, Covers(j, t)
    PROVE  Covers(j, t)'
  <1>1. PICK batch \in (SUBSET invalidation[i].todo) \ {{}} :
          LET found == {u \in batch : cache[u] # NoEntry}
              rest == invalidation[i].todo \ batch
          IN  invalidation' =
                [invalidation EXCEPT ![i] =
                    [at |-> IF found # {} THEN "unlink" ELSE IF rest # {} THEN "scan" ELSE "done",
                     todo |-> rest, found |-> found]]
    BY DEF Scan
  <1>2. i \in DOMAIN invalidation
    BY DEF CacheInv, TypeOK
  <1>3. CASE j # i
    BY <1>1, <1>3 DEF Covers
  <1>4. CASE j = i
    <2>1. t \in invalidation[i].todo
      BY <1>4 DEF Covers, Scan
    <2> DEFINE found == {u \in batch : cache[u] # NoEntry}
               rest == invalidation[i].todo \ batch
    <2>2. invalidation'[i] =
            [at |-> IF found # {} THEN "unlink" ELSE IF rest # {} THEN "scan" ELSE "done",
             todo |-> rest, found |-> found]
      BY <1>1, <1>2
    <2>3. t \in found \/ t \in rest
      BY <2>1
    <2> HIDE DEF found, rest
    <2> QED
      BY <1>4, <2>2, <2>3 DEF Covers, Active
  <1> QED
    BY <1>3, <1>4

LEMMA UnlinkCovers ==
    ASSUME CacheInv, NEW i \in Invalidators, Unlink(i), NEW t \in Thresholds, cache'[t] # NoEntry,
           NEW j \in Invalidators, Covers(j, t)
    PROVE  Covers(j, t)'
  <1>1. t \notin invalidation[i].found /\ invalidation[i].at = "unlink"
    BY DEF Unlink, Dropped
  <1>2. invalidation' = [invalidation EXCEPT ![i].at =
                         IF invalidation[i].todo = {} THEN "done" ELSE "scan"]
    BY DEF Unlink
  <1>3. i \in DOMAIN invalidation /\ invalidation[i] \in Runs
    BY DEF CacheInv, TypeOK
  <1>4. CASE j # i
    BY <1>2, <1>4 DEF Covers
  <1>5. CASE j = i
    <2>1. t \in invalidation[i].todo
      BY <1>1, <1>5 DEF Covers
    <2>2. invalidation'[i] = [invalidation[i] EXCEPT !.at = "scan"]
      BY <1>2, <1>3, <2>1
    <2>3. invalidation'[i].at = "scan" /\ invalidation'[i].todo = invalidation[i].todo
      BY <1>3, <2>2 DEF Runs
    <2> QED
      BY <1>5, <2>1, <2>3 DEF Covers, Active
  <1> QED
    BY <1>4, <1>5

\* Before a writer has its answer its run has ended: the list has its change.
LEMMA AnswerEntry ==
    ASSUME CacheInv, NEW w \in Writers, Answer(w), NEW t \in Thresholds
    PROVE  EntryInv(t)'
  <1> SUFFICES ASSUME cache[t] # NoEntry, ~cache[t].outdated, connected, timeouts = 0
               PROVE  (Covers(Ready, t) \/ UpToDate(t))'
    BY DEF Answer, EntryInv
  <1>1. \A i \in Invalidators : i # w => invalidation'[i] = invalidation[i]
    BY DEF Answer, CacheInv, TypeOK
  <1>2. Covers(Ready, t) => Covers(Ready, t)'
    BY <1>1, CacheAssumption DEF Covers, Invalidators
  <1>3. ASSUME UpToDate(t) PROVE UpToDate(t)'
    <2>1. ~Covers(w, t)
      BY DEF Answer, Covers, Active
    <2>2. \A v \in Writers : written[v] > cache[t].list => v # w /\ Covers(v, t)
      BY <1>3, <2>1 DEF UpToDate
    <2>3. \A v \in Writers : written[v] > cache[t].list => Covers(v, t)'
      BY <1>1, <2>2 DEF Covers, Invalidators
    <2>4. cache[t].list \in Int /\ written[w] \in Int
      BY DEF CacheInv, TypeOK, Entries, Versions
    <2>5. written[w] <= cache[t].list
      BY <2>2, <2>4
    <2> QED
      BY <1>3, <2>3, <2>5 DEF UpToDate, Answer
  <1> QED
    BY <1>2, <1>3 DEF CacheInv, EntryInv

LEMMA CommitEntry ==
    ASSUME CacheInv, NEW w \in Writers, Commit(w), NEW t \in Thresholds
    PROVE  EntryInv(t)'
  <1>1. \A i \in Invalidators : i # w => invalidation'[i] = invalidation[i]
    BY DEF Commit, CacheInv, TypeOK
  <1>2. invalidation'[w] = Begun
    BY DEF Commit, CacheInv, TypeOK, Invalidators
  <1>3. Covers(w, t)'
    BY <1>2 DEF Covers, Begun, Active
  <1>4. \A i \in Invalidators : Covers(i, t) => Covers(i, t)'
    BY <1>1, <1>3 DEF Covers
  <1>5. \A v \in Writers : v # w => written'[v] = written[v]
    BY DEF Commit, CacheInv, TypeOK
  <1>6. UpToDate(t) => UpToDate(t)'
    BY <1>3, <1>4, <1>5 DEF UpToDate, Commit, Invalidators
  <1> QED
    BY <1>4, <1>6 DEF CacheInv, EntryInv, Commit, Invalidators

LEMMA CacheStep == CacheInv /\ [Next]_vars => CacheInv'
  <1> SUFFICES ASSUME CacheInv, [Next]_vars PROVE CacheInv'
    OBVIOUS
  <1>0. TypeOK'
    BY TypeStep DEF CacheInv
  <1>1. ASSUME NEW r \in Readers, Get(r) \/ Query(r) PROVE CacheInv'
    <2>1. timeouts' = 0 => timeouts = 0
      <3>1. timeouts' = timeouts \/ timeouts' = timeouts + 1
        BY <1>1 DEF Get, Query, TimesOut
      <3> QED
        BY <3>1 DEF CacheInv, TypeOK
    <2>2. UNCHANGED <<version, answered, cache, connected, invalidation, written>>
      BY <1>1 DEF Get, Query
    <2> QED
      BY <1>0, <2>1, <2>2, SameRuns DEF CacheInv
  <1>2. ASSUME NEW r \in Readers, Set(r) PROVE CacheInv'
    <2>1. timeouts' = 0 => timeouts = 0
      BY <1>2 DEF Set, TimesOut, CacheInv, TypeOK
    <2> QED
      BY <1>0, <1>2, <2>1, SameRuns, SetEntries DEF Set, CacheInv
  <1>3. ASSUME NEW t \in Thresholds, Expire(t) PROVE CacheInv'
    <2>1. \A u \in Thresholds : cache'[u] = cache[u] \/ cache'[u] = NoEntry
      BY <1>3 DEF Expire, CacheInv, TypeOK
    <2>2. \A u \in Thresholds : cache'[u] = cache[u] \/ EntryInv(u)'
      BY <2>1 DEF EntryInv
    <2> QED
      BY <1>0, <1>3, <2>2, SameRuns DEF Expire, CacheInv
  <1>4. ASSUME NEW i \in Invalidators, Scan(i) PROVE CacheInv'
    <2>1. \A t \in Thresholds : EntryInv(t)'
      BY <1>4, ScanCovers, Kept DEF Scan, CacheInv
    <2> QED
      BY <1>0, <1>4, <2>1 DEF Scan, CacheInv
  <1>5. ASSUME NEW i \in Invalidators, Unlink(i) PROVE CacheInv'
    <2>1. ASSUME NEW t \in Thresholds PROVE EntryInv(t)'
      <3>1. cache'[t] = cache[t] \/ cache'[t] = NoEntry
        BY <1>5 DEF Unlink, Dropped
      <3>2. CASE cache'[t] = NoEntry
        BY <3>2 DEF EntryInv
      <3>3. CASE cache'[t] = cache[t]
        BY <1>5, <3>3, UnlinkCovers, Kept DEF Unlink, CacheInv
      <3> QED
        BY <3>1, <3>2, <3>3
    <2> QED
      BY <1>0, <1>5, <2>1 DEF Unlink, CacheInv
  <1>6. ASSUME NEW i \in Invalidators, GiveUp(i) PROVE CacheInv'
    <2>1. ~connected' \/ timeouts' # 0
      BY <1>6 DEF GiveUp, TimesOut, CacheInv, TypeOK
    <2>2. \A t \in Thresholds : EntryInv(t)'
      BY <2>1 DEF EntryInv
    <2> QED
      BY <1>0, <1>6, <2>2 DEF GiveUp, CacheInv
  <1>7. ASSUME NEW w \in Writers, Commit(w) PROVE CacheInv'
    <2>1. answered' <= version' /\ \A v \in Writers : written'[v] <= version'
      BY <1>7 DEF Commit, CacheInv, TypeOK, Versions
    <2> QED
      BY <1>0, <1>7, <2>1, CommitEntry DEF CacheInv
  <1>8. ASSUME NEW w \in Writers, Answer(w) PROVE CacheInv'
    BY <1>0, <1>8, AnswerEntry DEF Answer, CacheInv
  <1>9. CASE Disconnect
    <2>1. \A t \in Thresholds : EntryInv(t)'
      BY <1>9 DEF Disconnect, EntryInv
    <2> QED
      BY <1>0, <1>9, <2>1 DEF Disconnect, CacheInv
  <1>10. CASE Reconnect
    <2>1. invalidation'[Ready] = Begun
      BY <1>10 DEF Reconnect, CacheInv, TypeOK, Invalidators
    <2>2. \A t \in Thresholds : Covers(Ready, t)'
      BY <2>1 DEF Covers, Begun, Active
    <2>3. \A t \in Thresholds : EntryInv(t)'
      BY <2>2 DEF EntryInv
    <2> QED
      BY <1>0, <1>10, <2>3 DEF Reconnect, CacheInv
  <1>11. CASE UNCHANGED vars
    BY <1>0, <1>11, SameRuns DEF vars, CacheInv
  <1> QED
    BY <1>1, <1>2, <1>3, <1>4, <1>5, <1>6, <1>7, <1>8, <1>9, <1>10, <1>11
       DEF Next, Read, Invalidate

\* Every variable keeps its type, whatever is lost, late or out of order
\* (StockCacheService, StockMovementsService.record).
THEOREM CacheTyped == Spec => []TypeOK
  BY CacheInit, TypeStep, PTL DEF Spec, CacheInv

\* While commands answer in time, only the race of a reader with a writer leaves
\* a list in the cache that is older than an answered change, whatever the
\* connection does (LowStockCache.invalidateAll, LowStockCache.set, onReady).
THEOREM StaleOnlyAfterRace == Spec => []StaleOnlyByRace
  <1>1. CacheInv => StaleOnlyByRace
    <2> SUFFICES ASSUME CacheInv, NEW t \in Thresholds, Stale(t), timeouts = 0,
                        ~cache[t].outdated, connected
                 PROVE  invalidation[Ready].at \in Active
      BY DEF StaleOnlyByRace, CacheInv, TypeOK
    <2>1. cache[t].list \in Int /\ answered \in Int
      BY DEF Stale, CacheInv, TypeOK, Entries, Versions
    <2>2. ~UpToDate(t)
      BY <2>1 DEF Stale, UpToDate
    <2> QED
      BY <2>2 DEF Stale, CacheInv, EntryInv, Covers, Active
  <1> QED
    BY <1>1, CacheInit, CacheStep, PTL DEF Spec
=============================================================================
