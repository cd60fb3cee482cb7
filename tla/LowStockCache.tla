--------------------------- MODULE LowStockCache ---------------------------
(***************************************************************************)
(* The low-stock query behind its Redis cache (cache-aside): readers that  *)
(* miss, query Postgres and store what they read; writers that commit and  *)
(* await the invalidation of every cached threshold; a connection that     *)
(* comes and goes, commands that time out, entries that expire.            *)
(*                                                                         *)
(* Every committed stock change makes a new version of the stock, and a    *)
(* low-stock list is known by the version it was read from.                *)
(***************************************************************************)
EXTENDS Integers, FiniteSets

CONSTANTS
    Thresholds,     \* the thresholds that are asked for: one cache key each
    Readers,        \* requests for the low-stock list
    Writers,        \* requests that change stock
    Ready,          \* the invalidation that every (re)connection starts
    NoEntry,        \* a key that is not in the cache
    Surviving,      \* the keys that may hold a list from before the API started
    MaxVersion,     \* how many versions the stock may go through
    MaxDrops,       \* how often the connection may be lost
    MaxTimeouts     \* how many commands may time out on a live connection

ASSUME CacheAssumption ==
    /\ Ready \notin Writers
    /\ Surviving \subseteq Thresholds
    /\ {MaxVersion, MaxDrops, MaxTimeouts} \subseteq Nat
    /\ MaxVersion > 0

VARIABLES
    version,        \* the committed stock
    answered,       \* the latest version whose writer has its answer
    cache,          \* threshold -> what Redis holds for it
    connected,      \* the Redis client is ready
    reader,         \* each reader: where it is, its threshold, the list it read
                    \* and the version that was answered when it began
    invalidation,   \* each run of invalidateAll: where it is, the keys SCAN has
                    \* still to visit and those it found
    written,        \* the version each writer committed
    drops, timeouts

vars == <<version, answered, cache, connected, reader, invalidation, written, drops, timeouts>>

Invalidators == Writers \cup {Ready}

Versions == 0..MaxVersion

\* `outdated`: the stock had moved on before the list was stored.
Entries == [list : Versions, outdated : BOOLEAN]

Active == {"scan", "unlink"}

Requests == [at : {"start", "query", "store", "done"}, key : Thresholds, list : Versions,
             since : Versions]

Runs == [at : Active \cup {"off", "done"}, todo : SUBSET Thresholds, found : SUBSET Thresholds]

TypeOK ==
    /\ version \in Versions
    /\ answered \in Versions
    /\ cache \in [Thresholds -> Entries \cup {NoEntry}]
    /\ connected \in BOOLEAN
    /\ reader \in [Readers -> Requests]
    /\ invalidation \in [Invalidators -> Runs]
    /\ written \in [Writers -> Versions]
    /\ drops \in 0..MaxDrops
    /\ timeouts \in 0..MaxTimeouts

Idle == [at |-> "off", todo |-> {}, found |-> {}]

Begun == [at |-> "scan", todo |-> Thresholds, found |-> {}]

\* The API starts: Redis may hold lists that were stored before it went down. The
\* boot waited for the first connection, which starts an invalidation, or in vain.
Init ==
    /\ version = 1
    /\ answered = 1
    /\ cache \in [Thresholds -> {NoEntry, [list |-> 0, outdated |-> FALSE]}]
    /\ \A t \in Thresholds \ Surviving : cache[t] = NoEntry
    /\ connected \in BOOLEAN
    /\ reader \in [Readers -> [at : {"start"}, key : Thresholds, list : {0}, since : {0}]]
    /\ invalidation = [i \in Invalidators |-> IF i = Ready /\ connected THEN Begun ELSE Idle]
    /\ written = [w \in Writers |-> 0]
    /\ drops = 0
    /\ timeouts = 0

\* A command on a live connection may time out, a bounded number of times.
TimesOut == connected /\ timeouts < MaxTimeouts /\ timeouts' = timeouts + 1

(***************************************************************************)
(* findLowStock: get, and on a miss query and set.                         *)
(***************************************************************************)
\* MUTANT: commands wait in an offline queue while there is no connection.
GetQueued(r) ==
    /\ connected
    /\ reader[r].at \in {"start", "done"}
    /\ \E t \in Thresholds :
          reader' = [reader EXCEPT ![r].at = "query", ![r].key = t, ![r].since = answered]
    /\ UNCHANGED <<version, answered, cache, connected, invalidation, written, drops, timeouts>>

\* A hit answers with the cached list. A miss, a lost connection and a timeout
\* all fall back to the database.
Get(r) ==
    /\ reader[r].at \in {"start", "done"}
    /\ \E t \in Thresholds :
          LET begun == [reader[r] EXCEPT !.key = t, !.since = answered]
          IN  \/ /\ connected
                 /\ cache[t] # NoEntry
                 /\ reader' = [reader EXCEPT ![r] = [begun EXCEPT !.at = "done", !.list = cache[t].list]]
                 /\ UNCHANGED timeouts
              \/ /\ \/ ~connected /\ UNCHANGED timeouts
                    \/ connected /\ cache[t] = NoEntry /\ UNCHANGED timeouts
                    \/ TimesOut
                 /\ reader' = [reader EXCEPT ![r] = [begun EXCEPT !.at = "query"]]
    /\ UNCHANGED <<version, answered, cache, connected, invalidation, written, drops>>

Query(r) ==
    /\ reader[r].at = "query"
    /\ reader' = [reader EXCEPT ![r].at = "store", ![r].list = version]
    /\ UNCHANGED <<version, answered, cache, connected, invalidation, written, drops, timeouts>>

\* MUTANT: the promise of the rows is stored (a missing await): no list at all.
StoredUnread(r) == [list |-> -1, outdated |-> FALSE]

Stored(r) == [list |-> reader[r].list, outdated |-> reader[r].list < version]

\* Storing is best effort; the reader answers with what it read in any case. A
\* command that timed out may still have reached Redis.
Set(r) ==
    LET Store == cache' = [cache EXCEPT ![reader[r].key] = Stored(r)]
    IN  /\ reader[r].at = "store"
        /\ reader' = [reader EXCEPT ![r].at = "done"]
        /\ \/ connected /\ Store /\ UNCHANGED timeouts
           \/ ~connected /\ UNCHANGED <<cache, timeouts>>
           \/ TimesOut /\ (Store \/ UNCHANGED cache)
        /\ UNCHANGED <<version, answered, connected, invalidation, written, drops>>

(***************************************************************************)
(* invalidateAll: SCAN visits every key once, in batches it chooses, and   *)
(* what a batch held is unlinked. Any failure ends it, and is swallowed.   *)
(***************************************************************************)
\* A key that is stored after its batch was visited is not found.
Scan(i) ==
    /\ invalidation[i].at = "scan"
    /\ connected
    /\ \E batch \in (SUBSET invalidation[i].todo) \ {{}} :
          LET found == {t \in batch : cache[t] # NoEntry}
              rest == invalidation[i].todo \ batch
          IN  invalidation' =
                [invalidation EXCEPT ![i] =
                    [at |-> IF found # {} THEN "unlink" ELSE IF rest # {} THEN "scan" ELSE "done",
                     todo |-> rest, found |-> found]]
    /\ UNCHANGED <<version, answered, cache, connected, reader, written, drops, timeouts>>

Dropped(i) ==
    /\ invalidation[i].at = "unlink"
    /\ cache' = [t \in Thresholds |-> IF t \in invalidation[i].found THEN NoEntry ELSE cache[t]]

Unlink(i) ==
    /\ connected
    /\ Dropped(i)
    /\ invalidation' = [invalidation EXCEPT ![i].at =
                        IF invalidation[i].todo = {} THEN "done" ELSE "scan"]
    /\ UNCHANGED <<version, answered, connected, reader, written, drops, timeouts>>

\* A command that finds no connection, or times out, ends the invalidation. An
\* UNLINK that timed out may still have reached Redis.
GiveUp(i) ==
    /\ invalidation[i].at \in Active
    /\ invalidation' = [invalidation EXCEPT ![i].at = "done"]
    /\ \/ ~connected /\ UNCHANGED <<cache, timeouts>>
       \/ TimesOut /\ (UNCHANGED cache \/ Dropped(i))
    /\ UNCHANGED <<version, answered, connected, reader, written, drops>>

(***************************************************************************)
(* A change of stock: commit, await the invalidation, answer.              *)
(***************************************************************************)
Commit(w) ==
    /\ invalidation[w].at = "off"
    /\ version < MaxVersion
    /\ version' = version + 1
    /\ written' = [written EXCEPT ![w] = version + 1]
    /\ invalidation' = [invalidation EXCEPT ![w] = Begun]
    /\ UNCHANGED <<answered, cache, connected, reader, drops, timeouts>>

Answer(w) ==
    /\ invalidation[w].at = "done"
    /\ invalidation' = [invalidation EXCEPT ![w] = Idle]
    /\ answered' = IF written[w] > answered THEN written[w] ELSE answered
    /\ UNCHANGED <<version, cache, connected, reader, written, drops, timeouts>>

(***************************************************************************)
(* Redis and the connection to it.                                         *)
(***************************************************************************)
\* Commands in flight are rejected: no retry, no offline queue.
Disconnect ==
    /\ connected
    /\ drops < MaxDrops
    /\ drops' = drops + 1
    /\ connected' = FALSE
    /\ invalidation' = [i \in Invalidators |->
            IF invalidation[i].at \in Active THEN [invalidation[i] EXCEPT !.at = "done"]
            ELSE invalidation[i]]
    /\ UNCHANGED <<version, answered, cache, reader, written, timeouts>>

\* MUTANT: entries that survived an outage are not dropped.
ReconnectOnly ==
    /\ ~connected
    /\ connected' = TRUE
    /\ UNCHANGED <<version, answered, cache, reader, invalidation, written, drops, timeouts>>

\* `ready`: what survived in Redis may be stale, so all of it is dropped.
Reconnect ==
    /\ ~connected
    /\ connected' = TRUE
    /\ invalidation' = [invalidation EXCEPT ![Ready] = Begun]
    /\ UNCHANGED <<version, answered, cache, reader, written, drops, timeouts>>

\* MUTANT: entries are stored without EX.
NeverExpire(t) == FALSE /\ UNCHANGED vars

\* LOW_STOCK_CACHE_TTL_SECONDS have passed.
Expire(t) ==
    /\ cache[t] # NoEntry
    /\ cache' = [cache EXCEPT ![t] = NoEntry]
    /\ UNCHANGED <<version, answered, connected, reader, invalidation, written, drops, timeouts>>

Read(r) == Get(r) \/ Query(r) \/ Set(r)

Invalidate(i) == Scan(i) \/ Unlink(i) \/ GiveUp(i)

Next ==
    \/ \E r \in Readers : Read(r)
    \/ \E i \in Invalidators : Invalidate(i)
    \/ \E w \in Writers : Commit(w) \/ Answer(w)
    \/ Disconnect \/ Reconnect
    \/ \E t \in Thresholds : Expire(t)

Spec == Init /\ [][Next]_vars

\* A request whose command or query has come back goes on; the TTL runs out.
\* Nothing says that Redis ever comes back, or that anybody changes stock.
Fairness ==
    /\ \A r \in Readers : WF_vars(Read(r))
    /\ \A w \in Writers : WF_vars(Invalidate(w) \/ Answer(w))
    /\ WF_vars(Invalidate(Ready))
    /\ \A t \in Thresholds : WF_vars(Expire(t))

FairSpec == Spec /\ Fairness

-----------------------------------------------------------------------------
(***************************************************************************)
(* Properties.                                                             *)
(***************************************************************************)
Stale(t) == cache[t] # NoEntry /\ cache[t].list < answered

\* The only way to a list older than an answered change, while every command
\* answers in time, is the race of a reader with a writer: the stock had moved on
\* before the list was stored. An entry that was true when it was stored never
\* outlives the invalidation of a later change, nor, once the connection is back
\* and its invalidation has run, an outage that kept the change from reaching it.
StaleOnlyByRace ==
    \A t \in Thresholds :
        Stale(t) /\ timeouts = 0 =>
            cache[t].outdated \/ ~connected \/ invalidation[Ready].at \in Active

\* stock-movements.service.ts: awaiting the listeners "gives the caller
\* read-your-writes consistency". A read that began after the answer to a change
\* sees that change, also when it is a hit; only what Redis may answer before the
\* invalidation that a connection starts has run is left out.
ReadYourWrites ==
    [][\A r \in Readers :
          reader'[r] # reader[r] /\ reader'[r].at = "done" /\ invalidation[Ready].at = "done" =>
             reader'[r].list >= reader'[r].since]_vars

\* "A missed invalidation is bounded by the TTL, never permanent staleness"
\* (invalidateAll): when the stock stops changing, every cached list is right
\* for good, even if Redis never answered an invalidation.
StalenessEnds ==
    <>[](\A t \in Thresholds : cache[t] = NoEntry \/ cache[t].list = version)

\* The cache can make requests faster but never make them fail: readers and
\* writers get their answer although Redis times out, drops or stays away.
RequestsEnd ==
    /\ \A r \in Readers : reader[r].at # "done" ~> reader[r].at = "done"
    /\ \A w \in Writers : invalidation[w].at \in Active ~> invalidation[w].at = "off"
=============================================================================
