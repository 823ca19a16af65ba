--------------------------- MODULE StreamIdCache ---------------------------
(***************************************************************************)
(* CSLSDatabase: the stream ids in SQLite, behind m_db_mutex, and their    *)
(* in-memory copy, behind the shared m_cache_mutex.  The listeners         *)
(* validate the stream id of every client against the copy, which the      *)
(* first caller loads; the API's threads edit the table and then the copy. *)
(* An edit takes m_db_mutex and, inside it, m_cache_mutex; the load takes  *)
(* the two the other way round.                                            *)
(*                                                                         *)
(* A step is one critical section, or the part of one up to the next lock. *)
(* main() opens the database after it has started the listeners and before *)
(* it starts the API; until then every stream id is allowed.               *)
(*                                                                         *)
(* The database may fail, and a validation may throw, at any time; an      *)
(* exception in an edit, for want of memory, is left out.                  *)
(*                                                                         *)
(* An edit is a request to the API: it is counted by the rate limit, its   *)
(* key is looked up, the edit is made and the access is logged; the last   *)
(* three take m_db_mutex, each for itself.                                 *)
(***************************************************************************)
EXTENDS Naturals

CONSTANTS PlayerIds, PublisherIds,
          Workers,      \* threads that run listeners: they only validate
          ApiThreads,   \* threads of the HTTP server: they edit and validate
          Limit,        \* rate_limit_api, the requests of one client in a window
          NoRow, NoReply, NoThread

Threads == Workers \cup ApiThreads

ASSUME ThreadsAssumption ==
    NoThread \notin Threads /\ NoRow \notin PublisherIds /\ Limit \in Nat

VARIABLES open,      \* m_initialized
          table,     \* the rows of stream_ids: player -> publisher (player is UNIQUE)
          loaded,    \* m_cache_loaded
          cache,     \* m_stream_ids_cache and m_player_to_publisher_cache
          dbLock,    \* the thread that holds m_db_mutex
          cacheLock, \* the thread that holds m_cache_mutex exclusively
          requests,  \* the client's counter in m_rate_limits
          pc, arg,   \* where a thread is in its call, and the call's arguments
          reply,     \* what its call has returned
          failed,    \* ghost: its call has met an error
          lost       \* ghost: a load that was cut short has passed for a whole one

vars == <<open, table, loaded, cache, dbLock, cacheLock, requests, pc, arg, reply, failed, lost>>
locks == <<dbLock, cacheLock>>
errors == <<failed, lost>>

Keys == {"admin", "write", "read"}
NoArg == [id |-> NoRow, row |-> NoRow, key |-> "read"]
Allowed == "allowed"
EmptyTable == [q \in PlayerIds |-> NoRow]

Init ==
    /\ open = FALSE
    /\ table \in [PlayerIds -> PublisherIds \cup {NoRow}]
    /\ loaded = FALSE
    /\ cache = EmptyTable
    /\ dbLock = NoThread
    /\ cacheLock = NoThread
    /\ requests = 0
    /\ pc = [t \in Threads |-> "ready"]
    /\ arg = [t \in Threads |-> NoArg]
    /\ reply = [t \in Threads |-> NoReply]
    /\ failed = [t \in Threads |-> FALSE]
    /\ lost = FALSE

Goto(t, label) == pc' = [pc EXCEPT ![t] = label]

(* CSLSDatabase::init. *)
Open ==
    /\ ~open
    /\ open' = TRUE
    /\ UNCHANGED <<errors, requests, table, loaded, cache, locks, pc, arg, reply>>
-----------------------------------------------------------------------------
(* validateStreamId, with getStreamIds and loadStreamIdsCacheIfNeeded.     *)

Reply(t, a) ==
    /\ reply' = [reply EXCEPT ![t] = a]
    /\ Goto(t, "replied")

Validate(t, id) ==
    /\ pc[t] = "ready"
    /\ IF open
       THEN Goto(t, "check") /\ arg' = [arg EXCEPT ![t].id = id] /\ UNCHANGED reply
       ELSE Reply(t, Allowed) /\ UNCHANGED arg
    /\ UNCHANGED <<errors, requests, open, table, loaded, cache, locks>>

AssumeLoaded == TRUE

IsLoaded == loaded

(* The fast path's look at m_cache_loaded, under the shared lock. *)
CheckLoaded(t) ==
    /\ pc[t] = "check"
    /\ cacheLock = NoThread
    /\ Goto(t, IF IsLoaded THEN "read" ELSE "lock")
    /\ UNCHANGED <<errors, requests, open, table, loaded, cache, locks, arg, reply>>

(* The exclusive lock and the second look. *)
LockToLoad(t) ==
    /\ pc[t] = "lock"
    /\ cacheLock = NoThread
    /\ IF loaded
       THEN Goto(t, "read") /\ UNCHANGED cacheLock
       ELSE Goto(t, "load") /\ cacheLock' = t
    /\ UNCHANGED <<errors, requests, open, table, loaded, cache, dbLock, arg, reply>>

KeepCacheLock == cacheLock

(* unique_lock's destructor, on every way out of the load. *)
ReleaseCacheLock == NoThread

(* loadStreamIdsIntoCache, which takes m_db_mutex inside m_cache_mutex. *)
Load(t) ==
    /\ pc[t] = "load"
    /\ dbLock = NoThread
    /\ cache' = table
    /\ loaded' = TRUE
    /\ cacheLock' = ReleaseCacheLock
    /\ Goto(t, "read")
    /\ UNCHANGED <<errors, requests, open, table, dbLock, arg, reply>>

(* The rows a load has copied when it stops early. *)
Copied(S) == [q \in PlayerIds |-> IF q \in S THEN table[q] ELSE NoRow]

(* sqlite3_step returns an error in the middle: the loop takes it for the  *)
(* last row.                                                               *)
LoadCutShort(t) ==
    /\ pc[t] = "load"
    /\ dbLock = NoThread
    /\ \E S \in SUBSET PlayerIds : cache' = Copied(S)
    /\ loaded' = TRUE
    /\ lost' = TRUE
    /\ cacheLock' = ReleaseCacheLock
    /\ Goto(t, "read")
    /\ UNCHANGED <<failed, requests, open, table, dbLock, arg, reply>>

(* The ways out of a validation that has met an error.                     *)
Fail(t, a) ==
    /\ Reply(t, a)
    /\ failed' = [failed EXCEPT ![t] = TRUE]
    /\ arg' = [arg EXCEPT ![t] = NoArg]
    /\ UNCHANGED <<lost, requests, open, table, loaded, dbLock>>

NotFound(id) == IF id \in PlayerIds THEN NoRow ELSE "invalid"

(* The statement cannot be prepared: the copy stays cleared and unloaded,  *)
(* and getStreamIds returns an empty list.                                 *)
LoadFails(t) ==
    /\ pc[t] = "load"
    /\ dbLock = NoThread
    /\ cache' = EmptyTable
    /\ cacheLock' = ReleaseCacheLock
    /\ Fail(t, NotFound(arg[t].id))

(* An exception in the loop: the locks are released, the copy is left as   *)
(* it is and unloaded, and validateStreamId's catch lets the client in.    *)
LoadThrows(t) ==
    /\ pc[t] = "load"
    /\ dbLock = NoThread
    /\ \E S \in SUBSET PlayerIds : cache' = Copied(S)
    /\ cacheLock' = ReleaseCacheLock
    /\ Fail(t, Allowed)

(* An exception while the list is made or searched. *)
ReadThrows(t) ==
    /\ pc[t] = "read"
    /\ cacheLock = NoThread
    /\ UNCHANGED <<cache, cacheLock>>
    /\ Fail(t, Allowed)

(* The answer: a player id's publisher, or whether a publisher id is known. *)
Found(id) ==
    IF id \in PlayerIds THEN cache[id]
    ELSE IF \E q \in PlayerIds : cache[q] = id THEN "valid" ELSE "invalid"

Read(t) ==
    /\ pc[t] = "read"
    /\ cacheLock = NoThread
    /\ Reply(t, Found(arg[t].id))
    /\ arg' = [arg EXCEPT ![t] = NoArg]
    /\ UNCHANGED <<errors, requests, open, table, loaded, cache, locks>>

Return(t) ==
    /\ pc[t] = "replied"
    /\ reply' = [reply EXCEPT ![t] = NoReply]
    /\ failed' = [failed EXCEPT ![t] = FALSE]
    /\ Goto(t, "ready")
    /\ UNCHANGED <<lost, requests, open, table, loaded, cache, locks, arg>>
-----------------------------------------------------------------------------
(* The API's handlers of stream ids.  Beyond the limit a request is        *)
(* answered at once, with no effect.                                       *)

Request(t, q, row, key) ==
    /\ pc[t] = "ready" /\ t \in ApiThreads /\ open
    /\ requests < Limit
    /\ requests' = requests + 1
    /\ arg' = [arg EXCEPT ![t] = [id |-> q, row |-> row, key |-> key]]
    /\ Goto(t, "authenticate")
    /\ UNCHANGED <<errors, open, table, loaded, cache, locks, reply>>

(* 60 seconds have passed since the window began. *)
NewWindow ==
    /\ requests # 0 /\ requests' = 0
    /\ UNCHANGED <<errors, open, table, loaded, cache, locks, pc, arg, reply>>

AnyKey(a) == a.key # "read"

(* Writers may add, only administrators delete. *)
Permitted(a) == a.key = "admin" \/ (a.key = "write" /\ a.row # NoRow)

(* verifyApiKey, and the handler's look at the permissions. *)
Authenticate(t) ==
    /\ pc[t] = "authenticate" /\ dbLock = NoThread
    /\ IF Permitted(arg[t])
       THEN Goto(t, "permitted") /\ UNCHANGED arg
       ELSE Goto(t, "log") /\ arg' = [arg EXCEPT ![t] = NoArg]
    /\ UNCHANGED <<errors, requests, open, table, loaded, cache, locks, reply>>

(* addStreamId and deleteStreamId: the table's row, then the copy's, both  *)
(* under m_db_mutex.                                                       *)

Unlocked(t) == NoThread

LockedBy(t) == t

Edit(t) ==
    /\ pc[t] = "permitted" /\ dbLock = NoThread
    /\ (table[arg[t].id] = NoRow) = (arg[t].row # NoRow)
    /\ dbLock' = LockedBy(t)
    /\ table' = [table EXCEPT ![arg[t].id] = arg[t].row]
    /\ Goto(t, "update")
    /\ UNCHANGED <<errors, requests, open, loaded, cache, cacheLock, arg, reply>>

(* A request to add whose body is no JSON or lacks a field. *)
BadBody(t) ==
    /\ pc[t] = "permitted" /\ arg[t].row # NoRow
    /\ arg' = [arg EXCEPT ![t] = NoArg]
    /\ Goto(t, "ready")
    /\ UNCHANGED <<errors, requests, open, table, loaded, cache, locks, reply>>

(* A player that has a row already, one to delete that has none, or any    *)
(* error of the database; a row not deleted is not logged.                 *)
RefuseEdit(t) ==
    /\ pc[t] = "permitted" /\ dbLock = NoThread
    /\ Goto(t, IF arg[t].row # NoRow THEN "log" ELSE "ready")
    /\ arg' = [arg EXCEPT ![t] = NoArg]
    /\ UNCHANGED <<errors, requests, open, table, loaded, cache, locks, reply>>

UpdateCache(t) ==
    /\ pc[t] = "update"
    /\ cacheLock = NoThread
    /\ cache' = IF loaded THEN [cache EXCEPT ![arg[t].id] = arg[t].row] ELSE cache
    /\ dbLock' = NoThread
    /\ Goto(t, "log")
    /\ arg' = [arg EXCEPT ![t] = NoArg]
    /\ UNCHANGED <<errors, requests, open, table, loaded, cacheLock, reply>>

LogAccess(t) ==
    /\ pc[t] = "log" /\ dbLock = NoThread
    /\ Goto(t, "ready")
    /\ UNCHANGED <<errors, requests, open, table, loaded, cache, locks, arg, reply>>
-----------------------------------------------------------------------------
Step(t) ==
    \/ CheckLoaded(t) \/ LockToLoad(t) \/ Load(t) \/ Read(t) \/ Return(t)
    \/ LoadCutShort(t) \/ LoadFails(t) \/ LoadThrows(t) \/ ReadThrows(t)
    \/ Authenticate(t) \/ Edit(t) \/ RefuseEdit(t) \/ BadBody(t)
    \/ UpdateCache(t) \/ LogAccess(t)

Next ==
    \/ Open \/ NewWindow
    \/ \E t \in Threads :
         \/ Step(t)
         \/ \E id \in PlayerIds \cup PublisherIds : Validate(t, id)
         \/ \E q \in PlayerIds, row \in PublisherIds \cup {NoRow}, key \in Keys :
              Request(t, q, row, key)

(* A thread inside a call goes on as soon as the lock it wants is free. *)
Fairness == \A t \in Threads : WF_vars(Step(t))

Spec == Init /\ [][Next]_vars
FairSpec == Spec /\ Fairness
-----------------------------------------------------------------------------
(* Properties.                                                             *)

(* Every variable holds a value of its type, and a mutex is held by just   *)
(* the thread that is inside its critical section.                         *)
TypeOK ==
    /\ open \in BOOLEAN /\ loaded \in BOOLEAN
    /\ table \in [PlayerIds -> PublisherIds \cup {NoRow}]
    /\ cache \in [PlayerIds -> PublisherIds \cup {NoRow}]
    /\ dbLock \in ApiThreads \cup {NoThread}
    /\ cacheLock \in Threads \cup {NoThread}
    /\ pc \in [Threads -> {"ready", "check", "lock", "load", "read", "replied",
                         "authenticate", "permitted", "update", "log"}]
    /\ requests \in 0..Limit
    /\ failed \in [Threads -> BOOLEAN] /\ lost \in BOOLEAN
    /\ \A t \in Threads : /\ pc[t] = "update" <=> dbLock = t
                          /\ pc[t] = "load" <=> cacheLock = t

(* Whenever no edit is under way, the copy the listeners trust is the      *)
(* table: no order of edits and of the first load loses or revives a row.  *)
(* Only a load that was cut short leaves rows out, and even then the copy  *)
(* has no row that the table has not.                                      *)
CacheIsTable ==
    loaded /\ dbLock = NoThread =>
        \A q \in PlayerIds : cache[q] = table[q] \/ (lost /\ cache[q] = NoRow)

(* Callers cannot tell the two copies and their locks from one table that  *)
(* is edited and consulted in single steps: a call that meets no error is  *)
(* answered from it, one that does is told that there is no such id or let *)
(* in, and the table forgets rows at most once, in a load cut short.       *)
Promise == INSTANCE StreamTable WITH
             rows <- IF loaded THEN cache ELSE table
ActsAsOneTable == Promise!Spec

(* Once the copy is loaded every validation returns, and every edit that   *)
(* has begun lets go of m_db_mutex, whatever the API's threads do.  (A     *)
(* request that waits for m_db_mutex may wait as long as others take it:   *)
(* a std::mutex is not fair.)                                              *)
LoadedCallsReturn ==
    \A t \in Threads :
        loaded /\ pc[t] \in {"check", "lock", "read", "replied", "update"}
            ~> pc[t] \in {"ready", "log"}

(* However requests, edits and loads interleave, a row disappears only by  *)
(* an administrator's request that is under way, and appears only by one   *)
(* of an administrator or a writer.                                       *)
EditsAllowed ==
    [][\A q \in PlayerIds :
         table'[q] # table[q] =>
            \E t \in ApiThreads :
               /\ arg[t].id = q /\ arg[t].row = table'[q]
               /\ arg[t].key = "admin" \/ (arg[t].key = "write" /\ table[q] = NoRow)]_vars

(* No two threads ever wait for each other's lock. *)
NoLockCycle ==
    \A t, u \in Threads :
        ~(/\ pc[t] = "load" /\ cacheLock = t /\ dbLock = u
          /\ pc[u] = "update")
=============================================================================
