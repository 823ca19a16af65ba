------------------------- MODULE StreamIdCacheProofs -------------------------
(***************************************************************************)
(* The stream ids, for every number of listener and API threads, of ids    *)
(* and of requests: the locks are held by the threads inside their         *)
(* critical sections, the copy is the table whenever no edit is under way  *)
(* (or lacks rows that a load cut short did not read), only permitted      *)
(* requests edit, and callers whose call meets no error see one table.     *)
(***************************************************************************)
EXTENDS StreamIdCache, TLAPS

Ids == PlayerIds \cup PublisherIds
Rows == PublisherIds \cup {NoRow}
Replies == Rows \cup {NoReply, Allowed, "valid", "invalid"}

(* What a thread's place in its call says about its argument and answer. *)
InCall(t) ==
    /\ pc[t] # "replied" => reply[t] = NoReply /\ ~failed[t]
    /\ pc[t] \in {"check", "lock", "load", "read"} => open /\ arg[t].id \in Ids
    /\ pc[t] = "read" => loaded
    /\ pc[t] \in {"authenticate", "permitted", "update"} =>
         open /\ t \in ApiThreads /\ arg[t].id \in PlayerIds
    /\ pc[t] \in {"permitted", "update"} => Permitted(arg[t])

Calls ==
    /\ arg \in [Threads -> [id : Ids \cup {NoRow}, row : Rows, key : Keys]]
    /\ reply \in [Threads -> Replies]
    /\ \A t \in Threads : InCall(t)

(* A row of a loaded copy is the table's, or one that a load cut short     *)
(* has left out, but for the row of the edit under way: that one is as it  *)
(* was before the edit.                                                    *)
Edited(q) == dbLock # NoThread /\ arg[dbLock].id = q

RowAgrees(q) ==
    IF Edited(q)
    THEN /\ table[q] = arg[dbLock].row
         /\ table[q] # NoRow => cache[q] = NoRow
         /\ table[q] = NoRow => cache[q] # NoRow \/ lost
    ELSE cache[q] = table[q] \/ (lost /\ cache[q] = NoRow)

Agree == loaded => \A q \in PlayerIds : RowAgrees(q)

(* The load is the first one: it looks at m_cache_loaded again under the   *)
(* exclusive lock; so a copy is cut short at most once.                    *)
LoadsOnce ==
    /\ \A t \in Threads : pc[t] = "load" => ~loaded
    /\ lost => loaded

Core == TypeOK /\ Calls /\ Agree

IInv == Core /\ LoadsOnce
-----------------------------------------------------------------------------
LEMMA InitIInv == Init => IInv
<1> SUFFICES ASSUME Init PROVE IInv
  OBVIOUS
<1>1. TypeOK
  <2>1. requests \in 0..Limit
    BY ThreadsAssumption, SMT DEF Init
  <2>2. \A t \in Threads : t # NoThread /\ pc[t] = "ready"
    BY ThreadsAssumption DEF Init
  <2>3. pc \in [Threads -> {"ready"}] /\ cache \in [PlayerIds -> {NoRow}]
    BY DEF Init, EmptyTable
  <2>4. \A t \in Threads : (pc[t] = "update" <=> dbLock = t) /\ (pc[t] = "load" <=> cacheLock = t)
    BY <2>2 DEF Init
  <2>5. failed \in [Threads -> BOOLEAN] /\ lost \in BOOLEAN
    BY DEF Init
  <2> QED BY <2>1, <2>3, <2>4, <2>5, Zenon DEF Init, TypeOK
<1>2. Calls
  BY SMT DEF Init, Calls, InCall, NoArg, Ids, Rows, Replies, Keys
<1>3. Agree /\ LoadsOnce
  BY DEF Init, Agree, LoadsOnce
<1> QED BY <1>1, <1>2, <1>3 DEF IInv, Core

(* The steps of a validation: they leave table and m_db_mutex alone. *)
LEMMA ValidationKeepsTypes ==
    ASSUME TypeOK, Calls, NEW t \in Threads,
           \/ \E id \in PlayerIds \cup PublisherIds : Validate(t, id)
           \/ CheckLoaded(t) \/ LockToLoad(t) \/ Load(t) \/ Read(t) \/ Return(t)
           \/ LoadCutShort(t) \/ LoadFails(t) \/ LoadThrows(t) \/ ReadThrows(t)
    PROVE  TypeOK'
<1>1. CASE \E id \in PlayerIds \cup PublisherIds : Validate(t, id)
  BY <1>1, ThreadsAssumption, SMT DEF errors, Validate, Goto, Reply, locks, TypeOK, Calls, Threads
<1>2. CASE CheckLoaded(t)
  BY <1>2, ThreadsAssumption, SMT DEF errors, CheckLoaded, Goto, locks, errors, TypeOK, Calls, Threads, IsLoaded
<1>3. CASE LockToLoad(t)
  BY <1>3, ThreadsAssumption, SMT DEF errors, LockToLoad, Goto, TypeOK, Calls, Threads
<1>4. CASE Load(t)
  BY <1>4, ThreadsAssumption, SMT DEF errors, Load, Goto, TypeOK, Calls, Threads, ReleaseCacheLock
<1>5. CASE Read(t)
  BY <1>5, ThreadsAssumption, SMT DEF errors, Read, Goto, Reply, locks, TypeOK, Calls, Threads
<1>6. CASE Return(t)
  BY <1>6, ThreadsAssumption, SMT DEF errors, Return, Goto, locks, errors, TypeOK, Calls, Threads
<1>7. \A S : Copied(S) \in [PlayerIds -> PublisherIds \cup {NoRow}]
  BY DEF Copied, TypeOK
<1>8. CASE LoadCutShort(t)
  BY <1>7, <1>8, ThreadsAssumption, SMT
     DEF LoadCutShort, Goto, TypeOK, Calls, Threads, ReleaseCacheLock
<1>9. EmptyTable \in [PlayerIds -> PublisherIds \cup {NoRow}]
  BY DEF EmptyTable
<1>10. CASE LoadFails(t)
  BY <1>9, <1>10, ThreadsAssumption, SMT
     DEF LoadFails, Fail, Reply, Goto, TypeOK, Calls, Threads, ReleaseCacheLock
<1>11. CASE LoadThrows(t)
  BY <1>7, <1>11, ThreadsAssumption, SMT
     DEF LoadThrows, Fail, Reply, Goto, TypeOK, Calls, Threads, ReleaseCacheLock
<1>12. CASE ReadThrows(t)
  BY <1>12, ThreadsAssumption, SMT DEF ReadThrows, Fail, Reply, Goto, TypeOK, Calls, Threads
<1> QED BY <1>1, <1>2, <1>3, <1>4, <1>5, <1>6, <1>8, <1>10, <1>11, <1>12

LEMMA ValidationKeepsCalls ==
    ASSUME TypeOK, Calls, NEW t \in Threads,
           \/ \E id \in PlayerIds \cup PublisherIds : Validate(t, id)
           \/ CheckLoaded(t) \/ LockToLoad(t) \/ Load(t) \/ Read(t) \/ Return(t)
           \/ LoadCutShort(t) \/ LoadFails(t) \/ LoadThrows(t) \/ ReadThrows(t)
    PROVE  Calls'
<1> USE DEF TypeOK, Calls, InCall, Goto, Ids, Rows, Replies, Permitted
<1>1. CASE \E id \in PlayerIds \cup PublisherIds : Validate(t, id)
  <2>1. PICK id \in PlayerIds \cup PublisherIds : Validate(t, id)
    BY <1>1
  <2>2. CASE open
    BY <2>1, <2>2, SMT DEF errors, Validate
  <2>3. CASE ~open
    BY <2>1, <2>3, SMT DEF errors, Validate, Reply
  <2> QED BY <2>2, <2>3
<1>2. CASE CheckLoaded(t)
  BY <1>2, SMT DEF errors, CheckLoaded, IsLoaded
<1>3. CASE LockToLoad(t)
  BY <1>3, SMT DEF errors, LockToLoad
<1>4. CASE Load(t)
  BY <1>4, SMT DEF errors, Load
<1>5. CASE Read(t)
  <2>1. Found(arg[t].id) \in Replies
    BY <1>5, SMT DEF errors, Read, Found
  <2> QED BY <1>5, <2>1, SMT DEF errors, Read, Reply, NoArg, Keys
<1>6. CASE Return(t)
  BY <1>6, SMT DEF errors, Return
<1>7. CASE LoadCutShort(t)
  BY <1>7, SMT DEF LoadCutShort
<1>8. ASSUME NEW a \in Replies, Fail(t, a)
      PROVE  Calls'
  BY <1>8, SMT DEF Fail, Reply, NoArg, Keys
<1>9. CASE LoadFails(t) \/ LoadThrows(t) \/ ReadThrows(t)
  BY <1>8, <1>9, SMT DEF LoadFails, LoadThrows, ReadThrows, NotFound
<1> QED BY <1>1, <1>2, <1>3, <1>4, <1>5, <1>6, <1>7, <1>9

(* What the other threads' steps leave of the two copies. *)
LEMMA AgreeKept ==
    ASSUME TypeOK, Agree, NEW t \in Threads, dbLock # t,
           UNCHANGED <<table, loaded, cache, dbLock, lost>>,
           \A u \in Threads \ {t} : arg'[u] = arg[u]
    PROVE  Agree'
<1>1. ASSUME dbLock # NoThread PROVE arg'[dbLock'] = arg[dbLock]
  BY <1>1 DEF TypeOK, Threads
<1>2. ASSUME NEW q \in PlayerIds, RowAgrees(q)
      PROVE  RowAgrees(q)'
  <2>1. CASE dbLock = NoThread
    BY <1>2, <2>1 DEF RowAgrees, Edited
  <2>2. CASE dbLock # NoThread
    BY <1>1, <1>2, <2>2 DEF RowAgrees, Edited
  <2> QED BY <2>1, <2>2
<1> QED BY <1>2 DEF Agree

LEMMA ValidationKeepsAgree ==
    ASSUME TypeOK, Calls, Agree, LoadsOnce, NEW t \in Threads,
           \/ \E id \in PlayerIds \cup PublisherIds : Validate(t, id)
           \/ CheckLoaded(t) \/ LockToLoad(t) \/ Load(t) \/ Read(t) \/ Return(t)
           \/ LoadCutShort(t) \/ LoadFails(t) \/ LoadThrows(t) \/ ReadThrows(t)
    PROVE  Agree'
<1>1. CASE Load(t)
  BY <1>1, SMT DEF Load, Agree, RowAgrees, Edited
<1>2. CASE LoadCutShort(t)
  BY <1>2, SMT DEF LoadCutShort, Copied, Agree, RowAgrees, Edited
<1>3. CASE LoadFails(t) \/ LoadThrows(t)
  <2>1. ~loaded'
    BY <1>3 DEF LoadFails, LoadThrows, Fail, LoadsOnce
  <2> QED BY <2>1 DEF Agree
<1>4. ASSUME ~Load(t), ~LoadCutShort(t), ~LoadFails(t), ~LoadThrows(t)
      PROVE  /\ UNCHANGED <<table, loaded, cache, dbLock, lost>>
             /\ pc[t] # "update"
             /\ \A u \in Threads \ {t} : arg'[u] = arg[u]
  BY <1>4, SMT DEF Validate, CheckLoaded, LockToLoad, Read, ReadThrows, Return, Reply, Fail,
                   Goto, locks, errors, TypeOK, Calls
<1> QED
  <2> SUFFICES ASSUME ~Load(t), ~LoadCutShort(t), ~LoadFails(t), ~LoadThrows(t) PROVE Agree'
    BY <1>1, <1>2, <1>3
  <2>1. dbLock # t
    BY <1>4 DEF TypeOK
  <2> QED BY <1>4, <2>1, AgreeKept
-----------------------------------------------------------------------------
(* The steps of a request. *)
LEMMA RequestKeepsCore ==
    ASSUME IInv, NEW t \in Threads,
           NEW q \in PlayerIds, NEW row \in PublisherIds \cup {NoRow}, NEW key \in Keys,
           Request(t, q, row, key)
    PROVE  Core'
<1>1. TypeOK'
  BY ThreadsAssumption, SMT DEF IInv, Core, Request, Goto, locks, errors, TypeOK, Threads
<1>2. Calls'
  BY SMT DEF IInv, Core, Request, Goto, locks, errors, TypeOK, Calls, InCall, Ids, Rows, Permitted
<1>3. Agree'
  <2>1. dbLock # t
    BY DEF IInv, Core, Request, TypeOK
  <2>2. UNCHANGED <<table, loaded, cache, dbLock, lost>> /\ \A u \in Threads \ {t} : arg'[u] = arg[u]
    BY DEF IInv, Core, Request, locks, errors, Calls
  <2> QED BY <2>1, <2>2, AgreeKept DEF IInv, Core
<1> QED BY <1>1, <1>2, <1>3 DEF Core

(* The steps of a request that do not edit. *)
LEMMA NoEditKeepsCore ==
    ASSUME IInv, NEW t \in Threads,
           Authenticate(t) \/ RefuseEdit(t) \/ BadBody(t) \/ LogAccess(t)
    PROVE  Core'
<1> USE DEF Authenticate, RefuseEdit, BadBody, LogAccess
<1>1. TypeOK'
  BY ThreadsAssumption, SMT DEF IInv, Core, Goto, locks, errors, TypeOK, Calls, Threads
<1>2. Calls'
  BY SMT DEF IInv, Core, Goto, locks, errors, TypeOK, Calls, InCall, Ids, Rows, Permitted, NoArg, Keys
<1>3. Agree'
  <2>1. dbLock # t
    BY DEF IInv, Core, TypeOK
  <2>2. UNCHANGED <<table, loaded, cache, dbLock, lost>> /\ \A u \in Threads \ {t} : arg'[u] = arg[u]
    BY DEF IInv, Core, locks, errors, Calls
  <2> QED BY <2>1, <2>2, AgreeKept DEF IInv, Core
<1> QED BY <1>1, <1>2, <1>3 DEF Core

LEMMA EditKeepsCore ==
    ASSUME IInv, NEW t \in Threads, Edit(t)
    PROVE  Core'
<1>1. t \in ApiThreads /\ t # NoThread /\ arg[t].row \in Rows /\ arg[t].id \in PlayerIds
  BY ThreadsAssumption, SMT DEF IInv, Core, Edit, Calls, InCall, Threads
<1>2. TypeOK'
  BY <1>1, ThreadsAssumption, SMT DEF IInv, Core, Edit, LockedBy, Goto, errors, TypeOK, Threads, Rows
<1>3. Calls'
  BY SMT DEF IInv, Core, Edit, Goto, errors, TypeOK, Calls, InCall, Permitted
<1>4. Agree'
  <2>1. ASSUME loaded, NEW q \in PlayerIds
        PROVE  cache[q] = table[q] \/ (lost /\ cache[q] = NoRow)
    BY <2>1 DEF IInv, Core, Edit, Agree, RowAgrees, Edited
  <2>2. /\ dbLock' = t /\ UNCHANGED <<cache, arg, loaded, lost>>
        /\ table' = [table EXCEPT ![arg[t].id] = arg[t].row]
        /\ (table[arg[t].id] = NoRow) = (arg[t].row # NoRow)
    BY DEF Edit, LockedBy, errors
  <2> QED BY <1>1, <2>1, <2>2 DEF IInv, Core, Agree, RowAgrees, Edited, TypeOK
<1> QED BY <1>2, <1>3, <1>4 DEF Core

LEMMA UpdateKeepsCore ==
    ASSUME IInv, NEW t \in Threads, UpdateCache(t)
    PROVE  Core'
<1>1. t \in ApiThreads /\ dbLock = t /\ t # NoThread /\ arg[t].row \in Rows
  BY ThreadsAssumption, SMT DEF IInv, Core, UpdateCache, Calls, InCall, Threads, TypeOK
<1>2. TypeOK'
  <2>1. cache' \in [PlayerIds -> PublisherIds \cup {NoRow}]
    BY <1>1 DEF IInv, Core, UpdateCache, TypeOK, Rows
  <2>2. \A u \in Threads : (pc'[u] = "update" <=> dbLock' = u) /\ (pc'[u] = "load" <=> cacheLock' = u)
    BY <1>1, ThreadsAssumption DEF IInv, Core, UpdateCache, Goto, errors, TypeOK
  <2> QED BY <2>1, <2>2, SMT DEF IInv, Core, UpdateCache, Goto, errors, TypeOK
<1>3. Calls'
  BY SMT DEF IInv, Core, UpdateCache, Goto, errors, TypeOK, Calls, InCall, Permitted, NoArg, Ids, Rows, Keys
<1>4. Agree'
  BY <1>1 DEF IInv, Core, UpdateCache, Agree, RowAgrees, Edited, TypeOK, errors
<1> QED BY <1>2, <1>3, <1>4 DEF Core

LEMMA OpenKeepsCore ==
    ASSUME IInv, Open
    PROVE  Core'
  BY SMT DEF IInv, Core, Open, locks, errors, TypeOK, Calls, InCall, Agree, RowAgrees, Edited, Permitted

LEMMA NewWindowKeepsCore ==
    ASSUME IInv, NewWindow
    PROVE  Core'
  BY ThreadsAssumption, SMT DEF IInv, Core, NewWindow, locks, errors, TypeOK, Calls, InCall, Agree, RowAgrees, Edited, Permitted

LEMMA NextLoadsOnce ==
    ASSUME TypeOK, LoadsOnce, [Next]_vars
    PROVE  LoadsOnce'
<1> USE DEF LoadsOnce
<1>1. ASSUME NEW t \in Threads, LockToLoad(t)
      PROVE  LoadsOnce'
  BY <1>1 DEF LockToLoad, Goto, TypeOK, errors
<1>2. ASSUME NEW t \in Threads, Load(t) \/ LoadCutShort(t)
      PROVE  LoadsOnce'
  <2>1. pc[t] = "load" /\ pc' = [pc EXCEPT ![t] = "read"] /\ loaded'
    BY <1>2 DEF Load, LoadCutShort, Goto
  <2>2. \A u \in Threads : u # t => pc[u] # "load"
    BY <2>1 DEF TypeOK
  <2> QED BY <2>1, <2>2 DEF TypeOK
<1>3. ASSUME UNCHANGED <<loaded, lost>>, NEW t \in Threads, NEW label, label # "load", Goto(t, label)
      PROVE  LoadsOnce'
  BY <1>3 DEF Goto, TypeOK
<1>4. ASSUME NEW t \in Threads, Step(t), ~LockToLoad(t), ~Load(t), ~LoadCutShort(t)
      PROVE  LoadsOnce'
  <2> USE DEF errors
  <2>1. CASE CheckLoaded(t) \/ Read(t) \/ Return(t)
    BY <1>3, <2>1 DEF CheckLoaded, Read, Return, Reply
  <2>2. CASE LoadFails(t) \/ LoadThrows(t) \/ ReadThrows(t)
    BY <1>3, <2>2 DEF LoadFails, LoadThrows, ReadThrows, Fail, Reply
  <2>3. CASE Authenticate(t) \/ Edit(t) \/ RefuseEdit(t)
    BY <1>3, <2>3 DEF Authenticate, Edit, RefuseEdit
  <2>4. CASE BadBody(t) \/ UpdateCache(t) \/ LogAccess(t)
    BY <1>3, <2>4 DEF BadBody, UpdateCache, LogAccess
  <2> QED BY <1>4, <2>1, <2>2, <2>3, <2>4 DEF Step
<1>5. ASSUME NEW t \in Threads, NEW id \in PlayerIds \cup PublisherIds, Validate(t, id)
      PROVE  LoadsOnce'
  BY <1>3, <1>5 DEF Validate, Reply, errors
<1>6. ASSUME NEW t \in Threads, NEW q \in PlayerIds, NEW row \in PublisherIds \cup {NoRow},
             NEW key \in Keys, Request(t, q, row, key)
      PROVE  LoadsOnce'
  BY <1>3, <1>6 DEF Request, errors
<1>7. CASE Open \/ NewWindow \/ UNCHANGED vars
  BY <1>7 DEF Open, NewWindow, vars, errors
<1> QED BY <1>1, <1>2, <1>4, <1>5, <1>6, <1>7 DEF Next

LEMMA NextIInv == IInv /\ [Next]_vars => IInv'
<1> SUFFICES ASSUME IInv, [Next]_vars PROVE Core'
  BY NextLoadsOnce DEF IInv, Core
<1>1. CASE Open
  BY <1>1, OpenKeepsCore
<1>2. CASE NewWindow
  BY <1>2, NewWindowKeepsCore
<1>3. ASSUME NEW t \in Threads, Step(t)
      PROVE  Core'
  BY <1>3, ValidationKeepsTypes, ValidationKeepsCalls, ValidationKeepsAgree,
     NoEditKeepsCore, EditKeepsCore, UpdateKeepsCore DEF Step, IInv, Core
<1>4. ASSUME NEW t \in Threads, NEW id \in PlayerIds \cup PublisherIds, Validate(t, id)
      PROVE  Core'
  BY <1>4, ValidationKeepsTypes, ValidationKeepsCalls, ValidationKeepsAgree DEF IInv, Core
<1>5. ASSUME NEW t \in Threads, NEW q \in PlayerIds, NEW row \in PublisherIds \cup {NoRow},
             NEW key \in Keys, Request(t, q, row, key)
      PROVE  Core'
  BY <1>5, RequestKeepsCore
<1>6. CASE UNCHANGED vars
  BY <1>6 DEF vars, locks, RowAgrees, Edited, IInv, Core, TypeOK, Calls, InCall, Agree, Permitted
<1> QED BY <1>1, <1>2, <1>3, <1>4, <1>5, <1>6 DEF Next

LEMMA Invariance == Spec => []IInv
  BY InitIInv, NextIInv, PTL DEF Spec

(* Every variable keeps its type, and a mutex is held by exactly the thread *)
(* inside its critical section, for any number of threads.                 *)
THEOREM TypeCorrect == Spec => []TypeOK
<1>1. IInv => TypeOK
  BY DEF IInv, Core
<1> QED BY <1>1, Invariance, PTL

(* The copy the listeners trust is the table whenever no edit is under way, *)
(* however edits and loads interleave, but for rows lost by a load that an *)
(* error cut short.                                                        *)
THEOREM CacheCorrect == Spec => []CacheIsTable
<1>1. IInv => CacheIsTable
  BY DEF IInv, Core, Agree, RowAgrees, Edited, CacheIsTable
<1> QED BY <1>1, Invariance, PTL
-----------------------------------------------------------------------------
(* Only a permitted request that is under way changes the table, whatever  *)
(* the other threads do.                                                   *)
THEOREM EditsPermitted == Spec => EditsAllowed
<1> DEFINE E == \A q \in PlayerIds :
         table'[q] # table[q] =>
            \E t \in ApiThreads :
               /\ arg[t].id = q /\ arg[t].row = table'[q]
               /\ arg[t].key = "admin" \/ (arg[t].key = "write" /\ table[q] = NoRow)
<1>1. ASSUME IInv, [Next]_vars
      PROVE  [E]_vars
  <2>1. ASSUME NEW t \in Threads, Edit(t)
        PROVE  E
    <3>1. t \in ApiThreads /\ Permitted(arg[t])
      BY <1>1, <2>1 DEF IInv, Core, Calls, InCall, Edit
    <3>2. ASSUME NEW q \in PlayerIds, table'[q] # table[q]
          PROVE  q = arg[t].id /\ table'[q] = arg[t].row /\ (arg[t].row # NoRow => table[q] = NoRow)
      BY <1>1, <2>1, <3>2 DEF IInv, Core, TypeOK, Edit
    <3> QED BY <3>1, <3>2 DEF Permitted
  <2>2. CASE UNCHANGED table
    BY <2>2
  <2> QED
    BY <1>1, <2>1, <2>2
       DEF Next, Open, NewWindow, Step, Validate, Reply, CheckLoaded, LockToLoad, Load, Read,
           Return, Request, Authenticate, RefuseEdit, BadBody, UpdateCache, LogAccess, Fail, LoadCutShort, LoadFails, LoadThrows,
           ReadThrows, errors, locks, vars
<1> QED BY <1>1, Invariance, PTL DEF Spec, EditsAllowed
-----------------------------------------------------------------------------
(* The refinement: the rows the callers see are the copy's once it is      *)
(* loaded, and the table's until then.                                     *)
LEMMA InitMaps == Init => Promise!Init
  BY DEF Init, Promise!Init

LEMMA ValidationMaps ==
    ASSUME IInv, NEW t \in Threads,
           \/ \E id \in PlayerIds \cup PublisherIds : Validate(t, id)
           \/ CheckLoaded(t) \/ LockToLoad(t) \/ Return(t)
    PROVE  [Promise!Next]_(Promise!vars)
<1> USE DEF Promise!Next, Promise!vars, errors
<1>1. CASE \E id \in PlayerIds \cup PublisherIds : Validate(t, id)
  <2>1. CASE open
    BY <1>1, <2>1 DEF Validate
  <2>2. CASE ~open
    <3>1. reply[t] = NoReply
      BY <1>1 DEF IInv, Core, Calls, InCall, Validate
    <3>2. Promise!AskClosed(t)
      BY <1>1, <2>2, <3>1
         DEF Validate, Reply, Promise!AskClosed, Promise!Answer, Allowed, Promise!Allowed
    <3> QED BY <3>2
  <2> QED BY <2>1, <2>2
<1>2. CASE CheckLoaded(t)
  BY <1>2 DEF CheckLoaded
<1>3. CASE LockToLoad(t)
  BY <1>3 DEF LockToLoad
<1>4. CASE Return(t)
  <2>1. Promise!Return(t)
    BY <1>4 DEF Return, Promise!Return
  <2> QED BY <2>1
<1> QED BY <1>1, <1>2, <1>3, <1>4

LEMMA ReadMaps ==
    ASSUME IInv, NEW t \in Threads, Read(t)
    PROVE  Promise!Next
<1>1. /\ open /\ loaded /\ reply[t] = NoReply
      /\ arg[t].id \in PlayerIds \cup PublisherIds
      /\ UNCHANGED <<open, table, loaded, cache, failed, lost>>
      /\ reply' = [reply EXCEPT ![t] = Found(arg[t].id)]
  BY DEF IInv, Core, Calls, InCall, Read, Reply, Ids, errors
<1>2. CASE arg[t].id \in PlayerIds
  <2>1. Promise!AskPlayer(t, arg[t].id)
    BY <1>1, <1>2 DEF Found, Promise!AskPlayer, Promise!Answer
  <2> QED BY <1>2, <2>1 DEF Promise!Next
<1>3. CASE arg[t].id \notin PlayerIds
  <2>1. Promise!AskPublisher(t, arg[t].id)
    BY <1>1, <1>3 DEF Found, Promise!AskPublisher, Promise!Answer, Promise!Valid
  <2> QED BY <1>1, <1>3, <2>1 DEF Promise!Next
<1> QED BY <1>2, <1>3

LEMMA LoadMaps ==
    ASSUME IInv, NEW t \in Threads, Load(t)
    PROVE  UNCHANGED Promise!vars
  BY DEF IInv, LoadsOnce, Load, errors, Promise!vars

(* A load that is cut short is the one time the table forgets. *)
LEMMA CutShortMaps ==
    ASSUME IInv, NEW t \in Threads, LoadCutShort(t)
    PROVE  Promise!Next
<1>1. ~loaded /\ ~lost
  BY DEF IInv, LoadsOnce, LoadCutShort
<1>2. PICK S \in SUBSET PlayerIds : cache' = Copied(S)
  BY DEF LoadCutShort
<1>3. Promise!Forget(PlayerIds \ S)
  BY <1>1, <1>2 DEF LoadCutShort, Copied, Promise!Forget
<1> QED BY <1>3 DEF Promise!Next

(* A call that meets an error has asked in vain. *)
LEMMA FailureMaps ==
    ASSUME IInv, NEW t \in Threads, LoadFails(t) \/ LoadThrows(t) \/ ReadThrows(t)
    PROVE  Promise!Next
<1>1. open /\ reply[t] = NoReply
  BY DEF IInv, Core, Calls, InCall, LoadFails, LoadThrows, ReadThrows
<1>2. PICK a \in {NoRow, "invalid", Allowed} : Fail(t, a)
  BY DEF LoadFails, LoadThrows, ReadThrows, NotFound
<1>3. UNCHANGED (IF loaded THEN cache ELSE table)
  BY DEF IInv, LoadsOnce, LoadFails, LoadThrows, ReadThrows, Fail
<1>4. Promise!AskInVain(t)
  BY <1>1, <1>2, <1>3
     DEF Fail, Reply, Promise!AskInVain, Promise!Answer, Allowed, Promise!Allowed
<1> QED BY <1>4 DEF Promise!Next

(* An edit takes effect in the table if the copy is not loaded, and with   *)
(* the copy's update if it is.                                             *)
LEMMA ChangeMaps ==
    ASSUME NEW q \in PlayerIds, NEW row \in Rows, open, UNCHANGED <<open, loaded, reply, failed, lost>>,
           loaded  => ((cache[q] = NoRow) <=> (row # NoRow)) /\ cache' = [cache EXCEPT ![q] = row],
           ~loaded => ((table[q] = NoRow) <=> (row # NoRow)) /\ table' = [table EXCEPT ![q] = row]
    PROVE  Promise!Next
<1>1. CASE row = NoRow
  <2>1. Promise!Remove(q)
    BY <1>1 DEF Promise!Remove
  <2> QED BY <2>1 DEF Promise!Next
<1>2. CASE row # NoRow
  <2>1. Promise!Insert(q, row)
    BY <1>2 DEF Promise!Insert
  <2> QED BY <1>2, <2>1 DEF Promise!Next, Rows
<1> QED BY <1>1, <1>2

LEMMA EditMaps ==
    ASSUME IInv, NEW t \in Threads, Edit(t) \/ UpdateCache(t)
    PROVE  [Promise!Next]_(Promise!vars)
<1>1. open /\ arg[t].id \in PlayerIds /\ arg[t].row \in Rows
  BY DEF IInv, Core, Calls, InCall, Edit, UpdateCache
<1>2. CASE Edit(t)
  <2>1. CASE loaded
    BY <1>2, <2>1 DEF Edit, errors, Promise!vars
  <2>2. CASE ~loaded
    BY <1>1, <1>2, <2>2, ChangeMaps DEF Edit, errors
  <2> QED BY <2>1, <2>2
<1>3. CASE UpdateCache(t)
  <2>1. CASE ~loaded
    BY <1>3, <2>1 DEF UpdateCache, errors, Promise!vars
  <2>2. CASE loaded
    <3>1. dbLock = t /\ t # NoThread
      BY <1>3, ThreadsAssumption DEF IInv, Core, TypeOK, UpdateCache
    <3>2. /\ table[arg[t].id] = arg[t].row
          /\ arg[t].row # NoRow => cache[arg[t].id] = NoRow
      BY <1>1, <2>2, <3>1 DEF IInv, Core, Agree, RowAgrees, Edited
    <3>3. CASE (cache[arg[t].id] = NoRow) <=> (arg[t].row # NoRow)
      BY <1>1, <1>3, <2>2, <3>3, ChangeMaps DEF UpdateCache, errors
    <3>4. CASE cache[arg[t].id] = NoRow /\ arg[t].row = NoRow
      <4>1. cache' = cache
        BY <1>3, <2>2, <3>4 DEF UpdateCache, IInv, Core, TypeOK
      <4> QED BY <1>3, <4>1 DEF UpdateCache, errors, Promise!vars
    <3> QED BY <3>2, <3>3, <3>4
  <2> QED BY <2>1, <2>2
<1> QED BY <1>2, <1>3

(* Callers cannot tell the two copies and their locks from one table, with *)
(* the errors StreamTable allows (AskInVain, Forget): the database         *)
(* implements it for any number of threads and ids.                        *)
THEOREM ImplementsTable == Spec => ActsAsOneTable
<1>1. ASSUME IInv, [Next]_vars
      PROVE  [Promise!Next]_(Promise!vars)
  <2>1. CASE Open
    <3>1. Promise!Open
      BY <2>1 DEF Open, errors, Promise!Open
    <3> QED BY <3>1 DEF Promise!Next
  <2>2. CASE NewWindow
    BY <2>2 DEF NewWindow, errors, Promise!vars
  <2>3. ASSUME NEW t \in Threads, Step(t)
        PROVE  [Promise!Next]_(Promise!vars)
    <3>1. CASE Authenticate(t) \/ RefuseEdit(t) \/ BadBody(t) \/ LogAccess(t)
      BY <3>1 DEF Authenticate, RefuseEdit, BadBody, LogAccess, errors, Promise!vars
    <3> QED BY <1>1, <2>3, <3>1, ValidationMaps, ReadMaps, LoadMaps,
                CutShortMaps, FailureMaps, EditMaps DEF Step
  <2>4. ASSUME NEW t \in Threads, NEW id \in PlayerIds \cup PublisherIds, Validate(t, id)
        PROVE  [Promise!Next]_(Promise!vars)
    BY <1>1, <2>4, ValidationMaps
  <2>5. ASSUME NEW t \in Threads, NEW q \in PlayerIds, NEW row \in PublisherIds \cup {NoRow},
               NEW key \in Keys, Request(t, q, row, key)
        PROVE  [Promise!Next]_(Promise!vars)
    BY <2>5 DEF Request, errors, Promise!vars
  <2>6. CASE UNCHANGED vars
    BY <2>6 DEF vars, Promise!vars
  <2> QED BY <1>1, <2>1, <2>2, <2>3, <2>4, <2>5, <2>6 DEF Next
<1> QED BY <1>1, InitMaps, Invariance, PTL DEF Spec, ActsAsOneTable, Promise!Spec
-----------------------------------------------------------------------------
(* Once the copy is loaded no two threads ever wait for each other's lock: *)
(* the deadlock that the code allows is one of the first load.             *)
THEOREM DeadlockOnlyOnFirstLoad == Spec => [](loaded => NoLockCycle)
<1>1. IInv => (loaded => NoLockCycle)
  BY DEF IInv, LoadsOnce, NoLockCycle
<1> QED BY <1>1, Invariance, PTL
=============================================================================
