------------------------------- MODULE Manager -------------------------------
(***************************************************************************)
(* main, its CSLSManagers and their workers, from the first start through  *)
(* reloads to the end of the process.  A reload leaves the old manager to  *)
(* its clients: its listeners are closed, each of its workers ends when it *)
(* holds nothing more, and main deletes it when no worker is left.  With   *)
(* worker_threads 0 a manager has one group without a thread, which main   *)
(* drives while the manager is the current one.                            *)
(*                                                                         *)
(* A role is a listener or a client here; what they do is in Sessions.     *)
(***************************************************************************)
EXTENDS Naturals, Sequences, FiniteSets

CONSTANTS Managers,    \* 1, 2, ...: bound on the number of reloads
          Threads,     \* worker_threads of each manager, if it has threads
          Connections, \* worker_connections
          Clients      \* bound: the clients that ever connect

ASSUME ManagerAssumption ==
    /\ IsFiniteSet(Managers) /\ Managers # {} /\ Managers = 1..Cardinality(Managers)
    /\ Threads \in [Managers -> Nat \ {0}] /\ Connections \in Nat \ {0}
    /\ Clients \cap (Managers \X {"publisher", "player"}) = {}

VARIABLES conf,      \* the manager that read the configuration in memory, None: it is freed
          mgr,       \* the managers
          role,      \* their roles
          worker,    \* their groups, with a thread each or driven by main
          main,      \* where main is, with what its locals hold
          api,       \* the API server: m_sls_manager, and what its thread does
          call       \* the manager an API call is using

vars == <<conf, mgr, role, worker, main, api, call>>

None == 0
Listeners == Managers \X {"publisher", "player"}
Roles == Listeners \cup Clients
WorkersOf(m) == {m} \X (1..Threads[m])
Workers == UNION {WorkersOf(m) : m \in Managers}

NoMgr == [stage |-> "none", single |-> FALSE, maps |-> FALSE, servers |-> <<>>,
          list |-> <<>>, reload |-> FALSE]
NoRole == [stage |-> "none", sock |-> "open", m |-> None, w |-> None]
NoWorker == [at |-> "none", m_exit |-> FALSE]

ListenersOf(m) == <<<<m, "publisher">>, <<m, "player">>>>
In(seq) == {seq[i] : i \in DOMAIN seq}
Held(w) == {r \in Roles : role[r].stage = "held" /\ <<role[r].m, role[r].w>> = w}
Unborn == {m \in Managers : mgr[m].stage = "none"}
NewClients == {c \in Clients : role[c].stage = "none"}
Current == {m \in Managers : mgr[m].stage = "current"}
Old == {m \in Managers : mgr[m].stage = "old"}
HasThread(w) == ~mgr[w[1]].single
Exists(w) == worker[w].at \notin {"none", "deleted"}

MainAt(label) == main.at = label
Goto(label) == main' = [main EXCEPT !.at = label]
CheckOld == main' = [main EXCEPT !.at = "check", !.unchecked = Old]
GotoExit == main' = [main EXCEPT !.at = "exit", !.exiting = TRUE]
-----------------------------------------------------------------------------
(* CSLSManager::start: listeners, then groups.  It fails when a port or an *)
(* epoll cannot be had, and leaves what it has made so far.                *)

Started(m, single, ls, ws) ==
    /\ mgr' = [mgr EXCEPT ![m] = [stage |-> "current", single |-> single, maps |-> TRUE,
                                  servers |-> ls, list |-> ls, reload |-> FALSE]]
    /\ role' = [r \in Roles |-> IF r \in In(ls)
                                THEN [NoRole EXCEPT !.stage = "queued", !.m = m]
                                ELSE role[r]]
    /\ worker' = [w \in Workers |-> IF w \in ws THEN [NoWorker EXCEPT !.at = "top"] ELSE worker[w]]

Groups(m, single) == IF single THEN {<<m, 1>>} ELSE WorkersOf(m)

StartOk(m) == \E single \in BOOLEAN : Started(m, single, ListenersOf(m), Groups(m, single))

StartFails(m) ==
    \/ \E single \in BOOLEAN, n \in 0..(Threads[m] - 1) :
         Started(m, single, ListenersOf(m), IF single THEN {} ELSE {m} \X (1..n))
    \/ \E ls \in {<<>>, <<<<m, "publisher">>>>} : Started(m, FALSE, ls, {})

(* A first start that fails ends the process: the first manager is there. *)
Init ==
    /\ conf = 1
    /\ \E single \in BOOLEAN :
         /\ mgr = [m \in Managers |->
              IF m = 1 THEN [stage |-> "current", single |-> single, maps |-> TRUE,
                             servers |-> ListenersOf(1), list |-> ListenersOf(1), reload |-> FALSE]
              ELSE NoMgr]
         /\ worker = [w \in Workers |->
              IF w \in Groups(1, single) THEN [NoWorker EXCEPT !.at = "top"] ELSE NoWorker]
    /\ role = [r \in Roles |->
         IF r \in In(ListenersOf(1)) THEN [NoRole EXCEPT !.stage = "queued", !.m = 1] ELSE NoRole]
    /\ main = [at |-> "database", m |-> 1, w |-> <<1, 1>>, unchecked |-> {}, exiting |-> FALSE]
    /\ api = [m |-> None, at |-> "ended"] /\ call = None
-----------------------------------------------------------------------------
(* A group's round.                                                        *)

Runs(w) ==
    IF HasThread(w) THEN worker[w].at # "none" ELSE MainAt("single") /\ mgr[w[1]].stage = "current"

WorkerGoto(w, label) == worker' = [worker EXCEPT ![w].at = label]

ReloadOnly(w) == mgr[w[1]].reload

NothingHeld(w) == mgr[w[1]].reload /\ Held(w) = {}

DeletedRole == [NoRole EXCEPT !.stage = "deleted"]
Deleted(rs) == [r \in Roles |-> IF r \in rs THEN DeletedRole ELSE role[r]]

(* work leaves its loop when m_exit is set, by main or by handler when a   *)
(* reload has left the group nothing to do, and ends with clear.           *)
LeaveLoop(w) ==
    /\ worker[w].at = "top" /\ HasThread(w)
    /\ worker[w].m_exit \/ NothingHeld(w)
    /\ role' = Deleted(Held(w))
    /\ worker' = [worker EXCEPT ![w] = [at |-> "exited", m_exit |-> TRUE]]
    /\ UNCHANGED <<conf, mgr, main, api, call>>

InRound(w) == worker[w].at = "top" /\ Runs(w) /\ ~worker[w].m_exit /\ ~NothingHeld(w)

(* A listener has a client, and its handler begins ... *)
BeginHandler(w) ==
    /\ InRound(w)
    /\ \E l \in Held(w) \cap Listeners : role[l].sock = "open"
    /\ WorkerGoto(w, "handler")
    /\ UNCHANGED <<conf, mgr, role, main, api, call>>

(* ... and ends, with a role for the list or without.  main may have       *)
(* closed the listener in between.                                         *)
EndHandler(w) ==
    /\ worker[w].at = "handler"
    /\ WorkerGoto(w, "idle_check")
    /\ \/ UNCHANGED <<role, mgr>>
       \/ /\ NewClients # {}
          /\ LET c == CHOOSE c \in NewClients : TRUE IN
             /\ role' = [role EXCEPT ![c] = [NoRole EXCEPT !.stage = "queued", !.m = w[1]]]
             /\ mgr' = [mgr EXCEPT ![w[1]].list = Append(@, c)]
    /\ UNCHANGED <<conf, main, api, call>>

Broken(w) == {r \in Held(w) : role[r].sock # "open"}

(* A role of the list is taken into the group, or deleted at once: a       *)
(* listener that main has closed has no socket, and epoll may refuse that  *)
(* of a client that is broken.                                             *)
Popped(w, r, rest) ==
    \/ /\ role[r].sock = "open" \/ r \in Clients
       /\ role' = [rest EXCEPT ![r].stage = "held", ![r].w = w[2]]
    \/ /\ role[r].sock # "open"
       /\ role' = [rest EXCEPT ![r] = DeletedRole]

(* check_invalid_sock and check_new_role, at the end of every round: what  *)
(* is invalid goes, and a role of the list is taken if there is room.      *)
IdleCheck(w) ==
    /\ InRound(w) \/ worker[w].at = "idle_check"
    /\ WorkerGoto(w, "top")
    /\ LET rest == Deleted(Broken(w)) IN
       IF mgr[w[1]].list # <<>> /\ Cardinality(Held(w) \ Broken(w)) < Connections
       THEN /\ Popped(w, Head(mgr[w[1]].list), rest)
            /\ mgr' = [mgr EXCEPT ![w[1]].list = Tail(@)]
       ELSE role' = rest /\ UNCHANGED mgr
    /\ IF HasThread(w) THEN UNCHANGED main ELSE CheckOld
    /\ UNCHANGED <<conf, api, call>>

WorkerStep(w) ==
    LeaveLoop(w) \/ BeginHandler(w) \/ EndHandler(w) \/ IdleCheck(w)
-----------------------------------------------------------------------------
(* main's loop.                                                            *)

(* The API server, with a call at a time on other threads: its own thread  *)
(* gets to listen some time after start, if the port can be had.           *)
NewApi(m) == api' = [m |-> m, at |-> "starting"]

ApiListen ==
    /\ api.at = "starting"
    /\ \E at \in {"listening", "ended"} : api' = [api EXCEPT !.at = at]
    /\ UNCHANGED <<conf, mgr, role, worker, main, call>>

ApiBegin ==
    /\ api.at = "listening" /\ call = None
    /\ call' = api.m
    /\ UNCHANGED <<conf, mgr, role, worker, main, api>>

ApiEnd ==
    /\ call # None /\ call' = None
    /\ UNCHANGED <<conf, mgr, role, worker, main, api>>

Database ==
    /\ MainAt("database")
    /\ \/ NewApi(1) /\ Goto("loop")
       \/ UNCHANGED api /\ GotoExit
    /\ UNCHANGED <<conf, mgr, role, worker, call>>

(* b_exit and b_reload: a signal may have come whenever main looks. *)
Loop ==
    /\ MainAt("loop")
    /\ \/ Goto("stop_api")
       \/ IF \E m \in Current : mgr[m].single THEN Goto("single") ELSE CheckOld
    /\ UNCHANGED <<conf, mgr, role, worker, api, call>>

Exited(w) == worker[w].at = "exited"

(* CSLSManager::check_invalid: joins and deletes the groups that ended.    *)
CheckInvalid(m) ==
    /\ MainAt("check") /\ m \in main.unchecked
    /\ worker' = [w \in Workers |->
         IF w[1] = m /\ Exited(w) THEN [worker[w] EXCEPT !.at = "deleted"] ELSE worker[w]]
    /\ main' = [main EXCEPT !.unchecked = @ \ {m}, !.m = m,
                  !.at = IF \E w \in WorkersOf(m) : Exists(w) /\ ~Exited(w) THEN "check" ELSE "stop"]
    /\ UNCHANGED <<conf, mgr, role, api, call>>

Checked ==
    /\ MainAt("check") /\ main.unchecked = {}
    /\ \/ Goto("loop")
       \/ /\ Unborn # {}
          /\ \E m \in Current : main' = [main EXCEPT !.at = "reload", !.m = m]
    /\ UNCHANGED <<conf, mgr, role, worker, api, call>>
-----------------------------------------------------------------------------
(* Reload: close the listeners, flag the groups, keep the manager in the   *)
(* list; read the configuration, start a manager, restart the API server.  *)

Uninit(l) ==
    /\ role' = [role EXCEPT ![l].sock = "closed"]
    /\ mgr' = [mgr EXCEPT ![main.m].servers = Tail(@)]

UninitAndKeep(l) ==
    /\ role' = [role EXCEPT ![l].sock = "closed"]
    /\ UNCHANGED mgr

UninitNothing(l) ==
    /\ mgr' = [mgr EXCEPT ![main.m].servers = Tail(@)]
    /\ UNCHANGED role

UninitServer(l) == Uninit(l)

(* One listener of m_servers after the other, in reload and in stop. *)
CloseServer ==
    /\ main.at \in {"reload", "stop"}
    /\ mgr[main.m].servers # <<>> /\ UninitServer(Head(mgr[main.m].servers))
    /\ UNCHANGED <<conf, worker, main, api, call>>

NoFlag(m) == [mgr EXCEPT ![m].stage = "old"]

Reloaded(m) == [mgr EXCEPT ![m].stage = "old", ![m].reload = TRUE]

FlagGroups ==
    /\ MainAt("reload") /\ mgr[main.m].servers = <<>>
    /\ mgr' = Reloaded(main.m)
    /\ Goto("configure")
    /\ UNCHANGED <<conf, role, worker, api, call>>

(* sls_conf_close frees what the new manager's sls_conf_open then reads. *)
Configure ==
    /\ MainAt("configure")
    /\ \/ conf' = None /\ Goto("stop_api")
       \/ conf' = main.m + 1 /\ Goto("start")
    /\ UNCHANGED <<mgr, role, worker, api, call>>

NoRestart == "loop"

AfterStart == "restart_api"

Start ==
    /\ MainAt("start")
    /\ \/ StartOk(conf) /\ Goto(AfterStart)
       \/ StartFails(conf) /\ Goto("stop_api")
    /\ UNCHANGED <<conf, api, call>>

(* CSLSApiServer::stop: a server that listens takes no more calls; one     *)
(* that does not listen yet is not told. *)
ApiStop ==
    /\ main.at \in {"restart_api", "stop_api"}
    /\ api' = IF api.at = "listening" THEN [api EXCEPT !.at = "ended"] ELSE api
    /\ Goto(IF MainAt("stop_api") THEN "join_api" ELSE "rejoin_api")
    /\ UNCHANGED <<conf, mgr, role, worker, call>>

ApiDone == api.at = "ended" /\ call = None

RestartApi ==
    /\ MainAt("rejoin_api") /\ ApiDone
    /\ NewApi(conf)
    /\ Goto("loop")
    /\ UNCHANGED <<conf, mgr, role, worker, call>>

JoinApi ==
    /\ MainAt("join_api") /\ ApiDone
    /\ GotoExit
    /\ UNCHANGED <<conf, mgr, role, worker, api, call>>
-----------------------------------------------------------------------------
(* CSLSManager::stop.                                                      *)

AnyTime(w) == TRUE

Joined(w) == worker[w].at = "exited"

NextWorker ==
    /\ MainAt("stop") /\ mgr[main.m].servers = <<>>
    /\ \E w \in WorkersOf(main.m) :
         /\ Exists(w)
         /\ worker' = [worker EXCEPT ![w].m_exit = @ \/ HasThread(w)]
         /\ main' = [main EXCEPT !.at = "join", !.w = w]
    /\ UNCHANGED <<conf, mgr, role, api, call>>

(* A group without a thread is not cleared: what it holds is never closed. *)
JoinWorker ==
    /\ MainAt("join")
    /\ HasThread(main.w) => Joined(main.w)
    /\ WorkerGoto(main.w, "deleted")
    /\ Goto("stop")
    /\ UNCHANGED <<conf, mgr, role, api, call>>

WorkersGone(m) == \A w \in WorkersOf(m) : ~Exists(w)

MapsFirst(m) == TRUE

MapsUnused(m) == WorkersGone(m)

DeleteMaps ==
    /\ MainAt("stop") /\ mgr[main.m].maps /\ mgr[main.m].servers = <<>>
    /\ MapsUnused(main.m)
    /\ mgr' = [mgr EXCEPT ![main.m].maps = FALSE]
    /\ UNCHANGED <<conf, role, worker, main, api, call>>

(* CSLSRoleList::erase, and the manager goes. *)
Erase ==
    /\ MainAt("stop") /\ ~mgr[main.m].maps /\ mgr[main.m].servers = <<>>
    /\ WorkersGone(main.m)
    /\ role' = Deleted(In(mgr[main.m].list))
    /\ mgr' = [mgr EXCEPT ![main.m].stage = "deleted", ![main.m].list = <<>>]
    /\ Goto(IF main.exiting THEN "exit" ELSE "check")
    /\ UNCHANGED <<conf, worker, api, call>>
-----------------------------------------------------------------------------
(* The end of main.                                                        *)

CurrentOnly == Current

CurrentThenOld == IF Current # {} THEN Current ELSE Old

Exit ==
    /\ MainAt("exit")
    /\ IF CurrentThenOld # {}
       THEN /\ main' = [main EXCEPT !.at = "stop", !.m = CHOOSE m \in CurrentThenOld : TRUE]
            /\ UNCHANGED conf
       ELSE conf' = None /\ Goto("done")
    /\ UNCHANGED <<mgr, role, worker, api, call>>

MainStep ==
    \/ Database \/ Loop \/ Checked \/ \E m \in Old : CheckInvalid(m)
    \/ CloseServer \/ FlagGroups \/ Configure \/ Start \/ RestartApi
    \/ NextWorker \/ JoinWorker \/ DeleteMaps \/ Erase \/ ApiStop \/ JoinApi \/ Exit
-----------------------------------------------------------------------------
(* What clients do.                                                        *)

ClientBreaks(c) ==
    /\ role[c].stage \in {"queued", "held"} /\ role[c].sock = "open"
    /\ role' = [role EXCEPT ![c].sock = "broken"]
    /\ UNCHANGED <<conf, mgr, worker, main, api, call>>

Next ==
    \/ MainStep \/ ApiListen \/ ApiBegin \/ ApiEnd
    \/ \E w \in Workers : WorkerStep(w)
    \/ \E c \in Clients : ClientBreaks(c)

Spec == Init /\ [][Next]_vars

(* Threads get their turns and API calls return; nothing makes a client    *)
(* leave or a signal come.                                                 *)
FairSpec ==
    /\ Spec
    /\ WF_vars(MainStep) /\ WF_vars(ApiListen \/ ApiEnd)
    /\ \A w \in Workers : WF_vars(WorkerStep(w))
-----------------------------------------------------------------------------
(* Properties.                                                             *)

(* Types; a role of a manager that is deleted is no longer in a list or    *)
(* group, unless the group had no thread and nothing was ever cleared.     *)
ManagerTypeOK ==
    /\ conf \in Managers \cup {None}
    /\ mgr \in [Managers -> [stage : {"none", "current", "old", "deleted"}, single : BOOLEAN,
                             maps : BOOLEAN, servers : Seq(Listeners), list : Seq(Roles),
                             reload : BOOLEAN]]
    /\ role \in [Roles -> [stage : {"none", "queued", "held", "deleted"},
                           sock : {"open", "closed", "broken"},
                           m : Managers \cup {None}, w : Nat]]
    /\ worker \in [Workers -> [at : {"none", "top", "handler", "idle_check", "exited", "deleted"}, m_exit : BOOLEAN]]
    /\ api \in [m : Managers \cup {None}, at : {"starting", "listening", "ended"}]
    /\ call \in Managers \cup {None}
    /\ \A r \in Roles : role[r].stage \in {"queued", "held"} /\ mgr[role[r].m].stage = "deleted"
         => mgr[role[r].m].single /\ role[r].stage = "held"

(* An API call works on a manager that is not yet being taken apart: the   *)
(* server is stopped and started between a reload and the first look at    *)
(* the list of old managers, and before any manager is stopped at the end. *)
ApiHasManager ==
    call # None => mgr[call].stage \in {"current", "old"} /\ mgr[call].maps

(* Whatever a worker is doing, the role list and the maps its roles point  *)
(* to are there: stop joins every worker before it deletes them.           *)
MapsOutliveWorkers ==
    \A w \in Workers : worker[w].at \in {"top", "handler", "idle_check"} => mgr[w[1]].maps

(* main never closes a listener that a worker has deleted, though workers  *)
(* delete closed listeners while main is still closing others.             *)
ServersAlive ==
    \A m \in Managers : \A l \in In(mgr[m].servers) : role[l].stage # "deleted"

(* A listener that can still accept a client, with the latency limits of   *)
(* its server block, points into the configuration that is in memory:      *)
(* reload frees it only after it closed every listener of every manager.   *)
ListenersHaveConf ==
    \A l \in Listeners :
        role[l].stage \in {"queued", "held"} /\ role[l].sock = "open" => conf = l[1]

(* Until the process ends, a client whose connection is intact leaves its  *)
(* manager in one way only: it was accepted but taken by no group when all *)
(* groups of its reloaded manager ended, and goes with the list.  A reload *)
(* cuts no client that a group holds, and none that one can still take.    *)
ReloadCutsOnlyQueued ==
    [][\A c \in Clients :
         role[c].stage \in {"queued", "held"} /\ role[c].sock = "open" /\ ~main.exiting
            => \/ role'[c].stage \in {"queued", "held"}
               \/ /\ role[c].stage = "queued"
                  /\ role[c].m \in Old /\ WorkersGone(role[c].m)]_vars

(* stop came before the server listened, and main waits for its thread. *)
StopMissed ==
    main.at \in {"join_api", "rejoin_api"} /\ api.at \in {"starting", "listening"}

(* The old manager goes: after a reload it is deleted once its last client *)
(* has left, if it has threads.  With worker_threads 0 it stays until the  *)
(* process ends, because nobody drives its group any more.                 *)
Abandoned ==
    {m \in Old : ~mgr[m].single /\ \A c \in Clients :
        role[c].m = m /\ role[c].stage \in {"queued", "held"} => role[c].sock # "open"}

OldManagerGoes == Abandoned # {} ~> Abandoned = {} \/ StopMissed

(* Once it is asked to, or cannot go on after a reload, the process ends,  *)
(* whatever its workers and the API are in the middle of, and no thread of *)
(* any manager is left when libsrt and the configuration are released.  It *)
(* does not if the API server is stopped before it listens.                *)
ShutsDown ==
    MainAt("stop_api") \/ main.exiting
        ~> \/ MainAt("done") /\ \A w \in Workers : HasThread(w) => ~Exists(w)
           \/ StopMissed
=============================================================================
