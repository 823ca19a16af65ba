---------------------------- MODULE ManagerProofs ----------------------------
(***************************************************************************)
(* The safety of main and its managers, for any number of reloads, threads *)
(* of each manager, connections and clients.                               *)
(***************************************************************************)
EXTENDS Manager, TLAPS, FiniteSetTheorems

Labels == {"database", "loop", "single", "check", "reload", "configure", "start", "restart_api",
           "rejoin_api", "stop_api", "join_api", "exit", "stop", "join", "done"}
Stages == {"none", "current", "old", "deleted"}
MgrRec == [stage : Stages, single : BOOLEAN, maps : BOOLEAN, servers : Seq(Listeners),
           list : Seq(Roles), reload : BOOLEAN]
RoleRec == [stage : {"none", "queued", "held", "deleted"}, sock : {"open", "closed", "broken"},
            m : Managers \cup {None}, w : Nat]
WorkerRec == [at : {"none", "top", "handler", "idle_check", "exited", "deleted"},
              m_exit : BOOLEAN]

MainType ==
    main \in [at : Labels, m : Managers, w : Workers, unchecked : SUBSET Managers,
              exiting : BOOLEAN]

Types ==
    /\ conf \in Managers \cup {None}
    /\ mgr \in [Managers -> MgrRec] /\ role \in [Roles -> RoleRec]
    /\ worker \in [Workers -> WorkerRec]
    /\ MainType
    /\ api \in [m : Managers \cup {None}, at : {"starting", "listening", "ended"}]
    /\ call \in Managers \cup {None}

(* Where main is and which managers there are: they are started in order,  *)
(* the current one is the newest, and main stops an old one without        *)
(* workers unless the process ends.                                        *)
Stopping == main.at \in {"stop", "join"}

InOrder ==
    \A m, n \in Managers :
      m < n /\ mgr[m].stage \in {"none", "current"} => mgr[n].stage = "none"

Reloading ==
    /\ main.at \in {"reload", "configure", "start"} =>
         /\ mgr[main.m].stage # "none" /\ main.m + 1 \in Managers
         /\ mgr[main.m + 1].stage = "none"
    /\ main.at = "reload" => mgr[main.m].stage = "current"
    /\ main.at \in {"configure", "start"} => \A m \in Managers : mgr[m].stage # "current"
    /\ main.at = "start" => conf = main.m + 1
    /\ main.at \in {"restart_api", "rejoin_api"} =>
         conf \in Managers /\ mgr[conf].stage = "current"

Ending ==
    /\ main.exiting => main.at \in {"exit", "stop", "join", "done"}
    /\ main.at \in {"exit", "done"} => main.exiting
    /\ Stopping => mgr[main.m].stage \in {"current", "old"}
    /\ main.at = "join" => main.w[1] = main.m

Checking ==
    /\ main.at = "check" => \A m \in main.unchecked : mgr[m].stage = "old"
    /\ Stopping /\ ~main.exiting =>
         /\ mgr[main.m].stage = "old" /\ WorkersGone(main.m) /\ main.m \notin main.unchecked
         /\ \A m \in main.unchecked : mgr[m].stage = "old"

Control == InOrder /\ Reloading /\ Ending /\ Checking

(* Workers and what they use. *)
Unstarted ==
    \A w \in Workers : mgr[w[1]].stage = "none" => worker[w] = NoWorker

Maps ==
    /\ \A m \in Managers : mgr[m].stage \in {"current", "old"} =>
         mgr[m].maps \/ (Stopping /\ m = main.m)
    /\ \A w \in Workers : Exists(w) => mgr[w[1]].maps
    /\ \A m \in Managers : mgr[m].stage = "deleted" => WorkersGone(m)

Threadless ==
    \A w \in Workers : ~HasThread(w) =>
      /\ Exists(w) => w[2] = 1
      /\ worker[w].at \in {"handler", "idle_check"} =>
           main.at = "single" /\ mgr[w[1]].stage = "current"

ToldToExit ==
    \A w \in Workers : worker[w].m_exit =>
      /\ mgr[w[1]].servers = <<>>
      /\ main.exiting \/ worker[w].at \in {"exited", "deleted"}

WorkerInv == Unstarted /\ Maps /\ Threadless /\ ToldToExit

(* Listeners. *)
ServersInv ==
    \A m \in Managers :
      /\ mgr[m].servers \in {<<>>, <<<<m, "publisher">>>>, <<<<m, "player">>>>, ListenersOf(m)}
      /\ mgr[m].servers # <<>> => mgr[m].stage = "current" /\ conf = m
      /\ mgr[m].reload => mgr[m].servers = <<>>

OpenInv ==
    /\ \A m \in Managers : \A l \in In(mgr[m].servers) :
         role[l].stage \in {"queued", "held"} /\ role[l].sock = "open" /\ role[l].m = m
    /\ \A l \in Listeners :
         role[l].stage \in {"queued", "held"} /\ role[l].sock = "open"
           => l \in In(mgr[l[1]].servers)

(* Roles. *)
ListInv ==
    \A m \in Managers : \A i \in DOMAIN mgr[m].list :
      /\ role[mgr[m].list[i]].stage = "queued" /\ role[mgr[m].list[i]].m = m
      /\ \A j \in DOMAIN mgr[m].list : mgr[m].list[i] = mgr[m].list[j] => i = j

OwnInv ==
    \A l \in Listeners : role[l].stage \in {"queued", "held"} => role[l].m = l[1]

QueuedInv ==
    \A r \in Roles : role[r].stage = "queued" =>
      /\ role[r].m \in Managers /\ mgr[role[r].m].stage \in {"current", "old"}
      /\ r \in In(mgr[role[r].m].list)

HeldInv ==
    \A r \in Roles : role[r].stage = "held" =>
      LET w == <<role[r].m, role[r].w>> IN
      /\ w \in Workers
      /\ \/ worker[w].at \in {"top", "handler", "idle_check"}
         \/ worker[w].at = "deleted" /\ mgr[w[1]].single

(* The API. *)
ApiInv ==
    /\ call \in {None, api.m}
    /\ main.at = "database" => mgr[1].stage = "current"
    /\ api.at # "ended" \/ call # None =>
         /\ ~main.exiting /\ main.at # "database"
         /\ api.m \in Managers /\ mgr[api.m].stage \in {"current", "old"}
         /\ main.at \in {"loop", "single", "check", "reload", "stop", "join"}
              => mgr[api.m].stage = "current"

MInv ==
    /\ Types /\ Control /\ WorkerInv
    /\ ServersInv /\ OpenInv /\ ListInv /\ OwnInv /\ QueuedInv /\ HeldInv /\ ApiInv
-----------------------------------------------------------------------------
(* Facts about the constants and about helpers.                            *)
LEMMA ManagersAre ==
    /\ Managers \subseteq Nat \ {0} /\ 1 \in Managers /\ None \notin Managers
    /\ \A m \in Managers, k \in Nat \ {0} : k <= m => k \in Managers
<1>1. Cardinality(Managers) \in Nat
  BY FS_CardinalityType, ManagerAssumption
<1> QED BY <1>1, ManagerAssumption DEF None

LEMMA WorkersAre ==
    /\ \A w \in Workers : w[1] \in Managers /\ w[2] \in Nat /\ w = <<w[1], w[2]>>
    /\ \A m \in Managers : WorkersOf(m) \subseteq Workers /\ <<m, 1>> \in WorkersOf(m)
    /\ \A m \in Managers : \A w \in Workers : w \in WorkersOf(m) <=> w[1] = m
<1>1. \A m \in Managers : Threads[m] \in Nat \ {0} /\ 1 \in 1..Threads[m]
  BY ManagerAssumption
<1> QED BY <1>1 DEF Workers, WorkersOf

LEMMA ListenersAre ==
    /\ \A l \in Listeners : l[1] \in Managers
    /\ \A m \in Managers : <<m, "publisher">> \in Listeners /\ <<m, "player">> \in Listeners
                           /\ <<m, "publisher">> # <<m, "player">>
    /\ Listeners \cap Clients = {}
BY ManagerAssumption DEF Listeners

(* The listeners a start leaves, whether it fails or not. *)
Servers(m) == {<<>>, <<<<m, "publisher">>>>, ListenersOf(m)}

LEMMA ShortSeqs ==
    ASSUME NEW S, NEW a \in S, NEW b \in S
    PROVE  <<>> \in Seq(S) /\ <<a>> \in Seq(S) /\ <<a, b>> \in Seq(S)
OBVIOUS

LEMMA ServersAre ==
    ASSUME NEW m \in Managers, NEW ls \in Servers(m)
    PROVE  ls \in Seq(Listeners) /\ ls \in Seq(Roles)
<1> DEFINE p == <<m, "publisher">>  q == <<m, "player">>
<1>1. p \in Listeners /\ q \in Listeners /\ p \in Roles /\ q \in Roles
  BY ListenersAre DEF Roles
<1>2. ls \in {<<>>, <<p>>, <<p, q>>}
  BY DEF Servers, ListenersOf
<1> HIDE DEF p, q
<1> QED BY <1>1, <1>2, ShortSeqs

(* However start ends, it is a Started with some of the listeners and some *)
(* of the groups.                                                          *)
LEMMA StartIs ==
    ASSUME Start, conf \in Managers
    PROVE  \E single \in BOOLEAN, ls \in Servers(conf) : \E ws \in SUBSET Groups(conf, single) :
             Started(conf, single, ls, ws)
<1>1. CASE StartOk(conf)
  BY <1>1 DEF StartOk, Servers
<1>2. CASE StartFails(conf)
  <2>1. CASE \E single \in BOOLEAN, n \in 0..(Threads[conf] - 1) :
               Started(conf, single, ListenersOf(conf), IF single THEN {} ELSE {conf} \X (1..n))
    <3>1. PICK single \in BOOLEAN, n \in 0..(Threads[conf] - 1) :
               Started(conf, single, ListenersOf(conf), IF single THEN {} ELSE {conf} \X (1..n))
      BY <2>1
    <3>2. (IF single THEN {} ELSE {conf} \X (1..n)) \subseteq Groups(conf, single)
      BY ManagerAssumption DEF Groups, WorkersOf
    <3> QED BY <3>1, <3>2 DEF Servers
  <2>2. CASE \E ls \in {<<>>, <<<<conf, "publisher">>>>} : Started(conf, FALSE, ls, {})
    BY <2>2 DEF Servers
  <2> QED BY <1>2, <2>1, <2>2 DEF StartFails
<1> QED BY <1>1, <1>2 DEF Start
-----------------------------------------------------------------------------
(* Types. *)
LEMMA InitTypes == ASSUME Init PROVE Types
<1>1. conf \in Managers \cup {None} /\ call \in Managers \cup {None}
      /\ api \in [m : Managers \cup {None}, at : {"starting", "listening", "ended"}]
  BY ManagersAre DEF Init
<1>2. ListenersOf(1) \in Seq(Listeners) /\ ListenersOf(1) \in Seq(Roles) /\ <<>> \in Seq(Listeners)
      /\ <<>> \in Seq(Roles)
  BY ManagersAre, ServersAre DEF Servers
<1>3. mgr \in [Managers -> MgrRec]
  <2>1. NoMgr \in MgrRec
    BY <1>2 DEF NoMgr, MgrRec, Stages
  <2>2. \A single \in BOOLEAN :
          [stage |-> "current", single |-> single, maps |-> TRUE,
           servers |-> ListenersOf(1), list |-> ListenersOf(1), reload |-> FALSE] \in MgrRec
    BY <1>2 DEF MgrRec, Stages
  <2> QED BY <2>1, <2>2 DEF Init
<1>4. role \in [Roles -> RoleRec]
  <2>1. NoRole \in RoleRec /\ [NoRole EXCEPT !.stage = "queued", !.m = 1] \in RoleRec
    BY ManagersAre DEF NoRole, RoleRec, None
  <2> QED BY <2>1 DEF Init
<1>5. worker \in [Workers -> WorkerRec]
  <2>1. NoWorker \in WorkerRec /\ [NoWorker EXCEPT !.at = "top"] \in WorkerRec
    BY DEF NoWorker, WorkerRec
  <2> QED BY <2>1 DEF Init
<1>6. <<1, 1>> \in Workers
  BY ManagersAre, WorkersAre
<1>7. MainType
  BY <1>6, ManagersAre DEF Init, Labels, MainType
<1> QED BY <1>1, <1>3, <1>4, <1>5, <1>7 DEF Types

LEMMA StartedTypes ==
    ASSUME Types, conf \in Managers, NEW single \in BOOLEAN, NEW ls \in Servers(conf),
           NEW ws \in SUBSET Groups(conf, single), Started(conf, single, ls, ws)
    PROVE  mgr' \in [Managers -> MgrRec] /\ role' \in [Roles -> RoleRec]
           /\ worker' \in [Workers -> WorkerRec]
<1>1. ls \in Seq(Listeners) /\ ls \in Seq(Roles)
  BY ServersAre
<1>2. [stage |-> "current", single |-> single, maps |-> TRUE,
       servers |-> ls, list |-> ls, reload |-> FALSE] \in MgrRec
  BY <1>1 DEF MgrRec, Stages
<1>3. mgr' \in [Managers -> MgrRec]
  BY <1>2 DEF Types, Started
<1>4. [NoRole EXCEPT !.stage = "queued", !.m = conf] \in RoleRec
  BY DEF NoRole, RoleRec, None
<1>5. role' \in [Roles -> RoleRec]
  BY <1>4 DEF Types, Started
<1>6. [NoWorker EXCEPT !.at = "top"] \in WorkerRec
  BY DEF NoWorker, WorkerRec
<1>7. worker' \in [Workers -> WorkerRec]
  BY <1>6 DEF Types, Started
<1> QED BY <1>3, <1>5, <1>7

(* One field of one record. *)
LEMMA DeletedType ==
    ASSUME Types, NEW rs
    PROVE  Deleted(rs) \in [Roles -> RoleRec]
<1>1. DeletedRole \in RoleRec
  BY DEF DeletedRole, NoRole, RoleRec, None
<1> QED BY <1>1 DEF Deleted, Types

LEMMA RoleUpdates ==
    ASSUME Types, NEW r \in Roles, NEW sock \in {"open", "closed", "broken"}
    PROVE  [role EXCEPT ![r].sock = sock] \in [Roles -> RoleRec]
BY DEF Types, RoleRec

LEMMA WorkerUpdates ==
    ASSUME Types, NEW w, NEW at \in {"none", "top", "handler", "idle_check", "exited", "deleted"}
    PROVE  [worker EXCEPT ![w].at = at] \in [Workers -> WorkerRec]
BY DEF Types, WorkerRec

LEMMA MgrUpdates ==
    ASSUME Types, NEW m
    PROVE  /\ \A q \in Seq(Listeners) : [mgr EXCEPT ![m].servers = q] \in [Managers -> MgrRec]
           /\ \A q \in Seq(Roles) : [mgr EXCEPT ![m].list = q] \in [Managers -> MgrRec]
           /\ [mgr EXCEPT ![m].stage = "old", ![m].reload = TRUE] \in [Managers -> MgrRec]
           /\ [mgr EXCEPT ![m].maps = FALSE] \in [Managers -> MgrRec]
           /\ \A q \in Seq(Roles) :
                [mgr EXCEPT ![m].stage = "deleted", ![m].list = q] \in [Managers -> MgrRec]
<1>1. ASSUME NEW f \in MgrRec
      PROVE  /\ \A q \in Seq(Listeners) : [f EXCEPT !.servers = q] \in MgrRec
             /\ \A q \in Seq(Roles) : [f EXCEPT !.list = q] \in MgrRec
             /\ [f EXCEPT !.stage = "old", !.reload = TRUE] \in MgrRec
             /\ [f EXCEPT !.maps = FALSE] \in MgrRec
             /\ \A q \in Seq(Roles) : [f EXCEPT !.stage = "deleted", !.list = q] \in MgrRec
  <2>1. \A q \in Seq(Listeners) : [f EXCEPT !.servers = q] \in MgrRec
    BY DEF MgrRec
  <2>2. \A q \in Seq(Roles) : [f EXCEPT !.list = q] \in MgrRec
    BY DEF MgrRec
  <2>3. [f EXCEPT !.stage = "old", !.reload = TRUE] \in MgrRec
    BY DEF MgrRec, Stages
  <2>4. [f EXCEPT !.maps = FALSE] \in MgrRec
    BY DEF MgrRec
  <2>5. \A q \in Seq(Roles) : [f EXCEPT !.stage = "deleted", !.list = q] \in MgrRec
    BY DEF MgrRec, Stages
  <2> QED BY <2>1, <2>2, <2>3, <2>4, <2>5
<1> QED BY <1>1 DEF Types

LEMMA Tails ==
    ASSUME NEW S, NEW q \in Seq(S), q # <<>>
    PROVE  Head(q) \in S /\ Tail(q) \in Seq(S)
OBVIOUS

LEMMA MainUpdates ==
    ASSUME Types, NEW at \in Labels, NEW m \in Managers, NEW w \in Workers, NEW u \in SUBSET Managers,
           NEW e \in BOOLEAN,
           \/ main' = [main EXCEPT !.at = at]
           \/ main' = [main EXCEPT !.at = at, !.m = m]
           \/ main' = [main EXCEPT !.at = at, !.w = w]
           \/ main' = [main EXCEPT !.at = at, !.unchecked = u]
           \/ main' = [main EXCEPT !.unchecked = u, !.m = m, !.at = at]
           \/ main' = [main EXCEPT !.at = at, !.exiting = e]
    PROVE  MainType'
BY ZenonT(60) DEF Types, MainType

LEMMA TypesNext == ASSUME Types, Control, [Next]_vars PROVE Types'
<1> USE DEF Types, MainType
<1>1. ASSUME NEW w \in Workers, LeaveLoop(w) PROVE Types'
  <2>1. role' \in [Roles -> RoleRec]
    BY <1>1, DeletedType DEF LeaveLoop
  <2>2. worker' \in [Workers -> WorkerRec]
    BY <1>1 DEF LeaveLoop, WorkerRec
  <2> QED BY <1>1, <2>1, <2>2 DEF LeaveLoop
<1>2. ASSUME NEW w \in Workers, BeginHandler(w) PROVE Types'
  BY <1>2, WorkerUpdates DEF BeginHandler, WorkerGoto
<1>3. ASSUME NEW w \in Workers, EndHandler(w) PROVE Types'
  <2>1. worker' \in [Workers -> WorkerRec] /\ UNCHANGED <<conf, main, api, call>>
    BY <1>3, WorkerUpdates DEF EndHandler, WorkerGoto
  <2>2. CASE UNCHANGED <<role, mgr>>
    BY <2>1, <2>2
  <2>3. CASE ~UNCHANGED <<role, mgr>>
    <3>1. PICK c \in NewClients :
            /\ role' = [role EXCEPT ![c] = [NoRole EXCEPT !.stage = "queued", !.m = w[1]]]
            /\ mgr' = [mgr EXCEPT ![w[1]].list = Append(@, c)]
      BY <1>3, <2>3 DEF EndHandler
    <3>2. [NoRole EXCEPT !.stage = "queued", !.m = w[1]] \in RoleRec
      BY WorkersAre DEF NoRole, RoleRec, None
    <3>3. Append(mgr[w[1]].list, c) \in Seq(Roles) /\ mgr' = [mgr EXCEPT ![w[1]].list = Append(mgr[w[1]].list, c)]
      BY <3>1, WorkersAre DEF MgrRec, NewClients, Roles
    <3>4. mgr' \in [Managers -> MgrRec]
      BY <3>3, MgrUpdates
    <3> QED BY <2>1, <3>1, <3>2, <3>4
  <2> QED BY <2>2, <2>3
<1>4. ASSUME NEW w \in Workers, IdleCheck(w) PROVE Types'
  <2>1. worker' \in [Workers -> WorkerRec] /\ UNCHANGED <<conf, api, call>>
    BY <1>4, WorkerUpdates DEF IdleCheck, WorkerGoto
  <2>2. MainType'
    BY <1>4, MainUpdates DEF IdleCheck, CheckOld, Old, Labels
  <2>3. Deleted(Broken(w)) \in [Roles -> RoleRec]
    BY DeletedType
  <2>4. CASE role' = Deleted(Broken(w)) /\ UNCHANGED mgr
    BY <2>1, <2>2, <2>3, <2>4
  <2>5. CASE /\ mgr[w[1]].list # <<>>
             /\ Popped(w, Head(mgr[w[1]].list), Deleted(Broken(w)))
             /\ mgr' = [mgr EXCEPT ![w[1]].list = Tail(@)]
    <3>1. mgr[w[1]].list \in Seq(Roles) /\ w[2] \in Nat
      BY WorkersAre DEF MgrRec
    <3>2. Head(mgr[w[1]].list) \in Roles /\ Tail(mgr[w[1]].list) \in Seq(Roles)
      BY <2>5, <3>1, Tails
    <3>3. mgr' \in [Managers -> MgrRec]
      BY <2>5, <3>2, MgrUpdates
    <3>4. DeletedRole \in RoleRec
      BY DEF DeletedRole, NoRole, RoleRec, None
    <3>5. \A f \in RoleRec : [f EXCEPT !.stage = "held", !.w = w[2]] \in RoleRec
      BY <3>1 DEF RoleRec
    <3>6. role' \in [Roles -> RoleRec]
      <4> DEFINE q == Head(mgr[w[1]].list)
                 d == Deleted(Broken(w))
      <4>1. \/ role' = [d EXCEPT ![q] = [d[q] EXCEPT !.stage = "held", !.w = w[2]]]
            \/ role' = [d EXCEPT ![q] = DeletedRole]
        BY <2>5 DEF Popped
      <4>2. d \in [Roles -> RoleRec] /\ q \in Roles
        BY <2>3, <3>2
      <4> HIDE DEF d, q
      <4> DEFINE taken == [d[q] EXCEPT !.stage = "held", !.w = w[2]]
      <4>3. d[q] \in RoleRec
        BY <4>2
      <4>4. taken \in RoleRec
        BY <3>5, <4>3
      <4>5. role' = [d EXCEPT ![q] = taken] \/ role' = [d EXCEPT ![q] = DeletedRole]
        BY <4>1
      <4> HIDE DEF taken
      <4> QED BY <3>4, <4>2, <4>4, <4>5
    <3> QED BY <2>1, <2>2, <3>3, <3>6
  <2> QED BY <1>4, <2>4, <2>5 DEF IdleCheck
<1>5. CASE ApiListen
  BY <1>5 DEF ApiListen
<1>6. CASE ApiBegin \/ ApiEnd
  BY <1>6 DEF ApiBegin, ApiEnd
<1>7. ASSUME NEW c \in Clients, ClientBreaks(c) PROVE Types'
  BY <1>7, RoleUpdates DEF ClientBreaks, Roles
<1>8. CASE Database
  <2>1. MainType'
    BY <1>8, MainUpdates DEF Database, Goto, GotoExit, Labels
  <2> QED BY <1>8, <2>1, ManagersAre DEF Database, NewApi
<1>9. CASE Loop
  <2>1. MainType'
    BY <1>9, MainUpdates DEF Loop, Goto, CheckOld, Old, Labels
  <2> QED BY <1>9, <2>1 DEF Loop
<1>10. CASE Checked
  <2>1. MainType'
    BY <1>10, MainUpdates DEF Checked, Goto, Current, Labels
  <2> QED BY <1>10, <2>1 DEF Checked
<1>11. ASSUME NEW m \in Old, CheckInvalid(m) PROVE Types'
  <2>1. worker' \in [Workers -> WorkerRec]
    BY <1>11 DEF CheckInvalid, WorkerRec
  <2>2. MainType'
    <3> DEFINE a == IF \E w \in WorkersOf(m) : Exists(w) /\ ~Exited(w) THEN "check" ELSE "stop"
    <3>1. a \in Labels /\ main.unchecked \ {m} \in SUBSET Managers /\ m \in Managers
      BY DEF Labels, Old
    <3>2. main' = [main EXCEPT !.unchecked = main.unchecked \ {m}, !.m = m, !.at = a]
      BY <1>11 DEF CheckInvalid
    <3> HIDE DEF a
    <3> QED BY <3>1, <3>2
  <2> QED BY <1>11, <2>1, <2>2 DEF CheckInvalid
<1>12. CASE CloseServer
  <2> DEFINE q == mgr[main.m].servers
  <2>1. q \in Seq(Listeners) /\ q # <<>>
    BY <1>12 DEF CloseServer, MgrRec
  <2>2. Head(q) \in Roles /\ Tail(q) \in Seq(Listeners)
    BY <2>1, Tails DEF Roles
  <2>3. role' = [role EXCEPT ![Head(q)].sock = "closed"]
        /\ mgr' = [mgr EXCEPT ![main.m].servers = Tail(q)]
    BY <1>12 DEF CloseServer, UninitServer, Uninit
  <2>4. role' \in [Roles -> RoleRec] /\ mgr' \in [Managers -> MgrRec]
    BY <2>2, <2>3, RoleUpdates, MgrUpdates
  <2> QED BY <1>12, <2>4 DEF CloseServer
<1>13. CASE FlagGroups
  <2>1. MainType'
    BY <1>13, MainUpdates DEF FlagGroups, Goto, Labels
  <2>2. mgr' \in [Managers -> MgrRec]
    BY <1>13, MgrUpdates DEF FlagGroups, Reloaded
  <2> QED BY <1>13, <2>1, <2>2 DEF FlagGroups
<1>14. CASE Configure
  <2>1. MainType'
    BY <1>14, MainUpdates DEF Configure, Goto, Labels
  <2> QED BY <1>14, <2>1 DEF Configure, Control, Reloading, MainAt
<1>15. CASE Start
  <2>1. MainType'
    BY <1>15, MainUpdates DEF Start, Goto, AfterStart, Labels
  <2>2. conf \in Managers
    BY <1>15 DEF Start, MainAt, Control, Reloading
  <2>3. mgr' \in [Managers -> MgrRec] /\ role' \in [Roles -> RoleRec]
        /\ worker' \in [Workers -> WorkerRec]
    BY <1>15, <2>2, StartIs, StartedTypes
  <2> QED BY <1>15, <2>1, <2>3 DEF Start
<1>16. CASE ApiStop
  <2>1. MainType'
    BY <1>16, MainUpdates DEF ApiStop, Goto, Labels
  <2> QED BY <1>16, <2>1 DEF ApiStop
<1>17. CASE RestartApi
  <2>1. MainType'
    BY <1>17, MainUpdates DEF RestartApi, Goto, Labels
  <2> QED BY <1>17, <2>1 DEF RestartApi, NewApi
<1>18. CASE JoinApi
  <2>1. MainType'
    BY <1>18, MainUpdates DEF JoinApi, GotoExit, Labels
  <2> QED BY <1>18, <2>1 DEF JoinApi
<1>19. CASE NextWorker
  <2>1. PICK w \in WorkersOf(main.m) :
          /\ worker' = [worker EXCEPT ![w].m_exit = @ \/ HasThread(w)]
          /\ main' = [main EXCEPT !.at = "join", !.w = w]
    BY <1>19 DEF NextWorker
  <2>2. w \in Workers /\ "join" \in Labels
    BY WorkersAre DEF Labels
  <2>3. MainType'
    BY <2>1, <2>2
  <2>4. worker' \in [Workers -> WorkerRec]
    <3> DEFINE e == worker[w].m_exit \/ HasThread(w)
    <3>1. e \in BOOLEAN
      OBVIOUS
    <3>2. worker' = [worker EXCEPT ![w].m_exit = e]
      BY <2>1
    <3> HIDE DEF e
    <3> QED BY ZenonT(60), <3>1, <3>2 DEF WorkerRec
  <2> QED BY <1>19, <2>3, <2>4 DEF NextWorker
<1>20. CASE JoinWorker
  <2>1. MainType'
    BY <1>20, MainUpdates DEF JoinWorker, Goto, Labels
  <2>2. worker' \in [Workers -> WorkerRec]
    BY <1>20, WorkerUpdates DEF JoinWorker, WorkerGoto
  <2> QED BY <1>20, <2>1, <2>2 DEF JoinWorker
<1>21. CASE DeleteMaps
  <2>1. mgr' \in [Managers -> MgrRec]
    BY <1>21, MgrUpdates DEF DeleteMaps
  <2> QED BY <1>21, <2>1 DEF DeleteMaps
<1>22. CASE Erase
  <2>1. MainType'
    BY <1>22, MainUpdates DEF Erase, Goto, Labels
  <2>2. mgr' \in [Managers -> MgrRec]
    <3>1. <<>> \in Seq(Roles)
      OBVIOUS
    <3> QED BY <1>22, <3>1, MgrUpdates DEF Erase
  <2>3. role' \in [Roles -> RoleRec]
    BY <1>22, DeletedType DEF Erase
  <2> QED BY <1>22, <2>1, <2>2, <2>3 DEF Erase
<1>23. CASE Exit
  <2>1. MainType'
    <3>1. CASE CurrentThenOld # {}
      <4>1. PICK m \in CurrentThenOld : main' = [main EXCEPT !.at = "stop", !.m = m]
        BY <1>23, <3>1 DEF Exit
      <4>2. m \in Managers
        BY DEF CurrentThenOld, Current, Old
      <4> QED BY <4>1, <4>2 DEF Labels
    <3>2. CASE CurrentThenOld = {}
      BY <1>23, <3>2, MainUpdates DEF Exit, Goto, Labels
    <3> QED BY <3>1, <3>2
  <2> QED BY <1>23, <2>1 DEF Exit
<1>24. CASE UNCHANGED vars
  BY <1>24 DEF vars
<1> QED BY <1>1, <1>2, <1>3, <1>4, <1>5, <1>6, <1>7, <1>8, <1>9, <1>10, <1>11, <1>12, <1>13,
           <1>14, <1>15, <1>16, <1>17, <1>18, <1>19, <1>20, <1>21, <1>22, <1>23, <1>24
     DEF Next, MainStep, WorkerStep
-----------------------------------------------------------------------------
(* Where main is. *)
StagesKept == \A m \in Managers : mgr'[m].stage = mgr[m].stage
NoNewWorker == \A w \in Workers : ~Exists(w) => worker'[w].at \in {"none", "deleted"}

(* Workers and clients make no manager and no worker. *)
LEMMA FieldsKept ==
    ASSUME Types,
           \E m, q : \/ mgr' = mgr \/ mgr' = [mgr EXCEPT ![m].list = q]
                    \/ mgr' = [mgr EXCEPT ![m].servers = q] \/ mgr' = [mgr EXCEPT ![m].maps = q]
    PROVE  StagesKept
<1>1. PICK m, q : \/ mgr' = mgr \/ mgr' = [mgr EXCEPT ![m].list = q]
                  \/ mgr' = [mgr EXCEPT ![m].servers = q] \/ mgr' = [mgr EXCEPT ![m].maps = q]
  OBVIOUS
<1>2. CASE mgr' = mgr
  BY <1>2 DEF StagesKept
<1>3. CASE mgr' = [mgr EXCEPT ![m].list = q]
  BY <1>3 DEF StagesKept, Types, MgrRec
<1>4. CASE mgr' = [mgr EXCEPT ![m].servers = q]
  BY <1>4 DEF StagesKept, Types, MgrRec
<1>5. CASE mgr' = [mgr EXCEPT ![m].maps = q]
  BY <1>5 DEF StagesKept, Types, MgrRec
<1> QED BY <1>1, <1>2, <1>3, <1>4, <1>5

LEMMA OthersKeep ==
    ASSUME Types,
           (\E w \in Workers : WorkerStep(w)) \/ ApiListen \/ ApiBegin \/ ApiEnd
             \/ (\E c \in Clients : ClientBreaks(c)) \/ UNCHANGED vars
    PROVE  StagesKept /\ NoNewWorker /\ conf' = conf
<1> USE DEF Types, StagesKept, NoNewWorker, Exists
<1>1. ASSUME NEW w \in Workers, LeaveLoop(w) PROVE StagesKept /\ NoNewWorker /\ conf' = conf
  BY <1>1 DEF LeaveLoop
<1>2. ASSUME NEW w \in Workers, BeginHandler(w) PROVE StagesKept /\ NoNewWorker /\ conf' = conf
  BY <1>2 DEF BeginHandler, InRound, WorkerGoto, WorkerRec
<1>3. ASSUME NEW w \in Workers, EndHandler(w) PROVE StagesKept /\ NoNewWorker /\ conf' = conf
  <2>1. NoNewWorker /\ conf' = conf
    BY <1>3 DEF EndHandler, WorkerGoto, WorkerRec
  <2>2. \E m, q : mgr' = mgr \/ mgr' = [mgr EXCEPT ![m].list = q]
    BY <1>3 DEF EndHandler
  <2>3. StagesKept
    <3> HIDE DEF Types, StagesKept
    <3> QED BY <2>2, FieldsKept
  <2> QED BY <2>1, <2>3
<1>4. ASSUME NEW w \in Workers, IdleCheck(w) PROVE StagesKept /\ NoNewWorker /\ conf' = conf
  <2>1. NoNewWorker /\ conf' = conf
    BY <1>4 DEF IdleCheck, InRound, WorkerGoto, WorkerRec
  <2>2. \E m, q : mgr' = mgr \/ mgr' = [mgr EXCEPT ![m].list = q]
    BY <1>4 DEF IdleCheck
  <2>3. StagesKept
    <3> HIDE DEF Types, StagesKept
    <3> QED BY <2>2, FieldsKept
  <2> QED BY <2>1, <2>3
<1>5. CASE ApiListen \/ ApiBegin \/ ApiEnd
  BY <1>5 DEF ApiListen, ApiBegin, ApiEnd
<1>6. ASSUME NEW c \in Clients, ClientBreaks(c) PROVE StagesKept /\ NoNewWorker /\ conf' = conf
  BY <1>6 DEF ClientBreaks
<1>7. CASE UNCHANGED vars
  BY <1>7 DEF vars
<1> QED BY <1>1, <1>2, <1>3, <1>4, <1>5, <1>6, <1>7 DEF WorkerStep

LEMMA QuietControl ==
    ASSUME Types, Control, StagesKept, NoNewWorker, UNCHANGED <<conf, main>>
    PROVE  Control'
<1> USE DEF Types, MainType, StagesKept, NoNewWorker
<1>1. InOrder'
  BY DEF Control, InOrder
<1>2. Reloading'
  BY DEF Control, Reloading
<1>3. Ending'
  BY DEF Control, Ending, Stopping
<1>4. WorkersGone(main.m) => WorkersGone(main.m)'
  BY WorkersAre DEF WorkersGone, Exists
<1>5. Checking'
  BY <1>4 DEF Control, Checking, Stopping
<1> QED BY <1>1, <1>2, <1>3, <1>5 DEF Control

(* A group without a thread is in its round only while main drives it. *)
LEMMA DrivenBySingle ==
    ASSUME Types, Threadless, NEW w \in Workers, ~HasThread(w), IdleCheck(w)
    PROVE  main.at = "single" /\ mgr[w[1]].stage = "current"
BY DEF Threadless, IdleCheck, InRound, Runs, MainAt

LEMMA WorkersControl ==
    ASSUME Types, Control, Threadless,
           (\E w \in Workers : WorkerStep(w)) \/ ApiListen \/ ApiBegin \/ ApiEnd
             \/ (\E c \in Clients : ClientBreaks(c)) \/ UNCHANGED vars
    PROVE  Control'
<1>1. StagesKept /\ NoNewWorker /\ conf' = conf
  BY OthersKeep
<1>2. CASE main' = main
  BY <1>1, <1>2, QuietControl
<1>3. CASE main' # main
  <2>1. PICK w \in Workers : IdleCheck(w) /\ ~HasThread(w) /\ CheckOld
    BY <1>3 DEF WorkerStep, LeaveLoop, BeginHandler, EndHandler, IdleCheck, ApiListen, ApiBegin,
                ApiEnd, ClientBreaks, vars
  <2>2. main.at = "single"
    BY <2>1, DrivenBySingle
  <2>3. main'.at = "check" /\ main'.unchecked = Old /\ main'.m = main.m /\ main'.exiting = main.exiting
    BY <2>1 DEF CheckOld, Types, MainType
  <2>4. InOrder'
    BY <1>1 DEF Control, InOrder, StagesKept
  <2>5. Reloading' /\ Ending'
    BY <2>2, <2>3 DEF Reloading, Ending, Stopping, Control
  <2>6. Checking'
    BY <1>1, <2>3 DEF Checking, Stopping, Old, StagesKept
  <2> QED BY <2>4, <2>5, <2>6 DEF Control
<1> QED BY <1>2, <1>3

LEMMA MainControl ==
    ASSUME MInv, MainStep
    PROVE  Control'
<1> USE DEF MInv, Types, MainType, MainAt
<1>1. CASE Database \/ Loop \/ ApiStop \/ RestartApi \/ JoinApi
  <2>1. StagesKept /\ conf' = conf
    BY <1>1 DEF Database, Loop, ApiStop, RestartApi, JoinApi, StagesKept
  <2>2. InOrder'
    BY <2>1 DEF Control, InOrder, StagesKept
  <2>3. Reloading'
    BY ZenonT(60), <1>1, <2>1 DEF Database, Loop, ApiStop, RestartApi, JoinApi, Goto, GotoExit, CheckOld,
                      Control, Reloading, Ending, StagesKept
  <2>4. Ending'
    BY ZenonT(60), <1>1, <2>1 DEF Database, Loop, ApiStop, RestartApi, JoinApi, Goto, GotoExit, CheckOld,
                      Control, Ending, Stopping, StagesKept
  <2>5. Checking'
    <3>1. /\ main'.at \notin {"stop", "join"}
          /\ main'.at = "check" => \A m \in main'.unchecked : m \in Managers /\ mgr[m].stage = "old"
      <4>1. CASE CheckOld
        BY <4>1 DEF CheckOld, Old
      <4>2. CASE GotoExit
        BY <4>2 DEF GotoExit
      <4>3. CASE \E a \in {"loop", "stop_api", "single", "join_api", "rejoin_api"} : Goto(a)
        BY <4>3 DEF Goto
      <4> QED BY <1>1, <4>1, <4>2, <4>3 DEF Database, Loop, ApiStop, RestartApi, JoinApi
    <3> QED BY <2>1, <3>1 DEF Checking, Stopping, StagesKept
  <2> QED BY <2>2, <2>3, <2>4, <2>5 DEF Control
<1>2. CASE CloseServer \/ DeleteMaps
  <2>1. StagesKept /\ NoNewWorker /\ UNCHANGED <<conf, main>>
    <3>1. NoNewWorker /\ UNCHANGED <<conf, main>>
      BY <1>2 DEF CloseServer, DeleteMaps, NoNewWorker, Exists
    <3>2. \E m, q : mgr' = [mgr EXCEPT ![m].servers = q] \/ mgr' = [mgr EXCEPT ![m].maps = q]
      BY <1>2 DEF CloseServer, UninitServer, Uninit, DeleteMaps
    <3>3. StagesKept
      <4> HIDE DEF MInv, Types
      <4>1. Types
        BY DEF MInv
      <4> QED BY <3>2, <4>1, FieldsKept
    <3> QED BY <3>1, <3>3
  <2> QED BY <2>1, QuietControl
<1>3. CASE Checked
  <2>1. StagesKept /\ conf' = conf
    BY <1>3 DEF Checked, StagesKept
  <2>2. InOrder'
    BY <2>1 DEF Control, InOrder, StagesKept
  <2>3. ~main.exiting
    BY <1>3 DEF Checked, Control, Ending
  <2>4. CASE Goto("loop")
    BY <2>1, <2>2, <2>3, <2>4 DEF Goto, Control, Reloading, Ending, Checking, Stopping
  <2>5. CASE Unborn # {} /\ \E m \in Current : main' = [main EXCEPT !.at = "reload", !.m = m]
    <3>1. PICK m \in Current : main' = [main EXCEPT !.at = "reload", !.m = m]
      BY <2>5
    <3>2. PICK n \in Managers : mgr[n].stage = "none"
      BY <2>5 DEF Unborn
    <3>3. m \in Managers /\ mgr[m].stage = "current" /\ m \in Nat \ {0} /\ n \in Nat \ {0}
      BY ManagersAre DEF Current
    <3>4. m < n
      BY <3>2, <3>3 DEF Control, InOrder
    <3>5. m + 1 \in Managers
      BY <3>2, <3>3, <3>4, ManagersAre
    <3>6. mgr[m + 1].stage = "none"
      BY <3>3, <3>5 DEF Control, InOrder
    <3> QED BY <2>1, <2>2, <2>3, <3>1, <3>3, <3>5, <3>6
            DEF Control, Reloading, Ending, Checking, Stopping, StagesKept
  <2> QED BY <1>3, <2>4, <2>5 DEF Checked
<1>4. ASSUME NEW m \in Old, CheckInvalid(m) PROVE Control'
  <2>1. StagesKept /\ conf' = conf /\ m \in Managers /\ mgr[m].stage = "old" /\ ~main.exiting
    BY <1>4 DEF CheckInvalid, StagesKept, Old, Control, Ending
  <2>2. InOrder' /\ m \in Managers
    BY <2>1 DEF Control, InOrder, StagesKept
  <2>3. /\ main'.at \in {"check", "stop"} /\ main'.m = m /\ main'.exiting = FALSE
        /\ main'.unchecked = main.unchecked \ {m}
    BY <1>4, <2>1 DEF CheckInvalid
  <2>4. main'.at = "stop" => WorkersGone(m)'
    <3>1. ASSUME main'.at = "stop", NEW w \in WorkersOf(m) PROVE worker'[w].at \in {"none", "deleted"}
      <4>1. ~Exists(w) \/ Exited(w)
        BY <1>4, <3>1 DEF CheckInvalid
      <4>2. w \in Workers /\ w[1] = m
        BY <2>1, <3>1, WorkersAre
      <4> QED BY <1>4, <4>1, <4>2 DEF CheckInvalid, Exists, WorkerRec
    <3> QED BY <3>1 DEF WorkersGone, Exists
  <2>5. Checking' /\ Reloading' /\ Ending'
    BY <1>4, <2>1, <2>3, <2>4 DEF CheckInvalid, Control, Checking, Reloading, Ending, Stopping, StagesKept
  <2> QED BY <2>2, <2>5 DEF Control
<1>5. CASE FlagGroups
  <2>1. /\ \A m \in Managers : mgr'[m].stage = IF m = main.m THEN "old" ELSE mgr[m].stage
        /\ main' = [main EXCEPT !.at = "configure"] /\ conf' = conf /\ main.at = "reload"
    BY <1>5 DEF FlagGroups, Reloaded, Goto, MgrRec
  <2>2. InOrder'
    BY <2>1, ManagersAre DEF Control, InOrder, Reloading
  <2>3. Reloading'
    <3>1. ASSUME NEW m \in Managers, mgr[m].stage = "current" PROVE m = main.m
      <4>1. m \in Nat /\ main.m \in Nat
        BY ManagersAre
      <4>2. ~(m < main.m) /\ ~(main.m < m)
        BY <2>1, <3>1 DEF Control, InOrder, Reloading
      <4> QED BY <4>1, <4>2
    <3>2. main.m + 1 # main.m
      <4>1. main.m \in Nat
        BY ManagersAre
      <4> HIDE DEF MInv, Types, MainType
      <4> QED BY <4>1
    <3> QED BY <2>1, <3>1, <3>2 DEF Control, Reloading
  <2>4. Ending' /\ Checking'
    BY <2>1 DEF Control, Ending, Checking, Stopping
  <2> QED BY <2>2, <2>3, <2>4 DEF Control
<1>6. CASE Configure
  <2>1. /\ StagesKept /\ main.at = "configure" /\ main'.at \in {"stop_api", "start"}
        /\ main'.m = main.m /\ main'.exiting = main.exiting
        /\ main'.at = "start" => conf' = main.m + 1
    BY <1>6 DEF Configure, Goto, StagesKept
  <2>2. InOrder'
    BY <2>1 DEF Control, InOrder, StagesKept
  <2> QED BY <2>1, <2>2 DEF Control, Reloading, Ending, Checking, Stopping, StagesKept
<1>7. CASE Start
  <2>1. main.at = "start" /\ conf \in Managers /\ conf = main.m + 1 /\ mgr[conf].stage = "none"
    BY <1>7 DEF Start, Control, Reloading
  <2>2. /\ \A m \in Managers : mgr'[m].stage = IF m = conf THEN "current" ELSE mgr[m].stage
        /\ conf' = conf /\ main'.at \in {"restart_api", "stop_api"} /\ main'.exiting = main.exiting
    <3>1. PICK single \in BOOLEAN, ls \in Servers(conf) :
             \E ws \in SUBSET Groups(conf, single) : Started(conf, single, ls, ws)
      BY <1>7, <2>1, StartIs
    <3> QED BY <1>7, <3>1 DEF Start, Started, Goto, AfterStart
  <2>3. InOrder'
    <3> SUFFICES ASSUME NEW m \in Managers, NEW n \in Managers, m < n,
                        mgr'[m].stage \in {"none", "current"}
                 PROVE  mgr'[n].stage = "none"
      BY DEF InOrder
    <3>1. m \in Nat /\ n \in Nat /\ main.m \in Nat
      BY ManagersAre
    <3>2. CASE m = conf
      BY <2>1, <2>2, <3>1, <3>2 DEF Control, InOrder
    <3>3. CASE m # conf
      <4>1. mgr[m].stage = "none"
        BY <2>1, <2>2, <3>3 DEF Control, Reloading
      <4>2. ~(m <= main.m)
        BY <2>1, <3>1, <4>1 DEF Control, InOrder, Reloading
      <4> QED BY <2>1, <2>2, <3>1, <4>1, <4>2 DEF Control, InOrder
    <3> QED BY <3>2, <3>3
  <2> QED BY <2>1, <2>2, <2>3 DEF Control, Reloading, Ending, Checking, Stopping
<1>8. CASE NextWorker
  <2>1. /\ StagesKept /\ NoNewWorker /\ main.at = "stop" /\ main'.at = "join" /\ main'.m = main.m /\ conf' = conf
        /\ main'.exiting = main.exiting /\ main'.unchecked = main.unchecked
    BY <1>8 DEF NextWorker, StagesKept, NoNewWorker, Exists
  <2>4. main'.w[1] = main.m
    <3>1. PICK w \in WorkersOf(main.m) : main' = [main EXCEPT !.at = "join", !.w = w]
      BY <1>8 DEF NextWorker
    <3>2. w[1] = main.m
      BY DEF WorkersOf
    <3> QED BY <3>1, <3>2
  <2>2. InOrder'
    BY <2>1 DEF Control, InOrder, StagesKept
  <2>3. WorkersGone(main.m) => WorkersGone(main.m)'
    BY <2>1, WorkersAre DEF WorkersGone, Exists, NoNewWorker
  <2> QED BY <2>1, <2>2, <2>3, <2>4 DEF Control, Reloading, Ending, Checking, Stopping, StagesKept
<1>9. CASE JoinWorker
  <2>1. /\ StagesKept /\ NoNewWorker /\ main.at = "join" /\ main'.at = "stop" /\ main'.m = main.m /\ conf' = conf
        /\ main'.exiting = main.exiting /\ main'.unchecked = main.unchecked
    BY <1>9 DEF JoinWorker, WorkerGoto, Goto, StagesKept, NoNewWorker, Exists, WorkerRec
  <2>2. InOrder'
    BY <2>1 DEF Control, InOrder, StagesKept
  <2>3. WorkersGone(main.m) => WorkersGone(main.m)'
    BY <2>1, WorkersAre DEF WorkersGone, Exists, NoNewWorker
  <2> QED BY <2>1, <2>2, <2>3 DEF Control, Reloading, Ending, Checking, Stopping, StagesKept
<1>10. CASE Erase
  <2>1. /\ \A m \in Managers : mgr'[m].stage = IF m = main.m THEN "deleted" ELSE mgr[m].stage
        /\ conf' = conf /\ main.at = "stop" /\ main'.exiting = main.exiting
        /\ main'.at = IF main.exiting THEN "exit" ELSE "check"
        /\ main'.unchecked = main.unchecked
    BY <1>10 DEF Erase, Goto, MgrRec
  <2>2. InOrder'
    BY <2>1 DEF Control, InOrder, Ending, Stopping
  <2> QED BY <2>1, <2>2 DEF Control, Reloading, Ending, Checking, Stopping
<1>11. CASE Exit
  <2>1. StagesKept /\ main.exiting /\ main'.exiting
    BY <1>11 DEF Exit, Goto, StagesKept, Control, Ending
  <2>2. InOrder'
    BY <2>1 DEF Control, InOrder, StagesKept
  <2>3. main'.at = "done" \/ (main'.at = "stop" /\ mgr[main'.m].stage \in {"current", "old"}
                              /\ main'.m \in Managers)
    BY <1>11 DEF Exit, Goto, CurrentThenOld, Current, Old
  <2> QED BY <2>1, <2>2, <2>3 DEF Control, Reloading, Ending, Checking, Stopping, StagesKept
<1> QED BY <1>1, <1>2, <1>3, <1>4, <1>5, <1>6, <1>7, <1>8, <1>9, <1>10, <1>11 DEF MainStep
-----------------------------------------------------------------------------
(* Workers and what they use. *)

(* All of a manager but its list. *)
MgrsKept ==
    \A m \in Managers :
      /\ mgr'[m].stage = mgr[m].stage /\ mgr'[m].single = mgr[m].single
      /\ mgr'[m].maps = mgr[m].maps /\ mgr'[m].servers = mgr[m].servers
      /\ mgr'[m].reload = mgr[m].reload

LEMMA ListChanges ==
    ASSUME Types, NEW m, NEW q, mgr' = [mgr EXCEPT ![m].list = q]
    PROVE  MgrsKept
BY DEF Types, MgrRec, MgrsKept

(* What one step of a worker does to the workers. *)
LEMMA WorkerStepDoes ==
    ASSUME Types, NEW w \in Workers, WorkerStep(w)
    PROVE  /\ MgrsKept
           /\ \A v \in Workers : v # w => worker'[v] = worker[v]
           /\ worker[w].at \in {"top", "handler", "idle_check"}
           /\ main' = main \/ (~HasThread(w) /\ IdleCheck(w) /\ CheckOld)
           /\ \/ /\ worker'[w].at = "exited" /\ HasThread(w)
                 /\ worker[w].m_exit \/ mgr[w[1]].reload
              \/ worker'[w].at = "handler" /\ worker'[w].m_exit = worker[w].m_exit /\ InRound(w)
              \/ /\ worker'[w].at = "idle_check" /\ worker'[w].m_exit = worker[w].m_exit
                 /\ worker[w].at = "handler"
              \/ /\ worker'[w].at = "top" /\ worker'[w].m_exit = worker[w].m_exit
                 /\ InRound(w) \/ worker[w].at = "idle_check"
<1>1. CASE LeaveLoop(w)
  <2>1. MgrsKept /\ main' = main /\ HasThread(w) /\ worker[w].at = "top"
        /\ (worker[w].m_exit \/ mgr[w[1]].reload)
    BY <1>1 DEF LeaveLoop, MgrsKept, NothingHeld
  <2> QED BY <1>1, <2>1 DEF LeaveLoop, Types
<1>2. ASSUME NEW at, WorkerGoto(w, at)
      PROVE  /\ \A v \in Workers : v # w => worker'[v] = worker[v]
             /\ worker'[w].at = at /\ worker'[w].m_exit = worker[w].m_exit
  BY <1>2 DEF WorkerGoto, Types, WorkerRec
<1>3. CASE BeginHandler(w)
  <2>1. MgrsKept /\ main' = main /\ worker[w].at = "top" /\ InRound(w) /\ WorkerGoto(w, "handler")
    BY <1>3 DEF BeginHandler, InRound, MgrsKept
  <2> QED BY <1>2, <2>1
<1>4. CASE EndHandler(w)
  <2>1. main' = main /\ worker[w].at = "handler" /\ WorkerGoto(w, "idle_check")
    BY <1>4 DEF EndHandler
  <2>2. mgr' = mgr \/ \E m, q : mgr' = [mgr EXCEPT ![m].list = q]
    BY <1>4 DEF EndHandler
  <2>3. MgrsKept
    BY <2>2, ListChanges DEF MgrsKept
  <2> QED BY <1>2, <2>1, <2>3
<1>5. CASE IdleCheck(w)
  <2>1. /\ InRound(w) \/ worker[w].at = "idle_check"
        /\ WorkerGoto(w, "top") /\ (main' = main \/ (~HasThread(w) /\ CheckOld))
    BY <1>5 DEF IdleCheck
  <2>2. mgr' = mgr \/ \E m, q : mgr' = [mgr EXCEPT ![m].list = q]
    BY <1>5 DEF IdleCheck
  <2>3. MgrsKept
    BY <2>2, ListChanges DEF MgrsKept
  <2>4. worker[w].at \in {"top", "idle_check"}
    BY <2>1 DEF InRound
  <2> QED BY <1>2, <1>5, <2>1, <2>3, <2>4
<1> QED BY <1>1, <1>3, <1>4, <1>5 DEF WorkerStep

LEMMA WorkersWorkerInv ==
    ASSUME MInv, NEW w \in Workers, WorkerStep(w)
    PROVE  WorkerInv'
<1> USE DEF MInv
<1>1. /\ MgrsKept
      /\ \A v \in Workers : v # w => worker'[v] = worker[v]
      /\ worker[w].at \in {"top", "handler", "idle_check"}
      /\ main' = main \/ (~HasThread(w) /\ IdleCheck(w) /\ CheckOld)
      /\ \/ /\ worker'[w].at = "exited" /\ HasThread(w)
            /\ worker[w].m_exit \/ mgr[w[1]].reload
         \/ worker'[w].at = "handler" /\ worker'[w].m_exit = worker[w].m_exit /\ InRound(w)
         \/ /\ worker'[w].at = "idle_check" /\ worker'[w].m_exit = worker[w].m_exit
            /\ worker[w].at = "handler"
         \/ /\ worker'[w].at = "top" /\ worker'[w].m_exit = worker[w].m_exit
            /\ InRound(w) \/ worker[w].at = "idle_check"
  BY WorkerStepDoes
<1>2. \A v \in Workers : v[1] \in Managers
  BY WorkersAre
<1>3. main' # main => ~HasThread(w) /\ main.at = "single" /\ mgr[w[1]].stage = "current"
                      /\ main'.at = "check" /\ main'.exiting = main.exiting /\ main'.m = main.m
  BY <1>1, DrivenBySingle DEF WorkerInv, CheckOld, Types, MainType
<1>4. Unstarted'
  <2>1. worker[w] # NoWorker
    BY <1>1 DEF NoWorker
  <2> QED BY <1>1, <1>2, <2>1 DEF Unstarted, MgrsKept, WorkerInv
<1>5. Maps'
  <2>1. \A m \in Managers : WorkersGone(m) => WorkersGone(m)'
    BY <1>1, WorkersAre DEF WorkersGone, Exists
  <2>2. \A v \in Workers : Exists(v)' => mgr[v[1]].maps
    BY <1>1 DEF Exists, Maps, WorkerInv
  <2>3. Stopping' = Stopping /\ main'.m = main.m
    BY <1>3 DEF Stopping
  <2> QED BY <1>1, <1>2, <2>1, <2>2, <2>3 DEF Maps, MgrsKept, WorkerInv
<1>6. Threadless'
  <2> SUFFICES ASSUME NEW v \in Workers, ~HasThread(v)'
               PROVE  /\ Exists(v)' => v[2] = 1
                      /\ worker'[v].at \in {"handler", "idle_check"} =>
                           main'.at = "single" /\ mgr'[v[1]].stage = "current"
    BY DEF Threadless
  <2>1. ~HasThread(v) /\ mgr'[v[1]].stage = mgr[v[1]].stage
    BY <1>1, <1>2 DEF HasThread, MgrsKept
  <2>2. CASE v # w
    <3>1. (Exists(v)' => Exists(v)) /\ worker'[v] = worker[v]
      BY <1>1, <2>2 DEF Exists
    <3>2. CASE main' = main
      BY <2>1, <3>1, <3>2 DEF Threadless, WorkerInv
    <3>3. CASE main' # main
      <4>1. ASSUME worker[v].at \in {"handler", "idle_check"} PROVE FALSE
        <5>1. mgr[v[1]].stage = "current" /\ mgr[w[1]].stage = "current" /\ Exists(v) /\ Exists(w)
          BY <1>1, <1>3, <2>1, <3>3, <4>1 DEF Threadless, WorkerInv, Exists
        <5>2. v[2] = 1 /\ w[2] = 1
          BY <1>3, <2>1, <3>3, <5>1 DEF Threadless, WorkerInv
        <5>3. v[1] \in Nat /\ w[1] \in Nat /\ ~(v[1] < w[1]) /\ ~(w[1] < v[1])
          BY <1>2, <5>1, ManagersAre DEF Control, InOrder
        <5>4. v[1] = w[1]
          BY <5>3
        <5> QED BY <2>2, <5>2, <5>4, WorkersAre
      <4> QED BY <2>1, <3>1, <4>1 DEF Threadless, WorkerInv
    <3> QED BY <3>2, <3>3
  <2>3. CASE v = w
    <3>1. v[2] = 1
      BY <1>1, <2>1, <2>3 DEF Threadless, WorkerInv, Exists
    <3>2. ASSUME worker'[w].at \in {"handler", "idle_check"}
          PROVE  main.at = "single" /\ mgr[w[1]].stage = "current" /\ main' = main
      <4>1. main.at = "single" /\ mgr[w[1]].stage = "current"
        BY <1>1, <2>1, <2>3, <3>2 DEF Threadless, WorkerInv, InRound, Runs, MainAt
      <4>2. main' = main
        <5>1. IdleCheck(w) => worker'[w].at = "top"
          BY DEF IdleCheck, WorkerGoto, Types, WorkerRec
        <5> QED BY <1>1, <3>2, <5>1
      <4> QED BY <4>1, <4>2
    <3> QED BY <2>1, <2>3, <3>1, <3>2
  <2> QED BY <2>2, <2>3
<1>7. ToldToExit'
  <2>1. main'.exiting = main.exiting
    BY <1>3
  <2>2. \A m \in Managers : mgr[m].reload => mgr[m].servers = <<>>
    BY DEF ServersInv
  <2>3. \A v \in Workers : v # w => worker'[v] = worker[v] /\ mgr'[v[1]].servers = mgr[v[1]].servers
    BY <1>1, <1>2 DEF MgrsKept
  <2>4. mgr'[w[1]].servers = mgr[w[1]].servers
    BY <1>1, <1>2 DEF MgrsKept
  <2>5. worker'[w].m_exit => mgr[w[1]].servers = <<>>
                             /\ (main.exiting \/ worker'[w].at \in {"exited", "deleted"})
    BY <1>1, <1>2, <2>2 DEF ToldToExit, WorkerInv
  <2> QED BY <2>1, <2>3, <2>4, <2>5 DEF ToldToExit, WorkerInv
<1> QED BY <1>4, <1>5, <1>6, <1>7 DEF WorkerInv

LEMMA QuietWorkerInv ==
    ASSUME MInv, MgrsKept, worker' = worker, main'.exiting = main.exiting \/ main'.exiting,
           main.at = "single" => main'.at = "single",
           Stopping => Stopping' /\ main'.m = main.m
    PROVE  WorkerInv'
<1> USE DEF MInv
<1>1. \A v \in Workers : v[1] \in Managers
  BY WorkersAre
<1>2. Unstarted' /\ Threadless' /\ ToldToExit'
  BY <1>1 DEF WorkerInv, Unstarted, Threadless, ToldToExit, HasThread, Exists, MgrsKept
<1>3. Maps'
  BY <1>1 DEF WorkerInv, Maps, WorkersGone, Exists, MgrsKept
<1> QED BY <1>2, <1>3 DEF WorkerInv

LEMMA OthersWorkerInv ==
    ASSUME MInv, ApiListen \/ ApiBegin \/ ApiEnd \/ (\E c \in Clients : ClientBreaks(c)) \/ UNCHANGED vars
    PROVE  WorkerInv'
<1>1. UNCHANGED <<mgr, worker, main>>
  BY DEF ApiListen, ApiBegin, ApiEnd, ClientBreaks, vars
<1>2. MgrsKept /\ (Stopping => Stopping')
  BY <1>1 DEF MgrsKept, Stopping
<1> QED BY <1>1, <1>2, QuietWorkerInv

LEMMA MainWorkerInv ==
    ASSUME MInv, MainStep
    PROVE  WorkerInv'
<1> USE DEF MInv, MainAt
<1>1. \A v \in Workers : v[1] \in Managers
  BY WorkersAre
<1>2. CASE Database \/ Loop \/ Checked \/ Configure \/ ApiStop \/ RestartApi \/ JoinApi \/ Exit
  <2>1. UNCHANGED <<mgr, worker>> /\ ~Stopping /\ main.at # "single"
    BY <1>2 DEF Database, Loop, Checked, Configure, ApiStop, RestartApi, JoinApi, Exit, Stopping
  <2>2. main'.exiting = main.exiting \/ main'.exiting
    BY <1>2 DEF Database, Loop, Checked, Configure, ApiStop, RestartApi, JoinApi, Exit, Goto, GotoExit,
                CheckOld, Types, MainType
  <2>3. MgrsKept
    BY <2>1 DEF MgrsKept
  <2> QED BY <2>1, <2>2, <2>3, QuietWorkerInv
<1>3. ASSUME NEW m \in Old, CheckInvalid(m) PROVE WorkerInv'
  <2>1. /\ mgr' = mgr /\ main.at = "check" /\ main'.exiting = main.exiting
        /\ \A v \in Workers : \/ worker'[v] = worker[v]
                              \/ /\ worker[v].at = "exited" /\ worker'[v].at = "deleted"
                                 /\ worker'[v].m_exit = worker[v].m_exit
    BY <1>3 DEF CheckInvalid, Types, WorkerRec, MainType, Exited
  <2>2. Unstarted'
    BY <1>1, <2>1 DEF WorkerInv, Unstarted, NoWorker
  <2>3. Threadless'
    BY <1>1, <2>1 DEF WorkerInv, Threadless, HasThread, Exists
  <2>4. ToldToExit'
    BY <1>1, <2>1 DEF WorkerInv, ToldToExit
  <2>5. \A v \in Workers : ~Exists(v) => ~Exists(v)'
    BY <2>1 DEF Exists
  <2>6. \A n \in Managers : WorkersGone(n) => WorkersGone(n)'
    BY <2>5, WorkersAre DEF WorkersGone
  <2>7. ~Stopping
    BY <2>1 DEF Stopping
  <2>8. Maps'
    BY <1>1, <2>1, <2>5, <2>6, <2>7 DEF WorkerInv, Maps
  <2> QED BY <2>2, <2>3, <2>4, <2>8 DEF WorkerInv
<1>4. CASE CloseServer
  <2>1. worker' = worker /\ main' = main
        /\ mgr' = [mgr EXCEPT ![main.m].servers = Tail(mgr[main.m].servers)] /\ mgr[main.m].servers # <<>>
    BY <1>4 DEF CloseServer, UninitServer, Uninit
  <2>2. \A m \in Managers :
          /\ mgr'[m].stage = mgr[m].stage /\ mgr'[m].single = mgr[m].single
          /\ mgr'[m].maps = mgr[m].maps
          /\ mgr[m].servers = <<>> => mgr'[m].servers = <<>>
    BY <2>1 DEF Types, MgrRec
  <2>3. Unstarted' /\ Threadless' /\ ToldToExit'
    BY <1>1, <2>1, <2>2 DEF WorkerInv, Unstarted, Threadless, ToldToExit, HasThread, Exists
  <2>4. Maps'
    BY <1>1, <2>1, <2>2 DEF WorkerInv, Maps, WorkersGone, Exists, Stopping
  <2> QED BY <2>3, <2>4 DEF WorkerInv
<1>5. CASE FlagGroups
  <2>1. /\ worker' = worker /\ main.at = "reload" /\ main'.exiting = main.exiting
        /\ mgr[main.m].stage = "current" /\ main.m \in Managers
    BY <1>5 DEF FlagGroups, Goto, Types, MainType, Control, Reloading
  <2>2. \A m \in Managers :
          /\ mgr'[m].stage = IF m = main.m THEN "old" ELSE mgr[m].stage
          /\ mgr'[m].single = mgr[m].single
          /\ mgr'[m].maps = mgr[m].maps
          /\ mgr'[m].servers = mgr[m].servers
    BY <1>5 DEF FlagGroups, Reloaded, Types, MgrRec
  <2>3. Unstarted'
    BY <1>1, <2>1, <2>2 DEF WorkerInv, Unstarted
  <2>4. Threadless'
    BY <1>1, <2>1, <2>2 DEF WorkerInv, Threadless, HasThread, Exists
  <2>5. ToldToExit'
    BY <1>1, <2>1, <2>2 DEF WorkerInv, ToldToExit
  <2>6. ~Stopping
    BY <2>1 DEF Stopping
  <2>7. Maps'
    BY <1>1, <2>1, <2>2, <2>6 DEF WorkerInv, Maps, WorkersGone, Exists
  <2> QED BY <2>3, <2>4, <2>5, <2>7 DEF WorkerInv
<1>6. CASE Start
  <2>1. main.at = "start" /\ conf \in Managers /\ mgr[conf].stage = "none"
    BY <1>6 DEF Start, Control, Reloading
  <2>2. PICK single \in BOOLEAN, ls \in Servers(conf) :
          \E ws \in SUBSET Groups(conf, single) : Started(conf, single, ls, ws)
    BY <1>6, <2>1, StartIs
  <2>3. PICK ws \in SUBSET Groups(conf, single) : Started(conf, single, ls, ws)
    BY <2>2
  <2>4. main'.at \notin {"stop", "join"} /\ main'.exiting = main.exiting
    BY <1>6 DEF Start, Goto, AfterStart, Types, MainType
  <2>5. \A m \in Managers :
          IF m = conf THEN mgr'[m].stage = "current" /\ mgr'[m].single = single /\ mgr'[m].maps
                      ELSE mgr'[m] = mgr[m]
    BY <2>3 DEF Started, Types
  <2>6. \A w \in Workers :
          IF w \in ws THEN worker'[w].at = "top" /\ ~worker'[w].m_exit ELSE worker'[w] = worker[w]
    BY <2>3 DEF Started, NoWorker
  <2>7. \A w \in Workers : w \in ws => w[1] = conf /\ (single => w[2] = 1)
    BY <2>1, WorkersAre DEF Groups
  <2>8. \A w \in Workers : w[1] = conf => worker[w] = NoWorker
    BY <2>1 DEF WorkerInv, Unstarted
  <2>9. Unstarted'
    BY <1>1, <2>5, <2>6, <2>7 DEF WorkerInv, Unstarted
  <2>10. Threadless'
    BY <1>1, <2>1, <2>5, <2>6, <2>7, <2>8 DEF WorkerInv, Threadless, HasThread, Exists, NoWorker
  <2>11. ToldToExit'
    BY <1>1, <2>4, <2>5, <2>6, <2>7, <2>8 DEF WorkerInv, ToldToExit, NoWorker
  <2>12. \A m \in Managers : m # conf /\ WorkersGone(m) => WorkersGone(m)'
    <3> SUFFICES ASSUME NEW m \in Managers, m # conf, WorkersGone(m), NEW w \in WorkersOf(m)
                 PROVE  worker'[w].at \in {"none", "deleted"}
      BY DEF WorkersGone, Exists
    <3>1. w \in Workers /\ w[1] = m
      BY WorkersAre
    <3> QED BY <2>6, <2>7, <3>1 DEF WorkersGone, Exists
  <2>13. Maps'
    BY <1>1, <2>1, <2>5, <2>6, <2>7, <2>8, <2>12 DEF WorkerInv, Maps, Exists, NoWorker, Stopping
  <2> QED BY <2>9, <2>10, <2>11, <2>13 DEF WorkerInv
<1>7. CASE NextWorker
  <2>1. PICK w \in WorkersOf(main.m) :
          Exists(w) /\ worker' = [worker EXCEPT ![w].m_exit = @ \/ HasThread(w)]
    BY <1>7 DEF NextWorker
  <2>2. /\ mgr' = mgr /\ main.at = "stop" /\ main'.at = "join" /\ main'.m = main.m
        /\ main'.exiting = main.exiting /\ mgr[main.m].servers = <<>> /\ main.m \in Managers
    BY <1>7 DEF NextWorker, Types, MainType
  <2>3. w \in Workers /\ w[1] = main.m
    BY <2>2, WorkersAre
  <2>4. main.exiting
    BY <2>1, <2>2 DEF Control, Checking, Stopping, WorkersGone
  <2>5. \A v \in Workers : worker'[v].at = worker[v].at /\ (v # w => worker'[v] = worker[v])
    BY <2>1, <2>3 DEF Types, WorkerRec
  <2>6. Unstarted'
    <3>1. mgr[w[1]].stage # "none"
      BY <2>2, <2>3 DEF Control, Ending, Stopping
    <3> QED BY <1>1, <2>2, <2>5, <3>1 DEF WorkerInv, Unstarted
  <2>7. Threadless'
    BY <1>1, <2>2, <2>5 DEF WorkerInv, Threadless, HasThread, Exists
  <2>8. ToldToExit'
    BY <1>1, <2>2, <2>3, <2>4, <2>5 DEF WorkerInv, ToldToExit
  <2>9. \A m \in Managers : WorkersGone(m) => WorkersGone(m)'
    BY <2>5, WorkersAre DEF WorkersGone, Exists
  <2>10. Maps'
    BY <1>1, <2>2, <2>5, <2>9 DEF WorkerInv, Maps, Stopping, Exists
  <2> QED BY <2>6, <2>7, <2>8, <2>10 DEF WorkerInv
<1>8. CASE JoinWorker
  <2> DEFINE w == main.w
  <2>1. /\ mgr' = mgr /\ main.at = "join" /\ main'.at = "stop" /\ main'.m = main.m
        /\ main'.exiting = main.exiting /\ w \in Workers
    BY <1>8 DEF JoinWorker, Goto, Types, MainType
  <2>2. /\ \A v \in Workers : v # w => worker'[v] = worker[v]
        /\ worker'[w].at = "deleted" /\ worker'[w].m_exit = worker[w].m_exit
    BY <1>8, <2>1 DEF JoinWorker, WorkerGoto, Types, WorkerRec
  <2> HIDE DEF w
  <2>3. Threadless'
    BY <1>1, <2>1, <2>2 DEF WorkerInv, Threadless, HasThread, Exists
  <2>4. ToldToExit'
    BY <1>1, <2>1, <2>2 DEF WorkerInv, ToldToExit
  <2>5. \A m \in Managers : WorkersGone(m) => WorkersGone(m)'
    BY <2>2, WorkersAre DEF WorkersGone, Exists
  <2>6. Maps'
    BY <1>1, <2>1, <2>2, <2>5 DEF WorkerInv, Maps, Stopping, Exists
  <2>7. Unstarted'
    <3>1. mgr[w[1]].stage # "none"
      BY <2>1 DEF Control, Ending, Stopping, w
    <3> QED BY <1>1, <2>1, <2>2, <3>1 DEF WorkerInv, Unstarted
  <2> QED BY <2>3, <2>4, <2>6, <2>7 DEF WorkerInv
<1>9. CASE DeleteMaps
  <2>1. /\ worker' = worker /\ main' = main /\ main.at = "stop" /\ main.m \in Managers
        /\ WorkersGone(main.m)
    BY <1>9 DEF DeleteMaps, MapsUnused, Types, MainType
  <2>2. \A m \in Managers :
          /\ mgr'[m].stage = mgr[m].stage /\ mgr'[m].single = mgr[m].single
          /\ mgr'[m].servers = mgr[m].servers
          /\ m # main.m => mgr'[m].maps = mgr[m].maps
    BY <1>9 DEF DeleteMaps, Types, MgrRec
  <2>3. Unstarted' /\ Threadless' /\ ToldToExit'
    BY <1>1, <2>1, <2>2 DEF WorkerInv, Unstarted, Threadless, ToldToExit, HasThread, Exists
  <2>4. \A v \in Workers : Exists(v) => v[1] # main.m
    BY <2>1, WorkersAre DEF WorkersGone
  <2>5. \A m \in Managers : WorkersGone(m)' = WorkersGone(m)
    BY <2>1 DEF WorkersGone, WorkersOf, Exists
  <2>6. Maps'
    BY <1>1, <2>1, <2>2, <2>4, <2>5 DEF WorkerInv, Maps, Exists, Stopping
  <2> QED BY <2>3, <2>6 DEF WorkerInv
<1>10. CASE Erase
  <2>1. /\ worker' = worker /\ main'.exiting = main.exiting /\ main.at = "stop"
        /\ main'.at \in {"exit", "check"} /\ main.m \in Managers
        /\ WorkersGone(main.m) /\ ~mgr[main.m].maps
    BY <1>10 DEF Erase, Goto, Types, MainType
  <2>2. \A m \in Managers :
          /\ mgr'[m].stage = IF m = main.m THEN "deleted" ELSE mgr[m].stage
          /\ mgr'[m].single = mgr[m].single
          /\ mgr'[m].servers = mgr[m].servers
          /\ mgr'[m].maps = mgr[m].maps
    BY <1>10 DEF Erase, Types, MgrRec
  <2>3. Unstarted' /\ ToldToExit'
    BY <1>1, <2>1, <2>2 DEF WorkerInv, Unstarted, ToldToExit
  <2>4. Threadless'
    BY <1>1, <2>1, <2>2 DEF WorkerInv, Threadless, HasThread, Exists
  <2>5. \A m \in Managers : WorkersGone(m)' = WorkersGone(m)
    BY <2>1 DEF WorkersGone, WorkersOf, Exists
  <2>6. Maps'
    BY <1>1, <2>1, <2>2, <2>5 DEF WorkerInv, Maps, Exists, Stopping
  <2> QED BY <2>3, <2>4, <2>6 DEF WorkerInv
<1> QED BY <1>2, <1>3, <1>4, <1>5, <1>6, <1>7, <1>8, <1>9, <1>10 DEF MainStep
-----------------------------------------------------------------------------
(* Lists, and what worker steps do to roles. *)
LEMMA InShort ==
    ASSUME NEW a, NEW b
    PROVE  /\ In(<<>>) = {} /\ In(<<a>>) = {a} /\ In(<<a, b>>) = {a, b}
           /\ Head(<<a>>) = a /\ Head(<<a, b>>) = a
           /\ Tail(<<a>>) = <<>> /\ Tail(<<a, b>>) = <<b>>
BY DEF In

LEMMA InTail ==
    ASSUME NEW S, NEW q \in Seq(S), q # <<>>
    PROVE  /\ Head(q) = q[1] /\ 1 \in DOMAIN q
           /\ \A i \in DOMAIN Tail(q) : i + 1 \in DOMAIN q /\ Tail(q)[i] = q[i + 1] /\ i # 0
                                        /\ i \in Nat
           /\ \A i \in DOMAIN q : i # 1 => i - 1 \in DOMAIN Tail(q) /\ Tail(q)[i - 1] = q[i]
OBVIOUS

LEMMA InAppend ==
    ASSUME NEW S, NEW q \in Seq(S), NEW c
    PROVE  /\ DOMAIN Append(q, c) = DOMAIN q \cup {Len(q) + 1}
           /\ Len(q) + 1 \notin DOMAIN q
           /\ \A i \in DOMAIN q : Append(q, c)[i] = q[i]
           /\ Append(q, c)[Len(q) + 1] = c
OBVIOUS

LEMMA DeletedIs ==
    ASSUME NEW rs, NEW r \in Roles
    PROVE  /\ r \in rs => Deleted(rs)[r].stage = "deleted"
           /\ r \notin rs => Deleted(rs)[r] = role[r]
BY DEF Deleted, DeletedRole, NoRole

(* idle_check takes q from the list. *)
PopList(w) ==
    /\ mgr[w[1]].list \in Seq(Roles) /\ mgr[w[1]].list # <<>>
    /\ mgr' = [mgr EXCEPT ![w[1]].list = Tail(mgr[w[1]].list)]

PopRole(w, q) ==
    /\ q \in Roles /\ role[q].stage = "queued" /\ role[q].m = w[1] /\ q \notin Broken(w)
    /\ \A r \in Roles : r # q => role'[r] = Deleted(Broken(w))[r]
    /\ \/ role'[q].stage = "deleted"
       \/ /\ role'[q].stage = "held" /\ role'[q].w = w[2]
          /\ role'[q].m = role[q].m /\ role'[q].sock = role[q].sock
    /\ role[q].sock = "open" => role'[q].stage = "held"

LEMMA IdleCheckDoes ==
    ASSUME MInv, NEW w \in Workers, IdleCheck(w), NEW q, q = Head(mgr[w[1]].list)
    PROVE  \/ mgr' = mgr /\ role' = Deleted(Broken(w))
           \/ PopList(w) /\ PopRole(w, q)
<1> USE DEF MInv
<1>1. CASE role' = Deleted(Broken(w)) /\ UNCHANGED mgr
  BY <1>1
<1>2. CASE /\ mgr[w[1]].list # <<>>
           /\ Popped(w, Head(mgr[w[1]].list), Deleted(Broken(w)))
           /\ mgr' = [mgr EXCEPT ![w[1]].list = Tail(@)]
  <2>1. w[1] \in Managers /\ mgr[w[1]].list \in Seq(Roles)
    BY WorkersAre DEF Types, MgrRec
  <2>2. q \in Roles /\ q = mgr[w[1]].list[1] /\ 1 \in DOMAIN mgr[w[1]].list
    BY <1>2, <2>1, InTail, Tails
  <2>3. role[q].stage = "queued" /\ role[q].m = w[1]
    BY <2>1, <2>2 DEF ListInv
  <2>4. q \notin Broken(w)
    BY <2>3 DEF Broken, Held
  <2> DEFINE d == Deleted(Broken(w))
  <2>5. d[q] = role[q] /\ d \in [Roles -> RoleRec]
    BY <2>2, <2>4, DeletedIs, DeletedType
  <2>6. \/ role' = [d EXCEPT ![q] = [d[q] EXCEPT !.stage = "held", !.w = w[2]]]
        \/ role[q].sock # "open" /\ role' = [d EXCEPT ![q] = DeletedRole]
    BY <1>2 DEF Popped
  <2> HIDE DEF d
  <2>7. \A r \in Roles : r # q => role'[r] = d[r]
    BY <2>2, <2>5, <2>6
  <2>8. \/ role'[q] = [role[q] EXCEPT !.stage = "held", !.w = w[2]]
        \/ role[q].sock # "open" /\ role'[q] = DeletedRole
    BY <2>2, <2>5, <2>6
  <2>9. role[q] \in RoleRec
    BY <2>2 DEF Types
  <2>10. \/ role'[q].stage = "deleted"
         \/ /\ role'[q].stage = "held" /\ role'[q].w = w[2]
            /\ role'[q].m = role[q].m /\ role'[q].sock = role[q].sock
    BY <2>8, <2>9 DEF DeletedRole, NoRole, RoleRec
  <2>11. role[q].sock = "open" => role'[q].stage = "held"
    BY <2>8, <2>9 DEF RoleRec
  <2>12. PopRole(w, q)
    BY <2>2, <2>3, <2>4, <2>7, <2>10, <2>11 DEF d, PopRole
  <2>13. PopList(w)
    BY <1>2, <2>1 DEF PopList
  <2> QED BY <2>12, <2>13
<1> QED BY <1>1, <1>2 DEF IdleCheck

LEMMA EndHandlerDoes ==
    ASSUME MInv, NEW w \in Workers, EndHandler(w)
    PROVE  \/ UNCHANGED <<role, mgr>>
           \/ \E c \in Clients :
                /\ role[c].stage = "none"
                /\ mgr[w[1]].list \in Seq(Roles)
                /\ mgr' = [mgr EXCEPT ![w[1]].list = Append(mgr[w[1]].list, c)]
                /\ \A r \in Roles : r # c => role'[r] = role[r]
                /\ role'[c].stage = "queued" /\ role'[c].m = w[1]
<1>1. CASE UNCHANGED <<role, mgr>>
  BY <1>1
<1>2. CASE ~UNCHANGED <<role, mgr>>
  <2>1. PICK c \in NewClients :
          /\ role' = [role EXCEPT ![c] = [NoRole EXCEPT !.stage = "queued", !.m = w[1]]]
          /\ mgr' = [mgr EXCEPT ![w[1]].list = Append(@, c)]
    BY <1>2 DEF EndHandler
  <2>2. c \in Clients /\ c \in Roles /\ role[c].stage = "none"
    BY DEF NewClients, Roles
  <2>3. mgr[w[1]].list \in Seq(Roles)
    BY WorkersAre DEF MInv, Types, MgrRec
  <2>4. /\ \A r \in Roles : r # c => role'[r] = role[r]
        /\ role'[c].stage = "queued" /\ role'[c].m = w[1]
    BY <2>1, <2>2 DEF MInv, Types, NoRole
  <2> QED BY <2>1, <2>2, <2>3, <2>4
<1> QED BY <1>1, <1>2
-----------------------------------------------------------------------------
(* Listeners. *)

(* The lists of listeners a manager can have, and the next shorter one. *)
LEMMA ShorterServers ==
    ASSUME NEW m \in Managers, NEW q,
           q \in {<<>>, <<<<m, "publisher">>>>, <<<<m, "player">>>>, ListenersOf(m)}
    PROVE  /\ \A l \in In(q) : l \in Listeners /\ l[1] = m
           /\ q # <<>> => /\ Head(q) \in Listeners /\ Head(q)[1] = m
                          /\ Tail(q) \in {<<>>, <<<<m, "player">>>>}
                          /\ In(Tail(q)) = In(q) \ {Head(q)}
<1> DEFINE a == <<m, "publisher">>  b == <<m, "player">>
<1>1. a \in Listeners /\ b \in Listeners /\ a # b /\ a[1] = m /\ b[1] = m
  BY ListenersAre
<1>2. q \in {<<>>, <<a>>, <<b>>, <<a, b>>}
  BY DEF ListenersOf
<1> HIDE DEF a, b
<1>3. In(<<>>) = {} /\ In(<<a>>) = {a} /\ In(<<b>>) = {b} /\ In(<<a, b>>) = {a, b}
  BY InShort
<1>4. /\ Head(<<a>>) = a /\ Head(<<b>>) = b /\ Head(<<a, b>>) = a
      /\ Tail(<<a>>) = <<>> /\ Tail(<<b>>) = <<>> /\ Tail(<<a, b>>) = <<b>>
  BY InShort
<1>5. \A l \in In(q) : l \in Listeners /\ l[1] = m
  BY <1>1, <1>2, <1>3
<1>6. ASSUME q # <<>>
      PROVE  /\ Head(q) \in Listeners /\ Head(q)[1] = m
             /\ Tail(q) \in {<<>>, <<b>>} /\ In(Tail(q)) = In(q) \ {Head(q)}
  <2>1. CASE q = <<a>>
    BY <1>1, <1>3, <1>4, <2>1
  <2>2. CASE q = <<b>>
    BY <1>1, <1>3, <1>4, <2>2
  <2>3. CASE q = <<a, b>>
    BY <1>1, <1>3, <1>4, <2>3
  <2> QED BY <1>2, <1>6, <2>1, <2>2, <2>3
<1> QED BY <1>5, <1>6 DEF b

LEMMA QuietServers ==
    ASSUME MInv, MgrsKept, conf' = conf
    PROVE  ServersInv'
BY DEF MInv, ServersInv, MgrsKept

LEMMA ServersNext ==
    ASSUME MInv, [Next]_vars
    PROVE  ServersInv'
<1> USE DEF MInv, MainAt
<1>1. ASSUME NEW w \in Workers, WorkerStep(w) PROVE ServersInv'
  <2>1. conf' = conf
    BY <1>1 DEF WorkerStep, LeaveLoop, BeginHandler, EndHandler, IdleCheck
  <2> QED BY <1>1, <2>1, WorkerStepDoes, QuietServers
<1>2. CASE \/ ApiListen \/ ApiBegin \/ ApiEnd \/ (\E c \in Clients : ClientBreaks(c)) \/ UNCHANGED vars
           \/ Database \/ Loop \/ Checked \/ ApiStop \/ RestartApi \/ JoinApi
           \/ (\E m \in Old : CheckInvalid(m)) \/ NextWorker \/ JoinWorker
  <2>1. UNCHANGED <<conf, mgr>>
    BY <1>2 DEF ApiListen, ApiBegin, ApiEnd, ClientBreaks, vars, Database, Loop, Checked, ApiStop,
                RestartApi, JoinApi, CheckInvalid, NextWorker, JoinWorker
  <2> QED BY <2>1, QuietServers DEF MgrsKept
<1>3. CASE DeleteMaps
  <2>1. /\ conf' = conf
        /\ \A m \in Managers : mgr'[m].servers = mgr[m].servers /\ mgr'[m].stage = mgr[m].stage
                               /\ mgr'[m].reload = mgr[m].reload
    BY <1>3 DEF DeleteMaps, Types, MgrRec
  <2> QED BY <2>1 DEF ServersInv
<1>4. CASE Configure \/ Exit
  <2>1. mgr' = mgr
    BY <1>4 DEF Configure, Exit
  <2>2. conf' = conf \/ \A m \in Managers : mgr[m].stage # "current"
    BY <1>4 DEF Configure, Exit, CurrentThenOld, Current, Control, Reloading
  <2> QED BY <2>1, <2>2 DEF ServersInv
<1>5. CASE CloseServer
  <2> DEFINE q == mgr[main.m].servers
  <2>1. /\ conf' = conf /\ main.m \in Managers /\ q # <<>>
        /\ mgr' = [mgr EXCEPT ![main.m].servers = Tail(q)]
    BY <1>5 DEF CloseServer, UninitServer, Uninit, Types, MainType
  <2>2. \A m \in Managers :
          /\ mgr'[m].servers = IF m = main.m THEN Tail(q) ELSE mgr[m].servers
          /\ mgr'[m].stage = mgr[m].stage /\ mgr'[m].reload = mgr[m].reload
    BY <2>1 DEF Types, MgrRec
  <2>3. Tail(q) \in {<<>>, <<<<main.m, "player">>>>}
    BY <2>1, ShorterServers DEF ServersInv
  <2> HIDE DEF q
  <2> QED BY <2>1, <2>2, <2>3 DEF ServersInv, q
<1>6. CASE FlagGroups
  <2>1. /\ conf' = conf /\ main.m \in Managers /\ mgr[main.m].servers = <<>>
        /\ \A m \in Managers :
             /\ mgr'[m].servers = mgr[m].servers
             /\ m # main.m => mgr'[m].stage = mgr[m].stage /\ mgr'[m].reload = mgr[m].reload
    BY ZenonT(60), <1>6 DEF FlagGroups, Reloaded, Types, MgrRec, MainType
  <2> QED BY <2>1 DEF ServersInv
<1>7. CASE Start
  <2>1. main.at = "start" /\ conf \in Managers /\ conf' = conf
        /\ \A m \in Managers : mgr[m].stage # "current"
    BY <1>7 DEF Start, Control, Reloading
  <2>2. PICK single \in BOOLEAN, ls \in Servers(conf) :
          \E ws \in SUBSET Groups(conf, single) : Started(conf, single, ls, ws)
    BY <1>7, <2>1, StartIs
  <2>3. \A m \in Managers :
          IF m = conf
          THEN mgr'[m].stage = "current" /\ mgr'[m].servers = ls /\ mgr'[m].reload = FALSE
          ELSE mgr'[m] = mgr[m]
    BY <2>2 DEF Started, Types
  <2> QED BY <2>1, <2>3 DEF ServersInv, Servers
<1>8. CASE Erase
  <2>1. /\ conf' = conf /\ main.m \in Managers /\ mgr[main.m].servers = <<>>
        /\ \A m \in Managers :
             /\ mgr'[m].servers = mgr[m].servers /\ mgr'[m].reload = mgr[m].reload
             /\ m # main.m => mgr'[m].stage = mgr[m].stage
    BY <1>8 DEF Erase, Types, MgrRec, MainType
  <2> QED BY <2>1 DEF ServersInv
<1> QED BY <1>1, <1>2, <1>3, <1>4, <1>5, <1>6, <1>7, <1>8 DEF Next, MainStep

(* Steps that keep the lists of listeners and only end roles that are not  *)
(* in one.                                                                 *)
LEMMA QuietOpen ==
    ASSUME MInv, \A m \in Managers : mgr'[m].servers = mgr[m].servers,
           \A l \in Listeners : \/ /\ role'[l].stage = role[l].stage
                                   /\ role'[l].sock = role[l].sock /\ role'[l].m = role[l].m
                                \/ role'[l].stage = "deleted" /\ l \notin In(mgr[l[1]].servers)
                                \/ /\ role[l].stage = "queued" /\ role'[l].stage = "held"
                                   /\ role'[l].sock = role[l].sock /\ role'[l].m = role[l].m
    PROVE  OpenInv'
<1> USE DEF MInv
<1>1. \A m \in Managers : In(mgr[m].servers)' = In(mgr[m].servers)
  BY DEF In
<1>2. ASSUME NEW m \in Managers, NEW l \in In(mgr[m].servers)
      PROVE  role'[l].stage \in {"queued", "held"} /\ role'[l].sock = "open" /\ role'[l].m = m
  <2>1. l \in Listeners /\ l[1] = m
    BY SMTT(60), <1>2, ShorterServers DEF ServersInv
  <2> QED BY <1>2, <2>1 DEF OpenInv
<1>3. ASSUME NEW l \in Listeners, role'[l].stage \in {"queued", "held"}, role'[l].sock = "open"
      PROVE  l \in In(mgr[l[1]].servers)
  BY <1>3 DEF OpenInv
<1>4. \A l \in Listeners : l[1] \in Managers
  BY ListenersAre
<1> QED BY <1>1, <1>2, <1>3, <1>4 DEF OpenInv

LEMMA WorkersOpen ==
    ASSUME MInv, NEW w \in Workers, WorkerStep(w)
    PROVE  OpenInv'
<1> USE DEF MInv
<1>1. \A m \in Managers : mgr'[m].servers = mgr[m].servers
  BY WorkerStepDoes DEF MgrsKept
<1>2. w[1] \in Managers /\ \A l \in Listeners : l \in Roles /\ l[1] \in Managers
  BY WorkersAre, ListenersAre DEF Roles
<1>3. CASE LeaveLoop(w)
  <2>1. ASSUME NEW l \in Listeners, l \in In(mgr[l[1]].servers) PROVE l \notin Held(w)
    <3> SUFFICES ASSUME l \in Held(w) PROVE FALSE
      OBVIOUS
    <3>1. role[l].m = l[1] /\ role[l].m = w[1]
      <4>1. w = <<role[l].m, role[l].w>>
        BY DEF Held
      <4> QED BY <1>2, <2>1, <4>1 DEF OpenInv
    <3>2. mgr[w[1]].servers = <<>>
      <4>1. worker[w].m_exit
        BY <1>3 DEF LeaveLoop, NothingHeld
      <4> QED BY <4>1 DEF WorkerInv, ToldToExit
    <3> QED BY <2>1, <3>1, <3>2, InShort
  <2>2. role' = Deleted(Held(w))
    BY <1>3 DEF LeaveLoop
  <2>3. \A l \in Listeners : role'[l] = role[l]
                             \/ (role'[l].stage = "deleted" /\ l \notin In(mgr[l[1]].servers))
    BY <1>2, <2>1, <2>2, DeletedIs
  <2> QED BY <1>1, <2>3, QuietOpen
<1>4. CASE BeginHandler(w)
  BY <1>1, <1>4, QuietOpen DEF BeginHandler
<1>5. CASE EndHandler(w)
  <2>1. \A l \in Listeners : role'[l] = role[l]
    BY <1>2, <1>5, EndHandlerDoes, ListenersAre
  <2> QED BY <1>1, <2>1, QuietOpen
<1>6. CASE IdleCheck(w)
  <2> DEFINE q == Head(mgr[w[1]].list)  d == Deleted(Broken(w))
  <2>1. \A l \in Listeners : d[l] = role[l]
                             \/ (d[l].stage = "deleted" /\ l \notin In(mgr[l[1]].servers))
    <3> SUFFICES ASSUME NEW l \in Listeners, l \in Broken(w)
                 PROVE  l \notin In(mgr[l[1]].servers)
      BY <1>2, DeletedIs
    <3> QED BY <1>2 DEF Broken, OpenInv
  <2>2. CASE role' = d
    BY <1>1, <2>1, <2>2, QuietOpen
  <2>3. CASE role' # d
    <3>0. q = Head(mgr[w[1]].list)
      OBVIOUS
    <3> HIDE DEF q
    <3>1. PopRole(w, q)
      BY <1>6, <2>3, <3>0, IdleCheckDoes
    <3>2. q \in Listeners /\ q \in In(mgr[q[1]].servers) => role'[q].stage = "held"
      BY <1>2, <3>1 DEF OpenInv, PopRole
    <3>3. \A r \in Roles : r # q => role'[r] = d[r]
      BY <3>1 DEF PopRole
    <3> HIDE DEF d
    <3>4. \A l \in Listeners : \/ role'[l] = role[l]
                               \/ role'[l].stage = "deleted" /\ l \notin In(mgr[l[1]].servers)
                               \/ /\ role[l].stage = "queued" /\ role'[l].stage = "held"
                                  /\ role'[l].sock = role[l].sock /\ role'[l].m = role[l].m
      BY <1>2, <2>1, <3>1, <3>2, <3>3 DEF PopRole
    <3> QED BY <1>1, <3>4, QuietOpen
  <2> QED BY <2>2, <2>3
<1> QED BY <1>3, <1>4, <1>5, <1>6 DEF WorkerStep

LEMMA OpenNext ==
    ASSUME MInv, [Next]_vars
    PROVE  OpenInv'
<1> USE DEF MInv, MainAt
<1>1. \A l \in Listeners : l \in Roles /\ l[1] \in Managers /\ l \notin Clients
  BY ListenersAre DEF Roles
<1>2. CASE \/ ApiListen \/ ApiBegin \/ ApiEnd \/ UNCHANGED vars
           \/ Database \/ Loop \/ Checked \/ ApiStop \/ RestartApi \/ JoinApi
           \/ (\E m \in Old : CheckInvalid(m)) \/ NextWorker \/ JoinWorker \/ Configure \/ Exit
  <2>1. UNCHANGED <<role, mgr>>
    BY <1>2 DEF ApiListen, ApiBegin, ApiEnd, vars, Database, Loop, Checked, ApiStop,
                RestartApi, JoinApi, CheckInvalid, NextWorker, JoinWorker, Configure, Exit
  <2> QED BY <2>1, QuietOpen
<1>3. ASSUME NEW c \in Clients, ClientBreaks(c) PROVE OpenInv'
  <2>1. mgr' = mgr /\ \A l \in Listeners : role'[l] = role[l]
    BY <1>1, <1>3 DEF ClientBreaks, Types
  <2> QED BY <2>1, QuietOpen
<1>4. CASE DeleteMaps \/ FlagGroups
  <2>1. role' = role /\ \A m \in Managers : mgr'[m].servers = mgr[m].servers
    BY ZenonT(60), <1>4 DEF DeleteMaps, FlagGroups, Reloaded, Types, MgrRec
  <2> QED BY <2>1, QuietOpen
<1>5. CASE Erase
  <2>1. /\ role' = Deleted(In(mgr[main.m].list)) /\ mgr[main.m].servers = <<>> /\ main.m \in Managers
        /\ \A m \in Managers : mgr'[m].servers = mgr[m].servers
    BY <1>5 DEF Erase, Types, MgrRec, MainType
  <2>2. ASSUME NEW l \in Listeners, l \in In(mgr[main.m].list), l \in In(mgr[l[1]].servers)
        PROVE  FALSE
    <3>1. role[l].m = main.m
      BY <2>1, <2>2 DEF ListInv, In
    <3>2. l[1] = main.m
      BY <1>1, <2>2, <3>1 DEF OpenInv
    <3> QED BY <2>1, <2>2, <3>2, InShort
  <2>3. \A l \in Listeners : role'[l] = role[l]
                             \/ (role'[l].stage = "deleted" /\ l \notin In(mgr[l[1]].servers))
    BY <1>1, <2>1, <2>2, DeletedIs
  <2> QED BY <2>1, <2>3, QuietOpen
<1>6. CASE CloseServer
  <2> DEFINE q == mgr[main.m].servers  h == Head(q)
  <2>1. /\ main.m \in Managers /\ q # <<>>
        /\ mgr' = [mgr EXCEPT ![main.m].servers = Tail(q)] /\ role' = [role EXCEPT ![h].sock = "closed"]
    BY <1>6 DEF CloseServer, UninitServer, Uninit, Types, MainType
  <2>2. \A m \in Managers : mgr'[m].servers = IF m = main.m THEN Tail(q) ELSE mgr[m].servers
    BY <2>1 DEF Types, MgrRec
  <2>3. h \in Listeners /\ h[1] = main.m /\ In(Tail(q)) = In(q) \ {h}
    BY <2>1, ShorterServers DEF ServersInv
  <2> HIDE DEF h
  <2>4. /\ role'[h].sock = "closed"
        /\ \A l \in Listeners : l # h => role'[l] = role[l]
    BY <1>1, <2>1, <2>3 DEF Types, RoleRec
  <2>5. \A m \in Managers : In(mgr'[m].servers) = IF m = main.m THEN In(q) \ {h} ELSE In(mgr[m].servers)
    BY <2>2, <2>3
  <2>6. \A m \in Managers : \A l \in In(mgr[m].servers) : l \in Listeners /\ l[1] = m
    BY ShorterServers DEF ServersInv
  <2>7. ASSUME NEW m \in Managers, NEW l \in In(mgr'[m].servers)
        PROVE  role'[l].stage \in {"queued", "held"} /\ role'[l].sock = "open" /\ role'[l].m = m
    <3>1. l \in In(mgr[m].servers) /\ l # h
      BY <2>3, <2>5, <2>6, <2>7
    <3>2. role'[l] = role[l]
      BY <2>4, <2>6, <3>1
    <3> QED BY <3>1, <3>2 DEF OpenInv
  <2>8. ASSUME NEW l \in Listeners, role'[l].stage \in {"queued", "held"}, role'[l].sock = "open"
        PROVE  l \in In(mgr'[l[1]].servers)
    <3>1. l # h /\ role'[l] = role[l]
      BY <2>4, <2>8
    <3>2. l \in In(mgr[l[1]].servers)
      BY <2>8, <3>1 DEF OpenInv
    <3> QED BY <1>1, <2>5, <3>1, <3>2
  <2> QED BY <2>7, <2>8 DEF OpenInv, In
<1>7. CASE Start
  <2>1. main.at = "start" /\ conf \in Managers
        /\ \A m \in Managers : mgr[m].servers = <<>>
    BY <1>7 DEF Start, Control, Reloading, ServersInv
  <2>2. PICK single \in BOOLEAN, ls \in Servers(conf) :
          \E ws \in SUBSET Groups(conf, single) : Started(conf, single, ls, ws)
    BY <1>7, <2>1, StartIs
  <2>3. /\ \A m \in Managers : mgr'[m].servers = IF m = conf THEN ls ELSE <<>>
        /\ \A l \in Listeners :
             IF l \in In(ls)
             THEN role'[l].stage = "queued" /\ role'[l].sock = "open" /\ role'[l].m = conf
             ELSE role'[l] = role[l]
    BY <1>1, <2>1, <2>2 DEF Started, Types, NoRole
  <2>4. \A l \in In(ls) : l \in Listeners /\ l[1] = conf
    BY <2>1, ShorterServers DEF Servers
  <2>5. In(<<>>) = {}
    BY InShort
  <2>6. ASSUME NEW l \in Listeners, role[l].stage \in {"queued", "held"}, role[l].sock = "open"
        PROVE  FALSE
    <3>1. l \in In(mgr[l[1]].servers)
      BY <2>6 DEF OpenInv
    <3> QED BY <1>1, <2>1, <2>5, <3>1
  <2>7. ASSUME NEW m \in Managers, NEW l \in In(mgr'[m].servers)
        PROVE  role'[l].stage \in {"queued", "held"} /\ role'[l].sock = "open" /\ role'[l].m = m
    BY <2>3, <2>4, <2>5, <2>7
  <2>8. ASSUME NEW l \in Listeners, role'[l].stage \in {"queued", "held"}, role'[l].sock = "open"
        PROVE  l \in In(mgr'[l[1]].servers)
    BY <1>1, <2>3, <2>4, <2>6, <2>8
  <2> QED BY <2>7, <2>8 DEF OpenInv, In
<1> QED BY <1>2, <1>3, <1>4, <1>5, <1>6, <1>7, WorkersOpen DEF Next, MainStep
-----------------------------------------------------------------------------
(* Roles, their lists and their groups. *)
RolesInv == ListInv /\ OwnInv /\ QueuedInv /\ HeldInv

(* Steps that change at most sockets of roles and no list. *)
LEMMA QuietRoles ==
    ASSUME MInv,
           \A m \in Managers : /\ mgr'[m].list = mgr[m].list /\ mgr'[m].single = mgr[m].single
                               /\ mgr'[m].stage \in {mgr[m].stage, "old"},
           \A r \in Roles : /\ role'[r].stage = role[r].stage
                            /\ role'[r].m = role[r].m /\ role'[r].w = role[r].w,
           \A w \in Workers : worker'[w].at = worker[w].at
                              \/ worker[w].at = "exited"
                              \/ (worker'[w].at = "deleted" /\ mgr[w[1]].single)
                              \/ {worker[w].at, worker'[w].at} \subseteq {"top", "handler", "idle_check"}
    PROVE  RolesInv'
<1> USE DEF MInv
<1>1. \A m \in Managers : mgr[m].list \in Seq(Roles) /\ \A i \in DOMAIN mgr[m].list : mgr[m].list[i] \in Roles
  BY DEF Types, MgrRec
<1>2. ListInv'
  BY <1>1 DEF ListInv
<1>3. OwnInv'
  BY DEF OwnInv, Roles
<1>4. QueuedInv'
  BY DEF QueuedInv, In
<1>5. HeldInv'
  <2> SUFFICES ASSUME NEW r \in Roles, role'[r].stage = "held"
               PROVE  LET v == <<role[r].m, role[r].w>> IN
                      /\ v \in Workers
                      /\ \/ worker'[v].at \in {"top", "handler", "idle_check"}
                         \/ worker'[v].at = "deleted" /\ mgr'[v[1]].single
    BY DEF HeldInv
  <2> DEFINE v == <<role[r].m, role[r].w>>
  <2>1. v \in Workers /\ (\/ worker[v].at \in {"top", "handler", "idle_check"}
                          \/ worker[v].at = "deleted" /\ mgr[v[1]].single)
    BY DEF HeldInv
  <2>2. v[1] \in Managers
    BY <2>1, WorkersAre
  <2> HIDE DEF v
  <2>3. mgr'[v[1]].single = mgr[v[1]].single
    BY <2>2
  <2>4. \/ worker'[v].at \in {"top", "handler", "idle_check"}
        \/ worker'[v].at = "deleted" /\ mgr'[v[1]].single
    BY <2>1, <2>3
  <2> QED BY <2>1, <2>4 DEF v
<1> QED BY <1>2, <1>3, <1>4, <1>5 DEF RolesInv

(* Steps that end roles of groups, by their worker, and no others. *)
LEMMA EndingRoles ==
    ASSUME MInv, NEW w \in Workers, NEW rs \in SUBSET Held(w), role' = Deleted(rs), mgr' = mgr,
           \A v \in Workers : v # w => worker'[v] = worker[v],
           worker'[w].at = "top" \/ rs = Held(w)
    PROVE  RolesInv'
<1> USE DEF MInv
<1>1. \A r \in Roles : r \notin rs => role'[r] = role[r]
  BY DeletedIs
<1>2. \A r \in Roles : r \in rs => role[r].stage = "held" /\ role'[r].stage = "deleted"
                                   /\ w = <<role[r].m, role[r].w>>
  BY DeletedIs DEF Held
<1>3. \A m \in Managers : mgr[m].list \in Seq(Roles) /\ \A i \in DOMAIN mgr[m].list : mgr[m].list[i] \in Roles
  BY DEF Types, MgrRec
<1>4. ListInv'
  BY <1>1, <1>2, <1>3 DEF ListInv
<1>5. OwnInv'
  BY <1>1, <1>2 DEF OwnInv, Roles
<1>6. QueuedInv'
  BY <1>1, <1>2 DEF QueuedInv
<1>7. HeldInv'
  <2> SUFFICES ASSUME NEW r \in Roles, role'[r].stage = "held"
               PROVE  LET v == <<role[r].m, role[r].w>> IN
                      /\ v \in Workers
                      /\ \/ worker'[v].at \in {"top", "handler", "idle_check"}
                         \/ worker'[v].at = "deleted" /\ mgr[v[1]].single
    BY <1>1, <1>2 DEF HeldInv
  <2>1. r \notin rs /\ role[r].stage = "held"
    BY <1>1, <1>2
  <2> DEFINE v == <<role[r].m, role[r].w>>
  <2>2. v = w => worker'[w].at = "top"
    BY <2>1 DEF Held
  <2> QED BY <2>1, <2>2 DEF HeldInv
<1> QED BY <1>4, <1>5, <1>6, <1>7 DEF RolesInv

LEMMA PopRoles ==
    ASSUME MInv, NEW w \in Workers, NEW q, q = Head(mgr[w[1]].list), PopList(w), PopRole(w, q),
           \A v \in Workers : v # w => worker'[v] = worker[v],
           worker'[w].at = "top"
    PROVE  RolesInv'
<1> USE DEF MInv
<1> DEFINE s == mgr[w[1]].list
<1>1. w[1] \in Managers /\ w = <<w[1], w[2]>>
  BY WorkersAre
<1>2. /\ s \in Seq(Roles) /\ s # <<>>
      /\ \A m \in Managers : /\ mgr'[m].list = IF m = w[1] THEN Tail(s) ELSE mgr[m].list
                             /\ mgr'[m].stage = mgr[m].stage /\ mgr'[m].single = mgr[m].single
  BY <1>1 DEF PopList, Types, MgrRec
<1>3. /\ q \in Roles /\ role[q].stage = "queued" /\ role[q].m = w[1] /\ q = s[1] /\ 1 \in DOMAIN s
      /\ \/ role'[q].stage = "deleted"
         \/ role'[q].stage = "held" /\ role'[q].w = w[2] /\ role'[q].m = w[1]
  BY <1>2, InTail DEF PopRole
<1>4. \A r \in Roles : r # q => \/ role'[r] = role[r]
                                \/ role[r].stage = "held" /\ role'[r].stage = "deleted"
  <2>1. \A r \in Broken(w) : role[r].stage = "held"
    BY DEF Broken, Held
  <2> QED BY <2>1, DeletedIs DEF PopRole
<1>5. \A m \in Managers : mgr[m].list \in Seq(Roles) /\ \A i \in DOMAIN mgr[m].list : mgr[m].list[i] \in Roles
  BY DEF Types, MgrRec
<1>6. /\ \A i \in DOMAIN Tail(s) : i + 1 \in DOMAIN s /\ Tail(s)[i] = s[i + 1] /\ i # 0 /\ i \in Nat
      /\ \A i \in DOMAIN s : i # 1 => i - 1 \in DOMAIN Tail(s) /\ Tail(s)[i - 1] = s[i]
  BY <1>2, InTail
<1> HIDE DEF s
<1>7. \A i \in DOMAIN s : role[s[i]].stage = "queued" /\ role[s[i]].m = w[1] /\ s[i] \in Roles
                          /\ \A j \in DOMAIN s : s[i] = s[j] => i = j
  BY <1>1, <1>5 DEF ListInv, s
<1>8. ListInv'
  <2> SUFFICES ASSUME NEW m \in Managers, NEW i \in DOMAIN mgr'[m].list
               PROVE  /\ role'[mgr'[m].list[i]].stage = "queued" /\ role'[mgr'[m].list[i]].m = m
                      /\ \A j \in DOMAIN mgr'[m].list : mgr'[m].list[i] = mgr'[m].list[j] => i = j
    BY DEF ListInv
  <2>1. CASE m = w[1]
    <3>1. mgr'[m].list = Tail(s) /\ i + 1 \in DOMAIN s /\ Tail(s)[i] = s[i + 1] /\ i # 0 /\ i \in Nat
      BY <1>2, <1>6, <2>1
    <3>2. s[i + 1] # q
      BY <1>3, <1>7, <3>1
    <3>3. role'[s[i + 1]] = role[s[i + 1]]
      BY <1>4, <1>7, <3>1, <3>2
    <3>4. ASSUME NEW j \in DOMAIN Tail(s), Tail(s)[i] = Tail(s)[j] PROVE i = j
      BY <1>6, <1>7, <3>1, <3>4
    <3> QED BY <1>7, <2>1, <3>1, <3>3, <3>4
  <2>2. CASE m # w[1]
    <3>1. mgr'[m].list = mgr[m].list
      BY <1>2, <2>2
    <3>2. role[mgr[m].list[i]].stage = "queued" /\ role[mgr[m].list[i]].m = m /\ mgr[m].list[i] \in Roles
      BY <1>5, <3>1 DEF ListInv
    <3>3. role'[mgr[m].list[i]] = role[mgr[m].list[i]]
      BY <1>3, <1>4, <2>2, <3>2
    <3> QED BY <3>1, <3>2, <3>3 DEF ListInv
  <2> QED BY <2>1, <2>2
<1>9. OwnInv'
  <2>1. \A l \in Listeners : l \in Roles
    BY DEF Roles
  <2> QED BY <1>3, <1>4, <2>1 DEF OwnInv
<1>10. QueuedInv'
  <2> SUFFICES ASSUME NEW r \in Roles, role'[r].stage = "queued"
               PROVE  /\ role'[r].m \in Managers /\ mgr'[role'[r].m].stage \in {"current", "old"}
                      /\ r \in In(mgr'[role'[r].m].list)
    BY DEF QueuedInv, In
  <2>1. r # q /\ role'[r] = role[r]
    BY <1>3, <1>4
  <2>2. role[r].m \in Managers /\ mgr[role[r].m].stage \in {"current", "old"}
        /\ r \in In(mgr[role[r].m].list)
    BY <2>1 DEF QueuedInv
  <2>3. CASE role[r].m = w[1]
    <3>1. PICK i \in DOMAIN s : r = s[i]
      BY <2>2, <2>3 DEF In, s
    <3>2. i # 1
      BY <1>3, <2>1, <3>1
    <3>3. i - 1 \in DOMAIN Tail(s) /\ Tail(s)[i - 1] = r
      BY <1>6, <3>1, <3>2
    <3>4. mgr'[w[1]].list = Tail(s)
      BY <1>1, <1>2
    <3> QED BY <1>2, <2>1, <2>2, <2>3, <3>3, <3>4 DEF In
  <2>4. CASE role[r].m # w[1]
    BY <1>2, <2>1, <2>2, <2>4 DEF In
  <2> QED BY <2>3, <2>4
<1>11. HeldInv'
  <2> SUFFICES ASSUME NEW r \in Roles, role'[r].stage = "held"
               PROVE  LET v == <<role'[r].m, role'[r].w>> IN
                      /\ v \in Workers
                      /\ \/ worker'[v].at \in {"top", "handler", "idle_check"}
                         \/ worker'[v].at = "deleted" /\ mgr'[v[1]].single
    BY DEF HeldInv
  <2>1. CASE r = q
    BY <1>1, <1>3, <2>1
  <2>2. CASE r # q
    <3>1. role'[r] = role[r]
      BY <1>4, <2>2
    <3> DEFINE v == <<role[r].m, role[r].w>>
    <3>2. v \in Workers /\ (\/ worker[v].at \in {"top", "handler", "idle_check"}
                            \/ worker[v].at = "deleted" /\ mgr[v[1]].single)
      BY <3>1 DEF HeldInv
    <3>3. v[1] \in Managers
      BY <3>2, WorkersAre
    <3> HIDE DEF v
    <3>4. \/ worker'[v].at \in {"top", "handler", "idle_check"}
          \/ worker'[v].at = "deleted" /\ mgr'[v[1]].single
      BY <1>2, <3>2, <3>3
    <3> QED BY <3>1, <3>2, <3>4 DEF v
  <2> QED BY <2>1, <2>2
<1> QED BY <1>8, <1>9, <1>10, <1>11 DEF RolesInv

(* A role joins the end of a list. *)
LEMMA PushRoles ==
    ASSUME MInv, NEW w \in Workers, worker[w].at = "handler", NEW c \in Clients,
           role[c].stage = "none", mgr[w[1]].list \in Seq(Roles),
           mgr' = [mgr EXCEPT ![w[1]].list = Append(mgr[w[1]].list, c)],
           \A r \in Roles : r # c => role'[r] = role[r],
           role'[c].stage = "queued", role'[c].m = w[1],
           \A v \in Workers : v # w => worker'[v] = worker[v],
           worker'[w].at = "idle_check"
    PROVE  RolesInv'
<1> USE DEF MInv
<1> DEFINE s == mgr[w[1]].list
<1>1. w[1] \in Managers /\ mgr[w[1]].stage \in {"current", "old"} /\ c \in Roles /\ c \notin Listeners
  <2>1. w[1] \in Managers /\ w \in WorkersOf(w[1]) /\ c \in Roles /\ c \notin Listeners
    BY WorkersAre, ListenersAre DEF Roles
  <2>2. mgr[w[1]].stage \notin {"none", "deleted"}
    BY <2>1 DEF WorkerInv, Unstarted, Maps, WorkersGone, Exists, NoWorker
  <2>3. mgr[w[1]].stage \in Stages
    BY <2>1 DEF Types, MgrRec
  <2> QED BY <2>1, <2>2, <2>3 DEF Stages
<1>2. \A m \in Managers : /\ mgr'[m].list = IF m = w[1] THEN Append(s, c) ELSE mgr[m].list
                          /\ mgr'[m].stage = mgr[m].stage /\ mgr'[m].single = mgr[m].single
  BY <1>1 DEF Types, MgrRec
<1>3. /\ DOMAIN Append(s, c) = DOMAIN s \cup {Len(s) + 1} /\ Len(s) + 1 \notin DOMAIN s
      /\ \A i \in DOMAIN s : Append(s, c)[i] = s[i]
      /\ Append(s, c)[Len(s) + 1] = c
  <2>1. s \in Seq(Roles)
    OBVIOUS
  <2> HIDE DEF s, MInv
  <2> QED BY <2>1, InAppend
<1>4. \A m \in Managers : \A i \in DOMAIN mgr[m].list :
        /\ mgr[m].list[i] \in Roles /\ mgr[m].list[i] # c
        /\ role[mgr[m].list[i]].stage = "queued" /\ role[mgr[m].list[i]].m = m
        /\ \A j \in DOMAIN mgr[m].list : mgr[m].list[i] = mgr[m].list[j] => i = j
  BY DEF Types, MgrRec, ListInv
<1>5. ListInv'
  <2> SUFFICES ASSUME NEW m \in Managers, NEW i \in DOMAIN mgr'[m].list
               PROVE  /\ role'[mgr'[m].list[i]].stage = "queued" /\ role'[mgr'[m].list[i]].m = m
                      /\ \A j \in DOMAIN mgr'[m].list : mgr'[m].list[i] = mgr'[m].list[j] => i = j
    BY DEF ListInv
  <2>1. CASE m # w[1]
    BY <1>2, <1>4, <2>1
  <2>2. CASE m = w[1]
    <3>1. mgr'[m].list = Append(s, c)
      BY <1>2, <2>2
    <3>2. \A j \in DOMAIN s : s[j] \in Roles /\ s[j] # c /\ role[s[j]].stage = "queued" /\ role[s[j]].m = m
                              /\ \A k \in DOMAIN s : s[j] = s[k] => j = k
      BY <1>4, <2>2
    <3>3. role'[c].stage = "queued" /\ role'[c].m = m /\ \A r \in Roles : r # c => role'[r] = role[r]
      BY <2>2
    <3> HIDE DEF s, MInv
    <3>4. CASE i \in DOMAIN s
      <4>1. Append(s, c)[i] = s[i] /\ role'[s[i]] = role[s[i]]
        BY <1>3, <3>2, <3>3, <3>4
      <4>2. \A j \in DOMAIN Append(s, c) : s[i] = Append(s, c)[j] => i = j
        BY <1>3, <3>2, <3>4
      <4>3. role'[Append(s, c)[i]].stage = "queued" /\ role'[Append(s, c)[i]].m = m
        BY <3>2, <3>4, <4>1
      <4>4. \A j \in DOMAIN Append(s, c) : Append(s, c)[i] = Append(s, c)[j] => i = j
        BY <4>1, <4>2
      <4> QED BY ONLY <3>1, <4>3, <4>4
    <3>5. CASE i = Len(s) + 1
      <4>1. Append(s, c)[i] = c
        BY <1>3, <3>5
      <4>2. \A j \in DOMAIN Append(s, c) : c = Append(s, c)[j] => i = j
        BY <1>3, <3>2, <3>5
      <4> QED BY <3>1, <3>3, <4>1, <4>2
    <3> QED BY <1>3, <3>1, <3>4, <3>5
  <2> QED BY <2>1, <2>2
<1>6. OwnInv'
  BY <1>1 DEF OwnInv, Roles
<1>7. QueuedInv'
  <2> SUFFICES ASSUME NEW r \in Roles, role'[r].stage = "queued"
               PROVE  /\ role'[r].m \in Managers /\ mgr'[role'[r].m].stage \in {"current", "old"}
                      /\ r \in In(mgr'[role'[r].m].list)
    BY DEF QueuedInv, In
  <2>1. CASE r = c
    <3>1. c \in In(Append(s, c))
      BY <1>3 DEF In
    <3> QED BY <1>1, <1>2, <2>1, <3>1
  <2>2. CASE r # c
    <3>1. role'[r] = role[r] /\ role[r].m \in Managers /\ mgr[role[r].m].stage \in {"current", "old"}
          /\ r \in In(mgr[role[r].m].list)
      BY <2>2 DEF QueuedInv
    <3>2. In(s) \subseteq In(Append(s, c))
      BY <1>3 DEF In
    <3> QED BY <1>2, <3>1, <3>2
  <2> QED BY <2>1, <2>2
<1>8. HeldInv'
  <2> SUFFICES ASSUME NEW r \in Roles, role'[r].stage = "held"
               PROVE  LET v == <<role'[r].m, role'[r].w>> IN
                      /\ v \in Workers
                      /\ \/ worker'[v].at \in {"top", "handler", "idle_check"}
                         \/ worker'[v].at = "deleted" /\ mgr'[v[1]].single
    BY DEF HeldInv
  <2>1. role'[r] = role[r]
    OBVIOUS
  <2> DEFINE v == <<role[r].m, role[r].w>>
  <2>2. v \in Workers /\ (\/ worker[v].at \in {"top", "handler", "idle_check"}
                          \/ worker[v].at = "deleted" /\ mgr[v[1]].single)
    BY <2>1 DEF HeldInv
  <2>3. v[1] \in Managers
    BY <2>2, WorkersAre
  <2> HIDE DEF v
  <2>4. \/ worker'[v].at \in {"top", "handler", "idle_check"}
        \/ worker'[v].at = "deleted" /\ mgr'[v[1]].single
    BY <1>2, <2>2, <2>3
  <2> QED BY <2>1, <2>2, <2>4 DEF v
<1> QED BY <1>5, <1>6, <1>7, <1>8 DEF RolesInv

LEMMA WorkersRoles ==
    ASSUME MInv, NEW w \in Workers, WorkerStep(w)
    PROVE  RolesInv'
<1>1. \A v \in Workers : v # w => worker'[v] = worker[v]
  BY WorkerStepDoes DEF MInv
<1>2. Types
  BY DEF MInv
<1>3. CASE LeaveLoop(w)
  <2>1. role' = Deleted(Held(w)) /\ mgr' = mgr
    BY <1>3 DEF LeaveLoop
  <2> QED BY <1>1, <2>1, EndingRoles
<1>4. CASE BeginHandler(w)
  <2>1. /\ UNCHANGED <<mgr, role>> /\ worker[w].at = "top"
        /\ worker'[w].at = "handler"
    BY <1>2, <1>4 DEF BeginHandler, InRound, WorkerGoto, Types, WorkerRec
  <2> QED BY <1>1, <2>1, QuietRoles
<1>5. CASE EndHandler(w)
  <2>1. worker[w].at = "handler" /\ worker'[w].at = "idle_check"
    BY <1>2, <1>5 DEF EndHandler, WorkerGoto, Types, WorkerRec
  <2>2. CASE UNCHANGED <<role, mgr>>
    BY <1>1, <2>1, <2>2, QuietRoles
  <2>3. CASE ~UNCHANGED <<role, mgr>>
    <3>1. PICK c \in Clients :
            /\ role[c].stage = "none" /\ mgr[w[1]].list \in Seq(Roles)
            /\ mgr' = [mgr EXCEPT ![w[1]].list = Append(mgr[w[1]].list, c)]
            /\ \A r \in Roles : r # c => role'[r] = role[r]
            /\ role'[c].stage = "queued" /\ role'[c].m = w[1]
      BY <1>5, <2>3, EndHandlerDoes
    <3> QED BY <1>1, <2>1, <3>1, PushRoles
  <2> QED BY <2>2, <2>3
<1>6. CASE IdleCheck(w)
  <2>1. worker'[w].at = "top"
    BY <1>2, <1>6 DEF IdleCheck, WorkerGoto, Types, WorkerRec
  <2>2. PICK q : q = Head(mgr[w[1]].list)
    OBVIOUS
  <2>3. CASE mgr' = mgr /\ role' = Deleted(Broken(w))
    <3>1. Broken(w) \in SUBSET Held(w)
      BY DEF Broken
    <3> QED BY <1>1, <2>1, <2>3, <3>1, EndingRoles
  <2>4. CASE PopList(w) /\ PopRole(w, q)
    BY <1>1, <2>1, <2>2, <2>4, PopRoles
  <2> QED BY <1>6, <2>2, <2>3, <2>4, IdleCheckDoes
<1> QED BY <1>3, <1>4, <1>5, <1>6 DEF WorkerStep

LEMMA RolesNext ==
    ASSUME MInv, [Next]_vars
    PROVE  RolesInv'
<1> USE DEF MainAt
<1>1. Types /\ Control /\ WorkerInv /\ ServersInv /\ ListInv /\ OwnInv /\ QueuedInv /\ HeldInv
  BY DEF MInv
<1>2. /\ \A w \in Workers : w[1] \in Managers /\ worker[w].at \in {"none", "top", "handler", "idle_check", "exited", "deleted"}
      /\ \A l \in Listeners : l \in Roles /\ l[1] \in Managers
  BY <1>1, WorkersAre, ListenersAre DEF Types, WorkerRec, Roles
<1>3. CASE \/ ApiListen \/ ApiBegin \/ ApiEnd \/ UNCHANGED vars
           \/ Database \/ Loop \/ Checked \/ ApiStop \/ RestartApi \/ JoinApi \/ Configure \/ Exit
  <2>1. UNCHANGED <<role, mgr, worker>>
    BY <1>3 DEF ApiListen, ApiBegin, ApiEnd, vars, Database, Loop, Checked, ApiStop,
                RestartApi, JoinApi, Configure, Exit
  <2> QED BY <2>1, QuietRoles
<1>4. ASSUME NEW c \in Clients, ClientBreaks(c) PROVE RolesInv'
  <2>1. /\ mgr' = mgr /\ worker' = worker
        /\ \A r \in Roles : /\ role'[r].stage = role[r].stage
                            /\ role'[r].m = role[r].m /\ role'[r].w = role[r].w
    BY <1>1, <1>4 DEF ClientBreaks, Types, RoleRec
  <2> QED BY <2>1, QuietRoles
<1>5. CASE CloseServer
  <2>1. \E h : role' = [role EXCEPT ![h].sock = "closed"]
    BY <1>5 DEF CloseServer, UninitServer, Uninit
  <2>2. \A r \in Roles : /\ role'[r].stage = role[r].stage
                         /\ role'[r].m = role[r].m /\ role'[r].w = role[r].w
    BY <1>1, <2>1 DEF Types, RoleRec
  <2>3. \E q : mgr' = [mgr EXCEPT ![main.m].servers = q]
    BY <1>5 DEF CloseServer, UninitServer, Uninit
  <2>4. \A m \in Managers : /\ mgr'[m].list = mgr[m].list /\ mgr'[m].single = mgr[m].single
                            /\ mgr'[m].stage = mgr[m].stage
    BY <1>1, <2>3 DEF Types, MgrRec
  <2>5. worker' = worker
    BY <1>5 DEF CloseServer
  <2> QED BY <2>2, <2>4, <2>5, QuietRoles
<1>6. CASE DeleteMaps \/ FlagGroups
  <2>1. \A m \in Managers : /\ mgr'[m].list = mgr[m].list /\ mgr'[m].single = mgr[m].single
                            /\ mgr'[m].stage \in {mgr[m].stage, "old"}
    <3>1. CASE DeleteMaps
      BY <1>1, <3>1 DEF DeleteMaps, Types, MgrRec
    <3>2. CASE FlagGroups
      BY <1>1, <3>2 DEF FlagGroups, Reloaded, Types, MgrRec
    <3> QED BY <1>6, <3>1, <3>2
  <2>2. UNCHANGED <<role, worker>>
    BY <1>6 DEF DeleteMaps, FlagGroups
  <2> QED BY <2>1, <2>2, QuietRoles
<1>7. ASSUME NEW m \in Old, CheckInvalid(m) PROVE RolesInv'
  <2>1. /\ UNCHANGED <<role, mgr>>
        /\ \A w \in Workers : worker'[w].at = worker[w].at \/ worker[w].at = "exited"
    BY <1>1, <1>7 DEF CheckInvalid, Exited, Types
  <2> QED BY <2>1, QuietRoles
<1>8. CASE NextWorker
  <2>1. PICK w \in WorkersOf(main.m) : worker' = [worker EXCEPT ![w].m_exit = @ \/ HasThread(w)]
    BY <1>8 DEF NextWorker
  <2>2. UNCHANGED <<role, mgr>> /\ \A v \in Workers : worker'[v].at = worker[v].at
    BY <1>1, <1>8, <2>1 DEF NextWorker, Types, WorkerRec
  <2> QED BY <2>2, QuietRoles
<1>9. CASE JoinWorker
  <2> DEFINE w == main.w
  <2>1. w \in Workers /\ UNCHANGED <<role, mgr>> /\ WorkerGoto(w, "deleted")
        /\ (HasThread(w) => worker[w].at = "exited")
    BY <1>1, <1>9 DEF JoinWorker, Joined, Types, MainType
  <2> HIDE DEF w
  <2>2. \A v \in Workers : v # w => worker'[v] = worker[v]
    BY <1>1, <2>1 DEF WorkerGoto, Types
  <2>3. worker'[w].at = "deleted"
    BY <1>1, <2>1 DEF WorkerGoto, Types, WorkerRec
  <2>4. worker[w].at = "exited" \/ mgr[w[1]].single
    BY <2>1 DEF HasThread
  <2> QED BY <2>1, <2>2, <2>3, <2>4, QuietRoles
<1>10. CASE Erase
  <2> DEFINE n == main.m  s == mgr[n].list
  <2>1. /\ n \in Managers /\ WorkersGone(n) /\ worker' = worker
        /\ role' = Deleted(In(s)) /\ mgr' = [mgr EXCEPT ![n].stage = "deleted", ![n].list = <<>>]
    BY <1>1, <1>10 DEF Erase, Types, MainType
  <2>2. \A m \in Managers : /\ m # n => mgr'[m].list = mgr[m].list /\ mgr'[m].stage = mgr[m].stage
                            /\ mgr'[m].single = mgr[m].single
    BY <1>1, <2>1 DEF Types, MgrRec
  <2>3. mgr'[n].list = <<>>
    BY <1>1, <2>1 DEF Types, MgrRec
  <2>4. \A m \in Managers : \A i \in DOMAIN mgr[m].list : mgr[m].list[i] \in Roles
    BY <1>1 DEF Types, MgrRec
  <2>5. \A r \in Roles : \/ role'[r] = role[r] /\ r \notin In(s)
                         \/ /\ role'[r].stage = "deleted"
                            /\ role[r].stage = "queued" /\ role[r].m = n
    <3>1. \A r \in In(s) : role[r].stage = "queued" /\ role[r].m = n
      BY <1>1, <2>1 DEF ListInv, In
    <3> QED BY <2>1, <3>1, DeletedIs
  <2> HIDE DEF n, s
  <2>6. ListInv'
    <3> SUFFICES ASSUME NEW m \in Managers, NEW i \in DOMAIN mgr'[m].list
                 PROVE  /\ role'[mgr'[m].list[i]].stage = "queued" /\ role'[mgr'[m].list[i]].m = m
                        /\ \A j \in DOMAIN mgr'[m].list : mgr'[m].list[i] = mgr'[m].list[j] => i = j
      BY DEF ListInv
    <3>1. m # n
      BY <2>3
    <3>2. mgr'[m].list = mgr[m].list /\ role[mgr[m].list[i]].m = m /\ role[mgr[m].list[i]].stage = "queued"
          /\ mgr[m].list[i] \in Roles
      BY <1>1, <2>2, <2>4, <3>1 DEF ListInv
    <3>3. role'[mgr[m].list[i]] = role[mgr[m].list[i]]
      BY <2>5, <3>1, <3>2
    <3> QED BY <1>1, <3>2, <3>3 DEF ListInv
  <2>7. OwnInv'
    BY <1>1, <1>2, <2>5 DEF OwnInv
  <2>8. QueuedInv'
    <3> SUFFICES ASSUME NEW r \in Roles, role'[r].stage = "queued"
                 PROVE  /\ role'[r].m \in Managers /\ mgr'[role'[r].m].stage \in {"current", "old"}
                        /\ r \in In(mgr'[role'[r].m].list)
      BY DEF QueuedInv, In
    <3>1. role'[r] = role[r] /\ r \notin In(s)
      BY <2>5
    <3>2. role[r].m # n
      BY <1>1, <3>1 DEF QueuedInv, s
    <3> QED BY <1>1, <2>2, <3>1, <3>2 DEF QueuedInv
  <2>9. HeldInv'
    <3> SUFFICES ASSUME NEW r \in Roles, role'[r].stage = "held"
                 PROVE  LET v == <<role'[r].m, role'[r].w>> IN
                        /\ v \in Workers
                        /\ \/ worker'[v].at \in {"top", "handler", "idle_check"}
                           \/ worker'[v].at = "deleted" /\ mgr'[v[1]].single
      BY DEF HeldInv
    <3>1. role'[r] = role[r]
      BY <2>5
    <3> DEFINE v == <<role[r].m, role[r].w>>
    <3>2. v \in Workers /\ (\/ worker[v].at \in {"top", "handler", "idle_check"}
                            \/ worker[v].at = "deleted" /\ mgr[v[1]].single)
      BY <1>1, <3>1 DEF HeldInv
    <3> HIDE DEF v
    <3>3. mgr'[v[1]].single = mgr[v[1]].single
      BY <1>2, <2>2, <3>2
    <3> QED BY <2>1, <3>1, <3>2, <3>3 DEF v
  <2> QED BY <2>6, <2>7, <2>8, <2>9 DEF RolesInv
<1>11. CASE Start
  <2>1. conf \in Managers /\ mgr[conf].stage = "none"
    BY <1>1, <1>11 DEF Start, Control, Reloading
  <2>2. PICK single \in BOOLEAN, ls \in Servers(conf) :
          \E ws \in SUBSET Groups(conf, single) : Started(conf, single, ls, ws)
    BY <1>11, <2>1, StartIs
  <2>3. PICK ws \in SUBSET Groups(conf, single) : Started(conf, single, ls, ws)
    BY <2>2
  <2>4. \A m \in Managers : IF m = conf THEN mgr'[m].stage = "current" /\ mgr'[m].list = ls
                                        ELSE mgr'[m] = mgr[m]
    BY <1>1, <2>3 DEF Started, Types
  <2>5. \A r \in Roles : IF r \in In(ls) THEN role'[r].stage = "queued" /\ role'[r].m = conf
                                         ELSE role'[r] = role[r]
    BY <2>3 DEF Started, NoRole
  <2>6. \A w \in Workers : IF w \in ws THEN worker'[w].at = "top" ELSE worker'[w] = worker[w]
    BY <2>3 DEF Started, NoWorker
  <2>7. \A l \in In(ls) : l \in Listeners /\ l[1] = conf
    BY <2>1, ShorterServers DEF Servers
  <2>8. \A i, j \in DOMAIN ls : ls[i] = ls[j] => i = j
    <3> DEFINE a == <<conf, "publisher">>  b == <<conf, "player">>
    <3>1. a # b /\ ls \in {<<>>, <<a>>, <<a, b>>}
      BY <2>1, ListenersAre DEF Servers, ListenersOf
    <3> HIDE DEF a, b
    <3> QED BY <3>1
  <2>9. \A r \in Roles : role[r].stage = "queued" => role[r].m # conf
    BY <1>1, <2>1 DEF QueuedInv
  <2>10. ASSUME NEW r \in Roles, role[r].stage = "queued" PROVE r \notin In(ls)
    BY <1>1, <2>7, <2>9, <2>10 DEF OwnInv
  <2>11. ASSUME NEW r \in Roles, role[r].stage = "held" PROVE r \notin In(ls) /\ role[r].m # conf
    <3> DEFINE v == <<role[r].m, role[r].w>>
    <3>1. Exists(v) \/ worker[v].at = "deleted"
      BY <1>1, <2>11 DEF HeldInv, Exists
    <3>2. v \in Workers
      BY <1>1, <2>11 DEF HeldInv
    <3>3. worker[v] # NoWorker
      BY <3>1 DEF NoWorker, Exists
    <3>4. role[r].m # conf
      BY <1>1, <2>1, <3>2, <3>3 DEF WorkerInv, Unstarted
    <3> QED BY <1>1, <2>7, <2>11, <3>4 DEF OwnInv
  <2>12. ListInv'
    <3> SUFFICES ASSUME NEW m \in Managers, NEW i \in DOMAIN mgr'[m].list
                 PROVE  /\ role'[mgr'[m].list[i]].stage = "queued" /\ role'[mgr'[m].list[i]].m = m
                        /\ \A j \in DOMAIN mgr'[m].list : mgr'[m].list[i] = mgr'[m].list[j] => i = j
      BY DEF ListInv
    <3>1. CASE m = conf
      <4>1. mgr'[m].list = ls /\ ls[i] \in In(ls)
        BY <2>4, <3>1 DEF In
      <4>2. ls[i] \in Roles
        BY <1>2, <2>7, <4>1
      <4> QED BY <2>5, <2>8, <3>1, <4>1, <4>2
    <3>2. CASE m # conf
      <4>1. mgr'[m].list = mgr[m].list
        BY <2>4, <3>2
      <4>2. mgr[m].list[i] \in Roles /\ role[mgr[m].list[i]].stage = "queued"
        BY <1>1, <4>1 DEF ListInv, Types, MgrRec
      <4>3. role'[mgr[m].list[i]] = role[mgr[m].list[i]]
        BY <2>5, <2>10, <4>2
      <4> QED BY <1>1, <4>1, <4>3 DEF ListInv
    <3> QED BY <3>1, <3>2
  <2>13. OwnInv'
    BY <1>1, <1>2, <2>5, <2>7 DEF OwnInv
  <2>14. QueuedInv'
    <3> SUFFICES ASSUME NEW r \in Roles, role'[r].stage = "queued"
                 PROVE  /\ role'[r].m \in Managers /\ mgr'[role'[r].m].stage \in {"current", "old"}
                        /\ r \in In(mgr'[role'[r].m].list)
      BY DEF QueuedInv, In
    <3>1. CASE r \in In(ls)
      BY <2>1, <2>4, <2>5, <3>1
    <3>2. CASE r \notin In(ls)
      <4>1. role'[r] = role[r] /\ role[r].m # conf
        BY <2>5, <2>9, <3>2
      <4>2. role[r].m \in Managers /\ mgr[role[r].m].stage \in {"current", "old"}
            /\ r \in In(mgr[role[r].m].list)
        BY <1>1, <4>1 DEF QueuedInv
      <4>3. mgr'[role[r].m] = mgr[role[r].m]
        BY <2>4, <4>1, <4>2
      <4> QED BY <4>1, <4>2, <4>3
    <3> QED BY <3>1, <3>2
  <2>15. HeldInv'
    <3> SUFFICES ASSUME NEW r \in Roles, role'[r].stage = "held"
                 PROVE  LET v == <<role'[r].m, role'[r].w>> IN
                        /\ v \in Workers
                        /\ \/ worker'[v].at \in {"top", "handler", "idle_check"}
                           \/ worker'[v].at = "deleted" /\ mgr'[v[1]].single
      BY DEF HeldInv
    <3>1. role'[r] = role[r] /\ role[r].m # conf
      BY <2>5, <2>11
    <3> DEFINE v == <<role[r].m, role[r].w>>
    <3>2. /\ v \in Workers /\ v[1] # conf
          /\ \/ worker[v].at \in {"top", "handler", "idle_check"}
             \/ worker[v].at = "deleted" /\ mgr[v[1]].single
      BY <1>1, <3>1 DEF HeldInv
    <3> HIDE DEF v
    <3>3. mgr'[v[1]] = mgr[v[1]] /\ v \notin ws
      BY <1>2, <2>1, <2>4, <3>2, WorkersAre DEF Groups
    <3>4. worker'[v] = worker[v]
      BY <2>6, <3>2, <3>3
    <3> QED BY <3>1, <3>2, <3>3, <3>4 DEF v
  <2> QED BY <2>12, <2>13, <2>14, <2>15 DEF RolesInv
<1> QED BY <1>3, <1>4, <1>5, <1>6, <1>7, <1>8, <1>9, <1>10, <1>11, WorkersRoles DEF Next, MainStep
-----------------------------------------------------------------------------
(* The API. *)
LEMMA ApiNext ==
    ASSUME MInv, [Next]_vars
    PROVE  ApiInv'
<1> USE DEF MainAt
<1>1. Types /\ Control /\ WorkerInv /\ ApiInv
  BY DEF MInv
<1>0. 1 \in Managers
  BY ManagersAre
<1>2. CASE ApiListen \/ ApiBegin \/ ApiEnd
  <2>1. /\ UNCHANGED <<main, mgr>> /\ api'.m = api.m /\ call' \in {call, api.m, None}
        /\ api'.at # "ended" \/ call' # None => api.at # "ended" \/ call # None
    BY <1>1, <1>2 DEF ApiListen, ApiBegin, ApiEnd, Types
  <2>2. UNCHANGED <<main, mgr>> /\ call' \in {None, api'.m}
    BY <1>1, <1>2, <2>1 DEF ApiInv
  <2> QED BY <1>1, <2>1, <2>2 DEF ApiInv
<1>3. ASSUME UNCHANGED <<api, call>>, \A m \in Managers : mgr'[m].stage = mgr[m].stage,
             main'.exiting = main.exiting, main.at # "database", main'.at # "database",
             \/ main' = main
             \/ main.at \in {"loop", "single", "check", "reload", "stop", "join"}
             \/ main'.at \notin {"loop", "single", "check", "reload", "stop", "join"}
      PROVE  ApiInv'
  BY <1>1, <1>3, <1>0 DEF ApiInv
<1>4. CASE (\E c \in Clients : ClientBreaks(c)) \/ UNCHANGED vars \/ CloseServer \/ DeleteMaps
  <2>1. UNCHANGED <<api, call, main>>
    BY <1>4 DEF ClientBreaks, vars, CloseServer, DeleteMaps
  <2>2. \E m, q : \/ mgr' = mgr
                  \/ mgr' = [mgr EXCEPT ![m].servers = q] \/ mgr' = [mgr EXCEPT ![m].maps = q]
    BY <1>4 DEF ClientBreaks, vars, CloseServer, UninitServer, Uninit, DeleteMaps
  <2>3. StagesKept
    BY <1>1, <2>2, FieldsKept
  <2> QED BY <1>0, <1>1, <2>1, <2>3 DEF ApiInv, StagesKept
<1>5. ASSUME NEW w \in Workers, WorkerStep(w) PROVE ApiInv'
  <2>1. MgrsKept /\ (main' = main \/ (~HasThread(w) /\ IdleCheck(w) /\ CheckOld))
    BY <1>1, <1>5, WorkerStepDoes
  <2>2. UNCHANGED <<api, call>>
    BY <1>5 DEF WorkerStep, LeaveLoop, BeginHandler, EndHandler, IdleCheck
  <2>3. CASE main' = main
    BY <1>0, <1>1, <2>1, <2>2, <2>3 DEF ApiInv, MgrsKept
  <2>4. CASE ~HasThread(w) /\ IdleCheck(w) /\ CheckOld
    <3>1. main.at = "single"
      BY <1>1, <2>4, DrivenBySingle DEF WorkerInv
    <3>2. main'.at = "check" /\ main'.exiting = main.exiting
      BY <1>1, <2>4 DEF CheckOld, Types, MainType
    <3> QED BY <1>3, <2>1, <2>2, <3>1, <3>2 DEF MgrsKept
  <2> QED BY <2>1, <2>3, <2>4
<1>6. CASE Database
  <2>1. api.at = "ended" /\ call = None
    BY <1>1, <1>6 DEF Database, ApiInv, Types
  <2>2. CASE NewApi(1) /\ Goto("loop")
    <3>1. main'.at = "loop" /\ main'.exiting = main.exiting /\ api'.m = 1 /\ mgr' = mgr /\ call' = None
      BY <1>1, <1>6, <2>1, <2>2 DEF Database, NewApi, Goto, Types, MainType
    <3>2. ~main.exiting
      BY <1>1, <1>6 DEF Database, Control, Ending
    <3>3. mgr[1].stage = "current"
      BY <1>1, <1>6 DEF Database, ApiInv
    <3> QED BY <3>1, <3>2, <3>3, ManagersAre DEF ApiInv
  <2>3. CASE UNCHANGED api /\ GotoExit
    BY <1>1, <1>6, <2>1, <2>3 DEF Database, ApiInv, GotoExit, Types, MainType
  <2> QED BY <1>6, <2>2, <2>3 DEF Database
<1>7. CASE \/ Loop \/ Checked \/ (\E m \in Old : CheckInvalid(m)) \/ Configure \/ NextWorker \/ JoinWorker
  <2>1. UNCHANGED <<api, call, mgr>> /\ main.at # "database"
    BY <1>7 DEF Loop, Checked, CheckInvalid, Configure, NextWorker, JoinWorker
  <2>2. main'.exiting = main.exiting /\ main'.at # "database"
    BY <1>1, <1>7 DEF Loop, Checked, CheckInvalid, Configure, NextWorker, JoinWorker, Goto, CheckOld,
                      Types, MainType
  <2>3. \/ main.at \in {"loop", "check", "stop", "join"}
        \/ main'.at \in {"stop_api", "start"}
    BY <1>1, <1>7 DEF Loop, Checked, CheckInvalid, Configure, NextWorker, JoinWorker, Goto,
                      Types, MainType
  <2> QED BY <1>3, <2>1, <2>2, <2>3
<1>8. CASE FlagGroups
  <2>1. /\ UNCHANGED <<api, call>> /\ main.at = "reload" /\ main'.at = "configure"
        /\ main'.exiting = main.exiting
        /\ \A m \in Managers : mgr'[m].stage \in {mgr[m].stage, "old"}
    BY <1>1, <1>8 DEF FlagGroups, Reloaded, Goto, Types, MainType, MgrRec
  <2> QED BY <1>1, <2>1 DEF ApiInv
<1>9. CASE Start
  <2>1. main.at = "start" /\ conf \in Managers /\ mgr[conf].stage = "none"
    BY <1>1, <1>9 DEF Start, Control, Reloading
  <2>2. \E single \in BOOLEAN, ls \in Servers(conf) :
          \E ws \in SUBSET Groups(conf, single) : Started(conf, single, ls, ws)
    BY <1>9, <2>1, StartIs
  <2>3. \A m \in Managers : m # conf => mgr'[m] = mgr[m]
    BY <1>1, <2>2 DEF Started, Types
  <2>4. /\ UNCHANGED <<api, call>> /\ main'.at \in {"restart_api", "stop_api"}
        /\ main'.exiting = main.exiting
    BY <1>1, <1>9 DEF Start, Goto, AfterStart, Types, MainType
  <2>5. ASSUME api.at # "ended" \/ call # None
        PROVE  /\ ~main'.exiting /\ api.m \in Managers
               /\ mgr'[api.m].stage \in {"current", "old"}
    <3>1. ~main.exiting /\ api.m \in Managers /\ mgr[api.m].stage \in {"current", "old"}
      BY <1>1, <2>5 DEF ApiInv
    <3>2. mgr'[api.m] = mgr[api.m]
      BY <2>1, <2>3, <3>1
    <3> QED BY <2>4, <3>1, <3>2
  <2> QED BY <1>1, <2>4, <2>5 DEF ApiInv
<1>10. CASE ApiStop
  <2>1. /\ UNCHANGED <<mgr, call>> /\ main'.at \in {"join_api", "rejoin_api"} /\ main'.exiting = main.exiting
        /\ api'.m = api.m /\ api'.at \in {api.at, "ended"} /\ main.at # "database"
    BY <1>1, <1>10 DEF ApiStop, Goto, Types, MainType
  <2> QED BY <1>1, <2>1 DEF ApiInv
<1>11. CASE RestartApi
  <2>1. /\ mgr' = mgr /\ main.at = "rejoin_api" /\ main'.at = "loop" /\ main'.exiting = main.exiting
        /\ api'.m = conf /\ call' = None
    BY <1>1, <1>11 DEF RestartApi, ApiDone, NewApi, Goto, Types, MainType
  <2> QED BY <1>1, <2>1 DEF ApiInv, Control, Reloading, Ending
<1>12. CASE JoinApi
  <2>1. UNCHANGED <<api, call>> /\ api.at = "ended" /\ call = None /\ main'.at = "exit"
    BY <1>1, <1>12 DEF JoinApi, ApiDone, GotoExit, Types, MainType
  <2> QED BY <2>1 DEF ApiInv
<1>13. CASE Erase
  <2>1. /\ UNCHANGED <<api, call>> /\ main.at = "stop" /\ main'.exiting = main.exiting
        /\ main'.at = IF main.exiting THEN "exit" ELSE "check"
        /\ \A m \in Managers : m # main.m => mgr'[m].stage = mgr[m].stage
    BY <1>1, <1>13 DEF Erase, Goto, Types, MainType, MgrRec
  <2>2. ~main.exiting => mgr[main.m].stage = "old"
    BY <1>1, <2>1 DEF Control, Checking, Stopping
  <2> QED BY <1>1, <2>1, <2>2 DEF ApiInv
<1>14. CASE Exit
  <2>1. UNCHANGED <<api, call>> /\ main.exiting /\ main'.at \in {"stop", "done"}
    BY <1>1, <1>14 DEF Exit, Goto, Control, Ending, Types, MainType
  <2>2. api.at = "ended" /\ call = None
    BY <1>1, <2>1 DEF ApiInv
  <2> QED BY <2>1, <2>2 DEF ApiInv
<1> QED BY <1>2, <1>4, <1>5, <1>6, <1>7, <1>8, <1>9, <1>10, <1>11, <1>12, <1>13, <1>14
        DEF Next, MainStep
-----------------------------------------------------------------------------
(* The invariant and what follows from it. *)
LEMMA InitMInv == ASSUME Init PROVE MInv
<1>1. Types
  BY InitTypes
<1>2. 1 \in Managers /\ None \notin Managers /\ ListenersOf(1) \in Servers(1)
  BY ManagersAre DEF Servers
<1>3. PICK single \in BOOLEAN :
        /\ mgr = [m \in Managers |->
             IF m = 1 THEN [stage |-> "current", single |-> single, maps |-> TRUE,
                            servers |-> ListenersOf(1), list |-> ListenersOf(1), reload |-> FALSE]
             ELSE NoMgr]
        /\ worker = [w \in Workers |->
             IF w \in Groups(1, single) THEN [NoWorker EXCEPT !.at = "top"] ELSE NoWorker]
  BY DEF Init
<1>4. /\ \A m \in Managers :
           IF m = 1 THEN /\ mgr[m].stage = "current" /\ mgr[m].single = single /\ mgr[m].maps
                         /\ mgr[m].servers = ListenersOf(1) /\ mgr[m].list = ListenersOf(1)
                         /\ mgr[m].reload = FALSE
           ELSE /\ mgr[m].stage = "none" /\ mgr[m].servers = <<>> /\ mgr[m].list = <<>>
                /\ mgr[m].reload = FALSE
  BY <1>3 DEF NoMgr
<1>5. \A w \in Workers :
        IF w \in Groups(1, single) THEN worker[w].at = "top" /\ worker[w].m_exit = FALSE
                                   ELSE worker[w] = NoWorker
  BY <1>3 DEF NoWorker
<1>6. \A w \in Groups(1, single) : w[1] = 1 /\ (single => w[2] = 1)
  BY <1>2, WorkersAre DEF Groups
<1>7. /\ \A r \in Roles : IF r \in In(ListenersOf(1))
                          THEN role[r].stage = "queued" /\ role[r].sock = "open" /\ role[r].m = 1
                          ELSE role[r].stage = "none"
      /\ conf = 1 /\ call = None /\ api.at = "ended"
      /\ main.at = "database" /\ main.exiting = FALSE
  BY DEF Init, NoRole
<1>8. \A l \in In(ListenersOf(1)) : l \in Listeners /\ l[1] = 1 /\ l \in Roles
  BY <1>2, ShorterServers DEF Roles
<1>9. Control
  <2>1. InOrder
    BY <1>4, ManagersAre DEF InOrder
  <2> QED BY <1>7, <2>1 DEF Control, Reloading, Ending, Checking, Stopping
<1>10. WorkerInv
  <2>1. \A w \in Workers : w[1] \in Managers
    BY WorkersAre
  <2>2. Unstarted /\ ToldToExit
    BY <1>4, <1>5, <1>6, <2>1 DEF Unstarted, ToldToExit, NoWorker
  <2>3. Maps
    BY <1>4, <1>5, <1>6, <2>1 DEF Maps, Exists, NoWorker
  <2>4. Threadless
    BY <1>4, <1>5, <1>6, <2>1 DEF Threadless, HasThread, Exists, NoWorker
  <2> QED BY <2>2, <2>3, <2>4 DEF WorkerInv
<1>11. ServersInv
  BY <1>4, <1>7 DEF ServersInv
<1>12. In(<<>>) = {}
  BY InShort
<1>13. OpenInv
  <2>1. \A m \in Managers : In(mgr[m].servers) = IF m = 1 THEN In(ListenersOf(1)) ELSE {}
    BY <1>4, <1>12
  <2>2. \A l \in Listeners : l \in Roles
    BY DEF Roles
  <2> QED BY <1>2, <1>7, <1>8, <2>1, <2>2 DEF OpenInv
<1>14. ListInv
  <2>1. \A i, j \in DOMAIN ListenersOf(1) : ListenersOf(1)[i] = ListenersOf(1)[j] => i = j
    <3> DEFINE a == <<1, "publisher">>  b == <<1, "player">>
    <3>1. a # b /\ ListenersOf(1) = <<a, b>>
      BY DEF ListenersOf
    <3> HIDE DEF a, b
    <3> QED BY <3>1
  <2>2. \A i \in DOMAIN ListenersOf(1) : ListenersOf(1)[i] \in In(ListenersOf(1))
    BY DEF In
  <2> QED BY <1>4, <1>7, <1>8, <2>1, <2>2 DEF ListInv
<1>15. OwnInv /\ QueuedInv
  BY <1>2, <1>4, <1>7, <1>8 DEF OwnInv, QueuedInv, Roles
<1>16. HeldInv
  BY <1>7 DEF HeldInv
<1>17. ApiInv
  BY <1>2, <1>4, <1>7 DEF ApiInv
<1> QED BY <1>1, <1>9, <1>10, <1>11, <1>13, <1>14, <1>15, <1>16, <1>17 DEF MInv

LEMMA NextMInv == ASSUME MInv, [Next]_vars PROVE MInv'
<1>1. Types'
  BY TypesNext DEF MInv
<1>2. Control'
  BY WorkersControl, MainControl DEF Next, MInv, WorkerInv
<1>3. WorkerInv'
  BY WorkersWorkerInv, OthersWorkerInv, MainWorkerInv DEF Next
<1>4. ServersInv' /\ OpenInv' /\ RolesInv' /\ ApiInv'
  BY ServersNext, OpenNext, RolesNext, ApiNext
<1> QED BY <1>1, <1>2, <1>3, <1>4 DEF MInv, RolesInv

(* The inductive invariant of main, its managers and their workers, taken  *)
(* together: start, reload, check_invalid, stop and the groups' rounds.    *)
THEOREM ManagerInvariant == Spec => []MInv
<1>1. Init => MInv
  BY InitMInv
<1>2. MInv /\ [Next]_vars => MInv'
  BY NextMInv
<1> QED BY <1>1, <1>2, PTL DEF Spec

(* ManagerTypeOK: the types, and that deleting a manager leaves no role    *)
(* behind, in its list or in a group that had a thread (Erase, clear).     *)
THEOREM TypeCorrect == Spec => []ManagerTypeOK
<1>1. MInv => ManagerTypeOK
  <2> SUFFICES ASSUME MInv PROVE ManagerTypeOK
    OBVIOUS
  <2>1. ASSUME NEW r \in Roles, role[r].stage \in {"queued", "held"}, mgr[role[r].m].stage = "deleted"
        PROVE  mgr[role[r].m].single /\ role[r].stage = "held"
    <3>1. role[r].stage = "held"
      BY <2>1 DEF MInv, QueuedInv
    <3> DEFINE w == <<role[r].m, role[r].w>>
    <3>2. w \in Workers /\ (Exists(w) \/ mgr[w[1]].single)
      BY <3>1 DEF MInv, HeldInv, Exists
    <3>3. w[1] \in Managers /\ w \in WorkersOf(w[1])
      BY <3>2, WorkersAre
    <3>4. ~Exists(w)
      BY <2>1, <3>3 DEF MInv, WorkerInv, Maps, WorkersGone
    <3> QED BY <3>1, <3>2, <3>4
  <2> QED BY <2>1 DEF MInv, Types, MgrRec, Stages, RoleRec, WorkerRec, ManagerTypeOK
<1> QED BY <1>1, ManagerInvariant, PTL

(* ApiHasManager: an API call never works on a manager that main is taking *)
(* apart, however reloads, the API server's restart and stop interleave.   *)
THEOREM ApiAlwaysHasManager == Spec => []ApiHasManager
<1>1. MInv => ApiHasManager
  <2> SUFFICES ASSUME MInv, call # None PROVE mgr[call].stage \in {"current", "old"} /\ mgr[call].maps
    BY DEF ApiHasManager
  <2>1. /\ call = api.m /\ call \in Managers /\ mgr[call].stage \in {"current", "old"} /\ ~main.exiting
        /\ Stopping => mgr[call].stage = "current"
    BY DEF MInv, ApiInv, Stopping
  <2>2. Stopping => call # main.m
    BY <2>1 DEF MInv, Control, Checking
  <2> QED BY <2>1, <2>2 DEF MInv, WorkerInv, Maps
<1> QED BY <1>1, ManagerInvariant, PTL

(* MapsOutliveWorkers: stop joins every worker before it deletes the maps. *)
THEOREM MapsOutliveWorkersAlways == Spec => []MapsOutliveWorkers
<1>1. MInv => MapsOutliveWorkers
  BY DEF MInv, WorkerInv, Maps, Exists, MapsOutliveWorkers
<1> QED BY <1>1, ManagerInvariant, PTL

(* ServersAlive: main never closes a listener that its worker deleted.     *)
THEOREM ServersAliveAlways == Spec => []ServersAlive
<1>1. MInv => ServersAlive
  BY DEF MInv, OpenInv, ServersAlive
<1> QED BY <1>1, ManagerInvariant, PTL

(* ListenersHaveConf: a listener that accepts points into the              *)
(* configuration that is in memory.                                        *)
THEOREM ListenersHaveConfAlways == Spec => []ListenersHaveConf
<1>1. MInv => ListenersHaveConf
  <2> SUFFICES ASSUME MInv, NEW l \in Listeners, role[l].stage \in {"queued", "held"}, role[l].sock = "open"
               PROVE  conf = l[1]
    BY DEF ListenersHaveConf
  <2>1. l \in In(mgr[l[1]].servers) /\ l[1] \in Managers
    BY ListenersAre DEF MInv, OpenInv
  <2>2. mgr[l[1]].servers # <<>>
    BY <2>1, InShort
  <2> QED BY <2>1, <2>2 DEF MInv, ServersInv
<1> QED BY <1>1, ManagerInvariant, PTL

(* ReloadCutsOnlyQueued: until the process ends, an intact client leaves   *)
(* its manager only from the list of an old one whose groups are all gone. *)
THEOREM CutsOnlyQueued == Spec => ReloadCutsOnlyQueued
<1> DEFINE Kept == \A c \in Clients :
             role[c].stage \in {"queued", "held"} /\ role[c].sock = "open" /\ ~main.exiting
               => \/ role'[c].stage \in {"queued", "held"}
                  \/ /\ role[c].stage = "queued"
                     /\ role[c].m \in Old /\ WorkersGone(role[c].m)
<1>1. MInv /\ Next => Kept
  <2> SUFFICES ASSUME MInv, Next, NEW c \in Clients,
                      role[c].stage \in {"queued", "held"}, role[c].sock = "open", ~main.exiting,
                      ~ /\ role[c].stage = "queued"
                        /\ role[c].m \in Old /\ WorkersGone(role[c].m)
               PROVE  role'[c].stage \in {"queued", "held"}
    OBVIOUS
  <2>1. c \in Roles /\ c \notin Listeners /\ role \in [Roles -> RoleRec]
    BY ListenersAre DEF Roles, MInv, Types
  <2>2. ASSUME NEW w \in Workers, WorkerStep(w) PROVE role'[c].stage \in {"queued", "held"}
    <3>1. CASE LeaveLoop(w)
      <4>1. c \notin Held(w)
        BY <3>1 DEF LeaveLoop, NothingHeld, MInv, WorkerInv, ToldToExit
      <4>2. role' = Deleted(Held(w))
        BY <3>1 DEF LeaveLoop
      <4> QED BY <2>1, <4>1, <4>2, DeletedIs
    <3>2. CASE BeginHandler(w)
      BY <3>2 DEF BeginHandler
    <3>3. CASE EndHandler(w)
      BY <2>1, <3>3, EndHandlerDoes
    <3>4. CASE IdleCheck(w)
      <4>1. Deleted(Broken(w))[c] = role[c]
        BY <2>1, DeletedIs DEF Broken
      <4>2. PICK q : q = Head(mgr[w[1]].list)
        OBVIOUS
      <4> QED BY <2>1, <3>4, <4>1, <4>2, IdleCheckDoes DEF PopRole
    <3> QED BY <2>2, <3>1, <3>2, <3>3, <3>4 DEF WorkerStep
  <2>3. ASSUME NEW d \in Clients, ClientBreaks(d) PROVE role'[c].stage \in {"queued", "held"}
    BY <2>1, <2>3 DEF ClientBreaks, RoleRec
  <2>4. CASE CloseServer
    <3>1. \E h : role' = [role EXCEPT ![h].sock = "closed"]
      BY <2>4 DEF CloseServer, UninitServer, Uninit
    <3> QED BY <2>1, <3>1 DEF RoleRec
  <2>5. CASE Start
    <3>1. main.at = "start" /\ conf \in Managers
      BY <2>5 DEF Start, MainAt, MInv, Control, Reloading
    <3>2. PICK single \in BOOLEAN, ls \in Servers(conf) :
            \E ws \in SUBSET Groups(conf, single) : Started(conf, single, ls, ws)
      BY <2>5, <3>1, StartIs
    <3>3. c \notin In(ls)
      BY <2>1, <3>1, ShorterServers DEF Servers
    <3> QED BY <2>1, <3>2, <3>3 DEF Started
  <2>6. CASE Erase
    <3>1. role' = Deleted(In(mgr[main.m].list)) /\ main.m \in Managers
      BY <2>6 DEF Erase, MInv, Types, MainType
    <3>2. mgr[main.m].stage = "old" /\ WorkersGone(main.m)
      BY <2>6 DEF Erase, MainAt, MInv, Control, Checking, Stopping
    <3>3. c \in In(mgr[main.m].list) => role[c].stage = "queued" /\ role[c].m = main.m
      BY <3>1 DEF MInv, ListInv, In
    <3>4. c \notin In(mgr[main.m].list)
      BY <3>1, <3>2, <3>3 DEF Old
    <3> QED BY <2>1, <3>1, <3>4, DeletedIs
  <2>7. CASE \/ ApiListen \/ ApiBegin \/ ApiEnd \/ Database \/ Loop \/ Checked
             \/ (\E m \in Old : CheckInvalid(m)) \/ FlagGroups \/ Configure \/ RestartApi
             \/ NextWorker \/ JoinWorker \/ DeleteMaps \/ ApiStop \/ JoinApi \/ Exit
    <3>1. role' = role
      BY <2>7 DEF ApiListen, ApiBegin, ApiEnd, Database, Loop, Checked, CheckInvalid, FlagGroups, Configure,
                  RestartApi, NextWorker, JoinWorker, DeleteMaps, ApiStop, JoinApi, Exit
    <3> QED BY <3>1
  <2> QED BY <2>2, <2>3, <2>4, <2>5, <2>6, <2>7 DEF Next, MainStep
<1>2. MInv /\ [Next]_vars => [Kept]_vars
  BY <1>1
<1> QED BY <1>2, ManagerInvariant, PTL DEF Spec, ReloadCutsOnlyQueued, Kept
=============================================================================
