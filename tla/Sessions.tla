------------------------------ MODULE Sessions ------------------------------
(***************************************************************************)
(* The life of the roles of one server block: the listeners accept SRT     *)
(* clients and make publisher and player roles of them, the role list      *)
(* hands the roles over to the worker groups, and each group polls its     *)
(* roles, closes the invalid ones and takes new ones.  The workers are     *)
(* threads; what they share is CSLSMapPublisher (which publisher owns a    *)
(* stream), CSLSMapData (which streams have an array), the role list and   *)
(* the table of active consumers, each behind a lock of its own.  A step   *)
(* here is one such critical section, so the other workers run between     *)
(* any two of them.                                                        *)
(*                                                                         *)
(* Listeners are roles too: they reach a group through the list and take   *)
(* one of its places.  The HTTP gate (on_event_url) and the relays are     *)
(* off, as in the shipped sls.conf.  A client whose latency or stream id   *)
(* is refused leaves no trace and is not modelled.                         *)
(***************************************************************************)
EXTENDS Naturals, Sequences, FiniteSets

CONSTANTS Workers,
          PubListeners,  \* listen_publisher and listen_publisher_srtla
          PlayListener,  \* listen_player
          Publishers,    \* the role objects publishers are given
          Players,       \* the role objects players are given
          Streams,
          Capacity,      \* worker_connections
          EpollMayFail,  \* can srt_epoll_add_usock fail on a broken socket
          NoRole, NoStream

Listeners == PubListeners \cup {PlayListener}
Clients == Publishers \cup Players
Roles == Listeners \cup Clients

ASSUME RolesAssumption ==
    /\ NoRole \notin Roles /\ NoStream \notin Streams
    /\ Publishers \cap Players = {} /\ Listeners \cap Clients = {}
    /\ IsFiniteSet(PubListeners)
    /\ Capacity \in Nat /\ EpollMayFail \in BOOLEAN

VARIABLES stage,     \* where each client's role is in its life
          key,       \* m_map_data_key: the stream of each client
          sock,      \* its SRT socket; "closed" is m_srt == NULL
          idle,      \* nothing has refreshed m_invalid_begin_tm for too long
          list,      \* CSLSRoleList, shared by listeners and groups
          group,     \* m_map_role of each worker's CSLSGroup
          pc,        \* where each worker is, with what its locals hold
          registry,  \* CSLSMapPublisher: stream -> publisher
          arrays,    \* CSLSMapData: does the stream have an array
          consumers  \* g_active_consumers

clientVars == <<stage, key, sock, idle>>
sharedVars == <<list, registry, arrays, consumers>>
vars == <<clientVars, sharedVars, group, pc>>

Labels == {"events", "checked", "added", "registered", "found", "active", "reap", "dropped"}
Locals == [at : Labels, role : Clients \cup {NoRole}, pub : Publishers \cup {NoRole},
           todo : SUBSET Clients]
Idle == [at |-> "events", role |-> NoRole, pub |-> NoRole, todo |-> {}]
At(label, r) == [Idle EXCEPT !.at = label, !.role = r]
Goto(w, p) == pc' = [pc EXCEPT ![w] = p]

Init ==
    /\ stage = [c \in Clients |-> "new"]
    /\ key = [c \in Clients |-> NoStream]
    /\ sock = [c \in Clients |-> "up"]
    /\ idle = [c \in Clients |-> FALSE]
    /\ list \in {q \in [1..Cardinality(Listeners) -> Listeners] :
                   /\ \A i, j \in DOMAIN q : q[i] = q[j] => i = j
                   /\ q[Cardinality(Listeners)] = PlayListener}
    /\ group = [w \in Workers |-> {}]
    /\ pc = [w \in Workers |-> Idle]
    /\ registry = [s \in Streams |-> NoRole]
    /\ arrays = [s \in Streams |-> FALSE]
    /\ consumers = {}

(* The role object is deleted, its socket closed. *)
Delete(c) ==
    /\ stage' = [stage EXCEPT ![c] = "deleted"]
    /\ sock' = [sock EXCEPT ![c] = "closed"]
-----------------------------------------------------------------------------
(* CSLSListener::handler on a publisher listener.                          *)

(* Accepted; get_publisher says whether the stream is taken. *)
AcceptPublisher(w, c, s) ==
    /\ pc[w].at = "events"
    /\ group[w] \cap PubListeners # {}
    /\ stage[c] = "new"
    /\ key' = [key EXCEPT ![c] = s]
    /\ IF registry[s] # NoRole
       THEN Delete(c) /\ UNCHANGED pc
       ELSE /\ stage' = [stage EXCEPT ![c] = "accepted"]
            /\ Goto(w, At("checked", c))
            /\ UNCHANGED sock
    /\ UNCHANGED <<idle, sharedVars, group>>

(* CSLSMapData::add, which is content with an array that exists already. *)
AddArray(w) ==
    /\ pc[w].at = "checked"
    /\ arrays' = [arrays EXCEPT ![key[pc[w].role]] = TRUE]
    /\ Goto(w, At("added", pc[w].role))
    /\ UNCHANGED <<clientVars, list, registry, consumers, group>>

AlwaysFree(s) == TRUE

(* set_push_2_pushlisher's test, under the registry's lock. *)
Free(s) == registry[s] = NoRole

(* A publisher that lost the race is deleted; it has no m_map_data yet, so *)
(* its uninit leaves the array alone.                                      *)
Register(w) ==
    LET c == pc[w].role
    IN  /\ pc[w].at = "added"
        /\ IF Free(key[c])
           THEN /\ registry' = [registry EXCEPT ![key[c]] = c]
                /\ Goto(w, At("registered", c))
                /\ UNCHANGED <<stage, sock>>
           ELSE /\ Delete(c)
                /\ Goto(w, Idle)
                /\ UNCHANGED registry
        /\ UNCHANGED <<key, idle, list, arrays, consumers, group>>

Pushed(c) == Append(list, c)

(* CSLSRoleList::push, the listener's last step for either kind of role. *)
Push(w) ==
    LET c == pc[w].role
    IN  /\ pc[w].at \in {"registered", "active"}
        /\ list' = Pushed(c)
        /\ stage' = [stage EXCEPT ![c] = "queued"]
        /\ Goto(w, Idle)
        /\ UNCHANGED <<key, sock, idle, registry, arrays, consumers, group>>
-----------------------------------------------------------------------------
(* CSLSListener::handler on the player listener.  The publisher's pointer  *)
(* is kept, without any lock, until the handler has pushed the player.     *)

AcceptPlayer(w, c, s) ==
    /\ pc[w].at = "events"
    /\ PlayListener \in group[w]
    /\ stage[c] = "new"
    /\ key' = [key EXCEPT ![c] = s]
    /\ IF registry[s] = NoRole
       THEN Delete(c) /\ UNCHANGED pc
       ELSE /\ stage' = [stage EXCEPT ![c] = "accepted"]
            /\ Goto(w, [At("found", c) EXCEPT !.pub = registry[s]])
            /\ UNCHANGED sock
    /\ UNCHANGED <<idle, sharedVars, group>>

(* is_exist, then the new player is entered in the consumers. *)
Activate(w) ==
    LET c == pc[w].role
    IN  /\ pc[w].at = "found"
        /\ IF arrays[key[c]]
           THEN /\ consumers' = consumers \cup {c}
                /\ Goto(w, [pc[w] EXCEPT !.at = "active"])
                /\ UNCHANGED <<stage, sock>>
           ELSE /\ Delete(c)
                /\ Goto(w, Idle)
                /\ UNCHANGED consumers
        /\ UNCHANGED <<key, idle, list, registry, arrays, group>>
-----------------------------------------------------------------------------
(* CSLSGroup::handler: epoll events, then idle_check.                      *)

MissingArrayIgnored(c) == IF sock[c] = "up" THEN "up" ELSE "closed"

(* The socket after a read and a put: the group closes it when there was   *)
(* nothing to read, or no array to put into.                               *)
AfterPut(c) == IF sock[c] = "up" /\ arrays[key[c]] THEN "up" ELSE "closed"

(* A publisher's handler_read_data; a successful read refreshes its timer. *)
HandlePublisher(w, c) ==
    /\ pc[w].at = "events"
    /\ c \in group[w] \cap Publishers
    /\ sock[c] # "closed"
    /\ sock' = [sock EXCEPT ![c] = AfterPut(c)]
    /\ idle' = [idle EXCEPT ![c] = idle[c] /\ sock[c] # "up"]
    /\ UNCHANGED <<stage, key, sharedVars, group, pc>>

AlwaysAnswered(c) == TRUE

(* CSLSMapData::get answers, if only with no bytes, when there is an array. *)
Answered(c) == arrays[key[c]]

(* A player's handler_write_data: any answer refreshes its idle timer. *)
HandlePlayer(w, c) ==
    /\ pc[w].at = "events"
    /\ c \in group[w] \cap Players
    /\ sock[c] # "closed"
    /\ Answered(c)
    /\ idle' = [idle EXCEPT ![c] = FALSE]
    /\ UNCHANGED <<stage, key, sock, sharedVars, group, pc>>

(* The events of this round are done: idle_check walks through the roles. *)
StartReap(w) ==
    /\ pc[w].at = "events"
    /\ Goto(w, [Idle EXCEPT !.at = "reap", !.todo = group[w] \cap Clients])
    /\ UNCHANGED <<clientVars, sharedVars, group>>

Valid(c) == sock[c] = "up" /\ ~idle[c]
Done(w, c) == [pc[w] EXCEPT !.at = "reap", !.role = NoRole, !.todo = @ \ {c}]

KeepRole(w, c) ==
    /\ pc[w].at = "reap" /\ c \in pc[w].todo
    /\ Valid(c)
    /\ Goto(w, Done(w, c))
    /\ UNCHANGED <<clientVars, sharedVars, group>>

StayActive(c) == consumers

Unregistered(c) == consumers \ {c}

(* CSLSPlayer::uninit and delete. *)
ReapPlayer(w, c) ==
    /\ pc[w].at = "reap" /\ c \in pc[w].todo \cap Players
    /\ ~Valid(c)
    /\ consumers' = Unregistered(c)
    /\ group' = [group EXCEPT ![w] = @ \ {c}]
    /\ Delete(c)
    /\ Goto(w, Done(w, c))
    /\ UNCHANGED <<key, idle, list, registry, arrays>>

(* CSLSPublisher::uninit: first the array goes ... *)
DropArray(w, c) ==
    /\ pc[w].at = "reap" /\ c \in pc[w].todo \cap Publishers
    /\ ~Valid(c)
    /\ sock' = [sock EXCEPT ![c] = "closed"]
    /\ arrays' = [arrays EXCEPT ![key[c]] = FALSE]
    /\ Goto(w, [pc[w] EXCEPT !.at = "dropped", !.role = c])
    /\ UNCHANGED <<stage, key, idle, list, registry, consumers, group>>

ForgetToUnregister(c) == registry

(* CSLSMapPublisher::remove takes out the entry that is this role. *)
Without(c) == [s \in Streams |-> IF registry[s] = c THEN NoRole ELSE registry[s]]

(* ... then the registry entry, and the role is deleted. *)
ReapPublisher(w) ==
    LET c == pc[w].role
    IN  /\ pc[w].at = "dropped"
        /\ registry' = Without(c)
        /\ group' = [group EXCEPT ![w] = @ \ {c}]
        /\ Delete(c)
        /\ Goto(w, Done(w, c))
        /\ UNCHANGED <<key, idle, list, arrays, consumers>>
-----------------------------------------------------------------------------
(* check_new_role: one role of the list, if the group has a place for it.  *)

ReapDone(w) == pc[w].at = "reap" /\ pc[w].todo = {}
FullTooLate(w) == Cardinality(group[w]) > Capacity

Full(w) == Cardinality(group[w]) >= Capacity

PeekOnly == list

(* What CSLSRoleList::pop leaves. *)
Popped == Tail(list)

TakeNone(w) ==
    /\ ReapDone(w)
    /\ Full(w) \/ list = <<>>
    /\ Goto(w, Idle)
    /\ UNCHANGED <<clientVars, sharedVars, group>>

TakeNew(w) ==
    /\ ReapDone(w)
    /\ ~Full(w) /\ list # <<>>
    /\ list' = Popped
    /\ group' = [group EXCEPT ![w] = @ \cup {Head(list)}]
    /\ stage' = [c \in Clients |-> IF c = Head(list) THEN "held" ELSE stage[c]]
    /\ Goto(w, Idle)
    /\ UNCHANGED <<key, sock, idle, registry, arrays, consumers>>

(* add_to_epoll fails: the role is deleted without its uninit, since its   *)
(* destructor reaches CSLSRole::uninit only.                               *)
TakeFails(w) ==
    /\ ReapDone(w)
    /\ ~Full(w) /\ list # <<>>
    /\ EpollMayFail /\ Head(list) \in Clients /\ sock[Head(list)] = "broken"
    /\ list' = Popped
    /\ Delete(Head(list))
    /\ Goto(w, Idle)
    /\ UNCHANGED <<key, idle, registry, arrays, consumers, group>>
-----------------------------------------------------------------------------
(* The environment.                                                        *)

(* The client goes away, or its connection breaks. *)
Break(c) ==
    /\ stage[c] \in {"accepted", "queued", "held"}
    /\ sock[c] = "up"
    /\ sock' = [sock EXCEPT ![c] = "broken"]
    /\ UNCHANGED <<stage, key, idle, sharedVars, group, pc>>

(* idle_streams_timeout passes without the role's timer being refreshed. *)
Elapse(c) ==
    /\ stage[c] \in {"queued", "held"}
    /\ ~idle[c]
    /\ idle' = [idle EXCEPT ![c] = TRUE]
    /\ UNCHANGED <<stage, key, sock, sharedVars, group, pc>>
-----------------------------------------------------------------------------
(* What a worker does by itself; accepting and handling depend on clients. *)
Progress(w) ==
    \/ AddArray(w) \/ Register(w) \/ Activate(w) \/ Push(w)
    \/ StartReap(w)
    \/ \E c \in Clients : KeepRole(w, c) \/ ReapPlayer(w, c) \/ DropArray(w, c)
    \/ ReapPublisher(w)
    \/ TakeNone(w) \/ TakeNew(w) \/ TakeFails(w)

Next ==
    \/ \E w \in Workers :
         \/ Progress(w)
         \/ \E s \in Streams : \/ \E c \in Publishers : AcceptPublisher(w, c, s)
                               \/ \E c \in Players : AcceptPlayer(w, c, s)
         \/ \E c \in Clients : HandlePublisher(w, c) \/ HandlePlayer(w, c)
    \/ \E c \in Clients : Break(c) \/ Elapse(c)

(* Workers loop (SLSEpollThread::work) and epoll returns a finite batch of *)
(* events; the clock of a role that has no array to refresh it runs out.   *)
Starve(c) == Elapse(c) /\ ~arrays[key[c]]

Fairness ==
    /\ \A w \in Workers : WF_vars(Progress(w))
    /\ \A c \in Clients : WF_vars(Starve(c))

Spec == Init /\ [][Next]_vars
FairSpec == Spec /\ Fairness
-----------------------------------------------------------------------------
(* Properties.                                                             *)

(* Every variable holds a value of its type, and no group holds more roles *)
(* than worker_connections.                                                *)
TypeOK ==
    /\ stage \in [Clients -> {"new", "accepted", "queued", "held", "deleted"}]
    /\ key \in [Clients -> Streams \cup {NoStream}]
    /\ sock \in [Clients -> {"up", "broken", "closed"}]
    /\ idle \in [Clients -> BOOLEAN]
    /\ list \in Seq(Roles)
    /\ group \in [Workers -> {g \in SUBSET Roles : Cardinality(g) <= Capacity}]
    /\ pc \in [Workers -> Locals]
    /\ registry \in [Streams -> Publishers \cup {NoRole}]
    /\ arrays \in [Streams -> BOOLEAN]
    /\ consumers \in SUBSET Players

(* A stream has one source: a publisher that waits for a group or is in    *)
(* one is the registered publisher of its stream, though the listener's    *)
(* look at the registry and its entry in it are separate steps and two     *)
(* publisher listeners may run them in any order.                          *)
OneSource ==
    \A c \in Publishers : stage[c] \in {"queued", "held"} => registry[key[c]] = c

(* A role is owned by one thread at a time: it is in the list once or in   *)
(* one group, never both and never twice.                                  *)
OneOwner ==
    /\ \A r \in Roles, i, j \in DOMAIN list : list[i] = r /\ list[j] = r => i = j
    /\ \A w, v \in Workers : w # v => group[w] \cap group[v] = {}
    /\ \A w \in Workers, i \in DOMAIN list : list[i] \notin group[w]

(* An array is only ever taken away by the publisher the registry names    *)
(* for its stream: a publisher on its way out never removes the array of   *)
(* the one that comes after it.                                            *)
DropsOwnArray ==
    [][\A s \in Streams : arrays[s] /\ ~arrays'[s]
         => \E w \in Workers : pc'[w].at = "dropped" /\ pc'[w].role = registry[s]]_vars

(* A role that is deleted, by its group, by the loss of the race for its   *)
(* name or by a refusal, is named neither by the registry, which listeners *)
(* and statistics follow, nor by the consumers.  The roles of the list     *)
(* that epoll refuses are the exception (RegisteredIsAlive).               *)
LeavesNoTrace ==
    [][\A c \in Clients :
         stage[c] # "queued" /\ stage'[c] = "deleted" /\ stage[c] # "deleted"
            => c \notin consumers' /\ \A s \in Streams : registry'[s] # c]_vars

(* The registry never names a deleted publisher: the listeners and the     *)
(* statistics call the role it names.                                      *)
RegisteredIsAlive ==
    \A s \in Streams : registry[s] # NoRole => stage[registry[s]] # "deleted"

(* The name of a publisher in a group is free again after it broke.        *)
NameFreed ==
    \A c \in Publishers, s \in Streams :
        stage[c] = "held" /\ sock[c] # "up" /\ key[c] = s ~> registry[s] # c

(* A publisher that got the name but not the array (the one before it took *)
(* the array along) does not keep the name for ever.                       *)
NameServed ==
    \A s \in Streams, c \in Publishers :
        registry[s] = c /\ stage[c] = "held" /\ ~arrays[s] ~> arrays[s] \/ registry[s] # c

(* A player whose stream has lost its array is closed, unless a publisher  *)
(* brings a new array first: only a get that finds no array leaves the     *)
(* player's timer alone.                                                   *)
StarvedPlayerGoes ==
    \A c \in Players, s \in Streams :
        stage[c] = "held" /\ key[c] = s /\ ~arrays[s] ~> stage[c] = "deleted" \/ arrays[s]

(* A player whose stream has no publisher any more times out. *)
LonelyPlayerTimesOut ==
    \A c \in Players, s \in Streams :
        stage[c] = "held" /\ key[c] = s /\ registry[s] = NoRole
          ~> stage[c] = "deleted" \/ registry[s] # NoRole
=============================================================================
