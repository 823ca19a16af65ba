------------------------------- MODULE Relays -------------------------------
(***************************************************************************)
(* The relays of one server block: pullers, which bring the stream of an   *)
(* upstream server here as if they were its publisher, or pushers, which   *)
(* send a stream on like players.  A listener's handler starts them, their *)
(* group closes them, and the list of relay managers of that group starts  *)
(* them again.                                                             *)
(*                                                                         *)
(* Relays are configured under the name "default", so only a client whose  *)
(* stream is "default" reaches a relay manager, there is one manager of a  *)
(* kind, and the name it looks up, registers and reads is                  *)
(* "default/default".  The model follows that one name.  Another publisher *)
(* of it is Client; how a client becomes one is in Sessions.               *)
(***************************************************************************)
EXTENDS Naturals, FiniteSets, FiniteSetsExt

CONSTANTS Workers,
          AllWorkers,  \* bound: the workers there are in mode "all"
          Relays,      \* the relay objects
          Upstreams,   \* upstreams, 1 to their number, in the order of the configuration
          HashUrl,     \* the one sls_hash_key picks for the stream
          MaxEntries,  \* bound: entries of a list of managers; for mode all, "that many or more"
          NoRole, Client

ASSUME RelaysAssumption ==
    /\ IsFiniteSet(Relays) /\ IsFiniteSet(Upstreams)
    /\ Upstreams # {} /\ Upstreams = 1..Cardinality(Upstreams)
    /\ AllWorkers \subseteq Workers /\ HashUrl \in Upstreams /\ MaxEntries \in Nat \ {0}
    /\ NoRole \notin Relays \cup {Client} /\ Client \notin Relays

VARIABLES conf,      \* m_type and m_mode
          upstream,  \* what is at each upstream: a server, nothing, or not even a host
          owner,     \* CSLSMapPublisher: the publisher of the stream
          array,     \* CSLSMapData: does the stream have an array
          client,    \* where the client that may be its publisher is
          relay,     \* the relay objects
          retry,     \* how often each group's m_list_reconnect_relay_manager has the manager
          cur,       \* m_cur_loop_index
          waiting,   \* the keys of m_map_reconnect_relay
          late,      \* the timers older than m_reconnect_interval
          pc         \* where each worker is, with what its locals hold

managerVars == <<cur, waiting, late>>
sharedVars == <<owner, array>>
vars == <<conf, upstream, client, sharedVars, relay, retry, managerVars, pc>>

Manager == 0      \* the timer m_reconnect_begin_tm; that of a url is the url

Confs == [kind : {"pull"}, mode : {"loop", "hash"}] \cup [kind : {"push"}, mode : {"all", "hash"}]
NewRelay == [stage |-> "none", url |-> HashUrl, sock |-> "open", worker |-> NoRole]
Round == [at |-> "events", by |-> "listener", left |-> 0, url |-> HashUrl,
          relay |-> NoRole, source |-> FALSE]

IdleCheck == [Round EXCEPT !.at = "idle_check"]
Goto(w, p) == pc' = [pc EXCEPT ![w] = p]
At(w, label) == pc[w].at = label
Unused == {r \in Relays : relay[r].stage = "none"}
Held(w) == {r \in Relays : relay[r].stage = "held" /\ relay[r].worker = w}
Entries == Cardinality({e \in Workers \X (1..MaxEntries) : e[2] <= retry[e[1]]})

(* Bounds on what the listeners start: entries counted exactly, and enough *)
(* objects for what is under way and for what waits.                       *)
Asking ==
    Cardinality({w \in Workers : pc[w].by = "listener" /\ pc[w].at \in {"start", "try", "connect"}})
MayAsk ==
    IF conf.mode = "all"
    THEN Cardinality(Unused) >= Cardinality(Upstreams) * (Asking + 1) + Cardinality(waiting)
    ELSE Entries + Cardinality(Relays \ Unused) + Asking < MaxEntries

(* Sockets are non-blocking: open fails when the upstream has no address,  *)
(* and libsrt finds out later whether anyone answers there.                *)
Opens(u) == upstream[u] # "unknown"

Opened(u, stage) == [NewRelay EXCEPT !.stage = stage, !.url = u]

Init ==
    /\ conf \in Confs
    /\ upstream \in [Upstreams -> {"live", "dead", "unknown"}]
    /\ \A u \in Upstreams :
         /\ upstream[u] = "dead" => conf.kind = "pull"
         /\ upstream[u] = "live" \/ u = HashUrl \/ conf.mode # "hash"
    /\ owner = NoRole /\ array = FALSE /\ client = "away"
    /\ relay = [r \in Relays |-> NewRelay]
    /\ retry = [w \in Workers |-> 0]
    /\ cur = Max(Upstreams) /\ waiting = {} /\ late = {Manager}
    /\ pc = [w \in Workers |-> Round]
-----------------------------------------------------------------------------
(* start and reconnect return to the handler that called them.             *)

Dropped(n) == IF conf.mode = "all" /\ n = MaxEntries THEN {n, n - 1} ELSE {n - 1}

(* check_reconnect_relay takes the manager from the list if it succeeded.  *)
Return(w, ok) ==
    IF pc[w].by = "listener"
    THEN Goto(w, IdleCheck) /\ UNCHANGED retry
    ELSE /\ Goto(w, [Round EXCEPT !.at = "retry", !.by = "retry", !.left = pc[w].left - 1])
         /\ IF ok
            THEN \E n \in Dropped(retry[w]) : retry' = [retry EXCEPT ![w] = n]
            ELSE UNCHANGED retry
-----------------------------------------------------------------------------
(* Pullers.                                                                *)

NextUrl(u) == IF u + 1 \in Upstreams THEN u + 1 ELSE 1

(* A player asks for the stream: the listener starts the manager. *)
AskPuller(w) ==
    /\ At(w, "events") /\ conf.kind = "pull"
    /\ MayAsk
    /\ Goto(w, [Round EXCEPT !.at = "start"])
    /\ UNCHANGED <<conf, upstream, client, sharedVars, relay, retry, managerVars>>

(* reconnect, called for one entry of the list, waits for the timer ... *)
RetryPuller(w) ==
    /\ At(w, "retry") /\ pc[w].left > 0 /\ conf.kind = "pull"
    /\ IF Manager \in late
       THEN Goto(w, [pc[w] EXCEPT !.at = "start"]) /\ UNCHANGED retry
       ELSE Return(w, FALSE)
    /\ UNCHANGED <<conf, upstream, client, sharedVars, relay, managerVars>>

(* ... sets it and calls start: nothing to do if there is a publisher. *)
StartPuller(w) ==
    /\ At(w, "start")
    /\ late' = IF pc[w].by = "retry" THEN late \ {Manager} ELSE late
    /\ IF owner # NoRole
       THEN Return(w, FALSE)
       ELSE /\ Goto(w, [pc[w] EXCEPT !.at = "try",
                                     !.url = IF conf.mode = "loop" THEN NextUrl(cur) ELSE HashUrl])
            /\ UNCHANGED retry
    /\ UNCHANGED <<conf, upstream, client, sharedVars, relay, cur, waiting>>

AlwaysFree == TRUE

(* set_push_2_pushlisher's test, under the registry's lock. *)
Free == owner = NoRole

KeepIndex(u) == cur

(* connect_loop starts behind the one it stopped at the last time. *)
LoopIndex(u) == IF conf.mode = "loop" THEN u ELSE cur

(* connect: open and enter the registry, or rollback.  connect_loop goes   *)
(* on with the next until it is around.                                    *)
TryUpstream(w) ==
    LET u == pc[w].url
        r == CHOOSE x \in Unused : TRUE
    IN  /\ At(w, "try")
        /\ \/ /\ Opens(u) /\ Free /\ Unused # {}
              /\ relay' = [relay EXCEPT ![r] = Opened(u, "registered")]
              /\ owner' = r
              /\ Goto(w, [pc[w] EXCEPT !.at = "registered", !.relay = r])
              /\ UNCHANGED <<retry, cur>>
           \/ /\ ~(Opens(u) /\ Free)
              /\ IF conf.mode = "loop" /\ u # cur
                 THEN Goto(w, [pc[w] EXCEPT !.url = NextUrl(u)]) /\ UNCHANGED <<retry, cur>>
                 ELSE cur' = LoopIndex(u) /\ Return(w, FALSE)
              /\ UNCHANGED <<relay, owner>>
    /\ UNCHANGED <<conf, upstream, client, array, waiting, late>>

AddArray(w) ==
    /\ At(w, "registered")
    /\ array' = TRUE
    /\ Goto(w, [pc[w] EXCEPT !.at = "added"])
    /\ UNCHANGED <<conf, upstream, client, owner, relay, retry, managerVars>>

PushPuller(w) ==
    /\ At(w, "added")
    /\ relay' = [relay EXCEPT ![pc[w].relay].stage = "queued"]
    /\ cur' = LoopIndex(pc[w].url)
    /\ Return(w, TRUE)
    /\ UNCHANGED <<conf, upstream, client, sharedVars, waiting, late>>
-----------------------------------------------------------------------------
(* Pushers.                                                                *)

NoSource == owner = NoRole

HasSource == owner # NoRole

(* A publisher arrives: the listener starts the manager, which looks for   *)
(* the publisher of its stream.                                            *)
AskPusher(w) ==
    /\ At(w, "events") /\ conf.kind = "push"
    /\ HasSource /\ MayAsk
    /\ Goto(w, [Round EXCEPT !.at = "connect", !.url = IF conf.mode = "all" THEN 1 ELSE HashUrl])
    /\ UNCHANGED <<conf, upstream, client, sharedVars, relay, retry, managerVars>>

Connected(u) == relay' = [relay EXCEPT ![CHOOSE r \in Unused : TRUE] = Opened(u, "queued")]

(* connect_all, one upstream; what fails waits in the map. *)
ConnectAll(w) ==
    LET u == pc[w].url
    IN  /\ At(w, "connect") /\ conf.mode = "all"
        /\ IF Opens(u)
           THEN Connected(u) /\ UNCHANGED <<waiting, late>>
           ELSE waiting' = waiting \cup {u} /\ late' = late \ {u} /\ UNCHANGED relay
        /\ Goto(w, IF u + 1 \in Upstreams THEN [pc[w] EXCEPT !.url = u + 1] ELSE IdleCheck)
        /\ UNCHANGED <<conf, upstream, client, sharedVars, retry, cur>>

ConnectHash(w) ==
    /\ At(w, "connect") /\ conf.mode = "hash"
    /\ IF Opens(HashUrl) THEN Connected(HashUrl) ELSE UNCHANGED relay
    /\ Return(w, Opens(HashUrl))
    /\ UNCHANGED <<conf, upstream, client, sharedVars, managerVars>>

(* reconnect, called for one entry of the list, looks for the publisher. *)
RetryPusher(w) ==
    /\ At(w, "retry") /\ pc[w].left > 0 /\ conf.kind = "push"
    /\ Goto(w, [pc[w] EXCEPT !.at = "looked", !.source = HasSource])
    /\ UNCHANGED <<conf, upstream, client, sharedVars, relay, retry, managerVars>>

OkFromStart(source) ==
    waiting = {} \/ (source /\ \A u \in waiting \cap late : Opens(u))

(* What reconnect_all returns.  ret is an error until the first upstream   *)
(* was tried, and keeps its value for one whose time has not come: the     *)
(* ones behind a connected one count as connected.                         *)
AllRet(source) ==
    \/ waiting = {}
    \/ /\ source
       /\ Min(waiting) \in late
       /\ \A u \in waiting \cap late : Opens(u)

(* reconnect_all, which holds m_rwclock. *)
ReconnectAll(w) ==
    LET opened == {u \in waiting \cap late : pc[w].source /\ Opens(u)}
        new    == CHOOSE f \in [opened -> Unused] : \A u, v \in opened : f[u] = f[v] => u = v
    IN  /\ At(w, "looked") /\ conf.mode = "all"
        /\ relay' = [r \in Relays |-> IF \E u \in opened : new[u] = r
                                      THEN Opened(CHOOSE u \in opened : new[u] = r, "queued")
                                      ELSE relay[r]]
        /\ waiting' = waiting \ opened
        /\ late' = late \ waiting
        /\ Return(w, AllRet(pc[w].source))
        /\ UNCHANGED <<conf, upstream, client, sharedVars, cur>>

ReconnectHash(w) ==
    /\ At(w, "looked") /\ conf.mode = "hash"
    /\ late' = late \ {Manager}
    /\ IF Manager \in late /\ pc[w].source
       THEN Goto(w, [pc[w] EXCEPT !.at = "connect"]) /\ UNCHANGED retry
       ELSE Return(w, FALSE)
    /\ UNCHANGED <<conf, upstream, client, sharedVars, relay, cur, waiting>>
-----------------------------------------------------------------------------
(* The group: events, the listener's at most once in a batch, and then     *)
(* idle_check: check_reconnect_relay, check_invalid_sock, check_new_role.  *)

StartRetry(w) ==
    /\ At(w, "events") \/ At(w, "idle_check")
    /\ Goto(w, [Round EXCEPT !.at = "retry", !.by = "retry", !.left = retry[w]])
    /\ UNCHANGED <<conf, upstream, client, sharedVars, relay, retry, managerVars>>

(* All entries were tried: check_invalid_sock. *)
Reaping(w) == At(w, "retry") /\ pc[w].left = 0
Reap == [Round EXCEPT !.at = "retry", !.by = "retry"]

Longer(n, k) == IF n + k > MaxEntries THEN MaxEntries ELSE n + k
Broken(w) == {r \in Held(w) : relay[r].sock = "broken"}

(* A pusher's uninit: add_reconnect_stream.  All broken ones in one step:  *)
(* nothing but this group looks at them.                                   *)
ReapPushers(w) ==
    LET urls == {relay[r].url : r \in Broken(w)}
    IN  /\ Reaping(w) /\ conf.kind = "push"
        /\ retry' = [retry EXCEPT ![w] = Longer(@, Cardinality(Broken(w)))]
        /\ IF conf.mode = "all"
           THEN waiting' = waiting \cup urls /\ late' = late \ urls
           ELSE /\ late' = IF urls = {} THEN late ELSE late \ {Manager}
                /\ UNCHANGED waiting
        /\ relay' = [r \in Relays |-> IF r \in Broken(w) THEN NewRelay ELSE relay[r]]
        /\ Goto(w, [Round EXCEPT !.at = "take"])
        /\ UNCHANGED <<conf, upstream, client, sharedVars, cur>>

Unregistered(r) == IF owner = r THEN NoRole ELSE owner

(* A puller's uninit: first the registry entry ... *)
UnregisterPuller(w) ==
    /\ Reaping(w) /\ conf.kind = "pull"
    /\ IF Broken(w) = {}
       THEN Goto(w, [Round EXCEPT !.at = "take"]) /\ UNCHANGED <<retry, owner, relay>>
       ELSE \E r \in Broken(w) :
              /\ retry' = [retry EXCEPT ![w] = Longer(@, 1)]
              /\ owner' = Unregistered(r)
              /\ relay' = [relay EXCEPT ![r].stage = "leaving"]
              /\ Goto(w, [Round EXCEPT !.at = "unregistered", !.relay = r])
    /\ UNCHANGED <<conf, upstream, client, array, managerVars>>

(* ... then the array, whoever registered since, and add_reconnect_stream. *)
ReapPuller(w) ==
    /\ At(w, "unregistered")
    /\ array' = FALSE
    /\ late' = late \ {Manager}
    /\ relay' = [relay EXCEPT ![pc[w].relay] = NewRelay]
    /\ Goto(w, Reap)
    /\ UNCHANGED <<conf, upstream, client, owner, retry, cur, waiting>>

(* A role from the list, or none; one whose socket epoll refuses is        *)
(* deleted without uninit: a puller stays in the registry.                 *)
TakeNew(w) ==
    LET queued == {r \in Relays : relay[r].stage = "queued"}
    IN  /\ At(w, "take")
        /\ Goto(w, Round)
        /\ \/ queued = {} /\ UNCHANGED relay
           \/ \E r \in queued :
                relay' = [relay EXCEPT ![r].stage = "held", ![r].worker = w]
           \/ \E r \in queued :
                /\ relay[r].sock = "broken"
                /\ relay' = [relay EXCEPT ![r] =
                               IF conf.kind = "pull" THEN [NewRelay EXCEPT !.stage = "leaked"]
                                                     ELSE NewRelay]
        /\ UNCHANGED <<conf, upstream, client, sharedVars, retry, managerVars>>
-----------------------------------------------------------------------------
(* The environment.                                                        *)

Alive(r) == relay[r].stage \in {"registered", "queued", "held"}

(* The connection breaks, the idle timer ends, or a puller has no reader. *)
Break(r) ==
    /\ Alive(r) /\ relay[r].sock = "open"
    /\ relay' = [relay EXCEPT ![r].sock = "broken"]
    /\ UNCHANGED <<conf, upstream, client, sharedVars, retry, managerVars, pc>>

PutIgnored == FALSE

(* put has no array to put into, get none to read. *)
NoArray == ~array

(* Without an array the relay's data closes it, or no data its timer; and  *)
(* libsrt gives up on an upstream that does not answer.                    *)
Starve(r) ==
    /\ relay[r].stage \in {"queued", "held"} /\ relay[r].sock = "open"
    /\ NoArray \/ upstream[relay[r].url] = "dead"
    /\ relay' = [relay EXCEPT ![r].sock = "broken"]
    /\ UNCHANGED <<conf, upstream, client, sharedVars, retry, managerVars, pc>>

(* A client is accepted as publisher in three steps, and leaves in two.    *)
ClientLooks ==
    /\ client = "away" /\ owner = NoRole
    /\ client' = "looked"
    /\ UNCHANGED <<conf, upstream, sharedVars, relay, retry, managerVars, pc>>

ClientAdds ==
    /\ client = "looked"
    /\ array' = TRUE /\ client' = "added"
    /\ UNCHANGED <<conf, upstream, owner, relay, retry, managerVars, pc>>

ClientRegisters ==
    /\ client = "added"
    /\ IF Free THEN owner' = Client /\ client' = "publisher"
               ELSE UNCHANGED owner /\ client' = "away"
    /\ UNCHANGED <<conf, upstream, array, relay, retry, managerVars, pc>>

ClientDrops ==
    /\ client = "publisher"
    /\ array' = FALSE /\ client' = "leaving"
    /\ UNCHANGED <<conf, upstream, owner, relay, retry, managerVars, pc>>

ClientUnregisters ==
    /\ client = "leaving"
    /\ owner' = Unregistered(Client) /\ client' = "away"
    /\ UNCHANGED <<conf, upstream, array, relay, retry, managerVars, pc>>

ClientStep ==
    ClientLooks \/ ClientAdds \/ ClientRegisters \/ ClientDrops \/ ClientUnregisters

(* m_reconnect_interval passes. *)
Tick(t) ==
    /\ t \in (waiting \cup {Manager}) \ late
    /\ late' = late \cup {t}
    /\ UNCHANGED <<conf, upstream, client, sharedVars, relay, retry, cur, waiting, pc>>
-----------------------------------------------------------------------------
Progress(w) ==
    \/ StartRetry(w) \/ RetryPuller(w) \/ StartPuller(w) \/ TryUpstream(w)
    \/ AddArray(w) \/ PushPuller(w)
    \/ ConnectAll(w) \/ ConnectHash(w) \/ RetryPusher(w) \/ ReconnectAll(w) \/ ReconnectHash(w)
    \/ ReapPushers(w) \/ UnregisterPuller(w) \/ ReapPuller(w) \/ TakeNew(w)

Threads == IF conf.mode = "all" THEN AllWorkers ELSE Workers

Next ==
    \/ \E w \in Threads : Progress(w) \/ AskPuller(w) \/ AskPusher(w)
    \/ \E r \in Relays : Break(r) \/ Starve(r)
    \/ ClientStep
    \/ \E t \in Upstreams \cup {Manager} : Tick(t)

(* Workers loop, clocks run and libsrt gives up on who does not answer.    *)
Fairness ==
    /\ \A w \in Workers : WF_vars(w \in Threads /\ Progress(w))
    /\ \A r \in Relays : WF_vars(Starve(r))
    /\ \A t \in Upstreams \cup {Manager} : WF_vars(Tick(t))

Spec == Init /\ [][Next]_vars
FairSpec == Spec /\ Fairness
-----------------------------------------------------------------------------
(* Properties.                                                             *)

(* Every variable holds a value of its type. *)
RelaysTypeOK ==
    /\ conf \in Confs
    /\ owner \in Relays \cup {NoRole, Client} /\ array \in BOOLEAN
    /\ client \in {"away", "looked", "added", "publisher", "leaving"}
    /\ \A r \in Relays : relay[r].url \in Upstreams
    /\ retry \in [Workers -> 0..MaxEntries]
    /\ cur \in Upstreams /\ waiting \subseteq Upstreams
    /\ late \subseteq waiting \cup {Manager}
    /\ \A w \in Workers : pc[w].url \in Upstreams /\ pc[w].left \in 0..MaxEntries

(* A puller in the list or in a group is the publisher of its stream,      *)
(* though two workers may start one at the same time, for a player and     *)
(* for a broken one, after both have seen that there is no publisher; and  *)
(* the registry names no other puller but one that epoll refused.          *)
PullerIsSource ==
    conf.kind = "pull" =>
      \A r \in Relays : owner = r <=> Alive(r) \/ relay[r].stage = "leaked"

(* A puller that has the name but whose array was taken along by the       *)
(* puller before it does not keep the name.                                *)
Sourceless == ~array /\ \E r \in Relays : owner = r /\ relay[r].stage = "held"

SourceServed == Sourceless ~> ~Sourceless

Usable ==
    IF conf.mode = "loop" THEN \E u \in Upstreams : upstream[u] = "live"
                          ELSE upstream[HashUrl] = "live"

Leaked == \E r \in Relays : relay[r].stage = "leaked"

(* Once a puller broke, the stream gets a source again if an upstream has  *)
(* it (in loop mode any of them), whatever starts and ends meanwhile.  Two *)
(* entries of the manager in the lists of two groups share the loop index  *)
(* and can take turns for ever at upstreams that do not answer.            *)
PullerReturns ==
    conf.kind = "pull" /\ Usable /\ Entries = 1
      ~> Entries > 1 \/ Leaked \/ owner = Client
         \/ \E r \in Relays : Alive(r) /\ relay[r].sock = "open" /\ upstream[relay[r].url] = "live"

(* An upstream that waits is connected again, by its timer or by the start *)
(* of a publisher, as long as a group has the manager in its list and      *)
(* there is a stream to push.                                              *)
PusherReturns ==
    \A u \in Upstreams :
        u \in waiting /\ Opens(u)
          ~> \/ \E r \in Relays : Alive(r) /\ relay[r].sock = "open" /\ relay[r].url = u
             \/ owner = NoRole \/ Entries = 0

(* A group has the manager in its list. *)
Listed == \E w \in Workers : retry[w] > 0

(* The manager leaves the last list with upstreams still waiting only in a *)
(* step that connected the first of those that waited.                     *)
FirstNotForgotten ==
    [][waiting # {} /\ waiting' # {} /\ Listed /\ ~Listed'
         => Min(waiting) \notin waiting']_vars
=============================================================================
