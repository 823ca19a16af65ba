---------------------------- MODULE RelaysProofs ----------------------------
(***************************************************************************)
(* A puller in the list or in a group is the publisher of its stream, for  *)
(* any number of workers, upstreams and relays.                            *)
(***************************************************************************)
EXTENDS Relays, TLAPS, FiniteSetTheorems

Places == {"events", "start", "try", "registered", "added", "connect", "looked", "retry",
           "idle_check", "unregistered", "take"}
RelayRec == [stage : {"none", "registered", "queued", "held", "leaving", "leaked"},
             url : Upstreams, sock : {"open", "broken"}, worker : Workers \cup {NoRole}]
PcRec == [at : Places, by : {"listener", "retry"}, left : 0..MaxEntries, url : Upstreams,
          relay : Relays \cup {NoRole}, source : BOOLEAN]

Types ==
    /\ conf \in Confs
    /\ upstream \in [Upstreams -> {"live", "dead", "unknown"}]
    /\ owner \in Relays \cup {NoRole, Client} /\ array \in BOOLEAN
    /\ relay \in [Relays -> RelayRec]
    /\ retry \in [Workers -> 0..MaxEntries]
    /\ cur \in Upstreams /\ waiting \subseteq Upstreams
    /\ late \subseteq waiting \cup {Manager}
    /\ pc \in [Workers -> PcRec]

(* An entry of the list that a round has still to look at is in the list.  *)
Rounds ==
    \A w \in Workers : pc[w].by = "retry" =>
      /\ pc[w].left <= retry[w]
      /\ pc[w].at # "retry" => pc[w].left > 0

Named == {"registered", "queued", "held", "leaked"}

(* One puller at a time is between the registry and the list; one that     *)
(* leaves is the business of one worker.                                   *)
PullInv ==
    conf.kind = "pull" =>
      /\ \A r \in Relays : owner = r <=> relay[r].stage \in Named
      /\ \A w \in Workers :
           /\ pc[w].at \notin {"connect", "looked"}
           /\ pc[w].at \in {"registered", "added"} =>
                pc[w].relay \in Relays /\ relay[pc[w].relay].stage = "registered"
           /\ pc[w].at = "unregistered" =>
                pc[w].relay \in Relays /\ relay[pc[w].relay].stage = "leaving"
      /\ \A v, w \in Workers :
           /\ {pc[v].at, pc[w].at} \subseteq {"registered", "added"} => v = w
           /\ pc[v].at = "unregistered" /\ pc[w].at = "unregistered" /\ pc[v].relay = pc[w].relay
                => v = w

RInv == Types /\ Rounds /\ PullInv
-----------------------------------------------------------------------------
(* Facts about the constants. *)
LEMMA UpstreamsAre ==
    /\ Upstreams \subseteq Nat \ {0} /\ 1 \in Upstreams /\ Max(Upstreams) \in Upstreams
    /\ Manager \notin Upstreams /\ HashUrl \in Upstreams
    /\ \A u \in Upstreams : NextUrl(u) \in Upstreams
<1>1. Cardinality(Upstreams) \in Nat
  BY FS_CardinalityType, RelaysAssumption
<1>2. Upstreams = 1..Cardinality(Upstreams) /\ Upstreams # {}
  BY RelaysAssumption
<1>3. Cardinality(Upstreams) \in Upstreams /\ \A u \in Upstreams : Cardinality(Upstreams) >= u
  BY <1>1, <1>2
<1>4. Max(Upstreams) \in Upstreams
  BY <1>3 DEF Max
<1> QED BY <1>1, <1>2, <1>4, RelaysAssumption DEF Manager, NextUrl

LEMMA ThreadsAre == Threads \subseteq Workers
BY RelaysAssumption DEF Threads

LEMMA BrokenAre ==
    \A w \in Workers : Broken(w) \subseteq Relays /\ Cardinality(Broken(w)) \in Nat
<1> SUFFICES ASSUME NEW w \in Workers
             PROVE  Broken(w) \subseteq Relays /\ Cardinality(Broken(w)) \in Nat
  OBVIOUS
<1>1. Broken(w) \subseteq Relays
  BY DEF Broken, Held
<1> QED BY <1>1, FS_Subset, FS_CardinalityType, RelaysAssumption

LEMMA Lengths ==
    ASSUME NEW n \in 0..MaxEntries, NEW k \in Nat
    PROVE  Longer(n, k) \in 0..MaxEntries /\ Longer(n, k) >= n
BY RelaysAssumption DEF Longer

LEMMA RoundIs ==
    Round \in PcRec
BY UpstreamsAre, RelaysAssumption DEF Round, PcRec, Places

(* What start and reconnect leave behind, whatever they return.            *)
LEMMA ReturnDoes ==
    ASSUME Types, Rounds, NEW w \in Workers, NEW ok, Return(w, ok),
           pc[w].by = "retry" => pc[w].left > 0
    PROVE  /\ retry' \in [Workers -> 0..MaxEntries] /\ pc' \in [Workers -> PcRec] /\ Rounds'
           /\ pc'[w].at \in {"idle_check", "retry"} /\ \A v \in Workers : v # w => pc'[v] = pc[v]
<1> USE RelaysAssumption DEF Types
<1>1. CASE pc[w].by = "listener"
  <2>1. pc' = [pc EXCEPT ![w] = IdleCheck] /\ retry' = retry
    BY <1>1 DEF Return, Goto
  <2>2. IdleCheck \in PcRec /\ IdleCheck.at = "idle_check" /\ IdleCheck.by = "listener"
    BY RoundIs DEF IdleCheck, Round, PcRec, Places
  <2> QED BY <2>1, <2>2 DEF Rounds
<1>2. CASE pc[w].by # "listener"
  <2> DEFINE p == [Round EXCEPT !.at = "retry", !.by = "retry", !.left = pc[w].left - 1]
  <2>1. pc[w] \in PcRec /\ pc[w].by = "retry" /\ pc[w].left \in 0..MaxEntries /\ pc[w].left > 0
    BY <1>2 DEF PcRec
  <2>2. p \in PcRec /\ p.at = "retry" /\ p.by = "retry" /\ p.left = pc[w].left - 1
    <3>1. Round \in PcRec /\ pc[w].left - 1 \in 0..MaxEntries
      BY <2>1, RoundIs
    <3> QED BY <3>1 DEF PcRec, Places
  <2>3. pc' = [pc EXCEPT ![w] = p]
        /\ (retry' = retry \/ \E n \in Dropped(retry[w]) : retry' = [retry EXCEPT ![w] = n])
    BY <1>2 DEF Return, Goto
  <2>4. pc[w].left <= retry[w] /\ retry[w] \in 0..MaxEntries
    BY <2>1 DEF Rounds
  <2>5. \A n \in Dropped(retry[w]) : n \in 0..MaxEntries /\ pc[w].left - 1 <= n
    BY <2>1, <2>4 DEF Dropped
  <2> HIDE DEF p
  <2>6. \/ retry' = retry
        \/ /\ retry' \in [Workers -> 0..MaxEntries] /\ pc[w].left - 1 <= retry'[w]
           /\ \A v \in Workers : v # w => retry'[v] = retry[v]
    BY <2>3, <2>5
  <2>7. pc[w].left - 1 <= retry'[w]
    BY <2>1, <2>4, <2>6
  <2> QED BY <2>2, <2>3, <2>6, <2>7 DEF Rounds
<1> QED BY <1>1, <1>2
-----------------------------------------------------------------------------
(* What a move of one worker keeps.                                        *)

LEMMA Goes ==
    ASSUME Types, NEW w \in Workers, NEW p \in PcRec, Goto(w, p)
    PROVE  /\ pc' \in [Workers -> PcRec] /\ pc'[w] = p
           /\ \A v \in Workers : v # w => pc'[v] = pc[v]
BY DEF Types, Goto

LEMMA RoundsKept ==
    ASSUME Types, Rounds, NEW w \in Workers, retry' \in [Workers -> 0..MaxEntries],
           \A v \in Workers : retry'[v] >= retry[v],
           pc' \in [Workers -> PcRec], \A v \in Workers : v # w => pc'[v] = pc[v],
           pc'[w].by = "retry" => /\ pc'[w].left <= retry'[w]
                                  /\ pc'[w].at # "retry" => pc'[w].left > 0
    PROVE  Rounds'
<1> SUFFICES ASSUME NEW v \in Workers, pc'[v].by = "retry"
             PROVE  pc'[v].left <= retry'[v] /\ (pc'[v].at # "retry" => pc'[v].left > 0)
  BY DEF Rounds
<1>1. CASE v = w
  BY <1>1
<1>2. CASE v # w
  <2>1. pc'[v] = pc[v] /\ pc[v].left <= retry[v] /\ (pc[v].at # "retry" => pc[v].left > 0)
    BY <1>2 DEF Rounds
  <2>2. pc[v].left \in Nat /\ retry[v] \in Nat /\ retry'[v] \in Nat
    BY RelaysAssumption DEF Types, PcRec
  <2> QED BY <2>1, <2>2
<1> QED BY <1>1, <1>2

Plain == Places \ {"registered", "added", "unregistered", "connect", "looked"}

LEMMA PullKept ==
    ASSUME PullInv, NEW w \in Workers, conf' = conf, owner' = owner,
           \A r \in Relays : relay'[r].stage = relay[r].stage,
           pc'[w].at \in Plain, \A v \in Workers : v # w => pc'[v] = pc[v]
    PROVE  PullInv'
BY DEF PullInv, Plain

(* The same for a step that moves no worker. *)
LEMMA PullSame ==
    ASSUME PullInv, conf' = conf, pc' = pc,
           \A r \in Relays : relay'[r].stage = relay[r].stage,
           \A r \in Relays : owner' = r <=> owner = r
    PROVE  PullInv'
BY DEF PullInv

LEMMA RoundsSame ==
    ASSUME Rounds, UNCHANGED <<pc, retry>>
    PROVE  Rounds'
BY DEF Rounds

(* A worker that moves inside the round it is in. *)
LEMMA MovesOn ==
    ASSUME Types, Rounds, NEW w \in Workers, NEW p \in PcRec, Goto(w, p), retry' = retry,
           p.by = pc[w].by, p.left = pc[w].left, p.at = "retry" \/ pc[w].by = "listener" \/ pc[w].left > 0
    PROVE  Rounds'
<1>1. /\ pc' \in [Workers -> PcRec] /\ pc'[w] = p
      /\ \A v \in Workers : v # w => pc'[v] = pc[v]
  BY Goes
<1>2. retry \in [Workers -> 0..MaxEntries] /\ \A v \in Workers : retry'[v] >= retry[v]
  BY RelaysAssumption DEF Types
<1>3. p.by = "retry" => p.left <= retry'[w] /\ (p.at # "retry" => p.left > 0)
  BY DEF Rounds
<1> QED BY <1>1, <1>2, <1>3, RoundsKept

(* A worker that starts a round of its own. *)
LEMMA StartsRound ==
    ASSUME Types, Rounds, NEW w \in Workers, NEW p \in PcRec, Goto(w, p), p.by = "listener",
           retry' \in [Workers -> 0..MaxEntries], \A v \in Workers : retry'[v] >= retry[v]
    PROVE  Rounds'
<1>1. /\ pc' \in [Workers -> PcRec] /\ pc'[w] = p
      /\ \A v \in Workers : v # w => pc'[v] = pc[v]
  BY Goes
<1> QED BY <1>1, RoundsKept

LEMMA RoundAt ==
    ASSUME NEW a \in Places
    PROVE  [Round EXCEPT !.at = a] \in PcRec /\ [Round EXCEPT !.at = a].by = "listener"
           /\ [Round EXCEPT !.at = a].at = a
<1>1. Round \in PcRec /\ Round.by = "listener"
  BY RoundIs DEF Round
<1> QED BY <1>1 DEF PcRec

LEMMA InitRInv == Init => RInv
<1> SUFFICES ASSUME Init PROVE RInv
  OBVIOUS
<1> USE RelaysAssumption DEF Init
<1>1. NewRelay \in RelayRec /\ NewRelay.stage = "none"
  BY DEF NewRelay, RelayRec
<1>2. Round \in PcRec /\ Round.by = "listener" /\ Round.at = "events"
  BY RoundIs DEF Round
<1>3. Types
  <2>1. relay \in [Relays -> RelayRec] /\ pc \in [Workers -> PcRec]
    BY <1>1, <1>2
  <2>2. retry \in [Workers -> 0..MaxEntries]
    OBVIOUS
  <2>3. cur \in Upstreams /\ waiting \subseteq Upstreams /\ late \subseteq waiting \cup {Manager}
    BY UpstreamsAre
  <2> QED BY <2>1, <2>2, <2>3 DEF Types
<1>4. Rounds
  BY <1>2 DEF Rounds
<1>5. PullInv
  BY <1>1, <1>2 DEF PullInv, Named
<1> QED BY <1>3, <1>4, <1>5 DEF RInv
-----------------------------------------------------------------------------
(* One lemma for each action, or for those that do the same.               *)

LEMMA AskPullerKeeps ==
    ASSUME RInv, NEW w \in Workers, AskPuller(w)
    PROVE  RInv'
<1> DEFINE p == [Round EXCEPT !.at = "start"]
<1>1. p \in PcRec /\ p.by = "listener" /\ p.at = "start"
  BY RoundAt DEF Places
<1>2. Goto(w, p) /\ UNCHANGED <<conf, upstream, owner, array, relay, retry, cur, waiting, late>>
  BY DEF AskPuller, sharedVars, managerVars
<1> HIDE DEF p
<1>3. /\ pc' \in [Workers -> PcRec] /\ pc'[w] = p
      /\ \A v \in Workers : v # w => pc'[v] = pc[v]
  BY <1>1, <1>2, Goes DEF RInv
<1>4. Types'
  BY <1>2, <1>3 DEF RInv, Types
<1>5. Rounds'
  <2>1. retry' \in [Workers -> 0..MaxEntries] /\ \A v \in Workers : retry'[v] >= retry[v]
    BY <1>2, RelaysAssumption DEF RInv, Types
  <2> QED BY <1>1, <1>2, <2>1, StartsRound DEF RInv
<1>6. PullInv'
  BY <1>1, <1>2, <1>3, PullKept DEF RInv, Plain, Places
<1> QED BY <1>4, <1>5, <1>6 DEF RInv

LEMMA RetryPullerKeeps ==
    ASSUME RInv, NEW w \in Workers, RetryPuller(w)
    PROVE  RInv'
<1> USE DEF RInv
<1>0. /\ pc[w].at = "retry" /\ pc[w].left > 0 /\ pc[w] \in PcRec
      /\ UNCHANGED <<conf, upstream, owner, array, relay, cur, waiting, late>>
  BY DEF RetryPuller, At, sharedVars, managerVars, Types
<1>1. CASE Manager \in late
  <2> DEFINE p == [pc[w] EXCEPT !.at = "start"]
  <2>1. p \in PcRec /\ p.by = pc[w].by /\ p.left = pc[w].left /\ p.at = "start"
    BY <1>0 DEF PcRec, Places
  <2>2. Goto(w, p) /\ retry' = retry
    BY <1>1 DEF RetryPuller
  <2> HIDE DEF p
  <2>3. /\ pc' \in [Workers -> PcRec] /\ pc'[w] = p
        /\ \A v \in Workers : v # w => pc'[v] = pc[v]
    BY <2>1, <2>2, Goes
  <2>4. Rounds'
    BY <1>0, <2>1, <2>2, MovesOn
  <2>5. PullInv'
    BY <1>0, <2>1, <2>3, PullKept DEF Plain, Places
  <2> QED BY <1>0, <2>2, <2>3, <2>4, <2>5 DEF Types
<1>2. CASE Manager \notin late
  <2>1. Return(w, FALSE)
    BY <1>2 DEF RetryPuller
  <2>2. /\ retry' \in [Workers -> 0..MaxEntries] /\ pc' \in [Workers -> PcRec] /\ Rounds'
        /\ pc'[w].at \in {"idle_check", "retry"} /\ \A v \in Workers : v # w => pc'[v] = pc[v]
    BY <1>0, <2>1, ReturnDoes
  <2>3. PullInv'
    BY <1>0, <2>2, PullKept DEF Plain, Places
  <2> QED BY <1>0, <2>2, <2>3 DEF Types
<1> QED BY <1>1, <1>2

LEMMA StartPullerKeeps ==
    ASSUME RInv, NEW w \in Workers, StartPuller(w)
    PROVE  RInv'
<1> USE DEF RInv
<1>0. /\ pc[w].at = "start" /\ pc[w] \in PcRec /\ late' \subseteq late
      /\ UNCHANGED <<conf, upstream, owner, array, relay, cur, waiting>>
  BY DEF StartPuller, At, sharedVars, Types
<1>a. pc[w].by = "listener" \/ pc[w].left > 0
  BY <1>0 DEF Rounds, PcRec
<1>b. waiting' \subseteq Upstreams /\ late' \subseteq waiting' \cup {Manager}
  BY <1>0 DEF Types
<1>1. CASE owner = NoRole
  <2> DEFINE u == IF conf.mode = "loop" THEN NextUrl(cur) ELSE HashUrl
             p == [pc[w] EXCEPT !.at = "try", !.url = u]
  <2>0. u \in Upstreams
    BY UpstreamsAre DEF Types
  <2> HIDE DEF u
  <2>1. p \in PcRec /\ p.by = pc[w].by /\ p.left = pc[w].left /\ p.at = "try"
    BY <1>0, <2>0 DEF PcRec, Places
  <2>2. Goto(w, p) /\ retry' = retry
    BY <1>1 DEF StartPuller, u
  <2> HIDE DEF p
  <2>3. /\ pc' \in [Workers -> PcRec] /\ pc'[w] = p
        /\ \A v \in Workers : v # w => pc'[v] = pc[v]
    BY <2>1, <2>2, Goes
  <2>4. Rounds'
    BY <1>0, <1>a, <2>1, <2>2, MovesOn
  <2>5. PullInv'
    BY <1>0, <2>1, <2>3, PullKept DEF Plain, Places
  <2> QED BY <1>0, <1>b, <2>2, <2>3, <2>4, <2>5 DEF Types
<1>2. CASE owner # NoRole
  <2>1. Return(w, FALSE)
    BY <1>2 DEF StartPuller
  <2>2. /\ retry' \in [Workers -> 0..MaxEntries] /\ pc' \in [Workers -> PcRec] /\ Rounds'
        /\ pc'[w].at \in {"idle_check", "retry"} /\ \A v \in Workers : v # w => pc'[v] = pc[v]
    BY <1>0, <1>a, <2>1, ReturnDoes DEF PcRec
  <2>3. PullInv'
    BY <1>0, <2>2, PullKept DEF Plain, Places
  <2> QED BY <1>0, <1>b, <2>2, <2>3 DEF Types
<1> QED BY <1>1, <1>2

LEMMA TryUpstreamKeeps ==
    ASSUME RInv, NEW w \in Workers, TryUpstream(w)
    PROVE  RInv'
<1> USE DEF RInv
<1> DEFINE u == pc[w].url
           r == CHOOSE x \in Unused : TRUE
<1>0. /\ pc[w].at = "try" /\ pc[w] \in PcRec /\ u \in Upstreams /\ cur \in Upstreams
      /\ UNCHANGED <<conf, upstream, array, waiting, late>>
  BY DEF TryUpstream, At, Types, PcRec
<1>a. pc[w].by = "listener" \/ pc[w].left > 0
  BY <1>0 DEF Rounds, PcRec
<1>1. CASE Opens(u) /\ Free
  <2> DEFINE o == Opened(u, "registered")
             p == [pc[w] EXCEPT !.at = "registered", !.relay = r]
  <2>1. /\ relay' = [relay EXCEPT ![r] = o] /\ owner' = r /\ Goto(w, p)
        /\ UNCHANGED <<retry, cur>> /\ owner = NoRole /\ Unused # {}
    BY <1>1 DEF TryUpstream, Free
  <2>2. r \in Relays /\ relay[r].stage = "none"
    BY <2>1 DEF Unused
  <2> HIDE DEF r
  <2>3. o \in RelayRec /\ o.stage = "registered"
    BY <1>0, UpstreamsAre DEF Opened, NewRelay, RelayRec
  <2>4. p \in PcRec /\ p.by = pc[w].by /\ p.left = pc[w].left /\ p.at = "registered" /\ p.relay = r
    BY <1>0, <2>2 DEF PcRec, Places
  <2> HIDE DEF o, p
  <2>5. /\ pc' \in [Workers -> PcRec] /\ pc'[w] = p
        /\ \A v \in Workers : v # w => pc'[v] = pc[v]
    BY <2>1, <2>4, Goes
  <2>6. /\ relay' \in [Relays -> RelayRec] /\ relay'[r].stage = "registered"
        /\ \A x \in Relays : x # r => relay'[x] = relay[x]
    BY <2>1, <2>2, <2>3 DEF Types
  <2>7. Types'
    BY <1>0, <2>1, <2>2, <2>5, <2>6 DEF Types
  <2>8. Rounds'
    BY <1>a, <2>1, <2>4, MovesOn
  <2>9. PullInv'
    <3> SUFFICES ASSUME conf.kind = "pull" PROVE PullInv'
      BY <1>0 DEF PullInv
    <3>1. \A x \in Relays : relay[x].stage \notin Named
      BY <2>1, RelaysAssumption DEF PullInv
    <3>2. \A v \in Workers : pc[v].at \notin {"registered", "added"}
      BY <3>1 DEF PullInv, Named
    <3>3. \A x \in Relays : owner' = x <=> relay'[x].stage \in Named
      BY <2>1, <2>2, <2>6, <3>1 DEF Named
    <3>4. \A v \in Workers : v # w /\ pc[v].at = "unregistered" =>
            pc'[v] = pc[v] /\ pc[v].relay \in Relays /\ pc[v].relay # r
            /\ relay'[pc[v].relay].stage = "leaving"
      BY <2>2, <2>5, <2>6 DEF PullInv
    <3>5. \A v \in Workers :
           /\ pc'[v].at \notin {"connect", "looked"}
           /\ pc'[v].at \in {"registered", "added"} =>
                pc'[v].relay \in Relays /\ relay'[pc'[v].relay].stage = "registered"
           /\ pc'[v].at = "unregistered" =>
                pc'[v].relay \in Relays /\ relay'[pc'[v].relay].stage = "leaving"
      BY <2>2, <2>4, <2>5, <2>6, <3>2, <3>4 DEF PullInv
    <3>6. \A v, x \in Workers :
           /\ {pc'[v].at, pc'[x].at} \subseteq {"registered", "added"} => v = x
           /\ pc'[v].at = "unregistered" /\ pc'[x].at = "unregistered" /\ pc'[v].relay = pc'[x].relay
                => v = x
      BY <2>4, <2>5, <3>2 DEF PullInv
    <3> QED BY <3>3, <3>5, <3>6 DEF PullInv
  <2> QED BY <2>7, <2>8, <2>9
<1>2. CASE ~(Opens(u) /\ Free)
  <2>0. UNCHANGED <<relay, owner>>
    BY <1>2 DEF TryUpstream
  <2>1. CASE conf.mode = "loop" /\ u # cur
    <3> DEFINE p == [pc[w] EXCEPT !.url = NextUrl(u)]
    <3>0. NextUrl(u) \in Upstreams
      BY <1>0, UpstreamsAre
    <3>1. p \in PcRec /\ p.by = pc[w].by /\ p.left = pc[w].left /\ p.at = "try"
      BY <1>0, <3>0 DEF PcRec
    <3>2. Goto(w, p) /\ UNCHANGED <<retry, cur>>
      BY <1>2, <2>1 DEF TryUpstream
    <3> HIDE DEF p
    <3>3. /\ pc' \in [Workers -> PcRec] /\ pc'[w] = p
          /\ \A v \in Workers : v # w => pc'[v] = pc[v]
      BY <3>1, <3>2, Goes
    <3>4. Rounds'
      BY <1>a, <3>1, <3>2, MovesOn
    <3>5. PullInv'
      BY <1>0, <2>0, <3>1, <3>3, PullKept DEF Plain, Places
    <3> QED BY <1>0, <2>0, <3>2, <3>3, <3>4, <3>5 DEF Types
  <2>2. CASE ~(conf.mode = "loop" /\ u # cur)
    <3>1. cur' = LoopIndex(u) /\ Return(w, FALSE)
      BY <1>2, <2>2 DEF TryUpstream
    <3>2. /\ retry' \in [Workers -> 0..MaxEntries] /\ pc' \in [Workers -> PcRec] /\ Rounds'
          /\ pc'[w].at \in {"idle_check", "retry"} /\ \A v \in Workers : v # w => pc'[v] = pc[v]
      BY <1>0, <1>a, <3>1, ReturnDoes DEF PcRec
    <3>3. cur' \in Upstreams
      BY <1>0, <3>1 DEF LoopIndex
    <3>4. PullInv'
      BY <1>0, <2>0, <3>2, PullKept DEF Plain, Places
    <3> QED BY <1>0, <2>0, <3>2, <3>3, <3>4 DEF Types
  <2> QED BY <2>1, <2>2
<1> QED BY <1>1, <1>2

LEMMA AddArrayKeeps ==
    ASSUME RInv, NEW w \in Workers, AddArray(w)
    PROVE  RInv'
<1> USE DEF RInv
<1> DEFINE p == [pc[w] EXCEPT !.at = "added"]
<1>0. /\ pc[w].at = "registered" /\ pc[w] \in PcRec /\ array' = TRUE /\ Goto(w, p)
      /\ UNCHANGED <<conf, upstream, owner, relay, retry, cur, waiting, late>>
  BY DEF AddArray, At, Types, managerVars
<1>1. p \in PcRec /\ p.by = pc[w].by /\ p.left = pc[w].left /\ p.at = "added"
      /\ p.relay = pc[w].relay
  BY <1>0 DEF PcRec, Places
<1>a. pc[w].by = "listener" \/ pc[w].left > 0
  BY <1>0 DEF Rounds, PcRec
<1> HIDE DEF p
<1>2. /\ pc' \in [Workers -> PcRec] /\ pc'[w] = p
      /\ \A v \in Workers : v # w => pc'[v] = pc[v]
  BY <1>0, <1>1, Goes
<1>3. Rounds'
  BY <1>0, <1>a, <1>1, MovesOn
<1>4. \A v \in Workers :
        /\ pc'[v].relay = pc[v].relay
        /\ pc'[v].at \in {"registered", "added"} <=> pc[v].at \in {"registered", "added"}
        /\ pc'[v].at = pc[v].at \/ pc'[v].at = "added"
  BY <1>0, <1>1, <1>2
<1>5. PullInv'
  BY <1>0, <1>4 DEF PullInv
<1> QED BY <1>0, <1>2, <1>3, <1>5 DEF Types

LEMMA PushPullerKeeps ==
    ASSUME RInv, NEW w \in Workers, PushPuller(w)
    PROVE  RInv'
<1> USE DEF RInv
<1> DEFINE r == pc[w].relay
<1>0. /\ pc[w].at = "added" /\ pc[w] \in PcRec /\ pc[w].url \in Upstreams /\ cur \in Upstreams
      /\ relay' = [relay EXCEPT ![r].stage = "queued"] /\ cur' = LoopIndex(pc[w].url)
      /\ UNCHANGED <<conf, upstream, owner, array, waiting, late>>
  BY DEF PushPuller, At, Types, PcRec, sharedVars
<1>1. Return(w, TRUE)
  BY DEF PushPuller
<1>2. /\ retry' \in [Workers -> 0..MaxEntries] /\ pc' \in [Workers -> PcRec] /\ Rounds'
      /\ pc'[w].at \in {"idle_check", "retry"} /\ \A v \in Workers : v # w => pc'[v] = pc[v]
  <2>1. pc[w].by = "retry" => pc[w].left > 0
    BY <1>0 DEF Rounds
  <2> QED BY <1>1, <2>1, ReturnDoes
<1>3. cur' \in Upstreams
  BY <1>0 DEF LoopIndex
<1>4. /\ relay' \in [Relays -> RelayRec]
      /\ \A x \in Relays : relay'[x].stage = IF x = r THEN "queued" ELSE relay[x].stage
  BY ZenonT(60), <1>0 DEF Types, RelayRec
<1>5. Types'
  BY <1>0, <1>2, <1>3, <1>4 DEF Types
<1>6. PullInv'
  <2> SUFFICES ASSUME conf.kind = "pull" PROVE PullInv'
    BY <1>0 DEF PullInv
  <2>1. r \in Relays /\ relay[r].stage = "registered"
    BY <1>0 DEF PullInv
  <2> HIDE DEF r
  <2>2. \A x \in Relays : owner' = x <=> relay'[x].stage \in Named
    BY <1>0, <1>4, <2>1 DEF PullInv, Named
  <2>3. \A v \in Workers : v # w => pc'[v] = pc[v] /\ pc[v].at \notin {"registered", "added"}
    BY <1>0, <1>2 DEF PullInv
  <2>4. \A v \in Workers : v # w /\ pc[v].at = "unregistered" =>
          pc[v].relay \in Relays /\ relay'[pc[v].relay].stage = "leaving"
    BY <1>4, <2>1 DEF PullInv
  <2> QED BY <1>0, <1>2, <2>2, <2>3, <2>4 DEF PullInv
<1> QED BY <1>2, <1>5, <1>6

(* The actions of pushers, which say nothing of the registry.              *)
LEMMA PushersOnly ==
    ASSUME Types, conf.kind = "push", conf' = conf
    PROVE  PullInv'
BY DEF PullInv

LEMMA Pushing ==
    ASSUME RInv, NEW w \in Workers, pc[w].at \in {"connect", "looked"}
    PROVE  conf.kind = "push"
BY DEF RInv, PullInv, Types, Confs

LEMMA ConnectedIs ==
    ASSUME Types, NEW u \in Upstreams, Connected(u)
    PROVE  relay' \in [Relays -> RelayRec]
<1>1. Opened(u, "queued") \in RelayRec
  BY UpstreamsAre DEF Opened, NewRelay, RelayRec
<1> QED BY <1>1 DEF Connected, Types

LEMMA AskPusherKeeps ==
    ASSUME RInv, NEW w \in Workers, AskPusher(w)
    PROVE  RInv'
<1> USE DEF RInv
<1> DEFINE u == IF conf.mode = "all" THEN 1 ELSE HashUrl
           p == [Round EXCEPT !.at = "connect", !.url = u]
<1>1. u \in Upstreams
  BY UpstreamsAre
<1>2. Goto(w, p) /\ conf.kind = "push"
      /\ UNCHANGED <<conf, upstream, owner, array, relay, retry, cur, waiting, late>>
  BY DEF AskPusher, sharedVars, managerVars
<1> HIDE DEF u
<1>3. p \in PcRec /\ p.by = "listener"
  <2>1. Round \in PcRec /\ Round.by = "listener"
    BY RoundIs DEF Round
  <2> QED BY <1>1, <2>1 DEF PcRec, Places
<1> HIDE DEF p
<1>4. pc' \in [Workers -> PcRec]
  BY <1>2, <1>3, Goes
<1>5. retry' \in [Workers -> 0..MaxEntries] /\ \A v \in Workers : retry'[v] >= retry[v]
  BY <1>2, RelaysAssumption DEF Types
<1>6. Rounds'
  BY <1>2, <1>3, <1>5, StartsRound
<1> QED BY <1>2, <1>4, <1>6, PushersOnly DEF Types

LEMMA ConnectAllKeeps ==
    ASSUME RInv, NEW w \in Workers, ConnectAll(w)
    PROVE  RInv'
<1> USE DEF RInv
<1> DEFINE u == pc[w].url
           n == [pc[w] EXCEPT !.url = u + 1]
<1>0. /\ pc[w].at = "connect" /\ pc[w] \in PcRec /\ u \in Upstreams /\ conf.kind = "push"
      /\ UNCHANGED <<conf, upstream, owner, array, retry, cur>>
  BY Pushing DEF ConnectAll, At, Types, PcRec, sharedVars
<1>a. pc[w].by = "listener" \/ pc[w].left > 0
  BY <1>0 DEF Rounds, PcRec
<1>1. relay' \in [Relays -> RelayRec] /\ waiting' \subseteq Upstreams
      /\ late' \subseteq waiting' \cup {Manager}
  <2>1. CASE Opens(u)
    BY <1>0, <2>1, ConnectedIs DEF ConnectAll, Types
  <2>2. CASE ~Opens(u)
    BY <1>0, <2>2 DEF ConnectAll, Types
  <2> QED BY <2>1, <2>2
<1>2. pc' \in [Workers -> PcRec] /\ Rounds'
  <2>1. CASE u + 1 \in Upstreams
    <3>1. n \in PcRec /\ n.by = pc[w].by /\ n.left = pc[w].left
      BY <1>0, <2>1 DEF PcRec
    <3>2. Goto(w, n)
      BY <2>1 DEF ConnectAll
    <3> HIDE DEF n
    <3> QED BY <1>0, <1>a, <3>1, <3>2, Goes, MovesOn
  <2>2. CASE u + 1 \notin Upstreams
    <3>1. Goto(w, IdleCheck)
      BY <2>2 DEF ConnectAll
    <3>2. IdleCheck \in PcRec /\ IdleCheck.by = "listener"
      BY RoundAt DEF IdleCheck, Places
    <3>3. retry' \in [Workers -> 0..MaxEntries] /\ \A v \in Workers : retry'[v] >= retry[v]
      BY <1>0, RelaysAssumption DEF Types
    <3> QED BY <3>1, <3>2, <3>3, Goes, StartsRound
  <2> QED BY <2>1, <2>2
<1> QED BY <1>0, <1>1, <1>2, PushersOnly DEF Types

LEMMA ConnectHashKeeps ==
    ASSUME RInv, NEW w \in Workers, ConnectHash(w)
    PROVE  RInv'
<1> USE DEF RInv
<1>0. /\ pc[w].at = "connect" /\ pc[w] \in PcRec /\ conf.kind = "push"
      /\ UNCHANGED <<conf, upstream, owner, array, cur, waiting, late>>
  BY Pushing DEF ConnectHash, At, Types, sharedVars, managerVars
<1>1. Return(w, Opens(HashUrl)) /\ (pc[w].by = "retry" => pc[w].left > 0)
  BY <1>0 DEF ConnectHash, Rounds
<1>2. retry' \in [Workers -> 0..MaxEntries] /\ pc' \in [Workers -> PcRec] /\ Rounds'
  BY <1>1, ReturnDoes
<1>3. relay' \in [Relays -> RelayRec]
  BY UpstreamsAre, ConnectedIs DEF ConnectHash, Types
<1> QED BY <1>0, <1>2, <1>3, PushersOnly DEF Types

LEMMA RetryPusherKeeps ==
    ASSUME RInv, NEW w \in Workers, RetryPusher(w)
    PROVE  RInv'
<1> USE DEF RInv
<1> DEFINE p == [pc[w] EXCEPT !.at = "looked", !.source = HasSource]
<1>0. /\ pc[w].at = "retry" /\ pc[w].left > 0 /\ pc[w] \in PcRec /\ conf.kind = "push"
      /\ UNCHANGED <<conf, upstream, owner, array, relay, retry, cur, waiting, late>>
      /\ Goto(w, p)
  BY DEF RetryPusher, At, Types, sharedVars, managerVars
<1>1. HasSource \in BOOLEAN
  BY DEF HasSource
<1>2. p \in PcRec /\ p.by = pc[w].by /\ p.left = pc[w].left
  BY <1>0, <1>1 DEF PcRec, Places
<1> HIDE DEF p
<1>3. pc' \in [Workers -> PcRec] /\ Rounds'
  BY <1>0, <1>2, Goes, MovesOn
<1> QED BY <1>0, <1>3, PushersOnly DEF Types

LEMMA ReconnectAllKeeps ==
    ASSUME RInv, NEW w \in Workers, ReconnectAll(w)
    PROVE  RInv'
<1> USE DEF RInv
<1> DEFINE opened == {u \in waiting \cap late : pc[w].source /\ Opens(u)}
           new == CHOOSE f \in [opened -> Unused] : \A u, v \in opened : f[u] = f[v] => u = v
<1>0. /\ pc[w].at = "looked" /\ pc[w] \in PcRec /\ conf.kind = "push"
      /\ UNCHANGED <<conf, upstream, owner, array, cur>>
  BY Pushing DEF ReconnectAll, At, Types, sharedVars
<1>1. /\ relay' = [r \in Relays |-> IF \E u \in opened : new[u] = r
                                    THEN Opened(CHOOSE u \in opened : new[u] = r, "queued")
                                    ELSE relay[r]]
      /\ waiting' = waiting \ opened /\ late' = late \ waiting
      /\ Return(w, AllRet(pc[w].source))
  BY DEF ReconnectAll
<1>2. opened \subseteq Upstreams
  BY DEF Types
<1>3. \A u \in Upstreams : Opened(u, "queued") \in RelayRec
  BY UpstreamsAre DEF Opened, NewRelay, RelayRec
<1> HIDE DEF opened, new
<1>4. relay' \in [Relays -> RelayRec]
  <2> SUFFICES ASSUME NEW r \in Relays PROVE relay'[r] \in RelayRec
    BY <1>1
  <2>1. CASE \E u \in opened : new[u] = r
    <3>1. (CHOOSE u \in opened : new[u] = r) \in Upstreams
      BY <1>2, <2>1
    <3> QED BY <1>1, <1>3, <2>1, <3>1
  <2>2. CASE ~\E u \in opened : new[u] = r
    BY <1>1, <2>2 DEF Types
  <2> QED BY <2>1, <2>2
<1>5. waiting' \subseteq Upstreams /\ late' \subseteq waiting' \cup {Manager}
  BY <1>1 DEF Types
<1>6. pc[w].by = "retry" => pc[w].left > 0
  BY <1>0 DEF Rounds
<1>7. retry' \in [Workers -> 0..MaxEntries] /\ pc' \in [Workers -> PcRec] /\ Rounds'
  BY <1>1, <1>6, ReturnDoes
<1> QED BY <1>0, <1>4, <1>5, <1>7, PushersOnly DEF Types

LEMMA ReconnectHashKeeps ==
    ASSUME RInv, NEW w \in Workers, ReconnectHash(w)
    PROVE  RInv'
<1> USE DEF RInv
<1> DEFINE p == [pc[w] EXCEPT !.at = "connect"]
<1>0. /\ pc[w].at = "looked" /\ pc[w] \in PcRec /\ conf.kind = "push"
      /\ late' = late \ {Manager} /\ UNCHANGED <<conf, upstream, owner, array, relay, cur, waiting>>
  BY Pushing DEF ReconnectHash, At, Types, sharedVars
<1>1. pc[w].by = "retry" => pc[w].left > 0
  BY <1>0 DEF Rounds
<1>2. retry' \in [Workers -> 0..MaxEntries] /\ pc' \in [Workers -> PcRec] /\ Rounds'
  <2>1. CASE Manager \in late /\ pc[w].source
    <3>1. p \in PcRec /\ p.by = pc[w].by /\ p.left = pc[w].left
      BY <1>0 DEF PcRec, Places
    <3>2. Goto(w, p) /\ retry' = retry
      BY <2>1 DEF ReconnectHash
    <3>3. pc[w].by = "listener" \/ pc[w].left > 0
      BY <1>0, <1>1 DEF PcRec
    <3> HIDE DEF p
    <3> QED BY <3>1, <3>2, <3>3, Goes, MovesOn DEF Types
  <2>2. CASE ~(Manager \in late /\ pc[w].source)
    <3>1. Return(w, FALSE)
      BY <2>2 DEF ReconnectHash
    <3> QED BY <1>1, <3>1, ReturnDoes
  <2> QED BY <2>1, <2>2
<1>3. late' \subseteq waiting' \cup {Manager}
  BY <1>0 DEF Types
<1> QED BY <1>0, <1>2, <1>3, PushersOnly DEF Types
-----------------------------------------------------------------------------
LEMMA StartRetryKeeps ==
    ASSUME RInv, NEW w \in Workers, StartRetry(w)
    PROVE  RInv'
<1> USE DEF RInv
<1> DEFINE q == [Round EXCEPT !.at = "retry"]
           p == [Round EXCEPT !.at = "retry", !.by = "retry", !.left = retry[w]]
<1>0. UNCHANGED <<conf, upstream, owner, array, relay, retry, cur, waiting, late>> /\ Goto(w, p)
  BY DEF StartRetry, sharedVars, managerVars
<1>1. retry[w] \in 0..MaxEntries /\ retry \in [Workers -> 0..MaxEntries]
  BY DEF Types
<1>2. p \in PcRec /\ p.left = retry[w] /\ p.at = "retry"
  <2>1. Round \in PcRec
    BY RoundIs
  <2> QED BY <1>1, <2>1 DEF PcRec, Places
<1> HIDE DEF p
<1>3. /\ pc' \in [Workers -> PcRec] /\ pc'[w] = p
      /\ \A v \in Workers : v # w => pc'[v] = pc[v]
  BY <1>0, <1>2, Goes
<1>4. Rounds'
  <2>1. \A v \in Workers : retry'[v] >= retry[v]
    BY <1>0, <1>1, RelaysAssumption
  <2>2. retry[w] <= retry'[w]
    BY <1>0, <1>1, RelaysAssumption
  <2> QED BY <1>0, <1>1, <1>2, <1>3, <2>1, <2>2, RoundsKept
<1>5. PullInv'
  BY <1>0, <1>2, <1>3, PullKept DEF Plain, Places
<1> QED BY <1>0, <1>3, <1>4, <1>5 DEF Types

(* What a worker goes on with that has tried all entries. *)
LEMMA ReapIs ==
    Reap \in PcRec /\ Reap.at = "retry" /\ Reap.by = "retry" /\ Reap.left = 0
<1>1. Round.left = 0
  BY DEF Round
<1>2. Round \in PcRec
  BY RoundIs
<1>3. Reap.left = 0
  BY <1>1, <1>2 DEF Reap, PcRec
<1>4. Reap \in PcRec /\ Reap.at = "retry" /\ Reap.by = "retry"
  BY <1>2 DEF Reap, PcRec, Places
<1> QED BY <1>3, <1>4

(* A list that another round of the worker's group made longer. *)
LEMMA Grows ==
    ASSUME Types, NEW w \in Workers, NEW k \in Nat,
           retry' = [retry EXCEPT ![w] = Longer(@, k)]
    PROVE  retry' \in [Workers -> 0..MaxEntries] /\ \A v \in Workers : retry'[v] >= retry[v]
<1>1. retry \in [Workers -> 0..MaxEntries]
  BY DEF Types
<1>2. Longer(retry[w], k) \in 0..MaxEntries /\ Longer(retry[w], k) >= retry[w]
  BY <1>1, Lengths
<1> QED BY <1>1, <1>2, RelaysAssumption

LEMMA NewRelayIs == NewRelay \in RelayRec /\ NewRelay.stage = "none"
BY UpstreamsAre DEF NewRelay, RelayRec

LEMMA ReapPushersKeeps ==
    ASSUME RInv, NEW w \in Workers, ReapPushers(w)
    PROVE  RInv'
<1> USE DEF RInv
<1> DEFINE p == [Round EXCEPT !.at = "take"]
           urls == {relay[r].url : r \in Broken(w)}
<1>0. /\ conf.kind = "push" /\ UNCHANGED <<conf, upstream, owner, array, cur>> /\ Goto(w, p)
      /\ retry' = [retry EXCEPT ![w] = Longer(@, Cardinality(Broken(w)))]
      /\ relay' = [r \in Relays |-> IF r \in Broken(w) THEN NewRelay ELSE relay[r]]
  BY DEF ReapPushers, sharedVars
<1>1. p \in PcRec /\ p.by = "listener"
  BY RoundAt DEF Places
<1>2. urls \subseteq Upstreams
  BY BrokenAre DEF Types, RelayRec
<1>3. waiting' \subseteq Upstreams /\ late' \subseteq waiting' \cup {Manager}
  <2>1. CASE conf.mode = "all"
    BY <1>2, <2>1 DEF ReapPushers, Types
  <2>2. CASE conf.mode # "all"
    BY <1>2, <2>2 DEF ReapPushers, Types
  <2> QED BY <2>1, <2>2
<1>4. relay' \in [Relays -> RelayRec]
  BY <1>0, NewRelayIs DEF Types
<1>5. retry' \in [Workers -> 0..MaxEntries] /\ \A v \in Workers : retry'[v] >= retry[v]
  <2>1. Cardinality(Broken(w)) \in Nat
    BY BrokenAre
  <2> QED BY <1>0, <2>1, Grows
<1> HIDE DEF p
<1>6. pc' \in [Workers -> PcRec] /\ Rounds'
  BY <1>0, <1>1, <1>5, Goes, StartsRound
<1> QED BY <1>0, <1>3, <1>4, <1>5, <1>6, PushersOnly DEF Types

LEMMA UnregisterPullerKeeps ==
    ASSUME RInv, NEW w \in Workers, UnregisterPuller(w)
    PROVE  RInv'
<1> USE DEF RInv
<1>0. /\ pc[w].at = "retry" /\ conf.kind = "pull"
      /\ UNCHANGED <<conf, upstream, array, cur, waiting, late>>
  BY DEF UnregisterPuller, Reaping, At, managerVars
<1>1. CASE Broken(w) = {}
  <2> DEFINE p == [Round EXCEPT !.at = "take"]
  <2>1. p \in PcRec /\ p.by = "listener" /\ p.at = "take"
    BY RoundAt DEF Places
  <2>2. Goto(w, p) /\ UNCHANGED <<retry, owner, relay>>
    BY <1>1 DEF UnregisterPuller
  <2> HIDE DEF p
  <2>3. /\ pc' \in [Workers -> PcRec] /\ pc'[w] = p
        /\ \A v \in Workers : v # w => pc'[v] = pc[v]
    BY <2>1, <2>2, Goes
  <2>4. Rounds'
    <3>1. retry' \in [Workers -> 0..MaxEntries] /\ \A v \in Workers : retry'[v] >= retry[v]
      BY <2>2, RelaysAssumption DEF Types
    <3> QED BY <2>1, <2>2, <3>1, StartsRound
  <2>5. PullInv'
    BY <1>0, <2>1, <2>2, <2>3, PullKept DEF Plain, Places
  <2> QED BY <1>0, <2>2, <2>3, <2>4, <2>5 DEF Types
<1>2. CASE Broken(w) # {}
  <2>1. PICK r \in Broken(w) :
          /\ retry' = [retry EXCEPT ![w] = Longer(@, 1)]
          /\ owner' = Unregistered(r)
          /\ relay' = [relay EXCEPT ![r].stage = "leaving"]
          /\ Goto(w, [Round EXCEPT !.at = "unregistered", !.relay = r])
    BY <1>2 DEF UnregisterPuller
  <2> DEFINE p == [Round EXCEPT !.at = "unregistered", !.relay = r]
  <2>2. r \in Relays /\ relay[r].stage = "held"
    BY DEF Broken, Held
  <2>3. p \in PcRec /\ p.by = "listener" /\ p.at = "unregistered" /\ p.relay = r
    <3>1. Round \in PcRec /\ Round.by = "listener"
      BY RoundIs DEF Round
    <3> QED BY <2>2, <3>1 DEF PcRec, Places
  <2>4. Goto(w, p)
    BY <2>1
  <2> HIDE DEF p
  <2>5. /\ pc' \in [Workers -> PcRec] /\ pc'[w] = p
        /\ \A v \in Workers : v # w => pc'[v] = pc[v]
    BY <2>3, <2>4, Goes
  <2>6. retry' \in [Workers -> 0..MaxEntries] /\ \A v \in Workers : retry'[v] >= retry[v]
    BY <2>1, Grows
  <2>7. Rounds'
    BY <2>3, <2>4, <2>6, StartsRound
  <2>8. /\ relay' \in [Relays -> RelayRec]
        /\ \A x \in Relays : relay'[x].stage = IF x = r THEN "leaving" ELSE relay[x].stage
    BY <2>1, <2>2 DEF Types, RelayRec
  <2>9. owner = r /\ owner' = NoRole
    <3>1. owner = r
      BY <1>0, <2>2 DEF PullInv, Named
    <3> QED BY <2>1, <3>1 DEF Unregistered
  <2>10. Types'
    BY <1>0, <2>5, <2>6, <2>8, <2>9 DEF Types
  <2>11. PullInv'
    <3>1. \A x \in Relays : x # r => relay[x].stage \notin Named
      BY <1>0, <2>9 DEF PullInv
    <3>2. \A x \in Relays : owner' = x <=> relay'[x].stage \in Named
      BY <2>2, <2>8, <2>9, <3>1, RelaysAssumption DEF Named
    <3>3. \A v \in Workers : pc[v].at \notin {"registered", "added"}
      BY <1>0, <2>2, <3>1 DEF PullInv, Named
    <3>4. \A v \in Workers : pc[v].at = "unregistered" =>
            /\ pc[v].relay \in Relays /\ pc[v].relay # r
            /\ relay'[pc[v].relay].stage = "leaving"
      BY <1>0, <2>2, <2>8 DEF PullInv
    <3>5. \A v \in Workers :
           /\ pc'[v].at \notin {"connect", "looked", "registered", "added"}
           /\ pc'[v].at = "unregistered" =>
                pc'[v].relay \in Relays /\ relay'[pc'[v].relay].stage = "leaving"
      BY <1>0, <2>2, <2>3, <2>5, <2>8, <3>3, <3>4 DEF PullInv
    <3>6. \A v, x \in Workers :
           /\ {pc'[v].at, pc'[x].at} \subseteq {"registered", "added"} => v = x
           /\ pc'[v].at = "unregistered" /\ pc'[x].at = "unregistered" /\ pc'[v].relay = pc'[x].relay
                => v = x
      BY <1>0, <2>3, <2>5, <3>4, <3>5 DEF PullInv
    <3> QED BY <3>2, <3>5, <3>6 DEF PullInv
  <2> QED BY <2>7, <2>10, <2>11
<1> QED BY <1>1, <1>2

LEMMA ReapPullerKeeps ==
    ASSUME RInv, NEW w \in Workers, ReapPuller(w)
    PROVE  RInv'
<1> USE DEF RInv
<1> DEFINE p == Reap
           r == pc[w].relay
<1>0. /\ pc[w].at = "unregistered" /\ array' = FALSE /\ late' = late \ {Manager}
      /\ relay' = [relay EXCEPT ![r] = NewRelay] /\ Goto(w, p)
      /\ UNCHANGED <<conf, upstream, owner, retry, cur, waiting>>
  BY DEF ReapPuller, At
<1>1. p \in PcRec /\ p.by = "retry" /\ p.left = 0 /\ p.at = "retry"
  BY ReapIs
<1> HIDE DEF p
<1>2. /\ pc' \in [Workers -> PcRec] /\ pc'[w] = p
      /\ \A v \in Workers : v # w => pc'[v] = pc[v]
  BY <1>0, <1>1, Goes
<1>3. Rounds'
  <2>1. \A v \in Workers : retry'[v] = retry[v] /\ retry[v] \in 0..MaxEntries
    BY <1>0 DEF Types
  <2>2. pc'[w].left <= retry'[w]
    BY <1>1, <1>2, <2>1, RelaysAssumption
  <2> QED BY <1>1, <1>2, <2>1, <2>2 DEF Rounds
<1>4. relay' \in [Relays -> RelayRec] /\ late' \subseteq waiting' \cup {Manager}
      /\ \A x \in Relays : relay'[x].stage = IF x = r THEN "none" ELSE relay[x].stage
  BY <1>0, NewRelayIs DEF Types
<1>5. Types'
  BY <1>0, <1>2, <1>4 DEF Types
<1>6. PullInv'
  <2> SUFFICES ASSUME conf.kind = "pull" PROVE PullInv'
    BY <1>0 DEF PullInv
  <2>1. r \in Relays /\ relay[r].stage = "leaving"
    BY <1>0 DEF PullInv
  <2> HIDE DEF r
  <2>2. \A x \in Relays : owner' = x <=> relay'[x].stage \in Named
    BY <1>0, <1>4, <2>1 DEF PullInv, Named
  <2>3. \A v \in Workers : v # w /\ pc[v].at = "unregistered" =>
          pc[v].relay \in Relays /\ pc[v].relay # r
    BY <1>0 DEF PullInv, r
  <2>4. \A v \in Workers :
         /\ pc'[v].at \notin {"connect", "looked"}
         /\ pc'[v].at \in {"registered", "added"} =>
              pc'[v].relay \in Relays /\ relay'[pc'[v].relay].stage = "registered"
         /\ pc'[v].at = "unregistered" =>
              pc'[v].relay \in Relays /\ relay'[pc'[v].relay].stage = "leaving"
    BY <1>0, <1>1, <1>2, <1>4, <2>1, <2>3 DEF PullInv
  <2>5. \A v, x \in Workers :
         /\ {pc'[v].at, pc'[x].at} \subseteq {"registered", "added"} => v = x
         /\ pc'[v].at = "unregistered" /\ pc'[x].at = "unregistered" /\ pc'[v].relay = pc'[x].relay
              => v = x
    BY <1>1, <1>2 DEF PullInv
  <2> QED BY <2>2, <2>4, <2>5 DEF PullInv
<1> QED BY <1>3, <1>5, <1>6

LEMMA TakeNewKeeps ==
    ASSUME RInv, NEW w \in Workers, TakeNew(w)
    PROVE  RInv'
<1> USE DEF RInv
<1>0. UNCHANGED <<conf, upstream, owner, array, retry, cur, waiting, late>> /\ Goto(w, Round)
  BY DEF TakeNew, sharedVars, managerVars
<1>1. Round \in PcRec /\ Round.by = "listener" /\ Round.at = "events"
  BY RoundIs DEF Round
<1>2. /\ pc' \in [Workers -> PcRec] /\ pc'[w] = Round
      /\ \A v \in Workers : v # w => pc'[v] = pc[v]
  BY <1>0, <1>1, Goes
<1>3. Rounds'
  <2>1. retry' \in [Workers -> 0..MaxEntries] /\ \A v \in Workers : retry'[v] >= retry[v]
    BY <1>0, RelaysAssumption DEF Types
  <2> QED BY <1>0, <1>1, <2>1, StartsRound
<1>4. /\ relay' \in [Relays -> RelayRec]
      /\ conf.kind = "pull" =>
           \A x \in Relays : \/ relay'[x].stage = relay[x].stage
                             \/ relay[x].stage = "queued" /\ relay'[x].stage \in {"held", "leaked"}
  <2>1. CASE UNCHANGED relay
    BY <2>1 DEF Types
  <2>2. ASSUME NEW r \in Relays, relay[r].stage = "queued",
               relay' = [relay EXCEPT ![r].stage = "held", ![r].worker = w]
        PROVE  <1>4!1 /\ <1>4!2
    <3> DEFINE h == [relay[r] EXCEPT !.stage = "held", !.worker = w]
    <3>1. h \in RelayRec /\ h.stage = "held"
      BY DEF Types, RelayRec
    <3>2. relay' = [relay EXCEPT ![r] = h]
      BY <2>2 DEF Types
    <3> HIDE DEF h
    <3> QED BY <2>2, <3>1, <3>2 DEF Types
  <2>3. ASSUME NEW r \in Relays, relay[r].stage = "queued",
               relay' = [relay EXCEPT ![r] =
                           IF conf.kind = "pull" THEN [NewRelay EXCEPT !.stage = "leaked"]
                                                 ELSE NewRelay]
        PROVE  <1>4!1 /\ <1>4!2
    <3>1. [NewRelay EXCEPT !.stage = "leaked"] \in RelayRec
          /\ [NewRelay EXCEPT !.stage = "leaked"].stage = "leaked"
      BY NewRelayIs DEF RelayRec
    <3> QED BY <2>3, <3>1, NewRelayIs DEF Types
  <2> QED BY <2>1, <2>2, <2>3 DEF TakeNew
<1>5. PullInv'
  <2> SUFFICES ASSUME conf.kind = "pull" PROVE PullInv'
    BY <1>0 DEF PullInv
  <2>1. \A x \in Relays :
          /\ relay'[x].stage \in Named <=> relay[x].stage \in Named
          /\ relay[x].stage \in {"registered", "leaving"} => relay'[x].stage = relay[x].stage
    BY <1>4 DEF Named
  <2>2. \A x \in Relays : owner' = x <=> relay'[x].stage \in Named
    BY <1>0, <2>1 DEF PullInv
  <2>3. \A v \in Workers :
         /\ pc'[v].at \notin {"connect", "looked"}
         /\ pc'[v].at \in {"registered", "added"} =>
              pc'[v].relay \in Relays /\ relay'[pc'[v].relay].stage = "registered"
         /\ pc'[v].at = "unregistered" =>
              pc'[v].relay \in Relays /\ relay'[pc'[v].relay].stage = "leaving"
    BY <1>1, <1>2, <2>1 DEF PullInv
  <2>4. \A v, x \in Workers :
         /\ {pc'[v].at, pc'[x].at} \subseteq {"registered", "added"} => v = x
         /\ pc'[v].at = "unregistered" /\ pc'[x].at = "unregistered" /\ pc'[v].relay = pc'[x].relay
              => v = x
    BY <1>1, <1>2 DEF PullInv
  <2> QED BY <1>0, <2>2, <2>3, <2>4 DEF PullInv
<1> QED BY <1>0, <1>2, <1>3, <1>4, <1>5 DEF Types
-----------------------------------------------------------------------------
(* The environment. *)

LEMMA BreakKeeps ==
    ASSUME RInv, NEW r \in Relays, Break(r) \/ Starve(r)
    PROVE  RInv'
<1> USE DEF RInv
<1>0. /\ relay' = [relay EXCEPT ![r].sock = "broken"]
      /\ UNCHANGED <<conf, upstream, owner, array, retry, cur, waiting, late, pc>>
  BY DEF Break, Starve, sharedVars, managerVars
<1>1. relay' \in [Relays -> RelayRec] /\ \A x \in Relays : relay'[x].stage = relay[x].stage
  BY <1>0 DEF Types, RelayRec
<1> QED BY <1>0, <1>1, PullSame, RoundsSame DEF Types

LEMMA ClientKeeps ==
    ASSUME RInv, ClientStep
    PROVE  RInv'
<1> USE DEF RInv
<1>0. /\ UNCHANGED <<conf, upstream, relay, retry, cur, waiting, late, pc>>
      /\ owner' = owner \/ {owner, owner'} \subseteq {NoRole, Client}
      /\ array' \in BOOLEAN
  BY DEF ClientStep, ClientLooks, ClientAdds, ClientRegisters, ClientDrops, ClientUnregisters,
         Free, Unregistered, sharedVars, managerVars, Types
<1>1. \A x \in Relays : owner' = x <=> owner = x
  BY <1>0, RelaysAssumption
<1> QED BY <1>0, <1>1, PullSame, RoundsSame DEF Types

LEMMA TickKeeps ==
    ASSUME RInv, NEW t \in Upstreams \cup {Manager}, Tick(t)
    PROVE  RInv'
<1> USE DEF RInv
<1>0. /\ UNCHANGED <<conf, upstream, owner, array, relay, retry, cur, waiting, pc>>
      /\ late' = late \cup {t} /\ t \in waiting \cup {Manager}
  BY DEF Tick, sharedVars
<1> QED BY <1>0, PullSame, RoundsSame DEF Types

LEMMA ProgressKeeps ==
    ASSUME RInv, NEW w \in Workers, Progress(w)
    PROVE  RInv'
BY StartRetryKeeps, RetryPullerKeeps, StartPullerKeeps, TryUpstreamKeeps, AddArrayKeeps,
   PushPullerKeeps, ConnectAllKeeps, ConnectHashKeeps, RetryPusherKeeps, ReconnectAllKeeps,
   ReconnectHashKeeps, ReapPushersKeeps, UnregisterPullerKeeps, ReapPullerKeeps,
   TakeNewKeeps DEF Progress

LEMMA NextRInv == RInv /\ [Next]_vars => RInv'
<1> SUFFICES ASSUME RInv, [Next]_vars PROVE RInv'
  OBVIOUS
<1>1. ASSUME NEW w \in Threads, Progress(w) \/ AskPuller(w) \/ AskPusher(w)
      PROVE  RInv'
  BY <1>1, ThreadsAre, ProgressKeeps, AskPullerKeeps, AskPusherKeeps
<1>2. ASSUME NEW r \in Relays, Break(r) \/ Starve(r)
      PROVE  RInv'
  BY <1>2, BreakKeeps
<1>3. CASE ClientStep
  BY <1>3, ClientKeeps
<1>4. ASSUME NEW t \in Upstreams \cup {Manager}, Tick(t)
      PROVE  RInv'
  BY <1>4, TickKeeps
<1>5. CASE UNCHANGED vars
  <2>1. UNCHANGED <<conf, upstream, owner, array, relay, retry, cur, waiting, late, pc>>
    BY <1>5 DEF vars, sharedVars, managerVars
  <2> QED BY <2>1, PullSame, RoundsSame DEF RInv, Types
<1> QED BY <1>1, <1>2, <1>3, <1>4, <1>5 DEF Next
-----------------------------------------------------------------------------
(* The inductive invariant of start, reconnect, uninit and the group's     *)
(* round, taken together.                                                  *)
THEOREM RelaysInvariant == Spec => []RInv
<1>1. Init => RInv
  BY InitRInv
<1>2. RInv /\ [Next]_vars => RInv'
  BY NextRInv
<1> QED BY <1>1, <1>2, PTL DEF Spec

(* A puller in the list or in a group is the publisher of its stream, for  *)
(* any number of workers, relays and upstreams: the test in                *)
(* set_push_2_pushlisher and the guard in remove are enough.               *)
THEOREM PullerIsSourceAlways == Spec => []PullerIsSource
<1>1. RInv => PullerIsSource
  BY DEF RInv, PullInv, Named, Alive, PullerIsSource
<1> QED BY <1>1, RelaysInvariant, PTL

(* Types, for any number of workers, relays and upstreams: the list of     *)
(* relay managers stays inside its bound, and only upstreams wait.         *)
THEOREM TypeCorrect == Spec => []RelaysTypeOK
<1> DEFINE ClientAt == client \in {"away", "looked", "added", "publisher", "leaving"}
<1>1. RInv /\ ClientAt => RelaysTypeOK
  BY DEF RInv, Types, RelayRec, PcRec, RelaysTypeOK
<1>2. Init => ClientAt
  BY DEF Init
<1>3. ClientAt /\ [Next]_vars => ClientAt'
  <2> SUFFICES ASSUME ClientAt, [Next]_vars PROVE ClientAt'
    OBVIOUS
  <2>1. CASE ClientStep
    BY <2>1 DEF ClientStep, ClientLooks, ClientAdds, ClientRegisters, ClientDrops, ClientUnregisters
  <2>2. CASE UNCHANGED vars
    BY <2>2 DEF vars
  <2>3. CASE \E w \in Threads : Progress(w) \/ AskPuller(w) \/ AskPusher(w)
    BY <2>3 DEF Progress, AskPuller, AskPusher, StartRetry, RetryPuller, StartPuller, TryUpstream,
                AddArray, PushPuller, ConnectAll, ConnectHash, RetryPusher, ReconnectAll,
                ReconnectHash, ReapPushers, UnregisterPuller, ReapPuller, TakeNew
  <2>4. CASE \/ \E r \in Relays : Break(r) \/ Starve(r)
             \/ \E t \in Upstreams \cup {Manager} : Tick(t)
    BY <2>4 DEF Break, Starve, Tick
  <2> QED BY <2>1, <2>2, <2>3, <2>4 DEF Next
<1> QED BY <1>1, <1>2, <1>3, RelaysInvariant, PTL DEF Spec
-----------------------------------------------------------------------------
(* The list of upstreams that wait is the business of mode "all" alone, and *)
(* a pusher never does what a puller does.                                  *)
PullerOnly == {"start", "try", "registered", "added"}

WaitInv ==
    /\ conf.mode # "all" => waiting = {}
    /\ conf.kind = "push" => \A w \in Workers : pc[w].at \notin PullerOnly

LEMMA ReturnsTo ==
    ASSUME Types, NEW w \in Workers, NEW ok, Return(w, ok)
    PROVE  pc'[w].at \notin PullerOnly /\ \A v \in Workers : v # w => pc'[v] = pc[v]
<1> DEFINE p == [Round EXCEPT !.at = "retry", !.by = "retry", !.left = pc[w].left - 1]
<1>1. IdleCheck.at = "idle_check" /\ p.at = "retry"
  BY DEF IdleCheck, Round
<1>2. pc' = [pc EXCEPT ![w] = IdleCheck] \/ pc' = [pc EXCEPT ![w] = p]
  BY DEF Return, Goto
<1> HIDE DEF p
<1> QED BY <1>1, <1>2 DEF Types, PullerOnly

LEMMA GoesTo ==
    ASSUME Types, NEW w \in Workers, NEW p, Goto(w, p), p.at \notin PullerOnly
    PROVE  pc'[w].at \notin PullerOnly /\ \A v \in Workers : v # w => pc'[v] = pc[v]
BY DEF Types, Goto

(* What the relay managers of the other modes, and the rounds, leave to it. *)
LEMMA StepsOfWaiting ==
    ASSUME RInv, NEW w \in Workers, Progress(w)
    PROVE  conf' = conf /\ (waiting' = waiting \/ conf.mode = "all")
<1>1. conf' = conf
  BY DEF Progress, StartRetry, RetryPuller, StartPuller, TryUpstream, AddArray, PushPuller,
         ConnectAll, ConnectHash, RetryPusher, ReconnectAll, ReconnectHash,
         ReapPushers, UnregisterPuller, ReapPuller, TakeNew
<1>2. waiting' = waiting \/ conf.mode = "all"
  BY DEF Progress, StartRetry, RetryPuller, StartPuller, TryUpstream, AddArray, PushPuller,
         ConnectAll, ConnectHash, RetryPusher, ReconnectAll, ReconnectHash,
         ReapPushers, UnregisterPuller, ReapPuller, TakeNew, managerVars
<1> QED BY <1>1, <1>2

(* A worker of a group of pushers. *)
LEMMA StepsOfPushers ==
    ASSUME RInv, WaitInv, conf.kind = "push", NEW w \in Workers, Progress(w)
    PROVE  \A v \in Workers : pc'[v].at \notin PullerOnly
<1> USE DEF RInv
<1>0. pc[w].at \notin PullerOnly /\ pc[w] \in PcRec
  BY DEF WaitInv, Types
<1>1. Round.at = "events" /\ [Round EXCEPT !.at = "take"].at = "take"
  BY DEF Round
<1> SUFFICES pc'[w].at \notin PullerOnly /\ \A v \in Workers : v # w => pc'[v] = pc[v]
  BY DEF WaitInv
<1>2. CASE StartRetry(w)
  <2> DEFINE p == [Round EXCEPT !.at = "retry", !.by = "retry", !.left = retry[w]]
  <2>1. p.at = "retry" /\ Goto(w, p)
    BY <1>2 DEF StartRetry, Round
  <2> HIDE DEF p
  <2> QED BY <2>1, GoesTo DEF PullerOnly
<1>3. CASE ReapPushers(w) \/ TakeNew(w)
  <2>2. CASE ReapPushers(w)
    BY <1>1, <2>2, GoesTo DEF ReapPushers, PullerOnly
  <2>3. CASE TakeNew(w)
    BY <1>1, <2>3, GoesTo DEF TakeNew, PullerOnly
  <2> QED BY <1>3, <2>2, <2>3
<1>4. CASE RetryPuller(w) \/ StartPuller(w) \/ TryUpstream(w) \/ AddArray(w) \/ PushPuller(w)
           \/ UnregisterPuller(w)
  BY <1>0, <1>4 DEF RetryPuller, StartPuller, TryUpstream, AddArray, PushPuller, UnregisterPuller,
                    Reaping, At, PullerOnly
<1>5. CASE ReapPuller(w)
  BY <1>5, GoesTo, ReapIs DEF ReapPuller, PullerOnly
<1>6. CASE ConnectAll(w)
  <2> DEFINE p == IF pc[w].url + 1 \in Upstreams THEN [pc[w] EXCEPT !.url = pc[w].url + 1]
                                                  ELSE IdleCheck
  <2>1. IdleCheck.at = "idle_check" /\ [pc[w] EXCEPT !.url = pc[w].url + 1].at = pc[w].at
    BY <1>0 DEF IdleCheck, Round, PcRec
  <2>2. p.at \notin PullerOnly
    BY <1>0, <2>1 DEF PullerOnly
  <2>3. Goto(w, p)
    BY <1>6 DEF ConnectAll
  <2> HIDE DEF p
  <2> QED BY <2>2, <2>3, GoesTo
<1>7. CASE ConnectHash(w) \/ ReconnectAll(w)
  BY <1>7, ReturnsTo DEF ConnectHash, ReconnectAll
<1>8. CASE RetryPusher(w) \/ ReconnectHash(w)
  <2> DEFINE p == [pc[w] EXCEPT !.at = "looked", !.source = HasSource]
             q == [pc[w] EXCEPT !.at = "connect"]
  <2>1. p.at = "looked" /\ q.at = "connect"
    BY <1>0 DEF PcRec
  <2>2. Goto(w, p) \/ Goto(w, q) \/ Return(w, FALSE)
    BY <1>8 DEF RetryPusher, ReconnectHash
  <2> HIDE DEF p, q
  <2> QED BY <2>1, <2>2, GoesTo, ReturnsTo DEF PullerOnly
<1> QED BY <1>2, <1>3, <1>4, <1>5, <1>6, <1>7, <1>8 DEF Progress

LEMMA InitWaitInv == Init => WaitInv
BY DEF Init, WaitInv, Round, PullerOnly

LEMMA NextWaitInv == RInv /\ WaitInv /\ [Next]_vars => WaitInv'
<1> SUFFICES ASSUME RInv, WaitInv, [Next]_vars PROVE WaitInv'
  OBVIOUS
<1>1. ASSUME NEW w \in Threads, Progress(w)
      PROVE  WaitInv'
  BY <1>1, ThreadsAre, StepsOfWaiting, StepsOfPushers DEF WaitInv
<1>2. ASSUME NEW w \in Threads, AskPuller(w) \/ AskPusher(w)
      PROVE  WaitInv'
  <2>0. UNCHANGED <<conf, waiting>> /\ w \in Workers /\ RInv
    BY <1>2, ThreadsAre DEF AskPuller, AskPusher, managerVars
  <2>1. CASE AskPuller(w)
    BY <2>0, <2>1 DEF AskPuller, WaitInv
  <2>2. CASE AskPusher(w)
    <3> DEFINE p == [Round EXCEPT !.at = "connect", !.url = IF conf.mode = "all" THEN 1 ELSE HashUrl]
    <3>1. p.at = "connect" /\ Goto(w, p)
      BY <2>2 DEF AskPusher, Round
    <3> HIDE DEF p
    <3>2. pc'[w].at \notin PullerOnly /\ \A v \in Workers : v # w => pc'[v] = pc[v]
      BY <2>0, <3>1, GoesTo DEF RInv, PullerOnly
    <3> QED BY <2>0, <3>2 DEF WaitInv
  <2> QED BY <1>2, <2>1, <2>2
<1>3. CASE (\E r \in Relays : Break(r) \/ Starve(r)) \/ ClientStep
  BY <1>3 DEF Break, Starve, ClientStep, ClientLooks, ClientAdds, ClientRegisters, ClientDrops,
              ClientUnregisters, WaitInv, managerVars
<1>4. CASE (\E t \in Upstreams \cup {Manager} : Tick(t)) \/ UNCHANGED vars
  BY <1>4 DEF Tick, vars, WaitInv, managerVars
<1> QED BY <1>1, <1>2, <1>3, <1>4 DEF Next

(* Only a return value that says so takes the manager from a list.         *)
LEMMA OnlySuccessShortens ==
    ASSUME NEW w \in Workers, NEW ok, Return(w, ok), ~ok
    PROVE  retry' = retry
BY DEF Return

(* A list that did not get shorter still has what it had.                  *)
LEMMA StillListed ==
    ASSUME Types, Types', \A v \in Workers : retry'[v] >= retry[v], Listed
    PROVE  Listed'
<1>1. PICK w \in Workers : retry[w] > 0
  BY DEF Listed
<1>2. retry[w] \in Nat /\ retry'[w] \in Nat /\ retry'[w] >= retry[w]
  BY RelaysAssumption DEF Types
<1> QED BY <1>1, <1>2 DEF Listed

(* With upstreams that wait, a list only gets shorter in reconnect_all.    *)
LEMMA OthersKeepTheList ==
    ASSUME RInv, RInv', WaitInv, waiting # {}, NEW w \in Workers, Progress(w), ~ReconnectAll(w)
    PROVE  \A v \in Workers : retry'[v] >= retry[v]
<1> USE DEF RInv
<1>0. /\ conf.kind = "push" /\ conf.mode = "all"
      /\ \A v \in Workers : retry[v] \in Nat /\ retry[v] >= retry[v]
  BY RelaysAssumption DEF WaitInv, Types, Confs
<1>1. CASE StartRetry(w) \/ TakeNew(w) \/ RetryPusher(w)
  BY <1>0, <1>1 DEF StartRetry, TakeNew, RetryPusher
<1>2. CASE ConnectAll(w) \/ AddArray(w) \/ ReapPuller(w)
  BY <1>0, <1>2 DEF ConnectAll, AddArray, ReapPuller
<1>3. CASE ReapPushers(w)
  <2>1. retry' = [retry EXCEPT ![w] = Longer(@, Cardinality(Broken(w)))]
    BY <1>3 DEF ReapPushers
  <2> QED BY <2>1, BrokenAre, Grows
<1>4. CASE RetryPuller(w) \/ UnregisterPuller(w) \/ ConnectHash(w) \/ ReconnectHash(w)
  BY <1>0, <1>4 DEF RetryPuller, UnregisterPuller, ConnectHash, ReconnectHash
<1>5. CASE StartPuller(w)
  <2>1. retry' = retry
    BY <1>5, OnlySuccessShortens DEF StartPuller
  <2> QED BY <1>0, <2>1
<1>6. CASE TryUpstream(w)
  <2>1. retry' = retry
    BY <1>6, OnlySuccessShortens DEF TryUpstream
  <2> QED BY <1>0, <2>1
<1>7. ~PushPuller(w)
  BY <1>0 DEF PushPuller, At, WaitInv, PullerOnly
<1> QED BY <1>1, <1>2, <1>3, <1>4, <1>5, <1>6, <1>7 DEF Progress

(* reconnect_all, when it succeeds with upstreams that wait, connected the  *)
(* first of them: its own return value says so.                             *)
LEMMA SuccessTakesTheFirst ==
    ASSUME RInv, NEW w \in Workers, ReconnectAll(w), waiting # {},
           \E v \in Workers : ~(retry'[v] >= retry[v])
    PROVE  Min(waiting) \notin waiting'
<1> DEFINE opened == {u \in waiting \cap late : pc[w].source /\ Opens(u)}
<1>1. waiting' = waiting \ opened /\ Return(w, AllRet(pc[w].source))
  BY DEF ReconnectAll
<1>2. AllRet(pc[w].source)
  <2>1. \A v \in Workers : retry[v] >= retry[v]
    BY RelaysAssumption DEF RInv, Types
  <2> QED BY <1>1, <2>1, OnlySuccessShortens
<1>3. pc[w].source /\ Min(waiting) \in late /\ \A u \in waiting \cap late : Opens(u)
  BY <1>2 DEF AllRet
<1>4. Min(waiting) \in waiting => Min(waiting) \in opened
  BY <1>3
<1> QED BY <1>1, <1>4
-----------------------------------------------------------------------------
(* The step of FirstNotForgotten. *)
LEMMA FirstGoes ==
    ASSUME RInv, RInv', WaitInv, [Next]_vars, waiting # {}, Listed, ~Listed'
    PROVE  Min(waiting) \notin waiting'
<1>1. \E v \in Workers : ~(retry'[v] >= retry[v])
  BY StillListed DEF RInv
<1>2. retry' # retry
  BY <1>1, RelaysAssumption DEF RInv, Types
<1>3. PICK w \in Threads : Progress(w)
  BY <1>2 DEF Next, AskPuller, AskPusher, Break, Starve, ClientStep, ClientLooks, ClientAdds,
              ClientRegisters, ClientDrops, ClientUnregisters, Tick, vars
<1>4. w \in Workers
  BY ThreadsAre
<1>5. ReconnectAll(w)
  BY <1>1, <1>3, <1>4, OthersKeepTheList
<1> QED BY <1>1, <1>4, <1>5, SuccessTakesTheFirst

(* Upstreams that wait are forgotten by the last list only behind one that *)
(* was connected in the same step, for any number of workers, relays and   *)
(* upstreams: ret's initial error in reconnect_all is what it takes.       *)
THEOREM FirstNotForgottenAlways == Spec => FirstNotForgotten
<1>1. Init => WaitInv
  BY InitWaitInv
<1>2. RInv /\ WaitInv /\ [Next]_vars => WaitInv'
  BY NextWaitInv
<1>3. RInv /\ RInv' /\ WaitInv /\ [Next]_vars =>
        [waiting # {} /\ waiting' # {} /\ Listed /\ ~Listed'
           => Min(waiting) \notin waiting']_vars
  BY FirstGoes
<1> QED BY <1>1, <1>2, <1>3, RelaysInvariant, PTL DEF Spec, FirstNotForgotten
=============================================================================
