--------------------------- MODULE SessionsProofs ---------------------------
(***************************************************************************)
(* Proofs about Sessions for any sets of workers, listeners, clients and   *)
(* streams.  Who may touch a role is written in three places (its stage,   *)
(* the list and groups it is in, and the handshake of a worker that is     *)
(* about to push it); the inductive invariant says that they agree.        *)
(***************************************************************************)
EXTENDS Sessions, FiniteSetTheorems, TLAPS

PubHandshake == {"checked", "added", "registered"}
PlayHandshake == {"found", "active"}
Handshake == PubHandshake \cup PlayHandshake

(* A role in a handshake belongs to that worker alone.                     *)
HandshakeInv ==
    /\ \A w \in Workers :
         /\ pc[w].at \in PubHandshake => pc[w].role \in Publishers
         /\ pc[w].at \in PlayHandshake => pc[w].role \in Players
         /\ pc[w].at \in Handshake => stage[pc[w].role] = "accepted"
         /\ pc[w].at = "registered" => registry[key[pc[w].role]] = pc[w].role
    /\ \A w, v \in Workers :
         w # v /\ pc[w].at \in Handshake /\ pc[v].at \in Handshake
           => pc[w].role # pc[v].role

(* The roles a group has still to look at, and the one it is closing, are  *)
(* in the group.                                                           *)
ReapInv ==
    \A w \in Workers :
        /\ pc[w].todo \subseteq group[w]
        /\ pc[w].at = "dropped" => pc[w].role \in group[w] \cap Publishers

StageInv ==
    /\ \A c \in Clients : stage[c] # "new" => key[c] \in Streams
    /\ \A i \in DOMAIN list : list[i] \in Clients => stage[list[i]] = "queued"
    /\ \A w \in Workers : \A c \in group[w] \cap Clients : stage[c] = "held"

FiniteInv == \A w \in Workers : IsFiniteSet(group[w])

IInv ==
    /\ TypeOK /\ FiniteInv
    /\ HandshakeInv /\ ReapInv /\ StageInv
    /\ OneSource /\ OneOwner
-----------------------------------------------------------------------------
(* The locals a worker's handler starts a handshake with.                  *)
LEMMA AtFields ==
    ASSUME NEW l \in Labels, NEW r \in Clients
    PROVE  /\ At(l, r) \in Locals
           /\ At(l, r).at = l /\ At(l, r).role = r /\ At(l, r).todo = {}
  BY DEF Locals, At, Idle, Labels

(* The same, with the publisher that the player listener found.            *)
LEMMA FoundFields ==
    ASSUME NEW r \in Players, NEW q \in Publishers \cup {NoRole}
    PROVE  LET p == [At("found", r) EXCEPT !.pub = q]
           IN  p \in Locals /\ p.at = "found" /\ p.role = r /\ p.todo = {}
  BY DEF Locals, At, Idle, Labels, Clients

(* The locals of a worker between two rounds.                              *)
LEMMA IdleFields == Idle \in Locals /\ Idle.at = "events" /\ Idle.todo = {}
  BY DEF Locals, Idle, Labels

(* The locals of a worker that has looked at one more role of its group.   *)
LEMMA DoneFields ==
    ASSUME NEW w \in Workers, NEW c, pc[w] \in Locals
    PROVE  /\ Done(w, c) \in Locals /\ Done(w, c).at = "reap"
           /\ Done(w, c).todo = pc[w].todo \ {c}
  BY DEF Done, Locals, Labels

(* A publisher is accepted, or refused because its stream is taken.        *)
LEMMA AcceptPublisherIInv ==
    ASSUME IInv, NEW w \in Workers, NEW c \in Publishers, NEW s \in Streams,
           AcceptPublisher(w, c, s)
    PROVE  IInv'
<1> USE RolesAssumption DEF IInv
<1> DEFINE p == At("checked", c)
<1>p. p \in Locals /\ p.at = "checked" /\ p.role = c /\ p.todo = {}
  BY AtFields DEF Labels, Clients
<1>c. c \in Clients
  BY DEF Clients
<1>u. /\ UNCHANGED <<idle, list, group, registry, arrays, consumers>>
      /\ key' = [key EXCEPT ![c] = s]
      /\ stage[c] = "new" /\ pc[w].at = "events"
  BY DEF AcceptPublisher, sharedVars
<1>x. \/ /\ pc' = pc /\ stage' = [stage EXCEPT ![c] = "deleted"]
         /\ sock' = [sock EXCEPT ![c] = "closed"]
      \/ /\ pc' = [pc EXCEPT ![w] = p] /\ stage' = [stage EXCEPT ![c] = "accepted"]
         /\ sock' = sock
  BY DEF AcceptPublisher, Delete, Goto
<1> HIDE DEF p
<1>1. TypeOK'
  <2>1. pc' \in [Workers -> Locals]
    <3>1. pc \in [Workers -> Locals]
      BY DEF TypeOK
    <3> QED
      BY <3>1, <1>p, <1>u, <1>x
  <2>2. stage' \in [Clients -> {"new", "accepted", "queued", "held", "deleted"}]
    BY <1>c, <1>u, <1>x DEF TypeOK
  <2>3. key' \in [Clients -> Streams \cup {NoStream}]
    BY <1>c, <1>u DEF TypeOK
  <2>4. sock' \in [Clients -> {"up", "broken", "closed"}]
    BY <1>c, <1>u, <1>x DEF TypeOK
  <2> QED
    BY <2>1, <2>2, <2>3, <2>4, <1>u DEF TypeOK
<1>2. FiniteInv'
  BY <1>u DEF FiniteInv
<1>3. HandshakeInv'
  BY SMTT(60), <1>p, <1>c, <1>u, <1>x
     DEF HandshakeInv, PubHandshake, PlayHandshake, Handshake, TypeOK, Clients
<1>4. ReapInv'
  BY <1>p, <1>c, <1>u, <1>x DEF ReapInv, TypeOK
<1>5. StageInv'
  BY <1>c, <1>u, <1>x DEF StageInv, TypeOK
<1>6. OneSource'
  BY <1>c, <1>u, <1>x DEF OneSource, TypeOK, Clients
<1>7. OneOwner'
  BY <1>u DEF OneOwner
<1> QED
  BY <1>1, <1>2, <1>3, <1>4, <1>5, <1>6, <1>7

(* The array is there: only the handshake moves on.                        *)
LEMMA AddArrayIInv ==
    ASSUME IInv, NEW w \in Workers, AddArray(w)
    PROVE  IInv'
<1> USE RolesAssumption DEF IInv
<1> DEFINE c == pc[w].role
           p == At("added", c)
<1>c. /\ pc[w].at = "checked" /\ c \in Publishers /\ c \in Clients
      /\ stage[c] = "accepted"
  BY DEF AddArray, HandshakeInv, PubHandshake, Handshake, Clients
<1>p. p \in Locals /\ p.at = "added" /\ p.role = c /\ p.todo = {}
  BY <1>c, AtFields DEF Labels
<1>u. /\ UNCHANGED <<stage, key, sock, idle, list, group, registry, consumers>>
      /\ arrays' = [arrays EXCEPT ![key[c]] = TRUE]
      /\ pc' = [pc EXCEPT ![w] = p]
  BY DEF AddArray, Goto, clientVars
<1> HIDE DEF p
<1>1. TypeOK'
  <2>1. pc' \in [Workers -> Locals]
    <3>1. pc \in [Workers -> Locals]
      BY DEF TypeOK
    <3> QED
      BY <3>1, <1>p, <1>u
  <2>2. arrays' \in [Streams -> BOOLEAN]
    BY <1>c, <1>u DEF TypeOK
  <2> QED
    BY <2>1, <2>2, <1>u DEF TypeOK
<1>2. FiniteInv'
  BY <1>u DEF FiniteInv
<1>3. HandshakeInv'
  BY <1>c, <1>p, <1>u
     DEF HandshakeInv, PubHandshake, PlayHandshake, Handshake, TypeOK, Clients
<1>4. ReapInv'
  BY <1>c, <1>p, <1>u DEF ReapInv, TypeOK
<1>5. StageInv'
  BY <1>c, <1>u DEF StageInv, TypeOK
<1>6. OneSource'
  BY <1>c, <1>u DEF OneSource, TypeOK, Clients
<1>7. OneOwner'
  BY <1>u DEF OneOwner
<1> QED
  BY <1>1, <1>2, <1>3, <1>4, <1>5, <1>6, <1>7

(* The publisher gets the name, which was free, or is deleted.             *)
LEMMA RegisterIInv ==
    ASSUME IInv, NEW w \in Workers, Register(w)
    PROVE  IInv'
<1> USE RolesAssumption DEF IInv
<1> DEFINE c == pc[w].role
           p == At("registered", c)
<1>c. /\ pc[w].at = "added" /\ c \in Publishers /\ c \in Clients
      /\ stage[c] = "accepted" /\ key[c] \in Streams
  BY DEF Register, HandshakeInv, PubHandshake, Handshake, Clients, StageInv
<1>p. p \in Locals /\ p.at = "registered" /\ p.role = c /\ p.todo = {}
  BY <1>c, AtFields DEF Labels
<1>u. UNCHANGED <<key, idle, list, arrays, consumers, group>>
  BY DEF Register
<1>x. \/ /\ registry[key[c]] = NoRole /\ registry' = [registry EXCEPT ![key[c]] = c]
         /\ pc' = [pc EXCEPT ![w] = p] /\ UNCHANGED <<stage, sock>>
      \/ /\ stage' = [stage EXCEPT ![c] = "deleted"] /\ sock' = [sock EXCEPT ![c] = "closed"]
         /\ pc' = [pc EXCEPT ![w] = Idle] /\ UNCHANGED registry
  BY DEF Register, Free, Delete, Goto
<1>n. NoRole \notin Publishers
  BY DEF Clients, Roles
<1> HIDE DEF p
<1>1. TypeOK'
  <2>1. pc' \in [Workers -> Locals]
    <3>1. pc \in [Workers -> Locals]
      BY DEF TypeOK
    <3> QED
      BY <3>1, <1>p, <1>u, <1>x, IdleFields
  <2>2. stage' \in [Clients -> {"new", "accepted", "queued", "held", "deleted"}]
    BY <1>c, <1>u, <1>x DEF TypeOK
  <2>3. sock' \in [Clients -> {"up", "broken", "closed"}]
    BY <1>c, <1>u, <1>x DEF TypeOK
  <2>4. registry' \in [Streams -> Publishers \cup {NoRole}]
    BY <1>c, <1>u, <1>x DEF TypeOK
  <2> QED
    BY <2>1, <2>2, <2>3, <2>4, <1>u DEF TypeOK
<1>2. FiniteInv'
  BY <1>u DEF FiniteInv
<1>3. HandshakeInv'
  <2>1. CASE registry[key[c]] = NoRole /\ pc' = [pc EXCEPT ![w] = p]
    <3>1. /\ stage' = stage /\ registry' = [registry EXCEPT ![key[c]] = c]
      BY <1>x, <2>1, <1>p, IdleFields DEF TypeOK
    <3>2. \A v \in Workers : pc[v].at = "registered" => registry'[key[pc[v].role]] = pc[v].role
      BY <1>c, <1>n, <2>1, <3>1
         DEF HandshakeInv, PubHandshake, Handshake, TypeOK, StageInv, Clients
    <3>3. registry'[key[c]] = c
      BY <1>c, <3>1 DEF TypeOK
    <3> QED
      BY <1>c, <1>p, <1>u, <2>1, <3>1, <3>2, <3>3
         DEF HandshakeInv, PubHandshake, PlayHandshake, Handshake, TypeOK
  <2>2. CASE /\ stage' = [stage EXCEPT ![c] = "deleted"] /\ pc' = [pc EXCEPT ![w] = Idle]
             /\ UNCHANGED registry
    BY <1>c, <1>u, <2>2, IdleFields
       DEF HandshakeInv, PubHandshake, PlayHandshake, Handshake, TypeOK, Clients
  <2> QED
    BY <1>x, <2>1, <2>2
<1>4. ReapInv'
  BY <1>c, <1>p, <1>u, <1>x, IdleFields DEF ReapInv, TypeOK
<1>5. StageInv'
  BY <1>c, <1>u, <1>x, <1>n DEF StageInv, TypeOK
<1>6. OneSource'
  <2> SUFFICES ASSUME NEW d \in Publishers, stage'[d] \in {"queued", "held"}
               PROVE  registry'[key[d]] = d
    BY <1>u DEF OneSource
  <2>1. d \in Clients /\ d # c /\ stage'[d] = stage[d]
    BY <1>c, <1>x DEF Clients, TypeOK
  <2>2. registry[key[d]] = d
    BY <2>1 DEF OneSource
  <2>3. key[d] \in Streams
    BY <2>1 DEF StageInv
  <2> QED
    BY <1>c, <1>x, <1>n, <2>2, <2>3 DEF TypeOK
<1>7. OneOwner'
  BY <1>u DEF OneOwner
<1> QED
  BY <1>1, <1>2, <1>3, <1>4, <1>5, <1>6, <1>7

(* The role changes hands: from the handshake to the list.                 *)
LEMMA PushIInv ==
    ASSUME IInv, NEW w \in Workers, Push(w)
    PROVE  IInv'
<1> USE RolesAssumption DEF IInv
<1> DEFINE c == pc[w].role
<1>c. /\ pc[w].at \in {"registered", "active"} /\ c \in Clients
      /\ stage[c] = "accepted"
      /\ c \in Publishers => registry[key[c]] = c
  BY DEF Push, HandshakeInv, PubHandshake, PlayHandshake, Handshake, Clients
<1>u. /\ UNCHANGED <<key, sock, idle, registry, arrays, consumers, group>>
      /\ list' = Append(list, c)
      /\ stage' = [stage EXCEPT ![c] = "queued"]
      /\ pc' = [pc EXCEPT ![w] = Idle]
  BY DEF Push, Pushed, Goto
<1>r. c \in Roles /\ list \in Seq(Roles)
  BY <1>c DEF TypeOK, Roles
<1>l. /\ list' \in Seq(Roles)
      /\ Len(list') = Len(list) + 1 /\ list'[Len(list) + 1] = c
      /\ \A i \in 1..Len(list) : list'[i] = list[i]
      /\ DOMAIN list = 1..Len(list) /\ DOMAIN list' = 1..Len(list) + 1 /\ Len(list) \in Nat
  BY <1>u, <1>r
<1>o. /\ \A i \in DOMAIN list : list[i] # c
      /\ \A v \in Workers : c \notin group[v]
  BY <1>c DEF StageInv
<1>1. TypeOK'
  <2>1. pc' \in [Workers -> Locals]
    <3>1. pc \in [Workers -> Locals]
      BY DEF TypeOK
    <3> QED
      BY <3>1, <1>u, IdleFields
  <2>2. stage' \in [Clients -> {"new", "accepted", "queued", "held", "deleted"}]
    BY <1>c, <1>u DEF TypeOK
  <2>3. list' \in Seq(Roles)
    BY <1>l DEF TypeOK
  <2> QED
    BY <2>1, <2>2, <2>3, <1>u DEF TypeOK
<1>2. FiniteInv'
  BY <1>u DEF FiniteInv
<1>3. HandshakeInv'
  BY <1>c, <1>u, IdleFields
     DEF HandshakeInv, PubHandshake, PlayHandshake, Handshake, TypeOK, Clients
<1>4. ReapInv'
  BY <1>c, <1>u, IdleFields DEF ReapInv, TypeOK
<1>5. StageInv'
  BY <1>c, <1>u, <1>l, <1>o DEF StageInv, TypeOK
<1>6. OneSource'
  BY <1>c, <1>u DEF OneSource, TypeOK, Clients
<1>7. OneOwner'
  BY <1>c, <1>u, <1>l, <1>o DEF OneOwner
<1> QED
  BY <1>1, <1>2, <1>3, <1>4, <1>5, <1>6, <1>7

(* A player is accepted, or refused because its stream has no publisher.   *)
LEMMA AcceptPlayerIInv ==
    ASSUME IInv, NEW w \in Workers, NEW c \in Players, NEW s \in Streams, AcceptPlayer(w, c, s)
    PROVE  IInv'
<1> USE RolesAssumption DEF IInv
<1> DEFINE p == [At("found", c) EXCEPT !.pub = registry[s]]
<1>p. p \in Locals /\ p.at = "found" /\ p.role = c /\ p.todo = {}
  <2>1. registry[s] \in Publishers \cup {NoRole}
    BY DEF TypeOK
  <2> QED
    BY <2>1, FoundFields
<1>c. c \in Clients
  BY DEF Clients
<1>u. /\ UNCHANGED <<idle, list, group, registry, arrays, consumers>>
      /\ key' = [key EXCEPT ![c] = s]
      /\ stage[c] = "new" /\ pc[w].at = "events"
  BY DEF AcceptPlayer, sharedVars
<1>x. \/ /\ pc' = pc /\ stage' = [stage EXCEPT ![c] = "deleted"]
         /\ sock' = [sock EXCEPT ![c] = "closed"]
      \/ /\ pc' = [pc EXCEPT ![w] = p] /\ stage' = [stage EXCEPT ![c] = "accepted"]
         /\ sock' = sock
  BY DEF AcceptPlayer, Delete, Goto
<1> HIDE DEF p
<1>1. TypeOK'
  <2>1. pc' \in [Workers -> Locals]
    <3>1. pc \in [Workers -> Locals]
      BY DEF TypeOK
    <3> QED
      BY <3>1, <1>p, <1>u, <1>x
  <2>2. stage' \in [Clients -> {"new", "accepted", "queued", "held", "deleted"}]
    BY <1>c, <1>u, <1>x DEF TypeOK
  <2>3. key' \in [Clients -> Streams \cup {NoStream}]
    BY <1>c, <1>u DEF TypeOK
  <2>4. sock' \in [Clients -> {"up", "broken", "closed"}]
    BY <1>c, <1>u, <1>x DEF TypeOK
  <2> QED
    BY <2>1, <2>2, <2>3, <2>4, <1>u DEF TypeOK
<1>2. FiniteInv'
  BY <1>u DEF FiniteInv
<1>3. HandshakeInv'
  BY <1>p, <1>c, <1>u, <1>x
     DEF HandshakeInv, PubHandshake, PlayHandshake, Handshake, TypeOK, Clients
<1>4. ReapInv'
  BY <1>p, <1>c, <1>u, <1>x DEF ReapInv, TypeOK
<1>5. StageInv'
  BY <1>c, <1>u, <1>x DEF StageInv, TypeOK
<1>6. OneSource'
  BY <1>c, <1>u, <1>x DEF OneSource, TypeOK, Clients
<1>7. OneOwner'
  BY <1>u DEF OneOwner
<1> QED
  BY <1>1, <1>2, <1>3, <1>4, <1>5, <1>6, <1>7

(* The player becomes a consumer, or is deleted.                           *)
LEMMA ActivateIInv ==
    ASSUME IInv, NEW w \in Workers, Activate(w)
    PROVE  IInv'
<1> USE RolesAssumption DEF IInv
<1> DEFINE c == pc[w].role
           p == [pc[w] EXCEPT !.at = "active"]
<1>c. /\ pc[w].at = "found" /\ c \in Players /\ c \in Clients
      /\ stage[c] = "accepted"
  BY DEF Activate, HandshakeInv, PlayHandshake, Handshake, Clients
<1>p. p \in Locals /\ p.at = "active" /\ p.role = c /\ p.todo = pc[w].todo
  BY DEF TypeOK, Locals, Labels
<1>u. UNCHANGED <<key, idle, list, registry, arrays, group>>
  BY DEF Activate
<1>x. \/ /\ consumers' = consumers \cup {c} /\ pc' = [pc EXCEPT ![w] = p]
         /\ UNCHANGED <<stage, sock>>
      \/ /\ stage' = [stage EXCEPT ![c] = "deleted"] /\ sock' = [sock EXCEPT ![c] = "closed"]
         /\ pc' = [pc EXCEPT ![w] = Idle] /\ UNCHANGED consumers
  BY DEF Activate, Delete, Goto
<1> HIDE DEF p
<1>1. TypeOK'
  <2>1. pc' \in [Workers -> Locals]
    <3>1. pc \in [Workers -> Locals]
      BY DEF TypeOK
    <3> QED
      BY <3>1, <1>p, <1>u, <1>x, IdleFields
  <2>2. stage' \in [Clients -> {"new", "accepted", "queued", "held", "deleted"}]
    BY <1>c, <1>u, <1>x DEF TypeOK
  <2>3. sock' \in [Clients -> {"up", "broken", "closed"}]
    BY <1>c, <1>u, <1>x DEF TypeOK
  <2>4. consumers' \in SUBSET Players
    BY <1>c, <1>u, <1>x DEF TypeOK
  <2> QED
    BY <2>1, <2>2, <2>3, <2>4, <1>u DEF TypeOK
<1>2. FiniteInv'
  BY <1>u DEF FiniteInv
<1>3. HandshakeInv'
  BY <1>c, <1>p, <1>u, <1>x, IdleFields
     DEF HandshakeInv, PubHandshake, PlayHandshake, Handshake, TypeOK, Clients
<1>4. ReapInv'
  BY <1>c, <1>p, <1>u, <1>x, IdleFields DEF ReapInv, TypeOK
<1>5. StageInv'
  BY <1>c, <1>u, <1>x DEF StageInv, TypeOK
<1>6. OneSource'
  BY <1>c, <1>u, <1>x DEF OneSource, TypeOK, Clients
<1>7. OneOwner'
  BY <1>u DEF OneOwner
<1> QED
  BY <1>1, <1>2, <1>3, <1>4, <1>5, <1>6, <1>7

(* Reading touches the socket and the timer only.                          *)
LEMMA HandlePublisherIInv ==
    ASSUME IInv, NEW w \in Workers, NEW c \in Clients, HandlePublisher(w, c)
    PROVE  IInv'
<1> USE RolesAssumption DEF IInv
<1>u. /\ UNCHANGED <<stage, key, list, group, registry, arrays, consumers, pc>>
      /\ sock' = [sock EXCEPT ![c] = AfterPut(c)]
      /\ idle' = [idle EXCEPT ![c] = idle[c] /\ sock[c] # "up"]
  BY DEF HandlePublisher, sharedVars
<1>a. AfterPut(c) \in {"up", "closed"}
  BY DEF AfterPut
<1>1. TypeOK'
  <2>1. sock' \in [Clients -> {"up", "broken", "closed"}]
    BY <1>u, <1>a DEF TypeOK
  <2>2. idle' \in [Clients -> BOOLEAN]
    BY <1>u, <1>a DEF TypeOK
  <2> QED
    BY <2>1, <2>2, <1>u DEF TypeOK
<1>2. FiniteInv'
  BY <1>u DEF FiniteInv
<1>3. HandshakeInv'
  BY <1>u, <1>a DEF HandshakeInv, PubHandshake, PlayHandshake, Handshake, TypeOK, Clients
<1>4. ReapInv'
  BY <1>u, <1>a DEF ReapInv, TypeOK
<1>5. StageInv'
  BY <1>u, <1>a DEF StageInv, TypeOK
<1>6. OneSource'
  BY <1>u, <1>a DEF OneSource, TypeOK, Clients
<1>7. OneOwner'
  BY <1>u DEF OneOwner
<1> QED
  BY <1>1, <1>2, <1>3, <1>4, <1>5, <1>6, <1>7

(* So does writing.                                                        *)
LEMMA HandlePlayerIInv ==
    ASSUME IInv, NEW w \in Workers, NEW c \in Clients, HandlePlayer(w, c)
    PROVE  IInv'
<1> USE RolesAssumption DEF IInv
<1>u. /\ UNCHANGED <<stage, key, sock, list, group, registry, arrays, consumers, pc>>
      /\ idle' = [idle EXCEPT ![c] = FALSE]
  BY DEF HandlePlayer, sharedVars
<1>1. TypeOK'
  <2>1. idle' \in [Clients -> BOOLEAN]
    BY <1>u DEF TypeOK
  <2> QED
    BY <2>1, <1>u DEF TypeOK
<1>2. FiniteInv'
  BY <1>u DEF FiniteInv
<1>3. HandshakeInv'
  BY <1>u DEF HandshakeInv, PubHandshake, PlayHandshake, Handshake, TypeOK, Clients
<1>4. ReapInv'
  BY <1>u DEF ReapInv, TypeOK
<1>5. StageInv'
  BY <1>u DEF StageInv, TypeOK
<1>6. OneSource'
  BY <1>u DEF OneSource, TypeOK, Clients
<1>7. OneOwner'
  BY <1>u DEF OneOwner
<1> QED
  BY <1>1, <1>2, <1>3, <1>4, <1>5, <1>6, <1>7

(* The round over the roles of the group begins.                           *)
LEMMA StartReapIInv ==
    ASSUME IInv, NEW w \in Workers, StartReap(w)
    PROVE  IInv'
<1> USE RolesAssumption DEF IInv
<1> DEFINE p == [Idle EXCEPT !.at = "reap", !.todo = group[w] \cap Clients]
<1>p. p \in Locals /\ p.at = "reap" /\ p.todo = group[w] \cap Clients
  BY DEF Idle, Locals, Labels
<1>u. /\ UNCHANGED <<stage, key, sock, idle, list, group, registry, arrays, consumers>>
      /\ pc' = [pc EXCEPT ![w] = p]
  BY DEF StartReap, Goto, clientVars, sharedVars
<1> HIDE DEF p
<1>1. TypeOK'
  <2>1. pc' \in [Workers -> Locals]
    <3>1. pc \in [Workers -> Locals]
      BY DEF TypeOK
    <3> QED
      BY <3>1, <1>p, <1>u
  <2> QED
    BY <2>1, <1>u DEF TypeOK
<1>2. FiniteInv'
  BY <1>u DEF FiniteInv
<1>3. HandshakeInv'
  BY <1>p, <1>u DEF HandshakeInv, PubHandshake, PlayHandshake, Handshake, TypeOK, Clients
<1>4. ReapInv'
  BY <1>p, <1>u DEF ReapInv, TypeOK
<1>5. StageInv'
  BY <1>u DEF StageInv, TypeOK
<1>6. OneSource'
  BY <1>u DEF OneSource, TypeOK, Clients
<1>7. OneOwner'
  BY <1>u DEF OneOwner
<1> QED
  BY <1>1, <1>2, <1>3, <1>4, <1>5, <1>6, <1>7

(* A valid role stays.                                                     *)
LEMMA KeepRoleIInv ==
    ASSUME IInv, NEW w \in Workers, NEW c \in Clients, KeepRole(w, c)
    PROVE  IInv'
<1> USE RolesAssumption DEF IInv
<1>p. /\ Done(w, c) \in Locals /\ Done(w, c).at = "reap"
      /\ Done(w, c).todo = pc[w].todo \ {c}
  BY DoneFields DEF TypeOK
<1>u. /\ UNCHANGED <<stage, key, sock, idle, list, group, registry, arrays, consumers>>
      /\ pc' = [pc EXCEPT ![w] = Done(w, c)]
  BY DEF KeepRole, Goto, clientVars, sharedVars
<1>1. TypeOK'
  <2>1. pc' \in [Workers -> Locals]
    <3>1. pc \in [Workers -> Locals]
      BY DEF TypeOK
    <3> QED
      BY <3>1, <1>p, <1>u
  <2> QED
    BY <2>1, <1>u DEF TypeOK
<1>2. FiniteInv'
  BY <1>u DEF FiniteInv
<1>3. HandshakeInv'
  BY <1>p, <1>u DEF HandshakeInv, PubHandshake, PlayHandshake, Handshake, TypeOK, Clients
<1>4. ReapInv'
  BY <1>p, <1>u DEF ReapInv, TypeOK
<1>5. StageInv'
  BY <1>u DEF StageInv, TypeOK
<1>6. OneSource'
  BY <1>u DEF OneSource, TypeOK, Clients
<1>7. OneOwner'
  BY <1>u DEF OneOwner
<1> QED
  BY <1>1, <1>2, <1>3, <1>4, <1>5, <1>6, <1>7

(* A player leaves its group and is deleted.                               *)
LEMMA ReapPlayerIInv ==
    ASSUME IInv, NEW w \in Workers, NEW c \in Clients, ReapPlayer(w, c)
    PROVE  IInv'
<1> USE RolesAssumption DEF IInv
<1>c. /\ pc[w].at = "reap" /\ c \in Players /\ c \in group[w] /\ stage[c] = "held"
  BY DEF ReapPlayer, ReapInv, StageInv
<1>p. /\ Done(w, c) \in Locals /\ Done(w, c).at = "reap"
      /\ Done(w, c).todo = pc[w].todo \ {c}
  BY DoneFields DEF TypeOK
<1>u. /\ UNCHANGED <<key, idle, list, registry, arrays>>
      /\ group' = [group EXCEPT ![w] = group[w] \ {c}]
      /\ consumers' = consumers \ {c}
      /\ stage' = [stage EXCEPT ![c] = "deleted"] /\ sock' = [sock EXCEPT ![c] = "closed"]
      /\ pc' = [pc EXCEPT ![w] = Done(w, c)]
  BY DEF ReapPlayer, Unregistered, Delete, Goto

<1>g. /\ \A v \in Workers \ {w} : group'[v] = group[v]
      /\ group'[w] = group[w] \ {c}
  BY <1>u DEF TypeOK
<1>f. /\ IsFiniteSet(group'[w]) /\ Cardinality(group'[w]) <= Capacity
      /\ \A v \in Workers : group'[v] \in SUBSET Roles
  <2>1. IsFiniteSet(group[w]) /\ Cardinality(group[w]) <= Capacity
    BY DEF TypeOK, FiniteInv
  <2>2. IsFiniteSet(group'[w]) /\ Cardinality(group'[w]) <= Cardinality(group[w])
    BY <1>g, <2>1, FS_Subset
  <2>3. Cardinality(group[w]) \in Nat /\ Cardinality(group'[w]) \in Nat
    BY <2>1, <2>2, FS_CardinalityType
  <2> QED
    BY <1>g, <2>1, <2>2, <2>3 DEF TypeOK

<1>h. /\ \A i \in DOMAIN list : list[i] # c
      /\ \A v \in Workers \ {w} : c \notin group[v]
  BY <1>c DEF StageInv, OneOwner, Clients
<1>1. TypeOK'
  <2>1. pc' \in [Workers -> Locals]
    <3>1. pc \in [Workers -> Locals]
      BY DEF TypeOK
    <3> QED
      BY <3>1, <1>p, <1>u
  <2>2. stage' \in [Clients -> {"new", "accepted", "queued", "held", "deleted"}]
    BY <1>c, <1>u DEF TypeOK
  <2>3. sock' \in [Clients -> {"up", "broken", "closed"}]
    BY <1>c, <1>u DEF TypeOK
  <2>4. consumers' \in SUBSET Players
    BY <1>c, <1>u DEF TypeOK
  <2>5. group' \in [Workers -> {g \in SUBSET Roles : Cardinality(g) <= Capacity}]
    BY <1>u, <1>g, <1>f DEF TypeOK
  <2> QED
    BY <2>1, <2>2, <2>3, <2>4, <2>5, <1>u DEF TypeOK
<1>2. FiniteInv'
  BY <1>u, <1>g, <1>f DEF FiniteInv
<1>3. HandshakeInv'
  BY <1>c, <1>p, <1>u, <1>g
     DEF HandshakeInv, PubHandshake, PlayHandshake, Handshake, TypeOK, Clients
<1>4. ReapInv'
  BY <1>c, <1>p, <1>u, <1>g DEF ReapInv, TypeOK
<1>5. StageInv'
  BY <1>c, <1>u, <1>g, <1>h DEF StageInv, TypeOK
<1>6. OneSource'
  BY <1>c, <1>u, <1>g DEF OneSource, TypeOK, Clients
<1>7. OneOwner'
  BY <1>u DEF OneOwner
<1> QED
  BY <1>1, <1>2, <1>3, <1>4, <1>5, <1>6, <1>7

(* A publisher starts to leave: it keeps its name and its place.           *)
LEMMA DropArrayIInv ==
    ASSUME IInv, NEW w \in Workers, NEW c \in Clients, DropArray(w, c)
    PROVE  IInv'
<1> USE RolesAssumption DEF IInv
<1> DEFINE p == [pc[w] EXCEPT !.at = "dropped", !.role = c]
<1>c. c \in Publishers /\ c \in group[w] /\ pc[w].at = "reap"
  BY DEF DropArray, ReapInv
<1>p. p \in Locals /\ p.at = "dropped" /\ p.role = c /\ p.todo = pc[w].todo
  <2>1. pc[w] \in Locals
    BY DEF TypeOK
  <2> QED
    BY <2>1 DEF Locals, Labels
<1>u. /\ UNCHANGED <<stage, key, idle, list, registry, consumers, group>>
      /\ sock' = [sock EXCEPT ![c] = "closed"]
      /\ arrays' = [arrays EXCEPT ![key[c]] = FALSE]
      /\ pc' = [pc EXCEPT ![w] = p]
  BY DEF DropArray, Goto
<1> HIDE DEF p
<1>1. TypeOK'
  <2>1. pc' \in [Workers -> Locals]
    <3>1. pc \in [Workers -> Locals]
      BY DEF TypeOK
    <3> QED
      BY <3>1, <1>p, <1>u
  <2>2. sock' \in [Clients -> {"up", "broken", "closed"}]
    BY <1>c, <1>u DEF TypeOK
  <2>3. arrays' \in [Streams -> BOOLEAN]
    BY <1>c, <1>u DEF TypeOK
  <2> QED
    BY <2>1, <2>2, <2>3, <1>u DEF TypeOK
<1>2. FiniteInv'
  BY <1>u DEF FiniteInv
<1>3. HandshakeInv'
  BY <1>c, <1>p, <1>u
     DEF HandshakeInv, PubHandshake, PlayHandshake, Handshake, TypeOK, Clients
<1>4. ReapInv'
  BY <1>c, <1>p, <1>u DEF ReapInv, TypeOK
<1>5. StageInv'
  BY <1>c, <1>u DEF StageInv, TypeOK
<1>6. OneSource'
  BY <1>c, <1>u DEF OneSource, TypeOK, Clients
<1>7. OneOwner'
  BY <1>u DEF OneOwner
<1> QED
  BY <1>1, <1>2, <1>3, <1>4, <1>5, <1>6, <1>7

(* A publisher gives its name back, leaves its group and is deleted.       *)
LEMMA ReapPublisherIInv ==
    ASSUME IInv, NEW w \in Workers, ReapPublisher(w)
    PROVE  IInv'
<1> USE RolesAssumption DEF IInv
<1> DEFINE c == pc[w].role
<1>c. /\ pc[w].at = "dropped" /\ c \in Publishers /\ c \in Clients /\ c \in group[w]
      /\ stage[c] = "held"
  BY DEF ReapPublisher, ReapInv, StageInv, Clients
<1>p. /\ Done(w, c) \in Locals /\ Done(w, c).at = "reap"
      /\ Done(w, c).todo = pc[w].todo \ {c}
  BY DoneFields DEF TypeOK
<1>u. /\ UNCHANGED <<key, idle, list, arrays, consumers>>
      /\ group' = [group EXCEPT ![w] = group[w] \ {c}]
      /\ registry' = [s \in Streams |-> IF registry[s] = c THEN NoRole ELSE registry[s]]
      /\ stage' = [stage EXCEPT ![c] = "deleted"] /\ sock' = [sock EXCEPT ![c] = "closed"]
      /\ pc' = [pc EXCEPT ![w] = Done(w, c)]
  BY DEF ReapPublisher, Without, Delete, Goto
<1>k. \A d \in Clients : stage[d] # "new" => key[d] \in Streams
  BY DEF StageInv

<1>g. /\ \A v \in Workers \ {w} : group'[v] = group[v]
      /\ group'[w] = group[w] \ {c}
  BY <1>u DEF TypeOK
<1>f. /\ IsFiniteSet(group'[w]) /\ Cardinality(group'[w]) <= Capacity
      /\ \A v \in Workers : group'[v] \in SUBSET Roles
  <2>1. IsFiniteSet(group[w]) /\ Cardinality(group[w]) <= Capacity
    BY DEF TypeOK, FiniteInv
  <2>2. IsFiniteSet(group'[w]) /\ Cardinality(group'[w]) <= Cardinality(group[w])
    BY <1>g, <2>1, FS_Subset
  <2>3. Cardinality(group[w]) \in Nat /\ Cardinality(group'[w]) \in Nat
    BY <2>1, <2>2, FS_CardinalityType
  <2> QED
    BY <1>g, <2>1, <2>2, <2>3 DEF TypeOK

<1>h. /\ \A i \in DOMAIN list : list[i] # c
      /\ \A v \in Workers \ {w} : c \notin group[v]
  BY <1>c DEF StageInv, OneOwner, Clients
<1>1. TypeOK'
  <2>1. pc' \in [Workers -> Locals]
    <3>1. pc \in [Workers -> Locals]
      BY DEF TypeOK
    <3> QED
      BY <3>1, <1>p, <1>u
  <2>2. stage' \in [Clients -> {"new", "accepted", "queued", "held", "deleted"}]
    BY <1>c, <1>u DEF TypeOK
  <2>3. sock' \in [Clients -> {"up", "broken", "closed"}]
    BY <1>c, <1>u DEF TypeOK
  <2>4. registry' \in [Streams -> Publishers \cup {NoRole}]
    BY <1>c, <1>u DEF TypeOK
  <2>5. group' \in [Workers -> {g \in SUBSET Roles : Cardinality(g) <= Capacity}]
    BY <1>u, <1>g, <1>f DEF TypeOK
  <2> QED
    BY <2>1, <2>2, <2>3, <2>4, <2>5, <1>u DEF TypeOK
<1>2. FiniteInv'
  BY <1>u, <1>g, <1>f DEF FiniteInv
<1>3. HandshakeInv'
  <2>1. \A v \in Workers : pc'[v] = IF v = w THEN Done(w, c) ELSE pc[v]
    BY <1>u DEF TypeOK
  <2>2. "reap" \notin Handshake /\ Done(w, c).at = "reap"
    BY <1>p DEF PubHandshake, PlayHandshake, Handshake
  <2>3. ASSUME NEW v \in Workers, pc'[v].at \in Handshake
        PROVE  /\ v # w /\ pc'[v] = pc[v]
               /\ pc[v].role \in Clients /\ pc[v].role # c /\ stage[pc[v].role] = "accepted"
               /\ stage'[pc[v].role] = "accepted"
    <3>1. v # w /\ pc'[v] = pc[v]
      BY <2>1, <2>2, <2>3
    <3>2. pc[v].role \in Clients /\ stage[pc[v].role] = "accepted"
      BY <2>3, <3>1 DEF HandshakeInv, Handshake, Clients
    <3> QED
      BY <1>c, <1>u, <3>1, <3>2 DEF TypeOK
  <2>4. ASSUME NEW v \in Workers, pc'[v].at = "registered"
        PROVE  registry'[key[pc[v].role]] = pc[v].role
    <3> DEFINE d == pc[v].role
    <3>1. d \in Clients /\ d # c /\ stage[d] = "accepted" /\ pc'[v] = pc[v]
      BY <2>3, <2>4 DEF Handshake, PubHandshake
    <3>2. registry[key[d]] = d
      BY <2>4, <3>1 DEF HandshakeInv
    <3> HIDE DEF d
    <3>3. registry'[key[d]] = d
      BY <1>k, <1>u, <3>1, <3>2
    <3> QED
      BY <3>3 DEF d
  <2>5. \A v \in Workers :
          /\ pc'[v].at \in PubHandshake => pc'[v].role \in Publishers
          /\ pc'[v].at \in PlayHandshake => pc'[v].role \in Players
          /\ pc'[v].at \in Handshake => stage'[pc'[v].role] = "accepted"
    BY <2>3 DEF HandshakeInv, Handshake
  <2>6. \A v \in Workers : pc'[v].at = "registered" => registry'[key'[pc'[v].role]] = pc'[v].role
    BY <1>u, <2>3, <2>4 DEF Handshake, PubHandshake
  <2>7. \A v, u \in Workers :
          v # u /\ pc'[v].at \in Handshake /\ pc'[u].at \in Handshake => pc'[v].role # pc'[u].role
    BY <2>3 DEF HandshakeInv
  <2> QED
    BY <2>5, <2>6, <2>7 DEF HandshakeInv
<1>4. ReapInv'
  BY <1>c, <1>p, <1>u, <1>g, <1>k DEF ReapInv, TypeOK
<1>5. StageInv'
  BY <1>c, <1>u, <1>g, <1>h DEF StageInv, TypeOK
<1>6. OneSource'
  BY <1>c, <1>u, <1>g, <1>k DEF OneSource, TypeOK, Clients
<1>7. OneOwner'
  BY <1>u DEF OneOwner
<1> QED
  BY <1>1, <1>2, <1>3, <1>4, <1>5, <1>6, <1>7

(* The group is full or the list is empty.                                 *)
LEMMA TakeNoneIInv ==
    ASSUME IInv, NEW w \in Workers, TakeNone(w)
    PROVE  IInv'
<1> USE RolesAssumption DEF IInv
<1>u. /\ UNCHANGED <<stage, key, sock, idle, list, group, registry, arrays, consumers>>
      /\ pc' = [pc EXCEPT ![w] = Idle]
  BY DEF TakeNone, Goto, clientVars, sharedVars
<1>1. TypeOK'
  <2>1. pc' \in [Workers -> Locals]
    <3>1. pc \in [Workers -> Locals]
      BY DEF TypeOK
    <3> QED
      BY <3>1, <1>u, IdleFields
  <2> QED
    BY <2>1, <1>u DEF TypeOK
<1>2. FiniteInv'
  BY <1>u DEF FiniteInv
<1>3. HandshakeInv'
  BY <1>u, IdleFields
     DEF HandshakeInv, PubHandshake, PlayHandshake, Handshake, TypeOK, Clients
<1>4. ReapInv'
  BY <1>u, IdleFields DEF ReapInv, TypeOK
<1>5. StageInv'
  BY <1>u DEF StageInv, TypeOK
<1>6. OneSource'
  BY <1>u DEF OneSource, TypeOK, Clients
<1>7. OneOwner'
  BY <1>u DEF OneOwner
<1> QED
  BY <1>1, <1>2, <1>3, <1>4, <1>5, <1>6, <1>7

(* The first role of the list moves to the group, which has a place.       *)
LEMMA TakeNewIInv ==
    ASSUME IInv, NEW w \in Workers, TakeNew(w)
    PROVE  IInv'
<1> USE RolesAssumption DEF IInv
<1> DEFINE r == Head(list)
<1>u. /\ UNCHANGED <<key, sock, idle, registry, arrays, consumers>>
      /\ list' = Tail(list) /\ list # <<>>
      /\ group' = [group EXCEPT ![w] = group[w] \cup {r}]
      /\ stage' = [c \in Clients |-> IF c = r THEN "held" ELSE stage[c]]
      /\ pc' = [pc EXCEPT ![w] = Idle] /\ pc[w].at = "reap"
  BY DEF TakeNew, Popped, Goto, ReapDone

<1>l. /\ list' \in Seq(Roles) /\ list # <<>> /\ Len(list) \in Nat \ {0}
      /\ r = list[1] /\ r \in Roles
      /\ Len(list') = Len(list) - 1 /\ DOMAIN list = 1..Len(list)
      /\ DOMAIN list' = 1..Len(list) - 1
      /\ \A i \in 1..Len(list) - 1 : list'[i] = list[i + 1]
  BY <1>u DEF TypeOK
<1> HIDE DEF r
<1>h. /\ \A i \in DOMAIN list' : i + 1 \in DOMAIN list /\ list'[i] = list[i + 1] /\ list'[i] # r
      /\ \A v \in Workers : r \notin group[v]
      /\ r \in Clients => stage[r] = "queued"
  <2>1. 1 \in DOMAIN list /\ \A i \in DOMAIN list' : i + 1 \in DOMAIN list /\ i + 1 # 1
    BY <1>l
  <2> QED
    BY <1>l, <2>1 DEF OneOwner, StageInv

<1>g. /\ \A v \in Workers \ {w} : group'[v] = group[v]
      /\ group'[w] = group[w] \cup {r}
  BY <1>u DEF TypeOK
<1>f. /\ IsFiniteSet(group'[w]) /\ Cardinality(group'[w]) <= Capacity
      /\ \A v \in Workers : group'[v] \in SUBSET Roles
  <2>1. IsFiniteSet(group[w]) /\ ~(Cardinality(group[w]) >= Capacity)
    BY DEF FiniteInv, TakeNew, Full
  <2>2. Cardinality(group[w]) \in Nat
    BY <2>1, FS_CardinalityType
  <2>3. IsFiniteSet(group'[w]) /\ Cardinality(group'[w]) = Cardinality(group[w]) + 1
    <3>1. r \notin group[w]
      BY <1>h
    <3>2. /\ IsFiniteSet(group[w] \cup {r})
          /\ Cardinality(group[w] \cup {r}) = Cardinality(group[w]) + 1
      BY <2>1, <3>1, FS_AddElement
    <3> QED
      BY <1>g, <3>2
  <2>4. \A v \in Workers : group'[v] \in SUBSET Roles
    BY <1>g, <1>l DEF TypeOK
  <2> QED
    BY <2>1, <2>2, <2>3, <2>4
<1>i. \A i, j \in DOMAIN list' : list'[i] = list'[j] => i = j
  <2> SUFFICES ASSUME NEW i \in DOMAIN list', NEW j \in DOMAIN list', list'[i] = list'[j]
               PROVE  i = j
    OBVIOUS
  <2>1. i \in Nat /\ j \in Nat
    BY <1>l
  <2>2. i + 1 \in DOMAIN list /\ j + 1 \in DOMAIN list /\ list[i + 1] = list[j + 1]
    BY <1>h
  <2>3. \A k, m \in DOMAIN list : list[k] = list[m] => k = m
    <3>1. \A k \in DOMAIN list : list[k] \in Roles
      BY <1>l DEF TypeOK
    <3> QED
      BY <3>1 DEF OneOwner
  <2>4. i + 1 = j + 1
    BY <2>2, <2>3
  <2> QED
    BY <2>1, <2>4
<1>1. TypeOK'
  <2>1. pc' \in [Workers -> Locals]
    <3>1. pc \in [Workers -> Locals]
      BY DEF TypeOK
    <3> QED
      BY <3>1, <1>u, IdleFields
  <2>2. stage' \in [Clients -> {"new", "accepted", "queued", "held", "deleted"}]
    BY <1>u DEF TypeOK
  <2>3. list' \in Seq(Roles)
    BY <1>l DEF TypeOK
  <2>4. group' \in [Workers -> {g \in SUBSET Roles : Cardinality(g) <= Capacity}]
    BY <1>u, <1>g, <1>f DEF TypeOK
  <2> QED
    BY <2>1, <2>2, <2>3, <2>4, <1>u DEF TypeOK
<1>2. FiniteInv'
  BY <1>u, <1>g, <1>f DEF FiniteInv
<1>3. HandshakeInv'
  BY <1>u, <1>h, <1>g, IdleFields
     DEF HandshakeInv, PubHandshake, PlayHandshake, Handshake, TypeOK, Clients
<1>4. ReapInv'
  BY <1>u, <1>h, <1>g, IdleFields DEF ReapInv, TypeOK
<1>5. StageInv'
  BY <1>u, <1>h, <1>g DEF StageInv, TypeOK
<1>6. OneSource'
  BY <1>u, <1>h, <1>g DEF OneSource, TypeOK, Clients
<1>7. OneOwner'
  BY <1>h, <1>g, <1>i DEF OneOwner
<1> QED
  BY <1>1, <1>2, <1>3, <1>4, <1>5, <1>6, <1>7

(* The first role of the list is deleted, because epoll refuses its socket.*)
LEMMA TakeFailsIInv ==
    ASSUME IInv, NEW w \in Workers, TakeFails(w)
    PROVE  IInv'
<1> USE RolesAssumption DEF IInv
<1> DEFINE r == Head(list)
<1>u. /\ UNCHANGED <<key, idle, registry, arrays, consumers, group>>
      /\ list' = Tail(list) /\ list # <<>> /\ r \in Clients
      /\ stage' = [stage EXCEPT ![r] = "deleted"] /\ sock' = [sock EXCEPT ![r] = "closed"]
      /\ pc' = [pc EXCEPT ![w] = Idle] /\ pc[w].at = "reap"
  BY DEF TakeFails, Popped, Delete, Goto, ReapDone

<1>l. /\ list' \in Seq(Roles) /\ list # <<>> /\ Len(list) \in Nat \ {0}
      /\ r = list[1] /\ r \in Roles
      /\ Len(list') = Len(list) - 1 /\ DOMAIN list = 1..Len(list)
      /\ DOMAIN list' = 1..Len(list) - 1
      /\ \A i \in 1..Len(list) - 1 : list'[i] = list[i + 1]
  BY <1>u DEF TypeOK
<1> HIDE DEF r
<1>h. /\ \A i \in DOMAIN list' : i + 1 \in DOMAIN list /\ list'[i] = list[i + 1] /\ list'[i] # r
      /\ \A v \in Workers : r \notin group[v]
      /\ r \in Clients => stage[r] = "queued"
  <2>1. 1 \in DOMAIN list /\ \A i \in DOMAIN list' : i + 1 \in DOMAIN list /\ i + 1 # 1
    BY <1>l
  <2> QED
    BY <1>l, <2>1 DEF OneOwner, StageInv

<1>i. \A i, j \in DOMAIN list' : list'[i] = list'[j] => i = j
  <2> SUFFICES ASSUME NEW i \in DOMAIN list', NEW j \in DOMAIN list', list'[i] = list'[j]
               PROVE  i = j
    OBVIOUS
  <2>1. i \in Nat /\ j \in Nat
    BY <1>l
  <2>2. i + 1 \in DOMAIN list /\ j + 1 \in DOMAIN list /\ list[i + 1] = list[j + 1]
    BY <1>h
  <2>3. \A k, m \in DOMAIN list : list[k] = list[m] => k = m
    <3>1. \A k \in DOMAIN list : list[k] \in Roles
      BY <1>l DEF TypeOK
    <3> QED
      BY <3>1 DEF OneOwner
  <2>4. i + 1 = j + 1
    BY <2>2, <2>3
  <2> QED
    BY <2>1, <2>4
<1>1. TypeOK'
  <2>1. pc' \in [Workers -> Locals]
    <3>1. pc \in [Workers -> Locals]
      BY DEF TypeOK
    <3> QED
      BY <3>1, <1>u, IdleFields
  <2>2. stage' \in [Clients -> {"new", "accepted", "queued", "held", "deleted"}]
    BY <1>u DEF TypeOK
  <2>3. sock' \in [Clients -> {"up", "broken", "closed"}]
    BY <1>u DEF TypeOK
  <2>4. list' \in Seq(Roles)
    BY <1>l DEF TypeOK
  <2> QED
    BY <2>1, <2>2, <2>3, <2>4, <1>u DEF TypeOK
<1>2. FiniteInv'
  BY <1>u DEF FiniteInv
<1>3. HandshakeInv'
  BY <1>u, <1>h, IdleFields
     DEF HandshakeInv, PubHandshake, PlayHandshake, Handshake, TypeOK, Clients
<1>4. ReapInv'
  BY <1>u, <1>h, IdleFields DEF ReapInv, TypeOK
<1>5. StageInv'
  BY <1>u, <1>h DEF StageInv, TypeOK
<1>6. OneSource'
  BY <1>u, <1>h DEF OneSource, TypeOK, Clients
<1>7. OneOwner'
  BY <1>u, <1>h, <1>i DEF OneOwner
<1> QED
  BY <1>1, <1>2, <1>3, <1>4, <1>5, <1>6, <1>7

(* A connection breaks.                                                    *)
LEMMA BreakIInv ==
    ASSUME IInv, NEW c \in Clients, Break(c)
    PROVE  IInv'
<1> USE RolesAssumption DEF IInv
<1>u. /\ UNCHANGED <<stage, key, idle, list, group, registry, arrays, consumers, pc>>
      /\ sock' = [sock EXCEPT ![c] = "broken"]
  BY DEF Break, sharedVars
<1>1. TypeOK'
  <2>1. sock' \in [Clients -> {"up", "broken", "closed"}]
    BY <1>u DEF TypeOK
  <2> QED
    BY <2>1, <1>u DEF TypeOK
<1>2. FiniteInv'
  BY <1>u DEF FiniteInv
<1>3. HandshakeInv'
  BY <1>u DEF HandshakeInv, PubHandshake, PlayHandshake, Handshake, TypeOK, Clients
<1>4. ReapInv'
  BY <1>u DEF ReapInv, TypeOK
<1>5. StageInv'
  BY <1>u DEF StageInv, TypeOK
<1>6. OneSource'
  BY <1>u DEF OneSource, TypeOK, Clients
<1>7. OneOwner'
  BY <1>u DEF OneOwner
<1> QED
  BY <1>1, <1>2, <1>3, <1>4, <1>5, <1>6, <1>7

(* A timer runs out.                                                       *)
LEMMA ElapseIInv ==
    ASSUME IInv, NEW c \in Clients, Elapse(c)
    PROVE  IInv'
<1> USE RolesAssumption DEF IInv
<1>u. /\ UNCHANGED <<stage, key, sock, list, group, registry, arrays, consumers, pc>>
      /\ idle' = [idle EXCEPT ![c] = TRUE]
  BY DEF Elapse, sharedVars
<1>1. TypeOK'
  <2>1. idle' \in [Clients -> BOOLEAN]
    BY <1>u DEF TypeOK
  <2> QED
    BY <2>1, <1>u DEF TypeOK
<1>2. FiniteInv'
  BY <1>u DEF FiniteInv
<1>3. HandshakeInv'
  BY <1>u DEF HandshakeInv, PubHandshake, PlayHandshake, Handshake, TypeOK, Clients
<1>4. ReapInv'
  BY <1>u DEF ReapInv, TypeOK
<1>5. StageInv'
  BY <1>u DEF StageInv, TypeOK
<1>6. OneSource'
  BY <1>u DEF OneSource, TypeOK, Clients
<1>7. OneOwner'
  BY <1>u DEF OneOwner
<1> QED
  BY <1>1, <1>2, <1>3, <1>4, <1>5, <1>6, <1>7

-----------------------------------------------------------------------------
(* The initial states: only listeners, all of them in the list.            *)
LEMMA InitIInv == Init => IInv
<1> SUFFICES ASSUME Init PROVE IInv
  OBVIOUS
<1> USE RolesAssumption DEF Init
<1>1. TypeOK
  <2>1. list \in Seq(Roles)
    <3>1. Cardinality(Listeners) \in Nat
      BY FS_AddElement, FS_CardinalityType, FS_Singleton, FS_Union DEF Listeners
    <3> QED
      BY <3>1 DEF Roles
  <2>2. Cardinality({}) <= Capacity
    BY FS_EmptySet
  <2> QED
    BY <2>1, <2>2, IdleFields DEF TypeOK
<1>2. FiniteInv
  BY FS_EmptySet DEF FiniteInv
<1>3. HandshakeInv
  BY IdleFields DEF HandshakeInv, PubHandshake, PlayHandshake, Handshake
<1>4. ReapInv
  BY IdleFields DEF ReapInv
<1>5. StageInv
  BY DEF StageInv
<1>6. OneSource
  BY DEF OneSource, Clients
<1>7. OneOwner
  BY DEF OneOwner
<1> QED
  BY <1>1, <1>2, <1>3, <1>4, <1>5, <1>6, <1>7 DEF IInv

(* No step breaks the invariant.                                           *)
LEMMA NextIInv == IInv /\ [Next]_vars => IInv'
<1> SUFFICES ASSUME IInv, [Next]_vars PROVE IInv'
  OBVIOUS
<1>1. ASSUME NEW w \in Workers, Progress(w) PROVE IInv'
  BY <1>1, AddArrayIInv, RegisterIInv, ActivateIInv, PushIInv, StartReapIInv,
     KeepRoleIInv, ReapPlayerIInv, DropArrayIInv, ReapPublisherIInv, TakeNoneIInv,
     TakeNewIInv, TakeFailsIInv
     DEF Progress
<1>2. ASSUME NEW w \in Workers, NEW s \in Streams, NEW c \in Publishers, AcceptPublisher(w, c, s)
      PROVE  IInv'
  BY <1>2, AcceptPublisherIInv
<1>3. ASSUME NEW w \in Workers, NEW s \in Streams, NEW c \in Players, AcceptPlayer(w, c, s)
      PROVE  IInv'
  BY <1>3, AcceptPlayerIInv
<1>4. ASSUME NEW w \in Workers, NEW c \in Clients, HandlePublisher(w, c) \/ HandlePlayer(w, c)
      PROVE  IInv'
  BY <1>4, HandlePublisherIInv, HandlePlayerIInv
<1>5. ASSUME NEW c \in Clients, Break(c) \/ Elapse(c)
      PROVE  IInv'
  BY <1>5, BreakIInv, ElapseIInv
<1>6. ASSUME UNCHANGED vars PROVE IInv'
  BY <1>6
     DEF vars, clientVars, sharedVars, IInv, TypeOK, FiniteInv, HandshakeInv, ReapInv,
         StageInv, OneSource, OneOwner
<1> QED
  BY <1>1, <1>2, <1>3, <1>4, <1>5, <1>6 DEF Next

(* The inductive invariant holds in every reachable state.                 *)
THEOREM Invariance == Spec => []IInv
<1>1. Init => IInv
  BY InitIInv
<1>2. IInv /\ [Next]_vars => IInv'
  BY NextIInv
<1> QED
  BY <1>1, <1>2, PTL DEF Spec

(* Types, and worker_connections as the limit of every group, for any      *)
(* numbers of workers, listeners, clients and streams.                     *)
THEOREM TypeCorrect == Spec => []TypeOK
<1>1. IInv => TypeOK
  BY DEF IInv
<1> QED
  BY <1>1, Invariance, PTL

(* CSLSMapPublisher's own test is enough: a publisher that reached the     *)
(* role list or a group is the one registered for its stream, whatever the *)
(* order in which the listeners looked at the registry and wrote to it.    *)
THEOREM OneSourceAlways == Spec => []OneSource
<1>1. IInv => OneSource
  BY DEF IInv
<1> QED
  BY <1>1, Invariance, PTL

(* Groups and role list never share a role, so that no two threads call    *)
(* the handler, the uninit or the destructor of one role.                  *)
THEOREM OneOwnerAlways == Spec => []OneOwner
<1>1. IInv => OneOwner
  BY DEF IInv
<1> QED
  BY <1>1, Invariance, PTL

(* CSLSPublisher::uninit removes the array of the stream its publisher is  *)
(* registered for, hence never the array of a later publisher.             *)
THEOREM DropsOwnArrayAlways == Spec => DropsOwnArray
<1> DEFINE Own == \A s \in Streams : arrays[s] /\ ~arrays'[s]
                    => \E w \in Workers : pc'[w].at = "dropped" /\ pc'[w].role = registry[s]
<1>1. ASSUME IInv, NEW w \in Workers, NEW c \in Clients, DropArray(w, c) PROVE Own
  <2> DEFINE p == [pc[w] EXCEPT !.at = "dropped", !.role = c]
  <2>1. c \in Publishers /\ c \in group[w] /\ registry[key[c]] = c
    BY <1>1 DEF IInv, DropArray, ReapInv, StageInv, OneSource
  <2>2. pc' = [pc EXCEPT ![w] = p] /\ arrays' = [arrays EXCEPT ![key[c]] = FALSE]
    BY <1>1 DEF DropArray, Goto
  <2>3. p.at = "dropped" /\ p.role = c
    BY <1>1 DEF IInv, TypeOK, Locals
  <2> HIDE DEF p
  <2>4. pc'[w].at = "dropped" /\ pc'[w].role = c
    BY <1>1, <2>2, <2>3 DEF IInv, TypeOK
  <2>5. \A s \in Streams : arrays[s] /\ ~arrays'[s] => s = key[c]
    BY <1>1, <2>2 DEF IInv, TypeOK
  <2> QED
    BY <2>1, <2>4, <2>5
<1>2. ASSUME IInv, NEW w \in Workers, AddArray(w) PROVE Own
  BY <1>2 DEF AddArray, IInv, TypeOK
<1>3. ASSUME UNCHANGED arrays PROVE Own
  BY <1>3
<1>4. IInv /\ [Next]_vars => [Own]_vars
  <2> SUFFICES ASSUME IInv, Next PROVE Own
    OBVIOUS
  <2> HIDE DEF Own
  <2>1. CASE \E w \in Workers : Progress(w)
    <3> PICK w \in Workers : Progress(w)
      BY <2>1
    <3>1. CASE AddArray(w)
      BY <3>1, <1>2
    <3>2. CASE \E c \in Clients : DropArray(w, c)
      BY <3>2, <1>1
    <3>3. CASE \/ Register(w) \/ Activate(w) \/ Push(w) \/ StartReap(w) \/ ReapPublisher(w)
               \/ TakeNone(w) \/ TakeNew(w) \/ TakeFails(w)
               \/ \E c \in Clients : KeepRole(w, c) \/ ReapPlayer(w, c)
      BY <3>3, <1>3
         DEF Register, Activate, Push, StartReap, ReapPublisher, TakeNone, TakeNew,
             TakeFails, KeepRole, ReapPlayer, sharedVars
    <3> QED
      BY <3>1, <3>2, <3>3 DEF Progress
  <2>2. CASE \E w \in Workers : \/ \E s \in Streams : \/ \E c \in Publishers : AcceptPublisher(w, c, s)
                                                      \/ \E c \in Players : AcceptPlayer(w, c, s)
                                \/ \E c \in Clients : HandlePublisher(w, c) \/ HandlePlayer(w, c)
    BY <2>2, <1>3
       DEF AcceptPublisher, AcceptPlayer, HandlePublisher, HandlePlayer, sharedVars
  <2>3. CASE \E c \in Clients : Break(c) \/ Elapse(c)
    BY <2>3, <1>3 DEF Break, Elapse, sharedVars
  <2> QED
    BY <2>1, <2>2, <2>3 DEF Next
<1>5. Spec => [][Own]_vars
  BY <1>4, Invariance, PTL DEF Spec
<1> QED
  BY <1>5 DEF DropsOwnArray
-----------------------------------------------------------------------------
(* What the listeners, the statistics and the other roles can still find.  *)
Unnamed(c) == c \notin consumers /\ \A s \in Streams : registry[s] # c

(* A role gets its name, as a source or as a consumer, in its handshake.   *)
BeforeName == {"checked", "added", "found"}

NameInv ==
    /\ \A c \in Clients : stage[c] = "new" => Unnamed(c)
    /\ \A w \in Workers : pc[w].at \in BeforeName => Unnamed(pc[w].role)

Traceless ==
    \A c \in Clients :
        stage[c] # "queued" /\ stage'[c] = "deleted" /\ stage[c] # "deleted" => Unnamed(c)'

(* Most steps name nobody and delete nobody who is not in the list.        *)
LEMMA QuietNames ==
    ASSUME IInv, NameInv, UNCHANGED <<registry, consumers>>,
           \/ pc' = pc
           \/ \E w \in Workers : \E p : pc' = [pc EXCEPT ![w] = p] /\ p.at \notin BeforeName,
           \A c \in Clients :
               /\ stage'[c] = "new" => stage[c] = "new"
               /\ stage'[c] = "deleted" => stage[c] \in {"deleted", "queued"}
    PROVE  NameInv' /\ Traceless
<1>1. \A c : Unnamed(c)' <=> Unnamed(c)
  BY DEF Unnamed
<1>2. \A v \in Workers : pc'[v] = pc[v] \/ pc'[v].at \notin BeforeName
  BY DEF IInv, TypeOK
<1>3. \A v \in Workers : pc'[v].at \in BeforeName => Unnamed(pc'[v].role)
  BY <1>2 DEF NameInv
<1> QED
  BY <1>1, <1>3 DEF NameInv, Traceless

(* A client that is accepted or refused has been nowhere yet.              *)
LEMMA AcceptNames ==
    ASSUME IInv, NameInv, NEW w \in Workers, NEW c \in Clients, NEW s \in Streams,
           \/ AcceptPublisher(w, c, s) /\ c \in Publishers
           \/ AcceptPlayer(w, c, s) /\ c \in Players
    PROVE  NameInv' /\ Traceless
<1>1. /\ UNCHANGED <<registry, consumers>> /\ stage[c] = "new"
      /\ \/ pc' = pc /\ stage' = [stage EXCEPT ![c] = "deleted"]
         \/ /\ \E p : pc' = [pc EXCEPT ![w] = p] /\ p.role = c
            /\ stage' = [stage EXCEPT ![c] = "accepted"]
  <2>1. CASE AcceptPublisher(w, c, s) /\ c \in Publishers
    <3>1. At("checked", c).role = c
      BY AtFields DEF Labels
    <3> QED
      BY <2>1, <3>1 DEF AcceptPublisher, sharedVars, Delete, Goto
  <2>2. CASE AcceptPlayer(w, c, s) /\ c \in Players
    <3>1. [At("found", c) EXCEPT !.pub = registry[s]].role = c
      BY <2>2, FoundFields DEF IInv, TypeOK
    <3> QED
      BY <2>2, <3>1 DEF AcceptPlayer, sharedVars, Delete, Goto
  <2> QED
    BY <2>1, <2>2
<1>2. \A d : Unnamed(d)' <=> Unnamed(d)
  BY <1>1 DEF Unnamed
<1>3. Unnamed(c)
  BY <1>1 DEF NameInv
<1>4. \A v \in Workers : pc'[v] = pc[v] \/ pc'[v].role = c
  BY <1>1 DEF IInv, TypeOK
<1>5. \A v \in Workers : pc'[v].at \in BeforeName => Unnamed(pc'[v].role)
  BY <1>3, <1>4 DEF NameInv
<1>6. \A d \in Clients \ {c} : stage'[d] = stage[d]
  BY <1>1 DEF IInv, TypeOK
<1>7. stage'[c] # "new"
  BY <1>1 DEF IInv, TypeOK
<1> QED
  BY <1>2, <1>3, <1>5, <1>6, <1>7 DEF NameInv, Traceless

LEMMA AddArrayNames ==
    ASSUME IInv, NameInv, NEW w \in Workers, AddArray(w)
    PROVE  NameInv' /\ Traceless
<1> DEFINE c == pc[w].role
           p == At("added", c)
<1>1. c \in Clients /\ pc[w].at = "checked"
  BY DEF AddArray, IInv, HandshakeInv, PubHandshake, Clients
<1>2. p.role = c
  BY <1>1, AtFields DEF Labels
<1>3. /\ UNCHANGED <<stage, registry, consumers>>
      /\ pc' = [pc EXCEPT ![w] = p]
  BY DEF AddArray, Goto, clientVars
<1> HIDE DEF p
<1>4. \A d : Unnamed(d)' <=> Unnamed(d)
  BY <1>3 DEF Unnamed
<1>5. Unnamed(c)
  BY <1>1 DEF NameInv, BeforeName
<1>6. \A v \in Workers : pc'[v] = pc[v] \/ pc'[v].role = c
  BY <1>2, <1>3 DEF IInv, TypeOK
<1>7. \A v \in Workers : pc'[v].at \in BeforeName => Unnamed(pc'[v].role)
  BY <1>5, <1>6 DEF NameInv
<1> QED
  BY <1>3, <1>4, <1>7 DEF NameInv, Traceless

(* The steps that give a name give it to the role of the handshake only,   *)
(* and a role that is refused there never had one.                         *)
LEMMA GivenNames ==
    ASSUME IInv, NameInv, NEW w \in Workers, Register(w) \/ Activate(w)
    PROVE  NameInv' /\ Traceless
<1> DEFINE c == pc[w].role
<1>1. /\ c \in Clients /\ pc[w].at \in BeforeName /\ stage[c] = "accepted"
      /\ pc[w].at \in Handshake
  BY DEF Register, Activate, IInv, HandshakeInv, PubHandshake, PlayHandshake, Handshake,
         BeforeName, Clients
<1>2. /\ \A d \in Clients : d # c /\ Unnamed(d) => Unnamed(d)'
      /\ \A d \in Clients \ {c} : stage'[d] = stage[d]
      /\ stage'[c] = "accepted" \/ (stage'[c] = "deleted" /\ UNCHANGED <<registry, consumers>>)
      /\ \E p : pc' = [pc EXCEPT ![w] = p] /\ p.at \notin BeforeName
  <2>1. CASE Register(w)
    <3>1. At("registered", c).at = "registered" /\ Idle.at = "events"
      BY <1>1, AtFields, IdleFields DEF Labels
    <3>2. CASE Free(key[c])
      <4>1. /\ registry' = [registry EXCEPT ![key[c]] = c]
            /\ pc' = [pc EXCEPT ![w] = At("registered", c)]
            /\ UNCHANGED <<stage, consumers>>
        BY <2>1, <3>2 DEF Register, Goto
      <4>2. \A s \in Streams : registry'[s] = registry[s] \/ registry'[s] = c
        BY <4>1 DEF IInv, TypeOK
      <4>3. \A d \in Clients : d # c /\ Unnamed(d) => Unnamed(d)'
        BY <4>1, <4>2 DEF Unnamed
      <4>5. stage'[c] = "accepted" /\ \A d \in Clients \ {c} : stage'[d] = stage[d]
        BY <1>1, <4>1
      <4>6. \E p : pc' = [pc EXCEPT ![w] = p] /\ p.at \notin BeforeName
        BY <3>1, <4>1 DEF BeforeName
      <4> QED
        BY <4>3, <4>5, <4>6
    <3>3. CASE ~Free(key[c])
      <4>1. /\ stage' = [stage EXCEPT ![c] = "deleted"]
            /\ pc' = [pc EXCEPT ![w] = Idle]
            /\ UNCHANGED <<registry, consumers>>
        BY <2>1, <3>3 DEF Register, Goto, Delete
      <4>2. \A d \in Clients : d # c /\ Unnamed(d) => Unnamed(d)'
        BY <4>1 DEF Unnamed
      <4> QED
        BY <1>1, <3>1, <4>1, <4>2 DEF BeforeName, IInv, TypeOK
    <3> QED
      BY <3>2, <3>3
  <2>2. CASE Activate(w)
    <3>1. [pc[w] EXCEPT !.at = "active"].at = "active" /\ Idle.at = "events"
      BY IdleFields DEF IInv, TypeOK, Locals
    <3>2. CASE arrays[key[c]]
      <4>1. /\ consumers' = consumers \cup {c}
            /\ pc' = [pc EXCEPT ![w] = [pc[w] EXCEPT !.at = "active"]]
            /\ UNCHANGED <<stage, registry>>
        BY <2>2, <3>2 DEF Activate, Goto
      <4>3. \A d \in Clients : d # c /\ Unnamed(d) => Unnamed(d)'
        BY <4>1 DEF Unnamed
      <4>5. stage'[c] = "accepted" /\ \A d \in Clients \ {c} : stage'[d] = stage[d]
        BY <1>1, <4>1
      <4>6. \E p : pc' = [pc EXCEPT ![w] = p] /\ p.at \notin BeforeName
        BY <3>1, <4>1 DEF BeforeName
      <4> QED
        BY <4>3, <4>5, <4>6
    <3>3. CASE ~arrays[key[c]]
      <4>1. /\ stage' = [stage EXCEPT ![c] = "deleted"]
            /\ pc' = [pc EXCEPT ![w] = Idle]
            /\ UNCHANGED <<registry, consumers>>
        BY <2>2, <3>3 DEF Activate, Goto, Delete
      <4>2. \A d \in Clients : d # c /\ Unnamed(d) => Unnamed(d)'
        BY <4>1 DEF Unnamed
      <4> QED
        BY <1>1, <3>1, <4>1, <4>2 DEF BeforeName, IInv, TypeOK
    <3> QED
      BY <3>2, <3>3
  <2> QED
    BY <2>1, <2>2
<1>3. ASSUME NEW v \in Workers, pc'[v].at \in BeforeName
      PROVE  Unnamed(pc[v].role)'
  <2>1. v # w /\ pc'[v] = pc[v]
    BY <1>2, <1>3 DEF IInv, TypeOK
  <2>2. pc[v].at \in Handshake
    BY <1>3, <2>1 DEF BeforeName, Handshake, PubHandshake, PlayHandshake
  <2>3. pc[v].role # c /\ pc[v].role \in Clients
    BY <1>1, <2>1, <2>2 DEF IInv, HandshakeInv, Handshake, Clients
  <2>4. Unnamed(pc[v].role)
    BY <1>3, <2>1 DEF NameInv
  <2> DEFINE d == pc[v].role
  <2>5. d \in Clients /\ d # c /\ Unnamed(d)
    BY <2>3, <2>4
  <2> HIDE DEF d
  <2>6. d \notin consumers' /\ \A s \in Streams : registry'[s] # d
    BY <1>2, <2>5 DEF Unnamed
  <2> QED
    BY <2>1, <2>6 DEF Unnamed, d
<1>4. \A d \in Clients : stage'[d] = "new" => Unnamed(d)'
  BY <1>1, <1>2 DEF NameInv
<1>5. Unnamed(c)
  BY <1>1 DEF NameInv
<1>6. Traceless
  BY <1>2, <1>5 DEF Traceless, Unnamed
<1> QED
  BY <1>3, <1>4, <1>6 DEF NameInv

(* The steps that end a held role take its names back first.               *)
LEMMA ReapedNames ==
    ASSUME IInv, NameInv, NEW w \in Workers,
           ReapPublisher(w) \/ \E c \in Clients : ReapPlayer(w, c)
    PROVE  NameInv' /\ Traceless
<1> USE RolesAssumption
<1>1. PICK c \in Clients :
        /\ \A d \in Clients : Unnamed(d) => Unnamed(d)'
        /\ Unnamed(c)'
        /\ stage' = [stage EXCEPT ![c] = "deleted"]
        /\ pc' = [pc EXCEPT ![w] = Done(w, c)]
  <2>1. ASSUME NEW c \in Clients, ReapPlayer(w, c)
        PROVE  /\ \A d \in Clients : Unnamed(d) => Unnamed(d)'
               /\ Unnamed(c)'
               /\ stage' = [stage EXCEPT ![c] = "deleted"]
               /\ pc' = [pc EXCEPT ![w] = Done(w, c)]
    <3>1. /\ consumers' = consumers \ {c} /\ registry' = registry /\ c \in Players
          /\ stage' = [stage EXCEPT ![c] = "deleted"] /\ pc' = [pc EXCEPT ![w] = Done(w, c)]
      BY <2>1 DEF ReapPlayer, Unregistered, Delete, Goto
    <3>2. \A s \in Streams : registry[s] # c
      BY <3>1 DEF IInv, TypeOK, Roles, Clients
    <3> QED
      BY <3>1, <3>2 DEF Unnamed
  <2>2. CASE ReapPublisher(w)
    <3> DEFINE c == pc[w].role
    <3>1. c \in Publishers /\ c \in Clients /\ c # NoRole /\ c \notin consumers
      BY <2>2 DEF ReapPublisher, IInv, ReapInv, TypeOK, Roles, Clients
    <3>2. /\ registry' = [s \in Streams |-> IF registry[s] = c THEN NoRole ELSE registry[s]]
          /\ consumers' = consumers
          /\ stage' = [stage EXCEPT ![c] = "deleted"] /\ pc' = [pc EXCEPT ![w] = Done(w, c)]
      BY <2>2 DEF ReapPublisher, Without, Delete, Goto
    <3>3. \A d \in Clients : d # NoRole
      BY DEF Roles
    <3> HIDE DEF c
    <3>4. \A d \in Clients : Unnamed(d) => Unnamed(d)'
      BY <3>2, <3>3 DEF Unnamed
    <3>5. c \notin consumers' /\ \A s \in Streams : registry'[s] # c
      BY <3>1, <3>2
    <3>6. /\ \A d \in Clients : Unnamed(d) => Unnamed(d)'
          /\ c \notin consumers' /\ \A s \in Streams : registry'[s] # c
          /\ stage' = [stage EXCEPT ![c] = "deleted"] /\ pc' = [pc EXCEPT ![w] = Done(w, c)]
      BY <3>2, <3>4, <3>5
    <3>7. \E d \in Clients :
            /\ \A e \in Clients : Unnamed(e) => Unnamed(e)'
            /\ d \notin consumers' /\ \A s \in Streams : registry'[s] # d
            /\ stage' = [stage EXCEPT ![d] = "deleted"] /\ pc' = [pc EXCEPT ![w] = Done(w, d)]
      BY <3>1, <3>6
    <3> QED
      BY <3>7 DEF Unnamed
  <2> QED
    BY <2>1, <2>2
<1>2. Done(w, c).at = "reap"
  BY DoneFields DEF IInv, TypeOK
<1>3. \A v \in Workers : pc'[v] = pc[v] \/ pc'[v].at \notin BeforeName
  BY <1>1, <1>2 DEF IInv, TypeOK, BeforeName
<1>4. ASSUME NEW v \in Workers, pc'[v].at \in BeforeName
      PROVE  Unnamed(pc[v].role)'
  <2>1. pc'[v] = pc[v] /\ pc[v].role \in Clients /\ Unnamed(pc[v].role)
    BY <1>3, <1>4 DEF NameInv, BeforeName, IInv, HandshakeInv, PubHandshake, PlayHandshake, Clients
  <2> DEFINE d == pc[v].role
  <2>2. d \in Clients /\ Unnamed(d)
    BY <2>1
  <2> HIDE DEF d
  <2>3. d \notin consumers' /\ \A s \in Streams : registry'[s] # d
    BY <1>1, <2>2 DEF Unnamed
  <2> QED
    BY <2>1, <2>3 DEF Unnamed, d
<1>5. /\ \A d \in Clients \ {c} : stage'[d] = stage[d]
      /\ stage'[c] = "deleted"
  BY <1>1 DEF IInv, TypeOK
<1> QED
  BY <1>1, <1>4, <1>5 DEF NameInv, Traceless

(* The role that epoll refuses was in the list, and the other steps delete *)
(* nobody.                                                                 *)
LEMMA NextNames ==
    ASSUME IInv, NameInv, [Next]_vars
    PROVE  NameInv' /\ Traceless
<1>1. ASSUME NEW w \in Workers,
             \/ Push(w) \/ StartReap(w) \/ TakeNone(w) \/ TakeNew(w)
             \/ \E c \in Clients : KeepRole(w, c) \/ DropArray(w, c)
      PROVE  NameInv' /\ Traceless
  <2> DEFINE Late(p) == pc' = [pc EXCEPT ![w] = p] /\ p.at \notin BeforeName
  <2>1. ASSUME Push(w) \/ TakeNone(w) \/ TakeNew(w)
        PROVE  \E p : Late(p)
    <3>1. Late(Idle)
      BY <2>1, IdleFields DEF Push, TakeNone, TakeNew, Goto, BeforeName
    <3> QED
      BY <3>1
  <2>2. ASSUME StartReap(w)
        PROVE  \E p : Late(p)
    <3> DEFINE p == [Idle EXCEPT !.at = "reap", !.todo = group[w] \cap Clients]
    <3>1. p.at = "reap" /\ pc' = [pc EXCEPT ![w] = p]
      BY <2>2 DEF Idle, StartReap, Goto
    <3> HIDE DEF p
    <3>2. Late(p)
      BY <3>1 DEF BeforeName
    <3> QED
      BY <3>2
  <2>3. ASSUME NEW c \in Clients, KeepRole(w, c) \/ DropArray(w, c)
        PROVE  \E p : Late(p)
    <3> DEFINE p == [pc[w] EXCEPT !.at = "dropped", !.role = c]
    <3>1. p.at = "dropped" /\ Done(w, c).at = "reap"
      BY DoneFields DEF IInv, TypeOK, Locals
    <3>2. pc' = [pc EXCEPT ![w] = p] \/ pc' = [pc EXCEPT ![w] = Done(w, c)]
      BY <2>3 DEF KeepRole, DropArray, Goto
    <3> HIDE DEF p
    <3>3. Late(p) \/ Late(Done(w, c))
      BY <3>1, <3>2 DEF BeforeName
    <3> QED
      BY <3>3
  <2>4. \E p : Late(p)
    BY <1>1, <2>1, <2>2, <2>3
  <2>5. /\ UNCHANGED <<registry, consumers>>
        /\ \/ stage' = stage
           \/ \E c : stage' = [stage EXCEPT ![c] = "queued"]
           \/ \E r : stage' = [c \in Clients |-> IF c = r THEN "held" ELSE stage[c]]
    <3>1. CASE Push(w)
      BY <3>1 DEF Push
    <3>2. CASE TakeNew(w)
      <4> DEFINE q == Head(list)
      <4>1. /\ UNCHANGED <<registry, consumers>>
            /\ stage' = [c \in Clients |-> IF c = q THEN "held" ELSE stage[c]]
        BY <3>2 DEF TakeNew
      <4> HIDE DEF q
      <4> QED
        BY <4>1
    <3>3. CASE StartReap(w) \/ TakeNone(w) \/ \E c \in Clients : KeepRole(w, c) \/ DropArray(w, c)
      <4>1. UNCHANGED <<registry, consumers, stage>>
        BY <3>3 DEF StartReap, TakeNone, KeepRole, DropArray, sharedVars, clientVars
      <4> QED
        BY <4>1
    <3> QED
      BY <1>1, <3>1, <3>2, <3>3
  <2>6. \A c \in Clients : /\ stage'[c] = "new" => stage[c] = "new"
                           /\ stage'[c] = "deleted" => stage[c] = "deleted"
    BY <2>5 DEF IInv, TypeOK
  <2> QED
    BY <1>1, <2>4, <2>5, <2>6, QuietNames
<1>2. ASSUME NEW w \in Workers, TakeFails(w)
      PROVE  NameInv' /\ Traceless
  <2>1. /\ UNCHANGED <<registry, consumers>>
        /\ stage' = [stage EXCEPT ![Head(list)] = "deleted"]
        /\ pc' = [pc EXCEPT ![w] = Idle]
        /\ list # <<>> /\ Head(list) \in Clients
    BY <1>2 DEF TakeFails, Delete, Goto
  <2>2. stage[Head(list)] = "queued"
    <3>1. Head(list) = list[1] /\ 1 \in DOMAIN list
      BY <2>1 DEF IInv, TypeOK
    <3> QED
      BY <2>1, <3>1 DEF IInv, StageInv
  <2>3. \A c \in Clients : /\ stage'[c] = "new" => stage[c] = "new"
                           /\ stage'[c] = "deleted" => stage[c] \in {"deleted", "queued"}
    BY <2>1, <2>2 DEF IInv, TypeOK
  <2>4. \E p : pc' = [pc EXCEPT ![w] = p] /\ p.at \notin BeforeName
    BY <2>1, IdleFields DEF BeforeName
  <2> QED
    BY <1>2, <2>1, <2>3, <2>4, QuietNames
<1>3. ASSUME pc' = pc, stage' = stage, UNCHANGED <<registry, consumers>>
      PROVE  NameInv' /\ Traceless
  BY <1>3, QuietNames
<1>4. CASE UNCHANGED vars
  BY <1>3, <1>4 DEF vars, clientVars, sharedVars
<1>5. CASE \E c \in Clients : Break(c) \/ Elapse(c)
  BY <1>3, <1>5 DEF Break, Elapse, sharedVars
<1>6. ASSUME NEW w \in Workers, NEW c \in Clients, HandlePublisher(w, c) \/ HandlePlayer(w, c)
      PROVE  NameInv' /\ Traceless
  BY <1>3, <1>6 DEF HandlePublisher, HandlePlayer, sharedVars
<1>7. ASSUME NEW w \in Workers, Progress(w)
      PROVE  NameInv' /\ Traceless
  <2>1. CASE AddArray(w)
    BY <1>7, <2>1, AddArrayNames
  <2>2. CASE Register(w) \/ Activate(w)
    BY <1>7, <2>2, GivenNames
  <2>3. CASE ReapPublisher(w) \/ \E c \in Clients : ReapPlayer(w, c)
    BY <1>7, <2>3, ReapedNames
  <2> QED
    BY <1>1, <1>2, <1>7, <2>1, <2>2, <2>3 DEF Progress
<1>8. ASSUME NEW w \in Workers, NEW s \in Streams, NEW c \in Publishers, AcceptPublisher(w, c, s)
      PROVE  NameInv' /\ Traceless
  BY <1>8, AcceptNames DEF Clients
<1>9. ASSUME NEW w \in Workers, NEW s \in Streams, NEW c \in Players, AcceptPlayer(w, c, s)
      PROVE  NameInv' /\ Traceless
  BY <1>9, AcceptNames DEF Clients
<1> QED
  BY <1>4, <1>5, <1>6, <1>7, <1>8, <1>9 DEF Next

LEMMA NameInvariance == Spec => [](IInv /\ NameInv)
<1>1. Init => NameInv
  <2> SUFFICES ASSUME Init PROVE NameInv
    OBVIOUS
  <2>1. \A c \in Clients : Unnamed(c)
    BY RolesAssumption DEF Init, Unnamed, Roles
  <2>2. \A w \in Workers : pc[w].at \notin BeforeName
    BY IdleFields DEF Init, BeforeName
  <2> QED
    BY <2>1, <2>2 DEF NameInv
<1>2. IInv /\ NameInv /\ [Next]_vars => NameInv'
  BY NextNames
<1> QED
  BY <1>1, <1>2, Invariance, PTL DEF Spec

(* A role that its group, the loss of the race or a refusal deletes is     *)
(* left neither in CSLSMapPublisher nor in the active consumers, for every *)
(* interleaving of the listeners and the groups.                           *)
THEOREM LeavesNoTraceAlways == Spec => LeavesNoTrace
<1>1. IInv /\ NameInv /\ [Next]_vars =>
        [\A c \in Clients :
           stage[c] # "queued" /\ stage'[c] = "deleted" /\ stage[c] # "deleted"
              => c \notin consumers' /\ \A s \in Streams : registry'[s] # c]_vars
  BY NextNames DEF Traceless, Unnamed
<1> QED
  BY <1>1, NameInvariance, PTL DEF Spec, LeavesNoTrace

(* Only a role in its handshake is entered in the registry.                *)
LEMMA NamedInHandshake ==
    ASSUME IInv, [Next]_vars, NEW s \in Streams, registry'[s] # registry[s], registry'[s] # NoRole
    PROVE  registry'[s] \in Clients /\ stage[registry'[s]] = "accepted" /\ stage' = stage
<1>1. CASE \E w \in Workers : Register(w)
  <2> PICK w \in Workers : Register(w)
    BY <1>1
  <2> DEFINE c == pc[w].role
  <2>1. c \in Clients /\ stage[c] = "accepted"
    BY DEF Register, IInv, HandshakeInv, PubHandshake, Handshake, Clients
  <2>2. registry' = [registry EXCEPT ![key[c]] = c] /\ stage' = stage
    BY DEF Register
  <2>3. registry'[s] = c
    BY <2>2 DEF IInv, TypeOK
  <2> QED
    BY <2>1, <2>2, <2>3
<1>2. CASE \E w \in Workers : ReapPublisher(w)
  BY <1>2 DEF ReapPublisher, Without, IInv, TypeOK
<1>3. ASSUME NEW w \in Workers, NEW c \in Clients, NEW q \in Streams,
             AcceptPublisher(w, c, q) \/ AcceptPlayer(w, c, q)
      PROVE  registry' = registry
  BY <1>3 DEF AcceptPublisher, AcceptPlayer, sharedVars
<1>4. ASSUME NEW w \in Workers, NEW c \in Clients, HandlePublisher(w, c) \/ HandlePlayer(w, c)
      PROVE  registry' = registry
  BY <1>4 DEF HandlePublisher, HandlePlayer, sharedVars
<1>5. ASSUME NEW c \in Clients, Break(c) \/ Elapse(c)
      PROVE  registry' = registry
  BY <1>5 DEF Break, Elapse, sharedVars
<1>6. ASSUME NEW w \in Workers, Progress(w)
      PROVE  Register(w) \/ ReapPublisher(w) \/ registry' = registry
  <2>1. CASE AddArray(w) \/ Activate(w) \/ Push(w) \/ StartReap(w) \/ TakeNone(w) \/ TakeNew(w) \/ TakeFails(w)
    BY <2>1 DEF AddArray, Activate, Push, StartReap, TakeNone, TakeNew, TakeFails, sharedVars
  <2>2. CASE \E c \in Clients : KeepRole(w, c) \/ ReapPlayer(w, c) \/ DropArray(w, c)
    BY <2>2 DEF KeepRole, ReapPlayer, DropArray, sharedVars
  <2> QED
    BY <1>6, <2>1, <2>2 DEF Progress
<1>7. registry' # registry
  OBVIOUS
<1>8. ~UNCHANGED vars
  BY <1>7 DEF vars, sharedVars
<1> QED
  BY <1>1, <1>2, <1>3, <1>4, <1>5, <1>6, <1>7, <1>8 DEF Next, Clients

(* With an epoll that takes every socket the list loses no role.           *)
LEMMA QueuedLives ==
    ASSUME IInv, ~EpollMayFail, [Next]_vars, NEW c \in Clients, stage[c] = "queued"
    PROVE  stage'[c] # "deleted"
<1>1. ASSUME NEW d, stage' = [stage EXCEPT ![d] = "deleted"], stage[d] # "queued"
      PROVE  stage'[c] # "deleted"
  BY <1>1 DEF IInv, TypeOK
<1>2. ASSUME NEW d, NEW new, new # "deleted", stage' = [stage EXCEPT ![d] = new]
      PROVE  stage'[c] # "deleted"
  BY <1>2 DEF IInv, TypeOK
<1>3. ASSUME stage' = stage
      PROVE  stage'[c] # "deleted"
  BY <1>3
<1>4. ASSUME NEW w \in Workers, NEW d \in Clients, NEW s \in Streams,
             AcceptPublisher(w, d, s) \/ AcceptPlayer(w, d, s)
      PROVE  stage'[c] # "deleted"
  BY <1>1, <1>2, <1>4 DEF AcceptPublisher, AcceptPlayer, Delete
<1>5. ASSUME NEW w \in Workers, Register(w) \/ Activate(w)
      PROVE  stage'[c] # "deleted"
  <2>1. stage[pc[w].role] = "accepted"
    BY <1>5 DEF Register, Activate, IInv, HandshakeInv, PubHandshake, PlayHandshake, Handshake
  <2>2. stage' = stage \/ stage' = [stage EXCEPT ![pc[w].role] = "deleted"]
    BY <1>5 DEF Register, Activate, Delete
  <2> QED
    BY <1>1, <1>3, <2>1, <2>2
<1>6. ASSUME NEW w \in Workers, ReapPublisher(w)
      PROVE  stage'[c] # "deleted"
  <2>1. stage[pc[w].role] = "held"
    BY <1>6 DEF ReapPublisher, IInv, ReapInv, StageInv, Clients
  <2>2. stage' = [stage EXCEPT ![pc[w].role] = "deleted"]
    BY <1>6 DEF ReapPublisher, Delete
  <2> QED
    BY <1>1, <2>1, <2>2
<1>7. ASSUME NEW w \in Workers, NEW d \in Clients, ReapPlayer(w, d)
      PROVE  stage'[c] # "deleted"
  <2>1. stage[d] = "held"
    BY <1>7 DEF ReapPlayer, IInv, ReapInv, StageInv
  <2>2. stage' = [stage EXCEPT ![d] = "deleted"]
    BY <1>7 DEF ReapPlayer, Delete
  <2> QED
    BY <1>1, <2>1, <2>2
<1>8. ASSUME NEW w \in Workers, Push(w)
      PROVE  stage'[c] # "deleted"
  BY <1>2, <1>8 DEF Push
<1>9. ASSUME NEW w \in Workers, TakeNew(w)
      PROVE  stage'[c] # "deleted"
  BY <1>9 DEF TakeNew
<1>10. ASSUME NEW w \in Workers, TakeFails(w)
       PROVE  stage'[c] # "deleted"
  BY <1>10 DEF TakeFails
<1>11. ASSUME NEW w \in Workers, NEW d \in Clients,
              \/ AddArray(w) \/ StartReap(w) \/ KeepRole(w, d) \/ DropArray(w, d) \/ TakeNone(w)
              \/ HandlePublisher(w, d) \/ HandlePlayer(w, d) \/ Break(d) \/ Elapse(d)
       PROVE  stage'[c] # "deleted"
  BY <1>3, <1>11
     DEF AddArray, StartReap, KeepRole, DropArray, TakeNone, HandlePublisher, HandlePlayer, Break,
         Elapse, clientVars
<1>12. ASSUME NEW d \in Clients, Break(d) \/ Elapse(d)
       PROVE  stage'[c] # "deleted"
  BY <1>3, <1>12 DEF Break, Elapse
<1>13. CASE UNCHANGED vars
  BY <1>3, <1>13 DEF vars, clientVars
<1>14. ASSUME NEW w \in Workers, Progress(w)
       PROVE  stage'[c] # "deleted"
  BY <1>5, <1>6, <1>7, <1>8, <1>9, <1>10, <1>11, <1>14 DEF Progress
<1> QED
  BY <1>4, <1>11, <1>12, <1>13, <1>14 DEF Next, Clients

(* With an epoll that never refuses a socket no deleted publisher is ever  *)
(* named by the registry: the early delete in check_new_role is the only   *)
(* way to the stale pointer.                                               *)
THEOREM RegisteredLives == ASSUME ~EpollMayFail PROVE Spec => []RegisteredIsAlive
<1>1. Init => RegisteredIsAlive
  BY DEF Init, RegisteredIsAlive
<1>2. IInv /\ NameInv /\ RegisteredIsAlive /\ [Next]_vars => RegisteredIsAlive'
  <2> SUFFICES ASSUME IInv, NameInv, RegisteredIsAlive, [Next]_vars,
                      NEW s \in Streams, NEW c, c = registry'[s], c # NoRole, stage'[c] = "deleted"
               PROVE  FALSE
    BY DEF RegisteredIsAlive
  <2>1. c \in Clients
    BY NextIInv DEF IInv, TypeOK, Clients
  <2>2. stage[c] \in {"deleted", "queued"}
    BY <2>1, NextNames DEF Traceless, Unnamed
  <2>3. stage[c] # "queued"
    BY <2>1, QueuedLives
  <2>4. c # registry[s]
    BY <2>2, <2>3 DEF RegisteredIsAlive
  <2> QED
    BY <2>2, <2>3, <2>4, NamedInHandshake
<1> QED
  BY <1>1, <1>2, NameInvariance, PTL DEF Spec
-----------------------------------------------------------------------------
(* One publisher listener.  An array without a publisher belongs to one    *)
(* that is just being entered, between add and set_push_2_pushlisher.      *)
NoOrphan ==
    \A s \in Streams : arrays[s] /\ registry[s] = NoRole =>
        \E w \in Workers : pc[w].at = "added" /\ key[pc[w].role] = s

BeforeEntry == {"checked", "added"}

(* What its handler has seen of the registry is still so at the entry, and *)
(* the array a publisher has dropped is not there again before it is out   *)
(* of the registry.                                                        *)
SoleInv ==
    /\ \A s \in Streams : registry[s] # NoRole => key[registry[s]] = s
    /\ \A w \in Workers :
         /\ pc[w].at \in BeforeEntry =>
              group[w] \cap PubListeners # {} /\ registry[key[pc[w].role]] = NoRole
         /\ pc[w].at = "dropped" => ~arrays[key[pc[w].role]]
    /\ NoOrphan

(* The listener is in one group, so one worker runs its handler.           *)
LEMMA OneHandler ==
    ASSUME IInv, \A l, m \in PubListeners : l = m, NEW w \in Workers, NEW v \in Workers,
           group[w] \cap PubListeners # {}, group[v] \cap PubListeners # {}
    PROVE  v = w
BY DEF IInv, OneOwner

(* Most steps touch neither a name nor an array, and no worker is in the   *)
(* middle of either in them.                                               *)
LEMMA QuietSole ==
    ASSUME IInv, SoleInv, UNCHANGED <<key, registry, arrays>>,
           \A v \in Workers : group[v] \cap PubListeners \subseteq group'[v],
           \A v \in Workers :
               \/ pc'[v] = pc[v]
               \/ pc[v].at # "added" /\ pc'[v].at \notin BeforeEntry \cup {"dropped"}
    PROVE  SoleInv'
<1>1. \A v \in Workers : pc'[v].at \in BeforeEntry \cup {"dropped"} => pc'[v] = pc[v]
  OBVIOUS
<1>2. \A w \in Workers :
         /\ pc'[w].at \in BeforeEntry =>
              group'[w] \cap PubListeners # {} /\ registry'[key'[pc'[w].role]] = NoRole
         /\ pc'[w].at = "dropped" => ~arrays'[key'[pc'[w].role]]
  BY <1>1 DEF SoleInv
<1>3. \A v \in Workers : pc[v].at = "added" => pc'[v] = pc[v]
  OBVIOUS
<1>4. NoOrphan'
  BY <1>3 DEF SoleInv, NoOrphan
<1> QED
  BY <1>2, <1>4 DEF SoleInv

(* A client that is accepted gets the name of its stream, nobody's yet.    *)
LEMMA AcceptSole ==
    ASSUME IInv, NameInv, SoleInv, NEW w \in Workers, NEW c \in Clients, NEW s \in Streams,
           AcceptPublisher(w, c, s) \/ AcceptPlayer(w, c, s)
    PROVE  SoleInv'
<1>1. /\ stage[c] = "new" /\ key' = [key EXCEPT ![c] = s] /\ pc[w].at = "events"
      /\ UNCHANGED <<registry, arrays, group>>
  BY DEF AcceptPublisher, AcceptPlayer, sharedVars
<1>2. \A d : d # c => key'[d] = key[d]
  BY <1>1 DEF IInv, TypeOK
<1>3. \A q \in Streams : registry[q] # c
  BY <1>1 DEF NameInv, Unnamed
<1>4. \A v \in Workers : pc[v].at \in BeforeEntry \cup {"dropped"} => pc[v].role # c
  <2>1. \A v \in Workers : pc[v].at \in BeforeEntry => stage[pc[v].role] = "accepted"
    BY DEF IInv, HandshakeInv, Handshake, PubHandshake, BeforeEntry
  <2>2. \A v \in Workers : pc[v].at = "dropped" => stage[pc[v].role] = "held"
    BY DEF IInv, ReapInv, StageInv, Clients
  <2> QED
    BY <1>1, <2>1, <2>2
<1>5. key'[c] = s
  BY <1>1 DEF IInv, TypeOK
<1>6. \/ pc' = pc
      \/ \E p : pc' = [pc EXCEPT ![w] = p] /\ p.at = "found"
      \/ /\ pc' = [pc EXCEPT ![w] = At("checked", c)] /\ registry[s] = NoRole
         /\ group[w] \cap PubListeners # {}
  <2>1. CASE AcceptPublisher(w, c, s)
    BY <2>1 DEF AcceptPublisher, Goto
  <2>2. CASE AcceptPlayer(w, c, s)
    <3> DEFINE p == [At("found", c) EXCEPT !.pub = registry[s]]
    <3>1. p.at = "found"
      BY DEF At, Idle
    <3>2. pc' = pc \/ pc' = [pc EXCEPT ![w] = p]
      BY <2>2 DEF AcceptPlayer, Goto
    <3> HIDE DEF p
    <3> QED
      BY <3>1, <3>2
  <2> QED
    BY <2>1, <2>2
<1>7. At("checked", c).at = "checked" /\ At("checked", c).role = c
  BY DEF At, Idle
<1>8. \A v \in Workers :
        \/ pc'[v] = pc[v] \/ pc'[v].at = "found"
        \/ /\ pc'[v].at = "checked" /\ pc'[v].role = c /\ registry[s] = NoRole
           /\ group[v] \cap PubListeners # {}
  BY <1>6, <1>7 DEF IInv, TypeOK
<1>9. \A v \in Workers : pc[v].at = "added" => pc'[v] = pc[v]
  BY <1>1, <1>6 DEF IInv, TypeOK
<1>10. \A q \in Streams : registry'[q] # NoRole => key'[registry'[q]] = q
  BY <1>1, <1>2, <1>3 DEF SoleInv
<1>11. \A v \in Workers :
         /\ pc'[v].at \in BeforeEntry =>
              group'[v] \cap PubListeners # {} /\ registry'[key'[pc'[v].role]] = NoRole
         /\ pc'[v].at = "dropped" => ~arrays'[key'[pc'[v].role]]
  <2> SUFFICES ASSUME NEW v \in Workers
               PROVE  <1>11!(v)
    OBVIOUS
  <2>1. CASE pc'[v] = pc[v]
    BY <1>1, <1>2, <1>4, <2>1 DEF SoleInv
  <2>2. CASE pc'[v].at = "found"
    BY <2>2 DEF BeforeEntry
  <2>3. CASE pc'[v].at = "checked" /\ pc'[v].role = c /\ registry[s] = NoRole
             /\ group[v] \cap PubListeners # {}
    BY <1>1, <1>5, <2>3
  <2> QED
    BY <1>8, <2>1, <2>2, <2>3
<1>12. NoOrphan'
  BY <1>1, <1>2, <1>4, <1>9 DEF SoleInv, NoOrphan, BeforeEntry
<1> QED
  BY <1>10, <1>11, <1>12 DEF SoleInv

(* add: whoever drops an array meanwhile is still the registered one of    *)
(* its stream, and this stream has none.                                   *)
LEMMA AddArraySole ==
    ASSUME IInv, SoleInv, NEW w \in Workers, AddArray(w)
    PROVE  SoleInv'
<1> DEFINE c == pc[w].role
<1>1. /\ pc[w].at = "checked" /\ c \in Publishers
      /\ group[w] \cap PubListeners # {} /\ registry[key[c]] = NoRole
  BY DEF AddArray, IInv, HandshakeInv, PubHandshake, SoleInv, BeforeEntry
<1>2. /\ arrays' = [arrays EXCEPT ![key[c]] = TRUE]
      /\ pc' = [pc EXCEPT ![w] = At("added", c)]
      /\ UNCHANGED <<key, registry, group>>
  BY DEF AddArray, Goto, clientVars
<1>3. At("added", c).at = "added" /\ At("added", c).role = c
  BY DEF At, Idle
<1> HIDE DEF c
<1>4. pc'[w].at = "added" /\ pc'[w].role = c /\ \A v \in Workers : v # w => pc'[v] = pc[v]
  BY <1>2, <1>3 DEF IInv, TypeOK
<1>5. \A s \in Streams : arrays'[s] => arrays[s] \/ s = key[c]
  BY <1>2 DEF IInv, TypeOK
<1>6. ASSUME NEW v \in Workers, v # w, pc[v].at = "dropped"
      PROVE  ~arrays'[key[pc[v].role]]
  <2> DEFINE d == pc[v].role
  <2>1. d \in Publishers /\ stage[d] = "held" /\ ~arrays[key[d]]
    BY <1>6 DEF IInv, ReapInv, StageInv, SoleInv, Clients
  <2>2. registry[key[d]] = d /\ key[d] \in Streams
    BY <2>1 DEF IInv, OneSource, StageInv, Clients
  <2>3. key[d] # key[c]
    BY <1>1, <2>1, <2>2, RolesAssumption DEF Roles, Clients
  <2> QED
    BY <1>5, <2>1, <2>2, <2>3
<1>7. \A v \in Workers :
         /\ pc'[v].at \in BeforeEntry =>
              group'[v] \cap PubListeners # {} /\ registry'[key'[pc'[v].role]] = NoRole
         /\ pc'[v].at = "dropped" => ~arrays'[key'[pc'[v].role]]
  <2> SUFFICES ASSUME NEW v \in Workers
               PROVE  <1>7!(v)
    OBVIOUS
  <2>1. CASE v = w
    BY <1>1, <1>2, <1>4, <2>1
  <2>2. CASE v # w
    BY <1>2, <1>4, <1>6, <2>2 DEF SoleInv
  <2> QED
    BY <2>1, <2>2
<1>8. NoOrphan'
  <2> SUFFICES ASSUME NEW s \in Streams, arrays'[s], registry[s] = NoRole
               PROVE  \E v \in Workers : pc'[v].at = "added" /\ key[pc'[v].role] = s
    BY <1>2 DEF NoOrphan
  <2>1. CASE s = key[c]
    BY <1>4, <2>1
  <2>2. CASE s # key[c]
    <3>1. PICK v \in Workers : pc[v].at = "added" /\ key[pc[v].role] = s
      BY <1>5, <2>2 DEF SoleInv, NoOrphan
    <3> QED
      BY <1>1, <1>4, <3>1
  <2> QED
    BY <2>1, <2>2
<1> QED
  BY <1>2, <1>7, <1>8 DEF SoleInv

(* set_push_2_pushlisher finds the name free: nobody else could take it.   *)
LEMMA RegisterSole ==
    ASSUME IInv, SoleInv, \A l, m \in PubListeners : l = m, NEW w \in Workers, Register(w)
    PROVE  SoleInv'
<1> DEFINE c == pc[w].role
<1>1. /\ pc[w].at = "added" /\ c \in Publishers /\ stage[c] = "accepted"
      /\ group[w] \cap PubListeners # {} /\ registry[key[c]] = NoRole
  BY DEF Register, IInv, HandshakeInv, PubHandshake, Handshake, SoleInv, BeforeEntry
<1>2. /\ registry' = [registry EXCEPT ![key[c]] = c]
      /\ pc' = [pc EXCEPT ![w] = At("registered", c)]
      /\ UNCHANGED <<key, arrays, group>>
  BY <1>1 DEF Register, Goto, Free
<1>3. At("registered", c).at = "registered"
  BY DEF At, Idle
<1> HIDE DEF c
<1>4. pc'[w].at = "registered" /\ \A v \in Workers : v # w => pc'[v] = pc[v]
  BY <1>2, <1>3 DEF IInv, TypeOK
<1>5. key[c] \in Streams /\ c # NoRole
  BY <1>1, RolesAssumption DEF IInv, StageInv, Clients, Roles
<1>6. \A s \in Streams : registry'[s] = IF s = key[c] THEN c ELSE registry[s]
  BY <1>2 DEF IInv, TypeOK
<1>7. \A v \in Workers : v # w => pc[v].at \notin BeforeEntry
  BY <1>1, OneHandler DEF SoleInv
<1>8. \A v \in Workers :
         pc'[v].at \notin BeforeEntry /\ (pc'[v].at = "dropped" => ~arrays'[key'[pc'[v].role]])
  BY <1>2, <1>4, <1>7 DEF SoleInv, BeforeEntry
<1>9. NoOrphan'
  <2> SUFFICES ASSUME NEW s \in Streams, arrays[s], registry'[s] = NoRole
               PROVE  FALSE
    BY <1>2 DEF NoOrphan
  <2>1. s # key[c] /\ registry[s] = NoRole
    BY <1>5, <1>6
  <2>2. PICK v \in Workers : pc[v].at = "added" /\ key[pc[v].role] = s
    BY <2>1 DEF SoleInv, NoOrphan
  <2>3. v = w
    BY <1>7, <2>2 DEF BeforeEntry
  <2> QED
    BY <2>1, <2>2, <2>3 DEF c
<1>10. \A s \in Streams : registry'[s] # NoRole => key'[registry'[s]] = s
  BY <1>2, <1>6 DEF SoleInv
<1> QED
  BY <1>8, <1>9, <1>10 DEF SoleInv

(* remove, when the array is gone already.                                 *)
LEMMA ReapPublisherSole ==
    ASSUME IInv, SoleInv, NEW w \in Workers, ReapPublisher(w)
    PROVE  SoleInv'
<1> DEFINE c == pc[w].role
<1>1. /\ pc[w].at = "dropped" /\ c \in Publishers /\ ~arrays[key[c]] /\ c # NoRole
  BY RolesAssumption DEF ReapPublisher, IInv, ReapInv, SoleInv, Clients, Roles
<1>2. /\ registry' = Without(c) /\ group' = [group EXCEPT ![w] = @ \ {c}]
      /\ pc' = [pc EXCEPT ![w] = Done(w, c)] /\ UNCHANGED <<key, arrays>>
  BY DEF ReapPublisher, Goto
<1>3. Done(w, c).at = "reap"
  BY DoneFields DEF IInv, TypeOK
<1> HIDE DEF c
<1>4. pc'[w].at = "reap" /\ \A v \in Workers : v # w => pc'[v] = pc[v]
  BY <1>2, <1>3 DEF IInv, TypeOK
<1>5. \A v \in Workers : v # w => group'[v] = group[v]
  BY <1>2 DEF IInv, TypeOK
<1>6. \A s \in Streams : registry'[s] = IF registry[s] = c THEN NoRole ELSE registry[s]
  BY <1>2 DEF Without
<1>7. \A v \in Workers :
         /\ pc'[v].at \in BeforeEntry =>
              group'[v] \cap PubListeners # {} /\ registry'[key'[pc'[v].role]] = NoRole
         /\ pc'[v].at = "dropped" => ~arrays'[key'[pc'[v].role]]
  <2> SUFFICES ASSUME NEW v \in Workers, v # w
               PROVE  <1>7!(v)
    BY <1>4 DEF BeforeEntry
  <2>1. pc[v].at \in BeforeEntry => key[pc[v].role] \in Streams
    BY DEF IInv, HandshakeInv, StageInv, BeforeEntry, PubHandshake, Handshake, Clients
  <2> QED
    BY <1>2, <1>4, <1>5, <1>6, <2>1 DEF SoleInv
<1>8. NoOrphan'
  <2> SUFFICES ASSUME NEW s \in Streams, arrays[s], registry'[s] = NoRole
               PROVE  \E v \in Workers : pc'[v].at = "added" /\ key[pc'[v].role] = s
    BY <1>2 DEF NoOrphan
  <2>1. registry[s] # c
    BY <1>1 DEF SoleInv
  <2>2. PICK v \in Workers : pc[v].at = "added" /\ key[pc[v].role] = s
    BY <1>6, <2>1 DEF SoleInv, NoOrphan
  <2> QED
    BY <1>1, <1>4, <2>2
<1>9. \A s \in Streams : registry'[s] # NoRole => key'[registry'[s]] = s
  BY <1>2, <1>6 DEF SoleInv
<1> QED
  BY <1>7, <1>8, <1>9 DEF SoleInv

(* The remaining steps of a group.                                         *)
LEMMA GroupSole ==
    ASSUME IInv, SoleInv, NEW w \in Workers,
           \/ Activate(w) \/ Push(w) \/ StartReap(w) \/ TakeNone(w) \/ TakeNew(w) \/ TakeFails(w)
           \/ \E c \in Clients : KeepRole(w, c) \/ ReapPlayer(w, c)
    PROVE  SoleInv'
<1>1. UNCHANGED <<key, registry, arrays>> /\ pc[w].at # "added"
  BY DEF Activate, Push, StartReap, TakeNone, TakeNew, TakeFails, KeepRole, ReapPlayer, ReapDone,
         clientVars, sharedVars
<1>2. \A v \in Workers : group[v] \cap PubListeners \subseteq group'[v]
  <2>1. CASE TakeNew(w)
    BY <2>1 DEF TakeNew, IInv, TypeOK
  <2>2. ASSUME NEW c \in Clients, ReapPlayer(w, c)
        PROVE  \A v \in Workers : group[v] \cap PubListeners \subseteq group'[v]
    <3>1. c \notin PubListeners
      BY RolesAssumption DEF Listeners
    <3> QED
      BY <2>2, <3>1 DEF ReapPlayer, IInv, TypeOK
  <2>3. CASE Activate(w) \/ Push(w) \/ StartReap(w) \/ TakeNone(w) \/ TakeFails(w)
             \/ \E c \in Clients : KeepRole(w, c)
    BY <2>3 DEF Activate, Push, StartReap, TakeNone, TakeFails, KeepRole
  <2> QED
    BY <2>1, <2>2, <2>3
<1>3. \E p : pc' = [pc EXCEPT ![w] = p] /\ p.at \notin BeforeEntry \cup {"dropped"}
  <2>1. CASE StartReap(w)
    <3> DEFINE p == [Idle EXCEPT !.at = "reap", !.todo = group[w] \cap Clients]
    <3>1. p.at = "reap" /\ pc' = [pc EXCEPT ![w] = p]
      BY <2>1 DEF StartReap, Goto, Idle
    <3> HIDE DEF p
    <3> QED
      BY <3>1 DEF BeforeEntry
  <2>2. ASSUME NEW c \in Clients, KeepRole(w, c) \/ ReapPlayer(w, c)
        PROVE  \E p : pc' = [pc EXCEPT ![w] = p] /\ p.at \notin BeforeEntry \cup {"dropped"}
    <3>1. Done(w, c).at = "reap" /\ pc' = [pc EXCEPT ![w] = Done(w, c)]
      BY <2>2, DoneFields DEF KeepRole, ReapPlayer, Goto, IInv, TypeOK
    <3> QED
      BY <3>1 DEF BeforeEntry
  <2>3. CASE Activate(w)
    <3> DEFINE p == [pc[w] EXCEPT !.at = "active"]
    <3>1. p.at = "active"
      BY DEF IInv, TypeOK, Locals
    <3>2. pc' = [pc EXCEPT ![w] = p] \/ pc' = [pc EXCEPT ![w] = Idle]
      BY <2>3 DEF Activate, Goto
    <3> HIDE DEF p
    <3> QED
      BY <3>1, <3>2, IdleFields DEF BeforeEntry
  <2>4. CASE Push(w) \/ TakeNone(w) \/ TakeNew(w) \/ TakeFails(w)
    BY <2>4, IdleFields DEF Push, TakeNone, TakeNew, TakeFails, Goto, BeforeEntry
  <2> QED
    BY <2>1, <2>2, <2>3, <2>4
<1>4. \A v \in Workers :
        \/ pc'[v] = pc[v]
        \/ pc[v].at # "added" /\ pc'[v].at \notin BeforeEntry \cup {"dropped"}
  BY <1>1, <1>3 DEF IInv, TypeOK
<1> QED
  BY <1>1, <1>2, <1>4, QuietSole

LEMMA DropArraySole ==
    ASSUME IInv, SoleInv, NEW w \in Workers, NEW c \in Clients, DropArray(w, c)
    PROVE  SoleInv'
<1> DEFINE p == [pc[w] EXCEPT !.at = "dropped", !.role = c]
<1>1. /\ pc[w].at = "reap" /\ arrays' = [arrays EXCEPT ![key[c]] = FALSE]
      /\ pc' = [pc EXCEPT ![w] = p] /\ UNCHANGED <<key, registry, group>>
  BY DEF DropArray, Goto
<1>2. p.at = "dropped" /\ p.role = c
  BY DEF IInv, TypeOK, Locals
<1> HIDE DEF p
<1>3. pc'[w].at = "dropped" /\ pc'[w].role = c /\ \A v \in Workers : v # w => pc'[v] = pc[v]
  BY <1>1, <1>2 DEF IInv, TypeOK
<1>4. key[c] \in Streams
  BY DEF DropArray, IInv, ReapInv, StageInv
<1>5. ~arrays'[key[c]] /\ \A s : s # key[c] => arrays'[s] = arrays[s]
  BY <1>1, <1>4 DEF IInv, TypeOK
<1>6. \A v \in Workers :
         /\ pc'[v].at \in BeforeEntry =>
              group'[v] \cap PubListeners # {} /\ registry'[key'[pc'[v].role]] = NoRole
         /\ pc'[v].at = "dropped" => ~arrays'[key'[pc'[v].role]]
  <2> SUFFICES ASSUME NEW v \in Workers
               PROVE  <1>6!(v)
    OBVIOUS
  <2>1. CASE v = w
    BY <1>1, <1>3, <1>5, <2>1 DEF BeforeEntry
  <2>2. CASE v # w
    BY <1>1, <1>3, <1>5, <2>2 DEF SoleInv
  <2> QED
    BY <2>1, <2>2
<1>7. NoOrphan'
  <2> SUFFICES ASSUME NEW s \in Streams, arrays'[s], registry[s] = NoRole
               PROVE  \E v \in Workers : pc'[v].at = "added" /\ key[pc'[v].role] = s
    BY <1>1 DEF NoOrphan
  <2>1. PICK v \in Workers : pc[v].at = "added" /\ key[pc[v].role] = s
    BY <1>5 DEF SoleInv, NoOrphan
  <2> QED
    BY <1>1, <1>3, <2>1
<1> QED
  BY <1>1, <1>6, <1>7 DEF SoleInv

LEMMA NextSole ==
    ASSUME IInv, NameInv, SoleInv, \A l, m \in PubListeners : l = m, [Next]_vars
    PROVE  SoleInv'
<1>1. ASSUME UNCHANGED <<key, registry, arrays, group, pc>>
      PROVE  SoleInv'
  BY <1>1, QuietSole
<1>2. CASE UNCHANGED vars
  BY <1>1, <1>2 DEF vars, clientVars, sharedVars
<1>3. ASSUME NEW c \in Clients, Break(c) \/ Elapse(c)
      PROVE  SoleInv'
  BY <1>1, <1>3 DEF Break, Elapse, sharedVars
<1>4. ASSUME NEW w \in Workers, NEW c \in Clients, HandlePublisher(w, c) \/ HandlePlayer(w, c)
      PROVE  SoleInv'
  BY <1>1, <1>4 DEF HandlePublisher, HandlePlayer, sharedVars
<1>5. ASSUME NEW w \in Workers, NEW s \in Streams, NEW c \in Clients,
             AcceptPublisher(w, c, s) \/ AcceptPlayer(w, c, s)
      PROVE  SoleInv'
  BY <1>5, AcceptSole
<1>6. ASSUME NEW w \in Workers, Progress(w)
      PROVE  SoleInv'
  <2>1. CASE AddArray(w) \/ Register(w) \/ ReapPublisher(w)
    BY <2>1, AddArraySole, RegisterSole, ReapPublisherSole
  <2>2. CASE \E c \in Clients : KeepRole(w, c) \/ ReapPlayer(w, c) \/ DropArray(w, c)
    BY <2>2, GroupSole, DropArraySole
  <2>3. CASE Activate(w) \/ Push(w) \/ StartReap(w) \/ TakeNone(w) \/ TakeNew(w) \/ TakeFails(w)
    BY <2>3, GroupSole
  <2> QED
    BY <1>6, <2>1, <2>2, <2>3 DEF Progress
<1> QED
  BY <1>2, <1>3, <1>4, <1>5, <1>6 DEF Next, Clients

(* What keeps an array: a publisher in its handshake, in the list or in a  *)
(* group, which the registry names; or one that is about to be named.      *)
Attended ==
    \A s \in Streams : arrays[s] =>
        \/ /\ registry[s] \in Publishers /\ key[registry[s]] = s
           /\ stage[registry[s]] \in {"accepted", "queued", "held"}
        \/ \E w \in Workers : pc[w].at = "added" /\ key[pc[w].role] = s

(* With one publisher listener and an epoll that never refuses a socket no *)
(* array is left without a publisher that lives and will take it along:    *)
(* the race of two listeners and the delete in check_new_role are the two  *)
(* ways to an array that outlasts its publishers and keeps its players     *)
(* from timing out.                                                        *)
THEOREM ArraysAreAttended ==
    ASSUME \A l, m \in PubListeners : l = m, ~EpollMayFail
    PROVE  Spec => []Attended
<1>1. Init => SoleInv
  BY IdleFields, RolesAssumption DEF Init, SoleInv, NoOrphan, BeforeEntry
<1>2. IInv /\ NameInv /\ SoleInv /\ [Next]_vars => SoleInv'
  BY NextSole
<1>3. Spec => []RegisteredIsAlive
  BY RegisteredLives
<1>4. IInv /\ NameInv /\ SoleInv /\ RegisteredIsAlive => Attended
  <2> SUFFICES ASSUME IInv, NameInv, SoleInv, RegisteredIsAlive,
                      NEW s \in Streams, arrays[s], registry[s] # NoRole
               PROVE  /\ registry[s] \in Publishers /\ key[registry[s]] = s
                      /\ stage[registry[s]] \in {"accepted", "queued", "held"}
    BY DEF Attended, SoleInv, NoOrphan
  <2>1. registry[s] \in Publishers /\ registry[s] \in Clients
    BY DEF IInv, TypeOK, Clients
  <2>2. key[registry[s]] = s
    BY DEF SoleInv
  <2>3. stage[registry[s]] \notin {"new", "deleted"}
    BY <2>1 DEF NameInv, Unnamed, RegisteredIsAlive
  <2> QED
    BY <2>1, <2>2, <2>3 DEF IInv, TypeOK
<1> QED
  BY <1>1, <1>2, <1>3, <1>4, NameInvariance, PTL DEF Spec
=============================================================================
