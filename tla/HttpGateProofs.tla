---------------------------- MODULE HttpGateProofs ----------------------------
(***************************************************************************)
(* The gate of a role, for every length of request and body and all status *)
(* codes: no stream data before a 200, a 200 that was read is respected,   *)
(* and on_close is opened once for a role that was let in (GInv).  And the *)
(* client under it, for both users: a connection carries what was left     *)
(* over and then its own request, whole (KState, on top of GInv).          *)
(***************************************************************************)
EXTENDS HttpGate, SequenceTheorems, TLAPS

(* Records keep their fields. *)
ClientFields == {"fd", "valid", "queued", "unsent", "header", "code", "length", "content",
                 "ended", "late", "due"}
ConnFields == {"state", "sent", "old", "answer", "delivered", "read", "first", "eof"}

IsClient(c) == c = [f \in ClientFields |-> c[f]]
IsConn(n) == n = [f \in ConnFields |-> n[f]]
IsExchange(x) == x = [c |-> x.c, n |-> x.n] /\ IsClient(x.c) /\ IsConn(x.n)

Roles == [held : BOOLEAN, srt : {"up", "broken", "closed"}, hook : BOOLEAN,
          passed : BOOLEAN, idle : BOOLEAN]

Shape ==
    /\ user \in {"role", "stat"}
    /\ IsClient(client) /\ IsConn(conn)
    /\ role \in Roles
    /\ moved \in BOOLEAN
    /\ user = "stat" \/ asked = <<>> => ~moved /\ ~role.passed /\ said = NoCode
    /\ user = "stat" => asked = <<>>

(* Before on_connect there is no connection and the gate is closed. *)
Fresh ==
    user = "role" /\ asked = <<>> =>
        /\ client = NewClient /\ conn = NoConn
        /\ role.held /\ role.hook /\ role.srt = "up"

(* While the webhook decides, what the client has read is what the server  *)
(* has said; afterwards its connection is gone.                            *)
Asking ==
    asked = <<"on_connect">> =>
        IF conn.state = "none" THEN client.code = NoCode
        ELSE /\ ~role.passed
             /\ said = conn.answer.code
             /\ client.code \in {NoCode, said}

(* Nobody is let in, and nothing moves, but by a 200. *)
LetIn ==
    /\ moved \/ role.passed => said = "200"
    /\ ~role.hook /\ ~role.passed => role.srt = "closed"

(* The webhooks a role has opened follow from what it has been through. *)
Reported ==
    user = "role" /\ asked # <<>> =>
        /\ asked = IF role.passed /\ role.srt = "closed"
                   THEN <<"on_connect", "on_close">> ELSE <<"on_connect">>
        /\ ~role.held => role.srt = "closed"
        /\ role.held /\ role.hook /\ ~role.passed => role.srt # "closed"

(* The server is told by the open of on_close, or not at all.              *)
ToldOnce ==
    /\ told \in {0, 1}
    /\ told = 1 => role.passed /\ role.srt = "closed"

GInv == Shape /\ Fresh /\ Asking /\ LetIn /\ Reported /\ ToldOnce
-----------------------------------------------------------------------------
(* Driving the client changes neither the state nor the answer of its      *)
(* connection, and the code it knows is its old one or the answer's.       *)
LEMMA ParseCode ==
    ASSUME NEW c, NEW a, NEW ps, IsClient(c)
    PROVE  IsClient(Parse(c, a, ps)) /\ Parse(c, a, ps).code \in {c.code, a.code}
<1> DEFINE later == [c EXCEPT !.content = @ + Len(ps)]
           first == [c EXCEPT !.header = TRUE,
                              !.code = IF Has(ps, "code") THEN a.code ELSE @,
                              !.length = IF Has(ps, "length") THEN a.length ELSE @,
                              !.content = Len(SelectSeq(ps, LAMBDA p : p = "body"))]
<1>1. IsClient(later) /\ later.code = c.code
  BY DEF IsClient, ClientFields
<1>2. IsClient(first) /\ first.code \in {c.code, a.code}
  BY DEF IsClient, ClientFields
<1> HIDE DEF later, first
<1>3. ASSUME NEW d, IsClient(d), NEW e
      PROVE  IsClient([d EXCEPT !.ended = e]) /\ [d EXCEPT !.ended = e].code = d.code
  BY <1>3 DEF IsClient, ClientFields
<1>4. Parse(c, a, ps) = IF c.header THEN [later EXCEPT !.ended = later.ended \/ Complete(later)]
                        ELSE [first EXCEPT !.ended = first.ended \/ (Has(ps, "end") /\ Complete(first))]
  BY DEF Parse, later, first
<1> QED BY <1>1, <1>2, <1>3, <1>4

LEMMA SentCode ==
    ASSUME NEW x, IsExchange(x), NEW y \in Sent(x)
    PROVE  IsExchange(y) /\ y.c.code = x.c.code /\ y.n.state = x.n.state /\ y.n.answer = x.n.answer
<1>1. PICK n : y = SentSome(x, n)
  BY DEF Sent
<1> DEFINE out == x.c.unsent \o x.c.queued
           part == [x.c EXCEPT !.unsent = Rest(@, n)]
           all == [x.c EXCEPT !.unsent = Rest(out, n), !.queued = <<>>]
           net == [x.n EXCEPT !.sent = @ \o SubSeq(out, 1, n)]
<1>2. IsClient(part) /\ part.code = x.c.code /\ IsClient(all) /\ all.code = x.c.code
  BY DEF IsExchange, IsClient, ClientFields
<1>3. IsConn(net) /\ net.state = x.n.state /\ net.answer = x.n.answer
  BY DEF IsExchange, IsConn, ConnFields
<1>4. y = [c |-> IF n < Len(x.c.unsent) THEN part ELSE all, n |-> net]
  BY <1>1 DEF SentSome
<1> QED BY <1>2, <1>3, <1>4 DEF IsExchange

LEMMA RecvCode ==
    ASSUME NEW x, IsExchange(x), NEW noticed \in BOOLEAN
    PROVE  /\ IsExchange(Recv(x, noticed))
           /\ Recv(x, noticed).c.code \in {x.c.code, x.n.answer.code}
           /\ Recv(x, noticed).n.state = x.n.state /\ Recv(x, noticed).n.answer = x.n.answer
<1> DEFINE ps   == SubSeq(Pieces(x.n.answer), x.n.read + 1, x.n.delivered)
           read == IF ps = <<>> THEN x.c ELSE Parse(x.c, x.n.answer, ps)
           out  == [read EXCEPT !.valid = x.n.state = "up" /\ ~(x.n.eof /\ noticed)]
           net  == [x.n EXCEPT !.read = x.n.delivered,
                               !.first = IF x.c.header THEN @ ELSE x.n.delivered]
<1>1. IsClient(read) /\ read.code \in {x.c.code, x.n.answer.code}
  BY ParseCode DEF IsExchange
<1> HIDE DEF read
<1>2. IsClient(out) /\ out.code = read.code
  BY <1>1 DEF IsClient, ClientFields
<1>3. IsConn(net) /\ net.state = x.n.state /\ net.answer = x.n.answer
  BY DEF IsExchange, IsConn, ConnFields
<1>4. Recv(x, noticed) = [c |-> out, n |-> net]
  BY DEF Recv, read
<1> HIDE DEF out, net
<1> QED BY <1>1, <1>2, <1>3, <1>4 DEF IsExchange

LEMMA HandledCode ==
    ASSUME NEW x, IsExchange(x), NEW y \in Handled(x)
    PROVE  /\ IsExchange(y) /\ y.c.code \in {x.c.code, x.n.answer.code}
           /\ y.n.state = x.n.state /\ y.n.answer = x.n.answer
  BY SentCode, RecvCode DEF Handled

(* A client that is opened keeps its code or reads the answer it had; a    *)
(* closed one comes with a connection that has no answer.                  *)
LEMMA OpenedCode ==
    ASSUME NEW x, IsExchange(x), NEW y \in Opened(x)
    PROVE  /\ IsExchange(y)
           /\ x.c.code = NoCode /\ x.n.answer = NoAnswer => y.c.code = NoCode /\ y.n.answer = NoAnswer
<1> DEFINE b == Begun(x)
<1>1. IsExchange(b) /\ b.c.code = x.c.code /\ b.n = x.n
  <2> DEFINE new == [x.c EXCEPT !.late = FALSE, !.due = FALSE]
  <2>1. IsClient(new) /\ new.code = x.c.code
    BY DEF IsExchange, IsClient, ClientFields
  <2>2. b = [c |-> new, n |-> x.n]
    BY DEF Begun
  <2> HIDE DEF new, b
  <2> QED BY <2>1, <2>2 DEF IsExchange
<1> HIDE DEF b
<1>2. ASSUME NEW o
      PROVE  /\ IsExchange(Connecting(b, o))
             /\ Connecting(b, o).c.code = b.c.code
             /\ Connecting(b, o).n.answer = NoAnswer
  <2> DEFINE new == [b.c EXCEPT !.fd = TRUE, !.valid = TRUE, !.header = FALSE, !.length = NoLength,
                       !.content = 0, !.ended = FALSE, !.queued = Request, !.unsent = Earlier(@)]
             net == [NoConn EXCEPT !.state = o, !.old = Earlier(b.c.unsent)]
  <2>1. IsClient(b.c)
    BY <1>1 DEF IsExchange
  <2>2. IsClient(new) /\ new.code = b.c.code
    BY <2>1 DEF IsClient, ClientFields
  <2>3. IsConn(net) /\ net.answer = NoAnswer
    BY DEF NoConn, IsConn, ConnFields
  <2>4. Connecting(b, o) = [c |-> new, n |-> net]
    BY DEF Connecting
  <2> HIDE DEF new, net
  <2> QED BY <2>2, <2>3, <2>4 DEF IsExchange
<1>3. y = b \/ \E o \in {"connecting", "up", "refused"} : y \in Handled(Connecting(b, o))
  BY DEF Opened, b
<1> QED BY <1>1, <1>2, <1>3, HandledCode DEF NoAnswer

LEMMA DiscardedShape ==
    IsExchange(Discarded) /\ Discarded.c.code = NoCode /\ Discarded.n.answer = NoAnswer
  BY DEF Discarded, NewClient, NoConn, IsExchange, IsClient, IsConn, ClientFields, ConnFields
-----------------------------------------------------------------------------
LEMMA InitGInv == Init => GInv
<1> SUFFICES ASSUME Init PROVE GInv
  OBVIOUS
<1>1. IsClient(client) /\ IsConn(conn)
  BY DiscardedShape DEF Init, Discarded, IsExchange
<1>2. /\ role \in Roles /\ role.held /\ role.hook /\ role.srt = "up" /\ ~role.passed
      /\ ~moved /\ moved \in BOOLEAN /\ asked = <<>> /\ said = NoCode /\ told = 0
  BY DEF Init, Roles
<1>3. user \in {"role", "stat"} /\ client = NewClient /\ conn = NoConn
  BY DEF Init
<1> QED BY <1>1, <1>2, <1>3 DEF GInv, Shape, Fresh, Asking, LetIn, Reported, ToldOnce

LEMMA OnConnectGInv ==
    ASSUME GInv, OnConnect
    PROVE  GInv'
<1>1. Exchange = Discarded
  BY DEF GInv, Fresh, OnConnect, Exchange, Discarded
<1>2. PICK x \in Opened(Discarded) : client' = x.c /\ conn' = x.n
  BY <1>1 DEF OnConnect, Becomes
<1>3. IsClient(client') /\ IsConn(conn') /\ client'.code = NoCode /\ conn'.answer.code = NoCode
  BY <1>2, DiscardedShape, OpenedCode DEF IsExchange, NoAnswer
<1>4. /\ user = "role" /\ asked = <<>> /\ asked' = <<"on_connect">>
      /\ UNCHANGED <<user, role, moved, said, told>>
      /\ role \in Roles /\ role.held /\ role.hook /\ role.srt = "up" /\ ~role.passed
      /\ ~moved /\ said = NoCode
  BY DEF GInv, Shape, Fresh, OnConnect
<1> QED BY <1>3, <1>4 DEF GInv, Shape, Fresh, Asking, LetIn, Reported, ToldOnce

(* What the handlers of data do to a role that has been let in, or whose   *)
(* socket is closed.                                                       *)
LEMMA DataGInv ==
    ASSUME GInv, NEW r \in Roles, NEW x, Data(r, x),
           IsExchange(x), user = "role", asked # <<>>, role.held, r.held, UNCHANGED <<user, said>>,
           r.srt = role.srt,
           r.passed => said = "200",
           ~r.hook /\ ~r.passed => r.srt = "closed",
           r.hook /\ ~r.passed => r.srt # "closed",
           asked = IF r.passed /\ r.srt = "closed"
                   THEN <<"on_connect", "on_close">> ELSE <<"on_connect">>,
           r.passed \/ r.srt = "closed",
           asked = <<"on_connect">> => x.n.state = "none" /\ x.c.code = NoCode
    PROVE  GInv'
<1>1. CASE r.srt # "broken"
  <2>1. /\ moved' = (moved \/ r.srt = "up") /\ role' = [r EXCEPT !.idle = r.idle /\ r.srt # "up"]
        /\ client' = x.c /\ conn' = x.n /\ asked' = asked /\ told' = told
    BY <1>1 DEF Data, Becomes
  <2>2. role' \in Roles /\ role'.held = r.held /\ role'.srt = r.srt /\ role'.hook = r.hook
        /\ role'.passed = r.passed
    BY <2>1 DEF Roles
  <2> QED BY <2>1, <2>2 DEF GInv, Shape, Fresh, Asking, LetIn, Reported, ToldOnce, IsExchange
<1>2. CASE r.srt = "broken"
  <2>1. r.passed /\ OnClose(r) /\ asked = <<"on_connect">> /\ said = "200"
    BY <1>2 DEF OnClose
  <2>2. /\ role' = [Invalid(r) EXCEPT !.hook = r.passed]
        /\ asked' = <<"on_connect", "on_close">> /\ UNCHANGED moved
    BY <1>2, <2>1 DEF Data, AskedToClose
  <2>3. role' \in Roles /\ role'.held /\ role'.srt = "closed" /\ role'.hook /\ role'.passed
    BY <2>1, <2>2 DEF Roles, Invalid
  <2>4. PICK y \in Opened(Discarded) : client' = y.c /\ conn' = y.n /\ told' = Told(y)
    BY <1>2, <2>1 DEF Data, Becomes
  <2>5. IsClient(client') /\ IsConn(conn')
    BY <2>4, DiscardedShape, OpenedCode DEF IsExchange
  <2>6. told' \in {0, 1}
    BY <1>2, <2>4 DEF Told, GInv, ToldOnce
  <2> QED BY <2>1, <2>2, <2>3, <2>5, <2>6 DEF GInv, Shape, Fresh, Asking, LetIn, Reported, ToldOnce
<1> QED BY <1>1, <1>2

LEMMA ExchangeShape ==
    ASSUME GInv
    PROVE  IsExchange(Exchange) /\ IsExchange(Discarded)
  BY DEF GInv, Shape, Exchange, Discarded, NewClient, NoConn, IsExchange, IsClient, IsConn,
         ClientFields, ConnFields

LEMMA HandleGInv ==
    ASSUME GInv, Handle
    PROVE  GInv'
<1>1. user = "role" /\ role.held /\ asked # <<>> /\ UNCHANGED <<user, said>> /\ role \in Roles
  BY DEF Handle, GInv, Shape
<1>2. CASE (role.passed \/ ~role.hook) /\ Data(role, Exchange)
  <2>1. asked = <<"on_connect">> /\ role.passed => conn.state = "none" /\ client.code = NoCode
    BY DEF GInv, Asking
  <2>2. CASE role.passed
    BY <1>1, <1>2, <2>1, <2>2, ExchangeShape, DataGInv DEF GInv, LetIn, Reported, Exchange
  <2>3. CASE ~role.passed
    <3>1. role.srt = "closed" /\ ~role.hook /\ moved \in BOOLEAN
      BY <1>2, <2>3 DEF GInv, LetIn, Shape
    <3>2. /\ moved' = moved /\ role' = [role EXCEPT !.idle = role.idle]
          /\ client' = client /\ conn' = conn /\ asked' = asked /\ told' = told
      <4>1. /\ moved' = (moved \/ role.srt = "up")
            /\ role' = [role EXCEPT !.idle = role.idle /\ role.srt # "up"]
            /\ Becomes(Exchange) /\ asked' = asked /\ told' = told
        BY <1>2, <3>1 DEF Data
      <4>2. (role.idle /\ role.srt # "up") = role.idle
        BY <1>1, <3>1 DEF Roles
      <4> QED BY <4>1, <4>2, <3>1 DEF Becomes, Exchange
    <3>3. role' = role
      BY <1>1, <3>2 DEF Roles
    <3> QED BY <1>1, <3>2, <3>3 DEF GInv, Shape, Fresh, Asking, LetIn, Reported, ToldOnce
  <2> QED BY <2>2, <2>3
<1>3. ASSUME ~role.passed, role.hook, NEW x \in Handled(Exchange)
      PROVE  /\ IsExchange(x) /\ asked = <<"on_connect">>
             /\ x.n.state = conn.state /\ x.n.answer = conn.answer
             /\ x.c.code = "200" => said = "200"
             /\ IF conn.state = "none" THEN x.c.code = NoCode ELSE x.c.code \in {NoCode, said}
  <2>1. asked = <<"on_connect">>
    BY <1>1, <1>3 DEF GInv, Reported
  <2>2. IsExchange(x) /\ x.c.code \in {client.code, conn.answer.code}
        /\ x.n.state = conn.state /\ x.n.answer = conn.answer
    BY <1>3, ExchangeShape, HandledCode DEF Exchange
  <2>3. CASE conn.state = "none"
    <3>1. x = Exchange
      BY <1>3, <2>3 DEF Handled, Exchange
    <3> QED BY <2>1, <2>2, <2>3, <3>1 DEF GInv, Asking, Exchange, NoCode
  <2>4. CASE conn.state # "none"
    BY <2>1, <2>2, <2>4 DEF GInv, Asking, NoCode
  <2> QED BY <2>1, <2>2, <2>3, <2>4
<1>4. ASSUME ~role.passed, role.hook, NEW x \in Handled(Exchange), ~Decided(x.c),
             Becomes(x), UNCHANGED <<role, moved, asked, told>>
      PROVE  GInv'
  BY <1>1, <1>3, <1>4 DEF Becomes, IsExchange, GInv, Shape, Fresh, Asking, LetIn, Reported, ToldOnce
<1>5. ASSUME ~role.passed, role.hook, NEW x \in Handled(Exchange), x.c.code = "200",
             Data([role EXCEPT !.passed = TRUE, !.hook = FALSE], Discarded)
      PROVE  GInv'
  <2> DEFINE r == [role EXCEPT !.passed = TRUE, !.hook = FALSE]
  <2>1. r \in Roles /\ r.held /\ r.passed /\ ~r.hook /\ r.srt = role.srt
    BY <1>1 DEF Roles
  <2>2. role.srt # "closed" /\ asked = <<"on_connect">> /\ said = "200"
    BY <1>1, <1>3, <1>5 DEF GInv, Reported
  <2>3. Discarded.n.state = "none" /\ Discarded.c.code = NoCode
    BY DEF Discarded, NoConn, NewClient
  <2> HIDE DEF r
  <2>4. Data(r, Discarded)
    BY <1>5 DEF r
  <2> QED BY <1>1, <2>1, <2>2, <2>3, <2>4, ExchangeShape, DataGInv
<1>6. ASSUME ~role.passed, role.hook, NEW x \in Handled(Exchange),
             role' = Invalid([role EXCEPT !.hook = FALSE]), Becomes(Discarded),
             UNCHANGED <<moved, asked, told>>
      PROVE  GInv'
  <2>1. role' \in Roles /\ role'.held /\ ~role'.passed /\ ~role'.hook /\ role'.srt = "closed"
    BY <1>1, <1>6 DEF Roles, Invalid
  <2>2. client' = NewClient /\ conn' = NoConn /\ IsClient(client') /\ IsConn(conn')
    BY <1>6, ExchangeShape DEF Becomes, Discarded, IsExchange
  <2>3. asked = <<"on_connect">>
    BY <1>3, <1>6
  <2> QED BY <1>1, <1>6, <2>1, <2>2, <2>3
          DEF GInv, Shape, Fresh, Asking, LetIn, Reported, ToldOnce, NewClient, NoConn
<1> QED BY <1>2, <1>4, <1>5, <1>6 DEF Handle

LEMMA AppendToOne ==
    ASSUME NEW u, NEW v
    PROVE  Append(<<u>>, v) = <<u, v>>
<1> DEFINE S == {u, v}
<1>0. u \in S /\ v \in S
  OBVIOUS
<1> HIDE DEF S
<1>1. <<u>> \in Seq(S) /\ <<u, v>> \in Seq(S) /\ Len(<<u>>) = 1 /\ Len(<<u, v>>) = 2
  BY <1>0
<1>2. /\ Append(<<u>>, v) \in Seq(S) /\ Len(Append(<<u>>, v)) = 2
      /\ Append(<<u>>, v)[1] = u /\ Append(<<u>>, v)[2] = v
  BY <1>0, <1>1, AppendProperties
<1>3. \A i \in 1..2 : Append(<<u>>, v)[i] = <<u, v>>[i]
  BY <1>2
<1> QED BY <1>1, <1>2, <1>3, SeqEqual

LEMMA DeleteGInv ==
    ASSUME GInv, Delete
    PROVE  GInv'
<1>1. user = "role" /\ asked # <<>> /\ UNCHANGED <<user, moved, said>> /\ role \in Roles
  BY DEF Delete, GInv, Shape
<1>2. /\ role' \in Roles /\ ~role'.held /\ ~role'.hook /\ role'.srt = "closed"
      /\ role'.passed = role.passed
  BY <1>1 DEF Delete, Roles, Invalid
<1>3. client' = NewClient /\ conn' = NoConn /\ IsClient(client') /\ IsConn(conn')
  BY ExchangeShape DEF Delete, Becomes, Discarded, IsExchange
<1>4. asked' = IF role.passed THEN <<"on_connect", "on_close">> ELSE <<"on_connect">>
  <2>1. asked = IF role.passed /\ role.srt = "closed"
                THEN <<"on_connect", "on_close">> ELSE <<"on_connect">>
    BY <1>1 DEF GInv, Reported
  <2>2. asked' = IF role.passed /\ role.srt # "closed" THEN Append(asked, "on_close") ELSE asked
    BY DEF Delete, AskedToClose, OnClose
  <2>3. CASE role.passed /\ role.srt # "closed"
    <3>1. asked = <<"on_connect">>
      BY <2>1, <2>3
    <3>2. asked' = Append(<<"on_connect">>, "on_close")
      BY <2>2, <2>3, <3>1
    <3>3. Append(<<"on_connect">>, "on_close") = <<"on_connect", "on_close">>
      BY AppendToOne
    <3> QED BY <2>3, <3>2, <3>3
  <2>4. CASE ~(role.passed /\ role.srt # "closed")
    BY <2>1, <2>2, <2>4
  <2> QED BY <2>3, <2>4
<1>5. told' \in {0, 1} /\ (told' = 1 => role.passed)
  <2>1. CASE OnClose(role)
    <3>1. PICK y \in Opened(Discarded) : told' = Told(y)
      BY <2>1 DEF Delete
    <3>2. told = 0 /\ role.passed
      BY <2>1 DEF OnClose, GInv, ToldOnce
    <3> QED BY <3>1, <3>2 DEF Told
  <2>2. CASE ~OnClose(role)
    BY <2>2 DEF Delete, GInv, ToldOnce
  <2> QED BY <2>1, <2>2
<1> QED BY <1>1, <1>2, <1>3, <1>4, <1>5
        DEF GInv, Shape, Fresh, Asking, LetIn, Reported, ToldOnce, NewClient, NoConn

(* main's steps with the client of the statistics. *)
LEMMA StatGInv ==
    ASSUME GInv, StatLoop \/ StatOpen
    PROVE  GInv'
<1>1. /\ user = "stat" /\ asked = <<>>
      /\ UNCHANGED <<user, role, moved, asked, said, told>>
  BY DEF StatLoop, StatOpen, ghosts, GInv, Shape
<1>2. ASSUME NEW x, IsExchange(x)
      PROVE  IsExchange(Close(x))
  <2> DEFINE new == [x.c EXCEPT !.fd = FALSE, !.valid = FALSE, !.header = FALSE,
                       !.length = NoLength, !.content = 0, !.ended = FALSE, !.queued = <<>>]
  <2>1. IsClient(new)
    BY <1>2 DEF IsExchange, IsClient, ClientFields
  <2>2. IsConn(NoConn)
    BY DiscardedShape DEF Discarded, IsExchange
  <2>3. Close(x) = [c |-> new, n |-> NoConn]
    BY DEF Close
  <2> HIDE DEF new
  <2> QED BY <2>1, <2>2, <2>3 DEF IsExchange
<1>3. PICK x : IsExchange(x) /\ client' = x.c /\ conn' = x.n
  <2>1. CASE StatOpen
    BY <2>1, ExchangeShape, OpenedCode DEF StatOpen, Becomes
  <2>2. CASE StatLoop
    <3>1. PICK y \in IF ~client.valid /\ client.due THEN Opened(Close(Exchange)) ELSE {Exchange} :
            \E x \in Handled(y) : Becomes(IF Decided(x.c) THEN Close(x) ELSE x)
      BY <2>2 DEF StatLoop
    <3>2. PICK x \in Handled(y) : Becomes(IF Decided(x.c) THEN Close(x) ELSE x)
      BY <3>1
    <3>3. IsExchange(y)
      BY <1>2, ExchangeShape, OpenedCode
    <3>4. IsExchange(x) /\ IsExchange(Close(x))
      BY <1>2, <3>3, HandledCode
    <3> QED BY <3>2, <3>4 DEF Becomes
  <2> QED BY <2>1, <2>2
<1> QED BY <1>1, <1>3 DEF GInv, Shape, Fresh, Asking, LetIn, Reported, ToldOnce, IsExchange

(* The environment: only an answer to on_connect says anything. *)
LEMMA AnswerGInv ==
    ASSUME GInv, NEW a \in Answers, Answer(a)
    PROVE  GInv'
<1>1. /\ conn' = [conn EXCEPT !.answer = a] /\ conn.answer = NoAnswer /\ conn.state = "up"
      /\ said' = IF user = "role" /\ asked = <<"on_connect">> THEN a.code ELSE said
      /\ UNCHANGED <<user, client, role, moved, asked, told>>
  BY DEF Answer
<1>2. IsConn(conn') /\ conn'.state = conn.state /\ conn'.answer = a
  BY <1>1 DEF GInv, Shape, IsConn, ConnFields
<1>3. CASE asked = <<"on_connect">>
  <2>1. ~role.passed /\ said = NoCode /\ client.code = NoCode /\ ~moved
    BY <1>1, <1>3 DEF GInv, Asking, LetIn, NoAnswer, NoCode
  <2> QED BY <1>1, <1>2, <1>3, <2>1 DEF GInv, Shape, Fresh, Asking, LetIn, Reported, ToldOnce, NoConn
<1>4. CASE asked # <<"on_connect">>
  BY <1>1, <1>2, <1>4 DEF GInv, Shape, Fresh, Asking, LetIn, Reported, ToldOnce, NoConn
<1> QED BY <1>3, <1>4

LEMMA NetworkGInv ==
    ASSUME GInv, Connected("up") \/ Connected("refused") \/ Deliver \/ HangUp
    PROVE  GInv'
<1>1. /\ IsConn(conn') /\ conn'.answer = conn.answer
      /\ (conn'.state = "none" <=> conn.state = "none") /\ conn # NoConn
      /\ UNCHANGED <<user, client, role, moved, asked, said, told>>
  BY DEF GInv, Shape, Connected, Deliver, HangUp, IsConn, ConnFields, NoConn, ghosts
<1> QED BY <1>1 DEF GInv, Shape, Fresh, Asking, LetIn, Reported, ToldOnce

LEMMA ClockGInv ==
    ASSUME GInv, TimeOut \/ IntervalOver
    PROVE  GInv'
<1>1. /\ IsClient(client') /\ client'.code = client.code
      /\ client # NewClient \/ user = "stat"
      /\ UNCHANGED <<user, conn, role, moved, asked, said, told>>
  BY DEF GInv, Shape, TimeOut, IntervalOver, IsClient, ClientFields, NewClient, ghosts
<1> QED BY <1>1 DEF GInv, Shape, Fresh, Asking, LetIn, Reported, ToldOnce

LEMMA ClientGInv ==
    ASSUME GInv, Break \/ Elapse
    PROVE  GInv'
<1>1. /\ role' \in Roles /\ role'.held = role.held /\ role'.hook = role.hook
      /\ role'.passed = role.passed /\ (role'.srt = "closed" <=> role.srt = "closed")
      /\ asked # <<>>
      /\ UNCHANGED <<user, client, conn, moved, asked, said, told>>
  BY DEF GInv, Shape, Roles, Break, Elapse, ghosts
<1> QED BY <1>1 DEF GInv, Shape, Fresh, Asking, LetIn, Reported, ToldOnce

LEMMA GInvariance == Spec => []GInv
<1>1. GInv /\ [Next]_vars => GInv'
  <2> SUFFICES ASSUME GInv, [Next]_vars PROVE GInv'
    OBVIOUS
  <2>1. CASE UNCHANGED vars
    BY <2>1 DEF vars, ghosts, GInv, Shape, Fresh, Asking, LetIn, Reported, ToldOnce
  <2>2. CASE Reap \/ Clear
    BY <2>2, DeleteGInv DEF Reap, Clear
  <2> QED BY <2>1, <2>2, OnConnectGInv, HandleGInv, StatGInv, AnswerGInv, NetworkGInv,
             ClockGInv, ClientGInv DEF Next
<1> QED BY <1>1, InitGInv, PTL DEF Spec

(* A role with a webhook moves no stream data before the server's 200,     *)
(* whatever the network does to the exchange and however long it takes.    *)
THEOREM NoDataBefore200 == Spec => []DataOnlyAfter200
<1>1. GInv => DataOnlyAfter200
  BY DEF GInv, LetIn, DataOnlyAfter200
<1> QED BY <1>1, GInvariance, PTL

(* on_close is opened once for a role that was let in, else not at all, and *)
(* tells the server once at most.                                          *)
THEOREM CloseIsOpenedOnce == Spec => []CloseOpenedOnce
<1>1. GInv => CloseOpenedOnce
  BY DEF GInv, Shape, Fresh, LetIn, Reported, ToldOnce, CloseOpenedOnce
<1> QED BY <1>1, GInvariance, PTL
-----------------------------------------------------------------------------
(* A sequence and its two parts.                                           *)
LEMMA Parted ==
    ASSUME NEW s \in Seq(Int), NEW n \in 0..Len(s)
    PROVE  /\ SubSeq(s, 1, n) \in Seq(Int) /\ Rest(s, n) \in Seq(Int)
           /\ SubSeq(s, 1, n) \o Rest(s, n) = s
<1>1. Len(s) \in Nat /\ \A i \in 1..Len(s) : s[i] \in Int
  BY LenProperties, ElementOfSeq
<1>2. SubSeq(s, 1, n) \in Seq(Int)
  BY <1>1, SubSeqProperties
<1>3. SubSeq(s, n + 1, Len(s)) \in Seq(Int)
  BY <1>1, SubSeqProperties
<1>4. SubSeq(s, 1, n) \o SubSeq(s, n + 1, Len(s)) = SubSeq(s, 1, Len(s))
  <2>1. 1 \in 1..Len(s) + 1 /\ n \in 1 - 1..Len(s) /\ Len(s) \in n..Len(s)
    BY <1>1
  <2> QED BY <2>1, ConcatAdjacentSubSeq
<1>5. SubSeq(s, 1, Len(s)) = s
  BY SubSeqFull
<1> QED BY <1>2, <1>3, <1>4, <1>5 DEF Rest

(* What was left of the old part, before the new one.                      *)
LEMMA RestOfBoth ==
    ASSUME NEW s \in Seq(Int), NEW t \in Seq(Int), NEW n \in 0..Len(s)
    PROVE  Rest(s \o t, n) = Rest(s, n) \o t
<1> DEFINE u == s \o t
           left == Rest(u, n)
           right == Rest(s, n) \o t
<1>1. /\ Len(s) \in Nat /\ Len(t) \in Nat /\ u \in Seq(Int) /\ Len(u) = Len(s) + Len(t)
      /\ \A i \in 1..Len(s) + Len(t) : u[i] = IF i <= Len(s) THEN s[i] ELSE t[i - Len(s)]
  BY LenProperties, ConcatProperties
<1>2. \A i \in 1..Len(u) : u[i] \in Int
  BY <1>1, ElementOfSeq
<1>3. \A i \in 1..Len(s) : s[i] \in Int
  BY ElementOfSeq
<1> HIDE DEF u
<1>4. /\ left \in Seq(Int) /\ Len(left) = Len(s) + Len(t) - n
      /\ \A i \in 1..Len(s) + Len(t) - n : left[i] = u[n + i]
  <2>1. /\ SubSeq(u, n + 1, Len(u)) \in Seq(Int)
        /\ Len(SubSeq(u, n + 1, Len(u))) = IF n + 1 <= Len(u) THEN Len(u) - (n + 1) + 1 ELSE 0
        /\ \A i \in 1..Len(u) - (n + 1) + 1 : SubSeq(u, n + 1, Len(u))[i] = u[n + 1 + i - 1]
    BY <1>1, <1>2, SubSeqProperties
  <2> QED BY <1>1, <2>1 DEF Rest
<1>5. /\ Rest(s, n) \in Seq(Int) /\ Len(Rest(s, n)) = Len(s) - n
      /\ \A i \in 1..Len(s) - n : Rest(s, n)[i] = s[n + i]
  <2>1. /\ SubSeq(s, n + 1, Len(s)) \in Seq(Int)
        /\ Len(SubSeq(s, n + 1, Len(s))) = IF n + 1 <= Len(s) THEN Len(s) - (n + 1) + 1 ELSE 0
        /\ \A i \in 1..Len(s) - (n + 1) + 1 : SubSeq(s, n + 1, Len(s))[i] = s[n + 1 + i - 1]
    BY <1>1, <1>3, SubSeqProperties
  <2> QED BY <1>1, <2>1 DEF Rest
<1> DEFINE r == Rest(s, n)
<1>6. r \in Seq(Int) /\ Len(r) = Len(s) - n /\ right = r \o t
  BY <1>5
<1>7. \A i \in 1..Len(s) - n : r[i] = s[n + i]
  BY <1>5
<1> HIDE DEF r, left, right
<1>8. /\ right \in Seq(Int) /\ Len(right) = Len(r) + Len(t)
      /\ \A i \in 1..Len(r) + Len(t) : right[i] = IF i <= Len(r) THEN r[i] ELSE t[i - Len(r)]
  BY <1>6, ConcatProperties
<1>9. ASSUME NEW i \in 1..Len(left)
      PROVE  left[i] = right[i]
  <2>1. i \in Nat /\ i >= 1 /\ i <= Len(s) + Len(t) - n /\ n \in Nat /\ n <= Len(s)
    BY <1>1, <1>4, <1>9
  <2>2. left[i] = u[n + i] /\ n + i \in 1..Len(s) + Len(t) /\ i \in 1..Len(r) + Len(t)
    <3>1. i \in 1..Len(s) + Len(t) - n /\ n + i \in 1..Len(s) + Len(t)
      BY <1>1, <2>1
    <3>2. i \in 1..Len(r) + Len(t)
      BY <1>1, <1>6, <2>1
    <3>3. left[i] = u[n + i]
      BY <1>4, <3>1
    <3> QED BY <3>1, <3>2, <3>3
  <2>3. CASE i <= Len(s) - n
    <3>1. i \in 1..Len(s) - n /\ n + i <= Len(s) /\ i <= Len(r)
      BY <1>1, <1>6, <2>1, <2>3
    <3> QED BY <1>1, <1>7, <1>8, <2>2, <3>1
  <2>4. CASE i > Len(s) - n
    <3>1. n + i - Len(s) = i - Len(r) /\ ~(n + i <= Len(s)) /\ ~(i <= Len(r))
      BY <1>1, <1>6, <2>1, <2>4
    <3>2. u[n + i] = t[n + i - Len(s)]
      <4> DEFINE k == n + i
      <4>1. k \in 1..Len(s) + Len(t) /\ ~(k <= Len(s))
        BY <2>2, <3>1
      <4> HIDE DEF k
      <4>2. u[k] = t[k - Len(s)]
        BY <1>1, <4>1
      <4> QED BY <4>2 DEF k
    <3>3. right[i] = t[i - Len(r)]
      BY <1>8, <2>2, <3>1
    <3> QED BY <2>2, <3>1, <3>2, <3>3
  <2> QED BY <1>1, <2>1, <2>3, <2>4
<1>10. Len(left) = Len(right)
  BY <1>1, <1>4, <1>6, <1>8
<1>11. left = right
  BY <1>4, <1>8, <1>9, <1>10, SeqEqual
<1> QED BY <1>11 DEF left, right, u

LEMMA Joined ==
    ASSUME NEW s \in Seq(Int), NEW t \in Seq(Int)
    PROVE  /\ s \o t \in Seq(Int) /\ Len(s \o t) = Len(s) + Len(t)
           /\ \A i \in 1..Len(s) + Len(t) : (s \o t)[i] = IF i <= Len(s) THEN s[i] ELSE t[i - Len(s)]
  BY ConcatProperties

LEMMA Regrouped ==
    ASSUME NEW s \in Seq(Int), NEW t \in Seq(Int), NEW u \in Seq(Int)
    PROVE  (s \o t) \o u = s \o (t \o u)
<1> DEFINE st == s \o t
           tu == t \o u
           left == st \o u
           right == s \o tu
<1>1. Len(s) \in Nat /\ Len(t) \in Nat /\ Len(u) \in Nat
  BY LenProperties
<1>2. /\ st \in Seq(Int) /\ Len(st) = Len(s) + Len(t)
      /\ \A i \in 1..Len(s) + Len(t) : st[i] = IF i <= Len(s) THEN s[i] ELSE t[i - Len(s)]
  BY Joined
<1>3. /\ tu \in Seq(Int) /\ Len(tu) = Len(t) + Len(u)
      /\ \A i \in 1..Len(t) + Len(u) : tu[i] = IF i <= Len(t) THEN t[i] ELSE u[i - Len(t)]
  BY Joined
<1> HIDE DEF st, tu
<1>4. /\ left \in Seq(Int) /\ Len(left) = Len(st) + Len(u)
      /\ \A i \in 1..Len(st) + Len(u) : left[i] = IF i <= Len(st) THEN st[i] ELSE u[i - Len(st)]
  <2>1. st \in Seq(Int)
    BY <1>2
  <2> QED BY <2>1, Joined
<1>5. /\ right \in Seq(Int) /\ Len(right) = Len(s) + Len(tu)
      /\ \A i \in 1..Len(s) + Len(tu) : right[i] = IF i <= Len(s) THEN s[i] ELSE tu[i - Len(s)]
  <2>1. tu \in Seq(Int)
    BY <1>3
  <2> QED BY <2>1, Joined
<1> HIDE DEF left, right
<1>6. Len(left) = Len(right)
  BY <1>1, <1>2, <1>3, <1>4, <1>5
<1>7. ASSUME NEW i \in 1..Len(left)
      PROVE  left[i] = right[i]
  <2>1. /\ i \in Nat /\ i >= 1 /\ i <= Len(s) + Len(t) + Len(u)
        /\ i \in 1..Len(st) + Len(u) /\ i \in 1..Len(s) + Len(tu)
    BY <1>1, <1>2, <1>3, <1>4
  <2>2. CASE i <= Len(s)
    <3>1. i <= Len(st) /\ i \in 1..Len(s) + Len(t)
      BY <1>1, <1>2, <2>1, <2>2
    <3>2. left[i] = st[i] /\ st[i] = s[i] /\ right[i] = s[i]
      BY <1>2, <1>4, <1>5, <2>1, <2>2, <3>1
    <3> QED BY <3>2
  <2> DEFINE k == i - Len(s)
  <2>3. CASE i > Len(s) /\ i <= Len(s) + Len(t)
    <3>1. i <= Len(st) /\ i \in 1..Len(s) + Len(t) /\ ~(i <= Len(s))
      BY <1>1, <1>2, <2>1, <2>3
    <3>2. left[i] = st[i] /\ st[i] = t[k] /\ right[i] = tu[k]
      BY <1>2, <1>4, <1>5, <2>1, <3>1
    <3>3. k <= Len(t) /\ k \in 1..Len(t) + Len(u)
      BY <1>1, <2>1, <2>3
    <3> HIDE DEF k
    <3>4. tu[k] = t[k]
      BY <1>3, <3>3
    <3> QED BY <3>2, <3>4
  <2>4. CASE i > Len(s) + Len(t)
    <3>1. ~(i <= Len(st)) /\ ~(i <= Len(s)) /\ i - Len(st) = k - Len(t)
      BY <1>1, <1>2, <2>1, <2>4
    <3>2. left[i] = u[i - Len(st)] /\ right[i] = tu[k]
      BY <1>4, <1>5, <2>1, <3>1
    <3>range. i \in Nat /\ i <= Len(s) + Len(t) + Len(u)
      BY <2>1
    <3>3. ~(k <= Len(t)) /\ k \in 1..Len(t) + Len(u)
      BY <1>1, <3>range, <2>4
    <3> HIDE DEF k
    <3>4. tu[k] = u[k - Len(t)]
      BY <1>3, <3>3
    <3> QED BY <3>1, <3>2, <3>4
  <2> QED BY <1>1, <2>1, <2>2, <2>3, <2>4
<1>8. left = right
  BY <1>4, <1>5, <1>6, <1>7, SeqEqual
<1> QED BY <1>8 DEF left, right, st, tu

LEMMA RequestSeq == Request \in Seq(Int) /\ Len(Request) = RequestLen
  BY HttpAssumption DEF Request
-----------------------------------------------------------------------------
(* What a connection has carried, what is left in m_out_data and what is   *)
(* queued make up the rest of older requests and then the whole request.   *)
Carry(c, n) ==
    /\ c.unsent \in Seq(Int) /\ c.queued \in Seq(Int) /\ n.sent \in Seq(Int)
    /\ IF n.state = "none" THEN n.sent = <<>>
       ELSE n.sent \o (c.unsent \o c.queued) = n.old \o Request

(* What the client has read of the answer, and what it made of it.         *)
Reads(c, n) ==
    /\ n.delivered \in Nat /\ n.read \in Nat /\ n.first \in Nat
    /\ n.read <= n.delivered /\ n.first <= n.delivered
    /\ n.answer \in Answers \cup {NoAnswer}
    /\ n.delivered <= Len(Pieces(n.answer))
    /\ n.answer # NoAnswer => n.state = "up"
    /\ n.delivered > 0 => n.answer # NoAnswer
    /\ ~c.header => n.read = 0
    /\ c.header /\ n.first >= 2 => c.code = n.answer.code

PieceNames == {"protocol", "code", "length", "end", "body"}

(* The status code is the second piece of every answer.                    *)
LEMMA SecondKept ==
    ASSUME NEW s \in Seq(PieceNames), NEW t \in Seq(PieceNames), Len(s) >= 2
    PROVE  s \o t \in Seq(PieceNames) /\ Len(s \o t) >= 2 /\ (s \o t)[2] = s[2]
<1>1. Len(s) \in Nat /\ Len(t) \in Nat
  BY LenProperties
<1>2. 2 \in 1..Len(s) + Len(t) /\ 2 <= Len(s)
  BY <1>1
<1>3. /\ s \o t \in Seq(PieceNames) /\ Len(s \o t) = Len(s) + Len(t)
      /\ \A i \in 1..Len(s) + Len(t) : (s \o t)[i] = IF i <= Len(s) THEN s[i] ELSE t[i - Len(s)]
  BY ConcatProperties
<1> QED BY <1>1, <1>2, <1>3

LEMMA PiecesSeq ==
    ASSUME NEW a \in Answers \cup {NoAnswer}
    PROVE  /\ Pieces(a) \in Seq(PieceNames) /\ Len(Pieces(a)) \in Nat
           /\ Len(Pieces(a)) >= 2 /\ Pieces(a)[2] = "code"
<1> DEFINE start == <<"protocol", "code">>
           length == IF a.length = NoLength THEN <<>> ELSE <<"length">>
           end == <<"end">>
           body == [i \in 1..a.body |-> "body"]
<1>1. a.body \in Nat
  <2>1. CASE a \in Answers
    <3>1. a.body \in BodyLens
      BY <2>1 DEF Answers
    <3> QED BY <3>1, HttpAssumption
  <2>2. CASE a = NoAnswer
    BY <2>2 DEF NoAnswer
  <2> QED BY <2>1, <2>2
<1>names. /\ "protocol" \in PieceNames /\ "code" \in PieceNames /\ "length" \in PieceNames
          /\ "end" \in PieceNames /\ "body" \in PieceNames
  BY DEF PieceNames
<1>2. start \in Seq(PieceNames) /\ Len(start) >= 2 /\ start[2] = "code"
  BY <1>names
<1>3. length \in Seq(PieceNames) /\ end \in Seq(PieceNames)
  BY <1>names
<1>4. body \in Seq(PieceNames)
  BY <1>names, <1>1, IsASeq
<1>5. Pieces(a) = start \o length \o end \o body
  BY DEF Pieces
<1> HIDE DEF start, length, end, body
<1> DEFINE p1 == start \o length
           p2 == p1 \o end
           p3 == p2 \o body
<1>6. p1 \in Seq(PieceNames) /\ Len(p1) >= 2 /\ p1[2] = "code"
  BY <1>2, <1>3, SecondKept
<1> HIDE DEF p1
<1>7. p2 \in Seq(PieceNames) /\ Len(p2) >= 2 /\ p2[2] = "code"
  BY <1>3, <1>6, SecondKept
<1> HIDE DEF p2
<1>8. p3 \in Seq(PieceNames) /\ Len(p3) >= 2 /\ p3[2] = "code"
  BY <1>4, <1>7, SecondKept
<1> HIDE DEF p3
<1>9. Pieces(a) = p3
  BY <1>5 DEF p1, p2, p3
<1> QED BY <1>8, <1>9, LenProperties

(* A first segment of two pieces or more has the code in it.               *)
LEMMA FirstHasCode ==
    ASSUME NEW a \in Answers \cup {NoAnswer}, NEW d \in Nat, d >= 2, d <= Len(Pieces(a)),
           NEW m, m = 1
    PROVE  /\ Has(SubSeq(Pieces(a), m, d), "code")
           /\ SubSeq(Pieces(a), m, d) # <<>>
<1> DEFINE all == Pieces(a)
           ps == SubSeq(all, m, d)
<1>1. all \in Seq(PieceNames) /\ Len(all) \in Nat /\ all[2] = "code"
  BY PiecesSeq
<1>2. \A i \in 1..Len(all) : all[i] \in PieceNames
  BY <1>1, ElementOfSeq
<1>3. d <= Len(all)
  OBVIOUS
<1> HIDE DEF all
<1>4. \A i \in m..d : all[i] \in PieceNames
  BY <1>1, <1>2, <1>3
<1>5. /\ ps \in Seq(PieceNames) /\ Len(ps) = IF m <= d THEN d - m + 1 ELSE 0
      /\ \A i \in 1..d - m + 1 : ps[i] = all[m + i - 1]
  BY <1>4, SubSeqProperties
<1> HIDE DEF ps
<1>6. Len(ps) = d /\ ps[2] = all[2]
  <2>1. 2 \in 1..d - m + 1 /\ m + 2 - 1 = 2
    OBVIOUS
  <2>2. ps[2] = all[m + 2 - 1]
    BY <1>5, <2>1
  <2> QED BY <1>5, <2>1, <2>2
<1>7. DOMAIN ps = 1..d
  BY <1>5, <1>6, LenProperties
<1>8. 2 \in DOMAIN ps /\ ps[2] = "code" /\ ps # <<>>
  BY <1>1, <1>5, <1>6, <1>7
<1> QED BY <1>8 DEF Has, all, ps
-----------------------------------------------------------------------------
KInv(x) == Carry(x.c, x.n) /\ Reads(x.c, x.n)

(* Taking n bytes off the front and adding them to what was carried.       *)
LEMMA Taken ==
    ASSUME NEW s \in Seq(Int), NEW out \in Seq(Int), NEW n \in 0..Len(out)
    PROVE  /\ s \o SubSeq(out, 1, n) \in Seq(Int) /\ Rest(out, n) \in Seq(Int)
           /\ (s \o SubSeq(out, 1, n)) \o Rest(out, n) = s \o out
<1>1. /\ SubSeq(out, 1, n) \in Seq(Int) /\ Rest(out, n) \in Seq(Int)
      /\ SubSeq(out, 1, n) \o Rest(out, n) = out
  BY Parted
<1> DEFINE a == SubSeq(out, 1, n)
           b == Rest(out, n)
<1>2. a \in Seq(Int) /\ b \in Seq(Int) /\ a \o b = out
  BY <1>1
<1> HIDE DEF a, b
<1>3. s \o a \in Seq(Int)
  BY <1>2, ConcatProperties
<1>4. (s \o a) \o b = s \o (a \o b)
  <2>1. a \in Seq(Int) /\ b \in Seq(Int)
    BY <1>2
  <2> QED BY <2>1, Regrouped
<1> QED BY <1>2, <1>3, <1>4 DEF a, b

LEMMA SentKInv ==
    ASSUME NEW x, IsExchange(x), KInv(x), x.n.state # "none", NEW y \in Sent(x)
    PROVE  /\ KInv(y)
           /\ y.c.header = x.c.header /\ y.c.code = x.c.code
           /\ y.n.read = x.n.read /\ y.n.delivered = x.n.delivered /\ y.n.answer = x.n.answer
<1> DEFINE u == x.c.unsent
           q == x.c.queued
           out == u \o q
<1>1. u \in Seq(Int) /\ q \in Seq(Int) /\ x.n.sent \in Seq(Int)
  BY DEF KInv, Carry
<1>2. /\ out \in Seq(Int) /\ Len(out) = Len(u) + Len(q)
      /\ Len(u) \in Nat /\ Len(q) \in Nat
  BY <1>1, ConcatProperties, LenProperties
<1>3. PICK n \in IF x.n.state = "up" THEN 0..Len(u) + Len(q) ELSE {0} : y = SentSome(x, n)
  BY DEF Sent
<1>4. n \in 0..Len(out) /\ n \in Nat
  <2> HIDE DEF out, u, q
  <2>1. n \in 0..Len(u) + Len(q)
    BY <1>2, <1>3
  <2> QED BY <1>2, <2>1
<1> DEFINE part == [x.c EXCEPT !.unsent = Rest(@, n)]
           all == [x.c EXCEPT !.unsent = Rest(out, n), !.queued = <<>>]
           net == [x.n EXCEPT !.sent = @ \o SubSeq(out, 1, n)]
<1>5. y = [c |-> IF n < Len(u) THEN part ELSE all, n |-> net]
  BY <1>3 DEF SentSome
<1>6. /\ part.unsent = Rest(u, n) /\ part.queued = q
      /\ part.header = x.c.header /\ part.code = x.c.code
  BY DEF IsExchange, IsClient, ClientFields
<1>7. /\ all.unsent = Rest(out, n) /\ all.queued = <<>>
      /\ all.header = x.c.header /\ all.code = x.c.code
  BY DEF IsExchange, IsClient, ClientFields
<1>8. /\ net.sent = x.n.sent \o SubSeq(out, 1, n)
      /\ net.state = x.n.state /\ net.old = x.n.old /\ net.answer = x.n.answer
      /\ net.delivered = x.n.delivered /\ net.read = x.n.read /\ net.first = x.n.first
  BY DEF IsExchange, IsConn, ConnFields
<1>9. /\ net.sent \in Seq(Int) /\ Rest(out, n) \in Seq(Int)
      /\ net.sent \o Rest(out, n) = x.n.sent \o out
  <2> HIDE DEF out
  <2>1. /\ x.n.sent \o SubSeq(out, 1, n) \in Seq(Int) /\ Rest(out, n) \in Seq(Int)
        /\ (x.n.sent \o SubSeq(out, 1, n)) \o Rest(out, n) = x.n.sent \o out
    BY <1>1, <1>2, <1>4, Taken
  <2> QED BY <1>8, <2>1
<1>10. x.n.state # "none" => x.n.sent \o out = x.n.old \o Request
  BY DEF KInv, Carry
<1> HIDE DEF part, all, net
<1>11. Carry(y.c, y.n)
  <2>1. CASE n < Len(u)
    <3>1. y.c = part /\ y.n = net
      BY <1>5, <2>1
    <3>2. n \in 0..Len(u)
      BY <1>2, <1>4, <2>1
    <3>3. Rest(u, n) \in Seq(Int) /\ Rest(u, n) \o q = Rest(out, n)
      BY <1>1, <3>2, Parted, RestOfBoth
    <3> QED BY <1>1, <1>6, <1>8, <1>9, <1>10, <3>1, <3>3 DEF Carry
  <2>2. CASE ~(n < Len(u))
    <3>1. y.c = all /\ y.n = net
      BY <1>5, <2>2
    <3>2. Rest(out, n) \o <<>> = Rest(out, n) /\ <<>> \in Seq(Int)
      BY <1>9, ConcatEmptySeq
    <3> QED BY <1>7, <1>8, <1>9, <1>10, <3>1, <3>2 DEF Carry
  <2> QED BY <2>1, <2>2
<1>12. y.n = net /\ y.c.header = x.c.header /\ y.c.code = x.c.code
  BY <1>5, <1>6, <1>7
<1>13. Reads(y.c, y.n)
  BY <1>8, <1>12 DEF KInv, Reads
<1> QED BY <1>8, <1>11, <1>12, <1>13 DEF KInv

(* Parsing a segment leaves what is to be sent alone; the first one with   *)
(* the code in it sets the code, and later ones keep it.                   *)
Keeps(c, a, ps, d) ==
    /\ d.unsent = c.unsent /\ d.queued = c.queued
    /\ c.header => d.header = c.header /\ d.code = c.code
    /\ ~c.header => d.header = TRUE /\ (Has(ps, "code") => d.code = a.code)

LEMMA ParseKeeps ==
    ASSUME NEW c, NEW a, NEW ps, IsClient(c)
    PROVE  Keeps(c, a, ps, Parse(c, a, ps))
<1> DEFINE later == [c EXCEPT !.content = @ + Len(ps)]
           first == [c EXCEPT !.header = TRUE,
                              !.code = IF Has(ps, "code") THEN a.code ELSE @,
                              !.length = IF Has(ps, "length") THEN a.length ELSE @,
                              !.content = Len(SelectSeq(ps, LAMBDA p : p = "body"))]
<1>1. /\ IsClient(later) /\ later.unsent = c.unsent /\ later.queued = c.queued
      /\ later.header = c.header /\ later.code = c.code
  BY DEF IsClient, ClientFields
<1>2. /\ IsClient(first) /\ first.unsent = c.unsent /\ first.queued = c.queued
      /\ first.header = TRUE /\ (Has(ps, "code") => first.code = a.code)
  BY DEF IsClient, ClientFields
<1> HIDE DEF later, first
<1>3. ASSUME NEW d, IsClient(d), NEW e
      PROVE  /\ [d EXCEPT !.ended = e].unsent = d.unsent /\ [d EXCEPT !.ended = e].queued = d.queued
             /\ [d EXCEPT !.ended = e].header = d.header /\ [d EXCEPT !.ended = e].code = d.code
  BY <1>3 DEF IsClient, ClientFields
<1>4. Parse(c, a, ps) = IF c.header THEN [later EXCEPT !.ended = later.ended \/ Complete(later)]
                        ELSE [first EXCEPT !.ended = first.ended \/ (Has(ps, "end") /\ Complete(first))]
  BY DEF Parse, later, first
<1> QED BY <1>1, <1>2, <1>3, <1>4 DEF Keeps

(* recv keeps the invariant; when two pieces of the answer have arrived,   *)
(* it is what makes the code known.                                        *)
LEMMA RecvKInv ==
    ASSUME NEW x, IsExchange(x), KInv(x), NEW noticed \in BOOLEAN
    PROVE  /\ KInv(Recv(x, noticed))
           /\ ~x.c.header /\ x.n.delivered >= 2 => Recv(x, noticed).c.code = x.n.answer.code
           /\ x.c.header => Recv(x, noticed).c.code = x.c.code
<1> DEFINE all  == Pieces(x.n.answer)
           ps   == SubSeq(all, x.n.read + 1, x.n.delivered)
           read == IF ps = <<>> THEN x.c ELSE Parse(x.c, x.n.answer, ps)
           out  == [read EXCEPT !.valid = x.n.state = "up" /\ ~(x.n.eof /\ noticed)]
           net  == [x.n EXCEPT !.read = x.n.delivered,
                               !.first = IF x.c.header THEN @ ELSE x.n.delivered]
<1>1. /\ IsClient(x.c) /\ x.n.delivered \in Nat /\ x.n.read \in Nat /\ x.n.first \in Nat
      /\ x.n.read <= x.n.delivered /\ x.n.first <= x.n.delivered
      /\ x.n.answer \in Answers \cup {NoAnswer}
      /\ x.n.delivered <= Len(all)
      /\ ~x.c.header => x.n.read = 0
      /\ x.c.header /\ x.n.first >= 2 => x.c.code = x.n.answer.code
  BY DEF IsExchange, KInv, Reads
<1>2. ~x.c.header /\ x.n.delivered >= 2 => Has(ps, "code") /\ ps # <<>>
  <2> SUFFICES ASSUME ~x.c.header, x.n.delivered >= 2
               PROVE  Has(ps, "code") /\ ps # <<>>
    OBVIOUS
  <2> DEFINE m == x.n.read + 1
  <2>1. m = 1
    BY <1>1
  <2> HIDE DEF m
  <2>2. Has(SubSeq(all, m, x.n.delivered), "code") /\ SubSeq(all, m, x.n.delivered) # <<>>
    BY <1>1, <2>1, FirstHasCode
  <2> QED BY <2>2 DEF m
<1>3. ~x.c.header /\ ps = <<>> => x.n.delivered = 0
  <2> SUFFICES ASSUME ~x.c.header, x.n.delivered # 0
               PROVE  ps # <<>>
    OBVIOUS
  <2>1. all \in Seq(PieceNames) /\ Len(all) \in Nat
    BY <1>1, PiecesSeq
  <2>2. \A i \in 1..Len(all) : all[i] \in PieceNames
    BY <2>1, ElementOfSeq
  <2> DEFINE m == x.n.read + 1
  <2>3. m = 1
    BY <1>1
  <2> HIDE DEF all, m
  <2>4. \A i \in m..x.n.delivered : all[i] \in PieceNames
    BY <1>1, <2>1, <2>2, <2>3 DEF all
  <2>5. Len(SubSeq(all, m, x.n.delivered)) = IF m <= x.n.delivered THEN x.n.delivered - m + 1 ELSE 0
    BY <1>1, <2>3, <2>4, SubSeqProperties
  <2> DEFINE seg == SubSeq(all, m, x.n.delivered)
  <2> HIDE DEF seg
  <2>6. Len(seg) # 0
    BY <1>1, <2>3, <2>5 DEF seg
  <2>none. Len(<<>>) = 0
    OBVIOUS
  <2>7. seg # <<>>
    BY <2>6, <2>none
  <2>8. SubSeq(all, m, x.n.delivered) # <<>>
    BY <2>7 DEF seg
  <2> QED BY <2>8 DEF all, m
<1>4. /\ IsClient(read) /\ read.unsent = x.c.unsent /\ read.queued = x.c.queued
      /\ x.c.header => read.header = x.c.header /\ read.code = x.c.code
      /\ ~x.c.header /\ ps = <<>> => read.header = x.c.header
      /\ ~x.c.header /\ ps # <<>> => /\ read.header = TRUE
                                     /\ Has(ps, "code") => read.code = x.n.answer.code
  <2> DEFINE parsed == Parse(x.c, x.n.answer, ps)
  <2> HIDE DEF ps
  <2>1. IsClient(parsed)
    BY <1>1, ParseCode
  <2>2. /\ parsed.unsent = x.c.unsent /\ parsed.queued = x.c.queued
        /\ x.c.header => parsed.header = x.c.header /\ parsed.code = x.c.code
        /\ ~x.c.header => /\ parsed.header = TRUE
                          /\ Has(ps, "code") => parsed.code = x.n.answer.code
    <3>1. Keeps(x.c, x.n.answer, ps, parsed)
      BY <1>1, ParseKeeps
    <3> HIDE DEF parsed
    <3> QED BY <3>1 DEF Keeps
  <2> HIDE DEF parsed
  <2>3. read = IF ps = <<>> THEN x.c ELSE parsed
    BY DEF parsed
  <2> HIDE DEF read
  <2>4. CASE ps = <<>>
    BY <1>1, <2>3, <2>4
  <2>5. CASE ps # <<>>
    BY <2>1, <2>2, <2>3, <2>5
  <2> QED BY <2>4, <2>5
<1> HIDE DEF read
<1>5. /\ out.unsent = read.unsent /\ out.queued = read.queued
      /\ out.header = read.header /\ out.code = read.code
  BY <1>4 DEF IsClient, ClientFields
<1>6. /\ net.state = x.n.state /\ net.sent = x.n.sent /\ net.old = x.n.old
      /\ net.answer = x.n.answer /\ net.delivered = x.n.delivered /\ net.read = x.n.delivered
      /\ net.first = IF x.c.header THEN x.n.first ELSE x.n.delivered
  BY DEF IsExchange, IsConn, ConnFields
<1>7. Recv(x, noticed) = [c |-> out, n |-> net]
  BY DEF Recv, read
<1> HIDE DEF out, net, ps, all
<1>8. Recv(x, noticed).c = out /\ Recv(x, noticed).n = net
  BY <1>7
<1>9. Carry(out, net)
  BY <1>4, <1>5, <1>6 DEF KInv, Carry
<1>10. Reads(out, net)
  <2>1. ~out.header => x.n.delivered = 0
    BY <1>3, <1>4, <1>5
  <2>2. out.header /\ net.first >= 2 => out.code = net.answer.code
    BY <1>1, <1>2, <1>3, <1>4, <1>5, <1>6
  <2>3. /\ net.answer # NoAnswer => net.state = "up"
        /\ net.delivered > 0 => net.answer # NoAnswer
        /\ net.delivered <= Len(Pieces(net.answer))
    BY <1>1, <1>6 DEF KInv, Reads, all
  <2> QED BY <1>1, <1>6, <2>1, <2>2, <2>3 DEF Reads
<1> QED BY <1>2, <1>4, <1>5, <1>8, <1>9, <1>10 DEF KInv

LEMMA HandledKInv ==
    ASSUME NEW x, IsExchange(x), KInv(x), NEW y \in Handled(x)
    PROVE  /\ KInv(y)
           /\ x.c.header => y.c.code = x.c.code
           /\ ~x.c.header /\ x.c.valid /\ x.n.delivered >= 2 => y.c.code = x.n.answer.code
<1>1. CASE x.c.valid /\ x.n.state \in {"up", "refused"}
  <2>1. PICK z \in Sent(x), noticed \in BOOLEAN : y = Recv(z, noticed)
    BY <1>1 DEF Handled
  <2>2. /\ IsExchange(z) /\ KInv(z)
        /\ z.c.header = x.c.header /\ z.c.code = x.c.code
        /\ z.n.delivered = x.n.delivered /\ z.n.answer = x.n.answer
    BY <1>1, SentCode, SentKInv
  <2> QED BY <2>1, <2>2, RecvKInv
<1>2. CASE ~(x.c.valid /\ x.n.state \in {"up", "refused"})
  <2>1. y = x
    BY <1>2 DEF Handled
  <2>2. x.c.valid /\ x.n.delivered >= 2 => FALSE
    BY <1>2 DEF KInv, Reads
  <2> QED BY <2>1, <2>2
<1> QED BY <1>1, <1>2

(* What is left of earlier requests goes to a new connection marked as     *)
(* such.                                                                   *)
LEMMA EarlierSeq ==
    ASSUME NEW u \in Seq(Int)
    PROVE  Earlier(u) \in Seq(Int)
<1>1. Len(u) \in Nat /\ DOMAIN u = 1..Len(u)
  BY LenProperties
<1>2. \A i \in 1..Len(u) : u[i] \in Int
  BY ElementOfSeq
<1>3. Earlier(u) = [i \in 1..Len(u) |-> IF u[i] > 0 THEN -u[i] ELSE u[i]]
  BY <1>1 DEF Earlier
<1>4. \A i \in 1..Len(u) : (IF u[i] > 0 THEN -u[i] ELSE u[i]) \in Int
  BY <1>2
<1> QED BY <1>1, <1>3, <1>4, IsASeq

LEMMA FreshReads ==
    ASSUME NEW c, NEW n, ~c.header, n.delivered = 0, n.read = 0, n.first = 0, n.answer = NoAnswer
    PROVE  Reads(c, n)
<1>1. Len(Pieces(NoAnswer)) \in Nat
  BY PiecesSeq
<1> QED BY <1>1 DEF Reads

LEMMA ConnectingKInv ==
    ASSUME NEW x, IsExchange(x), KInv(x), NEW o \in {"connecting", "up", "refused"}
    PROVE  KInv(Connecting(x, o)) /\ IsExchange(Connecting(x, o))
<1> DEFINE neg == Earlier(x.c.unsent)
           new == [x.c EXCEPT !.fd = TRUE, !.valid = TRUE, !.header = FALSE, !.length = NoLength,
                       !.content = 0, !.ended = FALSE, !.queued = Request, !.unsent = neg]
           net == [NoConn EXCEPT !.state = o, !.old = neg]
<1>1. neg \in Seq(Int)
  BY EarlierSeq DEF KInv, Carry
<1> HIDE DEF neg
<1>2. IsClient(new) /\ new.unsent = neg /\ new.queued = Request /\ ~new.header
  <2> DEFINE d == [x.c EXCEPT !.fd = TRUE, !.valid = TRUE, !.header = FALSE, !.length = NoLength]
             e == [d EXCEPT !.content = 0, !.ended = FALSE]
  <2>1. IsClient(d) /\ ~d.header
    BY DEF IsExchange, IsClient, ClientFields
  <2> HIDE DEF d
  <2>2. IsClient(e) /\ ~e.header
    BY <2>1 DEF IsClient, ClientFields
  <2>3. new = [e EXCEPT !.queued = Request, !.unsent = neg]
    BY DEF d
  <2> HIDE DEF e, new
  <2>4. IsClient(new)
    BY <2>2, <2>3 DEF IsClient, ClientFields
  <2>5. new.unsent = neg /\ new.queued = Request /\ ~new.header
    BY <2>2, <2>3 DEF IsClient, ClientFields
  <2> QED BY <2>4, <2>5
<1>3. /\ IsConn(net) /\ net.state = o /\ net.sent = <<>> /\ net.old = neg
      /\ net.answer = NoAnswer /\ net.delivered = 0 /\ net.read = 0 /\ net.first = 0
  BY DEF NoConn, IsConn, ConnFields
<1>4. Connecting(x, o) = [c |-> new, n |-> net]
  BY DEF Connecting, neg
<1> HIDE DEF new, net
<1>5. Connecting(x, o).c = new /\ Connecting(x, o).n = net
  BY <1>4
<1>6. Carry(new, net)
  <2>1. <<>> \in Seq(Int)
    OBVIOUS
  <2>2. neg \o Request \in Seq(Int)
    BY <1>1, RequestSeq, Joined
  <2>3. <<>> \o (neg \o Request) = neg \o Request
    BY <2>2, ConcatEmptySeq
  <2> QED BY <1>1, <1>2, <1>3, <2>1, <2>3, RequestSeq DEF Carry
<1>7. Reads(new, net)
  BY <1>2, <1>3, FreshReads
<1> QED BY <1>2, <1>3, <1>4, <1>5, <1>6, <1>7 DEF KInv, IsExchange

LEMMA OpenedKInv ==
    ASSUME NEW x, IsExchange(x), KInv(x), NEW y \in Opened(x)
    PROVE  KInv(y)
<1> DEFINE new == [x.c EXCEPT !.late = FALSE, !.due = FALSE]
           b == Begun(x)
<1>1. /\ IsClient(new) /\ new.unsent = x.c.unsent /\ new.queued = x.c.queued
      /\ new.header = x.c.header /\ new.code = x.c.code
  BY DEF IsExchange, IsClient, ClientFields
<1>2. b = [c |-> new, n |-> x.n]
  BY DEF Begun
<1> HIDE DEF new, b
<1>3. IsExchange(b) /\ b.c = new /\ b.n = x.n
  BY <1>1, <1>2 DEF IsExchange
<1>4. KInv(b)
  BY <1>1, <1>3 DEF KInv, Carry, Reads
<1>5. y = b \/ \E o \in {"connecting", "up", "refused"} : y \in Handled(Connecting(b, o))
  BY DEF Opened, b
<1> QED BY <1>3, <1>4, <1>5, ConnectingKInv, HandledKInv

(* A closed client keeps what it had not sent.                             *)
LEMMA CloseKInv ==
    ASSUME NEW x, IsExchange(x), KInv(x)
    PROVE  KInv(Close(x)) /\ IsExchange(Close(x))
<1> DEFINE new == [x.c EXCEPT !.fd = FALSE, !.valid = FALSE, !.header = FALSE, !.length = NoLength,
                       !.content = 0, !.ended = FALSE, !.queued = <<>>]
           none == NoConn
<1>1. IsClient(new) /\ new.unsent = x.c.unsent /\ new.queued = <<>> /\ ~new.header
  BY DEF IsExchange, IsClient, ClientFields
<1>2. /\ IsConn(none) /\ none.state = "none" /\ none.sent = <<>>
      /\ none.answer = NoAnswer /\ none.delivered = 0 /\ none.read = 0 /\ none.first = 0
  BY DEF NoConn, IsConn, ConnFields
<1>3. Close(x) = [c |-> new, n |-> none]
  BY DEF Close
<1> HIDE DEF new, none
<1>4. Close(x).c = new /\ Close(x).n = none
  BY <1>3
<1>5. Carry(new, none)
  <2>1. <<>> \in Seq(Int)
    OBVIOUS
  <2> QED BY <1>1, <1>2, <2>1 DEF KInv, Carry
<1>6. Reads(new, none)
  BY <1>1, <1>2, FreshReads
<1> QED BY <1>1, <1>2, <1>3, <1>4, <1>5, <1>6 DEF KInv, IsExchange

LEMMA DiscardedKInv == KInv(Discarded)
<1>1. /\ Discarded.c.unsent = <<>> /\ Discarded.c.queued = <<>> /\ ~Discarded.c.header
      /\ Discarded.n.state = "none" /\ Discarded.n.sent = <<>> /\ Discarded.n.answer = NoAnswer
      /\ Discarded.n.delivered = 0 /\ Discarded.n.read = 0 /\ Discarded.n.first = 0
  BY DEF Discarded, NewClient, NoConn
<1>2. <<>> \in Seq(Int)
  OBVIOUS
<1>3. Carry(Discarded.c, Discarded.n)
  BY <1>1, <1>2 DEF Carry
<1>4. Reads(Discarded.c, Discarded.n)
  BY <1>1, FreshReads
<1> QED BY <1>3, <1>4 DEF KInv
-----------------------------------------------------------------------------
KState == Carry(client, conn) /\ Reads(client, conn)

LEMMA ExchangeKInv == KState <=> KInv(Exchange)
<1>1. Exchange.c = client /\ Exchange.n = conn
  BY DEF Exchange
<1> QED BY <1>1 DEF KState, KInv

LEMMA BecomesKState ==
    ASSUME NEW x, KInv(x), Becomes(x)
    PROVE  KState'
<1>1. client' = x.c /\ conn' = x.n
  BY DEF Becomes
<1> QED BY <1>1 DEF KState, KInv, Carry, Reads

LEMMA DataKState ==
    ASSUME NEW r, NEW x, KInv(x), Data(r, x)
    PROVE  KState'
<1>1. CASE Becomes(x)
  BY <1>1, BecomesKState
<1>2. ASSUME NEW y \in Opened(Discarded), Becomes(y)
      PROVE  KState'
  BY <1>2, DiscardedShape, DiscardedKInv, OpenedKInv, BecomesKState
<1> QED BY <1>1, <1>2 DEF Data

(* The user's own steps. *)
LEMMA UserKState ==
    ASSUME GInv, KState, OnConnect \/ Handle \/ Delete \/ StatOpen \/ StatLoop
    PROVE  KState'
<1>1. IsExchange(Exchange) /\ KInv(Exchange)
  BY ExchangeShape, ExchangeKInv
<1>2. CASE OnConnect \/ StatOpen
  <2>1. PICK x \in Opened(Exchange) : Becomes(x)
    BY <1>2 DEF OnConnect, StatOpen
  <2> QED BY <1>1, <2>1, OpenedKInv, BecomesKState
<1>3. CASE Handle
  <2>1. CASE (role.passed \/ ~role.hook) /\ Data(role, Exchange)
    BY <1>1, <2>1, DataKState
  <2>2. ASSUME NEW x \in Handled(Exchange), Becomes(x)
        PROVE  KState'
    BY <1>1, <2>2, HandledKInv, BecomesKState
  <2>3. CASE Data([role EXCEPT !.passed = TRUE, !.hook = FALSE], Discarded)
    <3> DEFINE r == [role EXCEPT !.passed = TRUE, !.hook = FALSE]
    <3>1. Data(r, Discarded)
      BY <2>3
    <3> HIDE DEF r
    <3> QED BY <3>1, DiscardedKInv, DataKState
  <2>4. CASE Becomes(Discarded)
    BY <2>4, DiscardedKInv, BecomesKState
  <2> QED BY <1>3, <2>1, <2>2, <2>3, <2>4 DEF Handle
<1>4. CASE Delete
  <2>1. Becomes(Discarded)
    BY <1>4 DEF Delete
  <2> QED BY <2>1, DiscardedKInv, BecomesKState
<1>5. CASE StatLoop
  <2>1. PICK y \in IF ~client.valid /\ client.due THEN Opened(Close(Exchange)) ELSE {Exchange} :
          \E x \in Handled(y) : Becomes(IF Decided(x.c) THEN Close(x) ELSE x)
    BY <1>5 DEF StatLoop
  <2>2. PICK x \in Handled(y) : Becomes(IF Decided(x.c) THEN Close(x) ELSE x)
    BY <2>1
  <2>3. IsExchange(y) /\ KInv(y)
    BY <1>1, CloseKInv, OpenedKInv, OpenedCode
  <2>4. IsExchange(x) /\ KInv(x)
    BY <2>3, HandledCode, HandledKInv
  <2>5. KInv(Close(x))
    BY <2>4, CloseKInv
  <2> QED BY <2>2, <2>4, <2>5, BecomesKState
<1> QED BY <1>2, <1>3, <1>4, <1>5

(* The network's: an answer comes to a connection that has delivered none. *)
LEMMA NetworkKState ==
    ASSUME GInv, KState,
           Connected("up") \/ Connected("refused") \/ Deliver \/ HangUp \/ \E a \in Answers : Answer(a)
    PROVE  KState'
<1>1. client' = client /\ IsConn(conn)
  BY DEF GInv, Shape, Connected, Deliver, HangUp, Answer
<1>2. ASSUME NEW o \in {"up", "refused"}, Connected(o)
      PROVE  KState'
  <2>1. conn.state = "connecting" /\ conn' = [conn EXCEPT !.state = o]
    BY <1>2 DEF Connected
  <2>2. /\ conn'.state = o /\ conn'.sent = conn.sent /\ conn'.old = conn.old
        /\ conn'.answer = conn.answer /\ conn'.delivered = conn.delivered
        /\ conn'.read = conn.read /\ conn'.first = conn.first
    BY <1>1, <2>1 DEF IsConn, ConnFields
  <2>3. conn.answer = NoAnswer
    BY <2>1 DEF KState, Reads
  <2>4. Reads(client', conn')
    BY <1>1, <2>2, <2>3 DEF KState, Reads
  <2>5. Carry(client', conn')
    BY <1>1, <1>2, <2>1, <2>2 DEF KState, Carry
  <2> QED BY <2>4, <2>5 DEF KState
<1>3. CASE Deliver
  <2>1. PICK d \in conn.delivered+1..Len(Pieces(conn.answer)) :
          conn' = [conn EXCEPT !.delivered = d]
    BY <1>3 DEF Deliver
  <2>2. /\ conn'.state = conn.state /\ conn'.sent = conn.sent /\ conn'.old = conn.old
        /\ conn'.answer = conn.answer /\ conn'.delivered = d
        /\ conn'.read = conn.read /\ conn'.first = conn.first
    BY <1>1, <2>1 DEF IsConn, ConnFields
  <2>3. /\ conn.delivered \in Nat /\ conn.read \in Nat /\ conn.first \in Nat
        /\ conn.read <= conn.delivered /\ conn.first <= conn.delivered
        /\ conn.answer \in Answers \cup {NoAnswer} /\ conn.answer # NoAnswer
    BY <1>3 DEF KState, Reads, Deliver
  <2>4. Len(Pieces(conn.answer)) \in Nat
    BY <2>3, PiecesSeq
  <2>5. d \in Nat /\ conn.read <= d /\ conn.first <= d /\ d <= Len(Pieces(conn.answer))
    BY <2>1, <2>3, <2>4
  <2>6. Reads(client', conn')
    BY <1>1, <2>2, <2>3, <2>5 DEF KState, Reads
  <2> QED BY <1>1, <2>2, <2>6 DEF KState, Carry
<1>4. CASE HangUp
  <2>1. conn' = [conn EXCEPT !.eof = TRUE]
    BY <1>4 DEF HangUp
  <2>2. /\ conn'.state = conn.state /\ conn'.sent = conn.sent /\ conn'.old = conn.old
        /\ conn'.answer = conn.answer /\ conn'.delivered = conn.delivered
        /\ conn'.read = conn.read /\ conn'.first = conn.first
    BY <1>1, <2>1 DEF IsConn, ConnFields
  <2> QED BY <1>1, <2>2 DEF KState, Carry, Reads
<1>5. ASSUME NEW a \in Answers, Answer(a)
      PROVE  KState'
  <2>1. conn' = [conn EXCEPT !.answer = a] /\ conn.state = "up" /\ conn.answer = NoAnswer
    BY <1>5 DEF Answer
  <2>2. /\ conn'.state = conn.state /\ conn'.sent = conn.sent /\ conn'.old = conn.old
        /\ conn'.answer = a /\ conn'.delivered = conn.delivered
        /\ conn'.read = conn.read /\ conn'.first = conn.first
    BY <1>1, <2>1 DEF IsConn, ConnFields
  <2>3. conn.delivered = 0 /\ conn.read = 0 /\ conn.first = 0
    BY <2>1 DEF KState, Reads
  <2>4. Len(Pieces(a)) \in Nat
    BY PiecesSeq
  <2>5. Reads(client', conn')
    BY <1>1, <2>1, <2>2, <2>3, <2>4 DEF KState, Reads
  <2> QED BY <1>1, <2>2, <2>5 DEF KState, Carry
<1>6. Connected("up") => KState'
  BY <1>2
<1>7. Connected("refused") => KState'
  BY <1>2
<1> QED BY <1>3, <1>4, <1>5, <1>6, <1>7

LEMMA ClockKState ==
    ASSUME GInv, KState, TimeOut \/ IntervalOver \/ Break \/ Elapse
    PROVE  KState'
<1>1. /\ conn' = conn /\ client'.unsent = client.unsent /\ client'.queued = client.queued
      /\ client'.header = client.header /\ client'.code = client.code
  BY DEF GInv, Shape, TimeOut, IntervalOver, Break, Elapse, IsClient, ClientFields, ghosts
<1> QED BY <1>1 DEF KState, Carry, Reads

LEMMA KInvariance == Spec => [](GInv /\ KState)
<1>1. Init => GInv /\ KState
  <2>1. Init => KInv(Exchange)
    <3> SUFFICES ASSUME Init PROVE KInv(Exchange)
      OBVIOUS
    <3>1. Exchange = Discarded
      BY DEF Init, Exchange, Discarded
    <3> QED BY <3>1, DiscardedKInv
  <2> QED BY <2>1, InitGInv, ExchangeKInv
<1>2. GInv /\ KState /\ [Next]_vars => KState'
  <2> SUFFICES ASSUME GInv, KState, [Next]_vars PROVE KState'
    OBVIOUS
  <2>1. CASE UNCHANGED vars
    BY <2>1 DEF vars, KState, Carry, Reads
  <2>2. CASE Reap \/ Clear
    BY <2>2, UserKState DEF Reap, Clear
  <2> QED BY <2>1, <2>2, UserKState, NetworkKState, ClockKState DEF Next
<1> QED BY <1>1, <1>2, GInvariance, PTL DEF Spec
-----------------------------------------------------------------------------
(* A connection carries what was left of earlier requests and then its own *)
(* request, whole and once, however send is interrupted.                   *)
THEOREM OwnRequestCarried == Spec => []CarriesOwnRequest
<1>1. KState => CarriesOwnRequest
  BY DEF KState, Carry, CarriesOwnRequest
<1> QED BY <1>1, KInvariance, PTL

(* A 200 that was read with the status line in one piece is never taken    *)
(* for a refusal: the role is let in, or was deleted.                      *)
THEOREM ReadAnswerIsRespected == Spec => ReadIsRespected
<1>1. ASSUME GInv, KState, [Next]_vars, said = "200", StatusRead, role.hook, ~role'.hook,
             ~role'.passed, role'.held
      PROVE  FALSE
  <2>1. role # role' /\ role \in Roles
    BY <1>1 DEF GInv, Shape
  <2>2. CASE Break \/ Elapse
    BY <1>1, <2>1, <2>2 DEF Break, Elapse, Roles
  <2>3. CASE Delete
    BY <1>1, <2>1, <2>3 DEF Delete, Invalid, Roles
  <2>4. CASE Handle
    <3>1. user = "role" /\ role.held /\ asked # <<>>
      BY <2>4 DEF Handle
    <3>2. CASE (role.passed \/ ~role.hook) /\ Data(role, Exchange)
      <4>1. role.passed
        BY <1>1, <3>2
      <4> QED BY <1>1, <2>1, <3>2, <4>1 DEF Data, Invalid, Roles
    <3>3. CASE Data([role EXCEPT !.passed = TRUE, !.hook = FALSE], Discarded)
      <4> DEFINE r == [role EXCEPT !.passed = TRUE, !.hook = FALSE]
      <4>1. r \in Roles /\ r.passed
        BY <2>1 DEF Roles
      <4>2. Data(r, Discarded)
        BY <3>3
      <4> HIDE DEF r
      <4>3. role'.passed
        BY <4>1, <4>2 DEF Data, Invalid, Roles
      <4> QED BY <1>1, <4>3
    <3>4. ASSUME ~role.passed, NEW x \in Handled(Exchange), x.c.code # "200"
          PROVE  FALSE
      <4>1. asked = <<"on_connect">>
        BY <1>1, <3>1, <3>4 DEF GInv, Reported
      <4>2. conn.delivered >= 2
        BY <1>1 DEF KState, Reads, StatusRead
      <4>3. conn.state = "up"
        BY <1>1, <4>2 DEF KState, Reads
      <4>4. conn.answer.code = "200"
        BY <1>1, <4>1, <4>3 DEF GInv, Asking
      <4>5. Exchange.c = client /\ Exchange.n = conn /\ IsExchange(Exchange) /\ KInv(Exchange)
        BY <1>1, ExchangeShape, ExchangeKInv DEF Exchange
      <4>6. CASE client.header
        <5>1. client.code = conn.answer.code
          BY <1>1, <4>6 DEF KState, Reads, StatusRead
        <5>2. x.c.code = client.code
          BY <3>4, <4>5, <4>6, HandledKInv
        <5> QED BY <3>4, <4>4, <5>1, <5>2
      <4>7. CASE ~client.header
        <5>1. client.valid
          BY <1>1, <4>7 DEF StatusRead
        <5>2. x.c.code = conn.answer.code
          BY <3>4, <4>2, <4>5, <4>7, <5>1, HandledKInv
        <5> QED BY <3>4, <4>4, <5>2
      <4> QED BY <4>6, <4>7
    <3> QED BY <1>1, <2>1, <2>4, <3>2, <3>3, <3>4 DEF Handle
  <2> QED BY <1>1, <2>1, <2>2, <2>3, <2>4
          DEF Next, vars, ghosts, OnConnect, StatLoop, StatOpen, Connected, Answer, Deliver, HangUp,
              TimeOut, IntervalOver, Reap, Clear
<1>2. GInv /\ KState /\ [Next]_vars
        => [said = "200" /\ StatusRead /\ role.hook /\ ~role'.hook
              => role'.passed \/ ~role'.held]_vars
  BY <1>1
<1> QED BY <1>2, KInvariance, PTL DEF Spec, ReadIsRespected
=============================================================================
