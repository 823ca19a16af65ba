------------------------------ MODULE HttpGate ------------------------------
(***************************************************************************)
(* CHttpClient, on top of CTCPRole, and its two users: a role whose server *)
(* block has an on_event_url, which moves no data until its on_connect     *)
(* request was answered 200, and main(), which posts the statistics again  *)
(* every stat_post_interval.  In a behaviour the client belongs to one of  *)
(* them, which is its only thread.  The TCP connection, the HTTP server    *)
(* and the clock are the environment.                                      *)
(*                                                                         *)
(* A request is one put into the empty CSLSArray (no user has a callback   *)
(* that adds content), shorter than HTTP_DATA_SIZE: the first get takes    *)
(* all of it to m_out_data.  Byte i of the request of this connection is   *)
(* i, byte i of an earlier one -i.  An answer is a sequence of pieces,     *)
(* which arrive in any segments.                                           *)
(***************************************************************************)
EXTENDS Integers, Sequences

CONSTANTS RequestLen,  \* bytes of a request
          BodyLens,    \* lengths of an answer's body
          Codes        \* status codes the HTTP server answers, "200" among them

ASSUME HttpAssumption == RequestLen \in Nat \ {0} /\ BodyLens \subseteq Nat /\ "200" \in Codes

VARIABLES user,    \* "role" or "stat"
          client,  \* the CHttpClient
          conn,    \* its connection, as the outside sees it
          role,    \* the CSLSRole, when that is the user
          moved,   \* ghost: has the role read or sent stream data
          asked,   \* ghost: the webhooks the role has opened
          said,    \* ghost: the server's answer to on_connect
          told,    \* ghost: on_close requests that got out whole
          reloads  \* reloads of the server so far (at most one)

ghosts == <<moved, asked, said, told>>
vars == <<user, client, conn, role, ghosts, reloads>>

NoCode == "none"
NoLength == -1
NoAnswer == [code |-> NoCode, length |-> NoLength, body |-> 0]
Answers == {a \in [code : Codes, length : BodyLens \cup {NoLength}, body : BodyLens] :
              a.length \in {NoLength, a.body}}

Request == [i \in 1..RequestLen |-> i]

(* A new client; fd is m_fd > 0, late and due say that m_timeout and       *)
(* m_interval have passed since m_begin_tm_ms.                             *)
NewClient == [fd |-> FALSE, valid |-> FALSE, queued |-> <<>>, unsent |-> <<>>, header |-> FALSE,
              code |-> NoCode, length |-> NoLength, content |-> 0, ended |-> FALSE,
              late |-> FALSE, due |-> FALSE]

(* read and first: pieces read so far, and by the first read; delivered:   *)
(* pieces in the socket's buffer or read; old: ghost, what was left of     *)
(* earlier requests when the connection was opened.                        *)
NoConn == [state |-> "none", sent |-> <<>>, old |-> <<>>, answer |-> NoAnswer,
           delivered |-> 0, read |-> 0, first |-> 0, eof |-> FALSE]
-----------------------------------------------------------------------------
(* The client.  An exchange x is a client with its connection; Sent(x),    *)
(* Handled(x) and Opened(x) are the exchanges a call may leave, depending  *)
(* on what the socket takes and says.                                      *)

(* send: what is left in m_out_data goes first, then what is queued.       *)
StaleStart(out, n) == SubSeq(out, 1, Len(out) - n)

Rest(out, n) == SubSeq(out, n + 1, Len(out))

SentSome(x, n) ==
    LET out == x.c.unsent \o x.c.queued
    IN  [c |-> IF n < Len(x.c.unsent)
               THEN [x.c EXCEPT !.unsent = Rest(@, n)]
               ELSE [x.c EXCEPT !.unsent = Rest(out, n), !.queued = <<>>],
         n |-> [x.n EXCEPT !.sent = @ \o SubSeq(out, 1, n)]]

Sent(x) ==
    {SentSome(x, n) : n \in IF x.n.state = "up" THEN 0..Len(x.c.unsent) + Len(x.c.queued) ELSE {0}}

(* The pieces of an answer: the status line can be cut before its code.    *)
Pieces(a) ==
    <<"protocol", "code">> \o (IF a.length = NoLength THEN <<>> ELSE <<"length">>)
      \o <<"end">> \o [i \in 1..a.body |-> "body"]

Has(ps, piece) == \E i \in DOMAIN ps : ps[i] = piece
Complete(c) == c.length = c.content

(* parse_http_response.  The first segment is the header, whether its end  *)
(* is in it or not: sls_split_string returns one part when it finds no     *)
(* separator, never none.                                                  *)
ParseAlways(c, a, ps) ==
    [c EXCEPT !.header = TRUE,
              !.code = IF Has(ps, "protocol") /\ Has(ps, "code") THEN a.code ELSE NoCode,
              !.length = IF Has(ps, "length") THEN a.length ELSE @,
              !.content = Len(SelectSeq(ps, LAMBDA p : p = "body"))]

Parse(c, a, ps) ==
    LET later == [c EXCEPT !.content = @ + Len(ps)]
        first == [c EXCEPT !.header = TRUE,
                           !.code = IF Has(ps, "code") THEN a.code ELSE @,
                           !.length = IF Has(ps, "length") THEN a.length ELSE @,
                           !.content = Len(SelectSeq(ps, LAMBDA p : p = "body"))]
    IN  IF c.header THEN [later EXCEPT !.ended = @ \/ Complete(later)]
        ELSE [first EXCEPT !.ended = @ \/ (Has(ps, "end") /\ Complete(first))]

(* recv reads all there is.  A read of nothing closes the client unless    *)
(* errno is EAGAIN, which an orderly end of the connection does not set:   *)
(* whether it is noticed depends on an earlier call's errno.               *)
Recv(x, noticed) ==
    LET ps   == SubSeq(Pieces(x.n.answer), x.n.read + 1, x.n.delivered)
        read == IF ps = <<>> THEN x.c ELSE Parse(x.c, x.n.answer, ps)
    IN  [c |-> [read EXCEPT !.valid = x.n.state = "up" /\ ~(x.n.eof /\ noticed)],
         n |-> [x.n EXCEPT !.read = x.n.delivered,
                           !.first = IF x.c.header THEN @ ELSE x.n.delivered]]

(* handler: select, send, recv.  A socket that is still connecting is      *)
(* ready for neither, a refused one for both.                              *)
Handled(x) ==
    IF x.c.valid /\ x.n.state \in {"up", "refused"}
    THEN {Recv(y, noticed) : y \in Sent(x), noticed \in BOOLEAN}
    ELSE {x}

(* check_finished, check_timeout. *)
Finished(c) == ~c.fd \/ Complete(c)

NeverLate(c) == ~c.fd \/ (c.ended /\ ~Complete(c))

TimedOut(c) == ~c.fd \/ (IF c.ended THEN ~Complete(c) ELSE c.late)

(* open.  Its connect fails, or is under way, done or refused when handler *)
(* looks.  A client that is still open fails in setup.  What is left in    *)
(* m_out_data stays there.                                                 *)
Begun(x) == [c |-> [x.c EXCEPT !.late = FALSE, !.due = FALSE], n |-> x.n]

Earlier(out) == [i \in DOMAIN out |-> IF out[i] > 0 THEN -out[i] ELSE out[i]]

Connecting(x, outcome) ==
    [c |-> [x.c EXCEPT !.fd = TRUE, !.valid = TRUE, !.header = FALSE, !.length = NoLength,
                       !.content = 0, !.ended = FALSE, !.queued = Request, !.unsent = Earlier(@)],
     n |-> [NoConn EXCEPT !.state = outcome, !.old = Earlier(x.c.unsent)]]

Opened(x) ==
    IF x.c.fd THEN {Begun(x)}
    ELSE {Begun(x)} \cup UNION {Handled(Connecting(Begun(x), o)) : o \in {"connecting", "up", "refused"}}

CloseKeepsValid(x) ==
    [c |-> [x.c EXCEPT !.fd = FALSE, !.header = FALSE, !.length = NoLength,
                       !.content = 0, !.ended = FALSE, !.queued = <<>>],
     n |-> NoConn]

Close(x) ==
    [c |-> [x.c EXCEPT !.fd = FALSE, !.valid = FALSE, !.header = FALSE, !.length = NoLength,
                       !.content = 0, !.ended = FALSE, !.queued = <<>>],
     n |-> NoConn]

Exchange == [c |-> client, n |-> conn]
Becomes(x) == client' = x.c /\ conn' = x.n
Discarded == [c |-> NewClient, n |-> NoConn]
-----------------------------------------------------------------------------
Init ==
    /\ user \in {"role", "stat"}
    /\ client = NewClient /\ conn = NoConn
    /\ role = [held |-> TRUE, srt |-> "up", hook |-> TRUE, passed |-> FALSE, idle |-> FALSE]
    /\ moved = FALSE /\ asked = <<>> /\ said = NoCode /\ told = 0
    /\ reloads = 0

(* set_http_url and on_connect, in the listener. *)
OnConnect ==
    /\ user = "role" /\ asked = <<>>
    /\ \E x \in Opened(Exchange) : Becomes(x)
    /\ asked' = <<"on_connect">>
    /\ UNCHANGED <<user, role, moved, said, told, reloads>>

KeepSocket(r) == r

(* invalid_srt: the socket is closed and m_srt is NULL from now on ... *)
Invalid(r) == [r EXCEPT !.srt = "closed"]

(* ... and the first time on_close asks again, if the role was let in.     *)
OnCloseAgain(r) == r.passed

OnClose(r) == r.passed /\ r.srt # "closed"

AskedToClose(r) == IF OnClose(r) THEN Append(asked, "on_close") ELSE asked

(* What the open of on_close leaves; nothing drives it on, so the server   *)
(* is told by that one call of handler or not at all.                      *)
Told(y) == told + (IF y.n.sent = Request THEN 1 ELSE 0)

(* handler_read_data or handler_write_data once the gate lets it through.  *)
(* When the socket is broken the read fails and the group calls            *)
(* invalid_srt; the request of on_close is then under way in a new client. *)
Data(r, x) ==
    IF r.srt # "broken"
    THEN /\ moved' = (moved \/ r.srt = "up")
         /\ role' = [r EXCEPT !.idle = @ /\ r.srt # "up"]
         /\ Becomes(x)
         /\ UNCHANGED <<asked, told>>
    ELSE /\ role' = [Invalid(r) EXCEPT !.hook = r.passed]
         /\ asked' = AskedToClose(r)
         /\ IF OnClose(r)
            THEN \E y \in Opened(Discarded) : Becomes(y) /\ told' = Told(y)
            ELSE Becomes(x) /\ UNCHANGED told
         /\ UNCHANGED moved

Decided(c) == Finished(c) \/ TimedOut(c)

(* An event of the role's SRT socket: check_http_passed, then the data.    *)
Handle ==
    /\ user = "role" /\ role.held /\ asked # <<>>
    /\ UNCHANGED <<user, said, reloads>>
    /\ \/ /\ role.passed \/ ~role.hook
          /\ Data(role, Exchange)
       \/ /\ ~role.passed /\ role.hook
          /\ \E x \in Handled(Exchange) :
               \/ /\ ~Decided(x.c)
                  /\ Becomes(x)
                  /\ UNCHANGED <<role, moved, asked, told>>
               \/ /\ Decided(x.c) /\ x.c.code = "200"
                  /\ Data([role EXCEPT !.passed = TRUE, !.hook = FALSE], Discarded)
               \/ /\ Decided(x.c) /\ x.c.code # "200"
                  /\ role' = Invalid([role EXCEPT !.hook = FALSE])
                  /\ Becomes(Discarded)
                  /\ UNCHANGED <<moved, asked, told>>

(* The role is deleted: by check_invalid_sock, when its socket or its      *)
(* timer says so, or by clear when the worker ends.  Either way uninit     *)
(* opens on_close through invalid_srt, and the destructor's uninit closes  *)
(* that client in the same call, so check_http_client never finds one and  *)
(* m_list_wait_http_role stays empty.                                      *)
Delete ==
    /\ user = "role" /\ role.held /\ asked # <<>>
    /\ asked' = AskedToClose(role)
    /\ role' = [Invalid(role) EXCEPT !.held = FALSE, !.hook = FALSE]
    /\ IF OnClose(role) THEN \E y \in Opened(Discarded) : told' = Told(y) ELSE UNCHANGED told
    /\ Becomes(Discarded)
    /\ UNCHANGED <<user, moved, said, reloads>>

Reap == (role.srt # "up" \/ role.idle) /\ Delete
Clear == Delete

(* main's loop: post again when it is time, drive, close what is over.     *)
StatLoop ==
    /\ user = "stat"
    /\ \E y \in IF ~client.valid /\ client.due THEN Opened(Close(Exchange)) ELSE {Exchange} :
         \E x \in Handled(y) : Becomes(IF Decided(x.c) THEN Close(x) ELSE x)
    /\ UNCHANGED <<user, role, ghosts, reloads>>

(* main's open when it starts and after a reload. *)
StatOpen ==
    /\ user = "stat" /\ reloads < 2
    /\ \E x \in Opened(Exchange) : Becomes(x)
    /\ reloads' = reloads + 1
    /\ UNCHANGED <<user, role, ghosts>>
-----------------------------------------------------------------------------
(* The environment.                                                        *)

Connected(outcome) ==
    /\ conn.state = "connecting"
    /\ conn' = [conn EXCEPT !.state = outcome]
    /\ UNCHANGED <<user, client, role, ghosts, reloads>>

(* The server answers a request it has read to its end. *)
Answer(a) ==
    /\ conn.state = "up" /\ ~conn.eof
    /\ conn.answer = NoAnswer
    /\ Len(conn.sent) >= RequestLen /\ conn.sent[Len(conn.sent)] = RequestLen
    /\ conn' = [conn EXCEPT !.answer = a]
    /\ said' = IF user = "role" /\ asked = <<"on_connect">> THEN a.code ELSE said
    /\ UNCHANGED <<user, client, role, moved, asked, told, reloads>>

Deliver ==
    /\ conn.answer # NoAnswer /\ ~conn.eof
    /\ \E d \in conn.delivered+1..Len(Pieces(conn.answer)) :
         conn' = [conn EXCEPT !.delivered = d]
    /\ UNCHANGED <<user, client, role, ghosts, reloads>>

HangUp ==
    /\ conn.state = "up" /\ ~conn.eof
    /\ conn' = [conn EXCEPT !.eof = TRUE]
    /\ UNCHANGED <<user, client, role, ghosts, reloads>>

TimeOut ==
    /\ ~client.late /\ client.fd
    /\ client' = [client EXCEPT !.late = TRUE]
    /\ UNCHANGED <<user, conn, role, ghosts, reloads>>

IntervalOver ==
    /\ user = "stat" /\ reloads > 0 /\ ~client.due
    /\ client' = [client EXCEPT !.due = TRUE]
    /\ UNCHANGED <<user, conn, role, ghosts, reloads>>

Break ==
    /\ user = "role" /\ role.held /\ asked # <<>> /\ role.srt = "up"
    /\ role' = [role EXCEPT !.srt = "broken"]
    /\ UNCHANGED <<user, client, conn, ghosts, reloads>>

Elapse ==
    /\ user = "role" /\ role.held /\ asked # <<>> /\ ~role.idle
    /\ role' = [role EXCEPT !.idle = TRUE]
    /\ UNCHANGED <<user, client, conn, ghosts, reloads>>
-----------------------------------------------------------------------------
Next ==
    \/ OnConnect \/ Handle \/ Reap \/ Clear \/ StatLoop \/ StatOpen
    \/ Connected("up") \/ Connected("refused")
    \/ \E a \in Answers : Answer(a)
    \/ Deliver \/ HangUp \/ TimeOut \/ IntervalOver \/ Break \/ Elapse

(* Loops go on, clocks run, and a role has events: a player's socket takes *)
(* data, a publisher sends.  Nothing is expected of HTTP and its server.   *)
Fairness == WF_vars(Handle) /\ WF_vars(StatLoop) /\ WF_vars(TimeOut) /\ WF_vars(Reap)

Spec == Init /\ [][Next]_vars
FairSpec == Spec /\ Fairness
-----------------------------------------------------------------------------
(* Properties.                                                             *)

(* A role that has a webhook moves stream data only after the server has   *)
(* answered 200: no timeout, hang-up, refused connection or cut answer     *)
(* opens the gate, and neither does the end of the client that asked.      *)
DataOnlyAfter200 == moved => said = "200"

(* The status line was in the first segment read, or is in what is there   *)
(* to be read.                                                             *)
StatusRead ==
    IF client.header THEN conn.first >= 2 ELSE client.valid /\ conn.delivered >= 2

(* Once the status line was read in one piece, a 200 is never taken for a  *)
(* refusal, however the rest of the answer arrives or stays away.          *)
ReadIsRespected ==
    [][said = "200" /\ StatusRead /\ role.hook /\ ~role'.hook
         => role'.passed \/ ~role'.held]_vars

(* Whichever of its ways out it took, a deleted role has opened on_close   *)
(* once if it was let in, and not at all otherwise; a server is told of an *)
(* end once at most, and only of a role it has let in.  That it is told at *)
(* all is not promised: the one call of handler in open must get the whole *)
(* request out.                                                            *)
CloseOpenedOnce ==
    /\ user = "role" /\ ~role.held =>
         asked = IF role.passed THEN <<"on_connect", "on_close">> ELSE <<"on_connect">>
    /\ told > 0 => told = 1 /\ said = "200" /\ role.srt = "closed"

(* What a connection has carried and what its client still has to send are *)
(* what was left of earlier requests and then the client's own request,    *)
(* whole, in order and once, however little the socket takes.              *)
CarriesOwnRequest ==
    conn.state # "none" => conn.sent \o (client.unsent \o client.queued) = conn.old \o Request

(* A role does not hang at the gate: it is let in or closed.               *)
GateDecides ==
    user = "role" /\ asked = <<"on_connect">> ~> role.passed \/ role.srt = "closed"

(* The statistics are posted again when it is time, though the server may  *)
(* refuse, say nothing, hang up or answer in part.                         *)
StatPostsAgain == client.due ~> ~client.due
=============================================================================
