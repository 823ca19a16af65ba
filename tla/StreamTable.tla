---------------------------- MODULE StreamTable ----------------------------
(***************************************************************************)
(* What the stream id database promises its callers: one table from player *)
(* ids to publisher ids, edited and consulted in single steps.  A call     *)
(* that meets an error of the database may be answered as if the table     *)
(* were empty or be allowed whatever it asked; and once the table may      *)
(* forget some of its rows.                                                *)
(***************************************************************************)
CONSTANTS PlayerIds, PublisherIds, Threads, NoRow, NoReply

VARIABLES open,   \* is the database available
          rows,   \* the table
          reply,  \* what a thread's call has returned
          failed, \* the call that has returned met an error
          lost    \* some rows have been forgotten

vars == <<open, rows, reply, failed, lost>>

Allowed == "allowed"
Valid(p) == IF \E q \in PlayerIds : rows[q] = p THEN "valid" ELSE "invalid"

Init ==
    /\ open = FALSE
    /\ rows \in [PlayerIds -> PublisherIds \cup {NoRow}]
    /\ reply = [t \in Threads |-> NoReply]
    /\ failed = [t \in Threads |-> FALSE]
    /\ lost = FALSE

Open == ~open /\ open' = TRUE /\ UNCHANGED <<rows, reply, failed, lost>>

Insert(q, p) ==
    /\ open /\ rows[q] = NoRow
    /\ rows' = [rows EXCEPT ![q] = p]
    /\ UNCHANGED <<open, reply, failed, lost>>

Remove(q) ==
    /\ open /\ rows[q] # NoRow
    /\ rows' = [rows EXCEPT ![q] = NoRow]
    /\ UNCHANGED <<open, reply, failed, lost>>

Forget(S) ==
    /\ ~lost /\ lost' = TRUE
    /\ rows' = [q \in PlayerIds |-> IF q \in S THEN NoRow ELSE rows[q]]
    /\ UNCHANGED <<open, reply, failed>>

Answer(t, a) ==
    /\ reply[t] = NoReply
    /\ reply' = [reply EXCEPT ![t] = a]
    /\ UNCHANGED <<open, rows, lost>>

AskPlayer(t, q) == open /\ Answer(t, rows[q]) /\ UNCHANGED failed
AskPublisher(t, p) == open /\ Answer(t, Valid(p)) /\ UNCHANGED failed
AskClosed(t) == ~open /\ Answer(t, Allowed) /\ UNCHANGED failed

AskInVain(t) ==
    /\ open
    /\ failed' = [failed EXCEPT ![t] = TRUE]
    /\ \E a \in {NoRow, "invalid", Allowed} : Answer(t, a)

Return(t) ==
    /\ reply' = [reply EXCEPT ![t] = NoReply]
    /\ failed' = [failed EXCEPT ![t] = FALSE]
    /\ UNCHANGED <<open, rows, lost>>

Next ==
    \/ Open
    \/ \E S \in SUBSET PlayerIds : Forget(S)
    \/ \E q \in PlayerIds : Remove(q) \/ \E p \in PublisherIds : Insert(q, p)
    \/ \E t \in Threads :
         \/ AskClosed(t) \/ AskInVain(t) \/ Return(t)
         \/ \E q \in PlayerIds : AskPlayer(t, q)
         \/ \E p \in PublisherIds : AskPublisher(t, p)

Spec == Init /\ [][Next]_vars
=============================================================================
