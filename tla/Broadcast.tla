----------------------------- MODULE Broadcast -----------------------------
(***************************************************************************)
(* What the data path of one live stream promises its players: a lossy,    *)
(* ordered broadcast.  The publisher appends bytes to one endless stream;  *)
(* a reader joins at the live edge and is then handed contiguous runs of   *)
(* it, in order, never the same byte twice.  A run skips bytes only when   *)
(* the reader had fallen more than Window bytes behind, and then it starts *)
(* at most Window bytes behind the live edge.                              *)
(*                                                                         *)
(* Bytes are named by their position in the stream, 0, 1, 2, ...           *)
(***************************************************************************)
EXTENDS Integers, Sequences

CONSTANTS Readers,   \* the players of the stream
          Window,    \* how many bytes the server keeps
          MaxRead    \* the most bytes one read returns

VARIABLES published, \* how many bytes the publisher has put
          next,      \* next[r]: position of the byte r gets next, or NotJoined
          out        \* out[r]: the bytes the last read of r returned

vars == <<published, next, out>>

NotJoined == -1

(* The run of stream positions from, from + 1, ..., from + n - 1. *)
Run(from, n) == [i \in 1..n |-> from + i - 1]

Init ==
    /\ published = 0
    /\ next = [r \in Readers |-> NotJoined]
    /\ out = [r \in Readers |-> <<>>]

Publish ==
    /\ published' \in Nat
    /\ published' > published
    /\ UNCHANGED <<next, out>>

Join(r) ==
    /\ next[r] = NotJoined
    /\ next' = [next EXCEPT ![r] = published]
    /\ out' = [out EXCEPT ![r] = <<>>]
    /\ UNCHANGED published

(* The promise ends for the readers in gone: they left, or the publisher   *)
(* they were reading was replaced by another one.                          *)
Leave(gone) ==
    /\ next' = [r \in Readers |-> IF r \in gone THEN NotJoined ELSE next[r]]
    /\ out' = [r \in Readers |-> IF r \in gone THEN <<>> ELSE out[r]]
    /\ UNCHANGED published

Deliver(r) ==
    /\ next[r] # NotJoined
    /\ \E from \in next[r]..published, n \in 0..MaxRead :
          /\ from + n <= published
          /\ from # next[r] => /\ published - next[r] > Window
                               /\ published - from <= Window
          /\ next' = [next EXCEPT ![r] = from + n]
          /\ out' = [out EXCEPT ![r] = Run(from, n)]
    /\ UNCHANGED published

Next ==
    \/ Publish
    \/ \E r \in Readers : Join(r) \/ Deliver(r)
    \/ \E gone \in SUBSET Readers : Leave(gone)

Spec == Init /\ [][Next]_vars
=============================================================================
