---------------------------- MODULE RecycleArray ----------------------------
(***************************************************************************)
(* CSLSRecycleArray: the ring buffer through which the publisher of a      *)
(* stream feeds its players.  The publisher's worker thread puts, the      *)
(* players' worker threads get, each player with a cursor of its own       *)
(* (SLSRecycleArrayID) that the array never sees between two calls.        *)
(*                                                                         *)
(* Every call comes through CSLSMapData, which holds its lock exclusively  *)
(* around put and shared around get.  put moves the write position under   *)
(* the array's own lock but adds to m_nDataCount after releasing it, so a  *)
(* put is two steps here and only the map's lock keeps readers out of the  *)
(* gap between them.                                                       *)
(*                                                                         *)
(* A byte of the stream is the number of bytes put before it; a slot that  *)
(* was never written holds Garbage.  m_nDataCount is an int that the code  *)
(* lets wrap: it is kept modulo CountMod (2^32 in the program).            *)
(***************************************************************************)
EXTENDS Integers, Sequences

CONSTANTS Size,      \* m_nDataSize
          PutLens,   \* the lengths a publisher puts
          Readers,   \* the players
          GetSize,   \* the room a player offers (DATA_BUFF_SIZE)
          Aligned,   \* get returns a multiple of this (TS_UDP_LEN)
          CountMod,  \* number of values of the int m_nDataCount
          MaxTotal   \* bound: bytes put in one behaviour

ASSUME SizeAssumption ==
    /\ Size \in Nat \ {0}
    /\ Aligned \in 1..Size
    /\ GetSize \in Nat /\ GetSize >= Aligned
    /\ PutLens \subseteq 1..Size
    /\ CountMod \in Nat \ {0}
    /\ MaxTotal \in Nat

VARIABLES arr,       \* m_arrayData: slot -> the byte in it
          writePos,  \* m_nWritePos
          dataCount, \* m_nDataCount
          pending,   \* bytes copied by the put in progress and not yet counted
          readId,    \* each player's SLSRecycleArrayID
          total,     \* ghost: bytes put so far
          next,      \* ghost: the byte a player's cursor stands for
          out        \* what the last get of a player copied out

vars == <<arr, writePos, dataCount, pending, readId, total, next, out>>
putVars == <<arr, writePos, dataCount, pending, total>>

Slots == 0..Size-1
Garbage == -1
NotJoined == -1
FreshId == [nReadPos |-> 0, nDataCount |-> 0, bFirst |-> TRUE]

WrapTooLate(p) == IF p > Size THEN p - Size ELSE p
WrapToZero(p) == IF p >= Size THEN 0 ELSE p

(* A position that ran over the end of the ring continues at its start. *)
Slot(p) == IF p >= Size THEN p - Size ELSE p

Init ==
    /\ arr = [j \in Slots |-> Garbage]
    /\ writePos = 0
    /\ dataCount = 0
    /\ pending = 0
    /\ readId = [r \in Readers |-> FreshId]
    /\ total = 0
    /\ next = [r \in Readers |-> NotJoined]
    /\ out = [r \in Readers |-> <<>>]
-----------------------------------------------------------------------------
(* The two steps of put, and the map's lock between them.                  *)

(* How far slot j lies ahead of the write position. *)
Ahead(j) == IF j >= writePos THEN j - writePos ELSE j + Size - writePos

PutCopy(len) ==
    /\ pending = 0
    /\ total + len <= MaxTotal
    /\ arr' = [j \in Slots |-> IF Ahead(j) < len THEN total + Ahead(j) ELSE arr[j]]
    /\ writePos' = Slot(writePos + len)
    /\ total' = total + len
    /\ pending' = len
    /\ UNCHANGED <<dataCount, readId, next, out>>

PutCount ==
    /\ pending > 0
    /\ dataCount' = (dataCount + pending) % CountMod
    /\ pending' = 0
    /\ UNCHANGED <<arr, writePos, readId, total, next, out>>

NoMapLock == TRUE

(* CSLSMapData::get waits for the shared lock until no put is in progress. *)
MapLockShared == pending = 0
-----------------------------------------------------------------------------
(* get.                                                                    *)

(* Bytes between a cursor and the write position; a full ring when equal. *)
Ready(rp) == IF rp < writePos THEN writePos - rp ELSE Size - rp + writePos

(* What get copies: at most the room offered, in whole aligned blocks. *)
CopyLen(rp) ==
    LET n == IF Ready(rp) <= GetSize THEN Ready(rp) ELSE GetSize
    IN  (n \div Aligned) * Aligned

NoNewDataByPosition(r) == readId[r].nReadPos = writePos

(* get's test for "no new data". *)
NoNewData(r) ==
    /\ readId[r].nReadPos = writePos
    /\ readId[r].nDataCount = dataCount

GetFirst(r) ==
    /\ MapLockShared
    /\ readId[r].bFirst
    /\ readId' = [readId EXCEPT ![r] =
                    [nReadPos |-> writePos, nDataCount |-> dataCount, bFirst |-> FALSE]]
    /\ next' = [next EXCEPT ![r] = total]
    /\ out' = [out EXCEPT ![r] = <<>>]
    /\ UNCHANGED putVars

GetNothing(r) ==
    /\ MapLockShared
    /\ ~readId[r].bFirst
    /\ NoNewData(r)
    /\ out' = [out EXCEPT ![r] = <<>>]
    /\ UNCHANGED <<putVars, readId, next>>

GetData(r) ==
    /\ MapLockShared
    /\ ~readId[r].bFirst
    /\ ~NoNewData(r)
    /\ LET rp == readId[r].nReadPos
           n  == CopyLen(rp)
       IN  /\ out' = [out EXCEPT ![r] = [i \in 1..n |-> arr[Slot(rp + i - 1)]]]
           /\ readId' = [readId EXCEPT ![r].nReadPos = Slot(rp + n),
                                       ![r].nDataCount = dataCount]
           /\ next' = [next EXCEPT ![r] = total - Ready(rp) + n]
    /\ UNCHANGED putVars

(* The player leaves and its role object is deleted; the next player to    *)
(* take this place starts with a fresh cursor (the CSLSRole constructor).  *)
Leave(r) ==
    /\ ~readId[r].bFirst
    /\ readId' = [readId EXCEPT ![r] = FreshId]
    /\ next' = [next EXCEPT ![r] = NotJoined]
    /\ out' = [out EXCEPT ![r] = <<>>]
    /\ UNCHANGED putVars

Get(r) == GetFirst(r) \/ GetNothing(r) \/ GetData(r)

Next ==
    \/ \E len \in PutLens : PutCopy(len)
    \/ PutCount
    \/ \E r \in Readers : Get(r) \/ Leave(r)

(* Each worker thread loops over its sockets for as long as it runs, so a  *)
(* put that began ends and every player's get is called again and again.   *)
Fairness ==
    /\ WF_vars(PutCount)
    /\ \A r \in Readers : WF_vars(Get(r))

Spec == Init /\ [][Next]_vars
FairSpec == Spec /\ Fairness
-----------------------------------------------------------------------------
(* Properties.                                                             *)

(* Every variable holds a value of its type: positions stay inside the     *)
(* ring, which is what keeps get and put's memcpy inside m_arrayData.      *)
TypeOK ==
    /\ arr \in [Slots -> Nat \cup {Garbage}]
    /\ writePos \in Slots
    /\ dataCount \in 0..CountMod-1
    /\ pending \in {0} \cup PutLens
    /\ readId \in [Readers -> [nReadPos : Slots, nDataCount : 0..CountMod-1, bFirst : BOOLEAN]]
    /\ total \in 0..MaxTotal
    /\ next \in [Readers -> Nat \cup {NotJoined}]
    /\ DOMAIN out = Readers
    /\ \A r \in Readers : out[r] \in Seq(Nat \cup {Garbage})

(* No get ever hands out memory the publisher did not write.               *)
OnlyPublishedBytes ==
    \A r \in Readers : \A i \in DOMAIN out[r] : out[r][i] \in 0..total-1

(* The ring refines the lossy ordered broadcast: what get returns is a     *)
(* contiguous run of the stream, after everything this player got before,  *)
(* and bytes are skipped only by a player a whole ring behind.             *)
Abstract == INSTANCE Broadcast WITH
              published <- total, Window <- Size, MaxRead <- GetSize
Refines == Abstract!Spec

(* A player whose cursor was overrun loses whole laps of the ring, so the  *)
(* bytes it gets next keep their phase: a stream of TS packets stays       *)
(* packet aligned for it (Size is a multiple of TS_PACK_LEN).              *)
SkipsWholeLaps ==
    [][\A r \in Readers :
         out'[r] # out[r] /\ out'[r] # <<>> /\ next[r] # NotJoined
            => (Head(out'[r]) - next[r]) % Size = 0]_vars

(* A player whole laps behind stands where the publisher writes, and when  *)
(* the count has gone round as well, get tells it that there is nothing    *)
(* new: it takes CountMod bytes between two of its gets, and whole laps.   *)
LooksComplete(r) ==
    /\ NoNewData(r)
    /\ total - next[r] >= CountMod
    /\ total - next[r] >= Size

(* When the publisher stops (MaxTotal bounds what it puts, so it does),    *)
(* every player ends up with all of the stream but a tail shorter than one *)
(* aligned block, except one that looks complete: a cursor that is behind  *)
(* by less than CountMod bytes is never taken for one that has everything. *)
CatchesUp ==
    \A r \in Readers :
        <>[](next[r] # NotJoined => total - next[r] < Aligned \/ LooksComplete(r))
=============================================================================
