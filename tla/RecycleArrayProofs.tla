------------------------- MODULE RecycleArrayProofs -------------------------
(***************************************************************************)
(* Proofs about CSLSRecycleArray, for every ring size, packet length,      *)
(* number of players, alignment and width of the byte count: its types,    *)
(* that no player is handed memory the publisher did not write, that it    *)
(* implements the lossy ordered broadcast, and that a player that is       *)
(* overrun loses whole laps of the ring.                                   *)
(*                                                                         *)
(* The lemmas about one call are stated for an array whose first byte is   *)
(* byte base of the stream, so that LiveStreamProofs can use them for an   *)
(* array that replaced an older one.                                       *)
(***************************************************************************)
EXTENDS RecycleArray, TLAPS

Cursors == [nReadPos : Slots, nDataCount : 0..CountMod-1, bFirst : BOOLEAN]

(* What every call needs of the types. *)
RingTypes ==
    /\ arr \in [Slots -> Nat \cup {Garbage}]
    /\ writePos \in Slots
    /\ dataCount \in 0..CountMod-1
    /\ pending \in {0} \cup PutLens
    /\ readId \in [Readers -> Cursors]
    /\ total \in Nat
    /\ next \in [Readers -> Int]
    /\ DOMAIN out = Readers

(* Slot j holds the last byte of the stream that was put there, if any     *)
(* since the array was made.                                               *)
ArrFrom(base) ==
    /\ writePos <= total - base
    /\ \A j \in Slots :
         LET byte == IF j < writePos THEN total - writePos + j
                                     ELSE total - writePos - Size + j
         IN  arr[j] = IF byte >= base THEN byte ELSE Garbage

ArrInv == ArrFrom(0)

(* A cursor stands for the byte next: in the lap being written, in the lap *)
(* before, or it was overrun.  A player that has every byte has the        *)
(* current count, which is what keeps it from reading a whole lap again.   *)
Follows(r) ==
    /\ next[r] \in Nat
    /\ next[r] + pending <= total
    /\ \/ /\ readId[r].nReadPos <= writePos
          /\ next[r] = total - writePos + readId[r].nReadPos
       \/ /\ readId[r].nReadPos >= writePos
          /\ next[r] = total - writePos - Size + readId[r].nReadPos
       \/ next[r] < total - Size
    /\ next[r] = total => readId[r].nDataCount = dataCount

CursorInv ==
    \A r \in Readers : IF readId[r].bFirst THEN next[r] = NotJoined ELSE Follows(r)

IInv == TypeOK /\ ArrInv /\ CursorInv /\ OnlyPublishedBytes
-----------------------------------------------------------------------------
LEMMA TypesOfRing == TypeOK => RingTypes
  BY DEF TypeOK, RingTypes, Cursors, NotJoined

(* Rounding down to a multiple of Aligned gives at most what was there.    *)
LEMMA AlignDown == ASSUME NEW n \in Nat
                   PROVE  /\ (n \div Aligned) * Aligned \in Nat
                          /\ (n \div Aligned) * Aligned <= n
<1>1. Aligned \in Nat \ {0}
  BY SizeAssumption
<1>2. /\ n \div Aligned \in Nat
      /\ n = Aligned * (n \div Aligned) + (n % Aligned)
      /\ n % Aligned \in 0..Aligned-1
  BY <1>1
<1> DEFINE q == n \div Aligned
           m == n % Aligned
<1>3. q * Aligned = n - m
  BY <1>1, <1>2
<1>4. q * Aligned \in Nat
  BY <1>1, <1>2
<1> HIDE DEF q, m
<1>5. m \in Nat
  BY <1>1, <1>2 DEF m
<1> QED
  BY <1>3, <1>4, <1>5 DEF q

(* get's copy length fits in the ready bytes and in the room offered.      *)
LEMMA CopyLenBounds ==
    ASSUME RingTypes, NEW rp \in Slots
    PROVE  /\ Ready(rp) \in 1..Size
           /\ CopyLen(rp) \in 0..Ready(rp)
           /\ CopyLen(rp) <= GetSize
<1>1. Ready(rp) \in 1..Size
  BY SizeAssumption DEF RingTypes, Ready, Slots
<1> DEFINE n == IF Ready(rp) <= GetSize THEN Ready(rp) ELSE GetSize
<1>2. n \in Nat /\ n <= Ready(rp) /\ n <= GetSize
  BY <1>1, SizeAssumption
<1>3. CopyLen(rp) = (n \div Aligned) * Aligned
  BY DEF CopyLen
<1> HIDE DEF n
<1>4. CopyLen(rp) \in Nat /\ CopyLen(rp) <= n
  BY <1>2, <1>3, AlignDown
<1> QED
  BY <1>1, <1>2, <1>4, SizeAssumption
-----------------------------------------------------------------------------
(* put's first step: the bytes land in the slots ahead of the write        *)
(* position, and every cursor falls behind by their number.                *)
LEMMA PutCopyWraps ==
    ASSUME RingTypes, NEW len \in PutLens, PutCopy(len)
    PROVE  /\ len \in 1..Size
           /\ total' = total + len /\ pending = 0 /\ pending' = len
           /\ writePos' = IF writePos + len >= Size THEN writePos + len - Size ELSE writePos + len
           /\ total \in Nat /\ writePos \in Nat /\ writePos < Size
           /\ \A j \in Slots : j \in Nat /\ j < Size /\ arr[j] \in Nat \cup {Garbage}
  BY SizeAssumption DEF RingTypes, PutCopy, Slots, Slot

LEMMA PutCopyTypes == ASSUME RingTypes, NEW len \in PutLens, PutCopy(len)
                      PROVE  RingTypes'
<1>1. /\ len \in 1..Size
      /\ total' = total + len
      /\ writePos' = IF writePos + len >= Size THEN writePos + len - Size ELSE writePos + len
      /\ total \in Nat /\ writePos \in Nat /\ writePos < Size
      /\ \A j \in Slots : j \in Nat /\ j < Size /\ arr[j] \in Nat \cup {Garbage}
  BY PutCopyWraps
<1>2. ASSUME NEW j \in Slots
      PROVE  (IF Ahead(j) < len THEN total + Ahead(j) ELSE arr[j]) \in Nat \cup {Garbage}
  BY <1>1, SizeAssumption DEF Ahead
<1>3. arr' \in [Slots -> Nat \cup {Garbage}]
  BY <1>2 DEF PutCopy
<1>4. writePos' \in Slots /\ total' \in Nat
  BY <1>1, SizeAssumption DEF Slots
<1> QED
  BY <1>3, <1>4 DEF RingTypes, PutCopy

LEMMA PutCopyArr ==
    ASSUME RingTypes, NEW base \in Nat, ArrFrom(base), NEW len \in PutLens, PutCopy(len)
    PROVE  ArrFrom(base)'
<1>1. /\ len \in 1..Size
      /\ total' = total + len
      /\ writePos' = IF writePos + len >= Size THEN writePos + len - Size ELSE writePos + len
      /\ total \in Nat /\ writePos \in Nat /\ writePos < Size
      /\ \A j \in Slots : j \in Nat /\ j < Size /\ arr[j] \in Nat \cup {Garbage}
  BY PutCopyWraps
<1>2. writePos <= total - base /\ writePos' <= total' - base
  BY <1>1, SizeAssumption DEF ArrFrom
<1>3. ASSUME NEW j \in Slots
      PROVE  arr'[j] = LET byte == IF j < writePos' THEN total' - writePos' + j
                                                    ELSE total' - writePos' - Size + j
                       IN  IF byte >= base THEN byte ELSE Garbage
  <2>1. arr'[j] = IF Ahead(j) < len THEN total + Ahead(j) ELSE arr[j]
    BY DEF PutCopy
  <2>2. arr[j] = LET byte == IF j < writePos THEN total - writePos + j
                                             ELSE total - writePos - Size + j
                 IN  IF byte >= base THEN byte ELSE Garbage
    BY DEF ArrFrom
  <2> QED
    BY SMTT(60), <1>1, <1>2, <2>1, <2>2, SizeAssumption DEF Ahead
<1> QED
  BY <1>2, <1>3 DEF ArrFrom

LEMMA PutCopyFollows ==
    ASSUME RingTypes, NEW r \in Readers, Follows(r), NEW len \in PutLens, PutCopy(len)
    PROVE  Follows(r)'
<1>1. /\ len \in 1..Size
      /\ total' = total + len /\ pending = 0 /\ pending' = len
      /\ writePos' = IF writePos + len >= Size THEN writePos + len - Size ELSE writePos + len
      /\ total \in Nat /\ writePos \in Nat /\ writePos < Size
  BY PutCopyWraps
<1>2. /\ UNCHANGED <<next, readId, dataCount>>
      /\ readId[r].nReadPos \in Nat /\ readId[r].nReadPos < Size
  BY SizeAssumption DEF RingTypes, Cursors, Slots, PutCopy
<1> QED
  BY <1>1, <1>2, SizeAssumption DEF Follows

(* put's second step: only the count changes, and no player has it all.    *)
LEMMA PutCountTypes == ASSUME RingTypes, PutCount PROVE RingTypes'
<1>1. dataCount' \in 0..CountMod-1
  BY SizeAssumption DEF RingTypes, PutCount
<1> QED
  BY <1>1 DEF RingTypes, PutCount

LEMMA PutCountFollows ==
    ASSUME RingTypes, NEW r \in Readers, Follows(r), PutCount
    PROVE  Follows(r)'
  BY SizeAssumption DEF RingTypes, Follows, PutCount
-----------------------------------------------------------------------------
(* What a get that finds data returns: the run of the stream that starts   *)
(* Ready bytes before the live edge, which is where the cursor stands      *)
(* unless it was overrun.                                                  *)
LEMMA GetDataRun ==
    ASSUME RingTypes, NEW base \in Nat, ArrFrom(base),
           NEW r \in Readers, Follows(r), next[r] >= base, GetData(r),
           NEW rp, rp = readId[r].nReadPos
    PROVE  /\ rp \in Slots
           /\ total - Ready(rp) \in next[r]..total
           /\ next[r] \in Nat
           /\ total - Ready(rp) # next[r] => total - next[r] > Size
           /\ out'[r] = [i \in 1..CopyLen(rp) |-> total - Ready(rp) + i - 1]
<1> USE SizeAssumption
<1>1. /\ total \in Nat /\ writePos \in Nat /\ writePos < Size /\ pending = 0
      /\ rp \in Nat /\ rp < Size /\ rp \in Slots
  BY DEF RingTypes, Cursors, Slots, GetData, MapLockShared
<1>2. /\ next[r] \in Nat /\ next[r] <= total
      /\ \/ rp <= writePos /\ next[r] = total - writePos + rp
         \/ rp >= writePos /\ next[r] = total - writePos - Size + rp
         \/ next[r] < total - Size
      /\ next[r] = total => readId[r].nDataCount = dataCount
  BY <1>1 DEF Follows
<1>3. ~(rp = writePos /\ next[r] = total)
  BY <1>2 DEF GetData, NoNewData
<1>4. Ready(rp) \in 1..Size /\ Ready(rp) \in Nat
  BY <1>1, CopyLenBounds
<1>5. /\ total - Ready(rp) \in next[r]..total
      /\ total - Ready(rp) # next[r] => total - next[r] > Size
  BY <1>1, <1>2, <1>3, <1>4 DEF Ready
<1>6. ASSUME NEW i \in 1..CopyLen(rp)
      PROVE  arr[Slot(rp + i - 1)] = total - Ready(rp) + i - 1
  <2>1. i \in Nat /\ 1 <= i /\ i <= Ready(rp) /\ i <= Size
    BY <1>1, <1>4, CopyLenBounds
  <2>2. /\ Slot(rp + i - 1) = IF rp + i - 1 >= Size THEN rp + i - 1 - Size ELSE rp + i - 1
        /\ Slot(rp + i - 1) \in Slots
    BY <1>1, <2>1 DEF Slot, Slots
  <2>3. arr[Slot(rp + i - 1)] =
          LET byte == IF Slot(rp + i - 1) < writePos
                      THEN total - writePos + Slot(rp + i - 1)
                      ELSE total - writePos - Size + Slot(rp + i - 1)
          IN  IF byte >= base THEN byte ELSE Garbage
    BY <2>2 DEF ArrFrom
  <2>4. total - Ready(rp) >= base
    BY <1>1, <1>2, <1>4, <1>5
  <2>5. Ready(rp) = IF rp < writePos THEN writePos - rp ELSE Size - rp + writePos
    BY DEF Ready
  <2> DEFINE s == Slot(rp + i - 1)
  <2>6. (IF s < writePos THEN total - writePos + s ELSE total - writePos - Size + s)
           = total - Ready(rp) + i - 1
    BY <1>1, <2>1, <2>2, <2>5
  <2> QED
    BY SMTT(60), <1>1, <1>4, <2>1, <2>3, <2>4, <2>6
<1>7. out'[r] = [i \in 1..CopyLen(rp) |-> arr[Slot(rp + i - 1)]]
  BY DEF GetData, RingTypes
<1> QED
  BY <1>1, <1>2, <1>5, <1>6, <1>7

(* Where it leaves the cursor, and what it leaves to the other players.    *)
LEMMA GetDataMoves ==
    ASSUME RingTypes, NEW r \in Readers, GetData(r),
           NEW rp, rp = readId[r].nReadPos
    PROVE  /\ rp \in Slots /\ pending = 0 /\ UNCHANGED putVars
           /\ CopyLen(rp) \in Nat
           /\ Slot(rp + CopyLen(rp)) \in Slots
           /\ readId'[r].nReadPos = Slot(rp + CopyLen(rp))
           /\ readId'[r].nDataCount = dataCount
           /\ readId'[r].bFirst = FALSE
           /\ ~readId[r].bFirst
           /\ next'[r] = total - Ready(rp) + CopyLen(rp)
           /\ \A q \in Readers : q # r => /\ readId'[q] = readId[q]
                                          /\ next'[q] = next[q] /\ out'[q] = out[q]
           /\ RingTypes'
<1>1. readId[r] \in Cursors /\ rp \in Slots /\ dataCount \in 0..CountMod-1
  BY DEF RingTypes, Cursors
<1>2. Ready(rp) \in 1..Size /\ CopyLen(rp) \in 0..Ready(rp)
  BY <1>1, CopyLenBounds
<1>3. Slot(rp + CopyLen(rp)) \in Slots
  <2>1. Size \in Nat /\ rp \in Nat /\ rp < Size /\ CopyLen(rp) \in Nat /\ CopyLen(rp) <= Size
    BY <1>1, <1>2, SizeAssumption DEF Slots
  <2> QED
    BY <2>1 DEF Slot, Slots
<1> DEFINE id == readId[r]
           pos == Slot(rp + CopyLen(rp))
           moved == [id EXCEPT !.nReadPos = pos, !.nDataCount = dataCount]
<1>4. id \in Cursors /\ id.bFirst = FALSE
  BY <1>1 DEF Cursors, GetData
<1>5. readId' = [readId EXCEPT ![r] = moved]
  BY DEF GetData, RingTypes
<1>6. /\ moved \in Cursors /\ moved.nReadPos = pos
      /\ moved.nDataCount = dataCount /\ moved.bFirst = FALSE
  <2> HIDE DEF id, pos
  <2> QED
    BY <1>1, <1>3, <1>4 DEF Cursors, pos
<1> HIDE DEF moved
<1>7. readId' \in [Readers -> Cursors]
  BY <1>5, <1>6 DEF RingTypes
<1>8. /\ next' = [next EXCEPT ![r] = total - Ready(rp) + CopyLen(rp)]
      /\ pending = 0 /\ ~readId[r].bFirst /\ UNCHANGED putVars
      /\ DOMAIN out' = Readers /\ \A q \in Readers : q # r => out'[q] = out[q]
  BY DEF GetData, MapLockShared, RingTypes
<1>9. total - Ready(rp) + CopyLen(rp) \in Int
  BY <1>2 DEF RingTypes
<1>10. next' \in [Readers -> Int]
  BY <1>8, <1>9 DEF RingTypes
<1>11. RingTypes'
  BY <1>7, <1>8, <1>10 DEF RingTypes, putVars
<1> QED
  BY <1>1, <1>2, <1>3, <1>5, <1>6, <1>8, <1>11 DEF RingTypes

LEMMA GetDataFollows ==
    ASSUME RingTypes, NEW base \in Nat, ArrFrom(base),
           NEW r \in Readers, Follows(r), next[r] >= base, GetData(r)
    PROVE  Follows(r)' /\ next'[r] >= base
<1> DEFINE rp == readId[r].nReadPos
           n == CopyLen(rp)
           start == total - Ready(rp)
<1>1. /\ rp \in Slots
      /\ start \in next[r]..total
      /\ next[r] \in Nat
  BY GetDataRun
<1>2. n \in Nat /\ n <= Ready(rp) /\ Ready(rp) \in 1..Size
  BY <1>1, CopyLenBounds
<1>3. /\ total \in Nat /\ writePos \in Nat /\ writePos < Size
      /\ rp \in Nat /\ rp < Size /\ Size \in Nat
  BY <1>1, SizeAssumption DEF RingTypes, Slots
<1>4. /\ pending = 0 /\ UNCHANGED putVars
      /\ readId'[r].nReadPos = Slot(rp + n) /\ readId'[r].nDataCount = dataCount
      /\ next'[r] = start + n
  BY GetDataMoves
<1>5. start = IF rp < writePos THEN total - writePos + rp ELSE total - writePos - Size + rp
  BY <1>3 DEF Ready
<1>6. start + Ready(rp) = total
  BY <1>2, <1>3
<1> HIDE DEF start, n, rp
<1>7. start + n \in Nat /\ start + n <= total /\ start + n >= base
  BY <1>1, <1>2, <1>3, <1>6
<1>8. \/ /\ Slot(rp + n) <= writePos
         /\ start + n = total - writePos + Slot(rp + n)
      \/ /\ Slot(rp + n) >= writePos
         /\ start + n = total - writePos - Size + Slot(rp + n)
  BY <1>2, <1>3, <1>5, <1>6, <1>7 DEF Slot
<1> QED
  BY <1>4, <1>7, <1>8 DEF Follows, putVars

(* The first get of a player puts its cursor at the live edge.             *)
LEMMA GetFirstMoves ==
    ASSUME RingTypes, NEW r \in Readers, GetFirst(r)
    PROVE  /\ RingTypes' /\ Follows(r)' /\ UNCHANGED putVars
           /\ ~readId'[r].bFirst /\ next'[r] = total /\ out'[r] = <<>>
           /\ \A q \in Readers : q # r => /\ readId'[q] = readId[q]
                                          /\ next'[q] = next[q] /\ out'[q] = out[q]
<1>1. [nReadPos |-> writePos, nDataCount |-> dataCount, bFirst |-> FALSE] \in Cursors
  BY DEF RingTypes, Cursors
<1>2. RingTypes'
  BY <1>1 DEF RingTypes, GetFirst, putVars
<1>3. /\ readId'[r] = [nReadPos |-> writePos, nDataCount |-> dataCount, bFirst |-> FALSE]
      /\ next'[r] = total /\ out'[r] = <<>> /\ pending = 0 /\ UNCHANGED putVars
      /\ \A q \in Readers : q # r => /\ readId'[q] = readId[q]
                                     /\ next'[q] = next[q] /\ out'[q] = out[q]
  BY DEF RingTypes, GetFirst, MapLockShared
<1>4. Follows(r)'
  BY <1>3 DEF Follows, putVars, RingTypes, Slots
<1> QED
  BY <1>2, <1>3, <1>4

(* A get without new data changes nothing but what the player was given.   *)
LEMMA GetNothingMoves ==
    ASSUME RingTypes, NEW r \in Readers, GetNothing(r)
    PROVE  /\ RingTypes' /\ UNCHANGED <<putVars, readId, next>>
           /\ out'[r] = <<>> /\ \A q \in Readers : q # r => out'[q] = out[q]
  BY DEF RingTypes, GetNothing, putVars

(* A player that leaves gives its place to a fresh cursor.                 *)
LEMMA LeaveMoves ==
    ASSUME RingTypes, NEW r \in Readers, Leave(r)
    PROVE  /\ RingTypes' /\ UNCHANGED putVars
           /\ readId'[r] = FreshId /\ next'[r] = NotJoined /\ out'[r] = <<>>
           /\ \A q \in Readers : q # r => /\ readId'[q] = readId[q]
                                          /\ next'[q] = next[q] /\ out'[q] = out[q]
<1>1. FreshId \in Cursors
  BY SizeAssumption DEF FreshId, Cursors, Slots
<1> QED
  BY <1>1 DEF RingTypes, Leave, putVars, NotJoined
-----------------------------------------------------------------------------
(* The initial state satisfies the inductive invariant.                    *)
LEMMA InitIInv == Init => IInv
<1> SUFFICES ASSUME Init PROVE IInv
  OBVIOUS
<1> USE SizeAssumption DEF Init
<1>1. TypeOK
  BY DEF TypeOK, Slots, FreshId, Garbage, NotJoined
<1>2. ArrInv
  BY DEF ArrInv, ArrFrom, Slots, Garbage
<1>3. CursorInv
  BY DEF CursorInv, FreshId
<1>4. OnlyPublishedBytes
  BY DEF OnlyPublishedBytes
<1> QED
  BY <1>1, <1>2, <1>3, <1>4 DEF IInv

LEMMA PutCopyIInv == ASSUME IInv, NEW len \in PutLens, PutCopy(len)
                     PROVE  IInv'
<1>1. RingTypes /\ RingTypes'
  BY TypesOfRing, PutCopyTypes DEF IInv
<1>2. len \in 1..Size /\ total' = total + len /\ total \in Nat
  BY <1>1, PutCopyWraps
<1>3. TypeOK'
  <2>1. total' \in 0..MaxTotal
    BY <1>2, SizeAssumption DEF PutCopy
  <2> QED
    BY <1>1, <2>1 DEF IInv, TypeOK, RingTypes, Cursors, PutCopy
<1>4. ArrInv'
  <2>1. ArrFrom(0)'
    BY <1>1, PutCopyArr DEF IInv, ArrInv
  <2> QED
    BY <2>1 DEF ArrInv
<1>5. CursorInv'
  <2>1. UNCHANGED <<readId, next>>
    BY DEF PutCopy
  <2>2. ASSUME NEW r \in Readers, ~readId[r].bFirst PROVE Follows(r)'
    BY <1>1, <2>2, PutCopyFollows DEF IInv, CursorInv
  <2> QED
    BY <2>1, <2>2 DEF IInv, CursorInv
<1>6. OnlyPublishedBytes'
  <2>1. \A b : b \in 0..total-1 => b \in 0..total'-1
    BY <1>2
  <2> QED
    BY <2>1 DEF IInv, PutCopy, OnlyPublishedBytes
<1> QED
  BY <1>3, <1>4, <1>5, <1>6 DEF IInv

LEMMA PutCountIInv == ASSUME IInv, PutCount
                      PROVE  IInv'
<1>1. RingTypes /\ RingTypes'
  BY TypesOfRing, PutCountTypes DEF IInv
<1>2. UNCHANGED <<arr, writePos, readId, total, next, out>>
  BY DEF PutCount
<1>3. TypeOK'
  BY <1>1, <1>2 DEF IInv, TypeOK, RingTypes
<1>4. ArrInv' /\ OnlyPublishedBytes'
  BY <1>2 DEF IInv, ArrInv, ArrFrom, OnlyPublishedBytes
<1>5. CursorInv'
  <2>1. ASSUME NEW r \in Readers, ~readId[r].bFirst PROVE Follows(r)'
    BY <1>1, <2>1, PutCountFollows DEF IInv, CursorInv
  <2> QED
    BY <1>2, <2>1 DEF IInv, CursorInv
<1> QED
  BY <1>3, <1>4, <1>5 DEF IInv

(* The conditions of GetDataRun, for a player of the array alone.          *)
LEMMA GetDataStart ==
    ASSUME IInv, NEW r \in Readers, GetData(r)
    PROVE  /\ RingTypes /\ ArrFrom(0) /\ Follows(r) /\ next[r] >= 0
           /\ next[r] \in Nat /\ total \in Nat
<1>1. RingTypes /\ ArrFrom(0) /\ Follows(r)
  BY TypesOfRing DEF IInv, ArrInv, CursorInv, GetData
<1> QED
  BY <1>1 DEF Follows, RingTypes

(* A get that finds data keeps the invariant.                              *)
LEMMA GetDataIInv == ASSUME IInv, NEW r \in Readers, GetData(r)
                     PROVE  IInv'
<1> DEFINE rp == readId[r].nReadPos
           n == CopyLen(rp)
           start == total - Ready(rp)
<1>1. /\ RingTypes /\ ArrFrom(0) /\ Follows(r) /\ next[r] >= 0
      /\ next[r] \in Nat /\ total \in Nat /\ 0 \in Nat
  BY GetDataStart
<1>2. /\ rp \in Slots
      /\ start \in next[r]..total
      /\ out'[r] = [i \in 1..n |-> start + i - 1]
  BY <1>1, GetDataRun
<1>3. n \in Nat /\ n <= Ready(rp) /\ Ready(rp) \in 1..Size /\ start + Ready(rp) = total
  BY <1>1, <1>2, CopyLenBounds
<1>4. /\ RingTypes' /\ UNCHANGED putVars
      /\ readId'[r].bFirst = FALSE
      /\ \A q \in Readers : q # r => /\ readId'[q] = readId[q]
                                     /\ next'[q] = next[q] /\ out'[q] = out[q]
  BY <1>1, GetDataMoves
<1>5. Follows(r)'
  BY <1>1, GetDataFollows
<1> HIDE DEF start, n, rp
<1>6. \A i \in 1..n : start + i - 1 \in 0..total-1
  BY <1>1, <1>2, <1>3, SizeAssumption
<1>7. TypeOK'
  <2>1. \A q \in Readers : out'[q] \in Seq(Nat \cup {Garbage})
    <3>1. out'[r] \in Seq(Nat \cup {Garbage})
      BY <1>2, <1>3, <1>6
    <3> QED
      BY <1>4, <3>1 DEF IInv, TypeOK
  <2>2. next' \in [Readers -> Nat \cup {NotJoined}]
    <3>1. next'[r] \in Nat
      BY <1>5 DEF Follows
    <3> QED
      BY <1>4, <3>1 DEF IInv, TypeOK, RingTypes
  <2> QED
    BY <1>4, <2>1, <2>2 DEF IInv, TypeOK, RingTypes, Cursors, putVars
<1>8. ArrInv'
  BY <1>4 DEF IInv, ArrInv, ArrFrom, putVars
<1>9. CursorInv'
  BY <1>4, <1>5 DEF IInv, CursorInv, Follows, putVars
<1>10. OnlyPublishedBytes'
  <2>1. \A i \in DOMAIN out'[r] : out'[r][i] \in 0..total'-1
    BY <1>2, <1>4, <1>6 DEF putVars
  <2> QED
    BY <1>4, <2>1 DEF IInv, OnlyPublishedBytes, putVars
<1> QED
  BY <1>7, <1>8, <1>9, <1>10 DEF IInv

LEMMA GetFirstIInv == ASSUME IInv, NEW r \in Readers, GetFirst(r)
                      PROVE  IInv'
<1>1. /\ RingTypes' /\ Follows(r)' /\ UNCHANGED putVars
      /\ ~readId'[r].bFirst /\ next'[r] = total /\ out'[r] = <<>>
      /\ \A q \in Readers : q # r => /\ readId'[q] = readId[q]
                                     /\ next'[q] = next[q] /\ out'[q] = out[q]
  BY TypesOfRing, GetFirstMoves DEF IInv
<1>2. TypeOK'
  <2>1. total \in Nat /\ <<>> \in Seq(Nat \cup {Garbage})
    BY SizeAssumption DEF IInv, TypeOK
  <2>2. \A q \in Readers : out'[q] \in Seq(Nat \cup {Garbage}) /\ next'[q] \in Nat \cup {NotJoined}
    BY <1>1, <2>1 DEF IInv, TypeOK
  <2> QED
    BY <1>1, <2>2 DEF IInv, TypeOK, RingTypes, Cursors, putVars
<1>3. ArrInv'
  BY <1>1 DEF IInv, ArrInv, ArrFrom, putVars
<1>4. CursorInv'
  BY <1>1 DEF IInv, CursorInv, Follows, putVars
<1>5. OnlyPublishedBytes'
  BY <1>1 DEF IInv, OnlyPublishedBytes, putVars
<1> QED
  BY <1>2, <1>3, <1>4, <1>5 DEF IInv

LEMMA GetNothingIInv == ASSUME IInv, NEW r \in Readers, GetNothing(r)
                        PROVE  IInv'
<1>1. /\ RingTypes' /\ UNCHANGED <<putVars, readId, next>>
      /\ out'[r] = <<>> /\ \A q \in Readers : q # r => out'[q] = out[q]
  BY TypesOfRing, GetNothingMoves DEF IInv
<1>2. TypeOK'
  <2>1. \A q \in Readers : out'[q] \in Seq(Nat \cup {Garbage})
    <3>1. <<>> \in Seq(Nat \cup {Garbage})
      OBVIOUS
    <3> QED
      BY <1>1, <3>1 DEF IInv, TypeOK
  <2> QED
    BY <1>1, <2>1 DEF IInv, TypeOK, RingTypes, putVars
<1>3. ArrInv' /\ CursorInv'
  BY <1>1 DEF IInv, ArrInv, ArrFrom, CursorInv, Follows, putVars
<1>4. OnlyPublishedBytes'
  BY <1>1 DEF IInv, OnlyPublishedBytes, putVars
<1> QED
  BY <1>2, <1>3, <1>4 DEF IInv

LEMMA LeaveIInv == ASSUME IInv, NEW r \in Readers, Leave(r)
                   PROVE  IInv'
<1>1. /\ RingTypes' /\ UNCHANGED putVars
      /\ readId'[r] = FreshId /\ next'[r] = NotJoined /\ out'[r] = <<>>
      /\ \A q \in Readers : q # r => /\ readId'[q] = readId[q]
                                     /\ next'[q] = next[q] /\ out'[q] = out[q]
  BY TypesOfRing, LeaveMoves DEF IInv
<1>2. TypeOK'
  <2>1. \A q \in Readers : out'[q] \in Seq(Nat \cup {Garbage}) /\ next'[q] \in Nat \cup {NotJoined}
    <3>1. <<>> \in Seq(Nat \cup {Garbage})
      OBVIOUS
    <3> QED
      BY <1>1, <3>1 DEF IInv, TypeOK
  <2> QED
    BY <1>1, <2>1 DEF IInv, TypeOK, RingTypes, Cursors, putVars
<1>3. ArrInv' /\ OnlyPublishedBytes'
  BY <1>1 DEF IInv, ArrInv, ArrFrom, OnlyPublishedBytes, putVars
<1>4. CursorInv'
  BY <1>1 DEF IInv, CursorInv, Follows, FreshId, putVars
<1> QED
  BY <1>2, <1>3, <1>4 DEF IInv

(* IInv is inductive.                                                      *)
LEMMA NextIInv == IInv /\ [Next]_vars => IInv'
<1> SUFFICES ASSUME IInv, [Next]_vars PROVE IInv'
  OBVIOUS
<1>1. ASSUME NEW len \in PutLens, PutCopy(len) PROVE IInv'
  BY <1>1, PutCopyIInv
<1>2. CASE PutCount
  BY <1>2, PutCountIInv
<1>3. ASSUME NEW r \in Readers, Get(r) PROVE IInv'
  BY <1>3, GetFirstIInv, GetNothingIInv, GetDataIInv DEF Get
<1>4. ASSUME NEW r \in Readers, Leave(r) PROVE IInv'
  BY <1>4, LeaveIInv
<1>5. CASE UNCHANGED vars
  BY <1>5 DEF vars, IInv, TypeOK, ArrInv, ArrFrom, CursorInv, Follows, OnlyPublishedBytes
<1> QED
  BY <1>1, <1>2, <1>3, <1>4, <1>5 DEF Next

(* The inductive invariant holds in every behaviour of the array.          *)
THEOREM Invariance == Spec => []IInv
  BY InitIInv, NextIInv, PTL DEF Spec

(* put and get keep every position inside the ring: no memcpy of theirs    *)
(* leaves m_arrayData.                                                     *)
THEOREM TypeCorrect == Spec => []TypeOK
<1>1. IInv => TypeOK
  BY DEF IInv
<1> QED
  BY <1>1, Invariance, PTL

(* A player is only ever handed bytes that were put.                       *)
THEOREM NoUnwrittenMemory == Spec => []OnlyPublishedBytes
<1>1. IInv => OnlyPublishedBytes
  BY DEF IInv
<1> QED
  BY <1>1, Invariance, PTL
-----------------------------------------------------------------------------
(* The array starts as the broadcast starts.                               *)
LEMMA InitRefines == Init => Abstract!Init
  BY DEF Init, Abstract!Init, NotJoined, Abstract!NotJoined

(* A get that finds data is a delivery of the broadcast.                   *)
LEMMA GetDataRefines == ASSUME IInv, NEW r \in Readers, GetData(r)
                        PROVE  Abstract!Deliver(r)
<1> DEFINE rp == readId[r].nReadPos
           n == CopyLen(rp)
           start == total - Ready(rp)
<1>1. /\ rp \in Slots
      /\ start \in next[r]..total
      /\ next[r] \in Nat
      /\ start # next[r] => total - next[r] > Size
      /\ out'[r] = [i \in 1..n |-> start + i - 1]
  BY GetDataStart, GetDataRun, 0 \in Nat
<1>2. /\ n \in Nat /\ n <= Ready(rp) /\ n <= GetSize /\ n \in 0..GetSize
      /\ Ready(rp) \in 1..Size
  BY <1>1, CopyLenBounds, TypesOfRing, SizeAssumption DEF IInv
<1>3. /\ total \in Nat
      /\ start \in Int /\ start + Ready(rp) = total
  BY <1>2 DEF IInv, TypeOK
<1>4. start + n <= total /\ total - start <= Size
  <2> HIDE DEF n, start
  <2> QED
    BY <1>2, <1>3, SizeAssumption
<1>5. next[r] # Abstract!NotJoined
  BY <1>1 DEF Abstract!NotJoined
<1>6. /\ next' = [next EXCEPT ![r] = start + n]
      /\ out' = [out EXCEPT ![r] = Abstract!Run(start, n)]
      /\ UNCHANGED total
  BY <1>1 DEF GetData, putVars, Abstract!Run, IInv, TypeOK
<1> HIDE DEF rp, n, start
<1> QED
  BY <1>1, <1>2, <1>4, <1>5, <1>6 DEF Abstract!Deliver

(* Every step of the array is a step of the broadcast or leaves it alone.  *)
LEMMA NextRefines == IInv /\ [Next]_vars => [Abstract!Next]_(Abstract!vars)
<1> SUFFICES ASSUME IInv, [Next]_vars PROVE [Abstract!Next]_(Abstract!vars)
  OBVIOUS
<1> USE DEF Abstract!Next, Abstract!vars
<1>1. ASSUME NEW len \in PutLens, PutCopy(len) PROVE Abstract!Publish
  <2>1. len \in Nat /\ len > 0 /\ total \in Nat
    BY SizeAssumption DEF IInv, TypeOK
  <2> QED
    BY <1>1, <2>1 DEF PutCopy, Abstract!Publish
<1>2. CASE PutCount
  BY <1>2 DEF PutCount
<1>3. ASSUME NEW r \in Readers, GetFirst(r) PROVE Abstract!Join(r)
  BY <1>3 DEF GetFirst, putVars, IInv, CursorInv, Follows, NotJoined, Abstract!Join, Abstract!NotJoined
<1>4. ASSUME NEW r \in Readers, GetNothing(r) PROVE Abstract!Deliver(r)
  <2>1. next[r] \in Nat /\ next[r] <= total /\ total \in Nat
    BY <1>4 DEF GetNothing, MapLockShared, IInv, CursorInv, Follows, TypeOK
  <2>2. next' = [next EXCEPT ![r] = next[r] + 0]
    BY <1>4, <2>1 DEF GetNothing, IInv, TypeOK
  <2>3. out' = [out EXCEPT ![r] = Abstract!Run(next[r], 0)]
    BY <1>4, <2>1 DEF GetNothing, Abstract!Run
  <2>4. /\ next[r] \in next[r]..total
        /\ 0 \in 0..GetSize
        /\ next[r] + 0 <= total
        /\ next[r] # Abstract!NotJoined
    BY <2>1, SizeAssumption DEF Abstract!NotJoined
  <2> QED
    BY <1>4, <2>2, <2>3, <2>4 DEF GetNothing, putVars, Abstract!Deliver
<1>5. ASSUME NEW r \in Readers, GetData(r) PROVE Abstract!Deliver(r)
  BY <1>5, GetDataRefines
<1>6. ASSUME NEW r \in Readers, Leave(r) PROVE Abstract!Leave({r})
  BY <1>6 DEF Leave, putVars, NotJoined, IInv, TypeOK, Abstract!Leave, Abstract!NotJoined
<1>7. CASE UNCHANGED vars
  BY <1>7 DEF vars
<1> QED
  BY <1>1, <1>2, <1>3, <1>4, <1>5, <1>6, <1>7 DEF Next, Get

(* CSLSRecycleArray implements the lossy ordered broadcast.                *)
THEOREM Implements == Spec => Refines
  BY InitRefines, NextRefines, Invariance, PTL DEF Spec, Refines, Abstract!Spec
-----------------------------------------------------------------------------
(* Whole laps of the ring: none, one more, one less, and their sum.        *)
Laps(x) == \E k \in Int : x = k * Size

LEMMA LapSteps == ASSUME NEW x \in Int, Laps(x)
                  PROVE  Laps(x + Size) /\ Laps(x - Size)
<1>1. PICK k \in Int : x = k * Size
  BY DEF Laps
<1>2. x + Size = (k + 1) * Size /\ x - Size = (k - 1) * Size
  BY <1>1, SizeAssumption
<1> QED
  BY <1>1, <1>2 DEF Laps

LEMMA NoLap == Laps(0)
  BY SizeAssumption DEF Laps

(* Whole laps leave no remainder.                                          *)
LEMMA LapsDivide == ASSUME NEW x \in Int, Laps(x)
                    PROVE  x % Size = 0
<1>1. PICK k \in Int : x = k * Size
  BY DEF Laps
<1>2. Size \in Nat /\ Size > 0
  BY SizeAssumption
<1> DEFINE q == x \div Size
<1>3. q \in Int /\ x = Size * q + (x % Size) /\ x % Size \in 0..Size-1
  BY <1>2
<1> HIDE DEF q
<1>4. x % Size = (k - q) * Size
  BY <1>1, <1>2, <1>3
<1>5. k - q \in Int
  BY <1>1, <1>3
<1>6. CASE k - q >= 1
  <2>1. (k - q) * Size >= Size
    BY <1>2, <1>5, <1>6
  <2> QED
    BY <1>2, <1>3, <1>4, <2>1
<1>7. CASE k - q <= -1
  <2>1. (k - q) * Size <= -Size
    BY <1>2, <1>5, <1>7
  <2> QED
    BY <1>2, <1>3, <1>4, <2>1
<1>8. CASE k - q = 0
  BY <1>2, <1>4, <1>8
<1> QED
  BY <1>5, <1>6, <1>7, <1>8

(* The byte a cursor's position would stand for if it had not been         *)
(* overrun, and the byte the player is to have next, are whole laps apart. *)
Phase(r) == total - writePos + readId[r].nReadPos - next[r]
PhaseInv == \A r \in Readers : ~readId[r].bFirst => Laps(Phase(r))

(* A get that finds data starts whole laps after the last one's end.       *)
LEMMA StartPhase ==
    ASSUME IInv, PhaseInv, NEW r \in Readers, GetData(r)
    PROVE  /\ total - Ready(readId[r].nReadPos) - next[r] \in Int
           /\ Laps(total - Ready(readId[r].nReadPos) - next[r])
<1> DEFINE rp == readId[r].nReadPos
<1>1. /\ Size \in Nat /\ total \in Nat /\ writePos \in Nat /\ rp \in Nat /\ next[r] \in Int
      /\ Laps(Phase(r))
  BY SMTT(60), SizeAssumption DEF IInv, TypeOK, Slots, GetData, PhaseInv, NotJoined
<1>phase. Phase(r) \in Int
  BY <1>1 DEF Phase
<1>2. \/ total - Ready(rp) - next[r] = Phase(r)
      \/ total - Ready(rp) - next[r] = Phase(r) - Size
  BY <1>1 DEF Ready, Phase
<1>3. Laps(Phase(r) - Size) /\ Phase(r) - Size \in Int
  BY <1>1, <1>phase, LapSteps
<1> QED
  BY <1>1, <1>phase, <1>2, <1>3

(* The phases hold at the start and through every step.                    *)
LEMMA InitPhase == Init => PhaseInv
  BY DEF Init, PhaseInv, FreshId

LEMMA PutCopyPhase == ASSUME IInv, PhaseInv, NEW len \in PutLens, PutCopy(len)
                      PROVE  PhaseInv'
<1> SUFFICES ASSUME NEW r \in Readers, ~readId[r].bFirst
             PROVE  Laps(Phase(r)')
  BY DEF PhaseInv, PutCopy, IInv, TypeOK
<1>1. /\ Size \in Nat /\ total \in Nat /\ writePos \in Nat /\ writePos < Size
      /\ readId[r].nReadPos \in Nat /\ next[r] \in Int /\ len \in Nat
      /\ Phase(r) \in Int /\ Laps(Phase(r))
  BY SizeAssumption DEF IInv, TypeOK, CursorInv, Slots, PhaseInv, Phase, NotJoined
<1>2. \/ Phase(r)' = Phase(r)
      \/ Phase(r)' = Phase(r) + Size
  BY <1>1 DEF PutCopy, Slot, Phase
<1> QED
  BY <1>1, <1>2, LapSteps

LEMMA GetDataPhase == ASSUME IInv, PhaseInv, NEW r \in Readers, GetData(r)
                      PROVE  PhaseInv'
<1> DEFINE rp == readId[r].nReadPos
           n == CopyLen(rp)
           start == total - Ready(rp)
<1>1. start - next[r] \in Int /\ Laps(start - next[r])
  BY StartPhase
<1>2. /\ Size \in Nat /\ total \in Nat /\ writePos \in Nat /\ rp \in Slots
      /\ rp \in Nat /\ rp < Size /\ writePos < Size
  BY SizeAssumption, GetDataStart, GetDataMoves DEF IInv, TypeOK, Slots
<1>3. n \in Nat /\ n <= Ready(rp) /\ Ready(rp) \in Int
  BY <1>2, CopyLenBounds, TypesOfRing DEF IInv
<1>4. /\ readId'[r].nReadPos = Slot(rp + n)
      /\ readId'[r].bFirst = FALSE
      /\ next'[r] = start + n
      /\ UNCHANGED <<writePos, total>>
      /\ \A q \in Readers : q # r => readId'[q] = readId[q] /\ next'[q] = next[q]
  BY GetDataStart, GetDataMoves DEF putVars
<1>5. Phase(r)' \in {0, Size, -Size}
  <2>1. Phase(r)' = total - writePos + Slot(rp + n) - (start + n)
    BY <1>4 DEF Phase
  <2>2. start = IF rp < writePos THEN total - writePos + rp ELSE total - writePos + rp - Size
    BY <1>2 DEF Ready
  <2> HIDE DEF n, start, rp
  <2> QED
    BY <1>2, <1>3, <2>1, <2>2 DEF Slot
<1>6. Laps(Phase(r)')
  <2>1. Laps(0) /\ Laps(Size) /\ Laps(-Size)
    <3>1. Laps(0 + Size) /\ Laps(0 - Size)
      BY NoLap, LapSteps
    <3> QED
      BY <1>2, <3>1, NoLap
  <2> QED
    BY <1>5, <2>1
<1> QED
  BY <1>4, <1>6 DEF PhaseInv, Phase

LEMMA NextPhase == IInv /\ PhaseInv /\ [Next]_vars => PhaseInv'
<1> SUFFICES ASSUME IInv, PhaseInv, [Next]_vars PROVE PhaseInv'
  OBVIOUS
<1>1. ASSUME NEW len \in PutLens, PutCopy(len) PROVE PhaseInv'
  BY <1>1, PutCopyPhase
<1>2. CASE PutCount \/ UNCHANGED vars
  BY <1>2 DEF PutCount, vars, PhaseInv, Phase
<1>3. ASSUME NEW r \in Readers, GetFirst(r) PROVE PhaseInv'
  <2>1. /\ readId'[r].nReadPos = writePos /\ next'[r] = total
        /\ UNCHANGED <<writePos, total>>
        /\ \A q \in Readers : q # r => readId'[q] = readId[q] /\ next'[q] = next[q]
    BY <1>3 DEF GetFirst, putVars, IInv, TypeOK
  <2>2. Phase(r)' = 0
    BY <2>1 DEF Phase, IInv, TypeOK, Slots
  <2> QED
    BY <2>1, <2>2, NoLap DEF PhaseInv, Phase
<1>4. ASSUME NEW r \in Readers, GetNothing(r) PROVE PhaseInv'
  BY <1>4 DEF GetNothing, putVars, PhaseInv, Phase
<1>5. ASSUME NEW r \in Readers, GetData(r) PROVE PhaseInv'
  BY <1>5, GetDataPhase
<1>6. ASSUME NEW r \in Readers, Leave(r) PROVE PhaseInv'
  BY <1>6 DEF Leave, putVars, FreshId, PhaseInv, Phase, IInv, TypeOK
<1> QED
  BY <1>1, <1>2, <1>3, <1>4, <1>5, <1>6 DEF Next, Get

(* What a player loses by being overrun is whole laps of the ring: its     *)
(* next bytes start where its cursor stood, laps later.                    *)
THEOREM WholeLaps == Spec => SkipsWholeLaps
<1> DEFINE Skips == \A r \in Readers :
                      out'[r] # out[r] /\ out'[r] # <<>> /\ next[r] # NotJoined
                         => (Head(out'[r]) - next[r]) % Size = 0
<1>1. IInv /\ PhaseInv /\ [Next]_vars => [Skips]_vars
  <2> SUFFICES ASSUME IInv, PhaseInv, Next, NEW r \in Readers,
                      out'[r] # out[r], out'[r] # <<>>
               PROVE  (Head(out'[r]) - next[r]) % Size = 0
    OBVIOUS
  <2>1. GetData(r)
    <3>1. ~(\E len \in PutLens : PutCopy(len)) /\ ~PutCount
      BY DEF PutCopy, PutCount
    <3>2. \A q \in Readers : GetFirst(q) \/ GetNothing(q) \/ Leave(q)
                               => out'[r] \in {<<>>, out[r]}
      BY DEF GetFirst, GetNothing, Leave, IInv, TypeOK
    <3>3. \A q \in Readers : GetData(q) /\ q # r => out'[r] = out[r]
      BY DEF GetData, IInv, TypeOK
    <3> QED
      BY <3>1, <3>2, <3>3 DEF Next, Get
  <2> DEFINE start == total - Ready(readId[r].nReadPos)
             n == CopyLen(readId[r].nReadPos)
  <2>2. /\ out'[r] = [i \in 1..n |-> start + i - 1]
        /\ n \in Nat /\ start \in Int
    <3>1. RingTypes /\ total \in Nat /\ 0 \in Nat /\ readId[r].nReadPos \in Slots
      BY <2>1, GetDataStart, GetDataMoves
    <3>2. Ready(readId[r].nReadPos) \in Nat /\ n \in Nat
      BY <3>1, CopyLenBounds, SizeAssumption
    <3> QED
      BY <2>1, <3>1, <3>2, GetDataStart, GetDataRun
  <2>3. start - next[r] \in Int /\ Laps(start - next[r])
    BY <2>1, StartPhase
  <2> HIDE DEF start, n
  <2>4. n > 0
    BY <2>2
  <2>5. Head(out'[r]) = start
    BY <2>2, <2>4
  <2> QED
    BY <2>3, <2>5, LapsDivide
<1> QED
  BY <1>1, InitPhase, NextPhase, Invariance, PTL DEF Spec, SkipsWholeLaps
=============================================================================
