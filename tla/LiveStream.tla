----------------------------- MODULE LiveStream -----------------------------
(***************************************************************************)
(* The data path of one stream: CSLSMapData's entry for its key, the       *)
(* publisher role that puts what it reads from its socket, and the player  *)
(* roles whose write handler gets, then writes to their sockets in         *)
(* TS_UDP_LEN chunks.  Publishers come and go while players stay: the map  *)
(* creates the array when a publisher registers and deletes it when the    *)
(* publisher is closed, and the player's cursor outlives both.  A source   *)
(* that comes between the two halves of a puller's end (out of the         *)
(* registry, then out of the map) takes over the puller's array.           *)
(*                                                                         *)
(* The ghost total goes on counting from one array to the next, so a byte  *)
(* is still named by one number.                                           *)
(***************************************************************************)
EXTENDS RecycleArray, TsHeader

CONSTANT MaxLives      \* bound: how many arrays the key has in turn

ASSUME LivesAssumption == MaxLives \in Nat

VARIABLES exists,      \* the key is in m_map_array
          tsInfo,      \* the key's entry of m_map_ts_info
          sendBuf,     \* m_data[0..m_data_len) of each player
          sendPos,     \* m_data_pos of each player
          written,     \* ghost: stream bytes written by the last handler call
          life,        \* ghost: arrays the key has had so far
          heard,       \* ghost: how far the source the array was made for is with
                       \* PAT, PMT, key frame, and whether that key frame is its
                       \* first PES packet
          joinedIn     \* ghost: the life in which the player's cursor was set

mapVars == <<exists, tsInfo, life, heard>>
playerVars == <<sendBuf, sendPos, written, joinedIn>>
liveVars == <<vars, mapVars, playerVars>>

(* The TS_UDP_LEN block get_ts_info returns: PAT, PMT, SPS and PPS.        *)
HeaderByte == -2
Header == [i \in 1..Aligned |-> HeaderByte]

(* What a part of m_data holds of the stream: m_data is filled by one call *)
(* of get, with the header or with bytes of the array, never with both.    *)
StreamBytes(data) ==
    IF \E i \in DOMAIN data : data[i] = HeaderByte THEN <<>> ELSE data

NoInfo == [ti |-> NoParts, of |-> 0]
Nothing == [last |-> "nothing", only |-> TRUE]
TakenOver == [last |-> "taken over", only |-> FALSE]

LiveInit ==
    /\ Init
    /\ exists = FALSE
    /\ tsInfo = NoInfo
    /\ heard = Nothing
    /\ life = 0
    /\ sendBuf = [r \in Readers |-> <<>>]
    /\ sendPos = [r \in Readers |-> 0]
    /\ written = [r \in Readers |-> <<>>]
    /\ joinedIn = [r \in Readers |-> 0]
-----------------------------------------------------------------------------
(* CSLSMapData::add, called for a new publisher: a fresh array, its memory *)
(* as the allocator left it.                                               *)
Add ==
    /\ ~exists
    /\ life < MaxLives
    /\ exists' = TRUE
    /\ life' = life + 1
    /\ arr' = [j \in Slots |-> Garbage]
    /\ writePos' = 0
    /\ dataCount' = 0
    /\ heard' = Nothing
    /\ UNCHANGED <<pending, readId, total, next, out, tsInfo, playerVars>>

(* add, when the key has an array: it changes nothing and returns success, *)
(* so the new source goes on with the array and the ts_info of the last.   *)
TakeOver ==
    /\ exists
    /\ pending = 0
    /\ heard' = TakenOver
    /\ UNCHANGED <<vars, exists, tsInfo, life, playerVars>>

KeepInfo == tsInfo

Erased == NoInfo

(* CSLSMapData::remove, called by CSLSPublisher::uninit. *)
Remove ==
    /\ exists
    /\ pending = 0
    /\ exists' = FALSE
    /\ tsInfo' = Erased
    /\ UNCHANGED <<vars, life, heard, playerVars>>

(* CSLSMapData::put, in the two steps of the array's put; the ts_info of   *)
(* the key is made by its first put, and each looks for the header's parts *)
(* in its packets (one here: no get can come between those of one put).    *)
PutBegin(len) ==
    /\ exists
    /\ PutCopy(len)
    /\ UNCHANGED <<mapVars, playerVars>>

IsKey(p) == p.nals = {"sps", "pps"} /\ p.fits

(* The ghost of what a well-formed stream begins with. *)
Hear(p) ==
    LET last == CASE heard.last = "nothing" /\ p.kind = "pat" -> "pat"
                  [] heard.last = "pat" /\ p.kind = "pmt" -> "pmt"
                  [] heard.last = "pmt" /\ IsKey(p) -> "key"
                  [] OTHER -> heard.last
    IN  [last |-> last,
         only |-> heard.only /\ (p.kind \in {"audio", "video"} => last = "key")]

Info == IF tsInfo = NoInfo THEN [ti |-> NoParts, of |-> life] ELSE tsInfo

PutEnd(p) ==
    /\ PutCount
    /\ tsInfo' = [Info EXCEPT !.ti = Check(@, p)]
    /\ heard' = Hear(p)
    /\ UNCHANGED <<exists, life, playerVars>>
-----------------------------------------------------------------------------
(* CSLSRole::handler_write_data.                                           *)

ResetOnShortWrite(r, data, p) ==
    /\ sendBuf' = [sendBuf EXCEPT ![r] = <<>>]
    /\ sendPos' = [sendPos EXCEPT ![r] = 0]

(* m_data and m_data_pos after writing up to p: emptied when all is out.   *)
KeepRest(r, data, p) ==
    /\ sendBuf' = [sendBuf EXCEPT ![r] = IF p = Len(data) THEN <<>> ELSE data]
    /\ sendPos' = [sendPos EXCEPT ![r] = IF p = Len(data) THEN 0 ELSE p]

(* The write loop: the socket takes some of the chunks, in order; the loop *)
(* stops at the first one it refuses.                                      *)
Write(r, data, pos) ==
    \E chunks \in 0..((Len(data) - pos) \div Aligned) :
        LET p   == pos + chunks * Aligned
            now == SubSeq(data, pos + 1, p)
        IN  /\ KeepRest(r, data, p)
            /\ written' = [written EXCEPT ![r] = StreamBytes(now)]

(* What CSLSMapData::get leaves in m_data: the stream header on the first  *)
(* read, if a put has made one, and the array's bytes afterwards.          *)
Refilled(r) ==
    IF readId[r].bFirst
    THEN IF tsInfo # NoInfo THEN Header ELSE <<>>
    ELSE out'[r]

(* Without an array get fails and the handler returns before it touches    *)
(* anything: "maybe no publisher, wait for timeout".                       *)
HandleNoPublisher(r) ==
    /\ sendBuf[r] = <<>>
    /\ ~exists
    /\ UNCHANGED liveVars

(* m_data holds nothing: get first.                                        *)
HandleRefill(r) ==
    /\ sendBuf[r] = <<>>
    /\ exists
    /\ Get(r)
    /\ Write(r, Refilled(r), 0)
    /\ joinedIn' = [joinedIn EXCEPT ![r] = IF readId[r].bFirst THEN life ELSE @]
    /\ UNCHANGED mapVars

HandleRest(r) ==
    /\ sendBuf[r] # <<>>
    /\ Write(r, sendBuf[r], sendPos[r])
    /\ UNCHANGED <<vars, mapVars, joinedIn>>

Handle(r) == HandleNoPublisher(r) \/ HandleRefill(r) \/ HandleRest(r)

(* The player's socket is closed and its role deleted. *)
Close(r) ==
    /\ Leave(r)
    /\ sendBuf' = [sendBuf EXCEPT ![r] = <<>>]
    /\ sendPos' = [sendPos EXCEPT ![r] = 0]
    /\ written' = [written EXCEPT ![r] = <<>>]
    /\ joinedIn' = [joinedIn EXCEPT ![r] = 0]
    /\ UNCHANGED mapVars

LiveNext ==
    \/ Add
    \/ TakeOver
    \/ Remove
    \/ \E len \in PutLens : PutBegin(len)
    \/ \E p \in Packets : PutEnd(p)
    \/ \E r \in Readers : Handle(r) \/ Close(r)

LiveSpec == LiveInit /\ [][LiveNext]_liveVars
-----------------------------------------------------------------------------
(* Properties.                                                             *)

(* No part of a header outlives the array it was captured beside: what a   *)
(* player gets on joining goes with the array it then reads.  (Not with    *)
(* the source: one that takes over an array takes over its header.)        *)
HeaderOfOwnArray == tsInfo # NoInfo => tsInfo.of = life

(* A source for which the array was made and whose first PES packet, after *)
(* PAT and PMT, is a key frame with parameter sets that fit has a whole    *)
(* header from then on, whatever it sends afterwards.                      *)
GoodStartHasHeader ==
    exists /\ heard.last = "key" /\ heard.only => Whole(tsInfo.ti)

(* What get_ts_info promises every player: once PAT, PMT and, after them,  *)
(* a key frame have been sent, the header holds "pat, pmt" and "sps pps".  *)
HeaderWhole == exists /\ heard.last = "key" => Whole(tsInfo.ti)

(* The player still reads the array it joined.                             *)
SameArray(r) == joinedIn[r] = life /\ ~readId[r].bFirst

Unsent(r) == SubSeq(sendBuf[r], sendPos[r] + 1, Len(sendBuf[r]))

(* For a player that reads the array it joined, what reaches its socket is *)
(* the lossy ordered broadcast, across short writes, partly drained        *)
(* buffers, the end of the publisher and a source that takes over.         *)
NextToSend(r) ==
    IF ~SameArray(r) THEN NotJoined
    ELSE LET rest == StreamBytes(Unsent(r))
         IN  IF rest = <<>> THEN next[r] ELSE Head(rest)

AbstractPath == INSTANCE Broadcast WITH
    published <- total,
    Window <- Size,
    MaxRead <- GetSize,
    next <- [r \in Readers |-> NextToSend(r)],
    out <- [r \in Readers |-> IF SameArray(r) THEN written[r] ELSE <<>>]
LiveRefines == AbstractPath!Spec
=============================================================================
