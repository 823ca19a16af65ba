--------------------------- MODULE LiveStreamProofs ---------------------------
(***************************************************************************)
(* The path of one stream, for every ring, number of players and           *)
(* publishers: no part of the stream header outlives its array, a          *)
(* well-formed start of a stream makes it whole, and what reaches the      *)
(* socket of a player that reads the array it joined is the lossy ordered  *)
(* broadcast.                                                              *)
(***************************************************************************)
EXTENDS LiveStream, RecycleArrayProofs

Parts == {"pat", "pmt", "sps", "pps"}
Infos == [parts : SUBSET Parts, esPid : {NoPid, "audio", "video"},
          data : SUBSET (Parts \cup {"garbage"})]

HeardType ==
    heard \in [last : {"nothing", "pat", "pmt", "key"}, only : BOOLEAN] \cup {TakenOver}

InfoType ==
    /\ tsInfo \in [ti : Infos, of : Nat]
    /\ life \in Nat

(* A publisher's entry exists only while its array does. *)
Bound ==
    /\ pending > 0 => exists
    /\ ~exists => tsInfo = NoInfo
    /\ tsInfo # NoInfo => tsInfo.of = life

(* What has been captured of a well-formed start. *)
Captured(last, ti) ==
    CASE last = "nothing" -> ti = NoParts
      [] last = "pat" -> ti = [NoParts EXCEPT !.parts = {"pat"}]
      [] last = "pmt" -> ti = [NoParts EXCEPT !.parts = {"pat", "pmt"}]
      [] last = "key" -> Settled(ti) /\ Whole(ti)

GoodStart == exists /\ heard.only => Captured(heard.last, tsInfo.ti)

HInv == HeardType /\ InfoType /\ Bound /\ GoodStart
-----------------------------------------------------------------------------
(* What a packet adds keeps the type of what has been captured.            *)
LEMMA CheckType ==
    ASSUME NEW ti \in Infos, NEW p \in Packets
    PROVE  Check(ti, p) \in Infos
<1>1. p.kind \in {"pat", "pmt", "other", "audio", "video"} /\ p.nals \subseteq Parts
  BY DEF Packets, Table, Pes, Parts
<1>2. ASSUME p.kind \in {"audio", "video"}
      PROVE  ParsePes(ti, p) \in Infos
  BY <1>1, <1>2 DEF ParsePes, Built, Infos, Parts
<1>3. Parse(ti, p) \in Infos
  BY <1>1, <1>2 DEF Parse, Infos, Parts
<1> QED BY <1>3 DEF Check

(* One packet of a well-formed start. *)
LEMMA CheckCaptures ==
    ASSUME HeardType, NEW ti \in Infos, NEW p \in Packets,
           heard.only => Captured(heard.last, ti), Hear(p).only
    PROVE  Captured(Hear(p).last, Check(ti, p))
<1>1. heard.only /\ Captured(heard.last, ti)
      /\ (p.kind \in {"audio", "video"} => Hear(p).last = "key")
  BY DEF Hear
<1>2. p.kind \in {"pat", "pmt", "other", "audio", "video"}
  BY DEF Packets, Table, Pes
<1>3. CASE heard.last = "nothing"
  <2>1. ti = NoParts
    BY <1>1, <1>3 DEF Captured
  <2>2. CASE p.kind = "pat"
    <3>1. Check(ti, p) = [NoParts EXCEPT !.parts = {"pat"}]
      BY <2>1, <2>2 DEF Check, Settled, Parse, NoParts
    <3>2. Hear(p).last = "pat"
      BY <1>3, <2>2 DEF Hear
    <3> QED BY <3>1, <3>2 DEF Captured
  <2>3. CASE p.kind # "pat"
    <3>1. Hear(p).last = "nothing"
      BY <1>3, <2>3 DEF Hear
    <3>2. p.kind \in {"pmt", "other"}
      BY <1>1, <1>2, <2>3, <3>1
    <3>3. Check(ti, p) = ti
      BY <2>1, <3>2 DEF Check, Settled, Parse, NoParts
    <3> QED BY <2>1, <3>1, <3>3 DEF Captured
  <2> QED BY <2>2, <2>3
<1>4. CASE heard.last = "pat"
  <2>1. ti = [NoParts EXCEPT !.parts = {"pat"}]
    BY <1>1, <1>4 DEF Captured
  <2>2. CASE p.kind = "pmt"
    <3>1. Check(ti, p) = [NoParts EXCEPT !.parts = {"pat", "pmt"}]
      BY <2>1, <2>2 DEF Check, Settled, Parse, NoParts
    <3>2. Hear(p).last = "pmt"
      BY <1>4, <2>2 DEF Hear
    <3> QED BY <3>1, <3>2 DEF Captured
  <2>3. CASE p.kind # "pmt"
    <3>1. Hear(p).last = "pat"
      BY <1>4, <2>3 DEF Hear
    <3>2. p.kind \in {"pat", "other"}
      BY <1>1, <1>2, <2>3, <3>1
    <3>3. Check(ti, p) = ti
      BY <2>1, <3>2 DEF Check, Settled, Parse, NoParts
    <3> QED BY <2>1, <3>1, <3>3 DEF Captured
  <2> QED BY <2>2, <2>3
<1>5. CASE heard.last = "pmt"
  <2>1. CASE IsKey(p)
    <3>1. p.kind = "video" /\ p.nals = {"sps", "pps"} /\ p.fits = TRUE
      BY <2>1 DEF IsKey, Packets, Table, Pes
    <3>2. ti.parts = {"pat", "pmt"} /\ ti.esPid = NoPid
      BY <1>1, <1>5 DEF Captured, NoParts
    <3>3. Check(ti, p) = ParsePes(ti, p)
      BY <3>1, <3>2 DEF Check, Settled, Parse, OwnPid
    <3>4. Settled(ParsePes(ti, p)) /\ Whole(ParsePes(ti, p))
      BY <3>1, <3>2 DEF ParsePes, Settled, Whole, Built
    <3>5. Hear(p).last = "key"
      BY <1>5, <2>1 DEF Hear
    <3> QED BY <3>3, <3>4, <3>5 DEF Captured
  <2>2. CASE ~IsKey(p)
    BY <1>1, <1>2, <1>5, <2>2 DEF Hear, Captured, Check, Settled, Parse, NoParts
  <2> QED BY <2>1, <2>2
<1>6. CASE heard.last = "key"
  BY <1>1, <1>6 DEF Hear, Captured, Check
<1>7. heard.last \in {"nothing", "pat", "pmt", "key"}
  <2>1. heard # TakenOver
    <3>1. TakenOver.only = FALSE
      BY DEF TakenOver
    <3>2. heard.only
      BY <1>1
    <3> QED BY <3>1, <3>2, Zenon
  <2> QED BY <2>1 DEF HeardType
<1> QED BY <1>3, <1>4, <1>5, <1>6, <1>7
-----------------------------------------------------------------------------
LEMMA InitHInv == LiveInit => HInv
<1> SUFFICES ASSUME LiveInit PROVE HInv
  OBVIOUS
<1>1. HeardType /\ InfoType
  BY DEF LiveInit, HeardType, InfoType, NoInfo, Nothing, NoParts, Infos, NoPid
<1>2. Bound /\ GoodStart
  BY DEF LiveInit, Init, Bound, GoodStart
<1> QED BY <1>1, <1>2 DEF HInv

LEMMA AddHInv ==
    ASSUME HInv, Add
    PROVE  HInv'
<1>1. HeardType' /\ InfoType' /\ Bound'
  BY DEF HInv, Add, HeardType, InfoType, Bound, Nothing
<1>2. tsInfo'.ti = NoParts /\ heard'.last = "nothing"
  BY DEF HInv, Add, Bound, NoInfo, Nothing
<1> QED BY <1>1, <1>2 DEF HInv, GoodStart, Captured

LEMMA TakeOverHInv ==
    ASSUME HInv, TakeOver
    PROVE  HInv'
<1>1. UNCHANGED <<exists, tsInfo, life, pending>> /\ heard' = TakenOver
  BY DEF TakeOver, vars, putVars
<1>2. HeardType' /\ heard'.only = FALSE
  BY <1>1 DEF HeardType, TakenOver
<1> QED BY <1>1, <1>2 DEF HInv, InfoType, Bound, GoodStart

LEMMA RemoveHInv ==
    ASSUME HInv, Remove
    PROVE  HInv'
<1>1. tsInfo' = NoInfo /\ ~exists' /\ pending' = 0 /\ UNCHANGED <<life, heard>>
  BY DEF Remove, Erased, vars, putVars
<1>2. NoInfo \in [ti : Infos, of : Nat]
  BY DEF NoInfo, NoParts, Infos, NoPid
<1> QED BY <1>1, <1>2 DEF HInv, HeardType, InfoType, Bound, GoodStart

LEMMA PutBeginHInv ==
    ASSUME HInv, NEW len \in PutLens, PutBegin(len)
    PROVE  HInv'
  BY DEF HInv, PutBegin, mapVars, HeardType, InfoType, Bound, GoodStart

LEMMA PutEndHInv ==
    ASSUME HInv, NEW p \in Packets, PutEnd(p)
    PROVE  HInv'
<1>1. /\ pending > 0 /\ pending' = 0 /\ exists
      /\ tsInfo' = [Info EXCEPT !.ti = Check(@, p)] /\ heard' = Hear(p)
      /\ UNCHANGED <<exists, life>>
  BY DEF HInv, PutEnd, PutCount, Bound
<1>2. Info \in [ti : Infos, of : Nat] /\ Info.of = life /\ Info.ti = tsInfo.ti
  BY DEF HInv, InfoType, Bound, Info, NoInfo, NoParts, Infos, NoPid
<1>3. Check(Info.ti, p) \in Infos
  BY <1>2, CheckType
<1>4. tsInfo' \in [ti : Infos, of : Nat] /\ tsInfo'.of = life /\ tsInfo'.ti = Check(tsInfo.ti, p)
  BY <1>1, <1>2, <1>3
<1>5. HeardType'
  <2>1. CASE heard = TakenOver
    <3>1. heard.last = "taken over" /\ heard.only = FALSE
      BY <2>1 DEF TakenOver
    <3>2. Hear(p) = TakenOver
      BY <3>1 DEF Hear, TakenOver
    <3> QED BY <1>1, <3>2 DEF HeardType
  <2>2. CASE heard # TakenOver
    BY <1>1, <2>2 DEF HInv, HeardType, Hear
  <2> QED BY <2>1, <2>2
<1>6. GoodStart'
  <2> SUFFICES ASSUME Hear(p).only
               PROVE  Captured(Hear(p).last, Check(tsInfo.ti, p))
    BY <1>1, <1>4 DEF GoodStart
  <2>1. heard.only => Captured(heard.last, tsInfo.ti)
    BY <1>1 DEF HInv, GoodStart
  <2> QED BY <1>2, <2>1, CheckCaptures DEF HInv
<1> QED BY <1>1, <1>4, <1>5, <1>6 DEF HInv, InfoType, Bound

LEMMA PlayerHInv ==
    ASSUME HInv, NEW r \in Readers, Handle(r) \/ Close(r)
    PROVE  HInv'
<1>1. UNCHANGED <<pending, mapVars>>
  BY DEF Handle, HandleNoPublisher, HandleRefill, HandleRest, Close, Get, GetFirst, GetNothing,
         GetData, Leave, putVars, vars, liveVars, mapVars
<1> QED BY <1>1 DEF mapVars, HInv, HeardType, InfoType, Bound, GoodStart

LEMMA HInvariance == LiveSpec => []HInv
<1>1. HInv /\ [LiveNext]_liveVars => HInv'
  <2> SUFFICES ASSUME HInv, [LiveNext]_liveVars PROVE HInv'
    OBVIOUS
  <2>1. CASE UNCHANGED liveVars
    BY <2>1 DEF liveVars, vars, putVars, mapVars, HInv, HeardType, InfoType, Bound, GoodStart
  <2> QED BY <2>1, AddHInv, TakeOverHInv, RemoveHInv, PutBeginHInv, PutEndHInv, PlayerHInv DEF LiveNext
<1> QED BY <1>1, InitHInv, PTL DEF LiveSpec

(* What a player gets first was captured beside the array it then reads,   *)
(* for any number of arrays one after the other and whoever takes one over.*)
THEOREM HeaderIsOwn == LiveSpec => []HeaderOfOwnArray
<1>1. HInv => HeaderOfOwnArray
  BY DEF HInv, Bound, HeaderOfOwnArray
<1> QED BY <1>1, HInvariance, PTL

(* A stream that starts with PAT, PMT and then a key frame gives every     *)
(* player a whole header, whatever follows, if its array is its own.       *)
THEOREM HeaderIsWhole == LiveSpec => []GoodStartHasHeader
<1>1. HInv => GoodStartHasHeader
  BY DEF HInv, GoodStart, Captured, GoodStartHasHeader
<1> QED BY <1>1, HInvariance, PTL
-----------------------------------------------------------------------------
(* The buffer of a player, as a run of the stream or as the header.        *)
Stretch(a, n) == AbstractPath!Run(a, n)

LEMMA StretchSeq ==
    ASSUME NEW a \in Int, NEW n \in Nat
    PROVE  /\ Stretch(a, n) \in Seq(Int) /\ Len(Stretch(a, n)) = n
           /\ DOMAIN Stretch(a, n) = 1..n
           /\ \A i \in 1..n : Stretch(a, n)[i] = a + i - 1
           /\ n > 0 => Stretch(a, n) # <<>> /\ Head(Stretch(a, n)) = a
           /\ n = 0 => Stretch(a, n) = <<>>
  BY DEF Stretch, AbstractPath!Run

LEMMA StretchNone == ASSUME NEW a PROVE Stretch(a, 0) = <<>>
  BY DEF Stretch, AbstractPath!Run

LEMMA StretchPart ==
    ASSUME NEW a \in Int, NEW n \in Nat, NEW i \in 0..n, NEW j \in i..n
    PROVE  SubSeq(Stretch(a, n), i + 1, j) = Stretch(a + i, j - i)
<1>1. SubSeq(Stretch(a, n), i + 1, j) = [k \in 1..(j - i) |-> Stretch(a, n)[i + k]]
  BY StretchSeq
<1>2. ASSUME NEW k \in 1..(j - i) PROVE Stretch(a, n)[i + k] = a + i + k - 1
  BY StretchSeq
<1> QED
  BY <1>1, <1>2 DEF Stretch, AbstractPath!Run

LEMMA StretchBytes ==
    ASSUME NEW a \in Nat, NEW n \in Nat
    PROVE  StreamBytes(Stretch(a, n)) = Stretch(a, n)
  BY StretchSeq DEF StreamBytes, HeaderByte

LEMMA HeaderSeq == Header \in Seq(Int) /\ Len(Header) = Aligned
  BY SizeAssumption DEF Header, HeaderByte

LEMMA HeaderBytes ==
    ASSUME NEW i \in 0..Aligned, NEW j \in i..Aligned
    PROVE  StreamBytes(SubSeq(Header, i + 1, j)) = <<>>
<1> DEFINE part == SubSeq(Header, i + 1, j)
<1>1. Aligned \in Nat
  BY SizeAssumption
<1>2. part = [k \in 1..(j - i) |-> Header[i + k]]
  BY <1>1, HeaderSeq
<1>3. CASE i = j
  BY <1>1, <1>2, <1>3 DEF StreamBytes
<1>4. CASE i < j
  <2>1. 1 \in DOMAIN part /\ part[1] = HeaderByte
    BY <1>1, <1>2, <1>4 DEF Header
  <2> QED
    BY <2>1 DEF StreamBytes
<1> QED
  BY <1>1, <1>3, <1>4

(* What is in a player's buffer: nothing, the header, or bytes up to its   *)
(* cursor, partly written.                                                 *)
HeldAt(buf, pos, cursor) ==
    \/ buf = <<>> /\ pos = 0
    \/ buf = Header /\ pos \in 0..Aligned-1
    \/ \E a \in Nat, n \in 1..GetSize :
         a + n = cursor /\ buf = Stretch(a, n) /\ pos \in 0..n-1

(* The byte that its socket gets next. *)
NextFor(buf, pos, cursor) ==
    LET rest == StreamBytes(SubSeq(buf, pos + 1, Len(buf)))
    IN  IF rest = <<>> THEN cursor ELSE Head(rest)

LEMMA NextForNothing ==
    ASSUME NEW cursor
    PROVE  NextFor(<<>>, 0, cursor) = cursor
  BY DEF NextFor, StreamBytes

LEMMA NextForHeader ==
    ASSUME NEW cursor, NEW pos \in 0..Aligned-1
    PROVE  NextFor(Header, pos, cursor) = cursor
<1>1. pos \in 0..Aligned /\ Aligned \in pos..Aligned
  BY SizeAssumption
<1> QED
  BY <1>1, HeaderSeq, HeaderBytes DEF NextFor

LEMMA NextForStretch ==
    ASSUME NEW cursor, NEW a \in Nat, NEW n \in Nat, NEW pos \in 0..n-1
    PROVE  NextFor(Stretch(a, n), pos, cursor) = a + pos
<1>1. SubSeq(Stretch(a, n), pos + 1, Len(Stretch(a, n))) = Stretch(a + pos, n - pos)
  <2>1. Len(Stretch(a, n)) = n /\ pos \in 0..n /\ n \in pos..n /\ a \in Int
    BY StretchSeq
  <2>2. SubSeq(Stretch(a, n), pos + 1, n) = Stretch(a + pos, n - pos)
    BY <2>1, StretchPart
  <2> QED
    BY <2>1, <2>2
<1>2. a + pos \in Nat /\ n - pos \in Nat /\ n - pos > 0
  OBVIOUS
<1>3. StreamBytes(Stretch(a + pos, n - pos)) = Stretch(a + pos, n - pos)
  BY <1>2, StretchBytes
<1>4. Stretch(a + pos, n - pos) # <<>> /\ Head(Stretch(a + pos, n - pos)) = a + pos
  BY <1>2, StretchSeq
<1> QED
  BY <1>1, <1>3, <1>4 DEF NextFor

(* The chunks the socket takes end inside the buffer.                      *)
LEMMA ChunksFit ==
    ASSUME NEW n \in Nat, NEW c \in 0..(n \div Aligned)
    PROVE  c * Aligned \in 0..n
<1>1. /\ n \div Aligned \in Nat /\ (n \div Aligned) * Aligned \in Nat
      /\ (n \div Aligned) * Aligned <= n /\ Aligned \in Nat /\ Aligned > 0
  BY AlignDown, SizeAssumption
<1> DEFINE q == n \div Aligned
<1> HIDE DEF q
<1>2. c \in Nat /\ q \in Nat /\ c <= q
  BY <1>1 DEF q
<1>3. c * Aligned \in Nat /\ c * Aligned <= q * Aligned
  BY <1>1, <1>2
<1> QED
  BY <1>1, <1>3 DEF q

(* The write loop changes one player: what it has left is what the socket  *)
(* did not take.                                                           *)
LEMMA WriteDoes ==
    ASSUME DOMAIN sendBuf = Readers, DOMAIN sendPos = Readers, DOMAIN written = Readers,
           NEW r \in Readers, NEW data, Len(data) \in Nat,
           NEW pos \in 0..Len(data), Write(r, data, pos)
    PROVE  \E p \in pos..Len(data) :
             /\ sendBuf'[r] = IF p = Len(data) THEN <<>> ELSE data
             /\ sendPos'[r] = IF p = Len(data) THEN 0 ELSE p
             /\ written'[r] = StreamBytes(SubSeq(data, pos + 1, p))
<1>1. PICK c \in 0..((Len(data) - pos) \div Aligned) :
        /\ KeepRest(r, data, pos + c * Aligned)
        /\ written' = [written EXCEPT ![r] = StreamBytes(SubSeq(data, pos + 1, pos + c * Aligned))]
  BY DEF Write
<1>2. c * Aligned \in 0..(Len(data) - pos)
  BY ChunksFit
<1> DEFINE p == pos + c * Aligned
<1>3. p \in pos..Len(data)
  BY <1>2
<1>4. /\ sendBuf'[r] = IF p = Len(data) THEN <<>> ELSE data
      /\ sendPos'[r] = IF p = Len(data) THEN 0 ELSE p
      /\ written'[r] = StreamBytes(SubSeq(data, pos + 1, p))
  BY <1>1 DEF KeepRest
<1> HIDE DEF p
<1> QED
  BY <1>3, <1>4

LEMMA WriteNothing ==
    ASSUME DOMAIN sendBuf = Readers, DOMAIN sendPos = Readers, DOMAIN written = Readers,
           NEW r \in Readers, Write(r, <<>>, 0)
    PROVE  sendBuf'[r] = <<>> /\ sendPos'[r] = 0 /\ written'[r] = <<>>
<1>1. Len(<<>>) = 0
  OBVIOUS
<1> DEFINE data == <<>>
<1>2. Len(data) = 0 /\ data = <<>> /\ SubSeq(data, 1, 0) = data /\ Write(r, data, 0)
  BY <1>1
<1> HIDE DEF data
<1>3. PICK c \in 0..((Len(data) - 0) \div Aligned) :
        /\ KeepRest(r, data, 0 + c * Aligned)
        /\ written' = [written EXCEPT ![r] = StreamBytes(SubSeq(data, 0 + 1, 0 + c * Aligned))]
  BY <1>2 DEF Write
<1>4. 0 - 0 = 0 /\ 0 + 1 = 1 /\ 0 \in Nat
  OBVIOUS
<1>5. c \in 0..(0 \div Aligned)
  BY <1>2, <1>3, <1>4
<1>6. 0 + c * Aligned = 0
  <2>1. c * Aligned \in 0..0
    BY <1>4, <1>5, ChunksFit
  <2> QED
    BY <2>1
<1>7. KeepRest(r, data, 0) /\ written' = [written EXCEPT ![r] = StreamBytes(data)]
  BY <1>2, <1>3, <1>4, <1>6
<1>8. StreamBytes(data) = <<>>
  BY <1>2 DEF StreamBytes
<1> QED
  BY <1>2, <1>7, <1>8 DEF KeepRest

LEMMA WriteKeeps ==
    ASSUME DOMAIN sendBuf = Readers, DOMAIN sendPos = Readers, DOMAIN written = Readers,
           NEW r \in Readers, NEW data, NEW pos, Write(r, data, pos)
    PROVE  /\ DOMAIN sendBuf' = Readers /\ DOMAIN sendPos' = Readers /\ DOMAIN written' = Readers
           /\ \A q \in Readers : q # r => /\ sendBuf'[q] = sendBuf[q] /\ sendPos'[q] = sendPos[q]
                                          /\ written'[q] = written[q]
  BY DEF Write, KeepRest

LEMMA WriteStretch ==
    ASSUME DOMAIN sendBuf = Readers, DOMAIN sendPos = Readers, DOMAIN written = Readers,
           NEW r \in Readers, NEW a \in Nat, NEW n \in 0..GetSize, NEW pos \in 0..n,
           Write(r, Stretch(a, n), pos)
    PROVE  /\ HeldAt(sendBuf'[r], sendPos'[r], a + n)
           /\ \E p \in pos..n : /\ NextFor(sendBuf'[r], sendPos'[r], a + n) = a + p
                                /\ written'[r] = Stretch(a + pos, p - pos)
<1>0. n \in Nat /\ a \in Int /\ GetSize \in Nat
  BY SizeAssumption
<1>1. n \in Nat /\ Len(Stretch(a, n)) = n /\ GetSize \in Nat
  BY <1>0, StretchSeq
<1>2. PICK p \in pos..n :
        /\ sendBuf'[r] = IF p = n THEN <<>> ELSE Stretch(a, n)
        /\ sendPos'[r] = IF p = n THEN 0 ELSE p
        /\ written'[r] = StreamBytes(SubSeq(Stretch(a, n), pos + 1, p))
  <2> DEFINE data == Stretch(a, n)
  <2>1. Len(data) = n /\ Write(r, data, pos)
    BY <1>1
  <2> HIDE DEF data
  <2>2. Len(data) \in Nat /\ pos \in 0..Len(data)
    BY <1>1, <2>1
  <2>3. \E p \in pos..Len(data) :
          /\ sendBuf'[r] = IF p = Len(data) THEN <<>> ELSE data
          /\ sendPos'[r] = IF p = Len(data) THEN 0 ELSE p
          /\ written'[r] = StreamBytes(SubSeq(data, pos + 1, p))
    BY SMTT(60), <2>1, <2>2, WriteDoes
  <2>4. \E p \in pos..n :
          /\ sendBuf'[r] = IF p = n THEN <<>> ELSE data
          /\ sendPos'[r] = IF p = n THEN 0 ELSE p
          /\ written'[r] = StreamBytes(SubSeq(data, pos + 1, p))
    BY <2>1, <2>3
  <2> QED
    BY <2>4 DEF data
<1>3. written'[r] = Stretch(a + pos, p - pos)
  <2>1. a + pos \in Nat /\ p - pos \in Nat
    BY <1>1
  <2>2. SubSeq(Stretch(a, n), pos + 1, p) = Stretch(a + pos, p - pos)
    BY <1>0, <1>2, StretchPart
  <2> QED
    BY <1>2, <2>1, <2>2, StretchBytes
<1>4. CASE p = n
  BY <1>2, <1>3, <1>4, NextForNothing DEF HeldAt
<1>5. CASE p # n
  <2>1. p \in 0..n-1 /\ n \in 1..GetSize
    BY <1>1, <1>5
  <2>2. NextFor(sendBuf'[r], sendPos'[r], a + n) = a + p
    BY <1>1, <1>2, <1>5, <2>1, NextForStretch
  <2>3. HeldAt(sendBuf'[r], sendPos'[r], a + n)
    BY <1>2, <1>5, <2>1 DEF HeldAt
  <2> QED
    BY <1>3, <2>2, <2>3
<1> QED
  BY <1>4, <1>5

LEMMA WriteHeader ==
    ASSUME DOMAIN sendBuf = Readers, DOMAIN sendPos = Readers, DOMAIN written = Readers,
           NEW r \in Readers, NEW pos \in 0..Aligned-1, NEW cursor,
           Write(r, Header, pos)
    PROVE  /\ HeldAt(sendBuf'[r], sendPos'[r], cursor)
           /\ NextFor(sendBuf'[r], sendPos'[r], cursor) = cursor
           /\ written'[r] = <<>>
<1>1. Aligned \in Nat /\ Len(Header) = Aligned /\ pos \in 0..Aligned
  BY HeaderSeq, SizeAssumption
<1>2. PICK p \in pos..Aligned :
        /\ sendBuf'[r] = IF p = Aligned THEN <<>> ELSE Header
        /\ sendPos'[r] = IF p = Aligned THEN 0 ELSE p
        /\ written'[r] = StreamBytes(SubSeq(Header, pos + 1, p))
  <2> DEFINE data == Header
  <2>1. Len(data) = Aligned /\ Write(r, data, pos)
    BY <1>1
  <2> HIDE DEF data
  <2>2. Len(data) \in Nat /\ pos \in 0..Len(data)
    BY <1>1, <2>1
  <2>3. \E p \in pos..Len(data) :
          /\ sendBuf'[r] = IF p = Len(data) THEN <<>> ELSE data
          /\ sendPos'[r] = IF p = Len(data) THEN 0 ELSE p
          /\ written'[r] = StreamBytes(SubSeq(data, pos + 1, p))
    BY SMTT(60), <2>1, <2>2, WriteDoes
  <2>4. \E p \in pos..Aligned :
          /\ sendBuf'[r] = IF p = Aligned THEN <<>> ELSE data
          /\ sendPos'[r] = IF p = Aligned THEN 0 ELSE p
          /\ written'[r] = StreamBytes(SubSeq(data, pos + 1, p))
    BY <2>1, <2>3
  <2> QED
    BY <2>4 DEF data
<1>3. written'[r] = <<>>
  BY <1>1, <1>2, HeaderBytes
<1>4. CASE p = Aligned
  BY <1>2, <1>3, <1>4, NextForNothing DEF HeldAt
<1>5. CASE p # Aligned
  <2>1. p \in 0..Aligned-1
    BY <1>1, <1>5
  <2> QED
    BY <1>2, <1>3, <1>5, <2>1, NextForHeader DEF HeldAt
<1> QED
  BY <1>4, <1>5
-----------------------------------------------------------------------------
(* A player that reads the array it joined: its cursor is in this      *)
(* publisher's array, and its buffer ends at the cursor.                   *)
Reads(r, base) ==
    /\ next[r] >= base
    /\ Follows(r)
    /\ HeldAt(sendBuf[r], sendPos[r], next[r])

PathTypes ==
    /\ DOMAIN sendBuf = Readers /\ DOMAIN sendPos = Readers /\ DOMAIN written = Readers
    /\ joinedIn \in [Readers -> Nat]
    /\ life \in Nat
    /\ \A r \in Readers : joinedIn[r] <= life

(* The array holds the bytes from base on, put by the publisher of this    *)
(* life, and no byte of an older one.                                      *)
Path ==
    \E base \in Nat :
        ArrFrom(base) /\ \A r \in Readers : SameArray(r) => Reads(r, base)

LInv == RingTypes /\ PathTypes /\ Path

PathOut(r) == IF SameArray(r) THEN written[r] ELSE <<>>
PathStep == [AbstractPath!Next]_(AbstractPath!vars)

(* All that is kept of the players other than r. *)
OthersKept(r) ==
    \A q \in Readers : q # r =>
        /\ readId'[q] = readId[q] /\ next'[q] = next[q] /\ joinedIn'[q] = joinedIn[q]
        /\ sendBuf'[q] = sendBuf[q] /\ sendPos'[q] = sendPos[q] /\ written'[q] = written[q]

LEMMA NextToSendIs ==
    ASSUME NEW r \in Readers
    PROVE  /\ NextToSend(r) = IF SameArray(r) THEN NextFor(sendBuf[r], sendPos[r], next[r])
                                                  ELSE NotJoined
           /\ NextToSend(r)' = IF SameArray(r)' THEN NextFor(sendBuf'[r], sendPos'[r], next'[r])
                                                    ELSE NotJoined
  BY DEF NextToSend, NextFor, Unsent

LEMMA OthersSame ==
    ASSUME NEW r \in Readers, OthersKept(r), UNCHANGED life, NEW q \in Readers, q # r
    PROVE  /\ SameArray(q)' <=> SameArray(q)
           /\ NextToSend(q)' = NextToSend(q)
           /\ PathOut(q)' = PathOut(q)
<1>1. SameArray(q)' <=> SameArray(q)
  BY DEF OthersKept, SameArray
<1> QED
  BY <1>1, NextToSendIs DEF OthersKept, PathOut

LEMMA PathKept ==
    ASSUME NEW base \in Nat, ArrFrom(base),
           \A q \in Readers : SameArray(q) => Reads(q, base),
           NEW r \in Readers, OthersKept(r), UNCHANGED <<putVars, life>>,
           SameArray(r)' => Reads(r, base)'
    PROVE  Path'
<1>1. ArrFrom(base)'
  BY DEF ArrFrom, putVars
<1>2. ASSUME NEW q \in Readers, SameArray(q)' PROVE Reads(q, base)'
  <2>1. CASE q = r
    BY <1>2, <2>1
  <2>2. CASE q # r
    BY <1>2, <2>2, OthersSame DEF OthersKept, Reads, Follows, putVars
  <2> QED
    BY <2>1, <2>2
<1> QED
  BY <1>1, <1>2 DEF Path

(* Steps of the broadcast, from what they do to each player.               *)
LEMMA Delivers ==
    ASSUME NEW r \in Readers, OthersKept(r), UNCHANGED <<life, total>>,
           NextToSend(r) # NotJoined,
           NEW from \in NextToSend(r)..total, NEW n \in 0..GetSize, from + n <= total,
           from # NextToSend(r) => total - NextToSend(r) > Size /\ total - from <= Size,
           NextToSend(r)' = from + n, PathOut(r)' = Stretch(from, n)
    PROVE  PathStep
<1>1. \A q \in Readers : q # r => NextToSend(q)' = NextToSend(q) /\ PathOut(q)' = PathOut(q)
  BY OthersSame
<1>2. [q \in Readers |-> NextToSend(q)']
        = [[q \in Readers |-> NextToSend(q)] EXCEPT ![r] = from + n]
  BY <1>1
<1>3. [q \in Readers |-> PathOut(q)']
        = [[q \in Readers |-> PathOut(q)] EXCEPT ![r] = AbstractPath!Run(from, n)]
  BY <1>1 DEF Stretch
<1>4. AbstractPath!Deliver(r)
  BY <1>2, <1>3 DEF AbstractPath!Deliver, AbstractPath!NotJoined, NotJoined, PathOut
<1> QED
  BY <1>4 DEF PathStep, AbstractPath!Next

LEMMA Joins ==
    ASSUME NEW r \in Readers, OthersKept(r), UNCHANGED <<life, total>>,
           NextToSend(r) = NotJoined, NextToSend(r)' = total, PathOut(r)' = <<>>
    PROVE  PathStep
<1>1. \A q \in Readers : q # r => NextToSend(q)' = NextToSend(q) /\ PathOut(q)' = PathOut(q)
  BY OthersSame
<1>2. [q \in Readers |-> NextToSend(q)']
        = [[q \in Readers |-> NextToSend(q)] EXCEPT ![r] = total]
  BY <1>1
<1>3. [q \in Readers |-> PathOut(q)']
        = [[q \in Readers |-> PathOut(q)] EXCEPT ![r] = <<>>]
  BY <1>1
<1>4. AbstractPath!Join(r)
  BY <1>2, <1>3 DEF AbstractPath!Join, AbstractPath!NotJoined, NotJoined, PathOut
<1> QED
  BY <1>4 DEF PathStep, AbstractPath!Next

LEMMA Leaves ==
    ASSUME NEW gone \in SUBSET Readers, UNCHANGED total,
           \A q \in Readers : q \in gone => NextToSend(q)' = NotJoined /\ PathOut(q)' = <<>>,
           \A q \in Readers : q \notin gone => NextToSend(q)' = NextToSend(q) /\ PathOut(q)' = PathOut(q)
    PROVE  PathStep
<1>1. [q \in Readers |-> NextToSend(q)']
        = [q \in Readers |-> IF q \in gone THEN NotJoined ELSE NextToSend(q)]
  OBVIOUS
<1>2. [q \in Readers |-> PathOut(q)']
        = [q \in Readers |-> IF q \in gone THEN <<>> ELSE PathOut(q)]
  OBVIOUS
<1>3. AbstractPath!Leave(gone)
  BY <1>1, <1>2 DEF AbstractPath!Leave, AbstractPath!NotJoined, NotJoined, PathOut
<1> QED
  BY <1>3 DEF PathStep, AbstractPath!Next

LEMMA Idles ==
    ASSUME UNCHANGED total,
           \A q \in Readers : NextToSend(q)' = NextToSend(q) /\ PathOut(q)' = PathOut(q)
    PROVE  PathStep
<1>1. [q \in Readers |-> NextToSend(q)'] = [q \in Readers |-> NextToSend(q)]
  OBVIOUS
<1>2. [q \in Readers |-> PathOut(q)'] = [q \in Readers |-> PathOut(q)]
  OBVIOUS
<1> QED
  BY <1>1, <1>2 DEF PathStep, AbstractPath!vars, PathOut
-----------------------------------------------------------------------------
LEMMA InitLInv == LiveInit => LInv /\ AbstractPath!Init
<1> SUFFICES ASSUME LiveInit PROVE LInv /\ AbstractPath!Init
  OBVIOUS
<1>1. RingTypes
  BY InitIInv, TypesOfRing DEF LiveInit, IInv
<1>2. PathTypes
  BY DEF LiveInit, PathTypes
<1>3. \A r \in Readers : ~SameArray(r)
  BY DEF LiveInit, Init, FreshId, SameArray
<1>4. ArrFrom(0)
  BY InitIInv DEF LiveInit, IInv, ArrInv
<1>5. LInv
  BY <1>1, <1>2, <1>3, <1>4 DEF LInv, Path
<1>6. AbstractPath!Init
  BY <1>3 DEF LiveInit, Init, AbstractPath!Init, AbstractPath!NotJoined, NotJoined, NextToSend
<1> QED
  BY <1>5, <1>6

(* A new publisher: the promise to the players of the old one ends.        *)
LEMMA AddPath == ASSUME LInv, Add PROVE LInv' /\ PathStep
<1>1. RingTypes'
  <2>1. 0 \in Slots /\ 0 \in 0..CountMod-1
    BY SizeAssumption DEF Slots
  <2> QED
    BY <2>1 DEF Add, LInv, RingTypes
<1>2. PathTypes'
  BY DEF Add, LInv, PathTypes, playerVars
<1>3. \A r \in Readers : ~SameArray(r)'
  BY DEF Add, LInv, PathTypes, playerVars, SameArray
<1>4. ArrFrom(total)'
  <2>1. writePos' = 0 /\ total' = total /\ total \in Nat /\ arr' = [j \in Slots |-> Garbage]
    BY DEF Add, LInv, RingTypes
  <2>2. \A j \in Slots : j \in Nat /\ j < Size
    BY SizeAssumption DEF Slots
  <2> QED
    BY <2>1, <2>2, SizeAssumption DEF ArrFrom
<1>5. Path'
  BY <1>3, <1>4 DEF Path, Add, LInv, RingTypes
<1>6. PathStep
  <2>1. \A q \in Readers : NextToSend(q)' = NotJoined /\ PathOut(q)' = <<>>
    BY <1>3, NextToSendIs DEF PathOut
  <2>2. Readers \in SUBSET Readers /\ UNCHANGED total
    BY DEF Add
  <2> QED
    BY <2>1, <2>2, Leaves
<1> QED
  BY <1>1, <1>2, <1>5, <1>6 DEF LInv

(* The steps that leave every player as it was. *)
LEMMA PlayersKept ==
    ASSUME UNCHANGED <<readId, next, life, playerVars>>, NEW q \in Readers
    PROVE  /\ SameArray(q)' <=> SameArray(q)
           /\ NextToSend(q)' = NextToSend(q)
           /\ PathOut(q)' = PathOut(q)
<1>1. SameArray(q)' <=> SameArray(q)
  BY DEF playerVars, SameArray
<1> QED
  BY <1>1, NextToSendIs DEF playerVars, PathOut

LEMMA IdlePath == ASSUME LInv, UNCHANGED <<vars, life, playerVars>> PROVE LInv' /\ PathStep
<1>1. UNCHANGED <<readId, next, life, playerVars, putVars, out, total>>
  BY DEF vars, putVars
<1>2. RingTypes' /\ PathTypes'
  BY <1>1 DEF LInv, RingTypes, PathTypes, putVars, playerVars
<1>3. Path'
  BY <1>1, PlayersKept DEF LInv, Path, ArrFrom, Reads, Follows, putVars, playerVars
<1>4. PathStep
  BY <1>1, PlayersKept, Idles
<1> QED
  BY <1>2, <1>3, <1>4 DEF LInv

LEMMA PutBeginPath == ASSUME LInv, NEW len \in PutLens, PutBegin(len) PROVE LInv' /\ PathStep
<1>1. /\ PutCopy(len) /\ RingTypes
      /\ UNCHANGED <<readId, next, life, playerVars>>
  BY DEF PutBegin, PutCopy, LInv, mapVars
<1>2. RingTypes'
  BY <1>1, PutCopyTypes
<1>3. PathTypes'
  BY <1>1 DEF LInv, PathTypes, playerVars
<1>4. PICK base \in Nat : ArrFrom(base) /\ \A r \in Readers : SameArray(r) => Reads(r, base)
  BY DEF LInv, Path
<1>5. ArrFrom(base)'
  BY <1>1, <1>4, PutCopyArr
<1>6. ASSUME NEW r \in Readers, SameArray(r)' PROVE Reads(r, base)'
  <2>1. Reads(r, base)
    BY <1>1, <1>4, <1>6, PlayersKept
  <2>2. Follows(r)'
    BY <1>1, <2>1, PutCopyFollows DEF Reads
  <2> QED
    BY <1>1, <2>1, <2>2 DEF Reads, playerVars
<1>7. Path'
  BY <1>5, <1>6 DEF Path
<1>8. PathStep
  <2>1. total \in Nat /\ total' = total + len /\ len \in Nat /\ len > 0
    BY <1>1, SizeAssumption, PutCopyWraps
  <2>2. \A q \in Readers : NextToSend(q)' = NextToSend(q) /\ PathOut(q)' = PathOut(q)
    BY <1>1, PlayersKept
  <2>3. [q \in Readers |-> NextToSend(q)'] = [q \in Readers |-> NextToSend(q)]
    BY <2>2
  <2>4. [q \in Readers |-> PathOut(q)'] = [q \in Readers |-> PathOut(q)]
    BY <2>2
  <2>5. AbstractPath!Publish
    BY <2>1, <2>3, <2>4 DEF AbstractPath!Publish, PathOut
  <2> QED
    BY <2>5 DEF PathStep, AbstractPath!Next
<1> QED
  BY <1>2, <1>3, <1>7, <1>8 DEF LInv

LEMMA PutEndPath == ASSUME LInv, NEW p \in Packets, PutEnd(p) PROVE LInv' /\ PathStep
<1>1. /\ PutCount /\ RingTypes
      /\ UNCHANGED <<readId, next, life, playerVars, arr, writePos, total>>
  BY DEF PutEnd, PutCount, LInv
<1>2. RingTypes'
  BY <1>1, PutCountTypes
<1>3. PathTypes'
  BY <1>1 DEF LInv, PathTypes, playerVars
<1>4. PICK base \in Nat : ArrFrom(base) /\ \A r \in Readers : SameArray(r) => Reads(r, base)
  BY DEF LInv, Path
<1>5. ArrFrom(base)'
  BY <1>1, <1>4 DEF ArrFrom
<1>6. ASSUME NEW r \in Readers, SameArray(r)' PROVE Reads(r, base)'
  <2>1. Reads(r, base)
    BY <1>1, <1>4, <1>6, PlayersKept
  <2>2. Follows(r)'
    BY <1>1, <2>1, PutCountFollows DEF Reads
  <2> QED
    BY <1>1, <2>1, <2>2 DEF Reads, playerVars
<1>7. Path'
  BY <1>5, <1>6 DEF Path
<1>8. PathStep
  BY <1>1, PlayersKept, Idles
<1> QED
  BY <1>2, <1>3, <1>7, <1>8 DEF LInv

(* The player's socket is closed: its promise ends. *)
LEMMA ClosePath == ASSUME LInv, NEW r \in Readers, Close(r) PROVE LInv' /\ PathStep
<1>1. /\ RingTypes' /\ UNCHANGED putVars /\ readId'[r] = FreshId
      /\ \A q \in Readers : q # r => /\ readId'[q] = readId[q]
                                     /\ next'[q] = next[q] /\ out'[q] = out[q]
  BY LeaveMoves DEF LInv, Close
<1>2. OthersKept(r) /\ UNCHANGED <<life, total>>
  BY <1>1 DEF LInv, PathTypes, Close, OthersKept, mapVars, putVars
<1>3. PathTypes'
  BY DEF LInv, PathTypes, Close, mapVars
<1>4. ~SameArray(r)'
  BY <1>1 DEF SameArray, FreshId
<1>5. Path'
  BY <1>1, <1>2, <1>4, PathKept DEF LInv, Path
<1>6. PathStep
  <2>1. NextToSend(r)' = NotJoined /\ PathOut(r)' = <<>>
    BY <1>4, NextToSendIs DEF PathOut
  <2>2. \A q \in Readers : q # r => NextToSend(q)' = NextToSend(q) /\ PathOut(q)' = PathOut(q)
    BY <1>2, OthersSame
  <2> QED
    BY <1>2, <2>1, <2>2, Leaves, {r} \in SUBSET Readers
<1> QED
  BY <1>1, <1>3, <1>5, <1>6 DEF LInv

(* What the handler leaves alone when it gets nothing new: the rest of the *)
(* buffer goes out, as far as the socket takes it.                         *)
LEMMA RestPath == ASSUME LInv, NEW r \in Readers, HandleRest(r) PROVE LInv' /\ PathStep
<1>1. /\ DOMAIN sendBuf = Readers /\ DOMAIN sendPos = Readers /\ DOMAIN written = Readers
      /\ Write(r, sendBuf[r], sendPos[r]) /\ sendBuf[r] # <<>>
      /\ UNCHANGED <<putVars, readId, next, out, life, joinedIn, total>>
  BY DEF LInv, PathTypes, HandleRest, vars, putVars, mapVars
<1>2. /\ DOMAIN sendBuf' = Readers /\ DOMAIN sendPos' = Readers /\ DOMAIN written' = Readers
      /\ OthersKept(r) /\ UNCHANGED <<life, total>>
  BY <1>1, WriteKeeps DEF OthersKept
<1>3. RingTypes' /\ PathTypes'
  BY <1>1, <1>2 DEF LInv, RingTypes, PathTypes, putVars
<1>4. PICK base \in Nat : ArrFrom(base) /\ \A q \in Readers : SameArray(q) => Reads(q, base)
  BY DEF LInv, Path
<1>5. SameArray(r)' <=> SameArray(r)
  BY <1>1 DEF SameArray
<1>6. CASE ~SameArray(r)
  <2>1. Path'
    BY <1>1, <1>2, <1>4, <1>5, <1>6, PathKept
  <2>2. NextToSend(r)' = NextToSend(r) /\ PathOut(r)' = PathOut(r)
    BY <1>5, <1>6, NextToSendIs DEF PathOut
  <2>3. PathStep
    BY <1>1, <1>2, <2>2, OthersSame, Idles
  <2> QED
    BY <1>3, <2>1, <2>3 DEF LInv
<1>7. CASE SameArray(r)
  <2>1. /\ Reads(r, base) /\ next[r] \in Nat /\ next[r] <= total /\ total \in Nat
        /\ Follows(r)' /\ next'[r] = next[r]
        /\ NextToSend(r) = NextFor(sendBuf[r], sendPos[r], next[r])
        /\ NextToSend(r)' = NextFor(sendBuf'[r], sendPos'[r], next[r])
        /\ PathOut(r)' = written'[r]
    <3>1. Reads(r, base) /\ Follows(r)
      BY <1>4, <1>7 DEF Reads
    <3>2. next[r] \in Nat /\ next[r] <= total /\ total \in Nat
      BY <3>1, SizeAssumption DEF Follows, LInv, RingTypes
    <3>3. Follows(r)'
      BY <1>1, <3>1 DEF Follows, putVars
    <3> QED
      BY <1>1, <1>5, <1>7, <3>1, <3>2, <3>3, NextToSendIs DEF PathOut
  <2>2. ASSUME HeldAt(sendBuf'[r], sendPos'[r], next[r])
        PROVE  Path'
    <3>1. Reads(r, base)'
      BY <1>4, <2>1, <2>2 DEF Reads
    <3> QED
      BY <1>1, <1>2, <1>4, <3>1, PathKept
  <2>3. CASE sendBuf[r] = Header /\ sendPos[r] \in 0..Aligned-1
    <3>1. /\ HeldAt(sendBuf'[r], sendPos'[r], next[r])
          /\ NextToSend(r)' = next[r] /\ PathOut(r)' = <<>> /\ NextToSend(r) = next[r]
      BY <1>1, <2>1, <2>3, WriteHeader, NextForHeader
    <3>2. /\ next[r] # NotJoined /\ next[r] \in NextToSend(r)..total /\ 0 \in 0..GetSize
          /\ next[r] + 0 <= total /\ NextToSend(r)' = next[r] + 0
      BY <2>1, <3>1, SizeAssumption DEF NotJoined
    <3>3. PathOut(r)' = Stretch(next[r], 0)
      BY <3>1, StretchNone
    <3>4. PathStep
      BY <1>2, <3>1, <3>2, <3>3, Delivers
    <3> QED
      BY <1>3, <2>2, <3>1, <3>4 DEF LInv
  <2>4. CASE \E a \in Nat, n \in 1..GetSize :
               /\ a + n = next[r] /\ sendBuf[r] = Stretch(a, n) /\ sendPos[r] \in 0..n-1
    <3>1. PICK a \in Nat, n \in 1..GetSize :
               /\ a + n = next[r] /\ sendBuf[r] = Stretch(a, n) /\ sendPos[r] \in 0..n-1
      BY <2>4
    <3> DEFINE pos == sendPos[r]
    <3>2. n \in Nat /\ n \in 0..GetSize /\ pos \in 0..n /\ pos \in 0..n-1 /\ GetSize \in Nat
      BY <3>1, SizeAssumption
    <3>3. /\ HeldAt(sendBuf'[r], sendPos'[r], next[r])
          /\ \E p \in pos..n : /\ NextFor(sendBuf'[r], sendPos'[r], next[r]) = a + p
                               /\ written'[r] = Stretch(a + pos, p - pos)
      <4>1. Write(r, Stretch(a, n), pos)
        BY <1>1, <3>1
      <4> HIDE DEF pos
      <4>2. /\ HeldAt(sendBuf'[r], sendPos'[r], a + n)
            /\ \E p \in pos..n : /\ NextFor(sendBuf'[r], sendPos'[r], a + n) = a + p
                                 /\ written'[r] = Stretch(a + pos, p - pos)
        BY <1>1, <3>2, <4>1, WriteStretch
      <4> QED
        BY <3>1, <4>2
    <3>4. NextToSend(r) = a + pos
      BY <2>1, <3>1, <3>2, NextForStretch
    <3> HIDE DEF pos
    <3>5. PICK p \in pos..n : /\ NextToSend(r)' = a + p
                              /\ PathOut(r)' = Stretch(a + pos, p - pos)
      BY <2>1, <3>3
    <3>6. /\ a + pos # NotJoined /\ a + pos \in NextToSend(r)..total
          /\ p - pos \in 0..GetSize /\ a + pos + (p - pos) <= total
          /\ NextToSend(r)' = a + pos + (p - pos)
      BY <2>1, <3>1, <3>2, <3>4, <3>5 DEF NotJoined
    <3>7. PathStep
      BY <1>2, <3>4, <3>5, <3>6, Delivers
    <3> QED
      BY <1>3, <2>2, <3>3, <3>7 DEF LInv
  <2> QED
    BY <1>1, <2>1, <2>3, <2>4 DEF Reads, HeldAt
<1> QED
  BY <1>6, <1>7

(* The player's first get: it joins at the live edge, with the header.     *)
LEMMA JoinPath ==
    ASSUME LInv, NEW r \in Readers, HandleRefill(r), GetFirst(r)
    PROVE  LInv' /\ PathStep
<1>1. /\ RingTypes' /\ Follows(r)' /\ UNCHANGED putVars
      /\ ~readId'[r].bFirst /\ next'[r] = total
      /\ \A q \in Readers : q # r => readId'[q] = readId[q] /\ next'[q] = next[q]
      /\ readId[r].bFirst
  BY GetFirstMoves DEF LInv, GetFirst
<1>2. /\ DOMAIN sendBuf = Readers /\ DOMAIN sendPos = Readers /\ DOMAIN written = Readers
      /\ life \in Nat /\ UNCHANGED life /\ joinedIn' = [joinedIn EXCEPT ![r] = life]
      /\ \E data \in {Header, <<>>} : Write(r, data, 0)
  BY <1>1 DEF LInv, PathTypes, HandleRefill, Refilled, mapVars
<1>3. /\ DOMAIN sendBuf' = Readers /\ DOMAIN sendPos' = Readers /\ DOMAIN written' = Readers
      /\ OthersKept(r) /\ UNCHANGED <<life, total>>
  BY <1>1, <1>2, WriteKeeps DEF OthersKept, LInv, PathTypes, putVars
<1>4. PathTypes'
  BY <1>2, <1>3 DEF LInv, PathTypes
<1>5. SameArray(r)' /\ ~SameArray(r)
  BY <1>1, <1>2 DEF LInv, PathTypes, SameArray
<1>6. /\ HeldAt(sendBuf'[r], sendPos'[r], total)
      /\ NextFor(sendBuf'[r], sendPos'[r], total) = total
      /\ written'[r] = <<>>
  <2>1. CASE Write(r, Header, 0)
    <3>1. 0 \in 0..Aligned-1
      BY SizeAssumption
    <3> QED
      BY <1>2, <2>1, <3>1, WriteHeader
  <2>2. CASE Write(r, <<>>, 0)
    <3>1. /\ sendBuf'[r] = <<>> /\ sendPos'[r] = 0
          /\ written'[r] = <<>>
      BY <1>2, <2>2, WriteNothing
    <3> QED
      BY <3>1, NextForNothing DEF HeldAt
  <2> QED
    BY <1>2, <2>1, <2>2
<1>7. Path'
  <2>1. PICK base \in Nat : ArrFrom(base) /\ \A q \in Readers : SameArray(q) => Reads(q, base)
    BY DEF LInv, Path
  <2>2. total >= base
    BY <2>1, SizeAssumption DEF ArrFrom, LInv, RingTypes, Slots
  <2>3. Reads(r, base)'
    BY <1>1, <1>6, <2>2 DEF Reads
  <2> QED
    BY <1>1, <1>3, <2>1, <2>3, PathKept
<1>8. PathStep
  <2>1. NextToSend(r) = NotJoined /\ NextToSend(r)' = total /\ PathOut(r)' = <<>>
    BY <1>1, <1>5, <1>6, NextToSendIs DEF PathOut
  <2> QED
    BY <1>3, <2>1, Joins
<1> QED
  BY <1>1, <1>4, <1>7, <1>8 DEF LInv

(* A later get of a player whose publisher was replaced: its promise ended *)
(* with the old publisher.                                                 *)
LEMMA StalePath ==
    ASSUME LInv, NEW r \in Readers, HandleRefill(r), GetNothing(r) \/ GetData(r),
           ~SameArray(r)
    PROVE  LInv' /\ PathStep
<1>1. /\ RingTypes' /\ UNCHANGED putVars /\ ~readId[r].bFirst
      /\ \A q \in Readers : q # r => readId'[q] = readId[q] /\ next'[q] = next[q]
  BY GetNothingMoves, GetDataMoves DEF LInv, GetNothing
<1>2. /\ DOMAIN sendBuf = Readers /\ DOMAIN sendPos = Readers /\ DOMAIN written = Readers
      /\ UNCHANGED life /\ joinedIn' = joinedIn /\ \E data : Write(r, data, 0)
  BY <1>1 DEF LInv, PathTypes, HandleRefill, mapVars
<1>3. /\ DOMAIN sendBuf' = Readers /\ DOMAIN sendPos' = Readers /\ DOMAIN written' = Readers
      /\ OthersKept(r) /\ UNCHANGED <<life, total>>
  BY <1>1, <1>2, WriteKeeps DEF OthersKept, putVars
<1>4. PathTypes'
  BY <1>2, <1>3 DEF LInv, PathTypes
<1>5. ~SameArray(r)'
  BY <1>1, <1>2 DEF SameArray
<1>6. Path'
  BY <1>1, <1>3, <1>5, PathKept DEF LInv, Path
<1>7. PathStep
  <2>1. NextToSend(r)' = NextToSend(r) /\ PathOut(r)' = PathOut(r)
    BY <1>5, NextToSendIs DEF PathOut
  <2> QED
    BY <1>3, <2>1, OthersSame, Idles
<1> QED
  BY <1>1, <1>4, <1>6, <1>7 DEF LInv

(* A later get of a player that reads the array it joined: what it     *)
(* finds is a run of the stream, and what the socket takes of it a part.   *)
LEMMA RefillPath ==
    ASSUME LInv, NEW r \in Readers, HandleRefill(r), GetNothing(r) \/ GetData(r),
           SameArray(r)
    PROVE  LInv' /\ PathStep
<1>1. /\ RingTypes' /\ UNCHANGED putVars /\ ~readId[r].bFirst /\ RingTypes
      /\ \A q \in Readers : q # r => readId'[q] = readId[q] /\ next'[q] = next[q]
      /\ readId'[r].bFirst = FALSE
  <2>1. readId[r].bFirst \in BOOLEAN
    BY DEF LInv, RingTypes, Cursors
  <2>2. CASE GetNothing(r)
    BY <2>1, <2>2, GetNothingMoves DEF LInv, GetNothing
  <2>3. CASE GetData(r)
    BY <2>3, GetDataMoves DEF LInv
  <2> QED
    BY <2>2, <2>3
<1>2. /\ DOMAIN sendBuf = Readers /\ DOMAIN sendPos = Readers /\ DOMAIN written = Readers
      /\ UNCHANGED life /\ joinedIn' = joinedIn /\ Write(r, out'[r], 0)
      /\ sendBuf[r] = <<>>
  BY <1>1 DEF LInv, PathTypes, HandleRefill, Refilled, mapVars
<1>3. /\ DOMAIN sendBuf' = Readers /\ DOMAIN sendPos' = Readers /\ DOMAIN written' = Readers
      /\ OthersKept(r) /\ UNCHANGED <<life, total>>
  BY <1>1, <1>2, WriteKeeps DEF OthersKept, putVars
<1>4. PathTypes'
  BY <1>2, <1>3 DEF LInv, PathTypes
<1>5. SameArray(r)'
  BY <1>1, <1>2 DEF SameArray
<1>6. PICK base \in Nat : ArrFrom(base) /\ \A q \in Readers : SameArray(q) => Reads(q, base)
  BY DEF LInv, Path
<1>7. Follows(r) /\ next[r] >= base /\ next[r] \in Nat /\ next[r] <= total /\ total \in Nat
      /\ HeldAt(<<>>, sendPos[r], next[r])
  <2>1. Reads(r, base)
    BY <1>6
  <2>2. HeldAt(<<>>, sendPos[r], next[r]) /\ Follows(r) /\ next[r] >= base
    BY <1>2, <2>1 DEF Reads
  <2>3. total \in Nat /\ pending \in {0} \cup PutLens
    BY <1>1 DEF RingTypes
  <2>4. pending \in Nat
    BY <2>3, SizeAssumption
  <2> QED
    BY <2>2, <2>3, <2>4 DEF Follows
<1>8. NextToSend(r) = next[r]
  <2>1. sendPos[r] = 0
    <3>1. ASSUME NEW a \in Nat, NEW n \in 1..GetSize PROVE Stretch(a, n) # <<>>
      BY StretchSeq, SizeAssumption
    <3>2. Header # <<>>
      BY HeaderSeq, SizeAssumption
    <3> QED
      BY <1>7, <3>1, <3>2 DEF HeldAt
  <2> QED
    BY <1>2, <2>1, NextToSendIs, NextForNothing
<1>9. \E start \in next[r]..total, n \in 0..GetSize :
         /\ start # next[r] => total - next[r] > Size
         /\ total - start <= Size \/ start = next[r]
         /\ out'[r] = Stretch(start, n)
         /\ next'[r] = start + n
         /\ Follows(r)' /\ next'[r] >= base
         /\ start + n <= total
  <2>1. CASE GetNothing(r)
    <3>1. out'[r] = <<>> /\ next'[r] = next[r] /\ readId' = readId
      BY <1>1, <2>1, GetNothingMoves
    <3>2. Follows(r)'
      BY <1>1, <1>7, <3>1 DEF Follows, putVars
    <3>3. out'[r] = Stretch(next[r], 0)
      BY <3>1, StretchNone
    <3>4. next[r] \in next[r]..total /\ 0 \in 0..GetSize /\ next'[r] = next[r] + 0
          /\ next'[r] >= base /\ next[r] + 0 <= total
      BY <1>7, <3>1, SizeAssumption
    <3> QED
      BY <3>2, <3>3, <3>4
  <2>2. CASE GetData(r)
    <3> DEFINE rp == readId[r].nReadPos
               n == CopyLen(rp)
               start == total - Ready(rp)
    <3>1. /\ rp \in Slots
          /\ start \in next[r]..total
          /\ start # next[r] => total - next[r] > Size
          /\ out'[r] = [i \in 1..n |-> start + i - 1]
      BY <1>1, <1>6, <1>7, <2>2, GetDataRun
    <3>2. n \in Nat /\ n <= Ready(rp) /\ Ready(rp) \in 1..Size /\ n <= GetSize /\ n \in 0..GetSize
      BY <1>1, <3>1, CopyLenBounds, SizeAssumption
    <3>3. next'[r] = start + n
      BY <1>1, <2>2, GetDataMoves
    <3>4. Follows(r)' /\ next'[r] >= base
      BY <1>1, <1>6, <1>7, <2>2, GetDataFollows
    <3>5. start + Ready(rp) = total
      BY <1>7, <3>2
    <3> HIDE DEF rp, n, start
    <3>6. start + n <= total /\ total - start <= Size
      BY <1>7, <3>1, <3>2, <3>5, SizeAssumption
    <3>7. out'[r] = Stretch(start, n)
      BY <3>1 DEF Stretch, AbstractPath!Run
    <3> QED
      BY <3>1, <3>2, <3>3, <3>4, <3>6, <3>7
  <2> QED
    BY <2>1, <2>2
<1>10. PICK start \in next[r]..total, n \in 0..GetSize :
         /\ start # next[r] => total - next[r] > Size
         /\ total - start <= Size \/ start = next[r]
         /\ out'[r] = Stretch(start, n)
         /\ next'[r] = start + n
         /\ Follows(r)' /\ next'[r] >= base
         /\ start + n <= total
  BY <1>9
<1>11. start \in Nat /\ n \in Nat /\ 0 \in 0..n /\ GetSize \in Nat
  BY <1>7, <1>10, SizeAssumption
<1>12. /\ HeldAt(sendBuf'[r], sendPos'[r], start + n)
       /\ \E p \in 0..n : /\ NextFor(sendBuf'[r], sendPos'[r], start + n) = start + p
                          /\ written'[r] = Stretch(start + 0, p - 0)
  BY <1>2, <1>10, <1>11, WriteStretch
<1>13. Path'
  <2>1. Reads(r, base)'
    BY <1>10, <1>12 DEF Reads
  <2> QED
    BY <1>1, <1>3, <1>6, <2>1, PathKept
<1>14. PathStep
  <2>1. PICK p \in 0..n : /\ NextFor(sendBuf'[r], sendPos'[r], start + n) = start + p
                          /\ written'[r] = Stretch(start + 0, p - 0)
    BY <1>12
  <2>2. start + 0 = start /\ p - 0 = p
    BY <1>11
  <2>3. NextToSend(r)' = start + p /\ PathOut(r)' = Stretch(start, p)
    BY <1>5, <1>10, <2>1, <2>2, NextToSendIs DEF PathOut
  <2>4. /\ NextToSend(r) # NotJoined /\ start \in NextToSend(r)..total /\ p \in 0..GetSize
        /\ start + p <= total
        /\ start # NextToSend(r) => total - NextToSend(r) > Size /\ total - start <= Size
    BY <1>7, <1>8, <1>10, <1>11 DEF NotJoined
  <2> QED
    BY <1>3, <2>3, <2>4, Delivers
<1> QED
  BY <1>1, <1>4, <1>13, <1>14 DEF LInv
-----------------------------------------------------------------------------
LEMMA LiveStep == LInv /\ [LiveNext]_liveVars => LInv' /\ PathStep
<1> SUFFICES ASSUME LInv, [LiveNext]_liveVars PROVE LInv' /\ PathStep
  OBVIOUS
<1>1. CASE UNCHANGED liveVars
  BY <1>1, IdlePath DEF liveVars, mapVars
<1>2. CASE Add
  BY <1>2, AddPath
<1>3. CASE TakeOver \/ Remove
  BY <1>3, IdlePath DEF TakeOver, Remove
<1>4. ASSUME NEW len \in PutLens, PutBegin(len) PROVE LInv' /\ PathStep
  BY <1>4, PutBeginPath
<1>5. ASSUME NEW p \in Packets, PutEnd(p) PROVE LInv' /\ PathStep
  BY <1>5, PutEndPath
<1>6. ASSUME NEW r \in Readers, Handle(r) PROVE LInv' /\ PathStep
  <2>1. CASE HandleNoPublisher(r)
    BY <2>1, IdlePath DEF HandleNoPublisher, liveVars, mapVars
  <2>2. CASE HandleRefill(r)
    <3>1. GetFirst(r) \/ GetNothing(r) \/ GetData(r)
      BY <2>2 DEF HandleRefill, Get
    <3> QED
      BY <2>2, <3>1, JoinPath, StalePath, RefillPath
  <2>3. CASE HandleRest(r)
    BY <2>3, RestPath
  <2> QED
    BY <1>6, <2>1, <2>2, <2>3 DEF Handle
<1>7. ASSUME NEW r \in Readers, Close(r) PROVE LInv' /\ PathStep
  BY <1>7, ClosePath
<1> QED
  BY <1>1, <1>2, <1>3, <1>4, <1>5, <1>6, <1>7 DEF LiveNext

(* What reaches the socket of a player that reads the array it joined      *)
(* is the lossy ordered broadcast: across short writes, partly drained     *)
(* buffers, the end of the publisher and the next ones.                    *)
THEOREM PathImplements == LiveSpec => LiveRefines
<1>1. LInv /\ [LiveNext]_liveVars => LInv' /\ [AbstractPath!Next]_(AbstractPath!vars)
  BY LiveStep DEF PathStep
<1> QED
  BY <1>1, InitLInv, PTL DEF LiveSpec, LiveRefines, AbstractPath!Spec
-----------------------------------------------------------------------------
(* What the broadcast promises of a player's bytes, kept by its steps.     *)
SentByPublisher ==
    \A r \in Readers : SameArray(r) => \A i \in DOMAIN written[r] : written[r][i] \in 0..total-1

BytesInv ==
    /\ total \in Nat
    /\ \A r \in Readers : /\ NextToSend(r) \in 0..total \cup {NotJoined}
                          /\ \A i \in DOMAIN PathOut(r) : PathOut(r)[i] \in 0..total-1

LEMMA BytesStep ==
    ASSUME BytesInv, PathStep
    PROVE  BytesInv'
<1> DEFINE n1 == [r \in Readers |-> NextToSend(r)]
           o1 == [r \in Readers |-> PathOut(r)]
<1>0. \A r \in Readers : /\ n1[r] = NextToSend(r) /\ n1'[r] = NextToSend(r)'
                        /\ o1[r] = PathOut(r) /\ o1'[r] = PathOut(r)'
  OBVIOUS
<1>t. total \in Nat /\ DOMAIN n1 = Readers /\ DOMAIN o1 = Readers
      /\ \A r \in Readers : n1[r] \in 0..total \cup {NotJoined}
  BY DEF BytesInv
<1>m. AbstractPath!NotJoined = NotJoined /\ \A a, n : AbstractPath!Run(a, n) = Stretch(a, n)
  BY DEF AbstractPath!NotJoined, NotJoined, Stretch
<1>a. AbstractPath!Publish => total' \in Nat /\ total' > total /\ n1' = n1 /\ o1' = o1
  BY DEF AbstractPath!Publish, PathOut
<1>b. UNCHANGED AbstractPath!vars => total' = total /\ n1' = n1 /\ o1' = o1
  BY DEF AbstractPath!vars, PathOut
<1>c. ASSUME NEW r \in Readers, AbstractPath!Join(r)
      PROVE  total' = total /\ n1' = [n1 EXCEPT ![r] = total] /\ o1' = [o1 EXCEPT ![r] = <<>>]
  BY <1>c DEF AbstractPath!Join, PathOut
<1>d. ASSUME NEW gone \in SUBSET Readers, AbstractPath!Leave(gone)
      PROVE  /\ total' = total
             /\ n1' = [r \in Readers |-> IF r \in gone THEN NotJoined ELSE n1[r]]
             /\ o1' = [r \in Readers |-> IF r \in gone THEN <<>> ELSE o1[r]]
  BY <1>d, <1>m DEF AbstractPath!Leave, PathOut
<1>e. ASSUME NEW r \in Readers, AbstractPath!Deliver(r)
      PROVE  /\ total' = total /\ n1[r] # NotJoined
             /\ \E a \in n1[r]..total, n \in 0..GetSize :
                  /\ a + n <= total
                  /\ n1' = [n1 EXCEPT ![r] = a + n] /\ o1' = [o1 EXCEPT ![r] = Stretch(a, n)]
  BY <1>e, <1>m DEF AbstractPath!Deliver, PathOut
<1> HIDE DEF n1, o1
<1>1. CASE total' \in Nat /\ total' > total /\ n1' = n1 /\ o1' = o1
  BY <1>0, <1>1 DEF BytesInv
<1>2. ASSUME UNCHANGED total,
             \A r \in Readers :
                 \/ NextToSend(r)' = NextToSend(r) /\ PathOut(r)' = PathOut(r)
                 \/ NextToSend(r)' \in 0..total \cup {NotJoined} /\ PathOut(r)' = <<>>
                 \/ \E a \in 0..total, n \in Nat :
                      a + n <= total /\ NextToSend(r)' = a + n /\ PathOut(r)' = Stretch(a, n)
      PROVE  BytesInv'
  <2> SUFFICES ASSUME NEW r \in Readers
               PROVE  /\ NextToSend(r)' \in 0..total \cup {NotJoined}
                      /\ \A i \in DOMAIN PathOut(r)' : PathOut(r)'[i] \in 0..total-1
    BY <1>2 DEF BytesInv
  <2>0. total \in Nat
    BY DEF BytesInv
  <2>1. CASE NextToSend(r)' = NextToSend(r) /\ PathOut(r)' = PathOut(r)
    BY <2>1 DEF BytesInv
  <2>2. CASE NextToSend(r)' \in 0..total \cup {NotJoined} /\ PathOut(r)' = <<>>
    BY <2>2
  <2>3. ASSUME NEW a \in 0..total, NEW n \in Nat, a + n <= total,
               NextToSend(r)' = a + n, PathOut(r)' = Stretch(a, n)
        PROVE  /\ NextToSend(r)' \in 0..total \cup {NotJoined}
               /\ \A i \in DOMAIN PathOut(r)' : PathOut(r)'[i] \in 0..total-1
    <3>1. a \in Int /\ a \in Nat /\ a + n \in 0..total
      BY <2>0, <2>3
    <3>2. DOMAIN Stretch(a, n) = 1..n /\ \A i \in 1..n : Stretch(a, n)[i] = a + i - 1
      BY <3>1, StretchSeq
    <3>3. \A i \in 1..n : a + i - 1 \in 0..total-1
      BY <2>0, <2>3, <3>1
    <3> HIDE DEF PathOut
    <3> QED
      BY <2>3, <3>1, <3>2, <3>3
  <2> QED
    BY <1>2, <2>1, <2>2, <2>3
<1>3. CASE total' = total /\ n1' = n1 /\ o1' = o1
  BY <1>0, <1>2, <1>3
<1>4. ASSUME total' = total, NEW r \in Readers,
             n1' = [n1 EXCEPT ![r] = total], o1' = [o1 EXCEPT ![r] = <<>>]
      PROVE  BytesInv'
  <2>1. total \in 0..total
    BY <1>t
  <2>2. \A q \in Readers : \/ n1'[q] = n1[q] /\ o1'[q] = o1[q]
                           \/ n1'[q] = total /\ o1'[q] = <<>>
    BY <1>t, <1>4
  <2> QED
    BY <1>0, <1>2, <1>4, <2>1, <2>2
<1>5. ASSUME total' = total, NEW gone \in SUBSET Readers,
             n1' = [r \in Readers |-> IF r \in gone THEN NotJoined ELSE n1[r]],
             o1' = [r \in Readers |-> IF r \in gone THEN <<>> ELSE o1[r]]
      PROVE  BytesInv'
  <2>1. \A q \in Readers : \/ n1'[q] = n1[q] /\ o1'[q] = o1[q]
                           \/ n1'[q] = NotJoined /\ o1'[q] = <<>>
    BY <1>5
  <2> QED
    BY <1>0, <1>2, <1>5, <2>1
<1>6. ASSUME total' = total, NEW r \in Readers, n1[r] # NotJoined,
             NEW a \in n1[r]..total, NEW n \in 0..GetSize, a + n <= total,
             n1' = [n1 EXCEPT ![r] = a + n], o1' = [o1 EXCEPT ![r] = Stretch(a, n)]
      PROVE  BytesInv'
  <2>1. a \in 0..total /\ n \in Nat
    BY <1>t, <1>6
  <2>2. \A q \in Readers : \/ n1'[q] = n1[q] /\ o1'[q] = o1[q]
                           \/ n1'[q] = a + n /\ o1'[q] = Stretch(a, n)
    BY <1>t, <1>6
  <2> QED
    BY <1>0, <1>2, <1>6, <2>1, <2>2
<1>7. ASSUME NEW r \in Readers, AbstractPath!Deliver(r)
      PROVE  BytesInv'
  BY <1>e, <1>6, <1>7
<1> QED
  BY <1>a, <1>b, <1>c, <1>d, <1>1, <1>3, <1>4, <1>5, <1>7 DEF PathStep, AbstractPath!Next

(* A player that reads the array it joined is sent nothing but bytes       *)
(* that were put: memory that nobody has written, as OnlyPublishedBytes    *)
(* finds it here, reaches only players that outlived their publisher.      *)
THEOREM OnlySentByPublisher == LiveSpec => []SentByPublisher
<1>1. LiveInit => BytesInv
  BY DEF LiveInit, Init, FreshId, BytesInv, PathOut, NextToSend, SameArray, NotJoined
<1>2. LInv /\ BytesInv /\ [LiveNext]_liveVars => LInv' /\ BytesInv'
  BY LiveStep, BytesStep
<1>3. BytesInv => SentByPublisher
  BY DEF BytesInv, PathOut, SentByPublisher
<1> QED
  BY <1>1, <1>2, <1>3, InitLInv, PTL DEF LiveSpec
=============================================================================
