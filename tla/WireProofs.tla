----------------------------- MODULE WireProofs -----------------------------
(***************************************************************************)
(* Proofs about Wire, for headers, buffers, requests and payloads of any    *)
(* size: what is handled and what is answered (HandledOnce, AnswersOwn).    *)
(***************************************************************************)
EXTENDS Wire, SequenceTheorems, TLAPS

(* Frames follow each other in a stream without gaps. *)
LaidOut(s) ==
  /\ \A n \in 1..Len(s) : n < Len(s) => s[n + 1].start = s[n].start + HeaderSize + s[n].len
  /\ \A m, n \in 1..Len(s) : m < n => s[m].start + HeaderSize + s[m].len <= s[n].start

(* No end reads what was not written, or writes what is not in a frame. *)
Streams ==
  /\ LaidOut(requests) /\ LaidOut(replies)
  /\ read["client"] <= written["client"] /\ written["client"] <= end(requests)
  /\ read["session"] <= written["session"] /\ written["session"] <= end(replies)

(* A session that reads a payload has accepted its header; a client in a    *)
(* call has made a request.                                                *)
Reading ==
  /\ at["session"] = "payload" => header_accepted(from["session"])
  /\ at["client"] \in {"send", "header", "payload"} => requests # <<>>

(* The session has gone and the client can take nothing more from it. *)
Lost == at["session"] = "closed" /\ written["session"] = read["session"]

(* The client reads replies from where one begins. *)
Aligned ==
  at["client"] # "closed" /\ ~Lost =>
    /\ from["client"] = end(replies) \/ frame_at(replies, from["client"]) # 0
    /\ at["client"] = "payload" => frame_at(replies, from["client"]) # 0

(* What was handled lies behind the session, in the order sent. *)
HandledBehind ==
  /\ \A i \in DOMAIN handled :
       /\ handled[i] \in DOMAIN requests /\ WellFormed(handled[i])
       /\ requests[handled[i]].start < from["session"]
  /\ \A i, j \in DOMAIN handled : i < j => handled[i] < handled[j]

HandledAll ==
  \A n \in DOMAIN requests : WellFormed(n) /\ requests[n].start < from["session"]
     => \E i \in DOMAIN handled : handled[i] = n

(* In step, there is one reply for each frame behind the session. *)
OneReplyEach ==
  /\ Len(replies) <= Len(requests)
  /\ from["session"] = IF Len(replies) < Len(requests)
                         THEN requests[Len(replies) + 1].start ELSE end(requests)
  /\ \A m \in 1..Len(replies) : replies[m].to = m

(* In step, the client waits for the reply to its last request. *)
Awaiting ==
  at["client"] # "closed" /\ ~Lost =>
    /\ at["client"] = "idle" => /\ Len(replies) = Len(requests)
                                /\ from["client"] = end(replies)
    /\ at["client"] # "idle" =>
         \/ /\ Len(replies) = Len(requests)
            /\ from["client"] = replies[Len(replies)].start
         \/ /\ Len(replies) + 1 = Len(requests)
            /\ from["client"] = end(replies)

IInv ==
  /\ TypeOK /\ Streams /\ Reading /\ Aligned /\ HandledBehind
  /\ InStep => HandledAll /\ OneReplyEach /\ Awaiting
  /\ AnswersOwn
-----------------------------------------------------------------------------
(* A stream's frames have a place and a length. *)
Placed(s) == \A n \in 1..Len(s) : s[n].start \in Nat /\ s[n].len \in Nat

LEMMA PlacedStreams ==
  ASSUME TypeOK PROVE Placed(requests) /\ Placed(replies)
<1>1. /\ \A n \in 1..Len(requests) : requests[n] \in Frame
      /\ \A n \in 1..Len(replies) : replies[n] \in Reply
  BY DEF TypeOK
<1>2. \A n \in 1..Len(requests) : requests[n].start \in Nat /\ requests[n].len \in Nat
  BY <1>1 DEF Frame
<1>3. \A n \in 1..Len(replies) : replies[n].start \in Nat /\ replies[n].len \in Nat
  BY <1>1 DEF Reply
<1>. QED BY <1>2, <1>3 DEF Placed

LEMMA EndNat ==
  ASSUME NEW S, NEW s \in Seq(S), Placed(s) PROVE end(s) \in Nat
BY WireAssumption DEF end, Placed

LEMMA HeaderPositive == HeaderSize \in Nat /\ HeaderSize >= 1
BY WireAssumption

(* Every frame ends where the stream does, or before. *)
LEMMA EndsBefore ==
  ASSUME NEW S, NEW s \in Seq(S), Placed(s), LaidOut(s), NEW n \in 1..Len(s)
  PROVE  /\ s[n].start + HeaderSize + s[n].len <= end(s)
         /\ s[n].start < end(s)
         /\ s[n].start + HeaderSize + s[n].len
              = IF n < Len(s) THEN s[n + 1].start ELSE end(s)
<1>1. s # <<>> /\ Len(s) \in 1..Len(s) OBVIOUS
<1>2. /\ s[n].start \in Nat /\ s[n].len \in Nat /\ HeaderSize \in Nat \ {0}
      /\ s[Len(s)].start \in Nat /\ s[Len(s)].len \in Nat
      /\ end(s) = s[Len(s)].start + HeaderSize + s[Len(s)].len
  BY <1>1, WireAssumption DEF end, Placed
<1>3. CASE n = Len(s) BY <1>1, <1>2, <1>3
<1>4. CASE n < Len(s)
  <2>1. /\ s[n].start + HeaderSize + s[n].len <= s[Len(s)].start
        /\ s[n + 1].start = s[n].start + HeaderSize + s[n].len
    BY <1>1, <1>4 DEF LaidOut
  <2>2. /\ s[n].start + HeaderSize + s[n].len <= end(s)
        /\ s[n].start < end(s)
    <3>. DEFINE a == s[n].start  b == s[n].len  c == s[Len(s)].start  d == s[Len(s)].len
    <3>1. /\ a \in Nat /\ b \in Nat /\ c \in Nat /\ d \in Nat
          /\ end(s) = c + HeaderSize + d /\ a + HeaderSize + b <= c
      BY <1>2, <2>1
    <3>. HIDE DEF a, b, c, d
    <3>2. a + HeaderSize + b <= end(s) /\ a < end(s)
      BY <3>1, HeaderPositive
    <3>. QED BY <3>2 DEF a, b
  <2>. QED BY <1>4, <2>1, <2>2
<1>5. n = Len(s) \/ n < Len(s) OBVIOUS
<1>. QED BY <1>3, <1>4, <1>5

(* A position is the beginning of at most one frame. *)
LEMMA FrameAt ==
  ASSUME NEW S, NEW s \in Seq(S), Placed(s), LaidOut(s), NEW n \in 1..Len(s)
  PROVE  frame_at(s, s[n].start) = n
<1>1. \A m \in 1..Len(s) : s[m].start = s[n].start => m = n
  <2>. SUFFICES ASSUME NEW m \in 1..Len(s), s[m].start = s[n].start, m # n
                PROVE  FALSE
    OBVIOUS
  <2>1. CASE m < n BY <2>1, WireAssumption DEF Placed, LaidOut
  <2>2. CASE n < m BY <2>2, WireAssumption DEF Placed, LaidOut
  <2>. QED BY <2>1, <2>2
<1>. QED BY <1>1 DEF frame_at

LEMMA FrameAtIn ==
  ASSUME NEW S, NEW s \in Seq(S), NEW pos
  PROVE  /\ frame_at(s, pos) \in 0..Len(s)
         /\ frame_at(s, pos) # 0 => /\ frame_at(s, pos) \in 1..Len(s)
                                    /\ s[frame_at(s, pos)].start = pos
BY DEF frame_at

(* A frame added at the end. *)
LEMMA LaidAppend ==
  ASSUME NEW S, NEW s \in Seq(S), Placed(s), LaidOut(s), NEW f \in S,
         f.start = end(s), f.len \in Nat
  PROVE  /\ Placed(Append(s, f)) /\ LaidOut(Append(s, f))
         /\ end(Append(s, f)) = end(s) + HeaderSize + f.len
<1>. DEFINE t == Append(s, f)
<1>1. /\ t \in Seq(S) /\ Len(t) = Len(s) + 1 /\ t[Len(t)] = f
      /\ \A n \in 1..Len(s) : t[n] = s[n]
  BY AppendProperties
<1>2. end(s) \in Nat BY EndNat
<1>3. \A n \in 1..Len(s) : /\ s[n].start + HeaderSize + s[n].len <= end(s)
                           /\ n = Len(s) => s[n].start + HeaderSize + s[n].len = end(s)
  BY EndsBefore
<1>. HIDE DEF t
<1>4. Placed(t) BY <1>1, <1>2 DEF Placed
<1>5. \A n \in 1..Len(t) : n < Len(t) => t[n + 1].start = t[n].start + HeaderSize + t[n].len
  <2>. SUFFICES ASSUME NEW n \in 1..Len(t), n < Len(t)
                PROVE  t[n + 1].start = t[n].start + HeaderSize + t[n].len
    OBVIOUS
  <2>1. CASE n = Len(s) BY <2>1, <1>1, <1>3
  <2>2. CASE n < Len(s) BY <2>2, <1>1 DEF LaidOut
  <2>. QED BY <2>1, <2>2, <1>1
<1>6. \A m, n \in 1..Len(t) : m < n => t[m].start + HeaderSize + t[m].len <= t[n].start
  <2>. SUFFICES ASSUME NEW m \in 1..Len(t), NEW n \in 1..Len(t), m < n
                PROVE  t[m].start + HeaderSize + t[m].len <= t[n].start
    OBVIOUS
  <2>1. CASE n = Len(t) BY <2>1, <1>1, <1>3
  <2>2. CASE n < Len(t) BY <2>2, <1>1 DEF LaidOut
  <2>. QED BY <2>1, <2>2
<1>7. end(t) = end(s) + HeaderSize + f.len
  BY <1>1 DEF end
<1>. QED BY <1>4, <1>5, <1>6, <1>7 DEF LaidOut, t
-----------------------------------------------------------------------------
(* The steps that move cells and change what an end is doing, without a new  *)
(* frame and without the end of one.                                        *)
Moves ==
  /\ TypeOK'
  /\ read'["client"] <= written'["client"] /\ written'["client"] <= end(requests)
  /\ read'["session"] <= written'["session"] /\ written'["session"] <= end(replies)
  /\ at'["session"] = "payload" => header_accepted(from["session"])
  /\ at'["client"] \in {"send", "header", "payload"} => requests # <<>>
  /\ at'["client"] # "closed" /\ ~Lost' =>
       /\ at["client"] # "closed" /\ ~Lost
       /\ at'["client"] = "idle" <=> at["client"] = "idle"
       /\ at'["client"] = "payload" => frame_at(replies, from["client"]) # 0

LEMMA MovesKeep ==
  ASSUME IInv, Moves, UNCHANGED <<requests, replies, from, handled, answers>>
  PROVE  IInv'
<1>1. Streams' BY DEF IInv, Moves, Streams, LaidOut, end
<1>2. Reading' BY DEF IInv, Moves, Reading, header_accepted
<1>3. Aligned' BY DEF IInv, Moves, Aligned, end
<1>4. HandledBehind' BY DEF IInv, HandledBehind, WellFormed
<1>5. InStep' <=> InStep BY DEF InStep
<1>6. HandledAll => HandledAll' BY DEF HandledAll, WellFormed
<1>7. OneReplyEach => OneReplyEach' BY DEF OneReplyEach, end
<1>8. Awaiting => Awaiting' BY DEF Moves, Awaiting, end
<1>9. AnswersOwn' BY <1>5 DEF IInv, AnswersOwn
<1>10. TypeOK' BY DEF Moves
<1>. QED BY <1>1, <1>2, <1>3, <1>4, <1>5, <1>6, <1>7, <1>8, <1>9, <1>10 DEF IInv

LEMMA EndsNat ==
  ASSUME TypeOK PROVE end(requests) \in Nat /\ end(replies) \in Nat
<1>1. Placed(requests) /\ Placed(replies) BY PlacedStreams
<1>. QED BY <1>1, EndNat DEF TypeOK

LEMMA SendSomeKeeps ==
  ASSUME IInv, NEW e \in Ends, SendSome(e) PROVE IInv'
<1>. USE DEF Ends
<1>1. PICK k \in 1..Capacity :
        /\ written[e] + k <= end(stream(e))
        /\ written' = [written EXCEPT ![e] = @ + k]
        /\ at' = at \/ at' = [at EXCEPT ![e] = "header"]
  BY DEF SendSome
<1>2. k \in Nat BY WireAssumption
<1>3. TypeOK' BY <1>1, <1>2, SMTT(40) DEF IInv, TypeOK, SendSome, At
<1>4. Moves
  <2>1. CASE e = "client"
    BY <1>1, <1>2, <1>3, <2>1, SMTT(40)
    DEF IInv, TypeOK, Streams, Reading, Aligned, Moves, Lost, SendSome, stream
  <2>2. CASE e = "session"
    BY <1>1, <1>2, <1>3, <2>2
    DEF IInv, TypeOK, Streams, Reading, Aligned, Moves, Lost, SendSome, stream
  <2>. QED BY <2>1, <2>2
<1>. QED BY <1>4, MovesKeep DEF SendSome

LEMMA SendFailsKeeps ==
  ASSUME IInv, NEW e \in Ends, SendFails(e) PROVE IInv'
<1>. USE DEF Ends
<1>1. TypeOK' BY DEF IInv, TypeOK, SendFails, At
<1>2. Moves
  BY <1>1 DEF IInv, TypeOK, Streams, Reading, Aligned, Moves, Lost, SendFails
<1>. QED BY <1>2, MovesKeep DEF SendFails

LEMMA KillKeeps ==
  ASSUME IInv, NEW e \in Ends, Kill(e) PROVE IInv'
<1>. USE DEF Ends
<1>1. TypeOK' BY DEF IInv, TypeOK, Kill, At
<1>2. Moves
  BY <1>1 DEF IInv, TypeOK, Streams, Reading, Aligned, Moves, Lost, Kill
<1>. QED BY <1>2, MovesKeep DEF Kill

LEMMA RecvFailsKeeps ==
  ASSUME IInv, NEW e \in Ends, RecvFails(e) PROVE IInv'
<1>. USE DEF Ends
<1>1. TypeOK' BY DEF IInv, TypeOK, RecvFails, At, peer
<1>2. Moves
  <2>0. end(requests) \in Nat /\ end(replies) \in Nat BY EndsNat DEF IInv
  <2>1. CASE e = "client"
    <3>1. /\ at' = [at EXCEPT !["client"] = at'["client"]] /\ at["session"] = "closed"
          /\ written' = [written EXCEPT !["session"] = read["session"]] /\ read' = read
      BY <2>1 DEF IInv, TypeOK, RecvFails, peer
    <3>2. Lost' BY <3>1 DEF IInv, TypeOK, Lost
    <3>. QED BY <1>1, <2>0, <3>1, <3>2, SMTT(40) DEF IInv, TypeOK, Streams, Reading, Moves, RecvFails
  <2>2. CASE e = "session"
    <3>1. /\ at' = [at EXCEPT !["session"] = "closed"] /\ at["client"] = "closed"
          /\ written' = [written EXCEPT !["client"] = read["client"]] /\ read' = read
      BY <2>2 DEF IInv, TypeOK, RecvFails, peer
    <3>2. /\ at'["client"] = "closed" /\ at'["session"] = "closed"
          /\ written'["client"] = read["client"] /\ written'["session"] = written["session"]
      BY <3>1 DEF IInv, TypeOK
    <3>3. /\ read["client"] <= end(requests) /\ read["client"] <= read["client"]
          /\ read["session"] <= written["session"] /\ written["session"] <= end(replies)
      BY <2>0 DEF IInv, TypeOK, Streams
    <3>. QED BY <1>1, <3>1, <3>2, <3>3 DEF Moves
  <2>. QED BY <2>1, <2>2
<1>. QED BY <1>2, MovesKeep DEF RecvFails

(* One ::recv takes cells that were written, so the client is not Lost. *)
LEMMA RecvTakes ==
  ASSUME IInv, NEW e \in Ends, NEW k \in 1..Capacity, recv(e, k)
  PROVE  /\ read' \in [Ends -> Nat]
         /\ e = "client" => /\ read'["client"] = read["client"]
                            /\ read'["session"] = read["session"] + k
                            /\ read'["session"] <= written["session"]
                            /\ ~Lost
         /\ e = "session" => /\ read'["session"] = read["session"]
                             /\ read'["client"] = read["client"] + k
                             /\ read'["client"] <= written["client"]
                             /\ at["session"] # "closed"
<1>. USE DEF Ends
<1>1. k \in Nat /\ k >= 1 BY WireAssumption
<1>2. read \in [Ends -> Nat] /\ written \in [Ends -> Nat] BY DEF IInv, TypeOK
<1>3. CASE e = "client" BY <1>1, <1>2, <1>3 DEF recv, peer, Lost
<1>4. CASE e = "session" BY <1>1, <1>2, <1>4 DEF recv, peer
<1>. QED BY <1>3, <1>4

LEMMA RecvSomeKeeps ==
  ASSUME IInv, NEW e \in Ends, RecvSome(e) PROVE IInv'
<1>1. PICK k \in 1..Capacity : recv(e, k) BY DEF RecvSome
<1>2. e = "client" \/ e = "session" BY DEF Ends
<1>3. TypeOK' BY <1>1, RecvTakes DEF IInv, TypeOK, RecvSome
<1>4. /\ read'["client"] <= written["client"] /\ read'["session"] <= written["session"]
      /\ ~Lost' /\ at["client"] # "closed" => ~Lost
  BY <1>1, <1>2, RecvTakes DEF IInv, Streams, RecvSome, Lost
<1>5. Moves BY <1>3, <1>4 DEF IInv, Streams, Reading, Aligned, Moves, RecvSome
<1>. QED BY <1>5, MovesKeep DEF RecvSome

(* What recv_all does, with the cells it asked for here. *)
LEMMA RecvAllTakes ==
  ASSUME IInv, NEW e \in Ends, recv_all(e)
  PROVE  /\ read' \in [Ends -> Nat]
         /\ e = "client" => /\ read'["client"] = read["client"]
                            /\ read'["session"] <= written["session"]
                            /\ goal("client") <= end(replies)
                            /\ ~Lost
         /\ e = "session" => /\ read'["session"] = read["session"]
                             /\ read'["client"] <= written["client"]
                             /\ goal("session") <= end(requests)
                             /\ at["session"] # "closed"
<1>1. PICK k \in 1..Capacity : recv(e, k) /\ read[peer(e)] + k = goal(e)
  BY DEF recv_all
<1>2. e = "client" \/ e = "session" BY DEF Ends
<1>3. end(requests) \in Nat /\ end(replies) \in Nat BY EndsNat DEF IInv
<1>4. written \in [Ends -> Nat] BY DEF IInv, TypeOK
<1>. QED BY <1>1, <1>2, <1>3, <1>4, RecvTakes DEF IInv, Streams, peer, Ends

LEMMA SessionHeaderKeeps ==
  ASSUME IInv, SessionHeader PROVE IInv'
<1>. USE DEF Ends
<1>1. /\ read' \in [Ends -> Nat] /\ read'["session"] = read["session"]
      /\ read'["client"] <= written["client"] /\ at["session"] # "closed"
  BY RecvAllTakes DEF SessionHeader
<1>2. at' = [at EXCEPT !["session"] = "payload"] /\ written' = written
  BY DEF SessionHeader
<1>3. TypeOK' BY <1>1, <1>2 DEF IInv, TypeOK, SessionHeader, At
<1>4. at'["client"] = at["client"] /\ at'["session"] = "payload"
  BY <1>2 DEF IInv, TypeOK
<1>5. header_accepted(from["session"]) BY DEF SessionHeader
<1>6. Moves
  BY <1>1, <1>2, <1>3, <1>4, <1>5 DEF IInv, Streams, Reading, Aligned, Moves, Lost
<1>. QED BY <1>6, MovesKeep DEF SessionHeader

LEMMA ClientHeaderKeeps ==
  ASSUME IInv, ClientHeader PROVE IInv'
<1>. USE DEF Ends
<1>1. /\ read' \in [Ends -> Nat] /\ read'["client"] = read["client"]
      /\ read'["session"] <= written["session"] /\ goal("client") <= end(replies) /\ ~Lost
  BY RecvAllTakes DEF ClientHeader
<1>2. at' = [at EXCEPT !["client"] = "payload"] /\ written' = written /\ at["client"] = "header"
  BY DEF ClientHeader
<1>3. TypeOK' BY <1>1, <1>2 DEF IInv, TypeOK, ClientHeader, At
<1>4. at'["client"] = "payload" /\ at'["session"] = at["session"]
  BY <1>2 DEF IInv, TypeOK
<1>5. frame_at(replies, from["client"]) # 0
  <2>1. goal("client") = from["client"] + HeaderSize BY <1>2 DEF goal
  <2>2. from["client"] \in Nat BY DEF IInv, TypeOK
  <2>3. end(replies) \in Nat BY EndsNat DEF IInv
  <2>4. from["client"] # end(replies) BY <1>1, <2>1, <2>2, <2>3, HeaderPositive
  <2>. QED BY <1>1, <1>2, <2>4 DEF IInv, Aligned
<1>6. Moves
  BY <1>1, <1>2, <1>3, <1>4, <1>5 DEF IInv, Streams, Reading, Moves
<1>. QED BY <1>6, MovesKeep DEF ClientHeader
-----------------------------------------------------------------------------
(* What the invariant says of the shape of the two streams. *)
LEMMA Shape ==
  ASSUME IInv
  PROVE  /\ requests \in Seq(Frame) /\ Placed(requests) /\ LaidOut(requests)
         /\ replies \in Seq(Reply) /\ Placed(replies) /\ LaidOut(replies)
         /\ end(requests) \in Nat /\ end(replies) \in Nat
         /\ Len(requests) \in Nat /\ Len(replies) \in Nat
         /\ DOMAIN requests = 1..Len(requests) /\ DOMAIN replies = 1..Len(replies)
<1>1. TypeOK /\ LaidOut(requests) /\ LaidOut(replies) BY DEF IInv, Streams
<1>2. requests \in Seq(Frame) /\ replies \in Seq(Reply) BY <1>1 DEF TypeOK
<1>3. Placed(requests) /\ Placed(replies) BY <1>1, PlacedStreams
<1>4. end(requests) \in Nat /\ end(replies) \in Nat BY <1>1, EndsNat
<1>. QED BY <1>1, <1>2, <1>3, <1>4

(* In step the session has not read past the last frame. *)
LEMMA FromBound ==
  ASSUME IInv, OneReplyEach PROVE from["session"] <= end(requests)
<1>1. requests \in Seq(Frame) /\ Placed(requests) /\ LaidOut(requests) /\ end(requests) \in Nat
  BY PlacedStreams, EndsNat DEF IInv, TypeOK, Streams
<1>2. Len(replies) \in Nat /\ Len(requests) \in Nat BY DEF IInv, TypeOK
<1>3. CASE Len(replies) < Len(requests)
  <2>1. Len(replies) + 1 \in 1..Len(requests) BY <1>2, <1>3
  <2>2. requests[Len(replies) + 1].start < end(requests) BY <1>1, <2>1, EndsBefore
  <2>3. requests[Len(replies) + 1].start \in Nat BY <1>1, <2>1 DEF Placed
  <2>. QED BY <1>1, <1>3, <2>2, <2>3 DEF OneReplyEach
<1>4. CASE ~(Len(replies) < Len(requests)) BY <1>1, <1>4 DEF OneReplyEach
<1>. QED BY <1>3, <1>4

LEMMA CallKeeps ==
  ASSUME IInv, NEW f \in Forms, Call(f) PROVE IInv'
<1>. DEFINE new == [type |-> f.type, len |-> f.len, header_ok |-> f.header_ok,
                    checksum_ok |-> f.checksum_ok, decodes |-> f.decodes,
                    start |-> end(requests)]
<1>1. /\ requests \in Seq(Frame) /\ Placed(requests) /\ LaidOut(requests)
      /\ end(requests) \in Nat /\ end(replies) \in Nat /\ Len(requests) \in Nat
      /\ Len(replies) \in Nat
  BY Shape
<1>2. new \in Frame /\ new.start = end(requests) /\ new.len \in Nat
  BY <1>1, WireAssumption DEF Frame
<1>3. /\ requests' = Append(requests, new)
      /\ at["client"] = "idle" /\ at' = [at EXCEPT !["client"] = "send"]
      /\ UNCHANGED <<replies, written, read, from, handled, answers>>
  BY DEF Call
<1>. HIDE DEF new
<1>4. /\ requests' \in Seq(Frame) /\ Len(requests') = Len(requests) + 1
      /\ requests'[Len(requests')] = new
      /\ \A n \in 1..Len(requests) : requests'[n] = requests[n]
      /\ DOMAIN requests = 1..Len(requests) /\ DOMAIN requests' = 1..Len(requests')
  BY <1>1, <1>2, <1>3, AppendProperties
<1>5. /\ Placed(requests') /\ LaidOut(requests')
      /\ end(requests') = end(requests) + HeaderSize + new.len
  BY <1>1, <1>2, <1>3, LaidAppend
<1>6. at'["client"] = "send" /\ at'["session"] = at["session"] /\ Lost' = Lost
  BY <1>3 DEF IInv, TypeOK, Lost, Ends
<1>7. TypeOK' BY <1>3, <1>4 DEF IInv, TypeOK, At, Ends
<1>8. Streams'
  <2>1. written["client"] <= end(requests')
    BY <1>1, <1>2, <1>5, HeaderPositive DEF IInv, TypeOK, Streams, Ends
  <2>2. end(replies)' = end(replies) /\ LaidOut(replies)' BY <1>3 DEF IInv, Streams, end, LaidOut
  <2>. QED BY <1>3, <1>5, <2>1, <2>2 DEF IInv, Streams
<1>9. Reading'
  <2>1. ASSUME at["session"] = "payload" PROVE header_accepted(from["session"])'
    <3>. DEFINE n == frame_at(requests, from["session"])
    <3>1. n # 0 /\ requests[n].header_ok BY <2>1 DEF IInv, Reading, header_accepted
    <3>2. n \in 1..Len(requests) /\ requests[n].start = from["session"]
      BY <1>1, <3>1, FrameAtIn
    <3>. HIDE DEF n
    <3>3. n \in 1..Len(requests') /\ requests'[n] = requests[n] BY <1>1, <1>4, <3>2
    <3>4. frame_at(requests', requests'[n].start) = n BY <1>4, <1>5, <3>3, FrameAt
    <3>5. n # 0 BY <1>1, <3>2
    <3>. QED BY <1>3, <3>1, <3>2, <3>3, <3>4, <3>5 DEF header_accepted
  <2>2. requests' # <<>> BY <1>1, <1>4
  <2>. QED BY <1>6, <2>1, <2>2 DEF Reading
<1>10. Aligned' BY <1>3, <1>6 DEF IInv, Aligned, end
<1>11. HandledBehind'
  BY <1>3, <1>4 DEF IInv, HandledBehind, WellFormed
<1>12. InStep' => InStep BY <1>1, <1>4 DEF InStep
<1>13. ASSUME InStep' PROVE HandledAll' /\ OneReplyEach' /\ Awaiting'
  <2>1. HandledAll /\ OneReplyEach /\ Awaiting BY <1>12, <1>13 DEF IInv
  <2>2. HandledAll'
    <3>1. from["session"] <= end(requests) /\ from["session"] \in Nat
      BY <2>1, FromBound DEF IInv, TypeOK, Ends
    <3>2. \A n \in DOMAIN requests' : n \in DOMAIN requests \/ n = Len(requests')
      BY <1>1, <1>4
    <3>3. ~(requests'[Len(requests')].start < from["session"])
      BY <1>1, <1>2, <1>4, <3>1
    <3>. QED BY <1>3, <1>4, <2>1, <3>2, <3>3 DEF HandledAll, WellFormed
  <2>3. OneReplyEach'
    <3>1. CASE Len(replies) < Len(requests)
      <4>1. Len(replies) + 1 \in 1..Len(requests) BY <1>1, <3>1
      <4>. QED BY <1>1, <1>3, <1>4, <2>1, <3>1, <4>1 DEF OneReplyEach
    <3>2. CASE Len(replies) = Len(requests)
      BY <1>1, <1>2, <1>3, <1>4, <2>1, <3>2 DEF OneReplyEach
    <3>. QED BY <1>1, <2>1, <3>1, <3>2 DEF OneReplyEach
  <2>4. Awaiting' BY <1>1, <1>3, <1>4, <1>6, <2>1 DEF Awaiting, end
  <2>. QED BY <2>2, <2>3, <2>4
<1>14. AnswersOwn' BY <1>3, <1>12 DEF IInv, AnswersOwn
<1>. QED BY <1>7, <1>8, <1>9, <1>10, <1>11, <1>13, <1>14 DEF IInv

LEMMA ClientAnsweredKeeps ==
  ASSUME IInv, ClientAnswered PROVE IInv'
<1>. DEFINE m == frame_at(replies, from["client"])
            n == Len(requests)
            p == goal("client")
<1>1. /\ replies \in Seq(Reply) /\ Placed(replies) /\ LaidOut(replies)
      /\ end(replies) \in Nat /\ Len(requests) \in Nat /\ Len(replies) \in Nat
  BY Shape
<1>2. /\ read' \in [Ends -> Nat] /\ read'["client"] = read["client"]
      /\ read'["session"] <= written["session"] /\ ~Lost
  BY RecvAllTakes DEF ClientAnswered, Ends
<1>3. at["client"] = "payload" BY DEF ClientAnswered
<1>4. /\ answers' = answers \union {<<n, replies[m].to>>}
      /\ at' = [at EXCEPT !["client"] = "idle"] \/ at' = [at EXCEPT !["client"] = "closed"]
      /\ from' = [from EXCEPT !["client"] = p]
      /\ UNCHANGED <<requests, replies, written, handled>>
  BY DEF ClientAnswered
<1>5. m \in 1..Len(replies) /\ replies[m].start = from["client"]
  <2>1. m # 0 BY <1>2, <1>3 DEF IInv, Aligned
  <2>. QED BY <1>1, <2>1, FrameAtIn
<1>6. p = replies[m].start + HeaderSize + replies[m].len
  BY <1>3, <1>5 DEF goal, peer, stream
<1>7. replies[m].start \in Nat /\ replies[m].len \in Nat BY <1>1, <1>5 DEF Placed
<1>8. p \in Nat BY <1>6, <1>7, HeaderPositive
<1>9. p = IF m < Len(replies) THEN replies[m + 1].start ELSE end(replies)
  BY <1>1, <1>5, <1>6, EndsBefore
<1>10. replies[m].to \in Nat
  <2>1. replies[m] \in Reply BY <1>1, <1>5
  <2>. QED BY <2>1 DEF Reply
<1>. HIDE DEF m, p
<1>11. /\ at'["client"] \in {"idle", "closed"} /\ at'["session"] = at["session"]
       /\ from'["client"] = p /\ from'["session"] = from["session"]
  BY <1>4 DEF IInv, TypeOK, Ends
<1>12. TypeOK'
  <2>1. answers' \subseteq Nat \X Nat BY <1>1, <1>4, <1>10 DEF IInv, TypeOK
  <2>2. at' \in [Ends -> At] BY <1>4 DEF IInv, TypeOK, At, Ends
  <2>3. from' \in [Ends -> Nat] BY <1>4, <1>8 DEF IInv, TypeOK, Ends
  <2>. QED BY <1>2, <1>4, <2>1, <2>2, <2>3 DEF IInv, TypeOK
<1>13. Streams' BY <1>2, <1>4 DEF IInv, Streams, LaidOut, end
<1>14. Reading' BY <1>4, <1>11 DEF IInv, Reading, header_accepted
<1>15. Aligned'
  <2>1. p = end(replies) \/ frame_at(replies, p) # 0
    <3>1. CASE m < Len(replies)
      <4>1. m + 1 \in 1..Len(replies) /\ m + 1 # 0 BY <1>1, <1>5, <3>1
      <4>2. frame_at(replies, replies[m + 1].start) = m + 1 BY <1>1, <4>1, FrameAt
      <4>. QED BY <1>9, <3>1, <4>1, <4>2
    <3>2. CASE ~(m < Len(replies)) BY <1>9, <3>2
    <3>. QED BY <3>1, <3>2
  <2>. QED BY <1>4, <1>11, <2>1 DEF Aligned, end
<1>16. HandledBehind' BY <1>4, <1>11 DEF IInv, HandledBehind, WellFormed
<1>17. InStep' <=> InStep BY <1>4 DEF InStep
<1>18. HandledAll => HandledAll' BY <1>4, <1>11 DEF HandledAll, WellFormed
<1>19. OneReplyEach => OneReplyEach' BY <1>4, <1>11 DEF OneReplyEach, end
<1>20. ASSUME InStep PROVE m = Len(replies) /\ Len(replies) = n
  <2>1. Awaiting BY <1>20 DEF IInv
  <2>2. from["client"] < end(replies) BY <1>1, <1>5, EndsBefore
  <2>3. from["client"] # end(replies) BY <1>1, <1>5, <1>7, <2>2
  <2>4. Len(replies) = n /\ from["client"] = replies[Len(replies)].start
    BY <1>2, <1>3, <2>1, <2>3 DEF Awaiting
  <2>5. Len(replies) \in 1..Len(replies) BY <1>1, <1>5
  <2>6. frame_at(replies, from["client"]) = Len(replies)
    BY <1>1, <2>4, <2>5, FrameAt
  <2>. QED BY <2>4, <2>6 DEF m
<1>21. InStep => Awaiting'
  BY <1>1, <1>4, <1>9, <1>11, <1>20 DEF Awaiting, end
<1>22. AnswersOwn'
  <2>1. InStep => replies[m].to = n
    BY <1>5, <1>20 DEF IInv, OneReplyEach
  <2>. QED BY <1>4, <1>17, <2>1 DEF IInv, AnswersOwn
<1>. QED
  BY <1>12, <1>13, <1>14, <1>15, <1>16, <1>17, <1>18, <1>19, <1>21, <1>22 DEF IInv

(* A position the session reads a frame from, and where it reads on. *)
LEMMA SessionGoal ==
  ASSUME IInv, recv_all("session"),
         \/ at["session"] = "header" /\ ~header_accepted(from["session"])
         \/ whole
  PROVE  /\ goal("session") \in Nat /\ goal("session") <= end(requests)
         /\ from["session"] < goal("session")
         /\ this \in 0..Len(requests)
         /\ this # 0 => this \in 1..Len(requests) /\ requests[this].start = from["session"]
         /\ this # 0 /\ InStep =>
              goal("session") = from["session"] + HeaderSize + requests[this].len
<1>1. requests \in Seq(Frame) /\ Placed(requests) /\ DOMAIN requests = 1..Len(requests) BY Shape
<1>2. goal("session") <= end(requests) BY RecvAllTakes DEF Ends
<1>3. from["session"] \in Nat BY DEF IInv, TypeOK, Ends
<1>4. /\ this \in 0..Len(requests)
      /\ this # 0 => this \in 1..Len(requests) /\ requests[this].start = from["session"]
  BY <1>1, FrameAtIn DEF this
<1>5. this # 0 => requests[this].len \in Nat BY <1>1, <1>4 DEF Placed
<1>6. CASE at["session"] = "header"
  <2>1. goal("session") = from["session"] + HeaderSize BY <1>6 DEF goal
  <2>2. this # 0 /\ InStep => requests[this].len = 0
    BY <1>1, <1>4, <1>6 DEF whole, header_accepted, this, InStep
  <2>. QED BY <1>2, <1>3, <1>4, <2>1, <2>2, HeaderPositive
<1>7. CASE at["session"] = "payload"
  <2>1. this # 0 BY <1>7 DEF IInv, Reading, header_accepted, this
  <2>2. goal("session") = from["session"] + HeaderSize + requests[this].len
    BY <1>7 DEF goal, peer, stream, this
  <2>. QED BY <1>2, <1>3, <1>4, <1>5, <2>1, <2>2, HeaderPositive
<1>. QED BY <1>6, <1>7 DEF whole

(* The session has read a frame, or what it took for one, and replies. *)
LEMMA ReplyKeeps ==
  ASSUME IInv, recv_all("session"),
         \/ at["session"] = "header" /\ ~header_accepted(from["session"])
         \/ whole,
         NEW w \in Nat, reply(w, this),
         \/ handled' = handled /\ (this # 0 => ~WellFormed(this))
         \/ handled' = Append(handled, this) /\ this # 0 /\ WellFormed(this),
         UNCHANGED <<requests, written, answers>>
  PROVE  IInv'
<1>. DEFINE new == [start |-> end(replies), len |-> 1, width |-> w, to |-> this]
            p == goal("session")
<1>1. /\ requests \in Seq(Frame) /\ Placed(requests) /\ LaidOut(requests)
      /\ replies \in Seq(Reply) /\ Placed(replies) /\ LaidOut(replies)
      /\ end(requests) \in Nat /\ end(replies) \in Nat
      /\ Len(requests) \in Nat /\ Len(replies) \in Nat
      /\ DOMAIN requests = 1..Len(requests) /\ DOMAIN replies = 1..Len(replies)
  BY Shape
<1>2. /\ p \in Nat /\ p <= end(requests) /\ from["session"] < p
      /\ this \in 0..Len(requests)
      /\ this # 0 => this \in 1..Len(requests) /\ requests[this].start = from["session"]
      /\ this # 0 /\ InStep => p = from["session"] + HeaderSize + requests[this].len
  BY SessionGoal
<1>3. /\ read' \in [Ends -> Nat] /\ read'["session"] = read["session"]
      /\ read'["client"] <= written["client"] /\ at["session"] # "closed"
  BY RecvAllTakes DEF Ends
<1>4. new \in Reply /\ new.start = end(replies) /\ new.len \in Nat /\ new.len = 1 /\ new.to = this
  <2>1. this \in Nat BY <1>1, <1>2
  <2>. QED BY <1>1, <2>1 DEF Reply
<1>5. /\ replies' = Append(replies, new)
      /\ at' = [at EXCEPT !["session"] = "send"]
      /\ from' = [from EXCEPT !["session"] = p]
  BY DEF reply
<1>6. from \in [Ends -> Nat] /\ at \in [Ends -> At] BY DEF IInv, TypeOK
<1>7. /\ at'["session"] = "send" /\ at'["client"] = at["client"]
      /\ from'["session"] = p /\ from'["client"] = from["client"] /\ ~Lost /\ ~Lost'
  BY <1>3, <1>5, <1>6 DEF Lost, Ends
<1>. HIDE DEF new, p
<1>8. /\ replies' \in Seq(Reply) /\ Len(replies') = Len(replies) + 1
      /\ replies'[Len(replies')] = new
      /\ \A m \in 1..Len(replies) : replies'[m] = replies[m]
  BY <1>1, <1>4, <1>5, AppendProperties
<1>9. /\ Placed(replies') /\ LaidOut(replies')
      /\ end(replies') = end(replies) + HeaderSize + new.len
  BY <1>1, <1>4, <1>5, LaidAppend
<1>10. TypeOK'
  <2>1. at' \in [Ends -> At] BY <1>5, <1>6 DEF At, Ends
  <2>2. from' \in [Ends -> Nat] BY <1>2, <1>5, <1>6 DEF Ends
  <2>3. handled' \in Seq(Nat)
    <3>1. handled \in Seq(Nat) /\ this \in Nat BY <1>1, <1>2 DEF IInv, TypeOK
    <3>. QED BY <3>1
  <2>. QED BY <1>3, <1>8, <2>1, <2>2, <2>3 DEF IInv, TypeOK
<1>11. Streams'
  <2>1. written["session"] <= end(replies')
    BY <1>1, <1>4, <1>9, HeaderPositive DEF IInv, TypeOK, Streams, Ends
  <2>2. end(requests)' = end(requests) /\ LaidOut(requests)' BY DEF IInv, Streams, end, LaidOut
  <2>. QED BY <1>3, <1>9, <2>1, <2>2 DEF IInv, Streams
<1>12. Reading' BY <1>7 DEF IInv, Reading
<1>13. Aligned'
  <2>. SUFFICES ASSUME at["client"] # "closed"
                PROVE  frame_at(replies', from["client"]) # 0
    BY <1>7 DEF Aligned
  <2>1. CASE from["client"] = end(replies)
    <3>1. Len(replies') \in 1..Len(replies') /\ Len(replies') # 0 BY <1>1, <1>8
    <3>2. frame_at(replies', replies'[Len(replies')].start) = Len(replies')
      BY <1>8, <1>9, <3>1, FrameAt
    <3>. QED BY <1>4, <1>8, <2>1, <3>1, <3>2
  <2>2. CASE frame_at(replies, from["client"]) # 0
    <3>. DEFINE m == frame_at(replies, from["client"])
    <3>1. m \in 1..Len(replies) /\ replies[m].start = from["client"]
      BY <1>1, <2>2, FrameAtIn
    <3>. HIDE DEF m
    <3>2. m \in 1..Len(replies') /\ replies'[m].start = from["client"] /\ m # 0
      BY <1>1, <1>8, <3>1
    <3>3. frame_at(replies', replies'[m].start) = m BY <1>8, <1>9, <3>2, FrameAt
    <3>. QED BY <3>2, <3>3
  <2>. QED BY <1>7, <2>1, <2>2 DEF IInv, Aligned
<1>14. HandledBehind'
  <2>1. \A i \in DOMAIN handled :
          /\ handled[i] \in DOMAIN requests /\ WellFormed(handled[i])
          /\ requests[handled[i]].start < from["session"] /\ requests[handled[i]].start < p
    <3>1. SUFFICES ASSUME NEW i \in DOMAIN handled,
                          handled[i] \in DOMAIN requests, WellFormed(handled[i]),
                          requests[handled[i]].start < from["session"]
                   PROVE  requests[handled[i]].start < p
      BY DEF IInv, HandledBehind
    <3>2. requests[handled[i]].start \in Nat BY <1>1, <3>1 DEF Placed
    <3>. QED BY <1>2, <1>6, <3>1, <3>2 DEF Ends
  <2>2. \A i, j \in DOMAIN handled : i < j => handled[i] < handled[j]
    BY DEF IInv, HandledBehind
  <2>3. CASE handled' = handled
    BY <1>7, <2>1, <2>2, <2>3 DEF HandledBehind, WellFormed
  <2>4. CASE handled' = Append(handled, this) /\ this # 0 /\ WellFormed(this)
    <3>1. handled \in Seq(Nat) /\ this \in Nat BY <1>1, <1>2 DEF IInv, TypeOK
    <3>2. /\ Len(handled') = Len(handled) + 1 /\ handled'[Len(handled')] = this
          /\ \A i \in 1..Len(handled) : handled'[i] = handled[i]
          /\ DOMAIN handled = 1..Len(handled) /\ DOMAIN handled' = 1..Len(handled')
          /\ Len(handled) \in Nat
      BY <2>4, <3>1, AppendProperties
    <3>3. \A i \in 1..Len(handled) : handled[i] < this
      <4>1. SUFFICES ASSUME NEW i \in 1..Len(handled), ~(handled[i] < this) PROVE FALSE
        OBVIOUS
      <4>2. /\ handled[i] \in 1..Len(requests) /\ this \in 1..Len(requests)
            /\ requests[handled[i]].start < requests[this].start
        BY <1>1, <1>2, <2>1, <2>4, <3>2
      <4>3. /\ requests[handled[i]].start \in Nat /\ requests[this].start \in Nat
            /\ requests[this].len \in Nat
        BY <1>1, <4>2 DEF Placed
      <4>4. this < handled[i] BY <1>1, <4>1, <4>2, <4>3
      <4>5. requests[this].start + HeaderSize + requests[this].len <= requests[handled[i]].start
        BY <1>1, <4>2, <4>4 DEF LaidOut
      <4>. QED BY <4>2, <4>3, <4>5, HeaderPositive, SMTT(40)
    <3>4. \A i \in DOMAIN handled' : i \in 1..Len(handled) \/ i = Len(handled') BY <3>2
    <3>5. \A i \in DOMAIN handled' :
            /\ handled'[i] \in DOMAIN requests /\ WellFormed(handled'[i])
            /\ requests[handled'[i]].start < p
      BY <1>1, <1>2, <2>1, <2>4, <3>2, <3>4
    <3>6. \A i, j \in DOMAIN handled' : i < j => handled'[i] < handled'[j]
      <4>. SUFFICES ASSUME NEW i \in DOMAIN handled', NEW j \in DOMAIN handled', i < j
                    PROVE  handled'[i] < handled'[j]
        OBVIOUS
      <4>1. i \in 1..Len(handled) BY <3>2
      <4>2. CASE j = Len(handled') BY <3>2, <3>3, <4>1, <4>2
      <4>3. CASE j \in 1..Len(handled) BY <2>2, <3>2, <4>1, <4>3
      <4>. QED BY <3>4, <4>2, <4>3
    <3>. QED BY <1>7, <3>5, <3>6 DEF HandledBehind, WellFormed
  <2>. QED BY <2>3, <2>4
<1>15. InStep' <=> InStep BY DEF InStep
<1>16. ASSUME InStep
       PROVE  /\ HandledAll /\ OneReplyEach /\ Awaiting
              /\ Len(replies) < Len(requests) /\ this = Len(replies) + 1
  <2>1. HandledAll /\ OneReplyEach /\ Awaiting BY <1>16 DEF IInv
  <2>2. Len(replies) < Len(requests)
    <3>1. from["session"] # end(requests) BY <1>1, <1>2, <1>6 DEF Ends
    <3>. QED BY <1>1, <2>1, <3>1 DEF OneReplyEach
  <2>3. Len(replies) + 1 \in 1..Len(requests) BY <1>1, <2>2
  <2>4. frame_at(requests, requests[Len(replies) + 1].start) = Len(replies) + 1
    BY <1>1, <2>3, FrameAt
  <2>. QED BY <2>1, <2>2, <2>4 DEF OneReplyEach, this
<1>17. InStep => OneReplyEach'
  <2>. SUFFICES ASSUME InStep PROVE OneReplyEach' OBVIOUS
  <2>1. this \in 1..Len(requests) /\ this # 0 BY <1>1, <1>16
  <2>2. requests[this].start + HeaderSize + requests[this].len
          = IF this < Len(requests) THEN requests[this + 1].start ELSE end(requests)
    BY <1>1, <2>1, EndsBefore
  <2>3. p = IF this < Len(requests) THEN requests[this + 1].start ELSE end(requests)
    BY <1>2, <2>1, <2>2
  <2>4. Len(replies') = this BY <1>8, <1>16
  <2>5. \A m \in 1..Len(replies') : replies'[m].to = m
    <3>1. \A m \in 1..Len(replies') : m \in 1..Len(replies) \/ m = Len(replies')
      BY <1>1, <1>8
    <3>. QED BY <1>4, <1>8, <1>16, <2>4, <3>1 DEF OneReplyEach
  <2>. QED BY <1>7, <2>1, <2>3, <2>4, <2>5 DEF OneReplyEach, end
<1>18. InStep => HandledAll'
  <2>. SUFFICES ASSUME InStep, NEW n \in 1..Len(requests), WellFormed(n), requests[n].start < p
                PROVE  \E i \in DOMAIN handled' : handled'[i] = n
    BY <1>1, <1>7 DEF HandledAll, WellFormed
  <2>1. handled \in Seq(Nat) /\ this \in Nat BY <1>1, <1>2 DEF IInv, TypeOK
  <2>2. this \in 1..Len(requests) /\ this # 0 BY <1>1, <1>16, SMTT(40)
  <2>3. CASE n = this
    <3>1. handled' = Append(handled, this) BY <2>2, <2>3
    <3>2. handled'[Len(handled) + 1] = this /\ Len(handled) + 1 \in DOMAIN handled'
      BY <2>1, <3>1, AppendProperties
    <3>. QED BY <2>3, <3>2
  <2>4. CASE n # this
    <3>1. requests[n].start \in Nat /\ requests[n].len \in Nat BY <1>1 DEF Placed
    <3>2. ~(this < n)
      <4>1. SUFFICES ASSUME this < n PROVE FALSE OBVIOUS
      <4>2. requests[this].start + HeaderSize + requests[this].len <= requests[n].start
        BY <1>1, <2>2, <4>1 DEF LaidOut
      <4>3. p <= requests[n].start BY <1>2, <2>2, <4>2
      <4>. QED BY <1>2, <3>1, <4>3
    <3>3. n < this BY <1>1, <2>2, <2>4, <3>2
    <3>4. requests[n].start + HeaderSize + requests[n].len <= requests[this].start
      BY <1>1, <2>2, <3>3 DEF LaidOut
    <3>5. requests[n].start < from["session"]
      <4>. DEFINE a == requests[n].start  b == requests[n].len  c == from["session"]
      <4>1. a \in Nat /\ b \in Nat /\ c \in Nat /\ a + HeaderSize + b <= c
        BY <1>2, <1>6, <2>2, <3>1, <3>4 DEF Ends
      <4>. HIDE DEF a, b, c
      <4>2. a < c BY <4>1, HeaderPositive
      <4>. QED BY <4>2 DEF a, c
    <3>6. PICK i \in DOMAIN handled : handled[i] = n BY <1>1, <1>16, <3>5 DEF HandledAll
    <3>7. i \in DOMAIN handled' /\ handled'[i] = n
      BY <2>1, <3>6, AppendProperties, SMTT(40)
    <3>. QED BY <3>7
  <2>. QED BY <2>3, <2>4
<1>19. InStep => Awaiting'
  <2>. SUFFICES ASSUME InStep, at["client"] # "closed"
                PROVE  /\ at["client"] # "idle" /\ Len(replies') = Len(requests)
                       /\ from["client"] = replies'[Len(replies')].start
    BY <1>7 DEF Awaiting
  <2>0. Awaiting /\ Len(replies) < Len(requests) BY <1>16
  <2>1. Len(replies) # Len(requests)
    <3>. DEFINE a == Len(replies)  b == Len(requests)
    <3>1. a \in Nat /\ b \in Nat /\ a < b BY <1>1, <2>0
    <3>. HIDE DEF a, b
    <3>2. a # b BY <3>1
    <3>. QED BY <3>2 DEF a, b
  <2>2. /\ at["client"] # "idle" /\ Len(replies) + 1 = Len(requests)
        /\ from["client"] = end(replies)
    BY <1>7, <2>0, <2>1 DEF Awaiting
  <2>. QED BY <1>4, <1>8, <2>2
<1>20. AnswersOwn' BY <1>15 DEF IInv, AnswersOwn
<1>. QED
  BY <1>10, <1>11, <1>12, <1>13, <1>14, <1>15, <1>17, <1>18, <1>19, <1>20 DEF IInv

LEMMA SessionRefusesKeeps ==
  ASSUME IInv, SessionRefuses PROVE IInv'
<1>1. /\ recv_all("session") /\ reply(status_width, this) /\ handled' = handled
      /\ UNCHANGED <<requests, written, answers>>
  BY DEF SessionRefuses
<1>2. \/ at["session"] = "header" /\ ~header_accepted(from["session"])
      \/ whole /\ ~requests[this].checksum_ok
  BY DEF SessionRefuses
<1>3. this # 0 => ~WellFormed(this)
  BY <1>2 DEF header_accepted, this, WellFormed
<1>4. status_width \in Nat BY DEF status_width
<1>. QED BY <1>1, <1>2, <1>3, <1>4, ReplyKeeps

LEMMA SessionHandlesKeeps ==
  ASSUME IInv, NEW throws \in BOOLEAN, SessionHandles(throws) PROVE IInv'
<1>. DEFINE w == IF throws THEN status_width ELSE reply_width(requests[this].type)
<1>1. /\ recv_all("session") /\ whole /\ requests[this].checksum_ok
      /\ reply(w, this) /\ handled' = Append(handled, this)
      /\ UNCHANGED <<requests, written, answers>>
  BY DEF SessionHandles
<1>2. header_accepted(from["session"]) BY <1>1 DEF IInv, Reading, whole
<1>3. this # 0 /\ WellFormed(this) BY <1>1, <1>2 DEF header_accepted, this, WellFormed
<1>4. w \in Nat BY DEF status_width, reply_width
<1>. HIDE DEF w
<1>. QED BY <1>1, <1>3, <1>4, ReplyKeeps

(* The invariant holds of every connection: frames lie end to end, the       *)
(* session has given one reply for each frame behind it, and the client is   *)
(* waiting for the one to its last request.                                 *)
THEOREM Invariance == Spec => []IInv
<1>1. Init => IInv
  <2>. SUFFICES ASSUME Init PROVE IInv OBVIOUS
  <2>1. TypeOK BY DEF Init, TypeOK, Ends, At
  <2>2. Streams BY DEF Init, Streams, LaidOut, end, Ends
  <2>3. Reading /\ Aligned /\ HandledBehind
    BY DEF Init, Reading, Aligned, HandledBehind, end, Ends
  <2>4. HandledAll /\ OneReplyEach /\ Awaiting
    BY DEF Init, HandledAll, OneReplyEach, Awaiting, end, Ends
  <2>5. AnswersOwn BY DEF Init, AnswersOwn
  <2>. QED BY <2>1, <2>2, <2>3, <2>4, <2>5 DEF IInv
<1>2. IInv /\ [Next]_vars => IInv'
  <2>. SUFFICES ASSUME IInv, [Next]_vars PROVE IInv' OBVIOUS
  <2>1. ASSUME NEW f \in Forms, Call(f) PROVE IInv' BY <2>1, CallKeeps
  <2>2. ASSUME NEW e \in Ends, SendSome(e) PROVE IInv' BY <2>2, SendSomeKeeps
  <2>3. ASSUME NEW e \in Ends, SendFails(e) PROVE IInv' BY <2>3, SendFailsKeeps
  <2>4. ASSUME NEW e \in Ends, RecvSome(e) PROVE IInv' BY <2>4, RecvSomeKeeps
  <2>5. ASSUME NEW e \in Ends, RecvFails(e) PROVE IInv' BY <2>5, RecvFailsKeeps
  <2>6. ASSUME NEW e \in Ends, Kill(e) PROVE IInv' BY <2>6, KillKeeps
  <2>7. CASE SessionHeader BY <2>7, SessionHeaderKeeps
  <2>8. CASE SessionRefuses BY <2>8, SessionRefusesKeeps
  <2>9. ASSUME NEW throws \in BOOLEAN, SessionHandles(throws) PROVE IInv'
    BY <2>9, SessionHandlesKeeps
  <2>10. CASE ClientHeader BY <2>10, ClientHeaderKeeps
  <2>11. CASE ClientAnswered BY <2>11, ClientAnsweredKeeps
  <2>12. CASE UNCHANGED vars
    <3>1. Moves
      BY <2>12 DEF vars, IInv, TypeOK, Streams, Reading, Aligned, Moves, Lost
    <3>. QED BY <2>12, <3>1, MovesKeep DEF vars
  <2>. QED
    BY <2>1, <2>2, <2>3, <2>4, <2>5, <2>6, <2>7, <2>8, <2>9, <2>10, <2>11, <2>12
    DEF Next, Step
<1>. QED BY <1>1, <1>2, PTL DEF Spec

(* The variables have their types: each end is always inside a call of send  *)
(* or recv that exists, and no position in a stream is negative.            *)
THEOREM TypeCorrect == Spec => []TypeOK
<1>1. IInv => TypeOK
  BY DEF IInv
<1>. QED BY <1>1, Invariance, PTL

(* Session::run hands handle well-formed frames only, each once, in the      *)
(* order sent and, in step, without a gap, however TCP cuts up the stream.   *)
THEOREM HandlesInOrder == Spec => []HandledOnce
<1>1. IInv => HandledOnce
  BY DEF IInv, HandledBehind, HandledAll, HandledOnce
<1>. QED BY <1>1, Invariance, PTL

(* In step, the reply a call returns was made for that call. *)
THEOREM AnswersMatch == Spec => []AnswersOwn
<1>1. IInv => AnswersOwn BY DEF IInv
<1>. QED BY <1>1, Invariance, PTL
=============================================================================
