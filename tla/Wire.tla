-------------------------------- MODULE Wire --------------------------------
(***************************************************************************)
(* The framed TCP connection between a client (the proof runner's Client   *)
(* or a worker) and its session thread in the coordinator:                 *)
(* distributed/chan.hpp, Session::run and the replies of Session::handle   *)
(* in coordinator.cpp, and the calls of Client and of worker.cpp.          *)
(*                                                                         *)
(* Each direction is a byte stream.  A byte is a cell, named by its        *)
(* position, and a frame is HeaderSize cells followed by len cells of      *)
(* payload; written and read count the cells the sender has handed to the  *)
(* kernel and the receiver has taken from it.  ::send and ::recv move any  *)
(* number of cells, so a frame may arrive in pieces, and at most Capacity  *)
(* cells are in flight.                                                    *)
(***************************************************************************)
EXTENDS Integers, Sequences

CONSTANTS
    HeaderSize,   \* cells of a frame's header (16 bytes in the code)
    Capacity,     \* cells a direction of the connection holds
    Forms,        \* the frames a client may send, without their place
    MaxRequests   \* bound on the requests of one connection

Ends == {"client", "session"}

\* The requests the clients of this repository send.  Not among them is QUIT,
\* the one request handle answers nothing to (coordinator.cpp 133).
Msg == {"HELLO", "PUBLISH_PRICE", "REQUEST_EVAL", "RECORD_ATTEMPT", "REALIZE",
        "GET_STATE", "PING", "REVALIDATE"}

\* header_ok: magic and version are the reader's and len is within
\* kMaxPayload.  checksum_ok: the payload has the header's checksum.
\* decodes: the payload holds every field the handler reads.
Frame == [type : Msg, len : Nat, header_ok : BOOLEAN, checksum_ok : BOOLEAN,
          decodes : BOOLEAN, start : Nat]

\* A reply has a payload of `width` bytes, in one cell here.  `to` is history:
\* the request whose frame it answers, 0 when its cells were no frame.
Reply == [start : Nat, len : {1}, width : Nat, to : Nat]

ASSUME WireAssumption ==
    /\ HeaderSize \in Nat \ {0}
    /\ Capacity \in Nat \ {0}
    /\ MaxRequests \in Nat
    /\ Forms \subseteq [type : Msg, len : Nat, header_ok : BOOLEAN,
                        checksum_ok : BOOLEAN, decodes : BOOLEAN]

VARIABLES
    requests,   \* frames the client has begun to send
    replies,    \* frames the session has begun to send
    written,    \* per sender: cells handed to the kernel
    read,       \* per sender: cells of its stream taken by the other end
    at,         \* what an end is doing
    from,       \* per reader: where the frame it is reading begins
    handled,    \* history: the requests given to Session::handle
    answers     \* history: <<request, the request its answer was made for>>

vars == <<requests, replies, written, read, at, from, handled, answers>>

At == {"idle", "send", "header", "payload", "closed"}

-----------------------------------------------------------------------------
peer(e) == IF e = "client" THEN "session" ELSE "client"

stream(e) == IF e = "client" THEN requests ELSE replies

\* Where the frames of s end.
end(s) == IF s = <<>> THEN 0 ELSE s[Len(s)].start + HeaderSize + s[Len(s)].len

\* The frame of s that begins at a position, 0 when none does.
frame_at(s, pos) == IF \E n \in DOMAIN s : s[n].start = pos
                      THEN CHOOSE n \in DOMAIN s : s[n].start = pos ELSE 0

\* Faulty variant: the version is not compared.
header_accepted_any_version(pos) == frame_at(requests, pos) # 0

\* FramedEndpoint::recv accepts the header: cells that are not a header
\* written by the sender do not start with the magic number.
header_accepted(pos) == /\ frame_at(requests, pos) # 0
                        /\ requests[frame_at(requests, pos)].header_ok

\* Bytes of the reply of Session::handle when it does not throw.
reply_width(type) == CASE type = "HELLO"        -> 16
                       [] type = "REQUEST_EVAL" -> 27
                       [] type = "GET_STATE"    -> 40
                       [] OTHER                 -> 9

\* Status replies: PROTOCOL_ERROR, INTERVENTION_FAILED and every plain status.
status_width == 9

\* Bytes of the reply that the caller's Reader takes.
client_reads(type) == CASE type \in {"HELLO", "PING"} -> 0
                        [] type = "REALIZE"           -> 9
                        [] type = "REQUEST_EVAL"      -> 27
                        [] type = "GET_STATE"         -> 40
                        [] OTHER                      -> 1

\* Handlers whose governor call may throw (overflow of an amount).
may_throw(type) == type \in {"REQUEST_EVAL", "REALIZE", "REVALIDATE"}

-----------------------------------------------------------------------------
Init == /\ requests = <<>> /\ replies = <<>>
        /\ written = [e \in Ends |-> 0]
        /\ read = [e \in Ends |-> 0]
        /\ at = [client |-> "idle", session |-> "header"]
        /\ from = [e \in Ends |-> 0]
        /\ handled = <<>> /\ answers = {}

\* A call of Client, or of the worker: the frame is encoded and send begins.
Call(f) ==
    /\ at["client"] = "idle" /\ Len(requests) < MaxRequests
    /\ requests' = Append(requests,
           [type |-> f.type, len |-> f.len, header_ok |-> f.header_ok,
            checksum_ok |-> f.checksum_ok, decodes |-> f.decodes,
            start |-> end(requests)])
    /\ at' = [at EXCEPT !["client"] = "send"]
    /\ UNCHANGED <<replies, written, read, from, handled, answers>>

\* One ::send of send_all; after the last one the end goes on to recv.
SendSome(e) ==
    /\ at[e] = "send"
    /\ \E k \in 1..Capacity :
        /\ written[e] + k <= end(stream(e))
        /\ written[e] + k <= read[e] + Capacity
        /\ written' = [written EXCEPT ![e] = @ + k]
        /\ at' = IF written[e] + k = end(stream(e))
                   THEN [at EXCEPT ![e] = "header"] ELSE at
    /\ UNCHANGED <<requests, replies, read, from, handled, answers>>

\* Faulty variant: the end stops where the code ignores the result.
SendFailsAndStops(e) ==
    /\ at[e] = "send" /\ at[peer(e)] = "closed"
    /\ at' = [at EXCEPT ![e] = "failed"]
    /\ UNCHANGED <<requests, replies, written, read, from, handled, answers>>

\* ::send fails on a connection the other end has closed.  Neither Client nor
\* Session::reply looks at the result: recv is called all the same.
SendFails(e) ==
    /\ at[e] = "send" /\ at[peer(e)] = "closed"
    /\ at' = [at EXCEPT ![e] = "header"]
    /\ UNCHANGED <<requests, replies, written, read, from, handled, answers>>

\* The cells e's recv_all asks for: up to the end of the header or the payload.
goal(e) ==
    IF at[e] = "header" THEN from[e] + HeaderSize
    ELSE from[e] + HeaderSize + stream(peer(e))[frame_at(stream(peer(e)), from[e])].len

\* One ::recv of recv_all, which takes k cells.
recv(e, k) ==
    /\ at[e] \in {"header", "payload"}
    /\ read[peer(e)] + k <= written[peer(e)]
    /\ read[peer(e)] + k <= goal(e)
    /\ read' = [read EXCEPT ![peer(e)] = @ + k]

\* The loop of recv_all goes on.
RecvSome(e) ==
    /\ \E k \in 1..Capacity : recv(e, k) /\ read[peer(e)] + k < goal(e)
    /\ UNCHANGED <<requests, replies, written, at, from, handled, answers>>

\* recv_all returns true.
recv_all(e) == \E k \in 1..Capacity : recv(e, k) /\ read[peer(e)] + k = goal(e)

\* Faulty variant: a session takes the end of the stream for a lost read.
RecvFailsAndGoesOn(e) ==
    /\ at[e] \in {"header", "payload"} /\ at[peer(e)] = "closed"
    /\ at' = [at EXCEPT ![e] = IF e = "client" THEN "closed" ELSE "header"]
    /\ UNCHANGED <<requests, replies, written, read, from, handled, answers>>

\* recv_all returns false: the other end closed the connection, at once when it
\* was reset (what is in flight is lost), after the cells in flight otherwise.
\* A session ends; a worker or a Client that reads its reply throws or stops,
\* and only the caller of HELLO goes on, to calls that fail in turn.
RecvFails(e) ==
    /\ at[e] \in {"header", "payload"} /\ at[peer(e)] = "closed"
    /\ at' = [at EXCEPT ![e] =
                 IF e = "client" /\ requests[Len(requests)].type = "HELLO"
                   THEN "idle" ELSE "closed"]
    /\ written' = [written EXCEPT ![peer(e)] = read[peer(e)]]
    /\ UNCHANGED <<requests, replies, read, from, handled, answers>>

\* The process of e is killed, or ends.
Kill(e) ==
    /\ at[e] # "closed"
    /\ at' = [at EXCEPT ![e] = "closed"]
    /\ UNCHANGED <<requests, replies, written, read, from, handled, answers>>

-----------------------------------------------------------------------------
\* Session::reply, after which the session reads from where it stopped.
reply(width, n) ==
    /\ replies' = Append(replies, [start |-> end(replies), len |-> 1,
                                   width |-> width, to |-> n])
    /\ at' = [at EXCEPT !["session"] = "send"]
    /\ from' = [from EXCEPT !["session"] = goal("session")]

this == frame_at(requests, from["session"])

\* The frame is whole: its header is accepted and all its payload is here.
whole == \/ at["session"] = "payload"
         \/ at["session"] = "header" /\ header_accepted(from["session"])
                                     /\ requests[this].len = 0

\* The header is accepted and announces a payload: recv reads that next.
SessionHeader ==
    /\ at["session"] = "header" /\ header_accepted(from["session"]) /\ ~whole
    /\ recv_all("session")
    /\ at' = [at EXCEPT !["session"] = "payload"]
    /\ UNCHANGED <<requests, replies, written, from, handled, answers>>

\* Faulty variant: a frame that is refused is skipped without a reply.
SessionRefusesSilently ==
    /\ IF at["session"] = "header" /\ ~header_accepted(from["session"])
         THEN TRUE ELSE whole /\ ~requests[this].checksum_ok
    /\ recv_all("session")
    /\ at' = [at EXCEPT !["session"] = "header"]
    /\ from' = [from EXCEPT !["session"] = goal("session")]
    /\ UNCHANGED <<requests, replies, written, handled, answers>>

\* recv throws: a refused header, its payload still unread, or a payload with
\* another checksum.  run replies PROTOCOL_ERROR and goes on.
SessionRefuses ==
    /\ IF at["session"] = "header" /\ ~header_accepted(from["session"])
         THEN TRUE ELSE whole /\ ~requests[this].checksum_ok
    /\ recv_all("session")
    /\ reply(status_width, this)
    /\ UNCHANGED <<requests, written, handled, answers>>

\* Faulty variant: a handler that has replied throws, and run replies again.
SessionHandlesTwice(throws) ==
    /\ whole /\ requests[this].checksum_ok
    /\ recv_all("session")
    /\ LET once == [start |-> end(replies), len |-> 1, width |-> status_width, to |-> this]
           again == [once EXCEPT !.start = @ + HeaderSize + 1]
       IN  replies' = replies \o (IF throws THEN <<once, again>> ELSE <<once>>)
    /\ at' = [at EXCEPT !["session"] = "send"]
    /\ from' = [from EXCEPT !["session"] = goal("session")]
    /\ handled' = Append(handled, this)
    /\ UNCHANGED <<requests, written, answers>>

\* The frame is handled.  A payload that ends too early, and a governor call
\* that throws, are answered INTERVENTION_FAILED by run.
SessionHandles(throws) ==
    /\ whole /\ requests[this].checksum_ok
    /\ requests[this].decodes /\ ~may_throw(requests[this].type) => ~throws
    /\ ~requests[this].decodes => throws
    /\ recv_all("session")
    /\ reply(IF throws THEN status_width ELSE reply_width(requests[this].type), this)
    /\ handled' = Append(handled, this)
    /\ UNCHANGED <<requests, written, answers>>

\* The header of a reply is here; replies are never empty and their frames are
\* the session's own.
ClientHeader ==
    /\ at["client"] = "header"
    /\ recv_all("client")
    /\ at' = [at EXCEPT !["client"] = "payload"]
    /\ UNCHANGED <<requests, replies, written, from, handled, answers>>

\* The reply is here.  The call returns what its Reader takes from the payload,
\* whatever the reply's type; a payload that is too short makes it throw, which
\* ends the process.
ClientAnswered ==
    /\ at["client"] = "payload"
    /\ recv_all("client")
    /\ LET a == replies[frame_at(replies, from["client"])]
           n == Len(requests)
       IN /\ answers' = answers \union {<<n, a.to>>}
          /\ at' = [at EXCEPT !["client"] =
                       IF client_reads(requests[n].type) <= a.width
                         THEN "idle" ELSE "closed"]
    /\ from' = [from EXCEPT !["client"] = goal("client")]
    /\ UNCHANGED <<requests, replies, written, handled>>

-----------------------------------------------------------------------------
\* What the code and the kernel do by themselves at one end.
Step(e) ==
    \/ SendSome(e) \/ SendFails(e) \/ RecvSome(e) \/ RecvFails(e)
    \/ e = "session" /\ (SessionHeader \/ SessionRefuses
                           \/ \E throws \in BOOLEAN : SessionHandles(throws))
    \/ e = "client" /\ (ClientHeader \/ ClientAnswered)

Next == \/ \E f \in Forms : Call(f)
        \/ \E e \in Ends : Step(e) \/ Kill(e)

Spec == Init /\ [][Next]_vars

\* Both threads run and the kernel delivers; nobody has to call or to die.
FairSpec == Spec /\ \A e \in Ends : WF_vars(Step(e))

-----------------------------------------------------------------------------
\* Types of the variables.
TypeOK ==
    /\ requests \in Seq(Frame) /\ replies \in Seq(Reply)
    /\ written \in [Ends -> Nat] /\ read \in [Ends -> Nat]
    /\ at \in [Ends -> At] /\ from \in [Ends -> Nat]
    /\ handled \in Seq(Nat) /\ answers \subseteq Nat \X Nat

WellFormed(n) == requests[n].header_ok /\ requests[n].checksum_ok

\* No frame was refused by its header alone while it had a payload: recv leaves
\* that payload in the stream, to be read as headers.
InStep == \A n \in DOMAIN requests : requests[n].header_ok \/ requests[n].len = 0

\* However the frames are cut up on their way, Session::run hands handle only
\* frames the client sent whole and well formed, each at most once and in the
\* order sent; and as long as the stream is in step it leaves none of them out.
\* (Out of step this rests on header_accepted: what is left of a payload does not
\* look like a header.)
HandledOnce ==
    /\ \A i \in DOMAIN handled : handled[i] \in DOMAIN requests /\ WellFormed(handled[i])
    /\ \A i, j \in DOMAIN handled : i < j => handled[i] < handled[j]
    /\ InStep => \A n \in DOMAIN requests :
          WellFormed(n) /\ requests[n].start < from["session"]
             => \E i \in DOMAIN handled : handled[i] = n

\* As long as the stream is in step, the reply a Client call takes for its own
\* was made for that call, refused and failed requests included: calls carry no
\* identifier, so one reply too many or too few would shift all later ones.
AnswersOwn == InStep => \A a \in answers : a[1] = a[2]

\* A call does not wait for ever: the client gets an answer, or it ends, though
\* either direction may be full.  (Out of step, a session that answers what is
\* left of a refused frame and a client that sends may each wait for the other.)
Answered == InStep /\ at["client"] \in {"send", "header", "payload"}
               ~> at["client"] \in {"idle", "closed"}

\* The session thread of a client that has gone ends, whatever it was doing.
SessionEnds == at["client"] = "closed" ~> at["session"] = "closed"
=============================================================================
