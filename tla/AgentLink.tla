------------------------------ MODULE AgentLink -----------------------------
(***************************************************************************)
(* The link to a machine that runs the EMT agent (src/vfs/lib/app-amester/ *)
(* emtagent.itcl): a queue of IPMI requests, of which one at a time is     *)
(* sent as a message over a second link, a TCP connection with a message   *)
(* queue, timers and a health check of its own.  The older link to ameutil *)
(* (host.itcl) is that second link alone.                                  *)
(*                                                                         *)
(* Every handler is one action with all it calls, from the callback of a   *)
(* message down to a close when the next one cannot be written.  A         *)
(* request's callback may make a synchronous call and wait inside it.      *)
(* Abstracted: the text of messages, their tags (each is new), delays (the *)
(* "pause" button delays reading and nothing else), object creation.       *)
(***************************************************************************)
EXTENDS SyncCalls

VARIABLES
    network,        \* the user's switch for network traffic
    agent_status,   \* "disconnected", "opening", "connected", "timeout", "closed"
    agent_sock,     \* a socket is open
    open_after,     \* the open timer is armed (sockinfo, after_timeout)
    agent_msgq,     \* messages waiting, each named by its IPMI request
    sockcallback,   \* the messages written to the socket whose timer is armed
    replies,        \* the messages the agent has still to reply to, in order
    spoiled         \* history: "wait" when a callback made a synchronous call

requests == <<ipmi_msgq, inprogress>>
history == <<issued, answered>>
agent == <<agent_status, agent_sock, open_after, agent_msgq, sockcallback, replies>>
vars == <<requests, history, agent, waits, network, spoiled>>

Init ==
    /\ ipmi_msgq = <<>> /\ inprogress = None
    /\ issued = <<>> /\ answered = <<>>
    /\ agent_status = "disconnected"
    /\ agent_sock = FALSE
    /\ open_after = FALSE
    /\ agent_msgq = <<>>
    /\ sockcallback = {}
    /\ replies = <<>>
    /\ waits = <<>>
    /\ network = TRUE
    /\ spoiled = {}

\* The state of both links, as a value that handlers pass through the calls
\* they make.
Link == [waiting |-> ipmi_msgq, filed |-> inprogress,
         status |-> agent_status, sock |-> agent_sock, opening |-> open_after,
         messages |-> agent_msgq, timed |-> sockcallback, replies |-> replies]

LinkBecomes(l) ==
    /\ ipmi_msgq' = l.waiting /\ inprogress' = l.filed
    /\ agent_status' = l.status /\ agent_sock' = l.sock /\ open_after' = l.opening
    /\ agent_msgq' = l.messages /\ sockcallback' = l.timed /\ replies' = l.replies

-----------------------------------------------------------------------------
(* Messages *)

agent_close_KeepsTimer(l) ==
    IF l.sock
    THEN [l EXCEPT !.status = "closed", !.sock = FALSE, !.timed = {}, !.replies = <<>>]
    ELSE [l EXCEPT !.status = "closed"]

\* What was written is not sent again: the loop that would do so looks in
\* netsockcallback, and messages are filed in sockcallback.
agent_close(l) ==
    IF l.sock
    THEN [l EXCEPT !.status = "closed", !.sock = FALSE, !.opening = FALSE,
                   !.timed = {}, !.replies = <<>>]
    ELSE [l EXCEPT !.status = "closed"]

\* One message is written; if that does not work, the link is closed.
agent_write_msg(l, works) ==
    IF network /\ l.messages # <<>> /\ l.status = "connected"
    THEN LET r == Head(l.messages)
             taken == [l EXCEPT !.messages = Tail(@)]
         IN  IF works THEN [taken EXCEPT !.timed = @ \cup {r}, !.replies = Append(@, r)]
             ELSE agent_close(taken)
    ELSE l

\* A message is dropped while the network is off.
agent_send_msg(l, r, works) ==
    LET queued == [l EXCEPT !.messages = Append(@, r)]
    IN  IF ~network THEN l
        ELSE IF Len(queued.messages) = 1 THEN agent_write_msg(queued, works) ELSE queued

-----------------------------------------------------------------------------
(* Requests *)

ipmi_dequeue_Eager(l, works) ==
    IF l.waiting # <<>>
    THEN agent_send_msg([l EXCEPT !.waiting = Tail(@), !.filed = Head(l.waiting)],
                        Head(l.waiting), works)
    ELSE l

\* The most urgent request is filed under the only tag and its message sent.
ipmi_dequeue(l, works) ==
    IF l.waiting # <<>> /\ l.filed = None
    THEN agent_send_msg([l EXCEPT !.waiting = Tail(@), !.filed = Head(l.waiting)],
                        Head(l.waiting), works)
    ELSE l

ipmi_queue(l, r, works) ==
    LET queued == [l EXCEPT !.waiting = InsertLast(@, r)]
    IN  IF Len(queued.waiting) = 1 THEN ipmi_dequeue(queued, works) ELSE queued

Cleared(l) == [l EXCEPT !.filed = None]

New(r) == r \notin ToSet(issued) /\ issued' = Append(issued, r)

ipmi_send(r) ==
    /\ EventLoop
    /\ New(r)
    /\ \E works \in BOOLEAN : LinkBecomes(ipmi_queue(Link, r, works))
    /\ UNCHANGED <<answered, waits, network, spoiled>>

ipmi_send_sync(r) ==
    /\ EventLoop
    /\ New(r)
    /\ \E works \in BOOLEAN : LinkBecomes(ipmi_queue(Link, r, works))
    /\ waits' = Append(waits, Wait(r, None))
    /\ UNCHANGED <<answered, network, spoiled>>

-----------------------------------------------------------------------------
(* The connection *)

\* agent_open, which may raise an error before it has a socket.
agent_open(l, works) ==
    IF works THEN [l EXCEPT !.status = "opening", !.sock = TRUE, !.opening = TRUE] ELSE l

\* The socket is connected, and the first waiting message is written.
agent_open_callback ==
    /\ EventLoop /\ agent_sock /\ agent_status \in {"opening", "timeout"}
    /\ \E works \in BOOLEAN :
           LinkBecomes(agent_write_msg([Link EXCEPT !.status = "connected", !.opening = FALSE],
                                       works))
    /\ UNCHANGED <<history, waits, network, spoiled>>

\* The socket could not be connected, or is closed at the other end: both read
\* handlers, of an opening socket and of a connected one, close it.
ConnectionLost ==
    /\ EventLoop /\ agent_sock
    /\ LinkBecomes(agent_close(Link))
    /\ UNCHANGED <<history, waits, network, spoiled>>

agent_open_timeout ==
    /\ EventLoop /\ open_after
    /\ open_after' = FALSE
    /\ agent_status' = "timeout"
    /\ UNCHANGED <<requests, history, agent_sock, agent_msgq, sockcallback, replies, waits,
                   network, spoiled>>

agent_msg_timeout ==
    /\ EventLoop /\ sockcallback # {}
    /\ LinkBecomes(agent_close(Link))
    /\ UNCHANGED <<history, waits, network, spoiled>>

agent_health_NeverWrites ==
    /\ EventLoop
    /\ \E works \in BOOLEAN :
           LinkBecomes(CASE agent_status \in {"disconnected", "closed"} -> agent_open(Link, works)
                         [] agent_status = "timeout" -> agent_close(Link)
                         [] OTHER -> Link)
    /\ UNCHANGED <<history, waits, network, spoiled>>

\* The two health timers, always armed: of the connection, and of the requests.
agent_health ==
    /\ EventLoop
    /\ \E works \in BOOLEAN :
           LinkBecomes(CASE agent_status \in {"disconnected", "closed"} -> agent_open(Link, works)
                         [] agent_status = "connected" -> agent_write_msg(Link, works)
                         [] agent_status = "timeout" -> agent_close(Link)
                         [] agent_status = "opening" -> Link)
    /\ UNCHANGED <<history, waits, network, spoiled>>

ipmi_health ==
    /\ EventLoop
    /\ \E works \in BOOLEAN : LinkBecomes(ipmi_dequeue(Link, works))
    /\ UNCHANGED <<history, waits, network, spoiled>>

-----------------------------------------------------------------------------
(* agent_process_msg: a line is read *)

\* The link when a line is read, and when the message's timer is cancelled.
LineRead == [Link EXCEPT !.replies = Tail(@)]
Received == [LineRead EXCEPT !.timed = @ \ {Head(replies)}]

Line == EventLoop /\ agent_status = "connected" /\ replies # <<>>

\* A comment of the agent, like its welcome: the next message is written.
CommentLine ==
    /\ EventLoop /\ agent_status = "connected"
    /\ \E works \in BOOLEAN : LinkBecomes(agent_write_msg(Link, works))
    /\ UNCHANGED <<history, waits, network, spoiled>>

\* While the network is off the line is thrown away; the timer goes on.
LineDropped ==
    /\ Line /\ ~network
    /\ LinkBecomes(LineRead)
    /\ UNCHANGED <<history, waits, network, spoiled>>

EmptyReply_NotCleared ==
    /\ Line /\ network /\ inprogress # None
    /\ \E works \in BOOLEAN :
           LinkBecomes(agent_write_msg(ipmi_queue(Received, inprogress, works), works))
    /\ UNCHANGED <<history, waits, network, spoiled>>

\* ipmi_process with an empty result queues the request again.
EmptyReply ==
    /\ Line /\ network /\ inprogress # None
    /\ \E works \in BOOLEAN :
           LinkBecomes(agent_write_msg(ipmi_queue(Cleared(Received), inprogress, works), works))
    /\ UNCHANGED <<history, waits, network, spoiled>>

\* ipmi_process with an answer, and a callback that does not wait.
Reply ==
    /\ Line /\ network /\ inprogress # None
    /\ answered' = Append(answered, Callback(inprogress, Head(replies)))
    /\ \E works \in BOOLEAN :
           LinkBecomes(agent_write_msg(ipmi_dequeue(Cleared(Received), works), works))
    /\ UNCHANGED <<issued, waits, network, spoiled>>

\* ipmi_process fails on a reply that is no answer, such as the text of an
\* error in the agent: the timer is cancelled, and the request stays on file.
ReplyFails ==
    /\ Line /\ network /\ inprogress # None
    /\ \E works \in BOOLEAN : LinkBecomes(agent_write_msg(Received, works))
    /\ UNCHANGED <<history, waits, network, spoiled>>

\* The callback makes the synchronous call r while its own request is on file.
ReplyWaits(r) ==
    /\ Line /\ network /\ inprogress \notin Waiting \cup {None}
    /\ New(r)
    /\ answered' = Append(answered, Callback(inprogress, Head(replies)))
    /\ waits' = Append(waits, Wait(r, inprogress))
    /\ \E works \in BOOLEAN : LinkBecomes(ipmi_queue(Received, r, works))
    /\ spoiled' = spoiled \cup {"wait"}
    /\ UNCHANGED network

\* The innermost call has its answer, and its caller goes on.  A callback never
\* gets there: what it waits for is not sent while its request is on file.
CallReturns ==
    /\ Returning /\ Last(waits).inside = None
    /\ waits' = Front(waits)
    /\ UNCHANGED <<requests, history, agent, network, spoiled>>

-----------------------------------------------------------------------------
ToggleNetwork ==
    /\ network' = ~network
    /\ UNCHANGED <<requests, history, agent, waits, spoiled>>

Next ==
    \/ \E r \in Requests : ipmi_send(r) \/ ipmi_send_sync(r)
    \/ agent_open_callback \/ ConnectionLost
    \/ agent_open_timeout \/ agent_msg_timeout
    \/ agent_health \/ ipmi_health
    \/ CommentLine \/ LineDropped \/ EmptyReply \/ ReplyFails \/ Reply
    \/ \E r \in Requests : ReplyWaits(r)
    \/ CallReturns
    \/ ToggleNetwork

Spec == Init /\ [][Next]_vars

\* The event loop runs every timer, reads every line and returns from vwait.
\* The machine may be away for as long as it likes, but not for ever, and the
\* agent does not answer every attempt with nothing.
Fairness ==
    /\ WF_vars(agent_health) /\ WF_vars(ipmi_health)
    /\ WF_vars(agent_open_timeout) /\ WF_vars(agent_msg_timeout)
    /\ SF_vars(agent_health /\ agent_status' = "opening")
    /\ SF_vars(agent_open_callback /\ agent_status' = "connected")
    /\ SF_vars(Reply \/ \E r \in Requests : ReplyWaits(r))
    /\ WF_vars(CallReturns)

FairSpec == Spec /\ Fairness

-----------------------------------------------------------------------------
(* Properties *)

TypeOK ==
    /\ ipmi_msgq \in Seq(Requests)
    /\ inprogress \in Requests \cup {None}
    /\ issued \in Seq(Requests)
    /\ answered \in Seq([request : Requests, answer : Requests])
    /\ agent_status \in {"disconnected", "opening", "connected", "timeout", "closed"}
    /\ agent_sock \in BOOLEAN
    /\ open_after \in BOOLEAN
    /\ agent_msgq \in Seq(Requests)
    /\ sockcallback \subseteq Requests
    /\ replies \in Seq(Requests)
    /\ WaitsTypeOK({})
    /\ network \in BOOLEAN
    /\ spoiled \subseteq {"wait"}

\* Status, socket and timers agree: an attempt to open is given up by its own
\* timer and no later one, and so is every message a reply is awaited to, which
\* is the message of the request on file.
Watched ==
    /\ open_after <=> agent_status = "opening"
    /\ agent_sock <=> agent_status \in {"opening", "connected", "timeout"}
    /\ sockcallback # {} => agent_status = "connected"
    /\ ToSet(replies) \subseteq sockcallback
    /\ ToSet(agent_msgq \o replies) \subseteq {inprogress}
    /\ Len(agent_msgq \o replies) =< 1

\* The request on file has no message under way, and its callback is not
\* running: nothing will ever take it, or any other request, further.
Stranded ==
    /\ inprogress # None
    /\ ~Interrupted(inprogress)
    /\ agent_msgq = <<>> /\ replies = <<>>

\* A request is stranded only when a connection closes, as its message is
\* written or before the reply is read, when its message or the reply is dropped
\* while the network is off, or when its reply is no answer.
StrandedOnlyByFault ==
    [][Stranded' =>
        Stranded \/ ~network \/ (agent_sock /\ ~agent_sock') \/ ReplyFails]_vars

\* Every request is answered and every call returns, through refused and lost
\* connections, empty replies and pauses, unless a request is stranded, be it by
\* a reply that is no answer, or a callback waits.
CallsReturn ==
    [](spoiled = {} /\ ~Stranded) /\ <>[]network =>
        /\ []<>(waits = <<>>)
        /\ \A r \in Requests : r \in ToSet(issued) ~> r \in ToSet(Served)

\* "Remove storage for this sock and repost all callback messages": a message
\* whose reply is awaited when the connection closes is queued again.
Reposted ==
    [][agent_status' = "closed" /\ network =>
        ToSet(replies) \subseteq ToSet(agent_msgq')]_vars
=============================================================================
