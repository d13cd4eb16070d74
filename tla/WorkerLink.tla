----------------------------- MODULE WorkerLink -----------------------------
(***************************************************************************)
(* The links that hand requests to a worker thread: localhost, which runs  *)
(* an IPMI program on the machine itself (src/vfs/lib/app-amester/         *)
(* local.itcl), and openpower, which runs ipmitool against a BMC           *)
(* (openpower.itcl).  Their queues are the same but for three things, and  *)
(* the model is of both: openpower stops when the network is switched off, *)
(* drops a reply nobody waits for, and sends the next request before it    *)
(* runs the callback of the last one.                                      *)
(*                                                                         *)
(* No request has a timer.  Every handler is one action, except that a     *)
(* callback may make a synchronous call and wait inside its handler.       *)
(* Abstracted: the programs, their output, statistics, object creation.    *)
(***************************************************************************)
EXTENDS SyncCalls

VARIABLES
    kind,       \* "localhost" or "openpower"
    network,    \* the user's switch for network traffic
    worker,     \* the requests posted to the thread and not replied to
    spoiled     \* history: "worker" when the thread failed without a reply,
                \* "wait" when a callback on a localhost made a synchronous call

queue == <<ipmi_msgq, inprogress, worker>>
history == <<issued, answered>>
vars == <<queue, history, waits, kind, network, spoiled>>

Init ==
    /\ kind \in {"localhost", "openpower"}
    /\ ipmi_msgq = <<>> /\ inprogress = None
    /\ issued = <<>> /\ answered = <<>>
    /\ worker = <<>>
    /\ waits = <<>>
    /\ network = TRUE
    /\ spoiled = {}

-----------------------------------------------------------------------------
(* The queue, as a value that handlers pass through several changes *)

Link == [waiting |-> ipmi_msgq, filed |-> inprogress, posted |-> worker]

LinkBecomes(l) == ipmi_msgq' = l.waiting /\ inprogress' = l.filed /\ worker' = l.posted

ipmi_dequeue_Eager(l) ==
    IF l.waiting # <<>> /\ (kind = "openpower" => network)
    THEN [waiting |-> Tail(l.waiting),
          filed |-> Head(l.waiting),
          posted |-> Append(l.posted, Head(l.waiting))]
    ELSE l

\* The most urgent request is filed under the only tag and posted.
ipmi_dequeue(l) ==
    IF l.waiting # <<>> /\ l.filed = None /\ (kind = "openpower" => network)
    THEN [waiting |-> Tail(l.waiting),
          filed |-> Head(l.waiting),
          posted |-> Append(l.posted, Head(l.waiting))]
    ELSE l

\* Only a request that finds the queue empty is sent from here.
ipmi_queue(l, r) ==
    LET queued == [l EXCEPT !.waiting = InsertLast(@, r)]
    IN  IF Len(queued.waiting) = 1 THEN ipmi_dequeue(queued) ELSE queued

Cleared(l) == [l EXCEPT !.filed = None]

New(r) == r \notin ToSet(issued) /\ issued' = Append(issued, r)

ipmi_send(r) ==
    /\ EventLoop
    /\ New(r)
    /\ LinkBecomes(ipmi_queue(Link, r))
    /\ UNCHANGED <<answered, waits, kind, network, spoiled>>

ipmi_send_sync(r) ==
    /\ EventLoop
    /\ New(r)
    /\ LinkBecomes(ipmi_queue(Link, r))
    /\ waits' = Append(waits, Wait(r, None))
    /\ UNCHANGED <<answered, kind, network, spoiled>>

\* The health timer, which is always armed.
ipmi_health ==
    /\ EventLoop
    /\ LinkBecomes(ipmi_dequeue(Link))
    /\ UNCHANGED <<history, waits, kind, network, spoiled>>

-----------------------------------------------------------------------------
(* The worker thread *)

\* The link when the reply to the oldest request posted is read.
Replied == [Link EXCEPT !.posted = Tail(@)]

\* The program cannot be started: the thread gives up on the request, and no
\* reply is ever posted.
WorkerFails ==
    /\ worker # <<>>
    /\ worker' = Tail(worker)
    /\ spoiled' = spoiled \cup {"worker"}
    /\ UNCHANGED <<ipmi_msgq, inprogress, history, waits, kind, network>>

EmptyReply_NotCleared ==
    /\ EventLoop /\ worker # <<>> /\ inprogress # None
    /\ LinkBecomes(ipmi_queue(Replied, inprogress))
    /\ UNCHANGED <<history, waits, kind, network, spoiled>>

\* ipmi_process with an empty result: the request is queued again, behind
\* those of its priority, and the handler returns.
EmptyReply ==
    /\ EventLoop /\ worker # <<>> /\ inprogress # None
    /\ LinkBecomes(ipmi_queue(Cleared(Replied), inprogress))
    /\ UNCHANGED <<history, waits, kind, network, spoiled>>

\* ipmi_process with an answer, and a callback that does not wait.
Reply ==
    /\ EventLoop /\ worker # <<>> /\ inprogress # None
    /\ answered' = Append(answered, Callback(inprogress, Head(worker)))
    /\ LinkBecomes(ipmi_dequeue(Cleared(Replied)))
    /\ UNCHANGED <<issued, waits, kind, network, spoiled>>

ReplyWaits_AsLocalhost(r) ==
    /\ EventLoop /\ worker # <<>> /\ inprogress \notin Waiting \cup {None}
    /\ New(r)
    /\ answered' = Append(answered, Callback(inprogress, Head(worker)))
    /\ waits' = Append(waits, Wait(r, inprogress))
    /\ LinkBecomes(ipmi_queue(Replied, r))
    /\ spoiled' = IF kind = "openpower" THEN spoiled ELSE spoiled \cup {"wait"}
    /\ UNCHANGED <<kind, network>>

\* The callback makes the synchronous call r: a localhost still has the
\* request answered on file, openpower has gone on to the next one.
ReplyWaits(r) ==
    /\ EventLoop /\ worker # <<>> /\ inprogress \notin Waiting \cup {None}
    /\ New(r)
    /\ answered' = Append(answered, Callback(inprogress, Head(worker)))
    /\ waits' = Append(waits, Wait(r, inprogress))
    /\ \/ /\ kind = "openpower"
          /\ LinkBecomes(ipmi_queue(ipmi_dequeue(Cleared(Replied)), r))
          /\ UNCHANGED spoiled
       \/ /\ kind = "localhost"
          /\ LinkBecomes(ipmi_queue(Replied, r))
          /\ spoiled' = spoiled \cup {"wait"}
    /\ UNCHANGED <<kind, network>>

\* The innermost call has its answer and its caller goes on; if that is a
\* callback on a localhost, so does the handler that runs it.
CallReturns ==
    /\ Returning
    /\ waits' = Front(waits)
    /\ LinkBecomes(IF kind = "localhost" /\ Last(waits).inside # None
                   THEN ipmi_dequeue(Cleared(Link)) ELSE Link)
    /\ UNCHANGED <<history, kind, network, spoiled>>

-----------------------------------------------------------------------------
ToggleNetwork ==
    /\ network' = ~network
    /\ UNCHANGED <<queue, history, waits, kind, spoiled>>

Next ==
    \/ \E r \in Requests : ipmi_send(r) \/ ipmi_send_sync(r)
    \/ ipmi_health
    \/ WorkerFails \/ EmptyReply \/ Reply
    \/ \E r \in Requests : ReplyWaits(r)
    \/ CallReturns
    \/ ToggleNetwork

Spec == Init /\ [][Next]_vars

\* The event loop runs the health timer and reads replies, vwait returns, and
\* a program that is run for ever does not fail for ever.
Fairness ==
    /\ WF_vars(ipmi_health)
    /\ SF_vars(Reply \/ \E r \in Requests : ReplyWaits(r))
    /\ WF_vars(CallReturns)

FairSpec == Spec /\ Fairness

-----------------------------------------------------------------------------
(* Properties *)

TypeOK ==
    /\ kind \in {"localhost", "openpower"}
    /\ network \in BOOLEAN
    /\ ipmi_msgq \in Seq(Requests)
    /\ inprogress \in Requests \cup {None}
    /\ worker \in Seq(Requests)
    /\ issued \in Seq(Requests)
    /\ answered \in Seq([request : Requests, answer : Requests])
    /\ WaitsTypeOK({})
    /\ spoiled \subseteq {"worker", "wait"}

\* Replies carry only the tag, the same for all requests: the thread works on
\* the one request on file, or the thread has failed, or the callback of the
\* request on file is still waiting.
OneTask ==
    \/ worker = IF inprogress = None THEN <<>> ELSE <<inprogress>>
    \/ worker = <<>> /\ ("worker" \in spoiled \/ Interrupted(inprogress))

\* Every request is answered and every call returns, however they are nested,
\* and on openpower from callbacks too, unless the thread fails or, on a
\* localhost, a callback waits.
CallsReturn ==
    [](spoiled = {}) /\ <>[](kind = "openpower" => network) =>
        /\ []<>(waits = <<>>)
        /\ \A r \in Requests : r \in ToSet(issued) ~> r \in ToSet(Served)
=============================================================================
