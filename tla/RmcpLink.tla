------------------------------ MODULE RmcpLink ------------------------------
(***************************************************************************)
(* The RMCP+ link to a rack-mount server's BMC (src/vfs/lib/app-amester/   *)
(* rmcp.itcl): sessions set up by a handshake over UDP, timers that drop   *)
(* them, and the request queue that is drained through them.               *)
(*                                                                         *)
(* Every handler is one action, except where it waits in a nested event    *)
(* loop: the handler of the last handshake packet asks for the admin       *)
(* privilege by a synchronous request, and a request's callback may make   *)
(* one.  Their second halves are the actions that return from the wait.    *)
(* Abstracted: the bytes of packets, delays, what else a callback does.    *)
(***************************************************************************)
EXTENDS SyncCalls

CONSTANTS
    Privileges,     \* the requests for the admin privilege, one a session
    MaxFaults       \* bound: what the network and the BMC do wrong

ASSUME PrivilegesAssumption == Privileges \subseteq Requests
ASSUME BoundAssumption == MaxFaults \in Nat

\* What the BMC answers in the handshake, in order: ASF pong, channel
\* authentication capabilities, open session response, RAKP 2, RAKP 4.
Handshake == <<"pong", "caps", "session", "rakp2", "rakp4">>

ASSUME HandshakeAssumption == Requests \cap (ToSet(Handshake) \cup {"handshake"}) = {}
ASSUME NoneAssumption == None # "handshake"

VARIABLES
    rmcp_status,    \* "disconnected", "opening", "connected" or "closed"
    rmcp_sock,      \* a socket is open (rmcp_sock # 0 in the code)
    rmcp_open_after,    \* the timer of that name is armed
    request_after,  \* the timer filed with the request in progress is armed
    stale_after,    \* armed timers that no variable names any more
    host,           \* answers on their way to the present socket
    faults,         \* what went wrong so far, up to MaxFaults
    spoiled         \* history: "wait" when a callback made a synchronous
                    \* call, "duplicate" when an answer came twice, "ping"
                    \* when a socket was opened and the ping not sent

queue == <<ipmi_msgq, inprogress, request_after>>
history == <<issued, answered>>
session == <<rmcp_status, rmcp_sock, rmcp_open_after>>
vars == <<queue, history, session, stale_after, host, waits, faults, spoiled>>

Init ==
    /\ ipmi_msgq = <<>> /\ inprogress = None /\ request_after = FALSE
    /\ issued = <<>> /\ answered = <<>>
    /\ rmcp_status = "disconnected"
    /\ rmcp_sock = FALSE
    /\ rmcp_open_after = FALSE
    /\ stale_after = 0
    /\ host = {}
    /\ waits = <<>>
    /\ faults = 0
    /\ spoiled = {}

Fault == faults < MaxFaults /\ faults' = faults + 1
Fine == UNCHANGED faults

-----------------------------------------------------------------------------
(* The queue *)

ipmi_dequeue_Twice(q, filed, timer, status, held) ==
    IF q # <<>> /\ status = "connected"
    THEN /\ inprogress' = Head(q) /\ ipmi_msgq' = Tail(q)
         /\ request_after' = TRUE /\ host' = held \cup {Head(q)}
    ELSE ipmi_msgq' = q /\ inprogress' = filed /\ request_after' = timer /\ host' = held

\* ipmi_dequeue when the queue is q, the request filed in the array is "filed",
\* "timer" says whether its timer is armed, and "held" is on its way.
ipmi_dequeue(q, filed, timer, status, held) ==
    IF q # <<>> /\ status = "connected" /\ filed = None
    THEN /\ inprogress' = Head(q)
         /\ ipmi_msgq' = Tail(q)
         /\ request_after' = TRUE
         /\ host' = held \cup {Head(q)}
    ELSE /\ ipmi_msgq' = q
         /\ inprogress' = filed
         /\ request_after' = timer
         /\ host' = held

\* ipmi_queue, which sends only what finds the queue empty.
ipmi_queue(r, status, held) ==
    LET q == InsertLast(ipmi_msgq, r)
    IN  /\ r \notin ToSet(issued)
        /\ issued' = Append(issued, r)
        /\ \/ Len(q) = 1 /\ ipmi_dequeue(q, inprogress, request_after, status, held)
           \/ /\ Len(q) # 1
              /\ ipmi_msgq' = q
              /\ host' = held
              /\ UNCHANGED <<inprogress, request_after>>

\* A script, the GUI or another timer makes a call, synchronous or not.
ipmi_send(r) ==
    /\ EventLoop /\ r \notin Privileges
    /\ ipmi_queue(r, rmcp_status, host)
    /\ UNCHANGED <<answered, session, stale_after, waits, faults, spoiled>>

ipmi_send_sync(r) ==
    /\ EventLoop /\ r \notin Privileges
    /\ ipmi_queue(r, rmcp_status, host)
    /\ waits' = Append(waits, Wait(r, None))
    /\ UNCHANGED <<answered, session, stale_after, faults, spoiled>>

-----------------------------------------------------------------------------
(* Opening and closing *)

\* rmcp_open finds a socket; or gets none; or gets one and fails with an error
\* to set its address or to send the ping; or begins the handshake, with a
\* timer whose variable may still hold an earlier one.
rmcp_open ==
    \/ rmcp_sock /\ UNCHANGED <<session, stale_after, host, spoiled>>
    \/ ~rmcp_sock /\ UNCHANGED <<session, stale_after, host, spoiled>>
    \/ /\ ~rmcp_sock
       /\ rmcp_sock' = TRUE
       /\ spoiled' = spoiled \cup {"ping"}
       /\ UNCHANGED <<rmcp_status, rmcp_open_after, stale_after, host>>
    \/ /\ ~rmcp_sock
       /\ rmcp_sock' = TRUE
       /\ rmcp_status' = "opening"
       /\ host' = {"pong"}
       /\ rmcp_open_after' = TRUE
       /\ stale_after' = stale_after + (IF rmcp_open_after THEN 1 ELSE 0)
       /\ UNCHANGED spoiled

rmcp_close_Loses ==
    /\ rmcp_status' = "closed" /\ rmcp_sock' = FALSE
    /\ inprogress' = None /\ request_after' = FALSE /\ host' = {}
    /\ UNCHANGED ipmi_msgq

rmcp_close_BehindAll ==
    /\ rmcp_status' = "closed" /\ rmcp_sock' = FALSE
    /\ ipmi_msgq' = IF inprogress = None THEN ipmi_msgq ELSE InsertLast(ipmi_msgq, inprogress)
    /\ inprogress' = None /\ request_after' = FALSE /\ host' = {}

\* The request in progress goes back to the front.  The open timer is left
\* armed, and answers to the old socket go nowhere.
rmcp_close ==
    /\ rmcp_status' = "closed"
    /\ rmcp_sock' = FALSE
    /\ \/ /\ rmcp_sock
          /\ ipmi_msgq' = IF inprogress = None THEN ipmi_msgq
                          ELSE InsertFirst(ipmi_msgq, inprogress)
          /\ inprogress' = None
          /\ request_after' = FALSE
          /\ host' = {}
       \/ ~rmcp_sock /\ UNCHANGED <<queue, host>>

-----------------------------------------------------------------------------
(* Timers *)

\* A timer gives up an answer that is still coming only by a fault.
Expire == IF host = {} THEN Fine ELSE Fault

\* rmcp_timeout, by the timer of rmcp_open.
OpenTimeout ==
    /\ EventLoop /\ rmcp_open_after
    /\ rmcp_open_after' = FALSE
    /\ Expire
    /\ rmcp_close
    /\ UNCHANGED <<history, stale_after, waits, spoiled>>

\* rmcp_timeout, by the timer of the request in progress.
RequestTimeout ==
    /\ EventLoop /\ request_after
    /\ Expire
    /\ rmcp_close
    /\ UNCHANGED <<history, rmcp_open_after, stale_after, waits, spoiled>>

\* rmcp_timeout, by a timer set for an earlier session or request.
StaleTimeout ==
    /\ EventLoop /\ stale_after > 0
    /\ stale_after' = stale_after - 1
    /\ rmcp_close
    /\ UNCHANGED <<history, rmcp_open_after, waits, faults, spoiled>>

\* The health timer, which is always armed.
ipmi_health ==
    /\ EventLoop
    /\ \/ /\ rmcp_status \in {"disconnected", "closed"}
          /\ rmcp_open
          /\ UNCHANGED queue
       \/ /\ rmcp_status = "connected"
          /\ ipmi_dequeue(ipmi_msgq, inprogress, request_after, rmcp_status, host)
          /\ UNCHANGED <<session, stale_after, spoiled>>
    /\ UNCHANGED <<history, waits, faults>>

-----------------------------------------------------------------------------
(* What the BMC sends: rmcp_process *)

\* A packet of the handshake but the last: the next one is asked for.  Only
\* the first two handlers look at the status.
HandshakeGoesOn(i) ==
    /\ EventLoop /\ Handshake[i] \in host
    /\ i \in {1, 2} => rmcp_status = "opening"
    /\ host' = (host \ {Handshake[i]}) \cup {Handshake[i + 1]}
    /\ UNCHANGED <<queue, history, session, stale_after, waits, faults, spoiled>>

\* The capabilities come with a completion code other than 0.
CapsRefused ==
    /\ EventLoop /\ "caps" \in host
    /\ Fault
    /\ rmcp_close
    /\ UNCHANGED <<history, rmcp_open_after, stale_after, waits, spoiled>>

\* A packet is not what was expected or says that its step failed: nothing is
\* done, and nothing comes.
HandshakeRefused(i) ==
    /\ EventLoop /\ Handshake[i] \in host
    /\ Fault
    /\ host' = host \ {Handshake[i]}
    /\ UNCHANGED <<queue, history, session, stale_after, waits, spoiled>>

NextPrivilege == CHOOSE p \in Privileges : p \notin ToSet(issued)

HandshakeDone_NoCancel ==
    /\ EventLoop /\ "rakp4" \in host
    /\ rmcp_status' = "connected"
    /\ ipmi_queue(NextPrivilege, "connected", host \ {"rakp4"})
    /\ waits' = Append(waits, Wait(NextPrivilege, "handshake"))
    /\ UNCHANGED <<answered, rmcp_sock, rmcp_open_after, stale_after, faults, spoiled>>

\* RAKP 4: connected, and the handler waits for the admin privilege.
HandshakeDone ==
    /\ EventLoop /\ "rakp4" \in host
    /\ Privileges \ ToSet(issued) # {}
    /\ rmcp_status' = "connected"
    /\ rmcp_open_after' = FALSE
    /\ ipmi_queue(NextPrivilege, "connected", host \ {"rakp4"})
    /\ waits' = Append(waits, Wait(NextPrivilege, "handshake"))
    /\ UNCHANGED <<answered, rmcp_sock, stale_after, faults, spoiled>>

\* The handler goes on when the privilege was granted or refused, whatever
\* has become of its session since.
HandshakeReturns ==
    /\ Returning /\ Last(waits).inside = "handshake"
    /\ waits' = Front(waits)
    /\ \/ /\ ipmi_dequeue(ipmi_msgq, inprogress, request_after, rmcp_status, host)
          /\ UNCHANGED <<session, faults>>
       \/ /\ Fault
          /\ rmcp_close
          /\ UNCHANGED rmcp_open_after
    /\ UNCHANGED <<history, stale_after, spoiled>>

\* The answer to a is on hand, and stays so if the datagram comes twice.
Receive(a, held) ==
    /\ EventLoop /\ a \in host
    /\ \/ held = host \ {a} /\ Fine /\ UNCHANGED spoiled
       \/ held = host /\ Fault /\ spoiled' = spoiled \cup {"duplicate"}

\* An answer to a: it goes to the request in progress, whichever that is.
Answer(a) ==
    \E held \in {host, host \ {a}} :
        /\ Receive(a, held)
        /\ inprogress # None
        /\ answered' = Append(answered, Callback(inprogress, a))
        /\ ipmi_dequeue(ipmi_msgq, None, FALSE, rmcp_status, held)
        /\ UNCHANGED <<issued, session, stale_after, waits>>

\* The same, when its callback sends r synchronously: the request answered is
\* still filed, its timer is not armed any more, and r has to wait for it.
AnswerWaits(a, r) ==
    /\ EventLoop /\ a \in host
    /\ inprogress \notin Waiting \cup Privileges \cup {None}
    /\ r \notin Privileges \cup ToSet(issued)
    /\ answered' = Append(answered, Callback(inprogress, a))
    /\ issued' = Append(issued, r)
    /\ ipmi_msgq' = InsertLast(ipmi_msgq, r)
    /\ request_after' = FALSE
    /\ waits' = Append(waits, Wait(r, inprogress))
    /\ host' = host \ {a}
    /\ spoiled' = spoiled \cup {"wait"}
    /\ UNCHANGED <<inprogress, session, stale_after, faults>>

\* Such a callback returns: whatever is filed now is cleared, and its timer,
\* if armed, is not cancelled.
CallbackReturns ==
    /\ Returning /\ Last(waits).inside \in Requests
    /\ waits' = Front(waits)
    /\ stale_after' = stale_after + (IF request_after THEN 1 ELSE 0)
    /\ ipmi_dequeue(ipmi_msgq, None, FALSE, rmcp_status, host)
    /\ UNCHANGED <<history, session, faults, spoiled>>

\* An answer when nothing is in progress.
UnknownAnswer(a) ==
    \E held \in {host, host \ {a}} :
        /\ Receive(a, held)
        /\ inprogress = None
        /\ ipmi_dequeue(ipmi_msgq, None, FALSE, rmcp_status, held)
        /\ UNCHANGED <<history, session, stale_after, waits>>

\* A caller outside of any handler of the link goes on.
CallReturns ==
    /\ Returning /\ Last(waits).inside = None
    /\ waits' = Front(waits)
    /\ UNCHANGED <<queue, history, session, stale_after, host, faults, spoiled>>

-----------------------------------------------------------------------------
Client == \E r \in Requests : ipmi_send(r) \/ ipmi_send_sync(r)

Timers == OpenTimeout \/ RequestTimeout \/ StaleTimeout \/ ipmi_health

HandshakePacket ==
    \/ \E i \in 1 .. 4 : HandshakeGoesOn(i)
    \/ CapsRefused
    \/ \E i \in DOMAIN Handshake : HandshakeRefused(i)
    \/ HandshakeDone

AnswerPacket ==
    \/ \E a \in Requests : Answer(a) \/ UnknownAnswer(a)
    \/ \E a, r \in Requests : AnswerWaits(a, r)

Returns == HandshakeReturns \/ CallbackReturns \/ CallReturns

Next == Client \/ Timers \/ HandshakePacket \/ AnswerPacket \/ Returns

Spec == Init /\ [][Next]_vars

\* The event loop runs every timer and reads every packet, and vwait returns.
\* Opening a socket does not fail for ever, and of handshakes begun again and
\* again some one gets through before a timer of an earlier one drops it.
Fairness ==
    /\ WF_vars(OpenTimeout) /\ WF_vars(RequestTimeout) /\ WF_vars(ipmi_health)
    /\ SF_vars(ipmi_health /\ rmcp_status' = "opening")
    /\ \A i \in 1 .. 4 : SF_vars(HandshakeGoesOn(i))
    /\ SF_vars(HandshakeDone)
    /\ WF_vars(AnswerPacket) /\ WF_vars(Returns)

FairSpec == Spec /\ Fairness

-----------------------------------------------------------------------------
(* Properties *)

TypeOK ==
    /\ ipmi_msgq \in Seq(Requests)
    /\ inprogress \in Requests \cup {None}
    /\ request_after \in BOOLEAN
    /\ issued \in Seq(Requests)
    /\ answered \in Seq([request : Requests, answer : Requests])
    /\ rmcp_status \in {"disconnected", "opening", "connected", "closed"}
    /\ rmcp_sock \in BOOLEAN
    /\ rmcp_open_after \in BOOLEAN
    /\ stale_after \in Nat
    /\ host \subseteq Requests \cup ToSet(Handshake)
    /\ WaitsTypeOK({"handshake"})
    /\ faults \in 0 .. MaxFaults
    /\ spoiled \subseteq {"wait", "duplicate", "ping"}

\* Whatever the link waits for is given up by a timer: a handshake that stalls,
\* and a request whose answer does not come, unless it has come and its
\* callback has not returned.  No open timer outlives the opening it is for.
Watched ==
    /\ rmcp_status = "opening" => rmcp_sock /\ rmcp_open_after
    /\ rmcp_status = "connected" => rmcp_sock /\ ~rmcp_open_after
    /\ inprogress # None =>
        rmcp_status = "connected" /\ (request_after \/ Interrupted(inprogress))

\* Neither lost packets, nor sessions dropped by timers of earlier ones, nor
\* waits inside the handshake make the link break its contract: only a
\* datagram that comes twice or a callback that waits does.
ContractKept == [][spoiled' \subseteq {"ping"} => Contract!Next]_<<issued, answered>>

\* However often a session is dropped, no request is lost, unless a callback
\* waits: what is filed meanwhile is cleared when it returns.
NoneLost == "wait" \notin spoiled => NothingLost

\* Requests of one priority are served in the order in which they were sent,
\* however often the session is dropped and opened again, and though answers
\* may come twice, unless a callback waits.
ServedInOrder == "wait" \notin spoiled => KeepsOrder(WholeLine, issued, Requests)

\* So the line of the link has every request sent exactly once, those of one
\* priority in the order they were sent, also when the second copy of an answer
\* ends a request in the place of its own answer, which then ends another.
LineKept == NoneLost /\ ServedInOrder

\* A request is put in progress only when none more urgent is waiting.
MostUrgentFirst ==
    [][inprogress' \notin {inprogress, None} =>
        \A r \in ToSet(ipmi_msgq') : Priority[inprogress'] =< Priority[r]]_queue

\* "Try to re-open host": a link that is down can be opened, since rmcp_open
\* does nothing while there is a socket.
DownHasNoSocket == rmcp_status \in {"disconnected", "closed"} => ~rmcp_sock

\* Every request is answered and every synchronous call returns, however they
\* are nested, unless a callback waits, a datagram comes twice or the ping
\* cannot be sent.
CallsReturn ==
    [](spoiled = {}) =>
        /\ []<>(waits = <<>>)
        /\ \A r \in Requests : r \in ToSet(issued) ~> r \in ToSet(Served)
=============================================================================
