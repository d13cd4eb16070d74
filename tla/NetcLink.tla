------------------------------ MODULE NetcLink ------------------------------
(***************************************************************************)
(* The NETC link to a POWER server's FSP (src/vfs/lib/app-amester/         *)
(* netc.itcl): one TLS connection that is opened, authenticated, watched   *)
(* by timers, dropped and reopened, and the priority queue of IPMI         *)
(* requests that is drained through it one request at a time.              *)
(*                                                                         *)
(* Tcl is single threaded, so every handler (a file event, an "after"      *)
(* timer, a call of the client) is one action.  Abstracted: the bytes of   *)
(* a packet (a message is the funcop it carries), the delays of timers (an *)
(* armed timer may fire at any moment), and what a request's callback      *)
(* does (it is recorded in "answered"; what it sends is a later            *)
(* ipmi_send).  Timeouts are positive, as the defaults are.                *)
(***************************************************************************)
EXTENDS LinkQueue

CONSTANTS
    Tool,           \* the -tool option: "dev" or "MSGP"
    IdMod           \* netc_id is kept modulo IdMod

ControlMsgs == {"version", "password", "poll"}

ASSUME ControlAssumption == Requests \cap ControlMsgs = {}
ASSUME ToolAssumption == Tool \in {"dev", "MSGP"}
ASSUME IdModAssumption == IdMod \in Nat \ {0, 1}

VARIABLES
    netc_status,    \* "disconnected", "opening", "connected" or "closed"
    netc_sock,      \* a socket is open (netc_sock # 0 in the code)
    netc_id,        \* suffix of the client id shown to the FSP
    link,           \* what the GUI and scripts see: "up" or "down"
    netc_open_after,            \* the timer of the open is armed
    ipmi_health_after,          \* the health timer is armed
    netc_surveillance_after,    \* the surveillance timer is armed
    alive,          \* the object has not been deleted
    host,           \* messages of this connection the FSP has to answer
    rejected        \* history: the FSP refused the password

conn == <<netc_status, netc_sock, netc_id, link, netc_open_after>>
upkeep == <<ipmi_health_after, netc_surveillance_after>>
ambient == <<network, alive, rejected>>
vars == <<queue, conn, upkeep, ambient, host, issued>>

Init ==
    /\ QueueInit
    /\ netc_status = "disconnected"
    /\ netc_sock = FALSE
    /\ netc_id = 0
    /\ link = "down"
    /\ netc_open_after = FALSE
    \* init calls ipmi_health first; its first run is the first Health step
    /\ ipmi_health_after = TRUE
    /\ netc_surveillance_after = FALSE
    /\ alive = TRUE
    /\ host = {}
    /\ rejected = FALSE

\* A handler that ends in ipmi_dequeue: held is what the FSP still has to
\* answer of what it was sent before.
Dequeue(status, held) ==
    /\ ipmi_dequeue(ipmi_msgq, status)
    /\ host' = held \cup NewlySent

\* The client sends a request.
ipmi_send(r) ==
    /\ alive
    /\ ipmi_queue(r, netc_status)
    /\ host' = host \cup NewlySent
    /\ UNCHANGED <<conn, upkeep, ambient>>

-----------------------------------------------------------------------------
(* Closing and opening the connection *)

\* netc_close stops half way when there is no socket.
netc_close ==
    /\ netc_status' = "closed"
    /\ link' = "down"
    /\ netc_sock' = FALSE
    /\ \/ /\ netc_sock
          /\ TakeBack
          /\ netc_open_after' = FALSE
          /\ host' = {}
       \/ /\ ~netc_sock
          /\ UNCHANGED <<queue, netc_open_after, host>>

NextId == (netc_id + 1) % IdMod

Opened_Unwatched ==
    /\ netc_status' = "opening" /\ netc_sock' = TRUE /\ netc_id' = NextId
    /\ netc_open_after' = FALSE /\ host' = {"version"}
Opened_Unauthenticated ==
    /\ netc_status' = "connected" /\ netc_sock' = TRUE /\ netc_id' = NextId
    /\ netc_open_after' = TRUE /\ host' = {"version"}

\* netc_open once the socket and the TLS handshake have succeeded.
Opened ==
    /\ netc_status' = "opening"
    /\ netc_sock' = TRUE
    /\ netc_id' = NextId
    /\ netc_open_after' = TRUE
    /\ host' = {"version"}

\* netc_open by itself: nothing to do, success, no socket, no handshake (the
\* socket exists by then, so netc_close goes all the way).
netc_open ==
    \/ /\ netc_sock \/ netc_status = "opening"
       /\ UNCHANGED <<queue, conn, host>>
    \/ /\ ~netc_sock /\ netc_status # "opening"
       /\ \/ Opened /\ UNCHANGED <<queue, link>>
          \/ UNCHANGED <<queue, conn, host>>
          \/ /\ netc_status' = "closed"
             /\ link' = "down"
             /\ TakeBack
             /\ netc_open_after' = FALSE
             /\ host' = {}
             /\ UNCHANGED <<netc_sock, netc_id>>

\* netc_close followed by netc_open, the body of netc_timeout: after the
\* close there is never a socket, so the open is always attempted.
netc_timeout ==
    /\ link' = "down"
    /\ IF netc_sock THEN TakeBack ELSE UNCHANGED queue
    /\ \/ Opened
       \/ /\ netc_status' = "closed"
          /\ netc_sock' = FALSE
          /\ netc_open_after' = (netc_open_after /\ ~netc_sock)
          /\ host' = IF netc_sock THEN {} ELSE host
          /\ UNCHANGED netc_id

-----------------------------------------------------------------------------
(* Timers *)

OpenTimeout_GivesUp ==
    /\ netc_open_after /\ netc_open_after' = FALSE
    /\ UNCHANGED <<queue, netc_status, netc_sock, netc_id, link, upkeep, ambient, host, issued>>
RequestTimeout_GivesUp ==
    /\ request_after /\ request_after' = FALSE
    /\ UNCHANGED <<ipmi_msgq, inprogress, inprogress_q, answered, conn, upkeep, ambient, host, issued>>

\* The timer of the open, or of the request in progress, fires.
OpenTimeout ==
    /\ netc_open_after
    /\ netc_timeout
    /\ UNCHANGED <<upkeep, ambient, issued>>

RequestTimeout ==
    /\ request_after
    /\ netc_timeout
    /\ UNCHANGED <<upkeep, ambient, issued>>

\* The health timer rearms itself and then acts on the status.
ipmi_health ==
    /\ ipmi_health_after
    /\ \/ netc_status \in {"disconnected", "closed"} /\ netc_open
       \/ netc_status = "opening" /\ UNCHANGED <<queue, conn, host>>
       \/ /\ netc_status = "connected"
          /\ Dequeue(netc_status, host)
          /\ UNCHANGED conn
    /\ UNCHANGED <<upkeep, ambient, issued>>

\* netc_surveillance with the status given: rearmed only while it polls.
Surveil(status, held) ==
    IF Tool # "dev" /\ status \in {"connected", "opening"}
    THEN <<TRUE, held \cup {"poll"}>>
    ELSE <<FALSE, held>>

netc_surveillance ==
    /\ netc_surveillance_after
    /\ netc_surveillance_after' = Surveil(netc_status, host)[1]
    /\ host' = Surveil(netc_status, host)[2]
    /\ UNCHANGED <<queue, conn, ipmi_health_after, ambient, issued>>

-----------------------------------------------------------------------------
(* netc_process: what the FSP sends *)

\* 00070002 with status 0000: the version, authenticate next.
VersionAccepted ==
    LET held == (host \ {"version"}) \cup
                (IF netc_status = "opening" THEN {"password"} ELSE {})
    IN  /\ "version" \in host
        /\ Dequeue(netc_status, held)
        /\ UNCHANGED <<conn, upkeep, ambient, issued>>

\* 00070002 with any other status but 0025.
VersionRefused ==
    /\ "version" \in host
    /\ netc_close
    /\ UNCHANGED <<netc_id, upkeep, ambient, issued>>

\* 00070002 with status 0025: netc_close and netc_open run while the status
\* is decoded, then the failed version command closes the new connection.
ClientIdInUse ==
    /\ "version" \in host
    /\ netc_close
    /\ netc_id' \in {netc_id, NextId}
    /\ UNCHANGED <<upkeep, ambient, issued>>

\* 00077412 with status 0000.
PasswordAccepted ==
    LET watch == Surveil("connected", host \ {"password"})
    IN  /\ "password" \in host
        /\ netc_open_after' = FALSE
        /\ netc_status' = "connected"
        /\ link' = "up"
        /\ netc_surveillance_after' = watch[1]
        /\ Dequeue("connected", watch[2])
        /\ UNCHANGED <<netc_sock, netc_id, ipmi_health_after, ambient, issued>>

PasswordRejected_Retries ==
    /\ "password" \in host
    /\ netc_close
    /\ rejected' = TRUE
    /\ UNCHANGED <<netc_id, upkeep, network, alive, issued>>

\* 00077412 with any other status: no further attempt, or the FSP would lock
\* the password out.
PasswordRejected ==
    /\ "password" \in host
    /\ ipmi_health_after' = FALSE
    /\ netc_close
    /\ rejected' = TRUE
    /\ UNCHANGED <<netc_id, netc_surveillance_after, network, alive, issued>>

\* 000590e1: the answer to r.  processIpmi hands it to whatever heads
\* inprogress_q, sends the next request, and only then runs the callback.
IpmiAnswer(r) ==
    LET held == host \ {r}
    IN  /\ r \in host
        /\ \/ Answer(r, netc_status) /\ host' = held \cup NewlySent
           \/ /\ inprogress_q = <<>> \/ inprogress = None
              /\ Dequeue(netc_status, held)
        /\ UNCHANGED <<conn, upkeep, ambient, issued>>

\* 00050009: the polling frequency was set.
PollAnswer ==
    /\ "poll" \in host
    /\ Dequeue(netc_status, host \ {"poll"})
    /\ UNCHANGED <<conn, upkeep, ambient, issued>>

\* readMsg gets fewer than 8 bytes: the FSP closed the connection.
ConnectionLost ==
    /\ netc_sock
    /\ netc_timeout
    /\ UNCHANGED <<upkeep, ambient, issued>>

\* netc_send swallows a failed write, and the FSP may just not answer: only
\* a timer can tell.
NoAnswer ==
    /\ \E m \in host : host' = host \ {m}
    /\ UNCHANGED <<queue, conn, upkeep, ambient, issued>>

-----------------------------------------------------------------------------
(* The user *)

\* The "Receive network traffic" box of the GUI.
ToggleNetwork ==
    /\ network' = ~network
    /\ UNCHANGED <<queue, conn, upkeep, alive, rejected, host, issued>>

\* The destructor.
Destroy ==
    /\ alive
    /\ netc_close
    /\ alive' = FALSE
    /\ ipmi_health_after' = FALSE
    /\ netc_surveillance_after' = FALSE
    /\ UNCHANGED <<netc_id, network, rejected, issued>>

Timers == OpenTimeout \/ RequestTimeout \/ ipmi_health \/ netc_surveillance

FromFsp ==
    \/ VersionAccepted \/ VersionRefused \/ ClientIdInUse
    \/ PasswordAccepted \/ PasswordRejected
    \/ \E r \in Requests : IpmiAnswer(r)
    \/ PollAnswer
    \/ ConnectionLost
    \/ NoAnswer

Next ==
    \/ \E r \in Requests : ipmi_send(r)
    \/ Timers
    \/ FromFsp
    \/ ToggleNetwork
    \/ Destroy

Spec == Init /\ [][Next]_vars

\* The event loop runs every timer that stays armed.  Of the network it is
\* only assumed that it does not fail for ever: if opening is attempted, or a
\* message is left to answer, again and again, then some attempt succeeds.
Fairness ==
    /\ WF_vars(OpenTimeout) /\ WF_vars(RequestTimeout) /\ WF_vars(ipmi_health)
    /\ SF_vars(ipmi_health /\ netc_status' = "opening")
    /\ SF_vars(VersionAccepted) /\ SF_vars(PasswordAccepted)
    /\ \A r \in Requests : SF_vars(IpmiAnswer(r))

FairSpec == Spec /\ Fairness

-----------------------------------------------------------------------------
(* Properties *)

TypeOK ==
    /\ QueueTypeOK
    /\ netc_status \in {"disconnected", "opening", "connected", "closed"}
    /\ netc_sock \in BOOLEAN
    /\ netc_id \in 0 .. IdMod - 1
    /\ link \in {"up", "down"}
    /\ netc_open_after \in BOOLEAN
    /\ ipmi_health_after \in BOOLEAN
    /\ netc_surveillance_after \in BOOLEAN
    /\ alive \in BOOLEAN
    /\ rejected \in BOOLEAN
    /\ host \subseteq Requests \cup ControlMsgs

\* The status, the socket, the link shown to the user and what the FSP holds
\* tell the same story (netc_open, netc_close and netc_process each write
\* some of them, on many paths).
ConnectionConsistent ==
    /\ netc_sock <=> netc_status \in {"opening", "connected"}
    /\ link = "up" <=> netc_status = "connected"
    /\ host # {} => netc_sock

\* No timer outlives what it watches, and none is missing: a stale one would
\* close a later, healthy connection; a missing one would let a silent FSP
\* hang the link (the "after" and "after cancel" calls of netc.itcl).
TimersMatchState ==
    /\ netc_open_after <=> netc_status = "opening"
    /\ request_after <=> inprogress # None
    /\ ipmi_health_after <=> alive /\ ~rejected
    /\ netc_status = "connected" /\ Tool # "dev" => netc_surveillance_after

\* "Only 1 message is sent to the host at a time": the array and the list of
\* tags agree, and whatever the FSP may still answer is the request in
\* progress, so processIpmi hands an answer to the request it belongs to.
OneOutstanding ==
    /\ inprogress_q = IF inprogress = None THEN <<>> ELSE <<0>>
    /\ host \cap Requests \subseteq {inprogress}
    /\ inprogress # None => netc_status = "connected"

\* A deleted netc object leaves nothing behind that calls it back.
DeletedIsQuiet ==
    ~alive => ~(\/ netc_sock \/ request_after \/ netc_open_after
                \/ ipmi_health_after \/ netc_surveillance_after)

\* "Do not start new requests if network traffic is paused", on any path
\* that dequeues.
PausedSendsNothing == [][~network => host' \cap Requests \subseteq host]_vars

\* "We don't want to try opening the connection again, otherwise we might
\* lock out the password": no timer or late message reopens it.
RejectionIsFinal == [][rejected => ~netc_sock' /\ netc_id' = netc_id]_vars

\* Requests wait on a connected link with none in progress.
IdleBacklog ==
    /\ netc_status = "connected" /\ network
    /\ ipmi_msgq # <<>> /\ inprogress = None

\* No handler forgets to send the next request: only switching the network
\* back on leaves a backlog idle (until the next health timer).
NoForgottenBacklog == [][IdleBacklog' => IdleBacklog \/ ~network]_vars

\* A link that is neither deleted nor rejected comes back again and again.
Reconnects == <>[](alive /\ ~rejected) => []<>(netc_status = "connected")

\* On such a link, with the network switched on, every request is answered.
RequestsAnswered ==
    <>[](alive /\ ~rejected /\ network) =>
        \A r \in Requests : r \in ToSet(issued) ~> r \in ToSet(Served)
=============================================================================
