----------------------------- MODULE OpenbmcLink ----------------------------
(***************************************************************************)
(* The REST link to an OpenBMC (src/vfs/lib/app-amester/openbmc.itcl): a   *)
(* login over HTTP, then one HTTP request for each IPMI request of the     *)
(* queue.  Every HTTP request has a connection of its own, and what the    *)
(* code keeps as "the socket" is only the token of the latest one.         *)
(*                                                                         *)
(* Every handler is one action.  The login is http::geturl without         *)
(* -command, which waits in a nested event loop: starting it and its end   *)
(* are two actions, and any other handler may run between them.            *)
(* Abstracted: the contents of HTTP messages, the delays of timers, what a *)
(* request's callback does.                                                *)
(***************************************************************************)
EXTENDS LinkQueue

CONSTANTS
    Misfortunes,    \* what an instance may meet, besides a BMC that is silent:
                    \* "late", an answer that comes after openbmc_close, and
                    \* "send", http::geturl failing at once
    MaxCopies,      \* bound: HTTP requests pending for one IPMI request
    MaxLogins       \* bound: logins nested in one another

ASSUME MisfortunesAssumption == Misfortunes \subseteq SUBSET {"late", "send"}
ASSUME BoundsAssumption == MaxCopies \in Nat \ {0} /\ MaxLogins \in Nat \ {0}

VARIABLES
    openbmc_status, \* "disconnected", "connected" or "closed"
    openbmc_sock,   \* the token of an HTTP request is kept
    logins,         \* logins begun and not returned from
    link,           \* what the GUI and scripts see: "up" or "down"
    http,           \* for each request, its HTTP requests not answered yet
    ipmi_health_after,  \* the health timer is armed
    life,           \* "alive", "deleted" (the object) or "exited" (the tool)
    misfortunes     \* those of Misfortunes that this behaviour may meet

session == <<openbmc_status, link>>
rest == <<network, ipmi_health_after, life, misfortunes>>
vars == <<queue, session, openbmc_sock, logins, http, rest, issued>>

\* The constructor has tried one login, and init is about to call ipmi_health.
Init ==
    /\ QueueInit
    /\ \/ openbmc_status = "disconnected" /\ link = "down"
       \/ openbmc_status = "connected" /\ link = "up"
    /\ openbmc_sock = FALSE
    /\ logins = 0
    /\ http = [r \in Requests |-> 0]
    /\ ipmi_health_after = TRUE
    /\ life = "alive"
    /\ misfortunes \in Misfortunes

-----------------------------------------------------------------------------
(* Sending *)

\* openbmc_send for the request now in progress, if this step put one there:
\* the token is kept, or http::geturl failed and nothing says so.
openbmc_send(pending) ==
    \/ /\ http' = [r \in Requests |-> pending[r] + (IF r \in NewlySent THEN 1 ELSE 0)]
       /\ openbmc_sock' = (openbmc_sock \/ NewlySent # {})
    \/ /\ "send" \in misfortunes /\ NewlySent # {}
       /\ http' = pending
       /\ UNCHANGED openbmc_sock

\* The client sends a request.
ipmi_send(r) ==
    /\ life = "alive"
    /\ ipmi_queue(r, openbmc_status)
    /\ openbmc_send(http)
    /\ UNCHANGED <<session, logins, rest>>

-----------------------------------------------------------------------------
(* Closing and opening *)

\* The HTTP requests that outlive openbmc_close.
Cut == IF "late" \in misfortunes THEN http ELSE [r \in Requests |-> 0]

openbmc_close_KeepsToken ==
    /\ link' = "down" /\ openbmc_status' = "closed" /\ http' = Cut
    /\ UNCHANGED openbmc_sock
    /\ \/ openbmc_sock /\ TakeBack
       \/ ~openbmc_sock /\ UNCHANGED <<ipmi_msgq, inprogress, inprogress_q, answered>>

\* The token is no channel, so nothing is closed; with no token the request
\* in progress is left as it is.
openbmc_close ==
    /\ link' = "down"
    /\ openbmc_status' = "closed"
    /\ openbmc_sock' = FALSE
    /\ http' = Cut
    /\ \/ openbmc_sock /\ TakeBack
       \/ ~openbmc_sock /\ UNCHANGED <<ipmi_msgq, inprogress, inprogress_q, answered>>

\* openbmc_open up to its nested wait; s says whether a token is kept when it
\* is called.  The status is never "opening".
openbmc_open(s) ==
    \/ ~s /\ logins < MaxLogins /\ logins' = logins + 1
    \/ UNCHANGED logins

\* The rest of openbmc_open, when the innermost login returns.
LoginOk ==
    /\ life = "alive" /\ logins > 0
    /\ logins' = logins - 1
    /\ openbmc_status' = "connected"
    /\ link' = "up"
    /\ UNCHANGED <<queue, openbmc_sock, http, rest, issued>>

LoginFails ==
    /\ life = "alive" /\ logins > 0
    /\ logins' = logins - 1
    /\ UNCHANGED <<queue, session, openbmc_sock, http, rest, issued>>

-----------------------------------------------------------------------------
(* Timers *)

openbmc_timeout_GivesUp ==
    /\ life = "alive" /\ request_after
    /\ request_after' = FALSE
    /\ UNCHANGED <<ipmi_msgq, inprogress, inprogress_q, answered, session, openbmc_sock,
                   logins, http, rest, issued>>

openbmc_timeout ==
    /\ life = "alive" /\ request_after
    /\ \A r \in Requests : http[r] < MaxCopies
    /\ request_after' = FALSE
    /\ openbmc_close
    /\ openbmc_open(FALSE)
    /\ UNCHANGED <<rest, issued>>

ipmi_health ==
    /\ life = "alive" /\ ipmi_health_after
    /\ \/ /\ openbmc_status \in {"disconnected", "closed"}
          /\ openbmc_open(openbmc_sock)
          /\ UNCHANGED <<queue, openbmc_sock, http>>
       \/ /\ openbmc_status = "connected"
          /\ ipmi_dequeue(ipmi_msgq, openbmc_status)
          /\ openbmc_send(http)
          /\ UNCHANGED logins
    /\ UNCHANGED <<session, rest, issued>>

-----------------------------------------------------------------------------
(* What the BMC sends *)

\* openbmc_process with a good answer to an HTTP request made for r.  It goes
\* to the request in progress, whichever that is; with none, the tool exits.
openbmc_process(r) ==
    LET pending == [http EXCEPT ![r] = @ - 1]
    IN  /\ life = "alive" /\ http[r] > 0
        /\ \/ /\ Answer(r, openbmc_status)
              /\ openbmc_send(pending)
              /\ UNCHANGED <<session, logins, rest, issued>>
           \/ /\ inprogress_q = <<>> \/ inprogress = None
              /\ life' = "exited"
              /\ http' = pending
              /\ UNCHANGED <<queue, session, openbmc_sock, logins, network,
                             ipmi_health_after, misfortunes, issued>>

\* The request ends in an error, or its body is not what was expected: the
\* handler returns or fails before it looks at the queue.
BadAnswer(r) ==
    /\ life = "alive" /\ http[r] > 0
    /\ http' = [http EXCEPT ![r] = @ - 1]
    /\ UNCHANGED <<queue, session, openbmc_sock, logins, rest, issued>>

-----------------------------------------------------------------------------
(* The user *)

ToggleNetwork ==
    /\ network' = ~network
    /\ UNCHANGED <<queue, session, openbmc_sock, logins, http, ipmi_health_after, life,
                   misfortunes, issued>>

\* The destructor.
Destroy ==
    /\ life = "alive"
    /\ life' = "deleted"
    /\ openbmc_close
    /\ ipmi_health_after' = FALSE
    /\ ~openbmc_sock => UNCHANGED request_after
    /\ UNCHANGED <<logins, network, misfortunes, issued>>

FromBmc == \E r \in Requests : openbmc_process(r) \/ BadAnswer(r)

Next ==
    \/ \E r \in Requests : ipmi_send(r)
    \/ LoginOk \/ LoginFails
    \/ openbmc_timeout \/ ipmi_health
    \/ FromBmc
    \/ ToggleNetwork
    \/ Destroy

Spec == Init /\ [][Next]_vars

\* The event loop runs every armed timer.  The BMC may be away for as long as
\* it likes, but an attempt that is repeated for ever succeeds at last.
Fairness ==
    /\ WF_vars(openbmc_timeout)
    /\ WF_vars(ipmi_health)
    /\ SF_vars(ipmi_health /\ logins' > logins)
    /\ SF_vars(LoginOk)
    /\ \A r \in Requests : SF_vars(openbmc_process(r))

FairSpec == Spec /\ Fairness

-----------------------------------------------------------------------------
(* Properties *)

TypeOK ==
    /\ QueueTypeOK
    /\ openbmc_status \in {"disconnected", "connected", "closed"}
    /\ openbmc_sock \in BOOLEAN
    /\ logins \in 0 .. MaxLogins
    /\ link \in {"up", "down"}
    /\ http \in [Requests -> 0 .. MaxCopies]
    /\ ipmi_health_after \in BOOLEAN
    /\ life \in {"alive", "deleted", "exited"}
    /\ misfortunes \in Misfortunes

\* The link the user sees is up exactly while requests may be sent, and a
\* token is kept only then, so that a login that returns late (others may
\* have come and gone inside its wait) never contradicts them.
SessionConsistent ==
    /\ link = "up" <=> openbmc_status = "connected"
    /\ openbmc_sock => openbmc_status = "connected"

\* The tool ends because of an answer only if answers come late.
NeverExits == life = "exited" => "late" \in misfortunes

\* "Do nothing if we are waiting on a response from host": whenever the link
\* waits, a timer will end the wait even if the BMC is silent, and there is a
\* token, without which the close it makes would not take the request back,
\* unless sends fail.
WaitingIsReal ==
    life = "alive" /\ inprogress_q # <<>> /\ "send" \notin misfortunes =>
        request_after /\ openbmc_sock

\* Only late answers make the link break what it promises its clients.
ContractKept == [][Contract!Next \/ "late" \in misfortunes]_<<issued, answered>>

\* Without these misfortunes a request is answered at last while the object
\* lives and the network is on.
RequestsAnswered ==
    misfortunes = {} /\ <>[](life = "alive" /\ network) =>
        \A r \in Requests : r \in ToSet(issued) ~> r \in ToSet(Served)
=============================================================================
