--------------------------- MODULE NetcLinkProofs ---------------------------
(***************************************************************************)
(* Safety of NetcLink, for every set of requests, priorities and tool.     *)
(* The invariant Inv is inductive.  Its queue half, QueueInv, is kept by   *)
(* the operators of LinkQueue; the connection half ties the status to the  *)
(* socket, the timers and what the FSP holds.  On it rest the accounting   *)
(* of the requests, the refinement of RequestContract, the order in which  *)
(* requests are served and the backlog that no handler forgets.            *)
(***************************************************************************)
EXTENDS NetcLink, RequestQueueProofs

\* The queue, the request in progress and its timer, by themselves.
QueueInv ==
    /\ ipmi_msgq \in Seq(Requests)
    /\ inprogress \in Requests \cup {None}
    /\ inprogress_q = IF inprogress = None THEN <<>> ELSE <<0>>
    /\ request_after = (inprogress # None)
    /\ answered \in Seq(Callbacks)
    /\ AnswersMatch

-----------------------------------------------------------------------------
(* The queue half of the invariant *)

\* Sending the head of the queue, with every faked request before it.
LEMMA TransmitKeepsQueue ==
    ASSUME RequestsAssumption,
           answered \in Seq(Callbacks), AnswersMatch,
           NEW q \in Seq(Requests),
           NEW done \in Seq(Callbacks),
           \A i \in DOMAIN done : done[i].request = done[i].answer,
           Transmit(q, done)
    PROVE  QueueInv'
<1> DEFINE n == LeadingFakes(q)
           fakes == [i \in 1 .. n |-> Callback(q[n + 1 - i], q[n + 1 - i])]
<1>1. n \in 0 .. Len(q)
    BY CountInQueue DEF LeadingFakes
<1>2. ipmi_msgq' \in Seq(Requests)
    <2>0. ipmi_msgq' = SubSeq(q, n + 2, Len(q))
        BY DEF Transmit
    <2> HIDE DEF n
    <2>1. /\ n + 2 \in Int /\ Len(q) \in Int
          /\ \A k \in n + 2 .. Len(q) : q[k] \in Requests
        BY <1>1
    <2> QED
        BY <2>0, <2>1, SubSeqProperties
<1>3. /\ fakes \in Seq(Callbacks)
      /\ \A i \in DOMAIN fakes : fakes[i].request = fakes[i].answer
    <2> HIDE DEF n
    <2>1. \A i \in 1 .. n : n + 1 - i \in 1 .. Len(q)
        BY <1>1
    <2>2. \A i \in 1 .. n : q[n + 1 - i] \in Requests
        BY <2>1
    <2>3. \A i \in 1 .. n : /\ fakes[i] \in Callbacks
                            /\ fakes[i].request = fakes[i].answer
        BY <2>2 DEF Callback, Callbacks
    <2>4. fakes \in [1 .. n -> Callbacks] /\ n \in Nat
        BY <1>1, <2>3
    <2>5. DOMAIN fakes = 1 .. n
        OBVIOUS
    <2> HIDE DEF fakes
    <2> QED
        BY <2>3, <2>4, <2>5, SeqDef
<1>4. answered' \in Seq(Callbacks) /\ AnswersMatch'
    <2>1. /\ answered \o fakes \in Seq(Callbacks)
          /\ \A i \in DOMAIN (answered \o fakes) :
                (answered \o fakes)[i].request = (answered \o fakes)[i].answer
        BY <1>3, CallbacksAppended DEF AnswersMatch
    <2>2. answered' = (answered \o fakes) \o done
        BY DEF Transmit
    <2> HIDE DEF fakes
    <2> QED
        BY <2>1, <2>2, CallbacksAppended DEF AnswersMatch
<1>5. n < Len(q) => q[n + 1] \in Requests
    BY <1>1
<1> HIDE DEF n
<1>6. \/ /\ n < Len(q)
         /\ inprogress' = q[n + 1]
         /\ inprogress_q' = <<0>>
         /\ request_after' = TRUE
      \/ /\ inprogress' = None
         /\ inprogress_q' = <<>>
         /\ request_after' = FALSE
    BY DEF Transmit, n
<1> QED
    BY <1>2, <1>4, <1>5, <1>6 DEF QueueInv, RequestsAssumption

\* ipmi_dequeue, wherever a handler calls it: it sends only what the guards
\* allow, and nothing while a request is in progress.
LEMMA DequeueKeepsQueue ==
    ASSUME RequestsAssumption, QueueInv,
           NEW q \in Seq(Requests), NEW status,
           ipmi_dequeue(q, status)
    PROVE  /\ QueueInv'
           /\ inprogress' # inprogress => inprogress = None /\ status = "connected" /\ network
<1>1. CASE CanTransmit(q, status) /\ inprogress_q = <<>> /\ inprogress = None
    <2>1. Transmit(q, <<>>) /\ status = "connected" /\ network
        BY <1>1 DEF ipmi_dequeue, CanTransmit
    <2>2. <<>> \in Seq(Callbacks) /\ \A i \in DOMAIN <<>> : <<>>[i].request = <<>>[i].answer
        OBVIOUS
    <2>3. answered \in Seq(Callbacks) /\ AnswersMatch
        BY DEF QueueInv
    <2>4. QueueInv'
        BY <2>1, <2>2, <2>3, TransmitKeepsQueue
    <2> QED
        BY <1>1, <2>1, <2>4
<1>2. CASE ~(CanTransmit(q, status) /\ inprogress_q = <<>> /\ inprogress = None)
    BY <1>2 DEF ipmi_dequeue, QueueInv, AnswersMatch
<1> QED
    BY <1>1, <1>2

\* A new request, sent at once or left to wait.
LEMMA NewRequestKeepsQueue ==
    ASSUME RequestsAssumption, QueueInv, issued \in Seq(Requests),
           NEW r \in Requests, NEW status, ipmi_queue(r, status)
    PROVE  /\ QueueInv'
           /\ issued' \in Seq(Requests)
           /\ inprogress' # inprogress => inprogress = None /\ status = "connected" /\ network
<1> DEFINE q == InsertLast(ipmi_msgq, r)
<1>1. q \in Seq(Requests)
    BY InsertIsQueue DEF QueueInv
<1>2. issued' \in Seq(Requests)
    BY AppendProperties DEF ipmi_queue
<1>3. \/ ipmi_dequeue(q, status)
      \/ ipmi_msgq' = q /\ UNCHANGED <<inprogress, inprogress_q, request_after, answered>>
    BY DEF ipmi_queue
<1> HIDE DEF q
<1>4. CASE ipmi_dequeue(q, status)
    BY <1>1, <1>2, <1>4, DequeueKeepsQueue
<1>5. CASE ipmi_msgq' = q /\ UNCHANGED <<inprogress, inprogress_q, request_after, answered>>
    BY <1>1, <1>2, <1>5 DEF QueueInv, AnswersMatch
<1> QED
    BY <1>3, <1>4, <1>5

\* A close taking back the request in progress.
LEMMA TakeBackKeepsQueue ==
    ASSUME RequestsAssumption, QueueInv, TakeBack
    PROVE  QueueInv' /\ inprogress' = None
<1>1. ipmi_msgq' \in Seq(Requests)
    BY InsertIsQueue DEF TakeBack, QueueInv
<1> QED
    BY <1>1 DEF TakeBack, QueueInv, AnswersMatch

\* The answer to the request in progress: it is cleared, the next request is
\* sent, and its own callback runs with its own answer.
LEMMA AnswerKeepsQueue ==
    ASSUME RequestsAssumption, QueueInv, NEW status, inprogress \in Requests,
           Answer(inprogress, status)
    PROVE  /\ QueueInv'
           /\ inprogress' # None => status = "connected" /\ network
<1> DEFINE c == Callback(inprogress, inprogress)
<1>1. c \in Callbacks /\ c.request = c.answer
    BY DEF Callback, Callbacks
<1>2. ipmi_msgq \in Seq(Requests) /\ answered \in Seq(Callbacks) /\ AnswersMatch
    BY DEF QueueInv
<1>3. \/ CanTransmit(ipmi_msgq, status) /\ Transmit(ipmi_msgq, <<c>>)
      \/ /\ inprogress' = None
         /\ inprogress_q' = Tail(inprogress_q)
         /\ request_after' = FALSE
         /\ answered' = Append(answered, c)
         /\ UNCHANGED ipmi_msgq
    BY DEF Answer
<1> HIDE DEF c
<1>4. CASE CanTransmit(ipmi_msgq, status) /\ Transmit(ipmi_msgq, <<c>>)
    <2> DEFINE done == <<c>>
    <2>1. done \in Seq(Callbacks) /\ \A i \in DOMAIN done : done[i].request = done[i].answer
        BY <1>1
    <2>2. Transmit(ipmi_msgq, done)
        BY <1>4
    <2> HIDE DEF done
    <2>3. QueueInv'
        BY <1>2, <2>1, <2>2, TransmitKeepsQueue
    <2> QED
        BY <1>4, <2>3 DEF CanTransmit
<1>5. CASE /\ inprogress' = None
           /\ inprogress_q' = Tail(inprogress_q)
           /\ request_after' = FALSE
           /\ answered' = Append(answered, c)
           /\ UNCHANGED ipmi_msgq
    <2>1. /\ answered' \in Seq(Callbacks) /\ Len(answered') = Len(answered) + 1
          /\ \A i \in 1 .. Len(answered) : answered'[i] = answered[i]
          /\ answered'[Len(answered) + 1] = c
        BY <1>1, <1>2, <1>5, AppendProperties
    <2>2. \A i \in 1 .. Len(answered) : answered[i].request = answered[i].answer
        BY <1>2 DEF AnswersMatch
    <2>3. \A i \in 1 .. Len(answered) + 1 : answered'[i].request = answered'[i].answer
        <3>1. Len(answered) \in Nat
            BY <1>2
        <3>2. \A i \in 1 .. Len(answered) + 1 : i \in 1 .. Len(answered) \/ i = Len(answered) + 1
            BY <3>1
        <3> QED
            BY <1>1, <2>1, <2>2, <3>2
    <2>4. answered' \in Seq(Callbacks) /\ AnswersMatch'
        BY <2>1, <2>3 DEF AnswersMatch
    <2>5. inprogress_q' = <<>>
        <3>1. Tail(<<0>>) = <<>>
            OBVIOUS
        <3> QED
            BY <1>5, <3>1 DEF QueueInv, RequestsAssumption
    <2> QED
        BY <1>2, <1>5, <2>4, <2>5 DEF QueueInv
<1> QED
    BY <1>3, <1>4, <1>5

\* What a link still has to show of its queue for its type invariant.
LEMMA QueueTyped ==
    ASSUME QueueInv, network \in BOOLEAN, issued \in Seq(Requests)
    PROVE  QueueTypeOK
<1>1. <<>> \in Seq({0}) /\ <<0>> \in Seq({0})
    OBVIOUS
<1>2. inprogress_q = <<>> \/ inprogress_q = <<0>>
    BY DEF QueueInv
<1>3. request_after \in BOOLEAN
    BY DEF QueueInv
<1> QED
    BY <1>1, <1>2, <1>3 DEF QueueInv, QueueTypeOK, Callbacks

-----------------------------------------------------------------------------
(* The connection half *)

Messages == Requests \cup ControlMsgs

\* What the FSP may hold belongs to this connection, and to one request.
HostInv ==
    /\ host \in SUBSET Messages
    /\ host \cap Requests \subseteq {inprogress}
    /\ host # {} => netc_sock
    /\ inprogress # None => netc_status = "connected"

\* The connection and its timers; a deleted object and a rejected password
\* leave it closed for good.
ConnInv ==
    /\ netc_status \in {"disconnected", "opening", "connected", "closed"}
    /\ netc_id \in 0 .. IdMod - 1
    /\ link = IF netc_status = "connected" THEN "up" ELSE "down"
    /\ netc_sock <=> netc_status \in {"opening", "connected"}
    /\ netc_open_after <=> netc_status = "opening"
    /\ network \in BOOLEAN /\ alive \in BOOLEAN /\ rejected \in BOOLEAN
    /\ netc_sock \in BOOLEAN /\ netc_open_after \in BOOLEAN
    /\ ipmi_health_after \in BOOLEAN /\ netc_surveillance_after \in BOOLEAN
    /\ ipmi_health_after <=> alive /\ ~rejected
    /\ netc_status = "connected" /\ Tool # "dev" => netc_surveillance_after
    /\ rejected \/ ~alive => netc_status = "closed"
    /\ ~alive => ~netc_surveillance_after

Inv ==
    /\ QueueInv
    /\ HostInv
    /\ ConnInv
    /\ issued \in Seq(Requests)

-----------------------------------------------------------------------------
(* The actions *)

LEMMA InitInv == Init => Inv
<1> SUFFICES ASSUME Init PROVE Inv
    OBVIOUS
<1>1. 0 \in 0 .. IdMod - 1
    BY IdModAssumption
<1>2. QueueInv /\ issued \in Seq(Requests)
    <2>1. <<>> \in Seq(Requests) /\ <<>> \in Seq(Callbacks) /\ DOMAIN <<>> = {}
        OBVIOUS
    <2>2. AnswersMatch
        BY <2>1 DEF Init, QueueInit, AnswersMatch
    <2> QED
        BY <2>1, <2>2 DEF Init, QueueInit, QueueInv
<1>3. HostInv
    BY DEF Init, QueueInit, HostInv
<1>4. ConnInv
    BY <1>1 DEF Init, QueueInit, ConnInv
<1> QED
    BY <1>2, <1>3, <1>4 DEF Inv

LEMMA NextIdType ==
    ASSUME netc_id \in 0 .. IdMod - 1
    PROVE  NextId \in 0 .. IdMod - 1
BY IdModAssumption DEF NextId

\* The FSP is sent the request that has become the one in progress, if any.
LEMMA SentIsInProgress ==
    ASSUME RequestsAssumption, ControlAssumption, QueueInv',
           NEW held \in SUBSET Messages, held \cap Requests \subseteq {inprogress},
           inprogress' # inprogress => inprogress = None,
           host' = held \cup NewlySent
    PROVE  /\ host' \in SUBSET Messages
           /\ host' \cap Requests \subseteq {inprogress'}
           /\ host' \ Requests = held \ Requests
<1>1. NewlySent = IF inprogress' = inprogress \/ inprogress' = None THEN {} ELSE {inprogress'}
    BY DEF NewlySent
<1>2. inprogress' = inprogress \/ held \cap Requests = {}
    BY DEF RequestsAssumption
<1>3. inprogress' \in Requests \cup {None}
    BY DEF QueueInv
<1> QED
    BY <1>1, <1>2, <1>3 DEF Messages

\* A new request.
LEMMA SendKeepsInv ==
    ASSUME Inv, NEW r \in Requests, ipmi_send(r)
    PROVE  Inv'
<1> USE RequestsAssumption, ControlAssumption
<1>1. ConnInv'
    BY DEF ipmi_send, Inv, ConnInv, conn, upkeep, ambient
<1>2. /\ QueueInv'
      /\ issued' \in Seq(Requests)
      /\ inprogress' # inprogress => inprogress = None /\ netc_status = "connected" /\ network
    BY NewRequestKeepsQueue DEF ipmi_send, Inv
<1>3. /\ host' \in SUBSET Messages
      /\ host' \cap Requests \subseteq {inprogress'}
      /\ host' \ Requests = host \ Requests
    BY <1>2, SentIsInProgress DEF ipmi_send, Inv, HostInv
<1>4. HostInv'
    BY <1>1, <1>2, <1>3 DEF ipmi_send, Inv, HostInv, ConnInv, conn
<1> QED
    BY <1>1, <1>2, <1>4 DEF Inv

\* netc_close leaves the queue whole and the connection closed.
LEMMA CloseEffect ==
    ASSUME Inv, netc_close
    PROVE  /\ QueueInv' /\ HostInv'
           /\ netc_status' = "closed" /\ link' = "down"
           /\ netc_sock' = FALSE /\ netc_open_after' = FALSE
<1> USE RequestsAssumption, ControlAssumption
<1>1. CASE netc_sock
    <2>1. QueueInv' /\ inprogress' = None
        BY <1>1, TakeBackKeepsQueue DEF netc_close, Inv
    <2>2. host' = {} /\ netc_open_after' = FALSE
        BY <1>1 DEF netc_close
    <2> QED
        BY <2>1, <2>2 DEF netc_close, HostInv
<1>2. CASE ~netc_sock
    <2>1. UNCHANGED <<queue, netc_open_after, host>>
        BY <1>2 DEF netc_close
    <2>2. host = {} /\ inprogress = None /\ netc_open_after = FALSE
        BY <1>2 DEF Inv, HostInv, ConnInv
    <2> QED
        BY <2>1, <2>2 DEF netc_close, Inv, QueueInv, HostInv, AnswersMatch, queue
<1> QED
    BY <1>1, <1>2 DEF Inv, ConnInv

\* netc_close; netc_open, the body of netc_timeout, on a link that is still
\* allowed to open: it ends "opening" with a fresh timer, or closed.
LEMMA TimeoutKeepsInv ==
    ASSUME Inv, netc_sock, netc_timeout, UNCHANGED <<upkeep, ambient, issued>>
    PROVE  Inv'
<1> USE RequestsAssumption, ControlAssumption
<1>1. QueueInv' /\ inprogress' = None
    BY TakeBackKeepsQueue DEF netc_timeout, Inv
<1>2. netc_status # "closed" /\ alive /\ ~rejected /\ ipmi_health_after
    BY DEF Inv, ConnInv
<1>3. CASE Opened
    <2>1. HostInv'
        BY <1>1, <1>3 DEF Opened, HostInv, Messages, ControlMsgs
    <2>2. ConnInv'
        BY <1>2, <1>3, NextIdType DEF Opened, netc_timeout, Inv, ConnInv, upkeep, ambient
    <2> QED
        BY <1>1, <2>1, <2>2 DEF Inv
<1>4. CASE ~Opened
    <2>1. /\ netc_status' = "closed" /\ netc_sock' = FALSE /\ host' = {}
          /\ netc_open_after' = FALSE /\ netc_id' = netc_id /\ link' = "down"
        BY <1>4 DEF netc_timeout
    <2>2. HostInv'
        BY <1>1, <2>1 DEF HostInv
    <2>3. ConnInv'
        BY <1>2, <2>1 DEF Inv, ConnInv, upkeep, ambient
    <2> QED
        BY <1>1, <2>2, <2>3 DEF Inv
<1> QED
    BY <1>3, <1>4

\* The open that the health timer attempts on a closed link.
LEMMA OpenKeepsInv ==
    ASSUME Inv, ipmi_health_after, netc_open, UNCHANGED <<upkeep, ambient, issued>>
    PROVE  Inv'
<1> USE RequestsAssumption, ControlAssumption
<1>1. alive /\ ~rejected
    BY DEF Inv, ConnInv
<1>2. CASE UNCHANGED <<queue, conn, host>>
    BY <1>2 DEF Inv, QueueInv, AnswersMatch, HostInv, ConnInv, queue, conn, upkeep, ambient
<1>3. CASE ~netc_sock /\ Opened /\ UNCHANGED <<queue, link>>
    <2>1. QueueInv' /\ inprogress' = None /\ link' = "down"
        BY <1>3 DEF Inv, QueueInv, HostInv, ConnInv, AnswersMatch, queue
    <2>2. HostInv'
        BY <1>3, <2>1 DEF Opened, HostInv, Messages, ControlMsgs
    <2>3. ConnInv'
        BY <1>1, <1>3, <2>1, NextIdType DEF Opened, Inv, ConnInv, upkeep, ambient
    <2> QED
        BY <2>1, <2>2, <2>3 DEF Inv
<1>4. CASE /\ ~netc_sock /\ netc_status' = "closed" /\ link' = "down" /\ TakeBack
           /\ netc_open_after' = FALSE /\ host' = {} /\ UNCHANGED <<netc_sock, netc_id>>
    <2>1. QueueInv' /\ inprogress' = None
        BY <1>4, TakeBackKeepsQueue DEF Inv
    <2>2. HostInv'
        BY <1>4, <2>1 DEF HostInv
    <2>3. ConnInv'
        BY <1>1, <1>4 DEF Inv, ConnInv, upkeep, ambient
    <2> QED
        BY <2>1, <2>2, <2>3 DEF Inv
<1> QED
    BY <1>2, <1>3, <1>4 DEF netc_open

\* A handler that ends in ipmi_dequeue and leaves the connection alone.
LEMMA DequeueKeepsInv ==
    ASSUME Inv, NEW held \in SUBSET Messages,
           held \cap Requests \subseteq {inprogress}, held # {} => netc_sock,
           Dequeue(netc_status, held),
           UNCHANGED <<conn, upkeep, ambient, issued>>
    PROVE  Inv'
<1> USE RequestsAssumption, ControlAssumption
<1>0. /\ QueueInv'
      /\ inprogress' # inprogress => inprogress = None /\ netc_status = "connected" /\ network
    BY DequeueKeepsQueue DEF Dequeue, Inv, QueueInv
<1>1. /\ host' \in SUBSET Messages
      /\ host' \cap Requests \subseteq {inprogress'}
      /\ host' \ Requests = held \ Requests
    BY <1>0, SentIsInProgress DEF Dequeue
<1>2. ConnInv'
    BY DEF Inv, ConnInv, conn, upkeep, ambient
<1>3. inprogress' # None => netc_status' = "connected"
    BY <1>0 DEF Inv, HostInv, conn
<1>4. host' # {} => netc_sock'
    BY <1>1, <1>3, <1>2 DEF ConnInv, conn
<1> QED
    BY <1>0, <1>1, <1>2, <1>3, <1>4 DEF Inv, HostInv

LEMMA TimersKeepInv == Inv /\ Timers => Inv'
<1> SUFFICES ASSUME Inv, Timers PROVE Inv'
    OBVIOUS
<1> USE RequestsAssumption, ControlAssumption
<1>1. CASE OpenTimeout
    BY <1>1, TimeoutKeepsInv DEF OpenTimeout, Inv, ConnInv
<1>2. CASE RequestTimeout
    <2>1. netc_sock
        BY <1>2 DEF RequestTimeout, Inv, QueueInv, HostInv, ConnInv
    <2> QED
        BY <1>2, <2>1, TimeoutKeepsInv DEF RequestTimeout
<1>3. CASE ipmi_health
    <2>1. CASE netc_open
        BY <1>3, <2>1, OpenKeepsInv DEF ipmi_health
    <2>2. CASE UNCHANGED <<queue, conn, host>>
        BY <1>3, <2>2
        DEF ipmi_health, Inv, QueueInv, AnswersMatch, HostInv, ConnInv, queue, conn, upkeep, ambient
    <2>3. CASE Dequeue(netc_status, host) /\ UNCHANGED conn
        BY <1>3, <2>3, DequeueKeepsInv DEF ipmi_health, Inv, HostInv
    <2> QED
        BY <1>3, <2>1, <2>2, <2>3 DEF ipmi_health
<1>4. CASE netc_surveillance
    <2>1. /\ UNCHANGED <<queue, conn, ambient, issued, ipmi_health_after>>
          /\ alive /\ netc_surveillance_after' \in BOOLEAN
        BY <1>4 DEF netc_surveillance, Surveil, Inv, ConnInv
    <2>2. CASE Tool # "dev" /\ netc_status \in {"connected", "opening"}
        <3>1. netc_surveillance_after' /\ host' = host \cup {"poll"}
            BY <1>4, <2>2 DEF netc_surveillance, Surveil
        <3>2. HostInv'
            BY <2>1, <2>2, <3>1
            DEF Inv, HostInv, ConnInv, Messages, ControlMsgs, queue, conn
        <3> QED
            BY <2>1, <3>1, <3>2
            DEF Inv, QueueInv, ConnInv, AnswersMatch, queue, conn, ambient
    <2>3. CASE ~(Tool # "dev" /\ netc_status \in {"connected", "opening"})
        <3>1. ~netc_surveillance_after' /\ host' = host
            BY <1>4, <2>3 DEF netc_surveillance, Surveil
        <3> QED
            BY <2>1, <2>3, <3>1
            DEF Inv, QueueInv, HostInv, ConnInv, AnswersMatch, queue, conn, ambient
    <2> QED
        BY <2>2, <2>3
<1> QED
    BY <1>1, <1>2, <1>3, <1>4 DEF Timers

\* A reply that makes the client give the connection up.
LEMMA RefusalKeepsInv ==
    ASSUME Inv, netc_sock, netc_close, netc_id' \in {netc_id, NextId},
           UNCHANGED <<upkeep, ambient, issued>>
    PROVE  Inv'
<1>1. /\ QueueInv' /\ HostInv'
      /\ netc_status' = "closed" /\ link' = "down"
      /\ netc_sock' = FALSE /\ netc_open_after' = FALSE
    BY CloseEffect
<1>2. netc_id' \in 0 .. IdMod - 1
    BY NextIdType DEF Inv, ConnInv
<1>3. ConnInv'
    BY <1>1, <1>2 DEF Inv, ConnInv, upkeep, ambient
<1> QED
    BY <1>1, <1>3 DEF Inv

LEMMA PasswordAcceptedKeepsInv ==
    ASSUME Inv, PasswordAccepted
    PROVE  Inv'
<1> USE RequestsAssumption, ControlAssumption
<1> DEFINE held == Surveil("connected", host \ {"password"})[2]
<1>1. /\ held \in SUBSET Messages /\ held \cap Requests \subseteq {inprogress}
      /\ netc_surveillance_after' = (Tool # "dev")
    BY DEF PasswordAccepted, Surveil, Inv, HostInv, Messages, ControlMsgs
<1>2. netc_sock /\ alive /\ ~rejected
    BY DEF PasswordAccepted, Inv, HostInv, ConnInv
<1>3. Dequeue("connected", held)
    BY DEF PasswordAccepted
<1> HIDE DEF held
<1>4. /\ QueueInv'
      /\ host' \in SUBSET Messages
      /\ host' \cap Requests \subseteq {inprogress'}
    <2>1. /\ QueueInv'
          /\ inprogress' # inprogress => inprogress = None
        BY <1>3, DequeueKeepsQueue DEF Dequeue, Inv, QueueInv
    <2> QED
        BY <1>1, <1>3, <2>1, SentIsInProgress DEF Dequeue
<1>5. ConnInv'
    BY <1>1, <1>2 DEF PasswordAccepted, Inv, ConnInv, ambient
<1>6. HostInv'
    BY <1>2, <1>4 DEF PasswordAccepted, HostInv
<1> QED
    BY <1>4, <1>5, <1>6 DEF PasswordAccepted, Inv

LEMMA PasswordRejectedKeepsInv ==
    ASSUME Inv, PasswordRejected
    PROVE  Inv'
<1>1. /\ QueueInv' /\ HostInv'
      /\ netc_status' = "closed" /\ link' = "down"
      /\ netc_sock' = FALSE /\ netc_open_after' = FALSE
    BY CloseEffect DEF PasswordRejected
<1>2. ConnInv'
    BY <1>1 DEF PasswordRejected, Inv, ConnInv
<1> QED
    BY <1>1, <1>2 DEF PasswordRejected, Inv

\* The answer the FSP gives is the answer to the request in progress.
LEMMA IpmiAnswerKeepsInv ==
    ASSUME Inv, NEW r \in Requests, IpmiAnswer(r)
    PROVE  Inv'
<1> USE RequestsAssumption, ControlAssumption
<1> DEFINE held == host \ {r}
<1>1. r = inprogress /\ inprogress_q # <<>> /\ netc_status = "connected"
    <2>1. <<0>> # <<>>
        OBVIOUS
    <2> QED
        BY <2>1 DEF IpmiAnswer, Inv, QueueInv, HostInv
<1>2. held \in SUBSET Messages /\ held \cap Requests = {} /\ netc_sock
    BY <1>1 DEF Inv, HostInv, ConnInv
<1>3. ConnInv' /\ issued' \in Seq(Requests) /\ netc_status' = "connected" /\ netc_sock'
    BY <1>1, <1>2 DEF IpmiAnswer, Inv, ConnInv, conn, upkeep, ambient
<1>4. Answer(inprogress, netc_status) /\ host' = held \cup NewlySent
    BY <1>1 DEF IpmiAnswer, RequestsAssumption
<1>5. QueueInv'
    BY <1>1, <1>4, AnswerKeepsQueue DEF Inv
<1>6. NewlySent \subseteq {inprogress'} \cap Requests
    BY <1>5 DEF NewlySent, QueueInv
<1>7. HostInv'
    BY <1>2, <1>3, <1>4, <1>6 DEF HostInv, Messages
<1> QED
    BY <1>3, <1>5, <1>7 DEF Inv

LEMMA FromFspKeepsInv == Inv /\ FromFsp => Inv'
<1> SUFFICES ASSUME Inv, FromFsp PROVE Inv'
    OBVIOUS
<1> USE RequestsAssumption, ControlAssumption
<1>0. host # {} => netc_sock
    BY DEF Inv, HostInv
<1>1. CASE VersionAccepted
    <2> DEFINE held == (host \ {"version"}) \cup
                       (IF netc_status = "opening" THEN {"password"} ELSE {})
    <2>1. /\ held \in SUBSET Messages /\ held \cap Requests \subseteq {inprogress}
          /\ netc_sock
        BY <1>0, <1>1 DEF VersionAccepted, Inv, HostInv, Messages, ControlMsgs
    <2>2. /\ Dequeue(netc_status, held)
          /\ UNCHANGED <<conn, upkeep, ambient, issued>>
        BY <1>1 DEF VersionAccepted
    <2> HIDE DEF held
    <2> QED
        BY <2>1, <2>2, DequeueKeepsInv
<1>2. CASE VersionRefused \/ ClientIdInUse
    BY <1>0, <1>2, RefusalKeepsInv DEF VersionRefused, ClientIdInUse
<1>3. CASE PasswordAccepted \/ PasswordRejected
    BY <1>3, PasswordAcceptedKeepsInv, PasswordRejectedKeepsInv
<1>4. CASE \E r \in Requests : IpmiAnswer(r)
    BY <1>4, IpmiAnswerKeepsInv
<1>5. CASE PollAnswer
    <2> DEFINE held == host \ {"poll"}
    <2>1. held \in SUBSET Messages /\ held \cap Requests \subseteq {inprogress} /\ netc_sock
        BY <1>0, <1>5 DEF PollAnswer, Inv, HostInv
    <2>2. /\ Dequeue(netc_status, held)
          /\ UNCHANGED <<conn, upkeep, ambient, issued>>
        BY <1>5 DEF PollAnswer
    <2> HIDE DEF held
    <2> QED
        BY <2>1, <2>2, DequeueKeepsInv
<1>6. CASE ConnectionLost
    BY <1>6, TimeoutKeepsInv DEF ConnectionLost
<1>7. CASE NoAnswer
    BY <1>7 DEF NoAnswer, Inv, QueueInv, HostInv, ConnInv, AnswersMatch,
                queue, conn, upkeep, ambient
<1> QED
    BY <1>1, <1>2, <1>3, <1>4, <1>5, <1>6, <1>7 DEF FromFsp

LEMMA DestroyKeepsInv ==
    ASSUME Inv, Destroy
    PROVE  Inv'
<1>1. /\ QueueInv' /\ HostInv'
      /\ netc_status' = "closed" /\ link' = "down"
      /\ netc_sock' = FALSE /\ netc_open_after' = FALSE
    BY CloseEffect DEF Destroy
<1>2. ConnInv'
    BY <1>1 DEF Destroy, Inv, ConnInv
<1> QED
    BY <1>1, <1>2 DEF Destroy, Inv

LEMMA NextKeepsInv == Inv /\ [Next]_vars => Inv'
<1> SUFFICES ASSUME Inv, [Next]_vars PROVE Inv'
    OBVIOUS
<1>1. CASE \E r \in Requests : ipmi_send(r)
    BY <1>1, SendKeepsInv
<1>2. CASE Timers
    BY <1>2, TimersKeepInv
<1>3. CASE FromFsp
    BY <1>3, FromFspKeepsInv
<1>4. CASE ToggleNetwork
    BY <1>4 DEF ToggleNetwork, Inv, QueueInv, HostInv, ConnInv, AnswersMatch, queue, conn, upkeep
<1>5. CASE Destroy
    BY <1>5, DestroyKeepsInv
<1>6. CASE UNCHANGED vars
    BY <1>6 DEF vars, Inv, QueueInv, HostInv, ConnInv, AnswersMatch, queue, conn, upkeep, ambient
<1> QED
    BY <1>1, <1>2, <1>3, <1>4, <1>5, <1>6 DEF Next

\* The inductive invariant.
LEMMA InvHolds == Spec => []Inv
BY InitInv, NextKeepsInv, PTL DEF Spec

-----------------------------------------------------------------------------
(* The theorems *)

\* Every variable keeps its type.
THEOREM TypeCorrect == Spec => []TypeOK
<1>1. ASSUME Inv PROVE TypeOK
    <2>1. QueueTypeOK
        BY <1>1, QueueTyped DEF Inv, ConnInv
    <2>2. host \subseteq Requests \cup ControlMsgs
        BY <1>1 DEF Inv, HostInv, Messages
    <2>3. link \in {"up", "down"}
        BY <1>1 DEF Inv, ConnInv
    <2> QED
        BY <1>1, <2>1, <2>2, <2>3 DEF Inv, ConnInv, TypeOK
<1> QED
    BY <1>1, InvHolds, PTL

\* The status, the socket, the link and what the FSP holds agree: no path
\* through netc_open, netc_close and netc_process leaves them apart.
THEOREM ConnectionStaysConsistent == Spec => []ConnectionConsistent
<1>1. Inv => ConnectionConsistent
    BY DEF Inv, HostInv, ConnInv, ConnectionConsistent
<1> QED
    BY <1>1, InvHolds, PTL

\* No timer is stale and none is missing, so none can close a connection it
\* was not set for.
THEOREM NoStaleTimer == Spec => []TimersMatchState
<1>1. Inv => TimersMatchState
    BY DEF Inv, QueueInv, ConnInv, TimersMatchState
<1> QED
    BY <1>1, InvHolds, PTL

\* Only one request is with the FSP at a time, and it is the one in progress.
THEOREM OneRequestAtATime == Spec => []OneOutstanding
<1>1. Inv => OneOutstanding
    BY DEF Inv, QueueInv, HostInv, OneOutstanding
<1> QED
    BY <1>1, InvHolds, PTL

\* A callback is only ever given the answer to its own request.
THEOREM AnswersAlwaysMatch == Spec => []AnswersMatch
<1>1. Inv => AnswersMatch
    BY DEF Inv, QueueInv
<1> QED
    BY <1>1, InvHolds, PTL

\* A deleted netc object has no socket and no timer.
THEOREM DeletedStaysQuiet == Spec => []DeletedIsQuiet
<1>1. Inv => DeletedIsQuiet
    BY DEF Inv, QueueInv, HostInv, ConnInv, DeletedIsQuiet
<1> QED
    BY <1>1, InvHolds, PTL

-----------------------------------------------------------------------------
(* Action properties *)

\* With the network switched off nothing is put on the wire.
LEMMA PausedDequeue ==
    ASSUME ~network, NEW q, NEW status, ipmi_dequeue(q, status)
    PROVE  NewlySent = {}
BY DEF ipmi_dequeue, CanTransmit, NewlySent

LEMMA PausedQueue ==
    ASSUME ~network, NEW r, NEW status, ipmi_queue(r, status)
    PROVE  NewlySent = {}
BY PausedDequeue DEF ipmi_queue, NewlySent

LEMMA PausedAnswer ==
    ASSUME ~network, NEW a, NEW status, Answer(a, status)
    PROVE  NewlySent = {}
BY DEF Answer, CanTransmit, NewlySent

\* "Do not start new requests if network traffic is paused": no handler
\* sends the FSP a request while the switch is off.
THEOREM PauseIsRespected == Spec => PausedSendsNothing
<1>1. ASSUME [Next]_vars, ~network PROVE host' \cap Requests \subseteq host
    <2> USE RequestsAssumption, ControlAssumption
    <2> SUFFICES ASSUME Next PROVE host' \cap Requests \subseteq host
        BY <1>1 DEF vars
    <2>1. CASE \E r \in Requests : ipmi_send(r)
        BY <1>1, <2>1, PausedQueue DEF ipmi_send
    <2>2. CASE netc_timeout
        BY <2>2 DEF netc_timeout, Opened, ControlMsgs
    <2>3. CASE ipmi_health
        BY <1>1, <2>3, PausedDequeue DEF ipmi_health, Dequeue, netc_open, Opened, ControlMsgs
    <2>4. CASE netc_surveillance
        BY <2>4 DEF netc_surveillance, Surveil, ControlMsgs
    <2>5. CASE VersionAccepted
        BY <1>1, <2>5, PausedDequeue DEF VersionAccepted, Dequeue, ControlMsgs
    <2>6. CASE netc_close
        BY <2>6 DEF netc_close
    <2>7. CASE PasswordAccepted
        BY <1>1, <2>7, PausedDequeue DEF PasswordAccepted, Dequeue, Surveil, ControlMsgs
    <2>8. CASE \E r \in Requests : IpmiAnswer(r)
        BY <1>1, <2>8, PausedDequeue, PausedAnswer DEF IpmiAnswer, Dequeue
    <2>9. CASE PollAnswer
        BY <1>1, <2>9, PausedDequeue DEF PollAnswer, Dequeue
    <2>10. CASE NoAnswer \/ ToggleNetwork
        BY <2>10 DEF NoAnswer, ToggleNetwork
    <2> QED
        BY <2>1, <2>2, <2>3, <2>4, <2>5, <2>6, <2>7, <2>8, <2>9, <2>10
        DEF Next, Timers, FromFsp, OpenTimeout, RequestTimeout, ConnectionLost,
            VersionRefused, ClientIdInUse, PasswordRejected, Destroy
<1> QED
    BY <1>1, PTL DEF Spec, PausedSendsNothing

\* Once the FSP has refused the password, no timer, message or call of the
\* client opens the connection or presents a client id again.
THEOREM RejectionStaysFinal == Spec => RejectionIsFinal
<1>1. ASSUME Inv, Inv', [Next]_vars, rejected PROVE ~netc_sock' /\ netc_id' = netc_id
    <2>1. ~netc_sock /\ ~ipmi_health_after /\ ~netc_open_after /\ ~request_after /\ host = {}
        BY <1>1 DEF Inv, QueueInv, HostInv, ConnInv
    <2>2. rejected' /\ netc_id' = netc_id
        BY <1>1, <2>1
        DEF Next, Timers, FromFsp, ipmi_send, OpenTimeout, RequestTimeout, ipmi_health,
            netc_surveillance, VersionAccepted, VersionRefused, ClientIdInUse,
            PasswordAccepted, PasswordRejected, IpmiAnswer, PollAnswer, ConnectionLost,
            NoAnswer, ToggleNetwork, Destroy, vars, conn, ambient
    <2> QED
        BY <1>1, <2>2 DEF Inv, ConnInv
<1> QED
    BY <1>1, InvHolds, PTL DEF Spec, RejectionIsFinal

-----------------------------------------------------------------------------
(* Every request accounted for, and the contract *)

\* The requests that wait for an answer from the FSP.
Ordinary == Requests \ Faked

\* The requests that a send passes over are all faked.
LEMMA TransmitMoves ==
    ASSUME NEW q \in Seq(Requests), NEW done, Transmit(q, done)
    PROVE  \E n \in 0 .. Len(q) : Passes(q, n, Ordinary) /\ Move(q, n, done)
<1> DEFINE I == {i \in DOMAIN q : \A j \in 1 .. i : q[j] \in Faked}
           n == Cardinality(I)
<1>1. n \in 0 .. Len(q)
    BY CountInQueue
<1>2. Len(q) \in Nat /\ I \in SUBSET (1 .. Len(q))
    OBVIOUS
<1>3. \A i \in I, j \in 1 .. Len(q) : j < i => j \in I
    OBVIOUS
<1>4. \A i \in 1 .. Len(q) : i \in I => q[i] \in Faked
    OBVIOUS
<1>5. n = LeadingFakes(q)
    BY DEF LeadingFakes
<1> HIDE DEF I
<1>6. \A i \in 1 .. Len(q) : i \in I <=> i =< n
    BY <1>2, <1>3, CountedInFront
<1> HIDE DEF n
<1>7. Passes(q, n, Ordinary)
    BY <1>1, <1>4, <1>6 DEF Passes, Ordinary
<1> QED
    BY <1>1, <1>5, <1>7 DEF Transmit, Move

LEMMA DequeueMoves ==
    ASSUME NEW q \in Seq(Requests), NEW status,
           \/ ipmi_dequeue(q, status)
           \/ ipmi_msgq' = q /\ UNCHANGED <<inprogress, inprogress_q, request_after, answered>>
    PROVE  MayMove(q) /\ OrderlyMove(q, Ordinary)
<1> DEFINE none == <<>>
<1>1. \/ inprogress = None /\ Transmit(q, none)
      \/ ipmi_msgq' = q /\ UNCHANGED <<inprogress, answered>>
    BY DEF ipmi_dequeue
<1> HIDE DEF none
<1>2. inprogress = None /\ Transmit(q, none) =>
        inprogress = None /\ \E n \in 0 .. Len(q) : Passes(q, n, Ordinary) /\ Move(q, n, none)
    BY TransmitMoves
<1> QED
    BY <1>1, <1>2 DEF MayMove, OrderlyMove, none

\* What a step does to the queue: a handler either sends from it, or takes a
\* request back, or leaves it alone; only a new request and an answer do more.
LEMMA QueueSteps ==
    ASSUME Inv, [Next]_vars
    PROVE  \/ \E r \in Requests : ipmi_queue(r, netc_status)
           \/ /\ UNCHANGED issued
              /\ \/ UNCHANGED queue
                 \/ TakeBack
                 \/ \E status : ipmi_dequeue(ipmi_msgq, status)
                 \/ inprogress \in Requests /\ Answer(inprogress, netc_status)
<1> USE RequestsAssumption, ControlAssumption
<1> DEFINE Goal == \/ UNCHANGED queue
                   \/ TakeBack
                   \/ \E status : ipmi_dequeue(ipmi_msgq, status)
                   \/ inprogress \in Requests /\ Answer(inprogress, netc_status)
<1>1. CASE \E r \in Requests : ipmi_send(r)
    BY <1>1 DEF ipmi_send
<1>2. ASSUME NEW r \in Requests, IpmiAnswer(r)
      PROVE  UNCHANGED issued /\ Goal
    <2>1. r = inprogress
        BY <1>2 DEF IpmiAnswer, Inv, HostInv
    <2> QED
        BY <1>2, <2>1 DEF IpmiAnswer, Dequeue
<1>3. (netc_close \/ netc_timeout \/ netc_open) => Goal
    BY DEF netc_close, netc_timeout, netc_open
<1>4. CASE Timers
    BY <1>3, <1>4
    DEF Timers, OpenTimeout, RequestTimeout, ipmi_health, Dequeue, netc_surveillance
<1>5. CASE FromFsp
    <2>1. CASE VersionAccepted \/ PasswordAccepted \/ PollAnswer
        BY <2>1 DEF VersionAccepted, PasswordAccepted, PollAnswer, Dequeue
    <2>2. CASE VersionRefused \/ ClientIdInUse \/ PasswordRejected
        BY <1>3, <2>2 DEF VersionRefused, ClientIdInUse, PasswordRejected
    <2>3. CASE ConnectionLost \/ NoAnswer
        BY <1>3, <2>3 DEF ConnectionLost, NoAnswer
    <2> QED
        BY <1>2, <1>5, <2>1, <2>2, <2>3 DEF FromFsp
<1>6. CASE ToggleNetwork \/ Destroy \/ UNCHANGED vars
    BY <1>3, <1>6 DEF ToggleNetwork, Destroy, vars
<1> QED
    BY <1>1, <1>4, <1>5, <1>6 DEF Next

LEMMA StepAccounted ==
    ASSUME Inv, Accounted, [Next]_vars
    PROVE  Accounted' /\ Contract!Next
<1> USE RequestsAssumption
<1>1. ListTyped
    BY DEF Inv, QueueInv, ListTyped
<1>2. CASE \E r \in Requests : ipmi_queue(r, netc_status)
    <2>1. PICK r \in Requests : ipmi_queue(r, netc_status)
        BY <1>2
    <2>2. r \in Requests \ ToSet(issued) /\ issued' = Append(issued, r)
        BY <2>1 DEF ipmi_queue
    <2>3. InsertLast(ipmi_msgq, r) \in Seq(Requests)
        BY <1>1, InsertIsQueue DEF ListTyped
    <2>4. MayMove(InsertLast(ipmi_msgq, r))
        BY <2>1, <2>3, DequeueMoves DEF ipmi_queue
    <2> QED
        BY <1>1, <2>2, <2>4, NewRequestAccounted
<1>3. CASE UNCHANGED queue /\ UNCHANGED issued
    BY <1>1, <1>3, AccountUndisturbed DEF queue, Accounted
<1>4. CASE TakeBack /\ UNCHANGED issued
    BY <1>1, <1>4, TakeBackAccounted DEF TakeBack
<1>5. CASE UNCHANGED issued /\ \E status : ipmi_dequeue(ipmi_msgq, status)
    <2>1. MayMove(ipmi_msgq)
        BY <1>1, <1>5, DequeueMoves DEF ListTyped
    <2> QED
        BY <1>1, <1>5, <2>1, NextRequestAccounted
<1>6. CASE inprogress \in Requests /\ Answer(inprogress, netc_status) /\ UNCHANGED issued
    <2> DEFINE done == <<Callback(inprogress, inprogress)>>
    <2>1. \/ Transmit(ipmi_msgq, done)
          \/ /\ inprogress' = None
             /\ answered' = Append(answered, Callback(inprogress, inprogress))
             /\ UNCHANGED ipmi_msgq
        BY <1>6 DEF Answer
    <2> HIDE DEF done
    <2>2. Transmit(ipmi_msgq, done) =>
            \E n \in 0 .. Len(ipmi_msgq) : Move(ipmi_msgq, n, done)
        BY <1>1, TransmitMoves DEF ListTyped
    <2> QED
        BY <1>1, <1>6, <2>1, <2>2, AnswerAccounted DEF done
<1> QED
    BY <1>2, <1>3, <1>4, <1>5, <1>6, QueueSteps

\* At the start there is nothing to account for.
LEMMA InitAccounted == Init => Accounted /\ Contract!Init
<1> SUFFICES ASSUME Init PROVE Accounted /\ Contract!Init
    OBVIOUS
<1>1. /\ ipmi_msgq = <<>> /\ inprogress = None /\ issued = <<>> /\ answered = <<>>
      /\ DOMAIN <<>> = {}
    BY DEF Init, QueueInit
<1>2. ToSet(ipmi_msgq) = {} /\ ToSet(issued) = {} /\ ToSet(Served) = {}
    BY <1>1 DEF ToSet, Served
<1>3. Distinct(ipmi_msgq) /\ Distinct(Served)
    BY <1>1 DEF Distinct, Served
<1> QED
    BY <1>1, <1>2, <1>3 DEF Accounted, Contract!Init

LEMMA AccountedHolds == Spec => [](Inv /\ Accounted)
<1>1. Inv /\ Accounted /\ [Next]_vars => (Inv /\ Accounted)'
    BY NextKeepsInv, StepAccounted
<1> QED
    BY <1>1, InitInv, InitAccounted, PTL DEF Spec

\* No timeout, refusal or lost connection loses a request or answers it twice.
THEOREM EveryRequestIsAccounted == Spec => []EveryRequestAccounted
<1>1. Inv /\ Accounted => EveryRequestAccounted
    BY RequestsAssumption, AccountedMeansOnce
<1> QED
    BY <1>1, AccountedHolds, PTL

\* Every handler of the link is a step of what it promises its clients.
THEOREM NetcKeepsContract == Spec => KeepsContract
<1>1. Inv /\ Accounted /\ [Next]_vars => Contract!Next
    BY StepAccounted
<1> QED
    BY <1>1, AccountedHolds, InitAccounted, PTL DEF Spec, KeepsContract, Contract!Spec

-----------------------------------------------------------------------------
(* No handler leaves requests waiting on an idle link *)

\* A send leaves requests waiting only behind the one it put in progress.
LEMMA TransmitLeavesNone ==
    ASSUME RequestsAssumption, NEW q \in Seq(Requests), NEW done, Transmit(q, done),
           inprogress' = None
    PROVE  ipmi_msgq' = <<>>
<1> DEFINE n == LeadingFakes(q)
<1>1. n \in 0 .. Len(q)
    BY CountInQueue DEF LeadingFakes
<1>2. /\ ipmi_msgq' = SubSeq(q, n + 2, Len(q))
      /\ (n < Len(q) /\ inprogress' = q[n + 1]) \/ n = Len(q)
    BY DEF Transmit
<1> HIDE DEF n
<1>3. n < Len(q) => q[n + 1] \in Requests
    BY <1>1
<1>4. n = Len(q)
    BY <1>2, <1>3 DEF RequestsAssumption
<1> QED
    BY <1>1, <1>2, <1>4

\* Past its guards a dequeue on a connected link sends what there is to send.
LEMMA DequeueLeavesNone ==
    ASSUME RequestsAssumption, QueueInv, network, NEW q \in Seq(Requests),
           ipmi_dequeue(q, "connected"), inprogress' = None
    PROVE  ipmi_msgq' = <<>>
<1>1. CASE CanTransmit(q, "connected") /\ inprogress_q = <<>> /\ inprogress = None
    <2> DEFINE none == <<>>
    <2>1. Transmit(q, none)
        BY <1>1 DEF ipmi_dequeue
    <2> HIDE DEF none
    <2> QED
        BY <2>1, TransmitLeavesNone
<1>2. CASE ~(CanTransmit(q, "connected") /\ inprogress_q = <<>> /\ inprogress = None)
    <2>1. ipmi_msgq' = q /\ inprogress' = inprogress
        BY <1>2 DEF ipmi_dequeue
    <2>2. inprogress_q = <<>>
        BY <2>1 DEF QueueInv
    <2> QED
        BY <1>2, <2>1, <2>2 DEF CanTransmit
<1> QED
    BY <1>1, <1>2

LEMMA OnlyOneInQueue ==
    ASSUME NEW r \in Requests
    PROVE  Len(InsertLast(<<>>, r)) = 1
<1> DEFINE q == InsertLast(<<>>, r)
<1>1. <<>> \in Seq(Requests) /\ ToSet(<<>>) = {} /\ Distinct(<<>>)
    BY DEF ToSet, Distinct
<1> DEFINE none == <<>>
<1>2. none \in Seq(Requests) /\ ToSet(none) = {} /\ Distinct(none) /\ q = InsertLast(none, r)
    BY <1>1
<1> HIDE DEF q, none
<1>3. q \in Seq(Requests) /\ ToSet(q) = {r} /\ Distinct(q)
    BY <1>2, InsertLastHolds
<1>4. DOMAIN q = 1 .. Len(q) /\ Len(q) \in Nat
    BY <1>3
<1>5. \A i \in DOMAIN q : q[i] = r
    BY <1>3 DEF ToSet
<1>6. \A i, j \in DOMAIN q : i = j
    BY <1>3, <1>5 DEF Distinct
<1>7. \E i \in DOMAIN q : q[i] = r
    BY <1>3 DEF ToSet
<1>8. Len(q) >= 1
    BY <1>4, <1>7
<1>9. ~(Len(q) >= 2)
    <2>1. Len(q) >= 2 => 1 \in DOMAIN q /\ 2 \in DOMAIN q
        BY <1>4
    <2> QED
        BY <1>6, <2>1
<1>10. Len(q) = 1
    BY <1>4, <1>8, <1>9
<1> QED
    BY <1>10 DEF q

\* Only the switch back on leaves a backlog idle on a connected link.
LEMMA StepForgetsNone ==
    ASSUME Inv, [Next]_vars, IdleBacklog', network
    PROVE  IdleBacklog
<1> USE RequestsAssumption
<1>1. QueueInv /\ ipmi_msgq \in Seq(Requests)
    BY DEF Inv, QueueInv
<1>2. netc_status' = "connected" /\ ipmi_msgq' # <<>> /\ inprogress' = None
    BY DEF IdleBacklog
<1>3. CASE UNCHANGED <<queue, netc_status>>
    BY <1>2, <1>3 DEF IdleBacklog, queue
<1>4. ~ipmi_dequeue(ipmi_msgq, "connected")
    BY <1>1, <1>2, DequeueLeavesNone
<1>5. CASE \E r \in Requests : ipmi_send(r)
    <2>1. PICK r \in Requests : ipmi_send(r)
        BY <1>5
    <2>2. netc_status = "connected"
        BY <1>2, <2>1 DEF ipmi_send, conn
    <2>3. InsertLast(ipmi_msgq, r) \in Seq(Requests)
        BY <1>1, InsertIsQueue
    <2>4. ~ipmi_dequeue(InsertLast(ipmi_msgq, r), "connected")
        BY <1>1, <1>2, <2>3, DequeueLeavesNone
    <2>5. inprogress' = inprogress /\ Len(InsertLast(ipmi_msgq, r)) # 1
        BY <2>1, <2>2, <2>4 DEF ipmi_send, ipmi_queue
    <2>6. ipmi_msgq # <<>>
        BY <2>5, OnlyOneInQueue
    <2> QED
        BY <1>2, <2>2, <2>5, <2>6 DEF IdleBacklog
<1>6. CASE \E r \in Requests : IpmiAnswer(r)
    <2>1. PICK r \in Requests : IpmiAnswer(r)
        BY <1>6
    <2>2. netc_status = "connected"
        BY <1>2, <2>1 DEF IpmiAnswer, conn
    <2>3. CASE Answer(r, netc_status)
        <3>1. CASE Transmit(ipmi_msgq, <<Callback(inprogress, r)>>)
            BY <1>1, <1>2, <3>1, TransmitLeavesNone
        <3>2. CASE ~CanTransmit(ipmi_msgq, netc_status) /\ UNCHANGED ipmi_msgq
            BY <1>2, <2>2, <3>2 DEF CanTransmit
        <3>3. Tail(inprogress_q) = <<>>
            <4>1. Tail(<<0>>) = <<>>
                OBVIOUS
            <4> QED
                BY <1>1, <2>3, <4>1 DEF Answer, QueueInv
        <3> QED
            BY <2>3, <3>1, <3>2, <3>3 DEF Answer
    <2>4. CASE ipmi_dequeue(ipmi_msgq, netc_status)
        BY <1>4, <2>2, <2>4
    <2> QED
        BY <2>1, <2>3, <2>4 DEF IpmiAnswer, Dequeue
<1>7. ~netc_close
    BY <1>2 DEF netc_close
<1>8. ~netc_timeout
    BY <1>2 DEF netc_timeout, Opened
<1>9. netc_open => UNCHANGED <<queue, netc_status>>
    BY <1>2 DEF netc_open, Opened, conn
<1>10. CASE Timers
    <2>1. CASE OpenTimeout \/ RequestTimeout
        BY <1>8, <2>1 DEF OpenTimeout, RequestTimeout
    <2>2. CASE ipmi_health
        BY <1>3, <1>4, <1>9, <2>2 DEF ipmi_health, Dequeue, conn
    <2>3. CASE netc_surveillance
        BY <1>3, <2>3 DEF netc_surveillance, conn
    <2> QED
        BY <1>10, <2>1, <2>2, <2>3 DEF Timers
<1>11. CASE FromFsp
    <2>1. CASE VersionAccepted \/ PollAnswer
        BY <1>2, <1>4, <2>1 DEF VersionAccepted, PollAnswer, Dequeue, conn
    <2>2. CASE PasswordAccepted
        BY <1>4, <2>2 DEF PasswordAccepted, Dequeue
    <2>3. CASE VersionRefused \/ ClientIdInUse \/ PasswordRejected
        BY <1>7, <2>3 DEF VersionRefused, ClientIdInUse, PasswordRejected
    <2>4. CASE ConnectionLost \/ NoAnswer
        BY <1>3, <1>8, <2>4 DEF ConnectionLost, NoAnswer, conn
    <2> QED
        BY <1>6, <1>11, <2>1, <2>2, <2>3, <2>4 DEF FromFsp
<1>12. CASE ToggleNetwork \/ UNCHANGED vars
    BY <1>3, <1>12 DEF ToggleNetwork, vars, conn
<1>13. CASE Destroy
    BY <1>7, <1>13 DEF Destroy
<1> QED
    BY <1>5, <1>10, <1>11, <1>12, <1>13 DEF Next

\* After every handler, requests wait on a connected link only behind one in
\* progress, unless they waited so already or the traffic was paused.
THEOREM NoBacklogIsForgotten == Spec => NoForgottenBacklog
<1> DEFINE A == IdleBacklog' => IdleBacklog \/ ~network
<1>1. Inv /\ [Next]_vars => A
    BY StepForgetsNone
<1>2. Spec => [][A]_vars
    <2> HIDE DEF A
    <2> QED
        BY <1>1, InitInv, NextKeepsInv, PTL DEF Spec
<1> QED
    BY <1>2 DEF NoForgottenBacklog

-----------------------------------------------------------------------------
(* The order of service *)

\* Every handler keeps the line in order, and sends the most urgent first.
LEMMA StepOrdered ==
    ASSUME Inv, Accounted, Ordered(Ordinary), [Next]_vars
    PROVE  Ordered(Ordinary)' /\ MostUrgent
<1> USE RequestsAssumption
<1>1. ListTyped /\ Sorted(ipmi_msgq) /\ Ordinary \in SUBSET Requests
    BY DEF Inv, QueueInv, ListTyped, Ordered, InLine, Ordinary
<1>2. CASE \E r \in Requests : ipmi_queue(r, netc_status)
    <2>1. PICK r \in Requests : ipmi_queue(r, netc_status)
        BY <1>2
    <2>2. InsertLast(ipmi_msgq, r) \in Seq(Requests)
        BY <1>1, InsertIsQueue DEF ListTyped
    <2>3. OrderlyMove(InsertLast(ipmi_msgq, r), Ordinary) /\ issued' = Append(issued, r)
        BY <2>1, <2>2, DequeueMoves DEF ipmi_queue
    <2> QED
        BY <1>1, <2>3, NewRequestOrdered, NewRequestMostUrgent
<1>3. CASE UNCHANGED queue /\ UNCHANGED issued
    BY <1>3, NothingOrdered DEF queue, MostUrgent
<1>4. CASE TakeBack /\ UNCHANGED issued
    BY <1>1, <1>4, TakeBackOrdered DEF TakeBack, MostUrgent
<1>5. CASE UNCHANGED issued /\ \E status : ipmi_dequeue(ipmi_msgq, status)
    <2>1. OrderlyMove(ipmi_msgq, Ordinary)
        BY <1>1, <1>5, DequeueMoves DEF ListTyped
    <2> QED
        BY <1>1, <1>5, <2>1, NextRequestOrdered, NextRequestMostUrgent
<1>6. CASE inprogress \in Requests /\ Answer(inprogress, netc_status) /\ UNCHANGED issued
    <2> DEFINE done == <<Callback(inprogress, inprogress)>>
    <2>1. \/ Transmit(ipmi_msgq, done)
          \/ /\ inprogress' = None
             /\ answered' = Append(answered, Callback(inprogress, inprogress))
             /\ UNCHANGED ipmi_msgq
        BY <1>6 DEF Answer
    <2> HIDE DEF done
    <2>2. Transmit(ipmi_msgq, done) =>
            \E n \in 0 .. Len(ipmi_msgq) : Passes(ipmi_msgq, n, Ordinary) /\ Move(ipmi_msgq, n, done)
        BY <1>1, TransmitMoves DEF ListTyped
    <2>3. Ordered(Ordinary)'
        BY <1>1, <1>6, <2>1, <2>2, AnswerOrdered DEF done
    <2>4. MostUrgent
        <3>1. CASE Transmit(ipmi_msgq, done)
            BY <1>1, <2>2, <3>1, MoveMostUrgent DEF ListTyped
        <3>2. CASE inprogress' = None
            BY <3>2 DEF MostUrgent
        <3> QED
            BY <2>1, <3>1, <3>2
    <2> QED
        BY <2>3, <2>4
<1> QED
    BY <1>2, <1>3, <1>4, <1>5, <1>6, QueueSteps

LEMMA InitOrdered == Init => Ordered(Ordinary)
<1> SUFFICES ASSUME Init PROVE Ordered(Ordinary)
    OBVIOUS
<1>1. ipmi_msgq = <<>> /\ inprogress = None /\ answered = <<>>
    BY DEF Init, QueueInit
<1>2. Served = <<>> /\ ToSet(Served) = {} /\ ToSet(ipmi_msgq) = {}
    BY <1>1 DEF Served, ToSet
<1> QED
    BY <1>1, <1>2 DEF Ordered, InLine, Sorted, KeepsOrder, Ahead

LEMMA OrderedHolds == Spec => [](Inv /\ Ordered(Ordinary))
<1> DEFINE J == Inv /\ Accounted /\ Ordered(Ordinary)
<1>1. Init => J
    BY InitInv, InitAccounted, InitOrdered
<1>2. J /\ [Next]_vars => J'
    BY NextKeepsInv, StepAccounted, StepOrdered
<1>3. J => Inv /\ Ordered(Ordinary)
    OBVIOUS
<1> HIDE DEF J
<1> QED
    BY <1>1, <1>2, <1>3, PTL DEF Spec

\* Requests of one priority are served in the order they were sent: new ones
\* are sorted in behind those of their priority, and the one that a lost
\* connection or a timeout takes back before them.
THEOREM RequestsServedInOrder == Spec => []ServedInOrder
<1>1. Inv /\ Ordered(Ordinary) => ServedInOrder
    <2> SUFFICES ASSUME Inv, Ordered(Ordinary) PROVE ServedInOrder
        OBVIOUS
    <2>1. ListTyped
        BY DEF Inv, QueueInv, ListTyped
    <2>2. KeepsOrder(WholeLine, issued, Ordinary)
        BY <2>1, OrderedLine
    <2> QED
        BY <2>2 DEF ServedInOrder, Ordinary
<1> QED
    BY <1>1, OrderedHolds, PTL

\* A request is put in progress only when none more urgent is waiting, since
\* new requests and those taken back are sorted in.
THEOREM MostUrgentIsFirst == Spec => MostUrgentFirst
<1> DEFINE A == inprogress' \notin {inprogress, None} =>
                    \A r \in ToSet(ipmi_msgq') : Priority[inprogress'] =< Priority[r]
           J == Inv /\ Accounted /\ Ordered(Ordinary)
<1>1. Init => J
    BY InitInv, InitAccounted, InitOrdered
<1>2. J /\ [Next]_vars => J'
    BY NextKeepsInv, StepAccounted, StepOrdered
<1>3. J /\ [Next]_vars => [A]_queue
    BY StepOrdered DEF MostUrgent
<1>4. Spec => [][A]_queue
    <2> HIDE DEF A, J
    <2> QED
        BY <1>1, <1>2, <1>3, PTL DEF Spec
<1> QED
    BY <1>4 DEF MostUrgentFirst
=============================================================================
