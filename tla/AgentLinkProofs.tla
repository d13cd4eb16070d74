--------------------------- MODULE AgentLinkProofs --------------------------
(***************************************************************************)
(* Safety of AgentLink, for every set of requests: its type, Watched, and  *)
(* that it implements RequestContract, through closed connections, pauses  *)
(* and waiting callbacks.  The invariant Sound is on the two links as one  *)
(* record, which every operation of the model takes to such a record: the  *)
(* request on file has at most one message, waiting or under way, and none *)
(* once it is answered.  The same operations show what strands a request,  *)
(* that none is lost (Kept), and that a callback which waits never returns *)
(* (Stuck).                                                                *)
(***************************************************************************)
EXTENDS AgentLink, RequestQueueProofs

Status == {"disconnected", "opening", "connected", "timeout", "closed"}

Links == [waiting : Seq(Requests), filed : Requests \cup {None},
          status : Status, sock : BOOLEAN, opening : BOOLEAN,
          messages : Seq(Requests), timed : SUBSET Requests, replies : Seq(Requests)]

\* The list of l holds requests that were sent and not answered, each once, and
\* not the one on file.
Orderly(l, sent, served) ==
    /\ Distinct(l.waiting)
    /\ l.filed \notin ToSet(l.waiting)
    /\ ToSet(l.waiting) \subseteq sent \ served
    /\ l.filed \in sent \cup {None}

\* No message of the request on file is under way.
Quiet(l) == l.messages = <<>> /\ l.replies = <<>>

\* At most one message is under way, of the request on file, unanswered.
Carries(l, served) ==
    \/ Quiet(l)
    \/ /\ l.filed \in Requests \ served
       /\ \/ l.messages = <<l.filed>> /\ l.replies = <<>>
          \/ l.messages = <<>> /\ l.replies = <<l.filed>> /\ l.filed \in l.timed

\* Status, socket and timers of the connection.
Connection(l) ==
    /\ l.opening <=> l.status = "opening"
    /\ l.sock <=> l.status \in {"opening", "connected", "timeout"}
    /\ l.timed # {} => l.status = "connected"

Sound(l, sent, served) ==
    /\ l \in Links
    /\ Orderly(l, sent, served)
    /\ Carries(l, served)
    /\ Connection(l)

WaitRecords == [request : Requests, inside : Requests \cup {None} \cup {}]

Inv ==
    /\ Sound(Link, ToSet(issued), ToSet(Served))
    /\ ToSet(Served) \subseteq ToSet(issued)
    /\ issued \in Seq(Requests) /\ answered \in Seq(Callbacks)
    /\ waits \in Seq(WaitRecords)
    /\ network \in BOOLEAN /\ spoiled \in SUBSET {"wait"}

-----------------------------------------------------------------------------
(* The operations on the connection *)

LEMMA CloseSound ==
    ASSUME NEW sent, NEW served, NEW l, Sound(l, sent, served)
    PROVE  Sound(agent_close(l), sent, served)
<1> DEFINE m == agent_close(l)
<1>1. l \in Links
    BY DEF Sound
<1>2. <<>> \in Seq(Requests)
    OBVIOUS
<1>3. CASE l.sock
    <2>1. m = [l EXCEPT !.status = "closed", !.sock = FALSE, !.opening = FALSE,
                        !.timed = {}, !.replies = <<>>]
        BY <1>3 DEF agent_close
    <2>2. /\ m \in Links /\ m.waiting = l.waiting /\ m.filed = l.filed /\ m.messages = l.messages
          /\ m.status = "closed" /\ ~m.sock /\ ~m.opening /\ m.timed = {} /\ m.replies = <<>>
        BY <1>1, <1>2, <2>1 DEF Links, Status
    <2> HIDE DEF m
    <2>3. Orderly(m, sent, served) /\ Connection(m)
        BY <2>2 DEF Sound, Orderly, Connection
    <2>4. Carries(m, served)
        BY <2>2 DEF Sound, Carries, Quiet
    <2> QED
        BY <2>2, <2>3, <2>4 DEF Sound, m
<1>4. CASE ~l.sock
    <2>1. m = [l EXCEPT !.status = "closed"]
        BY <1>4 DEF agent_close
    <2>2. /\ m \in Links /\ m.waiting = l.waiting /\ m.filed = l.filed /\ m.messages = l.messages
          /\ m.status = "closed" /\ m.sock = l.sock /\ m.opening = l.opening
          /\ m.timed = l.timed /\ m.replies = l.replies
        BY <1>1, <2>1 DEF Links, Status
    <2> HIDE DEF m
    <2>3. l.status \notin {"opening", "connected", "timeout"} /\ l.timed = {} /\ ~l.opening
        BY <1>4 DEF Sound, Connection
    <2>4. Orderly(m, sent, served) /\ Connection(m)
        BY <1>4, <2>2, <2>3 DEF Sound, Orderly, Connection
    <2>5. Carries(m, served)
        BY <2>2 DEF Sound, Carries, Quiet
    <2> QED
        BY <2>2, <2>4, <2>5 DEF Sound, m
<1> QED
    BY <1>1, <1>3, <1>4 DEF Links

LEMMA WriteSound ==
    ASSUME NEW sent, NEW served, NEW l, Sound(l, sent, served), NEW works \in BOOLEAN
    PROVE  Sound(agent_write_msg(l, works), sent, served)
<1>1. CASE ~(network /\ l.messages # <<>> /\ l.status = "connected")
    <2>1. agent_write_msg(l, works) = l
        BY <1>1 DEF agent_write_msg
    <2> QED
        BY <2>1
<1>2. CASE network /\ l.messages # <<>> /\ l.status = "connected"
    <2> DEFINE r == Head(l.messages)
               taken == [l EXCEPT !.messages = Tail(l.messages)]
               m == [taken EXCEPT !.timed = taken.timed \cup {r},
                                  !.replies = Append(taken.replies, r)]
    <2>1. agent_write_msg(l, works) = IF works THEN m ELSE agent_close(taken)
        BY <1>2 DEF agent_write_msg
    <2>2. /\ l \in Links /\ l.filed \in Requests \ served
          /\ l.messages = <<l.filed>> /\ l.replies = <<>>
        BY <1>2 DEF Sound, Carries, Quiet
    <2>3. r = l.filed /\ Tail(l.messages) = <<>> /\ <<>> \in Seq(Requests)
        BY <2>2
    <2> HIDE DEF r
    <2>4. /\ taken \in Links /\ taken.waiting = l.waiting /\ taken.filed = l.filed
          /\ taken.status = l.status /\ taken.sock = l.sock /\ taken.opening = l.opening
          /\ taken.messages = <<>> /\ taken.timed = l.timed /\ taken.replies = <<>>
        BY <2>2, <2>3 DEF Links
    <2> HIDE DEF taken
    <2>5. Sound(taken, sent, served)
        BY <2>4 DEF Sound, Orderly, Carries, Quiet, Connection
    <2>6. Append(<<>>, r) = <<r>> /\ <<r>> \in Seq(Requests)
        BY <2>2, <2>3
    <2>7. m = [taken EXCEPT !.timed = l.timed \cup {r}, !.replies = <<r>>]
        BY <2>4, <2>6
    <2>8. /\ m \in Links /\ m.waiting = l.waiting /\ m.filed = l.filed
          /\ m.status = l.status /\ m.sock = l.sock /\ m.opening = l.opening
          /\ m.messages = <<>> /\ m.timed = l.timed \cup {r} /\ m.replies = <<r>>
        BY <2>2, <2>3, <2>4, <2>6, <2>7 DEF Links
    <2> HIDE DEF m
    <2>9. Orderly(m, sent, served) /\ Connection(m)
        BY <1>2, <2>8 DEF Sound, Orderly, Connection
    <2>10. Carries(m, served)
        BY <2>2, <2>3, <2>8 DEF Carries
    <2> QED
        BY <2>1, <2>5, <2>8, <2>9, <2>10, CloseSound DEF Sound
<1> QED
    BY <1>1, <1>2

\* A message for the request just filed.
LEMMA SendSound ==
    ASSUME NEW sent, NEW served, NEW l, Sound(l, sent, served), NEW works \in BOOLEAN,
           Quiet(l), l.filed \in Requests \ served
    PROVE  Sound(agent_send_msg(l, l.filed, works), sent, served)
<1> DEFINE r == l.filed
           m == [l EXCEPT !.messages = Append(l.messages, r)]
<1>1. \/ agent_send_msg(l, r, works) = l
      \/ agent_send_msg(l, r, works) = m
      \/ agent_send_msg(l, r, works) = agent_write_msg(m, works)
    BY DEF agent_send_msg
<1>2. l \in Links /\ Append(l.messages, r) = <<r>> /\ <<r>> \in Seq(Requests)
    BY DEF Sound, Quiet
<1>3. /\ m \in Links /\ m.waiting = l.waiting /\ m.filed = r
      /\ m.status = l.status /\ m.sock = l.sock /\ m.opening = l.opening
      /\ m.messages = <<r>> /\ m.timed = l.timed /\ m.replies = l.replies
    BY <1>2 DEF Links
<1> HIDE DEF m
<1>4. Orderly(m, sent, served) /\ Connection(m)
    BY <1>3 DEF Sound, Orderly, Connection
<1>5. Carries(m, served)
    BY <1>3 DEF Carries, Quiet
<1> QED
    BY <1>1, <1>3, <1>4, <1>5, WriteSound DEF Sound

-----------------------------------------------------------------------------
(* The operations on the queue *)

LEMMA DequeueSound ==
    ASSUME RequestsAssumption, NEW sent \in SUBSET Requests, NEW served,
           NEW l, Sound(l, sent, served), NEW works \in BOOLEAN
    PROVE  Sound(ipmi_dequeue(l, works), sent, served)
<1>1. CASE ~(l.waiting # <<>> /\ l.filed = None)
    <2>1. ipmi_dequeue(l, works) = l
        BY <1>1 DEF ipmi_dequeue
    <2> QED
        BY <2>1
<1>2. CASE l.waiting # <<>> /\ l.filed = None
    <2> DEFINE h == Head(l.waiting)
               m == [l EXCEPT !.waiting = Tail(l.waiting), !.filed = h]
    <2>1. ipmi_dequeue(l, works) = agent_send_msg(m, h, works)
        BY <1>2 DEF ipmi_dequeue
    <2>2. l \in Links /\ l.waiting \in Seq(Requests) /\ Distinct(l.waiting)
        BY DEF Sound, Orderly, Links
    <2>3. /\ h \in Requests /\ Tail(l.waiting) \in Seq(Requests) /\ Distinct(Tail(l.waiting))
          /\ h \in ToSet(l.waiting) /\ ToSet(Tail(l.waiting)) = ToSet(l.waiting) \ {h}
        BY <1>2, <2>2, TailHolds
    <2> HIDE DEF h
    <2>4. /\ m \in Links /\ m.waiting = Tail(l.waiting) /\ m.filed = h
          /\ m.status = l.status /\ m.sock = l.sock /\ m.opening = l.opening
          /\ m.messages = l.messages /\ m.timed = l.timed /\ m.replies = l.replies
        BY <2>2, <2>3 DEF Links
    <2> HIDE DEF m
    <2>5. Quiet(l)
        BY <1>2 DEF Sound, Carries, RequestsAssumption
    <2>6. Quiet(m)
        BY <2>4, <2>5 DEF Quiet
    <2>7. ToSet(l.waiting) \subseteq sent \ served
        BY DEF Sound, Orderly
    <2>8. Orderly(m, sent, served) /\ Connection(m)
        BY <2>3, <2>4, <2>7 DEF Sound, Orderly, Connection
    <2>9. Sound(m, sent, served)
        BY <2>4, <2>6, <2>8 DEF Sound, Carries
    <2>10. m.filed \in Requests \ served
        BY <2>3, <2>4, <2>7
    <2> QED
        BY <2>1, <2>4, <2>6, <2>9, <2>10, SendSound
<1> QED
    BY <1>1, <1>2

LEMMA QueueSound ==
    ASSUME RequestsAssumption, NEW sent \in SUBSET Requests, NEW served,
           NEW l, Sound(l, sent, served), NEW works \in BOOLEAN,
           NEW r \in sent \ served, r \notin ToSet(l.waiting), r # l.filed
    PROVE  Sound(ipmi_queue(l, r, works), sent, served)
<1> DEFINE m == [l EXCEPT !.waiting = InsertLast(l.waiting, r)]
<1>1. l \in Links /\ Distinct(l.waiting)
    BY DEF Sound, Orderly
<1>2. /\ InsertLast(l.waiting, r) \in Seq(Requests)
      /\ ToSet(InsertLast(l.waiting, r)) = ToSet(l.waiting) \cup {r}
      /\ Distinct(InsertLast(l.waiting, r))
    BY <1>1, InsertLastHolds DEF Links
<1>3. /\ m \in Links /\ m.waiting = InsertLast(l.waiting, r) /\ m.filed = l.filed
      /\ m.status = l.status /\ m.sock = l.sock /\ m.opening = l.opening
      /\ m.messages = l.messages /\ m.timed = l.timed /\ m.replies = l.replies
    BY <1>1, <1>2 DEF Links
<1>4. ipmi_queue(l, r, works) = ipmi_dequeue(m, works) \/ ipmi_queue(l, r, works) = m
    BY DEF ipmi_queue
<1> HIDE DEF m
<1>5. Orderly(m, sent, served) /\ Connection(m)
    BY <1>2, <1>3 DEF Sound, Orderly, Connection
<1>6. Carries(m, served)
    BY <1>3 DEF Sound, Carries, Quiet
<1> QED
    BY <1>3, <1>4, <1>5, <1>6, DequeueSound DEF Sound

-----------------------------------------------------------------------------
(* The steps.  Each lemma's second part is a step of the contract. *)

Contractual == Contract!Next \/ UNCHANGED <<issued, answered>>

LEMMA LinkFollows ==
    ASSUME NEW l \in Links, LinkBecomes(l)
    PROVE  Link' = l
BY DEF Links, Link, LinkBecomes

LEMMA Settles ==
    ASSUME NEW q, Sound(q, ToSet(issued)', ToSet(Served)'), LinkBecomes(q),
           ToSet(Served)' \subseteq ToSet(issued)',
           issued' \in Seq(Requests), answered' \in Seq(Callbacks),
           waits' \in Seq(WaitRecords),
           network' \in BOOLEAN, spoiled' \in SUBSET {"wait"}
    PROVE  Inv'
<1>1. Link' = q
    BY LinkFollows DEF Sound
<1>2. Sound(Link, ToSet(issued), ToSet(Served))'
    BY <1>1 DEF Sound, Orderly, Distinct, Carries, Quiet, Connection, ToSet
<1> QED
    BY <1>2 DEF Inv

\* What the invariant says of the parts of the state.
LEMMA Parts ==
    ASSUME Inv
    PROVE  /\ Link \in Links /\ Sound(Link, ToSet(issued), ToSet(Served))
           /\ ToSet(Served) \subseteq ToSet(issued) /\ ToSet(issued) \in SUBSET Requests
           /\ issued \in Seq(Requests) /\ answered \in Seq(Callbacks)
           /\ waits \in Seq(WaitRecords)
           /\ network \in BOOLEAN /\ spoiled \in SUBSET {"wait"}
           /\ ipmi_msgq \in Seq(Requests) /\ inprogress \in Requests \cup {None}
<1>1. Link \in Links
    BY DEF Inv, Sound
<1>2. ipmi_msgq \in Seq(Requests) /\ inprogress \in Requests \cup {None}
    BY <1>1 DEF Links, Link
<1>3. ToSet(issued) \in SUBSET Requests
    BY DEF Inv, ToSet
<1> QED
    BY <1>1, <1>2, <1>3 DEF Inv

\* Handlers that neither send nor answer a request.
LEMMA GoesOn ==
    ASSUME Inv, NEW q, Sound(q, ToSet(issued), ToSet(Served)), LinkBecomes(q),
           issued' = issued, answered' = answered, waits' \in Seq(WaitRecords),
           network' \in BOOLEAN, spoiled' = spoiled
    PROVE  Inv' /\ Contractual
<1>1. ToSet(issued)' = ToSet(issued) /\ ToSet(Served)' = ToSet(Served)
    BY DEF ToSet, Served
<1>2. Sound(q, ToSet(issued)', ToSet(Served)')
    BY <1>1
<1>3. Inv'
    BY <1>1, <1>2, Settles, Parts
<1> QED
    BY <1>3 DEF Contractual

\* What a new request changes of the sets.
LEMMA NewRequest ==
    ASSUME Inv, NEW r \in Requests, New(r)
    PROVE  /\ issued' \in Seq(Requests)
           /\ ToSet(issued)' = ToSet(issued) \cup {r}
           /\ r \notin ToSet(issued) /\ r \notin ToSet(Served)
           /\ ToSet(issued) \cup {r} \in SUBSET Requests
<1>1. /\ issued \in Seq(Requests) /\ r \notin ToSet(issued) /\ issued' = Append(issued, r)
      /\ ToSet(Served) \subseteq ToSet(issued) /\ ToSet(issued) \in SUBSET Requests
    BY Parts DEF New
<1>2. ToSet(Append(issued, r)) = ToSet(issued) \cup {r} /\ Append(issued, r) \in Seq(Requests)
    BY <1>1, AppendHolds, AppendProperties
<1>3. ToSet(issued)' = ToSet(issued) \cup {r}
    BY <1>1, <1>2 DEF ToSet
<1> QED
    BY <1>1, <1>2, <1>3

LEMMA WaitBegins ==
    ASSUME waits \in Seq(WaitRecords), NEW r \in Requests, NEW h \in Requests \cup {None}
    PROVE  Append(waits, Wait(r, h)) \in Seq(WaitRecords)
<1>1. Wait(r, h) \in WaitRecords
    BY DEF Wait, WaitRecords
<1> QED
    BY <1>1

LEMMA SendKeeps ==
    ASSUME RequestsAssumption, Inv, NEW r \in Requests, ipmi_send(r) \/ ipmi_send_sync(r)
    PROVE  Inv' /\ Contractual
<1> DEFINE I == ToSet(issued)
           S == ToSet(Served)
<1>1. PICK works \in BOOLEAN : LinkBecomes(ipmi_queue(Link, r, works))
    BY DEF ipmi_send, ipmi_send_sync
<1>2. /\ New(r) /\ answered' = answered /\ network' = network /\ spoiled' = spoiled
      /\ waits' = waits \/ waits' = Append(waits, Wait(r, None))
    BY DEF ipmi_send, ipmi_send_sync
<1>3. /\ issued' \in Seq(Requests) /\ ToSet(issued)' = I \cup {r}
      /\ r \notin I /\ r \notin S /\ I \cup {r} \in SUBSET Requests
    BY <1>2, NewRequest
<1>4. ToSet(Served)' = S
    BY <1>2 DEF ToSet, Served
<1>5. Sound(Link, I, S) /\ S \subseteq I
    BY Parts
<1>6. waits' \in Seq(WaitRecords)
    BY <1>2, Parts, WaitBegins
<1> HIDE DEF I, S
<1>7. Sound(Link, I \cup {r}, S)
    BY <1>5 DEF Sound, Orderly
<1>8. r \notin ToSet(Link.waiting) /\ r # Link.filed
    BY <1>3, <1>5 DEF Sound, Orderly, RequestsAssumption
<1>9. Sound(ipmi_queue(Link, r, works), I \cup {r}, S)
    BY <1>3, <1>7, <1>8, QueueSound
<1>10. Inv'
    <2>1. Sound(ipmi_queue(Link, r, works), ToSet(issued)', ToSet(Served)')
        BY <1>3, <1>4, <1>9
    <2>2. ToSet(Served)' \subseteq ToSet(issued)'
        BY <1>3, <1>4, <1>5
    <2>3. answered' \in Seq(Callbacks) /\ network' \in BOOLEAN /\ spoiled' \in SUBSET {"wait"}
        BY <1>2, Parts
    <2> QED
        BY <1>1, <1>3, <1>6, <2>1, <2>2, <2>3, Settles
<1>11. Contract!Next
    BY <1>2, <1>3, Parts, ContractSends DEF New
<1> QED
    BY <1>10, <1>11 DEF Contractual

LEMMA ConnectionKeeps ==
    ASSUME RequestsAssumption, Inv,
           \/ agent_open_callback \/ ConnectionLost \/ agent_open_timeout \/ agent_msg_timeout
           \/ agent_health \/ ipmi_health \/ CommentLine
    PROVE  Inv' /\ Contractual
<1> DEFINE I == ToSet(issued)
           S == ToSet(Served)
<1>1. /\ issued' = issued /\ answered' = answered /\ waits' = waits
      /\ network' = network /\ spoiled' = spoiled
    BY DEF agent_open_callback, ConnectionLost, agent_open_timeout, agent_msg_timeout,
           agent_health, ipmi_health, CommentLine, history
<1>2. waits' \in Seq(WaitRecords) /\ network' \in BOOLEAN
    BY <1>1, Parts
<1>3. Link \in Links /\ Sound(Link, I, S) /\ I \in SUBSET Requests
    BY Parts
<1>4. /\ Link.status = agent_status /\ Link.sock = agent_sock /\ Link.opening = open_after
      /\ Link.timed = sockcallback
    BY DEF Link
<1> HIDE DEF I, S
<1>5. \E q : Sound(q, I, S) /\ LinkBecomes(q)
    <2>1. ASSUME agent_open_callback
          PROVE  <1>5
        <3> DEFINE m == [Link EXCEPT !.status = "connected", !.opening = FALSE]
        <3>1. PICK works \in BOOLEAN : LinkBecomes(agent_write_msg(m, works))
            BY <2>1 DEF agent_open_callback
        <3>2. /\ m \in Links /\ m.waiting = Link.waiting /\ m.filed = Link.filed
              /\ m.status = "connected" /\ m.sock = Link.sock /\ m.opening = FALSE
              /\ m.messages = Link.messages /\ m.timed = Link.timed /\ m.replies = Link.replies
            BY <1>3 DEF Links, Status
        <3> HIDE DEF m
        <3>3. Link.sock
            BY <1>4, <2>1 DEF agent_open_callback
        <3>4. Sound(m, I, S)
            BY <1>3, <3>2, <3>3 DEF Sound, Orderly, Carries, Quiet, Connection
        <3> QED
            BY <3>1, <3>4, WriteSound
    <2>2. ASSUME ConnectionLost \/ agent_msg_timeout
          PROVE  <1>5
        <3>1. LinkBecomes(agent_close(Link))
            BY <2>2 DEF ConnectionLost, agent_msg_timeout
        <3> QED
            BY <1>3, <3>1, CloseSound
    <2>3. ASSUME agent_open_timeout
          PROVE  <1>5
        <3> DEFINE m == [Link EXCEPT !.status = "timeout", !.opening = FALSE]
        <3>1. /\ m \in Links /\ m.waiting = Link.waiting /\ m.filed = Link.filed
              /\ m.status = "timeout" /\ m.sock = Link.sock /\ m.opening = FALSE
              /\ m.messages = Link.messages /\ m.timed = Link.timed /\ m.replies = Link.replies
            BY <1>3 DEF Links, Status
        <3> HIDE DEF m
        <3>2. Link.opening
            BY <1>4, <2>3 DEF agent_open_timeout
        <3>3. Sound(m, I, S)
            BY <1>3, <3>1, <3>2 DEF Sound, Orderly, Carries, Quiet, Connection
        <3>4. LinkBecomes(m)
            BY <2>3, <3>1 DEF agent_open_timeout, LinkBecomes, Link, requests
        <3> QED
            BY <3>3, <3>4
    <2>4. ASSUME agent_health
          PROVE  <1>5
        <3>1. PICK works \in BOOLEAN :
                LinkBecomes(CASE agent_status \in {"disconnected", "closed"} -> agent_open(Link, works)
                              [] agent_status = "connected" -> agent_write_msg(Link, works)
                              [] agent_status = "timeout" -> agent_close(Link)
                              [] agent_status = "opening" -> Link)
            BY <2>4 DEF agent_health
        <3>2. CASE agent_status \in {"disconnected", "closed"}
            <4> DEFINE m == [Link EXCEPT !.status = "opening", !.sock = TRUE, !.opening = TRUE]
            <4>1. LinkBecomes(agent_open(Link, works))
                BY <3>1, <3>2
            <4>2. agent_open(Link, works) \in {Link, m}
                BY DEF agent_open
            <4>3. /\ m \in Links /\ m.waiting = Link.waiting /\ m.filed = Link.filed
                  /\ m.status = "opening" /\ m.sock = TRUE /\ m.opening = TRUE
                  /\ m.messages = Link.messages /\ m.timed = Link.timed
                  /\ m.replies = Link.replies
                BY <1>3 DEF Links, Status
            <4> HIDE DEF m
            <4>4. Link.timed = {}
                BY <1>3, <1>4, <3>2 DEF Sound, Connection
            <4>5. Sound(m, I, S)
                BY <1>3, <4>3, <4>4 DEF Sound, Orderly, Carries, Quiet, Connection
            <4> QED
                BY <1>3, <4>1, <4>2, <4>5
        <3>3. CASE agent_status = "connected"
            <4>1. LinkBecomes(agent_write_msg(Link, works))
                BY <3>1, <3>3
            <4> QED
                BY <1>3, <4>1, WriteSound
        <3>4. CASE agent_status = "timeout"
            <4>1. LinkBecomes(agent_close(Link))
                BY <3>1, <3>4
            <4> QED
                BY <1>3, <4>1, CloseSound
        <3>5. CASE agent_status = "opening"
            <4>1. LinkBecomes(Link)
                BY <3>1, <3>5
            <4> QED
                BY <1>3, <4>1
        <3> QED
            BY <1>3, <1>4, <3>2, <3>3, <3>4, <3>5 DEF Links, Status
    <2>5. ASSUME ipmi_health
          PROVE  <1>5
        <3>1. PICK works \in BOOLEAN : LinkBecomes(ipmi_dequeue(Link, works))
            BY <2>5 DEF ipmi_health
        <3> QED
            BY <1>3, <3>1, DequeueSound
    <2>6. ASSUME CommentLine
          PROVE  <1>5
        <3>1. PICK works \in BOOLEAN : LinkBecomes(agent_write_msg(Link, works))
            BY <2>6 DEF CommentLine
        <3> QED
            BY <1>3, <3>1, WriteSound
    <2> QED
        BY <2>1, <2>2, <2>3, <2>4, <2>5, <2>6
<1> QED
    BY <1>1, <1>2, <1>5, GoesOn DEF I, S

\* A line is read: it is the reply to the request on file, not answered yet.
LEMMA LineHolds ==
    ASSUME RequestsAssumption, Inv, Line
    PROVE  /\ inprogress \in Requests /\ Head(replies) = inprogress
           /\ inprogress \in ToSet(issued) \ ToSet(Served)
           /\ inprogress \notin ToSet(ipmi_msgq)
           /\ Sound(LineRead, ToSet(issued), ToSet(Served))
           /\ Sound(Received, ToSet(issued), ToSet(Served))
           /\ Sound(Cleared(Received), ToSet(issued), ToSet(Served))
           /\ Quiet(Received) /\ Received.filed = inprogress /\ Received.waiting = ipmi_msgq
           /\ Quiet(Cleared(Received)) /\ Cleared(Received).filed = None
           /\ Cleared(Received).waiting = ipmi_msgq
<1> DEFINE I == ToSet(issued)
           S == ToSet(Served)
<1>1. Link \in Links /\ Sound(Link, I, S)
    BY Parts
<1>2. /\ Link.filed = inprogress /\ Link.waiting = ipmi_msgq /\ Link.messages = agent_msgq
      /\ Link.replies = replies /\ Link.timed = sockcallback /\ replies # <<>>
    BY DEF Link, Line
<1> HIDE DEF I, S
<1>3. /\ inprogress \in Requests \ S /\ agent_msgq = <<>> /\ replies = <<inprogress>>
    BY <1>1, <1>2 DEF Sound, Carries, Quiet
<1>4. Head(replies) = inprogress /\ Tail(replies) = <<>> /\ <<>> \in Seq(Requests)
    BY <1>3
<1>5. /\ inprogress \in I /\ inprogress \notin ToSet(ipmi_msgq)
      /\ ToSet(ipmi_msgq) \subseteq I \ S /\ Distinct(ipmi_msgq)
    BY <1>1, <1>2, <1>3 DEF Sound, Orderly, RequestsAssumption
<1> DEFINE a == LineRead
           b == Received
           c == Cleared(Received)
<1>6. /\ a \in Links /\ a.waiting = ipmi_msgq /\ a.filed = inprogress
      /\ a.status = Link.status /\ a.sock = Link.sock /\ a.opening = Link.opening
      /\ a.messages = <<>> /\ a.timed = Link.timed /\ a.replies = <<>>
    <2>1. a = [Link EXCEPT !.replies = <<>>]
        BY <1>2, <1>4 DEF LineRead
    <2> QED
        BY <1>1, <1>2, <1>3, <1>4, <2>1 DEF Links
<1> HIDE DEF a
<1>7. /\ b \in Links /\ b.waiting = ipmi_msgq /\ b.filed = inprogress
      /\ b.status = Link.status /\ b.sock = Link.sock /\ b.opening = Link.opening
      /\ b.messages = <<>> /\ b.timed \subseteq Link.timed /\ b.replies = <<>>
    <2>1. b = [a EXCEPT !.timed = a.timed \ {Head(replies)}]
        BY DEF Received, a
    <2> QED
        BY <1>6, <2>1 DEF Links
<1> HIDE DEF b
<1>8. /\ c \in Links /\ c.waiting = ipmi_msgq /\ c.filed = None
      /\ c.status = Link.status /\ c.sock = Link.sock /\ c.opening = Link.opening
      /\ c.messages = <<>> /\ c.timed \subseteq Link.timed /\ c.replies = <<>>
    <2>1. c = [b EXCEPT !.filed = None]
        BY DEF Cleared, b
    <2> QED
        BY <1>7, <2>1 DEF Links
<1> HIDE DEF c
<1>9. None \notin ToSet(ipmi_msgq)
    <2>1. ipmi_msgq \in Seq(Requests)
        BY Parts
    <2> QED
        BY <2>1 DEF ToSet, RequestsAssumption
<1>10. Connection(a) /\ Connection(b) /\ Connection(c)
    BY <1>1, <1>6, <1>7, <1>8 DEF Sound, Connection
<1>11. Orderly(a, I, S) /\ Orderly(b, I, S) /\ Orderly(c, I, S)
    BY <1>5, <1>6, <1>7, <1>8, <1>9 DEF Orderly
<1>12. Quiet(a) /\ Quiet(b) /\ Quiet(c)
    BY <1>6, <1>7, <1>8 DEF Quiet
<1>13. Sound(a, I, S) /\ Sound(b, I, S) /\ Sound(c, I, S)
    BY <1>6, <1>7, <1>8, <1>10, <1>11, <1>12 DEF Sound, Carries
<1> QED
    BY <1>3, <1>4, <1>5, <1>7, <1>8, <1>12, <1>13 DEF a, b, c, I, S

LEMMA LinesKeep ==
    ASSUME RequestsAssumption, Inv, LineDropped \/ EmptyReply \/ ReplyFails
    PROVE  Inv' /\ Contractual
<1> DEFINE I == ToSet(issued)
           S == ToSet(Served)
<1>1. /\ issued' = issued /\ answered' = answered /\ waits' = waits
      /\ network' = network /\ spoiled' = spoiled /\ Line
    BY DEF LineDropped, EmptyReply, ReplyFails, history
<1>2. waits' \in Seq(WaitRecords) /\ network' \in BOOLEAN /\ I \in SUBSET Requests
    BY <1>1, Parts
<1>3. /\ inprogress \in I \ S /\ inprogress \in Requests
      /\ inprogress \notin ToSet(ipmi_msgq) /\ Sound(LineRead, I, S)
      /\ Sound(Received, I, S) /\ Sound(Cleared(Received), I, S)
      /\ Cleared(Received).filed = None /\ Cleared(Received).waiting = ipmi_msgq
    BY <1>1, LineHolds
<1> HIDE DEF I, S
<1>4. \E q : Sound(q, I, S) /\ LinkBecomes(q)
    <2>1. CASE LineDropped
        BY <1>3, <2>1 DEF LineDropped
    <2>2. CASE EmptyReply
        <3> DEFINE c == Cleared(Received)
        <3>1. PICK works \in BOOLEAN :
                LinkBecomes(agent_write_msg(ipmi_queue(c, inprogress, works), works))
            BY <2>2 DEF EmptyReply
        <3>2. Sound(c, I, S) /\ inprogress \notin ToSet(c.waiting) /\ inprogress # c.filed
            BY <1>3 DEF RequestsAssumption
        <3> HIDE DEF c
        <3>3. Sound(ipmi_queue(c, inprogress, works), I, S)
            BY <1>2, <1>3, <3>2, QueueSound
        <3> QED
            BY <3>1, <3>3, WriteSound
    <2>3. CASE ReplyFails
        BY <1>3, <2>3, WriteSound DEF ReplyFails
    <2> QED
        BY <2>1, <2>2, <2>3
<1> QED
    BY <1>1, <1>2, <1>4, GoesOn DEF I, S

\* A callback runs, and may begin a call.
LEMMA RepliesKeep ==
    ASSUME RequestsAssumption, Inv, Reply \/ \E r \in Requests : ReplyWaits(r)
    PROVE  Inv' /\ Contractual
<1> DEFINE I == ToSet(issued)
           S == ToSet(Served)
           a == inprogress
<1>1. Line /\ answered' = Append(answered, Callback(inprogress, Head(replies)))
    BY DEF Reply, ReplyWaits
<1>2. /\ issued \in Seq(Requests) /\ answered \in Seq(Callbacks)
      /\ waits \in Seq(WaitRecords) /\ I \in SUBSET Requests /\ S \subseteq I
      /\ network \in BOOLEAN /\ spoiled \in SUBSET {"wait"}
      /\ ipmi_msgq \in Seq(Requests)
    BY Parts
<1>3. /\ a \in Requests /\ Head(replies) = a /\ a \in I \ S /\ a \notin ToSet(ipmi_msgq)
      /\ Sound(Received, I, S) /\ Quiet(Received)
      /\ Received.filed = a /\ Received.waiting = ipmi_msgq
      /\ Sound(Cleared(Received), I, S) /\ Quiet(Cleared(Received))
      /\ Cleared(Received).filed = None /\ Cleared(Received).waiting = ipmi_msgq
    BY <1>1, LineHolds
<1>4. answered' = Append(answered, Callback(a, a)) /\ answered' \in Seq(Callbacks)
    BY <1>1, <1>2, <1>3, CallbackAdded
<1>5. ToSet(Served)' = S \cup {a}
    BY <1>2, <1>3, <1>4, ServedGrows
<1>6. CASE Reply
    <2> DEFINE c == Cleared(Received)
    <2>1. PICK works \in BOOLEAN : LinkBecomes(agent_write_msg(ipmi_dequeue(c, works), works))
        BY <1>6 DEF Reply
    <2>2. issued' = issued /\ waits' = waits /\ network' = network /\ spoiled' = spoiled
        BY <1>6 DEF Reply
    <2>3. ToSet(issued)' = I
        BY <2>2 DEF ToSet
    <2>4. Contract!Next
        BY <1>2, <1>3, <1>4, <2>2, ContractAnswers
    <2> HIDE DEF I, S, a, c
    <2>5. Sound(c, I, S \cup {a})
        BY <1>3 DEF Sound, Orderly, Carries, c
    <2>6. Sound(ipmi_dequeue(c, works), I, S \cup {a})
        BY <1>2, <2>5, DequeueSound
    <2>7. Sound(agent_write_msg(ipmi_dequeue(c, works), works), I, S \cup {a})
        BY <2>6, WriteSound
    <2>8. Sound(agent_write_msg(ipmi_dequeue(c, works), works), ToSet(issued)', ToSet(Served)')
        BY <1>5, <2>3, <2>7
    <2>9. ToSet(Served)' \subseteq ToSet(issued)'
        BY <1>2, <1>3, <1>5, <2>3
    <2>10. /\ issued' \in Seq(Requests) /\ waits' \in Seq(WaitRecords)
           /\ network' \in BOOLEAN /\ spoiled' \in SUBSET {"wait"}
        BY <1>2, <2>2
    <2>11. Inv'
        BY <1>4, <2>1, <2>8, <2>9, <2>10, Settles
    <2> QED
        BY <2>4, <2>11 DEF Contractual
<1>7. ASSUME NEW r \in Requests, ReplyWaits(r)
      PROVE  Inv' /\ Contractual
    <2>1. PICK works \in BOOLEAN : LinkBecomes(ipmi_queue(Received, r, works))
        BY <1>7 DEF ReplyWaits
    <2>2. /\ New(r) /\ waits' = Append(waits, Wait(r, a)) /\ network' = network
          /\ spoiled' = spoiled \cup {"wait"}
        BY <1>7 DEF ReplyWaits
    <2>3. /\ issued' \in Seq(Requests) /\ ToSet(issued)' = I \cup {r}
          /\ r \notin I /\ r \notin S /\ I \cup {r} \in SUBSET Requests
        BY <2>2, NewRequest
    <2>4. Contract!Next
        BY <1>2, <1>3, <1>4, <2>2, <2>3, ContractAnswersAndSends DEF New
    <2>5. waits' \in Seq(WaitRecords)
        BY <1>2, <1>3, <2>2, WaitBegins
    <2> HIDE DEF I, S, a
    <2>6. Sound(Received, I \cup {r}, S \cup {a})
        BY <1>3 DEF Sound, Orderly, Carries
    <2>7. r \notin ToSet(Received.waiting) /\ r # Received.filed
        BY <1>3, <2>3 DEF Sound, Orderly
    <2>8. r \in (I \cup {r}) \ (S \cup {a})
        BY <1>3, <2>3
    <2>9. Sound(ipmi_queue(Received, r, works), I \cup {r}, S \cup {a})
        BY <2>3, <2>6, <2>7, <2>8, QueueSound
    <2>10. Sound(ipmi_queue(Received, r, works), ToSet(issued)', ToSet(Served)')
        BY <1>5, <2>3, <2>9
    <2>11. ToSet(Served)' \subseteq ToSet(issued)'
        BY <1>2, <1>3, <1>5, <2>3
    <2>12. network' \in BOOLEAN /\ spoiled' \in SUBSET {"wait"}
        BY <1>2, <2>2
    <2>13. Inv'
        BY <1>4, <2>1, <2>3, <2>5, <2>10, <2>11, <2>12, Settles
    <2> QED
        BY <2>4, <2>13 DEF Contractual
<1> QED
    BY <1>6, <1>7

LEMMA OthersKeep ==
    ASSUME Inv, CallReturns \/ ToggleNetwork \/ UNCHANGED vars
    PROVE  Inv' /\ Contractual
<1>1. /\ issued' = issued /\ answered' = answered /\ spoiled' = spoiled
      /\ ipmi_msgq' = ipmi_msgq /\ inprogress' = inprogress
      /\ agent_status' = agent_status /\ agent_sock' = agent_sock /\ open_after' = open_after
      /\ agent_msgq' = agent_msgq /\ sockcallback' = sockcallback /\ replies' = replies
      /\ network' \in {network, ~network}
      /\ waits' = waits \/ (waits # <<>> /\ waits' = Front(waits))
    BY DEF CallReturns, ToggleNetwork, Returning, vars, requests, history, agent
<1>2. network' \in BOOLEAN
    BY <1>1, Parts
<1>3. waits' \in Seq(WaitRecords)
    <2>1. waits \in Seq(WaitRecords)
        BY Parts
    <2>2. ASSUME waits # <<>>
          PROVE  Front(waits) \in Seq(WaitRecords)
        BY <2>1, <2>2, FrontPlaces
    <2> QED
        BY <1>1, <2>1, <2>2
<1>4. LinkBecomes(Link)
    BY <1>1 DEF LinkBecomes, Link
<1> QED
    BY <1>1, <1>2, <1>3, <1>4, Parts, GoesOn

LEMMA StepKeepsInv ==
    ASSUME RequestsAssumption, Inv, [Next]_vars
    PROVE  Inv' /\ Contractual
BY SendKeeps, ConnectionKeeps, LinesKeep, RepliesKeep, OthersKeep DEF Next

LEMMA InitInv == ASSUME RequestsAssumption PROVE Init => Inv /\ Contract!Init
<1> SUFFICES ASSUME Init PROVE Inv /\ Contract!Init
    OBVIOUS
<1>1. /\ <<>> \in Seq(Requests) /\ <<>> \in Seq(Callbacks) /\ <<>> \in Seq(WaitRecords)
    OBVIOUS
<1>2. ToSet(<<>>) = {}
    BY DEF ToSet
<1>3. issued = <<>> /\ answered = <<>> /\ waits = <<>> /\ network = TRUE /\ spoiled = {}
    BY DEF Init
<1>4. ToSet(issued) = {} /\ ToSet(Served) = {}
    BY <1>3 DEF ToSet, Served
<1>5. Link = [waiting |-> <<>>, filed |-> None, status |-> "disconnected", sock |-> FALSE,
              opening |-> FALSE, messages |-> <<>>, timed |-> {}, replies |-> <<>>]
    BY DEF Init, Link
<1>6. Link \in Links
    BY <1>1, <1>5 DEF Links, Status
<1>7. /\ Link.waiting = <<>> /\ Link.filed = None /\ Link.status = "disconnected"
      /\ ~Link.sock /\ ~Link.opening /\ Link.messages = <<>> /\ Link.timed = {}
      /\ Link.replies = <<>>
    BY <1>5
<1>8. Sound(Link, ToSet(issued), ToSet(Served))
    <2>1. Orderly(Link, ToSet(issued), ToSet(Served))
        BY <1>2, <1>7 DEF Orderly, Distinct
    <2>2. Carries(Link, ToSet(Served)) /\ Connection(Link)
        BY <1>7 DEF Carries, Quiet, Connection
    <2> QED
        BY <1>6, <2>1, <2>2 DEF Sound
<1>9. Inv
    BY <1>1, <1>3, <1>4, <1>8 DEF Inv
<1>10. Contract!Init
    BY <1>3, <1>4 DEF Contract!Init
<1> QED
    BY <1>9, <1>10

-----------------------------------------------------------------------------
(* What strands a request *)

\* The request on file has no message under way.
Lost(l) == l.filed # None /\ Quiet(l)

\* From l to m no socket is opened, and a request is lost only with one.
Cuts(l, m) ==
    /\ m.sock => l.sock
    /\ Lost(m) => (Lost(l) /\ m.filed = l.filed) \/ (l.sock /\ ~m.sock)

\* What an operation needs of the links to lose a request only with a socket.
Ready(l) ==
    /\ l \in Links
    /\ l.status = "connected" => l.sock
    /\ l.filed = None => Quiet(l)

LEMMA SoundReady ==
    ASSUME RequestsAssumption, NEW sent, NEW served, NEW l, Sound(l, sent, served)
    PROVE  Ready(l)
BY DEF Sound, Carries, Connection, Ready, RequestsAssumption

LEMMA CutsFollow ==
    ASSUME NEW l, NEW m, NEW n, Cuts(l, m), Cuts(m, n)
    PROVE  Cuts(l, n)
BY DEF Cuts

LEMMA CloseCuts ==
    ASSUME NEW l \in Links
    PROVE  Cuts(l, agent_close(l))
<1> DEFINE m == agent_close(l)
<1>0. l.sock \in BOOLEAN
    BY DEF Links
<1>1. CASE l.sock
    <2>1. ~m.sock
        BY <1>1 DEF agent_close, Links
    <2> HIDE DEF m
    <2> QED
        BY <1>1, <2>1 DEF Cuts, m
<1>2. CASE ~l.sock
    <2>1. m = [l EXCEPT !.status = "closed"]
        BY <1>2 DEF agent_close
    <2>2. m.sock = l.sock /\ m.filed = l.filed /\ m.messages = l.messages /\ m.replies = l.replies
        BY <2>1 DEF Links
    <2> HIDE DEF m
    <2> QED
        BY <2>2 DEF Cuts, Lost, Quiet, m
<1> QED
    BY <1>0, <1>1, <1>2

\* A message that cannot be written takes its socket with it.
LEMMA WriteCuts ==
    ASSUME NEW l, Ready(l), NEW works \in BOOLEAN
    PROVE  Cuts(l, agent_write_msg(l, works))
<1>1. CASE ~(network /\ l.messages # <<>> /\ l.status = "connected")
    <2>1. agent_write_msg(l, works) = l
        BY <1>1 DEF agent_write_msg
    <2> QED
        BY <2>1 DEF Cuts
<1>2. CASE network /\ l.messages # <<>> /\ l.status = "connected"
    <2> DEFINE r == Head(l.messages)
               taken == [l EXCEPT !.messages = Tail(l.messages)]
               m == [taken EXCEPT !.timed = taken.timed \cup {r},
                                  !.replies = Append(taken.replies, r)]
               res == agent_write_msg(l, works)
    <2>1. res = IF works THEN m ELSE agent_close(taken)
        BY <1>2 DEF agent_write_msg
    <2>2. l \in Links /\ l.sock
        BY <1>2 DEF Ready
    <2>3. r \in Requests /\ Tail(l.messages) \in Seq(Requests)
        <3>1. l.messages \in Seq(Requests)
            BY <2>2 DEF Links
        <3> QED
            BY <1>2, <3>1, HeadTailProperties
    <2> HIDE DEF r
    <2>4. taken \in Links /\ taken.sock = l.sock /\ taken.replies = l.replies
        BY <2>2, <2>3 DEF Links
    <2> HIDE DEF taken
    <2>5. CASE works
        <3>1. taken.replies \in Seq(Requests)
            BY <2>4 DEF Links
        <3>2. Append(taken.replies, r) # <<>>
            BY <2>3, <3>1, AppendProperties
        <3>3. m.replies = Append(taken.replies, r) /\ m.sock = l.sock
            BY <2>4 DEF Links
        <3> HIDE DEF m
        <3>4. res.replies # <<>> /\ res.sock = l.sock
            BY <2>1, <2>5, <3>2, <3>3
        <3> HIDE DEF res
        <3>5. Cuts(l, res)
            BY <3>4 DEF Cuts, Lost, Quiet
        <3> QED
            BY <3>5 DEF res
    <2>6. CASE ~works
        <3>1. agent_close(taken).sock = FALSE
            BY <2>2, <2>4 DEF agent_close, Links
        <3>2. res = agent_close(taken)
            BY <2>1, <2>6
        <3>3. ~res.sock
            BY <3>1, <3>2
        <3> HIDE DEF res
        <3>4. Cuts(l, res)
            BY <2>2, <3>3 DEF Cuts
        <3> QED
            BY <3>4 DEF res
    <2> QED
        BY <2>5, <2>6
<1> QED
    BY <1>1, <1>2

\* A request is filed together with its message.
LEMMA SendCuts ==
    ASSUME NEW l, Ready(l), NEW works \in BOOLEAN, network,
           NEW r \in Requests, Quiet(l), l.filed # None
    PROVE  LET m == agent_send_msg(l, r, works)
           IN  (m.sock => l.sock) /\ (Lost(m) => l.sock /\ ~m.sock)
<1> DEFINE q == [l EXCEPT !.messages = Append(l.messages, r)]
           m == agent_send_msg(l, r, works)
<1>1. l \in Links /\ Append(l.messages, r) = <<r>> /\ <<r>> \in Seq(Requests) /\ Len(<<r>>) = 1
    BY DEF Ready, Quiet
<1>2. /\ q \in Links /\ q.messages = <<r>> /\ q.sock = l.sock /\ q.status = l.status
      /\ q.filed = l.filed
    BY <1>1 DEF Links
<1>3. m = agent_write_msg(q, works)
    BY <1>1, <1>2 DEF agent_send_msg
<1>4. ~Lost(q)
    BY <1>2 DEF Lost, Quiet
<1> HIDE DEF q
<1>5. Cuts(q, m)
    <2>1. Ready(q)
        BY <1>2 DEF Ready
    <2> QED
        BY <1>3, <2>1, WriteCuts
<1> HIDE DEF m
<1>6. (m.sock => l.sock) /\ (Lost(m) => l.sock /\ ~m.sock)
    BY <1>2, <1>4, <1>5 DEF Cuts
<1> QED
    BY <1>6 DEF m

LEMMA DequeueCuts ==
    ASSUME RequestsAssumption, network, NEW l, Ready(l), NEW works \in BOOLEAN
    PROVE  Cuts(l, ipmi_dequeue(l, works))
<1>1. CASE ~(l.waiting # <<>> /\ l.filed = None)
    <2>1. ipmi_dequeue(l, works) = l
        BY <1>1 DEF ipmi_dequeue
    <2> QED
        BY <2>1 DEF Cuts
<1>2. CASE l.waiting # <<>> /\ l.filed = None
    <2> DEFINE h == Head(l.waiting)
               m == [l EXCEPT !.waiting = Tail(l.waiting), !.filed = h]
               res == agent_send_msg(m, h, works)
    <2>1. ipmi_dequeue(l, works) = res
        BY <1>2 DEF ipmi_dequeue
    <2>2. l \in Links /\ l.waiting \in Seq(Requests) /\ Quiet(l)
        BY <1>2 DEF Ready, Links
    <2>3. h \in Requests /\ Tail(l.waiting) \in Seq(Requests)
        BY <1>2, <2>2, HeadTailProperties
    <2> HIDE DEF h
    <2>4. /\ m \in Links /\ m.filed = h /\ m.status = l.status /\ m.sock = l.sock
          /\ m.messages = l.messages /\ m.replies = l.replies
        BY <2>2, <2>3 DEF Links
    <2> HIDE DEF m
    <2>5. m.filed # None /\ Ready(m) /\ Quiet(m)
        BY <2>2, <2>3, <2>4 DEF Ready, Quiet, RequestsAssumption
    <2>6. (res.sock => m.sock) /\ (Lost(res) => m.sock /\ ~res.sock)
        BY <2>3, <2>5, SendCuts
    <2> HIDE DEF res
    <2> QED
        BY <2>1, <2>4, <2>6 DEF Cuts
<1> QED
    BY <1>1, <1>2

LEMMA QueueCuts ==
    ASSUME RequestsAssumption, network, NEW l, Ready(l), NEW works \in BOOLEAN,
           NEW r \in Requests
    PROVE  /\ Cuts(l, ipmi_queue(l, r, works))
           /\ l.filed # None => ipmi_queue(l, r, works).filed = l.filed
<1> DEFINE m == [l EXCEPT !.waiting = InsertLast(l.waiting, r)]
           res == ipmi_queue(l, r, works)
<1>1. l \in Links /\ l.waiting \in Seq(Requests)
    BY DEF Ready, Links
<1>2. InsertLast(l.waiting, r) \in Seq(Requests)
    BY <1>1, InsertIsQueue
<1>3. /\ m \in Links /\ m.filed = l.filed /\ m.status = l.status /\ m.sock = l.sock
      /\ m.messages = l.messages /\ m.replies = l.replies
    BY <1>1, <1>2 DEF Links
<1>4. res = ipmi_dequeue(m, works) \/ res = m
    BY DEF ipmi_queue
<1> HIDE DEF m
<1>5. Ready(m)
    BY <1>3 DEF Ready, Quiet
<1>6. Cuts(m, res)
    BY <1>4, <1>5, DequeueCuts DEF Cuts
<1>7. l.filed # None => res.filed = l.filed
    BY <1>3, <1>4 DEF ipmi_dequeue
<1> HIDE DEF res
<1>8. Cuts(l, res)
    BY <1>3, <1>6 DEF Cuts, Lost, Quiet
<1> QED
    BY <1>7, <1>8 DEF res

Cut == Stranded' => Stranded \/ ~network \/ (agent_sock /\ ~agent_sock') \/ ReplyFails

LEMMA LinkLost ==
    Stranded <=> Lost(Link) /\ ~Interrupted(inprogress)
BY DEF Stranded, Lost, Quiet, Link

LEMMA LinkCuts ==
    ASSUME NEW m, LinkBecomes(m), Cuts(Link, m),
           \A x : Interrupted(x) => Interrupted(x)'
    PROVE  Cut
<1>1. /\ inprogress' = m.filed /\ agent_sock' = m.sock
      /\ agent_msgq' = m.messages /\ replies' = m.replies
      /\ Link.filed = inprogress /\ Link.sock = agent_sock
    BY DEF LinkBecomes, Link
<1>2. Stranded' => Lost(m) /\ ~Interrupted(m.filed)'
    BY <1>1 DEF Stranded, Lost, Quiet, Interrupted
<1> QED
    BY <1>1, <1>2, LinkLost DEF Cuts, Cut

\* A call that begins interrupts what it is made in.
LEMMA WaitInterrupts ==
    ASSUME waits \in Seq(WaitRecords), NEW r \in Requests, NEW h \in Requests \cup {None},
           waits' = Append(waits, Wait(r, h))
    PROVE  Interrupted(h)' /\ \A x : Interrupted(x) => Interrupted(x)'
<1>1. Wait(r, h) \in WaitRecords /\ Wait(r, h).inside = h
    BY DEF Wait, WaitRecords
<1>2. /\ Len(waits') = Len(waits) + 1 /\ waits' \in Seq(WaitRecords)
      /\ \A i \in 1 .. Len(waits) : waits'[i] = waits[i]
      /\ waits'[Len(waits) + 1] = Wait(r, h)
    BY <1>1, AppendProperties
<1>3. Len(waits) \in Nat /\ DOMAIN waits = 1 .. Len(waits) /\ DOMAIN waits' = 1 .. Len(waits) + 1
    BY <1>2, LenProperties
<1>4. Len(waits) + 1 \in DOMAIN waits' /\ \A i \in DOMAIN waits : i \in DOMAIN waits'
    BY <1>3
<1>5. Interrupted(h)'
    BY <1>1, <1>2, <1>4 DEF Interrupted
<1>6. \A x : Interrupted(x) => Interrupted(x)'
    BY <1>2, <1>3, <1>4 DEF Interrupted
<1> QED
    BY <1>5, <1>6

LEMMA SendCut ==
    ASSUME RequestsAssumption, Inv, network,
           NEW r \in Requests, ipmi_send(r) \/ ipmi_send_sync(r)
    PROVE  Cut
<1>1. PICK works \in BOOLEAN : LinkBecomes(ipmi_queue(Link, r, works))
    BY DEF ipmi_send, ipmi_send_sync
<1>2. waits' = waits \/ waits' = Append(waits, Wait(r, None))
    BY DEF ipmi_send, ipmi_send_sync
<1>3. \A x : Interrupted(x) => Interrupted(x)'
    BY <1>2, Parts, WaitInterrupts DEF Interrupted
<1> DEFINE m == ipmi_queue(Link, r, works)
<1>4. Cuts(Link, m)
    BY Parts, SoundReady, QueueCuts
<1> HIDE DEF m
<1> QED
    BY <1>1, <1>3, <1>4, LinkCuts DEF m

LEMMA ConnectionCut ==
    ASSUME RequestsAssumption, Inv, network,
           \/ agent_open_callback \/ ConnectionLost \/ agent_open_timeout \/ agent_msg_timeout
           \/ agent_health \/ ipmi_health \/ CommentLine
    PROVE  Cut
<1>1. waits' = waits
    BY DEF agent_open_callback, ConnectionLost, agent_open_timeout, agent_msg_timeout,
           agent_health, ipmi_health, CommentLine, history
<1>2. \A x : Interrupted(x) => Interrupted(x)'
    BY <1>1 DEF Interrupted
<1>3. Link \in Links /\ Ready(Link)
    BY Parts, SoundReady
<1>4. Link.status = agent_status /\ Link.sock = agent_sock
    BY DEF Link
<1>5. CASE agent_open_callback
    <2> DEFINE m == [Link EXCEPT !.status = "connected", !.opening = FALSE]
    <2>1. PICK works \in BOOLEAN : LinkBecomes(agent_write_msg(m, works))
        BY <1>5 DEF agent_open_callback
    <2>2. /\ m \in Links /\ m.filed = Link.filed /\ m.sock = Link.sock
          /\ m.messages = Link.messages /\ m.replies = Link.replies
        BY <1>3 DEF Links, Status
    <2>3. Link.sock
        BY <1>4, <1>5 DEF agent_open_callback
    <2> HIDE DEF m
    <2>4. Ready(m) /\ Cuts(Link, m)
        BY <1>3, <2>2, <2>3 DEF Ready, Cuts, Lost, Quiet
    <2>5. Cuts(Link, agent_write_msg(m, works))
        BY <2>4, WriteCuts, CutsFollow
    <2> QED
        BY <1>2, <2>1, <2>5, LinkCuts
<1>6. CASE ConnectionLost \/ agent_msg_timeout
    <2>1. LinkBecomes(agent_close(Link))
        BY <1>6 DEF ConnectionLost, agent_msg_timeout
    <2> QED
        BY <1>2, <1>3, <2>1, CloseCuts, LinkCuts
<1>7. CASE agent_open_timeout
    BY <1>1, <1>7 DEF agent_open_timeout, requests, Cut, Stranded, Interrupted
<1>8. CASE agent_health
    <2>1. PICK works \in BOOLEAN :
            LinkBecomes(CASE agent_status \in {"disconnected", "closed"} -> agent_open(Link, works)
                          [] agent_status = "connected" -> agent_write_msg(Link, works)
                          [] agent_status = "timeout" -> agent_close(Link)
                          [] agent_status = "opening" -> Link)
        BY <1>8 DEF agent_health
    <2>2. CASE agent_status \in {"disconnected", "closed"}
        <3> DEFINE m == agent_open(Link, works)
        <3>1. LinkBecomes(m)
            BY <2>1, <2>2
        <3>2. m.filed = Link.filed /\ m.messages = Link.messages /\ m.replies = Link.replies
            BY <1>3 DEF agent_open, Links
        <3> HIDE DEF m
        <3>3. inprogress' = inprogress /\ agent_msgq' = agent_msgq /\ replies' = replies
            BY <3>1, <3>2 DEF LinkBecomes, Link
        <3> QED
            BY <1>1, <3>3 DEF Cut, Stranded, Interrupted
    <2>3. CASE agent_status = "connected"
        <3>1. LinkBecomes(agent_write_msg(Link, works))
            BY <2>1, <2>3
        <3> QED
            BY <1>2, <1>3, <3>1, WriteCuts, LinkCuts
    <2>4. CASE agent_status = "timeout"
        <3>1. LinkBecomes(agent_close(Link))
            BY <2>1, <2>4
        <3> QED
            BY <1>2, <1>3, <3>1, CloseCuts, LinkCuts
    <2>5. CASE agent_status = "opening"
        <3>1. LinkBecomes(Link) /\ Cuts(Link, Link)
            BY <2>1, <2>5 DEF Cuts
        <3> QED
            BY <1>2, <3>1, LinkCuts
    <2> QED
        BY <1>3, <1>4, <2>2, <2>3, <2>4, <2>5 DEF Links, Status
<1>9. CASE ipmi_health
    <2>1. PICK works \in BOOLEAN : LinkBecomes(ipmi_dequeue(Link, works))
        BY <1>9 DEF ipmi_health
    <2> QED
        BY <1>2, <1>3, <2>1, DequeueCuts, LinkCuts
<1>10. CASE CommentLine
    <2>1. PICK works \in BOOLEAN : LinkBecomes(agent_write_msg(Link, works))
        BY <1>10 DEF CommentLine
    <2> QED
        BY <1>2, <1>3, <2>1, WriteCuts, LinkCuts
<1> QED
    BY <1>5, <1>6, <1>7, <1>8, <1>9, <1>10

\* When a line is read the request on file is sent again or makes room for
\* the next, unless its callback waits.
LEMMA LineCut ==
    ASSUME RequestsAssumption, Inv, network,
           EmptyReply \/ Reply \/ \E r \in Requests : ReplyWaits(r)
    PROVE  Cut
<1> DEFINE I == ToSet(issued)
           S == ToSet(Served)
           c == Cleared(Received)
<1>1. Line
    BY DEF EmptyReply, Reply, ReplyWaits
<1>2. /\ inprogress \in Requests /\ inprogress \in I \ S /\ inprogress \notin ToSet(ipmi_msgq)
      /\ Sound(Received, I, S) /\ Received.filed = inprogress
      /\ Sound(c, I, S) /\ c.filed = None /\ c.waiting = ipmi_msgq
      /\ I \in SUBSET Requests
    BY <1>1, LineHolds, Parts
<1>3. Ready(Received) /\ Ready(c)
    BY <1>2, SoundReady
<1>4. Link \in Links /\ Link.sock = agent_sock
    BY Parts DEF Link
<1>5. c.sock = Link.sock
    BY <1>4 DEF Cleared, Received, LineRead, Links
<1> HIDE DEF c, I, S
<1>6. Cuts(Link, c)
    BY <1>2, <1>5 DEF Cuts, Lost
<1>7. CASE EmptyReply
    <2>1. PICK works \in BOOLEAN :
            LinkBecomes(agent_write_msg(ipmi_queue(c, inprogress, works), works))
        BY <1>7 DEF EmptyReply, c
    <2> DEFINE m == ipmi_queue(c, inprogress, works)
    <2>2. Cuts(c, m)
        BY <1>2, <1>3, QueueCuts
    <2>3. Sound(m, I, S)
        BY <1>2, QueueSound DEF RequestsAssumption
    <2> HIDE DEF m
    <2>4. Ready(m)
        BY <2>3, SoundReady
    <2>5. Cuts(m, agent_write_msg(m, works))
        BY <2>4, WriteCuts
    <2>6. Cuts(Link, agent_write_msg(m, works))
        BY <1>6, <2>2, <2>5, CutsFollow
    <2>7. \A x : Interrupted(x) => Interrupted(x)'
        BY <1>7 DEF EmptyReply, Interrupted
    <2> QED
        BY <2>1, <2>6, <2>7, LinkCuts DEF m
<1>8. CASE Reply
    <2>1. PICK works \in BOOLEAN : LinkBecomes(agent_write_msg(ipmi_dequeue(c, works), works))
        BY <1>8 DEF Reply, c
    <2> DEFINE m == ipmi_dequeue(c, works)
    <2>2. Cuts(c, m)
        BY <1>3, DequeueCuts
    <2>3. Sound(m, I, S)
        BY <1>2, DequeueSound
    <2> HIDE DEF m
    <2>4. Ready(m)
        BY <2>3, SoundReady
    <2>5. Cuts(m, agent_write_msg(m, works))
        BY <2>4, WriteCuts
    <2>6. Cuts(Link, agent_write_msg(m, works))
        BY <1>6, <2>2, <2>5, CutsFollow
    <2>7. \A x : Interrupted(x) => Interrupted(x)'
        BY <1>8 DEF Reply, Interrupted
    <2> QED
        BY <2>1, <2>6, <2>7, LinkCuts DEF m
<1>9. ASSUME NEW r \in Requests, ReplyWaits(r)
      PROVE  Cut
    <2>1. PICK works \in BOOLEAN : LinkBecomes(ipmi_queue(Received, r, works))
        BY <1>9 DEF ReplyWaits
    <2>2. ipmi_queue(Received, r, works).filed = inprogress
        <3>1. Received.filed # None
            BY <1>2 DEF RequestsAssumption
        <3>2. ipmi_queue(Received, r, works).filed = Received.filed
            BY <1>3, <3>1, QueueCuts
        <3> QED
            BY <1>2, <3>2
    <2>3. inprogress' = inprogress
        BY <2>1, <2>2 DEF LinkBecomes
    <2>4. waits' = Append(waits, Wait(r, inprogress)) /\ waits \in Seq(WaitRecords)
        BY <1>9, Parts DEF ReplyWaits
    <2>5. Interrupted(inprogress)'
        <3>1. PICK h \in Requests : h = inprogress
            BY <1>2
        <3>2. Interrupted(h)'
            BY <2>4, <3>1, WaitInterrupts
        <3> QED
            BY <2>3, <3>1, <3>2 DEF Interrupted
    <2> QED
        BY <2>3, <2>5 DEF Cut, Stranded, Interrupted
<1> QED
    BY <1>7, <1>8, <1>9

\* A call that returns was not made in a callback.
LEMMA OthersCut ==
    ASSUME Inv, CallReturns \/ ToggleNetwork \/ UNCHANGED vars
    PROVE  Cut
<1>1. UNCHANGED <<inprogress, agent_msgq, replies>>
    BY DEF CallReturns, ToggleNetwork, vars, requests, agent
<1>2. inprogress # None /\ Interrupted(inprogress) => Interrupted(inprogress)'
    <2>1. CASE CallReturns
        <3>1. waits \in Seq(WaitRecords) /\ waits # <<>>
              /\ Last(waits).inside = None /\ waits' = Front(waits)
            BY <2>1, Parts DEF CallReturns, Returning
        <3>2. /\ DOMAIN waits' = DOMAIN waits \ {Len(waits)}
              /\ \A i \in DOMAIN waits' : waits'[i] = waits[i]
              /\ waits[Len(waits)].inside = None
            BY <3>1, FrontPlaces
        <3> QED
            BY <1>1, <3>2 DEF Interrupted
    <2>2. CASE waits' = waits
        BY <1>1, <2>2 DEF Interrupted
    <2> QED
        BY <2>1, <2>2 DEF ToggleNetwork, vars
<1> QED
    BY <1>1, <1>2 DEF Cut, Stranded, Interrupted

LEMMA StepCut ==
    ASSUME RequestsAssumption, Inv, [Next]_vars
    PROVE  Cut
<1>1. CASE ~network \/ ReplyFails
    BY <1>1 DEF Cut
<1>2. CASE network /\ ~ReplyFails
    <2>1. ~LineDropped
        BY <1>2 DEF LineDropped
    <2> QED
        BY <1>2, <2>1, SendCut, ConnectionCut, LineCut, OthersCut DEF Next
<1> QED
    BY <1>1, <1>2

-----------------------------------------------------------------------------
(* Nothing is lost, and callbacks that wait stay *)

\* m holds every request that l does, and leaves the one on file there.
Holds(l, m) ==
    /\ ToSet(l.waiting) \cup {l.filed} \subseteq ToSet(m.waiting) \cup {m.filed, None}
    /\ l.filed # None => m.filed = l.filed

LEMMA HoldsFollow ==
    ASSUME NEW l, NEW m, NEW n, Holds(l, m), Holds(m, n)
    PROVE  Holds(l, n)
BY DEF Holds

LEMMA CloseHolds ==
    ASSUME NEW l \in Links
    PROVE  Holds(l, agent_close(l))
<1> DEFINE m == agent_close(l)
<1>1. m.waiting = l.waiting /\ m.filed = l.filed
    BY DEF agent_close, Links
<1> HIDE DEF m
<1> QED
    BY <1>1 DEF Holds, m

LEMMA WriteHolds ==
    ASSUME NEW l \in Links, NEW works \in BOOLEAN
    PROVE  Holds(l, agent_write_msg(l, works))
<1>1. CASE ~(network /\ l.messages # <<>> /\ l.status = "connected")
    <2>1. agent_write_msg(l, works) = l
        BY <1>1 DEF agent_write_msg
    <2> QED
        BY <2>1 DEF Holds
<1>2. CASE network /\ l.messages # <<>> /\ l.status = "connected"
    <2> DEFINE r == Head(l.messages)
               taken == [l EXCEPT !.messages = Tail(l.messages)]
               m == [taken EXCEPT !.timed = taken.timed \cup {r},
                                  !.replies = Append(taken.replies, r)]
    <2>1. agent_write_msg(l, works) = IF works THEN m ELSE agent_close(taken)
        BY <1>2 DEF agent_write_msg
    <2>2. l.messages \in Seq(Requests)
        BY DEF Links
    <2>3. Tail(l.messages) \in Seq(Requests)
        BY <1>2, <2>2, HeadTailProperties
    <2>4. taken \in Links /\ taken.waiting = l.waiting /\ taken.filed = l.filed
        BY <2>3 DEF Links
    <2> HIDE DEF taken
    <2>5. m.waiting = l.waiting /\ m.filed = l.filed
        BY <2>4 DEF Links
    <2>6. Holds(taken, agent_close(taken))
        BY <2>4, CloseHolds
    <2> HIDE DEF m
    <2> QED
        BY <2>1, <2>4, <2>5, <2>6 DEF Holds
<1> QED
    BY <1>1, <1>2

LEMMA SendHolds ==
    ASSUME NEW l \in Links, NEW works \in BOOLEAN, NEW r \in Requests
    PROVE  Holds(l, agent_send_msg(l, r, works))
<1> DEFINE m == [l EXCEPT !.messages = Append(l.messages, r)]
<1>1. \/ agent_send_msg(l, r, works) = l
      \/ agent_send_msg(l, r, works) = m
      \/ agent_send_msg(l, r, works) = agent_write_msg(m, works)
    BY DEF agent_send_msg
<1>2. l.messages \in Seq(Requests)
    BY DEF Links
<1>3. Append(l.messages, r) \in Seq(Requests)
    BY <1>2, AppendProperties
<1>4. m \in Links /\ m.waiting = l.waiting /\ m.filed = l.filed
    BY <1>3 DEF Links
<1> HIDE DEF m
<1>5. Holds(m, agent_write_msg(m, works))
    BY <1>4, WriteHolds
<1> QED
    BY <1>1, <1>4, <1>5 DEF Holds

\* What leaves the list is put on file.
LEMMA DequeueHolds ==
    ASSUME RequestsAssumption, NEW sent, NEW served,
           NEW l, Sound(l, sent, served), NEW works \in BOOLEAN
    PROVE  Holds(l, ipmi_dequeue(l, works))
<1>1. CASE ~(l.waiting # <<>> /\ l.filed = None)
    <2>1. ipmi_dequeue(l, works) = l
        BY <1>1 DEF ipmi_dequeue
    <2> QED
        BY <2>1 DEF Holds
<1>2. CASE l.waiting # <<>> /\ l.filed = None
    <2> DEFINE h == Head(l.waiting)
               m == [l EXCEPT !.waiting = Tail(l.waiting), !.filed = h]
    <2>1. ipmi_dequeue(l, works) = agent_send_msg(m, h, works)
        BY <1>2 DEF ipmi_dequeue
    <2>2. l \in Links /\ l.waiting \in Seq(Requests) /\ Distinct(l.waiting)
        BY DEF Sound, Orderly, Links
    <2>3. /\ h \in Requests /\ Tail(l.waiting) \in Seq(Requests)
          /\ ToSet(Tail(l.waiting)) = ToSet(l.waiting) \ {h}
        BY <1>2, <2>2, TailHolds
    <2> HIDE DEF h
    <2>4. m \in Links /\ m.waiting = Tail(l.waiting) /\ m.filed = h
        BY <2>2, <2>3 DEF Links
    <2> HIDE DEF m
    <2>5. Holds(l, m)
        BY <1>2, <2>3, <2>4 DEF Holds
    <2>6. Holds(m, agent_send_msg(m, h, works))
        BY <2>3, <2>4, SendHolds
    <2> QED
        BY <2>1, <2>5, <2>6, HoldsFollow
<1> QED
    BY <1>1, <1>2

\* A request queued is there afterwards.
LEMMA QueueHolds ==
    ASSUME RequestsAssumption, NEW sent \in SUBSET Requests, NEW served,
           NEW l, Sound(l, sent, served), NEW works \in BOOLEAN,
           NEW r \in sent \ served, r \notin ToSet(l.waiting), r # l.filed
    PROVE  LET q == ipmi_queue(l, r, works)
           IN  Holds(l, q) /\ r \in ToSet(q.waiting) \cup {q.filed}
<1> DEFINE m == [l EXCEPT !.waiting = InsertLast(l.waiting, r)]
           q == ipmi_queue(l, r, works)
<1>1. l \in Links /\ Distinct(l.waiting)
    BY DEF Sound, Orderly
<1>2. /\ InsertLast(l.waiting, r) \in Seq(Requests)
      /\ ToSet(InsertLast(l.waiting, r)) = ToSet(l.waiting) \cup {r}
      /\ Distinct(InsertLast(l.waiting, r))
    BY <1>1, InsertLastHolds DEF Links
<1>3. /\ m \in Links /\ m.waiting = InsertLast(l.waiting, r) /\ m.filed = l.filed
      /\ m.status = l.status /\ m.sock = l.sock /\ m.opening = l.opening
      /\ m.messages = l.messages /\ m.timed = l.timed /\ m.replies = l.replies
    BY <1>1, <1>2 DEF Links
<1>4. q = ipmi_dequeue(m, works) \/ q = m
    BY DEF ipmi_queue
<1> HIDE DEF m
<1>5. Sound(m, sent, served)
    BY <1>2, <1>3 DEF Sound, Orderly, Carries, Quiet, Connection
<1>6. Holds(m, m) /\ Holds(l, m) /\ r \in ToSet(m.waiting)
    BY <1>2, <1>3 DEF Holds
<1>7. Holds(m, ipmi_dequeue(m, works))
    BY <1>5, DequeueHolds
<1>8. Holds(m, q)
    BY <1>4, <1>6, <1>7
<1> HIDE DEF q
<1>9. Holds(l, q) /\ r \in ToSet(q.waiting) \cup {q.filed}
    BY <1>6, <1>8, HoldsFollow DEF Holds, RequestsAssumption
<1> QED
    BY <1>9 DEF q

\* A callback that waits has its own request, which is answered, on file; so
\* no reply is awaited, and what it waits for is not sent.
Stuck ==
    \A i \in DOMAIN waits : waits[i].inside # None =>
        /\ waits[i].inside = inprogress /\ inprogress \in ToSet(Served)
        /\ waits[i].request \notin ToSet(Served)

Kept == NothingLost /\ Stuck

LEMMA KeptFollows ==
    ASSUME RequestsAssumption, Inv, Kept, NEW q, LinkBecomes(q), Holds(Link, q),
           issued' = issued, answered' = answered, waits' = waits
    PROVE  Kept'
<1>1. /\ ipmi_msgq' = q.waiting /\ inprogress' = q.filed
      /\ Link.waiting = ipmi_msgq /\ Link.filed = inprogress
    BY DEF LinkBecomes, Link
<1>2. ToSet(issued)' = ToSet(issued) /\ ToSet(Served)' = ToSet(Served) /\ Waiting' = Waiting
    BY DEF ToSet, Served, Waiting
<1>3. None \notin ToSet(issued) /\ None \notin ToSet(Served)
    BY Parts DEF RequestsAssumption
<1>4. NothingLost'
    <2>1. ToSet(issued) \ ToSet(Served) \subseteq ToSet(q.waiting) \cup {q.filed}
        BY <1>1, <1>3 DEF Kept, NothingLost, Holds
    <2>2. ToSet(ipmi_msgq)' = ToSet(q.waiting)
        BY <1>1 DEF ToSet
    <2> QED
        BY <1>1, <1>2, <2>1, <2>2 DEF Kept, NothingLost
<1>5. Stuck'
    BY <1>1, <1>2, <1>3 DEF Kept, Stuck, Holds
<1> QED
    BY <1>4, <1>5 DEF Kept

\* The calls, with one more.
LEMMA WaitJoins ==
    ASSUME waits \in Seq(WaitRecords), NEW r \in Requests, NEW h \in Requests \cup {None},
           waits' = Append(waits, Wait(r, h))
    PROVE  /\ Waiting' = Waiting \cup {r}
           /\ \A i \in DOMAIN waits' :
                \/ i \in DOMAIN waits /\ waits'[i] = waits[i]
                \/ waits'[i].request = r /\ waits'[i].inside = h
<1>1. Wait(r, h) \in WaitRecords /\ Wait(r, h).request = r /\ Wait(r, h).inside = h
    BY DEF Wait, WaitRecords
<1>2. /\ DOMAIN waits' = DOMAIN waits \cup {Len(waits) + 1}
      /\ \A i \in DOMAIN waits : waits'[i] = waits[i]
      /\ waits'[Len(waits) + 1] = Wait(r, h)
    BY <1>1, AppendPlaces
<1> QED
    BY <1>1, <1>2 DEF Waiting

LEMMA SendKeepsAll ==
    ASSUME RequestsAssumption, Inv, Kept,
           NEW r \in Requests, ipmi_send(r) \/ ipmi_send_sync(r)
    PROVE  Kept'
<1> DEFINE I == ToSet(issued)
           S == ToSet(Served)
<1>1. PICK works \in BOOLEAN : LinkBecomes(ipmi_queue(Link, r, works))
    BY DEF ipmi_send, ipmi_send_sync
<1> DEFINE q == ipmi_queue(Link, r, works)
<1>2. /\ New(r) /\ answered' = answered
      /\ waits' = waits \/ waits' = Append(waits, Wait(r, None))
    BY DEF ipmi_send, ipmi_send_sync
<1>3. /\ ToSet(issued)' = I \cup {r}
      /\ r \notin I /\ r \notin S /\ I \cup {r} \in SUBSET Requests
    BY <1>2, NewRequest
<1>4. ToSet(Served)' = S
    BY <1>2 DEF ToSet, Served
<1>5. Sound(Link, I, S) /\ S \subseteq I /\ waits \in Seq(WaitRecords) /\ None \notin S
      /\ Link.waiting = ipmi_msgq /\ Link.filed = inprogress
    BY Parts DEF RequestsAssumption, Link
<1>6. I \ S \subseteq ToSet(ipmi_msgq) \cup {inprogress} /\ Waiting \subseteq I
    BY DEF Kept, NothingLost
<1> HIDE DEF I, S
<1>7. Sound(Link, I \cup {r}, S)
    BY <1>5 DEF Sound, Orderly
<1>8. r \notin ToSet(Link.waiting) /\ r # Link.filed
    BY <1>3, <1>5 DEF Sound, Orderly, RequestsAssumption
<1>9. Holds(Link, q) /\ r \in ToSet(q.waiting) \cup {q.filed}
    BY <1>3, <1>7, <1>8, QueueHolds
<1>10. ipmi_msgq' = q.waiting /\ inprogress' = q.filed
    BY <1>1 DEF LinkBecomes
<1> HIDE DEF q
<1>11. /\ Waiting' \subseteq Waiting \cup {r}
       /\ \A i \in DOMAIN waits' :
            waits'[i].inside # None => i \in DOMAIN waits /\ waits'[i] = waits[i]
    <2>1. CASE waits' = waits
        BY <2>1 DEF Waiting
    <2>2. CASE waits' = Append(waits, Wait(r, None))
        BY <1>5, <2>2, WaitJoins
    <2> QED
        BY <1>2, <2>1, <2>2
<1>12. NothingLost'
    <2>1. (I \cup {r}) \ S \subseteq ToSet(q.waiting) \cup {q.filed}
        BY <1>3, <1>5, <1>6, <1>9 DEF Holds, RequestsAssumption
    <2>2. ToSet(ipmi_msgq)' = ToSet(q.waiting)
        BY <1>10 DEF ToSet
    <2> QED
        BY <1>3, <1>4, <1>6, <1>10, <1>11, <2>1, <2>2 DEF NothingLost
<1>13. Stuck'
    BY <1>4, <1>5, <1>9, <1>10, <1>11 DEF Kept, Stuck, Holds, S
<1> QED
    BY <1>12, <1>13 DEF Kept

LEMMA ConnectionKeepsAll ==
    ASSUME RequestsAssumption, Inv, Kept,
           \/ agent_open_callback \/ ConnectionLost \/ agent_open_timeout \/ agent_msg_timeout
           \/ agent_health \/ ipmi_health \/ CommentLine \/ LineDropped \/ ReplyFails
    PROVE  Kept'
<1>1. issued' = issued /\ answered' = answered /\ waits' = waits
    BY DEF agent_open_callback, ConnectionLost, agent_open_timeout, agent_msg_timeout,
           agent_health, ipmi_health, CommentLine, LineDropped, ReplyFails, history
<1>2. Link \in Links /\ Sound(Link, ToSet(issued), ToSet(Served))
    BY Parts
<1>3. \E q : Holds(Link, q) /\ LinkBecomes(q)
    <2>1. CASE agent_open_callback
        <3> DEFINE m == [Link EXCEPT !.status = "connected", !.opening = FALSE]
        <3>1. PICK works \in BOOLEAN : LinkBecomes(agent_write_msg(m, works))
            BY <2>1 DEF agent_open_callback
        <3>2. m \in Links /\ m.waiting = Link.waiting /\ m.filed = Link.filed
            BY <1>2 DEF Links, Status
        <3> HIDE DEF m
        <3>3. Holds(m, agent_write_msg(m, works))
            BY <3>2, WriteHolds
        <3> QED
            BY <3>1, <3>2, <3>3 DEF Holds
    <2>2. CASE ConnectionLost \/ agent_msg_timeout
        <3>1. LinkBecomes(agent_close(Link))
            BY <2>2 DEF ConnectionLost, agent_msg_timeout
        <3> QED
            BY <1>2, <3>1, CloseHolds
    <2>3. CASE agent_open_timeout
        <3> DEFINE m == [Link EXCEPT !.status = "timeout", !.opening = FALSE]
        <3>1. /\ m.waiting = Link.waiting /\ m.filed = Link.filed
              /\ m.status = "timeout" /\ m.sock = Link.sock /\ m.opening = FALSE
              /\ m.messages = Link.messages /\ m.timed = Link.timed /\ m.replies = Link.replies
            BY <1>2 DEF Links, Status
        <3> HIDE DEF m
        <3>2. LinkBecomes(m)
            BY <2>3, <3>1 DEF agent_open_timeout, LinkBecomes, Link, requests
        <3>3. Holds(Link, m)
            BY <3>1 DEF Holds
        <3> QED
            BY <3>2, <3>3
    <2>4. CASE agent_health
        <3>1. PICK works \in BOOLEAN :
                LinkBecomes(CASE agent_status \in {"disconnected", "closed"} -> agent_open(Link, works)
                              [] agent_status = "connected" -> agent_write_msg(Link, works)
                              [] agent_status = "timeout" -> agent_close(Link)
                              [] agent_status = "opening" -> Link)
            BY <2>4 DEF agent_health
        <3>2. agent_status \in Status
            BY <1>2 DEF Links, Link
        <3>3. \/ LinkBecomes(agent_open(Link, works)) \/ LinkBecomes(agent_write_msg(Link, works))
              \/ LinkBecomes(agent_close(Link)) \/ LinkBecomes(Link)
            <4>1. ASSUME agent_status \in {"disconnected", "closed"} PROVE <3>3
                BY <3>1, <4>1
            <4>2. ASSUME agent_status = "connected" PROVE <3>3
                BY <3>1, <4>2
            <4>3. ASSUME agent_status = "timeout" PROVE <3>3
                BY <3>1, <4>3
            <4>4. ASSUME agent_status = "opening" PROVE <3>3
                BY <3>1, <4>4
            <4> QED
                BY <3>2, <4>1, <4>2, <4>3, <4>4 DEF Status
        <3> DEFINE m == agent_open(Link, works)
        <3>4. m.waiting = Link.waiting /\ m.filed = Link.filed
            BY <1>2 DEF agent_open, Links
        <3> HIDE DEF m
        <3>5. Holds(Link, m) /\ Holds(Link, Link)
            BY <3>4 DEF Holds
        <3> QED
            BY <1>2, <3>3, <3>5, WriteHolds, CloseHolds DEF m
    <2>5. CASE ipmi_health
        <3>1. PICK works \in BOOLEAN : LinkBecomes(ipmi_dequeue(Link, works))
            BY <2>5 DEF ipmi_health
        <3> QED
            BY <1>2, <3>1, DequeueHolds
    <2>6. CASE CommentLine
        <3>1. PICK works \in BOOLEAN : LinkBecomes(agent_write_msg(Link, works))
            BY <2>6 DEF CommentLine
        <3> QED
            BY <1>2, <3>1, WriteHolds
    <2>7. CASE LineDropped
        <3> DEFINE m == LineRead
        <3>1. LinkBecomes(m)
            BY <2>7 DEF LineDropped
        <3>2. m.waiting = Link.waiting /\ m.filed = Link.filed
            BY <1>2 DEF LineRead, Links
        <3> HIDE DEF m
        <3> QED
            BY <3>1, <3>2 DEF Holds
    <2>8. CASE ReplyFails
        <3> DEFINE m == Received
        <3>1. PICK works \in BOOLEAN : LinkBecomes(agent_write_msg(m, works))
            BY <2>8 DEF ReplyFails
        <3>2. m.waiting = Link.waiting /\ m.filed = Link.filed /\ m \in Links
            BY <2>8, LineHolds DEF ReplyFails, Sound, Link
        <3> HIDE DEF m
        <3>3. Holds(m, agent_write_msg(m, works))
            BY <3>2, WriteHolds
        <3> QED
            BY <3>1, <3>2, <3>3 DEF Holds
    <2> QED
        BY <2>1, <2>2, <2>3, <2>4, <2>5, <2>6, <2>7, <2>8
<1> QED
    BY <1>1, <1>3, KeptFollows

\* A line is read: the request on file is queued again, or is answered and
\* makes room for the next, or stays while its callback waits.
LEMMA LineKeepsAll ==
    ASSUME RequestsAssumption, Inv, Kept,
           EmptyReply \/ Reply \/ \E r \in Requests : ReplyWaits(r)
    PROVE  Kept'
<1> DEFINE I == ToSet(issued)
           S == ToSet(Served)
           a == inprogress
           c == Cleared(Received)
<1>1. Line
    BY DEF EmptyReply, Reply, ReplyWaits
<1>2. /\ a \in Requests /\ Head(replies) = a /\ a \in I \ S /\ a \notin ToSet(ipmi_msgq)
      /\ Sound(Received, I, S) /\ Received.filed = a /\ Received.waiting = ipmi_msgq
      /\ Quiet(Received)
      /\ Sound(c, I, S) /\ Quiet(c) /\ c.filed = None /\ c.waiting = ipmi_msgq
    BY <1>1, LineHolds
<1>3. /\ I \in SUBSET Requests /\ S \subseteq I /\ waits \in Seq(WaitRecords)
      /\ answered \in Seq(Callbacks)
    BY Parts
<1>4. I \ S \subseteq ToSet(ipmi_msgq) \cup {a} /\ Waiting \subseteq I
    BY DEF Kept, NothingLost
<1>5. \A i \in DOMAIN waits : waits[i].inside = None
    BY <1>2 DEF Kept, Stuck
<1>6. None \notin Requests
    BY DEF RequestsAssumption
<1>7. answered' = Append(answered, Callback(a, Head(replies))) => ToSet(Served)' = S \cup {a}
    BY <1>2, <1>3, ServedGrows
<1> HIDE DEF I, S, a, c
<1>8. CASE EmptyReply
    <2>1. PICK works \in BOOLEAN :
            LinkBecomes(agent_write_msg(ipmi_queue(c, a, works), works))
        BY <1>8 DEF EmptyReply, a, c
    <2>2. /\ ToSet(issued)' = I /\ ToSet(Served)' = S /\ waits' = waits /\ Waiting' = Waiting
        BY <1>8 DEF EmptyReply, history, I, S, ToSet, Served, Waiting
    <2> DEFINE m == ipmi_queue(c, a, works)
               q == agent_write_msg(m, works)
    <2>3. Holds(c, m) /\ a \in ToSet(m.waiting) \cup {m.filed}
        BY <1>2, <1>3, <1>6, QueueHolds
    <2>4. Sound(m, I, S)
        BY <1>2, <1>3, <1>6, QueueSound
    <2> HIDE DEF m
    <2>5. Holds(m, q)
        BY <2>4, WriteHolds DEF Sound
    <2>6. ipmi_msgq' = q.waiting /\ inprogress' = q.filed
        BY <2>1 DEF LinkBecomes, m
    <2> HIDE DEF q
    <2>7. I \ S \subseteq ToSet(q.waiting) \cup {q.filed}
        BY <1>2, <1>3, <1>4, <1>6, <2>3, <2>5 DEF Holds
    <2>8. NothingLost'
        BY <1>4, <2>2, <2>6, <2>7 DEF NothingLost, ToSet
    <2>9. Stuck'
        BY <1>5, <2>2 DEF Stuck
    <2> QED
        BY <2>8, <2>9 DEF Kept
<1>9. CASE Reply
    <2>1. PICK works \in BOOLEAN : LinkBecomes(agent_write_msg(ipmi_dequeue(c, works), works))
        BY <1>9 DEF Reply, c
    <2>2. /\ ToSet(issued)' = I /\ ToSet(Served)' = S \cup {a}
          /\ waits' = waits /\ Waiting' = Waiting
        BY <1>7, <1>9 DEF Reply, I, a, ToSet, Waiting
    <2> DEFINE m == ipmi_dequeue(c, works)
               q == agent_write_msg(m, works)
    <2>3. Holds(c, m)
        BY <1>2, <1>3, DequeueHolds
    <2>4. Sound(m, I, S)
        BY <1>2, <1>3, DequeueSound
    <2> HIDE DEF m
    <2>5. Holds(m, q)
        BY <2>4, WriteHolds DEF Sound
    <2>6. ipmi_msgq' = q.waiting /\ inprogress' = q.filed
        BY <2>1 DEF LinkBecomes, m
    <2> HIDE DEF q
    <2>7. I \ (S \cup {a}) \subseteq ToSet(q.waiting) \cup {q.filed}
        BY <1>2, <1>3, <1>4, <1>6, <2>3, <2>5 DEF Holds
    <2>8. NothingLost'
        BY <1>4, <2>2, <2>6, <2>7 DEF NothingLost, ToSet
    <2>9. Stuck'
        BY <1>5, <2>2 DEF Stuck
    <2> QED
        BY <2>8, <2>9 DEF Kept
<1>10. ASSUME NEW r \in Requests, ReplyWaits(r)
       PROVE  Kept'
    <2>1. PICK works \in BOOLEAN : LinkBecomes(ipmi_queue(Received, r, works))
        BY <1>10 DEF ReplyWaits
    <2>2. New(r) /\ waits' = Append(waits, Wait(r, a)) /\ ToSet(Served)' = S \cup {a}
        BY <1>7, <1>10 DEF ReplyWaits, a
    <2>3. /\ ToSet(issued)' = I \cup {r}
          /\ r \notin I /\ r \notin S /\ I \cup {r} \in SUBSET Requests
        BY <2>2, NewRequest DEF I, S
    <2>4. /\ Waiting' = Waiting \cup {r}
          /\ \A i \in DOMAIN waits' :
                \/ i \in DOMAIN waits /\ waits'[i] = waits[i]
                \/ waits'[i].request = r /\ waits'[i].inside = a
        BY <1>2, <1>3, <2>2, WaitJoins
    <2> DEFINE q == ipmi_queue(Received, r, works)
    <2>5. Sound(Received, I \cup {r}, S \cup {a})
        BY <1>2 DEF Sound, Orderly, Carries
    <2>6. /\ r \notin ToSet(Received.waiting) /\ r # Received.filed
          /\ r \in (I \cup {r}) \ (S \cup {a})
        BY <1>2, <2>3 DEF Sound, Orderly
    <2>7. Holds(Received, q) /\ r \in ToSet(q.waiting) \cup {q.filed}
        BY <2>3, <2>5, <2>6, QueueHolds
    <2>8. ipmi_msgq' = q.waiting /\ inprogress' = q.filed
        BY <2>1 DEF LinkBecomes
    <2> HIDE DEF q
    <2>9. (I \cup {r}) \ (S \cup {a}) \subseteq ToSet(q.waiting) \cup {q.filed}
        BY <1>2, <1>4, <1>6, <2>3, <2>7 DEF Holds
    <2>10. NothingLost'
        BY <1>4, <2>2, <2>3, <2>4, <2>8, <2>9 DEF NothingLost, ToSet
    <2>11. inprogress' = a
        BY <1>2, <1>6, <2>7, <2>8 DEF Holds
    <2>12. Stuck'
        BY <1>2, <1>5, <2>2, <2>4, <2>6, <2>11 DEF Stuck
    <2> QED
        BY <2>10, <2>12 DEF Kept
<1> QED
    BY <1>8, <1>9, <1>10

LEMMA OthersKeepAll ==
    ASSUME Inv, Kept, CallReturns \/ ToggleNetwork \/ UNCHANGED vars
    PROVE  Kept'
<1>1. /\ ToSet(issued)' = ToSet(issued) /\ ToSet(Served)' = ToSet(Served)
      /\ ToSet(ipmi_msgq)' = ToSet(ipmi_msgq) /\ inprogress' = inprogress
      /\ waits' = waits \/ (waits # <<>> /\ waits' = Front(waits))
    BY DEF CallReturns, ToggleNetwork, Returning, vars, requests, history, agent, ToSet, Served
<1>2. \A i \in DOMAIN waits' : i \in DOMAIN waits /\ waits'[i] = waits[i]
    BY <1>1, Parts, FrontPlaces
<1>3. Waiting' \subseteq Waiting
    BY <1>2 DEF Waiting
<1> QED
    BY <1>1, <1>2, <1>3 DEF Kept, NothingLost, Stuck

LEMMA StepKeepsAll ==
    ASSUME RequestsAssumption, Inv, Kept, [Next]_vars
    PROVE  Kept'
BY SendKeepsAll, ConnectionKeepsAll, LineKeepsAll, OthersKeepAll DEF Next

LEMMA InitKept == Init => Kept
<1> SUFFICES ASSUME Init PROVE Kept
    OBVIOUS
<1>1. issued = <<>> /\ answered = <<>> /\ waits = <<>>
    BY DEF Init
<1> QED
    BY <1>1 DEF Kept, NothingLost, Stuck, Waiting, ToSet, Served

-----------------------------------------------------------------------------
(* Theorems *)

\* Both links as one record stay Sound, through every chain of calls from one into
\* the other: the invariant on which the theorems below rest.
THEOREM AgentInvariant == Spec => []Inv
<1>1. Init => Inv
    BY RequestsAssumption, InitInv
<1>2. Inv /\ [Next]_vars => Inv'
    BY RequestsAssumption, StepKeepsInv
<1> QED
    BY <1>1, <1>2, PTL DEF Spec

\* The state of both links is of its type (emtagent.itcl).
THEOREM AgentTyped == Spec => []TypeOK
<1>1. Inv => TypeOK
    <2> SUFFICES ASSUME Inv PROVE TypeOK
        OBVIOUS
    <2>1. Link \in Links
        BY Parts
    <2>2. /\ ipmi_msgq \in Seq(Requests) /\ inprogress \in Requests \cup {None}
          /\ agent_status \in Status /\ agent_sock \in BOOLEAN /\ open_after \in BOOLEAN
          /\ agent_msgq \in Seq(Requests) /\ sockcallback \in SUBSET Requests
          /\ replies \in Seq(Requests)
        BY <2>1 DEF Links, Link
    <2> QED
        BY <2>2, Parts DEF TypeOK, WaitsTypeOK, WaitRecords, Callbacks, Status
<1> QED
    BY <1>1, AgentInvariant, PTL

\* Status, socket, timers and the one message under way agree (agent_open,
\* agent_close, agent_write_msg, agent_process_msg).
THEOREM AgentWatched == Spec => []Watched
<1>1. Inv => Watched
    <2> SUFFICES ASSUME Inv PROVE Watched
        OBVIOUS
    <2>1. Carries(Link, ToSet(Served)) /\ Connection(Link) /\ Link \in Links
        BY DEF Inv, Sound
    <2>2. /\ Link.filed = inprogress /\ Link.status = agent_status /\ Link.sock = agent_sock
          /\ Link.opening = open_after /\ Link.messages = agent_msgq
          /\ Link.timed = sockcallback /\ Link.replies = replies
        BY DEF Link
    <2>3. /\ open_after <=> agent_status = "opening"
          /\ agent_sock <=> agent_status \in {"opening", "connected", "timeout"}
          /\ sockcallback # {} => agent_status = "connected"
        BY <2>1, <2>2 DEF Connection
    <2>4. CASE agent_msgq = <<>> /\ replies = <<>>
        <3>1. agent_msgq \o replies = <<>>
            BY <2>4
        <3>2. ToSet(<<>>) = {} /\ Len(<<>>) = 0
            BY DEF ToSet
        <3> QED
            BY <2>3, <2>4, <3>1, <3>2 DEF Watched
    <2>5. CASE /\ inprogress \in Requests
               /\ \/ agent_msgq = <<inprogress>> /\ replies = <<>>
                  \/ agent_msgq = <<>> /\ replies = <<inprogress>> /\ inprogress \in sockcallback
        <3>1. agent_msgq \o replies = <<inprogress>>
            <4>1. <<inprogress>> \in Seq(Requests)
                BY <2>5
            <4>2. <<inprogress>> \o <<>> = <<inprogress>> /\ <<>> \o <<inprogress>> = <<inprogress>>
                BY <4>1
            <4> QED
                BY <2>5, <4>2
        <3>2. ToSet(<<inprogress>>) = {inprogress} /\ Len(<<inprogress>>) = 1 /\ ToSet(<<>>) = {}
            BY DEF ToSet
        <3>3. ToSet(replies) \subseteq sockcallback
            BY <2>5, <3>2
        <3> QED
            BY <2>3, <3>1, <3>2, <3>3 DEF Watched
    <2> QED
        BY <2>1, <2>2, <2>4, <2>5 DEF Carries, Quiet
<1> QED
    BY <1>1, AgentInvariant, PTL

\* The link keeps the contract: a message lost with its connection, an empty
\* reply or a waiting callback may leave a request unanswered for ever, but none
\* is answered twice or with another's answer (agent_process_msg, ipmi_process).
THEOREM AgentKeepsContract == Spec => KeepsContract
<1>1. Init => Contract!Init
    BY RequestsAssumption, InitInv
<1>2. Inv /\ [Next]_vars => [Contract!Next]_<<ToSet(issued) \ ToSet(Served), answered>>
    <2> SUFFICES ASSUME Inv, [Next]_vars
                 PROVE  Contract!Next \/ UNCHANGED <<ToSet(issued) \ ToSet(Served), answered>>
        OBVIOUS
    <2>1. Contractual
        BY RequestsAssumption, StepKeepsInv
    <2>2. UNCHANGED <<issued, answered>> => UNCHANGED <<ToSet(issued) \ ToSet(Served), answered>>
        BY DEF ToSet, Served
    <2> QED
        BY <2>1, <2>2 DEF Contractual
<1> QED
    BY <1>1, <1>2, AgentInvariant, PTL DEF Spec, KeepsContract, Contract!Spec

\* While the network is on, a request is left without a message, and with it
\* all that wait, only by a step that closes its socket (agent_close,
\* agent_write_msg) or by a reply on which ipmi_process fails; no answer, empty
\* reply, call or timer that leaves the socket open does it.
THEOREM OnlyFaultsStrand == Spec => StrandedOnlyByFault
<1> DEFINE A == Stranded' =>
                    Stranded \/ ~network \/ (agent_sock /\ ~agent_sock') \/ ReplyFails
<1>1. Inv /\ [Next]_vars => A
    BY RequestsAssumption, StepCut DEF Cut
<1> HIDE DEF A
<1>2. Spec => [][A]_vars
    BY <1>1, AgentInvariant, PTL DEF Spec
<1> QED
    BY <1>2 DEF A, StrandedOnlyByFault

\* Together with it: no request leaves the links, and a callback that waits stays
\* (ipmi_dequeue, ipmi_queue, ipmi_process).
THEOREM AgentKept == Spec => []Kept
<1>1. Init => Inv /\ Kept
    BY RequestsAssumption, InitInv, InitKept
<1>2. Inv /\ Kept /\ [Next]_vars => (Inv /\ Kept)'
    BY RequestsAssumption, StepKeepsInv, StepKeepsAll
<1> QED
    BY <1>1, <1>2, PTL DEF Spec

\* No close, timeout, pause, empty reply or nested call loses a request: what
\* is stranded is still on file (ipmi_queue, ipmi_dequeue, ipmi_process).
THEOREM NoRequestIsLost == Spec => []NothingLost
BY AgentKept, PTL DEF Kept

\* A synchronous call in a callback never returns, since the callback's own
\* request stays on file meanwhile (ipmi_process): that CallReturns has no part
\* for it leaves nothing out.
THEOREM WaitingCallbacksStay == Spec => []CallbacksStay
<1>1. Kept => CallbacksStay
    BY DEF Kept, Stuck, CallbacksStay
<1> QED
    BY <1>1, AgentKept, PTL
=============================================================================
