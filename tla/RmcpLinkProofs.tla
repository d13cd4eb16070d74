--------------------------- MODULE RmcpLinkProofs ---------------------------
(***************************************************************************)
(* Safety of RmcpLink, for every set of requests, any number of sessions   *)
(* and of faults: its type, Watched, and that it keeps its contract as     *)
(* long as no callback waits and no datagram comes twice.  Inv says of the *)
(* handshake that at most one of its packets is under way, and only while  *)
(* the link is opening: so the open timer and the timer of a request are   *)
(* never both armed.  Kept is the part that a waiting callback or a second *)
(* copy of an answer destroys.  InOrder, on which the order of service     *)
(* rests, survives the second copy and ends with a callback that waits; so *)
(* does NoneLost.                                                          *)
(***************************************************************************)
EXTENDS RmcpLink, RequestQueueProofs

Packets == Requests \cup ToSet(Handshake)

\* No two packets of the handshake, and none of a handshake given up.
OneHandshake == \A p, q \in host \ Requests : p = q /\ rmcp_status = "opening"

Inv == TypeOK /\ Watched /\ OneHandshake

Constants == RequestsAssumption /\ PrivilegesAssumption /\ BoundAssumption
                /\ HandshakeAssumption /\ NoneAssumption

-----------------------------------------------------------------------------
(* The operators *)

LEMMA HandshakePackets ==
    ToSet(Handshake) = {"pong", "caps", "session", "rakp2", "rakp4"}
<1>1. DOMAIN Handshake = 1 .. 5
    BY DEF Handshake
<1>2. 1 .. 5 = {1, 2, 3, 4, 5}
    OBVIOUS
<1>3. \A i \in 1 .. 5 : Handshake[i] \in {"pong", "caps", "session", "rakp2", "rakp4"}
    BY <1>2 DEF Handshake
<1>4. /\ Handshake[1] = "pong" /\ Handshake[2] = "caps" /\ Handshake[3] = "session"
      /\ Handshake[4] = "rakp2" /\ Handshake[5] = "rakp4"
    BY DEF Handshake
<1> QED
    BY <1>1, <1>2, <1>3, <1>4 DEF ToSet

LEMMA HandshakeApart ==
    ASSUME Constants
    PROVE  ToSet(Handshake) \cap Requests = {} /\ "handshake" \notin Requests \cup {None}
BY DEF Constants, HandshakeAssumption, NoneAssumption

\* What a handler leaves of the queue and the network is of its type.
DequeueTyped ==
    /\ ipmi_msgq' \in Seq(Requests)
    /\ inprogress' \in Requests \cup {None}
    /\ request_after' \in BOOLEAN
    /\ host' \subseteq Packets

\* The request in progress has its timer armed, or is the one that was filed.
LEMMA DequeueHolds ==
    ASSUME NEW q \in Seq(Requests), NEW filed \in Requests \cup {None},
           NEW timer \in BOOLEAN, NEW status, NEW held \in SUBSET Packets,
           ipmi_dequeue(q, filed, timer, status, held)
    PROVE  /\ DequeueTyped
           /\ host' \ Requests = held \ Requests
           /\ \/ inprogress' = filed /\ request_after' = timer
              \/ filed = None /\ status = "connected" /\ request_after'
<1>1. CASE q # <<>> /\ status = "connected" /\ filed = None
    <2>1. Head(q) \in Requests /\ Tail(q) \in Seq(Requests)
        BY <1>1
    <2>2. /\ ipmi_msgq' = Tail(q) /\ inprogress' = Head(q)
          /\ request_after' = TRUE /\ host' = held \cup {Head(q)}
        BY <1>1 DEF ipmi_dequeue
    <2> QED
        BY <1>1, <2>1, <2>2 DEF DequeueTyped, Packets
<1>2. CASE ~(q # <<>> /\ status = "connected" /\ filed = None)
    <2>1. ipmi_msgq' = q /\ inprogress' = filed /\ request_after' = timer /\ host' = held
        BY <1>2 DEF ipmi_dequeue
    <2> QED
        BY <2>1 DEF DequeueTyped
<1> QED
    BY <1>1, <1>2

LEMMA QueueHolds ==
    ASSUME Inv, NEW r \in Requests, NEW status, NEW held \in SUBSET Packets,
           ipmi_queue(r, status, held)
    PROVE  /\ DequeueTyped
           /\ issued' = Append(issued, r) /\ issued' \in Seq(Requests)
           /\ r \notin ToSet(issued)
           /\ host' \ Requests = held \ Requests
           /\ \/ inprogress' = inprogress /\ request_after' = request_after
              \/ inprogress = None /\ status = "connected" /\ request_after'
<1>1. /\ ipmi_msgq \in Seq(Requests) /\ inprogress \in Requests \cup {None}
      /\ request_after \in BOOLEAN /\ issued \in Seq(Requests)
    BY DEF Inv, TypeOK
<1> DEFINE q == InsertLast(ipmi_msgq, r)
<1>2. q \in Seq(Requests)
    BY <1>1, InsertIsQueue
<1>3. /\ issued' = Append(issued, r) /\ r \notin ToSet(issued)
      /\ \/ ipmi_dequeue(q, inprogress, request_after, status, held)
         \/ ipmi_msgq' = q /\ host' = held
            /\ inprogress' = inprogress /\ request_after' = request_after
    BY DEF ipmi_queue
<1>4. issued' \in Seq(Requests)
    BY <1>1, <1>3
<1> HIDE DEF q
<1>5. CASE ipmi_dequeue(q, inprogress, request_after, status, held)
    <2>1. /\ DequeueTyped
          /\ host' \ Requests = held \ Requests
          /\ \/ inprogress' = inprogress /\ request_after' = request_after
             \/ inprogress = None /\ status = "connected" /\ request_after'
        BY <1>1, <1>2, <1>5, DequeueHolds
    <2> QED
        BY <1>3, <1>4, <2>1
<1>6. CASE ipmi_msgq' = q /\ host' = held
            /\ inprogress' = inprogress /\ request_after' = request_after
    <2>1. DequeueTyped
        BY <1>1, <1>2, <1>6 DEF DequeueTyped
    <2>2. host' \ Requests = held \ Requests
        BY <1>6
    <2> QED
        BY <1>3, <1>4, <1>6, <2>1, <2>2
<1> QED
    BY <1>3, <1>5, <1>6

WaitRecords == [request : Requests, inside : Requests \cup {None} \cup {"handshake"}]

\* A call begins: its caller is interrupted, and who was still is.
LEMMA CallBegins ==
    ASSUME waits \in Seq(WaitRecords), NEW r \in Requests,
           NEW h \in Requests \cup {None, "handshake"}, waits' = Append(waits, Wait(r, h))
    PROVE  /\ waits' \in Seq(WaitRecords)
           /\ Interrupted(h)'
           /\ \A x : Interrupted(x) => Interrupted(x)'
           /\ \A x : Interrupted(x)' => Interrupted(x) \/ x = h
<1>1. Wait(r, h) \in WaitRecords /\ Wait(r, h).inside = h
    BY DEF Wait, WaitRecords
<1>2. /\ waits' \in Seq(WaitRecords)
      /\ DOMAIN waits' = DOMAIN waits \cup {Len(waits) + 1}
      /\ \A i \in DOMAIN waits : waits'[i] = waits[i]
      /\ waits'[Len(waits) + 1] = Wait(r, h)
    BY <1>1, AppendPlaces
<1> QED
    BY <1>1, <1>2 DEF Interrupted

\* A call returns: nobody but its caller goes on.
LEMMA CallEnds ==
    ASSUME waits \in Seq(WaitRecords), waits # <<>>, waits' = Front(waits)
    PROVE  /\ waits' \in Seq(WaitRecords)
           /\ \A x : Interrupted(x) => Interrupted(x)' \/ x = Last(waits).inside
           /\ \A x : Interrupted(x)' => Interrupted(x)
           /\ Interrupted(Last(waits).inside)
<1>1. /\ waits' \in Seq(WaitRecords)
      /\ DOMAIN waits' = DOMAIN waits \ {Len(waits)}
      /\ \A i \in DOMAIN waits' : waits'[i] = waits[i]
      /\ Len(waits) \in DOMAIN waits /\ Last(waits) = waits[Len(waits)]
    BY FrontPlaces
<1>2. \A x : Interrupted(x) => Interrupted(x)' \/ x = Last(waits).inside
    BY <1>1 DEF Interrupted
<1>3. Interrupted(Last(waits).inside)
    BY <1>1 DEF Interrupted
<1>4. \A x : Interrupted(x)' => Interrupted(x)
    BY <1>1 DEF Interrupted
<1> QED
    BY <1>1, <1>2, <1>3, <1>4

-----------------------------------------------------------------------------
(* The steps: Inv is kept *)

\* What handlers do to the rest of the state is of its type.
RestTyped ==
    /\ issued' \in Seq(Requests)
    /\ answered' \in Seq(Callbacks)
    /\ stale_after' \in Nat
    /\ waits' \in Seq(WaitRecords)
    /\ faults' \in 0 .. MaxFaults
    /\ spoiled' \in SUBSET {"wait", "duplicate", "ping"}

\* Steps that leave the session as it is.
LEMMA SessionKept ==
    ASSUME Constants, Inv, RestTyped, DequeueTyped, UNCHANGED session,
           \A x \in Requests : Interrupted(x) => Interrupted(x)' \/ inprogress' # x,
           host' \ Requests \subseteq host \ Requests,
           \/ inprogress' = inprogress /\ request_after' = request_after
           \/ inprogress' = inprogress /\ Interrupted(inprogress)'
           \/ inprogress' = None
           \/ rmcp_status = "connected" /\ request_after'
    PROVE  Inv'
<1>1. /\ rmcp_status' = rmcp_status /\ rmcp_sock' = rmcp_sock
      /\ rmcp_open_after' = rmcp_open_after
    BY DEF session
<1>2. TypeOK'
    BY <1>1 DEF Inv, TypeOK, RestTyped, DequeueTyped, WaitsTypeOK, WaitRecords, Callbacks, Packets
<1>3. OneHandshake'
    BY <1>1 DEF Inv, OneHandshake
<1>4. Watched'
    <2>1. inprogress \in Requests \cup {None} /\ inprogress' \in Requests \cup {None}
        BY DEF Inv, TypeOK, DequeueTyped
    <2>2. /\ rmcp_status = "opening" => rmcp_sock /\ rmcp_open_after
          /\ rmcp_status = "connected" => rmcp_sock /\ ~rmcp_open_after
          /\ inprogress # None =>
               rmcp_status = "connected" /\ (request_after \/ Interrupted(inprogress))
        BY DEF Inv, Watched
    <2>3. inprogress' # None =>
              rmcp_status' = "connected" /\ (request_after' \/ Interrupted(inprogress)')
        BY <1>1, <2>1, <2>2
    <2> QED
        BY <1>1, <2>2, <2>3 DEF Watched
<1> QED
    BY <1>2, <1>3, <1>4 DEF Inv

\* Steps that close the link.
LEMMA Closes ==
    ASSUME Constants, Inv, RestTyped, rmcp_close, rmcp_open_after' \in BOOLEAN
    PROVE  Inv'
<1>1. rmcp_status' = "closed" /\ rmcp_sock' = FALSE
    BY DEF rmcp_close
<1>2. DequeueTyped /\ inprogress' = None /\ host' \ Requests = {}
    <2>1. /\ ipmi_msgq \in Seq(Requests) /\ inprogress \in Requests \cup {None}
          /\ request_after \in BOOLEAN /\ host \in SUBSET Packets
        BY DEF Inv, TypeOK, Packets
    <2>2. CASE rmcp_sock
        <3>1. /\ ipmi_msgq' = IF inprogress = None THEN ipmi_msgq
                              ELSE InsertFirst(ipmi_msgq, inprogress)
              /\ inprogress' = None /\ request_after' = FALSE /\ host' = {}
            BY <2>2 DEF rmcp_close
        <3>2. ipmi_msgq' \in Seq(Requests)
            BY <2>1, <3>1, InsertIsQueue
        <3> QED
            BY <3>1, <3>2 DEF DequeueTyped
    <2>3. CASE ~rmcp_sock
        <3>1. ipmi_msgq' = ipmi_msgq /\ inprogress' = inprogress
              /\ request_after' = request_after /\ host' = host
            BY <2>3 DEF rmcp_close, queue
        <3>2. rmcp_status \notin {"opening", "connected"}
            BY <2>3 DEF Inv, Watched
        <3>3. inprogress = None /\ host \ Requests = {}
            BY <3>2 DEF Inv, Watched, OneHandshake
        <3> QED
            BY <2>1, <3>1, <3>3 DEF DequeueTyped
    <2> QED
        BY <2>1, <2>2, <2>3 DEF Inv, TypeOK
<1>3. TypeOK'
    BY <1>1, <1>2 DEF Inv, TypeOK, RestTyped, DequeueTyped, WaitsTypeOK, WaitRecords, Callbacks,
                      Packets
<1>4. Watched' /\ OneHandshake'
    BY <1>1, <1>2 DEF Watched, OneHandshake
<1> QED
    BY <1>3, <1>4 DEF Inv

\* The rest is of its type when it does not change, or takes a fault more.
LEMMA RestNow ==
    ASSUME Inv
    PROVE  /\ issued \in Seq(Requests) /\ answered \in Seq(Callbacks) /\ stale_after \in Nat
           /\ waits \in Seq(WaitRecords) /\ faults \in 0 .. MaxFaults
           /\ spoiled \in SUBSET {"wait", "duplicate", "ping"}
           /\ ipmi_msgq \in Seq(Requests) /\ inprogress \in Requests \cup {None}
           /\ request_after \in BOOLEAN /\ host \in SUBSET Packets
           /\ rmcp_open_after \in BOOLEAN /\ rmcp_sock \in BOOLEAN
           /\ rmcp_status \in {"disconnected", "opening", "connected", "closed"}
BY DEF Inv, TypeOK, WaitsTypeOK, WaitRecords, Callbacks, Packets

LEMMA FaultTyped ==
    ASSUME BoundAssumption, Inv, Fault \/ Fine
    PROVE  faults' \in 0 .. MaxFaults
BY DEF BoundAssumption, Inv, TypeOK, Fault, Fine

-----------------------------------------------------------------------------
(* The actions, each keeps Inv *)

LEMMA ClientKeeps ==
    ASSUME Constants, Inv, NEW r \in Requests, ipmi_send(r) \/ ipmi_send_sync(r)
    PROVE  Inv'
<1>1. /\ ipmi_queue(r, rmcp_status, host)
      /\ UNCHANGED <<answered, session, stale_after, faults, spoiled>>
      /\ waits' = waits \/ waits' = Append(waits, Wait(r, None))
    BY DEF ipmi_send, ipmi_send_sync
<1>2. /\ DequeueTyped /\ issued' \in Seq(Requests)
      /\ host' \ Requests = host \ Requests
      /\ \/ inprogress' = inprogress /\ request_after' = request_after
         \/ inprogress = None /\ rmcp_status = "connected" /\ request_after'
    BY <1>1, QueueHolds, RestNow
<1>3. waits' \in Seq(WaitRecords) /\ \A x \in Requests : Interrupted(x) => Interrupted(x)'
    <2>1. waits \in Seq(WaitRecords)
        BY RestNow
    <2>2. CASE waits' = waits
        BY <2>1, <2>2 DEF Interrupted
    <2>3. CASE waits' = Append(waits, Wait(r, None))
        BY <2>1, <2>3, CallBegins
    <2> QED
        BY <1>1, <2>2, <2>3
<1>4. RestTyped
    BY <1>1, <1>2, <1>3, RestNow DEF RestTyped
<1> QED
    BY <1>1, <1>2, <1>3, <1>4, SessionKept

LEMMA TimersKeep ==
    ASSUME Constants, Inv, Timers
    PROVE  Inv'
<1>1. ASSUME OpenTimeout
      PROVE  Inv'
    <2>1. /\ rmcp_close /\ rmcp_open_after' = FALSE
          /\ UNCHANGED <<issued, answered, stale_after, waits, spoiled>>
          /\ faults' \in 0 .. MaxFaults
        BY <1>1, FaultTyped DEF OpenTimeout, Expire, history, Constants
    <2>2. RestTyped
        BY <2>1, RestNow DEF RestTyped
    <2> QED
        BY <2>1, <2>2, Closes
<1>2. ASSUME RequestTimeout
      PROVE  Inv'
    <2>1. /\ rmcp_close
          /\ UNCHANGED <<issued, answered, rmcp_open_after, stale_after, waits, spoiled>>
          /\ faults' \in 0 .. MaxFaults
        BY <1>2, FaultTyped DEF RequestTimeout, Expire, history, Constants
    <2>2. RestTyped /\ rmcp_open_after' \in BOOLEAN
        BY <2>1, RestNow DEF RestTyped
    <2> QED
        BY <2>1, <2>2, Closes
<1>3. ASSUME StaleTimeout
      PROVE  Inv'
    <2>1. /\ rmcp_close /\ stale_after > 0 /\ stale_after' = stale_after - 1
          /\ UNCHANGED <<issued, answered, rmcp_open_after, waits, faults, spoiled>>
        BY <1>3 DEF StaleTimeout, history
    <2>2. RestTyped /\ rmcp_open_after' \in BOOLEAN
        BY <2>1, RestNow DEF RestTyped
    <2> QED
        BY <2>1, <2>2, Closes
<1>4. ASSUME ipmi_health, rmcp_open, UNCHANGED queue,
             rmcp_status \in {"disconnected", "closed"}
      PROVE  Inv'
    <2>1. /\ issued' = issued /\ answered' = answered /\ waits' = waits /\ faults' = faults
          /\ ipmi_msgq' = ipmi_msgq /\ inprogress' = inprogress
          /\ request_after' = request_after
        BY <1>4 DEF ipmi_health, history, queue
    <2>2. inprogress = None /\ host \ Requests = {}
        BY <1>4 DEF Inv, Watched, OneHandshake
    <2>3. CASE UNCHANGED <<session, stale_after, host>> /\ spoiled' \in {spoiled, spoiled \cup {"ping"}}
        <3>1. RestTyped /\ DequeueTyped /\ host' \ Requests \subseteq host \ Requests
            BY <2>1, <2>3, RestNow DEF RestTyped, DequeueTyped
        <3>2. \A x : Interrupted(x) => Interrupted(x)'
            BY <2>1 DEF Interrupted
        <3> QED
            BY <2>1, <2>3, <3>1, <3>2, SessionKept
    <2>4. CASE /\ rmcp_sock' = TRUE /\ rmcp_status' = rmcp_status
               /\ rmcp_open_after' = rmcp_open_after /\ stale_after' = stale_after
               /\ host' = host /\ spoiled' = spoiled \cup {"ping"}
        <3>1. TypeOK'
            BY <2>1, <2>4 DEF Inv, TypeOK, WaitsTypeOK
        <3>2. Watched' /\ OneHandshake'
            BY <1>4, <2>1, <2>2, <2>4 DEF Watched, OneHandshake
        <3> QED
            BY <3>1, <3>2 DEF Inv
    <2>5. CASE /\ rmcp_sock' = TRUE /\ rmcp_status' = "opening" /\ host' = {"pong"}
               /\ rmcp_open_after' = TRUE /\ spoiled' = spoiled
               /\ stale_after' = stale_after + (IF rmcp_open_after THEN 1 ELSE 0)
        <3>1. stale_after' \in Nat
            BY <2>5, RestNow
        <3>2. host' \subseteq Packets
            BY <2>5, HandshakePackets DEF Packets
        <3>3. TypeOK'
            BY <2>1, <2>5, <3>1, <3>2 DEF Inv, TypeOK, WaitsTypeOK, Packets
        <3>4. Watched' /\ OneHandshake'
            BY <2>1, <2>2, <2>5 DEF Watched, OneHandshake
        <3> QED
            BY <3>3, <3>4 DEF Inv
    <2> QED
        BY <1>4, <2>3, <2>4, <2>5 DEF rmcp_open
<1>5. ASSUME ipmi_health,
             ipmi_dequeue(ipmi_msgq, inprogress, request_after, rmcp_status, host),
             UNCHANGED <<session, stale_after, spoiled>>
      PROVE  Inv'
    <2>1. issued' = issued /\ answered' = answered /\ waits' = waits /\ faults' = faults
        BY <1>5 DEF ipmi_health, history
    <2>2. /\ DequeueTyped /\ host' \ Requests = host \ Requests
          /\ \/ inprogress' = inprogress /\ request_after' = request_after
             \/ inprogress = None /\ rmcp_status = "connected" /\ request_after'
        <3>1. /\ ipmi_msgq \in Seq(Requests) /\ inprogress \in Requests \cup {None}
              /\ request_after \in BOOLEAN /\ host \in SUBSET Packets
            BY RestNow
        <3> QED
            BY <1>5, <3>1, DequeueHolds
    <2>3. RestTyped /\ \A x : Interrupted(x) => Interrupted(x)'
        BY <1>5, <2>1, RestNow DEF RestTyped, Interrupted
    <2> QED
        BY <1>5, <2>2, <2>3, SessionKept
<1>6. ipmi_health =>
          \/ rmcp_open /\ UNCHANGED queue /\ rmcp_status \in {"disconnected", "closed"}
          \/ /\ ipmi_dequeue(ipmi_msgq, inprogress, request_after, rmcp_status, host)
             /\ UNCHANGED <<session, stale_after, spoiled>>
    BY DEF ipmi_health
<1> QED
    BY <1>1, <1>2, <1>3, <1>4, <1>5, <1>6 DEF Timers

\* A packet of the handshake is the only one, and the link is opening.
LEMMA PacketAlone ==
    ASSUME Constants, Inv, NEW p \in ToSet(Handshake), p \in host
    PROVE  /\ rmcp_status = "opening" /\ rmcp_sock /\ inprogress = None
           /\ p \notin Requests /\ host \ Requests = {p}
<1>1. p \notin Requests
    BY HandshakeApart
<1> QED
    BY <1>1 DEF Inv, OneHandshake, Watched

LEMMA HandshakeKeeps ==
    ASSUME Constants, Inv, HandshakePacket
    PROVE  Inv'
<1>0. /\ \A i \in 1 .. 5 : Handshake[i] \in ToSet(Handshake) /\ Handshake[i] \in Packets
      /\ DOMAIN Handshake = 1 .. 5
      /\ "caps" \in ToSet(Handshake) /\ "rakp4" \in ToSet(Handshake)
    <2>1. DOMAIN Handshake = 1 .. 5
        BY DEF Handshake
    <2>2. \A i \in 1 .. 5 : Handshake[i] \in ToSet(Handshake)
        BY <2>1 DEF ToSet
    <2> QED
        BY <2>1, <2>2, HandshakePackets DEF Packets
<1>1. ASSUME NEW i \in 1 .. 4, HandshakeGoesOn(i)
      PROVE  Inv'
    <2>1. Handshake[i] \in host /\ host' = (host \ {Handshake[i]}) \cup {Handshake[i + 1]}
        BY <1>1 DEF HandshakeGoesOn
    <2>2. /\ issued' = issued /\ answered' = answered /\ ipmi_msgq' = ipmi_msgq
          /\ inprogress' = inprogress /\ request_after' = request_after
          /\ rmcp_status' = rmcp_status /\ rmcp_sock' = rmcp_sock
          /\ rmcp_open_after' = rmcp_open_after /\ stale_after' = stale_after
          /\ waits' = waits /\ faults' = faults /\ spoiled' = spoiled
        BY <1>1 DEF HandshakeGoesOn, queue, history, session
    <2>3. i \in 1 .. 5 /\ i + 1 \in 1 .. 5
        OBVIOUS
    <2>4. Handshake[i] \in ToSet(Handshake) /\ Handshake[i + 1] \in Packets
        BY <1>0, <2>3
    <2>5. rmcp_status = "opening" /\ inprogress = None /\ host \ Requests = {Handshake[i]}
        BY <2>1, <2>4, PacketAlone
    <2>6. host' \ Requests \subseteq {Handshake[i + 1]} /\ host' \subseteq Packets
        BY <2>1, <2>4, <2>5, RestNow
    <2>7. TypeOK'
        BY <2>2, <2>6 DEF Inv, TypeOK, WaitsTypeOK, Packets
    <2>8. Watched' /\ OneHandshake'
        BY <2>2, <2>5, <2>6 DEF Inv, Watched, OneHandshake
    <2> QED
        BY <2>7, <2>8 DEF Inv
<1>2. ASSUME CapsRefused
      PROVE  Inv'
    <2>1. /\ rmcp_close
          /\ UNCHANGED <<issued, answered, rmcp_open_after, stale_after, waits, spoiled>>
          /\ faults' \in 0 .. MaxFaults
        BY <1>2, FaultTyped DEF CapsRefused, history, Constants
    <2>2. RestTyped /\ rmcp_open_after' \in BOOLEAN
        BY <2>1, RestNow DEF RestTyped
    <2> QED
        BY <2>1, <2>2, Closes
<1>3. ASSUME NEW i \in 1 .. 5, HandshakeRefused(i)
      PROVE  Inv'
    <2>1. /\ host' = host \ {Handshake[i]} /\ UNCHANGED <<queue, history, session>>
          /\ UNCHANGED <<stale_after, waits, spoiled>> /\ faults' \in 0 .. MaxFaults
        BY <1>3, FaultTyped DEF HandshakeRefused, Constants
    <2>2. RestTyped /\ DequeueTyped
        BY <2>1, RestNow DEF RestTyped, DequeueTyped, queue, history
    <2>3. inprogress' = inprogress /\ request_after' = request_after
        BY <2>1 DEF queue
    <2>4. \A x : Interrupted(x) => Interrupted(x)'
        BY <2>1 DEF Interrupted
    <2> QED
        BY <2>1, <2>2, <2>3, <2>4, SessionKept
<1>4. ASSUME HandshakeDone
      PROVE  Inv'
    <2> DEFINE p == NextPrivilege
    <2>1. p \in Privileges
        BY <1>4 DEF HandshakeDone, NextPrivilege
    <2>2. p \in Requests
        BY <2>1 DEF Constants, PrivilegesAssumption
    <2>3. /\ "rakp4" \in host /\ rmcp_status' = "connected" /\ rmcp_open_after' = FALSE
          /\ ipmi_queue(p, "connected", host \ {"rakp4"})
          /\ waits' = Append(waits, Wait(p, "handshake"))
          /\ answered' = answered /\ rmcp_sock' = rmcp_sock /\ stale_after' = stale_after
          /\ faults' = faults /\ spoiled' = spoiled
        BY <1>4 DEF HandshakeDone
    <2> HIDE DEF p
    <2>4. /\ rmcp_status = "opening" /\ rmcp_sock /\ inprogress = None
          /\ host \ Requests = {"rakp4"} /\ "rakp4" \notin Requests
        BY <1>0, <2>3, PacketAlone
    <2>5. host \ {"rakp4"} \in SUBSET Packets
        BY RestNow
    <2>6. /\ DequeueTyped /\ issued' \in Seq(Requests)
          /\ host' \ Requests = (host \ {"rakp4"}) \ Requests
          /\ \/ inprogress' = inprogress /\ request_after' = request_after
             \/ request_after'
        BY <2>2, <2>3, <2>5, QueueHolds
    <2>7. waits' \in Seq(WaitRecords)
        BY <2>2, <2>3, CallBegins, RestNow
    <2>8. TypeOK'
        BY <2>3, <2>4, <2>6, <2>7 DEF Inv, TypeOK, DequeueTyped, WaitsTypeOK, WaitRecords, Packets
    <2>9. Watched' /\ OneHandshake'
        BY <2>3, <2>4, <2>6 DEF Watched, OneHandshake
    <2> QED
        BY <2>8, <2>9 DEF Inv
<1> QED
    BY <1>0, <1>1, <1>2, <1>3, <1>4 DEF HandshakePacket

LEMMA AnswersKeep ==
    ASSUME Constants, Inv, AnswerPacket
    PROVE  Inv'
<1>1. ASSUME NEW a \in Requests, Answer(a) \/ UnknownAnswer(a)
      PROVE  Inv'
    <2>1. PICK held \in {host, host \ {a}} :
            /\ Receive(a, held)
            /\ \/ /\ inprogress # None
                  /\ answered' = Append(answered, Callback(inprogress, a))
               \/ answered' = answered
            /\ ipmi_dequeue(ipmi_msgq, None, FALSE, rmcp_status, held)
            /\ UNCHANGED <<issued, session, stale_after, waits>>
        BY <1>1 DEF Answer, UnknownAnswer, history
    <2>2. answered' \in Seq(Callbacks)
        <3>1. answered \in Seq(Callbacks) /\ inprogress \in Requests \cup {None}
            BY RestNow
        <3>2. CASE answered' = answered
            BY <3>1, <3>2
        <3>3. CASE inprogress # None /\ answered' = Append(answered, Callback(inprogress, a))
            BY <3>1, <3>3, CallbackAdded
        <3> QED
            BY <2>1, <3>2, <3>3
    <2>3. /\ faults' \in 0 .. MaxFaults
          /\ spoiled' = spoiled \/ spoiled' = spoiled \cup {"duplicate"}
        BY <2>1, FaultTyped DEF Receive, Constants
    <2>4. RestTyped
        BY <2>1, <2>2, <2>3, RestNow DEF RestTyped
    <2>5. held \in SUBSET Packets /\ ipmi_msgq \in Seq(Requests)
        BY RestNow
    <2>6. /\ DequeueTyped /\ host' \ Requests = held \ Requests
          /\ \/ inprogress' = None /\ request_after' = FALSE
             \/ None = None /\ rmcp_status = "connected" /\ request_after'
        BY <2>1, <2>5, DequeueHolds
    <2>7. \A x : Interrupted(x) => Interrupted(x)'
        BY <2>1 DEF Interrupted
    <2> QED
        BY <2>1, <2>4, <2>6, <2>7, SessionKept
<1>2. ASSUME NEW a \in Requests, NEW r \in Requests, AnswerWaits(a, r)
      PROVE  Inv'
    <2>1. /\ inprogress \notin {None}
          /\ answered' = Append(answered, Callback(inprogress, a))
          /\ issued' = Append(issued, r) /\ ipmi_msgq' = InsertLast(ipmi_msgq, r)
          /\ request_after' = FALSE /\ waits' = Append(waits, Wait(r, inprogress))
          /\ host' = host \ {a} /\ spoiled' = spoiled \cup {"wait"}
          /\ UNCHANGED <<inprogress, session, stale_after, faults>>
        BY <1>2 DEF AnswerWaits
    <2>2. inprogress \in Requests
        BY <2>1, RestNow
    <2>3. /\ waits' \in Seq(WaitRecords) /\ Interrupted(inprogress)'
          /\ \A x : Interrupted(x) => Interrupted(x)'
        BY <2>1, <2>2, RestNow, CallBegins
    <2>4. answered' \in Seq(Callbacks) /\ issued' \in Seq(Requests)
        BY <2>1, <2>2, RestNow, CallbackAdded
    <2>5. RestTyped
        BY <2>1, <2>3, <2>4, RestNow DEF RestTyped
    <2>6. ipmi_msgq' \in Seq(Requests)
        BY <2>1, RestNow, InsertIsQueue
    <2>7. DequeueTyped
        BY <2>1, <2>2, <2>6, RestNow DEF DequeueTyped
    <2> QED
        BY <2>1, <2>3, <2>5, <2>7, SessionKept
<1> QED
    BY <1>1, <1>2 DEF AnswerPacket

LEMMA ReturnsKeep ==
    ASSUME Constants, Inv, Returns
    PROVE  Inv'
<1>0. waits # <<>> /\ waits' = Front(waits) /\ issued' = issued /\ answered' = answered
    BY DEF Returns, HandshakeReturns, CallbackReturns, CallReturns, Returning, history
<1>1. /\ waits' \in Seq(WaitRecords)
      /\ \A x : Interrupted(x) => Interrupted(x)' \/ x = Last(waits).inside
    BY <1>0, RestNow, CallEnds
<1>2. /\ ipmi_msgq \in Seq(Requests) /\ inprogress \in Requests \cup {None}
      /\ request_after \in BOOLEAN /\ host \in SUBSET Packets
    BY RestNow
<1>3. ASSUME HandshakeReturns
      PROVE  Inv'
    <2>1. \A x \in Requests : Interrupted(x) => Interrupted(x)'
        BY <1>1, <1>3, HandshakeApart DEF HandshakeReturns
    <2>2. stale_after' = stale_after /\ spoiled' = spoiled
        BY <1>3 DEF HandshakeReturns
    <2>3. CASE /\ ipmi_dequeue(ipmi_msgq, inprogress, request_after, rmcp_status, host)
               /\ UNCHANGED <<session, faults>>
        <3>1. /\ DequeueTyped /\ host' \ Requests = host \ Requests
              /\ \/ inprogress' = inprogress /\ request_after' = request_after
                 \/ inprogress = None /\ rmcp_status = "connected" /\ request_after'
            BY <1>2, <2>3, DequeueHolds
        <3>2. RestTyped
            BY <1>0, <1>1, <2>2, <2>3, RestNow DEF RestTyped
        <3> QED
            BY <2>1, <2>3, <3>1, <3>2, SessionKept
    <2>4. CASE Fault /\ rmcp_close /\ UNCHANGED rmcp_open_after
        <3>1. faults' \in 0 .. MaxFaults
            BY <2>4, FaultTyped DEF Constants
        <3>2. RestTyped /\ rmcp_open_after' \in BOOLEAN
            BY <1>0, <1>1, <2>2, <2>4, <3>1, RestNow DEF RestTyped
        <3> QED
            BY <2>4, <3>2, Closes
    <2> QED
        BY <1>3, <2>3, <2>4 DEF HandshakeReturns
<1>4. ASSUME CallbackReturns
      PROVE  Inv'
    <2>1. /\ stale_after' = stale_after + (IF request_after THEN 1 ELSE 0)
          /\ ipmi_dequeue(ipmi_msgq, None, FALSE, rmcp_status, host)
          /\ UNCHANGED <<session, faults, spoiled>> /\ Last(waits).inside \in Requests
        BY <1>4 DEF CallbackReturns
    <2>2. stale_after' \in Nat
        BY <2>1, RestNow
    <2>3. RestTyped
        BY <1>0, <1>1, <2>1, <2>2, RestNow DEF RestTyped
    <2>4. /\ DequeueTyped /\ host' \ Requests = host \ Requests
          /\ \/ inprogress' = None /\ request_after' = FALSE
             \/ None = None /\ rmcp_status = "connected" /\ request_after'
        BY <1>2, <2>1, DequeueHolds
    <2>5. CASE inprogress' = None
        <3>1. \A x \in Requests : inprogress' # x
            BY <2>5 DEF Constants, RequestsAssumption
        <3> QED
            BY <2>1, <2>3, <2>4, <2>5, <3>1, SessionKept
    <2>6. CASE rmcp_status = "connected" /\ request_after'
        \* The timer of what is newly in progress is armed.
        <3>1. /\ rmcp_status' = rmcp_status /\ rmcp_sock' = rmcp_sock
              /\ rmcp_open_after' = rmcp_open_after
            BY <2>1 DEF session
        <3>2. TypeOK'
            BY <2>3, <2>4, <3>1 DEF Inv, TypeOK, RestTyped, DequeueTyped, WaitsTypeOK,
                                   WaitRecords, Callbacks, Packets
        <3>3. Watched' /\ OneHandshake'
            BY <2>4, <2>6, <3>1 DEF Inv, Watched, OneHandshake
        <3> QED
            BY <3>2, <3>3 DEF Inv
    <2> QED
        BY <2>4, <2>5, <2>6
<1>5. ASSUME CallReturns
      PROVE  Inv'
    <2>1. /\ Last(waits).inside = None
          /\ UNCHANGED <<queue, session, stale_after, host, faults, spoiled>>
        BY <1>5 DEF CallReturns
    <2>2. RestTyped /\ DequeueTyped /\ inprogress' = inprogress /\ request_after' = request_after
        BY <1>0, <1>1, <2>1, RestNow DEF RestTyped, DequeueTyped, queue
    <2>3. \A x \in Requests : Interrupted(x) => Interrupted(x)'
        BY <1>1, <2>1 DEF Constants, RequestsAssumption
    <2> QED
        BY <2>1, <2>2, <2>3, SessionKept
<1> QED
    BY <1>3, <1>4, <1>5 DEF Returns

LEMMA InitInv == ASSUME Constants PROVE Init => Inv
<1> SUFFICES ASSUME Init PROVE Inv
    OBVIOUS
<1>1. <<>> \in Seq(Requests) /\ <<>> \in Seq(Callbacks) /\ <<>> \in Seq(WaitRecords)
    OBVIOUS
<1>2. TypeOK
    <2>1. /\ ipmi_msgq \in Seq(Requests) /\ issued \in Seq(Requests)
          /\ answered \in Seq(Callbacks) /\ waits \in Seq(WaitRecords)
        BY <1>1 DEF Init
    <2>2. /\ inprogress \in Requests \cup {None} /\ request_after \in BOOLEAN
          /\ rmcp_status \in {"disconnected", "opening", "connected", "closed"}
          /\ rmcp_sock \in BOOLEAN /\ rmcp_open_after \in BOOLEAN /\ stale_after \in Nat
          /\ host \subseteq Requests \cup ToSet(Handshake)
          /\ spoiled \subseteq {"wait", "duplicate", "ping"}
        BY DEF Init
    <2>3. faults \in 0 .. MaxFaults
        BY DEF Init, Constants, BoundAssumption
    <2> QED
        BY <2>1, <2>2, <2>3 DEF TypeOK, WaitsTypeOK, WaitRecords, Callbacks
<1>3. Watched /\ OneHandshake
    BY DEF Init, Watched, OneHandshake
<1> QED
    BY <1>2, <1>3 DEF Inv

LEMMA ConstantsHold == Constants
BY RequestsAssumption, PrivilegesAssumption, BoundAssumption, HandshakeAssumption,
   NoneAssumption DEF Constants

LEMMA StepKeepsInv == Inv /\ [Next]_vars => Inv'
<1> SUFFICES ASSUME Inv, [Next]_vars PROVE Inv'
    OBVIOUS
<1>1. CASE UNCHANGED vars
    <2>1. /\ issued' = issued /\ answered' = answered /\ ipmi_msgq' = ipmi_msgq
          /\ inprogress' = inprogress /\ request_after' = request_after
          /\ rmcp_status' = rmcp_status /\ rmcp_sock' = rmcp_sock
          /\ rmcp_open_after' = rmcp_open_after /\ stale_after' = stale_after
          /\ host' = host /\ waits' = waits /\ faults' = faults /\ spoiled' = spoiled
        BY <1>1 DEF vars, queue, history, session
    <2> QED
        BY <2>1 DEF Inv, TypeOK, Watched, OneHandshake, WaitsTypeOK, Interrupted
<1>2. CASE Client
    BY <1>2, ConstantsHold, ClientKeeps DEF Client
<1>3. CASE Timers
    BY <1>3, ConstantsHold, TimersKeep
<1>4. CASE HandshakePacket
    BY <1>4, ConstantsHold, HandshakeKeeps
<1>5. CASE AnswerPacket
    BY <1>5, ConstantsHold, AnswersKeep
<1>6. CASE Returns
    BY <1>6, ConstantsHold, ReturnsKeep
<1> QED
    BY <1>1, <1>2, <1>3, <1>4, <1>5, <1>6 DEF Next

-----------------------------------------------------------------------------
(* The contract *)

\* The list q holds requests that were sent and not answered, each once, and
\* not the one in progress, which was not answered either.
Orderly(q, filed, sent, served) ==
    /\ Distinct(q) /\ filed \notin ToSet(q)
    /\ ToSet(q) \subseteq sent \ served
    /\ filed \in (sent \ served) \cup {None}

\* An answer on its way is the one to the request in progress, and no callback
\* is waiting.
Kept ==
    /\ Orderly(ipmi_msgq, inprogress, ToSet(issued), ToSet(Served))
    /\ ToSet(Served) \subseteq ToSet(issued)
    /\ host \cap Requests \subseteq {inprogress}
    /\ \A x \in Requests : ~Interrupted(x)

Unspoiled == spoiled \subseteq {"ping"}

Contractual == Contract!Next \/ (issued' = issued /\ answered' = answered)

LEMMA DequeueOrderly ==
    ASSUME Constants, NEW q \in Seq(Requests), NEW filed, NEW timer, NEW status, NEW held,
           NEW sent, NEW served, Orderly(q, filed, sent, served),
           held \cap Requests \subseteq {filed},
           ipmi_dequeue(q, filed, timer, status, held)
    PROVE  /\ Orderly(ipmi_msgq', inprogress', sent, served)
           /\ host' \cap Requests \subseteq {inprogress'}
<1>1. CASE q # <<>> /\ status = "connected" /\ filed = None
    <2>1. /\ Head(q) \in Requests /\ Distinct(Tail(q))
          /\ Head(q) \in ToSet(q) /\ ToSet(Tail(q)) = ToSet(q) \ {Head(q)}
        BY <1>1, TailHolds DEF Orderly
    <2>2. ipmi_msgq' = Tail(q) /\ inprogress' = Head(q) /\ host' = held \cup {Head(q)}
        BY <1>1 DEF ipmi_dequeue
    <2>3. held \cap Requests = {}
        BY <1>1 DEF Constants, RequestsAssumption
    <2> QED
        BY <2>1, <2>2, <2>3 DEF Orderly
<1>2. CASE ~(q # <<>> /\ status = "connected" /\ filed = None)
    <2>1. ipmi_msgq' = q /\ inprogress' = filed /\ host' = held
        BY <1>2 DEF ipmi_dequeue
    <2> QED
        BY <2>1
<1> QED
    BY <1>1, <1>2

\* A new request is queued, and perhaps sent.
LEMMA QueueKeeps ==
    ASSUME Constants, Inv, Kept, NEW r \in Requests, NEW status, NEW held \in SUBSET host,
           ipmi_queue(r, status, held), answered' = answered,
           \A x \in Requests : ~Interrupted(x)'
    PROVE  Kept' /\ Contract!Next
<1> DEFINE q == InsertLast(ipmi_msgq, r)
           I == ToSet(issued)
           S == ToSet(Served)
<1>1. /\ issued' = Append(issued, r) /\ r \notin I
      /\ \/ ipmi_dequeue(q, inprogress, request_after, status, held)
         \/ ipmi_msgq' = q /\ host' = held /\ inprogress' = inprogress
    BY DEF ipmi_queue
<1>2. /\ ipmi_msgq \in Seq(Requests) /\ issued \in Seq(Requests) /\ answered \in Seq(Callbacks)
      /\ inprogress \in Requests \cup {None}
    BY RestNow
<1>3. ToSet(Append(issued, r)) = I \cup {r}
    BY <1>2, AppendHolds
<1>4. ToSet(issued)' = I \cup {r} /\ ToSet(Served)' = S
    BY <1>1, <1>3 DEF ToSet, Served
<1>5. /\ Distinct(ipmi_msgq) /\ inprogress \notin ToSet(ipmi_msgq)
      /\ ToSet(ipmi_msgq) \subseteq I \ S
      /\ inprogress \in (I \ S) \cup {None} /\ S \subseteq I
    BY DEF Kept, Orderly
<1>6. /\ q \in Seq(Requests) /\ ToSet(q) = ToSet(ipmi_msgq) \cup {r}
      /\ Distinct(ipmi_msgq) /\ r \notin ToSet(ipmi_msgq) => Distinct(q)
    BY <1>2, InsertLastHolds
<1> HIDE DEF q, I, S
<1>7. r \notin ToSet(ipmi_msgq) /\ r # inprogress /\ r \notin S
    BY <1>1, <1>5 DEF Constants, RequestsAssumption
<1>8. Orderly(q, inprogress, I \cup {r}, S)
    BY <1>5, <1>6, <1>7 DEF Orderly
<1>9. held \cap Requests \subseteq {inprogress}
    BY DEF Kept
<1>10. Orderly(ipmi_msgq', inprogress', I \cup {r}, S)
       /\ host' \cap Requests \subseteq {inprogress'}
    <2>1. CASE ipmi_dequeue(q, inprogress, request_after, status, held)
        BY <1>6, <1>8, <1>9, <2>1, DequeueOrderly
    <2>2. CASE ipmi_msgq' = q /\ host' = held /\ inprogress' = inprogress
        BY <1>8, <1>9, <2>2
    <2> QED
        BY <1>1, <2>1, <2>2
<1>11. Kept'
    BY <1>4, <1>5, <1>10 DEF Kept, Orderly, Distinct, ToSet
<1>12. Contract!Next
    BY <1>1, <1>2, <1>5, ContractSends DEF I, S
<1> QED
    BY <1>11, <1>12

\* The request in progress goes back into the queue.
LEMMA CloseKeeps ==
    ASSUME Constants, Inv, Kept, rmcp_close, issued' = issued, answered' = answered,
           \A x \in Requests : ~Interrupted(x)'
    PROVE  Kept'
<1> DEFINE I == ToSet(issued)
           S == ToSet(Served)
<1>1. ToSet(issued)' = I /\ ToSet(Served)' = S
    BY DEF ToSet, Served
<1>2. ipmi_msgq \in Seq(Requests) /\ inprogress \in Requests \cup {None}
    BY RestNow
<1>3. /\ Distinct(ipmi_msgq) /\ inprogress \notin ToSet(ipmi_msgq)
      /\ ToSet(ipmi_msgq) \subseteq I \ S
      /\ inprogress \in (I \ S) \cup {None} /\ S \subseteq I
      /\ host \cap Requests \subseteq {inprogress}
    BY DEF Kept, Orderly
<1> HIDE DEF I, S
<1>4. Orderly(ipmi_msgq', inprogress', I, S) /\ host' \cap Requests \subseteq {inprogress'}
    <2>1. CASE ~rmcp_sock
        <3>1. ipmi_msgq' = ipmi_msgq /\ inprogress' = inprogress /\ host' = host
            BY <2>1 DEF rmcp_close, queue
        <3> QED
            BY <1>3, <3>1 DEF Orderly
    <2>2. CASE rmcp_sock
        <3>1. /\ ipmi_msgq' = IF inprogress = None THEN ipmi_msgq
                              ELSE InsertFirst(ipmi_msgq, inprogress)
              /\ inprogress' = None /\ host' = {}
            BY <2>2 DEF rmcp_close
        <3>2. CASE inprogress = None
            BY <1>3, <3>1, <3>2 DEF Orderly
        <3>3. CASE inprogress # None
            <4>1. inprogress \in Requests /\ inprogress \in I \ S
                BY <1>2, <1>3, <3>3
            <4> DEFINE q == InsertFirst(ipmi_msgq, inprogress)
            <4>2. ToSet(q) = ToSet(ipmi_msgq) \cup {inprogress} /\ Distinct(q)
                BY <1>2, <1>3, <4>1, InsertFirstHolds
            <4>3. ipmi_msgq' = q
                BY <3>1, <3>3
            <4> HIDE DEF q
            <4>4. None \notin ToSet(ipmi_msgq)
                BY <1>2 DEF ToSet, Constants, RequestsAssumption
            <4> QED
                BY <1>3, <3>1, <3>3, <4>1, <4>2, <4>3, <4>4 DEF Orderly
        <3> QED
            BY <3>2, <3>3
    <2> QED
        BY <2>1, <2>2
<1> QED
    BY <1>1, <1>3, <1>4 DEF Kept, Orderly, Distinct, ToSet

\* Steps that leave the queue alone and send no answer.
LEMMA StillKept ==
    ASSUME Kept, issued' = issued, answered' = answered, ipmi_msgq' = ipmi_msgq,
           inprogress' = inprogress, host' \cap Requests \subseteq host,
           \A x \in Requests : ~Interrupted(x)'
    PROVE  Kept'
BY DEF Kept, Orderly, Distinct, ToSet, Served

\* Steps that only send what waits.
LEMMA DequeueKeeps ==
    ASSUME Constants, Inv, Kept, issued' = issued, answered' = answered,
           ipmi_dequeue(ipmi_msgq, inprogress, request_after, rmcp_status, host),
           \A x \in Requests : ~Interrupted(x)'
    PROVE  Kept'
<1> DEFINE I == ToSet(issued)
           S == ToSet(Served)
<1>1. ToSet(issued)' = I /\ ToSet(Served)' = S
    BY DEF ToSet, Served
<1>2. ipmi_msgq \in Seq(Requests)
    BY RestNow
<1>3. /\ Orderly(ipmi_msgq, inprogress, I, S) /\ S \subseteq I
      /\ host \cap Requests \subseteq {inprogress}
    BY DEF Kept
<1> HIDE DEF I, S
<1>4. Orderly(ipmi_msgq', inprogress', I, S) /\ host' \cap Requests \subseteq {inprogress'}
    BY <1>2, <1>3, DequeueOrderly
<1> QED
    BY <1>1, <1>3, <1>4 DEF Kept, Orderly, Distinct, ToSet

\* An answer: it is the one to the request in progress, which is done with.
LEMMA AnswerKept ==
    ASSUME Constants, Inv, Kept, NEW a \in Requests, Answer(a), spoiled' \subseteq {"ping"}
    PROVE  Kept' /\ Contract!Next
<1>1. PICK held \in {host, host \ {a}} :
        /\ Receive(a, held) /\ inprogress # None
        /\ answered' = Append(answered, Callback(inprogress, a))
        /\ ipmi_dequeue(ipmi_msgq, None, FALSE, rmcp_status, held)
        /\ issued' = issued /\ waits' = waits
    BY DEF Answer
<1>2. a \in host /\ held = host \ {a}
    BY <1>1 DEF Receive
<1>3. a = inprogress /\ held \cap Requests = {}
    BY <1>2 DEF Kept
<1> DEFINE I == ToSet(issued)
           S == ToSet(Served)
<1>4. /\ ipmi_msgq \in Seq(Requests) /\ answered \in Seq(Callbacks)
    BY RestNow
<1>5. /\ Distinct(ipmi_msgq) /\ a \notin ToSet(ipmi_msgq) /\ ToSet(ipmi_msgq) \subseteq I \ S
      /\ a \in I \ S /\ S \subseteq I
    BY <1>1, <1>3 DEF Kept, Orderly
<1>6. ToSet(Served)' = S \cup {a}
    BY <1>1, <1>3, <1>4, ServedGrows
<1>7. ToSet(issued)' = I
    BY <1>1 DEF ToSet
<1>8. Contract!Next
    BY <1>1, <1>3, <1>4, <1>5, ContractAnswers
<1> HIDE DEF I, S
<1>9. None \notin ToSet(ipmi_msgq)
    BY <1>4 DEF ToSet, Constants, RequestsAssumption
<1>10. Orderly(ipmi_msgq, None, I, S \cup {a})
    BY <1>5, <1>9 DEF Orderly
<1>11. /\ Orderly(ipmi_msgq', inprogress', I, S \cup {a})
       /\ host' \cap Requests \subseteq {inprogress'}
    BY <1>1, <1>3, <1>4, <1>10, DequeueOrderly
<1>12. \A x \in Requests : ~Interrupted(x)'
    BY <1>1 DEF Kept, Interrupted
<1>13. Kept'
    BY <1>5, <1>6, <1>7, <1>11, <1>12 DEF Kept, Orderly, Distinct, ToSet
<1> QED
    BY <1>8, <1>13

\* A step after which nothing has spoiled the session keeps the contract.
LEMMA StepKeeps ==
    ASSUME Constants, Inv, Unspoiled => Kept, [Next]_vars, Unspoiled'
    PROVE  Kept' /\ Contractual
<1>0. \/ UNCHANGED vars
      \/ Client \/ Timers \/ HandshakePacket \/ AnswerPacket \/ Returns
    BY DEF Next
<1>1. CASE UNCHANGED vars
    <2>1. /\ issued' = issued /\ answered' = answered /\ ipmi_msgq' = ipmi_msgq
          /\ inprogress' = inprogress /\ host' = host /\ waits' = waits /\ spoiled' = spoiled
        BY <1>1 DEF vars, queue, history
    <2>2. Kept /\ \A x \in Requests : ~Interrupted(x)'
        BY <2>1 DEF Unspoiled, Kept, Interrupted
    <2> QED
        BY <2>1, <2>2, StillKept DEF Contractual
<1>2. ASSUME NEW r \in Requests, ipmi_send(r) \/ ipmi_send_sync(r)
      PROVE  Kept' /\ Contractual
    <2>1. /\ ipmi_queue(r, rmcp_status, host) /\ answered' = answered /\ spoiled' = spoiled
          /\ waits' = waits \/ waits' = Append(waits, Wait(r, None))
        BY <1>2 DEF ipmi_send, ipmi_send_sync
    <2>2. Kept
        BY <2>1 DEF Unspoiled
    <2>3. \A x \in Requests : ~Interrupted(x)'
        <3>1. CASE waits' = waits
            BY <2>2, <3>1 DEF Kept, Interrupted
        <3>2. CASE waits' = Append(waits, Wait(r, None))
            <4>1. \A x : Interrupted(x)' => Interrupted(x) \/ x = None
                BY <3>2, RestNow, CallBegins
            <4> QED
                BY <2>2, <4>1 DEF Kept, Constants, RequestsAssumption
        <3> QED
            BY <2>1, <3>1, <3>2
    <2>4. host \in SUBSET host
        OBVIOUS
    <2> QED
        BY <2>1, <2>2, <2>3, <2>4, QueueKeeps DEF Contractual
<1>3. CASE Timers
    <2>1. issued' = issued /\ answered' = answered /\ waits' = waits
        BY <1>3 DEF Timers, OpenTimeout, RequestTimeout, StaleTimeout, ipmi_health, history
    <2>2. ASSUME OpenTimeout \/ RequestTimeout \/ StaleTimeout
          PROVE  rmcp_close /\ spoiled' = spoiled
        BY <2>2 DEF OpenTimeout, RequestTimeout, StaleTimeout
    <2>3. ASSUME ipmi_health
          PROVE  \/ /\ ipmi_dequeue(ipmi_msgq, inprogress, request_after, rmcp_status, host)
                    /\ spoiled' = spoiled
                 \/ /\ ipmi_msgq' = ipmi_msgq /\ inprogress' = inprogress
                    /\ host' \in {host, {"pong"}} /\ spoiled \subseteq spoiled'
        BY <2>3 DEF ipmi_health, rmcp_open, queue
    <2>4. Kept
        BY <1>3, <2>2, <2>3 DEF Timers, Unspoiled
    <2>5. \A x \in Requests : ~Interrupted(x)'
        BY <2>1, <2>4 DEF Kept, Interrupted
    <2>6. "pong" \notin Requests
        BY HandshakeApart, HandshakePackets
    <2>7. ASSUME ipmi_health
          PROVE  Kept'
        <3>1. CASE ipmi_dequeue(ipmi_msgq, inprogress, request_after, rmcp_status, host)
            BY <2>1, <2>4, <2>5, <3>1, DequeueKeeps
        <3>2. CASE /\ ipmi_msgq' = ipmi_msgq /\ inprogress' = inprogress
                   /\ host' \in {host, {"pong"}}
            <4>1. host' \cap Requests \subseteq host
                BY <2>6, <3>2
            <4> QED
                BY <2>1, <2>4, <2>5, <3>2, <4>1, StillKept
        <3> QED
            BY <2>3, <2>7, <3>1, <3>2
    <2> QED
        BY <1>3, <2>1, <2>2, <2>4, <2>5, <2>7, CloseKeeps DEF Timers, Contractual
<1>4. CASE HandshakePacket
    <2>1. ASSUME NEW i \in 1 .. 4, HandshakeGoesOn(i)
          PROVE  Kept' /\ Contractual
        <3>1. /\ issued' = issued /\ answered' = answered /\ ipmi_msgq' = ipmi_msgq
              /\ inprogress' = inprogress /\ waits' = waits /\ spoiled' = spoiled
              /\ host' = (host \ {Handshake[i]}) \cup {Handshake[i + 1]}
            BY <2>1 DEF HandshakeGoesOn, queue, history
        <3>2. Handshake[i + 1] \notin Requests
            <4>1. i + 1 \in DOMAIN Handshake
                BY DEF Handshake
            <4>2. Handshake[i + 1] \in ToSet(Handshake)
                BY <4>1 DEF ToSet
            <4> QED
                BY <4>2, HandshakeApart
        <3>3. host' \cap Requests \subseteq host
            BY <3>1, <3>2
        <3>4. Kept /\ \A x \in Requests : ~Interrupted(x)'
            BY <3>1 DEF Unspoiled, Kept, Interrupted
        <3> QED
            BY <3>1, <3>3, <3>4, StillKept DEF Contractual
    <2>2. ASSUME CapsRefused
          PROVE  Kept' /\ Contractual
        <3>1. /\ rmcp_close /\ issued' = issued /\ answered' = answered
              /\ waits' = waits /\ spoiled' = spoiled
            BY <2>2 DEF CapsRefused, history
        <3>2. Kept /\ \A x \in Requests : ~Interrupted(x)'
            BY <3>1 DEF Unspoiled, Kept, Interrupted
        <3> QED
            BY <3>1, <3>2, CloseKeeps DEF Contractual
    <2>3. ASSUME NEW i \in DOMAIN Handshake, HandshakeRefused(i)
          PROVE  Kept' /\ Contractual
        <3>1. /\ issued' = issued /\ answered' = answered /\ ipmi_msgq' = ipmi_msgq
              /\ inprogress' = inprogress /\ waits' = waits /\ spoiled' = spoiled
              /\ host' \subseteq host
            BY <2>3 DEF HandshakeRefused, queue, history
        <3>2. Kept /\ \A x \in Requests : ~Interrupted(x)'
            BY <3>1 DEF Unspoiled, Kept, Interrupted
        <3> QED
            BY <3>1, <3>2, StillKept DEF Contractual
    <2>4. ASSUME HandshakeDone
          PROVE  Kept' /\ Contractual
        <3> DEFINE p == NextPrivilege
        <3>1. p \in Privileges
            BY <2>4 DEF HandshakeDone, NextPrivilege
        <3>2. p \in Requests
            BY <3>1 DEF Constants, PrivilegesAssumption
        <3>3. /\ ipmi_queue(p, "connected", host \ {"rakp4"}) /\ answered' = answered
              /\ waits' = Append(waits, Wait(p, "handshake")) /\ spoiled' = spoiled
            BY <2>4 DEF HandshakeDone
        <3> HIDE DEF p
        <3>4. \A x : Interrupted(x)' => Interrupted(x) \/ x = "handshake"
            BY <3>2, <3>3, RestNow, CallBegins
        <3>5. Kept
            BY <3>3 DEF Unspoiled
        <3>6. \A x \in Requests : ~Interrupted(x)'
            BY <3>4, <3>5, HandshakeApart DEF Kept
        <3>7. host \ {"rakp4"} \in SUBSET host
            OBVIOUS
        <3> QED
            BY <3>2, <3>3, <3>5, <3>6, <3>7, QueueKeeps DEF Contractual
    <2> QED
        BY <1>4, <2>1, <2>2, <2>3, <2>4 DEF HandshakePacket
<1>5. CASE AnswerPacket
    <2>1. ASSUME NEW a \in Requests, Answer(a)
          PROVE  Kept' /\ Contractual
        <3>1. spoiled \subseteq spoiled'
            BY <2>1 DEF Answer, Receive
        <3>2. Kept /\ spoiled' \subseteq {"ping"}
            BY <3>1 DEF Unspoiled
        <3> QED
            BY <2>1, <3>2, AnswerKept DEF Contractual
    <2>2. ASSUME NEW a \in Requests, UnknownAnswer(a)
          PROVE  FALSE
        <3>1. spoiled \subseteq spoiled' /\ a \in host /\ inprogress = None
            BY <2>2 DEF UnknownAnswer, Receive
        <3>2. Kept
            BY <3>1 DEF Unspoiled
        <3> QED
            BY <3>1, <3>2 DEF Kept, Constants, RequestsAssumption
    <2>3. ASSUME NEW a \in Requests, NEW r \in Requests, AnswerWaits(a, r)
          PROVE  FALSE
        BY <2>3 DEF AnswerWaits, Unspoiled
    <2> QED
        BY <1>5, <2>1, <2>2, <2>3 DEF AnswerPacket
<1>6. CASE Returns
    <2>1. /\ waits # <<>> /\ waits' = Front(waits) /\ issued' = issued /\ answered' = answered
          /\ spoiled' = spoiled
        BY <1>6 DEF Returns, HandshakeReturns, CallbackReturns, CallReturns, Returning, history
    <2>2. Kept
        BY <2>1 DEF Unspoiled
    <2>3. /\ \A x : Interrupted(x)' => Interrupted(x)
          /\ Interrupted(Last(waits).inside)
        BY <2>1, RestNow, CallEnds
    <2>4. ~CallbackReturns /\ \A x \in Requests : ~Interrupted(x)'
        BY <2>2, <2>3 DEF Kept, CallbackReturns
    <2>5. \/ ipmi_dequeue(ipmi_msgq, inprogress, request_after, rmcp_status, host)
          \/ rmcp_close
          \/ ipmi_msgq' = ipmi_msgq /\ inprogress' = inprogress /\ host' = host
        BY <1>6, <2>4 DEF Returns, HandshakeReturns, CallReturns, queue
    <2>6. CASE ipmi_dequeue(ipmi_msgq, inprogress, request_after, rmcp_status, host)
        BY <2>1, <2>2, <2>4, <2>6, DequeueKeeps DEF Contractual
    <2>7. CASE rmcp_close
        BY <2>1, <2>2, <2>4, <2>7, CloseKeeps DEF Contractual
    <2>8. CASE ipmi_msgq' = ipmi_msgq /\ inprogress' = inprogress /\ host' = host
        BY <2>1, <2>2, <2>4, <2>8, StillKept DEF Contractual
    <2> QED
        BY <2>5, <2>6, <2>7, <2>8
<1> QED
    BY <1>0, <1>1, <1>2, <1>3, <1>4, <1>5, <1>6 DEF Client

LEMMA InitKept == Init => Kept
<1> SUFFICES ASSUME Init PROVE Kept
    OBVIOUS
<1>1. /\ ipmi_msgq = <<>> /\ inprogress = None /\ issued = <<>> /\ answered = <<>>
      /\ host = {} /\ waits = <<>>
    BY DEF Init
<1>2. ToSet(ipmi_msgq) = {} /\ ToSet(issued) = {} /\ ToSet(Served) = {}
    BY <1>1 DEF ToSet, Served
<1>3. Distinct(ipmi_msgq)
    BY <1>1 DEF Distinct
<1> QED
    BY <1>1, <1>2, <1>3 DEF Kept, Orderly, Interrupted

-----------------------------------------------------------------------------
(* The order of service *)

\* ipmi_dequeue sends the first of q, or nothing.
LEMMA DequeueSendsFirst ==
    ASSUME NEW q \in Seq(Requests), NEW filed, NEW timer, NEW status, NEW held,
           ipmi_dequeue(q, filed, timer, status, held), answered \in Seq(Callbacks),
           NEW done, answered' = answered \o done
    PROVE  \/ filed = None /\ 0 \in 0 .. Len(q) /\ Move(q, 0, done)
           \/ ipmi_msgq' = q /\ inprogress' = filed
<1>1. CASE q # <<>> /\ filed = None /\ inprogress' = Head(q) /\ ipmi_msgq' = Tail(q)
    <2>1. Len(q) \in Nat /\ Len(q) > 0 /\ Head(q) = q[1] /\ Tail(q) = SubSeq(q, 2, Len(q))
        <3>1. Len(q) \in Nat /\ (q = <<>> <=> Len(q) = 0) /\ Head(q) = q[1]
            BY LenProperties, EmptySeq
        <3> QED
            BY <1>1, <3>1, TailIsSubSeq
    <2>2. [i \in 1 .. 0 |-> Callback(q[0 + 1 - i], q[0 + 1 - i])] = <<>>
        OBVIOUS
    <2>3. answered \o <<>> = answered
        BY ConcatEmptySeq
    <2> QED
        BY <1>1, <2>1, <2>2, <2>3 DEF Move
<1>2. CASE ipmi_msgq' = q /\ inprogress' = filed
    BY <1>2
<1> QED
    BY <1>1, <1>2 DEF ipmi_dequeue

\* It holds nothing but what it held and what is new.
Holds(new) ==
    ToSet(ipmi_msgq') \cup {inprogress'} \subseteq ToSet(ipmi_msgq) \cup {inprogress, None} \cup new

LEMMA MoveHolds ==
    ASSUME answered \in Seq(Callbacks), NEW q \in Seq(Requests), NEW new,
           ToSet(q) \subseteq ToSet(ipmi_msgq) \cup new,
           \/ \E done \in Seq(Callbacks) : 0 \in 0 .. Len(q) /\ Move(q, 0, done)
           \/ ipmi_msgq' = q /\ inprogress' \in {inprogress, None}
    PROVE  Holds(new)
<1>1. ASSUME NEW done \in Seq(Callbacks), 0 \in 0 .. Len(q), Move(q, 0, done)
      PROVE  Holds(new)
    <2>1. ToSet(ipmi_msgq') \subseteq ToSet(q) /\ inprogress' \in ToSet(q) \cup {None}
        BY <1>1, MoveTyped
    <2> QED
        BY <2>1 DEF Holds
<1>2. CASE ipmi_msgq' = q /\ inprogress' \in {inprogress, None}
    BY <1>2 DEF Holds
<1> QED
    BY <1>1, <1>2

\* It still holds what is in old.
Keeps(old) == old \ {None} \subseteq ToSet(ipmi_msgq') \cup {inprogress'}

LEMMA MoveKeepsAll ==
    ASSUME NEW q \in Seq(Requests),
           (\E done : 0 \in 0 .. Len(q) /\ Move(q, 0, done)) \/ ipmi_msgq' = q
    PROVE  Keeps(ToSet(q))
<1>1. Len(q) \in Nat /\ DOMAIN q = 1 .. Len(q)
    BY LenProperties
<1>2. ASSUME NEW done, Move(q, 0, done)
      PROVE  Keeps(ToSet(q))
    <2>1. CASE 0 < Len(q) /\ inprogress' = q[1] /\ ipmi_msgq' = SubSeq(q, 2, Len(q))
        <3>1. q # <<>> /\ Head(q) = q[1]
            <4>1. q # <<>>
                <5>1. Len(<<>>) = 0
                    BY EmptySeq
                <5> QED
                    BY <2>1, <5>1
            <4> QED
                BY <4>1, HeadTailProperties
        <3>2. ipmi_msgq' = Tail(q)
            BY <2>1, <3>1, TailIsSubSeq
        <3>3. /\ Len(Tail(q)) = Len(q) - 1 /\ Tail(q) \in Seq(Requests)
              /\ \A i \in 1 .. Len(Tail(q)) : Tail(q)[i] = q[i + 1]
              /\ DOMAIN Tail(q) = 1 .. Len(Tail(q))
            BY <3>1, HeadTailProperties, LenProperties
        <3>4. ASSUME NEW i \in 1 .. Len(q)
              PROVE  q[i] \in ToSet(Tail(q)) \cup {q[1]}
            <4>1. CASE i = 1
                BY <4>1
            <4>2. CASE i # 1
                <5>1. i - 1 \in 1 .. Len(Tail(q)) /\ (i - 1) + 1 = i
                    BY <1>1, <3>3, <4>2
                <5>2. Tail(q)[i - 1] = q[i]
                    BY <3>3, <5>1
                <5>3. Tail(q)[i - 1] \in ToSet(Tail(q))
                    BY <3>3, <5>1 DEF ToSet
                <5> QED
                    BY <5>2, <5>3
            <4> QED
                BY <4>1, <4>2
        <3> QED
            BY <1>1, <2>1, <3>2, <3>4 DEF Keeps, ToSet
    <2>2. CASE 0 = Len(q)
        <3>1. ToSet(q) = {}
            BY <1>1, <2>2 DEF ToSet
        <3> QED
            BY <3>1 DEF Keeps
    <2>3. /\ ipmi_msgq' = SubSeq(q, 2, Len(q))
          /\ (0 < Len(q) /\ inprogress' = q[1]) \/ 0 = Len(q)
        BY <1>2 DEF Move
    <2> QED
        BY <2>1, <2>2, <2>3
<1>3. CASE ipmi_msgq' = q
    BY <1>3 DEF Keeps
<1> QED
    BY <1>2, <1>3

\* What a step may do to the line: a request more; one sent, or nothing; the
\* one in progress taken back; an answer; or what only waiting callbacks do.
NewStep(r) ==
    /\ issued' = Append(issued, r) /\ answered' = answered /\ Holds({r})
    /\ Keeps(ToSet(ipmi_msgq) \cup {inprogress, r})
    /\ OrderlyMove(InsertLast(ipmi_msgq, r), Requests)
NextStep ==
    /\ issued' = issued /\ answered' = answered /\ Holds({})
    /\ Keeps(ToSet(ipmi_msgq) \cup {inprogress})
    /\ OrderlyMove(ipmi_msgq, Requests)
BackStep ==
    /\ issued' = issued /\ answered' = answered /\ Holds({})
    /\ Keeps(ToSet(ipmi_msgq) \cup {inprogress})
    /\ ipmi_msgq' = IF inprogress = None THEN ipmi_msgq ELSE InsertFirst(ipmi_msgq, inprogress)
    /\ inprogress' = None
AnswerStep(a) ==
    /\ issued' = issued /\ inprogress \in Requests /\ Holds({})
    /\ Keeps(ToSet(ipmi_msgq))
    /\ answered' = Append(answered, Callback(inprogress, a))
    /\ \/ 0 \in 0 .. Len(ipmi_msgq) /\ Move(ipmi_msgq, 0, <<Callback(inprogress, a)>>)
       \/ inprogress' = None /\ ipmi_msgq' = ipmi_msgq
WaitStep(r) ==
    "wait" \in spoiled' /\ ipmi_msgq' = InsertLast(ipmi_msgq, r) /\ inprogress' = inprogress
ReturnStep ==
    /\ Interrupted(Last(waits).inside) /\ Last(waits).inside \in Requests
    /\ \/ 0 \in 0 .. Len(ipmi_msgq) /\ Move(ipmi_msgq, 0, <<>>)
       \/ inprogress' = None /\ ipmi_msgq' = ipmi_msgq

LineStep ==
    \/ \E r \in Requests : NewStep(r)
    \/ NextStep
    \/ BackStep
    \/ \E a \in Requests : AnswerStep(a)
    \/ \E r \in Requests : WaitStep(r)
    \/ ReturnStep

LEMMA DequeueIsNext ==
    ASSUME Inv, NEW timer, NEW status, NEW held,
           ipmi_dequeue(ipmi_msgq, inprogress, timer, status, held),
           issued' = issued, answered' = answered
    PROVE  NextStep
<1> DEFINE none == <<>>
<1>1. none \in Seq(Callbacks) /\ ipmi_msgq \in Seq(Requests) /\ answered \in Seq(Callbacks)
    BY RestNow
<1>2. answered' = answered \o none
    BY <1>1, ConcatEmptySeq
<1>3. \/ inprogress = None /\ 0 \in 0 .. Len(ipmi_msgq) /\ Move(ipmi_msgq, 0, none)
      \/ ipmi_msgq' = ipmi_msgq /\ inprogress' = inprogress
    BY <1>1, <1>2, DequeueSendsFirst
<1>4. Passes(ipmi_msgq, 0, Requests)
    BY DEF Passes
<1>5. OrderlyMove(ipmi_msgq, Requests)
    BY <1>3, <1>4 DEF OrderlyMove
<1> HIDE DEF none
<1>6. Holds({})
    BY <1>1, <1>3, MoveHolds
<1>7. Keeps(ToSet(ipmi_msgq)) /\ inprogress \in {None, inprogress'}
    BY <1>1, <1>3, MoveKeepsAll
<1>8. Keeps(ToSet(ipmi_msgq) \cup {inprogress})
    BY <1>7 DEF Keeps
<1> QED
    BY <1>5, <1>6, <1>8 DEF NextStep

LEMMA QueueIsNew ==
    ASSUME Inv, NEW r \in Requests, NEW status, NEW held, ipmi_queue(r, status, held),
           answered' = answered
    PROVE  NewStep(r)
<1> DEFINE none == <<>>
           q == InsertLast(ipmi_msgq, r)
<1>1. none \in Seq(Callbacks) /\ ipmi_msgq \in Seq(Requests) /\ answered \in Seq(Callbacks)
    BY RestNow
<1>2. q \in Seq(Requests) /\ ToSet(q) = ToSet(ipmi_msgq) \cup {r}
    BY <1>1, InsertLastHolds
<1>3. answered' = answered \o none
    BY <1>1, ConcatEmptySeq
<1>4. /\ issued' = Append(issued, r)
      /\ \/ ipmi_dequeue(q, inprogress, request_after, status, held)
         \/ ipmi_msgq' = q /\ inprogress' = inprogress
    BY DEF ipmi_queue
<1> HIDE DEF q
<1>5. \/ inprogress = None /\ 0 \in 0 .. Len(q) /\ Move(q, 0, none)
      \/ ipmi_msgq' = q /\ inprogress' = inprogress
    BY <1>1, <1>2, <1>3, <1>4, DequeueSendsFirst
<1>6. Passes(q, 0, Requests)
    BY DEF Passes
<1>7. OrderlyMove(q, Requests)
    BY <1>5, <1>6 DEF OrderlyMove
<1> HIDE DEF none
<1>8. Holds({r})
    BY <1>1, <1>2, <1>5, MoveHolds
<1>9. Keeps(ToSet(q)) /\ inprogress \in {None, inprogress'}
    BY <1>2, <1>5, MoveKeepsAll
<1>10. Keeps(ToSet(ipmi_msgq) \cup {inprogress, r})
    BY <1>2, <1>9 DEF Keeps
<1> QED
    BY <1>4, <1>7, <1>8, <1>10 DEF NewStep, q

LEMMA CloseIsBack ==
    ASSUME Inv, rmcp_close, issued' = issued, answered' = answered
    PROVE  LineStep
<1>1. ipmi_msgq \in Seq(Requests) /\ inprogress \in Requests \cup {None}
    BY RestNow
<1>2. CASE ~rmcp_sock
    <2>1. ipmi_msgq' = ipmi_msgq /\ inprogress' = inprogress
        BY <1>2 DEF rmcp_close, queue
    <2> QED
        BY <2>1 DEF LineStep, NextStep, OrderlyMove, Holds, Keeps
<1>3. CASE rmcp_sock
    <2>1. /\ ipmi_msgq' = IF inprogress = None THEN ipmi_msgq
                          ELSE InsertFirst(ipmi_msgq, inprogress)
          /\ inprogress' = None
        BY <1>3 DEF rmcp_close
    <2>2. inprogress # None =>
              ToSet(InsertFirst(ipmi_msgq, inprogress)) = ToSet(ipmi_msgq) \cup {inprogress}
        BY <1>1, InsertFirstHolds
    <2>3. Holds({}) /\ Keeps(ToSet(ipmi_msgq) \cup {inprogress})
        BY <2>1, <2>2 DEF Holds, Keeps
    <2> QED
        BY <2>1, <2>3 DEF LineStep, BackStep
<1> QED
    BY <1>2, <1>3

LEMMA NothingIsNext ==
    ASSUME issued' = issued, answered' = answered, ipmi_msgq' = ipmi_msgq,
           inprogress' = inprogress
    PROVE  LineStep
BY DEF LineStep, NextStep, OrderlyMove, Holds, Keeps

LEMMA AnswersInLine ==
    ASSUME Constants, Inv, AnswerPacket
    PROVE  LineStep
<1>0. /\ ipmi_msgq \in Seq(Requests) /\ answered \in Seq(Callbacks)
      /\ inprogress \in Requests \cup {None}
    BY RestNow
<1>1. ASSUME NEW a \in Requests, Answer(a)
      PROVE  AnswerStep(a)
    <2> DEFINE c == Callback(inprogress, a)
               done == <<c>>
    <2>1. /\ inprogress # None /\ issued' = issued
          /\ answered' = Append(answered, c)
          /\ \E held : ipmi_dequeue(ipmi_msgq, None, FALSE, rmcp_status, held)
        BY <1>1 DEF Answer
    <2>2. inprogress \in Requests /\ c \in Callbacks
        BY <1>0, <2>1 DEF Callback, Callbacks
    <2> HIDE DEF c
    <2>3. done \in Seq(Callbacks) /\ answered' = answered \o done
        BY <1>0, <2>1, <2>2, AppendIsConcat
    <2> HIDE DEF done
    <2>4. \/ 0 \in 0 .. Len(ipmi_msgq) /\ Move(ipmi_msgq, 0, done)
          \/ ipmi_msgq' = ipmi_msgq /\ inprogress' = None
        BY <1>0, <2>1, <2>3, DequeueSendsFirst
    <2>5. Holds({}) /\ Keeps(ToSet(ipmi_msgq))
        BY <1>0, <2>3, <2>4, MoveHolds, MoveKeepsAll
    <2> QED
        BY <2>1, <2>2, <2>4, <2>5 DEF AnswerStep, c, done
<1>2. ASSUME NEW a \in Requests, UnknownAnswer(a)
      PROVE  NextStep
    <2>1. /\ issued' = issued /\ answered' = answered /\ inprogress = None
          /\ \E held : ipmi_dequeue(ipmi_msgq, inprogress, FALSE, rmcp_status, held)
        BY <1>2 DEF UnknownAnswer, history
    <2> QED
        BY <2>1, DequeueIsNext
<1>3. ASSUME NEW a \in Requests, NEW r \in Requests, AnswerWaits(a, r)
      PROVE  WaitStep(r)
    BY <1>3 DEF AnswerWaits, WaitStep
<1> QED
    BY <1>1, <1>2, <1>3 DEF AnswerPacket, LineStep

LEMMA ReturnsInLine ==
    ASSUME Constants, Inv, Returns
    PROVE  LineStep
<1>0. /\ issued' = issued /\ answered' = answered /\ waits # <<>> /\ waits' = Front(waits)
    BY DEF Returns, HandshakeReturns, CallbackReturns, CallReturns, Returning, history
<1>1. CASE HandshakeReturns
    <2>1. CASE ipmi_dequeue(ipmi_msgq, inprogress, request_after, rmcp_status, host)
        BY <1>0, <2>1, DequeueIsNext DEF LineStep
    <2>2. CASE rmcp_close
        BY <1>0, <2>2, CloseIsBack
    <2> QED
        BY <1>1, <2>1, <2>2 DEF HandshakeReturns
<1>2. CASE CallbackReturns
    <2> DEFINE none == <<>>
    <2>1. none \in Seq(Callbacks) /\ ipmi_msgq \in Seq(Requests) /\ answered \in Seq(Callbacks)
        BY RestNow
    <2>2. answered' = answered \o none
        BY <1>0, <2>1, ConcatEmptySeq
    <2>3. /\ ipmi_dequeue(ipmi_msgq, None, FALSE, rmcp_status, host)
          /\ Last(waits).inside \in Requests
        BY <1>2 DEF CallbackReturns
    <2>4. \/ 0 \in 0 .. Len(ipmi_msgq) /\ Move(ipmi_msgq, 0, none)
          \/ ipmi_msgq' = ipmi_msgq /\ inprogress' = None
        BY <2>1, <2>2, <2>3, DequeueSendsFirst
    <2>5. Interrupted(Last(waits).inside)
        BY <1>0, RestNow, CallEnds
    <2> QED
        BY <2>3, <2>4, <2>5 DEF LineStep, ReturnStep
<1>3. CASE CallReturns
    BY <1>0, <1>3, NothingIsNext DEF CallReturns, queue
<1> QED
    BY <1>1, <1>2, <1>3 DEF Returns

LEMMA StepsInLine ==
    ASSUME Constants, Inv, [Next]_vars
    PROVE  LineStep
<1>1. CASE UNCHANGED vars
    BY <1>1, NothingIsNext DEF vars, queue, history
<1>2. CASE Client
    <2>1. PICK r \in Requests : ipmi_queue(r, rmcp_status, host) /\ answered' = answered
        BY <1>2 DEF Client, ipmi_send, ipmi_send_sync
    <2> QED
        BY <2>1, QueueIsNew DEF LineStep
<1>3. CASE Timers
    <2>1. issued' = issued /\ answered' = answered
        BY <1>3 DEF Timers, OpenTimeout, RequestTimeout, StaleTimeout, ipmi_health, history
    <2>2. \/ rmcp_close
          \/ ipmi_dequeue(ipmi_msgq, inprogress, request_after, rmcp_status, host)
          \/ ipmi_msgq' = ipmi_msgq /\ inprogress' = inprogress
        BY <1>3 DEF Timers, OpenTimeout, RequestTimeout, StaleTimeout, ipmi_health, queue
    <2> QED
        BY <2>1, <2>2, CloseIsBack, DequeueIsNext, NothingIsNext DEF LineStep
<1>4. CASE HandshakePacket
    <2>1. ASSUME NEW i \in 1 .. 4, HandshakeGoesOn(i)
          PROVE  LineStep
        BY <2>1, NothingIsNext DEF HandshakeGoesOn, queue, history
    <2>2. ASSUME CapsRefused
          PROVE  LineStep
        BY <2>2, CloseIsBack DEF CapsRefused, history
    <2>3. ASSUME NEW i \in DOMAIN Handshake, HandshakeRefused(i)
          PROVE  LineStep
        BY <2>3, NothingIsNext DEF HandshakeRefused, queue, history
    <2>4. ASSUME HandshakeDone
          PROVE  LineStep
        <3> DEFINE p == NextPrivilege
        <3>1. p \in Requests
            BY <2>4 DEF HandshakeDone, NextPrivilege, Constants, PrivilegesAssumption
        <3>2. ipmi_queue(p, "connected", host \ {"rakp4"}) /\ answered' = answered
            BY <2>4 DEF HandshakeDone
        <3> HIDE DEF p
        <3> QED
            BY <3>1, <3>2, QueueIsNew DEF LineStep
    <2> QED
        BY <1>4, <2>1, <2>2, <2>3, <2>4 DEF HandshakePacket
<1>5. CASE AnswerPacket
    BY <1>5, AnswersInLine
<1>6. CASE Returns
    BY <1>6, ReturnsInLine
<1> QED
    BY <1>1, <1>2, <1>3, <1>4, <1>5, <1>6 DEF Next

\* Without waiting callbacks no request is being answered any longer.
LEMMA NoCallbackWaits ==
    ASSUME Constants, Inv, [Next]_vars, "wait" \notin spoiled'
    PROVE  /\ "wait" \notin spoiled
           /\ \A x \in Requests : Interrupted(x)' => Interrupted(x)
<1>0. waits \in Seq(WaitRecords) /\ "handshake" \notin Requests /\ None \notin Requests
    BY RestNow, HandshakeApart DEF Constants, RequestsAssumption
<1>1. CASE waits' = waits /\ spoiled \subseteq spoiled'
    BY <1>1 DEF Interrupted
<1>2. CASE Client
    <2>1. /\ spoiled' = spoiled
          /\ waits' = waits \/ \E r \in Requests : waits' = Append(waits, Wait(r, None))
        BY <1>2 DEF Client, ipmi_send, ipmi_send_sync
    <2>2. ASSUME NEW r \in Requests, waits' = Append(waits, Wait(r, None))
          PROVE  \A x : Interrupted(x)' => Interrupted(x) \/ x = None
        BY <1>0, <2>2, CallBegins
    <2> QED
        BY <1>0, <1>1, <2>1, <2>2
<1>3. CASE HandshakeDone
    <2> DEFINE p == NextPrivilege
    <2>1. p \in Requests
        BY <1>3 DEF HandshakeDone, NextPrivilege, Constants, PrivilegesAssumption
    <2>2. spoiled' = spoiled /\ waits' = Append(waits, Wait(p, "handshake"))
        BY <1>3 DEF HandshakeDone
    <2> HIDE DEF p
    <2>3. \A x : Interrupted(x)' => Interrupted(x) \/ x = "handshake"
        BY <1>0, <2>1, <2>2, CallBegins
    <2> QED
        BY <1>0, <2>2, <2>3
<1>4. CASE Returns
    <2>1. waits # <<>> /\ waits' = Front(waits) /\ spoiled' = spoiled
        BY <1>4 DEF Returns, HandshakeReturns, CallbackReturns, CallReturns, Returning
    <2> QED
        BY <1>0, <2>1, CallEnds
<1>5. CASE Timers
    <2>1. waits' = waits /\ spoiled \subseteq spoiled'
        BY <1>5 DEF Timers, OpenTimeout, RequestTimeout, StaleTimeout, ipmi_health, rmcp_open
    <2> QED
        BY <1>1, <2>1
<1>6. CASE HandshakePacket /\ ~HandshakeDone
    <2>1. waits' = waits /\ spoiled' = spoiled
        BY <1>6 DEF HandshakePacket, HandshakeGoesOn, CapsRefused, HandshakeRefused
    <2> QED
        BY <1>1, <2>1
<1>7. CASE AnswerPacket
    <2>1. waits' = waits /\ spoiled \subseteq spoiled'
        BY <1>7 DEF AnswerPacket, Answer, UnknownAnswer, AnswerWaits, Receive
    <2> QED
        BY <1>1, <2>1
<1>8. CASE UNCHANGED vars
    BY <1>1, <1>8 DEF vars
<1> QED
    BY <1>2, <1>3, <1>4, <1>5, <1>6, <1>7, <1>8 DEF Next

Waitless == Ordered(Requests) /\ AllSent /\ \A x \in Requests : ~Interrupted(x)
InOrder == Sorted(ipmi_msgq) /\ ("wait" \notin spoiled => Waitless)

\* A move of the queue keeps it sorted, and puts the most urgent in progress.
LEMMA MoveSorted ==
    ASSUME NEW q \in Seq(Requests), Sorted(q),
           \/ \E done : 0 \in 0 .. Len(q) /\ Move(q, 0, done)
           \/ ipmi_msgq' = q /\ inprogress' \in {inprogress, None}
    PROVE  Sorted(ipmi_msgq') /\ MostUrgent
<1>1. ASSUME NEW done, 0 \in 0 .. Len(q), Move(q, 0, done)
      PROVE  Sorted(ipmi_msgq') /\ MostUrgent
    <2> DEFINE n == 0
    <2>1. n \in 0 .. Len(q) /\ Move(q, n, done)
        BY <1>1
    <2> HIDE DEF n
    <2>2. Sorted(SubSeq(q, n + 2, Len(q)))
        BY <2>1, RestSorted
    <2>3. ipmi_msgq' = SubSeq(q, n + 2, Len(q))
        BY <2>1 DEF Move
    <2>4. \E k \in 0 .. Len(q) : \E d : Move(q, k, d)
        BY <2>1
    <2>5. MostUrgent
        BY <2>4, MoveMostUrgent
    <2> QED
        BY <2>2, <2>3, <2>5
<1>2. CASE ipmi_msgq' = q /\ inprogress' \in {inprogress, None}
    BY <1>2 DEF MostUrgent
<1> QED
    BY <1>1, <1>2

LEMMA LineSorted ==
    ASSUME Constants, Inv, Sorted(ipmi_msgq), LineStep
    PROVE  Sorted(ipmi_msgq') /\ MostUrgent
<1>0. ipmi_msgq \in Seq(Requests) /\ inprogress \in Requests \cup {None} /\ RequestsAssumption
    BY RestNow DEF Constants
<1>1. ASSUME NEW q \in Seq(Requests), OrderlyMove(q, Requests)
      PROVE  \/ \E done : 0 \in 0 .. Len(q) /\ Move(q, 0, done)
             \/ ipmi_msgq' = q /\ inprogress' \in {inprogress, None}
    <2>1. ASSUME NEW n \in 0 .. Len(q), Passes(q, n, Requests)
          PROVE  n = 0
        <3>1. Len(q) \in Nat /\ n \in Nat
            OBVIOUS
        <3>2. n >= 1 => 1 \in 1 .. n /\ 1 \in 1 .. Len(q)
            BY <3>1
        <3> QED
            BY <2>1, <3>1, <3>2 DEF Passes
    <2> QED
        BY <1>1, <2>1 DEF OrderlyMove
<1>2. ASSUME NEW r \in Requests, NewStep(r)
      PROVE  Sorted(ipmi_msgq') /\ MostUrgent
    <2>1. InsertLast(ipmi_msgq, r) \in Seq(Requests) /\ Sorted(InsertLast(ipmi_msgq, r))
        BY <1>0, InsertIsQueue, InsertLastSorts
    <2> QED
        BY <1>1, <1>2, <2>1, MoveSorted DEF NewStep
<1>3. CASE NextStep
    BY <1>0, <1>1, <1>3, MoveSorted DEF NextStep
<1>4. CASE BackStep
    <2>1. inprogress # None => Sorted(InsertFirst(ipmi_msgq, inprogress))
        BY <1>0, InsertFirstSorts
    <2> QED
        BY <1>4, <2>1 DEF BackStep, MostUrgent
<1>5. ASSUME NEW a \in Requests, AnswerStep(a)
      PROVE  Sorted(ipmi_msgq') /\ MostUrgent
    BY <1>0, <1>5, MoveSorted DEF AnswerStep
<1>6. ASSUME NEW r \in Requests, WaitStep(r)
      PROVE  Sorted(ipmi_msgq') /\ MostUrgent
    BY <1>0, <1>6, InsertLastSorts DEF WaitStep, MostUrgent
<1>7. CASE ReturnStep
    BY <1>0, <1>7, MoveSorted DEF ReturnStep
<1> QED
    BY <1>2, <1>3, <1>4, <1>5, <1>6, <1>7 DEF LineStep

\* No step puts into the line what was not sent.
LEMMA LineSent ==
    ASSUME Constants, Inv, AllSent, LineStep, \A r : ~WaitStep(r), ~ReturnStep
    PROVE  AllSent'
<1>0. issued \in Seq(Requests) /\ answered \in Seq(Callbacks)
    BY RestNow
<1>1. ASSUME NEW new, Holds(new),
             ToSet(Served)' \subseteq ToSet(Served) \cup {inprogress, None},
             ToSet(issued') = ToSet(issued) \cup new
      PROVE  AllSent'
    <2>1. ToSet(issued)' = ToSet(issued') /\ ToSet(ipmi_msgq)' = ToSet(ipmi_msgq')
        BY DEF ToSet
    <2>2. ToSet(Served)' \cup {inprogress'} \cup ToSet(ipmi_msgq') \subseteq ToSet(issued') \cup {None}
        BY <1>1 DEF Holds, AllSent
    <2> QED
        BY <2>1, <2>2 DEF AllSent
<1>2. answered' = answered => ToSet(Served)' = ToSet(Served)
    BY DEF Served, ToSet
<1>3. ASSUME NEW r \in Requests, NewStep(r)
      PROVE  AllSent'
    <2>1. ToSet(issued') = ToSet(issued) \cup {r}
        BY <1>0, <1>3, AppendHolds DEF NewStep
    <2> QED
        BY <1>1, <1>2, <1>3, <2>1 DEF NewStep
<1>4. CASE NextStep \/ BackStep
    <2>1. /\ issued' = issued /\ answered' = answered /\ Holds({})
        BY <1>4 DEF NextStep, BackStep
    <2> QED
        BY <1>1, <1>2, <2>1
<1>5. ASSUME NEW a \in Requests, AnswerStep(a)
      PROVE  AllSent'
    <2>1. /\ issued' = issued /\ inprogress \in Requests /\ Holds({})
          /\ answered' = Append(answered, Callback(inprogress, a))
        BY <1>5 DEF AnswerStep
    <2>2. ToSet(Served)' = ToSet(Served) \cup {inprogress}
        BY <1>0, <2>1, ServedGrows
    <2> QED
        BY <1>1, <2>1, <2>2
<1> QED
    BY <1>3, <1>4, <1>5 DEF LineStep

\* Nor does one change the order in the line.
LEMMA LineOrdered ==
    ASSUME Constants, Inv, Ordered(Requests), AllSent, LineStep, \A r : ~WaitStep(r), ~ReturnStep
    PROVE  Ordered(Requests)'
<1>0. RequestsAssumption /\ ListTyped /\ Requests \in SUBSET Requests
    BY RestNow DEF Constants, ListTyped
<1>1. ASSUME NEW r \in Requests, NewStep(r)
      PROVE  Ordered(Requests)'
    BY <1>0, <1>1, NewSentOrdered DEF NewStep
<1>2. CASE NextStep
    BY <1>0, <1>2, NextRequestOrdered DEF NextStep
<1>3. CASE BackStep
    BY <1>0, <1>3, TakeBackOrdered DEF BackStep
<1>4. ASSUME NEW a \in Requests, AnswerStep(a)
      PROVE  Ordered(Requests)'
    <2>1. Passes(ipmi_msgq, 0, Requests)
        BY DEF Passes
    <2>2. \/ \E n \in 0 .. Len(ipmi_msgq) :
                 /\ Passes(ipmi_msgq, n, Requests)
                 /\ Move(ipmi_msgq, n, <<Callback(inprogress, a)>>)
          \/ /\ inprogress' = None
             /\ answered' = Append(answered, Callback(inprogress, a))
             /\ UNCHANGED ipmi_msgq
        BY <1>4, <2>1 DEF AnswerStep
    <2> QED
        BY <1>0, <1>4, <2>2, AnswerOrdered DEF AnswerStep
<1> QED
    BY <1>1, <1>2, <1>3, <1>4 DEF LineStep

LEMMA StepInOrder ==
    ASSUME Constants, Inv, InOrder, [Next]_vars
    PROVE  InOrder' /\ MostUrgent
<1>1. Sorted(ipmi_msgq') /\ MostUrgent
    BY StepsInLine, LineSorted DEF InOrder
<1>2. ASSUME "wait" \notin spoiled'
      PROVE  Waitless'
    <2>1. "wait" \notin spoiled /\ \A x \in Requests : Interrupted(x)' => Interrupted(x)
        BY <1>2, NoCallbackWaits
    <2>2. Waitless
        BY <2>1 DEF InOrder
    <2>3. ~ReturnStep /\ \A r : ~WaitStep(r)
        BY <1>2, <2>2 DEF ReturnStep, WaitStep, Waitless
    <2>4. Ordered(Requests)' /\ AllSent'
        BY <2>2, <2>3, StepsInLine, LineOrdered, LineSent DEF Waitless
    <2>5. \A x \in Requests : ~Interrupted(x)'
        BY <2>1, <2>2 DEF Waitless
    <2> QED
        BY <2>4, <2>5 DEF Waitless
<1>3. (Sorted(ipmi_msgq))' = Sorted(ipmi_msgq')
    BY DEF Sorted
<1> QED
    BY <1>1, <1>2, <1>3 DEF InOrder

LEMMA InitInOrder == Init => InOrder
<1> SUFFICES ASSUME Init PROVE InOrder
    OBVIOUS
<1>1. ipmi_msgq = <<>> /\ inprogress = None /\ answered = <<>> /\ waits = <<>>
    BY DEF Init
<1>2. Served = <<>> /\ ToSet(Served) = {} /\ ToSet(ipmi_msgq) = {}
    BY <1>1 DEF Served, ToSet
<1>3. Sorted(ipmi_msgq) /\ Ordered(Requests)
    BY <1>1, <1>2 DEF Ordered, InLine, Sorted, KeepsOrder, Ahead
<1>4. AllSent /\ \A x \in Requests : ~Interrupted(x)
    BY <1>1, <1>2 DEF AllSent, Interrupted
<1> QED
    BY <1>3, <1>4 DEF InOrder, Waitless

-----------------------------------------------------------------------------
(* Nothing is lost *)

\* A call waits for what was sent before, or with it.
LEMMA CallsAreSent ==
    ASSUME Constants, Inv, [Next]_vars
    PROVE  \E new \in SUBSET Requests :
             ToSet(issued)' = ToSet(issued) \cup new /\ Waiting' \subseteq Waiting \cup new
<1>0. /\ waits \in Seq(WaitRecords) /\ issued \in Seq(Requests)
      /\ inprogress \in Requests \cup {None}
    BY RestNow
<1> DEFINE Now(new) == ToSet(issued)' = ToSet(issued) \cup new /\ Waiting' \subseteq Waiting \cup new
<1>1. ASSUME NEW r \in Requests, NEW h \in Requests \cup {None, "handshake"},
             waits' = Append(waits, Wait(r, h))
      PROVE  Waiting' \subseteq Waiting \cup {r}
    <2>1. Wait(r, h) \in WaitRecords /\ Wait(r, h).request = r
        BY DEF Wait, WaitRecords
    <2>2. /\ DOMAIN waits' = DOMAIN waits \cup {Len(waits) + 1}
          /\ \A i \in DOMAIN waits : waits'[i] = waits[i]
          /\ waits'[Len(waits) + 1] = Wait(r, h)
        BY <1>0, <1>1, <2>1, AppendPlaces
    <2> QED
        BY <2>1, <2>2 DEF Waiting
<1>2. ASSUME NEW r \in Requests, issued' = Append(issued, r)
      PROVE  ToSet(issued)' = ToSet(issued) \cup {r}
    <2>1. ToSet(issued') = ToSet(issued) \cup {r}
        BY <1>0, <1>2, AppendHolds
    <2> QED
        BY <2>1 DEF ToSet
<1>3. ASSUME issued' = issued, waits' = waits \/ (waits # <<>> /\ waits' = Front(waits))
      PROVE  \E new \in SUBSET Requests : Now(new)
    <2>1. \A i \in DOMAIN waits' : i \in DOMAIN waits /\ waits'[i] = waits[i]
        BY <1>0, <1>3, FrontPlaces
    <2>2. {} \in SUBSET Requests /\ Now({})
        BY <1>3, <2>1 DEF Waiting, ToSet
    <2> HIDE DEF Now
    <2> QED
        BY <2>2
<1>4. CASE Client
    <2>1. PICK r \in Requests :
            /\ issued' = Append(issued, r)
            /\ waits' = waits \/ waits' = Append(waits, Wait(r, None))
        BY <1>4 DEF Client, ipmi_send, ipmi_send_sync, ipmi_queue
    <2>2. waits' = waits => Waiting' = Waiting
        BY DEF Waiting
    <2>3. Now({r})
        BY <1>1, <1>2, <2>1, <2>2
    <2> QED
        BY <2>3
<1>5. CASE HandshakeDone
    <2> DEFINE p == NextPrivilege
    <2>1. p \in Requests
        BY <1>5 DEF HandshakeDone, NextPrivilege, Constants, PrivilegesAssumption
    <2>2. issued' = Append(issued, p) /\ waits' = Append(waits, Wait(p, "handshake"))
        BY <1>5 DEF HandshakeDone, ipmi_queue
    <2> HIDE DEF p
    <2>3. Now({p})
        BY <1>1, <1>2, <2>1, <2>2
    <2> QED
        BY <2>1, <2>3
<1>6. CASE AnswerPacket
    <2>1. ASSUME NEW a \in Requests, NEW r \in Requests, AnswerWaits(a, r)
          PROVE  Now({r})
        BY <1>0, <1>1, <1>2, <2>1 DEF AnswerWaits
    <2>2. ASSUME NEW a \in Requests, Answer(a) \/ UnknownAnswer(a)
          PROVE  \E new \in SUBSET Requests : Now(new)
        BY <1>3, <2>2 DEF Answer, UnknownAnswer, history
    <2>3. \/ \E a, r \in Requests : AnswerWaits(a, r)
          \/ \E a \in Requests : Answer(a) \/ UnknownAnswer(a)
        BY <1>6 DEF AnswerPacket
    <2>4. \E new \in SUBSET Requests : Now(new)
        <3>1. \A r \in Requests : {r} \in SUBSET Requests
            OBVIOUS
        <3> HIDE DEF Now
        <3> QED
            BY <2>1, <2>2, <2>3, <3>1
    <2> QED
        BY <2>4
<1>7. CASE Timers
    <2>1. issued' = issued /\ waits' = waits
        BY <1>7 DEF Timers, OpenTimeout, RequestTimeout, StaleTimeout, ipmi_health, history
    <2> QED
        BY <1>3, <2>1
<1>8. CASE HandshakePacket /\ ~HandshakeDone
    <2>1. issued' = issued /\ waits' = waits
        BY <1>8 DEF HandshakePacket, HandshakeGoesOn, CapsRefused, HandshakeRefused, history
    <2> QED
        BY <1>3, <2>1
<1>9. CASE Returns
    <2>1. issued' = issued /\ waits # <<>> /\ waits' = Front(waits)
        BY <1>9 DEF Returns, HandshakeReturns, CallbackReturns, CallReturns, Returning, history
    <2> QED
        BY <1>3, <2>1
<1>10. CASE UNCHANGED vars
    BY <1>3, <1>10 DEF vars, history
<1> QED
    BY <1>4, <1>5, <1>6, <1>7, <1>8, <1>9, <1>10 DEF Next

\* What leaves the line has been answered.
LEMMA LineLosesNothing ==
    ASSUME Constants, Inv, LineStep, \A r : ~WaitStep(r), ~ReturnStep,
           ToSet(issued) \ ToSet(Served) \subseteq ToSet(ipmi_msgq) \cup {inprogress}
    PROVE  (ToSet(issued) \ ToSet(Served) \subseteq ToSet(ipmi_msgq) \cup {inprogress})'
<1>0. /\ issued \in Seq(Requests) /\ answered \in Seq(Callbacks) /\ None \notin Requests
    BY RestNow DEF Constants, RequestsAssumption
<1> DEFINE I == ToSet(issued)
           S == ToSet(Served)
<1>1. I \subseteq Requests
    BY <1>0 DEF ToSet
<1>2. /\ ToSet(issued)' = ToSet(issued') /\ ToSet(ipmi_msgq)' = ToSet(ipmi_msgq')
      /\ answered' = answered => ToSet(Served)' = S
    BY DEF ToSet, Served
<1>3. ASSUME NEW r \in Requests, NewStep(r)
      PROVE  I' \ S' \subseteq ToSet(ipmi_msgq') \cup {inprogress'}
    <2>1. I' = I \cup {r} /\ S' = S /\ Keeps(ToSet(ipmi_msgq) \cup {inprogress, r})
        BY <1>0, <1>2, <1>3, AppendHolds DEF NewStep
    <2> QED
        BY <1>0, <1>1, <2>1 DEF Keeps
<1>4. CASE NextStep \/ BackStep
    <2>1. I' = I /\ S' = S /\ Keeps(ToSet(ipmi_msgq) \cup {inprogress})
        BY <1>2, <1>4 DEF NextStep, BackStep
    <2> QED
        BY <1>0, <1>1, <1>2, <2>1 DEF Keeps
<1>5. ASSUME NEW a \in Requests, AnswerStep(a)
      PROVE  I' \ S' \subseteq ToSet(ipmi_msgq') \cup {inprogress'}
    <2>1. I' = I /\ S' = S \cup {inprogress} /\ Keeps(ToSet(ipmi_msgq))
        BY <1>0, <1>2, <1>5, ServedGrows DEF AnswerStep
    <2> QED
        BY <1>0, <1>1, <2>1 DEF Keeps
<1> QED
    BY <1>2, <1>3, <1>4, <1>5 DEF LineStep

LEMMA StepLosesNothing ==
    ASSUME Constants, Inv, InOrder, NoneLost, [Next]_vars
    PROVE  NoneLost'
<1> SUFFICES ASSUME "wait" \notin spoiled' PROVE NothingLost'
    BY DEF NoneLost
<1>1. "wait" \notin spoiled
    BY NoCallbackWaits
<1>2. Waitless /\ NothingLost
    BY <1>1 DEF InOrder, NoneLost
<1>3. ~ReturnStep /\ \A r : ~WaitStep(r)
    BY <1>2 DEF ReturnStep, WaitStep, Waitless
<1>4. (ToSet(issued) \ ToSet(Served) \subseteq ToSet(ipmi_msgq) \cup {inprogress})'
    BY <1>2, <1>3, StepsInLine, LineLosesNothing DEF NothingLost
<1>5. PICK new \in SUBSET Requests :
        ToSet(issued)' = ToSet(issued) \cup new /\ Waiting' \subseteq Waiting \cup new
    BY CallsAreSent
<1>6. (Waiting \subseteq ToSet(issued))'
    BY <1>2, <1>5 DEF NothingLost
<1> QED
    BY <1>4, <1>6 DEF NothingLost

LEMMA InitNoneLost == Init => NoneLost
<1> SUFFICES ASSUME Init PROVE NothingLost
    BY DEF NoneLost
<1>1. issued = <<>> /\ waits = <<>>
    BY DEF Init
<1> QED
    BY <1>1 DEF NothingLost, Waiting, ToSet

-----------------------------------------------------------------------------
(* Theorems *)

\* The type, Watched and OneHandshake hold together: the invariant on which the
\* theorems below rest (rmcp_open, rmcp_close, rmcp_process).
THEOREM RmcpInvariant == Spec => []Inv
<1>1. Init => Inv
    BY ConstantsHold, InitInv
<1> QED
    BY <1>1, StepKeepsInv, PTL DEF Spec

\* The state of the link is of its type, through every session and every
\* nesting of calls (rmcp.itcl).
THEOREM RmcpTyped == Spec => []TypeOK
<1>1. Inv => TypeOK
    BY DEF Inv
<1> QED
    BY <1>1, RmcpInvariant, PTL

\* Whatever the link waits for has a timer, and the timer of an opening does not
\* outlive it (rmcp_open, rmcp_process_rakp4, ipmi_dequeue, rmcp_timeout).
THEOREM AlwaysWatched == Spec => []Watched
<1>1. Inv => Watched
    BY DEF Inv
<1> QED
    BY <1>1, RmcpInvariant, PTL

\* Lost packets, stale timers and waits in the handshake do not break the
\* contract: only a waiting callback or an answer that comes twice can
\* (rmcp_close, rmcp_timeout, ipmi_process).
THEOREM RmcpContractKept == Spec => ContractKept
<1>1. Init => (Unspoiled => Kept)
    BY InitKept
<1>2. Inv /\ (Unspoiled => Kept) /\ [Next]_vars => (Unspoiled => Kept)'
    BY ConstantsHold, StepKeeps
<1>3. Inv /\ (Unspoiled => Kept) /\ [Next]_vars
        => [spoiled' \subseteq {"ping"} => Contract!Next]_<<issued, answered>>
    <2> SUFFICES ASSUME Inv, Unspoiled => Kept, [Next]_vars, spoiled' \subseteq {"ping"}
                 PROVE  Contract!Next \/ UNCHANGED <<issued, answered>>
        OBVIOUS
    <2>1. Unspoiled'
        BY DEF Unspoiled
    <2> QED
        BY <2>1, ConstantsHold, StepKeeps DEF Contractual
<1> QED
    BY <1>1, <1>2, <1>3, RmcpInvariant, PTL DEF Spec, ContractKept

\* Requests of one priority are served in the order they were sent, across any
\* number of sessions, whatever is lost or comes twice, unless a callback waits
\* (ipmi_queue, ipmi_requeue in rmcp_close, ipmi_dequeue).
THEOREM RequestsServedInOrder == Spec => []ServedInOrder
<1>1. Inv /\ InOrder => ServedInOrder
    <2> SUFFICES ASSUME Inv, InOrder, "wait" \notin spoiled
                 PROVE  KeepsOrder(WholeLine, issued, Requests)
        BY DEF ServedInOrder
    <2>1. ListTyped
        BY RestNow DEF ListTyped
    <2> QED
        BY <2>1, OrderedLine DEF InOrder, Waitless
<1>2. Init => InOrder
    BY InitInOrder
<1>3. Inv /\ InOrder /\ [Next]_vars => InOrder'
    BY ConstantsHold, StepInOrder
<1> QED
    BY <1>1, <1>2, <1>3, RmcpInvariant, PTL DEF Spec

\* Dropped sessions, second copies of answers and waits inside the handshake lose
\* no request; only a callback that waits may (rmcp_close, ipmi_dequeue,
\* rmcp_process).
THEOREM NoRequestIsLost == Spec => []NoneLost
<1> DEFINE J == Inv /\ InOrder /\ NoneLost
<1>1. Init => J
    BY ConstantsHold, InitInv, InitInOrder, InitNoneLost
<1>2. J /\ [Next]_vars => J'
    BY ConstantsHold, StepKeepsInv, StepInOrder, StepLosesNothing
<1>3. J => NoneLost
    OBVIOUS
<1> HIDE DEF J
<1> QED
    BY <1>1, <1>2, <1>3, PTL DEF Spec

\* The line of the link has every request sent exactly once, those of one priority
\* in the order they were sent, through dropped sessions and second copies of
\* answers (rmcp_close, ipmi_dequeue, rmcp_process).
THEOREM LineIsKept == Spec => []LineKept
BY RequestsServedInOrder, NoRequestIsLost, PTL DEF LineKept

\* The link sends the most urgent of what waits, even when a callback waits
\* (ipmi_dequeue takes the head of a queue that every insert keeps sorted).
THEOREM MostUrgentIsFirst == Spec => MostUrgentFirst
<1> DEFINE A == inprogress' \notin {inprogress, None} =>
                    \A r \in ToSet(ipmi_msgq') : Priority[inprogress'] =< Priority[r]
           J == Inv /\ InOrder
<1>1. Init => J
    BY ConstantsHold, InitInv, InitInOrder
<1>2. J /\ [Next]_vars => J'
    BY ConstantsHold, StepKeepsInv, StepInOrder
<1>3. J /\ [Next]_vars => [A]_queue
    BY ConstantsHold, StepInOrder DEF MostUrgent
<1>4. Spec => [][A]_queue
    <2> HIDE DEF A, J
    <2> QED
        BY <1>1, <1>2, <1>3, PTL DEF Spec
<1> QED
    BY <1>4 DEF MostUrgentFirst
=============================================================================
