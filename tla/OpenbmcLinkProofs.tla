-------------------------- MODULE OpenbmcLinkProofs -------------------------
(***************************************************************************)
(* Safety of OpenbmcLink, for every set of requests, whatever the bounds   *)
(* and whichever misfortunes are allowed.  SessionConsistent is inductive  *)
(* by itself: the token is written only where a request is put on the      *)
(* wire, which is only done when connected; every handler that leaves      *)
(* "connected" drops the token and takes the link down.  The rest rests on *)
(* Inv, which relates the queue, the request in progress, what HTTP still  *)
(* holds and the timers.  The order of service needs none of these: it     *)
(* rests on Accounted alone.                                               *)
(***************************************************************************)
EXTENDS OpenbmcLink, RequestQueueProofs

\* Where the queue may have moved, something is sent only when connected.
SentConnected == NewlySent # {} => openbmc_status = "connected"

LEMMA DequeueSends ==
    ASSUME NEW q, ipmi_dequeue(q, openbmc_status)
    PROVE  SentConnected
BY DEF ipmi_dequeue, CanTransmit, NewlySent, SentConnected

LEMMA QueueSends ==
    ASSUME NEW r, ipmi_queue(r, openbmc_status)
    PROVE  SentConnected
BY DequeueSends DEF ipmi_queue, NewlySent, SentConnected

LEMMA AnswerSends ==
    ASSUME NEW r, Answer(r, openbmc_status)
    PROVE  SentConnected
BY DEF Answer, CanTransmit, NewlySent, SentConnected

\* openbmc_send, in a handler that leaves status and link alone.
LEMMA SendKeepsSession ==
    ASSUME NEW pending, openbmc_send(pending), SentConnected, UNCHANGED session,
           SessionConsistent
    PROVE  SessionConsistent'
BY DEF openbmc_send, SentConnected, session, SessionConsistent

LEMMA StepKeepsSession ==
    ASSUME SessionConsistent, [Next]_vars
    PROVE  SessionConsistent'
<1>1. ASSUME NEW r \in Requests, ipmi_send(r)
      PROVE  SessionConsistent'
    BY <1>1, QueueSends, SendKeepsSession DEF ipmi_send
<1>2. CASE LoginOk
    BY <1>2 DEF LoginOk, SessionConsistent
<1>3. CASE LoginFails
    BY <1>3 DEF LoginFails, session, SessionConsistent
<1>4. CASE openbmc_timeout
    BY <1>4 DEF openbmc_timeout, openbmc_close, SessionConsistent
<1>5. CASE ipmi_health
    <2>1. UNCHANGED session
        BY <1>5 DEF ipmi_health
    <2>2. CASE UNCHANGED openbmc_sock
        BY <2>1, <2>2 DEF session, SessionConsistent
    <2>3. CASE ipmi_dequeue(ipmi_msgq, openbmc_status) /\ openbmc_send(http)
        BY <2>1, <2>3, DequeueSends, SendKeepsSession
    <2> QED
        BY <1>5, <2>2, <2>3 DEF ipmi_health
<1>6. ASSUME NEW r \in Requests, openbmc_process(r)
      PROVE  SessionConsistent'
    <2>1. UNCHANGED session
        BY <1>6 DEF openbmc_process
    <2>2. CASE UNCHANGED openbmc_sock
        BY <2>1, <2>2 DEF session, SessionConsistent
    <2>3. CASE Answer(r, openbmc_status) /\ openbmc_send([http EXCEPT ![r] = @ - 1])
        BY <2>1, <2>3, AnswerSends, SendKeepsSession
    <2> QED
        BY <1>6, <2>2, <2>3 DEF openbmc_process
<1>7. ASSUME NEW r \in Requests, BadAnswer(r)
      PROVE  SessionConsistent'
    BY <1>7 DEF BadAnswer, session, SessionConsistent
<1>8. CASE ToggleNetwork
    BY <1>8 DEF ToggleNetwork, session, SessionConsistent
<1>9. CASE Destroy
    BY <1>9 DEF Destroy, openbmc_close, SessionConsistent
<1>10. CASE UNCHANGED vars
    BY <1>10 DEF vars, session, SessionConsistent
<1> QED
    BY <1>1, <1>2, <1>3, <1>4, <1>5, <1>6, <1>7, <1>8, <1>9, <1>10 DEF Next, FromBmc

\* The link the user sees is up exactly while requests may be sent, and a
\* token is kept only then, through every interleaving of nested logins,
\* closes, late answers and failing sends (openbmc_open, openbmc_close and
\* openbmc_send each write some of the three).
THEOREM SessionStaysConsistent == Spec => []SessionConsistent
<1>1. Init => SessionConsistent
    BY DEF Init, SessionConsistent
<1> QED
    BY <1>1, StepKeepsSession, PTL DEF Spec

-----------------------------------------------------------------------------
(* The queue *)

\* The list of tags agrees with the array; a timer watches a request.
TagsOK ==
    /\ inprogress_q = IF inprogress = None THEN <<>> ELSE <<0>>
    /\ request_after \in BOOLEAN
    /\ request_after => inprogress # None

\* What a queue handler leaves: nothing is lost or repeated, the contract is
\* kept unless an answer went astray, and what moved was waiting or is new.
QueueMoved ==
    /\ ListTyped' /\ Accounted' /\ TagsOK'
    /\ \A x \in ToSet(ipmi_msgq') \cup NewlySent :
            x \in ToSet(ipmi_msgq) \/ x \notin ToSet(issued)
    /\ NewlySent # {} => request_after'

\* The requests that wait for an answer from the BMC.
Ordinary == Requests \ Faked

\* The requests that a send passes over are all faked.
LEMMA TransmitMoves ==
    ASSUME RequestsAssumption, NEW q \in Seq(Requests), NEW done, Transmit(q, done)
    PROVE  /\ \E n \in 0 .. Len(q) : Passes(q, n, Ordinary) /\ Move(q, n, done)
           /\ TagsOK'
           /\ inprogress' # None => request_after'
<1> DEFINE I == {i \in DOMAIN q : \A j \in 1 .. i : q[j] \in Faked}
           n == LeadingFakes(q)
<1>1. n \in 0 .. Len(q)
    BY CountInQueue DEF LeadingFakes
<1>2. Passes(q, n, Ordinary)
    <2>1. Len(q) \in Nat /\ I \in SUBSET (1 .. Len(q)) /\ n = Cardinality(I)
        BY DEF LeadingFakes
    <2>2. \A i \in I, j \in 1 .. Len(q) : j < i => j \in I
        OBVIOUS
    <2>3. \A i \in 1 .. Len(q) : i \in I => q[i] \in Faked
        OBVIOUS
    <2> HIDE DEF I
    <2>4. \A i \in 1 .. Len(q) : i \in I <=> i =< n
        BY <2>1, <2>2, CountedInFront
    <2> HIDE DEF n
    <2> QED
        BY <1>1, <2>3, <2>4 DEF Passes, Ordinary
<1>3. Move(q, n, done)
    BY DEF Transmit, Move
<1>4. \/ n < Len(q) /\ inprogress' = q[n + 1] /\ inprogress_q' = <<0>> /\ request_after' = TRUE
      \/ inprogress' = None /\ inprogress_q' = <<>> /\ request_after' = FALSE
    BY DEF Transmit
<1> HIDE DEF n
<1>5. n < Len(q) => q[n + 1] \in Requests
    BY <1>1
<1>6. n < Len(q) => q[n + 1] # None
    BY <1>5 DEF RequestsAssumption
<1>7. TagsOK' /\ (inprogress' # None => request_after')
    BY <1>4, <1>6 DEF TagsOK
<1> QED
    BY <1>1, <1>2, <1>3, <1>7

LEMMA DequeueMayMove ==
    ASSUME RequestsAssumption, TagsOK, NEW q \in Seq(Requests), NEW status,
           \/ ipmi_dequeue(q, status)
           \/ ipmi_msgq' = q /\ UNCHANGED <<inprogress, inprogress_q, request_after, answered>>
    PROVE  /\ MayMove(q) /\ TagsOK'
           /\ inprogress' \notin {inprogress, None} => request_after' /\ inprogress = None
           /\ inprogress # None => UNCHANGED <<inprogress, request_after>>
<1> DEFINE none == <<>>
<1>1. \/ inprogress = None /\ Transmit(q, none)
      \/ ipmi_msgq' = q /\ UNCHANGED <<inprogress, inprogress_q, request_after, answered>>
    BY DEF ipmi_dequeue
<1> HIDE DEF none
<1>2. CASE inprogress = None /\ Transmit(q, none)
    BY <1>2, TransmitMoves DEF MayMove, none, TagsOK
<1>3. CASE ipmi_msgq' = q /\ UNCHANGED <<inprogress, inprogress_q, request_after, answered>>
    BY <1>3 DEF MayMove, TagsOK
<1> QED
    BY <1>1, <1>2, <1>3

LEMMA NewRequestMoves ==
    ASSUME RequestsAssumption, ListTyped, Accounted, TagsOK,
           NEW r \in Requests, NEW status, ipmi_queue(r, status)
    PROVE  /\ QueueMoved /\ Contract!Next
           /\ NewlySent # {} => inprogress = None
           /\ inprogress # None => UNCHANGED <<inprogress, request_after>>
<1> DEFINE q == InsertLast(ipmi_msgq, r)
<1>1. r \in Requests \ ToSet(issued) /\ issued' = Append(issued, r)
    BY DEF ipmi_queue
<1>2. r \notin ToSet(ipmi_msgq)
    BY <1>1 DEF Accounted, RequestsAssumption
<1>3. q \in Seq(Requests) /\ ToSet(q) = ToSet(ipmi_msgq) \cup {r}
    BY InsertLastHolds DEF ListTyped
<1>4. \/ ipmi_dequeue(q, status)
      \/ ipmi_msgq' = q /\ UNCHANGED <<inprogress, inprogress_q, request_after, answered>>
    BY DEF ipmi_queue
<1> HIDE DEF q
<1>5. /\ MayMove(q) /\ TagsOK'
      /\ inprogress' \notin {inprogress, None} => request_after' /\ inprogress = None
      /\ inprogress # None => UNCHANGED <<inprogress, request_after>>
    BY <1>3, <1>4, DequeueMayMove
<1>6. Accounted' /\ Contract!Next
    BY <1>1, <1>5, NewRequestAccounted DEF q
<1>7. /\ ipmi_msgq' \in Seq(Requests) /\ answered' \in Seq(Callbacks)
      /\ ToSet(ipmi_msgq') \subseteq ToSet(q)
      /\ inprogress' \in ToSet(q) \cup {None, inprogress}
    BY <1>3, <1>5, MayMoveTyped
<1>8. ToSet(q) \subseteq Requests /\ issued' \in Seq(Requests)
    BY <1>1, <1>3, AppendProperties DEF ToSet, ListTyped
<1>9. ListTyped'
    BY <1>7, <1>8 DEF ListTyped
<1> QED
    BY <1>1, <1>3, <1>5, <1>6, <1>7, <1>9 DEF QueueMoved, NewlySent

LEMMA NextRequestMoves ==
    ASSUME RequestsAssumption, ListTyped, Accounted, TagsOK,
           NEW status, ipmi_dequeue(ipmi_msgq, status), UNCHANGED issued
    PROVE  /\ QueueMoved /\ Contract!Next
           /\ NewlySent # {} => inprogress = None
           /\ inprogress # None => UNCHANGED <<inprogress, request_after>>
<1> DEFINE q == ipmi_msgq
<1>1. q \in Seq(Requests) /\ ToSet(q) \subseteq Requests
    BY DEF ListTyped, ToSet
<1>2. /\ MayMove(q) /\ TagsOK'
      /\ inprogress' \notin {inprogress, None} => request_after' /\ inprogress = None
      /\ inprogress # None => UNCHANGED <<inprogress, request_after>>
    BY <1>1, DequeueMayMove
<1>3. Accounted' /\ Contract!Next
    BY <1>2, NextRequestAccounted
<1>4. /\ ipmi_msgq' \in Seq(Requests) /\ answered' \in Seq(Callbacks)
      /\ ToSet(ipmi_msgq') \subseteq ToSet(q)
      /\ inprogress' \in ToSet(q) \cup {None, inprogress}
    BY <1>1, <1>2, MayMoveTyped
<1>5. ListTyped'
    BY <1>1, <1>4 DEF ListTyped
<1> QED
    BY <1>2, <1>3, <1>4, <1>5 DEF QueueMoved, NewlySent

\* An answer to a, whichever request is in progress.
LEMMA AnswerMoves ==
    ASSUME RequestsAssumption, ListTyped, Accounted, TagsOK,
           NEW a \in Requests, NEW status, Answer(a, status), UNCHANGED issued
    PROVE  /\ QueueMoved /\ inprogress' # inprogress
           /\ a = inprogress => Contract!Next
<1> DEFINE done == <<Callback(inprogress, a)>>
<1>1. inprogress \in Requests /\ inprogress # None
    BY DEF Answer, ListTyped
<1>2. Callback(inprogress, a) \in Callbacks /\ done \in Seq(Callbacks)
    BY <1>1 DEF Callback, Callbacks
<1>3. \/ Transmit(ipmi_msgq, done)
      \/ /\ inprogress' = None /\ request_after' = FALSE
         /\ inprogress_q' = Tail(inprogress_q)
         /\ answered' = Append(answered, Callback(inprogress, a))
         /\ UNCHANGED ipmi_msgq
    BY DEF Answer
<1> HIDE DEF done
<1>4. ipmi_msgq \in Seq(Requests) /\ ToSet(ipmi_msgq) \subseteq Requests
      /\ answered \in Seq(Callbacks) /\ issued \in Seq(Requests)
    BY DEF ListTyped, ToSet
<1>5. CASE Transmit(ipmi_msgq, done)
    <2>1. /\ \E n \in 0 .. Len(ipmi_msgq) : Move(ipmi_msgq, n, done)
          /\ TagsOK'
          /\ inprogress' # None => request_after'
        BY <1>4, <1>5, TransmitMoves
    <2>2. /\ ipmi_msgq' \in Seq(Requests) /\ answered' \in Seq(Callbacks)
          /\ ToSet(ipmi_msgq') \subseteq ToSet(ipmi_msgq)
          /\ inprogress' \in ToSet(ipmi_msgq) \cup {None}
        BY <1>2, <1>4, <2>1, MoveTyped
    <2>3. Accounted' /\ (a = inprogress => Contract!Next)
        BY <1>1, <2>1, AnswerAccounted DEF done
    <2>4. ListTyped'
        BY <1>4, <2>2 DEF ListTyped
    <2>5. inprogress' # inprogress
        BY <1>1, <2>2 DEF Accounted
    <2> QED
        BY <2>1, <2>2, <2>3, <2>4, <2>5 DEF QueueMoved, NewlySent
<1>6. CASE /\ inprogress' = None /\ request_after' = FALSE
           /\ inprogress_q' = Tail(inprogress_q)
           /\ answered' = Append(answered, Callback(inprogress, a))
           /\ UNCHANGED ipmi_msgq
    <2>1. Accounted' /\ (a = inprogress => Contract!Next)
        BY <1>1, <1>6, AnswerAccounted
    <2>2. answered' \in Seq(Callbacks)
        BY <1>2, <1>4, <1>6, AppendProperties
    <2>3. ListTyped'
        BY <1>4, <1>6, <2>2 DEF ListTyped
    <2>4. inprogress_q' = <<>>
        <3>1. Tail(<<0>>) = <<>>
            OBVIOUS
        <3> QED
            BY <1>1, <1>6, <3>1 DEF TagsOK
    <2>5. TagsOK'
        BY <1>6, <2>4 DEF TagsOK
    <2> QED
        BY <1>1, <1>6, <2>1, <2>3, <2>5 DEF QueueMoved, NewlySent
<1> QED
    BY <1>3, <1>5, <1>6

\* A close with a token takes the request in progress back.
LEMMA TakeBackMoves ==
    ASSUME RequestsAssumption, ListTyped, Accounted, TagsOK, TakeBack, UNCHANGED issued
    PROVE  /\ ListTyped' /\ Accounted' /\ TagsOK' /\ Contract!Next
           /\ inprogress' = None
<1>1. Accounted' /\ Contract!Next
    BY TakeBackAccounted DEF TakeBack
<1>2. ipmi_msgq' \in Seq(Requests)
    BY InsertIsQueue DEF TakeBack, ListTyped
<1>3. ListTyped'
    BY <1>2 DEF TakeBack, ListTyped
<1>4. TagsOK'
    BY DEF TakeBack, TagsOK
<1> QED
    BY <1>1, <1>3, <1>4 DEF TakeBack

\* A handler that leaves list, slot and histories alone.
LEMMA NothingMoves ==
    ASSUME RequestsAssumption, ListTyped, Accounted,
           UNCHANGED <<ipmi_msgq, inprogress, answered, issued>>
    PROVE  ListTyped' /\ Accounted' /\ Contract!Next
<1>1. Accounted' /\ Contract!Next
    BY AccountUndisturbed DEF Accounted
<1> QED
    BY <1>1 DEF ListTyped

-----------------------------------------------------------------------------
(* The HTTP requests and the whole invariant *)

SessionTyped ==
    /\ network \in BOOLEAN
    /\ openbmc_status \in {"disconnected", "connected", "closed"}
    /\ openbmc_sock \in BOOLEAN
    /\ logins \in 0 .. MaxLogins
    /\ link \in {"up", "down"}
    /\ ipmi_health_after \in BOOLEAN
    /\ life \in {"alive", "deleted", "exited"}
    /\ misfortunes \in Misfortunes

\* There is room for an HTTP request of whatever may still be sent.  Unless
\* answers come late, only the request in progress has one, and only one.
HttpOK ==
    /\ http \in [Requests -> 0 .. MaxCopies]
    /\ life = "alive" =>
        \A x \in Requests : x \in ToSet(ipmi_msgq) \/ x \notin ToSet(issued) =>
            http[x] < MaxCopies
    /\ "late" \notin misfortunes =>
        \A x \in Requests : http[x] > 0 => x = inprogress /\ http[x] = 1
    /\ life = "exited" => "late" \in misfortunes

\* Unless sends fail, a request in progress has a timer and a token.
WaitOK ==
    life = "alive" /\ "send" \notin misfortunes /\ inprogress # None =>
        request_after /\ openbmc_sock

Inv ==
    /\ ListTyped /\ Accounted /\ TagsOK
    /\ SessionTyped /\ HttpOK /\ WaitOK

\* openbmc_send, after a queue handler: pending are the HTTP requests that
\* this step has not answered.
LEMMA SendKeepsHttp ==
    ASSUME RequestsAssumption, BoundsAssumption, Inv, QueueMoved, life = "alive",
           UNCHANGED <<life, misfortunes>>,
           ToSet(issued) \subseteq ToSet(issued'),
           NEW pending \in [Requests -> 0 .. MaxCopies],
           \A x \in Requests : pending[x] =< http[x],
           "late" \notin misfortunes =>
                \A x \in Requests : pending[x] > 0 =>
                    x = inprogress /\ pending[x] = 1 /\ inprogress' = inprogress,
           openbmc_send(pending)
    PROVE  HttpOK'
<1>1. MaxCopies \in Nat
    BY DEF BoundsAssumption
<1>2. http \in [Requests -> 0 .. MaxCopies]
    BY DEF Inv, HttpOK
<1>3. \A x \in ToSet(ipmi_msgq') \cup NewlySent : x \in Requests => http[x] < MaxCopies
    BY DEF QueueMoved, Inv, HttpOK
<1>4. /\ inprogress' \notin ToSet(ipmi_msgq')
      /\ inprogress' # None => inprogress' \in ToSet(issued')
    BY DEF QueueMoved, Accounted
<1>5. \A x \in Requests : pending[x] \in 0 .. MaxCopies /\ http[x] \in 0 .. MaxCopies
    BY <1>2
<1>6. CASE http' = pending /\ NewlySent # {}
    <2>1. \A x \in Requests : x \in ToSet(ipmi_msgq') \/ x \notin ToSet(issued') =>
                pending[x] < MaxCopies
        <3>1. \A x \in Requests : x \in ToSet(ipmi_msgq') \/ x \notin ToSet(issued') =>
                    http[x] < MaxCopies
            BY <1>3 DEF Inv, HttpOK
        <3> QED
            BY <1>1, <1>5, <3>1
    <2>2. NewlySent # {} => inprogress' # inprogress
        BY DEF NewlySent
    <2> QED
        BY <1>6, <2>1, <2>2 DEF HttpOK
<1>7. CASE http' = [x \in Requests |-> pending[x] + (IF x \in NewlySent THEN 1 ELSE 0)]
    <2>1. \A x \in Requests :
            http'[x] = IF x \in NewlySent THEN pending[x] + 1 ELSE pending[x]
        BY <1>5, <1>7
    <2>2. \A x \in Requests : http'[x] \in 0 .. MaxCopies
        BY <1>1, <1>3, <1>5, <2>1
    <2>3. DOMAIN http' = Requests /\ http' = [x \in Requests |-> http'[x]]
        BY <1>7
    <2>4. http' \in [Requests -> 0 .. MaxCopies]
        BY <2>2, <2>3
    <2>5. \A x \in Requests : x \in ToSet(ipmi_msgq') \/ x \notin ToSet(issued') =>
                http'[x] < MaxCopies
        <3> SUFFICES ASSUME NEW x \in Requests,
                            x \in ToSet(ipmi_msgq') \/ x \notin ToSet(issued')
                     PROVE  http'[x] < MaxCopies
            OBVIOUS
        <3>1. http[x] < MaxCopies
            BY <1>3 DEF Inv, HttpOK
        <3>2. x \notin NewlySent
            BY <1>4 DEF NewlySent
        <3> QED
            BY <1>1, <1>5, <2>1, <3>1, <3>2
    <2>6. ASSUME "late" \notin misfortunes, NEW x \in Requests, http'[x] > 0
          PROVE  x = inprogress' /\ http'[x] = 1
        <3>1. CASE x \in NewlySent
            <4>1. x = inprogress' /\ inprogress' # inprogress
                BY <3>1 DEF NewlySent
            <4>2. ~(pending[x] > 0)
                BY <2>6, <4>1
            <4>3. pending[x] = 0
                BY <1>1, <1>5, <4>2
            <4> QED
                BY <2>1, <3>1, <4>1, <4>3
        <3>2. CASE x \notin NewlySent
            <4>1. http'[x] = pending[x]
                BY <2>1, <3>2
            <4> QED
                BY <2>6, <4>1
        <3> QED
            BY <3>1, <3>2
    <2> QED
        BY <2>4, <2>5, <2>6 DEF HttpOK, Inv
<1> QED
    BY <1>6, <1>7 DEF openbmc_send

\* The same handlers keep a wait real.
LEMMA SendKeepsWait ==
    ASSUME Inv, QueueMoved, UNCHANGED <<life, misfortunes>>,
           NEW pending, openbmc_send(pending),
           inprogress' # None => inprogress' # inprogress \/ UNCHANGED request_after
    PROVE  WaitOK'
<1> SUFFICES ASSUME life = "alive", "send" \notin misfortunes, inprogress' # None
             PROVE  request_after' /\ openbmc_sock'
    BY DEF WaitOK
<1>1. openbmc_sock' = (openbmc_sock \/ NewlySent # {})
    BY DEF openbmc_send
<1>2. CASE inprogress' = inprogress
    BY <1>1, <1>2 DEF Inv, WaitOK
<1>3. CASE inprogress' # inprogress
    <2>1. NewlySent # {}
        BY <1>3 DEF NewlySent
    <2> QED
        BY <1>1, <2>1 DEF QueueMoved
<1> QED
    BY <1>2, <1>3

\* openbmc_close: a request in progress goes back to the queue, except when
\* a failed send has left no token.
LEMMA CloseKeepsInv ==
    ASSUME RequestsAssumption, BoundsAssumption, Inv, openbmc_close, UNCHANGED issued,
           life = "alive", life' \in {"alive", "deleted"},
           life' = "alive" => \A r \in Requests : http[r] < MaxCopies,
           request_after' \in BOOLEAN,
           request_after' => request_after,
           life' = "alive" /\ ~openbmc_sock => request_after,
           UNCHANGED misfortunes
    PROVE  /\ ListTyped' /\ Accounted' /\ TagsOK' /\ Contract!Next
           /\ HttpOK' /\ WaitOK'
<1>1. ListTyped' /\ Accounted' /\ TagsOK' /\ Contract!Next
    <2>1. CASE TakeBack
        BY <2>1, TakeBackMoves DEF Inv
    <2>2. CASE UNCHANGED <<ipmi_msgq, inprogress, inprogress_q, answered>>
        BY <2>2, NothingMoves DEF Inv, TagsOK
    <2> QED
        BY <2>1, <2>2 DEF openbmc_close
<1>2. HttpOK'
    <2>1. http \in [Requests -> 0 .. MaxCopies] /\ MaxCopies \in Nat \ {0}
        BY DEF Inv, HttpOK, BoundsAssumption
    <2>2. CASE "late" \in misfortunes
        <3>1. http' = http
            BY <2>2 DEF openbmc_close, Cut
        <3> QED
            BY <2>1, <2>2, <3>1 DEF HttpOK
    <2>3. CASE "late" \notin misfortunes
        <3>1. http' = [r \in Requests |-> 0]
            BY <2>3 DEF openbmc_close, Cut
        <3>2. http' \in [Requests -> 0 .. MaxCopies] /\ \A r \in Requests : http'[r] = 0
            BY <2>1, <3>1
        <3> QED
            BY <2>1, <2>3, <3>2 DEF HttpOK
    <2> QED
        BY <2>2, <2>3
<1>3. WaitOK'
    <2>1. CASE TakeBack
        BY <2>1 DEF TakeBack, WaitOK
    <2>2. CASE ~openbmc_sock /\ UNCHANGED inprogress
        BY <2>2 DEF Inv, WaitOK, TagsOK
    <2> QED
        BY <2>1, <2>2 DEF openbmc_close
<1> QED
    BY <1>1, <1>2, <1>3

LEMMA OpenTyped ==
    ASSUME BoundsAssumption, logins \in 0 .. MaxLogins, NEW s, openbmc_open(s)
    PROVE  logins' \in 0 .. MaxLogins
BY DEF openbmc_open, BoundsAssumption

\* A handler that moves the queue and sends.
LEMMA SendKeepsInv ==
    ASSUME RequestsAssumption, BoundsAssumption, Inv, QueueMoved, life = "alive",
           ToSet(issued) \subseteq ToSet(issued'),
           openbmc_send(http), NewlySent # {} => inprogress = None,
           inprogress # None => UNCHANGED <<inprogress, request_after>>,
           UNCHANGED <<session, logins, rest>>
    PROVE  Inv'
<1>1. /\ http \in [Requests -> 0 .. MaxCopies]
      /\ \A x \in Requests : http[x] \in 0 .. MaxCopies
      /\ MaxCopies \in Nat
    BY DEF Inv, HttpOK, BoundsAssumption
<1>2. \A x \in Requests : http[x] =< http[x]
    BY <1>1
<1>3. "late" \notin misfortunes =>
            \A x \in Requests : http[x] > 0 =>
                x = inprogress /\ http[x] = 1 /\ inprogress' = inprogress
    BY DEF Inv, HttpOK, RequestsAssumption
<1>4. HttpOK'
    BY <1>1, <1>2, <1>3, SendKeepsHttp DEF rest
<1>5. WaitOK'
    BY SendKeepsWait DEF rest
<1>6. SessionTyped'
    <2>1. openbmc_sock' \in BOOLEAN
        BY DEF openbmc_send, Inv, SessionTyped
    <2> QED
        BY <2>1 DEF Inv, SessionTyped, session, rest
<1> QED
    BY <1>4, <1>5, <1>6 DEF Inv, QueueMoved

\* A good answer: to the request in progress, or with none to the exit.
LEMMA ProcessKeepsInv ==
    ASSUME RequestsAssumption, BoundsAssumption, Inv, NEW r \in Requests, openbmc_process(r)
    PROVE  Inv' /\ ("late" \in misfortunes \/ Contract!Next)
<1> DEFINE pending == [http EXCEPT ![r] = @ - 1]
<1>1. /\ http \in [Requests -> 0 .. MaxCopies]
      /\ \A x \in Requests : http[x] \in 0 .. MaxCopies
      /\ MaxCopies \in Nat /\ http[r] > 0 /\ life = "alive" /\ UNCHANGED misfortunes
    BY DEF Inv, HttpOK, BoundsAssumption, openbmc_process, rest
<1>2. /\ \A x \in Requests : pending[x] = IF x = r THEN http[x] - 1 ELSE http[x]
      /\ pending \in [Requests -> 0 .. MaxCopies]
    BY <1>1
<1>3. \A x \in Requests : pending[x] =< http[x] /\ pending[x] \in 0 .. MaxCopies
    BY <1>1, <1>2
<1>4. "late" \notin misfortunes =>
        r = inprogress /\ \A x \in Requests : ~(pending[x] > 0)
    <2> SUFFICES ASSUME "late" \notin misfortunes
                 PROVE  r = inprogress /\ \A x \in Requests : ~(pending[x] > 0)
        OBVIOUS
    <2>1. \A x \in Requests : http[x] > 0 => x = inprogress /\ http[x] = 1
        BY DEF Inv, HttpOK
    <2>2. r = inprogress /\ http[r] = 1
        BY <1>1, <2>1
    <2>3. \A x \in Requests : x # r => http[x] = 0
        BY <1>1, <2>1, <2>2
    <2> QED
        BY <1>2, <2>2, <2>3
<1>5. CASE /\ Answer(r, openbmc_status)
           /\ openbmc_send(pending)
           /\ UNCHANGED <<session, logins, rest, issued>>
    <2> HIDE DEF pending
    <2>1. QueueMoved /\ inprogress' # inprogress /\ (r = inprogress => Contract!Next)
        BY <1>5, AnswerMoves DEF Inv
    <2>2. ToSet(issued) \subseteq ToSet(issued')
        BY <1>5
    <2>3. HttpOK'
        BY <1>1, <1>2, <1>3, <1>4, <1>5, <2>1, <2>2, SendKeepsHttp DEF rest
    <2>4. WaitOK'
        BY <1>5, <2>1, SendKeepsWait DEF rest
    <2>5. SessionTyped'
        <3>1. openbmc_sock' \in BOOLEAN
            BY <1>5 DEF openbmc_send, Inv, SessionTyped
        <3> QED
            BY <1>5, <3>1 DEF Inv, SessionTyped, session, rest
    <2> QED
        BY <1>4, <2>1, <2>3, <2>4, <2>5 DEF Inv, QueueMoved
<1>6. CASE /\ inprogress_q = <<>> \/ inprogress = None
           /\ life' = "exited"
           /\ http' = pending
           /\ UNCHANGED <<queue, session, openbmc_sock, logins, network,
                          ipmi_health_after, misfortunes, issued>>
    <2>1. "late" \in misfortunes
        <3>1. inprogress = None
            BY <1>6 DEF Inv, TagsOK
        <3> QED
            BY <1>4, <3>1 DEF RequestsAssumption
    <2>2. ListTyped' /\ Accounted'
        BY <1>6, NothingMoves DEF Inv, queue
    <2>3. TagsOK' /\ SessionTyped' /\ WaitOK'
        BY <1>6 DEF Inv, TagsOK, SessionTyped, WaitOK, queue, session
    <2>4. HttpOK'
        BY <1>2, <1>6, <2>1 DEF HttpOK
    <2> QED
        BY <2>1, <2>2, <2>3, <2>4 DEF Inv
<1> QED
    BY <1>5, <1>6 DEF openbmc_process

LEMMA StepKeepsInv ==
    ASSUME Inv, [Next]_vars
    PROVE  Inv' /\ ("late" \in misfortunes \/ Contract!Next)
<1> USE RequestsAssumption, BoundsAssumption
<1>1. ASSUME NEW r \in Requests, ipmi_send(r)
      PROVE  Inv' /\ Contract!Next
    <2>1. /\ QueueMoved /\ Contract!Next
          /\ NewlySent # {} => inprogress = None
          /\ inprogress # None => UNCHANGED <<inprogress, request_after>>
        BY <1>1, NewRequestMoves DEF ipmi_send, Inv
    <2>2. ToSet(issued) \subseteq ToSet(issued')
        <3>1. issued' = Append(issued, r) /\ issued \in Seq(Requests)
            BY <1>1 DEF ipmi_send, ipmi_queue, Inv, ListTyped
        <3> QED
            BY <3>1, AppendHolds
    <2> QED
        BY <1>1, <2>1, <2>2, SendKeepsInv DEF ipmi_send
<1>2. CASE UNCHANGED <<queue, issued, openbmc_sock, http, rest>>
           /\ logins' \in 0 .. MaxLogins
           /\ \/ UNCHANGED session
              \/ openbmc_status' = "connected" /\ link' = "up"
    <2>1. ListTyped' /\ Accounted' /\ Contract!Next
        BY <1>2, NothingMoves DEF Inv, queue
    <2>2. TagsOK' /\ SessionTyped' /\ WaitOK' /\ HttpOK'
        BY <1>2 DEF Inv, TagsOK, SessionTyped, WaitOK, HttpOK, queue, session, rest
    <2> QED
        BY <2>1, <2>2 DEF Inv
<1>3. CASE LoginOk \/ LoginFails
    <2>1. logins' \in 0 .. MaxLogins
        BY <1>3 DEF LoginOk, LoginFails, Inv, SessionTyped, BoundsAssumption
    <2> QED
        BY <1>2, <1>3, <2>1 DEF LoginOk, LoginFails
<1>4. CASE openbmc_timeout
    <2>1. /\ ListTyped' /\ Accounted' /\ TagsOK' /\ Contract!Next
          /\ HttpOK' /\ WaitOK'
        <3>1. /\ life = "alive" /\ life' = "alive" /\ request_after /\ request_after' = FALSE
              /\ \A r \in Requests : http[r] < MaxCopies
              /\ openbmc_close /\ UNCHANGED <<issued, misfortunes>>
            BY <1>4 DEF openbmc_timeout, rest
        <3> QED
            BY <3>1, CloseKeepsInv
    <2>2. logins' \in 0 .. MaxLogins
        BY <1>4, OpenTyped DEF openbmc_timeout, Inv, SessionTyped
    <2>3. SessionTyped'
        BY <1>4, <2>2 DEF openbmc_timeout, openbmc_close, Inv, SessionTyped, rest
    <2> QED
        BY <2>1, <2>3 DEF Inv
<1>5. CASE ipmi_health
    <2>1. CASE openbmc_open(openbmc_sock) /\ UNCHANGED <<queue, openbmc_sock, http>>
        <3>1. logins' \in 0 .. MaxLogins
            BY <2>1, OpenTyped DEF Inv, SessionTyped
        <3> QED
            BY <1>2, <1>5, <2>1, <3>1 DEF ipmi_health
    <2>2. CASE /\ ipmi_dequeue(ipmi_msgq, openbmc_status)
               /\ openbmc_send(http)
               /\ UNCHANGED logins
        <3>1. life = "alive" /\ UNCHANGED <<session, rest, issued>>
            BY <1>5 DEF ipmi_health
        <3>2. /\ QueueMoved /\ Contract!Next
              /\ NewlySent # {} => inprogress = None
              /\ inprogress # None => UNCHANGED <<inprogress, request_after>>
            BY <2>2, <3>1, NextRequestMoves DEF Inv
        <3>3. ToSet(issued) \subseteq ToSet(issued')
            BY <3>1
        <3> QED
            BY <2>2, <3>1, <3>2, <3>3, SendKeepsInv
    <2> QED
        BY <1>5, <2>1, <2>2 DEF ipmi_health
<1>6. ASSUME NEW r \in Requests, BadAnswer(r)
      PROVE  Inv' /\ Contract!Next
    <2>1. /\ http \in [Requests -> 0 .. MaxCopies] /\ MaxCopies \in Nat
          /\ http' = [http EXCEPT ![r] = @ - 1] /\ http[r] > 0
          /\ UNCHANGED <<queue, session, openbmc_sock, logins, rest, issued>>
        BY <1>6 DEF BadAnswer, Inv, HttpOK, BoundsAssumption
    <2>2. ListTyped' /\ Accounted' /\ Contract!Next
        BY <2>1, NothingMoves DEF Inv, queue
    <2>3. /\ \A x \in Requests : http[x] \in 0 .. MaxCopies
          /\ \A x \in Requests : http'[x] = IF x = r THEN http[x] - 1 ELSE http[x]
          /\ http' \in [Requests -> 0 .. MaxCopies]
        BY <2>1
    <2>4. \A x \in Requests : /\ http'[x] > 0 => http[x] > 0
                              /\ http[x] = 1 /\ http'[x] > 0 => http'[x] = 1
                              /\ http[x] < MaxCopies => http'[x] < MaxCopies
        BY <2>1, <2>3
    <2>5. HttpOK'
        BY <2>1, <2>3, <2>4 DEF Inv, HttpOK, queue, rest
    <2>6. TagsOK' /\ SessionTyped' /\ WaitOK'
        BY <2>1 DEF Inv, TagsOK, SessionTyped, WaitOK, queue, session, rest
    <2> QED
        BY <2>2, <2>5, <2>6 DEF Inv
<1>7. CASE ToggleNetwork
    <2>1. ListTyped' /\ Accounted' /\ Contract!Next
        BY <1>7, NothingMoves DEF ToggleNetwork, Inv, queue
    <2>2. TagsOK' /\ SessionTyped' /\ WaitOK' /\ HttpOK'
        BY <1>7 DEF ToggleNetwork, Inv, TagsOK, SessionTyped, WaitOK, HttpOK, queue, session
    <2> QED
        BY <2>1, <2>2 DEF Inv
<1>8. CASE Destroy
    <2>1. /\ life = "alive" /\ life' = "deleted" /\ openbmc_close
          /\ UNCHANGED <<logins, network, misfortunes, issued>> /\ ipmi_health_after' = FALSE
          /\ \/ request_after' = FALSE
             \/ UNCHANGED request_after
        BY <1>8 DEF Destroy, openbmc_close, TakeBack
    <2>2. request_after' \in BOOLEAN /\ (request_after' => request_after)
        <3>1. request_after \in BOOLEAN
            BY DEF Inv, TagsOK
        <3>2. CASE request_after' = FALSE
            BY <3>2
        <3>3. CASE UNCHANGED request_after
            BY <3>1, <3>3
        <3> QED
            BY <2>1, <3>2, <3>3
    <2>3. /\ ListTyped' /\ Accounted' /\ TagsOK' /\ Contract!Next
          /\ HttpOK' /\ WaitOK'
        BY <2>1, <2>2, CloseKeepsInv
    <2>4. SessionTyped'
        BY <2>1 DEF openbmc_close, Inv, SessionTyped
    <2> QED
        BY <2>3, <2>4 DEF Inv
<1>9. CASE UNCHANGED vars
    BY <1>2, <1>9 DEF vars, Inv, SessionTyped
<1> QED
    BY <1>1, <1>3, <1>4, <1>5, <1>6, <1>7, <1>8, <1>9, ProcessKeepsInv DEF Next, FromBmc

LEMMA InitInv == Init => Inv
<1> SUFFICES ASSUME Init PROVE Inv
    OBVIOUS
<1> USE RequestsAssumption, BoundsAssumption
<1>1. /\ ipmi_msgq = <<>> /\ inprogress = None /\ issued = <<>> /\ answered = <<>>
      /\ inprogress_q = <<>> /\ request_after = FALSE /\ network = TRUE
      /\ DOMAIN <<>> = {} /\ <<>> \in Seq(Requests) /\ <<>> \in Seq(Callbacks)
    BY DEF Init, QueueInit
<1>2. ToSet(ipmi_msgq) = {} /\ ToSet(issued) = {} /\ ToSet(Served) = {}
    BY <1>1 DEF ToSet, Served
<1>3. Distinct(ipmi_msgq) /\ Distinct(Served)
    BY <1>1 DEF Distinct, Served
<1>4. ListTyped /\ Accounted /\ TagsOK
    BY <1>1, <1>2, <1>3 DEF ListTyped, Accounted, TagsOK
<1>5. http = [r \in Requests |-> 0] /\ 0 \in 0 .. MaxCopies /\ 0 \in 0 .. MaxLogins
      /\ 0 < MaxCopies
    BY DEF Init, BoundsAssumption
<1>6. HttpOK
    BY <1>5 DEF Init, HttpOK
<1>7. SessionTyped /\ WaitOK
    BY <1>1, <1>5 DEF Init, SessionTyped, WaitOK
<1> QED
    BY <1>4, <1>6, <1>7 DEF Inv

LEMMA InvHolds == Spec => []Inv
BY InitInv, StepKeepsInv, PTL DEF Spec

-----------------------------------------------------------------------------
(* The theorems *)

\* Every variable keeps its type; in particular no request ever has more
\* HTTP requests pending than the bound that only openbmc_timeout looks at.
THEOREM TypeCorrect == Spec => []TypeOK
<1>1. Inv => TypeOK
    <2> SUFFICES ASSUME Inv PROVE TypeOK
        OBVIOUS
    <2>1. <<>> \in Seq({0}) /\ <<0>> \in Seq({0})
        OBVIOUS
    <2>2. inprogress_q \in Seq({0})
        BY <2>1 DEF Inv, TagsOK
    <2> QED
        BY <2>2 DEF Inv, ListTyped, TagsOK, SessionTyped, HttpOK, TypeOK, QueueTypeOK, Callbacks
<1> QED
    BY <1>1, InvHolds, PTL

\* No timeout, failing send, close or late answer loses a request or serves
\* it twice, whatever answer it is given.
THEOREM EveryRequestIsAccounted == Spec => []EveryRequestAccounted
<1>1. Inv => EveryRequestAccounted
    BY RequestsAssumption, AccountedMeansOnce DEF Inv
<1> QED
    BY <1>1, InvHolds, PTL

\* openbmc_process ends the tool only if answers come after openbmc_close.
THEOREM ToolNeverExits == Spec => []NeverExits
<1>1. Inv => NeverExits
    BY DEF Inv, HttpOK, NeverExits
<1> QED
    BY <1>1, InvHolds, PTL

\* While sends do not fail, a request in progress always has its timer, and the
\* link a token, so that the wait ends even if the BMC is silent, and ends with the
\* request back in the queue (openbmc_timeout, openbmc_close).
THEOREM WaitsAreReal == Spec => []WaitingIsReal
<1>1. Inv => WaitingIsReal
    BY DEF Inv, TagsOK, WaitOK, WaitingIsReal
<1> QED
    BY <1>1, InvHolds, PTL

\* Every handler is a step of what the link promises its clients, unless an
\* answer comes late.
THEOREM OpenbmcKeepsContract == Spec => ContractKept
<1> DEFINE A == Contract!Next \/ "late" \in misfortunes
<1>1. Inv /\ [Next]_vars => A
    BY StepKeepsInv
<1>2. Spec => [][A]_<<issued, answered>>
    <2> HIDE DEF A
    <2> QED
        BY <1>1, InvHolds, PTL DEF Spec
<1> QED
    BY <1>2 DEF ContractKept

-----------------------------------------------------------------------------
(* The order of service *)

LEMMA DequeueOrderly ==
    ASSUME NEW q \in Seq(Requests), NEW status,
           \/ ipmi_dequeue(q, status)
           \/ ipmi_msgq' = q /\ UNCHANGED <<inprogress, inprogress_q, request_after, answered>>
    PROVE  OrderlyMove(q, Ordinary)
<1> DEFINE none == <<>>
<1>1. \/ inprogress = None /\ Transmit(q, none)
      \/ ipmi_msgq' = q /\ UNCHANGED <<inprogress, answered>>
    BY DEF ipmi_dequeue
<1> HIDE DEF none
<1>2. inprogress = None /\ Transmit(q, none) =>
        inprogress = None /\ \E n \in 0 .. Len(q) : Passes(q, n, Ordinary) /\ Move(q, n, none)
    BY RequestsAssumption, TransmitMoves
<1> QED
    BY <1>1, <1>2 DEF OrderlyMove, none

\* What a step does to the queue.  The answer to a may come late and go to
\* another request.
LEMMA QueueSteps ==
    ASSUME [Next]_vars
    PROVE  \/ \E r \in Requests : ipmi_queue(r, openbmc_status)
           \/ /\ UNCHANGED issued
              /\ \/ UNCHANGED <<ipmi_msgq, inprogress, answered>>
                 \/ TakeBack
                 \/ \E status : ipmi_dequeue(ipmi_msgq, status)
                 \/ \E a \in Requests : Answer(a, openbmc_status)
<1>1. CASE \E r \in Requests : ipmi_send(r)
    BY <1>1 DEF ipmi_send
<1>2. CASE LoginOk \/ LoginFails \/ ToggleNetwork \/ UNCHANGED vars
    BY <1>2 DEF LoginOk, LoginFails, ToggleNetwork, vars, queue
<1>3. CASE openbmc_timeout \/ Destroy
    BY <1>3 DEF openbmc_timeout, Destroy, openbmc_close
<1>4. CASE ipmi_health
    BY <1>4 DEF ipmi_health, queue
<1>5. CASE FromBmc
    BY <1>5 DEF FromBmc, openbmc_process, BadAnswer, queue
<1> QED
    BY <1>1, <1>2, <1>3, <1>4, <1>5 DEF Next

\* Every handler keeps the line in order, and sends the most urgent first.
LEMMA StepOrdered ==
    ASSUME Inv, Ordered(Ordinary), [Next]_vars
    PROVE  Ordered(Ordinary)' /\ MostUrgent
<1> USE RequestsAssumption
<1>1. ListTyped /\ Accounted /\ Sorted(ipmi_msgq) /\ Ordinary \in SUBSET Requests
    BY DEF Inv, Ordered, InLine, Ordinary
<1>2. CASE \E r \in Requests : ipmi_queue(r, openbmc_status)
    <2>1. PICK r \in Requests : ipmi_queue(r, openbmc_status)
        BY <1>2
    <2>2. InsertLast(ipmi_msgq, r) \in Seq(Requests)
        BY <1>1, InsertIsQueue DEF ListTyped
    <2>3. OrderlyMove(InsertLast(ipmi_msgq, r), Ordinary) /\ issued' = Append(issued, r)
        BY <2>1, <2>2, DequeueOrderly DEF ipmi_queue
    <2> QED
        BY <1>1, <2>3, NewRequestOrdered, NewRequestMostUrgent
<1>3. CASE UNCHANGED <<ipmi_msgq, inprogress, answered>> /\ UNCHANGED issued
    BY <1>3, NothingOrdered DEF MostUrgent
<1>4. CASE TakeBack /\ UNCHANGED issued
    BY <1>1, <1>4, TakeBackOrdered DEF TakeBack, MostUrgent
<1>5. CASE UNCHANGED issued /\ \E status : ipmi_dequeue(ipmi_msgq, status)
    <2>1. OrderlyMove(ipmi_msgq, Ordinary)
        BY <1>1, <1>5, DequeueOrderly DEF ListTyped
    <2> QED
        BY <1>1, <1>5, <2>1, NextRequestOrdered, NextRequestMostUrgent
<1>6. CASE UNCHANGED issued /\ \E a \in Requests : Answer(a, openbmc_status)
    <2>1. PICK a \in Requests : Answer(a, openbmc_status)
        BY <1>6
    <2> DEFINE done == <<Callback(inprogress, a)>>
    <2>2. inprogress \in Requests
        BY <1>1, <2>1 DEF Answer, ListTyped
    <2>3. \/ Transmit(ipmi_msgq, done)
          \/ /\ inprogress' = None
             /\ answered' = Append(answered, Callback(inprogress, a))
             /\ UNCHANGED ipmi_msgq
        BY <2>1 DEF Answer
    <2> HIDE DEF done
    <2>4. Transmit(ipmi_msgq, done) =>
            \E n \in 0 .. Len(ipmi_msgq) : Passes(ipmi_msgq, n, Ordinary) /\ Move(ipmi_msgq, n, done)
        BY <1>1, TransmitMoves DEF ListTyped
    <2>5. Ordered(Ordinary)'
        BY <1>1, <1>6, <2>2, <2>3, <2>4, AnswerOrdered DEF done
    <2>6. MostUrgent
        <3>1. CASE Transmit(ipmi_msgq, done)
            BY <1>1, <2>4, <3>1, MoveMostUrgent DEF ListTyped
        <3>2. CASE inprogress' = None
            BY <3>2 DEF MostUrgent
        <3> QED
            BY <2>3, <3>1, <3>2
    <2> QED
        BY <2>5, <2>6
<1> QED
    BY <1>2, <1>3, <1>4, <1>5, <1>6, QueueSteps

LEMMA InitOrdered == Init => Ordered(Ordinary)
<1> SUFFICES ASSUME Init PROVE Ordered(Ordinary)
    OBVIOUS
<1>1. ipmi_msgq = <<>> /\ inprogress = None /\ answered = <<>>
    BY DEF Init, QueueInit
<1>2. Served = <<>> /\ ToSet(Served) = {} /\ ToSet(ipmi_msgq) = {}
    BY <1>1 DEF Served, ToSet
<1> QED
    BY <1>1, <1>2 DEF Ordered, InLine, Sorted, KeepsOrder, Ahead

\* Requests of one priority are served in the order they were sent, whatever
\* goes wrong: sends that fail, logins that return late, and even answers that
\* come late and are given to another request.
THEOREM RequestsServedInOrder == Spec => []ServedInOrder
<1> DEFINE J == Inv /\ Ordered(Ordinary)
<1>1. Init => J
    BY InitInv, InitOrdered
<1>2. J /\ [Next]_vars => J'
    BY StepKeepsInv, StepOrdered
<1>3. J => ServedInOrder
    BY OrderedLine DEF Inv, ServedInOrder, Ordinary
<1> HIDE DEF J
<1> QED
    BY <1>1, <1>2, <1>3, PTL DEF Spec

\* No handler puts a request in progress while a more urgent one is waiting.
THEOREM MostUrgentIsFirst == Spec => MostUrgentFirst
<1> DEFINE A == inprogress' \notin {inprogress, None} =>
                    \A r \in ToSet(ipmi_msgq') : Priority[inprogress'] =< Priority[r]
           J == Inv /\ Ordered(Ordinary)
<1>1. Init => J
    BY InitInv, InitOrdered
<1>2. J /\ [Next]_vars => J'
    BY StepKeepsInv, StepOrdered
<1>3. J /\ [Next]_vars => [A]_queue
    BY StepOrdered DEF MostUrgent
<1>4. Spec => [][A]_queue
    <2> HIDE DEF A, J
    <2> QED
        BY <1>1, <1>2, <1>3, PTL DEF Spec
<1> QED
    BY <1>4 DEF MostUrgentFirst
=============================================================================
