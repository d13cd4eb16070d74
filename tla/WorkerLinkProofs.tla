-------------------------- MODULE WorkerLinkProofs --------------------------
(***************************************************************************)
(* Safety of WorkerLink, for both kinds of link and every set of requests: *)
(* its type, OneTask, and that it implements RequestContract, the thread's *)
(* failures and nested calls included.  The invariant Inv says that what   *)
(* waits, what is on file and what was answered are disjoint, except for   *)
(* the request whose callback a localhost is waiting in.  Kept says that   *)
(* nothing is lost besides, and that such a callback waits for ever.       *)
(***************************************************************************)
EXTENDS WorkerLink, RequestQueueProofs

Links == [waiting : Seq(Requests), filed : Requests \cup {None}, posted : Seq(Requests)]

\* The list of l holds requests that were sent and not answered, each once, and
\* not the one on file.
Orderly(l, sent, served) ==
    /\ l \in Links
    /\ Distinct(l.waiting)
    /\ l.filed \notin ToSet(l.waiting)
    /\ ToSet(l.waiting) \subseteq sent \ served
    /\ l.filed \in sent \cup {None}

\* Nothing is posted for a tag that is free.
Idle(l) == l.filed = None => l.posted = <<>>

\* The link m, after l: its tag is as it was, or was free and is newly taken.
Goes(l, m, served) ==
    \/ m.filed = l.filed /\ m.posted = l.posted
    \/ /\ l.filed = None
       /\ m.filed \in Requests \ served /\ m.posted = <<m.filed>>

\* A localhost that waits inside a callback has that callback's request on
\* file and nothing posted; so it waits in one callback only.
WaitInv ==
    /\ \A i \in DOMAIN waits : waits[i].inside \in ToSet(Served) \cup {None}
    /\ kind = "localhost" =>
        \A i, j \in DOMAIN waits :
            waits[i].inside # None /\ waits[j].inside # None
                => i = j /\ waits[i].inside = inprogress /\ worker = <<>>

Inv ==
    /\ TypeOK
    /\ Orderly(Link, ToSet(issued), ToSet(Served))
    /\ ToSet(Served) \subseteq ToSet(issued)
    /\ inprogress \in ToSet(Served) => kind = "localhost" /\ Interrupted(inprogress)
    /\ WaitInv
    /\ OneTask
    /\ AnswersMatch

-----------------------------------------------------------------------------
(* The operators *)

LEMMA LinkFollows ==
    ASSUME NEW l \in Links, LinkBecomes(l)
    PROVE  Link' = l
BY DEF Links, Link, LinkBecomes

LEMMA DequeueOrderly ==
    ASSUME RequestsAssumption, NEW sent \in SUBSET Requests, NEW served,
           NEW l, Orderly(l, sent, served), Idle(l)
    PROVE  LET d == ipmi_dequeue(l)
           IN  Orderly(d, sent, served) /\ Goes(l, d, served) /\ Idle(d)
<1>1. CASE ipmi_dequeue(l) = l
    BY <1>1 DEF Goes
<1>2. CASE ipmi_dequeue(l) # l
    <2> DEFINE h == Head(l.waiting)
    <2>1. /\ l.waiting # <<>> /\ l.filed = None
          /\ ipmi_dequeue(l) = [waiting |-> Tail(l.waiting), filed |-> h,
                                posted |-> Append(l.posted, h)]
        BY <1>2 DEF ipmi_dequeue
    <2>2. l.waiting \in Seq(Requests) /\ Distinct(l.waiting) /\ l.posted = <<>>
        BY <2>1 DEF Orderly, Links, Idle
    <2>3. /\ h \in Requests /\ Tail(l.waiting) \in Seq(Requests) /\ Distinct(Tail(l.waiting))
          /\ h \in ToSet(l.waiting) /\ ToSet(Tail(l.waiting)) = ToSet(l.waiting) \ {h}
        BY <2>1, <2>2, TailHolds
    <2> HIDE DEF h
    <2>4. Append(<<>>, h) = <<h>> /\ <<h>> \in Seq(Requests)
        BY <2>3
    <2>5. h # None
        BY <2>3 DEF RequestsAssumption
    <2>6. ToSet(l.waiting) \subseteq sent \ served
        BY DEF Orderly
    <2>7. ipmi_dequeue(l) = [waiting |-> Tail(l.waiting), filed |-> h, posted |-> <<h>>]
        BY <2>1, <2>2, <2>4
    <2> DEFINE d == ipmi_dequeue(l)
    <2>8. d.waiting = Tail(l.waiting) /\ d.filed = h /\ d.posted = <<h>> /\ d \in Links
        BY <2>3, <2>4, <2>7 DEF Links
    <2> HIDE DEF d
    <2>9. Orderly(d, sent, served)
        BY <2>3, <2>6, <2>8 DEF Orderly
    <2>10. Goes(l, d, served) /\ Idle(d)
        BY <2>1, <2>3, <2>5, <2>6, <2>8 DEF Goes, Idle
    <2> QED
        BY <2>9, <2>10 DEF d
<1> QED
    BY <1>1, <1>2

LEMMA QueueOrderly ==
    ASSUME RequestsAssumption, NEW sent \in SUBSET Requests, NEW served,
           NEW l, Orderly(l, sent, served), Idle(l),
           NEW r \in sent \ served, r \notin ToSet(l.waiting), r # l.filed
    PROVE  LET q == ipmi_queue(l, r)
           IN  Orderly(q, sent, served) /\ Goes(l, q, served) /\ Idle(q)
<1> DEFINE queued == [l EXCEPT !.waiting = InsertLast(l.waiting, r)]
<1>1. l \in Links /\ Distinct(l.waiting)
    BY DEF Orderly
<1>2. /\ InsertLast(l.waiting, r) \in Seq(Requests)
      /\ ToSet(InsertLast(l.waiting, r)) = ToSet(l.waiting) \cup {r}
      /\ Distinct(InsertLast(l.waiting, r))
    BY <1>1, InsertLastHolds DEF Links
<1>3. /\ queued \in Links /\ queued.waiting = InsertLast(l.waiting, r)
      /\ queued.filed = l.filed /\ queued.posted = l.posted
    BY <1>1, <1>2 DEF Links
<1> HIDE DEF queued
<1>4. Orderly(queued, sent, served) /\ Idle(queued)
    BY <1>2, <1>3 DEF Orderly, Idle
<1>5. ipmi_queue(l, r) = ipmi_dequeue(queued) \/ ipmi_queue(l, r) = queued
    BY DEF ipmi_queue, queued
<1>6. /\ Orderly(ipmi_dequeue(queued), sent, served)
      /\ Goes(queued, ipmi_dequeue(queued), served) /\ Idle(ipmi_dequeue(queued))
    BY <1>4, DequeueOrderly
<1> QED
    BY <1>3, <1>4, <1>5, <1>6 DEF Goes

-----------------------------------------------------------------------------
(* The steps.  Each lemma's second part is a step of the contract. *)

Contractual == Contract!Next \/ UNCHANGED <<issued, answered>>

WaitRecords == [request : Requests, inside : Requests \cup {None} \cup {}]

\* A call begun: who was interrupted before still is.
LEMMA CallBegins ==
    ASSUME waits \in Seq(WaitRecords), NEW r \in Requests, NEW h \in Requests \cup {None},
           waits' = Append(waits, Wait(r, h))
    PROVE  /\ waits' \in Seq(WaitRecords)
           /\ \A i \in DOMAIN waits : i \in DOMAIN waits' /\ waits'[i] = waits[i]
           /\ \A i \in DOMAIN waits' : i \in DOMAIN waits \/ i = Len(waits) + 1
           /\ Len(waits) + 1 \in DOMAIN waits' /\ waits'[Len(waits) + 1].inside = h
<1>1. Wait(r, h) \in WaitRecords /\ Wait(r, h).inside = h
    BY DEF Wait, WaitRecords
<1> QED
    BY <1>1, AppendPlaces

\* Handlers that answer nothing: the tag is as it was or newly taken, and a
\* call may begin outside of any callback.
LEMMA GoesOn ==
    ASSUME RequestsAssumption, Inv, NEW q,
           Orderly(q, ToSet(issued)', ToSet(Served)), Goes(Link, q, ToSet(Served)),
           LinkBecomes(q),
           issued' \in Seq(Requests), ToSet(issued) \subseteq ToSet(issued)',
           UNCHANGED <<answered, kind, spoiled>>, network' \in BOOLEAN,
           \/ waits' = waits
           \/ \E r \in Requests : waits' = Append(waits, Wait(r, None))
    PROVE  Inv'
<1> DEFINE I == ToSet(issued)
           S == ToSet(Served)
<1>1. q \in Links
    BY DEF Orderly
<1>2. Link' = q
    BY <1>1, LinkFollows
<1>3. inprogress' = q.filed /\ worker' = q.posted /\ ipmi_msgq' = q.waiting
    BY DEF LinkBecomes
<1>4. S' = S
    BY DEF Served, ToSet
<1>5. waits \in Seq(WaitRecords)
    BY DEF Inv, TypeOK, WaitsTypeOK, WaitRecords
<1>6. /\ waits' \in Seq(WaitRecords)
      /\ \A i \in DOMAIN waits : i \in DOMAIN waits' /\ waits'[i] = waits[i]
      /\ \A i \in DOMAIN waits' : waits'[i].inside # None => i \in DOMAIN waits
    <2>1. CASE waits' = waits
        BY <2>1, <1>5
    <2>2. ASSUME NEW r \in Requests, waits' = Append(waits, Wait(r, None))
          PROVE  <1>6
        <3>1. /\ waits' \in Seq(WaitRecords)
              /\ \A i \in DOMAIN waits : i \in DOMAIN waits' /\ waits'[i] = waits[i]
              /\ \A i \in DOMAIN waits' : i \in DOMAIN waits \/ i = Len(waits) + 1
              /\ waits'[Len(waits) + 1].inside = None
            BY <1>5, <2>2, CallBegins
        <3> QED
            BY <3>1
    <2> QED
        BY <2>1, <2>2
<1>7. TypeOK'
    BY <1>1, <1>3, <1>6 DEF Inv, TypeOK, Links, WaitsTypeOK, WaitRecords
<1>8. \A x : x # None => (Interrupted(x)' <=> Interrupted(x))
    BY <1>6 DEF Interrupted
<1>9. S \subseteq Requests
    <2>1. ToSet(issued) \subseteq Requests
        BY DEF Inv, TypeOK, ToSet
    <2> QED
        BY <2>1 DEF Inv
<1> HIDE DEF I, S
<1>10. None \notin S
    BY <1>9 DEF RequestsAssumption
<1>11. CASE q.filed = Link.filed /\ q.posted = Link.posted
    <2>1. inprogress' = inprogress /\ worker' = worker
        BY <1>11, <1>3 DEF Link
    <2>2. inprogress' \in S' => kind' = "localhost" /\ Interrupted(inprogress)'
        BY <2>1, <1>4, <1>8, <1>10 DEF Inv, S
    <2>3. WaitInv'
        <3>1. \A i \in DOMAIN waits' : waits'[i].inside \in S' \cup {None}
            BY <1>4, <1>6 DEF Inv, WaitInv, S
        <3> QED
            BY <3>1, <2>1, <1>6 DEF Inv, WaitInv, S
    <2>4. OneTask'
        <3>1. CASE inprogress = None
            BY <3>1, <2>1 DEF Inv, OneTask
        <3>2. CASE inprogress # None
            BY <3>2, <2>1, <1>8 DEF Inv, OneTask
        <3> QED
            BY <3>1, <3>2
    <2> QED
        BY <1>2, <1>4, <1>7, <2>2, <2>3, <2>4 DEF Inv, AnswersMatch, S
<1>12. CASE Link.filed = None /\ q.filed \in Requests \ S /\ q.posted = <<q.filed>>
    <2>1. inprogress = None /\ inprogress' \in Requests \ S /\ worker' = <<inprogress'>>
        BY <1>12, <1>3 DEF Link
    <2>2. OneTask'
        BY <2>1 DEF OneTask, RequestsAssumption
    <2>3. WaitInv'
        <3>1. \A i \in DOMAIN waits' : waits'[i].inside \in S' \cup {None}
            BY <1>4, <1>6 DEF Inv, WaitInv, S
        <3>2. kind' = "localhost" => \A i \in DOMAIN waits' : waits'[i].inside = None
            BY <2>1, <1>6 DEF Inv, WaitInv
        <3> QED
            BY <3>1, <3>2 DEF WaitInv, S
    <2> QED
        BY <1>2, <1>4, <1>7, <2>1, <2>2, <2>3 DEF Inv, AnswersMatch, S
<1> QED
    BY <1>11, <1>12 DEF Goes, S

\* The thread has a request: it is the one on file, which is not answered, and
\* no callback of a localhost is waiting.
LEMMA WorkerHolds ==
    ASSUME RequestsAssumption, Inv, worker # <<>>, inprogress # None
    PROVE  /\ inprogress \in Requests /\ Head(worker) = inprogress
           /\ inprogress \in ToSet(issued) \ ToSet(Served)
           /\ kind = "localhost" => \A i \in DOMAIN waits : waits[i].inside = None
           /\ Replied.filed = inprogress /\ Replied.posted = <<>>
           /\ Replied.waiting = ipmi_msgq /\ inprogress \notin ToSet(ipmi_msgq)
           /\ Replied \in Links
           /\ Cleared(Replied).waiting = ipmi_msgq
           /\ Cleared(Replied).filed = None /\ Cleared(Replied).posted = <<>>
           /\ Orderly(Cleared(Replied), ToSet(issued), ToSet(Served))
           /\ Idle(Cleared(Replied))
<1>1. worker = <<inprogress>> /\ inprogress \in Requests
    BY DEF Inv, OneTask, TypeOK
<1>2. Head(worker) = inprogress /\ Tail(worker) = <<>>
    BY <1>1
<1>3. kind = "localhost" => \A i \in DOMAIN waits : waits[i].inside = None
    BY DEF Inv, WaitInv
<1>4. inprogress \notin ToSet(Served)
    BY <1>1, <1>3 DEF Inv, Interrupted, RequestsAssumption
<1>5. /\ ipmi_msgq \in Seq(Requests) /\ Distinct(ipmi_msgq)
      /\ inprogress \notin ToSet(ipmi_msgq) /\ inprogress \in ToSet(issued)
      /\ ToSet(ipmi_msgq) \subseteq ToSet(issued) \ ToSet(Served)
    BY <1>1 DEF Inv, Orderly, Link, Links
<1>6. Replied = [waiting |-> ipmi_msgq, filed |-> inprogress, posted |-> <<>>]
    <2>1. Link.posted = worker
        BY DEF Link
    <2>2. Replied = [Link EXCEPT !.posted = <<>>]
        BY <1>2, <2>1 DEF Replied
    <2> QED
        BY <2>2 DEF Link
<1>7. Cleared(Replied) = [waiting |-> ipmi_msgq, filed |-> None, posted |-> <<>>]
    BY <1>6 DEF Cleared
<1>8. None \notin ToSet(ipmi_msgq)
    BY <1>5 DEF ToSet, RequestsAssumption
<1>9. <<>> \in Seq(Requests)
    OBVIOUS
<1>10. Replied \in Links /\ Cleared(Replied) \in Links
    <2>1. Replied \in Links
        BY <1>1, <1>5, <1>6, <1>9 DEF Links
    <2>2. Cleared(Replied) \in Links
        BY <1>5, <1>7, <1>9 DEF Links
    <2> QED
        BY <2>1, <2>2
<1>11. Orderly(Cleared(Replied), ToSet(issued), ToSet(Served)) /\ Idle(Cleared(Replied))
    BY <1>5, <1>7, <1>8, <1>10 DEF Orderly, Idle
<1> QED
    BY <1>1, <1>2, <1>3, <1>4, <1>5, <1>6, <1>7, <1>10, <1>11

\* Handlers that leave the tag free or newly taken.
LEMMA Settles ==
    ASSUME RequestsAssumption, Inv, NEW q,
           Orderly(q, ToSet(issued)', ToSet(Served)'),
           \/ q.filed = None /\ q.posted = <<>>
           \/ q.filed \in Requests \ ToSet(Served)' /\ q.posted = <<q.filed>>,
           LinkBecomes(q),
           issued' \in Seq(Requests), answered' \in Seq(Callbacks), AnswersMatch',
           ToSet(Served)' \subseteq ToSet(issued)',
           waits' \in Seq(WaitRecords),
           \A i \in DOMAIN waits' : waits'[i].inside \in ToSet(Served)' \cup {None},
           kind = "localhost" => \A i \in DOMAIN waits' : waits'[i].inside = None,
           UNCHANGED <<kind, network, spoiled>>
    PROVE  Inv'
<1>1. q \in Links
    BY DEF Orderly
<1>2. Link' = q
    BY <1>1, LinkFollows
<1>3. inprogress' = q.filed /\ worker' = q.posted /\ ipmi_msgq' = q.waiting
    BY DEF LinkBecomes
<1>4. TypeOK'
    BY <1>1, <1>3 DEF Inv, TypeOK, Links, WaitsTypeOK, WaitRecords, Callbacks
<1>5. ToSet(Served)' \subseteq Requests
    <2>1. ToSet(issued)' \subseteq Requests
        BY DEF ToSet
    <2> QED
        BY <2>1
<1>6. inprogress' \notin ToSet(Served)'
    BY <1>3, <1>5 DEF RequestsAssumption
<1>7. OneTask'
    BY <1>3 DEF OneTask, RequestsAssumption
<1>8. WaitInv'
    BY DEF WaitInv
<1> QED
    BY <1>2, <1>4, <1>6, <1>7, <1>8 DEF Inv

-----------------------------------------------------------------------------
(* The actions *)

\* What a new request changes of the sets.
LEMMA NewRequest ==
    ASSUME RequestsAssumption, Inv, NEW r \in Requests, New(r)
    PROVE  /\ issued' \in Seq(Requests)
           /\ ToSet(issued)' = ToSet(issued) \cup {r}
           /\ r \notin ToSet(issued) /\ r \notin ToSet(Served)
           /\ ToSet(issued) \cup {r} \in SUBSET Requests
<1>1. issued \in Seq(Requests) /\ r \notin ToSet(issued) /\ issued' = Append(issued, r)
    BY DEF Inv, TypeOK, New
<1>2. ToSet(Append(issued, r)) = ToSet(issued) \cup {r} /\ Append(issued, r) \in Seq(Requests)
    BY <1>1, AppendHolds, AppendProperties
<1>3. ToSet(issued)' = ToSet(issued) \cup {r}
    BY <1>1, <1>2 DEF ToSet
<1>4. r \notin ToSet(Served)
    BY <1>1 DEF Inv
<1>5. ToSet(issued) \in SUBSET Requests
    BY <1>1 DEF ToSet
<1> QED
    BY <1>1, <1>2, <1>3, <1>4, <1>5

LEMMA SendKeepsInv ==
    ASSUME RequestsAssumption, Inv, NEW r \in Requests, ipmi_send(r) \/ ipmi_send_sync(r)
    PROVE  Inv' /\ Contractual
<1> DEFINE I == ToSet(issued)
           S == ToSet(Served)
           q == ipmi_queue(Link, r)
<1>1. /\ New(r) /\ LinkBecomes(q) /\ UNCHANGED <<answered, kind, network, spoiled>>
      /\ \/ waits' = waits
         \/ waits' = Append(waits, Wait(r, None))
    BY DEF ipmi_send, ipmi_send_sync
<1>2. /\ issued' \in Seq(Requests) /\ ToSet(issued)' = I \cup {r}
      /\ r \notin I /\ r \notin S /\ I \cup {r} \in SUBSET Requests
    BY <1>1, NewRequest
<1>3. Orderly(Link, I, S) /\ Idle(Link) /\ network' \in BOOLEAN
    BY <1>1 DEF Inv, OneTask, Idle, Link, TypeOK
<1>4. answered \in Seq(Callbacks) /\ issued \in Seq(Requests) /\ S \subseteq I
    BY DEF Inv, TypeOK, Callbacks
<1>5. Contract!Next
    BY <1>1, <1>2, <1>4, ContractSends DEF New
<1> HIDE DEF I, S
<1>6. /\ Orderly(Link, I \cup {r}, S) /\ r \notin ToSet(Link.waiting) /\ r # Link.filed
      /\ r \in (I \cup {r}) \ S
    BY <1>2, <1>3 DEF Orderly, RequestsAssumption
<1>7. Orderly(q, I \cup {r}, S) /\ Goes(Link, q, S)
    BY <1>2, <1>3, <1>6, QueueOrderly
<1> HIDE DEF q
<1>8. Orderly(q, ToSet(issued)', ToSet(Served)) /\ Goes(Link, q, ToSet(Served))
    BY <1>2, <1>7 DEF S
<1>9. ToSet(issued) \subseteq ToSet(issued)'
    BY <1>2 DEF I
<1>10. Inv'
    BY <1>1, <1>2, <1>3, <1>8, <1>9, GoesOn
<1> QED
    BY <1>5, <1>10 DEF Contractual

LEMMA HealthKeepsInv ==
    ASSUME RequestsAssumption, Inv, ipmi_health
    PROVE  Inv' /\ Contractual
<1> DEFINE q == ipmi_dequeue(Link)
<1>1. LinkBecomes(q) /\ UNCHANGED <<issued, answered, waits, kind, network, spoiled>>
    BY DEF ipmi_health, history
<1>2. /\ Orderly(Link, ToSet(issued), ToSet(Served)) /\ Idle(Link)
      /\ network' \in BOOLEAN /\ issued' \in Seq(Requests)
    BY <1>1 DEF Inv, OneTask, Idle, Link, TypeOK
<1>3. ToSet(issued) \in SUBSET Requests /\ ToSet(issued)' = ToSet(issued)
    BY <1>1 DEF ToSet, Inv, TypeOK
<1>4. Orderly(q, ToSet(issued), ToSet(Served)) /\ Goes(Link, q, ToSet(Served))
    BY <1>2, <1>3, DequeueOrderly
<1> HIDE DEF q
<1>5. Inv'
    BY <1>1, <1>2, <1>3, <1>4, GoesOn
<1> QED
    BY <1>1, <1>5 DEF Contractual

LEMMA ToggleKeepsInv ==
    ASSUME RequestsAssumption, Inv, ToggleNetwork
    PROVE  Inv' /\ Contractual
<1>1. LinkBecomes(Link) /\ UNCHANGED <<issued, answered, waits, kind, spoiled>>
    BY DEF ToggleNetwork, queue, history, Link, LinkBecomes
<1>2. /\ Orderly(Link, ToSet(issued), ToSet(Served))
      /\ network' \in BOOLEAN /\ issued' \in Seq(Requests)
    BY <1>1 DEF Inv, TypeOK, ToggleNetwork
<1>3. ToSet(issued)' = ToSet(issued)
    BY <1>1 DEF ToSet
<1>4. Goes(Link, Link, ToSet(Served))
    BY DEF Goes
<1> DEFINE q == Link
<1>5. /\ LinkBecomes(q) /\ Orderly(q, ToSet(issued)', ToSet(Served))
      /\ Goes(Link, q, ToSet(Served))
    BY <1>1, <1>2, <1>3, <1>4
<1> HIDE DEF q
<1>6. Inv'
    BY <1>1, <1>2, <1>3, <1>5, GoesOn
<1> QED
    BY <1>1, <1>6 DEF Contractual

LEMMA FailureKeepsInv ==
    ASSUME RequestsAssumption, Inv, WorkerFails
    PROVE  Inv' /\ Contractual
<1>1. /\ worker = <<inprogress>> /\ worker' = Tail(worker)
      /\ spoiled' = spoiled \cup {"worker"}
      /\ UNCHANGED <<ipmi_msgq, inprogress, issued, answered, waits, kind, network>>
    BY DEF Inv, OneTask, WorkerFails, history
<1>2. worker' = <<>> /\ <<>> \in Seq(Requests)
    BY <1>1
<1>3. Link' = [waiting |-> Link.waiting, filed |-> Link.filed, posted |-> <<>>]
    BY <1>1, <1>2 DEF Link
<1>4. Orderly(Link, ToSet(issued), ToSet(Served))
    BY DEF Inv
<1>5. Orderly(Link', ToSet(issued), ToSet(Served))
    BY <1>2, <1>3, <1>4 DEF Orderly, Links
<1>6. ToSet(issued)' = ToSet(issued) /\ ToSet(Served)' = ToSet(Served)
    BY <1>1 DEF ToSet, Served
<1>7. TypeOK'
    BY <1>1, <1>2 DEF Inv, TypeOK, WaitsTypeOK
<1>8. OneTask'
    BY <1>1, <1>2 DEF OneTask
<1>9. WaitInv'
    BY <1>1, <1>2, <1>6 DEF Inv, WaitInv
<1>10. Interrupted(inprogress)' = Interrupted(inprogress)
    BY <1>1 DEF Interrupted
<1>11. AnswersMatch'
    BY <1>1 DEF Inv, AnswersMatch
<1> QED
    BY <1>1, <1>5, <1>6, <1>7, <1>8, <1>9, <1>10, <1>11 DEF Inv, Contractual

\* An empty reply: its request waits again.
LEMMA EmptyKeepsInv ==
    ASSUME RequestsAssumption, Inv, EmptyReply
    PROVE  Inv' /\ Contractual
<1> DEFINE I == ToSet(issued)
           S == ToSet(Served)
           l == Cleared(Replied)
           q == ipmi_queue(l, inprogress)
<1>1. /\ worker # <<>> /\ inprogress # None /\ LinkBecomes(q)
      /\ UNCHANGED <<issued, answered, waits, kind, network, spoiled>>
    BY DEF EmptyReply, history
<1>2. /\ inprogress \in I \ S /\ inprogress \notin ToSet(ipmi_msgq)
      /\ kind = "localhost" => \A i \in DOMAIN waits : waits[i].inside = None
      /\ l.waiting = ipmi_msgq /\ l.filed = None /\ l.posted = <<>>
      /\ Orderly(l, I, S) /\ Idle(l)
    BY <1>1, WorkerHolds
<1>3. I \in SUBSET Requests /\ ToSet(issued)' = I /\ ToSet(Served)' = S
    BY <1>1 DEF Inv, TypeOK, ToSet, Served
<1>4. /\ waits' \in Seq(WaitRecords) /\ issued' \in Seq(Requests)
      /\ answered' \in Seq(Callbacks) /\ AnswersMatch' /\ S \subseteq I
      /\ \A i \in DOMAIN waits' : waits'[i].inside \in S \cup {None}
    BY <1>1 DEF Inv, TypeOK, WaitsTypeOK, WaitRecords, Callbacks, AnswersMatch, WaitInv
<1> HIDE DEF I, S, l
<1>5. Orderly(q, I, S) /\ Goes(l, q, S) /\ Idle(q)
    BY <1>1, <1>2, <1>3, QueueOrderly
<1> HIDE DEF q
<1>6. \/ q.filed = None /\ q.posted = <<>>
      \/ q.filed \in Requests \ S /\ q.posted = <<q.filed>>
    BY <1>2, <1>5 DEF Goes
<1>7. Inv'
    BY <1>1, <1>2, <1>3, <1>4, <1>5, <1>6, Settles
<1> QED
    BY <1>1, <1>7 DEF Contractual

\* What an answer changes of the history.
LEMMA Answered ==
    ASSUME RequestsAssumption, Inv, worker # <<>>, inprogress # None,
           answered' = Append(answered, Callback(inprogress, Head(worker)))
    PROVE  /\ answered' \in Seq(Callbacks) /\ AnswersMatch'
           /\ ToSet(Served)' = ToSet(Served) \cup {inprogress}
           /\ answered' = Append(answered, Callback(inprogress, inprogress))
           /\ answered \in Seq(Callbacks)
<1>1. Head(worker) = inprogress /\ inprogress \in Requests
    BY WorkerHolds
<1>2. answered \in Seq(Callbacks) /\ AnswersMatch
    BY DEF Inv, TypeOK, Callbacks
<1>3. /\ answered' \in Seq(Callbacks)
      /\ \A i \in DOMAIN answered' : answered'[i].request = answered'[i].answer
    BY <1>1, <1>2, CallbackAdded DEF AnswersMatch
<1>4. ToSet(Served)' = ToSet(Served) \cup {inprogress}
    BY <1>1, <1>2, ServedGrows
<1> QED
    BY <1>1, <1>2, <1>3, <1>4 DEF AnswersMatch

\* With one request answered, the rest of the list is still unanswered.
LEMMA StaysOrderly ==
    ASSUME NEW l, NEW sent, NEW served, Orderly(l, sent, served),
           NEW x, x \notin ToSet(l.waiting)
    PROVE  Orderly(l, sent, served \cup {x})
BY DEF Orderly

LEMMA ReplyKeepsInv ==
    ASSUME RequestsAssumption, Inv, Reply
    PROVE  Inv' /\ Contractual
<1> DEFINE I == ToSet(issued)
           S == ToSet(Served)
           l == Cleared(Replied)
           q == ipmi_dequeue(l)
           S1 == S \cup {inprogress}
<1>1. /\ worker # <<>> /\ inprogress # None /\ LinkBecomes(q)
      /\ answered' = Append(answered, Callback(inprogress, Head(worker)))
      /\ UNCHANGED <<issued, waits, kind, network, spoiled>>
    BY DEF Reply
<1>2. /\ inprogress \in Requests /\ inprogress \in I \ S /\ inprogress \notin ToSet(ipmi_msgq)
      /\ kind = "localhost" => \A i \in DOMAIN waits : waits[i].inside = None
      /\ l.waiting = ipmi_msgq /\ l.filed = None /\ l.posted = <<>>
      /\ Orderly(l, I, S) /\ Idle(l)
    BY <1>1, WorkerHolds
<1>3. /\ answered' \in Seq(Callbacks) /\ AnswersMatch' /\ ToSet(Served)' = S1
      /\ answered' = Append(answered, Callback(inprogress, inprogress))
      /\ answered \in Seq(Callbacks)
    BY <1>1, Answered
<1>4. I \in SUBSET Requests /\ ToSet(issued)' = I /\ issued \in Seq(Requests)
    BY <1>1 DEF Inv, TypeOK, ToSet
<1>5. Contract!Next
    BY <1>1, <1>2, <1>3, <1>4, ContractAnswers
<1>6. /\ waits' \in Seq(WaitRecords) /\ issued' \in Seq(Requests) /\ S1 \subseteq I
      /\ \A i \in DOMAIN waits' : waits'[i].inside \in S1 \cup {None}
    BY <1>1, <1>2 DEF Inv, TypeOK, WaitsTypeOK, WaitRecords, WaitInv
<1> HIDE DEF I, S, l
<1>7. Orderly(l, I, S1)
    BY <1>2, StaysOrderly
<1> HIDE DEF S1
<1>8. Orderly(q, I, S1) /\ Goes(l, q, S1)
    BY <1>2, <1>4, <1>7, DequeueOrderly
<1> HIDE DEF q
<1>9. \/ q.filed = None /\ q.posted = <<>>
      \/ q.filed \in Requests \ S1 /\ q.posted = <<q.filed>>
    BY <1>2, <1>8 DEF Goes
<1>10. Inv'
    BY <1>1, <1>2, <1>3, <1>4, <1>6, <1>8, <1>9, Settles
<1> QED
    BY <1>5, <1>10 DEF Contractual

\* A callback that waits: openpower goes on first, a localhost does not.
LEMMA WaitKeepsInv ==
    ASSUME RequestsAssumption, Inv, NEW r \in Requests, ReplyWaits(r)
    PROVE  Inv' /\ Contractual
<1> DEFINE I == ToSet(issued)
           S == ToSet(Served)
           l == Cleared(Replied)
           I1 == I \cup {r}
           S1 == S \cup {inprogress}
<1>1. /\ worker # <<>> /\ inprogress # None /\ New(r)
      /\ answered' = Append(answered, Callback(inprogress, Head(worker)))
      /\ waits' = Append(waits, Wait(r, inprogress))
      /\ UNCHANGED <<kind, network>>
    BY DEF ReplyWaits
<1>2. /\ inprogress \in Requests /\ inprogress \in I \ S /\ inprogress \notin ToSet(ipmi_msgq)
      /\ kind = "localhost" => \A i \in DOMAIN waits : waits[i].inside = None
      /\ Replied.filed = inprogress /\ Replied.posted = <<>> /\ Replied.waiting = ipmi_msgq
      /\ Replied \in Links
      /\ l.waiting = ipmi_msgq /\ l.filed = None /\ l.posted = <<>>
      /\ Orderly(l, I, S) /\ Idle(l)
    BY <1>1, WorkerHolds
<1>3. /\ answered' \in Seq(Callbacks) /\ AnswersMatch' /\ ToSet(Served)' = S1
      /\ answered' = Append(answered, Callback(inprogress, inprogress))
      /\ answered \in Seq(Callbacks)
    BY <1>1, Answered
<1>4. /\ issued' \in Seq(Requests) /\ ToSet(issued)' = I1
      /\ r \notin I /\ r \notin S /\ I1 \in SUBSET Requests
    BY <1>1, NewRequest
<1>5. I \in SUBSET Requests /\ issued \in Seq(Requests) /\ S \subseteq I /\ S1 \subseteq I1
    <2>1. issued \in Seq(Requests) /\ S \subseteq I
        BY DEF Inv, TypeOK
    <2>2. I \in SUBSET Requests
        BY <1>4
    <2> QED
        BY <2>1, <2>2, <1>2
<1>6. Contract!Next
    <2>1. issued' = Append(issued, r)
        BY <1>1 DEF New
    <2> QED
        BY <2>1, <1>2, <1>3, <1>4, <1>5, ContractAnswersAndSends
<1>7. waits \in Seq(WaitRecords) /\ \A i \in DOMAIN waits : waits[i].inside \in S \cup {None}
    BY DEF Inv, TypeOK, WaitsTypeOK, WaitRecords, WaitInv
<1>8. /\ waits' \in Seq(WaitRecords)
      /\ \A i \in DOMAIN waits : i \in DOMAIN waits' /\ waits'[i] = waits[i]
      /\ \A i \in DOMAIN waits' : i \in DOMAIN waits \/ i = Len(waits) + 1
      /\ Len(waits) + 1 \in DOMAIN waits' /\ waits'[Len(waits) + 1].inside = inprogress
    BY <1>1, <1>2, <1>7, CallBegins
<1>9. \A i \in DOMAIN waits' : waits'[i].inside \in S1 \cup {None}
    BY <1>7, <1>8
<1> HIDE DEF I, S, l
<1>10. Orderly(l, I, S1)
    BY <1>2, StaysOrderly
<1>11. r \in I1 \ S1 /\ r # inprogress
    BY <1>2, <1>4
<1>12. CASE kind = "openpower"
    <2> DEFINE d == ipmi_dequeue(l)
               q == ipmi_queue(d, r)
    <2>1. LinkBecomes(q) /\ UNCHANGED spoiled
        BY <1>12 DEF ReplyWaits, l
    <2> HIDE DEF S1
    <2>2. Orderly(d, I, S1) /\ Goes(l, d, S1) /\ Idle(d)
        BY <1>2, <1>5, <1>10, DequeueOrderly
    <2> HIDE DEF d
    <2>3. Orderly(d, I1, S1) /\ r \notin ToSet(d.waiting) /\ r # d.filed
        BY <2>2, <1>4 DEF Orderly, RequestsAssumption
    <2>4. Orderly(q, I1, S1) /\ Goes(d, q, S1) /\ Idle(q)
        BY <2>2, <2>3, <1>4, <1>11, QueueOrderly
    <2> HIDE DEF q
    <2>5. \/ q.filed = None /\ q.posted = <<>>
          \/ q.filed \in Requests \ S1 /\ q.posted = <<q.filed>>
        BY <1>2, <2>2, <2>4 DEF Goes
    <2>6. kind # "localhost"
        BY <1>12
    <2>7. Inv'
        BY <1>1, <1>3, <1>4, <1>5, <1>8, <1>9, <2>1, <2>4, <2>5, <2>6, Settles
    <2> QED
        BY <1>6, <2>7 DEF Contractual
<1>13. CASE kind = "localhost"
    <2> DEFINE m == Replied
               q == ipmi_queue(m, r)
    <2>1. LinkBecomes(q) /\ spoiled' = spoiled \cup {"wait"}
        BY <1>13 DEF ReplyWaits
    <2>2. Orderly(m, I1, S1) /\ Idle(m)
        BY <1>1, <1>2, <1>10 DEF Orderly, Idle
    <2>3. r \notin ToSet(m.waiting) /\ r # m.filed
        BY <1>2, <1>4, <1>10, <1>11 DEF Orderly
    <2> HIDE DEF S1, m
    <2>4. Orderly(q, I1, S1) /\ Goes(m, q, S1)
        BY <2>2, <2>3, <1>4, <1>11, QueueOrderly
    <2> HIDE DEF q
    <2>5. q.filed = inprogress /\ q.posted = <<>> /\ q \in Links
        BY <1>1, <1>2, <2>4 DEF Goes, m, Orderly
    <2>6. Link' = q
        BY <2>1, <2>5, LinkFollows
    <2>7. inprogress' = inprogress /\ worker' = <<>> /\ ipmi_msgq' = q.waiting
        BY <2>1, <2>5 DEF LinkBecomes
    <2>8. TypeOK'
        <3>1. /\ kind' \in {"localhost", "openpower"} /\ network' \in BOOLEAN
              /\ spoiled' \subseteq {"worker", "wait"} /\ worker' \in Seq(Requests)
              /\ ipmi_msgq' \in Seq(Requests) /\ inprogress' \in Requests \cup {None}
            BY <1>1, <2>1, <2>5, <2>7 DEF Inv, TypeOK, Links
        <3> QED
            BY <3>1, <1>3, <1>4, <1>8 DEF TypeOK, WaitsTypeOK, WaitRecords, Callbacks
    <2>9. Interrupted(inprogress)'
        BY <1>8, <2>7 DEF Interrupted
    <2>10. OneTask'
        BY <2>7, <2>9 DEF OneTask
    <2>11. WaitInv'
        <3>1. \A i \in DOMAIN waits' : waits'[i].inside # None => i = Len(waits) + 1
            BY <1>2, <1>8, <1>13
        <3>2. \A i \in DOMAIN waits' : waits'[i].inside \in ToSet(Served)' \cup {None}
            BY <1>3, <1>9
        <3> QED
            BY <3>1, <3>2, <1>8, <2>7 DEF WaitInv
    <2>12. Orderly(Link', ToSet(issued)', ToSet(Served)') /\ ToSet(Served)' \subseteq ToSet(issued)'
        BY <2>4, <2>6, <1>3, <1>4, <1>5 DEF S1
    <2>13. Inv'
        BY <1>1, <1>3, <1>13, <2>8, <2>9, <2>10, <2>11, <2>12 DEF Inv
    <2> QED
        BY <1>6, <2>13 DEF Contractual
<1> QED
    BY <1>12, <1>13 DEF Inv, TypeOK

LEMMA ReturnKeepsInv ==
    ASSUME RequestsAssumption, Inv, CallReturns
    PROVE  Inv' /\ Contractual
<1> DEFINE I == ToSet(issued)
           S == ToSet(Served)
           n == Len(waits)
<1>1. /\ waits # <<>> /\ waits' = Front(waits)
      /\ UNCHANGED <<issued, answered, kind, network, spoiled>>
    BY DEF CallReturns, Returning, history
<1>2. waits \in Seq(WaitRecords) /\ \A i \in DOMAIN waits : waits[i].inside \in S \cup {None}
    BY DEF Inv, TypeOK, WaitsTypeOK, WaitRecords, WaitInv
<1>3. /\ waits' \in Seq(WaitRecords)
      /\ DOMAIN waits' = DOMAIN waits \ {n} /\ n \in DOMAIN waits
      /\ \A i \in DOMAIN waits' : waits'[i] = waits[i]
      /\ Last(waits) = waits[n]
    BY <1>1, <1>2, FrontPlaces
<1>4. ToSet(issued)' = I /\ ToSet(Served)' = S /\ I \in SUBSET Requests
    BY <1>1 DEF ToSet, Served, Inv, TypeOK
<1>5. \A i \in DOMAIN waits' : waits'[i].inside \in S \cup {None}
    BY <1>2, <1>3
<1>6. /\ issued' \in Seq(Requests) /\ answered' \in Seq(Callbacks) /\ AnswersMatch'
      /\ S \subseteq I /\ Orderly(Link, I, S)
    BY <1>1 DEF Inv, TypeOK, Callbacks, AnswersMatch
<1> HIDE DEF I, S, n
<1>7. CASE kind = "localhost" /\ waits[n].inside # None
    <2> DEFINE l == Cleared(Link)
               q == ipmi_dequeue(l)
    <2>1. LinkBecomes(q)
        BY <1>3, <1>7 DEF CallReturns
    <2>2. /\ waits[n].inside = inprogress /\ worker = <<>>
          /\ \A i \in DOMAIN waits : waits[i].inside # None => i = n
        BY <1>3, <1>7 DEF Inv, WaitInv
    <2>3. \A i \in DOMAIN waits' : waits'[i].inside = None
        BY <2>2, <1>3
    <2>4. /\ l \in Links /\ l.waiting = Link.waiting
          /\ l.filed = None /\ l.posted = <<>>
        BY <2>2, <1>6 DEF Cleared, Link, Links, Orderly
    <2>5. None \notin ToSet(l.waiting)
        BY <2>4 DEF Links, ToSet, RequestsAssumption
    <2> HIDE DEF l
    <2>6. Orderly(l, I, S) /\ Idle(l)
        BY <2>4, <2>5, <1>6 DEF Orderly, Idle
    <2>7. Orderly(q, I, S) /\ Goes(l, q, S)
        BY <2>6, <1>4, DequeueOrderly
    <2> HIDE DEF q
    <2>8. \/ q.filed = None /\ q.posted = <<>>
          \/ q.filed \in Requests \ S /\ q.posted = <<q.filed>>
        BY <2>4, <2>7 DEF Goes
    <2>9. Inv'
        BY <1>1, <1>3, <1>4, <1>5, <1>6, <2>1, <2>3, <2>7, <2>8, Settles
    <2> QED
        BY <1>1, <2>9 DEF Contractual
<1>8. CASE ~(kind = "localhost" /\ waits[n].inside # None)
    <2>1. LinkBecomes(Link)
        BY <1>3, <1>8 DEF CallReturns
    <2>2. UNCHANGED <<ipmi_msgq, inprogress, worker>>
        BY <2>1 DEF LinkBecomes, Link
    <2>3. Link' = Link
        BY <2>2 DEF Link
    <2>4. TypeOK'
        BY <1>1, <1>3, <2>2 DEF Inv, TypeOK, WaitsTypeOK, WaitRecords
    <2>5. inprogress # None /\ Interrupted(inprogress) => Interrupted(inprogress)'
        <3>1. SUFFICES ASSUME inprogress # None, NEW i \in DOMAIN waits,
                              waits[i].inside = inprogress
                       PROVE  Interrupted(inprogress)'
            BY DEF Interrupted
        <3>2. inprogress \in S
            BY <3>1, <1>2
        <3>3. kind = "localhost"
            BY <3>2 DEF Inv, S
        <3>4. i # n
            BY <3>1, <3>3, <1>8
        <3>5. i \in DOMAIN waits' /\ waits'[i].inside = inprogress'
            BY <3>1, <3>4, <1>3, <2>2
        <3> QED
            BY <3>5 DEF Interrupted
    <2>6. S \subseteq Requests
        BY <1>4, <1>6
    <2>7. inprogress' \in S => kind' = "localhost" /\ Interrupted(inprogress)'
        BY <1>1, <2>2, <2>5, <2>6 DEF Inv, RequestsAssumption, S
    <2>8. OneTask'
        <3>1. CASE inprogress = None
            BY <3>1, <2>2 DEF Inv, OneTask
        <3>2. CASE inprogress # None
            BY <3>2, <1>1, <2>2, <2>5 DEF Inv, OneTask
        <3> QED
            BY <3>1, <3>2
    <2>9. WaitInv'
        <3>1. \A i \in DOMAIN waits' : i \in DOMAIN waits
            BY <1>3
        <3>2. kind' = "localhost" =>
                \A i, j \in DOMAIN waits' :
                    waits'[i].inside # None /\ waits'[j].inside # None
                        => i = j /\ waits'[i].inside = inprogress' /\ worker' = <<>>
            BY <3>1, <1>1, <1>3, <2>2 DEF Inv, WaitInv
        <3>3. \A i \in DOMAIN waits' : waits'[i].inside \in ToSet(Served)' \cup {None}
            BY <1>4, <1>5
        <3> QED
            BY <3>2, <3>3 DEF WaitInv
    <2>10. Orderly(Link', ToSet(issued)', ToSet(Served)') /\ ToSet(Served)' \subseteq ToSet(issued)'
        BY <1>4, <1>6, <2>3
    <2>11. Inv'
        BY <1>4, <1>6, <2>4, <2>7, <2>8, <2>9, <2>10 DEF Inv
    <2> QED
        BY <1>1, <2>11 DEF Contractual
<1> QED
    BY <1>7, <1>8

LEMMA StepKeepsInv ==
    ASSUME RequestsAssumption, Inv, [Next]_vars
    PROVE  Inv' /\ Contractual
<1>1. CASE UNCHANGED vars
    <2>1. UNCHANGED <<ipmi_msgq, inprogress, worker, issued, answered, waits, kind, network, spoiled>>
        BY <1>1 DEF vars, queue, history
    <2>2. Link' = Link /\ ToSet(issued)' = ToSet(issued) /\ ToSet(Served)' = ToSet(Served)
        BY <2>1 DEF Link, ToSet, Served
    <2>3. TypeOK' /\ OneTask' /\ AnswersMatch' /\ (Interrupted(inprogress)' <=> Interrupted(inprogress))
        BY <2>1 DEF Inv, TypeOK, WaitsTypeOK, OneTask, AnswersMatch, Interrupted
    <2>4. WaitInv'
        BY <2>1, <2>2 DEF Inv, WaitInv
    <2> QED
        BY <2>1, <2>2, <2>3, <2>4 DEF Inv, Contractual
<1>2. ASSUME NEW r \in Requests, ipmi_send(r) \/ ipmi_send_sync(r)
      PROVE  Inv' /\ Contractual
    BY <1>2, SendKeepsInv
<1>3. ASSUME NEW r \in Requests, ReplyWaits(r)
      PROVE  Inv' /\ Contractual
    BY <1>3, WaitKeepsInv
<1> QED
    BY <1>1, <1>2, <1>3, HealthKeepsInv, FailureKeepsInv, EmptyKeepsInv, ReplyKeepsInv,
       ReturnKeepsInv, ToggleKeepsInv DEF Next

-----------------------------------------------------------------------------
(* Nothing is lost, and callbacks that wait on a localhost stay *)

\* m holds every request that l does.
Holds(l, m) ==
    ToSet(l.waiting) \cup {l.filed} \subseteq ToSet(m.waiting) \cup {m.filed, None}

\* What leaves the list is put on file.
LEMMA DequeueHolds ==
    ASSUME NEW sent, NEW served, NEW l, Orderly(l, sent, served)
    PROVE  Holds(l, ipmi_dequeue(l))
<1>1. CASE ipmi_dequeue(l) = l
    BY <1>1 DEF Holds
<1>2. CASE ipmi_dequeue(l) # l
    <2> DEFINE h == Head(l.waiting)
               d == ipmi_dequeue(l)
    <2>1. /\ l.waiting # <<>> /\ l.filed = None
          /\ d = [waiting |-> Tail(l.waiting), filed |-> h, posted |-> Append(l.posted, h)]
        BY <1>2 DEF ipmi_dequeue
    <2>2. l.waiting \in Seq(Requests) /\ Distinct(l.waiting)
        BY DEF Orderly, Links
    <2>3. ToSet(Tail(l.waiting)) = ToSet(l.waiting) \ {h}
        BY <2>1, <2>2, TailHolds
    <2>4. d.waiting = Tail(l.waiting) /\ d.filed = h
        BY <2>1
    <2> HIDE DEF d, h
    <2> QED
        BY <2>1, <2>3, <2>4 DEF Holds, d
<1> QED
    BY <1>1, <1>2

\* A request queued is there afterwards.
LEMMA QueueHolds ==
    ASSUME RequestsAssumption, NEW sent \in SUBSET Requests, NEW served,
           NEW l, Orderly(l, sent, served),
           NEW r \in sent \ served, r \notin ToSet(l.waiting), r # l.filed
    PROVE  LET q == ipmi_queue(l, r)
           IN  Holds(l, q) /\ r \in ToSet(q.waiting) \cup {q.filed}
<1> DEFINE queued == [l EXCEPT !.waiting = InsertLast(l.waiting, r)]
           q == ipmi_queue(l, r)
<1>1. l \in Links /\ Distinct(l.waiting)
    BY DEF Orderly
<1>2. /\ InsertLast(l.waiting, r) \in Seq(Requests)
      /\ ToSet(InsertLast(l.waiting, r)) = ToSet(l.waiting) \cup {r}
      /\ Distinct(InsertLast(l.waiting, r))
    BY <1>1, InsertLastHolds DEF Links
<1>3. /\ queued \in Links /\ queued.waiting = InsertLast(l.waiting, r)
      /\ queued.filed = l.filed
    BY <1>1, <1>2 DEF Links
<1>4. q = ipmi_dequeue(queued) \/ q = queued
    BY DEF ipmi_queue
<1> HIDE DEF queued
<1>5. Orderly(queued, sent, served)
    BY <1>2, <1>3 DEF Orderly
<1>6. Holds(queued, ipmi_dequeue(queued)) /\ Holds(queued, queued)
    BY <1>5, DequeueHolds DEF Holds
<1>7. Holds(queued, q)
    BY <1>4, <1>6
<1> HIDE DEF q
<1>8. Holds(l, q) /\ r \in ToSet(q.waiting) \cup {q.filed}
    BY <1>2, <1>3, <1>7 DEF Holds, RequestsAssumption
<1> QED
    BY <1>8 DEF q

Kept == NothingLost /\ (kind = "localhost" => CallbacksStay)

\* What the invariants say of the parts of the state.
LEMMA Parts ==
    ASSUME RequestsAssumption, Inv, Kept
    PROVE  /\ Orderly(Link, ToSet(issued), ToSet(Served))
           /\ Link.waiting = ipmi_msgq /\ Link.filed = inprogress
           /\ ToSet(issued) \in SUBSET Requests /\ ToSet(Served) \subseteq ToSet(issued)
           /\ None \notin Requests
           /\ waits \in Seq(WaitRecords) /\ answered \in Seq(Callbacks)
           /\ ToSet(issued) \ ToSet(Served) \subseteq ToSet(ipmi_msgq) \cup {inprogress}
           /\ Waiting \subseteq ToSet(issued)
<1>1. waits \in Seq(WaitRecords) /\ answered \in Seq(Callbacks) /\ issued \in Seq(Requests)
    BY DEF Inv, TypeOK, WaitsTypeOK, WaitRecords, Callbacks
<1>2. ToSet(issued) \in SUBSET Requests
    BY <1>1 DEF ToSet
<1>3. Link.waiting = ipmi_msgq /\ Link.filed = inprogress
    BY DEF Link
<1> QED
    BY <1>1, <1>2, <1>3 DEF Inv, RequestsAssumption, Kept, NothingLost

\* Handlers that neither send nor answer a request.
LEMMA KeptFollows ==
    ASSUME RequestsAssumption, Inv, Kept, NEW q, LinkBecomes(q), Holds(Link, q),
           issued' = issued, answered' = answered, waits' = waits, kind' = kind
    PROVE  Kept'
<1>1. ipmi_msgq' = q.waiting /\ inprogress' = q.filed
    BY DEF LinkBecomes
<1>2. /\ ToSet(issued)' = ToSet(issued) /\ ToSet(Served)' = ToSet(Served)
      /\ Waiting' = Waiting /\ ToSet(ipmi_msgq)' = ToSet(q.waiting)
    BY <1>1 DEF ToSet, Served, Waiting
<1>3. ToSet(issued) \ ToSet(Served) \subseteq ToSet(q.waiting) \cup {q.filed}
    BY Parts DEF Holds
<1>4. NothingLost'
    BY <1>1, <1>2, <1>3, Parts DEF NothingLost
<1> QED
    BY <1>2, <1>4 DEF Kept, CallbacksStay

\* The calls, with one more.
LEMMA WaitJoins ==
    ASSUME waits \in Seq(WaitRecords), NEW r \in Requests, NEW h \in Requests \cup {None},
           waits' = Append(waits, Wait(r, h))
    PROVE  /\ Waiting' = Waiting \cup {r}
           /\ \A i \in DOMAIN waits' :
                \/ i \in DOMAIN waits /\ waits'[i] = waits[i]
                \/ waits'[i].request = r /\ waits'[i].inside = h
<1>1. Wait(r, h) \in WaitRecords /\ Wait(r, h).request = r /\ Wait(r, h).inside = h
    BY DEF Wait, WaitRecords
<1>2. /\ DOMAIN waits' = DOMAIN waits \cup {Len(waits) + 1}
      /\ \A i \in DOMAIN waits : waits'[i] = waits[i]
      /\ waits'[Len(waits) + 1] = Wait(r, h)
    BY <1>1, AppendPlaces
<1> QED
    BY <1>1, <1>2 DEF Waiting

LEMMA SendKeepsAll ==
    ASSUME RequestsAssumption, Inv, Kept,
           NEW r \in Requests, ipmi_send(r) \/ ipmi_send_sync(r)
    PROVE  Kept'
<1> DEFINE I == ToSet(issued)
           S == ToSet(Served)
           q == ipmi_queue(Link, r)
<1>1. /\ LinkBecomes(q) /\ New(r) /\ answered' = answered /\ kind' = kind
      /\ waits' = waits \/ waits' = Append(waits, Wait(r, None))
    BY DEF ipmi_send, ipmi_send_sync
<1>2. /\ ToSet(issued)' = I \cup {r}
      /\ r \notin I /\ r \notin S /\ I \cup {r} \in SUBSET Requests
    BY <1>1, NewRequest
<1>3. ToSet(Served)' = S
    BY <1>1 DEF ToSet, Served
<1>4. /\ Orderly(Link, I, S) /\ Link.waiting = ipmi_msgq /\ Link.filed = inprogress
      /\ S \subseteq I /\ None \notin Requests /\ waits \in Seq(WaitRecords)
      /\ I \ S \subseteq ToSet(ipmi_msgq) \cup {inprogress} /\ Waiting \subseteq I
    BY Parts
<1> HIDE DEF I, S
<1>5. /\ Orderly(Link, I \cup {r}, S) /\ r \notin ToSet(Link.waiting) /\ r # Link.filed
      /\ r \in (I \cup {r}) \ S
    BY <1>2, <1>4 DEF Orderly
<1>6. Holds(Link, q) /\ r \in ToSet(q.waiting) \cup {q.filed}
    BY <1>2, <1>5, QueueHolds
<1>7. ipmi_msgq' = q.waiting /\ inprogress' = q.filed
    BY <1>1 DEF LinkBecomes
<1> HIDE DEF q
<1>8. /\ Waiting' \subseteq Waiting \cup {r}
      /\ \A i \in DOMAIN waits' :
            waits'[i].inside # None => i \in DOMAIN waits /\ waits'[i] = waits[i]
    <2>1. CASE waits' = waits
        BY <2>1 DEF Waiting
    <2>2. CASE waits' = Append(waits, Wait(r, None))
        BY <1>4, <2>2, WaitJoins
    <2> QED
        BY <1>1, <2>1, <2>2
<1>9. (I \cup {r}) \ S \subseteq ToSet(q.waiting) \cup {q.filed}
    BY <1>2, <1>4, <1>6 DEF Holds
<1>10. NothingLost'
    <2>1. ToSet(ipmi_msgq)' = ToSet(q.waiting)
        BY <1>7 DEF ToSet
    <2> QED
        BY <1>2, <1>3, <1>4, <1>7, <1>8, <1>9, <2>1 DEF NothingLost
<1>11. kind' = "localhost" => CallbacksStay'
    BY <1>1, <1>3, <1>8 DEF Kept, CallbacksStay, S
<1> QED
    BY <1>10, <1>11 DEF Kept

LEMMA TimersKeepAll ==
    ASSUME RequestsAssumption, Inv, Kept,
           ipmi_health \/ WorkerFails \/ ToggleNetwork \/ UNCHANGED vars
    PROVE  Kept'
<1>1. issued' = issued /\ answered' = answered /\ waits' = waits /\ kind' = kind
    BY DEF ipmi_health, WorkerFails, ToggleNetwork, vars, history
<1>2. CASE ipmi_health
    <2>1. LinkBecomes(ipmi_dequeue(Link))
        BY <1>2 DEF ipmi_health
    <2>2. Holds(Link, ipmi_dequeue(Link))
        BY Parts, DequeueHolds
    <2> QED
        BY <1>1, <2>1, <2>2, KeptFollows
<1>3. CASE WorkerFails \/ ToggleNetwork \/ UNCHANGED vars
    <2>1. ipmi_msgq' = ipmi_msgq /\ inprogress' = inprogress
        BY <1>3 DEF WorkerFails, ToggleNetwork, vars, queue
    <2> QED
        BY <1>1, <2>1 DEF Kept, NothingLost, CallbacksStay, Waiting, Served, ToSet
<1> QED
    BY <1>2, <1>3

\* A reply is read: the request on file is queued again, or is answered, and
\* then makes room for the next or stays while its callback waits.
LEMMA RepliesKeepAll ==
    ASSUME RequestsAssumption, Inv, Kept,
           EmptyReply \/ Reply \/ \E r \in Requests : ReplyWaits(r)
    PROVE  Kept'
<1> DEFINE I == ToSet(issued)
           S == ToSet(Served)
           a == inprogress
           c == Cleared(Replied)
<1>1. worker # <<>> /\ inprogress # None
    BY DEF EmptyReply, Reply, ReplyWaits
<1>2. /\ a \in Requests /\ Head(worker) = a /\ a \in I \ S /\ a \notin ToSet(ipmi_msgq)
      /\ kind = "localhost" => \A i \in DOMAIN waits : waits[i].inside = None
      /\ Replied.filed = a /\ Replied.waiting = ipmi_msgq /\ Replied \in Links
      /\ c.filed = None /\ c.waiting = ipmi_msgq /\ Orderly(c, I, S) /\ Idle(c)
    BY <1>1, WorkerHolds
<1>3. /\ I \in SUBSET Requests /\ S \subseteq I /\ None \notin Requests
      /\ waits \in Seq(WaitRecords) /\ answered \in Seq(Callbacks)
      /\ I \ S \subseteq ToSet(ipmi_msgq) \cup {a} /\ Waiting \subseteq I
    BY Parts
<1>4. answered' = Append(answered, Callback(a, Head(worker))) => ToSet(Served)' = S \cup {a}
    BY <1>2, <1>3, ServedGrows
<1> HIDE DEF I, S, a, c
<1>5. CASE EmptyReply
    <2> DEFINE q == ipmi_queue(c, a)
    <2>1. LinkBecomes(q)
        BY <1>5 DEF EmptyReply, a, c
    <2>2. /\ ToSet(issued)' = I /\ ToSet(Served)' = S /\ kind' = kind
          /\ waits' = waits /\ Waiting' = Waiting
        BY <1>5 DEF EmptyReply, history, I, S, ToSet, Served, Waiting
    <2>3. Holds(c, q) /\ a \in ToSet(q.waiting) \cup {q.filed}
        BY <1>2, <1>3, QueueHolds
    <2>4. ipmi_msgq' = q.waiting /\ inprogress' = q.filed
        BY <2>1 DEF LinkBecomes
    <2> HIDE DEF q
    <2>5. I \ S \subseteq ToSet(q.waiting) \cup {q.filed}
        BY <1>2, <1>3, <2>3 DEF Holds
    <2>6. NothingLost'
        BY <1>3, <2>2, <2>4, <2>5 DEF NothingLost, ToSet
    <2>7. kind' = "localhost" => CallbacksStay'
        BY <1>2, <2>2 DEF CallbacksStay
    <2> QED
        BY <2>6, <2>7 DEF Kept
<1>6. CASE Reply
    <2> DEFINE q == ipmi_dequeue(c)
    <2>1. LinkBecomes(q)
        BY <1>6 DEF Reply, c
    <2>2. /\ ToSet(issued)' = I /\ ToSet(Served)' = S \cup {a} /\ kind' = kind
          /\ waits' = waits /\ Waiting' = Waiting
        BY <1>4, <1>6 DEF Reply, I, a, ToSet, Waiting
    <2>3. Holds(c, q)
        BY <1>2, DequeueHolds
    <2>4. ipmi_msgq' = q.waiting /\ inprogress' = q.filed
        BY <2>1 DEF LinkBecomes
    <2> HIDE DEF q
    <2>5. I \ (S \cup {a}) \subseteq ToSet(q.waiting) \cup {q.filed}
        BY <1>2, <1>3, <2>3 DEF Holds
    <2>6. NothingLost'
        BY <1>3, <2>2, <2>4, <2>5 DEF NothingLost, ToSet
    <2>7. kind' = "localhost" => CallbacksStay'
        BY <1>2, <2>2 DEF CallbacksStay
    <2> QED
        BY <2>6, <2>7 DEF Kept
<1>7. ASSUME NEW r \in Requests, ReplyWaits(r)
      PROVE  Kept'
    <2> DEFINE I1 == I \cup {r}
               S1 == S \cup {a}
    <2>1. /\ New(r) /\ waits' = Append(waits, Wait(r, a)) /\ ToSet(Served)' = S1
          /\ kind' = kind
        BY <1>4, <1>7 DEF ReplyWaits, a
    <2>2. ToSet(issued)' = I1 /\ r \notin I /\ I1 \in SUBSET Requests
        BY <2>1, NewRequest DEF I
    <2>3. /\ Waiting' = Waiting \cup {r}
          /\ \A i \in DOMAIN waits' :
                \/ i \in DOMAIN waits /\ waits'[i] = waits[i]
                \/ waits'[i].request = r /\ waits'[i].inside = a
        BY <1>2, <1>3, <2>1, WaitJoins
    <2>4. r \in I1 \ S1 /\ r # a
        BY <1>2, <1>3, <2>2
    <2> HIDE DEF I1, S1
    <2>5. \E q : /\ LinkBecomes(q)
                 /\ ToSet(ipmi_msgq) \cup {r} \subseteq ToSet(q.waiting) \cup {q.filed, None, a}
        <3>1. CASE kind = "openpower"
            <4> DEFINE d == ipmi_dequeue(c)
                       q == ipmi_queue(d, r)
            <4>1. LinkBecomes(q)
                BY <1>7, <3>1 DEF ReplyWaits, c
            <4>2. Orderly(c, I, S1)
                BY <1>2, StaysOrderly DEF S1
            <4>3. Orderly(d, I, S1) /\ Holds(c, d)
                BY <1>2, <1>3, <4>2, DequeueOrderly, DequeueHolds
            <4> HIDE DEF d
            <4>4. Orderly(d, I1, S1) /\ r \notin ToSet(d.waiting) /\ r # d.filed
                BY <4>3, <1>3, <2>2 DEF Orderly, I1
            <4>5. Holds(d, q) /\ r \in ToSet(q.waiting) \cup {q.filed}
                BY <2>2, <2>4, <4>4, QueueHolds
            <4> HIDE DEF q
            <4>6. ToSet(ipmi_msgq) \cup {r} \subseteq ToSet(q.waiting) \cup {q.filed, None, a}
                BY <1>2, <4>3, <4>5 DEF Holds
            <4> QED
                BY <4>1, <4>6 DEF q
        <3>2. CASE kind = "localhost"
            <4> DEFINE m == Replied
                       q == ipmi_queue(m, r)
            <4>1. LinkBecomes(q)
                BY <1>7, <3>2 DEF ReplyWaits
            <4>2. Orderly(m, I1, S1) /\ r \notin ToSet(m.waiting) /\ r # m.filed
                BY <1>2, <2>2, <2>4 DEF Orderly, I1, S1
            <4> HIDE DEF m
            <4>3. Holds(m, q) /\ r \in ToSet(q.waiting) \cup {q.filed}
                BY <2>2, <2>4, <4>2, QueueHolds
            <4>4. m.waiting = ipmi_msgq
                BY <1>2 DEF m
            <4> HIDE DEF q
            <4>5. ToSet(ipmi_msgq) \cup {r} \subseteq ToSet(q.waiting) \cup {q.filed, None, a}
                BY <4>3, <4>4 DEF Holds
            <4> QED
                BY <4>1, <4>5 DEF q
        <3> QED
            BY <3>1, <3>2 DEF Inv, TypeOK
    <2>6. PICK q : /\ LinkBecomes(q)
                   /\ ToSet(ipmi_msgq) \cup {r} \subseteq ToSet(q.waiting) \cup {q.filed, None, a}
        BY <2>5
    <2>7. ipmi_msgq' = q.waiting /\ inprogress' = q.filed
        BY <2>6 DEF LinkBecomes
    <2>8. I1 \ S1 \subseteq ToSet(q.waiting) \cup {q.filed}
        BY <1>2, <1>3, <2>2, <2>6 DEF I1, S1
    <2>9. Waiting' \subseteq I1
        BY <1>3, <2>3 DEF I1
    <2>10. NothingLost'
        BY <2>1, <2>2, <2>7, <2>8, <2>9 DEF NothingLost, ToSet
    <2>11. kind' = "localhost" => CallbacksStay'
        BY <1>2, <2>1, <2>3, <2>4 DEF CallbacksStay
    <2> QED
        BY <2>10, <2>11 DEF Kept
<1> QED
    BY <1>5, <1>6, <1>7

\* On a localhost no call returns that was made in a callback.
LEMMA ReturnKeepsAll ==
    ASSUME RequestsAssumption, Inv, Kept, CallReturns
    PROVE  Kept'
<1>1. /\ waits # <<>> /\ Last(waits).request \in ToSet(Served)
      /\ waits' = Front(waits) /\ issued' = issued /\ answered' = answered /\ kind' = kind
    BY DEF CallReturns, Returning, history
<1>2. /\ \A i \in DOMAIN waits' : i \in DOMAIN waits /\ waits'[i] = waits[i]
      /\ Len(waits) \in DOMAIN waits /\ Last(waits) = waits[Len(waits)]
    BY <1>1, Parts, FrontPlaces
<1>3. ~(kind = "localhost" /\ Last(waits).inside # None)
    BY <1>1, <1>2 DEF Kept, CallbacksStay
<1>4. ipmi_msgq' = ipmi_msgq /\ inprogress' = inprogress
    <2>1. LinkBecomes(Link)
        BY <1>3 DEF CallReturns
    <2> QED
        BY <2>1 DEF LinkBecomes, Link
<1>5. /\ ToSet(issued)' = ToSet(issued) /\ ToSet(Served)' = ToSet(Served)
      /\ ToSet(ipmi_msgq)' = ToSet(ipmi_msgq)
    BY <1>1, <1>4 DEF ToSet, Served
<1>6. Waiting' \subseteq Waiting
    BY <1>2 DEF Waiting
<1> QED
    BY <1>1, <1>2, <1>4, <1>5, <1>6 DEF Kept, NothingLost, CallbacksStay

LEMMA StepKeepsAll ==
    ASSUME RequestsAssumption, Inv, Kept, [Next]_vars
    PROVE  Kept'
BY SendKeepsAll, TimersKeepAll, RepliesKeepAll, ReturnKeepsAll DEF Next

LEMMA InitKept == Init => Kept
<1> SUFFICES ASSUME Init PROVE Kept
    OBVIOUS
<1>1. issued = <<>> /\ answered = <<>> /\ waits = <<>>
    BY DEF Init
<1> QED
    BY <1>1 DEF Kept, NothingLost, CallbacksStay, Waiting, ToSet, Served

-----------------------------------------------------------------------------
(* The theorems *)

LEMMA InitInv ==
    ASSUME RequestsAssumption, Init
    PROVE  Inv /\ Contract!Init
<1>1. <<>> \in Seq(Requests) /\ <<>> \in Seq(Callbacks) /\ <<>> \in Seq(WaitRecords)
    OBVIOUS
<1>2. ToSet(issued) = {} /\ ToSet(Served) = {} /\ ToSet(ipmi_msgq) = {}
    BY DEF Init, ToSet, Served
<1>3. TypeOK
    BY <1>1 DEF Init, TypeOK, WaitsTypeOK, WaitRecords, Callbacks
<1>4. Orderly(Link, ToSet(issued), ToSet(Served))
    BY <1>1, <1>2 DEF Init, Orderly, Link, Links, Distinct
<1>5. OneTask /\ AnswersMatch /\ WaitInv
    BY DEF Init, OneTask, AnswersMatch, WaitInv
<1>6. Contract!Init
    BY <1>2 DEF Init, Contract!Init
<1> QED
    BY <1>2, <1>3, <1>4, <1>5, <1>6 DEF Inv

\* What waits, what is on file and what the thread holds agree, on both kinds of
\* link: the invariant on which the theorems below rest.
THEOREM WorkerInvariant == Spec => []Inv
<1>1. Init => Inv
    BY RequestsAssumption, InitInv
<1>2. Inv /\ [Next]_vars => Inv'
    BY RequestsAssumption, StepKeepsInv
<1> QED
    BY <1>1, <1>2, PTL DEF Spec

\* The list, the file and the thread of either link hold requests, and the
\* stack of waits calls (local.itcl, openpower.itcl).
THEOREM WorkerTyped == Spec => []TypeOK
<1>1. Inv => TypeOK
    BY DEF Inv
<1> QED
    BY <1>1, WorkerInvariant, PTL

\* A reply meets the request it is for, since the thread never holds another
\* than the one on file (ipmi_dequeue, ipmi_process).
THEOREM OneTaskAtATime == Spec => []OneTask
<1>1. Inv => OneTask
    BY DEF Inv
<1> QED
    BY <1>1, WorkerInvariant, PTL

\* Either link keeps the contract: each callback runs once, with its own
\* answer, whatever fails, comes back empty, or waits inside a callback.
THEOREM WorkerKeepsContract == Spec => KeepsContract
<1>1. Init => Contract!Init
    BY RequestsAssumption, InitInv
<1>2. Inv /\ [Next]_vars => [Contract!Next]_<<ToSet(issued) \ ToSet(Served), answered>>
    <2> SUFFICES ASSUME Inv, [Next]_vars
                 PROVE  Contract!Next \/ UNCHANGED <<ToSet(issued) \ ToSet(Served), answered>>
        OBVIOUS
    <2>1. Contractual
        BY RequestsAssumption, StepKeepsInv
    <2>2. UNCHANGED <<issued, answered>> => UNCHANGED <<ToSet(issued) \ ToSet(Served), answered>>
        BY DEF ToSet, Served
    <2> QED
        BY <2>1, <2>2 DEF Contractual
<1> QED
    BY <1>1, <1>2, WorkerInvariant, PTL DEF Spec, KeepsContract, Contract!Spec

\* Together with it: no request leaves the link, and a callback that waits stays
\* (ipmi_dequeue, ipmi_queue, ipmi_process).
THEOREM WorkerKept == Spec => []Kept
<1>1. Init => Inv /\ Kept
    BY RequestsAssumption, InitInv, InitKept
<1>2. Inv /\ Kept /\ [Next]_vars => (Inv /\ Kept)'
    BY RequestsAssumption, StepKeepsInv, StepKeepsAll
<1> QED
    BY <1>1, <1>2, PTL DEF Spec

\* No failing thread, empty reply, pause or nested call loses a request: even
\* one that the thread gave up on is still on file (ipmi_queue, ipmi_dequeue,
\* ipmi_process).
THEOREM NoRequestIsLost == Spec => []NothingLost
BY WorkerKept, PTL DEF Kept

\* On a localhost a synchronous call in a callback never returns, since the
\* callback's own request stays on file meanwhile (ipmi_process).
THEOREM WaitingCallbacksStay == Spec => [](kind = "localhost" => CallbacksStay)
BY WorkerKept, PTL DEF Kept
=============================================================================
