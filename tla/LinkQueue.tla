----------------------------- MODULE LinkQueue ------------------------------
(***************************************************************************)
(* The queue of netc and openbmc (src/vfs/lib/app-amester/netc.itcl,       *)
(* openbmc.itcl): to the list and the array it adds "inprogress_q", the    *)
(* tags under way, of which there is one possible, 0, and requests that    *)
(* the link answers itself.                                                *)
(*                                                                         *)
(* The modules of the links extend this one.  Its operators change only    *)
(* the variables of the queue; a link reads from inprogress' which         *)
(* request, if any, it has to put on the wire (NewlySent).                 *)
(***************************************************************************)
EXTENDS RequestQueue

CONSTANT
    Faked           \* the requests of netfn 6 cmd 1, answered by the link

ASSUME FakedAssumption == Faked \subseteq Requests

VARIABLES
    network,        \* the global "Receive network traffic" switch
    inprogress_q,   \* the tags sent and not answered yet
    request_after   \* the timer of the request in progress is armed

queue == <<ipmi_msgq, inprogress, inprogress_q, request_after, answered>>

QueueInit ==
    /\ network = TRUE
    /\ ipmi_msgq = <<>>
    /\ inprogress = None
    /\ inprogress_q = <<>>
    /\ request_after = FALSE
    /\ issued = <<>>
    /\ answered = <<>>

-----------------------------------------------------------------------------
(* The queue *)

\* How many requests at the front of q get the faked answer.
LeadingFakes(q) ==
    Cardinality({i \in DOMAIN q : \A j \in 1 .. i : q[j] \in Faked})

CanTransmit_WhenPaused(q, status) == q # <<>> /\ status = "connected"
CanTransmit_OffByOne(q, status) == network /\ Len(q) > 1 /\ status = "connected"

\* The guards of ipmi_dequeue that do not look at the request in progress.
CanTransmit(q, status) ==
    /\ network
    /\ q # <<>>
    /\ status = "connected"

\* The rest of ipmi_dequeue, when nothing is in progress.  A faked request
\* is answered inside the send: its answer clears it, calls ipmi_dequeue for
\* the next one, and runs its callback only when that call returns, so the
\* callbacks of a run of faked requests come in reverse, before those the
\* caller still has to run (done).
Transmit(q, done) ==
    LET n == LeadingFakes(q)
    IN  /\ answered' = answered \o [i \in 1 .. n |-> Callback(q[n + 1 - i], q[n + 1 - i])] \o done
        /\ ipmi_msgq' = SubSeq(q, n + 2, Len(q))
        /\ \/ /\ n < Len(q)
              /\ inprogress' = q[n + 1]
              /\ inprogress_q' = <<0>>
              /\ request_after' = TRUE
           \/ /\ n = Len(q)
              /\ inprogress' = None
              /\ inprogress_q' = <<>>
              /\ request_after' = FALSE

ipmi_dequeue_Eager(q, status) ==
    IF CanTransmit(q, status)
    THEN Transmit(q, <<>>)
    ELSE ipmi_msgq' = q /\ UNCHANGED <<inprogress, inprogress_q, request_after, answered>>

\* q and status are the queue and the status when the handler makes the call.
ipmi_dequeue(q, status) ==
    IF CanTransmit(q, status) /\ inprogress_q = <<>> /\ inprogress = None
    THEN Transmit(q, <<>>)
    ELSE ipmi_msgq' = q /\ UNCHANGED <<inprogress, inprogress_q, request_after, answered>>

\* ipmi_send, and the first half of ipmi_send_sync: only a request that
\* finds the queue empty is sent at once.
ipmi_queue(r, status) ==
    LET q == InsertLast(ipmi_msgq, r)
    IN  /\ r \notin ToSet(issued)
        /\ issued' = Append(issued, r)
        /\ \/ Len(q) = 1 /\ ipmi_dequeue(q, status)
           \/ /\ Len(q) # 1
              /\ ipmi_msgq' = q
              /\ UNCHANGED <<inprogress, inprogress_q, request_after, answered>>

\* The request this step puts on the wire, if any.
NewlySent == {inprogress'} \ {inprogress, None}

TakeBack_Loses ==
    /\ inprogress' = None /\ inprogress_q' = <<>> /\ request_after' = FALSE
    /\ UNCHANGED <<ipmi_msgq, answered>>
TakeBack_KeepsTags ==
    /\ ipmi_msgq' = IF inprogress = None THEN ipmi_msgq
                    ELSE InsertFirst(ipmi_msgq, inprogress)
    /\ inprogress' = None /\ request_after' = FALSE
    /\ UNCHANGED <<inprogress_q, answered>>

\* The half of a close that takes back the request in progress.  It is not
\* sent again by this, since the status is "closed" by then.
TakeBack ==
    /\ ipmi_msgq' = IF inprogress = None THEN ipmi_msgq
                    ELSE InsertFirst(ipmi_msgq, inprogress)
    /\ inprogress' = None
    /\ inprogress_q' = <<>>
    /\ request_after' = FALSE
    /\ UNCHANGED answered

\* An answer to a arrives.  It goes to whatever heads inprogress_q; the next
\* request is sent before the callback runs.
Answer(a, status) ==
    LET next == Tail(inprogress_q) = <<>> /\ CanTransmit(ipmi_msgq, status)
    IN  /\ inprogress_q # <<>> /\ inprogress # None
        /\ \/ next /\ Transmit(ipmi_msgq, <<Callback(inprogress, a)>>)
           \/ /\ ~next
              /\ inprogress' = None
              /\ inprogress_q' = Tail(inprogress_q)
              /\ request_after' = FALSE
              /\ answered' = Append(answered, Callback(inprogress, a))
              /\ UNCHANGED ipmi_msgq

-----------------------------------------------------------------------------
(* Properties of these links *)

QueueTypeOK ==
    /\ network \in BOOLEAN
    /\ ipmi_msgq \in Seq(Requests)
    /\ inprogress \in Requests \cup {None}
    /\ inprogress_q \in Seq({0})
    /\ request_after \in BOOLEAN
    /\ issued \in Seq(Requests)
    /\ answered \in Seq([request : Requests, answer : Requests])

\* Requests of one priority are served in the order they were sent, however
\* often one is taken back and sent again.  (The callbacks of faked requests
\* do not keep to it: see Transmit.)
ServedInOrder == KeepsOrder(WholeLine, issued, Requests \ Faked)

\* A request is put in progress only when none more urgent is waiting.
MostUrgentFirst ==
    [][inprogress' \notin {inprogress, None} =>
        \A r \in ToSet(ipmi_msgq') : Priority[inprogress'] =< Priority[r]]_queue
=============================================================================
