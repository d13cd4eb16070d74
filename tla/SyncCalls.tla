----------------------------- MODULE SyncCalls ------------------------------
(***************************************************************************)
(* Synchronous calls on a link (ipmi_send_sync, the same in every link): a *)
(* request is queued with a callback that sets a variable, and vwait runs  *)
(* the event loop until it is set.  Other handlers run inside that loop    *)
(* and may wait in it in turn; a vwait whose variable is set returns only  *)
(* when it is the innermost, and does so before anything else runs.        *)
(***************************************************************************)
EXTENDS RequestQueue

VARIABLE
    waits   \* the calls that have not returned, innermost last: the request
            \* each waits for, and what the caller is inside of (None, or a
            \* request whose callback made the call, or a link's own handler)

Wait(r, handler) == [request |-> r, inside |-> handler]

Waiting == {waits[i].request : i \in DOMAIN waits}

Interrupted(x) == \E i \in DOMAIN waits : waits[i].inside = x

\* No vwait is about to return: the event loop runs the next handler.
EventLoop == waits # <<>> => Last(waits).request \notin ToSet(Served)

\* The innermost call has its answer.
Returning == waits # <<>> /\ Last(waits).request \in ToSet(Served)

\* No request is lost by what a link moves between its queue and inprogress
\* (ipmi_queue, ipmi_dequeue, ipmi_process), however calls are nested: one that
\* was sent and is not answered waits or is on file, and ipmi_send_sync waits
\* for nothing that was not sent.
NothingLost ==
    /\ ToSet(issued) \ ToSet(Served) \subseteq ToSet(ipmi_msgq) \cup {inprogress}
    /\ Waiting \subseteq ToSet(issued)

\* A callback that calls ipmi_send_sync does not get its answer: so it is on a
\* link that clears inprogress only after the callback (ipmi_process).
CallbacksStay ==
    \A i \in DOMAIN waits : waits[i].inside # None => waits[i].request \notin ToSet(Served)

WaitsTypeOK(handlers) ==
    waits \in Seq([request : Requests, inside : Requests \cup {None} \cup handlers])
=============================================================================
