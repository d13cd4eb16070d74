---------------------------- MODULE RequestQueue ----------------------------
(***************************************************************************)
(* What the request queues of all links have in common, almost line by     *)
(* line (src/vfs/lib/app-amester/netc.itcl, openbmc.itcl, rmcp.itcl,       *)
(* local.itcl, openpower.itcl, emtagent.itcl): requests wait in a list     *)
(* sorted by priority, and one at a time is filed as in progress in an     *)
(* array under a tag.  A link adds how it sends, what it does when an      *)
(* answer comes, and what takes a request back.                            *)
(***************************************************************************)
EXTENDS Integers, FiniteSets, SequencesExt

CONSTANTS
    Requests,       \* the IPMI requests the client may send, each once
    Priority,       \* the priority of each request, lower is more urgent
    None            \* no request in progress

ASSUME RequestsAssumption ==
    /\ Priority \in [Requests -> Int]
    /\ None \notin Requests

VARIABLES
    ipmi_msgq,      \* requests waiting, most urgent first
    inprogress,     \* the request filed in the inprogress array
    issued,         \* history: requests in the order the client sent them
    answered        \* history: the callbacks run, in order, each with the
                    \* request whose answer it was given

-----------------------------------------------------------------------------
(* The list *)

\* Definitions named X_... are faulty variants of X: each shows that some
\* property notices such a fault.
InsertLast_Unsorted(q, r) == Append(q, r)

\* linsert at "end" (or at 0) followed by the stable lsort on the priority:
\* r goes behind (or before) the requests of its own priority.
InsertLast(q, r) ==
    InsertAt(q, Cardinality({i \in DOMAIN q : Priority[q[i]] =< Priority[r]}) + 1, r)
InsertFirst(q, r) ==
    InsertAt(q, Cardinality({i \in DOMAIN q : Priority[q[i]] < Priority[r]}) + 1, r)

\* The callback of r runs with the answer to a.
Callback(r, a) == [request |-> r, answer |-> a]

-----------------------------------------------------------------------------
(* Properties of every link *)

Served == [i \in DOMAIN answered |-> answered[i].request]

\* The callback of a request is given the answer to that request, across
\* timeouts, retries and faked answers.
AnswersMatch == \A i \in DOMAIN answered : answered[i].request = answered[i].answer

Occurrences(s, r) == Cardinality({i \in DOMAIN s : s[i] = r})

\* Timeouts, lost connections and rejections neither lose a request nor run
\* its callback twice: it waits, is in progress, or was answered, once.
EveryRequestAccounted ==
    \A r \in Requests :
        Occurrences(ipmi_msgq, r) + Occurrences(<<inprogress>>, r) + Occurrences(Served, r)
            = IF r \in ToSet(issued) THEN 1 ELSE 0

\* a stands before b in s.
Before(s, a, b) == \E m, n \in DOMAIN s : m < n /\ s[m] = a /\ s[n] = b

\* The requests of S in s, where they are of one priority, stand as in sent.
KeepsOrder(s, sent, S) ==
    \A i, j \in DOMAIN s :
        /\ i < j /\ s[i] \in S /\ s[j] \in S
        /\ Priority[s[i]] = Priority[s[j]]
        => Before(sent, s[i], s[j])

\* All requests of the link: those served, in the order of their callbacks,
\* then the one in progress, then those that wait.
WholeLine == Served \o <<inprogress>> \o ipmi_msgq

\* What the link promises its clients, whatever happens to the connection.
Contract == INSTANCE RequestContract WITH
    outstanding <- ToSet(issued) \ ToSet(Served),
    answered <- answered
KeepsContract == Contract!Spec
=============================================================================
