--------------------------- MODULE RequestContract --------------------------
(***************************************************************************)
(* What every link of AMESTER promises the code that calls ipmi_send or    *)
(* ipmi_send_sync, whatever transport is underneath: a request that was    *)
(* sent stays outstanding until its callback runs, the callback runs once, *)
(* and it is given the answer to its own request.  Answers may come in any *)
(* order, and several in one step; a request may be answered in the very   *)
(* step that sends it (the transport fakes some answers).                  *)
(***************************************************************************)
EXTENDS SequencesExt

CONSTANT Requests

VARIABLES
    outstanding,    \* requests sent and not answered
    answered        \* the callbacks run, in order

Init == outstanding = {} /\ answered = <<>>

Fresh == Requests \ (outstanding \cup {answered[i].request : i \in DOMAIN answered})

Completed(done) == [i \in DOMAIN done |-> [request |-> done[i], answer |-> done[i]]]

\* At most one request is sent, then some of the outstanding ones complete.
Step(sent) ==
    \E done \in SetToAllKPermutations(outstanding \cup sent) :
        /\ answered' = answered \o Completed(done)
        /\ outstanding' = (outstanding \cup sent) \ ToSet(done)

Issue == \E r \in Fresh : Step({r})
Complete == Step({})

Next == Issue \/ Complete

Spec == Init /\ [][Next]_<<outstanding, answered>>
=============================================================================
