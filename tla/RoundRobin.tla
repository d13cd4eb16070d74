----------------------------- MODULE RoundRobin -----------------------------
(***************************************************************************)
(* What a sensor watch promises: the watched sensors stand in a ring, in   *)
(* the order of the user's list.  Each answer updates those at the front   *)
(* of it, as many as a command holds, and moves them to the back.  A new   *)
(* list begins a new ring.                                                 *)
(***************************************************************************)
EXTENDS Integers, SequencesExt

CONSTANTS
    Sensors,
    Limit       \* sensors per command

VARIABLES
    sensorobjs, \* the watched sensors
    ring,       \* the same, in the order in which they are up
    fresh       \* those the last step updated

Init == sensorobjs = <<>> /\ ring = <<>> /\ fresh = {}

\* How many are up.
Up == IF Len(ring) < Limit THEN Len(ring) ELSE Limit

Turn ==
    /\ ring # <<>>
    /\ fresh' = ToSet(SubSeq(ring, 1, Up))
    /\ ring' = SubSeq(ring, Up + 1, Len(ring)) \o SubSeq(ring, 1, Up)
    /\ UNCHANGED sensorobjs

NewList ==
    /\ sensorobjs' \in Seq(Sensors) /\ IsInjective(sensorobjs')
    /\ ring' = sensorobjs'
    /\ fresh' = {}

\* An answer that is for an earlier list.
Stale == fresh' = {} /\ UNCHANGED <<sensorobjs, ring>>

Next == Turn \/ NewList \/ Stale

Spec == Init /\ [][Next]_<<sensorobjs, ring, fresh>>
=============================================================================
