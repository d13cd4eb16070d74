----------------------------- MODULE SensorWatch ----------------------------
(***************************************************************************)
(* The sensor watch of an AME component (src/vfs/lib/app-amester/          *)
(* ame_2_28.itcl, sensor_2_27.itcl).  The watched sensors go round a       *)
(* queue: a batch is taken off and asked for in one command, and the       *)
(* answer puts its sensors back and asks for the next batch.  Nothing but  *)
(* an answer keeps this going.                                             *)
(*                                                                         *)
(* The host's link gives each command one answer, in the order the         *)
(* commands were sent (they all have the same priority): see               *)
(* RequestContract.  Abstracted: sensor values, the GUI.                   *)
(***************************************************************************)
EXTENDS Integers, FiniteSets, SequencesExt

CONSTANTS
    Sensors,        \* the sensors of the component
    Lists,          \* the lists of sensors a user may ask for
    Limit,          \* sensors per command
    Delays,         \* may the host be a localhost or an emtagent, or not be one
    Faults,         \* what may go wrong with an answer
    Uses,           \* what else users and scripts do
    MaxGeneration,  \* bound: changes of the list
    MaxCommands,    \* bound: commands waiting when a user adds one
    MaxQueue,       \* bound: length of the queue when a user adds to it
    MaxTimers       \* bound: timers running for one sensor

ASSUME ListsAssumption ==
    \A l \in Lists : l \in Seq(Sensors) /\ \A i, j \in DOMAIN l : l[i] = l[j] => i = j
ASSUME LimitAssumption == Limit \in Nat \ {0}
ASSUME SwitchesAssumption ==
    /\ Delays \subseteq BOOLEAN
    /\ Faults \subseteq {"status", "length", "update"}
    /\ Uses \subseteq {"restart", "sync", "script"}
ASSUME BoundsAssumption ==
    /\ MaxGeneration \in Nat /\ MaxCommands \in Nat
    /\ MaxQueue \in Nat /\ MaxTimers \in Nat

VARIABLES
    delayed,                    \* the host is a localhost or an emtagent
    sensorobjs,                 \* the watched sensors
    sensor_watch_queue,         \* those to ask for next
    sensor_watch_generation,    \* grows with every change of the list
    commands,       \* commands not answered yet, oldest first
    data_after,     \* for each sensor, its timers that will put it back
    sync,           \* what sensor_update_by_object_sync has still to update
    fresh           \* history: the sensors the last step updated

vars == <<delayed, sensorobjs, sensor_watch_queue, sensor_watch_generation, commands,
          data_after, sync, fresh>>

Init ==
    /\ delayed \in Delays
    /\ sensorobjs = <<>>
    /\ sensor_watch_queue = <<>>
    /\ sensor_watch_generation = 0
    /\ commands = <<>>
    /\ data_after = [s \in Sensors |-> 0]
    /\ sync = <<>>
    /\ fresh = {}

-----------------------------------------------------------------------------
(* The watch *)

\* Definitions named X_... are faulty variants of X: each shows that some
\* property notices such a fault.
Batch(q) == SubSeq(q, 1, IF Len(q) < Limit THEN Len(q) ELSE Limit)
Remaining_Skips(q) == SubSeq(q, Limit + 2, Len(q))
Remaining(q) == SubSeq(q, Limit + 1, Len(q))

sensor_watch_cmd_Loop(q, sent, g) ==
    /\ sensor_watch_queue' = Remaining(Remaining(q))
    /\ commands' = sent
        \o (IF q = <<>> THEN <<>> ELSE <<[generation |-> g, sensors |-> Batch(q)]>>)
        \o (IF Remaining(q) = <<>> THEN <<>>
            ELSE <<[generation |-> g, sensors |-> Batch(Remaining(q))]>>)

\* One command for the sensors at the front of the queue, if there are any.
sensor_watch_cmd(q, sent, g) ==
    /\ sensor_watch_queue' = Remaining(q)
    /\ commands' = IF q = <<>> THEN sent
                   ELSE Append(sent, [generation |-> g, sensors |-> Batch(q)])

sensor_watch_start_KeepsQueue(objs, sent, g) ==
    sensor_watch_cmd(sensor_watch_queue, sent, g)

\* The queue is cleared and filled with the watched sensors.
sensor_watch_start(objs, sent, g) == sensor_watch_cmd(objs, sent, g)

Requeue_First(q, objs) == IF delayed THEN q ELSE objs \o q
\* sensor_data_callback of each of the sensors objs in turn: they are put
\* back at once, or by a timer that puts them back and does nothing more.
Requeue(q, objs) == IF delayed THEN q ELSE q \o objs
Rearm(objs) ==
    /\ data_after' = [s \in Sensors |->
        data_after[s] + (IF delayed THEN Cardinality({i \in DOMAIN objs : objs[i] = s}) ELSE 0)]
    /\ \A s \in Sensors : data_after'[s] =< MaxTimers

-----------------------------------------------------------------------------
(* Users *)

NewGeneration_Same(objs, sent) ==
    /\ sensorobjs' = objs
    /\ UNCHANGED sensor_watch_generation
    /\ sensor_watch_start(objs, sent, sensor_watch_generation)

\* The list becomes objs: answers to what was sent before are now stale.
NewGeneration(objs, sent) ==
    /\ sensorobjs' = objs
    /\ sensor_watch_generation' = sensor_watch_generation + 1
    /\ sensor_watch_start(objs, sent, sensor_watch_generation + 1)

MayAct == sensor_watch_generation < MaxGeneration /\ Len(commands) < MaxCommands

set_sensor_list_num(l) ==
    /\ MayAct
    /\ NewGeneration(l, commands)
    /\ fresh' = {}
    /\ UNCHANGED <<delayed, data_after, sync>>

\* Those of l that are not watched yet go to the end, in their order.
add_sensor_list_num(l) ==
    /\ MayAct
    /\ LET new == {i \in DOMAIN l : l[i] \notin ToSet(sensorobjs)}
       IN  \E place \in [1 .. Cardinality(new) -> new] :
               /\ \A i, j \in DOMAIN place : i < j => place[i] < place[j]
               /\ NewGeneration(sensorobjs \o [i \in DOMAIN place |-> l[place[i]]], commands)
    /\ fresh' = {}
    /\ UNCHANGED <<delayed, data_after, sync>>

\* sensor_watch_start called by itself: "may be called at any time".
Restart ==
    /\ "restart" \in Uses /\ Len(commands) < MaxCommands
    /\ sensor_watch_start(sensorobjs, commands, sensor_watch_generation)
    /\ fresh' = {}
    /\ UNCHANGED <<delayed, sensorobjs, sensor_watch_generation, data_after, sync>>

\* A script updates the sensors of l, a batch at a time, and waits for each
\* answer in a nested event loop.
sensor_update_by_object_sync(l) ==
    /\ "sync" \in Uses /\ sync = <<>> /\ Len(sensor_watch_queue) =< MaxQueue
    /\ sync' = l
    /\ fresh' = {}
    /\ UNCHANGED <<delayed, sensorobjs, sensor_watch_queue, sensor_watch_generation, commands, data_after>>

SyncAnswer ==
    /\ sync # <<>>
    /\ sync' = Remaining(sync)
    /\ sensor_watch_queue' = Requeue(sensor_watch_queue, Batch(sync))
    /\ Rearm(Batch(sync))
    /\ fresh' = ToSet(Batch(sync))
    /\ UNCHANGED <<delayed, sensorobjs, sensor_watch_generation, commands>>

\* An error status, or an update that fails, ends the whole call.
SyncError ==
    /\ sync # <<>>
    /\ \E k \in 0 .. Len(Batch(sync)) - 1 :
           LET done == SubSeq(sync, 1, k)
           IN  /\ ("status" \in Faults /\ k = 0) \/ "update" \in Faults
               /\ sensor_watch_queue' = Requeue(sensor_watch_queue, done)
               /\ Rearm(done)
               /\ fresh' = ToSet(done)
    /\ sync' = <<>>
    /\ UNCHANGED <<delayed, sensorobjs, sensor_watch_generation, commands>>

-----------------------------------------------------------------------------
(* sensor_watch_callback: the oldest command is answered *)

\* With an error status, whatever list the command was for.
ErrorAnswer ==
    /\ commands # <<>> /\ "status" \in Faults
    /\ sensor_watch_start(sensorobjs, Tail(commands), sensor_watch_generation)
    /\ fresh' = {}
    /\ UNCHANGED <<delayed, sensorobjs, sensor_watch_generation, data_after, sync>>

\* With too little or too much data; or for a list no longer watched.
DroppedAnswer ==
    /\ commands # <<>>
    /\ "length" \in Faults \/ Head(commands).generation # sensor_watch_generation
    /\ commands' = Tail(commands)
    /\ fresh' = {}
    /\ UNCHANGED <<delayed, sensorobjs, sensor_watch_queue, sensor_watch_generation, data_after, sync>>

Current == commands # <<>> /\ Head(commands).generation = sensor_watch_generation

GoodAnswer_SendsFirst ==
    /\ Current
    /\ LET asked == Head(commands).sensors
       IN  /\ sensor_watch_queue' = Requeue(Remaining(sensor_watch_queue), asked)
           /\ commands' = Tail(commands) \o
                IF sensor_watch_queue = <<>> THEN <<>>
                ELSE <<[generation |-> sensor_watch_generation, sensors |-> Batch(sensor_watch_queue)]>>
           /\ Rearm(asked)
           /\ fresh' = ToSet(asked)
    /\ UNCHANGED <<delayed, sensorobjs, sensor_watch_generation, sync>>

\* As it should be.
GoodAnswer ==
    /\ Current
    /\ LET asked == Head(commands).sensors
       IN  /\ sensor_watch_cmd(Requeue(sensor_watch_queue, asked), Tail(commands),
                               sensor_watch_generation)
           /\ Rearm(asked)
           /\ fresh' = ToSet(asked)
    /\ UNCHANGED <<delayed, sensorobjs, sensor_watch_generation, sync>>

\* The update of a sensor raises an error.  The "catch" catches only what the
\* update returns, so the callback ends there.
FailedUpdate ==
    /\ Current /\ "update" \in Faults
    /\ \E k \in 0 .. Len(Head(commands).sensors) - 1 :
           LET done == SubSeq(Head(commands).sensors, 1, k)
           IN  /\ sensor_watch_queue' = Requeue(sensor_watch_queue, done)
               /\ Rearm(done)
               /\ fresh' = ToSet(done)
    /\ commands' = Tail(commands)
    /\ UNCHANGED <<delayed, sensorobjs, sensor_watch_generation, sync>>

\* new_data_callback, run for the k-th sensor before it is put back, changes
\* the list (at most once in a callback): a new watch starts, and the loop
\* goes on putting back the rest.
ScriptedAnswer(l) ==
    /\ Current /\ MayAct /\ "script" \in Uses
    /\ sensorobjs' = l
    /\ sensor_watch_generation' = sensor_watch_generation + 1
    /\ \E k \in 1 .. Len(Head(commands).sensors) :
           LET asked == Head(commands).sensors
               started == IF l = <<>> THEN <<>>
                          ELSE <<[generation |-> sensor_watch_generation + 1, sensors |-> Batch(l)]>>
           IN  sensor_watch_cmd(Requeue(Remaining(l), SubSeq(asked, k, Len(asked))),
                                Tail(commands) \o started, sensor_watch_generation + 1)
    /\ Rearm(Head(commands).sensors)
    /\ fresh' = ToSet(Head(commands).sensors)
    /\ UNCHANGED <<delayed, sync>>

\* A timer of sensor_data_callback.
DataAfter(s) ==
    /\ data_after[s] > 0
    /\ data_after' = [data_after EXCEPT ![s] = @ - 1]
    /\ sensor_watch_queue' = Append(sensor_watch_queue, s)
    /\ fresh' = {}
    /\ UNCHANGED <<delayed, sensorobjs, sensor_watch_generation, commands, sync>>

Next ==
    \/ \E l \in Lists : set_sensor_list_num(l) \/ add_sensor_list_num(l)
    \/ Restart
    \/ \E l \in Lists : sensor_update_by_object_sync(l)
    \/ SyncAnswer \/ SyncError
    \/ ErrorAnswer \/ DroppedAnswer \/ GoodAnswer \/ FailedUpdate
    \/ \E l \in Lists : ScriptedAnswer(l)
    \/ \E s \in Sensors : DataAfter(s)

Spec == Init /\ [][Next]_vars

\* The link answers every command, and the event loop runs every timer.
Fairness ==
    /\ WF_vars(DroppedAnswer \/ GoodAnswer)
    /\ \A s \in Sensors : WF_vars(DataAfter(s))

FairSpec == Spec /\ Fairness

-----------------------------------------------------------------------------
(* Properties *)

TypeOK ==
    /\ delayed \in Delays
    /\ sensorobjs \in Seq(Sensors)
    /\ sensor_watch_queue \in Seq(Sensors)
    /\ sensor_watch_generation \in 0 .. MaxGeneration
    /\ commands \in Seq([generation : 0 .. MaxGeneration, sensors : Seq(Sensors)])
    /\ data_after \in [Sensors -> 0 .. MaxTimers]
    /\ sync \in Seq(Sensors)
    /\ fresh \subseteq Sensors

\* The commands sent for the list as it is now.
ForThisList == {i \in DOMAIN commands : commands[i].generation = sensor_watch_generation}

\* How often a sensor is on its way round: waiting, or asked for.
Going(s) ==
    Cardinality({k \in DOMAIN sensor_watch_queue : sensor_watch_queue[k] = s})
    + Cardinality({p \in ForThisList \X (1 .. Limit) :
                      p[2] \in DOMAIN commands[p[1]].sensors /\ commands[p[1]].sensors[p[2]] = s})

\* Nothing else keeps the watch going: while sensors are watched, an answer
\* that will ask for the next batch is still to come.
WatchGoesOn == sensorobjs # <<>> => ForThisList # {}

\* "Only have 1 outstanding sensor command at a time", of this list.
OneCommand == Cardinality(ForThisList) =< 1

\* Without faults each watched sensor is on its way exactly once, so all are
\* asked for equally often, across changes of the list with commands under way.
EverySensorOnce ==
    \A s \in Sensors : Going(s) = IF s \in ToSet(sensorobjs) THEN 1 ELSE 0

\* The watched sensors in the order in which they are up: those asked for,
\* then those in the queue.
Ring ==
    (IF ForThisList = {} THEN <<>> ELSE commands[CHOOSE i \in ForThisList : TRUE].sensors)
        \o sensor_watch_queue

Round == INSTANCE RoundRobin WITH ring <- Ring

\* Without faults the answers update the watched sensors strictly in rotation,
\* full batches in the order of the list, however the list changes with
\* commands under way.
GoesRound == Round!Spec

OnItsWay(s) ==
    \/ s \in ToSet(sensor_watch_queue)
    \/ \E i \in ForThisList : s \in ToSet(commands[i].sensors)

\* Every watched sensor is on its way, or has a timer that puts it back.
NoSensorLost == \A s \in ToSet(sensorobjs) : OnItsWay(s) \/ data_after[s] > 0

\* An answer to a command for the current list that puts nothing back.
BadAnswer == Current /\ (DroppedAnswer \/ FailedUpdate)

\* Errors, stale answers, restarts, scripts and synchronous updates, in any
\* order, neither end the watch nor drop a sensor from it: only an answer of
\* the wrong length or a failing update does (and, on a delayed host, the
\* answer that finds the queue empty).
OnlyBadAnswersEndWatch == [][WatchGoesOn' \/ ~WatchGoesOn \/ delayed \/ BadAnswer]_vars
OnlyBadAnswersLoseSensors == [][NoSensorLost' \/ ~NoSensorLost \/ BadAnswer]_vars

\* "May be called at any time to restart sensor monitoring": whatever went
\* wrong before, a restart or a new list gets every watched sensor going.
RestartRepairs ==
    [][Restart \/ sensor_watch_generation' # sensor_watch_generation
        => WatchGoesOn' /\ NoSensorLost']_vars

\* Every watched sensor is updated again and again.
KeepsUpdating ==
    \A s \in Sensors : s \in ToSet(sensorobjs) ~> s \in fresh \/ s \notin ToSet(sensorobjs)
=============================================================================
