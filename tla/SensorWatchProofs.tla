-------------------------- MODULE SensorWatchProofs -------------------------
(***************************************************************************)
(* Safety of SensorWatch, for every set of sensors and lists, every limit, *)
(* and all faults and uses together.  Inv is the type invariant and that   *)
(* no command is empty; the action properties follow from it by what       *)
(* sensor_watch_cmd does with a queue: each of its sensors is asked for    *)
(* or stays in the queue, and something is asked for unless it is empty.   *)
(* Without faults, RoundInv says more: the queue and one command hold each *)
(* watched sensor once, and the command is full unless the queue is empty; *)
(* so the watch implements RoundRobin, and the two are the list, turned.   *)
(***************************************************************************)
EXTENDS SensorWatch, SequenceTheorems, FiniteSetTheorems, TLAPS

Generations == 0 .. MaxGeneration
Commands == [generation : Generations, sensors : Seq(Sensors)]

Inv ==
    /\ TypeOK
    /\ \A i \in DOMAIN commands : commands[i].sensors # <<>>

-----------------------------------------------------------------------------
(* Sequences *)

\* A place in a sequence of sensors, and what is there.
LEMMA Places ==
    ASSUME NEW S, NEW q \in Seq(S)
    PROVE  /\ Len(q) \in Nat /\ DOMAIN q = 1 .. Len(q)
           /\ \A i \in 1 .. Len(q) : q[i] \in S
           /\ q = <<>> <=> Len(q) = 0
BY EmptySeq, LenProperties, ElementOfSeq

LEMMA ConcatMembers ==
    ASSUME NEW S, NEW p \in Seq(S), NEW q \in Seq(S)
    PROVE  p \o q \in Seq(S) /\ ToSet(p \o q) = ToSet(p) \cup ToSet(q)
<1>1. /\ p \o q \in Seq(S)
      /\ Len(p \o q) = Len(p) + Len(q)
      /\ \A i \in 1 .. Len(p) + Len(q) : (p \o q)[i] = IF i <= Len(p) THEN p[i] ELSE q[i - Len(p)]
    BY ConcatProperties
<1>2. Len(p) \in Nat /\ Len(q) \in Nat /\ DOMAIN p = 1 .. Len(p) /\ DOMAIN q = 1 .. Len(q)
      /\ DOMAIN (p \o q) = 1 .. Len(p) + Len(q)
    BY <1>1, LenProperties
<1>3. ToSet(p) \subseteq ToSet(p \o q)
    <2>1. ASSUME NEW i \in 1 .. Len(p)
          PROVE  i \in 1 .. Len(p) + Len(q) /\ (p \o q)[i] = p[i]
        BY <1>1, <1>2
    <2> QED
        BY <1>2, <2>1 DEF ToSet
<1>4. ToSet(q) \subseteq ToSet(p \o q)
    <2>1. ASSUME NEW i \in 1 .. Len(q)
          PROVE  Len(p) + i \in 1 .. Len(p) + Len(q) /\ (p \o q)[Len(p) + i] = q[i]
        BY <1>1, <1>2
    <2> QED
        BY <1>2, <2>1 DEF ToSet
<1>5. ToSet(p \o q) \subseteq ToSet(p) \cup ToSet(q)
    <2>1. ASSUME NEW i \in 1 .. Len(p) + Len(q)
          PROVE  \/ i \in 1 .. Len(p) /\ (p \o q)[i] = p[i]
                 \/ i - Len(p) \in 1 .. Len(q) /\ (p \o q)[i] = q[i - Len(p)]
        BY <1>1, <1>2
    <2> QED
        BY <1>2, <2>1 DEF ToSet
<1> QED
    BY <1>1, <1>3, <1>4, <1>5

LEMMA Members ==
    ASSUME NEW q \in Seq(Sensors)
    PROVE  ToSet(q) \subseteq Sensors
BY Places DEF ToSet

\* Cutting a sequence of sensors gives one.
LEMMA CutSensors ==
    ASSUME NEW q \in Seq(Sensors), NEW i \in 1 .. Len(q) + 1, NEW j \in 0 .. Len(q)
    PROVE  SubSeq(q, i, j) \in Seq(Sensors)
<1>1. i \in Int /\ j \in Int /\ \A k \in i .. j : q[k] \in Sensors
    BY Places
<1> QED
    BY <1>1, SubSeqProperties

\* A batch and what remains make up the queue; only of an empty queue is the
\* batch empty, and it is never longer than the limit.
LEMMA SplitQueue ==
    ASSUME NEW q \in Seq(Sensors), LimitAssumption
    PROVE  /\ Batch(q) \in Seq(Sensors)
           /\ Remaining(q) \in Seq(Sensors)
           /\ q = Batch(q) \o Remaining(q)
           /\ ToSet(q) = ToSet(Batch(q)) \cup ToSet(Remaining(q))
           /\ q # <<>> => Batch(q) # <<>>
           /\ Len(Batch(q)) \in 0 .. Len(q)
           /\ Len(Batch(q)) =< Limit
           /\ Len(Batch(q)) = Limit \/ Remaining(q) = <<>>
<1>0. /\ Limit \in Int /\ Limit >= 1
      /\ Len(q) \in Int /\ Len(q) >= 0
      /\ q # <<>> => Len(q) # 0
    BY LenProperties, EmptySeq DEF LimitAssumption
<1>1. CASE Len(q) < Limit
    <2>1. Batch(q) = q
        BY <1>1, SubSeqFull DEF Batch
    <2>2. Limit + 1 \in Int /\ Len(q) < Limit + 1
        BY <1>0, <1>1
    <2>3. Remaining(q) = <<>>
        BY <1>0, <2>2, SubSeqEmpty DEF Remaining
    <2>4. <<>> \in Seq(Sensors) /\ q \o <<>> = q
        BY ConcatEmptySeq
    <2>5. ToSet(<<>>) = {}
        BY DEF ToSet
    <2> QED
        BY <1>0, <1>1, <2>1, <2>3, <2>4, <2>5
<1>2. CASE ~(Len(q) < Limit)
    <2>1. Batch(q) = SubSeq(q, 1, Limit) /\ Remaining(q) = SubSeq(q, Limit + 1, Len(q))
        BY <1>2 DEF Batch, Remaining
    <2>2. /\ 1 \in 1 .. Len(q) + 1 /\ Limit \in 1 - 1 .. Len(q)
          /\ Len(q) \in Limit .. Len(q) /\ Limit + 1 \in 1 .. Len(q) + 1
          /\ Limit \in 0 .. Len(q) /\ Len(q) \in 0 .. Len(q)
        BY <1>0, <1>2
    <2>3. SubSeq(q, 1, Limit) \o SubSeq(q, Limit + 1, Len(q)) = q
        BY <2>2, ConcatAdjacentSubSeq, SubSeqFull
    <2>4. Batch(q) \in Seq(Sensors) /\ Remaining(q) \in Seq(Sensors)
        BY <2>1, <2>2, CutSensors
    <2>5. Len(Batch(q)) = Limit
        <3>1. 1 \in Int /\ \A i \in 1 .. Limit : q[i] \in Sensors
            BY <1>0, <1>2, Places
        <3>2. Len(SubSeq(q, 1, Limit)) = IF 1 <= Limit THEN Limit - 1 + 1 ELSE 0
            BY <1>0, <3>1, SubSeqProperties
        <3> QED
            BY <1>0, <2>1, <3>2
    <2> DEFINE b == Batch(q)
               r == Remaining(q)
    <2>6. q = b \o r
        BY <2>1, <2>3
    <2>7. b # <<>>
        BY <1>0, <2>4, <2>5, EmptySeq
    <2>8. b \in Seq(Sensors) /\ r \in Seq(Sensors) /\ Len(b) \in 0 .. Len(q) /\ Len(b) =< Limit
        BY <1>0, <2>2, <2>4, <2>5
    <2> HIDE DEF b, r
    <2>9. ToSet(b \o r) = ToSet(b) \cup ToSet(r)
        BY <2>8, ConcatMembers
    <2>10. ToSet(q) = ToSet(b) \cup ToSet(r)
        BY <2>6, <2>9
    <2>11. Len(b) = Limit
        BY <2>5 DEF b
    <2> QED
        BY <2>6, <2>7, <2>8, <2>10, <2>11 DEF b, r
<1> QED
    BY <1>1, <1>2

-----------------------------------------------------------------------------
(* The operators *)

\* sensor_watch_cmd asks for something unless the queue is empty, forgets
\* nothing of the queue, and leaves what was sent before.
LEMMA CommandCovers ==
    ASSUME LimitAssumption,
           NEW q \in Seq(Sensors), NEW sent \in Seq(Commands), NEW g \in Generations,
           sensor_watch_cmd(q, sent, g), sensor_watch_generation' = g
    PROVE  /\ sensor_watch_queue' \in Seq(Sensors)
           /\ commands' \in Seq(Commands)
           /\ \A i \in DOMAIN sent : i \in DOMAIN commands' /\ commands'[i] = sent[i]
           /\ (\A i \in DOMAIN sent : sent[i].sensors # <<>>)
                => \A i \in DOMAIN commands' : commands'[i].sensors # <<>>
           /\ q # <<>> => ForThisList' # {}
           /\ \A s \in ToSet(q) : OnItsWay(s)'
<1>1. CASE q = <<>>
    <2>1. commands' = sent /\ sensor_watch_queue' = Remaining(q)
        BY <1>1 DEF sensor_watch_cmd
    <2>2. ToSet(q) = {}
        BY <1>1 DEF ToSet
    <2> QED
        BY <1>1, <2>1, <2>2, SplitQueue
<1>2. CASE q # <<>>
    <2> DEFINE c == [generation |-> g, sensors |-> Batch(q)]
               n == Len(sent) + 1
    <2>1. commands' = Append(sent, c) /\ sensor_watch_queue' = Remaining(q)
        BY <1>2 DEF sensor_watch_cmd
    <2>2. /\ Batch(q) \in Seq(Sensors) /\ Batch(q) # <<>> /\ Remaining(q) \in Seq(Sensors)
          /\ ToSet(q) = ToSet(Batch(q)) \cup ToSet(Remaining(q))
        BY <1>2, SplitQueue
    <2>3. c \in Commands /\ c.generation = g /\ c.sensors = Batch(q)
        BY <2>2 DEF Commands
    <2> HIDE DEF c
    <2>4. /\ commands' \in Seq(Commands)
          /\ Len(commands') = n
          /\ \A i \in 1 .. Len(sent) : commands'[i] = sent[i]
          /\ commands'[n] = c
        BY <2>1, <2>3, AppendProperties
    <2>5. Len(sent) \in Nat /\ DOMAIN sent = 1 .. Len(sent) /\ DOMAIN commands' = 1 .. n
        BY <2>4, LenProperties
    <2>6. n \in DOMAIN commands' /\ (\A i \in DOMAIN sent : i \in DOMAIN commands')
          /\ \A i \in DOMAIN commands' : i \in DOMAIN sent \/ i = n
        BY <2>5
    <2>7. n \in ForThisList'
        BY <2>3, <2>4, <2>6 DEF ForThisList
    <2>8. \A s \in ToSet(q) : OnItsWay(s)'
        BY <2>1, <2>2, <2>3, <2>4, <2>7 DEF OnItsWay
    <2> QED
        BY <2>1, <2>2, <2>3, <2>4, <2>5, <2>6, <2>7, <2>8
<1> QED
    BY <1>1, <1>2

\* What sensor_data_callback puts back is in the queue afterwards, together
\* with what was there, or has a timer.
LEMMA RequeueCovers ==
    ASSUME NEW q \in Seq(Sensors), NEW objs \in Seq(Sensors)
    PROVE  /\ Requeue(q, objs) \in Seq(Sensors)
           /\ ToSet(q) \subseteq ToSet(Requeue(q, objs))
           /\ ~delayed => ToSet(objs) \subseteq ToSet(Requeue(q, objs))
BY ConcatMembers DEF Requeue

LEMMA RearmCounts ==
    ASSUME NEW objs \in Seq(Sensors), Rearm(objs), BoundsAssumption,
           data_after \in [Sensors -> 0 .. MaxTimers]
    PROVE  /\ data_after' \in [Sensors -> 0 .. MaxTimers]
           /\ \A s \in Sensors : data_after'[s] >= data_after[s]
           /\ delayed => \A s \in ToSet(objs) : data_after'[s] > 0
<1> DEFINE At(s) == {i \in DOMAIN objs : objs[i] = s}
           Add(s) == IF delayed THEN Cardinality(At(s)) ELSE 0
<1>1. IsFiniteSet(DOMAIN objs)
    BY LenProperties, FS_Interval
<1>2. \A s \in Sensors : IsFiniteSet(At(s)) /\ Cardinality(At(s)) \in Nat
    <2>1. \A s \in Sensors : At(s) \in SUBSET DOMAIN objs
        OBVIOUS
    <2> QED
        BY <1>1, <2>1, FS_Subset, FS_CardinalityType
<1>3. \A s \in ToSet(objs) : s \in Sensors /\ At(s) # {}
    BY LenProperties, ElementOfSeq DEF ToSet
<1>4. ASSUME NEW s \in ToSet(objs)
      PROVE  Cardinality(At(s)) > 0
    <2>1. IsFiniteSet(At(s)) /\ Cardinality(At(s)) \in Nat /\ At(s) # {}
        BY <1>2, <1>3
    <2> HIDE DEF At
    <2>2. Cardinality(At(s)) # 0
        BY <2>1, FS_EmptySet
    <2> QED
        BY <2>1, <2>2
<1>5. /\ data_after' = [s \in Sensors |-> data_after[s] + Add(s)]
      /\ \A s \in Sensors : data_after'[s] =< MaxTimers
    BY DEF Rearm
<1>6. \A s \in Sensors : Add(s) \in Nat
    BY <1>2
<1>7. delayed => \A s \in ToSet(objs) : Add(s) > 0
    BY <1>4
<1> HIDE DEF Add
<1>8. \A s \in Sensors : data_after[s] \in Nat /\ data_after'[s] = data_after[s] + Add(s)
    BY <1>5
<1> QED
    BY <1>3, <1>5, <1>6, <1>7, <1>8 DEF BoundsAssumption

-----------------------------------------------------------------------------
(* The actions *)

\* Every action keeps Inv and, unless it is a bad answer, the watch going and
\* its sensors in the round; one that changes the list repairs both.
Kept ==
    /\ Inv'
    /\ WatchGoesOn' \/ ~WatchGoesOn \/ delayed \/ BadAnswer
    /\ NoSensorLost' \/ ~NoSensorLost \/ BadAnswer
    /\ sensor_watch_generation' # sensor_watch_generation => WatchGoesOn' /\ NoSensorLost'

Assumptions == LimitAssumption /\ ListsAssumption /\ BoundsAssumption

LEMMA InitInv ==
    ASSUME Assumptions, Init
    PROVE  Inv
<1>1. <<>> \in Seq(Sensors) /\ <<>> \in Seq(Commands) /\ DOMAIN <<>> = {}
    OBVIOUS
<1>2. 0 \in 0 .. MaxGeneration /\ 0 \in 0 .. MaxTimers
    BY DEF Assumptions, BoundsAssumption
<1> QED
    BY <1>1, <1>2 DEF Init, Inv, TypeOK, Commands, Generations

\* sensor_watch_start gets the watched sensors going, whatever was there.
LEMMA StartRepairs ==
    ASSUME Assumptions, NEW objs \in Seq(Sensors), NEW sent \in Seq(Commands),
           \A i \in DOMAIN sent : sent[i].sensors # <<>>,
           NEW g \in Generations, sensor_watch_start(objs, sent, g),
           sensor_watch_generation' = g, sensorobjs' = objs
    PROVE  /\ sensor_watch_queue' \in Seq(Sensors)
           /\ commands' \in Seq(Commands)
           /\ \A i \in DOMAIN commands' : commands'[i].sensors # <<>>
           /\ WatchGoesOn' /\ NoSensorLost'
BY CommandCovers DEF Assumptions, sensor_watch_start, WatchGoesOn, NoSensorLost

\* Nothing is taken from the round.
LEMMA SameWatch ==
    ASSUME UNCHANGED <<sensorobjs, sensor_watch_generation, commands>>,
           Inv, ToSet(sensor_watch_queue) \subseteq ToSet(sensor_watch_queue'),
           \A s \in Sensors : data_after[s] > 0 =>
                data_after'[s] > 0 \/ s \in ToSet(sensor_watch_queue')
    PROVE  /\ WatchGoesOn => WatchGoesOn'
           /\ NoSensorLost => NoSensorLost'
<1>1. ForThisList' = ForThisList
    BY DEF ForThisList
<1>2. \A s : OnItsWay(s) => OnItsWay(s)'
    BY <1>1 DEF OnItsWay
<1>3. ToSet(sensorobjs) \subseteq Sensors
    BY Members DEF Inv, TypeOK
<1>4. \A s : s \in ToSet(sensor_watch_queue') => OnItsWay(s)'
    BY DEF OnItsWay
<1>5. WatchGoesOn => WatchGoesOn'
    BY <1>1 DEF WatchGoesOn
<1>6. ASSUME NoSensorLost, NEW s \in ToSet(sensorobjs)
      PROVE  OnItsWay(s)' \/ data_after'[s] > 0
    BY <1>2, <1>3, <1>4, <1>6 DEF NoSensorLost
<1> QED
    BY <1>5, <1>6 DEF NoSensorLost

\* The oldest command, and the others.
LEMMA OldestCommand ==
    ASSUME Inv, commands # <<>>
    PROVE  /\ Head(commands) \in Commands /\ Head(commands).sensors # <<>>
           /\ 1 \in DOMAIN commands /\ commands[1] = Head(commands)
           /\ Tail(commands) \in Seq(Commands)
           /\ \A i \in DOMAIN Tail(commands) : Tail(commands)[i].sensors # <<>>
           /\ \A i \in DOMAIN commands \ {1} :
                i - 1 \in DOMAIN Tail(commands) /\ Tail(commands)[i - 1] = commands[i]
<1>1. commands \in Seq(Commands)
    BY DEF Inv, TypeOK, Commands, Generations
<1>2. /\ Head(commands) \in Commands
      /\ Tail(commands) \in Seq(Commands)
      /\ Len(Tail(commands)) = Len(commands) - 1
      /\ \A i \in 1 .. Len(Tail(commands)) : Tail(commands)[i] = commands[i + 1]
    BY <1>1, HeadTailProperties
<1>3. /\ Len(commands) \in Nat \ {0} /\ DOMAIN commands = 1 .. Len(commands)
      /\ DOMAIN Tail(commands) = 1 .. Len(Tail(commands))
    BY <1>1, <1>2, LenProperties, EmptySeq
<1>4. 1 \in DOMAIN commands /\ commands[1] = Head(commands)
    BY <1>1, <1>3
<1>5. \A i \in DOMAIN Tail(commands) :
          i + 1 \in DOMAIN commands /\ Tail(commands)[i] = commands[i + 1]
    BY <1>2, <1>3
<1>6. \A i \in DOMAIN commands \ {1} :
          i - 1 \in DOMAIN Tail(commands) /\ Tail(commands)[i - 1] = commands[i]
    <2>1. ASSUME NEW i \in 1 .. Len(commands), i # 1
          PROVE  i - 1 \in 1 .. Len(Tail(commands)) /\ i - 1 + 1 = i
        BY <1>2, <1>3, <2>1
    <2> QED
        BY <1>2, <1>3, <2>1
<1> QED
    BY <1>2, <1>4, <1>5, <1>6 DEF Inv

\* A handler that leaves the newer commands for this list alone.
LEMMA NewerStay ==
    ASSUME Inv, commands # <<>>, sensor_watch_generation' = sensor_watch_generation,
           \A i \in DOMAIN Tail(commands) :
                i \in DOMAIN commands' /\ commands'[i] = Tail(commands)[i],
           NEW i \in ForThisList, i # 1
    PROVE  ForThisList' # {} /\ \A s \in ToSet(commands[i].sensors) : OnItsWay(s)'
<1>1. i - 1 \in ForThisList' /\ commands'[i - 1] = commands[i]
    BY OldestCommand DEF ForThisList
<1> QED
    BY <1>1 DEF OnItsWay

\* The users' calls that start the watch.
LEMMA SetKeeps ==
    ASSUME Assumptions, Inv, NEW l \in Lists, set_sensor_list_num(l)
    PROVE  Kept
<1>1. l \in Seq(Sensors) /\ commands \in Seq(Commands) /\ sensor_watch_generation + 1 \in Generations
    BY DEF Assumptions, ListsAssumption, BoundsAssumption, Inv, TypeOK, Commands, Generations,
           set_sensor_list_num, MayAct
<1>2. /\ sensorobjs' = l /\ sensor_watch_generation' = sensor_watch_generation + 1
      /\ sensor_watch_start(l, commands, sensor_watch_generation + 1)
    BY DEF set_sensor_list_num, NewGeneration
<1>3. /\ sensor_watch_queue' \in Seq(Sensors)
      /\ commands' \in Seq(Commands)
      /\ \A i \in DOMAIN commands' : commands'[i].sensors # <<>>
      /\ WatchGoesOn' /\ NoSensorLost'
    BY <1>1, <1>2, StartRepairs DEF Inv
<1> QED
    BY <1>1, <1>2, <1>3 DEF set_sensor_list_num, Kept, Inv, TypeOK, Commands, Generations

LEMMA AddKeeps ==
    ASSUME Assumptions, Inv, NEW l \in Lists, add_sensor_list_num(l)
    PROVE  Kept
<1> DEFINE new == {i \in DOMAIN l : l[i] \notin ToSet(sensorobjs)}
<1>1. l \in Seq(Sensors) /\ commands \in Seq(Commands) /\ sensor_watch_generation + 1 \in Generations
      /\ sensorobjs \in Seq(Sensors)
    BY DEF Assumptions, ListsAssumption, BoundsAssumption, Inv, TypeOK, Commands, Generations,
           add_sensor_list_num, MayAct
<1>2. PICK place \in [1 .. Cardinality(new) -> new] :
          NewGeneration(sensorobjs \o [i \in DOMAIN place |-> l[place[i]]], commands)
    BY DEF add_sensor_list_num
<1> DEFINE added == [i \in DOMAIN place |-> l[place[i]]]
           objs == sensorobjs \o added
<1>3. added \in Seq(Sensors)
    <2>1. Cardinality(new) \in Nat
        <3>1. IsFiniteSet(DOMAIN l)
            BY <1>1, LenProperties, FS_Interval
        <3>2. new \in SUBSET DOMAIN l
            OBVIOUS
        <3> QED
            BY <3>1, <3>2, FS_Subset, FS_CardinalityType
    <2>2. \A i \in new : l[i] \in Sensors
        BY <1>1, Places
    <2>3. added \in [1 .. Cardinality(new) -> Sensors]
        BY <1>2, <2>2
    <2> QED
        BY <2>1, <2>3, SeqDef
<1>4. objs \in Seq(Sensors)
    BY <1>1, <1>3, ConcatMembers
<1>5. /\ sensorobjs' = objs /\ sensor_watch_generation' = sensor_watch_generation + 1
      /\ sensor_watch_start(objs, commands, sensor_watch_generation + 1)
    BY <1>2 DEF NewGeneration
<1> HIDE DEF objs
<1>6. /\ sensor_watch_queue' \in Seq(Sensors)
      /\ commands' \in Seq(Commands)
      /\ \A i \in DOMAIN commands' : commands'[i].sensors # <<>>
      /\ WatchGoesOn' /\ NoSensorLost'
    BY <1>1, <1>4, <1>5, StartRepairs DEF Inv
<1> QED
    BY <1>1, <1>4, <1>5, <1>6 DEF add_sensor_list_num, Kept, Inv, TypeOK, Commands, Generations

LEMMA RestartKeeps ==
    ASSUME Assumptions, Inv, Restart
    PROVE  Kept /\ WatchGoesOn' /\ NoSensorLost'
<1>1. /\ commands \in Seq(Commands) /\ sensor_watch_generation \in Generations
      /\ sensorobjs \in Seq(Sensors)
    BY DEF Inv, TypeOK, Commands, Generations
<1>2. /\ UNCHANGED <<delayed, sensorobjs, sensor_watch_generation, data_after, sync>> /\ fresh' = {}
      /\ sensor_watch_start(sensorobjs, commands, sensor_watch_generation)
    BY DEF Restart
<1>3. /\ sensor_watch_queue' \in Seq(Sensors)
      /\ commands' \in Seq(Commands)
      /\ \A i \in DOMAIN commands' : commands'[i].sensors # <<>>
      /\ WatchGoesOn' /\ NoSensorLost'
    BY <1>1, <1>2, StartRepairs DEF Inv
<1> QED
    BY <1>1, <1>2, <1>3 DEF Kept, Inv, TypeOK, Commands, Generations

\* Synchronous updates only ever add to the queue.
LEMMA SyncStartKeeps ==
    ASSUME Assumptions, Inv, NEW l \in Lists, sensor_update_by_object_sync(l)
    PROVE  Kept
<1>1. /\ UNCHANGED <<delayed, sensorobjs, sensor_watch_queue, sensor_watch_generation, commands, data_after>>
      /\ sync' \in Seq(Sensors) /\ fresh' = {}
    BY DEF sensor_update_by_object_sync, Assumptions, ListsAssumption
<1>2. Inv'
    BY <1>1 DEF Inv, TypeOK
<1> QED
    BY <1>1, <1>2, SameWatch DEF Kept

\* Sensors put back by anything that sends no command.
LEMMA PutBackKeeps ==
    ASSUME Assumptions, Inv, NEW objs \in Seq(Sensors), Rearm(objs),
           sensor_watch_queue' = Requeue(sensor_watch_queue, objs)
    PROVE  /\ sensor_watch_queue' \in Seq(Sensors)
           /\ data_after' \in [Sensors -> 0 .. MaxTimers]
           /\ ToSet(sensor_watch_queue) \subseteq ToSet(sensor_watch_queue')
           /\ \A s \in Sensors : data_after[s] > 0 => data_after'[s] > 0
<1>1. sensor_watch_queue \in Seq(Sensors) /\ data_after \in [Sensors -> 0 .. MaxTimers]
    BY DEF Inv, TypeOK
<1>2. /\ data_after' \in [Sensors -> 0 .. MaxTimers]
      /\ \A s \in Sensors : data_after'[s] >= data_after[s]
    BY <1>1, RearmCounts DEF Assumptions
<1>3. \A s \in Sensors : data_after[s] \in Int /\ data_after'[s] \in Int
    BY <1>1, <1>2 DEF Assumptions, BoundsAssumption
<1> QED
    BY <1>1, <1>2, <1>3, RequeueCovers

LEMMA SyncKeeps ==
    ASSUME Assumptions, Inv, SyncAnswer \/ SyncError
    PROVE  Kept
<1>1. sync \in Seq(Sensors) /\ Batch(sync) \in Seq(Sensors) /\ Remaining(sync) \in Seq(Sensors)
      /\ Len(Batch(sync)) \in 0 .. Len(sync)
    BY SplitQueue DEF Inv, TypeOK, Assumptions
<1>2. PICK done \in Seq(Sensors) :
          /\ sensor_watch_queue' = Requeue(sensor_watch_queue, done)
          /\ Rearm(done) /\ fresh' = ToSet(done)
    <2>1. CASE SyncAnswer
        BY <1>1, <2>1 DEF SyncAnswer
    <2>2. CASE SyncError
        <3>1. PICK k \in 0 .. Len(Batch(sync)) - 1 :
                  /\ sensor_watch_queue' = Requeue(sensor_watch_queue, SubSeq(sync, 1, k))
                  /\ Rearm(SubSeq(sync, 1, k)) /\ fresh' = ToSet(SubSeq(sync, 1, k))
            BY <2>2 DEF SyncError
        <3>2. Len(sync) \in Nat
            BY <1>1, LenProperties
        <3>3. k \in 0 .. Len(sync) /\ 1 \in 1 .. Len(sync) + 1
            BY <1>1, <3>2
        <3>4. SubSeq(sync, 1, k) \in Seq(Sensors)
            BY <1>1, <3>3, CutSensors
        <3> QED
            BY <3>1, <3>4
    <2> QED
        BY <2>1, <2>2
<1>3. /\ UNCHANGED <<delayed, sensorobjs, sensor_watch_generation, commands>>
      /\ sync' \in Seq(Sensors)
    <2>1. CASE SyncAnswer
        BY <1>1, <2>1 DEF SyncAnswer
    <2>2. CASE SyncError
        <3>1. <<>> \in Seq(Sensors)
            OBVIOUS
        <3> QED
            BY <2>2, <3>1 DEF SyncError
    <2> QED
        BY <2>1, <2>2
<1>4. fresh' \subseteq Sensors
    BY <1>2, Members
<1>5. Inv'
    BY <1>2, <1>3, <1>4, PutBackKeeps DEF Inv, TypeOK
<1> QED
    BY <1>2, <1>3, <1>5, PutBackKeeps, SameWatch DEF Kept

LEMMA ErrorKeeps ==
    ASSUME Assumptions, Inv, ErrorAnswer
    PROVE  Kept
<1>1. /\ sensor_watch_generation \in Generations /\ sensorobjs \in Seq(Sensors)
      /\ Tail(commands) \in Seq(Commands)
      /\ \A i \in DOMAIN Tail(commands) : Tail(commands)[i].sensors # <<>>
    BY OldestCommand DEF Inv, TypeOK, Generations, ErrorAnswer
<1>2. /\ UNCHANGED <<delayed, sensorobjs, sensor_watch_generation, data_after, sync>> /\ fresh' = {}
      /\ sensor_watch_start(sensorobjs, Tail(commands), sensor_watch_generation)
    BY DEF ErrorAnswer
<1>3. /\ sensor_watch_queue' \in Seq(Sensors)
      /\ commands' \in Seq(Commands)
      /\ \A i \in DOMAIN commands' : commands'[i].sensors # <<>>
      /\ WatchGoesOn' /\ NoSensorLost'
    BY <1>1, <1>2, StartRepairs
<1> QED
    BY <1>1, <1>2, <1>3 DEF Kept, Inv, TypeOK, Commands, Generations

\* An answer for another list takes nothing from the round of this one.
LEMMA DroppedKeeps ==
    ASSUME Assumptions, Inv, DroppedAnswer
    PROVE  Kept
<1>1. /\ commands # <<>> /\ commands' = Tail(commands)
      /\ fresh' = {}
      /\ UNCHANGED <<delayed, sensorobjs, sensor_watch_queue, sensor_watch_generation,
                     data_after, sync>>
    BY DEF DroppedAnswer
<1>2. /\ commands' \in Seq(Commands)
      /\ \A i \in DOMAIN commands' : commands'[i].sensors # <<>>
    BY <1>1, OldestCommand
<1>3. Inv'
    BY <1>1, <1>2 DEF Inv, TypeOK, Commands, Generations
<1>4. CASE Current
    BY <1>1, <1>3, <1>4 DEF Kept, BadAnswer
<1>5. CASE ~Current
    <2>1. 1 \notin ForThisList
        BY <1>1, <1>5, OldestCommand DEF ForThisList, Current
    <2>2. \A i \in ForThisList :
              ForThisList' # {} /\ \A s \in ToSet(commands[i].sensors) : OnItsWay(s)'
        BY <1>1, <2>1, NewerStay
    <2>3. WatchGoesOn => WatchGoesOn'
        BY <1>1, <2>2 DEF WatchGoesOn
    <2>4. \A s : OnItsWay(s) => OnItsWay(s)'
        BY <1>1, <2>2 DEF OnItsWay
    <2>5. NoSensorLost => NoSensorLost'
        BY <1>1, <2>4 DEF NoSensorLost
    <2> QED
        BY <1>1, <1>3, <2>3, <2>5 DEF Kept
<1> QED
    BY <1>4, <1>5

LEMMA FailedKeeps ==
    ASSUME Assumptions, Inv, FailedUpdate
    PROVE  Kept
<1> DEFINE asked == Head(commands).sensors
<1>1. /\ Current /\ commands # <<>> /\ commands' = Tail(commands)
      /\ UNCHANGED <<delayed, sensorobjs, sensor_watch_generation, sync>>
    BY DEF FailedUpdate, Current
<1>2. /\ commands' \in Seq(Commands)
      /\ \A i \in DOMAIN commands' : commands'[i].sensors # <<>>
      /\ asked \in Seq(Sensors)
    BY <1>1, OldestCommand DEF Commands
<1>3. PICK done \in Seq(Sensors) :
          /\ sensor_watch_queue' = Requeue(sensor_watch_queue, done)
          /\ Rearm(done) /\ fresh' = ToSet(done)
    <2>1. PICK k \in 0 .. Len(asked) - 1 :
              /\ sensor_watch_queue' = Requeue(sensor_watch_queue, SubSeq(asked, 1, k))
              /\ Rearm(SubSeq(asked, 1, k)) /\ fresh' = ToSet(SubSeq(asked, 1, k))
        BY DEF FailedUpdate
    <2> HIDE DEF asked
    <2>2. Len(asked) \in Nat
        BY <1>2, LenProperties
    <2>3. k \in 0 .. Len(asked) /\ 1 \in 1 .. Len(asked) + 1
        BY <2>2
    <2>4. SubSeq(asked, 1, k) \in Seq(Sensors)
        BY <1>2, <2>3, CutSensors
    <2> QED
        BY <2>1, <2>4
<1>4. fresh' \subseteq Sensors
    BY <1>3, Members
<1>5. Inv'
    BY <1>1, <1>2, <1>3, <1>4, PutBackKeeps DEF Inv, TypeOK, Commands, Generations
<1> QED
    BY <1>1, <1>5 DEF Kept, BadAnswer

\* A good answer puts its sensors back and asks for the next batch.
LEMMA GoodKeeps ==
    ASSUME Assumptions, Inv, GoodAnswer
    PROVE  Kept
<1> DEFINE asked == Head(commands).sensors
           q == Requeue(sensor_watch_queue, asked)
<1>1. /\ Current /\ commands # <<>>
      /\ sensor_watch_cmd(q, Tail(commands), sensor_watch_generation)
      /\ Rearm(asked) /\ fresh' = ToSet(asked)
      /\ UNCHANGED <<delayed, sensorobjs, sensor_watch_generation, sync>>
    BY DEF GoodAnswer, Current
<1>2. /\ sensor_watch_queue \in Seq(Sensors) /\ asked \in Seq(Sensors) /\ asked # <<>>
      /\ Tail(commands) \in Seq(Commands) /\ sensor_watch_generation \in Generations
      /\ \A i \in DOMAIN Tail(commands) : Tail(commands)[i].sensors # <<>>
      /\ commands[1].sensors = asked
    BY <1>1, OldestCommand DEF Commands, Generations, Inv, TypeOK
<1> HIDE DEF asked
<1>3. /\ q \in Seq(Sensors)
      /\ ToSet(sensor_watch_queue) \subseteq ToSet(q)
      /\ ~delayed => ToSet(asked) \subseteq ToSet(q)
    BY <1>2, RequeueCovers
<1> HIDE DEF q
<1>4. /\ sensor_watch_queue' \in Seq(Sensors)
      /\ commands' \in Seq(Commands)
      /\ \A i \in DOMAIN Tail(commands) : i \in DOMAIN commands' /\ commands'[i] = Tail(commands)[i]
      /\ \A i \in DOMAIN commands' : commands'[i].sensors # <<>>
      /\ q # <<>> => ForThisList' # {}
      /\ \A s \in ToSet(q) : OnItsWay(s)'
    <2>1. LimitAssumption /\ sensor_watch_generation' = sensor_watch_generation
        BY <1>1 DEF Assumptions
    <2> QED
        BY <1>1, <1>2, <1>3, <2>1, CommandCovers
<1>5. /\ data_after \in [Sensors -> 0 .. MaxTimers]
      /\ data_after' \in [Sensors -> 0 .. MaxTimers]
      /\ \A s \in Sensors : data_after'[s] >= data_after[s]
      /\ delayed => \A s \in ToSet(asked) : data_after'[s] > 0
    BY <1>1, <1>2, RearmCounts DEF Assumptions, Inv, TypeOK
<1>6. fresh' \subseteq Sensors
    BY <1>1, <1>2, Members
<1>7. Inv'
    BY <1>1, <1>4, <1>5, <1>6 DEF Inv, TypeOK, Commands, Generations
<1>8. ~delayed => ForThisList' # {}
    <2>1. ToSet(asked) # {}
        <3>1. 1 \in DOMAIN asked
            BY <1>2, Places
        <3> QED
            BY <3>1 DEF ToSet
    <2>2. ToSet(<<>>) = {}
        BY DEF ToSet
    <2> QED
        BY <1>3, <1>4, <2>1, <2>2
<1>9. ASSUME NEW s \in Sensors, OnItsWay(s)
      PROVE  OnItsWay(s)' \/ data_after'[s] > 0
    <2>1. CASE s \in ToSet(sensor_watch_queue)
        BY <1>3, <1>4, <2>1
    <2>2. CASE s \in ToSet(asked)
        BY <1>3, <1>4, <1>5, <2>2
    <2>3. ASSUME NEW i \in ForThisList, s \in ToSet(commands[i].sensors), i # 1
          PROVE  OnItsWay(s)'
        BY <1>1, <1>4, <2>3, NewerStay
    <2> QED
        BY <1>2, <1>9, <2>1, <2>2, <2>3 DEF OnItsWay
<1>10. \A s \in Sensors : data_after[s] > 0 => data_after'[s] > 0
    <2>1. \A s \in Sensors : data_after[s] \in Int /\ data_after'[s] \in Int
        BY <1>5 DEF Assumptions, BoundsAssumption
    <2> QED
        BY <1>5, <2>1
<1>11. NoSensorLost => NoSensorLost'
    <2>1. ToSet(sensorobjs) \subseteq Sensors /\ sensorobjs' = sensorobjs
        BY <1>1, Members DEF Inv, TypeOK
    <2> QED
        BY <1>9, <1>10, <2>1 DEF NoSensorLost
<1> QED
    BY <1>1, <1>7, <1>8, <1>11 DEF Kept, WatchGoesOn

\* Started by a script in the middle of a callback, the new watch is as good
\* as any: its command is sent before the callback's own.
LEMMA ScriptedKeeps ==
    ASSUME Assumptions, Inv, NEW l \in Lists, ScriptedAnswer(l)
    PROVE  Kept
<1> DEFINE asked == Head(commands).sensors
           g == sensor_watch_generation + 1
           c == [generation |-> g, sensors |-> Batch(l)]
           started == IF l = <<>> THEN <<>> ELSE <<c>>
           sent == Tail(commands) \o started
           n == Len(Tail(commands)) + 1
<1>1. /\ commands # <<>> /\ sensor_watch_generation < MaxGeneration
      /\ sensorobjs' = l /\ sensor_watch_generation' = g
      /\ Rearm(asked) /\ fresh' = ToSet(asked)
      /\ UNCHANGED <<delayed, sync>>
    BY DEF ScriptedAnswer, Current, MayAct
<1>2. PICK k \in 1 .. Len(asked) :
          sensor_watch_cmd(Requeue(Remaining(l), SubSeq(asked, k, Len(asked))), sent, g)
    BY DEF ScriptedAnswer
<1> DEFINE q == Requeue(Remaining(l), SubSeq(asked, k, Len(asked)))
<1>3. /\ asked \in Seq(Sensors) /\ Tail(commands) \in Seq(Commands) /\ g \in Generations
      /\ \A i \in DOMAIN Tail(commands) : Tail(commands)[i].sensors # <<>>
      /\ l \in Seq(Sensors)
    <2>1. /\ asked \in Seq(Sensors) /\ Tail(commands) \in Seq(Commands)
          /\ \A i \in DOMAIN Tail(commands) : Tail(commands)[i].sensors # <<>>
        BY <1>1, OldestCommand DEF Commands
    <2>2. g \in Generations
        BY <1>1 DEF Assumptions, BoundsAssumption, Inv, TypeOK, Generations
    <2>3. l \in Seq(Sensors)
        BY DEF Assumptions, ListsAssumption
    <2> QED
        BY <2>1, <2>2, <2>3
<1>4. /\ Batch(l) \in Seq(Sensors) /\ Remaining(l) \in Seq(Sensors)
      /\ ToSet(l) = ToSet(Batch(l)) \cup ToSet(Remaining(l))
      /\ l # <<>> => Batch(l) # <<>>
    BY <1>3, SplitQueue DEF Assumptions
<1>5. c \in Commands /\ c.generation = g /\ c.sensors = Batch(l)
    BY <1>3, <1>4 DEF Commands
<1> HIDE DEF asked, g, c
<1>6. q \in Seq(Sensors) /\ ToSet(Remaining(l)) \subseteq ToSet(q)
    <2>1. Len(asked) \in Nat
        BY <1>3, LenProperties
    <2>2. k \in 1 .. Len(asked) + 1 /\ Len(asked) \in 0 .. Len(asked)
        BY <2>1
    <2>3. SubSeq(asked, k, Len(asked)) \in Seq(Sensors)
        BY <1>3, <2>2, CutSensors
    <2> QED
        BY <1>4, <2>3, RequeueCovers
<1>7. /\ sent \in Seq(Commands)
      /\ \A i \in DOMAIN sent : sent[i].sensors # <<>>
      /\ l # <<>> => n \in DOMAIN sent /\ sent[n] = c
    <2>1. CASE l = <<>>
        BY <1>3, <2>1, ConcatProperties, ConcatEmptySeq
    <2>2. CASE l # <<>>
        <3>1. <<c>> \in Seq(Commands) /\ Len(<<c>>) = 1 /\ <<c>>[1] = c
            BY <1>5
        <3>2. /\ sent \in Seq(Commands) /\ Len(sent) = Len(Tail(commands)) + 1
              /\ \A i \in 1 .. Len(Tail(commands)) + 1 :
                    sent[i] = IF i <= Len(Tail(commands)) THEN Tail(commands)[i]
                              ELSE <<c>>[i - Len(Tail(commands))]
            BY <1>3, <2>2, <3>1, ConcatProperties
        <3>3. /\ Len(Tail(commands)) \in Nat
              /\ DOMAIN Tail(commands) = 1 .. Len(Tail(commands)) /\ DOMAIN sent = 1 .. n
            BY <1>3, <3>2, LenProperties
        <3>4. n \in 1 .. n /\ sent[n] = c
            BY <3>1, <3>2, <3>3
        <3>5. \A i \in 1 .. n :
                  i = n \/ (i \in 1 .. Len(Tail(commands)) /\ sent[i] = Tail(commands)[i])
            BY <3>2, <3>3
        <3> QED
            BY <1>3, <1>4, <1>5, <2>2, <3>2, <3>3, <3>4, <3>5
    <2> QED
        BY <2>1, <2>2
<1> HIDE DEF q, sent, n
<1>8. /\ sensor_watch_queue' \in Seq(Sensors)
      /\ commands' \in Seq(Commands)
      /\ \A i \in DOMAIN sent : i \in DOMAIN commands' /\ commands'[i] = sent[i]
      /\ \A i \in DOMAIN commands' : commands'[i].sensors # <<>>
      /\ \A s \in ToSet(q) : OnItsWay(s)'
    <2>1. LimitAssumption /\ sensor_watch_cmd(q, sent, g)
        BY <1>2 DEF Assumptions, q
    <2> QED
        BY <1>1, <1>3, <1>6, <1>7, <2>1, CommandCovers
<1>9. l # <<>> => n \in ForThisList' /\ commands'[n].sensors = Batch(l)
    BY <1>1, <1>5, <1>7, <1>8 DEF ForThisList
<1>10. WatchGoesOn' /\ NoSensorLost'
    <2>1. CASE l = <<>>
        BY <1>1, <2>1 DEF WatchGoesOn, NoSensorLost, ToSet
    <2>2. CASE l # <<>>
        <3>1. \A s \in ToSet(Batch(l)) : OnItsWay(s)'
            BY <1>9, <2>2 DEF OnItsWay
        <3> QED
            BY <1>1, <1>4, <1>6, <1>8, <1>9, <2>2, <3>1 DEF WatchGoesOn, NoSensorLost
    <2> QED
        BY <2>1, <2>2
<1>11. data_after' \in [Sensors -> 0 .. MaxTimers]
    BY <1>1, <1>3, RearmCounts DEF Assumptions, Inv, TypeOK
<1>12. fresh' \subseteq Sensors
    BY <1>1, <1>3, Members
<1>13. Inv'
    BY <1>1, <1>3, <1>8, <1>11, <1>12 DEF Inv, TypeOK, Commands, Generations
<1> QED
    BY <1>10, <1>13 DEF Kept

\* A timer puts its sensor back.
LEMMA DataAfterKeeps ==
    ASSUME Assumptions, Inv, NEW s \in Sensors, DataAfter(s)
    PROVE  Kept
<1>1. /\ data_after[s] > 0
      /\ data_after' = [data_after EXCEPT ![s] = @ - 1]
      /\ sensor_watch_queue' = Append(sensor_watch_queue, s)
      /\ fresh' = {}
      /\ UNCHANGED <<delayed, sensorobjs, sensor_watch_generation, commands, sync>>
    BY DEF DataAfter
<1>2. sensor_watch_queue \in Seq(Sensors) /\ data_after \in [Sensors -> 0 .. MaxTimers]
    BY DEF Inv, TypeOK
<1>3. /\ sensor_watch_queue' \in Seq(Sensors)
      /\ Len(sensor_watch_queue') = Len(sensor_watch_queue) + 1
      /\ \A i \in 1 .. Len(sensor_watch_queue) : sensor_watch_queue'[i] = sensor_watch_queue[i]
      /\ sensor_watch_queue'[Len(sensor_watch_queue) + 1] = s
    BY <1>1, <1>2, AppendProperties
<1>4. /\ Len(sensor_watch_queue) \in Nat
      /\ DOMAIN sensor_watch_queue = 1 .. Len(sensor_watch_queue)
      /\ DOMAIN sensor_watch_queue' = 1 .. Len(sensor_watch_queue) + 1
    BY <1>2, <1>3, LenProperties
<1>5. /\ ToSet(sensor_watch_queue) \subseteq ToSet(sensor_watch_queue')
      /\ s \in ToSet(sensor_watch_queue')
    <2>1. Len(sensor_watch_queue) + 1 \in DOMAIN sensor_watch_queue'
        BY <1>4
    <2>2. \A i \in DOMAIN sensor_watch_queue : i \in DOMAIN sensor_watch_queue'
        BY <1>4
    <2> QED
        BY <1>3, <1>4, <2>1, <2>2 DEF ToSet
<1>6. data_after' \in [Sensors -> 0 .. MaxTimers]
    <2>1. data_after[s] \in 0 .. MaxTimers
        BY <1>2
    <2>2. data_after[s] - 1 \in 0 .. MaxTimers
        BY <1>1, <2>1 DEF Assumptions, BoundsAssumption
    <2> QED
        BY <1>1, <1>2, <2>2
<1>7. \A r \in Sensors : data_after[r] > 0 =>
          data_after'[r] > 0 \/ r \in ToSet(sensor_watch_queue')
    BY <1>1, <1>2, <1>5
<1>8. Inv'
    BY <1>1, <1>3, <1>6 DEF Inv, TypeOK
<1> QED
    BY <1>1, <1>5, <1>7, <1>8, SameWatch DEF Kept

LEMMA StutterKeeps ==
    ASSUME Assumptions, Inv, UNCHANGED vars
    PROVE  Kept
<1>1. Inv'
    BY DEF vars, Inv, TypeOK
<1> QED
    BY <1>1, SameWatch DEF vars, Kept

LEMMA StepKeeps ==
    ASSUME Assumptions, Inv, [Next]_vars
    PROVE  Kept
<1>1. CASE \E l \in Lists : set_sensor_list_num(l)
    BY <1>1, SetKeeps
<1>2. CASE \E l \in Lists : add_sensor_list_num(l)
    BY <1>2, AddKeeps
<1>3. CASE Restart
    BY <1>3, RestartKeeps
<1>4. CASE \E l \in Lists : sensor_update_by_object_sync(l)
    BY <1>4, SyncStartKeeps
<1>5. CASE SyncAnswer \/ SyncError
    BY <1>5, SyncKeeps
<1>6. CASE ErrorAnswer
    BY <1>6, ErrorKeeps
<1>7. CASE DroppedAnswer
    BY <1>7, DroppedKeeps
<1>8. CASE GoodAnswer
    BY <1>8, GoodKeeps
<1>9. CASE FailedUpdate
    BY <1>9, FailedKeeps
<1>10. CASE \E l \in Lists : ScriptedAnswer(l)
    BY <1>10, ScriptedKeeps
<1>11. CASE \E s \in Sensors : DataAfter(s)
    BY <1>11, DataAfterKeeps
<1>12. CASE UNCHANGED vars
    BY <1>12, StutterKeeps
<1> QED
    BY <1>1, <1>2, <1>3, <1>4, <1>5, <1>6, <1>7, <1>8, <1>9, <1>10, <1>11, <1>12 DEF Next

-----------------------------------------------------------------------------
(* The theorems *)

\* The assumptions on the constants.
LEMMA TheAssumptions == Assumptions
BY LimitAssumption, ListsAssumption, BoundsAssumption DEF Assumptions

\* No call of a user or script and no answer, good or bad, leaves a command
\* without sensors or a queue of anything but sensors (sensor_watch_cmd).
THEOREM WatchInvariant == Spec => []Inv
<1>1. Init => Inv
    BY InitInv, TheAssumptions
<1>2. Inv /\ [Next]_vars => Inv'
    BY StepKeeps, TheAssumptions DEF Kept
<1> QED
    BY <1>1, <1>2, PTL DEF Spec

\* The state of the watch has its type.
THEOREM WatchTyped == Spec => []TypeOK
<1>1. Inv => TypeOK
    BY DEF Inv
<1> QED
    BY <1>1, WatchInvariant, PTL

\* sensor_watch_callback and all other handlers keep the watch going, except
\* for a bad answer and for a good one to a delayed host.
THEOREM OnlyBadAnswersEndTheWatch == Spec => OnlyBadAnswersEndWatch
<1>1. Inv /\ [Next]_vars => [WatchGoesOn' \/ ~WatchGoesOn \/ delayed \/ BadAnswer]_vars
    BY StepKeeps, TheAssumptions DEF Kept
<1> QED
    BY <1>1, WatchInvariant, PTL DEF Spec, OnlyBadAnswersEndWatch

\* No handler but a bad answer's takes a watched sensor out of the round.
THEOREM OnlyBadAnswersLoseASensor == Spec => OnlyBadAnswersLoseSensors
<1>1. Inv /\ [Next]_vars => [NoSensorLost' \/ ~NoSensorLost \/ BadAnswer]_vars
    BY StepKeeps, TheAssumptions DEF Kept
<1> QED
    BY <1>1, WatchInvariant, PTL DEF Spec, OnlyBadAnswersLoseSensors

\* sensor_watch_start gets all watched sensors going, whatever went before.
THEOREM RestartRepairsTheWatch == Spec => RestartRepairs
<1>1. Inv /\ [Next]_vars =>
          [Restart \/ sensor_watch_generation' # sensor_watch_generation
              => WatchGoesOn' /\ NoSensorLost']_vars
    BY StepKeeps, RestartKeeps, TheAssumptions DEF Kept
<1> QED
    BY <1>1, WatchInvariant, PTL DEF Spec, RestartRepairs
-----------------------------------------------------------------------------
(* The round without faults *)

\* Nothing goes wrong, only users change the list, and the host is none that
\* puts sensors back by a timer.
Calm == Faults = {} /\ Uses = {} /\ Delays \subseteq {FALSE}

Once(q) == \A i, j \in DOMAIN q : q[i] = q[j] => i = j

\* No command is newer than the list, and the sensors of the list, each once,
\* are those in the queue and those of the only command for this list, which
\* is full unless the queue is empty.
InRound ==
    /\ \A i \in DOMAIN commands : commands[i].generation =< sensor_watch_generation
    /\ Once(sensorobjs) /\ Once(sensor_watch_queue)
    /\ \/ ForThisList = {} /\ sensorobjs = <<>> /\ sensor_watch_queue = <<>>
       \/ \E i \in DOMAIN commands :
              /\ ForThisList = {i}
              /\ Once(commands[i].sensors) /\ Len(commands[i].sensors) =< Limit
              /\ Len(commands[i].sensors) = Limit \/ sensor_watch_queue = <<>>
              /\ ToSet(commands[i].sensors) \cap ToSet(sensor_watch_queue) = {}
              /\ ToSet(sensorobjs) = ToSet(commands[i].sensors) \cup ToSet(sensor_watch_queue)

RoundInv ==
    /\ ~delayed /\ sync = <<>> /\ data_after = [s \in Sensors |-> 0]
    /\ InRound

\* A sequence made of two names no sensor twice if and only if neither part
\* does and they share none.
LEMMA OnceConcat ==
    ASSUME NEW p \in Seq(Sensors), NEW q \in Seq(Sensors)
    PROVE  Once(p \o q) <=> Once(p) /\ Once(q) /\ ToSet(p) \cap ToSet(q) = {}
<1> DEFINE c == p \o q
           m == Len(p)
           n == Len(q)
<1>1. /\ m \in Nat /\ n \in Nat /\ DOMAIN p = 1 .. m /\ DOMAIN q = 1 .. n
      /\ DOMAIN c = 1 .. m + n
      /\ \A i \in 1 .. m + n : c[i] = IF i <= m THEN p[i] ELSE q[i - m]
    BY ConcatProperties, LenProperties
<1> HIDE DEF c, m, n
<1>2. \A i \in 1 .. m : i \in 1 .. m + n /\ c[i] = p[i]
    BY <1>1
<1>3. \A i \in 1 .. n : m + i \in 1 .. m + n /\ c[m + i] = q[i]
    BY <1>1
<1>4. ASSUME Once(c)
      PROVE  Once(p) /\ Once(q) /\ ToSet(p) \cap ToSet(q) = {}
    <2>1. \A i, j \in 1 .. m + n : c[i] = c[j] => i = j
        BY <1>1, <1>4 DEF Once
    <2>2. Once(p)
        BY <1>1, <1>2, <2>1 DEF Once
    <2>3. \A i, j \in 1 .. n : q[i] = q[j] => m + i = m + j
        BY <1>3, <2>1
    <2>4. Once(q)
        BY <1>1, <2>3 DEF Once
    <2>5. ASSUME NEW i \in 1 .. m, NEW j \in 1 .. n, p[i] = q[j]
          PROVE  FALSE
        <3>1. i = m + j
            BY <1>2, <1>3, <2>1, <2>5
        <3> QED
            BY <1>1, <3>1
    <2>6. ToSet(p) \cap ToSet(q) = {}
        BY <1>1, <2>5 DEF ToSet
    <2> QED
        BY <2>2, <2>4, <2>6
<1>5. ASSUME Once(p), Once(q), ToSet(p) \cap ToSet(q) = {}
      PROVE  Once(c)
    <2>1. \A i \in 1 .. m, j \in 1 .. n : p[i] # q[j]
        BY <1>1, <1>5 DEF ToSet
    <2>2. /\ \A i, j \in 1 .. m : p[i] = p[j] => i = j
          /\ \A i, j \in 1 .. n : q[i] = q[j] => i = j
        BY <1>1, <1>5 DEF Once
    <2>3. ASSUME NEW i \in 1 .. m + n, NEW j \in 1 .. m + n, c[i] = c[j]
          PROVE  i = j
        <3>1. /\ i <= m => i \in 1 .. m /\ c[i] = p[i]
              /\ ~(i <= m) => i - m \in 1 .. n /\ c[i] = q[i - m]
            BY <1>1
        <3>2. /\ j <= m => j \in 1 .. m /\ c[j] = p[j]
              /\ ~(j <= m) => j - m \in 1 .. n /\ c[j] = q[j - m]
            BY <1>1
        <3>3. CASE i <= m /\ j <= m
            BY <2>2, <2>3, <3>1, <3>2, <3>3
        <3>4. CASE ~(i <= m) /\ ~(j <= m)
            <4>1. i - m = j - m
                BY <2>2, <2>3, <3>1, <3>2, <3>4
            <4> QED
                BY <1>1, <4>1
        <3>5. CASE ~((i <= m) <=> (j <= m))
            BY <2>1, <2>3, <3>1, <3>2, <3>5
        <3> QED
            BY <3>3, <3>4, <3>5
    <2> QED
        BY <1>1, <2>3 DEF Once
<1> QED
    BY <1>4, <1>5 DEF c

LEMMA CommandGenerations ==
    ASSUME NEW sent \in Seq(Commands)
    PROVE  \A i \in DOMAIN sent : sent[i].generation \in Int /\ sent[i].sensors \in Seq(Sensors)
<1>1. \A i \in DOMAIN sent : sent[i] \in Commands
    BY Places
<1> QED
    BY <1>1 DEF Commands, Generations

LEMMA EmptyOnce == Once(<<>>) /\ ToSet(<<>>) = {}
BY DEF Once, ToSet

LEMMA TheOne == \A n : (CHOOSE i \in {n} : TRUE) = n
OBVIOUS

\* A list given to sensor_watch_cmd, or put back in its queue, is in the round
\* when no command for it is under way.
LEMMA CommandRound ==
    ASSUME LimitAssumption, NEW q \in Seq(Sensors), Once(q), NEW sent \in Seq(Commands),
           NEW g \in Generations, \A i \in DOMAIN sent : sent[i].generation < g,
           sensor_watch_cmd(q, sent, g), sensor_watch_generation' = g,
           sensorobjs' \in Seq(Sensors), Once(sensorobjs'), ToSet(sensorobjs') = ToSet(q)
    PROVE  InRound' /\ Ring' = q
<1>0. g \in Int /\ \A i \in DOMAIN sent : sent[i].generation \in Int
    BY CommandGenerations DEF Generations
<1>1. CASE q = <<>>
    <2>1. commands' = sent /\ sensor_watch_queue' = Remaining(q)
        BY <1>1 DEF sensor_watch_cmd
    <2>2. q = Batch(q) \o Remaining(q) /\ Batch(q) \in Seq(Sensors) /\ Remaining(q) \in Seq(Sensors)
        BY SplitQueue
    <2>3. sensor_watch_queue' = <<>>
        <3> DEFINE b == Batch(q)
                   r == Remaining(q)
        <3>1. b \o r = <<>> /\ b \in Seq(Sensors) /\ r \in Seq(Sensors) /\ sensor_watch_queue' = r
            BY <1>1, <2>1, <2>2
        <3> HIDE DEF b, r
        <3> QED
            BY <3>1, ConcatEqualIffEmpty
    <2>4. sensorobjs' = <<>>
        <3>1. 1 \notin DOMAIN sensorobjs'
            BY <1>1, EmptyOnce DEF ToSet
        <3>2. Len(sensorobjs') \in Nat /\ DOMAIN sensorobjs' = 1 .. Len(sensorobjs')
            BY LenProperties
        <3>3. Len(sensorobjs') = 0
            BY <3>1, <3>2
        <3> QED
            BY <3>3, EmptySeq
    <2>5. ForThisList' = {}
        BY <1>0, <2>1 DEF ForThisList
    <2>6. \A i \in DOMAIN commands' : commands'[i].generation =< g
        BY <1>0, <2>1
    <2>7. Ring' = <<>>
        <3>1. <<>> \o <<>> = <<>>
            OBVIOUS
        <3> QED
            BY <2>3, <2>5, <3>1 DEF Ring
    <2> QED
        BY <1>1, <2>3, <2>4, <2>5, <2>6, <2>7, EmptyOnce DEF InRound
<1>2. CASE q # <<>>
    <2> DEFINE c == [generation |-> g, sensors |-> Batch(q)]
               n == Len(sent) + 1
    <2>1. commands' = Append(sent, c) /\ sensor_watch_queue' = Remaining(q)
        BY <1>2 DEF sensor_watch_cmd
    <2>2. /\ Batch(q) \in Seq(Sensors) /\ Remaining(q) \in Seq(Sensors)
          /\ ToSet(q) = ToSet(Batch(q)) \cup ToSet(Remaining(q))
          /\ Len(Batch(q)) =< Limit
          /\ Len(Batch(q)) = Limit \/ Remaining(q) = <<>>
          /\ q = Batch(q) \o Remaining(q)
        BY SplitQueue
    <2>3. /\ Once(Batch(q)) /\ Once(Remaining(q))
          /\ ToSet(Batch(q)) \cap ToSet(Remaining(q)) = {}
        <3> DEFINE b == Batch(q)
                   r == Remaining(q)
        <3>1. q = b \o r /\ b \in Seq(Sensors) /\ r \in Seq(Sensors)
            BY <2>2
        <3> HIDE DEF b, r
        <3>2. Once(b \o r)
            BY <3>1
        <3>3. Once(b) /\ Once(r) /\ ToSet(b) \cap ToSet(r) = {}
            BY <3>1, <3>2, OnceConcat
        <3> QED
            BY <3>3 DEF b, r
    <2>4. c \in Commands /\ c.generation = g /\ c.sensors = Batch(q)
        BY <2>2 DEF Commands
    <2> HIDE DEF c
    <2>5. /\ Len(commands') = n
          /\ \A i \in 1 .. Len(sent) : commands'[i] = sent[i]
          /\ commands'[n] = c
          /\ commands' \in Seq(Commands)
        BY <2>1, <2>4, AppendProperties
    <2>6. Len(sent) \in Nat /\ DOMAIN sent = 1 .. Len(sent) /\ DOMAIN commands' = 1 .. n
        BY <2>5, LenProperties
    <2>7. n \in DOMAIN commands' /\ \A i \in DOMAIN commands' : i \in DOMAIN sent \/ i = n
        BY <2>6
    <2>8. \A i \in DOMAIN commands' :
              commands'[i].generation =< g /\ (commands'[i].generation = g <=> i = n)
        <3>1. \A i \in DOMAIN sent : commands'[i].generation < g /\ i # n
            BY <2>5, <2>6
        <3>2. \A i \in DOMAIN sent : commands'[i].generation \in Int
            BY <1>0, <2>5, <2>6
        <3> QED
            BY <1>0, <2>4, <2>5, <2>7, <3>1, <3>2
    <2>9. ForThisList' = {n}
        BY <2>7, <2>8 DEF ForThisList
    <2>10. /\ n \in DOMAIN commands' /\ commands'[n].sensors = Batch(q)
        BY <2>4, <2>5, <2>7
    <2> HIDE DEF n
    <2>11. Ring' = q
        BY <2>1, <2>2, <2>9, <2>10, TheOne DEF Ring
    <2>12. InRound'
        BY <2>1, <2>2, <2>3, <2>8, <2>9, <2>10 DEF InRound
    <2> QED
        BY <2>11, <2>12
<1> QED
    BY <1>1, <1>2

\* Putting sensors on a host without delays back starts no timer.
LEMMA RearmNone ==
    ASSUME NEW objs, Rearm(objs), ~delayed, data_after = [s \in Sensors |-> 0]
    PROVE  data_after' = [s \in Sensors |-> 0]
BY DEF Rearm

\* What add_sensor_list_num puts behind the watched sensors is new.
LEMMA AddedOnce ==
    ASSUME Assumptions, NEW l \in Lists, NEW objs \in Seq(Sensors), Once(objs),
           NEW new, new = {i \in DOMAIN l : l[i] \notin ToSet(objs)},
           NEW place \in [1 .. Cardinality(new) -> new],
           \A i, j \in DOMAIN place : i < j => place[i] < place[j]
    PROVE  LET added == [i \in DOMAIN place |-> l[place[i]]]
           IN  added \in Seq(Sensors) /\ objs \o added \in Seq(Sensors) /\ Once(objs \o added)
<1> DEFINE added == [i \in DOMAIN place |-> l[place[i]]]
<1>1. l \in Seq(Sensors) /\ Once(l)
    BY DEF Assumptions, ListsAssumption, Once
<1>2. Cardinality(new) \in Nat
    <2>1. IsFiniteSet(DOMAIN l)
        BY <1>1, LenProperties, FS_Interval
    <2> QED
        BY <2>1, FS_Subset, FS_CardinalityType
<1>3. \A i \in new : i \in 1 .. Len(l) /\ i \in Int /\ l[i] \in Sensors
    BY <1>1, Places
<1>4. added \in Seq(Sensors)
    <2>1. added \in [1 .. Cardinality(new) -> Sensors]
        BY <1>3
    <2> QED
        BY <1>2, <2>1, SeqDef
<1>5. DOMAIN added = 1 .. Cardinality(new) /\ DOMAIN place = 1 .. Cardinality(new)
    OBVIOUS
<1>6. Once(added)
    <2>1. ASSUME NEW i \in DOMAIN place, NEW j \in DOMAIN place, added[i] = added[j]
          PROVE  i = j
        <3>1. place[i] \in new /\ place[j] \in new /\ l[place[i]] = l[place[j]]
            BY <2>1
        <3>2. place[i] = place[j] /\ place[i] \in Int
            BY <1>1, <1>3, <3>1 DEF Once
        <3>3. i \in Int /\ j \in Int /\ ~(i < j) /\ ~(j < i)
            BY <1>2, <1>5, <3>2
        <3> QED
            BY <3>3
    <2> QED
        BY <1>5, <2>1 DEF Once
<1>7. ToSet(objs) \cap ToSet(added) = {}
    BY <1>5 DEF ToSet
<1> HIDE DEF added
<1>8. objs \o added \in Seq(Sensors) /\ Once(objs \o added)
    BY <1>4, <1>6, <1>7, ConcatMembers, OnceConcat
<1> QED
    BY <1>4, <1>8 DEF added

\* A new list begins a round of its own.
LEMMA NewListRound ==
    ASSUME Assumptions, Inv, InRound, NEW objs \in Seq(Sensors), Once(objs), MayAct,
           NewGeneration(objs, commands)
    PROVE  InRound' /\ Ring' = objs
<1>1. commands \in Seq(Commands) /\ sensor_watch_generation + 1 \in Generations
      /\ sensor_watch_generation \in Int
    BY DEF Assumptions, BoundsAssumption, Inv, TypeOK, Commands, Generations, MayAct
<1>2. \A i \in DOMAIN commands : commands[i].generation < sensor_watch_generation + 1
    <2>1. \A i \in DOMAIN commands : commands[i].generation \in Int
        BY <1>1, CommandGenerations
    <2> QED
        BY <1>1, <2>1 DEF InRound
<1>3. /\ sensor_watch_cmd(objs, commands, sensor_watch_generation + 1)
      /\ sensor_watch_generation' = sensor_watch_generation + 1 /\ sensorobjs' = objs
    BY DEF NewGeneration, sensor_watch_start
<1> DEFINE g == sensor_watch_generation + 1
<1>4. g \in Generations /\ (\A i \in DOMAIN commands : commands[i].generation < g)
      /\ sensor_watch_cmd(objs, commands, g) /\ sensor_watch_generation' = g
    BY <1>1, <1>2, <1>3
<1> HIDE DEF g
<1> QED
    BY <1>1, <1>3, <1>4, CommandRound DEF Assumptions

\* The answer for this list puts its sensors behind the queue.
LEMMA GoodRound ==
    ASSUME Assumptions, Inv, InRound, ~delayed, GoodAnswer
    PROVE  InRound' /\ Ring' = sensor_watch_queue \o Head(commands).sensors
<1> DEFINE asked == Head(commands).sensors
           q == sensor_watch_queue \o asked
           g == sensor_watch_generation
<1>1. /\ Current /\ commands # <<>>
      /\ sensor_watch_cmd(q, Tail(commands), g)
      /\ UNCHANGED <<sensorobjs, sensor_watch_generation>>
    BY DEF GoodAnswer, Current, Requeue
<1>2. /\ sensor_watch_queue \in Seq(Sensors) /\ asked \in Seq(Sensors)
      /\ Tail(commands) \in Seq(Commands) /\ g \in Generations
      /\ sensorobjs \in Seq(Sensors)
      /\ 1 \in DOMAIN commands /\ commands[1] = Head(commands)
    BY <1>1, OldestCommand DEF Commands, Generations, Inv, TypeOK
<1>3. 1 \in ForThisList
    BY <1>1, <1>2 DEF Current, ForThisList
<1>4. /\ ForThisList = {1}
      /\ Once(asked) /\ Once(sensor_watch_queue) /\ Once(sensorobjs)
      /\ ToSet(asked) \cap ToSet(sensor_watch_queue) = {}
      /\ ToSet(sensorobjs) = ToSet(asked) \cup ToSet(sensor_watch_queue)
    BY <1>2, <1>3 DEF InRound
<1> HIDE DEF asked
<1>5. q \in Seq(Sensors) /\ Once(q) /\ ToSet(q) = ToSet(sensorobjs)
    BY <1>2, <1>4, ConcatMembers, OnceConcat
<1>6. \A i \in DOMAIN Tail(commands) : Tail(commands)[i].generation < g
    <2>1. ASSUME NEW i \in DOMAIN Tail(commands)
          PROVE  i + 1 \in DOMAIN commands /\ i + 1 # 1 /\ commands[i + 1] = Tail(commands)[i]
        <3>1. commands \in Seq(Commands)
            BY DEF Inv, TypeOK, Commands, Generations
        <3>2. /\ Len(Tail(commands)) = Len(commands) - 1
              /\ \A k \in 1 .. Len(Tail(commands)) : Tail(commands)[k] = commands[k + 1]
            BY <1>1, <3>1, HeadTailProperties
        <3>3. /\ Len(commands) \in Nat /\ DOMAIN commands = 1 .. Len(commands)
              /\ DOMAIN Tail(commands) = 1 .. Len(Tail(commands))
            BY <1>2, <3>1, LenProperties
        <3> QED
            BY <3>2, <3>3
    <2>2. ASSUME NEW i \in DOMAIN Tail(commands)
          PROVE  /\ Tail(commands)[i].generation =< g
                 /\ Tail(commands)[i].generation # g
                 /\ Tail(commands)[i].generation \in Int
        <3>1. i + 1 \in DOMAIN commands /\ i + 1 \notin ForThisList
            BY <1>4, <2>1
        <3>2. Tail(commands)[i] \in Commands
            BY <1>2, Places
        <3> QED
            BY <2>1, <3>1, <3>2 DEF InRound, ForThisList, Commands, Generations
    <2>3. g \in Int
        BY <1>2 DEF Generations
    <2> HIDE DEF g
    <2> QED
        BY <2>2, <2>3
<1> HIDE DEF q
<1>7. sensor_watch_generation' = g /\ sensorobjs' = sensorobjs
    BY <1>1
<1> HIDE DEF g
<1>8. InRound' /\ Ring' = q
    BY <1>1, <1>2, <1>4, <1>5, <1>6, <1>7, CommandRound DEF Assumptions
<1> QED
    BY <1>8 DEF q, asked

\* An answer for an earlier list leaves this list's command where it is.
LEMMA StaleRound ==
    ASSUME Assumptions, Inv, InRound, ~Current, DroppedAnswer
    PROVE  InRound' /\ Ring' = Ring
<1>1. /\ commands # <<>> /\ commands' = Tail(commands)
      /\ UNCHANGED <<sensorobjs, sensor_watch_queue, sensor_watch_generation>>
    BY DEF DroppedAnswer
<1>2. commands \in Seq(Commands)
    BY DEF Inv, TypeOK, Commands, Generations
<1>3. /\ Len(commands') = Len(commands) - 1
      /\ \A i \in 1 .. Len(commands') : commands'[i] = commands[i + 1]
      /\ Head(commands) = commands[1]
      /\ commands' \in Seq(Commands)
    BY <1>1, <1>2, HeadTailProperties
<1>4. /\ Len(commands) \in Nat /\ DOMAIN commands = 1 .. Len(commands)
      /\ DOMAIN commands' = 1 .. Len(commands')
    BY <1>2, <1>3, LenProperties
<1>5. \A i \in DOMAIN commands' : i + 1 \in DOMAIN commands /\ commands'[i] = commands[i + 1]
    BY <1>3, <1>4
<1>6. \A i \in DOMAIN commands :
          i = 1 \/ (i - 1 \in DOMAIN commands' /\ commands'[i - 1] = commands[i])
    <2>1. ASSUME NEW i \in 1 .. Len(commands), i # 1
          PROVE  i - 1 \in 1 .. Len(commands') /\ i - 1 + 1 = i
        BY <1>3, <1>4, <2>1
    <2> QED
        BY <1>3, <1>4, <2>1
<1>7. 1 \notin ForThisList
    BY <1>1, <1>3 DEF ForThisList, Current
<1>8. \A i \in DOMAIN commands' : commands'[i].generation =< sensor_watch_generation'
    BY <1>1, <1>5 DEF InRound
<1>9. \A i \in ForThisList' : i + 1 \in ForThisList /\ i \in Int
    BY <1>1, <1>4, <1>5 DEF ForThisList
<1>10. CASE ForThisList = {}
    <2>1. ForThisList' = {}
        BY <1>9, <1>10
    <2>2. InRound'
        BY <1>1, <1>8, <1>10, <2>1 DEF InRound
    <2> QED
        BY <1>1, <1>10, <2>1, <2>2 DEF Ring
<1>11. CASE ForThisList # {}
    <2>1. PICK i \in DOMAIN commands :
              /\ ForThisList = {i}
              /\ Once(commands[i].sensors) /\ Len(commands[i].sensors) =< Limit
              /\ Len(commands[i].sensors) = Limit \/ sensor_watch_queue = <<>>
              /\ ToSet(commands[i].sensors) \cap ToSet(sensor_watch_queue) = {}
              /\ ToSet(sensorobjs) = ToSet(commands[i].sensors) \cup ToSet(sensor_watch_queue)
        BY <1>11 DEF InRound
    <2>2. i - 1 \in DOMAIN commands' /\ commands'[i - 1] = commands[i]
        BY <1>6, <1>7, <2>1
    <2>3. i - 1 \in ForThisList'
        BY <1>1, <2>1, <2>2 DEF ForThisList
    <2>4. \A k \in ForThisList' : k = i - 1
        <3>1. \A k \in ForThisList' : k + 1 = i /\ k \in Int
            BY <1>9, <2>1
        <3>2. i \in Int
            BY <1>4
        <3> QED
            BY <3>1, <3>2
    <2>5. ForThisList' = {i - 1}
        BY <2>3, <2>4
    <2>6. InRound'
        BY <1>1, <1>8, <2>1, <2>2, <2>5 DEF InRound
    <2>7. Ring' = Ring
        <3>1. Ring = commands[i].sensors \o sensor_watch_queue
            BY <2>1, TheOne DEF Ring
        <3>2. Ring' = commands'[i - 1].sensors \o sensor_watch_queue'
            <4> DEFINE k == i - 1
            <4>1. ForThisList' = {k} /\ ForThisList' # {}
                BY <2>5
            <4> HIDE DEF k
            <4>2. Ring' = commands'[k].sensors \o sensor_watch_queue'
                BY <4>1, TheOne DEF Ring
            <4> QED
                BY <4>2 DEF k
        <3> QED
            BY <1>1, <2>2, <3>1, <3>2
    <2> QED
        BY <2>6, <2>7
<1> QED
    BY <1>10, <1>11

LEMMA InitRound ==
    ASSUME Calm, Init
    PROVE  RoundInv
<1>1. DOMAIN <<>> = {}
    OBVIOUS
<1>2. commands = <<>> /\ sensorobjs = <<>> /\ sensor_watch_queue = <<>> /\ sync = <<>>
      /\ data_after = [s \in Sensors |-> 0] /\ ~delayed
    BY DEF Init, Calm
<1>3. ForThisList = {}
    BY <1>1, <1>2 DEF ForThisList
<1> QED
    BY <1>1, <1>2, <1>3, EmptyOnce DEF RoundInv, InRound

\* Without faults, one step for each handler that can still run.
LEMMA StepRound ==
    ASSUME Calm, Assumptions, Inv, RoundInv, [Next]_vars
    PROVE  RoundInv'
<1>1. /\ InRound /\ ~delayed /\ sync = <<>> /\ data_after = [s \in Sensors |-> 0]
      /\ sensorobjs \in Seq(Sensors)
      /\ Faults = {} /\ Uses = {}
    BY DEF RoundInv, Calm, Inv, TypeOK
<1>2. ASSUME NEW l \in Lists, set_sensor_list_num(l)
      PROVE  RoundInv'
    <2>1. l \in Seq(Sensors) /\ Once(l)
        BY DEF Assumptions, ListsAssumption, Once
    <2>2. MayAct /\ NewGeneration(l, commands) /\ UNCHANGED <<delayed, data_after, sync>>
        BY <1>2 DEF set_sensor_list_num
    <2>3. InRound'
        BY <1>1, <2>1, <2>2, NewListRound
    <2> QED
        BY <1>1, <2>2, <2>3 DEF RoundInv
<1>3. ASSUME NEW l \in Lists, add_sensor_list_num(l)
      PROVE  RoundInv'
    <2> DEFINE new == {i \in DOMAIN l : l[i] \notin ToSet(sensorobjs)}
    <2>1. MayAct /\ UNCHANGED <<delayed, data_after, sync>>
        BY <1>3 DEF add_sensor_list_num
    <2>2. PICK place \in [1 .. Cardinality(new) -> new] :
              /\ \A i, j \in DOMAIN place : i < j => place[i] < place[j]
              /\ NewGeneration(sensorobjs \o [i \in DOMAIN place |-> l[place[i]]], commands)
        BY <1>3 DEF add_sensor_list_num
    <2> DEFINE objs == sensorobjs \o [i \in DOMAIN place |-> l[place[i]]]
    <2>3. Once(sensorobjs) /\ new = {i \in DOMAIN l : l[i] \notin ToSet(sensorobjs)}
        BY <1>1 DEF InRound
    <2>4. NewGeneration(objs, commands)
        BY <2>2
    <2> HIDE DEF new
    <2>5. objs \in Seq(Sensors) /\ Once(objs)
        BY <1>1, <2>2, <2>3, AddedOnce
    <2> HIDE DEF objs
    <2>6. InRound'
        BY <1>1, <2>1, <2>4, <2>5, NewListRound
    <2> QED
        BY <1>1, <2>1, <2>6 DEF RoundInv
<1>4. CASE GoodAnswer
    <2>1. InRound'
        BY <1>1, <1>4, GoodRound
    <2>2. UNCHANGED <<delayed, sync>> /\ Rearm(Head(commands).sensors)
        BY <1>4 DEF GoodAnswer
    <2> QED
        BY <1>1, <2>1, <2>2, RearmNone DEF RoundInv
<1>5. CASE DroppedAnswer
    <2>1. ~Current /\ UNCHANGED <<delayed, sync, data_after>>
        BY <1>1, <1>5 DEF DroppedAnswer, Current
    <2>2. InRound'
        BY <1>1, <1>5, <2>1, StaleRound
    <2> QED
        BY <1>1, <2>1, <2>2 DEF RoundInv
<1>6. ~Restart /\ ~SyncAnswer /\ ~SyncError /\ ~ErrorAnswer /\ ~FailedUpdate
    BY <1>1 DEF Restart, SyncAnswer, SyncError, ErrorAnswer, FailedUpdate
<1>7. /\ \A l \in Lists : ~sensor_update_by_object_sync(l) /\ ~ScriptedAnswer(l)
      /\ \A s \in Sensors : ~DataAfter(s)
    <2>1. \A l \in Lists : ~sensor_update_by_object_sync(l) /\ ~ScriptedAnswer(l)
        BY <1>1 DEF sensor_update_by_object_sync, ScriptedAnswer
    <2>2. \A s \in Sensors : data_after[s] = 0
        BY <1>1
    <2>3. \A s \in Sensors : ~(data_after[s] > 0)
        BY <2>2
    <2> QED
        BY <2>1, <2>3 DEF DataAfter
<1>8. CASE UNCHANGED vars
    BY <1>8 DEF vars, RoundInv, InRound, ForThisList
<1> QED
    BY <1>2, <1>3, <1>4, <1>5, <1>6, <1>7, <1>8 DEF Next

\* A place where a sensor is, in a sequence that names none twice.
LEMMA OnlyPlace ==
    ASSUME NEW q \in Seq(Sensors), Once(q), NEW s
    PROVE  LET at == {k \in DOMAIN q : q[k] = s}
           IN  /\ s \in ToSet(q) => \E k \in DOMAIN q : at = {k}
               /\ s \notin ToSet(q) => at = {}
<1> DEFINE at == {k \in DOMAIN q : q[k] = s}
<1>1. ASSUME s \in ToSet(q)
      PROVE  \E k \in DOMAIN q : at = {k}
    <2>1. PICK k \in DOMAIN q : q[k] = s
        BY <1>1 DEF ToSet
    <2>2. \A i \in at : i = k
        BY <2>1 DEF Once
    <2> QED
        BY <2>1, <2>2
<1>2. ASSUME s \notin ToSet(q)
      PROVE  at = {}
    BY <1>2 DEF ToSet
<1> QED
    BY <1>1, <1>2

\* The round is what the two properties count.
LEMMA RoundCounts ==
    ASSUME Assumptions, Inv, InRound
    PROVE  OneCommand /\ EverySensorOnce
<1>0. /\ sensor_watch_queue \in Seq(Sensors)
      /\ commands \in Seq(Commands)
      /\ Cardinality({}) = 0 /\ \A x : Cardinality({x}) = 1
    BY FS_EmptySet, FS_Singleton DEF Inv, TypeOK, Commands, Generations
<1>1. OneCommand
    <2>1. ForThisList = {} \/ \E i : ForThisList = {i}
        BY DEF InRound
    <2>2. Cardinality(ForThisList) \in {0, 1}
        BY <1>0, <2>1
    <2> QED
        BY <2>2 DEF OneCommand
<1>2. ASSUME NEW s \in Sensors
      PROVE  Going(s) = IF s \in ToSet(sensorobjs) THEN 1 ELSE 0
    <2> DEFINE waiting == {k \in DOMAIN sensor_watch_queue : sensor_watch_queue[k] = s}
               asked == {p \in ForThisList \X (1 .. Limit) :
                            p[2] \in DOMAIN commands[p[1]].sensors /\ commands[p[1]].sensors[p[2]] = s}
    <2>1. Going(s) = Cardinality(waiting) + Cardinality(asked)
        BY DEF Going
    <2>2. Cardinality(waiting) = IF s \in ToSet(sensor_watch_queue) THEN 1 ELSE 0
        <3>1. Once(sensor_watch_queue)
            BY DEF InRound
        <3>2. /\ s \in ToSet(sensor_watch_queue) => \E k \in DOMAIN sensor_watch_queue : waiting = {k}
              /\ s \notin ToSet(sensor_watch_queue) => waiting = {}
            BY <1>0, <3>1, OnlyPlace
        <3> HIDE DEF waiting
        <3> QED
            BY <1>0, <3>2
    <2>3. CASE ForThisList = {}
        <3>1. asked = {}
            BY <2>3
        <3>2. sensorobjs = <<>> /\ sensor_watch_queue = <<>>
            BY <2>3 DEF InRound
        <3>3. s \notin ToSet(sensorobjs) /\ s \notin ToSet(sensor_watch_queue)
            BY <3>2, EmptyOnce
        <3> HIDE DEF asked, waiting
        <3>4. Cardinality(asked) = 0 /\ Cardinality(waiting) = 0
            BY <1>0, <2>2, <3>1, <3>3
        <3> QED
            BY <2>1, <3>3, <3>4
    <2>4. CASE ForThisList # {}
        <3>1. PICK i \in DOMAIN commands :
                  /\ ForThisList = {i}
                  /\ Once(commands[i].sensors) /\ Len(commands[i].sensors) =< Limit
                  /\ Len(commands[i].sensors) = Limit \/ sensor_watch_queue = <<>>
                  /\ ToSet(commands[i].sensors) \cap ToSet(sensor_watch_queue) = {}
                  /\ ToSet(sensorobjs) = ToSet(commands[i].sensors) \cup ToSet(sensor_watch_queue)
            BY <2>4 DEF InRound
        <3> DEFINE batch == commands[i].sensors
                   at == {k \in DOMAIN batch : batch[k] = s}
        <3>2. batch \in Seq(Sensors)
            BY <1>0, CommandGenerations
        <3>3. DOMAIN batch \subseteq 1 .. Limit
            <4>1. Len(batch) \in Nat /\ DOMAIN batch = 1 .. Len(batch) /\ Len(batch) =< Limit
                BY <3>1, <3>2, LenProperties
            <4>2. Limit \in Int
                BY DEF Assumptions, LimitAssumption
            <4> QED
                BY <4>1, <4>2
        <3>4. /\ s \in ToSet(batch) => \E k \in DOMAIN batch : at = {k}
              /\ s \notin ToSet(batch) => at = {}
            BY <3>1, <3>2, OnlyPlace
        <3>5. asked = {i} \X at
            BY <3>1, <3>3
        <3> HIDE DEF at, asked, waiting
        <3>6. \A k : {i} \X {k} = {<<i, k>>}
            OBVIOUS
        <3>7. {i} \X {} = {}
            OBVIOUS
        <3>8. Cardinality(asked) = IF s \in ToSet(batch) THEN 1 ELSE 0
            <4>1. CASE s \in ToSet(batch)
                <5>1. PICK k \in DOMAIN batch : at = {k}
                    BY <3>4, <4>1
                <5>2. asked = {<<i, k>>}
                    BY <3>5, <3>6, <5>1
                <5> QED
                    BY <1>0, <4>1, <5>2
            <4>2. CASE s \notin ToSet(batch)
                <5>1. asked = {}
                    BY <3>4, <3>5, <3>7, <4>2
                <5> QED
                    BY <1>0, <4>2, <5>1
            <4> QED
                BY <4>1, <4>2
        <3>9. /\ s \in ToSet(sensorobjs) <=> s \in ToSet(batch) \/ s \in ToSet(sensor_watch_queue)
              /\ ~(s \in ToSet(batch) /\ s \in ToSet(sensor_watch_queue))
            BY <3>1
        <3> HIDE DEF batch
        <3>10. CASE s \in ToSet(batch)
            <4>1. Cardinality(asked) = 1 /\ Cardinality(waiting) = 0 /\ s \in ToSet(sensorobjs)
                BY <2>2, <3>8, <3>9, <3>10
            <4> QED
                BY <2>1, <4>1
        <3>11. CASE s \in ToSet(sensor_watch_queue)
            <4>1. Cardinality(asked) = 0 /\ Cardinality(waiting) = 1 /\ s \in ToSet(sensorobjs)
                BY <2>2, <3>8, <3>9, <3>11
            <4> QED
                BY <2>1, <4>1
        <3>12. CASE s \notin ToSet(batch) /\ s \notin ToSet(sensor_watch_queue)
            <4>1. Cardinality(asked) = 0 /\ Cardinality(waiting) = 0 /\ s \notin ToSet(sensorobjs)
                BY <2>2, <3>8, <3>9, <3>12
            <4> QED
                BY <2>1, <4>1
        <3> QED
            BY <3>10, <3>11, <3>12
    <2> QED
        BY <2>3, <2>4
<1> QED
    BY <1>1, <1>2 DEF EverySensorOnce

\* Without faults, changes of the list with commands under way neither end
\* the round nor begin a second one beside it.
THEOREM RoundInvariant ==
    ASSUME Calm
    PROVE  Spec => []RoundInv
<1>1. Init => RoundInv
    BY InitRound
<1>2. Inv /\ RoundInv /\ [Next]_vars => RoundInv'
    BY StepRound, TheAssumptions
<1> QED
    BY <1>1, <1>2, WatchInvariant, PTL DEF Spec

\* "Only have 1 outstanding sensor command at a time", for the list as it is
\* now, whenever and however often it was changed (without faults).
THEOREM OneCommandAtATime ==
    ASSUME Calm
    PROVE  Spec => []OneCommand
<1>1. Inv /\ RoundInv => OneCommand
    BY RoundCounts, TheAssumptions DEF RoundInv
<1> QED
    BY <1>1, RoundInvariant, WatchInvariant, PTL

\* No sensor of the list is asked for more often than another, nor one that
\* is no longer on it (without faults).
THEOREM EverySensorInItsTurn ==
    ASSUME Calm
    PROVE  Spec => []EverySensorOnce
<1>1. Inv /\ RoundInv => EverySensorOnce
    BY RoundCounts, TheAssumptions DEF RoundInv
<1> QED
    BY <1>1, RoundInvariant, WatchInvariant, PTL

-----------------------------------------------------------------------------
(* The rotation *)

\* A full batch in front of a queue, or one with no queue behind it, is what
\* the front of the ring is.
LEMMA FrontIsBatch ==
    ASSUME LimitAssumption, NEW b \in Seq(Sensors), NEW q \in Seq(Sensors),
           b # <<>>, Len(b) =< Limit, Len(b) = Limit \/ q = <<>>
    PROVE  LET r == b \o q
               up == IF Len(r) < Limit THEN Len(r) ELSE Limit
           IN  r # <<>> /\ SubSeq(r, 1, up) = b /\ SubSeq(r, up + 1, Len(r)) = q
<1> DEFINE r == b \o q
           m == Len(b)
           n == Len(q)
           up == IF Len(r) < Limit THEN Len(r) ELSE Limit
<1>1. /\ r \in Seq(Sensors) /\ Len(r) = m + n
      /\ \A i \in 1 .. m + n : r[i] = IF i <= m THEN b[i] ELSE q[i - m]
    BY ConcatProperties
<1>2. /\ m \in Int /\ m > 0 /\ n \in Int /\ n >= 0 /\ Limit \in Int /\ m =< Limit
      /\ q = <<>> <=> n = 0
    BY LenProperties, EmptySeq DEF LimitAssumption
<1>3. DOMAIN b = 1 .. m /\ DOMAIN q = 1 .. n
    BY LenProperties
<1> HIDE DEF m, n, r
<1>4. m = Limit \/ n = 0
    BY <1>2 DEF m
<1>5. up = m
    BY <1>1, <1>2, <1>4
<1> HIDE DEF up
<1>6. SubSeq(r, 1, m) = b
    <2>1. 1 \in Int /\ m \in Int /\ \A i \in 1 .. m : r[i] \in Sensors
        BY <1>1, <1>2, Places
    <2>2. /\ SubSeq(r, 1, m) \in Seq(Sensors)
          /\ Len(SubSeq(r, 1, m)) = m
          /\ \A i \in 1 .. m : SubSeq(r, 1, m)[i] = r[i]
        BY <1>2, <2>1, SubSeqProperties
    <2>3. \A i \in 1 .. m : SubSeq(r, 1, m)[i] = b[i]
        BY <1>1, <1>2, <2>2
    <2> QED
        BY <2>2, <2>3, SeqEqual DEF m
<1>7. SubSeq(r, m + 1, Len(r)) = q
    <2> DEFINE t == SubSeq(r, m + 1, Len(r))
               k == m + 1
    <2>1. k \in Int /\ Len(r) \in Int /\ \A i \in k .. Len(r) : r[i] \in Sensors
        BY <1>1, <1>2, Places
    <2>2. /\ t \in Seq(Sensors)
          /\ Len(t) = IF k <= Len(r) THEN Len(r) - k + 1 ELSE 0
          /\ \A i \in 1 .. Len(r) - k + 1 : t[i] = r[k + i - 1]
        BY <2>1, SubSeqProperties
    <2>3. Len(t) = n
        BY <1>1, <1>2, <2>2
    <2> HIDE DEF t
    <2>4. \A i \in 1 .. n : t[i] = q[i]
        <3>1. ASSUME NEW i \in 1 .. n
              PROVE  t[i] = q[i]
            <4>1. i \in 1 .. Len(r) - k + 1
                BY <1>1, <1>2
            <4>2. PICK j \in 1 .. m + n : j = k + i - 1 /\ ~(j <= m) /\ j - m = i
                BY <1>1, <1>2
            <4>3. t[i] = r[j]
                BY <2>2, <4>1, <4>2
            <4>4. r[j] = q[j - m]
                BY <1>1, <4>2
            <4> QED
                BY <4>2, <4>3, <4>4
        <3> QED
            BY <3>1
    <2> QED
        BY <2>2, <2>3, <2>4, SeqEqual DEF n, t
<1>8. r # <<>>
    BY <1>1, <1>2, EmptySeq
<1> QED
    BY <1>5, <1>6, <1>7, <1>8 DEF r, up

\* The command for this list, if there is one, is for the front of the ring.
LEMMA AskedIsUp ==
    ASSUME Assumptions, Inv, InRound, NEW i \in ForThisList
    PROVE  LET asked == commands[i].sensors
           IN  /\ Ring # <<>> /\ SubSeq(Ring, 1, Round!Up) = asked
               /\ SubSeq(Ring, Round!Up + 1, Len(Ring)) = sensor_watch_queue
<1> DEFINE asked == commands[i].sensors
           q == sensor_watch_queue
           r == asked \o q
           up == IF Len(r) < Limit THEN Len(r) ELSE Limit
<1>1. /\ ForThisList = {i} /\ i \in DOMAIN commands
      /\ Len(asked) =< Limit /\ (Len(asked) = Limit \/ q = <<>>)
    BY DEF InRound, ForThisList
<1>2. asked \in Seq(Sensors) /\ q \in Seq(Sensors) /\ asked # <<>>
    BY <1>1, CommandGenerations DEF Inv, TypeOK, Commands, Generations
<1>3. Ring = r
    BY <1>1, TheOne DEF Ring
<1> HIDE DEF asked, q
<1>4. r # <<>> /\ SubSeq(r, 1, up) = asked /\ SubSeq(r, up + 1, Len(r)) = q
    BY <1>1, <1>2, FrontIsBatch DEF Assumptions
<1>5. Round!Up = up
    BY <1>3 DEF Round!Up
<1> HIDE DEF r, up
<1> QED
    BY <1>3, <1>4, <1>5 DEF asked, q

\* The answer for this list updates the front of the ring and moves it back.
LEMMA GoodTurns ==
    ASSUME Assumptions, Inv, InRound, ~delayed, GoodAnswer
    PROVE  Round!Turn
<1>1. /\ Current /\ commands # <<>> /\ sensorobjs' = sensorobjs
      /\ fresh' = ToSet(Head(commands).sensors)
    BY DEF GoodAnswer, Current
<1>2. 1 \in DOMAIN commands /\ commands[1] = Head(commands)
    BY <1>1, OldestCommand
<1>3. 1 \in ForThisList
    BY <1>1, <1>2 DEF Current, ForThisList
<1>4. /\ Ring # <<>> /\ SubSeq(Ring, 1, Round!Up) = Head(commands).sensors
      /\ SubSeq(Ring, Round!Up + 1, Len(Ring)) = sensor_watch_queue
    BY <1>2, <1>3, AskedIsUp
<1>5. Ring' = sensor_watch_queue \o Head(commands).sensors
    BY GoodRound
<1> QED
    BY <1>1, <1>4, <1>5 DEF Round!Turn, Round!ToSet, ToSet

\* A new list begins a new ring.
LEMMA NewListTurns ==
    ASSUME Assumptions, Inv, InRound, NEW objs \in Seq(Sensors), Once(objs), MayAct,
           NewGeneration(objs, commands), fresh' = {}
    PROVE  Round!NewList
<1>1. Ring' = objs /\ sensorobjs' = objs
    BY NewListRound DEF NewGeneration
<1> QED
    BY <1>1 DEF Round!NewList, Round!IsInjective, Once

\* The ring is made only by steps of RoundRobin.
LEMMA StepTurns ==
    ASSUME Calm, Assumptions, Inv, RoundInv, [Next]_vars
    PROVE  Round!Next \/ UNCHANGED <<sensorobjs, Ring, fresh>>
<1>1. /\ InRound /\ ~delayed /\ sync = <<>> /\ data_after = [s \in Sensors |-> 0]
      /\ sensorobjs \in Seq(Sensors)
      /\ Faults = {} /\ Uses = {}
    BY DEF RoundInv, Calm, Inv, TypeOK
<1>2. ASSUME NEW l \in Lists, set_sensor_list_num(l)
      PROVE  Round!NewList
    <2>1. l \in Seq(Sensors) /\ Once(l)
        BY DEF Assumptions, ListsAssumption, Once
    <2>2. MayAct /\ NewGeneration(l, commands) /\ fresh' = {}
        BY <1>2 DEF set_sensor_list_num
    <2> QED
        BY <1>1, <2>1, <2>2, NewListTurns
<1>3. ASSUME NEW l \in Lists, add_sensor_list_num(l)
      PROVE  Round!NewList
    <2> DEFINE new == {i \in DOMAIN l : l[i] \notin ToSet(sensorobjs)}
    <2>1. MayAct /\ fresh' = {}
        BY <1>3 DEF add_sensor_list_num
    <2>2. PICK place \in [1 .. Cardinality(new) -> new] :
              /\ \A i, j \in DOMAIN place : i < j => place[i] < place[j]
              /\ NewGeneration(sensorobjs \o [i \in DOMAIN place |-> l[place[i]]], commands)
        BY <1>3 DEF add_sensor_list_num
    <2> DEFINE objs == sensorobjs \o [i \in DOMAIN place |-> l[place[i]]]
    <2>3. Once(sensorobjs) /\ new = {i \in DOMAIN l : l[i] \notin ToSet(sensorobjs)}
        BY <1>1 DEF InRound
    <2>4. NewGeneration(objs, commands)
        BY <2>2
    <2> HIDE DEF new
    <2>5. objs \in Seq(Sensors) /\ Once(objs)
        BY <1>1, <2>2, <2>3, AddedOnce
    <2> HIDE DEF objs
    <2> QED
        BY <1>1, <2>1, <2>4, <2>5, NewListTurns
<1>4. CASE GoodAnswer
    BY <1>1, <1>4, GoodTurns DEF Round!Next
<1>5. CASE DroppedAnswer
    <2>1. ~Current /\ fresh' = {} /\ UNCHANGED sensorobjs
        BY <1>1, <1>5 DEF DroppedAnswer, Current
    <2>2. Ring' = Ring
        BY <1>1, <1>5, <2>1, StaleRound
    <2> QED
        BY <2>1, <2>2 DEF Round!Next, Round!Stale
<1>6. ~Restart /\ ~SyncAnswer /\ ~SyncError /\ ~ErrorAnswer /\ ~FailedUpdate
    BY <1>1 DEF Restart, SyncAnswer, SyncError, ErrorAnswer, FailedUpdate
<1>7. /\ \A l \in Lists : ~sensor_update_by_object_sync(l) /\ ~ScriptedAnswer(l)
      /\ \A s \in Sensors : ~DataAfter(s)
    <2>1. \A l \in Lists : ~sensor_update_by_object_sync(l) /\ ~ScriptedAnswer(l)
        BY <1>1 DEF sensor_update_by_object_sync, ScriptedAnswer
    <2>2. \A s \in Sensors : data_after[s] = 0
        BY <1>1
    <2>3. \A s \in Sensors : ~(data_after[s] > 0)
        BY <2>2
    <2> QED
        BY <2>1, <2>3 DEF DataAfter
<1>8. CASE UNCHANGED vars
    <2>1. Ring' = Ring
        BY <1>8 DEF vars, Ring, ForThisList
    <2> QED
        BY <1>8, <2>1 DEF vars
<1> QED
    BY <1>2, <1>3, <1>4, <1>5, <1>6, <1>7, <1>8 DEF Next, Round!Next

LEMMA InitTurns ==
    ASSUME Init
    PROVE  Round!Init
<1>1. /\ commands = <<>> /\ sensor_watch_queue = <<>> /\ sensorobjs = <<>> /\ fresh = {}
      /\ DOMAIN <<>> = {}
    BY DEF Init
<1>2. ForThisList = {}
    BY <1>1 DEF ForThisList
<1>3. <<>> \o <<>> = <<>>
    OBVIOUS
<1> QED
    BY <1>1, <1>2, <1>3 DEF Ring, Round!Init

\* Without faults sensor_watch_callback updates the watched sensors strictly in
\* rotation, a full command at a time, beginning anew with each new list.
THEOREM TheWatchGoesRound ==
    ASSUME Calm
    PROVE  Spec => GoesRound
<1>1. Init => Round!Init
    BY InitTurns
<1>2. Inv /\ RoundInv /\ [Next]_vars => [Round!Next]_<<sensorobjs, Ring, fresh>>
    BY StepTurns, TheAssumptions
<1> QED
    BY <1>1, <1>2, RoundInvariant, WatchInvariant, PTL DEF Spec, GoesRound, Round!Spec

\* The list objs, begun somewhere in its middle and continued at its start.
Turned(ring, objs) ==
    /\ Len(ring) = Len(objs)
    /\ \E k \in 0 .. Len(objs) :
           \A i \in 1 .. Len(objs) :
               ring[i] = objs[IF k + i =< Len(objs) THEN k + i ELSE k + i - Len(objs)]

\* Moving the front of a sequence behind the rest turns it.
LEMMA FrontGoesBack ==
    ASSUME NEW r \in Seq(Sensors), NEW l \in Seq(Sensors), Turned(r, l), NEW u \in 0 .. Len(r)
    PROVE  Turned(SubSeq(r, u + 1, Len(r)) \o SubSeq(r, 1, u), l)
<1> DEFINE n == Len(l)
           a == SubSeq(r, u + 1, Len(r))
           b == SubSeq(r, 1, u)
           c == a \o b
           Place(k, i) == IF k + i =< n THEN k + i ELSE k + i - n
<1>1. n \in Int /\ n >= 0 /\ Len(r) = n /\ u \in Int /\ u >= 0 /\ u =< n
    BY LenProperties DEF Turned
<1> DEFINE m == n - u
           j == u + 1
<1>2. a \in Seq(Sensors) /\ Len(a) = m /\ \A i \in 1 .. m : a[i] = r[Place(u, i)]
    <2>1. j \in Int /\ Len(r) \in Int /\ \A i \in j .. Len(r) : r[i] \in Sensors
        BY <1>1, Places
    <2>2. /\ SubSeq(r, j, Len(r)) \in Seq(Sensors)
          /\ Len(SubSeq(r, j, Len(r))) = IF j <= Len(r) THEN Len(r) - j + 1 ELSE 0
          /\ \A i \in 1 .. Len(r) - j + 1 : SubSeq(r, j, Len(r))[i] = r[j + i - 1]
        BY <2>1, SubSeqProperties
    <2>3. \A i \in 1 .. m : i \in 1 .. Len(r) - j + 1 /\ j + i - 1 = Place(u, i)
        BY <1>1
    <2> QED
        BY <1>1, <2>2, <2>3
<1>3. b \in Seq(Sensors) /\ Len(b) = u /\ \A i \in 1 .. u : b[i] = r[i]
    <2>1. 1 \in Int /\ u \in Int /\ \A i \in 1 .. u : r[i] \in Sensors
        BY <1>1, Places
    <2> QED
        BY <1>1, <2>1, SubSeqProperties
<1> HIDE DEF a, b, m
<1>4. /\ c \in Seq(Sensors) /\ Len(c) = m + u
      /\ \A i \in 1 .. m + u : c[i] = IF i <= m THEN a[i] ELSE b[i - m]
    BY <1>2, <1>3, ConcatProperties
<1>5. m \in Int /\ m = n - u /\ m + u = n
    BY <1>1 DEF m
<1> HIDE DEF c
<1>6. \A i \in 1 .. n : Place(u, i) \in 1 .. n /\ c[i] = r[Place(u, i)]
    <2>1. ASSUME NEW i \in 1 .. n
          PROVE  Place(u, i) \in 1 .. n /\ c[i] = r[Place(u, i)]
        <3>1. Place(u, i) \in 1 .. n
            BY <1>1
        <3>2. CASE i =< m
            <4>1. i \in 1 .. m /\ i \in 1 .. m + u
                BY <1>1, <1>5, <3>2
            <4> QED
                BY <1>2, <1>4, <3>1, <3>2, <4>1
        <3>3. CASE ~(i =< m)
            <4>1. PICK h \in 1 .. u : h = i - m /\ Place(u, i) = h
                BY <1>1, <1>5, <3>3
            <4>2. i \in 1 .. m + u
                BY <1>5
            <4>3. c[i] = b[i - m]
                BY <1>4, <3>3, <4>2
            <4> HIDE DEF Place
            <4> QED
                BY <1>3, <3>1, <4>1, <4>3
        <3> QED
            BY <3>2, <3>3
    <2> QED
        BY <2>1
<1>7. PICK k \in 0 .. n : \A i \in 1 .. n : r[i] = l[Place(k, i)]
    BY DEF Turned
<1> DEFINE t == IF k + u =< n THEN k + u ELSE k + u - n
<1>8. t \in 0 .. n /\ \A i \in 1 .. n : Place(k, Place(u, i)) = Place(t, i)
    BY <1>1
<1>9. \A i \in 1 .. n : c[i] = l[Place(t, i)]
    <2> HIDE DEF Place, t
    <2> QED
        BY <1>6, <1>7, <1>8
<1> HIDE DEF t
<1>10. Turned(c, l)
    BY <1>4, <1>5, <1>8, <1>9 DEF Turned
<1> QED
    BY <1>10 DEF c, a, b

\* So the ring is the list itself, turned.
LEMMA StepTurnsList ==
    ASSUME Assumptions, Inv, Inv', RoundInv, Ring \in Seq(Sensors), Turned(Ring, sensorobjs),
           Round!Next \/ UNCHANGED <<sensorobjs, Ring, fresh>>
    PROVE  Turned(Ring, sensorobjs)'
<1>1. CASE Round!Turn
    <2>1. sensorobjs \in Seq(Sensors)
        BY DEF Inv, TypeOK
    <2>2. Round!Up \in 0 .. Len(Ring)
        <3>1. Len(Ring) \in Nat /\ Limit \in Nat
            BY LenProperties DEF Assumptions, LimitAssumption
        <3> QED
            BY <3>1 DEF Round!Up
    <2>3. Turned(SubSeq(Ring, Round!Up + 1, Len(Ring)) \o SubSeq(Ring, 1, Round!Up), sensorobjs)
        BY <2>1, <2>2, FrontGoesBack
    <2> QED
        BY <1>1, <2>3 DEF Round!Turn, Turned
<1>2. CASE Round!NewList
    <2>1. Ring' = sensorobjs' /\ sensorobjs' \in Seq(Sensors)
        BY <1>2 DEF Round!NewList
    <2>2. PICK l \in Seq(Sensors) : l = sensorobjs' /\ l = Ring'
        BY <2>1
    <2>3. Len(l) \in Int /\ Len(l) >= 0
        BY LenProperties
    <2>4. 0 \in 0 .. Len(l) /\ \A i \in 1 .. Len(l) : 0 + i =< Len(l) /\ 0 + i = i
        BY <2>3
    <2>5. Turned(l, l)
        BY <2>4 DEF Turned
    <2> QED
        BY <2>2, <2>5 DEF Turned
<1>3. CASE Ring' = Ring /\ sensorobjs' = sensorobjs
    BY <1>3 DEF Turned
<1> QED
    BY <1>1, <1>2, <1>3 DEF Round!Next, Round!Stale

\* What is asked for and what waits are sensors.
LEMMA RingTyped ==
    ASSUME Inv, InRound
    PROVE  Ring \in Seq(Sensors)
<1>1. sensor_watch_queue \in Seq(Sensors) /\ commands \in Seq(Commands)
    BY DEF Inv, TypeOK, Commands, Generations
<1>2. CASE ForThisList = {}
    <2>1. Ring = <<>> \o <<>>
        BY <1>2 DEF InRound, Ring
    <2> QED
        BY <2>1
<1>3. CASE ForThisList # {}
    <2>1. PICK i \in DOMAIN commands : ForThisList = {i}
        BY <1>3 DEF InRound
    <2>2. Ring = commands[i].sensors \o sensor_watch_queue
        BY <2>1, TheOne DEF Ring
    <2>3. commands[i].sensors \in Seq(Sensors)
        BY <1>1, <2>1, CommandGenerations
    <2> QED
        BY <1>1, <2>2, <2>3, ConcatMembers
<1> QED
    BY <1>2, <1>3

\* Without faults what is asked for and what waits is always the user's list,
\* turned: no change of the list and no answer ever mixes its order.
THEOREM TheRingIsTheList ==
    ASSUME Calm
    PROVE  Spec => []Turned(Ring, sensorobjs)
<1>1. Init => Turned(Ring, sensorobjs)
    <2>1. ASSUME Round!Init
          PROVE  Turned(Ring, sensorobjs)
        <3>1. Ring = <<>> /\ sensorobjs = <<>> /\ Len(<<>>) = 0
            BY <2>1 DEF Round!Init
        <3> QED
            BY <3>1 DEF Turned
    <2> QED
        BY <2>1, InitTurns
<1>2. Inv /\ Inv' /\ RoundInv /\ Turned(Ring, sensorobjs) /\ [Next]_vars
        => Turned(Ring, sensorobjs)'
    BY StepTurns, StepTurnsList, RingTyped, TheAssumptions DEF RoundInv
<1> QED
    BY <1>1, <1>2, RoundInvariant, WatchInvariant, PTL DEF Spec
=============================================================================
