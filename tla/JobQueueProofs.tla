--------------------------- MODULE JobQueueProofs ---------------------------
(***************************************************************************)
(* Safety of JobQueue, for every set of jobs of whatever kinds, every pool *)
(* and every depth of nesting.  The argument is about who has a machine:   *)
(* freelist, the callbacks of a job that runs, or the callbacks that a     *)
(* job::done on the stack has still to call.  No machine is twice in one   *)
(* of these, nor in two of them (Separate).                                *)
(***************************************************************************)
EXTENDS JobQueue, SequenceTheorems, FiniteSetTheorems, TLAPS

\* The machines of the callbacks of running jobs.
Booked == [j \in Jobs |-> IF status[j] = "running" THEN callbacks[j] ELSE <<>>]

Unused(h, free, booked, stk) ==
    /\ h \notin ToSet(free)
    /\ \A j \in Jobs : h \notin ToSet(booked[j])
    /\ \A i \in DOMAIN stk : h \notin ToSet(stk[i].left)

Separate(free, booked, stk) ==
    /\ IsInjective(free)
    /\ \A j \in Jobs :
        /\ IsInjective(booked[j])
        /\ ToSet(booked[j]) \cap ToSet(free) = {}
        /\ \A k \in Jobs \ {j} : ToSet(booked[j]) \cap ToSet(booked[k]) = {}
    /\ \A i \in DOMAIN stk :
        /\ IsInjective(stk[i].left)
        /\ ToSet(stk[i].left) \cap ToSet(free) = {}
        /\ \A j \in Jobs : ToSet(stk[i].left) \cap ToSet(booked[j]) = {}
        /\ \A k \in DOMAIN stk \ {i} : ToSet(stk[i].left) \cap ToSet(stk[k].left) = {}

JobInv ==
    /\ \A j \in Jobs : status[j] = "running" /\ hosts[j] # None =>
        hosts[j] \in ToSet(callbacks[j])
    /\ \A j \in Jobs : status[j] = "initialized" => callbacks[j] = <<>> /\ hosts[j] = None
    /\ \A j \in pipes : status[j] = "running"

FrameInv == \A i \in DOMAIN stack : stack[i].at # "done" => stack[i].left = <<>>

TimerInv == queue.state = "stopped" <=> queue.run_after = "none"

Inv ==
    /\ TypeOK
    /\ Separate(queue.freelist, Booked, stack)
    /\ JobInv /\ FrameInv /\ TimerInv

-----------------------------------------------------------------------------
(* Sequences *)

LEMMA TailOfInjective ==
    ASSUME NEW S, NEW q \in Seq(S), q # <<>>, IsInjective(q)
    PROVE  /\ Head(q) \in S /\ Head(q) \in ToSet(q)
           /\ Tail(q) \in Seq(S) /\ IsInjective(Tail(q))
           /\ ToSet(Tail(q)) = ToSet(q) \ {Head(q)}
<1>1. /\ Head(q) \in S /\ Tail(q) \in Seq(S) /\ Len(Tail(q)) = Len(q) - 1
      /\ \A i \in 1 .. Len(Tail(q)) : Tail(q)[i] = q[i + 1]
    BY HeadTailProperties
<1>2. DOMAIN q = 1 .. Len(q) /\ DOMAIN Tail(q) = 1 .. Len(Tail(q))
    BY <1>1
<1>3. Len(q) \in Nat /\ Len(q) >= 1 /\ Head(q) = q[1]
    BY DEF Head
<1>4. Head(q) \in ToSet(q)
    BY <1>2, <1>3 DEF ToSet
<1>5. IsInjective(Tail(q))
    BY <1>1, <1>2, <1>3 DEF IsInjective
<1>6. ASSUME NEW x \in ToSet(Tail(q))
      PROVE  x \in ToSet(q) \ {Head(q)}
    <2>1. PICK i \in 1 .. Len(Tail(q)) : x = q[i + 1]
        BY <1>1, <1>2 DEF ToSet
    <2>2. i + 1 \in DOMAIN q /\ 1 \in DOMAIN q /\ i + 1 # 1
        BY <1>1, <1>2, <1>3
    <2> QED
        BY <1>3, <2>1, <2>2 DEF ToSet, IsInjective
<1>7. ASSUME NEW x \in ToSet(q), x # Head(q)
      PROVE  x \in ToSet(Tail(q))
    <2>1. PICK i \in 1 .. Len(q) : x = q[i]
        BY <1>2 DEF ToSet
    <2>2. i - 1 \in 1 .. Len(Tail(q)) /\ (i - 1) + 1 = i
        BY <1>1, <1>3, <1>7, <2>1
    <2>3. Tail(q)[i - 1] = x
        BY <1>1, <2>1, <2>2
    <2> QED
        BY <1>2, <2>2, <2>3 DEF ToSet
<1> QED
    BY <1>1, <1>4, <1>5, <1>6, <1>7

LEMMA AppendToSeq ==
    ASSUME NEW S, NEW q \in Seq(S), NEW x \in S
    PROVE  /\ Append(q, x) \in Seq(S) /\ Append(q, x) # <<>>
           /\ ToSet(Append(q, x)) = ToSet(q) \cup {x}
           /\ DOMAIN Append(q, x) = DOMAIN q \cup {Len(q) + 1}
           /\ Len(q) + 1 \notin DOMAIN q
           /\ \A i \in DOMAIN q : Append(q, x)[i] = q[i]
           /\ Append(q, x)[Len(q) + 1] = x
           /\ Last(Append(q, x)) = x
           /\ IsInjective(q) /\ x \notin ToSet(q) => IsInjective(Append(q, x))
<1>1. /\ Append(q, x) \in Seq(S) /\ Append(q, x) # <<>>
      /\ Len(Append(q, x)) = Len(q) + 1
      /\ \A i \in 1 .. Len(q) : Append(q, x)[i] = q[i]
      /\ Append(q, x)[Len(q) + 1] = x
    BY AppendProperties
<1>2. DOMAIN q = 1 .. Len(q) /\ DOMAIN Append(q, x) = 1 .. Len(q) + 1 /\ Len(q) \in Nat
    BY <1>1
<1>3. DOMAIN Append(q, x) = DOMAIN q \cup {Len(q) + 1} /\ Len(q) + 1 \notin DOMAIN q
    BY <1>2
<1>4. ToSet(Append(q, x)) = ToSet(q) \cup {x}
    BY <1>1, <1>2, <1>3 DEF ToSet
<1>5. Last(Append(q, x)) = x
    BY <1>1 DEF Last
<1>6. IsInjective(q) /\ x \notin ToSet(q) => IsInjective(Append(q, x))
    BY <1>1, <1>2, <1>3 DEF IsInjective, ToSet
<1> QED
    BY <1>1, <1>2, <1>3, <1>4, <1>5, <1>6

LEMMA FrontOfSeq ==
    ASSUME NEW S, NEW q \in Seq(S), q # <<>>
    PROVE  /\ Front(q) \in Seq(S)
           /\ Last(q) \in S /\ Len(q) \in DOMAIN q /\ Last(q) = q[Len(q)]
           /\ DOMAIN Front(q) = DOMAIN q \ {Len(q)}
           /\ \A i \in DOMAIN Front(q) : Front(q)[i] = q[i]
           /\ DOMAIN Front(q) \subseteq DOMAIN q
<1>1. Len(q) \in Nat /\ Len(q) >= 1 /\ DOMAIN q = 1 .. Len(q)
    OBVIOUS
<1>2. /\ Front(q) \in Seq(S) /\ Len(Front(q)) = Len(q) - 1
      /\ \A i \in 1 .. Len(q) - 1 : Front(q)[i] = q[i]
    BY <1>1 DEF Front
<1>3. DOMAIN Front(q) = 1 .. Len(q) - 1
    BY <1>1, <1>2
<1> QED
    BY <1>1, <1>2, <1>3 DEF Last

-----------------------------------------------------------------------------
(* How machines change hands *)

\* A machine is taken off freelist.
LEMMA TakeKeepsSeparate ==
    ASSUME NEW free \in Seq(Hosts), free # <<>>, NEW booked, NEW stk,
           Separate(free, booked, stk)
    PROVE  /\ Separate(Tail(free), booked, stk)
           /\ Unused(Head(free), Tail(free), booked, stk)
<1>1. /\ Head(free) \in ToSet(free) /\ IsInjective(Tail(free))
      /\ ToSet(Tail(free)) = ToSet(free) \ {Head(free)}
    BY TailOfInjective DEF Separate
<1> QED
    BY <1>1 DEF Separate, Unused

\* A machine is put on it.
LEMMA GiveKeepsSeparate ==
    ASSUME NEW free \in Seq(Hosts), NEW h \in Hosts, NEW booked, NEW stk,
           Separate(free, booked, stk), Unused(h, free, booked, stk)
    PROVE  Separate(Append(free, h), booked, stk)
<1>1. ToSet(Append(free, h)) = ToSet(free) \cup {h}
    BY AppendToSeq
<1>2. IsInjective(Append(free, h))
    BY AppendToSeq DEF Separate, Unused
<1> QED
    BY <1>1, <1>2 DEF Separate, Unused

\* A running job is given a machine.
LEMMA BookKeepsSeparate ==
    ASSUME NEW free, NEW booked \in [Jobs -> Seq(Hosts)], NEW stk, NEW j \in Jobs,
           NEW h \in Hosts, Separate(free, booked, stk), Unused(h, free, booked, stk)
    PROVE  Separate(free, [booked EXCEPT ![j] = Append(booked[j], h)], stk)
<1> DEFINE b == [booked EXCEPT ![j] = Append(booked[j], h)]
<1>1. booked[j] \in Seq(Hosts) /\ IsInjective(booked[j]) /\ h \notin ToSet(booked[j])
    BY DEF Separate, Unused
<1>2. IsInjective(Append(booked[j], h)) /\ ToSet(Append(booked[j], h)) = ToSet(booked[j]) \cup {h}
    BY <1>1, AppendToSeq
<1>3. b[j] = Append(booked[j], h) /\ \A k \in Jobs \ {j} : b[k] = booked[k]
    OBVIOUS
<1> HIDE DEF b
<1>4. /\ IsInjective(b[j]) /\ ToSet(b[j]) = ToSet(booked[j]) \cup {h}
    BY <1>2, <1>3
<1>5. ASSUME NEW k \in Jobs
      PROVE  /\ IsInjective(b[k])
             /\ ToSet(b[k]) \cap ToSet(free) = {}
             /\ \A i \in DOMAIN stk : ToSet(stk[i].left) \cap ToSet(b[k]) = {}
    <2>1. CASE k = j
        BY <2>1, <1>4 DEF Separate, Unused
    <2>2. CASE k # j
        BY <2>2, <1>3 DEF Separate
    <2> QED
        BY <2>1, <2>2
<1>6. ASSUME NEW k \in Jobs, NEW l \in Jobs \ {k}
      PROVE  ToSet(b[k]) \cap ToSet(b[l]) = {}
    <2>0. ToSet(booked[k]) \cap ToSet(booked[l]) = {}
        BY DEF Separate
    <2>1. CASE k = j
        BY <2>0, <2>1, <1>3, <1>4 DEF Unused
    <2>2. CASE l = j
        BY <2>0, <2>2, <1>3, <1>4 DEF Unused
    <2>3. CASE k # j /\ l # j
        BY <2>0, <2>3, <1>3
    <2> QED
        BY <2>1, <2>2, <2>3
<1>7. Separate(free, b, stk)
    BY <1>5, <1>6 DEF Separate
<1> QED
    BY <1>7 DEF b

\* A job ends: its machines are nobody else's.
LEMMA UnbookKeepsSeparate ==
    ASSUME NEW free, NEW booked \in [Jobs -> Seq(Hosts)], NEW stk, NEW j \in Jobs,
           Separate(free, booked, stk)
    PROVE  /\ Separate(free, [booked EXCEPT ![j] = <<>>], stk)
           /\ IsInjective(booked[j])
           /\ \A h \in ToSet(booked[j]) : Unused(h, free, [booked EXCEPT ![j] = <<>>], stk)
<1> DEFINE b == [booked EXCEPT ![j] = <<>>]
<1>1. b[j] = <<>> /\ \A k \in Jobs \ {j} : b[k] = booked[k]
    OBVIOUS
<1>2. ToSet(<<>>) = {} /\ IsInjective(<<>>)
    BY DEF ToSet, IsInjective
<1> HIDE DEF b
<1>3. \A k \in Jobs : IsInjective(b[k]) /\ ToSet(b[k]) \subseteq ToSet(booked[k])
    BY <1>1, <1>2 DEF Separate
<1>4. ToSet(b[j]) = {}
    BY <1>1, <1>2
<1>5. Separate(free, b, stk)
    BY <1>3 DEF Separate
<1>6. ASSUME NEW h \in ToSet(booked[j])
      PROVE  Unused(h, free, b, stk)
    <2>1. ASSUME NEW k \in Jobs
          PROVE  h \notin ToSet(b[k])
        <3>1. CASE k = j
            BY <3>1, <1>4
        <3>2. CASE k # j
            BY <3>2, <1>1 DEF Separate
        <3> QED
            BY <3>1, <3>2
    <2>2. h \notin ToSet(free) /\ \A i \in DOMAIN stk : h \notin ToSet(stk[i].left)
        BY DEF Separate
    <2> QED
        BY <2>1, <2>2 DEF Unused
<1> QED
    BY <1>5, <1>6 DEF b, Separate

\* A method is entered; job::done takes machines with it that nobody has.
LEMMA PushKeepsSeparate ==
    ASSUME NEW free, NEW booked, NEW stk \in Seq(Frames), NEW f \in Frames,
           Separate(free, booked, stk), IsInjective(f.left),
           \A h \in ToSet(f.left) : Unused(h, free, booked, stk)
    PROVE  Separate(free, booked, Append(stk, f))
<1> DEFINE s == Append(stk, f)
           n == Len(stk) + 1
<1>1. /\ DOMAIN s = DOMAIN stk \cup {n} /\ n \notin DOMAIN stk
      /\ \A i \in DOMAIN stk : s[i] = stk[i]
      /\ s[n] = f
    BY AppendToSeq
<1> HIDE DEF s, n
<1>2. ASSUME NEW i \in DOMAIN s
      PROVE  /\ IsInjective(s[i].left)
             /\ ToSet(s[i].left) \cap ToSet(free) = {}
             /\ \A j \in Jobs : ToSet(s[i].left) \cap ToSet(booked[j]) = {}
    <2>1. CASE i = n
        BY <2>1, <1>1 DEF Unused
    <2>2. CASE i \in DOMAIN stk
        BY <2>2, <1>1 DEF Separate
    <2> QED
        BY <2>1, <2>2, <1>1
<1>3. ASSUME NEW i \in DOMAIN s, NEW k \in DOMAIN s \ {i}
      PROVE  ToSet(s[i].left) \cap ToSet(s[k].left) = {}
    <2>1. CASE i = n
        BY <2>1, <1>1 DEF Unused
    <2>2. CASE k = n
        BY <2>2, <1>1 DEF Unused
    <2>3. CASE i \in DOMAIN stk /\ k \in DOMAIN stk
        BY <2>3, <1>1 DEF Separate
    <2> QED
        BY <2>1, <2>2, <2>3, <1>1
<1>4. Separate(free, booked, s)
    BY <1>2, <1>3 DEF Separate
<1> QED
    BY <1>4 DEF s

\* A method returns: what it had left nobody has.
LEMMA PopKeepsSeparate ==
    ASSUME NEW free, NEW booked, NEW stk \in Seq(Frames), stk # <<>>,
           Separate(free, booked, stk)
    PROVE  /\ Separate(free, booked, Front(stk))
           /\ IsInjective(Last(stk).left)
           /\ \A h \in ToSet(Last(stk).left) : Unused(h, free, booked, Front(stk))
<1>1. /\ Len(stk) \in DOMAIN stk /\ Last(stk) = stk[Len(stk)]
      /\ DOMAIN Front(stk) = DOMAIN stk \ {Len(stk)}
      /\ \A i \in DOMAIN Front(stk) : Front(stk)[i] = stk[i]
    BY FrontOfSeq
<1>2. Separate(free, booked, Front(stk))
    BY <1>1 DEF Separate
<1>3. IsInjective(Last(stk).left)
    BY <1>1 DEF Separate
<1>4. \A h \in ToSet(Last(stk).left) : Unused(h, free, booked, Front(stk))
    BY <1>1 DEF Separate, Unused
<1> QED
    BY <1>2, <1>3, <1>4

-----------------------------------------------------------------------------
(* The steps *)

Timed(c) == c.state = "stopped" <=> c.run_after = "none"

\* Scripts leave freelist alone.
LEMMA ScriptsKeep ==
    ASSUME JobsAssumption, NEW c \in Queues, NEW d \in Scripted(c)
    PROVE  /\ d \in Queues /\ d.freelist = c.freelist
           /\ Timed(c) => Timed(d)
<1>1. ASSUME NEW e \in Queues, NEW j \in Jobs
      PROVE  /\ enque(e, j) \in Queues /\ enque(e, j).freelist = e.freelist
             /\ enque(e, j).state = e.state /\ enque(e, j).run_after = e.run_after
    <2>1. Append(e.joblist, j) \in Seq(Jobs)
        BY DEF Queues
    <2> QED
        BY <2>1 DEF enque, Queues
<1>2. CASE d \in {c, clear(c), run(c), stop(c)}
    <2>1. <<>> \in Seq(Jobs)
        OBVIOUS
    <2>2. CASE d = c
        BY <2>2
    <2>3. CASE d = clear(c)
        BY <2>1, <2>3 DEF clear, Queues, Timed
    <2>4. CASE d = run(c)
        BY <2>4 DEF run, Queues, Timed
    <2>5. CASE d = stop(c)
        BY <2>5 DEF stop, Queues, Timed
    <2> QED
        BY <1>2, <2>2, <2>3, <2>4, <2>5
<1>3. ASSUME NEW b \in Batches, d = enque(enque(c, b[1]), b[2])
      PROVE  /\ d \in Queues /\ d.freelist = c.freelist
             /\ Timed(c) => Timed(d)
    <2>1. b[1] \in Jobs /\ b[2] \in Jobs
        BY DEF JobsAssumption
    <2>2. enque(c, b[1]) \in Queues
        BY <1>1, <2>1
    <2> HIDE DEF enque
    <2> QED
        BY <1>1, <1>3, <2>1, <2>2 DEF Timed
<1> QED
    BY <1>2, <1>3 DEF Scripted

LEMMA BookedType ==
    ASSUME TypeOK
    PROVE  Booked \in [Jobs -> Seq(Hosts)]
BY DEF TypeOK, Booked

LEMMA FramesTyped ==
    ASSUME NEW j \in Jobs, NEW left \in Seq(Hosts)
    PROVE  /\ Process \in Frames /\ Process.left = <<>>
           /\ Waits(j) \in Frames /\ Waits(j).left = <<>>
           /\ Done(j, left) \in Frames /\ Done(j, left).left = left
           /\ Done(j, left).at = "done"
<1>1. <<>> \in Seq(Hosts)
    OBVIOUS
<1> QED
    BY <1>1 DEF Process, Waits, Done, Frames

LEMMA EmptyLeft ==
    /\ IsInjective(<<>>) /\ ToSet(<<>>) = {}
BY DEF IsInjective, ToSet

\* A frame with nothing left may come or go.
LEMMA PushEmpty ==
    ASSUME NEW free, NEW booked, NEW stk \in Seq(Frames), NEW f \in Frames,
           Separate(free, booked, stk), f.left = <<>>
    PROVE  Separate(free, booked, Append(stk, f))
BY PushKeepsSeparate, EmptyLeft

\* The frames after a method is entered or has returned.
LEMMA FramesKept ==
    ASSUME NEW stk \in Seq(Frames),
           \A i \in DOMAIN stk : stk[i].at # "done" => stk[i].left = <<>>
    PROVE  /\ stk # <<>> =>
                /\ Front(stk) \in Seq(Frames)
                /\ \A i \in DOMAIN Front(stk) :
                        Front(stk)[i].at # "done" => Front(stk)[i].left = <<>>
           /\ \A f \in Frames :
                /\ Append(stk, f) \in Seq(Frames)
                /\ (f.at # "done" => f.left = <<>>) =>
                    \A i \in DOMAIN Append(stk, f) :
                        Append(stk, f)[i].at # "done" => Append(stk, f)[i].left = <<>>
<1>1. ASSUME stk # <<>>
      PROVE  /\ Front(stk) \in Seq(Frames)
             /\ \A i \in DOMAIN Front(stk) :
                    Front(stk)[i].at # "done" => Front(stk)[i].left = <<>>
    <2> DEFINE t == Front(stk)
    <2>1. /\ t \in Seq(Frames) /\ DOMAIN t \subseteq DOMAIN stk
          /\ \A i \in DOMAIN t : t[i] = stk[i]
        BY <1>1, FrontOfSeq
    <2> HIDE DEF t
    <2>2. \A i \in DOMAIN t : t[i].at # "done" => t[i].left = <<>>
        BY <2>1
    <2> QED
        BY <2>1, <2>2 DEF t
<1>2. ASSUME NEW f \in Frames
      PROVE  /\ Append(stk, f) \in Seq(Frames)
             /\ (f.at # "done" => f.left = <<>>) =>
                    \A i \in DOMAIN Append(stk, f) :
                        Append(stk, f)[i].at # "done" => Append(stk, f)[i].left = <<>>
    <2> DEFINE t == Append(stk, f)
    <2>1. /\ t \in Seq(Frames) /\ DOMAIN t = DOMAIN stk \cup {Len(stk) + 1}
          /\ \A i \in DOMAIN stk : t[i] = stk[i]
          /\ t[Len(stk) + 1] = f
        BY AppendToSeq
    <2> HIDE DEF t
    <2>2. (f.at # "done" => f.left = <<>>) =>
            \A i \in DOMAIN t : t[i].at # "done" => t[i].left = <<>>
        BY <2>1
    <2> QED
        BY <2>1, <2>2 DEF t
<1> QED
    BY <1>1, <1>2

FramesOk(stk) == \A i \in DOMAIN stk : stk[i].at # "done" => stk[i].left = <<>>

\* Methods that only enter or return: the queue may be changed by scripts.
LEMMA ReturnKeeps ==
    ASSUME Inv, Return \/ LoopEnds
    PROVE  Inv'
<1>1. /\ stack # <<>> /\ stack' = Front(stack)
      /\ UNCHANGED <<queue, status, hosts, callbacks, pipes>>
    BY DEF Return, LoopEnds, In, jobvars
<1>2. stack \in Seq(Frames) /\ FramesOk(stack)
    BY DEF Inv, TypeOK, FrameInv, FramesOk
<1>3. stack' \in Seq(Frames) /\ FramesOk(stack')
    BY <1>1, <1>2, FramesKept DEF FramesOk
<1>4. TypeOK'
    BY <1>1, <1>3 DEF Inv, TypeOK
<1>5. Separate(queue.freelist, Booked, stack')
    BY <1>1, <1>2, PopKeepsSeparate DEF Inv
<1>6. Booked' = Booked /\ queue' = queue
    BY <1>1 DEF Booked
<1> QED
    BY <1>1, <1>3, <1>4, <1>5, <1>6 DEF Inv, JobInv, FrameInv, TimerInv, FramesOk

LEMMA CallKeeps ==
    ASSUME JobsAssumption, Inv, Call \/ TimedRun
    PROVE  Inv'
<1>1. /\ queue' \in Scripted(queue)
      /\ UNCHANGED <<status, hosts, callbacks, pipes, stack>>
    BY DEF Call, TimedRun, Scripted, jobvars
<1>2. queue \in Queues /\ Timed(queue)
    BY DEF Inv, TypeOK, TimerInv, Timed
<1>3. queue' \in Queues /\ queue'.freelist = queue.freelist /\ Timed(queue')
    BY <1>1, <1>2, ScriptsKeep
<1>4. Booked' = Booked
    BY <1>1 DEF Booked
<1> QED
    BY <1>1, <1>3, <1>4 DEF Inv, TypeOK, JobInv, FrameInv, TimerInv, Timed

LEMMA PeriodicKeeps ==
    ASSUME Inv, periodic
    PROVE  Inv'
<1>1. /\ queue' = [queue EXCEPT !.run_after = "run"] /\ queue.run_after = "periodic"
      /\ UNCHANGED <<status, hosts, callbacks, pipes>>
    BY DEF periodic, jobvars
<1>2. queue \in Queues /\ Timed(queue)
    BY DEF Inv, TypeOK, TimerInv, Timed
<1>3. queue' \in Queues /\ queue'.freelist = queue.freelist /\ Timed(queue')
    BY <1>1, <1>2 DEF Queues, Timed
<1>4. stack \in Seq(Frames) /\ FramesOk(stack) /\ Process \in Frames /\ Process.left = <<>>
    BY FramesTyped DEF Inv, TypeOK, FrameInv, FramesOk, Process, Frames
<1>5. stack' = stack \/ stack' = Append(stack, Process)
    BY DEF periodic
<1>6. stack' \in Seq(Frames) /\ FramesOk(stack')
    <2>1. Append(stack, Process) \in Seq(Frames) /\ FramesOk(Append(stack, Process))
        BY <1>4, FramesKept DEF FramesOk
    <2> QED
        BY <1>4, <1>5, <2>1
<1>7. Separate(queue.freelist, Booked, stack')
    BY <1>4, <1>5, PushEmpty DEF Inv
<1>8. Booked' = Booked
    BY <1>1 DEF Booked
<1> QED
    BY <1>1, <1>3, <1>6, <1>7, <1>8 DEF Inv, TypeOK, JobInv, FrameInv, FramesOk, TimerInv, Timed

\* The end of a program: what its job was given is now for job::done to give
\* back.
LEMMA EndKeeps ==
    ASSUME Inv, NEW j \in Jobs, process_line(j)
    PROVE  Inv'
<1>1. /\ UNCHANGED <<queue, hosts, callbacks>> /\ pipes' = pipes \ {j} /\ j \in pipes
      /\ status' = [status EXCEPT ![j] = "done"]
      /\ stack' = Append(stack, Done(j, callbacks[j]))
    BY DEF process_line
<1> DEFINE f == Done(j, callbacks[j])
<1>2. /\ stack \in Seq(Frames) /\ FramesOk(stack) /\ callbacks[j] \in Seq(Hosts)
      /\ status \in [Jobs -> Statuses] /\ pipes \subseteq Jobs
    BY DEF Inv, TypeOK, FrameInv, FramesOk
<1>3. f \in Frames /\ f.left = callbacks[j] /\ f.at = "done"
    BY <1>2, FramesTyped
<1>4. status[j] = "running" /\ Booked[j] = callbacks[j]
    BY <1>1 DEF Inv, JobInv, Booked
<1>5. Booked' = [Booked EXCEPT ![j] = <<>>]
    BY <1>1, <1>2 DEF Booked
<1>6. Booked \in [Jobs -> Seq(Hosts)]
    BY BookedType DEF Inv
<1>7. /\ Separate(queue.freelist, Booked', stack)
      /\ IsInjective(callbacks[j])
      /\ \A h \in ToSet(callbacks[j]) : Unused(h, queue.freelist, Booked', stack)
    BY <1>4, <1>5, <1>6, UnbookKeepsSeparate DEF Inv
<1> HIDE DEF f
<1>8. Separate(queue.freelist, Booked', Append(stack, f))
    BY <1>2, <1>3, <1>7, PushKeepsSeparate
<1>9. stack' \in Seq(Frames) /\ FramesOk(stack')
    BY <1>1, <1>2, <1>3, FramesKept DEF FramesOk, f
<1>10. TypeOK'
    BY <1>1, <1>9 DEF Inv, TypeOK, Statuses
<1>11. JobInv'
    BY <1>1, <1>2 DEF Inv, JobInv, TypeOK
<1> QED
    BY <1>1, <1>8, <1>9, <1>10, <1>11 DEF Inv, FrameInv, FramesOk, TimerInv, f

\* jobdone: the next machine that job::done owes goes back to freelist.
LEMMA FreedKeeps ==
    ASSUME Inv, In("done"), Top.left # <<>>
    PROVE  /\ Freed \in Queues /\ Timed(Freed)
           /\ Freed.freelist = Append(queue.freelist, Head(Top.left))
           /\ Called \in Seq(Frames) /\ FramesOk(Called)
           /\ Separate(Freed.freelist, Booked, Called)
<1> DEFINE q == Top.left
           f == Done(Top.job, Tail(q))
<1>1. stack \in Seq(Frames) /\ stack # <<>> /\ FramesOk(stack) /\ queue \in Queues
    BY DEF Inv, TypeOK, FrameInv, FramesOk, In
<1>2. Top \in Frames
    BY <1>1, FrontOfSeq DEF Top
<1>3. q \in Seq(Hosts) /\ q # <<>> /\ Top.job \in Jobs \cup {None}
    BY <1>2 DEF Frames
<1>4. /\ Separate(queue.freelist, Booked, Front(stack))
      /\ IsInjective(q)
      /\ \A h \in ToSet(q) : Unused(h, queue.freelist, Booked, Front(stack))
    BY <1>1, PopKeepsSeparate DEF Inv, Top
<1>5. Front(stack) \in Seq(Frames) /\ FramesOk(Front(stack))
    BY <1>1, FramesKept DEF FramesOk
<1> HIDE DEF q
<1>6. /\ Head(q) \in Hosts /\ Head(q) \in ToSet(q)
      /\ Tail(q) \in Seq(Hosts) /\ IsInjective(Tail(q))
      /\ ToSet(Tail(q)) = ToSet(q) \ {Head(q)}
    BY <1>3, <1>4, TailOfInjective
<1>7. queue.freelist \in Seq(Hosts)
    BY <1>1 DEF Queues
<1>8. /\ Append(queue.freelist, Head(q)) \in Seq(Hosts)
      /\ ToSet(Append(queue.freelist, Head(q))) = ToSet(queue.freelist) \cup {Head(q)}
    BY <1>6, <1>7, AppendToSeq
<1>9. Freed = [queue EXCEPT !.freelist = Append(queue.freelist, Head(q))]
    BY DEF Freed, q
<1>10. /\ Freed \in Queues /\ Freed.freelist = Append(queue.freelist, Head(q))
       /\ Timed(Freed)
    BY <1>1, <1>8, <1>9 DEF Queues, Inv, TimerInv, Timed
<1>11. Separate(Append(queue.freelist, Head(q)), Booked, Front(stack))
    BY <1>4, <1>6, <1>7, GiveKeepsSeparate
<1>12. \A h \in ToSet(Tail(q)) :
            Unused(h, Append(queue.freelist, Head(q)), Booked, Front(stack))
    BY <1>4, <1>6, <1>8 DEF Unused
<1>13. f \in Frames /\ f.left = Tail(q) /\ f.at = "done"
    BY <1>3, <1>6 DEF Done, Frames
<1> HIDE DEF f
<1>14. Separate(Append(queue.freelist, Head(q)), Booked, Append(Front(stack), f))
    BY <1>5, <1>6, <1>11, <1>12, <1>13, PushKeepsSeparate
<1>15. Called = Append(Front(stack), f)
    BY DEF Called, f, q
<1>16. Append(Front(stack), f) \in Seq(Frames) /\ FramesOk(Append(Front(stack), f))
    BY <1>5, <1>13, FramesKept DEF FramesOk
<1> QED
    BY <1>10, <1>14, <1>15, <1>16 DEF q

LEMMA CallbackKeeps ==
    ASSUME JobsAssumption, Inv,
           NextJobs \/ (\E callback \in {"isdone", "isempty"} : NoMoreJobs(callback))
    PROVE  Inv'
<1>1. In("done") /\ Top.left # <<>> /\ UNCHANGED <<status, hosts, callbacks, pipes>>
    BY DEF NextJobs, NoMoreJobs, jobvars
<1>2. /\ Freed \in Queues /\ Timed(Freed)
      /\ Called \in Seq(Frames) /\ FramesOk(Called)
      /\ Separate(Freed.freelist, Booked, Called)
    BY <1>1, FreedKeeps
<1>3. queue' \in Queues /\ queue'.freelist = Freed.freelist /\ Timed(queue')
    <2>1. CASE NextJobs
        <3>1. queue' \in Scripted(Freed)
            BY <2>1 DEF NextJobs
        <3> QED
            BY <1>2, <3>1, ScriptsKeep
    <2>2. ASSUME NEW callback \in {"isdone", "isempty"}, NoMoreJobs(callback)
          PROVE  queue' \in Queues /\ queue'.freelist = Freed.freelist /\ Timed(queue')
        <3>1. PICK c \in Scripted(Freed) : queue' \in Scripted(c)
            BY <2>2 DEF NoMoreJobs
        <3>2. c \in Queues /\ c.freelist = Freed.freelist /\ Timed(c)
            BY <1>2, ScriptsKeep
        <3> QED
            BY <3>1, <3>2, ScriptsKeep
    <2> QED
        BY <2>1, <2>2
<1>4. stack' = Called \/ stack' = Append(Called, Process)
    BY DEF NextJobs, NoMoreJobs
<1>5. Process \in Frames /\ Process.left = <<>>
    BY DEF Process, Frames
<1>6. /\ Append(Called, Process) \in Seq(Frames) /\ FramesOk(Append(Called, Process))
      /\ Separate(Freed.freelist, Booked, Append(Called, Process))
    BY <1>2, <1>5, FramesKept, PushEmpty DEF FramesOk
<1>7. /\ stack' \in Seq(Frames) /\ FramesOk(stack')
      /\ Separate(Freed.freelist, Booked, stack')
    BY <1>2, <1>4, <1>6
<1>8. Booked' = Booked
    BY <1>1 DEF Booked
<1> QED
    BY <1>1, <1>3, <1>7, <1>8 DEF Inv, TypeOK, JobInv, FrameInv, FramesOk, TimerInv, Timed

\* A user's own run books no machine: a job that was never started has none.
LEMMA RunDirectlyKeeps ==
    ASSUME JobsAssumption, Inv, NEW j \in Jobs, RunDirectly(j)
    PROVE  Inv'
<1>1. StartJob(j, queue, callbacks[j], stack) /\ UNCHANGED <<hosts, callbacks>>
    BY DEF RunDirectly
<1>2. /\ queue \in Queues /\ Timed(queue) /\ stack \in Seq(Frames) /\ FramesOk(stack)
      /\ callbacks[j] \in Seq(Hosts) /\ pipes \subseteq Jobs
      /\ status \in [Jobs -> Statuses]
    BY DEF Inv, TypeOK, FrameInv, FramesOk, TimerInv, Timed
<1>3. CASE status[j] # "initialized"
    <2>1. UNCHANGED vars
        BY <1>1, <1>3 DEF StartJob, vars
    <2> QED
        BY <2>1 DEF vars, Inv, TypeOK, Booked, JobInv, FrameInv, TimerInv
<1>4. CASE status[j] = "initialized"
    <2>1. callbacks[j] = <<>> /\ hosts[j] = None /\ j \notin pipes
        BY <1>4 DEF Inv, JobInv
    <2>2. /\ queue' \in Queues /\ queue'.freelist = queue.freelist /\ Timed(queue')
        <3>1. queue' \in Scripted(queue)
            BY <1>1, <1>4 DEF StartJob, Scripted
        <3> QED
            BY <1>2, <3>1, ScriptsKeep
    <2>3. /\ status' \in [Jobs -> Statuses] /\ status'[j] \in {"running", "done"}
          /\ \A k \in Jobs \ {j} : status'[k] = status[k]
          /\ pipes' \subseteq pipes \cup {j}
          /\ pipes' # pipes => status'[j] = "running"
        BY <1>1, <1>2, <1>4 DEF StartJob, Statuses
    <2>4. PICK f \in {Waits(j), Done(j, callbacks[j])} :
            stack' = stack \/ stack' = Append(stack, f)
        BY <1>1, <1>4 DEF StartJob
    <2>5. f \in Frames /\ f.left = <<>>
        <3>1. <<>> \in Seq(Hosts)
            OBVIOUS
        <3>2. CASE f = Waits(j)
            BY <3>1, <3>2 DEF Waits, Frames
        <3>3. CASE f = Done(j, callbacks[j])
            BY <3>1, <3>3, <2>1 DEF Done, Frames
        <3> QED
            BY <3>2, <3>3
    <2>6. /\ Append(stack, f) \in Seq(Frames) /\ FramesOk(Append(stack, f))
          /\ Separate(queue.freelist, Booked, Append(stack, f))
        BY <1>2, <2>5, FramesKept, PushEmpty DEF FramesOk, Inv
    <2>7. /\ stack' \in Seq(Frames) /\ FramesOk(stack')
          /\ Separate(queue.freelist, Booked, stack')
        BY <1>2, <2>4, <2>6 DEF Inv
    <2>8. Booked' = Booked
        BY <1>1, <1>4, <2>1, <2>3 DEF Booked
    <2>9. TypeOK'
        BY <1>1, <1>2, <2>2, <2>3, <2>7 DEF Inv, TypeOK
    <2>10. JobInv'
        <3>1. \A k \in pipes' : status'[k] = "running"
            <4>1. ASSUME NEW k \in pipes'
                  PROVE  status'[k] = "running"
                <5>1. CASE k = j
                    BY <5>1, <2>1, <2>3
                <5>2. CASE k # j
                    BY <5>2, <1>2, <2>3 DEF Inv, JobInv
                <5> QED
                    BY <5>1, <5>2
            <4> QED
                BY <4>1
        <3>2. ASSUME NEW k \in Jobs
              PROVE  /\ status'[k] = "running" /\ hosts[k] # None => hosts[k] \in ToSet(callbacks[k])
                     /\ status'[k] = "initialized" => callbacks[k] = <<>> /\ hosts[k] = None
            <4>1. CASE k = j
                BY <4>1, <2>1, <2>3
            <4>2. CASE k # j
                BY <4>2, <2>3 DEF Inv, JobInv
            <4> QED
                BY <4>1, <4>2
        <3> QED
            BY <1>1, <3>1, <3>2 DEF JobInv
    <2> QED
        BY <2>2, <2>7, <2>8, <2>9, <2>10 DEF Inv, FrameInv, FramesOk, TimerInv, Timed
<1> QED
    BY <1>3, <1>4

\* What process hands to a job, whatever becomes of the start.
LEMMA LaunchTakes ==
    ASSUME Inv, Launch
    PROVE  LET j == Head(queue.joblist)
               h == Head(queue.freelist)
               c == [queue EXCEPT !.joblist = Tail(@), !.freelist = Tail(@)]
           IN  /\ j \in Jobs /\ h \in Hosts
               /\ c \in Queues /\ Timed(c) /\ c.freelist = Tail(queue.freelist)
               /\ Separate(c.freelist, Booked, stack)
               /\ Unused(h, c.freelist, Booked, stack)
               /\ Separate(c.freelist, Booked, Front(stack))
               /\ Unused(h, c.freelist, Booked, Front(stack))
               /\ stack \in Seq(Frames) /\ stack # <<>> /\ FramesOk(stack)
               /\ Front(stack) \in Seq(Frames) /\ FramesOk(Front(stack))
               /\ Append(callbacks[j], h) \in Seq(Hosts)
               /\ hosts' = [hosts EXCEPT ![j] = h]
               /\ callbacks' = [callbacks EXCEPT ![j] = Append(callbacks[j], h)]
               /\ StartJob(j, c, Append(callbacks[j], h), Front(stack))
<1> DEFINE j == Head(queue.joblist)
           h == Head(queue.freelist)
           c == [queue EXCEPT !.joblist = Tail(@), !.freelist = Tail(@)]
<1>1. /\ queue \in Queues /\ Timed(queue) /\ stack \in Seq(Frames) /\ FramesOk(stack)
      /\ callbacks \in [Jobs -> Seq(Hosts)]
      /\ Separate(queue.freelist, Booked, stack)
    BY DEF Inv, TypeOK, FrameInv, FramesOk, TimerInv, Timed
<1>2. /\ queue.joblist # <<>> /\ queue.freelist # <<>> /\ stack # <<>>
      /\ hosts' = [hosts EXCEPT ![j] = h]
      /\ callbacks' = [callbacks EXCEPT ![j] = Append(callbacks[j], h)]
      /\ StartJob(j, c, Append(callbacks[j], h), Front(stack))
    BY DEF Launch, In
<1>3. queue.joblist \in Seq(Jobs) /\ queue.freelist \in Seq(Hosts)
    BY <1>1 DEF Queues
<1>4. j \in Jobs /\ h \in Hosts /\ Tail(queue.joblist) \in Seq(Jobs) /\ Tail(queue.freelist) \in Seq(Hosts)
    BY <1>2, <1>3, HeadTailProperties
<1>5. c \in Queues /\ Timed(c) /\ c.freelist = Tail(queue.freelist)
    BY <1>1, <1>4 DEF Queues, Timed
<1>6. /\ Separate(Tail(queue.freelist), Booked, stack)
      /\ Unused(h, Tail(queue.freelist), Booked, stack)
    BY <1>1, <1>2, <1>3, TakeKeepsSeparate
<1>7. Separate(Tail(queue.freelist), Booked, Front(stack))
    BY <1>1, <1>2, <1>6, PopKeepsSeparate
<1>8. /\ DOMAIN Front(stack) \subseteq DOMAIN stack
      /\ \A i \in DOMAIN Front(stack) : Front(stack)[i] = stack[i]
    BY <1>1, <1>2, FrontOfSeq
<1>9. Unused(h, Tail(queue.freelist), Booked, Front(stack))
    BY <1>6, <1>8 DEF Unused
<1>10. Front(stack) \in Seq(Frames) /\ FramesOk(Front(stack))
    BY <1>1, <1>2, FramesKept DEF FramesOk
<1>11. Append(callbacks[j], h) \in Seq(Hosts)
    BY <1>1, <1>4, AppendToSeq
<1> HIDE DEF j, h, c
<1>12. /\ Separate(c.freelist, Booked, stack) /\ Unused(h, c.freelist, Booked, stack)
       /\ Separate(c.freelist, Booked, Front(stack)) /\ Unused(h, c.freelist, Booked, Front(stack))
    BY <1>5, <1>6, <1>7, <1>9
<1> QED
    BY <1>1, <1>2, <1>4, <1>5, <1>10, <1>11, <1>12 DEF j, h, c

LEMMA LaunchKeeps ==
    ASSUME JobsAssumption, Inv, Launch
    PROVE  Inv'
<1> DEFINE j == Head(queue.joblist)
           h == Head(queue.freelist)
           c == [queue EXCEPT !.joblist = Tail(@), !.freelist = Tail(@)]
           calls == Append(callbacks[j], h)
<1>1. /\ j \in Jobs /\ h \in Hosts
      /\ c \in Queues /\ Timed(c)
      /\ Separate(c.freelist, Booked, stack) /\ Unused(h, c.freelist, Booked, stack)
      /\ Separate(c.freelist, Booked, Front(stack))
      /\ Unused(h, c.freelist, Booked, Front(stack))
      /\ stack \in Seq(Frames) /\ stack # <<>> /\ FramesOk(stack)
      /\ Front(stack) \in Seq(Frames) /\ FramesOk(Front(stack))
      /\ calls \in Seq(Hosts)
      /\ hosts' = [hosts EXCEPT ![j] = h]
      /\ callbacks' = [callbacks EXCEPT ![j] = calls]
      /\ StartJob(j, c, calls, Front(stack))
    BY LaunchTakes
<1>2. /\ callbacks \in [Jobs -> Seq(Hosts)] /\ hosts \in [Jobs -> Hosts \cup {None}]
      /\ status \in [Jobs -> Statuses] /\ pipes \subseteq Jobs /\ JobInv
    BY DEF Inv, TypeOK
<1>3. ToSet(calls) = ToSet(callbacks[j]) \cup {h}
    BY <1>1, <1>2, AppendToSeq
<1>4. Booked \in [Jobs -> Seq(Hosts)]
    BY BookedType DEF Inv
<1>5. h # None
    BY <1>1 DEF JobsAssumption, Hosts
<1> HIDE DEF j, h, c
<1>6. /\ queue' \in Queues /\ queue'.freelist = c.freelist /\ Timed(queue')
    <2>1. queue' \in Scripted(c)
        BY <1>1 DEF StartJob, Scripted
    <2> QED
        BY <1>1, <2>1, ScriptsKeep
<1>7. /\ status' \in [Jobs -> Statuses]
      /\ \A k \in Jobs \ {j} : status'[k] = status[k]
      /\ status'[j] # "initialized"
      /\ pipes' \subseteq pipes \cup {j} /\ pipes \subseteq pipes'
      /\ pipes' # pipes => status'[j] = "running"
      /\ status[j] = "running" => status'[j] = "running"
    BY <1>1, <1>2 DEF StartJob, Statuses
<1>8. JobInv'
    <2>1. ASSUME NEW k \in pipes'
          PROVE  status'[k] = "running"
        <3>1. CASE k = j /\ k \in pipes
            BY <3>1, <1>2, <1>7 DEF JobInv
        <3>2. CASE k = j /\ k \notin pipes
            BY <3>2, <1>7
        <3>3. CASE k # j
            BY <3>3, <1>2, <1>7 DEF JobInv
        <3> QED
            BY <3>1, <3>2, <3>3
    <2>2. ASSUME NEW k \in Jobs
          PROVE  /\ status'[k] = "running" /\ hosts'[k] # None => hosts'[k] \in ToSet(callbacks'[k])
                 /\ status'[k] = "initialized" => callbacks'[k] = <<>> /\ hosts'[k] = None
        <3>1. CASE k = j
            <4>1. hosts'[k] = h /\ callbacks'[k] = calls
                BY <3>1, <1>1, <1>2
            <4> QED
                BY <3>1, <4>1, <1>3, <1>7
        <3>2. CASE k # j
            <4>1. hosts'[k] = hosts[k] /\ callbacks'[k] = callbacks[k] /\ status'[k] = status[k]
                BY <3>2, <1>1, <1>2, <1>7
            <4> QED
                BY <4>1, <1>2 DEF JobInv
        <3> QED
            BY <3>1, <3>2
    <2> QED
        BY <2>1, <2>2 DEF JobInv
<1>9. Booked' = IF status'[j] = "running"
                THEN [Booked EXCEPT ![j] = Append(Booked[j], h)] ELSE Booked
    <2>1. \A k \in Jobs \ {j} : Booked'[k] = Booked[k]
        BY <1>1, <1>2, <1>7 DEF Booked
    <2>2. CASE status'[j] = "running"
        <3>1. Booked[j] = callbacks[j]
            <4>1. CASE status[j] = "running"
                BY <4>1, <1>1 DEF Booked
            <4>2. CASE status[j] # "running"
                <5>1. status[j] = "initialized"
                    BY <4>2, <2>2, <1>1, <1>2 DEF StartJob, Statuses
                <5> QED
                    BY <5>1, <1>1, <1>2 DEF Booked, JobInv
            <4> QED
                BY <4>1, <4>2
        <3>2. Booked'[j] = Append(Booked[j], h)
            BY <2>2, <3>1, <1>1, <1>2 DEF Booked
        <3>3. Booked' = [k \in Jobs |-> Booked'[k]] /\ Booked = [k \in Jobs |-> Booked[k]]
            BY DEF Booked
        <3> HIDE DEF Booked
        <3>4. Booked' = [Booked EXCEPT ![j] = Append(Booked[j], h)]
            BY <2>1, <3>2, <3>3, <1>1, <1>4
        <3> QED
            BY <2>2, <3>4
    <2>3. CASE status'[j] # "running"
        <3>1. Booked'[j] = <<>> /\ Booked[j] = <<>>
            BY <2>3, <1>1, <1>7 DEF Booked
        <3>2. Booked' = [k \in Jobs |-> Booked'[k]] /\ Booked = [k \in Jobs |-> Booked[k]]
            BY DEF Booked
        <3>3. Booked' = Booked
            BY <2>1, <3>1, <3>2
        <3> QED
            BY <2>3, <3>3
    <2> QED
        BY <2>2, <2>3
<1> HIDE DEF calls
<1>10. /\ stack' \in Seq(Frames) /\ FramesOk(stack')
       /\ Separate(c.freelist, Booked', stack')
    <2>1. CASE status'[j] = "running"
        <3>1. Booked' = [Booked EXCEPT ![j] = Append(Booked[j], h)]
            BY <2>1, <1>9
        <3>2. Separate(c.freelist, Booked', stack) /\ Separate(c.freelist, Booked', Front(stack))
            BY <3>1, <1>1, <1>4, BookKeepsSeparate
        <3>3. stack' = Front(stack) \/ stack' = stack \/ stack' = Append(stack, Waits(j))
            BY <2>1, <1>1, <1>2 DEF StartJob
        <3>4. Waits(j) \in Frames /\ Waits(j).left = <<>>
            BY <1>1 DEF Waits, Frames
        <3>5. /\ Append(stack, Waits(j)) \in Seq(Frames) /\ FramesOk(Append(stack, Waits(j)))
              /\ Separate(c.freelist, Booked', Append(stack, Waits(j)))
            BY <1>1, <3>2, <3>4, FramesKept, PushEmpty DEF FramesOk
        <3> QED
            BY <1>1, <3>2, <3>3, <3>5
    <2>2. CASE status'[j] # "running" /\ status[j] # "initialized"
        <3>1. stack' = Front(stack) /\ Booked' = Booked
            BY <2>2, <1>1, <1>9 DEF StartJob
        <3> QED
            BY <3>1, <1>1
    <2>3. CASE status'[j] # "running" /\ status[j] = "initialized"
        <3>1. stack' = Append(stack, Done(j, calls)) /\ Booked' = Booked
            BY <2>3, <1>1, <1>2, <1>9 DEF StartJob
        <3>2. callbacks[j] = <<>>
            BY <2>3, <1>1, <1>2 DEF JobInv
        <3>3. ToSet(calls) = {h}
            BY <3>2, <1>3, EmptyLeft
        <3>4. IsInjective(calls)
            <4>1. <<>> \in Seq(Hosts) /\ h \notin ToSet(<<>>) /\ calls = Append(<<>>, h)
                BY <3>2, EmptyLeft DEF calls
            <4> QED
                BY <4>1, <1>1, AppendToSeq, EmptyLeft
        <3> DEFINE f == Done(j, calls)
        <3>5. f \in Frames /\ f.left = calls /\ f.at = "done"
            BY <1>1 DEF Done, Frames
        <3> HIDE DEF f
        <3>6. Append(stack, f) \in Seq(Frames) /\ FramesOk(Append(stack, f))
            BY <1>1, <3>5, FramesKept DEF FramesOk
        <3>7. \A x \in ToSet(f.left) : Unused(x, c.freelist, Booked, stack)
            BY <1>1, <3>3, <3>5
        <3>8. Separate(c.freelist, Booked, Append(stack, f))
            BY <1>1, <3>4, <3>5, <3>7, PushKeepsSeparate
        <3> QED
            BY <3>1, <3>6, <3>8 DEF f
    <2> QED
        BY <2>1, <2>2, <2>3
<1>11. callbacks' \in [Jobs -> Seq(Hosts)] /\ hosts' \in [Jobs -> Hosts \cup {None}]
    BY <1>1, <1>2
<1>12. TypeOK'
    BY <1>1, <1>2, <1>6, <1>7, <1>10, <1>11 DEF TypeOK
<1> QED
    BY <1>6, <1>8, <1>10, <1>12 DEF Inv, FrameInv, FramesOk, TimerInv, Timed

LEMMA InitKeeps ==
    ASSUME JobsAssumption, Init
    PROVE  Inv
<1>1. <<>> \in Seq(Jobs) /\ <<>> \in Seq(Hosts) /\ <<>> \in Seq(Frames) /\ Pool \in Seq(Hosts)
    BY DEF JobsAssumption, Hosts
<1>2. queue = [joblist |-> <<>>, freelist |-> Pool, state |-> "running", run_after |-> "periodic"]
    BY DEF Init, run
<1>3. TypeOK
    <2>1. queue \in Queues
        BY <1>1, <1>2 DEF Queues
    <2>2. /\ status \in [Jobs -> Statuses] /\ hosts \in [Jobs -> Hosts \cup {None}]
          /\ callbacks \in [Jobs -> Seq(Hosts)] /\ pipes \subseteq Jobs
        BY <1>1 DEF Init, Statuses
    <2>3. stack \in Seq(Frames)
        BY <1>1 DEF Init
    <2> QED
        BY <2>1, <2>2, <2>3 DEF TypeOK
<1>4. Booked = [j \in Jobs |-> <<>>]
    BY DEF Init, Booked
<1>5. Separate(queue.freelist, Booked, stack)
    BY <1>2, <1>4, EmptyLeft DEF Init, Separate, JobsAssumption
<1>6. JobInv /\ FrameInv /\ TimerInv
    BY <1>2 DEF Init, JobInv, FrameInv, TimerInv
<1> QED
    BY <1>3, <1>5, <1>6 DEF Inv

LEMMA StepKeeps ==
    ASSUME JobsAssumption, Inv, [Next]_vars
    PROVE  Inv'
<1>1. CASE Return \/ LoopEnds
    BY <1>1, ReturnKeeps
<1>2. CASE Launch
    BY <1>2, LaunchKeeps
<1>3. CASE NextJobs \/ NoMoreJobs("isdone") \/ NoMoreJobs("isempty")
    BY <1>3, CallbackKeeps
<1>4. CASE periodic
    BY <1>4, PeriodicKeeps
<1>5. CASE Call \/ TimedRun
    BY <1>5, CallKeeps
<1>6. ASSUME NEW j \in Jobs, process_line(j)
      PROVE  Inv'
    BY <1>6, EndKeeps
<1>7. ASSUME NEW j \in Jobs, RunDirectly(j)
      PROVE  Inv'
    BY <1>7, RunDirectlyKeeps
<1>8. CASE UNCHANGED vars
    BY <1>8 DEF vars, Inv, TypeOK, Booked, JobInv, FrameInv, TimerInv
<1> QED
    BY <1>1, <1>2, <1>3, <1>4, <1>5, <1>6, <1>7, <1>8 DEF Next, Interpreter, Timer

\* The invariant behind the theorems: who has a machine, and that nobody else
\* has it, however the methods of the queue and the jobs are nested.
THEOREM JobsInvariant == Spec => []Inv
<1>1. Init => Inv
    BY InitKeeps, JobsAssumption
<1>2. Inv /\ [Next]_vars => Inv'
    BY StepKeeps, JobsAssumption
<1> QED
    BY <1>1, <1>2, PTL DEF Spec

\* Every variable keeps its type: what jobdone, process and scripts make of
\* the lists holds jobs and machines and nothing else.
THEOREM JobsTyped == Spec => []TypeOK
<1>1. Inv => TypeOK
    BY DEF Inv
<1> QED
    BY <1>1, JobsInvariant, PTL

\* No two running jobs are on one machine, and none on a free one
\* (OneJobToAMachine): of process, jobdone and job::done together.
THEOREM MachinesAreNotShared == Spec => []OneJobToAMachine
<1>1. Inv => OneJobToAMachine
    <2> SUFFICES ASSUME Inv, NEW j \in Jobs, status[j] = "running", hosts[j] # None
                 PROVE  /\ hosts[j] \notin ToSet(queue.freelist)
                        /\ \A k \in Jobs \ {j} : status[k] = "running" => hosts[k] # hosts[j]
        BY DEF OneJobToAMachine
    <2>1. hosts[j] \in ToSet(Booked[j])
        BY DEF Inv, JobInv, Booked
    <2>2. hosts[j] \notin ToSet(queue.freelist)
        BY <2>1 DEF Inv, Separate
    <2>3. ASSUME NEW k \in Jobs \ {j}, status[k] = "running"
          PROVE  hosts[k] # hosts[j]
        <3>1. hosts[k] # None => hosts[k] \in ToSet(Booked[k])
            BY <2>3 DEF Inv, JobInv, Booked
        <3>2. ToSet(Booked[j]) \cap ToSet(Booked[k]) = {}
            BY DEF Inv, Separate
        <3> QED
            BY <2>1, <3>1, <3>2
    <2> QED
        BY <2>2, <2>3
<1> QED
    BY <1>1, JobsInvariant, PTL

-----------------------------------------------------------------------------
(* What a step does *)

\* A list of machines without repetition that is as long as the pool has them
\* all.
LEMMA AllFree ==
    ASSUME JobsAssumption, NEW q \in Seq(Hosts), IsInjective(q), Len(q) = Len(Pool)
    PROVE  ToSet(q) = Hosts
<1> DEFINE n == Len(Pool)
<1>1. n \in Nat /\ Pool \in [1 .. n -> Hosts] /\ q \in [1 .. n -> Hosts]
    BY DEF JobsAssumption, Hosts
<1>2. \A h \in Hosts : \E i \in 1 .. n : Pool[i] = h
    BY <1>1 DEF Hosts, ToSet
<1>3. Pool \in Bijection(1 .. n, Hosts)
    BY <1>1, <1>2 DEF JobsAssumption, IsInjective, Bijection, Injection, Surjection
<1>4. ExistsBijection(1 .. n, Hosts)
    BY <1>3 DEF ExistsBijection
<1>5. IsFiniteSet(1 .. n) /\ Cardinality(1 .. n) = n
    <2> HIDE DEF n
    <2>1. n \in Int /\ 1 \in Int
        BY <1>1
    <2>2. /\ IsFiniteSet(1 .. n)
          /\ Cardinality(1 .. n) = IF 1 > n THEN 0 ELSE n - 1 + 1
        BY <2>1, FS_Interval
    <2> QED
        BY <1>1, <2>2
<1>6. IsFiniteSet(Hosts) /\ Cardinality(Hosts) = n
    BY <1>4, <1>5, FS_Bijection
<1>7. q \in Injection(1 .. n, Hosts)
    BY <1>1 DEF IsInjective, Injection
<1>8. q \in Surjection(1 .. n, Hosts)
    BY <1>5, <1>6, <1>7, FS_Injection
<1> QED
    BY <1>1, <1>8 DEF Surjection, ToSet

LEMMA FrontFrames ==
    ASSUME NEW stk \in Seq(Frames), stk # <<>>
    PROVE  /\ Front(stk) \in Seq(Frames) /\ Last(stk) \in Frames
           /\ DOMAIN Front(stk) \subseteq DOMAIN stk
           /\ \A i \in DOMAIN Front(stk) : Front(stk)[i] = stk[i]
BY FrontOfSeq

\* When isdone_callback is called, no job that the queue started is running
\* (DoneMeansDone): the length of freelist says so, since no machine is in it
\* twice.
THEOREM DoneIsReallyDone == Spec => DoneMeansDone
<1>1. Inv /\ NoMoreJobs("isdone") =>
        \A j \in Jobs : status[j] = "running" => hosts[j] = None
    <2> SUFFICES ASSUME Inv, NoMoreJobs("isdone"),
                        NEW j \in Jobs, status[j] = "running", hosts[j] # None
                 PROVE  FALSE
        OBVIOUS
    <2>1. In("done") /\ Top.left # <<>>
        BY DEF NoMoreJobs
    <2>2. PICK c \in Scripted(Freed) : Len(c.freelist) = Len(Pool)
        BY DEF NoMoreJobs
    <2>3. Freed \in Queues /\ Separate(Freed.freelist, Booked, Called)
        BY <2>1, FreedKeeps
    <2>4. c \in Queues /\ c.freelist = Freed.freelist
        BY <2>3, ScriptsKeep, JobsAssumption
    <2>5. ToSet(c.freelist) = Hosts
        BY <2>2, <2>3, <2>4, AllFree, JobsAssumption DEF Separate, Queues
    <2>6. hosts[j] \in ToSet(Booked[j]) /\ hosts[j] \in Hosts
        BY DEF Inv, TypeOK, JobInv, Booked
    <2> QED
        BY <2>3, <2>4, <2>5, <2>6 DEF Separate
<1> QED
    BY <1>1, JobsInvariant, PTL DEF DoneMeansDone

\* A stopped queue begins no new round of starting jobs, and its timer does
\* not set it going (StopHolds): process and jobdone look at the state, stop
\* cancels the timer.
THEOREM StopReallyHolds == Spec => StopHolds
<1>1. Inv /\ [Next]_vars => [StopKept]_vars
    <2> SUFFICES ASSUME Inv, [Next]_vars, queue.state = "stopped"
                 PROVE  /\ ~TimedRun
                        /\ queue'.state = "stopped" => Cardinality(Loops') =< Cardinality(Loops)
        BY DEF StopKept
    <2>1. queue.run_after = "none" /\ ~TimedRun /\ ~periodic
        BY DEF Inv, TimerInv, TimedRun, periodic
    <2>2. stack \in Seq(Frames) /\ queue.state # "running"
        BY DEF Inv, TypeOK
    <2>3. IsFiniteSet(Loops)
        <3>1. Loops \in SUBSET (1 .. Len(stack)) /\ Len(stack) \in Int /\ 1 \in Int
            BY <2>2 DEF Loops
        <3>2. IsFiniteSet(1 .. Len(stack))
            BY <3>1, FS_Interval
        <3> QED
            BY <3>1, <3>2, FS_Subset
    <2>4. ASSUME queue'.state = "stopped"
          PROVE  Loops' \subseteq Loops
        <3>0. ASSUME stack # <<>>
              PROVE  /\ Front(stack) \in Seq(Frames) /\ Top \in Frames
                     /\ DOMAIN Front(stack) \subseteq DOMAIN stack
                     /\ \A i \in DOMAIN Front(stack) : Front(stack)[i] = stack[i]
            BY <2>2, <3>0, FrontFrames DEF Top
        <3>1. CASE stack' = stack
            BY <3>1 DEF Loops
        <3>2. CASE stack # <<>> /\ stack' = Front(stack)
            BY <3>0, <3>2 DEF Loops
        <3>3. ASSUME NEW f \in Frames, f.at # "process", stack' = Append(stack, f)
              PROVE  Loops' \subseteq Loops
            <4>1. /\ DOMAIN stack' = DOMAIN stack \cup {Len(stack) + 1}
                  /\ \A i \in DOMAIN stack : stack'[i] = stack[i]
                  /\ stack'[Len(stack) + 1] = f
                BY <2>2, <3>3, AppendToSeq
            <4> QED
                BY <3>3, <4>1 DEF Loops
        <3>4. ASSUME stack # <<>>, NEW f \in Frames, f.at # "process",
                     stack' = Append(Front(stack), f)
              PROVE  Loops' \subseteq Loops
            <4>1. /\ Front(stack) \in Seq(Frames) /\ DOMAIN Front(stack) \subseteq DOMAIN stack
                  /\ \A i \in DOMAIN Front(stack) : Front(stack)[i] = stack[i]
                BY <3>0, <3>4
            <4>2. /\ DOMAIN stack' = DOMAIN Front(stack) \cup {Len(Front(stack)) + 1}
                  /\ \A i \in DOMAIN Front(stack) : stack'[i] = Front(stack)[i]
                  /\ stack'[Len(Front(stack)) + 1] = f
                BY <3>4, <4>1, AppendToSeq
            <4> QED
                BY <3>4, <4>1, <4>2 DEF Loops
        <3>5. ASSUME NEW j \in Jobs, NEW left \in Seq(Hosts)
              PROVE  /\ Waits(j) \in Frames /\ Waits(j).at # "process"
                     /\ Done(j, left) \in Frames /\ Done(j, left).at # "process"
            BY <3>5, FramesTyped DEF Waits, Done
        <3>6. CASE UNCHANGED vars \/ Call
            BY <3>1, <3>6 DEF vars, Call
        <3>7. CASE Return \/ LoopEnds
            BY <3>2, <3>7 DEF Return, LoopEnds, In
        <3>8. CASE Launch
            <4>1. PICK j \in Jobs, left \in Seq(Hosts), c \in Queues :
                    StartJob(j, c, left, Front(stack))
                BY <3>8, LaunchTakes
            <4>2. \/ stack' = Front(stack) \/ stack' = stack
                  \/ stack' = Append(stack, Waits(j)) \/ stack' = Append(stack, Done(j, left))
                BY <4>1 DEF StartJob
            <4>3. stack # <<>>
                BY <3>8 DEF Launch, In
            <4> QED
                BY <3>1, <3>2, <3>3, <3>5, <4>2, <4>3
        <3>9. ASSUME NEW j \in Jobs, RunDirectly(j) \/ process_line(j)
              PROVE  Loops' \subseteq Loops
            <4>1. callbacks[j] \in Seq(Hosts)
                BY DEF Inv, TypeOK
            <4>2. \/ stack' = stack \/ stack' = Append(stack, Waits(j))
                  \/ stack' = Append(stack, Done(j, callbacks[j]))
                BY <3>9 DEF RunDirectly, StartJob, process_line
            <4> QED
                BY <3>1, <3>3, <3>5, <4>1, <4>2
        <3>10. CASE NextJobs \/ NoMoreJobs("isdone") \/ NoMoreJobs("isempty")
            <4>1. stack' = Called /\ stack # <<>> /\ Top.left # <<>>
                BY <2>4, <3>10 DEF NextJobs, NoMoreJobs, In
            <4>2. Top.left \in Seq(Hosts) /\ Top.job \in Jobs \cup {None}
                BY <3>0, <4>1 DEF Frames
            <4>3. Tail(Top.left) \in Seq(Hosts)
                BY <4>1, <4>2, HeadTailProperties
            <4>4. /\ Done(Top.job, Tail(Top.left)) \in Frames
                  /\ Done(Top.job, Tail(Top.left)).at # "process"
                BY <4>2, <4>3 DEF Done, Frames
            <4> QED
                BY <3>4, <4>1, <4>4 DEF Called
        <3> QED
            BY <2>1, <3>6, <3>7, <3>8, <3>9, <3>10 DEF Next, Interpreter, Timer
    <2> QED
        BY <2>1, <2>3, <2>4, FS_Subset
<1> QED
    BY <1>1, JobsInvariant, PTL DEF StopHolds, Spec

-----------------------------------------------------------------------------
(* Machines are given back *)

\* A job::done on the stack will put h back.
Owes(h, stk) == \E i \in DOMAIN stk : h \in ToSet(stk[i].left)

LEMMA OwesPush ==
    ASSUME NEW h, NEW stk \in Seq(Frames), NEW f \in Frames
    PROVE  Owes(h, Append(stk, f)) <=> Owes(h, stk) \/ h \in ToSet(f.left)
<1>1. /\ DOMAIN Append(stk, f) = DOMAIN stk \cup {Len(stk) + 1}
      /\ Len(stk) + 1 \notin DOMAIN stk
      /\ \A i \in DOMAIN stk : Append(stk, f)[i] = stk[i]
      /\ Append(stk, f)[Len(stk) + 1] = f
    BY AppendToSeq
<1> DEFINE t == Append(stk, f)
<1>2. DOMAIN t = DOMAIN stk \cup {Len(stk) + 1} /\ t[Len(stk) + 1] = f
      /\ \A i \in DOMAIN stk : t[i] = stk[i]
    BY <1>1
<1> HIDE DEF t
<1>3. Owes(h, t) <=> Owes(h, stk) \/ h \in ToSet(f.left)
    BY <1>2 DEF Owes
<1> QED
    BY <1>3 DEF t

LEMMA OwesPop ==
    ASSUME NEW h, NEW stk \in Seq(Frames), stk # <<>>
    PROVE  Owes(h, stk) <=> Owes(h, Front(stk)) \/ h \in ToSet(Last(stk).left)
<1>1. /\ Len(stk) \in DOMAIN stk /\ Last(stk) = stk[Len(stk)]
      /\ DOMAIN Front(stk) = DOMAIN stk \ {Len(stk)}
      /\ \A i \in DOMAIN Front(stk) : Front(stk)[i] = stk[i]
    BY FrontOfSeq
<1> DEFINE t == Front(stk)
           n == Len(stk)
           f == Last(stk)
<1>2. /\ n \in DOMAIN stk /\ f = stk[n] /\ DOMAIN t = DOMAIN stk \ {n}
      /\ \A i \in DOMAIN t : t[i] = stk[i]
    BY <1>1
<1> HIDE DEF t, n, f
<1>3. Owes(h, stk) <=> Owes(h, t) \/ h \in ToSet(f.left)
    BY <1>2 DEF Owes
<1> QED
    BY <1>3 DEF t, f

\* A machine that will be free again stays one through every step but a failed
\* start (OnlyFailedStartsLoseMachines): process hands the machine to a program
\* that runs or to job::done, job::done to jobdone, jobdone to freelist.
THEOREM MachinesComeBack == Spec => OnlyFailedStartsLoseMachines
<1>1. Inv /\ [Next]_vars => [MachinesKept]_vars
    <2> SUFFICES ASSUME Inv, [Next]_vars, NEW h \in Hosts, Returning(h), ~FailedStart
                 PROVE  Returning(h)'
        BY DEF MachinesKept
    <2>1. /\ stack \in Seq(Frames) /\ FramesOk(stack) /\ queue \in Queues
          /\ callbacks \in [Jobs -> Seq(Hosts)] /\ status \in [Jobs -> Statuses]
          /\ pipes \subseteq Jobs /\ JobInv
        BY DEF Inv, TypeOK, FrameInv, FramesOk
    <2>2. \/ h \in ToSet(queue.freelist)
          \/ \E j \in pipes : h \in ToSet(callbacks[j])
          \/ Owes(h, stack)
        BY DEF Returning, Owes
    <2>3. ASSUME \/ h \in ToSet(queue'.freelist)
                 \/ \E j \in pipes' : h \in ToSet(callbacks'[j])
                 \/ Owes(h, stack')
          PROVE  Returning(h)'
        BY <2>3 DEF Returning, Owes
    <2>4. ASSUME stack # <<>>
          PROVE  /\ Front(stack) \in Seq(Frames) /\ Top \in Frames
                 /\ Owes(h, stack) <=> Owes(h, Front(stack)) \/ h \in ToSet(Top.left)
                 /\ Top.at # "done" => Top.left = <<>>
        <3>1. Front(stack) \in Seq(Frames) /\ Top \in Frames
            BY <2>1, <2>4, FrontFrames DEF Top
        <3>2. Owes(h, stack) <=> Owes(h, Front(stack)) \/ h \in ToSet(Top.left)
            BY <2>1, <2>4, OwesPop DEF Top
        <3>3. Len(stack) \in DOMAIN stack /\ Top = stack[Len(stack)]
            BY <2>1, <2>4, FrontOfSeq DEF Top
        <3>4. Top.at # "done" => Top.left = <<>>
            BY <2>1, <3>3 DEF FramesOk
        <3> QED
            BY <3>1, <3>2, <3>4
    <2>5. ASSUME stack # <<>>, Top.left = <<>>
          PROVE  Owes(h, stack) <=> Owes(h, Front(stack))
        BY <2>4, <2>5, EmptyLeft
    <2>6. CASE UNCHANGED vars
        BY <2>2, <2>3, <2>6 DEF vars
    <2>7. CASE Call \/ TimedRun
        <3>1. /\ queue' \in Scripted(queue) /\ UNCHANGED <<callbacks, pipes, stack>>
            BY <2>7 DEF Call, TimedRun, Scripted, jobvars
        <3>2. queue'.freelist = queue.freelist
            BY <2>1, <3>1, ScriptsKeep, JobsAssumption
        <3> QED
            BY <2>2, <2>3, <3>1, <3>2
    <2>8. CASE periodic
        <3>1. queue'.freelist = queue.freelist /\ UNCHANGED <<callbacks, pipes>>
            BY <2>1, <2>8 DEF periodic, jobvars, Queues
        <3>2. stack' = stack \/ stack' = Append(stack, Process)
            BY <2>8 DEF periodic
        <3>3. Process \in Frames
            BY DEF Process, Frames
        <3>4. Owes(h, stack) => Owes(h, stack')
            BY <2>1, <3>2, <3>3, OwesPush
        <3> QED
            BY <2>2, <2>3, <3>1, <3>4
    <2>9. CASE Return \/ LoopEnds
        <3>1. /\ stack # <<>> /\ stack' = Front(stack) /\ Top.left = <<>>
              /\ UNCHANGED <<queue, callbacks, pipes>>
            BY <2>4, <2>9 DEF Return, LoopEnds, In, jobvars
        <3> QED
            BY <2>2, <2>3, <2>5, <3>1
    <2>10. ASSUME NEW j \in Jobs, process_line(j)
           PROVE  Returning(h)'
        <3>1. /\ queue' = queue /\ callbacks' = callbacks /\ pipes' = pipes \ {j}
              /\ stack' = Append(stack, Done(j, callbacks[j]))
            BY <2>10 DEF process_line
        <3>2. Done(j, callbacks[j]) \in Frames /\ Done(j, callbacks[j]).left = callbacks[j]
            BY <2>1, FramesTyped
        <3>3. Owes(h, stack') <=> Owes(h, stack) \/ h \in ToSet(callbacks[j])
            BY <2>1, <3>1, <3>2, OwesPush
        <3> QED
            BY <2>2, <2>3, <3>1, <3>3
    <2>11. ASSUME NEW j \in Jobs, RunDirectly(j)
           PROVE  Returning(h)'
        <3>1. StartJob(j, queue, callbacks[j], stack) /\ callbacks' = callbacks
            BY <2>11 DEF RunDirectly
        <3>2. queue' \in Scripted(queue)
            BY <3>1 DEF StartJob, Scripted
        <3>3. queue'.freelist = queue.freelist
            BY <2>1, <3>2, ScriptsKeep, JobsAssumption
        <3>4. pipes \subseteq pipes'
            BY <3>1 DEF StartJob
        <3>5. /\ Waits(j) \in Frames /\ Done(j, callbacks[j]) \in Frames
            BY <2>1, FramesTyped
        <3>6. \/ stack' = stack \/ stack' = Append(stack, Waits(j))
              \/ stack' = Append(stack, Done(j, callbacks[j]))
            BY <3>1 DEF StartJob
        <3>7. Owes(h, stack) => Owes(h, stack')
            BY <2>1, <3>5, <3>6, OwesPush
        <3> QED
            BY <2>2, <2>3, <3>1, <3>3, <3>4, <3>7
    <2>12. CASE NextJobs \/ NoMoreJobs("isdone") \/ NoMoreJobs("isempty")
        <3> DEFINE f == Done(Top.job, Tail(Top.left))
        <3>1. /\ In("done") /\ Top.left # <<>> /\ UNCHANGED <<callbacks, pipes>>
              /\ stack # <<>>
            BY <2>12 DEF NextJobs, NoMoreJobs, jobvars, In
        <3>2. Top \in Frames /\ Top.left \in Seq(Hosts) /\ Top.job \in Jobs \cup {None}
            BY <2>4, <3>1 DEF Frames
        <3>3. f \in Frames /\ f.left = Tail(Top.left)
            BY <3>1, <3>2, HeadTailProperties DEF Done, Frames
        <3>4. /\ Freed \in Queues /\ Called \in Seq(Frames)
              /\ Freed.freelist = Append(queue.freelist, Head(Top.left))
            BY <3>1, FreedKeeps
        <3>5. queue'.freelist = Freed.freelist
            <4>1. CASE NextJobs
                BY <3>4, <4>1, ScriptsKeep, JobsAssumption DEF NextJobs
            <4>2. ASSUME NEW callback \in {"isdone", "isempty"}, NoMoreJobs(callback)
                  PROVE  queue'.freelist = Freed.freelist
                <5>1. PICK c \in Scripted(Freed) : queue' \in Scripted(c)
                    BY <4>2 DEF NoMoreJobs
                <5>2. c \in Queues /\ c.freelist = Freed.freelist
                    BY <3>4, ScriptsKeep, JobsAssumption
                <5> QED
                    BY <5>1, <5>2, ScriptsKeep, JobsAssumption
            <4> QED
                BY <2>12, <4>1, <4>2
        <3>6. Head(Top.left) \in Hosts /\ ToSet(Top.left) = {Head(Top.left)} \cup ToSet(Tail(Top.left))
            <4>1. /\ IsInjective(Top.left)
                BY <2>1, <3>1, PopKeepsSeparate DEF Inv, Top
            <4> QED
                BY <3>1, <3>2, <4>1, TailOfInjective
        <3>7. ToSet(queue'.freelist) = ToSet(queue.freelist) \cup {Head(Top.left)}
            <4>1. queue.freelist \in Seq(Hosts)
                BY <2>1 DEF Queues
            <4> QED
                BY <3>4, <3>5, <3>6, <4>1, AppendToSeq
        <3>8. Called = Append(Front(stack), f)
            BY DEF Called
        <3> HIDE DEF f
        <3>9. Owes(h, Called) <=> Owes(h, Front(stack)) \/ h \in ToSet(Tail(Top.left))
            BY <2>4, <3>1, <3>3, <3>8, OwesPush
        <3>10. Owes(h, Called) => Owes(h, stack')
            <4>1. stack' = Called \/ stack' = Append(Called, Process)
                BY <2>12 DEF NextJobs, NoMoreJobs
            <4>2. Process \in Frames
                BY DEF Process, Frames
            <4> QED
                BY <3>4, <4>1, <4>2, OwesPush
        <3>11. Owes(h, stack) => h = Head(Top.left) \/ Owes(h, stack')
            BY <2>4, <3>1, <3>6, <3>9, <3>10
        <3> QED
            BY <2>2, <2>3, <3>1, <3>7, <3>11
    <2>13. CASE Launch
        <3> DEFINE j == Head(queue.joblist)
                   g == Head(queue.freelist)
                   calls == Append(callbacks[j], g)
        <3>1. PICK c \in Queues :
                /\ j \in Jobs /\ g \in Hosts /\ c.freelist = Tail(queue.freelist)
                /\ calls \in Seq(Hosts)
                /\ callbacks' = [callbacks EXCEPT ![j] = calls]
                /\ StartJob(j, c, calls, Front(stack))
            BY <2>13, LaunchTakes
        <3>2. stack # <<>> /\ Top.left = <<>> /\ queue.freelist # <<>>
            BY <2>4, <2>13 DEF Launch, In
        <3>3. queue'.freelist = Tail(queue.freelist)
            <4>1. queue' \in Scripted(c)
                BY <3>1 DEF StartJob, Scripted
            <4> QED
                BY <3>1, <4>1, ScriptsKeep, JobsAssumption
        <3>4. ToSet(queue.freelist) = {g} \cup ToSet(Tail(queue.freelist))
            <4>1. queue.freelist \in Seq(Hosts) /\ IsInjective(queue.freelist)
                BY <2>1 DEF Queues, Inv, Separate
            <4> QED
                BY <3>2, <4>1, TailOfInjective
        <3>5. /\ ToSet(calls) = ToSet(callbacks[j]) \cup {g}
              /\ calls # callbacks[j]
            <4>1. callbacks[j] \in Seq(Hosts)
                BY <2>1, <3>1
            <4>2. Len(calls) = Len(callbacks[j]) + 1 /\ Len(callbacks[j]) \in Nat
                BY <3>1, <4>1, AppendProperties
            <4> QED
                BY <3>1, <4>1, <4>2, AppendToSeq
        <3>6. Waits(j) \in Frames /\ Done(j, calls) \in Frames /\ Done(j, calls).left = calls
            BY <3>1, FramesTyped
        <3> HIDE DEF j, g, calls
        <3>7. callbacks'[j] = calls /\ \A k \in Jobs \ {j} : callbacks'[k] = callbacks[k]
            BY <2>1, <3>1
        <3>8. j \in pipes' \/ (status'[j] = "done" /\ status[j] # "done")
            BY <3>1, <3>5, <3>7 DEF FailedStart
        <3>9. pipes \subseteq pipes'
            BY <3>1 DEF StartJob
        <3>10. Owes(h, stack) => Owes(h, stack')
            <4>1. \/ stack' = Front(stack) \/ stack' = stack
                  \/ stack' = Append(stack, Waits(j)) \/ stack' = Append(stack, Done(j, calls))
                BY <3>1 DEF StartJob
            <4> QED
                BY <2>1, <2>5, <3>2, <3>6, <4>1, OwesPush
        <3>11. CASE j \in pipes'
            <4>1. h \in ToSet(queue.freelist) =>
                    h \in ToSet(queue'.freelist) \/ h \in ToSet(callbacks'[j])
                BY <3>3, <3>4, <3>5, <3>7
            <4>2. ASSUME NEW k \in pipes, h \in ToSet(callbacks[k])
                  PROVE  k \in pipes' /\ h \in ToSet(callbacks'[k])
                BY <2>1, <3>5, <3>7, <3>9, <4>2
            <4> QED
                BY <2>2, <2>3, <3>10, <3>11, <4>1, <4>2
        <3>12. CASE status'[j] = "done" /\ status[j] # "done"
            <4>1. stack' = Append(stack, Done(j, calls))
                BY <2>1, <3>1, <3>12 DEF StartJob
            <4>2. Owes(h, stack') <=> Owes(h, stack) \/ h \in ToSet(calls)
                BY <2>1, <3>6, <4>1, OwesPush
            <4>3. h \in ToSet(queue.freelist) => h \in ToSet(queue'.freelist) \/ Owes(h, stack')
                BY <3>3, <3>4, <3>5, <4>2
            <4>4. ASSUME NEW k \in pipes, h \in ToSet(callbacks[k])
                  PROVE  Owes(h, stack') \/ (k \in pipes' /\ h \in ToSet(callbacks'[k]))
                BY <2>1, <3>5, <3>7, <3>9, <4>2, <4>4
            <4> QED
                BY <2>2, <2>3, <3>10, <4>3, <4>4
        <3> QED
            BY <3>8, <3>11, <3>12
    <2> QED
        BY <2>6, <2>7, <2>8, <2>9, <2>10, <2>11, <2>12, <2>13 DEF Next, Interpreter, Timer
<1> QED
    BY <1>1, JobsInvariant, PTL DEF OnlyFailedStartsLoseMachines, Spec
=============================================================================
