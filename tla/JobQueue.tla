------------------------------ MODULE JobQueue ------------------------------
(***************************************************************************)
(* The job library (src/vfs/lib/job/job.itcl): a queue starts jobs on a    *)
(* pool of machines, one job to a machine.  Starting a job may run a Tcl   *)
(* command, wait in the event loop for a program, or fail; the end of a    *)
(* job calls back into the queue, which starts more jobs.  So the methods  *)
(* of one queue nest: stack holds those that have not returned, innermost  *)
(* last, and only the innermost moves on.                                  *)
(***************************************************************************)
EXTENDS Integers, FiniteSets, SequencesExt

CONSTANTS
    Jobs,
    Kind,       \* of each job: "tcl" (job_tcl), "exec" (job_exec), or
                \* "sync" (job_exec with -sync 1)
    Pool,       \* the machines
    Batches,    \* the pairs of jobs that are given to enque (one job twice:
                \* that job alone)
    None

ASSUME JobsAssumption ==
    /\ Kind \in [Jobs -> {"tcl", "exec", "sync"}]
    /\ Pool \in Seq(ToSet(Pool)) /\ IsInjective(Pool)
    /\ None \notin ToSet(Pool)
    /\ Batches \subseteq Jobs \X Jobs

Hosts == ToSet(Pool)

VARIABLES
    queue,      \* joblist, freelist, state and the armed timer (run_after)
    status,     \* of each job
    hosts,      \* of each job: the machine it was last told to use
    callbacks,  \* of each job: the machines of its "jobdone" callbacks
    pipes,      \* the jobs whose program runs
    stack

jobvars == <<status, hosts, callbacks, pipes>>
vars == <<queue, status, hosts, callbacks, pipes, stack>>

\* The methods on the stack: the loop of process, the vwait of job_exec::run,
\* and job::done with the callbacks it has still to call.
Process == [at |-> "process", job |-> None, left |-> <<>>]
Waits(j) == [at |-> "wait", job |-> j, left |-> <<>>]
Done(j, left) == [at |-> "done", job |-> j, left |-> left]

Top == Last(stack)
In(at) == stack # <<>> /\ Top.at = at

\* Nothing runs, or the innermost method waits in the event loop.
EventLoop == stack = <<>> \/ (In("wait") /\ status[Top.job] # "done")

-----------------------------------------------------------------------------
(* The public methods of the queue *)

enque(c, j) ==
    IF j \in ToSet(c.joblist) THEN c ELSE [c EXCEPT !.joblist = Append(@, j)]

clear(c) == [c EXCEPT !.joblist = <<>>]

run(c) == [c EXCEPT !.state = "running", !.run_after = "periodic"]

stop_KeepsTimer(c) == [c EXCEPT !.state = "stopped"]
stop(c) == [c EXCEPT !.state = "stopped", !.run_after = "none"]

\* What a script (a callback, the command of a job_tcl) makes of the queue.
Scripted(c) ==
    {c, clear(c), run(c), stop(c)} \cup {enque(enque(c, b[1]), b[2]) : b \in Batches}

Init ==
    /\ queue = run([joblist |-> <<>>, freelist |-> Pool,
                    state |-> "running", run_after |-> "none"])
    /\ status = [j \in Jobs |-> "initialized"]
    /\ hosts = [j \in Jobs |-> None]
    /\ callbacks = [j \in Jobs |-> <<>>]
    /\ pipes = {}
    /\ stack = <<>>

-----------------------------------------------------------------------------
(* Jobs *)

\* "$job run" from a caller that an error takes to the stack "failed": a job
\* runs once, and a program that cannot be started is an error too.
StartJob(j, c, calls, failed) ==
    \/ /\ status[j] # "initialized"
       /\ queue' = c /\ stack' = failed
       /\ UNCHANGED <<status, pipes>>
    \/ /\ status[j] = "initialized" /\ Kind[j] = "tcl"
       /\ queue' \in Scripted(c)
       /\ status' = [status EXCEPT ![j] = "done"]
       /\ stack' = Append(stack, Done(j, calls))
       /\ UNCHANGED pipes
    \/ /\ status[j] = "initialized" /\ Kind[j] # "tcl"
       /\ queue' = c
       /\ status' = [status EXCEPT ![j] = "running"]
       /\ \/ stack' = failed /\ UNCHANGED pipes
          \/ /\ stack' = IF Kind[j] = "sync" THEN Append(stack, Waits(j)) ELSE stack
             /\ pipes' = pipes \cup {j}

\* The end of the program's output: close, done.
process_line(j) ==
    /\ EventLoop /\ j \in pipes
    /\ pipes' = pipes \ {j}
    /\ status' = [status EXCEPT ![j] = "done"]
    /\ stack' = Append(stack, Done(j, callbacks[j]))
    /\ UNCHANGED <<queue, hosts, callbacks>>

\* A user runs a job without the queue.
RunDirectly(j) ==
    /\ EventLoop
    /\ StartJob(j, queue, callbacks[j], stack)
    /\ UNCHANGED <<hosts, callbacks>>

\* job_exec::run returns once its job is done, and job::done after its last
\* callback.
Return ==
    /\ \/ In("wait") /\ status[Top.job] = "done"
       \/ In("done") /\ Top.left = <<>>
    /\ stack' = Front(stack)
    /\ UNCHANGED <<queue, jobvars>>

-----------------------------------------------------------------------------
(* The queue *)

\* One round of the loop of process: the first job on the first free machine.
Launch ==
    LET j == Head(queue.joblist)
        h == Head(queue.freelist)
        calls == Append(callbacks[j], h)
    IN  /\ In("process") /\ queue.joblist # <<>> /\ queue.freelist # <<>>
        /\ hosts' = [hosts EXCEPT ![j] = h]
        /\ callbacks' = [callbacks EXCEPT ![j] = calls]
        /\ StartJob(j, [queue EXCEPT !.joblist = Tail(@), !.freelist = Tail(@)],
                    calls, Front(stack))

LoopEnds ==
    /\ In("process") /\ (queue.joblist = <<>> \/ queue.freelist = <<>>)
    /\ stack' = Front(stack)
    /\ UNCHANGED <<queue, jobvars>>

\* The stack and the queue when jobdone has put its machine back.
Called_Once == Append(Front(stack), Done(Top.job, <<>>))
Freed_Told == [queue EXCEPT !.freelist = Append(@, hosts[Top.job])]
Called == Append(Front(stack), Done(Top.job, Tail(Top.left)))
Freed == [queue EXCEPT !.freelist = Append(@, Head(Top.left))]

\* jobdone, with its job_callback, when jobs wait: process.
NextJobs ==
    /\ In("done") /\ Top.left # <<>>
    /\ queue' \in Scripted(Freed) /\ queue'.joblist # <<>>
    /\ stack' = IF queue'.state = "running" THEN Append(Called, Process) ELSE Called
    /\ UNCHANGED jobvars

NoMoreJobs_Early(callback) ==
    /\ In("done") /\ Top.left # <<>>
    /\ \E c \in Scripted(Freed) :
        /\ c.joblist = <<>>
        /\ callback = IF Len(c.freelist) + 1 >= Len(Pool) THEN "isdone" ELSE "isempty"
        /\ queue' \in Scripted(c)
    /\ stack' = Called
    /\ UNCHANGED jobvars

\* jobdone when none waits: a last callback says that all jobs are done, or
\* that none is left to start.
NoMoreJobs(callback) ==
    /\ In("done") /\ Top.left # <<>>
    /\ \E c \in Scripted(Freed) :
        /\ c.joblist = <<>>
        /\ callback = IF Len(c.freelist) = Len(Pool) THEN "isdone" ELSE "isempty"
        /\ queue' \in Scripted(c)
    /\ stack' = Called
    /\ UNCHANGED jobvars

periodic_Once ==
    /\ EventLoop /\ queue.run_after = "periodic"
    /\ queue' = [queue EXCEPT !.run_after = "none"]
    /\ stack' = IF queue.state = "running" THEN Append(stack, Process) ELSE stack
    /\ UNCHANGED jobvars

\* The timer calls run and periodic in turn.
periodic ==
    /\ EventLoop /\ queue.run_after = "periodic"
    /\ queue' = [queue EXCEPT !.run_after = "run"]
    /\ stack' = IF queue.state = "running" THEN Append(stack, Process) ELSE stack
    /\ UNCHANGED jobvars

TimedRun ==
    /\ EventLoop /\ queue.run_after = "run"
    /\ queue' = run(queue)
    /\ UNCHANGED <<stack, jobvars>>

\* A user's call of enque, clear, run or stop.
Call ==
    /\ EventLoop
    /\ queue' \in Scripted(queue) \ {queue}
    /\ UNCHANGED <<stack, jobvars>>

Interpreter ==
    \/ Return \/ Launch \/ LoopEnds \/ NextJobs
    \/ NoMoreJobs("isdone") \/ NoMoreJobs("isempty")

Timer == periodic \/ TimedRun

Next ==
    \/ Interpreter
    \/ Timer
    \/ \E j \in Jobs : process_line(j) \/ RunDirectly(j)
    \/ Call

Spec == Init /\ [][Next]_vars

\* A method that can go on does; a timer that stays due and a program that
\* has ended are not passed over for ever; every program ends.
Fairness ==
    /\ WF_vars(Interpreter)
    /\ SF_vars(Timer)
    /\ SF_vars(\E j \in Jobs : process_line(j))

FairSpec == Spec /\ Fairness

-----------------------------------------------------------------------------
(* Properties *)

Statuses == {"initialized", "running", "done"}

Queues ==
    [joblist : Seq(Jobs), freelist : Seq(Hosts),
     state : {"running", "stopped"}, run_after : {"none", "run", "periodic"}]

Frames == [at : {"process", "wait", "done"}, job : Jobs \cup {None}, left : Seq(Hosts)]

TypeOK ==
    /\ queue \in Queues
    /\ status \in [Jobs -> Statuses]
    /\ hosts \in [Jobs -> Hosts \cup {None}]
    /\ callbacks \in [Jobs -> Seq(Hosts)]
    /\ pipes \subseteq Jobs
    /\ stack \in Seq(Frames)

\* A machine with a running job is not free, and no two jobs run on one
\* machine (process and jobdone nest, and a job that is queued again while it
\* runs is told another machine).
OneJobToAMachine ==
    \A j \in Jobs :
        status[j] = "running" /\ hosts[j] # None =>
            /\ hosts[j] \notin ToSet(queue.freelist)
            /\ \A k \in Jobs \ {j} : status[k] = "running" => hosts[k] # hosts[j]

\* isdone_callback is called only when none of the jobs that the queue
\* started is running, on whatever path the last of them ended.
DoneMeansDone ==
    [][NoMoreJobs("isdone") =>
        \A j \in Jobs : status[j] = "running" => hosts[j] = None]_vars

\* The machines that will be free again: a program that runs, or a callback
\* under way, gives them back.
Returning(h) ==
    \/ h \in ToSet(queue.freelist)
    \/ \E j \in pipes : h \in ToSet(callbacks[j])
    \/ \E i \in DOMAIN stack : h \in ToSet(stack[i].left)

\* The program of a job is not started, or the job does not run again: an error.
FailedStart ==
    \E j \in Jobs :
        /\ callbacks'[j] # callbacks[j]
        /\ status'[j] = "done" => status[j] = "done"
        /\ j \notin pipes'

MachinesKept ==
    \A h \in Hosts : Returning(h) => Returning(h)' \/ FailedStart

\* A machine is lost for good only to a job that could not be started (process
\* takes it off freelist before "$job run"), never to any order of ends.
OnlyFailedStartsLoseMachines == [][MachinesKept]_vars

Loops == {i \in DOMAIN stack : stack[i].at = "process"}

StopKept ==
    queue.state = "stopped" =>
        /\ ~TimedRun
        /\ queue'.state = "stopped" => Cardinality(Loops') =< Cardinality(Loops)

\* A stopped queue begins no new round of starting jobs until run is called:
\* neither an old timer nor the end of a job sets it going.
StopHolds == [][StopKept]_vars

\* "Enquing jobs will start running automatically": as long as one machine is
\* not lost, each queued job leaves the queue of a queue that runs.
QueuedJobsStart ==
    [](\E h \in Hosts : Returning(h)) /\ <>[](queue.state = "running") =>
        \A j \in Jobs : j \in ToSet(queue.joblist) ~> j \notin ToSet(queue.joblist)
=============================================================================
