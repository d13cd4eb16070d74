# AMESTER in TLA+

AMESTER (`src/vfs`) is a Tcl/Itcl program that connects to servers through
their service processors, reads power, thermal and performance sensors over
IPMI, and offers them to scripts and graphs. This directory holds TLA+ models
of its core: how one request at a time is driven through an unreliable
connection, how calls that wait for an answer nest, how sensors are polled, and
how the job library shares its machines out.

Run a model with `tlc -config <cfg> <MC module>`, the proofs with
`tlapm <Proofs module>`. `PROJECT.json` lists the runs, maps every definition
to the lines it models and lists the hazards the properties are about.

## 1. The system

Everything runs in one Tcl interpreter with an event loop. A handler (socket
readable, `after` timer, GUI or script call) runs to completion, except where
it enters the event loop again with `vwait`: `ipmi_send_sync` does, and every
object is built through it.

| Component | Source (`src/vfs/lib/app-amester/` unless given) | State it keeps | Operations |
|---|---|---|---|
| FSP link (netc) | `netc.itcl` | status, socket, request queue, request in progress, four kinds of timers, response cache | `ipmi_send`, `ipmi_send_sync`, queue and dequeue, `netc_process`, open, close, timeout, health, surveillance |
| OpenBMC link | `openbmc.itcl`, `openbmc2.itcl` | the same, over HTTP requests with callbacks | login, `openbmc_send`, `openbmc_process`, timeout, close, health |
| RMCP+ link | `rmcp.itcl` | the same, over UDP with the RAKP handshake | `rmcp_process`, open, close, timeout, health |
| ipmitool link | `openpower.itcl` | the same, through a worker thread | `ipmi_thread_start`, `ipmi_process`, dequeue, health |
| localhost link | `local.itcl` | the same, through a local worker | `ipmi_process`, dequeue |
| ameutil link | `host.itcl` | `sockcallback`, message queue by priority, status | `net_open`, `net_close`, `net_write_msg`, `net_process_msg`, timers |
| agent link | `emtagent.itcl` | the same as host | `agent_open`, `agent_process_msg`, ... |
| BladeCenter link | `bc.itcl`, `blade.itcl` | the same, telnet CLI to the management module | `net_open`, `net_send_msg`, `bc_ipmicmd` |
| other links | `systemz.itcl`, `tunasim.itcl` | variants of netc | the same |
| AME component, sensor polling | `ame.itcl`, `ame_2_8.itcl` ... `ame_2_28.itcl` | sensor list, its generation, queue of sensors to read | watch list changes, `sensor_watch_*`, init, traces |
| Sensors | `sensor.itcl`, `sensor_2_8.itcl` ... `sensor_2_27.itcl` | last value, timestamps, callbacks | `sensor_update`, `sensor_data_callback` |
| Parameters, trace buffers | `parm_2_23.itcl` ..., `tracebuffer_2_20.itcl` ... | list, values, record offsets | read, write, assembling a trace |
| Scopes (graphs) | `scope.itcl`, `scope_2_10.itcl` ... | plot data | GUI |
| Jobs | `../job/job.itcl` | list of waiting jobs, list of free machines, state and timer of the queue; status and callbacks of each job | `enque`, `run`, `periodic`, `process`, `stop`, `clear`, `jobdone` |
| Data, log, command line, multiselect, partition add-on | `../data`, `../log`, `../commandline`, `../multiselect`, `../power7_partition` | histograms, GUI state | statistics, GUI |
| Main program | `amester.tcl` | options, `network` switch | startup, exit |
| Agent server | `src/agent/lib/app-emtagent` | clients, local sensors | accept, read command, answer |

Interaction: scripts, GUI and AME components call `ipmi_send` on a link with a
callback; the link answers by evaluating the callback inside its own handler.
The callback of a sensor reading queues the sensor again and sends the next
reading, so polling is a chain of callbacks through the link's queue. Links of
all kinds read one global switch, `::network`.

What is hard, component by component, and what makes it correct:

* **Links.** A request is retried when the connection drops, so the same
  request passes several times through queue, in-progress slot, timer and
  wire. It must be neither lost nor answered twice, answers must reach the
  callback of their own request, order within a priority must survive
  retries, no timer may outlive what it watches, and the link must come back.
* **Synchronous calls.** `vwait` nests: an outer caller cannot return before
  the inner ones do, and a callback that calls `ipmi_send_sync` runs while the
  handler that called it is suspended, in some links with its own request still
  on file.
* **Sensor polling.** A change of the sensor list makes answers under way
  stale; a failed reading restarts the chain. There must be exactly one chain
  and it must not die.
* **Trace buffers, parameters.** Data assembled over many requests while the
  firmware keeps writing.
* **Jobs.** A pool of machines that several loops take from and give back to,
  nested in one another because starting a job may wait for it and its end
  starts others. No machine may be shared or lost, and a stop must hold.

## 2. The modules

| Module | Models | Extends |
|---|---|---|
| `RequestContract` | what every link promises its clients (abstract) | |
| `RequestQueue` | the request list and the one request in progress, as in all links | |
| `LinkQueue` | what the queues of netc and openbmc add to it | `RequestQueue` |
| `NetcLink` | `netc.itcl`: connection, authentication, timers, retries | `LinkQueue` |
| `OpenbmcLink` | `openbmc.itcl`: login, HTTP requests, timers, retries | `LinkQueue` |
| `SyncCalls` | `ipmi_send_sync`: calls that wait in nested event loops | `RequestQueue` |
| `RmcpLink` | `rmcp.itcl`: the handshake over UDP, its timers, retries | `SyncCalls` |
| `WorkerLink` | `local.itcl` and `openpower.itcl`: requests through a thread | `SyncCalls` |
| `AgentLink` | `emtagent.itcl`: a request queue over a message link | `SyncCalls` |
| `RoundRobin` | the order in which a watch updates its sensors (abstract) | |
| `SensorWatch` | the sensor watch of `ame_2_28.itcl` and `sensor_2_27.itcl` | |
| `JobQueue` | `job.itcl` | |
| `RequestQueueProofs` | lemmas that the proofs of all links share | `RequestQueue` |
| `NetcLinkProofs`, `OpenbmcLinkProofs`, `RmcpLinkProofs`, `WorkerLinkProofs`, `AgentLinkProofs`, `SensorWatchProofs`, `JobQueueProofs` | lemmas and theorems | the above |
| `MC...` | the instances that TLC checks | the above |

Definitions named `X_Something` are faulty variants of `X`. Nothing uses them;
each was put in the place of `X` to see that a property notices the fault
(`PROJECT.json`, "mutants").

A handler that runs to completion is one action, with everything it calls; one
that waits in the event loop is two, and any handler may run between them.
Timers may fire at any moment while they are armed: the delays of the code are
configurable and no property is about them.

### RequestContract

A client sends each request once; it stays outstanding until its callback runs
once, with the answer to that request. With `outstanding` = sent and not served
and `answered` = the callbacks run, every step of the netc, worker and agent
links is a step of the contract or a stutter (`KeepsContract`). The OpenBMC and
RMCP+ links keep it as long as what the repository's disagreements are about
has not happened (`ContractKept`, section 5).

### RequestQueue, LinkQueue

`ipmi_msgq` is the list of the same name (only the request is kept of each
entry). `inprogress` is the request filed in the array `inprogress`, which has
one possible tag, 0. `issued` and `answered` are history. `InsertLast` and
`InsertFirst` are `linsert` followed by the stable `lsort` of `ipmi_queue`.

`LinkQueue` adds `inprogress_q`, the list of tags, which netc and openbmc write
separately from the array, and look at in other handlers than it;
`request_after`, whether the timer stored in `inprogress(tag,after)` is armed;
and the requests that are faked.

| Operator | Code |
|---|---|
| `ipmi_queue` | `ipmi_send` and `ipmi_queue`: only a request that finds the queue empty is sent at once |
| `CanTransmit`, `ipmi_dequeue`, `Transmit` | the guards of `ipmi_dequeue`, and what it does past them |
| `TakeBack` | the loop of `netc_close` / `openbmc_close` that queues the request in progress again |
| `Answer` | `processIpmi` / `openbmc_process_packet`: clear, dequeue, run the callback |

A request of netfn 6 command 1 is never sent: the link fakes the answer inside
the send, and that answer dequeues the next request before it runs its
callback. `Transmit` computes the outcome of this recursion: the callbacks of a
run of faked requests come in reverse order.

### NetcLink

`netc_status`, `netc_sock`, `netc_id`, `link` and the timers are the variables
of the class. `host` is the set of messages of this connection that the FSP
has received and may still answer; closing the socket empties it, because what
comes later comes on no socket. Each action is one handler: the client's call
(`ipmi_send`), the four timers (`OpenTimeout`, `RequestTimeout`, `ipmi_health`,
`netc_surveillance`), `netc_process` by the kind of message (`VersionAccepted`,
`VersionRefused`, `ClientIdInUse`, `PasswordAccepted`, `PasswordRejected`,
`IpmiAnswer`, `PollAnswer`), `readMsg` on a closed connection
(`ConnectionLost`), a message the FSP never answers or a failed write, which
the code swallows (`NoAnswer`), the pause box of the GUI (`ToggleNetwork`) and
the destructor (`Destroy`). `netc_open` may find a socket, fail to get one,
fail the handshake, or succeed; `netc_close` stops half way without a socket.

### OpenbmcLink

An IPMI request is an HTTP request with a callback. `openbmc_sock` says whether
the code keeps a token of one; `http` counts, for each IPMI request, the HTTP
requests pending. The difference to netc is that closing the link cannot recall
them. The login runs `http::geturl` without a callback, which enters the event
loop: `openbmc_open` begins a login, `LoginOk` and `LoginFails` end the
innermost one, and any handler may run between. A behaviour chooses in
`misfortunes` which of two things it may meet: an answer that outlives
`openbmc_close` ("late"), and `http::geturl` failing at once ("send"). Each
property says which of them it excludes.

### SyncCalls

`waits` is the stack of calls of `ipmi_send_sync` that have not returned: the
request each waits for, and what the caller is inside of (nothing of the link,
a request's callback, or the last handler of a handshake). A call returns only
when it is the innermost and its request is served (`Returning`), and does so
before anything else runs; otherwise the innermost `vwait` runs the next
handler (`EventLoop`), which may begin another call. Two properties are stated
for all links with such calls: `NothingLost`, that every request sent is answered,
waits or is on file, and `CallbacksStay`, that a callback which waits does not get
its answer, as it is where the callback runs before `inprogress` is cleared.

### RmcpLink

`rmcp_status`, `rmcp_sock`, `rmcp_open_after` and `request_after` are the
variables of the class. `stale_after` counts armed timers that no variable
names any more: `rmcp_close` leaves the open timer running, and a later
`rmcp_open` overwrites the variable. `host` is what is on its way to the present
socket, the handshake's five packets or answers. `HandshakeGoesOn(i)` is the
handler of the i-th packet, `HandshakeDone` that of the last, which reports the
link connected and waits for the admin privilege; `HandshakeReturns` is its
second half, on whatever session there is by then. The callback of an answer may
wait too (`AnswerWaits`, `CallbackReturns`): in this link its request is still
filed meanwhile. `spoiled` remembers the three events after which some of the
properties are not claimed: a callback waited, an answer came twice, a ping
could not be sent.

### WorkerLink

The two links with a worker thread differ in three places, on which `kind`
decides. `worker` is the thread's queue. `Reply` and `EmptyReply` are
`ipmi_process`; `WorkerFails` is the `exec` that fails in the thread, after which
no reply is posted. In `ReplyWaits` the callback makes a synchronous call: on
openpower the next request has been sent by then, on a localhost the request
answered is still on file, and `CallReturns` finishes its handler.

### AgentLink

Two queues, one on top of the other. `ipmi_msgq` and `inprogress` are the IPMI
queue; `agent_status`, `agent_sock`, `open_after`, `agent_msgq` and
`sockcallback` are the message link, where a message is named by the request it
carries; `replies` is what the agent has still to answer. One handler goes
through many procedures (a reply runs a callback, sends the next request, which
writes a message, which may fail and close the link), so the procedures are
functions from a record of the whole state, `Link`, to its next value, and
`works` says whether the write (or the opening) succeeds. A reply may be an answer
(`Reply`, `ReplyWaits`), empty (`EmptyReply`), or no answer at all (`ReplyFails`):
the agent sends the text of any Tcl error as its reply (`main.tcl:1101`-`1105` of
the agent), on which `ipmi_process` fails in line 315 or 316, and the `catch` of
`agent_process_msg` drops the error. `Stranded` says that the request on file has
no message any more.

### SensorWatch

`sensorobjs`, `sensor_watch_queue` and `sensor_watch_generation` are those of
the class; `commands` is what the link has not answered, oldest first, each
with the generation the code passes to its callback. The link is taken to answer
each command once and in order, which is what `RequestContract` and
`ServedInOrder` say of it (all these commands have the same priority).
`data_after` counts the timers of `sensor_data_callback` on hosts that are
delayed; `sync` is what is left of a `sensor_update_by_object_sync`.
The actions are the user's calls, the start and each answer of a synchronous
update, the timer, and one action for each way through `sensor_watch_callback`:
error status, short or stale answer, good answer, failing update, and a good
answer in which a script's `new_data_callback` changes the list. `Faults` and
`Uses` say which of them an instance has.

`RoundRobin` is what the watch promises while nothing goes wrong: the watched
sensors stand in a ring, each answer updates as many as a command holds at the
front of it and moves them to the back, and only a new list begins a new ring.
The ring is what is asked for followed by what waits (`Ring`); an answer for an
earlier list leaves it alone (`GoesRound`).

### JobQueue

`queue` is the record of `joblist`, `freelist`, `state` and which of its two
commands the armed timer runs. `status`, `hosts` and `callbacks` are fields of
each job, `pipes` the programs that run. `stack` holds the methods that have not
returned, innermost last: a loop of `process`, a `job_exec::run` that waits
(`-sync 1`), or a `job::done` with the callbacks it has still to call.

| Action | Code |
|---|---|
| `Launch`, `LoopEnds` | one round of `process`; `StartJob` is `$job run` of the three kinds, with its errors |
| `process_line` | the end of a program's output: `close`, `done` |
| `NextJobs`, `NoMoreJobs` | `jobdone`, with or without jobs waiting |
| `Return` | `done` and `run` return |
| `periodic`, `TimedRun` | the timer, which calls `periodic` and `run` in turn |
| `Call`, `RunDirectly` | a user's calls |

Where the code calls a script (a `job_tcl`, the three callbacks of the queue) the
script may do what `Scripted` lists: nothing, add jobs, `clear`, `run` or `stop`.

## 3. What is checked

| Run | Instance | Shows |
|---|---|---|
| `netc` | 3 requests: two of one priority, a more urgent one that is faked; 2 client ids | agreement of status, socket and link, timers, one request at a time, nothing lost or repeated, order and priority kept, pause, no retry after a rejected password, no forgotten backlog, `RequestContract`; the link reconnects and answers every request |
| `openbmc` | 4 requests: two of one priority, a more urgent one, one faked; 2 HTTP requests for each, 2 nested logins; with failing sends, with late answers too, and with neither | nothing lost or repeated, status, link and token agree; without the misfortunes no exit, no wait for nothing, every request answered, `RequestContract` |
| `rmcp` | 2 requests, 3 privilege requests, 2 faults | nothing the link waits for is without a timer; each request is in line once and in its place, also when packets come twice; the contract, and every nested call returns |
| `worker` | 3 requests, both kinds of link | replies meet their request; the contract, and every nested call returns |
| `agent` | 3 requests | status, socket, timers and messages agree; the contract; a request is stranded only by a close, a pause or a reply that is no answer; otherwise every call returns |
| `watch_calm` | 3 sensors, 2 to a command, 4 lists, 4 changes of the list | one command at a time, sensors updated in strict rotation (`RoundRobin`), each of them for ever |
| `watch_faults` | 3 sensors, 2 to a command, 2 changes, every fault, every use, delayed hosts and others | only a bad answer ends the watch or drops a sensor; a restart or new list repairs it |
| `jobs` | a job of each kind, 2 machines, 2 batches to enqueue | no machine is shared, only a failed start loses one, "done" means done, a stop holds, queued jobs start |
| `openbmc_late`, `watch_error`, `rmcp_reopen`, `agent_repost` | as above, the first and second with one misfortune alone | the disagreements of section 5 |

Why the bounds are enough. A link handles one request at a time and looks at
others only through their priority: two of one priority show order, a third
shows priority, one that is faked shows the recursion of the send. In `rmcp`,
where a privilege request of each session joins the queue, two requests and
three privileges give both. The number of reconnections, timeouts and retries is
not bounded in `netc`, `openbmc`, `worker` and `agent`. In `rmcp` each session
needs a privilege request of its own, so `MaxFaults` bounds what ends a session
early, or drops or repeats a packet; a timer that fires with nothing on its way
is not counted, nor is one left over from an earlier session. Two faults
and three sessions let a timer of the first session meet the third.
Synchronous calls nest as deeply as there are requests. `netc_id` wraps at 2
instead of 10000; only a change of it is looked at. Two pending HTTP requests
for one IPMI request are a first try and its retry; with three, nothing new can
be pending. Three sensors, two to a command, give lists of less than a batch, of
one and of two, whose batches differ from round to round; two changes of the list
give stale answers for two lists at once.
`MaxCommands`, `MaxQueue` and `MaxTimers` bound what users do (a call waits
until there is room), never what the component does in answer, except
`MaxTimers`, which also holds back an answer that would start a timer for a
sensor that already has that many. Three jobs on two machines leave one waiting;
a job may be queued again at any time, so each machine is given out many times
over and loops of `process` nest three deep.

Deadlock is not checked: every one of these systems may come to rest (a deleted
object, a rejected password, an empty sensor list, a link whose requests have all
been made).

### Fairness

The Tcl event loop runs every timer that stays armed and reads every packet, and
a `vwait` whose variable is set returns: weak fairness. Where the loop is only
free now and then (the jobs' timer and the ends of programs, between methods that
nest) it is strong fairness: it does not pass over the same event for ever. Of
the network and the service processor no more is assumed than that they do not
fail for ever, by strong fairness of the step that succeeds: in netc
`VersionAccepted`, `PasswordAccepted`, `IpmiAnswer` and an opening by the health
timer; in openbmc `LoginOk` and `openbmc_process`; in rmcp opening and each
handshake packet; in the worker links a reply that is not empty; in the agent
link opening, connecting and a reply. Nothing is assumed of users, except that
they do not run programs that never end (`process_line`). Liveness is stated for
a link that is from some point on neither deleted, nor rejected, nor paused, and
apart from the situations of section 5 that stop it. `SensorWatch` assumes that
the link answers (`RequestsAnswered`) and that timers run. Every run of a
disagreement is a safety property and needs no fairness.

## 4. What is proved

Each theorem holds for any set of requests, sensors or jobs, any priorities, any
depth of nesting and, where the model has bounds, any bound. Assumed are only
the `ASSUME`s of the modules: priorities are integers, no request is called
`None` or is one of a link's own messages, faked requests and privilege requests
are requests, there are at least two client ids, a list names no sensor twice, a
batch has a place, a pool names no machine twice. Four theorems about the sensor
watch assume besides that nothing goes wrong (`Calm`).

`RequestQueueProofs` has the lemmas that the links share. `InsertIsQueue` and the
`...Holds` lemmas say what a list of distinct requests holds after an insert, an
append or taking its tail. The `Contract...` lemmas say that steps of certain
shapes are steps of `RequestContract`: a request is sent, one that was
outstanding is answered, or both. `Accounted` says of a link what
`EveryRequestAccounted` counts: what waits, what is in progress and what was
answered are disjoint, each without repetition, and make up what was issued.
`Move` is what sending from a queue does to these: it runs the callbacks of the
faked requests in front and puts the next request in progress. Each way of
changing a queue (a new request, the next request, a request taken back, an
answer) has a lemma saying that it keeps `Accounted`, and, if the answer is the
request's own, that it is a step of the contract however many callbacks it ran
(`RanContract`). `Sorted` says that a queue is in the order of the priorities;
both inserts keep it.

The order of service (`ServedInOrder`) is a property of the whole line, that is
what was served, what is in progress and what waits, one after the other. As it
stands it is not inductive: a request taken back is put before the first one that
is not more urgent, which is its place only if the queue is sorted. `InLine` adds
that and takes the line apart: what was served is in order, so is the queue,
which is `Sorted`, and the request in progress is behind the first and ahead of
the second (`Ahead`). A new request keeps this because it was sent after all
there are, and a send because only faked requests are served past others.
`Ordered` is `InLine` of the link's own variables; `OrderedLine` gives the
property back.

`NetcLinkProofs`: `TypeOK`, `ConnectionConsistent`, `TimersMatchState`,
`OneOutstanding`, `AnswersMatch`, `DeletedIsQuiet`, `PausedSendsNothing`,
`RejectionIsFinal`, `EveryRequestAccounted`, `KeepsContract`, `NoForgottenBacklog`,
`ServedInOrder` and `MostUrgentFirst`. The argument is one inductive invariant, `Inv`, the
conjunction of the type invariant with three parts. `QueueInv`: the list of tags
is empty or `<<0>>` according to the array, and the request timer is armed
exactly while a request is in progress. `HostInv`: whatever IPMI request the FSP
may still answer is the one in progress. `ConnInv`: status, socket, link and open
timer agree, the health timer is armed unless the object is deleted or the
password was rejected, and either of these leaves the connection closed for
good. None of the properties is inductive alone: that an answer meets its own
request needs that only one is under way, which needs that the queue's guard
looks at the same state as the close that resets it, which needs that a close
without a socket has nothing in progress. Each operator of `LinkQueue` has a
lemma saying that it keeps `QueueInv`, and the step proof has one step for each
handler. On `Inv` rest the others. `Accounted` is inductive with it, since
`HostInv` says that an answer finds its own request in progress, and the contract
follows from the same lemmas. A send leaves requests waiting only behind the one
it put in progress, so each handler that ends with nothing in progress either
took everything off the queue or found the link closed or paused. And the line
stays `Ordered`: of two requests of one priority, the later is never ahead, and
the head of the queue is as urgent as any of it.

`OpenbmcLinkProofs`: `TypeOK`, `SessionConsistent`, `EveryRequestAccounted`,
`NeverExits`, `WaitingIsReal`, `ContractKept`, `ServedInOrder` and
`MostUrgentFirst`. `SessionConsistent` is inductive
alone: a token is written only where a request is put on the wire, which happens
only when connected, and every handler that leaves that status drops the token
and takes the link down. Nothing about a late answer or a nested login is needed,
since each handler keeps the property whatever state it finds. The others need
an invariant of four parts. `Accounted` is as above. `TagsOK` ties the list of
tags and the request timer to the array. `HttpOK` says what is pending at the
HTTP library: there is room for every request that may still be sent, and,
unless answers come late, only the request in progress has anything pending, and
one request only, so an answer always meets its own request. `WaitOK` says that,
unless sends fail, a request in progress has a timer and a token, which is
`WaitingIsReal`. The order of
service is claimed with late answers too: such an answer ends the wrong request,
but always the one in progress, so that nothing overtakes it. `Accounted` and
`Ordered` are enough for it.

`RmcpLinkProofs`: `TypeOK`, `Watched`, `ContractKept`, `NoneLost`,
`ServedInOrder`, `LineKept` and `MostUrgentFirst`. The strengthening for
`Watched` is `OneHandshake`: at most one packet of a handshake is under way, and
only while the link is opening. So the answer that reports the link connected
finds the open timer armed and cancels it, and a timer that a new opening
overwrites is counted as stale. `ContractKept` needs `Kept`, which says, until a
callback waits or an answer comes twice, that what waits, what is on file and
what was answered are disjoint and that the only answer under way is that of the
request on file. For the order of service each handler is one of a few kinds of
step of the line (`LineStep`): it sends a request, takes one back, answers, begins
a wait or returns from one. The second copy of an answer ends the request on file
in its turn and does no harm here. A callback that waits does: its request is
served and still on file, and a close puts it back in the queue. So `InOrder` says
that the queue is always sorted and, until a callback has waited, the line is
`Ordered`. That what is in line was sent before (`AllSent`) is part of it; in the
other links that follows from `Accounted`, which here is part of `Kept` and ends
with it. `NoneLost` is `NothingLost` until a callback waits, with second copies: each kind of
step but the last two keeps in the line whatever it does not answer (`Keeps`), and
every call waits for a request sent before or with it (`CallsAreSent`). `LineKept`,
which `rmcp` checks, is this and `ServedInOrder` together: what stands in line in
the order sent cannot stand there twice.

`WorkerLinkProofs`: `TypeOK`, `OneTask`, `KeepsContract` and `NothingLost`, for
both kinds of link, and `CallbacksStay` on a localhost. The invariant says that
what waits, what is on file and what was answered are disjoint, except for one
request on a localhost: that whose callback is waiting. `WaitInv` says that such a localhost has nothing posted, so it waits
in one callback only. That nothing is lost needs no more than that each operator
leads to a link that holds what its argument held (`Holds`) and leaves what is on
file there until the handler clears it. `CallbacksStay` is proved with it: the
request of the waiting callback stays on file, answered, so that nothing can be
sent, in particular not what the callback waits for. So the part of `CallReturns`
for a callback of a localhost, though the code has it, is never reached.

`AgentLinkProofs`: `TypeOK`, `Watched`, `KeepsContract`, `NothingLost`,
`StrandedOnlyByFault` and `CallbacksStay`. Since the handlers of
this link are functions on a record of both links, the invariant is a predicate
of such a record (`Sound`) and each function has a lemma saying that it leads
from a sound record to a sound one. `Carries` is the heart of it: the request on
file has at most one message, waiting or under way, and none once it is answered.
That is why an answer without a request id can only be that of the request on
file. For `StrandedOnlyByFault` each function has a second lemma: from a record it
is given to the one it leads to, no socket is opened, and a request loses its
message only if one is closed (`Cuts`); what remains are the handlers that drop a
line or a message in a pause, and `ReplyFails`. `NothingLost` and `CallbacksStay` need a
third, that each holds what it was given (`Holds`). Both relations are transitive,
as the handlers are chains of such functions.

`SensorWatchProofs`: `TypeOK`, `OnlyBadAnswersEndWatch`,
`OnlyBadAnswersLoseSensors` and `RestartRepairs`, for every batch size and every
mixture of faults and uses, and `OneCommand`, `EverySensorOnce` and `GoesRound`.
The invariant `Inv` adds to the type only that no command is empty, which is what
makes a good answer put something back, hence the queue not empty, hence another
command. The rest is a lemma on each
operator: a batch and what remains make up a queue (`SplitQueue`), so
`sensor_watch_cmd` asks for or keeps every sensor of its queue
(`CommandCovers`), and `Requeue` with `Rearm` keeps or puts on a timer every
sensor it is given (`RequeueCovers`, `RearmCounts`). The three action properties
are conjuncts of `Kept`, which each action has a lemma for. `OneCommand`,
`EverySensorOnce` and `GoesRound` hold without faults only, and are proved from
that (`Calm`). Their invariant is `RoundInv`: the queue and the one command for
this list name each watched sensor once, that command is full unless the queue is
empty, and no command is newer than the list. A good answer
appends the command's sensors to the queue and cuts a batch off again, and a
sequence made of two names no sensor twice exactly if neither part does and they
share none (`OnceConcat`), whichever way it is read. With the full command each
handler is a step of `RoundRobin` (`TheWatchGoesRound`): were a command smaller
than it could be, the sensors it left out would be overtaken. What follows for
the whole history is `TheRingIsTheList`: what is asked for followed by what waits
is at any time the user's list, turned by some number of places (`Turned`), so
that no answer ever mixes the order.

`JobQueueProofs`: `TypeOK`, `OneJobToAMachine`, `DoneMeansDone`,
`OnlyFailedStartsLoseMachines` and `StopHolds`. `OneJobToAMachine` speaks of
`hosts`, but a job that is queued twice has two machines and `hosts` names one of
them. The invariant is therefore about all places a machine can be: `freelist`,
the callbacks of a running job (`Booked`), and the callbacks a `job::done` has
still to call. `Separate` says that no machine is in two of them or twice in one.
`DoneMeansDone` follows by counting: a list of as many machines as the pool has,
none twice, has all of them (`AllFree`), so no job has one. In
`MachinesComeBack` a machine is followed from one place to the next: off
`freelist` to a callback, from a job's callbacks to those of its `done`, and from
there to `freelist`; only a start that fails has no next place.

Every safety property of the passing runs is proved. Only model-checked is all
liveness: the prover has no rule for fairness and `ENABLED`.

The operators of the models are not recursive (a run of faked requests is
counted, not recursed through), since the prover cannot use induction over data.

## 5. Where the code disagrees with itself

These have a run each; `PROJECT.json` quotes the lines.

* `openbmc_late`: an answer that comes after its request timed out is given to
  the request then in progress.
* `watch_error`: an error answer to a command for an earlier list starts a
  second chain of commands.
* `rmcp_reopen`: a session whose first ping cannot be sent leaves its socket
  behind, so that no later attempt opens another.
* `agent_repost`: a message under way when the connection closes is not sent
  again, because the loop that would do so reads another array; its request stays
  on file and no other is ever sent.

Others show in the models and have no run of their own.

* netc: on status 0025 the announced retry with another id is closed by the same
  call that starts it (`ClientIdInUse`; `netc.itcl:1111`-`1147`).
* openbmc: a late answer that finds nothing in progress ends the program, where
  the code announces a warning (`openbmc.itcl:661`; `NeverExits` holds without
  late answers). If the first send after a login fails, the queue waits for ever
  (line 573; `WaitingIsReal` holds without failing sends). While an OpenBMC is
  silent every run of the health timer begins another login inside the wait for
  the last (`openbmc_open`).
* rmcp: the second copy of an answer goes to the next request in progress, and a
  callback that waits clears what was filed meanwhile (`CallbackReturns`;
  `rmcp.itcl:834`).
* localhost and agent: a synchronous call in a callback waits for itself, since
  the callback's own request is on file until it returns (`local.itcl:344`,
  `emtagent.itcl:332`; proved, `WaitingCallbacksStay`). openpower sends the next
  request first and does not have this.
* Both worker links: if the program cannot be started no answer is posted, no
  timer watches the request, and no other is ever sent (`openpower.itcl:806`).
* agent: a message or a reply that meets a pause is dropped for good
  (`emtagent.itcl:659`). A reply that is no answer, as the agent sends for a command
  that fails, leaves its request on file with no timer and its callback not run,
  and no other is ever sent (`ReplyFails`; lines 315, 316 and 691).
* watch: `catch [...]` catches nothing, so a failing update ends the watch of all
  sensors (`ame_2_28.itcl:782`), and so does a short answer (`DroppedAnswer`). A
  synchronous update puts sensors that are not watched on the watch's queue
  (`SyncAnswer`), and so does a script that changes the list inside a callback
  (`ScriptedAnswer`). On a localhost or emtagent the watch stops after one round,
  since the timer that puts a sensor back sends nothing (`DataAfter`).
* jobs: a job that cannot be started takes its machine with it, the loop ends
  with the error, and the queue's "done" callback never comes (`job.itcl:339`;
  the comment at line 63 and `manual.txt:1749` promise it at the end of all jobs).
  A `stop` does not stop a loop of `process` that is under way (`StopHolds` is
  about new ones). The manual's method `start` (`manual.txt:1756`) is `run` in
  the code.

## 6. What is not modelled

The contents of packets and of HTTP messages, the cryptography, delays,
statistics, the GUI, and the construction of objects (autodetection, object
creation), of every component. Of the links: the response cache of
`ipmi_send_sync_cache`; partial reads, which `readMsg` takes for the end of a
connection; requests with timeout 0, which have no timer; synchronous calls on
netc and openbmc, whose code for them is the one modelled on the other links. Of
RMCP+: the destructor, and a handshake packet that comes twice. Of the
worker links: output of the program that is not a status and bytes, on which
`ipmi_process` fails (`local.itcl:321`-`328`, where the tag then stays taken, and
`openpower.itcl:710`-`714`, where the next request has been sent and one callback
is lost); no program of the repository prints any. `host.itcl` apart from
`emtagent.itcl`, in which the same procedures serve one priority. Of the job library: deleting a queue or a job, a `run_period` of 0, and scripts that
run jobs or wait inside a callback.

Left out altogether: the BladeCenter link and the variants of netc; earlier
versions of the firmware interface, which are copies; parameters, scopes,
histograms and GUI helpers, whose state nothing else depends on; trace buffers,
where what is right depends on a layout that only the firmware knows; the
partition add-on; the agent's server, whose clients share nothing; and the
vendored C of Tcl, Tk, OpenSSL and SQLite under `src/package`, which is most of
the repository's volume and none of its own program. `PROJECT.json` lists these
with reasons, and the hazards that no property covers.

## 7. What is left

1. Synchronous calls on `NetcLink` and `OpenbmcLink`; there a callback runs after
   the next request is sent, so that they should be like openpower's.
2. An abstract specification of the job queue, which `JobQueue` implements.
3. The framing of `readMsg`, and the response cache under nested calls.
4. `TraceBuffer`, if the firmware's order of writing becomes known.
