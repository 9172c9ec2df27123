------------------------------ MODULE Delivery ------------------------------
(***************************************************************************)
(* The life of the API process and the jobs it accepts: boot, the workers  *)
(* of the job queue (mail delivery, exports), graceful shutdown, crashes.  *)
(* (apps/api/src/main.ts and shutdown.ts, packages/platform-jobs,          *)
(* packages/platform-email, modules/reference-workspace/api/export.job.ts) *)
(*                                                                         *)
(* The queue's tables outlive the process; handlers, requests and workers  *)
(* do not.  An action is one message to the queue, the database or the     *)
(* mail server, or one turn of the boot and shutdown sequences.            *)
(***************************************************************************)
EXTENDS Naturals, Sequences

CONSTANTS
  Job,          \* job ids, never issued twice
  Request,      \* the HTTP requests in flight at once
  None,         \* no job
  RetryLimit,   \* how often the queue retries; no option is passed, so its default
  MaxCrashes    \* bound: how often the process dies without shutting down

ASSUME NoneFresh == None \notin Job
ASSUME Limits == RetryLimit \in Nat /\ MaxCrashes \in Nat

VARIABLES
  stage,      \* how far main() or the shutdown of this process has come
  attached,   \* how many workers are attached, in the order of their registration
  forced,     \* what the shutdown gave up waiting for: "app", "jobs"
  request,    \* the HTTP requests: "idle", or the queue they are about to send to
  queues,     \* queues that exist
  job,        \* the rows of the queues
  worker,     \* the handler each worker is running
  late,       \* handlers nobody waits for any more, which run on
  sent,       \* how often each job has had its effect: mails transported, exports mailed
  unheard,    \* history: jobs with a try whose effect the queue was not told of
  dropped,    \* history: a send found no queue, which tells nobody
  crashes

vars == <<stage, attached, forced, request, queues, job, worker, late, sent, unheard, dropped,
          crashes>>
memory == <<attached, forced, request, worker, late>>
history == <<unheard, dropped, crashes>>

\* The workers as main() and then the modules register them
Registered ==
  <<"email-delivery", "invite-expiry-sweep", "soft-deleted-org-purge", "workspace.export">>
Queue == {Registered[i] : i \in 1..Len(Registered)}

Row == [queue : Queue, state : {"unborn", "created", "retry", "active", "completed", "failed"},
        tries : 0..RetryLimit + 1]
Handler == [pc : {"load", "send", "transport", "done", "broken"}, job : Job, try : Nat]
Idle == [pc |-> "idle", job |-> None, try |-> 0]

TypeOK ==
  /\ stage \in {"down", "boot", "attach", "up", "closing", "stopping", "ending"}
  /\ attached \in 0..Len(Registered)
  /\ forced \in SUBSET {"app", "jobs"}
  /\ request \in [Request -> Queue \cup {"idle"}]
  /\ queues \in SUBSET Queue
  /\ job \in [Job -> Row]
  /\ worker \in [Queue -> Handler \cup {Idle}]
  /\ late \in SUBSET Handler
  /\ sent \in [Job -> Nat]
  /\ unheard \in SUBSET Job
  /\ dropped \in BOOLEAN
  /\ crashes \in 0..MaxCrashes

-----------------------------------------------------------------------------
BossOpen == stage \in {"attach", "up", "closing", "stopping"}
PoolEnded == stage = "ending"

\* mutant: start attaches the first of the collected workers only
AttachedFirst(q) == attached > 0 /\ Registered[1] = q

Attached(q) == \E i \in 1..attached : Registered[i] = q
Busy(q) == worker[q].pc # "idle"
Held == {worker[q].job : q \in {p \in Queue : Busy(p)}}
Unborn == {j \in Job : job[j].state = "unborn"}

\* retry_count < retry_limit ? retry : failed
Failed(row) == [row EXCEPT !.state = IF row.tries <= RetryLimit THEN "retry" ELSE "failed"]

\* boss.send: a queue that does not exist takes nothing and answers null.
Enqueue(q) ==
  IF q \in queues
    THEN /\ \E j \in Unborn : job' = [job EXCEPT ![j] =
              [queue |-> q, state |-> "created", tries |-> 0]]
         /\ UNCHANGED dropped
    ELSE dropped' = TRUE /\ UNCHANGED job

\* The process is gone, and with it what it was doing; what was done and not yet told to
\* the queue is not told any more.
Forget ==
  /\ stage' = "down"
  /\ attached' = 0 /\ forced' = {} /\ late' = {}
  /\ request' = [r \in Request |-> "idle"]
  /\ worker' = [q \in Queue |-> Idle]
  /\ unheard' = unheard \cup {worker[q].job : q \in {p \in Queue : worker[p].pc = "done"}}
  /\ UNCHANGED <<queues, job, sent, dropped>>

-----------------------------------------------------------------------------
Init ==
  /\ stage = "down" /\ attached = 0 /\ forced = {}
  /\ request = [r \in Request |-> "idle"]
  /\ queues = {}
  /\ job = [j \in Job |-> [queue |-> "email-delivery", state |-> "unborn", tries |-> 0]]
  /\ worker = [q \in Queue |-> Idle]
  /\ late = {}
  /\ sent = [j \in Job |-> 0]
  /\ unheard = {} /\ dropped = FALSE /\ crashes = 0

\* main(), which only collects the workers, and boss.start()
Boot ==
  /\ stage = "down"
  /\ stage' = "boot"
  /\ UNCHANGED <<memory, queues, job, sent, history>>

Start ==
  /\ stage = "boot"
  /\ stage' = "attach"
  /\ UNCHANGED <<memory, queues, job, sent, history>>

\* createQueue and work for the next of the collected workers, which starts to fetch
Attach ==
  /\ stage = "attach" /\ attached < Len(Registered)
  /\ attached' = attached + 1
  /\ queues' = queues \cup {Registered[attached + 1]}
  /\ UNCHANGED <<stage, forced, request, worker, late, job, sent, history>>

\* mutant: the server listens while the workers are still being attached
ListenAtOnce ==
  /\ stage = "attach"
  /\ stage' = "up"
  /\ UNCHANGED <<memory, queues, job, sent, history>>

\* buildApp, installGracefulShutdown, listen
Listen ==
  /\ stage = "attach" /\ attached = Len(Registered)
  /\ stage' = "up"
  /\ UNCHANGED <<memory, queues, job, sent, history>>

\* The process dies: killed, out of memory, a failed boot, a second SIGTERM.
Crash ==
  /\ stage # "down" /\ crashes < MaxCrashes
  /\ crashes' = crashes + 1
  /\ Forget

-----------------------------------------------------------------------------
\* A handler of the API that will send a mail or ask for an export
Arrive(r) ==
  /\ stage = "up" /\ request[r] = "idle"
  /\ \E q \in {"email-delivery", "workspace.export"} : request' = [request EXCEPT ![r] = q]
  /\ UNCHANGED <<stage, attached, forced, worker, late, queues, job, sent, history>>

\* email.send, enqueueExport
Send(r) ==
  /\ request[r] # "idle" /\ BossOpen
  /\ Enqueue(request[r])
  /\ request' = [request EXCEPT ![r] = "idle"]
  /\ UNCHANGED <<stage, attached, forced, worker, late, queues, sent, unheard, crashes>>

\* It fails, and its caller is told.
Refuse(r) ==
  /\ request[r] # "idle"
  /\ request' = [request EXCEPT ![r] = "idle"]
  /\ UNCHANGED <<stage, attached, forced, worker, late, queues, job, sent, history>>

-----------------------------------------------------------------------------
\* The worker of q polls, and takes one job at a time.
Fetch(j) ==
  /\ stage \in {"attach", "up", "closing"}
  /\ job[j].state \in {"created", "retry"}
  /\ LET q == job[j].queue IN
       /\ Attached(q) /\ ~Busy(q)
       /\ job' = [job EXCEPT ![j].state = "active", ![j].tries = @ + 1]
       /\ worker' = [worker EXCEPT ![q] =
            [pc |-> IF q = "workspace.export" THEN "load" ELSE "transport", job |-> j,
             try |-> job[j].tries + 1]]
  /\ UNCHANGED <<stage, attached, forced, request, late, queues, sent, history>>

Goto(q, step) == worker' = [worker EXCEPT ![q].pc = step]
Free(q) == worker' = [worker EXCEPT ![q] = Idle]

\* The export's notes, read inside withOrg
Load(q) ==
  /\ worker[q].pc = "load" /\ ~PoolEnded
  /\ Goto(q, "send")
  /\ UNCHANGED <<stage, attached, forced, request, late, queues, job, sent, history>>

\* An effect that was made, of which the handler may learn that it failed
Made(q) ==
  /\ sent' = [sent EXCEPT ![worker[q].job] = @ + 1]
  /\ \/ Goto(q, "done") /\ UNCHANGED unheard
     \/ Goto(q, "broken") /\ unheard' = unheard \cup {worker[q].job}

\* The export's email.send
SendMail(q) ==
  /\ worker[q].pc = "send" /\ BossOpen
  /\ Enqueue("email-delivery")
  /\ Made(q)
  /\ UNCHANGED <<stage, attached, forced, request, late, queues, crashes>>

\* adapter.transport
Transport(q) ==
  /\ worker[q].pc = "transport"
  /\ Made(q)
  /\ UNCHANGED <<stage, attached, forced, request, late, queues, job, dropped, crashes>>

\* The handler returns; the queue is told, or the message is lost.
Complete(q) ==
  /\ worker[q].pc = "done" /\ BossOpen
  /\ LET j == worker[q].job IN
       \/ /\ job' = [job EXCEPT ![j].state = IF @ = "active" THEN "completed" ELSE @]
          /\ UNCHANGED unheard
       \/ unheard' = unheard \cup {j} /\ UNCHANGED job
  /\ Free(q)
  /\ UNCHANGED <<stage, attached, forced, request, late, queues, sent, dropped, crashes>>

\* The handler throws; the queue is told, or the message is lost.
Throw(q) ==
  /\ worker[q].pc \in {"load", "send", "transport", "broken"}
  /\ \/ job' = [job EXCEPT ![worker[q].job] = Failed(@)]
     \/ UNCHANGED job
  /\ Free(q)
  /\ UNCHANGED <<stage, attached, forced, request, late, queues, sent, history>>

\* The handlers that go on although nobody waits for them
GoOn(Q) == late \cup {worker[q] : q \in {p \in Q : worker[p].pc \in {"load", "send", "transport"}}}

\* The queue waits no longer for a handler than the job's expiration.
TimeOut(q) ==
  /\ worker[q].pc \in {"load", "send", "transport"}
  /\ late' = GoOn({q})
  /\ unheard' = unheard \cup {worker[q].job}
  /\ job' = [job EXCEPT ![worker[q].job] = Failed(@)]
  /\ Free(q)
  /\ UNCHANGED <<stage, attached, forced, request, queues, sent, dropped, crashes>>

\* What an overdue handler still does, which nobody is told, or its failure
RunLate(h) ==
  /\ \/ h.pc = "load" /\ ~PoolEnded
        /\ late' = (late \ {h}) \cup {[h EXCEPT !.pc = "send"]}
        /\ UNCHANGED <<job, sent, dropped>>
     \/ late' = late \ {h} /\ UNCHANGED <<job, sent, dropped>>
     \/ /\ h.pc = "send" /\ BossOpen
        /\ Enqueue("email-delivery")
        /\ sent' = [sent EXCEPT ![h.job] = @ + 1]
        /\ late' = late \ {h}
     \/ /\ h.pc = "transport"
        /\ sent' = [sent EXCEPT ![h.job] = @ + 1]
        /\ late' = late \ {h}
        /\ UNCHANGED <<job, dropped>>
  /\ UNCHANGED <<stage, attached, forced, request, worker, queues, unheard, crashes>>

\* mutant: a job expires though its handler is running
ExpireHeld(j) ==
  /\ BossOpen /\ job[j].state = "active"
  /\ job' = [job EXCEPT ![j] = Failed(@)]
  /\ UNCHANGED <<stage, memory, queues, sent, history>>

\* The queue's maintenance fails an active job that nobody runs any more: a worker gives up
\* its handler at the same expiration, before the maintenance comes round.
Expire(j) ==
  /\ BossOpen /\ job[j].state = "active" /\ j \notin Held
  /\ job' = [job EXCEPT ![j] = Failed(@)]
  /\ UNCHANGED <<stage, memory, queues, sent, history>>

-----------------------------------------------------------------------------
Sigterm ==
  /\ stage = "up"
  /\ stage' = "closing"
  /\ UNCHANGED <<memory, queues, job, sent, history>>

\* app.close, which waits for the requests in flight, or fails
Close ==
  /\ stage = "closing"
  /\ \/ (\A r \in Request : request[r] = "idle") /\ UNCHANGED forced
     \/ forced' = forced \cup {"app"}
  /\ stage' = "stopping"
  /\ UNCHANGED <<attached, request, worker, late, queues, job, sent, history>>

\* mutant: the shutdown does not wait for jobs.stop
StopAtOnce ==
  /\ stage = "stopping"
  /\ stage' = "ending"
  /\ UNCHANGED <<memory, queues, job, sent, history>>

\* jobs.stop, which waits for the handlers
Stop ==
  /\ stage = "stopping"
  /\ \A q \in Queue : ~Busy(q)
  /\ stage' = "ending"
  /\ UNCHANGED <<memory, queues, job, sent, history>>

\* jobs.stop has waited long enough, and fails the jobs still active; or it fails itself.
StopForced ==
  /\ stage = "stopping"
  /\ forced' = forced \cup {"jobs"}
  /\ \/ job' = [j \in Job |-> IF j \in Held THEN Failed(job[j]) ELSE job[j]]
     \/ UNCHANGED job
  /\ late' = GoOn(Queue)
  /\ unheard' = unheard \cup Held
  /\ worker' = [q \in Queue |-> Idle]
  /\ stage' = "ending"
  /\ UNCHANGED <<attached, request, queues, sent, dropped, crashes>>

\* pool.end, and the process exits.
Exit ==
  /\ stage = "ending"
  /\ Forget
  /\ UNCHANGED crashes

-----------------------------------------------------------------------------
Process == Boot \/ Start \/ Attach \/ Listen \/ Close \/ Stop \/ StopForced \/ Exit
Run(q) == Load(q) \/ SendMail(q) \/ Transport(q) \/ Complete(q) \/ Throw(q)

Next ==
  \/ Process \/ Sigterm \/ Crash
  \/ \E r \in Request : Arrive(r) \/ Send(r) \/ Refuse(r)
  \/ \E q \in Queue : Run(q) \/ TimeOut(q)
  \/ \E h \in late : RunLate(h)
  \/ \E j \in Job : Fetch(j) \/ Expire(j)

Spec == Init /\ [][Next]_vars

\* The supervisor starts the process again, boot and shutdown go on, handlers end, and the
\* queue gets to every job.
FairSpec ==
  /\ Spec
  /\ WF_vars(Process)
  /\ \A q \in Queue : WF_vars(Run(q))
  /\ \A j \in Job : SF_vars(Fetch(j)) /\ SF_vars(Expire(j))

-----------------------------------------------------------------------------
\* "the queues come online before the HTTP server accepts requests that may enqueue work"
\* (main.ts): nothing is ever sent to a queue that does not exist, where it would vanish
\* without an error.
NothingDropped == ~dropped

\* A mail counted as delivered has left the system, a completed export has sent its mail.
CompletedIsSent == \A j \in Job : job[j].state = "completed" => sent[j] > 0

\* A job has its effect again only when the queue was not told of the first time: the
\* process died or was cut off, the answer was lost, or the handler had overrun its time.
OnceUnlessUnheard == \A j \in Job : sent[j] > 1 => j \in unheard

\* Drain, stop the workers, close the pool (shutdown.ts): no request and no handler that is
\* still waited for finds the pool closed, unless the server failed to close.
ClosedInOrder ==
  PoolEnded =>
    /\ \A q \in Queue : ~Busy(q)
    /\ (\A r \in Request : request[r] = "idle") \/ "app" \in forced

\* A job that was accepted is completed, or given up after its retries.
Settled ==
  \A j \in Job :
    job[j].state \in {"created", "retry", "active"} ~> job[j].state \in {"completed", "failed"}
-----------------------------------------------------------------------------
\* The queues of the attached workers are there, and nothing runs before the boot is over.
BootInv ==
  /\ stage \in {"down", "boot"} => attached = 0
  /\ stage \in {"up", "closing", "stopping", "ending"} => attached = Len(Registered)
  /\ \A i \in 1..attached : Registered[i] \in queues
  /\ attached = 0 => (\A q \in Queue : ~Busy(q)) /\ late = {}
  /\ stage \in {"down", "boot", "attach"} => \A r \in Request : request[r] = "idle"

\* A worker runs an active job of its own queue.
WorkInv ==
  \A q \in Queue : Busy(q) =>
    job[worker[q].job].state = "active" /\ job[worker[q].job].queue = q

\* A job that waits has a try left.
RowInv ==
  \A j \in Job : job[j].state \in {"created", "retry"} => job[j].tries <= RetryLimit

\* The queue has been told of the last effect of j, or the worker is about to tell it.
Landed(j) ==
  \/ job[j].state = "completed"
  \/ \E q \in Queue : worker[q].pc = "done" /\ worker[q].job = j

\* A job none of whose effects went unheard has had one if that was told, and none otherwise.
HeardInv ==
  /\ \A j \in Job : j \in unheard \/ sent[j] = IF Landed(j) THEN 1 ELSE 0
  /\ \A q \in Queue : worker[q].pc = "broken" => worker[q].job \in unheard
  /\ \A h \in late : h.job \in unheard

\* What completes has been sent.
DoneInv ==
  /\ CompletedIsSent
  /\ \A q \in Queue : worker[q].pc \in {"done", "broken"} => sent[worker[q].job] > 0

\* The shutdown leaves a subsystem only when it is quiet, or was given up.
ShutInv ==
  /\ stage \in {"stopping", "ending"} =>
       (\A r \in Request : request[r] = "idle") \/ "app" \in forced
  /\ stage = "ending" => \A q \in Queue : ~Busy(q)

IInv ==
  /\ TypeOK /\ BootInv /\ NothingDropped
  /\ WorkInv /\ RowInv /\ HeardInv /\ DoneInv /\ ShutInv
=============================================================================
