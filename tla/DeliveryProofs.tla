--------------------------- MODULE DeliveryProofs ---------------------------
(***************************************************************************)
(* Delivery for any jobs, requests, retry limit and number of crashes:     *)
(* IInv of Delivery is inductive, and its safety properties follow.        *)
(***************************************************************************)
EXTENDS Delivery, TLAPS

-----------------------------------------------------------------------------
(* The queues and the workers. *)

\* The four queues, by name and by place.
LEMMA Queues ==
  /\ Queue = {"email-delivery", "invite-expiry-sweep", "soft-deleted-org-purge",
              "workspace.export"}
  /\ Len(Registered) = 4
  /\ Registered[1] = "email-delivery"
  /\ \A i \in 1..4 : Registered[i] \in Queue
  /\ \A q \in Queue : \E i \in 1..4 : q = Registered[i]
<1>1. Len(Registered) = 4
  BY DEF Registered
<1>2. /\ Registered[1] = "email-delivery"
      /\ Registered[2] = "invite-expiry-sweep"
      /\ Registered[3] = "soft-deleted-org-purge"
      /\ Registered[4] = "workspace.export"
  BY DEF Registered
<1>3. 1..4 = {1, 2, 3, 4}
  OBVIOUS
<1> HIDE DEF Registered
<1> QED
  BY <1>1, <1>2, <1>3 DEF Queue

\* Once every worker is attached, every queue is there.
LEMMA AllQueues ==
  ASSUME TypeOK, BootInv, stage \in {"up", "closing", "stopping", "ending"}
  PROVE  queues = Queue
<1> HIDE DEF Registered, Queue
<1>1. \A i \in 1..4 : Registered[i] \in queues
  BY Queues DEF BootInv
<1>2. \A q \in Queue : q \in queues
  BY <1>1, Queues
<1> QED
  BY <1>2 DEF TypeOK

\* Once any worker is attached, the mail queue is there.
LEMMA MailQueue ==
  ASSUME TypeOK, BootInv, attached # 0
  PROVE  "email-delivery" \in queues
<1>1. 1 \in 1..attached
  BY Queues DEF TypeOK
<1> QED
  BY <1>1, Queues DEF BootInv

\* A handler belongs to some worker that is attached.
LEMMA Running ==
  ASSUME TypeOK, BootInv, NEW q \in Queue, Busy(q)
  PROVE  /\ attached # 0
         /\ worker[q] \in Handler
         /\ worker[q].job \in Job
BY DEF TypeOK, BootInv, Busy, Handler, Idle

\* No two workers hold one job.
LEMMA OneHolder ==
  ASSUME WorkInv, NEW p \in Queue, NEW q \in Queue, Busy(p), Busy(q),
         worker[p].job = worker[q].job
  PROVE  p = q
BY DEF WorkInv

\* What is held is active.
LEMMA HeldActive ==
  ASSUME WorkInv, NEW j \in Job, NEW q \in Queue, Busy(q), worker[q].job = j
  PROVE  j \in Held /\ job[j].state = "active" /\ job[j].queue = q
BY DEF WorkInv, Held

-----------------------------------------------------------------------------
(* What the parts of an action do. *)

\* A failed row is retried while a try is left, and keeps its queue.
LEMMA FailedRow ==
  ASSUME NEW row \in Row
  PROVE  /\ Failed(row) \in Row
         /\ Failed(row).queue = row.queue
         /\ Failed(row).tries = row.tries
         /\ Failed(row).state \in {"retry", "failed"}
         /\ Failed(row).state = "retry" => row.tries <= RetryLimit
BY Limits DEF Failed, Row

\* A send changes an unborn row only, and is dropped only where the queue is missing.
LEMMA Enqueued ==
  ASSUME TypeOK, NEW q \in Queue, Enqueue(q)
  PROVE  /\ job' \in [Job -> Row]
         /\ \A j \in Job : \/ job'[j] = job[j]
                           \/ /\ job[j].state = "unborn"
                              /\ job'[j].state = "created" /\ job'[j].tries = 0
         /\ q \in queues => dropped' = dropped
         /\ dropped' \in BOOLEAN
<1>1. CASE q \in queues
  <2>1. PICK j \in Unborn :
          job' = [job EXCEPT ![j] = [queue |-> q, state |-> "created", tries |-> 0]]
    BY <1>1 DEF Enqueue
  <2>2. [queue |-> q, state |-> "created", tries |-> 0] \in Row
    BY Limits DEF Row
  <2>3. dropped' = dropped
    BY <1>1 DEF Enqueue
  <2> QED
    BY <2>1, <2>2, <2>3 DEF TypeOK, Unborn
<1>2. CASE q \notin queues
  BY <1>2 DEF Enqueue, TypeOK
<1> QED
  BY <1>1, <1>2

\* A handler takes a step.
LEMMA Stepped ==
  ASSUME TypeOK, NEW q \in Queue, Busy(q),
         NEW step \in {"load", "send", "transport", "done", "broken"}, Goto(q, step)
  PROVE  /\ worker' \in [Queue -> Handler \cup {Idle}]
         /\ worker'[q].pc = step /\ worker'[q].job = worker[q].job
         /\ \A p \in Queue : p # q => worker'[p] = worker[p]
<1>1. worker[q] \in Handler
  BY DEF TypeOK, Busy, Idle
<1>2. [worker[q] EXCEPT !.pc = step] \in Handler
  BY <1>1 DEF Handler
<1> QED
  BY <1>1, <1>2 DEF TypeOK, Goto, Handler

\* A worker is free again.
LEMMA Freed ==
  ASSUME TypeOK, NEW q \in Queue, Free(q)
  PROVE  /\ worker' \in [Queue -> Handler \cup {Idle}]
         /\ worker'[q] = Idle
         /\ \A p \in Queue : p # q => worker'[p] = worker[p]
BY DEF TypeOK, Free

\* One row fails, or none does.
LEMMA OneFails ==
  ASSUME TypeOK, NEW k \in Job, job' = [job EXCEPT ![k] = Failed(@)]
  PROVE  /\ job' \in [Job -> Row]
         /\ \A j \in Job : j # k => job'[j] = job[j]
         /\ job'[k] = Failed(job[k])
         /\ job'[k].state \in {"retry", "failed"}
         /\ job'[k].state = "retry" => job'[k].tries <= RetryLimit
<1>1. job[k] \in Row
  BY DEF TypeOK
<1> QED
  BY <1>1, FailedRow DEF TypeOK

\* A handler's effect is made, and it learns so or believes that it failed.
LEMMA Effect ==
  ASSUME TypeOK, NEW q \in Queue, Busy(q), Made(q)
  PROVE  /\ sent' = [sent EXCEPT ![worker[q].job] = @ + 1]
         /\ worker[q].job \in Job
         /\ sent' \in [Job -> Nat]
         /\ worker' \in [Queue -> Handler \cup {Idle}]
         /\ worker'[q].pc \in {"done", "broken"} /\ worker'[q].job = worker[q].job
         /\ \A p \in Queue : p # q => worker'[p] = worker[p]
         /\ unheard' \in SUBSET Job
         /\ unheard' = IF worker'[q].pc = "done" THEN unheard
                       ELSE unheard \cup {worker[q].job}
<1>1. worker[q] \in Handler /\ worker[q].job \in Job
  BY DEF TypeOK, Busy, Idle, Handler
<1>2. sent' = [sent EXCEPT ![worker[q].job] = @ + 1]
  BY DEF Made
<1>3. sent' \in [Job -> Nat]
  BY <1>1, <1>2 DEF TypeOK
<1>4. CASE Goto(q, "done") /\ UNCHANGED unheard
  BY <1>1, <1>2, <1>3, <1>4, Stepped DEF TypeOK
<1>5. CASE Goto(q, "broken") /\ unheard' = unheard \cup {worker[q].job}
  BY <1>1, <1>2, <1>3, <1>5, Stepped DEF TypeOK
<1> QED
  BY <1>4, <1>5 DEF Made

\* The handlers that go on are handlers.
LEMMA GoesOn ==
  ASSUME TypeOK, NEW Q \in SUBSET Queue
  PROVE  /\ GoOn(Q) \in SUBSET Handler
         /\ \A h \in GoOn(Q) : h \in late \/ \E q \in Q : Busy(q) /\ h = worker[q]
BY DEF TypeOK, GoOn, Busy, Idle

\* What a dying process leaves.
LEMMA Forgotten ==
  ASSUME TypeOK, Forget
  PROVE  /\ stage' = "down" /\ attached' = 0 /\ late' = {} /\ forced' = {}
         /\ \A r \in Request : request'[r] = "idle"
         /\ \A q \in Queue : worker'[q] = Idle
         /\ unheard' = unheard \cup {worker[q].job : q \in {p \in Queue : worker[p].pc = "done"}}
         /\ UNCHANGED <<queues, job, sent, dropped>>
BY DEF Forget

-----------------------------------------------------------------------------
(* The type invariant. *)

\* A fetched job is active and its worker runs its handler.
LEMMA Fetched ==
  ASSUME TypeOK, BootInv, WorkInv, RowInv, NEW k \in Job, Fetch(k)
  PROVE  \E q \in Queue :
           /\ q = job[k].queue /\ ~Busy(q) /\ Attached(q)
           /\ job' \in [Job -> Row]
           /\ job'[k].state = "active" /\ job'[k].queue = q
           /\ \A j \in Job : j # k => job'[j] = job[j]
           /\ worker' \in [Queue -> Handler \cup {Idle}]
           /\ worker'[q].job = k /\ worker'[q].pc \in {"load", "transport"}
           /\ \A p \in Queue : p # q => worker'[p] = worker[p]
<1> DEFINE q == job[k].queue
           row == [job[k] EXCEPT !.state = "active", !.tries = @ + 1]
           h == [pc |-> IF q = "workspace.export" THEN "load" ELSE "transport", job |-> k,
                 try |-> job[k].tries + 1]
<1>1. job[k] \in Row /\ job[k].tries \in Nat /\ job[k].tries <= RetryLimit
  BY DEF TypeOK, RowInv, Row, Fetch
<1>2. row \in Row /\ row.state = "active" /\ row.queue = q
  <2> DEFINE n == job[k].tries + 1
  <2>1. n \in 0..RetryLimit + 1
    BY <1>1, Limits
  <2>2. row = [job[k] EXCEPT !.state = "active", !.tries = n]
    BY <1>1 DEF Row
  <2> HIDE DEF n
  <2> QED
    BY <1>1, <2>1, <2>2 DEF Row
<1>3. h \in Handler /\ h.job = k /\ h.pc \in {"load", "transport"}
  BY <1>1 DEF Handler
<1>4. q \in Queue
  BY <1>1 DEF Row
<1>5. job' = [job EXCEPT ![k] = row]
  BY DEF Fetch
<1>6. worker' = [worker EXCEPT ![q] = h]
  BY DEF Fetch
<1>7. ~Busy(q) /\ Attached(q)
  BY DEF Fetch
<1> HIDE DEF row, h
<1>8. job' \in [Job -> Row] /\ job'[k] = row /\ \A j \in Job : j # k => job'[j] = job[j]
  BY <1>2, <1>5 DEF TypeOK
<1>9. /\ worker' \in [Queue -> Handler \cup {Idle}] /\ worker'[q] = h
      /\ \A p \in Queue : p # q => worker'[p] = worker[p]
  BY <1>3, <1>4, <1>6 DEF TypeOK
<1> QED
  BY <1>2, <1>3, <1>4, <1>7, <1>8, <1>9

\* A handler's completion reaches the queue or is lost.
LEMMA Completed ==
  ASSUME TypeOK, BootInv, WorkInv, NEW q \in Queue, Complete(q)
  PROVE  /\ job' \in [Job -> Row]
         /\ \A j \in Job : j # worker[q].job => job'[j] = job[j]
         /\ \/ job'[worker[q].job].state = "completed" /\ unheard' = unheard
            \/ job' = job /\ unheard' = unheard \cup {worker[q].job}
<1> DEFINE k == worker[q].job
<1>1. Busy(q) /\ k \in Job
  BY Running DEF Complete, Busy
<1>2. job[k] \in Row /\ job[k].state = "active"
  BY <1>1 DEF TypeOK, WorkInv
<1>3. CASE /\ job' = [job EXCEPT ![k].state = IF @ = "active" THEN "completed" ELSE @]
           /\ UNCHANGED unheard
  <2> DEFINE row == [job[k] EXCEPT !.state = "completed"]
  <2>1. row \in Row /\ row.state = "completed"
    BY <1>2 DEF Row
  <2>2. job' = [job EXCEPT ![k] = row]
    BY <1>1, <1>2, <1>3 DEF TypeOK
  <2> HIDE DEF row
  <2> QED
    BY <1>1, <1>3, <2>1, <2>2 DEF TypeOK
<1>4. CASE UNCHANGED job /\ unheard' = unheard \cup {k}
  BY <1>4 DEF TypeOK
<1> QED
  BY <1>3, <1>4 DEF Complete

\* Every step keeps the type invariant.
LEMMA TypeStep ==
  ASSUME TypeOK, BootInv, WorkInv, RowInv, HeardInv, [Next]_vars
  PROVE  TypeOK'
<1>1. CASE Boot \/ Start \/ Listen \/ Stop \/ Sigterm
  BY <1>1 DEF TypeOK, memory, history, Boot, Start, Listen, Stop, Sigterm
<1>2. CASE Attach
  <2>1. attached + 1 \in 0..Len(Registered) /\ attached + 1 \in 1..4
    BY <1>2, Queues DEF TypeOK, Attach
  <2>2. Registered[attached + 1] \in Queue
    BY <2>1, Queues
  <2> HIDE DEF Registered, Queue
  <2> QED
    BY <1>2, <2>1, <2>2 DEF TypeOK, history, Attach
<1>3. CASE Close
  BY <1>3 DEF TypeOK, history, Close
<1>4. CASE Crash \/ Exit
  <2>1. Forget /\ crashes' \in 0..MaxCrashes
    BY <1>4, Limits DEF Crash, Exit, TypeOK
  <2>2. unheard' \in SUBSET Job
    BY <2>1 DEF TypeOK, Forget, Handler, Idle
  <2>3. worker' \in [Queue -> Handler \cup {Idle}]
    BY <2>1 DEF Forget
  <2> QED
    BY <2>1, <2>2, <2>3 DEF TypeOK, Forget
<1>5. ASSUME NEW r \in Request, Arrive(r) PROVE TypeOK'
  <2>1. {"email-delivery", "workspace.export"} \subseteq Queue
    BY Queues
  <2> HIDE DEF Queue
  <2> QED
    BY <1>5, <2>1 DEF TypeOK, history, Arrive
<1>6. ASSUME NEW r \in Request, Send(r) PROVE TypeOK'
  <2>1. request[r] \in Queue /\ Enqueue(request[r])
    BY <1>6 DEF TypeOK, Send
  <2>2. job' \in [Job -> Row] /\ dropped' \in BOOLEAN
    BY <2>1, Enqueued
  <2> QED
    BY <1>6, <2>2 DEF TypeOK, Send
<1>7. ASSUME NEW r \in Request, Refuse(r) PROVE TypeOK'
  BY <1>7 DEF TypeOK, history, Refuse
<1>8. ASSUME NEW k \in Job, Fetch(k) PROVE TypeOK'
  <2>1. job' \in [Job -> Row] /\ worker' \in [Queue -> Handler \cup {Idle}]
    BY <1>8, Fetched
  <2> QED
    BY <1>8, <2>1 DEF TypeOK, history, Fetch
<1>9. ASSUME NEW q \in Queue, Load(q) PROVE TypeOK'
  <2>1. worker' \in [Queue -> Handler \cup {Idle}]
    BY <1>9, Stepped DEF Load, Busy
  <2> QED
    BY <1>9, <2>1 DEF TypeOK, history, Load
<1>10. ASSUME NEW q \in Queue, SendMail(q) PROVE TypeOK'
  <2>1. /\ worker' \in [Queue -> Handler \cup {Idle}]
        /\ sent' \in [Job -> Nat] /\ unheard' \in SUBSET Job
    BY <1>10, Effect DEF SendMail, Busy
  <2>2. job' \in [Job -> Row] /\ dropped' \in BOOLEAN
    BY <1>10, Queues, Enqueued DEF SendMail
  <2> QED
    BY <1>10, <2>1, <2>2 DEF TypeOK, SendMail
<1>11. ASSUME NEW q \in Queue, Transport(q) PROVE TypeOK'
  <2>1. /\ worker' \in [Queue -> Handler \cup {Idle}]
        /\ sent' \in [Job -> Nat] /\ unheard' \in SUBSET Job
    BY <1>11, Effect DEF Transport, Busy
  <2> QED
    BY <1>11, <2>1 DEF TypeOK, Transport
<1>12. ASSUME NEW q \in Queue, Complete(q) PROVE TypeOK'
  <2>1. worker' \in [Queue -> Handler \cup {Idle}] /\ worker[q].job \in Job
    BY <1>12, Freed, Running DEF Complete, Busy
  <2>3. job' \in [Job -> Row] /\ unheard' \in SUBSET Job
    BY <1>12, <2>1, Completed DEF TypeOK
  <2> QED
    BY <1>12, <2>1, <2>3 DEF TypeOK, Complete
<1>13. ASSUME NEW q \in Queue, Throw(q) PROVE TypeOK'
  <2>1. worker' \in [Queue -> Handler \cup {Idle}] /\ worker[q].job \in Job
    BY <1>13, Freed, Running DEF Throw, Busy
  <2>2. job' \in [Job -> Row]
    BY <1>13, <2>1, OneFails DEF TypeOK, Throw
  <2> QED
    BY <1>13, <2>1, <2>2 DEF TypeOK, history, Throw
<1>14. ASSUME NEW q \in Queue, TimeOut(q) PROVE TypeOK'
  <2>1. worker' \in [Queue -> Handler \cup {Idle}] /\ worker[q].job \in Job
    BY <1>14, Freed, Running DEF TimeOut, Busy
  <2>2. job' \in [Job -> Row]
    BY <1>14, <2>1, OneFails DEF TimeOut
  <2>3. late' \in SUBSET Handler
    BY <1>14, GoesOn DEF TimeOut
  <2> QED
    BY <1>14, <2>1, <2>2, <2>3 DEF TypeOK, TimeOut
<1>15. ASSUME NEW h \in late, RunLate(h) PROVE TypeOK'
  <2>1. h \in Handler /\ h.job \in Job
    BY DEF TypeOK, Handler
  <2>2. [h EXCEPT !.pc = "send"] \in Handler
    BY <2>1 DEF Handler
  <2>3. late' \in SUBSET Handler /\ sent' \in [Job -> Nat]
    BY <1>15, <2>1, <2>2 DEF TypeOK, RunLate
  <2>4. job' \in [Job -> Row] /\ dropped' \in BOOLEAN
    BY <1>15, Queues, Enqueued DEF RunLate, TypeOK
  <2> QED
    BY <1>15, <2>3, <2>4 DEF TypeOK, RunLate
<1>16. ASSUME NEW k \in Job, Expire(k) PROVE TypeOK'
  <2>1. job' \in [Job -> Row]
    BY <1>16, OneFails DEF Expire
  <2> QED
    BY <1>16, <2>1 DEF TypeOK, memory, history, Expire
<1>17. CASE StopForced
  <2>1. late' \in SUBSET Handler
    BY <1>17, GoesOn DEF StopForced
  <2>2. Held \in SUBSET Job
    BY Running DEF Held
  <2>3. job' \in [Job -> Row]
    BY <1>17, FailedRow DEF StopForced, TypeOK
  <2>4. worker' \in [Queue -> Handler \cup {Idle}]
    BY <1>17 DEF StopForced
  <2> QED
    BY <1>17, <2>1, <2>2, <2>3, <2>4 DEF TypeOK, StopForced
<1>18. CASE UNCHANGED vars
  BY <1>18 DEF TypeOK, vars
<1> QED
  BY <1>1, <1>2, <1>3, <1>4, <1>5, <1>6, <1>7, <1>8, <1>9, <1>10, <1>11, <1>12, <1>13, <1>14,
     <1>15, <1>16, <1>17, <1>18 DEF Next, Process, Run

-----------------------------------------------------------------------------
(* Boot: nothing is sent before its queue is there. *)

\* Every step keeps the boot invariant, and drops nothing.
LEMMA BootStep ==
  ASSUME TypeOK, BootInv, NothingDropped, WorkInv, RowInv, [Next]_vars
  PROVE  BootInv' /\ NothingDropped'
<1> USE DEF NothingDropped
<1>1. CASE Boot \/ Start \/ Stop \/ Sigterm \/ Close
  <2>1. \/ stage = "down" /\ stage' = "boot"
        \/ stage = "boot" /\ stage' = "attach"
        \/ stage = "up" /\ stage' = "closing"
        \/ stage = "closing" /\ stage' = "stopping"
        \/ stage = "stopping" /\ stage' = "ending"
    BY <1>1 DEF Boot, Start, Stop, Sigterm, Close
  <2>2. UNCHANGED <<attached, queues, worker, late, request, dropped>>
    BY <1>1 DEF Boot, Start, Stop, Sigterm, Close, memory, history
  <2> QED
    BY <2>1, <2>2 DEF BootInv, Busy
<1>2. CASE Listen
  BY <1>2 DEF BootInv, Busy, Listen, memory, history
<1>3. CASE Attach
  <2>1. attached + 1 \in 1..4 /\ attached' = attached + 1
    BY <1>3, Queues DEF TypeOK, Attach
  <2>2. \A i \in 1..attached' : i \in 1..attached \/ i = attached + 1
    BY <2>1 DEF TypeOK
  <2>3. \A i \in 1..attached' : Registered[i] \in queues'
    <3> HIDE DEF Registered
    <3> QED
      BY <1>3, <2>2 DEF BootInv, Attach
  <2>4. attached' # 0 /\ stage' = "attach" /\ UNCHANGED <<request, dropped>>
    BY <1>3, <2>1 DEF Attach, history
  <2> HIDE DEF Registered
  <2> QED
    BY <1>3, <2>3, <2>4 DEF BootInv, Attach
<1>4. CASE Crash \/ Exit
  BY <1>4, Forgotten DEF BootInv, Busy, Idle, Crash, Exit
<1>5. ASSUME NEW r \in Request, Arrive(r) PROVE BootInv' /\ NothingDropped'
  BY <1>5 DEF BootInv, Busy, Arrive, history
<1>6. ASSUME NEW r \in Request, Send(r) PROVE BootInv' /\ NothingDropped'
  <2>1. stage \in {"up", "closing", "stopping", "ending"} /\ request[r] \in Queue
    BY <1>6 DEF BootInv, Send, TypeOK
  <2>2. request[r] \in queues
    BY <2>1, AllQueues
  <2>3. dropped' = dropped
    BY <1>6, <2>1, <2>2, Enqueued DEF Send
  <2>4. UNCHANGED <<stage, attached, queues, worker, late>>
    BY <1>6 DEF Send
  <2> QED
    BY <2>1, <2>3, <2>4 DEF BootInv, Busy
<1>7. ASSUME NEW r \in Request, Refuse(r) PROVE BootInv' /\ NothingDropped'
  BY <1>7 DEF BootInv, Busy, TypeOK, Refuse, history
<1>8. ASSUME NEW k \in Job, Fetch(k) PROVE BootInv' /\ NothingDropped'
  <2>1. attached # 0
    BY <1>8, Fetched DEF Attached
  <2> QED
    BY <1>8, <2>1 DEF BootInv, Fetch, history
<1>9. ASSUME NEW q \in Queue, Run(q) \/ TimeOut(q) PROVE BootInv' /\ NothingDropped'
  <2>1. attached # 0
    BY <1>9, Running DEF Busy, Run, Load, SendMail, Transport, Complete, Throw, TimeOut
  <2>2. UNCHANGED <<stage, attached, queues, request>>
    BY <1>9 DEF Run, Load, SendMail, Transport, Complete, Throw, TimeOut
  <2>3. dropped' = dropped
    <3>1. CASE SendMail(q)
      BY <2>1, <3>1, MailQueue, Queues, Enqueued DEF SendMail
    <3>2. CASE ~SendMail(q)
      BY <1>9, <3>2 DEF Run, Load, Transport, Complete, Throw, TimeOut, history
    <3> QED
      BY <3>1, <3>2
  <2> QED
    BY <2>1, <2>2, <2>3 DEF BootInv
<1>10. ASSUME NEW h \in late, RunLate(h) PROVE BootInv' /\ NothingDropped'
  <2>1. attached # 0
    BY DEF BootInv
  <2>2. dropped' = dropped
    BY <1>10, <2>1, MailQueue, Queues, Enqueued DEF RunLate
  <2> QED
    BY <1>10, <2>1, <2>2 DEF BootInv, RunLate
<1>11. ASSUME NEW k \in Job, Expire(k) PROVE BootInv' /\ NothingDropped'
  BY <1>11 DEF BootInv, Busy, Expire, memory, history
<1>12. CASE StopForced
  <2>1. stage = "stopping" /\ stage' = "ending" /\ \A q \in Queue : worker'[q].pc = "idle"
    BY <1>12 DEF StopForced, Idle
  <2>2. attached # 0
    BY <2>1, Queues DEF BootInv
  <2> QED
    BY <1>12, <2>1, <2>2 DEF BootInv, Busy, StopForced
<1>13. CASE UNCHANGED vars
  BY <1>13 DEF BootInv, Busy, vars
<1> QED
  BY <1>1, <1>2, <1>3, <1>4, <1>5, <1>6, <1>7, <1>8, <1>9, <1>10, <1>11, <1>12, <1>13
     DEF Next, Process

-----------------------------------------------------------------------------
(* The rows and the workers. *)

\* A send touches no row that a worker holds.
LEMMA SendHolds ==
  ASSUME TypeOK, WorkInv, RowInv, NEW q \in Queue, Enqueue(q)
  PROVE  /\ \A p \in Queue : Busy(p) => job'[worker[p].job] = job[worker[p].job]
         /\ RowInv'
<1>1. \A j \in Job : \/ job'[j] = job[j]
                     \/ /\ job[j].state = "unborn"
                        /\ job'[j].state = "created" /\ job'[j].tries = 0
  BY Enqueued
<1>2. \A p \in Queue : Busy(p) => worker[p].job \in Job /\ job[worker[p].job].state = "active"
  BY DEF WorkInv, TypeOK, Busy, Handler, Idle
<1> QED
  BY <1>1, <1>2, Limits DEF RowInv

\* Every step leaves each worker an active job of its own queue, and each waiting job a try.
LEMMA WorkStep ==
  ASSUME TypeOK, BootInv, WorkInv, RowInv, [Next]_vars
  PROVE  WorkInv' /\ RowInv'
<1>1. CASE UNCHANGED <<job, worker>>
  BY <1>1 DEF WorkInv, RowInv, Busy
<1>2. CASE Crash \/ Exit
  BY <1>2, Forgotten DEF WorkInv, RowInv, Busy, Idle, Crash, Exit
<1>3. ASSUME NEW q \in Queue, Enqueue(q), UNCHANGED worker PROVE WorkInv' /\ RowInv'
  BY <1>3, SendHolds DEF WorkInv, Busy
<1>4. ASSUME NEW k \in Job, Fetch(k) PROVE WorkInv' /\ RowInv'
  <2>1. PICK q \in Queue :
           /\ q = job[k].queue /\ ~Busy(q)
           /\ job'[k].state = "active" /\ job'[k].queue = q
           /\ \A j \in Job : j # k => job'[j] = job[j]
           /\ worker'[q].job = k
           /\ \A p \in Queue : p # q => worker'[p] = worker[p]
    BY <1>4, Fetched
  <2>2. job[k].state # "active"
    BY <1>4 DEF Fetch
  <2>3. ASSUME NEW p \in Queue, p # q, Busy(p) PROVE worker[p].job \in Job \ {k}
    BY <2>2, <2>3, Running DEF WorkInv
  <2> QED
    BY <2>1, <2>3 DEF WorkInv, RowInv, Busy
<1>5. ASSUME NEW q \in Queue, Busy(q), UNCHANGED job, worker'[q].job = worker[q].job,
             \A p \in Queue : p # q => worker'[p] = worker[p]
      PROVE  WorkInv' /\ RowInv'
  BY <1>5 DEF WorkInv, RowInv, Busy
<1>6. ASSUME NEW q \in Queue, Load(q) PROVE WorkInv' /\ RowInv'
  BY <1>5, <1>6, Stepped DEF Load, Busy
<1>7. ASSUME NEW q \in Queue, Transport(q) PROVE WorkInv' /\ RowInv'
  BY <1>5, <1>7, Effect DEF Transport, Busy
<1>8. ASSUME NEW q \in Queue, SendMail(q) PROVE WorkInv' /\ RowInv'
  <2>1. Busy(q) /\ Enqueue("email-delivery") /\ "email-delivery" \in Queue
    BY <1>8, Queues DEF SendMail, Busy
  <2>2. /\ \A p \in Queue : Busy(p) => job'[worker[p].job] = job[worker[p].job]
        /\ RowInv'
    BY <2>1, SendHolds
  <2>3. /\ worker'[q].job = worker[q].job
        /\ \A p \in Queue : p # q => worker'[p] = worker[p]
    BY <1>8, <2>1, Effect DEF SendMail
  <2> QED
    BY <2>1, <2>2, <2>3 DEF WorkInv, Busy
<1>9. ASSUME NEW q \in Queue, Busy(q), Free(q),
             \A j \in Job : j # worker[q].job => job'[j] = job[j],
             \/ job' = job
             \/ /\ job'[worker[q].job].state \in {"completed", "retry", "failed"}
                /\ job'[worker[q].job].state = "retry" =>
                     job'[worker[q].job].tries <= RetryLimit
      PROVE  WorkInv' /\ RowInv'
  <2>1. worker'[q].pc = "idle" /\ \A p \in Queue : p # q => worker'[p] = worker[p]
    BY <1>9, Freed DEF Idle
  <2>2. ASSUME NEW p \in Queue, p # q, Busy(p) PROVE worker[p].job \in Job \ {worker[q].job}
    BY <1>9, <2>2, Running, OneHolder
  <2>3. WorkInv'
    BY <2>1, <2>2, <1>9 DEF WorkInv, Busy
  <2>4. RowInv'
    BY <1>9 DEF RowInv
  <2> QED
    BY <2>3, <2>4
<1>10. ASSUME NEW q \in Queue, Complete(q) PROVE WorkInv' /\ RowInv'
  <2>1. Busy(q) /\ Free(q)
    BY <1>10 DEF Complete, Busy
  <2> QED
    BY <1>9, <1>10, <2>1, Completed
<1>11. ASSUME NEW q \in Queue, Throw(q) \/ TimeOut(q) PROVE WorkInv' /\ RowInv'
  <2>1. Busy(q) /\ Free(q)
    BY <1>11 DEF Throw, TimeOut, Busy
  <2>2. worker[q].job \in Job
    BY <2>1, Running
  <2>3. UNCHANGED job \/ job' = [job EXCEPT ![worker[q].job] = Failed(@)]
    BY <1>11 DEF Throw, TimeOut
  <2> QED
    BY <1>9, <2>1, <2>2, <2>3, OneFails
<1>12. ASSUME NEW k \in Job, Expire(k) PROVE WorkInv' /\ RowInv'
  <2>1. \A p \in Queue : Busy(p) => worker[p].job \in Job \ {k}
    BY <1>12, Running, HeldActive DEF Expire
  <2>2. /\ UNCHANGED worker
        /\ \A j \in Job : j # k => job'[j] = job[j]
        /\ job'[k].state \in {"retry", "failed"}
        /\ job'[k].state = "retry" => job'[k].tries <= RetryLimit
    BY <1>12, OneFails DEF Expire, memory
  <2> QED
    BY <2>1, <2>2 DEF WorkInv, RowInv, Busy
<1>13. CASE StopForced
  <2>1. \A q \in Queue : worker'[q].pc = "idle"
    BY <1>13 DEF StopForced, Idle
  <2>2. \A j \in Job : job'[j] = job[j] \/ job'[j] = Failed(job[j])
    BY <1>13 DEF StopForced
  <2>3. RowInv'
    BY <2>2, FailedRow DEF RowInv, TypeOK
  <2> QED
    BY <2>1, <2>3 DEF WorkInv, Busy
<1>14. ASSUME NEW r \in Request, Send(r) PROVE WorkInv' /\ RowInv'
  BY <1>3, <1>14 DEF Send, TypeOK
<1>15. ASSUME NEW h \in late, RunLate(h) PROVE WorkInv' /\ RowInv'
  BY <1>1, <1>3, <1>15, Queues DEF RunLate
<1>16. CASE Boot \/ Start \/ Attach \/ Listen \/ Sigterm \/ Close \/ Stop \/ UNCHANGED vars
  BY <1>1, <1>16
     DEF Boot, Start, Attach, Listen, Sigterm, Close, Stop, vars, memory, history
<1>17. ASSUME NEW r \in Request, Arrive(r) \/ Refuse(r) PROVE WorkInv' /\ RowInv'
  BY <1>1, <1>17 DEF Arrive, Refuse
<1> QED
  BY <1>2, <1>4, <1>6, <1>7, <1>8, <1>10, <1>11, <1>12, <1>13, <1>14, <1>15, <1>16, <1>17
     DEF Next, Process, Run

-----------------------------------------------------------------------------
(* The effects, and what the queue was told of them. *)

\* A job that lands neither before nor after a step, or both before and after, and whose
\* effect is left alone, is in order.
LEMMA Kept ==
  ASSUME HeardInv, NEW j \in Job, sent'[j] = sent[j], unheard \subseteq unheard',
         j \in unheard' \/ (Landed(j)' <=> Landed(j))
  PROVE  j \in unheard' \/ sent'[j] = IF Landed(j)' THEN 1 ELSE 0
BY DEF HeardInv

\* A send lands nothing.
LEMMA SendLands ==
  ASSUME TypeOK, NEW q \in Queue, Enqueue(q)
  PROVE  \A j \in Job : job'[j].state = "completed" <=> job[j].state = "completed"
BY Enqueued

\* The effect of a handler is the first its job has, unless one went unheard.
LEMMA EffectHeard ==
  ASSUME TypeOK, BootInv, WorkInv, HeardInv, NEW q \in Queue,
         worker[q].pc \in {"send", "transport"}, Made(q), UNCHANGED late,
         \A j \in Job : job'[j].state = "completed" <=> job[j].state = "completed"
  PROVE  HeardInv'
<1>0. PICK k \in Job : k = worker[q].job
  BY Running DEF Busy
<1>1. Busy(q) /\ job[k].state = "active"
  BY <1>0 DEF Busy, WorkInv
<1>2. /\ sent' = [sent EXCEPT ![k] = @ + 1]
      /\ worker'[q].pc \in {"done", "broken"} /\ worker'[q].job = k
      /\ \A p \in Queue : p # q => worker'[p] = worker[p]
      /\ unheard' = IF worker'[q].pc = "done" THEN unheard ELSE unheard \cup {k}
  BY <1>0, <1>1, Effect
<1>3. ~Landed(k)
  BY <1>0, <1>1, OneHolder DEF Landed, Busy
<1>4. k \in unheard' \/ sent'[k] = IF Landed(k)' THEN 1 ELSE 0
  <2>1. k \in unheard \/ sent[k] = 0
    BY <1>1, <1>3 DEF HeardInv
  <2>2. sent'[k] = sent[k] + 1
    BY <1>1, <1>2 DEF TypeOK
  <2>3. worker'[q].pc = "done" => Landed(k)'
    BY <1>2 DEF Landed
  <2> QED
    BY <1>2, <2>1, <2>2, <2>3
<1>5. ASSUME NEW j \in Job, j # k PROVE j \in unheard' \/ sent'[j] = IF Landed(j)' THEN 1 ELSE 0
  <2>1. Landed(j)' <=> Landed(j)
    BY <1>2, <1>5 DEF Landed
  <2>2. sent'[j] = sent[j] /\ unheard \subseteq unheard'
    BY <1>2, <1>5 DEF TypeOK
  <2> QED
    BY <2>1, <2>2, Kept
<1>6. \A p \in Queue : worker'[p].pc = "broken" => worker'[p].job \in unheard'
  BY <1>2 DEF HeardInv
<1>7. \A h \in late' : h.job \in unheard'
  BY <1>2 DEF HeardInv
<1>8. \A j \in Job : j \in unheard' \/ sent'[j] = IF Landed(j)' THEN 1 ELSE 0
  BY <1>4, <1>5
<1> QED
  BY <1>6, <1>7, <1>8 DEF HeardInv

\* When a worker ends a handler the job lands if it was told of, and is given up otherwise.
LEMMA EndHeard ==
  ASSUME TypeOK, BootInv, WorkInv, HeardInv, NEW q \in Queue, Busy(q), Free(q),
         UNCHANGED sent, unheard \subseteq unheard',
         \A j \in Job : j # worker[q].job => job'[j] = job[j],
         \/ worker[q].job \in unheard'
         \/ (job'[worker[q].job].state = "completed" <=> worker[q].pc = "done"),
         \A h \in late' : h.job \in unheard'
  PROVE  HeardInv'
<1>0. PICK k \in Job : k = worker[q].job
  BY Running
<1>1. job[k].state = "active"
  BY <1>0 DEF WorkInv
<1>2. worker'[q].pc = "idle" /\ \A p \in Queue : p # q => worker'[p] = worker[p]
  BY Freed DEF Idle
<1>3. \A p \in Queue : p # q /\ Busy(p) => worker[p].job # k
  BY <1>0, OneHolder
<1>4. k \in unheard' \/ (Landed(k)' <=> Landed(k))
  <2>1. Landed(k) <=> worker[q].pc = "done"
    BY <1>0, <1>1, <1>3 DEF Landed, Busy
  <2>2. Landed(k)' <=> job'[k].state = "completed"
    BY <1>2, <1>3 DEF Landed, Busy
  <2> QED
    BY <1>0, <2>1, <2>2
<1>5. ASSUME NEW j \in Job, j # k PROVE Landed(j)' <=> Landed(j)
  BY <1>0, <1>2, <1>5 DEF Landed
<1>6. \A p \in Queue : worker'[p].pc = "broken" => worker'[p].job \in unheard'
  BY <1>2 DEF HeardInv
<1>7. ASSUME NEW j \in Job PROVE j \in unheard' \/ sent'[j] = IF Landed(j)' THEN 1 ELSE 0
  <2>1. j \in unheard' \/ (Landed(j)' <=> Landed(j))
    BY <1>4, <1>5
  <2> QED
    BY <2>1, Kept
<1> QED
  BY <1>6, <1>7 DEF HeardInv

\* Every step keeps the account of the effects.
LEMMA HeardStep ==
  ASSUME TypeOK, BootInv, WorkInv, RowInv, HeardInv, [Next]_vars
  PROVE  HeardInv'
<1>1. ASSUME UNCHANGED <<worker, late, sent, unheard>>,
             \A j \in Job : job'[j].state = "completed" <=> job[j].state = "completed"
      PROVE  HeardInv'
  BY <1>1 DEF HeardInv, Landed
<1>2. CASE Crash \/ Exit
  <2>1. /\ late' = {} /\ \A q \in Queue : worker'[q].pc = "idle"
        /\ unheard' = unheard \cup {worker[q].job : q \in {p \in Queue : worker[p].pc = "done"}}
        /\ UNCHANGED <<job, sent>>
    BY <1>2, Forgotten DEF Crash, Exit, Idle
  <2>2. ASSUME NEW j \in Job PROVE j \in unheard' \/ sent'[j] = IF Landed(j)' THEN 1 ELSE 0
    <3>1. j \in unheard' \/ (Landed(j)' <=> Landed(j))
      BY <2>1 DEF Landed
    <3> QED
      BY <2>1, <3>1, Kept
  <2> QED
    BY <2>1, <2>2 DEF HeardInv
<1>3. ASSUME NEW k \in Job, Fetch(k) PROVE HeardInv'
  <2>1. PICK q \in Queue :
           /\ ~Busy(q) /\ job'[k].state = "active"
           /\ \A j \in Job : j # k => job'[j] = job[j]
           /\ worker'[q].pc \in {"load", "transport"}
           /\ \A p \in Queue : p # q => worker'[p] = worker[p]
    BY <1>3, Fetched
  <2>2. job[k].state \in {"created", "retry"} /\ UNCHANGED <<late, sent, unheard>>
    BY <1>3 DEF Fetch, history
  <2>3. \A j \in Job : Landed(j)' <=> Landed(j)
    BY <2>1, <2>2 DEF Landed, Busy
  <2>4. \A j \in Job : j \in unheard' \/ sent'[j] = IF Landed(j)' THEN 1 ELSE 0
    BY <2>2, <2>3, Kept
  <2> QED
    BY <2>1, <2>2, <2>4 DEF HeardInv
<1>4. ASSUME NEW q \in Queue, Load(q) PROVE HeardInv'
  <2>1. /\ worker[q].pc = "load" /\ worker'[q].pc = "send"
        /\ \A p \in Queue : p # q => worker'[p] = worker[p]
    BY <1>4, Stepped DEF Load, Busy
  <2>2. UNCHANGED <<job, late, sent, unheard>>
    BY <1>4 DEF Load, history
  <2>3. \A j \in Job : Landed(j)' <=> Landed(j)
    BY <2>1, <2>2 DEF Landed
  <2>4. \A j \in Job : j \in unheard' \/ sent'[j] = IF Landed(j)' THEN 1 ELSE 0
    BY <2>2, <2>3, Kept
  <2> QED
    BY <2>1, <2>2, <2>4 DEF HeardInv
<1>5. ASSUME NEW q \in Queue, SendMail(q) PROVE HeardInv'
  BY <1>5, Queues, SendLands, EffectHeard DEF SendMail
<1>6. ASSUME NEW q \in Queue, Transport(q) PROVE HeardInv'
  BY <1>6, EffectHeard DEF Transport
<1>7. ASSUME NEW q \in Queue, Complete(q) PROVE HeardInv'
  <2>1. Busy(q) /\ Free(q) /\ worker[q].pc = "done" /\ UNCHANGED <<sent, late>>
    BY <1>7 DEF Complete, Busy
  <2>2. /\ unheard \subseteq unheard'
        /\ \A j \in Job : j # worker[q].job => job'[j] = job[j]
        /\ worker[q].job \in unheard' \/ job'[worker[q].job].state = "completed"
    BY <1>7, Completed
  <2>3. \A h \in late' : h.job \in unheard'
    BY <2>1, <2>2 DEF HeardInv
  <2> QED
    BY <2>1, <2>2, <2>3, EndHeard
<1>8. ASSUME NEW q \in Queue, Throw(q) PROVE HeardInv'
  <2>1. /\ Busy(q) /\ Free(q) /\ worker[q].pc # "done" /\ UNCHANGED <<sent, late, unheard>>
        /\ UNCHANGED job \/ job' = [job EXCEPT ![worker[q].job] = Failed(@)]
    BY <1>8 DEF Throw, Busy, history
  <2>2. worker[q].job \in Job /\ job[worker[q].job].state = "active"
    BY <2>1, Running DEF WorkInv
  <2>3. /\ \A j \in Job : j # worker[q].job => job'[j] = job[j]
        /\ job'[worker[q].job].state # "completed"
    BY <2>1, <2>2, OneFails
  <2>4. \A h \in late' : h.job \in unheard'
    BY <2>1 DEF HeardInv
  <2> QED
    BY <2>1, <2>3, <2>4, EndHeard
<1>9. ASSUME NEW q \in Queue, TimeOut(q) PROVE HeardInv'
  <2>1. /\ Busy(q) /\ Free(q) /\ UNCHANGED sent
        /\ unheard' = unheard \cup {worker[q].job}
        /\ job' = [job EXCEPT ![worker[q].job] = Failed(@)]
        /\ late' = GoOn({q})
    BY <1>9 DEF TimeOut, Busy
  <2>2. \A j \in Job : j # worker[q].job => job'[j] = job[j]
    BY <2>1, Running, OneFails
  <2>3. \A h \in late' : h.job \in unheard'
    BY <2>1, GoesOn DEF HeardInv
  <2> QED
    BY <2>1, <2>2, <2>3, EndHeard
<1>10. ASSUME NEW h \in late, RunLate(h) PROVE HeardInv'
  <2>1. h.job \in unheard /\ UNCHANGED <<worker, unheard>>
    BY <1>10 DEF HeardInv, RunLate
  <2>2. \A j \in Job : j # h.job => sent'[j] = sent[j]
    BY <1>10 DEF RunLate, TypeOK
  <2>3. \A j \in Job : job'[j].state = "completed" <=> job[j].state = "completed"
    BY <1>10, Queues, SendLands DEF RunLate
  <2>4. \A j \in Job : Landed(j)' <=> Landed(j)
    BY <2>1, <2>3 DEF Landed
  <2>5. \A j \in Job : j \in unheard' \/ sent'[j] = IF Landed(j)' THEN 1 ELSE 0
    BY <2>1, <2>2, <2>4, Kept
  <2>6. \A g \in late' : g \in late \/ g = [h EXCEPT !.pc = "send"]
    BY <1>10 DEF RunLate
  <2>7. [h EXCEPT !.pc = "send"].job = h.job
    BY DEF TypeOK, Handler
  <2> QED
    BY <2>1, <2>5, <2>6, <2>7 DEF HeardInv
<1>11. ASSUME NEW k \in Job, Expire(k) PROVE HeardInv'
  <2>1. \A j \in Job : job'[j].state = "completed" <=> job[j].state = "completed"
    BY <1>11, OneFails DEF Expire
  <2> QED
    BY <1>1, <1>11, <2>1 DEF Expire, memory, history
<1>12. CASE StopForced
  <2>1. /\ \A q \in Queue : worker'[q].pc = "idle"
        /\ unheard' = unheard \cup Held
        /\ UNCHANGED sent /\ late' = GoOn(Queue)
    BY <1>12 DEF StopForced, Idle
  <2>2. \A j \in Job \ Held : job'[j] = job[j]
    BY <1>12 DEF StopForced
  <2>3. ASSUME NEW j \in Job PROVE j \in unheard' \/ sent'[j] = IF Landed(j)' THEN 1 ELSE 0
    <3>1. j \in unheard' \/ (Landed(j)' <=> Landed(j))
      BY <2>1, <2>2 DEF Landed, Held, Busy
    <3> QED
      BY <2>1, <3>1, Kept
  <2>4. \A h \in late' : h.job \in unheard'
    BY <2>1, GoesOn DEF HeardInv, Held
  <2> QED
    BY <2>1, <2>3, <2>4 DEF HeardInv
<1>13. ASSUME NEW r \in Request, Send(r) PROVE HeardInv'
  <2>1. \A j \in Job : job'[j].state = "completed" <=> job[j].state = "completed"
    BY <1>13, SendLands DEF Send, TypeOK
  <2> QED
    BY <1>1, <1>13, <2>1 DEF Send
<1>14. CASE Boot \/ Start \/ Attach \/ Listen \/ Sigterm \/ Close \/ Stop \/ UNCHANGED vars
  BY <1>1, <1>14
     DEF Boot, Start, Attach, Listen, Sigterm, Close, Stop, vars, memory, history
<1>15. ASSUME NEW r \in Request, Arrive(r) \/ Refuse(r) PROVE HeardInv'
  BY <1>1, <1>15 DEF Arrive, Refuse, history
<1> QED
  BY <1>2, <1>3, <1>4, <1>5, <1>6, <1>7, <1>8, <1>9, <1>10, <1>11, <1>12, <1>13, <1>14, <1>15
     DEF Next, Process, Run

\* Every step keeps what is counted as done among what was done.
LEMMA DoneStep ==
  ASSUME TypeOK, BootInv, WorkInv, RowInv, DoneInv, [Next]_vars
  PROVE  DoneInv'
<1> USE DEF CompletedIsSent
<1>1. ASSUME UNCHANGED worker, \A j \in Job : sent[j] > 0 => sent'[j] > 0,
             \A j \in Job : job'[j].state = "completed" => job[j].state = "completed"
      PROVE  DoneInv'
  <2>1. \A q \in Queue : worker[q].pc \in {"done", "broken"} => worker[q].job \in Job
    BY Running DEF Busy
  <2> QED
    BY <1>1, <2>1 DEF DoneInv, TypeOK
<1>2. CASE Crash \/ Exit \/ StopForced
  <2>1. (\A q \in Queue : worker'[q].pc = "idle") /\ UNCHANGED sent
    BY <1>2, Forgotten DEF Crash, Exit, StopForced, Idle
  <2>2. \A j \in Job : job'[j].state = "completed" => job[j].state = "completed"
    <3>1. CASE Crash \/ Exit
      BY <3>1, Forgotten DEF Crash, Exit
    <3>2. CASE StopForced
      BY <3>2, FailedRow DEF StopForced, TypeOK
    <3> QED
      BY <1>2, <3>1, <3>2
  <2> QED
    BY <2>1, <2>2 DEF DoneInv
<1>3. ASSUME NEW k \in Job, Fetch(k) PROVE DoneInv'
  <2>1. UNCHANGED sent
    BY <1>3 DEF Fetch
  <2> QED
    BY <1>3, <2>1, Fetched DEF DoneInv
<1>4. ASSUME NEW q \in Queue, Load(q) PROVE DoneInv'
  <2>1. /\ worker'[q].pc = "send" /\ \A p \in Queue : p # q => worker'[p] = worker[p]
        /\ UNCHANGED <<job, sent>>
    BY <1>4, Stepped DEF Load, Busy
  <2> QED
    BY <2>1 DEF DoneInv
<1>5. ASSUME NEW q \in Queue, SendMail(q) \/ Transport(q) PROVE DoneInv'
  <2>1. Busy(q) /\ Made(q)
    BY <1>5 DEF SendMail, Transport, Busy
  <2>2. PICK k \in Job : k = worker[q].job
    BY <2>1, Effect
  <2>3. /\ sent' = [sent EXCEPT ![k] = @ + 1] /\ worker'[q].job = k
        /\ \A p \in Queue : p # q => worker'[p] = worker[p]
    BY <2>1, <2>2, Effect
  <2>4. sent'[k] > 0 /\ \A j \in Job : sent[j] > 0 => sent'[j] > 0
    BY <2>3 DEF TypeOK
  <2>5. \A j \in Job : job'[j].state = "completed" => job[j].state = "completed"
    BY <1>5, Queues, SendLands DEF SendMail, Transport
  <2>6. \A p \in Queue : worker[p].pc \in {"done", "broken"} => worker[p].job \in Job
    BY Running DEF Busy
  <2> QED
    BY <2>3, <2>4, <2>5, <2>6 DEF DoneInv
<1>6. ASSUME NEW q \in Queue, Busy(q), Free(q), UNCHANGED sent,
             \A j \in Job : job'[j].state = "completed" =>
               job[j].state = "completed" \/ (j = worker[q].job /\ worker[q].pc = "done")
      PROVE  DoneInv'
  <2>1. worker'[q].pc = "idle" /\ \A p \in Queue : p # q => worker'[p] = worker[p]
    BY <1>6, Freed DEF Idle
  <2> QED
    BY <1>6, <2>1 DEF DoneInv
<1>7. ASSUME NEW q \in Queue, Complete(q) PROVE DoneInv'
  <2>1. Busy(q) /\ Free(q) /\ worker[q].pc = "done" /\ UNCHANGED sent
    BY <1>7 DEF Complete, Busy
  <2>2. \A j \in Job : j # worker[q].job => job'[j] = job[j]
    BY <1>7, Completed
  <2> QED
    BY <1>6, <2>1, <2>2
<1>8. ASSUME NEW q \in Queue, Throw(q) \/ TimeOut(q) PROVE DoneInv'
  <2>1. /\ Busy(q) /\ Free(q) /\ UNCHANGED sent
        /\ UNCHANGED job \/ job' = [job EXCEPT ![worker[q].job] = Failed(@)]
    BY <1>8 DEF Throw, TimeOut, Busy, history
  <2>2. \A j \in Job : job'[j].state = "completed" => job[j].state = "completed"
    BY <2>1, Running, OneFails
  <2> QED
    BY <1>6, <2>1, <2>2
<1>9. ASSUME NEW h \in late, RunLate(h) PROVE DoneInv'
  <2>1. h.job \in Job
    BY DEF TypeOK, Handler
  <2>3. sent' = sent \/ sent' = [sent EXCEPT ![h.job] = @ + 1]
    BY <1>9 DEF RunLate
  <2>4. \A j \in Job : sent[j] > 0 => sent'[j] > 0
    BY <2>1, <2>3 DEF TypeOK
  <2>2. \A j \in Job : job'[j].state = "completed" => job[j].state = "completed"
    BY <1>9, Queues, SendLands DEF RunLate
  <2> QED
    BY <1>1, <1>9, <2>2, <2>4 DEF RunLate
<1>11. ASSUME NEW k \in Job, Expire(k) PROVE DoneInv'
  BY <1>1, <1>11, OneFails DEF Expire, memory
<1>12. ASSUME NEW r \in Request, Send(r) PROVE DoneInv'
  <2>1. \A j \in Job : job'[j].state = "completed" <=> job[j].state = "completed"
    BY <1>12, SendLands DEF Send, TypeOK
  <2> QED
    BY <1>1, <1>12, <2>1 DEF Send
<1>13. CASE Boot \/ Start \/ Attach \/ Listen \/ Sigterm \/ Close \/ Stop \/ UNCHANGED vars
  BY <1>1, <1>13
     DEF Boot, Start, Attach, Listen, Sigterm, Close, Stop, vars, memory, history
<1>14. ASSUME NEW r \in Request, Arrive(r) \/ Refuse(r) PROVE DoneInv'
  BY <1>1, <1>14 DEF Arrive, Refuse
<1> QED
  BY <1>2, <1>3, <1>4, <1>5, <1>7, <1>8, <1>9, <1>11, <1>12, <1>13, <1>14
     DEF Next, Process, Run

-----------------------------------------------------------------------------
(* Shutdown. *)

\* Every step leaves the subsystems already closed at rest.
LEMMA ShutStep ==
  ASSUME TypeOK, BootInv, WorkInv, RowInv, ShutInv, [Next]_vars
  PROVE  ShutInv'
<1>1. CASE Boot \/ Start \/ Attach \/ Listen \/ Sigterm
  BY <1>1 DEF ShutInv, Boot, Start, Attach, Listen, Sigterm, memory
<1>2. CASE Close
  BY <1>2 DEF ShutInv, Close
<1>3. CASE Stop \/ StopForced
  BY <1>3 DEF ShutInv, Busy, Idle, Stop, StopForced, memory
<1>4. CASE Crash \/ Exit
  BY <1>4, Forgotten DEF ShutInv, Crash, Exit
<1>5. ASSUME NEW r \in Request, Arrive(r) \/ Send(r) \/ Refuse(r) PROVE ShutInv'
  BY <1>5 DEF ShutInv, Busy, TypeOK, Arrive, Send, Refuse
<1>6. ASSUME NEW q \in Queue, Run(q) \/ TimeOut(q) PROVE ShutInv'
  <2>1. Busy(q)
    BY <1>6 DEF Busy, Run, Load, SendMail, Transport, Complete, Throw, TimeOut
  <2>2. UNCHANGED <<stage, request, forced>>
    BY <1>6 DEF Run, Load, SendMail, Transport, Complete, Throw, TimeOut
  <2> QED
    BY <2>1, <2>2 DEF ShutInv
<1>7. ASSUME NEW h \in late, RunLate(h) PROVE ShutInv'
  BY <1>7 DEF ShutInv, Busy, RunLate
<1>8. ASSUME NEW k \in Job, Fetch(k) \/ Expire(k) PROVE ShutInv'
  BY <1>8 DEF ShutInv, Busy, BossOpen, Fetch, Expire, memory
<1>9. CASE UNCHANGED vars
  BY <1>9 DEF ShutInv, Busy, vars
<1> QED
  BY <1>1, <1>2, <1>3, <1>4, <1>5, <1>6, <1>7, <1>8, <1>9 DEF Next, Process

-----------------------------------------------------------------------------
(* The invariant, and what follows from it. *)

LEMMA Initially ==
  ASSUME Init
  PROVE  IInv
<1>1. TypeOK
  <2>1. "email-delivery" \in Queue
    BY Queues
  <2>2. 0 \in 0..Len(Registered) /\ 0 \in 0..RetryLimit + 1
    BY Queues, Limits
  <2>3. [queue |-> "email-delivery", state |-> "unborn", tries |-> 0] \in Row
    BY <2>1, <2>2 DEF Row
  <2> HIDE DEF Registered, Queue
  <2>4. job \in [Job -> Row] /\ sent \in [Job -> Nat]
    BY <2>3 DEF Init
  <2>5. worker \in [Queue -> Handler \cup {Idle}] /\ request \in [Request -> Queue \cup {"idle"}]
    BY DEF Init
  <2>6. crashes \in 0..MaxCrashes /\ attached \in 0..Len(Registered)
    BY <2>2, Limits DEF Init
  <2> QED
    BY <2>4, <2>5, <2>6 DEF Init, TypeOK
<1>2. BootInv /\ NothingDropped /\ WorkInv /\ RowInv /\ HeardInv /\ DoneInv /\ ShutInv
  BY DEF Init, BootInv, NothingDropped, WorkInv, RowInv, HeardInv, Landed, DoneInv,
         CompletedIsSent, ShutInv, Busy, Idle
<1> QED
  BY <1>1, <1>2 DEF IInv

LEMMA Step ==
  ASSUME IInv, [Next]_vars
  PROVE  IInv'
BY TypeStep, BootStep, WorkStep, HeardStep, DoneStep, ShutStep DEF IInv

\* The inductive invariant of the process and its queues.
THEOREM Invariant == Spec => []IInv
<1>1. Init => IInv
  BY Initially
<1>2. IInv /\ [Next]_vars => IInv'
  BY Step
<1> QED
  BY <1>1, <1>2, PTL DEF Spec

\* Every variable of the process and its queues keeps its type.
THEOREM TypeCorrect == Spec => []TypeOK
<1>1. IInv => TypeOK
  BY DEF IInv
<1> QED
  BY <1>1, Invariant, PTL

\* Nothing is sent before boot has made its queue, whatever crashed before.
THEOREM BootFirst == Spec => []NothingDropped
<1>1. IInv => NothingDropped
  BY DEF IInv
<1> QED
  BY <1>1, Invariant, PTL

\* What the queue counts as completed has had its effect.
THEOREM CompletedSent == Spec => []CompletedIsSent
<1>1. IInv => CompletedIsSent
  BY DEF IInv, DoneInv
<1> QED
  BY <1>1, Invariant, PTL

\* A job has its effect twice only if the queue was not told of one.
THEOREM OnlyUnheardTwice == Spec => []OnceUnlessUnheard
<1>1. IInv => OnceUnlessUnheard
  BY DEF IInv, HeardInv, OnceUnlessUnheard, TypeOK
<1> QED
  BY <1>1, Invariant, PTL

\* The pool is closed after requests and handlers have ended or were given up.
THEOREM PoolLast == Spec => []ClosedInOrder
<1>1. IInv => ClosedInOrder
  BY DEF IInv, ShutInv, ClosedInOrder, PoolEnded
<1> QED
  BY <1>1, Invariant, PTL

=============================================================================
