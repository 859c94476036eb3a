--------------------------- MODULE ExecutionQueue ---------------------------
(***************************************************************************)
(* The path of an alert from the webhook to its execution: the intake of   *)
(* alert_service.py, the two Redis lists, and the workers of               *)
(* execution_service.py that claim a job, execute it once and acknowledge  *)
(* it when its result is saved.                                            *)
(*                                                                         *)
(* One worker at a time holds the lease execution:worker:lease.  A worker  *)
(* that starts first settles the jobs an earlier one left claimed: they    *)
(* are never executed again, since their orders may be at the broker, but  *)
(* recorded as interrupted, and the kill switch is set.                    *)
(*                                                                         *)
(* A worker's event loop can stall past the lease's TTL; it keeps running  *)
(* until its lease watcher finds the loss and cancels it.                  *)
(***************************************************************************)
EXTENDS Naturals, Sequences

CONSTANTS
  Jobs,        \* alerts, each queued at most once under its own job_id
  BadJobs,     \* jobs _decode_job refuses
  Workers,     \* processes of the execution service
  NoJob, NoWorker,
  MaxFailures  \* bound on crashes, stops and stalls

ASSUME QueueAssumption ==
  /\ BadJobs \subseteq Jobs
  /\ NoJob \notin Jobs /\ NoWorker \notin Workers
  /\ MaxFailures \in Nat

VARIABLES
  intake,      \* alert service: how far the webhook got with a job
  queue,       \* Redis: ALERT_QUEUE
  processing,  \* Redis: ALERT_PROCESSING_QUEUE
  dead,        \* Redis: ALERT_DEAD_QUEUE
  history,     \* Redis: the result in the alert history
  kill,        \* Redis: the user's kill switch
  lease,       \* Redis: the worker named by the lease
  expired,     \* jobs older than MAX_ALERT_AGE_SEC
  pc, job,     \* workers: where each is, and the job it works on
  todo,        \* workers: the claimed jobs read at the start
  sent,        \* how often the orders of a job were sent
  failures,
  stalled      \* a worker's event loop has stalled past the lease's TTL

vars == <<intake, queue, processing, dead, history, kill, lease, expired, pc,
          job, todo, sent, failures, stalled>>

(* down: not running.  recovering: settles the jobs in todo.  marking,     *)
(* recorded: of one of them.  claimed: BLMOVE returned.  running: in       *)
(* on_chartink_alert.  cleared: past the kill switch check of the entry    *)
(* lock.  saving: result not saved yet.  cancelled: the job's own task was *)
(* cancelled.  settled: to be acknowledged.                                *)
WorkerStates == {"down", "starting", "recovering", "marking", "recorded",
                 "idle", "claimed", "running", "cleared", "saving",
                 "cancelled", "settled"}

Init ==
  /\ intake = [j \in Jobs |-> "new"]
  /\ queue = <<>>
  /\ processing = {}
  /\ dead = {}
  /\ history = [j \in Jobs |-> "none"]
  /\ kill = FALSE
  /\ lease = NoWorker
  /\ expired = {}
  /\ pc = [w \in Workers |-> "down"]
  /\ job = [w \in Workers |-> NoJob]
  /\ todo = [w \in Workers |-> {}]
  /\ sent = [j \in Jobs |-> 0]
  /\ failures = 0
  /\ stalled = FALSE
-----------------------------------------------------------------------------
(* The alert service: the history row is written before the job is queued. *)

Receive(j) ==
  /\ intake[j] = "new"
  /\ intake' = [intake EXCEPT ![j] = "saved"]
  /\ history' = [history EXCEPT ![j] = "QUEUED"]
  /\ UNCHANGED <<queue, processing, dead, kill, lease, expired, pc, job, todo,
                 sent, failures, stalled>>

Enqueue(j) ==
  /\ intake[j] = "saved"
  /\ intake' = [intake EXCEPT ![j] = "queued"]
  /\ queue' = Append(queue, j)
  /\ UNCHANGED <<processing, dead, history, kill, lease, expired, pc, job,
                 todo, sent, failures, stalled>>

\* The alert service dies, or Redis fails, between the two.
IntakeFails(j) ==
  /\ intake[j] = "saved" /\ failures < MaxFailures
  /\ intake' = [intake EXCEPT ![j] = "lost"]
  /\ failures' = failures + 1 /\ UNCHANGED stalled
  /\ UNCHANGED <<queue, processing, dead, history, kill, lease, expired, pc,
                 job, todo, sent>>

Age(j) ==
  /\ intake[j] = "queued" /\ j \notin expired
  /\ expired' = expired \cup {j}
  /\ UNCHANGED <<intake, queue, processing, dead, history, kill, lease, pc,
                 job, todo, sent, failures, stalled>>

ClearKill ==
  /\ kill /\ kill' = FALSE
  /\ UNCHANGED <<intake, queue, processing, dead, history, lease, expired, pc,
                 job, todo, sent, failures, stalled>>
-----------------------------------------------------------------------------
(* Start and recovery of a worker.                                         *)

\* SET execution:worker:lease NX; a worker that fails to get it exits.
Start(w) ==
  /\ pc[w] = "down" /\ lease = NoWorker
  /\ lease' = w
  /\ pc' = [pc EXCEPT ![w] = "starting"]
  /\ UNCHANGED <<intake, queue, processing, dead, history, kill, expired, job,
                 todo, sent, failures, stalled>>

\* Mutant: a new worker takes no notice of claimed jobs.
NothingLeft == {}

\* The jobs that were claimed and not acknowledged.
LeftBehind == processing

ListClaimed(w) ==
  /\ pc[w] = "starting"
  /\ todo' = [todo EXCEPT ![w] = LeftBehind]
  /\ pc' = [pc EXCEPT ![w] = "recovering"]
  /\ UNCHANGED <<intake, queue, processing, dead, history, kill, lease,
                 expired, job, sent, failures, stalled>>

\* A malformed job goes to the dead queue; for any other the kill switch is
\* set, then the record saved.
RecoverBad(w, j) ==
  /\ pc[w] = "recovering" /\ j \in todo[w] \cap BadJobs
  /\ dead' = dead \cup {j}
  /\ job' = [job EXCEPT ![w] = j]
  /\ pc' = [pc EXCEPT ![w] = "recorded"]
  /\ UNCHANGED <<intake, queue, processing, history, kill, lease, expired,
                 todo, sent, failures, stalled>>

RecoverKill(w, j) ==
  /\ pc[w] = "recovering" /\ j \in todo[w] \ BadJobs
  /\ kill' = TRUE
  /\ job' = [job EXCEPT ![w] = j]
  /\ pc' = [pc EXCEPT ![w] = "marking"]
  /\ UNCHANGED <<intake, queue, processing, dead, history, lease, expired,
                 todo, sent, failures, stalled>>

Save(w, result) == history' = [history EXCEPT ![job[w]] = result]

RecoverSave(w) ==
  /\ pc[w] = "marking"
  /\ Save(w, "INTERRUPTED")
  /\ pc' = [pc EXCEPT ![w] = "recorded"]
  /\ UNCHANGED <<intake, queue, processing, dead, kill, lease, expired, job,
                 todo, sent, failures, stalled>>

\* LREM: the job is acknowledged.
Remove(w) ==
  /\ processing' = processing \ {job[w]}
  /\ job' = [job EXCEPT ![w] = NoJob]

RecoverAck(w) ==
  /\ pc[w] = "recorded"
  /\ Remove(w)
  /\ todo' = [todo EXCEPT ![w] = @ \ {job[w]}]
  /\ pc' = [pc EXCEPT ![w] = "recovering"]
  /\ UNCHANGED <<intake, queue, dead, history, kill, lease, expired, sent,
                 failures, stalled>>

Recovered(w) ==
  /\ pc[w] = "recovering" /\ todo[w] = {}
  /\ pc' = [pc EXCEPT ![w] = "idle"]
  /\ UNCHANGED <<intake, queue, processing, dead, history, kill, lease,
                 expired, job, todo, sent, failures, stalled>>
-----------------------------------------------------------------------------
(* _consume_once.                                                          *)

\* Mutant: the job is copied, not moved (LINDEX for BLMOVE).
QueueUnpopped == queue

QueueAfterClaim == Tail(queue)

\* BLMOVE moves the job from one list to the other.
Claim(w) ==
  /\ pc[w] = "idle" /\ queue # <<>>
  /\ queue' = QueueAfterClaim
  /\ processing' = processing \cup {Head(queue)}
  /\ job' = [job EXCEPT ![w] = Head(queue)]
  /\ pc' = [pc EXCEPT ![w] = "claimed"]
  /\ UNCHANGED <<intake, dead, history, kill, lease, expired, todo, sent,
                 failures, stalled>>

Quarantine(w) ==
  /\ pc[w] = "claimed" /\ job[w] \in BadJobs
  /\ dead' = dead \cup {job[w]}
  /\ pc' = [pc EXCEPT ![w] = "settled"]
  /\ UNCHANGED <<intake, queue, processing, history, kill, lease, expired,
                 job, todo, sent, failures, stalled>>

SkipExpired(w) ==
  /\ pc[w] = "claimed" /\ job[w] \in expired \ BadJobs
  /\ Save(w, "SKIPPED")
  /\ pc' = [pc EXCEPT ![w] = "settled"]
  /\ UNCHANGED <<intake, queue, processing, dead, kill, lease, expired, job,
                 todo, sent, failures, stalled>>

\* _run_isolated_job: the job gets a task of its own.
Run(w) ==
  /\ pc[w] = "claimed" /\ job[w] \notin expired \cup BadJobs
  /\ pc' = [pc EXCEPT ![w] = "running"]
  /\ UNCHANGED <<intake, queue, processing, dead, history, kill, lease,
                 expired, job, todo, sent, failures, stalled>>

\* on_chartink_alert takes the entry lock, which the kill switch bars ...
PassKillSwitch(w) ==
  /\ pc[w] = "running" /\ ~kill
  /\ pc' = [pc EXCEPT ![w] = "cleared"]
  /\ UNCHANGED <<intake, queue, processing, dead, history, kill, lease,
                 expired, job, todo, sent, failures, stalled>>

\* ... and sends its orders.  Nothing here asks for the worker's lease.
SendOrders(w) ==
  /\ pc[w] = "cleared"
  /\ sent' = [sent EXCEPT ![job[w]] = @ + 1]
  /\ pc' = [pc EXCEPT ![w] = "saving"]
  /\ UNCHANGED <<intake, queue, processing, dead, history, kill, lease,
                 expired, job, todo, failures, stalled>>

\* No entry: the lock is refused, a check fails, or nothing is submitted.
NoOrders(w) ==
  /\ pc[w] \in {"running", "cleared"}
  /\ pc' = [pc EXCEPT ![w] = "saving"]
  /\ UNCHANGED <<intake, queue, processing, dead, history, kill, lease,
                 expired, job, todo, sent, failures, stalled>>

\* The engine raised: the kill switch is set before the result is saved.
EngineFails(w) ==
  /\ pc[w] \in {"running", "cleared", "saving"} /\ ~kill
  /\ kill' = TRUE
  /\ pc' = [pc EXCEPT ![w] = "saving"]
  /\ UNCHANGED <<intake, queue, processing, dead, history, lease, expired,
                 job, todo, sent, failures, stalled>>

SaveResult(w) ==
  /\ pc[w] = "saving"
  /\ Save(w, "RESULT")
  /\ pc' = [pc EXCEPT ![w] = "settled"]
  /\ UNCHANGED <<intake, queue, processing, dead, kill, lease, expired, job,
                 todo, sent, failures, stalled>>

AfterCancelled == "cancelled"

\* The job lost an order lock and only its own task is cancelled:
\* _record_interrupted sets the kill switch, then saves.
JobCancelled(w) ==
  /\ pc[w] \in {"running", "cleared", "saving"}
  /\ kill' = TRUE
  /\ pc' = [pc EXCEPT ![w] = AfterCancelled]
  /\ UNCHANGED <<intake, queue, processing, dead, history, lease, expired,
                 job, todo, sent, failures, stalled>>

SaveCancelled(w) ==
  /\ pc[w] = "cancelled"
  /\ Save(w, "INTERRUPTED")
  /\ pc' = [pc EXCEPT ![w] = "settled"]
  /\ UNCHANGED <<intake, queue, processing, dead, kill, lease, expired, job,
                 todo, sent, failures, stalled>>

Acknowledge(w) ==
  /\ pc[w] = "settled"
  /\ Remove(w)
  /\ pc' = [pc EXCEPT ![w] = "idle"]
  /\ UNCHANGED <<intake, queue, dead, history, kill, lease, expired, todo,
                 sent, failures, stalled>>
-----------------------------------------------------------------------------
(* The end of a worker.                                                    *)

Die(w) ==
  /\ pc[w] # "down"
  /\ pc' = [pc EXCEPT ![w] = "down"]
  /\ job' = [job EXCEPT ![w] = NoJob]
  /\ todo' = [todo EXCEPT ![w] = {}]
  /\ UNCHANGED <<intake, queue, processing, dead, history, kill, expired, sent>>

Crash(w) ==
  /\ failures < MaxFailures
  /\ failures' = failures + 1
  /\ Die(w)
  /\ UNCHANGED <<lease, stalled>>

\* A Redis error leaves _consume_once, or the process is told to stop: the
\* job is cancelled and stays claimed, store.close() releases the lease.
Stop(w) ==
  /\ failures < MaxFailures
  /\ failures' = failures + 1
  /\ Die(w)
  /\ lease' = IF lease = w THEN NoWorker ELSE lease
  /\ UNCHANGED stalled

\* The lease outlives its TTL: its worker is gone, or stalls.
LeaseExpires ==
  /\ lease # NoWorker
  /\ \/ pc[lease] = "down" /\ UNCHANGED <<failures, stalled>>
     \/ /\ pc[lease] # "down" /\ failures < MaxFailures
        /\ failures' = failures + 1 /\ stalled' = TRUE
  /\ lease' = NoWorker
  /\ UNCHANGED <<intake, queue, processing, dead, history, kill, expired, pc,
                 job, todo, sent>>

\* The watcher of the lease finds it lost and cancels the worker.
LossNoticed(w) ==
  /\ pc[w] # "down" /\ lease # w
  /\ Die(w)
  /\ UNCHANGED <<lease, failures, stalled>>

Intake(j) == Receive(j) \/ Enqueue(j)

WorkerStep(w) ==
  \/ Start(w) \/ ListClaimed(w) \/ RecoverSave(w) \/ RecoverAck(w)
  \/ \E j \in Jobs : RecoverBad(w, j) \/ RecoverKill(w, j)
  \/ Recovered(w) \/ Claim(w) \/ Quarantine(w) \/ SkipExpired(w) \/ Run(w)
  \/ PassKillSwitch(w) \/ SendOrders(w) \/ NoOrders(w) \/ SaveResult(w)
  \/ SaveCancelled(w) \/ Acknowledge(w)

WorkerTrouble(w) ==
  \/ EngineFails(w) \/ JobCancelled(w) \/ Crash(w) \/ Stop(w)
  \/ LossNoticed(w)

Next ==
  \/ \E j \in Jobs : Intake(j) \/ IntakeFails(j) \/ Age(j)
  \/ \E w \in Workers : WorkerStep(w) \/ WorkerTrouble(w)
  \/ LeaseExpires \/ ClearKill

Spec == Init /\ [][Next]_vars

\* A worker that runs makes progress, a worker that is down is started again
\* by its supervisor, and a TTL runs out.
FairSpec ==
  /\ Spec
  /\ \A j \in Jobs : WF_vars(Intake(j))
  /\ \A w \in Workers : WF_vars(WorkerStep(w))
  /\ WF_vars(LeaseExpires)
-----------------------------------------------------------------------------
(* Properties.                                                             *)

\* Every variable has its type.
TypeOK ==
  /\ intake \in [Jobs -> {"new", "saved", "queued", "lost"}]
  /\ queue \in Seq(Jobs)
  /\ processing \in SUBSET Jobs
  /\ dead \in SUBSET Jobs
  /\ history \in [Jobs -> {"none", "QUEUED", "SKIPPED", "INTERRUPTED", "RESULT"}]
  /\ kill \in BOOLEAN
  /\ lease \in Workers \cup {NoWorker}
  /\ expired \in SUBSET Jobs
  /\ pc \in [Workers -> WorkerStates]
  /\ job \in [Workers -> Jobs \cup {NoJob}]
  /\ todo \in [Workers -> SUBSET Jobs]
  /\ sent \in [Jobs -> Nat]
  /\ failures \in 0 .. MaxFailures
  /\ stalled \in BOOLEAN

\* "Never replay": whatever crashes, restarts and overlaps of workers there
\* are, the orders of a job are sent at most once.
NeverReplayed == \A j \in Jobs : sent[j] <= 1

\* "Acknowledge only after the final result is persisted": a job leaves the
\* processing list only with a final row in the history, or into the dead
\* queue.
AcknowledgedWithRecord ==
  [][\A j \in processing \ processing' :
       \/ history[j] \in {"SKIPPED", "INTERRUPTED", "RESULT"}
       \/ j \in dead]_vars

\* A claimed job that no worker works on or is going to settle.
Abandoned(j) ==
  /\ j \in processing
  /\ \A w \in Workers : job[w] # j /\ j \notin todo[w] /\ pc[w] # "starting"

\* "Restart recovery will mark uncertainty before any further entries can be
\* processed": no worker starts a job while another one is left behind.
UncertaintyMarkedFirst ==
  [][\A w \in Workers : Run(w) => stalled \/ \A j \in Jobs : ~Abandoned(j)]_vars

\* Every queued job is settled in the end: recorded, or quarantined, and off
\* the processing list.
Settled(j) ==
  /\ j \notin processing
  /\ history[j] \in {"SKIPPED", "INTERRUPTED", "RESULT"} \/ j \in dead
EveryJobSettles ==
  <>[](stalled \/ \A j \in Jobs : intake[j] = "queued" => Settled(j))
=============================================================================
