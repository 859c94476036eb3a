---------------------------- MODULE SignalIntake ----------------------------
(***************************************************************************)
(* Alerts where one process does everything (services/signal_intake.py,     *)
(* services/job_queue.py): a call of the webhook puts a job on a bounded     *)
(* queue in memory and waits for its future; a worker runs the job in a task *)
(* of its own, which saves the row, decides (and orders) and saves the       *)
(* result. Shutting down cancels the workers, wherever their tasks are.      *)
(***************************************************************************)
EXTENDS Integers, Sequences, FiniteSets

CONSTANTS
  Calls,        \* calls of the webhook
  Empty,        \* those in which no symbol was found
  Crews,        \* the workers of the first start(), of the second, ...
  Capacity,     \* maxsize of the queue
  MaxFailures,  \* bound: writes to Redis that fail
  None          \* no job

ASSUME IntakeAssumption ==
  /\ Empty \subseteq Calls /\ None \notin Calls
  /\ Capacity \in Nat \ {0} /\ MaxFailures \in Nat
  /\ Crews \in Seq(SUBSET UNION {Crews[k] : k \in DOMAIN Crews})
  \* start() makes new tasks.
  /\ \A k, l \in DOMAIN Crews : k # l => Crews[k] \cap Crews[l] = {}

Workers == UNION {Crews[k] : k \in DOMAIN Crews}

VARIABLES
  call,      \* the caller: what submit() is doing, how its future ended
  queue,     \* jobs put
  started,   \* _started
  crew,      \* how many times workers were started
  stopper,   \* stop(): none, waiting for the workers, done
  awaited,   \* the workers it waits for
  worker,    \* none, idle, busy, gone
  job,       \* what a worker's task is doing
  cancelled, \* cancel() of a worker: no, asked, passed on to its task
  stage,     \* of a job's task
  outcome,   \* how that task ended
  verdict,   \* what the decision came to
  row,       \* the alert's row in the history
  killed,    \* jobs for which the kill switch was set
  unwritten, \* jobs for which it was not, as Redis failed or the task was cancelled
  failures

vars == <<call, queue, started, crew, stopper, awaited, worker, job, cancelled,
          stage, outcome, verdict, row, killed, unwritten, failures>>

pool == <<started, crew, stopper, awaited>>
task == <<stage, outcome, verdict, row, killed, unwritten, failures>>

Init ==
  /\ call = [c \in Calls |-> "new"] /\ queue = <<>>
  /\ started = TRUE /\ crew = 1 /\ stopper = "none" /\ awaited = {}
  /\ worker = [w \in Workers |-> IF w \in Crews[1] THEN "idle" ELSE "none"]
  /\ job = [w \in Workers |-> None] /\ cancelled = [w \in Workers |-> "no"]
  /\ stage = [c \in Calls |-> "none"] /\ outcome = [c \in Calls |-> "none"]
  /\ verdict = [c \in Calls |-> "none"] /\ row = [c \in Calls |-> "none"]
  /\ killed = {} /\ unwritten = {} /\ failures = 0
-----------------------------------------------------------------------------
(* Callers.                                                                *)

\* start(), which submit() calls too.
StartWorkers ==
  IF started THEN UNCHANGED <<started, crew, worker>>
  ELSE /\ crew < Len(Crews)
       /\ started' = TRUE /\ crew' = crew + 1
       /\ worker' = [w \in Workers |->
                       IF w \in Crews[crew + 1] THEN "idle" ELSE worker[w]]

\* Put the job, or wait for room in the queue.
Submit(c) ==
  /\ call[c] = "new" /\ StartWorkers
  /\ IF Len(queue) < Capacity
     THEN call' = [call EXCEPT ![c] = "waiting"] /\ queue' = Append(queue, c)
     ELSE call' = [call EXCEPT ![c] = "putting"] /\ UNCHANGED queue
  /\ UNCHANGED <<stopper, awaited, job, cancelled, task>>

Put(c) ==
  /\ call[c] = "putting" /\ Len(queue) < Capacity
  /\ call' = [call EXCEPT ![c] = "waiting"] /\ queue' = Append(queue, c)
  /\ UNCHANGED <<pool, worker, job, cancelled, task>>

\* The caller is cancelled, and its future with it.
GiveUp(c) ==
  /\ call[c] \in {"putting", "waiting"}
  /\ call' = [call EXCEPT ![c] = "gone"]
  /\ UNCHANGED <<queue, pool, worker, job, cancelled, task>>
-----------------------------------------------------------------------------
(* The task of a job.                                                      *)

\* A worker whose cancellation has yet to reach its task.
Running(w, at) ==
  worker[w] = "busy" /\ cancelled[w] # "asked" /\ stage[job[w]] = at

threads == <<call, queue, pool, worker, job, cancelled>>

Goes(c, at) ==
  stage' = [stage EXCEPT ![c] = at] /\ UNCHANGED <<outcome, failures>>

Ends(c, how) ==
  /\ stage' = [stage EXCEPT ![c] = "ended"]
  /\ outcome' = [outcome EXCEPT ![c] = how]

\* Redis fails: the task ends with the exception.
Fails(c) == failures < MaxFailures /\ failures' = failures + 1 /\ Ends(c, "error")

\* The market feed is asked for the symbols; a failure or a timeout is only logged.
Subscribe(w) ==
  /\ Running(w, "subscribe") /\ Goes(job[w], "receive")
  /\ UNCHANGED <<threads, verdict, row, killed, unwritten>>

\* save_alert_received
Receive(w) ==
  /\ Running(w, "receive")
  /\ \/ Goes(job[w], "decide") /\ row' = [row EXCEPT ![job[w]] = "RECEIVED"]
     \/ Fails(job[w]) /\ UNCHANGED row
  /\ UNCHANGED <<threads, verdict, killed, unwritten>>

\* Mutant: a decision that was cancelled leaves without a trace.
DecideOrLeave(w) ==
  /\ Running(w, "decide")
  /\ \/ Goes(job[w], "finish") /\ verdict' = [verdict EXCEPT ![job[w]] = "result"]
     \/ Goes(job[w], "panic") /\ verdict' = [verdict EXCEPT ![job[w]] = "failed"]
     \/ /\ Ends(job[w], "cancelled") /\ UNCHANGED failures
        /\ verdict' = [verdict EXCEPT ![job[w]] = "interrupted"]
  /\ UNCHANGED <<threads, row, killed, unwritten>>

\* Results, an exception, or something that the engine waits for was cancelled.
Decide(w) ==
  /\ Running(w, "decide")
  /\ \/ Goes(job[w], "finish") /\ verdict' = [verdict EXCEPT ![job[w]] = "result"]
     \/ Goes(job[w], "panic") /\ verdict' = [verdict EXCEPT ![job[w]] = "failed"]
     \/ Goes(job[w], "interrupt")
          /\ verdict' = [verdict EXCEPT ![job[w]] = "interrupted"]
  /\ UNCHANGED <<threads, row, killed, unwritten>>

\* set_kill, after an exception and after a cancellation.
SetKill(w, at, next) ==
  /\ Running(w, at)
  /\ \/ Goes(job[w], next) /\ killed' = killed \cup {job[w]} /\ UNCHANGED unwritten
     \/ Fails(job[w]) /\ unwritten' = unwritten \cup {job[w]} /\ UNCHANGED killed
  /\ UNCHANGED <<threads, verdict, row>>

Panic(w) == SetKill(w, "panic", "finish")
Interrupt(w) == SetKill(w, "interrupt", "mark")

\* The rows of a job that was cancelled; then the cancellation goes on.
Mark(w) ==
  /\ Running(w, "mark")
  /\ \/ /\ Ends(job[w], "cancelled") /\ UNCHANGED failures
        /\ row' = [row EXCEPT ![job[w]] = "interrupted"]
     \/ Fails(job[w]) /\ UNCHANGED row
  /\ UNCHANGED <<threads, verdict, killed, unwritten>>

\* Mutant: the answer does not wait for the row.
AnswerFirst(w) ==
  /\ Running(w, "finish")
  /\ Ends(job[w], "ok") /\ UNCHANGED failures
  /\ row' \in {row, [row EXCEPT ![job[w]] = verdict[job[w]]]}
  /\ UNCHANGED <<threads, verdict, killed, unwritten>>

\* save_alert_result; a job without symbols only has this row.
Finish(w) ==
  /\ Running(w, "finish")
  /\ \/ /\ Ends(job[w], "ok") /\ UNCHANGED failures
        /\ row' = [row EXCEPT ![job[w]] = verdict[job[w]]]
     \/ Fails(job[w]) /\ UNCHANGED row
  /\ UNCHANGED <<threads, verdict, killed, unwritten>>
-----------------------------------------------------------------------------
(* Workers.                                                                *)

\* The job of a caller that is gone is skipped.
Take(w) ==
  /\ worker[w] = "idle" /\ queue # <<>>
  /\ queue' = Tail(queue)
  /\ LET c == Head(queue) IN
       IF call[c] = "gone" THEN UNCHANGED <<worker, job, stage, verdict>>
       ELSE /\ worker' = [worker EXCEPT ![w] = "busy"]
            /\ job' = [job EXCEPT ![w] = c]
            /\ stage' = [stage EXCEPT ![c] = IF c \in Empty THEN "finish" ELSE "subscribe"]
            /\ verdict' = [verdict EXCEPT ![c] = IF c \in Empty THEN "nothing" ELSE @]
  /\ UNCHANGED <<call, pool, cancelled, outcome, row, killed, unwritten, failures>>

\* The write that the task was waiting for may have been done.
MayHaveWritten(c) ==
  /\ row' \in CASE stage[c] = "receive" -> {row, [row EXCEPT ![c] = "RECEIVED"]}
                [] stage[c] = "mark"    -> {row, [row EXCEPT ![c] = "interrupted"]}
                [] stage[c] = "finish"  -> {row, [row EXCEPT ![c] = verdict[c]]}
                [] OTHER -> {row}
  /\ IF stage[c] \in {"panic", "interrupt"}
     THEN killed' \in {killed, killed \cup {c}} /\ unwritten' = unwritten \cup {c}
     ELSE UNCHANGED <<killed, unwritten>>

\* cancel() reaches the task where it waits; only a decision does something then.
PassOn(w) ==
  /\ worker[w] = "busy" /\ cancelled[w] = "asked" /\ stage[job[w]] # "ended"
  /\ cancelled' = [cancelled EXCEPT ![w] = "passed"]
  /\ IF stage[job[w]] = "decide"
     THEN /\ Goes(job[w], "interrupt")
          /\ verdict' = [verdict EXCEPT ![job[w]] = "interrupted"]
          /\ UNCHANGED <<row, killed, unwritten>>
     ELSE Ends(job[w], "cancelled") /\ MayHaveWritten(job[w])
            /\ UNCHANGED <<verdict, failures>>
  /\ UNCHANGED <<call, queue, pool, worker, job>>

\* A worker that was cancelled when its task had ended does not see how.
Heard(w) == IF cancelled[w] = "asked" THEN "cancelled" ELSE outcome[job[w]]

\* Mutant: a worker takes its own cancellation for that of the task.
NeverEnds(w) == FALSE

\* Only a worker that was cancelled itself ends.
Leaves(w) == Heard(w) = "cancelled" /\ cancelled[w] # "no"

\* The future, unless the caller is gone.
Answer(w) ==
  CASE Leaves(w)        -> "dropped"
    [] Heard(w) = "ok"  -> "answered"
    [] OTHER            -> "failed"

Deliver(w) ==
  /\ worker[w] = "busy" /\ stage[job[w]] = "ended"
  /\ call' = [call EXCEPT ![job[w]] = IF @ = "gone" THEN @ ELSE Answer(w)]
  /\ worker' = [worker EXCEPT ![w] = IF Leaves(w) THEN "gone" ELSE "idle"]
  /\ job' = [job EXCEPT ![w] = None]
  /\ UNCHANGED <<queue, pool, cancelled, task>>
-----------------------------------------------------------------------------
(* Shutting down.                                                          *)

Alive(w) == worker[w] \in {"idle", "busy"}

\* The newest workers are cancelled; one that waits for a job ends.
Stop ==
  /\ stopper = "none" /\ stopper' = "waiting" /\ started' = FALSE
  /\ awaited' = Crews[crew]
  /\ worker' = [w \in Workers |->
                  IF w \in Crews[crew] /\ worker[w] = "idle" THEN "gone" ELSE worker[w]]
  /\ cancelled' = [w \in Workers |->
                     IF w \in Crews[crew] /\ worker[w] = "busy" THEN "asked"
                     ELSE cancelled[w]]
  /\ UNCHANGED <<call, queue, crew, job, task>>

\* Mutant: the jobs that were not taken are left.
LeaveQueue == UNCHANGED <<queue, call>>

DrainQueue ==
  /\ queue' = <<>>
  /\ call' = [c \in Calls |->
                IF call[c] = "waiting" /\ \E k \in DOMAIN queue : queue[k] = c
                THEN "dropped" ELSE call[c]]

Stopped ==
  /\ stopper = "waiting" /\ \A w \in awaited : ~Alive(w)
  /\ stopper' = "done" /\ DrainQueue
  /\ UNCHANGED <<started, crew, awaited, worker, job, cancelled, task>>
-----------------------------------------------------------------------------
WorkerStep(w) ==
  \/ Take(w) \/ Subscribe(w) \/ Receive(w) \/ Decide(w) \/ Panic(w) \/ Interrupt(w)
  \/ Mark(w) \/ Finish(w) \/ PassOn(w) \/ Deliver(w)

Next ==
  \/ \E c \in Calls : Submit(c) \/ Put(c) \/ GiveUp(c)
  \/ \E w \in Workers : WorkerStep(w)
  \/ Stop \/ Stopped

\* What a task waits for ends; the loop runs what is ready.
Fairness == (\A w \in Workers : WF_vars(WorkerStep(w))) /\ WF_vars(Stopped)

Spec == Init /\ [][Next]_vars /\ Fairness
-----------------------------------------------------------------------------
(* Properties.                                                             *)

\* A decision that ended without a result, whose orders nobody knows, has set the kill
\* switch, unless setting it failed or was cut off itself.
InterruptedIsStopped ==
  \A c \in Calls :
    stage[c] = "ended" /\ verdict[c] \in {"failed", "interrupted"}
      => c \in killed \cup unwritten

\* A caller is told only what the alert's row says by then, and no later write or
\* cancellation makes the row something else.
AnswerIsRecorded ==
  \A c \in Calls :
    call[c] = "answered" => row[c] = verdict[c] /\ verdict[c] # "interrupted"

\* Whoever has put a job before the queue was stopped hears how it ended.
CallersHear ==
  \A c \in Calls :
    call[c] = "waiting" /\ stopper # "done"
      ~> call[c] \in {"answered", "failed", "dropped", "gone"}

\* stop() ends, unless the kill switch or the row of a decision that it cut off could not
\* be written: that exception takes the place of the cancellation, and the worker goes
\* back to the queue.
StopEnds ==
  stopper = "waiting"
    ~> \/ stopper = "done"
       \/ /\ \E w \in awaited : cancelled[w] = "passed" /\ worker[w] = "idle"
          /\ \E c \in Calls : outcome[c] = "error" /\ verdict[c] = "interrupted"
=============================================================================
