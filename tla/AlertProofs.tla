----------------------------- MODULE AlertProofs -----------------------------
(***************************************************************************)
(* What becomes of an alert inside a service and in the history.             *)
(*                                                                           *)
(* SignalIntake: what the in-memory queue promises for any number of calls   *)
(* and workers: no decision ends without a trace, and no caller is told what *)
(* the row does not say. Both rest on a job being worked at once only: it is *)
(* on the queue once, before anything has happened to it (Queued), and its   *)
(* task goes through its stages one way (Staged). Attended says who has it.  *)
(*                                                                           *)
(* AlertHistory, for any number of alerts and of coroutines: a save is       *)
(* atomic whatever update_alert_status does, and saves alone implement the   *)
(* table of AlertTable.                                                      *)
(***************************************************************************)
EXTENDS SignalIntake, AlertHistory, SequenceTheorems, TLAPS

Stages == {"none", "subscribe", "receive", "decide", "panic", "interrupt", "mark",
           "finish", "ended"}
Outcomes == {"none", "ok", "error", "cancelled"}
Verdicts == {"none", "nothing", "result", "failed", "interrupted"}

TypeOK ==
  /\ call \in [Calls -> {"new", "putting", "waiting", "gone",
                         "answered", "failed", "dropped"}]
  /\ queue \in Seq(Calls)
  /\ worker \in [Workers -> {"none", "idle", "busy", "gone"}]
  /\ job \in [Workers -> Calls \cup {None}]
  /\ \A w \in Workers : worker[w] = "busy" => job[w] \in Calls
  /\ cancelled \in [Workers -> {"no", "asked", "passed"}]
  /\ stage \in [Calls -> Stages] /\ outcome \in [Calls -> Outcomes]
  /\ verdict \in [Calls -> Verdicts]
  /\ row \in [Calls -> Verdicts \cup {"RECEIVED"}]
  /\ killed \subseteq Calls /\ unwritten \subseteq Calls

OnQueue(c) == \E k \in 1 .. Len(queue) : queue[k] = c

Queued ==
  /\ \A k, l \in 1 .. Len(queue) : queue[k] = queue[l] => k = l
  /\ \A c \in Calls : call[c] \in {"new", "putting"} => ~OnQueue(c)
  /\ \A c \in Calls : call[c] \in {"new", "putting"} \/ OnQueue(c) => stage[c] = "none"
  /\ \A w \in Workers : worker[w] = "busy" => stage[job[w]] # "none"

\* What is settled about a job at each stage of its task.
StagedAt(c) ==
  /\ stage[c] \in {"none", "subscribe", "receive", "decide"} => verdict[c] = "none"
  /\ stage[c] = "panic" => verdict[c] = "failed"
  /\ stage[c] \in {"interrupt", "mark"} => verdict[c] = "interrupted"
  /\ stage[c] = "mark" => c \in killed
  /\ stage[c] = "finish" => verdict[c] \in {"nothing", "result", "failed"}
  /\ stage[c] = "finish" /\ verdict[c] = "failed" => c \in killed
  /\ stage[c] = "ended" /\ verdict[c] \in {"failed", "interrupted"}
       => c \in killed \cup unwritten
  /\ stage[c] = "ended" /\ outcome[c] = "ok"
       => row[c] = verdict[c] /\ verdict[c] # "interrupted"
  /\ call[c] = "answered" => stage[c] = "ended" /\ outcome[c] = "ok"

Staged == \A c \in Calls : StagedAt(c)

Jobs == TypeOK /\ Queued /\ Staged
-----------------------------------------------------------------------------
LEMMA InitJobs == Init => Jobs
<1> SUFFICES ASSUME Init PROVE Jobs OBVIOUS
<1>1. TypeOK BY IntakeAssumption DEF Init, TypeOK, Stages, Outcomes, Verdicts
<1>2. Queued BY DEF Init, Queued, OnQueue
<1>3. Staged BY DEF Init, Staged, StagedAt
<1>4. QED BY <1>1, <1>2, <1>3 DEF Jobs

\* A step of the task of c, which touches the books of no other job, keeps them if it
\* keeps those of c.
LEMMA OneTask ==
  ASSUME Jobs, NEW c \in Calls, stage[c] # "none", UNCHANGED <<call, queue, worker, job>>, stage'[c] # "none",
         \A d \in Calls \ {c} :
           /\ stage'[d] = stage[d] /\ outcome'[d] = outcome[d]
           /\ verdict'[d] = verdict[d] /\ row'[d] = row[d]
           /\ d \in killed => d \in killed'
           /\ d \in unwritten => d \in unwritten',
         StagedAt(c)'
  PROVE  Queued' /\ Staged'
<1>1. Queued'
  <2>1. ASSUME NEW d \in Calls, stage[d] = "none" PROVE stage'[d] = "none"
    BY <2>1
  <2>2. ASSUME NEW d \in Calls, stage[d] # "none" PROVE stage'[d] # "none"
    BY <2>2
  <2>3. \A w \in Workers : worker'[w] = "busy" => stage'[job'[w]] # "none"
    BY <2>2 DEF Jobs, TypeOK, Queued
  <2>4. QED BY <2>1, <2>3 DEF Jobs, Queued, OnQueue
<1>2. ASSUME NEW d \in Calls \ {c} PROVE StagedAt(d)'
  BY <1>2 DEF Jobs, Staged, StagedAt
<1>3. QED BY <1>1, <1>2 DEF Staged

\* The steps of a task that runs.
LEMMA TaskKept ==
  ASSUME Jobs, NEW w \in Workers,
         \/ Subscribe(w) \/ Receive(w) \/ Decide(w) \/ Panic(w) \/ Interrupt(w)
         \/ Mark(w) \/ Finish(w)
  PROVE  Jobs'
<1> DEFINE c == job[w]
<1>1. c \in Calls /\ worker[w] = "busy"
  BY DEF Jobs, TypeOK, Subscribe, Receive, Decide, Panic, Interrupt, SetKill, Mark, Finish,
         Running
<1>2. UNCHANGED threads
  BY DEF Subscribe, Receive, Decide, Panic, Interrupt, SetKill, Mark, Finish
<1>3. StagedAt(c) BY <1>1 DEF Jobs, Staged
<1>4. TypeOK' /\ Queued' /\ Staged'
  <2>1. CASE Subscribe(w)
    <3>1. TypeOK' BY <1>1, <2>1 DEF Jobs, TypeOK, Subscribe, Goes, threads, Stages
    <3>2. StagedAt(c)'
      BY <1>1, <1>3, <2>1 DEF Jobs, TypeOK, Subscribe, Running, Goes, threads, StagedAt
    <3>3. QED
      BY <1>1, <2>1, <3>1, <3>2, OneTask
      DEF Jobs, TypeOK, Subscribe, Running, Goes, threads
  <2>2. CASE Receive(w)
    <3>1. TypeOK'
      BY <1>1, <2>2
      DEF Jobs, TypeOK, Receive, Goes, Fails, Ends, threads, Stages, Outcomes, Verdicts
    <3>2. StagedAt(c)'
      BY <1>1, <1>3, <2>2
      DEF Jobs, TypeOK, Receive, Running, Goes, Fails, Ends, threads, StagedAt
    <3>3. QED
      BY <1>1, <2>2, <3>1, <3>2, OneTask
      DEF Jobs, TypeOK, Receive, Running, Goes, Fails, Ends, threads
  <2>3. CASE Decide(w)
    <3>1. TypeOK'
      BY <1>1, <2>3 DEF Jobs, TypeOK, Decide, Goes, threads, Stages, Verdicts
    <3>2. StagedAt(c)'
      BY <1>1, <1>3, <2>3 DEF Jobs, TypeOK, Decide, Running, Goes, threads, StagedAt
    <3>3. QED
      BY <1>1, <2>3, <3>1, <3>2, OneTask DEF Jobs, TypeOK, Decide, Running, Goes, threads
  <2>4. CASE Panic(w)
    <3>1. TypeOK'
      BY <1>1, <2>4
      DEF Jobs, TypeOK, Panic, SetKill, Goes, Fails, Ends, threads, Stages, Outcomes
    <3>2. StagedAt(c)'
      BY <1>1, <1>3, <2>4
      DEF Jobs, TypeOK, Panic, SetKill, Running, Goes, Fails, Ends, threads, StagedAt
    <3>3. QED
      BY <1>1, <2>4, <3>1, <3>2, OneTask
      DEF Jobs, TypeOK, Panic, SetKill, Running, Goes, Fails, Ends, threads
  <2>5. CASE Interrupt(w)
    <3>1. TypeOK'
      BY <1>1, <2>5
      DEF Jobs, TypeOK, Interrupt, SetKill, Goes, Fails, Ends, threads, Stages, Outcomes
    <3>2. StagedAt(c)'
      BY <1>1, <1>3, <2>5
      DEF Jobs, TypeOK, Interrupt, SetKill, Running, Goes, Fails, Ends, threads, StagedAt
    <3>3. QED
      BY <1>1, <2>5, <3>1, <3>2, OneTask
      DEF Jobs, TypeOK, Interrupt, SetKill, Running, Goes, Fails, Ends, threads
  <2>6. CASE Mark(w)
    <3>1. TypeOK'
      BY <1>1, <2>6
      DEF Jobs, TypeOK, Mark, Fails, Ends, threads, Stages, Outcomes, Verdicts
    <3>2. StagedAt(c)'
      BY <1>1, <1>3, <2>6
      DEF Jobs, TypeOK, Mark, Running, Fails, Ends, threads, StagedAt
    <3>3. QED
      BY <1>1, <2>6, <3>1, <3>2, OneTask DEF Jobs, TypeOK, Mark, Running, Fails, Ends, threads
  <2>7. CASE Finish(w)
    <3>1. TypeOK'
      <4>1. verdict[c] \in Verdicts BY <1>1 DEF Jobs, TypeOK
      <4>2. row' \in [Calls -> Verdicts \cup {"RECEIVED"}]
        BY <1>1, <2>7, <4>1 DEF Jobs, TypeOK, Finish
      <4>3. QED
        BY <1>1, <2>7, <4>2
        DEF Jobs, TypeOK, Finish, Fails, Ends, threads, Stages, Outcomes
    <3>2. StagedAt(c)'
      BY <1>1, <1>3, <2>7
      DEF Jobs, TypeOK, Finish, Running, Fails, Ends, threads, StagedAt
    <3>3. QED
      BY <1>1, <2>7, <3>1, <3>2, OneTask
      DEF Jobs, TypeOK, Finish, Running, Fails, Ends, threads
  <2>8. QED BY <2>1, <2>2, <2>3, <2>4, <2>5, <2>6, <2>7
<1>5. QED BY <1>4 DEF Jobs

\* Cutting a task off keeps what is settled, whether or not its write was done.
LEMMA PassOnKept == ASSUME Jobs, NEW w \in Workers, PassOn(w) PROVE Jobs'
<1> DEFINE c == job[w]
<1>1. c \in Calls BY DEF Jobs, TypeOK, PassOn
<1>2. StagedAt(c) BY <1>1 DEF Jobs, Staged
<1>3. CASE stage[c] = "decide"
  <2>1. TypeOK' BY <1>1, <1>3 DEF Jobs, TypeOK, PassOn, Goes, Stages, Verdicts, pool
  <2>2. StagedAt(c)' BY <1>1, <1>2, <1>3 DEF Jobs, TypeOK, PassOn, Goes, StagedAt
  <2>3. QED BY <1>1, <1>3, <2>1, <2>2, OneTask DEF Jobs, TypeOK, PassOn, Goes
<1>4. CASE stage[c] # "decide"
  <2>1. /\ row' \in [Calls -> Verdicts \cup {"RECEIVED"}]
        /\ \A d \in Calls \ {c} : row'[d] = row[d]
    <3>1. \/ row' = row \/ row' = [row EXCEPT ![c] = "RECEIVED"]
          \/ row' = [row EXCEPT ![c] = "interrupted"] \/ row' = [row EXCEPT ![c] = verdict[c]]
      BY <1>4 DEF PassOn, MayHaveWritten
    <3>2. verdict[c] \in Verdicts BY <1>1 DEF Jobs, TypeOK
    <3>3. QED BY <1>1, <3>1, <3>2 DEF Jobs, TypeOK, Verdicts
  <2>2. /\ killed \subseteq killed' /\ unwritten \subseteq unwritten'
        /\ killed' \subseteq killed \cup {c} /\ unwritten' \subseteq unwritten \cup {c}
        /\ stage[c] \in {"panic", "interrupt"} => c \in unwritten'
    BY <1>4 DEF PassOn, MayHaveWritten
  <2>3. /\ stage' = [stage EXCEPT ![c] = "ended"]
        /\ outcome' = [outcome EXCEPT ![c] = "cancelled"]
        /\ cancelled' = [cancelled EXCEPT ![w] = "passed"]
        /\ UNCHANGED <<call, queue, worker, job, verdict>>
        /\ stage[c] # "ended" /\ worker[w] = "busy"
    BY <1>4 DEF PassOn, Ends
  <2>4. TypeOK'
    BY <1>1, <2>1, <2>2, <2>3 DEF Jobs, TypeOK, Stages, Outcomes
  <2>5. StagedAt(c)'
    BY <1>1, <1>2, <1>4, <2>2, <2>3 DEF Jobs, TypeOK, Stages, StagedAt
  <2>6. stage[c] # "none" BY <2>3 DEF Jobs, Queued
  <2>7. Queued' /\ Staged'
    BY <1>1, <2>1, <2>2, <2>3, <2>5, <2>6, OneTask DEF Jobs, TypeOK
  <2>8. QED BY <2>4, <2>7 DEF Jobs
<1>5. QED BY <1>3, <1>4

\* A job that is put is not on the queue, and nothing has happened to it.
LEMMA Putting ==
  ASSUME Jobs, NEW c \in Calls, call[c] \in {"new", "putting"}, UNCHANGED <<stage, job>>,
         call' = [call EXCEPT ![c] = "waiting"], queue' = Append(queue, c),
         \A w \in Workers : worker'[w] = "busy" => worker[w] = "busy"
  PROVE  queue' \in Seq(Calls) /\ Queued'
<1>1. queue' \in Seq(Calls) /\ Len(queue') = Len(queue) + 1 /\ Len(queue) \in Nat
  BY DEF Jobs, TypeOK
<1>2. \A k \in 1 .. Len(queue) : queue'[k] = queue[k]
  BY DEF Jobs, TypeOK
<1>3. queue'[Len(queue) + 1] = c BY DEF Jobs, TypeOK
<1>4. \A k \in 1 .. Len(queue') : k \in 1 .. Len(queue) \/ k = Len(queue) + 1 BY <1>1
<1>5. \A d \in Calls : OnQueue(d)' => OnQueue(d) \/ d = c
  BY <1>2, <1>3, <1>4 DEF OnQueue
<1>6. ~OnQueue(c) /\ stage[c] = "none" BY DEF Jobs, Queued
<1>7. \A k, l \in 1 .. Len(queue') : queue'[k] = queue'[l] => k = l
  BY <1>2, <1>3, <1>4, <1>6 DEF Jobs, Queued, OnQueue
<1>8. \A d \in Calls : call'[d] \in {"new", "putting"} => d # c /\ call'[d] = call[d]
  BY DEF Jobs, TypeOK
<1>9. \A w \in Workers : worker'[w] = "busy" => stage'[job'[w]] # "none"
  BY DEF Jobs, Queued
<1>10. QED BY <1>1, <1>5, <1>6, <1>7, <1>8, <1>9 DEF Jobs, Queued

\* What callers and workers do outside of the tasks keeps what is settled of a job.
LEMMA Untouched ==
  ASSUME Jobs, UNCHANGED task,
         \A c \in Calls : call'[c] = "answered" =>
           call[c] = "answered" \/ (stage[c] = "ended" /\ outcome[c] = "ok")
  PROVE  Staged'
BY DEF Jobs, Staged, StagedAt, task

LEMMA CallersKept ==
  ASSUME Jobs, NEW c \in Calls, Submit(c) \/ Put(c) \/ GiveUp(c) PROVE Jobs'
<1>1. /\ worker' \in [Workers -> {"none", "idle", "busy", "gone"}]
      /\ \A w \in Workers : worker'[w] = "busy" => worker[w] = "busy"
  BY DEF Jobs, TypeOK, Submit, Put, GiveUp, StartWorkers
<1>2. UNCHANGED <<job, cancelled, task>> BY DEF Submit, Put, GiveUp
<1>3. /\ call' \in [Calls -> {"new", "putting", "waiting", "gone",
                             "answered", "failed", "dropped"}]
      /\ \A d \in Calls : call'[d] = "answered" => call[d] = "answered"
  BY DEF Jobs, TypeOK, Submit, Put, GiveUp
<1>4. queue' \in Seq(Calls) /\ Queued'
  <2>1. CASE /\ call[c] \in {"new", "putting"} /\ queue' = Append(queue, c)
             /\ call' = [call EXCEPT ![c] = "waiting"]
    BY <1>1, <1>2, <2>1, Putting DEF task
  <2>2. CASE /\ UNCHANGED queue
             /\ \A d \in Calls : call'[d] \in {"new", "putting"} =>
                  call[d] \in {"new", "putting"}
    BY <1>1, <1>2, <2>2 DEF Jobs, TypeOK, Queued, OnQueue, task
  <2>3. QED BY <2>1, <2>2 DEF Jobs, TypeOK, Submit, Put, GiveUp
<1>5. TypeOK' BY <1>1, <1>2, <1>3, <1>4 DEF Jobs, TypeOK, task
<1>6. Staged'
  <2>1. UNCHANGED task BY <1>2
  <2>2. \A d \in Calls : call'[d] = "answered" =>
          call[d] = "answered" \/ (stage[d] = "ended" /\ outcome[d] = "ok")
    BY <1>3
  <2>3. QED BY <2>1, <2>2, Untouched
<1>7. QED BY <1>4, <1>5, <1>6 DEF Jobs

\* The job that a worker takes leaves the queue.
LEMMA TakeKept == ASSUME Jobs, NEW w \in Workers, Take(w) PROVE Jobs'
<1>1. queue \in Seq(Calls) /\ queue # <<>> BY DEF Jobs, TypeOK, Take
<1>2. PICK c \in Calls : c = Head(queue) /\ c = queue[1] /\ Len(queue) \in Nat \ {0}
  BY <1>1
<1>3. /\ queue' \in Seq(Calls) /\ Len(queue') = Len(queue) - 1
      /\ \A k \in 1 .. Len(queue') : queue'[k] = queue[k + 1] /\ k + 1 \in 1 .. Len(queue)
  BY <1>1, <1>2 DEF Take
<1>4. OnQueue(c) BY <1>2 DEF OnQueue
<1>5. /\ \A k, l \in 1 .. Len(queue') : queue'[k] = queue'[l] => k = l
      /\ \A d \in Calls : OnQueue(d)' => OnQueue(d) /\ d # c
  <2>1. \A k \in 1 .. Len(queue') : k \in Nat BY <1>3
  <2>2. \A k, l \in 1 .. Len(queue) : queue[k] = queue[l] => k = l BY DEF Jobs, Queued
  <2>3. ASSUME NEW k \in 1 .. Len(queue'), NEW l \in 1 .. Len(queue'), queue'[k] = queue'[l]
        PROVE  k = l
    <3>1. k + 1 = l + 1 BY <1>3, <2>2, <2>3
    <3>2. QED BY <2>1, <3>1
  <2>4. ASSUME NEW k \in 1 .. Len(queue') PROVE queue'[k] # c
    <3>1. 1 \in 1 .. Len(queue) /\ k + 1 # 1 BY <1>2, <2>1
    <3>2. QED BY <1>2, <1>3, <2>2, <3>1
  <2>5. \A d \in Calls : OnQueue(d)' => OnQueue(d) BY <1>3 DEF OnQueue
  <2>6. \A d \in Calls : OnQueue(d)' => d # c BY <2>4 DEF OnQueue
  <2>7. QED BY <2>3, <2>5, <2>6
<1>6. stage[c] = "none" /\ call[c] \notin {"new", "putting"} /\ verdict[c] = "none"
  BY <1>2, <1>4 DEF Jobs, Queued, Staged, StagedAt
<1>7. CASE call[c] = "gone"
  <2>1. UNCHANGED <<call, worker, job, cancelled, stage, verdict, outcome, row, killed,
                    unwritten>>
    BY <1>2, <1>7 DEF Take
  <2>2. TypeOK' BY <1>3, <2>1 DEF Jobs, TypeOK
  <2>3. Queued' BY <1>5, <2>1 DEF Jobs, Queued, OnQueue
  <2>4. Staged' BY <2>1 DEF Jobs, Staged, StagedAt
  <2>5. QED BY <2>2, <2>3, <2>4 DEF Jobs
<1>8. CASE call[c] # "gone"
  <2>1. /\ UNCHANGED <<call, cancelled, outcome, row, killed, unwritten>>
        /\ worker' = [worker EXCEPT ![w] = "busy"] /\ job' = [job EXCEPT ![w] = c]
        /\ stage' = [stage EXCEPT ![c] = IF c \in Empty THEN "finish" ELSE "subscribe"]
        /\ verdict' = [verdict EXCEPT ![c] = IF c \in Empty THEN "nothing" ELSE @]
    BY <1>2, <1>8 DEF Take
  <2>2. TypeOK' BY <1>2, <1>3, <1>6, <2>1 DEF Jobs, TypeOK, Stages, Verdicts
  <2>3. Queued'
    <3>1. \A d \in Calls : (d # c => stage'[d] = stage[d]) /\ stage'[c] # "none"
      BY <1>2, <2>1 DEF Jobs, TypeOK
    <3>2. \A d \in Calls : stage[d] # "none" => stage'[d] # "none" BY <1>6, <3>1
    <3>3. \A v \in Workers : worker'[v] = "busy" => stage'[job'[v]] # "none"
      BY <1>2, <2>1, <3>1, <3>2 DEF Jobs, TypeOK, Queued
    <3>4. QED BY <1>5, <1>6, <2>1, <3>1, <3>3 DEF Jobs, Queued
  <2>4. Staged'
    <3>1. StagedAt(c)'
      <4>1. call[c] # "answered" /\ UNCHANGED call
        BY <1>6, <2>1 DEF Jobs, Staged, StagedAt
      <4>2. CASE c \in Empty
        <5>1. stage'[c] = "finish" /\ verdict'[c] = "nothing"
          BY <2>1, <4>2 DEF Jobs, TypeOK
        <5>2. QED BY <4>1, <5>1 DEF StagedAt
      <4>3. CASE c \notin Empty
        <5>1. stage'[c] = "subscribe" /\ verdict'[c] = "none"
          BY <1>6, <2>1, <4>3 DEF Jobs, TypeOK
        <5>2. QED BY <4>1, <5>1 DEF StagedAt
      <4>4. QED BY <4>2, <4>3
    <3>2. ASSUME NEW d \in Calls \ {c} PROVE StagedAt(d)'
      BY <1>2, <2>1, <3>2 DEF Jobs, TypeOK, Staged, StagedAt
    <3>3. QED BY <3>1, <3>2 DEF Staged
  <2>5. QED BY <2>2, <2>3, <2>4 DEF Jobs
<1>9. QED BY <1>7, <1>8

\* A caller is answered when the task of its job has ended well.
LEMMA DeliverKept == ASSUME Jobs, NEW w \in Workers, Deliver(w) PROVE Jobs'
<1>1. PICK c \in Calls : c = job[w] /\ stage[c] = "ended"
  BY DEF Jobs, TypeOK, Deliver
<1>2. Answer(w) \in {"dropped", "answered", "failed"} BY DEF Answer
<1>3. Answer(w) = "answered" => outcome[c] = "ok" BY <1>1 DEF Answer, Heard
<1>4. /\ \A d \in Calls \ {c} : call'[d] = call[d]
      /\ call'[c] = IF call[c] = "gone" THEN "gone" ELSE Answer(w)
      /\ call' \in [Calls -> {"new", "putting", "waiting", "gone",
                             "answered", "failed", "dropped"}]
  BY <1>1, <1>2 DEF Jobs, TypeOK, Deliver
<1>5. /\ worker' \in [Workers -> {"none", "idle", "busy", "gone"}]
      /\ job' \in [Workers -> Calls \cup {None}]
      /\ \A v \in Workers : worker'[v] = "busy" => worker[v] = "busy" /\ job'[v] = job[v]
  BY DEF Jobs, TypeOK, Deliver
<1>6. UNCHANGED <<queue, cancelled, task>> BY DEF Deliver
<1>7. TypeOK' BY <1>4, <1>5, <1>6 DEF Jobs, TypeOK, task
<1>8. Queued'
  <2>1. \A d \in Calls : call'[d] \in {"new", "putting"} => call[d] \in {"new", "putting"}
    BY <1>1, <1>2, <1>4
  <2>2. QED BY <1>5, <1>6, <2>1 DEF Jobs, Queued, OnQueue, task
<1>9. Staged'
  <2>1. \A d \in Calls : call'[d] = "answered" =>
          call[d] = "answered" \/ (stage[d] = "ended" /\ outcome[d] = "ok")
    BY <1>1, <1>3, <1>4
  <2>2. UNCHANGED task BY <1>6
  <2>3. QED BY <2>1, <2>2, Untouched
<1>10. QED BY <1>7, <1>8, <1>9 DEF Jobs

LEMMA StoppingKept == ASSUME Jobs, Stop \/ Stopped PROVE Jobs'
<1>1. UNCHANGED <<job, task>> BY DEF Stop, Stopped
<1>2. /\ worker' \in [Workers -> {"none", "idle", "busy", "gone"}]
      /\ cancelled' \in [Workers -> {"no", "asked", "passed"}]
      /\ \A w \in Workers : worker'[w] = "busy" => worker[w] = "busy"
  BY DEF Jobs, TypeOK, Stop, Stopped
<1>3. /\ call' \in [Calls -> {"new", "putting", "waiting", "gone",
                             "answered", "failed", "dropped"}]
      /\ \A c \in Calls : call'[c] \in {"new", "putting", "answered"} => call[c] = call'[c]
  <2>1. call \in [Calls -> {"new", "putting", "waiting", "gone",
                           "answered", "failed", "dropped"}]
    BY DEF Jobs, TypeOK
  <2>2. CASE Stop BY <2>1, <2>2 DEF Stop
  <2>3. CASE Stopped BY <2>1, <2>3 DEF Stopped, DrainQueue
  <2>4. QED BY <2>2, <2>3
<1>4. queue' \in Seq(Calls) /\ (queue' = queue \/ queue' = <<>>)
  <2>1. queue \in Seq(Calls) BY DEF Jobs, TypeOK
  <2>2. queue' = queue \/ queue' = <<>> BY DEF Stop, Stopped, DrainQueue
  <2>3. << >> \in Seq(Calls) OBVIOUS
  <2>4. QED BY <2>1, <2>2, <2>3, Zenon
<1>5. TypeOK' BY <1>1, <1>2, <1>3, <1>4 DEF Jobs, TypeOK, task
<1>6. Queued' BY <1>1, <1>2, <1>3, <1>4 DEF Jobs, Queued, OnQueue, task
<1>7. Staged'
  <2>1. \A c \in Calls : call'[c] = "answered" =>
          call[c] = "answered" \/ (stage[c] = "ended" /\ outcome[c] = "ok")
    BY <1>3
  <2>2. UNCHANGED task BY <1>1
  <2>3. QED BY <2>1, <2>2, Untouched
<1>8. QED BY <1>5, <1>6, <1>7 DEF Jobs

LEMMA JobsKept == Jobs /\ [Next]_vars => Jobs'
<1> SUFFICES ASSUME Jobs, [Next]_vars PROVE Jobs' OBVIOUS
<1>1. CASE \E c \in Calls : Submit(c) \/ Put(c) \/ GiveUp(c) BY <1>1, CallersKept
<1>2. CASE \E w \in Workers : WorkerStep(w)
  BY <1>2, TaskKept, TakeKept, PassOnKept, DeliverKept DEF WorkerStep
<1>3. CASE Stop \/ Stopped BY <1>3, StoppingKept
<1>4. CASE UNCHANGED vars
  <2>1. TypeOK' BY <1>4 DEF Jobs, TypeOK, vars
  <2>2. Queued' BY <1>4 DEF Jobs, Queued, OnQueue, vars
  <2>3. Staged' BY <1>4 DEF Jobs, Staged, StagedAt, vars
  <2>4. QED BY <2>1, <2>2, <2>3 DEF Jobs
<1>5. QED BY <1>1, <1>2, <1>3, <1>4 DEF Next
-----------------------------------------------------------------------------
\* Every job of the queue in memory is settled: on the queue once and untouched, or at
\* one stage of its task.
THEOREM JobsAccounted == Spec => []Jobs
BY InitJobs, JobsKept, PTL DEF Spec

\* A decision that failed or was cut off has set the kill switch, or setting it failed.
THEOREM InterruptedStops == Spec => []InterruptedIsStopped
<1>1. Jobs => InterruptedIsStopped BY DEF Jobs, Staged, StagedAt, InterruptedIsStopped
<1>2. QED BY <1>1, JobsAccounted, PTL

\* Whatever a caller is told, the alert's row says, then and later.
THEOREM AnswersRecorded == Spec => []AnswerIsRecorded
<1>1. Jobs => AnswerIsRecorded BY DEF Jobs, Staged, StagedAt, AnswerIsRecorded
<1>2. QED BY <1>1, JobsAccounted, PTL
-----------------------------------------------------------------------------
(* Who looks after a job.                                                   *)

WorksOn(w, c) == worker[w] = "busy" /\ job[w] = c

\* A caller that waits has its job on the queue or with a worker; a task that runs has a
\* worker that waits for its end; and no two workers have the same job.
Attended ==
  /\ \A c \in Calls :
       /\ call[c] = "waiting" => OnQueue(c) \/ \E w \in Workers : WorksOn(w, c)
       /\ stage[c] \notin {"none", "ended"} => \E w \in Workers : WorksOn(w, c)
  /\ \A c \in Calls, w, v \in Workers : WorksOn(w, c) /\ WorksOn(v, c) => w = v

\* The workers of a start() that is to come.
Unstarted ==
  /\ crew \in Nat
  /\ \A k \in DOMAIN Crews : k > crew => \A w \in Crews[k] : worker[w] = "none"

LEMMA InitAttended == Init => Attended /\ Unstarted
<1> SUFFICES ASSUME Init PROVE Attended /\ Unstarted OBVIOUS
<1>1. /\ \A c \in Calls : call[c] = "new" /\ stage[c] = "none"
      /\ \A w \in Workers : worker[w] # "busy"
  BY DEF Init
<1>2. Attended BY <1>1 DEF Attended, WorksOn
<1>3. ASSUME NEW k \in DOMAIN Crews, k > crew, NEW w \in Crews[k] PROVE worker[w] = "none"
  <2>1. k # 1 BY <1>3 DEF Init
  <2>2. w \in Workers BY DEF Workers
  <2>3. ASSUME w \in Crews[1] PROVE FALSE
    <3>1. 1 \in DOMAIN Crews BY <1>3, IntakeAssumption DEF Init
    <3>2. QED BY <2>1, <2>3, <3>1, IntakeAssumption
  <2>4. QED BY <2>2, <2>3 DEF Init
<1>4. Unstarted BY <1>3 DEF Init, Unstarted
<1>5. QED BY <1>2, <1>4

\* A task takes a step only under the worker that waits for it.
LEMMA TaskAttended ==
  ASSUME Jobs, Attended, Unstarted, NEW w \in Workers,
         \/ Subscribe(w) \/ Receive(w) \/ Decide(w) \/ Panic(w) \/ Interrupt(w)
         \/ Mark(w) \/ Finish(w) \/ PassOn(w)
  PROVE  Attended' /\ Unstarted'
<1>1. /\ job[w] \in Calls /\ worker[w] = "busy"
      /\ UNCHANGED <<call, queue, crew, worker, job>>
  BY DEF Jobs, TypeOK, Subscribe, Receive, Decide, Panic, Interrupt, SetKill, Mark, Finish,
         PassOn, Running, threads, pool
<1>2. \A c \in Calls \ {job[w]} : stage'[c] = stage[c]
  BY <1>1
  DEF Jobs, TypeOK, Subscribe, Receive, Decide, Panic, Interrupt, SetKill, Mark, Finish,
      PassOn, Goes, Fails, Ends
<1>3. \A c \in Calls, v \in Workers : WorksOn(v, c)' <=> WorksOn(v, c)
  BY <1>1 DEF WorksOn
<1>4. WorksOn(w, job[w]) BY <1>1 DEF WorksOn
<1>5. Attended' BY <1>1, <1>2, <1>3, <1>4 DEF Attended, OnQueue
<1>6. QED BY <1>1, <1>5 DEF Unstarted

\* The worker that takes a job looks after it.
LEMMA TakeAttended ==
  ASSUME Jobs, Attended, Unstarted, NEW w \in Workers, Take(w)
  PROVE  Attended' /\ Unstarted'
<1>1. queue \in Seq(Calls) /\ queue # <<>> BY DEF Jobs, TypeOK, Take
<1>2. PICK c \in Calls : c = Head(queue) /\ c = queue[1] /\ Len(queue) \in Nat \ {0}
  BY <1>1
<1>3. \A d \in Calls \ {c} : OnQueue(d) => OnQueue(d)'
  <2> SUFFICES ASSUME NEW d \in Calls \ {c}, NEW k \in 1 .. Len(queue), queue[k] = d
               PROVE  OnQueue(d)'
    BY DEF OnQueue
  <2>1. k - 1 \in 1 .. Len(queue') /\ queue'[k - 1] = d BY <1>1, <1>2 DEF Take
  <2>2. QED BY <2>1 DEF OnQueue
<1>4. stage[c] = "none"
  <2>1. OnQueue(c) BY <1>2 DEF OnQueue
  <2>2. QED BY <2>1 DEF Jobs, Queued
<1>5. worker[w] = "idle" /\ UNCHANGED <<call, crew>> BY DEF Take, pool
<1>6. CASE call[c] = "gone"
  <2>1. UNCHANGED <<worker, job, stage>> BY <1>2, <1>6 DEF Take
  <2>2. QED BY <1>3, <1>5, <1>6, <2>1 DEF Attended, Unstarted, WorksOn
<1>7. CASE call[c] # "gone"
  <2>1. /\ worker' = [worker EXCEPT ![w] = "busy"] /\ job' = [job EXCEPT ![w] = c]
        /\ \A d \in Calls \ {c} : stage'[d] = stage[d]
    BY <1>2, <1>7 DEF Take, Jobs, TypeOK
  <2>2. \A v \in Workers, d \in Calls : WorksOn(v, d) => v # w /\ d # c
    BY <1>4, <1>5 DEF WorksOn, Jobs, Queued
  <2>3. \A v \in Workers, d \in Calls :
          WorksOn(v, d)' <=> WorksOn(v, d) \/ (v = w /\ d = c)
    BY <2>1, <2>2 DEF WorksOn, Jobs, TypeOK
  <2>4. Attended' BY <1>3, <1>5, <2>1, <2>2, <2>3 DEF Attended
  <2>5. Unstarted'
    BY <1>5, <2>1 DEF Unstarted, Jobs, TypeOK, Workers
  <2>6. QED BY <2>4, <2>5
<1>8. QED BY <1>6, <1>7

\* A worker leaves a job when its task has ended, and its caller waits no longer.
LEMMA DeliverAttended ==
  ASSUME Jobs, Attended, Unstarted, NEW w \in Workers, Deliver(w)
  PROVE  Attended' /\ Unstarted'
<1>1. PICK c \in Calls : c = job[w] /\ stage[c] = "ended" /\ worker[w] = "busy"
  BY DEF Jobs, TypeOK, Deliver
<1>2. /\ call'[c] # "waiting" /\ \A d \in Calls \ {c} : call'[d] = call[d]
      /\ UNCHANGED <<queue, crew, stage>>
  BY <1>1 DEF Jobs, TypeOK, Deliver, Answer, pool, task
<1>3. /\ worker'[w] \in {"gone", "idle"}
      /\ \A v \in Workers \ {w} : worker'[v] = worker[v] /\ job'[v] = job[v]
  BY DEF Jobs, TypeOK, Deliver
<1>4. \A v \in Workers, d \in Calls : WorksOn(v, d)' <=> WorksOn(v, d) /\ v # w
  BY <1>3 DEF WorksOn
<1>5. \A d \in Calls : WorksOn(w, d) => d = c BY <1>1 DEF WorksOn
<1>6. Attended' BY <1>1, <1>2, <1>4, <1>5 DEF Attended, OnQueue
<1>7. \A v \in Workers : worker[v] = "none" => worker'[v] = "none" BY <1>1, <1>3
<1>8. Unstarted' BY <1>2, <1>7 DEF Unstarted, Workers
<1>9. QED BY <1>6, <1>8

\* Callers come and go.
LEMMA CallersAttended ==
  ASSUME Jobs, Attended, Unstarted, NEW c \in Calls, Submit(c) \/ Put(c) \/ GiveUp(c)
  PROVE  Attended' /\ Unstarted'
<1>1. UNCHANGED <<job, stage>> BY DEF Submit, Put, GiveUp, task
<1>2. /\ \A w \in Workers : worker'[w] = "busy" <=> worker[w] = "busy"
      /\ Unstarted'
  <2>1. CASE UNCHANGED <<crew, worker>> BY <2>1 DEF Unstarted
  <2>2. CASE Submit(c) /\ ~started
    <3>1. /\ crew < Len(Crews) /\ crew' = crew + 1 /\ crew \in Nat
          /\ worker' = [w \in Workers |->
                          IF w \in Crews[crew + 1] THEN "idle" ELSE worker[w]]
      BY <2>2 DEF Submit, StartWorkers, Unstarted
    <3>2. crew + 1 \in DOMAIN Crews BY <3>1, IntakeAssumption
    <3>3. \A w \in Crews[crew + 1] : worker[w] = "none" BY <3>1, <3>2 DEF Unstarted
    <3>4. ASSUME NEW k \in DOMAIN Crews, k > crew', NEW w \in Crews[k]
          PROVE  worker'[w] = "none"
      <4>1. k \in Nat /\ k # crew + 1 /\ k > crew BY <3>1, <3>4, IntakeAssumption
      <4>2. w \in Workers /\ w \notin Crews[crew + 1]
        BY <3>2, <4>1, IntakeAssumption DEF Workers
      <4>3. worker[w] = "none" BY <4>1 DEF Unstarted
      <4>4. QED BY <3>1, <4>2, <4>3
    <3>5. QED BY <3>1, <3>3, <3>4 DEF Unstarted
  <2>3. QED BY <2>1, <2>2 DEF Submit, Put, GiveUp, StartWorkers, pool
<1>3. \A v \in Workers, d \in Calls : WorksOn(v, d)' <=> WorksOn(v, d)
  BY <1>1, <1>2 DEF WorksOn
<1>4. \A d \in Calls : OnQueue(d) => OnQueue(d)'
  <2>1. CASE queue' = queue BY <2>1 DEF OnQueue
  <2>2. CASE queue' = Append(queue, c)
    <3>1. /\ Len(queue) \in Nat /\ Len(queue') = Len(queue) + 1
          /\ \A k \in 1 .. Len(queue) : queue'[k] = queue[k]
      BY <2>2 DEF Jobs, TypeOK
    <3>2. QED BY <3>1 DEF OnQueue
  <2>3. QED BY <2>1, <2>2 DEF Submit, Put, GiveUp
<1>5. \A d \in Calls : call'[d] = "waiting" => call[d] = "waiting" \/ OnQueue(d)'
  <2>1. CASE queue' = Append(queue, c) /\ call' = [call EXCEPT ![c] = "waiting"]
    <3>1. /\ Len(queue) \in Nat /\ Len(queue') = Len(queue) + 1
          /\ queue'[Len(queue) + 1] = c
      BY <2>1 DEF Jobs, TypeOK
    <3>2. OnQueue(c)' BY <3>1 DEF OnQueue
    <3>3. QED BY <2>1, <3>2 DEF Jobs, TypeOK
  <2>2. CASE \A d \in Calls : call'[d] = "waiting" => call[d] = "waiting" BY <2>2
  <2>3. QED BY <2>1, <2>2 DEF Jobs, TypeOK, Submit, Put, GiveUp
<1>6. Attended' BY <1>1, <1>3, <1>4, <1>5 DEF Attended
<1>7. QED BY <1>2, <1>6

\* Shutting down lets the workers finish, and drops what nobody has taken.
LEMMA StoppingAttended ==
  ASSUME Jobs, Attended, Unstarted, Stop \/ Stopped
  PROVE  Attended' /\ Unstarted'
<1>1. /\ UNCHANGED <<crew, job, stage>>
      /\ \A w \in Workers : /\ worker'[w] = "busy" <=> worker[w] = "busy"
                            /\ worker[w] = "none" => worker'[w] = "none"
  BY DEF Stop, Stopped, task
<1>2. \A v \in Workers, d \in Calls : WorksOn(v, d)' <=> WorksOn(v, d)
  BY <1>1 DEF WorksOn
<1>3. \A d \in Calls :
        call'[d] = "waiting" => call[d] = "waiting" /\ (OnQueue(d) => OnQueue(d)')
  <2>1. CASE Stop BY <2>1 DEF Stop, OnQueue
  <2>2. CASE Stopped
    <3>1. DOMAIN queue = 1 .. Len(queue) BY DEF Jobs, TypeOK
    <3>2. QED BY <2>2, <3>1 DEF Stopped, DrainQueue, OnQueue, Jobs, TypeOK
  <2>3. QED BY <2>1, <2>2
<1>4. Attended' BY <1>1, <1>2, <1>3 DEF Attended
<1>5. Unstarted' BY <1>1 DEF Unstarted, Workers
<1>6. QED BY <1>4, <1>5

\* Whatever is put, taken, cancelled and stopped: the job of a caller that waits is on the
\* queue or has a worker, a decision that runs has a worker that waits for its end, and
\* no job is run by two workers.
THEOREM JobsAttended == Spec => []Attended
<1>1. Jobs /\ Attended /\ Unstarted /\ [Next]_vars => Attended' /\ Unstarted'
  <2> SUFFICES ASSUME Jobs, Attended, Unstarted, [Next]_vars PROVE Attended' /\ Unstarted'
    OBVIOUS
  <2>1. CASE \E c \in Calls : Submit(c) \/ Put(c) \/ GiveUp(c) BY <2>1, CallersAttended
  <2>2. CASE \E w \in Workers : WorkerStep(w)
    BY <2>2, TaskAttended, TakeAttended, DeliverAttended DEF WorkerStep
  <2>3. CASE Stop \/ Stopped BY <2>3, StoppingAttended
  <2>4. CASE UNCHANGED vars BY <2>4 DEF vars, Attended, Unstarted, WorksOn, OnQueue
  <2>5. QED BY <2>1, <2>2, <2>3, <2>4 DEF Next
<1>2. QED BY <1>1, InitAttended, JobsAccounted, PTL DEF Spec
-----------------------------------------------------------------------------
(* The alert history.                                                      *)

LEMMA TrimmedKeeps ==
  ASSUME NEW list \in Seq(Row)
  PROVE  /\ Trimmed(list) \in Seq(Row)
         /\ Len(list) <= Cap => Trimmed(list) = list
<1> DEFINE n == IF Len(list) < Cap THEN Len(list) ELSE Cap
<1>1. Len(list) \in Nat /\ Cap \in Nat /\ n \in Nat /\ n <= Len(list)
  BY HistoryAssumption
<1>2. Trimmed(list) = [i \in 1 .. n |-> list[i]] BY DEF Trimmed
<1>3. Len(list) <= Cap => n = Len(list) BY <1>1
<1> HIDE DEF n
<1>4. \A i \in 1 .. n : list[i] \in Row BY <1>1, ElementOfSeq
<1>5. Trimmed(list) \in [1 .. n -> Row] BY <1>2, <1>4
<1>6. QED BY <1>1, <1>2, <1>3, <1>5

\* A replaced list has the alerts it had.
LEMMA ReplacedKeeps ==
  ASSUME NEW list \in Seq(Row), NEW e \in Row
  PROVE  /\ Replaced(list, e) \in Seq(Row)
         /\ Len(Replaced(list, e)) = Len(list)
         /\ \A i \in 1 .. Len(list) : Replaced(list, e)[i].alert = list[i].alert
<1>1. \A i \in 1 .. Len(list) : list[i] \in Row BY ElementOfSeq
<1>2. Replaced(list, e) \in [1 .. Len(list) -> Row] BY <1>1 DEF Replaced
<1>3. Len(list) \in Nat OBVIOUS
<1>4. Replaced(list, e) \in Seq(Row) BY <1>2, <1>3
<1>5. Len(Replaced(list, e)) = Len(list) BY <1>2, <1>3, <1>4
<1>6. QED BY <1>4, <1>5 DEF Replaced

\* A pushed row comes before the rows that were there, but for the oldest.
LEMMA PushedKeeps ==
  ASSUME NEW list \in Seq(Row), NEW e \in Row
  PROVE  /\ Pushed(list, e) \in Seq(Row)
         /\ Len(Pushed(list, e)) <= Cap
         /\ Len(Pushed(list, e)) <= Len(list) + 1
         /\ \A i \in 1 .. Len(Pushed(list, e)) :
              IF i = 1 THEN Pushed(list, e)[i] = e
              ELSE i - 1 \in 1 .. Len(list) /\ Pushed(list, e)[i] = list[i - 1]
<1> DEFINE n == IF Len(list) < Cap THEN Len(list) + 1 ELSE Cap
<1>1. Len(list) \in Nat /\ Cap \in Nat /\ n \in Nat /\ n <= Cap /\ n <= Len(list) + 1
  BY HistoryAssumption
<1>2. \A i \in 1 .. Len(list) : list[i] \in Row BY ElementOfSeq
<1>3. \A i \in 1 .. n : i # 1 => i - 1 \in 1 .. Len(list) BY <1>1
<1>4. Pushed(list, e) = [i \in 1 .. n |-> IF i = 1 THEN e ELSE list[i - 1]]
  BY DEF Pushed
<1> HIDE DEF n
<1>5. Pushed(list, e) \in [1 .. n -> Row] BY <1>2, <1>3, <1>4
<1>6. Pushed(list, e) \in Seq(Row) /\ Len(Pushed(list, e)) = n BY <1>1, <1>5
<1>7. QED BY <1>1, <1>3, <1>4, <1>6

\* The inductive invariant: a saver whose transaction would go through has
\* the list as it is.
HistoryInv ==
  /\ HistoryTypeOK
  /\ \A s \in Savers :
       /\ pc[s] \in {"idle", "watch", "read", "commit"}
       /\ pc[s] # "idle" => entry[s] \in [alert : Alerts, result : Results]
       /\ pc[s] = "commit" /\ s \notin touched => copy[s] = Trimmed(rows)
  /\ \A u \in Markers :
       /\ pc[u] \in {"idle", "delete", "rebuild"}
       /\ pc[u] # "idle" => entry[u] \in Row

LEMMA InitHistory == HistoryInit => HistoryInv
<1> SUFFICES ASSUME HistoryInit PROVE HistoryInv
  OBVIOUS
<1>1. rows = <<>> /\ <<>> \in Seq(Row) BY DEF HistoryInit
<1>2. 0 \in 0 .. MaxTries - 1 BY HistoryAssumption
<1>3. tries \in [Writers -> 0 .. MaxTries - 1] BY <1>2 DEF HistoryInit
<1>4. copy \in [Writers -> Seq(Row)] BY <1>1 DEF HistoryInit
<1>5. HistoryTypeOK BY <1>1, <1>3, <1>4 DEF HistoryInit, HistoryTypeOK
<1>6. QED BY <1>5 DEF HistoryInit, HistoryInv, Writers

\* What Leave does to the writers.
LEMMA LeaveTypes ==
  ASSUME HistoryTypeOK, NEW w \in Writers, Leave(w)
  PROVE  /\ pc' \in [Writers -> {"idle", "watch", "read", "commit", "delete", "rebuild"}]
         /\ copy' \in [Writers -> Seq(Row)]
         /\ entry' \in [Writers -> Row \cup {NoEntry}]
         /\ tries' \in [Writers -> 0 .. MaxTries - 1]
         /\ pc'[w] = "idle"
         /\ \A v \in Writers : v # w => pc'[v] = pc[v] /\ copy'[v] = copy[v]
                                       /\ entry'[v] = entry[v]
<1>1. <<>> \in Seq(Row) OBVIOUS
<1>2. 0 \in 0 .. MaxTries - 1 BY HistoryAssumption
<1>3. tries' \in [Writers -> 0 .. MaxTries - 1] BY <1>2 DEF Leave, HistoryTypeOK
<1>4. copy' \in [Writers -> Seq(Row)] BY <1>1 DEF Leave, HistoryTypeOK
<1>5. QED BY <1>3, <1>4 DEF Leave, HistoryTypeOK

\* A step of a saver that leaves the list alone: it alone gets a copy, and
\* whoever else was told of a write still is.
LEMMA QuietKeeps ==
  ASSUME HistoryInv, NEW s \in Savers, UNCHANGED rows, HistoryTypeOK',
         \A v \in Writers : v # s => pc'[v] = pc[v] /\ copy'[v] = copy[v]
                                   /\ entry'[v] = entry[v],
         touched \ {s} \subseteq touched',
         pc'[s] \in {"idle", "watch", "read", "commit"},
         pc'[s] # "idle" => entry'[s] \in [alert : Alerts, result : Results],
         pc'[s] = "commit" /\ s \notin touched' => copy'[s] = Trimmed(rows)
  PROVE  HistoryInv'
<1>1. Trimmed(rows)' = Trimmed(rows) BY DEF Trimmed
<1>2. ASSUME NEW v \in Savers
      PROVE  /\ pc'[v] \in {"idle", "watch", "read", "commit"}
             /\ pc'[v] # "idle" => entry'[v] \in [alert : Alerts, result : Results]
             /\ pc'[v] = "commit" /\ v \notin touched' => copy'[v] = Trimmed(rows)'
  <2>1. CASE v = s BY <1>1, <2>1
  <2>2. CASE v # s
    <3>1. v \in Writers /\ (v \notin touched' => v \notin touched) BY <2>2 DEF Writers
    <3>2. QED BY <1>1, <2>2, <3>1 DEF HistoryInv
  <2>3. QED BY <2>1, <2>2
<1>3. ASSUME NEW u \in Markers
      PROVE  /\ pc'[u] \in {"idle", "delete", "rebuild"}
             /\ pc'[u] # "idle" => entry'[u] \in Row
  <2>1. u \in Writers /\ u # s BY HistoryAssumption DEF Writers
  <2>2. QED BY <2>1 DEF HistoryInv
<1>4. QED BY <1>2, <1>3 DEF HistoryInv

\* A step that writes the list: whoever else watches is told.
LEMMA WriteKeeps ==
  ASSUME HistoryInv, NEW w \in Writers, HistoryTypeOK', Watching \ {w} \subseteq touched',
         \A v \in Writers : v # w => pc'[v] = pc[v] /\ copy'[v] = copy[v]
                                   /\ entry'[v] = entry[v],
         \/ pc'[w] = "idle"
         \/ w \in Markers /\ pc'[w] = "rebuild" /\ entry'[w] \in Row
  PROVE  HistoryInv'
<1>1. ASSUME NEW v \in Savers
      PROVE  /\ pc'[v] \in {"idle", "watch", "read", "commit"}
             /\ pc'[v] # "idle" => entry'[v] \in [alert : Alerts, result : Results]
             /\ pc'[v] = "commit" => v \in touched'
  <2>1. v \in Writers /\ v \notin Markers BY HistoryAssumption DEF Writers
  <2>2. CASE v = w BY <2>1, <2>2
  <2>3. CASE v # w BY <2>1, <2>3 DEF HistoryInv, Watching
  <2>4. QED BY <2>2, <2>3
<1>2. ASSUME NEW u \in Markers
      PROVE  /\ pc'[u] \in {"idle", "delete", "rebuild"}
             /\ pc'[u] # "idle" => entry'[u] \in Row
  <2>1. u \in Writers BY DEF Writers
  <2>2. CASE u = w BY <2>2
  <2>3. CASE u # w BY <2>1, <2>3 DEF HistoryInv
  <2>4. QED BY <2>2, <2>3
<1>3. QED BY <1>1, <1>2 DEF HistoryInv

\* The list a committing saver writes is made from the list as it is.
LEMMA CommitWrites ==
  ASSUME HistoryInv, NEW s \in Savers, Commit(s)
  PROVE  /\ rows' = AtomicSave(rows, entry[s])
         /\ entry[s] \in [alert : Alerts, result : Results]
         /\ rows' \in Seq(Row)
<1>1. s \in Writers /\ copy[s] = Trimmed(rows) /\ rows \in Seq(Row)
  BY DEF HistoryInv, HistoryTypeOK, Commit, Undisturbed, Writers
<1>2. entry[s] \in [alert : Alerts, result : Results] BY DEF HistoryInv, Commit
<1>3. rows' = AtomicSave(rows, entry[s]) BY <1>1 DEF Commit, Saved, AtomicSave
<1>4. PICK e \in Row : e = entry[s] BY <1>2 DEF Row
<1>5. Trimmed(rows) \in Seq(Row) BY <1>1, TrimmedKeeps
<1>6. PICK list \in Seq(Row) : list = Trimmed(rows) BY <1>5
<1>7. Replaced(list, e) \in Seq(Row) /\ Pushed(rows, e) \in Seq(Row)
  BY <1>1, ReplacedKeeps, PushedKeeps
<1>8. QED BY <1>2, <1>3, <1>4, <1>6, <1>7 DEF AtomicSave

LEMMA HistoryStep == HistoryInv /\ [HistoryNext]_historyVars => HistoryInv'
<1> SUFFICES ASSUME HistoryInv, [HistoryNext]_historyVars PROVE HistoryInv'
  OBVIOUS
<1>1. Savers \subseteq Writers /\ Markers \subseteq Writers /\ Savers \cap Markers = {}
  BY HistoryAssumption DEF Writers
<1>2. /\ rows \in Seq(Row)
      /\ touched \in SUBSET {s \in Savers : pc[s] \in {"read", "commit"}}
      /\ pc \in [Writers -> {"idle", "watch", "read", "commit", "delete", "rebuild"}]
      /\ copy \in [Writers -> Seq(Row)] /\ entry \in [Writers -> Row \cup {NoEntry}]
      /\ tries \in [Writers -> 0 .. MaxTries - 1]
  BY DEF HistoryInv, HistoryTypeOK
<1>3. Trimmed(rows) \in Seq(Row) BY <1>2, TrimmedKeeps
<1>4. ASSUME NEW s \in Savers, Save(s) PROVE HistoryInv'
  <2>1. entry'[s] \in [alert : Alerts, result : Results]
    BY <1>1, <1>2, <1>4 DEF Save
  <2>2. HistoryTypeOK'
    <3>1. entry'[s] \in Row BY <2>1 DEF Row
    <3>2. entry' \in [Writers -> Row \cup {NoEntry}] BY <1>2, <1>4, <3>1 DEF Save
    <3>3. touched' \in SUBSET {v \in Savers : pc'[v] \in {"read", "commit"}}
      BY <1>1, <1>2, <1>4 DEF Save
    <3>4. QED BY <1>2, <1>4, <3>2, <3>3 DEF Save, HistoryTypeOK
  <2>3. QED BY <1>1, <1>2, <1>4, <2>1, <2>2, QuietKeeps DEF Save
<1>5. ASSUME NEW s \in Savers, Watch(s) PROVE HistoryInv'
  <2>1. HistoryTypeOK'
    <3>1. touched' \in SUBSET {v \in Savers : pc'[v] \in {"read", "commit"}}
      BY <1>1, <1>2, <1>5 DEF Watch
    <3>2. QED BY <1>2, <1>5, <3>1 DEF Watch, HistoryTypeOK
  <2>2. entry'[s] \in [alert : Alerts, result : Results] BY <1>5 DEF Watch, HistoryInv
  <2>3. QED BY <1>1, <1>2, <1>5, <2>1, <2>2, QuietKeeps DEF Watch
<1>6. ASSUME NEW s \in Savers, Read(s) PROVE HistoryInv'
  <2>1. HistoryTypeOK'
    <3>1. touched' \in SUBSET {v \in Savers : pc'[v] \in {"read", "commit"}}
      BY <1>1, <1>2, <1>6 DEF Read
    <3>2. copy' \in [Writers -> Seq(Row)] BY <1>2, <1>3, <1>6 DEF Read
    <3>3. QED BY <1>2, <1>6, <3>1, <3>2 DEF Read, HistoryTypeOK
  <2>2. entry'[s] \in [alert : Alerts, result : Results] BY <1>6 DEF Read, HistoryInv
  <2>3. QED BY <1>1, <1>2, <1>6, <2>1, <2>2, QuietKeeps DEF Read
\* A writer that leaves, whether or not it writes the list.
<1>7. ASSUME NEW w \in Writers, Leave(w), rows' \in Seq(Row),
             touched' \in {touched \ {w}, Watching \ {w}}
      PROVE  HistoryTypeOK'
  <2>1. \A v \in Writers : v # w => pc'[v] = pc[v] BY <1>7, LeaveTypes DEF HistoryInv
  <2>2. touched' \in SUBSET {v \in Savers : pc'[v] \in {"read", "commit"}}
    BY <1>1, <1>2, <1>7, <2>1 DEF Watching
  <2>3. QED BY <1>7, <2>2, LeaveTypes DEF HistoryInv, HistoryTypeOK
<1>8. ASSUME NEW w \in Writers, Leave(w), rows' \in Seq(Row), touched' = Watching \ {w}
      PROVE  HistoryInv'
  BY <1>7, <1>8, LeaveTypes, WriteKeeps DEF HistoryInv
<1>9. ASSUME NEW s \in Savers, Commit(s) PROVE HistoryInv'
  BY <1>1, <1>8, <1>9, CommitWrites DEF Commit
<1>10. ASSUME NEW w \in Writers, Leave(w), touched' = touched \ {w}, UNCHANGED rows
       PROVE  HistoryInv'
  <2>1. HistoryTypeOK' BY <1>2, <1>7, <1>10
  <2>2. /\ pc'[w] = "idle"
        /\ \A v \in Writers : v # w => pc'[v] = pc[v] /\ copy'[v] = copy[v]
                                      /\ entry'[v] = entry[v]
    BY <1>10, LeaveTypes DEF HistoryInv
  <2>3. CASE w \in Savers BY <1>10, <2>1, <2>2, <2>3, QuietKeeps
  <2>4. CASE w \in Markers
    <3>1. w \notin Savers /\ touched' = touched BY <1>1, <1>2, <1>10, <2>4
    <3>2. Trimmed(rows)' = Trimmed(rows) BY <1>10 DEF Trimmed
    <3>3. ASSUME NEW v \in Savers
          PROVE  /\ pc'[v] \in {"idle", "watch", "read", "commit"}
                 /\ pc'[v] # "idle" => entry'[v] \in [alert : Alerts, result : Results]
                 /\ pc'[v] = "commit" /\ v \notin touched' => copy'[v] = Trimmed(rows)'
      BY <1>1, <2>2, <3>1, <3>2 DEF HistoryInv
    <3>4. ASSUME NEW u \in Markers
          PROVE  /\ pc'[u] \in {"idle", "delete", "rebuild"}
                 /\ pc'[u] # "idle" => entry'[u] \in Row
      BY <1>1, <2>2 DEF HistoryInv
    <3>5. QED BY <2>1, <3>3, <3>4 DEF HistoryInv
  <2>5. QED BY <2>3, <2>4 DEF Writers
<1>11. ASSUME NEW s \in Savers, Refused(s) PROVE HistoryInv'
  <2>1. CASE Leave(s) BY <1>1, <1>10, <1>11, <2>1 DEF Refused
  <2>2. CASE /\ NextTry(s) < MaxTries
             /\ tries' = [tries EXCEPT ![s] = NextTry(s)]
             /\ pc' = [pc EXCEPT ![s] = "watch"]
             /\ copy' = [copy EXCEPT ![s] = <<>>]
             /\ UNCHANGED entry
    <3>1. NextTry(s) \in 0 .. MaxTries - 1
      BY <1>1, <1>2, <2>2, HistoryAssumption DEF NextTry
    <3>2. tries' \in [Writers -> 0 .. MaxTries - 1] BY <1>2, <2>2, <3>1
    <3>3. <<>> \in Seq(Row) OBVIOUS
    <3>4. copy' \in [Writers -> Seq(Row)] BY <1>2, <2>2, <3>3
    <3>5. touched' = touched \ {s} /\ rows' = rows /\ pc[s] = "commit"
      BY <1>11 DEF Refused
    <3>6. touched' \in SUBSET {v \in Savers : pc'[v] \in {"read", "commit"}}
      BY <1>1, <1>2, <2>2, <3>5
    <3>7. HistoryTypeOK' BY <1>2, <2>2, <3>2, <3>4, <3>5, <3>6 DEF HistoryTypeOK
    <3>8. entry'[s] \in [alert : Alerts, result : Results] BY <2>2, <3>5 DEF HistoryInv
    <3>9. QED BY <1>1, <1>2, <2>2, <3>5, <3>7, <3>8, QuietKeeps
  <2>3. QED BY <1>11, <2>1, <2>2 DEF Refused
<1>12. ASSUME NEW u \in Markers, ReadAll(u) PROVE HistoryInv'
  <2>1. u \in Writers /\ u \notin Savers BY <1>1
  <2>2. PICK a \in Alerts : entry' = [entry EXCEPT ![u] = [alert |-> a, result |-> Exited]]
    BY <1>12 DEF ReadAll
  <2>3. [alert |-> a, result |-> Exited] \in Row BY DEF Row
  <2>4. entry' \in [Writers -> Row \cup {NoEntry}] /\ entry'[u] \in Row
    BY <1>2, <2>1, <2>2, <2>3
  <2>5. /\ UNCHANGED <<rows, touched, tries>> /\ pc'[u] = "delete"
        /\ \A v \in Writers : v # u => pc'[v] = pc[v] /\ copy'[v] = copy[v]
                                      /\ entry'[v] = entry[v]
    BY <1>2, <1>12, <2>1, <2>2 DEF ReadAll
  <2>6. /\ pc' \in [Writers -> {"idle", "watch", "read", "commit", "delete", "rebuild"}]
        /\ copy' \in [Writers -> Seq(Row)]
    BY <1>2, <1>12 DEF ReadAll
  <2>7. touched' \in SUBSET {v \in Savers : pc'[v] \in {"read", "commit"}}
    BY <1>1, <1>2, <2>1, <2>5
  <2>8. HistoryTypeOK' BY <1>2, <2>4, <2>5, <2>6, <2>7 DEF HistoryTypeOK
  <2>9. Trimmed(rows)' = Trimmed(rows) BY <2>5 DEF Trimmed
  <2>10. ASSUME NEW v \in Savers
         PROVE  /\ pc'[v] \in {"idle", "watch", "read", "commit"}
                /\ pc'[v] # "idle" => entry'[v] \in [alert : Alerts, result : Results]
                /\ pc'[v] = "commit" /\ v \notin touched' => copy'[v] = Trimmed(rows)'
    BY <1>1, <2>1, <2>5, <2>9 DEF HistoryInv
  <2>11. ASSUME NEW v \in Markers
         PROVE  /\ pc'[v] \in {"idle", "delete", "rebuild"}
                /\ pc'[v] # "idle" => entry'[v] \in Row
    BY <1>1, <2>4, <2>5 DEF HistoryInv
  <2>12. QED BY <2>8, <2>10, <2>11 DEF HistoryInv
<1>13. ASSUME NEW u \in Markers, Delete(u) PROVE HistoryInv'
  <2>1. u \in Writers /\ u \notin Savers BY <1>1
  <2>2. /\ rows' = <<>> /\ rows' \in Seq(Row) /\ touched' = Watching
        /\ UNCHANGED <<copy, entry, tries>>
        /\ pc' \in [Writers -> {"idle", "watch", "read", "commit", "delete", "rebuild"}]
        /\ pc'[u] = "rebuild" /\ \A v \in Writers : v # u => pc'[v] = pc[v]
    BY <1>2, <1>13, <2>1 DEF Delete
  <2>3. touched' \in SUBSET {v \in Savers : pc'[v] \in {"read", "commit"}}
    BY <1>1, <2>1, <2>2 DEF Watching
  <2>4. HistoryTypeOK' BY <1>2, <2>2, <2>3 DEF HistoryTypeOK
  <2>5. entry'[u] \in Row BY <1>13, <2>2 DEF Delete, HistoryInv
  <2>6. QED BY <2>1, <2>2, <2>4, <2>5, WriteKeeps
<1>14. ASSUME NEW u \in Markers, Rebuild(u) PROVE HistoryInv'
  <2>1. u \in Writers /\ Leave(u) /\ touched' = Watching \ {u}
    BY <1>1, <1>14 DEF Rebuild, Watching
  <2>2. copy[u] \in Seq(Row) /\ entry[u] \in Row BY <1>2, <1>14, <2>1 DEF Rebuild, HistoryInv
  <2>3. Replaced(copy[u], entry[u]) \in Seq(Row) BY <2>2, ReplacedKeeps
  <2>4. rows' = rows \o Replaced(copy[u], entry[u]) BY <1>14 DEF Rebuild
  <2>5. rows' \in Seq(Row)
    <3>1. PICK list \in Seq(Row) : list = Replaced(copy[u], entry[u]) BY <2>3
    <3>2. rows \o list \in Seq(Row) BY <1>2
    <3>3. QED BY <2>4, <3>1, <3>2
  <2>6. QED BY <1>8, <2>1, <2>5
<1>15. ASSUME NEW w \in Writers, Die(w) PROVE HistoryInv'
  BY <1>10, <1>15 DEF Die
<1>16. ASSUME Clear PROVE HistoryInv'
  <2>1. rows' = <<>> /\ rows' \in Seq(Row) BY <1>16 DEF Clear
  <2>2. UNCHANGED <<pc, copy, entry, tries>> /\ touched' = Watching BY <1>16 DEF Clear
  <2>3. touched' = {s \in Savers : pc'[s] \in {"read", "commit"}} BY <2>2 DEF Watching
  <2>4. HistoryTypeOK' BY <1>2, <2>1, <2>2, <2>3 DEF HistoryTypeOK
  <2>5. \A s \in Savers : pc'[s] = "commit" => s \in touched' BY <2>3
  <2>6. QED BY <2>2, <2>4, <2>5 DEF HistoryInv
<1>17. CASE UNCHANGED historyVars
  <2>1. HistoryTypeOK' BY <1>17, <1>2 DEF historyVars, HistoryTypeOK
  <2>2. Trimmed(rows)' = Trimmed(rows) BY <1>17 DEF historyVars, Trimmed
  <2>3. QED BY <1>17, <2>1, <2>2 DEF historyVars, HistoryInv
<1>18. QED
  BY <1>4, <1>5, <1>6, <1>9, <1>11, <1>12, <1>13, <1>14, <1>15, <1>16, <1>17
  DEF HistoryNext, SaverStep

LEMMA HistoryInvariance == HistorySpec => []HistoryInv
BY InitHistory, HistoryStep, PTL DEF HistorySpec

\* The list, the copies and the watches keep their types, for any number of
\* writers of both kinds.
THEOREM HistoryTypeCorrect == HistorySpec => []HistoryTypeOK
<1>1. HistoryInv => HistoryTypeOK BY DEF HistoryInv
<1>2. QED BY <1>1, HistoryInvariance, PTL

\* A transaction of save_alert that goes through saves its row in the list as
\* it is, even next to writers that delete and rebuild the list.
THEOREM AtomicSaves == HistorySpec => SavesAreAtomic
<1>1. HistoryInv /\ [HistoryNext]_historyVars =>
        [\A s \in Savers : Commit(s) => rows' = AtomicSave(rows, entry[s])]_historyVars
  BY CommitWrites
<1>2. QED BY <1>1, HistoryInvariance, PTL DEF HistorySpec, SavesAreAtomic
-----------------------------------------------------------------------------
(* Savers alone.                                                           *)

\* One row per alert, and no more than fit.
Tidy == Len(rows) <= Cap /\ OneRowPerAlert

LEMMA CommitChangesTable ==
  ASSUME HistoryInv, Tidy, NEW s \in Savers, Commit(s)
  PROVE  Tidy' /\ \E a \in Alerts, r \in Results : Table!Change(a, r) \/ Table!Add(a, r)
<1>1. /\ rows \in Seq(Row) /\ Len(rows) <= Cap /\ Len(rows) \in Nat /\ Cap \in Nat
      /\ Trimmed(rows) = rows
  BY HistoryAssumption, TrimmedKeeps DEF HistoryInv, HistoryTypeOK, Tidy
<1>2. PICK e \in Row : /\ e = entry[s]
                       /\ e.alert \in Alerts /\ e.result \in Results
                       /\ e = [alert |-> e.alert, result |-> e.result]
  BY CommitWrites DEF Row
<1>3. rows' = IF HasRow(rows, e.alert) THEN Replaced(rows, e) ELSE Pushed(rows, e)
  BY <1>1, <1>2, CommitWrites DEF AtomicSave
<1>4. /\ Len(rows') <= Cap /\ OneRowPerAlert'
      /\ Table!Change(e.alert, e.result) \/ Table!Add(e.alert, e.result)
  <2>1. CASE HasRow(rows, e.alert)
    <3>1. rows' = Replaced(rows, e)
      BY <1>3, <2>1
    <3>2. /\ Replaced(rows, e) \in Seq(Row)
          /\ Len(Replaced(rows, e)) = Len(rows)
          /\ \A i \in 1 .. Len(rows) : Replaced(rows, e)[i].alert = rows[i].alert
      BY <1>1, ReplacedKeeps
    <3>3. /\ rows' \in Seq(Row) /\ Len(rows') = Len(rows)
          /\ \A i \in 1 .. Len(rows) : rows'[i].alert = rows[i].alert
      BY <3>1, <3>2
    <3>4. OneRowPerAlert' BY <3>3 DEF Tidy, OneRowPerAlert
    <3>5. Table!Change(e.alert, e.result)
      <4>1. Table!HasRow(e.alert) BY <2>1 DEF HasRow, Table!HasRow
      <4>2. rows' = [i \in 1 .. Len(rows) |->
                       IF rows[i].alert = e.alert
                       THEN [alert |-> e.alert, result |-> e.result] ELSE rows[i]]
        BY <1>2, <3>1 DEF Replaced
      <4>3. QED BY <4>1, <4>2 DEF Table!Change
    <3>6. QED BY <1>1, <3>3, <3>4, <3>5
  <2>2. CASE ~HasRow(rows, e.alert)
    <3>1. rows' = Pushed(rows, e)
      BY <1>3, <2>2
    <3>2. \A i \in 1 .. Len(rows) : rows[i].alert # e.alert BY <2>2 DEF HasRow
    <3>3. /\ Pushed(rows, e) \in Seq(Row)
          /\ Len(Pushed(rows, e)) <= Cap
          /\ \A i \in 1 .. Len(Pushed(rows, e)) :
               IF i = 1 THEN Pushed(rows, e)[i] = e
               ELSE i - 1 \in 1 .. Len(rows) /\ Pushed(rows, e)[i] = rows[i - 1]
      BY <1>1, PushedKeeps
    <3>4. /\ rows' \in Seq(Row) /\ Len(rows') <= Cap
          /\ \A i \in 1 .. Len(rows') :
               IF i = 1 THEN rows'[i] = e
               ELSE i - 1 \in 1 .. Len(rows) /\ rows'[i] = rows[i - 1]
      BY <3>1, <3>3
    <3>5. OneRowPerAlert'
      <4> SUFFICES ASSUME NEW i \in 1 .. Len(rows'), NEW k \in 1 .. Len(rows'),
                          rows'[i].alert = rows'[k].alert
                   PROVE  i = k
        BY DEF OneRowPerAlert
      <4>1. CASE i = 1 BY <3>2, <3>4, <4>1
      <4>2. CASE k = 1 BY <3>2, <3>4, <4>2
      <4>3. CASE i # 1 /\ k # 1
        <5>1. i - 1 \in 1 .. Len(rows) /\ k - 1 \in 1 .. Len(rows)
              /\ rows[i - 1].alert = rows[k - 1].alert
          BY <3>4, <4>3
        <5>2. i - 1 = k - 1 BY <5>1 DEF Tidy, OneRowPerAlert
        <5>3. Len(rows') \in Nat BY <3>4
        <5>4. QED BY <5>2, <5>3
      <4>4. QED BY <4>1, <4>2, <4>3
    <3>6. Table!Add(e.alert, e.result)
      <4>1. ~Table!HasRow(e.alert) BY <2>2 DEF HasRow, Table!HasRow
      <4>2. rows' = [i \in 1 .. (IF Len(rows) < Cap THEN Len(rows) + 1 ELSE Cap) |->
                       IF i = 1 THEN [alert |-> e.alert, result |-> e.result]
                       ELSE rows[i - 1]]
        BY <1>2, <3>1 DEF Pushed
      <4>3. QED BY <4>1, <4>2 DEF Table!Add
    <3>7. QED BY <3>4, <3>5, <3>6
  <2>3. QED BY <2>1, <2>2
<1>5. QED BY <1>2, <1>4 DEF Tidy

LEMMA TableStep == Markers = {} /\ HistoryInv /\ Tidy /\ [HistoryNext]_historyVars => Tidy' /\ [Table!Next]_rows
<1> SUFFICES ASSUME Markers = {}, HistoryInv, Tidy, [HistoryNext]_historyVars
             PROVE  Tidy' /\ [Table!Next]_rows
  OBVIOUS
<1>1. CASE UNCHANGED rows BY <1>1 DEF Tidy, OneRowPerAlert
<1>2. ASSUME NEW s \in Savers, Commit(s) PROVE Tidy' /\ [Table!Next]_rows
  BY <1>2, CommitChangesTable DEF Table!Next
<1>3. CASE Clear
  <2>1. rows' = <<>> /\ Len(rows') = 0 /\ 0 <= Cap BY <1>3, HistoryAssumption DEF Clear
  <2>2. QED BY <2>1 DEF Tidy, OneRowPerAlert, Table!Next, Table!Clear
<1>4. QED
  BY <1>1, <1>2, <1>3 DEF HistoryNext, SaverStep, Save, Watch, Read, Refused, Die, historyVars

LEMMA TableInvariance == ASSUME Markers = {} PROVE HistorySpec => [](HistoryInv /\ Tidy)
<1>1. HistoryInit => Tidy
  <2> SUFFICES ASSUME HistoryInit PROVE Tidy
    OBVIOUS
  <2>1. rows = <<>> /\ Len(rows) = 0 /\ 0 <= Cap BY HistoryAssumption DEF HistoryInit
  <2>2. QED BY <2>1 DEF Tidy, OneRowPerAlert
<1>2. HistoryInv /\ Tidy /\ [HistoryNext]_historyVars => Tidy' BY TableStep
<1>3. QED BY <1>1, <1>2, HistoryInvariance, PTL DEF HistorySpec

\* However many coroutines call save_alert, an alert has one row, as long as
\* nobody rebuilds the list.
THEOREM OneRow == ASSUME Markers = {} PROVE HistorySpec => []OneRowPerAlert
<1>1. Tidy => OneRowPerAlert BY DEF Tidy
<1>2. QED BY <1>1, TableInvariance, PTL

\* Concurrent calls of save_alert have the effect of calls one after the
\* other: each changes or adds one row of the list as it is.
THEOREM Linearizable == ASSUME Markers = {} PROVE HistorySpec => ImplementsTable
<1>1. HistoryInit => Table!Init BY DEF HistoryInit, Table!Init
<1>2. HistoryInv /\ Tidy /\ [HistoryNext]_historyVars => [Table!Next]_rows BY TableStep
<1>3. QED BY <1>1, <1>2, TableInvariance, PTL DEF HistorySpec, ImplementsTable, Table!Spec
==============================================================================
