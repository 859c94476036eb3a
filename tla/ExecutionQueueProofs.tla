------------------------ MODULE ExecutionQueueProofs ------------------------
(* Proofs of the safety properties of ExecutionQueue, for any jobs and      *)
(* workers, whatever stalls and dies.                                       *)
EXTENDS ExecutionQueue, TLAPS

MaySend(w) == pc[w] \in {"claimed", "running", "cleared"}
Holds(w) == pc[w] \in {"marking", "recorded", "claimed", "running", "cleared",
                       "saving", "cancelled", "settled"}
Recorded(j) ==
  history[j] \in {"SKIPPED", "INTERRUPTED", "RESULT"} \/ j \in dead

\* Only a job that was queued is anywhere but in the webhook.
OnlyQueued ==
  /\ \A i \in 1 .. Len(queue) : intake[queue[i]] = "queued"
  /\ \A j \in processing : intake[j] = "queued"
  /\ \A w \in Workers : \A j \in todo[w] : intake[j] = "queued"
  /\ \A w \in Workers : Holds(w) => job[w] \in Jobs /\ intake[job[w]] = "queued"

\* A job waits in the queue once, or one worker may send its orders, or
\* neither; and only before they were sent.
OneChance ==
  /\ \A i, k \in 1 .. Len(queue) : queue[i] = queue[k] => i = k
  /\ \A i \in 1 .. Len(queue) : sent[queue[i]] = 0
  /\ \A i \in 1 .. Len(queue), w \in Workers : MaySend(w) => job[w] # queue[i]
  /\ \A w \in Workers : MaySend(w) => sent[job[w]] = 0
  /\ \A w, u \in Workers :
       MaySend(w) /\ MaySend(u) /\ job[w] = job[u] => w = u
  /\ \A j \in Jobs : intake[j] # "queued" => sent[j] = 0

RecordedBeforeAck ==
  \A w \in Workers : pc[w] \in {"recorded", "settled"} => Recorded(job[w])

IInv == TypeOK /\ OnlyQueued /\ OneChance /\ RecordedBeforeAck /\ NeverReplayed

LEMMA InitIInv == Init => IInv
<1> SUFFICES ASSUME Init PROVE IInv
  OBVIOUS
<1>1. queue = <<>> /\ Len(queue) = 0 /\ queue \in Seq(Jobs) BY DEF Init
<1>2. TypeOK
  <2>1. failures \in 0 .. MaxFailures BY QueueAssumption DEF Init
  <2>2. /\ pc \in [Workers -> WorkerStates]
        /\ job \in [Workers -> Jobs \cup {NoJob}]
        /\ todo \in [Workers -> SUBSET Jobs]
    BY DEF Init, WorkerStates
  <2>3. /\ intake \in [Jobs -> {"new", "saved", "queued", "lost"}]
        /\ history \in [Jobs -> {"none", "QUEUED", "SKIPPED", "INTERRUPTED", "RESULT"}]
        /\ sent \in [Jobs -> Nat]
    BY DEF Init
  <2>4. processing \in SUBSET Jobs /\ dead \in SUBSET Jobs /\ expired \in SUBSET Jobs
    BY DEF Init
  <2>5. /\ kill \in BOOLEAN /\ lease \in Workers \cup {NoWorker}
        /\ stalled \in BOOLEAN
    BY DEF Init
  <2>6. QED BY <1>1, <2>1, <2>2, <2>3, <2>4, <2>5 DEF TypeOK
<1>3. OnlyQueued /\ OneChance
  BY <1>1 DEF Init, OnlyQueued, OneChance, Holds, MaySend
<1>4. RecordedBeforeAck /\ NeverReplayed
  BY DEF Init, RecordedBeforeAck, NeverReplayed
<1>5. QED BY <1>2, <1>3, <1>4 DEF IInv

\* A step of one worker that neither queues nor claims nor sends, and saves
\* nothing but final results of the job it holds.
Bookkeeping(w) ==
  /\ pc' = [pc EXCEPT ![w] = pc'[w]] /\ pc'[w] \in WorkerStates
  /\ job' = [job EXCEPT ![w] = job'[w]] /\ job'[w] \in Jobs \cup {NoJob}
  /\ todo' = [todo EXCEPT ![w] = todo'[w]]
  /\ todo'[w] \subseteq todo[w] \cup processing
  /\ processing' \subseteq processing
  /\ dead' \in SUBSET Jobs /\ dead \subseteq dead'
  /\ history' \in [Jobs -> {"none", "QUEUED", "SKIPPED", "INTERRUPTED", "RESULT"}]
  /\ \A j \in Jobs : history[j] \in {"SKIPPED", "INTERRUPTED", "RESULT"} =>
                       history'[j] \in {"SKIPPED", "INTERRUPTED", "RESULT"}
  /\ kill' \in BOOLEAN /\ lease' \in Workers \cup {NoWorker}
  /\ failures' \in 0 .. MaxFailures /\ stalled' \in BOOLEAN
  /\ Holds(w)' => \/ job'[w] = job[w] /\ Holds(w)
                  \/ job'[w] \in todo[w]
  /\ MaySend(w)' => MaySend(w) /\ job'[w] = job[w]
  /\ pc'[w] \in {"recorded", "settled"} => Recorded(job[w])'
  /\ UNCHANGED <<intake, queue, expired, sent>>

LEMMA BookkeepingKeeps ==
  ASSUME IInv, NEW w \in Workers, Bookkeeping(w)
  PROVE  IInv'
<1> USE DEF Bookkeeping, IInv
<1>1. TypeOK'
  <2>1. todo'[w] \in SUBSET Jobs BY DEF TypeOK
  <2>2. todo' \in [Workers -> SUBSET Jobs] BY <2>1 DEF TypeOK
  <2>3. processing' \in SUBSET Jobs BY DEF TypeOK
  <2>4. /\ pc' \in [Workers -> WorkerStates]
        /\ job' \in [Workers -> Jobs \cup {NoJob}]
    BY DEF TypeOK
  <2>5. QED BY <2>2, <2>3, <2>4 DEF TypeOK
<1>2. \A u \in Workers : u # w => pc'[u] = pc[u] /\ job'[u] = job[u] /\ todo'[u] = todo[u]
  BY DEF TypeOK
<1>3. OnlyQueued'
  <2>1. \A j \in processing' : intake'[j] = "queued"
    BY DEF OnlyQueued
  <2>2. \A u \in Workers : \A j \in todo'[u] : intake'[j] = "queued"
    BY <1>2 DEF OnlyQueued
  <2>3. ASSUME NEW u \in Workers, Holds(u)'
        PROVE  job'[u] \in Jobs /\ intake'[job'[u]] = "queued"
    <3>1. CASE u = w
      <4>1. CASE job'[w] = job[w] /\ Holds(w)
        BY <2>3, <3>1, <4>1 DEF OnlyQueued
      <4>2. CASE job'[w] \in todo[w]
        BY <3>1, <4>2 DEF OnlyQueued, TypeOK
      <4>3. QED BY <2>3, <3>1, <4>1, <4>2
    <3>2. CASE u # w
      BY <1>2, <2>3, <3>2 DEF OnlyQueued, Holds
    <3>3. QED BY <3>1, <3>2
  <2>4. QED BY <2>1, <2>2, <2>3 DEF OnlyQueued
<1>4. \A u \in Workers : MaySend(u)' => MaySend(u) /\ job'[u] = job[u]
  BY <1>2 DEF MaySend
<1>5. OneChance' BY <1>4 DEF OneChance
<1>6. RecordedBeforeAck'
  <2>1. ASSUME NEW u \in Workers, u # w, pc[u] \in {"recorded", "settled"}
        PROVE  Recorded(job[u])'
    <3>1. Recorded(job[u]) /\ job[u] \in Jobs
      BY <2>1 DEF RecordedBeforeAck, OnlyQueued, Holds
    <3>2. job'[u] = job[u] BY <1>2, <2>1
    <3>3. QED BY <3>1, <3>2 DEF Recorded
  <2>2. QED BY <1>2, <2>1 DEF RecordedBeforeAck
<1>7. NeverReplayed' BY DEF NeverReplayed
<1>8. QED BY <1>1, <1>3, <1>5, <1>6, <1>7

\* The actions of one worker that neither claim a job nor send its orders.
Administers(w) ==
  \/ Start(w) \/ ListClaimed(w) \/ RecoverSave(w) \/ RecoverAck(w)
  \/ \E j \in Jobs : RecoverBad(w, j) \/ RecoverKill(w, j)
  \/ Recovered(w) \/ Quarantine(w) \/ SkipExpired(w) \/ Run(w)
  \/ PassKillSwitch(w) \/ NoOrders(w) \/ SaveResult(w) \/ SaveCancelled(w)
  \/ Acknowledge(w) \/ WorkerTrouble(w)

LEMMA IsBookkeeping ==
  ASSUME IInv, NEW w \in Workers, Administers(w)
  PROVE  Bookkeeping(w)
<1>1. /\ pc \in [Workers -> WorkerStates] /\ job \in [Workers -> Jobs \cup {NoJob}]
      /\ todo \in [Workers -> SUBSET Jobs] /\ processing \in SUBSET Jobs
      /\ dead \in SUBSET Jobs /\ kill \in BOOLEAN /\ stalled \in BOOLEAN
      /\ lease \in Workers \cup {NoWorker}
      /\ history \in [Jobs -> {"none", "QUEUED", "SKIPPED", "INTERRUPTED", "RESULT"}]
  BY DEF IInv, TypeOK
<1>2. failures \in 0 .. MaxFailures /\ MaxFailures \in Nat
  BY QueueAssumption DEF IInv, TypeOK
<1>3. Holds(w) => job[w] \in Jobs
  BY DEF IInv, OnlyQueued
<1> USE <1>1, <1>2, <1>3 DEF Bookkeeping, Holds, MaySend, Recorded, WorkerStates
<1>4. CASE Start(w) BY <1>4 DEF Start
<1>5. CASE ListClaimed(w) BY <1>5 DEF ListClaimed, LeftBehind
<1>6. CASE RecoverSave(w) BY <1>6 DEF RecoverSave, Save
<1>7. CASE RecoverAck(w) BY <1>7 DEF RecoverAck, Remove
<1>8. CASE Recovered(w) BY <1>8 DEF Recovered
<1>9. CASE Quarantine(w) BY <1>9 DEF Quarantine
<1>10. CASE SkipExpired(w) BY <1>10 DEF SkipExpired, Save
<1>11. CASE Run(w) BY <1>11 DEF Run
<1>12. CASE PassKillSwitch(w) BY <1>12 DEF PassKillSwitch
<1>13. CASE NoOrders(w) BY <1>13 DEF NoOrders
<1>14. CASE SaveResult(w) BY <1>14 DEF SaveResult, Save
<1>15. CASE SaveCancelled(w) BY <1>15 DEF SaveCancelled, Save
<1>16. CASE Acknowledge(w) BY <1>16 DEF Acknowledge, Remove
<1>17. CASE EngineFails(w) BY <1>17 DEF EngineFails
<1>18. CASE JobCancelled(w) BY <1>18 DEF JobCancelled, AfterCancelled
<1>19. CASE Crash(w) BY <1>19 DEF Crash, Die
<1>20. CASE Stop(w) BY <1>20 DEF Stop, Die
<1>21. CASE LossNoticed(w) BY <1>21 DEF LossNoticed, Die
<1>22. CASE \E j \in Jobs : RecoverBad(w, j) BY <1>22 DEF RecoverBad
<1>23. CASE \E j \in Jobs : RecoverKill(w, j) BY <1>23 DEF RecoverKill
<1>24. QED
  BY <1>4, <1>5, <1>6, <1>7, <1>8, <1>9, <1>10, <1>11, <1>12, <1>13, <1>14, <1>15, <1>16, <1>17, <1>18, <1>19, <1>20, <1>21, <1>22, <1>23
  DEF Administers, WorkerTrouble

\* The webhook queues a job it has never queued before.
LEMMA EnqueueKeeps ==
  ASSUME IInv, NEW j \in Jobs, Enqueue(j)
  PROVE  IInv'
<1> USE DEF IInv
<1>1. /\ queue \in Seq(Jobs) /\ intake \in [Jobs -> {"new", "saved", "queued", "lost"}]
      /\ sent \in [Jobs -> Nat]
  BY DEF TypeOK
<1>2. /\ queue' \in Seq(Jobs) /\ Len(queue') = Len(queue) + 1
      /\ Len(queue) \in Nat /\ queue'[Len(queue) + 1] = j
      /\ \A i \in 1 .. Len(queue) : queue'[i] = queue[i] /\ queue[i] \in Jobs
  BY <1>1 DEF Enqueue
<1>3. \A i \in 1 .. Len(queue') : i \in 1 .. Len(queue) \/ i = Len(queue) + 1
  BY <1>2
<1>4. /\ intake[j] = "saved" /\ intake'[j] = "queued"
      /\ intake' \in [Jobs -> {"new", "saved", "queued", "lost"}]
      /\ \A k \in Jobs : k # j => intake'[k] = intake[k]
      /\ \A k \in Jobs : intake[k] = "queued" => intake'[k] = "queued"
  BY <1>1 DEF Enqueue
<1>5. UNCHANGED <<processing, dead, history, kill, lease, expired, pc, job, todo,
                  sent, failures, stalled>>
  BY DEF Enqueue
<1>6. TypeOK' BY <1>2, <1>4, <1>5 DEF TypeOK
<1>7. OnlyQueued'
  <2>1. \A i \in 1 .. Len(queue') : intake'[queue'[i]] = "queued"
    BY <1>2, <1>3, <1>4 DEF OnlyQueued
  <2>2. \A k \in processing' : intake'[k] = "queued"
    BY <1>4, <1>5 DEF OnlyQueued, TypeOK
  <2>3. \A w \in Workers : \A k \in todo'[w] : intake'[k] = "queued"
    BY <1>4, <1>5 DEF OnlyQueued, TypeOK
  <2>4. \A w \in Workers : Holds(w)' => job'[w] \in Jobs /\ intake'[job'[w]] = "queued"
    BY <1>4, <1>5 DEF OnlyQueued, Holds
  <2>5. QED BY <2>1, <2>2, <2>3, <2>4 DEF OnlyQueued
<1>8. OneChance'
  <2>1. \A i \in 1 .. Len(queue) : queue[i] # j BY <1>4 DEF OnlyQueued
  <2>2. \A i, k \in 1 .. Len(queue') : queue'[i] = queue'[k] => i = k
    BY <1>2, <1>3, <2>1 DEF OneChance
  <2>3. \A i \in 1 .. Len(queue') : sent'[queue'[i]] = 0
    BY <1>2, <1>3, <1>4, <1>5 DEF OneChance
  <2>4. \A w \in Workers : MaySend(w) => job[w] # j
    BY <1>4 DEF OnlyQueued, MaySend, Holds
  <2>5. \A i \in 1 .. Len(queue'), w \in Workers : MaySend(w)' => job'[w] # queue'[i]
    BY <1>2, <1>3, <1>5, <2>4 DEF OneChance, MaySend
  <2>6. \A k \in Jobs : intake'[k] # "queued" => sent'[k] = 0
    BY <1>4, <1>5 DEF OneChance
  <2>7. QED BY <1>5, <2>2, <2>3, <2>5, <2>6 DEF OneChance, MaySend
<1>9. RecordedBeforeAck' /\ NeverReplayed'
  BY <1>5 DEF RecordedBeforeAck, Recorded, NeverReplayed
<1>10. QED BY <1>6, <1>7, <1>8, <1>9

\* The webhook's other steps; time, the lease's TTL, the user.
LEMMA OutsideKeeps ==
  ASSUME IInv,
         \/ \E j \in Jobs : Receive(j) \/ IntakeFails(j) \/ Age(j)
         \/ LeaseExpires \/ ClearKill
  PROVE  IInv'
<1> USE DEF IInv
<1>1. ASSUME NEW j \in Jobs, Receive(j) \/ IntakeFails(j) PROVE IInv'
  <2>1. /\ intake \in [Jobs -> {"new", "saved", "queued", "lost"}]
        /\ history \in [Jobs -> {"none", "QUEUED", "SKIPPED", "INTERRUPTED", "RESULT"}]
        /\ failures \in 0 .. MaxFailures /\ MaxFailures \in Nat
    BY QueueAssumption DEF TypeOK
  <2>2. /\ intake[j] # "queued" /\ intake'[j] # "queued"
        /\ intake' \in [Jobs -> {"new", "saved", "queued", "lost"}]
        /\ \A k \in Jobs : k # j => intake'[k] = intake[k]
    BY <1>1, <2>1 DEF Receive, IntakeFails
  <2>3. /\ history' \in [Jobs -> {"none", "QUEUED", "SKIPPED", "INTERRUPTED", "RESULT"}]
        /\ \A k \in Jobs : k # j => history'[k] = history[k]
    BY <1>1, <2>1 DEF Receive, IntakeFails
  <2>4. UNCHANGED <<queue, processing, dead, kill, lease, expired, pc, job, todo, sent, stalled>>
    BY <1>1 DEF Receive, IntakeFails
  <2>5. failures' \in 0 .. MaxFailures BY <1>1, <2>1 DEF Receive, IntakeFails
  <2>6. TypeOK' BY <2>2, <2>3, <2>4, <2>5 DEF TypeOK
  <2>7. \A k \in Jobs : intake[k] = "queued" => intake'[k] = "queued"
    BY <2>2
  <2>8. OnlyQueued'
    <3>1. \A i \in 1 .. Len(queue) : queue[i] \in Jobs BY DEF TypeOK
    <3>2. \A i \in 1 .. Len(queue') : intake'[queue'[i]] = "queued"
      BY <2>4, <2>7, <3>1 DEF OnlyQueued
    <3>3. \A k \in processing' : intake'[k] = "queued"
      BY <2>4, <2>7 DEF OnlyQueued, TypeOK
    <3>4. \A w \in Workers : \A k \in todo'[w] : intake'[k] = "queued"
      BY <2>4, <2>7 DEF OnlyQueued, TypeOK
    <3>5. \A w \in Workers : Holds(w)' => job'[w] \in Jobs /\ intake'[job'[w]] = "queued"
      BY <2>4, <2>7 DEF OnlyQueued, Holds
    <3>6. QED BY <3>2, <3>3, <3>4, <3>5 DEF OnlyQueued
  <2>9. \A k \in Jobs : intake'[k] # "queued" => sent'[k] = 0
    BY <2>4, <2>7 DEF OneChance
  <2>10. OneChance' BY <2>4, <2>9 DEF OneChance, MaySend
  <2>11. \A w \in Workers : pc[w] \in {"recorded", "settled"} => job[w] \in Jobs /\ job[w] # j
    BY <2>2 DEF OnlyQueued, Holds
  <2>12. RecordedBeforeAck'
    BY <2>3, <2>4, <2>11 DEF RecordedBeforeAck, Recorded
  <2>13. NeverReplayed' BY <2>4 DEF NeverReplayed
  <2>14. QED BY <2>6, <2>8, <2>10, <2>12, <2>13
<1>2. ASSUME (\E j \in Jobs : Age(j)) \/ LeaseExpires \/ ClearKill PROVE IInv'
  <2>1. UNCHANGED <<intake, queue, processing, dead, history, pc, job, todo, sent>>
    BY <1>2 DEF Age, LeaseExpires, ClearKill
  <2>2. /\ expired' \in SUBSET Jobs /\ kill' \in BOOLEAN
        /\ lease' \in Workers \cup {NoWorker}
    BY <1>2 DEF Age, LeaseExpires, ClearKill, TypeOK
  <2>2a. stalled' \in BOOLEAN
    <3>1. CASE LeaseExpires BY <3>1 DEF LeaseExpires, TypeOK
    <3>2. CASE ~LeaseExpires BY <1>2, <3>2 DEF Age, ClearKill, TypeOK
    <3>3. QED BY <3>1, <3>2
  <2>3. failures' \in 0 .. MaxFailures
    BY <1>2, QueueAssumption DEF Age, LeaseExpires, ClearKill, TypeOK
  <2>4. TypeOK' BY <2>1, <2>2, <2>2a, <2>3 DEF TypeOK
  <2>5. OnlyQueued' BY <2>1 DEF OnlyQueued, Holds
  <2>6. OneChance' BY <2>1 DEF OneChance, MaySend
  <2>7. RecordedBeforeAck' /\ NeverReplayed'
    BY <2>1 DEF RecordedBeforeAck, Recorded, NeverReplayed
  <2>8. QED BY <2>4, <2>5, <2>6, <2>7
<1>3. QED BY <1>1, <1>2

\* A job passes from the queue to one worker: its chance passes with it.
LEMMA ClaimKeeps ==
  ASSUME IInv, NEW w \in Workers, Claim(w)
  PROVE  IInv'
<1> USE DEF IInv
<1>1. queue \in Seq(Jobs) /\ queue # <<>> BY DEF TypeOK, Claim
<1>2. /\ Len(queue) \in Nat \ {0} /\ Head(queue) = queue[1] /\ queue[1] \in Jobs
      /\ queue' \in Seq(Jobs) /\ Len(queue') = Len(queue) - 1
      /\ \A i \in 1 .. Len(queue') : queue'[i] = queue[i + 1]
  BY <1>1 DEF Claim, QueueAfterClaim
<1>3. \A i \in 1 .. Len(queue') :
        i + 1 \in 1 .. Len(queue) /\ i + 1 # 1
  BY <1>2
<1>4. 1 \in 1 .. Len(queue) BY <1>2
<1>5. /\ pc'[w] = "claimed" /\ job'[w] = queue[1]
      /\ \A u \in Workers : u # w => pc'[u] = pc[u] /\ job'[u] = job[u]
      /\ pc' \in [Workers -> WorkerStates]
      /\ job' \in [Workers -> Jobs \cup {NoJob}]
  BY <1>2 DEF Claim, TypeOK, WorkerStates
<1>6. UNCHANGED <<intake, dead, history, kill, lease, expired, todo, sent, failures,
                  stalled>>
  BY DEF Claim
<1>7. processing' = processing \cup {queue[1]} BY <1>2 DEF Claim
<1>8. TypeOK' BY <1>2, <1>5, <1>6, <1>7 DEF TypeOK
<1>9. OnlyQueued'
  <2>1. \A i \in 1 .. Len(queue') : intake'[queue'[i]] = "queued"
    BY <1>2, <1>3, <1>6 DEF OnlyQueued
  <2>2. intake[queue[1]] = "queued" BY <1>4 DEF OnlyQueued
  <2>3. \A k \in processing' : intake'[k] = "queued"
    BY <1>6, <1>7, <2>2 DEF OnlyQueued
  <2>4. \A u \in Workers : \A k \in todo'[u] : intake'[k] = "queued"
    BY <1>6 DEF OnlyQueued
  <2>5. \A u \in Workers : Holds(u)' => job'[u] \in Jobs /\ intake'[job'[u]] = "queued"
    BY <1>2, <1>5, <1>6, <2>2 DEF OnlyQueued, Holds
  <2>6. QED BY <2>1, <2>3, <2>4, <2>5 DEF OnlyQueued
<1>10. OneChance'
  <2>1. \A i, k \in 1 .. Len(queue') : queue'[i] = queue'[k] => i = k
    <3> SUFFICES ASSUME NEW i \in 1 .. Len(queue'), NEW k \in 1 .. Len(queue'),
                        queue'[i] = queue'[k]
                 PROVE  i = k
      OBVIOUS
    <3>1. queue[i + 1] = queue[k + 1] BY <1>2
    <3>2. i + 1 = k + 1 BY <1>3, <3>1 DEF OneChance
    <3>3. QED BY <1>2, <3>2
  <2>2. \A i \in 1 .. Len(queue') : sent'[queue'[i]] = 0
    BY <1>2, <1>3, <1>6 DEF OneChance
  <2>3. \A i \in 1 .. Len(queue') : queue'[i] # queue[1]
    BY <1>2, <1>3, <1>4 DEF OneChance
  <2>4. \A i \in 1 .. Len(queue'), u \in Workers : MaySend(u)' => job'[u] # queue'[i]
    BY <1>2, <1>3, <1>5, <2>3 DEF OneChance, MaySend
  <2>5. \A u \in Workers : MaySend(u)' => sent'[job'[u]] = 0
    BY <1>4, <1>5, <1>6 DEF OneChance, MaySend
  <2>6. \A u \in Workers : u # w /\ MaySend(u)' => job'[u] # queue[1]
    BY <1>4, <1>5 DEF OneChance, MaySend
  <2>7. \A u, v \in Workers :
          MaySend(u)' /\ MaySend(v)' /\ job'[u] = job'[v] => u = v
    BY <1>5, <2>6 DEF OneChance, MaySend
  <2>8. \A k \in Jobs : intake'[k] # "queued" => sent'[k] = 0
    BY <1>6 DEF OneChance
  <2>9. QED BY <2>1, <2>2, <2>4, <2>5, <2>7, <2>8 DEF OneChance
<1>11. RecordedBeforeAck'
  BY <1>5, <1>6 DEF RecordedBeforeAck, Recorded
<1>12. NeverReplayed' BY <1>6 DEF NeverReplayed
<1>13. QED BY <1>8, <1>9, <1>10, <1>11, <1>12

\* The one chance is used.
LEMMA SendOrdersKeeps ==
  ASSUME IInv, NEW w \in Workers, SendOrders(w)
  PROVE  IInv'
<1> USE DEF IInv
<1>1. /\ MaySend(w) /\ Holds(w) /\ pc'[w] = "saving"
      /\ \A u \in Workers : u # w => pc'[u] = pc[u]
      /\ pc' \in [Workers -> WorkerStates]
  BY DEF SendOrders, TypeOK, WorkerStates, MaySend, Holds
<1>2. UNCHANGED <<intake, queue, processing, dead, history, kill, lease, expired, job,
                  todo, failures, stalled>>
  BY DEF SendOrders
<1>3. job[w] \in Jobs /\ intake[job[w]] = "queued" /\ sent[job[w]] = 0
  BY <1>1 DEF OnlyQueued, OneChance
<1>4. /\ sent' \in [Jobs -> Nat] /\ sent'[job[w]] = 1
      /\ \A j \in Jobs : j # job[w] => sent'[j] = sent[j]
  BY <1>3 DEF SendOrders, TypeOK
<1>5. TypeOK' BY <1>1, <1>2, <1>4 DEF TypeOK
<1>6. OnlyQueued' BY <1>1, <1>2 DEF OnlyQueued, Holds
<1>7. \A u \in Workers : MaySend(u)' => u # w /\ MaySend(u)
  BY <1>1 DEF MaySend
<1>8. \A i \in 1 .. Len(queue) : queue[i] # job[w] /\ queue[i] \in Jobs
  BY <1>1 DEF OneChance, TypeOK
<1>9. OneChance'
  <2>1. \A i \in 1 .. Len(queue') : sent'[queue'[i]] = 0
    BY <1>2, <1>4, <1>8 DEF OneChance
  <2>2. \A u \in Workers : MaySend(u)' => job[u] # job[w] /\ job[u] \in Jobs
    BY <1>1, <1>7 DEF OneChance, OnlyQueued, Holds, MaySend
  <2>3. \A u \in Workers : MaySend(u)' => sent'[job'[u]] = 0
    BY <1>2, <1>4, <1>7, <2>2 DEF OneChance
  <2>4. \A j \in Jobs : intake'[j] # "queued" => sent'[j] = 0
    BY <1>2, <1>3, <1>4 DEF OneChance
  <2>5. QED BY <1>2, <1>7, <2>1, <2>3, <2>4 DEF OneChance
<1>10. RecordedBeforeAck' BY <1>1, <1>2 DEF RecordedBeforeAck, Recorded
<1>11. NeverReplayed' BY <1>4 DEF NeverReplayed
<1>12. QED BY <1>5, <1>6, <1>9, <1>10, <1>11

LEMMA StepKeeps == IInv /\ [Next]_vars => IInv'
<1> SUFFICES ASSUME IInv, [Next]_vars PROVE IInv'
  OBVIOUS
<1>1. CASE \E j \in Jobs : Enqueue(j) BY <1>1, EnqueueKeeps
<1>2. CASE \/ \E j \in Jobs : Receive(j) \/ IntakeFails(j) \/ Age(j)
           \/ LeaseExpires \/ ClearKill
  BY <1>2, OutsideKeeps
<1>3. ASSUME NEW w \in Workers, Administers(w) PROVE IInv'
  BY <1>3, IsBookkeeping, BookkeepingKeeps
<1>4. ASSUME NEW w \in Workers, Claim(w) PROVE IInv'
  BY <1>4, ClaimKeeps
<1>5. ASSUME NEW w \in Workers, SendOrders(w) PROVE IInv'
  BY <1>5, SendOrdersKeeps
<1>6. CASE UNCHANGED vars
  <2>1. TypeOK' BY <1>6 DEF vars, IInv, TypeOK
  <2>2. OnlyQueued' BY <1>6 DEF vars, IInv, OnlyQueued, Holds
  <2>3. OneChance' BY <1>6 DEF vars, IInv, OneChance, MaySend
  <2>4. RecordedBeforeAck' /\ NeverReplayed'
    BY <1>6 DEF vars, IInv, RecordedBeforeAck, Recorded, NeverReplayed
  <2>5. QED BY <2>1, <2>2, <2>3, <2>4 DEF IInv
<1>7. QED
  BY <1>1, <1>2, <1>3, <1>4, <1>5, <1>6
  DEF Next, Intake, WorkerStep, Administers

LEMMA Invariance == Spec => []IInv
BY InitIInv, StepKeeps, PTL DEF Spec

\* Every variable of the queue, the lists, the lease and the workers has its
\* type, for any number of jobs and workers.
THEOREM TypeCorrect == Spec => []TypeOK
<1>1. IInv => TypeOK BY DEF IInv
<1>2. QED BY <1>1, Invariance, PTL

\* The claim by BLMOVE and the settlement of claimed jobs at the start of a
\* worker send the orders of a job at most once, even when workers overlap
\* because a lease lapsed.
THEOREM OrdersSentOnce == Spec => []NeverReplayed
<1>1. IInv => NeverReplayed BY DEF IInv
<1>2. QED BY <1>1, Invariance, PTL

\* Only a job with a final history row, or one in the dead queue, is removed
\* from the processing list.
THEOREM RecordPrecedesAck == Spec => AcknowledgedWithRecord
<1>1. IInv /\ [Next]_vars =>
        [\A j \in processing \ processing' :
           \/ history[j] \in {"SKIPPED", "INTERRUPTED", "RESULT"}
           \/ j \in dead]_vars
  <2> SUFFICES ASSUME IInv, Next, NEW j \in processing, j \notin processing'
               PROVE  Recorded(j)
    BY DEF Recorded
  <2>1. PICK w \in Workers : RecoverAck(w) \/ Acknowledge(w)
    BY DEF Next, Intake, Receive, Enqueue, IntakeFails, Age, LeaseExpires,
           ClearKill, WorkerStep, WorkerTrouble, Start, ListClaimed, RecoverSave,
           RecoverBad, RecoverKill, Recovered, Claim, Quarantine, SkipExpired,
           Run, PassKillSwitch, SendOrders, NoOrders, SaveResult, SaveCancelled,
           EngineFails, JobCancelled, Crash, Stop, LossNoticed, Die
  <2>2. job[w] = j /\ pc[w] \in {"recorded", "settled"}
    BY <2>1 DEF RecoverAck, Acknowledge, Remove
  <2>3. QED BY <2>2 DEF IInv, RecordedBeforeAck
<1>2. QED BY <1>1, Invariance, PTL DEF Spec, AcknowledgedWithRecord
-----------------------------------------------------------------------------
(* Without a stall one worker is at work, and it accounts for every claim.  *)

WaitsWithoutJob ==
  \A w \in Workers : pc[w] \in {"down", "starting", "recovering", "idle"} => job[w] = NoJob

OneAtWork ==
  ~stalled => \A w \in Workers : pc[w] # "down" => lease = w

NothingAbandoned ==
  ~stalled => \A w \in Workers :
    pc[w] \notin {"down", "starting"} => processing \subseteq todo[w] \cup {job[w]}

Accounted == TypeOK /\ WaitsWithoutJob /\ OneAtWork /\ NothingAbandoned

LEMMA InitAccounted == Init => Accounted
<1>1. Init => TypeOK BY InitIInv DEF IInv
<1>2. Init => WaitsWithoutJob /\ OneAtWork /\ NothingAbandoned
  BY DEF Init, WaitsWithoutJob, OneAtWork, NothingAbandoned
<1>3. QED BY <1>1, <1>2 DEF Accounted

\* A worker at work changes only what is its own, and leaves no claim behind.
Diligent(w) ==
  /\ pc' = [pc EXCEPT ![w] = pc'[w]] /\ job' = [job EXCEPT ![w] = job'[w]]
  /\ todo' = [todo EXCEPT ![w] = todo'[w]]
  /\ stalled' = stalled
  /\ pc'[w] \in {"down", "starting", "recovering", "idle"} => job'[w] = NoJob
  /\ IF pc[w] = "down" THEN lease = NoWorker /\ lease' = w /\ pc'[w] = "starting"
     ELSE pc'[w] = "down" \/ lease' = lease
  /\ pc'[w] \notin {"down", "starting"} =>
       \/ processing' \subseteq todo'[w] \cup {job'[w]}
       \/ /\ pc[w] \notin {"down", "starting"}
          /\ processing \subseteq todo[w] \cup {job[w]} =>
               processing' \subseteq todo'[w] \cup {job'[w]}

LEMMA DiligentKeeps ==
  ASSUME Accounted, TypeOK', NEW w \in Workers, Diligent(w)
  PROVE  Accounted'
<1> USE DEF Accounted
<1>1. /\ pc \in [Workers -> WorkerStates] /\ job \in [Workers -> Jobs \cup {NoJob}]
      /\ todo \in [Workers -> SUBSET Jobs]
  BY DEF TypeOK
<1>2. \A u \in Workers : u # w => pc'[u] = pc[u] /\ job'[u] = job[u] /\ todo'[u] = todo[u]
  BY <1>1 DEF Diligent
<1>3. WaitsWithoutJob' BY <1>2 DEF Diligent, WaitsWithoutJob
<1>4. ~stalled => \A u \in Workers : u # w => pc[u] = "down"
  <2> SUFFICES ASSUME ~stalled, NEW u \in Workers, u # w PROVE pc[u] = "down"
    OBVIOUS
  <2>1. CASE pc[w] = "down"
    BY <2>1, QueueAssumption DEF Diligent, OneAtWork
  <2>2. CASE pc[w] # "down" BY <2>2 DEF OneAtWork
  <2>3. QED BY <2>1, <2>2
<1>5. OneAtWork' BY <1>2, <1>4 DEF Diligent, OneAtWork
<1>6. NothingAbandoned' BY <1>2, <1>4 DEF Diligent, NothingAbandoned
<1>7. QED BY <1>3, <1>5, <1>6

LEMMA WorkersAreDiligent ==
  ASSUME Accounted, NEW w \in Workers, WorkerStep(w) \/ WorkerTrouble(w)
  PROVE  Diligent(w)
<1>1. /\ pc \in [Workers -> WorkerStates] /\ job \in [Workers -> Jobs \cup {NoJob}]
      /\ todo \in [Workers -> SUBSET Jobs] /\ processing \in SUBSET Jobs
      /\ queue \in Seq(Jobs)
      /\ pc[w] \in {"down", "starting", "recovering", "idle"} => job[w] = NoJob
  BY DEF Accounted, TypeOK, WaitsWithoutJob
<1> USE <1>1, QueueAssumption DEF Diligent
<1>2. CASE Start(w) BY <1>2 DEF Start
<1>3. CASE ListClaimed(w) BY <1>3 DEF ListClaimed, LeftBehind
<1>4. CASE \E j \in Jobs : RecoverBad(w, j) BY <1>4 DEF RecoverBad
<1>5. CASE \E j \in Jobs : RecoverKill(w, j) BY <1>5 DEF RecoverKill
<1>6. CASE RecoverSave(w) BY <1>6 DEF RecoverSave
<1>7. CASE RecoverAck(w) BY <1>7 DEF RecoverAck, Remove
<1>8. CASE Recovered(w) BY <1>8 DEF Recovered
<1>9. CASE Claim(w) BY <1>9 DEF Claim
<1>10. CASE Quarantine(w) \/ SkipExpired(w) \/ Run(w) \/ PassKillSwitch(w)
  BY <1>10 DEF Quarantine, SkipExpired, Run, PassKillSwitch
<1>11. CASE SendOrders(w) \/ NoOrders(w) \/ SaveResult(w) \/ SaveCancelled(w)
  BY <1>11 DEF SendOrders, NoOrders, SaveResult, SaveCancelled
<1>12. CASE Acknowledge(w) BY <1>12 DEF Acknowledge, Remove
<1>13. CASE EngineFails(w) \/ JobCancelled(w)
  BY <1>13 DEF EngineFails, JobCancelled, AfterCancelled
<1>14. CASE Crash(w) \/ Stop(w) \/ LossNoticed(w)
  BY <1>14 DEF Crash, Stop, LossNoticed, Die
<1>15. QED
  BY <1>2, <1>3, <1>4, <1>5, <1>6, <1>7, <1>8, <1>9, <1>10, <1>11, <1>12, <1>13, <1>14
  DEF WorkerStep, WorkerTrouble

\* The webhook, the clock, the user and the lease's TTL: a lease that lapses without
\* a stall was that of a worker that is down.
LEMMA OutsideAccounted ==
  ASSUME Accounted, TypeOK',
         \/ \E j \in Jobs : Intake(j) \/ IntakeFails(j) \/ Age(j)
         \/ LeaseExpires \/ ClearKill \/ UNCHANGED vars
  PROVE  Accounted'
<1> USE DEF Accounted
<1>1. UNCHANGED <<processing, pc, job, todo>>
  BY DEF Intake, Receive, Enqueue, IntakeFails, Age, LeaseExpires, ClearKill, vars
<1>2. WaitsWithoutJob' BY <1>1 DEF WaitsWithoutJob
<1>3. CASE LeaseExpires
  <2>1. ~stalled' => ~stalled /\ pc[lease] = "down" /\ lease \in Workers
    BY <1>3 DEF LeaseExpires, TypeOK
  <2>2. ~stalled' => \A w \in Workers : pc[w] = "down"
    BY <2>1 DEF OneAtWork
  <2>3. OneAtWork' /\ NothingAbandoned'
    BY <1>1, <2>2 DEF OneAtWork, NothingAbandoned
  <2>4. QED BY <1>2, <2>3
<1>4. CASE ~LeaseExpires
  <2>1. UNCHANGED <<lease, stalled>>
    BY <1>4 DEF Intake, Receive, Enqueue, IntakeFails, Age, ClearKill, vars
  <2>2. OneAtWork' /\ NothingAbandoned'
    BY <1>1, <2>1 DEF OneAtWork, NothingAbandoned
  <2>3. QED BY <1>2, <2>2
<1>5. QED BY <1>3, <1>4

LEMMA StepAccounted == IInv /\ Accounted /\ [Next]_vars => Accounted'
<1> SUFFICES ASSUME IInv, Accounted, [Next]_vars PROVE Accounted'
  OBVIOUS
<1>1. TypeOK' BY StepKeeps DEF IInv
<1>2. ASSUME NEW w \in Workers, WorkerStep(w) \/ WorkerTrouble(w) PROVE Accounted'
  BY <1>1, <1>2, WorkersAreDiligent, DiligentKeeps
<1>3. CASE \/ \E j \in Jobs : Intake(j) \/ IntakeFails(j) \/ Age(j)
           \/ LeaseExpires \/ ClearKill \/ UNCHANGED vars
  BY <1>1, <1>3, OutsideAccounted
<1>4. QED BY <1>2, <1>3 DEF Next

LEMMA AccountedInvariance == Spec => []Accounted
BY InitAccounted, StepAccounted, Invariance, PTL DEF Spec

\* As long as no worker stalls past its lease, no worker starts a job while another
\* job is claimed that nobody works on or is going to settle: recovery marks every
\* uncertain job first, however often workers die, stop and start.
THEOREM RecoveryComesFirst == Spec => UncertaintyMarkedFirst
<1>1. Accounted /\ [Next]_vars =>
        [\A w \in Workers : Run(w) => stalled \/ \A j \in Jobs : ~Abandoned(j)]_vars
  <2> SUFFICES ASSUME Accounted, NEW w \in Workers, Run(w), ~stalled,
                      NEW j \in Jobs, Abandoned(j)
               PROVE  FALSE
    OBVIOUS
  <2>1. pc[w] = "claimed" /\ j \in processing /\ job[w] # j /\ j \notin todo[w]
    BY DEF Run, Abandoned
  <2>2. QED BY <2>1 DEF Accounted, NothingAbandoned
<1>2. QED BY <1>1, AccountedInvariance, PTL DEF Spec, UncertaintyMarkedFirst
-----------------------------------------------------------------------------
(* No job is forgotten: where a job is that the webhook has queued.         *)

Waits(j) == \E i \in 1 .. Len(queue) : queue[i] = j

\* No worker has seen the job.
Untouched(j) ==
  /\ j \notin processing /\ ~Recorded(j)
  /\ \A w \in Workers : j \notin todo[w] /\ (Holds(w) => job[w] # j)

\* A job that was queued waits, untouched, in the queue, or it is claimed, or its
\* final record is kept.
NothingForgotten ==
  \A j \in Jobs :
    /\ intake[j] # "queued" \/ Waits(j) => Untouched(j)
    /\ intake[j] = "queued" => Waits(j) \/ j \in processing \/ Recorded(j)

LEMMA InitNothingForgotten == Init => NothingForgotten
BY DEF Init, NothingForgotten, Waits, Untouched, Recorded, Holds

\* What a worker does to a job that it does not claim: it records, holds and lists
\* only jobs that were claimed, and takes no job without a record off the list.
Careful(w) ==
  /\ UNCHANGED <<intake, queue>>
  /\ \A u \in Workers :
       /\ todo'[u] \subseteq todo[u] \cup processing
       /\ Holds(u)' => (Holds(u) /\ job'[u] = job[u]) \/ job'[u] \in todo[u]
  /\ processing' \subseteq processing
  /\ \A j \in processing \ processing' : Recorded(j)
  /\ \A j \in Jobs :
       /\ Recorded(j) => Recorded(j)'
       /\ Recorded(j)' => Recorded(j) \/ (Holds(w) /\ job[w] = j) \/ j \in todo[w]

LEMMA CarefulKeeps ==
  ASSUME IInv, NothingForgotten, NEW w \in Workers, Careful(w)
  PROVE  NothingForgotten'
<1> SUFFICES ASSUME NEW j \in Jobs
             PROVE  /\ intake[j] # "queued" \/ Waits(j) => Untouched(j)'
                    /\ intake[j] = "queued" => Waits(j) \/ j \in processing' \/ Recorded(j)'
  BY DEF Careful, NothingForgotten, Waits
<1>1. ASSUME Untouched(j) PROVE Untouched(j)'
  BY <1>1 DEF Careful, Untouched
<1>2. j \in processing \/ Recorded(j) => j \in processing' \/ Recorded(j)'
  BY DEF Careful
<1>3. QED BY <1>1, <1>2 DEF NothingForgotten

LEMMA AdministersCarefully ==
  ASSUME IInv, NEW w \in Workers, Administers(w)
  PROVE  Careful(w)
<1>1. /\ pc \in [Workers -> WorkerStates] /\ job \in [Workers -> Jobs \cup {NoJob}]
      /\ todo \in [Workers -> SUBSET Jobs]
      /\ history \in [Jobs -> {"none", "QUEUED", "SKIPPED", "INTERRUPTED", "RESULT"}]
  BY DEF IInv, TypeOK
<1>2. /\ Holds(w) => job[w] \in Jobs
      /\ pc[w] \in {"recorded", "settled"} => Recorded(job[w])
  BY DEF IInv, OnlyQueued, RecordedBeforeAck
<1> USE <1>1, <1>2 DEF Careful, Holds, Recorded
<1>3. CASE Start(w) BY <1>3 DEF Start
<1>4. CASE ListClaimed(w) BY <1>4 DEF ListClaimed, LeftBehind
<1>5. CASE RecoverSave(w) BY <1>5 DEF RecoverSave, Save
<1>6. CASE RecoverAck(w) BY <1>6 DEF RecoverAck, Remove
<1>7. CASE Recovered(w) BY <1>7 DEF Recovered
<1>8. CASE Quarantine(w) BY <1>8 DEF Quarantine
<1>9. CASE SkipExpired(w) BY <1>9 DEF SkipExpired, Save
<1>10. CASE Run(w) \/ PassKillSwitch(w) \/ NoOrders(w)
  BY <1>10 DEF Run, PassKillSwitch, NoOrders
<1>11. CASE SaveResult(w) BY <1>11 DEF SaveResult, Save
<1>12. CASE SaveCancelled(w) BY <1>12 DEF SaveCancelled, Save
<1>13. CASE Acknowledge(w) BY <1>13 DEF Acknowledge, Remove
<1>14. CASE EngineFails(w) \/ JobCancelled(w)
  BY <1>14 DEF EngineFails, JobCancelled, AfterCancelled
<1>15. CASE Crash(w) \/ Stop(w) \/ LossNoticed(w)
  BY <1>15 DEF Crash, Stop, LossNoticed, Die
<1>16. CASE \E j \in Jobs : RecoverBad(w, j) BY <1>16 DEF RecoverBad
<1>17. CASE \E j \in Jobs : RecoverKill(w, j) BY <1>17 DEF RecoverKill
<1>18. QED
  BY <1>3, <1>4, <1>5, <1>6, <1>7, <1>8, <1>9, <1>10, <1>11, <1>12, <1>13, <1>14, <1>15,
     <1>16, <1>17
  DEF Administers, WorkerTrouble

\* BLMOVE: the job at the head leaves the queue and is claimed, the others wait on.
LEMMA ClaimForgetsNothing ==
  ASSUME IInv, NothingForgotten, NEW w \in Workers, Claim(w)
  PROVE  NothingForgotten'
<1>1. queue \in Seq(Jobs) /\ queue # <<>> BY DEF IInv, TypeOK, Claim
<1>2. /\ Len(queue) \in Nat \ {0} /\ Head(queue) = queue[1] /\ queue[1] \in Jobs
      /\ Len(queue') = Len(queue) - 1
      /\ \A i \in 1 .. Len(queue') : queue'[i] = queue[i + 1]
  BY <1>1 DEF Claim, QueueAfterClaim
<1>3. ASSUME NEW j \in Jobs PROVE Waits(j)' <=> Waits(j) /\ j # queue[1]
  <2>1. ASSUME NEW i \in 1 .. Len(queue), queue[i] = j, j # queue[1] PROVE Waits(j)'
    <3>1. i - 1 \in 1 .. Len(queue') BY <1>2, <2>1
    <3>2. queue'[i - 1] = j BY <1>2, <2>1, <3>1
    <3>3. QED BY <3>1, <3>2 DEF Waits
  <2>2. ASSUME NEW i \in 1 .. Len(queue'), queue'[i] = j
        PROVE  Waits(j) /\ j # queue[1]
    <3>1. i + 1 \in 1 .. Len(queue) /\ 1 \in 1 .. Len(queue) /\ i + 1 # 1 BY <1>2
    <3>2. queue[i + 1] = j BY <1>2, <2>2
    <3>3. QED BY <3>1, <3>2 DEF IInv, OneChance, Waits
  <2>3. QED BY <2>1, <2>2 DEF Waits
<1>4. /\ \A u \in Workers : u # w => pc'[u] = pc[u] /\ job'[u] = job[u]
      /\ job'[w] = queue[1] /\ processing' = processing \cup {queue[1]}
      /\ UNCHANGED <<intake, dead, history, todo>>
  BY <1>2 DEF IInv, TypeOK, Claim
<1>5. intake[queue[1]] = "queued" BY <1>2 DEF IInv, OnlyQueued
<1>6. ASSUME NEW j \in Jobs, j # queue[1], Untouched(j) PROVE Untouched(j)'
  BY <1>4, <1>6 DEF Untouched, Recorded, Holds
<1>7. QED BY <1>3, <1>4, <1>5, <1>6 DEF NothingForgotten, Recorded

\* The webhook, the clock, the lease's TTL and the user.
LEMMA OutsideForgetsNothing ==
  ASSUME IInv, NothingForgotten,
         \/ \E j \in Jobs : Intake(j) \/ IntakeFails(j) \/ Age(j)
         \/ LeaseExpires \/ ClearKill \/ UNCHANGED vars
  PROVE  NothingForgotten'
<1>1. /\ queue \in Seq(Jobs)
      /\ intake \in [Jobs -> {"new", "saved", "queued", "lost"}]
      /\ history \in [Jobs -> {"none", "QUEUED", "SKIPPED", "INTERRUPTED", "RESULT"}]
  BY DEF IInv, TypeOK
<1>2. ASSUME NEW k \in Jobs, Enqueue(k) PROVE NothingForgotten'
  <2>1. /\ Len(queue') = Len(queue) + 1 /\ Len(queue) \in Nat
        /\ queue'[Len(queue) + 1] = k
        /\ \A i \in 1 .. Len(queue) : queue'[i] = queue[i]
    BY <1>1, <1>2 DEF Enqueue
  <2>2. \A j \in Jobs : Waits(j)' <=> Waits(j) \/ j = k
    BY <2>1 DEF Waits
  <2>3. /\ intake[k] = "saved" /\ intake'[k] = "queued"
        /\ \A j \in Jobs : j # k => intake'[j] = intake[j]
        /\ UNCHANGED <<processing, dead, history, pc, job, todo>>
    BY <1>1, <1>2 DEF Enqueue
  <2>4. \A j \in Jobs : (Untouched(j)' <=> Untouched(j)) /\ (Recorded(j)' <=> Recorded(j))
    BY <2>3 DEF Untouched, Recorded, Holds
  <2>5. QED BY <2>2, <2>3, <2>4 DEF NothingForgotten
<1>3. ASSUME NEW k \in Jobs, Receive(k) \/ IntakeFails(k) PROVE NothingForgotten'
  <2>1. /\ intake[k] # "queued" /\ intake'[k] # "queued"
        /\ history'[k] \in {history[k], "QUEUED"}
        /\ \A j \in Jobs : j # k => intake'[j] = intake[j] /\ history'[j] = history[j]
        /\ UNCHANGED <<queue, processing, dead, pc, job, todo>>
    BY <1>1, <1>3 DEF Receive, IntakeFails
  <2>2. \A j \in Jobs : Waits(j)' <=> Waits(j) BY <2>1 DEF Waits
  <2>3. \A j \in Jobs : Untouched(j) => Untouched(j)'
    BY <2>1 DEF Untouched, Recorded, Holds
  <2>4. \A j \in Jobs : j # k => (Recorded(j)' <=> Recorded(j))
    BY <2>1 DEF Recorded
  <2>5. QED BY <2>1, <2>2, <2>3, <2>4 DEF NothingForgotten
<1>4. CASE (\E j \in Jobs : Age(j)) \/ LeaseExpires \/ ClearKill \/ UNCHANGED vars
  <2>1. UNCHANGED <<intake, queue, processing, dead, history, pc, job, todo>>
    BY <1>4 DEF Age, LeaseExpires, ClearKill, vars
  <2>2. QED BY <2>1 DEF NothingForgotten, Waits, Untouched, Recorded, Holds
<1>5. QED BY <1>2, <1>3, <1>4 DEF Intake

LEMMA StepForgetsNothing ==
  IInv /\ NothingForgotten /\ [Next]_vars => NothingForgotten'
<1> SUFFICES ASSUME IInv, NothingForgotten, [Next]_vars PROVE NothingForgotten'
  OBVIOUS
<1>1. ASSUME NEW w \in Workers, Administers(w) PROVE NothingForgotten'
  BY <1>1, AdministersCarefully, CarefulKeeps
<1>2. ASSUME NEW w \in Workers, Claim(w) PROVE NothingForgotten'
  BY <1>2, ClaimForgetsNothing
<1>3. ASSUME NEW w \in Workers, SendOrders(w) PROVE NothingForgotten'
  <2>1. Careful(w)
    BY <1>3 DEF SendOrders, Careful, Holds, Recorded, IInv, TypeOK
  <2>2. QED BY <2>1, CarefulKeeps
<1>4. CASE \/ \E j \in Jobs : Intake(j) \/ IntakeFails(j) \/ Age(j)
           \/ LeaseExpires \/ ClearKill \/ UNCHANGED vars
  BY <1>4, OutsideForgetsNothing
<1>5. QED BY <1>1, <1>2, <1>3, <1>4 DEF Next, WorkerStep, Administers

\* Once the webhook has queued a job, it waits untouched in the queue, or stands in
\* the processing list where the next start of a worker finds it, or its final
\* record is kept: no crash, stop, stall or overlap of workers loses a job.
THEOREM NoJobIsForgotten == Spec => []NothingForgotten
<1>1. QED BY InitNothingForgotten, StepForgetsNothing, Invariance, PTL DEF Spec
=============================================================================
