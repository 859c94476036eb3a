--------------------------- MODULE OrderLockProofs ---------------------------
(* Proofs of the safety properties of OrderLock, for any sets of tasks and *)
(* keys and any number of tokens.                                          *)
EXTENDS OrderLock, TLAPS

\* Nothing stored, held or run out was ever issued by anyone but uuid4.
IssuedTokens ==
  /\ \A k \in Keys : lock[k] <= issued
  /\ \A t \in Tasks : token[t] <= issued
  /\ \A n \in lapsed : n # 0 /\ n <= issued

\* A token belongs to one task, is stored under one key, and never comes back
\* once its key has run out.
UniqueTokens ==
  /\ \A t, u \in Tasks : token[t] = token[u] /\ token[t] # 0 => t = u
  /\ \A j, k \in Keys : lock[j] = lock[k] /\ lock[j] # 0 => j = k
  /\ \A t \in Tasks, k \in Keys :
       token[t] # 0 /\ lock[k] = token[t] => k = key[t]
  /\ \A k \in Keys : lock[k] \notin lapsed

\* What the phase of a task says of its lease and its watcher.
LeaseShape ==
  \A t \in Tasks :
    /\ tracked[t] <=> watcher[t] # "off"
    /\ tracked[t] => pc[t] \notin {"idle", "granted"}
    /\ pc[t] = "idle" => token[t] = 0 /\ key[t] = NoKey
    /\ pc[t] # "idle" => token[t] # 0 /\ key[t] \in Keys
    /\ watcher[t] = "cleanup" => cancelling[t]
    /\ pc[t] \in Running /\ ~tracked[t] => cancelling[t] \/ ~worker[t]

\* LeaseMeansLock, from the moment the script granted the lock.
OwnsUntilLapse ==
  \A t \in Tasks :
    /\ tracked[t] \/ pc[t] = "granted"
    /\ token[t] \notin lapsed
    => lock[key[t]] = token[t]

Inv == TypeOK /\ IssuedTokens /\ UniqueTokens /\ LeaseShape /\ OwnsUntilLapse

LEMMA InitInv == Init => Inv
<1> SUFFICES ASSUME Init PROVE Inv
  OBVIOUS
<1>1. TypeOK
  <2>1. issued \in 0 .. MaxTokens /\ lapsed = {} BY KeysAssumption DEF Init
  <2>2. QED BY <2>1 DEF Init, TypeOK, Phases
<1>2. IssuedTokens BY DEF Init, IssuedTokens
<1>3. UniqueTokens BY DEF Init, UniqueTokens
<1>4. LeaseShape BY DEF Init, LeaseShape, Running
<1>5. OwnsUntilLapse BY DEF Init, OwnsUntilLapse
<1>6. QED BY <1>1, <1>2, <1>3, <1>4, <1>5 DEF Inv

LEMMA TypeStep == TypeOK /\ LeaseShape /\ [Next]_vars => TypeOK'
<1> SUFFICES ASSUME TypeOK, LeaseShape, [Next]_vars PROVE TypeOK'
  OBVIOUS
<1> USE KeysAssumption DEF TypeOK, Phases, redis
<1>1. ASSUME NEW k \in Keys, Age(k) \/ Expire(k) PROVE TypeOK'
  <2>1. CASE Age(k) BY <2>1 DEF Age
  <2>2. CASE Expire(k) BY <2>2 DEF Expire
  <2>3. QED BY <1>1, <2>1, <2>2
<1>2. ASSUME NEW t \in Tasks, NEW k \in Keys, Acquire(t, k) PROVE TypeOK'
  BY <1>2 DEF Acquire
<1>3. ASSUME NEW t \in Tasks, Operation(t) PROVE TypeOK'
  <2>1. CASE Track(t) BY <2>1 DEF Track
  <2>2. CASE Submit(t) BY <2>2 DEF Submit, Verified
  <2>3. CASE ClearSubmission(t) BY <2>3 DEF ClearSubmission, Verified
  <2>4. CASE RefuseSubmission(t) BY <2>4 DEF RefuseSubmission
  <2>5. CASE Send(t) BY <2>5 DEF Send
  <2>6. CASE Answered(t) BY <2>6 DEF Answered
  <2>7. CASE Finish(t) BY <2>7 DEF Finish
  <2>8. CASE Interrupted(t) BY <2>8 DEF Interrupted
  <2>9. CASE Release(t)
    BY <2>9 DEF Release, LockAfterRelease, LapsedAfterRelease
  <2>10. CASE Forget(t) BY <2>10 DEF Forget
  <2>11. QED BY <1>3, <2>1, <2>2, <2>3, <2>4, <2>5, <2>6, <2>7, <2>8, <2>9, <2>10
            DEF Operation
<1>4. ASSUME NEW t \in Tasks, Watch(t) PROVE TypeOK'
  <2>1. CASE Renew(t) BY <2>1 DEF Renew
  <2>2. CASE RenewFails(t) BY <2>2 DEF RenewFails
  <2>3. CASE LossHandled(t) BY <2>3 DEF LossHandled
  <2>4. CASE Cleanup(t)
    BY <2>4 DEF Cleanup, LockAfterRelease, LapsedAfterRelease
  <2>5. QED BY <1>4, <2>1, <2>2, <2>3, <2>4 DEF Watch
<1>5. ASSUME NEW t \in Tasks, Cancel(t) \/ Crash(t) \/ StopWorker(t) \/ CloseLeases(t)
      PROVE TypeOK'
  <2>1. CASE Cancel(t) BY <2>1 DEF Cancel
  <2>2. CASE Crash(t) BY <2>2 DEF Crash
  <2>3. CASE StopWorker(t) BY <2>3 DEF StopWorker
  <2>4. CASE CloseLeases(t)
    BY <2>4 DEF CloseLeases, LockAfterRelease, LapsedAfterRelease
  <2>5. QED BY <1>5, <2>1, <2>2, <2>3, <2>4
<1>6. CASE ClearKill BY <1>6 DEF ClearKill
<1>7. CASE UNCHANGED vars BY <1>7 DEF vars
<1>8. QED BY <1>1, <1>2, <1>3, <1>4, <1>5, <1>6, <1>7 DEF Next
-----------------------------------------------------------------------------
(* Whatever the program does, the tokens in Redis and in the tasks change  *)
(* in one of five ways.                                                    *)
Grant(t, k) ==
  /\ lock[k] = 0 /\ token[t] = 0
  /\ issued' = issued + 1
  /\ lock' = [lock EXCEPT ![k] = issued + 1]
  /\ token' = [token EXCEPT ![t] = issued + 1]
  /\ key' = [key EXCEPT ![t] = k]
  /\ lapsed' = lapsed

RunOut(k) ==
  /\ lock[k] # 0
  /\ lock' = [lock EXCEPT ![k] = 0]
  /\ lapsed' = lapsed \cup {lock[k]}
  /\ UNCHANGED <<issued, token, key>>

FreedBy(t) ==
  /\ key[t] # NoKey /\ Owns(t)
  /\ lock' = [lock EXCEPT ![key[t]] = 0]
  /\ lapsed' = lapsed \cup {token[t]}
  /\ UNCHANGED <<issued, token, key>>

Dropped(t) ==
  /\ token' = [token EXCEPT ![t] = 0]
  /\ key' = [key EXCEPT ![t] = NoKey]
  /\ UNCHANGED <<lock, issued, lapsed>>

Unmoved == UNCHANGED <<lock, issued, lapsed, token, key>>

LEMMA TokenMoves ==
  ASSUME TypeOK, LeaseShape, [Next]_vars
  PROVE  \/ \E t \in Tasks, k \in Keys : Grant(t, k)
         \/ \E k \in Keys : RunOut(k)
         \/ \E t \in Tasks : FreedBy(t) \/ Dropped(t)
         \/ Unmoved
<1> DEFINE Moves ==
      \/ \E t \in Tasks, k \in Keys : Grant(t, k)
      \/ \E k \in Keys : RunOut(k)
      \/ \E t \in Tasks : FreedBy(t) \/ Dropped(t)
      \/ Unmoved
<1>1. ASSUME NEW k \in Keys, Age(k) \/ Expire(k) PROVE Moves
  BY <1>1 DEF Age, Expire, RunOut, Unmoved
<1>2. ASSUME NEW t \in Tasks, NEW k \in Keys, Acquire(t, k) PROVE Moves
  <2>1. Grant(t, k) BY <1>2 DEF Acquire, MayLock, LeaseShape, Grant
  <2>2. QED BY <2>1
<1>3. ASSUME NEW t \in Tasks,
             \/ lock' = LockAfterRelease(t) /\ lapsed' = LapsedAfterRelease(t)
             \/ UNCHANGED <<lock, lapsed>>,
             UNCHANGED <<issued, token, key>>
      PROVE Moves
  <2>1. FreedBy(t) \/ Unmoved
    BY <1>3 DEF LockAfterRelease, LapsedAfterRelease, FreedBy, Unmoved
  <2>2. QED BY <2>1
<1>4. ASSUME NEW t \in Tasks, Release(t) \/ Cleanup(t) \/ CloseLeases(t) PROVE Moves
  BY <1>3, <1>4 DEF Release, Cleanup, CloseLeases
<1>5. ASSUME NEW t \in Tasks, Forget(t) \/ Crash(t) PROVE Moves
  BY <1>5 DEF Forget, Crash, Dropped, redis
<1>6. ASSUME NEW t \in Tasks,
             \/ Track(t) \/ Submit(t) \/ ClearSubmission(t) \/ RefuseSubmission(t)
             \/ Send(t) \/ Answered(t) \/ Finish(t) \/ Interrupted(t)
             \/ Renew(t) \/ RenewFails(t) \/ LossHandled(t) \/ Cancel(t) \/ StopWorker(t)
      PROVE Moves
  <2>1. Unmoved
    BY <1>6 DEF Track, Submit, ClearSubmission, RefuseSubmission, Send, Answered,
         Finish, Interrupted, Renew, RenewFails, LossHandled, Cancel, StopWorker,
         Unmoved, redis
  <2>2. QED BY <2>1
<1>7. CASE ClearKill \/ UNCHANGED vars BY <1>7 DEF ClearKill, vars, Unmoved
<1>8. QED
  BY <1>1, <1>2, <1>4, <1>5, <1>6, <1>7 DEF Next, Operation, Watch

LEMMA IssuedStep == Inv /\ [Next]_vars => IssuedTokens'
<1> SUFFICES ASSUME Inv, [Next]_vars PROVE IssuedTokens'
  OBVIOUS
<1> USE DEF Inv, TypeOK, IssuedTokens
<1>1. ASSUME NEW t \in Tasks, NEW k \in Keys, Grant(t, k) PROVE IssuedTokens'
  BY <1>1 DEF Grant
<1>2. ASSUME NEW k \in Keys, RunOut(k) PROVE IssuedTokens'
  BY <1>2 DEF RunOut
<1>3. ASSUME NEW t \in Tasks, FreedBy(t) PROVE IssuedTokens'
  BY <1>3 DEF FreedBy, Owns, LeaseShape
<1>4. ASSUME NEW t \in Tasks, Dropped(t) PROVE IssuedTokens'
  BY <1>4 DEF Dropped
<1>5. CASE Unmoved BY <1>5 DEF Unmoved
<1>6. QED BY <1>1, <1>2, <1>3, <1>4, <1>5, TokenMoves

LEMMA UniqueStep == Inv /\ [Next]_vars => UniqueTokens'
<1> SUFFICES ASSUME Inv, [Next]_vars PROVE UniqueTokens'
  OBVIOUS
<1> USE DEF Inv, TypeOK, IssuedTokens, UniqueTokens
<1>1. ASSUME NEW t \in Tasks, NEW k \in Keys, Grant(t, k) PROVE UniqueTokens'
  BY <1>1 DEF Grant
<1>2. ASSUME NEW k \in Keys, RunOut(k) PROVE UniqueTokens'
  BY <1>2 DEF RunOut
<1>3. ASSUME NEW t \in Tasks, FreedBy(t) PROVE UniqueTokens'
  BY <1>3 DEF FreedBy, Owns, LeaseShape
<1>4. ASSUME NEW t \in Tasks, Dropped(t) PROVE UniqueTokens'
  BY <1>4 DEF Dropped
<1>5. CASE Unmoved BY <1>5 DEF Unmoved
<1>6. QED BY <1>1, <1>2, <1>3, <1>4, <1>5, TokenMoves

LEMMA ShapeStep == Inv /\ [Next]_vars => LeaseShape'
<1> SUFFICES ASSUME Inv, [Next]_vars PROVE LeaseShape'
  OBVIOUS
<1> USE DEF Inv, TypeOK, Phases, LeaseShape, Running, redis, OwnerDone, EnginesClosed
<1>1. ASSUME NEW k \in Keys, Age(k) \/ Expire(k) PROVE LeaseShape'
  BY <1>1 DEF Age, Expire
<1>2. ASSUME NEW t \in Tasks, NEW k \in Keys, Acquire(t, k) PROVE LeaseShape'
  BY <1>2 DEF Acquire
<1>3. ASSUME NEW t \in Tasks, Operation(t) PROVE LeaseShape'
  <2>1. CASE Track(t) BY <2>1 DEF Track
  <2>2. CASE Submit(t) \/ ClearSubmission(t)
    BY <2>2 DEF Submit, ClearSubmission, Verified
  <2>3. CASE RefuseSubmission(t) BY <2>3 DEF RefuseSubmission
  <2>4. CASE Send(t) \/ Answered(t) \/ Finish(t) BY <2>4 DEF Send, Answered, Finish
  <2>5. CASE Interrupted(t) BY <2>5 DEF Interrupted
  <2>6. CASE Release(t) BY <2>6 DEF Release
  <2>7. CASE Forget(t) BY <2>7 DEF Forget
  <2>8. QED BY <1>3, <2>1, <2>2, <2>3, <2>4, <2>5, <2>6, <2>7 DEF Operation
<1>4. ASSUME NEW t \in Tasks, Watch(t) PROVE LeaseShape'
  <2>1. CASE Renew(t) \/ RenewFails(t) BY <2>1 DEF Renew, RenewFails
  <2>2. CASE LossHandled(t) BY <2>2 DEF LossHandled
  <2>3. CASE Cleanup(t) BY <2>3 DEF Cleanup
  <2>4. QED BY <1>4, <2>1, <2>2, <2>3 DEF Watch
<1>5. ASSUME NEW t \in Tasks, Cancel(t) \/ Crash(t) \/ StopWorker(t) \/ CloseLeases(t)
      PROVE LeaseShape'
  <2>1. CASE Cancel(t) BY <2>1 DEF Cancel
  <2>2. CASE Crash(t) BY <2>2 DEF Crash
  <2>3. CASE StopWorker(t) BY <2>3 DEF StopWorker
  <2>4. CASE CloseLeases(t) BY <2>4 DEF CloseLeases
  <2>5. QED BY <1>5, <2>1, <2>2, <2>3, <2>4
<1>6. CASE ClearKill \/ UNCHANGED vars BY <1>6 DEF ClearKill, vars
<1>7. QED BY <1>1, <1>2, <1>3, <1>4, <1>5, <1>6 DEF Next

\* A lease comes into being with its token, and ends before the token does.
LEMMA LeaseOrigin ==
  ASSUME Inv, [Next]_vars, NEW t \in Tasks, tracked'[t] \/ pc'[t] = "granted"
  PROVE  \/ /\ tracked[t] \/ pc[t] = "granted"
            /\ token'[t] = token[t] /\ key'[t] = key[t]
         \/ \E k \in Keys : Grant(t, k)
<1> DEFINE Kept == /\ tracked[t] \/ pc[t] = "granted"
                   /\ token'[t] = token[t] /\ key'[t] = key[t]
           Goal == Kept \/ \E k \in Keys : Grant(t, k)
<1> USE DEF Inv, TypeOK, Phases, LeaseShape, redis
<1>1. ASSUME NEW k \in Keys, Age(k) \/ Expire(k) PROVE Goal
  BY <1>1 DEF Age, Expire
<1>2. ASSUME NEW u \in Tasks, NEW k \in Keys, Acquire(u, k) PROVE Goal
  <2>1. CASE u = t
    <3>1. Grant(t, k) BY <1>2, <2>1 DEF Acquire, MayLock, Grant
    <3>2. QED BY <3>1
  <2>2. CASE u # t
    <3>1. Kept BY <1>2, <2>2 DEF Acquire
    <3>2. QED BY <3>1
  <2>3. QED BY <2>1, <2>2
<1>3. ASSUME NEW u \in Tasks, Operation(u) PROVE Goal
  <2>1. CASE Track(u) \/ Submit(u) \/ ClearSubmission(u) \/ RefuseSubmission(u)
    BY <2>1 DEF Track, Submit, ClearSubmission, RefuseSubmission
  <2>2. CASE Send(u) \/ Answered(u) \/ Finish(u) \/ Interrupted(u)
    BY <2>2 DEF Send, Answered, Finish, Interrupted
  <2>3. CASE Release(u) \/ Forget(u) BY <2>3 DEF Release, Forget
  <2>4. QED BY <1>3, <2>1, <2>2, <2>3 DEF Operation
<1>4. ASSUME NEW u \in Tasks, Watch(u) PROVE Goal
  BY <1>4 DEF Watch, Renew, RenewFails, LossHandled, Cleanup
<1>5. ASSUME NEW u \in Tasks, Cancel(u) \/ Crash(u) \/ StopWorker(u) \/ CloseLeases(u)
      PROVE Goal
  BY <1>5 DEF Cancel, Crash, StopWorker, CloseLeases
<1>6. CASE ClearKill \/ UNCHANGED vars BY <1>6 DEF ClearKill, vars
<1>7. QED BY <1>1, <1>2, <1>3, <1>4, <1>5, <1>6 DEF Next

LEMMA OwnsStep == Inv /\ [Next]_vars => OwnsUntilLapse'
<1> SUFFICES ASSUME Inv, [Next]_vars, NEW t \in Tasks,
                    tracked'[t] \/ pc'[t] = "granted", token'[t] \notin lapsed'
             PROVE  lock'[key'[t]] = token'[t]
  BY DEF OwnsUntilLapse
<1> USE DEF Inv, TypeOK, IssuedTokens, UniqueTokens
<1>1. ASSUME NEW k \in Keys, Grant(t, k) PROVE lock'[key'[t]] = token'[t]
  BY <1>1 DEF Grant
<1>2. CASE /\ tracked[t] \/ pc[t] = "granted"
           /\ token'[t] = token[t] /\ key'[t] = key[t]
  <2>1. token[t] # 0 /\ key[t] \in Keys BY <1>2 DEF LeaseShape
  <2>2. ASSUME NEW u \in Tasks, NEW k \in Keys, Grant(u, k)
        PROVE lock'[key[t]] = token[t]
    BY <1>2, <2>1, <2>2 DEF Grant, OwnsUntilLapse
  <2>3. ASSUME NEW k \in Keys, RunOut(k) PROVE lock'[key[t]] = token[t]
    BY <1>2, <2>1, <2>3 DEF RunOut, OwnsUntilLapse
  <2>4. ASSUME NEW u \in Tasks, FreedBy(u) PROVE lock'[key[t]] = token[t]
    BY <1>2, <2>1, <2>4 DEF FreedBy, Owns, OwnsUntilLapse, LeaseShape
  <2>5. ASSUME NEW u \in Tasks, Dropped(u) PROVE lock'[key[t]] = token[t]
    BY <1>2, <2>1, <2>5 DEF Dropped, OwnsUntilLapse
  <2>6. CASE Unmoved BY <1>2, <2>6 DEF Unmoved, OwnsUntilLapse
  <2>7. QED BY <1>2, <2>2, <2>3, <2>4, <2>5, <2>6, TokenMoves
<1>3. QED BY <1>1, <1>2, LeaseOrigin

\* The invariant of the lock protocol.
THEOREM Invariance == Spec => []Inv
<1>1. Inv /\ [Next]_vars => Inv'
  BY TypeStep, IssuedStep, UniqueStep, ShapeStep, OwnsStep DEF Inv
<1>2. QED BY InitInv, <1>1, PTL DEF Spec
-----------------------------------------------------------------------------
\* Every variable keeps its type, for every set of tasks and keys.
THEOREM TypeCorrect == Spec => []TypeOK
<1>1. Inv => TypeOK BY DEF Inv
<1>2. QED BY Invariance, <1>1, PTL

\* order_locks.py never takes a lock away from a registered owner: as long as
\* the TTL has not run down, the key holds the token of the lease.
THEOREM LeaseOwnsItsKey == Spec => []LeaseMeansLock
<1>1. Inv => LeaseMeansLock BY DEF Inv, OwnsUntilLapse, LeaseMeansLock
<1>2. QED BY Invariance, <1>1, PTL

\* At most one operation with a live lease is past the guard for a key.
THEOREM MutualExclusion == Spec => []OneLiveSubmitter
<1>1. ASSUME Inv PROVE OneLiveSubmitter
  <2> SUFFICES ASSUME NEW t \in Tasks, NEW u \in Tasks, t # u, key[t] = key[u],
                      tracked[t], tracked[u],
                      token[t] \notin lapsed, token[u] \notin lapsed
               PROVE  FALSE
    BY DEF OneLiveSubmitter
  <2>1. lock[key[t]] = token[t] /\ lock[key[u]] = token[u]
    BY <1>1 DEF Inv, OwnsUntilLapse
  <2>2. token[t] = token[u] /\ token[t] # 0
    BY <1>1, <2>1 DEF Inv, LeaseShape
  <2>3. QED BY <1>1, <2>2 DEF Inv, UniqueTokens
<1>2. QED BY Invariance, <1>1, PTL

\* The guard in OrderWorker never passes for a lease that has run out.
THEOREM StaleOwnersAreFenced == Spec => NoStaleSubmission
<1> DEFINE A == \A t \in Tasks :
                  pc[t] = "queued" /\ pc'[t] = "cleared" => token[t] \notin lapsed
<1>1. ASSUME Inv, Next, NEW t \in Tasks, pc[t] = "queued", pc'[t] = "cleared"
      PROVE  token[t] \notin lapsed
  <2> USE DEF Inv, TypeOK, Phases
  <2>1. ASSUME ClearSubmission(t) PROVE token[t] \notin lapsed
    <3>1. worker[t] /\ ~cancelling[t] /\ (tracked[t] => lock[key[t]] = token[t])
      BY <2>1 DEF ClearSubmission, Verified, Owns
    <3>2. tracked[t] BY <1>1, <3>1 DEF LeaseShape, Running
    <3>3. key[t] \in Keys /\ lock[key[t]] = token[t]
      BY <1>1, <3>1, <3>2 DEF LeaseShape
    <3>4. QED BY <1>1, <3>3 DEF UniqueTokens
  <2>2. ASSUME NEW k \in Keys, Age(k) \/ Expire(k) PROVE FALSE
    BY <1>1, <2>2 DEF Age, Expire
  <2>3. ASSUME NEW u \in Tasks, NEW k \in Keys, Acquire(u, k) PROVE FALSE
    BY <1>1, <2>3 DEF Acquire
  <2>4. ASSUME NEW u \in Tasks, Operation(u), ~ClearSubmission(t) PROVE FALSE
    <3>1. CASE Track(u) \/ Submit(u) \/ RefuseSubmission(u)
      BY <1>1, <3>1 DEF Track, Submit, RefuseSubmission
    <3>2. CASE ClearSubmission(u) /\ u # t BY <1>1, <3>2 DEF ClearSubmission
    <3>3. CASE Send(u) \/ Answered(u) \/ Finish(u) \/ Interrupted(u)
      BY <1>1, <3>3 DEF Send, Answered, Finish, Interrupted
    <3>4. CASE Release(u) \/ Forget(u) BY <1>1, <3>4 DEF Release, Forget
    <3>5. QED BY <2>4, <3>1, <3>2, <3>3, <3>4 DEF Operation
  <2>5. ASSUME NEW u \in Tasks, Watch(u) PROVE FALSE
    BY <1>1, <2>5 DEF Watch, Renew, RenewFails, LossHandled, Cleanup
  <2>6. ASSUME NEW u \in Tasks, Cancel(u) \/ Crash(u) \/ StopWorker(u) \/ CloseLeases(u)
        PROVE FALSE
    BY <1>1, <2>6 DEF Cancel, Crash, StopWorker, CloseLeases
  <2>7. CASE ClearKill BY <1>1, <2>7 DEF ClearKill
  <2>8. QED BY <1>1, <2>1, <2>2, <2>3, <2>4, <2>5, <2>6, <2>7 DEF Next
<1>2. Inv /\ [Next]_vars => [A]_vars
  BY <1>1
<1>3. QED BY Invariance, <1>2, PTL DEF Spec, NoStaleSubmission

\* A key changes hands only through its TTL or by its own operation's end.
THEOREM KeysFreedByOwners == Spec => FreedByItsOwner
<1> DEFINE Over(k) ==
      \/ ~fresh[k]
      \/ \E t \in Tasks :
           /\ token[t] = lock[k]
           /\ pc[t] \in {"unwinding", "ended"} \/ cancelling[t] \/ ~worker[t]
    A == \A k \in Keys : lock[k] # 0 /\ lock'[k] # lock[k] => Over(k)
<1>1. ASSUME Inv, Next, NEW k \in Keys, lock[k] # 0, lock'[k] # lock[k]
      PROVE  Over(k)
  <2> USE DEF Inv, TypeOK, redis
  <2>1. ASSUME NEW j \in Keys, Age(j) \/ Expire(j) PROVE Over(k)
    BY <1>1, <2>1 DEF Age, Expire
  <2>2. ASSUME NEW t \in Tasks, NEW j \in Keys, Acquire(t, j) PROVE FALSE
    BY <1>1, <2>2 DEF Acquire, MayLock
  <2>3. ASSUME NEW t \in Tasks, Release(t) \/ Cleanup(t) \/ CloseLeases(t)
        PROVE Over(k)
    <3>1. lock' = LockAfterRelease(t)
      BY <1>1, <2>3 DEF Release, Cleanup, CloseLeases
    <3>2. token[t] = lock[k]
      BY <1>1, <3>1 DEF LockAfterRelease, Owns
    <3>3. pc[t] \in {"unwinding", "ended"} \/ cancelling[t] \/ ~worker[t]
      BY <1>1, <2>3 DEF Release, Cleanup, CloseLeases, LeaseShape, OwnerDone,
           EnginesClosed
    <3>4. QED BY <3>2, <3>3
  <2>4. ASSUME NEW t \in Tasks, Operation(t), ~Release(t) PROVE FALSE
    BY <1>1, <2>4 DEF Operation, Track, Submit, ClearSubmission, RefuseSubmission,
         Send, Answered, Finish, Interrupted, Forget
  <2>5. ASSUME NEW t \in Tasks, Watch(t), ~Cleanup(t) PROVE FALSE
    BY <1>1, <2>5 DEF Watch, Renew, RenewFails, LossHandled
  <2>6. ASSUME NEW t \in Tasks, Cancel(t) \/ Crash(t) \/ StopWorker(t) PROVE FALSE
    BY <1>1, <2>6 DEF Cancel, Crash, StopWorker
  <2>7. CASE ClearKill BY <1>1, <2>7 DEF ClearKill
  <2>8. QED BY <1>1, <2>1, <2>2, <2>3, <2>4, <2>5, <2>6, <2>7 DEF Next
<1>2. Inv /\ [Next]_vars => [A]_vars
  BY <1>1
<1>3. QED BY Invariance, <1>2, PTL DEF Spec, FreedByItsOwner
=============================================================================
