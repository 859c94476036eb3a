------------------------------ MODULE OrderLock ------------------------------
(***************************************************************************)
(* The leased per-symbol operation locks of app/order_locks.py over the    *)
(* Redis scripts of app/redis_store.py, together with the step they        *)
(* protect: a broker submission through TradeEngine's OrderWorker.         *)
(*                                                                         *)
(* A Redis key holds the unique token of the operation that acquired it    *)
(* and has a time to live.  The operation is an asyncio task; next to it   *)
(* runs a watcher task that renews the key every third of its TTL and, if  *)
(* a renewal fails, enables the kill switch and cancels the operation.     *)
(* Because a stalled event loop can let the key expire before the watcher  *)
(* runs, ownership is checked (and renewed) again right before each        *)
(* submission, once by the operation and once by the worker that sends.    *)
(*                                                                         *)
(* Each task is its own process: the tasks share Redis and nothing else,   *)
(* which is the weakest setting the locks are used in.                     *)
(***************************************************************************)
EXTENDS Naturals

CONSTANTS
  Tasks,       \* operations that may run at the same time
  Keys,        \* lock keys lock:uid:<u>:sym:<s>:act:<a>
  EntryKeys,   \* the keys whose action is not "exit"
  NoKey,       \* no key: the task holds nothing
  MaxTokens    \* bound on the operations ever started

ASSUME KeysAssumption ==
  /\ EntryKeys \subseteq Keys
  /\ NoKey \notin Keys
  /\ MaxTokens \in Nat

VARIABLES
  lock,        \* Redis: the token stored under a key, 0 when the key is gone
  fresh,       \* Redis: FALSE once the TTL has run down, the key may vanish
  kill,        \* Redis: the user's kill switch
  issued,      \* tokens handed out so far (uuid4: never the same twice)
  pc,          \* where the operation's coroutine is
  key, token,  \* the key and token of the operation
  tracked,     \* the lease is in OrderLockLeases.active
  watcher,     \* where the watcher task is
  cancelling,  \* the operation task has a pending or delivered cancel()
  worker,      \* the process's OrderWorker is running
  lapsed       \* history: tokens whose key expired or was freed

vars == <<lock, fresh, kill, issued, pc, key, token, tracked, watcher,
          cancelling, worker, lapsed>>

redis == <<lock, fresh, kill, issued, lapsed>>
Tokens == 1 .. MaxTokens

(* idle: no task.  granted: the lock script ran, its reply is not yet      *)
(* handled.  work: running under the lock.  queued: in OrderWorker.q.      *)
(* cleared: the worker's guard passed.  sent: the broker call runs in a    *)
(* thread.  unwinding: in the finally block that releases.  ended: the     *)
(* coroutine finished without releasing.                                   *)
Phases == {"idle", "granted", "work", "queued", "cleared", "sent",
           "unwinding", "ended"}

Init ==
  /\ lock = [k \in Keys |-> 0]
  /\ fresh = [k \in Keys |-> FALSE]
  /\ kill = FALSE
  /\ issued = 0
  /\ pc = [t \in Tasks |-> "idle"]
  /\ key = [t \in Tasks |-> NoKey]
  /\ token = [t \in Tasks |-> 0]
  /\ tracked = [t \in Tasks |-> FALSE]
  /\ watcher = [t \in Tasks |-> "off"]
  /\ cancelling = [t \in Tasks |-> FALSE]
  /\ worker = [t \in Tasks |-> TRUE]
  /\ lapsed = {}

-----------------------------------------------------------------------------
(* Redis.                                                                  *)

\* The lock script: a kill switch bars every action but "exit", an existing
\* key is busy, otherwise the key is set with the token and the full TTL.
MayLock(k) == (k \in EntryKeys => ~kill) /\ lock[k] = 0

\* Mutant: any token stored under the key is taken for one's own.
OwnsAny(t) == lock[key[t]] # 0

\* The renewal script: the TTL is extended only for the token's owner.
Owns(t) == lock[key[t]] = token[t]

\* The release script: the key is deleted only if it still holds the token.
LockAfterRelease(t) ==
  IF key[t] # NoKey /\ Owns(t) THEN [lock EXCEPT ![key[t]] = 0] ELSE lock
LapsedAfterRelease(t) ==
  IF key[t] # NoKey /\ Owns(t) THEN lapsed \cup {token[t]} ELSE lapsed

\* The TTL runs down and then Redis drops the key.
Age(k) ==
  /\ lock[k] # 0 /\ fresh[k]
  /\ fresh' = [fresh EXCEPT ![k] = FALSE]
  /\ UNCHANGED <<lock, kill, issued, pc, key, token, tracked, watcher,
                 cancelling, worker, lapsed>>

Expire(k) ==
  /\ lock[k] # 0 /\ ~fresh[k]
  /\ lock' = [lock EXCEPT ![k] = 0]
  /\ lapsed' = lapsed \cup {lock[k]}
  /\ UNCHANGED <<fresh, kill, issued, pc, key, token, tracked, watcher,
                 cancelling, worker>>

\* The operator resets the kill switch (/api/kill).
ClearKill ==
  /\ kill
  /\ kill' = FALSE
  /\ UNCHANGED <<lock, fresh, issued, pc, key, token, tracked, watcher,
                 cancelling, worker, lapsed>>
-----------------------------------------------------------------------------
(* The operation's coroutine.                                              *)

\* acquire_lock: the script runs in Redis; the reply travels back.
Acquire(t, k) ==
  /\ pc[t] = "idle"
  /\ MayLock(k)
  /\ issued < MaxTokens
  /\ issued' = issued + 1
  /\ lock' = [lock EXCEPT ![k] = issued + 1]
  /\ fresh' = [fresh EXCEPT ![k] = TRUE]
  /\ pc' = [pc EXCEPT ![t] = "granted"]
  /\ key' = [key EXCEPT ![t] = k]
  /\ token' = [token EXCEPT ![t] = issued + 1]
  /\ cancelling' = [cancelling EXCEPT ![t] = FALSE]
  /\ UNCHANGED <<kill, tracked, watcher, worker, lapsed>>

\* track: registers the lease and starts the watcher.
Track(t) ==
  /\ pc[t] = "granted" /\ ~cancelling[t]
  /\ pc' = [pc EXCEPT ![t] = "work"]
  /\ tracked' = [tracked EXCEPT ![t] = TRUE]
  /\ watcher' = [watcher EXCEPT ![t] = "waiting"]
  /\ UNCHANGED <<redis, key, token, cancelling, worker>>

\* verify_current succeeds: the owner is not being cancelled and its lease,
\* if it has one, was renewed.
Verified(t) ==
  /\ ~cancelling[t]
  /\ tracked[t] => Owns(t)
  /\ fresh' = IF tracked[t] THEN [fresh EXCEPT ![key[t]] = TRUE] ELSE fresh

\* _place_order verifies the lease and puts the request into OrderWorker.q.
Submit(t) ==
  /\ pc[t] = "work"
  /\ Verified(t)
  /\ pc' = [pc EXCEPT ![t] = "queued"]
  /\ UNCHANGED <<lock, kill, issued, key, token, tracked, watcher,
                 cancelling, worker, lapsed>>

\* OrderWorker._run takes the request and its guard passes.
ClearSubmission(t) ==
  /\ pc[t] = "queued" /\ worker[t]
  /\ Verified(t)
  /\ pc' = [pc EXCEPT ![t] = "cleared"]
  /\ UNCHANGED <<lock, kill, issued, key, token, tracked, watcher,
                 cancelling, worker, lapsed>>

\* verify_current finds the lease gone or cannot renew it: on_loss enables
\* the kill switch (which can fail too) and the operation gets OrderLockLost.
RefuseSubmission(t) ==
  /\ \/ pc[t] = "work"
     \/ pc[t] = "queued" /\ worker[t]
  /\ \/ cancelling[t] /\ kill' = kill
     \/ ~cancelling[t] /\ tracked[t] /\ kill' \in {TRUE, kill}
  /\ pc' = [pc EXCEPT ![t] = "unwinding"]
  /\ UNCHANGED <<lock, fresh, issued, lapsed, key, token, tracked, watcher,
                 cancelling, worker>>

\* The future was not cancelled while the guard ran: the call starts.
Send(t) ==
  /\ pc[t] = "cleared" /\ ~cancelling[t]
  /\ pc' = [pc EXCEPT ![t] = "sent"]
  /\ UNCHANGED <<redis, key, token, tracked, watcher, cancelling, worker>>

\* The broker answered; the operation goes on to the next placement or retry.
Answered(t) ==
  /\ pc[t] = "sent" /\ ~cancelling[t]
  /\ pc' = [pc EXCEPT ![t] = "work"]
  /\ UNCHANGED <<redis, key, token, tracked, watcher, cancelling, worker>>

\* The operation is done and enters its finally block, or the coroutine ends
\* without releasing.
Finish(t) ==
  /\ pc[t] = "work"
  /\ \E p \in {"unwinding", "ended"} : pc' = [pc EXCEPT ![t] = p]
  /\ UNCHANGED <<redis, key, token, tracked, watcher, cancelling, worker>>

\* Somebody cancels the operation (job timeout, service shutdown).
Cancel(t) ==
  /\ pc[t] \notin {"idle", "ended"} /\ ~cancelling[t]
  /\ cancelling' = [cancelling EXCEPT ![t] = TRUE]
  /\ UNCHANGED <<redis, pc, key, token, tracked, watcher, worker>>

\* CancelledError is delivered.  Before track() ran nobody knows the token:
\* the key stays behind for its TTL.  Otherwise finally runs; the future of a
\* queued request is cancelled and the worker drops it, a running thread goes
\* on.
Interrupted(t) ==
  /\ cancelling[t]
  /\ \/ /\ pc[t] = "granted"
        /\ pc' = [pc EXCEPT ![t] = "ended"]
     \/ /\ pc[t] \in {"work", "queued", "cleared", "sent"}
        /\ pc' = [pc EXCEPT ![t] = "unwinding"]
  /\ UNCHANGED <<redis, key, token, tracked, watcher, cancelling, worker>>

\* release: stops the watcher, drops the lease and deletes the key if it is
\* still ours.  A watcher stopped inside on_loss still cancels its owner.
\* The delete can fail, and then the key stays for its TTL.
Release(t) ==
  /\ pc[t] = "unwinding"
  /\ pc' = [pc EXCEPT ![t] = "ended"]
  /\ tracked' = [tracked EXCEPT ![t] = FALSE]
  /\ watcher' = [watcher EXCEPT ![t] = "off"]
  /\ cancelling' = [cancelling EXCEPT ![t] = @ \/ watcher[t] = "lost"]
  /\ \/ tracked[t] /\ lock' = LockAfterRelease(t) /\ lapsed' = LapsedAfterRelease(t)
     \/ UNCHANGED <<lock, lapsed>>
  /\ UNCHANGED <<fresh, kill, issued, key, token, worker>>

\* The finished task is forgotten; its slot can run another operation.
Forget(t) ==
  /\ pc[t] = "ended" /\ watcher[t] = "off"
  /\ pc' = [pc EXCEPT ![t] = "idle"]
  /\ key' = [key EXCEPT ![t] = NoKey]
  /\ token' = [token EXCEPT ![t] = 0]
  /\ cancelling' = [cancelling EXCEPT ![t] = FALSE]
  /\ UNCHANGED <<redis, tracked, watcher, worker>>

\* The process dies: the coroutine, its lease and watcher are gone.
Crash(t) ==
  /\ pc[t] # "idle" \/ ~worker[t]
  /\ pc' = [pc EXCEPT ![t] = "idle"]
  /\ key' = [key EXCEPT ![t] = NoKey]
  /\ token' = [token EXCEPT ![t] = 0]
  /\ tracked' = [tracked EXCEPT ![t] = FALSE]
  /\ watcher' = [watcher EXCEPT ![t] = "off"]
  /\ cancelling' = [cancelling EXCEPT ![t] = FALSE]
  /\ worker' = [worker EXCEPT ![t] = TRUE]
  /\ UNCHANGED redis
-----------------------------------------------------------------------------
(* The watcher task started by track.                                      *)

\* Mutant: the watcher does not look at owner.done().
OwnerNeverDone(t) == FALSE

\* owner.done(), the condition of the watcher's loop.
OwnerDone(t) == pc[t] = "ended"

\* A renewal every ttl/3 while the owner runs.
Renew(t) ==
  /\ watcher[t] = "waiting" /\ ~OwnerDone(t)
  /\ Owns(t)
  /\ fresh' = [fresh EXCEPT ![key[t]] = TRUE]
  /\ UNCHANGED <<lock, kill, issued, pc, key, token, tracked, watcher,
                 cancelling, worker, lapsed>>

\* The renewal returned 0 or raised.
RenewFails(t) ==
  /\ watcher[t] = "waiting" /\ ~OwnerDone(t)
  /\ watcher' = [watcher EXCEPT ![t] = "lost"]
  /\ UNCHANGED <<redis, pc, key, token, tracked, cancelling, worker>>

\* Mutant: on_loss runs but the owner is not cancelled.
LossOnlyKills(t) ==
  /\ watcher[t] = "lost"
  /\ kill' \in {TRUE, kill}
  /\ watcher' = [watcher EXCEPT ![t] = "cleanup"]
  /\ UNCHANGED <<lock, fresh, issued, lapsed, pc, key, token, tracked,
                 cancelling, worker>>

\* on_loss enables the kill switch (or fails), then the owner is cancelled.
LossHandled(t) ==
  /\ watcher[t] = "lost"
  /\ kill' \in {TRUE, kill}
  /\ watcher' = [watcher EXCEPT ![t] = "cleanup"]
  /\ cancelling' = [cancelling EXCEPT ![t] = TRUE]
  /\ UNCHANGED <<lock, fresh, issued, lapsed, pc, key, token, tracked, worker>>

\* The watcher's finally: after a loss, or because the owner has finished.
Cleanup(t) ==
  /\ \/ watcher[t] = "cleanup"
     \/ watcher[t] = "waiting" /\ OwnerDone(t)
  /\ watcher' = [watcher EXCEPT ![t] = "off"]
  /\ tracked' = [tracked EXCEPT ![t] = FALSE]
  /\ \/ lock' = LockAfterRelease(t) /\ lapsed' = LapsedAfterRelease(t)
     \/ UNCHANGED <<lock, lapsed>>
  /\ UNCHANGED <<fresh, kill, issued, pc, key, token, cancelling, worker>>
-----------------------------------------------------------------------------
(* Shutdown: every service closes its engines before its store.            *)

\* TradeEngine.close stops the OrderWorker; waiting futures are cancelled.
StopWorker(t) ==
  /\ worker[t]
  /\ worker' = [worker EXCEPT ![t] = FALSE]
  /\ pc' = [pc EXCEPT ![t] =
              IF @ \in {"queued", "cleared", "sent"} THEN "unwinding" ELSE @]
  /\ UNCHANGED <<redis, key, token, tracked, watcher, cancelling>>

\* Mutant: the store may be closed before the engines.
CloseInAnyOrder(t) == TRUE

\* The order in which main.shutdown, EngineRegistry and the services close.
EnginesClosed(t) == ~worker[t]

\* RedisStore.close: every watcher is cancelled and every lease cleaned up,
\* while operations that hold a lease may still be running.
CloseLeases(t) ==
  /\ EnginesClosed(t) /\ tracked[t]
  /\ tracked' = [tracked EXCEPT ![t] = FALSE]
  /\ watcher' = [watcher EXCEPT ![t] = "off"]
  /\ cancelling' = [cancelling EXCEPT ![t] = @ \/ watcher[t] = "lost"]
  /\ \/ lock' = LockAfterRelease(t) /\ lapsed' = LapsedAfterRelease(t)
     \/ UNCHANGED <<lock, lapsed>>
  /\ UNCHANGED <<fresh, kill, issued, pc, key, token, worker>>
-----------------------------------------------------------------------------
Operation(t) ==
  \/ Track(t) \/ Submit(t) \/ ClearSubmission(t) \/ RefuseSubmission(t)
  \/ Send(t) \/ Answered(t) \/ Finish(t) \/ Interrupted(t) \/ Release(t)
  \/ Forget(t)

Watch(t) == Renew(t) \/ RenewFails(t) \/ LossHandled(t) \/ Cleanup(t)

Next ==
  \/ \E k \in Keys : Age(k) \/ Expire(k)
  \/ \E t \in Tasks :
       \/ \E k \in Keys : Acquire(t, k)
       \/ Operation(t) \/ Watch(t)
       \/ Cancel(t) \/ Crash(t) \/ StopWorker(t) \/ CloseLeases(t)
  \/ ClearKill

Spec == Init /\ [][Next]_vars

\* Redis expires keys, the event loop runs the watcher and delivers
\* cancellations, and a finally block completes.  Nothing is assumed of the
\* rest of an operation: it may wait for its broker for ever.
Fairness ==
  /\ \A k \in Keys : WF_vars(Age(k)) /\ WF_vars(Expire(k))
  /\ \A t \in Tasks :
       WF_vars(Watch(t)) /\ WF_vars(Interrupted(t)) /\ WF_vars(Release(t))

FairSpec == Spec /\ Fairness
-----------------------------------------------------------------------------
(* Properties.                                                             *)

TypeOK ==
  /\ lock \in [Keys -> Nat]
  /\ fresh \in [Keys -> BOOLEAN]
  /\ kill \in BOOLEAN
  /\ issued \in 0 .. MaxTokens
  /\ pc \in [Tasks -> Phases]
  /\ key \in [Tasks -> Keys \cup {NoKey}]
  /\ token \in [Tasks -> Nat]
  /\ tracked \in [Tasks -> BOOLEAN]
  /\ watcher \in [Tasks -> {"off", "waiting", "lost", "cleanup"}]
  /\ cancelling \in [Tasks -> BOOLEAN]
  /\ worker \in [Tasks -> BOOLEAN]
  /\ \A n \in lapsed : n \in Nat

Running == {"work", "queued", "cleared", "sent"}

\* A registered lease whose key has not run out is the content of that key:
\* no release, cleanup, shutdown or acquisition of another operation can take
\* the lock away from a registered owner; only its TTL can.
LeaseMeansLock ==
  \A t \in Tasks :
    tracked[t] /\ token[t] \notin lapsed => lock[key[t]] = token[t]

\* Two operations are between the guard and the end of the broker call for
\* the same key only if the lease of one of them has already run out: the
\* promise order_locks.py makes against duplicate submissions, with the one
\* window (the broker call outliving the TTL) it cannot close.
OneLiveSubmitter ==
  \A t, u \in Tasks :
    /\ t # u /\ key[t] = key[u]
    /\ pc[t] \in {"cleared", "sent"} /\ pc[u] \in {"cleared", "sent"}
    /\ tracked[t] /\ tracked[u]
    => token[t] \in lapsed \/ token[u] \in lapsed

\* The guard in front of the broker never passes for an operation whose lock
\* has run out or been taken over, whatever stalled in between: also not while
\* its lease has been cleaned up by the watcher or by a closing store.
NoStaleSubmission ==
  [][\A t \in Tasks :
       pc[t] = "queued" /\ pc'[t] = "cleared" => token[t] \notin lapsed]_vars

\* A key disappears only because its TTL ran down or because the operation
\* holding it is over, is being cancelled, or is in a process shutting down.
FreedByItsOwner ==
  [][\A k \in Keys :
       lock[k] # 0 /\ lock'[k] # lock[k] =>
         \/ ~fresh[k]
         \/ \E t \in Tasks :
              /\ token[t] = lock[k]
              /\ pc[t] \in {"unwinding", "ended"} \/ cancelling[t] \/ ~worker[t]]_vars

\* An operation that lost its lock is stopped: a later placement or retry of
\* its loop is cut off even if the broker call it waits for never returns.
LapsedOwnerStops ==
  \A t \in Tasks :
    (worker[t] /\ tracked[t] /\ token[t] \in lapsed /\ pc[t] \in Running)
      ~> (pc[t] \notin Running \/ ~worker[t])

\* A key left behind by a crash, by a cancellation before the lease was
\* registered, by a failed delete or by an operation that never released,
\* becomes free again.
Abandoned(k) ==
  lock[k] # 0 /\ \A t \in Tasks : token[t] = lock[k] => pc[t] = "ended"
AbandonedKeyFreed == \A k \in Keys : Abandoned(k) ~> ~Abandoned(k)
=============================================================================
