------------------------------ MODULE ThreadPool ------------------------------
(***************************************************************************)
(* The thread pool that serialises worksheets and compresses archive        *)
(* entries: workers that share a queue under a mutex and a condition        *)
(* variable, and a caller that splits a range into chunks, waits for their  *)
(* futures and then destroys the pool.                                      *)
(*                                                                          *)
(* Every critical section of queueMutex_ is one action.  A notification is  *)
(* an action of its own, since it is sent after the mutex was released.     *)
(* The function a task calls is captured by reference: at both places that  *)
(* pass a lambda it lives until the statement with the call ends.           *)
(*                                                                          *)
(* The operators marked "Seeded fault" are wrong on purpose: each takes the *)
(* place of the definition it precedes to show that a property would notice. *)
(***************************************************************************)
EXTENDS Integers, Sequences, FiniteSets, FiniteSetsExt

CONSTANTS
  NumWorkers,  \* size of the pool
  Ranges,      \* the ranges <<begin, end>> parallelFor is called with
  Failing,     \* the indices the function throws on
  MaxCalls     \* bound: calls of parallelFor before the pool is destroyed

\* Both users ask for min(workers, entries) threads with both above 1
\* (Workbook.cpp:503-504, ZipArchive.cpp:665-673).
ASSUME PoolAssumption ==
  /\ NumWorkers \in Nat \ {0}
  /\ Ranges \subseteq Nat \X Nat
  /\ MaxCalls \in Nat

Workers == 1 .. NumWorkers

VARIABLES
  queue,     \* tasks_: the chunks nobody has taken
  stop,      \* stop_
  worker,    \* where each worker is and what it works on
  caller,    \* where the caller is, and its loop counter
  range,     \* arguments of the current call
  futures,   \* for each chunk of the call: is it done, and what it threw
  thrown,    \* what parallelFor threw
  applied,   \* how often the function was called on each index of the range
  fnAlive,   \* the function has not been destroyed
  callsMade

vars == <<queue, stop, worker, caller, range, futures, thrown, applied, fnAlive, callsMade>>

Indices(r) == r[1] .. r[2] - 1
Count(r) == r[2] - r[1]
Chunk(r) == (Count(r) + NumWorkers - 1) \div NumWorkers
Begin(r, w) == r[1] + (w - 1) * Chunk(r)
End(r, w) == Min({Begin(r, w) + Chunk(r), r[2]})

NoTask == [begin |-> 0, end |-> 0, future |-> 0]

-----------------------------------------------------------------------------
(* The workers                                                              *)

\* Seeded fault: a worker leaves as soon as the pool stops.
TestPredicateAtOnce(w) ==
  /\ worker[w].at = "test"
  /\ \/ /\ stop
        /\ worker' = [worker EXCEPT ![w].at = "returned"]
        /\ UNCHANGED queue
     \/ /\ ~stop /\ queue # <<>>
        /\ worker' = [worker EXCEPT ![w] = [at |-> "run", task |-> Head(queue), index |-> Head(queue).begin]]
        /\ queue' = Tail(queue)
     \/ /\ ~stop /\ queue = <<>>
        /\ worker' = [worker EXCEPT ![w].at = "asleep"]
        /\ UNCHANGED queue
  /\ UNCHANGED <<stop, caller, range, futures, thrown, applied, fnAlive, callsMade>>

\* With the mutex: sleep while there is neither a task nor a stop, leave when
\* there is a stop and no task, else take the first task.
TestPredicate(w) ==
  /\ worker[w].at = "test"
  /\ \/ /\ queue = <<>> /\ ~stop
        /\ worker' = [worker EXCEPT ![w].at = "asleep"]
        /\ UNCHANGED queue
     \/ /\ queue = <<>> /\ stop
        /\ worker' = [worker EXCEPT ![w].at = "returned"]
        /\ UNCHANGED queue
     \/ /\ queue # <<>>
        /\ worker' = [worker EXCEPT ![w] = [at |-> "run", task |-> Head(queue), index |-> Head(queue).begin]]
        /\ queue' = Tail(queue)
  /\ UNCHANGED <<stop, caller, range, futures, thrown, applied, fnAlive, callsMade>>

\* A wait may end for no reason.
WakeSpuriously(w) ==
  /\ worker[w].at = "asleep"
  /\ worker' = [worker EXCEPT ![w].at = "test"]
  /\ UNCHANGED <<queue, stop, caller, range, futures, thrown, applied, fnAlive, callsMade>>

Complete(w, error) ==
  /\ futures' = [futures EXCEPT ![worker[w].task.future] = [done |-> TRUE, error |-> error]]
  /\ worker' = [worker EXCEPT ![w] = [at |-> "test", task |-> NoTask, index |-> 0]]

\* fn(i); an exception ends the chunk and goes into its future.
Apply(w) ==
  LET i == worker[w].index IN
  /\ worker[w].at = "run" /\ i < worker[w].task.end
  /\ applied' = [applied EXCEPT ![i] = @ + 1]
  /\ \/ /\ i \in Failing
        /\ Complete(w, {i})
     \/ /\ i \notin Failing
        /\ worker' = [worker EXCEPT ![w].index = i + 1]
        /\ UNCHANGED futures
  /\ UNCHANGED <<queue, stop, caller, range, thrown, fnAlive, callsMade>>

FinishChunk(w) ==
  /\ worker[w].at = "run" /\ worker[w].index = worker[w].task.end
  /\ Complete(w, {})
  /\ UNCHANGED <<queue, stop, caller, range, thrown, applied, fnAlive, callsMade>>

Worker(w) == TestPredicate(w) \/ Apply(w) \/ FinishChunk(w)

-----------------------------------------------------------------------------
(* The caller                                                               *)

ParallelFor(r) ==
  /\ caller.at = "idle" /\ callsMade < MaxCalls
  /\ callsMade' = callsMade + 1
  /\ range' = r
  /\ futures' = <<>>
  /\ applied' = [i \in Indices(r) |-> 0]
  /\ \/ /\ r[1] >= r[2]
        /\ UNCHANGED <<caller, fnAlive>>
     \/ /\ r[1] < r[2]
        /\ caller' = [at |-> "enqueue", k |-> 1]
        /\ fnAlive' = TRUE
  /\ UNCHANGED <<queue, stop, worker, thrown>>

Enqueue ==
  /\ caller.at = "enqueue" /\ caller.k <= NumWorkers /\ Begin(range, caller.k) < range[2]
  /\ queue' = Append(queue, [begin |-> Begin(range, caller.k), end |-> End(range, caller.k), future |-> caller.k])
  /\ futures' = Append(futures, [done |-> FALSE, error |-> {}])
  /\ caller' = [caller EXCEPT !.at = "notify"]
  /\ UNCHANGED <<stop, worker, range, thrown, applied, fnAlive, callsMade>>

Asleep == {w \in Workers : worker[w].at = "asleep"}

\* Seeded fault: nobody is told of a new task.
NotifyNobody ==
  /\ caller.at = "notify"
  /\ caller' = [at |-> "enqueue", k |-> caller.k + 1]
  /\ UNCHANGED <<queue, stop, worker, range, futures, thrown, applied, fnAlive, callsMade>>

\* notify_one wakes a sleeper if there is one.
NotifyOne ==
  /\ caller.at = "notify"
  /\ \/ /\ Asleep = {}
        /\ UNCHANGED worker
     \/ \E w \in Asleep : worker' = [worker EXCEPT ![w].at = "test"]
  /\ caller' = [at |-> "enqueue", k |-> caller.k + 1]
  /\ UNCHANGED <<queue, stop, range, futures, thrown, applied, fnAlive, callsMade>>

AllEnqueued ==
  /\ caller.at = "enqueue"
  /\ caller.k > NumWorkers \/ Begin(range, caller.k) >= range[2]
  /\ caller' = [at |-> "get", k |-> 1]
  /\ UNCHANGED <<queue, stop, worker, range, futures, thrown, applied, fnAlive, callsMade>>

\* f.get() blocks until the chunk is done and rethrows what it threw.
Get ==
  /\ caller.at = "get" /\ caller.k <= Len(futures)
  /\ futures[caller.k].done
  /\ \/ /\ futures[caller.k].error = {}
        /\ caller' = [caller EXCEPT !.k = @ + 1]
        /\ UNCHANGED thrown
     \/ /\ futures[caller.k].error # {}
        /\ thrown' = futures[caller.k].error
        /\ caller' = [at |-> "thrown", k |-> 0]
  /\ UNCHANGED <<queue, stop, worker, range, futures, applied, fnAlive, callsMade>>

\* Seeded fault: the future of the last chunk is not waited for.
ReturnBeforeLast ==
  /\ caller.at = "get" /\ caller.k >= Len(futures)
  /\ caller' = [at |-> "idle", k |-> 0]
  /\ fnAlive' = FALSE
  /\ UNCHANGED <<queue, stop, worker, range, futures, thrown, applied, callsMade>>

\* parallelFor returns and its statement ends: the function goes.
Return ==
  /\ caller.at = "get" /\ caller.k > Len(futures)
  /\ caller' = [at |-> "idle", k |-> 0]
  /\ fnAlive' = FALSE
  /\ UNCHANGED <<queue, stop, worker, range, futures, thrown, applied, callsMade>>

\* Unwinding leaves the statement as well, before it gets to the pool.
Unwind ==
  /\ caller.at = "thrown"
  /\ caller' = [at |-> "stop", k |-> 0]
  /\ fnAlive' = FALSE
  /\ UNCHANGED <<queue, stop, worker, range, futures, thrown, applied, callsMade>>

LeaveScope ==
  /\ caller.at = "idle"
  /\ caller' = [at |-> "stop", k |-> 0]
  /\ UNCHANGED <<queue, stop, worker, range, futures, thrown, applied, fnAlive, callsMade>>

\* ~ThreadPool
Stop ==
  /\ caller.at = "stop"
  /\ stop' = TRUE
  /\ caller' = [caller EXCEPT !.at = "notifyAll"]
  /\ UNCHANGED <<queue, worker, range, futures, thrown, applied, fnAlive, callsMade>>

NotifyAll ==
  /\ caller.at = "notifyAll"
  /\ worker' = [w \in Workers |-> IF w \in Asleep THEN [worker[w] EXCEPT !.at = "test"] ELSE worker[w]]
  /\ caller' = [at |-> "join", k |-> 1]
  /\ UNCHANGED <<queue, stop, range, futures, thrown, applied, fnAlive, callsMade>>

Join ==
  /\ caller.at = "join" /\ caller.k <= NumWorkers
  /\ worker[caller.k].at = "returned"
  /\ caller' = [caller EXCEPT !.k = @ + 1]
  /\ UNCHANGED <<queue, stop, worker, range, futures, thrown, applied, fnAlive, callsMade>>

Destroyed == caller.at = "join" /\ caller.k > NumWorkers

Caller ==
  \/ \E r \in Ranges : ParallelFor(r)
  \/ Enqueue \/ NotifyOne \/ AllEnqueued
  \/ Get \/ Return \/ Unwind
  \/ LeaveScope \/ Stop \/ NotifyAll \/ Join

-----------------------------------------------------------------------------

Init ==
  /\ queue = <<>>
  /\ stop = FALSE
  /\ worker = [w \in Workers |-> [at |-> "test", task |-> NoTask, index |-> 0]]
  /\ caller = [at |-> "idle", k |-> 0]
  /\ range \in Ranges
  /\ futures = <<>>
  /\ thrown = {}
  /\ applied = <<>>
  /\ fnAlive = FALSE
  /\ callsMade = 0

Next ==
  \/ Caller
  \/ \E w \in Workers : Worker(w) \/ WakeSpuriously(w)
  \/ Destroyed /\ UNCHANGED vars

Spec == Init /\ [][Next]_vars

\* Threads are scheduled by the system: one that can go on does so eventually.
\* Nothing is assumed of spurious wakeups.
FairSpec == Spec /\ WF_vars(Caller) /\ \A w \in Workers : WF_vars(Worker(w))
-----------------------------------------------------------------------------
(* Properties *)

Tasks == [begin : Nat, end : Nat, future : Nat]

\* Every variable has its type.
TypeOK ==
  /\ queue \in Seq(Tasks)
  /\ stop \in BOOLEAN /\ fnAlive \in BOOLEAN
  /\ worker \in [Workers -> [at : {"test", "asleep", "run", "returned"}, task : Tasks, index : Nat]]
  /\ caller.at \in {"idle", "enqueue", "notify", "get", "thrown", "stop", "notifyAll", "join"}
  /\ caller.k \in 0 .. NumWorkers + 1
  /\ range \in Ranges
  /\ Len(futures) <= NumWorkers
  /\ \A k \in DOMAIN futures : futures[k].done \in BOOLEAN /\ futures[k].error \subseteq Failing
  /\ thrown \subseteq Failing
  /\ callsMade \in 0 .. MaxCalls

Quiet == queue = <<>> /\ \A w \in Workers : worker[w].at # "run"

\* When parallelFor has returned, and not thrown, no task of it is queued or
\* running: nothing calls the function any more, which may be gone
\* (ThreadPool.h:84, &fn).
FnOutlivesTasks == ~fnAlive /\ thrown = {} => Quiet

\* The destructor drains the queue: when it is done every chunk was run, also
\* those left over by an exception, and every worker has gone.
Drained ==
  /\ queue = <<>>
  /\ \A k \in DOMAIN futures : futures[k].done
  /\ \A w \in Workers : worker[w].at = "returned"

\* What the caller sees of the call, and the indices it was made on.
Outcome ==
  IF caller.at \in {"enqueue", "notify", "get"} THEN "running"
  ELSE IF thrown # {} THEN "threw"
  ELSE IF callsMade = 0 THEN "idle" ELSE "returned"

Loop == INSTANCE ParallelFor WITH calls <- applied, outcome <- Outcome

\* parallelFor does and throws what the sequential loop does and throws
\* (Workbook.cpp:474: "identical to the sequential result").
LikeSequential == Loop!Spec

\* The caller gets out of parallelFor and of the destructor, and leaves nothing
\* undone: no wakeup is lost.
Terminates == <>(Destroyed /\ Drained)
=============================================================================
