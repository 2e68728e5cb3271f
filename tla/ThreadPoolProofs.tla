-------------------------- MODULE ThreadPoolProofs --------------------------
(***************************************************************************)
(* parallelFor does what the sequential loop does, on any number of        *)
(* workers and for any ranges: every step of the pool is a step of         *)
(* ParallelFor or leaves it alone, and when the call has returned nothing  *)
(* uses the function any more.                                             *)
(***************************************************************************)
EXTENDS ThreadPool, TLAPS

Places == {"idle", "enqueue", "notify", "get", "thrown", "stop", "notifyAll", "join"}
Futures == [done : BOOLEAN, error : SUBSET Int]

Types ==
  /\ queue \in Seq(Tasks)
  /\ worker \in [Workers -> [at : {"test", "asleep", "run", "returned"}, task : Tasks, index : Nat]]
  /\ caller \in [at : Places, k : Nat]
  /\ range \in Ranges
  /\ futures \in Seq(Futures)
  /\ thrown \in SUBSET Int
  /\ fnAlive \in BOOLEAN
  /\ callsMade \in Nat
  /\ IF callsMade = 0 THEN applied = <<>> ELSE applied \in [Indices(range) -> Nat]

Calling == caller.at \in {"enqueue", "notify", "get"}

\* The indices of a chunk.
Part(f) == Begin(range, f) .. End(range, f) - 1

\* The caller knows how many chunks are queued, and has what those it asked for threw.
CallerWaits ==
  /\ caller.at = "enqueue" => caller.k = Len(futures) + 1
  /\ caller.at = "notify" => caller.k = Len(futures)
  /\ caller.at = "get" => /\ caller.k \in 1 .. Len(futures) + 1
                          /\ \A f \in 1 .. caller.k - 1 : futures[f].done /\ futures[f].error = {}
  /\ Calling => thrown = {}
  /\ caller.at = "idle" => thrown = {}
  /\ caller.at = "thrown" => thrown # {}
  /\ fnAlive <=> Calling \/ caller.at = "thrown"
  /\ fnAlive \/ futures # <<>> => callsMade > 0 /\ range[1] < range[2]
  /\ thrown = {} /\ ~Calling => Quiet

\* A task is a chunk of the call whose future is not done.
TaskOfCall(t) ==
  /\ t.future \in DOMAIN futures /\ ~futures[t.future].done
  /\ t.begin = Begin(range, t.future) /\ t.end = End(range, t.future) /\ t.begin < t.end

\* Every task has a future of its own.
TasksApart ==
  /\ \A q \in DOMAIN queue : TaskOfCall(queue[q])
  /\ \A p, q \in DOMAIN queue : p # q => queue[p].future # queue[q].future
  /\ \A w \in Workers : worker[w].at = "run" =>
       /\ TaskOfCall(worker[w].task)
       /\ worker[w].index \in worker[w].task.begin .. worker[w].task.end
       /\ \A q \in DOMAIN queue : worker[w].task.future # queue[q].future
       /\ \A v \in Workers \ {w} : worker[v].at = "run" => worker[v].task.future # worker[w].task.future

\* What a done future says of its chunk.
Told(f) ==
  \/ /\ futures[f].error = {}
     /\ \A i \in Part(f) : applied[i] = 1 /\ i \notin Failing
  \/ \E x \in Part(f) : /\ futures[f].error = {x}
                        /\ x \in Failing /\ applied[x] = 1
                        /\ \A i \in Part(f) : i < x => i \notin Failing

\* Which indices the function was called on.
CallsCounted ==
  /\ \A q \in DOMAIN queue : \A i \in Part(queue[q].future) : applied[i] = 0
  /\ \A w \in Workers : worker[w].at = "run" =>
       \A i \in Part(worker[w].task.future) :
         IF i < worker[w].index THEN applied[i] = 1 /\ i \notin Failing ELSE applied[i] = 0
  /\ \A f \in DOMAIN futures : futures[f].done => Told(f)

\* The chunks queued so far cover the range up to where the next one begins.
Covered ==
  \A i \in Indices(range) :
    IF caller.at \in {"enqueue", "notify"} /\ i >= Begin(range, Len(futures) + 1)
    THEN applied[i] = 0
    ELSE Calling => \E f \in DOMAIN futures : i \in Part(f)

IInv == Types /\ CallerWaits /\ TasksApart /\ CallsCounted /\ Covered

-----------------------------------------------------------------------------
(* Chunks *)

LEMMA MinOfTwo == ASSUME NEW a \in Int, NEW b \in Int PROVE Min({a, b}) = IF a <= b THEN a ELSE b
BY DEF Min

LEMMA Rounding ==
  ASSUME NEW n \in Nat \ {0}, NEW x \in Nat \ {0}
  PROVE  (x + n - 1) \div n \in Nat \ {0} /\ n * ((x + n - 1) \div n) >= x
OBVIOUS

LEMMA Multiples ==
  ASSUME NEW f \in Nat, NEW g \in Nat, NEW c \in Nat, f < g
  PROVE  f * c \in Nat /\ g * c \in Nat /\ f * c + c <= g * c
OBVIOUS

\* Where the chunks of a range are.
LEMMA Chunks ==
  ASSUME NEW r \in Ranges, r[1] < r[2], NEW f \in Nat \ {0}
  PROVE  /\ r[1] \in Nat /\ r[2] \in Nat
         /\ Begin(r, f) \in Nat /\ Begin(r, f) >= r[1] /\ Begin(r, f) < Begin(r, f + 1)
         /\ End(r, f) \in Nat /\ End(r, f) <= r[2] /\ End(r, f) <= Begin(r, f + 1)
         /\ End(r, f) = r[2] \/ End(r, f) = Begin(r, f + 1)
         /\ Begin(r, 1) = r[1]
         /\ Begin(r, NumWorkers + 1) >= r[2]
         /\ \A g \in Nat : f < g => Begin(r, f + 1) <= Begin(r, g)
<1> DEFINE c == Chunk(r)
<1>1. r[1] \in Nat /\ r[2] \in Nat /\ Count(r) \in Nat \ {0}
  BY PoolAssumption DEF Count
<1>2. c \in Nat \ {0} /\ NumWorkers * c >= Count(r)
  BY <1>1, Rounding, PoolAssumption DEF Chunk
<1> HIDE DEF c
<1>3. \A g \in Nat \ {0} : Begin(r, g) = r[1] + (g - 1) * c
  BY DEF Begin, c
<1>4. \A g \in Nat \ {0} : (g - 1) * c \in Nat /\ g * c \in Nat /\ (g - 1) * c + c <= g * c
  BY <1>2, Multiples
<1>5. Begin(r, f) \in Nat /\ Begin(r, f) >= r[1] /\ Begin(r, f + 1) \in Nat /\ Begin(r, f + 1) = Begin(r, f) + c
  <2>1. f + 1 \in Nat \ {0} /\ (f + 1) - 1 = f /\ f * c = (f - 1) * c + c
    BY <1>2
  <2> QED
    BY <2>1, <1>1, <1>2, <1>3, <1>4
<1>10. Begin(r, f) < Begin(r, f + 1)
  BY <1>2, <1>5
<1>6. End(r, f) = IF Begin(r, f + 1) <= r[2] THEN Begin(r, f + 1) ELSE r[2]
  BY <1>1, <1>5, MinOfTwo DEF End, c
<1>7. Begin(r, 1) = r[1]
  BY <1>1, <1>2, <1>3
<1>8. Begin(r, NumWorkers + 1) >= r[2]
  <2>1. NumWorkers + 1 \in Nat \ {0} /\ (NumWorkers + 1) - 1 = NumWorkers
    BY PoolAssumption
  <2>2. Begin(r, NumWorkers + 1) = r[1] + NumWorkers * c /\ NumWorkers * c \in Nat
    BY <2>1, <1>2, <1>3, PoolAssumption
  <2> QED
    BY <2>2, <1>1, <1>2 DEF Count
<1>9. ASSUME NEW g \in Nat, f < g PROVE Begin(r, f + 1) <= Begin(r, g)
  <2>1. f + 1 \in Nat \ {0} /\ g \in Nat \ {0} /\ (f + 1) - 1 = f
    BY <1>9
  <2>2. f * c <= (g - 1) * c
    <3>1. CASE f = g - 1
      BY <3>1, <1>2
    <3>2. CASE f < g - 1
      <4>1. f * c + c <= (g - 1) * c /\ f * c \in Nat /\ (g - 1) * c \in Nat
        BY <3>2, <1>2, Multiples
      <4> QED
        BY <4>1, <1>2
    <3> QED
      BY <3>1, <3>2, <1>9
  <2>3. Begin(r, f + 1) = r[1] + f * c /\ Begin(r, g) = r[1] + (g - 1) * c
    BY <2>1, <1>3
  <2>4. f * c \in Nat /\ (g - 1) * c \in Nat
    BY <2>1, <1>4
  <2> QED
    BY <2>2, <2>3, <2>4, <1>1
<1> QED
  BY <1>1, <1>5, <1>6, <1>7, <1>8, <1>9, <1>10

\* Two chunks have no index in common.
LEMMA ChunksDisjoint ==
  ASSUME range \in Ranges, range[1] < range[2], NEW f \in Nat \ {0}, NEW g \in Nat \ {0}, f # g,
         NEW i \in Part(f)
  PROVE  i \notin Part(g)
<1>1. CASE f < g
  BY <1>1, Chunks DEF Part
<1>2. CASE g < f
  BY <1>2, Chunks DEF Part
<1> QED
  BY <1>1, <1>2

LEMMA ChunkInRange ==
  ASSUME range \in Ranges, range[1] < range[2], NEW f \in Nat \ {0}, NEW i \in Part(f)
  PROVE  i \in Indices(range) /\ i \in Nat
BY Chunks DEF Part, Indices

LEMMA ChunkNotEmpty ==
  ASSUME range \in Ranges, range[1] < range[2], NEW f \in Nat \ {0}, Begin(range, f) < range[2]
  PROVE  Begin(range, f) < End(range, f)
BY Chunks

-----------------------------------------------------------------------------
(* The invariant *)

LEMMA InitInv == Init => IInv
<1> SUFFICES ASSUME Init PROVE IInv
  OBVIOUS
<1>1. Types
  <2>1. <<>> \in Seq(Tasks) /\ <<>> \in Seq(Futures)
    OBVIOUS
  <2>2. NoTask \in Tasks
    BY DEF NoTask, Tasks
  <2>3. worker \in [Workers -> [at : {"test", "asleep", "run", "returned"}, task : Tasks, index : Nat]]
    BY <2>2 DEF Init
  <2>4. caller \in [at : Places, k : Nat]
    BY DEF Init, Places
  <2> QED
    BY <2>1, <2>3, <2>4 DEF Init, Types
<1>2. CallerWaits
  BY DEF Init, CallerWaits, Calling, Quiet
<1>3. TasksApart /\ CallsCounted
  BY DEF Init, TasksApart, CallsCounted
<1>4. Covered
  BY DEF Init, Covered, Calling
<1> QED
  BY <1>1, <1>2, <1>3, <1>4 DEF IInv

\* A step that leaves the tasks, their futures and the calls alone.
LEMMA SameTasks ==
  ASSUME IInv, UNCHANGED <<queue, range, futures, applied>>,
         \A w \in Workers : worker'[w].at = "run" => worker'[w] = worker[w]
  PROVE  TasksApart' /\ CallsCounted'
<1>1. TasksApart'
  BY DEF IInv, TasksApart, TaskOfCall
<1>2. CallsCounted'
  BY DEF IInv, CallsCounted, Told, Part
<1> QED
  BY <1>1, <1>2

\* A step of a worker that leaves the calls alone.
LEMMA SameCover ==
  ASSUME IInv, UNCHANGED <<caller, range, applied>>, DOMAIN futures' = DOMAIN futures, Len(futures') = Len(futures)
  PROVE  Covered'
BY DEF IInv, Covered, Calling, Part

\* The tasks' chunks are in the range, and there is a call.
LEMMA TaskFacts ==
  ASSUME IInv, NEW t \in Tasks, TaskOfCall(t)
  PROVE  /\ callsMade > 0 /\ range \in Ranges /\ range[1] < range[2]
         /\ t.future \in Nat \ {0} /\ t.future \in DOMAIN futures
         /\ applied \in [Indices(range) -> Nat]
         /\ Part(t.future) \subseteq Indices(range)
         /\ Part(t.future) = t.begin .. t.end - 1
<1>1. t.future \in DOMAIN futures /\ futures \in Seq(Futures)
  BY DEF IInv, Types, TaskOfCall
<1>2. t.future \in Nat \ {0} /\ futures # <<>>
  BY <1>1
<1>3. callsMade > 0 /\ range[1] < range[2] /\ range \in Ranges
  BY <1>2 DEF IInv, CallerWaits, Types
<1>4. applied \in [Indices(range) -> Nat]
  BY <1>3 DEF IInv, Types
<1>5. Part(t.future) \subseteq Indices(range)
  BY <1>2, <1>3, ChunkInRange
<1>6. Part(t.future) = t.begin .. t.end - 1
  BY DEF TaskOfCall, Part
<1> QED
  BY <1>1, <1>2, <1>3, <1>4, <1>5, <1>6

-----------------------------------------------------------------------------
(* The workers *)

LEMMA TestPredicateInv == ASSUME IInv, NEW w \in Workers, TestPredicate(w) PROVE IInv'
<1> USE DEF TestPredicate
<1>0. worker[w].at = "test" /\ Types
  BY DEF IInv
<1>1. Covered'
  BY <1>0, SameCover DEF Types
<1>2. CASE queue # <<>>
  <2> DEFINE t == Head(queue)
  <2>1. worker' = [worker EXCEPT ![w] = [at |-> "run", task |-> t, index |-> t.begin]] /\ queue' = Tail(queue)
    BY <1>2
  <2>2. t \in Tasks /\ t = queue[1] /\ 1 \in DOMAIN queue /\ queue' \in Seq(Tasks)
    BY <1>2, <2>1, <1>0 DEF Types
  <2>3. Len(queue') = Len(queue) - 1 /\ \A q \in DOMAIN queue' : q + 1 \in DOMAIN queue /\ q + 1 # 1 /\ queue'[q] = queue[q + 1]
    BY <1>2, <2>1, <1>0 DEF Types
  <2>4. worker'[w] = [at |-> "run", task |-> t, index |-> t.begin] /\ \A v \in Workers \ {w} : worker'[v] = worker[v]
    BY <2>1, <1>0 DEF Types
  <2>5. TaskOfCall(t)
    BY <2>2 DEF IInv, TasksApart
  <2>6. Types'
    BY <2>1, <2>2, <1>0 DEF Types, Tasks
  <2>7. t.begin \in Nat /\ t.end \in Nat /\ t.begin < t.end
    BY <2>2, <2>5 DEF TaskOfCall, Tasks
  <2>8. TasksApart'
    <3>1. \A q \in DOMAIN queue' : TaskOfCall(queue'[q])
      BY <2>3 DEF IInv, TasksApart
    <3>2. \A p, q \in DOMAIN queue' : p # q => queue'[p].future # queue'[q].future
      BY <2>3 DEF IInv, TasksApart
    <3>3. \A q \in DOMAIN queue' : t.future # queue'[q].future
      BY <2>2, <2>3 DEF IInv, TasksApart
    <3>4. \A v \in Workers \ {w} : worker[v].at = "run" =>
             worker[v].task.future # t.future /\ \A q \in DOMAIN queue' : worker[v].task.future # queue'[q].future
      BY <2>2, <2>3 DEF IInv, TasksApart
    <3> QED
      BY <2>4, <2>5, <2>7, <3>1, <3>2, <3>3, <3>4 DEF IInv, TasksApart, TaskOfCall
  <2>9. CallsCounted'
    <3>1. \A q \in DOMAIN queue' : \A i \in Part(queue'[q].future) : applied[i] = 0
      BY <2>3 DEF IInv, CallsCounted
    <3>2. \A i \in Part(t.future) : applied[i] = 0 /\ ~(i < t.begin)
      BY <2>2, <2>5, <2>7, TaskFacts DEF IInv, CallsCounted
    <3> QED
      BY <2>4, <3>1, <3>2 DEF IInv, CallsCounted, Told, Part
  <2>10. CallerWaits'
    <3>1. Calling \/ thrown # {}
      BY <1>2 DEF IInv, CallerWaits, Quiet
    <3> QED
      BY <3>1 DEF IInv, CallerWaits, Calling
  <2> QED
    BY <1>1, <2>6, <2>8, <2>9, <2>10 DEF IInv
<1>3. CASE queue = <<>>
  <2>1. PICK at \in {"asleep", "returned"} : worker' = [worker EXCEPT ![w].at = at] /\ queue' = queue
    BY <1>3
  <2>2. Types'
    BY <2>1, <1>0 DEF Types
  <2>3. \A v \in Workers : worker'[v].at = "run" => worker'[v] = worker[v]
    BY <2>1, <1>0 DEF Types
  <2>4. TasksApart' /\ CallsCounted'
    BY <2>1, <2>3, SameTasks
  <2>5. Quiet => Quiet'
    BY <2>1, <2>3 DEF Quiet
  <2>6. CallerWaits'
    BY <2>5, <2>1 DEF IInv, CallerWaits, Calling
  <2> QED
    BY <1>1, <2>2, <2>4, <2>6 DEF IInv
<1> QED
  BY <1>2, <1>3

LEMMA WakeSpuriouslyInv == ASSUME IInv, NEW w \in Workers, WakeSpuriously(w) PROVE IInv'
<1> USE DEF WakeSpuriously
<1>1. Types /\ Types'
  BY DEF IInv, Types
<1>2. \A v \in Workers : worker'[v].at = "run" => worker'[v] = worker[v]
  BY <1>1 DEF Types
<1>3. TasksApart' /\ CallsCounted'
  BY <1>2, SameTasks
<1>4. CallerWaits'
  BY <1>2 DEF IInv, CallerWaits, Calling, Quiet
<1>5. Covered'
  BY <1>1, SameCover DEF Types
<1> QED
  BY <1>1, <1>3, <1>4, <1>5 DEF IInv

\* A worker that is done with its chunk, after what it has done to the calls.
LEMMA CompleteInv ==
  ASSUME IInv, NEW w \in Workers, worker[w].at = "run", NEW error \in SUBSET Int, Complete(w, error),
         UNCHANGED <<queue, stop, caller, range, thrown, fnAlive, callsMade>>, Types', Covered',
         \A f \in DOMAIN futures : f # worker[w].task.future => \A i \in Part(f) : applied'[i] = applied[i],
         LET f == worker[w].task.future IN
           \/ error = {} /\ \A i \in Part(f) : applied'[i] = 1 /\ i \notin Failing
           \/ \E x \in Part(f) : /\ error = {x} /\ x \in Failing /\ applied'[x] = 1
                                 /\ \A i \in Part(f) : i < x => i \notin Failing
  PROVE  IInv'
<1> DEFINE f == worker[w].task.future
<1> USE DEF Complete
<1>1. TaskOfCall(worker[w].task) /\ worker[w].task \in Tasks
  BY DEF IInv, TasksApart, Types
<1>2. f \in DOMAIN futures /\ ~futures[f].done /\ f \in Nat \ {0}
  BY <1>1, TaskFacts DEF TaskOfCall
<1>3. /\ futures' = [futures EXCEPT ![f] = [done |-> TRUE, error |-> error]]
      /\ futures'[f] = [done |-> TRUE, error |-> error]
      /\ \A g \in DOMAIN futures : g # f => futures'[g] = futures[g]
      /\ DOMAIN futures' = DOMAIN futures /\ Len(futures') = Len(futures) /\ futures' # <<>>
  BY <1>2 DEF IInv, Types
<1>4. worker'[w].at = "test" /\ \A v \in Workers \ {w} : worker'[v] = worker[v]
  BY DEF IInv, Types
<1>0. \/ error = {} /\ \A i \in Part(f) : applied'[i] = 1 /\ i \notin Failing
      \/ \E x \in Part(f) : /\ error = {x} /\ x \in Failing /\ applied'[x] = 1
                            /\ \A i \in Part(f) : i < x => i \notin Failing
  OBVIOUS
<1> HIDE DEF f
<1>5. TasksApart'
  <2>1. \A q \in DOMAIN queue : queue[q].future # f /\ TaskOfCall(queue[q])'
    BY <1>3 DEF IInv, TasksApart, TaskOfCall, f
  <2>2. \A v \in Workers \ {w} : worker[v].at = "run" => worker[v].task.future # f /\ TaskOfCall(worker[v].task)'
    BY <1>3 DEF IInv, TasksApart, TaskOfCall, f
  <2> QED
    BY <1>4, <2>1, <2>2 DEF IInv, TasksApart
<1>6. CallsCounted'
  <2>1. \A q \in DOMAIN queue : \A i \in Part(queue[q].future) : applied'[i] = 0
    BY DEF IInv, TasksApart, TaskOfCall, CallsCounted, f
  <2>2. \A v \in Workers \ {w} : worker[v].at = "run" =>
          \A i \in Part(worker[v].task.future) :
             IF i < worker[v].index THEN applied'[i] = 1 /\ i \notin Failing ELSE applied'[i] = 0
    BY DEF IInv, TasksApart, TaskOfCall, CallsCounted, f
  <2>3. \A g \in DOMAIN futures' : futures'[g].done => Told(g)'
    <3> SUFFICES ASSUME NEW g \in DOMAIN futures, futures'[g].done PROVE Told(g)'
      BY <1>3
    <3>1. CASE g = f
      <4>1. futures'[g].error = error /\ Part(g)' = Part(f)
        BY <3>1, <1>3 DEF Part
      <4> QED
        BY <4>1, <1>0 DEF Told
    <3>2. CASE g # f
      BY <3>2, <1>3 DEF IInv, CallsCounted, Told, Part, f
    <3> QED
      BY <3>1, <3>2
  <2> QED
    BY <1>4, <2>1, <2>2, <2>3 DEF CallsCounted, Part
<1>7. CallerWaits'
  <2>1. Calling \/ thrown # {}
    BY DEF IInv, CallerWaits, Quiet
  <2>2. \A g \in DOMAIN futures : futures[g].done => futures'[g] = futures[g]
    BY <1>2, <1>3
  <2>3. caller.at = "get" => \A g \in 1 .. caller.k - 1 : g \in DOMAIN futures
    BY DEF IInv, CallerWaits, Types
  <2> QED
    BY <1>3, <2>1, <2>2, <2>3, <1>2 DEF IInv, CallerWaits, Calling
<1> QED
  BY <1>5, <1>6, <1>7 DEF IInv

LEMMA FinishChunkInv == ASSUME IInv, NEW w \in Workers, FinishChunk(w) PROVE IInv'
<1> USE DEF FinishChunk
<1> DEFINE f == worker[w].task.future
<1>1. worker[w].at = "run" /\ worker[w].task \in Tasks /\ TaskOfCall(worker[w].task) /\ Types
  BY DEF IInv, TasksApart, Types
<1>2. Part(f) = worker[w].task.begin .. worker[w].task.end - 1 /\ worker[w].task.end \in Nat
  BY <1>1, TaskFacts DEF Tasks
<1>3. \A i \in Part(f) : applied'[i] = 1 /\ i \notin Failing
  <2>1. \A i \in Part(f) : i < worker[w].index
    BY <1>1, <1>2 DEF Tasks
  <2> QED
    BY <1>1, <2>1 DEF IInv, CallsCounted
<1>4. Types'
  BY <1>1 DEF Types, Complete, TaskOfCall, Futures, Tasks, NoTask
<1>5. Covered'
  BY <1>1, SameCover DEF Types, Complete
<1> QED
  BY <1>1, <1>3, <1>4, <1>5, CompleteInv

\* A call is the first on its index.
LEMMA ApplyFacts ==
  ASSUME IInv, NEW w \in Workers, Apply(w)
  PROVE  LET t == worker[w].task i == worker[w].index IN
         /\ worker[w].at = "run" /\ t \in Tasks /\ TaskOfCall(t)
         /\ i \in Part(t.future) /\ i \in Indices(range) /\ i \in Nat /\ i < t.end /\ t.end \in Nat
         /\ applied \in [Indices(range) -> Nat] /\ applied[i] = 0
         /\ applied' = [applied EXCEPT ![i] = 1] /\ applied' \in [Indices(range) -> Nat] /\ applied'[i] = 1
         /\ \A j \in Part(t.future) : j < i => applied[j] = 1 /\ j \notin Failing
         /\ \A f \in DOMAIN futures : f # t.future => i \notin Part(f)
         /\ \A f \in DOMAIN futures : f # t.future => \A j \in Part(f) : applied'[j] = applied[j]
<1> DEFINE t == worker[w].task
<1> DEFINE i == worker[w].index
<1>1. worker[w].at = "run" /\ i < t.end /\ applied' = [applied EXCEPT ![i] = @ + 1]
  BY DEF Apply
<1>2. t \in Tasks /\ i \in Nat /\ TaskOfCall(t) /\ i \in t.begin .. t.end
  BY <1>1 DEF IInv, TasksApart, Types
<1>3. /\ range \in Ranges /\ range[1] < range[2] /\ t.future \in Nat \ {0}
      /\ applied \in [Indices(range) -> Nat]
      /\ Part(t.future) \subseteq Indices(range) /\ Part(t.future) = t.begin .. t.end - 1
  BY <1>2, TaskFacts
<1>4. t.begin \in Nat /\ t.end \in Nat
  BY <1>2 DEF Tasks
<1>5. i \in Part(t.future)
  BY <1>1, <1>2, <1>3, <1>4
<1>6. applied[i] = 0 /\ \A j \in Part(t.future) : j < i => applied[j] = 1 /\ j \notin Failing
  BY <1>1, <1>2, <1>5 DEF IInv, CallsCounted
<1>7. applied' = [applied EXCEPT ![i] = 1] /\ applied' \in [Indices(range) -> Nat] /\ applied'[i] = 1
  BY <1>1, <1>3, <1>5, <1>6
<1>8. ASSUME NEW f \in DOMAIN futures, f # t.future
      PROVE  i \notin Part(f) /\ \A j \in Part(f) : applied'[j] = applied[j]
  <2>1. f \in Nat \ {0}
    BY DEF IInv, Types
  <2>2. i \notin Part(f) /\ Part(f) \subseteq Indices(range)
    BY <1>3, <1>5, <1>8, <2>1, ChunksDisjoint, ChunkInRange
  <2> QED
    BY <2>2, <1>3, <1>7
<1> QED
  BY <1>1, <1>2, <1>3, <1>4, <1>5, <1>6, <1>7, <1>8

LEMMA ApplyInv == ASSUME IInv, NEW w \in Workers, Apply(w) PROVE IInv'
<1> DEFINE t == worker[w].task
<1> DEFINE i == worker[w].index
<1>1. /\ worker[w].at = "run" /\ t \in Tasks /\ TaskOfCall(t)
      /\ i \in Part(t.future) /\ i \in Indices(range) /\ i \in Nat /\ i < t.end /\ t.end \in Nat
      /\ applied \in [Indices(range) -> Nat] /\ applied[i] = 0
      /\ applied' = [applied EXCEPT ![i] = 1] /\ applied' \in [Indices(range) -> Nat] /\ applied'[i] = 1
      /\ \A j \in Part(t.future) : j < i => applied[j] = 1 /\ j \notin Failing
      /\ \A f \in DOMAIN futures : f # t.future => i \notin Part(f)
      /\ \A f \in DOMAIN futures : f # t.future => \A j \in Part(f) : applied'[j] = applied[j]
  BY ApplyFacts
<1>2. UNCHANGED <<queue, stop, caller, range, thrown, fnAlive, callsMade>>
  BY DEF Apply
<1>3. t.future \in DOMAIN futures /\ t.future \in Nat \ {0} /\ callsMade > 0 /\ range \in Ranges /\ range[1] < range[2]
  BY <1>1, TaskFacts
<1>4. Len(futures') = Len(futures) /\ DOMAIN futures' = DOMAIN futures
  BY <1>3 DEF Apply, Complete, IInv, Types
<1>5. Covered'
  <2>1. Begin(range, t.future + 1) <= Begin(range, Len(futures) + 1) /\ Begin(range, Len(futures) + 1) \in Nat
    <3>1. t.future < Len(futures) + 1 /\ Len(futures) + 1 \in Nat \ {0}
      BY <1>3 DEF IInv, Types
    <3> QED
      BY <3>1, <1>3, Chunks
  <2>2. i < Begin(range, Len(futures) + 1)
    <3>1. i < End(range, t.future)
      BY <1>1 DEF TaskOfCall
    <3>2. t.future + 1 \in Nat \ {0}
      BY <1>3
    <3>3. /\ End(range, t.future) \in Nat /\ End(range, t.future) <= Begin(range, t.future + 1)
          /\ Begin(range, t.future + 1) \in Nat
      BY <1>3, <3>2, Chunks
    <3> QED
      BY <3>1, <3>3, <2>1, <1>1
  <2>3. \A j \in Indices(range) : j >= Begin(range, Len(futures) + 1) => applied'[j] = applied[j]
    BY <2>1, <2>2, <1>1
  <2> QED
    BY <2>3, <1>2, <1>4 DEF IInv, Covered, Calling, Part
<1>6. CASE i \in Failing
  <2>1. Complete(w, {i})
    BY <1>6 DEF Apply
  <2>2. Types'
    BY <2>1, <1>1, <1>2, <1>3 DEF IInv, Types, Complete, Futures, Tasks, NoTask
  <2>3. \E x \in Part(t.future) : /\ {i} = {x} /\ x \in Failing /\ applied'[x] = 1
                                /\ \A j \in Part(t.future) : j < x => j \notin Failing
    BY <1>1, <1>6
  <2> QED
    BY <1>1, <1>2, <1>5, <2>1, <2>2, <2>3, CompleteInv
<1>7. CASE i \notin Failing
  <2>1. worker' = [worker EXCEPT ![w].index = i + 1] /\ futures' = futures
    BY <1>7 DEF Apply
  <2>2. Types'
    <3> DEFINE States == [at : {"test", "asleep", "run", "returned"}, task : Tasks, index : Nat]
    <3>1. worker \in [Workers -> States] /\ i + 1 \in Nat
      BY <1>1 DEF IInv, Types
    <3>2. [worker[w] EXCEPT !.index = i + 1] \in States
      BY <3>1
    <3> HIDE DEF States
    <3>3. worker' \in [Workers -> States]
      BY <3>1, <3>2, <2>1
    <3> QED
      BY <3>3, <2>1, <1>1, <1>2, <1>3 DEF IInv, Types, States
  <2>3. /\ worker'[w].at = "run" /\ worker'[w].task = t /\ worker'[w].index = i + 1
        /\ \A v \in Workers \ {w} : worker'[v] = worker[v]
    BY <2>1, <1>1 DEF IInv, Types
  <2>4. TasksApart'
    <3>1. i + 1 \in t.begin .. t.end
      BY <1>1 DEF IInv, TasksApart, Tasks
    <3>2. \A v \in Workers : (worker'[v].at = "run" <=> worker[v].at = "run") /\ worker'[v].task = worker[v].task
      BY <1>1, <2>3
    <3> QED
      BY <1>2, <2>1, <2>3, <3>1, <3>2 DEF IInv, TasksApart, TaskOfCall
  <2>5. CallsCounted'
    <3>1. \A q \in DOMAIN queue : \A j \in Part(queue[q].future) : applied'[j] = 0
      BY <1>1 DEF IInv, TasksApart, TaskOfCall, CallsCounted
    <3>2. \A v \in Workers \ {w} : worker[v].at = "run" =>
            \A j \in Part(worker[v].task.future) :
               IF j < worker[v].index THEN applied'[j] = 1 /\ j \notin Failing ELSE applied'[j] = 0
      BY <1>1 DEF IInv, TasksApart, TaskOfCall, CallsCounted
    <3>3. \A j \in Part(t.future) :
            IF j < i + 1 THEN applied'[j] = 1 /\ j \notin Failing ELSE applied'[j] = 0
      <4> SUFFICES ASSUME NEW j \in Part(t.future)
                   PROVE IF j < i + 1 THEN applied'[j] = 1 /\ j \notin Failing ELSE applied'[j] = 0
        OBVIOUS
      <4>1. j \in Nat /\ j \in Indices(range)
        BY <1>3, ChunkInRange
      <4>2. CASE j = i
        BY <4>2, <1>1, <1>7
      <4>3. CASE j < i
        BY <4>1, <4>3, <1>1
      <4>4. CASE j > i
        BY <4>1, <4>4, <1>1 DEF IInv, CallsCounted
      <4> QED
        BY <4>1, <4>2, <4>3, <4>4, <1>1
    <3>4. \A f \in DOMAIN futures : futures[f].done => f # t.future /\ Told(f)
      BY <1>1 DEF IInv, CallsCounted, TaskOfCall
    <3>5. \A f \in DOMAIN futures : futures[f].done => Told(f)'
      BY <3>4, <1>1, <1>2, <2>1 DEF Told, Part
    <3> QED
      BY <1>2, <2>1, <2>3, <3>1, <3>2, <3>3, <3>5 DEF CallsCounted, Part
  <2>6. CallerWaits'
    <3>1. Calling \/ thrown # {}
      BY <1>1 DEF IInv, CallerWaits, Quiet
    <3> QED
      BY <3>1, <2>1, <1>2 DEF IInv, CallerWaits, Calling
  <2> QED
    BY <2>2, <2>4, <2>5, <2>6, <1>5 DEF IInv
<1> QED
  BY <1>6, <1>7

-----------------------------------------------------------------------------
(* The caller *)

LEMMA ParallelForInv == ASSUME IInv, NEW r \in Ranges, ParallelFor(r) PROVE IInv'
<1> USE DEF ParallelFor
<1>1. Types /\ CallerWaits /\ caller.at = "idle" /\ ~fnAlive /\ thrown = {}
  BY DEF IInv, CallerWaits, Calling
<1>2. queue = <<>> /\ \A w \in Workers : worker[w].at # "run"
  BY <1>1 DEF CallerWaits, Calling, Quiet
<1>3. r[1] \in Nat /\ r[2] \in Nat
  BY PoolAssumption
<1>4. applied' \in [Indices(r) -> Nat] /\ \A i \in Indices(r) : applied'[i] = 0
  OBVIOUS
<1>5. Types'
  <2>1. <<>> \in Seq(Futures) /\ callsMade' \in Nat /\ callsMade' # 0
    BY <1>1 DEF Types
  <2>2. caller' \in [at : Places, k : Nat]
    BY <1>1 DEF Types, Places
  <2> QED
    BY <1>1, <1>4, <2>1, <2>2 DEF Types
<1>6. TasksApart' /\ CallsCounted'
  BY <1>2 DEF TasksApart, CallsCounted
<1>7. CallerWaits'
  <2>1. callsMade' > 0
    BY <1>1 DEF Types
  <2>2. CASE r[1] >= r[2]
    BY <2>1, <2>2, <1>1, <1>2, <1>3 DEF CallerWaits, Calling, Quiet
  <2>3. CASE r[1] < r[2]
    BY <2>1, <2>3, <1>1, <1>3 DEF CallerWaits, Calling
  <2> QED
    BY <2>2, <2>3, <1>3
<1>8. Covered'
  <2>1. CASE r[1] >= r[2]
    BY <2>1, <1>1, <1>3 DEF Covered, Calling
  <2>2. CASE r[1] < r[2]
    <3>1. caller'.at = "enqueue" /\ Len(futures') + 1 = 1
      BY <2>2, <1>3
    <3>2. Begin(r, 1) = r[1]
      <4>1. 1 \in Nat \ {0}
        OBVIOUS
      <4> QED
        BY <2>2, <4>1, Chunks
    <3>3. \A i \in Indices(r) : i >= Begin(r, 1)
      BY <3>2, <1>3 DEF Indices
    <3> QED
      BY <3>1, <3>3, <1>4 DEF Covered
  <2> QED
    BY <2>1, <2>2, <1>3
<1> QED
  BY <1>5, <1>6, <1>7, <1>8 DEF IInv

LEMMA EnqueueInv == ASSUME IInv, Enqueue PROVE IInv'
<1> USE DEF Enqueue
<1>1. PICK k : k = Len(futures) + 1
  OBVIOUS
<1>2. PICK t : t = [begin |-> Begin(range, k), end |-> End(range, k), future |-> k]
  OBVIOUS
<1>3. /\ Types /\ caller.at = "enqueue" /\ caller.k = k /\ k \in Nat \ {0} /\ fnAlive /\ thrown = {}
      /\ callsMade > 0 /\ range \in Ranges /\ range[1] < range[2]
  BY <1>1 DEF IInv, CallerWaits, Calling, Types
<1>4. queue' = Append(queue, t) /\ futures' = Append(futures, [done |-> FALSE, error |-> {}])
  BY <1>3, <1>2
<1>5. /\ Begin(range, k) \in Nat /\ End(range, k) \in Nat /\ Begin(range, k) < End(range, k)
      /\ End(range, k) <= Begin(range, k + 1) /\ Begin(range, k + 1) \in Nat
      /\ End(range, k) = range[2] \/ End(range, k) = Begin(range, k + 1)
      /\ range[1] \in Nat /\ range[2] \in Nat
  <2>1. Begin(range, k) < range[2]
    BY <1>3
  <2>2. k + 1 \in Nat \ {0}
    BY <1>3
  <2> QED
    BY <1>3, <2>1, <2>2, Chunks, ChunkNotEmpty
<1>6. t \in Tasks
  BY <1>3, <1>5, <1>2 DEF Tasks
<1>7. /\ Len(futures') = k /\ DOMAIN futures' = DOMAIN futures \cup {k} /\ k \notin DOMAIN futures
      /\ futures'[k] = [done |-> FALSE, error |-> {}]
      /\ \A f \in DOMAIN futures : futures'[f] = futures[f]
      /\ futures' \in Seq(Futures)
  BY <1>3, <1>4, <1>1 DEF Types, Futures
<1>8. /\ queue' \in Seq(Tasks) /\ DOMAIN queue' = DOMAIN queue \cup {Len(queue) + 1}
      /\ queue'[Len(queue) + 1] = t
      /\ \A q \in DOMAIN queue : queue'[q] = queue[q] /\ q # Len(queue) + 1
  BY <1>4, <1>3, <1>6 DEF Types
<1>9. Types'
  BY <1>3, <1>7, <1>8 DEF Types, Places
<1>10. CallerWaits'
  BY <1>3, <1>7, <1>1 DEF CallerWaits, Calling
<1>11. TasksApart'
  <2>1. TaskOfCall(t)' /\ t.future = k
    BY <1>5, <1>7, <1>2 DEF TaskOfCall
  <2>2. \A q \in DOMAIN queue : TaskOfCall(queue[q])' /\ queue[q].future # k
    BY <1>7 DEF IInv, TasksApart, TaskOfCall
  <2>3. \A w \in Workers : worker[w].at = "run" => TaskOfCall(worker[w].task)' /\ worker[w].task.future # k
    BY <1>7 DEF IInv, TasksApart, TaskOfCall
  <2>4. \A q \in DOMAIN queue' : TaskOfCall(queue[q])'
    BY <2>1, <2>2, <1>8
  <2>5. \A p, q \in DOMAIN queue' : p # q => queue'[p].future # queue'[q].future
    BY <2>1, <2>2, <1>8 DEF IInv, TasksApart
  <2>6. \A w \in Workers : worker[w].at = "run" => \A q \in DOMAIN queue' : worker[w].task.future # queue'[q].future
    BY <2>1, <2>3, <1>8 DEF IInv, TasksApart
  <2> QED
    BY <2>3, <2>4, <2>5, <2>6 DEF IInv, TasksApart
<1>12. CallsCounted'
  <2>1. \A i \in Part(k) : applied[i] = 0
    <3> SUFFICES ASSUME NEW i \in Part(k) PROVE applied[i] = 0
      OBVIOUS
    <3>1. i \in Indices(range)
      BY <1>3, ChunkInRange
    <3>2. i >= Begin(range, k)
      BY <1>5 DEF Part
    <3> QED
      BY <3>1, <3>2, <1>3, <1>1 DEF IInv, Covered
  <2>2. t.future = k
    BY <1>2
  <2>3. \A q \in DOMAIN queue' : \A i \in Part(queue'[q].future) : applied[i] = 0
    BY <2>1, <2>2, <1>8 DEF IInv, CallsCounted
  <2>4. \A f \in DOMAIN futures' : futures'[f].done => Told(f)'
    <3> SUFFICES ASSUME NEW f \in DOMAIN futures, futures[f].done PROVE Told(f)'
      BY <1>7
    <3>1. Told(f) /\ futures'[f].error = futures[f].error
      BY <1>7 DEF IInv, CallsCounted
    <3> QED
      BY <3>1 DEF Told, Part
  <2> QED
    BY <2>3, <2>4 DEF IInv, CallsCounted, Part
<1>13. Covered'
  <2> SUFFICES ASSUME NEW i \in Indices(range)
               PROVE  IF i >= Begin(range, k + 1) THEN applied[i] = 0 ELSE \E f \in DOMAIN futures' : i \in Part(f)
    BY <1>3, <1>7 DEF Covered, Calling, Part
  <2>1. i \in Int /\ i < range[2]
    BY <1>5 DEF Indices
  <2>2. CASE i >= Begin(range, k)
    <3>1. applied[i] = 0
      BY <2>2, <1>3, <1>1 DEF IInv, Covered
    <3>2. i < Begin(range, k + 1) => i \in Part(k)
      BY <2>1, <2>2, <1>5 DEF Part
    <3> QED
      BY <2>1, <3>1, <3>2, <1>5, <1>7
  <2>3. CASE i < Begin(range, k)
    <3>1. \E f \in DOMAIN futures : i \in Part(f)
      BY <2>1, <2>3, <1>3, <1>5, <1>1 DEF IInv, Covered, Calling
    <3>2. i < Begin(range, k + 1)
      BY <2>1, <2>3, <1>5
    <3> QED
      BY <2>1, <3>1, <3>2, <1>5, <1>7
  <2> QED
    BY <2>1, <2>2, <2>3, <1>5
<1> QED
  BY <1>9, <1>10, <1>11, <1>12, <1>13 DEF IInv

LEMMA NotifyOneInv == ASSUME IInv, NotifyOne PROVE IInv'
<1> USE DEF NotifyOne
<1>1. Types /\ caller.at = "notify" /\ caller.k = Len(futures) /\ caller'.at = "enqueue" /\ caller'.k = Len(futures) + 1
  BY DEF IInv, CallerWaits
<1>2. \A w \in Workers : worker'[w].at = "run" => worker'[w] = worker[w]
  BY <1>1 DEF Types, Asleep
<1>3. TasksApart' /\ CallsCounted'
  BY <1>2, SameTasks
<1>4. Types'
  <2>1. worker' \in [Workers -> [at : {"test", "asleep", "run", "returned"}, task : Tasks, index : Nat]]
    BY <1>1 DEF Types, Asleep
  <2>2. caller' \in [at : Places, k : Nat]
    BY <1>1 DEF Types, Places
  <2> QED
    BY <1>1, <2>1, <2>2 DEF Types
<1>5. CallerWaits'
  BY <1>1 DEF IInv, CallerWaits, Calling
<1>6. Covered'
  BY <1>1 DEF IInv, Covered, Calling, Part
<1> QED
  BY <1>3, <1>4, <1>5, <1>6 DEF IInv

LEMMA AllEnqueuedInv == ASSUME IInv, AllEnqueued PROVE IInv'
<1> USE DEF AllEnqueued
<1> DEFINE k == Len(futures) + 1
<1>1. /\ Types /\ caller.at = "enqueue" /\ caller.k = k /\ k \in Nat \ {0} /\ fnAlive /\ thrown = {}
      /\ range \in Ranges /\ range[1] < range[2]
  BY DEF IInv, CallerWaits, Calling, Types
<1>2. TasksApart' /\ CallsCounted'
  BY SameTasks
<1>3. Types'
  BY <1>1 DEF Types, Places
<1>4. CallerWaits'
  BY <1>1 DEF IInv, CallerWaits, Calling, Types
<1>5. Covered'
  <2>1. Begin(range, k) >= range[2] /\ Begin(range, k) \in Nat /\ range[2] \in Nat /\ range[1] \in Nat
    <3>1. CASE k > NumWorkers
      <4>1. NumWorkers + 1 \in Nat \ {0} /\ (NumWorkers + 1 = k \/ NumWorkers + 1 < k)
        BY <3>1, <1>1, PoolAssumption
      <4>2. NumWorkers \in Nat \ {0} /\ NumWorkers < k /\ k \in Nat
        BY <3>1, <1>1, PoolAssumption
      <4>3. Begin(range, NumWorkers + 1) >= range[2] /\ Begin(range, NumWorkers + 1) <= Begin(range, k)
        BY <4>2, <1>1, Chunks
      <4>4. Begin(range, k) \in Nat /\ range[2] \in Nat /\ range[1] \in Nat /\ Begin(range, NumWorkers + 1) \in Nat
        BY <4>1, <1>1, Chunks
      <4> QED
        BY <4>3, <4>4
    <3>2. CASE Begin(range, k) >= range[2]
      BY <3>2, <1>1, Chunks
    <3> QED
      BY <3>1, <3>2, <1>1
  <2>2. \A i \in Indices(range) : ~(i >= Begin(range, k))
    BY <2>1 DEF Indices
  <2> QED
    BY <2>2, <1>1 DEF IInv, Covered, Calling, Part
<1> QED
  BY <1>2, <1>3, <1>4, <1>5 DEF IInv

\* When every future is done, no task is left.
LEMMA AllDone ==
  ASSUME IInv, \A f \in DOMAIN futures : futures[f].done
  PROVE  Quiet
<1>1. \A w \in Workers : worker[w].at # "run"
  BY DEF IInv, TasksApart, TaskOfCall
<1>2. queue = <<>>
  <2>1. 1 \notin DOMAIN queue
    BY DEF IInv, TasksApart, TaskOfCall
  <2>2. queue \in Seq(Tasks)
    BY DEF IInv, Types
  <2> QED
    BY <2>1, <2>2
<1> QED
  BY <1>1, <1>2 DEF Quiet

\* A step of the caller after the chunks are queued, which changes no task.
LEMMA CallerMoves ==
  ASSUME IInv, UNCHANGED <<queue, range, futures, applied, callsMade>>, caller.at \notin {"enqueue", "notify"},
         \A w \in Workers : worker'[w].at = "run" => worker'[w] = worker[w],
         Types', CallerWaits', caller'.at \notin {"enqueue", "notify"}, Calling' => Calling
  PROVE  IInv'
<1>1. TasksApart' /\ CallsCounted'
  BY SameTasks
<1>2. Covered'
  BY DEF IInv, Covered, Calling, Part
<1> QED
  BY <1>1, <1>2 DEF IInv

LEMMA GetInv == ASSUME IInv, Get PROVE IInv'
<1> USE DEF Get
<1>1. Types /\ CallerWaits /\ Calling /\ fnAlive /\ thrown = {} /\ caller.k \in DOMAIN futures
  BY DEF IInv, CallerWaits, Calling, Types
<1>2. futures[caller.k].error \in SUBSET Int /\ caller.k \in Nat
  <2>1. futures[caller.k] \in Futures
    BY <1>1 DEF Types
  <2> QED
    BY <2>1, <1>1 DEF Types, Futures
<1>3. CASE futures[caller.k].error = {}
  <2>1. Types'
    BY <1>1, <1>2, <1>3 DEF Types, Places
  <2>2. CallerWaits'
    <3>1. caller' = [caller EXCEPT !.k = caller.k + 1] /\ caller'.at = "get" /\ caller'.k = caller.k + 1
      BY <1>1, <1>3 DEF Types
    <3>2. \A f \in 1 .. caller'.k - 1 : f = caller.k \/ f \in 1 .. caller.k - 1
      BY <3>1, <1>2
    <3>3. caller'.k \in 1 .. Len(futures) + 1
      BY <3>1, <1>1 DEF Types
    <3> QED
      BY <3>1, <3>2, <3>3, <1>1, <1>3 DEF CallerWaits, Calling
  <2> QED
    BY <2>1, <2>2, <1>1, <1>3, CallerMoves DEF Calling, Types
<1>4. CASE futures[caller.k].error # {}
  <2>1. caller' = [at |-> "thrown", k |-> 0] /\ thrown' = futures[caller.k].error
    BY <1>4
  <2>2. Types'
    BY <1>1, <1>2, <2>1 DEF Types, Places
  <2>3. CallerWaits'
    BY <1>1, <1>4, <2>1 DEF CallerWaits, Calling
  <2> QED
    BY <2>1, <2>2, <2>3, CallerMoves DEF Calling
<1> QED
  BY <1>3, <1>4

LEMMA ReturnInv == ASSUME IInv, Return PROVE IInv'
<1> USE DEF Return
<1>1. Types /\ CallerWaits /\ Calling /\ thrown = {}
  BY DEF IInv, CallerWaits, Calling
<1>2. \A f \in DOMAIN futures : futures[f].done
  BY <1>1 DEF CallerWaits, Types
<1>3. Quiet /\ Quiet'
  BY <1>2, AllDone DEF Quiet
<1>4. Types'
  BY <1>1 DEF Types, Places
<1>5. CallerWaits'
  BY <1>1, <1>3 DEF CallerWaits, Calling
<1> QED
  BY <1>4, <1>5, CallerMoves DEF Calling

LEMMA UnwindInv == ASSUME IInv, Unwind PROVE IInv'
<1> USE DEF Unwind
<1>1. Types'
  BY DEF IInv, Types, Places
<1>2. CallerWaits'
  BY DEF IInv, CallerWaits, Calling
<1> QED
  BY <1>1, <1>2, CallerMoves DEF Calling

LEMMA LeaveScopeInv == ASSUME IInv, LeaveScope PROVE IInv'
<1> USE DEF LeaveScope
<1>1. Types'
  BY DEF IInv, Types, Places
<1>2. CallerWaits'
  BY DEF IInv, CallerWaits, Calling, Quiet
<1> QED
  BY <1>1, <1>2, CallerMoves DEF Calling

LEMMA StopInv == ASSUME IInv, Stop PROVE IInv'
<1> USE DEF Stop
<1>1. caller' = [at |-> "notifyAll", k |-> caller.k] /\ caller.k \in Nat
  BY DEF IInv, Types
<1>2. Types'
  BY <1>1 DEF IInv, Types, Places
<1>3. CallerWaits'
  BY <1>1 DEF IInv, CallerWaits, Calling, Quiet
<1> QED
  BY <1>1, <1>2, <1>3, CallerMoves DEF Calling

LEMMA NotifyAllInv == ASSUME IInv, NotifyAll PROVE IInv'
<1> USE DEF NotifyAll
<1>1. worker' \in [Workers -> [at : {"test", "asleep", "run", "returned"}, task : Tasks, index : Nat]]
  BY DEF IInv, Types, Asleep
<1>2. \A w \in Workers : worker'[w].at = "run" => worker'[w] = worker[w]
  BY DEF IInv, Types, Asleep
<1>3. Types'
  BY <1>1 DEF IInv, Types, Places
<1>4. CallerWaits'
  BY <1>2 DEF IInv, CallerWaits, Calling, Quiet
<1> QED
  BY <1>2, <1>3, <1>4, CallerMoves DEF Calling

LEMMA JoinInv == ASSUME IInv, Join PROVE IInv'
<1> USE DEF Join
<1>1. caller' = [at |-> "join", k |-> caller.k + 1] /\ caller.k + 1 \in Nat
  BY DEF IInv, Types
<1>2. Types'
  BY <1>1 DEF IInv, Types, Places
<1>3. CallerWaits'
  BY <1>1 DEF IInv, CallerWaits, Calling, Quiet
<1> QED
  BY <1>1, <1>2, <1>3, CallerMoves DEF Calling

LEMMA UnchangedInv == ASSUME IInv, UNCHANGED vars PROVE IInv'
<1>1. TasksApart' /\ CallsCounted'
  BY SameTasks DEF vars
<1>2. Types' /\ CallerWaits'
  BY DEF vars, IInv, Types, CallerWaits, Calling, Quiet
<1>3. Covered'
  BY SameCover DEF vars
<1> QED
  BY <1>1, <1>2, <1>3 DEF IInv

LEMMA NextInv == IInv /\ [Next]_vars => IInv'
<1> SUFFICES ASSUME IInv, [Next]_vars PROVE IInv'
  OBVIOUS
<1>1. ASSUME NEW r \in Ranges, ParallelFor(r) PROVE IInv'
  BY <1>1, ParallelForInv
<1>2. CASE Enqueue
  BY <1>2, EnqueueInv
<1>3. CASE NotifyOne
  BY <1>3, NotifyOneInv
<1>4. CASE AllEnqueued
  BY <1>4, AllEnqueuedInv
<1>5. CASE Get
  BY <1>5, GetInv
<1>6. CASE Return
  BY <1>6, ReturnInv
<1>7. CASE Unwind
  BY <1>7, UnwindInv
<1>8. CASE LeaveScope
  BY <1>8, LeaveScopeInv
<1>9. CASE Stop
  BY <1>9, StopInv
<1>10. CASE NotifyAll
  BY <1>10, NotifyAllInv
<1>11. CASE Join
  BY <1>11, JoinInv
<1>12. ASSUME NEW w \in Workers, TestPredicate(w) PROVE IInv'
  BY <1>12, TestPredicateInv
<1>13. ASSUME NEW w \in Workers, Apply(w) PROVE IInv'
  BY <1>13, ApplyInv
<1>14. ASSUME NEW w \in Workers, FinishChunk(w) PROVE IInv'
  BY <1>14, FinishChunkInv
<1>15. ASSUME NEW w \in Workers, WakeSpuriously(w) PROVE IInv'
  BY <1>15, WakeSpuriouslyInv
<1>16. CASE UNCHANGED vars
  BY <1>16, UnchangedInv
<1> QED
  BY <1>1, <1>2, <1>3, <1>4, <1>5, <1>6, <1>7, <1>8, <1>9, <1>10, <1>11, <1>12, <1>13, <1>14, <1>15, <1>16
     DEF Next, Caller, Worker

-----------------------------------------------------------------------------

\* Where the caller is, what the futures hold and which calls were made agree in
\* every state.
THEOREM InvariantHolds == Spec => []IInv
BY InitInv, NextInv, PTL DEF Spec

\* When parallelFor has returned and not thrown, nothing calls the function any
\* more, for any number of workers, any ranges and any failing indices
\* (ThreadPool.h:84).
THEOREM FunctionOutlivesTasks == Spec => []FnOutlivesTasks
<1>1. IInv => FnOutlivesTasks
  BY DEF IInv, CallerWaits, FnOutlivesTasks
<1> QED
  BY <1>1, InvariantHolds, PTL

-----------------------------------------------------------------------------
(* The sequential loop *)

LEMMA InitRefines == Init => Loop!Init
BY DEF Init, Loop!Init, Outcome

LEMMA StartRefines == ASSUME IInv, NEW r \in Ranges, ParallelFor(r) PROVE Loop!Start(r)
<1> USE DEF ParallelFor
<1>1. caller.at = "idle" /\ thrown = {} /\ callsMade \in Nat /\ callsMade' = callsMade + 1
  BY DEF IInv, CallerWaits, Types
<1>2. r[1] \in Nat /\ r[2] \in Nat
  BY PoolAssumption
<1>3. Loop!Indices(r) = Indices(r) /\ (Indices(r) = {} <=> r[1] >= r[2])
  BY <1>2 DEF Indices, Loop!Indices
<1>4. Outcome \in {"idle", "returned"}
  BY <1>1 DEF Outcome
<1>5. Outcome' = IF Indices(r) = {} THEN "returned" ELSE "running"
  BY <1>1, <1>2, <1>3 DEF Outcome
<1> QED
  BY <1>1, <1>3, <1>4, <1>5 DEF Loop!Start

LEMMA ApplyRefines == ASSUME IInv, NEW w \in Workers, Apply(w) PROVE Loop!Apply(worker[w].index) /\ worker[w].index \in Indices(range)
<1> DEFINE i == worker[w].index
<1>1. worker[w].at = "run" /\ i \in Indices(range) /\ applied[i] = 0 /\ applied' = [applied EXCEPT ![i] = 1]
  BY ApplyFacts
<1>2. UNCHANGED <<caller, range, thrown, callsMade>>
  BY DEF Apply
<1>3. Outcome \in {"running", "threw"}
  BY <1>1 DEF IInv, CallerWaits, Calling, Quiet, Outcome
<1>4. Outcome' = Outcome
  BY <1>2 DEF Outcome
<1> QED
  BY <1>1, <1>2, <1>3, <1>4 DEF Loop!Apply

\* The caller asked for the futures in order: nothing failed in the chunks before the one it is at.
LEMMA AskedInOrder ==
  ASSUME IInv, caller.at = "get"
  PROVE  /\ range \in Ranges /\ range[1] < range[2] /\ caller.k \in Nat \ {0}
         /\ \A i \in Indices(range) : i \in Int /\ \E f \in DOMAIN futures : f \in Nat \ {0} /\ i \in Part(f)
         /\ \A f \in DOMAIN futures : f < caller.k => \A i \in Part(f) : applied[i] = 1 /\ i \notin Failing
<1>1. /\ range \in Ranges /\ range[1] < range[2] /\ caller.k \in Nat \ {0} /\ futures \in Seq(Futures)
      /\ \A f \in 1 .. caller.k - 1 : futures[f].done /\ futures[f].error = {}
  BY DEF IInv, CallerWaits, Calling, Types
<1>2. \A i \in Indices(range) : i \in Int /\ \E f \in DOMAIN futures : f \in Nat \ {0} /\ i \in Part(f)
  BY <1>1 DEF IInv, Covered, Calling, Indices
<1>3. ASSUME NEW f \in DOMAIN futures, f < caller.k, NEW i \in Part(f) PROVE applied[i] = 1 /\ i \notin Failing
  <2>1. f \in 1 .. caller.k - 1
    BY <1>1, <1>3
  <2>2. Told(f) /\ futures[f].error = {}
    BY <1>1, <2>1 DEF IInv, CallsCounted
  <2> QED
    BY <2>2 DEF Told
<1> QED
  BY <1>1, <1>2, <1>3

LEMMA GetRefines == ASSUME IInv, Get, futures[caller.k].error # {} PROVE Loop!Throw
<1> USE DEF Get
<1> DEFINE k == caller.k
<1>1. /\ caller.at = "get" /\ k \in DOMAIN futures /\ futures[k].done /\ thrown = {}
      /\ thrown' = futures[k].error /\ caller'.at = "thrown"
  BY DEF IInv, CallerWaits, Calling, Types
<1>2. PICK x \in Part(k) : /\ futures[k].error = {x} /\ x \in Failing /\ applied[x] = 1
                           /\ \A i \in Part(k) : i < x => i \notin Failing
  BY <1>1 DEF IInv, CallsCounted, Told
<1>3. x \in Indices(range) /\ x \in Int /\ x < End(range, k) /\ k \in Nat \ {0} /\ End(range, k) \in Nat
      /\ range \in Ranges /\ range[1] < range[2]
  BY <1>1, AskedInOrder, ChunkInRange, Chunks DEF Part
<1>4. ASSUME NEW i \in Indices(range), i \in Failing PROVE x <= i
  <2>1. PICK f \in DOMAIN futures : f \in Nat \ {0} /\ i \in Part(f) /\ i \in Int
    BY <1>1, AskedInOrder
  <2>2. ~(f < k)
    BY <1>1, <1>4, <2>1, AskedInOrder
  <2>3. CASE f = k
    BY <2>1, <2>3, <1>2, <1>3, <1>4
  <2>4. CASE k < f
    <3>1. End(range, k) <= Begin(range, k + 1) /\ Begin(range, k + 1) <= Begin(range, f)
      BY <2>1, <2>4, <1>3, Chunks
    <3>2. k + 1 \in Nat \ {0}
      BY <1>3
    <3>3. Begin(range, k + 1) \in Nat /\ Begin(range, f) \in Nat
      BY <2>1, <3>2, <1>3, Chunks
    <3>4. Begin(range, f) <= i
      BY <2>1, <3>3 DEF Part
    <3> QED
      BY <3>1, <3>3, <3>4, <2>1, <1>3
  <2> QED
    BY <2>1, <2>2, <2>3, <2>4, <1>3
<1>5. Loop!FirstFailure(range) = {x}
  <2>1. Loop!Indices(range) = Indices(range)
    BY DEF Indices, Loop!Indices
  <2>2. \A i \in Indices(range) : i \in Int
    BY <1>1, AskedInOrder
  <2> QED
    BY <2>1, <2>2, <1>2, <1>3, <1>4 DEF Loop!FirstFailure
<1>6. Outcome = "running" /\ Outcome' = "threw"
  BY <1>1, <1>2 DEF Outcome
<1> QED
  BY <1>1, <1>2, <1>5, <1>6 DEF Loop!Throw

LEMMA ReturnRefines == ASSUME IInv, Return PROVE Loop!Return
<1> USE DEF Return
<1>1. caller.at = "get" /\ thrown = {} /\ callsMade > 0 /\ \A f \in DOMAIN futures : f < caller.k
  BY DEF IInv, CallerWaits, Calling, Types
<1>2. \A i \in Indices(range) : applied[i] = 1 /\ i \notin Failing
  BY <1>1, AskedInOrder
<1>3. Loop!Indices(range) = Indices(range)
  BY DEF Indices, Loop!Indices
<1>4. Outcome = "running" /\ Outcome' = "returned"
  BY <1>1 DEF Outcome
<1> QED
  BY <1>2, <1>3, <1>4 DEF Loop!Return, Loop!FirstFailure

LEMMA NextRefines == IInv /\ [Next]_vars => [Loop!Next]_Loop!vars
<1> SUFFICES ASSUME IInv, [Next]_vars PROVE [Loop!Next]_Loop!vars
  OBVIOUS
<1>1. Loop!Indices(range) = Indices(range)
  BY DEF Indices, Loop!Indices
<1>2. ASSUME NEW r \in Ranges, ParallelFor(r) PROVE Loop!Next
  BY <1>2, StartRefines DEF Loop!Next
<1>3. ASSUME NEW w \in Workers, Apply(w) PROVE Loop!Next
  BY <1>1, <1>3, ApplyRefines DEF Loop!Next
<1>4. CASE Return
  BY <1>4, ReturnRefines DEF Loop!Next
<1>5. CASE Get /\ futures[caller.k].error # {}
  BY <1>5, GetRefines DEF Loop!Next
<1>6. CASE Get /\ futures[caller.k].error = {}
  <2>1. caller.at = "get" /\ caller'.at = "get" /\ UNCHANGED <<range, applied, thrown>>
    BY <1>6 DEF Get, IInv, Types
  <2> QED
    BY <2>1 DEF Outcome, Loop!vars
<1>7. CASE Enqueue \/ NotifyOne \/ AllEnqueued
  <2>1. /\ caller.at \in {"enqueue", "notify", "get"} /\ caller'.at \in {"enqueue", "notify", "get"}
        /\ UNCHANGED <<range, applied, thrown>>
    BY <1>7 DEF Enqueue, NotifyOne, AllEnqueued, IInv, Types
  <2> QED
    BY <2>1 DEF Outcome, Loop!vars
<1>8. CASE Unwind \/ LeaveScope \/ Stop \/ NotifyAll \/ Join
  <2>1. /\ caller.at \notin {"enqueue", "notify", "get"} /\ caller'.at \notin {"enqueue", "notify", "get"}
        /\ UNCHANGED <<range, applied, thrown, callsMade>>
    BY <1>8 DEF Unwind, LeaveScope, Stop, NotifyAll, Join, IInv, Types
  <2> QED
    BY <2>1 DEF Outcome, Loop!vars
<1>9. ASSUME NEW w \in Workers, TestPredicate(w) \/ FinishChunk(w) \/ WakeSpuriously(w) PROVE UNCHANGED Loop!vars
  <2>1. UNCHANGED <<caller, range, applied, thrown, callsMade>>
    BY <1>9 DEF TestPredicate, FinishChunk, WakeSpuriously
  <2> QED
    BY <2>1 DEF Outcome, Loop!vars
<1>10. CASE UNCHANGED vars
  BY <1>10 DEF vars, Outcome, Loop!vars
<1> QED
  BY <1>2, <1>3, <1>4, <1>5, <1>6, <1>7, <1>8, <1>9, <1>10 DEF Next, Caller, Worker

\* parallelFor calls the function on each index as the sequential loop does, and
\* throws the exception the sequential loop would throw, on any number of workers
\* (Workbook.cpp:474).
THEOREM ImplementsParallelFor == Spec => LikeSequential
BY InitRefines, InitInv, NextInv, NextRefines, PTL DEF Spec, LikeSequential, Loop!Spec
=============================================================================
