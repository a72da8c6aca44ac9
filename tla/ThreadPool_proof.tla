-------------------------- MODULE ThreadPool_proof --------------------------
(***************************************************************************)
(* The thread pool and its client do what BatchConversion promises, for any *)
(* number of workers and files.                                             *)
(***************************************************************************)
EXTENDS ThreadPool, SequenceTheorems, TLAPS

-----------------------------------------------------------------------------
\* The inductive invariant: where each file is.

InQueue(f) == \E a \in 1..Len(tasks) : tasks[a] = f
Busy(w) == at[w] \in {"taken", "running"}
Holds(w, f) == Busy(w) /\ task[w] = f

\* A file that is not converted is still to be enqueued, queued, or held by a worker.
Conserved ==
    \A f \in File : outcome[f] = "pending" <=> f >= next \/ InQueue(f) \/ \E w \in Worker : Holds(w, f)

\* ... in one place only.
Once ==
    /\ \A a, b \in 1..Len(tasks) : tasks[a] = tasks[b] => a = b
    /\ \A w \in Worker : Busy(w) => task[w] \in File /\ task[w] < next /\ ~InQueue(task[w])
    /\ \A a \in 1..Len(tasks) : tasks[a] < next
    /\ \A v, w \in Worker : Busy(v) /\ Busy(w) /\ task[v] = task[w] => v = w

\* The pool is stopped after the last file was enqueued; a worker leaves only then,
\* with the queue empty, and main goes on only when all have left.
Shutdown ==
    /\ main \notin {"enqueue", "notify"} => next = NumFiles + 1
    /\ stop => main \notin {"enqueue", "notify"}
    /\ \A w \in Worker : at[w] = "exited" => stop /\ tasks = <<>>
    /\ main \in {"report", "end"} => \A w \in Worker : at[w] = "exited"

Counted ==
    /\ failureCount > 0 <=> \E f \in File : outcome[f] = "failed"
    /\ main # "end" => exitCode = NoExit

IInv == TypeOK /\ Conserved /\ Once /\ Shutdown /\ Counted

-----------------------------------------------------------------------------
LEMMA InitType == Init => TypeOK
<1> SUFFICES ASSUME Init PROVE TypeOK
  OBVIOUS
<1>1. next \in 1..(NumFiles + 1) /\ activeThreads \in Int /\ successCount \in Nat /\ failureCount \in Nat
  BY NumFilesAssumption DEF Init
<1>2. tasks \in Seq(File) /\ waitSet \subseteq Worker \cup {Main}
  BY DEF Init
<1>4. stop \in BOOLEAN
  BY DEF Init
<1>3. /\ at \in [Worker -> {"lock", "taken", "running", "ran", "exited"}]
      /\ task \in [Worker -> File \cup {NoFile}]
      /\ outcome \in [File -> Outcome \cup {"pending"}]
  BY DEF Init
<1> QED
  BY <1>1, <1>2, <1>3, <1>4 DEF Init, TypeOK

LEMMA InitIInv == Init => IInv
<1> SUFFICES ASSUME Init PROVE IInv
  OBVIOUS
<1>1. Conserved /\ Once
  BY NumFilesAssumption DEF Init, Conserved, Once, InQueue, Busy, Holds, File
<1>2. Shutdown /\ Counted
  BY DEF Init, Shutdown, Counted
<1> QED
  BY <1>1, <1>2, InitType DEF IInv

(* Every step keeps the types.                                              *)
LEMMA TypeStep == TypeOK /\ Once /\ [Next]_vars => TypeOK'
<1> SUFFICES ASSUME TypeOK, Once, [Next]_vars PROVE TypeOK'
  OBVIOUS
<1> USE DEF TypeOK
<1>1. ASSUME NEW w \in Worker, WorkerWaits(w) PROVE TypeOK'
  BY <1>1 DEF WorkerWaits, workers, results
<1>2. ASSUME NEW w \in Worker, WorkerExits(w) PROVE TypeOK'
  BY <1>2 DEF WorkerExits, pool, results
<1>3. ASSUME NEW w \in Worker, Take(w) PROVE TypeOK'
  <2>1. Head(tasks) \in File /\ Tail(tasks) \in Seq(File)
    BY <1>3, HeadTailProperties DEF Take
  <2> QED
    BY <1>3, <2>1 DEF Take, results
<1>4. ASSUME NEW w \in Worker, Begin(w) PROVE TypeOK'
  BY <1>4 DEF Begin, results
<1>5. ASSUME NEW w \in Worker, Convert(w) PROVE TypeOK'
  <2>1. task[w] \in File
    BY <1>5 DEF Convert, Once, Busy
  <2> QED
    BY <1>5, <2>1 DEF Convert, pool
<1>6. ASSUME NEW w \in Worker, Finish(w) PROVE TypeOK'
  BY <1>6 DEF Finish, results
<1>7. CASE Enqueue
  <2>1. next \in File /\ next + 1 \in 1..(NumFiles + 1)
    BY <1>7, NumFilesAssumption DEF Enqueue, MoreFiles, File
  <2>2. Append(tasks, next) \in Seq(File)
    BY <2>1
  <2> QED
    BY <1>7, <2>1, <2>2 DEF Enqueue, workers, results
<1>8. CASE NotifyOne
  BY <1>8 DEF NotifyOne, workers, results
<1>9. CASE CallWaitAll
  BY <1>9 DEF CallWaitAll, pool, workers, results
<1>10. CASE MainWaits
  BY <1>10 DEF MainWaits, workers, results
<1>11. CASE WaitAllReturns
  BY <1>11 DEF WaitAllReturns, pool, workers, results
<1>12. CASE Stop
  BY <1>12 DEF Stop, workers, results
<1>13. CASE NotifyAll
  BY <1>13 DEF NotifyAll, workers, results
<1>14. CASE Join
  BY <1>14 DEF Join, pool, workers, results
<1>15. CASE Report
  BY <1>15 DEF Report, pool, workers, results
<1>16. ASSUME NEW t, SpuriousWakeup(t) PROVE TypeOK'
  BY <1>16 DEF SpuriousWakeup, workers, results
<1>17. CASE Terminated \/ UNCHANGED vars
  BY <1>17 DEF Terminated, vars
<1> QED
  BY <1>1, <1>2, <1>3, <1>4, <1>5, <1>6, <1>7, <1>8, <1>9, <1>10, <1>11, <1>12, <1>13,
     <1>14, <1>15, <1>16, <1>17 DEF Next, WorkerStep, MainStep

(* Every file stays in one place: the queue, a worker or the results.        *)
LEMMA PlaceStep ==
    TypeOK /\ Conserved /\ Once /\ [Next]_vars => Conserved' /\ Once'
<1> SUFFICES ASSUME TypeOK, Conserved, Once, [Next]_vars PROVE Conserved' /\ Once'
  OBVIOUS
<1>1. CASE UNCHANGED <<tasks, task, next, outcome>> /\ \A w \in Worker : Busy(w)' <=> Busy(w)
  BY <1>1 DEF Conserved, Once, InQueue, Holds
<1>2. ASSUME NEW w \in Worker, Take(w) PROVE Conserved' /\ Once'
  <2>1. tasks # <<>> /\ task' = [task EXCEPT ![w] = Head(tasks)] /\ tasks' = Tail(tasks)
        /\ at' = [at EXCEPT ![w] = "taken"] /\ UNCHANGED <<next, outcome>> /\ at[w] = "lock"
    BY <1>2 DEF Take, AtLock, results
  <2>2. Len(tasks) \in Nat /\ Len(tasks) > 0 /\ tasks[1] = Head(tasks)
        /\ Len(tasks') = Len(tasks) - 1
        /\ \A a \in 1..Len(tasks') : tasks'[a] = tasks[a + 1]
    BY <2>1 DEF TypeOK
  <2>3. \A f : InQueue(f)' <=> InQueue(f) /\ f # tasks[1]
    <3> SUFFICES ASSUME NEW f PROVE InQueue(f)' <=> InQueue(f) /\ f # tasks[1]
      OBVIOUS
    <3>1. ASSUME NEW a \in 1..Len(tasks), tasks[a] = f, f # tasks[1] PROVE InQueue(f)'
      <4>1. a - 1 \in 1..Len(tasks') /\ (a - 1) + 1 = a
        BY <2>2, <3>1
      <4> QED
        BY <2>2, <3>1, <4>1 DEF InQueue
    <3>2. ASSUME NEW a \in 1..Len(tasks'), tasks'[a] = f
          PROVE  InQueue(f) /\ f # tasks[1]
      <4>1. a + 1 \in 1..Len(tasks) /\ tasks[a + 1] = f /\ a + 1 # 1 /\ 1 \in 1..Len(tasks)
        BY <2>2, <3>2
      <4> QED
        BY <4>1 DEF InQueue, Once
    <3> QED
      BY <3>1, <3>2 DEF InQueue
  <2>4. InQueue(tasks[1]) /\ tasks[1] < next /\ tasks[1] \in File
    BY <2>2 DEF InQueue, Once, TypeOK
  <2>5. task'[w] = tasks[1] /\ at'[w] = "taken"
        /\ \A v \in Worker : v # w => task'[v] = task[v] /\ at'[v] = at[v]
    BY <2>1, <2>2 DEF TypeOK
  <2>6. \A v \in Worker : Busy(v)' <=> Busy(v) \/ v = w
    BY <2>1, <2>5 DEF Busy
  <2>7. Conserved'
    <3> SUFFICES ASSUME NEW f \in File
                 PROVE  outcome[f] = "pending"
                          <=> f >= next \/ InQueue(f)' \/ \E v \in Worker : Busy(v)' /\ task'[v] = f
      BY <2>1 DEF Conserved, Holds
    <3>1. CASE f = tasks[1]
      BY <2>4, <2>5, <2>6, <3>1 DEF Conserved
    <3>2. CASE f # tasks[1]
      <4>1. ~(Busy(w) /\ task[w] = f)
        BY <2>1 DEF Busy
      <4>2. (\E v \in Worker : Busy(v)' /\ task'[v] = f) <=> (\E v \in Worker : Busy(v) /\ task[v] = f)
        BY <2>5, <2>6, <3>2, <4>1
      <4> QED
        BY <2>3, <3>2, <4>2 DEF Conserved, Holds
    <3> QED
      BY <3>1, <3>2
  <2>8. Once'
    <3>1. \A a, b \in 1..Len(tasks') : tasks'[a] = tasks'[b] => a = b
      <4> SUFFICES ASSUME NEW a \in 1..Len(tasks'), NEW b \in 1..Len(tasks'), tasks'[a] = tasks'[b]
                   PROVE  a = b
        OBVIOUS
      <4>1. a + 1 \in 1..Len(tasks) /\ b + 1 \in 1..Len(tasks) /\ tasks[a + 1] = tasks[b + 1]
        BY <2>2
      <4>2. a + 1 = b + 1
        BY <4>1 DEF Once
      <4> QED
        BY <4>2
    <3>2. \A v \in Worker : Busy(v)' => task'[v] \in File /\ task'[v] < next
      BY <2>4, <2>5, <2>6 DEF Once
    <3>5. \A f : \A v \in Worker : Busy(v)' /\ task'[v] = f => ~InQueue(f)'
      BY <2>3, <2>5, <2>6 DEF Once
    <3>3. \A a \in 1..Len(tasks') : tasks'[a] < next
      <4> SUFFICES ASSUME NEW a \in 1..Len(tasks') PROVE tasks'[a] < next
        OBVIOUS
      <4>1. a + 1 \in 1..Len(tasks) /\ tasks'[a] = tasks[a + 1]
        BY <2>2
      <4> QED
        BY <4>1 DEF Once
    <3>4. \A u, v \in Worker : Busy(u)' /\ Busy(v)' /\ task'[u] = task'[v] => u = v
      BY <2>4, <2>5, <2>6 DEF Once
    <3>6. \A v \in Worker : Busy(v)' => ~\E a \in 1..Len(tasks') : tasks'[a] = task'[v]
      BY <3>5 DEF InQueue
    <3>7. UNCHANGED next
      BY <2>1
    <3> QED
      BY <3>1, <3>2, <3>3, <3>4, <3>6, <3>7 DEF Once, InQueue
  <2> QED
    BY <2>7, <2>8
<1>3. ASSUME NEW w \in Worker, Convert(w) PROVE Conserved' /\ Once'
  <2>1. PICK o \in Outcome : outcome' = [outcome EXCEPT ![task[w]] = o]
    BY <1>3 DEF Convert
  <2>2. UNCHANGED <<tasks, task, next>> /\ at' = [at EXCEPT ![w] = "ran"] /\ at[w] = "running"
    BY <1>3 DEF Convert, pool
  <2>3. \A v \in Worker : Busy(v)' <=> Busy(v) /\ v # w
    BY <2>2 DEF Busy, TypeOK
  <2>4. Busy(w) /\ task[w] \in File /\ task[w] < next /\ ~InQueue(task[w])
    BY <2>2 DEF Busy, Once
  <2>5. Once'
    BY <2>2, <2>3 DEF Once, InQueue
  <2>6. Conserved'
    <3> SUFFICES ASSUME NEW f \in File
                 PROVE  outcome'[f] = "pending"
                          <=> f >= next \/ InQueue(f) \/ \E v \in Worker : Busy(v)' /\ task[v] = f
      BY <2>2 DEF Conserved, Holds, InQueue
    <3>1. CASE f = task[w]
      <4>1. outcome'[f] # "pending"
        BY <2>1, <2>4, <3>1 DEF TypeOK, Outcome
      <4>2. ~(f >= next)
        BY <2>4, <3>1 DEF File, TypeOK
      <4>3. ~(\E v \in Worker : Busy(v)' /\ task[v] = f)
        BY <2>3, <2>4, <3>1 DEF Once
      <4> QED
        BY <2>4, <3>1, <4>1, <4>2, <4>3
    <3>2. CASE f # task[w]
      <4>1. outcome'[f] = outcome[f]
        BY <2>1, <2>4, <3>2 DEF TypeOK
      <4>2. (\E v \in Worker : Busy(v)' /\ task[v] = f) <=> (\E v \in Worker : Busy(v) /\ task[v] = f)
        BY <2>3, <3>2
      <4> QED
        BY <4>1, <4>2 DEF Conserved, Holds
    <3> QED
      BY <3>1, <3>2
  <2> QED
    BY <2>5, <2>6
<1>4. CASE Enqueue
  <2>1. next \in File /\ next' = next + 1 /\ tasks' = Append(tasks, next)
        /\ UNCHANGED <<at, task, outcome>>
    BY <1>4, NumFilesAssumption DEF Enqueue, MoreFiles, File, TypeOK, workers, results
  <2>2. Len(tasks) \in Nat /\ Len(tasks') = Len(tasks) + 1 /\ tasks'[Len(tasks) + 1] = next
        /\ \A a \in 1..Len(tasks) : tasks'[a] = tasks[a]
    BY <2>1 DEF TypeOK
  <2>3. \A f : InQueue(f)' <=> InQueue(f) \/ f = next
    <3> SUFFICES ASSUME NEW f PROVE InQueue(f)' <=> InQueue(f) \/ f = next
      OBVIOUS
    <3>1. Len(tasks) + 1 \in 1..Len(tasks') /\ 1..Len(tasks) \subseteq 1..Len(tasks')
          /\ \A a \in 1..Len(tasks') : a \in 1..Len(tasks) \/ a = Len(tasks) + 1
      BY <2>2
    <3> QED
      BY <2>2, <3>1 DEF InQueue
  <2>4. \A w \in Worker : Busy(w)' <=> Busy(w)
    BY <2>1 DEF Busy
  <2>5. Conserved'
    <3> SUFFICES ASSUME NEW f \in File
                 PROVE  outcome[f] = "pending"
                          <=> f >= next + 1 \/ InQueue(f)' \/ \E v \in Worker : Busy(v)' /\ task[v] = f
      BY <2>1 DEF Conserved, Holds
    <3>1. f >= next <=> f >= next + 1 \/ f = next
      BY <2>1 DEF File
    <3> QED
      BY <2>3, <2>4, <3>1 DEF Conserved, Holds
  <2>6. \A f : f \in File /\ f < next => f < next + 1 /\ f # next
    BY <2>1 DEF File
  <2>7. \A a \in 1..Len(tasks) : tasks[a] \in File /\ tasks[a] < next /\ tasks[a] # next
    BY <2>6 DEF Once, TypeOK
  <2>8. Once'
    <3>1. \A a \in 1..Len(tasks') : a \in 1..Len(tasks) \/ a = Len(tasks) + 1
      BY <2>2
    <3>2. \A a, b \in 1..Len(tasks') : tasks'[a] = tasks'[b] => a = b
      BY <2>2, <2>7, <3>1 DEF Once
    <3>3. \A a \in 1..Len(tasks') : tasks'[a] < next + 1
      BY <2>1, <2>2, <2>6, <2>7, <3>1 DEF File
    <3>4. \A w \in Worker : Busy(w)' => task[w] \in File /\ task[w] < next + 1
      BY <2>4, <2>6 DEF Once
    <3>6. \A f : \A w \in Worker : Busy(w)' /\ task[w] = f => ~InQueue(f)'
      BY <2>3, <2>4, <2>6 DEF Once
    <3>7. \A w \in Worker : Busy(w)' => ~\E a \in 1..Len(tasks') : tasks'[a] = task[w]
      BY <3>6 DEF InQueue
    <3>5. \A v, w \in Worker : Busy(v)' /\ Busy(w)' /\ task[v] = task[w] => v = w
      BY <2>4 DEF Once
    <3> QED
      BY <2>1, <3>2, <3>3, <3>4, <3>5, <3>7 DEF Once, InQueue
  <2> QED
    BY <2>5, <2>8
<1>5. ASSUME NEW w \in Worker, WorkerWaits(w) PROVE Conserved' /\ Once'
  BY <1>5, <1>1 DEF WorkerWaits, workers, results, Busy
<1>6. ASSUME NEW w \in Worker, WorkerExits(w) \/ Begin(w) \/ Finish(w) PROVE Conserved' /\ Once'
  <2>1. \A v \in Worker : Busy(v)' <=> Busy(v)
    BY <1>6 DEF WorkerExits, Begin, Finish, AtLock, Busy, TypeOK
  <2>2. UNCHANGED <<tasks, task, next, outcome>>
    BY <1>6 DEF WorkerExits, Begin, Finish, pool, results
  <2> QED
    BY <1>1, <2>1, <2>2
<1>7. CASE MainStep /\ ~Enqueue
  <2>1. UNCHANGED <<tasks, at, task, next, outcome>>
    BY <1>7 DEF MainStep, NotifyOne, CallWaitAll, MainWaits, WaitAllReturns, Stop, NotifyAll,
       Join, Report, pool, workers, results
  <2> QED
    BY <1>1, <2>1 DEF Busy
<1>8. ASSUME NEW t, SpuriousWakeup(t) PROVE Conserved' /\ Once'
  BY <1>1, <1>8 DEF SpuriousWakeup, workers, results, Busy
<1>9. CASE Terminated \/ UNCHANGED vars
  BY <1>1, <1>9 DEF Terminated, vars, Busy
<1> QED
  BY <1>2, <1>3, <1>4, <1>5, <1>6, <1>7, <1>8, <1>9 DEF Next, WorkerStep

(* Workers leave only a stopped pool with an empty queue.                   *)
LEMMA ShutdownStep == TypeOK /\ Shutdown /\ [Next]_vars => Shutdown'
<1> SUFFICES ASSUME TypeOK, Shutdown, [Next]_vars PROVE Shutdown'
  OBVIOUS
<1>1. CASE UNCHANGED <<tasks, stop, main, next>>
           /\ \A w \in Worker : (at'[w] = "exited") <=> (at[w] = "exited")
  BY <1>1 DEF Shutdown
<1>2. ASSUME NEW w \in Worker, WorkerStep(w) PROVE Shutdown'
  <2>1. CASE WorkerWaits(w)
    BY <1>1, <2>1 DEF WorkerWaits, workers
  <2>2. CASE WorkerExits(w)
    <3>1. UNCHANGED <<tasks, stop, main, next>> /\ at' = [at EXCEPT ![w] = "exited"]
          /\ stop /\ tasks = <<>>
      BY <2>2 DEF WorkerExits, pool
    <3> QED
      BY <3>1 DEF Shutdown, TypeOK
  <2>3. CASE Take(w)
    <3>1. UNCHANGED <<stop, main, next>> /\ at' = [at EXCEPT ![w] = "taken"]
          /\ tasks # <<>>
      BY <2>3 DEF Take
    <3>2. \A v \in Worker : at'[v] # "exited" /\ at[v] # "exited"
      BY <3>1 DEF Shutdown, TypeOK
    <3> QED
      BY <3>1, <3>2, WorkerAssumption DEF Shutdown
  <2>4. CASE Begin(w) \/ Convert(w) \/ Finish(w)
    <3>1. \A v \in Worker : (at'[v] = "exited") <=> (at[v] = "exited")
      BY <2>4 DEF Begin, Convert, Finish, TypeOK
    <3>2. UNCHANGED <<tasks, stop, main, next>>
      BY <2>4 DEF Begin, Convert, Finish, pool
    <3> QED
      BY <1>1, <3>1, <3>2
  <2> QED
    BY <1>2, <2>1, <2>2, <2>3, <2>4 DEF WorkerStep
<1>3. CASE Enqueue
  <2>1. main = "enqueue" /\ main' = "notify" /\ UNCHANGED <<at, stop>>
    BY <1>3 DEF Enqueue, workers
  <2> QED
    BY <2>1 DEF Shutdown
<1>4. CASE CallWaitAll
  <2>1. next = NumFiles + 1
    BY <1>4, NumFilesAssumption DEF CallWaitAll, MoreFiles, TypeOK
  <2> QED
    BY <1>4, <2>1 DEF CallWaitAll, Shutdown, pool, workers
<1>5. CASE NotifyOne
  BY <1>5 DEF NotifyOne, Shutdown, workers
<1>6. CASE MainWaits
  BY <1>6 DEF MainWaits, Shutdown, workers
<1>7. CASE WaitAllReturns
  BY <1>7 DEF WaitAllReturns, Shutdown, pool, workers
<1>8. CASE Stop
  BY <1>8 DEF Stop, Shutdown, workers
<1>9. CASE NotifyAll
  BY <1>9 DEF NotifyAll, Shutdown, workers
<1>10. CASE Join
  BY <1>10 DEF Join, Joined, Shutdown, pool, workers
<1>11. CASE Report
  BY <1>11 DEF Report, Shutdown, pool, workers
<1>12. ASSUME NEW t, SpuriousWakeup(t) PROVE Shutdown'
  BY <1>1, <1>12 DEF SpuriousWakeup, workers
<1>13. CASE Terminated \/ UNCHANGED vars
  BY <1>1, <1>13 DEF Terminated, vars
<1> QED
  BY <1>2, <1>3, <1>4, <1>5, <1>6, <1>7, <1>8, <1>9, <1>10, <1>11, <1>12, <1>13 DEF Next, MainStep

(* failureCount tells whether a conversion failed.                          *)
LEMMA CountStep == TypeOK /\ Conserved /\ Once /\ Counted /\ [Next]_vars => Counted'
<1> SUFFICES ASSUME TypeOK, Conserved, Once, Counted, [Next]_vars PROVE Counted'
  OBVIOUS
<1>1. ASSUME NEW w \in Worker, Convert(w) PROVE Counted'
  <2>1. PICK o \in Outcome :
          /\ outcome' = [outcome EXCEPT ![task[w]] = o]
          /\ failureCount' = IF o = "failed" THEN failureCount + 1 ELSE failureCount
    BY <1>1 DEF Convert
  <2>2. task[w] \in File /\ outcome[task[w]] = "pending"
    BY <1>1 DEF Convert, Once, Busy, Holds, Conserved
  <2>3. UNCHANGED <<main, exitCode>> /\ failureCount \in Nat
    BY <1>1 DEF Convert, TypeOK
  <2>4. CASE o = "failed"
    <3>1. failureCount' > 0
      BY <2>1, <2>3, <2>4
    <3>2. outcome'[task[w]] = "failed"
      BY <2>1, <2>2, <2>4 DEF TypeOK
    <3> QED
      BY <2>2, <2>3, <3>1, <3>2 DEF Counted
  <2>5. CASE o # "failed"
    <3>1. \A f \in File : outcome'[f] = "failed" <=> outcome[f] = "failed"
      BY <2>1, <2>2, <2>5 DEF TypeOK
    <3> QED
      BY <2>1, <2>3, <2>5, <3>1 DEF Counted
  <2> QED
    BY <2>4, <2>5
<1>2. CASE Report
  BY <1>2 DEF Report, Counted, pool, workers, results
<1>3. CASE ~Report /\ ~\E w \in Worker : Convert(w)
  <2>1. UNCHANGED <<outcome, failureCount, exitCode>> /\ (main # "end" \/ main' = main)
        /\ (main' = "end" => main = "end")
    BY <1>3 DEF Next, WorkerStep, MainStep, WorkerWaits, WorkerExits, Take, Begin, Finish,
       Enqueue, NotifyOne, CallWaitAll, MainWaits, WaitAllReturns, Stop, NotifyAll, Join,
       SpuriousWakeup, Terminated, pool, workers, results, vars
  <2> QED
    BY <2>1 DEF Counted
<1> QED
  BY <1>1, <1>2, <1>3

LEMMA StepIInv == IInv /\ [Next]_vars => IInv'
BY TypeStep, PlaceStep, ShutdownStep, CountStep DEF IInv

-----------------------------------------------------------------------------
(* Every variable keeps its type, for any number of workers and files.       *)
THEOREM TypeCorrect == Spec => []TypeOK
<1>1. IInv => TypeOK
  BY DEF IInv
<1> QED
  BY <1>1, InitIInv, StepIInv, PTL DEF Spec

(* When main reads the counters no file is pending.                         *)
LEMMA AllConverted ==
    ASSUME IInv, main = "report", NEW f \in File
    PROVE  outcome[f] # "pending"
<1>1. \A w \in Worker : at[w] = "exited"
  BY DEF IInv, Shutdown
<1>2. tasks = <<>>
  BY <1>1, WorkerAssumption DEF IInv, Shutdown
<1>3. ~(f >= next)
  BY NumFilesAssumption DEF IInv, Shutdown, File
<1>4. ~InQueue(f)
  BY <1>2 DEF InQueue
<1>5. ~\E w \in Worker : Holds(w, f)
  BY <1>1 DEF Holds, Busy
<1> QED
  BY <1>3, <1>4, <1>5 DEF IInv, Conserved

LEMMA StepRefines == IInv /\ [Next]_vars => [Batch!Next]_(Batch!vars)
<1> SUFFICES ASSUME IInv, [Next]_vars PROVE [Batch!Next]_(Batch!vars)
  OBVIOUS
<1>1. ASSUME NEW w \in Worker, Convert(w) PROVE Batch!Convert
  <2>1. PICK o \in Outcome : outcome' = [outcome EXCEPT ![task[w]] = o]
    BY <1>1 DEF Convert
  <2>2. task[w] \in File /\ outcome[task[w]] = "pending"
    BY <1>1 DEF Convert, IInv, Once, Busy, Holds, Conserved
  <2>3. UNCHANGED exitCode
    BY <1>1 DEF Convert
  <2> QED
    BY <2>1, <2>2, <2>3 DEF Batch!Convert, Batch!File, Batch!Outcome, File, Outcome
<1>2. CASE Report
  <2>1. \A f \in File : outcome[f] # "pending"
    BY <1>2, AllConverted DEF Report
  <2>2. exitCode = NoExit /\ UNCHANGED outcome
    BY <1>2 DEF Report, IInv, Counted, results
  <2>3. exitCode' = IF \E f \in File : outcome[f] = "failed" THEN 1 ELSE 0
    BY <1>2 DEF Report, IInv, Counted
  <2> QED
    BY <2>1, <2>2, <2>3
    DEF Batch!Next, Batch!Exit, Batch!ExitCode, Batch!File, Batch!NoExit, File, NoExit
<1>3. CASE ~Report /\ ~\E w \in Worker : Convert(w)
  <2>1. UNCHANGED <<outcome, exitCode>>
    BY <1>3 DEF Next, WorkerStep, MainStep, WorkerWaits, WorkerExits, Take, Begin, Finish,
       Enqueue, NotifyOne, CallWaitAll, MainWaits, WaitAllReturns, Stop, NotifyAll, Join,
       SpuriousWakeup, Terminated, pool, workers, results, vars
  <2> QED
    BY <2>1 DEF Batch!vars
<1> QED
  BY <1>1, <1>2, <1>3 DEF Batch!Next

(* Whatever the interleaving, the threads convert each file once and the      *)
(* exit code is given after all of them (main of cvt_asm, parallel mode).     *)
THEOREM PoolRefinesBatch == Spec => RefinesBatch
<1>1. Init => Batch!Init
  BY DEF Init, Batch!Init, Batch!File, Batch!NoExit, File, NoExit
<1> QED
  BY <1>1, InitIInv, StepIInv, StepRefines, PTL DEF Spec, RefinesBatch, Batch!Spec
=============================================================================
