----------------------------- MODULE ThreadPool -----------------------------
(***************************************************************************)
(* The thread pool of cvt_asm's parallel mode and the main thread that uses  *)
(* it: enqueue a task per file, waitAll, destroy the pool, report.  What a  *)
(* thread does while it holds queueMutex is one step; a notification after  *)
(* the lock is released is another.                                         *)
(***************************************************************************)
EXTENDS Integers, Sequences, FiniteSets

CONSTANTS Worker, Main, NumFiles

ASSUME WorkerAssumption == Worker # {} /\ Main \notin Worker
ASSUME NumFilesAssumption == NumFiles \in Nat

VARIABLES
    tasks,          \* the queue: indices of files
    stop,
    activeThreads,
    waitSet,        \* the threads blocked on the condition variable
    at,             \* where each worker is in workerThread
    task,           \* the task each worker took last
    main,           \* where the main thread is
    next,           \* the index of the next file to enqueue
    outcome,        \* what the conversion of each file came to
    successCount, failureCount, exitCode

vars == <<tasks, stop, activeThreads, waitSet, at, task, main, next, outcome,
          successCount, failureCount, exitCode>>
pool == <<tasks, stop, activeThreads, waitSet>>
workers == <<at, task>>
results == <<outcome, successCount, failureCount>>

File == 1..NumFiles
NoFile == 0
NoExit == -1
Outcome == {"ok", "failed", "thrown"}

Init ==
    /\ tasks = <<>>
    /\ stop = FALSE
    /\ activeThreads = 0
    /\ waitSet = {}
    /\ at = [w \in Worker |-> "lock"]
    /\ task = [w \in Worker |-> NoFile]
    /\ main = "enqueue"
    /\ next = 1
    /\ outcome = [f \in File |-> "pending"]
    /\ successCount = 0 /\ failureCount = 0
    /\ exitCode = NoExit

-----------------------------------------------------------------------------
\* workerThread

\* The worker is about to evaluate the condition, with the lock.
AtLock(w) == at[w] = "lock" /\ w \notin waitSet

\* Mutated: a waiting worker does not look at stop.
MustWaitLong == tasks = <<>>

MustWait == tasks = <<>> /\ ~stop

WorkerWaits(w) ==
    /\ AtLock(w) /\ MustWait
    /\ waitSet' = waitSet \cup {w}
    /\ UNCHANGED <<tasks, stop, activeThreads, workers, main, next, results, exitCode>>

WorkerExits(w) ==
    /\ AtLock(w) /\ ~MustWait
    /\ stop /\ tasks = <<>>
    /\ at' = [at EXCEPT ![w] = "exited"]
    /\ UNCHANGED <<pool, task, main, next, results, exitCode>>

Take(w) ==
    /\ AtLock(w) /\ ~MustWait
    /\ tasks # <<>>
    /\ task' = [task EXCEPT ![w] = Head(tasks)]
    /\ tasks' = Tail(tasks)
    /\ at' = [at EXCEPT ![w] = "taken"]
    /\ UNCHANGED <<stop, activeThreads, waitSet, main, next, results, exitCode>>

\* The lock has been released in between.
Begin(w) ==
    /\ at[w] = "taken"
    /\ activeThreads' = activeThreads + 1
    /\ at' = [at EXCEPT ![w] = "running"]
    /\ UNCHANGED <<tasks, stop, waitSet, task, main, next, results, exitCode>>

\* convertFile and the counting; an exception skips the counting and is swallowed.
Convert(w) ==
    /\ at[w] = "running"
    /\ \E o \in Outcome :
          /\ outcome' = [outcome EXCEPT ![task[w]] = o]
          /\ successCount' = IF o = "ok" THEN successCount + 1 ELSE successCount
          /\ failureCount' = IF o = "failed" THEN failureCount + 1 ELSE failureCount
    /\ at' = [at EXCEPT ![w] = "ran"]
    /\ UNCHANGED <<pool, task, main, next, exitCode>>

\* Nobody is notified.
Finish(w) ==
    /\ at[w] = "ran"
    /\ activeThreads' = activeThreads - 1
    /\ at' = [at EXCEPT ![w] = "lock"]
    /\ UNCHANGED <<tasks, stop, waitSet, task, main, next, results, exitCode>>

WorkerStep(w) ==
    WorkerWaits(w) \/ WorkerExits(w) \/ Take(w) \/ Begin(w) \/ Convert(w) \/ Finish(w)

-----------------------------------------------------------------------------
\* The main thread

MoreFiles == next <= NumFiles

Enqueue ==
    /\ main = "enqueue" /\ MoreFiles
    /\ tasks' = Append(tasks, next)
    /\ next' = next + 1
    /\ main' = "notify"
    /\ UNCHANGED <<stop, activeThreads, waitSet, workers, results, exitCode>>

\* Mutated: a task is not announced.
WokenNone == {{}}

\* What notify_one wakes: a waiting thread if there is one.
Woken == IF waitSet = {} THEN {{}} ELSE {{t} : t \in waitSet}

NotifyOne ==
    /\ main = "notify"
    /\ \E s \in Woken : waitSet' = waitSet \ s
    /\ main' = "enqueue"
    /\ UNCHANGED <<tasks, stop, activeThreads, workers, next, results, exitCode>>

CallWaitAll ==
    /\ main = "enqueue" /\ ~MoreFiles
    /\ main' = "waitAll"
    /\ UNCHANGED <<pool, workers, next, results, exitCode>>

Idle == tasks = <<>> /\ activeThreads = 0

MainWaits ==
    /\ main = "waitAll" /\ Main \notin waitSet
    /\ ~Idle
    /\ waitSet' = waitSet \cup {Main}
    /\ UNCHANGED <<tasks, stop, activeThreads, workers, main, next, results, exitCode>>

WaitAllReturns ==
    /\ main = "waitAll" /\ Main \notin waitSet
    /\ Idle
    /\ main' = "stop"
    /\ UNCHANGED <<pool, workers, next, results, exitCode>>

\* The pool's destructor.
Stop ==
    /\ main = "stop"
    /\ stop' = TRUE
    /\ main' = "notifyAll"
    /\ UNCHANGED <<tasks, activeThreads, waitSet, workers, next, results, exitCode>>

NotifyAll ==
    /\ main = "notifyAll"
    /\ waitSet' = {}
    /\ main' = "join"
    /\ UNCHANGED <<tasks, stop, activeThreads, workers, next, results, exitCode>>

\* Mutated: a worker in the middle of a task is left to itself.
JoinedEarly(w) == at[w] # "lock"

Joined(w) == at[w] = "exited"

Join ==
    /\ main = "join"
    /\ \A w \in Worker : Joined(w)
    /\ main' = "report"
    /\ UNCHANGED <<pool, workers, next, results, exitCode>>

Report ==
    /\ main = "report"
    /\ exitCode' = IF failureCount > 0 THEN 1 ELSE 0
    /\ main' = "end"
    /\ UNCHANGED <<pool, workers, next, results>>

MainStep ==
    Enqueue \/ NotifyOne \/ CallWaitAll \/ MainWaits \/ WaitAllReturns \/ Stop
    \/ NotifyAll \/ Join \/ Report

-----------------------------------------------------------------------------
\* A wait may end without a notification.
SpuriousWakeup(t) ==
    /\ t \in waitSet
    /\ waitSet' = waitSet \ {t}
    /\ UNCHANGED <<tasks, stop, activeThreads, workers, main, next, results, exitCode>>

Terminated == main = "end" /\ UNCHANGED vars

Next ==
    \/ \E w \in Worker : WorkerStep(w)
    \/ MainStep
    \/ \E t \in Worker \cup {Main} : SpuriousWakeup(t)
    \/ Terminated

Spec == Init /\ [][Next]_vars

\* Every thread that can go on does; nobody can count on a spurious wakeup.
FairSpec == Spec /\ (\A w \in Worker : WF_vars(WorkerStep(w))) /\ WF_vars(MainStep)

-----------------------------------------------------------------------------
TypeOK ==
    /\ tasks \in Seq(File)
    /\ stop \in BOOLEAN
    /\ activeThreads \in Int
    /\ waitSet \subseteq Worker \cup {Main}
    /\ at \in [Worker -> {"lock", "taken", "running", "ran", "exited"}]
    /\ task \in [Worker -> File \cup {NoFile}]
    /\ main \in {"enqueue", "notify", "waitAll", "stop", "notifyAll", "join", "report", "end"}
    /\ next \in 1..(NumFiles + 1)
    /\ outcome \in [File -> Outcome \cup {"pending"}]
    /\ successCount \in Nat /\ failureCount \in Nat
    /\ exitCode \in {NoExit, 0, 1}

Batch == INSTANCE BatchConversion

\* The batch is what BatchConversion promises although waitAll may return while a
\* task is still to begin: the pool's destructor drains the queue and joins the
\* workers before main reads the counters (cvt_asm_main.cpp, the scope of pool).
RefinesBatch == Batch!Spec

\* Every file is converted, even if main hangs: no task is left in the queue with
\* all workers asleep (enqueue's notify_one after unlocking).
EveryFileConverted == <>(\A f \in File : outcome[f] # "pending")

\* The destructor returns: no worker sleeps through stop (stop set under the lock,
\* notify_all after).
DestructorReturns == (main = "stop") ~> (main = "end")

\* waitAll returns ("Wait for all queued tasks to complete", ThreadPool.hpp).
WaitAllEnds == (main = "waitAll") ~> (main # "waitAll")
=============================================================================
