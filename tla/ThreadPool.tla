----------------------------- MODULE ThreadPool -----------------------------
(***************************************************************************)
(* yaaf::utils::async::threads_pool (thread_pool.cpp) with the tasks it    *)
(* runs (task.cpp) and their results, on which others wait (task.h).       *)
(*                                                                         *)
(* Workers are the threads of the pool, each inside _pool_logic. Clients   *)
(* are the threads that call post, flush and stop, and wait on results;    *)
(* only Stopper calls stop, and calls it once (a second call would join    *)
(* threads that have been joined).                                         *)
(*                                                                         *)
(* A section under _queue_mutex is one step, and so is a notification:     *)
(* push_task notifies after it has released the mutex, so that other       *)
(* threads may run in between. condition_variable_any releases the mutex   *)
(* and blocks in one step; a blocked thread may also wake up by itself.    *)
(* task_result::wait holds the result's own _mutex from its look at runned *)
(* to the moment it blocks; task_result::unlock takes no lock.             *)
(*                                                                         *)
(* A task returns SINGLE when it is finished and REPEAT when it wants to   *)
(* be called again, as often as it likes. A task that throws ends the      *)
(* process (task_wrapper::worker rethrows out of the thread function) and  *)
(* is not modelled.                                                        *)
(***************************************************************************)
EXTENDS Naturals, Sequences, FiniteSets, SequencesExt

CONSTANTS Tasks,      \* the tasks that may be posted
          Background, \* those that may be posted with TASK_PRIORITY::WORKER
          Endless,    \* those that may return REPEAT for ever, as mailbox_worker does
          Workers,    \* the threads of the pool
          Clients,    \* the threads that use it
          Stopper,    \* the client that calls stop
          Flushers,   \* the clients that call flush
          Waiters,    \* the clients that wait on results
          None

ASSUME PoolAssumption ==
    /\ Background \subseteq Tasks /\ Endless \subseteq Tasks
    /\ IsFiniteSet(Workers) /\ Workers # {}
    /\ Stopper \in Clients /\ Flushers \subseteq Clients /\ Waiters \subseteq Clients
    /\ None \notin Tasks \cup Workers

VARIABLES inQueue,    \* _in_queue
          stopFlag,   \* _stop_flag
          isStoped,   \* _is_stoped
          taskRunned, \* _task_runned
          pc,         \* pc[w]: where worker w is in _pool_logic
          task,       \* task[w]: the task w has taken from the queue
          cpc,        \* cpc[c]: the call client c is inside of
          arg,        \* arg[c]: the task c posts or waits for, or the worker it joins
          seen,       \* seen[c]: the tasks in the pool when c called flush
          joined,     \* the workers stop has joined
          posted,     \* the tasks post has accepted
          background, \* those posted with TASK_PRIORITY::WORKER
          done        \* the tasks that have returned SINGLE: task_result::runned is false

poolVars   == <<inQueue, stopFlag, isStoped, taskRunned>>
workerVars == <<pc, task>>
clientVars == <<cpc, arg, seen, joined>>
taskVars   == <<posted, background>>
vars == <<inQueue, stopFlag, isStoped, taskRunned, pc, task, cpc, arg, seen, joined,
          posted, background, done>>

\* Where a worker has counted itself in _task_runned, and where its task is its own.
Counted == {"run", "unlock", "again", "repush", "renotify", "dec"}
Holding == {"run", "again", "repush"}

TypeOK ==
    /\ inQueue \in Seq(Tasks)
    /\ stopFlag \in BOOLEAN /\ isStoped \in BOOLEAN
    /\ taskRunned \in Nat
    /\ pc \in [Workers -> Counted \cup {"lock", "wait", "exit"}]
    /\ task \in [Workers -> Tasks \cup {None}]
    /\ cpc \in [Clients -> {"idle", "push", "notify", "flush", "check", "stop", "join",
                            "test", "block", "blocked"}]
    /\ arg \in [Clients -> Tasks \cup Workers \cup {None}]
    /\ seen \in [Clients -> SUBSET Tasks]
    /\ joined \subseteq Workers
    /\ background \subseteq posted /\ done \subseteq posted /\ posted \subseteq Tasks

Init ==
    /\ inQueue = <<>>
    /\ stopFlag = FALSE /\ isStoped = FALSE
    /\ taskRunned = 0
    /\ pc = [w \in Workers |-> "lock"]
    /\ task = [w \in Workers |-> None]
    /\ cpc = [c \in Clients |-> "idle"]
    /\ arg = [c \in Clients |-> None]
    /\ seen = [c \in Clients |-> {}]
    /\ joined = {} /\ posted = {} /\ background = {} /\ done = {}

-----------------------------------------------------------------------------
(* Helpers *)

Goto(w, l) == pc' = [pc EXCEPT ![w] = l]
CGoto(c, l) == cpc' = [cpc EXCEPT ![c] = l]

Queued == {inQueue[i] : i \in DOMAIN inQueue}

\* notify_all: whoever is blocked goes for the mutex again.
NotifyAll == pc' = [w \in Workers |-> IF pc[w] = "wait" THEN "lock" ELSE pc[w]]

\* The place of the task the loop over _in_queue settles on: the first one that is
\* not a WORKER, and the front of the queue if there is no such task.
Choice ==
    LET Plain == {i \in DOMAIN inQueue : inQueue[i] \notin background}
    IN  IF Plain = {} THEN 1 ELSE CHOOSE i \in Plain : \A j \in Plain : i <= j

-----------------------------------------------------------------------------
(* post, flush and stop *)

\* post, with the priority the task was wrapped with: a pool that has stopped
\* refuses the task, and nothing changes.
Post(c, k) ==
    /\ cpc[c] = "idle" /\ k \notin posted
    /\ ~isStoped
    /\ posted' = posted \cup {k}
    /\ background' \in {background, background \cup ({k} \cap Background)}
    /\ CGoto(c, "push")
    /\ arg' = [arg EXCEPT ![c] = k]
    /\ UNCHANGED <<poolVars, workerVars, seen, joined, done>>

\* push_task: append under the mutex ...
PushTask(c) ==
    /\ cpc[c] = "push"
    /\ inQueue' = Append(inQueue, arg[c])
    /\ CGoto(c, "notify")
    /\ UNCHANGED <<stopFlag, isStoped, taskRunned, workerVars, arg, seen, joined, taskVars, done>>

\* Mutant: push_task does not notify.
M_PushSilently(c) ==
    /\ cpc[c] = "notify"
    /\ CGoto(c, "idle")
    /\ arg' = [arg EXCEPT ![c] = None]
    /\ UNCHANGED <<poolVars, pc, task, seen, joined, taskVars, done>>

\* ... and notify without it.
PushNotify(c) ==
    /\ cpc[c] = "notify"
    /\ NotifyAll
    /\ CGoto(c, "idle")
    /\ arg' = [arg EXCEPT ![c] = None]
    /\ UNCHANGED <<poolVars, task, seen, joined, taskVars, done>>

\* flush is called. What its caller may rely on is about the tasks in the pool now.
Flush(c) ==
    /\ c \in Flushers /\ cpc[c] = "idle"
    /\ CGoto(c, "flush")
    /\ seen' = [seen EXCEPT ![c] = Queued \cup {task[w] : w \in {x \in Workers : pc[x] \in Holding}}]
    /\ UNCHANGED <<poolVars, workerVars, arg, joined, taskVars, done>>

\* flush: notify_one, at the head of the loop.
FlushNotify(c) ==
    /\ cpc[c] = "flush"
    /\ \/ \E w \in Workers : pc[w] = "wait" /\ Goto(w, "lock")
       \/ (\A w \in Workers : pc[w] # "wait") /\ UNCHANGED pc
    /\ CGoto(c, "check")
    /\ UNCHANGED <<poolVars, task, arg, seen, joined, taskVars, done>>

\* flush: under the mutex, leave if only WORKER tasks are queued and nothing runs.
FlushCheck(c) ==
    /\ cpc[c] = "check"
    /\ \/ /\ Queued \subseteq background /\ taskRunned = 0
          /\ CGoto(c, "idle")
          /\ seen' = [seen EXCEPT ![c] = {}]
       \/ /\ ~(Queued \subseteq background /\ taskRunned = 0)
          /\ CGoto(c, "flush")
          /\ UNCHANGED seen
    /\ UNCHANGED <<poolVars, workerVars, arg, joined, taskVars, done>>

\* stop: raise the flag under the mutex, ...
Stop(c) ==
    /\ c = Stopper /\ cpc[c] = "idle" /\ ~stopFlag
    /\ stopFlag' = TRUE
    /\ CGoto(c, "stop")
    /\ UNCHANGED <<inQueue, isStoped, taskRunned, workerVars, arg, seen, joined, taskVars, done>>

\* Mutant: stop joins without notifying.
M_JoinSilently(c, w) ==
    /\ cpc[c] = "stop" /\ w \notin joined
    /\ CGoto(c, "join")
    /\ arg' = [arg EXCEPT ![c] = w]
    /\ UNCHANGED <<poolVars, pc, task, seen, joined, taskVars, done>>

\* ... and for each worker notify everybody ...
StopNotify(c, w) ==
    /\ cpc[c] = "stop" /\ w \notin joined
    /\ NotifyAll
    /\ CGoto(c, "join")
    /\ arg' = [arg EXCEPT ![c] = w]
    /\ UNCHANGED <<poolVars, task, seen, joined, taskVars, done>>

\* ... and wait until that worker is gone. The pool is stopped after the last one.
StopJoin(c) ==
    /\ cpc[c] = "join" /\ pc[arg[c]] = "exit"
    /\ joined' = joined \cup {arg[c]}
    /\ arg' = [arg EXCEPT ![c] = None]
    /\ isStoped' = (joined' = Workers)
    /\ CGoto(c, IF joined' = Workers THEN "idle" ELSE "stop")
    /\ UNCHANGED <<inQueue, stopFlag, taskRunned, workerVars, seen, taskVars, done>>

-----------------------------------------------------------------------------
(* task_result::wait *)

\* Somebody who has got the result from post waits on it.
Wait(c, k) ==
    /\ c \in Waiters /\ cpc[c] = "idle" /\ k \in posted
    /\ \A d \in Clients : arg[d] = k => cpc[d] \notin {"push", "notify"}
    /\ CGoto(c, "test")
    /\ arg' = [arg EXCEPT ![c] = k]
    /\ UNCHANGED <<poolVars, workerVars, seen, joined, taskVars, done>>

\* Mutant: condition_variable::wait without a predicate: any wakeup ends the wait.
M_NoPredicate(c) ==
    /\ cpc[c] = "blocked"
    /\ CGoto(c, "idle")
    /\ arg' = [arg EXCEPT ![c] = None]
    /\ UNCHANGED <<poolVars, workerVars, seen, joined, taskVars, done>>

\* A condition variable may wake up for no reason.
WaitSpurious(c) ==
    /\ cpc[c] = "blocked"
    /\ CGoto(c, "test")
    /\ UNCHANGED <<poolVars, workerVars, arg, seen, joined, taskVars, done>>

\* Take the mutex, at the start or after a wakeup, and look at runned: wait returns,
\* or keeps the mutex and is about to block.
WaitTest(c) ==
    /\ cpc[c] = "test"
    /\ \A d \in Clients : ~(cpc[d] = "block" /\ arg[d] = arg[c])
    /\ \/ arg[c] \in done /\ CGoto(c, "idle") /\ arg' = [arg EXCEPT ![c] = None]
       \/ arg[c] \notin done /\ CGoto(c, "block") /\ UNCHANGED arg
    /\ UNCHANGED <<poolVars, workerVars, seen, joined, taskVars, done>>

\* Release the mutex and block, in one step.
WaitBlock(c) ==
    /\ cpc[c] = "block"
    /\ CGoto(c, "blocked")
    /\ UNCHANGED <<poolVars, workerVars, arg, seen, joined, taskVars, done>>

-----------------------------------------------------------------------------
(* _pool_logic *)

\* Under the mutex: leave if the pool stops, block if there is nothing to do ...
WaitOrExit(w) ==
    /\ pc[w] = "lock"
    /\ \/ stopFlag /\ Goto(w, "exit")
       \/ ~stopFlag /\ inQueue = <<>> /\ Goto(w, "wait")
    /\ UNCHANGED <<poolVars, task, clientVars, taskVars, done>>

SpuriousWakeup(w) ==
    /\ pc[w] = "wait"
    /\ Goto(w, "lock")
    /\ UNCHANGED <<poolVars, task, clientVars, taskVars, done>>

\* Mutant: the worker does not count itself in.
M_TakeUncounted(w) ==
    /\ pc[w] = "lock" /\ ~stopFlag /\ inQueue # <<>>
    /\ task' = [task EXCEPT ![w] = inQueue[Choice]]
    /\ inQueue' = RemoveAt(inQueue, Choice)
    /\ Goto(w, "run")
    /\ UNCHANGED <<stopFlag, isStoped, taskRunned, clientVars, taskVars, done>>

\* Mutant: the worker takes the chosen task and erases the front of the queue.
M_EraseFront(w) ==
    /\ pc[w] = "lock" /\ ~stopFlag /\ inQueue # <<>>
    /\ taskRunned' = taskRunned + 1
    /\ task' = [task EXCEPT ![w] = inQueue[Choice]]
    /\ inQueue' = Tail(inQueue)
    /\ Goto(w, "run")
    /\ UNCHANGED <<stopFlag, isStoped, clientVars, taskVars, done>>

\* ... or count oneself in and take a task.
Take(w) ==
    /\ pc[w] = "lock" /\ ~stopFlag /\ inQueue # <<>>
    /\ taskRunned' = taskRunned + 1
    /\ task' = [task EXCEPT ![w] = inQueue[Choice]]
    /\ inQueue' = RemoveAt(inQueue, Choice)
    /\ Goto(w, "run")
    /\ UNCHANGED <<stopFlag, isStoped, clientVars, taskVars, done>>

\* The task returns SINGLE; unlock stores runned = false, without the mutex, ...
ApplySingle(w) ==
    /\ pc[w] = "run"
    /\ done' = done \cup {task[w]}
    /\ Goto(w, "unlock")
    /\ UNCHANGED <<poolVars, task, clientVars, taskVars>>

\* Mutant: unlock stores and does not notify.
M_UnlockSilently(w) ==
    /\ pc[w] = "unlock"
    /\ Goto(w, "dec")
    /\ UNCHANGED <<poolVars, task, clientVars, taskVars, done>>

\* ... and notifies whoever is blocked on the result now.
UnlockNotify(w) ==
    /\ pc[w] = "unlock"
    /\ cpc' = [c \in Clients |-> IF cpc[c] = "blocked" /\ arg[c] = task[w] THEN "test" ELSE cpc[c]]
    /\ Goto(w, "dec")
    /\ UNCHANGED <<poolVars, task, arg, seen, joined, taskVars, done>>

ApplyRepeat(w) ==
    /\ pc[w] = "run"
    /\ Goto(w, "again")
    /\ UNCHANGED <<poolVars, task, clientVars, taskVars, done>>

\* Mutant: the worker counts itself out before it puts the task back.
M_CountOutEarly(w) ==
    /\ pc[w] = "again"
    /\ \/ /\ inQueue # <<>> \/ stopFlag \/ task[w] \in background
          /\ Goto(w, "repush") /\ taskRunned' = taskRunned - 1
       \/ /\ inQueue = <<>> /\ ~stopFlag /\ task[w] \notin background
          /\ Goto(w, "run") /\ UNCHANGED taskRunned
    /\ UNCHANGED <<inQueue, stopFlag, isStoped, task, clientVars, taskVars, done>>

\* Under the shared mutex: call the task again at once only if it is no WORKER and
\* nothing else is to be done.
Again(w) ==
    /\ pc[w] = "again"
    /\ Goto(w, IF inQueue # <<>> \/ stopFlag \/ task[w] \in background THEN "repush" ELSE "run")
    /\ UNCHANGED <<poolVars, task, clientVars, taskVars, done>>

\* push_task from the pool itself, ...
Repush(w) ==
    /\ pc[w] = "repush"
    /\ inQueue' = Append(inQueue, task[w])
    /\ Goto(w, "renotify")
    /\ UNCHANGED <<stopFlag, isStoped, taskRunned, task, clientVars, taskVars, done>>

RepushNotify(w) ==
    /\ pc[w] = "renotify"
    /\ pc' = [x \in Workers |-> IF x = w THEN "dec" ELSE IF pc[x] = "wait" THEN "lock" ELSE pc[x]]
    /\ UNCHANGED <<poolVars, task, clientVars, taskVars, done>>

\* Mutant: the worker never counts itself out.
M_NeverCountOut(w) ==
    /\ pc[w] = "dec"
    /\ task' = [task EXCEPT ![w] = None]
    /\ Goto(w, "lock")
    /\ UNCHANGED <<poolVars, clientVars, taskVars, done>>

\* ... and only after that does the worker count itself out.
Decrement(w) ==
    /\ pc[w] = "dec"
    /\ taskRunned' = taskRunned - 1
    /\ task' = [task EXCEPT ![w] = None]
    /\ Goto(w, "lock")
    /\ UNCHANGED <<inQueue, stopFlag, isStoped, clientVars, taskVars, done>>

-----------------------------------------------------------------------------
(* The specification *)

ClientStep(c) ==
    \/ PushTask(c) \/ PushNotify(c)
    \/ FlushNotify(c) \/ FlushCheck(c)
    \/ StopJoin(c) \/ \E w \in Workers : StopNotify(c, w)
    \/ WaitTest(c) \/ WaitBlock(c)

ClientCall(c) == Flush(c) \/ Stop(c) \/ \E k \in Tasks : Post(c, k) \/ Wait(c, k)

WorkerStep(w) ==
    \/ WaitOrExit(w) \/ Take(w)
    \/ ApplySingle(w) \/ UnlockNotify(w) \/ ApplyRepeat(w)
    \/ Again(w) \/ Repush(w) \/ RepushNotify(w) \/ Decrement(w)

Next ==
    \/ \E c \in Clients : ClientStep(c) \/ ClientCall(c) \/ WaitSpurious(c)
    \/ \E w \in Workers : WorkerStep(w) \/ SpuriousWakeup(w)

Spec == Init /\ [][Next]_vars

\* Threads keep running, and a task that is not Endless returns SINGLE some day: the
\* tasks the context posts to the USER pool do so at once. A thread that waits for
\* the mutex of a result gets it in the end. Wakeups for no reason may never happen.
Fairness ==
    /\ \A c \in Clients : WF_vars(ClientStep(c)) /\ SF_vars(WaitTest(c))
    /\ \A w \in Workers : /\ WF_vars(WorkerStep(w))
                          /\ SF_vars(task[w] \notin Endless /\ ApplySingle(w))

FairSpec == Spec /\ Fairness

-----------------------------------------------------------------------------
(* Safety *)

Held == {task[w] : w \in {x \in Workers : pc[x] \in Holding}}
Pushing == {arg[c] : c \in {x \in Clients : cpc[x] = "push"}}

\* No task is lost, duplicated or run by two workers at once, although a task that
\* repeats goes back and forth between queue and workers: every accepted task is in
\* exactly one place, being pushed, queued, held by one worker, or finished.
OnePlace ==
    /\ posted = Pushing \cup Queued \cup Held \cup done
    /\ \A i, j \in DOMAIN inQueue : inQueue[i] = inQueue[j] => i = j
    /\ \A v, w \in Workers :
          (pc[v] \in Holding /\ pc[w] \in Holding /\ task[v] = task[w]) => v = w
    /\ Queued \cap Held = {}
    /\ (Queued \cup Held) \cap done = {}
    /\ Pushing \cap (Queued \cup Held \cup done) = {}

\* _task_runned counts the workers between the taking of a task and the end of its
\* handling, so it can neither miss a running task nor wrap below zero.
RunnedCount == taskRunned = Cardinality({w \in Workers : pc[w] \in Counted})

\* When flush returns, every task that was in the pool when it was called, WORKER
\* tasks apart, is finished. flush looks at the queue and at _task_runned only; a
\* task on its way from a worker back into the queue must show in one of them.
FlushSound ==
    [][\A c \in Clients :
          (cpc[c] = "check" /\ cpc'[c] = "idle") => seen[c] \subseteq done \cup background]_vars

\* wait returns only when the task is over, whatever wakeups happen (task.h:46-54).
WaitSound ==
    [][\A c \in Clients :
          (cpc[c] \in {"test", "block", "blocked"} /\ cpc'[c] = "idle") => arg[c] \in done]_vars

-----------------------------------------------------------------------------
(* Liveness, under Fairness *)

\* A queued task that is no WORKER is taken by a worker, unless the pool is stopped:
\* no wakeup is lost between push_task's two steps, and a task that repeats for ever
\* makes room for it.
PostedRuns ==
    \A k \in Tasks :
        (k \in Queued /\ k \notin background) ~> ((\E w \in Workers : pc[w] = "run" /\ task[w] = k) \/ stopFlag)

\* flush returns, unless the pool is stopped under it or has got an endless task,
\* which can keep _task_runned above zero whenever flush looks.
FlushReturns ==
    \A c \in Clients :
        cpc[c] = "flush" ~> (cpc[c] = "idle" \/ stopFlag \/ posted \cap Endless # {})

\* stop returns: every worker leaves, whether it was blocked, at work or between two
\* checks of the flag.
StopReturns == stopFlag ~> isStoped

\* Nobody but a waiter that is between its look at runned and blocking while unlock
\* runs (task.h:49, 57-58) is left behind: one that was blocked before, that looks
\* later or that comes later returns.
SettledWaiterReturns ==
    \A c \in Clients :
        (\/ cpc[c] = "test" /\ arg[c] \in done
         \/ cpc[c] = "blocked" /\ \E w \in Workers : pc[w] = "unlock" /\ task[w] = arg[c])
            ~> cpc[c] = "idle"

\* wait on the result of a task that ends returns (utils_test.cpp:73-76, 149-150).
\* It need not: unlock may store and notify while the waiter is between its look at
\* runned and blocking.
WaitReturns ==
    \A c \in Clients : (cpc[c] \in {"test", "block", "blocked"} /\ arg[c] \in done) ~> cpc[c] = "idle"
=============================================================================
