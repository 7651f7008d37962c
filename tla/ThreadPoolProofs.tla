-------------------------- MODULE ThreadPoolProofs --------------------------
(***************************************************************************)
(* Proofs about ThreadPool, for any number of workers, clients and tasks.  *)
(***************************************************************************)
EXTENDS ThreadPool, SequenceLemmas, FiniteSetTheorems

\* TypeOK without what has to be counted or placed, and what an argument is in a call.
Shape ==
    /\ inQueue \in Seq(Tasks)
    /\ stopFlag \in BOOLEAN /\ isStoped \in BOOLEAN
    /\ pc \in [Workers -> Counted \cup {"lock", "wait", "exit"}]
    /\ task \in [Workers -> Tasks \cup {None}]
    /\ cpc \in [Clients -> {"idle", "push", "notify", "flush", "check", "stop", "join",
                            "test", "block", "blocked"}]
    /\ arg \in [Clients -> Tasks \cup Workers \cup {None}]
    /\ seen \in [Clients -> SUBSET Tasks]
    /\ joined \subseteq Workers
    /\ background \subseteq posted /\ posted \subseteq Tasks
    /\ \A w \in Workers : pc[w] \in Holding => task[w] \in Tasks
    /\ \A c \in Clients : /\ cpc[c] = "push" => arg[c] \in Tasks
                          /\ cpc[c] = "join" => arg[c] \in Workers

\* No two clients are about to push the same task.
OnePusher ==
    \A c, d \in Clients : (cpc[c] = "push" /\ cpc[d] = "push" /\ arg[c] = arg[d]) => c = d

\* No two workers hold the same task.
OneHolder ==
    \A v, w \in Workers :
        (pc[v] \in Holding /\ pc[w] \in Holding /\ task[v] = task[w]) => v = w

\* What a flush has seen is never out of its sight before it is finished.
Tracked ==
    \A c \in Clients :
        cpc[c] \in {"flush", "check"} => seen[c] \subseteq Queued \cup Held \cup done

\* The loop over _in_queue settles on a task that is there (thread_pool.cpp:91-103).
LEMMA ChoiceInQueue ==
  ASSUME inQueue \in Seq(Tasks), inQueue # <<>>
  PROVE  Choice \in DOMAIN inQueue
<1> DEFINE Plain == {i \in DOMAIN inQueue : inQueue[i] \notin background}
<1>1. DOMAIN inQueue = 1 .. Len(inQueue) /\ Len(inQueue) \in Nat \ {0}
  BY LenProperties, EmptySeq
<1>2. CASE Plain = {}
  BY <1>1, <1>2 DEF Choice
<1>3. CASE Plain # {}
  <2>1. Plain \in SUBSET Nat
    BY <1>1
  <2>2. \E i \in Plain : \A j \in Plain : i <= j
    <3> HIDE DEF Plain
    <3> QED BY <1>3, <2>1, LeastElement
  <2>3. Choice = CHOOSE i \in Plain : \A j \in Plain : i <= j
    BY <1>3 DEF Choice
  <2>4. Choice \in Plain
    <3> HIDE DEF Plain
    <3> QED BY <2>2, <2>3
  <2>5. QED BY <2>4
<1>4. QED BY <1>2, <1>3


\* Every step keeps the types, and a worker holds a task, a client pushes one.
LEMMA NextShape == Shape /\ [Next]_vars => Shape'
<1> SUFFICES ASSUME Shape, [Next]_vars PROVE Shape'
  OBVIOUS
<1> USE PoolAssumption DEF Goto, CGoto, NotifyAll, Counted, Holding, poolVars,
        workerVars, clientVars, taskVars
<1>1. ASSUME NEW c \in Clients, NEW k \in Tasks, Post(c, k) PROVE Shape'
  BY <1>1 DEF Post, Shape
<1>2. ASSUME NEW c \in Clients, PushTask(c) PROVE Shape'
  BY <1>2, AppendProperties DEF PushTask, Shape
<1>3. ASSUME NEW c \in Clients, PushNotify(c) PROVE Shape'
  BY <1>3 DEF PushNotify, Shape
<1>4. ASSUME NEW c \in Clients, Flush(c) PROVE Shape'
  <2>1. Queued \subseteq Tasks
    BY DEF Shape, Queued
  <2>2. {task[w] : w \in {x \in Workers : pc[x] \in Holding}} \subseteq Tasks
    BY DEF Shape
  <2>3. QED BY <1>4, <2>1, <2>2 DEF Flush, Shape
<1>5. ASSUME NEW c \in Clients, FlushNotify(c) PROVE Shape'
  BY <1>5 DEF FlushNotify, Shape
<1>6. ASSUME NEW c \in Clients, FlushCheck(c) PROVE Shape'
  BY <1>6 DEF FlushCheck, Shape
<1>7. ASSUME NEW c \in Clients, Stop(c) PROVE Shape'
  BY <1>7 DEF Stop, Shape
<1>8. ASSUME NEW c \in Clients, NEW w \in Workers, StopNotify(c, w) PROVE Shape'
  BY <1>8 DEF StopNotify, Shape
<1>9. ASSUME NEW c \in Clients, StopJoin(c) PROVE Shape'
  BY <1>9 DEF StopJoin, Shape
<1>10. ASSUME NEW c \in Clients, NEW k \in Tasks, Wait(c, k) PROVE Shape'
  BY <1>10 DEF Wait, Shape
<1>11. ASSUME NEW c \in Clients, WaitSpurious(c) PROVE Shape'
  BY <1>11 DEF WaitSpurious, Shape
<1>12. ASSUME NEW c \in Clients, WaitTest(c) PROVE Shape'
  BY <1>12 DEF WaitTest, Shape
<1>13. ASSUME NEW c \in Clients, WaitBlock(c) PROVE Shape'
  BY <1>13 DEF WaitBlock, Shape
<1>14. ASSUME NEW w \in Workers, WaitOrExit(w) PROVE Shape'
  BY <1>14 DEF WaitOrExit, Shape
<1>15. ASSUME NEW w \in Workers, SpuriousWakeup(w) PROVE Shape'
  BY <1>15 DEF SpuriousWakeup, Shape
<1>16. ASSUME NEW w \in Workers, Take(w) PROVE Shape'
  <2>1. inQueue[Choice] \in Tasks /\ RemoveAt(inQueue, Choice) \in Seq(Tasks)
    BY <1>16, ChoiceInQueue, RemoveAtShape DEF Take, Shape
  <2>2. QED BY <1>16, <2>1 DEF Take, Shape
<1>17. ASSUME NEW w \in Workers, ApplySingle(w) PROVE Shape'
  BY <1>17 DEF ApplySingle, Shape
<1>18. ASSUME NEW w \in Workers, UnlockNotify(w) PROVE Shape'
  BY <1>18 DEF UnlockNotify, Shape
<1>19. ASSUME NEW w \in Workers, ApplyRepeat(w) PROVE Shape'
  BY <1>19 DEF ApplyRepeat, Shape
<1>20. ASSUME NEW w \in Workers, Again(w) PROVE Shape'
  BY <1>20 DEF Again, Shape
<1>21. ASSUME NEW w \in Workers, Repush(w) PROVE Shape'
  BY <1>21 DEF Repush, Shape
<1>22. ASSUME NEW w \in Workers, RepushNotify(w) PROVE Shape'
  BY <1>22 DEF RepushNotify, Shape
<1>23. ASSUME NEW w \in Workers, Decrement(w) PROVE Shape'
  BY <1>23 DEF Decrement, Shape
<1>24. CASE UNCHANGED vars
  BY <1>24 DEF vars, Shape
<1>25. QED
  BY <1>1, <1>2, <1>3, <1>4, <1>5, <1>6, <1>7, <1>8, <1>9, <1>10, <1>11, <1>12, <1>13,
     <1>14, <1>15, <1>16, <1>17, <1>18, <1>19, <1>20, <1>21, <1>22, <1>23, <1>24 DEF
     Next, ClientStep, ClientCall, WorkerStep

\* post accepts a task once.
LEMMA NextOnePusher == Shape /\ OnePlace /\ OnePusher /\ [Next]_vars => OnePusher'
<1> SUFFICES ASSUME Shape, OnePlace, OnePusher, [Next]_vars PROVE OnePusher'
  OBVIOUS
<1> USE PoolAssumption DEF Goto, CGoto, NotifyAll, Counted, Holding, poolVars,
        workerVars, clientVars, taskVars
<1>1. ASSUME NEW c \in Clients, NEW k \in Tasks, Post(c, k) PROVE OnePusher'
  BY <1>1 DEF Post, Shape, OnePlace, OnePusher, Pushing
<1>2. ASSUME NEW c \in Clients, PushTask(c) PROVE OnePusher'
  BY <1>2 DEF PushTask, Shape, OnePlace, OnePusher, Pushing
<1>3. ASSUME NEW c \in Clients, PushNotify(c) PROVE OnePusher'
  BY <1>3 DEF PushNotify, Shape, OnePlace, OnePusher, Pushing
<1>4. ASSUME NEW c \in Clients, Flush(c) PROVE OnePusher'
  BY <1>4 DEF Flush, Shape, OnePlace, OnePusher, Pushing
<1>5. ASSUME NEW c \in Clients, FlushNotify(c) PROVE OnePusher'
  BY <1>5 DEF FlushNotify, Shape, OnePlace, OnePusher, Pushing
<1>6. ASSUME NEW c \in Clients, FlushCheck(c) PROVE OnePusher'
  BY <1>6 DEF FlushCheck, Shape, OnePlace, OnePusher, Pushing
<1>7. ASSUME NEW c \in Clients, Stop(c) PROVE OnePusher'
  BY <1>7 DEF Stop, Shape, OnePlace, OnePusher, Pushing
<1>8. ASSUME NEW c \in Clients, NEW w \in Workers, StopNotify(c, w) PROVE OnePusher'
  BY <1>8 DEF StopNotify, Shape, OnePlace, OnePusher, Pushing
<1>9. ASSUME NEW c \in Clients, StopJoin(c) PROVE OnePusher'
  BY <1>9 DEF StopJoin, Shape, OnePlace, OnePusher, Pushing
<1>10. ASSUME NEW c \in Clients, NEW k \in Tasks, Wait(c, k) PROVE OnePusher'
  BY <1>10 DEF Wait, Shape, OnePlace, OnePusher, Pushing
<1>11. ASSUME NEW c \in Clients, WaitSpurious(c) PROVE OnePusher'
  BY <1>11 DEF WaitSpurious, Shape, OnePlace, OnePusher, Pushing
<1>12. ASSUME NEW c \in Clients, WaitTest(c) PROVE OnePusher'
  BY <1>12 DEF WaitTest, Shape, OnePlace, OnePusher, Pushing
<1>13. ASSUME NEW c \in Clients, WaitBlock(c) PROVE OnePusher'
  BY <1>13 DEF WaitBlock, Shape, OnePlace, OnePusher, Pushing
<1>14. ASSUME NEW w \in Workers, WaitOrExit(w) PROVE OnePusher'
  BY <1>14 DEF WaitOrExit, Shape, OnePlace, OnePusher, Pushing
<1>15. ASSUME NEW w \in Workers, SpuriousWakeup(w) PROVE OnePusher'
  BY <1>15 DEF SpuriousWakeup, Shape, OnePlace, OnePusher, Pushing
<1>16. ASSUME NEW w \in Workers, Take(w) PROVE OnePusher'
  BY <1>16 DEF Take, Shape, OnePlace, OnePusher, Pushing
<1>17. ASSUME NEW w \in Workers, ApplySingle(w) PROVE OnePusher'
  BY <1>17 DEF ApplySingle, Shape, OnePlace, OnePusher, Pushing
<1>18. ASSUME NEW w \in Workers, UnlockNotify(w) PROVE OnePusher'
  BY <1>18 DEF UnlockNotify, Shape, OnePlace, OnePusher, Pushing
<1>19. ASSUME NEW w \in Workers, ApplyRepeat(w) PROVE OnePusher'
  BY <1>19 DEF ApplyRepeat, Shape, OnePlace, OnePusher, Pushing
<1>20. ASSUME NEW w \in Workers, Again(w) PROVE OnePusher'
  BY <1>20 DEF Again, Shape, OnePlace, OnePusher, Pushing
<1>21. ASSUME NEW w \in Workers, Repush(w) PROVE OnePusher'
  BY <1>21 DEF Repush, Shape, OnePlace, OnePusher, Pushing
<1>22. ASSUME NEW w \in Workers, RepushNotify(w) PROVE OnePusher'
  BY <1>22 DEF RepushNotify, Shape, OnePlace, OnePusher, Pushing
<1>23. ASSUME NEW w \in Workers, Decrement(w) PROVE OnePusher'
  BY <1>23 DEF Decrement, Shape, OnePlace, OnePusher, Pushing
<1>24. CASE UNCHANGED vars
  BY <1>24 DEF vars, Shape, OnePlace, OnePusher, Pushing
<1>25. QED
  BY <1>1, <1>2, <1>3, <1>4, <1>5, <1>6, <1>7, <1>8, <1>9, <1>10, <1>11, <1>12, <1>13,
     <1>14, <1>15, <1>16, <1>17, <1>18, <1>19, <1>20, <1>21, <1>22, <1>23, <1>24 DEF
     Next, ClientStep, ClientCall, WorkerStep

\* A step that leaves the clients inside push_task alone.
LEMMA PushingStays ==
  ASSUME \A c \in Clients : /\ cpc'[c] = "push" <=> cpc[c] = "push"
                            /\ cpc[c] = "push" => arg'[c] = arg[c]
  PROVE  Pushing' = Pushing
<1>1. \A k : k \in Pushing <=> \E c \in Clients : cpc[c] = "push" /\ k = arg[c]
  BY DEF Pushing
<1>2. \A k : k \in Pushing' <=> \E c \in Clients : cpc'[c] = "push" /\ k = arg'[c]
  BY DEF Pushing
<1>3. QED BY <1>1, <1>2

\* A step that leaves the workers with a task alone.
LEMMA HeldStays ==
  ASSUME \A w \in Workers : /\ pc'[w] \in Holding <=> pc[w] \in Holding
                            /\ pc[w] \in Holding => task'[w] = task[w]
  PROVE  Held' = Held
<1>1. \A k : k \in Held <=> \E w \in Workers : pc[w] \in Holding /\ k = task[w]
  BY DEF Held
<1>2. \A k : k \in Held' <=> \E w \in Workers : pc'[w] \in Holding /\ k = task'[w]
  BY DEF Held
<1>3. QED BY <1>1, <1>2

\* A step that moves no task.
LEMMA PlacesStay ==
  ASSUME OnePlace, UNCHANGED <<inQueue, posted, done>>, Pushing' = Pushing,
         \A w \in Workers : /\ pc'[w] \in Holding <=> pc[w] \in Holding
                            /\ pc[w] \in Holding => task'[w] = task[w]
  PROVE  OnePlace'
<1>1. Queued' = Queued /\ Held' = Held
  BY HeldStays DEF Queued
<1>2. \A v, w \in Workers :
          (pc'[v] \in Holding /\ pc'[w] \in Holding /\ task'[v] = task'[w]) => v = w
  BY DEF OnePlace
<1>3. \A i, j \in DOMAIN inQueue' : inQueue'[i] = inQueue'[j] => i = j
  BY DEF OnePlace
<1>4. QED BY <1>1, <1>2, <1>3 DEF OnePlace

\* A task goes from post to the queue, from there to one worker, and from the worker
\* to the queue again or out of the pool; no other step moves it.
LEMMA NextPlace == Shape /\ OnePlace /\ OnePusher /\ [Next]_vars => OnePlace'
<1> SUFFICES ASSUME Shape, OnePlace, OnePusher, [Next]_vars PROVE OnePlace'
  OBVIOUS
<1> USE PoolAssumption DEF Goto, CGoto, NotifyAll, Counted, Holding, poolVars, workerVars,
        clientVars, taskVars
<1>1. ASSUME NEW c \in Clients, NEW k \in Tasks, Post(c, k) PROVE OnePlace'
  <2>1. Pushing' = Pushing \cup {k}
    BY <1>1 DEF Post, Shape, Pushing
  <2>2. Queued' = Queued /\ Held' = Held
    BY <1>1 DEF Post, Queued, Held
  <2>3. QED BY <1>1, <2>1, <2>2 DEF Post, OnePlace
<1>2. ASSUME NEW c \in Clients, PushTask(c) PROVE OnePlace'
  <2> DEFINE k == arg[c]
  <2>1. Pushing' = Pushing \ {k} /\ k \in Pushing /\ k \in Tasks
    BY <1>2 DEF PushTask, Shape, Pushing, OnePusher
  <2>2. Distinct(inQueue) /\ k \notin Members(inQueue) /\ Queued = Members(inQueue)
    BY <2>1 DEF OnePlace, Distinct, Members, Queued
  <2>3. Distinct(inQueue') /\ Members(inQueue') = Members(inQueue) \cup {k}
    BY <1>2, <2>1, <2>2, AppendMembers DEF PushTask, Shape
  <2>4. Queued' = Queued \cup {k} /\ Held' = Held
    BY <1>2, <2>2, <2>3 DEF PushTask, Members, Queued, Held
  <2> HIDE DEF k
  <2>5. QED BY <1>2, <2>1, <2>3, <2>4 DEF PushTask, OnePlace, Distinct
<1>3. ASSUME NEW c \in Clients, PushNotify(c) PROVE OnePlace'
  BY <1>3, PushingStays, PlacesStay DEF PushNotify, Shape
<1>4. ASSUME NEW c \in Clients, Flush(c) PROVE OnePlace'
  BY <1>4, PushingStays, PlacesStay DEF Flush, Shape
<1>5. ASSUME NEW c \in Clients, FlushNotify(c) PROVE OnePlace'
  BY <1>5, PushingStays, PlacesStay DEF FlushNotify, Shape
<1>6. ASSUME NEW c \in Clients, FlushCheck(c) PROVE OnePlace'
  BY <1>6, PushingStays, PlacesStay DEF FlushCheck, Shape
<1>7. ASSUME NEW c \in Clients, Stop(c) PROVE OnePlace'
  BY <1>7, PushingStays, PlacesStay DEF Stop, Shape
<1>8. ASSUME NEW c \in Clients, NEW w \in Workers, StopNotify(c, w) PROVE OnePlace'
  BY <1>8, PushingStays, PlacesStay DEF StopNotify, Shape
<1>9. ASSUME NEW c \in Clients, StopJoin(c) PROVE OnePlace'
  BY <1>9, PushingStays, PlacesStay DEF StopJoin, Shape
<1>10. ASSUME NEW c \in Clients, NEW k \in Tasks, Wait(c, k) PROVE OnePlace'
  BY <1>10, PushingStays, PlacesStay DEF Wait, Shape
<1>11. ASSUME NEW c \in Clients, WaitSpurious(c) PROVE OnePlace'
  BY <1>11, PushingStays, PlacesStay DEF WaitSpurious, Shape
<1>12. ASSUME NEW c \in Clients, WaitTest(c) PROVE OnePlace'
  BY <1>12, PushingStays, PlacesStay DEF WaitTest, Shape
<1>13. ASSUME NEW c \in Clients, WaitBlock(c) PROVE OnePlace'
  BY <1>13, PushingStays, PlacesStay DEF WaitBlock, Shape
<1>14. ASSUME NEW w \in Workers, WaitOrExit(w) PROVE OnePlace'
  BY <1>14, PushingStays, PlacesStay DEF WaitOrExit, Shape
<1>15. ASSUME NEW w \in Workers, SpuriousWakeup(w) PROVE OnePlace'
  BY <1>15, PushingStays, PlacesStay DEF SpuriousWakeup, Shape
<1>16. ASSUME NEW w \in Workers, Take(w) PROVE OnePlace'
  <2> DEFINE k == inQueue[Choice]
  <2>1. Distinct(inQueue) /\ Queued = Members(inQueue) /\ Choice \in DOMAIN inQueue
    BY <1>16, ChoiceInQueue DEF Take, Shape, OnePlace, Distinct, Members, Queued
  <2>2. Distinct(inQueue') /\ Members(inQueue') = Members(inQueue) \ {k}
    BY <1>16, <2>1, RemoveAtMembers DEF Take, Shape
  <2>3. Queued' = Queued \ {k} /\ k \in Queued
    BY <2>1, <2>2 DEF Members, Queued
  <2> HIDE DEF k
  <2>4. task' = [task EXCEPT ![w] = k]
    BY <1>16 DEF Take, k
  <2>5. Held' = Held \cup {k} /\ Pushing' = Pushing
    BY <1>16, <2>4 DEF Take, Shape, Held, Pushing
  <2>6. OneHolder'
    BY <1>16, <2>3, <2>4 DEF Take, Shape, OnePlace, Held, OneHolder
  <2>7. QED BY <1>16, <2>2, <2>3, <2>5, <2>6 DEF Take, OnePlace, Distinct, OneHolder
<1>17. ASSUME NEW w \in Workers, ApplySingle(w) PROVE OnePlace'
  <2>1. Held' = Held \ {task[w]} /\ task[w] \in Held
    BY <1>17 DEF ApplySingle, Shape, Held, OnePlace
  <2>2. Queued' = Queued /\ Pushing' = Pushing
    BY <1>17 DEF ApplySingle, Queued, Pushing
  <2>3. OneHolder'
    BY <1>17 DEF ApplySingle, Shape, OnePlace, OneHolder
  <2>4. QED BY <1>17, <2>1, <2>2, <2>3 DEF ApplySingle, OnePlace, OneHolder
<1>18. ASSUME NEW w \in Workers, UnlockNotify(w) PROVE OnePlace'
  BY <1>18, PushingStays, PlacesStay DEF UnlockNotify, Shape
<1>19. ASSUME NEW w \in Workers, ApplyRepeat(w) PROVE OnePlace'
  BY <1>19, PushingStays, PlacesStay DEF ApplyRepeat, Shape
<1>20. ASSUME NEW w \in Workers, Again(w) PROVE OnePlace'
  BY <1>20, PushingStays, PlacesStay DEF Again, Shape
<1>21. ASSUME NEW w \in Workers, Repush(w) PROVE OnePlace'
  <2> DEFINE k == task[w]
  <2>1. Held' = Held \ {k} /\ k \in Held /\ k \in Tasks
    BY <1>21 DEF Repush, Shape, Held, OnePlace
  <2>2. Distinct(inQueue) /\ k \notin Members(inQueue) /\ Queued = Members(inQueue)
    BY <2>1 DEF OnePlace, Distinct, Members, Queued
  <2>3. Distinct(inQueue') /\ Members(inQueue') = Members(inQueue) \cup {k}
    BY <1>21, <2>1, <2>2, AppendMembers DEF Repush, Shape
  <2>4. Queued' = Queued \cup {k} /\ Pushing' = Pushing
    BY <1>21, <2>2, <2>3 DEF Repush, Members, Queued, Pushing
  <2>5. OneHolder'
    BY <1>21 DEF Repush, Shape, OnePlace, OneHolder
  <2> HIDE DEF k
  <2>6. QED BY <1>21, <2>1, <2>3, <2>4, <2>5 DEF Repush, OnePlace, Distinct, OneHolder
<1>22. ASSUME NEW w \in Workers, RepushNotify(w) PROVE OnePlace'
  BY <1>22, PushingStays, PlacesStay DEF RepushNotify, Shape
<1>23. ASSUME NEW w \in Workers, Decrement(w) PROVE OnePlace'
  BY <1>23, PushingStays, PlacesStay DEF Decrement, Shape
<1>24. CASE UNCHANGED vars
  BY <1>24, PushingStays, PlacesStay DEF vars
<1>25. QED
  BY <1>1, <1>2, <1>3, <1>4, <1>5, <1>6, <1>7, <1>8, <1>9, <1>10, <1>11, <1>12, <1>13,
     <1>14, <1>15, <1>16, <1>17, <1>18, <1>19, <1>20, <1>21, <1>22, <1>23, <1>24 DEF
     Next, ClientStep, ClientCall, WorkerStep

-----------------------------------------------------------------------------
(* Counting *)

Running == {w \in Workers : pc[w] \in Counted}

\* The pool has finitely many threads, so that those at work can be counted.
LEMMA RunningFinite == IsFiniteSet(Running) /\ Cardinality(Running) \in Nat
<1>1. IsFiniteSet(Running)
  BY PoolAssumption, FS_Subset DEF Running
<1>2. QED BY <1>1, FS_CardinalityType

\* No step but the taking of a task and the end of its handling changes who counts.
LEMMA RunningStays ==
  ASSUME RunnedCount, taskRunned' = taskRunned,
         \A w \in Workers : pc'[w] \in Counted <=> pc[w] \in Counted
  PROVE  RunnedCount'
<1>1. Running' = Running
  BY DEF Running
<1>2. QED BY <1>1 DEF RunnedCount, Running

\* A worker counts itself in when it takes a task and out when it is done with it.
LEMMA NextRunnedCount == Shape /\ RunnedCount /\ [Next]_vars => RunnedCount'
<1> SUFFICES ASSUME Shape, RunnedCount, [Next]_vars PROVE RunnedCount'
  OBVIOUS
<1> USE DEF Goto, CGoto, NotifyAll, Counted, poolVars, workerVars, clientVars, taskVars
<1>1. ASSUME NEW c \in Clients, NEW k \in Tasks, Post(c, k) PROVE RunnedCount'
  BY <1>1, RunningStays DEF Post, Shape
<1>2. ASSUME NEW c \in Clients, PushTask(c) PROVE RunnedCount'
  BY <1>2, RunningStays DEF PushTask, Shape
<1>3. ASSUME NEW c \in Clients, PushNotify(c) PROVE RunnedCount'
  BY <1>3, RunningStays DEF PushNotify, Shape
<1>4. ASSUME NEW c \in Clients, Flush(c) PROVE RunnedCount'
  BY <1>4, RunningStays DEF Flush, Shape
<1>5. ASSUME NEW c \in Clients, FlushNotify(c) PROVE RunnedCount'
  BY <1>5, RunningStays DEF FlushNotify, Shape
<1>6. ASSUME NEW c \in Clients, FlushCheck(c) PROVE RunnedCount'
  BY <1>6, RunningStays DEF FlushCheck, Shape
<1>7. ASSUME NEW c \in Clients, Stop(c) PROVE RunnedCount'
  BY <1>7, RunningStays DEF Stop, Shape
<1>8. ASSUME NEW c \in Clients, NEW w \in Workers, StopNotify(c, w) PROVE RunnedCount'
  BY <1>8, RunningStays DEF StopNotify, Shape
<1>9. ASSUME NEW c \in Clients, StopJoin(c) PROVE RunnedCount'
  BY <1>9, RunningStays DEF StopJoin, Shape
<1>10. ASSUME NEW c \in Clients, NEW k \in Tasks, Wait(c, k) PROVE RunnedCount'
  BY <1>10, RunningStays DEF Wait, Shape
<1>11. ASSUME NEW c \in Clients, WaitSpurious(c) PROVE RunnedCount'
  BY <1>11, RunningStays DEF WaitSpurious, Shape
<1>12. ASSUME NEW c \in Clients, WaitTest(c) PROVE RunnedCount'
  BY <1>12, RunningStays DEF WaitTest, Shape
<1>13. ASSUME NEW c \in Clients, WaitBlock(c) PROVE RunnedCount'
  BY <1>13, RunningStays DEF WaitBlock, Shape
<1>14. ASSUME NEW w \in Workers, WaitOrExit(w) PROVE RunnedCount'
  BY <1>14, RunningStays DEF WaitOrExit, Shape
<1>15. ASSUME NEW w \in Workers, SpuriousWakeup(w) PROVE RunnedCount'
  BY <1>15, RunningStays DEF SpuriousWakeup, Shape
<1>16. ASSUME NEW w \in Workers, Take(w) PROVE RunnedCount'
  <2>1. Running' = Running \cup {w} /\ w \notin Running
    BY <1>16 DEF Take, Shape, Running
  <2>2. Cardinality(Running') = Cardinality(Running) + 1
    BY <2>1, RunningFinite, FS_AddElement
  <2>3. QED BY <1>16, <2>2 DEF Take, RunnedCount, Running
<1>17. ASSUME NEW w \in Workers, ApplySingle(w) PROVE RunnedCount'
  BY <1>17, RunningStays DEF ApplySingle, Shape
<1>18. ASSUME NEW w \in Workers, UnlockNotify(w) PROVE RunnedCount'
  BY <1>18, RunningStays DEF UnlockNotify, Shape
<1>19. ASSUME NEW w \in Workers, ApplyRepeat(w) PROVE RunnedCount'
  BY <1>19, RunningStays DEF ApplyRepeat, Shape
<1>20. ASSUME NEW w \in Workers, Again(w) PROVE RunnedCount'
  BY <1>20, RunningStays DEF Again, Shape
<1>21. ASSUME NEW w \in Workers, Repush(w) PROVE RunnedCount'
  BY <1>21, RunningStays DEF Repush, Shape
<1>22. ASSUME NEW w \in Workers, RepushNotify(w) PROVE RunnedCount'
  BY <1>22, RunningStays DEF RepushNotify, Shape
<1>23. ASSUME NEW w \in Workers, Decrement(w) PROVE RunnedCount'
  <2>1. Running' = Running \ {w} /\ w \in Running
    BY <1>23 DEF Decrement, Shape, Running
  <2>2. Cardinality(Running') = Cardinality(Running) - 1
    BY <2>1, RunningFinite, FS_RemoveElement
  <2>3. QED BY <1>23, <2>2 DEF Decrement, RunnedCount, Running
<1>24. CASE UNCHANGED vars
  BY <1>24, RunningStays DEF vars
<1>25. QED
  BY <1>1, <1>2, <1>3, <1>4, <1>5, <1>6, <1>7, <1>8, <1>9, <1>10, <1>11, <1>12, <1>13,
     <1>14, <1>15, <1>16, <1>17, <1>18, <1>19, <1>20, <1>21, <1>22, <1>23, <1>24 DEF
     Next, ClientStep, ClientCall, WorkerStep

-----------------------------------------------------------------------------
(* What flush sees *)

InPool == Queued \cup Held \cup done

\* Only the thread that has had its task accepted pushes it.
LEMMA PostedGrows ==
  Shape /\ OnePlace /\ [Next]_vars =>
      posted \subseteq posted' /\ Pushing' \cap posted \subseteq Pushing
<1> DEFINE Goal == posted \subseteq posted' /\ Pushing' \cap posted \subseteq Pushing
<1> SUFFICES ASSUME Shape, OnePlace, [Next]_vars PROVE Goal
  OBVIOUS
<1> USE DEF CGoto, poolVars, workerVars, clientVars, taskVars
<1>1. ASSUME NEW c \in Clients, NEW k \in Tasks, Post(c, k) PROVE Goal
  BY <1>1 DEF Post, Shape, Pushing
<1>2. ASSUME NEW c \in Clients, PushTask(c) PROVE Goal
  BY <1>2 DEF PushTask, Shape, Pushing
<1>3. ASSUME NEW c \in Clients, PushNotify(c) PROVE Goal
  BY <1>3 DEF PushNotify, Shape, Pushing
<1>4. ASSUME NEW c \in Clients, Flush(c) PROVE Goal
  BY <1>4 DEF Flush, Shape, Pushing
<1>5. ASSUME NEW c \in Clients, FlushNotify(c) PROVE Goal
  BY <1>5 DEF FlushNotify, Shape, Pushing
<1>6. ASSUME NEW c \in Clients, FlushCheck(c) PROVE Goal
  BY <1>6 DEF FlushCheck, Shape, Pushing
<1>7. ASSUME NEW c \in Clients, Stop(c) PROVE Goal
  BY <1>7 DEF Stop, Shape, Pushing
<1>8. ASSUME NEW c \in Clients, NEW w \in Workers, StopNotify(c, w) PROVE Goal
  BY <1>8 DEF StopNotify, Shape, Pushing
<1>9. ASSUME NEW c \in Clients, StopJoin(c) PROVE Goal
  BY <1>9 DEF StopJoin, Shape, Pushing
<1>10. ASSUME NEW c \in Clients, NEW k \in Tasks, Wait(c, k) PROVE Goal
  BY <1>10 DEF Wait, Shape, Pushing
<1>11. ASSUME NEW c \in Clients, WaitSpurious(c) PROVE Goal
  BY <1>11 DEF WaitSpurious, Shape, Pushing
<1>12. ASSUME NEW c \in Clients, WaitTest(c) PROVE Goal
  BY <1>12 DEF WaitTest, Shape, Pushing
<1>13. ASSUME NEW c \in Clients, WaitBlock(c) PROVE Goal
  BY <1>13 DEF WaitBlock, Shape, Pushing
<1>14. ASSUME NEW w \in Workers, WaitOrExit(w) PROVE Goal
  BY <1>14 DEF WaitOrExit, Shape, Pushing
<1>15. ASSUME NEW w \in Workers, SpuriousWakeup(w) PROVE Goal
  BY <1>15 DEF SpuriousWakeup, Shape, Pushing
<1>16. ASSUME NEW w \in Workers, Take(w) PROVE Goal
  BY <1>16 DEF Take, Shape, Pushing
<1>17. ASSUME NEW w \in Workers, ApplySingle(w) PROVE Goal
  BY <1>17 DEF ApplySingle, Shape, Pushing
<1>18. ASSUME NEW w \in Workers, UnlockNotify(w) PROVE Goal
  BY <1>18 DEF UnlockNotify, Shape, Pushing
<1>19. ASSUME NEW w \in Workers, ApplyRepeat(w) PROVE Goal
  BY <1>19 DEF ApplyRepeat, Shape, Pushing
<1>20. ASSUME NEW w \in Workers, Again(w) PROVE Goal
  BY <1>20 DEF Again, Shape, Pushing
<1>21. ASSUME NEW w \in Workers, Repush(w) PROVE Goal
  BY <1>21 DEF Repush, Shape, Pushing
<1>22. ASSUME NEW w \in Workers, RepushNotify(w) PROVE Goal
  BY <1>22 DEF RepushNotify, Shape, Pushing
<1>23. ASSUME NEW w \in Workers, Decrement(w) PROVE Goal
  BY <1>23 DEF Decrement, Shape, Pushing
<1>24. ASSUME UNCHANGED vars PROVE Goal
  BY <1>24 DEF vars, Shape, Pushing
<1> HIDE DEF Goal
<1>25. QED
  BY <1>1, <1>2, <1>3, <1>4, <1>5, <1>6, <1>7, <1>8, <1>9, <1>10, <1>11, <1>12, <1>13,
     <1>14, <1>15, <1>16, <1>17, <1>18, <1>19, <1>20, <1>21, <1>22, <1>23, <1>24 DEF
     Next, ClientStep, ClientCall, WorkerStep

\* A task that has come into the pool is in the queue, held by a worker or finished
\* from then on.
LEMMA InPoolGrows ==
  ASSUME Shape, OnePlace, OnePusher, [Next]_vars
  PROVE  InPool \subseteq InPool'
<1>1. OnePlace'
  BY NextPlace
<1>2. InPool = posted \ Pushing
  BY DEF OnePlace, InPool
<1>3. InPool' = posted' \ Pushing'
  BY <1>1 DEF OnePlace, InPool
<1>4. QED BY <1>2, <1>3, PostedGrows

\* What a step can do to a client inside flush or wait: what a flush looks for is set
\* when it is called and stays while it loops, a flush that returns has found WORKER
\* tasks at most in the queue and nobody at work, and a wait that returns has found
\* its task finished.
ClientMoves(d) ==
    /\ cpc'[d] \in {"flush", "check"} =>
          \/ cpc[d] \in {"flush", "check"} /\ seen'[d] = seen[d]
          \/ seen'[d] = Queued \cup Held
    /\ (cpc[d] = "check" /\ cpc'[d] = "idle") => Queued \subseteq background /\ taskRunned = 0
    /\ (cpc[d] \in {"test", "block", "blocked"} /\ cpc'[d] = "idle") => arg[d] \in done

\* Every step moves a client only along the lines of ClientMoves.
LEMMA NextClientMoves ==
  ASSUME Shape, [Next]_vars, NEW d \in Clients
  PROVE  ClientMoves(d)
<1> USE DEF CGoto, poolVars, workerVars, clientVars, taskVars
<1>1. ASSUME NEW c \in Clients, NEW k \in Tasks, Post(c, k) PROVE ClientMoves(d)
  BY <1>1 DEF Post, Shape, ClientMoves
<1>2. ASSUME NEW c \in Clients, PushTask(c) PROVE ClientMoves(d)
  BY <1>2 DEF PushTask, Shape, ClientMoves
<1>3. ASSUME NEW c \in Clients, PushNotify(c) PROVE ClientMoves(d)
  BY <1>3 DEF PushNotify, Shape, ClientMoves
<1>4. ASSUME NEW c \in Clients, Flush(c) PROVE ClientMoves(d)
  BY <1>4 DEF Flush, Shape, ClientMoves, Held
<1>5. ASSUME NEW c \in Clients, FlushNotify(c) PROVE ClientMoves(d)
  BY <1>5 DEF FlushNotify, Shape, ClientMoves
<1>6. ASSUME NEW c \in Clients, FlushCheck(c) PROVE ClientMoves(d)
  BY <1>6 DEF FlushCheck, Shape, ClientMoves
<1>7. ASSUME NEW c \in Clients, Stop(c) PROVE ClientMoves(d)
  BY <1>7 DEF Stop, Shape, ClientMoves
<1>8. ASSUME NEW c \in Clients, NEW w \in Workers, StopNotify(c, w) PROVE ClientMoves(d)
  BY <1>8 DEF StopNotify, Shape, ClientMoves
<1>9. ASSUME NEW c \in Clients, StopJoin(c) PROVE ClientMoves(d)
  BY <1>9 DEF StopJoin, Shape, ClientMoves
<1>10. ASSUME NEW c \in Clients, NEW k \in Tasks, Wait(c, k) PROVE ClientMoves(d)
  BY <1>10 DEF Wait, Shape, ClientMoves
<1>11. ASSUME NEW c \in Clients, WaitSpurious(c) PROVE ClientMoves(d)
  BY <1>11 DEF WaitSpurious, Shape, ClientMoves
<1>12. ASSUME NEW c \in Clients, WaitTest(c) PROVE ClientMoves(d)
  BY <1>12 DEF WaitTest, Shape, ClientMoves
<1>13. ASSUME NEW c \in Clients, WaitBlock(c) PROVE ClientMoves(d)
  BY <1>13 DEF WaitBlock, Shape, ClientMoves
<1>14. ASSUME NEW w \in Workers, WaitOrExit(w) PROVE ClientMoves(d)
  BY <1>14 DEF WaitOrExit, Shape, ClientMoves
<1>15. ASSUME NEW w \in Workers, SpuriousWakeup(w) PROVE ClientMoves(d)
  BY <1>15 DEF SpuriousWakeup, Shape, ClientMoves
<1>16. ASSUME NEW w \in Workers, Take(w) PROVE ClientMoves(d)
  BY <1>16 DEF Take, Shape, ClientMoves
<1>17. ASSUME NEW w \in Workers, ApplySingle(w) PROVE ClientMoves(d)
  BY <1>17 DEF ApplySingle, Shape, ClientMoves
<1>18. ASSUME NEW w \in Workers, UnlockNotify(w) PROVE ClientMoves(d)
  BY <1>18 DEF UnlockNotify, Shape, ClientMoves
<1>19. ASSUME NEW w \in Workers, ApplyRepeat(w) PROVE ClientMoves(d)
  BY <1>19 DEF ApplyRepeat, Shape, ClientMoves
<1>20. ASSUME NEW w \in Workers, Again(w) PROVE ClientMoves(d)
  BY <1>20 DEF Again, Shape, ClientMoves
<1>21. ASSUME NEW w \in Workers, Repush(w) PROVE ClientMoves(d)
  BY <1>21 DEF Repush, Shape, ClientMoves
<1>22. ASSUME NEW w \in Workers, RepushNotify(w) PROVE ClientMoves(d)
  BY <1>22 DEF RepushNotify, Shape, ClientMoves
<1>23. ASSUME NEW w \in Workers, Decrement(w) PROVE ClientMoves(d)
  BY <1>23 DEF Decrement, Shape, ClientMoves
<1>24. CASE UNCHANGED vars
  BY <1>24 DEF vars, ClientMoves
<1>25. QED
  BY <1>1, <1>2, <1>3, <1>4, <1>5, <1>6, <1>7, <1>8, <1>9, <1>10, <1>11, <1>12, <1>13,
     <1>14, <1>15, <1>16, <1>17, <1>18, <1>19, <1>20, <1>21, <1>22, <1>23, <1>24 DEF
     Next, ClientStep, ClientCall, WorkerStep

\* flush keeps in sight what it has seen.
LEMMA NextTracked ==
  Shape /\ OnePlace /\ OnePusher /\ Tracked /\ [Next]_vars => Tracked'
<1> SUFFICES ASSUME Shape, OnePlace, OnePusher, Tracked, [Next]_vars,
                    NEW d \in Clients, cpc'[d] \in {"flush", "check"}
             PROVE  seen'[d] \subseteq InPool'
  BY DEF Tracked, InPool
<1>1. seen'[d] \subseteq InPool
  BY NextClientMoves DEF ClientMoves, Tracked, InPool
<1>2. QED BY <1>1, InPoolGrows

-----------------------------------------------------------------------------
(* The theorems *)

\* The inductive invariant: the properties below hold only together.
IInv == Shape /\ OnePusher /\ OnePlace /\ RunnedCount /\ Tracked

\* The pool starts empty, with all its workers about to lock the mutex.
LEMMA InitIInv == Init => IInv
<1> SUFFICES ASSUME Init PROVE IInv
  OBVIOUS
<1> USE PoolAssumption DEF Init
<1>1. Shape
  <2>1. /\ pc \in [Workers -> Counted \cup {"lock", "wait", "exit"}]
        /\ \A w \in Workers : pc[w] = "lock"
    OBVIOUS
  <2>2. /\ task \in [Workers -> Tasks \cup {None}]
        /\ arg \in [Clients -> Tasks \cup Workers \cup {None}]
        /\ seen \in [Clients -> SUBSET Tasks]
    OBVIOUS
  <2>3. /\ cpc \in [Clients -> {"idle", "push", "notify", "flush", "check", "stop", "join",
                                "test", "block", "blocked"}]
        /\ \A c \in Clients : cpc[c] = "idle"
    OBVIOUS
  <2>4. inQueue \in Seq(Tasks)
    OBVIOUS
  <2>5. QED BY <2>1, <2>2, <2>3, <2>4 DEF Shape, Holding
<1>2. OnePusher /\ Tracked
  BY DEF OnePusher, Tracked
<1>3. OnePlace
  BY DEF OnePlace, Pushing, Queued, Held, Holding
<1>4. RunnedCount
  <2>1. {w \in Workers : pc[w] \in Counted} = {}
    BY DEF Counted
  <2>2. QED BY <2>1, FS_EmptySet DEF RunnedCount
<1>5. QED BY <1>1, <1>2, <1>3, <1>4 DEF IInv

\* The invariant holds in every reachable state.
LEMMA IInvariant == Spec => []IInv
<1>1. IInv /\ [Next]_vars => IInv'
  BY NextShape, NextOnePusher, NextPlace, NextRunnedCount, NextTracked DEF IInv
<1>2. QED BY <1>1, InitIInv, PTL DEF Spec

\* Types: what is finished was accepted, and _task_runned, an unsigned counter that
\* every worker steps up and down, does not go below zero (thread_pool.cpp:75-123).
THEOREM PoolTypeOK == Spec => []TypeOK
<1>1. IInv => TypeOK
  BY RunningFinite DEF IInv, Shape, OnePlace, RunnedCount, Running, TypeOK
<1>2. QED BY <1>1, IInvariant, PTL

\* No task is lost, duplicated or run by two workers, however workers and clients
\* interleave between the sections under _queue_mutex (thread_pool.cpp:22-123).
THEOREM TasksInOnePlace == Spec => []OnePlace
<1>1. IInv => OnePlace
  BY DEF IInv
<1>2. QED BY <1>1, IInvariant, PTL

\* _task_runned is the number of workers with a task in hand (thread_pool.cpp:75-123).
THEOREM RunnedIsCount == Spec => []RunnedCount
<1>1. IInv => RunnedCount
  BY DEF IInv
<1>2. QED BY <1>1, IInvariant, PTL

\* flush returns only when every task it found in the pool, WORKER tasks apart, is
\* finished, although it looks at the queue and the counter only: a task that goes from
\* a worker back to the queue always shows in one of them (thread_pool.cpp:46-65).
THEOREM FlushIsSound == Spec => FlushSound
<1> DEFINE Done(c) == seen[c] \subseteq done \cup background
           Step == \A c \in Clients : (cpc[c] = "check" /\ cpc'[c] = "idle") => Done(c)
<1>1. IInv /\ [Next]_vars => [Step]_vars
  <2> SUFFICES ASSUME IInv, [Next]_vars, NEW c \in Clients, cpc[c] = "check", cpc'[c] = "idle"
               PROVE  Done(c)
    BY DEF Step
  <2> USE DEF IInv
  <2>1. Queued \subseteq background /\ taskRunned = 0
    BY NextClientMoves DEF ClientMoves
  <2>2. Running = {}
    BY <2>1, RunningFinite, FS_EmptySet DEF RunnedCount, Running
  <2>3. Held = {}
    BY <2>2 DEF Held, Running, Holding, Counted
  <2>4. QED BY <2>1, <2>3 DEF Tracked
<1>2. QED BY <1>1, IInvariant, PTL DEF Spec, FlushSound

\* task_result::wait returns only when the task is over (task.h:46-54).
THEOREM WaitIsSound == Spec => WaitSound
<1> DEFINE Step == \A c \in Clients :
             (cpc[c] \in {"test", "block", "blocked"} /\ cpc'[c] = "idle") => arg[c] \in done
<1>1. IInv /\ [Next]_vars => [Step]_vars
  BY NextClientMoves DEF ClientMoves, IInv
<1>2. QED BY <1>1, IInvariant, PTL DEF Spec, WaitSound
=============================================================================
