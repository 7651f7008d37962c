-------------------------- MODULE LifecycleProofs --------------------------
(***************************************************************************)
(* Proofs about Lifecycle, for any number of user and network threads and  *)
(* of calls: the end of a context finds the thread manager unused and all  *)
(* its threads gone.                                                       *)
(***************************************************************************)
EXTENDS Lifecycle, FiniteSets, FiniteSetTheorems, TLAPS

\* The calls that have been begun and may yet put a task into the USER pool.
Pending == {t \in Threads : pc[t] \in Posting \cup {"call"}}

\* Every task in the queue and every pending call is one of the counted calls.
Bounded == IsFiniteSet(Pending) /\ queue + Cardinality(Pending) <= posts

\* TypeOK without the bound on the queue, which needs a count.
Shape ==
    /\ owners \subseteq Callers \cup {Main}
    /\ stopping \in BOOLEAN /\ refuses \in BOOLEAN /\ freed \in BOOLEAN
    /\ actorsGone \in BOOLEAN /\ crashed \in {"no", "manager", "join"}
    /\ manager \in {"up", "cleared", "null"}
    /\ stopFlag \in [Kinds -> BOOLEAN] /\ isStoped \in [Kinds -> BOOLEAN]
    /\ queue \in Nat /\ posts \in 0 .. MaxPosts
    /\ exited \subseteq PoolThreads \cup Nets
    /\ pc \in [Threads -> Posting \cup {"idle", "task", "poll", "call", "release", "destroy"}]
    /\ stopper \in Threads \cup {None}
    /\ stage \in {"no", "begin", "net", "pools", "null", "actors", "done"}
    /\ \A u \in Callers : (u \in owners) <=> (pc[u] \in Posting \cup {"call", "release"})

\* A thread that has left its loop does nothing any more.
ExitedIdle == \A t \in exited : pc[t] = "idle"

\* The main thread keeps its pointer while it posts, and once a thread destroys the
\* context nobody has one.
OwnersUse ==
    /\ pc[Main] \in Posting => Main \in owners
    /\ (\E t \in Threads : pc[t] = "destroy") => owners = {}

\* How far stop() has come, and what that says of the threads and the manager.
StopProgress ==
    /\ stage # "no" => pc[Main] \notin Posting
    /\ stage \in {"net", "pools", "null", "actors", "done"} => Nets \subseteq exited
    /\ \A k \in Kinds : isStoped[k] => Of(k) \subseteq exited
    /\ stage \in {"null", "actors", "done"} => \A k \in Kinds : isStoped[k]
    /\ manager # "up" => stage \in {"null", "actors", "done"}
    /\ freed => stage = "done"

\* A crash is the end, so only states before one have to be sound.
Sound == crashed = "no" => ExitedIdle /\ OwnersUse /\ StopProgress

Settled == Sound /\ ManagerOutlivesUse /\ QuietStop

\* The inductive invariant behind the two safety properties.
IInv == Shape /\ Settled

\* The state make_context leaves satisfies the invariant.
LEMMA InitIInv == Init => IInv
<1> SUFFICES ASSUME Init PROVE IInv
  OBVIOUS
<1> USE LifecycleAssumption DEF Init
<1>1. Shape
  <2>1. stopFlag \in [Kinds -> BOOLEAN] /\ isStoped \in [Kinds -> BOOLEAN]
    OBVIOUS
  <2>2. pc \in [Threads -> Posting \cup {"idle", "task", "poll", "call", "release", "destroy"}]
    OBVIOUS
  <2>3. \A u \in Callers : u \notin owners /\ pc[u] = "idle"
    BY DEF Callers, Threads, PoolThreads
  <2>4. owners \subseteq Callers \cup {Main} /\ exited \subseteq PoolThreads \cup Nets
    OBVIOUS
  <2>5. queue \in Nat /\ posts \in 0 .. MaxPosts
    OBVIOUS
  <2>6. \A u \in Callers : (u \in owners) <=> (pc[u] \in Posting \cup {"call", "release"})
    BY <2>3 DEF Posting
  <2>7. QED BY <2>1, <2>2, <2>4, <2>5, <2>6 DEF Shape
<1>2. Sound
  BY DEF Sound, ExitedIdle, OwnersUse, StopProgress, Kinds, Threads, PoolThreads,
     Posting
<1>3. ManagerOutlivesUse /\ QuietStop
  BY DEF ManagerOutlivesUse, QuietStop
<1>4. QED BY <1>1, <1>2, <1>3 DEF IInv, Settled

\* Every step keeps the types, and user_context holds the context as long as it is used.
LEMMA NextShape == Shape /\ [Next]_vars => Shape'
<1> SUFFICES ASSUME Shape, [Next]_vars PROVE Shape'
  OBVIOUS
<1> USE LifecycleAssumption DEF Goto, After, Of, Kinds, Callers, PoolThreads, Threads,
        Posting, ctxVars, poolVars, stopVars
<1>1. ASSUME NEW u \in Users, Take(u), crashed = "no" PROVE Shape'
  BY <1>1 DEF Take, Shape
<1>2. ASSUME NEW u \in Users, TaskEnd(u), crashed = "no" PROVE Shape'
  BY <1>2 DEF TaskEnd, Shape
<1>3. ASSUME NEW k \in Kinds, NEW t \in PoolThreads, Exit(k, t), crashed = "no" PROVE Shape'
  BY <1>3 DEF Exit, Shape
<1>4. ASSUME NEW u \in Users, CallLock(u), crashed = "no" PROVE Shape'
  BY <1>4 DEF CallLock, Shape
<1>5. ASSUME NEW u \in Users, CallCheck(u), crashed = "no" PROVE Shape'
  BY <1>5 DEF CallCheck, Shape
<1>6. ASSUME NEW t \in {Sys, Main}, PostDirectly(t), crashed = "no" PROVE Shape'
  BY <1>6 DEF PostDirectly, Shape
<1>7. ASSUME NEW t \in Threads \ Nets, ManagerPost(t), crashed = "no" PROVE Shape'
  BY <1>7 DEF ManagerPost, Shape
<1>8. ASSUME NEW t \in Threads \ Nets, ManagerFind(t), crashed = "no" PROVE Shape'
  BY <1>8 DEF ManagerFind, Shape
<1>9. ASSUME NEW t \in Threads \ Nets, PoolPost(t), crashed = "no" PROVE Shape'
  BY <1>9 DEF PoolPost, Shape
<1>10. ASSUME NEW u \in Callers, CallRelease(u), crashed = "no" PROVE Shape'
  BY <1>10 DEF CallRelease, Shape
<1>11. ASSUME NEW n \in Nets, NetCheck(n), crashed = "no" PROVE Shape'
  BY <1>11 DEF NetCheck, Shape
<1>12. ASSUME NEW n \in Nets, NetPoll(n), crashed = "no" PROVE Shape'
  BY <1>12 DEF NetPoll, Shape
<1>13. ASSUME CallStop, crashed = "no" PROVE Shape'
  BY <1>13 DEF CallStop, Shape
<1>14. ASSUME Drop, crashed = "no" PROVE Shape'
  BY <1>14 DEF Drop, Shape
<1>15. ASSUME NEW t \in Callers \cup {Main}, Destroy(t), crashed = "no" PROVE Shape'
  BY <1>15 DEF Destroy, Shape
<1>16. ASSUME Destroyed, crashed = "no" PROVE Shape'
  BY <1>16 DEF Destroyed, Shape
<1>17. ASSUME NetJoin, crashed = "no" PROVE Shape'
  BY <1>17 DEF NetJoin, Shape
<1>18. ASSUME ManagerStop, crashed = "no" PROVE Shape'
  BY <1>18 DEF ManagerStop, Shape
<1>19. ASSUME NEW k \in Kinds, PoolStop(k), crashed = "no" PROVE Shape'
  BY <1>19 DEF PoolStop, Shape
<1>20. ASSUME NEW k \in Kinds, PoolJoin(k), crashed = "no" PROVE Shape'
  BY <1>20 DEF PoolJoin, Shape
<1>21. ASSUME PoolsClear, crashed = "no" PROVE Shape'
  BY <1>21 DEF PoolsClear, Shape
<1>22. ASSUME ManagerNull, crashed = "no" PROVE Shape'
  BY <1>22 DEF ManagerNull, Shape
<1>23. ASSUME ActorsClear, crashed = "no" PROVE Shape'
  BY <1>23 DEF ActorsClear, Shape
<1>24. ASSUME Over PROVE Shape'
  BY <1>24 DEF Over, Shape, vars
<1>25. CASE UNCHANGED vars
  BY <1>25 DEF vars, Shape
<1>26. QED
  BY <1>1, <1>2, <1>3, <1>4, <1>5, <1>6, <1>7, <1>8, <1>9, <1>10, <1>11, <1>12, <1>13,
     <1>14, <1>15, <1>16, <1>17, <1>18, <1>19, <1>20, <1>21, <1>22, <1>23, <1>24,
     <1>25 DEF Next, UserStep, NetStep, PostStep, StopStep

\* The heart of the argument: whoever is on its way to post is a pool thread that has
\* not left its loop, so that its pool has not been joined and the pools not been
\* cleared, or is the main thread, which does not stop meanwhile.
LEMMA PosterHasManager ==
  ASSUME IInv, crashed = "no", NEW t \in Threads \ Nets, pc[t] \in Posting
  PROVE  manager = "up"
<1> USE LifecycleAssumption
<1>1. ExitedIdle /\ StopProgress
  BY DEF IInv, Settled, Sound
<1>2. t \notin exited
  BY <1>1 DEF ExitedIdle, Posting
<1>3. CASE t = Main
  BY <1>1, <1>3 DEF StopProgress, IInv, Shape
<1>4. CASE t \in PoolThreads
  <2>1. PICK k \in Kinds : t \in Of(k)
    BY <1>4 DEF PoolThreads, Kinds, Of
  <2>2. ~isStoped[k]
    BY <1>1, <1>2, <2>1 DEF StopProgress
  <2>3. QED BY <1>1, <2>2 DEF StopProgress
<1>5. QED BY <1>3, <1>4 DEF Threads

\* A thread leaves its loop only with nothing in hand, the pools go only when their
\* threads have left, and whoever destroys the context is the last that had it.
LEMMA NextSettled == IInv /\ [Next]_vars => Settled'
<1> SUFFICES ASSUME IInv, [Next]_vars PROVE Settled'
  OBVIOUS
<1> USE LifecycleAssumption DEF Goto, After, Of, Kinds, Callers, PoolThreads, Threads,
        Posting, ctxVars, poolVars, stopVars,
        IInv, Shape, Sound, ExitedIdle, OwnersUse, StopProgress, ManagerOutlivesUse, QuietStop
<1>1. ASSUME NEW u \in Users, Take(u), crashed = "no" PROVE Settled'
  BY <1>1 DEF Take, Settled
<1>2. ASSUME NEW u \in Users, TaskEnd(u), crashed = "no" PROVE Settled'
  BY <1>2 DEF TaskEnd, Settled
<1>3. ASSUME NEW k \in Kinds, NEW t \in PoolThreads, Exit(k, t), crashed = "no" PROVE Settled'
  BY <1>3 DEF Exit, Settled
<1>4. ASSUME NEW u \in Users, CallLock(u), crashed = "no" PROVE Settled'
  BY <1>4 DEF CallLock, Settled
<1>5. ASSUME NEW u \in Users, CallCheck(u), crashed = "no" PROVE Settled'
  BY <1>5 DEF CallCheck, Settled
<1>6. ASSUME NEW t \in {Sys, Main}, PostDirectly(t), crashed = "no" PROVE Settled'
  BY <1>6 DEF PostDirectly, Settled
<1>7. ASSUME NEW t \in Threads \ Nets, ManagerPost(t), crashed = "no" PROVE Settled'
  <2>1. manager = "up"
    BY <1>7, PosterHasManager DEF ManagerPost
  <2>2. QED BY <1>7, <2>1 DEF ManagerPost, Settled
<1>8. ASSUME NEW t \in Threads \ Nets, ManagerFind(t), crashed = "no" PROVE Settled'
  <2>1. manager = "up"
    BY <1>8, PosterHasManager DEF ManagerFind
  <2>2. QED BY <1>8, <2>1 DEF ManagerFind, Settled
<1>9. ASSUME NEW t \in Threads \ Nets, PoolPost(t), crashed = "no" PROVE Settled'
  BY <1>9 DEF PoolPost, Settled
<1>10. ASSUME NEW u \in Callers, CallRelease(u), crashed = "no" PROVE Settled'
  BY <1>10 DEF CallRelease, Settled
<1>11. ASSUME NEW n \in Nets, NetCheck(n), crashed = "no" PROVE Settled'
  BY <1>11 DEF NetCheck, Settled
<1>12. ASSUME NEW n \in Nets, NetPoll(n), crashed = "no" PROVE Settled'
  BY <1>12 DEF NetPoll, Settled
<1>13. ASSUME CallStop, crashed = "no" PROVE Settled'
  BY <1>13 DEF CallStop, Settled
<1>14. ASSUME Drop, crashed = "no" PROVE Settled'
  BY <1>14 DEF Drop, Settled
<1>15. ASSUME NEW t \in Callers \cup {Main}, Destroy(t), crashed = "no" PROVE Settled'
  BY <1>15 DEF Destroy, Settled
<1>16. ASSUME Destroyed, crashed = "no" PROVE Settled'
  BY <1>16 DEF Destroyed, Settled
<1>17. ASSUME NetJoin, crashed = "no" PROVE Settled'
  BY <1>17 DEF NetJoin, Settled
<1>18. ASSUME ManagerStop, crashed = "no" PROVE Settled'
  BY <1>18 DEF ManagerStop, Settled
<1>19. ASSUME NEW k \in Kinds, PoolStop(k), crashed = "no" PROVE Settled'
  BY <1>19 DEF PoolStop, Settled
<1>20. ASSUME NEW k \in Kinds, PoolJoin(k), crashed = "no" PROVE Settled'
  BY <1>20 DEF PoolJoin, Settled
<1>21. ASSUME PoolsClear, crashed = "no" PROVE Settled'
  BY <1>21 DEF PoolsClear, Settled
<1>22. ASSUME ManagerNull, crashed = "no" PROVE Settled'
  BY <1>22 DEF ManagerNull, Settled
<1>23. ASSUME ActorsClear, crashed = "no" PROVE Settled'
  BY <1>23 DEF ActorsClear, Settled
<1>24. ASSUME Over PROVE Settled'
  BY <1>24 DEF Over, Settled, vars
<1>25. CASE UNCHANGED vars
  BY <1>25 DEF vars, Settled
<1>26. QED
  BY <1>1, <1>2, <1>3, <1>4, <1>5, <1>6, <1>7, <1>8, <1>9, <1>10, <1>11, <1>12, <1>13,
     <1>14, <1>15, <1>16, <1>17, <1>18, <1>19, <1>20, <1>21, <1>22, <1>23, <1>24,
     <1>25 DEF Next, UserStep, NetStep, PostStep, StopStep

\* What a thread's going from one place to the next does to the number of pending
\* calls.
LEMMA CountGoto ==
  ASSUME Shape, IsFiniteSet(Pending), NEW t \in Threads, NEW l, Goto(t, l)
  PROVE  /\ IsFiniteSet(Pending)'
         /\ Cardinality(Pending) \in Nat /\ Cardinality(Pending)' \in Nat
         /\ LET before == pc[t] \in Posting \cup {"call"}
                after  == l \in Posting \cup {"call"}
            IN  /\ (before <=> after) => Cardinality(Pending)' = Cardinality(Pending)
                /\ (before /\ ~after) => Cardinality(Pending)' = Cardinality(Pending) - 1
                /\ (~before /\ after) => Cardinality(Pending)' = Cardinality(Pending) + 1
<1>1. pc' = [pc EXCEPT ![t] = l] /\ pc = [s \in Threads |-> pc[s]]
  BY DEF Goto, Shape
<1>2. CASE l \in Posting \cup {"call"}
  <2>1. Pending' = Pending \cup {t}
    BY <1>1, <1>2 DEF Pending
  <2>2. t \in Pending <=> pc[t] \in Posting \cup {"call"}
    BY DEF Pending
  <2>3. QED BY <1>2, <2>1, <2>2, FS_AddElement, FS_CardinalityType
<1>3. CASE l \notin Posting \cup {"call"}
  <2>1. Pending' = Pending \ {t}
    BY <1>1, <1>3 DEF Pending
  <2>2. t \in Pending <=> pc[t] \in Posting \cup {"call"}
    BY DEF Pending
  <2>3. QED BY <1>3, <2>1, <2>2, FS_RemoveElement, FS_CardinalityType
<1>4. QED BY <1>2, <1>3

\* Nothing is posted before make_context has returned.
LEMMA InitBounded == Init => Bounded
<1> SUFFICES ASSUME Init PROVE Bounded
  OBVIOUS
<1>1. Pending = {}
  BY DEF Init, Pending, Posting
<1>2. QED BY <1>1, FS_EmptySet DEF Init, Bounded

\* A call that is begun is counted, and puts one task into the queue at most.
LEMMA NextBounded == Shape /\ Bounded /\ [Next]_vars => Bounded'
<1> SUFFICES ASSUME Shape, Bounded, [Next]_vars PROVE Bounded'
  OBVIOUS
<1> USE LifecycleAssumption DEF Callers, PoolThreads, Threads, ctxVars, poolVars,
        stopVars
<1>0. ASSUME UNCHANGED <<pc, queue, posts>> PROVE Bounded'
  BY <1>0 DEF Bounded, Pending
<1>1. ASSUME NEW u \in Users, Take(u), crashed = "no" PROVE Bounded'
  BY <1>1, CountGoto DEF Take, Bounded, Posting, Shape
<1>2. ASSUME NEW u \in Users, TaskEnd(u), crashed = "no" PROVE Bounded'
  BY <1>2, CountGoto DEF TaskEnd, Bounded, Posting, Shape
<1>3. ASSUME NEW k \in Kinds, NEW t \in PoolThreads, Exit(k, t), crashed = "no" PROVE Bounded'
  BY <1>3, <1>0 DEF Exit
<1>4. ASSUME NEW u \in Users, CallLock(u), crashed = "no" PROVE Bounded'
  BY <1>4, CountGoto DEF CallLock, Bounded, Posting, Shape
<1>5. ASSUME NEW u \in Users, CallCheck(u), crashed = "no" PROVE Bounded'
  BY <1>5, CountGoto DEF CallCheck, Bounded, Posting, Shape
<1>6. ASSUME NEW t \in {Sys, Main}, PostDirectly(t), crashed = "no" PROVE Bounded'
  BY <1>6, CountGoto DEF PostDirectly, Bounded, Posting, Shape
<1>7. ASSUME NEW t \in Threads \ Nets, ManagerPost(t), crashed = "no" PROVE Bounded'
  BY <1>7, CountGoto DEF ManagerPost, Bounded, Posting, Shape, After
<1>8. ASSUME NEW t \in Threads \ Nets, ManagerFind(t), crashed = "no" PROVE Bounded'
  BY <1>8, CountGoto DEF ManagerFind, Bounded, Posting, Shape
<1>9. ASSUME NEW t \in Threads \ Nets, PoolPost(t), crashed = "no" PROVE Bounded'
  BY <1>9, CountGoto DEF PoolPost, Bounded, Posting, Shape, After
<1>10. ASSUME NEW u \in Callers, CallRelease(u), crashed = "no" PROVE Bounded'
  BY <1>10, CountGoto DEF CallRelease, Bounded, Posting, Shape
<1>11. ASSUME NEW n \in Nets, NetCheck(n), crashed = "no" PROVE Bounded'
  BY <1>11, <1>0, CountGoto DEF NetCheck, Bounded, Posting
<1>12. ASSUME NEW n \in Nets, NetPoll(n), crashed = "no" PROVE Bounded'
  BY <1>12, CountGoto DEF NetPoll, Bounded, Posting, Shape
<1>13. ASSUME CallStop, crashed = "no" PROVE Bounded'
  BY <1>13, <1>0 DEF CallStop
<1>14. ASSUME Drop, crashed = "no" PROVE Bounded'
  BY <1>14, CountGoto DEF Drop, Bounded, Posting, Shape
<1>15. ASSUME NEW t \in Callers \cup {Main}, Destroy(t), crashed = "no" PROVE Bounded'
  BY <1>15, <1>0 DEF Destroy
<1>16. ASSUME Destroyed, crashed = "no" PROVE Bounded'
  BY <1>16, CountGoto DEF Destroyed, Bounded, Posting, Shape
<1>17. ASSUME NetJoin, crashed = "no" PROVE Bounded'
  BY <1>17, <1>0 DEF NetJoin
<1>18. ASSUME ManagerStop, crashed = "no" PROVE Bounded'
  BY <1>18, <1>0 DEF ManagerStop
<1>19. ASSUME NEW k \in Kinds, PoolStop(k), crashed = "no" PROVE Bounded'
  BY <1>19, <1>0 DEF PoolStop
<1>20. ASSUME NEW k \in Kinds, PoolJoin(k), crashed = "no" PROVE Bounded'
  BY <1>20, <1>0 DEF PoolJoin
<1>21. ASSUME PoolsClear, crashed = "no" PROVE Bounded'
  BY <1>21, <1>0 DEF PoolsClear
<1>22. ASSUME ManagerNull, crashed = "no" PROVE Bounded'
  BY <1>22, <1>0 DEF ManagerNull
<1>23. ASSUME ActorsClear, crashed = "no" PROVE Bounded'
  BY <1>23, <1>0 DEF ActorsClear
<1>24. ASSUME Over PROVE Bounded'
  BY <1>24, <1>0 DEF Over, vars
<1>25. CASE UNCHANGED vars
  BY <1>25, <1>0 DEF vars
<1>26. QED
  BY <1>1, <1>2, <1>3, <1>4, <1>5, <1>6, <1>7, <1>8, <1>9, <1>10, <1>11, <1>12, <1>13,
     <1>14, <1>15, <1>16, <1>17, <1>18, <1>19, <1>20, <1>21, <1>22, <1>23, <1>24,
     <1>25 DEF Next, UserStep, NetStep, PostStep, StopStep, Kinds

\* Types, and no more tasks in the USER pool than calls that post one were begun
\* (context.cpp:262, thread_manager.cpp:23-30).
THEOREM LifecycleTypeOK == Spec => []TypeOK
<1>1. Init => Shape /\ Bounded
  BY InitIInv, InitBounded DEF IInv
<1>2. Shape /\ Bounded /\ [Next]_vars => (Shape /\ Bounded)'
  BY NextShape, NextBounded
<1>3. Shape /\ Bounded => TypeOK
  BY FS_CardinalityType, LifecycleAssumption DEF Shape, Bounded, TypeOK
<1>4. QED BY <1>1, <1>2, <1>3, PTL DEF Spec

\* The invariant holds in every reachable state.
LEMMA IInvariant == Spec => []IInv
<1>1. IInv /\ [Next]_vars => IInv'
  BY NextShape, NextSettled DEF IInv
<1>2. QED BY <1>1, InitIInv, PTL DEF Spec

\* Whatever the threads are doing when context::stop runs, on whichever thread it
\* runs, none of them uses the thread manager or a pool that stop() has taken away
\* (context.cpp:232-233, 262; thread_manager.cpp:23-30, 37-45).
THEOREM StopSparesUse == Spec => []ManagerOutlivesUse
<1>1. IInv => ManagerOutlivesUse
  BY DEF IInv, Settled
<1>2. QED BY <1>1, IInvariant, PTL

\* When stop() calls on_stop of the actors, and when the context is freed, every pool
\* and network thread has left its loop (context.cpp:210-252, context_network.cpp:159-163).
THEOREM StopIsQuiet == Spec => []QuietStop
<1>1. IInv => QuietStop
  BY DEF IInv, Settled
<1>2. QED BY <1>1, IInvariant, PTL
=============================================================================
