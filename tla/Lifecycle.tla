----------------------------- MODULE Lifecycle -----------------------------
(***************************************************************************)
(* How a context ends: context::stop and ~context (context.cpp),           *)
(* thread_manager (thread_manager.cpp) and the two thread pools, against   *)
(* the threads that still use them.                                        *)
(*                                                                         *)
(* The program's thread Main owns the context through a shared_ptr. A      *)
(* thread of the USER pool runs user code, which reaches the context       *)
(* through user_context: it locks a weak_ptr, and so owns the context too  *)
(* until the call is over. The thread Sys runs mailbox_worker, which uses  *)
(* the context through a plain this. All of them post tasks to the USER    *)
(* pool. What the tasks do is the subject of Context, how the pool runs    *)
(* them that of ThreadPool: here a queue is a number of tasks.             *)
(*                                                                         *)
(* The threads Nets of network_init poll the sockets, through a plain this *)
(* as well; what a socket calls in them reaches the context as user code   *)
(* does, posts nothing, and is the subject of Network. The manager's third *)
(* pool, NETWORK, is given nothing to do by anybody and is left out.       *)
(*                                                                         *)
(* Init is the state after make_context. The plain bools _stopping_begin,  *)
(* _stoping_begin and _is_stoped are read and written without a lock; each *)
(* access is a step.                                                       *)
(***************************************************************************)
EXTENDS Naturals

CONSTANTS
    Users,      \* the threads of the USER pool
    Nets,       \* the threads of context::_net_threads
    Sys,        \* the thread of the SYSTEM pool
    Main,       \* the thread of the program that has made the context
    None,       \* nobody
    MaxPosts    \* bound: how many calls that post a task are begun

ASSUME LifecycleAssumption ==
    /\ Users \cap Nets = {} /\ Sys \notin Users \cup Nets
    /\ Main \notin Users \cup Nets \cup {Sys}
    /\ None \notin Users \cup Nets \cup {Sys, Main}
    /\ MaxPosts \in Nat

PoolThreads == Users \cup {Sys}
Callers     == Users \cup Nets     \* those that reach the context through user_context
Threads     == PoolThreads \cup Nets \cup {Main}
Kinds       == {"USER", "SYSTEM"}
Of(k)       == IF k = "USER" THEN Users ELSE {Sys}

VARIABLES
    owners,     \* the threads that hold a shared_ptr to the context
    stopping,   \* context::_stopping_begin
    manager,    \* context::_thread_manager: its pools are there, cleared, or it is null
    refuses,    \* thread_manager::_stoping_begin
    stopFlag,   \* stopFlag[k]: threads_pool::_stop_flag
    isStoped,   \* isStoped[k]: threads_pool::_is_stoped
    queue,      \* how many tasks wait in the USER pool
    exited,     \* the threads that have left _pool_logic or the loop of network_init
    pc,         \* pc[t]: what thread t is doing
    stopper,    \* the thread inside context::stop
    stage,      \* how far it has come; "no" before, "done" after
    actorsGone, \* _actors has been cleared
    freed,      \* ~context has finished
    posts,      \* how many calls that post a task were begun
    crashed     \* why the process has died: a missing pool or manager was used
                \* ("manager") or a thread joined itself ("join"); else "no"

ctxVars  == <<owners, stopping, freed, actorsGone>>
poolVars == <<manager, refuses, stopFlag, isStoped, queue, exited, posts>>
stopVars == <<stopper, stage>>
vars == <<owners, stopping, manager, refuses, stopFlag, isStoped, queue, exited, pc,
          stopper, stage, actorsGone, freed, posts, crashed>>

\* Inside user_post, between the steps of thread_manager::post.
Posting == {"post", "find", "push"}

TypeOK ==
    /\ owners \subseteq Callers \cup {Main}
    /\ stopping \in BOOLEAN /\ refuses \in BOOLEAN /\ freed \in BOOLEAN
    /\ actorsGone \in BOOLEAN /\ crashed \in {"no", "manager", "join"}
    /\ manager \in {"up", "cleared", "null"}
    /\ stopFlag \in [Kinds -> BOOLEAN] /\ isStoped \in [Kinds -> BOOLEAN]
    /\ queue \in 0 .. MaxPosts /\ posts \in 0 .. MaxPosts
    /\ exited \subseteq PoolThreads \cup Nets
    /\ pc \in [Threads -> Posting \cup {"idle", "task", "poll", "call", "release", "destroy"}]
    /\ stopper \in Threads \cup {None}
    /\ stage \in {"no", "begin", "net", "pools", "null", "actors", "done"}
    \* A thread is in user_context exactly as long as it keeps the context alive.
    /\ \A u \in Callers : (u \in owners) <=> (pc[u] \in Posting \cup {"call", "release"})

Init ==
    /\ owners = {Main}
    /\ stopping = FALSE /\ refuses = FALSE
    /\ manager = "up"
    /\ stopFlag = [k \in Kinds |-> FALSE] /\ isStoped = [k \in Kinds |-> FALSE]
    /\ queue = 0 /\ posts = 0
    /\ exited = {}
    /\ pc = [t \in Threads |-> "idle"]
    /\ stopper = None /\ stage = "no"
    /\ actorsGone = FALSE /\ freed = FALSE
    /\ crashed = "no"

Goto(t, l) == pc' = [pc EXCEPT ![t] = l]

\* Where a thread goes on after user_post.
After(t) == IF t \in Users THEN "release" ELSE "idle"

-----------------------------------------------------------------------------
(* The pool threads (ThreadPool has the details)                           *)

Take(u) ==
    /\ pc[u] = "idle" /\ u \notin exited
    /\ ~stopFlag["USER"] /\ queue > 0
    /\ queue' = queue - 1
    /\ Goto(u, "task")
    /\ UNCHANGED <<ctxVars, manager, refuses, stopFlag, isStoped, exited, posts, stopVars, crashed>>

\* The task, user code and all, is over.
TaskEnd(u) ==
    /\ pc[u] = "task"
    /\ Goto(u, "idle")
    /\ UNCHANGED <<ctxVars, poolVars, stopVars, crashed>>

\* _pool_logic returns at the next look at the flag; what is queued stays there.
Exit(k, t) ==
    /\ t \in Of(k) /\ pc[t] = "idle" /\ t \notin exited
    /\ stopFlag[k]
    /\ exited' = exited \cup {t}
    /\ UNCHANGED <<ctxVars, manager, refuses, stopFlag, isStoped, queue, posts, pc, stopVars, crashed>>

-----------------------------------------------------------------------------
(* Posting a task                                                          *)

\* A task's user code enters user_context: _ctx.lock() fails once the last
\* owner is gone, and the call does nothing.
CallLock(u) ==
    /\ pc[u] = "task" /\ owners # {} /\ posts < MaxPosts
    /\ owners' = owners \cup {u}
    /\ posts' = posts + 1
    /\ Goto(u, "call")
    /\ UNCHANGED <<stopping, freed, actorsGone, manager, refuses, stopFlag, isStoped, queue,
                   exited, stopVars, crashed>>

\* M_KeepPointer: a call that is not made leaves its shared_ptr behind.
M_KeepPointer(u) ==
    /\ pc[u] = "call"
    /\ Goto(u, IF stopping THEN "task" ELSE "post")
    /\ UNCHANGED <<ctxVars, poolVars, stopVars, crashed>>

\* ... where is_stopping_begin() decides whether the call is made.
CallCheck(u) ==
    /\ pc[u] = "call"
    /\ Goto(u, IF stopping THEN "release" ELSE "post")
    /\ UNCHANGED <<ctxVars, poolVars, stopVars, crashed>>

\* mailbox_worker dispatches an actor, or Main adds one: no check comes before.
PostDirectly(t) ==
    /\ pc[t] = "idle" /\ posts < MaxPosts
    /\ \/ t = Sys /\ Sys \notin exited
       \/ t = Main /\ Main \in owners /\ stage = "no"
    /\ posts' = posts + 1
    /\ Goto(t, "post")
    /\ UNCHANGED <<ctxVars, manager, refuses, stopFlag, isStoped, queue, exited, stopVars, crashed>>

\* _thread_manager->post: the manager must be there; it refuses once it stops.
ManagerPost(t) ==
    /\ pc[t] = "post"
    /\ Goto(t, IF refuses THEN After(t) ELSE "find")
    /\ crashed' = IF manager = "null" THEN "manager" ELSE "no"
    /\ UNCHANGED <<ctxVars, poolVars, stopVars>>

\* _pools.find(kind): the pools must not have been cleared.
ManagerFind(t) ==
    /\ pc[t] = "find"
    /\ Goto(t, "push")
    /\ crashed' = IF manager # "up" THEN "manager" ELSE "no"
    /\ UNCHANGED <<ctxVars, poolVars, stopVars>>

\* threads_pool::post: refused by a pool that has stopped, else queued, even
\* when nobody will ever take it.
PoolPost(t) ==
    /\ pc[t] = "push"
    /\ queue' = IF isStoped["USER"] THEN queue ELSE queue + 1
    /\ Goto(t, After(t))
    /\ UNCHANGED <<ctxVars, manager, refuses, stopFlag, isStoped, exited, posts, stopVars, crashed>>

\* The caller's shared_ptr goes; the last one takes the context with it.
CallRelease(u) ==
    /\ pc[u] = "release"
    /\ owners' = owners \ {u}
    /\ Goto(u, IF owners = {u} THEN "destroy" ELSE IF u \in Users THEN "task" ELSE "idle")
    /\ UNCHANGED <<stopping, freed, actorsGone, poolVars, stopVars, crashed>>

-----------------------------------------------------------------------------
(* The network threads                                                     *)

\* while (!is_stopping_begin()) ...
NetCheck(n) ==
    /\ pc[n] = "idle" /\ n \notin exited
    /\ IF stopping THEN exited' = exited \cup {n} /\ UNCHANGED pc
                   ELSE Goto(n, "poll") /\ UNCHANGED exited
    /\ UNCHANGED <<ctxVars, manager, refuses, stopFlag, isStoped, queue, posts, stopVars, crashed>>

\* ... poll_one: nothing is ready, or a socket calls its actor, which looks up an
\* address, sends or publishes. None of these calls asks is_stopping_begin first
\* when it takes its shared_ptr.
NetPoll(n) ==
    /\ pc[n] = "poll"
    /\ \/ Goto(n, "idle") /\ UNCHANGED owners
       \/ owners # {} /\ owners' = owners \cup {n} /\ Goto(n, "release")
    /\ UNCHANGED <<stopping, freed, actorsGone, poolVars, stopVars, crashed>>

-----------------------------------------------------------------------------
(* context::stop and ~context                                              *)

\* Main calls stop(): _stopping_begin is raised.
CallStop ==
    /\ pc[Main] = "idle" /\ Main \in owners /\ stage = "no"
    /\ stopper' = Main /\ stage' = "begin"
    /\ stopping' = TRUE
    /\ UNCHANGED <<owners, freed, actorsGone, poolVars, pc, crashed>>

\* Main drops its pointer.
Drop ==
    /\ pc[Main] = "idle" /\ Main \in owners
    /\ stage \in {"no", "done"}
    /\ owners' = owners \ {Main}
    /\ Goto(Main, IF owners = {Main} THEN "destroy" ELSE "idle")
    /\ UNCHANGED <<stopping, freed, actorsGone, poolVars, stopVars, crashed>>

\* ~context: stop() if there is a manager still, on the thread that dropped the
\* last pointer.
Destroy(t) ==
    /\ pc[t] = "destroy" /\ manager # "null" /\ stage = "no"
    /\ stopper' = t /\ stage' = "begin"
    /\ stopping' = TRUE
    /\ UNCHANGED <<owners, freed, actorsGone, poolVars, pc, crashed>>

\* ~context ends. Main does this: a USER or network thread that stops the context
\* does not survive it, see PoolJoin and NetJoin.
Destroyed ==
    /\ pc[Main] = "destroy" /\ manager = "null" /\ stage = "done"
    /\ freed' = TRUE
    /\ Goto(Main, "idle")
    /\ UNCHANGED <<owners, stopping, actorsGone, poolVars, stopVars, crashed>>

\* M_LeaveNet: the network threads are left to end by themselves.
M_LeaveNet ==
    /\ stage = "begin"
    /\ crashed' = IF stopper \in Nets THEN "join" ELSE "no"
    /\ stage' = "net"
    /\ UNCHANGED <<ctxVars, poolVars, pc, stopper>>

\* The connections and listeners are told to stop and waited for, which is up to
\* the socket library, then the network threads are joined.
NetJoin ==
    /\ stage = "begin"
    /\ stopper \in Nets \/ Nets \subseteq exited
    /\ crashed' = IF stopper \in Nets THEN "join" ELSE "no"
    /\ stage' = "net"
    /\ UNCHANGED <<ctxVars, poolVars, pc, stopper>>

\* thread_manager::stop: no more posts, ...
ManagerStop ==
    /\ stage = "net"
    /\ refuses' = TRUE
    /\ stage' = "pools"
    /\ UNCHANGED <<ctxVars, manager, stopFlag, isStoped, queue, exited, posts, pc, stopper, crashed>>

\* M_ForgetFlag: threads_pool::stop does not raise the flag of the SYSTEM pool.
M_ForgetFlag(k) ==
    /\ stage = "pools" /\ ~stopFlag[k]
    /\ \A j \in Kinds : stopFlag[j] => isStoped[j]
    /\ k = "USER"
    /\ stopFlag' = [stopFlag EXCEPT ![k] = TRUE]
    /\ UNCHANGED <<ctxVars, manager, refuses, isStoped, queue, exited, posts, pc, stopVars, crashed>>

\* ... then the pools, one after the other in the order of an unordered_map.
PoolStop(k) ==
    /\ stage = "pools" /\ ~stopFlag[k]
    /\ \A j \in Kinds : stopFlag[j] => isStoped[j]
    /\ stopFlag' = [stopFlag EXCEPT ![k] = TRUE]
    /\ UNCHANGED <<ctxVars, manager, refuses, isStoped, queue, exited, posts, pc, stopVars, crashed>>

\* worker.join() for every thread of the pool. A thread that joins itself gets an
\* exception, and one that leaves a destructor ends the process.
PoolJoin(k) ==
    /\ stage = "pools" /\ stopFlag[k] /\ ~isStoped[k]
    /\ stopper \in Of(k) \/ Of(k) \subseteq exited
    /\ crashed' = IF stopper \in Of(k) THEN "join" ELSE "no"
    /\ isStoped' = [isStoped EXCEPT ![k] = TRUE]
    /\ UNCHANGED <<ctxVars, manager, refuses, stopFlag, queue, exited, posts, pc, stopVars>>

\* M_ClearEarly: _pools is cleared when the first pool has stopped.
M_ClearEarly ==
    /\ stage = "pools" /\ \E k \in Kinds : isStoped[k]
    /\ manager' = "cleared"
    /\ stage' = "null"
    /\ UNCHANGED <<ctxVars, refuses, stopFlag, isStoped, queue, exited, posts, pc, stopper, crashed>>

\* _pools.clear(), ...
PoolsClear ==
    /\ stage = "pools" /\ \A k \in Kinds : isStoped[k]
    /\ manager' = "cleared"
    /\ stage' = "null"
    /\ UNCHANGED <<ctxVars, refuses, stopFlag, isStoped, queue, exited, posts, pc, stopper, crashed>>

\* ... _thread_manager = nullptr, ...
ManagerNull ==
    /\ stage = "null"
    /\ manager' = "null"
    /\ stage' = "actors"
    /\ UNCHANGED <<ctxVars, refuses, stopFlag, isStoped, queue, exited, posts, pc, stopper, crashed>>

\* ... and on_stop for every actor, under _locker, before the maps are cleared.
ActorsClear ==
    /\ stage = "actors"
    /\ actorsGone' = TRUE
    /\ stage' = "done" /\ stopper' = None
    /\ UNCHANGED <<owners, stopping, freed, poolVars, pc, crashed>>

-----------------------------------------------------------------------------
UserStep(u) ==
    \/ Take(u) \/ TaskEnd(u) \/ Exit("USER", u)
    \/ CallLock(u) \/ CallCheck(u) \/ CallRelease(u)

PostStep(t) == ManagerPost(t) \/ ManagerFind(t) \/ PoolPost(t)

NetStep(n) == NetCheck(n) \/ NetPoll(n) \/ CallRelease(n)

StopStep ==
    \/ NetJoin \/ ManagerStop \/ PoolsClear \/ ManagerNull \/ ActorsClear
    \/ \E k \in Kinds : PoolStop(k) \/ PoolJoin(k)

\* The process is over, or has crashed.
Over == (freed \/ crashed # "no") /\ UNCHANGED vars

Next ==
    \/ /\ crashed = "no"
       /\ \/ \E u \in Users : UserStep(u)
          \/ \E n \in Nets : NetStep(n)
          \/ \E t \in Threads \ Nets : PostStep(t)
          \/ PostDirectly(Sys) \/ PostDirectly(Main) \/ Exit("SYSTEM", Sys)
          \/ CallStop \/ Drop \/ Destroyed
          \/ \E t \in Callers \cup {Main} : Destroy(t)
          \/ StopStep
    \/ Over

Spec == Init /\ [][Next]_vars

\* Every thread goes on with what it is doing; user code ends its task in the
\* end. Main need not stop anything, and nobody need call anything.
Fairness ==
    /\ \A u \in Users :
          /\ WF_vars(crashed = "no" /\ (CallCheck(u) \/ CallRelease(u)))
          /\ WF_vars(crashed = "no" /\ TaskEnd(u))
          /\ WF_vars(crashed = "no" /\ Exit("USER", u))
    /\ \A n \in Nets : WF_vars(crashed = "no" /\ NetStep(n))
    /\ \A t \in Threads \ Nets : WF_vars(crashed = "no" /\ PostStep(t))
    /\ WF_vars(crashed = "no" /\ Exit("SYSTEM", Sys))
    /\ WF_vars(crashed = "no" /\ StopStep)

FairSpec == Spec /\ Fairness

-----------------------------------------------------------------------------
(* Properties                                                              *)

\* Nobody uses the thread manager or its pools after stop() has taken them away,
\* although every thread of both pools may be on its way to post while stop() runs
\* and the checks it passes are not under a lock (context.cpp:232-233, 262;
\* thread_manager.cpp:23-30, 37-45).
ManagerOutlivesUse == crashed # "manager"

\* The context can be dropped without a call of stop(), which the destructor then
\* makes, as unittests/context_test.cpp:17 and 60 do (context.cpp:190-195). A USER
\* or network thread inside user_context may hold the last pointer: it joins itself.
DropIsSafe == crashed # "join"

\* When stop() calls on_stop of the actors and clears the maps, and when the
\* context is freed, no pool thread runs any task and no network thread any callback,
\* nor will: the raw this they have captured is not used any more (context.cpp:200,
\* 227-250, 331, 597; context_network.cpp:159-163).
QuietStop ==
    (stage \in {"actors", "done"} \/ freed) => PoolThreads \cup Nets \subseteq exited

\* stop() comes to its end, or the process to its, whatever the pool and
\* network threads are doing when it is called, posting to the pools included
\* (context.cpp:210-252, thread_pool.cpp:34-44).
StopCompletes == (stage = "begin") ~> (stage = "done" \/ crashed # "no")
=============================================================================
