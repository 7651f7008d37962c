------------------------------ MODULE Context ------------------------------
(***************************************************************************)
(* The heart of libyaaf: yaaf::context (context.cpp) with the actors       *)
(* (actor.cpp) and mailboxes (mailbox.h) it owns.                          *)
(*                                                                         *)
(* Threads. Clients are threads of the program that hold the context.      *)
(* Pool is the USER thread pool: its threads run the tasks that user_post  *)
(* queues, one at a time, in FIFO order (ThreadPool models the pool).      *)
(* The SYSTEM pool runs one task for ever, mailbox_worker, which is here   *)
(* the process Worker.                                                     *)
(*                                                                         *)
(* Atomicity. A section under the exclusive _locker is one step, enabled   *)
(* while nobody holds _locker shared. Whoever holds it shared over several *)
(* steps is in readers. Mailboxes and busy flags have locks of their own:  *)
(* each access to one is a step.                                           *)
(*                                                                         *)
(* User code (action_handle, on_start, the body of a client) is a state in *)
(* which the thread may call the context, return or, in action_handle,     *)
(* throw. Actor ids are never reused, so an id, its description and its    *)
(* actor object are one element of Actors. Init is the state start()       *)
(* leaves once the on_start tasks of the built-in actors, which do         *)
(* nothing, have run; no exchange has been created.                        *)
(***************************************************************************)
EXTENDS Naturals, Sequences, FiniteSets

CONSTANTS
    Actors,      \* every actor the program may create, the built-in ones included
    Root, Usr,   \* the built-in actors "/root" and "/root/usr"
    Dad,         \* Dad[a]: the actor below which a is created; None for Root
    None,        \* a null id or pointer
    Clients,     \* threads of the program outside the pools
    Pool,        \* threads of the USER pool (params_t::user_threads)
    Worker,      \* the task that repeats mailbox_worker
    Targets,     \* the actors messages are sent to
    Stoppable,   \* the actors stop_actor is called for
    Decisions,   \* what the on_child_error of a user actor may answer
    MaxSends     \* bound: how many messages are sent

Threads  == Clients \cup Pool
Builtin  == {Root, Usr}
Msgs     == 1 .. MaxSends
Answers  == {"REINIT", "STOP", "ESCALATE", "RESUME"}
Statuses == {"NORMAL", "WITH_ERROR", "STOPED"}

ASSUME ContextAssumption ==
    /\ Root \in Actors /\ Usr \in Actors /\ Root # Usr
    /\ None \notin Actors /\ None \notin Nat
    /\ Dad \in [Actors -> Actors \cup {None}]
    /\ Dad[Root] = None /\ Dad[Usr] = Root
    /\ \A a \in Actors \ {Root} : Dad[a] \in Actors
    /\ Clients \cap Pool = {} /\ Worker \notin Threads
    /\ Targets \subseteq Actors /\ Stoppable \subseteq Actors
    /\ Decisions \subseteq Answers
    /\ MaxSends \in Nat

VARIABLES
    actors,      \* the keys of _actors
    mboxes,      \* the keys of _mboxes
    children,    \* children[a]: description::children
    mail,        \* mail[a]: the mailbox object, which a task may hold after its erasure
    busy,        \* busy[a]: base_actor::_busy
    status,      \* status[a]: base_actor::_status.kind
    issued,      \* the ids handed out by _next_actor_id
    readers,     \* who holds _locker shared
    userq,       \* the tasks posted with user_post and not taken yet
    pc,          \* pc[t]: what thread t is doing; "user" for a client
    self,        \* self[t]: the actor whose task t runs
    cur,         \* cur[t]: the envelope t's action_handle is given
    ctx,         \* ctx[t]: the user code of t got a context from get_context()
    call,        \* call[t]: the call of a context operation t is inside of
    asking,      \* asking[t]: descr of the escalation loop
    answer,      \* answer[t]: the action on_child_error decided on
    wk,          \* the state of mailbox_worker
    sends,       \* how many messages were sent; they are numbered from 1
    crashed      \* the process has died of a null or end() dereference

regVars  == <<actors, mboxes, children, issued>>
mboxVars == <<mail, sends>>
actVars  == <<busy, status>>
thVars   == <<pc, self, cur, ctx, asking, answer>>
vars     == <<actors, mboxes, children, mail, busy, status, issued, readers, userq,
              pc, self, cur, ctx, call, asking, answer, wk, sends, crashed>>

StartTask(a) == [kind |-> "start", who |-> a]
ApplyTask(a) == [kind |-> "apply", who |-> a]
Tasks == [kind : {"start", "apply"}, who : Actors]

\* A call in progress, the actor it is about and the message it brings.
Call(op, a, m) == [op |-> op, who |-> a, msg |-> m]
NoCall == Call("none", None, None)

\* The locals of mailbox_worker: where it is, the mailboxes it has not looked at
\* yet, the one it is at, and to_remove.
Scan(l, left, at, rm) == [pc |-> l, left |-> left, at |-> at, rm |-> rm]

\* The control points of a pool thread inside base_actor::apply that lie
\* between the moment busy was taken for it and the moment it is reset.
HoldsBusy == {"enter", "pop", "handle", "normal", "reset", "error", "reset_err"}
\* Those inside context::apply_actor_to_mailbox: the task keeps the description.
InApply == HoldsBusy \cup {"report", "caught", "escalate", "react"}
PC == InApply \cup {"idle", "start", "user"}

TypeOK ==
    /\ actors \subseteq Actors /\ mboxes \subseteq Actors /\ issued \subseteq Actors
    /\ children \in [Actors -> SUBSET Actors]
    /\ mail \in [Actors -> Seq(Msgs)] /\ sends \in 0 .. MaxSends
    /\ busy \in [Actors -> BOOLEAN]
    /\ status \in [Actors -> Statuses]
    /\ readers \subseteq Threads \cup {Worker}
    /\ userq \in Seq(Tasks)
    /\ pc \in [Threads -> PC]
    /\ self \in [Threads -> Actors \cup {None}]
    /\ cur \in [Threads -> Msgs \cup {None}]
    /\ ctx \in [Threads -> BOOLEAN]
    /\ call \in [Threads -> [op : {"none", "push", "insert", "post"},
                             who : Actors \cup {None}, msg : Msgs \cup {None}]]
    /\ asking \in [Threads -> Actors \cup {None}]
    /\ answer \in [Threads -> Answers \cup {None}]
    /\ wk \in [pc : {"idle", "scan", "lock", "post"}, left : SUBSET Actors,
               at : Actors \cup {None}, rm : SUBSET Actors]
    /\ wk.pc \in {"lock", "post"} => wk.at \in Actors
    /\ crashed \in BOOLEAN
    /\ \A t \in Clients : pc[t] = "user"
    /\ \A t \in Pool : /\ pc[t] # "user"
                       /\ (pc[t] # "idle") => self[t] \in Actors
    /\ \A t \in Threads : /\ (call[t].op # "none") => call[t].who \in Actors
                          /\ (call[t].op = "push") => call[t].msg \in Msgs

Init ==
    /\ actors = Builtin /\ mboxes = Builtin /\ issued = Builtin
    /\ children = [a \in Actors |-> IF a = Root THEN {Usr} ELSE {}]
    /\ mail = [a \in Actors |-> <<>>]
    /\ busy = [a \in Actors |-> FALSE]
    /\ status = [a \in Actors |-> "NORMAL"]
    /\ readers = {}
    /\ userq = <<>>
    /\ pc = [t \in Threads |-> IF t \in Clients THEN "user" ELSE "idle"]
    /\ self = [t \in Threads |-> None]
    /\ cur = [t \in Threads |-> None]
    /\ ctx = [t \in Threads |-> t \in Clients]
    /\ call = [t \in Threads |-> NoCall]
    /\ asking = [t \in Threads |-> None]
    /\ answer = [t \in Threads |-> None]
    /\ wk = Scan("idle", {}, None, {})
    /\ sends = 0
    /\ crashed = FALSE

-----------------------------------------------------------------------------
(* Helpers *)

Goto(t, l) == pc' = [pc EXCEPT ![t] = l]

\* The task is over and its locals are gone; the thread waits for the next one.
TaskDone(t) ==
    /\ Goto(t, "idle")
    /\ self' = [self EXCEPT ![t] = None]
    /\ ctx' = [ctx EXCEPT ![t] = FALSE]
    /\ asking' = [asking EXCEPT ![t] = None]
    /\ answer' = [answer EXCEPT ![t] = None]
    /\ UNCHANGED cur

Crash == crashed' = TRUE

\* An add_actor call has put a into the maps at some time, so its address can be known.
Known(a) == a = Root \/ a \in children[Dad[a]]

\* The description of a, and with it the user_context that base_actor::_ctx refers
\* to weakly, is kept by _actors, by a queued or running apply, by an on_start that
\* has got hold of its context and by add_actor.
Described(a) ==
    \/ a \in actors
    \/ \E i \in DOMAIN userq : userq[i] = ApplyTask(a)
    \/ \E t \in Pool : /\ self[t] = a
                       /\ pc[t] \in InApply \/ (pc[t] = "start" /\ ctx[t])
    \/ \E t \in Threads : /\ call[t].op \in {"insert", "post"}
                          /\ call[t].who = a \/ Dad[call[t].who] = a

\* Thread t is in user code, between two calls of the context. The handlers and
\* on_start of the built-in actors are empty.
InUserCode(t) ==
    /\ pc[t] \in {"user", "start", "handle"}
    /\ call[t] = NoCall
    /\ ctx[t] /\ self[t] \notin Builtin

\* Mutant: the built-in actors answer like any other.
M_BuiltinDecides(a) == Decisions

\* What on_child_error answers: the built-in actors inherit base_actor's RESUME.
OnChildErrorAnswers(a) == IF a \in Builtin THEN {"RESUME"} ELSE Decisions

\* The actors stop_actor_impl(a) reaches: it descends along children and does
\* not go below an id that is no longer in _actors.
Subtree(a) ==
    {x \in actors : \A S \in SUBSET actors :
        (a \in S /\ \A y \in S : children[y] \cap actors \subseteq S) => x \in S}

\* Mutant: stop_actor_impl does not erase the mailboxes.
M_KeepMailbox(a) ==
    LET D == IF a \in actors THEN Subtree(a) ELSE {}
    IN  /\ status' = [x \in Actors |-> IF x \in D THEN "STOPED" ELSE status[x]]
        /\ actors' = actors \ D
        /\ UNCHANGED <<mboxes, children, issued>>

\* stop_actor_impl under the exclusive lock: on_stop sets the status of every
\* actor of the subtree, and all of them leave both maps.
StopActorImpl(a) ==
    LET D == IF a \in actors THEN Subtree(a) ELSE {}
    IN  /\ status' = [x \in Actors |-> IF x \in D THEN "STOPED" ELSE status[x]]
        /\ actors' = actors \ D
        /\ mboxes' = mboxes \ D
        /\ UNCHANGED <<children, issued>>

-----------------------------------------------------------------------------
(* Operations that user code calls *)

\* Mutant: send_envelope releases the shared lock before it pushes.
M_FindWithoutLock(t, a) ==
    /\ InUserCode(t)
    /\ sends < MaxSends
    /\ a \in mboxes
    /\ call' = [call EXCEPT ![t] = Call("push", a, sends + 1)]
    /\ sends' = sends + 1
    /\ UNCHANGED <<regVars, mail, actVars, readers, userq, thVars, wk, crashed>>

\* send_envelope: look the mailbox up under the shared lock. A target that is
\* not found is a message silently dropped, which changes nothing.
SendFind(t, a) ==
    /\ InUserCode(t)
    /\ sends < MaxSends
    /\ a \in mboxes
    /\ readers' = readers \cup {t}
    /\ call' = [call EXCEPT ![t] = Call("push", a, sends + 1)]
    /\ sends' = sends + 1
    /\ UNCHANGED <<regVars, mail, actVars, userq, thVars, wk, crashed>>

\* ... and push into it, still under the shared lock.
SendPush(t) ==
    /\ call[t].op = "push"
    /\ mail' = [mail EXCEPT ![call[t].who] = Append(@, call[t].msg)]
    /\ readers' = readers \ {t}
    /\ call' = [call EXCEPT ![t] = NoCall]
    /\ UNCHANGED <<regVars, sends, actVars, userq, thVars, wk, crashed>>

\* add_actor: take an id and copy the parent's description under the shared lock.
\* _actors[parent] creates a null entry for a parent that is gone, and the null is
\* dereferenced at once.
AddActorRead(t, k) ==
    /\ InUserCode(t)
    /\ k \notin issued /\ Known(Dad[k])
    /\ t \in Pool => self[t] = Dad[k]
    /\ issued' = issued \cup {k}
    /\ \/ /\ Dad[k] \in actors
          /\ call' = [call EXCEPT ![t] = Call("insert", k, None)]
          /\ UNCHANGED crashed
       \/ /\ Dad[k] \notin actors
          /\ Crash
          /\ UNCHANGED call
    /\ UNCHANGED <<actors, mboxes, children, mboxVars, actVars, readers, userq, thVars, wk>>

\* ... insert the new actor under the exclusive lock. The parent is not looked at
\* again: its description may have left _actors in between.
AddActorInsert(t) ==
    /\ call[t].op = "insert" /\ readers = {}
    /\ LET k == call[t].who
       IN  /\ children' = [children EXCEPT ![Dad[k]] = @ \cup {k}]
           /\ actors' = actors \cup {k}
           /\ mboxes' = mboxes \cup {k}
    /\ call' = [call EXCEPT ![t] = Call("post", call[t].who, None)]
    /\ UNCHANGED <<issued, mboxVars, actVars, readers, userq, thVars, wk, crashed>>

\* Mutant: add_actor does not post on_start.
M_NoStartPosted(t) ==
    /\ call[t].op = "post"
    /\ call' = [call EXCEPT ![t] = NoCall]
    /\ UNCHANGED <<regVars, mboxVars, actVars, readers, userq, thVars, wk, crashed>>

\* ... and post its on_start, with no lock held.
AddActorPost(t) ==
    /\ call[t].op = "post"
    /\ userq' = Append(userq, StartTask(call[t].who))
    /\ call' = [call EXCEPT ![t] = NoCall]
    /\ UNCHANGED <<regVars, mboxVars, actVars, readers, thVars, wk, crashed>>

StopActor(t, a) ==
    /\ InUserCode(t) /\ readers = {}
    /\ a \in actors        \* double-stop protection: otherwise nothing changes
    /\ StopActorImpl(a)
    /\ UNCHANGED <<mboxVars, busy, readers, userq, thVars, call, wk, crashed>>

-----------------------------------------------------------------------------
(* mailbox_worker *)

\* try_lock_shared succeeds and the scan of _mboxes begins. (When it fails the
\* function returns and is called again, which changes nothing.)
MailboxWorkerBegin ==
    /\ wk.pc = "idle"
    /\ readers' = readers \cup {Worker}
    /\ wk' = Scan("scan", mboxes, None, {})
    /\ UNCHANGED <<regVars, mboxVars, actVars, userq, thVars, call, crashed>>

\* The next entry of the map, in no particular order: skip an empty mailbox,
\* remember one that has no actor, go on with the others.
MailboxWorkerLook(a) ==
    /\ wk.pc = "scan" /\ a \in wk.left
    /\ wk' = IF mail[a] = <<>> THEN Scan("scan", wk.left \ {a}, None, wk.rm)
             ELSE IF a \notin actors THEN Scan("scan", wk.left \ {a}, None, wk.rm \cup {a})
             ELSE Scan("lock", wk.left \ {a}, a, wk.rm)
    /\ UNCHANGED <<regVars, mboxVars, actVars, readers, userq, thVars, call, crashed>>

\* Mutant: try_lock succeeds although the actor is busy.
M_IgnoreBusy ==
    /\ wk.pc = "lock"
    /\ busy' = [busy EXCEPT ![wk.at] = TRUE]
    /\ wk' = Scan("post", wk.left, wk.at, wk.rm)
    /\ UNCHANGED <<regVars, mboxVars, status, readers, userq, thVars, call, crashed>>

\* base_actor::try_lock. Nobody else sets _busy, so load and exchange are one step.
MailboxWorkerTryLock ==
    /\ wk.pc = "lock"
    /\ busy' = [busy EXCEPT ![wk.at] = TRUE]
    /\ wk' = IF busy[wk.at] THEN Scan("scan", wk.left, None, wk.rm)
                            ELSE Scan("post", wk.left, wk.at, wk.rm)
    /\ UNCHANGED <<regVars, mboxVars, status, readers, userq, thVars, call, crashed>>

\* Mutant: no second look at the mailbox.
M_NoSecondLook ==
    /\ wk.pc = "post"
    /\ userq' = Append(userq, ApplyTask(wk.at))
    /\ wk' = Scan("scan", wk.left, None, wk.rm)
    /\ UNCHANGED <<regVars, mboxVars, actVars, readers, thVars, call, crashed>>

\* Mutant: busy is not given back when the second look finds nothing.
M_KeepBusy ==
    /\ wk.pc = "post"
    /\ userq' = IF mail[wk.at] = <<>> THEN userq ELSE Append(userq, ApplyTask(wk.at))
    /\ wk' = Scan("scan", wk.left, None, wk.rm)
    /\ UNCHANGED <<regVars, mboxVars, actVars, readers, thVars, call, crashed>>

\* Look again, now that nobody else can pop: give busy back, or post the apply.
\* _actors[parent] is dereferenced without a check.
MailboxWorkerPost ==
    LET a == wk.at
    IN  /\ wk.pc = "post"
        /\ \/ /\ mail[a] = <<>>
              /\ busy' = [busy EXCEPT ![a] = FALSE]
              /\ wk' = Scan("scan", wk.left, None, wk.rm)
              /\ UNCHANGED <<userq, crashed>>
           \/ /\ mail[a] # <<>>
              /\ Dad[a] # None => Dad[a] \in actors
              /\ userq' = Append(userq, ApplyTask(a))
              /\ wk' = Scan("scan", wk.left, None, wk.rm)
              /\ UNCHANGED <<busy, crashed>>
           \/ /\ mail[a] # <<>>
              /\ Dad[a] # None /\ Dad[a] \notin actors
              /\ Crash
              /\ UNCHANGED <<busy, userq, wk>>
        /\ UNCHANGED <<regVars, mboxVars, status, readers, thVars, call>>

\* The scan is over: release the lock, and erase the mailboxes without an actor
\* if the exclusive lock is free.
MailboxWorkerEnd ==
    /\ wk.pc = "scan" /\ wk.left = {}
    /\ readers' = readers \ {Worker}
    /\ mboxes' = IF readers = {Worker} THEN mboxes \ wk.rm ELSE mboxes
    /\ wk' = Scan("idle", {}, None, {})
    /\ UNCHANGED <<actors, children, issued, mboxVars, actVars, userq, thVars, call, crashed>>

-----------------------------------------------------------------------------
(* Tasks of the USER pool *)

\* A thread of the pool takes the oldest task. An on_start task holds the actor
\* but not its description: get_context() fails if the actor is gone by then.
PoolTake(t) ==
    /\ pc[t] = "idle" /\ userq # <<>>
    /\ LET k == Head(userq)
       IN  /\ Goto(t, IF k.kind = "start" THEN "start" ELSE "enter")
           /\ self' = [self EXCEPT ![t] = k.who]
           /\ ctx' = [ctx EXCEPT ![t] = k.kind = "apply" \/ Described(k.who)]
    /\ userq' = Tail(userq)
    /\ UNCHANGED <<regVars, mboxVars, actVars, readers, cur, asking, answer, call, wk, crashed>>

\* on_start returns.
OnStartDone(t) ==
    /\ pc[t] = "start" /\ call[t] = NoCall
    /\ TaskDone(t)
    /\ UNCHANGED <<regVars, mboxVars, actVars, readers, userq, call, wk, crashed>>

\* apply: return at once, with the status and busy reset, from an empty mailbox.
ApplyEnter(t) ==
    /\ pc[t] = "enter"
    /\ Goto(t, IF mail[self[t]] = <<>> THEN "normal" ELSE "pop")
    /\ UNCHANGED <<regVars, mboxVars, actVars, readers, userq, self, cur, ctx, asking, answer,
                   call, wk, crashed>>

\* apply: the try_pop of the loop takes a message and action_handle is called with it, ...
ApplyPop(t) ==
    /\ pc[t] = "pop" /\ mail[self[t]] # <<>>
    /\ cur' = [cur EXCEPT ![t] = Head(mail[self[t]])]
    /\ mail' = [mail EXCEPT ![self[t]] = Tail(@)]
    /\ Goto(t, "handle")
    /\ UNCHANGED <<regVars, sends, actVars, readers, userq, self, ctx, asking, answer,
                   call, wk, crashed>>

\* ... or it finds the mailbox empty and the loop ends.
ApplyDrained(t) ==
    /\ pc[t] = "pop" /\ mail[self[t]] = <<>>
    /\ Goto(t, "normal")
    /\ UNCHANGED <<regVars, mboxVars, actVars, readers, userq, self, cur, ctx, asking, answer,
                   call, wk, crashed>>

\* action_handle returns, ...
ActionHandleDone(t) ==
    /\ pc[t] = "handle" /\ call[t] = NoCall
    /\ cur' = [cur EXCEPT ![t] = None]
    /\ Goto(t, "pop")
    /\ UNCHANGED <<regVars, mboxVars, actVars, readers, userq, self, ctx, asking, answer,
                   call, wk, crashed>>

\* ... or throws.
ActionHandleThrow(t) ==
    /\ pc[t] = "handle" /\ call[t] = NoCall
    /\ self[t] \notin Builtin
    /\ cur' = [cur EXCEPT ![t] = None]
    /\ Goto(t, "error")
    /\ UNCHANGED <<regVars, mboxVars, actVars, readers, userq, self, ctx, asking, answer,
                   call, wk, crashed>>

\* apply: update_status(NORMAL), or update_status(WITH_ERROR) in the catch block.
ApplyStatus(t) ==
    /\ pc[t] \in {"normal", "error"}
    /\ status' = [status EXCEPT ![self[t]] = IF pc[t] = "normal" THEN "NORMAL" ELSE "WITH_ERROR"]
    /\ Goto(t, IF pc[t] = "normal" THEN "reset" ELSE "reset_err")
    /\ UNCHANGED <<regVars, mboxVars, busy, readers, userq, self, cur, ctx, asking, answer,
                   call, wk, crashed>>

\* Mutant: the catch block of apply forgets reset_busy.
M_NoResetOnError(t) ==
    /\ pc[t] \in {"reset", "reset_err"}
    /\ busy' = [busy EXCEPT ![self[t]] = pc[t] = "reset_err"]
    /\ Goto(t, IF pc[t] = "reset" THEN "report" ELSE "caught")
    /\ UNCHANGED <<regVars, mboxVars, status, readers, userq, self, cur, ctx, asking, answer,
                   call, wk, crashed>>

\* apply: reset_busy, and back in apply_actor_to_mailbox.
ApplyReset(t) ==
    /\ pc[t] \in {"reset", "reset_err"}
    /\ busy' = [busy EXCEPT ![self[t]] = FALSE]
    /\ Goto(t, IF pc[t] = "reset" THEN "report" ELSE "caught")
    /\ UNCHANGED <<regVars, mboxVars, status, readers, userq, self, cur, ctx, asking, answer,
                   call, wk, crashed>>

\* The parent, if there is one, is told of the child's NORMAL status.
OnChildStatus(t) ==
    /\ pc[t] = "report"
    /\ TaskDone(t)
    /\ UNCHANGED <<regVars, mboxVars, actVars, readers, userq, call, wk, crashed>>

-----------------------------------------------------------------------------
(* Supervision: the catch block of apply_actor_to_mailbox *)

\* The parent is asked. To escalate, the shared lock is taken and the loop starts
\* at the failed actor itself. An actor without a parent is stopped.
OnChildError(t) ==
    /\ pc[t] = "caught"
    /\ \E d \in IF Dad[self[t]] = None THEN {"STOP"} ELSE OnChildErrorAnswers(Dad[self[t]]) :
          /\ answer' = [answer EXCEPT ![t] = d]
          /\ Goto(t, IF d = "ESCALATE" THEN "escalate" ELSE "react")
          /\ readers' = IF d = "ESCALATE" THEN readers \cup {t} ELSE readers
          /\ asking' = [asking EXCEPT ![t] = IF d = "ESCALATE" THEN self[t] ELSE None]
    /\ UNCHANGED <<regVars, mboxVars, actVars, userq, self, cur, ctx, call, wk, crashed>>

\* One round of the loop: find the parent of descr (it is dereferenced even when
\* find returned end()), ask it, and climb.
Escalate(t) ==
    /\ pc[t] = "escalate"
    /\ LET p == Dad[asking[t]]
       IN  \/ /\ p \notin actors
              /\ Crash
              /\ UNCHANGED <<readers, pc, asking, answer>>
           \/ /\ p \in actors
              /\ \E d \in OnChildErrorAnswers(p) :
                    /\ answer' = [answer EXCEPT ![t] = d]
                    /\ Goto(t, IF d = "ESCALATE" THEN "escalate" ELSE "react")
                    /\ readers' = IF d = "ESCALATE" THEN readers ELSE readers \ {t}
                    /\ asking' = [asking EXCEPT ![t] = IF d = "ESCALATE" THEN p ELSE None]
              /\ UNCHANGED crashed
    /\ UNCHANGED <<regVars, mboxVars, actVars, userq, self, cur, ctx, call, wk>>

\* on_actor_error(RESUME): the parent is told WITH_ERROR, nothing else happens.
OnActorErrorResume(t) ==
    /\ pc[t] = "react" /\ answer[t] = "RESUME"
    /\ TaskDone(t)
    /\ UNCHANGED <<regVars, mboxVars, actVars, readers, userq, call, wk, crashed>>

\* on_actor_error(STOP): whoever decided it, the actor that failed is stopped.
OnActorErrorStop(t) ==
    /\ pc[t] = "react" /\ answer[t] = "STOP" /\ readers = {}
    /\ StopActorImpl(self[t])
    /\ TaskDone(t)
    /\ UNCHANGED <<mboxVars, busy, readers, userq, call, wk, crashed>>

\* Mutant: the description is released before on_start is called on its actor.
M_ReinitAfterRelease(t) ==
    /\ pc[t] = "react" /\ answer[t] = "REINIT" /\ readers = {}
    /\ StopActorImpl(self[t])
    /\ Goto(t, "start")
    /\ self' = [self EXCEPT ![t] = None]
    /\ asking' = [asking EXCEPT ![t] = None]
    /\ answer' = [answer EXCEPT ![t] = None]
    /\ UNCHANGED <<mboxVars, busy, readers, userq, cur, ctx, call, wk, crashed>>

\* on_actor_error(REINIT): the actor is stopped as well, and its on_start then
\* runs on this thread.
OnActorErrorReinit(t) ==
    /\ pc[t] = "react" /\ answer[t] = "REINIT" /\ readers = {}
    /\ StopActorImpl(self[t])
    /\ Goto(t, "start")
    /\ asking' = [asking EXCEPT ![t] = None]
    /\ answer' = [answer EXCEPT ![t] = None]
    /\ UNCHANGED <<mboxVars, busy, readers, userq, self, cur, ctx, call, wk, crashed>>

-----------------------------------------------------------------------------
(* The specification *)

CallBegin(t) ==
    \/ \E a \in Targets : SendFind(t, a)
    \/ \E k \in Actors : AddActorRead(t, k)
    \/ \E a \in Stoppable : StopActor(t, a)

CallStep(t) == SendPush(t) \/ AddActorInsert(t) \/ AddActorPost(t)

PoolStep(t) ==
    \/ PoolTake(t) \/ OnStartDone(t)
    \/ ApplyEnter(t) \/ ApplyPop(t) \/ ApplyDrained(t)
    \/ ActionHandleDone(t) \/ ActionHandleThrow(t)
    \/ ApplyStatus(t) \/ ApplyReset(t) \/ OnChildStatus(t)
    \/ OnChildError(t) \/ Escalate(t)
    \/ OnActorErrorResume(t) \/ OnActorErrorStop(t) \/ OnActorErrorReinit(t)

WorkerStep ==
    \/ MailboxWorkerBegin \/ MailboxWorkerTryLock \/ MailboxWorkerPost \/ MailboxWorkerEnd
    \/ \E a \in Actors : MailboxWorkerLook(a)

\* A process that has died stays dead.
Dead == crashed /\ UNCHANGED vars

Next ==
    \/ /\ ~crashed
       /\ \/ WorkerStep
          \/ \E t \in Threads : CallBegin(t) \/ CallStep(t)
          \/ \E t \in Pool : PoolStep(t)
    \/ Dead

Spec == Init /\ [][Next]_vars

\* Every thread keeps running and user code returns (WF). The exclusive _locker
\* is only now and then free, since mailbox_worker takes it shared all the time:
\* whoever waits for it gets it in the end (SF), as a writer blocked in
\* std::shared_mutex::lock does once the readers inside have left.
Fairness ==
    /\ WF_vars(~crashed /\ WorkerStep)
    /\ \A t \in Threads : /\ WF_vars(~crashed /\ (SendPush(t) \/ AddActorPost(t)))
                          /\ SF_vars(~crashed /\ AddActorInsert(t))
    /\ \A t \in Pool :
          /\ WF_vars(~crashed /\ PoolStep(t))
          /\ SF_vars(~crashed /\ (OnActorErrorStop(t) \/ OnActorErrorReinit(t)))

FairSpec == Spec /\ Fairness

-----------------------------------------------------------------------------
(* Safety *)

\* Who has been given busy[a] by a successful try_lock and not returned it yet:
\* mailbox_worker, a task in the queue of the pool, or a thread inside apply.
WorkerHolds(a) == wk.pc = "post" /\ wk.at = a
TaskHolds(a, i) == userq[i] = ApplyTask(a)
ThreadHolds(a, t) == pc[t] \in HoldsBusy /\ self[t] = a

\* The busy flag of an actor is a token: it is set exactly while somebody holds
\* it, and never do two hold it. base_actor::apply relies on this (its
\* ENSURE(busy()), actor.cpp:41), though the flag travels from the SYSTEM thread
\* through the queue of the USER pool to a third thread before it is reset.
BusyToken ==
    \A a \in Actors :
        /\ busy[a] => \/ WorkerHolds(a)
                      \/ \E i \in DOMAIN userq : TaskHolds(a, i)
                      \/ \E t \in Pool : ThreadHolds(a, t)
        /\ WorkerHolds(a) => busy[a]
        /\ \A i \in DOMAIN userq : TaskHolds(a, i) => busy[a] /\ ~WorkerHolds(a)
        /\ \A t \in Pool : ThreadHolds(a, t) => busy[a] /\ ~WorkerHolds(a)
        /\ \A i, j \in DOMAIN userq : TaskHolds(a, i) /\ TaskHolds(a, j) => i = j
        /\ \A s, t \in Pool : ThreadHolds(a, s) /\ ThreadHolds(a, t) => s = t
        /\ \A i \in DOMAIN userq, t \in Pool : ~(TaskHolds(a, i) /\ ThreadHolds(a, t))

\* The promise of the actor model: however many threads the USER pool has,
\* action_handle of one actor never runs on two of them at once.
HandlerExclusion ==
    \A s, t \in Pool :
        (pc[s] = "handle" /\ pc[t] = "handle" /\ self[s] = self[t]) => s = t

\* A task that mailbox_worker posts finds a message when it runs: nobody pops
\* between the second look at the mailbox, made with busy held, and apply. The
\* early return of apply (actor.cpp:35-39) is never taken.
ApplyFindsMail ==
    /\ \A t \in Pool : pc[t] = "enter" => mail[self[t]] # <<>>
    /\ \A i \in DOMAIN userq : userq[i].kind = "apply" => mail[userq[i].who] # <<>>

\* _actors and _mboxes always have the same keys, so that mailbox_worker, which
\* reads the one after the other, never meets a mailbox without an actor.
RegistryMirror == mboxes = actors /\ wk.rm = {}

\* The context implements SerialActors: through all the interleavings of senders,
\* mailbox_worker, pool threads, stops and failures, the messages of an actor are
\* handled one at a time, in the order of arrival, each once, and a stopped actor
\* gets no new ones, although send_envelope finds the mailbox in one step and
\* pushes into it in another.
HandlingThread(a) == {t \in Pool : pc[t] = "handle" /\ self[t] = a}
Handling == [a \in Actors |-> IF HandlingThread(a) = {} THEN None
                              ELSE cur[CHOOSE t \in HandlingThread(a) : TRUE]]
Stage(a) == IF a \in mboxes THEN "live" ELSE IF Known(a) THEN "stopped" ELSE "new"
Stages == [a \in Actors |-> Stage(a)]

Serial == INSTANCE SerialActors WITH
    NoMsg <- None, stage <- Stages, queue <- mail, handling <- Handling

ImplementsSerialActors == Serial!ASpec

\* As long as only actors without children are stopped, by hand or by the decision
\* of their parent, no lookup of a parent fails: not in add_actor, not in
\* mailbox_worker and not in the escalation loop, which ends at the latest at
\* "/root/usr".
NeverCrashes == ~crashed

-----------------------------------------------------------------------------
(* Liveness, under Fairness *)

\* A message that send_envelope has put into a mailbox is handled, unless its actor
\* is stopped first, although try_lock may fail and handlers may throw on the way.
Delivered == \A a \in Targets : Serial!AHandled(a)

\* on_start of every actor that add_actor has registered is called, even if the
\* actor is stopped meanwhile.
OnStartRuns ==
    \A k \in Actors \ Builtin :
        (\E t \in Threads : call[t] = Call("post", k, None))
            ~> (\E t \in Pool : pc[t] = "start" /\ self[t] = k)

-----------------------------------------------------------------------------
(* What tests and comments say and the code does not do *)

\* After stop_actor the status of the actor is STOPED (context_test.cpp:287-289).
\* An apply that is under way, or still queued, overwrites it (actor.cpp:49, 52).
StopedAfterStop == \A a \in Actors : (Known(a) /\ a \notin actors) => status[a] = "STOPED"
=============================================================================
