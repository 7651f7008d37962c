--------------------------- MODULE ContextProofs ---------------------------
(***************************************************************************)
(* Proofs about Context, for any tree of actors, any number of threads and *)
(* any number of messages.                                                 *)
(***************************************************************************)
EXTENDS Context, TLAPS

-----------------------------------------------------------------------------
(* Type correctness *)

\* The context starts with its built-in actors, all of the right type.
LEMMA InitTypeOK == Init => TypeOK
<1> SUFFICES ASSUME Init PROVE TypeOK
  OBVIOUS
<1>1. mail \in [Actors -> Seq(Msgs)] /\ userq \in Seq(Tasks) /\ sends \in 0 .. MaxSends
  BY ContextAssumption DEF Init
<1>2. /\ actors \subseteq Actors /\ mboxes \subseteq Actors /\ issued \subseteq Actors
      /\ children \in [Actors -> SUBSET Actors]
      /\ busy \in [Actors -> BOOLEAN] /\ status \in [Actors -> Statuses]
  BY ContextAssumption DEF Init, Builtin, Statuses
<1>3. /\ pc \in [Threads -> PC] /\ self \in [Threads -> Actors \cup {None}]
      /\ cur \in [Threads -> Msgs \cup {None}] /\ ctx \in [Threads -> BOOLEAN]
      /\ asking \in [Threads -> Actors \cup {None}]
      /\ answer \in [Threads -> Answers \cup {None}]
  BY DEF Init, PC, InApply, HoldsBusy
<1>4. /\ call \in [Threads -> [op : {"none", "push", "insert", "post"},
                              who : Actors \cup {None}, msg : Msgs \cup {None}]]
      /\ \A t \in Threads : call[t].op = "none"
  BY DEF Init, NoCall, Call
<1>5. /\ wk \in [pc : {"idle", "scan", "lock", "post"}, left : SUBSET Actors,
                at : Actors \cup {None}, rm : SUBSET Actors]
      /\ wk.pc = "idle"
  BY DEF Init, Scan
<1>6. /\ \A t \in Clients : pc[t] = "user"
      /\ \A t \in Pool : pc[t] = "idle"
  BY ContextAssumption DEF Init, Threads
<1>7. QED BY <1>1, <1>2, <1>3, <1>4, <1>5, <1>6 DEF TypeOK, Init

\* Appending keeps a sequence in its type.
LEMMA AppendType ==
  ASSUME NEW S, NEW q \in Seq(S), NEW x \in S
  PROVE  Append(q, x) \in Seq(S)
  OBVIOUS

\* Entering one of the two sections of add_actor keeps the type of call.
LEMMA CallType ==
  ASSUME TypeOK, NEW t \in Threads, NEW k \in Actors, NEW op \in {"insert", "post"},
         call' = [call EXCEPT ![t] = Call(op, k, None)]
  PROVE  /\ call' \in [Threads -> [op : {"none", "push", "insert", "post"},
                                  who : Actors \cup {None}, msg : Msgs \cup {None}]]
         /\ \A s \in Threads : /\ call'[s].op # "none" => call'[s].who \in Actors
                               /\ call'[s].op = "push" => call'[s].msg \in Msgs
<1> DEFINE c == Call(op, k, None)
<1>1. /\ c \in [op : {"none", "push", "insert", "post"},
                who : Actors \cup {None}, msg : Msgs \cup {None}]
      /\ c.who \in Actors /\ c.op # "push"
  BY DEF Call
<1> HIDE DEF c
<1>2. call' = [call EXCEPT ![t] = c]
  BY DEF c
<1>3. QED BY <1>1, <1>2 DEF TypeOK

\* stop_actor_impl keeps the types of the maps and of the statuses.
LEMMA StopActorImplType ==
  ASSUME TypeOK, NEW a \in Actors, StopActorImpl(a)
  PROVE  /\ actors' \subseteq actors /\ mboxes' \subseteq mboxes
         /\ children' = children /\ issued' = issued
         /\ status' \in [Actors -> Statuses]
  BY DEF TypeOK, StopActorImpl, Statuses

\* Every step keeps the types.
LEMMA NextTypeOK == TypeOK /\ [Next]_vars => TypeOK'
<1> SUFFICES ASSUME TypeOK, [Next]_vars PROVE TypeOK'
  OBVIOUS
<1> USE ContextAssumption
<1>1. ASSUME NEW t \in Threads, CallBegin(t) PROVE TypeOK'
  <2>1. ASSUME NEW a \in Targets, SendFind(t, a) PROVE TypeOK'
    BY <2>1, SMTT(30) DEF SendFind, TypeOK, regVars, actVars, thVars, Call, Msgs, InUserCode
  <2>2. ASSUME NEW k \in Actors, AddActorRead(t, k) PROVE TypeOK'
    <3>1. call' = call \/ call' = [call EXCEPT ![t] = Call("insert", k, None)]
      BY <2>2 DEF AddActorRead
    <3>2. /\ call' \in [Threads -> [op : {"none", "push", "insert", "post"},
                                   who : Actors \cup {None}, msg : Msgs \cup {None}]]
          /\ \A s \in Threads : /\ call'[s].op # "none" => call'[s].who \in Actors
                                /\ call'[s].op = "push" => call'[s].msg \in Msgs
      <4>1. CASE call' = call BY <4>1 DEF TypeOK
      <4>2. CASE call' = [call EXCEPT ![t] = Call("insert", k, None)]
        BY <4>2, CallType
      <4>3. QED BY <3>1, <4>1, <4>2
    <3>3. crashed' \in BOOLEAN /\ issued' \subseteq Actors
      BY <2>2 DEF AddActorRead, TypeOK, Crash
    <3>4. QED BY <2>2, <3>2, <3>3 DEF AddActorRead, TypeOK, mboxVars, actVars, thVars
  <2>3. ASSUME NEW a \in Stoppable, StopActor(t, a) PROVE TypeOK'
    BY <2>3, StopActorImplType, SMTT(30) DEF StopActor, TypeOK, mboxVars, thVars
  <2>4. QED BY <1>1, <2>1, <2>2, <2>3 DEF CallBegin
<1>2. ASSUME NEW t \in Threads, CallStep(t) PROVE TypeOK'
  <2>1. CASE SendPush(t)
    BY <2>1, SMTT(30) DEF SendPush, TypeOK, regVars, actVars, thVars, Call, NoCall
  <2>2. CASE AddActorInsert(t)
    <3>1. call[t].who \in Actors
      BY <2>2 DEF AddActorInsert, TypeOK
    <3>2. /\ call' \in [Threads -> [op : {"none", "push", "insert", "post"},
                                   who : Actors \cup {None}, msg : Msgs \cup {None}]]
          /\ \A s \in Threads : /\ call'[s].op # "none" => call'[s].who \in Actors
                                /\ call'[s].op = "push" => call'[s].msg \in Msgs
      BY <2>2, <3>1, CallType DEF AddActorInsert
    <3>3. /\ children' \in [Actors -> SUBSET Actors]
          /\ actors' \subseteq Actors /\ mboxes' \subseteq Actors
      <4>1. PICK k \in Actors : /\ children' = [children EXCEPT ![Dad[k]] = @ \cup {k}]
                                /\ actors' = actors \cup {k} /\ mboxes' = mboxes \cup {k}
        BY <2>2, <3>1 DEF AddActorInsert
      <4>2. \A a \in Actors : /\ children'[a] = children[a] \cup (IF a = Dad[k] THEN {k} ELSE {})
                              /\ children[a] \in SUBSET Actors
        BY <4>1 DEF TypeOK
      <4>3. children' = [a \in Actors |-> children'[a]]
        BY <4>1 DEF TypeOK
      <4>4. \A a \in Actors : children'[a] \in SUBSET Actors
        BY <4>2
      <4>5. children' \in [Actors -> SUBSET Actors]
        BY <4>3, <4>4, Zenon
      <4>6. QED BY <4>1, <4>5 DEF TypeOK
    <3>4. QED BY <2>2, <3>2, <3>3 DEF AddActorInsert, TypeOK, mboxVars, actVars, thVars
  <2>3. CASE AddActorPost(t)
    BY <2>3, SMTT(30) DEF AddActorPost, TypeOK, regVars, mboxVars, actVars, thVars, Call, NoCall,
       StartTask, Tasks
  <2>4. QED BY <1>2, <2>1, <2>2, <2>3 DEF CallStep
<1>3. CASE WorkerStep
  <2>1. CASE MailboxWorkerBegin
    BY <2>1, SMTT(30) DEF MailboxWorkerBegin, Scan, TypeOK, regVars, mboxVars, actVars, thVars
  <2>2. ASSUME NEW a \in Actors, MailboxWorkerLook(a) PROVE TypeOK'
    BY <2>2, SMTT(30) DEF MailboxWorkerLook, Scan, TypeOK, regVars, mboxVars, actVars, thVars
  <2>3. CASE MailboxWorkerTryLock
    BY <2>3, SMTT(30) DEF MailboxWorkerTryLock, Scan, TypeOK, regVars, mboxVars, thVars
  <2>4. CASE MailboxWorkerPost
    <3>1. wk.at \in Actors
      BY <2>4 DEF MailboxWorkerPost, TypeOK
    <3>2. ApplyTask(wk.at) \in Tasks
      BY <3>1 DEF ApplyTask, Tasks
    <3>3. /\ userq' \in Seq(Tasks) /\ busy' \in [Actors -> BOOLEAN]
          /\ crashed' \in BOOLEAN
      <4>1. \/ userq' = userq
            \/ userq' = Append(userq, ApplyTask(wk.at))
        BY <2>4 DEF MailboxWorkerPost
      <4>2. busy' = busy \/ busy' = [busy EXCEPT ![wk.at] = FALSE]
        BY <2>4 DEF MailboxWorkerPost
      <4>3. crashed' = crashed \/ crashed' = TRUE
        BY <2>4 DEF MailboxWorkerPost, Crash
      <4>4. userq' \in Seq(Tasks)
        <5>1. userq \in Seq(Tasks) BY DEF TypeOK
        <5>2. QED BY <3>2, <4>1, <5>1, AppendType
      <4>5. busy' \in [Actors -> BOOLEAN]
        <5>1. CASE busy' = busy BY <5>1 DEF TypeOK
        <5>2. CASE busy' = [busy EXCEPT ![wk.at] = FALSE] BY <5>2 DEF TypeOK
        <5>3. QED BY <4>2, <5>1, <5>2
      <4>6. QED BY <4>3, <4>4, <4>5 DEF TypeOK
    <3>4. wk' = wk \/ wk' = Scan("scan", wk.left, None, wk.rm)
      BY <2>4 DEF MailboxWorkerPost
    <3>5. /\ wk' \in [pc : {"idle", "scan", "lock", "post"}, left : SUBSET Actors,
                     at : Actors \cup {None}, rm : SUBSET Actors]
          /\ wk'.pc \in {"lock", "post"} => wk'.at \in Actors
      BY <3>4 DEF Scan, TypeOK
    <3>6. QED BY <2>4, <3>3, <3>5 DEF MailboxWorkerPost, TypeOK, regVars, mboxVars, thVars
  <2>5. CASE MailboxWorkerEnd
    BY <2>5, SMTT(30) DEF MailboxWorkerEnd, Scan, TypeOK, mboxVars, actVars, thVars
  <2>6. QED BY <1>3, <2>1, <2>2, <2>3, <2>4, <2>5 DEF WorkerStep
<1>4. ASSUME NEW t \in Pool, PoolStep(t) PROVE TypeOK'
  <2> t \in Threads BY DEF Threads
  <2> t \notin Clients OBVIOUS
  <2> USE DEF TypeOK, Goto, PC, InApply, HoldsBusy
  <2>1. CASE PoolTake(t)
    <3>1. Head(userq) \in Tasks /\ Tail(userq) \in Seq(Tasks)
      BY <2>1 DEF PoolTake
    <3>2. QED BY <2>1, <3>1, SMTT(30) DEF PoolTake, regVars, mboxVars, actVars, Tasks
  <2>2. CASE OnStartDone(t)
    BY <2>2, SMTT(30) DEF OnStartDone, TaskDone, regVars, mboxVars, actVars
  <2>3. CASE ApplyEnter(t)
    BY <2>3, SMTT(30) DEF ApplyEnter, regVars, mboxVars, actVars
  <2>4. CASE ApplyPop(t)
    BY <2>4, SMTT(30) DEF ApplyPop, regVars, actVars
  <2>5. CASE ApplyDrained(t)
    BY <2>5, SMTT(30) DEF ApplyDrained, regVars, mboxVars, actVars
  <2>6. CASE ActionHandleDone(t)
    BY <2>6, SMTT(30) DEF ActionHandleDone, regVars, mboxVars, actVars
  <2>7. CASE ActionHandleThrow(t)
    BY <2>7, SMTT(30) DEF ActionHandleThrow, regVars, mboxVars, actVars
  <2>8. CASE ApplyStatus(t)
    BY <2>8, SMTT(30) DEF ApplyStatus, regVars, mboxVars, Statuses
  <2>9. CASE ApplyReset(t)
    BY <2>9, SMTT(30) DEF ApplyReset, regVars, mboxVars
  <2>10. CASE OnChildStatus(t)
    BY <2>10, SMTT(30) DEF OnChildStatus, TaskDone, regVars, mboxVars, actVars
  <2>11. CASE OnChildError(t)
    <3>1. PICK d \in Answers :
            /\ answer' = [answer EXCEPT ![t] = d]
            /\ pc' = [pc EXCEPT ![t] = IF d = "ESCALATE" THEN "escalate" ELSE "react"]
            /\ readers' = IF d = "ESCALATE" THEN readers \cup {t} ELSE readers
            /\ asking' = [asking EXCEPT ![t] = IF d = "ESCALATE" THEN self[t] ELSE None]
      BY <2>11 DEF OnChildError, OnChildErrorAnswers, Answers
    <3>2. QED
      BY <2>11, <3>1, SMTT(30) DEF OnChildError, regVars, mboxVars, actVars
  <2>12. CASE Escalate(t)
    <3>1. CASE crashed' = TRUE /\ UNCHANGED <<readers, pc, asking, answer>>
      BY <2>12, <3>1, SMTT(30) DEF Escalate, regVars, mboxVars, actVars
    <3>2. CASE /\ Dad[asking[t]] \in actors /\ UNCHANGED crashed
               /\ \E d \in OnChildErrorAnswers(Dad[asking[t]]) :
                    /\ answer' = [answer EXCEPT ![t] = d]
                    /\ Goto(t, IF d = "ESCALATE" THEN "escalate" ELSE "react")
                    /\ readers' = IF d = "ESCALATE" THEN readers ELSE readers \ {t}
                    /\ asking' = [asking EXCEPT ![t] = IF d = "ESCALATE" THEN Dad[asking[t]] ELSE None]
      <4>1. PICK d \in Answers :
              /\ answer' = [answer EXCEPT ![t] = d]
              /\ pc' = [pc EXCEPT ![t] = IF d = "ESCALATE" THEN "escalate" ELSE "react"]
              /\ readers' = IF d = "ESCALATE" THEN readers ELSE readers \ {t}
              /\ asking' = [asking EXCEPT ![t] = IF d = "ESCALATE" THEN Dad[asking[t]] ELSE None]
        BY <3>2 DEF OnChildErrorAnswers, Answers
      <4>2. QED
        BY <2>12, <3>2, <4>1, SMTT(30) DEF Escalate, regVars, mboxVars, actVars
    <3>3. QED BY <2>12, <3>1, <3>2 DEF Escalate, Crash
  <2>13. CASE OnActorErrorResume(t)
    BY <2>13, SMTT(30) DEF OnActorErrorResume, TaskDone, regVars, mboxVars, actVars
  <2>14. CASE OnActorErrorStop(t)
    <3>1. self[t] \in Actors BY <2>14 DEF OnActorErrorStop
    <3>2. QED
      BY <2>14, <3>1, StopActorImplType, SMTT(30) DEF OnActorErrorStop, TaskDone, mboxVars
  <2>15. CASE OnActorErrorReinit(t)
    <3>1. self[t] \in Actors BY <2>15 DEF OnActorErrorReinit
    <3>2. QED
      BY <2>15, <3>1, StopActorImplType, SMTT(30) DEF OnActorErrorReinit, mboxVars
  <2>16. QED
    BY <1>4, <2>1, <2>2, <2>3, <2>4, <2>5, <2>6, <2>7, <2>8, <2>9, <2>10, <2>11, <2>12,
       <2>13, <2>14, <2>15 DEF PoolStep
<1>5. CASE UNCHANGED vars
  BY <1>5 DEF TypeOK, vars
<1>6. QED BY <1>1, <1>2, <1>3, <1>4, <1>5 DEF Next, Dead

\* Every variable keeps its type; in particular a pool thread that is not idle
\* always runs the task of an actor.
THEOREM TypeCorrect == Spec => []TypeOK
<1>1. Init => TypeOK BY InitTypeOK
<1>2. TypeOK /\ [Next]_vars => TypeOK' BY NextTypeOK
<1>3. QED BY <1>1, <1>2, PTL DEF Spec

-----------------------------------------------------------------------------
(* The busy token *)

\* What is at which place after an append.
LEMMA AppendIndex ==
  ASSUME NEW S, NEW q \in Seq(S), NEW x \in S
  PROVE  /\ DOMAIN Append(q, x) = 1 .. Len(q) + 1
         /\ DOMAIN q = 1 .. Len(q) /\ Len(q) \in Nat
         /\ \A i \in 1 .. Len(q) : Append(q, x)[i] = q[i]
         /\ Append(q, x)[Len(q) + 1] = x
  OBVIOUS

\* What is at which place when the first is gone.
LEMMA TailIndex ==
  ASSUME NEW S, NEW q \in Seq(S), q # <<>>
  PROVE  /\ DOMAIN Tail(q) = 1 .. Len(q) - 1
         /\ DOMAIN q = 1 .. Len(q) /\ Len(q) \in Nat \ {0}
         /\ \A i \in 1 .. Len(q) - 1 : Tail(q)[i] = q[i + 1]
         /\ Head(q) = q[1]
  OBVIOUS

\* Tasks are told apart by their kind and their actor.
LEMMA TaskFacts ==
  ASSUME NEW a, NEW b
  PROVE  /\ ApplyTask(a) = ApplyTask(b) <=> a = b
         /\ StartTask(a) # ApplyTask(b)
         /\ ApplyTask(a).kind = "apply" /\ ApplyTask(a).who = a
         /\ StartTask(a).kind = "start"
  BY DEF ApplyTask, StartTask

\* Nobody is busy at the start.
LEMMA InitBusyToken == Init => BusyToken
  BY ContextAssumption
  DEF Init, BusyToken, WorkerHolds, TaskHolds, ThreadHolds, Threads, HoldsBusy, Scan

\* A step that changes neither a busy flag nor who holds one.
LEMMA SameHolders ==
  ASSUME BusyToken, userq' = userq,
         \A a \in Actors : busy'[a] <=> busy[a],
         \A a \in Actors : WorkerHolds(a)' <=> WorkerHolds(a),
         \A a \in Actors, t \in Pool : ThreadHolds(a, t)' <=> ThreadHolds(a, t)
  PROVE  BusyToken'
<1>1. \A a \in Actors : \A i \in DOMAIN userq : TaskHolds(a, i)' <=> TaskHolds(a, i)
  BY DEF TaskHolds
<1>2. QED BY <1>1 DEF BusyToken

\* Thread t moves between two control points on the same side of reset_busy.
LEMMA SameSide ==
  ASSUME TypeOK, NEW t \in Pool, NEW l, pc' = [pc EXCEPT ![t] = l],
         l \in HoldsBusy <=> pc[t] \in HoldsBusy,
         self' = self \/ (l \notin HoldsBusy /\ \E s : self' = [self EXCEPT ![t] = s])
  PROVE  \A a \in Actors, s \in Pool : ThreadHolds(a, s)' <=> ThreadHolds(a, s)
  BY ContextAssumption DEF ThreadHolds, TypeOK, Threads

\* try_lock: from nobody to mailbox_worker.
LEMMA TryLockBusyToken ==
  ASSUME TypeOK, BusyToken, MailboxWorkerTryLock
  PROVE  BusyToken'
<1>1. wk.at \in Actors /\ wk.pc = "lock" /\ UNCHANGED <<userq, pc, self>>
      /\ busy' = [busy EXCEPT ![wk.at] = TRUE]
  BY DEF TypeOK, MailboxWorkerTryLock, thVars
<1>2. /\ \A a \in Actors : \A i \in DOMAIN userq : TaskHolds(a, i)' <=> TaskHolds(a, i)
      /\ \A a \in Actors, t \in Pool : ThreadHolds(a, t)' <=> ThreadHolds(a, t)
      /\ \A a \in Actors : ~WorkerHolds(a)
  BY <1>1 DEF TaskHolds, ThreadHolds, WorkerHolds
<1>3. CASE busy[wk.at]
  <2>1. \A a \in Actors : busy'[a] <=> busy[a]
    BY <1>1, <1>3 DEF TypeOK
  <2>2. \A a \in Actors : ~WorkerHolds(a)'
    BY <1>3 DEF MailboxWorkerTryLock, WorkerHolds, Scan
  <2>3. QED BY <1>1, <1>2, <2>1, <2>2, SameHolders
<1>4. CASE ~busy[wk.at]
  <2>1. /\ busy'[wk.at]
        /\ \A a \in Actors : a # wk.at => (busy'[a] <=> busy[a])
    BY <1>1 DEF TypeOK
  <2>2. \A a \in Actors : WorkerHolds(a)' <=> a = wk.at
    BY <1>4 DEF MailboxWorkerTryLock, WorkerHolds, Scan
  <2>3. QED BY <1>1, <1>2, <1>4, <2>1, <2>2 DEF BusyToken
<1>5. QED BY <1>3, <1>4

\* The second look: from mailbox_worker to nobody, or to a queued task.
LEMMA PostBusyToken ==
  ASSUME TypeOK, BusyToken, MailboxWorkerPost
  PROVE  BusyToken'
<1> DEFINE a == wk.at
<1>1. /\ a \in Actors /\ wk.pc = "post" /\ UNCHANGED <<pc, self>>
      /\ WorkerHolds(a) /\ busy[a]
      /\ \A x \in Actors : WorkerHolds(x) => x = a
  BY DEF TypeOK, MailboxWorkerPost, thVars, BusyToken, WorkerHolds
<1>2. \A x \in Actors, t \in Pool : ThreadHolds(x, t)' <=> ThreadHolds(x, t)
  BY <1>1 DEF ThreadHolds
<1>3. CASE wk' = wk /\ busy' = busy /\ userq' = userq
  BY <1>2, <1>3, SameHolders DEF WorkerHolds
<1>4. CASE /\ wk' = Scan("scan", wk.left, None, wk.rm)
           /\ busy' = [busy EXCEPT ![a] = FALSE] /\ userq' = userq
  <2>1. \A x \in Actors : ~WorkerHolds(x)'
    BY <1>4 DEF WorkerHolds, Scan
  <2>2. \A x \in Actors : \A i \in DOMAIN userq : TaskHolds(x, i)' <=> TaskHolds(x, i)
    BY <1>4 DEF TaskHolds
  <2>3. ~busy'[a] /\ \A x \in Actors : x # a => (busy'[x] <=> busy[x])
    BY <1>1, <1>4 DEF TypeOK
  <2>4. QED BY <1>1, <1>2, <1>4, <2>1, <2>2, <2>3 DEF BusyToken
<1>5. CASE /\ wk' = Scan("scan", wk.left, None, wk.rm)
           /\ busy' = busy /\ userq' = Append(userq, ApplyTask(a))
  <2>1. \A x \in Actors : ~WorkerHolds(x)'
    BY <1>5 DEF WorkerHolds, Scan
  <2>2. ApplyTask(a) \in Tasks /\ userq \in Seq(Tasks)
    BY <1>1 DEF ApplyTask, Tasks, TypeOK
  <2>3. PICK n \in Nat : n = Len(userq) + 1
    BY <2>2
  <2>4. /\ DOMAIN userq' = 1 .. n /\ DOMAIN userq = 1 .. n - 1 /\ n \in Nat \ {0}
        /\ \A i \in 1 .. n - 1 : userq'[i] = userq[i]
        /\ userq'[n] = ApplyTask(a)
    BY <1>5, <2>2, <2>3, AppendIndex
  <2>5. /\ \A x \in Actors : \A i \in DOMAIN userq : TaskHolds(x, i)' <=> TaskHolds(x, i)
        /\ \A x \in Actors : TaskHolds(x, n)' <=> x = a
    BY <2>4, TaskFacts DEF TaskHolds
  <2>6. /\ n \in DOMAIN userq'
        /\ \A i \in DOMAIN userq' : i \in DOMAIN userq \/ i = n
        /\ \A i \in DOMAIN userq : i \in DOMAIN userq'
    BY <2>4
  <2>7. /\ \A i \in DOMAIN userq : ~TaskHolds(a, i)
        /\ \A t \in Pool : ~ThreadHolds(a, t)
    BY <1>1 DEF BusyToken
  <2> HIDE DEF a
  <2>8. QED
    BY <1>1, <1>2, <1>5, <2>1, <2>5, <2>6, <2>7 DEF BusyToken
<1>6. QED
  BY <1>3, <1>4, <1>5 DEF MailboxWorkerPost

\* A pool thread takes a task: from the queue to the thread.
LEMMA TakeBusyToken ==
  ASSUME TypeOK, BusyToken, NEW t \in Pool, PoolTake(t)
  PROVE  BusyToken'
<1> DEFINE k == Head(userq)
<1>1. /\ pc[t] = "idle" /\ userq # <<>> /\ userq \in Seq(Tasks) /\ t \in Threads
      /\ pc' = [pc EXCEPT ![t] = IF k.kind = "start" THEN "start" ELSE "enter"]
      /\ self' = [self EXCEPT ![t] = k.who]
      /\ userq' = Tail(userq) /\ busy' = busy /\ wk' = wk
  BY DEF TypeOK, PoolTake, Goto, actVars, Threads
<1>2. /\ DOMAIN userq' = 1 .. Len(userq) - 1
      /\ DOMAIN userq = 1 .. Len(userq) /\ Len(userq) \in Nat \ {0}
      /\ \A i \in 1 .. Len(userq) - 1 : userq'[i] = userq[i + 1]
      /\ k = userq[1]
  BY <1>1, TailIndex
<1>3. k \in Tasks
  BY <1>1
<1>4. \A x \in Actors : WorkerHolds(x)' <=> WorkerHolds(x)
  BY <1>1 DEF WorkerHolds
<1>5. \A x \in Actors : \A i \in DOMAIN userq' : TaskHolds(x, i)' <=> TaskHolds(x, i + 1)
  BY <1>2 DEF TaskHolds
<1>6. \A i \in DOMAIN userq' : i + 1 \in DOMAIN userq /\ i + 1 # 1
  BY <1>2
<1>7. \A i \in DOMAIN userq : i = 1 \/ (i - 1 \in DOMAIN userq' /\ (i - 1) + 1 = i)
  BY <1>2
<1>8. \A x \in Actors, s \in Pool :
         ThreadHolds(x, s)' <=> IF s = t THEN TaskHolds(x, 1) ELSE ThreadHolds(x, s)
  <2>1. \A s \in Pool : s # t => pc'[s] = pc[s] /\ self'[s] = self[s]
    BY <1>1, ContextAssumption DEF TypeOK, Threads
  <2>2. pc'[t] = (IF k.kind = "start" THEN "start" ELSE "enter") /\ self'[t] = k.who
    BY <1>1 DEF TypeOK
  <2>3. \A x \in Actors : k = ApplyTask(x) <=> (k.kind # "start" /\ k.who = x)
    BY <1>3 DEF Tasks, ApplyTask
  <2>4. \A x \in Actors : ThreadHolds(x, t)' <=> TaskHolds(x, 1)
    BY <1>2, <2>2, <2>3 DEF ThreadHolds, TaskHolds, HoldsBusy
  <2>5. QED BY <2>1, <2>4 DEF ThreadHolds
<1>9. \A x \in Actors : ~ThreadHolds(x, t)
  BY <1>1 DEF ThreadHolds, HoldsBusy
<1>10. 1 \in DOMAIN userq
  BY <1>2
<1>11. \A x \in Actors, i \in DOMAIN userq', j \in DOMAIN userq' :
          TaskHolds(x, i)' /\ TaskHolds(x, j)' => i = j
  <2>1. SUFFICES ASSUME NEW x \in Actors, NEW i \in DOMAIN userq', NEW j \in DOMAIN userq',
                        TaskHolds(x, i + 1), TaskHolds(x, j + 1)
                 PROVE  i = j
    BY <1>5
  <2>2. i + 1 = j + 1
    BY <1>6, <2>1 DEF BusyToken
  <2>3. QED BY <1>2, <2>2
<1>12. \A x \in Actors, i \in DOMAIN userq' : TaskHolds(x, i)' => ~TaskHolds(x, 1)
  BY <1>5, <1>6, <1>10 DEF BusyToken
<1>13. \A x \in Actors : (\E i \in DOMAIN userq : TaskHolds(x, i))
          => TaskHolds(x, 1) \/ \E i \in DOMAIN userq' : TaskHolds(x, i)'
  BY <1>5, <1>7
<1> HIDE DEF k
<1>14. QED
  <2> SUFFICES ASSUME NEW x \in Actors
               PROVE  /\ busy'[x] => \/ WorkerHolds(x)'
                                     \/ \E i \in DOMAIN userq' : TaskHolds(x, i)'
                                     \/ \E s \in Pool : ThreadHolds(x, s)'
                      /\ WorkerHolds(x)' => busy'[x]
                      /\ \A i \in DOMAIN userq' : TaskHolds(x, i)' => busy'[x] /\ ~WorkerHolds(x)'
                      /\ \A s \in Pool : ThreadHolds(x, s)' => busy'[x] /\ ~WorkerHolds(x)'
                      /\ \A r, s \in Pool : ThreadHolds(x, r)' /\ ThreadHolds(x, s)' => r = s
                      /\ \A i \in DOMAIN userq', s \in Pool :
                            ~(TaskHolds(x, i)' /\ ThreadHolds(x, s)')
    BY <1>11 DEF BusyToken
  <2>1. busy'[x] => \/ WorkerHolds(x)' \/ \E i \in DOMAIN userq' : TaskHolds(x, i)'
                    \/ \E s \in Pool : ThreadHolds(x, s)'
    BY <1>1, <1>4, <1>8, <1>9, <1>13 DEF BusyToken
  <2>2. WorkerHolds(x)' => busy'[x]
    BY <1>1, <1>4 DEF BusyToken
  <2>3. \A i \in DOMAIN userq' : TaskHolds(x, i)' => busy'[x] /\ ~WorkerHolds(x)'
    BY <1>1, <1>4, <1>5, <1>6 DEF BusyToken
  <2>4. \A s \in Pool : ThreadHolds(x, s)' => busy'[x] /\ ~WorkerHolds(x)'
    BY <1>1, <1>4, <1>8, <1>10 DEF BusyToken
  <2>5. \A r, s \in Pool : ThreadHolds(x, r)' /\ ThreadHolds(x, s)' => r = s
    BY <1>8, <1>10 DEF BusyToken
  <2>6. \A i \in DOMAIN userq', s \in Pool : ~(TaskHolds(x, i)' /\ ThreadHolds(x, s)')
    BY <1>5, <1>6, <1>8, <1>12 DEF BusyToken
  <2>7. QED BY <2>1, <2>2, <2>3, <2>4, <2>5, <2>6

\* reset_busy: from the thread to nobody.
LEMMA ResetBusyToken ==
  ASSUME TypeOK, BusyToken, NEW t \in Pool, ApplyReset(t)
  PROVE  BusyToken'
<1> DEFINE a == self[t]
<1>1. /\ t \in Threads /\ pc[t] \in HoldsBusy /\ a \in Actors /\ ThreadHolds(a, t)
      /\ busy' = [busy EXCEPT ![a] = FALSE]
      /\ UNCHANGED <<userq, wk, self>>
  BY ContextAssumption DEF TypeOK, ApplyReset, Threads, HoldsBusy, ThreadHolds
<1>2. ~busy'[a] /\ \A x \in Actors : x # a => (busy'[x] <=> busy[x])
  BY <1>1 DEF TypeOK
<1>3. /\ \A x \in Actors : WorkerHolds(x)' <=> WorkerHolds(x)
      /\ \A x \in Actors : \A i \in DOMAIN userq : TaskHolds(x, i)' <=> TaskHolds(x, i)
  BY <1>1 DEF WorkerHolds, TaskHolds
<1>4. \A x \in Actors, s \in Pool : ThreadHolds(x, s)' <=> (s # t /\ ThreadHolds(x, s))
  <2>1. pc'[t] \notin HoldsBusy /\ \A s \in Pool : s # t => pc'[s] = pc[s]
    BY <1>1 DEF ApplyReset, Goto, TypeOK, Threads, HoldsBusy
  <2>2. QED BY <1>1, <2>1 DEF ThreadHolds
<1>5. /\ ~WorkerHolds(a)
      /\ \A i \in DOMAIN userq : ~TaskHolds(a, i)
      /\ \A s \in Pool : ThreadHolds(a, s) => s = t
  BY <1>1 DEF BusyToken
<1>6. \A x \in Actors : ThreadHolds(x, t) => x = a
  BY DEF ThreadHolds
<1> HIDE DEF a
<1>7. QED BY <1>1, <1>2, <1>3, <1>4, <1>5, <1>6 DEF BusyToken

\* add_actor posts a task that holds no busy flag.
LEMMA PostStartBusyToken ==
  ASSUME TypeOK, BusyToken, NEW t \in Threads, AddActorPost(t)
  PROVE  BusyToken'
<1> DEFINE k == call[t].who
<1>1. /\ k \in Actors /\ userq \in Seq(Tasks) /\ StartTask(k) \in Tasks
      /\ userq' = Append(userq, StartTask(k)) /\ UNCHANGED <<busy, wk, pc, self>>
  BY DEF AddActorPost, TypeOK, StartTask, Tasks, actVars, thVars
<1>2. PICK n \in Nat : n = Len(userq) + 1
  BY <1>1
<1>3. /\ DOMAIN userq' = 1 .. n /\ DOMAIN userq = 1 .. n - 1 /\ n \in Nat \ {0}
      /\ \A i \in 1 .. n - 1 : userq'[i] = userq[i]
      /\ userq'[n] = StartTask(k)
  BY <1>1, <1>2, AppendIndex
<1>4. /\ \A x \in Actors : \A i \in DOMAIN userq : TaskHolds(x, i)' <=> TaskHolds(x, i)
      /\ \A x \in Actors : ~TaskHolds(x, n)'
      /\ \A i \in DOMAIN userq' : i \in DOMAIN userq \/ i = n
      /\ \A i \in DOMAIN userq : i \in DOMAIN userq'
  BY <1>3, TaskFacts DEF TaskHolds
<1>5. /\ \A x \in Actors : WorkerHolds(x)' <=> WorkerHolds(x)
      /\ \A x \in Actors, s \in Pool : ThreadHolds(x, s)' <=> ThreadHolds(x, s)
  BY <1>1 DEF WorkerHolds, ThreadHolds
<1>6. QED BY <1>1, <1>4, <1>5 DEF BusyToken

\* Every step keeps the token with one holder.
LEMMA NextBusyToken == TypeOK /\ BusyToken /\ [Next]_vars => BusyToken'
<1> SUFFICES ASSUME TypeOK, BusyToken, [Next]_vars PROVE BusyToken'
  OBVIOUS
<1>1. ASSUME UNCHANGED <<busy, userq, wk, pc, self>> PROVE BusyToken'
  BY <1>1, SameHolders DEF WorkerHolds, ThreadHolds
<1>2. ASSUME NEW t \in Threads, CallBegin(t) PROVE BusyToken'
  BY <1>1, <1>2 DEF CallBegin, SendFind, AddActorRead, StopActor, actVars, thVars
<1>3. ASSUME NEW t \in Threads, CallStep(t) PROVE BusyToken'
  BY <1>1, <1>3, PostStartBusyToken DEF CallStep, SendPush, AddActorInsert, actVars, thVars
<1>4. CASE WorkerStep
  <2>1. ASSUME UNCHANGED <<busy, userq, pc, self>>, wk.pc # "post", wk'.pc # "post"
        PROVE  BusyToken'
    BY <2>1, SameHolders DEF WorkerHolds, ThreadHolds
  <2>2. CASE MailboxWorkerBegin
    BY <2>1, <2>2 DEF MailboxWorkerBegin, Scan, actVars, thVars
  <2>3. ASSUME NEW a \in Actors, MailboxWorkerLook(a) PROVE BusyToken'
    BY <2>1, <2>3 DEF MailboxWorkerLook, Scan, actVars, thVars
  <2>4. CASE MailboxWorkerEnd
    BY <2>1, <2>4 DEF MailboxWorkerEnd, Scan, actVars, thVars
  <2>5. QED BY <1>4, <2>2, <2>3, <2>4, TryLockBusyToken, PostBusyToken DEF WorkerStep
<1>5. ASSUME NEW t \in Pool, PoolStep(t) PROVE BusyToken'
  <2>1. ASSUME NEW l, pc' = [pc EXCEPT ![t] = l], l \in HoldsBusy <=> pc[t] \in HoldsBusy,
               self' = self \/ (l \notin HoldsBusy /\ \E s : self' = [self EXCEPT ![t] = s]),
               UNCHANGED <<busy, userq, wk>>
        PROVE  BusyToken'
    <3>1. \A a \in Actors, s \in Pool : ThreadHolds(a, s)' <=> ThreadHolds(a, s)
      BY <2>1, SameSide
    <3>2. QED BY <2>1, <3>1, SameHolders DEF WorkerHolds
  <2> USE DEF Goto, actVars, HoldsBusy
  <2>2. CASE OnStartDone(t)
    BY <2>1, <2>2 DEF OnStartDone, TaskDone
  <2>3. CASE ApplyEnter(t)
    BY <2>1, <2>3 DEF ApplyEnter
  <2>4. CASE ApplyPop(t)
    BY <2>1, <2>4 DEF ApplyPop
  <2>5. CASE ApplyDrained(t)
    BY <2>1, <2>5 DEF ApplyDrained
  <2>6. CASE ActionHandleDone(t)
    BY <2>1, <2>6 DEF ActionHandleDone
  <2>7. CASE ActionHandleThrow(t)
    BY <2>1, <2>7 DEF ActionHandleThrow
  <2>8. CASE ApplyStatus(t)
    BY <2>1, <2>8 DEF ApplyStatus
  <2>9. CASE OnChildStatus(t)
    BY <2>1, <2>9 DEF OnChildStatus, TaskDone
  <2>10. CASE OnChildError(t)
    BY <2>1, <2>10 DEF OnChildError
  <2>11. CASE Escalate(t)
    <3>1. CASE pc' = pc
      BY <1>1, <2>11, <3>1 DEF Escalate
    <3>2. CASE \E l \in {"escalate", "react"} : pc' = [pc EXCEPT ![t] = l]
      BY <2>1, <2>11, <3>2 DEF Escalate
    <3>3. QED BY <2>11, <3>1, <3>2 DEF Escalate
  <2>12. CASE OnActorErrorResume(t)
    BY <2>1, <2>12 DEF OnActorErrorResume, TaskDone
  <2>13. CASE OnActorErrorStop(t)
    BY <2>1, <2>13 DEF OnActorErrorStop, TaskDone
  <2>14. CASE OnActorErrorReinit(t)
    BY <2>1, <2>14 DEF OnActorErrorReinit
  <2>15. QED
    BY <1>5, <2>2, <2>3, <2>4, <2>5, <2>6, <2>7, <2>8, <2>9, <2>10, <2>11, <2>12, <2>13,
       <2>14, TakeBusyToken, ResetBusyToken DEF PoolStep
<1>6. CASE UNCHANGED vars
  BY <1>1, <1>6 DEF vars
<1>7. QED BY <1>2, <1>3, <1>4, <1>5, <1>6 DEF Next, Dead

\* The busy flag of every actor is a token with at most one holder, on its way from
\* mailbox_worker through the queue of the pool to a pool thread.
THEOREM BusyTokenInvariant == Spec => []BusyToken
<1>1. Init => TypeOK /\ BusyToken
  BY InitTypeOK, InitBusyToken
<1>2. TypeOK /\ BusyToken /\ [Next]_vars => (TypeOK /\ BusyToken)'
  BY NextTypeOK, NextBusyToken
<1>3. QED BY <1>1, <1>2, PTL DEF Spec

\* action_handle of one actor never runs on two threads at once, whatever the size
\* of the USER pool.
THEOREM HandlerExclusionInvariant == Spec => []HandlerExclusion
<1>1. TypeOK /\ BusyToken => HandlerExclusion
  <2> SUFFICES ASSUME TypeOK, BusyToken, NEW s \in Pool, NEW t \in Pool,
                      pc[s] = "handle", pc[t] = "handle", self[s] = self[t]
               PROVE  s = t
    BY DEF HandlerExclusion
  <2>1. self[s] \in Actors
    BY DEF TypeOK
  <2>2. ThreadHolds(self[s], s) /\ ThreadHolds(self[s], t)
    BY DEF ThreadHolds, HoldsBusy
  <2>3. QED BY <2>1, <2>2 DEF BusyToken
<1>2. QED BY <1>1, TypeCorrect, BusyTokenInvariant, PTL

-----------------------------------------------------------------------------
(* A posted apply finds mail *)

\* No mailbox is emptied by the step, and no apply is posted or taken.
LEMMA MailKept ==
  ASSUME TypeOK, ApplyFindsMail, userq' = userq,
         \A a \in Actors : mail[a] # <<>> => mail'[a] # <<>>,
         \A t \in Pool : pc'[t] = "enter" => pc[t] = "enter" /\ self'[t] = self[t]
  PROVE  ApplyFindsMail'
<1>1. \A i \in DOMAIN userq : userq[i] \in Tasks
  BY DEF TypeOK
<1>2. \A i \in DOMAIN userq : userq[i].who \in Actors
  BY <1>1 DEF Tasks
<1>3. \A t \in Pool : pc[t] = "enter" => self[t] \in Actors
  BY DEF TypeOK
<1>4. QED BY <1>2, <1>3 DEF ApplyFindsMail

\* Every step leaves mail for the apply that is due.
LEMMA NextApplyFindsMail ==
  TypeOK /\ BusyToken /\ ApplyFindsMail /\ [Next]_vars => ApplyFindsMail'
<1> SUFFICES ASSUME TypeOK, BusyToken, ApplyFindsMail, [Next]_vars PROVE ApplyFindsMail'
  OBVIOUS
<1>1. ASSUME UNCHANGED <<mail, userq, pc, self>> PROVE ApplyFindsMail'
  BY <1>1, MailKept
<1>2. ASSUME NEW t \in Threads, CallBegin(t) PROVE ApplyFindsMail'
  BY <1>1, <1>2 DEF CallBegin, SendFind, AddActorRead, StopActor, mboxVars, thVars
<1>3. ASSUME NEW t \in Threads, CallStep(t) PROVE ApplyFindsMail'
  <2>1. CASE SendPush(t)
    <3>1. /\ UNCHANGED <<userq, pc, self>> /\ call[t].msg \in Msgs
          /\ mail' = [mail EXCEPT ![call[t].who] = Append(@, call[t].msg)]
      BY <2>1 DEF SendPush, thVars, TypeOK
    <3>2. \A a \in Actors : mail[a] # <<>> => mail'[a] # <<>>
      <4> SUFFICES ASSUME NEW a \in Actors, mail[a] # <<>> PROVE mail'[a] # <<>>
        OBVIOUS
      <4>1. mail[a] \in Seq(Msgs) BY DEF TypeOK
      <4>2. Append(mail[a], call[t].msg) # <<>> BY <3>1, <4>1
      <4>3. mail'[a] = mail[a] \/ mail'[a] = Append(mail[a], call[t].msg)
        BY <3>1 DEF TypeOK
      <4>4. QED BY <4>2, <4>3
    <3>3. QED BY <3>1, <3>2, MailKept
  <2>2. CASE AddActorInsert(t)
    BY <1>1, <2>2 DEF AddActorInsert, mboxVars, thVars
  <2>3. CASE AddActorPost(t)
    <3> DEFINE k == StartTask(call[t].who)
    <3>1. /\ k \in Tasks /\ k.kind = "start" /\ userq \in Seq(Tasks)
          /\ userq' = Append(userq, k) /\ UNCHANGED <<mail, pc, self>>
      BY <2>3 DEF AddActorPost, TypeOK, StartTask, Tasks, mboxVars, thVars
    <3> HIDE DEF k
    <3>2. \A i \in DOMAIN userq' : userq'[i] = k \/ (i \in DOMAIN userq /\ userq'[i] = userq[i])
      BY <3>1, AppendIndex
    <3>3. QED BY <3>1, <3>2 DEF ApplyFindsMail
  <2>4. QED BY <1>3, <2>1, <2>2, <2>3 DEF CallStep
<1>4. CASE WorkerStep
  <2>1. CASE MailboxWorkerPost
    <3>1. UNCHANGED <<mail, pc, self>>
      BY <2>1 DEF MailboxWorkerPost, mboxVars, thVars
    <3>2. CASE userq' = userq
      BY <1>1, <3>1, <3>2
    <3>3. CASE mail[wk.at] # <<>> /\ userq' = Append(userq, ApplyTask(wk.at))
      <4> DEFINE k == ApplyTask(wk.at)
      <4>1. k \in Tasks /\ k.who = wk.at /\ userq \in Seq(Tasks)
        BY <2>1 DEF MailboxWorkerPost, TypeOK, ApplyTask, Tasks
      <4>2. userq' = Append(userq, k) /\ mail[k.who] # <<>>
        BY <3>3, <4>1
      <4> HIDE DEF k
      <4>3. \A i \in DOMAIN userq' : userq'[i] = k \/ (i \in DOMAIN userq /\ userq'[i] = userq[i])
        BY <4>1, <4>2, AppendIndex
      <4>4. QED BY <3>1, <4>2, <4>3 DEF ApplyFindsMail
    <3>4. QED BY <2>1, <3>2, <3>3 DEF MailboxWorkerPost
  <2>2. QED
    BY <1>1, <1>4, <2>1 DEF WorkerStep, MailboxWorkerBegin, MailboxWorkerLook,
       MailboxWorkerTryLock, MailboxWorkerEnd, mboxVars, thVars
<1>5. ASSUME NEW t \in Pool, PoolStep(t) PROVE ApplyFindsMail'
  <2>1. ASSUME NEW l, l # "enter", pc' = [pc EXCEPT ![t] = l], UNCHANGED <<mail, userq>>,
               self' = self \/ \E s : self' = [self EXCEPT ![t] = s]
        PROVE  ApplyFindsMail'
    <3>1. \A s \in Pool : pc'[s] = "enter" => pc[s] = "enter" /\ self'[s] = self[s]
      BY <2>1 DEF TypeOK, Threads
    <3>2. QED BY <2>1, <3>1, MailKept
  <2>2. CASE PoolTake(t)
    <3> DEFINE k == Head(userq)
    <3>1. /\ userq # <<>> /\ userq \in Seq(Tasks) /\ userq' = Tail(userq) /\ mail' = mail
          /\ pc' = [pc EXCEPT ![t] = IF k.kind = "start" THEN "start" ELSE "enter"]
          /\ self' = [self EXCEPT ![t] = k.who]
      BY <2>2 DEF PoolTake, Goto, TypeOK, mboxVars
    <3>2. /\ k \in Tasks /\ 1 \in DOMAIN userq /\ k = userq[1]
          /\ \A i \in DOMAIN userq' : i + 1 \in DOMAIN userq /\ userq'[i] = userq[i + 1]
      BY <3>1, TailIndex
    <3>3. k.kind = "start" \/ mail[k.who] # <<>>
      BY <3>2 DEF ApplyFindsMail, Tasks
    <3> HIDE DEF k
    <3>4. \A s \in Pool : pc'[s] = "enter" =>
             (pc[s] = "enter" /\ self'[s] = self[s]) \/ (k.kind # "start" /\ self'[s] = k.who)
      BY <3>1 DEF TypeOK, Threads
    <3>5. QED BY <3>1, <3>2, <3>3, <3>4 DEF ApplyFindsMail
  <2>3. CASE ApplyPop(t)
    <3> DEFINE a == self[t]
    <3>1. /\ a \in Actors /\ ThreadHolds(a, t) /\ pc[t] = "pop" /\ UNCHANGED <<userq, self>>
          /\ \A x \in Actors : x # a => mail'[x] = mail[x]
          /\ \A s \in Pool : pc'[s] = "enter" => pc[s] = "enter" /\ s # t
      BY <2>3 DEF ApplyPop, Goto, TypeOK, Threads, ThreadHolds, HoldsBusy
    <3>2. \A s \in Pool : pc'[s] = "enter" => self[s] \in Actors /\ self[s] # a
      <4> SUFFICES ASSUME NEW s \in Pool, pc'[s] = "enter", self[s] = a PROVE FALSE
        BY <3>1 DEF TypeOK
      <4>1. ThreadHolds(a, s) /\ s # t
        BY <3>1 DEF ThreadHolds, HoldsBusy
      <4>2. QED BY <3>1, <4>1 DEF BusyToken
    <3>3. \A i \in DOMAIN userq : userq[i].kind = "apply" =>
             userq[i].who \in Actors /\ userq[i].who # a
      <4> SUFFICES ASSUME NEW i \in DOMAIN userq, userq[i].kind = "apply"
                   PROVE  userq[i].who \in Actors /\ userq[i].who # a
        OBVIOUS
      <4>1. userq[i] \in Tasks
        BY DEF TypeOK
      <4>2. userq[i].who \in Actors /\ userq[i] = ApplyTask(userq[i].who)
        BY <4>1 DEF Tasks, ApplyTask
      <4>3. QED BY <3>1, <4>2 DEF BusyToken, TaskHolds
    <3> HIDE DEF a
    <3>4. QED BY <3>1, <3>2, <3>3 DEF ApplyFindsMail
  <2>4. CASE Escalate(t)
    BY <1>1, <2>1, <2>4 DEF Escalate, Goto, mboxVars
  <2> USE DEF Goto, TaskDone, mboxVars
  <2>5. CASE OnStartDone(t) \/ OnChildStatus(t) \/ OnActorErrorResume(t) \/ OnActorErrorStop(t)
    BY <2>1, <2>5 DEF OnStartDone, OnChildStatus, OnActorErrorResume, OnActorErrorStop
  <2>6. CASE ApplyEnter(t) \/ ApplyDrained(t) \/ ApplyStatus(t) \/ ApplyReset(t)
    BY <2>1, <2>6 DEF ApplyEnter, ApplyDrained, ApplyStatus, ApplyReset
  <2>7. CASE ActionHandleDone(t) \/ ActionHandleThrow(t) \/ OnChildError(t) \/ OnActorErrorReinit(t)
    BY <2>1, <2>7 DEF ActionHandleDone, ActionHandleThrow, OnChildError, OnActorErrorReinit
  <2>8. QED BY <1>5, <2>2, <2>3, <2>4, <2>5, <2>6, <2>7 DEF PoolStep
<1>6. CASE UNCHANGED vars
  BY <1>1, <1>6 DEF vars
<1>7. QED BY <1>2, <1>3, <1>4, <1>5, <1>6 DEF Next, Dead

\* The task that mailbox_worker posts always finds a message to handle.
THEOREM ApplyFindsMailInvariant == Spec => []ApplyFindsMail
<1>1. Init => ApplyFindsMail
  BY DEF Init, ApplyFindsMail, Threads
<1>2. QED
  BY <1>1, TypeCorrect, BusyTokenInvariant, NextApplyFindsMail, PTL DEF Spec

-----------------------------------------------------------------------------
(* The two maps of the context *)

\* mailbox_worker holds _locker shared throughout its scan, so that no mailbox
\* it has still to visit can disappear under it.
ScanUnderLock == wk.pc # "idle" => Worker \in readers /\ wk.left \subseteq mboxes

\* Every step keeps the two maps in agreement.
LEMMA NextRegistry ==
  TypeOK /\ RegistryMirror /\ ScanUnderLock /\ [Next]_vars => (RegistryMirror /\ ScanUnderLock)'
<1> DEFINE RInv == RegistryMirror /\ ScanUnderLock
<1> SUFFICES ASSUME TypeOK, RInv, [Next]_vars PROVE RInv'
  OBVIOUS
<1> USE ContextAssumption DEF RegistryMirror, ScanUnderLock
<1>1. ASSUME UNCHANGED <<actors, mboxes, wk>>, Worker \in readers => Worker \in readers'
      PROVE  RInv'
  BY <1>1
\* A step under the exclusive lock: no scan is under way.
<1>2. ASSUME readers = {}, mboxes' = actors', UNCHANGED wk PROVE RInv'
  BY <1>2
<1>3. ASSUME NEW a \in Actors, StopActorImpl(a) PROVE mboxes' = actors'
  BY <1>3 DEF StopActorImpl
<1>4. ASSUME NEW t \in Threads, CallBegin(t) PROVE RInv'
  <2>1. ASSUME NEW a \in Targets, SendFind(t, a) PROVE RInv'
    BY <1>1, <2>1 DEF SendFind, regVars
  <2>2. ASSUME NEW k \in Actors, AddActorRead(t, k) PROVE RInv'
    BY <1>1, <2>2 DEF AddActorRead
  <2>3. ASSUME NEW a \in Stoppable, StopActor(t, a) PROVE RInv'
    BY <1>2, <1>3, <2>3 DEF StopActor
  <2>4. QED BY <1>4, <2>1, <2>2, <2>3 DEF CallBegin
<1>5. ASSUME NEW t \in Threads, CallStep(t) PROVE RInv'
  <2>1. CASE SendPush(t)
    BY <1>1, <2>1 DEF SendPush, regVars
  <2>2. CASE AddActorInsert(t)
    BY <1>2, <2>2 DEF AddActorInsert
  <2>3. CASE AddActorPost(t)
    BY <1>1, <2>3 DEF AddActorPost, regVars
  <2>4. QED BY <1>5, <2>1, <2>2, <2>3 DEF CallStep
<1>6. CASE WorkerStep
  BY <1>6 DEF WorkerStep, MailboxWorkerBegin, MailboxWorkerLook, MailboxWorkerTryLock,
     MailboxWorkerPost, MailboxWorkerEnd, Scan, regVars
<1>7. ASSUME NEW t \in Pool, PoolStep(t) PROVE RInv'
  <2>1. t # Worker /\ (pc[t] # "idle" => self[t] \in Actors)
    BY DEF TypeOK, Threads
  <2>2. CASE OnActorErrorStop(t) \/ OnActorErrorReinit(t)
    BY <1>2, <1>3, <2>1, <2>2 DEF OnActorErrorStop, OnActorErrorReinit
  <2>3. CASE OnChildError(t) \/ Escalate(t)
    BY <1>1, <2>1, <2>3 DEF OnChildError, Escalate, regVars
  <2>4. QED
    BY <1>1, <1>7, <2>2, <2>3 DEF PoolStep, PoolTake, OnStartDone, ApplyEnter, ApplyPop,
       ApplyDrained, ActionHandleDone, ActionHandleThrow, ApplyStatus, ApplyReset,
       OnChildStatus, OnActorErrorResume, regVars
<1>8. CASE UNCHANGED vars
  BY <1>1, <1>8 DEF vars
<1>9. QED BY <1>4, <1>5, <1>6, <1>7, <1>8 DEF Next, Dead

\* _actors and _mboxes have the same keys in every reachable state, and
\* mailbox_worker never finds a mailbox to remove.
THEOREM RegistryMirrorInvariant == Spec => []RegistryMirror
<1>1. Init => RegistryMirror /\ ScanUnderLock
  BY DEF Init, RegistryMirror, ScanUnderLock, Scan
<1>2. QED BY <1>1, TypeCorrect, NextRegistry, PTL DEF Spec
=============================================================================
