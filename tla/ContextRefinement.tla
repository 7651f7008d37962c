------------------------- MODULE ContextRefinement -------------------------
(***************************************************************************)
(* Proofs that Context implements SerialActors, and that it never looks up *)
(* a parent in vain as long as no actor with children is stopped, for any  *)
(* tree of actors, any number of threads and any number of messages.       *)
(***************************************************************************)
EXTENDS ContextProofs

-----------------------------------------------------------------------------
(* The inductive invariant *)

\* What a call in progress relies on: the mailbox that send_envelope has found is there
\* until the push, since _locker is held shared; the id that add_actor has taken belongs
\* to nobody else and is in no map; and only user code calls.
Calls ==
    \A t \in Threads :
        /\ call[t].op = "push" => call[t].who \in mboxes /\ t \in readers
        /\ call[t].op = "insert" => call[t].who \in issued /\ ~Known(call[t].who)
        /\ \A s \in Threads : (call[s].op = "insert" /\ call[t].op = "insert"
                                 /\ call[s].who = call[t].who) => s = t
        /\ (t \in Pool /\ pc[t] \notin {"start", "handle"}) => call[t] = NoCall

\* Who is or was in the maps has got an id, and is known by its parent.
Issued == \A a \in Actors : (Known(a) => a \in issued) /\ (a \in mboxes => Known(a))

\* action_handle always has an envelope.
AtWork == \A t \in Pool : pc[t] = "handle" => cur[t] \in Msgs

\* With the types, the token and the two maps of ContextProofs.
RInv == /\ TypeOK /\ BusyToken /\ RegistryMirror /\ ScanUnderLock
        /\ Calls /\ Issued /\ AtWork

\* A step that leaves the maps of the context, the calls and the locks of the others alone.
Local(t) ==
    /\ UNCHANGED <<actors, mboxes, children, issued, call>>
    /\ readers \ {t} \subseteq readers'

\* A step that takes the actors of D out of the maps, under the exclusive _locker.
TakesOut(D) ==
    /\ D \subseteq actors /\ readers = {}
    /\ actors' = actors \ D /\ mboxes' = mboxes \ D
    /\ UNCHANGED <<children, issued, mail, call, readers>>

\* stop_actor_impl takes a set of actors out.
LEMMA StopTakesOut ==
  ASSUME NEW a, StopActorImpl(a), readers = {}, UNCHANGED <<mail, call, readers>>
  PROVE  \E D \in SUBSET actors : TakesOut(D)
<1> DEFINE D == IF a \in actors THEN Subtree(a) ELSE {}
<1>1. D \subseteq actors
  BY DEF Subtree
<1>2. actors' = actors \ D /\ mboxes' = mboxes \ D /\ UNCHANGED <<children, issued>>
  BY DEF StopActorImpl
<1> HIDE DEF D
<1>3. TakesOut(D)
  BY <1>1, <1>2 DEF TakesOut
<1>4. QED BY <1>1, <1>3

\* The steps, by what they do to the maps and the calls.
LEMMA StepKinds ==
  ASSUME TypeOK, RegistryMirror, ScanUnderLock, [Next]_vars
  PROVE  \/ \E t \in Threads, a \in Targets : SendFind(t, a)
         \/ \E t \in Threads, k \in Actors : AddActorRead(t, k)
         \/ \E t \in Threads : SendPush(t) \/ AddActorInsert(t) \/ AddActorPost(t)
         \/ \E t \in Pool : /\ Local(t)
                            /\ call[t] = NoCall \/ pc[t] \notin {"start", "handle"}
                            /\ \A s \in Pool \ {t} : pc'[s] = pc[s]
         \/ \E D \in SUBSET actors : TakesOut(D) /\ pc' = pc
         \/ \E D \in SUBSET actors, t \in Pool :
               TakesOut(D) /\ pc[t] = "react" /\ \A s \in Pool \ {t} : pc'[s] = pc[s]
         \/ Local(Worker) /\ pc' = pc
<1> USE DEF regVars, mboxVars, actVars, thVars
<1>1. ASSUME NEW t \in Threads, NEW a \in Stoppable, StopActor(t, a)
      PROVE  \E D \in SUBSET actors : TakesOut(D) /\ pc' = pc
  BY <1>1, StopTakesOut DEF StopActor
<1>2. CASE WorkerStep
  <2>1. CASE MailboxWorkerBegin
    BY <2>1 DEF MailboxWorkerBegin, Local
  <2>2. ASSUME NEW a \in Actors, MailboxWorkerLook(a) PROVE Local(Worker) /\ pc' = pc
    BY <2>2 DEF MailboxWorkerLook, Local
  <2>3. CASE MailboxWorkerTryLock
    BY <2>3 DEF MailboxWorkerTryLock, Local
  <2>4. CASE MailboxWorkerPost
    BY <2>4 DEF MailboxWorkerPost, Local
  <2>5. CASE MailboxWorkerEnd
    BY <2>5 DEF MailboxWorkerEnd, Local, RegistryMirror
  <2>6. QED BY <1>2, <2>1, <2>2, <2>3, <2>4, <2>5 DEF WorkerStep
<1>3. ASSUME NEW t \in Pool, PoolStep(t)
      PROVE  \/ /\ Local(t)
                /\ call[t] = NoCall \/ pc[t] \notin {"start", "handle"}
                /\ \A s \in Pool \ {t} : pc'[s] = pc[s]
             \/ \E D \in SUBSET actors :
                   TakesOut(D) /\ pc[t] = "react" /\ \A s \in Pool \ {t} : pc'[s] = pc[s]
  <2>1. \A l : (pc' = pc \/ Goto(t, l)) => \A s \in Pool \ {t} : pc'[s] = pc[s]
    BY DEF Goto, TypeOK, Threads
  <2> DEFINE Mine == /\ Local(t)
                     /\ call[t] = NoCall \/ pc[t] \notin {"start", "handle"}
                     /\ \A s \in Pool \ {t} : pc'[s] = pc[s]
  <2>2. ASSUME PoolTake(t) \/ ApplyEnter(t) \/ ApplyPop(t) \/ ApplyDrained(t) PROVE Mine
    BY <2>1, <2>2 DEF PoolTake, ApplyEnter, ApplyPop, ApplyDrained, Local
  <2>3. ASSUME ActionHandleDone(t) \/ ActionHandleThrow(t) \/ ApplyStatus(t) \/ ApplyReset(t)
        PROVE  Mine
    BY <2>1, <2>3 DEF ActionHandleDone, ActionHandleThrow, ApplyStatus, ApplyReset, Local
  <2>4. ASSUME OnStartDone(t) \/ OnChildStatus(t) \/ OnActorErrorResume(t) PROVE Mine
    BY <2>1, <2>4 DEF OnStartDone, OnChildStatus, OnActorErrorResume, TaskDone, Local
  <2>5. ASSUME OnChildError(t) PROVE Mine
    BY <2>1, <2>5 DEF OnChildError, Local
  <2>6. ASSUME Escalate(t) PROVE Mine
    BY <2>1, <2>6 DEF Escalate, Local
  <2>7. ASSUME OnActorErrorStop(t) \/ OnActorErrorReinit(t)
        PROVE  \E D \in SUBSET actors :
                   TakesOut(D) /\ pc[t] = "react" /\ \A s \in Pool \ {t} : pc'[s] = pc[s]
    <3>1. \A s \in Pool \ {t} : pc'[s] = pc[s]
      BY <2>1, <2>7 DEF OnActorErrorStop, OnActorErrorReinit, TaskDone
    <3>2. \E D \in SUBSET actors : TakesOut(D)
      BY <2>7, StopTakesOut DEF OnActorErrorStop, OnActorErrorReinit
    <3>3. pc[t] = "react"
      BY <2>7 DEF OnActorErrorStop, OnActorErrorReinit
    <3>4. QED BY <3>1, <3>2, <3>3
  <2> HIDE DEF Mine
  <2>8. Mine \/ OnActorErrorStop(t) \/ OnActorErrorReinit(t)
    BY <1>3, <2>2, <2>3, <2>4, <2>5, <2>6 DEF PoolStep
  <2>9. QED BY <2>7, <2>8 DEF Mine
<1>4. CASE UNCHANGED vars
  BY <1>4 DEF vars, Local
<1>5. QED BY <1>1, <1>2, <1>3, <1>4 DEF Next, Dead, CallBegin, CallStep

\* Only add_actor makes an actor known.
LEMMA InsertKnown ==
  ASSUME TypeOK, Calls, NEW t \in Threads, AddActorInsert(t)
  PROVE  \E k \in Actors :
            /\ k = call[t].who /\ ~Known(k) /\ k \in issued /\ k # Root
            /\ \A a \in Actors : Known(a)' <=> Known(a) \/ a = k
            /\ mboxes' = mboxes \cup {k} /\ actors' = actors \cup {k}
            /\ \A a \in Actors : children'[a] = children[a] \cup (IF a = Dad[k] THEN {k} ELSE {})
<1>1. PICK k \in Actors : k = call[t].who
  BY DEF AddActorInsert, TypeOK
<1>2. ~Known(k) /\ k \in issued
  BY <1>1 DEF AddActorInsert, Calls
<1>3. k # Root /\ Dad[k] \in Actors
  BY <1>2, ContextAssumption DEF Known
<1>4. children' = [children EXCEPT ![Dad[k]] = @ \cup {k}]
  BY <1>1 DEF AddActorInsert
<1>5. \A a \in Actors : children'[a] = children[a] \cup (IF a = Dad[k] THEN {k} ELSE {})
  BY <1>3, <1>4 DEF TypeOK
<1>6. \A a \in Actors : a # Root => Dad[a] \in Actors
  BY ContextAssumption
<1>7. \A a \in Actors : Known(a)' <=> Known(a) \/ a = k
  BY <1>3, <1>5, <1>6 DEF Known
<1>8. mboxes' = mboxes \cup {k} /\ actors' = actors \cup {k}
  BY <1>1 DEF AddActorInsert
<1>9. QED BY <1>1, <1>2, <1>3, <1>5, <1>7, <1>8

\* An actor that has become known stays so.
LEMMA KnownSame ==
  ASSUME children' = children
  PROVE  \A a : Known(a)' <=> Known(a)
  BY DEF Known

\* The names and the ids.
LEMMA NextIssued ==
  ASSUME TypeOK, RegistryMirror, ScanUnderLock, Calls, Issued, [Next]_vars
  PROVE  Issued'
<1>1. ASSUME children' = children, mboxes' \subseteq mboxes, issued \subseteq issued'
      PROVE  Issued'
  BY <1>1, KnownSame DEF Issued
<1>2. ASSUME NEW t \in Threads, NEW a \in Targets, SendFind(t, a) PROVE Issued'
  BY <1>1, <1>2 DEF SendFind, regVars
<1>3. ASSUME NEW t \in Threads, NEW k \in Actors, AddActorRead(t, k) PROVE Issued'
  BY <1>1, <1>3 DEF AddActorRead
<1>4. ASSUME NEW t \in Threads, SendPush(t) \/ AddActorPost(t) PROVE Issued'
  BY <1>1, <1>4 DEF SendPush, AddActorPost, regVars
<1>5. ASSUME NEW t \in Threads, AddActorInsert(t) PROVE Issued'
  <2>1. issued' = issued
    BY <1>5 DEF AddActorInsert
  <2>2. PICK k \in Actors : /\ k \in issued /\ mboxes' = mboxes \cup {k}
                            /\ \A a \in Actors : Known(a)' <=> Known(a) \/ a = k
    BY <1>5, InsertKnown
  <2>3. QED BY <2>1, <2>2 DEF Issued
<1>6. ASSUME NEW t, Local(t) PROVE Issued'
  BY <1>1, <1>6 DEF Local
<1>7. ASSUME NEW D, TakesOut(D) PROVE Issued'
  BY <1>1, <1>7 DEF TakesOut
<1>8. QED BY <1>2, <1>3, <1>4, <1>5, <1>6, <1>7, StepKinds

\* The calls in progress.
LEMMA NextCalls ==
  ASSUME TypeOK, RegistryMirror, ScanUnderLock, Calls, Issued, [Next]_vars
  PROVE  Calls'
<1> DEFINE Fine(t) ==
      /\ call'[t].op = "push" => call'[t].who \in mboxes' /\ t \in readers'
      /\ call'[t].op = "insert" => call'[t].who \in issued' /\ ~Known(call[t].who)'
      /\ \A s \in Threads : (call'[s].op = "insert" /\ call'[t].op = "insert"
                               /\ call'[s].who = call'[t].who) => s = t
      /\ (t \in Pool /\ pc'[t] \notin {"start", "handle"}) => call'[t] = NoCall
<1> SUFFICES \A t \in Threads : Fine(t)
  BY DEF Calls
<1>0. NoCall.op = "none" /\ Pool \subseteq Threads /\ Worker \notin Threads
  BY ContextAssumption DEF NoCall, Call, Threads
<1>1. ASSUME NEW t \in Threads, NEW a \in Targets, SendFind(t, a)
      PROVE  \A s \in Threads : Fine(s)
  <2>1. /\ call' = [call EXCEPT ![t] = Call("push", a, sends + 1)] /\ a \in mboxes
        /\ readers' = readers \cup {t} /\ pc' = pc /\ UNCHANGED <<mboxes, issued, children>>
        /\ pc[t] \in {"user", "start", "handle"}
    BY <1>1 DEF SendFind, regVars, thVars, InUserCode
  <2>2. /\ call'[t].op = "push" /\ call'[t].who = a
        /\ \A s \in Threads \ {t} : call'[s] = call[s]
    BY <2>1 DEF TypeOK, Call
  <2>3. t \in Pool => pc'[t] \in {"start", "handle"}
    BY <2>1 DEF TypeOK
  <2>4. Fine(t)
    BY <2>1, <2>2, <2>3
  <2>5. ASSUME NEW s \in Threads \ {t} PROVE Fine(s)
    BY <2>1, <2>2 DEF Calls, Known
  <2>6. QED BY <2>4, <2>5
<1>2. ASSUME NEW t \in Threads, NEW k \in Actors, AddActorRead(t, k)
      PROVE  \A s \in Threads : Fine(s)
  <2>1. /\ k \notin issued /\ issued' = issued \cup {k} /\ pc' = pc
        /\ UNCHANGED <<mboxes, children, readers>> /\ pc[t] \in {"user", "start", "handle"}
        /\ call' = call \/ call' = [call EXCEPT ![t] = Call("insert", k, None)]
    BY <1>2 DEF AddActorRead, thVars, InUserCode
  <2>2. CASE call' = call
    BY <2>1, <2>2 DEF Calls, Known
  <2>3. CASE call' = [call EXCEPT ![t] = Call("insert", k, None)]
    <3>1. /\ call'[t].op = "insert" /\ call'[t].who = k
          /\ \A s \in Threads \ {t} : call'[s] = call[s]
      BY <2>3 DEF TypeOK, Call
    <3>2. ~Known(k)
      BY <2>1 DEF Issued
    <3>3. \A s \in Threads \ {t} : call[s].op = "insert" => call[s].who # k
      BY <2>1 DEF Calls
    <3>4. t \in Pool => pc'[t] \in {"start", "handle"}
      BY <2>1 DEF TypeOK
    <3>5. Fine(t)
      BY <2>1, <3>1, <3>2, <3>3, <3>4 DEF Known
    <3>6. ASSUME NEW s \in Threads \ {t} PROVE Fine(s)
      BY <2>1, <3>1, <3>3 DEF Calls, Known
    <3>7. QED BY <3>5, <3>6
  <2>4. QED BY <2>1, <2>2, <2>3
<1>3. ASSUME NEW t \in Threads, SendPush(t) \/ AddActorPost(t) PROVE \A s \in Threads : Fine(s)
  <2>1. /\ UNCHANGED <<mboxes, children, issued, pc>> /\ readers \ {t} \subseteq readers'
        /\ call' = [call EXCEPT ![t] = NoCall]
    BY <1>3 DEF SendPush, AddActorPost, regVars, thVars
  <2>2. call'[t] = NoCall /\ \A s \in Threads \ {t} : call'[s] = call[s]
    BY <2>1 DEF TypeOK
  <2>3. Fine(t)
    BY <1>0, <2>2
  <2>4. ASSUME NEW s \in Threads \ {t} PROVE Fine(s)
    BY <1>0, <2>1, <2>2 DEF Calls, Known
  <2>5. QED BY <2>3, <2>4
<1>4. ASSUME NEW t \in Threads, AddActorInsert(t) PROVE \A s \in Threads : Fine(s)
  <2>1. /\ UNCHANGED <<issued, pc, readers>>
        /\ call' = [call EXCEPT ![t] = Call("post", call[t].who, None)]
        /\ call[t].op = "insert"
    BY <1>4 DEF AddActorInsert, thVars
  <2>2. /\ call'[t].op = "post" /\ \A s \in Threads \ {t} : call'[s] = call[s]
    BY <2>1 DEF TypeOK, Call
  <2>3. PICK k \in Actors : /\ k = call[t].who /\ mboxes' = mboxes \cup {k}
                            /\ \A a \in Actors : Known(a)' <=> Known(a) \/ a = k
    BY <1>4, InsertKnown
  <2>4. Fine(t)
    <3>1. t \in Pool => pc[t] \in {"start", "handle"}
      BY <1>0, <2>1 DEF Calls
    <3>2. QED BY <2>1, <2>2, <3>1
  <2>5. ASSUME NEW s \in Threads \ {t} PROVE Fine(s)
    <3>1. ASSUME call[s].op = "insert" PROVE ~Known(call[s].who)'
      <4>1. PICK b \in Actors : b = call[s].who
        BY <3>1 DEF TypeOK
      <4>2. ~Known(b) /\ b # k
        BY <2>1, <2>3, <3>1, <4>1 DEF Calls
      <4>3. ~Known(b)'
        BY <2>3, <4>2
      <4>4. call'[s].who = b
        BY <2>2, <4>1
      <4>5. QED BY <4>3, <4>4 DEF Known
    <3>2. QED BY <2>1, <2>2, <2>3, <3>1 DEF Calls
  <2>6. QED BY <2>4, <2>5
<1>5. ASSUME call' = call, UNCHANGED <<children, issued>>,
             \A s \in Threads : call[s].op = "push" => call[s].who \in mboxes' /\ s \in readers',
             \A s \in Pool : pc'[s] = pc[s] \/ call[s] = NoCall
      PROVE  \A s \in Threads : Fine(s)
  BY <1>5 DEF Calls, Known
<1>6. ASSUME NEW t \in Pool, Local(t), call[t] = NoCall \/ pc[t] \notin {"start", "handle"},
             \A s \in Pool \ {t} : pc'[s] = pc[s]
      PROVE  \A s \in Threads : Fine(s)
  <2>1. call[t] = NoCall
    BY <1>0, <1>6 DEF Calls
  <2>2. QED BY <1>0, <1>5, <1>6, <2>1 DEF Local, Calls
<1>7. ASSUME NEW D, TakesOut(D), pc' = pc PROVE \A s \in Threads : Fine(s)
  BY <1>5, <1>7 DEF TakesOut, Calls
<1>8. ASSUME NEW D, NEW t \in Pool, TakesOut(D), pc[t] = "react",
             \A s \in Pool \ {t} : pc'[s] = pc[s]
      PROVE  \A s \in Threads : Fine(s)
  <2>1. call[t] = NoCall
    BY <1>0, <1>8 DEF Calls
  <2>2. QED BY <1>5, <1>8, <2>1 DEF TakesOut, Calls
<1>9. ASSUME Local(Worker), pc' = pc PROVE \A s \in Threads : Fine(s)
  BY <1>0, <1>5, <1>9 DEF Local, Calls
<1> HIDE DEF Fine
<1>10. QED BY <1>1, <1>2, <1>3, <1>4, <1>6, <1>7, <1>8, <1>9, StepKinds

\* The pool steps that neither begin nor end an action_handle.
OffHandle(t) ==
    /\ pc[t] # "handle" /\ pc'[t] # "handle" /\ cur' = cur
    /\ \A s \in Pool \ {t} : pc'[s] = pc[s] /\ self'[s] = self[s]

\* The steps, by what they do to the handlers.
LEMMA HandlerKinds ==
  ASSUME TypeOK, [Next]_vars
  PROVE  \/ UNCHANGED <<pc, self, cur>>
         \/ \E t \in Pool : ApplyPop(t) \/ ActionHandleDone(t) \/ ActionHandleThrow(t)
         \/ \E t \in Pool : OffHandle(t)
<1> USE DEF thVars
<1>1. ASSUME NEW t \in Threads, CallBegin(t) \/ CallStep(t) PROVE UNCHANGED <<pc, self, cur>>
  BY <1>1 DEF CallBegin, CallStep, SendFind, AddActorRead, StopActor, SendPush,
     AddActorInsert,
     AddActorPost
<1>2. CASE WorkerStep
  BY <1>2 DEF WorkerStep, MailboxWorkerBegin, MailboxWorkerLook, MailboxWorkerTryLock,
     MailboxWorkerPost, MailboxWorkerEnd
<1>3. ASSUME NEW t \in Pool, PoolStep(t)
      PROVE  OffHandle(t) \/ ApplyPop(t) \/ ActionHandleDone(t) \/ ActionHandleThrow(t)
  <2> USE DEF TypeOK, Threads
  <2>1. ASSUME NEW l, Goto(t, l), pc[t] # "handle", l # "handle", cur' = cur,
               self' = self \/ \E x : self' = [self EXCEPT ![t] = x]
        PROVE  OffHandle(t)
    BY <2>1 DEF Goto, OffHandle
  <2>2. ASSUME pc' = pc, self' = self, cur' = cur, pc[t] # "handle" PROVE OffHandle(t)
    BY <2>2 DEF OffHandle
  <2>3. CASE PoolTake(t)
    BY <2>1, <2>3 DEF PoolTake
  <2>4. CASE OnStartDone(t) \/ OnChildStatus(t) \/ OnActorErrorResume(t)
    BY <2>1, <2>4 DEF OnStartDone, OnChildStatus, OnActorErrorResume, TaskDone
  <2>5. CASE ApplyEnter(t) \/ ApplyDrained(t)
    BY <2>1, <2>5 DEF ApplyEnter, ApplyDrained
  <2>6. CASE ApplyStatus(t) \/ ApplyReset(t)
    BY <2>1, <2>6 DEF ApplyStatus, ApplyReset
  <2>7. CASE OnChildError(t)
    BY <2>1, <2>7 DEF OnChildError
  <2>8. CASE Escalate(t)
    BY <2>1, <2>2, <2>8 DEF Escalate
  <2>9. CASE OnActorErrorStop(t) \/ OnActorErrorReinit(t)
    BY <2>1, <2>9 DEF OnActorErrorStop, OnActorErrorReinit, TaskDone
  <2>10. QED BY <1>3, <2>3, <2>4, <2>5, <2>6, <2>7, <2>8, <2>9 DEF PoolStep
<1>4. CASE UNCHANGED vars
  BY <1>4 DEF vars
<1>5. QED BY <1>1, <1>2, <1>3, <1>4 DEF Next, Dead

\* The try_pop of apply.
LEMMA PopTakes ==
  ASSUME TypeOK, NEW t \in Pool, ApplyPop(t)
  PROVE  /\ pc[t] = "pop" /\ self[t] \in Actors /\ mail[self[t]] # <<>>
         /\ Head(mail[self[t]]) \in Msgs /\ cur'[t] = Head(mail[self[t]])
         /\ mail' = [mail EXCEPT ![self[t]] = Tail(@)]
         /\ pc'[t] = "handle" /\ self' = self
         /\ \A s \in Pool \ {t} : pc'[s] = pc[s] /\ cur'[s] = cur[s]
<1>1. pc[t] = "pop" /\ self[t] \in Actors /\ mail[self[t]] # <<>>
  BY DEF ApplyPop, TypeOK
<1>2. mail[self[t]] \in Seq(Msgs)
  BY <1>1 DEF TypeOK
<1>3. Head(mail[self[t]]) \in Msgs
  BY <1>1, <1>2
<1>4. QED BY <1>1, <1>3 DEF ApplyPop, Goto, TypeOK, Threads

\* action_handle returns or throws.
LEMMA HandlerLeaves ==
  ASSUME TypeOK, NEW t \in Pool, ActionHandleDone(t) \/ ActionHandleThrow(t)
  PROVE  /\ pc[t] = "handle" /\ self[t] \in Actors /\ pc'[t] # "handle" /\ self' = self
         /\ \A s \in Pool \ {t} : pc'[s] = pc[s] /\ cur'[s] = cur[s]
         /\ UNCHANGED <<mail, mboxes, children>>
  BY DEF ActionHandleDone, ActionHandleThrow, Goto, TypeOK, Threads, regVars, mboxVars

\* A message is at hand from the try_pop to the end of action_handle.
LEMMA NextAtWork ==
  ASSUME TypeOK, AtWork, [Next]_vars
  PROVE  AtWork'
<1>1. ASSUME NEW t \in Pool, ApplyPop(t) PROVE AtWork'
  BY <1>1, PopTakes DEF AtWork
<1>2. ASSUME NEW t \in Pool, ActionHandleDone(t) \/ ActionHandleThrow(t) PROVE AtWork'
  BY <1>2, HandlerLeaves DEF AtWork
<1>3. ASSUME NEW t \in Pool, OffHandle(t) PROVE AtWork'
  BY <1>3 DEF AtWork, OffHandle
<1>4. CASE UNCHANGED <<pc, self, cur>>
  BY <1>4 DEF AtWork
<1>5. QED BY <1>1, <1>2, <1>3, <1>4, HandlerKinds

-----------------------------------------------------------------------------
(* The mapping *)

\* What an actor is handling, given that its action_handle runs on one thread at most.
LEMMA HandlingIs ==
  ASSUME NEW a \in Actors
  PROVE  /\ HandlingThread(a) = {} => Handling[a] = None
         /\ \A t : HandlingThread(a) = {t} => Handling[a] = cur[t]
<1>1. HandlingThread(a) = {} => Handling[a] = None
  BY DEF Handling
<1>2. ASSUME NEW t, HandlingThread(a) = {t} PROVE Handling[a] = cur[t]
  <2>1. (CHOOSE s \in HandlingThread(a) : TRUE) = t
    BY <1>2
  <2>2. QED BY <1>2, <2>1 DEF Handling
<1>3. QED BY <1>1, <1>2

\* The same in the next state.
LEMMA HandlingIsNext ==
  ASSUME NEW a \in Actors
  PROVE  /\ HandlingThread(a)' = {} => Handling'[a] = None
         /\ \A t : HandlingThread(a)' = {t} => Handling'[a] = cur'[t]
<1>1. HandlingThread(a)' = {} => Handling'[a] = None
  BY DEF Handling
<1>2. ASSUME NEW t, HandlingThread(a)' = {t} PROVE Handling'[a] = cur'[t]
  <2>1. (CHOOSE s \in HandlingThread(a)' : TRUE) = t
    BY <1>2
  <2>2. QED BY <1>2, <2>1 DEF Handling
<1>3. QED BY <1>1, <1>2

\* HandlerExclusion, in terms of the mapping.
LEMMA OneHandlingThread ==
  ASSUME TypeOK, BusyToken, NEW a \in Actors, NEW t \in Pool,
         pc[t] \in HoldsBusy, self[t] = a
  PROVE  HandlingThread(a) = IF pc[t] = "handle" THEN {t} ELSE {}
<1>1. ThreadHolds(a, t)
  BY DEF ThreadHolds
<1>2. ASSUME NEW s \in HandlingThread(a) PROVE s = t
  <2>1. s \in Pool /\ ThreadHolds(a, s)
    BY <1>2 DEF HandlingThread, ThreadHolds, HoldsBusy
  <2>2. QED BY <1>1, <2>1 DEF BusyToken
<1>3. QED BY <1>2 DEF HandlingThread

\* The thread that handles a message of a, if there is one.
LEMMA NoneOrOne ==
  ASSUME TypeOK, BusyToken, NEW a \in Actors
  PROVE  HandlingThread(a) = {} \/ \E t \in Pool : HandlingThread(a) = {t}
<1>1. ASSUME NEW t \in HandlingThread(a) PROVE t \in Pool /\ HandlingThread(a) = {t}
  <2>1. t \in Pool /\ pc[t] = "handle" /\ self[t] = a
    BY <1>1 DEF HandlingThread
  <2>2. QED BY <2>1, OneHandlingThread DEF HoldsBusy
<1>2. QED BY <1>1

\* A step after which the same threads handle the same messages.
LEMMA SameHandling ==
  ASSUME TypeOK, BusyToken, NEW a \in Actors, HandlingThread(a)' = HandlingThread(a),
         \A t \in HandlingThread(a) : cur'[t] = cur[t]
  PROVE  Handling'[a] = Handling[a]
<1>1. CASE HandlingThread(a) = {}
  BY <1>1, HandlingIs, HandlingIsNext
<1>2. ASSUME NEW t \in Pool, HandlingThread(a) = {t} PROVE Handling'[a] = Handling[a]
  BY <1>2, HandlingIs, HandlingIsNext
<1>3. QED BY <1>1, <1>2, NoneOrOne

\* The mapping is made of functions on Actors.
LEMMA HandlingFunction ==
  /\ Handling = [a \in Actors |-> Handling[a]]
  /\ Handling' = [a \in Actors |-> Handling'[a]]
  /\ Stages = [a \in Actors |-> Stage(a)]
  /\ Stages' = [a \in Actors |-> Stage(a)']
  BY DEF Handling, Stages

\* A step without action_handle leaves the mapping of the handlers alone.
LEMMA AllSameHandling ==
  ASSUME TypeOK, BusyToken, UNCHANGED <<pc, self, cur>> \/ \E t \in Pool : OffHandle(t)
  PROVE  Handling' = Handling
<1>1. ASSUME NEW a \in Actors PROVE Handling'[a] = Handling[a]
  <2>1. HandlingThread(a)' = HandlingThread(a)
    BY DEF HandlingThread, OffHandle
  <2>2. cur' = cur
    BY DEF OffHandle
  <2>3. QED BY <2>1, <2>2, SameHandling
<1>2. QED BY <1>1, HandlingFunction

\* So does one without the maps for the stages.
LEMMA SameStages ==
  ASSUME UNCHANGED <<mboxes, children>>
  PROVE  Stages' = Stages
  BY DEF Stages, Stage, Known

-----------------------------------------------------------------------------
(* Step simulation: one step of Context is one of SerialActors, or none *)

\* The push of send_envelope is a send: the mailbox it has found is still that of a
\* live actor, because _locker has been held shared since.
LEMMA PushSends ==
  ASSUME RInv, [Next]_vars, NEW t \in Threads, SendPush(t)
  PROVE  \E a \in Actors, m \in Msgs : Serial!ASend(a, m)
<1>0. TypeOK /\ BusyToken /\ Calls
  BY DEF RInv
<1>1. PICK a \in Actors : a = call[t].who
  BY <1>0 DEF SendPush, TypeOK
<1>2. PICK m \in Msgs : m = call[t].msg
  BY <1>0 DEF SendPush, TypeOK
<1>3. Stages[a] = "live"
  BY <1>0, <1>1 DEF SendPush, Calls, Stages, Stage
<1>4. mail' = [mail EXCEPT ![a] = Append(@, m)]
  BY <1>1, <1>2 DEF SendPush
<1>5. Stages' = Stages /\ Handling' = Handling
  BY <1>0, SameStages, AllSameHandling DEF SendPush, regVars, thVars
<1>6. Serial!ASend(a, m)
  BY <1>3, <1>4, <1>5 DEF Serial!ASend
<1>7. QED BY <1>6

\* The insertion of add_actor registers: the id was handed out to this call alone.
LEMMA InsertRegisters ==
  ASSUME RInv, NEW t \in Threads, AddActorInsert(t)
  PROVE  \E a \in Actors : Serial!ARegister(a)
<1>0. TypeOK /\ BusyToken /\ Calls /\ Issued
  BY DEF RInv
<1>1. PICK k \in Actors : /\ ~Known(k) /\ mboxes' = mboxes \cup {k}
                          /\ \A a \in Actors : Known(a)' <=> Known(a) \/ a = k
  BY <1>0, InsertKnown
<1>2. k \notin mboxes
  BY <1>0, <1>1 DEF Issued
<1>3. Stages[k] = "new"
  BY <1>1, <1>2 DEF Stages, Stage
<1>4. \A a \in Actors : Stage(a)' = IF a = k THEN "live" ELSE Stage(a)
  BY <1>1 DEF Stage
<1>5. Stages' = [Stages EXCEPT ![k] = "live"]
  BY <1>4, HandlingFunction DEF Stages
<1>6. mail' = mail /\ Handling' = Handling
  BY <1>0, AllSameHandling DEF AddActorInsert, mboxVars, thVars
<1>7. Serial!ARegister(k)
  BY <1>3, <1>5, <1>6 DEF Serial!ARegister
<1>8. QED BY <1>7

\* stop_actor_impl, by hand or in the reaction to a failure, stops a set of live actors.
LEMMA TakesOutStops ==
  ASSUME RInv, NEW D \in SUBSET actors, TakesOut(D),
         UNCHANGED <<pc, self, cur>> \/ \E t \in Pool : OffHandle(t)
  PROVE  \/ UNCHANGED Serial!avars
         \/ \E S \in SUBSET {a \in Actors : Stages[a] = "live"} : Serial!AStop(S)
<1>0. TypeOK /\ BusyToken /\ RegistryMirror /\ Issued
  BY DEF RInv
<1>1. mail' = mail /\ Handling' = Handling
  BY <1>0, AllSameHandling DEF TakesOut
<1>2. D \subseteq mboxes /\ D \subseteq Actors
  BY <1>0 DEF RegistryMirror, TypeOK
<1>3. \A a \in Actors : Stage(a)' = IF a \in D THEN "stopped" ELSE Stage(a)
  <2>1. mboxes' = mboxes \ D /\ children' = children
    BY DEF TakesOut
  <2>2. \A a \in Actors : Known(a)' <=> Known(a)
    BY <2>1, KnownSame
  <2>3. \A a \in D : Known(a)
    BY <1>0, <1>2 DEF Issued
  <2>4. QED BY <1>2, <2>1, <2>2, <2>3 DEF Stage
<1>4. Stages' = [a \in Actors |-> IF a \in D THEN "stopped" ELSE Stages[a]]
  BY <1>3, HandlingFunction DEF Stages
<1>5. CASE D = {}
  <2>1. Stages' = Stages
    BY <1>4, <1>5, HandlingFunction DEF Stages
  <2>2. QED BY <1>1, <2>1 DEF Serial!avars
<1>6. CASE D # {}
  <2>1. Serial!AStop(D)
    BY <1>1, <1>4, <1>6 DEF Serial!AStop
  <2>2. D \in SUBSET {a \in Actors : Stages[a] = "live"}
    BY <1>2 DEF Stages, Stage
  <2>3. QED BY <2>1, <2>2
<1>7. QED BY <1>5, <1>6

\* A successful try_pop begins the oldest message: no other thread is in action_handle
\* of the actor, because busy is a token.
LEMMA PopBegins ==
  ASSUME RInv, NEW t \in Pool, ApplyPop(t)
  PROVE  \E a \in Actors : Serial!ABegin(a)
<1>0. TypeOK /\ BusyToken
  BY DEF RInv
<1>1. PICK a \in Actors : a = self[t]
  BY <1>0, PopTakes
<1>2. /\ pc[t] = "pop" /\ mail[a] # <<>> /\ cur'[t] = Head(mail[a])
      /\ mail' = [mail EXCEPT ![a] = Tail(@)]
      /\ pc'[t] = "handle" /\ self' = self
      /\ \A s \in Pool \ {t} : pc'[s] = pc[s] /\ cur'[s] = cur[s]
  BY <1>0, <1>1, PopTakes
<1>3. HandlingThread(a) = {}
  BY <1>0, <1>1, <1>2, OneHandlingThread DEF HoldsBusy
<1>4. HandlingThread(a)' = {t}
  BY <1>1, <1>2, <1>3 DEF HandlingThread
<1>5. Handling[a] = None /\ Handling'[a] = Head(mail[a])
  BY <1>2, <1>3, <1>4, HandlingIs, HandlingIsNext
<1>6. ASSUME NEW b \in Actors, b # a PROVE Handling'[b] = Handling[b]
  <2>1. HandlingThread(b)' = HandlingThread(b) /\ t \notin HandlingThread(b)
    BY <1>1, <1>2, <1>6 DEF HandlingThread
  <2>2. \A s \in HandlingThread(b) : cur'[s] = cur[s]
    BY <1>2, <2>1 DEF HandlingThread
  <2>3. QED BY <1>0, <2>1, <2>2, SameHandling
<1>7. Handling' = [Handling EXCEPT ![a] = Head(mail[a])]
  BY <1>5, <1>6, HandlingFunction
<1>8. Stages' = Stages
  BY SameStages DEF ApplyPop, regVars
<1>9. Serial!ABegin(a)
  BY <1>2, <1>5, <1>7, <1>8 DEF Serial!ABegin
<1>10. QED BY <1>9

\* The end of action_handle, by return or by exception, ends the message.
LEMMA LeavingEnds ==
  ASSUME RInv, NEW t \in Pool, ActionHandleDone(t) \/ ActionHandleThrow(t)
  PROVE  \E a \in Actors : Serial!AEnd(a)
<1>0. TypeOK /\ BusyToken /\ AtWork
  BY DEF RInv
<1>1. PICK a \in Actors : a = self[t]
  BY <1>0, HandlerLeaves
<1>2. /\ pc[t] = "handle" /\ pc'[t] # "handle" /\ self' = self
      /\ \A s \in Pool \ {t} : pc'[s] = pc[s] /\ cur'[s] = cur[s]
      /\ UNCHANGED <<mail, mboxes, children>>
  BY <1>0, HandlerLeaves
<1>3. HandlingThread(a) = {t}
  BY <1>0, <1>1, <1>2, OneHandlingThread DEF HoldsBusy
<1>4. HandlingThread(a)' = {}
  BY <1>1, <1>2, <1>3 DEF HandlingThread
<1>5. Handling[a] # None /\ Handling'[a] = None
  <2>1. cur[t] \in Msgs
    BY <1>0, <1>2 DEF AtWork
  <2>2. None \notin Msgs
    BY ContextAssumption DEF Msgs
  <2>3. QED BY <1>3, <1>4, <2>1, <2>2, HandlingIs, HandlingIsNext
<1>6. ASSUME NEW b \in Actors, b # a PROVE Handling'[b] = Handling[b]
  <2>1. HandlingThread(b)' = HandlingThread(b) /\ t \notin HandlingThread(b)
    BY <1>1, <1>2, <1>6 DEF HandlingThread
  <2>2. \A s \in HandlingThread(b) : cur'[s] = cur[s]
    BY <1>2, <2>1 DEF HandlingThread
  <2>3. QED BY <1>0, <2>1, <2>2, SameHandling
<1>7. Handling' = [Handling EXCEPT ![a] = None]
  BY <1>5, <1>6, HandlingFunction
<1>8. Stages' = Stages
  BY <1>2, SameStages
<1>9. Serial!AEnd(a)
  BY <1>2, <1>5, <1>7, <1>8 DEF Serial!AEnd
<1>10. QED BY <1>9

\* Every other step changes nothing that SerialActors sees.
LEMMA OthersStutter ==
  ASSUME RInv, UNCHANGED <<mail, mboxes, children>>,
         UNCHANGED <<pc, self, cur>> \/ \E t \in Pool : OffHandle(t)
  PROVE  UNCHANGED Serial!avars
<1>1. Handling' = Handling /\ Stages' = Stages
  BY AllSameHandling, SameStages DEF RInv
<1>2. QED BY <1>1 DEF Serial!avars

\* The steps that change a mailbox or a map.
LEMMA SeenKinds ==
  ASSUME RInv, [Next]_vars
  PROVE  \/ \E t \in Threads : SendPush(t) \/ AddActorInsert(t)
         \/ \E t \in Pool : ApplyPop(t)
         \/ \E D \in SUBSET actors : TakesOut(D)
         \/ UNCHANGED <<mail, mboxes, children>>
<1> USE DEF regVars, mboxVars
<1>1. ASSUME NEW t \in Threads, CallBegin(t)
      PROVE  UNCHANGED <<mail, mboxes, children>> \/ \E D \in SUBSET actors : TakesOut(D)
  <2>1. ASSUME NEW a \in Stoppable, StopActor(t, a) PROVE \E D \in SUBSET actors : TakesOut(D)
    BY <2>1, StopTakesOut DEF StopActor
  <2>2. QED BY <1>1, <2>1 DEF CallBegin, SendFind, AddActorRead
<1>2. ASSUME NEW t \in Threads, CallStep(t)
      PROVE  UNCHANGED <<mail, mboxes, children>> \/ SendPush(t) \/ AddActorInsert(t)
  BY <1>2 DEF CallStep, AddActorPost
<1>3. ASSUME WorkerStep PROVE UNCHANGED <<mail, mboxes, children>>
  BY <1>3 DEF WorkerStep, MailboxWorkerBegin, MailboxWorkerLook, MailboxWorkerTryLock,
     MailboxWorkerPost, MailboxWorkerEnd, RInv, RegistryMirror
<1>4. ASSUME NEW t \in Pool, PoolStep(t)
      PROVE  \/ UNCHANGED <<mail, mboxes, children>> \/ ApplyPop(t)
             \/ \E D \in SUBSET actors : TakesOut(D)
  <2>1. ASSUME OnActorErrorStop(t) \/ OnActorErrorReinit(t)
        PROVE  \E D \in SUBSET actors : TakesOut(D)
    BY <2>1, StopTakesOut DEF OnActorErrorStop, OnActorErrorReinit
  <2>2. ASSUME PoolTake(t) \/ OnStartDone(t) \/ ApplyEnter(t) \/ ApplyDrained(t)
                 \/ ActionHandleDone(t) \/ ActionHandleThrow(t) \/ ApplyStatus(t)
                 \/ ApplyReset(t) \/ OnChildStatus(t) \/ OnChildError(t) \/ Escalate(t)
                 \/ OnActorErrorResume(t)
        PROVE  UNCHANGED <<mail, mboxes, children>>
    BY <2>2 DEF PoolTake, OnStartDone, ApplyEnter, ApplyDrained, ActionHandleDone,
       ActionHandleThrow, ApplyStatus, ApplyReset, OnChildStatus, OnChildError, Escalate,
       OnActorErrorResume
  <2>3. QED BY <1>4, <2>1, <2>2 DEF PoolStep
<1>5. CASE UNCHANGED vars
  BY <1>5 DEF vars
<1>6. QED BY <1>1, <1>2, <1>3, <1>4, <1>5 DEF Next, Dead

\* Every step of the context is a step of SerialActors or none.
LEMMA StepSimulation ==
  ASSUME RInv, [Next]_vars
  PROVE  [Serial!ANext]_(Serial!avars)
<1> USE DEF Serial!ANext
<1>0. TypeOK
  BY DEF RInv
<1>1. ASSUME NEW t \in Threads, SendPush(t) \/ AddActorInsert(t) PROVE Serial!ANext
  BY <1>1, PushSends, InsertRegisters
<1>2. ASSUME NEW t \in Pool, ApplyPop(t) \/ ActionHandleDone(t) \/ ActionHandleThrow(t)
      PROVE  Serial!ANext
  BY <1>2, PopBegins, LeavingEnds
<1>3. ASSUME NEW D \in SUBSET actors, TakesOut(D) PROVE [Serial!ANext]_(Serial!avars)
  <2>1. CASE UNCHANGED <<pc, self, cur>> \/ \E t \in Pool : OffHandle(t)
    BY <1>3, <2>1, TakesOutStops
  <2>2. QED BY <1>0, <1>2, <2>1, HandlerKinds
<1>4. ASSUME UNCHANGED <<mail, mboxes, children>> PROVE [Serial!ANext]_(Serial!avars)
  <2>1. CASE UNCHANGED <<pc, self, cur>> \/ \E t \in Pool : OffHandle(t)
    BY <1>4, <2>1, OthersStutter
  <2>2. QED BY <1>0, <1>2, <2>1, HandlerKinds
<1> HIDE DEF Serial!ANext
<1>5. QED BY <1>1, <1>2, <1>3, <1>4, SeenKinds

\* No actor but the built-in ones is known at first, and nobody handles anything.
LEMMA InitSimulation == Init => Serial!AInit
<1> SUFFICES ASSUME Init PROVE Serial!AInit
  OBVIOUS
<1>1. ASSUME NEW a \in Actors PROVE Stage(a) \in {"new", "live"}
  <2>1. CASE a \in Builtin
    BY <2>1 DEF Init, Stage
  <2>2. CASE a \notin Builtin
    <3>1. Dad[a] \in Actors /\ a # Root /\ a # Usr
      BY <2>2, ContextAssumption DEF Builtin
    <3>2. a \notin children[Dad[a]]
      BY <3>1 DEF Init
    <3>3. QED BY <3>1, <3>2 DEF Stage, Known
  <2>3. QED BY <2>1, <2>2
<1>2. Stages \in [Actors -> {"new", "live"}]
  BY <1>1 DEF Stages
<1>3. \A a \in Actors : HandlingThread(a) = {}
  BY ContextAssumption DEF Init, HandlingThread, Threads
<1>4. Handling = [a \in Actors |-> None]
  BY <1>3, HandlingFunction, HandlingIs
<1>5. mail = [a \in Actors |-> <<>>]
  BY DEF Init
<1>6. QED BY <1>2, <1>4, <1>5 DEF Serial!AInit

\* The invariant holds at first, ...
LEMMA InitRInv == Init => RInv
<1> SUFFICES ASSUME Init PROVE RInv
  OBVIOUS
<1>1. TypeOK /\ BusyToken
  BY InitTypeOK, InitBusyToken
<1>2. RegistryMirror /\ ScanUnderLock
  BY DEF Init, RegistryMirror, ScanUnderLock, Scan
<1>3. Calls
  BY DEF Init, Calls, NoCall, Call
<1>4. Issued
  <2>1. ASSUME NEW a \in Actors, Known(a) PROVE a \in Builtin
    <3>1. a = Root \/ (a # Root /\ a \in children[Dad[a]] /\ Dad[a] \in Actors)
      BY <2>1, ContextAssumption DEF Known
    <3>2. QED BY <3>1 DEF Init, Builtin
  <2>2. ASSUME NEW a \in Builtin PROVE Known(a)
    BY <2>2, ContextAssumption DEF Init, Known, Builtin
  <2>3. QED BY <2>1, <2>2 DEF Init, Issued
<1>5. AtWork
  BY ContextAssumption DEF Init, AtWork, Threads
<1>6. QED BY <1>1, <1>2, <1>3, <1>4, <1>5 DEF RInv

\* ... and every step keeps it.
LEMMA NextRInv == RInv /\ [Next]_vars => RInv'
<1> SUFFICES ASSUME RInv, [Next]_vars PROVE RInv'
  OBVIOUS
<1>1. TypeOK /\ BusyToken /\ RegistryMirror /\ ScanUnderLock /\ Calls /\ Issued /\ AtWork
  BY DEF RInv
<1>2. TypeOK' /\ BusyToken' /\ RegistryMirror' /\ ScanUnderLock'
  BY <1>1, NextTypeOK, NextBusyToken, NextRegistry
<1>3. Calls' /\ Issued' /\ AtWork'
  BY <1>1, NextCalls, NextIssued, NextAtWork
<1>4. QED BY <1>2, <1>3 DEF RInv

\* It holds in every reachable state.
LEMMA RInvariant == Spec => []RInv
  BY InitRInv, NextRInv, PTL DEF Spec

\* The context keeps the promise of SerialActors: messages are handled one at a time, in
\* the order of arrival, each once, and a stopped actor gets no new ones, through all
\* interleavings of senders, mailbox_worker, pool threads, stops and failures
\* (context.cpp:284-334, 434-636, actor.cpp:34-67).
THEOREM Implements == Spec => ImplementsSerialActors
<1>1. Init => Serial!AInit
  BY InitSimulation
<1>2. RInv /\ [Next]_vars => [Serial!ANext]_(Serial!avars)
  BY StepSimulation
<1>3. QED BY <1>1, <1>2, RInvariant, PTL DEF Spec, ImplementsSerialActors, Serial!ASpec

-----------------------------------------------------------------------------
(* Lookups of parents *)

Leaf(a) == \A k \in Actors : Dad[k] # a

\* No actor with children is stopped: stop_actor is called for leaves alone, and below
\* the actors that may decide STOP or REINIT there are only leaves.
OnlyLeavesStop ==
    /\ \A a \in Stoppable : Leaf(a)
    /\ \/ Decisions \cap {"STOP", "REINIT"} = {}
       \/ \A a \in Actors : (Dad[a] \in Actors /\ Dad[a] \notin Builtin) => Leaf(a)

\* The actors that have ever been in the maps.
Folk == {a \in Actors : Known(a)}

\* An actor comes after its parent, and a parent stays.
Family ==
    /\ \A a, k \in Actors : k \in children[a] => Dad[k] = a
    /\ \A a \in Folk \ {Root} : Dad[a] \in Folk
    /\ \A a \in Folk : ~Leaf(a) => a \in actors

\* Whoever somebody is at work for has been in the maps.
Addressed ==
    /\ \A t \in Threads : /\ call[t].op = "insert" => Dad[call[t].who] \in Folk
                          /\ call[t].op = "post" => call[t].who \in Folk
    /\ \A i \in DOMAIN userq : userq[i].who \in Folk
    /\ \A t \in Pool : pc[t] # "idle" => self[t] \in Folk
    /\ wk.pc \in {"lock", "post"} => wk.at \in Folk

\* Supervision: no built-in actor fails, no escalation passes one, and who is going to be
\* stopped is a leaf.
Failing == {"error", "reset_err", "caught", "escalate", "react"}
SupervisedAt(t) ==
    /\ pc[t] \in Failing => self[t] \notin Builtin
    /\ pc[t] = "escalate" => /\ asking[t] \in Folk \ Builtin
                             /\ Dad[self[t]] \notin Builtin
    /\ (pc[t] = "react" /\ answer[t] \in {"STOP", "REINIT"}) => Leaf(self[t])
Supervised == \A t \in Pool : SupervisedAt(t)

CInv == RInv /\ Family /\ Addressed /\ Supervised /\ NeverCrashes

\* The maps hold known actors; the root is one, and the others have a parent.
LEMMA FolkFacts ==
  ASSUME TypeOK, Issued, RegistryMirror
  PROVE  /\ actors \subseteq Folk /\ mboxes \subseteq Folk /\ Folk \subseteq Actors
         /\ Root \in Folk /\ \A a \in Actors \ {Root} : Dad[a] \in Actors
  BY ContextAssumption DEF TypeOK, Issued, RegistryMirror, Folk, Known

\* Only add_actor changes who is known.
LEMMA FolkGrows ==
  ASSUME RInv, [Next]_vars
  PROVE  /\ Folk \subseteq Folk'
         /\ children' = children => Folk' = Folk
         /\ children' = children \/ \E t \in Threads : AddActorInsert(t)
<1>0. TypeOK /\ RegistryMirror /\ ScanUnderLock /\ Calls
  BY DEF RInv
<1>1. children' = children => Folk' = Folk
  BY KnownSame DEF Folk
<1>2. ASSUME NEW t \in Threads, AddActorInsert(t) PROVE Folk \subseteq Folk'
  BY <1>0, <1>2, InsertKnown DEF Folk
<1>3. ASSUME NEW t \in Threads, NEW a \in Targets, SendFind(t, a) PROVE children' = children
  BY <1>3 DEF SendFind, regVars
<1>4. ASSUME NEW t \in Threads, NEW k \in Actors, AddActorRead(t, k) PROVE children' = children
  BY <1>4 DEF AddActorRead
<1>5. ASSUME NEW t \in Threads, SendPush(t) \/ AddActorPost(t) PROVE children' = children
  BY <1>5 DEF SendPush, AddActorPost, regVars
<1>6. children' = children \/ \E t \in Threads : AddActorInsert(t)
  BY <1>0, <1>3, <1>4, <1>5, StepKinds DEF Local, TakesOut
<1>7. QED BY <1>1, <1>2, <1>6

\* stop_actor_impl of a leaf reaches the leaf alone.
LEMMA LeafAlone ==
  ASSUME TypeOK, Family, NEW a \in Actors, Leaf(a), StopActorImpl(a)
  PROVE  actors \ {a} \subseteq actors'
<1>1. children[a] = {}
  BY DEF Family, Leaf, TypeOK
<1>2. ASSUME a \in actors PROVE Subtree(a) \subseteq {a}
  <2>1. {a} \in SUBSET actors /\ \A y \in {a} : children[y] \cap actors \subseteq {a}
    BY <1>1, <1>2
  <2>2. QED BY <2>1 DEF Subtree
<1>3. QED BY <1>2 DEF StopActorImpl

\* An actor with children is not taken out of the maps.
LEMMA ParentsStay ==
  ASSUME OnlyLeavesStop, CInv, [Next]_vars, NEW a \in actors, ~Leaf(a)
  PROVE  a \in actors'
<1>0. TypeOK /\ Family /\ Supervised /\ RegistryMirror /\ ScanUnderLock
  BY DEF CInv, RInv
<1> USE DEF regVars
<1>1. ASSUME NEW x \in Actors, Leaf(x), StopActorImpl(x) PROVE a \in actors'
  BY <1>0, <1>1, LeafAlone
<1>2. ASSUME NEW t \in Threads, CallBegin(t) PROVE a \in actors'
  <2>1. ASSUME NEW x \in Stoppable, StopActor(t, x) PROVE a \in actors'
    BY <1>1, <2>1, ContextAssumption DEF StopActor, OnlyLeavesStop
  <2>2. QED BY <1>2, <2>1 DEF CallBegin, SendFind, AddActorRead
<1>3. ASSUME NEW t \in Threads, CallStep(t) PROVE a \in actors'
  BY <1>3 DEF CallStep, SendPush, AddActorInsert, AddActorPost
<1>4. ASSUME WorkerStep PROVE a \in actors'
  BY <1>4 DEF WorkerStep, MailboxWorkerBegin, MailboxWorkerLook, MailboxWorkerTryLock,
     MailboxWorkerPost, MailboxWorkerEnd
<1>5. ASSUME NEW t \in Pool, PoolStep(t) PROVE a \in actors'
  <2>1. ASSUME OnActorErrorStop(t) \/ OnActorErrorReinit(t) PROVE a \in actors'
    <3>1. self[t] \in Actors /\ Leaf(self[t]) /\ StopActorImpl(self[t])
      BY <1>0, <2>1 DEF OnActorErrorStop, OnActorErrorReinit, Supervised, SupervisedAt,
         TypeOK
    <3>2. QED BY <1>1, <3>1
  <2>2. ASSUME PoolTake(t) \/ OnStartDone(t) \/ ApplyEnter(t) \/ ApplyPop(t) \/ ApplyDrained(t)
                 \/ ActionHandleDone(t) \/ ActionHandleThrow(t) \/ ApplyStatus(t)
                 \/ ApplyReset(t) \/ OnChildStatus(t) \/ OnChildError(t) \/ Escalate(t)
                 \/ OnActorErrorResume(t)
        PROVE  a \in actors'
    BY <2>2 DEF PoolTake, OnStartDone, ApplyEnter, ApplyPop, ApplyDrained,
       ActionHandleDone,
       ActionHandleThrow, ApplyStatus, ApplyReset, OnChildStatus, OnChildError, Escalate,
       OnActorErrorResume
  <2>3. QED BY <1>5, <2>1, <2>2 DEF PoolStep
<1>6. CASE UNCHANGED vars
  BY <1>6 DEF vars
<1>7. QED BY <1>2, <1>3, <1>4, <1>5, <1>6 DEF Next, Dead

\* add_actor puts a child below a known parent.
LEMMA NextFamily ==
  ASSUME OnlyLeavesStop, CInv, [Next]_vars
  PROVE  Family'
<1>0. TypeOK /\ RegistryMirror /\ Calls /\ Issued /\ Family /\ Addressed /\ RInv
  BY DEF CInv, RInv
<1>1. CASE children' = children
  <2>1. Folk' = Folk
    BY <1>0, <1>1, FolkGrows
  <2>2. QED BY <1>0, <1>1, <2>1, ParentsStay DEF Family
<1>2. ASSUME NEW t \in Threads, AddActorInsert(t) PROVE Family'
  <2>1. PICK k \in Actors :
            /\ k = call[t].who /\ k # Root /\ actors' = actors \cup {k}
            /\ \A a \in Actors : Known(a)' <=> Known(a) \/ a = k
            /\ \A a \in Actors : children'[a] = children[a] \cup (IF a = Dad[k] THEN {k} ELSE {})
    BY <1>0, <1>2, InsertKnown
  <2>2. Folk' = Folk \cup {k}
    BY <2>1 DEF Folk
  <2>3. Dad[k] \in Folk
    BY <1>0, <1>2, <2>1 DEF Addressed, AddActorInsert
  <2>4. \A a, c \in Actors : c \in children'[a] => Dad[c] = a
    BY <1>0, <2>1 DEF Family
  <2>5. \A a \in Folk' \ {Root} : Dad[a] \in Folk'
    BY <1>0, <2>2, <2>3 DEF Family
  <2>6. \A a \in Folk' : ~Leaf(a) => a \in actors'
    BY <1>0, <2>1, <2>2 DEF Family
  <2>7. QED BY <2>4, <2>5, <2>6 DEF Family
<1>3. QED BY <1>0, <1>1, <1>2, FolkGrows

\* The ids that travel through calls, tasks and threads are those of known actors.
LEMMA NextAddressed ==
  ASSUME CInv, [Next]_vars
  PROVE  Addressed'
<1>0. /\ TypeOK /\ RegistryMirror /\ ScanUnderLock /\ Calls /\ Issued /\ Addressed /\ RInv
      /\ Folk \subseteq Folk' /\ mboxes \subseteq Folk
  BY FolkGrows, FolkFacts DEF CInv, RInv
<1> DEFINE C(t) == /\ call'[t].op = "insert" => Dad[call'[t].who] \in Folk'
                   /\ call'[t].op = "post" => call'[t].who \in Folk'
           Q == \A i \in DOMAIN userq' : userq'[i].who \in Folk'
           S == \A t \in Pool : pc'[t] # "idle" => self'[t] \in Folk'
           W == wk'.pc \in {"lock", "post"} => wk'.at \in Folk'
<1> SUFFICES (\A t \in Threads : C(t)) /\ Q /\ S /\ W
  BY DEF Addressed
<1>1. ASSUME call' = call PROVE \A t \in Threads : C(t)
  BY <1>0, <1>1 DEF Addressed
<1>2. ASSUME userq' = userq PROVE Q
  BY <1>0, <1>2 DEF Addressed
<1>3. ASSUME UNCHANGED <<pc, self>> PROVE S
  BY <1>0, <1>3 DEF Addressed
<1>4. ASSUME wk' = wk PROVE W
  BY <1>0, <1>4 DEF Addressed
<1>5. ASSUME NEW t \in Threads, NEW c, call' = [call EXCEPT ![t] = c],
             c.op = "insert" => Dad[c.who] \in Folk', c.op = "post" => c.who \in Folk'
      PROVE  \A s \in Threads : C(s)
  <2>1. call'[t] = c /\ \A s \in Threads \ {t} : call'[s] = call[s]
    BY <1>0, <1>5 DEF TypeOK
  <2>2. QED BY <1>0, <1>5, <2>1 DEF Addressed
<1>6. ASSUME NEW k \in Tasks, userq' = Append(userq, k), k.who \in Folk PROVE Q
  <2>1. userq \in Seq(Tasks)
    BY <1>0 DEF TypeOK
  <2>2. \A i \in DOMAIN userq' : userq'[i] = k \/ (i \in DOMAIN userq /\ userq'[i] = userq[i])
    BY <1>6, <2>1
  <2>3. QED BY <1>0, <1>6, <2>2 DEF Addressed
<1>7. ASSUME NEW t \in Pool, NEW l, Goto(t, l), self' = self, pc[t] # "idle" PROVE S
  BY <1>0, <1>7 DEF Addressed, Goto, TypeOK, Threads
<1>8. ASSUME NEW t \in Pool, TaskDone(t) PROVE S
  BY <1>0, <1>8 DEF Addressed, Goto, TaskDone, TypeOK, Threads
<1> HIDE DEF C, Q, S, W
<1> USE DEF regVars, mboxVars, actVars, thVars
<1>9. ASSUME NEW t \in Threads, CallBegin(t) PROVE (\A s \in Threads : C(s)) /\ Q /\ S /\ W
  <2>1. ASSUME NEW a \in Targets, SendFind(t, a) PROVE \A s \in Threads : C(s)
    BY <1>5, <2>1 DEF SendFind, Call
  <2>2. ASSUME NEW k \in Actors, AddActorRead(t, k) PROVE \A s \in Threads : C(s)
    <3>1. Dad[k] \in Folk
      <4>1. k # Root
        BY <1>0, <2>2 DEF AddActorRead, Issued, Known
      <4>2. QED BY <2>2, <4>1, ContextAssumption DEF AddActorRead, Folk
    <3>2. CASE call' = [call EXCEPT ![t] = Call("insert", k, None)]
      <4>1. Call("insert", k, None).op = "insert" /\ Call("insert", k, None).who = k
        BY DEF Call
      <4>2. QED BY <1>0, <1>5, <3>1, <3>2, <4>1
    <3>3. QED BY <1>1, <2>2, <3>2 DEF AddActorRead
  <2>3. ASSUME NEW a \in Stoppable, StopActor(t, a) PROVE \A s \in Threads : C(s)
    BY <1>1, <2>3 DEF StopActor
  <2>4. UNCHANGED <<userq, pc, self, wk>>
    BY <1>9 DEF CallBegin, SendFind, AddActorRead, StopActor
  <2>5. QED BY <1>2, <1>3, <1>4, <1>9, <2>1, <2>2, <2>3, <2>4 DEF CallBegin
<1>10. ASSUME NEW t \in Threads, CallStep(t) PROVE (\A s \in Threads : C(s)) /\ Q /\ S /\ W
  <2>0. UNCHANGED <<pc, self, wk>>
    BY <1>10 DEF CallStep, SendPush, AddActorInsert, AddActorPost
  <2>1. CASE SendPush(t)
    BY <1>2, <1>3, <1>4, <1>5, <2>0, <2>1 DEF SendPush, NoCall, Call
  <2>2. CASE AddActorInsert(t)
    <3>1. call[t].who \in Folk'
      <4>1. PICK k \in Actors : k = call[t].who /\ Known(k)'
        BY <1>0, <2>2, InsertKnown
      <4>2. QED BY <4>1 DEF Folk
    <3>2. /\ Call("post", call[t].who, None).op = "post"
          /\ Call("post", call[t].who, None).who = call[t].who
      BY DEF Call
    <3>3. QED BY <1>2, <1>3, <1>4, <1>5, <2>0, <2>2, <3>1, <3>2 DEF AddActorInsert
  <2>3. CASE AddActorPost(t)
    <3>1. call[t].who \in Folk /\ call[t].who \in Actors
      BY <1>0, <2>3 DEF AddActorPost, Addressed, Folk
    <3>2. StartTask(call[t].who) \in Tasks /\ StartTask(call[t].who).who = call[t].who
      BY <3>1 DEF StartTask, Tasks
    <3>3. Q
      BY <1>6, <2>3, <3>1, <3>2 DEF AddActorPost
    <3>4. \A s \in Threads : C(s)
      BY <1>5, <2>3 DEF AddActorPost, NoCall, Call
    <3>5. QED BY <1>3, <1>4, <2>0, <3>3, <3>4
  <2>4. QED BY <1>10, <2>1, <2>2, <2>3 DEF CallStep
<1>11. ASSUME WorkerStep PROVE (\A s \in Threads : C(s)) /\ Q /\ S /\ W
  <2>0. UNCHANGED <<call, pc, self>>
    BY <1>11 DEF WorkerStep, MailboxWorkerBegin, MailboxWorkerLook, MailboxWorkerTryLock,
       MailboxWorkerPost, MailboxWorkerEnd
  <2>1. CASE MailboxWorkerBegin \/ MailboxWorkerEnd
    BY <1>1, <1>2, <1>3, <2>0, <2>1 DEF MailboxWorkerBegin, MailboxWorkerEnd, Scan, W
  <2>2. ASSUME NEW a \in Actors, MailboxWorkerLook(a) PROVE Q /\ W
    <3>1. a \in Folk'
      BY <1>0, <2>2 DEF MailboxWorkerLook, ScanUnderLock
    <3>2. QED BY <1>2, <2>2, <3>1 DEF MailboxWorkerLook, Scan, W
  <2>3. CASE MailboxWorkerTryLock
    BY <1>0, <1>1, <1>2, <1>3, <2>0, <2>3 DEF MailboxWorkerTryLock, Scan, W, Addressed
  <2>4. CASE MailboxWorkerPost
    <3>1. wk.at \in Folk /\ wk.at \in Actors
      BY <1>0, <2>4 DEF MailboxWorkerPost, Addressed, Folk
    <3>2. ApplyTask(wk.at) \in Tasks /\ ApplyTask(wk.at).who = wk.at
      BY <3>1 DEF ApplyTask, Tasks
    <3>3. Q
      BY <1>2, <1>6, <2>4, <3>1, <3>2 DEF MailboxWorkerPost
    <3>4. W
      <4>1. CASE wk' = wk
        BY <1>4, <4>1
      <4>2. CASE wk' = Scan("scan", wk.left, None, wk.rm)
        BY <4>2 DEF Scan, W
      <4>3. QED BY <2>4, <4>1, <4>2 DEF MailboxWorkerPost
    <3>5. QED BY <1>1, <1>3, <2>0, <3>3, <3>4
  <2>5. QED BY <1>1, <1>3, <1>11, <2>0, <2>1, <2>2, <2>3, <2>4 DEF WorkerStep
<1>12. ASSUME NEW t \in Pool, PoolStep(t) PROVE (\A s \in Threads : C(s)) /\ Q /\ S /\ W
  <2>0. UNCHANGED <<call, wk>>
    BY <1>12 DEF PoolStep, PoolTake, OnStartDone, ApplyEnter, ApplyPop, ApplyDrained,
       ActionHandleDone, ActionHandleThrow, ApplyStatus, ApplyReset, OnChildStatus,
       OnChildError, Escalate, OnActorErrorResume, OnActorErrorStop, OnActorErrorReinit
  <2>1. CASE PoolTake(t)
    <3>1. userq \in Seq(Tasks) /\ userq # <<>>
      BY <1>0, <2>1 DEF PoolTake, TypeOK
    <3>2. /\ Head(userq).who \in Folk
          /\ \A i \in DOMAIN Tail(userq) : Tail(userq)[i] = userq[i + 1] /\ i + 1 \in DOMAIN userq
      BY <1>0, <3>1 DEF Addressed
    <3>3. Q
      BY <1>0, <2>1, <3>2 DEF PoolTake, Addressed, Q
    <3>4. S
      <4>1. /\ self' = [self EXCEPT ![t] = Head(userq).who]
            /\ \A s \in Pool \ {t} : pc'[s] = pc[s]
        BY <1>0, <2>1 DEF PoolTake, Goto, TypeOK, Threads
      <4>2. /\ self'[t] = Head(userq).who /\ \A s \in Pool \ {t} : self'[s] = self[s]
        BY <1>0, <4>1 DEF TypeOK, Threads
      <4>3. QED BY <1>0, <3>2, <4>1, <4>2 DEF S, Addressed
    <3>5. QED BY <1>1, <1>4, <2>0, <3>3, <3>4
  <2>2. CASE OnStartDone(t) \/ OnChildStatus(t) \/ OnActorErrorResume(t) \/ OnActorErrorStop(t)
    BY <1>1, <1>2, <1>4, <1>8, <2>0, <2>2 DEF OnStartDone, OnChildStatus,
       OnActorErrorResume,
       OnActorErrorStop
  <2>3. CASE ApplyEnter(t) \/ ApplyPop(t) \/ ApplyDrained(t) \/ ActionHandleDone(t)
    BY <1>1, <1>2, <1>4, <1>7, <2>0, <2>3 DEF ApplyEnter, ApplyPop, ApplyDrained,
       ActionHandleDone
  <2>4. CASE ActionHandleThrow(t) \/ ApplyStatus(t) \/ ApplyReset(t) \/ OnActorErrorReinit(t)
    BY <1>1, <1>2, <1>4, <1>7, <2>0, <2>4 DEF ActionHandleThrow, ApplyStatus, ApplyReset,
       OnActorErrorReinit
  <2>5. CASE OnChildError(t)
    BY <1>1, <1>2, <1>4, <1>7, <2>0, <2>5 DEF OnChildError
  <2>6. CASE Escalate(t)
    BY <1>1, <1>2, <1>3, <1>4, <1>7, <2>0, <2>6 DEF Escalate
  <2>7. QED BY <1>12, <2>1, <2>2, <2>3, <2>4, <2>5, <2>6 DEF PoolStep
<1>13. ASSUME UNCHANGED vars PROVE (\A s \in Threads : C(s)) /\ Q /\ S /\ W
  BY <1>1, <1>2, <1>3, <1>4, <1>13 DEF vars
<1>14. QED BY <1>9, <1>10, <1>11, <1>12, <1>13 DEF Next, Dead

\* A built-in actor never fails and answers RESUME to whoever asks it: the escalation
\* ends at "/root/usr" at the latest, and what is stopped in the end is a leaf.
LEMMA NextSupervised ==
  ASSUME OnlyLeavesStop, CInv, [Next]_vars
  PROVE  Supervised'
<1>0. TypeOK /\ Supervised /\ Addressed /\ Folk \subseteq Folk' /\ Folk \subseteq Actors
  BY FolkGrows, FolkFacts DEF CInv, RInv
<1>1. ASSUME NEW t \in Pool, pc'[t] = pc[t], self'[t] = self[t], asking'[t] = asking[t],
             answer'[t] = answer[t]
      PROVE  SupervisedAt(t)'
  BY <1>0, <1>1 DEF Supervised, SupervisedAt
<1>2. ASSUME NEW t \in Pool, pc'[t] \notin Failing PROVE SupervisedAt(t)'
  BY <1>2 DEF SupervisedAt, Failing
<1>3. ASSUME UNCHANGED <<pc, self, asking, answer>> PROVE Supervised'
  BY <1>1, <1>3 DEF Supervised
<1>4. ASSUME NEW t \in Threads, CallBegin(t) \/ CallStep(t) PROVE Supervised'
  BY <1>3, <1>4 DEF CallBegin, CallStep, SendFind, AddActorRead, StopActor, SendPush,
     AddActorInsert, AddActorPost, thVars
<1>5. ASSUME WorkerStep PROVE Supervised'
  BY <1>3, <1>5 DEF WorkerStep, MailboxWorkerBegin, MailboxWorkerLook,
     MailboxWorkerTryLock,
     MailboxWorkerPost, MailboxWorkerEnd, thVars
<1>6. ASSUME NEW t \in Pool, PoolStep(t) PROVE Supervised'
  <2> USE DEF Goto, TypeOK, Threads
  <2>1. ASSUME NEW s \in Pool \ {t} PROVE SupervisedAt(s)'
    <3>1. /\ pc'[s] = pc[s] /\ self'[s] = self[s]
          /\ asking'[s] = asking[s] /\ answer'[s] = answer[s]
      BY <1>0, <1>6 DEF PoolStep, PoolTake, OnStartDone, ApplyEnter, ApplyPop,
         ApplyDrained,
         ActionHandleDone, ActionHandleThrow, ApplyStatus, ApplyReset, OnChildStatus,
         OnChildError, Escalate, OnActorErrorResume, OnActorErrorStop, OnActorErrorReinit,
         TaskDone
    <3>2. QED BY <1>1, <3>1
  <2>2. CASE PoolTake(t) \/ ApplyEnter(t) \/ ApplyPop(t) \/ ApplyDrained(t)
    <3>1. pc'[t] \notin Failing
      BY <1>0, <2>2 DEF PoolTake, ApplyEnter, ApplyPop, ApplyDrained, Failing
    <3>2. QED BY <1>2, <2>1, <3>1 DEF Supervised
  <2>3. CASE OnStartDone(t) \/ OnChildStatus(t) \/ OnActorErrorResume(t) \/ OnActorErrorStop(t)
    <3>1. pc'[t] \notin Failing
      BY <1>0, <2>3 DEF OnStartDone, OnChildStatus, OnActorErrorResume, OnActorErrorStop,
         TaskDone, Failing
    <3>2. QED BY <1>2, <2>1, <3>1 DEF Supervised
  <2>4. CASE ActionHandleDone(t) \/ OnActorErrorReinit(t)
    <3>1. pc'[t] \notin Failing
      BY <1>0, <2>4 DEF ActionHandleDone, OnActorErrorReinit, Failing
    <3>2. QED BY <1>2, <2>1, <3>1 DEF Supervised
  <2>5. CASE ActionHandleThrow(t) \/ ApplyStatus(t) \/ ApplyReset(t)
    <3>1. pc'[t] \notin {"escalate", "react"} /\ (pc'[t] \in Failing => self'[t] \notin Builtin)
      BY <1>0, <2>5 DEF ActionHandleThrow, ApplyStatus, ApplyReset, Failing, Supervised,
         SupervisedAt
    <3>2. SupervisedAt(t)'
      BY <3>1 DEF SupervisedAt
    <3>3. QED BY <2>1, <3>2 DEF Supervised
  <2>6. ASSUME NEW d \in Answers, self[t] \in Actors, Dad[self[t]] \in Actors \ Builtin,
               d \in Decisions, d \in {"STOP", "REINIT"}
        PROVE  Leaf(self[t])
    BY <1>0, <2>6, ContextAssumption DEF OnlyLeavesStop
  <2>7. CASE OnChildError(t)
    <3>0. self[t] \in Actors \ Builtin /\ self[t] \in Folk /\ self' = self
      BY <1>0, <2>7 DEF OnChildError, Supervised, SupervisedAt, Failing, Addressed
    <3>1. Dad[self[t]] \in Actors
      BY <3>0, ContextAssumption DEF Builtin
    <3>2. Dad[self[t]] # None
      BY <3>1, ContextAssumption
    <3>3. PICK d \in OnChildErrorAnswers(Dad[self[t]]) :
             /\ answer'[t] = d /\ pc'[t] = (IF d = "ESCALATE" THEN "escalate" ELSE "react")
             /\ asking'[t] = (IF d = "ESCALATE" THEN self[t] ELSE None)
      BY <1>0, <2>7, <3>2 DEF OnChildError
    <3>4. d = "RESUME" \/ (Dad[self[t]] \notin Builtin /\ d \in Decisions /\ d \in Answers)
      BY <3>3, ContextAssumption DEF OnChildErrorAnswers
    <3>5. SupervisedAt(t)'
      BY <1>0, <2>6, <3>0, <3>1, <3>3, <3>4 DEF SupervisedAt
    <3>6. QED BY <2>1, <3>5 DEF Supervised
  <2>8. CASE Escalate(t)
    <3>0. /\ self[t] \in Actors \ Builtin /\ Dad[self[t]] \notin Builtin
          /\ asking[t] \in Folk \ Builtin /\ self' = self /\ pc[t] = "escalate"
      BY <1>0, <2>8 DEF Escalate, Supervised, SupervisedAt, Failing
    <3>1. Dad[self[t]] \in Actors
      BY <3>0, ContextAssumption DEF Builtin
    <3>2. PICK p : p = Dad[asking[t]]
      OBVIOUS
    <3>3. CASE pc' = pc /\ asking' = asking /\ answer' = answer
      BY <1>1, <2>1, <3>0, <3>3 DEF Supervised
    <3>4. CASE p \in actors /\ \E d \in OnChildErrorAnswers(p) :
             /\ answer' = [answer EXCEPT ![t] = d]
             /\ Goto(t, IF d = "ESCALATE" THEN "escalate" ELSE "react")
             /\ asking' = [asking EXCEPT ![t] = IF d = "ESCALATE" THEN p ELSE None]
      <4>1. PICK d \in OnChildErrorAnswers(p) :
               /\ answer'[t] = d /\ pc'[t] = (IF d = "ESCALATE" THEN "escalate" ELSE "react")
               /\ asking'[t] = (IF d = "ESCALATE" THEN p ELSE None)
        BY <1>0, <3>4
      <4>2. d = "RESUME" \/ (p \notin Builtin /\ d \in Decisions /\ d \in Answers)
        BY <4>1, ContextAssumption DEF OnChildErrorAnswers
      <4>3. p \in Folk'
        BY <1>0, <3>4, FolkFacts DEF CInv, RInv
      <4>4. SupervisedAt(t)'
        BY <2>6, <3>0, <3>1, <4>1, <4>2, <4>3 DEF SupervisedAt
      <4>5. QED BY <2>1, <4>4 DEF Supervised
    <3>5. QED BY <2>8, <3>2, <3>3, <3>4 DEF Escalate
  <2>9. QED BY <1>6, <2>2, <2>3, <2>4, <2>5, <2>7, <2>8 DEF PoolStep
<1>7. CASE UNCHANGED vars
  BY <1>3, <1>7 DEF vars
<1>8. QED BY <1>4, <1>5, <1>6, <1>7 DEF Next, Dead

\* Whoever is known and is not the root has a parent in the map.
LEMMA ParentThere ==
  ASSUME CInv, NEW a \in Folk, a # Root
  PROVE  Dad[a] \in actors
<1>1. Dad[a] \in Folk /\ a \in Actors /\ Family
  BY DEF CInv, Family, Folk
<1>2. ~Leaf(Dad[a])
  BY <1>1 DEF Leaf
<1>3. QED BY <1>1, <1>2 DEF Family

\* None of the three lookups of a parent fails.
LEMMA NextNoCrash ==
  ASSUME CInv, [Next]_vars
  PROVE  NeverCrashes'
<1>0. TypeOK /\ Addressed /\ Supervised /\ NeverCrashes /\ Family /\ Issued
  BY DEF CInv, RInv
<1> USE DEF NeverCrashes
<1>1. ASSUME NEW t \in Threads, CallBegin(t) PROVE ~crashed'
  <2>1. ASSUME NEW k \in Actors, AddActorRead(t, k) PROVE ~crashed'
    <3>1. k # Root
      BY <1>0, <2>1 DEF AddActorRead, Issued, Known
    <3>2. Dad[k] \in Folk /\ ~Leaf(Dad[k])
      BY <2>1, <3>1, ContextAssumption DEF AddActorRead, Folk, Leaf
    <3>3. Dad[k] \in actors
      BY <1>0, <3>2 DEF Family
    <3>4. QED BY <1>0, <2>1, <3>3 DEF AddActorRead
  <2>2. QED BY <1>0, <1>1, <2>1 DEF CallBegin, SendFind, StopActor
<1>2. ASSUME NEW t \in Threads, CallStep(t) PROVE ~crashed'
  BY <1>0, <1>2 DEF CallStep, SendPush, AddActorInsert, AddActorPost
<1>3. ASSUME WorkerStep PROVE ~crashed'
  <2>1. CASE MailboxWorkerPost
    <3>1. wk.at \in Folk
      BY <1>0, <2>1 DEF MailboxWorkerPost, Addressed
    <3>2. Dad[wk.at] # None => Dad[wk.at] \in actors
      BY <3>1, ParentThere, ContextAssumption
    <3>3. QED BY <1>0, <2>1, <3>2 DEF MailboxWorkerPost
  <2>2. QED BY <1>0, <1>3, <2>1 DEF WorkerStep, MailboxWorkerBegin, MailboxWorkerLook,
             MailboxWorkerTryLock, MailboxWorkerEnd
<1>4. ASSUME NEW t \in Pool, PoolStep(t) PROVE ~crashed'
  <2>1. CASE Escalate(t)
    <3>1. asking[t] \in Folk \ Builtin
      BY <1>0, <2>1 DEF Escalate, Supervised, SupervisedAt
    <3>2. Dad[asking[t]] \in actors
      BY <3>1, ParentThere DEF Builtin
    <3>3. QED BY <1>0, <2>1, <3>2 DEF Escalate
  <2>2. QED
    BY <1>0, <1>4, <2>1 DEF PoolStep, PoolTake, OnStartDone, ApplyEnter, ApplyPop,
       ApplyDrained, ActionHandleDone, ActionHandleThrow, ApplyStatus, ApplyReset,
       OnChildStatus, OnChildError, OnActorErrorResume, OnActorErrorStop, OnActorErrorReinit
<1>5. CASE UNCHANGED vars
  BY <1>0, <1>5 DEF vars
<1>6. QED BY <1>0, <1>1, <1>2, <1>3, <1>4, <1>5 DEF Next, Dead

\* The built-in actors are there at first, and nobody is at work.
LEMMA InitCInv == Init => CInv
<1> SUFFICES ASSUME Init PROVE CInv
  OBVIOUS
<1>1. RInv
  BY InitRInv
<1>2. Folk = Builtin
  <2>1. ASSUME NEW a \in Actors, Known(a) PROVE a \in Builtin
    BY <1>1, <2>1 DEF RInv, Issued, Init
  <2>2. ASSUME NEW a \in Builtin PROVE a \in Actors /\ Known(a)
    BY <2>2, ContextAssumption DEF Init, Known, Builtin
  <2>3. QED BY <2>1, <2>2 DEF Folk
<1>3. Family
  <2>1. \A a, k \in Actors : k \in children[a] => Dad[k] = a
    BY ContextAssumption DEF Init
  <2>2. \A a \in Folk \ {Root} : Dad[a] \in Folk
    BY <1>2, ContextAssumption DEF Builtin
  <2>3. QED BY <1>2, <2>1, <2>2 DEF Init, Family
<1>4. Addressed
  BY ContextAssumption DEF Init, Addressed, NoCall, Call, Scan, Threads
<1>5. Supervised /\ NeverCrashes
  BY ContextAssumption DEF Init, Supervised, SupervisedAt, Failing, Threads, NeverCrashes
<1>6. QED BY <1>1, <1>3, <1>4, <1>5 DEF CInv

\* As long as no actor with children is stopped, no lookup of a parent fails, in add_actor,
\* in mailbox_worker and in the escalation loop, however deep the tree is below the actors
\* that only resume or escalate (context.cpp:302, 508, 594).
THEOREM NoCrash ==
  ASSUME OnlyLeavesStop
  PROVE  Spec => []NeverCrashes
<1>1. Init => CInv
  BY InitCInv
<1>2. CInv /\ [Next]_vars => CInv'
  <2> SUFFICES ASSUME CInv, [Next]_vars PROVE CInv'
    OBVIOUS
  <2>1. RInv'
    BY NextRInv DEF CInv
  <2>2. QED BY <2>1, NextFamily, NextAddressed, NextSupervised, NextNoCrash DEF CInv
<1>3. CInv => NeverCrashes
  BY DEF CInv
<1>4. QED BY <1>1, <1>2, <1>3, PTL DEF Spec
=============================================================================
