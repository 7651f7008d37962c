--------------------------- MODULE ExchangeProofs ---------------------------
(***************************************************************************)
(* Proofs about Exchange, for any number of actors, exchanges and calls.   *)
(***************************************************************************)
EXTENDS Exchange, SequenceLemmas, FiniteSetTheorems

\* The calls of publish_to_exchange that have found n and not pushed yet.
Posters(n) == {a \in Actors : posting[a] = n}

\* An envelope that was published, or is about to be, belongs to a call of its own.
Budget ==
    \A n \in Names : IsFiniteSet(Posters(n)) /\ count[n] + Cardinality(Posters(n)) <= calls

\* What the two reader/writer locks keep apart.
Locks ==
    /\ wk.pc = "erase" => \A a \in Actors : posting[a] = None
    /\ wk.pc \in {"drain", "copy"} => stopping = None
    /\ wk.pc = "erase" => \A n \in wk.left : Exists(n) /\ Unused(n)

-----------------------------------------------------------------------------
(* The locks, and what they protect *)

\* Nobody publishes, creates or subscribes while mailbox_worker erases exchanges, no
\* actor is stopped while it fans out, and what it has found unused stays unused.
LEMMA NextLocks == TypeOK /\ Locks /\ [Next]_vars => Locks'
<1> SUFFICES ASSUME TypeOK, Locks, [Next]_vars PROVE Locks'
  OBVIOUS
<1> USE ExchangeAssumption DEF exVars, Others, Called, ExShared, ExExclusive,
        LockShared, LockExclusive, At, Idle, Exists
<1>1. ASSUME NEW a \in Actors, NEW n \in Names, CreateExchange(a, n) PROVE Locks'
  BY <1>1 DEF CreateExchange, TypeOK, Locks, Unused
<1>2. ASSUME NEW a \in Actors, NEW n \in Names, SubscribeToExchange(a, n) PROVE Locks'
  BY <1>2 DEF SubscribeToExchange, TypeOK, Locks, Unused
<1>3. ASSUME NEW a \in Actors, NEW n \in Names, PublishFind(a, n) PROVE Locks'
  BY <1>3 DEF PublishFind, TypeOK, Locks, Unused
<1>4. ASSUME NEW a \in Actors, PublishPush(a) PROVE Locks'
  BY <1>4 DEF PublishPush, TypeOK, Locks, Unused
<1>5. ASSUME NEW a \in Actors, StopActor(a) PROVE Locks'
  BY <1>5 DEF StopActor, TypeOK, Locks, Unused
<1>6. ASSUME NEW a \in Actors, StopNetActor(a) PROVE Locks'
  BY <1>6 DEF StopNetActor, TypeOK, Locks, Unused
<1>7. ASSUME EraseNetActor PROVE Locks'
  BY <1>7 DEF EraseNetActor, TypeOK, Locks, Unused
<1>8. ASSUME ReadBegin PROVE Locks'
  BY <1>8 DEF ReadBegin, TypeOK, Locks, Unused
<1>9. ASSUME ReadEnd PROVE Locks'
  BY <1>9 DEF ReadEnd, TypeOK, Locks, Unused
<1>10. ASSUME NEW a \in Actors, Handle(a) PROVE Locks'
  BY <1>10 DEF Handle, TypeOK, Locks, Unused
<1>11. ASSUME DrainTry PROVE Locks'
  BY <1>11 DEF DrainTry, TypeOK, Locks, Unused
<1>12. ASSUME DrainBegin PROVE Locks'
  BY <1>12 DEF DrainBegin, TypeOK, Locks, Unused
<1>13. ASSUME DrainSkip PROVE Locks'
  BY <1>13 DEF DrainSkip, TypeOK, Locks, Unused
<1>14. ASSUME NEW n \in Names, DrainPop(n) PROVE Locks'
  BY <1>14 DEF DrainPop, Visiting, TypeOK, Locks, Unused
<1>15. ASSUME NEW n \in Names, DrainNext(n) PROVE Locks'
  BY <1>15 DEF DrainNext, Visiting, TypeOK, Locks, Unused
<1>16. ASSUME Copy PROVE Locks'
  BY <1>16 DEF Copy, TypeOK, Locks, Unused
<1>17. ASSUME CopyDone PROVE Locks'
  BY <1>17 DEF CopyDone, TypeOK, Locks, Unused
<1>18. ASSUME DrainEnd PROVE Locks'
  BY <1>18 DEF DrainEnd, TypeOK, Locks, Unused
<1>19. ASSUME PhaseTwo PROVE Locks'
  BY <1>19 DEF PhaseTwo, TypeOK, Locks, Unused
<1>20. ASSUME Collect PROVE Locks'
  BY <1>20 DEF Collect, TypeOK, Locks, Unused
<1>21. ASSUME CollectSkip PROVE Locks'
  BY <1>21 DEF CollectSkip, TypeOK, Locks, Unused
<1>22. ASSUME EraseExchanges PROVE Locks'
  BY <1>22 DEF EraseExchanges, TypeOK, Locks, Unused
<1>23. CASE UNCHANGED vars
  BY <1>23 DEF vars, TypeOK, Locks, Unused
<1>24. QED
  BY <1>1, <1>2, <1>3, <1>4, <1>5, <1>6, <1>7, <1>8, <1>9, <1>10, <1>11, <1>12, <1>13,
     <1>14, <1>15, <1>16, <1>17, <1>18, <1>19, <1>20, <1>21, <1>22, <1>23 DEF Next,
     ActorStep, MailboxWorker

\* An exchange that publish_to_exchange has found is not erased before the push.
LEMMA NextHits == TypeOK /\ Locks /\ PublishHitsExchange /\ [Next]_vars => PublishHitsExchange'
<1> SUFFICES ASSUME TypeOK, Locks, PublishHitsExchange, [Next]_vars PROVE PublishHitsExchange'
  OBVIOUS
<1> USE ExchangeAssumption DEF exVars, Others, Called, ExShared, ExExclusive,
        LockShared, LockExclusive, At, Idle, Exists
<1>1. ASSUME NEW a \in Actors, NEW n \in Names, CreateExchange(a, n) PROVE PublishHitsExchange'
  BY <1>1 DEF CreateExchange, TypeOK, Locks, PublishHitsExchange
<1>2. ASSUME NEW a \in Actors, NEW n \in Names, SubscribeToExchange(a, n) PROVE PublishHitsExchange'
  BY <1>2 DEF SubscribeToExchange, TypeOK, Locks, PublishHitsExchange
<1>3. ASSUME NEW a \in Actors, NEW n \in Names, PublishFind(a, n) PROVE PublishHitsExchange'
  BY <1>3 DEF PublishFind, TypeOK, Locks, PublishHitsExchange
<1>4. ASSUME NEW a \in Actors, PublishPush(a) PROVE PublishHitsExchange'
  BY <1>4 DEF PublishPush, TypeOK, Locks, PublishHitsExchange
<1>5. ASSUME NEW a \in Actors, StopActor(a) PROVE PublishHitsExchange'
  BY <1>5 DEF StopActor, TypeOK, Locks, PublishHitsExchange
<1>6. ASSUME NEW a \in Actors, StopNetActor(a) PROVE PublishHitsExchange'
  BY <1>6 DEF StopNetActor, TypeOK, Locks, PublishHitsExchange
<1>7. ASSUME EraseNetActor PROVE PublishHitsExchange'
  BY <1>7 DEF EraseNetActor, TypeOK, Locks, PublishHitsExchange
<1>8. ASSUME ReadBegin PROVE PublishHitsExchange'
  BY <1>8 DEF ReadBegin, TypeOK, Locks, PublishHitsExchange
<1>9. ASSUME ReadEnd PROVE PublishHitsExchange'
  BY <1>9 DEF ReadEnd, TypeOK, Locks, PublishHitsExchange
<1>10. ASSUME NEW a \in Actors, Handle(a) PROVE PublishHitsExchange'
  BY <1>10 DEF Handle, TypeOK, Locks, PublishHitsExchange
<1>11. ASSUME DrainTry PROVE PublishHitsExchange'
  BY <1>11 DEF DrainTry, TypeOK, Locks, PublishHitsExchange
<1>12. ASSUME DrainBegin PROVE PublishHitsExchange'
  BY <1>12 DEF DrainBegin, TypeOK, Locks, PublishHitsExchange
<1>13. ASSUME DrainSkip PROVE PublishHitsExchange'
  BY <1>13 DEF DrainSkip, TypeOK, Locks, PublishHitsExchange
<1>14. ASSUME NEW n \in Names, DrainPop(n) PROVE PublishHitsExchange'
  BY <1>14 DEF DrainPop, TypeOK, Locks, PublishHitsExchange
<1>15. ASSUME NEW n \in Names, DrainNext(n) PROVE PublishHitsExchange'
  BY <1>15 DEF DrainNext, TypeOK, Locks, PublishHitsExchange
<1>16. ASSUME Copy PROVE PublishHitsExchange'
  BY <1>16 DEF Copy, TypeOK, Locks, PublishHitsExchange
<1>17. ASSUME CopyDone PROVE PublishHitsExchange'
  BY <1>17 DEF CopyDone, TypeOK, Locks, PublishHitsExchange
<1>18. ASSUME DrainEnd PROVE PublishHitsExchange'
  BY <1>18 DEF DrainEnd, TypeOK, Locks, PublishHitsExchange
<1>19. ASSUME PhaseTwo PROVE PublishHitsExchange'
  BY <1>19 DEF PhaseTwo, TypeOK, Locks, PublishHitsExchange
<1>20. ASSUME Collect PROVE PublishHitsExchange'
  BY <1>20 DEF Collect, TypeOK, Locks, PublishHitsExchange
<1>21. ASSUME CollectSkip PROVE PublishHitsExchange'
  BY <1>21 DEF CollectSkip, TypeOK, Locks, PublishHitsExchange
<1>22. ASSUME EraseExchanges PROVE PublishHitsExchange'
  BY <1>22 DEF EraseExchanges, TypeOK, Locks, PublishHitsExchange
<1>23. CASE UNCHANGED vars
  BY <1>23 DEF vars, TypeOK, Locks, PublishHitsExchange
<1>24. QED
  BY <1>1, <1>2, <1>3, <1>4, <1>5, <1>6, <1>7, <1>8, <1>9, <1>10, <1>11, <1>12, <1>13,
     <1>14, <1>15, <1>16, <1>17, <1>18, <1>19, <1>20, <1>21, <1>22, <1>23 DEF Next,
     ActorStep, MailboxWorker

-----------------------------------------------------------------------------
(* Types, and how many envelopes there are *)

\* Counting with one element more or less.
LEMMA OneMoreOrLess ==
  ASSUME NEW S, IsFiniteSet(S), NEW x
  PROVE  /\ Cardinality(S) \in Nat
         /\ IsFiniteSet(S \cup {x}) /\ Cardinality(S \cup {x}) \in Nat
         /\ Cardinality(S \cup {x}) = IF x \in S THEN Cardinality(S) ELSE Cardinality(S) + 1
         /\ IsFiniteSet(S \ {x}) /\ Cardinality(S \ {x}) \in Nat
         /\ Cardinality(S \ {x}) = IF x \in S THEN Cardinality(S) - 1 ELSE Cardinality(S)
<1>1. IsFiniteSet(S \cup {x}) /\ IsFiniteSet(S \ {x})
  BY FS_AddElement, FS_RemoveElement
<1>2. QED BY <1>1, FS_AddElement, FS_RemoveElement, FS_CardinalityType

\* A publisher on its way to push has an envelope left to number.
LEMMA RoomToPush ==
  ASSUME TypeOK, Budget, NEW a \in Actors, posting[a] # None
  PROVE  posting[a] \in Names /\ count[posting[a]] + 1 \in 1 .. MaxCalls
<1> DEFINE n == posting[a]
<1>1. n \in Names /\ count[n] \in Nat /\ calls \in 0 .. MaxCalls
  BY ExchangeAssumption DEF TypeOK
<1>2. a \in Posters(n) /\ IsFiniteSet(Posters(n)) /\ count[n] + Cardinality(Posters(n)) <= calls
  BY <1>1 DEF Posters, Budget
<1>3. Cardinality(Posters(n)) - 1 \in Nat /\ Cardinality(Posters(n)) \in Nat
  <2> HIDE DEF n
  <2>1. Cardinality(Posters(n)) \in Nat /\ Cardinality(Posters(n) \ {a}) \in Nat
        /\ Cardinality(Posters(n) \ {a}) = Cardinality(Posters(n)) - 1
    BY <1>2, OneMoreOrLess
  <2>2. QED BY <2>1
<1> HIDE DEF n
<1>4. count[n] + 1 \in 1 .. MaxCalls
  BY <1>1, <1>2, <1>3, ExchangeAssumption
<1>5. QED BY <1>1, <1>4 DEF n

\* A copy of the envelope that is fanned out fits into a mailbox.
LEMMA DeliverType ==
  ASSUME mail \in [Actors -> Seq(Envelopes)], NEW a \in Actors, NEW e \in Envelopes, Deliver(a, e)
  PROVE  mail' \in [Actors -> Seq(Envelopes)]
  BY AppendProperties DEF Deliver

\* Every step keeps the types; an exchange that is not there has nothing in it.
LEMMA NextType == TypeOK /\ Budget /\ PublishHitsExchange /\ [Next]_vars => TypeOK'
<1> SUFFICES ASSUME TypeOK, Budget, PublishHitsExchange, [Next]_vars PROVE TypeOK'
  OBVIOUS
<1> USE ExchangeAssumption DEF exVars, Others, Called, ExShared, ExExclusive,
        LockShared, LockExclusive, At, Idle, Exists
<1>1. ASSUME NEW a \in Actors, NEW n \in Names, CreateExchange(a, n) PROVE TypeOK'
  BY <1>1 DEF CreateExchange, TypeOK
<1>2. ASSUME NEW a \in Actors, NEW n \in Names, SubscribeToExchange(a, n) PROVE TypeOK'
  BY <1>2 DEF SubscribeToExchange, TypeOK
<1>3. ASSUME NEW a \in Actors, NEW n \in Names, PublishFind(a, n) PROVE TypeOK'
  BY <1>3 DEF PublishFind, TypeOK
<1>4. ASSUME NEW a \in Actors, PublishPush(a) PROVE TypeOK'
  <2>1. posting[a] \in Names /\ count[posting[a]] + 1 \in 1 .. MaxCalls
    BY <1>4, RoomToPush DEF PublishPush
  <2> DEFINE n == posting[a]
             e == Envelope(n, count[n] + 1)
  <2>2. e \in Envelopes
    BY <2>1 DEF Envelope, Envelopes
  <2>3. count' \in [Names -> 0 .. MaxCalls]
    BY <1>4, <2>1 DEF PublishPush, TypeOK
  <2>4. pub' = [pub EXCEPT ![n] = Append(pub[n], e)]
    BY <1>4 DEF PublishPush
  <2> HIDE DEF e
  <2>5. pub' \in [Names -> Seq(Envelopes)]
    BY <2>1, <2>2, <2>4, AppendProperties DEF TypeOK
  <2>6. \A m \in Names : ~Exists(m) => pub'[m] = <<>>
    BY <1>4, <2>1, <2>4 DEF PublishPush, TypeOK, PublishHitsExchange
  <2>7. QED BY <1>4, <2>3, <2>5, <2>6 DEF PublishPush, TypeOK
<1>5. ASSUME NEW a \in Actors, StopActor(a) PROVE TypeOK'
  BY <1>5 DEF StopActor, TypeOK
<1>6. ASSUME NEW a \in Actors, StopNetActor(a) PROVE TypeOK'
  BY <1>6 DEF StopNetActor, TypeOK
<1>7. ASSUME EraseNetActor PROVE TypeOK'
  BY <1>7 DEF EraseNetActor, TypeOK
<1>8. ASSUME ReadBegin PROVE TypeOK'
  BY <1>8 DEF ReadBegin, TypeOK
<1>9. ASSUME ReadEnd PROVE TypeOK'
  BY <1>9 DEF ReadEnd, TypeOK
<1>10. ASSUME NEW a \in Actors, Handle(a) PROVE TypeOK'
  BY <1>10 DEF Handle, TypeOK
<1>11. ASSUME DrainTry PROVE TypeOK'
  BY <1>11 DEF DrainTry, TypeOK
<1>12. ASSUME DrainBegin PROVE TypeOK'
  BY <1>12 DEF DrainBegin, TypeOK
<1>13. ASSUME DrainSkip PROVE TypeOK'
  BY <1>13 DEF DrainSkip, TypeOK
<1>14. ASSUME NEW n \in Names, DrainPop(n) PROVE TypeOK'
  <2>1. /\ pub[n] # <<>> /\ pub' = [pub EXCEPT ![n] = Tail(@)]
        /\ wk' = At("copy", wk.left, Head(pub[n]), 0)
        /\ UNCHANGED <<live, count, handled, posting, stopping, reading, calls>>
        /\ UNCHANGED <<owner, subs, mail>>
    BY <1>14 DEF DrainPop
  <2>2. pub[n] \in Seq(Envelopes)
    BY DEF TypeOK
  <2>3. Tail(pub[n]) \in Seq(Envelopes) /\ Head(pub[n]) \in Envelopes
    BY <2>1, <2>2
  <2>4. pub' \in [Names -> Seq(Envelopes)]
    BY <2>1, <2>3 DEF TypeOK
  <2>5. \A m \in Names : ~Exists(m)' => subs'[m] = <<>> /\ pub'[m] = <<>>
    <3>1. n \in Names /\ Exists(n)
      BY <2>1 DEF TypeOK
    <3>2. \A m \in Names : Exists(m)' = Exists(m) /\ (m # n => pub'[m] = pub[m])
      BY <2>1 DEF TypeOK, Exists
    <3> QED
      BY <2>1, <3>1, <3>2 DEF TypeOK
  <2>6. Len(subs[Head(pub[n]).ex]) \in Nat
    BY <2>3 DEF TypeOK, Envelopes
  <2>7. wk'.pc = "copy" /\ wk'.env = Head(pub[n]) /\ wk'.done = 0 /\ wk'.left = wk.left
    BY <2>1
  <2>8. wk' \in [pc : {"idle", "try", "drain", "copy", "phase2", "look", "erase"},
                left : SUBSET Names, env : Envelopes \cup {None}, done : Nat]
    BY <2>1, <2>3 DEF TypeOK
  <2> QED
    BY <2>1, <2>3, <2>4, <2>5, <2>6, <2>7, <2>8 DEF TypeOK
<1>15. ASSUME NEW n \in Names, DrainNext(n) PROVE TypeOK'
  BY <1>15 DEF DrainNext, TypeOK
<1>16. ASSUME Copy PROVE TypeOK'
  <2>1. wk.env \in Envelopes /\ wk.env.ex \in Names /\ wk.done \in 0 .. Len(subs[wk.env.ex])
    BY <1>16 DEF Copy, TypeOK, Envelopes
  <2> DEFINE s == subs[wk.env.ex]
             i == wk.done + 1
  <2>2. s \in Seq(Actors) /\ i \in 1 .. Len(s) /\ s[i] \in Actors
    <3>1. s \in Seq(Actors) /\ Len(s) \in Nat
      BY <2>1 DEF TypeOK
    <3>2. i <= Len(s)
      BY <1>16 DEF Copy
    <3>3. i \in 1 .. Len(s)
      BY <2>1, <3>1, <3>2
    <3> HIDE DEF s, i
    <3> QED
      BY <3>1, <3>3, ElementOfSeq
  <2>3. mail' \in [Actors -> Seq(Envelopes)]
    BY <1>16, <2>1, <2>2, DeliverType DEF Copy, TypeOK
  <2>4. wk' = [wk EXCEPT !.done = i]
    BY <1>16 DEF Copy
  <2> HIDE DEF i
  <2>5. /\ wk' \in [pc : {"idle", "try", "drain", "copy", "phase2", "look", "erase"},
                   left : SUBSET Names, env : Envelopes \cup {None}, done : Nat]
        /\ wk'.pc = "copy" /\ wk'.env = wk.env /\ wk'.done = i
    <3>1. i \in Nat /\ wk.pc = "copy"
      BY <1>16, <2>1 DEF Copy, i
    <3>2. QED BY <2>4, <3>1 DEF TypeOK
  <2>6. wk'.done \in 0 .. Len(subs'[wk'.env.ex])
    BY <1>16, <2>2, <2>5 DEF Copy
  <2>7. QED BY <1>16, <2>1, <2>3, <2>5, <2>6 DEF Copy, TypeOK
<1>17. ASSUME CopyDone PROVE TypeOK'
  BY <1>17 DEF CopyDone, TypeOK
<1>18. ASSUME DrainEnd PROVE TypeOK'
  BY <1>18 DEF DrainEnd, TypeOK
<1>19. ASSUME PhaseTwo PROVE TypeOK'
  BY <1>19 DEF PhaseTwo, TypeOK
<1>20. ASSUME Collect PROVE TypeOK'
  BY <1>20 DEF Collect, TypeOK
<1>21. ASSUME CollectSkip PROVE TypeOK'
  BY <1>21 DEF CollectSkip, TypeOK
<1>22. ASSUME EraseExchanges PROVE TypeOK'
  BY <1>22 DEF EraseExchanges, TypeOK
<1>23. CASE UNCHANGED vars
  BY <1>23 DEF vars, TypeOK
<1>24. QED
  BY <1>1, <1>2, <1>3, <1>4, <1>5, <1>6, <1>7, <1>8, <1>9, <1>10, <1>11, <1>12, <1>13,
     <1>14, <1>15, <1>16, <1>17, <1>18, <1>19, <1>20, <1>21, <1>22, <1>23 DEF Next,
     ActorStep, MailboxWorker

\* A step that has nothing to do with publishing.
LEMMA BudgetStays ==
  ASSUME Budget, TypeOK, UNCHANGED <<posting, count>>, calls' \in Nat, calls <= calls'
  PROVE  Budget'
<1>1. ASSUME NEW n \in Names PROVE IsFiniteSet(Posters(n)') /\ count'[n] + Cardinality(Posters(n)') <= calls'
  <2>1. Posters(n)' = Posters(n) /\ count'[n] = count[n] /\ count[n] \in Nat /\ calls \in Nat
    BY DEF Posters, TypeOK
  <2>2. IsFiniteSet(Posters(n)) /\ count[n] + Cardinality(Posters(n)) <= calls
    BY DEF Budget
  <2>3. QED BY <2>1, <2>2, FS_CardinalityType
<1>2. QED BY <1>1 DEF Budget

\* A call that publishes is counted when it begins, and numbers one envelope.
LEMMA NextBudget == TypeOK /\ Budget /\ [Next]_vars => Budget'
<1> SUFFICES ASSUME TypeOK, Budget, [Next]_vars PROVE Budget'
  OBVIOUS
<1> USE ExchangeAssumption DEF exVars, Others, Called, ExShared, ExExclusive,
        LockShared, LockExclusive, At, Idle, Exists
<1>1. ASSUME NEW a \in Actors, NEW n \in Names, CreateExchange(a, n) PROVE Budget'
  BY <1>1, BudgetStays DEF CreateExchange, TypeOK
<1>2. ASSUME NEW a \in Actors, NEW n \in Names, SubscribeToExchange(a, n) PROVE Budget'
  BY <1>2, BudgetStays DEF SubscribeToExchange, TypeOK
<1>3. ASSUME NEW a \in Actors, NEW n \in Names, PublishFind(a, n) PROVE Budget'
  <2>1. CASE ~Exists(n)
    BY <1>3, <2>1, BudgetStays DEF PublishFind, TypeOK
  <2>2. CASE Exists(n)
    <3>1. ASSUME NEW m \in Names PROVE IsFiniteSet(Posters(m)') /\ count'[m] + Cardinality(Posters(m)') <= calls'
      <4>1. /\ IsFiniteSet(Posters(m)) /\ count[m] + Cardinality(Posters(m)) <= calls
            /\ count'[m] = count[m] /\ count[m] \in Nat /\ calls \in Nat /\ calls' = calls + 1
        BY <1>3 DEF PublishFind, TypeOK, Budget
      <4>2. Posters(m)' = Posters(m) \/ Posters(m)' = Posters(m) \cup {a}
        BY <1>3, <2>2 DEF PublishFind, Posters, TypeOK
      <4>3. /\ IsFiniteSet(Posters(m)') /\ Cardinality(Posters(m)') \in Nat /\ Cardinality(Posters(m)) \in Nat
            /\ Cardinality(Posters(m)') <= Cardinality(Posters(m)) + 1
        <5>1. /\ IsFiniteSet(Posters(m) \cup {a}) /\ Cardinality(Posters(m) \cup {a}) \in Nat
              /\ Cardinality(Posters(m)) \in Nat
              /\ \/ Cardinality(Posters(m) \cup {a}) = Cardinality(Posters(m))
                 \/ Cardinality(Posters(m) \cup {a}) = Cardinality(Posters(m)) + 1
          BY <4>1, OneMoreOrLess
        <5>2. CASE Posters(m)' = Posters(m)
          BY <4>1, <5>1, <5>2
        <5>3. CASE Posters(m)' = Posters(m) \cup {a}
          BY <5>1, <5>3
        <5>4. QED BY <4>2, <5>2, <5>3
      <4>4. QED BY <4>1, <4>3
    <3>2. QED BY <3>1 DEF Budget
  <2>3. QED BY <2>1, <2>2
<1>4. ASSUME NEW a \in Actors, PublishPush(a) PROVE Budget'
  <2>1. posting[a] \in Names
    BY <1>4, RoomToPush DEF PublishPush
  <2>2. ASSUME NEW m \in Names PROVE IsFiniteSet(Posters(m)') /\ count'[m] + Cardinality(Posters(m)') <= calls'
    <3>1. /\ IsFiniteSet(Posters(m)) /\ count[m] + Cardinality(Posters(m)) <= calls
          /\ count[m] \in Nat /\ calls \in Nat /\ calls' = calls
      BY <1>4 DEF PublishPush, TypeOK, Budget
    <3>2. CASE m = posting[a]
      <4>1. Posters(m)' = Posters(m) \ {a} /\ a \in Posters(m) /\ count'[m] = count[m] + 1
        BY <1>4, <3>2 DEF PublishPush, Posters, TypeOK
      <4>2. /\ IsFiniteSet(Posters(m)') /\ Cardinality(Posters(m)') \in Nat
            /\ Cardinality(Posters(m)') = Cardinality(Posters(m)) - 1 /\ Cardinality(Posters(m)) \in Nat
        <5>1. /\ IsFiniteSet(Posters(m) \ {a}) /\ Cardinality(Posters(m) \ {a}) \in Nat
              /\ Cardinality(Posters(m)) \in Nat
              /\ Cardinality(Posters(m) \ {a}) = Cardinality(Posters(m)) - 1
          BY <3>1, <4>1, OneMoreOrLess
        <5>2. QED BY <4>1, <5>1
      <4>3. QED BY <3>1, <4>1, <4>2
    <3>3. CASE m # posting[a]
      <4>1. Posters(m)' = Posters(m) /\ count'[m] = count[m]
        BY <1>4, <3>3 DEF PublishPush, Posters, TypeOK
      <4>2. QED BY <3>1, <4>1
    <3>4. QED BY <3>2, <3>3
  <2>3. QED BY <2>2 DEF Budget
<1>5. ASSUME NEW a \in Actors, StopActor(a) PROVE Budget'
  BY <1>5, BudgetStays DEF StopActor, TypeOK
<1>6. ASSUME NEW a \in Actors, StopNetActor(a) PROVE Budget'
  BY <1>6, BudgetStays DEF StopNetActor, TypeOK
<1>7. ASSUME EraseNetActor PROVE Budget'
  BY <1>7, BudgetStays DEF EraseNetActor, TypeOK
<1>8. ASSUME ReadBegin PROVE Budget'
  BY <1>8, BudgetStays DEF ReadBegin, TypeOK
<1>9. ASSUME ReadEnd PROVE Budget'
  BY <1>9, BudgetStays DEF ReadEnd, TypeOK
<1>10. ASSUME NEW a \in Actors, Handle(a) PROVE Budget'
  BY <1>10, BudgetStays DEF Handle, TypeOK
<1>11. ASSUME DrainTry PROVE Budget'
  BY <1>11, BudgetStays DEF DrainTry, TypeOK
<1>12. ASSUME DrainBegin PROVE Budget'
  BY <1>12, BudgetStays DEF DrainBegin, TypeOK
<1>13. ASSUME DrainSkip PROVE Budget'
  BY <1>13, BudgetStays DEF DrainSkip, TypeOK
<1>14. ASSUME NEW n \in Names, DrainPop(n) PROVE Budget'
  BY <1>14, BudgetStays DEF DrainPop, TypeOK
<1>15. ASSUME NEW n \in Names, DrainNext(n) PROVE Budget'
  BY <1>15, BudgetStays DEF DrainNext, TypeOK
<1>16. ASSUME Copy PROVE Budget'
  BY <1>16, BudgetStays DEF Copy, TypeOK
<1>17. ASSUME CopyDone PROVE Budget'
  BY <1>17, BudgetStays DEF CopyDone, TypeOK
<1>18. ASSUME DrainEnd PROVE Budget'
  BY <1>18, BudgetStays DEF DrainEnd, TypeOK
<1>19. ASSUME PhaseTwo PROVE Budget'
  BY <1>19, BudgetStays DEF PhaseTwo, TypeOK
<1>20. ASSUME Collect PROVE Budget'
  BY <1>20, BudgetStays DEF Collect, TypeOK
<1>21. ASSUME CollectSkip PROVE Budget'
  BY <1>21, BudgetStays DEF CollectSkip, TypeOK
<1>22. ASSUME EraseExchanges PROVE Budget'
  BY <1>22, BudgetStays DEF EraseExchanges, TypeOK
<1>23. CASE UNCHANGED vars
  BY <1>23, BudgetStays DEF vars, TypeOK
<1>24. QED
  BY <1>1, <1>2, <1>3, <1>4, <1>5, <1>6, <1>7, <1>8, <1>9, <1>10, <1>11, <1>12, <1>13,
     <1>14, <1>15, <1>16, <1>17, <1>18, <1>19, <1>20, <1>21, <1>22, <1>23 DEF Next,
     ActorStep, MailboxWorker

-----------------------------------------------------------------------------
(* The first invariant *)

\* The inductive invariant behind the types and the locks.
IInv == TypeOK /\ Budget /\ Locks /\ PublishHitsExchange

\* There is no exchange at first.
LEMMA InitIInv == Init => IInv
<1> SUFFICES ASSUME Init PROVE IInv
  OBVIOUS
<1> USE ExchangeAssumption DEF Init
<1>1. TypeOK
  <2>1. /\ subs \in [Names -> Seq(Actors)] /\ pub \in [Names -> Seq(Envelopes)]
        /\ mail \in [Actors -> Seq(Envelopes)] /\ handled \in [Actors -> Seq(Envelopes)]
    OBVIOUS
  <2>2. /\ wk \in [pc : {"idle", "try", "drain", "copy", "phase2", "look", "erase"},
                   left : SUBSET Names, env : Envelopes \cup {None}, done : Nat]
        /\ wk.pc = "idle"
    BY DEF Idle, At
  <2>3. /\ owner \in [Names -> Actors \cup {None}] /\ posting \in [Actors -> Names \cup {None}]
        /\ count \in [Names -> 0 .. MaxCalls]
    OBVIOUS
  <2>4. \A n \in Names : subs[n] = <<>> /\ pub[n] = <<>>
    OBVIOUS
  <2>5. /\ live \subseteq Actors /\ stopping \in NetActors \cup {None} /\ reading \in BOOLEAN
    OBVIOUS
  <2>6. calls \in 0 .. MaxCalls
    OBVIOUS
  <2> HIDE DEF Init
  <2>7. QED BY <2>1, <2>2, <2>3, <2>4, <2>5, <2>6 DEF TypeOK
<1>2. Budget
  <2>1. \A n \in Names : Posters(n) = {}
    BY DEF Posters
  <2>2. IsFiniteSet({}) /\ Cardinality({}) = 0
    BY FS_EmptySet
  <2>3. \A n \in Names : IsFiniteSet(Posters(n)) /\ Cardinality(Posters(n)) = 0
    BY <2>1, <2>2
  <2>4. \A n \in Names : count[n] = 0 /\ calls = 0
    OBVIOUS
  <2> HIDE DEF Init
  <2>5. QED BY <2>3, <2>4 DEF Budget
<1>3. Locks /\ PublishHitsExchange
  BY DEF Locks, PublishHitsExchange, Idle, At
<1>4. QED BY <1>1, <1>2, <1>3 DEF IInv

\* Every step keeps it.
LEMMA NextIInv == IInv /\ [Next]_vars => IInv'
  BY NextType, NextBudget, NextLocks, NextHits DEF IInv

\* It holds in every reachable state.
LEMMA IInvariant == Spec => []IInv
  BY InitIInv, NextIInv, PTL DEF Spec

\* Types; in particular an exchange that is not in the map keeps neither subscribers
\* nor publications (context.cpp:341-418, 548-636).
THEOREM ExchangeTypeOK == Spec => []TypeOK
<1>1. IInv => TypeOK
  BY DEF IInv
<1>2. QED BY <1>1, IInvariant, PTL

\* publish_to_exchange never pushes into an exchange that the clean-up of
\* mailbox_worker has erased since it was found (context.cpp:379-385, 604-622).
THEOREM PublishHits == Spec => []PublishHitsExchange
<1>1. IInv => PublishHitsExchange
  BY DEF IInv
<1>2. QED BY <1>1, IInvariant, PTL

\* The only step that takes an exchange away.
LEMMA OnlyEraseErases ==
  ASSUME TypeOK, [Next]_vars, NEW m \in Names, Exists(m), owner'[m] = None
  PROVE  EraseExchanges
<1> USE ExchangeAssumption DEF exVars, Others, Exists, TypeOK
<1>1. ASSUME NEW a \in Actors, NEW n \in Names, CreateExchange(a, n) PROVE EraseExchanges
  BY <1>1 DEF CreateExchange
<1>2. ASSUME NEW a \in Actors, NEW n \in Names, SubscribeToExchange(a, n) PROVE EraseExchanges
  BY <1>2 DEF SubscribeToExchange
<1>3. ASSUME NEW a \in Actors, NEW n \in Names, PublishFind(a, n) PROVE EraseExchanges
  BY <1>3 DEF PublishFind
<1>4. ASSUME NEW a \in Actors, PublishPush(a) PROVE EraseExchanges
  BY <1>4 DEF PublishPush
<1>5. ASSUME NEW a \in Actors, StopActor(a) PROVE EraseExchanges
  BY <1>5 DEF StopActor
<1>6. ASSUME NEW a \in Actors, StopNetActor(a) PROVE EraseExchanges
  BY <1>6 DEF StopNetActor
<1>7. ASSUME EraseNetActor PROVE EraseExchanges
  BY <1>7 DEF EraseNetActor
<1>8. ASSUME ReadBegin PROVE EraseExchanges
  BY <1>8 DEF ReadBegin
<1>9. ASSUME ReadEnd PROVE EraseExchanges
  BY <1>9 DEF ReadEnd
<1>10. ASSUME NEW a \in Actors, Handle(a) PROVE EraseExchanges
  BY <1>10 DEF Handle
<1>11. ASSUME DrainTry PROVE EraseExchanges
  BY <1>11 DEF DrainTry
<1>12. ASSUME DrainBegin PROVE EraseExchanges
  BY <1>12 DEF DrainBegin
<1>13. ASSUME DrainSkip PROVE EraseExchanges
  BY <1>13 DEF DrainSkip
<1>14. ASSUME NEW n \in Names, DrainPop(n) PROVE EraseExchanges
  BY <1>14 DEF DrainPop
<1>15. ASSUME NEW n \in Names, DrainNext(n) PROVE EraseExchanges
  BY <1>15 DEF DrainNext
<1>16. ASSUME Copy PROVE EraseExchanges
  BY <1>16 DEF Copy
<1>17. ASSUME CopyDone PROVE EraseExchanges
  BY <1>17 DEF CopyDone
<1>18. ASSUME DrainEnd PROVE EraseExchanges
  BY <1>18 DEF DrainEnd
<1>19. ASSUME PhaseTwo PROVE EraseExchanges
  BY <1>19 DEF PhaseTwo
<1>20. ASSUME Collect PROVE EraseExchanges
  BY <1>20 DEF Collect
<1>21. ASSUME CollectSkip PROVE EraseExchanges
  BY <1>21 DEF CollectSkip
<1>22. ASSUME EraseExchanges PROVE EraseExchanges
  BY <1>22 DEF EraseExchanges
<1>23. CASE UNCHANGED vars
  BY <1>23 DEF vars
<1>24. QED
  BY <1>1, <1>2, <1>3, <1>4, <1>5, <1>6, <1>7, <1>8, <1>9, <1>10, <1>11, <1>12, <1>13,
     <1>14, <1>15, <1>16, <1>17, <1>18, <1>19, <1>20, <1>21, <1>22, <1>23 DEF Next,
     ActorStep, MailboxWorker

\* mailbox_worker erases no exchange whose owner, or one of whose subscribers, is
\* registered, although it collects the names and erases them in two loops, and the
\* actors come and go on other threads (context.cpp:604-622).
THEOREM UsedStays == Spec => UsedExchangeStays
<1> DEFINE Step == \A n \in Names : (Exists(n) /\ owner'[n] = None) => Users(n) \cap live = {}
<1>1. IInv /\ [Next]_vars => [Step]_vars
  <2> SUFFICES ASSUME IInv, [Next]_vars, NEW n \in Names, Exists(n), owner'[n] = None
               PROVE  Users(n) \cap live = {}
    OBVIOUS
  <2>1. EraseExchanges
    BY OnlyEraseErases DEF IInv
  <2>2. n \in wk.left /\ Unused(n)
    BY <2>1 DEF EraseExchanges, IInv, Locks, TypeOK, Exists
  <2>3. QED BY <2>2 DEF Unused, Users
<1>2. QED BY <1>1, IInvariant, PTL DEF Spec, UsedExchangeStays

-----------------------------------------------------------------------------
(* What the subscribers get *)

\* How many envelopes of n have been taken out of it, or were lost with it.
Drained(n) == count[n] - Len(pub[n])

Copying(n) == wk.pc = "copy" /\ wk.env.ex = n

\* The copies a has of the k-th envelope of n, and the subscriptions that it may owe
\* them to: all of its own, and while the envelope is fanned out those served already.
CopiesOf(a, n, k) == {i \in From(a, n) : Got(a)[i].no = k}
Allowed(a, n, k)  == {i \in Subscriptions(a, n) : (Copying(n) /\ wk.env.no = k) => i <= wk.done}

\* An exchange holds its last envelopes, in order; the one before is being copied.
NumberedAt(n) ==
    /\ Len(pub[n]) <= count[n]
    /\ \A i \in 1 .. Len(pub[n]) : pub[n][i] = Envelope(n, Drained(n) + i)
    /\ Copying(n) => wk.env.no = Drained(n)

Numbered == \A n \in Names : NumberedAt(n)

\* Nobody has got what is still in an exchange.
Below ==
    \A a \in Actors : \A i \in DOMAIN Got(a) : Got(a)[i].no <= Drained(Got(a)[i].ex)

Ordered ==
    \A a \in Actors : \A i, j \in DOMAIN Got(a) :
        (i < j /\ Got(a)[i].ex = Got(a)[j].ex) => Got(a)[i].no <= Got(a)[j].no

Limited ==
    \A a \in live, n \in Names, k \in 1 .. MaxCalls :
        Cardinality(CopiesOf(a, n, k)) <= Cardinality(Allowed(a, n, k))

\* A registered actor that has got something from an exchange is in its list still.
Subscribed ==
    \A a \in live, n \in Names : From(a, n) # {} => Subscriptions(a, n) # {}

\* From the first envelope on, a registered actor has got all that was taken out of
\* the exchange but the one that is being copied and has not come to it yet.
Complete ==
    \A a \in live, n \in Names : \A k \in Received(a, n), m \in 1 .. MaxCalls :
        (k <= m /\ m <= Drained(n)) =>
            \/ m \in Received(a, n)
            \/ Copying(n) /\ wk.env.no = m /\ \A i \in Subscriptions(a, n) : wk.done < i

\* A step that is neither publishing, subscribing, fanning out nor erasing.
Quiet ==
    /\ UNCHANGED <<subs, pub, count>>
    /\ live' \subseteq live
    /\ \A a \in Actors : Got(a)' = Got(a)
    /\ UNCHANGED wk \/ (wk.pc # "copy" /\ wk'.pc # "copy")

\* What an actor has got is a sequence of envelopes.
LEMMA GotType ==
  ASSUME TypeOK, NEW a \in Actors
  PROVE  /\ Got(a) \in Seq(Envelopes) /\ Len(Got(a)) \in Nat /\ DOMAIN Got(a) = 1 .. Len(Got(a))
         /\ \A i \in DOMAIN Got(a) : /\ Got(a)[i] \in Envelopes /\ Got(a)[i].ex \in Names
                                     /\ Got(a)[i].no \in 1 .. MaxCalls
<1>1. Got(a) \in Seq(Envelopes)
  BY ConcatProperties DEF TypeOK, Got
<1>2. Len(Got(a)) \in Nat /\ DOMAIN Got(a) = 1 .. Len(Got(a))
  BY <1>1, LenProperties
<1>3. \A i \in DOMAIN Got(a) : Got(a)[i] \in Envelopes
  BY <1>1, <1>2, ElementOfSeq
<1>4. \A e \in Envelopes : e.ex \in Names /\ e.no \in 1 .. MaxCalls
  BY DEF Envelopes
<1>5. QED BY <1>1, <1>2, <1>3, <1>4

\* Taking an envelope out of the mailbox changes nothing of what was got.
LEMMA HandleKeepsGot ==
  ASSUME TypeOK, NEW b \in Actors, Handle(b), NEW a \in Actors
  PROVE  Got(a)' = Got(a)
<1>1. CASE a # b
  BY <1>1 DEF Handle, TypeOK, Got
<1>2. CASE a = b
  <2> DEFINE h == handled[a]
             m == mail[a]
  <2>1. h \in Seq(Envelopes) /\ m \in Seq(Envelopes) /\ m # <<>>
    BY <1>2 DEF Handle, TypeOK
  <2>2. Got(a)' = Append(h, Head(m)) \o Tail(m) /\ Got(a) = h \o m
    BY <1>2 DEF Handle, TypeOK, Got
  <2> HIDE DEF h, m
  <2>3. /\ Head(m) \in Envelopes /\ Tail(m) \in Seq(Envelopes)
        /\ Len(Tail(m)) = Len(m) - 1 /\ Head(m) = m[1]
        /\ \A i \in 1 .. Len(Tail(m)) : Tail(m)[i] = m[i + 1]
    BY <2>1, HeadTailProperties
  <2>4. /\ Append(h, Head(m)) \in Seq(Envelopes) /\ Len(Append(h, Head(m))) = Len(h) + 1
        /\ \A i \in 1 .. Len(h) : Append(h, Head(m))[i] = h[i]
        /\ Append(h, Head(m))[Len(h) + 1] = m[1]
    BY <2>1, <2>3, AppendProperties
  <2> DEFINE x == Append(h, Head(m)) \o Tail(m)
             y == h \o m
  <2>5. Len(h) \in Nat /\ Len(m) \in Nat \ {0}
    BY <2>1, LenProperties, EmptySeq
  <2>6. x \in Seq(Envelopes) /\ y \in Seq(Envelopes) /\ Len(x) = Len(y) /\ Len(y) = Len(h) + Len(m)
    BY <2>1, <2>3, <2>4, <2>5, ConcatProperties
  <2>7. \A i \in 1 .. Len(y) : x[i] = y[i]
    <3> TAKE i \in 1 .. Len(y)
    <3>1. x[i] = IF i <= Len(h) + 1 THEN Append(h, Head(m))[i] ELSE Tail(m)[i - (Len(h) + 1)]
      BY <2>3, <2>4, <2>5, <2>6, ConcatProperties
    <3>2. y[i] = IF i <= Len(h) THEN h[i] ELSE m[i - Len(h)]
      BY <2>1, <2>5, <2>6, ConcatProperties
    <3> HIDE DEF x, y
    <3>3. CASE i <= Len(h)
      BY <2>4, <2>5, <3>1, <3>2, <3>3
    <3>4. CASE i = Len(h) + 1
      BY <2>4, <2>5, <3>1, <3>2, <3>4
    <3>5. CASE i > Len(h) + 1
      <4>1. i - (Len(h) + 1) \in 1 .. Len(Tail(m)) /\ (i - (Len(h) + 1)) + 1 = i - Len(h)
        BY <2>3, <2>5, <2>6, <3>5
      <4>2. QED BY <2>3, <2>5, <3>1, <3>2, <3>5, <4>1
    <3>6. QED BY <2>5, <2>6, <3>3, <3>4, <3>5
  <2> HIDE DEF x, y
  <2>8. x = y
    BY <2>6, <2>7, SeqEqual
  <2>9. QED BY <2>2, <2>8 DEF x, y
<1>3. QED BY <1>1, <1>2

\* The subscriber whose turn it is in the loop over subscribes.
Receiver == subs[wk.env.ex][wk.done + 1]

\* One turn of that loop.
LEMMA CopyEffect ==
  ASSUME TypeOK, Copy
  PROVE  /\ wk.pc = "copy" /\ wk.env \in Envelopes /\ wk.env.ex \in Names
         /\ wk.env.no \in 1 .. MaxCalls /\ wk.done \in Nat
         /\ wk.done + 1 \in DOMAIN subs[wk.env.ex] /\ Receiver \in Actors
         /\ wk'.pc = "copy" /\ wk'.env = wk.env /\ wk'.done = wk.done + 1
         /\ UNCHANGED <<live, subs, pub, count>>
         /\ \A a \in Actors : Got(a)' = IF a = Receiver /\ a \in live THEN Append(Got(a), wk.env)
                                                                    ELSE Got(a)
<1>1. /\ wk.pc = "copy" /\ wk.env \in Envelopes /\ wk.env.ex \in Names
      /\ wk.env.no \in 1 .. MaxCalls /\ wk.done \in Nat
  BY DEF Copy, TypeOK, Envelopes
<1>2. wk.done + 1 \in DOMAIN subs[wk.env.ex] /\ Receiver \in Actors
  <2>1. subs[wk.env.ex] \in Seq(Actors)
    BY <1>1 DEF TypeOK
  <2>2. wk.done + 1 \in 1 .. Len(subs[wk.env.ex])
    BY <1>1, <2>1, LenProperties DEF Copy
  <2>3. QED BY <2>1, <2>2, LenProperties, ElementOfSeq DEF Receiver
<1>3. wk'.pc = "copy" /\ wk'.env = wk.env /\ wk'.done = wk.done + 1
  BY <1>1 DEF Copy, TypeOK
<1>4. UNCHANGED <<live, subs, pub, count, handled>> /\ Deliver(Receiver, wk.env)
  BY DEF Copy, Others, Receiver
<1>5. ASSUME NEW a \in Actors
      PROVE  Got(a)' = IF a = Receiver /\ a \in live THEN Append(Got(a), wk.env) ELSE Got(a)
  <2>1. CASE a = Receiver /\ a \in live
    <3>1. mail'[a] = Append(mail[a], wk.env) /\ handled'[a] = handled[a]
      BY <1>2, <1>4, <2>1 DEF Deliver, TypeOK
    <3>2. mail[a] \in Seq(Envelopes) /\ handled[a] \in Seq(Envelopes)
      BY DEF TypeOK
    <3>3. handled[a] \o Append(mail[a], wk.env) = Append(handled[a] \o mail[a], wk.env)
      <4>1. \A s, t \in Seq(Envelopes), x \in Envelopes : s \o Append(t, x) = Append(s \o t, x)
        BY ConcatAppend
      <4>2. QED BY <1>1, <3>2, <4>1
    <3>4. QED BY <2>1, <3>1, <3>3 DEF Got
  <2>2. CASE ~(a = Receiver /\ a \in live)
    <3>1. mail'[a] = mail[a] /\ handled'[a] = handled[a]
      BY <1>2, <1>4, <2>2 DEF Deliver, TypeOK
    <3>2. QED BY <2>2, <3>1 DEF Got
  <2>3. QED BY <2>1, <2>2
<1>6. QED BY <1>1, <1>2, <1>3, <1>4, <1>5

\* The steps that bear on what the subscribers get, and the rest.
LEMMA Kinds ==
  ASSUME TypeOK, [Next]_vars
  PROVE  \/ \E a \in Actors : PublishPush(a)
         \/ \E a \in Actors, n \in Names : SubscribeToExchange(a, n)
         \/ \E n \in Names : DrainPop(n)
         \/ Copy \/ CopyDone \/ EraseExchanges
         \/ Quiet
<1> DEFINE Same == UNCHANGED <<mail, handled>>
<1>0. Same => \A a \in Actors : Got(a)' = Got(a)
  BY DEF Got
<1> USE ExchangeAssumption DEF exVars, Others, At, Idle
<1>1. ASSUME NEW a \in Actors, NEW n \in Names, CreateExchange(a, n) PROVE Quiet
  BY <1>1, <1>0 DEF CreateExchange, Quiet
<1>2. ASSUME NEW a \in Actors, NEW n \in Names, PublishFind(a, n) PROVE Quiet
  BY <1>2, <1>0 DEF PublishFind, Quiet
<1>3. ASSUME NEW a \in Actors, StopActor(a) PROVE Quiet
  BY <1>3, <1>0 DEF StopActor, Quiet
<1>4. ASSUME NEW a \in Actors, StopNetActor(a) PROVE Quiet
  BY <1>4, <1>0 DEF StopNetActor, Quiet
<1>5. ASSUME EraseNetActor PROVE Quiet
  BY <1>5, <1>0 DEF EraseNetActor, Quiet
<1>6. ASSUME ReadBegin PROVE Quiet
  BY <1>6, <1>0 DEF ReadBegin, Quiet
<1>7. ASSUME ReadEnd PROVE Quiet
  BY <1>7, <1>0 DEF ReadEnd, Quiet
<1>8. ASSUME NEW a \in Actors, Handle(a) PROVE Quiet
  BY <1>8, HandleKeepsGot DEF Handle, Quiet
<1>9. ASSUME DrainTry PROVE Quiet
  BY <1>9, <1>0 DEF DrainTry, Quiet
<1>10. ASSUME DrainBegin PROVE Quiet
  BY <1>10, <1>0 DEF DrainBegin, Quiet
<1>11. ASSUME DrainSkip PROVE Quiet
  BY <1>11, <1>0 DEF DrainSkip, Quiet
<1>12. ASSUME NEW n \in Names, DrainNext(n) PROVE Quiet
  BY <1>12, <1>0 DEF DrainNext, Visiting, Quiet
<1>13. ASSUME DrainEnd PROVE Quiet
  BY <1>13, <1>0 DEF DrainEnd, Quiet
<1>14. ASSUME PhaseTwo PROVE Quiet
  BY <1>14, <1>0 DEF PhaseTwo, Quiet
<1>15. ASSUME Collect PROVE Quiet
  BY <1>15, <1>0 DEF Collect, Quiet
<1>16. ASSUME CollectSkip PROVE Quiet
  BY <1>16, <1>0 DEF CollectSkip, Quiet
<1>17. ASSUME UNCHANGED vars PROVE Quiet
  BY <1>17, <1>0 DEF vars, Quiet
<1>18. QED
  BY <1>1, <1>2, <1>3, <1>4, <1>5, <1>6, <1>7, <1>8, <1>9, <1>10, <1>11, <1>12, <1>13,
     <1>14, <1>15, <1>16, <1>17 DEF Next, ActorStep, MailboxWorker

\* What is in an exchange, and how many were published on it.
LEMMA PubType ==
  ASSUME TypeOK, NEW n \in Names
  PROVE  /\ pub[n] \in Seq(Envelopes) /\ Len(pub[n]) \in Nat /\ count[n] \in Nat
         /\ DOMAIN pub[n] = 1 .. Len(pub[n])
<1>1. pub[n] \in Seq(Envelopes) /\ count[n] \in Nat
  BY ExchangeAssumption DEF TypeOK
<1>2. QED BY <1>1, LenProperties

\* A publication takes the next number and the last place in its exchange.
LEMMA PushEffect ==
  ASSUME TypeOK, Budget, NEW a \in Actors, PublishPush(a), NEW n \in Names
  PROVE  /\ UNCHANGED <<live, subs, wk, mail, handled>>
         /\ n # posting[a] => pub'[n] = pub[n] /\ count'[n] = count[n]
         /\ n = posting[a] => /\ count'[n] = count[n] + 1
                              /\ Len(pub'[n]) = Len(pub[n]) + 1
                              /\ \A i \in 1 .. Len(pub[n]) : pub'[n][i] = pub[n][i]
                              /\ pub'[n][Len(pub[n]) + 1] = Envelope(n, count[n] + 1)
<1>1. UNCHANGED <<live, subs, wk, mail, handled>>
  BY DEF PublishPush
<1>2. CASE n # posting[a]
  BY <1>1, <1>2 DEF PublishPush, TypeOK
<1>3. CASE n = posting[a]
  <2> DEFINE e == Envelope(n, count[n] + 1)
  <2>1. e \in Envelopes
    BY <1>3, RoomToPush DEF PublishPush, Envelope, Envelopes
  <2>2. count'[n] = count[n] + 1 /\ pub'[n] = Append(pub[n], e)
    BY <1>3 DEF PublishPush, TypeOK
  <2> HIDE DEF e
  <2>3. /\ Len(pub'[n]) = Len(pub[n]) + 1 /\ pub'[n][Len(pub[n]) + 1] = e
        /\ \A i \in 1 .. Len(pub[n]) : pub'[n][i] = pub[n][i]
    BY <2>1, <2>2, PubType, AppendProperties
  <2>4. QED BY <1>1, <1>3, <2>2, <2>3 DEF e
<1>4. QED BY <1>2, <1>3

\* try_pop takes the first publication out of the exchange.
LEMMA PopEffect ==
  ASSUME TypeOK, NEW n \in Names, DrainPop(n)
  PROVE  /\ UNCHANGED <<live, subs, count, mail, handled>>
         /\ wk.pc = "drain" /\ wk'.pc = "copy" /\ wk'.env = pub[n][1] /\ wk'.done = 0
         /\ \A m \in Names \ {n} : pub'[m] = pub[m]
         /\ Len(pub[n]) > 0 /\ Len(pub'[n]) = Len(pub[n]) - 1
         /\ \A i \in 1 .. Len(pub[n]) - 1 : pub'[n][i] = pub[n][i + 1]
<1>1. /\ UNCHANGED <<live, subs, count, mail, handled>>
      /\ wk.pc = "drain" /\ wk'.pc = "copy" /\ wk'.env = Head(pub[n]) /\ wk'.done = 0
      /\ \A m \in Names \ {n} : pub'[m] = pub[m]
      /\ pub[n] # <<>> /\ pub'[n] = Tail(pub[n])
  BY DEF DrainPop, Visiting, At, Others, TypeOK
<1>2. /\ Head(pub[n]) = pub[n][1] /\ Len(Tail(pub[n])) = Len(pub[n]) - 1
      /\ \A i \in 1 .. Len(Tail(pub[n])) : Tail(pub[n])[i] = pub[n][i + 1]
  BY <1>1, PubType, HeadTailProperties
<1>3. Len(pub[n]) > 0
  BY <1>1, PubType, EmptySeq
<1>4. QED BY <1>1, <1>2, <1>3

\* The clean-up takes what was in an exchange with it.
LEMMA EraseEffect ==
  ASSUME TypeOK, Locks, EraseExchanges, NEW n \in Names
  PROVE  /\ UNCHANGED <<live, count, mail, handled>> /\ wk.pc = "erase" /\ wk'.pc = "idle"
         /\ n \notin wk.left => pub'[n] = pub[n] /\ subs'[n] = subs[n]
         /\ n \in wk.left => /\ pub'[n] = <<>> /\ subs'[n] = <<>>
                             /\ \A a \in live : Subscriptions(a, n) = {}
  BY DEF EraseExchanges, Others, Idle, At, Locks, Unused, Subscriptions, TypeOK

\* publish_to_exchange and try_pop keep the envelopes of an exchange in order.
LEMMA NextNumbered == TypeOK /\ Budget /\ Locks /\ Numbered /\ [Next]_vars => Numbered'
<1> SUFFICES ASSUME TypeOK, Budget, Locks, Numbered, [Next]_vars, NEW n \in Names
             PROVE  NumberedAt(n)'
  BY DEF Numbered
<1>0. NumberedAt(n) /\ Len(pub[n]) \in Nat /\ count[n] \in Nat
  BY PubType DEF Numbered
<1>1. ASSUME NEW a \in Actors, PublishPush(a) PROVE NumberedAt(n)'
  <2>1. CASE n # posting[a]
    BY <1>0, <1>1, <2>1, PushEffect DEF NumberedAt, Drained, Copying
  <2>2. CASE n = posting[a]
    <3>1. /\ wk' = wk /\ count'[n] = count[n] + 1 /\ Len(pub'[n]) = Len(pub[n]) + 1
          /\ \A i \in 1 .. Len(pub[n]) : pub'[n][i] = pub[n][i]
          /\ pub'[n][Len(pub[n]) + 1] = Envelope(n, count[n] + 1)
      BY <1>1, <2>2, PushEffect
    <3>2. Drained(n)' = Drained(n) /\ Drained(n) + (Len(pub[n]) + 1) = count[n] + 1
      BY <1>0, <3>1 DEF Drained
    <3>3. ASSUME NEW i \in 1 .. Len(pub'[n]) PROVE pub'[n][i] = Envelope(n, Drained(n) + i)
      <4>1. CASE i = Len(pub[n]) + 1
        BY <3>1, <3>2, <4>1
      <4>2. CASE i \in 1 .. Len(pub[n])
        BY <1>0, <3>1, <4>2 DEF NumberedAt
      <4>3. QED BY <1>0, <3>1, <4>1, <4>2
    <3>4. QED BY <1>0, <3>1, <3>2, <3>3 DEF NumberedAt, Copying
  <2>3. QED BY <2>1, <2>2
<1>2. ASSUME NEW a \in Actors, NEW m \in Names, SubscribeToExchange(a, m) PROVE NumberedAt(n)'
  BY <1>0, <1>2 DEF SubscribeToExchange, NumberedAt, Drained, Copying
<1>3. ASSUME NEW m \in Names, DrainPop(m) PROVE NumberedAt(n)'
  <2>0. pub[m][1] = Envelope(m, Drained(m) + 1) /\ Len(pub[m]) \in Nat /\ count[m] \in Nat
    BY <1>3, PopEffect, PubType DEF Numbered, NumberedAt
  <2>1. wk'.pc = "copy" /\ wk'.env.ex = m /\ wk'.env.no = Drained(m) + 1 /\ count' = count
    BY <1>3, <2>0, PopEffect DEF Envelope
  <2>2. CASE n # m
    BY <1>0, <1>3, <2>1, <2>2, PopEffect DEF NumberedAt, Drained, Copying
  <2>3. CASE n = m
    <3>1. /\ Len(pub[n]) > 0 /\ Len(pub'[n]) = Len(pub[n]) - 1
          /\ \A i \in 1 .. Len(pub[n]) - 1 : pub'[n][i] = pub[n][i + 1]
      BY <1>3, <2>3, PopEffect
    <3>2. Drained(n)' = Drained(n) + 1 /\ Drained(n) \in Int
      <4>1. count'[n] = count[n]
        BY <2>1
      <4>2. QED BY <1>0, <3>1, <4>1 DEF Drained
    <3>3. ASSUME NEW i \in 1 .. Len(pub'[n]) PROVE pub'[n][i] = Envelope(n, (Drained(n) + 1) + i)
      <4>1. i \in 1 .. Len(pub[n]) - 1
        BY <3>1
      <4>2. i + 1 \in 1 .. Len(pub[n])
        BY <1>0, <4>1
      <4>3. Drained(n) + (i + 1) = (Drained(n) + 1) + i
        BY <3>2
      <4>4. QED BY <1>0, <3>1, <4>1, <4>2, <4>3 DEF NumberedAt
    <3>4. QED BY <1>0, <2>1, <2>3, <3>1, <3>2, <3>3 DEF NumberedAt, Copying
  <2>4. QED BY <2>2, <2>3
<1>4. CASE Copy
  BY <1>0, <1>4, CopyEffect DEF NumberedAt, Drained, Copying
<1>5. CASE CopyDone
  BY <1>0, <1>5 DEF CopyDone, Others, At, NumberedAt, Drained, Copying
<1>6. CASE EraseExchanges
  <2>1. CASE n \notin wk.left
    BY <1>0, <1>6, <2>1, EraseEffect DEF NumberedAt, Drained, Copying
  <2>2. CASE n \in wk.left
    BY <1>0, <1>6, <2>2, EraseEffect DEF NumberedAt, Drained, Copying
  <2>3. QED BY <2>1, <2>2
<1>7. CASE Quiet
  BY <1>0, <1>7 DEF Quiet, NumberedAt, Drained, Copying
<1>8. QED BY <1>1, <1>2, <1>3, <1>4, <1>5, <1>6, <1>7, Kinds

\* Envelopes leave an exchange and never come back.
LEMMA DrainedGrows ==
  ASSUME TypeOK, Budget, Locks, [Next]_vars, NEW n \in Names
  PROVE  Drained(n) \in Int /\ Drained(n)' \in Int /\ Drained(n) <= Drained(n)'
<1>0. Len(pub[n]) \in Nat /\ count[n] \in Nat
  BY PubType
<1>1. CASE pub'[n] = pub[n] /\ count'[n] = count[n]
  BY <1>0, <1>1 DEF Drained
<1>2. ASSUME NEW a \in Actors, PublishPush(a), n = posting[a]
      PROVE  Len(pub'[n]) = Len(pub[n]) + 1 /\ count'[n] = count[n] + 1
  BY <1>2, PushEffect
<1>3. ASSUME DrainPop(n) PROVE Len(pub[n]) > 0 /\ Len(pub'[n]) = Len(pub[n]) - 1 /\ count' = count
  BY <1>3, PopEffect
<1>4. ASSUME EraseExchanges, n \in wk.left PROVE Len(pub'[n]) = 0 /\ count' = count
  BY <1>4, EraseEffect
<1>5. \/ pub'[n] = pub[n] /\ count'[n] = count[n]
      \/ \E a \in Actors : PublishPush(a) /\ n = posting[a]
      \/ DrainPop(n)
      \/ EraseExchanges /\ n \in wk.left
  <2>1. ASSUME NEW a \in Actors, PublishPush(a), n # posting[a]
        PROVE  pub'[n] = pub[n] /\ count'[n] = count[n]
    BY <2>1, PushEffect
  <2>2. ASSUME NEW m \in Names, DrainPop(m), n # m
        PROVE  pub'[n] = pub[n] /\ count'[n] = count[n]
    BY <2>2, PopEffect
  <2>3. ASSUME EraseExchanges, n \notin wk.left
        PROVE  pub'[n] = pub[n] /\ count'[n] = count[n]
    BY <2>3, EraseEffect
  <2>4. ASSUME Copy PROVE pub'[n] = pub[n] /\ count'[n] = count[n]
    BY <2>4, CopyEffect
  <2>5. ASSUME CopyDone PROVE pub'[n] = pub[n] /\ count'[n] = count[n]
    BY <2>5 DEF CopyDone, Others
  <2>6. ASSUME Quiet PROVE pub'[n] = pub[n] /\ count'[n] = count[n]
    BY <2>6 DEF Quiet
  <2>7. ASSUME NEW a \in Actors, NEW m \in Names, SubscribeToExchange(a, m)
        PROVE  pub'[n] = pub[n] /\ count'[n] = count[n]
    BY <2>7 DEF SubscribeToExchange
  <2>8. QED BY <2>1, <2>2, <2>3, <2>4, <2>5, <2>6, <2>7, Kinds
<1>6. CASE \E a \in Actors : PublishPush(a) /\ n = posting[a]
  <2>1. Len(pub'[n]) = Len(pub[n]) + 1 /\ count'[n] = count[n] + 1
    BY <1>2, <1>6
  <2>2. Drained(n) = count[n] - Len(pub[n]) /\ Drained(n)' = count'[n] - Len(pub'[n])
    BY DEF Drained
  <2> DEFINE c == count[n]
             l == Len(pub[n])
  <2>3. /\ c \in Nat /\ l \in Nat
        /\ Drained(n) = c - l /\ Drained(n)' = (c + 1) - (l + 1)
    BY <1>0, <2>1, <2>2
  <2> HIDE DEF c, l
  <2>4. QED BY <2>3
<1>7. CASE DrainPop(n)
  BY <1>0, <1>3, <1>7 DEF Drained
<1>8. CASE EraseExchanges /\ n \in wk.left
  BY <1>0, <1>4, <1>8 DEF Drained
<1>9. QED BY <1>1, <1>5, <1>6, <1>7, <1>8

\* Only the fan-out gives an actor anything.
LEMMA OnlyCopyGives ==
  ASSUME TypeOK, Budget, Locks, [Next]_vars
  PROVE  Copy \/ \A a \in Actors : Got(a)' = Got(a)
<1> DEFINE Same == \A a \in Actors : Got(a)' = Got(a)
<1>0. ASSUME UNCHANGED <<mail, handled>> PROVE Same
  BY <1>0 DEF Got
<1>1. ASSUME NEW a \in Actors, PublishPush(a) PROVE Same
  BY <1>0, <1>1 DEF PublishPush
<1>2. ASSUME NEW a \in Actors, NEW n \in Names, SubscribeToExchange(a, n) PROVE Same
  BY <1>0, <1>2 DEF SubscribeToExchange
<1>3. ASSUME NEW n \in Names, DrainPop(n) PROVE Same
  BY <1>0, <1>3 DEF DrainPop, Others
<1>4. ASSUME CopyDone PROVE Same
  BY <1>0, <1>4 DEF CopyDone, Others
<1>5. ASSUME EraseExchanges PROVE Same
  BY <1>0, <1>5 DEF EraseExchanges, Others
<1>6. ASSUME Quiet PROVE Same
  BY <1>6 DEF Quiet
<1> HIDE DEF Same
<1>7. Copy \/ Same
  BY <1>1, <1>2, <1>3, <1>4, <1>5, <1>6, Kinds
<1>8. QED BY <1>7 DEF Same

\* A copy comes after all that its receiver has got.
LEMMA CopyAppends ==
  ASSUME TypeOK, Copy, NEW a \in Actors
  PROVE  \/ Got(a)' = Got(a)
         \/ /\ a = Receiver /\ a \in live
            /\ DOMAIN Got(a)' = DOMAIN Got(a) \cup {Len(Got(a)) + 1}
            /\ Len(Got(a)) + 1 \notin DOMAIN Got(a)
            /\ \A i \in DOMAIN Got(a) : Got(a)'[i] = Got(a)[i] /\ i < Len(Got(a)) + 1
            /\ Got(a)'[Len(Got(a)) + 1] = wk.env
<1> DEFINE g == Got(a)
           h == Append(g, wk.env)
<1>1. g \in Seq(Envelopes) /\ Len(g) \in Nat /\ DOMAIN g = 1 .. Len(g) /\ wk.env \in Envelopes
  BY GotType, CopyEffect
<1>2. Got(a)' = g \/ (a = Receiver /\ a \in live /\ Got(a)' = h)
  BY CopyEffect
<1> HIDE DEF g
<1>3. /\ DOMAIN h = 1 .. Len(g) + 1 /\ h[Len(g) + 1] = wk.env
      /\ \A i \in 1 .. Len(g) : h[i] = g[i]
  BY <1>1, AppendProperties, LenProperties
<1>4. 1 .. Len(g) + 1 = (1 .. Len(g)) \cup {Len(g) + 1}
  BY <1>1
<1>5. \A i \in 1 .. Len(g) : i < Len(g) + 1
  BY <1>1
<1>6. Len(g) + 1 \notin 1 .. Len(g)
  BY <1>1
<1> HIDE DEF h
<1>7. CASE a = Receiver /\ a \in live /\ Got(a)' = h
  BY <1>1, <1>3, <1>4, <1>5, <1>6, <1>7 DEF g
<1>8. QED BY <1>2, <1>7 DEF g

\* The receiver of a copy gets it.
LEMMA CopyGrows ==
  ASSUME TypeOK, Copy, NEW a \in Actors, a = Receiver, a \in live
  PROVE  Got(a)' # Got(a)
<1>1. Got(a)' = Append(Got(a), wk.env)
  BY CopyEffect
<1>2. Len(Append(Got(a), wk.env)) = Len(Got(a)) + 1 /\ Len(Got(a)) \in Nat
  BY GotType, CopyEffect, AppendProperties
<1>3. QED BY <1>1, <1>2

\* Nobody gets an envelope before it is taken out of its exchange, ...
LEMMA NextBelow ==
  ASSUME TypeOK, Budget, Locks, Numbered, Below, [Next]_vars
  PROVE  Below'
<1> SUFFICES ASSUME NEW a \in Actors, NEW i \in DOMAIN Got(a)'
             PROVE  (Got(a)[i].no <= Drained(Got(a)[i].ex))'
  BY DEF Below
<1>1. ASSUME i \in DOMAIN Got(a), Got(a)'[i] = Got(a)[i]
      PROVE  (Got(a)[i].no <= Drained(Got(a)[i].ex))'
  <2>1. PICK n \in Names : n = Got(a)[i].ex
    BY <1>1, GotType
  <2>2. Got(a)[i].no \in Nat /\ Got(a)[i].no <= Drained(n)
    BY <1>1, <2>1, GotType DEF Below
  <2>3. Drained(n) \in Int /\ Drained(n)' \in Int /\ Drained(n) <= Drained(n)'
    BY DrainedGrows
  <2>4. Got(a)[i].no <= Drained(n)'
    BY <2>2, <2>3
  <2>5. QED BY <1>1, <2>1, <2>4 DEF Drained
<1>2. ASSUME Copy, Got(a)'[i] = wk.env
      PROVE  (Got(a)[i].no <= Drained(Got(a)[i].ex))'
  <2>1. PICK n \in Names : n = wk.env.ex
    BY <1>2, CopyEffect
  <2>2. wk.env.no \in Nat /\ UNCHANGED <<pub, count>> /\ Copying(n)
    BY <1>2, <2>1, CopyEffect DEF Copying
  <2>3. wk.env.no = Drained(n)
    BY <2>2 DEF Numbered, NumberedAt
  <2>4. Drained(n)' = Drained(n)
    BY <2>2 DEF Drained
  <2>5. wk.env.no <= Drained(n)'
    BY <2>2, <2>3, <2>4
  <2>6. QED BY <1>2, <2>1, <2>5 DEF Drained
<1>3. CASE Got(a)' = Got(a)
  BY <1>1, <1>3
<1>4. CASE Copy /\ Got(a)' # Got(a)
  <2> DEFINE l == Len(Got(a)) + 1
  <2>1. /\ DOMAIN Got(a)' = DOMAIN Got(a) \cup {l} /\ Got(a)'[l] = wk.env
        /\ \A k \in DOMAIN Got(a) : Got(a)'[k] = Got(a)[k]
    BY <1>4, CopyAppends
  <2>2. (i \in DOMAIN Got(a) /\ Got(a)'[i] = Got(a)[i]) \/ Got(a)'[i] = wk.env
    BY <2>1
  <2>3. QED BY <1>1, <1>2, <1>4, <2>2
<1>5. QED BY <1>3, <1>4, OnlyCopyGives

\* ... so that a copy has the highest number its receiver has from that exchange.
LEMMA NextOrdered ==
  ASSUME TypeOK, Budget, Locks, Numbered, Below, Ordered, [Next]_vars
  PROVE  Ordered'
<1> SUFFICES ASSUME NEW a \in Actors, NEW i \in DOMAIN Got(a)', NEW j \in DOMAIN Got(a)',
                    i < j, Got(a)'[i].ex = Got(a)'[j].ex
             PROVE  Got(a)'[i].no <= Got(a)'[j].no
  BY DEF Ordered
<1>1. CASE Got(a)' = Got(a)
  BY <1>1 DEF Ordered
<1>2. CASE Copy /\ Got(a)' # Got(a)
  <2> DEFINE l == Len(Got(a)) + 1
  <2>1. /\ DOMAIN Got(a)' = DOMAIN Got(a) \cup {l} /\ Got(a)'[l] = wk.env
        /\ \A k \in DOMAIN Got(a) : Got(a)'[k] = Got(a)[k] /\ k < l
    BY <1>2, CopyAppends
  <2>2. DOMAIN Got(a) = 1 .. Len(Got(a)) /\ Len(Got(a)) \in Nat
    BY GotType
  <2>3. i \in DOMAIN Got(a) /\ (j \in DOMAIN Got(a) \/ j = l)
    BY <2>1, <2>2
  <2>4. CASE j \in DOMAIN Got(a)
    BY <2>1, <2>3, <2>4 DEF Ordered
  <2>5. CASE j = l
    <3>1. wk.env.no = Drained(wk.env.ex)
      BY <1>2, CopyEffect DEF Numbered, NumberedAt, Copying
    <3>2. Got(a)[i].no <= Drained(Got(a)[i].ex)
      BY <2>3 DEF Below
    <3>3. Got(a)'[i] = Got(a)[i] /\ Got(a)'[j] = wk.env
      BY <2>1, <2>3, <2>5
    <3>4. QED BY <3>1, <3>2, <3>3
  <2>6. QED BY <2>3, <2>4, <2>5
<1>3. QED BY <1>1, <1>2, OnlyCopyGives

\* Actors are stopped, and none is registered anew.
LEMMA LiveShrinks ==
  ASSUME TypeOK, Budget, Locks, [Next]_vars
  PROVE  live' \subseteq live
<1>1. ASSUME NEW a \in Actors, PublishPush(a) PROVE live' = live
  BY <1>1 DEF PublishPush
<1>2. ASSUME NEW a \in Actors, NEW n \in Names, SubscribeToExchange(a, n) PROVE live' = live
  BY <1>2 DEF SubscribeToExchange
<1>3. ASSUME NEW n \in Names, DrainPop(n) PROVE live' = live
  BY <1>3 DEF DrainPop, Others
<1>4. ASSUME Copy \/ CopyDone \/ EraseExchanges PROVE live' = live
  BY <1>4 DEF Copy, CopyDone, EraseExchanges, Others
<1>5. ASSUME Quiet PROVE live' \subseteq live
  BY <1>5 DEF Quiet
<1>6. QED BY <1>1, <1>2, <1>3, <1>4, <1>5, Kinds

\* subscribe_to_exchange adds to the subscribers of an exchange, not while mailbox_worker
\* goes through them.
LEMMA SubscribeEffect ==
  ASSUME TypeOK, NEW b \in Actors, NEW m \in Names, SubscribeToExchange(b, m), NEW n \in Names
  PROVE  /\ UNCHANGED <<live, pub, count, mail, handled, wk>> /\ wk.pc # "copy"
         /\ subs[n] \in Seq(Actors) /\ subs'[n] \in Seq(Actors)
         /\ \A a : Subscriptions(a, n) \subseteq Subscriptions(a, n)'
<1>1. UNCHANGED <<live, pub, count, mail, handled, wk>> /\ wk.pc # "copy"
  BY DEF SubscribeToExchange, ExShared
<1>2. subs'[n] = subs[n] \/ subs'[n] = Append(subs[n], b)
  BY DEF SubscribeToExchange, TypeOK
<1>3. subs[n] \in Seq(Actors)
  BY DEF TypeOK
<1> DEFINE s == subs[n]
           t == Append(s, b)
<1>4. /\ t \in Seq(Actors) /\ DOMAIN s \subseteq DOMAIN t
      /\ \A i \in DOMAIN s : t[i] = s[i]
  <2> HIDE DEF s
  <2>1. Len(s) \in Nat /\ DOMAIN s = 1 .. Len(s)
    BY <1>3, LenProperties DEF s
  <2>2. t \in Seq(Actors) /\ DOMAIN t = 1 .. Len(s) + 1 /\ \A i \in 1 .. Len(s) : t[i] = s[i]
    BY <1>3, <2>1, AppendProperties, LenProperties DEF s
  <2>3. QED BY <2>1, <2>2
<1> HIDE DEF s, t
<1>5. subs'[n] = s \/ subs'[n] = t
  BY <1>2 DEF s, t
<1>6. subs'[n] \in Seq(Actors) /\ \A a : Subscriptions(a, n) \subseteq Subscriptions(a, n)'
  BY <1>3, <1>4, <1>5 DEF Subscriptions, s
<1>7. QED BY <1>1, <1>3, <1>6

\* A step without Copy leaves the positions and the numbers of what a has got.
LEMMA ReceivedStays ==
  ASSUME NEW a \in Actors, Got(a)' = Got(a), NEW n \in Names
  PROVE  From(a, n)' = From(a, n) /\ Received(a, n)' = Received(a, n)
  BY DEF From, Received

\* What a turn of the fan-out adds.
LEMMA CopyReceived ==
  ASSUME TypeOK, Copy, NEW a \in Actors, NEW n \in Names
  PROVE  LET new == a = Receiver /\ a \in live /\ n = wk.env.ex
             l   == Len(Got(a)) + 1
         IN  /\ new => /\ From(a, n)' = From(a, n) \cup {l} /\ l \notin From(a, n)
                       /\ Received(a, n)' = Received(a, n) \cup {wk.env.no}
             /\ ~new => From(a, n)' = From(a, n) /\ Received(a, n)' = Received(a, n)
<1> DEFINE l == Len(Got(a)) + 1
<1>1. CASE Got(a)' = Got(a) /\ ~(a = Receiver /\ a \in live)
  BY <1>1, ReceivedStays
<1>2. CASE a = Receiver /\ a \in live
  <2>0. Got(a)' # Got(a)
    BY <1>2, CopyGrows
  <2>1. /\ DOMAIN Got(a)' = DOMAIN Got(a) \cup {l} /\ Got(a)'[l] = wk.env /\ l \notin DOMAIN Got(a)
        /\ \A i \in DOMAIN Got(a) : Got(a)'[i] = Got(a)[i]
    BY <2>0, CopyAppends
  <2> HIDE DEF l
  <2>2. CASE n = wk.env.ex
    <3>1. From(a, n)' = From(a, n) \cup {l} /\ l \notin From(a, n)
      BY <2>1, <2>2 DEF From
    <3>2. Received(a, n)' = Received(a, n) \cup {wk.env.no}
      <4>1. \A x : x \in Received(a, n)' <=> \E i \in From(a, n) \cup {l} : x = Got(a)'[i].no
        BY <3>1 DEF Received
      <4>2. \A i \in From(a, n) : Got(a)'[i] = Got(a)[i]
        BY <2>1 DEF From
      <4>3. \A x : x \in Received(a, n)' <=> (\E i \in From(a, n) : x = Got(a)[i].no) \/ x = wk.env.no
        BY <2>1, <4>1, <4>2
      <4>4. QED BY <4>3 DEF Received
    <3>3. QED BY <1>2, <2>2, <3>1, <3>2 DEF l
  <2>3. CASE n # wk.env.ex
    <3>1. From(a, n)' = From(a, n)
      BY <2>1, <2>3 DEF From
    <3>2. Received(a, n)' = Received(a, n)
      BY <2>1, <3>1 DEF Received, From
    <3>3. QED BY <2>3, <3>1, <3>2
  <2>4. QED BY <2>2, <2>3
<1>3. QED BY <1>1, <1>2, CopyEffect

\* The exchange of a registered receiver is not erased, nor is it dropped from the list.
LEMMA NextSubscribed ==
  ASSUME TypeOK, Budget, Locks, Subscribed, [Next]_vars
  PROVE  Subscribed'
<1> SUFFICES ASSUME NEW a \in live', NEW n \in Names, From(a, n)' # {}
             PROVE  Subscriptions(a, n)' # {}
  BY DEF Subscribed
<1>0. a \in live /\ a \in Actors
  BY LiveShrinks DEF TypeOK
<1>1. ASSUME From(a, n) # {}, Subscriptions(a, n) \subseteq Subscriptions(a, n)'
      PROVE  Subscriptions(a, n)' # {}
  BY <1>0, <1>1 DEF Subscribed
<1>2. CASE Copy
  <2>1. subs' = subs /\ wk.done + 1 \in DOMAIN subs[wk.env.ex]
    BY <1>2, CopyEffect
  <2>2. Subscriptions(a, n)' = Subscriptions(a, n)
    BY <2>1 DEF Subscriptions
  <2>3. CASE a = Receiver /\ n = wk.env.ex
    BY <2>1, <2>2, <2>3 DEF Subscriptions, Receiver
  <2>4. CASE ~(a = Receiver /\ n = wk.env.ex)
    BY <1>0, <1>1, <1>2, <2>2, <2>4, CopyReceived
  <2>5. QED BY <2>3, <2>4
<1>3. CASE \A b \in Actors : Got(b)' = Got(b)
  <2>0. From(a, n) # {}
    BY <1>0, <1>3, ReceivedStays
  <2>1. ASSUME subs' = subs PROVE Subscriptions(a, n)' # {}
    BY <1>1, <2>0, <2>1 DEF Subscriptions
  <2>2. ASSUME NEW b \in Actors, NEW m \in Names, SubscribeToExchange(b, m)
        PROVE  Subscriptions(a, n)' # {}
    BY <1>1, <2>0, <2>2, SubscribeEffect
  <2>3. CASE EraseExchanges
    <3>1. n \notin wk.left
      BY <1>0, <2>0, <2>3, EraseEffect DEF Subscribed
    <3>2. QED BY <1>1, <2>0, <2>3, <3>1, EraseEffect DEF Subscriptions
  <2>4. ASSUME NEW b \in Actors, PublishPush(b) PROVE subs' = subs
    BY <2>4 DEF PublishPush
  <2>5. ASSUME NEW m \in Names, DrainPop(m) PROVE subs' = subs
    BY <2>5 DEF DrainPop
  <2>6. ASSUME CopyDone \/ Copy PROVE subs' = subs
    BY <2>6 DEF CopyDone, Copy
  <2>7. ASSUME Quiet PROVE subs' = subs
    BY <2>7 DEF Quiet
  <2>8. QED BY <2>1, <2>2, <2>3, <2>4, <2>5, <2>6, <2>7, Kinds
<1>4. QED BY <1>2, <1>3, OnlyCopyGives

\* The places of a in the list of n, and the numbers it has got.
LEMMA PlaceTypes ==
  ASSUME TypeOK, NEW a \in Actors, NEW n \in Names
  PROVE  /\ subs[n] \in Seq(Actors) /\ Len(subs[n]) \in Nat /\ DOMAIN subs[n] = 1 .. Len(subs[n])
         /\ Subscriptions(a, n) \subseteq 1 .. Len(subs[n])
         /\ From(a, n) \subseteq 1 .. Len(Got(a)) /\ Len(Got(a)) \in Nat
         /\ Received(a, n) \subseteq 1 .. MaxCalls
<1>1. subs[n] \in Seq(Actors)
  BY DEF TypeOK
<1>2. Len(subs[n]) \in Nat /\ DOMAIN subs[n] = 1 .. Len(subs[n])
  BY <1>1, LenProperties
<1>3. Subscriptions(a, n) \subseteq 1 .. Len(subs[n])
  BY <1>2 DEF Subscriptions
<1>4. From(a, n) \subseteq 1 .. Len(Got(a)) /\ Len(Got(a)) \in Nat
  BY GotType DEF From
<1>5. Received(a, n) \subseteq 1 .. MaxCalls
  BY GotType DEF Received, From
<1>6. QED BY <1>1, <1>2, <1>3, <1>4, <1>5

\* The fan-out leaves nobody out who is in the list: when the loop over subscribes has
\* ended, every registered subscriber has its copy.
LEMMA NextComplete ==
  ASSUME TypeOK, Budget, Locks, Numbered, Subscribed, Complete, [Next]_vars
  PROVE  Complete'
<1> SUFFICES ASSUME NEW a \in live', NEW n \in Names, NEW k \in Received(a, n)',
                    NEW m \in 1 .. MaxCalls, k <= m, m <= Drained(n)'
             PROVE  (\/ m \in Received(a, n)
                     \/ Copying(n) /\ wk.env.no = m
                           /\ \A i \in Subscriptions(a, n) : wk.done < i)'
  BY DEF Complete
<1> DEFINE Coming == Copying(n) /\ wk.env.no = m /\ \A i \in Subscriptions(a, n) : wk.done < i
           Goal == m \in Received(a, n)' \/ Coming'
<1> SUFFICES Goal
  OBVIOUS
<1>0. a \in live /\ a \in Actors
  BY LiveShrinks DEF TypeOK
<1>1. Drained(n) \in Int /\ Drained(n)' \in Int /\ m \in Int
  BY DrainedGrows
<1>2. ASSUME k \in Received(a, n), m <= Drained(n) PROVE m \in Received(a, n) \/ Coming
  BY <1>0, <1>2 DEF Complete
<1>3. ASSUME Drained(n)' = Drained(n), UNCHANGED <<live, wk>>,
             \A b \in Actors : Got(b)' = Got(b),
             Copying(n) => Subscriptions(a, n)' = Subscriptions(a, n)
      PROVE  Goal
  <2>1. Received(a, n)' = Received(a, n)
    BY <1>0, <1>3, ReceivedStays
  <2>2. Copying(n)' = Copying(n)
    BY <1>3 DEF Copying
  <2>3. QED BY <1>2, <1>3, <2>1, <2>2
<1>4. ASSUME UNCHANGED <<mail, handled>> PROVE \A b \in Actors : Got(b)' = Got(b)
  BY <1>4 DEF Got
<1> HIDE DEF Goal
<1>5. ASSUME NEW b \in Actors, PublishPush(b) PROVE Goal
  <2>1. UNCHANGED <<live, wk, subs, mail, handled>>
    BY <1>5 DEF PublishPush
  <2>2. Drained(n)' = Drained(n)
    <3>1. Len(pub[n]) \in Nat /\ count[n] \in Nat
      BY PubType
    <3>2. \/ pub'[n] = pub[n] /\ count'[n] = count[n]
          \/ count'[n] = count[n] + 1 /\ Len(pub'[n]) = Len(pub[n]) + 1
      BY <1>5, PushEffect
    <3>3. QED BY <3>1, <3>2 DEF Drained
  <2>3. Subscriptions(a, n)' = Subscriptions(a, n)
    BY <2>1 DEF Subscriptions
  <2>4. QED BY <1>3, <1>4, <2>1, <2>2, <2>3
<1>6. ASSUME NEW b \in Actors, NEW x \in Names, SubscribeToExchange(b, x) PROVE Goal
  <2>1. UNCHANGED <<live, pub, count, mail, handled, wk>> /\ wk.pc # "copy"
    BY <1>6, SubscribeEffect
  <2>2. Drained(n)' = Drained(n) /\ ~Copying(n)
    BY <2>1 DEF Drained, Copying
  <2>3. QED BY <1>3, <1>4, <2>1, <2>2
<1>7. ASSUME NEW x \in Names, DrainPop(x) PROVE Goal
  <2>1. /\ UNCHANGED <<live, subs, count, mail, handled>>
        /\ wk.pc = "drain" /\ wk'.pc = "copy" /\ wk'.env = pub[x][1] /\ wk'.done = 0
        /\ \A y \in Names \ {x} : pub'[y] = pub[y]
        /\ Len(pub[x]) > 0 /\ Len(pub'[x]) = Len(pub[x]) - 1
    BY <1>7, PopEffect
  <2>2. Received(a, n)' = Received(a, n) /\ ~Coming
    BY <1>0, <1>4, <2>1, ReceivedStays DEF Copying
  <2>3. CASE m <= Drained(n)
    BY <1>2, <2>2, <2>3 DEF Goal
  <2>4. CASE ~(m <= Drained(n))
    <3>0. Len(pub[n]) \in Nat /\ count[n] \in Nat
      BY PubType
    <3>1. x = n
      <4>1. x # n => Drained(n)' = Drained(n)
        BY <2>1 DEF Drained
      <4>2. QED BY <2>4, <4>1
    <3>2. Drained(n)' = Drained(n) + 1 /\ pub[n][1] = Envelope(n, Drained(n) + 1)
      BY <2>1, <3>0, <3>1 DEF Drained, Numbered, NumberedAt
    <3>3. m = Drained(n) + 1
      BY <1>1, <2>4, <3>2
    <3>4. Copying(n)' /\ wk'.env.no = m
      BY <2>1, <3>1, <3>2, <3>3 DEF Copying, Envelope
    <3>5. Subscriptions(a, n)' = Subscriptions(a, n)
      BY <2>1 DEF Subscriptions
    <3>6. \A i \in Subscriptions(a, n) : wk'.done < i
      BY <1>0, <2>1, PlaceTypes
    <3>7. QED BY <3>4, <3>5, <3>6 DEF Goal
  <2>5. QED BY <2>3, <2>4
<1>8. ASSUME Copy PROVE Goal
  <2>1. /\ wk.pc = "copy" /\ wk'.pc = "copy" /\ wk'.env = wk.env /\ wk'.done = wk.done + 1
        /\ UNCHANGED <<live, subs, pub, count>> /\ wk.done \in Nat
        /\ wk.env.no \in 1 .. MaxCalls
    BY <1>8, CopyEffect
  <2>2. Drained(n)' = Drained(n) /\ Subscriptions(a, n)' = Subscriptions(a, n)
    BY <2>1 DEF Drained, Subscriptions
  <2>3. Copying(n)' <=> Copying(n)
    BY <2>1 DEF Copying
  <2>4. CASE a = Receiver /\ n = wk.env.ex
    <3>1. Received(a, n)' = Received(a, n) \cup {wk.env.no}
      BY <1>0, <1>8, <2>4, CopyReceived
    <3>2. CASE k \in Received(a, n)
      <4>1. m \in Received(a, n) \/ wk.env.no = m
        BY <1>2, <2>2, <3>2
      <4>2. QED BY <3>1, <4>1 DEF Goal
    <3>3. CASE k = wk.env.no
      <4>1. wk.env.no = Drained(n)
        BY <2>1, <2>4 DEF Numbered, NumberedAt, Copying
      <4>2. m = wk.env.no
        BY <1>1, <2>2, <3>3, <4>1
      <4>3. QED BY <3>1, <4>2 DEF Goal
    <3>4. QED BY <3>1, <3>2, <3>3
  <2>5. CASE ~(a = Receiver /\ n = wk.env.ex)
    <3>1. Received(a, n)' = Received(a, n)
      BY <1>0, <1>8, <2>5, CopyReceived
    <3>2. m \in Received(a, n) \/ Coming
      BY <1>2, <2>2, <3>1
    <3>3. ASSUME Coming PROVE Coming'
      <4>1. n = wk.env.ex /\ a # Receiver
        BY <2>5, <3>3 DEF Copying
      <4>2. ASSUME NEW i \in Subscriptions(a, n) PROVE wk.done + 1 < i
        <5>1. i \in Nat /\ wk.done < i
          BY <1>0, <3>3, PlaceTypes
        <5>2. i # wk.done + 1
          BY <4>1 DEF Subscriptions, Receiver
        <5>3. QED BY <2>1, <5>1, <5>2
      <4>3. QED BY <2>1, <2>2, <2>3, <3>3, <4>2
    <3>4. QED BY <3>1, <3>2, <3>3 DEF Goal
  <2>6. QED BY <2>4, <2>5
<1>9. ASSUME CopyDone PROVE Goal
  <2>1. /\ UNCHANGED <<live, subs, pub, count, mail, handled>>
        /\ wk.pc = "copy" /\ wk.done = Len(subs[wk.env.ex])
    BY <1>9 DEF CopyDone, Others
  <2>2. Received(a, n)' = Received(a, n)
    BY <1>0, <1>4, <2>1, ReceivedStays
  <2>3. Drained(n)' = Drained(n)
    BY <2>1 DEF Drained
  <2>4. m \in Received(a, n) \/ Coming
    BY <1>2, <2>2, <2>3
  <2>5. ~Coming
    <3>1. PICK i \in Subscriptions(a, n) : TRUE
      <4>1. From(a, n) # {}
        BY <2>2 DEF Received
      <4>2. QED BY <1>0, <4>1 DEF Subscribed
    <3>2. i \in 1 .. Len(subs[n]) /\ Len(subs[n]) \in Nat
      BY <1>0, PlaceTypes
    <3>3. SUFFICES ASSUME Coming PROVE FALSE
      OBVIOUS
    <3>4. wk.done = Len(subs[n]) /\ wk.done < i
      BY <2>1, <3>3 DEF Copying
    <3>5. QED BY <3>2, <3>4
  <2>6. QED BY <2>2, <2>4, <2>5 DEF Goal
<1>10. ASSUME EraseExchanges PROVE Goal
  <2>1. /\ UNCHANGED <<live, count, mail, handled>> /\ wk.pc = "erase"
        /\ n \notin wk.left => pub'[n] = pub[n]
        /\ n \in wk.left => Subscriptions(a, n) = {}
    BY <1>0, <1>10, EraseEffect
  <2>2. Received(a, n)' = Received(a, n)
    BY <1>0, <1>4, <2>1, ReceivedStays
  <2>3. n \notin wk.left
    <3>1. From(a, n) # {}
      BY <2>2 DEF Received
    <3>2. QED BY <1>0, <2>1, <3>1 DEF Subscribed
  <2>4. Drained(n)' = Drained(n) /\ ~Coming
    BY <2>1, <2>3 DEF Drained, Copying
  <2>5. QED BY <1>2, <2>2, <2>4 DEF Goal
<1>11. ASSUME Quiet PROVE Goal
  <2>1. /\ UNCHANGED <<subs, pub, count>>
        /\ \A b \in Actors : Got(b)' = Got(b)
        /\ UNCHANGED wk \/ (wk.pc # "copy" /\ wk'.pc # "copy")
    BY <1>11 DEF Quiet
  <2>2. Received(a, n)' = Received(a, n)
    BY <1>0, <2>1, ReceivedStays
  <2>3. Drained(n)' = Drained(n) /\ Subscriptions(a, n)' = Subscriptions(a, n)
    BY <2>1 DEF Drained, Subscriptions
  <2>4. m \in Received(a, n) \/ Coming
    BY <1>2, <2>2, <2>3
  <2>5. ASSUME Coming PROVE Coming'
    <3>1. UNCHANGED wk
      BY <2>1, <2>5 DEF Copying
    <3>2. QED BY <2>3, <2>5, <3>1 DEF Copying
  <2>6. QED BY <2>2, <2>4, <2>5 DEF Goal
<1>12. QED BY <1>5, <1>6, <1>7, <1>8, <1>9, <1>10, <1>11, Kinds

\* The sets that InOrder counts are finite.
LEMMA CountedFinite ==
  ASSUME TypeOK, NEW a \in Actors, NEW n \in Names, NEW k \in 1 .. MaxCalls
  PROVE  /\ IsFiniteSet(CopiesOf(a, n, k)) /\ Cardinality(CopiesOf(a, n, k)) \in Nat
         /\ IsFiniteSet(Allowed(a, n, k)) /\ Cardinality(Allowed(a, n, k)) \in Nat
         /\ IsFiniteSet(Subscriptions(a, n)) /\ Cardinality(Subscriptions(a, n)) \in Nat
         /\ Cardinality(Allowed(a, n, k)) <= Cardinality(Subscriptions(a, n))
<1>1. /\ CopiesOf(a, n, k) \subseteq 1 .. Len(Got(a)) /\ Len(Got(a)) \in Nat
      /\ Subscriptions(a, n) \subseteq 1 .. Len(subs[n]) /\ Len(subs[n]) \in Nat
  BY PlaceTypes DEF CopiesOf
<1>2. Allowed(a, n, k) \subseteq Subscriptions(a, n)
  BY DEF Allowed
<1>3. IsFiniteSet(1 .. Len(Got(a))) /\ IsFiniteSet(1 .. Len(subs[n]))
  <2>1. \A N \in Nat : IsFiniteSet(1 .. N)
    BY FS_Interval
  <2>2. QED BY <1>1, <2>1
<1>4. IsFiniteSet(CopiesOf(a, n, k)) /\ IsFiniteSet(Subscriptions(a, n))
  BY <1>1, <1>3, FS_Subset
<1>5. /\ IsFiniteSet(Allowed(a, n, k))
      /\ Cardinality(Allowed(a, n, k)) <= Cardinality(Subscriptions(a, n))
  BY <1>2, <1>4, FS_Subset
<1>6. QED BY <1>4, <1>5, FS_CardinalityType

\* A turn of the fan-out adds a copy where it serves a subscription, and there only.
LEMMA CopyCounts ==
  ASSUME TypeOK, Copy, NEW a \in live, NEW n \in Names, NEW k \in 1 .. MaxCalls
  PROVE  LET new == a = Receiver /\ n = wk.env.ex /\ k = wk.env.no
             l   == Len(Got(a)) + 1
         IN  /\ new => /\ CopiesOf(a, n, k)' = CopiesOf(a, n, k) \cup {l}
                       /\ l \notin CopiesOf(a, n, k)
                       /\ Allowed(a, n, k)' = Allowed(a, n, k) \cup {wk.done + 1}
                       /\ wk.done + 1 \notin Allowed(a, n, k)
             /\ ~new => /\ CopiesOf(a, n, k)' = CopiesOf(a, n, k)
                        /\ Allowed(a, n, k)' = Allowed(a, n, k)
<1> DEFINE l == Len(Got(a)) + 1
           d == wk.done
<1>0. a \in Actors
  BY DEF TypeOK
<1>1. /\ wk.pc = "copy" /\ wk'.pc = "copy" /\ wk'.env = wk.env /\ wk'.done = d + 1
      /\ subs' = subs /\ d \in Nat /\ d + 1 \in DOMAIN subs[wk.env.ex]
  BY CopyEffect
<1>2. Subscriptions(a, n)' = Subscriptions(a, n) /\ Subscriptions(a, n) \subseteq Nat
  BY <1>0, <1>1, PlaceTypes DEF Subscriptions
<1>3. CASE n = wk.env.ex /\ k = wk.env.no
  <2>1. /\ Allowed(a, n, k) = {i \in Subscriptions(a, n) : i <= d}
        /\ Allowed(a, n, k)' = {i \in Subscriptions(a, n) : i <= d + 1}
    BY <1>1, <1>2, <1>3 DEF Allowed, Copying
  <2>2. \A i \in Subscriptions(a, n) : i <= d + 1 <=> i <= d \/ i = d + 1
    BY <1>1, <1>2
  <2>3. ~(d + 1 <= d)
    BY <1>1
  <2>4. d + 1 \in Subscriptions(a, n) <=> a = Receiver
    BY <1>1, <1>3 DEF Subscriptions, Receiver
  <2> HIDE DEF d
  <2>5. /\ a = Receiver => Allowed(a, n, k)' = Allowed(a, n, k) \cup {d + 1}
        /\ a # Receiver => Allowed(a, n, k)' = Allowed(a, n, k)
        /\ d + 1 \notin Allowed(a, n, k)
    BY <2>1, <2>2, <2>3, <2>4
  <2>6. CASE a # Receiver
    <3>1. Got(a)' = Got(a)
      BY <1>0, <2>6, CopyEffect
    <3>2. CopiesOf(a, n, k)' = CopiesOf(a, n, k)
      BY <3>1 DEF CopiesOf, From
    <3>3. QED BY <2>5, <2>6, <3>2
  <2>7. CASE a = Receiver
    <3>1. /\ DOMAIN Got(a)' = DOMAIN Got(a) \cup {l} /\ Got(a)'[l] = wk.env /\ l \notin DOMAIN Got(a)
          /\ \A i \in DOMAIN Got(a) : Got(a)'[i] = Got(a)[i]
      BY <1>0, <2>7, CopyAppends, CopyGrows
    <3> HIDE DEF l
    <3>2. CopiesOf(a, n, k)' = CopiesOf(a, n, k) \cup {l} /\ l \notin CopiesOf(a, n, k)
      BY <1>3, <3>1 DEF CopiesOf, From
    <3>3. QED BY <1>3, <2>5, <2>7, <3>2 DEF l, d
  <2>8. QED BY <2>6, <2>7
<1>4. CASE ~(n = wk.env.ex /\ k = wk.env.no)
  <2>1. Allowed(a, n, k)' = Allowed(a, n, k)
    BY <1>1, <1>2, <1>4 DEF Allowed, Copying
  <2>2. CopiesOf(a, n, k)' = CopiesOf(a, n, k)
    <3>1. CASE Got(a)' = Got(a)
      BY <3>1 DEF CopiesOf, From
    <3>2. CASE Got(a)' # Got(a)
      <4>1. /\ DOMAIN Got(a)' = DOMAIN Got(a) \cup {l} /\ Got(a)'[l] = wk.env
            /\ l \notin DOMAIN Got(a)
            /\ \A i \in DOMAIN Got(a) : Got(a)'[i] = Got(a)[i]
        BY <1>0, <3>2, CopyAppends
      <4> HIDE DEF l
      <4>2. QED BY <1>4, <4>1 DEF CopiesOf, From
    <3>3. QED BY <3>1, <3>2
  <2>3. QED BY <1>4, <2>1, <2>2
<1>5. QED BY <1>3, <1>4

\* Nobody gets more copies of an envelope than it has subscriptions: each turn of the
\* loop over subscribes serves one.
LEMMA NextLimited ==
  ASSUME TypeOK, Budget, Locks, Numbered, Below, Limited, [Next]_vars
  PROVE  Limited'
<1> SUFFICES ASSUME NEW a \in live', NEW n \in Names, NEW k \in 1 .. MaxCalls
             PROVE  (Cardinality(CopiesOf(a, n, k)) <= Cardinality(Allowed(a, n, k)))'
  BY DEF Limited
<1> DEFINE Goal == Cardinality(CopiesOf(a, n, k)') <= Cardinality(Allowed(a, n, k)')
<1> SUFFICES Goal
  OBVIOUS
<1>0. a \in live /\ a \in Actors
  BY LiveShrinks DEF TypeOK
<1>1. /\ IsFiniteSet(CopiesOf(a, n, k)) /\ Cardinality(CopiesOf(a, n, k)) \in Nat
      /\ IsFiniteSet(Allowed(a, n, k)) /\ Cardinality(Allowed(a, n, k)) \in Nat
      /\ Cardinality(CopiesOf(a, n, k)) <= Cardinality(Allowed(a, n, k))
  BY <1>0, CountedFinite DEF Limited
<1>2. ASSUME CopiesOf(a, n, k)' = CopiesOf(a, n, k), Allowed(a, n, k)' = Allowed(a, n, k)
      PROVE  Goal
  BY <1>1, <1>2
<1>3. ASSUME Got(a)' = Got(a) PROVE CopiesOf(a, n, k)' = CopiesOf(a, n, k)
  BY <1>3 DEF CopiesOf, From
<1>4. ASSUME UNCHANGED <<mail, handled>> PROVE Got(a)' = Got(a)
  BY <1>4 DEF Got
<1> HIDE DEF Goal
<1>5. ASSUME NEW b \in Actors, PublishPush(b) PROVE Goal
  <2>1. UNCHANGED <<subs, wk, mail, handled>>
    BY <1>5 DEF PublishPush
  <2>2. Allowed(a, n, k)' = Allowed(a, n, k)
    BY <2>1 DEF Allowed, Copying, Subscriptions
  <2>3. QED BY <1>2, <1>3, <1>4, <2>1, <2>2
<1>6. ASSUME NEW b \in Actors, NEW x \in Names, SubscribeToExchange(b, x) PROVE Goal
  <2>1. /\ UNCHANGED <<mail, handled, wk>> /\ wk.pc # "copy" /\ subs'[n] \in Seq(Actors)
        /\ Subscriptions(a, n) \subseteq Subscriptions(a, n)'
    BY <1>6, SubscribeEffect
  <2>2. Allowed(a, n, k) \subseteq Allowed(a, n, k)'
    BY <2>1 DEF Allowed, Copying
  <2>3. IsFiniteSet(Allowed(a, n, k)')
    <3>1. Len(subs'[n]) \in Nat /\ DOMAIN subs'[n] = 1 .. Len(subs'[n])
      BY <2>1, LenProperties
    <3>2. Allowed(a, n, k)' \subseteq 1 .. Len(subs'[n])
      BY <3>1 DEF Allowed, Subscriptions
    <3>3. IsFiniteSet(1 .. Len(subs'[n]))
      BY <3>1, FS_Interval
    <3>4. QED BY <3>2, <3>3, FS_Subset
  <2>4. /\ Cardinality(Allowed(a, n, k)') \in Nat
        /\ Cardinality(Allowed(a, n, k)) <= Cardinality(Allowed(a, n, k)')
    BY <2>2, <2>3, FS_Subset, FS_CardinalityType
  <2>5. CopiesOf(a, n, k)' = CopiesOf(a, n, k)
    BY <1>3, <1>4, <2>1
  <2>6. QED BY <1>1, <2>4, <2>5 DEF Goal
<1>7. ASSUME NEW x \in Names, DrainPop(x) PROVE Goal
  <2>1. /\ UNCHANGED <<live, subs, count, mail, handled>>
        /\ wk.pc = "drain" /\ wk'.pc = "copy" /\ wk'.env = pub[x][1] /\ wk'.done = 0
        /\ Len(pub[x]) > 0
    BY <1>7, PopEffect
  <2>2. CopiesOf(a, n, k)' = CopiesOf(a, n, k)
    BY <1>3, <1>4, <2>1
  <2>3. Len(pub[x]) \in Nat /\ count[x] \in Nat
    BY PubType
  <2>4. wk'.env.ex = x /\ wk'.env.no = Drained(x) + 1 /\ Drained(x) \in Int
    <3>1. pub[x][1] = Envelope(x, Drained(x) + 1)
      BY <2>1, <2>3 DEF Numbered, NumberedAt
    <3>2. QED BY <2>1, <2>3, <3>1 DEF Envelope, Drained
  <2>5. CASE n = x /\ k = Drained(x) + 1
    <3>1. CopiesOf(a, n, k) = {}
      <4>1. SUFFICES ASSUME NEW i \in CopiesOf(a, n, k) PROVE FALSE
        OBVIOUS
      <4>2. i \in DOMAIN Got(a) /\ Got(a)[i].ex = n /\ Got(a)[i].no = k
        BY DEF CopiesOf, From
      <4>3. k <= Drained(n)
        BY <1>0, <4>2 DEF Below
      <4>4. QED BY <2>4, <2>5, <4>3
    <3>2. Allowed(a, n, k)' \subseteq 1 .. Len(subs[n]) /\ Len(subs[n]) \in Nat
      BY <1>0, <2>1, PlaceTypes DEF Allowed, Subscriptions
    <3>3. IsFiniteSet(1 .. Len(subs[n]))
      BY <3>2, FS_Interval
    <3>4. Cardinality(Allowed(a, n, k)') \in Nat
      BY <3>2, <3>3, FS_Subset, FS_CardinalityType
    <3>5. Cardinality(CopiesOf(a, n, k)') = 0
      BY <2>2, <3>1, FS_EmptySet
    <3>6. QED BY <3>4, <3>5 DEF Goal
  <2>6. CASE ~(n = x /\ k = Drained(x) + 1)
    <3>1. Allowed(a, n, k)' = Allowed(a, n, k)
      BY <2>1, <2>4, <2>6 DEF Allowed, Copying, Subscriptions
    <3>2. QED BY <1>2, <2>2, <3>1
  <2>7. QED BY <2>5, <2>6
<1>8. ASSUME Copy PROVE Goal
  <2> DEFINE C == CopiesOf(a, n, k)
             A == Allowed(a, n, k)
             D == CopiesOf(a, n, k)'
             B == Allowed(a, n, k)'
             l == Len(Got(a)) + 1
             d == wk.done + 1
  <2>1. (D = C /\ B = A) \/ (D = C \cup {l} /\ l \notin C /\ B = A \cup {d} /\ d \notin A)
    BY <1>0, <1>8, CopyCounts
  <2>2. IsFiniteSet(C) /\ IsFiniteSet(A) /\ Cardinality(C) <= Cardinality(A)
    BY <1>1
  <2> HIDE DEF A, B, C, D, l, d
  <2>3. /\ Cardinality(C) \in Nat /\ Cardinality(A) \in Nat
        /\ l \notin C => Cardinality(C \cup {l}) = Cardinality(C) + 1
        /\ d \notin A => Cardinality(A \cup {d}) = Cardinality(A) + 1
    BY <2>2, OneMoreOrLess
  <2>4. Cardinality(D) <= Cardinality(B)
    <3>1. CASE D = C /\ B = A
      BY <2>2, <3>1
    <3>2. CASE D = C \cup {l} /\ l \notin C /\ B = A \cup {d} /\ d \notin A
      <4>1. Cardinality(D) = Cardinality(C) + 1 /\ Cardinality(B) = Cardinality(A) + 1
        BY <2>3, <3>2
      <4>2. QED BY <2>2, <2>3, <4>1
    <3>3. QED BY <2>1, <3>1, <3>2
  <2>5. QED BY <2>4 DEF Goal, B, D
<1>9. ASSUME CopyDone PROVE Goal
  <2>1. /\ UNCHANGED <<subs, mail, handled>>
        /\ wk.pc = "copy" /\ wk.done = Len(subs[wk.env.ex]) /\ wk'.pc = "drain"
    BY <1>9 DEF CopyDone, Others, At
  <2>2. Subscriptions(a, n)' = Subscriptions(a, n)
    BY <2>1 DEF Subscriptions
  <2>3. \A i \in Subscriptions(a, n) : Copying(n) => i <= wk.done
    BY <1>0, <2>1, PlaceTypes DEF Copying
  <2>4. Allowed(a, n, k)' = Allowed(a, n, k)
    BY <2>1, <2>2, <2>3 DEF Allowed, Copying
  <2>5. QED BY <1>2, <1>3, <1>4, <2>1, <2>4
<1>10. ASSUME EraseExchanges PROVE Goal
  <2>1. /\ UNCHANGED <<mail, handled>> /\ wk.pc = "erase" /\ wk'.pc = "idle"
        /\ n \notin wk.left => subs'[n] = subs[n]
        /\ n \in wk.left => subs'[n] = <<>> /\ Subscriptions(a, n) = {}
    BY <1>0, <1>10, EraseEffect
  <2>2. Subscriptions(a, n)' = Subscriptions(a, n)
    BY <2>1 DEF Subscriptions
  <2>3. Allowed(a, n, k)' = Allowed(a, n, k)
    BY <2>1, <2>2 DEF Allowed, Copying
  <2>4. QED BY <1>2, <1>3, <1>4, <2>1, <2>3
<1>11. ASSUME Quiet PROVE Goal
  <2>1. /\ subs' = subs /\ \A b \in Actors : Got(b)' = Got(b)
        /\ UNCHANGED wk \/ (wk.pc # "copy" /\ wk'.pc # "copy")
    BY <1>11 DEF Quiet
  <2>2. Allowed(a, n, k)' = Allowed(a, n, k)
    BY <2>1 DEF Allowed, Copying, Subscriptions
  <2>3. QED BY <1>0, <1>2, <1>3, <2>1, <2>2
<1>12. QED BY <1>5, <1>6, <1>7, <1>8, <1>9, <1>10, <1>11, Kinds

-----------------------------------------------------------------------------
(* The second invariant *)

\* IInv, and what the fan-out has done so far.
FanInv == IInv /\ Numbered /\ Below /\ Ordered /\ Limited /\ Subscribed /\ Complete

\* Nobody has got anything at first.
LEMMA InitFanInv == Init => FanInv
<1> SUFFICES ASSUME Init PROVE FanInv
  OBVIOUS
<1>1. IInv
  BY InitIInv
<1>2. TypeOK
  BY <1>1 DEF IInv
<1>3. \A a \in Actors : Got(a) = <<>>
  <2>1. \A a \in Actors : Got(a) = <<>> \o <<>>
    BY DEF Got, Init
  <2>2. <<>> \o <<>> = <<>>
    OBVIOUS
  <2>3. QED BY <2>1, <2>2
<1>4. \A a \in Actors : DOMAIN Got(a) = {}
  BY <1>3
<1>5. \A a \in Actors, n \in Names : From(a, n) = {} /\ Received(a, n) = {}
  BY <1>4 DEF From, Received
<1>6. Below /\ Ordered
  BY <1>4 DEF Below, Ordered
<1>7. Subscribed /\ Complete
  BY <1>2, <1>5 DEF Subscribed, Complete, TypeOK
<1>8. Limited
  <2> SUFFICES ASSUME NEW a \in live, NEW n \in Names, NEW k \in 1 .. MaxCalls
               PROVE  Cardinality(CopiesOf(a, n, k)) <= Cardinality(Allowed(a, n, k))
    BY DEF Limited
  <2>1. a \in Actors
    BY <1>2 DEF TypeOK
  <2>2. CopiesOf(a, n, k) = {}
    BY <1>5, <2>1 DEF CopiesOf
  <2>3. Cardinality(CopiesOf(a, n, k)) = 0
    BY <2>2, FS_EmptySet
  <2>4. QED BY <1>2, <2>1, <2>3, CountedFinite
<1>9. Numbered
  <2> SUFFICES ASSUME NEW n \in Names PROVE NumberedAt(n)
    BY DEF Numbered
  <2>1. pub[n] = <<>> /\ count[n] = 0 /\ ~Copying(n)
    BY DEF Init, Copying, Idle, At
  <2>2. Len(pub[n]) = 0
    BY <2>1
  <2>3. QED BY <2>1, <2>2 DEF NumberedAt
<1>10. QED BY <1>1, <1>6, <1>7, <1>8, <1>9 DEF FanInv

\* Every step keeps it.
LEMMA NextFanInv == FanInv /\ [Next]_vars => FanInv'
<1> SUFFICES ASSUME FanInv, [Next]_vars PROVE FanInv'
  OBVIOUS
<1>1. TypeOK /\ Budget /\ Locks /\ IInv'
  BY NextIInv DEF FanInv, IInv
<1>2. Numbered' /\ Below' /\ Ordered'
  BY <1>1, NextNumbered, NextBelow, NextOrdered DEF FanInv
<1>3. Limited' /\ Subscribed' /\ Complete'
  BY <1>1, NextLimited, NextSubscribed, NextComplete DEF FanInv
<1>4. QED BY <1>1, <1>2, <1>3 DEF FanInv

\* It holds in every reachable state.
LEMMA FanInvariant == Spec => []FanInv
  BY InitFanInv, NextFanInv, PTL DEF Spec

\* Every subscriber gets the envelopes of an exchange in the order of publication, and
\* none more often than it has subscribed, for any number of actors, exchanges and
\* calls (context.cpp:551-563).
THEOREM DeliveryInOrder == Spec => []InOrder
<1>1. FanInv => InOrder
  <2> SUFFICES ASSUME FanInv, NEW a \in Actors, NEW n \in Names
               PROVE  /\ \A i, j \in From(a, n) : i < j => Got(a)[i].no <= Got(a)[j].no
                      /\ a \in live => \A k \in Received(a, n) :
                            Cardinality({i \in From(a, n) : Got(a)[i].no = k})
                               <= Cardinality(Subscriptions(a, n))
    BY DEF InOrder
  <2>1. \A i, j \in From(a, n) : i < j => Got(a)[i].no <= Got(a)[j].no
    BY DEF FanInv, Ordered, From
  <2>2. ASSUME a \in live, NEW k \in Received(a, n)
        PROVE  Cardinality({i \in From(a, n) : Got(a)[i].no = k}) <= Cardinality(Subscriptions(a, n))
    <3>1. k \in 1 .. MaxCalls
      BY PlaceTypes DEF FanInv, IInv
    <3>2. Cardinality(CopiesOf(a, n, k)) <= Cardinality(Allowed(a, n, k))
      BY <2>2, <3>1 DEF FanInv, Limited
    <3>3. /\ Cardinality(CopiesOf(a, n, k)) \in Nat /\ Cardinality(Allowed(a, n, k)) \in Nat
          /\ Cardinality(Subscriptions(a, n)) \in Nat
          /\ Cardinality(Allowed(a, n, k)) <= Cardinality(Subscriptions(a, n))
      BY <3>1, CountedFinite DEF FanInv, IInv
    <3>4. Cardinality(CopiesOf(a, n, k)) <= Cardinality(Subscriptions(a, n))
      BY <3>2, <3>3
    <3>5. QED BY <3>4 DEF CopiesOf
  <2>3. QED BY <2>1, <2>2
<1>2. QED BY <1>1, FanInvariant, PTL

\* From the first envelope on, a registered subscriber misses none, whoever stops,
\* subscribes or publishes meanwhile (context.cpp:553-562, 604-622).
THEOREM DeliveryWithoutGap == Spec => []NoGap
<1>1. FanInv => NoGap
  <2> SUFFICES ASSUME FanInv, NEW a \in live, NEW n \in Names, NEW k \in Received(a, n),
                      NEW m \in k .. count[n], m \notin Received(a, n)
               PROVE  m \in {pub[n][i].no : i \in DOMAIN pub[n]}
                               \cup IF wk.pc = "copy" /\ wk.env.ex = n THEN {wk.env.no} ELSE {}
    BY DEF NoGap
  <2>1. TypeOK /\ a \in Actors /\ NumberedAt(n)
    BY DEF FanInv, IInv, TypeOK, Numbered
  <2>2. /\ Len(pub[n]) \in Nat /\ count[n] \in 0 .. MaxCalls /\ DOMAIN pub[n] = 1 .. Len(pub[n])
        /\ k \in 1 .. MaxCalls
    <3>1. count[n] \in 0 .. MaxCalls
      BY <2>1 DEF TypeOK
    <3>2. QED BY <2>1, <3>1, PubType, PlaceTypes
  <2>3. m \in 1 .. MaxCalls /\ k <= m /\ m <= count[n]
    BY <2>2, ExchangeAssumption
  <2>4. CASE m <= Drained(n)
    <3>1. Copying(n) /\ wk.env.no = m
      BY <2>3, <2>4 DEF FanInv, Complete
    <3>2. QED BY <3>1 DEF Copying
  <2>5. CASE ~(m <= Drained(n))
    <3>1. Drained(n) = count[n] - Len(pub[n])
      BY DEF Drained
    <3>2. m - Drained(n) \in 1 .. Len(pub[n]) /\ Drained(n) + (m - Drained(n)) = m
      BY <2>2, <2>3, <2>5, <3>1
    <3>3. pub[n][m - Drained(n)].no = m
      <4> DEFINE i == m - Drained(n)
      <4>1. pub[n][i] = Envelope(n, Drained(n) + i)
        BY <2>1, <3>2 DEF NumberedAt
      <4>2. Envelope(n, m).no = m
        BY DEF Envelope
      <4>3. QED BY <3>2, <4>1, <4>2
    <3>4. QED BY <2>2, <3>2, <3>3
  <2>6. QED BY <2>4, <2>5
<1>2. QED BY <1>1, FanInvariant, PTL
=============================================================================
