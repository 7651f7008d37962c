------------------------------ MODULE Exchange ------------------------------
(***************************************************************************)
(* Publish/subscribe in yaaf::context (context.cpp): named exchanges, the  *)
(* calls actors make on them, and the two phases of mailbox_worker that    *)
(* fan publications out to the subscribers and erase what nobody uses.     *)
(*                                                                         *)
(* Two reader/writer locks meet here. _exchange_locker guards _exchanges,  *)
(* _locker guards _actors and _mboxes. A section that excludes everybody   *)
(* it could interfere with is one step, enabled while its locks are free;  *)
(* the others (publishing, fanning out, cleaning up) hold their locks over *)
(* several steps: see ExShared ... LockExclusive.                          *)
(*                                                                         *)
(* The callers are actors, through their user_context, which fills in the  *)
(* caller's address. An actor that has been stopped may still be inside a  *)
(* callback, so its calls are not excluded. Dispatch to the actor, the     *)
(* second phase of mailbox_worker, is the subject of Context: here a       *)
(* mailbox is emptied by Handle, and phase two only holds _locker.         *)
(*                                                                         *)
(* Listener and connection actors (context_network.cpp) are special in one *)
(* respect: their on_stop, which runs under _locker, takes                 *)
(* _exchange_locker as well, the other way round from the fan-out.         *)
(***************************************************************************)
EXTENDS Naturals, Sequences, FiniteSets

CONSTANTS
    Actors,     \* the actors, all of them registered at first
    NetActors,  \* those among them that are listener or connection actors
    Names,      \* the names of exchanges
    None,       \* no owner, no name
    MaxCalls    \* bound: how many calls on exchanges, and look-ups, are made

ASSUME ExchangeAssumption ==
    /\ NetActors \subseteq Actors
    /\ None \notin Actors \cup Names
    /\ MaxCalls \in Nat

VARIABLES
    live,       \* the keys of _actors and of _mboxes
    owner,      \* owner[n]: exchange_t::owner; None when n is not in _exchanges
    subs,       \* subs[n]: exchange_t::subscribes
    pub,        \* pub[n]: the mailbox exchange_t::pub
    mail,       \* mail[a]: the mailbox of actor a
    handled,    \* handled[a]: what a has taken out of its mailbox, in order
    posting,    \* posting[a]: the exchange a's publish_to_exchange has found
    stopping,   \* the actor whose on_stop waits for _exchange_locker under _locker
    reading,    \* somebody holds _locker shared, in a call such as get_actor
    wk,         \* the locals of mailbox_worker
    count,      \* count[n]: how many envelopes were published on n
    calls       \* how many calls were made

vars == <<live, owner, subs, pub, mail, handled, posting, stopping, reading, wk, count, calls>>
exVars == <<owner, subs, pub, count>>

\* The k-th envelope published on n.
Envelope(n, k) == [ex |-> n, no |-> k]
Envelopes == [ex : Names, no : 1 .. MaxCalls]

\* mailbox_worker: where it is, the exchanges it has yet to visit (while it
\* erases: ex_to_remove), the envelope it has popped and how many of the
\* subscriptions have had their copy.
At(l, left, e, i) == [pc |-> l, left |-> left, env |-> e, done |-> i]
Idle == At("idle", {}, None, 0)

Exists(n) == owner[n] # None

\* Who holds which lock between two steps.
ExShared      == \/ \E a \in Actors : posting[a] # None
                 \/ wk.pc \in {"try", "drain", "copy"}
ExExclusive   == wk.pc = "erase"
LockShared    == reading \/ wk.pc \in {"look", "erase"}
LockExclusive == wk.pc \in {"drain", "copy"} \/ stopping # None

TypeOK ==
    /\ live \subseteq Actors
    /\ owner \in [Names -> Actors \cup {None}]
    /\ subs \in [Names -> Seq(Actors)]
    /\ pub \in [Names -> Seq(Envelopes)]
    /\ mail \in [Actors -> Seq(Envelopes)]
    /\ handled \in [Actors -> Seq(Envelopes)]
    /\ posting \in [Actors -> Names \cup {None}]
    /\ stopping \in NetActors \cup {None}
    /\ reading \in BOOLEAN
    /\ wk \in [pc : {"idle", "try", "drain", "copy", "phase2", "look", "erase"},
               left : SUBSET Names, env : Envelopes \cup {None}, done : Nat]
    /\ wk.pc = "copy" => wk.env \in Envelopes /\ wk.done \in 0 .. Len(subs[wk.env.ex])
    /\ count \in [Names -> 0 .. MaxCalls]
    /\ calls \in 0 .. MaxCalls
    \* What exchange_t holds dies with it, and what was never drained is in pub.
    /\ \A n \in Names : ~Exists(n) => subs[n] = <<>> /\ pub[n] = <<>>

Init ==
    /\ live = Actors
    /\ owner = [n \in Names |-> None]
    /\ subs = [n \in Names |-> <<>>]
    /\ pub = [n \in Names |-> <<>>]
    /\ mail = [a \in Actors |-> <<>>]
    /\ handled = [a \in Actors |-> <<>>]
    /\ posting = [a \in Actors |-> None]
    /\ stopping = None
    /\ reading = FALSE
    /\ wk = Idle
    /\ count = [n \in Names |-> 0]
    /\ calls = 0

\* One more call; an actor makes one at a time.
Called(a) == /\ posting[a] = None
             /\ calls < MaxCalls
             /\ calls' = calls + 1

-----------------------------------------------------------------------------
(* Calls of actors                                                         *)

\* create_exchange: under the exclusive _exchange_locker; nothing happens when
\* the name is taken, whoever owns it.
CreateExchange(a, n) ==
    /\ Called(a)
    /\ ~ExShared /\ ~ExExclusive
    /\ owner' = IF Exists(n) THEN owner ELSE [owner EXCEPT ![n] = a]
    /\ UNCHANGED <<live, subs, pub, mail, handled, posting, stopping, reading, wk, count>>

\* subscribe_to_exchange: std::lock takes both locks exclusively. A missing
\* exchange is created in the subscriber's name; the id is appended, again if
\* it is there already, when the subscriber is still registered.
SubscribeToExchange(a, n) ==
    /\ Called(a)
    /\ ~ExShared /\ ~ExExclusive /\ ~LockShared /\ ~LockExclusive
    /\ owner' = IF Exists(n) THEN owner ELSE [owner EXCEPT ![n] = a]
    /\ subs' = IF a \in live THEN [subs EXCEPT ![n] = Append(@, a)] ELSE subs
    /\ UNCHANGED <<live, pub, mail, handled, posting, stopping, reading, wk, count>>

\* publish_to_exchange up to the push: the exchange is found, and
\* _exchange_locker stays shared. Without an exchange the envelope is dropped.
PublishFind(a, n) ==
    /\ Called(a)
    /\ ~ExExclusive
    /\ posting' = IF Exists(n) THEN [posting EXCEPT ![a] = n] ELSE posting
    /\ UNCHANGED <<live, exVars, mail, handled, stopping, reading, wk>>

\* M_PushFront: the newest envelope is put first.
M_PushFront(a) ==
    /\ posting[a] # None
    /\ LET n == posting[a] IN
       /\ count' = [count EXCEPT ![n] = @ + 1]
       /\ pub' = [pub EXCEPT ![n] = <<Envelope(n, count[n] + 1)>> \o @]
    /\ posting' = [posting EXCEPT ![a] = None]
    /\ UNCHANGED <<live, owner, subs, mail, handled, stopping, reading, wk, calls>>

\* eit->second.pub->push(e), then the lock is released.
PublishPush(a) ==
    /\ posting[a] # None
    /\ LET n == posting[a] IN
       /\ count' = [count EXCEPT ![n] = @ + 1]
       /\ pub' = [pub EXCEPT ![n] = Append(@, Envelope(n, count[n] + 1))]
    /\ posting' = [posting EXCEPT ![a] = None]
    /\ UNCHANGED <<live, owner, subs, mail, handled, stopping, reading, wk, calls>>

-----------------------------------------------------------------------------
(* The rest of the context, as far as it meets exchanges                   *)

\* stop_actor of a leaf: actor and mailbox are erased together under the
\* exclusive _locker; a running apply task may keep the mailbox and empty it.
\* The exchanges are left to mailbox_worker.
StopActor(a) ==
    /\ a \in live \ NetActors
    /\ ~LockShared /\ ~LockExclusive
    /\ live' = live \ {a}
    /\ UNCHANGED <<exVars, mail, handled, posting, stopping, reading, wk, calls>>

\* stop_actor of a listener or connection actor: on_stop calls erase_listener_on or
\* erase_connections, which wait for _exchange_locker while _locker is held ...
StopNetActor(a) ==
    /\ a \in live \cap NetActors
    /\ ~LockShared /\ ~LockExclusive
    /\ stopping' = a
    /\ UNCHANGED <<live, exVars, mail, handled, posting, reading, wk, calls>>

\* ... and once they have had it the actor is erased and both are free.
EraseNetActor ==
    /\ stopping # None
    /\ ~ExShared /\ ~ExExclusive
    /\ live' = live \ {stopping}
    /\ stopping' = None
    /\ UNCHANGED <<exVars, mail, handled, posting, reading, wk, calls>>

\* get_actor and its like hold _locker shared for a while.
ReadBegin ==
    /\ ~reading /\ ~LockExclusive
    /\ calls < MaxCalls /\ calls' = calls + 1
    /\ reading' = TRUE
    /\ UNCHANGED <<live, exVars, mail, handled, posting, stopping, wk>>

ReadEnd ==
    /\ reading
    /\ reading' = FALSE
    /\ UNCHANGED <<live, exVars, mail, handled, posting, stopping, wk, calls>>

\* The actor's apply task takes an envelope; no lock but the mailbox's own.
Handle(a) ==
    /\ mail[a] # <<>>
    /\ handled' = [handled EXCEPT ![a] = Append(@, Head(mail[a]))]
    /\ mail' = [mail EXCEPT ![a] = Tail(@)]
    /\ UNCHANGED <<live, exVars, posting, stopping, reading, wk, calls>>

-----------------------------------------------------------------------------
(* mailbox_worker. A try-lock fails when somebody holds the lock between   *)
(* two steps. One that fails because of a one-step section makes a pass    *)
(* over the loop without effect and is left out.                           *)

Others == <<live, count, handled, posting, stopping, reading, calls>>

\* Phase 1: _exchange_locker is taken shared, ...
DrainTry ==
    /\ wk.pc = "idle"
    /\ ~ExExclusive
    /\ wk' = At("try", {}, None, 0)
    /\ UNCHANGED <<Others, owner, subs, pub, mail>>

\* ... and _locker.try_lock succeeds, ...
DrainBegin ==
    /\ wk.pc = "try"
    /\ ~LockShared /\ ~LockExclusive
    /\ wk' = At("drain", {n \in Names : Exists(n)}, None, 0)
    /\ UNCHANGED <<Others, owner, subs, pub, mail>>

\* M_WaitForLocker: _locker.lock() in place of try_lock().
M_WaitForLocker ==
    /\ wk.pc = "try"
    /\ ~LockShared /\ ~LockExclusive
    /\ wk' = At("phase2", {}, None, 0)
    /\ UNCHANGED <<Others, owner, subs, pub, mail>>

\* ... or fails, because of a reader or of an actor that is being stopped:
\* _exchange_locker is given back and nothing is fanned out this time.
DrainSkip ==
    /\ wk.pc = "try"
    /\ LockShared \/ LockExclusive
    /\ wk' = At("phase2", {}, None, 0)
    /\ UNCHANGED <<Others, owner, subs, pub, mail>>

\* The loop over _exchanges, in any order, is at n.
Visiting(n) ==
    /\ wk.pc = "drain" /\ n \in wk.left
    /\ wk.env # None => wk.env.ex = n

\* kv.second.pub->try_pop(e) finds an envelope ...
DrainPop(n) ==
    /\ Visiting(n) /\ pub[n] # <<>>
    /\ wk' = At("copy", wk.left, Head(pub[n]), 0)
    /\ pub' = [pub EXCEPT ![n] = Tail(@)]
    /\ UNCHANGED <<Others, owner, subs, mail>>

\* ... or none is left, and the loop goes on to the next exchange.
DrainNext(n) ==
    /\ Visiting(n) /\ pub[n] = <<>>
    /\ wk' = At("drain", wk.left \ {n}, None, 0)
    /\ UNCHANGED <<Others, owner, subs, pub, mail>>

\* mb->second->push(e) for a subscription of a, if a has a mailbox.
Deliver(a, e) ==
    mail' = IF a \in live THEN [mail EXCEPT ![a] = Append(@, e)] ELSE mail

\* M_StopAtFirst: the loop over the subscribers ends after the first of them.
M_StopAtFirst ==
    /\ wk.pc = "copy"
    /\ LET s == subs[wk.env.ex] IN
       /\ wk.done < Len(s)
       /\ Deliver(s[1], wk.env)
       /\ wk' = [wk EXCEPT !.done = Len(s)]
    /\ UNCHANGED <<Others, owner, subs, pub>>

\* M_BreakAtStopped: the loop ends at a subscriber that has no mailbox.
M_BreakAtStopped ==
    /\ wk.pc = "copy"
    /\ LET s == subs[wk.env.ex]
           i == wk.done + 1
       IN  /\ i <= Len(s)
           /\ Deliver(s[i], wk.env)
           /\ wk' = [wk EXCEPT !.done = IF s[i] \in live THEN i ELSE Len(s)]
    /\ UNCHANGED <<Others, owner, subs, pub>>

\* The loop over subscribes: the next subscription gets its copy.
Copy ==
    /\ wk.pc = "copy"
    /\ LET s == subs[wk.env.ex]
           i == wk.done + 1
       IN  /\ i <= Len(s)
           /\ Deliver(s[i], wk.env)
           /\ wk' = [wk EXCEPT !.done = i]
    /\ UNCHANGED <<Others, owner, subs, pub>>

CopyDone ==
    /\ wk.pc = "copy" /\ wk.done = Len(subs[wk.env.ex])
    /\ wk' = At("drain", wk.left, wk.env, 0)
    /\ UNCHANGED <<Others, owner, subs, pub, mail>>

\* Every exchange has been visited: both locks are released.
DrainEnd ==
    /\ wk.pc = "drain" /\ wk.left = {}
    /\ wk' = At("phase2", {}, None, 0)
    /\ UNCHANGED <<Others, owner, subs, pub, mail>>

\* Phase 2: _locker is held shared while the mailboxes are looked through; if it
\* cannot be had, mailbox_worker returns.
PhaseTwo ==
    /\ wk.pc = "phase2"
    /\ wk' = IF LockExclusive THEN Idle ELSE At("look", {}, None, 0)
    /\ UNCHANGED <<Others, owner, subs, pub, mail>>

\* M_AnySubscription: an exchange somebody once subscribed to counts as used.
M_AnySubscription(n) ==
    owner[n] \notin live /\ subs[n] = <<>>

\* M_OwnerOnly: an exchange without its owner counts as unused.
M_OwnerOnly(n) ==
    owner[n] \notin live

\* Neither the owner nor any subscriber is registered any more.
Unused(n) ==
    owner[n] \notin live /\ \A i \in DOMAIN subs[n] : subs[n][i] \notin live

\* M_CollectShared: phase 3 does not ask for _exchange_locker.
M_CollectShared ==
    /\ wk.pc = "look"
    /\ wk' = At("erase", {n \in Names : Exists(n) /\ Unused(n)}, None, 0)
    /\ UNCHANGED <<Others, owner, subs, pub, mail>>

\* Phase 3, _exchange_locker.try_lock succeeds: ex_to_remove is collected.
Collect ==
    /\ wk.pc = "look"
    /\ ~ExShared
    /\ wk' = At("erase", {n \in Names : Exists(n) /\ Unused(n)}, None, 0)
    /\ UNCHANGED <<Others, owner, subs, pub, mail>>

\* It fails: no exchange is erased this time.
CollectSkip ==
    /\ wk.pc = "look"
    /\ ExShared
    /\ wk' = Idle
    /\ UNCHANGED <<Others, owner, subs, pub, mail>>

\* M_ForgetPub: the erased exchange's publications survive it.
M_ForgetPub ==
    /\ wk.pc = "erase"
    /\ owner' = [n \in Names |-> IF n \in wk.left THEN None ELSE owner[n]]
    /\ subs' = [n \in Names |-> IF n \in wk.left THEN <<>> ELSE subs[n]]
    /\ wk' = Idle
    /\ UNCHANGED <<Others, pub, mail>>

\* The unused exchanges go, with the publications still in them, and both
\* locks are released. What is in to_remove then is the subject of Context.
EraseExchanges ==
    /\ wk.pc = "erase"
    /\ owner' = [n \in Names |-> IF n \in wk.left THEN None ELSE owner[n]]
    /\ subs' = [n \in Names |-> IF n \in wk.left THEN <<>> ELSE subs[n]]
    /\ pub' = [n \in Names |-> IF n \in wk.left THEN <<>> ELSE pub[n]]
    /\ wk' = Idle
    /\ UNCHANGED <<Others, mail>>

-----------------------------------------------------------------------------
ActorStep(a) ==
    \/ \E n \in Names : \/ CreateExchange(a, n)
                        \/ SubscribeToExchange(a, n)
                        \/ PublishFind(a, n)
    \/ PublishPush(a)
    \/ StopActor(a) \/ StopNetActor(a)
    \/ Handle(a)

MailboxWorker ==
    \/ DrainTry \/ DrainBegin \/ DrainSkip \/ Copy \/ CopyDone \/ DrainEnd
    \/ \E n \in Names : DrainPop(n) \/ DrainNext(n)
    \/ PhaseTwo \/ Collect \/ CollectSkip \/ EraseExchanges

Next ==
    \/ \E a \in Actors : ActorStep(a)
    \/ EraseNetActor
    \/ ReadBegin \/ ReadEnd
    \/ MailboxWorker

Spec == Init /\ [][Next]_vars

\* The SYSTEM pool repeats mailbox_worker for ever, and a call that holds a
\* lock goes on. Who waits in lock() for _exchange_locker is served once those that
\* have it shared have left, whoever may come after them. Nobody need handle mail,
\* call or stop anything.
Fairness ==
    /\ WF_vars(MailboxWorker)
    /\ WF_vars(ReadEnd)
    /\ SF_vars(EraseNetActor)
    /\ \A a \in Actors : WF_vars(PublishPush(a))

FairSpec == Spec /\ Fairness

-----------------------------------------------------------------------------
(* Properties                                                              *)

\* What a got, in order: taken out of its mailbox already or still in it; where in it
\* the envelopes of exchange n are, and their numbers.
Got(a)         == handled[a] \o mail[a]
From(a, n)     == {i \in DOMAIN Got(a) : Got(a)[i].ex = n}
Received(a, n) == {Got(a)[i].no : i \in From(a, n)}

\* The subscriptions of a to n.
Subscriptions(a, n) == {i \in DOMAIN subs[n] : subs[n][i] = a}

\* Each subscriber gets the envelopes of an exchange in the order in which they
\* were published, whatever the interleaving of publishers, subscribers and the
\* fan-out, and no envelope more often than it has subscribed (context.cpp:551-563).
InOrder ==
    \A a \in Actors, n \in Names :
        /\ \A i, j \in From(a, n) : i < j => Got(a)[i].no <= Got(a)[j].no
        /\ a \in live =>
           \A k \in Received(a, n) :
              Cardinality({i \in From(a, n) : Got(a)[i].no = k}) <= Cardinality(Subscriptions(a, n))

\* From the first envelope a registered subscriber gets from an exchange on, it
\* misses none: the rest is in its mailbox, in the exchange or being copied, even
\* while other subscribers stop (context.cpp:553-562, 604-622).
NoGap ==
    \A a \in live, n \in Names :
        LET coming == {pub[n][i].no : i \in DOMAIN pub[n]}
                         \cup IF wk.pc = "copy" /\ wk.env.ex = n THEN {wk.env.no} ELSE {}
        IN  \A k \in Received(a, n) : (k .. count[n]) \subseteq (Received(a, n) \cup coming)

\* The exchange publish_to_exchange has found is still in _exchanges when the
\* envelope is pushed: the clean-up of mailbox_worker, on another thread, never
\* erases it in between (context.cpp:379-385 against 604-622).
PublishHitsExchange ==
    \A a \in Actors : posting[a] # None => Exists(posting[a])

\* The owner of an exchange and its subscribers.
Users(n) == {owner[n]} \cup {subs[n][i] : i \in DOMAIN subs[n]}

\* An exchange whose owner or one of whose subscribers is registered is never
\* erased (context.cpp:606-619).
UsedExchangeStays ==
    [][\A n \in Names :
          (Exists(n) /\ owner'[n] = None)
             => Users(n) \cap live = {}]_vars

\* A subscriber catches up with its exchange unless it is stopped: it gets the
\* envelope published last (and, by NoGap, those before it), although the try-locks
\* of the fan-out may fail (context.cpp:549-568).
FanOut ==
    \A a \in Actors, n \in Names :
        (a \in live /\ (\E i \in DOMAIN subs[n] : subs[n][i] = a) /\ pub[n] # <<>>)
            ~> (a \notin live \/ count[n] \in Received(a, n))

\* An exchange that all of its users have left is erased in the end, as
\* unittests/context_test.cpp:675-680 waits for (context.cpp:604-622).
CleanUp ==
    \A n \in Names : LET Left == Exists(n) /\ Users(n) \cap live = {}
                     IN  Left ~> ~Left

\* stop_actor of a listener or connection actor comes to its end, although its on_stop
\* waits for _exchange_locker under _locker (context.cpp:462-477,
\* context_network.cpp:181, 209) and the fan-out has them the other way round
\* (context.cpp:549-550).
NetStopEnds == stopping # None ~> stopping = None
=============================================================================
