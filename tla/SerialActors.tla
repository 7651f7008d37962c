---------------------------- MODULE SerialActors ----------------------------
(***************************************************************************)
(* What a yaaf context promises to the author of an actor.                 *)
(*                                                                         *)
(* Every actor has one queue. While the actor is live, anybody may append  *)
(* to it. The actor takes its messages one at a time, in the order in      *)
(* which they arrived, each of them once, and never starts on a message    *)
(* while it is still handling another one. Stopping an actor closes its    *)
(* queue: what is already there may still be handled, nothing is added.    *)
(*                                                                         *)
(* The module knows nothing of threads, tasks, locks or busy flags;        *)
(* Context is shown to implement it.                                       *)
(***************************************************************************)
EXTENDS Naturals, Sequences

CONSTANTS Actors,     \* the actors a program may ever create
          Msgs,       \* the messages
          NoMsg       \* "this actor is not handling anything"

VARIABLES stage,      \* stage[a]: "new", then "live", then "stopped"
          queue,      \* queue[a]: the messages a has not taken yet
          handling    \* handling[a]: the message a is at work on, or NoMsg

avars == <<stage, queue, handling>>

AInit ==
    /\ stage \in [Actors -> {"new", "live"}]
    /\ queue = [a \in Actors |-> <<>>]
    /\ handling = [a \in Actors |-> NoMsg]

ARegister(a) ==
    /\ stage[a] = "new"
    /\ stage' = [stage EXCEPT ![a] = "live"]
    /\ UNCHANGED <<queue, handling>>

ASend(a, m) ==
    /\ stage[a] = "live"
    /\ queue' = [queue EXCEPT ![a] = Append(@, m)]
    /\ UNCHANGED <<stage, handling>>

ABegin(a) ==
    /\ handling[a] = NoMsg
    /\ queue[a] # <<>>
    /\ handling' = [handling EXCEPT ![a] = Head(queue[a])]
    /\ queue' = [queue EXCEPT ![a] = Tail(@)]
    /\ UNCHANGED stage

AEnd(a) ==
    /\ handling[a] # NoMsg
    /\ handling' = [handling EXCEPT ![a] = NoMsg]
    /\ UNCHANGED <<stage, queue>>

\* Stopping an actor stops its descendants with it: a whole set at once.
AStop(S) ==
    /\ S # {}
    /\ stage' = [a \in Actors |-> IF a \in S THEN "stopped" ELSE stage[a]]
    /\ UNCHANGED <<queue, handling>>

ANext ==
    \/ \E a \in Actors : ARegister(a) \/ ABegin(a) \/ AEnd(a)
    \/ \E a \in Actors, m \in Msgs : ASend(a, m)
    \/ \E S \in SUBSET {a \in Actors : stage[a] = "live"} : AStop(S)

ASpec == AInit /\ [][ANext]_avars

-----------------------------------------------------------------------------
\* A message put into the queue of an actor is handled, unless the actor is
\* stopped before its turn comes.
AHandled(a) ==
    \A m \in Msgs : (\E i \in DOMAIN queue[a] : queue[a][i] = m)
                        ~> (handling[a] = m \/ stage[a] = "stopped")
=============================================================================
