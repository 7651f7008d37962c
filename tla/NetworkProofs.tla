--------------------------- MODULE NetworkProofs ---------------------------
(***************************************************************************)
(* What closes a socket and what comes of a request, for any number of     *)
(* connections, failures and messages.                                     *)
(***************************************************************************)
EXTENDS Network, SerializationProofs, FiniteSetTheorems, TLAPS

Shape ==
    /\ step \in [Reqs -> {"new", "added", "started", "handled"}]
    /\ sock \in [Reqs -> {"none", "open", "connected", "closed"}]
    /\ table \in [Sides -> Reqs \cup {None}]
    /\ link \in [Dials -> Nat] /\ links \in Nat
    /\ live \subseteq Reqs /\ owned \subseteq Reqs /\ closing \subseteq Reqs
    /\ telling \in [Dials -> {"nothing", "success", "error"}]
    /\ crashed \in Reqs \cup {None, Overrun}

\* A socket recorded in time stays so until it is told to close, and its actor runs as long.
Kept ==
    \A r \in owned : /\ step[r] = "handled"
                     /\ r \in closing \/ (r \in live /\ table[Side(r)] = r)

\* The listener knows connections only while both ends are open.
LinksOpen == \A d \in Dials : link[d] # 0 => sock[Lst] = "open" /\ sock[d] = "connected"

\* There is no socket before it is started, and only the socket of a request that
\* has been handled is in the table and told to close.
Started ==
    /\ \A r \in Reqs : step[r] \in {"new", "added"} => sock[r] = "none"
    /\ \A s \in Sides : table[s] # None => step[table[s]] = "handled"
    /\ \A r \in closing : step[r] = "handled"

IInv == Shape /\ Kept /\ LinksOpen /\ Started

\* What the constants are.
LEMMA Constants ==
    /\ None \notin Reqs /\ Lst \in Reqs /\ Dials \subseteq Reqs /\ Lst \notin Dials
    /\ \A r \in Reqs : Side(r) \in Sides
BY NetworkAssumption DEF Reqs, Side, Sides

\* The invariant holds before anything is asked for.
LEMMA InitIInv == Init => IInv
BY Constants DEF Init, IInv, Shape, Kept, LinksOpen, Started

\* A call back uses one of its actors after it was freed, or none.
LEMMA TouchLemma ==
    ASSUME NEW R \in SUBSET Reqs, Touch(R)
    PROVE  crashed' \in Reqs \cup {None, Overrun}
<1>1. CASE \E r \in R : Freed(r)
  <2> DEFINE c == CHOOSE r \in R : Freed(r)
  <2>1. c \in R
    BY <1>1
  <2>2. crashed' = c
    BY <1>1 DEF Touch
  <2> QED
    BY <2>1, <2>2
<1>2. CASE ~ \E r \in R : Freed(r)
  BY <1>2 DEF Touch
<1> QED
  BY <1>1, <1>2

\* Every step keeps the invariant. What the messages are does not matter to it.
LEMMA StepIInv == IInv /\ [Next]_vars => IInv'
<1> SUFFICES ASSUME IInv, [Next]_vars PROVE IInv'
  OBVIOUS
<1> USE DEF IInv
<1>1. ASSUME UNCHANGED <<reqVars, linkVars>>, crashed' \in Reqs \cup {None, Overrun} PROVE IInv'
  BY <1>1 DEF Shape, Kept, LinksOpen, Started, reqVars, linkVars
<1>2. CASE AddListenerOn
  BY <1>2, Constants DEF AddListenerOn, Shape, Kept, LinksOpen, Started, linkVars
<1>3. ASSUME NEW d \in Dials, AddConnectionTo(d) PROVE IInv'
  BY <1>3, Constants DEF AddConnectionTo, Shape, Kept, LinksOpen, Started, linkVars
<1>4. ASSUME NEW r \in Reqs, StartSocket(r) PROVE IInv'
  <2>1. r \notin owned /\ sock[r] = "none" /\ \A s \in Sides : table[s] # r
    BY <1>4, Constants DEF StartSocket, Kept, Started
  <2>2. sock' = [sock EXCEPT ![r] = "open"] /\ step' = [step EXCEPT ![r] = "started"]
    BY <1>4 DEF StartSocket
  <2>3. UNCHANGED <<live, table, owned, link, links, closing, telling, crashed>>
    BY <1>4 DEF StartSocket
  <2>4. Shape'
    BY <2>2, <2>3 DEF Shape
  <2>5. Kept'
    BY <2>1, <2>2, <2>3 DEF Shape, Kept
  <2>6. LinksOpen'
    BY <2>1, <2>2, <2>3, Constants DEF Shape, LinksOpen
  <2>7. r \notin closing
    BY <1>4 DEF StartSocket, Started
  <2>8. Started'
    BY <2>1, <2>2, <2>3, <2>7 DEF Shape, Started
  <2> QED
    BY <2>4, <2>5, <2>6, <2>8
<1>5. ASSUME NEW r \in Reqs, Record(r) PROVE IInv'
  <2>1. /\ step' = [step EXCEPT ![r] = "handled"] /\ step[r] = "started"
        /\ table' = [table EXCEPT ![Side(r)] = IF @ = None THEN r ELSE @]
        /\ owned' = IF r \in live /\ table[Side(r)] = None THEN owned \cup {r} ELSE owned
        /\ UNCHANGED <<live, sock, link, links, closing, telling, crashed>>
    BY <1>5 DEF Record, linkVars
  <2>2. Side(r) \in Sides
    BY Constants
  <2>3. Shape'
    BY <2>1, <2>2 DEF Shape
  <2>4. LinksOpen'
    BY <2>1 DEF LinksOpen
  <2>5. Started'
    BY <2>1, <2>2, Constants DEF Shape, Started
  <2>6. Kept'
    <3> SUFFICES ASSUME NEW q \in owned'
                 PROVE  /\ step'[q] = "handled"
                        /\ q \in closing' \/ (q \in live' /\ table'[Side(q)] = q)
      BY DEF Kept
    <3>1. CASE q \in owned
      <4>1. q \in Reqs /\ Side(q) \in Sides
        BY <3>1, Constants DEF Shape
      <4>2. step[q] = "handled" /\ (q \in closing \/ (q \in live /\ table[Side(q)] = q))
        BY <3>1 DEF Kept
      <4> QED
        BY <4>1, <4>2, <2>1, <2>2, Constants DEF Shape
    <3>2. CASE q \notin owned
      <4>1. q = r /\ r \in live /\ table[Side(r)] = None
        BY <3>2, <2>1
      <4> QED
        BY <4>1, <2>1, <2>2 DEF Shape
    <3> QED
      BY <3>1, <3>2
  <2> QED
    BY <2>3, <2>4, <2>5, <2>6
<1>6. ASSUME NEW r \in Reqs, StopActor(r) PROVE IInv'
  <2> DEFINE t == table[Side(r)]
  <2>1. /\ live' = live \ {r} /\ closing' = closing \cup ({t} \ {None})
        /\ table' = [table EXCEPT ![Side(r)] = None]
        /\ UNCHANGED <<step, owned, sock, link, links, telling, crashed>>
    BY <1>6 DEF StopActor
  <2>2. Side(r) \in Sides /\ t \in Reqs \cup {None}
    BY Constants DEF Shape
  <2> HIDE DEF t
  <2>3. Shape' /\ LinksOpen'
    BY <2>1, <2>2 DEF Shape, LinksOpen
  <2>5. Started'
    <3>1. t # None => step[t] = "handled"
      BY <2>2 DEF t, Started
    <3>2. \A s \in Sides : table'[s] # None => table'[s] = table[s]
      BY <2>1 DEF Shape
    <3> QED
      BY <2>1, <3>1, <3>2 DEF Started
  <2>4. Kept'
    <3> SUFFICES ASSUME NEW q \in owned
                 PROVE  /\ step[q] = "handled"
                        /\ q \in closing' \/ (q \in live' /\ table'[Side(q)] = q)
      BY <2>1 DEF Kept
    <3>1. q \in Reqs /\ Side(q) \in Sides /\ q # None
      BY Constants DEF Shape
    <3>2. step[q] = "handled" /\ (q \in closing \/ (q \in live /\ table[Side(q)] = q))
      BY DEF Kept
    <3>3. CASE q \in closing \/ q = t
      BY <3>1, <3>2, <3>3, <2>1
    <3>4. CASE q \notin closing /\ q # t
      <4>1. Side(q) # Side(r) /\ q # r
        BY <3>2, <3>4 DEF t
      <4> QED
        BY <4>1, <3>1, <3>2, <3>4, <2>1 DEF Shape
    <3> QED
      BY <3>3, <3>4
  <2> QED
    BY <2>3, <2>4, <2>5
<1>7. ASSUME NEW d \in Dials, Connect(d) PROVE IInv'
  <2>1. /\ sock[d] = "open" /\ sock[Lst] = "open"
        /\ sock' = [sock EXCEPT ![d] = "connected"]
        /\ link' = [link EXCEPT ![d] = links + 1] /\ links' = links + 1
        /\ telling' = [telling EXCEPT ![d] = "success"]
        /\ UNCHANGED <<step, live, table, owned, closing>> /\ Touch({d, Lst})
    BY <1>7 DEF Connect, Ready, reqVars
  <2>2. crashed' \in Reqs \cup {None, Overrun}
    BY <2>1, Constants, TouchLemma
  <2> QED
    BY <2>1, <2>2, Constants DEF Shape, Kept, LinksOpen, Started
<1>8. ASSUME NEW d \in Dials, ConnectFails(d) PROVE IInv'
  <2>1. /\ UNCHANGED <<reqVars, sock, link, links, closing>> /\ Touch({d})
        /\ telling' = [telling EXCEPT ![d] = "error"]
    BY <1>8 DEF ConnectFails
  <2>2. crashed' \in Reqs \cup {None, Overrun}
    BY <2>1, Constants, TouchLemma
  <2> QED
    BY <2>1, <2>2 DEF Shape, Kept, LinksOpen, Started, reqVars
<1>9. ASSUME NEW d \in Dials, Break(d) PROVE IInv'
  <2>1. /\ link[d] # 0 /\ link' = [link EXCEPT ![d] = 0]
        /\ UNCHANGED <<reqVars, sock, links, closing, telling>> /\ Touch({Lst})
    BY <1>9 DEF Break
  <2>2. crashed' \in Reqs \cup {None, Overrun}
    BY <2>1, Constants, TouchLemma
  <2> QED
    BY <2>1, <2>2 DEF Shape, Kept, LinksOpen, Started, reqVars
<1>10. ASSUME NEW d \in Dials, LossNoticed(d) PROVE IInv'
  <2>1. /\ sock[d] = "connected" /\ link[d] = 0 /\ sock' = [sock EXCEPT ![d] = "open"]
        /\ telling' = [telling EXCEPT ![d] = "error"]
        /\ UNCHANGED <<reqVars, link, links, closing>> /\ Touch({d})
    BY <1>10 DEF LossNoticed
  <2>2. crashed' \in Reqs \cup {None, Overrun}
    BY <2>1, Constants, TouchLemma
  <2> QED
    BY <2>1, <2>2, Constants DEF Shape, Kept, LinksOpen, Started, reqVars
<1>11. ASSUME NEW d \in Dials, SendStatus(d) PROVE IInv'
  <2>1. /\ telling' = [telling EXCEPT ![d] = "nothing"]
        /\ UNCHANGED <<reqVars, sock, link, links, closing>> /\ Touch({d})
    BY <1>11 DEF SendStatus
  <2>2. crashed' \in Reqs \cup {None, Overrun}
    BY <2>1, Constants, TouchLemma
  <2> QED
    BY <2>1, <2>2 DEF Shape, Kept, LinksOpen, Started, reqVars
<1>12. ASSUME NEW r \in Reqs, Close(r) PROVE IInv'
  <2>1. /\ sock[r] # "closed" /\ sock' = [sock EXCEPT ![r] = "closed"] /\ link' = Unlinked(r)
        /\ r \in closing /\ UNCHANGED <<reqVars, links, closing, telling, crashed>>
    BY <1>12 DEF Close
  <2>2. Shape' /\ Kept'
    BY <2>1 DEF Shape, Kept, Unlinked, reqVars
  <2>3. LinksOpen'
    BY <2>1, Constants DEF Shape, LinksOpen, Unlinked
  <2>4. Started'
    BY <2>1 DEF Shape, Started, reqVars
  <2> QED
    BY <2>2, <2>3, <2>4
<1>13. ASSUME NEW d \in Dials, LstNewMessage(d) \/ ConNewMessage(d) PROVE IInv'
  <2>1. UNCHANGED <<reqVars, linkVars>> /\ (Touch({Lst}) \/ Touch({d}))
    BY <1>13 DEF LstNewMessage, ConNewMessage
  <2>2. crashed' \in Reqs \cup {None, Overrun}
    BY <2>1, Constants, TouchLemma
  <2> QED
    BY <1>1, <2>1, <2>2
<1>14. CASE Subscribe \/ HandOn \/ Handle \/ \E u \in UserActors : MakeUser(u)
  <2>1. UNCHANGED <<reqVars, linkVars>> /\ crashed' \in {crashed, Overrun}
    BY <1>14 DEF Subscribe, HandOn, Handle, InitiatorHandle, EchoHandle, LstHandle, LstSend,
                 ConHandle, ConSend, PackOverruns, MakeUser
  <2>2. crashed' \in Reqs \cup {None, Overrun}
    BY <2>1 DEF Shape
  <2> QED
    BY <1>1, <2>1, <2>2
<1>15. CASE UNCHANGED vars
  BY <1>1, <1>15 DEF vars, Shape
<1> QED
  BY <1>2, <1>3, <1>4, <1>5, <1>6, <1>7, <1>8, <1>9, <1>10, <1>11, <1>12, <1>13, <1>14, <1>15
     DEF Next, Asking, Supervise, CallBack

\* A socket recorded in time is told to close when its actor is stopped, for any number
\* of connections to one host, in any order of requests, stops, failures and calls back.
THEOREM StopClosesTheorem == Spec => []StopCloses
<1>1. IInv => StopCloses
  BY DEF IInv, Kept, StopCloses
<1> QED
  BY InitIInv, StepIInv, <1>1, PTL DEF Spec

-----------------------------------------------------------------------------
(* What the messages carry                                                 *)

\* The number of the request that a payload belongs to.
No(x) == CHOOSE n \in 1 .. MaxLinks : x = Payload(n)

\* A payload leads to its request.
LEMMA DataLemma ==
    /\ \A n \in 1 .. MaxLinks : Payload(n) \in Data /\ No(Payload(n)) = n
    /\ \A x \in Data : /\ x \in Seq(Nat) /\ No(x) \in 1 .. MaxLinks /\ Payload(No(x)) = x
<1>1. ASSUME NEW n \in 1 .. MaxLinks PROVE Payload(n) \in Seq(Nat) /\ Len(Payload(n)) = n
  <2>1. n \in Nat /\ MaxLinks \in Nat
    BY NetworkAssumption
  <2> QED
    BY <2>1, NetworkAssumption, SerializationAssumption DEF Payload
<1>2. ASSUME NEW n \in 1 .. MaxLinks, NEW m \in 1 .. MaxLinks, Payload(n) = Payload(m)
      PROVE  m = n
  BY <1>1, <1>2
<1>3. ASSUME NEW n \in 1 .. MaxLinks PROVE Payload(n) \in Data /\ No(Payload(n)) = n
  BY <1>2 DEF Data, No
<1>4. ASSUME NEW x \in Data
      PROVE  x \in Seq(Nat) /\ No(x) \in 1 .. MaxLinks /\ Payload(No(x)) = x
  <2>1. PICK n \in 1 .. MaxLinks : x = Payload(n)
    BY DEF Data
  <2> QED
    BY <2>1, <1>1, <1>3
<1> QED
  BY <1>3, <1>4

\* What is packed for the network, if there is room for it, comes out as it was.
LEMMA WireLemma ==
    /\ \A m \in NetMsg : ~Overruns(Capacity(m)) =>
          /\ PackedMessage(m) \in Wire /\ PackedMessage(m).kind = "MSG"
          /\ PackedOf(PackedMessage(m)) = m
    /\ \A w \in Wire : /\ w.kind = "MSG" /\ PackedOf(w).name \in UserActors
                       /\ PackedOf(w).data \in Data
<1>1. ASSUME NEW m \in NetMsg, ~Overruns(Capacity(m))
      PROVE  /\ PackedMessage(m) \in Wire /\ PackedMessage(m).kind = "MSG"
             /\ PackedOf(PackedMessage(m)) = m
             /\ m.name \in UserActors /\ m.data \in Data
  <2>1. m = [name |-> m.name, data |-> m.data] /\ m.name \in UserActors /\ m.data \in Data
    BY DEF NetMsg
  <2>2. m.name \in Seq(Nat) /\ m.data \in Seq(Nat)
    BY <2>1, NetworkAssumption, SerializationAssumption, DataLemma
  <2>3. PackedOf(PackedMessage([name |-> m.name, data |-> m.data]))
           = [name |-> m.name, data |-> m.data]
    <3>1. ~Overruns(Capacity([name |-> m.name, data |-> m.data]))
      BY <1>1, <2>1
    <3> QED
      BY <2>2, <3>1, PackLemma
  <2>4. PackedMessage(m).kind = "MSG"
    BY DEF PackedMessage, Message
  <2> QED
    BY <1>1, <2>1, <2>3, <2>4 DEF Wire
<1>2. ASSUME NEW w \in Wire
      PROVE  w.kind = "MSG" /\ PackedOf(w).name \in UserActors /\ PackedOf(w).data \in Data
  <2>1. PICK m \in NetMsg : ~Overruns(Capacity(m)) /\ w = PackedMessage(m)
    BY DEF Wire
  <2> QED
    BY <1>1, <2>1
<1> QED
  BY <1>1, <1>2

-----------------------------------------------------------------------------
(* The type invariant                                                      *)

\* The places of a sequence of statuses that tell of a connection.
Told(q) == {i \in DOMAIN q : q[i]}

\* The dials with a network thread inside send_status that is to tell of a connection.
Pending(t) == {d \in Dials : t[d] = "success"}

\* A request answers the news of a connection, and that is told once: no more are sent
\* than there were connections.
Counted ==
    Cardinality(Pending(telling)) + Cardinality(Told(pub)) + Cardinality(Told(iniBox))
        + Len(asked) <= links

\* The type invariant by groups of variables that change together. The ids of connections
\* are those given out, in mailboxes as well: a new one is fresh.
ReqOK ==
    /\ named \in [Sides -> Reqs \cup {None}] /\ table \in [Sides -> Reqs \cup {None}]
    /\ \A s \in Sides : named[s] # None => Side(named[s]) = s
    /\ \A s \in Sides : table[s] # None => Side(table[s]) = s
LinkOK ==
    /\ sock[Lst] # "connected"
    /\ link \in [Dials -> 0 .. MaxLinks] /\ links \in 0 .. MaxLinks /\ fails \in 0 .. MaxFails
    /\ \A d, c \in Dials : link[d] # 0 /\ link[d] = link[c] => d = c
    /\ \A d \in Dials : link[d] <= links
StatOK ==
    /\ exchange \in BOOLEAN /\ subscribed \in BOOLEAN /\ connected \in BOOLEAN
    /\ pub \in Seq(BOOLEAN) /\ iniBox \in Seq(BOOLEAN)
    /\ asked \in Seq(Dials) /\ Counted
MsgOK ==
    /\ conBox \in [Dials -> Seq(NetMsg)]
    /\ lstBox \in Seq(LstMsg) /\ echoBox \in Seq(LstMsg)
    /\ up \in [Dials -> Seq(Wire)] /\ down \in [Dials -> Seq(Wire)]
    /\ got \in Seq([con : Dials, data : Data])
    /\ \A i \in DOMAIN echoBox : echoBox[i].sender_id <= links
    /\ \A i \in DOMAIN lstBox : lstBox[i].sender_id <= links

TInv == IInv /\ ReqOK /\ LinkOK /\ StatOK /\ MsgOK /\ users \subseteq UserActors

\* A sequence tells of finitely many connections.
LEMMA ToldFinite ==
    ASSUME NEW q \in Seq(BOOLEAN)
    PROVE  IsFiniteSet(Told(q)) /\ Cardinality(Told(q)) \in Nat
<1>1. Told(q) \in SUBSET (1 .. Len(q)) /\ Len(q) \in Nat
  BY DEF Told
<1>2. \A n \in Nat : IsFiniteSet(1 .. n)
  BY FS_Interval
<1>3. IsFiniteSet(1 .. Len(q))
  BY <1>1, <1>2
<1>4. IsFiniteSet(Told(q))
  BY <1>1, <1>3, FS_Subset
<1> QED
  BY <1>4, FS_CardinalityType

\* A set of numbers that come from those of another one by subtraction is not larger.
LEMMA ShiftCardinality ==
    ASSUME NEW S \in SUBSET Nat, IsFiniteSet(S), NEW T \in SUBSET Nat, NEW c \in Int,
           \A x \in T : x + c \in S
    PROVE  IsFiniteSet(T) /\ Cardinality(T) <= Cardinality(S)
<1> DEFINE R == {x \in S : x - c \in T}
           f == [x \in R |-> x - c]
<1>1. R \in SUBSET S
  OBVIOUS
<1>2. IsFiniteSet(R) /\ Cardinality(R) <= Cardinality(S)
  BY <1>1, FS_Subset
<1>3. f \in Surjection(R, T)
  <2>1. f \in [R -> T]
    OBVIOUS
  <2>2. ASSUME NEW t \in T PROVE \E x \in R : f[x] = t
    <3>1. t + c \in R /\ f[t + c] = t
      BY <2>2
    <3> QED
      BY <3>1
  <2> HIDE DEF f, R
  <2> QED
    BY <2>1, <2>2 DEF Surjection
<1> HIDE DEF f, R
<1>4. IsFiniteSet(T) /\ Cardinality(T) <= Cardinality(R)
  BY <1>2, <1>3, FS_Surjection
<1>5. Cardinality(R) \in Nat /\ Cardinality(S) \in Nat /\ Cardinality(T) \in Nat
  BY <1>2, <1>4, FS_CardinalityType
<1> QED
  BY <1>2, <1>4, <1>5

\* The first status is handled: it counts no more.
LEMMA ToldTail ==
    ASSUME NEW q \in Seq(BOOLEAN), q # <<>>
    PROVE  /\ Cardinality(Told(Tail(q))) <= Cardinality(Told(q))
           /\ Head(q) => Cardinality(Told(Tail(q))) + 1 <= Cardinality(Told(q))
<1>1. /\ Tail(q) \in Seq(BOOLEAN) /\ Len(Tail(q)) = Len(q) - 1 /\ Len(q) \in Nat \ {0}
      /\ \A i \in 1 .. Len(Tail(q)) : Tail(q)[i] = q[i + 1]
      /\ Head(q) = q[1] /\ 1 \in DOMAIN q
  OBVIOUS
<1>2. /\ IsFiniteSet(Told(q)) /\ Told(q) \in SUBSET Nat /\ Told(Tail(q)) \in SUBSET Nat
      /\ Cardinality(Told(q)) \in Nat /\ Cardinality(Told(Tail(q))) \in Nat
  <2>1. Told(q) \in SUBSET Nat /\ Told(Tail(q)) \in SUBSET Nat
    BY <1>1 DEF Told
  <2> QED
    BY <1>1, <2>1, ToldFinite
<1>3. \A x \in Told(Tail(q)) : x + 1 \in Told(q) \ {1}
  BY <1>1 DEF Told
<1>4. /\ IsFiniteSet(Told(q) \ {1})
      /\ Cardinality(Told(q) \ {1}) =
            IF 1 \in Told(q) THEN Cardinality(Told(q)) - 1 ELSE Cardinality(Told(q))
  BY <1>2, FS_RemoveElement
<1>5. Told(q) \ {1} \in SUBSET Nat /\ 1 \in Int
  BY <1>2
<1>6. Cardinality(Told(Tail(q))) <= Cardinality(Told(q) \ {1})
  BY <1>2, <1>3, <1>4, <1>5, ShiftCardinality
<1>7. Head(q) => 1 \in Told(q)
  BY <1>1 DEF Told
<1>8. CASE 1 \in Told(q)
  <2>1. /\ Cardinality(Told(Tail(q))) + 1 <= Cardinality(Told(q))
        /\ Cardinality(Told(Tail(q))) <= Cardinality(Told(q))
    <3> DEFINE a == Cardinality(Told(q))
               b == Cardinality(Told(Tail(q)))
    <3>1. a \in Nat /\ b \in Nat /\ b <= a - 1
      BY <1>2, <1>4, <1>6, <1>8
    <3> HIDE DEF a, b
    <3>2. b + 1 <= a /\ b <= a
      BY <3>1
    <3> QED
      BY <3>2 DEF a, b
  <2> QED
    BY <2>1
<1>9. CASE 1 \notin Told(q)
  <2>1. Cardinality(Told(Tail(q))) <= Cardinality(Told(q))
    BY <1>2, <1>4, <1>6, <1>9
  <2> QED
    BY <1>7, <1>9, <2>1
<1> QED
  BY <1>8, <1>9

\* A new status counts once, if at all.
LEMMA ToldAppend ==
    ASSUME NEW q \in Seq(BOOLEAN), NEW b \in BOOLEAN
    PROVE  /\ Cardinality(Told(Append(q, b))) <= Cardinality(Told(q)) + 1
           /\ ~b => Cardinality(Told(Append(q, b))) <= Cardinality(Told(q))
<1> DEFINE r == Append(q, b)
           l == Len(q) + 1
<1>1. /\ r \in Seq(BOOLEAN) /\ Len(r) = l /\ Len(q) \in Nat /\ r[l] = b
      /\ \A i \in 1 .. Len(q) : r[i] = q[i]
  OBVIOUS
<1> HIDE DEF r
<1>2. /\ IsFiniteSet(Told(q)) /\ Cardinality(Told(q)) \in Nat /\ Cardinality(Told(r)) \in Nat
  BY <1>1, ToldFinite
<1>3. /\ Told(r) \in SUBSET (Told(q) \cup {l})
      /\ ~b => Told(r) \in SUBSET Told(q)
  BY <1>1 DEF Told
<1>4. /\ IsFiniteSet(Told(q) \cup {l})
      /\ Cardinality(Told(q) \cup {l}) =
            IF l \in Told(q) THEN Cardinality(Told(q)) ELSE Cardinality(Told(q)) + 1
  BY <1>2, FS_AddElement
<1>5. Cardinality(Told(r)) <= Cardinality(Told(q) \cup {l})
  BY <1>3, <1>4, FS_Subset
<1>6. ~b => Cardinality(Told(r)) <= Cardinality(Told(q))
  BY <1>2, <1>3, FS_Subset
<1>7. Cardinality(Told(r)) <= Cardinality(Told(q)) + 1
  BY <1>2, <1>4, <1>5
<1> QED
  BY <1>6, <1>7 DEF r

\* Statuses handed on count no more than before.
LEMMA ToldConcat ==
    ASSUME NEW q \in Seq(BOOLEAN), NEW p \in Seq(BOOLEAN)
    PROVE  Cardinality(Told(q \o p)) <= Cardinality(Told(q)) + Cardinality(Told(p))
<1> DEFINE r == q \o p
           L == {i \in Told(r) : i <= Len(q)}
           H == {i \in Told(r) : i > Len(q)}
<1>1. /\ r \in Seq(BOOLEAN) /\ Len(r) = Len(q) + Len(p) /\ Len(q) \in Nat /\ Len(p) \in Nat
      /\ \A i \in 1 .. Len(r) : r[i] = IF i <= Len(q) THEN q[i] ELSE p[i - Len(q)]
  BY ConcatProperties
<1> HIDE DEF r
<1>2. /\ IsFiniteSet(Told(q)) /\ Cardinality(Told(q)) \in Nat
      /\ IsFiniteSet(Told(p)) /\ Cardinality(Told(p)) \in Nat
      /\ Told(p) \in SUBSET Nat /\ Told(q) \in SUBSET Nat
  BY ToldFinite DEF Told
<1>3. L \in SUBSET Told(q) /\ H \in SUBSET Nat /\ Told(r) = L \cup H
  BY <1>1 DEF Told
<1>4. \A x \in H : x + (0 - Len(q)) \in Told(p)
  BY <1>1 DEF Told
<1> HIDE DEF L, H
<1>5. IsFiniteSet(L) /\ Cardinality(L) <= Cardinality(Told(q))
  BY <1>2, <1>3, FS_Subset
<1>6. 0 - Len(q) \in Int
  BY <1>1
<1>7. IsFiniteSet(H) /\ Cardinality(H) <= Cardinality(Told(p))
  BY <1>2, <1>3, <1>4, <1>6, ShiftCardinality
<1>8. /\ IsFiniteSet(L \cap H)
      /\ Cardinality(L \cup H) = Cardinality(L) + Cardinality(H) - Cardinality(L \cap H)
  BY <1>5, <1>7, FS_Union, FS_Intersection
<1>9. /\ Cardinality(L) \in Nat /\ Cardinality(H) \in Nat /\ Cardinality(L \cap H) \in Nat
  BY <1>5, <1>7, <1>8, FS_CardinalityType
<1> QED
  BY <1>2, <1>3, <1>5, <1>7, <1>8, <1>9 DEF r

\* At any time finitely many dials are about to tell something.
LEMMA PendingFinite ==
    ASSUME NEW t
    PROVE  IsFiniteSet(Pending(t)) /\ Cardinality(Pending(t)) \in Nat
<1>1. MaxDials \in Nat /\ Pending(t) \in SUBSET (1 .. MaxDials)
  BY NetworkAssumption DEF Pending, Dials
<1>2. \A n \in Nat : IsFiniteSet(1 .. n)
  BY FS_Interval
<1>3. IsFiniteSet(1 .. MaxDials)
  BY <1>1, <1>2
<1>4. IsFiniteSet(Pending(t))
  BY <1>1, <1>3, FS_Subset
<1> QED
  BY <1>4, FS_CardinalityType

\* A dial begins or ends to tell something.
LEMMA PendingStep ==
    ASSUME NEW t \in [Dials -> {"nothing", "success", "error"}], NEW d \in Dials,
           NEW x \in {"nothing", "success", "error"}
    PROVE  LET u == [t EXCEPT ![d] = x]
           IN  /\ Cardinality(Pending(u)) <= Cardinality(Pending(t)) + 1
               /\ x # "success" => Cardinality(Pending(u)) <= Cardinality(Pending(t))
               /\ x # "success" /\ t[d] = "success" =>
                     Cardinality(Pending(u)) + 1 <= Cardinality(Pending(t))
<1> DEFINE u == [t EXCEPT ![d] = x]
           S == Pending(t)
           T == Pending(u)
<1>1. /\ T \in SUBSET (S \cup {d}) /\ (x # "success" => T \in SUBSET (S \ {d}))
      /\ (t[d] = "success" => d \in S)
  BY DEF Pending
<1>2. IsFiniteSet(S) /\ Cardinality(S) \in Nat /\ IsFiniteSet(T) /\ Cardinality(T) \in Nat
  BY PendingFinite
<1> HIDE DEF S, T
<1>3. /\ IsFiniteSet(S \cup {d})
      /\ Cardinality(S \cup {d}) = IF d \in S THEN Cardinality(S) ELSE Cardinality(S) + 1
  BY <1>2, FS_AddElement
<1>4. /\ IsFiniteSet(S \ {d})
      /\ Cardinality(S \ {d}) = IF d \in S THEN Cardinality(S) - 1 ELSE Cardinality(S)
  BY <1>2, FS_RemoveElement
<1>5. Cardinality(T) <= Cardinality(S \cup {d})
  BY <1>1, <1>3, FS_Subset
<1>6. x # "success" => Cardinality(T) <= Cardinality(S \ {d})
  BY <1>1, <1>4, FS_Subset
<1>7. /\ Cardinality(T) <= Cardinality(S) + 1
      /\ x # "success" => Cardinality(T) <= Cardinality(S)
      /\ x # "success" /\ d \in S => Cardinality(T) + 1 <= Cardinality(S)
  BY <1>2, <1>3, <1>4, <1>5, <1>6
<1> QED
  BY <1>1, <1>7 DEF S, T

\* Names and the table: a side's entries are of that side.
LEMMA NextReqOK == TInv /\ [Next]_vars => ReqOK'
<1> SUFFICES ASSUME TInv, [Next]_vars PROVE ReqOK'
  OBVIOUS
<1> USE DEF TInv
<1>1. ASSUME UNCHANGED <<named, table>> PROVE ReqOK'
  BY <1>1 DEF ReqOK
<1>2. CASE AddListenerOn
  BY <1>2, Constants DEF AddListenerOn, ReqOK, Side
<1>3. ASSUME NEW d \in Dials, AddConnectionTo(d) PROVE ReqOK'
  BY <1>3, Constants DEF AddConnectionTo, ReqOK, Side
<1>4. ASSUME NEW r \in Reqs, Record(r) PROVE ReqOK'
  BY <1>4, Constants DEF Record, ReqOK
<1>5. ASSUME NEW r \in Reqs, StopActor(r) PROVE ReqOK'
  BY <1>5, Constants DEF StopActor, ReqOK
<1>6. CASE Subscribe \/ HandOn \/ Handle \/ \E u \in UserActors : MakeUser(u)
  BY <1>1, <1>6 DEF Subscribe, HandOn, Handle, InitiatorHandle, EchoHandle, LstHandle,
                    LstSend, ConHandle, ConSend, PackOverruns, MakeUser, reqVars
<1>7. ASSUME NEW d \in Dials, ConnectFails(d) \/ Break(d) \/ CallBack(d) PROVE ReqOK'
  BY <1>1, <1>7 DEF ConnectFails, Break, CallBack, Connect, LossNoticed, SendStatus,
                    LstNewMessage, ConNewMessage, reqVars
<1>8. ASSUME NEW r \in Reqs, StartSocket(r) \/ Close(r) PROVE ReqOK'
  BY <1>1, <1>8 DEF StartSocket, Close, reqVars
<1>9. CASE UNCHANGED vars
  BY <1>1, <1>9 DEF vars, reqVars
<1> QED
  BY <1>2, <1>3, <1>4, <1>5, <1>6, <1>7, <1>8, <1>9 DEF Next, Asking, Supervise

\* Sockets and connections: an id given out belongs to one connection.
LEMMA NextLinkOK == TInv /\ [Next]_vars => LinkOK'
<1> SUFFICES ASSUME TInv, [Next]_vars PROVE LinkOK'
  OBVIOUS
<1> USE DEF TInv
<1>0. Lst \in Reqs /\ Dials \subseteq Reqs /\ Lst \notin Dials
      /\ MaxLinks \in Nat /\ MaxFails \in Nat
  BY Constants, NetworkAssumption
<1>1. ASSUME UNCHANGED <<sock, link, links, fails>> PROVE LinkOK'
  BY <1>1 DEF LinkOK
<1>2. ASSUME NEW r \in Reqs, StartSocket(r) PROVE LinkOK'
  BY <1>0, <1>2 DEF StartSocket, LinkOK, IInv, Shape
<1>3. ASSUME NEW r \in Reqs, Close(r) PROVE LinkOK'
  <2>1. /\ sock' = [sock EXCEPT ![r] = "closed"] /\ link' = Unlinked(r)
        /\ UNCHANGED <<links, fails>>
    BY <1>3 DEF Close
  <2> QED
    BY <2>1, <1>0 DEF Unlinked, LinkOK, IInv, Shape
<1>4. ASSUME NEW d \in Dials, Connect(d) PROVE LinkOK'
  <2>1. /\ links \in Nat /\ links < MaxLinks /\ links' = links + 1
        /\ link' = [link EXCEPT ![d] = links + 1] /\ sock' = [sock EXCEPT ![d] = "connected"]
        /\ fails' = fails
    BY <1>4 DEF Connect, LinkOK
  <2>2. \A c \in Dials : link[c] \in 0 .. MaxLinks /\ link[c] <= links
    BY DEF LinkOK
  <2>3. /\ link' \in [Dials -> 0 .. MaxLinks] /\ links' \in 0 .. MaxLinks
        /\ fails' \in 0 .. MaxFails
    BY <2>1, <1>0 DEF LinkOK
  <2>4. sock'[Lst] # "connected"
    BY <2>1, <1>0 DEF LinkOK, IInv, Shape
  <2>5. \A c \in Dials : link'[c] = IF c = d THEN links + 1 ELSE link[c]
    BY <2>1 DEF LinkOK
  <2>6. \A c \in Dials : link'[c] <= links'
    BY <2>1, <2>2, <2>5
  <2>7. \A b, c \in Dials : link'[b] # 0 /\ link'[b] = link'[c] => b = c
    BY <2>1, <2>2, <2>5 DEF LinkOK
  <2> QED
    BY <2>3, <2>4, <2>6, <2>7 DEF LinkOK
<1>5. ASSUME NEW d \in Dials, ConnectFails(d) PROVE LinkOK'
  BY <1>0, <1>5 DEF ConnectFails, LinkOK
<1>6. ASSUME NEW d \in Dials, Break(d) PROVE LinkOK'
  BY <1>0, <1>6 DEF Break, LinkOK
<1>7. ASSUME NEW d \in Dials, LossNoticed(d) PROVE LinkOK'
  BY <1>0, <1>7 DEF LossNoticed, LinkOK, IInv, Shape
<1>8. CASE Subscribe \/ HandOn \/ Handle \/ \E u \in UserActors : MakeUser(u)
  BY <1>1, <1>8 DEF Subscribe, HandOn, Handle, InitiatorHandle, EchoHandle, LstHandle,
                    LstSend, ConHandle, ConSend, PackOverruns, MakeUser, linkVars
<1>9. ASSUME NEW d \in Dials, SendStatus(d) \/ LstNewMessage(d) \/ ConNewMessage(d)
                                \/ AddConnectionTo(d)
      PROVE  LinkOK'
  BY <1>1, <1>9 DEF SendStatus, LstNewMessage, ConNewMessage, AddConnectionTo, linkVars
<1>10. ASSUME NEW r \in Reqs, Record(r) \/ StopActor(r) \/ AddListenerOn PROVE LinkOK'
  BY <1>1, <1>10 DEF Record, StopActor, AddListenerOn, linkVars
<1>11. CASE UNCHANGED vars
  BY <1>1, <1>11 DEF vars, linkVars
<1> QED
  BY <1>0, <1>2, <1>3, <1>4, <1>5, <1>6, <1>7, <1>8, <1>9, <1>10, <1>11
     DEF Next, Asking, Supervise, CallBack

\* What there is to count.
LEMMA Counts ==
    ASSUME StatOK, LinkOK
    PROVE  /\ Cardinality(Told(pub)) \in Nat /\ Cardinality(Told(iniBox)) \in Nat
           /\ Cardinality(Pending(telling)) \in Nat
           /\ Len(asked) \in Nat /\ links \in Nat /\ Len(asked) <= links
<1>1. pub \in Seq(BOOLEAN) /\ iniBox \in Seq(BOOLEAN) /\ asked \in Seq(Dials)
      /\ links \in 0 .. MaxLinks
  BY DEF StatOK, LinkOK
<1>2. /\ Cardinality(Told(pub)) \in Nat /\ Cardinality(Told(iniBox)) \in Nat
      /\ Cardinality(Pending(telling)) \in Nat
  BY <1>1, ToldFinite, PendingFinite
<1>3. Len(asked) \in Nat /\ links \in Nat
  BY <1>1, NetworkAssumption
<1> QED
  BY <1>2, <1>3 DEF StatOK, Counted

\* A call back about the status: what is pending and published has grown by no more than
\* the connections have.
LEMMA TellOK ==
    ASSUME StatOK, LinkOK, pub' \in Seq(BOOLEAN), links' \in Nat,
           UNCHANGED <<exchange, subscribed, connected, iniBox, asked>>,
           Cardinality(Pending(telling')) + Cardinality(Told(pub')) + links
              <= Cardinality(Pending(telling)) + Cardinality(Told(pub)) + links'
    PROVE  StatOK'
<1>1. /\ Pending(telling)' = Pending(telling') /\ Told(pub)' = Told(pub')
      /\ Told(iniBox)' = Told(iniBox) /\ Len(asked)' = Len(asked)
  BY DEF Pending, Told
<1>2. Cardinality(Pending(telling')) \in Nat /\ Cardinality(Told(pub')) \in Nat
  BY PendingFinite, ToldFinite
<1>3. Counted
  BY DEF StatOK
<1>4. Cardinality(Pending(telling')) + Cardinality(Told(pub')) + Cardinality(Told(iniBox))
         + Len(asked) <= links'
  BY <1>2, <1>3, Counts DEF Counted
<1>5. Counted'
  BY <1>1, <1>4 DEF Counted
<1> QED
  BY <1>5 DEF StatOK

\* Statuses and requests: there is one connection for each request.
LEMMA NextStatOK == TInv /\ [Next]_vars => StatOK'
<1> SUFFICES ASSUME TInv, [Next]_vars PROVE StatOK'
  OBVIOUS
<1> USE DEF TInv
<1>1. ASSUME UNCHANGED <<subscribed, pub, iniBox, connected, asked, links, telling>>,
             exchange' \in {exchange, TRUE}
      PROVE  StatOK'
  BY <1>1 DEF StatOK, Counted, Told, Pending
<1>2. CASE Subscribe
  BY <1>2 DEF Subscribe, StatOK, Counted, Told, Pending, linkVars, msgVars
<1>3. CASE HandOn
  <2>1. /\ pub' = <<>> /\ iniBox' \in {iniBox \o pub, iniBox}
        /\ UNCHANGED <<exchange, subscribed, connected, links, asked, telling>>
    BY <1>3 DEF HandOn, linkVars, msgVars
  <2>2. pub \in Seq(BOOLEAN) /\ iniBox \in Seq(BOOLEAN)
    BY DEF StatOK
  <2>3. pub' \in Seq(BOOLEAN) /\ iniBox' \in Seq(BOOLEAN)
    <3>1. iniBox \o pub \in Seq(BOOLEAN)
      BY <2>2, ConcatProperties
    <3>2. pub' \in Seq(BOOLEAN)
      BY <2>1
    <3> QED
      BY <2>1, <2>2, <3>1, <3>2
  <2>4. Told(pub') = {} /\ Cardinality({}) = 0
    BY <2>1, FS_EmptySet DEF Told
  <2>5. /\ Cardinality(Told(iniBox')) <= Cardinality(Told(iniBox)) + Cardinality(Told(pub))
        /\ Cardinality(Told(iniBox')) \in Nat
    <3>1. Cardinality(Told(iniBox')) \in Nat
      BY <2>3, ToldFinite
    <3>2. CASE iniBox' = iniBox \o pub
      BY <2>2, <3>1, <3>2, ToldConcat
    <3>3. CASE iniBox' = iniBox
      BY <3>3, Counts
    <3> QED
      BY <2>1, <3>1, <3>2, <3>3
  <2>6. Counted'
    <3>1. /\ Told(pub)' = Told(pub') /\ Told(iniBox)' = Told(iniBox')
          /\ Pending(telling)' = Pending(telling)
      BY <2>1 DEF Told, Pending
    <3>2. Cardinality(Told(pub)') = 0
      BY <2>4, <3>1
    <3> QED
      BY <2>1, <2>5, <3>1, <3>2, Counts DEF Counted, StatOK
  <2> QED
    BY <2>1, <2>3, <2>6 DEF StatOK
<1>4. CASE InitiatorHandle
  <2>1. /\ iniBox # <<>> /\ iniBox' = Tail(iniBox) /\ connected' = Head(iniBox)
        /\ UNCHANGED <<exchange, subscribed, pub, links, telling>>
    BY <1>4 DEF InitiatorHandle, linkVars
  <2>2. iniBox \in Seq(BOOLEAN) /\ asked \in Seq(Dials)
    BY DEF StatOK
  <2>3. iniBox' \in Seq(BOOLEAN) /\ connected' \in BOOLEAN
    BY <2>1, <2>2
  <2>4. \/ asked' = asked
        \/ Head(iniBox) /\ \E d \in Dials : asked' = Append(asked, d)
    BY <1>4, Constants DEF InitiatorHandle, GetAddress, ReqOK, IInv, Shape, Reqs, Side, Sides
  <2>5. CASE asked' = asked
    <3>1. Counted'
      <4>1. /\ Told(pub)' = Told(pub) /\ Told(iniBox)' = Told(Tail(iniBox))
            /\ Pending(telling)' = Pending(telling)
        BY <2>1 DEF Told, Pending
      <4>2. /\ Cardinality(Told(Tail(iniBox))) \in Nat
            /\ Cardinality(Told(Tail(iniBox))) <= Cardinality(Told(iniBox))
        BY <2>1, <2>2, <2>3, ToldFinite, ToldTail
      <4> QED
        BY <2>1, <2>5, <4>1, <4>2, Counts DEF Counted, StatOK
    <3> QED
      BY <2>1, <2>3, <2>5, <3>1 DEF StatOK
  <2>6. ASSUME NEW d \in Dials, asked' = Append(asked, d), Head(iniBox) PROVE StatOK'
    <3>1. asked' \in Seq(Dials) /\ Len(asked') = Len(asked) + 1
      <4>1. \A s \in Seq(Dials), x \in Dials :
               Append(s, x) \in Seq(Dials) /\ Len(Append(s, x)) = Len(s) + 1
        OBVIOUS
      <4> HIDE <2>6
      <4>2. Append(asked, d) \in Seq(Dials) /\ Len(Append(asked, d)) = Len(asked) + 1
        BY <2>2, <4>1
      <4>3. asked' = Append(asked, d)
        BY <2>6, Zenon
      <4> QED
        BY <4>2, <4>3
    <3>2. Counted'
      <4>1. /\ Told(pub)' = Told(pub) /\ Told(iniBox)' = Told(Tail(iniBox))
            /\ Pending(telling)' = Pending(telling)
        BY <2>1 DEF Told, Pending
      <4>2. /\ Cardinality(Told(Tail(iniBox))) \in Nat
            /\ Cardinality(Told(Tail(iniBox))) + 1 <= Cardinality(Told(iniBox))
        BY <2>1, <2>2, <2>3, <2>6, ToldFinite, ToldTail
      <4> QED
        BY <2>1, <3>1, <4>1, <4>2, Counts DEF Counted, StatOK
    <3> QED
      BY <2>1, <2>3, <3>1, <3>2 DEF StatOK
  <2> QED
    BY <2>4, <2>5, <2>6
<1>t. telling \in [Dials -> {"nothing", "success", "error"}] /\ pub \in Seq(BOOLEAN)
  BY DEF IInv, Shape, StatOK
<1>5. ASSUME NEW d \in Dials, Connect(d) PROVE StatOK'
  <2>1. /\ links' = links + 1 /\ telling' = [telling EXCEPT ![d] = "success"] /\ pub' = pub
        /\ UNCHANGED <<exchange, subscribed, connected, iniBox, asked>>
    BY <1>5 DEF Connect, msgVars, statVars
  <2>2. Cardinality(Pending(telling')) <= Cardinality(Pending(telling)) + 1
    BY <1>t, <2>1, PendingStep
  <2>3. Cardinality(Pending(telling')) \in Nat
    BY PendingFinite
  <2>4. /\ pub' \in Seq(BOOLEAN) /\ links' \in Nat
        /\ Cardinality(Pending(telling')) + Cardinality(Told(pub')) + links
              <= Cardinality(Pending(telling)) + Cardinality(Told(pub)) + links'
    BY <1>t, <2>1, <2>2, <2>3, Counts
  <2> QED
    BY <2>1, <2>4, TellOK
<1>6. ASSUME NEW d \in Dials, ConnectFails(d) \/ LossNoticed(d) PROVE StatOK'
  <2>1. /\ links' = links /\ telling' = [telling EXCEPT ![d] = "error"] /\ pub' = pub
        /\ UNCHANGED <<exchange, subscribed, connected, iniBox, asked>>
    BY <1>6 DEF ConnectFails, LossNoticed, msgVars, statVars
  <2>2. Cardinality(Pending(telling')) <= Cardinality(Pending(telling))
    BY <1>t, <2>1, PendingStep
  <2>3. Cardinality(Pending(telling')) \in Nat
    BY PendingFinite
  <2>4. /\ pub' \in Seq(BOOLEAN) /\ links' \in Nat
        /\ Cardinality(Pending(telling')) + Cardinality(Told(pub')) + links
              <= Cardinality(Pending(telling)) + Cardinality(Told(pub)) + links'
    BY <1>t, <2>1, <2>2, <2>3, Counts
  <2> QED
    BY <2>1, <2>4, TellOK
<1>7. ASSUME NEW d \in Dials, SendStatus(d) PROVE StatOK'
  <2> DEFINE b == telling[d] = "success"
  <2>1. /\ links' = links /\ telling' = [telling EXCEPT ![d] = "nothing"]
        /\ pub' = Append(pub, b) \/ pub' = pub
        /\ UNCHANGED <<exchange, subscribed, connected, iniBox, asked>>
    BY <1>7 DEF SendStatus, msgVars
  <2>2. /\ Cardinality(Pending(telling')) <= Cardinality(Pending(telling))
        /\ b => Cardinality(Pending(telling')) + 1 <= Cardinality(Pending(telling))
    BY <1>t, <2>1, PendingStep
  <2>3. b \in BOOLEAN
    OBVIOUS
  <2> HIDE DEF b
  <2>4. pub' \in Seq(BOOLEAN)
    BY <1>t, <2>1, <2>3
  <2>5. Cardinality(Pending(telling')) \in Nat /\ Cardinality(Told(pub')) \in Nat
    BY <2>4, PendingFinite, ToldFinite
  <2>6. /\ Cardinality(Told(pub')) <= Cardinality(Told(pub)) + 1
        /\ ~b => Cardinality(Told(pub')) <= Cardinality(Told(pub))
    <3>1. CASE pub' = pub
      BY <3>1, Counts
    <3>2. CASE pub' = Append(pub, b)
      BY <1>t, <2>3, <3>2, ToldAppend
    <3> QED
      BY <2>1, <3>1, <3>2
  <2>7. /\ links' \in Nat
        /\ Cardinality(Pending(telling')) + Cardinality(Told(pub')) + links
              <= Cardinality(Pending(telling)) + Cardinality(Told(pub)) + links'
    <3>1. CASE b
      BY <2>1, <2>2, <2>5, <2>6, <3>1, Counts
    <3>2. CASE ~b
      BY <2>1, <2>2, <2>5, <2>6, <3>2, Counts
    <3> QED
      BY <3>1, <3>2
  <2> QED
    BY <2>1, <2>4, <2>7, TellOK
<1>8. ASSUME NEW d \in Dials, AddConnectionTo(d) \/ Break(d) \/ LstNewMessage(d)
                                \/ ConNewMessage(d) \/ ConHandle(d)
      PROVE  StatOK'
  BY <1>1, <1>8 DEF AddConnectionTo, Break, LstNewMessage, ConNewMessage, ConHandle, ConSend,
                    PackOverruns, linkVars, msgVars, statVars
<1>9. ASSUME NEW r \in Reqs, Supervise(r) \/ Close(r) \/ StopActor(r) \/ AddListenerOn
      PROVE  StatOK'
  BY <1>1, <1>9 DEF Supervise, StartSocket, Record, Close, StopActor, AddListenerOn, linkVars,
                    msgVars, statVars
<1>10. CASE EchoHandle \/ LstHandle \/ \E u \in UserActors : MakeUser(u)
  BY <1>1, <1>10 DEF EchoHandle, LstHandle, LstSend, PackOverruns, MakeUser, linkVars, msgVars,
                     statVars
<1>11. CASE UNCHANGED vars
  BY <1>1, <1>11 DEF vars, linkVars, msgVars, statVars
<1>12. Lst \in Reqs
  BY Constants
<1> QED
  BY <1>2, <1>3, <1>4, <1>5, <1>6, <1>7, <1>8, <1>9, <1>10, <1>11, <1>12
     DEF Next, Asking, CallBack, Handle

\* A mailbox of the listener's side gains or loses a message.
LEMMA LstBoxes ==
    ASSUME NEW q \in Seq(LstMsg), NEW L \in Nat, \A i \in DOMAIN q : q[i].sender_id <= L
    PROVE  /\ q # <<>> => /\ Tail(q) \in Seq(LstMsg) /\ Head(q) \in LstMsg
                          /\ Head(q).sender_id <= L
                          /\ \A i \in DOMAIN Tail(q) : Tail(q)[i].sender_id <= L
           /\ \A m \in LstMsg : m.sender_id <= L =>
                 /\ Append(q, m) \in Seq(LstMsg)
                 /\ \A i \in DOMAIN Append(q, m) : Append(q, m)[i].sender_id <= L
<1>1. ASSUME q # <<>>
      PROVE  /\ Tail(q) \in Seq(LstMsg) /\ Head(q) \in LstMsg /\ Head(q).sender_id <= L
             /\ \A i \in DOMAIN Tail(q) : Tail(q)[i].sender_id <= L
  <2>1. /\ Tail(q) \in Seq(LstMsg) /\ Head(q) \in LstMsg /\ Head(q) = q[1] /\ 1 \in DOMAIN q
        /\ \A i \in DOMAIN Tail(q) : Tail(q)[i] = q[i + 1] /\ i + 1 \in DOMAIN q
    BY <1>1
  <2> QED
    BY <2>1
<1>2. ASSUME NEW m \in LstMsg, m.sender_id <= L
      PROVE  /\ Append(q, m) \in Seq(LstMsg)
             /\ \A i \in DOMAIN Append(q, m) : Append(q, m)[i].sender_id <= L
  <2>1. /\ Append(q, m) \in Seq(LstMsg)
        /\ \A i \in DOMAIN Append(q, m) :
              Append(q, m)[i] = m \/ (i \in DOMAIN q /\ Append(q, m)[i] = q[i])
    OBVIOUS
  <2> QED
    BY <1>2, <2>1
<1> QED
  BY <1>1, <1>2

\* Messages: what is unpacked is again a message for a user actor.
LEMMA NextMsgOK == TInv /\ [Next]_vars => MsgOK'
<1> SUFFICES ASSUME TInv, [Next]_vars PROVE MsgOK'
  OBVIOUS
<1> USE DEF TInv
<1>0. /\ links \in Nat /\ MaxLinks \in Nat /\ links <= MaxLinks
      /\ EchoName \in UserActors /\ ClientName \in UserActors
  BY NetworkAssumption DEF LinkOK, UserActors
<1>1. ASSUME UNCHANGED <<conBox, lstBox, echoBox, up, down, got, links>> PROVE MsgOK'
  BY <1>1 DEF MsgOK
<1>2. ASSUME NEW r \in Reqs, StopActor(r) PROVE MsgOK'
  <2>1. /\ lstBox' = IF r = Lst THEN <<>> ELSE lstBox
        /\ conBox' = IF r \in Dials THEN [conBox EXCEPT ![r] = <<>>] ELSE conBox
        /\ UNCHANGED <<echoBox, up, down, got, links>>
    BY <1>2 DEF StopActor
  <2>2. conBox' \in [Dials -> Seq(NetMsg)]
    <3>1. CASE r \in Dials
      <4>1. <<>> \in Seq(NetMsg)
        OBVIOUS
      <4> QED
        BY <2>1, <3>1, <4>1 DEF MsgOK
    <3> QED
      BY <2>1, <3>1 DEF MsgOK
  <2>3. lstBox' \in Seq(LstMsg) /\ \A i \in DOMAIN lstBox' : lstBox'[i].sender_id <= links'
    <3>1. CASE r = Lst
      <4>1. lstBox' = <<>>
        BY <2>1, <3>1
      <4> QED
        BY <4>1
    <3> QED
      BY <2>1, <3>1 DEF MsgOK
  <2> QED
    BY <2>1, <2>2, <2>3 DEF MsgOK
<1>3. ASSUME NEW d \in Dials, Connect(d) PROVE MsgOK'
  <2>1. links' = links + 1 /\ UNCHANGED <<conBox, lstBox, echoBox, up, down, got>>
    BY <1>3 DEF Connect, msgVars
  <2>2. /\ \A i \in DOMAIN echoBox : echoBox[i].sender_id \in Nat
        /\ \A i \in DOMAIN lstBox : lstBox[i].sender_id \in Nat
    <3>1. \A m \in LstMsg : m.sender_id \in Nat
      BY DEF LstMsg
    <3>2. echoBox \in Seq(LstMsg) /\ lstBox \in Seq(LstMsg)
      BY DEF MsgOK
    <3>3. /\ \A i \in DOMAIN echoBox : echoBox[i] \in LstMsg
          /\ \A i \in DOMAIN lstBox : lstBox[i] \in LstMsg
      BY <3>2
    <3> QED
      BY <3>1, <3>3
  <2> QED
    BY <1>0, <2>1, <2>2 DEF MsgOK
<1>4. ASSUME NEW d \in Dials, LossNoticed(d) PROVE MsgOK'
  <2>1. /\ up' = [up EXCEPT ![d] = <<>>] /\ down' = [down EXCEPT ![d] = <<>>]
        /\ UNCHANGED <<conBox, lstBox, echoBox, got, links>>
    BY <1>4 DEF LossNoticed
  <2>2. up' \in [Dials -> Seq(Wire)] /\ down' \in [Dials -> Seq(Wire)]
    BY <2>1 DEF MsgOK
  <2> QED
    BY <2>1, <2>2 DEF MsgOK
<1>5. CASE InitiatorHandle
  <2>1. UNCHANGED <<lstBox, echoBox, up, down, got, links>>
    BY <1>5 DEF InitiatorHandle, linkVars
  <2>2. CASE UNCHANGED conBox
    BY <1>1, <2>1, <2>2
  <2>3. CASE ~UNCHANGED conBox
    <3>1. PICK d \in Dials : conBox' = [conBox EXCEPT ![d] =
                                Append(@, [name |-> EchoName, data |-> Payload(Len(asked) + 1)])]
      BY <1>5, <2>3, Constants DEF InitiatorHandle, GetAddress, ReqOK, IInv, Shape, Reqs, Side,
                                   Sides
    <3>2. Len(asked) + 1 \in 1 .. MaxLinks
      <4>1. Len(asked') = Len(asked) + 1 /\ Len(asked') <= links' /\ links' = links
        <5>1. StatOK' /\ LinkOK'
          BY NextStatOK, NextLinkOK
        <5>2. Len(asked)' <= links'
          <6>1. /\ Cardinality(Told(pub))' \in Nat /\ Cardinality(Told(iniBox))' \in Nat
                /\ Cardinality(Pending(telling))' \in Nat
                /\ Len(asked)' \in Nat /\ links' \in Nat
            <7>1. pub' \in Seq(BOOLEAN) /\ iniBox' \in Seq(BOOLEAN) /\ asked' \in Seq(Dials)
              BY <5>1 DEF StatOK
            <7>2. /\ Told(pub)' = Told(pub') /\ Told(iniBox)' = Told(iniBox')
                  /\ Pending(telling)' = Pending(telling')
              BY DEF Told, Pending
            <7>3. /\ Cardinality(Told(pub')) \in Nat /\ Cardinality(Told(iniBox')) \in Nat
                  /\ Cardinality(Pending(telling')) \in Nat
              BY <7>1, ToldFinite, PendingFinite
            <7> QED
              BY <1>0, <2>1, <7>1, <7>2, <7>3
          <6> QED
            BY <5>1, <6>1 DEF StatOK, Counted
        <5>3. \E c : asked' = Append(asked, c)
          BY <1>5, <2>3 DEF InitiatorHandle
        <5>4. asked \in Seq(Dials) /\ asked' \in Seq(Dials)
          BY <5>1 DEF StatOK
        <5>5. Len(asked') = Len(asked) + 1
          BY <5>3, <5>4
        <5> QED
          BY <2>1, <5>2, <5>5
      <4> QED
        BY <1>0, <4>1, Counts
    <3>3. [name |-> EchoName, data |-> Payload(Len(asked) + 1)] \in NetMsg
      BY <1>0, <3>2, DataLemma DEF NetMsg
    <3>4. conBox' \in [Dials -> Seq(NetMsg)]
      BY <3>1, <3>3 DEF MsgOK
    <3> QED
      BY <2>1, <3>4 DEF MsgOK
  <2> QED
    BY <2>2, <2>3
<1>6. ASSUME NEW d \in Dials, conBox[d] # <<>>, ConSend(d) PROVE MsgOK'
  <2>1. /\ conBox[d] # <<>> /\ conBox' = [conBox EXCEPT ![d] = Tail(@)]
        /\ up' = up \/ up' = [up EXCEPT ![d] = Append(@, PackedMessage(Head(conBox[d])))]
        /\ ~Overruns(Capacity(Head(conBox[d])))
        /\ UNCHANGED <<lstBox, echoBox, down, got, links>>
    BY <1>6 DEF ConSend, linkVars
  <2>2. conBox[d] \in Seq(NetMsg) /\ up[d] \in Seq(Wire)
    BY DEF MsgOK
  <2>3. Tail(conBox[d]) \in Seq(NetMsg) /\ Head(conBox[d]) \in NetMsg
    BY <2>1, <2>2
  <2>4. PackedMessage(Head(conBox[d])) \in Wire
    BY <2>1, <2>3, WireLemma
  <2>5. conBox' \in [Dials -> Seq(NetMsg)] /\ up' \in [Dials -> Seq(Wire)]
    <3>1. Append(up[d], PackedMessage(Head(conBox[d]))) \in Seq(Wire)
      BY <2>2, <2>4
    <3>2. conBox' \in [Dials -> Seq(NetMsg)]
      BY <2>1, <2>3 DEF MsgOK
    <3>3. up' \in [Dials -> Seq(Wire)]
      BY <2>1, <3>1 DEF MsgOK
    <3> QED
      BY <3>2, <3>3
  <2> QED
    BY <2>1, <2>5 DEF MsgOK
<1>7. ASSUME NEW d \in Dials, LstNewMessage(d) PROVE MsgOK'
  <2> DEFINE m == PackedOf(Head(up[d]))
             e == [sender_id |-> link[d], name |-> m.name, data |-> m.data]
  <2>1. /\ link[d] # 0 /\ up[d] # <<>> /\ up' = [up EXCEPT ![d] = Tail(@)]
        /\ echoBox' = echoBox \/ echoBox' = Append(echoBox, e)
        /\ UNCHANGED <<conBox, lstBox, down, got, links>>
    BY <1>7 DEF LstNewMessage, linkVars
  <2>2. up[d] \in Seq(Wire)
    BY DEF MsgOK
  <2>3. Tail(up[d]) \in Seq(Wire) /\ Head(up[d]) \in Wire
    BY <2>1, <2>2
  <2>4. m.name \in UserActors /\ m.data \in Data
    BY <2>3, WireLemma
  <2>5. link[d] \in 1 .. MaxLinks /\ link[d] <= links
    BY <2>1, <1>0 DEF LinkOK
  <2>6. e \in LstMsg /\ e.sender_id <= links
    BY <2>4, <2>5 DEF LstMsg
  <2>7. up' \in [Dials -> Seq(Wire)]
    BY <2>1, <2>3 DEF MsgOK
  <2> HIDE DEF e
  <2>8. echoBox' \in Seq(LstMsg) /\ \A i \in DOMAIN echoBox' : echoBox'[i].sender_id <= links
    BY <1>0, <2>1, <2>6, LstBoxes DEF MsgOK
  <2> QED
    BY <2>1, <2>7, <2>8 DEF MsgOK
<1>8. CASE EchoHandle
  <2> DEFINE h == Head(echoBox)
             m == [h EXCEPT !.name = ClientName]
  <2>1. /\ echoBox # <<>> /\ echoBox' = Tail(echoBox)
        /\ lstBox' = lstBox \/ lstBox' = Append(lstBox, m)
        /\ UNCHANGED <<conBox, up, down, got, links>>
    BY <1>8 DEF EchoHandle, linkVars
  <2>2. /\ echoBox' \in Seq(LstMsg) /\ h \in LstMsg /\ h.sender_id <= links
        /\ \A i \in DOMAIN echoBox' : echoBox'[i].sender_id <= links
    BY <1>0, <2>1, LstBoxes DEF MsgOK
  <2> HIDE DEF h
  <2>3. m \in LstMsg /\ m.sender_id <= links
    BY <1>0, <2>2 DEF LstMsg
  <2> HIDE DEF m
  <2>4. lstBox' \in Seq(LstMsg) /\ \A i \in DOMAIN lstBox' : lstBox'[i].sender_id <= links
    BY <1>0, <2>1, <2>3, LstBoxes DEF MsgOK
  <2> QED
    BY <2>1, <2>2, <2>4 DEF MsgOK
<1>9. ASSUME lstBox # <<>>, LstSend PROVE MsgOK'
  <2> DEFINE m == Head(lstBox)
             n == [name |-> m.name, data |-> m.data]
  <2>1. /\ lstBox # <<>> /\ lstBox' = Tail(lstBox) /\ ~Overruns(Capacity(m))
        /\ down' = [d \in Dials |-> IF link[d] = m.sender_id
                                    THEN Append(down[d], PackedMessage(n)) ELSE down[d]]
        /\ UNCHANGED <<conBox, echoBox, up, got, links>>
    BY <1>9 DEF LstSend, linkVars
  <2>2. /\ lstBox' \in Seq(LstMsg) /\ m \in LstMsg
        /\ \A i \in DOMAIN lstBox' : lstBox'[i].sender_id <= links
    BY <1>0, <2>1, LstBoxes DEF MsgOK
  <2>3. n \in NetMsg /\ Capacity(n) = Capacity(m)
    BY <2>2 DEF LstMsg, NetMsg, Capacity
  <2> HIDE DEF n
  <2>4. PackedMessage(n) \in Wire
    BY <2>1, <2>3, WireLemma
  <2> HIDE DEF m, n
  <2>5. down' \in [Dials -> Seq(Wire)]
    BY <2>1, <2>4 DEF MsgOK
  <2> QED
    BY <2>1, <2>2, <2>5 DEF MsgOK
<1>10. ASSUME NEW d \in Dials, ConNewMessage(d) PROVE MsgOK'
  <2> DEFINE m == PackedOf(Head(down[d]))
             g == [con |-> d, data |-> m.data]
  <2>1. /\ down[d] # <<>> /\ down' = [down EXCEPT ![d] = Tail(@)]
        /\ got' = got \/ got' = Append(got, g)
        /\ UNCHANGED <<conBox, lstBox, echoBox, up, links>>
    BY <1>10 DEF ConNewMessage, linkVars
  <2>2. down[d] \in Seq(Wire)
    BY DEF MsgOK
  <2>3. Tail(down[d]) \in Seq(Wire) /\ Head(down[d]) \in Wire
    BY <2>1, <2>2
  <2>4. m.data \in Data
    BY <2>3, WireLemma
  <2>5. g \in [con : Dials, data : Data]
    BY <2>4
  <2> HIDE DEF g
  <2>6. down' \in [Dials -> Seq(Wire)]
    BY <2>1, <2>3 DEF MsgOK
  <2>7. got' \in Seq([con : Dials, data : Data])
    <3> DEFINE G == [con : Dials, data : Data]
    <3>1. got \in Seq(G) /\ g \in G
      BY <2>5 DEF MsgOK
    <3> HIDE DEF G
    <3>2. got' \in Seq(G)
      BY <2>1, <3>1
    <3> QED
      BY <3>2 DEF G
  <2> QED
    BY <2>1, <2>6, <2>7 DEF MsgOK
<1>11. ASSUME NEW d \in Dials, AddConnectionTo(d) \/ ConnectFails(d) \/ Break(d) \/ SendStatus(d)
       PROVE  MsgOK'
  BY <1>1, <1>11 DEF AddConnectionTo, ConnectFails, Break, SendStatus, linkVars, msgVars
<1>12. ASSUME NEW r \in Reqs, Supervise(r) \/ Close(r) \/ AddListenerOn PROVE MsgOK'
  BY <1>1, <1>12 DEF Supervise, StartSocket, Record, Close, AddListenerOn, linkVars, msgVars
<1>13. CASE Subscribe \/ HandOn \/ (\E u \in UserActors : MakeUser(u)) \/ \E m : PackOverruns(m)
  BY <1>1, <1>13 DEF Subscribe, HandOn, MakeUser, PackOverruns, linkVars, msgVars
<1>14. CASE UNCHANGED vars
  BY <1>1, <1>14 DEF vars, linkVars, msgVars
<1>15. Lst \in Reqs
  BY Constants
<1> QED
  BY <1>2, <1>3, <1>4, <1>5, <1>6, <1>7, <1>8, <1>9, <1>10, <1>11, <1>12, <1>13, <1>14, <1>15
     DEF Next, Asking, CallBack, Handle, ConHandle, LstHandle

\* It holds initially and every step keeps it.
LEMMA InitTInv == Init => TInv
<1> SUFFICES ASSUME Init PROVE TInv
  OBVIOUS
<1>1. IInv /\ ReqOK /\ users \subseteq UserActors
  BY InitIInv, NetworkAssumption DEF Init, ReqOK
<1>2. LinkOK
  BY Constants, NetworkAssumption DEF Init, LinkOK
<1>3. /\ Cardinality(Told(pub)) = 0 /\ Cardinality(Told(iniBox)) = 0
      /\ Cardinality(Pending(telling)) = 0
  <2>1. Told(pub) = {} /\ Told(iniBox) = {} /\ Pending(telling) = {}
    BY DEF Init, Told, Pending
  <2> QED
    BY <2>1, FS_EmptySet
<1>4. StatOK
  <2>1. Counted
    BY <1>3 DEF Init, Counted
  <2>2. pub \in Seq(BOOLEAN) /\ iniBox \in Seq(BOOLEAN) /\ asked \in Seq(Dials)
    BY DEF Init
  <2> QED
    BY <2>1, <2>2, Zenon DEF Init, StatOK
<1>5. MsgOK
  BY DEF Init, MsgOK
<1> QED
  BY <1>1, <1>2, <1>4, <1>5 DEF TInv

\* Every step keeps the types, group by group.
LEMMA NextTInv == TInv /\ [Next]_vars => TInv'
<1> SUFFICES ASSUME TInv, [Next]_vars PROVE TInv'
  OBVIOUS
<1>1. IInv'
  BY StepIInv DEF TInv
<1>2. users' \subseteq UserActors
  <2>1. ASSUME users' = users PROVE users' \subseteq UserActors
    BY <2>1 DEF TInv
  <2>2. ASSUME NEW u \in UserActors, MakeUser(u) PROVE users' \subseteq UserActors
    BY <2>2 DEF TInv, MakeUser
  <2>3. CASE Subscribe \/ HandOn \/ Handle
    BY <2>1, <2>3 DEF Subscribe, HandOn, Handle, InitiatorHandle, EchoHandle, LstHandle,
                      LstSend, ConHandle, ConSend, PackOverruns
  <2>4. ASSUME NEW d \in Dials,
               AddConnectionTo(d) \/ ConnectFails(d) \/ Break(d) \/ CallBack(d)
        PROVE  users' \subseteq UserActors
    BY <2>1, <2>4 DEF AddConnectionTo, ConnectFails, Break, CallBack, Connect, LossNoticed,
                      SendStatus, LstNewMessage, ConNewMessage
  <2>5. ASSUME NEW r \in Reqs, Supervise(r) \/ Close(r) \/ StopActor(r) \/ AddListenerOn
        PROVE  users' \subseteq UserActors
    BY <2>1, <2>5 DEF Supervise, StartSocket, Record, Close, StopActor, AddListenerOn
  <2>6. CASE UNCHANGED vars
    BY <2>1, <2>6 DEF vars
  <2>7. Lst \in Reqs
    BY Constants
  <2> QED
    BY <2>2, <2>3, <2>4, <2>5, <2>6, <2>7 DEF Next, Asking
<1> QED
  BY <1>1, <1>2, NextReqOK, NextLinkOK, NextStatOK, NextMsgOK DEF TInv

\* The variables of the network keep their types for any number of dials, links and
\* failures: every id is that of one open connection, no more requests are sent than
\* connections were made, and a name that was unpacked is the name of a user actor
\* (context_network.cpp:18-26, 39-57, 82-124; helpers.h:33-47, 58-74).
THEOREM NetworkTypeOK == Spec => []TypeOK
<1>1. TInv => TypeOK
  <2> SUFFICES ASSUME TInv PROVE TypeOK
    OBVIOUS
  <2>1. Len(asked) <= links
    BY Counts DEF TInv
  <2> QED
    BY <2>1 DEF TInv, TypeOK, IInv, Shape, LinksOpen, ReqOK, LinkOK, StatOK, MsgOK
<1> QED
  BY InitTInv, NextTInv, <1>1, PTL DEF Spec

-----------------------------------------------------------------------------
(* The way of a request and its answer                                     *)

\* The numbers of the requests on the way of connection d, from its end back to its
\* start: answers that have come, answers and requests in the mailboxes and on the wire.
Came(d)    == [i \in {j \in DOMAIN got : got[j].con = d} |-> No(got[i].data)]
Coming(d)  == [i \in DOMAIN down[d] |-> No(PackedOf(down[d][i]).data)]
Replies(d) == [i \in {j \in DOMAIN lstBox : lstBox[j].sender_id = link[d]} |->
                  No(lstBox[i].data)]
Waiting(d) == [i \in {j \in DOMAIN echoBox : echoBox[j].sender_id = link[d]} |->
                  No(echoBox[i].data)]
Going(d)   == [i \in DOMAIN up[d] |-> No(PackedOf(up[d][i]).data)]
Queued(d)  == [i \in DOMAIN conBox[d] |-> No(conBox[d][i].data)]
Way(d)     == <<Came(d), Coming(d), Replies(d), Waiting(d), Going(d), Queued(d)>>

\* The numbers rise along the way: nothing is overtaken and nothing is there twice.
Rising(w) ==
    \A k, l \in 1 .. 6 : \A i \in DOMAIN w[k], j \in DOMAIN w[l] :
        (k < l \/ (k = l /\ i < j)) => w[k][i] < w[l][j]

\* What is on the way of d was sent to d.
InLine(d) ==
    /\ Rising(Way(d))
    /\ \A k \in 1 .. 6 : \A i \in DOMAIN Way(d)[k] :
          Way(d)[k][i] \in DOMAIN asked /\ asked[Way(d)[k][i]] = d

AInv == TInv /\ \A d \in Dials : InLine(d)

\* Stage g is stage f without some of its numbers, the first taken off or not.
Thins(g, f) ==
    \/ \A i \in DOMAIN g : i \in DOMAIN f /\ g[i] = f[i]
    \/ \A i \in DOMAIN g : i + 1 \in DOMAIN f /\ g[i] = f[i + 1]

\* The values of v are among those of w.
Within(v, w) ==
    \A k \in 1 .. 6 : \A i \in DOMAIN v[k] :
        \E l \in 1 .. 6 : \E j \in DOMAIN w[l] : v[k][i] = w[l][j]

\* Losing numbers does not hurt.
LEMMA ThinRises ==
    ASSUME NEW w, NEW v, Rising(w), \A k \in 1 .. 6 : DOMAIN v[k] \subseteq Nat,
           \A k \in 1 .. 6 : Thins(v[k], w[k])
    PROVE  Rising(v) /\ Within(v, w)
<1>1. ASSUME NEW k \in 1 .. 6, NEW i \in DOMAIN v[k]
      PROVE  \E j \in DOMAIN w[k] : v[k][i] = w[k][j]
  BY DEF Thins
<1>2. ASSUME NEW k \in 1 .. 6, NEW l \in 1 .. 6, k < l,
             NEW i \in DOMAIN v[k], NEW j \in DOMAIN v[l]
      PROVE  v[k][i] < v[l][j]
  <2>1. PICK a \in DOMAIN w[k] : v[k][i] = w[k][a]
    BY <1>1
  <2>2. PICK b \in DOMAIN w[l] : v[l][j] = w[l][b]
    BY <1>1
  <2> QED
    BY <1>2, <2>1, <2>2 DEF Rising
<1>3. ASSUME NEW k \in 1 .. 6, NEW i \in DOMAIN v[k], NEW j \in DOMAIN v[k], i < j
      PROVE  v[k][i] < v[k][j]
  <2>1. i \in Nat /\ j \in Nat /\ i + 1 < j + 1
    BY <1>3
  <2>2. CASE \A n \in DOMAIN v[k] : n \in DOMAIN w[k] /\ v[k][n] = w[k][n]
    BY <1>3, <2>2 DEF Rising
  <2>3. CASE \A n \in DOMAIN v[k] : n + 1 \in DOMAIN w[k] /\ v[k][n] = w[k][n + 1]
    BY <2>1, <2>3 DEF Rising
  <2> QED
    BY <2>2, <2>3 DEF Thins
<1> QED
  BY <1>1, <1>2, <1>3 DEF Rising, Within

\* Nor does it hurt to move the first number of a stage to the end of the next.
LEMMA MoveRises ==
    ASSUME NEW w, NEW v, Rising(w), \A k \in 1 .. 6 : DOMAIN v[k] \subseteq Nat,
           NEW k \in 2 .. 6, NEW e \in Nat, 1 \in DOMAIN w[k],
           \A l \in (1 .. 6) \ {k, k - 1} : v[l] = w[l],
           \A i \in DOMAIN v[k] : i > 0 /\ i + 1 \in DOMAIN w[k] /\ v[k][i] = w[k][i + 1],
           \A i \in DOMAIN v[k - 1] :
              \/ i = e /\ v[k - 1][i] = w[k][1]
              \/ i < e /\ i \in DOMAIN w[k - 1] /\ v[k - 1][i] = w[k - 1][i]
    PROVE  Rising(v) /\ Within(v, w)
<1> DEFINE h == k - 1
<1>0. h \in 1 .. 6 /\ k \in 1 .. 6 /\ h < k /\ \A l \in 1 .. 6 : l < k => l <= h
  OBVIOUS
<1>h. \A i \in DOMAIN v[h] : \/ i = e /\ v[h][i] = w[k][1]
                             \/ i < e /\ i \in DOMAIN w[h] /\ v[h][i] = w[h][i]
  OBVIOUS
<1>o. \A l \in 1 .. 6 : l # k /\ l # h => v[l] = w[l]
  OBVIOUS
<1> HIDE DEF h
\* Where a number of v was in w.
<1>1. ASSUME NEW l \in 1 .. 6, NEW i \in DOMAIN v[l]
      PROVE  \/ \E j \in DOMAIN w[l] : v[l][i] = w[l][j]
             \/ l = h /\ v[l][i] = w[k][1]
  BY <1>h, <1>o
<1>2. Within(v, w)
  BY <1>0, <1>1 DEF Within
<1>3. ASSUME NEW l \in 1 .. 6, NEW m \in 1 .. 6, l < m,
             NEW i \in DOMAIN v[l], NEW j \in DOMAIN v[m]
      PROVE  v[l][i] < v[m][j]
  <2>1. CASE \E a \in DOMAIN w[l] : v[l][i] = w[l][a]
    <3>1. PICK a \in DOMAIN w[l] : v[l][i] = w[l][a]
      BY <2>1
    <3>2. CASE \E b \in DOMAIN w[m] : v[m][j] = w[m][b]
      BY <1>3, <3>1, <3>2 DEF Rising
    <3>3. CASE m = h /\ v[m][j] = w[k][1]
      <4>1. l < k
        BY <1>0, <1>3, <3>3
      <4> QED
        BY <1>0, <3>1, <3>3, <4>1 DEF Rising
    <3> QED
      BY <1>1, <3>2, <3>3
  <2>2. CASE l = h /\ v[l][i] = w[k][1]
    <3>1. CASE m = k
      <4>1. j \in Nat /\ j > 0 /\ j + 1 \in DOMAIN w[k] /\ v[m][j] = w[k][j + 1]
        BY <1>0, <3>1
      <4>2. 1 < j + 1
        BY <4>1
      <4> QED
        BY <1>0, <2>2, <4>1, <4>2 DEF Rising
    <3>2. CASE m # k
      <4>1. k < m /\ m # h
        BY <1>0, <1>3, <2>2, <3>2
      <4>2. v[m] = w[m]
        BY <1>o, <3>2, <4>1
      <4> QED
        BY <1>0, <2>2, <4>1, <4>2 DEF Rising
    <3> QED
      BY <3>1, <3>2
  <2> QED
    BY <1>1, <2>1, <2>2
<1>4. ASSUME NEW l \in 1 .. 6, NEW i \in DOMAIN v[l], NEW j \in DOMAIN v[l], i < j
      PROVE  v[l][i] < v[l][j]
  <2>0. i \in Nat /\ j \in Nat
    OBVIOUS
  <2>1. CASE l = k
    <3>1. i + 1 < j + 1
      BY <2>0, <1>4
    <3> QED
      BY <1>0, <2>1, <3>1 DEF Rising
  <2>2. CASE l = h
    <3>1. CASE j < e
      BY <1>h, <1>4, <2>0, <2>2, <3>1 DEF Rising
    <3>2. CASE j = e
      <4>1. i \in DOMAIN w[h] /\ v[h][i] = w[h][i]
        BY <1>h, <1>4, <2>0, <2>2, <3>2
      <4>2. v[h][j] = w[k][1]
        BY <1>h, <2>0, <2>2, <3>2
      <4> QED
        BY <1>0, <2>2, <4>1, <4>2 DEF Rising
    <3> QED
      BY <1>h, <2>2, <3>1, <3>2
  <2>3. CASE l # k /\ l # h
    <3>1. v[l] = w[l]
      BY <1>o, <2>3
    <3> QED
      BY <1>4, <3>1 DEF Rising
  <2> QED
    BY <2>1, <2>2, <2>3
<1> QED
  BY <1>2, <1>3, <1>4 DEF Rising

\* The stages after a step, one by one.
LEMMA StagesAfter ==
    ASSUME MsgOK', NEW d \in Dials
    PROVE  /\ Way(d)' = <<Came(d)', Coming(d)', Replies(d)', Waiting(d)', Going(d)', Queued(d)'>>
           /\ \A k \in 1 .. 6 : DOMAIN Way(d)'[k] \subseteq Nat
<1>1. Way(d)' = <<Came(d)', Coming(d)', Replies(d)', Waiting(d)', Going(d)', Queued(d)'>>
  BY DEF Way
<1>2. /\ DOMAIN got' \subseteq Nat /\ DOMAIN lstBox' \subseteq Nat
      /\ DOMAIN echoBox' \subseteq Nat
      /\ DOMAIN down'[d] \subseteq Nat /\ DOMAIN up'[d] \subseteq Nat
      /\ DOMAIN conBox'[d] \subseteq Nat
  <2>1. /\ got' \in Seq([con : Dials, data : Data]) /\ lstBox' \in Seq(LstMsg)
        /\ echoBox' \in Seq(LstMsg) /\ down'[d] \in Seq(Wire) /\ up'[d] \in Seq(Wire)
        /\ conBox'[d] \in Seq(NetMsg)
    BY DEF MsgOK
  <2> QED
    BY <2>1
<1>3. /\ DOMAIN Came(d)' \subseteq Nat /\ DOMAIN Coming(d)' \subseteq Nat
      /\ DOMAIN Replies(d)' \subseteq Nat /\ DOMAIN Waiting(d)' \subseteq Nat
      /\ DOMAIN Going(d)' \subseteq Nat /\ DOMAIN Queued(d)' \subseteq Nat
  BY <1>2 DEF Came, Coming, Replies, Waiting, Going, Queued
<1>4. ASSUME NEW k \in 1 .. 6 PROVE DOMAIN Way(d)'[k] \subseteq Nat
  <2>1. k = 1 \/ k = 2 \/ k = 3 \/ k = 4 \/ k = 5 \/ k = 6
    OBVIOUS
  <2> QED
    BY <1>1, <1>3, <2>1
<1> QED
  BY <1>1, <1>4

\* What is on the way after a step was on it before, and sent to d then.
LEMMA LineFrom ==
    ASSUME NEW d \in Dials, InLine(d), Rising(Way(d)'), Within(Way(d)', Way(d)),
           \A n \in DOMAIN asked : n \in DOMAIN asked' /\ asked'[n] = asked[n]
    PROVE  InLine(d)'
<1>1. ASSUME NEW k \in 1 .. 6, NEW i \in DOMAIN Way(d)'[k]
      PROVE  Way(d)'[k][i] \in DOMAIN asked' /\ asked'[Way(d)'[k][i]] = d
  <2>1. PICK l \in 1 .. 6 : \E j \in DOMAIN Way(d)[l] : Way(d)'[k][i] = Way(d)[l][j]
    BY DEF Within
  <2>2. PICK j \in DOMAIN Way(d)[l] : Way(d)'[k][i] = Way(d)[l][j]
    BY <2>1
  <2>3. Way(d)[l][j] \in DOMAIN asked /\ asked[Way(d)[l][j]] = d
    BY DEF InLine
  <2> QED
    BY <2>2, <2>3
<1>2. Rising(Way(d))'
  BY DEF Rising
<1> QED
  BY <1>1, <1>2 DEF InLine

\* A step that only takes messages off the way.
LEMMA ThinLine ==
    ASSUME NEW d \in Dials, InLine(d), MsgOK',
           \A n \in DOMAIN asked : n \in DOMAIN asked' /\ asked'[n] = asked[n],
           Thins(Came(d)', Came(d)), Thins(Coming(d)', Coming(d)),
           Thins(Replies(d)', Replies(d)), Thins(Waiting(d)', Waiting(d)),
           Thins(Going(d)', Going(d)), Thins(Queued(d)', Queued(d))
    PROVE  InLine(d)'
<1>1. ASSUME NEW k \in 1 .. 6 PROVE Thins(Way(d)'[k], Way(d)[k])
  <2>1. k = 1 \/ k = 2 \/ k = 3 \/ k = 4 \/ k = 5 \/ k = 6
    OBVIOUS
  <2>2. /\ Way(d)'[1] = Came(d)' /\ Way(d)'[2] = Coming(d)' /\ Way(d)'[3] = Replies(d)'
        /\ Way(d)'[4] = Waiting(d)' /\ Way(d)'[5] = Going(d)' /\ Way(d)'[6] = Queued(d)'
    BY DEF Way
  <2>3. /\ Way(d)[1] = Came(d) /\ Way(d)[2] = Coming(d) /\ Way(d)[3] = Replies(d)
        /\ Way(d)[4] = Waiting(d) /\ Way(d)[5] = Going(d) /\ Way(d)[6] = Queued(d)
    BY DEF Way
  <2> QED
    BY <2>1, <2>2, <2>3
<1>2. \A k \in 1 .. 6 : DOMAIN Way(d)'[k] \subseteq Nat
  BY StagesAfter
<1>3. Rising(Way(d))
  BY DEF InLine
<1>4. Rising(Way(d)') /\ Within(Way(d)', Way(d))
  BY <1>1, <1>2, <1>3, ThinRises
<1> QED
  BY <1>4, LineFrom

\* The number that leaves stage f, of which g is left, comes to the end of stage r, which
\* becomes s.
Passes(f, g, r, s) ==
    /\ 1 \in DOMAIN f
    /\ \A i \in DOMAIN g : i > 0 /\ i + 1 \in DOMAIN f /\ g[i] = f[i + 1]
    /\ \E e \in Nat : \A i \in DOMAIN s : \/ i = e /\ s[i] = f[1]
                                          \/ i < e /\ i \in DOMAIN r /\ s[i] = r[i]

\* A step that takes one message on from stage k.
LEMMA MoveLine ==
    ASSUME NEW d \in Dials, InLine(d), MsgOK', asked' = asked, NEW k \in 2 .. 6,
           \A l \in (1 .. 6) \ {k, k - 1} : Way(d)'[l] = Way(d)[l],
           Passes(Way(d)[k], Way(d)'[k], Way(d)[k - 1], Way(d)'[k - 1])
    PROVE  InLine(d)'
<1>1. \A l \in 1 .. 6 : DOMAIN Way(d)'[l] \subseteq Nat
  BY StagesAfter
<1>2. Rising(Way(d))
  BY DEF InLine
<1>3. PICK e \in Nat : \A i \in DOMAIN Way(d)'[k - 1] :
         \/ i = e /\ Way(d)'[k - 1][i] = Way(d)[k][1]
         \/ i < e /\ i \in DOMAIN Way(d)[k - 1] /\ Way(d)'[k - 1][i] = Way(d)[k - 1][i]
  BY DEF Passes
<1>4. /\ 1 \in DOMAIN Way(d)[k]
      /\ \A i \in DOMAIN Way(d)'[k] : /\ i > 0 /\ i + 1 \in DOMAIN Way(d)[k]
                                      /\ Way(d)'[k][i] = Way(d)[k][i + 1]
  BY DEF Passes
<1>5. Rising(Way(d)') /\ Within(Way(d)', Way(d))
  <2> DEFINE w == Way(d)
             v == Way(d)'
  <2>1. /\ Rising(w) /\ (\A l \in 1 .. 6 : DOMAIN v[l] \subseteq Nat)
        /\ 1 \in DOMAIN w[k] /\ (\A l \in (1 .. 6) \ {k, k - 1} : v[l] = w[l])
        /\ \A i \in DOMAIN v[k] : i > 0 /\ i + 1 \in DOMAIN w[k] /\ v[k][i] = w[k][i + 1]
        /\ \A i \in DOMAIN v[k - 1] :
              \/ i = e /\ v[k - 1][i] = w[k][1]
              \/ i < e /\ i \in DOMAIN w[k - 1] /\ v[k - 1][i] = w[k - 1][i]
    BY <1>1, <1>2, <1>3, <1>4
  <2> HIDE DEF w, v
  <2>2. Rising(v) /\ Within(v, w)
    BY <2>1, MoveRises
  <2> QED
    BY <2>2 DEF w, v
<1> QED
  BY <1>5, LineFrom

\* The way of a connection that a step does not concern, or that it breaks: the boxes are
\* as before or empty, and the id of the connection is as before or no longer in use.
LEMMA AsideLine ==
    ASSUME NEW d \in Dials, InLine(d), MsgOK', asked' = asked, got' = got, echoBox' = echoBox,
           lstBox' = lstBox \/ lstBox' = <<>>, conBox'[d] = conBox[d] \/ conBox'[d] = <<>>,
           up'[d] = up[d] \/ up'[d] = <<>>, down'[d] = down[d] \/ down'[d] = <<>>,
           \/ link'[d] = link[d]
           \/ /\ \A i \in DOMAIN lstBox : lstBox[i].sender_id # link'[d]
              /\ \A i \in DOMAIN echoBox : echoBox[i].sender_id # link'[d]
    PROVE  InLine(d)'
<1>0. DOMAIN <<>> = {}
  OBVIOUS
<1>1. Thins(Came(d)', Came(d))
  BY DEF Thins, Came
<1>2. Thins(Coming(d)', Coming(d))
  BY <1>0 DEF Thins, Coming
<1>3. Thins(Replies(d)', Replies(d))
  BY <1>0 DEF Thins, Replies
<1>4. Thins(Waiting(d)', Waiting(d))
  BY <1>0 DEF Thins, Waiting
<1>5. Thins(Going(d)', Going(d))
  BY <1>0 DEF Thins, Going
<1>6. Thins(Queued(d)', Queued(d))
  BY <1>0 DEF Thins, Queued
<1> QED
  BY <1>1, <1>2, <1>3, <1>4, <1>5, <1>6, ThinLine

\* Taking the first element off a sequence, by places.
LEMMA TailPlaces ==
    ASSUME NEW S, NEW q \in Seq(S), q # <<>>
    PROVE  /\ Head(q) = q[1] /\ q[1] \in S /\ 1 \in DOMAIN q
           /\ \A i \in DOMAIN Tail(q) : i \in Nat /\ i > 0 /\ i + 1 \in DOMAIN q
                                        /\ Tail(q)[i] = q[i + 1]
OBVIOUS

\* Putting one at the end, by places.
LEMMA AppendPlaces ==
    ASSUME NEW S, NEW q \in Seq(S), NEW x
    PROVE  /\ Len(q) + 1 \in Nat /\ Append(q, x)[Len(q) + 1] = x
           /\ DOMAIN Append(q, x) = DOMAIN q \cup {Len(q) + 1}
           /\ \A i \in DOMAIN q : i \in Nat /\ i < Len(q) + 1 /\ Append(q, x)[i] = q[i]
OBVIOUS

\* The boxes and what is in them.
LEMMA Boxes ==
    ASSUME MsgOK, NEW d \in Dials
    PROVE  /\ conBox[d] \in Seq(NetMsg) /\ up[d] \in Seq(Wire) /\ down[d] \in Seq(Wire)
           /\ lstBox \in Seq(LstMsg) /\ echoBox \in Seq(LstMsg)
           /\ got \in Seq([con : Dials, data : Data])
           /\ DOMAIN conBox = Dials /\ DOMAIN up = Dials /\ DOMAIN down = Dials
BY DEF MsgOK

\* network_con_actor::action_handle takes a request from the mailbox to the wire.
LEMMA ConSendLine ==
    ASSUME AInv, MsgOK', NEW e \in Dials, conBox[e] # <<>>, ConSend(e), NEW d \in Dials
    PROVE  InLine(d)'
<1>0. InLine(d) /\ MsgOK
  BY DEF AInv, TInv
<1>1. /\ conBox[e] # <<>> /\ conBox' = [conBox EXCEPT ![e] = Tail(@)]
      /\ up' = IF sock[e] = "connected"
               THEN [up EXCEPT ![e] = Append(@, PackedMessage(Head(conBox[e])))] ELSE up
      /\ ~Overruns(Capacity(Head(conBox[e])))
      /\ UNCHANGED <<asked, got, echoBox, lstBox, down, link>>
  BY DEF ConSend, linkVars
<1>2. CASE d # e
  <2>1. conBox'[d] = conBox[d] /\ up'[d] = up[d]
    BY <1>0, <1>1, <1>2, Boxes
  <2> QED
    BY <1>0, <1>1, <2>1, AsideLine
<1>3. CASE d = e
  <2>1. conBox'[d] = Tail(conBox[d]) /\ conBox[d] \in Seq(NetMsg) /\ conBox[d] # <<>>
    BY <1>0, <1>1, <1>3, Boxes
  <2>2. /\ Head(conBox[d]) = conBox[d][1] /\ conBox[d][1] \in NetMsg /\ 1 \in DOMAIN conBox[d]
        /\ \A i \in DOMAIN conBox'[d] : i \in Nat /\ i > 0 /\ i + 1 \in DOMAIN conBox[d]
                                        /\ conBox'[d][i] = conBox[d][i + 1]
    BY <2>1, TailPlaces
  <2>3. \A i \in DOMAIN Queued(d)' : i > 0 /\ i + 1 \in DOMAIN Queued(d)
                                     /\ Queued(d)'[i] = Queued(d)[i + 1]
    BY <2>2 DEF Queued
  <2>4. /\ Came(d)' = Came(d) /\ Coming(d)' = Coming(d) /\ Replies(d)' = Replies(d)
        /\ Waiting(d)' = Waiting(d)
    BY <1>1 DEF Came, Coming, Replies, Waiting
  <2>5. CASE sock[d] # "connected"
    <3>1. Going(d)' = Going(d)
      BY <1>1, <1>3, <2>5 DEF Going
    <3> QED
      BY <1>0, <1>1, <2>3, <2>4, <3>1, ThinLine DEF Thins
  <2>6. CASE sock[d] = "connected"
    <3> DEFINE p == PackedMessage(conBox[d][1])
               l == Len(up[d]) + 1
    <3>1. up'[d] = Append(up[d], p) /\ up[d] \in Seq(Wire)
      BY <1>0, <1>1, <1>3, <2>2, <2>6, Boxes
    <3>2. No(PackedOf(p).data) = No(conBox[d][1].data)
      <4>1. ~Overruns(Capacity(conBox[d][1]))
        BY <1>1, <1>3, <2>2
      <4> QED
        BY <2>2, <4>1, WireLemma
    <3>3. /\ l \in Nat /\ up'[d][l] = p /\ DOMAIN up'[d] = DOMAIN up[d] \cup {l}
          /\ \A i \in DOMAIN up[d] : i < l /\ up'[d][i] = up[d][i]
      <4> HIDE DEF p
      <4> QED
        BY <3>1, AppendPlaces
    <3> HIDE DEF p, l
    <3>4. \A i \in DOMAIN Going(d)' :
             \/ i = l /\ Going(d)'[i] = Queued(d)[1]
             \/ i < l /\ i \in DOMAIN Going(d) /\ Going(d)'[i] = Going(d)[i]
      BY <2>2, <3>2, <3>3 DEF Going, Queued
    <3>5. 1 \in DOMAIN Queued(d)
      BY <2>2 DEF Queued
    <3>6. Passes(Queued(d), Queued(d)', Going(d), Going(d)')
      BY <2>3, <3>3, <3>4, <3>5 DEF Passes
    <3>7. /\ Way(d)[6] = Queued(d) /\ Way(d)'[6] = Queued(d)' /\ Way(d)[5] = Going(d)
          /\ Way(d)'[5] = Going(d)'
          /\ \A j \in (1 .. 6) \ {6, 5} : Way(d)'[j] = Way(d)[j]
      <4>1. \A j \in (1 .. 6) \ {6, 5} : j = 1 \/ j = 2 \/ j = 3 \/ j = 4
        OBVIOUS
      <4> QED
        BY <2>4, <4>1 DEF Way
    <3> QED
      <4>1. 6 \in 2 .. 6 /\ 6 - 1 = 5
        OBVIOUS
      <4> QED
        BY <1>0, <1>1, <3>6, <3>7, <4>1, MoveLine
  <2> QED
    BY <2>5, <2>6
<1> QED
  BY <1>2, <1>3

\* network_lst_actor::on_new_message takes it from the wire to the actor that answers.
LEMMA LstNewLine ==
    ASSUME AInv, MsgOK', NEW e \in Dials, LstNewMessage(e), NEW d \in Dials
    PROVE  InLine(d)'
<1> DEFINE m == PackedOf(Head(up[e]))
           x == [sender_id |-> link[e], name |-> m.name, data |-> m.data]
           l == Len(echoBox) + 1
<1>0. InLine(d) /\ MsgOK /\ LinkOK
  BY DEF AInv, TInv
<1>1. /\ link[e] # 0 /\ up[e] # <<>> /\ up' = [up EXCEPT ![e] = Tail(@)]
      /\ echoBox' = Append(echoBox, x) \/ echoBox' = echoBox
      /\ UNCHANGED <<asked, got, lstBox, conBox, down, link>>
  BY DEF LstNewMessage, linkVars
<1>2. x.sender_id = link[e] /\ x.data = m.data
  OBVIOUS
<1>3. echoBox \in Seq(LstMsg) /\ DOMAIN up = Dials /\ up[e] \in Seq(Wire)
  BY <1>0, Boxes
<1> HIDE DEF x
<1>4. /\ Came(d)' = Came(d) /\ Coming(d)' = Coming(d) /\ Replies(d)' = Replies(d)
      /\ Queued(d)' = Queued(d)
  BY <1>1 DEF Came, Coming, Replies, Queued
<1>5. CASE d # e
  <2>1. Going(d)' = Going(d)
    BY <1>1, <1>3, <1>5 DEF Going
  <2>2. Waiting(d)' = Waiting(d)
    <3>1. CASE echoBox' = echoBox
      BY <1>1, <3>1 DEF Waiting
    <3>2. CASE echoBox' = Append(echoBox, x)
      <4>1. /\ echoBox'[l] = x /\ DOMAIN echoBox' = DOMAIN echoBox \cup {l}
            /\ \A i \in DOMAIN echoBox : i < l /\ echoBox'[i] = echoBox[i]
        BY <1>3, <3>2, AppendPlaces
      <4>2. link[e] # link[d]
        BY <1>0, <1>1, <1>5 DEF LinkOK
      <4>3. {i \in DOMAIN echoBox' : echoBox'[i].sender_id = link[d]}
               = {i \in DOMAIN echoBox : echoBox[i].sender_id = link[d]}
        BY <1>2, <4>1, <4>2
      <4> QED
        BY <1>1, <4>1, <4>3 DEF Waiting
    <3> QED
      BY <1>1, <3>1, <3>2
  <2> QED
    BY <1>0, <1>1, <1>4, <2>1, <2>2, ThinLine DEF Thins
<1>6. CASE d = e
  <2>1. up'[d] = Tail(up[d]) /\ up[d] \in Seq(Wire) /\ up[d] # <<>>
    BY <1>1, <1>3, <1>6
  <2>2. /\ Head(up[d]) = up[d][1] /\ 1 \in DOMAIN up[d]
        /\ \A i \in DOMAIN up'[d] : i \in Nat /\ i > 0 /\ i + 1 \in DOMAIN up[d]
                                    /\ up'[d][i] = up[d][i + 1]
    BY <2>1, TailPlaces
  <2>3. \A i \in DOMAIN Going(d)' : i > 0 /\ i + 1 \in DOMAIN Going(d)
                                    /\ Going(d)'[i] = Going(d)[i + 1]
    BY <2>2 DEF Going
  <2>4. CASE echoBox' = echoBox
    <3>1. Waiting(d)' = Waiting(d)
      BY <1>1, <2>4 DEF Waiting
    <3> QED
      BY <1>0, <1>1, <1>4, <2>3, <3>1, ThinLine DEF Thins
  <2>5. CASE echoBox' = Append(echoBox, x)
    <3>1. /\ l \in Nat /\ echoBox'[l] = x /\ DOMAIN echoBox' = DOMAIN echoBox \cup {l}
          /\ \A i \in DOMAIN echoBox : i < l /\ echoBox'[i] = echoBox[i]
      BY <1>3, <2>5, AppendPlaces
    <3>2. Going(d)[1] = No(x.data) /\ 1 \in DOMAIN Going(d)
      BY <1>2, <1>6, <2>2 DEF Going
    <3> HIDE DEF m, l
    <3>3. \A i \in DOMAIN Waiting(d)' :
             \/ i = l /\ Waiting(d)'[i] = Going(d)[1]
             \/ i < l /\ i \in DOMAIN Waiting(d) /\ Waiting(d)'[i] = Waiting(d)[i]
      BY <1>1, <3>1, <3>2 DEF Waiting
    <3>4. Passes(Going(d), Going(d)', Waiting(d), Waiting(d)')
      BY <2>3, <3>1, <3>2, <3>3 DEF Passes
    <3>5. /\ Way(d)[5] = Going(d) /\ Way(d)'[5] = Going(d)' /\ Way(d)[4] = Waiting(d)
          /\ Way(d)'[4] = Waiting(d)'
          /\ \A j \in (1 .. 6) \ {5, 4} : Way(d)'[j] = Way(d)[j]
      <4>1. \A j \in (1 .. 6) \ {5, 4} : j = 1 \/ j = 2 \/ j = 3 \/ j = 6
        OBVIOUS
      <4> QED
        BY <1>4, <4>1 DEF Way
    <3>6. 5 \in 2 .. 6 /\ 5 - 1 = 4
      OBVIOUS
    <3> QED
      BY <1>0, <1>1, <3>4, <3>5, <3>6, MoveLine
  <2> QED
    BY <1>1, <2>4, <2>5
<1> QED
  BY <1>5, <1>6

\* The answer goes to the mailbox of the listener's actor.
LEMMA EchoLine ==
    ASSUME AInv, MsgOK', EchoHandle, NEW d \in Dials
    PROVE  InLine(d)'
<1> DEFINE h == Head(echoBox)
           x == [h EXCEPT !.name = ClientName]
           l == Len(lstBox) + 1
<1>0. InLine(d) /\ MsgOK
  BY DEF AInv, TInv
<1>1. /\ echoBox # <<>> /\ echoBox' = Tail(echoBox)
      /\ lstBox' = Append(lstBox, x) \/ lstBox' = lstBox
      /\ UNCHANGED <<asked, got, conBox, up, down, link>>
  BY DEF EchoHandle, linkVars
<1>2. echoBox \in Seq(LstMsg) /\ lstBox \in Seq(LstMsg)
  BY <1>0, Boxes
<1>3. /\ h = echoBox[1] /\ h \in LstMsg /\ 1 \in DOMAIN echoBox
      /\ \A i \in DOMAIN echoBox' : i \in Nat /\ i > 0 /\ i + 1 \in DOMAIN echoBox
                                    /\ echoBox'[i] = echoBox[i + 1]
  BY <1>1, <1>2, TailPlaces
<1> HIDE DEF h
<1>4. x.sender_id = echoBox[1].sender_id /\ x.data = echoBox[1].data
  BY <1>3 DEF LstMsg
<1> HIDE DEF x
<1>5. /\ Came(d)' = Came(d) /\ Coming(d)' = Coming(d) /\ Going(d)' = Going(d)
      /\ Queued(d)' = Queued(d)
  BY <1>1 DEF Came, Coming, Going, Queued
<1>6. \A i \in DOMAIN Waiting(d)' : i > 0 /\ i + 1 \in DOMAIN Waiting(d)
                                    /\ Waiting(d)'[i] = Waiting(d)[i + 1]
  BY <1>1, <1>3 DEF Waiting
<1>7. CASE lstBox' = lstBox
  <2>1. Replies(d)' = Replies(d)
    BY <1>1, <1>7 DEF Replies
  <2> QED
    BY <1>0, <1>1, <1>5, <1>6, <2>1, ThinLine DEF Thins
<1>8. CASE lstBox' = Append(lstBox, x)
  <2>1. /\ l \in Nat /\ lstBox'[l] = x /\ DOMAIN lstBox' = DOMAIN lstBox \cup {l}
        /\ \A i \in DOMAIN lstBox : i < l /\ lstBox'[i] = lstBox[i]
    BY <1>2, <1>8, AppendPlaces
  <2> HIDE DEF l
  <2>2. CASE x.sender_id # link[d]
    <3>1. {i \in DOMAIN lstBox' : lstBox'[i].sender_id = link[d]}
             = {i \in DOMAIN lstBox : lstBox[i].sender_id = link[d]}
      BY <2>1, <2>2
    <3>2. Replies(d)' = Replies(d)
      BY <1>1, <2>1, <3>1 DEF Replies
    <3> QED
      BY <1>0, <1>1, <1>5, <1>6, <3>2, ThinLine DEF Thins
  <2>3. CASE x.sender_id = link[d]
    <3>1. 1 \in DOMAIN Waiting(d) /\ Waiting(d)[1] = No(x.data)
      BY <1>3, <1>4, <2>3 DEF Waiting
    <3>2. \A i \in DOMAIN Replies(d)' :
             \/ i = l /\ Replies(d)'[i] = Waiting(d)[1]
             \/ i < l /\ i \in DOMAIN Replies(d) /\ Replies(d)'[i] = Replies(d)[i]
      BY <1>1, <2>1, <3>1 DEF Replies
    <3>3. Passes(Waiting(d), Waiting(d)', Replies(d), Replies(d)')
      BY <1>6, <2>1, <3>1, <3>2 DEF Passes
    <3>4. /\ Way(d)[4] = Waiting(d) /\ Way(d)'[4] = Waiting(d)' /\ Way(d)[3] = Replies(d)
          /\ Way(d)'[3] = Replies(d)'
          /\ \A j \in (1 .. 6) \ {4, 3} : Way(d)'[j] = Way(d)[j]
      <4>1. \A j \in (1 .. 6) \ {4, 3} : j = 1 \/ j = 2 \/ j = 5 \/ j = 6
        OBVIOUS
      <4> QED
        BY <1>5, <4>1 DEF Way
    <3>5. 4 \in 2 .. 6 /\ 4 - 1 = 3
      OBVIOUS
    <3> QED
      BY <1>0, <1>1, <3>3, <3>4, <3>5, MoveLine
  <2> QED
    BY <2>2, <2>3
<1> QED
  BY <1>1, <1>7, <1>8

\* network_lst_actor::action_handle takes it to the wire, of the connection it came by.
LEMMA LstSendLine ==
    ASSUME AInv, MsgOK', lstBox # <<>>, LstSend, NEW d \in Dials
    PROVE  InLine(d)'
<1> DEFINE h == Head(lstBox)
           n == [name |-> h.name, data |-> h.data]
           p == PackedMessage(n)
           l == Len(down[d]) + 1
<1>0. InLine(d) /\ MsgOK
  BY DEF AInv, TInv
<1>1. /\ lstBox # <<>> /\ lstBox' = Tail(lstBox)
      /\ down'[d] = IF link[d] = h.sender_id THEN Append(down[d], p) ELSE down[d]
      /\ ~Overruns(Capacity(h)) /\ UNCHANGED <<asked, got, conBox, up, echoBox, link>>
  BY DEF LstSend, linkVars
<1>2. lstBox \in Seq(LstMsg) /\ down[d] \in Seq(Wire)
  BY <1>0, Boxes
<1>3. /\ h = lstBox[1] /\ h \in LstMsg /\ 1 \in DOMAIN lstBox
      /\ \A i \in DOMAIN lstBox' : i \in Nat /\ i > 0 /\ i + 1 \in DOMAIN lstBox
                                   /\ lstBox'[i] = lstBox[i + 1]
  BY <1>1, <1>2, TailPlaces
<1>4. No(PackedOf(p).data) = No(lstBox[1].data)
  <2>1. n \in NetMsg /\ n.data = lstBox[1].data /\ Capacity(n) = Capacity(h)
    BY <1>3 DEF LstMsg, NetMsg, Capacity
  <2> HIDE DEF n
  <2> QED
    BY <1>1, <2>1, WireLemma
<1> HIDE DEF h, p
<1>5. /\ Came(d)' = Came(d) /\ Waiting(d)' = Waiting(d) /\ Going(d)' = Going(d)
      /\ Queued(d)' = Queued(d)
  BY <1>1 DEF Came, Waiting, Going, Queued
<1>6. \A i \in DOMAIN Replies(d)' : i > 0 /\ i + 1 \in DOMAIN Replies(d)
                                    /\ Replies(d)'[i] = Replies(d)[i + 1]
  BY <1>1, <1>3 DEF Replies
<1>7. CASE link[d] # h.sender_id
  <2>1. Coming(d)' = Coming(d)
    BY <1>1, <1>7 DEF Coming
  <2> QED
    BY <1>0, <1>1, <1>5, <1>6, <2>1, ThinLine DEF Thins
<1>8. CASE link[d] = h.sender_id
  <2>1. /\ l \in Nat /\ down'[d][l] = p /\ DOMAIN down'[d] = DOMAIN down[d] \cup {l}
        /\ \A i \in DOMAIN down[d] : i < l /\ down'[d][i] = down[d][i]
    BY <1>1, <1>2, <1>8, AppendPlaces
  <2> HIDE DEF l
  <2>2. 1 \in DOMAIN Replies(d) /\ Replies(d)[1] = No(lstBox[1].data)
    BY <1>3, <1>8 DEF Replies
  <2>3. \A i \in DOMAIN Coming(d)' :
           \/ i = l /\ Coming(d)'[i] = Replies(d)[1]
           \/ i < l /\ i \in DOMAIN Coming(d) /\ Coming(d)'[i] = Coming(d)[i]
    BY <1>4, <2>1, <2>2 DEF Coming
  <2>4. Passes(Replies(d), Replies(d)', Coming(d), Coming(d)')
    BY <1>6, <2>1, <2>2, <2>3 DEF Passes
  <2>5. /\ Way(d)[3] = Replies(d) /\ Way(d)'[3] = Replies(d)' /\ Way(d)[2] = Coming(d)
        /\ Way(d)'[2] = Coming(d)'
        /\ \A j \in (1 .. 6) \ {3, 2} : Way(d)'[j] = Way(d)[j]
    <3>1. \A j \in (1 .. 6) \ {3, 2} : j = 1 \/ j = 4 \/ j = 5 \/ j = 6
      OBVIOUS
    <3> QED
      BY <1>5, <3>1 DEF Way
  <2>6. 3 \in 2 .. 6 /\ 3 - 1 = 2
    OBVIOUS
  <2> QED
    BY <1>0, <1>1, <2>4, <2>5, <2>6, MoveLine
<1> QED
  BY <1>7, <1>8

\* network_con_actor::on_new_message takes it to the actor that asked.
LEMMA ConNewLine ==
    ASSUME AInv, MsgOK', NEW e \in Dials, ConNewMessage(e), NEW d \in Dials
    PROVE  InLine(d)'
<1> DEFINE m == PackedOf(Head(down[e]))
           x == [con |-> e, data |-> m.data]
           l == Len(got) + 1
<1>0. InLine(d) /\ MsgOK
  BY DEF AInv, TInv
<1>1. /\ down[e] # <<>> /\ down' = [down EXCEPT ![e] = Tail(@)]
      /\ got' = Append(got, x) \/ got' = got
      /\ UNCHANGED <<asked, lstBox, echoBox, conBox, up, link>>
  BY DEF ConNewMessage, linkVars
<1>2. x.con = e /\ x.data = m.data
  OBVIOUS
<1>3. DOMAIN down = Dials /\ down[e] \in Seq(Wire)
  BY <1>0, Boxes
<1>g. ASSUME got' = Append(got, x)
      PROVE  /\ l \in Nat /\ got'[l] = x /\ DOMAIN got' = DOMAIN got \cup {l}
             /\ \A i \in DOMAIN got : i < l /\ got'[i] = got[i]
  <2> DEFINE G == [con : Dials, data : Data]
  <2>1. got \in Seq(G)
    BY <1>0, Boxes
  <2> HIDE DEF G, x
  <2> QED
    BY <1>g, <2>1, AppendPlaces
<1> HIDE DEF x, l
<1>4. /\ Replies(d)' = Replies(d) /\ Waiting(d)' = Waiting(d) /\ Going(d)' = Going(d)
      /\ Queued(d)' = Queued(d)
  BY <1>1 DEF Replies, Waiting, Going, Queued
<1>5. CASE d # e
  <2>1. Coming(d)' = Coming(d)
    BY <1>1, <1>3, <1>5 DEF Coming
  <2>2. Came(d)' = Came(d)
    <3>1. CASE got' = got
      BY <3>1 DEF Came
    <3>2. CASE got' = Append(got, x)
      <4>1. {i \in DOMAIN got' : got'[i].con = d} = {i \in DOMAIN got : got[i].con = d}
        BY <1>2, <1>5, <1>g, <3>2
      <4> QED
        BY <1>g, <3>2, <4>1 DEF Came
    <3> QED
      BY <1>1, <3>1, <3>2
  <2> QED
    BY <1>0, <1>1, <1>4, <2>1, <2>2, ThinLine DEF Thins
<1>6. CASE d = e
  <2>1. down'[d] = Tail(down[d]) /\ down[d] \in Seq(Wire) /\ down[d] # <<>>
    BY <1>1, <1>3, <1>6
  <2>2. /\ Head(down[d]) = down[d][1] /\ 1 \in DOMAIN down[d]
        /\ \A i \in DOMAIN down'[d] : i \in Nat /\ i > 0 /\ i + 1 \in DOMAIN down[d]
                                      /\ down'[d][i] = down[d][i + 1]
    BY <2>1, TailPlaces
  <2>3. \A i \in DOMAIN Coming(d)' : i > 0 /\ i + 1 \in DOMAIN Coming(d)
                                     /\ Coming(d)'[i] = Coming(d)[i + 1]
    BY <2>2 DEF Coming
  <2>4. CASE got' = got
    <3>1. Came(d)' = Came(d)
      BY <2>4 DEF Came
    <3> QED
      BY <1>0, <1>1, <1>4, <2>3, <3>1, ThinLine DEF Thins
  <2>5. CASE got' = Append(got, x)
    <3>1. Coming(d)[1] = No(x.data) /\ 1 \in DOMAIN Coming(d)
      BY <1>2, <1>6, <2>2 DEF Coming
    <3> HIDE DEF m
    <3>2. \A i \in DOMAIN Came(d)' :
             \/ i = l /\ Came(d)'[i] = Coming(d)[1]
             \/ i < l /\ i \in DOMAIN Came(d) /\ Came(d)'[i] = Came(d)[i]
      BY <1>g, <2>5, <3>1 DEF Came
    <3>3. Passes(Coming(d), Coming(d)', Came(d), Came(d)')
      BY <1>g, <2>3, <2>5, <3>1, <3>2 DEF Passes
    <3>4. /\ Way(d)[2] = Coming(d) /\ Way(d)'[2] = Coming(d)' /\ Way(d)[1] = Came(d)
          /\ Way(d)'[1] = Came(d)'
          /\ \A j \in (1 .. 6) \ {2, 1} : Way(d)'[j] = Way(d)[j]
      <4>1. \A j \in (1 .. 6) \ {2, 1} : j = 3 \/ j = 4 \/ j = 5 \/ j = 6
        OBVIOUS
      <4> QED
        BY <1>4, <4>1 DEF Way
    <3>5. 2 \in 2 .. 6 /\ 2 - 1 = 1
      OBVIOUS
    <3> QED
      BY <1>0, <1>1, <3>3, <3>4, <3>5, MoveLine
  <2> QED
    BY <1>1, <2>4, <2>5
<1> QED
  BY <1>5, <1>6

\* The initiator sends a request: its number is above all that are on the way.
LEMMA AskLine ==
    ASSUME AInv, TInv', InitiatorHandle, NEW d \in Dials
    PROVE  InLine(d)'
<1>0. InLine(d) /\ MsgOK /\ MsgOK' /\ asked \in Seq(Dials) /\ Len(asked) \in Nat
  BY DEF AInv, TInv, StatOK
<1>1. UNCHANGED <<got, lstBox, echoBox, up, down, link>>
  BY DEF InitiatorHandle, linkVars
<1>2. CASE asked' = asked /\ conBox' = conBox
  BY <1>0, <1>1, <1>2, AsideLine
<1>3. ASSUME NEW e \in Dials, asked' = Append(asked, e),
             conBox' = [conBox EXCEPT ![e] =
                Append(@, [name |-> EchoName, data |-> Payload(Len(asked) + 1)])]
      PROVE  InLine(d)'
  <2> DEFINE n == Len(asked) + 1
             x == [name |-> EchoName, data |-> Payload(n)]
             l == Len(conBox[d]) + 1
  <2>1. /\ n \in Nat /\ asked'[n] = e /\ DOMAIN asked' = DOMAIN asked \cup {n}
        /\ \A i \in DOMAIN asked : i \in Nat /\ i < n /\ asked'[i] = asked[i]
    BY <1>0, <1>3, AppendPlaces
  <2>2. n \in 1 .. MaxLinks
    <3>1. asked' \in Seq(Dials) /\ links' \in 0 .. MaxLinks /\ MaxLinks \in Nat
      BY NetworkAssumption DEF TInv, StatOK, LinkOK
    <3>2. Len(asked') = n
      BY <1>0, <1>3, <3>1
    <3>3. Len(asked') <= links'
      <4>1. Counted' /\ pub' \in Seq(BOOLEAN) /\ iniBox' \in Seq(BOOLEAN)
        BY DEF TInv, StatOK
      <4>2. /\ Cardinality(Told(pub')) \in Nat /\ Cardinality(Told(iniBox')) \in Nat
            /\ Cardinality(Pending(telling')) \in Nat
        BY <4>1, ToldFinite, PendingFinite
      <4>3. Cardinality(Pending(telling')) + Cardinality(Told(pub')) + Cardinality(Told(iniBox'))
               + Len(asked') <= links'
        BY <4>1 DEF Counted, Told, Pending
      <4> HIDE DEF n
      <4> QED
        BY <2>1, <3>1, <3>2, <4>2, <4>3
    <3> HIDE DEF n
    <3>4. n >= 1
      BY <1>0 DEF n
    <3> QED
      BY <2>1, <3>1, <3>2, <3>3, <3>4
  <2>3. x.data = Payload(n) /\ No(Payload(n)) = n
    BY <2>2, DataLemma
  <2> HIDE DEF n, x
  <2>4. /\ Came(d)' = Came(d) /\ Coming(d)' = Coming(d) /\ Replies(d)' = Replies(d)
        /\ Waiting(d)' = Waiting(d) /\ Going(d)' = Going(d)
    BY <1>1 DEF Came, Coming, Replies, Waiting, Going
  <2>5. CASE d # e
    <3>1. Queued(d)' = Queued(d)
      BY <1>0, <1>3, <2>5, Boxes DEF Queued
    <3> QED
      BY <1>0, <2>1, <2>4, <3>1, ThinLine DEF Thins
  <2>6. CASE d = e
    <3>1. conBox'[d] = Append(conBox[d], x) /\ conBox[d] \in Seq(NetMsg)
      BY <1>0, <1>3, <2>6, Boxes DEF n, x
    <3>2. /\ l \in Nat /\ conBox'[d][l] = x /\ DOMAIN conBox'[d] = DOMAIN conBox[d] \cup {l}
          /\ \A i \in DOMAIN conBox[d] : i < l /\ conBox'[d][i] = conBox[d][i]
      BY <3>1, AppendPlaces
    <3> HIDE DEF l
    <3>3. /\ DOMAIN Queued(d)' = DOMAIN Queued(d) \cup {l} /\ Queued(d)'[l] = n
          /\ \A i \in DOMAIN Queued(d) : i < l /\ Queued(d)'[i] = Queued(d)[i]
      BY <2>3, <3>2 DEF Queued
    <3>4. /\ Way(d)[6] = Queued(d) /\ Way(d)'[6] = Queued(d)'
          /\ \A j \in 1 .. 6 : j # 6 => Way(d)'[j] = Way(d)[j]
      <4>1. \A j \in 1 .. 6 : j # 6 => j = 1 \/ j = 2 \/ j = 3 \/ j = 4 \/ j = 5
        OBVIOUS
      <4> QED
        BY <2>4, <4>1 DEF Way
    <3>5. ASSUME NEW k \in 1 .. 6, NEW i \in DOMAIN Way(d)'[k]
          PROVE  \/ i \in DOMAIN Way(d)[k] /\ Way(d)'[k][i] = Way(d)[k][i]
                 \/ k = 6 /\ i = l /\ Way(d)'[k][i] = n
      BY <3>3, <3>4
    <3>6. \A k \in 1 .. 6 : \A i \in DOMAIN Way(d)[k] :
             Way(d)[k][i] \in DOMAIN asked /\ asked[Way(d)[k][i]] = d
      BY <1>0 DEF InLine
    <3>7. \A k \in 1 .. 6 : \A i \in DOMAIN Way(d)[k] : Way(d)[k][i] < n
      BY <2>1, <3>6
    <3>8. \A k \in 1 .. 6 : \A i \in DOMAIN Way(d)'[k] :
             Way(d)'[k][i] \in DOMAIN asked' /\ asked'[Way(d)'[k][i]] = d
      BY <2>1, <2>6, <3>5, <3>6
    <3>9. Rising(Way(d)')
      <4> SUFFICES ASSUME NEW k \in 1 .. 6, NEW m \in 1 .. 6, NEW i \in DOMAIN Way(d)'[k],
                          NEW j \in DOMAIN Way(d)'[m], k < m \/ (k = m /\ i < j)
                   PROVE  Way(d)'[k][i] < Way(d)'[m][j]
        BY DEF Rising
      <4>1. CASE i \in DOMAIN Way(d)[k] /\ Way(d)'[k][i] = Way(d)[k][i]
        <5>1. CASE j \in DOMAIN Way(d)[m] /\ Way(d)'[m][j] = Way(d)[m][j]
          BY <1>0, <4>1, <5>1 DEF InLine, Rising
        <5>2. CASE Way(d)'[m][j] = n
          BY <3>7, <4>1, <5>2
        <5> QED
          BY <3>5, <5>1, <5>2
      <4>2. CASE ~(i \in DOMAIN Way(d)[k] /\ Way(d)'[k][i] = Way(d)[k][i])
        <5>1. k = 6 /\ i = l
          BY <3>5, <4>2
        <5>2. m = 6 /\ l < j
          BY <5>1
        <5>3. j \in DOMAIN Queued(d) \/ j = l
          BY <3>3, <3>4, <5>2
        <5>4. j \in Nat /\ (j < l \/ j = l)
          <6>1. j \in Nat
            BY <1>0, StagesAfter
          <6> QED
            BY <3>3, <5>3, <6>1
        <5> QED
          BY <3>2, <5>2, <5>4
      <4> QED
        BY <4>1, <4>2
    <3>10. Rising(Way(d))'
      BY <3>9 DEF Rising
    <3> QED
      BY <3>8, <3>10 DEF InLine
  <2> QED
    BY <2>5, <2>6
<1>4. \/ asked' = asked /\ conBox' = conBox
      \/ \E e \in Dials :
            /\ asked' = Append(asked, e)
            /\ conBox' = [conBox EXCEPT ![e] =
                  Append(@, [name |-> EchoName, data |-> Payload(Len(asked) + 1)])]
  <2>1. GetAddress("con") \in Dials \cup {None}
    BY Constants DEF AInv, TInv, GetAddress, ReqOK, IInv, Shape, Reqs, Side, Sides
  <2> QED
    BY <2>1 DEF InitiatorHandle
<1> QED
  BY <1>2, <1>3, <1>4

\* Stops, connections made and connections lost: nothing is put on any way.
LEMMA LossLine ==
    ASSUME AInv, MsgOK', NEW d \in Dials,
           \/ \E r \in Reqs : StopActor(r) \/ Close(r)
           \/ \E e \in Dials : Connect(e) \/ Break(e) \/ LossNoticed(e)
    PROVE  InLine(d)'
<1>0. InLine(d) /\ MsgOK /\ LinkOK /\ link \in [Dials -> Nat] /\ links \in Nat
  BY NetworkAssumption DEF AInv, TInv, LinkOK, IInv, Shape
<1>1. /\ \A i \in DOMAIN lstBox : lstBox[i].sender_id \in 1 .. links
      /\ \A i \in DOMAIN echoBox : echoBox[i].sender_id \in 1 .. links
  <2>1. lstBox \in Seq(LstMsg) /\ echoBox \in Seq(LstMsg)
    BY <1>0 DEF MsgOK
  <2>2. \A m \in LstMsg : m.sender_id \in Nat /\ m.sender_id >= 1
    BY DEF LstMsg
  <2>3. /\ \A i \in DOMAIN lstBox : lstBox[i] \in LstMsg
        /\ \A i \in DOMAIN echoBox : echoBox[i] \in LstMsg
    BY <2>1
  <2> QED
    BY <1>0, <2>2, <2>3 DEF MsgOK
<1>2. ASSUME link'[d] = 0 \/ link'[d] = links + 1
      PROVE  /\ \A i \in DOMAIN lstBox : lstBox[i].sender_id # link'[d]
             /\ \A i \in DOMAIN echoBox : echoBox[i].sender_id # link'[d]
  BY <1>0, <1>1, <1>2
<1>3. ASSUME NEW r \in Reqs, StopActor(r) PROVE InLine(d)'
  <2>1. /\ lstBox' = lstBox \/ lstBox' = <<>>
        /\ UNCHANGED <<asked, got, echoBox, up, down, link>>
    BY <1>3 DEF StopActor
  <2>2. conBox'[d] = conBox[d] \/ conBox'[d] = <<>>
    BY <1>0, <1>3, Boxes DEF StopActor
  <2> QED
    BY <1>0, <2>1, <2>2, AsideLine
<1>7. ASSUME NEW r \in Reqs, Close(r) PROVE InLine(d)'
  <2>1. UNCHANGED <<asked, got, echoBox, lstBox, conBox, up, down>> /\ link' = Unlinked(r)
    BY <1>7 DEF Close, msgVars
  <2>2. link'[d] = link[d] \/ link'[d] = 0
    BY <2>1 DEF Unlinked
  <2> QED
    BY <1>0, <1>2, <2>1, <2>2, AsideLine
<1>4. ASSUME NEW e \in Dials, Connect(e) PROVE InLine(d)'
  <2>1. /\ UNCHANGED <<asked, got, echoBox, lstBox, conBox, up, down>>
        /\ link' = [link EXCEPT ![e] = links + 1]
    BY <1>4 DEF Connect, msgVars
  <2>2. link'[d] = link[d] \/ link'[d] = links + 1
    BY <1>0, <2>1
  <2> QED
    BY <1>0, <1>2, <2>1, <2>2, AsideLine
<1>5. ASSUME NEW e \in Dials, Break(e) PROVE InLine(d)'
  <2>1. /\ UNCHANGED <<asked, got, echoBox, lstBox, conBox, up, down>>
        /\ link' = [link EXCEPT ![e] = 0]
    BY <1>5 DEF Break, msgVars
  <2>2. link'[d] = link[d] \/ link'[d] = 0
    BY <1>0, <2>1
  <2> QED
    BY <1>0, <1>2, <2>1, <2>2, AsideLine
<1>6. ASSUME NEW e \in Dials, LossNoticed(e) PROVE InLine(d)'
  <2>1. /\ up' = [up EXCEPT ![e] = <<>>] /\ down' = [down EXCEPT ![e] = <<>>]
        /\ UNCHANGED <<asked, got, echoBox, lstBox, conBox, link>>
    BY <1>6 DEF LossNoticed
  <2>2. /\ up'[d] = up[d] \/ up'[d] = <<>>
        /\ down'[d] = down[d] \/ down'[d] = <<>>
    BY <1>0, <2>1, Boxes
  <2> QED
    BY <1>0, <2>1, <2>2, AsideLine
<1> QED
  BY <1>3, <1>4, <1>5, <1>6, <1>7

\* Every step keeps every way in order.
LEMMA NextInLine ==
    ASSUME AInv, [Next]_vars, NEW d \in Dials
    PROVE  InLine(d)'
<1>0. TInv' /\ MsgOK' /\ InLine(d)
  BY NextTInv DEF AInv, TInv
<1>1. ASSUME UNCHANGED <<asked, got, echoBox, lstBox, conBox, up, down, link>>
      PROVE  InLine(d)'
  BY <1>0, <1>1, AsideLine
<1>2. CASE InitiatorHandle
  BY <1>0, <1>2, AskLine
<1>3. CASE EchoHandle
  BY <1>0, <1>3, EchoLine
<1>4. CASE lstBox # <<>> /\ LstSend
  BY <1>0, <1>4, LstSendLine
<1>5. ASSUME NEW e \in Dials, conBox[e] # <<>>, ConSend(e) PROVE InLine(d)'
  BY <1>0, <1>5, ConSendLine
<1>6. ASSUME NEW e \in Dials, LstNewMessage(e) PROVE InLine(d)'
  BY <1>0, <1>6, LstNewLine
<1>7. ASSUME NEW e \in Dials, ConNewMessage(e) PROVE InLine(d)'
  BY <1>0, <1>7, ConNewLine
<1>8. ASSUME NEW r \in Reqs, StopActor(r) \/ Close(r) PROVE InLine(d)'
  BY <1>0, <1>8, LossLine
<1>9. ASSUME NEW e \in Dials, Connect(e) \/ Break(e) \/ LossNoticed(e) PROVE InLine(d)'
  BY <1>0, <1>9, LossLine
<1>10. ASSUME NEW e \in Dials, AddConnectionTo(e) \/ ConnectFails(e) \/ SendStatus(e)
       PROVE  InLine(d)'
  BY <1>1, <1>10 DEF AddConnectionTo, ConnectFails, SendStatus, linkVars, msgVars
<1>11. ASSUME NEW r \in Reqs, Supervise(r) \/ AddListenerOn PROVE InLine(d)'
  BY <1>1, <1>11 DEF Supervise, StartSocket, Record, AddListenerOn, linkVars, msgVars
<1>12. CASE Subscribe \/ HandOn \/ (\E u \in UserActors : MakeUser(u)) \/ \E m : PackOverruns(m)
  BY <1>1, <1>12 DEF Subscribe, HandOn, MakeUser, PackOverruns, linkVars, msgVars
<1>13. CASE UNCHANGED vars
  BY <1>1, <1>13 DEF vars, linkVars, msgVars
<1>14. Lst \in Reqs
  BY Constants
<1> QED
  BY <1>2, <1>3, <1>4, <1>5, <1>6, <1>7, <1>8, <1>9, <1>10, <1>11, <1>12, <1>13, <1>14
     DEF Next, Asking, CallBack, Handle, ConHandle, LstHandle

\* Every answer that comes is that of a request sent to the connection it comes by, with
\* all its data, and the answers of a connection come in the order of the requests, each
\* once, for any number of connections to a host that are lost, made again or stopped at
\* any time (context_network.cpp:18-26, 39-57, 82-105; helpers.h:33-47, 58-74;
\* queries.h:107-126). Messages too long for their buffer end a behaviour.
THEOREM AnswersTheorem == Spec => []Answers
<1>1. Init => AInv
  <2> SUFFICES ASSUME Init PROVE AInv
    OBVIOUS
  <2>1. TInv
    BY InitTInv
  <2>2. ASSUME NEW d \in Dials PROVE InLine(d)
    <3>1. /\ DOMAIN Came(d) = {} /\ DOMAIN Coming(d) = {} /\ DOMAIN Replies(d) = {}
          /\ DOMAIN Waiting(d) = {} /\ DOMAIN Going(d) = {} /\ DOMAIN Queued(d) = {}
      BY DEF Init, Came, Coming, Replies, Waiting, Going, Queued
    <3>2. \A k \in 1 .. 6 : DOMAIN Way(d)[k] = {}
      <4>1. \A k \in 1 .. 6 : k = 1 \/ k = 2 \/ k = 3 \/ k = 4 \/ k = 5 \/ k = 6
        OBVIOUS
      <4> QED
        BY <3>1, <4>1 DEF Way
    <3> QED
      BY <3>2 DEF InLine, Rising
  <2> QED
    BY <2>1, <2>2 DEF AInv
<1>2. AInv /\ [Next]_vars => AInv'
  <2> SUFFICES ASSUME AInv, [Next]_vars PROVE AInv'
    OBVIOUS
  <2>1. TInv'
    BY NextTInv DEF AInv
  <2> QED
    BY <2>1, NextInLine DEF AInv
<1>3. AInv => Answers
  <2> SUFFICES ASSUME AInv PROVE Answers
    OBVIOUS
  <2> DEFINE n == [i \in DOMAIN got |-> No(got[i].data)]
  <2>1. ASSUME NEW i \in DOMAIN got
        PROVE  /\ got[i].con \in Dials /\ got[i].data \in Data /\ i \in Nat
    <3> DEFINE G == [con : Dials, data : Data]
    <3>1. got \in Seq(G)
      BY DEF AInv, TInv, MsgOK
    <3>2. \A g \in G : g.con \in Dials /\ g.data \in Data
      OBVIOUS
    <3> HIDE DEF G
    <3>3. got[i] \in G /\ i \in Nat
      BY <3>1
    <3> QED
      BY <3>2, <3>3
  <2>2. ASSUME NEW i \in DOMAIN got
        PROVE  /\ n[i] \in DOMAIN asked /\ got[i].con = asked[n[i]]
               /\ got[i].data = Payload(n[i])
    <3>1. PICK d \in Dials : d = got[i].con
      BY <2>1
    <3>2. i \in DOMAIN Came(d) /\ Came(d)[i] = n[i] /\ Way(d)[1] = Came(d)
      BY <3>1 DEF Came, Way
    <3>3. n[i] \in DOMAIN asked /\ asked[n[i]] = d
      <4>1. InLine(d) /\ 1 \in 1 .. 6
        BY DEF AInv
      <4> QED
        BY <3>2, <4>1 DEF InLine
    <3>4. Payload(n[i]) = got[i].data
      BY <2>1, DataLemma
    <3> QED
      BY <3>1, <3>3, <3>4
  <2>3. ASSUME NEW i \in DOMAIN got, NEW j \in 1 .. i - 1, got[j].con = got[i].con
        PROVE  n[j] < n[i]
    <3>1. PICK d \in Dials : d = got[i].con
      BY <2>1
    <3>2. j \in DOMAIN got /\ j < i
      <4>1. DOMAIN got = 1 .. Len(got) /\ Len(got) \in Nat
        BY DEF AInv, TInv, MsgOK
      <4> QED
        BY <4>1
    <3>3. /\ i \in DOMAIN Came(d) /\ Came(d)[i] = n[i] /\ Way(d)[1] = Came(d)
          /\ j \in DOMAIN Came(d) /\ Came(d)[j] = n[j]
      BY <2>3, <3>1, <3>2 DEF Came, Way
    <3>4. Rising(Way(d)) /\ 1 \in 1 .. 6
      BY DEF AInv, InLine
    <3> QED
      BY <3>2, <3>3, <3>4 DEF Rising
  <2>4. n \in [DOMAIN got -> DOMAIN asked]
    BY <2>2
  <2> HIDE DEF n
  <2> QED
    BY <2>2, <2>3, <2>4 DEF Answers
<1> QED
  BY <1>1, <1>2, <1>3, PTL DEF Spec
=============================================================================
