------------------------------ MODULE Network ------------------------------
(***************************************************************************)
(* The network side of two contexts that talk to each other                *)
(* (context_network.cpp): one listens on a port, the other dials it. The   *)
(* supervisor actors of both create the actors network_lst_actor and       *)
(* network_con_actor, which stand for a socket each: what is sent to the   *)
(* actor goes out, what comes in is sent to the actor a message names.     *)
(* The user actors around them are those of unittests/network_test.cpp and *)
(* examples/network_example.cpp: an initiator that sends a request         *)
(* whenever it is told of a connection, an actor that answers it and one   *)
(* that gets the answer.                                                   *)
(*                                                                         *)
(* The library dialler (sockets, accepting, reconnecting) is external: it  *)
(* is modelled from how the code and the test use it. Its calls back come  *)
(* from the network threads and name their actor by a raw pointer. No lock *)
(* is held over a call back, so its actor may be stopped and freed while   *)
(* it is under way. One that brings a message uses its actor only to ask   *)
(* for the context, at its beginning, and is one step; one that reports a  *)
(* status is two, since it uses the actor until it publishes.              *)
(*                                                                         *)
(* disconnect() and stop() only begin to close a socket: whoever needs the *)
(* end of it calls wait_stoping(), as context::stop does and on_stop does  *)
(* not. Until then what comes in on a connection is still called back.     *)
(*                                                                         *)
(* All connections go to the one host and port, so their actors share one  *)
(* name and one key of _network_connections. A listener is asked for only  *)
(* once, a connection MaxDials times; dials are numbered as they are made. *)
(***************************************************************************)
EXTENDS Serialization, FiniteSets

CONSTANTS
    Lst,        \* the request for a listener, and the listener and actor made for it
    MaxDials,   \* bound: how many connections are asked for
    EchoName,   \* the name of the actor that answers
    ClientName, \* the name of the actor that gets the answers
    Late,       \* which of the two is made while the network is running, not before
    None,       \* nothing
    Overrun,    \* a message has been written past the end of its buffer
    MaxLinks,   \* bound: how often a connection comes about
    MaxStops,   \* bound: how many of the network actors are stopped
    MaxFails    \* bound: how many attempts fail or connections break

\* The requests for a connection, and what is made for each.
Dials      == 1 .. MaxDials
Reqs       == Dials \cup {Lst}
Sides      == {"lst", "con"}
Side(r)    == IF r = Lst THEN "lst" ELSE "con"
UserActors == {EchoName, ClientName}

\* What the n-th request carries: no two are alike.
Payload(n) == [i \in 1 .. n |-> n]

ASSUME NetworkAssumption ==
    /\ Lst \notin Dials /\ None \notin Reqs /\ Overrun \notin Reqs \cup {None}
    /\ EchoName # ClientName /\ UserActors \subseteq Strings
    /\ Late \subseteq UserActors
    /\ MaxDials \in Nat /\ MaxLinks \in Nat /\ MaxStops \in Nat /\ MaxFails \in Nat
    /\ \A n \in 1 .. MaxLinks : Payload(n) \in Strings

VARIABLES
    step,       \* step[r]: how far the supervisor's handler is with request r
    live,       \* the requests whose actor is in _actors
    named,      \* named[side]: _id_by_name of the name the side's actors share
    table,      \* table[side]: the socket in _network_listeners, _network_connections
    sock,       \* sock[r]: the state of the listener or dial
    link,       \* link[d]: the listener's id of the connection of d; 0: it has none
    links,      \* how many connections there were
    closing,    \* the sockets that were told to stop or disconnect
    telling,    \* telling[d]: what a network thread inside send_status of d is to publish
    fails,      \* how many attempts have failed and connections broken
    users,      \* the names of the user actors made so far
    exchange,   \* "/root/net/<host:port>" exists in _exchanges
    subscribed, \* the initiator has subscribed to it
    pub,        \* exchange_t::pub: the statuses published
    iniBox,     \* the initiator's mailbox
    connected,  \* the initiator's field of that name
    asked,      \* asked[n]: the connection whose actor the n-th request was sent to
    conBox,     \* conBox[d]: the mailbox of the actor of d
    lstBox,     \* the mailbox of the listener's actor
    echoBox,    \* the mailbox of the actor that answers
    up, down,   \* up[d], down[d]: the messages on their way on the connection of d
    got,        \* the answers that have come, and on which connection
    owned,      \* history: the sockets recorded in the table while their actor ran
    crashed     \* the request whose actor was used after it was freed, Overrun, or None

reqVars  == <<step, live, named, table, owned>>
linkVars == <<sock, link, links, fails, closing, telling>>
statVars == <<exchange, subscribed, pub, iniBox, connected>>
msgVars  == <<asked, conBox, lstBox, echoBox, up, down, got>>
vars == <<reqVars, linkVars, statVars, msgVars, users, crashed>>

Data   == {Payload(n) : n \in 1 .. MaxLinks}
NetMsg == [name : UserActors, data : Data]
LstMsg == [sender_id : 1 .. MaxLinks, name : UserActors, data : Data]
Wire   == {PackedMessage(m) : m \in {n \in NetMsg : ~Overruns(Capacity(n))}}

TypeOK ==
    /\ step \in [Reqs -> {"new", "added", "started", "handled"}]
    /\ live \subseteq Reqs /\ owned \subseteq Reqs
    /\ named \in [Sides -> Reqs \cup {None}] /\ table \in [Sides -> Reqs \cup {None}]
    /\ \A s \in Sides : named[s] # None => Side(named[s]) = s
    /\ \A s \in Sides : table[s] # None => Side(table[s]) = s
    /\ sock \in [Reqs -> {"none", "open", "connected", "closed"}] /\ sock[Lst] # "connected"
    /\ link \in [Dials -> 0 .. MaxLinks] /\ links \in 0 .. MaxLinks /\ fails \in 0 .. MaxFails
    \* A connection known to the listener has an id of its own.
    /\ \A d, c \in Dials : link[d] # 0 => sock[d] = "connected" /\ (link[d] = link[c] => d = c)
    /\ closing \subseteq Reqs /\ telling \in [Dials -> {"nothing", "success", "error"}]
    /\ users \subseteq UserActors
    /\ exchange \in BOOLEAN /\ subscribed \in BOOLEAN /\ connected \in BOOLEAN
    /\ pub \in Seq(BOOLEAN) /\ iniBox \in Seq(BOOLEAN)
    /\ asked \in Seq(Dials) /\ Len(asked) <= links
    /\ conBox \in [Dials -> Seq(NetMsg)]
    /\ lstBox \in Seq(LstMsg) /\ echoBox \in Seq(LstMsg)
    /\ up \in [Dials -> Seq(Wire)] /\ down \in [Dials -> Seq(Wire)]
    /\ got \in Seq([con : Dials, data : Data])
    /\ crashed \in Reqs \cup {None, Overrun}

Init ==
    /\ step = [r \in Reqs |-> "new"]
    /\ live = {} /\ owned = {}
    /\ named = [s \in Sides |-> None] /\ table = [s \in Sides |-> None]
    /\ sock = [r \in Reqs |-> "none"]
    /\ link = [d \in Dials |-> 0] /\ links = 0 /\ fails = 0
    /\ closing = {} /\ telling = [d \in Dials |-> "nothing"]
    /\ users = UserActors \ Late
    /\ exchange = FALSE /\ subscribed = FALSE /\ connected = FALSE
    /\ pub = <<>> /\ iniBox = <<>>
    /\ asked = <<>> /\ got = <<>>
    /\ conBox = [d \in Dials |-> <<>>] /\ lstBox = <<>> /\ echoBox = <<>>
    /\ up = [d \in Dials |-> <<>>] /\ down = [d \in Dials |-> <<>>]
    /\ crashed = None

-----------------------------------------------------------------------------
(* The supervisor: add_listener_on and add_connection_to                   *)

\* One message at a time: nothing else of this side is half way.
Free(side) == \A r \in Reqs : Side(r) = side => step[r] \in {"new", "handled"}

AddListenerOn ==
    /\ step[Lst] = "new" /\ Free("lst")
    /\ step' = [step EXCEPT ![Lst] = "added"]
    /\ live' = live \cup {Lst}
    /\ named' = [named EXCEPT !["lst"] = Lst]
    /\ UNCHANGED <<table, owned, linkVars, statVars, msgVars, users, crashed>>

\* The exchange comes first; the actor takes over the name of an earlier one.
AddConnectionTo(d) ==
    /\ step[d] = "new" /\ Free("con") /\ \A c \in 1 .. d - 1 : step[c] # "new"
    /\ exchange' = TRUE
    /\ step' = [step EXCEPT ![d] = "added"]
    /\ live' = live \cup {d}
    /\ named' = [named EXCEPT !["con"] = d]
    /\ UNCHANGED <<table, owned, linkVars, subscribed, pub, iniBox, connected, msgVars, users,
                   crashed>>

\* add_consumer, and start and wait_starting or start_async_connection. The actor
\* may have been stopped already.
StartSocket(r) ==
    /\ step[r] = "added"
    /\ step' = [step EXCEPT ![r] = "started"]
    /\ sock' = [sock EXCEPT ![r] = "open"]
    /\ UNCHANGED <<live, named, table, owned, link, links, fails, closing, telling, statVars, msgVars,
                   users, crashed>>

\* M_RecordOver: the new socket takes the place of the one recorded.
M_RecordOver(r) ==
    /\ step[r] = "started"
    /\ step' = [step EXCEPT ![r] = "handled"]
    /\ table' = [table EXCEPT ![Side(r)] = r]
    /\ owned' = IF r \in live THEN owned \cup {r} ELSE owned
    /\ UNCHANGED <<live, named, linkVars, statVars, msgVars, users, crashed>>

\* insert() into the map, which leaves an entry there is as it is. No lock is held.
Record(r) ==
    /\ step[r] = "started"
    /\ step' = [step EXCEPT ![r] = "handled"]
    /\ table' = [table EXCEPT ![Side(r)] = IF @ = None THEN r ELSE @]
    /\ owned' = IF r \in live /\ table[Side(r)] = None THEN owned \cup {r} ELSE owned
    /\ UNCHANGED <<live, named, linkVars, statVars, msgVars, users, crashed>>

-----------------------------------------------------------------------------
(* Stopping a network actor                                                *)

\* The network actors that were there and have been stopped.
Stopped == {r \in Reqs : step[r] # "new" /\ r \notin live}

\* stop_actor with an address looked up at any time before, so of any actor that
\* runs; its on_stop is erase_listener_on or erase_connections: whatever the table
\* holds under the port or host is told to close and forgotten.
StopActor(r) ==
    /\ r \in live /\ Cardinality(Stopped) < MaxStops
    /\ live' = live \ {r}
    /\ closing' = closing \cup ({table[Side(r)]} \ {None})
    /\ table' = [table EXCEPT ![Side(r)] = None]
    /\ conBox' = IF r \in Dials THEN [conBox EXCEPT ![r] = <<>>] ELSE conBox
    /\ lstBox' = IF r = Lst THEN <<>> ELSE lstBox
    /\ UNCHANGED <<step, named, owned, sock, link, links, fails, telling, statVars, asked, echoBox, up,
                   down, got, users, crashed>>

-----------------------------------------------------------------------------
(* The sockets and their calls back                                        *)

\* The consumer a socket calls back is gone from memory when its actor has been
\* stopped and the supervisor, which holds a pointer as well, is through with it.
Freed(r) == step[r] = "handled" /\ r \notin live

\* The first of the actors used that is not there any more.
Touch(R) == crashed' = IF \E r \in R : Freed(r) THEN CHOOSE r \in R : Freed(r) ELSE None

\* A socket that is to close accepts and dials no more.
Ready(r) == sock[r] = "open" /\ r \notin closing

\* M_ConnectSilently: on_connect tells nobody.
M_ConnectSilently(d) ==
    /\ Ready(d) /\ Ready(Lst) /\ telling[d] = "nothing" /\ links < MaxLinks
    /\ sock' = [sock EXCEPT ![d] = "connected"]
    /\ links' = links + 1
    /\ link' = [link EXCEPT ![d] = links + 1]
    /\ Touch({d, Lst})
    /\ UNCHANGED <<reqVars, fails, closing, telling, statVars, msgVars, users>>

\* The dial gets through: on_new_connection, which accepts, and on_connect, as far as
\* its first look at target_host. A dial makes such calls one at a time.
Connect(d) ==
    /\ Ready(d) /\ Ready(Lst) /\ telling[d] = "nothing" /\ links < MaxLinks
    /\ sock' = [sock EXCEPT ![d] = "connected"]
    /\ links' = links + 1
    /\ link' = [link EXCEPT ![d] = links + 1]
    /\ telling' = [telling EXCEPT ![d] = "success"]
    /\ Touch({d, Lst})
    /\ UNCHANGED <<reqVars, fails, closing, statVars, msgVars, users>>

\* An attempt fails: on_network_error. The dial goes on trying.
ConnectFails(d) ==
    /\ Ready(d) /\ ~Ready(Lst) /\ telling[d] = "nothing" /\ fails < MaxFails
    /\ fails' = fails + 1
    /\ telling' = [telling EXCEPT ![d] = "error"]
    /\ Touch({d})
    /\ UNCHANGED <<reqVars, sock, link, links, closing, statVars, msgVars, users>>

\* A connection breaks; on_disconnect of the listener's actor does nothing.
Break(d) ==
    /\ link[d] # 0 /\ fails < MaxFails
    /\ fails' = fails + 1
    /\ link' = [link EXCEPT ![d] = 0]
    /\ Touch({Lst})
    /\ UNCHANGED <<reqVars, sock, links, closing, telling, statVars, msgVars, users>>

\* M_LossSilently: on_network_error tells nobody.
M_LossSilently(d) ==
    /\ sock[d] = "connected" /\ link[d] = 0 /\ telling[d] = "nothing"
    /\ sock' = [sock EXCEPT ![d] = "open"]
    /\ up' = [up EXCEPT ![d] = <<>>] /\ down' = [down EXCEPT ![d] = <<>>]
    /\ Touch({d})
    /\ UNCHANGED <<reqVars, link, links, fails, closing, telling, statVars, asked, conBox, lstBox,
                   echoBox, got, users>>

\* The dial finds that the other end is gone: on_network_error, and it dials again.
\* What was on its way is lost.
LossNoticed(d) ==
    /\ sock[d] = "connected" /\ link[d] = 0 /\ telling[d] = "nothing"
    /\ sock' = [sock EXCEPT ![d] = "open"]
    /\ up' = [up EXCEPT ![d] = <<>>] /\ down' = [down EXCEPT ![d] = <<>>]
    /\ telling' = [telling EXCEPT ![d] = "error"]
    /\ Touch({d})
    /\ UNCHANGED <<reqVars, link, links, fails, closing, statVars, asked, conBox, lstBox, echoBox, got,
                   users>>

\* send_status: nothing if the actor is stopped, get_context() is empty then.
SendStatus(d) ==
    /\ telling[d] # "nothing"
    /\ telling' = [telling EXCEPT ![d] = "nothing"]
    /\ Touch({d})
    /\ pub' = IF exchange /\ d \in live THEN Append(pub, telling[d] = "success") ELSE pub
    /\ UNCHANGED <<reqVars, sock, link, links, fails, closing, exchange, subscribed, iniBox, connected,
                   msgVars, users>>

\* What is left of the connections when socket r is closed: a listener hangs up
\* on everybody, a dial is gone on both sides.
Unlinked(r) == [d \in Dials |-> IF r \in {Lst, d} THEN 0 ELSE link[d]]

\* The end of closing, which on_stop has not waited for: no call back begins any more.
Close(r) ==
    /\ r \in closing /\ sock[r] # "closed"
    /\ sock' = [sock EXCEPT ![r] = "closed"]
    /\ link' = Unlinked(r)
    /\ UNCHANGED <<reqVars, links, fails, closing, telling, statVars, msgVars, users, crashed>>

-----------------------------------------------------------------------------
(* The initiator                                                           *)

Subscribe ==
    /\ ~subscribed
    /\ subscribed' = TRUE /\ exchange' = TRUE
    /\ UNCHANGED <<pub, iniBox, connected, reqVars, linkVars, msgVars, users, crashed>>

\* mailbox_worker hands on all that is published, to nobody if nobody has subscribed.
HandOn ==
    /\ pub # <<>>
    /\ pub' = <<>>
    /\ iniBox' = IF subscribed THEN iniBox \o pub ELSE iniBox
    /\ UNCHANGED <<exchange, subscribed, connected, reqVars, linkVars, msgVars, users, crashed>>

\* get_address: the latest actor of the name, unless it has been stopped.
GetAddress(side) == IF named[side] \in live THEN named[side] ELSE None

\* action_handle of the initiator: a connection is answered with a request, sent to
\* the actor that has the connection's name.
InitiatorHandle ==
    /\ iniBox # <<>>
    /\ iniBox' = Tail(iniBox)
    /\ connected' = Head(iniBox)
    /\ LET d == GetAddress("con")
       IN  IF Head(iniBox) /\ d # None
           THEN /\ asked' = Append(asked, d)
                /\ conBox' = [conBox EXCEPT ![d] =
                      Append(@, [name |-> EchoName, data |-> Payload(Len(asked) + 1)])]
           ELSE UNCHANGED <<asked, conBox>>
    /\ UNCHANGED <<exchange, subscribed, pub, reqVars, linkVars, lstBox, echoBox, up, down, got,
                   users, crashed>>

-----------------------------------------------------------------------------
(* A request and its answer on their way                                   *)

MakeUser(u) ==
    /\ u \notin users
    /\ users' = users \cup {u}
    /\ UNCHANGED <<reqVars, linkVars, statVars, msgVars, crashed>>

\* get_message of a message that is too long.
PackOverruns(m) ==
    /\ Overruns(Capacity(m))
    /\ crashed' = Overrun
    /\ UNCHANGED <<reqVars, linkVars, statVars, msgVars, users>>

\* network_con_actor::action_handle: send_async; there must be a connection.
ConSend(d) ==
    /\ ~Overruns(Capacity(Head(conBox[d])))
    /\ conBox' = [conBox EXCEPT ![d] = Tail(@)]
    /\ up' = IF sock[d] = "connected"
             THEN [up EXCEPT ![d] = Append(@, PackedMessage(Head(conBox[d])))] ELSE up
    /\ UNCHANGED <<reqVars, linkVars, statVars, asked, lstBox, echoBox, down, got, users, crashed>>

ConHandle(d) ==
    /\ d \in live /\ conBox[d] # <<>>
    /\ PackOverruns(Head(conBox[d])) \/ ConSend(d)

\* M_NoSender: the id of the connection is not filled in.
M_NoSender(d) ==
    /\ link[d] # 0 /\ up[d] # <<>>
    /\ Touch({Lst})
    /\ up' = [up EXCEPT ![d] = Tail(@)]
    /\ LET m == PackedOf(Head(up[d]))
       IN  echoBox' = IF Head(up[d]).kind = "MSG" /\ Lst \in live /\ m.name \in users
                      THEN Append(echoBox, [sender_id |-> 0, name |-> m.name, data |-> m.data])
                      ELSE echoBox
    /\ UNCHANGED <<reqVars, linkVars, statVars, asked, conBox, lstBox, down, got, users>>

\* network_lst_actor::on_new_message: the actor named in the message gets it, if
\* there is one, with the id of the connection it came by.
LstNewMessage(d) ==
    /\ link[d] # 0 /\ up[d] # <<>>
    /\ Touch({Lst})
    /\ up' = [up EXCEPT ![d] = Tail(@)]
    /\ LET m == PackedOf(Head(up[d]))
       IN  echoBox' = IF Head(up[d]).kind = "MSG" /\ Lst \in live /\ m.name \in users
                      THEN Append(echoBox, [sender_id |-> link[d], name |-> m.name,
                                            data |-> m.data])
                      ELSE echoBox
    /\ UNCHANGED <<reqVars, linkVars, statVars, asked, conBox, lstBox, down, got, users>>

\* The user actor answers to the sender, which is the listener's actor.
EchoHandle ==
    /\ echoBox # <<>>
    /\ echoBox' = Tail(echoBox)
    /\ lstBox' = IF Lst \in live
                 THEN Append(lstBox, [Head(echoBox) EXCEPT !.name = ClientName]) ELSE lstBox
    /\ UNCHANGED <<reqVars, linkVars, statVars, asked, conBox, up, down, got, users, crashed>>

\* M_AnswerLatest: the answer goes to the connection made last.
M_AnswerLatest ==
    /\ ~Overruns(Capacity(Head(lstBox)))
    /\ lstBox' = Tail(lstBox)
    /\ LET m == Head(lstBox)
       IN  down' = [d \in Dials |->
              IF link[d] = links
              THEN Append(down[d], PackedMessage([name |-> m.name, data |-> m.data]))
              ELSE down[d]]
    /\ UNCHANGED <<reqVars, linkVars, statVars, asked, conBox, echoBox, up, got, users, crashed>>

\* network_lst_actor::action_handle: send_to(sender_id) while that connection is up.
LstSend ==
    /\ ~Overruns(Capacity(Head(lstBox)))
    /\ lstBox' = Tail(lstBox)
    /\ LET m == Head(lstBox)
       IN  down' = [d \in Dials |->
              IF link[d] = m.sender_id
              THEN Append(down[d], PackedMessage([name |-> m.name, data |-> m.data]))
              ELSE down[d]]
    /\ UNCHANGED <<reqVars, linkVars, statVars, asked, conBox, echoBox, up, got, users, crashed>>

LstHandle ==
    /\ Lst \in live /\ lstBox # <<>>
    /\ PackOverruns(Head(lstBox)) \/ LstSend

\* M_ConDrops: the name is looked up before it has been unpacked.
M_ConDrops(d) ==
    /\ sock[d] = "connected" /\ down[d] # <<>>
    /\ Touch({d})
    /\ down' = [down EXCEPT ![d] = Tail(@)]
    /\ UNCHANGED <<reqVars, linkVars, statVars, asked, conBox, lstBox, echoBox, up, got, users>>

\* network_con_actor::on_new_message
ConNewMessage(d) ==
    /\ sock[d] = "connected" /\ down[d] # <<>>
    /\ Touch({d})
    /\ down' = [down EXCEPT ![d] = Tail(@)]
    /\ LET m == PackedOf(Head(down[d]))
       IN  got' = IF Head(down[d]).kind = "MSG" /\ d \in live /\ m.name \in users
                  THEN Append(got, [con |-> d, data |-> m.data]) ELSE got
    /\ UNCHANGED <<reqVars, linkVars, statVars, asked, conBox, lstBox, echoBox, up, users>>

-----------------------------------------------------------------------------
Asking ==   \* what programs and the world outside may do, or not
    \/ AddListenerOn \/ Subscribe
    \/ \E d \in Dials : AddConnectionTo(d) \/ ConnectFails(d) \/ Break(d)
    \/ \E r \in Reqs : StopActor(r)
    \/ \E u \in UserActors : MakeUser(u)

Supervise(r) == StartSocket(r) \/ Record(r)

CallBack(d) ==
    \/ Connect(d) \/ LossNoticed(d) \/ SendStatus(d)
    \/ LstNewMessage(d) \/ ConNewMessage(d)

Handle == InitiatorHandle \/ EchoHandle \/ LstHandle \/ \E d \in Dials : ConHandle(d)

Next ==
    /\ crashed = None
    /\ \/ Asking
       \/ \E r \in Reqs : Supervise(r) \/ Close(r)
       \/ \E d \in Dials : CallBack(d)
       \/ HandOn \/ Handle

Spec == Init /\ [][Next]_vars

\* The supervisor ends what it has begun, a dial reaches a listener that is there, a call
\* back and the closing of a socket come to their end, what has arrived is delivered, and
\* a mailbox that is not empty is handled, as Exchange and Context show of them: as long
\* as one of these can go on, one does. Each of the threads is fair to its own work, which
\* is more; this is enough because each step uses up something of which there is an end.
Fairness ==
    WF_vars(/\ crashed = None
            /\ \/ \E r \in Reqs : Supervise(r) \/ Close(r)
               \/ \E d \in Dials : CallBack(d)
               \/ HandOn \/ Handle)

FairSpec == Spec /\ Fairness

-----------------------------------------------------------------------------
(* Properties                                                              *)

\* A socket that was recorded while its actor ran has been told to close when the
\* actor has been stopped, with any number of connections to the same host, whose
\* actors all close whatever is recorded under their common key
\* (context_network.cpp:28-31, 77-80, 176-187, 204-214).
StopCloses == \A r \in owned : r \notin live => r \in closing

\* Stopping its actor is all it takes to be rid of a socket that was recorded, as
\* unittests/network_test.cpp:166-179 ("stop connections") stops both actors while they
\* are connected: the socket does not use the actor once it is freed.
\* (context_network.cpp:179-190, 207-219: on_stop does not wait_stoping(), so a call
\* back may be under way, or still come, when the actor goes.)
StopEndsCalls == crashed \notin owned

\* The listener of a stopped actor is told to close, as unittests/network_test.cpp:166-172
\* expects: it stops the actor and waits for its client to be disconnected.
\* (context_network.cpp:171-176: an actor stopped before its listener is recorded
\* leaves it open for good.)
ListenerStops == Freed(Lst) => Lst \in closing

\* Every answer comes intact, in the order of the requests, once, and on the very
\* connection its request was sent to, whatever other connections to the host there are
\* and however often they were lost and made again (context_network.cpp:18-26, 39-57,
\* 82-105; queries.h:107-126). That is as far as messages are not so long that packing
\* them is undefined.
Answers ==
    \E n \in [DOMAIN got -> DOMAIN asked] :
        \A i \in DOMAIN got :
            /\ got[i].data = Payload(n[i]) /\ got[i].con = asked[n[i]]
            /\ \A j \in 1 .. i - 1 : got[j].con = got[i].con => n[j] < n[i]

\* The n-th request and its answer are not too long for a message.
Fits(n) == \A u \in UserActors : ~Overruns(Capacity([name |-> u, data |-> Payload(n)]))

\* A request that fits, in the mailbox of an actor whose connection is up, when the other
\* actors are there, is answered unless that very connection is lost, an actor is stopped
\* or a message was too long. The connection need not be up: the name leads to the connection
\* asked for last, which may be another than the one the initiator was told of
\* (context_network.cpp:18-26, 39-57, 82-105; context.cpp:327, 420-432;
\* network_test.cpp:158-164).
Answered ==
    \A n \in {k \in 1 .. MaxLinks : Fits(k)} :
        (/\ users = UserActors
         /\ n \in DOMAIN asked /\ link[asked[n]] # 0
         /\ \E i \in DOMAIN conBox[asked[n]] : conBox[asked[n]][i].data = Payload(n))
            ~> (\/ \E i \in DOMAIN got : got[i].data = Payload(n)
                \/ n \in DOMAIN asked /\ link[asked[n]] = 0
                \/ Stopped # {} \/ crashed # None)

\* An initiator that has subscribed while the dial is on its way, for the first time or
\* after a loss, learns that it is connected, if there is a listener to connect to and
\* nothing is stopped meanwhile (context_network.cpp:89, 115-124; network_test.cpp:62-75).
ConnectSeen ==
    \A d \in Dials :
        (subscribed /\ sock[d] = "open" /\ d \in live)
            ~> (\/ connected /\ sock[d] = "connected"
                \/ d \notin live \/ sock[d] = "closed" \/ sock[Lst] # "open" \/ crashed # None
                \/ links = MaxLinks /\ sock[d] = "open")

\* When the listener's actor is stopped, the initiator learns that its connections
\* are lost, as network_test.cpp:168-172 waits for; a connection that is stopped
\* itself reports nothing (context_network.cpp:106-124, 179-190).
LossSeen ==
    (Lst \in owned /\ Lst \notin live)
        ~> (~connected \/ crashed # None \/ Stopped \ {Lst} # {})
=============================================================================
