# A verification of libyaaf

libyaaf (`src/libyaaf`) is an actor library: actors receive messages in mailboxes and handle
them on a pool of threads, parents supervise children, exchanges fan publications out. Two contexts
can talk over the network. These modules model its concurrent core, its network actors and the
binary format they use; TLC checks them on small instances, and TLAPS proves every safety property
that a passing run checks, and that the context implements its abstract specification, for
instances of every size. `PROJECT.json` is the index: runs, mutants, the source lines behind each
definition, findings, hazards and theorems.

## The system

| Part | State | Operations | What is hard |
|---|---|---|---|
| Context (`context.cpp`) | `_actors`, `_mboxes`, `children`, `_locker` | `add_actor`, `send_envelope`, `stop_actor`, `mailbox_worker`, `apply_actor_to_mailbox`, `on_actor_error` | three kinds of threads meet in two maps; look-ups are used after the lock is gone; errors climb a tree that is being stopped |
| Actors, mailboxes (`actor.cpp`, `mailbox.h`) | `_busy`, `_status`, a deque | `try_lock`, `apply`, `push`, `try_pop` | busy is taken on one thread and returned on another; a handler may throw |
| Exchanges (`context.cpp`) | `_exchanges`: owner, subscribes, pub; `_exchange_locker` | `create_exchange`, `subscribe_to_exchange`, `publish_to_exchange`, phases 1 and 3 of `mailbox_worker` | two locks; the worker only try-locks; exchanges disappear |
| Thread pool (`thread_pool.cpp`, `task.cpp`) | `_in_queue`, `_stop_flag`, `_task_runned` | `post`, `flush`, `stop`, `_pool_logic` | lost wakeups; tasks that repeat; counting |
| Task result (`task.h`) | `runned`, mutex, condition | `wait`, `unlock` | store and notify without the mutex |
| Life cycle (`context.cpp`, `thread_manager.cpp`) | `_stopping_begin`, `_thread_manager`, `_pools`, the reference count | `start`, `stop`, `~context`, `post` | threads that still post; the last pointer on a pool thread |
| Names (`context.cpp`) | `_id_by_name` | `get_address`, `get_actor` | two actors of one name: the later one takes it over |
| Network (`context_network.cpp`) | `_network_listeners`, `_network_connections`, `_net_threads` | supervisor: `add_listener_on`, `add_connection_to`; listener and connection actors: `action_handle`, `on_stop`, `on_connect`, `on_new_message`, `on_network_error` | call backs of an external library through raw pointers, under way while actors are freed; sockets recorded after they run and told to close without waiting; `on_stop` under a lock; several connections to one host; connections that are lost and made again |
| Serialization (`serialization/`, `network/queries.h`) | none | `size`, `write`, `read`, `pack`, `unpack`, `get_message` | 32-bit lengths; a message's size cast to a narrower type |
| Logger, strings, payload, spin lock | | | nothing the other parts depend on |

How they interact: `context::start` posts `mailbox_worker` to the SYSTEM pool as a task that
repeats for ever. It drains exchanges into mailboxes, takes the busy flag of every actor that
has mail, and posts an apply task for it to the USER pool. Apply runs `action_handle` for each
message; user code in it calls the context again through a `user_context` that holds the
context weakly. An exception ends the apply; the parent's `on_child_error` decides what
becomes of the actor.

A program asks `/root/net` for a listener or a connection by a message. The supervisor makes an
actor and a socket for it; the socket calls the actor back from the network threads, which
`network_init` has started and `stop` joins. What is sent to a connection actor goes out over
its socket; what comes in is sent to the actor it names. Connection and loss are published on
the exchange `/root/net/<host:port>`.

## Modules

* **SerialActors** is the abstract specification: per actor a queue, at most one message being
  handled, arrivals in order, nothing new once the actor is stopped.
* **Context** is the detailed one. A section under the exclusive `_locker` is one step, enabled
  while `readers` is empty; sections under the shared lock that do more than one thing are
  several steps with the holder in `readers`. Each access to a mailbox or a busy flag is a step.
  Threads have a program counter (`pc`): `idle`, `start` (in `on_start`), `enter` ... `reset_err`
  (in `base_actor::apply`), `report`, `caught`, `escalate`, `react` (in
  `apply_actor_to_mailbox`), `user` (a client). `call` is the context operation a thread is
  inside of, `wk` the locals of `mailbox_worker`. `crashed` records the dereference of a missing
  entry. User code is a state in which a thread may call, return or throw. `Serial` is the
  refinement mapping; `ImplementsSerialActors` the property.
* **ContextProofs** holds the invariants of Context, **ContextRefinement** the refinement of
  SerialActors and the look-ups of parents.
* **Exchange** models publish/subscribe with both locks: fan-out copy by copy, clean-up in two
  steps. Dispatch of delivered mail is abstracted to `Handle`, since Context has it. `Got(a)` is
  all that has come to an actor, handled or in its mailbox; the properties of delivery are about
  its places. **ExchangeProofs** holds its theorems.
* **ThreadPool** models the pool that Context takes for granted: Context's FIFO `userq` that
  never loses a task is what `OnePlace` and `PostedRuns` are about.
  The results of tasks are part of it: `wait` step by step (it holds the result's mutex from its
  look at `runned` to the moment it blocks) and `unlock`, which takes no lock. **ThreadPoolProofs**
  holds its theorems.
* **Lifecycle** models the end of a context. `owners` is the reference count as a set of threads.
  `stage` follows `context::stop` and `thread_manager::stop`. `Nets` are the network threads:
  they look at `_stopping_begin`, poll, and inside a call back hold a pointer to the context.
  **LifecycleProofs** holds its theorems.
* **Serialization** has the binary format as operators. A buffer is a sequence of cells, one
  per byte or fixed-width number; a length is taken modulo `LenMod`, which is 2^32 in the code,
  and the size a message is allocated with (`NeededSize`) modulo `SizeMod`, the range of
  `dialler::message::size_t`, to which `get_message` casts it. `Overruns` says when the cast has
  lost something: all the bytes are written nevertheless, past the end of the message.
  The variadic templates are unfolded for the one scheme in use (a string and a byte vector).
* **SerializationProofs** proves the round trip.
* **Network** composes the network actors of two contexts with the format and with the user
  actors of `unittests/network_test.cpp` and `examples/network_example.cpp`. One context listens
  on a port, the other dials it `MaxDials` times. A request for a listener or connection, its
  actor and its socket are one value; `step` is how far the supervisor's handler is with it,
  `live` the actors registered, `table` the two maps of sockets, `named` the entry of
  `_id_by_name` that the actors of all connections share, `sock` and `link` the sockets and the
  ids the listener knows them by, `up` and `down` the packed messages on their way. `closing`
  are the sockets that `on_stop` has told to stop or disconnect; that they are closed is a later
  step (`Close`), since `on_stop` does not `wait_stoping`, and until then connections that are up
  still call back. `telling` is what a network thread inside `send_status` is about to publish:
  no lock is held over it, so its actor may be stopped and freed before it does. `crashed` is the
  actor that was used after it was freed, or `Overrun` when a message was packed past the end
  of its buffer; the behaviour of the program is undefined then, and the model ends. `owned` is
  history: the sockets that were recorded while their actor ran.
* **NetworkProofs** holds the theorems about Network.
* **SequenceLemmas** has what the proofs about queues and mailboxes need to know of sequences.

`MC*` modules and `.cfg` files give the constants values. Operators named `M_...` are mutants:
plausible bugs of the definition that follows them, used to show that a property can fail.

## Runs

| Run | Instance | What it shows |
|---|---|---|
| `context_safety` | `/root/usr/boss/kid`, 2 pool threads, 1 client, 2 messages, both user actors can be stopped, every supervision decision | type invariant; the busy flag is a token with exactly one holder; no handler runs twice at once; an apply finds its mail; both maps agree; refinement of SerialActors |
| `context_live` | the default single user thread; only the leaf can be stopped | nothing crashes, every message is handled unless its actor is stopped, every `on_start` runs |
| `context_crash` | as `context_safety` | **violated**: `NeverCrashes` |
| `context_status` | as `context_safety` | **violated**: `StopedAfterStop` |
| `pool` | 2 tasks, one of which may be a WORKER that repeats for ever, 2 workers, 2 clients: one posts, flushes and stops, one posts and waits | every task in one place; `_task_runned` exact; `flush` and `wait` sound; posted tasks run, `flush` and `stop` return, and so does every waiter but the racing one |
| `result_lost_wakeup` | 1 task, 1 worker, 1 waiter | **violated**: `WaitReturns` |
| `exchange` | 2 actors, one of them a network actor, 2 names, 4 calls | order, multiplicity, completeness, no use after erasure, used exchanges stay, subscribers catch up, unused exchanges go, the stop of a network actor ends |
| `lifecycle` | 2 user threads, 2 network threads, 4 posting calls | manager not used after it is gone; nothing runs when memory goes; `stop` ends |
| `lifecycle_drop` | 1 user thread, 1 network thread | **violated**: `DropIsSafe` |
| `network` | 1 listener, 2 connections to it, 2 links, 1 failure, 1 stop; sizes and lengths modulo 6; the answering actor is made late | a recorded socket is told to close when its actor is stopped; answers come intact, once and on the right connection; requests are answered; connection, reconnection and loss are seen |
| `network_call` | 1 listener, 1 connection | **violated**: `StopEndsCalls` |
| `network_orphan` | 1 listener | **violated**: `ListenerStops` |

The six violated properties state what tests or comments of the repository say (quoted under
`findings` in `PROJECT.json`): a parent may be gone when a child is added; an apply under way
overwrites STOPED; `unlock` can slip between a waiter's test and its
sleep; a network or pool thread that drops the last pointer joins itself; a listener whose actor
is stopped before it is recorded runs on; a connection's actor that is stopped while a network
thread is inside its `send_status` is used after it was freed. In `context_crash` the run shows one way to the
dereference; the others in the finding (lines 509 and 594) are further `Crash` branches of the
same model. `network_orphan` needs a stop from another thread than the supervisor's while
`wait_starting` waits, so the program itself or a second user thread.

**Bounds.** Two messages are enough for every race about busy and mail: one to be handled, one
to arrive while the first is popped, handled or given up. A chain of two user actors has a
parent that is itself supervised, so escalation takes two steps and a stop takes a subtree.
Two pool threads make every pair of concurrent applies possible. `MaxSends`, `MaxCalls` and
`MaxPosts` cap counters in guards. In Exchange four calls are two subscriptions (of two actors,
or of one twice) and two publications; the bound on calls also ends the competition for the
locks: with an endless stream of readers the worker's `try_lock` may starve, and the code has
nothing against that. In ThreadPool each task is posted once but may repeat without bound.
A second worker is always free for the second task, so that a repeating task gives way to the
queue (`thread_pool.cpp:114`) is modelled but not put to the test: a third task takes TLC too long.
In Network two dials are what it takes to have two actors of one name, two sockets under one
key of the map, and an answer that could go to the wrong connection. Two links are two
connections side by side, or one that is lost and made again; a failure is one attempt that fails
or one connection that breaks by itself (those that end because the listener is stopped are not
counted). The n-th request carries n bytes and goes to a name of one byte, its answer to one of
two: a size modulo 6 holds both requests and the first answer and not the second, so there are
messages that go out and come back and one that overruns. `Late` lets a request arrive before
there is anybody to answer it. `SizeMod` and `LenMod` are equal here, as for a 32-bit `size_t`.
What larger bounds could add to the safety properties (two answers on one connection, several
stops, longer messages in either direction) the theorems cover: they hold for all bounds and any
`SizeMod` up to `LenMod`.

**Fairness.** A thread that can go on does (weak fairness), and user code returns. Strong
fairness is assumed where a thread waits in `lock()` for an exclusive lock that others keep
taking (`AddActorInsert`, `OnActorErrorStop`, `OnActorErrorReinit`, `WaitTest` of ThreadPool,
`EraseNetActor` of Exchange): such a waiter is served once those inside have left. In ThreadPool a task outside `Endless` returns
SINGLE some time (strong fairness of `ApplySingle`), as the tasks of the context do at once.
In Network
the supervisor ends what it has begun, a dial that is open reaches an open listener, a loss is
noticed, a call back under way and the closing of a socket come to their end, what has arrived is
delivered and mail is handled (Exchange and Context show the last two of the context). It is enough
to assume that one of all these goes on as long as one can, since each uses up something bounded,
and nothing is assumed of breaking, stopping or asking.
Nothing is assumed of clients: nobody has to send, stop, flush or publish. Spurious wakeups
may happen and need not.

The three network runs are made without deadlock checking: when everything has been asked for and
delivered the network is idle. All other runs check for deadlock.

## What is proved

`ContextProofs` proves, for any set of actors and shape of the tree, any number of threads, any
set of decisions and any `MaxSends` (from `ContextAssumption` alone):

* `TypeCorrect`: `TypeOK` is inductive. It carries what the other proofs need to know of
  threads: inside a task `self` is an actor, inside a call `call.who` is one.
* `BusyTokenInvariant`: `TypeOK /\ BusyToken` is inductive. Exclusion of handlers is not
  inductive by itself: it says nothing of the apply that is queued or about to be posted.
  `BusyToken` follows the flag from `mailbox_worker` through the queue to the thread, and says
  that there is one holder. One lemma for each step that moves the token (try_lock, post, take,
  reset), and `SameHolders`/`SameSide` for all the others.
* `HandlerExclusionInvariant` follows from it.
* `ApplyFindsMailInvariant`: with the token, only its holder pops, so what the second look of
  `mailbox_worker` saw is still there.
* `RegistryMirrorInvariant`: strengthened by `ScanUnderLock`, that the worker has `_locker`
  shared while it scans and has collected only mailboxes without actors, of which there are none.

`ContextRefinement` proves, from the same assumption:

* `Implements`: Context implements SerialActors. The mapping takes an actor's mailbox as its queue,
  the envelope that the thread in its `action_handle` has popped as the message being handled
  (`Handling`), and its place in the maps as its stage (`Stages`). `push` is the abstract arrival,
  `try_pop` the beginning and the return or throw of the handler the end of handling,
  `add_actor`'s insertion and `stop_actor` (with the whole subtree) the change of stage; one lemma
  for each (`PushSends`, `InsertRegisters`, `TakesOutStops`, `PopBegins`, `LeavingEnds`), and
  `OthersStutter` for all the rest. The invariant `RInv` adds to that of ContextProofs what makes
  the mapped steps legal: `Calls` (a mailbox found by `send_envelope` is there until the push
  because `_locker` is held shared; an id that `add_actor` has taken is nobody else's), `Issued`
  and `AtWork`. That an actor handles one message at a time is `BusyToken` again.
* `NoCrash`: `NeverCrashes`, under the hypothesis `OnlyLeavesStop` that no actor with children is
  stopped: `stop_actor` is called for leaves alone, and where STOP or REINIT may be decided there
  are only leaves below. The hypothesis is about the program, not the library, and it is needed:
  without it the run `context_crash` violates the property. `MCContextLive.cfg` satisfies it. The
  invariant follows the look-ups back to the tree: `Family` (a parent was registered before its
  children and stays), `Addressed` (whoever a task, call or dispatch is about has been
  registered), `Supervised` (who is about to be stopped is a leaf, and no escalation goes past a
  built-in actor).

`ThreadPoolProofs` proves, for any tasks, workers and clients (from `PoolAssumption`):

* `PoolTypeOK`, `TasksInOnePlace`, `RunnedIsCount`, from one inductive invariant: the types,
  `OnePlace` and `RunnedCount` themselves, and `OnePusher` (no two clients push one task), without
  which a task could be queued twice. `ChoiceInQueue` says that the loop over `_in_queue` settles on
  a task that is there; `RemoveAtMembers` that taking it out loses no other.
* `FlushIsSound` and `WaitIsSound`, the two action properties. `flush` looks only at the queue and
  the counter, so it needs `Tracked`: what it saw is queued, held or done until it returns.
  With `RunnedCount` a counter of zero means that nothing is held.

`ExchangeProofs` proves, for any actors, names and number of calls (from `ExchangeAssumption`):

* `ExchangeTypeOK` and `PublishHits`, with `Locks` (what the two reader/writer locks exclude) and
  `Budget` (an envelope published, or about to be, belongs to a call of its own, which bounds the
  counters); `UsedStays`, the action property of the clean-up, whose list of names is still right
  when it erases because both locks are held.
* `DeliveryInOrder` and `DeliveryWithoutGap`. Neither is inductive: they say nothing of the
  envelope that is half way through the list of subscribers. `FanInv` adds what is in an exchange
  (`Numbered`: its last envelopes, in order, the one before being copied), that nobody has got
  those yet (`Below`), that numbers rise at every receiver (`Ordered`), how many copies of an
  envelope may have come so far (`Limited`, by the position in the list), and which must have
  (`Subscribed`, `Complete`).

`LifecycleProofs` proves, for any number of user, network and pool threads (from
`LifecycleAssumption`):

* `LifecycleTypeOK`, `StopSparesUse` and `StopIsQuiet`. The invariant says what each stage of
  `stop()` has achieved (`StopProgress`), that a thread which has left its loop does nothing more
  (`ExitedIdle`), and that whoever posts holds a pointer (`OwnersUse`), so that no destructor is
  running. It speaks of states before a crash: `DropIsSafe` can be violated, and then nothing
  more is claimed of the run. The bound on queued tasks is a separate count (`Bounded`).

`SerializationProofs` proves, for any `LenMod`, any `SizeMod` up to it and any sets of strings and
ids (from `SerializationAssumption` alone):

* `RoundTripTheorem`, a fact about the format alone and so of no run: every query of `queries.h`
  and a packed `network_actor_message` is read back as it was written, unless the cast of its size has lost something. `RoomLemma` says that
  then the message has the size it needs and the lengths are smaller than `LenMod`, `WriteLemma`
  what a written buffer holds, `FrameLemma` that the second write leaves the first alone,
  `ReadLemma` what is read from it. Of messages that are too long nothing is claimed: writing
  them is undefined behaviour.

`NetworkProofs` proves, for any number of dials, links, stops and failures (from `NetworkAssumption`):

* `StopClosesTheorem`. The property is not inductive: that the stop of an actor closes its own
  socket, and not only whatever the map holds, needs `Kept` (a socket recorded in time has been
  told to close, or is the one in the map and its actor runs), which in turn rests on `insert`
  leaving an entry alone and on `Started` (only sockets of requests that are handled are in the map
  or told to close). `LinksOpen` (a connection the listener knows has both ends open) is for the
  types. That the socket makes no call back afterwards is not claimed: `network_call` shows the
  contrary.
* `NetworkTypeOK`. The types do not follow from themselves either. Ids of connections are unique
  because a new one is larger than all given out, those in mailboxes included. That the n-th
  request has a payload at all rests on a count (`Counted`): the requests sent, the news of
  connections on their way to the initiator and those that a network thread is about to
  publish (`Pending`) are together no more than the connections made. That what is unpacked has
  a type rests on `PackLemma`, the part of the round trip for messages.
* `AnswersTheorem`. The witness that `Answers` asks for is the number of the request to which a
  payload belongs (`No`). The invariant `InLine` follows the way of each connection through six
  places, from the mailbox of its actor over the wire, the answering actor, the listener's
  actor and the wire back to the receiver: the numbers rise along it (`Rising`) and all were
  sent to this connection. In the two mailboxes that connections share, only the messages with
  the id the connection has now count, so a lost connection's are off the way, and a new id
  finds none. Every step takes numbers off the way (`ThinRises`), moves the first of a stage to the
  end of the next (`MoveRises`), or adds one above all others (`AskLine`).

Each of the strengthened invariants was checked by TLC on the instance of its run before it was
proved. Induction over a number or a length, where a lemma needs it, is by the least
counterexample (`LeastElement` of SequenceLemmas), since the library's induction theorems take an
operator as a parameter, which the provers cannot instantiate.

Only model-checked: all liveness (`Delivered`, `OnStartRuns`, `PostedRuns`, `FlushReturns`,
`StopReturns`, `SettledWaiterReturns`, `FanOut`, `CleanUp`, `NetStopEnds`, `StopCompletes`,
`Answered`, `ConnectSeen`, `LossSeen`), which needs fairness and so ENABLED, out of TLAPS' reach.
What a recursive definition computes for every input could not be proved either (no SMT in
modules with RECURSIVE operators); the modules have none.

## Left out, and abstracted

* REINIT is modelled as the code has it: the actor is taken out of both maps like one that is
  stopped, and `on_start` of the removed object is called (`context.cpp:529-533`). The tests
  speak of a restart (`context_test.cpp:322-343`); no property is about the difference.
* Callbacks under `_locker` (`on_stop`, `on_child_stopped`, an escalating `on_child_error`) do
  not call the context: one that did would lock a mutex its thread holds.
* `on_child_status` has no effect inside the context and is a step only. The actor `/root/sys`
  never gets mail or children and is left out. Built-in actors answer RESUME, as `base_actor`.
* Ids are never reused, so an actor, its id and its description are one value; a message is a
  number. Payload types and settings play no part; names only where two actors share one
  (Network).
* The dialler library is not in the repository. Taken from its use: a listener and a dial call
  their consumer from the network threads; `start_async_connection` goes on trying, and a dial
  that loses its connection reports an error and dials again (the test's client does, and its
  initiator waits for the report); `disconnect` and `stop` begin to close a socket, and
  `wait_stoping`, which `context::stop` calls after them, is there because it takes time;
  a socket that is to close accepts and dials no more; a dial reports one status at a time;
  messages on a connection stay in order; a message sent without a connection, or on its way when
  one is lost, is gone. `dialler::message::size_t` is taken to be narrower than `size_t`, from which
  it is cast, and of 32 bits at most.
* A call back that reports a status is two steps, up to its first use of the actor and from
  there to the publication; one that brings a message uses its actor only to ask for the context,
  at its beginning, and is one step. What `wait_stoping` does once the network threads have left
  is not modelled.
* After a use of freed memory or an overrun the behaviour of the program is undefined: the model
  stops there, and what holds of the network holds up to that point.
* A second listener on the port (which the operating system refuses), other hosts and ports,
  and a user actor of Network that is stopped are left out; the initiator and the two user
  actors live as long as their contexts.
* `stop()` walks the two maps of sockets without a lock, and `insert` has none either: a data
  race whose outcome is undefined and not modelled beyond the order of the accesses.
* A task that throws out of the pool ends the process; a second `stop()` joins twice: neither
  is modelled. The pool in Context and Lifecycle is abstracted as said above.
* `runned`, `_status`, `_stopping_begin`, `_stoping_begin` and `_is_stoped` are plain variables
  accessed without a lock; an access is one step, with the value of the last write.
* Not modelled: logger, strings, exceptions, payload, settings, the spin lock of the logger, the
  other examples and the benchmarks. They format, print or measure and keep no state the rest
  depends on. `thread_manager::flush` is not called by the context.

## Plan

1. Done: SerialActors, Context, ThreadPool with task results, Exchange, Lifecycle with the network
   threads, Serialization, Network; every safety property of the passing runs and the refinement
   proved.
2. Proofs left: the reasons behind the violated properties as theorems (that a result's waiter
   can only be lost while it is between its test and its sleep; that a listener left open was
   stopped before it was recorded).
3. A lock-order model of callbacks under `_locker` that call the context, and of a parent that
   records `on_child_status` (both are hazards without a property).
