--------------------------- MODULE Serialization ---------------------------
(***************************************************************************)
(* The binary format of what goes over the wire: serialization/helpers.h,  *)
(* serialization/serialization.h, the packer of network_actor_message in   *)
(* context_network.h and the messages of network/queries.h.                *)
(*                                                                         *)
(* A buffer is a sequence of cells counted from 1. A cell holds one byte,  *)
(* or one whole number of fixed width (the 32-bit length in front of a     *)
(* string or byte vector, a 64-bit id): how such a number is laid out in   *)
(* bytes plays no part. Strings and byte vectors are written alike and are *)
(* both sequences here.                                                    *)
(***************************************************************************)
EXTENDS Naturals, Sequences

CONSTANTS
    LenMod,     \* what the 32 bits of a length can tell apart; 2^32 in the code
    SizeMod,    \* what dialler::message::size_t can tell apart
    Strings,    \* the strings and byte vectors considered
    Ids         \* the 64-bit ids considered

\* dialler::message::size_t is declared outside the repository. The code casts a 64-bit
\* size_t to it, so it is narrower, of 32 bits at most.
ASSUME SerializationAssumption ==
    /\ LenMod \in Nat /\ SizeMod \in 2 .. LenMod
    /\ Strings \subseteq Seq(Nat) /\ Ids \subseteq Nat

\* size(s): the length and the bytes.
Size(s) == 1 + Len(s)

\* write(it, s): the length, cut to 32 bits, and then all the bytes. Nothing keeps it
\* from going on behind the end of the buffer; those cells are not the buffer's.
Write(buf, it, s) ==
    [i \in 1 .. Len(buf) |->
        IF i = it THEN Len(s) % LenMod
        ELSE IF it < i /\ i <= it + Len(s) THEN s[i - it] ELSE buf[i]]

\* read(it, s): as many bytes as the length says; next is where it ends.
Read(buf, it) ==
    [value |-> SubSeq(buf, it + 1, it + buf[it]), next |-> it + 1 + buf[it]]

\* write(it, v) and read(it, v) of a number.
WritePod(buf, it, v) == [buf EXCEPT ![it] = v]
ReadPod(buf, it)     == buf[it]

\* A new dialler::message of a given size.
Blank(n) == [i \in 1 .. n |-> 0]

-----------------------------------------------------------------------------
(* network_actor_message: binary_io<string, vector> with its variadic      *)
(* capacity, write_args and read_args unfolded                             *)

Capacity(m) == Size(m.name) + Size(m.data)

Pack(buf, m) == Write(Write(buf, 1, m.name), 1 + Size(m.name), m.data)

Unpack(buf) ==
    LET name == Read(buf, 1)
    IN  [name |-> name.value, data |-> Read(buf, name.next).value]

-----------------------------------------------------------------------------
(* network/queries.h: get_message of every query, and its constructor from *)
(* a message                                                               *)

\* neededSize: the capacity, cast to the library's type.
NeededSize(capacity) == capacity % SizeMod

\* The cast has made the message smaller than what is then written to it: memory behind
\* it is overwritten, and the behaviour of the program undefined.
Overruns(capacity) == NeededSize(capacity) < capacity

Message(kind, value) == [kind |-> kind, value |-> value]

IdMessage(kind, id)     == Message(kind, WritePod(Blank(NeededSize(1)), 1, id))
OkMessage(id)           == IdMessage("OK", id)
LoginMessage(s)         == Message("LOGIN", Write(Blank(NeededSize(Size(s))), 1, s))
LoginConfirmMessage(id) == IdMessage("LOGIN_CONFIRM", id)
LoginFailedMessage(id)  == IdMessage("LOGIN_FAILED", id)
PackedMessage(m)        == Message("MSG", Pack(Blank(NeededSize(Capacity(m))), m))

LoginOf(msg)  == Read(msg.value, 1).value
IdOf(msg)     == ReadPod(msg.value, 1)
PackedOf(msg) == Unpack(msg.value)

-----------------------------------------------------------------------------
\* What is packed is what is unpacked, as unittests/serialisation_test.cpp:36-62 and
\* 157-172 have it, for all that a message has room for: as long as the size survives
\* its cast nothing is written outside the message, the 32-bit lengths are not cut
\* either, and nothing that one write put there is spoilt by the next (helpers.h:33-47,
\* 58-74; context_network.h:26-42; queries.h:25-34, 46-55, 117-126).
RoundTrip ==
    /\ \A id \in Ids :
          \A q \in {OkMessage(id), LoginConfirmMessage(id), LoginFailedMessage(id)} : IdOf(q) = id
    /\ \A s \in Strings : ~Overruns(Size(s)) => LoginOf(LoginMessage(s)) = s
    /\ \A name, data \in Strings :
          LET m == [name |-> name, data |-> data]
          IN  ~Overruns(Capacity(m)) => PackedOf(PackedMessage(m)) = m
=============================================================================
