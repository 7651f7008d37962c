------------------------- MODULE SerializationProofs -------------------------
(***************************************************************************)
(* What is written is what is read, for strings and lengths of any size    *)
(* that a message has room for.                                            *)
(* The argument goes by what a buffer holds at a place (Holds): Write      *)
(* makes it so, Write further on leaves it so, and Read depends on nothing *)
(* else.                                                                   *)
(***************************************************************************)
EXTENDS Serialization, SequenceTheorems, TLAPS

\* The buffer holds the string s, written at it.
Holds(buf, it, s) ==
    /\ it + Len(s) <= Len(buf)
    /\ buf[it] = Len(s) % LenMod
    /\ \A i \in 1 .. Len(s) : buf[it + i] = s[i]

\* What 32 bits make of a length.
LEMMA ModLemma ==
    ASSUME NEW a \in Nat
    PROVE  /\ a % LenMod \in Nat /\ a % LenMod < LenMod /\ a % LenMod <= a
           /\ a < LenMod => a % LenMod = a
BY SerializationAssumption

\* The size survives its cast exactly if it is small enough; then no length in the
\* message is cut to its 32 bits either.
LEMMA RoomLemma ==
    ASSUME NEW c \in Nat
    PROVE  /\ NeededSize(c) \in Nat
           /\ Overruns(c) <=> c >= SizeMod
           /\ ~Overruns(c) => NeededSize(c) = c /\ c < LenMod
<1>1. SizeMod \in Nat \ {0} /\ SizeMod <= LenMod /\ LenMod \in Nat
  BY SerializationAssumption
<1>2. /\ c % SizeMod \in Nat /\ c % SizeMod < SizeMod /\ c % SizeMod <= c
      /\ c < SizeMod => c % SizeMod = c
  BY <1>1
<1> QED
  BY <1>1, <1>2 DEF NeededSize, Overruns

\* A new message has the size asked for.
LEMMA BlankLemma ==
    ASSUME NEW n \in Nat
    PROVE  Blank(n) \in Seq(Nat) /\ Len(Blank(n)) = n
BY DEF Blank

\* The buffer keeps its size and holds what was written.
LEMMA WriteLemma ==
    ASSUME NEW buf \in Seq(Nat), NEW s \in Seq(Nat), NEW it \in Nat \ {0},
           it + Len(s) <= Len(buf)
    PROVE  /\ Write(buf, it, s) \in Seq(Nat)
           /\ Len(Write(buf, it, s)) = Len(buf)
           /\ Holds(Write(buf, it, s), it, s)
<1> DEFINE w == Write(buf, it, s)
<1>1. Len(s) \in Nat /\ Len(buf) \in Nat /\ LenMod \in Nat \ {0}
  BY SerializationAssumption
<1>2. Len(s) % LenMod \in Nat
  BY <1>1, ModLemma
<1>3. \A i \in 1 .. Len(s) : s[i] \in Nat
  OBVIOUS
<1>4. \A i \in 1 .. Len(buf) : w[i] \in Nat
  BY <1>1, <1>2, <1>3 DEF Write
<1>5. w \in Seq(Nat) /\ Len(w) = Len(buf)
  <2>1. w \in [1 .. Len(buf) -> Nat]
    BY <1>4 DEF Write
  <2>2. w \in Seq(Nat)
    BY <2>1, <1>1, SeqDef
  <2>3. DOMAIN w = 1 .. Len(buf) /\ DOMAIN w = 1 .. Len(w) /\ Len(w) \in Nat
    BY <2>1, <2>2, LenProperties
  <2> HIDE DEF w
  <2> QED
    BY <2>2, <2>3, <1>1
<1>6. w[it] = Len(s) % LenMod
  BY <1>1 DEF Write
<1>7. \A i \in 1 .. Len(s) : w[it + i] = s[i]
  BY <1>1 DEF Write
<1> HIDE DEF w
<1> QED
  BY <1>5, <1>6, <1>7 DEF Holds, w

\* A write behind a string leaves the string alone.
LEMMA FrameLemma ==
    ASSUME NEW buf \in Seq(Nat), NEW s \in Seq(Nat), NEW it \in Nat \ {0},
           NEW t \in Seq(Nat), NEW jt \in Nat,
           it + Len(s) < jt, jt + Len(t) <= Len(buf), Holds(buf, it, s)
    PROVE  Holds(Write(buf, jt, t), it, s)
<1> DEFINE w == Write(buf, jt, t)
<1>1. Len(s) \in Nat /\ Len(t) \in Nat /\ Len(buf) \in Nat
  OBVIOUS
<1>2. \A i \in 1 .. Len(buf) : i < jt => w[i] = buf[i]
  BY <1>1 DEF Write
<1>3. Len(w) = Len(buf)
  BY <1>1, WriteLemma
<1> HIDE DEF w
<1>4. it \in 1 .. Len(buf) /\ w[it] = buf[it]
  <2>1. it \in 1 .. Len(buf) /\ it < jt
    BY <1>1
  <2> QED
    BY <1>2, <2>1
<1>5. \A i \in 1 .. Len(s) : w[it + i] = buf[it + i]
  BY <1>1, <1>2
<1> QED
  BY <1>1, <1>3, <1>4, <1>5 DEF Holds, w

\* A string whose length is not cut is read from where it is held.
LEMMA ReadLemma ==
    ASSUME NEW buf \in Seq(Nat), NEW s \in Seq(Nat), NEW it \in Nat \ {0},
           Holds(buf, it, s), Len(s) < LenMod
    PROVE  Read(buf, it) = [value |-> s, next |-> it + 1 + Len(s)]
<1> DEFINE n == Len(s)
<1>1. n \in Nat /\ Len(buf) \in Nat
  OBVIOUS
<1>2. buf[it] = n
  BY <1>1, ModLemma DEF Holds
<1>3. SubSeq(buf, it + 1, it + n) = s
  <2>1. SubSeq(buf, it + 1, it + n) = [i \in 1 .. n |-> buf[it + i]]
    BY <1>1
  <2>2. s = [i \in 1 .. n |-> s[i]]
    BY <1>1
  <2>3. \A i \in 1 .. n : buf[it + i] = s[i]
    BY <1>1 DEF Holds
  <2> HIDE DEF n
  <2> QED
    BY <2>1, <2>2, <2>3
<1> HIDE DEF n
<1>4. Read(buf, it) = [value |-> SubSeq(buf, it + 1, it + n), next |-> it + 1 + n]
  BY <1>2 DEF Read
<1> QED
  BY <1>3, <1>4 DEF n

\* A message comes back as it was if there is room for it.
LEMMA PackLemma ==
    ASSUME NEW name \in Seq(Nat), NEW data \in Seq(Nat),
           ~Overruns(Capacity([name |-> name, data |-> data]))
    PROVE  PackedOf(PackedMessage([name |-> name, data |-> data])) = [name |-> name, data |-> data]
<1> DEFINE m == [name |-> name, data |-> data]
           b == Blank(NeededSize(Capacity(m)))
           v == Write(b, 1, name)
           j == 1 + Size(name)
           w == Write(v, j, data)
<1>1. /\ Len(name) \in Nat /\ Len(data) \in Nat /\ j = 2 + Len(name)
  BY DEF Size
<1>2. /\ b \in Seq(Nat) /\ Len(b) = j + Len(data)
      /\ Len(name) < LenMod /\ Len(data) < LenMod
  <2>1. Capacity(m) = j + Len(data) /\ Capacity(m) \in Nat
    BY <1>1 DEF Capacity, Size
  <2>2. NeededSize(Capacity(m)) = Capacity(m) /\ Capacity(m) < LenMod
    BY <2>1, RoomLemma
  <2>3. b \in Seq(Nat) /\ Len(b) = Capacity(m)
    BY <2>1, <2>2, BlankLemma
  <2> HIDE DEF b, m, j
  <2> QED
    BY <1>1, <2>1, <2>2, <2>3, SerializationAssumption
<1>3. v \in Seq(Nat) /\ Len(v) = Len(b) /\ Holds(v, 1, name)
  <2> HIDE DEF b, j
  <2>1. 1 + Len(name) <= Len(b)
    BY <1>1, <1>2
  <2> QED
    BY <1>1, <1>2, <2>1, WriteLemma
<1>4. w \in Seq(Nat) /\ Holds(w, j, data) /\ Holds(w, 1, name)
  <2> HIDE DEF v, b, j
  <2>1. /\ j \in Nat \ {0} /\ j \in Nat
        /\ j + Len(data) <= Len(v) /\ 1 + Len(name) < j
    BY <1>1, <1>2, <1>3
  <2>2. w \in Seq(Nat) /\ Holds(w, j, data)
    BY <1>1, <1>3, <2>1, WriteLemma
  <2>3. Holds(w, 1, name)
    BY <1>1, <1>3, <2>1, FrameLemma
  <2> QED
    BY <2>2, <2>3
<1>5. Read(w, 1) = [value |-> name, next |-> j]
  <2> HIDE DEF w, j, b
  <2>1. Read(w, 1) = [value |-> name, next |-> 1 + 1 + Len(name)]
    BY <1>1, <1>2, <1>4, ReadLemma
  <2> QED
    BY <2>1, <1>1
<1>6. Read(w, j).value = data
  <2> HIDE DEF w, j, b
  <2>1. j \in Nat \ {0}
    BY <1>1
  <2>2. Read(w, j) = [value |-> data, next |-> j + 1 + Len(data)]
    BY <1>1, <1>2, <1>4, <2>1, ReadLemma
  <2> QED
    BY <2>2
<1>7. Unpack(w) = m
  <2> HIDE DEF w, j
  <2> QED
    BY <1>5, <1>6 DEF Unpack
<1>8. Pack(b, m) = w
  BY DEF Pack
<1> QED
  BY <1>7, <1>8 DEF PackedOf, PackedMessage, Message

\* The messages of network/queries.h come back as they were, for any lengths and any
\* width of the message's size, if that has room for them.
THEOREM RoundTripTheorem == RoundTrip
<1>1. ASSUME NEW id \in Ids,
             NEW q \in {OkMessage(id), LoginConfirmMessage(id), LoginFailedMessage(id)}
      PROVE  IdOf(q) = id
  <2>1. NeededSize(1) = 1
    BY RoomLemma, SerializationAssumption
  <2> QED
    BY <1>1, <2>1 DEF OkMessage, LoginConfirmMessage, LoginFailedMessage, IdMessage, IdOf, Message,
                      WritePod, ReadPod, Blank
<1>2. ASSUME NEW s \in Strings, ~Overruns(Size(s))
      PROVE  LoginOf(LoginMessage(s)) = s
  <2>1. s \in Seq(Nat) /\ Len(s) \in Nat /\ Size(s) = 1 + Len(s)
    BY SerializationAssumption DEF Size
  <2> DEFINE b == Blank(NeededSize(Size(s)))
             w == Write(b, 1, s)
  <2>2. NeededSize(Size(s)) = 1 + Len(s) /\ 1 + Len(s) < LenMod
    BY <1>2, <2>1, RoomLemma
  <2>3. b \in Seq(Nat) /\ 1 + Len(s) <= Len(b)
    BY <2>1, <2>2, BlankLemma
  <2>4. w \in Seq(Nat) /\ Holds(w, 1, s)
    <3> HIDE DEF b
    <3> QED
      BY <2>1, <2>3, WriteLemma
  <2>5. Read(w, 1).value = s
    <3> HIDE DEF w
    <3>1. Len(s) < LenMod
      BY <2>1, <2>2, SerializationAssumption
    <3>2. Read(w, 1) = [value |-> s, next |-> 1 + 1 + Len(s)]
      BY <2>1, <2>4, <3>1, ReadLemma
    <3> QED
      BY <3>2
  <2> QED
    BY <2>5 DEF LoginOf, LoginMessage, Message
<1>3. ASSUME NEW name \in Strings, NEW data \in Strings,
             ~Overruns(Capacity([name |-> name, data |-> data]))
      PROVE  PackedOf(PackedMessage([name |-> name, data |-> data])) = [name |-> name, data |-> data]
  BY <1>3, SerializationAssumption, PackLemma
<1> QED
  BY <1>1, <1>2, <1>3 DEF RoundTrip
=============================================================================
