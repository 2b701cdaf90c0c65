----------------------------- MODULE RelayProofs -----------------------------
(***************************************************************************)
(* For every number of nodes, connections and frames, every buffer and     *)
(* queue capacity and every choice of faults: the safety invariants of     *)
(* Relay, and the causes for which it drops a frame.                       *)
(***************************************************************************)
EXTENDS Relay, SequenceTheorems, TLAPS

(***************************************************************************)
(* Sequences in which each frame occurs once.  Control messages may repeat.*)
(***************************************************************************)
FramesOnce(q) ==
  \A i, j \in DOMAIN q : q[i] = q[j] /\ q[i] \in Frames => i = j

LEMMA EmptyHolds ==
  ASSUME NEW S
  PROVE  <<>> \in Seq(S) /\ Len(<<>>) = 0 /\ Range(<<>>) = {} /\ FramesOnce(<<>>)
BY DEF Range, FramesOnce

\* Appending adds one element.
LEMMA AppendHolds ==
  ASSUME NEW S, NEW q \in Seq(S), NEW x \in S
  PROVE  /\ Append(q, x) \in Seq(S)
         /\ Append(q, x) # <<>>
         /\ Len(Append(q, x)) = Len(q) + 1
         /\ Range(Append(q, x)) = Range(q) \cup {x}
         /\ FramesOnce(q) /\ (x \in Frames => x \notin Range(q)) => FramesOnce(Append(q, x))
<1>1. /\ Append(q, x) \in Seq(S)
      /\ Len(Append(q, x)) = Len(q) + 1
      /\ \A i \in 1..Len(q) : Append(q, x)[i] = q[i]
      /\ Append(q, x)[Len(q) + 1] = x
  BY AppendProperties
<1>2. DOMAIN q = 1..Len(q) /\ DOMAIN Append(q, x) = 1..(Len(q) + 1) /\ Len(q) \in Nat
  BY <1>1, LenProperties
<1>3. Range(Append(q, x)) = Range(q) \cup {x}
  <2>1. ASSUME NEW y \in Range(q) \cup {x}  PROVE y \in Range(Append(q, x))
    BY <1>1, <1>2 DEF Range
  <2>2. ASSUME NEW y \in Range(Append(q, x))  PROVE y \in Range(q) \cup {x}
    <3>1. PICK i \in 1..(Len(q) + 1) : y = Append(q, x)[i]
      BY <1>2 DEF Range
    <3>2. CASE i \in 1..Len(q)
      BY <1>1, <1>2, <3>1, <3>2 DEF Range
    <3>3. CASE i = Len(q) + 1
      BY <1>1, <3>1, <3>3
    <3> QED BY <1>2, <3>1, <3>2, <3>3
  <2> QED BY <2>1, <2>2
<1>4. ASSUME FramesOnce(q), x \in Frames => x \notin Range(q),
             NEW i \in 1..(Len(q) + 1), NEW j \in 1..(Len(q) + 1),
             Append(q, x)[i] = Append(q, x)[j], Append(q, x)[i] \in Frames
      PROVE  i = j
  <2>1. \A n \in 1..Len(q) : x \in Frames => q[n] # x
    BY <1>2, <1>4 DEF Range
  <2>2. CASE i \in 1..Len(q) /\ j \in 1..Len(q)
    BY <1>1, <1>2, <1>4, <2>2 DEF FramesOnce
  <2>3. CASE i = Len(q) + 1 /\ j \in 1..Len(q)
    BY <1>1, <1>4, <2>1, <2>3
  <2>4. CASE j = Len(q) + 1 /\ i \in 1..Len(q)
    BY <1>1, <1>4, <2>1, <2>4
  <2> QED BY <1>2, <1>4, <2>2, <2>3, <2>4
<1>5. FramesOnce(q) /\ (x \in Frames => x \notin Range(q)) => FramesOnce(Append(q, x))
  BY <1>2, <1>4 DEF FramesOnce
<1>6. Append(q, x) # <<>>
  BY <1>1, <1>2, EmptySeq
<1> QED BY <1>1, <1>3, <1>5, <1>6

\* What is left of a sequence from its m-th element on.
LEMMA CutHolds ==
  ASSUME NEW S, NEW q \in Seq(S), NEW m \in 1..(Len(q) + 1)
  PROVE  /\ SubSeq(q, m, Len(q)) \in Seq(S)
         /\ Len(SubSeq(q, m, Len(q))) = Len(q) - m + 1
         /\ \A i \in 1..(Len(q) - m + 1) : SubSeq(q, m, Len(q))[i] = q[m + i - 1]
         /\ Range(SubSeq(q, m, Len(q))) \subseteq Range(q)
         /\ \A i \in m..Len(q) : q[i] \in Range(SubSeq(q, m, Len(q)))
         /\ FramesOnce(q) => FramesOnce(SubSeq(q, m, Len(q)))
<1>1. Len(q) \in Nat /\ DOMAIN q = 1..Len(q) /\ \A i \in 1..Len(q) : q[i] \in S
  BY LenProperties, ElementOfSeq
<1>2. PICK r : r = SubSeq(q, m, Len(q))
  OBVIOUS
<1>3. /\ r \in Seq(S)
      /\ Len(r) = Len(q) - m + 1
      /\ \A i \in 1..(Len(q) - m + 1) : r[i] = q[m + i - 1]
  <2>1. m \in Int /\ Len(q) \in Int
    BY <1>1
  <2>2. \A i \in m..Len(q) : q[i] \in S
    BY <1>1
  <2>3. /\ r \in Seq(S)
        /\ Len(r) = IF m <= Len(q) THEN Len(q) - m + 1 ELSE 0
        /\ \A i \in 1..(Len(q) - m + 1) : r[i] = q[m + i - 1]
    BY <1>2, <2>1, <2>2, SubSeqProperties
  <2>4. (IF m <= Len(q) THEN Len(q) - m + 1 ELSE 0) = Len(q) - m + 1
    BY <1>1
  <2> QED BY <2>3, <2>4
<1>4. DOMAIN r = 1..(Len(q) - m + 1)
  BY <1>1, <1>3, LenProperties
<1>5. \A i \in 1..(Len(q) - m + 1) : m + i - 1 \in 1..Len(q)
  BY <1>1
<1>6. Range(r) \subseteq Range(q)
  BY <1>1, <1>3, <1>4, <1>5 DEF Range
<1>7. ASSUME NEW i \in m..Len(q)  PROVE q[i] \in Range(r)
  <2>1. i - m + 1 \in 1..(Len(q) - m + 1) /\ m + (i - m + 1) - 1 = i
    BY <1>1
  <2>2. r[i - m + 1] = q[i]
    BY <1>3, <2>1
  <2> QED BY <1>4, <2>1, <2>2 DEF Range
<1>8. ASSUME FramesOnce(q)  PROVE FramesOnce(r)
  <2> SUFFICES ASSUME NEW i \in 1..(Len(q) - m + 1), NEW j \in 1..(Len(q) - m + 1),
                      r[i] = r[j], r[i] \in Frames
               PROVE  i = j
    BY <1>4 DEF FramesOnce
  <2>1. q[m + i - 1] = q[m + j - 1] /\ q[m + i - 1] \in Frames
    BY <1>3
  <2>2. m + i - 1 = m + j - 1
    BY <1>1, <1>5, <1>8, <2>1 DEF FramesOnce
  <2> QED BY <1>1, <2>2
<1> QED BY <1>2, <1>3, <1>6, <1>7, <1>8

\* Taking the head leaves the others.
LEMMA TailHolds ==
  ASSUME NEW S, NEW q \in Seq(S), q # <<>>
  PROVE  /\ Head(q) \in S
         /\ Head(q) \in Range(q)
         /\ Tail(q) \in Seq(S)
         /\ Len(Tail(q)) = Len(q) - 1
         /\ Len(q) = 1 <=> Tail(q) = <<>>
         /\ Range(q) = Range(Tail(q)) \cup {Head(q)}
         /\ FramesOnce(q) => /\ FramesOnce(Tail(q))
                             /\ Head(q) \in Frames => Head(q) \notin Range(Tail(q))
<1>1. /\ Head(q) \in S
      /\ Tail(q) \in Seq(S)
      /\ Len(Tail(q)) = Len(q) - 1
      /\ \A i \in 1..Len(Tail(q)) : Tail(q)[i] = q[i + 1]
  BY HeadTailProperties
<1>2. /\ Len(q) \in Nat \ {0}
      /\ DOMAIN q = 1..Len(q)
      /\ DOMAIN Tail(q) = 1..(Len(q) - 1)
      /\ Head(q) = q[1]
  BY <1>1, LenProperties, EmptySeq
<1>3. \A i \in 1..(Len(q) - 1) : i + 1 \in 1..Len(q) /\ Tail(q)[i] = q[i + 1]
  BY <1>1, <1>2
<1>4. Range(q) = Range(Tail(q)) \cup {Head(q)}
  <2>1. ASSUME NEW i \in 1..Len(q)  PROVE q[i] \in Range(Tail(q)) \cup {Head(q)}
    <3>1. CASE i = 1
      BY <1>2, <3>1
    <3>2. CASE i # 1
      <4>1. i - 1 \in 1..(Len(q) - 1) /\ (i - 1) + 1 = i
        BY <1>2, <3>2
      <4>2. Tail(q)[i - 1] = q[i]
        BY <1>3, <4>1
      <4> QED BY <1>2, <4>1, <4>2 DEF Range
    <3> QED BY <3>1, <3>2
  <2>2. Range(Tail(q)) \cup {Head(q)} \subseteq Range(q)
    BY <1>2, <1>3 DEF Range
  <2> QED BY <1>2, <2>1, <2>2 DEF Range
<1>5. Len(q) = 1 <=> Tail(q) = <<>>
  <2>1. Len(Tail(q)) = 0 <=> Tail(q) = <<>>
    BY <1>1, EmptySeq
  <2> QED BY <1>1, <1>2, <2>1
<1>6. ASSUME FramesOnce(q)
      PROVE  FramesOnce(Tail(q)) /\ (Head(q) \in Frames => Head(q) \notin Range(Tail(q)))
  <2>1. \A i, j \in 1..Len(q) : q[i] = q[j] /\ q[i] \in Frames => i = j
    BY <1>2, <1>6 DEF FramesOnce
  <2>2. ASSUME NEW i \in 1..(Len(q) - 1), NEW j \in 1..(Len(q) - 1),
               Tail(q)[i] = Tail(q)[j], Tail(q)[i] \in Frames
        PROVE  i = j
    <3>1. i + 1 = j + 1
      BY <1>3, <2>1, <2>2
    <3> QED BY <3>1
  <2>3. ASSUME NEW i \in 1..(Len(q) - 1), Tail(q)[i] = Head(q), Head(q) \in Frames
        PROVE  FALSE
    <3>1. i + 1 = 1
      BY <1>2, <1>3, <2>1, <2>3
    <3> QED BY <3>1
  <2>4. FramesOnce(Tail(q))
    BY <1>2, <2>2 DEF FramesOnce
  <2> QED BY <1>2, <2>3, <2>4 DEF Range
<1> QED BY <1>1, <1>2, <1>4, <1>5, <1>6

\* A queue that is one too long loses its oldest frame.
LEMMA NewestHolds ==
  ASSUME NEW S, NEW t \in Seq(S), Len(t) <= MaxQueued + 1, FramesOnce(t)
  PROVE  /\ Kept(t) \in Seq(S)
         /\ Len(Kept(t)) <= MaxQueued
         /\ Range(Kept(t)) \subseteq Range(t)
         /\ \A i \in 1..Len(t) : t[i] \in Range(Kept(t)) \/ (Len(t) = MaxQueued + 1 /\ i = 1)
         /\ FramesOnce(Kept(t))
<1>1. /\ Len(t) \in Nat /\ MaxQueued \in Nat \ {0}
      /\ DOMAIN t = 1..Len(t)
  BY LenProperties, RelayAssumption
<1>2. CASE Len(t) <= MaxQueued
  <2>1. ~(Len(t) > MaxQueued)
    BY <1>1, <1>2
  <2>2. Kept(t) = t
    BY <2>1 DEF Kept
  <2>3. \A i \in 1..Len(t) : t[i] \in Range(t)
    BY <1>1 DEF Range
  <2> QED BY <1>2, <2>2, <2>3
<1>3. CASE Len(t) = MaxQueued + 1
  <2>1. Len(t) > MaxQueued /\ Len(t) - MaxQueued + 1 = 2 /\ 2 \in 1..(Len(t) + 1)
    BY <1>1, <1>3
  <2>2. Kept(t) = SubSeq(t, 2, Len(t))
    BY <2>1 DEF Kept
  <2>3. /\ Kept(t) \in Seq(S)
        /\ Len(Kept(t)) = Len(t) - 2 + 1
        /\ Range(Kept(t)) \subseteq Range(t)
        /\ \A i \in 2..Len(t) : t[i] \in Range(Kept(t))
        /\ FramesOnce(Kept(t))
    BY <2>1, <2>2, CutHolds
  <2>4. \A i \in 1..Len(t) : i # 1 => i \in 2..Len(t)
    BY <1>1
  <2>5. Len(t) - 2 + 1 <= MaxQueued
    <3>1. \A n, m \in Nat : n = m + 1 => n - 2 + 1 <= m
      OBVIOUS
    <3> QED BY <1>1, <1>3, <3>1
  <2> QED BY <1>3, <2>3, <2>4, <2>5
<1>4. \/ Len(t) <= MaxQueued
      \/ Len(t) = MaxQueued + 1
  <2>1. \A n, m \in Nat : n <= m + 1 => n <= m \/ n = m + 1
    OBVIOUS
  <2> QED BY <1>1, <2>1
<1> QED BY <1>2, <1>3, <1>4

\* All that enqueue does to a queue q before it stores it as r: it cuts what is
\* too old, appends x, and keeps the newest.
LEMMA QueueHolds ==
  ASSUME NEW S, NEW q \in Seq(S), Len(q) <= MaxQueued, FramesOnce(q),
         NEW k \in 0..Len(q), NEW x \in S, x \notin Range(q),
         NEW r, r = Kept(Append(SubSeq(q, k + 1, Len(q)), x))
  PROVE  /\ r \in Seq(S)
         /\ Len(r) <= MaxQueued
         /\ Range(r) \subseteq Range(q) \cup {x}
         /\ x \in Range(r)
         /\ \A i \in (k + 1)..Len(q) :
              q[i] \in Range(r) \/ (Len(q) = MaxQueued /\ i = 1)
         /\ FramesOnce(r)
<1>1. /\ Len(q) \in Nat /\ MaxQueued \in Nat \ {0}
      /\ k + 1 \in 1..(Len(q) + 1)
  BY LenProperties, RelayAssumption
<1>2. PICK m \in 1..(Len(q) + 1) : m = k + 1
  BY <1>1
<1>3. PICK s : s = SubSeq(q, m, Len(q))
  OBVIOUS
<1>4. /\ s \in Seq(S)
      /\ Len(s) = Len(q) - m + 1
      /\ \A i \in 1..(Len(q) - m + 1) : s[i] = q[m + i - 1]
      /\ Range(s) \subseteq Range(q)
      /\ FramesOnce(s)
  BY <1>3, CutHolds
<1>5. PICK t : t = Append(s, x)
  OBVIOUS
<1>6. /\ t \in Seq(S)
      /\ Len(t) = Len(s) + 1
      /\ Range(t) = Range(s) \cup {x}
      /\ FramesOnce(t)
  <2>1. x \notin Range(s)
    BY <1>4
  <2> QED BY <1>4, <1>5, <2>1, AppendHolds
<1>7. /\ \A i \in 1..Len(s) : t[i] = s[i]
      /\ t[Len(s) + 1] = x
  <2>1. s \in Seq(S)
    BY <1>4
  <2>2. /\ \A i \in 1..Len(s) : Append(s, x)[i] = s[i]
        /\ Append(s, x)[Len(s) + 1] = x
    BY <2>1, AppendProperties
  <2> QED BY <1>5, <2>2
<1>8. Len(t) \in Nat /\ Len(t) <= MaxQueued + 1 /\ Len(s) \in Nat
  BY <1>1, <1>4, <1>6
<1>9. /\ r \in Seq(S)
      /\ Len(r) <= MaxQueued
      /\ Range(r) \subseteq Range(t)
      /\ \A i \in 1..Len(t) : t[i] \in Range(r) \/ (Len(t) = MaxQueued + 1 /\ i = 1)
      /\ FramesOnce(r)
  <2>1. r = Kept(t)
    BY <1>2, <1>3, <1>5
  <2> QED BY <1>6, <1>8, <2>1, NewestHolds
<1>10. Range(r) \subseteq Range(q) \cup {x}
  BY <1>4, <1>6, <1>9
<1>11. x \in Range(r)
  <2>1. Len(s) + 1 \in 1..Len(t) /\ ~(Len(t) = MaxQueued + 1 /\ Len(s) + 1 = 1)
    BY <1>1, <1>6, <1>8
  <2> QED BY <1>7, <1>9, <2>1
<1>12. ASSUME NEW i \in m..Len(q)
       PROVE  q[i] \in Range(r) \/ (Len(q) = MaxQueued /\ i = 1)
  <2>1. i - m + 1 \in 1..(Len(q) - m + 1) /\ m + (i - m + 1) - 1 = i
    BY <1>1
  <2>2. s[i - m + 1] = q[i] /\ i - m + 1 \in 1..Len(s)
    BY <1>4, <2>1
  <2>3. t[i - m + 1] = q[i] /\ i - m + 1 \in 1..Len(t)
    BY <1>6, <1>7, <1>8, <2>2
  <2>4. t[i - m + 1] \in Range(r) \/ (Len(t) = MaxQueued + 1 /\ i - m + 1 = 1)
    BY <1>9, <2>3
  <2>5. Len(t) = MaxQueued + 1 /\ i - m + 1 = 1 => Len(q) = MaxQueued /\ i = 1
    BY <1>1, <1>4, <1>6
  <2> QED BY <2>3, <2>4, <2>5
<1> QED BY <1>2, <1>9, <1>10, <1>11, <1>12

(***************************************************************************)
(* The first inductive invariant: the program counter of a handler and of  *)
(* a writer tells what they hold, and the registry is current.             *)
(***************************************************************************)
HandlerShape ==
  \A c \in Conns :
    /\ pc[c] \in {"deliver", "enqueue"} => hand[c] \in Frames /\ To[hand[c]] \in Nodes
    /\ pc[c] \notin {"deliver", "enqueue"} => hand[c] = None
    /\ pc[c] = "deliver" => target[c] \in Conns /\ Of[target[c]] = To[hand[c]]
    /\ pc[c] # "deliver" => target[c] = None
    /\ pc[c] = "flush" <=> backlog[c] # <<>>
    /\ pc[c] = "free" => closed[c]

WriterShape ==
  \A c \in Conns : IF writer[c] = "busy" THEN message[c] # None ELSE message[c] = None

Sound == TypeOK /\ HandlerShape /\ WriterShape /\ RegistryIsCurrent

(***************************************************************************)
(* The second one: a frame that has not been written is nowhere, and one   *)
(* that has been is in at most one place, once, under the name it is       *)
(* addressed to.                                                           *)
(***************************************************************************)
Kinds == {"unwritten", "uplink", "hand", "backlog", "buffer", "writer", "queue", "client"}
Owners == Nodes \cup Conns \cup {None}

\* Frame f is in the place of kind k that belongs to x.
In(f, k, x) ==
  \/ k = "unwritten" /\ x = None /\ f > written
  \/ k = "uplink" /\ x \in Conns /\ f \in Range(uplink[x])
  \/ k = "hand" /\ x \in Conns /\ f = hand[x]
  \/ k = "backlog" /\ x \in Conns /\ f \in Range(backlog[x])
  \/ k = "buffer" /\ x \in Conns /\ f \in Range(send[x])
  \/ k = "writer" /\ x \in Conns /\ f = message[x]
  \/ k = "queue" /\ x \in Nodes /\ f \in Range(queues[x])
  \/ k = "client" /\ x \in Nodes /\ f \in Range(received[x])

OnePlace ==
  \A f \in Frames, k, l \in Kinds, x, y \in Owners :
    In(f, k, x) /\ In(f, l, y) => k = l /\ x = y

\* What the place says of a frame's addressee.
Fits(f, k, x) ==
  /\ k \in {"backlog", "buffer", "writer"} => To[f] = Of[x]
  /\ k \in {"queue", "client"} => To[f] = x

Addressed == \A f \in Frames, k \in Kinds, x \in Owners : In(f, k, x) => Fits(f, k, x)

NoRepeats ==
  /\ \A n \in Nodes : FramesOnce(queues[n]) /\ FramesOnce(received[n])
  /\ \A c \in Conns : FramesOnce(uplink[c]) /\ FramesOnce(backlog[c]) /\ FramesOnce(send[c])

Tracked == OnePlace /\ Addressed /\ NoRepeats

(***************************************************************************)
(* The first invariant holds.                                              *)
(***************************************************************************)
LEMMA Constants ==
  /\ None \notin Nodes /\ None \notin Conns /\ None \notin Frames
  /\ Ctl \notin Frames /\ Ctl # None
  /\ Len(To) \in Nat /\ Frames = 1..Len(To)
  /\ \A f \in Frames : To[f] \in Nodes \cup {None}
  /\ \A c \in Conns : Of[c] \in Nodes
  /\ SendCap \in Nat \ {0} /\ MaxQueued \in Nat \ {0}
<1>1. Len(To) \in Nat /\ DOMAIN To = 1..Len(To)
  BY RelayAssumption, LenProperties
<1>2. \A f \in Frames : To[f] \in Nodes \cup {None}
  BY <1>1, RelayAssumption, ElementOfSeq DEF Frames
<1> QED BY <1>1, <1>2, RelayAssumption DEF Frames

LEMMA SoundInit == Init => Sound
<1> SUFFICES ASSUME Init  PROVE Sound
  OBVIOUS
<1>1. TypeOK
  BY Constants, EmptyHolds DEF Init, TypeOK, Serving
<1> QED BY <1>1, Constants
        DEF Init, Sound, HandlerShape, WriterShape, RegistryIsCurrent, Serving

\* The steps of the clients and of the network.
LEMMA SoundClient ==
  ASSUME Sound, NEW c \in Conns,
         ClientWrites(c) \/ GoesSilent(c) \/ IsCut(c)
  PROVE  Sound'
<1> USE Constants DEF Sound, registry, handler, buffer, network
<1>1. CASE ClientWrites(c)
  <2>1. written + 1 \in Frames
    BY <1>1 DEF ClientWrites, TypeOK
  <2>2. uplink' \in [Conns -> Seq(Frames)]
    BY <1>1, <2>1, AppendHolds DEF ClientWrites, TypeOK
  <2>3. /\ written' \in 0..Len(To)
        /\ UNCHANGED <<registry, handler, buffer, socket, received>>
    BY <1>1 DEF ClientWrites, TypeOK
  <2>4. TypeOK'
    BY <2>2, <2>3 DEF TypeOK
  <2> QED BY <2>3, <2>4 DEF HandlerShape, WriterShape, RegistryIsCurrent, Serving
<1>2. CASE GoesSilent(c)
  <2>1. TypeOK'
    BY <1>2 DEF GoesSilent, TypeOK
  <2> QED BY <1>2, <2>1 DEF GoesSilent, HandlerShape, WriterShape, RegistryIsCurrent, Serving
<1>3. CASE IsCut(c)
  <2>1. TypeOK'
    BY <1>3 DEF IsCut, TypeOK
  <2> QED BY <1>3, <2>1 DEF IsCut, HandlerShape, WriterShape, RegistryIsCurrent, Serving
<1> QED BY <1>1, <1>2, <1>3

\* A connection replaces the one that was registered, and closes it.
LEMMA SoundConnect ==
  ASSUME Sound, NEW c \in Conns, Connect(c)
  PROVE  Sound'
<1> USE Constants DEF Sound
<1>0. Of[c] \in Nodes
  OBVIOUS
<1>1. /\ links' = [links EXCEPT ![Of[c]] = c]
      /\ backlog' = [backlog EXCEPT ![c] = queues[Of[c]]]
      /\ queues' = [queues EXCEPT ![Of[c]] = <<>>]
      /\ expired' = expired \ Range(queues[Of[c]])
      /\ closed' = [d \in Conns |-> d # c /\ (closed[d] \/ d = links[Of[c]])]
      /\ socket' = [d \in Conns |-> IF d = c THEN "up"
                                    ELSE IF d = links[Of[c]] THEN "cut" ELSE socket[d]]
      /\ send' = [send EXCEPT ![c] = <<>>]
      /\ writer' = [writer EXCEPT ![c] = "idle"]
      /\ pc' = [pc EXCEPT ![c] = IF queues[Of[c]] = <<>> THEN "read" ELSE "flush"]
      /\ pc[c] = "free" /\ writer[c] = "gone"
      /\ \A d \in Conns : target[d] # c
      /\ UNCHANGED <<hand, target, message, uplink, written, received>>
  BY DEF Connect, QueueLeft, Closes, AfterConnect
<1>2. TypeOK'
  <2>1. queues' \in [Nodes -> Seq(Frames)] /\ \A n \in Nodes : Len(queues'[n]) <= MaxQueued
    BY <1>0, <1>1, EmptyHolds DEF TypeOK
  <2>2. send' \in [Conns -> Seq(Frames \cup {Ctl})] /\ \A d \in Conns : Len(send'[d]) <= SendCap
    <3>1. send \in [Conns -> Seq(Frames \cup {Ctl})] /\ \A d \in Conns : Len(send[d]) <= SendCap
      BY DEF TypeOK
    <3>2. <<>> \in Seq(Frames \cup {Ctl}) /\ Len(<<>>) <= SendCap
      BY EmptyHolds
    <3> QED BY <1>1, <3>1, <3>2
  <2>3. /\ closed' \in [Conns -> BOOLEAN]
        /\ socket' \in [Conns -> {"up", "silent", "cut"}]
    BY <1>1 DEF TypeOK
  <2>4. /\ links' \in [Nodes -> Conns \cup {None}]
        /\ backlog' \in [Conns -> Seq(Frames)]
        /\ pc' \in [Conns -> Serving \cup {"free", "unregister", "close"}]
        /\ writer' \in [Conns -> {"idle", "busy", "gone"}]
        /\ expired' \subseteq Frames
    BY <1>0, <1>1 DEF TypeOK, Serving
  <2> QED BY <1>1, <2>1, <2>2, <2>3, <2>4 DEF TypeOK
<1>3. HandlerShape'
  BY <1>0, <1>1 DEF TypeOK, HandlerShape, Serving
<1>4. WriterShape'
  BY <1>1 DEF TypeOK, WriterShape
<1>5. RegistryIsCurrent'
  <2>1. ASSUME NEW n \in Nodes, links'[n] # None
        PROVE  /\ Of[links'[n]] = n
               /\ ~closed'[links'[n]]
               /\ pc'[links'[n]] \in Serving \cup {"unregister"}
    <3>1. CASE n = Of[c]
      BY <1>1, <3>1 DEF TypeOK, Serving
    <3>2. CASE n # Of[c]
      <4>1. PICK d \in Conns : d = links[n] /\ links'[n] = d
        BY <1>0, <1>1, <2>1, <3>2 DEF TypeOK
      <4>2. Of[d] = n /\ ~closed[d] /\ pc[d] \in Serving \cup {"unregister"}
        BY <2>1, <4>1 DEF RegistryIsCurrent
      <4>3. d # c /\ d # links[Of[c]]
        BY <1>0, <3>2, <4>2 DEF RegistryIsCurrent
      <4>4. ~closed'[d] /\ pc'[d] = pc[d]
        BY <1>1, <4>2, <4>3 DEF TypeOK
      <4> QED BY <4>1, <4>2, <4>4
    <3> QED BY <3>1, <3>2
  <2>2. ASSUME NEW d \in Conns, pc'[d] \in Serving, ~closed'[d]
        PROVE  links'[Of[d]] = d
    <3>1. CASE d = c
      BY <1>0, <1>1, <3>1 DEF TypeOK
    <3>2. CASE d # c
      <4>1. pc[d] \in Serving /\ ~closed[d] /\ d # links[Of[c]]
        BY <1>1, <2>2, <3>2 DEF TypeOK
      <4>2. links[Of[d]] = d /\ Of[d] # Of[c]
        BY <4>1 DEF RegistryIsCurrent
      <4> QED BY <1>0, <1>1, <4>2 DEF TypeOK
    <3> QED BY <3>1, <3>2
  <2> QED BY <2>1, <2>2 DEF RegistryIsCurrent
<1> QED BY <1>2, <1>3, <1>4, <1>5

\* A message is put into a buffer that has room.
LEMMA BufferGrows ==
  ASSUME TypeOK, NEW d \in Conns, HasRoom(d), NEW x \in Frames \cup {Ctl},
         send' = [send EXCEPT ![d] = Append(@, x)]
  PROVE  /\ send' \in [Conns -> Seq(Frames \cup {Ctl})]
         /\ \A c \in Conns : Len(send'[c]) <= SendCap
<1>1. send[d] \in Seq(Frames \cup {Ctl}) /\ Len(send[d]) < SendCap
  BY DEF TypeOK, HasRoom
<1>2. /\ Append(send[d], x) \in Seq(Frames \cup {Ctl})
      /\ Len(Append(send[d], x)) = Len(send[d]) + 1
  BY <1>1, AppendHolds
<1>3. Len(send[d]) + 1 <= SendCap
  BY <1>1, Constants, LenProperties
<1> QED BY <1>2, <1>3 DEF TypeOK

\* The handler's own steps: what it flushes and reads, and how it ends.
LEMMA SoundFlush ==
  ASSUME Sound, NEW c \in Conns, Flush(c)
  PROVE  Sound'
<1> USE Constants DEF Sound, registry, network
<1>1. backlog[c] \in Seq(Frames) /\ backlog[c] # <<>>
  BY DEF Flush, HandlerShape, TypeOK
<1>2. /\ Head(backlog[c]) \in Frames
      /\ Tail(backlog[c]) \in Seq(Frames)
      /\ Len(backlog[c]) = 1 <=> Tail(backlog[c]) = <<>>
  BY <1>1, TailHolds
<1>3. send' \in [Conns -> Seq(Frames \cup {Ctl})] /\ \A d \in Conns : Len(send'[d]) <= SendCap
  BY <1>2, BufferGrows DEF Flush, TypeOK
<1>4. TypeOK'
  BY <1>2, <1>3 DEF Flush, TypeOK, Serving
<1>5. HandlerShape'
  <2>1. /\ pc[c] = "flush"
        /\ pc' = [pc EXCEPT ![c] = IF Tail(backlog[c]) = <<>> THEN "read" ELSE "flush"]
        /\ backlog' = [backlog EXCEPT ![c] = Tail(backlog[c])]
        /\ UNCHANGED <<hand, target, closed>>
    BY <1>2 DEF Flush, TypeOK
  <2>2. /\ pc'[c] = (IF Tail(backlog[c]) = <<>> THEN "read" ELSE "flush")
        /\ backlog'[c] = Tail(backlog[c])
        /\ hand'[c] = None /\ target'[c] = None
    BY <2>1 DEF TypeOK, HandlerShape
  <2>3. \A d \in Conns \ {c} : pc'[d] = pc[d] /\ backlog'[d] = backlog[d]
    BY <2>1 DEF TypeOK
  <2>4. ASSUME NEW d \in Conns
        PROVE  (pc'[d] = "flush" <=> backlog'[d] # <<>>) /\ (pc'[d] = "free" => closed'[d])
    <3>1. CASE d = c
      BY <2>2, <3>1
    <3>2. CASE d # c
      BY <2>1, <2>3, <3>2 DEF HandlerShape
    <3> QED BY <3>1, <3>2
  <2> QED BY <2>1, <2>2, <2>3, <2>4 DEF HandlerShape
<1>6. WriterShape' /\ RegistryIsCurrent'
  BY DEF Flush, TypeOK, WriterShape, RegistryIsCurrent, Serving
<1> QED BY <1>4, <1>5, <1>6

LEMMA SoundRead ==
  ASSUME Sound, NEW c \in Conns, ReadFrame(c)
  PROVE  Sound'
<1> USE Constants DEF Sound, registry, buffer
<1>1. uplink[c] \in Seq(Frames) /\ uplink[c] # <<>>
  BY DEF ReadFrame, TypeOK
<1>2. PICK f \in Frames : f = Head(uplink[c]) /\ Tail(uplink[c]) \in Seq(Frames)
  BY <1>1, TailHolds
<1>3. PICK peer \in Conns \cup {None} :
        /\ peer = IF To[f] = None THEN None ELSE links[To[f]]
        /\ peer # None => To[f] # None /\ Of[peer] = To[f]
  BY DEF RegistryIsCurrent, TypeOK
<1>4. /\ hand' = [hand EXCEPT ![c] = IF To[f] = None THEN None ELSE f]
      /\ target' = [target EXCEPT ![c] = peer]
      /\ pc' = [pc EXCEPT ![c] = IF To[f] = None THEN "ctl"
                                 ELSE IF peer # None THEN "deliver" ELSE "enqueue"]
      /\ uplink' = [uplink EXCEPT ![c] = Tail(@)]
      /\ pc[c] = "read"
      /\ UNCHANGED <<registry, backlog, buffer, socket, written, received>>
  BY <1>2, <1>3 DEF ReadFrame
<1>5. TypeOK'
  BY <1>2, <1>4 DEF TypeOK, Serving
<1>6. HandlerShape'
  <2>1. /\ pc'[c] = (IF To[f] = None THEN "ctl" ELSE IF peer # None THEN "deliver" ELSE "enqueue")
        /\ hand'[c] = (IF To[f] = None THEN None ELSE f)
        /\ target'[c] = peer
        /\ \A d \in Conns \ {c} : pc'[d] = pc[d] /\ hand'[d] = hand[d] /\ target'[d] = target[d]
    BY <1>4 DEF TypeOK
  <2>2. To[f] # None => To[f] \in Nodes
    OBVIOUS
  <2>3. backlog[c] = <<>> /\ UNCHANGED <<backlog, closed>>
    BY <1>4 DEF HandlerShape
  <2>4. CASE To[f] = None
    BY <1>3, <2>1, <2>3, <2>4 DEF HandlerShape
  <2>5. CASE To[f] # None /\ peer # None
    BY <1>3, <2>1, <2>2, <2>3, <2>5 DEF HandlerShape
  <2>6. CASE To[f] # None /\ peer = None
    BY <1>3, <2>1, <2>2, <2>3, <2>6 DEF HandlerShape
  <2> QED BY <2>4, <2>5, <2>6
<1>7. WriterShape' /\ RegistryIsCurrent'
  BY <1>4 DEF TypeOK, WriterShape, RegistryIsCurrent, Serving
<1> QED BY <1>5, <1>6, <1>7

LEMMA SoundEnd ==
  ASSUME Sound, NEW c \in Conns, ReadFails(c) \/ Unregister(c) \/ Close(c)
  PROVE  Sound'
<1> USE Constants DEF Sound, registry, buffer, network
<1>1. CASE ReadFails(c)
  <2>1. TypeOK' /\ HandlerShape'
    BY <1>1 DEF ReadFails, TypeOK, HandlerShape, Serving
  <2> QED BY <1>1, <2>1 DEF ReadFails, TypeOK, WriterShape, RegistryIsCurrent, Serving
<1>2. CASE Unregister(c)
  <2>1. PICK n \in Nodes : n = Of[c]
    OBVIOUS
  <2>2. /\ links' = [links EXCEPT ![n] = IF links[n] = c THEN None ELSE links[n]]
        /\ pc[c] = "unregister"
        /\ pc' = [pc EXCEPT ![c] = "close"]
        /\ UNCHANGED <<queues, expired, hand, target, backlog, buffer, network>>
    BY <1>2, <2>1 DEF Unregister, LinkLeft
  <2>3. TypeOK'
    BY <2>2 DEF TypeOK, Serving
  <2>4. HandlerShape' /\ WriterShape'
    BY <2>2 DEF TypeOK, HandlerShape, WriterShape
  <2>5. ASSUME NEW m \in Nodes, links'[m] # None
        PROVE  links'[m] = links[m] /\ links[m] # c
    BY <2>1, <2>2, <2>5 DEF TypeOK, RegistryIsCurrent
  <2>6. ASSUME NEW d \in Conns, d # c, links[Of[d]] = d  PROVE links'[Of[d]] = d
    BY <2>2, <2>6 DEF TypeOK
  <2>7. pc'[c] = "close" /\ \A d \in Conns \ {c} : pc'[d] = pc[d]
    BY <2>2 DEF TypeOK
  <2>8. ASSUME NEW m \in Nodes, links'[m] # None
        PROVE  /\ Of[links'[m]] = m
               /\ ~closed'[links'[m]]
               /\ pc'[links'[m]] \in Serving \cup {"unregister"}
    <3>1. links[m] \in Conns \ {c}
      BY <2>5, <2>8 DEF TypeOK
    <3> QED BY <2>2, <2>5, <2>7, <2>8, <3>1 DEF RegistryIsCurrent
  <2>9. ASSUME NEW d \in Conns, pc'[d] \in Serving, ~closed'[d]  PROVE links'[Of[d]] = d
    <3>1. d # c
      BY <2>7, <2>9 DEF Serving
    <3> QED BY <2>2, <2>6, <2>7, <2>9, <3>1 DEF RegistryIsCurrent
  <2> QED BY <2>3, <2>4, <2>8, <2>9 DEF RegistryIsCurrent
<1>3. CASE Close(c)
  <2>1. TypeOK'
    BY <1>3, EmptyHolds DEF Close, TypeOK, Serving
  <2>2. HandlerShape' /\ WriterShape'
    BY <1>3 DEF Close, TypeOK, HandlerShape, WriterShape, Serving
  <2>3. /\ pc[c] = "close" /\ pc'[c] = "free"
        /\ \A d \in Conns \ {c} : pc'[d] = pc[d] /\ closed'[d] = closed[d]
        /\ UNCHANGED links
    BY <1>3 DEF Close, TypeOK
  <2>4. \A n \in Nodes : links[n] # c
    BY <2>3 DEF RegistryIsCurrent, Serving
  <2>5. \A n \in Nodes : links[n] # None => links[n] \in Conns
    BY DEF TypeOK
  <2>6. RegistryIsCurrent'
    BY <2>3, <2>4, <2>5 DEF RegistryIsCurrent, Serving
  <2> QED BY <2>1, <2>2, <2>6
<1> QED BY <1>1, <1>2, <1>3

\* A handler hands a frame over, to a link or to a queue, and tells its client.
LEMMA SoundRoute ==
  ASSUME Sound, NEW c \in Conns, Deliver(c) \/ SendCtl(c)
  PROVE  Sound'
<1> USE Constants DEF Sound, registry, network
<1>1. CASE Deliver(c)
  <2>1. hand[c] \in Frames /\ target[c] \in Conns
    BY <1>1 DEF Deliver, HandlerShape
  <2>2. send' \in [Conns -> Seq(Frames \cup {Ctl})] /\ \A d \in Conns : Len(send'[d]) <= SendCap
    BY <1>1, <2>1, BufferGrows DEF Deliver, TypeOK
  <2>3. TypeOK'
    BY <1>1, <2>2 DEF Deliver, TypeOK, Serving
  <2>4. WriterShape'
    BY <1>1 DEF Deliver, WriterShape
  <2>5. HandlerShape'
    BY <1>1 DEF Deliver, TypeOK, HandlerShape, Serving
  <2>6. RegistryIsCurrent'
    <3>1. \A d \in Conns : pc'[d] = pc[d] \/ (d = c /\ {pc[d], pc'[d]} \subseteq Serving)
      BY <1>1 DEF Deliver, TypeOK, Serving
    <3>2. \A m \in Nodes : links[m] # None => links[m] \in Conns
      BY DEF TypeOK
    <3>3. UNCHANGED <<links, closed>>
      BY <1>1 DEF Deliver
    <3> QED BY <3>1, <3>2, <3>3 DEF RegistryIsCurrent
  <2> QED BY <2>3, <2>4, <2>5, <2>6
<1>2. CASE SendCtl(c)
  <2>1. send' \in [Conns -> Seq(Frames \cup {Ctl})] /\ \A d \in Conns : Len(send'[d]) <= SendCap
    BY <1>2, BufferGrows DEF SendCtl, TypeOK
  <2>2. TypeOK'
    BY <1>2, <2>1 DEF SendCtl, TypeOK, Serving
  <2>3. WriterShape'
    BY <1>2 DEF SendCtl, WriterShape
  <2>4. HandlerShape'
    BY <1>2 DEF SendCtl, TypeOK, HandlerShape, Serving
  <2>5. RegistryIsCurrent'
    <3>1. \A d \in Conns : pc'[d] = pc[d] \/ (d = c /\ {pc[d], pc'[d]} \subseteq Serving)
      BY <1>2 DEF SendCtl, TypeOK, Serving
    <3>2. \A m \in Nodes : links[m] # None => links[m] \in Conns
      BY DEF TypeOK
    <3>3. UNCHANGED <<links, closed>>
      BY <1>2 DEF SendCtl
    <3> QED BY <3>1, <3>2, <3>3 DEF RegistryIsCurrent
  <2> QED BY <2>2, <2>3, <2>4, <2>5
<1> QED BY <1>1, <1>2

LEMMA SoundEnqueue ==
  ASSUME Sound, NoRepeats, NEW c \in Conns, hand[c] \notin Range(queues[To[hand[c]]]),
         Enqueue(c)
  PROVE  Sound'
<1> USE Constants DEF Sound, buffer, network
<1>1. PICK f \in Frames, n \in Nodes : f = hand[c] /\ n = To[f]
  BY DEF Enqueue, HandlerShape
<1>2. PICK k \in 0..Len(queues[n]) :
        queues' = [queues EXCEPT ![n] = Kept(Append(SubSeq(queues[n], k + 1, Len(queues[n])), f))]
  BY <1>1 DEF Enqueue, QueueOf
<1>3. PICK r : r = Kept(Append(SubSeq(queues[n], k + 1, Len(queues[n])), f))
  OBVIOUS
<1>4. r \in Seq(Frames) /\ Len(r) <= MaxQueued
  BY <1>1, <1>3, QueueHolds DEF TypeOK, NoRepeats
<1>5. /\ queues' = [queues EXCEPT ![n] = r]
      /\ expired' \subseteq expired
      /\ pc[c] = "enqueue"
      /\ pc' = [pc EXCEPT ![c] = "ctl"]
      /\ hand' = [hand EXCEPT ![c] = None]
      /\ UNCHANGED <<links, target, backlog, buffer, network>>
  BY <1>2, <1>3 DEF Enqueue
<1>6. TypeOK'
  BY <1>4, <1>5 DEF TypeOK, Serving
<1>7. HandlerShape' /\ WriterShape'
  <2>1. /\ pc'[c] = "ctl" /\ hand'[c] = None /\ target[c] = None /\ backlog[c] = <<>>
        /\ \A d \in Conns \ {c} : pc'[d] = pc[d] /\ hand'[d] = hand[d]
    BY <1>5 DEF TypeOK, HandlerShape
  <2> QED BY <1>5, <2>1 DEF HandlerShape, WriterShape
<1>8. RegistryIsCurrent'
  <2>1. \A d \in Conns : pc'[d] = pc[d] \/ (d = c /\ {pc[d], pc'[d]} \subseteq Serving)
    BY <1>5 DEF TypeOK, Serving
  <2>2. \A m \in Nodes : links[m] # None => links[m] \in Conns
    BY DEF TypeOK
  <2>3. UNCHANGED <<links, closed>>
    BY <1>5
  <2> QED BY <2>1, <2>2, <2>3 DEF RegistryIsCurrent
<1> QED BY <1>6, <1>7, <1>8

\* The steps of a writer.
LEMMA SoundWriter ==
  ASSUME Sound, NEW c \in Conns, WriterStep(c)
  PROVE  Sound'
<1> USE Constants DEF Sound, registry, handler, buffer, network
<1>1. CASE WriterTakes(c)
  <2>1. send[c] \in Seq(Frames \cup {Ctl}) /\ send[c] # <<>>
    BY <1>1 DEF WriterTakes, TypeOK
  <2>2. /\ Head(send[c]) \in Frames \cup {Ctl}
        /\ Tail(send[c]) \in Seq(Frames \cup {Ctl})
        /\ Len(Tail(send[c])) = Len(send[c]) - 1
        /\ Len(send[c]) \in Nat
    BY <2>1, TailHolds, LenProperties
  <2>3. send' \in [Conns -> Seq(Frames \cup {Ctl})] /\ \A d \in Conns : Len(send'[d]) <= SendCap
    BY <1>1, <2>2 DEF WriterTakes, TypeOK
  <2>4. TypeOK'
    BY <1>1, <2>2, <2>3 DEF WriterTakes, TypeOK
  <2>5. HandlerShape' /\ RegistryIsCurrent'
    BY <1>1 DEF WriterTakes, HandlerShape, RegistryIsCurrent, Serving
  <2>6. WriterShape'
    BY <1>1, <2>2 DEF WriterTakes, TypeOK, WriterShape
  <2> QED BY <2>4, <2>5, <2>6
<1>2. CASE WriterEnds(c)
  <2>1. TypeOK'
    BY <1>2 DEF WriterEnds, TypeOK
  <2> QED BY <1>2, <2>1
          DEF WriterEnds, TypeOK, HandlerShape, WriterShape, RegistryIsCurrent, Serving
<1>3. CASE Write(c)
  <2>1. received' \in [Nodes -> Seq(Frames)]
    <3>1. CASE socket[c] = "up" /\ message[c] # Ctl
      <4>1. message[c] \in Frames
        BY <1>3, <3>1 DEF Write, TypeOK, WriterShape
      <4>2. Append(received[Of[c]], message[c]) \in Seq(Frames)
        BY <4>1, AppendHolds DEF TypeOK
      <4> QED BY <1>3, <3>1, <4>2 DEF Write, TypeOK
    <3>2. CASE ~(socket[c] = "up" /\ message[c] # Ctl)
      BY <1>3, <3>2 DEF Write, TypeOK
    <3> QED BY <3>1, <3>2
  <2>2. TypeOK'
    BY <1>3, <2>1 DEF Write, TypeOK
  <2>3. WriterShape'
    BY <1>3 DEF Write, TypeOK, WriterShape
  <2> QED BY <1>3, <2>2, <2>3 DEF Write, HandlerShape, RegistryIsCurrent
<1>4. CASE WriteFails(c)
  <2>1. TypeOK'
    BY <1>4 DEF WriteFails, TypeOK
  <2>2. WriterShape'
    BY <1>4 DEF WriteFails, TypeOK, WriterShape
  <2> QED BY <1>4, <2>1, <2>2 DEF WriteFails, HandlerShape, RegistryIsCurrent
<1> QED BY <1>1, <1>2, <1>3, <1>4 DEF WriterStep

LEMMA SoundRelay ==
  ASSUME Sound, Restart \/ \E n \in Nodes : Expire(n)
  PROVE  Sound'
<1> USE Constants DEF Sound, handler, buffer, network
<1>1. CASE Restart
  <2>1. TypeOK'
    <3>1. /\ <<>> \in Seq(Frames) /\ <<>> \in Seq(Frames \cup {Ctl})
          /\ Len(<<>>) <= MaxQueued /\ Len(<<>>) <= SendCap
      BY EmptyHolds
    <3>2. /\ queues' \in [Nodes -> Seq(Frames)] /\ \A n \in Nodes : Len(queues'[n]) <= MaxQueued
          /\ backlog' \in [Conns -> Seq(Frames)] /\ uplink' \in [Conns -> Seq(Frames)]
      BY <1>1, <3>1 DEF Restart
    <3>3. send' \in [Conns -> Seq(Frames \cup {Ctl})] /\ \A c \in Conns : Len(send'[c]) <= SendCap
      BY <1>1, <3>1 DEF Restart
    <3>4. /\ links' \in [Nodes -> Conns \cup {None}] /\ expired' \subseteq Frames
          /\ hand' \in [Conns -> Frames \cup {None}] /\ target' \in [Conns -> Conns \cup {None}]
          /\ message' \in [Conns -> Frames \cup {Ctl, None}]
      BY <1>1 DEF Restart
    <3>5. /\ pc' \in [Conns -> Serving \cup {"free", "unregister", "close"}]
          /\ closed' \in [Conns -> BOOLEAN] /\ writer' \in [Conns -> {"idle", "busy", "gone"}]
          /\ socket' \in [Conns -> {"up", "silent", "cut"}]
      BY <1>1 DEF Restart
    <3>6. written' \in 0..Len(To) /\ received' \in [Nodes -> Seq(Frames)]
      BY <1>1 DEF Restart, TypeOK
    <3> QED BY <3>2, <3>3, <3>4, <3>5, <3>6 DEF TypeOK
  <2> QED BY <1>1, <2>1 DEF Restart, HandlerShape, WriterShape, RegistryIsCurrent, Serving
<1>2. ASSUME NEW n \in Nodes, Expire(n)  PROVE Sound'
  <2>1. \A i \in 1..Len(queues[n]) : queues[n][i] \in Frames
    BY ElementOfSeq DEF TypeOK
  <2>2. expired' \subseteq Frames
    BY <1>2, <2>1 DEF Expire, TypeOK
  <2>3. TypeOK'
    BY <1>2, <2>2 DEF Expire, TypeOK
  <2> QED BY <1>2, <2>3 DEF Expire, HandlerShape, WriterShape, RegistryIsCurrent
<1> QED BY <1>1, <1>2

(***************************************************************************)
(* The second invariant holds: a step moves frames from one place to       *)
(* another, or loses them.                                                 *)
(***************************************************************************)
\* The frames S move from the place of kind k of x to the one of kind l of y.
Moved(S, k, x, l, y) ==
  /\ \A f \in S : f \in Frames /\ In(f, k, x) /\ Fits(f, l, y)
  /\ \A f \in Frames, m \in Kinds, z \in Owners :
       In(f, m, z)' => \/ In(f, m, z) /\ ~(f \in S /\ m = k /\ z = x)
                       \/ f \in S /\ m = l /\ z = y

LEMMA Moves ==
  ASSUME OnePlace, Addressed, NEW S,
         NEW k0 \in Kinds, NEW x0 \in Owners, NEW k1 \in Kinds, NEW x1 \in Owners,
         Moved(S, k0, x0, k1, x1)
  PROVE  OnePlace' /\ Addressed'
<1>1. ASSUME NEW f \in S, NEW k \in Kinds, NEW x \in Owners, In(f, k, x)'
      PROVE  k = k1 /\ x = x1
  <2>1. f \in Frames /\ In(f, k0, x0)
    BY DEF Moved
  <2>2. CASE In(f, k, x) /\ ~(k = k0 /\ x = x0)
    BY <2>1, <2>2 DEF OnePlace
  <2> QED BY <1>1, <2>1, <2>2 DEF Moved
<1>2. ASSUME NEW f \in Frames, f \notin S, NEW k \in Kinds, NEW x \in Owners, In(f, k, x)'
      PROVE  In(f, k, x)
  BY <1>2 DEF Moved
<1>3. OnePlace'
  <2> SUFFICES ASSUME NEW f \in Frames, NEW k \in Kinds, NEW l \in Kinds,
                      NEW x \in Owners, NEW y \in Owners, In(f, k, x)', In(f, l, y)'
               PROVE  k = l /\ x = y
    BY DEF OnePlace
  <2>1. CASE f \in S
    BY <1>1, <2>1
  <2>2. CASE f \notin S
    BY <1>2, <2>2 DEF OnePlace
  <2> QED BY <2>1, <2>2
<1>4. Addressed'
  <2> SUFFICES ASSUME NEW f \in Frames, NEW k \in Kinds, NEW x \in Owners, In(f, k, x)'
               PROVE  Fits(f, k, x)
    BY DEF Addressed, Fits
  <2>1. CASE f \in S
    BY <1>1, <2>1 DEF Moved
  <2>2. CASE f \notin S
    BY <1>2, <2>2 DEF Addressed
  <2> QED BY <2>1, <2>2
<1> QED BY <1>3, <1>4

LEMMA Losses ==
  ASSUME OnePlace, Addressed,
         \A f \in Frames, k \in Kinds, x \in Owners : In(f, k, x)' => In(f, k, x)
  PROVE  OnePlace' /\ Addressed'
<1>1. OnePlace'
  BY DEF OnePlace
<1>2. Addressed'
  BY DEF Addressed, Fits
<1> QED BY <1>1, <1>2

LEMMA Places ==
  /\ \A c \in Conns : c \in Owners
  /\ \A n \in Nodes : n \in Owners
  /\ None \in Owners
  /\ Kinds = {"unwritten", "uplink", "hand", "backlog", "buffer", "writer", "queue", "client"}
BY DEF Owners, Kinds

LEMMA TrackedInit == Init => Tracked
<1> SUFFICES ASSUME Init  PROVE Tracked
  OBVIOUS
<1> USE Constants
<1>1. ASSUME NEW f \in Frames, NEW k \in Kinds, NEW x \in Owners, In(f, k, x)
      PROVE  k = "unwritten" /\ x = None
  BY <1>1, EmptyHolds DEF Init, In, Kinds
<1>2. OnePlace
  BY <1>1 DEF OnePlace
<1>3. Addressed
  BY <1>1 DEF Addressed, Fits
<1>4. NoRepeats
  BY EmptyHolds DEF Init, NoRepeats
<1> QED BY <1>2, <1>3, <1>4 DEF Tracked

\* A frame goes from the client to the relay.
LEMMA TrackedClientWrites ==
  ASSUME Sound, Tracked, NEW c \in Conns, ClientWrites(c)
  PROVE  Tracked'
<1> USE Constants, Places DEF Sound, Tracked
<1>1. PICK f \in Frames : f = written + 1 /\ written \in Nat
  BY DEF ClientWrites, TypeOK
<1>2. /\ written' = f
      /\ uplink' = [uplink EXCEPT ![c] = Append(uplink[c], f)]
      /\ UNCHANGED <<registry, handler, buffer, received>>
  BY <1>1 DEF ClientWrites
<1>3. In(f, "unwritten", None)
  BY <1>1 DEF In
<1>4. f \notin Range(uplink[c])
  BY <1>3 DEF OnePlace, In
<1>5. /\ Range(Append(uplink[c], f)) = Range(uplink[c]) \cup {f}
      /\ FramesOnce(Append(uplink[c], f))
  BY <1>4, AppendHolds DEF TypeOK, NoRepeats
<1>6. \A d \in Conns : uplink'[d] = IF d = c THEN Append(uplink[c], f) ELSE uplink[d]
  BY <1>2 DEF TypeOK
<1>7. \A g \in Frames : g > f => g > written /\ g # f
  BY <1>1
<1>8. ASSUME NEW g \in Frames, NEW k \in Kinds, NEW x \in Owners, In(g, k, x)'
      PROVE  \/ In(g, k, x) /\ ~(g = f /\ k = "unwritten" /\ x = None)
             \/ g = f /\ k = "uplink" /\ x = c
  BY <1>2, <1>5, <1>6, <1>7, <1>8 DEF In, registry, handler, buffer
<1>9. Fits(f, "uplink", c)
  BY DEF Fits
<1>10. Moved({f}, "unwritten", None, "uplink", c)
  BY <1>3, <1>8, <1>9 DEF Moved
<1>11. NoRepeats'
  BY <1>2, <1>5, <1>6 DEF NoRepeats, registry, handler, buffer
<1> QED BY <1>10, <1>11, Moves

\* A handler reads it.
LEMMA TrackedRead ==
  ASSUME Sound, Tracked, NEW c \in Conns, ReadFrame(c)
  PROVE  Tracked'
<1> USE Constants, Places DEF Sound, Tracked
<1>1. PICK f \in Frames : f = Head(uplink[c])
  BY TailHolds DEF ReadFrame, TypeOK
<1>2. /\ hand' = [hand EXCEPT ![c] = IF To[f] = None THEN None ELSE f]
      /\ uplink' = [uplink EXCEPT ![c] = Tail(uplink[c])]
      /\ hand[c] = None
      /\ UNCHANGED <<registry, backlog, buffer, socket, written, received>>
  BY <1>1 DEF ReadFrame, HandlerShape
<1>3. /\ f \in Range(uplink[c])
      /\ Range(Tail(uplink[c])) \subseteq Range(uplink[c])
      /\ f \notin Range(Tail(uplink[c]))
      /\ FramesOnce(Tail(uplink[c]))
  BY <1>1, TailHolds DEF ReadFrame, TypeOK, NoRepeats
<1>4. /\ \A d \in Conns : uplink'[d] = IF d = c THEN Tail(uplink[c]) ELSE uplink[d]
      /\ \A d \in Conns \ {c} : hand'[d] = hand[d]
      /\ hand'[c] \in {None, f}
  BY <1>2 DEF TypeOK
<1>5. ASSUME NEW g \in Frames, NEW k \in Kinds, NEW x \in Owners, In(g, k, x)'
      PROVE  \/ In(g, k, x) /\ ~(g = f /\ k = "uplink" /\ x = c)
             \/ g = f /\ k = "hand" /\ x = c
  BY <1>2, <1>3, <1>4, <1>5 DEF In, registry, buffer
<1>6. In(f, "uplink", c) /\ Fits(f, "hand", c)
  BY <1>3 DEF In, Fits
<1>7. Moved({f}, "uplink", c, "hand", c)
  BY <1>5, <1>6 DEF Moved
<1>8. NoRepeats'
  BY <1>2, <1>3, <1>4 DEF NoRepeats, registry, buffer
<1> QED BY <1>7, <1>8, Moves

\* A handler flushes the head of its backlog into its buffer, or drops it.
LEMMA TrackedFlush ==
  ASSUME Sound, Tracked, NEW c \in Conns, Flush(c)
  PROVE  Tracked'
<1> USE Constants, Places DEF Sound, Tracked
<1>1. backlog[c] \in Seq(Frames) /\ backlog[c] # <<>>
  BY DEF Flush, HandlerShape, TypeOK
<1>2. PICK f \in Frames : f = Head(backlog[c])
  BY <1>1, TailHolds
<1>3. /\ f \in Range(backlog[c])
      /\ Range(Tail(backlog[c])) \subseteq Range(backlog[c])
      /\ f \notin Range(Tail(backlog[c]))
      /\ FramesOnce(Tail(backlog[c]))
  BY <1>1, <1>2, TailHolds DEF NoRepeats
<1>4. /\ \A d \in Conns : backlog'[d] = IF d = c THEN Tail(backlog[c]) ELSE backlog[d]
      /\ UNCHANGED <<registry, hand, target, closed, writer, message, network>>
  BY DEF Flush, TypeOK
<1>5. In(f, "backlog", c) /\ Fits(f, "buffer", c)
  BY <1>3 DEF In, Fits, Addressed
<1>6. CASE send' = [send EXCEPT ![c] = Append(@, Head(backlog[c]))]
  <2>1. f \notin Range(send[c])
    BY <1>5 DEF OnePlace, In
  <2>2. /\ Range(Append(send[c], f)) = Range(send[c]) \cup {f}
        /\ FramesOnce(Append(send[c], f))
    BY <2>1, AppendHolds DEF TypeOK, NoRepeats
  <2>3. \A d \in Conns : send'[d] = IF d = c THEN Append(send[c], f) ELSE send[d]
    BY <1>2, <1>6 DEF TypeOK
  <2>4. ASSUME NEW g \in Frames, NEW k \in Kinds, NEW x \in Owners, In(g, k, x)'
        PROVE  \/ In(g, k, x) /\ ~(g = f /\ k = "backlog" /\ x = c)
               \/ g = f /\ k = "buffer" /\ x = c
    BY <1>3, <1>4, <2>2, <2>3, <2>4 DEF In, registry, network
  <2>5. Moved({f}, "backlog", c, "buffer", c)
    BY <1>5, <2>4 DEF Moved
  <2>6. NoRepeats'
    BY <1>3, <1>4, <2>2, <2>3 DEF NoRepeats, registry, network
  <2> QED BY <2>5, <2>6, Moves
<1>7. CASE UNCHANGED send
  <2>1. ASSUME NEW g \in Frames, NEW k \in Kinds, NEW x \in Owners, In(g, k, x)'
        PROVE  In(g, k, x)
    BY <1>3, <1>4, <1>7, <2>1 DEF In, registry, network
  <2>2. NoRepeats'
    BY <1>3, <1>4, <1>7 DEF NoRepeats, registry, network
  <2> QED BY <2>1, <2>2, Losses
<1> QED BY <1>6, <1>7 DEF Flush

\* A handler hands its frame to the link it has found, or drops it.
LEMMA TrackedDeliver ==
  ASSUME Sound, Tracked, NEW c \in Conns, Deliver(c)
  PROVE  Tracked'
<1> USE Constants, Places DEF Sound, Tracked
<1>1. PICK f \in Frames, d \in Conns : f = hand[c] /\ d = target[c] /\ Of[d] = To[f]
  BY DEF Deliver, HandlerShape
<1>2. /\ hand' = [hand EXCEPT ![c] = None]
      /\ \A e \in Conns : hand'[e] = IF e = c THEN None ELSE hand[e]
      /\ UNCHANGED <<registry, backlog, closed, writer, message, network>>
  BY DEF Deliver, TypeOK
<1>3. In(f, "hand", c) /\ Fits(f, "buffer", d)
  BY <1>1 DEF In, Fits
<1>4. CASE send' = [send EXCEPT ![target[c]] = Append(@, hand[c])]
  <2>1. f \notin Range(send[d])
    BY <1>3 DEF OnePlace, In
  <2>2. /\ Range(Append(send[d], f)) = Range(send[d]) \cup {f}
        /\ FramesOnce(Append(send[d], f))
    <3>1. send[d] \in Seq(Frames \cup {Ctl}) /\ f \in Frames \cup {Ctl} /\ FramesOnce(send[d])
      BY DEF TypeOK, NoRepeats
    <3> QED BY <2>1, <3>1, AppendHolds
  <2>3. \A e \in Conns : send'[e] = IF e = d THEN Append(send[d], f) ELSE send[e]
    BY <1>1, <1>4 DEF TypeOK
  <2>4. ASSUME NEW g \in Frames, NEW k \in Kinds, NEW x \in Owners, In(g, k, x)'
        PROVE  \/ In(g, k, x) /\ ~(g = f /\ k = "hand" /\ x = c)
               \/ g = f /\ k = "buffer" /\ x = d
    BY <1>2, <2>2, <2>3, <2>4 DEF In, registry, network
  <2>5. Moved({f}, "hand", c, "buffer", d)
    BY <1>3, <2>4 DEF Moved
  <2>6. NoRepeats'
    BY <1>2, <2>2, <2>3 DEF NoRepeats, registry, network
  <2> QED BY <2>5, <2>6, Moves
<1>5. CASE UNCHANGED send
  <2>1. ASSUME NEW g \in Frames, NEW k \in Kinds, NEW x \in Owners, In(g, k, x)'
        PROVE  In(g, k, x)
    BY <1>2, <1>5, <2>1 DEF In, registry, network
  <2>2. NoRepeats'
    BY <1>2, <1>5 DEF NoRepeats, registry, network
  <2> QED BY <2>1, <2>2, Losses
<1> QED BY <1>4, <1>5 DEF Deliver

\* What enqueue appends is not yet in the queue.
LEMMA HandIsNotQueued ==
  ASSUME Sound, Tracked, NEW c \in Conns, Enqueue(c)
  PROVE  /\ hand[c] \in Frames /\ To[hand[c]] \in Nodes
         /\ hand[c] \notin Range(queues[To[hand[c]]])
<1> USE Places DEF Sound, Tracked
<1>1. hand[c] \in Frames /\ To[hand[c]] \in Nodes
  BY DEF Enqueue, HandlerShape
<1>2. In(hand[c], "hand", c)
  BY DEF In
<1> QED BY <1>1, <1>2 DEF OnePlace, In

\* A handler queues its frame.
LEMMA TrackedEnqueue ==
  ASSUME Sound, Tracked, NEW c \in Conns, Enqueue(c)
  PROVE  Tracked'
<1> USE Constants, Places DEF Sound, Tracked
<1>1. PICK f \in Frames, n \in Nodes : f = hand[c] /\ n = To[f] /\ f \notin Range(queues[n])
  BY HandIsNotQueued
<1>2. PICK k \in 0..Len(queues[n]) :
        queues' = [queues EXCEPT ![n] = Kept(Append(SubSeq(queues[n], k + 1, Len(queues[n])), f))]
  BY <1>1 DEF Enqueue, QueueOf
<1>3. PICK r : r = Kept(Append(SubSeq(queues[n], k + 1, Len(queues[n])), f))
  OBVIOUS
<1>4. FramesOnce(r) /\ Range(r) \subseteq Range(queues[n]) \cup {f}
  BY <1>1, <1>3, QueueHolds DEF TypeOK, NoRepeats
<1>5. /\ \A m \in Nodes : queues'[m] = IF m = n THEN r ELSE queues[m]
      /\ \A e \in Conns : hand'[e] = IF e = c THEN None ELSE hand[e]
      /\ UNCHANGED <<links, target, backlog, buffer, network>>
  BY <1>2, <1>3 DEF Enqueue, TypeOK
<1>6. In(f, "hand", c) /\ Fits(f, "queue", n)
  BY <1>1 DEF In, Fits
<1>7. ASSUME NEW g \in Frames, NEW l \in Kinds, NEW x \in Owners, In(g, l, x)'
      PROVE  \/ In(g, l, x) /\ ~(g = f /\ l = "hand" /\ x = c)
             \/ g = f /\ l = "queue" /\ x = n
  BY <1>4, <1>5, <1>7 DEF In, buffer, network
<1>8. Moved({f}, "hand", c, "queue", n)
  BY <1>6, <1>7 DEF Moved
<1>9. NoRepeats'
  BY <1>4, <1>5 DEF NoRepeats, buffer, network
<1> QED BY <1>8, <1>9, Moves

\* A writer takes a message out of its buffer.
LEMMA TrackedTakes ==
  ASSUME Sound, Tracked, NEW c \in Conns, WriterTakes(c)
  PROVE  Tracked'
<1> USE Constants, Places DEF Sound, Tracked
<1>1. send[c] \in Seq(Frames \cup {Ctl}) /\ send[c] # <<>> /\ FramesOnce(send[c])
  BY DEF WriterTakes, TypeOK, NoRepeats
<1>2. PICK x \in Frames \cup {Ctl} : x = Head(send[c])
  BY <1>1, TailHolds
<1>3. /\ x \in Range(send[c])
      /\ Range(Tail(send[c])) \subseteq Range(send[c])
      /\ x \in Frames => x \notin Range(Tail(send[c]))
      /\ FramesOnce(Tail(send[c]))
  BY <1>1, <1>2, TailHolds
<1>4. /\ \A d \in Conns : send'[d] = IF d = c THEN Tail(send[c]) ELSE send[d]
      /\ \A d \in Conns : message'[d] = IF d = c THEN x ELSE message[d]
      /\ message[c] = None
      /\ UNCHANGED <<registry, handler, closed, network>>
  BY <1>2 DEF WriterTakes, TypeOK, WriterShape
<1>5. NoRepeats'
  BY <1>3, <1>4 DEF NoRepeats, registry, handler, network
<1>6. CASE x \in Frames
  <2>1. ASSUME NEW g \in Frames, NEW k \in Kinds, NEW z \in Owners, In(g, k, z)'
        PROVE  \/ In(g, k, z) /\ ~(g = x /\ k = "buffer" /\ z = c)
               \/ g = x /\ k = "writer" /\ z = c
    BY <1>3, <1>4, <1>6, <2>1 DEF In, registry, handler, network
  <2>2. In(x, "buffer", c) /\ Fits(x, "writer", c)
    BY <1>3, <1>6 DEF In, Addressed, Fits
  <2>3. Moved({x}, "buffer", c, "writer", c)
    BY <1>6, <2>1, <2>2 DEF Moved
  <2> QED BY <1>5, <2>3, Moves
<1>7. CASE x \notin Frames
  <2>1. ASSUME NEW g \in Frames, NEW k \in Kinds, NEW z \in Owners, In(g, k, z)'
        PROVE  In(g, k, z)
    BY <1>3, <1>4, <1>7, <2>1 DEF In, registry, handler, network
  <2> QED BY <1>5, <2>1, Losses
<1> QED BY <1>6, <1>7

\* It writes the message: the client receives it, or it is lost on the way.
LEMMA TrackedWrite ==
  ASSUME Sound, Tracked, NEW c \in Conns, Write(c)
  PROVE  Tracked'
<1> USE Constants, Places DEF Sound, Tracked
<1>1. /\ \A d \in Conns : message'[d] = IF d = c THEN None ELSE message[d]
      /\ message[c] \in Frames \cup {Ctl}
      /\ UNCHANGED <<registry, handler, closed, send, socket, uplink, written>>
  BY DEF Write, TypeOK, WriterShape
<1>2. CASE socket[c] = "up" /\ message[c] # Ctl
  <2>1. PICK f \in Frames, n \in Nodes : f = message[c] /\ n = Of[c]
    BY <1>1, <1>2
  <2>2. In(f, "writer", c)
    BY <2>1 DEF In
  <2>3. Fits(f, "client", n)
    BY <2>1, <2>2 DEF Addressed, Fits
  <2>4. f \notin Range(received[n])
    BY <2>2 DEF OnePlace, In
  <2>5. /\ Range(Append(received[n], f)) = Range(received[n]) \cup {f}
        /\ FramesOnce(Append(received[n], f))
    BY <2>4, AppendHolds DEF TypeOK, NoRepeats
  <2>6. \A m \in Nodes : received'[m] = IF m = n THEN Append(received[n], f) ELSE received[m]
    BY <1>2, <2>1 DEF Write, TypeOK
  <2>7. ASSUME NEW g \in Frames, NEW k \in Kinds, NEW z \in Owners, In(g, k, z)'
        PROVE  \/ In(g, k, z) /\ ~(g = f /\ k = "writer" /\ z = c)
               \/ g = f /\ k = "client" /\ z = n
    BY <1>1, <2>5, <2>6, <2>7 DEF In, registry, handler
  <2>8. Moved({f}, "writer", c, "client", n)
    BY <2>2, <2>3, <2>7 DEF Moved
  <2>9. NoRepeats'
    BY <1>1, <2>5, <2>6 DEF NoRepeats, registry, handler
  <2> QED BY <2>8, <2>9, Moves
<1>3. CASE ~(socket[c] = "up" /\ message[c] # Ctl)
  <2>1. received' = received
    BY <1>3 DEF Write
  <2>2. ASSUME NEW g \in Frames, NEW k \in Kinds, NEW z \in Owners, In(g, k, z)'
        PROVE  In(g, k, z)
    BY <1>1, <2>1, <2>2 DEF In, registry, handler
  <2>3. NoRepeats'
    BY <1>1, <2>1 DEF NoRepeats, registry, handler
  <2> QED BY <2>2, <2>3, Losses
<1> QED BY <1>2, <1>3

\* A connection takes the queue of its node over.
LEMMA TrackedConnect ==
  ASSUME Sound, Tracked, NEW c \in Conns, Connect(c)
  PROVE  Tracked'
<1> USE Constants, Places DEF Sound, Tracked
<1>1. PICK n \in Nodes : n = Of[c]
  OBVIOUS
<1>2. PICK S : S = Range(queues[n])
  OBVIOUS
<1>3. /\ \A d \in Conns : backlog'[d] = IF d = c THEN queues[n] ELSE backlog[d]
      /\ \A m \in Nodes : queues'[m] = IF m = n THEN <<>> ELSE queues[m]
      /\ \A d \in Conns : send'[d] = IF d = c THEN <<>> ELSE send[d]
      /\ UNCHANGED <<hand, target, message, uplink, written, received>>
  BY <1>1 DEF Connect, QueueLeft, TypeOK
<1>4. \A f \in S : f \in Frames /\ In(f, "queue", n) /\ Fits(f, "backlog", c)
  <2>1. \A f \in S : f \in Frames
    BY <1>2, ElementOfSeq, LenProperties DEF TypeOK, Range
  <2>2. \A f \in S : In(f, "queue", n)
    BY <1>2 DEF In
  <2> QED BY <1>1, <2>1, <2>2 DEF Addressed, Fits
<1>5. ASSUME NEW g \in Frames, NEW k \in Kinds, NEW z \in Owners, In(g, k, z)'
      PROVE  \/ In(g, k, z) /\ ~(g \in S /\ k = "queue" /\ z = n)
             \/ g \in S /\ k = "backlog" /\ z = c
  BY <1>2, <1>3, <1>5, EmptyHolds DEF In
<1>6. Moved(S, "queue", n, "backlog", c)
  BY <1>4, <1>5 DEF Moved
<1>7. NoRepeats'
  BY <1>3, EmptyHolds DEF NoRepeats
<1> QED BY <1>6, <1>7, Moves

\* The other steps move no frame, though some lose one.
LEMMA TrackedOther ==
  ASSUME Sound, Tracked,
         \/ Restart
         \/ \E n \in Nodes : Expire(n)
         \/ \E c \in Conns : \/ GoesSilent(c) \/ IsCut(c)
                             \/ ReadFails(c) \/ Unregister(c) \/ Close(c) \/ SendCtl(c)
                             \/ WriterEnds(c) \/ WriteFails(c)
  PROVE  Tracked'
<1> USE Constants, Places DEF Sound, Tracked, registry, handler, buffer, network
<1> DEFINE Same == UNCHANGED <<queues, hand, backlog, send, message, uplink, written, received>>
<1>1. CASE Same
  <2>1. ASSUME NEW g \in Frames, NEW k \in Kinds, NEW z \in Owners, In(g, k, z)'
        PROVE  In(g, k, z)
    BY <1>1, <2>1 DEF In
  <2>2. NoRepeats'
    BY <1>1 DEF NoRepeats
  <2> QED BY <2>1, <2>2, Losses
<1>2. CASE Restart
  <2>1. ASSUME NEW g \in Frames, NEW k \in Kinds, NEW z \in Owners, In(g, k, z)'
        PROVE  In(g, k, z)
    BY <1>2, <2>1, EmptyHolds DEF Restart, In
  <2>2. NoRepeats'
    BY <1>2, EmptyHolds DEF Restart, NoRepeats
  <2> QED BY <2>1, <2>2, Losses
<1>3. ASSUME NEW c \in Conns, Close(c)  PROVE Tracked'
  <2>1. /\ \A d \in Conns : uplink'[d] = IF d = c THEN <<>> ELSE uplink[d]
        /\ UNCHANGED <<registry, hand, backlog, send, message, written, received>>
    BY <1>3 DEF Close, TypeOK
  <2>2. ASSUME NEW g \in Frames, NEW k \in Kinds, NEW z \in Owners, In(g, k, z)'
        PROVE  In(g, k, z)
    BY <2>1, <2>2, EmptyHolds DEF In
  <2>3. NoRepeats'
    BY <2>1, EmptyHolds DEF NoRepeats
  <2> QED BY <2>2, <2>3, Losses
<1>4. ASSUME NEW c \in Conns, SendCtl(c)  PROVE Tracked'
  <2>1. CASE send' = [send EXCEPT ![c] = Append(@, Ctl)]
    <3>1. send[c] \in Seq(Frames \cup {Ctl}) /\ Ctl \in Frames \cup {Ctl} /\ FramesOnce(send[c])
      BY DEF TypeOK, NoRepeats
    <3>2. /\ Range(Append(send[c], Ctl)) = Range(send[c]) \cup {Ctl}
          /\ FramesOnce(Append(send[c], Ctl))
      BY <3>1, AppendHolds
    <3>3. /\ \A d \in Conns : send'[d] = IF d = c THEN Append(send[c], Ctl) ELSE send[d]
          /\ UNCHANGED <<registry, hand, backlog, message, network>>
      BY <1>4, <2>1 DEF SendCtl, TypeOK
    <3>4. ASSUME NEW g \in Frames, NEW k \in Kinds, NEW z \in Owners, In(g, k, z)'
          PROVE  In(g, k, z)
      BY <3>2, <3>3, <3>4 DEF In
    <3>5. NoRepeats'
      BY <3>2, <3>3 DEF NoRepeats
    <3> QED BY <3>4, <3>5, Losses
  <2>2. CASE UNCHANGED send
    <3>1. Same
      BY <1>4, <2>2 DEF SendCtl
    <3> QED BY <1>1, <3>1
  <2> QED BY <1>4, <2>1, <2>2 DEF SendCtl
<1>5. ASSUME NEW c \in Conns, WriteFails(c)  PROVE Tracked'
  <2>1. /\ \A d \in Conns : message'[d] = IF d = c THEN None ELSE message[d]
        /\ UNCHANGED <<registry, handler, send, network>>
    BY <1>5 DEF WriteFails, TypeOK
  <2>2. ASSUME NEW g \in Frames, NEW k \in Kinds, NEW z \in Owners, In(g, k, z)'
        PROVE  In(g, k, z)
    BY <2>1, <2>2 DEF In
  <2>3. NoRepeats'
    BY <2>1 DEF NoRepeats
  <2> QED BY <2>2, <2>3, Losses
<1>6. ASSUME NEW n \in Nodes, Expire(n)  PROVE Same
  BY <1>6 DEF Expire
<1>7. ASSUME NEW c \in Conns,
             GoesSilent(c) \/ IsCut(c) \/ ReadFails(c) \/ Unregister(c) \/ WriterEnds(c)
      PROVE  Same
  BY <1>7 DEF GoesSilent, IsCut, ReadFails, Unregister, WriterEnds
<1> QED BY <1>1, <1>2, <1>3, <1>4, <1>5, <1>6, <1>7

(***************************************************************************)
(* The theorems.                                                           *)
(***************************************************************************)
LEMMA StepKeeps == Sound /\ Tracked /\ [Next]_vars => Sound' /\ Tracked'
<1> SUFFICES ASSUME Sound, Tracked, [Next]_vars  PROVE Sound' /\ Tracked'
  OBVIOUS
<1>1. CASE UNCHANGED vars
  BY <1>1 DEF vars, registry, handler, buffer, network, Sound, Tracked, TypeOK, HandlerShape,
     WriterShape, RegistryIsCurrent, OnePlace, Addressed, Fits, NoRepeats, In
<1>2. ASSUME NEW c \in Conns, HandlerStep(c)  PROVE Sound' /\ Tracked'
  <2>1. CASE Flush(c)
    BY <2>1, SoundFlush, TrackedFlush
  <2>2. CASE ReadFrame(c)
    BY <2>2, SoundRead, TrackedRead
  <2>3. CASE ReadFails(c) \/ Unregister(c) \/ Close(c)
    BY <2>3, SoundEnd, TrackedOther
  <2>4. CASE Deliver(c)
    BY <2>4, SoundRoute, TrackedDeliver
  <2>5. CASE SendCtl(c)
    BY <2>5, SoundRoute, TrackedOther
  <2>6. CASE Enqueue(c)
    BY <2>6, SoundEnqueue, HandIsNotQueued, TrackedEnqueue DEF Tracked
  <2> QED BY <1>2, <2>1, <2>2, <2>3, <2>4, <2>5, <2>6 DEF HandlerStep
<1>3. ASSUME NEW c \in Conns, WriterStep(c)  PROVE Sound' /\ Tracked'
  <2>1. Sound'
    BY <1>3, SoundWriter
  <2> QED BY <1>3, <2>1, TrackedTakes, TrackedWrite, TrackedOther DEF WriterStep
<1>4. ASSUME NEW c \in Conns, ClientStep(c)  PROVE Sound' /\ Tracked'
  <2>1. CASE Connect(c)
    BY <2>1, SoundConnect, TrackedConnect
  <2>2. CASE GoesSilent(c) \/ IsCut(c)
    BY <2>2, SoundClient, TrackedOther
  <2>3. CASE ClientWrites(c)
    BY <2>3, SoundClient, TrackedClientWrites
  <2> QED BY <1>4, <2>1, <2>2, <2>3 DEF ClientStep
<1>5. ASSUME Restart \/ \E n \in Nodes : Expire(n)  PROVE Sound' /\ Tracked'
  BY <1>5, SoundRelay, TrackedOther
<1> QED BY <1>1, <1>2, <1>3, <1>4, <1>5 DEF Next

LEMMA Invariants == Spec => [](Sound /\ Tracked)
BY SoundInit, TrackedInit, StepKeeps, PTL DEF Spec

\* The relay's variables keep their types; no queue is longer than MaxQueued, no
\* buffer than SendCap.
THEOREM TypeCorrect == Spec => []TypeOK
BY Invariants, PTL DEF Sound

\* However the cleanup of an old handler (relayserver.go:153-157) and a new
\* connection of its node (relayserver.go:136-143) interleave: what is registered
\* is open and serves the node, and whoever still serves an open link is
\* registered.
THEOREM RegistryStaysCurrent == Spec => []RegistryIsCurrent
BY Invariants, PTL DEF Sound

\* A frame never reaches another node than the one it is addressed to, although
\* deliver uses a link that was looked up before it was replaced
\* (relayserver.go:212-217).
THEOREM FramesReachTheirAddressee == Spec => []RightRecipient
<1>1. ASSUME Sound, Tracked  PROVE RightRecipient
  <2> USE <1>1, Constants, Places DEF Sound, Tracked
  <2>1. ASSUME NEW n \in Nodes, NEW f \in Range(queues[n]) \cup Range(received[n])
        PROVE  To[f] = n
    <3>1. queues[n] \in Seq(Frames) /\ received[n] \in Seq(Frames)
      BY DEF TypeOK
    <3>2. f \in Frames
      BY <3>1, ElementOfSeq, LenProperties DEF Range
    <3>3. In(f, "queue", n) \/ In(f, "client", n)
      BY DEF In
    <3> QED BY <3>2, <3>3 DEF Addressed, Fits
  <2>2. ASSUME NEW c \in Conns, NEW f \in Range(backlog[c]) \cup Buffered(c) \cup InWriter(c)
        PROVE  To[f] = Of[c]
    <3>1. backlog[c] \in Seq(Frames)
      BY DEF TypeOK
    <3>2. f \in Frames
      BY <3>1, ElementOfSeq, LenProperties DEF Range, Buffered, InWriter
    <3>3. In(f, "backlog", c) \/ In(f, "buffer", c) \/ In(f, "writer", c)
      BY DEF In, Buffered, InWriter
    <3> QED BY <3>2, <3>3 DEF Addressed, Fits
  <2> QED BY <2>1, <2>2 DEF RightRecipient
<1> QED BY <1>1, Invariants, PTL

\* What the handler and the writer of a connection hold.
HeldBy(c) == InHand(c) \cup Range(backlog[c]) \cup Buffered(c) \cup InWriter(c)

LEMMA HeldIsIn ==
  ASSUME Sound, NEW c \in Conns, NEW f \in HeldBy(c)
  PROVE  /\ f \in Frames
         /\ \E k \in {"hand", "backlog", "buffer", "writer"} : In(f, k, c)
<1> USE DEF Sound
<1>1. backlog[c] \in Seq(Frames) /\ hand[c] \in Frames \cup {None}
  BY DEF TypeOK
<1>2. f \in Frames
  BY <1>1, ElementOfSeq, LenProperties DEF Range, HeldBy, Buffered, InWriter, InHand
<1>3. \E k \in {"hand", "backlog", "buffer", "writer"} : In(f, k, c)
  BY DEF In, HeldBy, Buffered, InWriter, InHand
<1> QED BY <1>2, <1>3

\* A frame has one copy, whatever connections replace one another, and however
\* often the relay restarts: the flush of a new connection
\* (relayserver.go:136-149), deliver, enqueue and the writers hand it on and keep
\* none (relayserver.go:161-175, 224-260).
THEOREM FramesAreNotCopied == Spec => []OneCopy
<1>1. ASSUME Sound, Tracked  PROVE OneCopy
  <2> USE <1>1, Constants, Places DEF Sound, Tracked
  <2>1. ASSUME NEW n \in Nodes
        PROVE  /\ IsInjective(queues[n]) /\ IsInjective(received[n])
               /\ \A f \in Range(queues[n]) : f \in Frames /\ In(f, "queue", n)
               /\ \A f \in Range(received[n]) : f \in Frames /\ In(f, "client", n)
    <3>1. queues[n] \in Seq(Frames) /\ received[n] \in Seq(Frames)
      BY DEF TypeOK
    <3>2. /\ \A i \in DOMAIN queues[n] : queues[n][i] \in Frames
          /\ \A i \in DOMAIN received[n] : received[n][i] \in Frames
      BY <3>1, ElementOfSeq, LenProperties
    <3>3. IsInjective(queues[n]) /\ IsInjective(received[n])
      BY <3>2 DEF NoRepeats, FramesOnce, IsInjective
    <3> QED BY <3>2, <3>3 DEF Range, In
  <2>2. ASSUME NEW m \in Nodes, NEW n \in Nodes
        PROVE  /\ m # n => Range(queues[m]) \cap Range(queues[n]) = {}
               /\ m # n => Range(received[m]) \cap Range(received[n]) = {}
               /\ Range(queues[m]) \cap Range(received[n]) = {}
    <3>1. \A f \in Range(queues[m]) : f \in Frames /\ In(f, "queue", m)
      BY <2>1
    <3>2. \A f \in Range(queues[n]) : In(f, "queue", n)
      BY <2>1
    <3>3. \A f \in Range(received[m]) : f \in Frames /\ In(f, "client", m)
      BY <2>1
    <3>4. \A f \in Range(received[n]) : In(f, "client", n)
      BY <2>1
    <3>5. ASSUME m # n  PROVE Range(queues[m]) \cap Range(queues[n]) = {}
      BY <3>1, <3>2, <3>5 DEF OnePlace
    <3>6. ASSUME m # n  PROVE Range(received[m]) \cap Range(received[n]) = {}
      BY <3>3, <3>4, <3>6 DEF OnePlace
    <3>7. Range(queues[m]) \cap Range(received[n]) = {}
      BY <3>1, <3>4 DEF OnePlace
    <3> QED BY <3>5, <3>6, <3>7
  <2>3. ASSUME NEW c \in Conns, NEW n \in Nodes
        PROVE  HeldBy(c) \cap (Range(queues[n]) \cup Range(received[n])) = {}
    <3> SUFFICES ASSUME NEW f \in HeldBy(c), f \in Range(queues[n]) \cup Range(received[n])
                 PROVE  FALSE
      OBVIOUS
    <3>1. PICK k \in {"hand", "backlog", "buffer", "writer"} : f \in Frames /\ In(f, k, c)
      BY HeldIsIn
    <3>2. In(f, "queue", n) \/ In(f, "client", n)
      BY <2>1
    <3> QED BY <3>1, <3>2 DEF OnePlace
  <2>4. ASSUME NEW c \in Conns, NEW d \in Conns, c # d
        PROVE  HeldBy(c) \cap HeldBy(d) = {}
    <3> SUFFICES ASSUME NEW f \in HeldBy(c), f \in HeldBy(d)
                 PROVE  FALSE
      OBVIOUS
    <3>1. PICK k \in {"hand", "backlog", "buffer", "writer"} : f \in Frames /\ In(f, k, c)
      BY HeldIsIn
    <3>2. PICK l \in {"hand", "backlog", "buffer", "writer"} : In(f, l, d)
      BY HeldIsIn
    <3> QED BY <2>4, <3>1, <3>2 DEF OnePlace
  <2> QED BY <2>1, <2>2, <2>3, <2>4 DEF OneCopy, HeldBy
<1> QED BY <1>1, Invariants, PTL

(***************************************************************************)
(* Why a frame is lost.                                                    *)
(***************************************************************************)
Cause(f) ==
  \/ \E n \in Nodes : f \in Range(received'[n])
  \/ \E c \in Conns : /\ f \in Range(backlog[c]) \cup Buffered(c) \cup InWriter(c)
                      /\ closed[c] \/ socket[c] # "up"
  \/ \E c, d \in Conns : f \in InHand(c) /\ target[c] = d /\ closed[d]
  \/ f \in expired
  \/ \E n \in Nodes : /\ Len(queues[n]) = MaxQueued
                      /\ f = Head(queues[n])
  \/ Restart

\* A lost frame has been somewhere, and is nowhere.
LostFrom(f) ==
  \/ \E n \in Nodes : f \in Range(queues[n])
  \/ \E c \in Conns : \/ f = hand[c]
                      \/ f \in Range(backlog[c])
                      \/ f \in Range(send[c])
                      \/ f = message[c]
Gone(f) ==
  /\ \A n \in Nodes : f \notin Range(queues'[n])
  /\ \A c \in Conns : /\ f # hand'[c]
                      /\ f \notin Range(backlog'[c])
                      /\ f \notin Range(send'[c])
                      /\ f # message'[c]

LEMMA Loss ==
  ASSUME NEW f \in Frames, InRelay(f), ~InRelay(f)'
  PROVE  LostFrom(f) /\ Gone(f)
BY Constants DEF InRelay, InHand, Buffered, InWriter, LostFrom, Gone

\* What a connection held that was closed or did not work.
LEMMA DeadLink ==
  ASSUME NEW f \in Frames, NEW c \in Conns, closed[c] \/ socket[c] # "up",
         f \in Range(backlog[c]) \/ f \in Range(send[c]) \/ f = message[c]
  PROVE  Cause(f)
BY DEF Cause, Buffered, InWriter

LEMMA LossByHandler ==
  ASSUME Sound, Tracked, NEW c \in Conns, HandlerStep(c),
         NEW f \in Frames, LostFrom(f), Gone(f)
  PROVE  Cause(f)
<1> USE Constants DEF Sound, registry, handler, buffer, network
<1>1. CASE Flush(c)
  <2>1. backlog[c] \in Seq(Frames) /\ backlog[c] # <<>>
    BY <1>1 DEF Flush, HandlerShape, TypeOK
  <2>2. /\ Range(backlog[c]) = Range(Tail(backlog[c])) \cup {Head(backlog[c])}
        /\ Head(backlog[c]) \in Frames
    BY <2>1, TailHolds
  <2>3. /\ \A d \in Conns : backlog'[d] = IF d = c THEN Tail(backlog[c]) ELSE backlog[d]
        /\ UNCHANGED <<queues, hand, message>>
    BY <1>1 DEF Flush, TypeOK
  <2>4. CASE closed[c] /\ UNCHANGED send
    <3>1. f \in Range(backlog[c])
      BY <2>3, <2>4 DEF LostFrom, Gone
    <3> QED BY <2>4, <3>1, DeadLink
  <2>5. CASE send' = [send EXCEPT ![c] = Append(@, Head(backlog[c]))]
    <3>3. send[c] \in Seq(Frames \cup {Ctl}) /\ Head(backlog[c]) \in Frames \cup {Ctl}
      BY <2>2 DEF TypeOK
    <3>1. Range(Append(send[c], Head(backlog[c]))) = Range(send[c]) \cup {Head(backlog[c])}
      BY <3>3, AppendHolds
    <3>2. \A d \in Conns : send'[d] = IF d = c THEN Append(send[c], Head(backlog[c])) ELSE send[d]
      BY <2>5 DEF TypeOK
    <3> QED BY <2>2, <2>3, <3>1, <3>2 DEF LostFrom, Gone
  <2> QED BY <1>1, <2>4, <2>5 DEF Flush
<1>2. CASE Deliver(c)
  <2>1. PICK g \in Frames, d \in Conns : g = hand[c] /\ d = target[c]
    BY <1>2 DEF Deliver, HandlerShape
  <2>2. /\ \A e \in Conns : hand'[e] = IF e = c THEN None ELSE hand[e]
        /\ UNCHANGED <<queues, backlog, message>>
    BY <1>2 DEF Deliver, TypeOK
  <2>3. CASE closed[d] /\ UNCHANGED send
    <3>1. f = g
      BY <2>1, <2>2, <2>3 DEF LostFrom, Gone
    <3> QED BY <2>1, <2>3, <3>1 DEF Cause, InHand
  <2>4. CASE send' = [send EXCEPT ![d] = Append(@, g)]
    <3>1. send[d] \in Seq(Frames \cup {Ctl}) /\ g \in Frames \cup {Ctl}
      BY DEF TypeOK
    <3>2. Range(Append(send[d], g)) = Range(send[d]) \cup {g}
      BY <3>1, AppendHolds
    <3>3. \A e \in Conns : send'[e] = IF e = d THEN Append(send[d], g) ELSE send[e]
      BY <2>4 DEF TypeOK
    <3> QED BY <2>1, <2>2, <3>2, <3>3 DEF LostFrom, Gone
  <2> QED BY <1>2, <2>1, <2>3, <2>4 DEF Deliver
<1>3. CASE Enqueue(c)
  <2>1. PICK g \in Frames, n \in Nodes : g = hand[c] /\ n = To[g] /\ g \notin Range(queues[n])
    BY <1>3, HandIsNotQueued
  <2>2. PICK k \in 0..Len(queues[n]) :
          /\ \A i \in 1..Len(queues[n]) : Unexpired(queues[n][i]) <=> i > k
          /\ queues' = [queues EXCEPT ![n] =
                          Kept(Append(SubSeq(queues[n], k + 1, Len(queues[n])), g))]
    BY <1>3, <2>1 DEF Enqueue, QueueOf
  <2>3. PICK r : r = Kept(Append(SubSeq(queues[n], k + 1, Len(queues[n])), g))
    OBVIOUS
  <2>4. queues[n] \in Seq(Frames) /\ Len(queues[n]) <= MaxQueued /\ FramesOnce(queues[n])
    BY DEF TypeOK, NoRepeats, Tracked
  <2>5. /\ g \in Range(r)
        /\ \A i \in (k + 1)..Len(queues[n]) :
             queues[n][i] \in Range(r) \/ (Len(queues[n]) = MaxQueued /\ i = 1)
    BY <2>1, <2>3, <2>4, QueueHolds
  <2>6. /\ \A m \in Nodes : queues'[m] = IF m = n THEN r ELSE queues[m]
        /\ \A e \in Conns : hand'[e] = IF e = c THEN None ELSE hand[e]
        /\ UNCHANGED <<backlog, send, message>>
    BY <1>3, <2>2, <2>3 DEF Enqueue, TypeOK
  <2>7. f \in Range(queues[n]) /\ f \notin Range(r)
    BY <2>1, <2>5, <2>6 DEF LostFrom, Gone
  <2>8. PICK i \in 1..Len(queues[n]) : f = queues[n][i]
    BY <2>4, <2>7, LenProperties DEF Range
  <2>9. Len(queues[n]) \in Nat
    BY <2>4, LenProperties
  <2>10. CASE i > k
    <3>1. i \in (k + 1)..Len(queues[n])
      BY <2>9, <2>10
    <3>2. Len(queues[n]) = MaxQueued /\ f = queues[n][1]
      BY <2>5, <2>7, <2>8, <3>1
    <3>3. f = Head(queues[n])
      BY <2>4, <3>2, HeadTailProperties, EmptySeq
    <3> QED BY <3>2, <3>3 DEF Cause
  <2>11. CASE ~(i > k)
    BY <2>2, <2>8, <2>11 DEF Unexpired, Cause
  <2> QED BY <2>10, <2>11
<1>4. CASE SendCtl(c)
  <2>1. UNCHANGED <<queues, hand, backlog, message>>
    BY <1>4 DEF SendCtl
  <2>2. CASE send' = [send EXCEPT ![c] = Append(@, Ctl)]
    <3>1. send[c] \in Seq(Frames \cup {Ctl}) /\ Ctl \in Frames \cup {Ctl}
      BY DEF TypeOK
    <3>2. Range(Append(send[c], Ctl)) = Range(send[c]) \cup {Ctl}
      BY <3>1, AppendHolds
    <3>3. \A d \in Conns : send'[d] = IF d = c THEN Append(send[c], Ctl) ELSE send[d]
      BY <2>2 DEF TypeOK
    <3> QED BY <2>1, <3>2, <3>3 DEF LostFrom, Gone
  <2>3. CASE UNCHANGED send
    BY <2>1, <2>3 DEF LostFrom, Gone
  <2> QED BY <1>4, <2>2, <2>3 DEF SendCtl
<1>5. CASE ReadFrame(c)
  <2>1. PICK g : hand' = [hand EXCEPT ![c] = g]
    BY <1>5 DEF ReadFrame
  <2>2. \A d \in Conns \ {c} : hand'[d] = hand[d]
    BY <2>1 DEF TypeOK
  <2>3. hand[c] = None /\ UNCHANGED <<queues, backlog, send, message>>
    BY <1>5 DEF ReadFrame, HandlerShape
  <2> QED BY <2>2, <2>3 DEF LostFrom, Gone
<1>6. CASE ReadFails(c) \/ Unregister(c) \/ Close(c)
  <2>1. UNCHANGED <<queues, hand, backlog, send, message>>
    BY <1>6 DEF ReadFails, Unregister, Close
  <2> QED BY <2>1 DEF LostFrom, Gone
<1> QED BY <1>1, <1>2, <1>3, <1>4, <1>5, <1>6 DEF HandlerStep

LEMMA LossByWriter ==
  ASSUME Sound, NEW c \in Conns, WriterStep(c),
         NEW f \in Frames, LostFrom(f), Gone(f)
  PROVE  Cause(f)
<1> USE Constants DEF Sound, registry, handler, buffer, network
<1>1. CASE WriterTakes(c)
  <2>1. send[c] \in Seq(Frames \cup {Ctl}) /\ send[c] # <<>>
    BY <1>1 DEF WriterTakes, TypeOK
  <2>2. Range(send[c]) = Range(Tail(send[c])) \cup {Head(send[c])}
    BY <2>1, TailHolds
  <2>3. /\ \A d \in Conns : send'[d] = IF d = c THEN Tail(send[c]) ELSE send[d]
        /\ \A d \in Conns : message'[d] = IF d = c THEN Head(send[c]) ELSE message[d]
        /\ message[c] = None
        /\ UNCHANGED <<queues, hand, backlog>>
    BY <1>1 DEF WriterTakes, TypeOK, WriterShape
  <2> QED BY <2>2, <2>3 DEF LostFrom, Gone
<1>2. CASE WriterEnds(c)
  <2>1. UNCHANGED <<queues, hand, backlog, send, message>>
    BY <1>2 DEF WriterEnds
  <2> QED BY <2>1 DEF LostFrom, Gone
<1>3. CASE Write(c)
  <2>1. /\ \A d \in Conns : message'[d] = IF d = c THEN None ELSE message[d]
        /\ UNCHANGED <<queues, hand, backlog, send>>
    BY <1>3 DEF Write, TypeOK
  <2>2. f = message[c]
    BY <2>1 DEF LostFrom, Gone
  <2>3. CASE socket[c] = "up"
    <3>1. received' = [received EXCEPT ![Of[c]] = Append(@, f)]
      BY <1>3, <2>2, <2>3 DEF Write
    <3>2. received[Of[c]] \in Seq(Frames) /\ Of[c] \in Nodes
      BY DEF TypeOK
    <3>3. f \in Range(Append(received[Of[c]], f))
      BY <3>2, AppendHolds
    <3>4. f \in Range(received'[Of[c]])
      BY <3>1, <3>2, <3>3 DEF TypeOK
    <3> QED BY <3>2, <3>4 DEF Cause
  <2>4. CASE socket[c] # "up"
    BY <2>2, <2>4, DeadLink
  <2> QED BY <2>3, <2>4
<1>4. CASE WriteFails(c)
  <2>1. /\ \A d \in Conns : message'[d] = IF d = c THEN None ELSE message[d]
        /\ socket[c] # "up"
        /\ UNCHANGED <<queues, hand, backlog, send>>
    BY <1>4 DEF WriteFails, TypeOK
  <2>2. f = message[c]
    BY <2>1 DEF LostFrom, Gone
  <2> QED BY <2>1, <2>2, DeadLink
<1> QED BY <1>1, <1>2, <1>3, <1>4 DEF WriterStep

LEMMA LossByClient ==
  ASSUME Sound, NEW c \in Conns, ClientStep(c),
         NEW f \in Frames, LostFrom(f), Gone(f)
  PROVE  Cause(f)
<1> USE Constants DEF Sound, registry, handler, buffer, network
<1>1. CASE Connect(c)
  <2>1. PICK n \in Nodes : n = Of[c]
    OBVIOUS
  <2>2. /\ \A d \in Conns : backlog'[d] = IF d = c THEN queues[n] ELSE backlog[d]
        /\ \A m \in Nodes : queues'[m] = IF m = n THEN <<>> ELSE queues[m]
        /\ \A d \in Conns : send'[d] = IF d = c THEN <<>> ELSE send[d]
        /\ backlog[c] = <<>> /\ closed[c]
        /\ UNCHANGED <<hand, message>>
    BY <1>1, <2>1 DEF Connect, QueueLeft, TypeOK, HandlerShape
  <2>3. f \in Range(send[c]) \/ f \in Range(backlog[c])
    BY <2>2 DEF LostFrom, Gone
  <2> QED BY <2>2, <2>3, DeadLink
<1>2. CASE GoesSilent(c) \/ IsCut(c) \/ ClientWrites(c)
  <2>1. UNCHANGED <<queues, hand, backlog, send, message>>
    BY <1>2 DEF GoesSilent, IsCut, ClientWrites
  <2> QED BY <2>1 DEF LostFrom, Gone
<1> QED BY <1>1, <1>2 DEF ClientStep

\* No step loses a frame without a cause: the links that deliver gives up are
\* closed (relayserver.go:230-233), the frames that enqueue drops too old or the
\* oldest of a full queue (relayserver.go:249-259).
THEOREM LossesHaveACause == Spec => DropsHaveACause
<1>1. ASSUME Sound, Tracked, Next, NEW f \in Frames, InRelay(f), ~InRelay(f)'
      PROVE  Cause(f)
  <2>1. LostFrom(f) /\ Gone(f)
    BY <1>1, Loss
  <2>2. ASSUME NEW n \in Nodes, Expire(n)  PROVE FALSE
    BY <2>1, <2>2 DEF Expire, LostFrom, Gone, handler, buffer
  <2>3. CASE Restart
    BY <2>3 DEF Cause
  <2> QED BY <1>1, <2>1, <2>2, <2>3, LossByHandler, LossByWriter, LossByClient DEF Next
<1>2. ASSUME UNCHANGED vars, NEW f \in Frames, InRelay(f), ~InRelay(f)'
      PROVE  FALSE
  BY <1>2 DEF vars, registry, handler, buffer, InRelay, InHand, Buffered, InWriter
<1>3. Sound /\ Tracked /\ [Next]_vars =>
        [\A f \in Frames : InRelay(f) /\ ~InRelay(f)' => Cause(f)]_vars
  BY <1>1, <1>2
<1> QED BY <1>3, Invariants, PTL DEF Spec, DropsHaveACause, Cause
=============================================================================
