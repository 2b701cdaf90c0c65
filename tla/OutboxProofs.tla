----------------------------- MODULE OutboxProofs -----------------------------
(***************************************************************************)
(* For every number of peers, threads, envelopes, goroutines and           *)
(* processes: the safety invariants of Outbox, where it can lose an        *)
(* envelope, and that it implements Mailbox.                               *)
(***************************************************************************)
EXTENDS Outbox, SequenceTheorems, TLAPS

(***************************************************************************)
(* Sequences without repetitions.                                          *)
(***************************************************************************)

\* The queues start and end empty.
LEMMA EmptyQueue ==
  ASSUME NEW S
  PROVE  /\ <<>> \in Seq(S)
         /\ Range(<<>>) = {}
         /\ IsInjective(<<>>)
BY DEF Range, IsInjective

\* Appending adds one element, and keeps a queue free of repetitions when
\* the element is new.
LEMMA AppendQueue ==
  ASSUME NEW S, NEW q \in Seq(S), NEW x \in S
  PROVE  /\ Append(q, x) \in Seq(S)
         /\ Range(Append(q, x)) = Range(q) \cup {x}
         /\ IsInjective(q) /\ x \notin Range(q) => IsInjective(Append(q, x))
<1>1. /\ Append(q, x) \in Seq(S)
      /\ Len(Append(q, x)) = Len(q) + 1
      /\ \A i \in 1..Len(q) : Append(q, x)[i] = q[i]
      /\ Append(q, x)[Len(q) + 1] = x
  BY AppendProperties
<1>2. DOMAIN q = 1..Len(q) /\ DOMAIN Append(q, x) = 1..(Len(q) + 1) /\ Len(q) \in Nat
  BY <1>1, LenProperties
<1>3. Range(Append(q, x)) = Range(q) \cup {x}
  <2>1. ASSUME NEW y \in Range(q) \cup {x}  PROVE y \in Range(Append(q, x))
    BY <1>1, <1>2 DEF Range
  <2>2. ASSUME NEW y \in Range(Append(q, x))  PROVE y \in Range(q) \cup {x}
    <3>1. PICK i \in 1..(Len(q) + 1) : y = Append(q, x)[i]
      BY <1>2 DEF Range
    <3>2. CASE i \in 1..Len(q)
      BY <1>1, <1>2, <3>1, <3>2 DEF Range
    <3>3. CASE i = Len(q) + 1
      BY <1>1, <3>1, <3>3
    <3> QED BY <1>2, <3>1, <3>2, <3>3
  <2> QED BY <2>1, <2>2
<1>4. ASSUME IsInjective(q), x \notin Range(q),
             NEW i \in 1..(Len(q) + 1), NEW j \in 1..(Len(q) + 1),
             Append(q, x)[i] = Append(q, x)[j]
      PROVE  i = j
  <2>1. \A n \in 1..Len(q) : q[n] # x
    BY <1>2, <1>4 DEF Range
  <2>2. CASE i \in 1..Len(q) /\ j \in 1..Len(q)
    BY <1>1, <1>2, <1>4, <2>2 DEF IsInjective
  <2>3. CASE i = Len(q) + 1 /\ j \in 1..Len(q)
    BY <1>1, <1>4, <2>1, <2>3
  <2>4. CASE j = Len(q) + 1 /\ i \in 1..Len(q)
    BY <1>1, <1>4, <2>1, <2>4
  <2> QED BY <1>2, <1>4, <2>2, <2>3, <2>4
<1>5. IsInjective(q) /\ x \notin Range(q) => IsInjective(Append(q, x))
  BY <1>2, <1>4 DEF IsInjective
<1> QED BY <1>1, <1>3, <1>5

\* Taking the head leaves the others, in a queue without repetitions.
LEMMA TailQueue ==
  ASSUME NEW S, NEW q \in Seq(S), q # <<>>
  PROVE  /\ Head(q) \in S
         /\ Head(q) \in Range(q)
         /\ Tail(q) \in Seq(S)
         /\ Range(Tail(q)) \subseteq Range(q)
         /\ Range(q) = Range(Tail(q)) \cup {Head(q)}
         /\ Len(q) = 1 <=> Tail(q) = <<>>
         /\ IsInjective(q) => IsInjective(Tail(q)) /\ Head(q) \notin Range(Tail(q))
<1>1. /\ Head(q) \in S
      /\ Tail(q) \in Seq(S)
      /\ Len(Tail(q)) = Len(q) - 1
      /\ \A i \in 1..Len(Tail(q)) : Tail(q)[i] = q[i + 1]
  BY HeadTailProperties
<1>2. /\ Len(q) \in Nat \ {0}
      /\ DOMAIN q = 1..Len(q)
      /\ DOMAIN Tail(q) = 1..(Len(q) - 1)
      /\ Head(q) = q[1]
  BY <1>1, LenProperties, EmptySeq
<1>3. Range(q) = Range(Tail(q)) \cup {Head(q)}
  <2>1. ASSUME NEW i \in 1..Len(q)  PROVE q[i] \in Range(Tail(q)) \cup {Head(q)}
    <3>1. CASE i = 1
      BY <1>2, <3>1
    <3>2. CASE i # 1
      <4>1. i - 1 \in 1..(Len(q) - 1) /\ (i - 1) + 1 = i
        BY <1>2, <3>2
      <4>2. Tail(q)[i - 1] = q[i]
        BY <1>1, <4>1
      <4> QED BY <1>2, <4>1, <4>2 DEF Range
    <3> QED BY <3>1, <3>2
  <2>2. ASSUME NEW i \in 1..(Len(q) - 1)  PROVE Tail(q)[i] \in Range(q)
    <3>1. i + 1 \in 1..Len(q)
      BY <1>2
    <3> QED BY <1>1, <1>2, <3>1 DEF Range
  <2>3. Head(q) \in Range(q)
    BY <1>2 DEF Range
  <2> QED BY <1>2, <2>1, <2>2, <2>3 DEF Range
<1>4. Len(q) = 1 <=> Tail(q) = <<>>
  <2>1. Len(Tail(q)) = 0 <=> Tail(q) = <<>>
    BY <1>1, EmptySeq
  <2> QED BY <1>1, <1>2, <2>1
<1>5. ASSUME IsInjective(q)
      PROVE  IsInjective(Tail(q)) /\ Head(q) \notin Range(Tail(q))
  <2>1. \A i, j \in 1..Len(q) : q[i] = q[j] => i = j
    BY <1>2, <1>5 DEF IsInjective
  <2>2. ASSUME NEW i \in 1..(Len(q) - 1), NEW j \in 1..(Len(q) - 1), Tail(q)[i] = Tail(q)[j]
        PROVE  i = j
    <3>1. i + 1 \in 1..Len(q) /\ j + 1 \in 1..Len(q)
      BY <1>2
    <3>2. i + 1 = j + 1
      BY <1>1, <2>1, <2>2, <3>1
    <3> QED BY <3>2
  <2>3. ASSUME NEW i \in 1..(Len(q) - 1), Tail(q)[i] = Head(q)  PROVE FALSE
    <3>1. i + 1 \in 1..Len(q) /\ 1 \in 1..Len(q)
      BY <1>2
    <3>2. i + 1 = 1
      BY <1>1, <1>2, <2>1, <2>3, <3>1
    <3> QED BY <3>2
  <2>4. IsInjective(Tail(q))
    BY <1>2, <2>2 DEF IsInjective
  <2> QED BY <1>2, <2>3, <2>4 DEF Range
<1> QED BY <1>1, <1>3, <1>4, <1>5

(***************************************************************************)
(* The inductive invariant: the keepers are disjoint (SingleKeeper), which *)
(* needs that an unused id is nowhere (StoredFirst: what is kept has an    *)
(* addressee) and that a goroutine's program counter tells what it holds.  *)
(***************************************************************************)
Sending == {"append", "deliver", "enqueue"}

SenderShape ==
  \A s \in Senders :
    /\ sender[s].pc \in Sending =>
         /\ sender[s].env \in Envelopes
         /\ sender[s].thread \in Threads
         /\ sender[s].peer \in Peers
         /\ dest[sender[s].env] = sender[s].peer
    /\ sender[s].pc \notin Sending => sender[s].env = None
    /\ sender[s].pc = "create" => sender[s].peer \in Peers
    /\ sender[s].pc \in {"deliver", "enqueue"} => log[sender[s].env] # None

DrainShape ==
  \A k \in Procs :
    /\ drain[k].pc \in {"deliver", "requeue"} =>
         drain[k].batch # <<>> /\ drain[k].peer \in Peers
    /\ drain[k].pc \in {"idle", "scan"} => drain[k].batch = <<>>

IInv ==
  /\ TypeOK
  /\ SenderShape
  /\ DrainShape
  /\ StoredFirst
  /\ SingleKeeper
  /\ AtMostOnce

\* What an assignment to the program counter leaves alone.
LEMMA SenderMoves ==
  ASSUME sender \in [Senders -> SenderStates], NEW s \in Senders,
         NEW c \in {"idle", "create", "append", "deliver", "enqueue"},
         sender' = [sender EXCEPT ![s].pc = c]
  PROVE  /\ sender' \in [Senders -> SenderStates]
         /\ \A r \in Senders :
              /\ sender'[r].pc = IF r = s THEN c ELSE sender[r].pc
              /\ sender'[r].env = sender[r].env
              /\ sender'[r].peer = sender[r].peer
              /\ sender'[r].thread = sender[r].thread
<1>1. PICK a \in Peers \cup {None}, b \in Threads \cup {None},
           e \in Envelopes \cup {None},
           d \in {"idle", "create", "append", "deliver", "enqueue"} :
        sender[s] = [pc |-> d, peer |-> a, thread |-> b, env |-> e]
  BY DEF SenderStates
<1>2. [sender[s] EXCEPT !.pc = c] = [pc |-> c, peer |-> a, thread |-> b, env |-> e]
  BY <1>1
<1>3. sender' = [sender EXCEPT ![s] = [pc |-> c, peer |-> a, thread |-> b, env |-> e]]
  BY <1>2
<1> QED BY <1>1, <1>3 DEF SenderStates

LEMMA DrainMoves ==
  ASSUME drain \in [Procs -> DrainStates], NEW k \in Procs,
         NEW c \in {"idle", "scan", "deliver", "requeue"}, NEW b \in Seq(Envelopes),
         drain' = DrainAt(k, c, b)
  PROVE  /\ drain' \in [Procs -> DrainStates]
         /\ \A l \in Procs :
              /\ drain'[l].pc = IF l = k THEN c ELSE drain[l].pc
              /\ drain'[l].batch = IF l = k THEN b ELSE drain[l].batch
              /\ drain'[l].peer = drain[l].peer
BY DEF DrainAt, DrainStates

LEMMA InitInv == OutboxAssumption /\ Init => IInv
<1> SUFFICES ASSUME OutboxAssumption, Init PROVE IInv
  OBVIOUS
<1>1. Range(<<>>) = {} /\ IsInjective(<<>>) /\ <<>> \in Seq(Envelopes)
  BY EmptyQueue
<1>2. TypeOK
  BY <1>1 DEF Init, TypeOK, IdleSender, IdleDrain, SenderStates, DrainStates
<1>3. SenderShape /\ DrainShape
  BY DEF Init, SenderShape, DrainShape, IdleSender, IdleDrain, Sending
<1>4. \A s \in Senders : InHand(s) = {}
  BY DEF Init, InHand, IdleSender
<1>5. StoredFirst /\ AtMostOnce
  BY <1>1 DEF Init, StoredFirst, AtMostOnce, IdleDrain
<1>6. SingleKeeper
  BY <1>1, <1>4 DEF Init, SingleKeeper, IdleDrain
<1> QED BY <1>2, <1>3, <1>5, <1>6 DEF IInv

\* A step in which every keeper keeps what it has or loses it all disturbs
\* none of the three properties of what is kept where.
LEMMA KeepOrLose ==
  ASSUME IInv,
         dest' = dest, wire' = wire,
         \A e \in Envelopes : log[e] # None => log'[e] # None,
         \A p \in Peers : outbox'[p] \in {outbox[p], <<>>},
         \A k \in Procs : \/ drain'[k].batch = <<>>
                          \/ /\ drain'[k].batch = drain[k].batch
                             /\ drain'[k].peer = drain[k].peer,
         \A s \in Senders : InHand(s)' \in {InHand(s), {}}
  PROVE  StoredFirst' /\ SingleKeeper' /\ AtMostOnce'
<1>1. Range(<<>>) = {} /\ IsInjective(<<>>)
  BY EmptyQueue
<1>2. AtMostOnce'
  BY DEF IInv, AtMostOnce
<1>3. StoredFirst'
  BY <1>1 DEF IInv, StoredFirst
<1>4. SingleKeeper'
  <2>1. \A s, r \in Senders : s # r => InHand(s)' \cap InHand(r)' = {}
    BY DEF IInv, SingleKeeper
  <2>2. \A p \in Peers : IsInjective(outbox'[p])
    BY <1>1 DEF IInv, SingleKeeper
  <2>3. \A k \in Procs : IsInjective(drain'[k].batch)
    BY <1>1 DEF IInv, SingleKeeper
  <2>4. \A p \in Peers, k \in Procs : Range(outbox'[p]) \cap Range(drain'[k].batch) = {}
    BY <1>1 DEF IInv, SingleKeeper
  <2>5. \A k, l \in Procs : k # l => Range(drain'[k].batch) \cap Range(drain'[l].batch) = {}
    BY <1>1 DEF IInv, SingleKeeper
  <2>6. \A s \in Senders, p \in Peers :
          InHand(s)' \cap (Range(outbox'[p]) \cup Range(wire'[p])) = {}
    BY <1>1 DEF IInv, SingleKeeper
  <2>7. \A s \in Senders, k \in Procs : InHand(s)' \cap Range(drain'[k].batch) = {}
    BY <1>1 DEF IInv, SingleKeeper
  <2>8. \A k \in Procs, p \in Peers : Range(drain'[k].batch) \cap Range(wire'[p]) = {}
    BY <1>1 DEF IInv, SingleKeeper
  <2>9. /\ \A p, q \in Peers : Range(outbox'[p]) \cap Range(wire'[q]) = {}
        /\ \A p, q \in Peers : p # q => Range(outbox'[p]) \cap Range(outbox'[q]) = {}
    BY <1>1 DEF IInv, SingleKeeper
  <2> QED
    BY <2>1, <2>2, <2>3, <2>4, <2>5, <2>6, <2>7, <2>8, <2>9 DEF SingleKeeper
<1> QED BY <1>2, <1>3, <1>4

\* An envelope that its keeper lets go of, here a goroutine or a drain batch,
\* joins what the link has accepted.
LEMMA JoinsWire ==
  ASSUME IInv, NEW e \in Envelopes, NEW q \in Peers,
         dest[e] = q, log[e] # None,
         \A p \in Peers : e \notin Range(outbox[p]) \cup Range(wire[p]),
         UNCHANGED <<dest, log, outbox>>,
         wire' = [wire EXCEPT ![q] = Append(wire[q], e)],
         \A r \in Senders : InHand(r)' \subseteq InHand(r) \ {e},
         \A k \in Procs : /\ drain'[k].peer = drain[k].peer
                          /\ Range(drain'[k].batch) \subseteq Range(drain[k].batch) \ {e}
                          /\ IsInjective(drain'[k].batch)
  PROVE  /\ wire' \in [Peers -> Seq(Envelopes)]
         /\ StoredFirst' /\ SingleKeeper' /\ AtMostOnce'
<1>1. /\ wire \in [Peers -> Seq(Envelopes)]
      /\ IsInjective(wire[q])
  BY DEF IInv, TypeOK, AtMostOnce
<1>2. /\ Append(wire[q], e) \in Seq(Envelopes)
      /\ Range(Append(wire[q], e)) = Range(wire[q]) \cup {e}
      /\ IsInjective(Append(wire[q], e))
  BY <1>1, AppendQueue
<1>3. /\ wire'[q] = Append(wire[q], e)
      /\ \A p \in Peers : p # q => wire'[p] = wire[p]
  BY <1>1
<1>4. wire' \in [Peers -> Seq(Envelopes)]
  BY <1>1, <1>2
<1>5. /\ Range(wire'[q]) = Range(wire[q]) \cup {e}
      /\ IsInjective(wire'[q])
  BY <1>2, <1>3
<1>6. AtMostOnce'
  <2>1. /\ \A p \in Peers : IsInjective(wire[p])
        /\ \A p, u \in Peers : p # u => Range(wire[p]) \cap Range(wire[u]) = {}
    BY DEF IInv, AtMostOnce
  <2>2. \A p \in Peers : IsInjective(wire'[p])
    BY <1>3, <1>5, <2>1
  <2>3. \A p, u \in Peers : p # u => Range(wire'[p]) \cap Range(wire'[u]) = {}
    BY <1>3, <1>5, <2>1
  <2> QED BY <2>2, <2>3 DEF AtMostOnce
<1>7. StoredFirst'
  <2>1. \A f \in Envelopes, p \in Peers :
          f \in Range(outbox'[p]) \cup Range(wire'[p]) => log[f] # None /\ dest[f] = p
    BY <1>3, <1>5 DEF IInv, StoredFirst
  <2>2. \A f \in Envelopes, k \in Procs :
          f \in Range(drain'[k].batch) => log[f] # None /\ dest[f] = drain'[k].peer
    BY DEF IInv, StoredFirst
  <2> QED BY <2>1, <2>2 DEF StoredFirst
<1>8. SingleKeeper'
  <2>1. /\ \A r, u \in Senders : r # u => InHand(r)' \cap InHand(u)' = {}
        /\ \A r \in Senders, k \in Procs : InHand(r)' \cap Range(drain'[k].batch) = {}
    BY DEF IInv, SingleKeeper
  <2>2. \A r \in Senders, p \in Peers :
          InHand(r)' \cap (Range(outbox'[p]) \cup Range(wire'[p])) = {}
    BY <1>3, <1>5 DEF IInv, SingleKeeper
  <2>3. /\ \A p \in Peers, k \in Procs : Range(outbox'[p]) \cap Range(drain'[k].batch) = {}
        /\ \A k, l \in Procs : k # l => Range(drain'[k].batch) \cap Range(drain'[l].batch) = {}
    BY DEF IInv, SingleKeeper
  <2>4. ASSUME NEW k \in Procs, NEW p \in Peers
        PROVE  Range(drain'[k].batch) \cap Range(wire'[p]) = {}
    <3>1. /\ Range(drain[k].batch) \cap Range(wire[p]) = {}
          /\ Range(drain'[k].batch) \subseteq Range(drain[k].batch) \ {e}
      BY DEF IInv, SingleKeeper
    <3>2. Range(wire'[p]) \subseteq Range(wire[p]) \cup {e}
      BY <1>3, <1>5
    <3> QED BY <3>1, <3>2
  <2>5. \A p, u \in Peers : Range(outbox'[p]) \cap Range(wire'[u]) = {}
    BY <1>3, <1>5 DEF IInv, SingleKeeper
  <2> QED BY <2>1, <2>2, <2>3, <2>4, <2>5 DEF IInv, SingleKeeper
<1> QED BY <1>4, <1>6, <1>7, <1>8

\* The same for a new row of the outbox.
LEMMA JoinsOutbox ==
  ASSUME IInv, NEW e \in Envelopes, NEW q \in Peers,
         dest[e] = q, log[e] # None,
         \A p \in Peers : e \notin Range(outbox[p]) \cup Range(wire[p]),
         UNCHANGED <<dest, log, wire>>,
         outbox' = [outbox EXCEPT ![q] = Append(outbox[q], e)],
         \A r \in Senders : InHand(r)' \subseteq InHand(r) \ {e},
         \A k \in Procs : /\ drain'[k].peer = drain[k].peer
                          /\ Range(drain'[k].batch) \subseteq Range(drain[k].batch) \ {e}
                          /\ IsInjective(drain'[k].batch)
  PROVE  /\ outbox' \in [Peers -> Seq(Envelopes)]
         /\ StoredFirst' /\ SingleKeeper' /\ AtMostOnce'
<1>1. /\ outbox \in [Peers -> Seq(Envelopes)]
      /\ IsInjective(outbox[q])
  BY DEF IInv, TypeOK, SingleKeeper
<1>2. /\ Append(outbox[q], e) \in Seq(Envelopes)
      /\ Range(Append(outbox[q], e)) = Range(outbox[q]) \cup {e}
      /\ IsInjective(Append(outbox[q], e))
  BY <1>1, AppendQueue
<1>3. /\ outbox'[q] = Append(outbox[q], e)
      /\ \A p \in Peers : p # q => outbox'[p] = outbox[p]
  BY <1>1
<1>4. outbox' \in [Peers -> Seq(Envelopes)]
  BY <1>1, <1>2
<1>5. /\ Range(outbox'[q]) = Range(outbox[q]) \cup {e}
      /\ IsInjective(outbox'[q])
  BY <1>2, <1>3
<1>6. AtMostOnce'
  BY DEF IInv, AtMostOnce
<1>7. StoredFirst'
  <2>1. \A f \in Envelopes, p \in Peers :
          f \in Range(outbox'[p]) \cup Range(wire'[p]) => log[f] # None /\ dest[f] = p
    BY <1>3, <1>5 DEF IInv, StoredFirst
  <2>2. \A f \in Envelopes, k \in Procs :
          f \in Range(drain'[k].batch) => log[f] # None /\ dest[f] = drain'[k].peer
    BY DEF IInv, StoredFirst
  <2> QED BY <2>1, <2>2 DEF StoredFirst
<1>8. SingleKeeper'
  <2>1. /\ \A r, u \in Senders : r # u => InHand(r)' \cap InHand(u)' = {}
        /\ \A r \in Senders, k \in Procs : InHand(r)' \cap Range(drain'[k].batch) = {}
    BY DEF IInv, SingleKeeper
  <2>2. \A r \in Senders, p \in Peers :
          InHand(r)' \cap (Range(outbox'[p]) \cup Range(wire'[p])) = {}
    BY <1>3, <1>5 DEF IInv, SingleKeeper
  <2>3. /\ \A p \in Peers, k \in Procs : Range(outbox'[p]) \cap Range(drain'[k].batch) = {}
        /\ \A p \in Peers : IsInjective(outbox'[p])
    <3>1. /\ \A p \in Peers, k \in Procs : Range(outbox[p]) \cap Range(drain[k].batch) = {}
          /\ \A p \in Peers : IsInjective(outbox[p])
      BY DEF IInv, SingleKeeper
    <3>2. \A p \in Peers : Range(outbox'[p]) \subseteq Range(outbox[p]) \cup {e}
      BY <1>3, <1>5
    <3>3. \A p \in Peers : IsInjective(outbox'[p])
      BY <1>3, <1>5, <3>1
    <3> QED BY <3>1, <3>2, <3>3
  <2>4. /\ \A k, l \in Procs : k # l => Range(drain'[k].batch) \cap Range(drain'[l].batch) = {}
        /\ \A k \in Procs, p \in Peers : Range(drain'[k].batch) \cap Range(wire'[p]) = {}
    BY DEF IInv, SingleKeeper
  <2>5. \A p, u \in Peers : Range(outbox'[p]) \cap Range(wire'[u]) = {}
    BY <1>3, <1>5 DEF IInv, SingleKeeper
  <2>6. \A p, u \in Peers : p # u => Range(outbox'[p]) \cap Range(outbox'[u]) = {}
    BY <1>3, <1>5 DEF IInv, SingleKeeper, StoredFirst
  <2> QED BY <2>1, <2>2, <2>3, <2>4, <2>5, <2>6 DEF IInv, SingleKeeper
<1> QED BY <1>4, <1>6, <1>7, <1>8

(***************************************************************************)
(* The senders.                                                            *)
(***************************************************************************)
\* A goroutine that ends up outside Send holds no envelope any more.
LEMMA SenderRests ==
  ASSUME IInv, NEW s \in Senders, NEW n \in SenderStates,
         sender' = [sender EXCEPT ![s] = n],
         n.pc \in {"idle", "create"}, n.env = None,
         n.pc = "create" => n.peer \in Peers,
         UNCHANGED <<dest, log, outbox, drain, wire>>
  PROVE  /\ sender' \in [Senders -> SenderStates]
         /\ SenderShape' /\ DrainShape'
         /\ StoredFirst' /\ SingleKeeper' /\ AtMostOnce'
<1>1. /\ sender \in [Senders -> SenderStates]
      /\ \A r \in Senders : sender'[r] = IF r = s THEN n ELSE sender[r]
  BY DEF IInv, TypeOK
<1>2. sender' \in [Senders -> SenderStates]
  BY <1>1
<1>3. \A r \in Senders : InHand(r)' \in {InHand(r), {}}
  BY <1>1 DEF InHand
<1>4. SenderShape'
  BY <1>1 DEF IInv, SenderShape, Sending
<1>5. DrainShape'
  BY DEF IInv, DrainShape
<1>6. StoredFirst' /\ SingleKeeper' /\ AtMostOnce'
  BY <1>3, KeepOrLose
<1> QED BY <1>2, <1>4, <1>5, <1>6

LEMMA OpenCheckInv ==
  ASSUME IInv, NEW s \in Senders, NEW p \in Peers, OpenCheck(s, p)
  PROVE  IInv'
<1> DEFINE n == [pc |-> "create", peer |-> p, thread |-> None, env |-> None]
<1>1. n \in SenderStates
  BY DEF SenderStates
<1>2. TypeOK' <=> sender' \in [Senders -> SenderStates]
  BY DEF IInv, OpenCheck, TypeOK
<1> QED BY <1>1, <1>2, SenderRests DEF OpenCheck, IInv

\* OpenCreate, OpenFails and SendStoreFails end the call.
LEMMA CallEndsInv ==
  ASSUME IInv, NEW s \in Senders,
         \/ \E t \in Threads : OpenCreate(s, t)
         \/ OpenFails(s)
         \/ SendStoreFails(s)
  PROVE  IInv'
<1>1. /\ IdleSender \in SenderStates
      /\ IdleSender.pc = "idle" /\ IdleSender.env = None
  BY DEF IdleSender, SenderStates
<1>2. /\ sender' = [sender EXCEPT ![s] = IdleSender]
      /\ UNCHANGED <<trust, dest, log, outbox, link, drain, wire>>
  BY DEF OpenCreate, OpenFails, SendStoreFails
<1>3. threads' \in [Threads -> Peers \cup {None, Gone}]
  <2>1. CASE \E t \in Threads : OpenCreate(s, t)
    BY <2>1 DEF IInv, TypeOK, OpenCreate, SenderShape
  <2>2. CASE OpenFails(s) \/ SendStoreFails(s)
    BY <2>2 DEF IInv, TypeOK, OpenFails, SendStoreFails
  <2> QED BY <2>1, <2>2
<1>4. /\ sender' \in [Senders -> SenderStates]
      /\ SenderShape' /\ DrainShape'
      /\ StoredFirst' /\ SingleKeeper' /\ AtMostOnce'
  BY <1>1, <1>2, SenderRests
<1>5. TypeOK'
  BY <1>2, <1>3, <1>4 DEF IInv, TypeOK
<1> QED BY <1>4, <1>5 DEF IInv

LEMMA SendCheckInv ==
  ASSUME OutboxAssumption, IInv, NEW s \in Senders, NEW t \in Threads, NEW e \in Envelopes,
         SendCheck(s, t, e)
  PROVE  IInv'
<1> USE DEF SendCheck, AfterSign
<1>1. TypeOK'
  BY DEF IInv, TypeOK, SenderStates
<1>2. /\ \A r \in Senders : InHand(r)' = IF r = s THEN {e} ELSE InHand(r)
      /\ \A f \in Envelopes : f # e => dest'[f] = dest[f]
      /\ dest[e] \notin Peers
  BY DEF IInv, TypeOK, SenderStates, InHand, OutboxAssumption
<1>3. /\ \A p \in Peers : e \notin Range(outbox[p]) \cup Range(wire[p])
      /\ \A k \in Procs : e \notin Range(drain[k].batch)
  <2>1. \A k \in Procs : drain[k].batch # <<>> => drain[k].peer \in Peers
    BY DEF IInv, DrainShape, TypeOK, DrainStates
  <2>2. Range(<<>>) = {}
    BY EmptyQueue
  <2> QED BY <1>2, <2>1, <2>2 DEF IInv, StoredFirst
<1>4. \A r \in Senders : e \notin InHand(r)
  BY <1>2 DEF IInv, InHand, SenderShape, TypeOK, SenderStates
<1>5. SingleKeeper'
  <2>1. \A r, q \in Senders : r # q => InHand(r)' \cap InHand(q)' = {}
    BY <1>2, <1>4 DEF IInv, SingleKeeper
  <2>2. \A r \in Senders, p \in Peers :
          InHand(r)' \cap (Range(outbox[p]) \cup Range(wire[p])) = {}
    BY <1>2, <1>3 DEF IInv, SingleKeeper
  <2>3. \A r \in Senders, k \in Procs : InHand(r)' \cap Range(drain[k].batch) = {}
    BY <1>2, <1>3 DEF IInv, SingleKeeper
  <2> QED BY <2>1, <2>2, <2>3 DEF IInv, SingleKeeper
<1>6. StoredFirst' /\ AtMostOnce'
  <2>1. AtMostOnce'
    BY DEF IInv, AtMostOnce
  <2>2. StoredFirst'
    BY <1>2, <1>3 DEF IInv, StoredFirst
  <2> QED BY <2>1, <2>2
<1>7. SenderShape'
  BY <1>2 DEF IInv, TypeOK, SenderStates, SenderShape, Sending
<1>8. DrainShape'
  BY DEF IInv, DrainShape
<1> QED BY <1>1, <1>5, <1>6, <1>7, <1>8 DEF IInv

LEMMA SendAppendInv ==
  ASSUME OutboxAssumption, IInv, NEW s \in Senders, SendAppend(s)
  PROVE  IInv'
<1>1. /\ sender[s].pc = "append"
      /\ sender' = [sender EXCEPT ![s].pc = "deliver"]
      /\ log' = [log EXCEPT ![sender[s].env] = sender[s].thread]
      /\ UNCHANGED <<trust, threads, dest, outbox, link, drain, wire>>
  BY DEF SendAppend
<1>2. /\ sender[s].env \in Envelopes
      /\ sender[s].thread \in Threads
      /\ sender[s].thread # None
  BY <1>1 DEF IInv, SenderShape, Sending, OutboxAssumption
<1>3. /\ sender' \in [Senders -> SenderStates]
      /\ \A r \in Senders :
           /\ sender'[r].pc = IF r = s THEN "deliver" ELSE sender[r].pc
           /\ sender'[r].env = sender[r].env
           /\ sender'[r].peer = sender[r].peer
           /\ sender'[r].thread = sender[r].thread
  BY <1>1, SenderMoves DEF IInv, TypeOK
<1>4. /\ log' \in [Envelopes -> Threads \cup {None, Gone}]
      /\ \A e \in Envelopes : log[e] # None => log'[e] # None
      /\ log'[sender[s].env] # None
  BY <1>1, <1>2 DEF IInv, TypeOK
<1>5. TypeOK'
  BY <1>1, <1>3, <1>4 DEF IInv, TypeOK
<1>6. \A r \in Senders : InHand(r)' = InHand(r)
  BY <1>3 DEF InHand
<1>7. StoredFirst' /\ SingleKeeper' /\ AtMostOnce'
  BY <1>1, <1>4, <1>6, KeepOrLose
<1>8. SenderShape'
  BY <1>1, <1>3, <1>4 DEF IInv, SenderShape, Sending
<1>9. DrainShape'
  BY <1>1 DEF IInv, DrainShape
<1> QED BY <1>5, <1>7, <1>8, <1>9 DEF IInv

\* What holds of the envelope a goroutine has stored but not yet let go of.
LEMMA InHandOnly ==
  ASSUME OutboxAssumption, IInv, NEW s \in Senders,
         sender[s].pc \in {"deliver", "enqueue"}
  PROVE  /\ sender[s].env \in Envelopes /\ sender[s].peer \in Peers
         /\ dest[sender[s].env] = sender[s].peer
         /\ log[sender[s].env] # None
         /\ InHand(s) = {sender[s].env}
         /\ \A r \in Senders : r # s => sender[s].env \notin InHand(r)
         /\ \A p \in Peers : sender[s].env \notin Range(outbox[p]) \cup Range(wire[p])
         /\ \A k \in Procs : sender[s].env \notin Range(drain[k].batch)
<1>1. /\ sender[s].env \in Envelopes /\ sender[s].peer \in Peers
      /\ dest[sender[s].env] = sender[s].peer
      /\ log[sender[s].env] # None
      /\ sender[s].env # None
  BY DEF IInv, SenderShape, Sending, OutboxAssumption
<1>2. InHand(s) = {sender[s].env}
  BY <1>1 DEF InHand
<1> QED BY <1>1, <1>2 DEF IInv, SingleKeeper

\* The frame leaves the goroutine's hands for the link's, or stays in them.
LEMMA SendDeliverInv ==
  ASSUME OutboxAssumption, IInv, NEW s \in Senders, SendDeliver(s)
  PROVE  IInv'
<1>1. /\ sender[s].pc = "deliver"
      /\ UNCHANGED <<trust, threads, dest, log, outbox, link, drain>>
  BY DEF SendDeliver
<1>2. DrainShape'
  BY <1>1 DEF IInv, DrainShape
<1>3. CASE link[Home[s]] # "up"
  <2>1. /\ wire' = wire
        /\ sender' = [sender EXCEPT ![s] = [sender[s] EXCEPT !.pc = "enqueue"]]
    BY <1>3 DEF SendDeliver, AfterDeliver
  <2>2. /\ sender' \in [Senders -> SenderStates]
        /\ \A r \in Senders :
             /\ sender'[r].pc = IF r = s THEN "enqueue" ELSE sender[r].pc
             /\ sender'[r].env = sender[r].env
             /\ sender'[r].peer = sender[r].peer
             /\ sender'[r].thread = sender[r].thread
    BY <2>1, SenderMoves DEF IInv, TypeOK
  <2>3. TypeOK'
    BY <1>1, <2>1, <2>2 DEF IInv, TypeOK
  <2>4. \A r \in Senders : InHand(r)' = InHand(r)
    BY <2>2 DEF InHand
  <2>5. StoredFirst' /\ SingleKeeper' /\ AtMostOnce'
    BY <1>1, <2>1, <2>4, KeepOrLose
  <2>6. SenderShape'
    BY <1>1, <2>2 DEF IInv, SenderShape, Sending
  <2> QED BY <1>2, <2>3, <2>5, <2>6 DEF IInv
<1>4. CASE link[Home[s]] = "up"
  <2>1. /\ wire' = [wire EXCEPT ![sender[s].peer] =
                      Append(wire[sender[s].peer], sender[s].env)]
        /\ sender' = [sender EXCEPT ![s] = IdleSender]
    BY <1>4 DEF SendDeliver, AfterDeliver
  <2>2. \A r \in Senders : InHand(r)' = IF r = s THEN {} ELSE InHand(r)
    BY <2>1 DEF IInv, TypeOK, InHand, IdleSender
  <2>3. \A r \in Senders : InHand(r)' \subseteq InHand(r) \ {sender[s].env}
    BY <1>1, <2>2, InHandOnly
  <2>4. \A k \in Procs :
          /\ drain'[k].peer = drain[k].peer
          /\ Range(drain'[k].batch) \subseteq Range(drain[k].batch) \ {sender[s].env}
          /\ IsInjective(drain'[k].batch)
    BY <1>1, InHandOnly DEF IInv, SingleKeeper
  <2>5. /\ wire' \in [Peers -> Seq(Envelopes)]
        /\ StoredFirst' /\ SingleKeeper' /\ AtMostOnce'
    BY <1>1, <2>1, <2>3, <2>4, InHandOnly, JoinsWire
  <2>6. TypeOK'
    BY <1>1, <2>1, <2>5 DEF IInv, TypeOK, SenderStates, IdleSender
  <2>7. SenderShape'
    BY <1>1, <2>1 DEF IInv, TypeOK, SenderStates, SenderShape, Sending, IdleSender
  <2> QED BY <1>2, <2>5, <2>6, <2>7 DEF IInv
<1> QED BY <1>3, <1>4

\* The row takes over from the goroutine.
LEMMA SendEnqueueInv ==
  ASSUME OutboxAssumption, IInv, NEW s \in Senders, SendEnqueue(s)
  PROVE  IInv'
<1>1. /\ sender[s].pc = "enqueue"
      /\ outbox' = [outbox EXCEPT ![sender[s].peer] =
                      Append(outbox[sender[s].peer], sender[s].env)]
      /\ sender' = [sender EXCEPT ![s] = IdleSender]
      /\ UNCHANGED <<trust, threads, dest, log, link, drain, wire>>
  BY DEF SendEnqueue, QueuedId
<1>2. \A r \in Senders : InHand(r)' = IF r = s THEN {} ELSE InHand(r)
  BY <1>1 DEF IInv, TypeOK, InHand, IdleSender
<1>3. \A r \in Senders : InHand(r)' \subseteq InHand(r) \ {sender[s].env}
  BY <1>1, <1>2, InHandOnly
<1>4. \A k \in Procs :
        /\ drain'[k].peer = drain[k].peer
        /\ Range(drain'[k].batch) \subseteq Range(drain[k].batch) \ {sender[s].env}
        /\ IsInjective(drain'[k].batch)
  BY <1>1, InHandOnly DEF IInv, SingleKeeper
<1>5. /\ outbox' \in [Peers -> Seq(Envelopes)]
      /\ StoredFirst' /\ SingleKeeper' /\ AtMostOnce'
  BY <1>1, <1>3, <1>4, InHandOnly, JoinsOutbox
<1>6. TypeOK'
  BY <1>1, <1>5 DEF IInv, TypeOK, SenderStates, IdleSender
<1>7. SenderShape' /\ DrainShape'
  BY <1>1 DEF IInv, TypeOK, SenderStates, SenderShape, DrainShape, Sending, IdleSender
<1> QED BY <1>5, <1>6, <1>7 DEF IInv

(***************************************************************************)
(* The drain loop.                                                         *)
(***************************************************************************)
\* What holds of the head of a drain batch: nothing else holds it.
HeadOfBatch(k, e) ==
  /\ e \in Envelopes /\ drain[k].peer \in Peers
  /\ drain[k].batch \in Seq(Envelopes)
  /\ Tail(drain[k].batch) \in Seq(Envelopes)
  /\ IsInjective(Tail(drain[k].batch))
  /\ Range(Tail(drain[k].batch)) \subseteq Range(drain[k].batch) \ {e}
  /\ Len(drain[k].batch) = 1 <=> Tail(drain[k].batch) = <<>>
  /\ dest[e] = drain[k].peer
  /\ log[e] # None
  /\ \A r \in Senders : e \notin InHand(r)
  /\ \A p \in Peers : e \notin Range(outbox[p]) \cup Range(wire[p])
  /\ \A l \in Procs : l # k => e \notin Range(drain[l].batch)

LEMMA BatchOnly ==
  ASSUME OutboxAssumption, IInv, NEW k \in Procs,
         drain[k].pc \in {"deliver", "requeue"}
  PROVE  HeadOfBatch(k, Head(drain[k].batch))
<1> DEFINE e == Head(drain[k].batch)
<1>1. /\ drain[k].peer \in Peers
      /\ drain[k].batch \in Seq(Envelopes) /\ drain[k].batch # <<>>
      /\ IsInjective(drain[k].batch)
  BY DEF IInv, DrainShape, TypeOK, DrainStates, SingleKeeper
<1>2. /\ e \in Envelopes
      /\ Tail(drain[k].batch) \in Seq(Envelopes)
      /\ IsInjective(Tail(drain[k].batch))
      /\ Range(Tail(drain[k].batch)) \subseteq Range(drain[k].batch) \ {e}
      /\ Len(drain[k].batch) = 1 <=> Tail(drain[k].batch) = <<>>
      /\ e \in Range(drain[k].batch)
  BY <1>1, TailQueue
<1>3. dest[e] = drain[k].peer /\ log[e] # None
  BY <1>2 DEF IInv, StoredFirst
<1>4. /\ \A r \in Senders : e \notin InHand(r)
      /\ \A p \in Peers : e \notin Range(outbox[p]) \cup Range(wire[p])
      /\ \A l \in Procs : l # k => e \notin Range(drain[l].batch)
  BY <1>2 DEF IInv, SingleKeeper
<1> QED BY <1>1, <1>2, <1>3, <1>4 DEF HeadOfBatch

\* A loop without a batch: a tick, a failed transaction, the end of a round,
\* or a requeue that fails.
LEMMA DrainRests ==
  ASSUME IInv, NEW k \in Procs, NEW d \in DrainStates,
         drain' = [drain EXCEPT ![k] = d],
         d.pc \in {"idle", "scan"}, d.batch = <<>>,
         UNCHANGED <<trust, threads, dest, log, outbox, link, sender, wire>>
  PROVE  IInv'
<1>1. /\ drain \in [Procs -> DrainStates]
      /\ \A l \in Procs : drain'[l] = IF l = k THEN d ELSE drain[l]
  BY DEF IInv, TypeOK
<1>2. drain' \in [Procs -> DrainStates]
  BY <1>1
<1>3. TypeOK'
  BY <1>2 DEF IInv, TypeOK
<1>4. SenderShape'
  BY DEF IInv, SenderShape
<1>5. DrainShape'
  BY <1>1 DEF IInv, DrainShape
<1>6. \A r \in Senders : InHand(r)' = InHand(r)
  BY DEF InHand
<1>7. StoredFirst' /\ SingleKeeper' /\ AtMostOnce'
  BY <1>1, <1>6, KeepOrLose
<1> QED BY <1>3, <1>4, <1>5, <1>7 DEF IInv

LEMMA DrainTickInv ==
  ASSUME IInv, NEW k \in Procs, DrainTick(k)
  PROVE  IInv'
<1> DEFINE d == [pc |-> "scan", todo |-> DrainPeers, peer |-> None, batch |-> <<>>]
<1>1. d \in DrainStates
  BY EmptyQueue DEF DrainStates, DrainPeers
<1> QED BY <1>1, DrainRests DEF DrainTick

LEMMA DrainDoneInv ==
  ASSUME IInv, NEW k \in Procs, DrainDone(k)
  PROVE  IInv'
<1>1. IdleDrain \in DrainStates /\ IdleDrain.pc = "idle" /\ IdleDrain.batch = <<>>
  BY EmptyQueue DEF DrainStates, IdleDrain
<1> QED BY <1>1, DrainRests DEF DrainDone

LEMMA DrainTakeFailsInv ==
  ASSUME IInv, NEW k \in Procs, NEW p \in Peers, DrainTakeFails(k, p)
  PROVE  IInv'
<1> DEFINE d == [pc |-> "scan", todo |-> drain[k].todo \ {p},
                 peer |-> p, batch |-> <<>>]
<1>1. d \in DrainStates
  BY EmptyQueue DEF IInv, TypeOK, DrainStates
<1> QED BY <1>1, DrainRests DEF DrainTakeFails

LEMMA DrainRequeueFailsInv ==
  ASSUME IInv, NEW k \in Procs, DrainRequeueFails(k)
  PROVE  IInv'
<1> DEFINE d == [pc |-> "scan", todo |-> drain[k].todo,
                 peer |-> drain[k].peer, batch |-> <<>>]
<1>1. d \in DrainStates
  BY EmptyQueue DEF IInv, TypeOK, DrainStates
<1>2. drain' = [drain EXCEPT ![k] = d]
  BY DEF DrainRequeueFails, DrainAt
<1> QED BY <1>1, <1>2, DrainRests DEF DrainRequeueFails

\* DrainOutbox moves the peer's rows, all of them, into an empty batch.
LEMMA DrainTakeInv ==
  ASSUME IInv, NEW k \in Procs, NEW p \in Peers, DrainTake(k, p)
  PROVE  IInv'
<1> DEFINE d == [pc |-> IF outbox[p] = <<>> THEN "scan" ELSE "deliver",
                 todo |-> drain[k].todo \ {p}, peer |-> p, batch |-> outbox[p]]
<1>1. /\ drain[k].pc = "scan"
      /\ drain' = [drain EXCEPT ![k] = d]
      /\ outbox' = [outbox EXCEPT ![p] = <<>>]
      /\ UNCHANGED <<trust, threads, dest, log, link, sender, wire>>
  BY DEF DrainTake, RowsLeft
<1>2. d \in DrainStates /\ d.batch = outbox[p] /\ d.peer = p
      /\ d.pc = (IF outbox[p] = <<>> THEN "scan" ELSE "deliver")
  BY DEF IInv, TypeOK, DrainStates
<1> HIDE DEF d
<1>3. /\ drain \in [Procs -> DrainStates]
      /\ \A l \in Procs : drain'[l] = IF l = k THEN d ELSE drain[l]
  BY <1>1 DEF IInv, TypeOK
<1>4. /\ outbox \in [Peers -> Seq(Envelopes)]
      /\ \A q \in Peers : outbox'[q] = IF q = p THEN <<>> ELSE outbox[q]
  BY <1>1 DEF IInv, TypeOK
<1>5. Range(<<>>) = {} /\ IsInjective(<<>>) /\ <<>> \in Seq(Envelopes)
  BY EmptyQueue
<1>6. /\ drain' \in [Procs -> DrainStates]
      /\ outbox' \in [Peers -> Seq(Envelopes)]
  BY <1>1, <1>2, <1>3, <1>4, <1>5
<1>7. TypeOK'
  BY <1>1, <1>6 DEF IInv, TypeOK
<1>8. SenderShape'
  BY <1>1 DEF IInv, SenderShape
<1>9. DrainShape'
  BY <1>2, <1>3 DEF IInv, DrainShape
<1>10. /\ drain'[k].batch = outbox[p] /\ drain'[k].peer = p
       /\ \A l \in Procs : l # k => drain'[l] = drain[l]
       /\ outbox'[p] = <<>>
       /\ \A q \in Peers : q # p => outbox'[q] = outbox[q]
  BY <1>2, <1>3, <1>4
<1>11. \A r \in Senders : InHand(r)' = InHand(r)
  BY <1>1 DEF InHand
<1>12. AtMostOnce'
  BY <1>1 DEF IInv, AtMostOnce
<1>13. StoredFirst'
  <2>1. \A f \in Envelopes, q \in Peers :
          f \in Range(outbox'[q]) \cup Range(wire'[q]) => log'[f] # None /\ dest'[f] = q
    BY <1>1, <1>5, <1>10 DEF IInv, StoredFirst
  <2>2. \A f \in Envelopes, l \in Procs :
          f \in Range(drain'[l].batch) => log'[f] # None /\ dest'[f] = drain'[l].peer
    BY <1>1, <1>10 DEF IInv, StoredFirst
  <2> QED BY <2>1, <2>2 DEF StoredFirst
<1>14. SingleKeeper'
  <2>1. /\ \A r, u \in Senders : r # u => InHand(r)' \cap InHand(u)' = {}
        /\ \A r \in Senders, q \in Peers :
             InHand(r)' \cap (Range(outbox'[q]) \cup Range(wire'[q])) = {}
    BY <1>1, <1>5, <1>10, <1>11 DEF IInv, SingleKeeper
  <2>2. \A r \in Senders, l \in Procs : InHand(r)' \cap Range(drain'[l].batch) = {}
    BY <1>10, <1>11 DEF IInv, SingleKeeper
  <2>3. /\ \A q \in Peers : IsInjective(outbox'[q])
        /\ \A l \in Procs : IsInjective(drain'[l].batch)
    BY <1>5, <1>10 DEF IInv, SingleKeeper
  <2>4. \A q \in Peers, l \in Procs : Range(outbox'[q]) \cap Range(drain'[l].batch) = {}
    BY <1>5, <1>10 DEF IInv, SingleKeeper
  <2>5. \A l, m \in Procs : l # m => Range(drain'[l].batch) \cap Range(drain'[m].batch) = {}
    BY <1>10 DEF IInv, SingleKeeper
  <2>6. \A l \in Procs, q \in Peers : Range(drain'[l].batch) \cap Range(wire'[q]) = {}
    BY <1>1, <1>10 DEF IInv, SingleKeeper
  <2>7. \A q, u \in Peers : Range(outbox'[q]) \cap Range(wire'[u]) = {}
    BY <1>1, <1>5, <1>10 DEF IInv, SingleKeeper
  <2>8. \A q, u \in Peers : q # u => Range(outbox'[q]) \cap Range(outbox'[u]) = {}
    BY <1>5, <1>10 DEF IInv, SingleKeeper
  <2> QED BY <2>1, <2>2, <2>3, <2>4, <2>5, <2>6, <2>7, <2>8 DEF SingleKeeper
<1> QED BY <1>7, <1>8, <1>9, <1>12, <1>13, <1>14 DEF IInv

\* The head of the batch goes to the link; or the batch waits for its requeue.
LEMMA DrainDeliverInv ==
  ASSUME OutboxAssumption, IInv, NEW k \in Procs, DrainDeliver(k)
  PROVE  IInv'
<1>1. /\ drain[k].pc = "deliver"
      /\ UNCHANGED <<trust, threads, dest, log, outbox, link, sender>>
      /\ drain \in [Procs -> DrainStates]
  BY DEF DrainDeliver, IInv, TypeOK
<1>2. SenderShape'
  BY <1>1 DEF IInv, SenderShape
<1>3. \A r \in Senders : InHand(r)' = InHand(r)
  BY <1>1 DEF InHand
<1>4. CASE link[k] # "up"
  <2>1. drain' = DrainAt(k, "requeue", drain[k].batch) /\ wire' = wire
    BY <1>4 DEF DrainDeliver
  <2>2. drain[k].batch \in Seq(Envelopes)
    BY <1>1 DEF DrainStates
  <2>3. /\ drain' \in [Procs -> DrainStates]
        /\ \A l \in Procs :
             /\ drain'[l].pc = IF l = k THEN "requeue" ELSE drain[l].pc
             /\ drain'[l].batch = drain[l].batch
             /\ drain'[l].peer = drain[l].peer
    BY <1>1, <2>1, <2>2, DrainMoves
  <2>4. TypeOK'
    BY <1>1, <2>1, <2>3 DEF IInv, TypeOK
  <2>5. DrainShape'
    BY <1>1, <2>3 DEF IInv, DrainShape
  <2>6. StoredFirst' /\ SingleKeeper' /\ AtMostOnce'
    BY <1>1, <1>3, <2>1, <2>3, KeepOrLose
  <2> QED BY <1>2, <2>4, <2>5, <2>6 DEF IInv
<1>5. CASE link[k] = "up"
  <2>1. PICK e : e = Head(drain[k].batch) /\ HeadOfBatch(k, e)
    BY <1>1, BatchOnly
  <2>2. PICK c \in {"scan", "deliver"} :
          /\ c = IF Len(drain[k].batch) = 1 THEN "scan" ELSE "deliver"
          /\ drain' = DrainAt(k, c, Tail(drain[k].batch))
          /\ wire' = [wire EXCEPT ![drain[k].peer] = Append(wire[drain[k].peer], e)]
    BY <1>5, <2>1 DEF DrainDeliver
  <2>3. /\ drain' \in [Procs -> DrainStates]
        /\ \A l \in Procs :
             /\ drain'[l].pc = IF l = k THEN c ELSE drain[l].pc
             /\ drain'[l].batch = IF l = k THEN Tail(drain[k].batch) ELSE drain[l].batch
             /\ drain'[l].peer = drain[l].peer
    <3>1. /\ c \in {"idle", "scan", "deliver", "requeue"}
          /\ Tail(drain[k].batch) \in Seq(Envelopes)
          /\ drain' = DrainAt(k, c, Tail(drain[k].batch))
      BY <2>1, <2>2 DEF HeadOfBatch
    <3> QED BY <1>1, <3>1 DEF DrainAt, DrainStates
  <2>4. \A l \in Procs :
          /\ drain'[l].peer = drain[l].peer
          /\ Range(drain'[l].batch) \subseteq Range(drain[l].batch) \ {e}
          /\ IsInjective(drain'[l].batch)
    BY <2>1, <2>3 DEF IInv, SingleKeeper, HeadOfBatch
  <2>5. \A r \in Senders : InHand(r)' \subseteq InHand(r) \ {e}
    BY <1>3, <2>1 DEF HeadOfBatch
  <2>6. /\ wire' \in [Peers -> Seq(Envelopes)]
        /\ StoredFirst' /\ SingleKeeper' /\ AtMostOnce'
    BY <1>1, <2>1, <2>2, <2>4, <2>5, JoinsWire DEF HeadOfBatch
  <2>7. TypeOK'
    BY <1>1, <2>3, <2>6 DEF IInv, TypeOK
  <2>8. DrainShape'
    <3>1. ASSUME NEW l \in Procs, l # k
          PROVE  /\ drain'[l].pc = drain[l].pc /\ drain'[l].batch = drain[l].batch
                 /\ drain'[l].peer = drain[l].peer
      BY <2>3, <3>1
    <3>2. /\ drain'[k].pc \in {"scan", "deliver"}
          /\ drain'[k].pc = "scan" <=> drain'[k].batch = <<>>
          /\ drain'[k].peer \in Peers
      BY <2>1, <2>2, <2>3 DEF HeadOfBatch
    <3> QED BY <3>1, <3>2 DEF IInv, DrainShape
  <2> QED BY <1>2, <2>6, <2>7, <2>8 DEF IInv
<1> QED BY <1>4, <1>5

\* The head of the batch gets a new row, the rest of it is dropped.
LEMMA DrainRequeueInv ==
  ASSUME OutboxAssumption, IInv, NEW k \in Procs, DrainRequeue(k)
  PROVE  IInv'
<1>1. PICK e : e = Head(drain[k].batch) /\ HeadOfBatch(k, e)
  BY BatchOnly DEF DrainRequeue
<1>2. /\ drain[k].pc = "requeue"
      /\ outbox' = [outbox EXCEPT ![drain[k].peer] = Append(outbox[drain[k].peer], e)]
      /\ drain' = DrainAt(k, "scan", <<>>)
      /\ UNCHANGED <<trust, threads, dest, log, link, sender, wire>>
      /\ drain \in [Procs -> DrainStates]
  BY <1>1 DEF DrainRequeue, IInv, TypeOK
<1>3. Range(<<>>) = {} /\ IsInjective(<<>>) /\ <<>> \in Seq(Envelopes)
  BY EmptyQueue
<1>4. /\ drain' \in [Procs -> DrainStates]
      /\ \A l \in Procs :
           /\ drain'[l].pc = IF l = k THEN "scan" ELSE drain[l].pc
           /\ drain'[l].batch = IF l = k THEN <<>> ELSE drain[l].batch
           /\ drain'[l].peer = drain[l].peer
  BY <1>2, <1>3, DrainMoves
<1>5. \A l \in Procs :
        /\ drain'[l].peer = drain[l].peer
        /\ Range(drain'[l].batch) \subseteq Range(drain[l].batch) \ {e}
        /\ IsInjective(drain'[l].batch)
  BY <1>1, <1>3, <1>4 DEF IInv, SingleKeeper, HeadOfBatch
<1>6. \A r \in Senders : InHand(r)' \subseteq InHand(r) \ {e}
  <2>1. \A r \in Senders : InHand(r)' = InHand(r)
    BY <1>2 DEF InHand
  <2> QED BY <1>1, <2>1 DEF HeadOfBatch
<1>7. /\ outbox' \in [Peers -> Seq(Envelopes)]
      /\ StoredFirst' /\ SingleKeeper' /\ AtMostOnce'
  BY <1>1, <1>2, <1>5, <1>6, JoinsOutbox DEF HeadOfBatch
<1>8. TypeOK'
  BY <1>2, <1>4, <1>7 DEF IInv, TypeOK
<1>9. SenderShape'
  BY <1>2 DEF IInv, SenderShape
<1>10. DrainShape'
  BY <1>4 DEF IInv, DrainShape
<1> QED BY <1>7, <1>8, <1>9, <1>10 DEF IInv

(***************************************************************************)
(* The process and the operator.                                           *)
(***************************************************************************)
\* No link step touches what is kept.
LEMMA LinkInv ==
  ASSUME IInv, NEW k \in Procs,
         Start(k) \/ LinkBreaks(k) \/ Reconnect(k) \/ Stop(k)
  PROVE  IInv'
<1>1. /\ link' \in [Procs -> {"none", "up", "down"}]
      /\ UNCHANGED <<trust, threads, dest, log, outbox, sender, drain, wire>>
  BY DEF IInv, TypeOK, Start, LinkBreaks, Reconnect, Stop
<1>2. TypeOK'
  BY <1>1 DEF IInv, TypeOK
<1>3. SenderShape' /\ DrainShape' /\ AtMostOnce'
  BY <1>1 DEF IInv, SenderShape, DrainShape, AtMostOnce
<1>4. \A r \in Senders : InHand(r)' = InHand(r)
  BY <1>1 DEF InHand
<1>5. StoredFirst' /\ SingleKeeper'
  BY <1>1, <1>4, KeepOrLose
<1> QED BY <1>2, <1>3, <1>5 DEF IInv

\* A crash only takes things away from their keepers.
LEMMA CrashInv ==
  ASSUME IInv, NEW k \in Procs, Crash(k)
  PROVE  IInv'
<1>1. /\ link' = [link EXCEPT ![k] = "none"]
      /\ sender' = [s \in Senders |-> IF Home[s] = k THEN IdleSender ELSE sender[s]]
      /\ drain' = [drain EXCEPT ![k] = IdleDrain]
      /\ UNCHANGED <<trust, threads, dest, log, outbox, wire>>
  BY DEF Crash
<1>2. /\ sender' \in [Senders -> SenderStates]
      /\ drain' \in [Procs -> DrainStates]
      /\ link' \in [Procs -> {"none", "up", "down"}]
  BY <1>1, EmptyQueue DEF IInv, TypeOK, SenderStates, DrainStates, IdleSender, IdleDrain
<1>3. \A s \in Senders : \/ sender'[s] = sender[s]
                         \/ sender'[s].pc = "idle" /\ sender'[s].env = None
  BY <1>1 DEF IdleSender
<1>4. \A l \in Procs : \/ drain'[l] = drain[l]
                       \/ drain'[l].pc = "idle" /\ drain'[l].batch = <<>>
  BY <1>1 DEF IInv, TypeOK, IdleDrain
<1>5. \A s \in Senders : InHand(s)' \in {InHand(s), {}}
  BY <1>3 DEF InHand
<1>6. StoredFirst' /\ SingleKeeper' /\ AtMostOnce'
  BY <1>1, <1>4, <1>5, KeepOrLose
<1>7. TypeOK'
  BY <1>1, <1>2 DEF IInv, TypeOK
<1>8. SenderShape'
  BY <1>1, <1>3 DEF IInv, SenderShape, Sending
<1>9. DrainShape'
  BY <1>4 DEF IInv, DrainShape
<1> QED BY <1>6, <1>7, <1>8, <1>9 DEF IInv

LEMMA OperatorInv ==
  ASSUME OutboxAssumption, IInv, NEW p \in Peers, OperatorStep(p)
  PROVE  IInv'
<1>1. CASE PairPeer(p) \/ RevokePeer(p)
  <2>1. /\ trust' \in [Peers -> {"absent", "paired", "revoked"}]
        /\ UNCHANGED <<threads, dest, log, outbox, link, sender, drain, wire>>
    BY <1>1 DEF IInv, TypeOK, PairPeer, RevokePeer
  <2>2. TypeOK'
    BY <2>1 DEF IInv, TypeOK
  <2>3. SenderShape' /\ DrainShape'
    BY <2>1 DEF IInv, SenderShape, DrainShape
  <2>4. \A r \in Senders : InHand(r)' = InHand(r)
    BY <2>1 DEF InHand
  <2>5. StoredFirst' /\ SingleKeeper' /\ AtMostOnce'
    BY <2>1, <2>4, KeepOrLose
  <2> QED BY <2>2, <2>3, <2>5 DEF IInv
<1>2. CASE DeletePeer(p)
  <2>1. /\ log' = [e \in Envelopes |->
                     IF log[e] \in {t \in Threads : threads[t] = p} THEN Gone ELSE log[e]]
        /\ threads' = [t \in Threads |->
                         IF t \in {u \in Threads : threads[u] = p} THEN Gone ELSE threads[t]]
        /\ outbox' = [outbox EXCEPT ![p] = <<>>]
        /\ trust' = [trust EXCEPT ![p] = "absent"]
        /\ UNCHANGED <<dest, link, sender, drain, wire>>
    BY <1>2 DEF DeletePeer
  <2>2. /\ log' \in [Envelopes -> Threads \cup {None, Gone}]
        /\ threads' \in [Threads -> Peers \cup {None, Gone}]
        /\ trust' \in [Peers -> {"absent", "paired", "revoked"}]
        /\ outbox' \in [Peers -> Seq(Envelopes)]
    BY <2>1, EmptyQueue DEF IInv, TypeOK
  <2>3. \A e \in Envelopes : log[e] # None => log'[e] # None
    BY <2>1 DEF OutboxAssumption
  <2>4. \A q \in Peers : outbox'[q] \in {outbox[q], <<>>}
    BY <2>1 DEF IInv, TypeOK
  <2>5. \A r \in Senders : InHand(r)' = InHand(r)
    BY <2>1 DEF InHand
  <2>6. TypeOK'
    BY <2>1, <2>2 DEF IInv, TypeOK
  <2>7. SenderShape' /\ DrainShape'
    BY <2>1, <2>3 DEF IInv, SenderShape, DrainShape, Sending
  <2>8. StoredFirst' /\ SingleKeeper' /\ AtMostOnce'
    BY <2>1, <2>3, <2>4, <2>5, KeepOrLose
  <2> QED BY <2>6, <2>7, <2>8 DEF IInv
<1> QED BY <1>1, <1>2 DEF OperatorStep

(***************************************************************************)
(* The theorems.                                                           *)
(***************************************************************************)
LEMMA NextInv == OutboxAssumption /\ IInv /\ [Next]_vars => IInv'
<1> SUFFICES ASSUME OutboxAssumption, IInv, [Next]_vars PROVE IInv'
  OBVIOUS
<1>1. ASSUME NEW s \in Senders, SenderCall(s)  PROVE IInv'
  BY <1>1, OpenCheckInv, SendCheckInv DEF SenderCall
<1>2. ASSUME NEW s \in Senders, SenderStep(s)  PROVE IInv'
  BY <1>2, CallEndsInv, SendAppendInv, SendDeliverInv, SendEnqueueInv DEF SenderStep
<1>3. ASSUME NEW k \in Procs, DrainStep(k)  PROVE IInv'
  BY <1>3, DrainTickInv, DrainTakeInv, DrainTakeFailsInv, DrainDeliverInv,
     DrainRequeueInv, DrainRequeueFailsInv, DrainDoneInv DEF DrainStep
<1>4. ASSUME NEW k \in Procs, ProcessStep(k)  PROVE IInv'
  BY <1>4, LinkInv, CrashInv DEF ProcessStep
<1>5. ASSUME NEW p \in Peers, OperatorStep(p)  PROVE IInv'
  BY <1>5, OperatorInv
<1>6. CASE UNCHANGED vars
  <2>1. /\ UNCHANGED <<trust, threads, dest, log, outbox, link, sender, drain, wire>>
        /\ \A r \in Senders : InHand(r)' = InHand(r)
    BY <1>6 DEF vars, InHand
  <2>2. TypeOK' /\ SenderShape' /\ DrainShape'
    BY <2>1 DEF IInv, TypeOK, SenderShape, DrainShape
  <2>3. StoredFirst' /\ SingleKeeper' /\ AtMostOnce'
    BY <2>1, KeepOrLose
  <2> QED BY <2>2, <2>3 DEF IInv
<1> QED BY <1>1, <1>2, <1>3, <1>4, <1>5, <1>6 DEF Next

LEMMA Inductive == Spec => []IInv
<1>1. Init => IInv
  BY InitInv, OutboxAssumption
<1>2. IInv /\ [Next]_vars => IInv'
  BY NextInv, OutboxAssumption
<1> QED BY <1>1, <1>2, PTL DEF Spec

\* Every variable keeps its type.
THEOREM TypeCorrect == Spec => []TypeOK
<1>1. IInv => TypeOK
  BY DEF IInv
<1> QED BY <1>1, Inductive, PTL

\* An envelope is in one place at a time: sendAs, the outbox, one drain
\* batch or the link (node.go sendAs and tryDrainOutbox, store.go DrainOutbox).
THEOREM OneKeeper == Spec => []SingleKeeper
<1>1. IInv => SingleKeeper
  BY DEF IInv
<1> QED BY <1>1, Inductive, PTL

\* The link accepts no envelope twice, in this process or in another.
THEOREM HandedOnce == Spec => []AtMostOnce
<1>1. IInv => AtMostOnce
  BY DEF IInv
<1> QED BY <1>1, Inductive, PTL

\* Whatever is queued, drained or handed over was stored before, and goes to
\* the peer it was addressed to.
THEOREM StoredBeforeSent == Spec => []StoredFirst
<1>1. IInv => StoredFirst
  BY DEF IInv
<1> QED BY <1>1, Inductive, PTL

(***************************************************************************)
(* Outbox implements Mailbox: every step of a node accepts an envelope,    *)
(* hands one to the link, or gives some up (none, mostly).                 *)
(***************************************************************************)


\* What is held or handed was made for some peer.
LEMMA HasAddressee ==
  ASSUME OutboxAssumption, IInv, NEW e \in Envelopes, Held(e) \/ Handed(e)
  PROVE  dest[e] \in Peers
<1>1. CASE Handed(e) \/ \E p \in Peers : e \in Range(outbox[p])
  BY <1>1 DEF Handed, IInv, StoredFirst
<1>2. CASE \E s \in Senders : e \in InHand(s)
  <2>1. PICK s \in Senders : sender[s].env = e /\ sender[s].env # None
    BY <1>2 DEF InHand
  <2> QED BY <2>1 DEF IInv, SenderShape
<1>3. CASE \E k \in Procs : e \in Range(drain[k].batch)
  <2>1. PICK k \in Procs : e \in Range(drain[k].batch)
    BY <1>3
  <2>2. drain[k].batch # <<>>
    BY <2>1, EmptyQueue
  <2>3. drain[k].peer \in Peers
    BY <2>2 DEF IInv, DrainShape, TypeOK, DrainStates
  <2> QED BY <2>1, <2>3 DEF IInv, StoredFirst
<1> QED BY <1>1, <1>2, <1>3 DEF Held

(***************************************************************************)
(* The three kinds of steps.                                               *)
(***************************************************************************)
\* Nothing new is held, handed or accepted: what is not held any more was
\* given up.
LEMMA GivesUp ==
  ASSUME OutboxAssumption, IInv, UNCHANGED <<dest, wire>>,
         \A e \in Envelopes : Held(e)' => Held(e)
  PROVE  Mail!MailNext
<1> DEFINE S == {e \in Envelopes : Held(e) /\ ~Held(e)' /\ ~Handed(e)}
<1>1. \A e \in Envelopes : Handed(e)' <=> Handed(e)
  BY DEF Handed
<1>2. \A e \in Envelopes : Held(e) => dest[e] # None
  BY HasAddressee DEF OutboxAssumption
<1>3. \A e \in S : Status[e] = "held"
  BY DEF Status
<1>4. Status' = [e \in Envelopes |-> IF e \in S THEN "dropped" ELSE Status[e]]
  BY <1>1, <1>2 DEF Status
<1>5. Mail!Drop(S)
  BY <1>3, <1>4 DEF Mail!Drop
<1> QED BY <1>5 DEF Mail!MailNext

\* The link accepts one envelope from its keeper; the others stay.
LEMMA HandsOver ==
  ASSUME OutboxAssumption, IInv, NEW e \in Envelopes, NEW q \in Peers,
         dest[e] = q, dest' = dest,
         Held(e), ~Handed(e),
         \A f \in Envelopes : f # e => (Held(f)' <=> Held(f)),
         wire' = [wire EXCEPT ![q] = Append(wire[q], e)]
  PROVE  Mail!MailNext
<1>1. /\ wire \in [Peers -> Seq(Envelopes)]
      /\ Range(Append(wire[q], e)) = Range(wire[q]) \cup {e}
  BY AppendQueue DEF IInv, TypeOK
<1>2. /\ Range(wire'[q]) = Range(wire[q]) \cup {e}
      /\ \A p \in Peers : p # q => wire'[p] = wire[p]
  BY <1>1
<1>3. \A f \in Envelopes : Handed(f)' <=> f = e \/ Handed(f)
  <2>1. Handed(e)'
    <3>1. e \in Range(wire'[q])
      BY <1>2
    <3> QED BY <3>1 DEF Handed
  <2>2. ASSUME NEW f \in Envelopes, f # e  PROVE Handed(f)' <=> Handed(f)
    <3>1. \A p \in Peers : f \in Range(wire'[p]) <=> f \in Range(wire[p])
      BY <1>2, <2>2
    <3> QED BY <3>1 DEF Handed
  <2> QED BY <2>1, <2>2
<1>4. Status[e] = "held"
  BY DEF Status
<1>5. Status' = [Status EXCEPT ![e] = "handed"]
  BY <1>3 DEF Status
<1>6. Mail!Hand(e, q)
  BY <1>4, <1>5 DEF Mail!Hand
<1> QED BY <1>6 DEF Mail!MailNext

\* A fresh envelope is accepted for a peer.
LEMMA Submits ==
  ASSUME OutboxAssumption, IInv, NEW s \in Senders, NEW t \in Threads, NEW e \in Envelopes,
         SendCheck(s, t, e)
  PROVE  Mail!MailNext
<1>1. /\ sender[s].pc = "idle" /\ threads[t] \in Peers /\ dest[e] = None
      /\ dest' = [dest EXCEPT ![e] = threads[t]]
      /\ sender' = [sender EXCEPT ![s] = [pc |-> "append", peer |-> threads[t],
                                          thread |-> t, env |-> e]]
      /\ UNCHANGED <<outbox, drain, wire>>
  BY DEF SendCheck, AfterSign
<1>2. /\ dest \in [Envelopes -> Peers \cup {None}]
      /\ sender \in [Senders -> SenderStates]
      /\ None \notin Peers /\ None \notin Envelopes
  BY DEF IInv, TypeOK, OutboxAssumption
<1>3. \A r \in Senders : InHand(r)' = IF r = s THEN {e} ELSE InHand(r)
  BY <1>1, <1>2 DEF InHand
<1>4. InHand(s) = {}
  BY <1>1 DEF InHand, IInv, SenderShape, Sending
<1>5. \A f \in Envelopes : Held(f)' <=> f = e \/ Held(f)
  BY <1>1, <1>3, <1>4 DEF Held
<1>6. \A f \in Envelopes : Handed(f)' <=> Handed(f)
  BY <1>1 DEF Handed
<1>7. ~Held(e) /\ ~Handed(e)
  BY <1>1, <1>2, HasAddressee
<1>8. Status[e] = "new"
  BY <1>1, <1>7 DEF Status
<1>9. Status' = [Status EXCEPT ![e] = "held"]
  BY <1>1, <1>2, <1>5, <1>6, <1>7 DEF Status
<1>10. Mail!Submit(e, threads[t])
  BY <1>1, <1>8, <1>9 DEF Mail!Submit
<1> QED BY <1>1, <1>10 DEF Mail!MailNext

(***************************************************************************)
(* The actions.                                                            *)
(***************************************************************************)
\* A step in which every keeper keeps what it has or less.
LEMMA KeepersLose ==
  ASSUME OutboxAssumption, IInv, UNCHANGED <<dest, wire>>,
         \A s \in Senders : InHand(s)' \subseteq InHand(s),
         \A p \in Peers : Range(outbox'[p]) \subseteq Range(outbox[p]),
         \A k \in Procs : Range(drain'[k].batch) \subseteq Range(drain[k].batch)
  PROVE  Mail!MailNext
<1>1. \A e \in Envelopes : Held(e)' => Held(e)
  BY DEF Held
<1> QED BY <1>1, GivesUp

\* A goroutine that changes its place and keeps its envelope or puts it down.
LEMMA SenderMaps ==
  ASSUME OutboxAssumption, IInv, NEW s \in Senders,
         UNCHANGED <<dest, outbox, drain, wire>>,
         \/ \E n \in SenderStates : n.env = None /\ sender' = [sender EXCEPT ![s] = n]
         \/ \E c : sender' = [sender EXCEPT ![s].pc = c]
  PROVE  Mail!MailNext
<1>1. sender \in [Senders -> SenderStates]
  BY DEF IInv, TypeOK
<1>2. \A r \in Senders : InHand(r)' \subseteq InHand(r)
  <2>1. CASE \E n \in SenderStates : n.env = None /\ sender' = [sender EXCEPT ![s] = n]
    BY <1>1, <2>1 DEF InHand
  <2>2. CASE \E c : sender' = [sender EXCEPT ![s].pc = c]
    <3>1. \A r \in Senders : sender'[r].env = sender[r].env
      BY <1>1, <2>2 DEF SenderStates
    <3> QED BY <3>1 DEF InHand
  <2> QED BY <2>1, <2>2
<1> QED BY <1>2, KeepersLose

LEMMA CallMaps ==
  ASSUME OutboxAssumption, IInv, NEW s \in Senders,
         \/ \E p \in Peers : OpenCheck(s, p)
         \/ \E t \in Threads : OpenCreate(s, t)
         \/ OpenFails(s) \/ SendStoreFails(s) \/ SendAppend(s)
  PROVE  Mail!MailNext
<1>1. CASE \E p \in Peers : OpenCheck(s, p)
  <2>1. PICK p \in Peers :
          /\ sender' = [sender EXCEPT ![s] = [pc |-> "create", peer |-> p,
                                              thread |-> None, env |-> None]]
          /\ UNCHANGED <<dest, outbox, drain, wire>>
    BY <1>1 DEF OpenCheck
  <2>2. [pc |-> "create", peer |-> p, thread |-> None, env |-> None] \in SenderStates
    BY DEF SenderStates
  <2> QED BY <2>1, <2>2, SenderMaps
<1>2. CASE (\E t \in Threads : OpenCreate(s, t)) \/ OpenFails(s) \/ SendStoreFails(s)
  <2>1. /\ sender' = [sender EXCEPT ![s] = IdleSender]
        /\ UNCHANGED <<dest, outbox, drain, wire>>
    BY <1>2 DEF OpenCreate, OpenFails, SendStoreFails
  <2>2. IdleSender \in SenderStates /\ IdleSender.env = None
    BY DEF SenderStates, IdleSender
  <2> QED BY <2>1, <2>2, SenderMaps
<1>3. CASE SendAppend(s)
  BY <1>3, SenderMaps DEF SendAppend
<1> QED BY <1>1, <1>2, <1>3

LEMMA SendDeliverMaps ==
  ASSUME OutboxAssumption, IInv, NEW s \in Senders, SendDeliver(s)
  PROVE  Mail!MailNext
<1>1. /\ sender[s].pc = "deliver"
      /\ UNCHANGED <<dest, outbox, drain>>
      /\ sender \in [Senders -> SenderStates]
  BY DEF SendDeliver, IInv, TypeOK
<1>2. CASE link[Home[s]] # "up"
  <2>1. wire' = wire /\ sender' = [sender EXCEPT ![s].pc = "enqueue"]
    BY <1>2 DEF SendDeliver, AfterDeliver
  <2> QED BY <1>1, <2>1, SenderMaps
<1>3. CASE link[Home[s]] = "up"
  <2> DEFINE e == sender[s].env
             q == sender[s].peer
  <2>1. /\ wire' = [wire EXCEPT ![q] = Append(wire[q], e)]
        /\ sender' = [sender EXCEPT ![s] = IdleSender]
    BY <1>3 DEF SendDeliver, AfterDeliver
  <2>2. /\ e \in Envelopes /\ q \in Peers /\ dest[e] = q
        /\ InHand(s) = {e}
        /\ \A p \in Peers : e \notin Range(wire[p])
    BY <1>1, InHandOnly
  <2>3. \A r \in Senders : InHand(r)' = IF r = s THEN {} ELSE InHand(r)
    BY <1>1, <2>1 DEF InHand, IdleSender
  <2> HIDE DEF e, q
  <2>4. Held(e) /\ ~Handed(e)
    BY <2>2 DEF Held, Handed
  <2>5. \A f \in Envelopes : f # e => (Held(f)' <=> Held(f))
    BY <1>1, <2>2, <2>3 DEF Held
  <2> QED BY <1>1, <2>1, <2>2, <2>4, <2>5, HandsOver
<1> QED BY <1>2, <1>3

LEMMA SendEnqueueMaps ==
  ASSUME OutboxAssumption, IInv, NEW s \in Senders, SendEnqueue(s)
  PROVE  Mail!MailNext
<1> DEFINE e == sender[s].env
           q == sender[s].peer
<1>1. /\ sender[s].pc = "enqueue"
      /\ outbox' = [outbox EXCEPT ![q] = Append(outbox[q], e)]
      /\ sender' = [sender EXCEPT ![s] = IdleSender]
      /\ UNCHANGED <<dest, drain, wire>>
      /\ outbox \in [Peers -> Seq(Envelopes)]
      /\ sender \in [Senders -> SenderStates]
  BY DEF SendEnqueue, QueuedId, IInv, TypeOK
<1>2. e \in Envelopes /\ q \in Peers /\ InHand(s) = {e}
  BY <1>1, InHandOnly
<1>3. \A r \in Senders : InHand(r)' \subseteq InHand(r)
  BY <1>1 DEF InHand, IdleSender
<1> HIDE DEF e, q
<1>4. \A p \in Peers : Range(outbox'[p]) \subseteq Range(outbox[p]) \cup {e}
  BY <1>1, <1>2, AppendQueue
<1>5. \A f \in Envelopes : Held(f)' => Held(f)
  BY <1>1, <1>2, <1>3, <1>4 DEF Held
<1> QED BY <1>1, <1>5, GivesUp

\* A loop that ends up without a batch.
LEMMA DrainForgets ==
  ASSUME OutboxAssumption, IInv, NEW k \in Procs,
         DrainTick(k) \/ DrainDone(k) \/ DrainRequeueFails(k)
           \/ \E p \in Peers : DrainTakeFails(k, p)
  PROVE  Mail!MailNext
<1>1. UNCHANGED <<dest, wire, outbox, sender>> /\ drain \in [Procs -> DrainStates]
  BY DEF DrainTick, DrainDone, DrainRequeueFails, DrainTakeFails, IInv, TypeOK
<1>2. \A l \in Procs : drain'[l].batch \in {drain[l].batch, <<>>}
  <2>1. CASE DrainTick(k)
    BY <1>1, <2>1 DEF DrainTick
  <2>2. CASE DrainDone(k)
    BY <1>1, <2>2 DEF DrainDone, IdleDrain
  <2>3. CASE DrainRequeueFails(k)
    BY <1>1, <2>3 DEF DrainRequeueFails, DrainAt
  <2>4. CASE \E p \in Peers : DrainTakeFails(k, p)
    BY <1>1, <2>4 DEF DrainTakeFails
  <2> QED BY <2>1, <2>2, <2>3, <2>4
<1>3. \A l \in Procs : Range(drain'[l].batch) \subseteq Range(drain[l].batch)
  BY <1>2, EmptyQueue
<1>4. \A r \in Senders : InHand(r)' = InHand(r)
  BY <1>1 DEF InHand
<1> QED BY <1>1, <1>3, <1>4, KeepersLose

LEMMA DrainTakeMaps ==
  ASSUME OutboxAssumption, IInv, NEW k \in Procs, NEW p \in Peers, DrainTake(k, p)
  PROVE  Mail!MailNext
<1>1. UNCHANGED <<dest, wire, sender>>
  BY DEF DrainTake
<1>2. /\ drain \in [Procs -> DrainStates] /\ outbox \in [Peers -> Seq(Envelopes)]
  BY DEF IInv, TypeOK
<1>3. \A l \in Procs : drain'[l].batch \in {drain[l].batch, outbox[p]}
  BY <1>2 DEF DrainTake
<1>4. \A q \in Peers : Range(outbox'[q]) \subseteq Range(outbox[q])
  <2>1. \A q \in Peers : outbox'[q] = IF q = p THEN <<>> ELSE outbox[q]
    BY <1>2 DEF DrainTake, RowsLeft
  <2> QED BY <2>1, EmptyQueue
<1>5. \A r \in Senders : InHand(r)' = InHand(r)
  BY <1>1 DEF InHand
<1>6. \A f \in Envelopes : Held(f)' => Held(f)
  BY <1>3, <1>4, <1>5 DEF Held
<1> QED BY <1>1, <1>6, GivesUp

LEMMA DrainDeliverMaps ==
  ASSUME OutboxAssumption, IInv, NEW k \in Procs, DrainDeliver(k)
  PROVE  Mail!MailNext
<1>1. /\ drain[k].pc = "deliver"
      /\ UNCHANGED <<dest, outbox, sender>>
      /\ drain \in [Procs -> DrainStates]
      /\ drain[k].batch \in Seq(Envelopes) /\ drain[k].batch # <<>>
  BY DEF DrainDeliver, IInv, TypeOK, DrainStates, DrainShape
<1>2. \A r \in Senders : InHand(r)' = InHand(r)
  BY <1>1 DEF InHand
<1>3. CASE link[k] # "up"
  <2>1. wire' = wire /\ drain' = DrainAt(k, "requeue", drain[k].batch)
    BY <1>3 DEF DrainDeliver
  <2>2. \A l \in Procs : drain'[l].batch = drain[l].batch
    BY <1>1, <2>1 DEF DrainAt
  <2> QED BY <1>1, <1>2, <2>1, <2>2, KeepersLose
<1>4. CASE link[k] = "up"
  <2>1. PICK e : e = Head(drain[k].batch) /\ HeadOfBatch(k, e)
    BY <1>1, BatchOnly
  <2>2. PICK q \in Peers : q = drain[k].peer
    BY <2>1 DEF HeadOfBatch
  <2>3. PICK b : b = Tail(drain[k].batch)
    OBVIOUS
  <2>4. Range(drain[k].batch) = Range(b) \cup {e}
    BY <1>1, <2>1, <2>3, TailQueue
  <2>5. wire' = [wire EXCEPT ![q] = Append(wire[q], e)]
    BY <1>4, <2>1, <2>2 DEF DrainDeliver
  <2>6. \E c : drain' = DrainAt(k, c, b)
    BY <1>4, <2>3 DEF DrainDeliver
  <2>7. \A l \in Procs : drain'[l].batch = IF l = k THEN b ELSE drain[l].batch
    BY <1>1, <2>6 DEF DrainAt
  <2>8. \A f \in Envelopes : f # e => (Held(f)' <=> Held(f))
    BY <1>1, <1>2, <2>4, <2>7 DEF Held
  <2>9. /\ e \in Envelopes /\ dest[e] = q
        /\ Held(e) /\ ~Handed(e)
    BY <2>1, <2>2, <2>4 DEF HeadOfBatch, Held, Handed
  <2> QED BY <1>1, <2>5, <2>8, <2>9, HandsOver
<1> QED BY <1>3, <1>4

LEMMA DrainRequeueMaps ==
  ASSUME OutboxAssumption, IInv, NEW k \in Procs, DrainRequeue(k)
  PROVE  Mail!MailNext
<1>1. /\ drain[k].pc = "requeue"
      /\ UNCHANGED <<dest, wire, sender>>
      /\ drain \in [Procs -> DrainStates] /\ outbox \in [Peers -> Seq(Envelopes)]
      /\ drain[k].batch \in Seq(Envelopes) /\ drain[k].batch # <<>>
  BY DEF DrainRequeue, IInv, TypeOK, DrainStates, DrainShape
<1>2. PICK e : e = Head(drain[k].batch) /\ e \in Range(drain[k].batch) /\ e \in Envelopes
  BY <1>1, TailQueue
<1>3. PICK q \in Peers : q = drain[k].peer
  BY <1>1, BatchOnly DEF HeadOfBatch
<1>4. \A l \in Procs : drain'[l].batch = IF l = k THEN <<>> ELSE drain[l].batch
  BY <1>1 DEF DrainRequeue, DrainAt
<1>5. outbox' = [outbox EXCEPT ![q] = Append(outbox[q], e)]
  BY <1>2, <1>3 DEF DrainRequeue
<1>6. \A p \in Peers : Range(outbox'[p]) \subseteq Range(outbox[p]) \cup {e}
  BY <1>1, <1>2, <1>5, AppendQueue
<1>7. \A r \in Senders : InHand(r)' = InHand(r)
  BY <1>1 DEF InHand
<1>8. \A f \in Envelopes : Held(f)' => Held(f)
  BY <1>2, <1>4, <1>6, <1>7, EmptyQueue DEF Held
<1> QED BY <1>1, <1>8, GivesUp

\* Neither the link's comings and goings nor the operator's commands give
\* anybody an envelope; a crash or a deletion takes some away.
LEMMA OtherMaps ==
  ASSUME OutboxAssumption, IInv,
         (\E k \in Procs : ProcessStep(k)) \/ (\E p \in Peers : OperatorStep(p))
           \/ UNCHANGED vars
  PROVE  Mail!MailNext
<1>1. UNCHANGED <<dest, wire>>
  BY DEF ProcessStep, Start, LinkBreaks, Reconnect, Stop, Crash,
         OperatorStep, PairPeer, RevokePeer, DeletePeer, vars
<1>2. \A s \in Senders : sender'[s] = sender[s] \/ sender'[s].env = None
  BY DEF ProcessStep, Start, LinkBreaks, Reconnect, Stop, Crash, IdleSender,
         OperatorStep, PairPeer, RevokePeer, DeletePeer, vars
<1>3. \A l \in Procs : drain'[l] = drain[l] \/ drain'[l].batch = <<>>
  BY DEF ProcessStep, Start, LinkBreaks, Reconnect, Stop, Crash, IdleDrain,
         OperatorStep, PairPeer, RevokePeer, DeletePeer, vars, IInv, TypeOK
<1>4. \A q \in Peers : outbox'[q] \in {outbox[q], <<>>}
  BY DEF ProcessStep, Start, LinkBreaks, Reconnect, Stop, Crash,
         OperatorStep, PairPeer, RevokePeer, DeletePeer, vars, IInv, TypeOK
<1>5. \A s \in Senders : InHand(s)' \subseteq InHand(s)
  BY <1>2 DEF InHand
<1>6. /\ \A p \in Peers : Range(outbox'[p]) \subseteq Range(outbox[p])
      /\ \A k \in Procs : Range(drain'[k].batch) \subseteq Range(drain[k].batch)
  BY <1>3, <1>4, EmptyQueue
<1> QED BY <1>1, <1>5, <1>6, KeepersLose

(***************************************************************************)
(* The theorem.                                                            *)
(***************************************************************************)
LEMMA InitMaps == OutboxAssumption /\ Init => Mail!MailInit
<1> SUFFICES ASSUME OutboxAssumption, Init PROVE Mail!MailInit
  OBVIOUS
<1>1. \A e \in Envelopes : ~Handed(e) /\ ~Held(e)
  <2>1. \A s \in Senders : InHand(s) = {}
    BY DEF Init, InHand, IdleSender
  <2> QED BY <2>1, EmptyQueue DEF Init, Handed, Held, IdleDrain
<1>2. Status = [e \in Envelopes |-> "new"]
  BY <1>1 DEF Status, Init
<1> QED BY <1>2 DEF Mail!MailInit, Init

LEMMA NextMaps == OutboxAssumption /\ IInv /\ [Next]_vars => Mail!MailNext
<1> SUFFICES ASSUME OutboxAssumption, IInv, [Next]_vars PROVE Mail!MailNext
  OBVIOUS
<1>1. ASSUME NEW s \in Senders, SenderCall(s)  PROVE Mail!MailNext
  BY <1>1, CallMaps, Submits DEF SenderCall
<1>2. ASSUME NEW s \in Senders, SenderStep(s)  PROVE Mail!MailNext
  BY <1>2, CallMaps, SendDeliverMaps, SendEnqueueMaps DEF SenderStep
<1>3. ASSUME NEW k \in Procs, DrainStep(k)  PROVE Mail!MailNext
  BY <1>3, DrainForgets, DrainTakeMaps, DrainDeliverMaps, DrainRequeueMaps DEF DrainStep
<1>4. CASE (\E k \in Procs : ProcessStep(k)) \/ (\E p \in Peers : OperatorStep(p))
             \/ UNCHANGED vars
  BY <1>4, OtherMaps
<1> QED BY <1>1, <1>2, <1>3, <1>4 DEF Next

\* A node keeps the promise of Mailbox: no envelope is handed to the link
\* twice, to another peer than its addressee, or after it was given up,
\* whatever fails, crashes or is deleted (sendAs, tryDrainOutbox, DeletePeer).
THEOREM Implements == Spec => ImplementsMailbox
<1>1. Init => Mail!MailInit
  BY InitMaps, OutboxAssumption
<1>2. IInv /\ [Next]_vars => [Mail!MailNext]_(Mail!mailVars)
  BY NextMaps, OutboxAssumption
<1> QED BY <1>1, <1>2, Inductive, PTL DEF Spec, ImplementsMailbox, Mail!MailSpec
(***************************************************************************)
(* Where envelopes are lost, when nothing fails and nobody deletes: only   *)
(* in the break of the drain loop.                                         *)
(***************************************************************************)
Kept(e) == Held(e) \/ Handed(e)

\* In the break of the loop of process k, behind the envelope that failed.
BehindAFailure(k, e) ==
  /\ drain[k].pc = "requeue"
  /\ e \in Range(Tail(drain[k].batch))

\* A step in which nobody lets go of anything.
LEMMA NobodyLetsGo ==
  ASSUME UNCHANGED wire,
         \A s \in Senders : InHand(s) \subseteq InHand(s)',
         \A p \in Peers : Range(outbox[p]) \subseteq Range(outbox'[p]),
         \A k \in Procs : Range(drain[k].batch) \subseteq Range(drain'[k].batch)
  PROVE  \A e \in Envelopes : Held(e) => Kept(e)'
BY DEF Held, Kept

\* A goroutine in sendAs puts its envelope down on the link or in the outbox.
LEMMA SendersKeep ==
  ASSUME OutboxAssumption, IInv, "store" \notin Faults, NEW s \in Senders,
         SenderCall(s) \/ SenderStep(s)
  PROVE  \A e \in Envelopes : Held(e) => Kept(e)'
<1>1. /\ sender \in [Senders -> SenderStates]
      /\ outbox \in [Peers -> Seq(Envelopes)] /\ wire \in [Peers -> Seq(Envelopes)]
  BY DEF IInv, TypeOK
<1>2. CASE (\E p \in Peers : OpenCheck(s, p))
            \/ (\E t \in Threads, e \in Envelopes : SendCheck(s, t, e))
            \/ (\E t \in Threads : OpenCreate(s, t)) \/ OpenFails(s)
  <2>1. /\ sender[s].pc \notin Sending
        /\ \A r \in Senders : r # s => sender'[r] = sender[r]
        /\ UNCHANGED <<outbox, drain, wire>>
    BY <1>1, <1>2 DEF OpenCheck, SendCheck, OpenCreate, OpenFails, Sending
  <2>2. InHand(s) = {}
    BY <2>1 DEF InHand, IInv, SenderShape
  <2>3. \A r \in Senders : InHand(r) \subseteq InHand(r)'
    BY <2>1, <2>2 DEF InHand
  <2> QED BY <2>1, <2>3, NobodyLetsGo
<1>3. CASE SendAppend(s) \/ (SendDeliver(s) /\ link[Home[s]] # "up")
  <2>1. /\ \E c : sender' = [sender EXCEPT ![s].pc = c]
        /\ UNCHANGED <<outbox, drain, wire>>
    BY <1>3 DEF SendAppend, SendDeliver, AfterDeliver
  <2>2. \A r \in Senders : sender'[r].env = sender[r].env
    BY <1>1, <2>1 DEF SenderStates
  <2>3. \A r \in Senders : InHand(r)' = InHand(r)
    BY <2>2 DEF InHand
  <2> QED BY <2>1, <2>3, NobodyLetsGo
<1>4. CASE SendDeliver(s) /\ link[Home[s]] = "up"
  <2>1. PICK q, f : /\ q = sender[s].peer /\ f = sender[s].env
                    /\ q \in Peers /\ f \in Envelopes /\ InHand(s) = {f}
    BY <1>4, InHandOnly DEF SendDeliver
  <2>2. /\ wire' = [wire EXCEPT ![q] = Append(wire[q], f)]
        /\ sender' = [sender EXCEPT ![s] = IdleSender]
        /\ UNCHANGED <<outbox, drain>>
    BY <1>4, <2>1 DEF SendDeliver, AfterDeliver
  <2>3. f \in Range(wire'[q])
    BY <1>1, <2>1, <2>2, AppendQueue
  <2>4. \A r \in Senders : r # s => InHand(r)' = InHand(r)
    BY <1>1, <2>2 DEF InHand
  <2>5. Handed(f)'
    BY <2>1, <2>3 DEF Handed
  <2>6. \A e \in Envelopes : Held(e) => e = f \/ Held(e)'
    BY <2>1, <2>2, <2>4 DEF Held
  <2> QED BY <2>5, <2>6 DEF Kept
<1>5. CASE SendEnqueue(s)
  <2>1. PICK q, f : /\ q = sender[s].peer /\ f = sender[s].env
                    /\ q \in Peers /\ f \in Envelopes /\ InHand(s) = {f}
    BY <1>5, InHandOnly DEF SendEnqueue
  <2>2. /\ outbox' = [outbox EXCEPT ![q] = Append(outbox[q], f)]
        /\ sender' = [sender EXCEPT ![s] = IdleSender]
        /\ UNCHANGED <<wire, drain>>
    BY <1>5, <2>1 DEF SendEnqueue, QueuedId
  <2>3. /\ f \in Range(outbox'[q])
        /\ \A p \in Peers : Range(outbox[p]) \subseteq Range(outbox'[p])
    BY <1>1, <2>1, <2>2, AppendQueue
  <2>4. \A r \in Senders : r # s => InHand(r)' = InHand(r)
    BY <1>1, <2>2 DEF InHand
  <2>5. Held(f)'
    BY <2>1, <2>3 DEF Held
  <2>6. \A e \in Envelopes : Held(e) => e = f \/ Held(e)'
    BY <2>1, <2>2, <2>3, <2>4 DEF Held
  <2> QED BY <2>5, <2>6 DEF Kept
<1>6. ~SendStoreFails(s)
  BY DEF SendStoreFails
<1> QED BY <1>2, <1>3, <1>4, <1>5, <1>6 DEF SenderCall, SenderStep

\* A drain loop delivers what it took, or puts the head of its batch back;
\* only what stands behind that head is let go of.
LEMMA DrainsKeep ==
  ASSUME OutboxAssumption, IInv, "store" \notin Faults, NEW k \in Procs, DrainStep(k)
  PROVE  \A e \in Envelopes : Held(e) => Kept(e)' \/ BehindAFailure(k, e)
<1>1. /\ drain \in [Procs -> DrainStates]
      /\ outbox \in [Peers -> Seq(Envelopes)] /\ wire \in [Peers -> Seq(Envelopes)]
  BY DEF IInv, TypeOK
<1>2. UNCHANGED sender
  BY DEF DrainStep, DrainTick, DrainTake, DrainTakeFails, DrainDeliver, DrainRequeue,
         DrainRequeueFails, DrainDone
<1>3. \A s \in Senders : InHand(s)' = InHand(s)
  BY <1>2 DEF InHand
<1>4. CASE DrainTick(k) \/ DrainDone(k)
  <2>1. /\ drain[k].batch = <<>>
        /\ \A l \in Procs : l # k => drain'[l] = drain[l]
        /\ UNCHANGED <<outbox, wire>>
    BY <1>1, <1>4 DEF DrainTick, DrainDone, IInv, DrainShape
  <2>2. \A l \in Procs : Range(drain[l].batch) \subseteq Range(drain'[l].batch)
    BY <2>1, EmptyQueue
  <2> QED BY <1>3, <2>1, <2>2, NobodyLetsGo
<1>5. CASE \E p \in Peers : DrainTake(k, p)
  <2>1. PICK p \in Peers : DrainTake(k, p)
    BY <1>5
  <2>2. /\ drain[k].batch = <<>> /\ drain'[k].batch = outbox[p]
        /\ \A l \in Procs : l # k => drain'[l] = drain[l]
        /\ \A q \in Peers : q # p => outbox'[q] = outbox[q]
        /\ UNCHANGED wire
    BY <1>1, <2>1 DEF DrainTake, IInv, DrainShape
  <2>3. Range(drain[k].batch) = {}
    BY <2>2, EmptyQueue
  <2>4. \A e \in Envelopes : Held(e) => Held(e)'
    BY <1>3, <2>2, <2>3 DEF Held
  <2> QED BY <2>4 DEF Kept
<1>6. CASE DrainDeliver(k)
  <2>1. PICK f : /\ f = Head(drain[k].batch) /\ HeadOfBatch(k, f)
                 /\ Range(drain[k].batch) = Range(Tail(drain[k].batch)) \cup {f}
    <3>1. drain[k].batch \in Seq(Envelopes) /\ drain[k].batch # <<>>
      BY <1>1, <1>6 DEF DrainDeliver, DrainStates, IInv, DrainShape
    <3> QED BY <1>6, <3>1, BatchOnly, TailQueue DEF DrainDeliver
  <2>2. CASE link[k] # "up"
    <3>1. drain' = DrainAt(k, "requeue", drain[k].batch) /\ UNCHANGED <<outbox, wire>>
      BY <1>6, <2>2 DEF DrainDeliver
    <3>2. \A l \in Procs : drain'[l].batch = drain[l].batch
      BY <1>1, <3>1 DEF DrainAt
    <3> QED BY <1>3, <3>1, <3>2, NobodyLetsGo
  <2>3. CASE link[k] = "up"
    <3>1. PICK q \in Peers : q = drain[k].peer
      BY <2>1 DEF HeadOfBatch
    <3>2. PICK b : b = Tail(drain[k].batch)
      OBVIOUS
    <3>3. /\ wire' = [wire EXCEPT ![q] = Append(wire[q], f)]
          /\ \E c : drain' = DrainAt(k, c, b)
          /\ UNCHANGED outbox
      BY <1>6, <2>1, <2>3, <3>1, <3>2 DEF DrainDeliver
    <3>4. \A l \in Procs : drain'[l].batch = IF l = k THEN b ELSE drain[l].batch
      BY <1>1, <3>3 DEF DrainAt
    <3>5. f \in Range(wire'[q])
      BY <1>1, <2>1, <3>1, <3>3, AppendQueue DEF HeadOfBatch
    <3>6. Handed(f)'
      BY <3>1, <3>5 DEF Handed
    <3>7. \A e \in Envelopes : Held(e) => e = f \/ Held(e)'
      BY <1>3, <2>1, <3>2, <3>3, <3>4 DEF Held
    <3> QED BY <3>6, <3>7 DEF Kept
  <2> QED BY <2>2, <2>3
<1>7. CASE DrainRequeue(k)
  <2>1. PICK f : /\ f = Head(drain[k].batch) /\ HeadOfBatch(k, f)
                 /\ Range(drain[k].batch) = Range(Tail(drain[k].batch)) \cup {f}
    <3>1. drain[k].batch \in Seq(Envelopes) /\ drain[k].batch # <<>>
      BY <1>1, <1>7 DEF DrainRequeue, DrainStates, IInv, DrainShape
    <3> QED BY <1>7, <3>1, BatchOnly, TailQueue DEF DrainRequeue
  <2>2. PICK q \in Peers : q = drain[k].peer
    BY <2>1 DEF HeadOfBatch
  <2>3. /\ drain[k].pc = "requeue"
        /\ outbox' = [outbox EXCEPT ![q] = Append(outbox[q], f)]
        /\ drain' = DrainAt(k, "scan", <<>>)
        /\ UNCHANGED wire
    BY <1>7, <2>1, <2>2 DEF DrainRequeue
  <2>4. /\ f \in Range(outbox'[q])
        /\ \A p \in Peers : Range(outbox[p]) \subseteq Range(outbox'[p])
    BY <1>1, <2>1, <2>2, <2>3, AppendQueue DEF HeadOfBatch
  <2>5. \A l \in Procs : l # k => drain'[l].batch = drain[l].batch
    BY <1>1, <2>3 DEF DrainAt
  <2>6. Held(f)'
    BY <2>2, <2>4 DEF Held
  <2>7. \A e \in Envelopes :
          Held(e) => e = f \/ Held(e)' \/ e \in Range(Tail(drain[k].batch))
    BY <1>3, <2>1, <2>4, <2>5 DEF Held
  <2> QED BY <2>3, <2>6, <2>7 DEF Kept, BehindAFailure
<1>8. ~DrainRequeueFails(k) /\ \A p \in Peers : ~DrainTakeFails(k, p)
  BY DEF DrainRequeueFails, DrainTakeFails
<1>9. (\A e \in Envelopes : Held(e) => Kept(e)')
        => \A e \in Envelopes : Held(e) => Kept(e)' \/ BehindAFailure(k, e)
  OBVIOUS
<1> QED BY <1>4, <1>5, <1>6, <1>7, <1>8, <1>9 DEF DrainStep

\* Neither the link nor the operator, short of a deletion, takes any away.
LEMMA OthersKeep ==
  ASSUME "crash" \notin Faults, "delete" \notin Operator,
         (\E k \in Procs : ProcessStep(k)) \/ (\E p \in Peers : OperatorStep(p))
  PROVE  \A e \in Envelopes : Held(e) => Kept(e)'
<1>1. UNCHANGED <<sender, outbox, drain, wire>>
  BY DEF ProcessStep, Start, LinkBreaks, Reconnect, Stop, Crash,
         OperatorStep, PairPeer, RevokePeer, DeletePeer
<1>2. \A s \in Senders : InHand(s)' = InHand(s)
  BY <1>1 DEF InHand
<1> QED BY <1>1, <1>2, NobodyLetsGo

\* When no statement fails, no process crashes and nobody deletes a peer, an
\* envelope is lost in one place: the break of the drain loop forgets those
\* behind the one that failed (node.go: tryDrainOutbox).
THEOREM LostAtOnePlace ==
  ASSUME Faults \cap {"store", "crash"} = {}, "delete" \notin Operator
  PROVE  Spec => LostOnlyBehindAFailure
<1>1. ASSUME IInv, Next, NEW e \in Envelopes, Held(e), ~(Held(e) \/ Handed(e))'
      PROVE  \E k \in Procs : /\ drain[k].pc = "requeue"
                              /\ e \in Range(Tail(drain[k].batch))
  <2>1. ~Kept(e)'
    BY <1>1 DEF Kept
  <2>2. ASSUME NEW s \in Senders, SenderCall(s) \/ SenderStep(s)  PROVE FALSE
    BY <1>1, <2>1, <2>2, SendersKeep, OutboxAssumption
  <2>3. ~((\E k \in Procs : ProcessStep(k)) \/ (\E p \in Peers : OperatorStep(p)))
    BY <1>1, <2>1, OthersKeep
  <2>4. PICK k \in Procs : DrainStep(k)
    BY <1>1, <2>2, <2>3 DEF Next
  <2>5. BehindAFailure(k, e)
    BY <1>1, <2>1, <2>4, DrainsKeep, OutboxAssumption
  <2> QED BY <2>5 DEF BehindAFailure
<1>2. IInv /\ [Next]_vars =>
        [\A e \in Envelopes : Held(e) /\ ~(Held(e) \/ Handed(e))' =>
           \E k \in Procs : /\ drain[k].pc = "requeue"
                            /\ e \in Range(Tail(drain[k].batch))]_vars
  BY <1>1
<1> QED BY <1>2, Inductive, PTL DEF Spec, LostOnlyBehindAFailure
=============================================================================
