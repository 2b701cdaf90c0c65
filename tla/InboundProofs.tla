----------------------------- MODULE InboundProofs -----------------------------
(***************************************************************************)
(* For every number of peers, threads, envelopes and processes: the types  *)
(* of Inbound; what is stored lies in a thread of its sender; what is      *)
(* shown was stored; what is dropped was refused; and nothing of a revoked *)
(* peer is stored.                                                         *)
(***************************************************************************)
EXTENDS Inbound, SequenceTheorems, TLAPS

Places == {"find", "create", "append", "route", "show"}

Loops == [pc : {"idle", "find", "create", "append", "route", "show"},
          env : Envelopes \cup {None}]

\* A loop that is not idle has an envelope.
LoopShape == \A k \in Procs : loop[k].pc # "idle" => loop[k].env \in Envelopes

Typed == TypeOK /\ LoopShape

LEMMA DecisionTypes ==
  ASSUME NEW e \in Envelopes
  PROVE  /\ From[e] \in Peers /\ ThreadOf[e] \in Threads /\ Intent[e] \in Intents
         /\ IntentKept(e) \in Intents /\ IntentKept(e) # None
         /\ From[e] # None /\ e # None
BY InboundAssumption DEF IntentKept, Decision, Intents

LEMMA InitTyped == Init => Typed
<1> USE DEF Fates
<1> SUFFICES ASSUME Init  PROVE Typed
  OBVIOUS
<1>1. <<>> \in Seq(Envelopes)
  OBVIOUS
<1>2. IdleLoop \in Loops
  BY DEF IdleLoop, Loops, Places
<1>3. TypeOK
  BY <1>1, <1>2, InboundAssumption DEF Init, TypeOK, Loops
<1>4. LoopShape
  BY DEF Init, LoopShape, IdleLoop
<1> QED BY <1>3, <1>4 DEF Typed

\* The loop of k moves to a place where it holds e, or is idle.
LEMMA LoopMoves ==
  ASSUME Typed, NEW k \in Procs, NEW l,
         \/ l = IdleLoop
         \/ \E e \in Envelopes, where \in Places :
              l = [pc |-> where, env |-> e],
         loop' = [loop EXCEPT ![k] = l]
  PROVE  /\ loop' \in [Procs -> Loops]
         /\ LoopShape'
<1>1. l \in Loops
  BY DEF IdleLoop, Loops, Places
<1>2. l.pc # "idle" => l.env \in Envelopes
  BY DEF IdleLoop, Loops, Places
<1>3. loop' \in [Procs -> Loops]
  BY <1>1 DEF Typed, TypeOK, Loops
<1>4. ASSUME NEW j \in Procs, loop'[j].pc # "idle"  PROVE loop'[j].env \in Envelopes
  <2>1. CASE j = k
    BY <2>1, <1>2, <1>4 DEF Typed, TypeOK, Loops
  <2>2. CASE j # k
    BY <2>2, <1>4 DEF Typed, TypeOK, Loops, LoopShape
  <2> QED BY <2>1, <2>2
<1> QED BY <1>3, <1>4 DEF LoopShape

\* The same when only the place changes.
LEMMA PlaceMoves ==
  ASSUME Typed, NEW k \in Procs, loop[k].pc # "idle",
         NEW where \in Places
  PROVE  /\ [loop EXCEPT ![k].pc = where]
              = [loop EXCEPT ![k] = [pc |-> where, env |-> loop[k].env]]
         /\ loop[k].env \in Envelopes
<1>1. loop[k].env \in Envelopes
  BY DEF Typed, LoopShape
<1>2. loop[k] \in Loops
  BY DEF Typed, TypeOK, Loops
<1>3. [loop[k] EXCEPT !.pc = where] = [pc |-> where, env |-> loop[k].env]
  BY <1>2 DEF Loops
<1>4. [loop EXCEPT ![k].pc = where] = [loop EXCEPT ![k] = [loop[k] EXCEPT !.pc = where]]
  OBVIOUS
<1> QED BY <1>1, <1>3, <1>4

\* The type of every variable that a step may change, action by action.
LEMMA TypedStep ==
  ASSUME Typed, [Next]_vars
  PROVE  Typed'
<1> USE DEF Typed, Fates
<1>1. CASE UNCHANGED vars
  BY <1>1 DEF vars, TypeOK, LoopShape
<1>2. ASSUME NEW k \in Procs, LinkUp(k) \/ LinkDown(k)  PROVE Typed'
  BY <1>2 DEF LinkUp, LinkDown, TypeOK, LoopShape
<1>3. ASSUME NEW k \in Procs, NEW e \in Envelopes, Arrive(k, e)  PROVE Typed'
  <2>1. frames[k] \in Seq(Envelopes)
    BY DEF TypeOK
  <2>2. Append(frames[k], e) \in Seq(Envelopes)
    BY <2>1, AppendProperties
  <2>3. frames' \in [Procs -> Seq(Envelopes)]
    BY <1>3, <2>2 DEF Arrive, TypeOK
  <2> QED BY <1>3, <2>3 DEF Arrive, TypeOK, LoopShape
<1>4. ASSUME NEW k \in Procs, Receive(k)  PROVE Typed'
  <2>1. frames[k] \in Seq(Envelopes) /\ frames[k] # <<>>
    BY <1>4 DEF Receive, TypeOK
  <2>2. Head(frames[k]) \in Envelopes /\ Tail(frames[k]) \in Seq(Envelopes)
    BY <2>1, HeadTailProperties
  <2>3. frames' \in [Procs -> Seq(Envelopes)]
    BY <1>4, <2>2 DEF Receive, TypeOK
  <2>4. /\ loop' \in [Procs -> Loops]
        /\ LoopShape'
        /\ fate' \in [Envelopes -> Fates]
    <3>1. CASE Known(Head(frames[k])) /\ Head(frames[k]) \in Genuine
      <4>1. loop' = [loop EXCEPT ![k] = [pc |-> "find", env |-> Head(frames[k])]]
            /\ fate' = fate
        BY <1>4, <3>1 DEF Receive
      <4> QED BY <2>2, <4>1, LoopMoves DEF TypeOK, Places
    <3>2. CASE ~(Known(Head(frames[k])) /\ Head(frames[k]) \in Genuine)
      <4>1. fate' = [fate EXCEPT ![Head(frames[k])] = "dropped"] /\ loop' = loop
        BY <1>4, <3>2 DEF Receive
      <4> QED BY <2>2, <4>1 DEF TypeOK, LoopShape, Loops
    <3> QED BY <3>1, <3>2
  <2> QED BY <1>4, <2>3, <2>4 DEF Receive, TypeOK, Loops
<1>5. ASSUME NEW k \in Procs, NEW end \in Fates, Return(k, end), loop[k].pc # "idle"
      PROVE  /\ loop' \in [Procs -> Loops]
             /\ LoopShape'
             /\ fate' \in [Envelopes -> Fates]
  BY <1>5, LoopMoves DEF Return, TypeOK, LoopShape
<1>6. ASSUME NEW k \in Procs, NEW owner, Decides(k, owner), loop[k].pc # "idle"
      PROVE  /\ loop' \in [Procs -> Loops]
             /\ LoopShape'
             /\ fate' \in [Envelopes -> Fates]
  <2>1. CASE MayAppend(loop[k].env, owner)
    <3>1. loop' = [loop EXCEPT ![k].pc = "append"] /\ fate' = fate
      BY <1>6, <2>1 DEF Decides
    <3> QED BY <1>6, <3>1, PlaceMoves, LoopMoves DEF TypeOK, Places
  <2>2. CASE ~MayAppend(loop[k].env, owner)
    BY <1>5, <1>6, <2>2 DEF Decides, Drop
  <2> QED BY <2>1, <2>2
<1>7. ASSUME NEW k \in Procs, FindThread(k)  PROVE Typed'
  <2>1. CASE threads[ThreadOf[loop[k].env]] = None
    <3>1. loop' = [loop EXCEPT ![k].pc = "create"] /\ fate' = fate /\ loop[k].pc # "idle"
      BY <1>7, <2>1 DEF FindThread
    <3>2. loop' \in [Procs -> Loops] /\ LoopShape'
      BY <3>1, PlaceMoves, LoopMoves DEF Places
    <3> QED BY <1>7, <3>1, <3>2 DEF FindThread, TypeOK, Loops
  <2>2. CASE threads[ThreadOf[loop[k].env]] # None
    <3>1. Decides(k, threads[ThreadOf[loop[k].env]]) /\ loop[k].pc # "idle"
      BY <1>7, <2>2 DEF FindThread
    <3> QED BY <1>6, <1>7, <3>1 DEF FindThread, TypeOK, Loops
  <2> QED BY <2>1, <2>2
<1>8. ASSUME NEW k \in Procs, CreateThread(k)  PROVE Typed'
  <2>1. loop[k].pc # "idle" /\ loop[k].env \in Envelopes
    BY <1>8 DEF CreateThread, LoopShape
  <2>2. CASE threads[ThreadOf[loop[k].env]] = None
    <3>1. /\ threads' = [threads EXCEPT ![ThreadOf[loop[k].env]] = From[loop[k].env]]
          /\ Decides(k, From[loop[k].env])
      BY <1>8, <2>2 DEF CreateThread
    <3>2. threads' \in [Threads -> Peers \cup {None}]
      BY <2>1, <3>1, DecisionTypes DEF TypeOK
    <3> QED BY <1>6, <1>8, <2>1, <3>1, <3>2 DEF CreateThread, TypeOK, Loops
  <2>3. CASE threads[ThreadOf[loop[k].env]] # None
    <3>1. Drop(k) /\ threads' = threads
      BY <1>8, <2>3 DEF CreateThread
    <3> QED BY <1>5, <1>8, <2>1, <3>1 DEF CreateThread, Drop, TypeOK, Loops
  <2> QED BY <2>2, <2>3
<1>9. ASSUME NEW k \in Procs, AppendEnvelope(k)  PROVE Typed'
  <2>1. loop[k].pc # "idle" /\ loop[k].env \in Envelopes
    BY <1>9 DEF AppendEnvelope, LoopShape
  <2>2. loop' \in [Procs -> Loops] /\ LoopShape'
    BY <1>9, <2>1, PlaceMoves, LoopMoves DEF AppendEnvelope, Places
  <2>3. /\ log' = [log EXCEPT ![loop[k].env] = IntentKept(loop[k].env)]
        /\ fate' = [fate EXCEPT ![loop[k].env] = "stored"]
    BY <1>9 DEF AppendEnvelope
  <2>4. log' \in [Envelopes -> Intents \cup {None}]
    BY <2>1, <2>3, DecisionTypes DEF TypeOK
  <2> QED BY <1>9, <2>1, <2>2, <2>3, <2>4 DEF AppendEnvelope, TypeOK, Loops
<1>10. ASSUME NEW k \in Procs, StatementFails(k)  PROVE Typed'
  <2>1. CASE loop[k].pc = "find" /\ loop' = [loop EXCEPT ![k].pc = "create"] /\ fate' = fate
    <3>1. loop' \in [Procs -> Loops] /\ LoopShape'
      BY <2>1, PlaceMoves, LoopMoves DEF Places
    <3> QED BY <1>10, <2>1, <3>1 DEF StatementFails, TypeOK, Loops
  <2>2. CASE loop[k].pc \in {"create", "append"} /\ Return(k, "lost")
    BY <1>5, <1>10, <2>2 DEF StatementFails, TypeOK, Loops
  <2> QED BY <1>10, <2>1, <2>2 DEF StatementFails
<1>11. ASSUME NEW k \in Procs, Route(k)  PROVE Typed'
  <2>1. loop[k].pc # "idle" /\ loop[k].env \in Envelopes
    BY <1>11 DEF Route, LoopShape
  <2>2. shown' = [shown EXCEPT ![loop[k].env] = IntentKept(loop[k].env)]
    BY <1>11 DEF Route, ShownIntent
  <2>3. shown' \in [Envelopes -> Intents \cup {None}]
    BY <2>1, <2>2, DecisionTypes DEF TypeOK
  <2>4. \/ loop' = [loop EXCEPT ![k] = IdleLoop]
        \/ loop' = [loop EXCEPT ![k] = [pc |-> "show", env |-> loop[k].env]]
    BY <1>11 DEF Route
  <2>5. loop' \in [Procs -> Loops] /\ LoopShape'
    BY <2>1, <2>4, LoopMoves DEF Places
  <2> QED BY <1>11, <2>3, <2>5 DEF Route, TypeOK, Loops
<1>12. ASSUME NEW k \in Procs, ShowEnds(k)  PROVE Typed'
  <2>1. loop' \in [Procs -> Loops] /\ LoopShape'
    BY <1>12, LoopMoves DEF ShowEnds
  <2> QED BY <1>12, <2>1 DEF ShowEnds, TypeOK, Loops
<1>13. ASSUME NEW k \in Procs, Crash(k)  PROVE Typed'
  <2>1. loop' \in [Procs -> Loops] /\ LoopShape'
    BY <1>13, LoopMoves DEF Crash
  <2>2. fate' \in [Envelopes -> Fates]
    BY <1>13 DEF Crash, TypeOK
  <2>3. frames' \in [Procs -> Seq(Envelopes)]
    BY <1>13 DEF Crash, TypeOK
  <2> QED BY <1>13, <2>1, <2>2, <2>3 DEF Crash, TypeOK, Loops
<1>14. ASSUME NEW p \in Peers, NEW t \in Threads, OpenThread(t, p)  PROVE Typed'
  BY <1>14 DEF OpenThread, TypeOK, LoopShape
<1>15. ASSUME NEW p \in Peers, RevokePeer(p)  PROVE Typed'
  BY <1>15 DEF RevokePeer, TypeOK, LoopShape
<1>16. ASSUME NEW p \in Peers, DeletePeer(p)  PROVE Typed'
  <2>1. /\ log' \in [Envelopes -> Intents \cup {None}]
        /\ fate' \in [Envelopes -> Fates]
        /\ threads' \in [Threads -> Peers \cup {None}]
    BY <1>16 DEF DeletePeer, TypeOK
  <2> QED BY <1>16, <2>1 DEF DeletePeer, TypeOK, LoopShape
<1> QED BY <1>1, <1>2, <1>3, <1>4, <1>7, <1>8, <1>9, <1>10, <1>11, <1>12, <1>13, <1>14,
           <1>15, <1>16 DEF Next, LoopStep

\* The tables, the buffers and the loops keep their types, whatever arrives, fails
\* or is deleted.
THEOREM TypeCorrect == Spec => []TypeOK
<1>1. Typed => TypeOK
  BY DEF Typed
<1> QED BY <1>1, InitTyped, TypedStep, PTL DEF Spec

(***************************************************************************)
(* A thread changes its peer only when that peer is deleted, and a peer    *)
(* that is deleted stays so: what Decides has compared still holds when    *)
(* the envelope is stored, or its sender is gone.                          *)
(***************************************************************************)
AppendsOwn ==
  \A k \in Procs :
    loop[k].pc = "append" => Owns(From[loop[k].env], ThreadOf[loop[k].env])

Owned == Typed /\ AppendsOwn /\ InOwnThread

LEMMA InitOwned == Init => Owned
BY InitTyped DEF Init, Owned, AppendsOwn, InOwnThread, IdleLoop

LEMMA OwnerStays ==
  ASSUME Typed, [Next]_vars, NEW p \in Peers, NEW t \in Threads, Owns(p, t)
  PROVE  Owns(p, t)'
<1> USE DEF Typed, Owns
<1>1. ASSUME NEW k \in Procs, CreateThread(k)
      PROVE  Owns(p, t)'
  <2>1. trust' = trust /\ (threads[t] = p => threads'[t] = threads[t])
    BY <1>1, InboundAssumption DEF CreateThread, TypeOK
  <2> QED BY <2>1
<1>2. ASSUME NEW q \in Peers, NEW u \in Threads, OpenThread(u, q)
      PROVE  Owns(p, t)'
  BY <1>2, InboundAssumption DEF OpenThread, TypeOK
<1>3. CASE UNCHANGED <<trust, threads>>
  BY <1>3
<1>4. ASSUME NEW q \in Peers, DeletePeer(q)
      PROVE  Owns(p, t)'
  <2>1. CASE p = q
    BY <1>4, <2>1 DEF DeletePeer, TypeOK
  <2>2. CASE p # q
    BY <1>4, <2>2 DEF DeletePeer, TypeOK
  <2> QED BY <2>1, <2>2
<1>5. ASSUME NEW q \in Peers, RevokePeer(q)
      PROVE  Owns(p, t)'
  BY <1>5 DEF RevokePeer, TypeOK
<1>6. CASE UNCHANGED vars
  BY <1>3, <1>6 DEF vars
<1> QED BY <1>1, <1>2, <1>3, <1>4, <1>5, <1>6 DEF Next, LoopStep, Receive, FindThread,
           AppendEnvelope, Route, ShowEnds, StatementFails, LinkUp, LinkDown, Crash, Arrive

\* A loop is at "append" after a step only if it was there before, with the same
\* envelope, or has just found the thread to be its sender's.
LEMMA ComesToAppend ==
  ASSUME Typed, [Next]_vars, NEW k \in Procs, loop'[k].pc = "append"
  PROVE  \/ loop[k].pc = "append" /\ loop'[k].env = loop[k].env
         \/ threads'[ThreadOf[loop'[k].env]] = From[loop'[k].env]
<1> DEFINE Goal == \/ loop[k].pc = "append" /\ loop'[k].env = loop[k].env
                   \/ threads'[ThreadOf[loop'[k].env]] = From[loop'[k].env]
<1> SUFFICES Goal
  OBVIOUS
<1> USE DEF Typed
<1>1. CASE loop'[k] = loop[k]
  BY <1>1
<1>2. loop[k] \in Loops /\ loop \in [Procs -> Loops]
  BY DEF TypeOK, Loops
<1>3. ASSUME NEW l, loop' = [loop EXCEPT ![k] = l]  PROVE loop'[k] = l
  BY <1>2, <1>3
<1>4. ASSUME NEW owner, Decides(k, owner), loop[k].pc # "idle",
             threads'[ThreadOf[loop[k].env]] = owner
      PROVE  Goal
  <2>1. CASE MayAppend(loop[k].env, owner)
    <3>1. loop' = [loop EXCEPT ![k] = [pc |-> "append", env |-> loop[k].env]]
      BY <1>4, <2>1, PlaceMoves DEF Decides, Places
    <3>2. loop'[k].env = loop[k].env
      BY <1>3, <3>1
    <3> QED BY <1>4, <2>1, <3>2 DEF MayAppend
  <2>2. CASE ~MayAppend(loop[k].env, owner)
    <3>1. loop'[k] = IdleLoop
      BY <1>3, <1>4, <2>2 DEF Decides, Drop, Return
    <3> QED BY <3>1 DEF IdleLoop
  <2> QED BY <2>1, <2>2
<1>5. ASSUME NEW j \in Procs, j # k,
             \/ \E l : loop' = [loop EXCEPT ![j] = l]
             \/ \E where : loop' = [loop EXCEPT ![j].pc = where]
             \/ loop' = loop
      PROVE  Goal
  BY <1>1, <1>2, <1>5
<1>6. CASE FindThread(k)
  <2>1. CASE threads[ThreadOf[loop[k].env]] = None
    <3>1. loop' = [loop EXCEPT ![k] = [pc |-> "create", env |-> loop[k].env]]
      BY <1>6, <2>1, PlaceMoves DEF FindThread, Places
    <3> QED BY <1>3, <3>1
  <2>2. CASE threads[ThreadOf[loop[k].env]] # None
    BY <1>4, <1>6, <2>2 DEF FindThread
  <2> QED BY <2>1, <2>2
<1>7. CASE CreateThread(k)
  <2>1. loop[k].pc = "create" /\ loop[k].env \in Envelopes
    BY <1>7 DEF CreateThread, LoopShape
  <2>2. CASE threads[ThreadOf[loop[k].env]] = None
    <3>1. /\ threads' = [threads EXCEPT ![ThreadOf[loop[k].env]] = From[loop[k].env]]
          /\ Decides(k, From[loop[k].env])
      BY <1>7, <2>2 DEF CreateThread
    <3>2. threads'[ThreadOf[loop[k].env]] = From[loop[k].env]
      BY <2>1, <3>1, DecisionTypes DEF TypeOK
    <3> QED BY <1>4, <2>1, <3>1, <3>2
  <2>3. CASE threads[ThreadOf[loop[k].env]] # None
    <3>1. loop'[k] = IdleLoop
      BY <1>3, <1>7, <2>3 DEF CreateThread, Drop, Return
    <3> QED BY <3>1 DEF IdleLoop
  <2> QED BY <2>2, <2>3
<1>8. CASE StatementFails(k)
  <2>1. CASE loop[k].pc = "find" /\ loop' = [loop EXCEPT ![k].pc = "create"]
    <3>1. loop' = [loop EXCEPT ![k] = [pc |-> "create", env |-> loop[k].env]]
      BY <2>1, PlaceMoves DEF Places
    <3> QED BY <1>3, <3>1
  <2>2. CASE Return(k, "lost")
    <3>1. loop'[k] = IdleLoop
      BY <1>3, <2>2 DEF Return
    <3> QED BY <3>1 DEF IdleLoop
  <2> QED BY <1>8, <2>1, <2>2 DEF StatementFails
<1>9. CASE AppendEnvelope(k)
  <2>1. loop' = [loop EXCEPT ![k] = [pc |-> "route", env |-> loop[k].env]]
    BY <1>9, PlaceMoves DEF AppendEnvelope, Places
  <2> QED BY <1>3, <2>1
<1>10. CASE Receive(k)
  <2>1. \/ loop' = loop
        \/ loop' = [loop EXCEPT ![k] = [pc |-> "find", env |-> Head(frames[k])]]
    BY <1>10 DEF Receive
  <2> QED BY <1>1, <1>3, <2>1
<1>11. CASE Route(k) \/ ShowEnds(k) \/ Crash(k)
  <2>1. \/ loop' = [loop EXCEPT ![k] = IdleLoop]
        \/ loop' = [loop EXCEPT ![k] = [pc |-> "show", env |-> loop[k].env]]
    BY <1>11 DEF Route, ShowEnds, Crash
  <2> QED BY <1>3, <2>1 DEF IdleLoop
<1>12. ASSUME NEW j \in Procs, j # k,
              \/ LoopStep(j) \/ StatementFails(j) \/ Crash(j)
       PROVE  Goal
  BY <1>5, <1>12 DEF LoopStep, StatementFails, Crash, Receive, FindThread, CreateThread,
     AppendEnvelope, Route, ShowEnds, Decides, Drop, Return
<1>13. CASE UNCHANGED loop
  BY <1>1, <1>13
<1> QED BY <1>6, <1>7, <1>8, <1>9, <1>10, <1>11, <1>12, <1>13
        DEF Next, LoopStep, LinkUp, LinkDown, Arrive, OpenThread, RevokePeer, DeletePeer, vars

\* The log grows by the envelope of a loop at "append" only.
LEMMA LogGrows ==
  ASSUME Typed, [Next]_vars, NEW e \in Envelopes, log'[e] # None
  PROVE  \/ log[e] # None
         \/ \E k \in Procs : loop[k].pc = "append" /\ loop[k].env = e
<1> USE DEF Typed
<1>1. ASSUME NEW k \in Procs, AppendEnvelope(k)
      PROVE  \/ log[e] # None
             \/ loop[k].pc = "append" /\ loop[k].env = e
  <2>1. /\ loop[k].pc = "append"
        /\ log' = [log EXCEPT ![loop[k].env] = IntentKept(loop[k].env)]
    BY <1>1 DEF AppendEnvelope
  <2> QED BY <2>1 DEF TypeOK
<1>2. ASSUME NEW p \in Peers, DeletePeer(p)  PROVE log[e] # None
  BY <1>2 DEF DeletePeer, TypeOK
<1>3. CASE UNCHANGED log
  BY <1>3
<1> QED BY <1>1, <1>2, <1>3 DEF Next, LoopStep, Receive, FindThread, CreateThread, Route,
           ShowEnds, StatementFails, LinkUp, LinkDown, Crash, Arrive, OpenThread, RevokePeer, vars

LEMMA OwnedStep ==
  ASSUME Owned, [Next]_vars
  PROVE  Owned'
<1> USE DEF Owned
<1>1. Typed' /\ Typed
  BY TypedStep
<1> DEFINE Keeps(p, t) == threads'[t] = p \/ trust'[p] = "absent"
<1>2. ASSUME NEW e \in Envelopes, Owns(From[e], ThreadOf[e])
      PROVE  Keeps(From[e], ThreadOf[e])
  BY <1>1, <1>2, OwnerStays, DecisionTypes DEF Owns
<1>3. ASSUME NEW k \in Procs, loop'[k].pc = "append"
      PROVE  Keeps(From[loop'[k].env], ThreadOf[loop'[k].env])
  <2>1. CASE loop[k].pc = "append" /\ loop'[k].env = loop[k].env
    <3>1. loop[k].env \in Envelopes
      BY <1>1, <2>1 DEF Typed, LoopShape
    <3> QED BY <1>2, <2>1, <3>1 DEF AppendsOwn
  <2>2. CASE threads'[ThreadOf[loop'[k].env]] = From[loop'[k].env]
    BY <2>2
  <2> QED BY <1>1, <1>3, <2>1, <2>2, ComesToAppend
<1>4. ASSUME NEW e \in Envelopes, log'[e] # None
      PROVE  Keeps(From[e], ThreadOf[e])
  <2>1. Owns(From[e], ThreadOf[e])
    BY <1>1, <1>4, LogGrows DEF InOwnThread, AppendsOwn
  <2> QED BY <1>2, <2>1
<1> QED BY <1>1, <1>3, <1>4 DEF AppendsOwn, InOwnThread, Owns

\* Two processes may race creating the thread, statements may fail, processes may
\* crash, peers may be revoked and deleted: an envelope is stored only in a thread
\* of its own sender, unless the sender has been deleted (node.go:543-554).
THEOREM StoredInOwnThread == Spec => []InOwnThread
<1>1. Owned => InOwnThread
  BY DEF Owned
<1>2. Owned /\ [Next]_vars => Owned'
  BY OwnedStep
<1> QED BY <1>1, <1>2, InitOwned, PTL DEF Spec

(***************************************************************************)
(* What is shown has been stored: a frame is in one place until its        *)
(* envelope is stored, so nobody drops or loses one that has been.         *)
(***************************************************************************)
\* A frame that was received waits in one place, and is "here" as long.
Busy(k) == loop[k].pc \in {"find", "create", "append"}

HeldOnce ==
  /\ \A k \in Procs : \A n \in 1..Len(frames[k]) : fate[frames[k][n]] = "here"
  /\ \A j, k \in Procs : \A m \in 1..Len(frames[j]), n \in 1..Len(frames[k]) :
       frames[j][m] = frames[k][n] => j = k /\ m = n
  /\ \A k \in Procs : Busy(k) =>
       /\ fate[loop[k].env] = "here"
       /\ \A j \in Procs : \A n \in 1..Len(frames[j]) : frames[j][n] # loop[k].env
  /\ \A j, k \in Procs : Busy(j) /\ Busy(k) /\ loop[j].env = loop[k].env => j = k

\* The fate of an envelope tells whether the log has it; what was shown, or is
\* about to be, has been stored.
FateIsLogged ==
  /\ \A e \in Envelopes : fate[e] = "stored" <=> log[e] # None
  /\ \A e \in Envelopes : log[e] # None => log[e] = IntentKept(e)
  /\ \A k \in Procs : loop[k].pc = "route" => fate[loop[k].env] \in {"stored", "deleted"}
  /\ \A e \in Envelopes : shown[e] # None =>
       shown[e] = IntentKept(e) /\ fate[e] \in {"stored", "deleted"}

Followed == Typed /\ HeldOnce /\ FateIsLogged

LEMMA InitFollowed == Init => Followed
BY InitTyped DEF Init, Followed, HeldOnce, FateIsLogged, Busy, IdleLoop

\* The loop of k alone moves.
LEMMA OneLoopMoves ==
  ASSUME Typed, NEW k \in Procs, NEW l, loop' = [loop EXCEPT ![k] = l]
  PROVE  \A j \in Procs : loop'[j] = IF j = k THEN l ELSE loop[j]
BY DEF Typed, TypeOK

\* The loop of k goes on with its envelope, or gives it up.
Works(k) ==
  /\ Busy(k)
  /\ UNCHANGED <<frames, log, shown>>
  /\ \/ /\ \E where \in {"create", "append"} :
             loop' = [loop EXCEPT ![k] = [pc |-> where, env |-> loop[k].env]]
        /\ UNCHANGED fate
     \/ \E end \in {"dropped", "lost"} :
             /\ loop' = [loop EXCEPT ![k] = IdleLoop]
             /\ fate' = [fate EXCEPT ![loop[k].env] = end]

LEMMA LoopWorks ==
  ASSUME Typed, NEW k \in Procs, FindThread(k) \/ CreateThread(k) \/ StatementFails(k)
  PROVE  Works(k)
<1>1. ASSUME NEW owner, Decides(k, owner), Busy(k), UNCHANGED <<frames, log, shown>>
      PROVE  Works(k)
  <2>1. CASE MayAppend(loop[k].env, owner)
    <3>1. loop' = [loop EXCEPT ![k] = [pc |-> "append", env |-> loop[k].env]] /\ fate' = fate
      BY <1>1, <2>1, PlaceMoves DEF Decides, Busy, Places
    <3> QED BY <1>1, <3>1 DEF Works
  <2>2. CASE ~MayAppend(loop[k].env, owner)
    BY <1>1, <2>2 DEF Decides, Drop, Return, Works
  <2> QED BY <2>1, <2>2
<1>2. CASE FindThread(k)
  <2>1. Busy(k) /\ UNCHANGED <<frames, log, shown>>
    BY <1>2 DEF FindThread, Busy
  <2>2. CASE threads[ThreadOf[loop[k].env]] = None
    <3>1. loop' = [loop EXCEPT ![k] = [pc |-> "create", env |-> loop[k].env]] /\ fate' = fate
      BY <1>2, <2>2, PlaceMoves DEF FindThread, Places
    <3> QED BY <2>1, <3>1 DEF Works
  <2>3. CASE threads[ThreadOf[loop[k].env]] # None
    BY <1>1, <1>2, <2>1, <2>3 DEF FindThread
  <2> QED BY <2>2, <2>3
<1>3. CASE CreateThread(k)
  <2>1. Busy(k) /\ UNCHANGED <<frames, log, shown>>
    BY <1>3 DEF CreateThread, Busy
  <2>2. CASE threads[ThreadOf[loop[k].env]] = None
    BY <1>1, <1>3, <2>1, <2>2 DEF CreateThread
  <2>3. CASE threads[ThreadOf[loop[k].env]] # None
    BY <1>3, <2>1, <2>3 DEF CreateThread, Drop, Return, Works
  <2> QED BY <2>2, <2>3
<1>4. CASE StatementFails(k)
  <2>1. Busy(k) /\ UNCHANGED <<frames, log, shown>>
    BY <1>4 DEF StatementFails, Busy
  <2>2. CASE loop[k].pc = "find" /\ loop' = [loop EXCEPT ![k].pc = "create"] /\ fate' = fate
    <3>1. loop' = [loop EXCEPT ![k] = [pc |-> "create", env |-> loop[k].env]]
      BY <2>2, PlaceMoves DEF Places
    <3> QED BY <2>1, <2>2, <3>1 DEF Works
  <2>3. CASE Return(k, "lost")
    BY <2>1, <2>3 DEF Return, Works
  <2> QED BY <1>4, <2>2, <2>3 DEF StatementFails
<1> QED BY <1>2, <1>3, <1>4

LEMMA HeldShrinks ==
  ASSUME HeldOnce,
         \A k \in Procs : frames'[k] = frames[k] \/ frames'[k] = <<>>,
         \A k \in Procs : Busy(k)' => Busy(k) /\ loop'[k].env = loop[k].env,
         \A k \in Procs : \A n \in 1..Len(frames'[k]) : fate'[frames'[k][n]] = "here",
         \A k \in Procs : Busy(k)' => fate'[loop'[k].env] = "here"
  PROVE  HeldOnce'
<1>1. \A k \in Procs : \A n \in 1..Len(frames'[k]) :
        frames'[k] = frames[k] /\ n \in 1..Len(frames[k])
  OBVIOUS
<1>2. \A j, k \in Procs : \A m \in 1..Len(frames'[j]), n \in 1..Len(frames'[k]) :
        frames'[j][m] = frames'[k][n] => j = k /\ m = n
  BY <1>1 DEF HeldOnce
<1>3. \A k \in Procs : Busy(k)' =>
        \A j \in Procs : \A n \in 1..Len(frames'[j]) : frames'[j][n] # loop'[k].env
  BY <1>1 DEF HeldOnce
<1>4. \A j, k \in Procs : Busy(j)' /\ Busy(k)' /\ loop'[j].env = loop'[k].env => j = k
  BY DEF HeldOnce
<1> QED BY <1>2, <1>3, <1>4 DEF HeldOnce

\* Steps that change neither the frames nor who is busy.
LEMMA HeldStays ==
  ASSUME HeldOnce, UNCHANGED frames,
         \A k \in Procs : Busy(k)' => Busy(k) /\ loop'[k].env = loop[k].env,
         \A k \in Procs : Busy(k)' => loop[k].env \in Envelopes,
         \A k \in Procs : frames[k] \in Seq(Envelopes),
         \A e \in Envelopes : fate[e] = "here" => fate'[e] = "here"
  PROVE  HeldOnce'
<1>1. \A k \in Procs : \A n \in 1..Len(frames[k]) : frames[k][n] \in Envelopes
  OBVIOUS
<1>2. \A k \in Procs : \A n \in 1..Len(frames'[k]) : fate'[frames'[k][n]] = "here"
  BY <1>1 DEF HeldOnce
<1>3. \A k \in Procs : Busy(k)' => fate'[loop'[k].env] = "here"
  BY DEF HeldOnce
<1> QED BY <1>2, <1>3, HeldShrinks

LEMMA AppendHolds ==
  ASSUME NEW q \in Seq(Envelopes), NEW e \in Envelopes
  PROVE  /\ Len(q) \in Nat
         /\ \A n \in 1..Len(Append(q, e)) :
              \/ n \in 1..Len(q) /\ Append(q, e)[n] = q[n]
              \/ n = Len(q) + 1 /\ Append(q, e)[n] = e
OBVIOUS

LEMMA TailHolds ==
  ASSUME NEW q \in Seq(Envelopes), q # <<>>
  PROVE  \A n \in 1..Len(Tail(q)) : n + 1 \in 1..Len(q) /\ Tail(q)[n] = q[n + 1]
OBVIOUS

LEMMA HeldArrives ==
  ASSUME Typed, HeldOnce, NEW k \in Procs, NEW e \in Envelopes, Arrive(k, e)
  PROVE  HeldOnce'
<1>1. frames[k] \in Seq(Envelopes) /\ fate[e] = "sent" /\ loop' = loop
  BY DEF Arrive, Typed, TypeOK
<1>2. \A d \in Envelopes : fate'[d] = IF d = e THEN "here" ELSE fate[d]
  BY DEF Arrive, Typed, TypeOK
<1>3. \A j \in Procs : frames'[j] = IF j = k THEN Append(frames[k], e) ELSE frames[j]
  BY DEF Arrive, Typed, TypeOK
<1>4. \A n \in 1..Len(frames'[k]) :
        \/ n \in 1..Len(frames[k]) /\ frames'[k][n] = frames[k][n]
        \/ n = Len(frames[k]) + 1 /\ frames'[k][n] = e
  BY <1>1, <1>3, AppendHolds
<1>5. \A j \in Procs : \A n \in 1..Len(frames'[j]) :
        \/ n \in 1..Len(frames[j]) /\ frames'[j][n] = frames[j][n]
        \/ j = k /\ n = Len(frames[k]) + 1 /\ frames'[j][n] = e
  BY <1>1, <1>3, <1>4
<1>6. \A j \in Procs : \A n \in 1..Len(frames[j]) : frames[j][n] \in Envelopes /\ frames[j][n] # e
  BY <1>1 DEF HeldOnce, Typed, TypeOK
<1>7. \A j \in Procs : Busy(j) => loop[j].env \in Envelopes /\ loop[j].env # e
  BY <1>1 DEF HeldOnce, Typed, LoopShape, Busy
<1>8. \A j \in Procs : Busy(j)' <=> Busy(j)
  BY <1>1 DEF Busy
<1>9. \A j \in Procs : \A n \in 1..Len(frames'[j]) : fate'[frames'[j][n]] = "here"
  BY <1>2, <1>5, <1>6 DEF HeldOnce
<1>10. \A i, j \in Procs : \A m \in 1..Len(frames'[i]), n \in 1..Len(frames'[j]) :
         frames'[i][m] = frames'[j][n] => i = j /\ m = n
  BY <1>5, <1>6 DEF HeldOnce
<1>11. \A j \in Procs : Busy(j)' =>
         /\ fate'[loop'[j].env] = "here"
         /\ \A i \in Procs : \A n \in 1..Len(frames'[i]) : frames'[i][n] # loop'[j].env
  BY <1>1, <1>2, <1>5, <1>7, <1>8 DEF HeldOnce
<1> QED BY <1>1, <1>8, <1>9, <1>10, <1>11 DEF HeldOnce

LEMMA HeldReceives ==
  ASSUME Typed, HeldOnce, NEW k \in Procs, Receive(k)
  PROVE  HeldOnce'
<1>1. frames[k] \in Seq(Envelopes) /\ frames[k] # <<>> /\ ~Busy(k)
  BY DEF Receive, Typed, TypeOK, Busy
<1>2. PICK e \in Envelopes : e = Head(frames[k]) /\ e = frames[k][1] /\ Len(frames[k]) \in Nat \ {0}
  BY <1>1
<1>3. \A j \in Procs : frames'[j] = IF j = k THEN Tail(frames[k]) ELSE frames[j]
  BY DEF Receive, Typed, TypeOK
<1>4. \A n \in 1..Len(frames'[k]) :
        n + 1 \in 1..Len(frames[k]) /\ frames'[k][n] = frames[k][n + 1]
  BY <1>1, <1>3, TailHolds
<1>5. \A j \in Procs : \A n \in 1..Len(frames'[j]) :
        frames'[j][n] # e /\ fate[frames'[j][n]] = "here" /\ frames'[j][n] \in Envelopes
  <2> SUFFICES ASSUME NEW j \in Procs, NEW n \in 1..Len(frames'[j])
               PROVE  frames'[j][n] # e /\ fate[frames'[j][n]] = "here" /\ frames'[j][n] \in Envelopes
    OBVIOUS
  <2>1. CASE j = k
    <3>1. n + 1 \in 1..Len(frames[k]) /\ frames'[k][n] = frames[k][n + 1] /\ n + 1 # 1 /\ 1 \in 1..Len(frames[k])
      BY <1>2, <1>4, <2>1
    <3> QED BY <1>1, <1>2, <2>1, <3>1 DEF HeldOnce
  <2>2. CASE j # k
    <3>1. frames'[j] = frames[j] /\ frames[j] \in Seq(Envelopes) /\ 1 \in 1..Len(frames[k])
      BY <1>2, <1>3, <2>2 DEF Typed, TypeOK
    <3> QED BY <1>2, <2>2, <3>1 DEF HeldOnce
  <2> QED BY <2>1, <2>2
<1>6. \A i, j \in Procs : \A m \in 1..Len(frames'[i]), n \in 1..Len(frames'[j]) :
        frames'[i][m] = frames'[j][n] => i = j /\ m = n
  <2> SUFFICES ASSUME NEW i \in Procs, NEW j \in Procs, NEW m \in 1..Len(frames'[i]),
                      NEW n \in 1..Len(frames'[j]), frames'[i][m] = frames'[j][n]
               PROVE  i = j /\ m = n
    OBVIOUS
  <2>1. CASE i = k /\ j = k
    <3>1. /\ m + 1 \in 1..Len(frames[k]) /\ n + 1 \in 1..Len(frames[k])
          /\ frames[k][m + 1] = frames[k][n + 1]
      BY <1>4, <2>1
    <3>2. m + 1 = n + 1
      BY <3>1 DEF HeldOnce
    <3> QED BY <2>1, <3>2
  <2>2. CASE i = k /\ j # k
    <3>1. /\ m + 1 \in 1..Len(frames[k]) /\ n \in 1..Len(frames[j])
          /\ frames[k][m + 1] = frames[j][n]
      BY <1>3, <1>4, <2>2
    <3> QED BY <2>2, <3>1 DEF HeldOnce
  <2>3. CASE i # k /\ j = k
    <3>1. /\ m \in 1..Len(frames[i]) /\ n + 1 \in 1..Len(frames[k])
          /\ frames[i][m] = frames[k][n + 1]
      BY <1>3, <1>4, <2>3
    <3> QED BY <2>3, <3>1 DEF HeldOnce
  <2>4. CASE i # k /\ j # k
    BY <1>3, <2>4 DEF HeldOnce
  <2> QED BY <2>1, <2>2, <2>3, <2>4
<1>7. \A j \in Procs : Busy(j) =>
        /\ loop[j].env # e /\ fate[loop[j].env] = "here" /\ loop[j].env \in Envelopes
        /\ \A i \in Procs : \A n \in 1..Len(frames'[i]) : frames'[i][n] # loop[j].env
  <2> SUFFICES ASSUME NEW j \in Procs, Busy(j)
               PROVE  /\ loop[j].env # e /\ fate[loop[j].env] = "here" /\ loop[j].env \in Envelopes
                      /\ \A i \in Procs : \A n \in 1..Len(frames'[i]) : frames'[i][n] # loop[j].env
    OBVIOUS
  <2>1. loop[j].env \in Envelopes /\ fate[loop[j].env] = "here"
    BY DEF HeldOnce, Typed, LoopShape, Busy
  <2>2. loop[j].env # e
    BY <1>2 DEF HeldOnce
  <2>3. \A i \in Procs : \A n \in 1..Len(frames'[i]) : frames'[i][n] # loop[j].env
    BY <1>3, <1>4 DEF HeldOnce
  <2> QED BY <2>1, <2>2, <2>3
<1>8. CASE Known(e) /\ e \in Genuine
  <2>1. fate' = fate /\ loop' = [loop EXCEPT ![k] = [pc |-> "find", env |-> e]]
    BY <1>2, <1>8 DEF Receive
  <2>2. \A j \in Procs : loop'[j] = IF j = k THEN [pc |-> "find", env |-> e] ELSE loop[j]
    BY <2>1, OneLoopMoves
  <2>3. \A j \in Procs : Busy(j)' => (j = k /\ loop'[j].env = e) \/ (j # k /\ Busy(j) /\ loop'[j].env = loop[j].env)
    BY <2>2 DEF Busy
  <2>4. fate[e] = "here"
    BY <1>2 DEF HeldOnce
  <2>5. \A j \in Procs : Busy(j)' =>
         /\ fate'[loop'[j].env] = "here"
         /\ \A i \in Procs : \A n \in 1..Len(frames'[i]) : frames'[i][n] # loop'[j].env
    BY <1>5, <1>7, <2>1, <2>3, <2>4
  <2>6. \A i, j \in Procs : Busy(i)' /\ Busy(j)' /\ loop'[i].env = loop'[j].env => i = j
    BY <1>7, <2>3 DEF HeldOnce
  <2> QED BY <1>5, <1>6, <2>1, <2>5, <2>6 DEF HeldOnce
<1>9. CASE ~(Known(e) /\ e \in Genuine)
  <2>1. loop' = loop /\ fate' = [fate EXCEPT ![e] = "dropped"]
    BY <1>2, <1>9 DEF Receive
  <2>2. \A d \in Envelopes : d # e => fate'[d] = fate[d]
    BY <2>1 DEF Typed, TypeOK
  <2>3. \A j \in Procs : Busy(j)' <=> Busy(j)
    BY <2>1 DEF Busy
  <2>4. \A j \in Procs : \A n \in 1..Len(frames'[j]) : fate'[frames'[j][n]] = "here"
    BY <1>5, <2>2
  <2>5. \A j \in Procs : Busy(j)' =>
         /\ fate'[loop'[j].env] = "here"
         /\ \A i \in Procs : \A n \in 1..Len(frames'[i]) : frames'[i][n] # loop'[j].env
    BY <1>7, <2>1, <2>2, <2>3
  <2> QED BY <1>6, <2>1, <2>3, <2>4, <2>5 DEF HeldOnce
<1> QED BY <1>8, <1>9

\* Work ends for the envelope of the loop alone.
LEMMA HeldWorks ==
  ASSUME Typed, HeldOnce, NEW k \in Procs, Works(k)
  PROVE  HeldOnce'
<1>1. loop[k].env \in Envelopes /\ Busy(k)
  BY DEF Works, Typed, LoopShape, Busy
<1>2. ASSUME NEW where \in {"create", "append"}, fate' = fate,
             loop' = [loop EXCEPT ![k] = [pc |-> where, env |-> loop[k].env]]
      PROVE  HeldOnce'
  <2>1. \A j \in Procs :
          loop'[j] = IF j = k THEN [pc |-> where, env |-> loop[k].env] ELSE loop[j]
    BY <1>2, OneLoopMoves
  <2>2. \A j \in Procs : Busy(j)' => Busy(j) /\ loop'[j].env = loop[j].env /\ loop[j].env \in Envelopes
    BY <1>1, <2>1 DEF Busy, Typed, LoopShape
  <2> QED BY <1>2, <2>2, HeldStays DEF Works, Typed, TypeOK
<1>3. ASSUME NEW end \in {"dropped", "lost"}, loop' = [loop EXCEPT ![k] = IdleLoop],
             fate' = [fate EXCEPT ![loop[k].env] = end]
      PROVE  HeldOnce'
  <2>1. \A j \in Procs : loop'[j] = IF j = k THEN IdleLoop ELSE loop[j]
    BY <1>3, OneLoopMoves
  <2>2. \A j \in Procs : Busy(j)' => Busy(j) /\ loop'[j].env = loop[j].env /\ j # k
    BY <2>1 DEF Busy, IdleLoop
  <2>3. \A e \in Envelopes : e # loop[k].env => fate'[e] = fate[e]
    BY <1>3 DEF Typed, TypeOK
  <2>4. \A j \in Procs : \A n \in 1..Len(frames[j]) :
          frames[j][n] \in Envelopes /\ frames[j][n] # loop[k].env
    BY <1>1 DEF HeldOnce, Typed, TypeOK
  <2>5. \A j \in Procs : Busy(j)' => fate'[loop'[j].env] = "here"
    <3> SUFFICES ASSUME NEW j \in Procs, Busy(j)'  PROVE fate'[loop'[j].env] = "here"
      OBVIOUS
    <3>1. loop[j].env \in Envelopes /\ loop[j].env # loop[k].env /\ loop'[j].env = loop[j].env
      BY <1>1, <2>2 DEF HeldOnce, Typed, LoopShape, Busy
    <3> QED BY <2>2, <2>3, <3>1 DEF HeldOnce
  <2>6. \A j \in Procs : \A n \in 1..Len(frames[j]) : fate'[frames[j][n]] = "here"
    BY <2>3, <2>4 DEF HeldOnce
  <2>7. frames' = frames
    BY DEF Works
  <2> QED BY <2>2, <2>5, <2>6, <2>7, HeldShrinks
<1> QED BY <1>2, <1>3 DEF Works

LEMMA HeldStored ==
  ASSUME Typed, HeldOnce, NEW k \in Procs, AppendEnvelope(k)
  PROVE  HeldOnce'
<1>1. loop[k].env \in Envelopes /\ Busy(k) /\ frames' = frames
  BY DEF AppendEnvelope, Typed, LoopShape, Busy
<1>2. loop' = [loop EXCEPT ![k] = [pc |-> "route", env |-> loop[k].env]]
  BY <1>1, PlaceMoves DEF AppendEnvelope, Busy, Places
<1>3. \A j \in Procs :
        loop'[j] = IF j = k THEN [pc |-> "route", env |-> loop[k].env] ELSE loop[j]
  BY <1>2, OneLoopMoves
<1>4. \A j \in Procs : Busy(j)' => Busy(j) /\ loop'[j].env = loop[j].env /\ j # k
  BY <1>3 DEF Busy
<1>5. \A e \in Envelopes : e # loop[k].env => fate'[e] = fate[e]
  BY DEF AppendEnvelope, Typed, TypeOK
<1>6. \A j \in Procs : \A n \in 1..Len(frames[j]) :
        frames[j][n] \in Envelopes /\ frames[j][n] # loop[k].env
  BY <1>1 DEF HeldOnce, Typed, TypeOK
<1>7. \A j \in Procs : Busy(j)' => fate'[loop'[j].env] = "here"
  <2> SUFFICES ASSUME NEW j \in Procs, Busy(j)'  PROVE fate'[loop'[j].env] = "here"
    OBVIOUS
  <2>1. loop[j].env \in Envelopes /\ loop[j].env # loop[k].env /\ loop'[j].env = loop[j].env
    BY <1>1, <1>4 DEF HeldOnce, Typed, LoopShape, Busy
  <2> QED BY <1>4, <1>5, <2>1 DEF HeldOnce
<1>8. \A j \in Procs : \A n \in 1..Len(frames[j]) : fate'[frames[j][n]] = "here"
  BY <1>5, <1>6 DEF HeldOnce
<1> QED BY <1>1, <1>4, <1>7, <1>8, HeldShrinks

LEMMA HeldLost ==
  ASSUME Typed, HeldOnce, NEW k \in Procs, Crash(k)
  PROVE  HeldOnce'
<1>1. \A j \in Procs : frames'[j] = IF j = k THEN <<>> ELSE frames[j]
  BY DEF Crash, Typed, TypeOK
<1>2. \A j \in Procs : loop'[j] = IF j = k THEN IdleLoop ELSE loop[j]
  BY OneLoopMoves DEF Crash
<1>3. \A j \in Procs : Busy(j)' => Busy(j) /\ loop'[j].env = loop[j].env /\ j # k
  BY <1>2 DEF Busy, IdleLoop
<1>4. \A e \in InProcess(k) :
        \/ \E n \in 1..Len(frames[k]) : e = frames[k][n]
        \/ Busy(k) /\ e = loop[k].env
  <2>1. frames[k] \in Seq(Envelopes)
    BY DEF Typed, TypeOK
  <2>2. DOMAIN frames[k] = 1..Len(frames[k])
    BY <2>1
  <2> QED BY <2>2 DEF InProcess, Range, Busy
<1>5. \A e \in Envelopes : e \notin InProcess(k) => fate'[e] = fate[e]
  BY DEF Crash
<1>6. ASSUME NEW j \in Procs, j # k, NEW n \in 1..Len(frames[j])
      PROVE  fate'[frames[j][n]] = "here"
  <2>1. frames[j][n] \in Envelopes /\ fate[frames[j][n]] = "here"
    BY DEF HeldOnce, Typed, TypeOK
  <2>2. frames[j][n] \notin InProcess(k)
    BY <1>4, <1>6 DEF HeldOnce
  <2> QED BY <1>5, <2>1, <2>2
<1>7. ASSUME NEW j \in Procs, j # k, Busy(j)
      PROVE  fate'[loop[j].env] = "here"
  <2>1. loop[j].env \in Envelopes /\ fate[loop[j].env] = "here"
    BY <1>7 DEF HeldOnce, Typed, LoopShape, Busy
  <2>2. loop[j].env \notin InProcess(k)
    BY <1>4, <1>7 DEF HeldOnce
  <2> QED BY <1>5, <2>1, <2>2
<1>8. \A j \in Procs : \A n \in 1..Len(frames'[j]) : fate'[frames'[j][n]] = "here"
  BY <1>1, <1>6
<1>9. \A j \in Procs : Busy(j)' => fate'[loop'[j].env] = "here"
  BY <1>3, <1>7
<1> QED BY <1>1, <1>3, <1>8, <1>9, HeldShrinks

\* The other steps: of the link, of the surfaces, of the operator.
Elsewhere ==
  \/ \E k \in Procs : Route(k) \/ ShowEnds(k) \/ LinkUp(k) \/ LinkDown(k)
  \/ \E p \in Peers : \/ RevokePeer(p) \/ DeletePeer(p)
                      \/ \E t \in Threads : OpenThread(t, p)
  \/ UNCHANGED vars

\* Route and ShowEnds move a loop to a place where it works on nothing.
LEMMA ElsewhereIsNotBusy ==
  ASSUME Typed, Elsewhere, NEW k \in Procs
  PROVE  loop'[k] = loop[k] \/ (loop'[k].pc \in {"idle", "show"} /\ loop[k].pc \in {"route", "show"})
<1>1. ASSUME NEW j \in Procs, Route(j) \/ ShowEnds(j)
      PROVE  loop'[k] = loop[k] \/ (loop'[k].pc \in {"idle", "show"} /\ loop[k].pc \in {"route", "show"})
  <2>1. PICK l \in {IdleLoop, [pc |-> "show", env |-> loop[j].env]} :
          loop' = [loop EXCEPT ![j] = l] /\ loop[j].pc \in {"route", "show"}
    BY <1>1 DEF Route, ShowEnds
  <2>2. l.pc \in {"idle", "show"}
    BY DEF IdleLoop
  <2> QED BY <2>1, <2>2, OneLoopMoves
<1>2. ASSUME NEW j \in Procs, LinkUp(j) \/ LinkDown(j)  PROVE loop' = loop
  BY <1>2 DEF LinkUp, LinkDown
<1>3. ASSUME NEW p \in Peers, RevokePeer(p) \/ DeletePeer(p)  PROVE loop' = loop
  BY <1>3 DEF RevokePeer, DeletePeer
<1>4. ASSUME NEW p \in Peers, NEW t \in Threads, OpenThread(t, p)  PROVE loop' = loop
  BY <1>4 DEF OpenThread
<1> QED BY <1>1, <1>2, <1>3, <1>4 DEF Elsewhere, vars

LEMMA HeldElsewhere ==
  ASSUME Typed, HeldOnce, FateIsLogged, Elsewhere
  PROVE  HeldOnce'
<1>1. \A k \in Procs : Busy(k)' => Busy(k) /\ loop'[k].env = loop[k].env
  BY ElsewhereIsNotBusy DEF Busy
<1>2. frames' = frames
  BY DEF Elsewhere, Route, ShowEnds, LinkUp, LinkDown, RevokePeer, DeletePeer, OpenThread, vars
<1>3. ASSUME NEW e \in Envelopes, fate[e] = "here"  PROVE fate'[e] = "here"
  <2>1. log[e] = None
    BY <1>3 DEF FateIsLogged
  <2> QED BY <1>3, <2>1
          DEF Elsewhere, Route, ShowEnds, LinkUp, LinkDown, RevokePeer, DeletePeer, OpenThread, vars
<1>4. \A k \in Procs : frames[k] \in Seq(Envelopes) /\ (Busy(k) => loop[k].env \in Envelopes)
  BY DEF Typed, TypeOK, LoopShape, Busy
<1> QED BY <1>1, <1>2, <1>3, <1>4, HeldStays

LEMMA Steps ==
  ASSUME [Next]_vars
  PROVE  \/ \E k \in Procs : \/ FindThread(k) \/ CreateThread(k) \/ StatementFails(k)
                             \/ Receive(k) \/ AppendEnvelope(k) \/ Crash(k)
                             \/ \E e \in Envelopes : Arrive(k, e)
         \/ Elsewhere
BY DEF Next, LoopStep, Elsewhere

LEMMA HeldOnceStep ==
  ASSUME Followed, [Next]_vars
  PROVE  HeldOnce'
BY Steps, LoopWorks, HeldWorks, HeldReceives, HeldStored, HeldLost, HeldArrives, HeldElsewhere
DEF Followed

\* An envelope that is not stored can be dropped, lost or received.
LEMMA FateUnstored ==
  ASSUME FateIsLogged, UNCHANGED <<log, shown>>,
         \A e \in Envelopes : \/ fate'[e] = fate[e]
                              \/ /\ fate[e] \in {"sent", "here"}
                                 /\ fate'[e] \notin {"stored", "deleted"},
         \A k \in Procs : loop'[k].pc = "route" => loop'[k] = loop[k] /\ loop[k].env \in Envelopes
  PROVE  FateIsLogged'
BY DEF FateIsLogged

LEMMA FateIsLoggedStep ==
  ASSUME Followed, [Next]_vars
  PROVE  FateIsLogged'
<1> USE DEF Followed
<1>1. \A k \in Procs : loop[k].pc = "route" => loop[k].env \in Envelopes
  BY DEF Typed, LoopShape
<1>2. ASSUME NEW k \in Procs, Works(k)  PROVE FateIsLogged'
  <2>1. loop[k].env \in Envelopes /\ fate[loop[k].env] = "here"
    BY <1>2 DEF Works, HeldOnce, Typed, LoopShape, Busy
  <2>2. \A e \in Envelopes : \/ fate'[e] = fate[e]
                             \/ fate[e] = "here" /\ fate'[e] \in {"dropped", "lost"}
    BY <1>2, <2>1 DEF Works, Typed, TypeOK
  <2>3. PICK l \in {[pc |-> "create", env |-> loop[k].env], [pc |-> "append", env |-> loop[k].env],
                    IdleLoop} : loop' = [loop EXCEPT ![k] = l]
    BY <1>2 DEF Works
  <2>4. l.pc # "route"
    BY DEF IdleLoop
  <2>5. \A j \in Procs : loop'[j].pc = "route" => loop'[j] = loop[j]
    BY <2>3, <2>4, OneLoopMoves
  <2> QED BY <1>1, <1>2, <2>2, <2>5, FateUnstored DEF Works
<1>3. ASSUME NEW k \in Procs, Receive(k)  PROVE FateIsLogged'
  <2>1. frames[k] \in Seq(Envelopes) /\ frames[k] # <<>>
    BY <1>3 DEF Receive, Typed, TypeOK
  <2>2. Head(frames[k]) = frames[k][1] /\ 1 \in 1..Len(frames[k])
    BY <2>1
  <2>3. Head(frames[k]) \in Envelopes /\ fate[Head(frames[k])] = "here"
    BY <2>1, <2>2 DEF HeldOnce
  <2>4. \A e \in Envelopes : fate'[e] = fate[e] \/ (fate[e] = "here" /\ fate'[e] = "dropped")
    BY <1>3, <2>3 DEF Receive, Typed, TypeOK
  <2>5. \A j \in Procs : loop'[j].pc = "route" => loop'[j] = loop[j]
    <3>1. \/ loop' = loop
          \/ loop' = [loop EXCEPT ![k] = [pc |-> "find", env |-> Head(frames[k])]]
      BY <1>3 DEF Receive
    <3> QED BY <3>1, OneLoopMoves
  <2> QED BY <1>1, <1>3, <2>4, <2>5, FateUnstored DEF Receive
<1>4. ASSUME NEW k \in Procs, NEW e \in Envelopes, Arrive(k, e)  PROVE FateIsLogged'
  <2>1. \A d \in Envelopes : fate'[d] = fate[d] \/ (fate[d] = "sent" /\ fate'[d] = "here")
    BY <1>4 DEF Arrive, Typed, TypeOK
  <2> QED BY <1>1, <1>4, <2>1, FateUnstored DEF Arrive
<1>5. ASSUME NEW k \in Procs, Crash(k)  PROVE FateIsLogged'
  <2>1. frames[k] \in Seq(Envelopes)
    BY DEF Typed, TypeOK
  <2>2. DOMAIN frames[k] = 1..Len(frames[k])
    BY <2>1
  <2>3. \A e \in InProcess(k) : fate[e] = "here"
    BY <2>2 DEF InProcess, Range, HeldOnce, Busy
  <2>4. \A e \in Envelopes : fate'[e] = fate[e] \/ (fate[e] = "here" /\ fate'[e] = "lost")
    BY <1>5, <2>3 DEF Crash
  <2>5. \A j \in Procs : loop'[j].pc = "route" => loop'[j] = loop[j]
    BY <1>5, OneLoopMoves DEF Crash, IdleLoop
  <2> QED BY <1>1, <1>5, <2>4, <2>5, FateUnstored DEF Crash
<1>6. ASSUME NEW k \in Procs, AppendEnvelope(k)  PROVE FateIsLogged'
  <2>1. PICK e \in Envelopes : e = loop[k].env
    BY <1>6 DEF AppendEnvelope, Typed, LoopShape
  <2>2. loop' = [loop EXCEPT ![k] = [pc |-> "route", env |-> e]]
    BY <1>6, <2>1, PlaceMoves DEF AppendEnvelope, Places
  <2>3. \A j \in Procs : loop'[j] = IF j = k THEN [pc |-> "route", env |-> e] ELSE loop[j]
    BY <2>2, OneLoopMoves
  <2>4. /\ \A d \in Envelopes : log'[d] = IF d = e THEN IntentKept(e) ELSE log[d]
        /\ \A d \in Envelopes : fate'[d] = IF d = e THEN "stored" ELSE fate[d]
        /\ shown' = shown
    BY <1>6, <2>1 DEF AppendEnvelope, Typed, TypeOK
  <2>5. \A j \in Procs : loop'[j].pc = "route" => fate'[loop'[j].env] \in {"stored", "deleted"}
    BY <1>1, <2>3, <2>4 DEF FateIsLogged
  <2> QED BY <2>4, <2>5, DecisionTypes DEF FateIsLogged
<1>7. CASE Elsewhere
  <2>1. \A k \in Procs : loop'[k].pc = "route" => loop'[k] = loop[k] /\ loop[k].env \in Envelopes
    BY <1>1, <1>7, ElsewhereIsNotBusy
  <2>2. ASSUME NEW k \in Procs, Route(k)  PROVE FateIsLogged'
    <3>1. PICK e \in Envelopes : e = loop[k].env /\ fate[e] \in {"stored", "deleted"}
      BY <2>2 DEF Route, FateIsLogged, Typed, LoopShape
    <3>2. /\ \A d \in Envelopes : shown'[d] = IF d = e THEN IntentKept(e) ELSE shown[d]
          /\ UNCHANGED <<log, fate>>
      BY <2>2, <3>1 DEF Route, ShownIntent, Typed, TypeOK
    <3> QED BY <2>1, <3>1, <3>2 DEF FateIsLogged
  <2>3. ASSUME NEW p \in Peers, DeletePeer(p)  PROVE FateIsLogged'
    <3>1. UNCHANGED <<loop, shown>>
      BY <2>3 DEF DeletePeer
    <3>2. \A e \in Envelopes :
            \/ log'[e] = log[e] /\ fate'[e] = fate[e]
            \/ log'[e] = None /\ log[e] # None /\ fate'[e] = "deleted"
      BY <2>3 DEF DeletePeer, Typed, TypeOK
    <3> QED BY <1>1, <3>1, <3>2 DEF FateIsLogged
  <2>4. ASSUME UNCHANGED <<log, shown, fate>>  PROVE FateIsLogged'
    BY <2>1, <2>4 DEF FateIsLogged
  <2> QED BY <1>7, <2>2, <2>3, <2>4
          DEF Elsewhere, ShowEnds, LinkUp, LinkDown, RevokePeer, OpenThread, vars
<1> QED BY <1>2, <1>3, <1>4, <1>5, <1>6, <1>7, Steps, LoopWorks

\* One process at most has an envelope in hand, and what has become of it is what
\* the log says.
THEOREM FollowedHolds == Spec => []Followed
<1>1. Followed /\ [Next]_vars => Followed'
  BY TypedStep, HeldOnceStep, FateIsLoggedStep DEF Followed
<1> QED BY <1>1, InitFollowed, PTL DEF Spec

\* Whichever processes race, fail or crash, a surface is called with what the log
\* says of an envelope, until its sender is deleted (node.go:559-568).
THEOREM WhatIsShownIsStored == Spec => []ShownIsStored
<1>1. Followed => ShownIsStored
  BY DEF Followed, FateIsLogged, ShownIsStored
<1> QED BY <1>1, FollowedHolds, PTL

(***************************************************************************)
(* What is dropped, and why.                                               *)
(***************************************************************************)

\* A loop drops its envelope when the policy denies it or the thread is not its
\* sender's.
LEMMA DecidesDrops ==
  ASSUME Typed, NEW k \in Procs, NEW owner, Decides(k, owner), loop[k].pc # "idle",
         NEW e \in Envelopes, fate'[e] # fate[e]
  PROVE  e = loop[k].env /\ (owner # From[e] \/ Decision(e) = "deny")
BY DEF Decides, Drop, Return, MayAppend, Typed, TypeOK

\* The two ways to drop a valid envelope of a paired peer that the policy lets
\* pass are the only ones (node.go:543-554).
THEOREM DroppedForAReason == Spec => KeptUnlessRefused
<1> DEFINE Reason(e) == \/ threads[ThreadOf[e]] \notin {None, From[e]}
                        \/ \E k \in Procs : /\ loop[k] = [pc |-> "create", env |-> e]
                                            /\ threads[ThreadOf[e]] # None
<1>1. ASSUME Typed, [Next]_vars, NEW e \in Genuine, fate[e] # "dropped", fate'[e] = "dropped",
             trust[From[e]] = "paired", Decision(e) # "deny"
      PROVE  Reason(e)
  <2> USE DEF Typed
  <2>1. e \in Envelopes
    BY InboundAssumption
  <2>2. ASSUME NEW k \in Procs, FindThread(k)  PROVE Reason(e)
    <3>1. loop[k].pc # "idle" /\ threads[ThreadOf[loop[k].env]] # None
          /\ Decides(k, threads[ThreadOf[loop[k].env]])
      BY <1>1, <2>2 DEF FindThread
    <3>2. e = loop[k].env /\ threads[ThreadOf[loop[k].env]] # From[e]
      BY <1>1, <2>1, <3>1, DecidesDrops
    <3> QED BY <3>1, <3>2
  <2>3. ASSUME NEW k \in Procs, CreateThread(k)  PROVE Reason(e)
    <3>1. CASE threads[ThreadOf[loop[k].env]] = None
      <4>1. Decides(k, From[loop[k].env]) /\ loop[k].pc # "idle"
        BY <2>3, <3>1 DEF CreateThread
      <4> QED BY <1>1, <2>1, <4>1, DecidesDrops
    <3>2. CASE threads[ThreadOf[loop[k].env]] # None
      <4>1. fate' = [fate EXCEPT ![loop[k].env] = "dropped"] /\ loop[k].pc = "create"
        BY <2>3, <3>2 DEF CreateThread, Drop, Return
      <4>2. e = loop[k].env
        BY <1>1, <2>1, <4>1 DEF TypeOK
      <4>3. loop[k] \in Loops
        BY <1>1 DEF TypeOK, Loops
      <4>4. loop[k] = [pc |-> loop[k].pc, env |-> loop[k].env]
        BY <4>3 DEF Loops
      <4>5. loop[k] = [pc |-> "create", env |-> e]
        BY <4>1, <4>2, <4>4
      <4> QED BY <3>2, <4>2, <4>5
    <3> QED BY <3>1, <3>2
  <2>4. ASSUME NEW k \in Procs, Receive(k)  PROVE FALSE
    <3>1. fate' = fate \/ \E d : /\ fate' = [fate EXCEPT ![d] = "dropped"]
                                 /\ ~(Known(d) /\ d \in Genuine)
      BY <2>4 DEF Receive
    <3> QED BY <1>1, <2>1, <3>1 DEF TypeOK, Known
  <2>5. ASSUME NEW k \in Procs, StatementFails(k)  PROVE FALSE
    <3>1. fate' = fate \/ fate' = [fate EXCEPT ![loop[k].env] = "lost"]
      BY <2>5 DEF StatementFails, Return
    <3> QED BY <1>1, <2>1, <3>1 DEF TypeOK
  <2>6. ASSUME NEW k \in Procs, AppendEnvelope(k) \/ Crash(k) \/ \E d \in Envelopes : Arrive(k, d)
        PROVE  FALSE
    BY <1>1, <2>1, <2>6 DEF AppendEnvelope, Crash, Arrive, TypeOK
  <2>7. CASE Elsewhere
    BY <1>1, <2>1, <2>7 DEF Elsewhere, Route, ShowEnds, LinkUp, LinkDown, RevokePeer, DeletePeer,
       OpenThread, vars
  <2> QED BY <1>1, <2>2, <2>3, <2>4, <2>5, <2>6, <2>7, Steps
<1>2. Typed /\ Typed' /\ [Next]_vars =>
        [\A e \in Genuine :
           /\ fate[e] # "dropped" /\ fate'[e] = "dropped"
           /\ trust[From[e]] = "paired"
           /\ Decision(e) # "deny"
           => \/ threads[ThreadOf[e]] \notin {None, From[e]}
              \/ \E k \in Procs : /\ loop[k] = [pc |-> "create", env |-> e]
                                  /\ threads[ThreadOf[e]] # None]_vars
  BY <1>1
<1>3. Spec => []Typed
  BY InitTyped, TypedStep, PTL DEF Spec
<1> QED BY <1>2, <1>3, PTL DEF Spec, KeptUnlessRefused

\* The sender is not trusted, and the envelope has neither been stored nor passed
\* the check of the peer's row.
Barred(e) ==
  /\ trust[From[e]] # "paired"
  /\ log[e] = None
  /\ \A k \in Procs : Busy(k) => loop[k].env # e

LEMMA BarredStays ==
  ASSUME Followed, [Next]_vars, NEW e \in Envelopes, Barred(e)
  PROVE  Barred(e)'
<1> USE DecisionTypes DEF Followed
<1>1. trust'[From[e]] # "paired"
  BY DEF Barred, Next, LoopStep, FindThread, CreateThread, Receive, AppendEnvelope, Route,
     ShowEnds, StatementFails, LinkUp, LinkDown, Crash, Arrive, RevokePeer, DeletePeer,
     OpenThread, vars, Typed, TypeOK
<1>2. ASSUME UNCHANGED log,
             \A k \in Procs : Busy(k)' => (Busy(k) /\ loop'[k].env = loop[k].env) \/ loop'[k].env # e
      PROVE  Barred(e)'
  BY <1>1, <1>2 DEF Barred
<1>3. ASSUME NEW k \in Procs, Works(k)  PROVE Barred(e)'
  <2>1. PICK l \in {[pc |-> "create", env |-> loop[k].env], [pc |-> "append", env |-> loop[k].env],
                    IdleLoop} : loop' = [loop EXCEPT ![k] = l]
    BY <1>3 DEF Works
  <2>2. Busy(k) /\ (l = IdleLoop \/ l.env = loop[k].env)
    BY <1>3, <2>1 DEF Works
  <2>3. \A j \in Procs : Busy(j)' => Busy(j) /\ loop'[j].env = loop[j].env
    BY <2>1, <2>2, OneLoopMoves DEF Busy, IdleLoop
  <2> QED BY <1>2, <1>3, <2>3 DEF Works
<1>4. ASSUME NEW k \in Procs, Receive(k)  PROVE Barred(e)'
  <2>1. \/ loop' = loop
        \/ \E d : loop' = [loop EXCEPT ![k] = [pc |-> "find", env |-> d]] /\ Known(d)
    BY <1>4 DEF Receive
  <2>2. ~Known(e)
    BY DEF Known, Barred
  <2>3. \A j \in Procs : Busy(j)' => (Busy(j) /\ loop'[j].env = loop[j].env) \/ loop'[j].env # e
    BY <2>1, <2>2, OneLoopMoves DEF Busy
  <2> QED BY <1>2, <1>4, <2>3 DEF Receive
<1>5. ASSUME NEW k \in Procs, AppendEnvelope(k)  PROVE Barred(e)'
  <2>1. loop[k].env # e /\ loop[k].env \in Envelopes
    BY <1>5 DEF AppendEnvelope, Barred, Busy, Typed, LoopShape
  <2>2. loop' = [loop EXCEPT ![k] = [pc |-> "route", env |-> loop[k].env]]
    BY <1>5, PlaceMoves DEF AppendEnvelope, Places
  <2>3. \A j \in Procs : Busy(j)' => Busy(j) /\ loop'[j].env = loop[j].env
    BY <2>2, OneLoopMoves DEF Busy
  <2>4. log'[e] = log[e]
    BY <1>5, <2>1 DEF AppendEnvelope, Typed, TypeOK
  <2> QED BY <1>1, <2>3, <2>4 DEF Barred
<1>6. ASSUME NEW k \in Procs, Crash(k)  PROVE Barred(e)'
  <2>1. \A j \in Procs : Busy(j)' => Busy(j) /\ loop'[j].env = loop[j].env
    BY <1>6, OneLoopMoves DEF Crash, Busy, IdleLoop
  <2> QED BY <1>2, <1>6, <2>1 DEF Crash
<1>7. ASSUME NEW k \in Procs, NEW d \in Envelopes, Arrive(k, d)  PROVE Barred(e)'
  BY <1>2, <1>7 DEF Arrive, Busy
<1>8. CASE Elsewhere
  <2>1. \A j \in Procs : Busy(j)' => Busy(j) /\ loop'[j].env = loop[j].env
    BY <1>8, ElsewhereIsNotBusy DEF Busy
  <2>2. log'[e] = None
    BY <1>8 DEF Barred, Elsewhere, Route, ShowEnds, LinkUp, LinkDown, RevokePeer, DeletePeer,
       OpenThread, vars
  <2> QED BY <1>1, <2>1, <2>2 DEF Barred
<1>9. ASSUME NEW k \in Procs, FindThread(k) \/ CreateThread(k) \/ StatementFails(k)
      PROVE  Barred(e)'
  <2>1. Works(k)
    BY <1>9, LoopWorks
  <2> QED BY <1>3, <2>1
<1> QED BY <1>3, <1>4, <1>5, <1>6, <1>7, <1>8, <1>9, Steps

\* Whatever comes from a peer that was revoked before it arrived is never stored,
\* even when the peer is deleted later (node.go:522-524, 280-281).
THEOREM TheRevokedAreBarred ==
  ASSUME NEW e \in Envelopes
  PROVE  Spec => [](fate[e] = "sent" /\ trust[From[e]] = "revoked" => [](log[e] = None))
<1>1. Followed /\ fate[e] = "sent" /\ trust[From[e]] = "revoked" => Barred(e)
  BY DEF Followed, FateIsLogged, HeldOnce, Barred
<1>2. Barred(e) => log[e] = None
  BY DEF Barred
<1>3. Followed /\ Barred(e) /\ [Next]_vars => Barred(e)'
  BY BarredStays
<1> QED BY <1>1, <1>2, <1>3, FollowedHolds, PTL DEF Spec

THEOREM RevokedStaysOut == Spec => RevokedIsDropped
BY TheRevokedAreBarred DEF RevokedIsDropped
=============================================================================
