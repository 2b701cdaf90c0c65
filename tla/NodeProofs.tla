----------------------------- MODULE NodeProofs -----------------------------
(***************************************************************************)
(* Proofs about a node: its loops and their link (Lifecycle), and then the *)
(* conversation that it keeps and those who read and write it              *)
(* (Conversation).  The two share nothing; neither part cites the other.   *)
(***************************************************************************)
EXTENDS Lifecycle, Conversation, FiniteSetTheorems, WellFoundedInduction, TLAPS

InboundStates ==
  [pc : {"off", "top", "look", "recv", "failed", "clear", "redial", "dialing",
         "install", "backoff", "ended"},
   link : Links \cup {None}, ch : 0..MaxStarts]

\* The places in which the loop holds a link of its own.
Holding == {"recv", "failed", "clear", "install"}
HoldsALink == \A i \in Starts : inbound[i].pc \in Holding => inbound[i].link \in Links

\* Stop closes a channel that a Start has made.
RunningIsStarted == running => stopCh \in Starts

Typed == TypeOK /\ HoldsALink /\ RunningIsStarted

\* What At makes, and what a loop's move leaves alone.
LEMMA LoopMoves ==
  ASSUME Typed, NEW i \in Starts, NEW s \in InboundStates,
         s.pc \in Holding => s.link \in Links,
         inbound' = [inbound EXCEPT ![i] = s]
  PROVE  /\ inbound' \in [Starts -> InboundStates]
         /\ \A j \in Starts : inbound'[j].pc = "recv" => inbound'[j].link \in Links
         /\ HoldsALink'
<1>1. inbound \in [Starts -> InboundStates]
  BY DEF Typed, TypeOK, InboundStates
<1>2. ASSUME NEW j \in Starts, inbound'[j].pc \in Holding  PROVE inbound'[j].link \in Links
  BY <1>1, <1>2 DEF Typed, HoldsALink
<1> QED BY <1>1, <1>2 DEF HoldsALink, Holding

LEMMA AtIsState ==
  ASSUME NEW where \in {"off", "top", "look", "recv", "failed", "clear", "redial",
                        "dialing", "install", "backoff", "ended"},
         NEW l \in Links \cup {None}, NEW ch \in 0..MaxStarts
  PROVE  /\ At(where, l, ch) \in InboundStates
         /\ At(where, l, ch).pc = where
         /\ At(where, l, ch).link = l
         /\ At(where, l, ch).ch = ch
BY DEF At, InboundStates

LEMMA InitTyped == Init => Typed
<1> SUFFICES ASSUME Init  PROVE Typed
  OBVIOUS
<1>1. 0 \in 0..MaxStarts
  BY LifecycleAssumption
<1>2. At("off", None, 0) \in InboundStates /\ At("off", None, 0).pc = "off"
  BY <1>1, AtIsState
<1>3. TypeOK
  BY <1>1, <1>2 DEF Init, TypeOK, InboundStates
<1>4. HoldsALink
  BY <1>2 DEF Init, HoldsALink, Holding
<1>5. RunningIsStarted
  BY DEF Init, RunningIsStarted
<1> QED BY <1>3, <1>4, <1>5 DEF Typed

\* The inbound loop of one Start: a type for every place it goes to.
LEMMA InboundTyped ==
  ASSUME Typed, NEW i \in Starts, InboundStep(i)
  PROVE  Typed'
<1>0. /\ 0 \in 0..MaxStarts /\ stopCh \in 0..MaxStarts
      /\ inbound[i].link \in Links \cup {None} /\ link \in Links \cup {None}
      /\ inbound[i].pc \in Holding => inbound[i].link \in Links
  BY LifecycleAssumption DEF Typed, TypeOK, HoldsALink
<1>1. ASSUME NEW where \in {"top", "look", "redial", "dialing", "ended"},
             GoesTo(i, At(where, None, 0)),
             link' \in Links \cup {None},
             state' \in [Links -> {"unused", "open", "broken", "closed"}],
             UNCHANGED <<running, stopCh, stopped, drain, publishing>>
      PROVE  Typed'
  <2>1. At(where, None, 0) \in InboundStates /\ At(where, None, 0).pc \notin Holding
    BY <1>0, AtIsState DEF Holding
  <2>2. /\ inbound' \in [Starts -> InboundStates]
        /\ \A j \in Starts : inbound'[j].pc = "recv" => inbound'[j].link \in Links
        /\ HoldsALink'
    BY <1>1, <2>1, LoopMoves DEF GoesTo
  <2> QED BY <1>1, <2>2 DEF Typed, TypeOK, RunningIsStarted, publishing, InboundStates
<1>2. ASSUME NEW where \in {"recv", "failed", "clear", "install", "ended"}, NEW l \in Links,
             GoesTo(i, At(where, l, 0)),
             link' = link,
             state' \in [Links -> {"unused", "open", "broken", "closed"}],
             UNCHANGED <<running, stopCh, stopped, drain, publishing>>
      PROVE  Typed'
  <2>1. At(where, l, 0) \in InboundStates /\ At(where, l, 0).link \in Links
    BY <1>0, AtIsState
  <2>2. /\ inbound' \in [Starts -> InboundStates]
        /\ \A j \in Starts : inbound'[j].pc = "recv" => inbound'[j].link \in Links
        /\ HoldsALink'
    BY <1>2, <2>1, LoopMoves DEF GoesTo
  <2> QED BY <1>2, <2>2 DEF Typed, TypeOK, RunningIsStarted, publishing, InboundStates
<1>3. CASE Top(i)
  BY <1>1, <1>3 DEF Top, Typed, TypeOK
<1>4. CASE Look(i)
  BY <1>0, <1>1, <1>2, <1>4 DEF Look, AfterLook, Typed, TypeOK
<1>5. CASE Recv(i)
  BY <1>1, <1>5 DEF Recv, Typed, TypeOK
<1>6. CASE RecvFails(i)
  BY <1>0, <1>2, <1>6 DEF RecvFails, Typed, TypeOK, Holding
<1>7. CASE Failed(i)
  BY <1>0, <1>2, <1>7 DEF Failed, AfterFailure, Typed, TypeOK, Holding
<1>8. CASE Clear(i)
  BY <1>0, <1>1, <1>8 DEF Clear, LinkAfter, StateAfter, Typed, TypeOK
<1>9. CASE Redial(i)
  BY <1>1, <1>9 DEF Redial, Typed, TypeOK
<1>10. CASE DialFails(i)
  BY <1>0, <1>10, AtIsState, LoopMoves
     DEF DialFails, GoesTo, Typed, TypeOK, RunningIsStarted, publishing, InboundStates, Holding
<1>11. CASE Install(i)
  BY <1>0, <1>1, <1>11 DEF Install, Typed, TypeOK, Holding
<1>12. CASE Backoff(i)
  BY <1>1, <1>12 DEF Backoff, Typed, TypeOK
<1>13. ASSUME NEW l \in Links, Dials(i, l)  PROVE Typed'
  BY <1>2, <1>13 DEF Dials, Typed, TypeOK
<1> QED BY <1>3, <1>4, <1>5, <1>6, <1>7, <1>8, <1>9, <1>10, <1>11, <1>12, <1>13
        DEF InboundStep

LEMMA TypedStep ==
  ASSUME Typed, [Next]_vars
  PROVE  Typed'
<1>0. /\ 0 \in 0..MaxStarts /\ stopCh \in 0..MaxStarts
      /\ drain \in [Starts -> [pc : {"off", "select", "work", "ended"}, ch : 0..MaxStarts]]
  BY LifecycleAssumption DEF Typed, TypeOK
<1>1. CASE UNCHANGED vars
  BY <1>1 DEF vars, Typed, TypeOK, HoldsALink, RunningIsStarted
<1>2. ASSUME NEW l \in Links, Start(l)  PROVE Typed'
  <2>1. stopCh + 1 \in Starts
    BY <1>0, <1>2, LifecycleAssumption DEF Start, Starts
  <2>2. stopCh' \in 0..MaxStarts
    BY <1>2, <2>1, LifecycleAssumption DEF Start, Starts
  <2>3. [pc |-> "work", ch |-> 0] \in [pc : {"off", "select", "work", "ended"}, ch : 0..MaxStarts]
    BY <1>0
  <2>4. drain' \in [Starts -> [pc : {"off", "select", "work", "ended"}, ch : 0..MaxStarts]]
    BY <1>0, <1>2, <2>3 DEF Start
  <2>5. /\ inbound' \in [Starts -> InboundStates]
        /\ \A j \in Starts : inbound'[j].pc = "recv" => inbound'[j].link \in Links
        /\ HoldsALink'
    BY <1>0, <1>2, <2>1, AtIsState, LoopMoves DEF Start, Holding
  <2> QED BY <1>2, <2>1, <2>2, <2>4, <2>5
          DEF Start, Typed, TypeOK, RunningIsStarted, publishing, InboundStates
<1>3. ASSUME NEW l \in Links, Breaks(l)  PROVE Typed'
  BY <1>3 DEF Breaks, Typed, TypeOK, HoldsALink, RunningIsStarted, loops, publishing
<1>4. CASE Stop
  <2>1. stopped' \subseteq Starts
    BY <1>4 DEF Stop, StoppedBy, Typed, TypeOK, RunningIsStarted
  <2>2. state' \in [Links -> {"unused", "open", "broken", "closed"}]
    BY <1>4 DEF Stop, Typed, TypeOK
  <2> QED BY <1>4, <2>1, <2>2 DEF Stop, Typed, TypeOK, HoldsALink, RunningIsStarted, loops, publishing
<1>5. ASSUME NEW i \in Starts, InboundStep(i)  PROVE Typed'
  BY <1>5, InboundTyped
<1>6. ASSUME NEW i \in Starts, DrainStep(i)  PROVE Typed'
  <2>1. drain' \in [Starts -> [pc : {"off", "select", "work", "ended"}, ch : 0..MaxStarts]]
    BY <1>0, <1>6 DEF DrainStep, DrainTicks, DrainSelects, DrainEnds
  <2> QED BY <1>6, <2>1
          DEF DrainStep, DrainTicks, DrainSelects, DrainEnds, Typed, TypeOK, HoldsALink,
              RunningIsStarted, publishing
<1>7. ASSUME NEW s \in Subs, Subscribe(s) \/ CancelRemoves(s) \/ CancelCloses(s)  PROVE Typed'
  BY <1>7 DEF Subscribe, CancelRemoves, CancelCloses, Typed, TypeOK, HoldsALink, RunningIsStarted, loops
<1>8. ASSUME NEW j \in Publishers, Publish(j)  PROVE Typed'
  BY <1>8 DEF Publish, Typed, TypeOK, HoldsALink, RunningIsStarted, loops
<1>9. ASSUME NEW j \in Publishers, NEW s \in Subs, PublishSends(j, s)  PROVE Typed'
  BY <1>9 DEF PublishSends, Typed, TypeOK, HoldsALink, RunningIsStarted, loops
<1> QED BY <1>1, <1>2, <1>3, <1>4, <1>5, <1>6, <1>7, <1>8, <1>9 DEF Next

\* The types of the system's state.
THEOREM TypeCorrect == Spec => []TypeOK
<1>1. Typed /\ [Next]_vars => Typed'
  BY TypedStep
<1>2. Typed => TypeOK
  BY DEF Typed
<1> QED BY InitTyped, <1>1, <1>2, PTL DEF Spec

-----------------------------------------------------------------------------
(***************************************************************************)
(* A running node's loop is that of its last Start, whose stop channel is  *)
(* open; nor can it have read an older channel before its backoff.         *)
(***************************************************************************)
LoopGoesOn ==
  /\ stopped \subseteq 1..stopCh
  /\ running => stopCh \notin stopped
  /\ running => inbound[stopCh].pc \notin {"off", "ended"}
  /\ \A i \in Starts : i > stopCh => inbound[i].pc = "off"
  /\ \A i \in Starts : inbound[i].pc = "backoff" => inbound[i].ch \in i..stopCh

Current == Typed /\ LoopGoesOn

LEMMA InitCurrent == Init => Current
<1> SUFFICES ASSUME Init  PROVE Current
  OBVIOUS
<1>1. \A i \in Starts : inbound[i].pc = "off"
  BY DEF Init, At
<1> QED BY <1>1, InitTyped DEF Current, LoopGoesOn, Init

\* A step of one loop: it may end only when it is not that of a running node.
LEMMA OneLoopMoves ==
  ASSUME Current, NEW i \in Starts, NEW s \in InboundStates,
         inbound' = [inbound EXCEPT ![i] = s],
         inbound[i].pc # "off",
         s.pc \notin {"off", "ended"} \/ (s.pc = "ended" /\ stopCh \in stopped),
         s.pc = "backoff" => s.ch \in i..stopCh,
         UNCHANGED <<running, stopCh, stopped>>
  PROVE  LoopGoesOn'
<1>1. /\ inbound \in [Starts -> InboundStates]
      /\ i <= stopCh
      /\ running => stopCh \in Starts
      /\ i \in Nat /\ stopCh \in Nat
  BY LifecycleAssumption DEF Current, Typed, TypeOK, LoopGoesOn, RunningIsStarted, InboundStates, Starts
<1>2. \A j \in Starts : inbound'[j] = IF j = i THEN s ELSE inbound[j]
  BY <1>1
<1>3. running' => inbound'[stopCh'].pc \notin {"off", "ended"}
  BY <1>1, <1>2 DEF Current, LoopGoesOn
<1>4. \A j \in Starts : j > stopCh' => inbound'[j].pc = "off"
  BY <1>1, <1>2 DEF Current, LoopGoesOn
<1>5. \A j \in Starts : inbound'[j].pc = "backoff" => inbound'[j].ch \in j..stopCh'
  BY <1>1, <1>2 DEF Current, LoopGoesOn
<1> QED BY <1>3, <1>4, <1>5 DEF Current, LoopGoesOn

LEMMA InboundCurrent ==
  ASSUME Current, NEW i \in Starts, InboundStep(i)
  PROVE  LoopGoesOn'
<1>0. /\ 0 \in 0..MaxStarts /\ stopCh \in 0..MaxStarts /\ stopCh \in Nat /\ i \in Nat
      /\ inbound[i].link \in Links \cup {None} /\ link \in Links \cup {None}
      /\ inbound[i].pc # "off" => i <= stopCh
  BY LifecycleAssumption DEF Current, Typed, TypeOK, LoopGoesOn, Starts
<1>1. ASSUME NEW where \in {"top", "look", "recv", "failed", "clear", "redial", "dialing",
                            "install"},
             NEW l \in Links \cup {None}, GoesTo(i, At(where, l, 0)), inbound[i].pc # "off",
             UNCHANGED <<running, stopCh, stopped>>
      PROVE  LoopGoesOn'
  <2>1. /\ At(where, l, 0) \in InboundStates
        /\ At(where, l, 0).pc \notin {"off", "ended", "backoff"}
    BY <1>0 DEF At, InboundStates
  <2> QED BY <1>1, <2>1, OneLoopMoves DEF GoesTo
<1>2. ASSUME NEW l \in Links \cup {None}, GoesTo(i, At("ended", l, 0)), IsStopped,
             inbound[i].pc # "off", UNCHANGED <<running, stopCh, stopped>>
      PROVE  LoopGoesOn'
  BY <1>0, <1>2, AtIsState, OneLoopMoves DEF GoesTo, IsStopped
<1>3. CASE Top(i)
  BY <1>1, <1>2, <1>3 DEF Top
<1>4. CASE Look(i)
  BY <1>0, <1>1, <1>4 DEF Look, AfterLook
<1>5. CASE Recv(i)
  BY <1>1, <1>5 DEF Recv
<1>6. CASE RecvFails(i)
  BY <1>0, <1>1, <1>6 DEF RecvFails
<1>7. CASE Failed(i)
  BY <1>0, <1>1, <1>2, <1>7 DEF Failed, AfterFailure
<1>8. CASE Clear(i)
  BY <1>1, <1>8 DEF Clear
<1>9. CASE Redial(i)
  BY <1>1, <1>2, <1>9 DEF Redial
<1>10. CASE DialFails(i)
  <2>1. /\ At("backoff", None, stopCh) \in InboundStates
        /\ At("backoff", None, stopCh).pc = "backoff"
        /\ At("backoff", None, stopCh).ch = stopCh
    BY <1>0 DEF At, InboundStates
  <2>2. stopCh \in i..stopCh
    BY <1>0, <1>10 DEF DialFails
  <2> QED BY <1>10, <2>1, <2>2, OneLoopMoves DEF DialFails, GoesTo
<1>11. CASE Install(i)
  BY <1>1, <1>11 DEF Install
<1>12. CASE Backoff(i)
  <2>1. CASE inbound[i].ch \in stopped /\ GoesTo(i, At("ended", None, 0))
    <3>1. inbound[i].ch \in i..stopCh
      BY <1>12 DEF Backoff, Current, LoopGoesOn
    <3>2. CASE running /\ i = stopCh
      BY <1>0, <2>1, <3>1, <3>2 DEF Current, LoopGoesOn
    <3>3. CASE ~(running /\ i = stopCh)
      <4>1. /\ inbound \in [Starts -> InboundStates]
            /\ \A j \in Starts : inbound'[j] = IF j = i THEN At("ended", None, 0) ELSE inbound[j]
        BY <2>1 DEF GoesTo, Current, Typed, TypeOK, InboundStates
      <4>2. At("ended", None, 0).pc = "ended"
        BY DEF At
      <4>3. running => stopCh \in Starts
        BY DEF Current, Typed, RunningIsStarted
      <4>4. UNCHANGED <<running, stopCh, stopped>>
        BY <1>12 DEF Backoff
      <4>5. running' => inbound'[stopCh'].pc \notin {"off", "ended"}
        BY <3>3, <4>1, <4>3, <4>4 DEF Current, LoopGoesOn
      <4>6. \A j \in Starts : j > stopCh' => inbound'[j].pc = "off"
        BY <1>0, <1>12, <4>1, <4>4 DEF Current, LoopGoesOn, Backoff
      <4>7. \A j \in Starts : inbound'[j].pc = "backoff" => inbound'[j].ch \in j..stopCh'
        BY <4>1, <4>2, <4>4 DEF Current, LoopGoesOn
      <4> QED BY <4>4, <4>5, <4>6, <4>7 DEF Current, LoopGoesOn
    <3> QED BY <3>2, <3>3
  <2>2. CASE GoesTo(i, At("redial", None, 0))
    BY <1>1, <1>12, <2>2 DEF Backoff
  <2> QED BY <1>12, <2>1, <2>2 DEF Backoff
<1>13. ASSUME NEW l \in Links, Dials(i, l)  PROVE LoopGoesOn'
  BY <1>1, <1>13 DEF Dials
<1> QED BY <1>3, <1>4, <1>5, <1>6, <1>7, <1>8, <1>9, <1>10, <1>11, <1>12, <1>13
        DEF InboundStep

LEMMA CurrentStep ==
  ASSUME Current, [Next]_vars
  PROVE  Current'
<1>0. /\ stopCh \in 0..MaxStarts /\ stopCh \in Nat
      /\ inbound \in [Starts -> InboundStates]
      /\ running => stopCh \in Starts
      /\ Typed'
  BY TypedStep, LifecycleAssumption DEF Current, Typed, TypeOK, RunningIsStarted, InboundStates
<1>1. CASE UNCHANGED <<running, stopCh, stopped, inbound>>
  BY <1>0, <1>1 DEF Current, LoopGoesOn
<1>2. ASSUME NEW l \in Links, Start(l)  PROVE LoopGoesOn'
  <2>1. stopCh + 1 \in Starts /\ stopCh' = stopCh + 1
    BY <1>0, <1>2, LifecycleAssumption DEF Start, Starts
  <2>2. At("top", None, 0).pc = "top"
    BY DEF At
  <2>3. \A j \in Starts : inbound'[j] = IF j = stopCh + 1 THEN At("top", None, 0) ELSE inbound[j]
    BY <1>0, <1>2, <2>1 DEF Start
  <2>4. stopped' \subseteq 1..stopCh' /\ stopCh' \notin stopped'
    BY <1>0, <1>2, <2>1 DEF Start, Current, LoopGoesOn
  <2>5. inbound'[stopCh'].pc \notin {"off", "ended"}
    BY <2>1, <2>2, <2>3
  <2>6. \A i \in Starts : i > stopCh' => inbound'[i].pc = "off"
    BY <1>0, <2>1, <2>3 DEF Current, LoopGoesOn, Starts
  <2>7. \A i \in Starts : inbound'[i].pc = "backoff" => inbound'[i].ch \in i..stopCh'
    BY <1>0, <2>1, <2>2, <2>3 DEF Current, LoopGoesOn, Starts
  <2> QED BY <2>4, <2>5, <2>6, <2>7 DEF LoopGoesOn
<1>3. ASSUME Stop  PROVE LoopGoesOn'
  <2>1. stopped' \subseteq 1..stopCh'
    BY <1>0, <1>3 DEF Stop, StoppedBy, Current, LoopGoesOn, Starts
  <2>2. running' = FALSE /\ UNCHANGED <<stopCh, inbound>>
    BY <1>3 DEF Stop, loops
  <2> QED BY <2>1, <2>2 DEF Current, LoopGoesOn
<1>4. ASSUME NEW i \in Starts, InboundStep(i)  PROVE LoopGoesOn'
  BY <1>4, InboundCurrent
<1>5. ASSUME NEW i \in Starts, DrainStep(i)  PROVE UNCHANGED <<running, stopCh, stopped, inbound>>
  BY <1>5 DEF DrainStep, DrainTicks, DrainSelects, DrainEnds
<1>6. ASSUME NEW s \in Subs, Subscribe(s) \/ CancelRemoves(s) \/ CancelCloses(s)
      PROVE  UNCHANGED <<running, stopCh, stopped, inbound>>
  BY <1>6 DEF Subscribe, CancelRemoves, CancelCloses, loops
<1>7. ASSUME NEW j \in Publishers, Publish(j) \/ \E s \in Subs : PublishSends(j, s)
      PROVE  UNCHANGED <<running, stopCh, stopped, inbound>>
  BY <1>7 DEF Publish, PublishSends, loops
<1>8. ASSUME NEW l \in Links, Breaks(l)  PROVE UNCHANGED <<running, stopCh, stopped, inbound>>
  BY <1>8 DEF Breaks, loops
<1>9. UNCHANGED vars => UNCHANGED <<running, stopCh, stopped, inbound>>
  BY DEF vars
<1> QED BY <1>0, <1>1, <1>2, <1>3, <1>4, <1>5, <1>6, <1>7, <1>8, <1>9 DEF Next, Current

\* A running node receives (node.go:480-484): for any number of restarts and of
\* links, its last Start's loop is there, which no earlier Stop can end.
THEOREM NodeReceives == Spec => []SomebodyReceives
<1>1. Current /\ [Next]_vars => Current'
  BY CurrentStep
<1>2. Current => SomebodyReceives
  BY DEF Current, Typed, RunningIsStarted, LoopGoesOn, SomebodyReceives
<1> QED BY InitCurrent, <1>1, <1>2, PTL DEF Spec

-----------------------------------------------------------------------------
(***************************************************************************)
(* A node whose loops come one after another: where its loop has no link   *)
(* of the node's, there is none; and the link it holds is the node's       *)
(* unless it is closed.                                                    *)
(***************************************************************************)

\* Start is called when nothing of the time before goes on.
StartsAlone ==
  stopCh' # stopCh => link = None /\ \A i \in Starts : inbound[i].pc \in {"off", "ended"}

OneOwner ==
  /\ stopCh = 0 => link = None
  /\ \A i \in Starts :
       /\ i # stopCh => inbound[i].pc \in {"off", "ended"}
       /\ inbound[i].pc \in {"off", "top", "look", "redial", "dialing", "backoff"} =>
            inbound[i].link = None
       /\ inbound[i].pc \in {"redial", "dialing", "backoff", "install"} => link = None
       /\ inbound[i].pc \in {"recv", "failed", "clear"} =>
            state[inbound[i].link] = "closed" \/ link = inbound[i].link

Held == Typed /\ OneOwner /\ OpenIsHeld

LEMMA InitHeld == Init => Held
<1> SUFFICES ASSUME Init  PROVE Held
  OBVIOUS
<1>1. \A i \in Starts : inbound[i].pc = "off" /\ inbound[i].link = None
  BY DEF Init, At
<1> QED BY <1>1, InitTyped DEF Held, OneOwner, OpenIsHeld, Init

\* The one loop goes on, or ends without a link that is open.
LEMMA OneLoopOwns ==
  ASSUME Held, NEW i \in Starts, NEW s \in InboundStates,
         inbound' = [inbound EXCEPT ![i] = s], inbound[i].pc \notin {"off", "ended"},
         s.pc # "off",
         s.pc \in {"top", "look", "redial", "dialing", "backoff"} => s.link = None,
         s.pc \in {"redial", "dialing", "backoff", "install"} => link' = None,
         s.pc \in {"recv", "failed", "clear"} => state'[s.link] = "closed" \/ link' = s.link,
         \A l \in Links : state'[l] \in {"open", "broken"} =>
           link' = l \/ (s.link = l /\ s.pc # "ended"),
         UNCHANGED stopCh
  PROVE  OneOwner' /\ OpenIsHeld'
<1>1. i = stopCh /\ i # 0 /\ \A j \in Starts : j # i => inbound[j].pc \in {"off", "ended"}
  BY DEF Held, OneOwner, Starts
<1>2. inbound' = [j \in Starts |-> IF j = i THEN s ELSE inbound[j]]
  BY DEF Held, Typed, TypeOK
<1>3. inbound'[i] = s /\ \A j \in Starts : j # i => inbound'[j] = inbound[j]
  BY <1>2
<1>4. OneOwner'
  BY <1>1, <1>3 DEF Held, OneOwner
<1>5. OpenIsHeld'
  BY <1>1, <1>3 DEF OpenIsHeld
<1> QED BY <1>4, <1>5

LEMMA InboundOwns ==
  ASSUME Held, NEW i \in Starts, InboundStep(i)
  PROVE  OneOwner' /\ OpenIsHeld'
<1>0. /\ 0 \in 0..MaxStarts /\ stopCh \in 0..MaxStarts
      /\ link \in Links \cup {None} /\ None \notin Links
      /\ inbound[i].link \in Links \cup {None}
      /\ inbound[i].pc \in Holding => inbound[i].link \in Links
      /\ state \in [Links -> {"unused", "open", "broken", "closed"}]
  BY LifecycleAssumption DEF Held, Typed, TypeOK, HoldsALink
\* What is open is the node's, or the loop's.
<1>1. \A l \in Links : state[l] \in {"open", "broken"} =>
        link = l \/ (inbound[i].link = l /\ inbound[i].pc # "ended")
  <2>1. /\ inbound[i].pc \notin {"off", "ended"}
        /\ \A j \in Starts : j # i => inbound[j].pc \in {"off", "ended"}
    BY DEF Held, OneOwner, InboundStep, Top, Look, Recv, RecvFails, Failed, Clear, Redial,
           Dials, DialFails, Install, Backoff
  <2>2. \A j \in Starts : j # i => inbound[j].link = None \/ inbound[j].pc = "ended"
    BY <2>1 DEF Held, OneOwner
  <2> QED BY <1>0, <2>2 DEF Held, OpenIsHeld
<1>2. /\ inbound[i].pc \in {"top", "look", "redial", "dialing", "backoff"} =>
           inbound[i].link = None
      /\ inbound[i].pc \in {"redial", "dialing", "backoff", "install"} => link = None
      /\ inbound[i].pc \in {"recv", "failed", "clear"} =>
           state[inbound[i].link] = "closed" \/ link = inbound[i].link
  BY DEF Held, OneOwner
<1>3. ASSUME NEW where \in {"top", "look", "redial", "dialing", "backoff", "ended"},
             NEW ch \in 0..MaxStarts, GoesTo(i, At(where, None, ch)),
             inbound[i].pc \notin {"off", "ended"},
             where \in {"redial", "dialing", "backoff"} => link' = None,
             \A l \in Links : state'[l] \in {"open", "broken"} => link' = l,
             UNCHANGED stopCh
      PROVE  OneOwner' /\ OpenIsHeld'
  <2>1. /\ At(where, None, ch) \in InboundStates
        /\ At(where, None, ch).pc = where /\ At(where, None, ch).link = None
    BY <1>0 DEF At, InboundStates
  <2> QED BY <1>3, <2>1, OneLoopOwns DEF GoesTo
<1>4. ASSUME NEW where \in {"recv", "failed", "clear", "ended"}, NEW l \in Links,
             GoesTo(i, At(where, l, 0)),
             inbound[i].pc \notin {"off", "ended"}, state[l] = "closed" \/ link = l,
             \A m \in Links : state[m] \in {"open", "broken"} => link = m,
             UNCHANGED <<stopCh, state, link>>
      PROVE  OneOwner' /\ OpenIsHeld'
  <2>1. /\ At(where, l, 0) \in InboundStates
        /\ At(where, l, 0).pc = where /\ At(where, l, 0).link = l
    BY <1>0 DEF At, InboundStates
  <2> QED BY <1>4, <2>1, OneLoopOwns DEF GoesTo
<1>5. CASE Top(i)
  BY <1>0, <1>1, <1>2, <1>3, <1>5 DEF Top
<1>6. CASE Look(i)
  <2>1. CASE link = None
    BY <1>0, <1>1, <1>2, <1>3, <1>6, <2>1 DEF Look, AfterLook
  <2>2. CASE link # None
    BY <1>0, <1>1, <1>2, <1>4, <1>6, <2>2 DEF Look, AfterLook
  <2> QED BY <2>1, <2>2
<1>7. CASE Recv(i)
  BY <1>0, <1>1, <1>2, <1>3, <1>7 DEF Recv, Holding
<1>8. CASE RecvFails(i)
  BY <1>0, <1>1, <1>2, <1>4, <1>8 DEF RecvFails, Holding
<1>9. CASE Failed(i)
  BY <1>0, <1>1, <1>2, <1>4, <1>9 DEF Failed, AfterFailure, Holding
<1>10. CASE Clear(i)
  <2>1. \A m \in Links : state'[m] = IF m = inbound[i].link THEN "closed" ELSE state[m]
    BY <1>0, <1>10 DEF Clear, StateAfter, Holding
  <2>2. \A m \in Links : state'[m] \in {"open", "broken"} => link' = m
    BY <1>1, <1>2, <1>10, <2>1 DEF Clear, LinkAfter
  <2> QED BY <1>0, <1>3, <1>10, <2>2 DEF Clear
<1>11. CASE Redial(i)
  BY <1>0, <1>1, <1>2, <1>3, <1>11 DEF Redial
<1>12. CASE DialFails(i)
  BY <1>0, <1>1, <1>2, <1>3, <1>12 DEF DialFails
<1>13. CASE Install(i)
  <2>1. \A m \in Links : state'[m] \in {"open", "broken"} => link' = m
    BY <1>0, <1>1, <1>2, <1>13 DEF Install
  <2> QED BY <1>0, <1>3, <1>13, <2>1 DEF Install
<1>14. CASE Backoff(i)
  BY <1>0, <1>1, <1>2, <1>3, <1>14 DEF Backoff
<1>15. ASSUME NEW l \in Links, Dials(i, l)  PROVE OneOwner' /\ OpenIsHeld'
  <2>1. /\ At("install", l, 0) \in InboundStates
        /\ At("install", l, 0).pc = "install" /\ At("install", l, 0).link = l
    BY <1>0 DEF At, InboundStates
  <2>2. \A m \in Links : state'[m] = IF m = l THEN "open" ELSE state[m]
    BY <1>0, <1>15 DEF Dials
  <2>3. \A m \in Links : state'[m] \in {"open", "broken"} => link' = m \/ l = m
    BY <1>0, <1>1, <1>2, <1>15, <2>2 DEF Dials
  <2> QED BY <1>2, <1>15, <2>1, <2>3, OneLoopOwns DEF Dials, GoesTo
<1> QED BY <1>5, <1>6, <1>7, <1>8, <1>9, <1>10, <1>11, <1>12, <1>13, <1>14, <1>15
        DEF InboundStep

LEMMA HeldStep ==
  ASSUME Held, [Next]_vars, StartsAlone
  PROVE  Held'
<1>0. /\ stopCh \in 0..MaxStarts /\ stopCh \in Nat
      /\ inbound \in [Starts -> InboundStates]
      /\ state \in [Links -> {"unused", "open", "broken", "closed"}]
      /\ link \in Links \cup {None} /\ None \notin Links
      /\ \A i \in Starts : inbound[i].pc \in Holding => inbound[i].link \in Links
  BY LifecycleAssumption DEF Held, Typed, TypeOK, HoldsALink, InboundStates
<1>10. Typed'
  BY TypedStep DEF Held
<1>1. CASE UNCHANGED <<stopCh, link, state, inbound>>
  BY <1>1, <1>10 DEF Held, OneOwner, OpenIsHeld
<1>2. ASSUME NEW l \in Links, Start(l)  PROVE OneOwner' /\ OpenIsHeld'
  <2>1. At("top", None, 0).pc = "top" /\ At("top", None, 0).link = None
    BY DEF At
  <2>2. stopCh + 1 \in Starts /\ stopCh' = stopCh + 1 /\ stopCh' # 0
    BY <1>0, <1>2, LifecycleAssumption DEF Start, Starts
  <2>3. link = None /\ \A i \in Starts : inbound[i].pc \in {"off", "ended"}
    BY <1>0, <2>2 DEF StartsAlone
  <2>4. \A i \in Starts : inbound'[i] = IF i = stopCh' THEN At("top", None, 0) ELSE inbound[i]
    BY <1>0, <1>2, <2>2 DEF Start
  <2>5. \A m \in Links : state[m] \notin {"open", "broken"}
    BY <1>0, <2>3 DEF Held, OneOwner, OpenIsHeld
  <2>6. \A m \in Links : state'[m] = IF m = l THEN "open" ELSE state[m]
    BY <1>0, <1>2 DEF Start
  <2>7. OneOwner'
    BY <2>1, <2>2, <2>3, <2>4 DEF Held, OneOwner
  <2>8. OpenIsHeld'
    BY <1>2, <2>5, <2>6 DEF OpenIsHeld, Start
  <2> QED BY <2>7, <2>8
<1>3. ASSUME Stop  PROVE OneOwner' /\ OpenIsHeld'
  <2>1. /\ \A m \in Links : state'[m] = IF m = link THEN "closed" ELSE state[m]
        /\ link' = None /\ UNCHANGED <<stopCh, inbound>>
    BY <1>0, <1>3 DEF Stop, loops
  <2>2. OneOwner'
    BY <1>0, <2>1 DEF Held, OneOwner, Holding
  <2>3. OpenIsHeld'
    BY <1>0, <2>1 DEF Held, OpenIsHeld
  <2> QED BY <2>2, <2>3
<1>4. ASSUME NEW l \in Links, Breaks(l)  PROVE OneOwner' /\ OpenIsHeld'
  <2>1. /\ \A m \in Links : state'[m] = IF m = l THEN "broken" ELSE state[m]
        /\ state[l] = "open" /\ UNCHANGED <<stopCh, link, inbound>>
    BY <1>0, <1>4 DEF Breaks, loops
  <2>2. OneOwner'
    BY <1>0, <2>1 DEF Held, OneOwner, Holding
  <2>3. OpenIsHeld'
    BY <1>0, <2>1 DEF Held, OpenIsHeld
  <2> QED BY <2>2, <2>3
<1>5. ASSUME NEW i \in Starts, InboundStep(i)  PROVE OneOwner' /\ OpenIsHeld'
  BY <1>5, InboundOwns
<1>6. ASSUME NEW i \in Starts, DrainStep(i)  PROVE UNCHANGED <<stopCh, link, state, inbound>>
  BY <1>6 DEF DrainStep, DrainTicks, DrainSelects, DrainEnds
<1>7. ASSUME NEW s \in Subs, Subscribe(s) \/ CancelRemoves(s) \/ CancelCloses(s)
      PROVE  UNCHANGED <<stopCh, link, state, inbound>>
  BY <1>7 DEF Subscribe, CancelRemoves, CancelCloses, loops
<1>8. ASSUME NEW j \in Publishers, Publish(j) \/ \E s \in Subs : PublishSends(j, s)
      PROVE  UNCHANGED <<stopCh, link, state, inbound>>
  BY <1>8 DEF Publish, PublishSends, loops
<1>9. UNCHANGED vars => UNCHANGED <<stopCh, link, state, inbound>>
  BY DEF vars
<1> QED BY <1>1, <1>2, <1>3, <1>4, <1>5, <1>6, <1>7, <1>8, <1>9, <1>10 DEF Next, Held

\* Who starts a node again only when the loops of the time before have ended, and
\* have not installed a link after the Stop, leaks no link (node.go:467-474,
\* 494-501) and has no old loop that reads the new link (node.go:203).  Start and
\* Stop see to neither.
THEOREM RestartsInTurn == Spec /\ [][StartsAlone]_vars => [](OpenIsHeld /\ OldLoopsEnd)
<1>1. Held /\ [Next]_vars /\ [StartsAlone]_vars => Held'
  <2>1. SUFFICES ASSUME Held, [Next]_vars, [StartsAlone]_vars  PROVE Held'
    OBVIOUS
  <2>2. UNCHANGED vars => StartsAlone
    BY DEF vars, StartsAlone
  <2> QED BY <2>1, <2>2, HeldStep
<1>2. Held => OpenIsHeld /\ OldLoopsEnd
  BY DEF Held, OneOwner, OldLoopsEnd
<1> QED BY InitHeld, <1>1, <1>2, PTL DEF Spec

\* A node that is started once, as every host does, leaks no link however many it
\* goes through (node.go:467-474, 494-501), before and after its Stop.
THEOREM NoLinkLeaks ==
  ASSUME MaxStarts = 1
  PROVE  Spec => []OpenIsHeld
<1>1. Held /\ [Next]_vars => StartsAlone
  <2>1. SUFFICES ASSUME Held, [Next]_vars, stopCh' # stopCh
        PROVE  link = None /\ \A i \in Starts : inbound[i].pc \in {"off", "ended"}
    BY DEF StartsAlone
  <2>2. \E l \in Links : Start(l)
    BY <2>1 DEF Next, Stop, Breaks, InboundStep, Top, Look, Recv, RecvFails, Failed, Clear,
                Redial, Dials, DialFails, Install, Backoff, DrainStep, DrainTicks,
                DrainSelects, DrainEnds, Subscribe, CancelRemoves, CancelCloses, Publish,
                PublishSends, vars
  <2>3. stopCh = 0
    BY <2>1, <2>2 DEF Start, Held, Typed, TypeOK
  <2> QED BY <2>1, <2>3 DEF Held, OneOwner, Starts
<1>2. Held /\ [Next]_vars => Held'
  BY <1>1, HeldStep
<1>3. Held => OpenIsHeld
  BY DEF Held
<1> QED BY InitHeld, <1>2, <1>3, PTL DEF Spec

-----------------------------------------------------------------------------
(* Induction, and what the sorted listings of Conversation contain.        *)

\* A set of numbers that is not empty has a first one.
LEMMA LeastNumber ==
  ASSUME NEW S \in SUBSET Nat, S # {}
  PROVE  \E x \in S : \A y \in S : x <= y
<1>1. PICK x \in S : \A y \in S : ~(<<y, x>> \in OpToRel(<, Nat))
  BY NatLessThanWellFounded, WFMin
<1>2. \A y \in S : ~(<<y, x>> \in {ss \in Nat \X Nat : ss[1] < ss[2]})
  BY <1>1 DEF OpToRel
<1>3. \A y \in S : ~(y < x)
  BY <1>2
<1> QED BY <1>3

\* Induction, said of a set of numbers: the least one outside would be 0 or follow
\* one inside.
LEMMA Induction ==
  ASSUME NEW S, 0 \in S, \A n \in Nat : n \in S => n + 1 \in S
  PROVE  \A n \in Nat : n \in S
<1>1. SUFFICES ASSUME Nat \ S # {}  PROVE FALSE
  OBVIOUS
<1>2. PICK x \in Nat \ S : \A y \in Nat \ S : x <= y
  BY <1>1, LeastNumber
<1>3. x # 0 /\ x - 1 \in Nat
  BY <1>2
<1>4. x - 1 \in S
  BY <1>2, <1>3
<1> QED BY <1>2, <1>3, <1>4

\* What comes first by time, and as stored within a millisecond.
LEMMA EarliestExists ==
  ASSUME NEW S \in SUBSET Nat, S # {}, NEW ms, \A i \in S : ms[i] \in Nat
  PROVE  \E i \in S : \A j \in S : j = i \/ Earlier(ms, i, j)
<1>1. {ms[i] : i \in S} \in SUBSET Nat /\ {ms[i] : i \in S} # {}
  OBVIOUS
<1>2. PICK m \in {ms[i] : i \in S} : \A n \in {ms[i] : i \in S} : m <= n
  BY ONLY <1>1, LeastNumber
<1>3. {i \in S : ms[i] = m} \in SUBSET Nat /\ {i \in S : ms[i] = m} # {}
  BY <1>2
<1>4. PICK i \in {i \in S : ms[i] = m} : \A j \in {k \in S : ms[k] = m} : i <= j
  BY ONLY <1>3, LeastNumber
<1>5. ASSUME NEW j \in S  PROVE j = i \/ Earlier(ms, i, j)
  <2>1. m <= ms[j] /\ m \in Nat /\ ms[j] \in Nat /\ i \in Nat /\ j \in Nat
    BY <1>1, <1>2, <1>4
  <2>2. ms[j] = m => i <= j
    BY <1>4
  <2> QED BY <1>4, <2>1, <2>2 DEF Earlier
<1> QED BY <1>4, <1>5

\* The first of those that come last.
LEMMA LatestExists ==
  ASSUME NEW S \in SUBSET Nat, S # {}, NEW max \in Nat, NEW ms, \A i \in S : ms[i] \in 0..max
  PROVE  \E i \in S : \A j \in S : ms[j] < ms[i] \/ (ms[j] = ms[i] /\ i <= j)
<1> DEFINE left == [i \in S |-> max - ms[i]]
<1>1. \A i \in S : left[i] \in Nat
  OBVIOUS
<1>2. PICK i \in S : \A j \in S : j = i \/ Earlier(left, i, j)
  BY ONLY <1>1, EarliestExists, S \in SUBSET Nat, S # {}
<1>3. ASSUME NEW j \in S  PROVE ms[j] < ms[i] \/ (ms[j] = ms[i] /\ i <= j)
  BY <1>2 DEF Earlier
<1> QED BY <1>3

\* A finite set can be listed in order: its first element, and then the others.
Lists(s, S, n, ms) ==
  /\ s \in [1..n -> S]
  /\ Range(s) = S /\ \A j, k \in DOMAIN s : j < k => Earlier(ms, s[j], s[k])

LEMMA ListingExists ==
  ASSUME NEW D \in SUBSET Nat, NEW ms, \A i \in D : ms[i] \in Nat
  PROVE  \A n \in Nat : \A S \in SUBSET D :
           IsFiniteSet(S) /\ Cardinality(S) = n => \E s : Lists(s, S, n, ms)
<1> DEFINE Listed(S, n) == \E s : Lists(s, S, n, ms)
           P(n) == \A S \in SUBSET D : IsFiniteSet(S) /\ Cardinality(S) = n => Listed(S, n)
           Good == {n \in Nat : P(n)}
<1>1. P(0)
  <2>1. ASSUME NEW S \in SUBSET D, IsFiniteSet(S), Cardinality(S) = 0  PROVE Listed(S, 0)
    <3>1. S = {}
      BY <2>1, FS_EmptySet
    <3>2. PICK s : s = [i \in 1..0 |-> 0]
      OBVIOUS
    <3>3. s \in [1..0 -> S] /\ DOMAIN s = {}
      BY <3>2
    <3>4. Range(s) = S
      BY <3>1, <3>3 DEF Range
    <3> QED BY <3>3, <3>4 DEF Lists
  <2> QED BY <2>1
<1>2. ASSUME NEW n \in Nat, P(n)  PROVE P(n + 1)
  <2>1. ASSUME NEW S \in SUBSET D, IsFiniteSet(S), Cardinality(S) = n + 1
        PROVE  Listed(S, n + 1)
    <3>1. S # {}
      BY <2>1, FS_EmptySet
    <3>2. PICK x \in S : \A j \in S : j = x \/ Earlier(ms, x, j)
      BY <3>1, EarliestExists
    <3>3. IsFiniteSet(S \ {x}) /\ Cardinality(S \ {x}) = n
      <4>1. /\ IsFiniteSet(S \ {x})
            /\ Cardinality(S \ {x}) = IF x \in S THEN Cardinality(S) - 1 ELSE Cardinality(S)
        BY <2>1, FS_RemoveElement, Zenon
      <4> QED BY <2>1, <4>1
    <3>4. PICK s \in [1..n -> S \ {x}] :
            Range(s) = S \ {x} /\ \A j, k \in DOMAIN s : j < k => Earlier(ms, s[j], s[k])
      BY <1>2, <3>3 DEF Lists
    <3>5. PICK l : l = [k \in 1..(n + 1) |-> IF k = 1 THEN x ELSE s[k - 1]]
      OBVIOUS
    <3>6. l \in [1..(n + 1) -> S]
      BY <3>5
    <3>7. Range(l) = S
      <4>1. ASSUME NEW y \in S  PROVE y \in Range(l)
        <5>1. CASE y = x
          BY <3>5, <5>1 DEF Range
        <5>2. CASE y # x
          <6>1. PICK k \in 1..n : y = s[k]
            BY <3>4, <5>2 DEF Range
          <6>2. k + 1 \in 1..(n + 1) /\ l[k + 1] = y
            BY <3>5, <6>1
          <6> QED BY <3>6, <6>2 DEF Range
        <5> QED BY <5>1, <5>2
      <4> QED BY <3>6, <4>1 DEF Range
    <3>8. ASSUME NEW j \in 1..(n + 1), NEW k \in 1..(n + 1), j < k
          PROVE  Earlier(ms, l[j], l[k])
      <4>1. k - 1 \in 1..n /\ l[k] = s[k - 1]
        BY <3>5, <3>8
      <4>2. CASE j = 1
        BY <3>2, <3>5, <4>1, <4>2
      <4>3. CASE j # 1
        BY <3>4, <3>5, <3>8, <4>1, <4>3
      <4> QED BY <4>2, <4>3
    <3> QED BY <3>6, <3>7, <3>8 DEF Lists
  <2> QED BY <2>1
<1>3. 0 \in Good /\ \A n \in Nat : n \in Good => n + 1 \in Good
  BY <1>1, <1>2
<1>4. \A n \in Nat : n \in Good
  BY ONLY <1>3, Induction
<1> QED BY <1>4

LEMMA OrderedHolds ==
  ASSUME NEW len \in Nat, NEW S \in SUBSET (1..len), NEW ms, \A i \in S : ms[i] \in Nat
  PROVE  /\ Cardinality(S) \in Nat
         /\ Ordered(S, ms) \in [1..Cardinality(S) -> S]
         /\ Range(Ordered(S, ms)) = S
         /\ \A j, k \in 1..Cardinality(S) :
              j < k => Earlier(ms, Ordered(S, ms)[j], Ordered(S, ms)[k])
<1>1. IsFiniteSet(S) /\ Cardinality(S) \in Nat
  <2>1. IsFiniteSet(1..len)
    <3>1. 1 \in Int /\ len \in Int
      OBVIOUS
    <3> QED BY <3>1, FS_Interval, Zenon
  <2>2. IsFiniteSet(S)
    BY <2>1, FS_Subset, Zenon
  <2> QED BY <2>2, FS_CardinalityType, Zenon
<1>2. S \in SUBSET Nat /\ S \in SUBSET S
  OBVIOUS
<1>3. \E s : Lists(s, S, Cardinality(S), ms)
  BY <1>1, <1>2, ListingExists
<1>4. \E s \in [1..Cardinality(S) -> S] :
        Range(s) = S /\ \A j, k \in DOMAIN s : j < k => Earlier(ms, s[j], s[k])
  BY <1>3 DEF Lists
<1> QED BY <1>1, <1>4 DEF Ordered

LEMMA InductionUpTo ==
  ASSUME NEW len \in Nat, NEW S, 0 \in S, \A n \in 1..len : n - 1 \in S => n \in S
  PROVE  \A n \in 0..len : n \in S
<1> DEFINE T == S \cup {n \in Nat : n > len}
<1>1. 0 \in T
  OBVIOUS
<1>2. ASSUME NEW n \in Nat, n \in T  PROVE n + 1 \in T
  <2>1. CASE n + 1 > len
    BY <2>1
  <2>2. CASE n + 1 <= len
    BY <1>2, <2>2
  <2> QED BY <2>1, <2>2
<1>3. \A n \in Nat : n \in T
  BY <1>1, <1>2, Induction
<1> QED BY <1>3

\* A recursion over 1..len whose n-th step is step[n].
Unfolds(g, X, x0, len, step) ==
  /\ g \in [0..len -> X]
  /\ g[0] = x0 /\ \A n \in 1..len : g[n] = step[n][g[n - 1]]

AreSteps(step, X, len) == step \in [1..len -> [X -> X]]

LEMMA RecursionExists ==
  ASSUME NEW X, NEW x0 \in X, NEW len \in Nat, NEW step, AreSteps(step, X, len)
  PROVE  \E g : Unfolds(g, X, x0, len, step)
<1>0. step \in [1..len -> [X -> X]]
  BY DEF AreSteps
<1> DEFINE Upto(m) == \E g \in [0..m -> X] :
                        g[0] = x0 /\ \A n \in 1..m : g[n] = step[n][g[n - 1]]
           Good == {m \in 0..len : Upto(m)}
<1>1. Upto(0)
  <2>1. PICK g : g = [i \in 0..0 |-> x0]
    OBVIOUS
  <2>2. g \in [0..0 -> X] /\ g[0] = x0 /\ \A n \in 1..0 : g[n] = step[n][g[n - 1]]
    BY <2>1
  <2> QED BY <2>2
<1>2. ASSUME NEW m \in 1..len, Upto(m - 1)  PROVE Upto(m)
  <2>1. PICK g \in [0..(m - 1) -> X] :
          g[0] = x0 /\ \A n \in 1..(m - 1) : g[n] = step[n][g[n - 1]]
    BY <1>2
  <2>2. PICK y : y = step[m][g[m - 1]]
    OBVIOUS
  <2>3. y \in X
    BY <1>0, <2>1, <2>2
  <2>4. PICK h : h = [n \in 0..m |-> IF n = m THEN y ELSE g[n]]
    OBVIOUS
  <2>5. h \in [0..m -> X] /\ h[0] = x0
    BY <2>1, <2>3, <2>4
  <2>6. ASSUME NEW n \in 1..m  PROVE h[n] = step[n][h[n - 1]]
    <3>1. CASE n = m
      BY <2>2, <2>4, <3>1
    <3>2. CASE n # m
      BY <2>1, <2>4, <3>2
    <3> QED BY <3>1, <3>2
  <2> QED BY <2>5, <2>6
<1> HIDE DEF Upto
<1>3. 0 \in Good /\ \A n \in 1..len : n - 1 \in Good => n \in Good
  BY <1>1, <1>2
<1>4. \A n \in 0..len : n \in Good
  BY ONLY <1>3, InductionUpTo, len \in Nat
<1>5. Upto(len)
  BY <1>4
<1> QED BY <1>5 DEF Upto, Unfolds

\* The node's count, place by place.
LEMMA CountHolds ==
  ASSUME NEW envs \in Seq(Envelope)
  PROVE  \E count \in [0..Len(envs) -> Nat] :
           /\ count[0] = 0
           /\ \A n \in 1..Len(envs) : count[n] = Counted(count[n - 1], envs[n])
           /\ HasPendingAsk(envs) <=> count[Len(envs)] > 0
<1> DEFINE len == Len(envs)
           step == [n \in 1..len |-> [x \in Nat |-> Counted(x, envs[n])]]
           count == CHOOSE c : c = [n \in 0..len |->
                      IF n = 0 THEN 0 ELSE Counted(c[n - 1], envs[n])]
<1>0. len \in Nat
  OBVIOUS
<1>1. step \in [1..len -> [Nat -> Nat]]
  BY DEF Counted
<1>2. \A n \in 1..len : \A x \in Nat : step[n][x] = Counted(x, envs[n])
  OBVIOUS
<1>6. HasPendingAsk(envs) <=> count[len] > 0
  BY DEF HasPendingAsk
<1> HIDE DEF len, step
<1>3. PICK g \in [0..len -> Nat] : g[0] = 0 /\ \A n \in 1..len : g[n] = step[n][g[n - 1]]
  <2>1. AreSteps(step, Nat, len)
    BY <1>1 DEF AreSteps
  <2>2. \E g : Unfolds(g, Nat, 0, len, step)
    BY <1>0, <2>1, RecursionExists
  <2> QED BY <2>2 DEF Unfolds
<1>4. g = [n \in 0..len |-> IF n = 0 THEN 0 ELSE Counted(g[n - 1], envs[n])]
  <2>1. \A n \in 1..len : g[n - 1] \in Nat
    BY <1>0, <1>3
  <2>2. \A n \in 1..len : g[n] = Counted(g[n - 1], envs[n])
    BY <1>2, <1>3, <2>1
  <2> QED BY <1>0, <1>3, <2>2
<1>5. count = [n \in 0..len |-> IF n = 0 THEN 0 ELSE Counted(count[n - 1], envs[n])]
  BY <1>4
<1> HIDE DEF count
<1>7. count[0] = 0 /\ \A n \in 1..len : count[n] = Counted(count[n - 1], envs[n])
  BY <1>0, <1>5
<1>8. \A n \in 0..len : count[n] \in Nat
  <2> DEFINE Good == {n \in 0..len : count[n] \in Nat}
  <2>1. \A n \in 1..len : count[n - 1] \in Nat => count[n] \in Nat
    BY <1>7 DEF Counted
  <2>2. 0 \in Good /\ \A n \in 1..len : n - 1 \in Good => n \in Good
    BY <1>0, <1>7, <2>1
  <2>3. \A n \in 0..len : n \in Good
    BY ONLY <1>0, <2>2, InductionUpTo
  <2> QED BY <2>3
<1>9. count \in [0..len -> Nat]
  BY <1>5, <1>8
<1> QED BY <1>6, <1>7, <1>9 DEF len

\* Ids are in a total order.
LEMMA LessIsAnOrder ==
  ASSUME NEW a \in Ids, NEW b \in Ids, NEW c \in Ids
  PROVE  /\ ~Less(a, a)
         /\ Less(a, b) => ~Less(b, a)
         /\ a # b => Less(a, b) \/ Less(b, a)
         /\ Less(a, b) /\ Less(b, c) => Less(a, c)
         /\ ~Less(a, b) /\ ~Less(b, c) => ~Less(a, c)
<1>1. PICK a1 \in 0..MaxNow, a2 \in Nat : a = <<a1, a2>>
  BY DEF Ids
<1>2. PICK b1 \in 0..MaxNow, b2 \in Nat : b = <<b1, b2>>
  BY DEF Ids
<1>3. PICK c1 \in 0..MaxNow, c2 \in Nat : c = <<c1, c2>>
  BY DEF Ids
<1>4. a1 \in Nat /\ b1 \in Nat /\ c1 \in Nat
  BY ConversationAssumption
<1> QED BY <1>1, <1>2, <1>3, <1>4 DEF Less

\* The cursor that collectInbox computes is the largest id: the one it had or one it
\* has read, and none that it has read is larger.
LEMMA LargestHolds ==
  ASSUME NEW m \in Ids, NEW envs \in Seq(Envelope)
  PROVE  LET top == Largest(m, envs) IN
           /\ top \in Ids
           /\ top = m \/ \E n \in 1..Len(envs) : top = envs[n].id
           /\ ~Less(top, m)
           /\ \A n \in 1..Len(envs) : ~Less(top, envs[n].id)
<1> DEFINE len == Len(envs)
           step == [n \in 1..len |-> [x \in Ids |-> Larger(x, envs[n].id)]]
           upTo == CHOOSE c : c = [n \in 0..len |->
                      IF n = 0 THEN m ELSE Larger(c[n - 1], envs[n].id)]
<1>0. len \in Nat
  OBVIOUS
<1>id. \A n \in 1..len : envs[n].id \in Ids
  <2>1. \A n \in 1..len : envs[n] \in Envelope
    OBVIOUS
  <2> QED BY <2>1 DEF Envelope
<1>1. step \in [1..len -> [Ids -> Ids]]
  BY <1>id DEF Larger
<1>2. \A n \in 1..len : \A x \in Ids : step[n][x] = Larger(x, envs[n].id)
  OBVIOUS
<1>6. Largest(m, envs) = upTo[len]
  BY DEF Largest
<1> HIDE DEF len, step
<1>3. PICK g \in [0..len -> Ids] : g[0] = m /\ \A n \in 1..len : g[n] = step[n][g[n - 1]]
  <2>1. AreSteps(step, Ids, len)
    BY <1>1 DEF AreSteps
  <2>2. \E g : Unfolds(g, Ids, m, len, step)
    BY <1>0, <2>1, RecursionExists
  <2> QED BY <2>2 DEF Unfolds
<1>4. g = [n \in 0..len |-> IF n = 0 THEN m ELSE Larger(g[n - 1], envs[n].id)]
  <2>1. \A n \in 1..len : g[n - 1] \in Ids
    BY <1>0, <1>3
  <2>2. \A n \in 1..len : g[n] = Larger(g[n - 1], envs[n].id)
    BY <1>2, <1>3, <2>1
  <2> QED BY <1>0, <1>3, <2>2
<1>5. upTo = [n \in 0..len |-> IF n = 0 THEN m ELSE Larger(upTo[n - 1], envs[n].id)]
  BY <1>4
<1> HIDE DEF upTo
<1>7. upTo[0] = m /\ \A n \in 1..len : upTo[n] = Larger(upTo[n - 1], envs[n].id)
  BY <1>0, <1>5
<1> DEFINE Holds(n) ==
             /\ upTo[n] \in Ids
             /\ upTo[n] = m \/ \E k \in 1..len : upTo[n] = envs[k].id
             /\ ~Less(upTo[n], m)
             /\ \A k \in 1..n : ~Less(upTo[n], envs[k].id)
           Good == {n \in 0..len : Holds(n)}
<1>8. Holds(0)
  BY <1>7, LessIsAnOrder
<1>9. ASSUME NEW n \in 1..len, Holds(n - 1)  PROVE Holds(n)
  <2>1. envs[n].id \in Ids
    BY <1>id
  <2>2. CASE Less(upTo[n - 1], envs[n].id)
    <3>1. upTo[n] = envs[n].id
      BY <1>7, <2>2 DEF Larger
    <3>2. ASSUME NEW x \in Ids, ~Less(upTo[n - 1], x)  PROVE ~Less(upTo[n], x)
      BY <1>9, <2>1, <2>2, <3>1, <3>2, LessIsAnOrder
    <3>3. ASSUME NEW k \in 1..n  PROVE ~Less(upTo[n], envs[k].id)
      <4>1. CASE k = n
        BY <2>1, <3>1, <4>1, LessIsAnOrder
      <4>2. CASE k # n
        <5>1. k \in 1..(n - 1) /\ k \in 1..len
          BY <1>0, <4>2
        <5> QED BY <1>9, <1>id, <3>2, <5>1
      <4> QED BY <4>1, <4>2
    <3> QED BY <1>9, <2>1, <3>1, <3>2, <3>3
  <2>3. CASE ~Less(upTo[n - 1], envs[n].id)
    <3>1. upTo[n] = upTo[n - 1]
      BY <1>7, <2>3 DEF Larger
    <3>2. \A k \in 1..n : k = n \/ k \in 1..(n - 1)
      OBVIOUS
    <3> QED BY <1>9, <2>3, <3>1, <3>2
  <2> QED BY <2>2, <2>3
<1> HIDE DEF Holds
<1>10. 0 \in Good /\ \A n \in 1..len : n - 1 \in Good => n \in Good
  BY <1>0, <1>8, <1>9
<1>11. \A n \in 0..len : n \in Good
  BY ONLY <1>0, <1>10, InductionUpTo
<1>12. Holds(len)
  BY <1>0, <1>11
<1> QED BY <1>6, <1>12 DEF Holds, len

-----------------------------------------------------------------------------
(* The tables.                                                             *)

Row == [thread : Threads, ms : 1..MaxNow]

\* ListThreads gives the threads that are open, of those that are asked for.
LEMMA ThreadsListed ==
  ASSUME rows \in Seq(Row), NEW ts
  PROVE  /\ ListThreads(ts) \in Seq(Threads)
         /\ \A t : t \in Range(ListThreads(ts)) <=> t \in Opened /\ t \in ts
<1>1. Len(rows) \in Nat /\ DOMAIN rows = 1..Len(rows)
  OBVIOUS
<1>2. \A i \in DOMAIN rows : rows[i].thread \in Threads /\ rows[i].ms \in Nat
  <2>1. \A i \in DOMAIN rows : rows[i] \in Row
    OBVIOUS
  <2> QED BY <2>1 DEF Row
<1>3. RowsOf(ts) \in SUBSET (1..Len(rows)) /\ \A i \in RowsOf(ts) : RowMs[i] \in Nat
  BY <1>1, <1>2 DEF RowsOf, RowMs
<1>4. PICK s, n : s = Ordered(RowsOf(ts), RowMs) /\ n = Cardinality(RowsOf(ts))
  OBVIOUS
<1>5. n \in Nat /\ s \in [1..n -> RowsOf(ts)] /\ Range(s) = RowsOf(ts)
  BY <1>1, <1>3, <1>4, OrderedHolds
<1>6. PICK l : l = ListThreads(ts)
  OBVIOUS
<1>7. l = [k \in 1..n |-> rows[s[k]].thread]
  BY <1>4, <1>5, <1>6 DEF ListThreads
<1>8. \A k \in 1..n : l[k] \in Threads
  BY <1>2, <1>5, <1>7 DEF RowsOf
<1>9. l \in Seq(Threads)
  BY <1>5, <1>7, <1>8
<1>10. ASSUME NEW t, t \in Range(l)  PROVE t \in Opened /\ t \in ts
  <2>1. PICK k \in 1..n : t = rows[s[k]].thread
    BY <1>7, <1>10 DEF Range
  <2> QED BY <1>5, <2>1 DEF RowsOf, Opened
<1>11. ASSUME NEW t, t \in Opened, t \in ts  PROVE t \in Range(l)
  <2>1. PICK i \in RowsOf(ts) : t = rows[i].thread
    BY <1>11 DEF RowsOf, Opened
  <2>2. PICK k \in 1..n : s[k] = i
    BY <1>5 DEF Range
  <2> QED BY <1>7, <2>1, <2>2 DEF Range
<1> QED BY <1>6, <1>9, <1>10, <1>11

\* What the table of envelopes holds.
LEMMA LogHolds ==
  ASSUME log \in Seq(Envelope)
  PROVE  \A i \in DOMAIN log :
           /\ i \in Nat /\ log[i] \in Envelope /\ log[i].id \in Ids
           /\ log[i].thread \in Threads /\ log[i].kind \in Kinds
<1>1. \A i \in DOMAIN log : i \in Nat /\ log[i] \in Envelope
  OBVIOUS
<1> QED BY <1>1 DEF Envelope

\* Order(t) lists the places of the thread's envelopes in the log, in the order of Before.
LEMMA OrderHolds ==
  ASSUME log \in Seq(Envelope), NEW t
  PROVE  \E n \in Nat :
           /\ Order(t) \in [1..n -> InThread(t)] /\ Range(Order(t)) = InThread(t)
           /\ \A j, k \in 1..n : j < k => Before(Order(t)[j], Order(t)[k])
<1>1. Len(log) \in Nat /\ DOMAIN log = 1..Len(log)
  OBVIOUS
<1>2. \A i \in DOMAIN log : Ms(log[i]) \in Nat
  <2>1. \A i \in DOMAIN log : log[i] \in Envelope
    OBVIOUS
  <2>2. \A i \in DOMAIN log : log[i].id \in (0..MaxNow) \X Nat
    BY <2>1 DEF Envelope, Ids
  <2>3. \A i \in DOMAIN log : log[i].id[1] \in 0..MaxNow
    BY <2>2
  <2> QED BY <2>3 DEF Ms
<1>3. InThread(t) \in SUBSET (1..Len(log)) /\ \A i \in InThread(t) : LogMs[i] \in Nat
  BY <1>1, <1>2 DEF InThread, LogMs
<1> QED BY <1>1, <1>3, OrderedHolds DEF Order, Before

\* ListEnvelopes(t) gives the thread's envelopes.
LEMMA EnvelopesListed ==
  ASSUME log \in Seq(Envelope), NEW t
  PROVE  /\ ListEnvelopes(t) \in Seq(Envelope)
         /\ \A e : e \in Range(ListEnvelopes(t)) <=> \E i \in InThread(t) : e = log[i]
         /\ \A n \in 1..Len(ListEnvelopes(t)) : \E i \in InThread(t) : ListEnvelopes(t)[n] = log[i]
         /\ \A i \in InThread(t) : \E n \in 1..Len(ListEnvelopes(t)) : ListEnvelopes(t)[n] = log[i]
<1>1. PICK n \in Nat : Order(t) \in [1..n -> InThread(t)] /\ Range(Order(t)) = InThread(t)
  BY OrderHolds
<1>2. PICK l : l = ListEnvelopes(t)
  OBVIOUS
<1>3. l = [k \in 1..n |-> log[Order(t)[k]]]
  BY <1>1, <1>2 DEF ListEnvelopes
<1>4. \A k \in 1..n : Order(t)[k] \in InThread(t) /\ l[k] = log[Order(t)[k]]
  BY <1>1, <1>3
<1>5. l \in Seq(Envelope) /\ Len(l) = n /\ DOMAIN l = 1..n
  <2>1. \A k \in 1..n : l[k] \in Envelope
    BY <1>4 DEF InThread
  <2> QED BY <1>3, <2>1
<1>6. \A i \in InThread(t) : \E k \in 1..n : l[k] = log[i]
  BY <1>1, <1>4 DEF Range
<1>7. \A e : e \in Range(l) <=> \E i \in InThread(t) : e = log[i]
  <2>1. \A e : e \in Range(l) <=> \E k \in 1..n : e = l[k]
    BY <1>5 DEF Range
  <2>2. ASSUME NEW e, \E k \in 1..n : e = l[k]  PROVE \E i \in InThread(t) : e = log[i]
    BY <1>4, <2>2
  <2>3. ASSUME NEW i \in InThread(t)  PROVE \E k \in 1..n : log[i] = l[k]
    BY <1>6
  <2> QED BY <2>1, <2>2, <2>3
<1> QED BY <1>2, <1>4, <1>5, <1>6, <1>7

\* An ask that is pending comes after every answer in its thread.
LEMMA PendingHolds ==
  ASSUME log \in Seq(Envelope), NEW t, NEW p \in PendingAsks(ListEnvelopes(t))
  PROVE  \E k \in InThread(t) :
           /\ log[k] = ListEnvelopes(t)[p] /\ IsAsk(log[k])
           /\ \A i \in InThread(t) : IsAnswer(log[i]) => Before(i, k)
<1>1. PICK n \in Nat :
        /\ Order(t) \in [1..n -> InThread(t)] /\ Range(Order(t)) = InThread(t)
        /\ \A j, k \in 1..n : j < k => Before(Order(t)[j], Order(t)[k])
  BY OrderHolds
<1>2. PICK l : l = ListEnvelopes(t)
  OBVIOUS
<1>3. l = [k \in 1..n |-> log[Order(t)[k]]]
  BY <1>1, <1>2 DEF ListEnvelopes
<1>4. p \in 1..n /\ IsAsk(l[p]) /\ \A j \in 1..n : j > p => ~IsAnswer(l[j])
  BY <1>2, <1>3 DEF PendingAsks
<1>5. Order(t)[p] \in InThread(t) /\ l[p] = log[Order(t)[p]]
  BY <1>1, <1>3, <1>4
<1>6. ASSUME NEW i \in InThread(t), IsAnswer(log[i])  PROVE Before(i, Order(t)[p])
  <2>1. PICK j \in 1..n : Order(t)[j] = i
    BY <1>1 DEF Range
  <2>2. IsAnswer(l[j])
    BY <1>3, <1>6, <2>1
  <2>3. j # p
    BY <1>4, <2>2 DEF IsAsk, IsAnswer
  <2>4. j < p
    BY <1>4, <2>2, <2>3
  <2> QED BY <1>1, <1>4, <2>1, <2>4
<1> QED BY <1>2, <1>4, <1>5, <1>6

\* After an ask that no answer follows, the node's count never falls to 0.
LEMMA PendingCounts ==
  ASSUME NEW envs \in Seq(Envelope), NEW p \in PendingAsks(envs)
  PROVE  HasPendingAsk(envs)
<1> DEFINE len == Len(envs)
<1>0. len \in Nat /\ p \in 1..len
  BY DEF PendingAsks
<1>1. PICK count \in [0..len -> Nat] :
        /\ count[0] = 0
        /\ \A n \in 1..len : count[n] = Counted(count[n - 1], envs[n])
        /\ HasPendingAsk(envs) <=> count[len] > 0
  BY CountHolds
<1>2. IsAsk(envs[p]) /\ \A n \in 1..len : n > p => ~IsAnswer(envs[n])
  BY DEF PendingAsks
<1> HIDE DEF len
<1> DEFINE Good == {n \in 0..len : n >= p => count[n] > 0}
<1>3. 0 \in Good
  BY <1>0
<1>4. ASSUME NEW n \in 1..len, n - 1 \in Good  PROVE n \in Good
  <2>1. count[n - 1] \in Nat /\ count[n] = Counted(count[n - 1], envs[n])
    BY <1>0, <1>1
  <2>2. CASE n = p
    BY <1>0, <1>2, <2>1, <2>2 DEF Counted
  <2>3. CASE n > p
    BY <1>0, <1>2, <1>4, <2>1, <2>3 DEF Counted
  <2>4. CASE n < p
    BY <1>0, <2>4
  <2> QED BY <1>0, <2>2, <2>3, <2>4
<1>5. \A n \in 0..len : n \in Good
  BY <1>0, <1>3, <1>4, InductionUpTo
<1> QED BY <1>0, <1>1, <1>5

-----------------------------------------------------------------------------
(* The invariants.                                                         *)

AgentStates ==
  [pc : {"idle", "open", "say", "find", "human"}, thread : Threads \cup {Idle.thread},
   todo : Seq(Threads), best : 0..MaxNow]

PollStates == [pc : {"idle", "read"}, todo : Seq(Threads), max : Ids, fresh : SUBSET Ids]

FollowStates == [pc : {"off", "replay", "live"}, todo : Seq(Threads), seen : SUBSET Ids]

\* Whoever is about to send has a thread with a row, or makes the row first.
ChosenIsOpen ==
  \A a \in Agents :
    /\ agent[a].pc = "open" => agent[a].thread \in Threads
    /\ agent[a].pc \in {"say", "human"} \/ agent[a].best > 0 => agent[a].thread \in Opened

LogIsOpen == \A i \in DOMAIN log : log[i].thread \in Opened

\* An id names one envelope, and is larger than the zero cursor.
IdsAreUnique == \A i, j \in DOMAIN log : log[i].id = log[j].id => i = j
IdsAreTimed == \A i \in DOMAIN log : Ms(log[i]) >= 1

Kept == ConversationTypeOK /\ ChosenIsOpen /\ LogIsOpen /\ IdsAreUnique /\ IdsAreTimed

-----------------------------------------------------------------------------
(* What a step leaves behind.                                              *)

\* An envelope with a new id is stored, in a thread that has a row then.
Stores(e) ==
  /\ e \in Envelope /\ log' = Append(log, e) /\ Len(log) < MaxLog
  /\ Ms(e) >= 1 /\ \A i \in DOMAIN log : log[i].id # e.id
  /\ e.thread \in Opened'

LEMMA AppendedLog ==
  ASSUME log \in Seq(Envelope), NEW e \in Envelope, log' = Append(log, e)
  PROVE  /\ log' \in Seq(Envelope) /\ Len(log') = Len(log) + 1
         /\ DOMAIN log' = DOMAIN log \cup {Len(log) + 1} /\ Len(log) + 1 \notin DOMAIN log
         /\ \A i \in DOMAIN log : log'[i] = log[i] /\ i < Len(log) + 1
         /\ log'[Len(log) + 1] = e
  OBVIOUS

LEMMA AppendedRows ==
  ASSUME rows \in Seq(Row), NEW row \in Row, rows' = Append(rows, row)
  PROVE  /\ rows' \in Seq(Row)
         /\ row.thread \in Opened' /\ \A t \in Opened : t \in Opened'
<1>1. /\ rows' \in Seq(Row) /\ DOMAIN rows' = DOMAIN rows \cup {Len(rows) + 1}
      /\ \A i \in DOMAIN rows : rows'[i] = rows[i]
      /\ rows'[Len(rows) + 1] = row
  OBVIOUS
<1> QED BY <1>1 DEF Opened

LEMMA ActsIsState ==
  ASSUME NEW pc \in {"idle", "open", "say", "find", "human"}, NEW t \in Threads \cup {Idle.thread}
  PROVE  /\ Acts(pc, t) \in AgentStates
         /\ Acts(pc, t).pc = pc /\ Acts(pc, t).thread = t /\ Acts(pc, t).best = 0
<1>1. 0 \in 0..MaxNow /\ <<>> \in Seq(Threads)
  BY ConversationAssumption
<1> QED BY <1>1 DEF Acts, AgentStates

LEMMA IdleIsState == Idle \in AgentStates /\ Idle.pc = "idle" /\ Idle.best = 0
<1>1. PICK t : t = CHOOSE x \in Threads : TRUE
  OBVIOUS
<1>2. Idle = Acts("idle", t)
  BY <1>1 DEF Idle
<1>3. Idle.thread = t
  BY <1>2 DEF Acts
<1> QED BY <1>2, <1>3, ActsIsState

-----------------------------------------------------------------------------
(* The agents.                                                             *)

\* The agent a moves to the state s, with a thread that has a row where it needs one.
Moves(a, s) ==
  /\ s \in AgentStates /\ agent' = [agent EXCEPT ![a] = s]
  /\ s.pc = "open" => s.thread \in Threads
  /\ s.pc \in {"say", "human"} \/ s.best > 0 => s.thread \in Opened'

LEMMA AgentMoves ==
  ASSUME Kept, NEW a \in Agents, NEW s, Moves(a, s), \A t \in Opened : t \in Opened'
  PROVE  agent' \in [Agents -> AgentStates] /\ ChosenIsOpen'
<1>1. agent \in [Agents -> AgentStates]
  BY DEF Kept, ConversationTypeOK, AgentStates
<1>2. /\ agent' \in [Agents -> AgentStates]
      /\ \A b \in Agents : agent'[b] = IF b = a THEN s ELSE agent[b]
  BY <1>1 DEF Moves
<1> QED BY <1>2 DEF Kept, ChosenIsOpen, Moves

\* An open thread is one of Threads.
LEMMA OpenIsThread ==
  ASSUME Kept, NEW t \in Opened
  PROVE  t \in Threads
<1>1. rows \in Seq(Row)
  BY DEF Kept, ConversationTypeOK, Row
<1>2. \A i \in DOMAIN rows : rows[i] \in Row
  BY <1>1
<1> QED BY <1>2 DEF Opened, Row

\* ResolveOrOpenThread chooses a thread that has a row, if the peer has one.
LEMMA LatestIsOpen ==
  ASSUME Kept, NEW p, RowsOf(ThreadsWith(p)) # {}
  PROVE  Latest(p) \in Opened
<1> DEFINE mine == RowsOf(ThreadsWith(p))
           Last(i) == \A j \in mine : rows[j].ms < rows[i].ms \/ (rows[j].ms = rows[i].ms /\ i <= j)
<1>1. rows \in Seq(Row)
  BY DEF Kept, ConversationTypeOK, Row
<1>2. \A i \in DOMAIN rows : i \in Nat /\ rows[i] \in Row
  BY <1>1
<1>3. mine \in SUBSET Nat /\ mine # {} /\ mine \subseteq DOMAIN rows
  BY <1>2 DEF RowsOf
<1>4. PICK ms : ms = [i \in mine |-> rows[i].ms]
  OBVIOUS
<1>5. \A i \in mine : ms[i] = rows[i].ms /\ ms[i] \in 0..MaxNow
  BY <1>2, <1>3, <1>4, ConversationAssumption DEF Row
<1>6. MaxNow \in Nat
  BY ConversationAssumption
<1> HIDE DEF mine
<1>7. \E i \in mine : \A j \in mine : ms[j] < ms[i] \/ (ms[j] = ms[i] /\ i <= j)
  BY ONLY <1>3, <1>5, <1>6, LatestExists
<1>8. \E i \in mine : Last(i)
  BY <1>5, <1>7
<1>9. (CHOOSE i \in mine : Last(i)) \in mine
  BY <1>8
<1>10. PICK k \in mine : k = CHOOSE i \in mine : Last(i)
  BY <1>9
<1>11. Latest(p) = rows[k].thread
  BY <1>10 DEF Latest, mine
<1> QED BY <1>3, <1>11 DEF Opened

LEMMA ResolveMoves ==
  ASSUME Kept, NEW a, NEW p, Resolve(a, p)
  PROVE  \E s : Moves(a, s) /\ s.pc \in {"say", "open"}
<1>1. PICK fresh \in Threads : agent' = [agent EXCEPT ![a] =
        IF RowsOf(ThreadsWith(p)) # {} THEN Acts("say", Latest(p)) ELSE Acts("open", fresh)]
  BY DEF Resolve
<1>2. UNCHANGED rows
  BY DEF Resolve
<1>3. CASE RowsOf(ThreadsWith(p)) # {}
  <2>1. Latest(p) \in Opened /\ Latest(p) \in Threads
    BY <1>3, LatestIsOpen, OpenIsThread
  <2>2. Moves(a, Acts("say", Latest(p)))
    BY <1>1, <1>2, <1>3, <2>1, ActsIsState DEF Moves, Opened
  <2> QED BY <2>1, <2>2, ActsIsState
<1>4. CASE ~(RowsOf(ThreadsWith(p)) # {})
  <2>1. Moves(a, Acts("open", fresh))
    BY <1>1, <1>4, ActsIsState DEF Moves
  <2> QED BY <2>1, ActsIsState
<1> QED BY <1>3, <1>4

LEMMA OpenThreadMoves ==
  ASSUME Kept, NEW a \in Agents, OpenThread(a)
  PROVE  /\ \E s : Moves(a, s) /\ s.pc = "say"
         /\ rows' \in Seq(Row) /\ \A t \in Opened : t \in Opened'
<1>1. PICK t : t = agent[a].thread
  OBVIOUS
<1>2. t \in Threads
  BY <1>1 DEF OpenThread, Kept, ChosenIsOpen
<1>3. PICK row : row = [thread |-> t, ms |-> now]
  OBVIOUS
<1>4. row \in Row /\ row.thread = t /\ rows' = Append(rows, row)
  BY <1>1, <1>2, <1>3 DEF OpenThread, Row, Kept, ConversationTypeOK
<1>5. rows \in Seq(Row)
  BY DEF Kept, ConversationTypeOK, Row
<1>6. rows' \in Seq(Row) /\ t \in Opened' /\ \A u \in Opened : u \in Opened'
  BY <1>4, <1>5, AppendedRows
<1>7. Moves(a, Acts("say", t))
  BY <1>1, <1>2, <1>6, ActsIsState DEF OpenThread, Moves
<1> QED BY <1>2, <1>6, <1>7, ActsIsState

LEMMA StartFindMoves ==
  ASSUME Kept, NEW a, NEW p, StartFind(a, p)
  PROVE  \E s : Moves(a, s) /\ s.pc = "find" /\ s.best = 0
<1>1. PICK list : list = With(p)
  OBVIOUS
<1>2. rows \in Seq(Row)
  BY DEF Kept, ConversationTypeOK, Row
<1>3. list \in Seq(Threads)
  BY <1>1, <1>2, ThreadsListed DEF With
<1>4. PICK s : s = [pc |-> "find", thread |-> Idle.thread, todo |-> list, best |-> 0]
  OBVIOUS
<1>5. s \in AgentStates /\ s.pc = "find" /\ s.best = 0
  BY <1>3, <1>4, ConversationAssumption DEF AgentStates
<1>6. Moves(a, s)
  BY <1>1, <1>4, <1>5 DEF StartFind, Moves
<1> QED BY <1>5, <1>6

\* A thread with a pending ask has an envelope, and so a row.
LEMMA PendingIsOpen ==
  ASSUME Kept, NEW t, PendingAsks(ListEnvelopes(t)) # {}
  PROVE  t \in Opened
<1>1. log \in Seq(Envelope)
  BY DEF Kept, ConversationTypeOK
<1>2. PICK p : p \in PendingAsks(ListEnvelopes(t))
  OBVIOUS
<1>3. PICK k \in InThread(t) : TRUE
  BY <1>1, <1>2, PendingHolds
<1> QED BY <1>3 DEF InThread, Kept, LogIsOpen

\* FindThreadWithPendingAsk keeps the thread it has, or takes one where an ask is pending.
LEMMA FindMoves ==
  ASSUME Kept, NEW a \in Agents, Find(a)
  PROVE  \E s : /\ Moves(a, s) /\ s.pc = "find"
               /\ \/ s.best = agent[a].best /\ s.thread = agent[a].thread
                  \/ PendingAsks(ListEnvelopes(s.thread)) # {}
<1>1. PICK old : old = agent[a]
  OBVIOUS
<1>2. old \in AgentStates
  BY <1>1 DEF Kept, ConversationTypeOK, AgentStates
<1>3. old.pc = "find" /\ old.todo \in Seq(Threads) /\ old.todo # <<>> /\ old.best \in 0..MaxNow
      /\ old.thread \in Threads \cup {Idle.thread} /\ (old.best > 0 => old.thread \in Opened)
  BY <1>1, <1>2 DEF Find, AgentStates, Kept, ChosenIsOpen
<1>4. PICK t, rest : t = Head(old.todo) /\ rest = Tail(old.todo)
  OBVIOUS
<1>5. t \in Threads /\ rest \in Seq(Threads)
  BY <1>3, <1>4
<1>6. PICK envs : envs = ListEnvelopes(t)
  OBVIOUS
<1>7. envs \in Seq(Envelope)
  BY <1>6, EnvelopesListed DEF Kept, ConversationTypeOK
<1>8. PICK times : times = {Ms(envs[i]) : i \in PendingAsks(envs)}
  OBVIOUS
<1>9. PICK last : last = IF times = {} THEN 0 ELSE CHOOSE m \in times : \A n \in times : n <= m
  OBVIOUS
<1>10. agent' = [agent EXCEPT ![a] =
         [pc |-> "find", todo |-> rest, thread |-> IF last > old.best THEN t ELSE old.thread,
          best |-> IF last > old.best THEN last ELSE old.best]]
  BY <1>1, <1>4, <1>6, <1>8, <1>9 DEF Find
<1>11. UNCHANGED rows
  BY DEF Find
<1>12. last \in 0..MaxNow /\ (last > 0 => PendingAsks(envs) # {})
  <2>1. CASE times = {}
    BY <1>9, <2>1, ConversationAssumption
  <2>2. CASE times # {}
    <3>1. PICK S : S = PendingAsks(envs)
      OBVIOUS
    <3>2. S \in SUBSET Nat /\ S # {}
      BY <1>7, <1>8, <2>2, <3>1 DEF PendingAsks
    <3>3. PICK ms : ms = [i \in S |-> Ms(envs[i])]
      OBVIOUS
    <3>4. \A i \in S : ms[i] \in 0..MaxNow
      <4>1. \A i \in S : envs[i] \in Envelope
        BY <1>7, <3>1 DEF PendingAsks
      <4>2. \A i \in S : envs[i].id \in (0..MaxNow) \X Nat
        BY <4>1 DEF Envelope, Ids
      <4> QED BY <3>3, <4>2 DEF Ms
    <3>5. MaxNow \in Nat
      BY ConversationAssumption
    <3>6. PICK i \in S : \A j \in S : ms[j] < ms[i] \/ (ms[j] = ms[i] /\ i <= j)
      BY <3>2, <3>4, <3>5, LatestExists
    <3>7. times = {ms[j] : j \in S}
      BY <1>8, <3>1, <3>3
    <3>8. ms[i] \in times /\ \A n \in times : n <= ms[i]
      BY <3>4, <3>5, <3>6, <3>7
    <3>9. last \in times
      BY <1>9, <2>2, <3>8
    <3> QED BY <3>1, <3>2, <3>4, <3>7, <3>9
  <2> QED BY <2>1, <2>2
<1>13. PICK s : s = [pc |-> "find", todo |-> rest,
                     thread |-> IF last > old.best THEN t ELSE old.thread,
                     best |-> IF last > old.best THEN last ELSE old.best]
  OBVIOUS
<1>14. CASE last > old.best
  <2>1. s = [pc |-> "find", todo |-> rest, thread |-> t, best |-> last]
    BY <1>13, <1>14
  <2>2. last > 0
    BY <1>3, <1>12, <1>14, ConversationAssumption
  <2>3. s \in AgentStates /\ s.pc = "find" /\ s.thread = t
    BY <1>5, <1>12, <2>1 DEF AgentStates
  <2>4. PendingAsks(ListEnvelopes(t)) # {} /\ t \in Opened'
    BY <1>6, <1>11, <1>12, <2>2, PendingIsOpen DEF Opened
  <2> QED BY <1>10, <1>13, <2>3, <2>4 DEF Moves
<1>15. CASE ~(last > old.best)
  <2>1. s = [pc |-> "find", todo |-> rest, thread |-> old.thread, best |-> old.best]
    BY <1>13, <1>15
  <2>2. s \in AgentStates /\ s.pc = "find" /\ s.thread = old.thread /\ s.best = old.best
    BY <1>3, <1>5, <2>1 DEF AgentStates
  <2>3. s.best > 0 => s.thread \in Opened'
    BY <1>3, <1>11, <2>2 DEF Opened
  <2> QED BY <1>1, <1>10, <1>13, <2>2, <2>3 DEF Moves
<1> QED BY <1>14, <1>15

\* Only what was found is answered.
LEMMA FoundMoves ==
  ASSUME Kept, NEW a \in Agents, Found(a)
  PROVE  \E s : /\ Moves(a, s)
               /\ \/ s.pc = "idle"
                  \/ /\ s.pc = "human" /\ s.thread = agent[a].thread
                     /\ agent[a].pc = "find" /\ agent[a].best > 0
<1>1. PICK old : old = agent[a]
  OBVIOUS
<1>2. old \in AgentStates
  BY <1>1 DEF Kept, ConversationTypeOK, AgentStates
<1>3. /\ old.best \in Nat /\ old.pc = "find" /\ old.thread \in Threads \cup {Idle.thread}
      /\ old.best > 0 => old.thread \in Opened'
  BY <1>1, <1>2, ConversationAssumption DEF Found, AgentStates, Kept, ChosenIsOpen, Opened
<1>4. CASE old.best = 0
  <2>1. Moves(a, Idle)
    BY <1>1, <1>4, IdleIsState DEF Found, Moves
  <2> QED BY <2>1, IdleIsState
<1>5. CASE old.best # 0
  <2>1. Moves(a, Acts("human", old.thread))
    BY <1>1, <1>3, <1>5, ActsIsState DEF Found, Moves
  <2> QED BY <1>1, <1>3, <1>5, <2>1, ActsIsState
<1> QED BY <1>4, <1>5

LEMMA TurnMoves ==
  ASSUME Kept, NEW a, NEW t, Turn(a, t)
  PROVE  \E s : Moves(a, s) /\ s.pc \in {"say", "human"}
<1>1. PICK pc : pc = IF HasPendingAsk(ListEnvelopes(t)) THEN "human" ELSE "say"
  OBVIOUS
<1>2. t \in Opened' /\ t \in Threads
  BY OpenIsThread DEF Turn, Opened
<1>3. pc \in {"say", "human"}
  BY <1>1
<1>4. Moves(a, Acts(pc, t))
  BY <1>1, <1>2, <1>3, ActsIsState DEF Turn, Moves
<1> QED BY <1>2, <1>3, <1>4, ActsIsState

\* sendAs stores an envelope of the agent, and the agent is through.
LEMMA SendMoves ==
  ASSUME Kept, NEW a \in Agents, Send(a)
  PROVE  /\ Moves(a, Idle)
         /\ \E e : /\ Stores(e) /\ e.by = a /\ e.kind = agent[a].pc
                  /\ e.thread = agent[a].thread
<1>1. PICK id \in NewIds(now) : Append1(agent[a].thread, a, agent[a].pc, id)
  BY DEF Send
<1>2. PICK e : e = [thread |-> agent[a].thread, by |-> a, kind |-> agent[a].pc, id |-> id]
  OBVIOUS
<1>3. agent[a].thread \in Opened /\ agent[a].thread \in Threads /\ agent[a].pc \in Kinds
  BY OpenIsThread DEF Send, Kept, ChosenIsOpen, Kinds
<1>4. id \in Ids /\ id[1] >= 1 /\ \A i \in DOMAIN log : log[i].id # id
  <2>1. PICK salt \in Salts : id = <<now, salt>>
    BY <1>1 DEF NewIds
  <2>2. now \in 1..MaxNow /\ salt \in Nat
    BY <2>1, ConversationAssumption DEF Kept, ConversationTypeOK
  <2> QED BY <1>1, <2>1, <2>2, ConversationAssumption DEF NewIds, Ids
<1>5. e \in Envelope /\ e.id = id /\ e.by = a /\ e.kind = agent[a].pc
      /\ e.thread = agent[a].thread
  BY <1>2, <1>3, <1>4 DEF Envelope
<1>6. Stores(e)
  BY <1>1, <1>2, <1>3, <1>4, <1>5 DEF Stores, Append1, Send, Ms, Opened
<1>7. Moves(a, Idle)
  BY IdleIsState DEF Send, Moves
<1> QED BY <1>5, <1>6, <1>7

-----------------------------------------------------------------------------
(* Readers and followers.                                                  *)

\* What a reader finds in the first thread of its list.
LEMMA CollectReads ==
  ASSUME Kept, NEW r \in Readers, Collect(r)
  PROVE  \E s \in PollStates, t \in Threads :
           /\ poll' = [poll EXCEPT ![r] = s] /\ s.pc = "read"
           /\ t = Head(poll[r].todo) /\ s.todo = Tail(poll[r].todo) /\ poll[r].todo # <<>>
           /\ s.max = poll[r].max \/ \E i \in InThread(t) : s.max = log[i].id
           /\ ~Less(s.max, poll[r].max) /\ \A i \in InThread(t) : ~Less(s.max, log[i].id)
           /\ \A id : id \in s.fresh <=>
                id \in poll[r].fresh \/ \E i \in InThread(t) : id = log[i].id /\ Less(cursor[r], id)
<1>1. PICK old : old = poll[r]
  OBVIOUS
<1>2. old \in PollStates
  BY <1>1 DEF Kept, ConversationTypeOK, PollStates
<1>3. old.todo \in Seq(Threads) /\ old.todo # <<>> /\ old.max \in Ids /\ old.fresh \in SUBSET Ids
  BY <1>1, <1>2 DEF Collect, PollStates
<1>4. PICK t, rest : t = Head(old.todo) /\ rest = Tail(old.todo)
  OBVIOUS
<1>5. t \in Threads /\ rest \in Seq(Threads)
  BY <1>3, <1>4
<1>6. PICK envs : envs = ListEnvelopes(t)
  OBVIOUS
<1>7. log \in Seq(Envelope)
  BY DEF Kept, ConversationTypeOK
<1>8. /\ envs \in Seq(Envelope)
      /\ \A e : e \in Range(envs) <=> \E i \in InThread(t) : e = log[i]
      /\ \A n \in 1..Len(envs) : \E i \in InThread(t) : envs[n] = log[i]
      /\ \A i \in InThread(t) : \E n \in 1..Len(envs) : envs[n] = log[i]
  BY <1>6, <1>7, EnvelopesListed
<1>9. PICK top : top = Largest(old.max, envs)
  OBVIOUS
<1>10. /\ top \in Ids /\ ~Less(top, old.max)
       /\ top = old.max \/ \E n \in 1..Len(envs) : top = envs[n].id
       /\ \A n \in 1..Len(envs) : ~Less(top, envs[n].id)
  BY <1>3, <1>8, <1>9, LargestHolds
<1>11. PICK fresh : fresh = old.fresh \cup {e.id : e \in {d \in Range(envs) : Less(cursor[r], d.id)}}
  OBVIOUS
<1>12. \A id : id \in fresh <=>
         id \in old.fresh \/ \E i \in InThread(t) : id = log[i].id /\ Less(cursor[r], id)
  <2>1. \A id : id \in fresh <=> id \in old.fresh \/ \E e \in Range(envs) : id = e.id /\ Less(cursor[r], id)
    BY <1>11
  <2>2. ASSUME NEW id
        PROVE  (\E e \in Range(envs) : id = e.id /\ Less(cursor[r], id))
                 <=> (\E i \in InThread(t) : id = log[i].id /\ Less(cursor[r], id))
    BY <1>8
  <2> QED BY <2>1, <2>2
<1>13. \A i \in InThread(t) : log[i].id \in Ids
  BY <1>7, LogHolds DEF InThread
<1>14. fresh \in SUBSET Ids
  BY <1>3, <1>12, <1>13
<1>15. PICK s : s = [pc |-> "read", todo |-> rest, max |-> top, fresh |-> fresh]
  OBVIOUS
<1>16. poll' = [poll EXCEPT ![r] = s]
  BY <1>1, <1>4, <1>6, <1>9, <1>11, <1>15 DEF Collect, Newer
<1>17. s \in PollStates /\ s.pc = "read" /\ s.todo = rest /\ s.max = top /\ s.fresh = fresh
  BY <1>5, <1>10, <1>14, <1>15 DEF PollStates
<1>18. top = old.max \/ \E i \in InThread(t) : top = log[i].id
  BY <1>8, <1>10
<1>19. \A i \in InThread(t) : ~Less(top, log[i].id)
  BY <1>8, <1>10
<1>20. /\ poll' = [poll EXCEPT ![r] = s] /\ s.pc = "read"
       /\ t = Head(poll[r].todo) /\ s.todo = Tail(poll[r].todo) /\ poll[r].todo # <<>>
  BY <1>1, <1>3, <1>4, <1>16, <1>17
<1>21. /\ s.max = poll[r].max \/ \E i \in InThread(t) : s.max = log[i].id
       /\ ~Less(s.max, poll[r].max) /\ \A i \in InThread(t) : ~Less(s.max, log[i].id)
  BY <1>1, <1>10, <1>17, <1>18, <1>19
<1>22. \A id : id \in s.fresh <=>
         id \in poll[r].fresh \/ \E i \in InThread(t) : id = log[i].id /\ Less(cursor[r], id)
  BY <1>1, <1>12, <1>17
<1> QED BY ONLY <1>5, <1>17, <1>20, <1>21, <1>22

LEMMA ZeroIsId == Zero \in Ids
BY ConversationAssumption DEF Zero, Ids

LEMMA NoPollIsState ==
  NoPoll \in PollStates /\ NoPoll.pc = "idle" /\ NoPoll.max = Zero /\ NoPoll.fresh = {}
<1>1. <<>> \in Seq(Threads)
  OBVIOUS
<1> QED BY <1>1, ZeroIsId DEF NoPoll, PollStates

\* A poll begins with the threads in scope that have a row.
LEMMA BeginReads ==
  ASSUME Kept, NEW r \in Readers, Begin(r)
  PROVE  \E s \in PollStates :
           /\ poll' = [poll EXCEPT ![r] = s] /\ s.pc = "read" /\ s.max = Zero /\ s.fresh = {}
           /\ \A t : t \in Range(s.todo) <=> t \in Opened /\ t \in Scope[r]
<1>1. PICK list : list = ListThreads(Scope[r])
  OBVIOUS
<1>2. rows \in Seq(Row)
  BY DEF Kept, ConversationTypeOK, Row
<1>3. list \in Seq(Threads) /\ \A t : t \in Range(list) <=> t \in Opened /\ t \in Scope[r]
  BY <1>1, <1>2, ThreadsListed
<1>4. PICK s : s = [pc |-> "read", todo |-> list, max |-> Zero, fresh |-> {}]
  OBVIOUS
<1>5. s \in PollStates /\ s.pc = "read" /\ s.max = Zero /\ s.fresh = {} /\ s.todo = list
  BY <1>3, <1>4, ZeroIsId DEF PollStates
<1> QED BY <1>1, <1>3, <1>4, <1>5 DEF Begin

LEMMA CollectFailsReads ==
  ASSUME Kept, NEW r \in Readers, CollectFails(r)
  PROVE  \E s \in PollStates :
           /\ poll' = [poll EXCEPT ![r] = s] /\ s.pc = "read" /\ r \in Flaky
           /\ poll[r].todo # <<>> /\ s.todo = Tail(poll[r].todo)
           /\ s.max = poll[r].max /\ s.fresh = poll[r].fresh
<1>1. PICK old : old = poll[r]
  OBVIOUS
<1>2. old \in PollStates /\ old.pc = "read" /\ old.todo # <<>>
  BY <1>1 DEF CollectFails, Kept, ConversationTypeOK, PollStates
<1>3. PICK rest : rest = Tail(old.todo)
  OBVIOUS
<1>4. rest \in Seq(Threads)
  BY <1>2, <1>3 DEF PollStates
<1>5. PICK s : s = [old EXCEPT !.todo = rest]
  OBVIOUS
<1>6. s \in PollStates /\ s.pc = "read" /\ s.todo = rest /\ s.max = old.max /\ s.fresh = old.fresh
  BY <1>2, <1>4, <1>5 DEF PollStates
<1>7. poll' = [poll EXCEPT ![r] = s] /\ r \in Flaky
  BY <1>1, <1>3, <1>5 DEF CollectFails
<1> QED BY <1>1, <1>2, <1>3, <1>6, <1>7

LEMMA FollowersTyped ==
  ASSUME Kept, NEW f \in Followers, FollowStep(f)
  PROVE  follower' \in [Followers -> FollowStates]
<1>1. PICK old : old = follower[f]
  OBVIOUS
<1>2. old \in FollowStates
  BY <1>1 DEF Kept, ConversationTypeOK, FollowStates
<1>3. follower \in [Followers -> FollowStates]
  BY DEF Kept, ConversationTypeOK, FollowStates
<1>4. ASSUME NEW s \in FollowStates, follower' = [follower EXCEPT ![f] = s]
      PROVE  follower' \in [Followers -> FollowStates]
  BY <1>3, <1>4
<1>5. rows \in Seq(Row) /\ log \in Seq(Envelope)
  BY DEF Kept, ConversationTypeOK, Row
<1>6. CASE List(f)
  <2>1. PICK all, some : all = ListThreads(Threads) /\ some = Follows(f)
    OBVIOUS
  <2>2. all \in Seq(Threads) /\ some \in Seq(Threads)
    BY <1>5, <2>1, ThreadsListed DEF Follows
  <2>3. [pc |-> "replay", todo |-> all, seen |-> {}] \in FollowStates
    BY <2>2 DEF FollowStates
  <2>4. [pc |-> "live", todo |-> some, seen |-> old.seen] \in FollowStates
    BY <1>2, <2>2 DEF FollowStates
  <2>5. CASE old.pc = "off"
    BY <1>1, <1>4, <1>6, <2>1, <2>3, <2>5 DEF List
  <2>6. CASE old.pc # "off"
    BY <1>1, <1>4, <1>6, <2>1, <2>4, <2>6 DEF List
  <2> QED BY <2>5, <2>6
<1>7. CASE Follow(f)
  <2>1. old.todo \in Seq(Threads) /\ old.todo # <<>> /\ old.seen \in SUBSET Ids
        /\ old.pc \in {"replay", "live"}
    BY <1>1, <1>2, <1>7 DEF Follow, FollowStates
  <2>2. PICK rest, envs : rest = Tail(old.todo) /\ envs = ListEnvelopes(Head(old.todo))
    OBVIOUS
  <2>3. rest \in Seq(Threads)
    BY <2>1, <2>2
  <2>4. PICK seen : seen = old.seen \cup {e.id : e \in Range(envs)}
    OBVIOUS
  <2>5. seen \in SUBSET Ids
    <3>1. envs \in Seq(Envelope)
      BY <1>5, <2>2, EnvelopesListed
    <3>2. \A e \in Range(envs) : e.id \in Ids
      <4>1. \A n \in DOMAIN envs : envs[n] \in Envelope
        BY <3>1
      <4> QED BY <4>1 DEF Range, Envelope
    <3> QED BY <2>1, <2>4, <3>2
  <2>6. PICK s : s = [pc |-> old.pc, todo |-> rest, seen |-> seen]
    OBVIOUS
  <2>7. s \in FollowStates
    BY <2>1, <2>3, <2>5, <2>6 DEF FollowStates
  <2>8. follower' = [follower EXCEPT ![f] = s]
    BY <1>1, <1>7, <2>2, <2>4, <2>6 DEF Follow
  <2> QED BY <1>4, <2>7, <2>8
<1>8. CASE GoLive(f)
  <2>1. PICK s : s = [old EXCEPT !.pc = "live"]
    OBVIOUS
  <2>2. s \in FollowStates
    BY <1>2, <2>1 DEF FollowStates
  <2>3. follower' = [follower EXCEPT ![f] = s]
    BY <1>1, <1>8, <2>1 DEF GoLive
  <2> QED BY <1>4, <2>2, <2>3
<1> QED BY <1>6, <1>7, <1>8 DEF FollowStep

-----------------------------------------------------------------------------
(* Type correctness.                                                       *)

\* An envelope of a peer is stored, and its thread has a row then.
LEMMA ArriveStores ==
  ASSUME Kept, NEW t \in Threads, NEW kind \in {"ask", "human"}, NEW ms \in 1..MaxNow,
         Arrive(t, kind, ms)
  PROVE  /\ \E e : Stores(e) /\ e.by \in Peers
         /\ rows' \in Seq(Row) /\ \A u \in Opened : u \in Opened'
<1>1. PICK id \in NewIds(ms) : Append1(t, PeerOf[t], kind, id)
  BY DEF Arrive
<1>2. PICK e : e = [thread |-> t, by |-> PeerOf[t], kind |-> kind, id |-> id]
  OBVIOUS
<1>3. id \in Ids /\ id[1] >= 1 /\ \A i \in DOMAIN log : log[i].id # id
  <2>1. PICK salt \in Salts : id = <<ms, salt>>
    BY <1>1 DEF NewIds
  <2> QED BY <1>1, <2>1, ConversationAssumption DEF NewIds, Ids
<1>4. PeerOf[t] \in Peers
  BY ConversationAssumption
<1>5. e \in Envelope /\ e.id = id /\ e.by \in Peers /\ e.thread = t
  BY <1>2, <1>3, <1>4 DEF Envelope, Kinds
<1>6. rows \in Seq(Row)
  BY DEF Kept, ConversationTypeOK, Row
<1>7. rows' \in Seq(Row) /\ t \in Opened' /\ \A u \in Opened : u \in Opened'
  <2>1. CASE t \in Opened
    BY <1>6, <2>1 DEF Arrive, Opened
  <2>2. CASE t \notin Opened
    <3>1. PICK row : row = [thread |-> t, ms |-> ms]
      OBVIOUS
    <3>2. row \in Row /\ row.thread = t /\ rows' = Append(rows, row)
      BY <2>2, <3>1 DEF Arrive, Row
    <3> QED BY <1>6, <3>2, AppendedRows
  <2> QED BY <2>1, <2>2
<1>8. Stores(e)
  BY <1>1, <1>2, <1>3, <1>5, <1>7 DEF Stores, Append1, Arrive, Ms
<1> QED BY <1>5, <1>7, <1>8

\* The log after an envelope has been stored.
LEMMA StoreKeeps ==
  ASSUME Kept, NEW e, Stores(e), \A t \in Opened : t \in Opened'
  PROVE  /\ log' \in Seq(Envelope) /\ Len(log') <= MaxLog
         /\ LogIsOpen' /\ IdsAreUnique' /\ IdsAreTimed'
<1>1. log \in Seq(Envelope) /\ Len(log) \in Nat
  BY DEF Kept, ConversationTypeOK
<1>2. /\ log' \in Seq(Envelope) /\ Len(log') = Len(log) + 1
      /\ DOMAIN log' = DOMAIN log \cup {Len(log) + 1} /\ Len(log) + 1 \notin DOMAIN log
      /\ \A i \in DOMAIN log : log'[i] = log[i] /\ i < Len(log) + 1
      /\ log'[Len(log) + 1] = e
  BY <1>1, AppendedLog DEF Stores
<1>3. Len(log') <= MaxLog
  BY <1>1, <1>2, ConversationAssumption DEF Stores
<1>4. LogIsOpen'
  BY <1>2 DEF Stores, Kept, LogIsOpen
<1>5. IdsAreUnique'
  BY <1>2 DEF Stores, Kept, IdsAreUnique
<1>6. IdsAreTimed'
  BY <1>2 DEF Stores, Kept, IdsAreTimed, Ms
<1> QED BY <1>2, <1>3, <1>4, <1>5, <1>6

LEMMA InitKept ==
  ASSUME ConversationInit
  PROVE  Kept
<1>1. rows = <<>> /\ log = <<>> /\ now \in 1..MaxNow /\ cast \in Casts
  BY ConversationAssumption DEF ConversationInit
<1>2. agent \in [Agents -> AgentStates] /\ \A a \in Agents : agent[a] = Idle
  BY IdleIsState DEF ConversationInit
<1>3. cursor \in [Readers -> Ids] /\ shown \in [Readers -> SUBSET Ids]
      /\ poll \in [Readers -> PollStates]
  BY NoPollIsState, ZeroIsId DEF ConversationInit
<1>4. follower \in [Followers -> FollowStates]
  <2>1. NotStarted \in FollowStates
    BY DEF NotStarted, FollowStates
  <2> QED BY <2>1 DEF ConversationInit
<1>5. rows \in Seq(Row) /\ log \in Seq(Envelope) /\ Len(log) <= MaxLog /\ DOMAIN log = {}
  BY <1>1, ConversationAssumption
<1>6. ConversationTypeOK
  BY <1>1, <1>2, <1>3, <1>4, <1>5
     DEF ConversationTypeOK, Row, AgentStates, PollStates, FollowStates
<1>7. ChosenIsOpen
  BY <1>2, IdleIsState DEF ChosenIsOpen
<1>8. LogIsOpen /\ IdsAreUnique /\ IdsAreTimed
  BY <1>5 DEF LogIsOpen, IdsAreUnique, IdsAreTimed
<1> QED BY <1>6, <1>7, <1>8 DEF Kept

\* The steps that only move an agent.
LEMMA QuietMoveKeeps ==
  ASSUME Kept, NEW a \in Agents, NEW s, Moves(a, s),
         rows' \in Seq(Row), \A t \in Opened : t \in Opened',
         UNCHANGED <<cast, now, log, cursor, poll, shown, follower>>
  PROVE  Kept'
<1>1. agent' \in [Agents -> AgentStates] /\ ChosenIsOpen'
  BY AgentMoves
<1>2. ConversationTypeOK'
  BY <1>1 DEF Kept, ConversationTypeOK, Row, AgentStates
<1>3. LogIsOpen' /\ IdsAreUnique' /\ IdsAreTimed'
  BY DEF Kept, LogIsOpen, IdsAreUnique, IdsAreTimed, Ms
<1> QED BY <1>1, <1>2, <1>3 DEF Kept

\* What a step of an agent does, all of it.
ActMoves(a) ==
  \/ /\ \E s : Moves(a, s) /\ rows' \in Seq(Row)
     /\ UNCHANGED <<cast, now, log, cursor, poll, shown, follower>>
  \/ /\ Moves(a, Idle) /\ \E e : Stores(e) /\ e.by = a
     /\ UNCHANGED <<cast, now, rows, cursor, poll, shown, follower>>

LEMMA ActsMove ==
  ASSUME Kept, NEW a \in Agents, Act(a)
  PROVE  ActMoves(a) /\ \A t \in Opened : t \in Opened'
<1>1. rows \in Seq(Row)
  BY DEF Kept, ConversationTypeOK, Row
<1>2. ASSUME UNCHANGED rows  PROVE rows' \in Seq(Row) /\ \A t \in Opened : t \in Opened'
  BY <1>1, <1>2 DEF Opened
<1>3. CASE \E p \in Peers : Resolve(a, p)
  <2>1. (\E s : Moves(a, s)) /\ UNCHANGED <<cast, now, rows, log, cursor, poll, shown, follower>>
    BY <1>3, ResolveMoves DEF Resolve
  <2> QED BY <1>2, <2>1 DEF ActMoves
<1>4. CASE \E p \in Peers : StartFind(a, p)
  <2>1. (\E s : Moves(a, s)) /\ UNCHANGED <<cast, now, rows, log, cursor, poll, shown, follower>>
    BY <1>4, StartFindMoves DEF StartFind
  <2> QED BY <1>2, <2>1 DEF ActMoves
<1>5. CASE OpenThread(a)
  BY <1>5, OpenThreadMoves DEF OpenThread, ActMoves
<1>6. CASE Find(a)
  <2>1. (\E s : Moves(a, s)) /\ UNCHANGED <<cast, now, rows, log, cursor, poll, shown, follower>>
    BY <1>6, FindMoves DEF Find
  <2> QED BY <1>2, <2>1 DEF ActMoves
<1>7. CASE Found(a)
  <2>1. (\E s : Moves(a, s)) /\ UNCHANGED <<cast, now, rows, log, cursor, poll, shown, follower>>
    BY <1>7, FoundMoves DEF Found
  <2> QED BY <1>2, <2>1 DEF ActMoves
<1>8. CASE Send(a)
  <2>1. /\ Moves(a, Idle) /\ \E e : Stores(e) /\ e.by = a
        /\ UNCHANGED <<cast, now, rows, cursor, poll, shown, follower>>
    BY <1>8, SendMoves DEF Send
  <2> QED BY <1>2, <2>1 DEF ActMoves
<1>9. CASE \E t \in Threads : Turn(a, t)
  <2>1. (\E s : Moves(a, s)) /\ UNCHANGED <<cast, now, rows, log, cursor, poll, shown, follower>>
    BY <1>9, TurnMoves DEF Turn
  <2> QED BY <1>2, <2>1 DEF ActMoves
<1> QED BY <1>3, <1>4, <1>5, <1>6, <1>7, <1>8, <1>9 DEF Act

\* What a step of a reader does: the poll goes on, or the answer is given.
LEMMA ReadsKeep ==
  ASSUME Kept, NEW r \in Readers, Read(r)
  PROVE  /\ cursor' \in [Readers -> Ids] /\ shown' \in [Readers -> SUBSET Ids]
         /\ poll' \in [Readers -> PollStates]
         /\ UNCHANGED <<cast, now, rows, log, agent, follower>>
<1>1. cursor \in [Readers -> Ids] /\ shown \in [Readers -> SUBSET Ids]
      /\ poll \in [Readers -> PollStates]
  BY DEF Kept, ConversationTypeOK, PollStates
<1>2. ASSUME NEW s \in PollStates, poll' = [poll EXCEPT ![r] = s]
      PROVE  poll' \in [Readers -> PollStates]
  BY <1>1, <1>2
<1>3. CASE Begin(r)
  BY <1>1, <1>2, <1>3, BeginReads DEF Begin
<1>4. CASE Collect(r)
  BY <1>1, <1>2, <1>4, CollectReads DEF Collect
<1>5. CASE CollectFails(r)
  BY <1>1, <1>2, <1>5, CollectFailsReads DEF CollectFails
<1>6. CASE Answer(r)
  <2>1. PICK old : old = poll[r]
    OBVIOUS
  <2>2. old.max \in Ids /\ old.fresh \in SUBSET Ids
    BY <1>1, <2>1 DEF PollStates
  <2>3. PICK next : next = NextCursor(old.max, cursor[r])
    OBVIOUS
  <2>4. next \in Ids
    BY <1>1, <2>2, <2>3 DEF NextCursor
  <2>5. cursor' = [cursor EXCEPT ![r] = next] /\ shown' = [shown EXCEPT ![r] = @ \cup old.fresh]
    BY <1>6, <2>1, <2>3 DEF Answer
  <2>6. cursor' \in [Readers -> Ids] /\ shown' \in [Readers -> SUBSET Ids]
    BY <1>1, <2>2, <2>4, <2>5
  <2> QED BY <1>2, <1>6, <2>6, NoPollIsState DEF Answer
<1>7. CASE Again(r)
  BY <1>1, <1>2, <1>7, NoPollIsState DEF Again
<1> QED BY <1>3, <1>4, <1>5, <1>6, <1>7 DEF Read

LEMMA KeptStep ==
  ASSUME Kept, [ConversationNext]_conversation
  PROVE  Kept'
<1>1. CASE Tick
  <2>1. now' \in 1..MaxNow
    BY <1>1, ConversationAssumption DEF Tick, Kept, ConversationTypeOK
  <2>2. ConversationTypeOK'
    BY <1>1, <2>1 DEF Tick, Kept, ConversationTypeOK
  <2> QED BY <1>1, <2>2
          DEF Tick, Kept, ChosenIsOpen, LogIsOpen, IdsAreUnique, IdsAreTimed, Opened, Ms
<1>2. ASSUME NEW t \in Threads, NEW kind \in {"ask", "human"}, NEW ms \in 1..MaxNow,
             Arrive(t, kind, ms)
      PROVE  Kept'
  <2>1. PICK e : Stores(e)
    BY <1>2, ArriveStores
  <2>2. rows' \in Seq(Row) /\ \A u \in Opened : u \in Opened'
    BY <1>2, ArriveStores
  <2>3. /\ log' \in Seq(Envelope) /\ Len(log') <= MaxLog
        /\ LogIsOpen' /\ IdsAreUnique' /\ IdsAreTimed'
    BY <2>1, <2>2, StoreKeeps
  <2>4. ConversationTypeOK'
    BY <1>2, <2>2, <2>3 DEF Arrive, Kept, ConversationTypeOK, Row
  <2>5. ChosenIsOpen'
    BY <1>2, <2>2 DEF Arrive, Kept, ChosenIsOpen
  <2> QED BY <2>3, <2>4, <2>5 DEF Kept
<1>3. ASSUME NEW a \in Agents, Act(a)  PROVE Kept'
  <2>1. ActMoves(a) /\ \A t \in Opened : t \in Opened'
    BY <1>3, ActsMove
  <2>2. CASE /\ \E s : Moves(a, s) /\ rows' \in Seq(Row)
             /\ UNCHANGED <<cast, now, log, cursor, poll, shown, follower>>
    BY <2>1, <2>2, QuietMoveKeeps
  <2>3. CASE /\ Moves(a, Idle) /\ \E e : Stores(e) /\ e.by = a
             /\ UNCHANGED <<cast, now, rows, cursor, poll, shown, follower>>
    <3>1. agent' \in [Agents -> AgentStates] /\ ChosenIsOpen'
      BY <2>1, <2>3, AgentMoves
    <3>2. /\ log' \in Seq(Envelope) /\ Len(log') <= MaxLog
          /\ LogIsOpen' /\ IdsAreUnique' /\ IdsAreTimed'
      BY <2>1, <2>3, StoreKeeps
    <3>3. ConversationTypeOK'
      BY <2>3, <3>1, <3>2 DEF Kept, ConversationTypeOK, AgentStates
    <3> QED BY <3>1, <3>2, <3>3 DEF Kept
  <2> QED BY <2>1, <2>2, <2>3 DEF ActMoves
<1>4. ASSUME NEW r \in Readers, Read(r)  PROVE Kept'
  <2>1. /\ cursor' \in [Readers -> Ids] /\ shown' \in [Readers -> SUBSET Ids]
        /\ poll' \in [Readers -> PollStates]
        /\ UNCHANGED <<cast, now, rows, log, agent, follower>>
    BY <1>4, ReadsKeep
  <2>2. ConversationTypeOK'
    BY <2>1 DEF Kept, ConversationTypeOK, PollStates
  <2> QED BY <2>1, <2>2
          DEF Kept, ChosenIsOpen, LogIsOpen, IdsAreUnique, IdsAreTimed, Opened, Ms
<1>5. ASSUME NEW f \in Followers, FollowStep(f)  PROVE Kept'
  <2>1. /\ follower' \in [Followers -> FollowStates]
        /\ UNCHANGED <<cast, now, rows, log, agent, cursor, poll, shown>>
    BY <1>5, FollowersTyped DEF FollowStep, List, Follow, GoLive
  <2>2. ConversationTypeOK'
    BY <2>1 DEF Kept, ConversationTypeOK, FollowStates
  <2> QED BY <2>1, <2>2
          DEF Kept, ChosenIsOpen, LogIsOpen, IdsAreUnique, IdsAreTimed, Opened, Ms
<1>6. CASE UNCHANGED conversation
  BY <1>6 DEF conversation, Kept, ConversationTypeOK, ChosenIsOpen, LogIsOpen, IdsAreUnique,
              IdsAreTimed, Opened, Ms
<1> QED BY <1>1, <1>2, <1>3, <1>4, <1>5, <1>6 DEF ConversationNext

LEMMA AlwaysKept == ConversationSpec => []Kept
<1>1. ConversationInit => Kept
  BY InitKept
<1>2. Kept /\ [ConversationNext]_conversation => Kept'
  BY KeptStep
<1> QED BY <1>1, <1>2, PTL DEF ConversationSpec

\* Whatever agents, readers, followers and peers do, and in whatever order their
\* statements come, every variable keeps its type: the log stays within its bound,
\* and no listing, cursor or chosen thread is outside what the tables hold.
THEOREM ConversationTypeCorrect == ConversationSpec => []ConversationTypeOK
<1>1. Kept => ConversationTypeOK
  BY DEF Kept
<1> QED BY <1>1, AlwaysKept, PTL

-----------------------------------------------------------------------------
(* The tool inbox: what was shown, and what the cursor has passed.         *)

\* What a call gathers is newer than the caller's cursor, and not newer than the
\* cursor it will be given.
FreshIsNew(r) == \A id \in poll[r].fresh : Less(cursor[r], id) /\ ~Less(poll[r].max, id)

\* A cursor has passed all that its caller was shown.
ShownIsPassed(r) == r \notin Flaky => \A id \in shown[r] : ~Less(cursor[r], id)

\* A cursor is the id of an envelope in scope.
CursorIsRead(r) ==
  cursor[r] # Zero => \E j \in DOMAIN log : log[j].id = cursor[r] /\ log[j].thread \in Scope[r]

\* A call reads the envelope its cursor stands at, or has not come to it yet.
CursorIsFound(r) ==
  r \notin Flaky /\ poll[r].pc = "read" =>
    \/ cursor[r] = Zero \/ ~Less(poll[r].max, cursor[r])
    \/ \E j \in DOMAIN log : log[j].id = cursor[r] /\ log[j].thread \in Range(poll[r].todo)

\* Of the thread the next cursor is from, all that was stored before it is gathered.
MaxIsRead(r) ==
  poll[r].max # Zero =>
    \E j \in DOMAIN log :
      /\ log[j].id = poll[r].max /\ log[j].thread \in Scope[r]
      /\ \A i \in DOMAIN log :
           i <= j /\ log[i].thread = log[j].thread /\ Less(cursor[r], log[i].id)
           => log[i].id \in poll[r].fresh

ReadsScope(r) == Range(poll[r].todo) \subseteq Scope[r]

\* SkippedIsLate, of one reader.
Skipped(r) ==
  \A i \in DOMAIN log :
    log[i].thread \in Scope[r] /\ ~Less(cursor[r], log[i].id) /\ log[i].id \notin shown[r] =>
      \E j \in DOMAIN log :
        Less(log[i].id, log[j].id) /\ (j < i \/ log[j].thread # log[i].thread)

Reads(r) ==
  /\ FreshIsNew(r) /\ ShownIsPassed(r) /\ CursorIsRead(r) /\ CursorIsFound(r)
  /\ MaxIsRead(r) /\ ReadsScope(r) /\ Skipped(r)

ReadersHold == \A r \in Readers : Reads(r)

LEMMA HeadAndTail ==
  ASSUME NEW s \in Seq(Threads), s # <<>>
  PROVE  /\ Head(s) \in Range(s) /\ Range(Tail(s)) \subseteq Range(s)
         /\ \A t \in Range(s) : t = Head(s) \/ t \in Range(Tail(s))
<1>1. PICK rest : rest = Tail(s)
  OBVIOUS
<1>2. /\ DOMAIN s = 1..Len(s) /\ Len(s) \in Nat \ {0} /\ Head(s) = s[1]
      /\ DOMAIN rest = 1..(Len(s) - 1) /\ \A n \in 1..(Len(s) - 1) : rest[n] = s[n + 1]
  BY <1>1
<1>3. ASSUME NEW n \in 1..Len(s)  PROVE s[n] = Head(s) \/ s[n] \in Range(rest)
  <2>1. CASE n = 1
    BY <1>2, <2>1
  <2>2. CASE n # 1
    <3>1. n - 1 \in 1..(Len(s) - 1) /\ rest[n - 1] = s[n]
      BY <1>2, <2>2
    <3> QED BY <1>2, <3>1 DEF Range
  <2> QED BY <2>1, <2>2
<1>4. ASSUME NEW n \in 1..(Len(s) - 1)  PROVE rest[n] \in Range(s)
  <2>1. n + 1 \in 1..Len(s) /\ rest[n] = s[n + 1]
    BY <1>2
  <2> QED BY <1>2, <2>1 DEF Range
<1>5. Head(s) \in Range(s)
  BY <1>2 DEF Range
<1>6. Range(rest) \subseteq Range(s)
  BY <1>2, <1>4 DEF Range
<1>7. \A t \in Range(s) : t = Head(s) \/ t \in Range(rest)
  BY <1>2, <1>3 DEF Range
<1> QED BY <1>1, <1>5, <1>6, <1>7

LEMMA ReaderTyped ==
  ASSUME Kept, NEW r \in Readers
  PROVE  /\ cursor[r] \in Ids /\ shown[r] \in SUBSET Ids
         /\ poll[r] \in PollStates /\ poll[r].max \in Ids /\ poll[r].fresh \in SUBSET Ids
         /\ poll[r].todo \in Seq(Threads) /\ DOMAIN poll = Readers
BY DEF Kept, ConversationTypeOK, PollStates

\* Nothing but the log tells one id from another, and zero is before them all.
LEMMA AboveZero ==
  ASSUME NEW id \in Ids
  PROVE  /\ ~Less(id, Zero) /\ (~Less(Zero, id) => id = Zero)
         /\ id[1] >= 1 => id # Zero
<1>1. PICK m \in 0..MaxNow, s \in Nat : id = <<m, s>>
  BY DEF Ids
<1> QED BY <1>1, ConversationAssumption DEF Less, Zero

\* A step that leaves the log and the reader alone.
LEMMA ReadsFramed ==
  ASSUME NEW r, Reads(r), UNCHANGED log,
         cursor'[r] = cursor[r], poll'[r] = poll[r], shown'[r] = shown[r]
  PROVE  Reads(r)'
BY DEF Reads, FreshIsNew, ShownIsPassed, CursorIsRead, CursorIsFound, MaxIsRead, ReadsScope,
       Skipped

\* An envelope is stored: if the cursor has passed it, it stands at one stored before.
LEMMA ReadsStored ==
  ASSUME Kept, NEW r \in Readers, Reads(r), NEW e, Stores(e), UNCHANGED <<cursor, poll, shown>>
  PROVE  Reads(r)'
<1>1. log \in Seq(Envelope) /\ Len(log) \in Nat
  BY DEF Kept, ConversationTypeOK
<1>2. PICK n \in Nat : n = Len(log) + 1
  BY <1>1
<1>3. /\ DOMAIN log' = DOMAIN log \cup {n} /\ n \notin DOMAIN log
      /\ \A i \in DOMAIN log : log'[i] = log[i] /\ i < n /\ i \in Nat
      /\ log'[n] = e
  BY <1>1, <1>2, AppendedLog DEF Stores
<1>4. FreshIsNew(r)' /\ ShownIsPassed(r)' /\ CursorIsRead(r)' /\ CursorIsFound(r)' /\ ReadsScope(r)'
  BY <1>3 DEF Reads, FreshIsNew, ShownIsPassed, CursorIsRead, CursorIsFound, ReadsScope
<1>5. MaxIsRead(r)'
  <2>1. SUFFICES ASSUME poll[r].max # Zero  PROVE MaxIsRead(r)'
    BY DEF MaxIsRead
  <2>2. PICK j \in DOMAIN log :
          /\ log[j].id = poll[r].max /\ log[j].thread \in Scope[r]
          /\ \A i \in DOMAIN log :
               i <= j /\ log[i].thread = log[j].thread /\ Less(cursor[r], log[i].id)
               => log[i].id \in poll[r].fresh
    BY <2>1 DEF Reads, MaxIsRead
  <2>3. \A i \in DOMAIN log' : i <= j => i \in DOMAIN log
    BY <1>3, <2>2
  <2> QED BY <1>3, <2>2, <2>3 DEF MaxIsRead
<1>6. Skipped(r)'
  <2>1. ASSUME NEW i \in DOMAIN log', log'[i].thread \in Scope[r],
               ~Less(cursor[r], log'[i].id), log'[i].id \notin shown[r]
        PROVE  \E j \in DOMAIN log' :
                 Less(log'[i].id, log'[j].id) /\ (j < i \/ log'[j].thread # log'[i].thread)
    <3>1. CASE i \in DOMAIN log
      <4>1. PICK j \in DOMAIN log :
              Less(log[i].id, log[j].id) /\ (j < i \/ log[j].thread # log[i].thread)
        BY <1>3, <2>1, <3>1 DEF Reads, Skipped
      <4> QED BY <1>3, <3>1, <4>1
    <3>2. CASE i = n
      <4>1. e.id \in Ids /\ e.id # Zero
        BY AboveZero DEF Stores, Envelope, Ms
      <4>2. cursor[r] # Zero
        BY <1>3, <2>1, <3>2, <4>1, AboveZero
      <4>3. PICK j \in DOMAIN log : log[j].id = cursor[r]
        BY <4>2 DEF Reads, CursorIsRead
      <4>4. cursor[r] \in Ids /\ e.id # cursor[r]
        BY <4>3, ReaderTyped DEF Stores
      <4>5. Less(e.id, cursor[r])
        BY <1>3, <2>1, <3>2, <4>1, <4>4, LessIsAnOrder
      <4> QED BY <1>3, <3>2, <4>3, <4>5
    <3> QED BY <1>3, <3>1, <3>2
  <2> QED BY <2>1 DEF Skipped
<1> QED BY <1>4, <1>5, <1>6 DEF Reads

LEMMA ReadsBegun ==
  ASSUME Kept, NEW r \in Readers, Reads(r), Begin(r)
  PROVE  Reads(r)'
<1>1. UNCHANGED <<log, cursor, shown>>
  BY DEF Begin
<1>2. PICK s \in PollStates :
        /\ poll' = [poll EXCEPT ![r] = s] /\ s.pc = "read" /\ s.max = Zero /\ s.fresh = {}
        /\ \A t : t \in Range(s.todo) <=> t \in Opened /\ t \in Scope[r]
  BY BeginReads
<1>3. poll'[r] = s
  BY <1>2, ReaderTyped
<1>4. CursorIsFound(r)'
  <2>1. CASE cursor[r] = Zero
    BY <1>1, <2>1 DEF CursorIsFound
  <2>2. CASE cursor[r] # Zero
    <3>1. PICK j \in DOMAIN log : log[j].id = cursor[r] /\ log[j].thread \in Scope[r]
      BY <2>2 DEF Reads, CursorIsRead
    <3>2. log[j].thread \in Range(s.todo)
      BY <1>2, <3>1 DEF Kept, LogIsOpen
    <3> QED BY <1>1, <1>3, <3>1, <3>2 DEF CursorIsFound
  <2> QED BY <2>1, <2>2
<1>5. FreshIsNew(r)' /\ MaxIsRead(r)' /\ ReadsScope(r)'
  BY <1>2, <1>3 DEF FreshIsNew, MaxIsRead, ReadsScope
<1>6. ShownIsPassed(r)' /\ CursorIsRead(r)' /\ Skipped(r)'
  BY <1>1 DEF Reads, ShownIsPassed, CursorIsRead, Skipped
<1> QED BY <1>4, <1>5, <1>6 DEF Reads

LEMMA ReadsCollected ==
  ASSUME Kept, NEW r \in Readers, Reads(r), Collect(r)
  PROVE  Reads(r)'
<1>1. UNCHANGED <<log, cursor, shown>>
  BY DEF Collect
<1>2. PICK s \in PollStates, t \in Threads :
        /\ poll' = [poll EXCEPT ![r] = s] /\ s.pc = "read"
        /\ t = Head(poll[r].todo) /\ s.todo = Tail(poll[r].todo) /\ poll[r].todo # <<>>
        /\ s.max = poll[r].max \/ \E i \in InThread(t) : s.max = log[i].id
        /\ ~Less(s.max, poll[r].max) /\ \A i \in InThread(t) : ~Less(s.max, log[i].id)
        /\ \A id : id \in s.fresh <=>
             id \in poll[r].fresh \/ \E i \in InThread(t) : id = log[i].id /\ Less(cursor[r], id)
  BY CollectReads
<1>3. poll'[r] = s
  BY <1>2, ReaderTyped
<1>4. /\ cursor[r] \in Ids /\ s.max \in Ids /\ poll[r].max \in Ids /\ poll[r].fresh \in SUBSET Ids
      /\ \A i \in DOMAIN log : log[i].id \in Ids
  BY ReaderTyped, LogHolds DEF Kept, ConversationTypeOK, PollStates
<1>5. /\ t \in Range(poll[r].todo) /\ Range(s.todo) \subseteq Range(poll[r].todo)
      /\ \A u \in Range(poll[r].todo) : u = t \/ u \in Range(s.todo)
  BY <1>2, HeadAndTail, ReaderTyped
<1>6. FreshIsNew(r)'
  <2>1. ASSUME NEW id \in s.fresh  PROVE Less(cursor[r], id) /\ ~Less(s.max, id)
    <3>1. CASE id \in poll[r].fresh
      <4>1. Less(cursor[r], id) /\ ~Less(poll[r].max, id) /\ id \in Ids
        BY <1>4, <3>1 DEF Reads, FreshIsNew
      <4> QED BY <1>2, <1>4, <4>1, LessIsAnOrder
    <3>2. CASE id \notin poll[r].fresh
      BY <1>2, <3>2
    <3> QED BY <3>1, <3>2
  <2> QED BY <1>1, <1>3, <2>1 DEF FreshIsNew
<1>7. CursorIsFound(r)'
  <2>1. SUFFICES ASSUME r \notin Flaky, cursor[r] # Zero
        PROVE  \/ ~Less(s.max, cursor[r])
               \/ \E j \in DOMAIN log : log[j].id = cursor[r] /\ log[j].thread \in Range(s.todo)
    BY <1>1, <1>3 DEF CursorIsFound
  <2>2. CASE ~Less(poll[r].max, cursor[r])
    BY <1>2, <1>4, <2>2, LessIsAnOrder
  <2>3. CASE Less(poll[r].max, cursor[r])
    <3>1. PICK j \in DOMAIN log : log[j].id = cursor[r] /\ log[j].thread \in Range(poll[r].todo)
      BY <2>1, <2>3 DEF Reads, CursorIsFound, Collect
    <3>2. CASE log[j].thread = t
      BY <1>2, <3>1, <3>2 DEF InThread
    <3>3. CASE log[j].thread # t
      BY <1>5, <3>1, <3>3
    <3> QED BY <3>2, <3>3
  <2> QED BY <2>2, <2>3
<1>8. MaxIsRead(r)'
  <2>1. t \in Scope[r]
    BY <1>5 DEF Reads, ReadsScope
  <2>2. CASE s.max = poll[r].max
    <3>1. SUFFICES ASSUME poll[r].max # Zero  PROVE MaxIsRead(r)'
      BY <1>3, <2>2 DEF MaxIsRead
    <3>2. PICK j \in DOMAIN log :
            /\ log[j].id = poll[r].max /\ log[j].thread \in Scope[r]
            /\ \A i \in DOMAIN log :
                 i <= j /\ log[i].thread = log[j].thread /\ Less(cursor[r], log[i].id)
                 => log[i].id \in poll[r].fresh
      BY <3>1 DEF Reads, MaxIsRead
    <3>3. \A id \in poll[r].fresh : id \in s.fresh
      BY <1>2
    <3> QED BY <1>1, <1>3, <2>2, <3>2, <3>3 DEF MaxIsRead
  <2>3. CASE \E i \in InThread(t) : s.max = log[i].id
    <3>1. PICK j \in DOMAIN log : log[j].thread = t /\ s.max = log[j].id
      BY <2>3 DEF InThread
    <3>2. \A i \in DOMAIN log : log[i].thread = t /\ Less(cursor[r], log[i].id) => log[i].id \in s.fresh
      BY <1>2 DEF InThread
    <3> QED BY <1>1, <1>3, <2>1, <3>1, <3>2 DEF MaxIsRead
  <2> QED BY <1>2, <2>2, <2>3
<1>9. ReadsScope(r)'
  BY <1>3, <1>5 DEF Reads, ReadsScope
<1>10. ShownIsPassed(r)' /\ CursorIsRead(r)' /\ Skipped(r)'
  BY <1>1 DEF Reads, ShownIsPassed, CursorIsRead, Skipped
<1> QED BY <1>6, <1>7, <1>8, <1>9, <1>10 DEF Reads

\* A thread is passed over: what was gathered stays as it was.
LEMMA ReadsPassed ==
  ASSUME Kept, NEW r \in Readers, Reads(r), CollectFails(r)
  PROVE  Reads(r)'
<1>1. UNCHANGED <<log, cursor, shown>>
  BY DEF CollectFails
<1>2. PICK s \in PollStates :
        /\ poll' = [poll EXCEPT ![r] = s] /\ s.pc = "read" /\ r \in Flaky
        /\ poll[r].todo # <<>> /\ s.todo = Tail(poll[r].todo)
        /\ s.max = poll[r].max /\ s.fresh = poll[r].fresh
  BY CollectFailsReads
<1>3. poll'[r] = s
  BY <1>2, ReaderTyped
<1>4. Range(s.todo) \subseteq Range(poll[r].todo)
  BY <1>2, HeadAndTail, ReaderTyped
<1>5. ReadsScope(r)'
  BY <1>3, <1>4 DEF Reads, ReadsScope
<1>6. FreshIsNew(r)' /\ MaxIsRead(r)'
  BY <1>1, <1>2, <1>3 DEF Reads, FreshIsNew, MaxIsRead
<1>7. CursorIsFound(r)'
  BY <1>2 DEF CursorIsFound
<1>8. ShownIsPassed(r)' /\ CursorIsRead(r)' /\ Skipped(r)'
  BY <1>1 DEF Reads, ShownIsPassed, CursorIsRead, Skipped
<1> QED BY <1>5, <1>6, <1>7, <1>8 DEF Reads

\* A poll that is over: nothing is gathered, and nothing is left to be read.
LEMMA PollOver ==
  ASSUME Kept, NEW r \in Readers, poll' = [poll EXCEPT ![r] = NoPoll]
  PROVE  FreshIsNew(r)' /\ CursorIsFound(r)' /\ MaxIsRead(r)' /\ ReadsScope(r)'
<1>1. poll'[r] = NoPoll
  BY ReaderTyped
<1>2. poll'[r].pc = "idle" /\ poll'[r].max = Zero /\ poll'[r].fresh = {} /\ Range(poll'[r].todo) = {}
  BY <1>1 DEF NoPoll, Range
<1> QED BY <1>2 DEF FreshIsNew, CursorIsFound, MaxIsRead, ReadsScope

LEMMA ReadsAgain ==
  ASSUME Kept, NEW r \in Readers, Reads(r), Again(r)
  PROVE  Reads(r)'
<1>1. UNCHANGED <<log, cursor, shown>> /\ poll' = [poll EXCEPT ![r] = NoPoll]
  BY DEF Again
<1>2. ShownIsPassed(r)' /\ CursorIsRead(r)' /\ Skipped(r)'
  BY <1>1 DEF Reads, ShownIsPassed, CursorIsRead, Skipped
<1> QED BY <1>1, <1>2, PollOver DEF Reads

\* The answer: a thread of the largest id was read as a whole, and the cursor was
\* found again on the way.
LEMMA ReadsAnswered ==
  ASSUME Kept, NEW r \in Readers, Reads(r), Answer(r)
  PROVE  Reads(r)'
<1>1. PICK old, c : old = poll[r] /\ c = cursor[r]
  OBVIOUS
<1>2. /\ old.pc = "read" /\ Range(old.todo) = {} /\ UNCHANGED log
      /\ old.max \in Ids /\ old.fresh \in SUBSET Ids /\ c \in Ids /\ shown[r] \in SUBSET Ids
  BY <1>1, ReaderTyped DEF Answer, Range
<1>3. /\ shown'[r] = shown[r] \cup old.fresh
      /\ cursor'[r] = IF old.max = Zero THEN c ELSE old.max
  BY <1>1 DEF Answer, NextCursor, Kept, ConversationTypeOK
<1>4. \A id \in old.fresh : Less(c, id) /\ ~Less(old.max, id)
  BY <1>1 DEF Reads, FreshIsNew
<1>5. \A i \in DOMAIN log : log[i].id \in Ids /\ i \in Nat
  BY LogHolds DEF Kept, ConversationTypeOK
<1>6. CASE old.max = Zero
  <2>1. old.fresh = {}
    <3>1. ASSUME NEW id \in old.fresh  PROVE FALSE
      <4>1. id = Zero /\ Less(c, id)
        BY <1>2, <1>4, <1>6, <3>1, AboveZero
      <4> QED BY <1>2, <4>1, AboveZero
    <3> QED BY <3>1
  <2>2. shown'[r] = shown[r] /\ cursor'[r] = cursor[r]
    BY <1>1, <1>3, <1>6, <2>1
  <2>3. ShownIsPassed(r)' /\ CursorIsRead(r)' /\ Skipped(r)'
    BY <1>2, <2>2 DEF Reads, ShownIsPassed, CursorIsRead, Skipped
  <2> QED BY <2>3, PollOver DEF Answer, Reads
<1>7. CASE old.max # Zero
  <2>1. cursor'[r] = old.max
    BY <1>3, <1>7
  <2>2. PICK j \in DOMAIN log :
          /\ log[j].id = old.max /\ log[j].thread \in Scope[r]
          /\ \A i \in DOMAIN log :
               i <= j /\ log[i].thread = log[j].thread /\ Less(c, log[i].id)
               => log[i].id \in old.fresh
    BY <1>1, <1>7 DEF Reads, MaxIsRead
  <2>3. ShownIsPassed(r)'
    <3>1. SUFFICES ASSUME r \notin Flaky, NEW id \in shown[r] \cup old.fresh
          PROVE  ~Less(old.max, id)
      BY <1>3, <2>1 DEF ShownIsPassed
    <3>2. CASE id \in old.fresh
      BY <1>4, <3>2
    <3>3. CASE id \in shown[r]
      <4>1. id \in Ids /\ ~Less(c, id)
        BY <1>1, <1>2, <3>1, <3>3 DEF Reads, ShownIsPassed
      <4>2. c = Zero \/ ~Less(old.max, c)
        BY <1>1, <1>2, <3>1 DEF Reads, CursorIsFound
      <4>3. CASE c = Zero
        BY <1>2, <4>1, <4>3, AboveZero
      <4>4. CASE ~Less(old.max, c)
        BY <1>2, <4>1, <4>4, LessIsAnOrder
      <4> QED BY <4>2, <4>3, <4>4
    <3> QED BY <3>2, <3>3
  <2>4. CursorIsRead(r)'
    BY <1>2, <2>1, <2>2 DEF CursorIsRead
  <2>5. Skipped(r)'
    <3>1. SUFFICES ASSUME NEW i \in DOMAIN log, log[i].thread \in Scope[r],
                          ~Less(old.max, log[i].id), log[i].id \notin shown[r],
                          log[i].id \notin old.fresh
          PROVE  \E k \in DOMAIN log :
                   Less(log[i].id, log[k].id) /\ (k < i \/ log[k].thread # log[i].thread)
      BY <1>2, <1>3, <2>1 DEF Skipped
    <3>2. CASE ~Less(c, log[i].id)
      BY <1>1, <3>1, <3>2 DEF Reads, Skipped
    <3>3. CASE Less(c, log[i].id)
      <4>1. ~(i <= j) \/ log[i].thread # log[j].thread
        BY <2>2, <3>1, <3>3
      <4>2. i # j /\ (j < i \/ log[j].thread # log[i].thread)
        BY <1>5, <4>1
      <4>3. log[i].id # old.max
        BY <2>2, <3>1, <4>2 DEF Kept, IdsAreUnique
      <4>4. Less(log[i].id, log[j].id)
        BY <1>2, <1>5, <2>2, <3>1, <4>3, LessIsAnOrder
      <4> QED BY <4>2, <4>4
    <3> QED BY <3>2, <3>3
  <2> QED BY <2>3, <2>4, <2>5, PollOver DEF Answer, Reads
<1> QED BY <1>6, <1>7

LEMMA ReadersStart ==
  ASSUME ConversationInit
  PROVE  ReadersHold
<1>1. ASSUME NEW r \in Readers  PROVE Reads(r)
  <2>1. cursor[r] = Zero /\ shown[r] = {} /\ poll[r] = NoPoll /\ DOMAIN log = {}
    BY DEF ConversationInit
  <2>2. poll[r].pc = "idle" /\ poll[r].max = Zero /\ poll[r].fresh = {} /\ Range(poll[r].todo) = {}
    BY <2>1 DEF NoPoll, Range
  <2> QED BY <2>1, <2>2 DEF Reads, FreshIsNew, ShownIsPassed, CursorIsRead, CursorIsFound,
                            MaxIsRead, ReadsScope, Skipped
<1> QED BY <1>1 DEF ReadersHold

LEMMA ReadersStep ==
  ASSUME Kept, ReadersHold, [ConversationNext]_conversation
  PROVE  ReadersHold'
<1>1. SUFFICES ASSUME NEW q \in Readers  PROVE Reads(q)'
  BY DEF ReadersHold
<1>2. Reads(q)
  BY DEF ReadersHold
<1>3. CASE UNCHANGED <<log, cursor, poll, shown>>
  BY <1>2, <1>3, ReadsFramed
<1>4. ASSUME NEW e, Stores(e), UNCHANGED <<cursor, poll, shown>>  PROVE Reads(q)'
  BY <1>2, <1>4, ReadsStored
<1>5. ASSUME NEW t \in Threads, NEW kind \in {"ask", "human"}, NEW ms \in 1..MaxNow,
             Arrive(t, kind, ms)
      PROVE  Reads(q)'
  <2>1. PICK e : Stores(e)
    BY <1>5, ArriveStores
  <2> QED BY <1>4, <1>5, <2>1 DEF Arrive
<1>6. ASSUME NEW a \in Agents, Act(a)  PROVE Reads(q)'
  BY <1>3, <1>4, <1>6, ActsMove DEF ActMoves
<1>7. ASSUME NEW r \in Readers, Read(r)  PROVE Reads(q)'
  <2>1. CASE q = r
    BY <1>2, <1>7, <2>1, ReadsBegun, ReadsCollected, ReadsPassed, ReadsAnswered, ReadsAgain DEF Read
  <2>2. CASE q # r
    <3>1. UNCHANGED log
      BY <1>7 DEF Read, Begin, Collect, CollectFails, Answer, Again
    <3>2. DOMAIN poll = Readers /\ DOMAIN cursor = Readers /\ DOMAIN shown = Readers
      BY DEF Kept, ConversationTypeOK
    <3>3. poll'[q] = poll[q] /\ cursor'[q] = cursor[q] /\ shown'[q] = shown[q]
      BY <1>7, <2>2, <3>2 DEF Read, Begin, Collect, CollectFails, Answer, Again
    <3> QED BY <1>2, <3>1, <3>3, ReadsFramed
  <2> QED BY <2>1, <2>2
<1>8. CASE Tick \/ \E f \in Followers : FollowStep(f)
  BY <1>3, <1>8 DEF Tick, FollowStep, List, Follow, GoLive
<1>9. CASE UNCHANGED conversation
  BY <1>3, <1>9 DEF conversation
<1> QED BY <1>5, <1>6, <1>7, <1>8, <1>9 DEF ConversationNext

LEMMA AlwaysRead == ConversationSpec => []ReadersHold
<1>1. ConversationInit => ReadersHold
  BY ReadersStart
<1>2. Kept /\ ReadersHold /\ [ConversationNext]_conversation => ReadersHold'
  BY ReadersStep
<1> QED BY <1>1, <1>2, AlwaysKept, PTL DEF ConversationSpec

\* A caller that passes on its last next_cursor is shown no envelope twice: what is
\* gathered is newer than the cursor, and the cursor has passed what was shown,
\* because every call finds the envelope at which it stands again.
THEOREM ShownOnce == ConversationSpec => []NothingTwice
<1>1. ReadersHold => NothingTwice
  <2>1. SUFFICES ASSUME ReadersHold, NEW r \in Readers \ Flaky, NEW id \in poll[r].fresh \cap shown[r]
        PROVE  FALSE
    BY DEF NothingTwice
  <2>2. Less(cursor[r], id) /\ ~Less(cursor[r], id)
    BY <2>1 DEF ReadersHold, Reads, FreshIsNew, ShownIsPassed
  <2> QED BY <2>2
<1> QED BY <1>1, AlwaysRead, PTL

\* An envelope that the cursor has passed unseen was stored after a larger id, or a
\* larger id of another thread was read before it: whatever was stored in a thread
\* before the id at which the cursor stands was gathered with it.
THEOREM SkippedWasLate == ConversationSpec => []SkippedIsLate
<1>1. ReadersHold => SkippedIsLate
  BY DEF ReadersHold, Reads, Skipped, SkippedIsLate
<1> QED BY <1>1, AlwaysRead, PTL

\* The cursor of a caller whose threads can all be read never goes back: a call
\* begins with the threads of all that is stored, so it comes to the envelope at
\* which the cursor stands, and takes no smaller id for the largest.
THEOREM CursorsStayAhead == ConversationSpec => CursorStaysAhead
<1>1. ASSUME Kept, ReadersHold, ConversationNext, NEW r \in Readers \ Flaky
      PROVE  ~Less(cursor'[r], cursor[r])
  <2>1. cursor \in [Readers -> Ids] /\ cursor[r] \in Ids /\ poll[r].max \in Ids
    BY <1>1, ReaderTyped DEF Kept, ConversationTypeOK
  <2>2. CASE cursor'[r] = cursor[r]
    BY <2>1, <2>2, LessIsAnOrder
  <2>3. CASE cursor'[r] # cursor[r]
    <3>1. Answer(r)
      <4>1. ASSUME NEW q \in Readers, Read(q)  PROVE Answer(r)
        <5>1. ~(UNCHANGED cursor)
          BY <2>3
        <5>2. Answer(q)
          BY <4>1, <5>1 DEF Read, Begin, Collect, CollectFails, Again
        <5> QED BY <2>1, <2>3, <5>2 DEF Answer
      <4>2. ASSUME NEW a \in Agents, Act(a)  PROVE UNCHANGED cursor
        BY <4>2 DEF Act, Resolve, StartFind, OpenThread, Find, Found, Send, Turn
      <4>3. ASSUME NEW f \in Followers, FollowStep(f)  PROVE UNCHANGED cursor
        BY <4>3 DEF FollowStep, List, Follow, GoLive
      <4> QED BY <1>1, <2>3, <4>1, <4>2, <4>3 DEF ConversationNext, Tick, Arrive
    <3>2. cursor'[r] = poll[r].max /\ poll[r].pc = "read" /\ Range(poll[r].todo) = {}
      BY <2>1, <2>3, <3>1 DEF Answer, NextCursor, Range
    <3>3. cursor[r] = Zero \/ ~Less(poll[r].max, cursor[r])
      BY <1>1, <3>2 DEF ReadersHold, Reads, CursorIsFound
    <3> QED BY <2>1, <3>2, <3>3, AboveZero
  <2> QED BY <2>2, <2>3
<1>2. Kept /\ ReadersHold /\ [ConversationNext]_conversation =>
        [\A r \in Readers \ Flaky : ~Less(cursor'[r], cursor[r])]_conversation
  BY <1>1
<1> QED BY <1>2, AlwaysKept, AlwaysRead, PTL DEF ConversationSpec, CursorStaysAhead

-----------------------------------------------------------------------------
(* The tool message: what the user is made to answer.                      *)

\* An ask in the thread t that sorts after every answer of a there.
AsksAnew(a, t, k) ==
  /\ IsAsk(log[k]) /\ log[k].thread = t
  /\ \A i \in DOMAIN log :
       log[i].by = a /\ log[i].kind = "human" /\ log[i].thread = t => Before(i, k)

\* A tool that has found an ask, or is about to answer it, has not answered it yet:
\* only its own envelopes could, and it is not through.
Answering(a) == (agent[a].pc = "find" /\ agent[a].best > 0) \/ agent[a].pc = "human"
HasAsk(a) == \E k \in DOMAIN log : AsksAnew(a, agent[a].thread, k)
AskIsOpen == \A a \in Tools : Answering(a) => HasAsk(a)

AnswersHold == AskIsOpen /\ EachAnswerHasItsAsk

\* Storing leaves the order of what was stored as it was.
LEMMA StoredOrder ==
  ASSUME Kept, NEW e, Stores(e)
  PROVE  /\ DOMAIN log' = DOMAIN log \cup {Len(log) + 1} /\ log'[Len(log) + 1] = e
         /\ \A i \in DOMAIN log : log'[i] = log[i] /\ i \in Nat /\ 1 <= i /\ i < Len(log) + 1
         /\ \A i, j \in DOMAIN log : Before(i, j)' <=> Before(i, j)
<1>1. log \in Seq(Envelope)
  BY DEF Kept, ConversationTypeOK
<1>2. /\ DOMAIN log' = DOMAIN log \cup {Len(log) + 1} /\ log'[Len(log) + 1] = e
      /\ \A i \in DOMAIN log : log'[i] = log[i] /\ i < Len(log) + 1
  BY <1>1, AppendedLog DEF Stores
<1>3. \A i \in DOMAIN log : i \in Nat /\ 1 <= i
  BY <1>1
<1>4. \A i \in DOMAIN log : LogMs'[i] = LogMs[i]
  BY <1>2 DEF LogMs, Ms
<1>5. \A i, j \in DOMAIN log : Before(i, j)' <=> Before(i, j)
  BY <1>4 DEF Before, Earlier
<1> QED BY <1>2, <1>3, <1>5

\* An envelope that a has not sent leaves a's ask unanswered.
LEMMA OthersLeaveTheAsk ==
  ASSUME Kept, NEW a, NEW t, NEW k \in DOMAIN log, AsksAnew(a, t, k), NEW e, Stores(e), e.by # a
  PROVE  k \in DOMAIN log' /\ AsksAnew(a, t, k)'
<1>1. IsAsk(log'[k]) /\ log'[k].thread = t /\ k \in DOMAIN log'
  BY StoredOrder DEF AsksAnew
<1>2. ASSUME NEW i \in DOMAIN log', log'[i].by = a, log'[i].kind = "human", log'[i].thread = t
      PROVE  Before(i, k)'
  <2>1. i \in DOMAIN log /\ log'[i] = log[i]
    BY <1>2, StoredOrder
  <2>2. Before(i, k)
    BY <1>2, <2>1 DEF AsksAnew
  <2> QED BY <2>1, <2>2, StoredOrder
<1> QED BY <1>1, <1>2 DEF AsksAnew

\* An envelope that is no tool's answer asks for nothing new.
LEMMA AnswersStored ==
  ASSUME Kept, EachAnswerHasItsAsk, NEW e, Stores(e),
         \A a \in Tools : e.by = a /\ e.kind = "human" =>
           \E k \in DOMAIN log : AsksAnew(a, e.thread, k)
  PROVE  EachAnswerHasItsAsk'
<1>1. PICK n : n = Len(log) + 1
  OBVIOUS
<1>2. /\ DOMAIN log' = DOMAIN log \cup {n} /\ log'[n] = e
      /\ \A i \in DOMAIN log : log'[i] = log[i] /\ i \in Nat /\ 1 <= i /\ i < n
      /\ \A i, j \in DOMAIN log : Before(i, j)' <=> Before(i, j)
  BY <1>1, StoredOrder
<1>3. n \in Nat
  BY <1>1 DEF Kept, ConversationTypeOK
<1>4. \A j \in DOMAIN log : \A k \in 1..j : k \in DOMAIN log
  BY DEF Kept, ConversationTypeOK
<1>5. SUFFICES ASSUME NEW a \in Tools, NEW i \in DOMAIN log', NEW j \in DOMAIN log', i < j,
                      log'[i].thread = log'[j].thread,
                      log'[i].by = a, log'[i].kind = "human", log'[j].by = a, log'[j].kind = "human"
               PROVE  \E k \in 1..j : IsAsk(log'[k]) /\ log'[k].thread = log'[i].thread /\ Before(i, k)'
  BY DEF EachAnswerHasItsAsk
<1>6. i \in DOMAIN log /\ log'[i] = log[i]
  BY <1>2, <1>3, <1>5
<1>7. CASE j \in DOMAIN log
  <2>1. PICK k \in 1..j : IsAsk(log[k]) /\ log[k].thread = log[i].thread /\ Before(i, k)
    BY <1>2, <1>5, <1>6, <1>7 DEF EachAnswerHasItsAsk
  <2>2. k \in DOMAIN log
    BY <1>4, <1>7
  <2> QED BY <1>2, <1>6, <2>1, <2>2
<1>8. CASE j = n
  <2>1. PICK k \in DOMAIN log : AsksAnew(a, e.thread, k)
    BY <1>2, <1>5, <1>8
  <2>2. IsAsk(log[k]) /\ log[k].thread = log[i].thread /\ Before(i, k)
    BY <1>2, <1>5, <1>6, <1>8, <2>1 DEF AsksAnew
  <2>3. k \in 1..j
    BY <1>2, <1>3, <1>8
  <2> QED BY <1>2, <1>6, <2>2, <2>3
<1> QED BY <1>2, <1>7, <1>8

\* A step that moves an agent, and the other agents not at all.
LEMMA AskFramed ==
  ASSUME Kept, AskIsOpen, NEW a \in Agents, NEW s, Moves(a, s), UNCHANGED log,
         a \in Tools /\ ((s.pc = "find" /\ s.best > 0) \/ s.pc = "human") =>
           \E k \in DOMAIN log : AsksAnew(a, s.thread, k)
  PROVE  AskIsOpen'
<1>1. agent \in [Agents -> AgentStates]
  BY DEF Kept, ConversationTypeOK, AgentStates
<1>2. \A b \in Agents : agent'[b] = IF b = a THEN s ELSE agent[b]
  BY <1>1 DEF Moves
<1>3. ASSUME NEW b \in Tools, Answering(b)'  PROVE HasAsk(b)'
  <2>1. b \in Agents
    BY DEF Agents
  <2>2. CASE b = a
    <3>1. agent'[b] = s
      BY <1>2, <2>1, <2>2
    <3>2. PICK k \in DOMAIN log : AsksAnew(a, s.thread, k)
      BY <1>3, <2>2, <3>1 DEF Answering
    <3>3. AsksAnew(a, s.thread, k)'
      BY <3>2 DEF AsksAnew, Before, Earlier, LogMs, Ms
    <3> QED BY <2>2, <3>1, <3>2, <3>3 DEF HasAsk, AsksAnew
  <2>3. CASE b # a
    <3>1. agent'[b] = agent[b]
      BY <1>2, <2>1, <2>3
    <3>2. HasAsk(b)
      BY <1>3, <3>1 DEF AskIsOpen, Answering
    <3> QED BY <3>1, <3>2 DEF HasAsk, AsksAnew, Before, Earlier, LogMs, Ms
  <2> QED BY <2>2, <2>3
<1> QED BY <1>3 DEF AskIsOpen

LEMMA FindHasAsk ==
  ASSUME Kept, AskIsOpen, NEW a \in Agents, Find(a)
  PROVE  AskIsOpen'
<1>1. PICK s : /\ Moves(a, s) /\ s.pc = "find"
               /\ \/ s.best = agent[a].best /\ s.thread = agent[a].thread
                  \/ PendingAsks(ListEnvelopes(s.thread)) # {}
  BY FindMoves
<1>2. ASSUME a \in Tools, s.best > 0  PROVE \E k \in DOMAIN log : AsksAnew(a, s.thread, k)
  <2>1. CASE s.best = agent[a].best /\ s.thread = agent[a].thread
    BY <1>2, <2>1 DEF Find, AskIsOpen, Answering, HasAsk
  <2>2. CASE PendingAsks(ListEnvelopes(s.thread)) # {}
    <3>1. PICK p : p \in PendingAsks(ListEnvelopes(s.thread))
      BY <2>2
    <3>2. PICK k \in InThread(s.thread) :
            IsAsk(log[k]) /\ \A i \in InThread(s.thread) : IsAnswer(log[i]) => Before(i, k)
      BY <3>1, PendingHolds DEF Kept, ConversationTypeOK
    <3>3. AsksAnew(a, s.thread, k)
      BY <3>2 DEF AsksAnew, InThread, IsAnswer
    <3> QED BY <3>2, <3>3 DEF InThread
  <2> QED BY <1>1, <2>1, <2>2
<1> QED BY <1>1, <1>2, AskFramed DEF Find

LEMMA FoundHasAsk ==
  ASSUME Kept, AskIsOpen, NEW a \in Agents, Found(a)
  PROVE  AskIsOpen'
<1>1. PICK s : /\ Moves(a, s)
               /\ \/ s.pc = "idle"
                  \/ /\ s.pc = "human" /\ s.thread = agent[a].thread
                     /\ agent[a].pc = "find" /\ agent[a].best > 0
  BY FoundMoves
<1>2. a \in Tools /\ ((s.pc = "find" /\ s.best > 0) \/ s.pc = "human") =>
        \E k \in DOMAIN log : AsksAnew(a, s.thread, k)
  BY <1>1 DEF AskIsOpen, Answering, HasAsk
<1> QED BY <1>1, <1>2, AskFramed DEF Found

LEMMA SendHasAsk ==
  ASSUME Kept, AnswersHold, NEW a \in Agents, Send(a)
  PROVE  AnswersHold'
<1>1. Moves(a, Idle)
  BY SendMoves
<1>2. PICK e : Stores(e) /\ e.by = a /\ e.kind = agent[a].pc /\ e.thread = agent[a].thread
  BY SendMoves
<1>3. EachAnswerHasItsAsk'
  BY <1>2, AnswersStored DEF AnswersHold, AskIsOpen, Answering, HasAsk
<1>4. \A b \in Agents : agent'[b] = IF b = a THEN Idle ELSE agent[b]
  BY <1>1 DEF Moves, Kept, ConversationTypeOK
<1>5. ASSUME NEW b \in Tools, Answering(b)'  PROVE HasAsk(b)'
  <2>1. b # a /\ agent'[b] = agent[b]
    BY <1>4, <1>5, IdleIsState DEF Agents, Answering
  <2>2. PICK k \in DOMAIN log : AsksAnew(b, agent[b].thread, k)
    BY <1>5, <2>1 DEF AnswersHold, AskIsOpen, Answering, HasAsk
  <2>3. PICK t : t = agent[b].thread
    OBVIOUS
  <2>4. k \in DOMAIN log' /\ AsksAnew(b, t, k)'
    BY <1>2, <2>1, <2>2, <2>3, OthersLeaveTheAsk
  <2> QED BY <2>1, <2>3, <2>4 DEF HasAsk, AsksAnew
<1> QED BY <1>3, <1>5 DEF AnswersHold, AskIsOpen

LEMMA ArriveHasAsk ==
  ASSUME Kept, AnswersHold, UNCHANGED agent, NEW e, Stores(e), e.by \in Peers
  PROVE  AnswersHold'
<1>1. \A a \in Tools : e.by # a
  BY ConversationAssumption
<1>2. EachAnswerHasItsAsk'
  BY <1>1, AnswersStored DEF AnswersHold
<1>3. ASSUME NEW b \in Tools, Answering(b)'  PROVE HasAsk(b)'
  <2>1. PICK k \in DOMAIN log : AsksAnew(b, agent[b].thread, k)
    BY <1>3 DEF AnswersHold, AskIsOpen, Answering, HasAsk
  <2>2. PICK t : t = agent[b].thread
    OBVIOUS
  <2>3. k \in DOMAIN log' /\ AsksAnew(b, t, k)'
    BY <1>1, <2>1, <2>2, OthersLeaveTheAsk
  <2> QED BY <2>2, <2>3 DEF HasAsk, AsksAnew
<1> QED BY <1>2, <1>3 DEF AnswersHold, AskIsOpen

LEMMA AnswersStep ==
  ASSUME Kept, AnswersHold, [ConversationNext]_conversation
  PROVE  AnswersHold'
<1>1. ASSUME UNCHANGED log  PROVE EachAnswerHasItsAsk'
  BY <1>1 DEF AnswersHold, EachAnswerHasItsAsk, Before, Earlier, LogMs, Ms
<1>2. ASSUME UNCHANGED <<log, agent>>  PROVE AnswersHold'
  <2>1. AskIsOpen'
    BY <1>2 DEF AnswersHold, AskIsOpen, Answering, HasAsk, AsksAnew, Before, Earlier, LogMs, Ms
  <2> QED BY <1>1, <1>2, <2>1 DEF AnswersHold
<1>3. ASSUME NEW t \in Threads, NEW kind \in {"ask", "human"}, NEW ms \in 1..MaxNow,
             Arrive(t, kind, ms)
      PROVE  AnswersHold'
  BY <1>3, ArriveStores, ArriveHasAsk DEF Arrive
<1>4. ASSUME NEW a \in Agents, Act(a)  PROVE AnswersHold'
  <2>1. CASE \E p \in Peers : Resolve(a, p)
    <3>1. AskIsOpen'
      BY <2>1, ResolveMoves, AskFramed DEF Resolve, AnswersHold
    <3> QED BY <1>1, <2>1, <3>1 DEF Resolve, AnswersHold
  <2>2. CASE \E p \in Peers : StartFind(a, p)
    <3>1. PICK s : Moves(a, s) /\ s.pc = "find" /\ s.best = 0
      BY <2>2, StartFindMoves
    <3>2. AskIsOpen'
      BY <2>2, <3>1, AskFramed DEF StartFind, AnswersHold
    <3> QED BY <1>1, <2>2, <3>2 DEF StartFind, AnswersHold
  <2>3. CASE OpenThread(a)
    <3>1. AskIsOpen'
      BY <2>3, OpenThreadMoves, AskFramed DEF OpenThread, AnswersHold
    <3> QED BY <1>1, <2>3, <3>1 DEF OpenThread, AnswersHold
  <2>4. CASE Find(a)
    BY <1>1, <2>4, FindHasAsk DEF Find, AnswersHold
  <2>5. CASE Found(a)
    BY <1>1, <2>5, FoundHasAsk DEF Found, AnswersHold
  <2>6. CASE Send(a)
    BY <2>6, SendHasAsk
  <2>7. CASE \E t \in Threads : Turn(a, t)
    <3>1. a \notin Tools /\ UNCHANGED log
      BY <2>7, ConversationAssumption DEF Turn
    <3>2. AskIsOpen'
      BY <2>7, <3>1, TurnMoves, AskFramed DEF AnswersHold
    <3> QED BY <1>1, <3>1, <3>2 DEF AnswersHold
  <2> QED BY <1>4, <2>1, <2>2, <2>3, <2>4, <2>5, <2>6, <2>7 DEF Act
<1>5. ASSUME NEW r \in Readers, Read(r)  PROVE AnswersHold'
  BY <1>2, <1>5 DEF Read, Begin, Collect, CollectFails, Answer, Again
<1>6. CASE Tick \/ \E f \in Followers : FollowStep(f)
  BY <1>2, <1>6 DEF Tick, FollowStep, List, Follow, GoLive
<1>7. CASE UNCHANGED conversation
  BY <1>2, <1>7 DEF conversation
<1> QED BY <1>3, <1>4, <1>5, <1>6, <1>7 DEF ConversationNext

\* Between two answers of one tool in a thread there is an ask that the first did
\* not answer, though the threads are read one by one and peers write meanwhile:
\* what the tool has found stays open until the tool itself answers.
THEOREM AnswersHaveTheirAsk == ConversationSpec => []EachAnswerHasItsAsk
<1>1. ConversationInit => AnswersHold
  <2>1. SUFFICES ASSUME ConversationInit  PROVE AnswersHold
    OBVIOUS
  <2>2. DOMAIN log = {}
    BY <2>1 DEF ConversationInit
  <2>3. \A a \in Tools : agent[a].pc = "idle"
    BY <2>1, IdleIsState DEF ConversationInit, Agents
  <2> QED BY <2>2, <2>3 DEF AnswersHold, AskIsOpen, Answering, EachAnswerHasItsAsk
<1>2. Kept /\ AnswersHold /\ [ConversationNext]_conversation => AnswersHold'
  BY AnswersStep
<1>3. AnswersHold => EachAnswerHasItsAsk
  BY DEF AnswersHold
<1> QED BY <1>1, <1>2, <1>3, AlwaysKept, PTL DEF ConversationSpec

\* Where the tools see an ask that no answer follows, the node's own count of the
\* same listing is above 0 as well, so that a turn of the session is the user's.
THEOREM PendingIsCounted == ConversationSpec => []PendingIsPending
<1>1. Kept => PendingIsPending
  <2>1. SUFFICES ASSUME Kept, NEW t \in Threads, NEW p \in PendingAsks(ListEnvelopes(t))
        PROVE  HasPendingAsk(ListEnvelopes(t))
    BY DEF PendingIsPending
  <2>2. PICK envs : envs = ListEnvelopes(t)
    OBVIOUS
  <2>3. log \in Seq(Envelope)
    BY <2>1 DEF Kept, ConversationTypeOK
  <2>4. envs \in Seq(Envelope)
    BY <2>2, <2>3, EnvelopesListed
  <2> QED BY <2>1, <2>2, <2>4, PendingCounts
<1> QED BY <1>1, AlwaysKept, PTL
=============================================================================
