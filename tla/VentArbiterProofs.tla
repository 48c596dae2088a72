------------------------- MODULE VentArbiterProofs -------------------------
(***************************************************************************)
(* What the arbiter guarantees for every set of clients and every queue    *)
(* length: its type, the safety of the accepted ventilation state, that    *)
(* every lock has a timer, and what each lock holds.                       *)
(***************************************************************************)
EXTENDS VentArbiter, SequenceTheorems, TLAPS

\* Normalisation keeps a ventilation state one, and yields one whose fan is off
\* when all its dampers are closed (ventilation.go:78-80).
LEMMA NormalisedType ==
    ASSUME NEW new \in VentState
    PROVE  /\ Normalised(new) \in VentState
           /\ \A d \in Damper : Normalised(new)[d] = new[d]
           /\ Normalised(new).Fan = "on" => new.Fan = "on" /\ ~AllClosed(new)
           /\ new.Fan = "on" /\ ~AllClosed(new) => Normalised(new).Fan = "on"
<1>1. CASE AllClosed(new)
  <2>1. Normalised(new) = [Damper1 |-> new.Damper1, Damper2 |-> new.Damper2,
                           Damper3 |-> new.Damper3, Fan |-> "off"]
    BY <1>1 DEF Normalised, VentState
  <2>2. QED
    BY <1>1, <2>1 DEF VentState, Damper
<1>2. CASE ~AllClosed(new)
  BY <1>2 DEF Normalised
<1>3. QED
  BY <1>1, <1>2

\* Queueing and dequeueing keep the request queue a sequence of requests.
LEMMA QueueType ==
    ASSUME TypeOK
    PROVE  /\ \A r \in Request : Len(newreq) < ChanCap =>
                 /\ Append(newreq, r) \in Seq(Request)
                 /\ Len(Append(newreq, r)) <= ChanCap
           /\ newreq # <<>> =>
                 /\ Head(newreq) \in Request
                 /\ Tail(newreq) \in Seq(Request)
                 /\ Len(Tail(newreq)) <= ChanCap
BY ChanAssumption DEF TypeOK

\* A request of a kind has the fields of its kind.
LEMMA RequestFields ==
    ASSUME NEW r \in Request
    PROVE  /\ r.kind = "vent" => r \in VentReq
           /\ r.kind \in {"laser", "olga"} => r \in LockReq
           /\ r.local \in BOOLEAN /\ r.client \in Sender
BY DEF Request, VentReq, LockReq

\* What the producers put into the queue is a request.
LEMMA ProducedRequests ==
    /\ \A c \in Client, want \in VentState :
          [kind |-> "vent", want |-> want, local |-> c \in Local, client |-> c]
              \in Request
    /\ \A c \in Client, lock \in BOOLEAN :
          [kind |-> "olga", lock |-> lock,
           local |-> c \in Local \union TokenHolder, client |-> c] \in Request
    /\ \A hot \in BOOLEAN :
          [kind |-> "laser", lock |-> hot, local |-> TRUE, client |-> Nobody]
              \in Request
    /\ [kind |-> "vent", want |-> AllOff, local |-> TRUE, client |-> Nobody]
           \in Request
BY DEF Request, VentReq, LockReq, Sender, AllOff, VentState, Position

\* An arbiter that has just started is of the right type.
LEMMA StartType ==
    /\ AllOff \in VentState
    /\ <<>> \in Seq(Request)
    /\ Len(<<>>) <= ChanCap
<1>1. AllOff \in VentState
  BY DEF AllOff, VentState, Position
<1>2. <<>> \in Seq(Request) /\ Len(<<>>) = 0
  OBVIOUS
<1>3. QED
  BY <1>1, <1>2, ChanAssumption

\* Publishing a request keeps the type.
LEMMA PublishType ==
    ASSUME TypeOK, NEW r \in Request, Publish(r)
    PROVE  TypeOK'
BY QueueType DEF TypeOK, Publish

\* Type correctness (the variables of goSanityCheckDamperRequests,
\* ventilation.go:85-91).
THEOREM TypeCorrect == Spec => []TypeOK
<1>1. Init => TypeOK
  BY StartType DEF Init, TypeOK
<1>2. TypeOK /\ [Next]_vars => TypeOK'
  <2> SUFFICES ASSUME TypeOK, [Next]_vars PROVE TypeOK'
    OBVIOUS
  <2>1. CASE Produce
    <3>1. ASSUME NEW c \in Client, NEW want \in VentState, SendVent(c, want)
          PROVE  TypeOK'
      BY <3>1, PublishType, ProducedRequests DEF SendVent
    <3>2. ASSUME NEW c \in Client, NEW lock \in BOOLEAN, SendOLGA(c, lock)
          PROVE  TypeOK'
      BY <3>2, PublishType, ProducedRequests DEF SendOLGA
    <3>3. ASSUME NEW hot \in BOOLEAN, LaserCard(hot) PROVE TypeOK'
      BY <3>3, PublishType, ProducedRequests DEF LaserCard
    <3>4. CASE AutoOff
      BY <3>4, PublishType, ProducedRequests DEF AutoOff
    <3>5. ASSUME NEW c \in Client, Disconnect(c) PROVE TypeOK'
      BY <3>5 DEF Disconnect, TypeOK
    <3>6. QED
      BY <2>1, <3>1, <3>2, <3>3, <3>4, <3>5 DEF Produce
  <2>2. CASE TimerFires
    BY <2>2 DEF TimerFires, TypeOK
  <2>3. CASE TakeTick
    BY <2>3 DEF TakeTick, TypeOK
  <2>4. CASE AcceptVent
    <3>1. Normalised(Head(newreq).want) \in VentState
      BY <2>4, QueueType, RequestFields, NormalisedType
         DEF AcceptVent, Next1, VentReq
    <3>2. QED
      BY <2>4, <3>1, QueueType DEF AcceptVent, Next1, TypeOK
  <2>5. CASE RefuseVent
    BY <2>5, QueueType DEF RefuseVent, Next1, Reply, TypeOK
  <2>6. CASE ChangeLock
    <3>1. Head(newreq).lock \in BOOLEAN
      BY <2>6, QueueType, RequestFields DEF ChangeLock, Next1, LockReq
    <3>2. QED
      BY <2>6, <3>1, QueueType DEF ChangeLock, Next1, Rearm, TypeOK
  <2>7. CASE RefuseLock
    BY <2>7, QueueType DEF RefuseLock, Next1, Reply, TypeOK
  <2>8. CASE Crash
    BY <2>8 DEF Crash, TypeOK
  <2>9. CASE Boot
    BY <2>9, StartType DEF Boot, TypeOK
  <2>10. CASE UNCHANGED vars
    BY <2>10 DEF vars, TypeOK
  <2>11. QED
    BY <2>1, <2>2, <2>3, <2>4, <2>5, <2>6, <2>7, <2>8, <2>9, <2>10
       DEF Next, Arbitrate
<1>3. QED
  BY <1>1, <1>2, PTL DEF Spec

-----------------------------------------------------------------------------
(* The accepted state changes in two actions only: an accepted request and *)
(* a restart.                                                              *)

LEMMA StateChanges ==
    ASSUME TypeOK, [Next]_vars
    PROVE  \/ UNCHANGED last_state
           \/ Boot
           \/ /\ AcceptVent
              /\ Head(newreq) \in VentReq
              /\ Head(newreq).want \in VentState
              /\ last_state' = Normalised(Head(newreq).want)
<1>1. CASE Produce
  BY <1>1 DEF Produce, SendVent, SendOLGA, LaserCard, AutoOff, Publish, Disconnect
<1>2. CASE AcceptVent
  BY <1>2, QueueType, RequestFields DEF AcceptVent, Next1, VentReq
<1>3. QED
  BY <1>1, <1>2 DEF Next, Arbitrate, TimerFires, TakeTick, RefuseVent,
                    ChangeLock, RefuseLock, Crash, vars

FanSafe == FanNeedsOpenDamper /\ AtMostTwoDampersWithFan

\* The fan is never asked to run against three closed dampers, nor with all three
\* dampers off closed (ventilation.go:52-57, :78): the two rules are checked one after
\* the other and together are inductive.
THEOREM FanIsSafe == Spec => []FanSafe
<1>1. Init => FanSafe
  BY DEF Init, FanSafe, FanNeedsOpenDamper, AtMostTwoDampersWithFan, AllOff
<1>2. TypeOK /\ FanSafe /\ [Next]_vars => FanSafe'
  <2> SUFFICES ASSUME TypeOK, FanSafe, [Next]_vars PROVE FanSafe'
    OBVIOUS
  <2>1. CASE UNCHANGED last_state
    BY <2>1 DEF FanSafe, FanNeedsOpenDamper, AtMostTwoDampersWithFan
  <2>2. CASE Boot
    BY <2>2 DEF Boot, AllOff, FanSafe, FanNeedsOpenDamper, AtMostTwoDampersWithFan
  <2>3. ASSUME AcceptVent, Head(newreq).want \in VentState,
               last_state' = Normalised(Head(newreq).want)
        PROVE  FanSafe'
    <3> DEFINE want == Head(newreq).want
    <3>1. ~FanForbids(last_state, want)
      BY <2>3 DEF AcceptVent, RefusedNow, Refused
    <3>2. /\ \A d \in Damper : last_state'[d] = want[d]
          /\ last_state'.Fan = "on" => want.Fan = "on" /\ ~AllClosed(want)
      BY <2>3, NormalisedType
    <3>3. QED
      BY <3>1, <3>2 DEF FanForbids, AllClosed, NoneClosed, FanSafe,
                        FanNeedsOpenDamper, AtMostTwoDampersWithFan
  <2>4. QED
    BY <2>1, <2>2, <2>3, StateChanges
<1>3. QED
  BY <1>1, <1>2, TypeCorrect, PTL DEF Spec

\* The fan is never asked to run against three closed dampers, whatever the requests
\* and their order (ventilation.go:52, :78).
THEOREM FanHasOpenDamper == Spec => []FanNeedsOpenDamper
<1>1. FanSafe => FanNeedsOpenDamper
  BY DEF FanSafe
<1>2. QED
  BY <1>1, FanIsSafe, PTL

\* ... nor with all three dampers off closed (ventilation.go:55).
THEOREM FanHasClosedDamper == Spec => []AtMostTwoDampersWithFan
<1>1. FanSafe => AtMostTwoDampersWithFan
  BY DEF FanSafe
<1>2. QED
  BY <1>1, FanIsSafe, PTL

-----------------------------------------------------------------------------
(* The locks.                                                              *)

\* A held lock has a running timer or a waiting tick (ventilation.go:125, :150,
\* :160).
THEOREM LockTimed == Spec => []LockHasTimer
<1>1. Init => LockHasTimer
  BY DEF Init, LockHasTimer
<1>2. TypeOK /\ LockHasTimer /\ [Next]_vars => LockHasTimer'
  <2> SUFFICES ASSUME TypeOK, LockHasTimer, [Next]_vars PROVE LockHasTimer'
    OBVIOUS
  <2>1. CASE Produce
    BY <2>1 DEF Produce, SendVent, SendOLGA, LaserCard, AutoOff, Publish,
                Disconnect, LockHasTimer
  <2>2. CASE TimerFires \/ TakeTick
    BY <2>2 DEF TimerFires, TakeTick, LockHasTimer
  <2>3. CASE AcceptVent
    BY <2>3 DEF AcceptVent, Next1, LockHasTimer
  <2>4. CASE RefuseVent \/ RefuseLock
    BY <2>4 DEF RefuseVent, RefuseLock, Next1, Reply, LockHasTimer
  <2>5. CASE ChangeLock
    <3>1. Head(newreq).lock \in BOOLEAN
      BY <2>5, QueueType, RequestFields DEF ChangeLock, Next1, LockReq
    <3>2. CASE Head(newreq).lock = TRUE
      BY <2>5, <3>2 DEF ChangeLock, Next1, Rearm, LockHasTimer
    <3>3. CASE Head(newreq).lock = FALSE
      BY <2>5, <3>3 DEF ChangeLock, Next1, Rearm, LockHasTimer
    <3>4. QED
      BY <3>1, <3>2, <3>3
  <2>6. CASE Crash \/ Boot
    BY <2>6 DEF Crash, Boot, LockHasTimer
  <2>7. CASE UNCHANGED vars
    BY <2>7 DEF vars, LockHasTimer
  <2>8. QED
    BY <2>1, <2>2, <2>3, <2>4, <2>5, <2>6, <2>7 DEF Next, Arbitrate
<1>3. QED
  BY <1>1, <1>2, TypeCorrect, PTL DEF Spec

\* While the laser lock is held no step of the running process closes the laser
\* damper of a ventilated cutter or stops its fan (ventilation.go:58-68, :78).
THEOREM LaserStaysVentilated == Spec => LaserVentilationHeld
<1>1. TypeOK /\ [Next]_vars =>
        [/\ proc' = "up"
         /\ proc = "up"
         /\ LaserLock
         /\ last_state.Fan = "on"
         /\ last_state.Damper1 # "closed"
         => last_state'.Fan = "on" /\ last_state'.Damper1 # "closed"]_vars
  <2> SUFFICES ASSUME TypeOK, [Next]_vars, proc = "up", LaserLock,
                      last_state.Fan = "on", last_state.Damper1 # "closed"
               PROVE  last_state'.Fan = "on" /\ last_state'.Damper1 # "closed"
    OBVIOUS
  <2>1. CASE UNCHANGED last_state
    BY <2>1
  <2>2. CASE Boot
    BY <2>2 DEF Boot
  <2>3. ASSUME AcceptVent, Head(newreq).want \in VentState,
               last_state' = Normalised(Head(newreq).want)
        PROVE  last_state'.Fan = "on" /\ last_state'.Damper1 # "closed"
    <3> DEFINE want == Head(newreq).want
    <3>1. ~LaserForbids(last_state, want)
      BY <2>3 DEF AcceptVent, RefusedNow, Refused
    <3>2. want.Damper1 # "closed" /\ want.Fan = "on"
      BY <2>3, <3>1 DEF LaserForbids, Closing, StoppingFan, VentState
    <3>3. last_state'.Damper1 = want.Damper1 /\ ~AllClosed(want)
      BY <2>3, <3>2, NormalisedType DEF Damper, AllClosed
    <3>4. QED
      BY <2>3, <3>2, <3>3, NormalisedType
  <2>4. QED
    BY <2>1, <2>2, <2>3, StateChanges
<1>2. QED
  BY <1>1, TypeCorrect, PTL DEF Spec, LaserVentilationHeld

\* While the laser lock is held no damper of the OLGA room becomes fully open
\* (ventilation.go:62).
THEOREM OlgaStaysThrottled == Spec => LaserKeepsOlgaThrottled
<1>1. TypeOK /\ [Next]_vars =>
        [/\ proc' = "up"
         /\ proc = "up"
         /\ LaserLock
         => \A d \in {"Damper2", "Damper3"} :
                last_state[d] # "open" => last_state'[d] # "open"]_vars
  <2> SUFFICES ASSUME TypeOK, [Next]_vars, proc = "up", LaserLock,
                      NEW d \in {"Damper2", "Damper3"}, last_state[d] # "open"
               PROVE  last_state'[d] # "open"
    OBVIOUS
  <2>1. CASE UNCHANGED last_state
    BY <2>1
  <2>2. CASE Boot
    BY <2>2 DEF Boot
  <2>3. ASSUME AcceptVent, Head(newreq).want \in VentState,
               last_state' = Normalised(Head(newreq).want)
        PROVE  last_state'[d] # "open"
    <3> DEFINE want == Head(newreq).want
    <3>1. ~FullyOpening(last_state, want, d)
      BY <2>3 DEF AcceptVent, RefusedNow, Refused, LaserForbids
    <3>2. last_state'[d] = want[d]
      BY <2>3, NormalisedType DEF Damper
    <3>3. QED
      BY <3>1, <3>2 DEF FullyOpening
  <2>4. QED
    BY <2>1, <2>2, <2>3, StateChanges
<1>2. QED
  BY <1>1, TypeCorrect, PTL DEF Spec, LaserKeepsOlgaThrottled

\* While OLGA holds its lock no untrusted request takes ventilation from it
\* (ventilation.go:69-76): no such request closes an OLGA damper, stops the fan of
\* a fully open one or opens the laser damper.
THEOREM OlgaStaysVentilated == Spec => OlgaVentilationHeld
<1> DEFINE Remote == newreq # <<>> /\ newreq' = Tail(newreq) /\ ~Head(newreq).local
           Held == /\ \A d \in {"Damper2", "Damper3"} :
                         last_state[d] # "closed" =>
                             /\ last_state'[d] # "closed"
                             /\ last_state[d] = "open" /\ last_state.Fan = "on"
                                    => last_state'.Fan = "on"
                   /\ last_state.Damper1 = "closed" => last_state'.Damper1 = "closed"
<1>1. TypeOK /\ [Next]_vars =>
        [/\ proc' = "up" /\ proc = "up" /\ OLGALock /\ Remote => Held]_vars
  <2> SUFFICES ASSUME TypeOK, [Next]_vars, proc = "up", OLGALock, Remote
               PROVE  Held
    OBVIOUS
  <2>1. CASE UNCHANGED last_state
    BY <2>1
  <2>2. CASE Boot
    BY <2>2 DEF Boot
  <2>3. ASSUME AcceptVent, Head(newreq).want \in VentState,
               last_state' = Normalised(Head(newreq).want)
        PROVE  Held
    <3> DEFINE want == Head(newreq).want
    <3>1. ~OlgaForbids(last_state, want)
      BY <2>3 DEF AcceptVent, RefusedNow, Refused
    <3>2. \A d \in Damper : last_state'[d] = want[d]
      BY <2>3, NormalisedType
    <3>3. ASSUME NEW d \in {"Damper2", "Damper3"}, last_state[d] # "closed"
          PROVE  last_state'[d] # "closed"
      BY <3>1, <3>2, <3>3 DEF OlgaForbids, Closing, Damper
    <3>4. ASSUME NEW d \in {"Damper2", "Damper3"},
                 last_state[d] = "open", last_state.Fan = "on"
          PROVE  last_state'.Fan = "on"
      <4>1. want.Fan = "on"
        BY <2>3, <3>1, <3>4 DEF OlgaForbids, StoppingFan, VentState
      <4>2. ~AllClosed(want)
        BY <3>2, <3>3, <3>4 DEF AllClosed, Damper
      <4>3. QED
        BY <2>3, <4>1, <4>2, NormalisedType
    <3>5. last_state.Damper1 = "closed" => last_state'.Damper1 = "closed"
      BY <3>1, <3>2 DEF OlgaForbids, OpeningLaser, Damper
    <3>6. QED
      BY <3>3, <3>4, <3>5
  <2>4. QED
    BY <2>1, <2>2, <2>3, StateChanges
<1>2. QED
  BY <1>1, TypeCorrect, PTL DEF Spec, OlgaVentilationHeld
=============================================================================
