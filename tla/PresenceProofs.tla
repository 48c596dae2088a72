--------------------------- MODULE PresenceProofs ---------------------------
(***************************************************************************)
(* Proofs about Presence, for every set of clients, every queue and every  *)
(* number of presence messages: it implements VentArbiter, and so inherits *)
(* what is proved of that, keeps to its types, and asks for everything to  *)
(* be off at most once for each departure.                                 *)
(***************************************************************************)
EXTENDS Presence, TLAPS

-----------------------------------------------------------------------------
(* The refinement.  The arbiter's variables are the same in both; what is  *)
(* hidden is the bridge, so every step of it but AskOff and LaserCard is a *)
(* stutter of VentArbiter.                                                 *)

\* The clients of the instance ask for states VentArbiter knows.
LEMMA ClientRefines == ASSUME ClientActs PROVE A!Produce
  BY WantAssumption DEF ClientActs, A!Produce

\* The request the watcher makes is the AutoOff of VentArbiter (mqttventilation.go:52).
LEMMA AskRefines == ASSUME AskOff PROVE A!AutoOff
  BY DEF AskOff, OffRequest, A!AutoOff

\* Every step of the composition is a step of VentArbiter or leaves its variables alone.
LEMMA StepRefines == ASSUME [Next]_vars PROVE [A!Next]_(A!vars)
  <1>1. CASE ClientActs
    BY <1>1, ClientRefines DEF A!Next
  <1>2. CASE \E hot \in BOOLEAN : LaserCard(hot)
    BY <1>2 DEF LaserCard, A!Next, A!Produce
  <1>3. CASE AskOff
    BY <1>3, AskRefines DEF A!Next, A!Produce
  <1>4. CASE Arbitrate
    BY <1>4 DEF Arbitrate, A!Arbitrate, A!Next
  <1>5. CASE LockTimer
    BY <1>5 DEF LockTimer, A!Next
  <1>6. CASE Crash \/ Boot
    BY <1>6 DEF Crash, Boot, A!Next
  <1>7. CASE ConnectMQTTBroker \/ OffTimerFires \/ TakeOffTick
    BY <1>7 DEF ConnectMQTTBroker, OffTimerFires, TakeOffTick, arbiterVars, A!vars
  <1>8. CASE \E p \in BOOLEAN : TakePresence(p)
    BY <1>8 DEF TakePresence, arbiterVars, A!vars
  <1>9. CASE UNCHANGED vars
    BY <1>9 DEF vars, arbiterVars, A!vars
  <1>q. QED
    BY <1>1, <1>2, <1>3, <1>4, <1>5, <1>6, <1>7, <1>8, <1>9 DEF Next, Watch

\* Bridge, watcher and arbiter together do nothing that VentArbiter does not allow: what is
\* proved of VentArbiter holds with the watcher in place (mqttventilation.go:19-58).
THEOREM Implements == Spec => ArbiterSpec
  <1>1. Init => A!Init
    BY DEF Init
  <1>2. [Next]_vars => [A!Next]_(A!vars)
    BY StepRefines
  <1>q. QED
    BY <1>1, <1>2, PTL DEF Spec, ArbiterSpec, A!Spec

-----------------------------------------------------------------------------
(* The requests of the watcher.  A departure arms the timer, the timer     *)
(* leaves a tick, the tick starts one publication: what a step takes from  *)
(* one of them it adds to the next.                                        *)

WatcherType ==
    /\ off_timer \in {"armed", "stopped"}
    /\ off_tick \in BOOLEAN
    /\ watcher \in {"select", "pub"}
    /\ departures \in Nat /\ offs \in Nat

WatcherInv == WatcherType /\ OncePerDeparture

\* The steps of others leave the watcher alone; a new process starts from nothing.
LEMMA OthersKeepInv == ASSUME WatcherInv, UNCHANGED watcherVars PROVE WatcherInv'
  BY DEF WatcherInv, WatcherType, OncePerDeparture, Of, watcherVars

\* The timer of the watcher runs at most once for each time it is set.
LEMMA WatcherKeepsInv == ASSUME WatcherInv, Watch PROVE WatcherInv'
  <1> USE DEF WatcherInv, WatcherType, OncePerDeparture, Of
  <1>1. ASSUME NEW p \in BOOLEAN, TakePresence(p) PROVE WatcherInv'
    BY <1>1 DEF TakePresence, Armed, Selects
  <1>2. CASE OffTimerFires
    BY <1>2 DEF OffTimerFires, Fires
  <1>3. CASE TakeOffTick
    <2>1. Of(off_tick) = 1 /\ Of(off_tick') = 0
      BY <1>3, Zenon DEF TakeOffTick
    <2>2. Of(watcher = "pub") = 0 /\ Of(watcher' = "pub") \in {0, 1}
      BY <1>3 DEF TakeOffTick, Selects
    <2>3. off_tick' \in BOOLEAN /\ watcher' \in {"select", "pub"}
      BY <1>3 DEF TakeOffTick
    <2>4. UNCHANGED <<off_timer, departures, offs>>
      BY <1>3 DEF TakeOffTick
    <2>q. QED
      BY <2>1, <2>2, <2>3, <2>4
  <1>4. CASE AskOff
    BY <1>4 DEF AskOff
  <1>q. QED
    BY <1>1, <1>2, <1>3, <1>4 DEF Watch

LEMMA StepKeepsInv == ASSUME WatcherInv, [Next]_vars PROVE WatcherInv'
  <1>1. CASE Watch
    BY <1>1, WatcherKeepsInv
  <1>2. CASE ConnectMQTTBroker
    BY <1>2 DEF ConnectMQTTBroker, WatcherInv, WatcherType, OncePerDeparture, Of
  <1>3. CASE Boot
    <2>1. Of(off_tick') = 0
      BY <1>3, Zenon DEF Boot, Of
    <2>2. Of(watcher' = "pub") = 0 /\ Of(off_timer' = "armed") = 0
      BY <1>3 DEF Boot, Of
    <2>3. WatcherType'
      BY <1>3 DEF Boot, WatcherType
    <2>4. offs' = 0 /\ departures' = 0
      BY <1>3 DEF Boot
    <2>q. QED
      BY <2>1, <2>2, <2>3, <2>4 DEF WatcherInv, OncePerDeparture
  <1>4. CASE ClientActs \/ Arbitrate \/ LockTimer \/ Crash
    BY <1>4, OthersKeepInv DEF ClientActs, Arbitrate, LockTimer, Crash
  <1>5. CASE \E hot \in BOOLEAN : LaserCard(hot)
    BY <1>5, OthersKeepInv DEF LaserCard
  <1>6. CASE UNCHANGED vars
    BY <1>6, OthersKeepInv DEF vars
  <1>q. QED
    BY <1>1, <1>2, <1>3, <1>4, <1>5, <1>6 DEF Next

LEMMA InitWatcher == Init => WatcherInv
  <1>1. SUFFICES ASSUME Init PROVE WatcherInv
    OBVIOUS
  <1>2. Of(off_tick) = 0
    BY <1>1, Zenon DEF Init, Of
  <1>3. Of(watcher = "pub") = 0 /\ Of(off_timer = "armed") = 0
    BY <1>1 DEF Init, Of
  <1>4. WatcherType
    BY <1>1 DEF Init, WatcherType
  <1>5. offs = 0 /\ departures = 0
    BY <1>1 DEF Init
  <1>q. QED
    BY <1>2, <1>3, <1>4, <1>5 DEF WatcherInv, OncePerDeparture

\* An old timer never makes a second automatic request for a departure
\* (mqttventilation.go:43-53).
THEOREM AskedOnce == Spec => []OncePerDeparture
  <1>1. Init => WatcherInv
    BY InitWatcher
  <1>2. WatcherInv /\ [Next]_vars => WatcherInv'
    BY StepKeepsInv
  <1>3. WatcherInv => OncePerDeparture
    BY DEF WatcherInv
  <1>q. QED
    BY <1>1, <1>2, <1>3, PTL DEF Spec

-----------------------------------------------------------------------------
(* What is proved of the arbiter holds with the watcher in place.  V is    *)
(* the instance of VentArbiter that its theorems speak of; its definitions *)
(* are those of A.                                                         *)

V == INSTANCE VentArbiterProofs

LEMMA SameArbiter == A!Spec => V!Spec
  <1>1. A!Init => V!Init
    BY DEF A!Init, V!Init, A!AllOff, V!AllOff
  <1>2. \A r, c : /\ A!Publish(r) <=> V!Publish(r)
                  /\ A!Reply(c) <=> V!Reply(c)
                  /\ A!Rearm(r) <=> V!Rearm(r)
                  /\ A!Disconnect(c) <=> V!Disconnect(c)
    BY DEF A!Publish, V!Publish, A!Reply, V!Reply, A!Rearm, V!Rearm,
           A!Disconnect, V!Disconnect
  <1>3. A!VentState = V!VentState /\ A!AllOff = V!AllOff
    BY DEF A!VentState, V!VentState, A!Position, V!Position, A!AllOff, V!AllOff
  <1>4. A!Produce => V!Produce
    BY <1>2, <1>3
       DEF A!Produce, V!Produce, A!SendVent, V!SendVent, A!SendOLGA, V!SendOLGA,
           A!LaserCard, V!LaserCard, A!AutoOff, V!AutoOff
  <1>5. \A r : A!RefusedNow(r) <=> V!RefusedNow(r)
    BY DEF A!RefusedNow, V!RefusedNow, A!Refused, V!Refused, A!FanForbids, V!FanForbids,
           A!LaserForbids, V!LaserForbids, A!OlgaForbids, V!OlgaForbids,
           A!Closing, V!Closing, A!FullyOpening, V!FullyOpening,
           A!OpeningLaser, V!OpeningLaser, A!StartingFan, V!StartingFan,
           A!StoppingFan, V!StoppingFan, A!AllClosed, V!AllClosed,
           A!NoneClosed, V!NoneClosed, A!Damper, V!Damper
  <1>6. \A new : A!Normalised(new) = V!Normalised(new)
    BY DEF A!Normalised, V!Normalised, A!AllClosed, V!AllClosed, A!Damper, V!Damper
  <1>7. A!Arbitrate => V!Arbitrate
    BY <1>2, <1>5, <1>6
       DEF A!Arbitrate, V!Arbitrate, A!Next1, V!Next1, A!AcceptVent, V!AcceptVent,
           A!RefuseVent, V!RefuseVent, A!ChangeLock, V!ChangeLock,
           A!RefuseLock, V!RefuseLock
  <1>8. A!TimerFires \/ A!TakeTick \/ A!Crash \/ A!Boot =>
            V!TimerFires \/ V!TakeTick \/ V!Crash \/ V!Boot
    BY <1>3 DEF A!TimerFires, V!TimerFires, A!TakeTick, V!TakeTick, A!Crash, V!Crash,
                A!Boot, V!Boot
  <1>9. [A!Next]_(A!vars) => [V!Next]_(V!vars)
    BY <1>4, <1>7, <1>8 DEF A!Next, V!Next, A!vars, V!vars
  <1>q. QED
    BY <1>1, <1>9, PTL DEF A!Spec, V!Spec

\* The accepted state never has the fan run against three closed or three open dampers,
\* and every lock has a timer, also when the requests to switch everything off come from
\* the watcher (ventilation.go:52-55, 125-128, mqttventilation.go:43-58).
THEOREM SafeWithWatcher ==
    Spec => [](A!FanNeedsOpenDamper /\ A!AtMostTwoDampersWithFan /\ A!LockHasTimer)
  <1>1. /\ V!Spec => []V!FanNeedsOpenDamper
        /\ V!Spec => []V!AtMostTwoDampersWithFan
        /\ V!Spec => []V!LockHasTimer
    BY V!FanHasOpenDamper, V!FanHasClosedDamper, V!LockTimed, ArbiterAssumption
  <1>2. V!FanNeedsOpenDamper /\ V!AtMostTwoDampersWithFan /\ V!LockHasTimer =>
            A!FanNeedsOpenDamper /\ A!AtMostTwoDampersWithFan /\ A!LockHasTimer
    BY DEF A!FanNeedsOpenDamper, V!FanNeedsOpenDamper, A!Damper, V!Damper,
           A!AtMostTwoDampersWithFan, V!AtMostTwoDampersWithFan,
           A!LockHasTimer, V!LockHasTimer
  <1>q. QED
    BY <1>1, <1>2, Implements, SameArbiter, PTL DEF ArbiterSpec

\* ... and what a lock holds the watcher does not take away: its request counts as local,
\* which the laser lock does not heed (ventilation.go:58-76, mqttventilation.go:52).
THEOREM LocksHoldWithWatcher ==
    Spec => /\ A!LaserVentilationHeld
            /\ A!LaserKeepsOlgaThrottled
            /\ A!OlgaVentilationHeld
  <1>1. /\ V!Spec => V!LaserVentilationHeld
        /\ V!Spec => V!LaserKeepsOlgaThrottled
        /\ V!Spec => V!OlgaVentilationHeld
    BY V!LaserStaysVentilated, V!OlgaStaysThrottled, V!OlgaStaysVentilated,
       ArbiterAssumption
  <1>2. /\ V!LaserVentilationHeld => A!LaserVentilationHeld
        /\ V!LaserKeepsOlgaThrottled => A!LaserKeepsOlgaThrottled
        /\ V!OlgaVentilationHeld => A!OlgaVentilationHeld
    BY DEF A!LaserVentilationHeld, V!LaserVentilationHeld, A!vars, V!vars,
           A!LaserKeepsOlgaThrottled, V!LaserKeepsOlgaThrottled,
           A!OlgaVentilationHeld, V!OlgaVentilationHeld
  <1>q. QED
    BY <1>1, <1>2, Implements, SameArbiter, PTL DEF ArbiterSpec

-----------------------------------------------------------------------------
(* The types of the watcher.                                               *)

\* A departure is a message, and these are counted up to MaxMsg.
Counted ==
    /\ mqttc \in BOOLEAN /\ people_present \in BOOLEAN
    /\ messages \in 0..MaxMsg /\ departures \in 0..messages
    /\ answer \in {"none", "asked", "refused"}

LEMMA StepCounts == ASSUME Counted, [Next]_vars PROVE Counted'
  <1> USE DEF Counted
  <1>1. CASE ConnectMQTTBroker
    BY <1>1 DEF ConnectMQTTBroker
  <1>2. CASE \E hot \in BOOLEAN : LaserCard(hot)
    BY <1>2 DEF LaserCard, watcherVars
  <1>3. CASE OffTimerFires \/ TakeOffTick \/ AskOff
    BY <1>3 DEF OffTimerFires, TakeOffTick, AskOff
  <1>4. CASE \E p \in BOOLEAN : TakePresence(p)
    BY <1>4, MaxMsgAssumption DEF TakePresence
  <1>5. CASE ClientActs \/ LockTimer \/ Crash
    BY <1>5 DEF ClientActs, LockTimer, Crash, watcherVars
  <1>6. CASE Arbitrate
    BY <1>6 DEF Arbitrate, watcherVars
  <1>7. CASE Boot
    <2>1. messages' = 0 /\ departures' = 0 /\ 0 \in 0..0 /\ 0 \in 0..MaxMsg
      BY <1>7, MaxMsgAssumption DEF Boot
    <2>2. mqttc' \in BOOLEAN /\ people_present' \in BOOLEAN /\ answer' = "none"
      BY <1>7, Zenon DEF Boot
    <2>q. QED
      BY <2>1, <2>2
  <1>8. CASE UNCHANGED vars
    BY <1>8 DEF vars, watcherVars
  <1>q. QED
    BY <1>1, <1>2, <1>3, <1>4, <1>5, <1>6, <1>7, <1>8 DEF Next, Watch

\* Every variable keeps to its type; the automatic requests are never more than the
\* messages (mqttventilation.go:26-58).
THEOREM TypeCorrect == Spec => []TypeOK
  <1>1. Spec => []V!TypeOK
    <2>1. V!Spec => []V!TypeOK
      BY V!TypeCorrect, ArbiterAssumption
    <2>q. QED
      BY <2>1, Implements, SameArbiter, PTL DEF ArbiterSpec
  <1>2. V!TypeOK => A!TypeOK
    BY DEF V!TypeOK, A!TypeOK, V!VentState, A!VentState, V!Position, A!Position,
           V!Request, A!Request, V!VentReq, A!VentReq, V!LockReq, A!LockReq,
           V!Sender, A!Sender
  <1>3. Init => WatcherInv /\ Counted
    <2>1. SUFFICES ASSUME Init PROVE Counted
      BY InitWatcher
    <2>2. messages = 0 /\ departures = 0 /\ 0 \in 0..0 /\ 0 \in 0..MaxMsg
      BY <2>1, MaxMsgAssumption DEF Init
    <2>3. mqttc \in BOOLEAN /\ people_present \in BOOLEAN /\ answer = "none"
      BY <2>1, Zenon DEF Init
    <2>q. QED
      BY <2>2, <2>3 DEF Counted
  <1>4. [Next]_vars /\ WatcherInv /\ Counted => WatcherInv' /\ Counted'
    BY StepKeepsInv, StepCounts
  <1>5. A!TypeOK /\ WatcherInv /\ Counted => TypeOK
    <2>1. SUFFICES ASSUME WatcherInv, Counted PROVE offs \in 0..MaxMsg
      BY DEF TypeOK, WatcherInv, WatcherType, Counted
    <2>2. \A b \in BOOLEAN : Of(b) \in Nat
      BY DEF Of
    <2>3. /\ Of(watcher = "pub") \in Nat /\ Of(off_tick) \in Nat
          /\ Of(off_timer = "armed") \in Nat
      BY <2>1, <2>2 DEF WatcherInv, WatcherType
    <2>q. QED
      BY <2>1, <2>3, MaxMsgAssumption
         DEF WatcherInv, WatcherType, OncePerDeparture, Counted
  <1>q. QED
    BY <1>1, <1>2, <1>3, <1>4, <1>5, PTL DEF Spec
=============================================================================
