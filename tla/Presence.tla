------------------------------ MODULE Presence ------------------------------
(***************************************************************************)
(* The bridge to MQTT (ventilationinterface/mqttventilation.go) composed   *)
(* with the arbiter: the connection to the broker, the laser card, and the *)
(* watcher that asks for everything to be switched off some time after     *)
(* everybody has left.  VentArbiter lets that request come at any moment;  *)
(* here it comes from the goroutine that makes it, and the composition     *)
(* implements VentArbiter.                                                 *)
(*                                                                         *)
(* External: the broker, which delivers any presence messages.  Timers are *)
(* those of Go 1.16, as in VentArbiter.                                    *)
(***************************************************************************)
EXTENDS Naturals, Sequences

CONSTANTS
    Client, Local, TokenHolder, Nobody, ChanCap,   \* as in VentArbiter
    Want,    \* the ventilation states the clients ask for
    MaxMsg   \* bound on the presence messages a process handles

VARIABLES
    last_state, OLGALock, LaserLock, timer, tick, newreq, open, proc,  \* as in VentArbiter
    mqttc,           \* the broker has been reached
    people_present,
    off_timer,       \* off_after_presence_false_timeout: "armed" or "stopped"
    off_tick,        \* a value waits in its channel
    watcher,         \* where the goroutine is: "select", or in "pub"
    messages,        \* history: presence messages handled
    departures,      \* history: those that said that nobody is there
    offs,            \* history: automatic requests made
    answer           \* history: the one for the last departure is not yet made ("none"), made, refused

arbiterVars  == <<last_state, OLGALock, LaserLock, timer, tick, newreq, open, proc>>
watcherVars  == <<mqttc, people_present, off_timer, off_tick, watcher, messages,
                  departures, offs>>
vars == <<arbiterVars, watcherVars, answer>>

A == INSTANCE VentArbiter

\* The assumptions of VentArbiter, which INSTANCE does not bring along.
ASSUME ArbiterAssumption == /\ Local \subseteq Client /\ TokenHolder \subseteq Client
                            /\ Nobody \notin Client
                            /\ ChanCap \in Nat \ {0}
ASSUME WantAssumption   == Want \subseteq A!VentState
ASSUME MaxMsgAssumption == MaxMsg \in Nat

-----------------------------------------------------------------------------
(* The bridge.                                                             *)

\* Tried every five minutes until it works once.
ConnectMQTTBroker ==
    /\ proc = "up"
    /\ ~mqttc
    /\ mqttc' = TRUE
    /\ UNCHANGED <<arbiterVars, people_present, off_timer, off_tick, watcher, messages,
                   departures, offs, answer>>

LaserCard(hot) == mqttc /\ A!LaserCard(hot) /\ UNCHANGED <<watcherVars, answer>>

Selects == proc = "up" /\ mqttc /\ watcher = "select"

\* Mutant: the timer is started when somebody comes.
ArmedOnReturn(p) == IF p THEN "armed" ELSE off_timer

\* Reset; a return does not stop the timer.
Armed(p) == IF p THEN off_timer ELSE "armed"

\* case msg := <-mqtt_presence_chan
TakePresence(p) ==
    /\ Selects
    /\ messages < MaxMsg
    /\ messages' = messages + 1
    /\ people_present' = p
    /\ off_timer' = Armed(p)
    /\ departures' = IF p THEN departures ELSE departures + 1
    /\ answer' = IF p THEN answer ELSE "none"
    /\ UNCHANGED <<arbiterVars, mqttc, off_tick, watcher, offs>>

\* Mutant: a ticker in place of the timer.
FiresAgain == off_timer = "armed" /\ UNCHANGED off_timer

Fires == off_timer = "armed" /\ off_timer' = "stopped"

OffTimerFires ==
    /\ proc = "up"
    /\ Fires
    /\ off_tick' = TRUE
    /\ UNCHANGED <<arbiterVars, mqttc, people_present, watcher, messages, departures, offs,
                   answer>>

\* case <-off_after_presence_false_timeout.C
TakeOffTick ==
    /\ Selects
    /\ off_tick
    /\ off_tick' = FALSE
    /\ watcher' = IF people_present THEN "select" ELSE "pub"
    /\ UNCHANGED <<arbiterVars, mqttc, people_present, off_timer, messages, departures, offs,
                   answer>>

\* Mutant: the request is made like that of a remote client.
OffRequestRemote == [kind |-> "vent", want |-> A!AllOff, local |-> FALSE, client |-> Nobody]

OffRequest == [kind |-> "vent", want |-> A!AllOff, local |-> TRUE, client |-> Nobody]

\* The request is published, once there is room for it; the watcher handles nothing else
\* until then.
AskOff ==
    /\ watcher = "pub"
    /\ A!Publish(OffRequest)
    /\ watcher' = "select"
    /\ offs' = offs + 1
    /\ answer' = "asked"
    /\ UNCHANGED <<mqttc, people_present, off_timer, off_tick, messages, departures>>

-----------------------------------------------------------------------------
(* The clients, the arbiter and the process.                               *)

ClientActs ==
    /\ \E c \in Client :
          \/ \E want \in Want : A!SendVent(c, want)
          \/ \E lock \in BOOLEAN : A!SendOLGA(c, lock)
          \/ A!Disconnect(c)
    /\ UNCHANGED <<watcherVars, answer>>

\* The automatic request is served, or another one.
Arbitrate ==
    /\ \/ A!RefuseVent /\ answer' = IF Head(newreq) = OffRequest THEN "refused" ELSE answer
       \/ (A!AcceptVent \/ A!ChangeLock \/ A!RefuseLock) /\ UNCHANGED answer
    /\ UNCHANGED watcherVars

LockTimer == (A!TimerFires \/ A!TakeTick) /\ UNCHANGED <<watcherVars, answer>>

Crash == A!Crash /\ UNCHANGED <<watcherVars, answer>>

\* The new process has not reached the broker and takes it that somebody is there.
Boot ==
    /\ A!Boot
    /\ mqttc' = FALSE
    /\ people_present' = TRUE
    /\ off_timer' = "stopped" /\ off_tick' = FALSE
    /\ watcher' = "select"
    /\ messages' = 0 /\ departures' = 0 /\ offs' = 0
    /\ answer' = "none"

-----------------------------------------------------------------------------
Init ==
    /\ A!Init
    /\ mqttc = FALSE
    /\ people_present = TRUE
    /\ off_timer = "stopped" /\ off_tick = FALSE
    /\ watcher = "select"
    /\ messages = 0 /\ departures = 0 /\ offs = 0
    /\ answer = "none"

Watch == OffTimerFires \/ TakeOffTick \/ AskOff \/ \E p \in BOOLEAN : TakePresence(p)

Next ==
    \/ ConnectMQTTBroker \/ (\E hot \in BOOLEAN : LaserCard(hot)) \/ Watch
    \/ ClientActs \/ Arbitrate \/ LockTimer \/ Crash \/ Boot

Spec == Init /\ [][Next]_vars

\* A timer that is not set again runs out.  The watcher's publication gets its turn among
\* those of all producers, which the pubsub goroutine serves in the order they came.
Fairness == /\ WF_vars(OffTimerFires)
            /\ WF_vars(TakeOffTick)
            /\ SF_vars(AskOff)
            /\ WF_vars(Arbitrate)

FairSpec == Spec /\ Fairness

-----------------------------------------------------------------------------
(* Properties.                                                             *)

\* Every variable of the watcher keeps to its type.
TypeOK ==
    /\ A!TypeOK
    /\ mqttc \in BOOLEAN /\ people_present \in BOOLEAN /\ off_tick \in BOOLEAN
    /\ off_timer \in {"armed", "stopped"}
    /\ watcher \in {"select", "pub"}
    /\ messages \in 0..MaxMsg /\ departures \in 0..messages /\ offs \in 0..MaxMsg
    /\ answer \in {"none", "asked", "refused"}

Of(b) == IF b THEN 1 ELSE 0

\* However departures, returns and the timer, which nothing stops, interleave, there is
\* never more than one automatic request, made or to come, for a departure: whoever
\* switches the ventilation on again afterwards is not switched off by an old timer
\* (mqttventilation.go:43-53).
OncePerDeparture ==
    offs + Of(watcher = "pub") + Of(off_tick) + Of(off_timer = "armed") <= departures

\* The last presence message said that nobody is there, and no browser is connected.
Deserted == proc = "up" /\ ~people_present /\ open = {}

\* Once everybody has left, the browsers with them before the request is made, everything
\* is off in the end, unless a lock refused it: it is made only once
\* (mqttventilation.go:46-53).
EventuallyOff ==
    [](answer = "none" /\ []Deserted => <>[](last_state = A!AllOff \/ answer = "refused"))

\* Bridge, watcher and arbiter together do nothing that VentArbiter does not allow
\* (mqttventilation.go:19-58).
ArbiterSpec == A!Spec
=============================================================================
