---------------------------- MODULE VentArbiter ----------------------------
(***************************************************************************)
(* The arbiter of the ventilation interface: the goroutine                 *)
(* goSanityCheckDamperRequests of ventilationinterface/ventilation.go, the *)
(* only owner of the requested ventilation state and of the two locks, with*)
(* the producers of its requests: web sockets (webserver.go), the laser    *)
(* card and the presence watcher (mqttventilation.go).                     *)
(*                                                                         *)
(* A Client is one web socket connection.  The pubsub library between a    *)
(* producer and the arbiter is a bounded FIFO queue (external); a producer *)
(* blocks while it is full.  The timer of the arbiter is a Go timer of the *)
(* language version go.mod names (1.16): Reset leaves a tick that already  *)
(* sits in the timer's channel where it is.                                *)
(***************************************************************************)
EXTENDS Naturals, Sequences

CONSTANTS
    Client,       \* web socket connections
    Local,        \* those from 127.0.0.1, the touch display
    TokenHolder,  \* those that present the local authorisation token
    Nobody,       \* the nil toclient_chan of requests that came over MQTT
    ChanCap       \* capacity of the arbiter's request channel

ASSUME ClientAssumption == /\ Local \subseteq Client
                           /\ TokenHolder \subseteq Client
                           /\ Nobody \notin Client
ASSUME ChanAssumption == ChanCap \in Nat \ {0}

VARIABLES
    last_state,  \* the ventilation state last accepted
    OLGALock,
    LaserLock,
    timer,       \* locktimeouter: "armed" or "stopped"
    tick,        \* a value waits in locktimeouter.C (capacity 1)
    newreq,      \* newreq_c, the requests not yet handled
    open,        \* connections whose toclient_chan is not closed
    proc         \* the process: "up", "down" or "panicked"

vars == <<last_state, OLGALock, LaserLock, timer, tick, newreq, open, proc>>

-----------------------------------------------------------------------------
(* Ventilation states and requests.                                        *)

Damper   == {"Damper1", "Damper2", "Damper3"}
Position == {"closed", "half", "open"}

\* What sanityCheckRequestedVentilationState lets through.
VentState == [Damper1: Position, Damper2: Position, Damper3: Position,
              Fan: {"off", "on"}]

AllOff == [Damper1 |-> "closed", Damper2 |-> "closed", Damper3 |-> "closed",
           Fan |-> "off"]

Sender  == Client \union {Nobody}
VentReq == [kind: {"vent"}, want: VentState, local: BOOLEAN, client: Sender]
LockReq == [kind: {"laser", "olga"}, lock: BOOLEAN, local: BOOLEAN, client: Sender]
Request == VentReq \union LockReq

-----------------------------------------------------------------------------
(* The decision of sanityCheckVentilationStateChange on a request to go    *)
(* from prev to new.                                                       *)

Closing(prev, new, d)      == prev[d] # new[d] /\ new[d] = "closed"
FullyOpening(prev, new, d) == prev[d] # new[d] /\ new[d] = "open"
OpeningLaser(prev, new)    == prev.Damper1 # new.Damper1 /\ new.Damper1 # "closed"
StartingFan(prev, new)     == prev.Fan # new.Fan /\ new.Fan = "on"
StoppingFan(prev, new)     == prev.Fan # new.Fan /\ new.Fan = "off"
AllClosed(new)             == \A d \in Damper : new[d] = "closed"
NoneClosed(new)            == \A d \in Damper : new[d] # "closed"

\* Mutant: three dampers are refused only when the fan is being started.
FanForbidsOnStart(prev, new) ==
    StartingFan(prev, new) /\ (AllClosed(new) \/ NoneClosed(new))

FanForbids(prev, new) ==
    \/ StartingFan(prev, new) /\ AllClosed(new)
    \/ new.Fan = "on" /\ NoneClosed(new)

\* Mutant: the laser lock looks only at the fan.
LaserForbidsFanOnly(prev, new) == StoppingFan(prev, new)
\* Mutant: the laser lock does not look at the dampers of OLGA.
LaserForbidsClosing(prev, new) ==
    Closing(prev, new, "Damper1") \/ StoppingFan(prev, new)

LaserForbids(prev, new) ==
    \/ Closing(prev, new, "Damper1")
    \/ \E d \in {"Damper2", "Damper3"} : FullyOpening(prev, new, d)
    \/ StoppingFan(prev, new)

\* Mutant: the OLGA lock looks at Damper2 only.
OlgaForbidsDamper2(prev, new) ==
    \/ StoppingFan(prev, new) /\ prev.Damper2 = "open"
    \/ Closing(prev, new, "Damper2")
    \/ OpeningLaser(prev, new)

OlgaForbids(prev, new) ==
    \/ /\ StoppingFan(prev, new)
       /\ \E d \in {"Damper2", "Damper3"} : prev[d] = "open"
    \/ \E d \in {"Damper2", "Damper3"} : Closing(prev, new, d)
    \/ OpeningLaser(prev, new)

Refused(prev, new, local, laser, olga) ==
    \/ FanForbids(prev, new)
    \/ laser /\ LaserForbids(prev, new)
    \/ olga /\ ~local /\ OlgaForbids(prev, new)

\* Mutant: the fan is left as it was asked for.
NotNormalised(new) == new

\* The fan goes off when the last damper closes.
Normalised(new) == IF AllClosed(new) THEN [new EXCEPT !.Fan = "off"] ELSE new

-----------------------------------------------------------------------------
(* Producers.                                                              *)

\* Mutant: a producer does not wait for room in the queue.
PublishUnbounded(r) ==
    /\ proc = "up"
    /\ newreq' = Append(newreq, r)
    /\ UNCHANGED <<last_state, OLGALock, LaserLock, timer, tick, open, proc>>

Publish(r) ==
    /\ proc = "up"
    /\ Len(newreq) < ChanCap
    /\ newreq' = Append(newreq, r)
    /\ UNCHANGED <<last_state, OLGALock, LaserLock, timer, tick, open, proc>>

\* goTalkWithClient publishes a well-formed ventilation request.
SendVent(c, want) ==
    /\ c \in open
    /\ Publish([kind |-> "vent", want |-> want, local |-> c \in Local, client |-> c])

\* ... or a request for the OLGA lock, local also by token.
SendOLGA(c, lock) ==
    /\ c \in open
    /\ Publish([kind |-> "olga", lock |-> lock,
                local |-> c \in Local \union TokenHolder, client |-> c])

\* The callback of the laser card topic.
LaserCard(hot) ==
    Publish([kind |-> "laser", lock |-> hot, local |-> TRUE, client |-> Nobody])

\* The presence watcher, some time after everybody left.
AutoOff ==
    Publish([kind |-> "vent", want |-> AllOff, local |-> TRUE, client |-> Nobody])

\* goTalkWithClient returns: its deferred close of toclient_chan.
Disconnect(c) ==
    /\ proc = "up"
    /\ c \in open
    /\ open' = open \ {c}
    /\ UNCHANGED <<last_state, OLGALock, LaserLock, timer, tick, newreq, proc>>

-----------------------------------------------------------------------------
(* The arbiter: one action per case of its select loop.                    *)

\* The runtime sends on the timer's channel; the send is dropped when it is full.
TimerFires ==
    /\ proc = "up"
    /\ timer = "armed"
    /\ timer' = "stopped"
    /\ tick' = TRUE
    /\ UNCHANGED <<last_state, OLGALock, LaserLock, newreq, open, proc>>

\* Mutant: the tick releases only the lock of the laser.
TakeTickForLaser ==
    /\ proc = "up"
    /\ tick
    /\ tick' = FALSE
    /\ LaserLock' = FALSE
    /\ UNCHANGED <<last_state, OLGALock, timer, newreq, open, proc>>

\* case <-locktimeouter.C
TakeTick ==
    /\ proc = "up"
    /\ tick
    /\ tick' = FALSE
    /\ LaserLock' = FALSE
    /\ OLGALock' = FALSE
    /\ UNCHANGED <<last_state, timer, newreq, open, proc>>

\* The next request, when it is of one of the kinds.
Next1(kinds) ==
    /\ proc = "up"
    /\ newreq # <<>>
    /\ Head(newreq).kind \in kinds
    /\ newreq' = Tail(newreq)

\* replyToWebClient: the select guards against a full channel, but a send on a
\* closed one panics, default or not.
Reply(c) == proc' = IF c = Nobody \/ c \in open THEN "up" ELSE "panicked"

RefusedNow(r) == Refused(last_state, r.want, r.local, LaserLock, OLGALock)

\* A ventilation request passes the check.
AcceptVent ==
    LET r == Head(newreq) IN
    /\ Next1({"vent"})
    /\ ~RefusedNow(r)
    /\ last_state' = Normalised(r.want)
    /\ UNCHANGED <<OLGALock, LaserLock, timer, tick, open, proc>>

\* ... or does not.
RefuseVent ==
    LET r == Head(newreq) IN
    /\ Next1({"vent"})
    /\ RefusedNow(r)
    /\ Reply(r.client)
    /\ UNCHANGED <<last_state, OLGALock, LaserLock, timer, tick, open>>

\* Mutant: only the laser lock starts the timer.
RearmForLaser(r) == timer' = IF r.lock /\ r.kind = "laser" THEN "armed" ELSE timer

\* A granted lock restarts the timer both locks share.
Rearm(r) == timer' = IF r.lock THEN "armed" ELSE timer

ChangeLock ==
    LET r == Head(newreq) IN
    /\ Next1({"laser", "olga"})
    /\ r.local
    /\ LaserLock' = IF r.kind = "laser" THEN r.lock ELSE LaserLock
    /\ OLGALock' = IF r.kind = "olga" THEN r.lock ELSE OLGALock
    /\ Rearm(r)
    /\ UNCHANGED <<last_state, tick, open, proc>>

RefuseLock ==
    LET r == Head(newreq) IN
    /\ Next1({"laser", "olga"})
    /\ ~r.local
    /\ Reply(r.client)
    /\ UNCHANGED <<last_state, OLGALock, LaserLock, timer, tick, open>>

-----------------------------------------------------------------------------
(* Process lifetime.  Nothing survives: the state of a new process is the  *)
(* initial one, whatever the dampers do at that moment; systemd starts it  *)
(* (external: Restart=always).                                             *)

\* Shutdown, or the death of the process for any reason.
Crash ==
    /\ proc = "up"
    /\ proc' = "down"
    /\ UNCHANGED <<last_state, OLGALock, LaserLock, timer, tick, newreq, open>>

\* Requests, connections and the ticks of the old timer die with the process.
Boot ==
    /\ proc # "up"
    /\ last_state' = AllOff
    /\ OLGALock' = FALSE
    /\ LaserLock' = FALSE
    /\ timer' = "armed"
    /\ tick' = FALSE
    /\ newreq' = <<>>
    /\ open' = Client
    /\ proc' = "up"

Init ==
    /\ last_state = AllOff
    /\ OLGALock = FALSE
    /\ LaserLock = FALSE
    /\ timer = "armed"       \* time.NewTimer(0)
    /\ tick = FALSE
    /\ newreq = <<>>
    /\ open = Client
    /\ proc = "up"

Produce ==
    \/ \E c \in Client, want \in VentState : SendVent(c, want)
    \/ \E c \in Client, lock \in BOOLEAN : SendOLGA(c, lock)
    \/ \E hot \in BOOLEAN : LaserCard(hot)
    \/ AutoOff
    \/ \E c \in Client : Disconnect(c)

Arbitrate == AcceptVent \/ RefuseVent \/ ChangeLock \/ RefuseLock

Next == Produce \/ TimerFires \/ TakeTick \/ Arbitrate \/ Crash \/ Boot

Spec == Init /\ [][Next]_vars

\* The timer runs out, the select loop serves every case that stays ready (Go
\* picks among them at random) and systemd restarts the process.
Fairness == /\ WF_vars(TimerFires)
            /\ WF_vars(TakeTick)
            /\ WF_vars(Arbitrate)
            /\ WF_vars(Boot)

FairSpec == Spec /\ Fairness

-----------------------------------------------------------------------------
(* Properties.                                                             *)

\* Every variable keeps to its type.
TypeOK ==
    /\ last_state \in VentState
    /\ OLGALock \in BOOLEAN
    /\ LaserLock \in BOOLEAN
    /\ timer \in {"armed", "stopped"}
    /\ tick \in BOOLEAN
    /\ newreq \in Seq(Request) /\ Len(newreq) <= ChanCap
    /\ open \subseteq Client
    /\ proc \in {"up", "down", "panicked"}

\* The accepted state never runs the fan against three closed dampers, whatever
\* sequence of requests and timeouts led to it (ventilation.go:52, :77).
FanNeedsOpenDamper ==
    last_state.Fan = "on" => \E d \in Damper : last_state[d] # "closed"

\* The fan never runs with all three dampers off their closed position
\* (ventilation.go:55), also when the third is opened under a running fan.
AtMostTwoDampersWithFan ==
    last_state.Fan = "on" => \E d \in Damper : last_state[d] = "closed"

\* No lock is held that nothing will ever clear: the timer both locks share is
\* running, or its tick waits to be taken, although a grant, a release and a
\* restart of the other lock may come at any moment (ventilation.go:125, :150).
LockHasTimer == proc = "up" /\ (LaserLock \/ OLGALock) => timer = "armed" \/ tick

\* While the laser lock is held, a laser cutter that is being ventilated stays
\* ventilated: no request, local or not, closes its damper or stops the fan
\* (ventilation.go:58-68).
LaserVentilationHeld ==
    [][/\ proc' = "up"
       /\ proc = "up"
       /\ LaserLock
       /\ last_state.Fan = "on"
       /\ last_state.Damper1 # "closed"
       => last_state'.Fan = "on" /\ last_state'.Damper1 # "closed"]_vars

\* While the laser lock is held, no damper of the OLGA room becomes fully open
\* (ventilation.go:62).
LaserKeepsOlgaThrottled ==
    [][/\ proc' = "up"
       /\ proc = "up"
       /\ LaserLock
       => \A d \in {"Damper2", "Damper3"} :
              last_state[d] # "open" => last_state'[d] # "open"]_vars

\* A web client that is neither local nor trusted cannot take ventilation from
\* OLGA while OLGA holds its lock: dampers off closed stay so, a fully open one
\* keeps its running fan, and Damper1 is not opened (ventilation.go:69-76).
OlgaVentilationHeld ==
    [][/\ proc' = "up"
       /\ proc = "up"
       /\ OLGALock
       /\ newreq # <<>> /\ newreq' = Tail(newreq) /\ ~Head(newreq).local
       => /\ \A d \in {"Damper2", "Damper3"} :
                last_state[d] # "closed" =>
                    /\ last_state'[d] # "closed"
                    /\ last_state[d] = "open" /\ last_state.Fan = "on"
                           => last_state'.Fan = "on"
          /\ last_state.Damper1 = "closed" => last_state'.Damper1 = "closed"]_vars

\* Once no lock is granted any more, both locks are released and stay so, though
\* grants may have re-armed the shared timer at any moment before and the process
\* may die and come back (ventilation.go:125-128).
Granting == newreq # <<>> /\ Head(newreq).kind # "vent" /\ Head(newreq).local
                         /\ Head(newreq).lock
LocksExpire == <>[](~Granting) => <>[](proc = "up" => ~LaserLock /\ ~OLGALock)

(* What the texts of the program say and the code does not do.             *)

\* "make sure we don't crash or hang by writing to closed or blocked chan"
\* (ventilation.go:105, :114).
NoPanic == proc # "panicked"

\* "Timeout for OLGA/Lasercutter Lock" (main.go:48): the timeout releases a lock
\* only when it ran out after the lock was granted.
LockLastsUntilTimeout ==
    [][proc = "up" /\ tick /\ ~tick' /\ proc' = "up" /\ (LaserLock \/ OLGALock)
           => timer = "stopped"]_vars
=============================================================================
