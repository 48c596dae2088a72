# Verification of the damper and fan control (l-fterklappensteuerung)

TLA+ models, TLC runs and TLAPS proofs for the control software of an exhaust system with
three dampers and two fans: the Go program `ventilationinterface/` and the firmware
`firmware/dampercontrol/`. Paths below are relative to the repository.

## 1. The system

```
 web clients --ws--> webserver.go --+
 laser card  --mqtt-> mqttventilation.go --DamperRequest--> arbiter (ventilation.go)
 presence    --mqtt-> mqttventilation.go --+                   | accepted state
                                                               v
                                            web clients, MQTT, dampersteensy.go
                                                               | serial, '>' packet
                                                               v
                      µC 1 <----- PJON chaincast (comm.cpp) -----> µC 2 ... µC N
                       |                                            |
             timer/endstop interrupts, dampers, fans (main.cpp) on each µC
```

### Inventory

| Part | State | Operations | Hard about it | Correct when |
|---|---|---|---|---|
| Arbiter (`ventilation.go`) | last accepted state, two locks, one timer | ventilation request, lock request, timer tick, reply | queue from many producers, shared timer, a tick that is stale, closed reply channels, restart forgets everything | the accepted state is always safe; locks hold what they name and end |
| Web server (`webserver.go`), page (`public/js`) | connections, reply channels, initial state | connect, request, disconnect, broadcast | disconnection while a request waits; pages send a whole state from a stale view | replies never kill the process; no lost updates |
| MQTT bridge (`mqttventilation.go`) | presence, auto-off timer | laser card, presence, auto-off, publish | the request is made once and may be refused | the exhaust goes off after the last person left |
| Command sender (`dampersteensy.go`, `serial_tty.go`) | last state sent, time of it | de-duplicate, delay, write | bounded subscription, sleeps while states arrive | the last state sent is the last accepted |
| Publish/subscribe (library, `main.go`) | bounded channels | Pub, Sub | everybody blocks on everybody | no deadlock short of a burst that fills a subscription |
| Chaincast (`comm.cpp`) | receive ring, id, reach field in the packet | receive, handle, forward, inject | loss, duplication, reordering, ring overrun, resets, two passes of several commands | fans obey only what all dampers have; everybody ends on the same command |
| Id assignment (`comm.cpp:366-427`) | id list | discover, renumber | broadcasts that are not acknowledged | one microcontroller answers to id 1; one failure costs nobody the id |
| Damper control (`main.cpp`, `settings.cpp`) | positions, targets, endstop flags, motors | timer interrupt, endstop interrupt, set targets, timeout report | interrupts between any two reads, wrap of an 8-bit counter, run-on of the blade, spurious signals | counter = blade; motors stop; broken endstops, and only those, are reported |
| Fan control (`main.cpp:416-448`) | two targets, two pins | decide | reads dampers one at a time under interrupts | fans run only as the dampers allow |
| Serial console (`main.cpp:224-320`) | framing state | keys, packets | a lost byte shifts the framing | a packet is a packet |

## 2. Modules

| Module | Models | Kind |
|---|---|---|
| `VentArbiter` | the arbiter with its producers, timer, restart | component |
| `VentArbiterProofs` | theorems about `VentArbiter` | proofs |
| `FanInterlock` | what the chaincast promises: a fan obeys a command only when the owners of all dampers have handled it | abstract specification |
| `Chaincast` | receive ring, ladder, both passes, faults; `INSTANCE FanInterlock` | component, implements `FanInterlock` |
| `MCChaincast` | the deployed installation of the firmware README, and a ladder of three | model for TLC |
| `ChaincastProofs` | theorems about `Chaincast`, the refinement among them | proofs |
| `ChaincastLadderProofs` | a fault-free ladder: one copy, heard by all, agreement at rest; EXTENDS `ChaincastProofs` | proofs |
| `DamperControl` | one microcontroller: interrupts and main loop | component |
| `DamperControlProofs` | theorems about `DamperControl` | proofs |
| `Presence` | the bridge to MQTT and the presence watcher; `INSTANCE VentArbiter` | composition, implements `VentArbiter` |
| `MCPresence` | the states clients ask for | model for TLC |
| `PresenceProofs` | theorems about `Presence`, the refinement among them; `INSTANCE VentArbiterProofs` | proofs |
| `Interface` | hub, arbiter loop, command sender, marshaller and writers of the web server | component |
| `InterfaceProofs` | theorems about `Interface` | proofs |
| `SerialFraming` | the bytes of a command and the reader that finds the packets in them | component |
| `SerialFramingProofs` | theorems about `SerialFraming` | proofs |
| `IdAssign` | how the microcontrollers get their bus ids | component |
| `IdAssignProofs` | theorems about `IdAssign` | proofs |

### How state and actions correspond to the code

`VentArbiter`. The variables are the locals of `goSanityCheckDamperRequests`; `tick` is the
one-place channel of the timer, `newreq` the subscription channel, `open` the web clients
whose reply channel is not closed, `proc` the process. One action per case of the `select`
and of the type switch in it (`TakeTick`, `AcceptVent`, `RefuseVent`, `ChangeLock`,
`RefuseLock`), one per producer (`SendVent`, `SendOLGA`, `LaserCard`, `AutoOff`), and
`Disconnect`, `Crash`, `Boot`. An accepted request includes the normalisation that the check
performs on it. A reply to a closed channel panics, default case or not. Replies and
published states themselves are not kept: no property of the arbiter reads them. A timer
follows the semantics of Go 1.16, the version `go.mod` names: `Reset` does not take a waiting
tick out of the channel.

`Chaincast`. `slots`/`idx` are `pjon_msgbuf_`/`pjon_msgbuf_idx_`; `busy` is the program
counter of `task_pjon` (inside `pjon_postrecv_handle_msg` or not); `online` whether the node
has its id; a command is a number, since the properties ask which command a damper or a fan
obeys, not what is in it. `Receive` is one pass of `pjonbus_.receive` with
`pjon_recv_handler`; `Handle` one slot of the scan, from emptying it to forwarding, which no
interrupt separates (the interrupts of the firmware do not touch the ring); `Inject` is
`pjon_inject_msg`. `seen` is a history variable.

`DamperControl`. `Tick` is the timer interrupt with the whole of `task_control_dampers`;
`PassEndstop` and `Glitch` the pin change interrupt with the whole of `task_check_endstops`,
which looks at all pins. The main loop is cut wherever an interrupt can change what it reads
next: `SetTarget` is one iteration of the loop over the targets, `ReadReached`, `ReadClosed`
and `ReadLamina` one damper of each read loop of `task_control_fan`, `CheckOverflow` one damper
of the timeout report. The 8-bit counter wraps at `PosMod`. `travel` is the blade: the ticks it
has moved since its endstop. `homed`, `reported` and `sure` are history variables.

`Presence`. `ClientActs`, `Arbitrate`, `LockTimer` are the actions of `VentArbiter`; the rest is
`mqttventilation.go:19-58`. `off_timer` and `off_tick` are the timer and its one-place channel;
`AskOff` is the `Pub` of the watcher, separate from `TakeOffTick` because it waits for room and
presence changes meanwhile without being read. In `VentArbiter` the automatic off may come at any
moment; here it comes from the goroutine that asks for it, and the composition is shown to do
nothing `VentArbiter` does not allow.

`Interface`. `chan` holds the subscriptions, `hub` the value the goroutine of the pubsub library
hands out and to whom it has yet to: it waits for room in each channel in turn, and all callers
wait for it. A goroutine is a program counter (`arbiter`, `sender`, `marshaller`, `writer`); a step
is what it does between two communications. The arbiter's timer is the one of `VentArbiter`, with the
semantics of Go 1.16: `Rearm` sets it again after every grant of a lock, so ticks, each of which publishes
a state, come as often as locks are granted. What a request asks for and whether it is granted is left
open. Four variables are history: `published` is the state published last, `late` who was not subscribed
then, `told` the clients that were written it since, `burst` the values (requests, ticks, questions of new
clients) that came in since nothing was under way (`AtRest`), counted up to `Cap + 2`.

`SerialFraming`. `Write` puts the nine bytes of a command on the line, `Read` takes one byte through
`handle_serialdata`; the state of `handle_serial2pjon` is always that of its caller. A packet for
another id is judged like one for the own: the checks are the same wherever it is received.

`IdAssign`. `tries` and `probed` are the acquisition a microcontroller is in (`acquire_id` of PJON probes
an id and takes it when nobody answers), `mpc` the program counter of `pjon_become_master_of_ids`,
whose two waits may end at any moment, except that the second lasts until the replies under way are
in. Ids at the start are those of earlier times, in any arrangement. `acquire_id` is taken by what PJON
promises of it, or it finds no id (`AcquireFails`), which counts as a fault each time. `comm.cpp:365` says of the installed
version that it "seems to be broken"; the library is not part of the repository, so how it is broken is not
modelled beyond that.

Abstractions in `DamperControl`: the endstop window has no width (a blade is at its endstop
exactly when `travel = 0`); a tick of the motor moves the blade by one; the value of a
command's byte that is none of the three known ones is `"unknown"`.

The interrupt set-up of this commit is commented out (`main.cpp:51-71`, a migration to
another controller is under way, firmware `README.md:4`). The model takes the two interrupts as
enabled, the way the comments at `main.cpp:356`, `:467` and the rest of the code rely on.

## 3. Runs

| Run | Bounds | Checks |
|---|---|---|
| `VentArbiter` | 2 clients (one local), queue of 1 | types; `FanNeedsOpenDamper`, `AtMostTwoDampersWithFan`, `LockHasTimer`; `LaserVentilationHeld`, `LaserKeepsOlgaThrottled`, `OlgaVentilationHeld`; `LocksExpire` under fairness |
| `ChaincastBurst` | ladder of 3, a damper each, 4 commands injected at both ends, ring of 3, no faults | types; `OneCopy`, `HeardAtRest`, `AgreementAtRest`; `EventuallyAgreed` under fairness |
| `ChaincastFaults` | deployed, 2 commands, ring of 2, 2 faults, any destination | `ReachIsHonest`, `FanGate`, refinement of `FanInterlock` |
| `DamperControl` | 2 dampers on one µC, counter of 6, a turn of 3 ticks | `LaminaNeedsFan`, `FanWhenSettled` |
| `DamperControlFaults` | 1 damper, counter of 7, a turn of 3 or 4 ticks, 2 faults (spurious signal, broken endstop, reset), removal and re-installation, 2 open positions | types; `CounterTracksBlade`, `NoFalseAlarm`; `MotorsStop`, `FanEndsRight`, `TimeoutReported` under fairness |
| `IdAssign` | 4 µCs, 4 ids, list of 3, 3 keys, 2 faults | types; `OneFirst` (for the first fault), `LossTakesTwo` |
| `SerialFraming` | every publishable state, 1 fault | types; `CleanLine`, `MangledHarmless`, `Resynchronises` |
| `Interface` | 1 client, 2 states of the dampers, 1 lock, subscriptions of 1, 2 requests and any number of ticks their grants allow | types; `WedgeTakesBurst`; `EventuallyTold`, `EventuallySent` under fairness |
| `Presence` | 1 client, queue of 2, 3 presence messages a process, 2 states to ask for | types; `OncePerDeparture`; `EventuallyOff` under fairness; refinement of `VentArbiter` |

Why the bounds are enough. In `VentArbiter` a queue of one already separates a request from its
handling, which is what the arbiter's races need (a grant, a tick, a disconnection or a crash in
between); a longer one only delays longer. Ventilation states are not bounded at all: all 54
are enumerated. In the chaincast, four commands against a ring of three overrun it, several meet in
every order on two passes, and two faults combine (a reset with a doubled packet, say). `HeardAtRest`
speaks of commands that no ring dropped. In `DamperControlFaults` a counter of 7 with a turn of 3 or 4
keeps the order that matters of the real values (open position 80 < turn 100 < counter 256), and
leaves room for the run-on and for the initial guess of 1; two faults fall at every moment of a turn,
in every combination. In `DamperControl` the open position is 1 to keep two dampers small:
"half" then coincides with "closed"; the run with one damper uses 2, where half is 1. An open
position plus the run-on must be less than the shortest turn, or the fan is started while the
damper runs into its endstop again; the firmware README asks for 80.

`IdAssign` has one microcontroller more than the list has places, so the list is full. Two faults let both
attempts of a discovery fail (`comm.cpp:370`, `:375`), or the one after a reset, so the run does reach
microcontrollers that stay without an id; `OneFirst` speaks of states after one fault, since two are enough to
acquire id 1 twice over. In `SerialFraming` one fault
is the bound of its properties; a second lost byte can turn a length into a command that sets
the fan bit. Nine commands is the least bound that holds: a start byte taken for a length swallows 62
bytes. In `Interface` the first tick, two requests, the tick after a grant and the question of a client
overrun subscriptions of one, so the hub does wait for room, and it comes to a standstill in all the ways but one:
with the arbiter, with the marshaller publishing or still subscribing, with a writer about to ask and with one about to leave. All but
the last happen at exactly the burst the property names. The one left out, the hub waiting with
the question of a client for the marshaller, needs more clients than one. The theorem has no such
bounds. `Presence` has a message for a
departure, a return and another departure, the shortest history in which an old tick meets a new absence.

The constants that bound: commands (`MaxCmd`), faults (`MaxFaults`), requests (`MaxReq`), presence messages
of a process (`MaxMsg`), keys (`MaxKeys`), the request queue (`ChanCap`). Deadlock is checked in the
arbiter, damper, framing and presence runs; `Chaincast`, `IdAssign` and `Interface` stop when their bounded
commands, keys or requests are done.

### Runs that are expected to find a violation

Each states what a text of the repository says and the code does not do.

| Run | Text | What the code does |
|---|---|---|
| `VentArbiterNoPanic` | `ventilation.go:105` "make sure we don't crash or hang by writing to closed or blocked chan" | a refused request of a client that has gone makes the arbiter panic |
| `VentArbiterLockTimeout` | `main.go:48` "Timeout for OLGA/Lasercutter Lock" | a tick from before the grant releases the lock at once |
| `DamperControlReadme` | firmware `README.md:39` "fan won't start if all dampers closed" | it starts when a damper is not installed |

Further disagreements and limits met while modelling. The models follow the code in each; no run is
spent on them:

* `ventilation.go:66` "Can't stop fan while Lasercutter in use!": a request that keeps the fan on and
  closes the last open damper passes the check, and normalisation (line 79) stops the fan.
* `ventilation.go:71` "Can't stop fan while OLGA locked it": the check counts only fully open dampers.
* `README.md:19`, a damper opened in one room can only be closed there: no request carries a room.
* `main.cpp:157` "FAN: if to be switched off: do it right away": the whole fan part waits for the
  second pass.
* `dampercontrol.h:153`, reach names the fan too: no code sets or tests that bit, so a
  microcontroller above the dampers that has only the fan is never reached.
* `main.cpp:34`, an error past 110 without a signal: raised only at 255 and only on the way to 0.
* `main.cpp:441` "once dampers 2 is open": the second switch does not look at that damper, and
  closing it keeps the request for the laminar fan.
* `main.cpp:426` "once dampers have reached their target": a damper whose counter is not yet
  synchronised moves between the two reads. `FanWhenSettled` is the part that does hold: with
  synchronised counters the race is harmless, because a damper seen at its target stays there.
* `settings.cpp:29` "read this from eeprom on start": commented out; a reset forgets the settings.
* `comm.cpp:391` "assign every other µC a sequentialy incremential id": the list collects the id a
  reply was sent to, always 1, so every new id is sent to id 1. With the two microcontrollers
  deployed, the list has one entry and nothing is sent at all: a second one that kept id 1
  through a missed broadcast keeps it.
* Firmware `README.md:55`, the packet that sets the open positions, carries a reach field of 7:
  the microcontroller with id 1 takes the command for one on its way down and does not forward it.
* Firmware `README.md:25`, fan byte "2 for Fan on, 1 for Laminafan": `fan` is bit 0 of the bit field
  (`dampercontrol.h:129`), and the README's own examples use 1.
* `main.go:49` "Timeout for automatic Off after everybody left": a timer that ran out while somebody
  was there is not drained (`mqttventilation.go:46-51`), so after a quick second departure the off can
  come at once. A client that asks for ventilation after the automatic off is not switched off again.
* After a restart the watcher takes it that somebody is there (`mqttventilation.go:38`); an empty house
  is not switched off until the broker sends its next message.
* `comm.cpp:364` "start acquire_id until we heave an id that is != NOT_ASSIGNEd and != 1": the code tries
  twice and then goes on with what it has, which may be no id, or id 1 beside the master. The line below, "note
  that this currently does not actually work, since acquire_id seems to be broken in avr-tools pjon v3", means
  that with the installed library the discovery ends that way for everyone. `LossTakesTwo` is what the code
  of the firmware does achieve: it takes two acquisitions that find nothing to leave one without an id.
* `pubsub.New(10)` (`main.go:57`): subscriptions are bounded, and the arbiter and the marshaller, which read
  them, publish through the same hub, as the writers of the clients subscribe, ask and unsubscribe
  (`webserver.go:115-120`). When the hub waits for room in a subscription whose reader waits for the hub, both
  stand still for good, and with them everything else. That can happen, and does in the run `Interface`;
  `WedgeTakesBurst` says what it takes: eleven values since all was last at rest with subscriptions of ten,
  twelve where the arbiter or the marshaller holds one itself.
* `webserver.go:125`: the first answer and an update may be written in either order, so a page that has
  just connected can show the older one until the next update.
* `serial_tty.go:43` ignores the result of a write, and after an unplugged line
  the closed channel makes `dampersteensy.go:103` spin.

### Fairness

Stated only where the code's scheduling justifies it. Arbiter: the timer runs out, `select`
picks among ready cases at random and so serves each in the end, systemd restarts the process
(`Restart=always`); no fairness of clients. Chaincast: each main loop goes round (weak fairness
of its steps) and a packet that can be received again and again is received (strong
fairness: PJON repeats until the acknowledgement); nothing about faults, which are bounded.
Damper control: the timer ticks, a blade that has used up its turn passes its endstop, and the main
loop goes round: strong fairness of `ControlFan` says that the packets handled in one round
are finitely many. Interface: every goroutine that can go on is scheduled, and the hub serves its
callers in the order of their calls; nothing about requests, clients and the timer, which may stay armed for
ever. Both liveness properties except a standstill (`Wedged`), which is `WedgeTakesBurst`'s subject, and a
reader that was not subscribed when the last state was published. Presence: a timer that is
not set again runs out (the presence messages of one process are bounded, since messages without
end could re-arm it for ever), the watcher and the arbiter are scheduled, and the watcher's `Pub`
gets its turn among those of all producers (strong fairness of `AskOff`). `IdAssign` and
`SerialFraming` state safety only.

## 4. Proofs

TLAPS proves, for all constants that satisfy the assumptions stated in the modules:

* `VentArbiterProofs`: `TypeCorrect`; `FanHasOpenDamper` and `FanHasClosedDamper`, from the
  invariant `FanSafe`, which is inductive because a new state is checked as it is accepted and
  normalisation only switches the fan off (lemma `NormalisedType`); `LockTimed`; and the action
  properties `LaserStaysVentilated`, `OlgaStaysThrottled`, `OlgaStaysVentilated`, each by lemma
  `StateChanges`: the accepted state changes only by an accepted request or a restart.
* `ChaincastProofs`: the invariant is `TypeOK /\ ReachIsHonest /\ InstalledIsOwned`. A reach
  field is honest only as long as nobody adds a damper he is not wired to, and packets outlive
  resets, so honesty has to speak of every packet on the bus and in the rings at once. `Implements`
  maps every step to a step of `FanInterlock` or a stutter: `Serve` is `Apply`, `Inject` is
  `Issue`, `Restart` is `Reset`; that `Serve` may only obey the fan part when all owners have
  handled the command is `ReachIsHonest`. `FanGated` follows along the same way.
* `ChaincastLadderProofs`: three theorems about a ladder without faults, for any number of microcontrollers
  and any ring. `NoEcho` states `OneCopy`. Its invariant `SingleCopy` says of all places, slots of rings and
  positions of links alike, that no two hold the same command, and that nobody sends to himself: otherwise a
  packet could be received into the slot it is sent from. Assumed: no host injects to the broadcast id
  (`0 \notin InjectDst`). That is needed: such a command is put in the own ring and on every link
  (`comm.cpp:161-183`), and the copies never become one again.

  `HeardByAll` states `HeardAtRest`. Assumed: hosts inject to id 1 (`FromBottom`; "always sent to or
  origintates from pjonid 1", `comm.cpp:197`), and the reach field is not full below the top (`TopNeeded`; so
  in the installation of the firmware README, and in the ladder of three TLC checks). Without the second a packet turns back before the top has seen
  it. `Ladder` places every packet: on its way up to n it has the dampers of the ids below n and was seen by
  exactly these; on its way down it has all dampers and was seen by all. It also says that the occupied slots
  of a ring are contiguous up to the index, so when the slot to be written is taken, all are (`FullRing`).
  Since a command is in one place at a time, a full ring then holds as many commands as it has slots, and none
  of them is the one being put: with no more commands than slots that is against the pigeonhole principle
  (`RoomForOne`), so nothing is overwritten (`NotLost`).

  `AllAgree` states `AgreementAtRest`. Assumed as well: every damper is configured somewhere (`TopCompletes`);
  a fan obeys nothing otherwise. It holds for any number of commands, those included that are overwritten in a
  full ring. The top handles every command once, and what it handled last is what all end on. `Settling` says,
  for each id n: once nothing is in a ring above n or on the way there, the ids above agree with the
  top, and the last packet that comes down to n, or else the newest in its ring, is the top's last word (or
  the newest still goes up). The newest is never the one overwritten, and the ring is handled oldest first.
* `DamperControlProofs`: `TypeCorrect`; `LaminaSafe`; `CounterSynced`, from the invariant
  `HomedInStep`: a waiting endstop signal means the blade is at its endstop with the motor on,
  a running motor means counter = blade, and a stopped one means the blade has run on by one
  tick. `CounterTracksBlade` alone is not inductive, since it does not tell a run-on from a start.
  `NeverFalseAlarm`, from `NotFarAhead`: a counter is never more than two ticks ahead of the blade of a
  working endstop, whether it is synchronised or not, so the blade reaches the endstop first.
  Assumed of both: `MaxTurn + 2 < PosMod` (100 and 256 in the code). `CounterTracksBlade` says nothing of a
  damper that has not been homed, so this needs an invariant of its own.
  `FanStartsSettled`, for open positions short of a turn: `Deciding` says what each read of
  `task_control_fan` has established and why the interrupts that follow leave it standing. A damper seen at its
  target may have a waiting endstop signal that resets its counter; `Timely` says such a signal is only
  there when the counter is that of a whole turn or 0 already, so it is not that of the target. The proof
  found that the homing before the decision is not enough: a spurious signal in the middle of it, which the
  interrupt takes while the motor runs, moves the counter of a damper already read. The property excludes it
  by the history variable `sure`, and the run with two dampers agrees.
* `PresenceProofs`: `Implements`, every step of the composition maps to a step of `VentArbiter` or a
  stutter (the arbiter's variables are the same, the bridge is what is hidden); `AskedOnce`, whose
  invariant counts: each departure arms the timer at most once, and armed timer, waiting tick,
  publication and request are stages of the same one; `TypeCorrect`, whose bound on requests comes from
  the same count. `SafeWithWatcher` and `LocksHoldWithWatcher` carry the theorems of `VentArbiterProofs`
  over to the composition, along `Implements`. The assumptions of `VentArbiter` are stated again as
  `ArbiterAssumption`, since an instance does not bring them.
* `InterfaceProofs`: `TypeCorrect`, and `HubNeedsBurst`, which states `WedgeTakesBurst`, both for every
  capacity and any number of clients, requests, locks and ticks. The invariant `Counted` follows the values
  since all was last at rest. What came in is pending for the arbiter or the marshaller, or in the hands of the
  arbiter (`Waiting`); the arbiter makes of one value at most one state, and that state is pending for the
  sender and, independently of it, for the marshaller (`Onward`) and then for each client. So along each of
  these ways there are at most as many values as came in, and a burst that has ended is forgotten, because at
  rest all are empty (`RestCounts`). A full subscription with a value still to come is `Cap + 1` of them, and
  the one its reader is about to publish is another (`WedgeCounts`).
* `IdAssignProofs`: `TypeCorrect`, which assumes that the list has no more places than there are ids
  (`ListLen <= MaxId`; 10 and 254 in the code); `IdKept`, `LossTakesTwo` for any number of faults: it counts who
  is lost twice and who is at the last attempt once, and no step of one microcontroller moves it further towards
  loss than by the faults it costs (`OneNearer`), no other step moves any (`NoneNearer`).
  `FirstIsMaster` states `OneFirst`, for three microcontrollers and a list of two; later faults are in its
  scope, the property speaks of the states before them. Its
  invariant: either every other microcontroller is `Fine` (it took id 1 only by a fault, and tries again), or
  one has `Slipped` past the broadcast, and then the question who has which id is heard by all, at least two
  answers come, and the second sends that id 1 away. With two microcontrollers the property is false, which
  TLC shows with `N = 2`: there is no second answer, and the one that missed the broadcast keeps id 1 beside
  the master. The firmware README's installation has two.
* `SerialFramingProofs`: `TypeCorrect`, `CleanLineHears`, `OneFaultIsHarmless`, and
  `ReaderResynchronises` for `MaxLag >= 9`. `InFrame` says what each byte is taken for as long as nothing was
  lost. `Packets` lists the lengths a reader out of step can take for one (1, 2, 6, and 62, the start byte),
  each with the positions in a command where that can be. `Lost` is the measure: nine bytes for each
  command since one was heard, less those still on the line, plus those the reader still swallows, never
  exceed what one start byte taken for a length costs.

Only model-checked: liveness (`LocksExpire`, `EventuallyAgreed`, `MotorsStop`, `FanEndsRight`,
`TimeoutReported`, `EventuallyTold`, `EventuallySent`, `EventuallyOff`: fairness and ENABLED are beyond
the prover). Every safety invariant and action property the passing runs check is stated by a theorem.

## 5. Not modelled

* The page (`public/js`): it sends the whole state it shows, so two people who click at the same time undo
  each other's change. Nothing in the code is meant to prevent that; `VentArbiter` lets a client send any
  state at any time, which includes every stale one.
* The publisher of states to the broker (`mqttventilation.go:60-74`): one more subscriber that reads and
  never publishes through the hub, like the command sender.
* Settings packets as a kind of their own in `Chaincast`: they take the way of a command; what they
  set is `UpdateSettings` of `DamperControl`.
* The composition of `Chaincast` with `DamperControl`: `FanInterlock` says when a fan may obey,
  `DamperControl` lets a command come with `didreachall` or without at any time; the product of both is
  out of TLC's reach.
* Write errors and the end of the serial line; deadlines and pings of web sockets.
* Pressure sensors (`pressure.cpp`, compiled only with `BMPE280_ENABLED`), whose messages have
  exactly the size that `comm.cpp:102` drops; error messages on the bus, which are only printed; the
  printout of the settings and the jump to the bootloader.
* Logging, layout of the page, the image of the touch display, circuit boards and drawings: none of them
  changes the state of dampers, fans or locks.
