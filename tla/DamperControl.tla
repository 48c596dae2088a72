--------------------------- MODULE DamperControl ---------------------------
(***************************************************************************)
(* One microcontroller (firmware/dampercontrol/src/main.cpp): the timer    *)
(* interrupt that moves the dampers, the pin change interrupt of their     *)
(* endstops, and the main loop that sets targets, controls the two fans and*)
(* reports timeouts.  Interrupts fall between any two steps of the loop;   *)
(* an interrupt itself is never interrupted.                               *)
(*                                                                         *)
(* External: the damper.  Its motor only turns one way; travel counts the  *)
(* ticks the blade has moved since it last passed its endstop, the closed  *)
(* position.  A turn takes MinTurn to MaxTurn ticks.  A spurious signal, an*)
(* endstop that breaks and never signals again, and a reset of the         *)
(* microcontroller each cost one of MaxFaults.                             *)
(***************************************************************************)
EXTENDS Naturals

CONSTANTS
    NumDamper,    \* NUM_DAMPER
    PosMod,       \* 2^8 for the width of damper_states_
    OpenPos,      \* open positions a settings packet may carry
    DefaultPos,   \* the open position after a reset
    Installs,     \* sets of dampers the key I may configure
    LaminaDamper, \* LAMINA_DAMPER_ID
    MinTurn, MaxTurn,
    MaxFaults     \* bound on faults

Damper == 0..(NumDamper - 1)
Pos    == 0..(PosMod - 1)

ASSUME DamperAssumption == NumDamper \in Nat \ {0} /\ LaminaDamper \in Damper
ASSUME PosAssumption    == /\ PosMod \in Nat \ {0, 1}
                           /\ OpenPos \subseteq Pos /\ DefaultPos \in Pos
ASSUME ConfAssumption   == Installs \subseteq SUBSET Damper
ASSUME TurnAssumption   == /\ MinTurn \in Nat \ {0} /\ MaxTurn \in Nat
                           /\ MinTurn <= MaxTurn /\ MaxTurn + 2 < PosMod
ASSUME FaultAssumption  == MaxFaults \in Nat

VARIABLES
    pos,         \* damper_states_
    target,      \* damper_target_states_
    endstop,     \* damper_endstop_reached_
    overflowed,  \* damper_state_overflowed_
    installed,   \* damper_installed_, as a set
    open_pos,    \* damper_open_pos_
    motor,       \* the motor pins
    fan_target, fanlamina_target,
    fan, lamina, \* the fan pins
    pc,          \* where the main loop is
    k,           \* the damper its current for loop is at
    rv,          \* the result its current for loop collects
    cmd,         \* the damper positions being set
    travel,      \* external: the blades
    broken,      \* external: the dampers whose endstop never signals
    homed,       \* history: passed the endstop since it was installed, with no
                 \* spurious signal while it turned since then
    reported,    \* history: a timeout was reported since the last pass of the endstop
    sure,        \* history: task_control_fan is deciding to run the main fan, every
                 \* counter was synchronised when it began, and no spurious signal
                 \* has reached a damper that turned since then
    faults       \* faults so far

isrVars  == <<pos, endstop, overflowed, motor, travel, broken, homed, reported>>
fanVars  == <<fan_target, fanlamina_target, fan, lamina>>
confVars == <<installed, open_pos, faults>>
loopVars == <<pc, k, rv, cmd, sure>>
vars     == <<isrVars, fanVars, confVars, loopVars, target>>

Blade == 0..MaxTurn

-----------------------------------------------------------------------------
(* Interrupts.                                                             *)

\* Mutant: the position is not synchronised with the endstop.
Unsynced(d) == pos[d]

\* did_damper_pass_endstop: the position restarts at 0 after a signal.
Synced(d) == IF endstop[d] THEN 0 ELSE pos[d]

\* Mutant: the position is compared before it is synchronised.
TurningUnsynced(d) == pos[d] # target[d]

Turning(d) == Synced(d) # target[d]

\* Mutant: the counter does not wrap at the width of its type.
CountedWide(d) == IF Turning(d) THEN Synced(d) + 1 ELSE Synced(d)

Counted(d) == IF Turning(d) THEN (Synced(d) + 1) % PosMod ELSE Synced(d)

\* Mutant: the limit is one the counter cannot reach.
TimedOutNever(d) == target[d] = 0 /\ Synced(d) > PosMod - 1

TimedOut(d) == target[d] = 0 /\ Synced(d) = PosMod - 1

\* The blade moves while its motor runs, round past an endstop that is broken.
Moved(d) ==
    IF ~motor[d] THEN travel[d]
    ELSE IF travel[d] < MaxTurn THEN travel[d] + 1 ELSE 1

\* A running blade has to pass a working endstop within MaxTurn ticks.
EndstopDue == \E d \in Damper \ broken : motor[d] /\ travel[d] = MaxTurn

\* TIMER3_COMPA: task_control_dampers, for the installed dampers.
Tick ==
    /\ ~EndstopDue
    /\ travel' = [d \in Damper |-> Moved(d)]
    /\ pos' = [d \in Damper |-> IF d \in installed THEN Counted(d) ELSE pos[d]]
    /\ endstop' = [d \in Damper |-> endstop[d] /\ d \notin installed]
    /\ overflowed' = [d \in Damper |-> overflowed[d] \/ (d \in installed /\ TimedOut(d))]
    /\ motor' = [d \in Damper |-> IF d \in installed THEN Turning(d) ELSE motor[d]]
    /\ UNCHANGED <<broken, homed, reported, fanVars, confVars, loopVars, target>>

\* Mutant: a signal counts even when the motor does not turn.
AcceptsAlways(d) == TRUE

\* task_check_endstops ignores a signal while the motor does not turn.
Accepts(d) == motor[d]

AtEndstop == {d \in Damper \ broken : travel[d] = 0}

\* task_check_endstops: an edge on the pin of d makes it look at all pins, those of
\* the dampers that are still at their endstop among them.
CheckEndstops(d) ==
    endstop' = [e \in Damper |->
                   endstop[e] \/ (Accepts(e) /\ e \in AtEndstop \union {d})]

\* PCINT0, as a blade passes its endstop.
PassEndstop(d) ==
    /\ d \notin broken
    /\ motor[d]
    /\ travel[d] >= MinTurn
    /\ travel' = [travel EXCEPT ![d] = 0]
    /\ CheckEndstops(d)
    /\ homed' = [homed EXCEPT ![d] = d \in installed]
    /\ reported' = [reported EXCEPT ![d] = FALSE]
    /\ UNCHANGED <<pos, overflowed, motor, broken, fanVars, confVars, loopVars, target>>

Fault == faults < MaxFaults /\ faults' = faults + 1

\* PCINT0, as the sensor of a damper signals that is not at its endstop.
Glitch(d) ==
    /\ d \notin broken
    /\ Fault
    /\ CheckEndstops(d)
    /\ homed' = [homed EXCEPT ![d] = @ /\ ~motor[d]]
    /\ sure' = (sure /\ ~motor[d])
    /\ UNCHANGED <<pos, overflowed, motor, travel, broken, reported, fanVars, installed,
                   open_pos, pc, k, rv, cmd, target>>

\* External: an endstop stops working, at any position of its blade.
Break(d) ==
    /\ d \notin broken
    /\ Fault
    /\ broken' = broken \union {d}
    /\ homed' = [homed EXCEPT ![d] = FALSE]
    /\ UNCHANGED <<pos, endstop, overflowed, motor, travel, reported, fanVars, installed,
                   open_pos, loopVars, target>>

-----------------------------------------------------------------------------
(* The main loop: serial line and task_pjon.                               *)

\* What cmd is when no positions are being set.
NoCmd == [d \in Damper |-> "closed"]

\* "unknown" is any other value of the byte.
DamperCmd == {"closed", "half", "open", "unknown"}

TargetOf(d, c) ==
    CASE c \in {"closed", "unknown"} -> 0
      [] c = "open"   -> open_pos[d]
      [] c = "half"   -> open_pos[d] \div 2

\* handle_damper_cmd starts: the fans, when the command has reached everybody; the
\* laminar fan only when its damper is to be off closed.  Each fan is one bit of the
\* command, so the switch over its values never takes its default case.
Command(c, fanOn, laminaOn, didreachall) ==
    /\ pc = "pjon"
    /\ fan_target' = IF didreachall THEN fanOn ELSE fan_target
    /\ fanlamina_target' = IF didreachall /\ c[LaminaDamper] # "closed" THEN laminaOn
                           ELSE fanlamina_target
    /\ cmd' = c
    /\ k' = 0
    /\ pc' = "set"
    /\ UNCHANGED <<isrVars, fan, lamina, confVars, rv, sure, target>>

\* The keys o, c and h of the serial line set the same positions, no fan.
SerialCommand(c) ==
    /\ pc = "pjon"
    /\ cmd' = [d \in Damper |-> c]
    /\ k' = 0
    /\ pc' = "set"
    /\ UNCHANGED <<isrVars, fanVars, confVars, rv, sure, target>>

\* One pass of the for loop over the dampers; interrupts come in between.
SetTarget ==
    /\ pc = "set"
    /\ target' = [target EXCEPT ![k] = TargetOf(k, cmd[k])]
    /\ IF k + 1 < NumDamper THEN k' = k + 1 /\ UNCHANGED <<pc, cmd>>
                            ELSE k' = 0 /\ pc' = "pjon" /\ cmd' = NoCmd
    /\ UNCHANGED <<isrVars, fanVars, confVars, rv, sure>>

\* updateSettingsFromPacket.
UpdateSettings(p) ==
    /\ pc = "pjon"
    /\ open_pos' = p
    /\ UNCHANGED <<isrVars, fanVars, installed, faults, loopVars, target>>

\* updateInstalledDampersFromChar, key I of the serial line.
UpdateInstalled(s) ==
    /\ pc = "pjon"
    /\ installed' = s
    /\ homed' = [d \in Damper |-> homed[d] /\ d \in s]
    /\ UNCHANGED <<pos, endstop, overflowed, motor, travel, broken, reported, fanVars,
                   open_pos, faults, loopVars, target>>

-----------------------------------------------------------------------------
(* The main loop: task_control_fan and the overflow check.                 *)

\* task_control_fan starts; it looks at the dampers only to run the main fan.
ControlFan ==
    /\ pc = "pjon"
    /\ k' = 0
    /\ rv' = TRUE
    /\ sure' = (fan_target /\ \A d \in installed : homed[d] /\ ~endstop[d])
    /\ IF fan_target THEN pc' = "reached" /\ UNCHANGED fan
                     ELSE pc' = "lamina" /\ fan' = FALSE
    /\ UNCHANGED <<isrVars, fan_target, fanlamina_target, lamina, confVars, cmd, target>>

\* Mutant: a damper on its way to a target off closed counts as there.
AtTargetOrOpen(d) == pos[d] = target[d] \/ target[d] # 0 \/ d \notin installed

\* Mutant: a damper that stands half open counts as on its way.
AtTargetUnlessHalf(d) == pos[d] \in {0, open_pos[d]} \/ d \notin installed

AtTarget(d) == pos[d] = target[d] \/ d \notin installed

\* have_dampers_reached_target reads one damper; at the last one the fan stops, or
\* it is up to are_all_dampers_closed.
ReadReached ==
    /\ pc = "reached"
    /\ IF k + 1 < NumDamper
       THEN k' = k + 1 /\ rv' = (rv /\ AtTarget(k)) /\ UNCHANGED <<pc, fan, sure>>
       ELSE /\ k' = 0
            /\ rv' = TRUE
            /\ IF rv /\ AtTarget(k) THEN pc' = "closed" /\ UNCHANGED <<fan, sure>>
                                    ELSE pc' = "lamina" /\ fan' = FALSE /\ sure' = FALSE
    /\ UNCHANGED <<isrVars, fan_target, fanlamina_target, lamina, confVars, cmd, target>>

\* are_all_dampers_closed reads one damper, installed or not; at the last one the
\* fan runs or stops.
ReadClosed ==
    /\ pc = "closed"
    /\ IF k + 1 < NumDamper
       THEN k' = k + 1 /\ rv' = (rv /\ pos[k] = 0) /\ UNCHANGED <<pc, fan, sure>>
       ELSE /\ k' = 0
            /\ rv' = TRUE
            /\ pc' = "lamina"
            /\ fan' = ~(rv /\ pos[k] = 0)
            /\ sure' = FALSE
    /\ UNCHANGED <<isrVars, fan_target, fanlamina_target, lamina, confVars, cmd, target>>

\* The second switch of task_control_fan; it reads the dampers once more, but only
\* when the laminar fan is wanted.
ControlLamina ==
    /\ pc = "lamina"
    /\ ~fanlamina_target
    /\ lamina' = FALSE
    /\ pc' = "overflow"
    /\ UNCHANGED <<isrVars, fan_target, fanlamina_target, fan, confVars, k, rv, cmd, sure, target>>

\* Mutant: the laminar fan does not look at the main fan.
LaminaByDampers(reached) == reached

LaminaOn(reached) == reached /\ fan

ReadLamina ==
    /\ pc = "lamina"
    /\ fanlamina_target
    /\ IF k + 1 < NumDamper
       THEN k' = k + 1 /\ rv' = (rv /\ AtTarget(k)) /\ UNCHANGED <<pc, lamina>>
       ELSE /\ k' = 0
            /\ rv' = TRUE
            /\ pc' = "overflow"
            /\ lamina' = LaminaOn(rv /\ AtTarget(k))
    /\ UNCHANGED <<isrVars, fan_target, fanlamina_target, fan, confVars, cmd, sure, target>>

\* task_check_damper_state_overflow, for one damper: pjon_senderror_dampertimeout.
CheckOverflow ==
    /\ pc = "overflow"
    /\ overflowed' = [overflowed EXCEPT ![k] = FALSE]
    /\ reported' = [reported EXCEPT ![k] = @ \/ overflowed[k]]
    /\ IF k + 1 < NumDamper THEN k' = k + 1 /\ UNCHANGED pc
                            ELSE k' = 0 /\ pc' = "pjon"
    /\ UNCHANGED <<pos, endstop, motor, travel, broken, homed, fanVars, confVars, rv, cmd,
                   sure, target>>

-----------------------------------------------------------------------------
(* Start, reset and the whole.                                             *)

\* The globals and pins of a microcontroller that comes out of reset.
Init ==
    /\ pos = [d \in Damper |-> 1]
    /\ target = [d \in Damper |-> 0]
    /\ endstop = [d \in Damper |-> FALSE]
    /\ overflowed = [d \in Damper |-> FALSE]
    /\ installed = {}
    /\ open_pos = [d \in Damper |-> DefaultPos]
    /\ motor = [d \in Damper |-> FALSE]
    /\ fan_target = FALSE /\ fanlamina_target = FALSE
    /\ fan = FALSE /\ lamina = FALSE
    /\ pc = "pjon" /\ k = 0 /\ rv = TRUE
    /\ cmd = NoCmd
    /\ travel \in [Damper -> Blade]
    /\ homed = [d \in Damper |-> FALSE]
    /\ reported = [d \in Damper |-> FALSE]
    /\ sure = FALSE /\ broken = {} /\ faults = 0

\* A reset: nothing is read back from the EEPROM, a blade stays where it is.
Restart ==
    /\ Fault
    /\ pos' = [d \in Damper |-> 1]
    /\ target' = [d \in Damper |-> 0]
    /\ endstop' = [d \in Damper |-> FALSE]
    /\ overflowed' = [d \in Damper |-> FALSE]
    /\ installed' = {}
    /\ open_pos' = [d \in Damper |-> DefaultPos]
    /\ motor' = [d \in Damper |-> FALSE]
    /\ fan_target' = FALSE /\ fanlamina_target' = FALSE
    /\ fan' = FALSE /\ lamina' = FALSE
    /\ pc' = "pjon" /\ k' = 0 /\ rv' = TRUE
    /\ cmd' = NoCmd
    /\ homed' = [d \in Damper |-> FALSE]
    /\ reported' = [d \in Damper |-> FALSE]
    /\ sure' = FALSE
    /\ UNCHANGED <<travel, broken>>

Interrupt == Tick \/ \E d \in Damper : PassEndstop(d) \/ Glitch(d)

Receive ==
    \/ \E c \in [Damper -> DamperCmd] :
           \E fanOn \in BOOLEAN, laminaOn \in BOOLEAN, didreachall \in BOOLEAN :
               Command(c, fanOn, laminaOn, didreachall)
    \/ \E c \in DamperCmd \ {"unknown"} : SerialCommand(c)
    \/ \E p \in [Damper -> OpenPos] : UpdateSettings(p)
    \/ \E s \in Installs : UpdateInstalled(s)

Loop == SetTarget \/ ReadReached \/ ReadClosed \/ ControlLamina \/ ReadLamina
            \/ CheckOverflow

Next == Interrupt \/ Receive \/ ControlFan \/ Loop \/ Restart
            \/ \E d \in Damper : Break(d)

Spec == Init /\ [][Next]_vars

\* The timer keeps ticking, a blade that has to pass its endstop does, and the main
\* loop goes round: what it receives in one round is finite.
Fairness == /\ WF_vars(Tick)
            /\ \A d \in Damper : WF_vars(PassEndstop(d) /\ travel[d] = MaxTurn)
            /\ WF_vars(Loop)
            /\ SF_vars(ControlFan)

FairSpec == Spec /\ Fairness

-----------------------------------------------------------------------------
(* Properties.                                                             *)

\* Every variable keeps to its type.
TypeOK ==
    /\ pos \in [Damper -> Pos] /\ target \in [Damper -> Pos]
    /\ endstop \in [Damper -> BOOLEAN] /\ overflowed \in [Damper -> BOOLEAN]
    /\ installed \subseteq Damper /\ open_pos \in [Damper -> Pos]
    /\ motor \in [Damper -> BOOLEAN]
    /\ {fan_target, fanlamina_target, fan, lamina, rv, sure} \subseteq BOOLEAN
    /\ pc \in {"pjon", "set", "reached", "closed", "lamina", "overflow"}
    /\ k \in Damper /\ cmd \in [Damper -> DamperCmd]
    /\ travel \in [Damper -> Blade]
    /\ homed \in [Damper -> BOOLEAN] /\ reported \in [Damper -> BOOLEAN]
    /\ broken \subseteq Damper /\ faults \in 0..MaxFaults

\* Once a damper has passed its endstop, the time counter is the position of its
\* blade, one tick of run-on aside, through every start, stop and change of target;
\* so a damper that counts as closed is closed (main.cpp:375-411, settings.cpp:43-45).
CounterTracksBlade ==
    \A d \in installed :
        homed[d] /\ ~endstop[d] => travel[d] \in {pos[d], pos[d] + 1}

\* A timeout is raised only for an endstop that does not work, whatever commands come
\* while a damper turns (main.cpp:393-396).
NoFalseAlarm == \A d \in Damper \ broken : ~overflowed[d]

\* Whenever task_control_fan has decided on the main fan, a running fan means that
\* the dampers have settled and not all count as closed, though the timer interrupt
\* moves them between the reads of the decision, provided their counters were
\* synchronised when it began and no spurious signal has come since (main.cpp:416-432).
Settled == \A d \in installed : pos[d] = target[d]

DecidedOn(fanOn) == pc # "lamina" /\ pc' = "lamina" /\ fanOn

FanWhenSettled ==
    [][DecidedOn(fan') /\ sure => Settled /\ \E d \in Damper : pos[d] # 0]_vars

\* The laminar fan never runs on without the main fan, longer than from one switch
\* of task_control_fan to the next (main.cpp:441-445).
LaminaNeedsFan == lamina /\ ~fan => pc = "lamina"

\* Every motion ends, a spurious endstop signal or a reset on the way included: when
\* no more targets are set, the motors stop (main.cpp:398-409).
MotorsStop ==
    <>[](pc # "set" /\ installed # {}) =>
        <>[](\A d \in installed : pos[d] = target[d] /\ ~motor[d])

\* ... and the main fan ends up running exactly when it is wanted and not all dampers
\* count as closed, though it may have stopped and started on the way.
FanEndsRight ==
    <>[](pc # "set" /\ installed # {}) =>
        <>[](pc = "pjon" => (fan <=> fan_target /\ \E d \in Damper : pos[d] # 0))

\* A damper that is to close and whose endstop does not signal is reported, unless
\* its target changes (main.cpp:393-396, :450-460).
TimeoutReported ==
    \A d \in Damper :
        (d \in broken \cap installed /\ ~endstop[d] /\ target[d] = 0 /\ pos[d] # 0) ~>
            (reported[d] \/ target[d] # 0 \/ d \notin installed)

(* What the texts of the firmware say and the code does not do.            *)

\* "note: fan won't start if all dampers closed" (README.md:39).
FanStaysOffWhenClosed ==
    [][~fan /\ fan' => \E d \in Damper : target[d] # 0]_vars
=============================================================================
