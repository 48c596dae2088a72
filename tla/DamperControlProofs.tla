------------------------ MODULE DamperControlProofs ------------------------
(***************************************************************************)
(* For every number of dampers, every open position, every turn that fits  *)
(* the counter and every number of faults: the types of a microcontroller, *)
(* that its laminar fan depends on its main fan, that its time counters    *)
(* follow the blades and that no working endstop is reported.              *)
(***************************************************************************)
EXTENDS DamperControl, TLAPS

\* Why the counter of a homed damper is right: a signal waits only while the blade is
\* at the endstop and the motor runs; while the motor runs the counter is the
\* position, and when it has stopped the blade has run on by one tick.
InStep(d) ==
    /\ endstop[d] => motor[d] /\ travel[d] = 0
    /\ ~endstop[d] /\ motor[d] => travel[d] = pos[d]
    /\ ~endstop[d] /\ ~motor[d] => travel[d] = pos[d] + 1

HomedInStep == \A d \in Damper : homed[d] => d \notin broken /\ d \in installed /\ InStep(d)

-----------------------------------------------------------------------------
(* Arithmetic of the counter.                                              *)

\* The counter stays within its width (main.cpp:402).
LEMMA CountedType ==
    ASSUME TypeOK, NEW d \in Damper
    PROVE  Synced(d) \in Pos /\ Counted(d) \in Pos
<1>1. PosMod \in Nat \ {0, 1} /\ pos[d] \in 0..(PosMod - 1)
  BY PosAssumption DEF TypeOK, Pos
<1>2. Synced(d) \in 0..(PosMod - 1)
  BY <1>1 DEF Synced
<1>3. (Synced(d) + 1) % PosMod \in 0..(PosMod - 1)
  BY <1>1, <1>2
<1>4. QED
  BY <1>2, <1>3 DEF Counted, Pos

\* ... and is incremented without wrapping while it is short of a turn.
LEMMA NoWrap ==
    ASSUME NEW i \in Nat, i < MaxTurn
    PROVE  (i + 1) % PosMod = i + 1
BY PosAssumption, TurnAssumption

\* The targets fit the counter (main.cpp:188-193).
LEMMA TargetType ==
    ASSUME TypeOK, NEW d \in Damper, NEW c \in DamperCmd
    PROVE  TargetOf(d, c) \in Pos
<1>1. PosMod \in Nat \ {0, 1} /\ open_pos[d] \in 0..(PosMod - 1)
  BY PosAssumption DEF TypeOK, Pos
<1>2. open_pos[d] \div 2 \in 0..(PosMod - 1)
  BY <1>1
<1>3. QED
  BY <1>1, <1>2 DEF TargetOf, DamperCmd, Pos

\* A blade keeps to its turn.
LEMMA MovedType ==
    ASSUME TypeOK, NEW d \in Damper
    PROVE  Moved(d) \in Blade
BY TurnAssumption DEF TypeOK, Moved, Blade

\* The state after a reset is of the right type.
LEMMA StartType ==
    /\ 0 \in Damper /\ 0 \in Pos /\ 1 \in Pos /\ DefaultPos \in Pos
    /\ 0 \in Blade
    /\ 0 \in 0..MaxFaults
BY DamperAssumption, PosAssumption, TurnAssumption, FaultAssumption
   DEF Damper, Pos, Blade

\* The fault budget stays a budget.
LEMMA FaultType ==
    ASSUME TypeOK, Fault PROVE faults' \in 0..MaxFaults
BY FaultAssumption DEF TypeOK, Fault

\* The loops over the dampers stay within them.
LEMMA NextDamper ==
    ASSUME NEW i \in Damper, i + 1 < NumDamper
    PROVE  i + 1 \in Damper
BY DamperAssumption DEF Damper

-----------------------------------------------------------------------------
(* The types.                                                              *)

\* Whatever happens, every variable keeps to its type, the 8-bit counter and the
\* index of every loop among them (main.cpp, the whole of the loop and its
\* interrupts).
THEOREM TypeCorrect == Spec => []TypeOK
<1>1. Init => TypeOK
  <2> SUFFICES ASSUME Init
               PROVE  TypeOK
    OBVIOUS
  <2>1. cmd \in [Damper -> DamperCmd]
    BY DEF Init, NoCmd, DamperCmd
  <2>2. QED
    BY <2>1, StartType DEF Init, TypeOK
<1>2. TypeOK /\ [Next]_vars => TypeOK'
  <2> SUFFICES ASSUME TypeOK, [Next]_vars
               PROVE  TypeOK'
    OBVIOUS
  <2>1. CASE Tick
    <3>1. pos' \in [Damper -> Pos]
      BY <2>1, CountedType DEF Tick, TypeOK
    <3>2. travel' \in [Damper -> Blade]
      BY <2>1, MovedType DEF Tick, TypeOK
    <3>3. /\ endstop' \in [Damper -> BOOLEAN]
          /\ overflowed' \in [Damper -> BOOLEAN]
          /\ motor' \in [Damper -> BOOLEAN]
      BY <2>1 DEF Tick, TypeOK, Turning, TimedOut
    <3>4. QED
      BY <2>1, <3>1, <3>2, <3>3
         DEF Tick, TypeOK, fanVars, confVars, loopVars
  <2>2. ASSUME NEW d \in Damper, PassEndstop(d)
        PROVE  TypeOK'
    <3>1. endstop' \in [Damper -> BOOLEAN]
      BY <2>2 DEF PassEndstop, CheckEndstops, TypeOK, Accepts
    <3>2. travel' \in [Damper -> Blade]
      BY <2>2, StartType DEF PassEndstop, TypeOK
    <3>3. homed' \in [Damper -> BOOLEAN] /\ reported' \in [Damper -> BOOLEAN]
      BY <2>2 DEF PassEndstop, TypeOK
    <3>4. QED
      BY <2>2, <3>1, <3>2, <3>3
         DEF PassEndstop, TypeOK, fanVars, confVars, loopVars
  <2>3. ASSUME NEW d \in Damper, Glitch(d)
        PROVE  TypeOK'
    <3>1. endstop' \in [Damper -> BOOLEAN]
      BY <2>3 DEF Glitch, CheckEndstops, TypeOK, Accepts
    <3>2. homed' \in [Damper -> BOOLEAN] /\ sure' \in BOOLEAN
      BY <2>3 DEF Glitch, TypeOK
    <3>3. faults' \in 0..MaxFaults
      BY <2>3, FaultType DEF Glitch
    <3>4. QED
      BY <2>3, <3>1, <3>2, <3>3 DEF Glitch, TypeOK, fanVars
  <2>4. ASSUME NEW c \in [Damper -> DamperCmd], NEW fanOn \in BOOLEAN,
               NEW laminaOn \in BOOLEAN, NEW didreachall \in BOOLEAN,
               Command(c, fanOn, laminaOn, didreachall)
        PROVE  TypeOK'
    <3>1. fan_target' \in BOOLEAN /\ fanlamina_target' \in BOOLEAN
      BY <2>4 DEF Command, TypeOK
    <3>2. QED
      BY <2>4, <3>1, StartType DEF Command, TypeOK, isrVars, confVars
  <2>5. ASSUME NEW c \in DamperCmd, SerialCommand(c)
        PROVE  TypeOK'
    BY <2>5, StartType DEF SerialCommand, TypeOK, isrVars, fanVars, confVars
  <2>6. ASSUME NEW p \in [Damper -> OpenPos], UpdateSettings(p)
        PROVE  TypeOK'
    BY <2>6, PosAssumption DEF UpdateSettings, TypeOK, isrVars, fanVars, loopVars
  <2>7. ASSUME NEW s \in Installs, UpdateInstalled(s)
        PROVE  TypeOK'
    BY <2>7, ConfAssumption DEF UpdateInstalled, TypeOK, fanVars, loopVars
  <2>8. CASE ControlFan
    <3>1. sure' \in BOOLEAN
      BY <2>8 DEF ControlFan
    <3>2. QED
      BY <2>8, <3>1, StartType DEF ControlFan, TypeOK, isrVars, confVars
  <2>9. CASE SetTarget
    <3>1. target' \in [Damper -> Pos]
      BY <2>9, TargetType DEF SetTarget, TypeOK
    <3>2. k' \in Damper /\ pc' \in {"set", "pjon"}
      BY <2>9, NextDamper, StartType DEF SetTarget, TypeOK
    <3>3. cmd' \in [Damper -> DamperCmd]
      BY <2>9 DEF SetTarget, TypeOK, NoCmd, DamperCmd
    <3>4. QED
      BY <2>9, <3>1, <3>2, <3>3 DEF SetTarget, TypeOK, isrVars, fanVars, confVars
  <2>10. CASE ReadReached
    <3>1. k' \in Damper /\ pc' \in {"reached", "closed", "lamina"} /\ fan' \in BOOLEAN
      BY <2>10, NextDamper, StartType DEF ReadReached, TypeOK
    <3>2. rv' \in BOOLEAN /\ sure' \in BOOLEAN
      BY <2>10 DEF ReadReached, TypeOK, AtTarget
    <3>3. QED
      BY <2>10, <3>1, <3>2 DEF ReadReached, TypeOK, isrVars, confVars
  <2>11. CASE ReadClosed
    <3>1. k' \in Damper /\ pc' \in {"closed", "lamina"}
      BY <2>11, NextDamper, StartType DEF ReadClosed, TypeOK
    <3>2. rv' \in BOOLEAN /\ fan' \in BOOLEAN /\ sure' \in BOOLEAN
      BY <2>11 DEF ReadClosed, TypeOK
    <3>3. QED
      BY <2>11, <3>1, <3>2 DEF ReadClosed, TypeOK, isrVars, confVars
  <2>12. CASE ControlLamina
    BY <2>12 DEF ControlLamina, TypeOK, isrVars, confVars
  <2>13. CASE ReadLamina
    <3>1. k' \in Damper /\ pc' \in {"lamina", "overflow"}
      BY <2>13, NextDamper, StartType DEF ReadLamina, TypeOK
    <3>2. rv' \in BOOLEAN /\ lamina' \in BOOLEAN
      BY <2>13 DEF ReadLamina, TypeOK, AtTarget, LaminaOn
    <3>3. QED
      BY <2>13, <3>1, <3>2 DEF ReadLamina, TypeOK, isrVars, confVars
  <2>14. CASE CheckOverflow
    <3>1. k' \in Damper /\ pc' \in {"overflow", "pjon"}
      BY <2>14, NextDamper, StartType DEF CheckOverflow, TypeOK
    <3>2. overflowed' \in [Damper -> BOOLEAN] /\ reported' \in [Damper -> BOOLEAN]
      BY <2>14 DEF CheckOverflow, TypeOK
    <3>3. QED
      BY <2>14, <3>1, <3>2 DEF CheckOverflow, TypeOK, fanVars, confVars
  <2>15. CASE Restart
    <3>1. cmd' \in [Damper -> DamperCmd]
      BY <2>15 DEF Restart, NoCmd, DamperCmd
    <3>2. faults' \in 0..MaxFaults
      BY <2>15, FaultType DEF Restart
    <3>3. QED
      BY <2>15, <3>1, <3>2, StartType DEF Restart, TypeOK
  <2>16. CASE UNCHANGED vars
    BY <2>16 DEF vars, isrVars, fanVars, confVars, loopVars, TypeOK
  <2>17. ASSUME NEW d \in Damper, Break(d)
         PROVE  TypeOK'
    <3>1. faults' \in 0..MaxFaults
      BY <2>17, FaultType DEF Break
    <3>2. homed' \in [Damper -> BOOLEAN] /\ broken' \subseteq Damper
      BY <2>17 DEF Break, TypeOK
    <3>3. QED
      BY <2>17, <3>1, <3>2 DEF Break, TypeOK, fanVars, loopVars
  <2>18. QED
    BY <2>1, <2>2, <2>3, <2>4, <2>5, <2>6, <2>7, <2>8, <2>9, <2>10, <2>11, <2>12,
       <2>13, <2>14, <2>15, <2>16, <2>17 DEF Next, Interrupt, Receive, Loop
<1>3. QED
  BY <1>1, <1>2, PTL DEF Spec

-----------------------------------------------------------------------------
(* The two fans.                                                           *)

\* The laminar fan runs without the main fan only between the two switches of
\* task_control_fan, whatever the interrupts do to the dampers that both switches look
\* at (main.cpp:416-448).
THEOREM LaminaSafe == Spec => []LaminaNeedsFan
<1>1. Init => LaminaNeedsFan
  BY DEF Init, LaminaNeedsFan
<1>2. TypeOK /\ LaminaNeedsFan /\ [Next]_vars => LaminaNeedsFan'
  <2> SUFFICES ASSUME TypeOK, LaminaNeedsFan, [Next]_vars
               PROVE  LaminaNeedsFan'
    OBVIOUS
  <2>1. ASSUME UNCHANGED <<fan, lamina>>, pc # "lamina" \/ pc' = "lamina"
        PROVE  LaminaNeedsFan'
    BY <2>1 DEF LaminaNeedsFan
  <2>2. CASE Interrupt
    BY <2>1, <2>2 DEF Interrupt, Tick, PassEndstop, Glitch, fanVars, loopVars
  <2>3. CASE Receive
    BY <2>1, <2>3
       DEF Receive, Command, SerialCommand, UpdateSettings, UpdateInstalled,
           fanVars, loopVars
  <2>4. CASE SetTarget \/ CheckOverflow
    BY <2>1, <2>4 DEF SetTarget, CheckOverflow, fanVars
  <2>5. CASE ControlFan
    BY <2>5 DEF ControlFan, LaminaNeedsFan
  <2>6. CASE ReadReached
    BY <2>6 DEF ReadReached, LaminaNeedsFan
  <2>7. CASE ReadClosed
    BY <2>7 DEF ReadClosed, LaminaNeedsFan
  <2>8. CASE ControlLamina
    BY <2>8 DEF ControlLamina, LaminaNeedsFan
  <2>9. CASE ReadLamina
    BY <2>9 DEF ReadLamina, LaminaOn, LaminaNeedsFan
  <2>10. CASE Restart
    BY <2>10 DEF Restart, LaminaNeedsFan
  <2>11. CASE UNCHANGED vars
    BY <2>1, <2>11 DEF vars, fanVars, loopVars
  <2>12. ASSUME NEW d \in Damper, Break(d)
         PROVE  LaminaNeedsFan'
    BY <2>1, <2>12 DEF Break, fanVars, loopVars
  <2>13. QED
    BY <2>2, <2>3, <2>4, <2>5, <2>6, <2>7, <2>8, <2>9, <2>10, <2>11, <2>12 DEF Next, Loop
<1>3. QED
  BY <1>1, <1>2, TypeCorrect, PTL DEF Spec

-----------------------------------------------------------------------------
(* The counter and the blade.                                              *)

\* A step that leaves a damper alone keeps it in step.
LEMMA StillInStep ==
    ASSUME HomedInStep, UNCHANGED <<pos, endstop, motor, travel, broken, homed, installed>>
    PROVE  HomedInStep'
BY DEF HomedInStep, InStep

\* The timer interrupt keeps a homed damper in step (main.cpp:382-411): it consumes the
\* signal, and counter and blade then advance together, the blade once more when the
\* motor stops and the counter alone when it starts.
LEMMA TickInStep ==
    ASSUME TypeOK, HomedInStep, Tick
    PROVE  HomedInStep'
<1> SUFFICES ASSUME NEW d \in Damper, homed[d]
             PROVE  d \notin broken' /\ d \in installed' /\ InStep(d)'
  BY DEF HomedInStep, Tick
<1>1. d \notin broken /\ d \in installed /\ InStep(d)
  BY DEF HomedInStep
<1>2. /\ pos'[d] = Counted(d) /\ ~endstop'[d] /\ motor'[d] = Turning(d)
      /\ travel'[d] = Moved(d) /\ installed' = installed /\ broken' = broken
  BY <1>1 DEF Tick, confVars, TypeOK
<1>3. /\ pos[d] \in Nat /\ travel[d] \in 0..MaxTurn /\ MaxTurn \in Nat
      /\ motor[d] \in BOOLEAN /\ endstop[d] \in BOOLEAN
  BY PosAssumption, TurnAssumption DEF TypeOK, Pos, Blade
<1>4. motor[d] => travel[d] < MaxTurn /\ Moved(d) = travel[d] + 1
  <2>1. motor[d] => travel[d] # MaxTurn
    BY <1>1 DEF Tick, EndstopDue
  <2>2. QED
    BY <1>3, <2>1 DEF Moved
<1>5. CASE endstop[d]
  <2>1. travel'[d] = 1
    BY <1>1, <1>2, <1>4, <1>5 DEF InStep
  <2>2. 0 < MaxTurn
    BY <1>1, <1>3, <1>4, <1>5 DEF InStep
  <2>3. pos'[d] = IF Turning(d) THEN 1 ELSE 0
    BY <1>2, <1>5, <2>2, NoWrap DEF Counted, Synced
  <2>4. QED
    BY <1>1, <1>2, <2>1, <2>3 DEF InStep
<1>6. CASE ~endstop[d] /\ motor[d]
  <2>1. travel[d] = pos[d] /\ travel'[d] = pos[d] + 1 /\ pos[d] < MaxTurn
    BY <1>1, <1>2, <1>4, <1>6 DEF InStep
  <2>2. pos'[d] = IF Turning(d) THEN pos[d] + 1 ELSE pos[d]
    BY <1>2, <1>3, <1>6, <2>1, NoWrap DEF Counted, Synced
  <2>3. QED
    BY <1>1, <1>2, <2>1, <2>2 DEF InStep
<1>7. CASE ~endstop[d] /\ ~motor[d]
  <2>1. travel[d] = pos[d] + 1 /\ travel'[d] = pos[d] + 1
    BY <1>1, <1>2, <1>7 DEF InStep, Moved
  <2>2. pos[d] < MaxTurn
    BY <1>3, <2>1
  <2>3. pos'[d] = IF Turning(d) THEN pos[d] + 1 ELSE pos[d]
    BY <1>2, <1>3, <1>7, <2>2, NoWrap DEF Counted, Synced
  <2>4. QED
    BY <1>1, <1>2, <2>1, <2>3 DEF InStep
<1>8. QED
  BY <1>1, <1>2, <1>3, <1>5, <1>6, <1>7

\* An endstop interrupt keeps the other dampers in step although it looks at all pins
\* (main.cpp:343-353): a blade it finds at its endstop has moved no further.
LEMMA EndstopInStep ==
    ASSUME TypeOK, HomedInStep, NEW d \in Damper, PassEndstop(d) \/ Glitch(d)
    PROVE  HomedInStep'
<1> SUFFICES ASSUME NEW e \in Damper, homed'[e]
             PROVE  e \notin broken' /\ e \in installed' /\ InStep(e)'
  BY DEF HomedInStep
<1>1. /\ endstop'[e] = (endstop[e] \/ (motor[e] /\ e \in AtEndstop \union {d}))
      /\ motor'[e] = motor[e] /\ pos'[e] = pos[e] /\ installed' = installed
      /\ broken' = broken
  BY DEF PassEndstop, Glitch, CheckEndstops, Accepts, confVars
<1>2. CASE e # d
  <2>1. homed[e] /\ travel'[e] = travel[e]
    BY <1>2 DEF PassEndstop, Glitch, TypeOK
  <2>2. e \notin broken /\ e \in installed /\ InStep(e)
    BY <2>1 DEF HomedInStep
  <2>3. e \in AtEndstop \union {d} => travel[e] = 0
    BY <1>2 DEF AtEndstop
  <2>4. QED
    BY <1>1, <2>1, <2>2, <2>3 DEF InStep
<1>3. CASE e = d /\ PassEndstop(d)
  <2>1. d \notin broken /\ d \in installed /\ travel'[d] = 0 /\ motor[d]
    BY <1>3 DEF PassEndstop, TypeOK
  <2>2. QED
    BY <1>1, <1>3, <2>1 DEF InStep
<1>4. CASE e = d /\ Glitch(d)
  <2>1. homed[d] /\ ~motor[d] /\ travel' = travel
    BY <1>4 DEF Glitch, TypeOK
  <2>2. d \notin broken /\ d \in installed /\ InStep(d)
    BY <1>4, <2>1 DEF HomedInStep
  <2>3. QED
    BY <1>1, <1>4, <2>1, <2>2 DEF InStep
<1>5. QED
  BY <1>2, <1>3, <1>4

LEMMA InitInStep == Init => HomedInStep
BY DEF Init, HomedInStep

LEMMA StepInStep == TypeOK /\ HomedInStep /\ [Next]_vars => HomedInStep'
<1> SUFFICES ASSUME TypeOK, HomedInStep, [Next]_vars
             PROVE  HomedInStep'
  OBVIOUS
<1>1. CASE Tick
  BY <1>1, TickInStep
<1>2. CASE \E d \in Damper : PassEndstop(d) \/ Glitch(d)
  BY <1>2, EndstopInStep
<1>3. ASSUME NEW s \in Installs, UpdateInstalled(s)
      PROVE  HomedInStep'
  BY <1>3 DEF UpdateInstalled, HomedInStep, InStep
<1>4. CASE Restart
  BY <1>4 DEF Restart, HomedInStep
<1>5. ASSUME NEW c \in [Damper -> DamperCmd], NEW fanOn \in BOOLEAN,
             NEW laminaOn \in BOOLEAN, NEW didreachall \in BOOLEAN,
             Command(c, fanOn, laminaOn, didreachall)
      PROVE  HomedInStep'
  BY <1>5, StillInStep DEF Command, isrVars, confVars
<1>6. ASSUME NEW c \in DamperCmd, SerialCommand(c)
      PROVE  HomedInStep'
  BY <1>6, StillInStep DEF SerialCommand, isrVars, confVars
<1>7. ASSUME NEW p \in [Damper -> OpenPos], UpdateSettings(p)
      PROVE  HomedInStep'
  BY <1>7, StillInStep DEF UpdateSettings, isrVars
<1>8. CASE ControlFan \/ Loop
  BY <1>8, StillInStep
     DEF ControlFan, Loop, SetTarget, ReadReached, ReadClosed, ControlLamina,
         ReadLamina, CheckOverflow, isrVars, confVars
<1>9. CASE UNCHANGED vars
  BY <1>9, StillInStep DEF vars, isrVars, confVars
<1>10. ASSUME NEW d \in Damper, Break(d)
       PROVE  HomedInStep'
  BY <1>10 DEF Break, HomedInStep, InStep, TypeOK
<1>11. QED
  BY <1>1, <1>2, <1>3, <1>4, <1>5, <1>6, <1>7, <1>8, <1>9, <1>10
     DEF Next, Interrupt, Receive

\* For every open position and length of a turn, a damper that has passed its endstop
\* is where its time counter says, one tick of run-on aside, after any sequence of
\* starts, stops and changes of target (main.cpp:375-411).
THEOREM CounterSynced == Spec => []CounterTracksBlade
<1>1. TypeOK /\ HomedInStep => CounterTracksBlade
  BY DEF TypeOK, HomedInStep, InStep, CounterTracksBlade
<1>2. QED
  BY <1>1, InitInStep, StepInStep, TypeCorrect, PTL DEF Spec

-----------------------------------------------------------------------------
(* No false alarm.                                                         *)

\* Why the counter of a damper whose endstop works never reaches its end: it is ahead
\* of the blade by the tick a start takes and the one the reset value is off, and a
\* turn of the blade is shorter than the counter is wide by more than that.
Ahead(d) == travel[d] + (IF motor[d] THEN 2 ELSE 1)

NotFarAhead == \A d \in Damper \ broken : ~overflowed[d] /\ Synced(d) <= Ahead(d)

\* A step that does not touch a damper, but may clear its alarm, keeps its counter
\* close to the blade.
LEMMA StillNotFarAhead ==
    ASSUME NotFarAhead, UNCHANGED <<pos, endstop, motor, travel, broken>>,
           \A d \in Damper \ broken : overflowed'[d] => overflowed[d]
    PROVE  NotFarAhead'
BY DEF NotFarAhead, Ahead, Synced

\* The timer interrupt (main.cpp:382-411): the counter advances only towards a tick in
\* which the motor runs, and the motor runs into the endstop before the counter ends.
LEMMA TickNotFarAhead ==
    ASSUME TypeOK, NotFarAhead, Tick
    PROVE  NotFarAhead'
<1> SUFFICES ASSUME NEW d \in Damper \ broken
             PROVE  ~overflowed'[d] /\ Synced(d)' <= Ahead(d)'
  BY DEF NotFarAhead, Tick
<1>1. ~overflowed[d] /\ Synced(d) <= Ahead(d)
  BY DEF NotFarAhead
<1>2. /\ PosMod \in Nat /\ MaxTurn \in Nat /\ MaxTurn + 2 < PosMod
      /\ pos[d] \in Nat /\ travel[d] \in 0..MaxTurn
      /\ motor[d] \in BOOLEAN /\ endstop[d] \in BOOLEAN
  BY PosAssumption, TurnAssumption DEF TypeOK, Pos, Blade
<1>3. Synced(d) \in Nat /\ Synced(d) + 1 \in Nat /\ Synced(d) < MaxTurn + 2
  <2>1. motor[d] => travel[d] < MaxTurn
    BY <1>2 DEF Tick, EndstopDue
  <2>2. QED
    BY <1>1, <1>2, <2>1 DEF Synced, Ahead
<1>4. travel'[d] = (IF motor[d] THEN travel[d] + 1 ELSE travel[d])
  BY <1>2 DEF Tick, EndstopDue, Moved, TypeOK
<1>5. ~overflowed'[d]
  BY <1>1, <1>2, <1>3 DEF Tick, TimedOut, TypeOK
<1>6. CASE d \in installed
  <2>1. pos'[d] = Counted(d) /\ ~endstop'[d] /\ motor'[d] = Turning(d)
    BY <1>6 DEF Tick, TypeOK
  <2>2. (Synced(d) + 1) % PosMod = Synced(d) + 1
    BY <1>2, <1>3
  <2>3. Synced(d)' = IF Turning(d) THEN Synced(d) + 1 ELSE Synced(d)
    BY <2>1, <2>2 DEF Synced, Counted
  <2>4. Synced(d) <= travel[d] + (IF motor[d] THEN 2 ELSE 1)
    BY <1>1 DEF Ahead
  <2>5. Ahead(d)' = travel'[d] + (IF Turning(d) THEN 2 ELSE 1)
    BY <2>1 DEF Ahead
  <2>6. QED
    BY <1>2, <1>3, <1>4, <1>5, <2>3, <2>4, <2>5
<1>7. CASE d \notin installed
  <2>1. pos'[d] = pos[d] /\ endstop'[d] = endstop[d] /\ motor'[d] = motor[d]
    BY <1>7, <1>2 DEF Tick, TypeOK
  <2>2. QED
    BY <1>1, <1>2, <1>4, <1>5, <2>1 DEF Synced, Ahead
<1>8. QED
  BY <1>6, <1>7

\* An endstop interrupt (main.cpp:343-353): a blade goes back to 0 only together with
\* its counter, for it got to its endstop with its motor running.
LEMMA EndstopNotFarAhead ==
    ASSUME TypeOK, NotFarAhead, NEW d \in Damper, PassEndstop(d) \/ Glitch(d)
    PROVE  NotFarAhead'
<1> SUFFICES ASSUME NEW e \in Damper \ broken
             PROVE  ~overflowed'[e] /\ Synced(e)' <= Ahead(e)'
  BY DEF NotFarAhead, PassEndstop, Glitch
<1>1. ~overflowed[e] /\ Synced(e) <= Ahead(e) /\ overflowed' = overflowed
  BY DEF NotFarAhead, PassEndstop, Glitch
<1>2. pos[e] \in Nat /\ travel[e] \in Nat /\ motor[e] \in BOOLEAN
  BY PosAssumption, TurnAssumption DEF TypeOK, Pos, Blade
<1>3. /\ endstop'[e] = (endstop[e] \/ (motor[e] /\ e \in AtEndstop \union {d}))
      /\ motor'[e] = motor[e] /\ pos'[e] = pos[e]
  BY DEF PassEndstop, Glitch, CheckEndstops, Accepts
<1>4. CASE e = d /\ PassEndstop(d)
  <2>1. motor[e] /\ endstop'[e] /\ travel'[e] = 0
    BY <1>3, <1>4 DEF PassEndstop, TypeOK
  <2>2. Synced(e)' = 0 /\ Ahead(e)' = 2
    BY <1>3, <2>1 DEF Synced, Ahead
  <2>3. QED
    BY <1>1, <2>2
<1>5. CASE ~(e = d /\ PassEndstop(d))
  <2>1. travel'[e] = travel[e]
    BY <1>5 DEF PassEndstop, Glitch, TypeOK
  <2>2. Ahead(e)' = Ahead(e) /\ Ahead(e) \in Nat
    BY <1>2, <1>3, <2>1 DEF Ahead
  <2>3. Synced(e)' = Synced(e) \/ Synced(e)' = 0
    BY <1>3 DEF Synced
  <2>4. QED
    BY <1>1, <2>2, <2>3
<1>6. QED
  BY <1>4, <1>5

\* For every width of the counter and every turn that fits it, no damper whose endstop
\* works is ever reported, whatever commands, spurious signals, settings and resets
\* come while it turns (main.cpp:382-411).
THEOREM NeverFalseAlarm == Spec => []NoFalseAlarm
<1>1. Init => NotFarAhead
  <2> SUFFICES ASSUME Init, NEW d \in Damper
               PROVE  ~overflowed[d] /\ Synced(d) <= Ahead(d)
    BY DEF NotFarAhead
  <2>1. pos[d] = 1 /\ ~endstop[d] /\ ~overflowed[d] /\ ~motor[d] /\ travel[d] \in Nat
    BY TurnAssumption DEF Init, Blade
  <2>2. QED
    BY <2>1 DEF Synced, Ahead
<1>2. TypeOK /\ NotFarAhead /\ [Next]_vars => NotFarAhead'
  <2> SUFFICES ASSUME TypeOK, NotFarAhead, [Next]_vars
               PROVE  NotFarAhead'
    OBVIOUS
  <2>1. CASE Tick
    BY <2>1, TickNotFarAhead
  <2>2. CASE \E d \in Damper : PassEndstop(d) \/ Glitch(d)
    BY <2>2, EndstopNotFarAhead
  <2>3. CASE Receive
    BY <2>3, StillNotFarAhead
       DEF Receive, Command, SerialCommand, UpdateSettings, UpdateInstalled, isrVars
  <2>4. CASE ControlFan \/ SetTarget \/ ReadReached \/ ReadClosed \/ ControlLamina
             \/ ReadLamina \/ UNCHANGED vars
    BY <2>4, StillNotFarAhead
       DEF ControlFan, SetTarget, ReadReached, ReadClosed, ControlLamina, ReadLamina,
           vars, isrVars
  <2>5. CASE CheckOverflow
    <3>1. \A d \in Damper \ broken : overflowed'[d] => overflowed[d]
      BY <2>5 DEF CheckOverflow, TypeOK
    <3>2. QED
      BY <2>5, <3>1, StillNotFarAhead DEF CheckOverflow
  <2>6. CASE Restart
    <3> SUFFICES ASSUME NEW d \in Damper
                 PROVE  ~overflowed'[d] /\ Synced(d)' <= Ahead(d)'
      BY DEF NotFarAhead
    <3>1. /\ pos'[d] = 1 /\ ~endstop'[d] /\ ~overflowed'[d] /\ ~motor'[d]
          /\ travel'[d] \in Nat
      BY <2>6, TurnAssumption DEF Restart, TypeOK, Blade
    <3>2. QED
      BY <3>1 DEF Synced, Ahead
  <2>7. ASSUME NEW d \in Damper, Break(d)
        PROVE  NotFarAhead'
    BY <2>7 DEF Break, NotFarAhead, Synced, Ahead
  <2>8. QED
    BY <2>1, <2>2, <2>3, <2>4, <2>5, <2>6, <2>7 DEF Next, Interrupt, Loop
<1>3. NotFarAhead => NoFalseAlarm
  BY DEF NotFarAhead, NoFalseAlarm
<1>4. QED
  BY <1>1, <1>2, <1>3, TypeCorrect, PTL DEF Spec

-----------------------------------------------------------------------------
(* The decision on the main fan.                                           *)

\* A command asks for no position beyond a turn.
TargetsInTurn == \A d \in Damper : target[d] < MinTurn /\ open_pos[d] < MinTurn

\* Why a damper that is seen at its target stays there: the signal it may be waiting to
\* consume came as it passed its endstop, so its counter is that of a whole turn, or
\* 0 already, and not that of a target off closed.
Timely(d) ==
    /\ homed[d] \/ d \in broken
    /\ endstop[d] => pos[d] = 0 \/ pos[d] >= MinTurn

\* What task_control_fan may rely on between its reads.
Deciding ==
    sure => /\ pc \in {"reached", "closed"}
            /\ \A d \in installed : Timely(d)
            /\ \A d \in installed : pc = "closed" \/ (rv /\ d < k) => pos[d] = target[d]
            /\ pc = "closed" /\ ~rv => \E d \in Damper : pos[d] # 0

DecisionInv == TypeOK /\ HomedInStep /\ TargetsInTurn /\ Deciding

LEMMA DecisionBegin == Init => Deciding
BY DEF Init, Deciding

\* The targets of a command are within a turn when the open positions are
\* (main.cpp:185-195).
LEMMA TargetsStayInTurn ==
    ASSUME \A p \in OpenPos \union {DefaultPos} : p < MinTurn,
           TypeOK, TargetsInTurn, [Next]_vars
    PROVE  TargetsInTurn'
<1>1. 0 < MinTurn
  BY TurnAssumption
<1>2. CASE SetTarget
  <2>1. \A c \in DamperCmd : TargetOf(k, c) < MinTurn
    <3>1. open_pos[k] \in Nat /\ open_pos[k] < MinTurn /\ MinTurn \in Nat
      BY PosAssumption, TurnAssumption DEF TypeOK, Pos, TargetsInTurn
    <3>2. open_pos[k] \div 2 < MinTurn
      BY <3>1
    <3>3. QED
      BY <1>1, <3>1, <3>2 DEF TargetOf, DamperCmd
  <2>2. target' = [target EXCEPT ![k] = TargetOf(k, cmd[k])] /\ open_pos' = open_pos
    BY <1>2 DEF SetTarget, confVars
  <2>3. cmd[k] \in DamperCmd
    BY DEF TypeOK
  <2>4. QED
    BY <2>1, <2>2, <2>3 DEF TypeOK, TargetsInTurn
<1>3. ASSUME NEW p \in [Damper -> OpenPos], UpdateSettings(p) PROVE TargetsInTurn'
  BY <1>3 DEF UpdateSettings, TargetsInTurn
<1>4. CASE Restart
  BY <1>1, <1>4 DEF Restart, TargetsInTurn
<1>5. CASE UNCHANGED <<target, open_pos>>
  BY <1>5 DEF TargetsInTurn
<1>6. CASE Interrupt \/ ControlFan \/ (Loop /\ ~SetTarget) \/ \E d \in Damper : Break(d)
  BY <1>5, <1>6
     DEF Interrupt, Tick, PassEndstop, Glitch, Break, ControlFan, Loop, ReadReached,
         ReadClosed, ControlLamina, ReadLamina, CheckOverflow, confVars
<1>7. ASSUME NEW c \in [Damper -> DamperCmd], NEW fanOn \in BOOLEAN,
             NEW laminaOn \in BOOLEAN, NEW didreachall \in BOOLEAN,
             Command(c, fanOn, laminaOn, didreachall)
      PROVE  TargetsInTurn'
  BY <1>5, <1>7 DEF Command, confVars
<1>8. ASSUME NEW c \in DamperCmd, SerialCommand(c) PROVE TargetsInTurn'
  BY <1>5, <1>8 DEF SerialCommand, confVars
<1>9. ASSUME NEW s \in Installs, UpdateInstalled(s) PROVE TargetsInTurn'
  BY <1>5, <1>9 DEF UpdateInstalled
<1>10. CASE UNCHANGED vars
  BY <1>5, <1>10 DEF vars, confVars
<1>11. QED
  BY <1>2, <1>3, <1>4, <1>6, <1>7, <1>8, <1>9, <1>10 DEF Next, Receive

\* The timer interrupt takes no damper away from the target it was seen at
\* (main.cpp:382-411).
LEMMA TickDeciding ==
    ASSUME DecisionInv, sure, Tick
    PROVE  Deciding'
<1>1. /\ pc' = pc /\ k' = k /\ rv' = rv /\ sure' = sure /\ target' = target
      /\ installed' = installed /\ homed' = homed /\ broken' = broken
  BY DEF Tick, confVars, loopVars
<1>2. \A d \in installed : Timely(d)'
  BY <1>1 DEF Tick, DecisionInv, TypeOK, Deciding, Timely
<1>3. ASSUME NEW d \in installed, pos[d] = target[d]
      PROVE  pos'[d] = pos[d]
  <2>1. /\ d \in Damper /\ pos[d] \in Nat /\ MinTurn \in Nat /\ target[d] < MinTurn
        /\ Timely(d)
    BY PosAssumption, TurnAssumption DEF DecisionInv, TypeOK, Pos, TargetsInTurn, Deciding
  <2>2. Synced(d) = pos[d]
    BY <1>3, <2>1 DEF Synced, Timely
  <2>3. Counted(d) = pos[d]
    BY <1>3, <2>2 DEF Counted, Turning
  <2>4. QED
    BY <2>1, <2>3 DEF Tick
<1>4. ASSUME pc = "closed" PROVE pos' = pos
  <2>1. \A d \in installed : pos'[d] = pos[d]
    BY <1>3, <1>4 DEF DecisionInv, Deciding
  <2>2. \A d \in Damper \ installed : pos'[d] = pos[d]
    BY DEF Tick
  <2>3. pos \in [Damper -> Pos] /\ pos' = [d \in Damper |-> pos'[d]]
    BY DEF Tick, DecisionInv, TypeOK
  <2>4. QED
    BY <2>1, <2>2, <2>3
<1>5. QED
  BY <1>1, <1>2, <1>3, <1>4 DEF DecisionInv, Deciding

\* A damper whose endstop is passed, or found to be at its endstop, has not been seen at
\* a target off closed (main.cpp:343-353).
LEMMA EndstopDeciding ==
    ASSUME DecisionInv, sure, NEW d \in Damper, PassEndstop(d) \/ Glitch(d)
    PROVE  Deciding'
<1> SUFFICES ASSUME sure' PROVE Deciding'
  BY DEF Deciding
<1>1. /\ pc' = pc /\ k' = k /\ rv' = rv /\ target' = target
      /\ installed' = installed /\ pos' = pos /\ broken' = broken
  BY DEF PassEndstop, Glitch, confVars, loopVars
<1>2. ASSUME NEW e \in installed
      PROVE  Timely(e)'
  <2>1. /\ e \in Damper /\ Timely(e) /\ pos[e] \in Nat /\ travel[e] \in Nat
        /\ MinTurn \in Nat \ {0}
    BY PosAssumption, TurnAssumption DEF DecisionInv, TypeOK, Pos, Blade, Deciding
  <2>2. endstop'[e] = (endstop[e] \/ (motor[e] /\ e \in AtEndstop \union {d}))
    BY <2>1 DEF PassEndstop, Glitch, CheckEndstops, Accepts
  <2>3. homed[e] => InStep(e)
    BY <2>1 DEF DecisionInv, HomedInStep
  <2>4. CASE e = d /\ PassEndstop(d)
    <3>1. homed'[e] /\ homed[e] /\ motor[e] /\ travel[e] >= MinTurn
      BY <2>1, <2>4 DEF PassEndstop, DecisionInv, TypeOK, Timely
    <3>2. pos[e] >= MinTurn
      BY <2>1, <2>3, <3>1 DEF InStep
    <3>3. QED
      BY <1>1, <3>1, <3>2 DEF Timely
  <2>5. CASE e = d /\ Glitch(d)
    <3>1. ~motor[e] /\ homed'[e] = homed[e]
      BY <2>1, <2>5 DEF Glitch, DecisionInv, TypeOK
    <3>2. QED
      BY <1>1, <2>1, <2>2, <3>1 DEF Timely
  <2>6. CASE e # d
    <3>1. homed'[e] = homed[e]
      BY <2>1, <2>6 DEF PassEndstop, Glitch, DecisionInv, TypeOK
    <3>2. CASE endstop'[e] = endstop[e]
      BY <1>1, <2>1, <3>1, <3>2 DEF Timely
    <3>3. CASE endstop'[e] # endstop[e]
      <4>1. ~endstop[e] /\ motor[e] /\ e \notin broken /\ travel[e] = 0
        BY <2>1, <2>2, <2>6, <3>3 DEF AtEndstop, DecisionInv, TypeOK
      <4>2. pos[e] = 0
        BY <2>1, <2>3, <4>1 DEF InStep, Timely
      <4>3. QED
        BY <1>1, <2>1, <3>1, <4>2 DEF Timely
    <3>4. QED
      BY <3>2, <3>3
  <2>7. QED
    BY <2>4, <2>5, <2>6
<1>3. QED
  BY <1>1, <1>2 DEF DecisionInv, Deciding

\* The two loops of task_control_fan over the dampers (main.cpp:102-124, :135-148).
LEMMA ReadDeciding ==
    ASSUME DecisionInv, sure, ReadReached \/ ReadClosed
    PROVE  Deciding'
<1> SUFFICES ASSUME sure' PROVE Deciding'
  BY DEF Deciding
<1>1. /\ UNCHANGED <<pos, target, endstop, homed, broken, installed>>
      /\ installed \subseteq Damper /\ k \in Damper /\ rv \in BOOLEAN
  BY DEF ReadReached, ReadClosed, isrVars, confVars, DecisionInv, TypeOK
<1>2. \A d \in installed : Timely(d)'
  BY <1>1 DEF Timely, DecisionInv, Deciding
<1>3. CASE ReadReached
  <2>1. pc = "reached" /\ \A d \in installed : rv /\ d < k => pos[d] = target[d]
    BY <1>3 DEF ReadReached, DecisionInv, Deciding
  <2>2. CASE k + 1 < NumDamper
    <3>1. k' = k + 1 /\ rv' = (rv /\ AtTarget(k)) /\ pc' = pc
      BY <1>3, <2>2 DEF ReadReached
    <3>2. ASSUME NEW d \in installed, rv', d < k'
          PROVE  pos[d] = target[d]
      <4>1. d < k \/ d = k
        BY <1>1, <3>1, <3>2, DamperAssumption DEF Damper
      <4>2. QED
        BY <2>1, <3>1, <3>2, <4>1 DEF AtTarget
    <3>3. QED
      BY <1>1, <1>2, <2>1, <3>1, <3>2 DEF Deciding
  <2>3. CASE ~(k + 1 < NumDamper)
    <3>1. pc' = "closed" /\ rv' /\ rv /\ AtTarget(k)
      BY <1>3, <2>3 DEF ReadReached
    <3>2. ASSUME NEW d \in installed
          PROVE  pos[d] = target[d]
      <4>1. d < k \/ d = k
        BY <1>1, <2>3, DamperAssumption DEF Damper
      <4>2. QED
        BY <2>1, <3>1, <4>1 DEF AtTarget
    <3>3. QED
      BY <1>1, <1>2, <3>1, <3>2 DEF Deciding
  <2>4. QED
    BY <2>2, <2>3
<1>4. CASE ReadClosed
  <2>1. pc = "closed" /\ pc' = pc /\ k + 1 < NumDamper /\ rv' = (rv /\ pos[k] = 0)
    BY <1>4 DEF ReadClosed
  <2>2. QED
    BY <1>1, <1>2, <2>1 DEF DecisionInv, Deciding
<1>5. QED
  BY <1>3, <1>4

LEMMA StepDeciding ==
    ASSUME DecisionInv, [Next]_vars
    PROVE  Deciding'
<1>1. CASE sure
  <2>1. pc \in {"reached", "closed"}
    BY <1>1 DEF DecisionInv, Deciding
  <2>2. CASE Interrupt
    BY <1>1, <2>2, TickDeciding, EndstopDeciding DEF Interrupt
  <2>3. ~Receive /\ ~ControlFan
    BY <2>1
       DEF Receive, Command, SerialCommand, UpdateSettings, UpdateInstalled, ControlFan
  <2>4. CASE Loop
    BY <1>1, <2>1, <2>4, ReadDeciding
       DEF Loop, SetTarget, ControlLamina, ReadLamina, CheckOverflow
  <2>5. CASE Restart
    BY <2>5 DEF Restart, Deciding
  <2>6. ASSUME NEW d \in Damper, Break(d) PROVE Deciding'
    BY <2>6 DEF Break, DecisionInv, TypeOK, Deciding, Timely, loopVars
  <2>7. CASE UNCHANGED vars
    BY <2>7 DEF vars, isrVars, confVars, loopVars, DecisionInv, Deciding, Timely
  <2>8. QED
    BY <2>2, <2>3, <2>4, <2>5, <2>6, <2>7 DEF Next
<1>2. CASE ~sure /\ ControlFan
  <2> SUFFICES ASSUME sure' PROVE Deciding'
    BY DEF Deciding
  <2>1. /\ pc' = "reached" /\ k' = 0 /\ rv'
        /\ \A d \in installed : homed[d] /\ ~endstop[d]
        /\ UNCHANGED <<pos, target, endstop, homed, broken, installed>>
    BY <1>2 DEF ControlFan, isrVars, confVars
  <2>2. \A d \in installed : ~(d < 0)
    BY DamperAssumption DEF DecisionInv, TypeOK, Damper
  <2>3. QED
    BY <2>1, <2>2 DEF Deciding, Timely
<1>3. CASE ~sure /\ ~ControlFan
  <2>1. ~sure'
    BY <1>3
       DEF Next, vars, Interrupt, Tick, PassEndstop, Glitch, Break, Receive, Command,
           SerialCommand, UpdateSettings, UpdateInstalled, Loop, SetTarget, ReadReached,
           ReadClosed, ControlLamina, ReadLamina, CheckOverflow, Restart, loopVars
  <2>2. QED
    BY <2>1 DEF Deciding
<1>4. QED
  BY <1>1, <1>2, <1>3

\* When open positions are less than a turn, task_control_fan runs the main fan only
\* while all dampers are at their targets and one of them is off closed, although the
\* timer and the endstops interrupt it between its reads of the dampers
\* (main.cpp:416-432).
THEOREM FanStartsSettled ==
    ASSUME \A p \in OpenPos \union {DefaultPos} : p < MinTurn
    PROVE  Spec => FanWhenSettled
<1>1. Init => HomedInStep /\ TargetsInTurn /\ Deciding
  BY InitInStep, DecisionBegin, TurnAssumption DEF Init, TargetsInTurn
<1>2. DecisionInv /\ [Next]_vars => (HomedInStep /\ TargetsInTurn /\ Deciding)'
  BY StepInStep, TargetsStayInTurn, StepDeciding DEF DecisionInv
<1>3. DecisionInv /\ [Next]_vars =>
         [DecidedOn(fan') /\ sure => Settled /\ \E d \in Damper : pos[d] # 0]_vars
  <2> SUFFICES ASSUME DecisionInv, Next, pc # "lamina", pc' = "lamina", fan', sure
               PROVE  Settled /\ \E d \in Damper : pos[d] # 0
    BY DEF DecidedOn
  <2>1. pc \in {"reached", "closed"}
    BY DEF DecisionInv, Deciding
  <2>2. ReadClosed
    <3>1. ~Interrupt /\ ~Receive /\ ~ControlFan /\ ~Restart
      BY <2>1
         DEF Interrupt, Tick, PassEndstop, Glitch, Receive, Command, SerialCommand,
             UpdateSettings, UpdateInstalled, ControlFan, Restart, loopVars
    <3>2. ~ReadReached /\ \A d \in Damper : ~Break(d)
      BY DEF ReadReached, Break, loopVars
    <3>3. QED
      BY <2>1, <3>1, <3>2
         DEF Next, Loop, SetTarget, ControlLamina, ReadLamina, CheckOverflow
  <2>3. pc = "closed" /\ ~(rv /\ pos[k] = 0) /\ k \in Damper /\ rv \in BOOLEAN
    BY <2>2 DEF ReadClosed, DecisionInv, TypeOK
  <2>4. QED
    BY <2>3 DEF DecisionInv, Deciding, Settled
<1>4. QED
  BY <1>1, <1>2, <1>3, TypeCorrect, PTL DEF Spec, FanWhenSettled, DecisionInv
=============================================================================
