---------------------------- MODULE FanInterlock ----------------------------
(***************************************************************************)
(* What the chaincast of the firmware promises, without saying how: a      *)
(* microcontroller obeys the fan part of a command only when the command   *)
(* has been to the microcontrollers of all dampers (comm.cpp:203-206,      *)
(* main.cpp:154-158).  Commands are numbered in the order they are issued; *)
(* 0 is the state after a reset, everything closed and off.                *)
(***************************************************************************)
EXTENDS Naturals

CONSTANTS
    N,        \* microcontrollers, with the ids 1..N
    Damper,
    Owner,    \* the dampers wired to each microcontroller
    MaxCmd    \* bound on the number of commands issued

Node == 1..N
Cmd  == 1..MaxCmd

VARIABLES
    issued,   \* number of commands issued so far
    seen,     \* for each command, who has handled it
    target,   \* for each microcontroller, the command its dampers obey
    fan       \* for each microcontroller, the command its fan obeys

fanVars == <<issued, seen, target, fan>>

\* Every damper belongs to a member of the group.
Covers(group) == \A d \in Damper : \E k \in group : d \in Owner[k]

Init ==
    /\ issued = 0
    /\ seen = [c \in Cmd |-> {}]
    /\ target = [n \in Node |-> 0]
    /\ fan = [n \in Node |-> 0]

Issue ==
    /\ issued < MaxCmd
    /\ issued' = issued + 1
    /\ UNCHANGED <<seen, target, fan>>

\* The dampers obey at once, the fan only when all dampers were told.
Apply(n, c) ==
    /\ c <= issued
    /\ seen' = [seen EXCEPT ![c] = @ \union {n}]
    /\ target' = [target EXCEPT ![n] = c]
    /\ \/ UNCHANGED fan
       \/ Covers(seen[c] \union {n}) /\ fan' = [fan EXCEPT ![n] = c]
    /\ UNCHANGED issued

Reset(n) ==
    /\ target' = [target EXCEPT ![n] = 0]
    /\ fan' = [fan EXCEPT ![n] = 0]
    /\ UNCHANGED <<issued, seen>>

Next == Issue \/ \E n \in Node : Reset(n) \/ \E c \in Cmd : Apply(n, c)

Spec == Init /\ [][Next]_fanVars

\* A fan obeys a command only if the command has been to the owner of every
\* damper (comm.cpp:205, main.cpp:158).
FanGate == \A n \in Node : fan[n] # 0 => Covers(seen[fan[n]])
=============================================================================
