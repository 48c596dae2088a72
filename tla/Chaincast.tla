----------------------------- MODULE Chaincast -----------------------------
(***************************************************************************)
(* The chaincast between the microcontrollers on the PJON bus              *)
(* (firmware/dampercontrol/src/comm.cpp).  A command climbs the ladder of  *)
(* device ids, collecting in its reach field the dampers of everybody who  *)
(* handled it; once that field is full it descends again, and only then is *)
(* its fan part obeyed.                                                    *)
(*                                                                         *)
(* A command is its number: what a test can tell is which command a damper *)
(* or a fan obeys.  The bus is one queue per pair of nodes (external: the  *)
(* PJON library); a lost, doubled or overtaken packet, and a reset of a    *)
(* microcontroller, each cost one of MaxFaults.                            *)
(***************************************************************************)
EXTENDS Naturals, Sequences

CONSTANTS
    N,         \* microcontrollers, with the sequential ids 1..N
    Damper,
    Owner,     \* the dampers configured on each ("installed")
    MaxCmd,    \* bound on commands injected
    BufLen,    \* PJON_MSGBUF_LEN
    MaxFaults, \* bound on faults
    InjectAt,  \* microcontrollers with a serial host
    InjectDst  \* destinations the hosts write after '>'

Node == 1..N
Cmd  == 1..MaxCmd
Slot == 0..(BufLen - 1)

ASSUME NodeAssumption   == N \in Nat \ {0}
ASSUME OwnerAssumption  == Owner \in [Node -> SUBSET Damper]
ASSUME BoundAssumption  == MaxCmd \in Nat /\ MaxFaults \in Nat
ASSUME BufAssumption    == BufLen \in Nat \ {0}
ASSUME InjectAssumption == InjectAt \subseteq Node /\ InjectDst \subseteq 0..N

VARIABLES
    issued,    \* number of commands injected so far
    bus,       \* packets under way from one node to another
    slots,     \* pjon_msgbuf_, the receive ring of each node
    idx,       \* pjon_msgbuf_idx_
    busy,      \* the node is inside pjon_postrecv_handle_msg
    online,    \* the node has its id (pjon_device_id_)
    installed, \* damper_installed_
    target,    \* the command damper_target_states_ was last set by
    fan,       \* the command fan_target_state_ was last set by
    seen,      \* history: for each command, who has handled it
    faults     \* faults so far

vars == <<issued, bus, slots, idx, busy, online, installed, target, fan, seen, faults>>

\* A received packet; to is the id it was sent to, 0 for a broadcast.  An empty
\* slot is one of length 0: its command is 0.
Packet  == [to: 0..N, cmd: 0..MaxCmd, reach: SUBSET Damper]
NoPacket == [to |-> 0, cmd |-> 0, reach |-> {}]

-----------------------------------------------------------------------------
(* The receive ring.                                                       *)

\* Mutant: a slot is not emptied.
PutRingSticky(ring, i, p) == IF p.cmd = 0 THEN ring ELSE [ring EXCEPT ![i] = p]

\* pjon_recv_handler writes at the index, whether that slot was handled or not.
PutRing(ring, i, p) == [ring EXCEPT ![i] = p]

\* Mutant: the index runs past the last slot.
BumpPastEnd(i) == i + 1

Bump(i) == (i + 1) % BufLen

Occupied(ring) == {i \in Slot : ring[i].cmd # 0}

\* The scan of pjon_postrecv_handle_msg starts at the index: slot s is the first
\* occupied one from there, the oldest.
FirstFrom(ring, i, s) ==
    /\ s \in Occupied(ring)
    /\ \A t \in Occupied(ring) :
          (s + BufLen - i) % BufLen <= (t + BufLen - i) % BufLen

-----------------------------------------------------------------------------
(* The bus.                                                                *)

\* Mutant: a packet that descends is sent up.
AlwaysUp(n, all) == n + 1

\* The next id on the ladder (pjon_chaincast_forward).
NextId(n, all) == IF all THEN n - 1 ELSE n + 1

\* Mutant: one damper is enough.
DidReachAny(reach) == reach # {}

\* pjon_chaincast_didreachall.
DidReachAll(reach) == reach = Damper

\* pjonbus_.send from n: a packet to nobody's id is lost, id 0 is a broadcast.
Sent(b, n, p) ==
    [l \in Node \X Node |->
        IF l[1] = n /\ l[2] # n /\ p.to \in {0, l[2]} THEN Append(b[l], p) ELSE b[l]]

\* s without its i-th element.
Without(s, i) == SubSeq(s, 1, i - 1) \o SubSeq(s, i + 1, Len(s))

-----------------------------------------------------------------------------
(* A host injects the next command: ">" dst len payload with an empty reach*)
(* field.  pjon_inject_msg puts it in the own ring when it is for us, which*)
(* counts as sent to our own id even when dst is the broadcast id.         *)

Inject(n, dst) ==
    LET c == issued + 1
        forUs == dst = 0 \/ (online[n] /\ dst = n)
        forBus == dst = 0 \/ ~(online[n] /\ dst = n)
    IN
    /\ issued < MaxCmd
    /\ ~busy[n]
    /\ issued' = c
    /\ IF forUs
       THEN /\ slots' = [slots EXCEPT ![n] =
                            PutRing(@, idx[n], [to |-> n, cmd |-> c, reach |-> {}])]
            /\ idx' = [idx EXCEPT ![n] = Bump(@)]
       ELSE UNCHANGED <<slots, idx>>
    /\ bus' = IF forBus THEN Sent(bus, n, [to |-> dst, cmd |-> c, reach |-> {}])
              ELSE bus
    /\ UNCHANGED <<busy, online, installed, target, fan, seen, faults>>

-----------------------------------------------------------------------------
(* task_pjon: receive at most one packet, then handle every slot.          *)

\* The i-th packet from m is received by n; it stays on the bus when keep.
Take(m, n, i, keep) ==
    /\ ~busy[n]
    /\ i \in 1..Len(bus[<<m, n>>])
    /\ online[n] \/ bus[<<m, n>>][i].to = 0
    /\ slots' = [slots EXCEPT ![n] = PutRing(@, idx[n], bus[<<m, n>>][i])]
    /\ idx' = [idx EXCEPT ![n] = Bump(@)]
    /\ busy' = [busy EXCEPT ![n] = TRUE]
    /\ bus' = IF keep THEN bus ELSE [bus EXCEPT ![<<m, n>>] = Without(@, i)]
    /\ UNCHANGED <<issued, online, installed, target, fan, seen>>

Receive(m, n) == Take(m, n, 1, FALSE) /\ UNCHANGED faults

Fault == faults < MaxFaults /\ faults' = faults + 1

\* Overtaken on its way by later packets, or received again after a lost
\* acknowledgement.
ReceiveLate(m, n)  == Fault /\ \E i \in 2..Len(bus[<<m, n>>]) : Take(m, n, i, FALSE)
ReceiveAgain(m, n) == Fault /\ Take(m, n, 1, TRUE)

\* task_pjon without a packet, when a host has injected something.
Poll(n) ==
    /\ ~busy[n]
    /\ Occupied(slots[n]) # {}
    /\ busy' = [busy EXCEPT ![n] = TRUE]
    /\ UNCHANGED <<issued, bus, slots, idx, online, installed, target, fan, seen, faults>>

\* Mutant: a node forgets to add its own dampers.
ReachUnchanged(n, p) == p.reach

\* Mutant: a node adds every damper, installed or not.
ReachUninstalled(n, p) == p.reach \union Damper

\* pjon_chaincast_recv_handler adds the own dampers.
Reach(n, p) == p.reach \union installed[n]

\* Mutant: the fan part is obeyed on the first pass already.
ObeyBoth(n, p, all) ==
    /\ target' = [target EXCEPT ![n] = p.cmd]
    /\ fan' = [fan EXCEPT ![n] = p.cmd]

\* handle_damper_cmd: the dampers obey on both passes, the fan on the second.
Obey(n, p, all) ==
    /\ target' = [target EXCEPT ![n] = p.cmd]
    /\ fan' = IF all THEN [fan EXCEPT ![n] = p.cmd] ELSE fan

\* pjon_chaincast_forward: not a broadcast, and nothing from a node whose id has
\* no neighbours.
Forwards(n, p, all) == p.to # 0 /\ online[n] /\ NextId(n, all) \in Node

\* Slot s is emptied, its packet obeyed and forwarded.
Serve(n, s) ==
    LET p   == slots[n][s]
        all == DidReachAll(Reach(n, p))
    IN
    /\ slots' = [slots EXCEPT ![n] = PutRing(@, s, NoPacket)]
    /\ Obey(n, p, all)
    /\ seen' = [seen EXCEPT ![p.cmd] = @ \union {n}]
    /\ bus' = IF Forwards(n, p, all)
              THEN Sent(bus, n, [to |-> NextId(n, all), cmd |-> p.cmd,
                                 reach |-> Reach(n, p)])
              ELSE bus
    /\ UNCHANGED <<issued, idx, busy, online, installed, faults>>

Handle(n) == busy[n] /\ \E s \in Slot : FirstFrom(slots[n], idx[n], s) /\ Serve(n, s)

\* All slots are handled: back to the main loop.
Return(n) ==
    /\ busy[n]
    /\ Occupied(slots[n]) = {}
    /\ busy' = [busy EXCEPT ![n] = FALSE]
    /\ UNCHANGED <<issued, bus, slots, idx, online, installed, target, fan, seen, faults>>

-----------------------------------------------------------------------------
(* Faults of the bus and resets of the microcontrollers.                   *)

Lose(m, n) ==
    /\ Fault
    /\ bus[<<m, n>>] # <<>>
    /\ bus' = [bus EXCEPT ![<<m, n>>] = Tail(@)]
    /\ UNCHANGED <<issued, slots, idx, busy, online, installed, target, fan, seen>>

\* The sender gives up on a packet for an id nobody has.
GiveUp(m, n) ==
    /\ ~online[n]
    /\ bus[<<m, n>>] # <<>>
    /\ bus' = [bus EXCEPT ![<<m, n>>] = Tail(@)]
    /\ UNCHANGED <<issued, slots, idx, busy, online, installed, target, fan, seen, faults>>

\* Nothing is read back from the EEPROM: no damper is installed, and the id is
\* whatever acquire_id finds, the old one or another.
Restart(n) ==
    /\ Fault
    /\ slots' = [slots EXCEPT ![n] = [s \in Slot |-> NoPacket]]
    /\ idx' = [idx EXCEPT ![n] = 0]
    /\ busy' = [busy EXCEPT ![n] = FALSE]
    /\ \E id \in BOOLEAN : online' = [online EXCEPT ![n] = id]
    /\ installed' = [installed EXCEPT ![n] = {}]
    /\ target' = [target EXCEPT ![n] = 0]
    /\ fan' = [fan EXCEPT ![n] = 0]
    /\ UNCHANGED <<issued, bus, seen>>

\* Somebody types P and I on the serial line.
Configure(n) ==
    /\ ~busy[n]
    /\ ~online[n] \/ installed[n] # Owner[n]
    /\ online' = [online EXCEPT ![n] = TRUE]
    /\ installed' = [installed EXCEPT ![n] = Owner[n]]
    /\ UNCHANGED <<issued, bus, slots, idx, busy, target, fan, seen, faults>>

-----------------------------------------------------------------------------
Init ==
    /\ issued = 0
    /\ bus = [l \in Node \X Node |-> <<>>]
    /\ slots = [n \in Node |-> [s \in Slot |-> NoPacket]]
    /\ idx = [n \in Node |-> 0]
    /\ busy = [n \in Node |-> FALSE]
    /\ online = [n \in Node |-> TRUE]
    /\ installed = Owner
    /\ target = [n \in Node |-> 0]
    /\ fan = [n \in Node |-> 0]
    /\ seen = [c \in Cmd |-> {}]
    /\ faults = 0

Loop(n) == Poll(n) \/ Handle(n) \/ Return(n) \/ Configure(n)

Link(m, n) == Receive(m, n) \/ ReceiveLate(m, n) \/ ReceiveAgain(m, n)
                  \/ Lose(m, n) \/ GiveUp(m, n)

Next ==
    \/ \E n \in InjectAt, dst \in InjectDst : Inject(n, dst)
    \/ \E n \in Node : Loop(n) \/ Restart(n)
    \/ \E m \in Node, n \in Node : Link(m, n)

Spec == Init /\ [][Next]_vars

\* Every main loop keeps running, and a packet that can be delivered again and
\* again is delivered in the end: PJON repeats it until it is acknowledged.
Fairness ==
    /\ \A n \in Node : WF_vars(Poll(n) \/ Handle(n) \/ Return(n))
    /\ \A n \in Node : \A m \in Node \ {n} : SF_vars(Receive(m, n))

FairSpec == Spec /\ Fairness

-----------------------------------------------------------------------------
(* Properties.                                                             *)

\* Every variable keeps to its type.
TypeOK ==
    /\ issued \in 0..MaxCmd
    /\ bus \in [Node \X Node -> Seq(Packet)]
    /\ slots \in [Node -> [Slot -> Packet]]
    /\ idx \in [Node -> Slot]
    /\ busy \in [Node -> BOOLEAN]
    /\ online \in [Node -> BOOLEAN]
    /\ installed \in [Node -> SUBSET Damper]
    /\ target \in [Node -> 0..MaxCmd]
    /\ fan \in [Node -> 0..MaxCmd]
    /\ seen \in [Cmd -> SUBSET Node]
    /\ faults \in 0..MaxFaults

\* The reach field of a packet tells the truth: whoever wired a damper named in it
\* has handled the command.
Honest(p) ==
    /\ p.cmd <= issued
    /\ p.cmd # 0 => \A d \in p.reach : \E k \in seen[p.cmd] : d \in Owner[k]
NoEmptyOnBus(p) == p.cmd # 0

ReachIsHonest ==
    /\ \A l \in Node \X Node : \A i \in 1..Len(bus[l]) :
           Honest(bus[l][i]) /\ NoEmptyOnBus(bus[l][i])
    /\ \A n \in Node, s \in Slot : Honest(slots[n][s])

\* A damper that is installed is one the microcontroller is wired to.
InstalledIsOwned == \A n \in Node : installed[n] \subseteq Owner[n]

\* The chaincast keeps the promise of the interlock, whatever the bus loses, doubles
\* or reorders and whoever resets: a fan obeys a command only after the owner of
\* every damper has handled it (comm.cpp:203-206).
Interlock == INSTANCE FanInterlock WITH
    N <- N, Damper <- Damper, Owner <- Owner, MaxCmd <- MaxCmd,
    issued <- issued, seen <- seen, target <- target, fan <- fan
FanGate == Interlock!FanGate
InterlockSpec == Interlock!Spec

\* A packet of command c is in slot i of n (m = n), or the i-th on its way from m to n.
InPlace(c, m, n, i) ==
    IF m = n THEN i \in Slot /\ slots[n][i].cmd = c
    ELSE i \in 1..Len(bus[<<m, n>>]) /\ bus[<<m, n>>][i].cmd = c

Packets(c) ==
    {x \in Node \X Node \X (0..(MaxCmd + BufLen)) : InPlace(c, x[1], x[2], x[3])}

Quiet == /\ \A l \in Node \X Node : bus[l] = <<>>
         /\ \A n \in Node : Occupied(slots[n]) = {}

\* Without faults a command is in one place at a time: the ladder neither floods the
\* bus nor echoes (comm.cpp:252-275).
OneCopy ==
    faults = 0 => \A c \in Cmd : \A x, y \in Packets(c) : x = y

\* When no more commands than a ring holds have come to rest without a fault, every
\* microcontroller has handled them all (dampercontrol.h:153: reach says which hardware
\* saw the packet, the fan too).
HeardAtRest ==
    faults = 0 /\ Quiet /\ issued <= BufLen => \A c \in 1..issued : seen[c] = Node

\* When the bus has come to rest without a fault, all dampers and all fans obey the
\* same command: commands that overtook each other between the two passes have not
\* left the system in a mix of two of them (main.cpp:150-196).
AgreementAtRest ==
    faults = 0 /\ Quiet =>
        \A n \in Node : target[n] = target[1] /\ fan[n] = target[1]

\* ... and it comes to rest: all microcontrollers end up obeying the same command.
EventuallyAgreed ==
    <>[](\A n \in Node : target[n] = target[1] /\ fan[n] = target[1])
=============================================================================
