-------------------------- MODULE ChaincastProofs --------------------------
(***************************************************************************)
(* For every number of microcontrollers, every distribution of the dampers,*)
(* every ring length and every number of faults: the types of the chaincast*)
(* and that it implements the interlock.                                   *)
(***************************************************************************)
EXTENDS Chaincast, SequenceTheorems, TLAPS

\* The inductive invariant: reach fields are honest, only if nobody claims a damper
\* he does not own.
IInv == TypeOK /\ ReachIsHonest /\ InstalledIsOwned

-----------------------------------------------------------------------------
(* The operators of the ring and of the bus.                               *)

\* The index stays in the ring (comm.cpp:113-114).
LEMMA BumpType == \A i \in Slot : Bump(i) \in Slot
BY BufAssumption DEF Bump, Slot

\* The index starts in the ring.
LEMMA ZeroSlot == 0 \in Slot
BY BufAssumption DEF Slot

\* Taking an element out of a queue moves up what was behind it.
LEMMA WithoutElements ==
    ASSUME NEW q \in Seq(Packet), NEW i \in 1..Len(q)
    PROVE  /\ Without(q, i) \in Seq(Packet)
           /\ Len(Without(q, i)) = Len(q) - 1
           /\ \A j \in 1..(Len(q) - 1) :
                 Without(q, i)[j] = IF j < i THEN q[j] ELSE q[j + 1]
<1> DEFINE a == SubSeq(q, 1, i - 1)
           b == SubSeq(q, i + 1, Len(q))
<1>1. /\ a \in Seq(Packet) /\ Len(a) = i - 1
      /\ \A j \in 1..(i - 1) : a[j] = q[j]
  OBVIOUS
<1>2. /\ b \in Seq(Packet) /\ Len(b) = Len(q) - i
      /\ \A j \in 1..(Len(q) - i) : b[j] = q[i + j]
  OBVIOUS
<1>3. Without(q, i) = a \o b
  BY DEF Without
<1> HIDE DEF a, b
<1>4. Len(q) \in Nat /\ i \in Nat /\ 1 <= i /\ i <= Len(q)
  BY LenProperties
<1>5. /\ a \o b \in Seq(Packet)
      /\ Len(a \o b) = Len(a) + Len(b)
      /\ \A j \in 1..(Len(a) + Len(b)) :
            (a \o b)[j] = IF j <= Len(a) THEN a[j] ELSE b[j - Len(a)]
  BY <1>1, <1>2, ConcatProperties, Zenon
<1>6. Len(a) + Len(b) = Len(q) - 1
  BY <1>1, <1>2, <1>4
<1>7. ASSUME NEW j \in 1..(Len(q) - 1)
      PROVE  (a \o b)[j] = IF j < i THEN q[j] ELSE q[j + 1]
  <2>1. CASE j <= i - 1
    BY <1>1, <1>4, <1>5, <1>6, <2>1
  <2>2. CASE ~(j <= i - 1)
    <3>1. (a \o b)[j] = b[j - (i - 1)]
      BY <1>1, <1>4, <1>5, <1>6, <2>2
    <3>2. j - (i - 1) \in 1..(Len(q) - i) /\ i + (j - (i - 1)) = j + 1
      BY <1>4, <2>2
    <3>3. b[j - (i - 1)] = q[j + 1]
      BY <1>2, <3>2
    <3>4. QED
      BY <1>4, <2>2, <3>1, <3>3
  <2>3. QED
    BY <2>1, <2>2
<1>8. QED
  BY <1>3, <1>5, <1>6, <1>7

\* ... and a queue of some of its packets.
LEMMA WithoutType ==
    ASSUME NEW q \in Seq(Packet), NEW i \in 1..Len(q)
    PROVE  /\ Without(q, i) \in Seq(Packet)
           /\ \A j \in 1..Len(Without(q, i)) :
                 \E k \in 1..Len(q) : Without(q, i)[j] = q[k]
<1>1. Len(q) \in Nat
  BY LenProperties
<1>2. ASSUME NEW j \in 1..Len(Without(q, i))
      PROVE  \E k \in 1..Len(q) : Without(q, i)[j] = q[k]
  <2>1. j \in 1..(Len(q) - 1) /\ j \in 1..Len(q) /\ j + 1 \in 1..Len(q)
    BY <1>1, WithoutElements
  <2>2. QED
    BY <2>1, WithoutElements
<1>3. QED
  BY <1>2, WithoutElements

\* The tail of a queue of packets is a queue of some of them.
LEMMA TailType ==
    ASSUME NEW q \in Seq(Packet), q # <<>>
    PROVE  /\ Tail(q) \in Seq(Packet)
           /\ \A j \in 1..Len(Tail(q)) : \E k \in 1..Len(q) : Tail(q)[j] = q[k]
BY HeadTailProperties

\* Sending appends the packet to some queues (comm.cpp:183, :273).
LEMMA SentType ==
    ASSUME bus \in [Node \X Node -> Seq(Packet)], NEW n \in Node, NEW p \in Packet
    PROVE  /\ Sent(bus, n, p) \in [Node \X Node -> Seq(Packet)]
           /\ \A l \in Node \X Node : \A j \in 1..Len(Sent(bus, n, p)[l]) :
                 \/ Sent(bus, n, p)[l][j] = p
                 \/ \E k \in 1..Len(bus[l]) : Sent(bus, n, p)[l][j] = bus[l][k]
<1>1. ASSUME NEW q \in Seq(Packet)
      PROVE  /\ Append(q, p) \in Seq(Packet)
             /\ \A j \in 1..Len(Append(q, p)) :
                   Append(q, p)[j] = p \/ \E k \in 1..Len(q) : Append(q, p)[j] = q[k]
  BY AppendProperties
<1>2. ASSUME NEW l \in Node \X Node
      PROVE  /\ Sent(bus, n, p)[l] \in Seq(Packet)
             /\ \A j \in 1..Len(Sent(bus, n, p)[l]) :
                   \/ Sent(bus, n, p)[l][j] = p
                   \/ \E k \in 1..Len(bus[l]) : Sent(bus, n, p)[l][j] = bus[l][k]
  <2>1. Sent(bus, n, p)[l] = Append(bus[l], p) \/ Sent(bus, n, p)[l] = bus[l]
    BY DEF Sent
  <2>2. bus[l] \in Seq(Packet)
    OBVIOUS
  <2>3. CASE Sent(bus, n, p)[l] = Append(bus[l], p)
    BY <1>1, <2>2, <2>3
  <2>4. CASE Sent(bus, n, p)[l] = bus[l]
    BY <2>2, <2>4
  <2>5. QED
    BY <2>1, <2>3, <2>4
<1>3. QED
  BY <1>2 DEF Sent

\* An empty slot is a packet.
LEMMA NoPacketType == NoPacket \in Packet
BY NodeAssumption, BoundAssumption DEF NoPacket, Packet

-----------------------------------------------------------------------------
(* What the two sides of a step say about honesty.                         *)

\* The packet is honest after the step.
HonestThen(p) ==
    /\ p.cmd <= issued'
    /\ p.cmd # 0 => \A d \in p.reach : \E k \in seen'[p.cmd] : d \in Owner[k]

\* A step that only adds to the history keeps every packet honest that is an old
\* one or an honest new one.
LEMMA HonestyKept ==
    ASSUME TypeOK, ReachIsHonest, TypeOK',
           issued <= issued',
           \A c \in Cmd : seen[c] \subseteq seen'[c],
           \A l \in Node \X Node : \A j \in 1..Len(bus'[l]) :
               \/ HonestThen(bus'[l][j]) /\ NoEmptyOnBus(bus'[l][j])
               \/ \E k \in 1..Len(bus[l]) : bus'[l][j] = bus[l][k],
           \A n \in Node, s \in Slot :
               \/ HonestThen(slots'[n][s])
               \/ slots'[n][s] \in {NoPacket, slots[n][s]}
               \/ \E l \in Node \X Node : \E k \in 1..Len(bus[l]) :
                     slots'[n][s] = bus[l][k]
    PROVE  ReachIsHonest'
<1>1. ASSUME NEW p \in Packet, Honest(p) PROVE HonestThen(p)
  <2>1. p.cmd <= issued'
    BY <1>1, BoundAssumption DEF Honest, TypeOK, Packet
  <2>2. ASSUME p.cmd # 0, NEW d \in p.reach
        PROVE  \E k \in seen'[p.cmd] : d \in Owner[k]
    <3>1. p.cmd \in Cmd
      BY <2>2, BoundAssumption DEF Packet, Cmd
    <3>2. QED
      BY <1>1, <2>2, <3>1 DEF Honest
  <2>3. QED
    BY <2>1, <2>2 DEF HonestThen
<1>2. HonestThen(NoPacket)
  BY BoundAssumption DEF HonestThen, NoPacket, TypeOK
<1>3. ASSUME NEW l \in Node \X Node, NEW k \in 1..Len(bus[l])
      PROVE  HonestThen(bus[l][k]) /\ NoEmptyOnBus(bus[l][k])
  <2>1. bus[l][k] \in Packet
    BY ElementOfSeq DEF TypeOK
  <2>2. QED
    BY <1>1, <2>1 DEF ReachIsHonest
<1>4. ASSUME NEW n \in Node, NEW s \in Slot PROVE HonestThen(slots[n][s])
  <2>1. slots[n][s] \in Packet
    BY DEF TypeOK
  <2>2. QED
    BY <1>1, <2>1 DEF ReachIsHonest
<1>5. ASSUME NEW l \in Node \X Node, NEW j \in 1..Len(bus'[l])
      PROVE  HonestThen(bus'[l][j]) /\ NoEmptyOnBus(bus'[l][j])
  BY <1>3
<1>6. ASSUME NEW n \in Node, NEW s \in Slot PROVE HonestThen(slots'[n][s])
  BY <1>2, <1>3, <1>4
<1>7. QED
  BY <1>5, <1>6 DEF ReachIsHonest, NoEmptyOnBus, Honest, HonestThen

-----------------------------------------------------------------------------
(* One lemma for each kind of step.                                        *)

\* The fault budget stays a budget.
LEMMA FaultType ==
    ASSUME TypeOK, Fault PROVE faults' \in 0..MaxFaults
BY BoundAssumption DEF TypeOK, Fault

LEMMA InjectInv ==
    ASSUME IInv, NEW n \in InjectAt, NEW dst \in InjectDst, Inject(n, dst)
    PROVE  IInv'
<1> DEFINE p == [to |-> n, cmd |-> issued + 1, reach |-> {}]
           q == [to |-> dst, cmd |-> issued + 1, reach |-> {}]
<1>1. n \in Node /\ dst \in 0..N
  BY InjectAssumption
<1>2. issued' = issued + 1 /\ issued' \in 0..MaxCmd
  BY BoundAssumption DEF IInv, TypeOK, Inject
<1>3. p \in Packet /\ q \in Packet /\ p.cmd = issued + 1 /\ q.cmd = issued + 1
      /\ p.reach = {} /\ q.reach = {}
  BY <1>1, <1>2, NodeAssumption DEF Packet, Node
<1> HIDE DEF p, q
<1>4. /\ \/ slots' = slots /\ idx' = idx
         \/ /\ slots' = [slots EXCEPT ![n] = PutRing(@, idx[n], p)]
            /\ idx' = [idx EXCEPT ![n] = Bump(@)]
      /\ bus' = bus \/ bus' = Sent(bus, n, q)
      /\ UNCHANGED <<busy, online, installed, target, fan, seen, faults>>
  BY DEF Inject, p, q
<1>5. /\ bus' \in [Node \X Node -> Seq(Packet)]
      /\ \A l \in Node \X Node : \A j \in 1..Len(bus'[l]) :
            bus'[l][j] \in {p, q} \/ \E k \in 1..Len(bus[l]) : bus'[l][j] = bus[l][k]
  <2>1. CASE bus' = bus
    BY <2>1 DEF IInv, TypeOK
  <2>2. CASE bus' = Sent(bus, n, q)
    <3>1. bus \in [Node \X Node -> Seq(Packet)]
      BY DEF IInv, TypeOK
    <3>2. /\ Sent(bus, n, q) \in [Node \X Node -> Seq(Packet)]
          /\ \A l \in Node \X Node : \A j \in 1..Len(Sent(bus, n, q)[l]) :
                \/ Sent(bus, n, q)[l][j] = q
                \/ \E k \in 1..Len(bus[l]) : Sent(bus, n, q)[l][j] = bus[l][k]
      BY <1>1, <1>3, <3>1, SentType
    <3>3. QED
      BY <2>2, <3>2
  <2>3. QED
    BY <1>4, <2>1, <2>2
<1>6. /\ slots' \in [Node -> [Slot -> Packet]]
      /\ idx' \in [Node -> Slot]
      /\ \A k \in Node, s \in Slot : slots'[k][s] \in {p, q} \union {NoPacket, slots[k][s]}
  <2>1. /\ slots \in [Node -> [Slot -> Packet]] /\ idx \in [Node -> Slot]
        /\ idx[n] \in Slot /\ Bump(idx[n]) \in Slot
    BY <1>1, BumpType DEF IInv, TypeOK
  <2>2. CASE slots' = slots /\ idx' = idx
    BY <2>1, <2>2
  <2>3. CASE /\ slots' = [slots EXCEPT ![n] = PutRing(@, idx[n], p)]
             /\ idx' = [idx EXCEPT ![n] = Bump(@)]
    <3>1. /\ PutRing(slots[n], idx[n], p) \in [Slot -> Packet]
          /\ \A s \in Slot : PutRing(slots[n], idx[n], p)[s] \in {p, slots[n][s]}
      BY <1>1, <1>3, <2>1 DEF PutRing
    <3>2. QED
      BY <1>1, <2>1, <2>3, <3>1
  <2>4. QED
    BY <1>4, <2>2, <2>3
<1>7. TypeOK'
  BY <1>2, <1>4, <1>5, <1>6 DEF IInv, TypeOK
<1>8. ReachIsHonest'
  <2>1. \A r \in {p, q} : HonestThen(r) /\ NoEmptyOnBus(r)
    BY <1>2, <1>3 DEF HonestThen, NoEmptyOnBus, IInv, TypeOK
  <2>2. issued <= issued' /\ \A c \in Cmd : seen[c] \subseteq seen'[c]
    BY <1>2, <1>4 DEF IInv, TypeOK
  <2>3. \A l \in Node \X Node : \A j \in 1..Len(bus'[l]) :
           \/ HonestThen(bus'[l][j]) /\ NoEmptyOnBus(bus'[l][j])
           \/ \E k \in 1..Len(bus[l]) : bus'[l][j] = bus[l][k]
    BY <1>5, <2>1
  <2>4. \A k \in Node, s \in Slot :
           HonestThen(slots'[k][s]) \/ slots'[k][s] \in {NoPacket, slots[k][s]}
    BY <1>6, <2>1
  <2>5. QED
    BY <1>7, <2>2, <2>3, <2>4, HonestyKept DEF IInv
<1>9. QED
  BY <1>4, <1>7, <1>8 DEF IInv, InstalledIsOwned

\* A step that leaves rings and history alone, or empties rings, and takes packets
\* off the bus or leaves them there.
LEMMA NothingNew ==
    ASSUME IInv, TypeOK', InstalledIsOwned', issued' = issued, seen' = seen,
           \A l \in Node \X Node : \A j \in 1..Len(bus'[l]) :
               \E k \in 1..Len(bus[l]) : bus'[l][j] = bus[l][k],
           \A n \in Node, s \in Slot :
               \/ slots'[n][s] \in {NoPacket, slots[n][s]}
               \/ \E l \in Node \X Node : \E k \in 1..Len(bus[l]) :
                     slots'[n][s] = bus[l][k]
    PROVE  IInv'
<1>1. issued <= issued' /\ \A c \in Cmd : seen[c] \subseteq seen'[c]
  BY BoundAssumption DEF IInv, TypeOK
<1>2. ReachIsHonest'
  BY <1>1, HonestyKept DEF IInv
<1>3. QED
  BY <1>2 DEF IInv

LEMMA TakeInv ==
    ASSUME IInv, NEW m \in Node, NEW n \in Node, NEW i, NEW keep \in BOOLEAN,
           Take(m, n, i, keep), faults' \in 0..MaxFaults
    PROVE  IInv'
<1> DEFINE q == bus[<<m, n>>]
<1>1. /\ <<m, n>> \in Node \X Node
      /\ q \in Seq(Packet) /\ i \in 1..Len(q) /\ q[i] \in Packet
  BY ElementOfSeq DEF IInv, TypeOK, Take
<1>2. /\ slots' = [slots EXCEPT ![n] = PutRing(@, idx[n], q[i])]
      /\ idx' = [idx EXCEPT ![n] = Bump(@)]
      /\ busy' = [busy EXCEPT ![n] = TRUE]
      /\ bus' = bus \/ bus' = [bus EXCEPT ![<<m, n>>] = Without(q, i)]
      /\ UNCHANGED <<issued, online, installed, target, fan, seen>>
  BY DEF Take
<1>3. /\ Without(q, i) \in Seq(Packet)
      /\ \A j \in 1..Len(Without(q, i)) : \E k \in 1..Len(q) : Without(q, i)[j] = q[k]
  BY <1>1, WithoutType
<1>4. /\ bus' \in [Node \X Node -> Seq(Packet)]
      /\ \A l \in Node \X Node : \A j \in 1..Len(bus'[l]) :
            \E k \in 1..Len(bus[l]) : bus'[l][j] = bus[l][k]
  <2>1. CASE bus' = bus
    BY <2>1 DEF IInv, TypeOK
  <2>2. CASE bus' = [bus EXCEPT ![<<m, n>>] = Without(q, i)]
    <3>1. bus \in [Node \X Node -> Seq(Packet)]
      BY DEF IInv, TypeOK
    <3>2. bus' \in [Node \X Node -> Seq(Packet)]
      BY <1>3, <2>2, <3>1
    <3>3. ASSUME NEW l \in Node \X Node
          PROVE  bus'[l] = IF l = <<m, n>> THEN Without(q, i) ELSE bus[l]
      BY <1>1, <2>2, <3>1
    <3>4. ASSUME NEW l \in Node \X Node, NEW j \in 1..Len(bus'[l])
          PROVE  \E k \in 1..Len(bus[l]) : bus'[l][j] = bus[l][k]
      <4>1. CASE l = <<m, n>>
        <5>1. bus'[l] = Without(q, i) /\ bus[l] = q
          BY <3>3, <4>1
        <5>2. QED
          BY <1>3, <5>1
      <4>2. CASE l # <<m, n>>
        <5>1. bus'[l] = bus[l]
          BY <3>3, <4>2
        <5>2. QED
          BY <5>1
      <4>3. QED
        BY <4>1, <4>2
    <3>5. QED
      BY <3>2, <3>4
  <2>3. QED
    BY <1>2, <2>1, <2>2
<1>5. /\ slots' \in [Node -> [Slot -> Packet]]
      /\ \A k \in Node, s \in Slot : slots'[k][s] \in {q[i], slots[k][s]}
  BY <1>1, <1>2 DEF IInv, TypeOK, PutRing
<1>6. idx' \in [Node -> Slot] /\ busy' \in [Node -> BOOLEAN]
  BY <1>2, BumpType DEF IInv, TypeOK
<1>7. TypeOK'
  BY <1>2, <1>4, <1>5, <1>6 DEF IInv, TypeOK
<1>8. InstalledIsOwned'
  BY <1>2 DEF IInv, InstalledIsOwned
<1>9. \A k \in Node, s \in Slot :
         \/ slots'[k][s] \in {NoPacket, slots[k][s]}
         \/ \E l \in Node \X Node : \E j \in 1..Len(bus[l]) : slots'[k][s] = bus[l][j]
  <2>1. \E l \in Node \X Node : \E j \in 1..Len(bus[l]) : q[i] = bus[l][j]
    BY <1>1
  <2>2. QED
    BY <1>5, <2>1
<1>10. issued' = issued /\ seen' = seen
  BY <1>2
<1>11. QED
  BY <1>4, <1>7, <1>8, <1>9, <1>10, NothingNew

LEMMA ServeInv ==
    ASSUME IInv, NEW n \in Node, NEW s \in Slot,
           s \in Occupied(slots[n]), Serve(n, s)
    PROVE  /\ IInv'
           /\ slots[n][s].cmd \in Cmd /\ slots[n][s].cmd <= issued
           /\ DidReachAll(Reach(n, slots[n][s])) =>
                 \A d \in Damper :
                    \E k \in seen[slots[n][s].cmd] \union {n} : d \in Owner[k]
<1> DEFINE p   == slots[n][s]
           all == DidReachAll(Reach(n, p))
           f   == [to |-> NextId(n, all), cmd |-> p.cmd, reach |-> Reach(n, p)]
<1>1. p \in Packet /\ p.cmd # 0 /\ p.cmd \in Cmd /\ Honest(p) /\ p.cmd <= issued
  BY BoundAssumption DEF IInv, TypeOK, ReachIsHonest, Honest, Occupied, Packet, Cmd
<1>2. Reach(n, p) \subseteq Damper
  BY <1>1 DEF Reach, IInv, TypeOK, Packet
<1>3. \A d \in Reach(n, p) : \E k \in seen[p.cmd] \union {n} : d \in Owner[k]
  BY <1>1 DEF Reach, Honest, IInv, InstalledIsOwned
<1>4. /\ slots' = [slots EXCEPT ![n] = PutRing(@, s, NoPacket)]
      /\ target' = [target EXCEPT ![n] = p.cmd]
      /\ fan' = [fan EXCEPT ![n] = p.cmd] \/ fan' = fan
      /\ seen' = [seen EXCEPT ![p.cmd] = @ \union {n}]
      /\ bus' = bus \/ (NextId(n, all) \in Node /\ bus' = Sent(bus, n, f))
      /\ UNCHANGED <<issued, idx, busy, online, installed, faults>>
  BY DEF Serve, Obey, Forwards
<1>5. /\ NextId(n, all) \in Node => f \in Packet
      /\ f.cmd = p.cmd /\ f.reach = Reach(n, p)
  BY <1>1, <1>2, NodeAssumption DEF Packet, Node
<1> HIDE DEF p, all, f
<1>6. /\ bus' \in [Node \X Node -> Seq(Packet)]
      /\ \A l \in Node \X Node : \A j \in 1..Len(bus'[l]) :
            bus'[l][j] \in {f} \/ \E k \in 1..Len(bus[l]) : bus'[l][j] = bus[l][k]
  <2>1. CASE bus' = bus
    BY <2>1 DEF IInv, TypeOK
  <2>2. CASE NextId(n, all) \in Node /\ bus' = Sent(bus, n, f)
    <3>1. bus \in [Node \X Node -> Seq(Packet)]
      BY DEF IInv, TypeOK
    <3>2. /\ Sent(bus, n, f) \in [Node \X Node -> Seq(Packet)]
          /\ \A l \in Node \X Node : \A j \in 1..Len(Sent(bus, n, f)[l]) :
                \/ Sent(bus, n, f)[l][j] = f
                \/ \E k \in 1..Len(bus[l]) : Sent(bus, n, f)[l][j] = bus[l][k]
      BY <1>5, <2>2, <3>1, SentType
    <3>3. QED
      BY <2>2, <3>2
  <2>3. QED
    BY <1>4, <2>1, <2>2
<1>7. /\ slots' \in [Node -> [Slot -> Packet]]
      /\ \A k \in Node, t \in Slot : slots'[k][t] \in {NoPacket, slots[k][t]}
  BY <1>4, NoPacketType DEF IInv, TypeOK, PutRing
<1>8. /\ target' \in [Node -> 0..MaxCmd]
      /\ fan' \in [Node -> 0..MaxCmd]
      /\ seen' \in [Cmd -> SUBSET Node]
  BY <1>1, <1>4 DEF IInv, TypeOK, Packet
<1>9. TypeOK'
  BY <1>4, <1>6, <1>7, <1>8 DEF IInv, TypeOK
<1>10. \A c \in Cmd : seen[c] \subseteq seen'[c]
  BY <1>1, <1>4 DEF IInv, TypeOK
<1>11. HonestThen(f) /\ NoEmptyOnBus(f)
  <2>1. seen'[p.cmd] = seen[p.cmd] \union {n}
    BY <1>1, <1>4 DEF IInv, TypeOK
  <2>2. QED
    BY <1>1, <1>3, <1>4, <1>5, <2>1 DEF HonestThen, NoEmptyOnBus
<1>12. issued <= issued'
  BY <1>4, BoundAssumption DEF IInv, TypeOK
<1>13. ReachIsHonest'
  <2>1. \A l \in Node \X Node : \A j \in 1..Len(bus'[l]) :
           \/ HonestThen(bus'[l][j]) /\ NoEmptyOnBus(bus'[l][j])
           \/ \E k \in 1..Len(bus[l]) : bus'[l][j] = bus[l][k]
    BY <1>6, <1>11
  <2>2. QED
    BY <1>7, <1>9, <1>10, <1>12, <2>1, HonestyKept DEF IInv
<1>14. InstalledIsOwned'
  BY <1>4 DEF IInv, InstalledIsOwned
<1>15. all => \A d \in Damper : \E k \in seen[p.cmd] \union {n} : d \in Owner[k]
  BY <1>3 DEF all, DidReachAll
<1>16. QED
  BY <1>1, <1>9, <1>13, <1>14, <1>15 DEF IInv, p, all

\* Taking the oldest packet off a link.
LEMMA TailInv ==
    ASSUME IInv, NEW m \in Node, NEW n \in Node, bus[<<m, n>>] # <<>>,
           bus' = [bus EXCEPT ![<<m, n>>] = Tail(@)],
           UNCHANGED <<issued, slots, idx, busy, online, installed, target, fan, seen>>,
           faults' \in 0..MaxFaults
    PROVE  IInv'
<1> DEFINE q == bus[<<m, n>>]
<1>1. /\ <<m, n>> \in Node \X Node
      /\ bus \in [Node \X Node -> Seq(Packet)]
      /\ q \in Seq(Packet) /\ q # <<>>
  BY DEF IInv, TypeOK
<1>2. /\ Tail(q) \in Seq(Packet)
      /\ \A j \in 1..Len(Tail(q)) : \E k \in 1..Len(q) : Tail(q)[j] = q[k]
  BY <1>1, TailType
<1>3. bus' \in [Node \X Node -> Seq(Packet)]
  BY <1>1, <1>2
<1>4. ASSUME NEW l \in Node \X Node, NEW j \in 1..Len(bus'[l])
      PROVE  \E k \in 1..Len(bus[l]) : bus'[l][j] = bus[l][k]
  <2>1. CASE l = <<m, n>>
    <3>1. bus'[l] = Tail(q) /\ bus[l] = q
      BY <1>1, <2>1
    <3>2. QED
      BY <1>2, <3>1
  <2>2. CASE l # <<m, n>>
    <3>1. bus'[l] = bus[l]
      BY <1>1, <2>2
    <3>2. QED
      BY <3>1
  <2>3. QED
    BY <2>1, <2>2
<1>5. TypeOK'
  BY <1>3 DEF IInv, TypeOK
<1>6. InstalledIsOwned'
  BY DEF IInv, InstalledIsOwned
<1>7. QED
  BY <1>4, <1>5, <1>6, NothingNew

\* Steps that leave the bus, the rings and the history alone.
LEMMA LocalInv ==
    ASSUME IInv, UNCHANGED <<issued, bus, slots, seen>>, TypeOK', InstalledIsOwned'
    PROVE  IInv'
BY NothingNew

LEMMA RestartInv ==
    ASSUME IInv, NEW n \in Node, Restart(n)
    PROVE  IInv'
<1>1. TypeOK'
  <2>1. faults' \in 0..MaxFaults
    BY FaultType DEF Restart, IInv
  <2>2. [s \in Slot |-> NoPacket] \in [Slot -> Packet]
    BY NoPacketType
  <2>3. slots' \in [Node -> [Slot -> Packet]]
    BY <2>2 DEF Restart, IInv, TypeOK
  <2>4. QED
    BY <2>1, <2>3, ZeroSlot, BoundAssumption DEF Restart, IInv, TypeOK
<1>2. InstalledIsOwned'
  BY DEF Restart, IInv, TypeOK, InstalledIsOwned
<1>3. \A k \in Node, s \in Slot : slots'[k][s] \in {NoPacket, slots[k][s]}
  BY DEF Restart, IInv, TypeOK
<1>4. /\ issued' = issued /\ seen' = seen
      /\ \A l \in Node \X Node : \A j \in 1..Len(bus'[l]) :
            \E k \in 1..Len(bus[l]) : bus'[l][j] = bus[l][k]
  BY DEF Restart
<1>5. QED
  BY <1>1, <1>2, <1>3, <1>4, NothingNew

-----------------------------------------------------------------------------
(* The invariant.                                                          *)

LEMMA InitInv == Init => IInv
<1> SUFFICES ASSUME Init PROVE IInv
  OBVIOUS
<1>1. <<>> \in Seq(Packet) /\ Len(<<>>) = 0
  OBVIOUS
<1>2. TypeOK
  BY <1>1, ZeroSlot, NoPacketType, BoundAssumption, OwnerAssumption DEF Init, TypeOK
<1>3. ReachIsHonest
  <2>1. \A l \in Node \X Node : 1..Len(bus[l]) = {}
    BY <1>1 DEF Init
  <2>2. \A n \in Node, s \in Slot : Honest(slots[n][s])
    BY DEF Init, Honest, NoPacket
  <2>3. QED
    BY <2>1, <2>2 DEF ReachIsHonest
<1>4. InstalledIsOwned
  BY DEF Init, InstalledIsOwned
<1>5. QED
  BY <1>2, <1>3, <1>4 DEF IInv

LEMMA LoopInv ==
    ASSUME IInv, NEW n \in Node, Loop(n)
    PROVE  IInv'
<1>1. CASE Poll(n)
  <2>1. TypeOK' /\ InstalledIsOwned'
    BY <1>1 DEF Poll, IInv, TypeOK, InstalledIsOwned
  <2>2. QED
    BY <1>1, <2>1, LocalInv DEF Poll
<1>2. CASE Handle(n)
  BY <1>2, ServeInv DEF Handle, FirstFrom
<1>3. CASE Return(n)
  <2>1. TypeOK' /\ InstalledIsOwned'
    BY <1>3 DEF Return, IInv, TypeOK, InstalledIsOwned
  <2>2. QED
    BY <1>3, <2>1, LocalInv DEF Return
<1>4. CASE Configure(n)
  <2>1. TypeOK' /\ InstalledIsOwned'
    BY <1>4, OwnerAssumption DEF Configure, IInv, TypeOK, InstalledIsOwned
  <2>2. QED
    BY <1>4, <2>1, LocalInv DEF Configure
<1>5. QED
  BY <1>1, <1>2, <1>3, <1>4 DEF Loop

LEMMA LinkInv ==
    ASSUME IInv, NEW m \in Node, NEW n \in Node, Link(m, n)
    PROVE  IInv'
<1>1. CASE Receive(m, n)
  BY <1>1, TakeInv DEF Receive, IInv, TypeOK
<1>2. CASE ReceiveLate(m, n)
  BY <1>2, TakeInv, FaultType DEF ReceiveLate, IInv
<1>3. CASE ReceiveAgain(m, n)
  BY <1>3, TakeInv, FaultType DEF ReceiveAgain, IInv
<1>4. CASE Lose(m, n)
  BY <1>4, TailInv, FaultType DEF Lose, IInv
<1>5. CASE GiveUp(m, n)
  BY <1>5, TailInv DEF GiveUp, IInv, TypeOK
<1>6. QED
  BY <1>1, <1>2, <1>3, <1>4, <1>5 DEF Link

LEMMA StepInv == IInv /\ [Next]_vars => IInv'
<1> SUFFICES ASSUME IInv, [Next]_vars PROVE IInv'
  OBVIOUS
<1>1. ASSUME NEW n \in InjectAt, NEW dst \in InjectDst, Inject(n, dst) PROVE IInv'
  BY <1>1, InjectInv
<1>2. ASSUME NEW n \in Node, Loop(n) PROVE IInv'
  BY <1>2, LoopInv
<1>3. ASSUME NEW n \in Node, Restart(n) PROVE IInv'
  BY <1>3, RestartInv
<1>4. ASSUME NEW m \in Node, NEW n \in Node, Link(m, n) PROVE IInv'
  BY <1>4, LinkInv
<1>5. CASE UNCHANGED vars
  <2>1. TypeOK' /\ InstalledIsOwned'
    BY <1>5 DEF vars, IInv, TypeOK, InstalledIsOwned
  <2>2. QED
    BY <1>5, <2>1, LocalInv DEF vars
<1>6. QED
  BY <1>1, <1>2, <1>3, <1>4, <1>5 DEF Next

\* Type correctness of the firmware's message variables (comm.cpp:31-39).
THEOREM TypeCorrect == Spec => []TypeOK
<1>1. IInv => TypeOK
  BY DEF IInv
<1>2. QED
  BY <1>1, InitInv, StepInv, PTL DEF Spec

\* Nobody is named in a reach field who has not handled the command (comm.cpp:231).
THEOREM ReachHonest == Spec => []ReachIsHonest
<1>1. IInv => ReachIsHonest
  BY DEF IInv
<1>2. QED
  BY <1>1, InitInv, StepInv, PTL DEF Spec

-----------------------------------------------------------------------------
(* The refinement: handling is applying, a restart is a reset, an injection*)
(* issues, and everything the bus does is invisible.                       *)

LEMMA ServeApplies ==
    ASSUME IInv, NEW n \in Node, NEW s \in Slot,
           s \in Occupied(slots[n]), Serve(n, s)
    PROVE  \E c \in Interlock!Cmd : Interlock!Apply(n, c)
<1> DEFINE c == slots[n][s].cmd
<1>1. c \in Interlock!Cmd /\ c \in Cmd /\ c <= issued
  BY ServeInv DEF Interlock!Cmd, Cmd
<1>2. /\ seen' = [seen EXCEPT ![c] = @ \union {n}]
      /\ target' = [target EXCEPT ![n] = c]
      /\ issued' = issued
  BY DEF Serve, Obey
<1>3. UNCHANGED fan
      \/ (Interlock!Covers(seen[c] \union {n}) /\ fan' = [fan EXCEPT ![n] = c])
  <2>1. CASE DidReachAll(Reach(n, slots[n][s]))
    BY <2>1, ServeInv DEF Serve, Obey, Interlock!Covers
  <2>2. CASE ~DidReachAll(Reach(n, slots[n][s]))
    BY <2>2 DEF Serve, Obey
  <2>3. QED
    BY <2>1, <2>2
<1>4. Interlock!Apply(n, c)
  BY <1>1, <1>2, <1>3 DEF Interlock!Apply
<1>5. QED
  BY <1>1, <1>4

\* What a step of the chaincast is for the interlock.
LEMMA StepCases ==
    ASSUME IInv, [Next]_vars
    PROVE  \/ Interlock!Issue
           \/ \E n \in Interlock!Node : Interlock!Reset(n)
           \/ \E n \in Interlock!Node : \E c \in Interlock!Cmd : Interlock!Apply(n, c)
           \/ UNCHANGED <<issued, seen, target, fan>>
<1>1. Interlock!Node = Node
  BY DEF Interlock!Node, Node
<1>2. ASSUME NEW n \in InjectAt, NEW dst \in InjectDst, Inject(n, dst)
      PROVE  Interlock!Issue
  BY <1>2 DEF Inject, Interlock!Issue
<1>3. ASSUME NEW n \in Node, Restart(n) PROVE Interlock!Reset(n)
  BY <1>3 DEF Restart, Interlock!Reset
<1>4. ASSUME NEW n \in Node, Handle(n)
      PROVE  \E c \in Interlock!Cmd : Interlock!Apply(n, c)
  BY <1>4, ServeApplies DEF Handle, FirstFrom
<1>5. ASSUME NEW n \in Node, Poll(n) \/ Return(n) \/ Configure(n)
      PROVE  UNCHANGED <<issued, seen, target, fan>>
  BY <1>5 DEF Poll, Return, Configure
<1>6. ASSUME NEW m \in Node, NEW n \in Node, Link(m, n)
      PROVE  UNCHANGED <<issued, seen, target, fan>>
  BY <1>6 DEF Link, Receive, ReceiveLate, ReceiveAgain, Take, Lose, GiveUp
<1>7. CASE UNCHANGED vars
  BY <1>7 DEF vars
<1>8. QED
  BY <1>1, <1>2, <1>3, <1>4, <1>5, <1>6, <1>7 DEF Next, Loop

\* The chaincast implements the interlock, faults included (comm.cpp:203-206,
\* main.cpp:159-196).
THEOREM Implements == Spec => InterlockSpec
<1>1. Init => Interlock!Init
  BY DEF Init, Interlock!Init, Node, Cmd, Interlock!Node, Interlock!Cmd
<1>2. IInv /\ [Next]_vars => [Interlock!Next]_<<issued, seen, target, fan>>
  BY StepCases DEF Interlock!Next
<1>3. QED
  BY <1>1, <1>2, InitInv, StepInv, PTL
     DEF Spec, InterlockSpec, Interlock!Spec, Interlock!fanVars

\* A fan obeys a command only after the owner of every damper has handled it
\* (comm.cpp:205, main.cpp:158).
THEOREM FanGated == Spec => []FanGate
<1> DEFINE Inv == IInv /\ FanGate
<1>1. Init => Inv
  BY InitInv DEF Init, FanGate, Interlock!FanGate, Interlock!Node, Node
<1>2. Inv /\ [Next]_vars => Inv'
  <2> SUFFICES ASSUME Inv, [Next]_vars PROVE FanGate'
    BY StepInv
  <2> USE DEF FanGate, Interlock!FanGate, Interlock!Covers
  <2>1. CASE UNCHANGED <<issued, seen, target, fan>>
    BY <2>1
  <2>2. CASE Interlock!Issue
    BY <2>2 DEF Interlock!Issue
  <2>3. ASSUME NEW n \in Interlock!Node, Interlock!Reset(n) PROVE FanGate'
    BY <2>3 DEF Interlock!Reset, IInv, TypeOK, Node, Interlock!Node
  <2>4. ASSUME NEW n \in Interlock!Node, NEW c \in Interlock!Cmd, Interlock!Apply(n, c)
        PROVE  FanGate'
    <3>1. \A k \in Cmd : seen[k] \subseteq seen'[k]
      BY <2>4 DEF Interlock!Apply, IInv, TypeOK, Cmd, Interlock!Cmd
    <3>2. seen'[c] = seen[c] \union {n}
      BY <2>4 DEF Interlock!Apply, IInv, TypeOK, Cmd, Interlock!Cmd
    <3>3. ASSUME NEW m \in Node, fan'[m] # 0, NEW d \in Damper
          PROVE  \E k \in seen'[fan'[m]] : d \in Owner[k]
      <4>1. CASE fan'[m] = fan[m]
        <5>1. fan[m] \in Cmd
          BY <3>3, <4>1, BoundAssumption DEF IInv, TypeOK, Cmd
        <5>2. QED
          BY <3>1, <3>3, <4>1, <5>1 DEF Node, Interlock!Node
      <4>2. CASE fan'[m] # fan[m]
        <5>1. fan'[m] = c /\ Interlock!Covers(seen[c] \union {n})
          BY <2>4, <4>2 DEF Interlock!Apply, IInv, TypeOK
        <5>2. QED
          BY <3>2, <5>1
      <4>3. QED
        BY <4>1, <4>2
    <3>4. QED
      BY <3>3 DEF Node, Interlock!Node
  <2>5. QED
    BY <2>1, <2>2, <2>3, <2>4, StepCases
<1>3. QED
  BY <1>1, <1>2, PTL DEF Spec
=============================================================================
