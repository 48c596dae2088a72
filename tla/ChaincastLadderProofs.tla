------------------------ MODULE ChaincastLadderProofs ------------------------
(***************************************************************************)
(* What the ladder achieves as long as nothing is lost, doubled or reset:   *)
(* a command is in one place at a time, a slot of one ring or a position of *)
(* one link; every command is heard by everybody; and all obey the same     *)
(* command in the end.  For every number of microcontrollers and every ring *)
(* length.                                                                  *)
(***************************************************************************)
EXTENDS ChaincastProofs, FiniteSetTheorems

\* The inductive invariant.  Nobody sends to himself, so a packet that is received
\* comes from another node; and what OneCopy says of the places TLC enumerates
\* holds of all places.
OwnLinkEmpty == \A n \in Node : bus[<<n, n>>] = <<>>

OnePlace ==
    \A c \in Cmd, m1 \in Node, n1 \in Node, m2 \in Node, n2 \in Node, i \in Nat, j \in Nat :
        InPlace(c, m1, n1, i) /\ InPlace(c, m2, n2, j) => m1 = m2 /\ n1 = n2 /\ i = j

SingleCopy == OwnLinkEmpty /\ (faults = 0 => OnePlace)

CopyInv == IInv /\ SingleCopy

-----------------------------------------------------------------------------
(* Where packets are after a step.                                         *)

\* A place a packet of the ring or the bus can be in.
LEMMA PlaceOfIssued ==
    ASSUME IInv, NEW c \in Cmd, NEW m \in Node, NEW n \in Node, NEW i \in Nat,
           InPlace(c, m, n, i)
    PROVE  c <= issued
<1>1. CASE m = n
  BY <1>1 DEF InPlace, IInv, ReachIsHonest, Honest
<1>2. CASE m # n
  BY <1>2 DEF InPlace, IInv, ReachIsHonest, Honest
<1>3. QED
  BY <1>1, <1>2

\* A packet for one destination is put on one link, never on the sender's own.
LEMMA SentOnce ==
    ASSUME bus \in [Node \X Node -> Seq(Packet)], NEW n \in Node, NEW p \in Packet,
           p.to # 0
    PROVE  \A k \in Node, l \in Node :
              Sent(bus, n, p)[<<k, l>>] =
                 IF k = n /\ l # n /\ l = p.to THEN Append(bus[<<k, l>>], p)
                 ELSE bus[<<k, l>>]
BY DEF Sent, Node

\* Nothing is in a place of the bus that it was not put in.
LEMMA AppendPlaces ==
    ASSUME NEW q \in Seq(Packet), NEW p \in Packet, NEW i \in 1..Len(Append(q, p))
    PROVE  \/ i \in 1..Len(q) /\ Append(q, p)[i] = q[i]
           \/ i = Len(q) + 1 /\ Append(q, p)[i] = p
BY AppendProperties, LenProperties

-----------------------------------------------------------------------------
(* One lemma for each kind of step.                                        *)

\* A fault is not forgotten.
LEMMA FaultCounted == ASSUME TypeOK, Fault PROVE faults' # 0
BY BoundAssumption DEF TypeOK, Fault

\* A packet that is received has left its link: no other node sees it, and the slot it
\* is put in holds nothing else (comm.cpp:96-115).
LEMMA ReceiveCopy ==
    ASSUME CopyInv, NEW m \in Node, NEW n \in Node, Receive(m, n)
    PROVE  SingleCopy'
<1> DEFINE q == bus[<<m, n>>]
<1>1. /\ <<m, n>> \in Node \X Node
      /\ q \in Seq(Packet) /\ 1 \in 1..Len(q) /\ Len(q) \in Nat /\ idx[n] \in Slot
      /\ slots' = [slots EXCEPT ![n] = PutRing(@, idx[n], q[1])]
      /\ bus' = [bus EXCEPT ![<<m, n>>] = Without(@, 1)]
      /\ faults' = faults
  BY LenProperties DEF CopyInv, IInv, TypeOK, Receive, Take
<1>2. m # n
  <2>1. Len(<<>>) = 0
    OBVIOUS
  <2>2. QED
    BY <1>1, <2>1 DEF CopyInv, SingleCopy, OwnLinkEmpty
<1>3. \A k \in Node, l \in Node :
         bus'[<<k, l>>] = IF k = m /\ l = n THEN Without(q, 1) ELSE bus[<<k, l>>]
  BY <1>1 DEF CopyInv, IInv, TypeOK
<1>4. \A l \in Node, j \in Slot :
         slots'[l][j] = IF l = n /\ j = idx[n] THEN q[1] ELSE slots[l][j]
  BY <1>1 DEF CopyInv, IInv, TypeOK, PutRing
<1>5. OwnLinkEmpty'
  BY <1>2, <1>3 DEF CopyInv, SingleCopy, OwnLinkEmpty
<1>6. ASSUME NEW c \in Cmd, NEW k \in Node, NEW l \in Node, NEW j \in Nat,
             InPlace(c, k, l, j)'
      PROVE  \/ k = n /\ l = n /\ j = idx[n] /\ InPlace(c, m, n, 1)
             \/ k = m /\ l = n /\ j \in 1..(Len(q) - 1) /\ InPlace(c, m, n, j + 1)
             \/ /\ InPlace(c, k, l, j)
                /\ ~(k = m /\ l = n) /\ ~(k = n /\ l = n /\ j = idx[n])
  <2>1. CASE k = l
    <3>1. j \in Slot /\ slots'[l][j].cmd = c
      BY <1>6, <2>1 DEF InPlace
    <3>2. CASE l = n /\ j = idx[n]
      BY <1>1, <1>2, <1>4, <2>1, <3>1, <3>2 DEF InPlace
    <3>3. CASE ~(l = n /\ j = idx[n])
      BY <1>2, <1>4, <2>1, <3>1, <3>3 DEF InPlace
    <3>4. QED
      BY <3>2, <3>3
  <2>2. CASE k # l
    <3>1. j \in 1..Len(bus'[<<k, l>>]) /\ bus'[<<k, l>>][j].cmd = c
      BY <1>6, <2>2 DEF InPlace
    <3>2. CASE k = m /\ l = n
      <4>1. j \in 1..Len(Without(q, 1)) /\ Without(q, 1)[j].cmd = c
        BY <1>3, <3>1, <3>2
      <4>2. j \in 1..(Len(q) - 1) /\ q[j + 1].cmd = c
        <5>1. Len(Without(q, 1)) = Len(q) - 1
          BY <1>1, WithoutElements
        <5>2. j \in 1..(Len(q) - 1) /\ ~(j < 1)
          BY <1>1, <4>1, <5>1
        <5>3. Without(q, 1)[j] = q[j + 1]
          BY <1>1, <5>2, WithoutElements
        <5>4. QED
          BY <4>1, <5>2, <5>3
      <4>3. j + 1 \in 1..Len(q)
        BY <1>1, <4>2
      <4>4. QED
        BY <1>2, <3>2, <4>2, <4>3 DEF InPlace
    <3>3. CASE ~(k = m /\ l = n)
      BY <1>3, <2>2, <3>1, <3>3 DEF InPlace
    <3>4. QED
      BY <3>2, <3>3
  <2>3. QED
    BY <2>1, <2>2
<1>7. ASSUME faults' = 0 PROVE OnePlace'
  <2>1. OnePlace
    BY <1>1, <1>7 DEF CopyInv, SingleCopy
  <2> SUFFICES ASSUME NEW c \in Cmd, NEW k1 \in Node, NEW l1 \in Node,
                      NEW k2 \in Node, NEW l2 \in Node, NEW i \in Nat, NEW j \in Nat,
                      InPlace(c, k1, l1, i)', InPlace(c, k2, l2, j)'
               PROVE  k1 = k2 /\ l1 = l2 /\ i = j
    BY DEF OnePlace
  <2>2. \A m1 \in Node, n1 \in Node, m2 \in Node, n2 \in Node, x \in Nat, y \in Nat :
           InPlace(c, m1, n1, x) /\ InPlace(c, m2, n2, y) => m1 = m2 /\ n1 = n2 /\ x = y
    BY <2>1 DEF OnePlace
  <2>3. \A k \in Node, l \in Node, x \in Nat : InPlace(c, k, l, x)' =>
             \/ k = n /\ l = n /\ x = idx[n] /\ InPlace(c, m, n, 1)
             \/ k = m /\ l = n /\ x \in 1..(Len(q) - 1) /\ InPlace(c, m, n, x + 1)
             \/ /\ InPlace(c, k, l, x)
                /\ ~(k = m /\ l = n) /\ ~(k = n /\ l = n /\ x = idx[n])
    BY <1>6
  <2> HIDE DEF InPlace, q
  <2>4. CASE k1 = n /\ l1 = n /\ i = idx[n] /\ InPlace(c, m, n, 1)
    BY <2>2, <2>3, <2>4
  <2>5. CASE k1 = m /\ l1 = n /\ i \in 1..(Len(q) - 1) /\ InPlace(c, m, n, i + 1)
    BY <2>2, <2>3, <2>5
  <2>6. CASE InPlace(c, k1, l1, i) /\ ~(k1 = m /\ l1 = n)
    BY <2>2, <2>3, <2>6
  <2>7. QED
    BY <2>3, <2>4, <2>5, <2>6
<1>8. QED
  BY <1>5, <1>7 DEF SingleCopy

\* A new command has a number nobody has seen, and is put in the own ring or on one
\* link, never both (comm.cpp:153-185).
LEMMA InjectCopy ==
    ASSUME CopyInv, 0 \notin InjectDst, NEW n \in InjectAt, NEW dst \in InjectDst,
           Inject(n, dst)
    PROVE  SingleCopy'
<1> DEFINE c0 == issued + 1
           p  == [to |-> n, cmd |-> c0, reach |-> {}]
           q  == [to |-> dst, cmd |-> c0, reach |-> {}]
<1>1. n \in Node /\ dst \in Node /\ dst # 0
  BY InjectAssumption, NodeAssumption DEF Node
<1>2. issued \in Nat /\ c0 \in Cmd /\ faults' = faults
  BY BoundAssumption DEF CopyInv, IInv, TypeOK, Inject, Cmd
<1>3. p \in Packet /\ q \in Packet /\ p.cmd = c0 /\ q.cmd = c0 /\ q.to = dst
  BY <1>1, <1>2, BoundAssumption, NodeAssumption DEF Packet, Node, Cmd
<1>4. \/ /\ slots' = [slots EXCEPT ![n] = PutRing(@, idx[n], p)] /\ bus' = bus
      \/ slots' = slots /\ bus' = Sent(bus, n, q)
  BY <1>1 DEF Inject
<1> HIDE DEF p, q
<1>5. CASE slots' = [slots EXCEPT ![n] = PutRing(@, idx[n], p)] /\ bus' = bus
  <2>1. idx[n] \in Slot /\ idx[n] \in Nat
    BY <1>1, BufAssumption DEF CopyInv, IInv, TypeOK, Slot
  <2>2. \A l \in Node, j \in Slot :
           slots'[l][j] = IF l = n /\ j = idx[n] THEN p ELSE slots[l][j]
    BY <1>1, <1>5, <2>1 DEF CopyInv, IInv, TypeOK, PutRing
  <2>3. OwnLinkEmpty'
    BY <1>5 DEF CopyInv, SingleCopy, OwnLinkEmpty
  <2>4. ASSUME NEW c \in Cmd, NEW k \in Node, NEW l \in Node, NEW j \in Nat,
               InPlace(c, k, l, j)'
        PROVE  (c = c0 /\ k = n /\ l = n /\ j = idx[n]) \/ InPlace(c, k, l, j)
    BY <1>3, <1>5, <2>2, <2>4 DEF InPlace
  <2>5. faults' = 0 => OnePlace'
    <3>1. \A c \in Cmd, k \in Node, l \in Node, j \in Nat :
             InPlace(c, k, l, j) => c # c0
      BY <1>2, PlaceOfIssued DEF CopyInv, Cmd
    <3>2. QED
      BY <1>2, <2>4, <3>1 DEF CopyInv, SingleCopy, OnePlace
  <2>6. QED
    BY <2>3, <2>5 DEF SingleCopy
<1>6. CASE slots' = slots /\ bus' = Sent(bus, n, q)
  <2>1. \A k \in Node, l \in Node :
           bus'[<<k, l>>] = IF k = n /\ l # n /\ l = dst THEN Append(bus[<<k, l>>], q)
                            ELSE bus[<<k, l>>]
    <3>1. bus \in [Node \X Node -> Seq(Packet)] /\ q.to # 0
      BY <1>1, <1>3 DEF CopyInv, IInv, TypeOK
    <3>2. \A k \in Node, l \in Node :
             Sent(bus, n, q)[<<k, l>>] =
                IF k = n /\ l # n /\ l = q.to THEN Append(bus[<<k, l>>], q)
                ELSE bus[<<k, l>>]
      BY <1>1, <1>3, <3>1, SentOnce
    <3>3. QED
      BY <1>3, <1>6, <3>2
  <2>2. OwnLinkEmpty'
    BY <2>1 DEF CopyInv, SingleCopy, OwnLinkEmpty
  <2>3. ASSUME NEW c \in Cmd, NEW k \in Node, NEW l \in Node, NEW j \in Nat,
               InPlace(c, k, l, j)'
        PROVE  \/ c = c0 /\ k = n /\ l = dst /\ j = Len(bus[<<n, dst>>]) + 1
               \/ InPlace(c, k, l, j)
    <3>1. CASE k = n /\ l = dst /\ l # n
      <4>1. bus[<<n, dst>>] \in Seq(Packet)
        BY <1>1 DEF CopyInv, IInv, TypeOK
      <4>2. /\ j \in 1..Len(Append(bus[<<n, dst>>], q))
            /\ Append(bus[<<n, dst>>], q)[j].cmd = c
        BY <2>1, <2>3, <3>1 DEF InPlace
      <4>3. QED
        BY <1>3, <3>1, <4>1, <4>2, AppendPlaces DEF InPlace
    <3>2. CASE ~(k = n /\ l = dst /\ l # n)
      BY <1>6, <2>1, <2>3, <3>2 DEF InPlace
    <3>3. QED
      BY <3>1, <3>2
  <2>4. faults' = 0 => OnePlace'
    <3>1. \A c \in Cmd, k \in Node, l \in Node, j \in Nat :
             InPlace(c, k, l, j) => c # c0
      BY <1>2, PlaceOfIssued DEF CopyInv, Cmd
    <3>2. QED
      BY <1>2, <2>3, <3>1 DEF CopyInv, SingleCopy, OnePlace
  <2>5. QED
    BY <2>2, <2>4 DEF SingleCopy
<1>7. QED
  BY <1>4, <1>5, <1>6

\* A packet that is handled has left its slot before it is sent on, and it is sent to
\* one neighbour (comm.cpp:252-275).
LEMMA ServeCopy ==
    ASSUME CopyInv, NEW n \in Node, NEW s \in Slot, s \in Occupied(slots[n]), Serve(n, s)
    PROVE  SingleCopy'
<1> DEFINE p   == slots[n][s]
           all == DidReachAll(Reach(n, p))
           to  == NextId(n, all)
           f   == [to |-> to, cmd |-> p.cmd, reach |-> Reach(n, p)]
<1>1. /\ p \in Packet /\ s \in Nat
      /\ slots' = [slots EXCEPT ![n] = PutRing(@, s, NoPacket)]
      /\ bus' = bus \/ (to \in Node /\ bus' = Sent(bus, n, f))
      /\ faults' = faults
  BY BufAssumption DEF CopyInv, IInv, TypeOK, Serve, Forwards, Slot
<1>2. to \in Node => f \in Packet /\ f.to = to /\ f.to # 0 /\ f.cmd = p.cmd
  <2>1. p.cmd \in 0..MaxCmd /\ Reach(n, p) \in SUBSET Damper
    BY <1>1 DEF Packet, Reach, CopyInv, IInv, TypeOK
  <2>2. to \in Node => to \in 0..N /\ to # 0
    BY NodeAssumption DEF Node
  <2> HIDE DEF to, p
  <2>3. QED
    BY <2>1, <2>2 DEF Packet
<1>3. InPlace(p.cmd, n, n, s)
  BY DEF InPlace
<1> HIDE DEF p, all, to, f
<1>4. \A l \in Node, j \in Slot :
         slots'[l][j] = IF l = n /\ j = s THEN NoPacket ELSE slots[l][j]
  BY <1>1 DEF CopyInv, IInv, TypeOK, PutRing
<1>5. ASSUME NEW c \in Cmd, NEW l \in Node, NEW j \in Nat, InPlace(c, l, l, j)'
      PROVE  InPlace(c, l, l, j) /\ ~(l = n /\ j = s)
  <2>1. c # 0 /\ NoPacket.cmd = 0
    BY DEF Cmd, NoPacket
  <2>2. QED
    BY <1>4, <1>5, <2>1 DEF InPlace
<1>6. CASE bus' = bus
  <2>1. OwnLinkEmpty'
    BY <1>6 DEF CopyInv, SingleCopy, OwnLinkEmpty
  <2>2. \A c \in Cmd, k \in Node, l \in Node, j \in Nat :
           InPlace(c, k, l, j)' => InPlace(c, k, l, j)
    BY <1>5, <1>6 DEF InPlace
  <2>3. QED
    BY <1>1, <2>1, <2>2 DEF CopyInv, SingleCopy, OnePlace
<1>7. CASE to \in Node /\ bus' = Sent(bus, n, f)
  <2>1. \A k \in Node, l \in Node :
           bus'[<<k, l>>] = IF k = n /\ l # n /\ l = to THEN Append(bus[<<k, l>>], f)
                            ELSE bus[<<k, l>>]
    <3>1. bus \in [Node \X Node -> Seq(Packet)]
      BY DEF CopyInv, IInv, TypeOK
    <3>2. \A k \in Node, l \in Node :
             Sent(bus, n, f)[<<k, l>>] =
                IF k = n /\ l # n /\ l = f.to THEN Append(bus[<<k, l>>], f)
                ELSE bus[<<k, l>>]
      BY <1>2, <1>7, <3>1, SentOnce
    <3>3. QED
      BY <1>2, <1>7, <3>2
  <2>2. OwnLinkEmpty'
    BY <2>1 DEF CopyInv, SingleCopy, OwnLinkEmpty
  <2>3. ASSUME NEW c \in Cmd, NEW k \in Node, NEW l \in Node, NEW j \in Nat,
               InPlace(c, k, l, j)'
        PROVE  \/ c = p.cmd /\ k = n /\ l = to /\ j = Len(bus[<<n, to>>]) + 1
               \/ InPlace(c, k, l, j) /\ ~(k = n /\ l = n /\ j = s)
    <3>1. CASE k = n /\ l = to /\ l # n
      <4>1. bus[<<n, to>>] \in Seq(Packet)
        BY <1>7 DEF CopyInv, IInv, TypeOK
      <4>2. /\ j \in 1..Len(Append(bus[<<n, to>>], f))
            /\ Append(bus[<<n, to>>], f)[j].cmd = c
        BY <2>1, <2>3, <3>1 DEF InPlace
      <4>3. QED
        BY <1>2, <1>7, <3>1, <4>1, <4>2, AppendPlaces DEF InPlace
    <3>2. CASE ~(k = n /\ l = to /\ l # n) /\ k # l
      BY <2>1, <2>3, <3>2 DEF InPlace
    <3>3. CASE k = l
      BY <1>5, <2>3, <3>3
    <3>4. QED
      BY <3>1, <3>2, <3>3
  <2>4. faults' = 0 => OnePlace'
    BY <1>1, <1>3, <2>3 DEF CopyInv, SingleCopy, OnePlace
  <2>5. QED
    BY <2>2, <2>4 DEF SingleCopy
<1>8. QED
  BY <1>1, <1>6, <1>7

\* Giving up on a packet moves up what was behind it.
LEMMA GiveUpCopy ==
    ASSUME CopyInv, NEW m \in Node, NEW n \in Node, GiveUp(m, n)
    PROVE  SingleCopy'
<1> DEFINE q == bus[<<m, n>>]
<1>1. /\ q \in Seq(Packet) /\ q # <<>> /\ Len(q) \in Nat
      /\ bus' = [bus EXCEPT ![<<m, n>>] = Tail(@)]
      /\ slots' = slots /\ faults' = faults
  BY LenProperties DEF CopyInv, IInv, TypeOK, GiveUp
<1>2. m # n
  BY <1>1 DEF CopyInv, SingleCopy, OwnLinkEmpty
<1>3. /\ Len(Tail(q)) = Len(q) - 1
      /\ \A j \in 1..(Len(q) - 1) : Tail(q)[j] = q[j + 1]
  BY <1>1, HeadTailProperties
<1>4. \A k \in Node, l \in Node :
         bus'[<<k, l>>] = IF k = m /\ l = n THEN Tail(q) ELSE bus[<<k, l>>]
  BY <1>1 DEF CopyInv, IInv, TypeOK
<1>5. OwnLinkEmpty'
  BY <1>2, <1>4 DEF CopyInv, SingleCopy, OwnLinkEmpty
<1>6. ASSUME NEW c \in Cmd, NEW k \in Node, NEW l \in Node, NEW j \in Nat,
             InPlace(c, k, l, j)'
      PROVE  \/ k = m /\ l = n /\ InPlace(c, k, l, j + 1)
             \/ ~(k = m /\ l = n) /\ InPlace(c, k, l, j)
  <2>1. CASE k = m /\ l = n
    <3>1. j \in 1..(Len(q) - 1) /\ q[j + 1].cmd = c
      <4>1. j \in 1..Len(Tail(q)) /\ Tail(q)[j].cmd = c
        BY <1>2, <1>4, <1>6, <2>1 DEF InPlace
      <4>2. j \in 1..(Len(q) - 1)
        BY <1>3, <4>1
      <4>3. QED
        BY <1>3, <4>1, <4>2
    <3>2. j + 1 \in 1..Len(q)
      BY <1>1, <3>1
    <3>3. QED
      BY <1>2, <2>1, <3>1, <3>2 DEF InPlace
  <2>2. CASE ~(k = m /\ l = n)
    BY <1>1, <1>4, <1>6, <2>2 DEF InPlace
  <2>3. QED
    BY <2>1, <2>2
<1>7. ASSUME faults' = 0 PROVE OnePlace'
  <2>1. OnePlace
    BY <1>1, <1>7 DEF CopyInv, SingleCopy
  <2> SUFFICES ASSUME NEW c \in Cmd, NEW k1 \in Node, NEW l1 \in Node,
                      NEW k2 \in Node, NEW l2 \in Node, NEW i \in Nat, NEW j \in Nat,
                      InPlace(c, k1, l1, i)', InPlace(c, k2, l2, j)'
               PROVE  k1 = k2 /\ l1 = l2 /\ i = j
    BY DEF OnePlace
  <2>2. \A m1 \in Node, n1 \in Node, m2 \in Node, n2 \in Node, x \in Nat, y \in Nat :
           InPlace(c, m1, n1, x) /\ InPlace(c, m2, n2, y) => m1 = m2 /\ n1 = n2 /\ x = y
    BY <2>1 DEF OnePlace
  <2>3. i + 1 \in Nat /\ j + 1 \in Nat
    OBVIOUS
  <2> HIDE DEF InPlace
  <2>4. CASE k1 = m /\ l1 = n
    BY <1>6, <2>2, <2>3, <2>4
  <2>5. CASE ~(k1 = m /\ l1 = n)
    BY <1>6, <2>2, <2>3, <2>5
  <2>6. QED
    BY <2>4, <2>5
<1>8. QED
  BY <1>5, <1>7 DEF SingleCopy

-----------------------------------------------------------------------------
(* The invariant.                                                          *)

\* A step that leaves bus and rings alone moves no packet.
LEMMA NothingMoved ==
    ASSUME CopyInv, UNCHANGED <<bus, slots, faults>>
    PROVE  SingleCopy'
BY DEF CopyInv, SingleCopy, OwnLinkEmpty, OnePlace, InPlace

\* After a fault nothing is claimed but that nobody sends to himself.
LEMMA FaultCopy ==
    ASSUME CopyInv, Fault, NEW m \in Node, NEW n \in Node, NEW x \in Seq(Packet),
           bus' = bus \/ (bus[<<m, n>>] # <<>> /\ bus' = [bus EXCEPT ![<<m, n>>] = x])
    PROVE  SingleCopy'
<1>1. faults' # 0
  BY FaultCounted DEF CopyInv, IInv
<1>2. CASE bus' = bus
  BY <1>1, <1>2 DEF CopyInv, SingleCopy, OwnLinkEmpty
<1>3. CASE bus[<<m, n>>] # <<>> /\ bus' = [bus EXCEPT ![<<m, n>>] = x]
  <2>1. m # n
    BY <1>3 DEF CopyInv, SingleCopy, OwnLinkEmpty
  <2>2. \A k \in Node : bus'[<<k, k>>] = bus[<<k, k>>]
    BY <1>3, <2>1 DEF CopyInv, IInv, TypeOK
  <2>3. QED
    BY <1>1, <2>2 DEF CopyInv, SingleCopy, OwnLinkEmpty
<1>4. QED
  BY <1>2, <1>3

\* A packet that is taken was on the link.
LEMMA TakeBus ==
    ASSUME CopyInv, NEW m \in Node, NEW n \in Node, NEW i, NEW keep \in BOOLEAN,
           Take(m, n, i, keep)
    PROVE  \E x \in Seq(Packet) :
              bus' = bus \/ (bus[<<m, n>>] # <<>> /\ bus' = [bus EXCEPT ![<<m, n>>] = x])
<1> DEFINE q == bus[<<m, n>>]
<1>1. q \in Seq(Packet) /\ i \in 1..Len(q)
  BY DEF CopyInv, IInv, TypeOK, Take
<1>2. q # <<>> /\ Without(q, i) \in Seq(Packet)
  <2>1. Len(<<>>) = 0
    OBVIOUS
  <2>2. QED
    BY <1>1, <2>1, WithoutType
<1>3. bus' = bus \/ bus' = [bus EXCEPT ![<<m, n>>] = Without(q, i)]
  BY DEF Take
<1>4. QED
  BY <1>2, <1>3

LEMMA LinkCopy ==
    ASSUME CopyInv, NEW m \in Node, NEW n \in Node, Link(m, n)
    PROVE  SingleCopy'
<1>1. CASE Receive(m, n)
  BY <1>1, ReceiveCopy
<1>2. ASSUME NEW i, NEW keep \in BOOLEAN, Fault, Take(m, n, i, keep) PROVE SingleCopy'
  <2>1. PICK x \in Seq(Packet) :
           bus' = bus \/ (bus[<<m, n>>] # <<>> /\ bus' = [bus EXCEPT ![<<m, n>>] = x])
    BY <1>2, TakeBus
  <2>2. QED
    BY <1>2, <2>1, FaultCopy
<1>3. CASE ReceiveLate(m, n) \/ ReceiveAgain(m, n)
  BY <1>2, <1>3 DEF ReceiveLate, ReceiveAgain
<1>4. CASE Lose(m, n)
  <2>1. bus[<<m, n>>] \in Seq(Packet) /\ bus[<<m, n>>] # <<>>
    BY <1>4 DEF Lose, CopyInv, IInv, TypeOK
  <2>2. Tail(bus[<<m, n>>]) \in Seq(Packet)
    BY <2>1, TailType
  <2>3. QED
    BY <1>4, <2>1, <2>2, FaultCopy DEF Lose
<1>5. CASE GiveUp(m, n)
  BY <1>5, GiveUpCopy
<1>6. QED
  BY <1>1, <1>3, <1>4, <1>5 DEF Link

LEMMA StepCopy ==
    ASSUME CopyInv, 0 \notin InjectDst, [Next]_vars
    PROVE  SingleCopy'
<1>1. ASSUME NEW n \in InjectAt, NEW dst \in InjectDst, Inject(n, dst) PROVE SingleCopy'
  BY <1>1, InjectCopy
<1>2. ASSUME NEW n \in Node, Handle(n) PROVE SingleCopy'
  BY <1>2, ServeCopy DEF Handle, FirstFrom
<1>3. ASSUME NEW n \in Node, Poll(n) \/ Return(n) \/ Configure(n) PROVE SingleCopy'
  BY <1>3, NothingMoved DEF Poll, Return, Configure
<1>4. ASSUME NEW n \in Node, Restart(n) PROVE SingleCopy'
  <2>1. <<>> \in Seq(Packet)
    OBVIOUS
  <2>2. QED
    BY <1>4, <2>1, FaultCopy DEF Restart
<1>5. ASSUME NEW m \in Node, NEW n \in Node, Link(m, n) PROVE SingleCopy'
  BY <1>5, LinkCopy
<1>6. CASE UNCHANGED vars
  BY <1>6, NothingMoved DEF vars
<1>7. QED
  BY <1>1, <1>2, <1>3, <1>4, <1>5, <1>6 DEF Next, Loop

\* Nothing is anywhere at first.
LEMMA CopyInitially == Init => CopyInv
<1> SUFFICES ASSUME Init PROVE CopyInv
  OBVIOUS
<1>1. \A m \in Node, n \in Node : bus[<<m, n>>] = <<>>
  BY DEF Init
<1>2. \A c \in Cmd, m \in Node, n \in Node, i \in Nat : ~InPlace(c, m, n, i)
  <2>1. Len(<<>>) = 0
    OBVIOUS
  <2>2. QED
    BY <1>1, <2>1 DEF Init, InPlace, NoPacket, Cmd
<1>3. QED
  BY <1>1, <1>2, InitInv DEF CopyInv, SingleCopy, OwnLinkEmpty, OnePlace

\* The ladder neither floods the bus nor echoes (comm.cpp:252-275): without faults a
\* command that was injected for one destination is in one place at a time.  A
\* broadcast is not: it is put in the own ring and on every link (comm.cpp:161-183).
THEOREM NoEcho ==
    ASSUME 0 \notin InjectDst
    PROVE  Spec => []OneCopy
<1>1. Init => CopyInv
  BY CopyInitially
<1>2. CopyInv /\ [Next]_vars => CopyInv'
  BY StepInv, StepCopy DEF CopyInv
<1>3. CopyInv => OneCopy
  <2> SUFFICES ASSUME CopyInv, faults = 0, NEW c \in Cmd,
                      NEW x \in Packets(c), NEW y \in Packets(c)
               PROVE  x = y
    BY DEF OneCopy
  <2>1. /\ x \in Node \X Node \X Nat /\ InPlace(c, x[1], x[2], x[3])
        /\ y \in Node \X Node \X Nat /\ InPlace(c, y[1], y[2], y[3])
    BY BoundAssumption, BufAssumption DEF Packets
  <2>2. x[1] = y[1] /\ x[2] = y[2] /\ x[3] = y[3]
    BY <2>1 DEF CopyInv, SingleCopy, OnePlace
  <2>3. QED
    BY <2>1, <2>2
<1>4. QED
  BY <1>1, <1>2, <1>3, PTL DEF Spec

-----------------------------------------------------------------------------
(* Arithmetic of the ring index.                                           *)

\* How far slot s is behind the index i: the slot at the index is written next, and the
\* scan for messages to handle starts there (comm.cpp:84-117, 285-330).
Dist(i, s) == (s + BufLen - i) % BufLen

LEMMA ModTurn ==
    ASSUME NEW x \in Nat, x < BufLen
    PROVE  x % BufLen = x /\ (x + BufLen) % BufLen = x
BY BufAssumption

LEMMA DistValue ==
    ASSUME NEW i \in Slot, NEW s \in Slot
    PROVE  Dist(i, s) = IF s < i THEN s + BufLen - i ELSE s - i
<1>1. i \in Nat /\ s \in Nat /\ i < BufLen /\ s < BufLen /\ BufLen \in Nat
  BY BufAssumption DEF Slot
<1>2. CASE s < i
  <2>1. s + BufLen - i \in Nat /\ s + BufLen - i < BufLen
    BY <1>1, <1>2
  <2>2. QED
    BY <1>2, <2>1, ModTurn DEF Dist
<1>3. CASE ~(s < i)
  <2>1. s - i \in Nat /\ s - i < BufLen /\ s + BufLen - i = (s - i) + BufLen
    BY <1>1, <1>3
  <2>2. QED
    BY <1>3, <2>1, ModTurn DEF Dist
<1>4. QED
  BY <1>2, <1>3

LEMMA BumpValue ==
    ASSUME NEW i \in Slot
    PROVE  Bump(i) = IF i + 1 = BufLen THEN 0 ELSE i + 1
<1>1. i + 1 \in Nat /\ i + 1 <= BufLen /\ BufLen \in Nat
  BY BufAssumption DEF Slot
<1>2. CASE i + 1 = BufLen
  BY <1>2, ModTurn, BufAssumption DEF Bump
<1>3. CASE i + 1 < BufLen
  BY <1>1, <1>3, ModTurn DEF Bump
<1>4. QED
  BY <1>1, <1>2, <1>3

\* When the index moves on, every slot comes nearer by one, and the one it leaves is last.
LEMMA DistBump ==
    ASSUME NEW i \in Slot
    PROVE  /\ Bump(i) \in Slot
           /\ \A s \in Slot : Dist(i, s) \in 0..(BufLen - 1)
           /\ \A s \in Slot : Dist(Bump(i), s) =
                    IF s = i THEN BufLen - 1 ELSE Dist(i, s) - 1
           /\ \A s, t \in Slot : Dist(i, s) = Dist(i, t) => s = t
           /\ Dist(i, i) = 0
<1>1. Bump(i) \in Slot
  BY BumpType
<1>2. BufLen \in Nat /\ \A s \in Slot : s \in Nat /\ s < BufLen
  BY BufAssumption DEF Slot
<1>3. \A s, j \in Slot : Dist(j, s) = IF s < j THEN s + BufLen - j ELSE s - j
  BY DistValue
<1>4. ASSUME NEW s \in Slot
      PROVE  Dist(Bump(i), s) = IF s = i THEN BufLen - 1 ELSE Dist(i, s) - 1
  BY <1>1, <1>2, <1>3, BumpValue
<1>5. QED
  BY <1>1, <1>2, <1>3, <1>4

\* There is a slot that was written last.
LEMMA NewestThere == \A i \in Slot : \E s \in Slot : Dist(i, s) = BufLen - 1
<1> TAKE i \in Slot
<1>1. BufLen \in Nat /\ BufLen # 0 /\ i \in Nat /\ i < BufLen
  BY BufAssumption DEF Slot
<1>2. CASE i = 0
  <2>1. BufLen - 1 \in Slot
    BY <1>1 DEF Slot
  <2>2. QED
    BY <1>1, <1>2, <2>1, DistValue
<1>3. CASE i # 0
  <2>1. i - 1 \in Slot
    BY <1>1, <1>3 DEF Slot
  <2>2. QED
    BY <1>1, <1>3, <2>1, DistValue
<1>4. QED
  BY <1>2, <1>3

-----------------------------------------------------------------------------
(* The ring.                                                               *)

\* From the oldest packet on, the ring is full up to the index.
Contiguous(ring, i) ==
    \A s, t \in Slot : ring[s].cmd # 0 /\ Dist(i, s) <= Dist(i, t) => ring[t].cmd # 0

\* What is received is put behind the newest packet, over the oldest when all are taken.
LEMMA PutContiguous ==
    ASSUME NEW ring \in [Slot -> Packet], NEW i \in Slot, NEW p \in Packet, p.cmd # 0,
           Contiguous(ring, i)
    PROVE  Contiguous(PutRing(ring, i, p), Bump(i))
<1> SUFFICES ASSUME NEW s \in Slot, NEW t \in Slot,
                    PutRing(ring, i, p)[s].cmd # 0, Dist(Bump(i), s) <= Dist(Bump(i), t)
             PROVE  PutRing(ring, i, p)[t].cmd # 0
  BY DEF Contiguous
<1>1. CASE t = i
  BY <1>1 DEF PutRing
<1>2. CASE t # i
  <2>1. /\ Dist(Bump(i), t) = Dist(i, t) - 1 /\ Dist(i, t) \in 0..(BufLen - 1)
        /\ Dist(i, s) \in 0..(BufLen - 1) /\ BufLen \in Nat
        /\ Dist(Bump(i), s) = IF s = i THEN BufLen - 1 ELSE Dist(i, s) - 1
    BY <1>2, DistBump, BufAssumption
  <2>2. s # i /\ Dist(i, s) <= Dist(i, t)
    BY <2>1
  <2>3. ring[s].cmd # 0
    BY <2>2 DEF PutRing
  <2>4. QED
    BY <1>2, <2>2, <2>3 DEF Contiguous, PutRing
<1>3. QED
  BY <1>1, <1>2

\* The oldest packet is handled first.
LEMMA EmptyContiguous ==
    ASSUME NEW ring \in [Slot -> Packet], NEW i \in Slot, NEW s \in Slot,
           Contiguous(ring, i), FirstFrom(ring, i, s)
    PROVE  Contiguous(PutRing(ring, s, NoPacket), i)
<1> SUFFICES ASSUME NEW u \in Slot, NEW t \in Slot,
                    PutRing(ring, s, NoPacket)[u].cmd # 0, Dist(i, u) <= Dist(i, t)
             PROVE  PutRing(ring, s, NoPacket)[t].cmd # 0
  BY DEF Contiguous
<1>1. u # s /\ ring[u].cmd # 0
  BY DEF PutRing, NoPacket
<1>2. ring[t].cmd # 0
  BY <1>1 DEF Contiguous
<1>3. t # s
  <2>1. Dist(i, s) <= Dist(i, u)
    BY <1>1 DEF FirstFrom, Occupied, Dist
  <2>2. Dist(i, s) \in 0..(BufLen - 1) /\ Dist(i, u) \in 0..(BufLen - 1)
    BY DistBump
  <2>3. Dist(i, s) # Dist(i, u)
    BY <1>1, DistBump
  <2>4. t = s => Dist(i, u) <= Dist(i, s)
    OBVIOUS
  <2>5. QED
    BY <2>1, <2>2, <2>3, <2>4, BufAssumption
<1>4. QED
  BY <1>2, <1>3 DEF PutRing

\* When the slot at the index is occupied, all are.
LEMMA FullRing ==
    ASSUME NEW ring, NEW i \in Slot, Contiguous(ring, i), ring[i].cmd # 0
    PROVE  \A s \in Slot : ring[s].cmd # 0
<1>1. \A s \in Slot : Dist(i, i) <= Dist(i, s)
  BY DistBump, BufAssumption
<1>2. QED
  BY <1>1 DEF Contiguous

-----------------------------------------------------------------------------
(* The ladder.                                                             *)

\* The dampers of the ids 1 to n.
OfFirst(n) == UNION {Owner[k] : k \in 1..n}

LEMMA OfFirstGrows ==
    /\ OfFirst(0) = {}
    /\ \A n \in Node : /\ OfFirst(n) \subseteq Damper
                       /\ OfFirst(n - 1) \union Owner[n] = OfFirst(n)
<1>1. OfFirst(0) = {}
  BY DEF OfFirst
<1>2. ASSUME NEW n \in Node
      PROVE  OfFirst(n) \subseteq Damper /\ OfFirst(n - 1) \union Owner[n] = OfFirst(n)
  <2>1. n \in Nat /\ n >= 1 /\ n <= N /\ N \in Nat
    BY NodeAssumption DEF Node
  <2>2. 1..n = 1..(n - 1) \union {n} /\ 1..n \subseteq Node
    BY <2>1 DEF Node
  <2>3. QED
    BY <2>2, OwnerAssumption DEF OfFirst
<1>3. QED
  BY <1>1, <1>2

\* Nobody was reset, and nobody has lost the dampers configured on it.
Working == \A n \in Node : online[n] /\ installed[n] = Owner[n]

\* A packet for n is on its way up, or down.
OnLadder(n, p) ==
    /\ p.to = n
    /\ \/ p.reach = OfFirst(n - 1) /\ seen[p.cmd] = 1..(n - 1)
       \/ p.reach = Damper /\ seen[p.cmd] = Node

\* Where packets are when there has been no fault: each is on its way up, with the reach of
\* the ids below, or on its way down, with all dampers.
Ladder ==
    /\ Working
    /\ \A n \in Node : Contiguous(slots[n], idx[n])
    /\ \A c \in Cmd : c > issued => seen[c] = {}
    /\ \A m, n \in Node : \A i \in 1..Len(bus[<<m, n>>]) : OnLadder(n, bus[<<m, n>>][i])
    /\ \A n \in Node, s \in Slot : slots[n][s].cmd # 0 => OnLadder(n, slots[n][s])

LadderInv == CopyInv /\ (faults = 0 => Ladder)

\* "always sent to or origintates from pjonid 1 (bottom of the ladder)" (comm.cpp:197).
FromBottom == InjectDst \subseteq {1}
\* The reach field is full at the top of the ladder only, as in the installation of the
\* firmware README: otherwise the packet turns back before it has been there.
TopNeeded == \A n \in Node : n < N => OfFirst(n) # Damper

-----------------------------------------------------------------------------
(* The steps that remain when there is no fault.                           *)

\* No fault so far means that this step is none either, and that everybody works.
LEMMA Faultless ==
    ASSUME IInv, faults = 0 => Working, faults' = 0, [Next]_vars
    PROVE  /\ faults = 0
           /\ \/ \E n \in InjectAt, dst \in InjectDst : Inject(n, dst)
              \/ \E m \in Node, n \in Node : Receive(m, n)
              \/ \E n \in Node : Handle(n)
              \/ UNCHANGED <<issued, bus, slots, idx, online, installed, target, fan, seen>>
<1>1. ~Fault
  BY FaultCounted DEF IInv
<1>2. ASSUME NEW n \in Node, Loop(n)
      PROVE  /\ faults = 0
             /\ Handle(n) \/ UNCHANGED <<issued, bus, slots, idx, online, installed, target,
                                         fan, seen>>
  BY <1>2 DEF Loop, Poll, Handle, Serve, Return, Configure, Working
<1>3. ASSUME NEW m \in Node, NEW n \in Node, Link(m, n)
      PROVE  faults = 0 /\ Receive(m, n)
  BY <1>1, <1>3 DEF Link, Receive, ReceiveLate, ReceiveAgain, Lose, GiveUp, Working
<1>4. ASSUME NEW n \in InjectAt, NEW dst \in InjectDst, Inject(n, dst) PROVE faults = 0
  BY <1>4 DEF Inject
<1>5. QED
  BY <1>1, <1>2, <1>3, <1>4 DEF Next, Restart, vars

\* What is kept by a step that only moves packets.
Moves == UNCHANGED <<online, installed, target, fan, seen>>

\* Injected at id 1 a command is put in the ring (comm.cpp:177-178), elsewhere it is sent to
\* id 1 (comm.cpp:180-181).
LEMMA InjectParts ==
    ASSUME CopyInv, Working, FromBottom, NEW n \in InjectAt, NEW dst \in InjectDst,
           Inject(n, dst)
    PROVE  \E p \in Packet :
              /\ issued' = issued + 1 /\ issued' \in Cmd /\ Moves
              /\ p = [to |-> 1, cmd |-> issued + 1, reach |-> {}]
              /\ \/ /\ n = 1 /\ bus' = bus
                    /\ slots' = [slots EXCEPT ![1] = PutRing(@, idx[1], p)]
                    /\ idx' = [idx EXCEPT ![1] = Bump(@)]
                 \/ /\ n # 1 /\ UNCHANGED <<slots, idx>>
                    /\ \A k \in Node, l \in Node :
                          bus'[<<k, l>>] = IF k = n /\ l = 1 THEN Append(bus[<<k, l>>], p)
                                           ELSE bus[<<k, l>>]
<1> DEFINE p == [to |-> 1, cmd |-> issued + 1, reach |-> {}]
<1>1. n \in Node /\ dst = 1 /\ 1 \in Node /\ issued' = issued + 1 /\ issued' \in Cmd /\ Moves
  BY InjectAssumption, NodeAssumption, BoundAssumption
     DEF FromBottom, Inject, Node, Cmd, Moves, CopyInv, IInv, TypeOK
<1>2. p \in Packet
  BY <1>1, NodeAssumption, BoundAssumption DEF Packet, Inject, Cmd
<1>3. CASE n = 1
  <2>1. /\ bus' = bus
        /\ slots' = [slots EXCEPT ![1] = PutRing(@, idx[1], p)]
        /\ idx' = [idx EXCEPT ![1] = Bump(@)]
    BY <1>1, <1>3 DEF Inject, Working
  <2>2. QED
    BY <1>1, <1>2, <1>3, <2>1
<1>4. CASE n # 1
  <2>1. slots' = slots /\ idx' = idx /\ bus' = Sent(bus, n, p)
    BY <1>1, <1>4 DEF Inject
  <2>2. bus \in [Node \X Node -> Seq(Packet)] /\ p.to = 1 /\ p.to # 0
    BY DEF CopyInv, IInv, TypeOK
  <2>3. \A k \in Node, l \in Node :
           Sent(bus, n, p)[<<k, l>>] =
              IF k = n /\ l # n /\ l = p.to THEN Append(bus[<<k, l>>], p)
              ELSE bus[<<k, l>>]
    BY <1>1, <1>2, <2>2, SentOnce
  <2>4. \A k \in Node, l \in Node :
           bus'[<<k, l>>] = IF k = n /\ l = 1 THEN Append(bus[<<k, l>>], p)
                            ELSE bus[<<k, l>>]
    BY <1>4, <2>1, <2>2, <2>3
  <2>5. QED
    BY <1>1, <1>2, <1>4, <2>1, <2>4
<1>5. QED
  BY <1>3, <1>4

\* The first packet of a link is put in the ring of its receiver.
LEMMA ReceiveParts ==
    ASSUME CopyInv, NEW m \in Node, NEW n \in Node, Receive(m, n)
    PROVE  /\ m # n
           /\ bus[<<m, n>>] \in Seq(Packet) /\ Len(bus[<<m, n>>]) \in Nat
           /\ 1 \in 1..Len(bus[<<m, n>>])
           /\ bus[<<m, n>>][1] \in Packet /\ bus[<<m, n>>][1].cmd \in Cmd
           /\ \A k \in Node, l \in Node :
                 bus'[<<k, l>>] = IF k = m /\ l = n THEN Without(bus[<<m, n>>], 1)
                                  ELSE bus[<<k, l>>]
           /\ Len(Without(bus[<<m, n>>], 1)) = Len(bus[<<m, n>>]) - 1
           /\ \A j \in 1..(Len(bus[<<m, n>>]) - 1) :
                 Without(bus[<<m, n>>], 1)[j] = bus[<<m, n>>][j + 1]
           /\ slots' = [slots EXCEPT ![n] = PutRing(@, idx[n], bus[<<m, n>>][1])]
           /\ idx' = [idx EXCEPT ![n] = Bump(@)]
           /\ issued' = issued /\ Moves
<1> DEFINE q == bus[<<m, n>>]
<1>1. /\ <<m, n>> \in Node \X Node
      /\ q \in Seq(Packet) /\ 1 \in 1..Len(q) /\ Len(q) \in Nat
      /\ slots' = [slots EXCEPT ![n] = PutRing(@, idx[n], q[1])]
      /\ idx' = [idx EXCEPT ![n] = Bump(@)]
      /\ bus' = [bus EXCEPT ![<<m, n>>] = Without(@, 1)]
      /\ issued' = issued /\ Moves
  BY LenProperties DEF CopyInv, IInv, TypeOK, Receive, Take, Moves
<1>2. m # n
  <2>1. Len(<<>>) = 0
    OBVIOUS
  <2>2. QED
    BY <1>1, <2>1 DEF CopyInv, SingleCopy, OwnLinkEmpty
<1>3. \A k \in Node, l \in Node :
         bus'[<<k, l>>] = IF k = m /\ l = n THEN Without(q, 1) ELSE bus[<<k, l>>]
  BY <1>1 DEF CopyInv, IInv, TypeOK
<1>4. /\ Len(Without(q, 1)) = Len(q) - 1
      /\ \A j \in 1..(Len(q) - 1) : Without(q, 1)[j] = q[j + 1]
  <2>1. /\ Len(Without(q, 1)) = Len(q) - 1
        /\ \A j \in 1..(Len(q) - 1) :
              Without(q, 1)[j] = IF j < 1 THEN q[j] ELSE q[j + 1]
    BY <1>1, WithoutElements
  <2>2. \A j \in 1..(Len(q) - 1) : ~(j < 1)
    BY <1>1
  <2>3. QED
    BY <2>1, <2>2
<1>5. q[1] \in Packet /\ q[1].cmd \in Cmd
  <2>1. q[1] \in Packet /\ q[1].cmd # 0
    BY <1>1, ElementOfSeq DEF CopyInv, IInv, ReachIsHonest, NoEmptyOnBus
  <2>2. QED
    BY <2>1, BoundAssumption DEF Packet, Cmd
<1>6. QED
  BY <1>1, <1>2, <1>3, <1>4, <1>5

\* n sends f to l, and nothing else is sent.
Forwarded(n, l, f) ==
    \A i \in Node, j \in Node :
        bus'[<<i, j>>] = IF i = n /\ j = l THEN Append(bus[<<i, j>>], f) ELSE bus[<<i, j>>]

\* A packet for another node is put on the one link to it.
LEMMA ForwardParts ==
    ASSUME CopyInv, NEW n \in Node, NEW l \in Node, l # n, NEW f \in Packet, f.to = l,
           bus' = Sent(bus, n, f)
    PROVE  Forwarded(n, l, f)
<1>1. bus \in [Node \X Node -> Seq(Packet)] /\ f.to # 0
  BY DEF CopyInv, IInv, TypeOK, Node
<1>2. \A i \in Node, j \in Node :
         Sent(bus, n, f)[<<i, j>>] =
            IF i = n /\ j # n /\ j = f.to THEN Append(bus[<<i, j>>], f)
            ELSE bus[<<i, j>>]
  BY <1>1, SentOnce
<1>3. QED
  BY <1>2 DEF Forwarded

\* A packet that is served goes up, comes down, or has arrived (comm.cpp:252-275).
GoesUp(n, p) ==
    /\ n + 1 \in Node /\ p.reach = OfFirst(n - 1)
    /\ seen'[p.cmd] = 1..n /\ fan' = fan
    /\ Forwarded(n, n + 1, [to |-> n + 1, cmd |-> p.cmd, reach |-> OfFirst(n)])

ComesDown(n, p) ==
    /\ n = N \/ p.reach = Damper
    /\ seen'[p.cmd] = Node /\ fan' = [fan EXCEPT ![n] = p.cmd]
    /\ IF n = 1 THEN bus' = bus
       ELSE /\ n - 1 \in Node
            /\ Forwarded(n, n - 1, [to |-> n - 1, cmd |-> p.cmd, reach |-> Damper])

\* At the top with dampers that nobody has: there is no next id, the packet is gone.
Strands(n, p) ==
    n = N /\ OfFirst(N) # Damper /\ seen'[p.cmd] = Node /\ bus' = bus

\* The three ways a packet that is handled can go.
LEMMA ServeParts ==
    ASSUME CopyInv, Ladder, TopNeeded, NEW n \in Node, NEW s \in Slot,
           s \in Occupied(slots[n]), Serve(n, s)
    PROVE  LET p == slots[n][s] IN
           /\ p \in Packet /\ p.cmd \in Cmd
           /\ slots' = [slots EXCEPT ![n] = PutRing(@, s, NoPacket)]
           /\ target' = [target EXCEPT ![n] = p.cmd]
           /\ \A c \in Cmd \ {p.cmd} : seen'[c] = seen[c]
           /\ UNCHANGED <<issued, idx, online, installed>>
           /\ GoesUp(n, p) \/ ComesDown(n, p) \/ Strands(n, p)
<1> DEFINE p   == slots[n][s]
           all == DidReachAll(Reach(n, p))
           to  == NextId(n, all)
           f   == [to |-> to, cmd |-> p.cmd, reach |-> Reach(n, p)]
<1>1. p \in Packet /\ p.cmd # 0 /\ p.cmd \in Cmd
  BY BoundAssumption DEF CopyInv, IInv, TypeOK, Occupied, Packet, Cmd
<1>2. /\ slots' = [slots EXCEPT ![n] = PutRing(@, s, NoPacket)]
      /\ target' = [target EXCEPT ![n] = p.cmd]
      /\ seen' = [seen EXCEPT ![p.cmd] = @ \union {n}]
      /\ UNCHANGED <<issued, idx, online, installed>>
      /\ fan' = IF all THEN [fan EXCEPT ![n] = p.cmd] ELSE fan
      /\ bus' = IF Forwards(n, p, all) THEN Sent(bus, n, f) ELSE bus
  BY DEF Serve, Obey
<1>3. /\ \A c \in Cmd \ {p.cmd} : seen'[c] = seen[c]
      /\ seen'[p.cmd] = seen[p.cmd] \union {n}
  BY <1>1, <1>2 DEF CopyInv, IInv, TypeOK
<1>4. /\ p.to = n /\ n # 0 /\ online[n] /\ Reach(n, p) = p.reach \union Owner[n]
      /\ \/ p.reach = OfFirst(n - 1) /\ seen[p.cmd] = 1..(n - 1)
         \/ p.reach = Damper /\ seen[p.cmd] = Node
  BY <1>1 DEF Ladder, Working, OnLadder, Reach, Node
<1>5. Forwards(n, p, all) <=> to \in Node
  BY <1>4 DEF Forwards
<1>6. ASSUME to \in Node, Reach(n, p) \subseteq Damper, to # n
      PROVE  f \in Packet /\ Forwarded(n, to, f)
  <2>1. f \in Packet /\ f.to = to
    BY <1>1, <1>6, NodeAssumption DEF Packet, Node
  <2>2. bus' = Sent(bus, n, f)
    BY <1>2, <1>5, <1>6
  <2>3. QED
    BY <1>6, <2>1, <2>2, ForwardParts
<1>7. n \in Nat /\ N \in Nat /\ 1 <= n /\ n <= N
  BY NodeAssumption DEF Node
<1>8. /\ to = IF all THEN n - 1 ELSE n + 1
      /\ n - 1 \in Node <=> n # 1
      /\ n + 1 \in Node <=> n < N
      /\ n - 1 # n /\ n + 1 # n
  BY <1>7 DEF NextId, Node
<1>9. CASE p.reach = OfFirst(n - 1) /\ seen[p.cmd] = 1..(n - 1)
  <2>1. Reach(n, p) = OfFirst(n) /\ OfFirst(n) \subseteq Damper
    BY <1>4, <1>9, OfFirstGrows
  <2>2. seen'[p.cmd] = 1..n
    BY <1>3, <1>7, <1>9
  <2>3. all <=> OfFirst(n) = Damper
    BY <2>1 DEF DidReachAll
  <2> HIDE DEF all, to, p
  <2>4. CASE n < N
    <3>1. ~all /\ to = n + 1 /\ to \in Node /\ to # n
      BY <1>7, <1>8, <2>3, <2>4 DEF TopNeeded
    <3>2. Forwarded(n, to, f)
      BY <1>6, <2>1, <3>1
    <3>3. GoesUp(n, p)
      BY <1>2, <1>9, <2>1, <2>2, <3>1, <3>2 DEF GoesUp
    <3>4. QED
      BY <1>1, <1>2, <1>3, <3>3 DEF p
  <2>5. CASE n = N /\ all
    <3>1. seen'[p.cmd] = Node /\ to = n - 1 /\ fan' = [fan EXCEPT ![n] = p.cmd]
      BY <1>2, <1>8, <2>2, <2>5 DEF Node
    <3>2. n # 1 => Forwarded(n, n - 1, [to |-> n - 1, cmd |-> p.cmd, reach |-> Damper])
      BY <1>6, <1>8, <2>1, <2>3, <2>5, <3>1
    <3>3. n = 1 => bus' = bus
      BY <1>2, <1>5, <1>8, <3>1
    <3>4. ComesDown(n, p)
      BY <1>8, <2>5, <3>1, <3>2, <3>3 DEF ComesDown
    <3>5. QED
      BY <1>1, <1>2, <1>3, <3>4 DEF p
  <2>6. CASE n = N /\ ~all
    <3>1. seen'[p.cmd] = Node /\ to = n + 1 /\ bus' = bus /\ OfFirst(N) # Damper
      BY <1>2, <1>5, <1>7, <1>8, <2>2, <2>3, <2>6 DEF Node
    <3>2. Strands(n, p)
      BY <2>6, <3>1 DEF Strands
    <3>3. QED
      BY <1>1, <1>2, <1>3, <3>2 DEF p
  <2>7. QED
    BY <1>7, <2>4, <2>5, <2>6
<1>10. CASE p.reach = Damper /\ seen[p.cmd] = Node
  <2>1. Reach(n, p) = Damper /\ seen'[p.cmd] = Node
    BY <1>3, <1>4, <1>10, OwnerAssumption
  <2>2. all
    BY <2>1 DEF DidReachAll
  <2> HIDE DEF all, to, p
  <2>3. to = n - 1 /\ fan' = [fan EXCEPT ![n] = p.cmd]
    BY <1>2, <1>8, <2>2
  <2>4. n # 1 => Forwarded(n, n - 1, [to |-> n - 1, cmd |-> p.cmd, reach |-> Damper])
    BY <1>6, <1>8, <2>1, <2>3
  <2>5. n = 1 => bus' = bus
    BY <1>2, <1>5, <1>8, <2>3
  <2>6. ComesDown(n, p)
    BY <1>8, <1>10, <2>1, <2>3, <2>4, <2>5 DEF ComesDown
  <2>7. QED
    BY <1>1, <1>2, <1>3, <2>6 DEF p
<1>11. QED
  BY <1>4, <1>9, <1>10

\* The same after the step.
OnLadderThen(n, p) ==
    /\ p.to = n
    /\ \/ p.reach = OfFirst(n - 1) /\ seen'[p.cmd] = 1..(n - 1)
       \/ p.reach = Damper /\ seen'[p.cmd] = Node

\* A new command begins at the bottom, with an empty reach.
LEMMA InjectLadder ==
    ASSUME CopyInv, Ladder, FromBottom, NEW n \in InjectAt, NEW dst \in InjectDst,
           Inject(n, dst)
    PROVE  Ladder'
<1>1. PICK p \in Packet :
              /\ issued' = issued + 1 /\ issued' \in Cmd /\ Moves
              /\ p = [to |-> 1, cmd |-> issued + 1, reach |-> {}]
              /\ \/ /\ n = 1 /\ bus' = bus
                    /\ slots' = [slots EXCEPT ![1] = PutRing(@, idx[1], p)]
                    /\ idx' = [idx EXCEPT ![1] = Bump(@)]
                 \/ /\ n # 1 /\ UNCHANGED <<slots, idx>>
                    /\ \A k \in Node, l \in Node :
                          bus'[<<k, l>>] = IF k = n /\ l = 1 THEN Append(bus[<<k, l>>], p)
                                           ELSE bus[<<k, l>>]
  BY InjectParts DEF Ladder
<1>2. 1 \in Node /\ issued \in Nat /\ \A c \in Cmd : c \in Nat
  BY NodeAssumption DEF Node, CopyInv, IInv, TypeOK, Cmd
<1>3. Working' /\ \A c \in Cmd : c > issued' => seen'[c] = {}
  BY <1>1, <1>2 DEF Moves, Ladder, Working
<1>4. p.cmd # 0 /\ OnLadderThen(1, p)
  <2>1. seen'[p.cmd] = {} /\ p.reach = {} /\ p.to = 1 /\ p.cmd # 0
    BY <1>1, <1>2 DEF Moves, Ladder
  <2>2. OfFirst(1 - 1) = {} /\ 1..(1 - 1) = {}
    BY OfFirstGrows
  <2>3. QED
    BY <2>1, <2>2 DEF OnLadderThen
<1>5. \A k \in Node : \A r : OnLadder(k, r) => OnLadderThen(k, r)
  BY <1>1 DEF Moves, OnLadder, OnLadderThen
<1>6. \A k \in Node : Contiguous(slots[k], idx[k])' /\ \A s \in Slot :
         slots'[k][s].cmd # 0 => OnLadderThen(k, slots'[k][s])
  <2>1. CASE /\ slots' = [slots EXCEPT ![1] = PutRing(@, idx[1], p)]
             /\ idx' = [idx EXCEPT ![1] = Bump(@)]
    <3>1. Contiguous(PutRing(slots[1], idx[1], p), Bump(idx[1]))
      BY <1>2, <1>4, PutContiguous DEF Ladder, CopyInv, IInv, TypeOK
    <3>2. Contiguous(slots'[1], idx'[1])
      BY <1>2, <2>1, <3>1 DEF CopyInv, IInv, TypeOK
    <3>3. \A k \in Node \ {1} : slots'[k] = slots[k] /\ idx'[k] = idx[k]
      BY <1>2, <2>1 DEF CopyInv, IInv, TypeOK
    <3>4. \A s \in Slot : slots'[1][s] \in {p, slots[1][s]}
      BY <1>2, <2>1 DEF PutRing, CopyInv, IInv, TypeOK
    <3>5. \A k \in Node : Contiguous(slots[k], idx[k])'
      BY <3>2, <3>3 DEF Ladder, Contiguous
    <3>6. QED
      BY <1>2, <1>4, <1>5, <3>3, <3>4, <3>5 DEF Ladder
  <2>2. CASE UNCHANGED <<slots, idx>>
    BY <1>5, <2>2 DEF Ladder, Contiguous
  <2>3. QED
    BY <1>1, <2>1, <2>2
<1>7. ASSUME NEW k \in Node, NEW l \in Node, NEW i \in 1..Len(bus'[<<k, l>>])
      PROVE  OnLadderThen(l, bus'[<<k, l>>][i])
  <2>1. CASE bus'[<<k, l>>] = bus[<<k, l>>]
    BY <1>5, <1>7, <2>1 DEF Ladder
  <2>2. CASE l = 1 /\ bus'[<<k, l>>] = Append(bus[<<k, l>>], p)
    <3>1. bus[<<k, l>>] \in Seq(Packet)
      BY DEF CopyInv, IInv, TypeOK
    <3>2. \/ i \in 1..Len(bus[<<k, l>>]) /\ bus'[<<k, l>>][i] = bus[<<k, l>>][i]
          \/ bus'[<<k, l>>][i] = p
      BY <1>7, <2>2, <3>1, AppendPlaces
    <3>3. QED
      BY <1>4, <1>5, <2>2, <3>2 DEF Ladder
  <2>3. QED
    BY <1>1, <2>1, <2>2
<1>8. QED
  BY <1>3, <1>6, <1>7 DEF Ladder, OnLadder, OnLadderThen

\* What is received was on the ladder, and is in its ring.
LEMMA ReceiveLadder ==
    ASSUME CopyInv, Ladder, NEW m \in Node, NEW n \in Node, Receive(m, n)
    PROVE  Ladder'
<1> DEFINE q == bus[<<m, n>>]
<1>1. /\ m # n /\ q \in Seq(Packet) /\ Len(q) \in Nat /\ 1 \in 1..Len(q)
      /\ q[1] \in Packet /\ q[1].cmd \in Cmd
      /\ \A k \in Node, l \in Node :
            bus'[<<k, l>>] = IF k = m /\ l = n THEN Without(q, 1) ELSE bus[<<k, l>>]
      /\ Len(Without(q, 1)) = Len(q) - 1
      /\ \A j \in 1..(Len(q) - 1) : Without(q, 1)[j] = q[j + 1]
      /\ slots' = [slots EXCEPT ![n] = PutRing(@, idx[n], q[1])]
      /\ idx' = [idx EXCEPT ![n] = Bump(@)]
      /\ issued' = issued /\ Moves
  BY ReceiveParts
<1>2. q[1].cmd # 0 /\ OnLadder(n, q[1])
  BY <1>1 DEF Ladder, Cmd
<1>3. Working' /\ \A c \in Cmd : c > issued' => seen'[c] = {}
  BY <1>1 DEF Moves, Ladder, Working
<1>4. \A k \in Node : \A r : OnLadder(k, r) => OnLadderThen(k, r)
  BY <1>1 DEF Moves, OnLadder, OnLadderThen
<1>5. \A k \in Node : Contiguous(slots[k], idx[k])'
  <2>1. Contiguous(PutRing(slots[n], idx[n], q[1]), Bump(idx[n]))
    BY <1>1, <1>2, PutContiguous DEF Ladder, CopyInv, IInv, TypeOK
  <2>2. Contiguous(slots'[n], idx'[n])
    BY <1>1, <2>1 DEF CopyInv, IInv, TypeOK
  <2>3. \A k \in Node \ {n} : slots'[k] = slots[k] /\ idx'[k] = idx[k]
    BY <1>1 DEF CopyInv, IInv, TypeOK
  <2>4. QED
    BY <2>2, <2>3 DEF Ladder, Contiguous
<1>6. \A k \in Node, s \in Slot : slots'[k][s].cmd # 0 => OnLadderThen(k, slots'[k][s])
  <2>1. \A k \in Node \ {n} : slots'[k] = slots[k]
    BY <1>1 DEF CopyInv, IInv, TypeOK
  <2>2. \A s \in Slot : slots'[n][s] \in {q[1], slots[n][s]}
    BY <1>1 DEF PutRing, CopyInv, IInv, TypeOK
  <2>3. QED
    BY <1>2, <1>4, <2>1, <2>2 DEF Ladder
<1>7. ASSUME NEW k \in Node, NEW l \in Node, NEW i \in 1..Len(bus'[<<k, l>>])
      PROVE  OnLadderThen(l, bus'[<<k, l>>][i])
  <2>1. CASE k = m /\ l = n
    <3>1. bus'[<<k, l>>] = Without(q, 1)
      BY <1>1, <2>1
    <3>2. i \in 1..(Len(q) - 1)
      BY <1>1, <3>1
    <3>3. bus'[<<k, l>>][i] = q[i + 1]
      BY <1>1, <3>1, <3>2
    <3>4. i + 1 \in 1..Len(q)
      BY <1>1, <3>2
    <3>5. QED
      BY <1>4, <2>1, <3>3, <3>4 DEF Ladder
  <2>2. CASE ~(k = m /\ l = n)
    BY <1>1, <1>4, <1>7, <2>2 DEF Ladder
  <2>3. QED
    BY <2>1, <2>2
<1>8. QED
  BY <1>3, <1>5, <1>6, <1>7 DEF Ladder, OnLadder, OnLadderThen

\* A slot that is not empty holds a command.
LEMMA PacketCmd == \A p \in Packet : p.cmd # 0 => p.cmd \in Cmd
BY BoundAssumption DEF Packet, Cmd

\* A packet that is handled goes on, and no other packet of the command is left that what
\* it has been seen by could put in the wrong.
LEMMA ServeLadder ==
    ASSUME CopyInv, OnePlace, Ladder, TopNeeded, NEW n \in Node, NEW s \in Slot,
           FirstFrom(slots[n], idx[n], s), Serve(n, s)
    PROVE  Ladder'
<1> DEFINE p == slots[n][s]
<1>1. /\ p \in Packet /\ p.cmd \in Cmd /\ p.cmd # 0
      /\ slots' = [slots EXCEPT ![n] = PutRing(@, s, NoPacket)]
      /\ \A c \in Cmd \ {p.cmd} : seen'[c] = seen[c]
      /\ UNCHANGED <<issued, idx, online, installed>>
      /\ GoesUp(n, p) \/ ComesDown(n, p) \/ Strands(n, p)
  <2>1. s \in Occupied(slots[n])
    BY DEF FirstFrom
  <2>2. QED
    BY <2>1, ServeParts DEF Occupied
<1>2. InPlace(p.cmd, n, n, s) /\ s \in Nat
  BY BufAssumption DEF InPlace, Slot
<1> HIDE DEF p
<1>3. Working'
  BY <1>1 DEF Ladder, Working
<1>4. \A c \in Cmd : c > issued' => seen'[c] = {}
  <2>1. p.cmd <= issued
    BY <1>1, <1>2, PlaceOfIssued DEF CopyInv
  <2>2. issued \in Nat /\ p.cmd \in Nat
    BY <1>1 DEF CopyInv, IInv, TypeOK, Cmd
  <2>3. QED
    BY <1>1, <2>1, <2>2 DEF Ladder
<1>5. \A k \in Node : Contiguous(slots[k], idx[k])'
  <2>1. Contiguous(PutRing(slots[n], s, NoPacket), idx[n])
    BY EmptyContiguous DEF Ladder, CopyInv, IInv, TypeOK
  <2>2. Contiguous(slots'[n], idx'[n])
    BY <1>1, <2>1 DEF CopyInv, IInv, TypeOK
  <2>3. \A k \in Node \ {n} : slots'[k] = slots[k] /\ idx'[k] = idx[k]
    BY <1>1 DEF CopyInv, IInv, TypeOK
  <2>4. QED
    BY <2>2, <2>3 DEF Ladder, Contiguous
<1>6. \A k \in Node : \A r : OnLadder(k, r) /\ r.cmd \in Cmd \ {p.cmd} => OnLadderThen(k, r)
  BY <1>1 DEF OnLadder, OnLadderThen
<1>7. ASSUME NEW k \in Node, NEW t \in Slot, slots'[k][t].cmd # 0
      PROVE  OnLadderThen(k, slots'[k][t])
  <2>1. ~(k = n /\ t = s) /\ slots'[k][t] = slots[k][t]
    BY <1>1, <1>7 DEF CopyInv, IInv, TypeOK, PutRing, NoPacket
  <2>2. slots[k][t].cmd \in Cmd /\ t \in Nat
    <3>1. slots[k][t] \in Packet /\ t \in Nat
      BY BufAssumption DEF CopyInv, IInv, TypeOK, Slot
    <3>2. QED
      BY <1>7, <2>1, <3>1, PacketCmd
  <2>3. ASSUME slots[k][t].cmd = p.cmd PROVE FALSE
    <3>1. InPlace(p.cmd, k, k, t)
      BY <2>3 DEF InPlace
    <3>2. k = n /\ t = s
      BY <1>1, <1>2, <2>2, <3>1 DEF OnePlace
    <3>3. QED
      BY <2>1, <3>2
  <2>4. QED
    BY <1>6, <1>7, <2>1, <2>2, <2>3 DEF Ladder
<1>8. ASSUME NEW k \in Node, NEW l \in Node, NEW i \in 1..Len(bus[<<k, l>>])
      PROVE  OnLadderThen(l, bus[<<k, l>>][i])
  <2>1. k # l
    <3>1. Len(<<>>) = 0
      OBVIOUS
    <3>2. QED
      BY <1>8, <3>1 DEF CopyInv, SingleCopy, OwnLinkEmpty
  <2>2. bus[<<k, l>>][i].cmd \in Cmd
    <3>1. bus[<<k, l>>] \in Seq(Packet) /\ bus[<<k, l>>][i].cmd # 0
      BY DEF CopyInv, IInv, TypeOK, ReachIsHonest, NoEmptyOnBus
    <3>2. bus[<<k, l>>][i] \in Packet
      BY <3>1, ElementOfSeq
    <3>3. QED
      BY <3>1, <3>2, PacketCmd
  <2>3. InPlace(bus[<<k, l>>][i].cmd, k, l, i) /\ i \in Nat
    BY <2>1 DEF InPlace
  <2>4. ASSUME bus[<<k, l>>][i].cmd = p.cmd PROVE FALSE
    <3>1. InPlace(p.cmd, k, l, i)
      BY <2>3, <2>4
    <3>2. k = n /\ l = n
      BY <1>1, <1>2, <2>3, <3>1 DEF OnePlace
    <3>3. QED
      BY <2>1, <3>2
  <2>5. QED
    BY <1>6, <2>2, <2>4 DEF Ladder
<1>9. ASSUME NEW l \in Node, NEW f \in Packet, Forwarded(n, l, f), OnLadderThen(l, f)
      PROVE  \A i \in Node, j \in Node : \A x \in 1..Len(bus'[<<i, j>>]) :
                OnLadderThen(j, bus'[<<i, j>>][x])
  <2> SUFFICES ASSUME NEW i \in Node, NEW j \in Node, NEW x \in 1..Len(bus'[<<i, j>>])
               PROVE  OnLadderThen(j, bus'[<<i, j>>][x])
    OBVIOUS
  <2>1. CASE ~(i = n /\ j = l)
    BY <1>8, <1>9, <2>1 DEF Forwarded
  <2>2. CASE i = n /\ j = l
    <3>1. bus[<<i, j>>] \in Seq(Packet) /\ bus'[<<i, j>>] = Append(bus[<<i, j>>], f)
      BY <1>9, <2>2 DEF CopyInv, IInv, TypeOK, Forwarded
    <3>2. \/ x \in 1..Len(bus[<<i, j>>]) /\ bus'[<<i, j>>][x] = bus[<<i, j>>][x]
          \/ bus'[<<i, j>>][x] = f
      BY <3>1, AppendPlaces
    <3>3. QED
      BY <1>8, <1>9, <2>2, <3>2
  <2>3. QED
    BY <2>1, <2>2
<1>10. \A i \in Node, j \in Node : \A x \in 1..Len(bus'[<<i, j>>]) :
          OnLadderThen(j, bus'[<<i, j>>][x])
  <2>1. CASE bus' = bus
    BY <1>8, <2>1
  <2>2. CASE GoesUp(n, p)
    <3> DEFINE f == [to |-> n + 1, cmd |-> p.cmd, reach |-> OfFirst(n)]
    <3>1. n + 1 \in 0..N /\ (n + 1) - 1 = n /\ OfFirst(n) \subseteq Damper /\ p.cmd \in 0..MaxCmd
      BY <1>1, <2>2, OfFirstGrows, NodeAssumption DEF GoesUp, Node, Packet
    <3>2. f \in Packet /\ OnLadderThen(n + 1, f)
      BY <2>2, <3>1 DEF GoesUp, Packet, OnLadderThen
    <3>3. QED
      BY <1>9, <2>2, <3>2 DEF GoesUp
  <2>3. CASE ComesDown(n, p) /\ n # 1
    <3> DEFINE f == [to |-> n - 1, cmd |-> p.cmd, reach |-> Damper]
    <3>1. n - 1 \in 0..N /\ p.cmd \in 0..MaxCmd
      BY <1>1, <2>3, NodeAssumption DEF ComesDown, Node, Packet
    <3>2. f \in Packet /\ OnLadderThen(n - 1, f)
      BY <2>3, <3>1 DEF ComesDown, Packet, OnLadderThen
    <3>3. QED
      BY <1>9, <2>3, <3>2 DEF ComesDown
  <2>4. QED
    BY <1>1, <2>1, <2>2, <2>3 DEF ComesDown, Strands
<1>11. QED
  BY <1>3, <1>4, <1>5, <1>7, <1>10 DEF Ladder, OnLadder, OnLadderThen

\* Every step without a fault keeps the ladder.
LEMMA StepLadder ==
    ASSUME LadderInv, FromBottom, TopNeeded, faults' = 0, [Next]_vars
    PROVE  faults = 0 /\ Ladder /\ OnePlace /\ Ladder'
<1>1. /\ faults = 0
      /\ \/ \E n \in InjectAt, dst \in InjectDst : Inject(n, dst)
         \/ \E m \in Node, n \in Node : Receive(m, n)
         \/ \E n \in Node : Handle(n)
         \/ UNCHANGED <<issued, bus, slots, idx, online, installed, target, fan, seen>>
  BY Faultless DEF LadderInv, CopyInv, Ladder
<1>2. CopyInv /\ OnePlace /\ Ladder
  BY <1>1 DEF LadderInv, CopyInv, SingleCopy
<1>3. CASE UNCHANGED <<issued, bus, slots, idx, online, installed, target, fan, seen>>
  BY <1>1, <1>2, <1>3 DEF Ladder, Working, Contiguous, OnLadder
<1>4. CASE \E n \in Node : Handle(n)
  BY <1>1, <1>2, <1>4, ServeLadder DEF Handle
<1>5. QED
  BY <1>1, <1>2, <1>3, <1>4, InjectLadder, ReceiveLadder

-----------------------------------------------------------------------------
(* Every command is heard by everybody.                                    *)

\* The command is still under way.
Somewhere(c) == \E m \in Node, n \in Node, i \in Nat : InPlace(c, m, n, i)

\* No command is lost as long as there are no more of them than a ring has slots.
NotLost ==
    issued <= BufLen => \A c \in 1..issued : seen[c] = Node \/ Somewhere(c)

\* The slot at the index is free for one of k commands that is not in the ring yet: the
\* others are fewer than the slots.
LEMMA RoomForOne ==
    ASSUME TypeOK, OnePlace, NEW n \in Node, Contiguous(slots[n], idx[n]),
           NEW k \in Nat, k <= BufLen, NEW c \in 1..k,
           \A s \in Slot : slots[n][s].cmd <= k /\ slots[n][s].cmd # c
    PROVE  slots[n][idx[n]].cmd = 0
<1> SUFFICES ASSUME slots[n][idx[n]].cmd # 0 PROVE FALSE
  OBVIOUS
<1> DEFINE f == [s \in Slot |-> slots[n][s].cmd]
           T == (1..k) \ {c}
<1>1. \A s \in Slot : slots[n][s].cmd # 0
  BY FullRing DEF TypeOK
<1>2. \A s \in Slot : slots[n][s].cmd \in Cmd /\ s \in Nat
  BY <1>1, PacketCmd, BufAssumption DEF TypeOK, Slot
<1>3. f \in [Slot -> T]
  <2>1. \A s \in Slot : slots[n][s].cmd \in T
    BY <1>2 DEF Cmd
  <2>2. QED
    BY <2>1
<1>4. IsFiniteSet(Slot) /\ Cardinality(Slot) = BufLen
  BY FS_Interval, BufAssumption DEF Slot
<1>5. IsFiniteSet(T) /\ Cardinality(T) = k - 1
  <2>1. IsFiniteSet(1..k) /\ Cardinality(1..k) = k
    BY FS_Interval
  <2>2. QED
    BY <2>1, FS_RemoveElement
<1>6. k - 1 < BufLen /\ k \in Nat /\ BufLen \in Nat
  BY BufAssumption
<1>7. \E s, t \in Slot : s # t /\ f[s] = f[t]
  <2> HIDE DEF f, T
  <2>1. Cardinality(T) < Cardinality(Slot)
    BY <1>4, <1>5, <1>6
  <2>2. QED
    BY <1>3, <1>4, <1>5, <2>1, FS_PigeonHole
<1>8. PICK s \in Slot, t \in Slot : s # t /\ slots[n][s].cmd = slots[n][t].cmd
  BY <1>7
<1>9. InPlace(slots[n][s].cmd, n, n, s) /\ InPlace(slots[n][s].cmd, n, n, t)
  BY <1>8 DEF InPlace
<1>10. QED
  BY <1>2, <1>8, <1>9 DEF OnePlace

\* Everything that was on a link before something was sent is still there.
LEMMA StillOnLink ==
    ASSUME CopyInv, NEW n \in Node, NEW l \in Node, NEW f \in Packet, Forwarded(n, l, f),
           NEW c \in Cmd, NEW i \in Node, NEW j \in Node, i # j, NEW x \in Nat,
           InPlace(c, i, j, x)
    PROVE  Somewhere(c)'
<1>1. bus[<<i, j>>] \in Seq(Packet) /\ x \in 1..Len(bus[<<i, j>>]) /\ bus[<<i, j>>][x].cmd = c
  BY DEF CopyInv, IInv, TypeOK, InPlace
<1>2. CASE bus'[<<i, j>>] = bus[<<i, j>>]
  <2>1. InPlace(c, i, j, x)'
    BY <1>1, <1>2 DEF InPlace
  <2>2. QED
    BY <2>1 DEF Somewhere
<1>3. CASE bus'[<<i, j>>] = Append(bus[<<i, j>>], f)
  <2>1. x \in 1..Len(bus'[<<i, j>>]) /\ bus'[<<i, j>>][x] = bus[<<i, j>>][x]
    BY <1>1, <1>3, AppendProperties
  <2>2. InPlace(c, i, j, x)'
    BY <1>1, <2>1 DEF InPlace
  <2>3. QED
    BY <2>2 DEF Somewhere
<1>4. QED
  BY <1>2, <1>3 DEF Forwarded

\* What was sent is on its link.
LEMMA NowOnLink ==
    ASSUME CopyInv, NEW n \in Node, NEW l \in Node, n # l, NEW f \in Packet,
           Forwarded(n, l, f)
    PROVE  Somewhere(f.cmd)'
<1>1. bus[<<n, l>>] \in Seq(Packet) /\ bus'[<<n, l>>] = Append(bus[<<n, l>>], f)
  BY DEF CopyInv, IInv, TypeOK, Forwarded
<1>2. PICK x \in Nat : x \in 1..Len(bus'[<<n, l>>]) /\ bus'[<<n, l>>][x] = f
  <2>1. Len(bus[<<n, l>>]) + 1 \in Nat
    BY <1>1, LenProperties
  <2>2. QED
    BY <1>1, <2>1, AppendProperties
<1>3. InPlace(f.cmd, n, l, x)'
  BY <1>2 DEF InPlace
<1>4. QED
  BY <1>2, <1>3 DEF Somewhere

\* Nothing is lost from a ring by what is put in an empty slot of it.
LEMMA StillInRing ==
    ASSUME TypeOK, NEW n \in Node, NEW p, slots[n][idx[n]].cmd = 0,
           slots' = [slots EXCEPT ![n] = PutRing(@, idx[n], p)],
           NEW c \in Cmd, NEW j \in Node, NEW x \in Nat, InPlace(c, j, j, x)
    PROVE  Somewhere(c)'
<1>1. x \in Slot /\ slots[j][x].cmd = c /\ c # 0
  BY DEF InPlace, Cmd
<1>2. ~(j = n /\ x = idx[n])
  BY <1>1
<1>3. slots'[j][x] = slots[j][x]
  BY <1>1, <1>2 DEF TypeOK, PutRing
<1>4. InPlace(c, j, j, x)'
  BY <1>1, <1>3 DEF InPlace
<1>5. QED
  BY <1>4 DEF Somewhere

\* What is put in a ring is there.
LEMMA NowInRing ==
    ASSUME TypeOK, NEW n \in Node, NEW p,
           slots' = [slots EXCEPT ![n] = PutRing(@, idx[n], p)]
    PROVE  Somewhere(p.cmd)'
<1>1. PICK x \in Nat : x \in Slot /\ slots'[n][x] = p
  <2>1. idx[n] \in Slot /\ idx[n] \in Nat
    BY BufAssumption DEF TypeOK, Slot
  <2>2. QED
    BY <2>1 DEF TypeOK, PutRing
<1>2. InPlace(p.cmd, n, n, x)'
  BY <1>1 DEF InPlace
<1>3. QED
  BY <1>2 DEF Somewhere

\* An injected command finds an empty slot, and overwrites none.
LEMMA InjectNotLost ==
    ASSUME CopyInv, OnePlace, Ladder, NotLost, FromBottom,
           NEW n \in InjectAt, NEW dst \in InjectDst, Inject(n, dst)
    PROVE  NotLost'
<1>1. PICK p \in Packet :
              /\ issued' = issued + 1 /\ issued' \in Cmd /\ Moves
              /\ p = [to |-> 1, cmd |-> issued + 1, reach |-> {}]
              /\ \/ /\ n = 1 /\ bus' = bus
                    /\ slots' = [slots EXCEPT ![1] = PutRing(@, idx[1], p)]
                    /\ idx' = [idx EXCEPT ![1] = Bump(@)]
                 \/ /\ n # 1 /\ UNCHANGED <<slots, idx>>
                    /\ \A k \in Node, l \in Node :
                          bus'[<<k, l>>] = IF k = n /\ l = 1 THEN Append(bus[<<k, l>>], p)
                                           ELSE bus[<<k, l>>]
  BY InjectParts DEF Ladder
<1>2. /\ 1 \in Node /\ n \in Node /\ issued \in Nat /\ p.cmd = issued + 1 /\ TypeOK
      /\ seen' = seen /\ BufLen \in Nat
  <2>1. TypeOK
    BY DEF CopyInv, IInv
  <2>2. 1 \in Node /\ n \in Node /\ BufLen \in Nat
    BY NodeAssumption, InjectAssumption, BufAssumption DEF Node
  <2>3. issued \in Nat
    BY <2>1 DEF TypeOK
  <2>4. p.cmd = issued + 1 /\ seen' = seen
    BY <1>1 DEF Moves
  <2>5. QED
    BY <2>1, <2>2, <2>3, <2>4
<1> SUFFICES ASSUME issued' <= BufLen, NEW c \in 1..issued', seen'[c] # Node
             PROVE  Somewhere(c)'
  BY DEF NotLost
<1>3. c \in Cmd /\ (c = p.cmd \/ Somewhere(c))
  <2>1. c \in Cmd /\ (c = p.cmd \/ c \in 1..issued)
    BY <1>1, <1>2, BoundAssumption DEF Cmd
  <2>2. issued <= BufLen
    BY <1>1, <1>2
  <2>3. QED
    BY <1>2, <2>1, <2>2 DEF NotLost
<1>4. CASE /\ bus' = bus
           /\ slots' = [slots EXCEPT ![1] = PutRing(@, idx[1], p)]
  <2>1. slots[1][idx[1]].cmd = 0
    <3>1. \A s \in Slot : slots[1][s].cmd <= issued
      BY <1>2 DEF CopyInv, IInv, ReachIsHonest, Honest
    <3>2. \A s \in Slot : slots[1][s].cmd \in Nat
      BY <1>2, BoundAssumption DEF TypeOK, Packet
    <3>3. /\ issued + 1 \in Nat /\ issued + 1 <= BufLen /\ issued + 1 \in 1..(issued + 1)
          /\ \A s \in Slot : slots[1][s].cmd <= issued + 1 /\ slots[1][s].cmd # issued + 1
      BY <1>1, <1>2, <3>1, <3>2
    <3>4. Contiguous(slots[1], idx[1])
      BY <1>2 DEF Ladder
    <3>5. QED
      BY <1>2, <3>3, <3>4, RoomForOne
  <2>2. CASE c = p.cmd
    BY <1>2, <1>4, <2>2, NowInRing
  <2>3. ASSUME NEW i \in Node, NEW j \in Node, NEW x \in Nat, InPlace(c, i, j, x)
        PROVE  Somewhere(c)'
    <3>1. CASE i = j
      BY <1>2, <1>3, <1>4, <2>1, <2>3, <3>1, StillInRing
    <3>2. CASE i # j
      <4>1. InPlace(c, i, j, x)'
        BY <1>4, <2>3, <3>2 DEF InPlace
      <4>2. QED
        BY <4>1 DEF Somewhere
    <3>3. QED
      BY <3>1, <3>2
  <2>4. QED
    BY <1>3, <2>2, <2>3 DEF Somewhere
<1>5. CASE n # 1 /\ slots' = slots /\ Forwarded(n, 1, p)
  <2>1. CASE c = p.cmd
    BY <1>2, <1>5, <2>1, NowOnLink
  <2>2. ASSUME NEW i \in Node, NEW j \in Node, NEW x \in Nat, InPlace(c, i, j, x)
        PROVE  Somewhere(c)'
    <3>1. CASE i = j
      <4>1. InPlace(c, i, j, x)'
        BY <1>5, <2>2, <3>1 DEF InPlace
      <4>2. QED
        BY <4>1 DEF Somewhere
    <3>2. CASE i # j
      BY <1>2, <1>3, <1>5, <2>2, <3>2, StillOnLink
    <3>3. QED
      BY <3>1, <3>2
  <2>3. QED
    BY <1>3, <2>1, <2>2 DEF Somewhere
<1>6. QED
  BY <1>1, <1>4, <1>5 DEF Forwarded

\* A received packet finds an empty slot, since it was not in the ring before.
LEMMA ReceiveNotLost ==
    ASSUME CopyInv, OnePlace, Ladder, NotLost, NEW m \in Node, NEW n \in Node, Receive(m, n)
    PROVE  NotLost'
<1> DEFINE q == bus[<<m, n>>]
<1>1. /\ m # n /\ q \in Seq(Packet) /\ Len(q) \in Nat /\ 1 \in 1..Len(q)
      /\ q[1] \in Packet /\ q[1].cmd \in Cmd
      /\ \A k \in Node, l \in Node :
            bus'[<<k, l>>] = IF k = m /\ l = n THEN Without(q, 1) ELSE bus[<<k, l>>]
      /\ Len(Without(q, 1)) = Len(q) - 1
      /\ \A j \in 1..(Len(q) - 1) : Without(q, 1)[j] = q[j + 1]
      /\ slots' = [slots EXCEPT ![n] = PutRing(@, idx[n], q[1])]
      /\ issued' = issued /\ seen' = seen
  BY ReceiveParts DEF Moves
<1>2. TypeOK /\ issued \in Nat /\ BufLen \in Nat
  BY BufAssumption DEF CopyInv, IInv, TypeOK
<1>3. InPlace(q[1].cmd, m, n, 1)
  BY <1>1 DEF InPlace
<1> SUFFICES ASSUME issued <= BufLen, NEW c \in 1..issued, seen[c] # Node
             PROVE  Somewhere(c)'
  BY <1>1 DEF NotLost
<1>4. c \in Cmd /\ Somewhere(c)
  BY <1>2, BoundAssumption DEF TypeOK, Cmd, NotLost
<1>5. slots[n][idx[n]].cmd = 0
  <2>1. \A s \in Slot : slots[n][s].cmd <= issued
    BY DEF CopyInv, IInv, ReachIsHonest, Honest
  <2>2. ASSUME NEW s \in Slot, slots[n][s].cmd = q[1].cmd PROVE FALSE
    <3>1. InPlace(q[1].cmd, n, n, s) /\ s \in Nat /\ 1 \in Nat
      BY <2>2, BufAssumption DEF InPlace, Slot
    <3> HIDE DEF q
    <3>2. m = n
      BY <1>1, <1>3, <3>1 DEF OnePlace
    <3>3. QED
      BY <1>1, <3>2
  <2>3. q[1].cmd \in 1..issued
    BY <1>1, <1>2, <1>3, PlaceOfIssued DEF CopyInv, Cmd
  <2>4. Contiguous(slots[n], idx[n])
    BY DEF Ladder
  <2> HIDE DEF q
  <2>5. QED
    BY <1>2, <2>1, <2>2, <2>3, <2>4, RoomForOne
<1>6. PICK i \in Node, j \in Node, x \in Nat : InPlace(c, i, j, x)
  BY <1>4 DEF Somewhere
<1>7. CASE i = j
  BY <1>1, <1>2, <1>4, <1>5, <1>6, <1>7, StillInRing
<1>8. CASE i # j /\ ~(i = m /\ j = n)
  <2>1. InPlace(c, i, j, x)'
    BY <1>1, <1>6, <1>8 DEF InPlace
  <2>2. QED
    BY <2>1 DEF Somewhere
<1>9. CASE i = m /\ j = n /\ x = 1
  <2>1. c = q[1].cmd
    BY <1>1, <1>6, <1>9 DEF InPlace
  <2> HIDE DEF q
  <2>2. QED
    BY <1>1, <1>2, <2>1, NowInRing
<1>10. CASE i = m /\ j = n /\ x # 1
  <2>1. x \in 1..Len(q) /\ q[x].cmd = c
    BY <1>1, <1>6, <1>10 DEF InPlace
  <2>2. PICK y \in Nat : x = y + 1 /\ y \in 1..(Len(q) - 1)
    <3>1. x - 1 \in Nat /\ x - 1 \in 1..(Len(q) - 1) /\ x = (x - 1) + 1
      BY <1>1, <1>10, <2>1
    <3>2. QED
      BY <3>1
  <2>3. y \in 1..Len(bus'[<<m, n>>]) /\ bus'[<<m, n>>][y].cmd = c
    BY <1>1, <2>1, <2>2
  <2>4. InPlace(c, m, n, y)'
    BY <1>1, <2>3 DEF InPlace
  <2>5. QED
    BY <2>4 DEF Somewhere
<1>11. QED
  BY <1>7, <1>8, <1>9, <1>10

\* A handled packet has been sent on, or everybody has seen the command.
LEMMA ServeNotLost ==
    ASSUME CopyInv, Ladder, NotLost, TopNeeded, NEW n \in Node, NEW s \in Slot,
           s \in Occupied(slots[n]), Serve(n, s)
    PROVE  NotLost'
<1> DEFINE p == slots[n][s]
<1>1. /\ p \in Packet /\ p.cmd \in Cmd
      /\ slots' = [slots EXCEPT ![n] = PutRing(@, s, NoPacket)]
      /\ \A c \in Cmd \ {p.cmd} : seen'[c] = seen[c]
      /\ issued' = issued
      /\ GoesUp(n, p) \/ ComesDown(n, p) \/ Strands(n, p)
  BY ServeParts
<1>2. \/ bus' = bus /\ seen'[p.cmd] = Node
      \/ \E l \in Node, f \in Packet : l # n /\ f.cmd = p.cmd /\ Forwarded(n, l, f)
  <2> HIDE DEF p
  <2>1. CASE GoesUp(n, p)
    <3>1. [to |-> n + 1, cmd |-> p.cmd, reach |-> OfFirst(n)] \in Packet /\ n + 1 # n
      BY <1>1, <2>1, OfFirstGrows, NodeAssumption DEF GoesUp, Packet, Node
    <3>2. QED
      BY <2>1, <3>1 DEF GoesUp
  <2>2. CASE ComesDown(n, p) /\ n # 1
    <3>1. [to |-> n - 1, cmd |-> p.cmd, reach |-> Damper] \in Packet /\ n - 1 # n
      BY <1>1, <2>2, NodeAssumption DEF ComesDown, Packet, Node
    <3>2. QED
      BY <2>2, <3>1 DEF ComesDown
  <2>3. QED
    BY <1>1, <2>1, <2>2 DEF ComesDown, Strands
<1> HIDE DEF p
<1> SUFFICES ASSUME issued <= BufLen, NEW c \in 1..issued, seen'[c] # Node
             PROVE  Somewhere(c)'
  BY <1>1 DEF NotLost
<1>3. c \in Cmd
  BY BoundAssumption DEF CopyInv, IInv, TypeOK, Cmd
<1>4. CASE c = p.cmd
  <2>1. PICK l \in Node, f \in Packet : l # n /\ f.cmd = c /\ Forwarded(n, l, f)
    BY <1>2, <1>4
  <2>2. Somewhere(f.cmd)'
    BY <2>1, NowOnLink
  <2>3. QED
    BY <2>1, <2>2
<1>5. CASE c # p.cmd
  <2>1. PICK i \in Node, j \in Node, x \in Nat : InPlace(c, i, j, x)
    BY <1>1, <1>3, <1>5 DEF NotLost, Somewhere
  <2>2. CASE i = j
    <3>1. x \in Slot /\ slots[j][x].cmd = c
      BY <2>1, <2>2 DEF InPlace
    <3>2. slots'[j][x] = slots[j][x]
      BY <1>1, <1>5, <3>1 DEF CopyInv, IInv, TypeOK, PutRing, p
    <3>3. InPlace(c, i, j, x)'
      BY <2>2, <3>1, <3>2 DEF InPlace
    <3>4. QED
      BY <3>3 DEF Somewhere
  <2>3. CASE i # j /\ bus' = bus
    <3>1. InPlace(c, i, j, x)'
      BY <2>1, <2>3 DEF InPlace
    <3>2. QED
      BY <3>1 DEF Somewhere
  <2>4. CASE i # j /\ \E l \in Node, f \in Packet : Forwarded(n, l, f)
    BY <1>3, <2>1, <2>4, StillOnLink
  <2>5. QED
    BY <1>2, <2>2, <2>3, <2>4
<1>6. QED
  BY <1>4, <1>5

\* Every step without a fault keeps every command.
LEMMA StepNotLost ==
    ASSUME LadderInv, faults = 0 => NotLost, FromBottom, TopNeeded, [Next]_vars, faults' = 0
    PROVE  NotLost'
<1>1. /\ faults = 0 /\ CopyInv /\ OnePlace /\ Ladder /\ NotLost
      /\ \/ \E n \in InjectAt, dst \in InjectDst : Inject(n, dst)
         \/ \E m \in Node, n \in Node : Receive(m, n)
         \/ \E n \in Node : Handle(n)
         \/ UNCHANGED <<issued, bus, slots, idx, online, installed, target, fan, seen>>
  BY StepLadder, Faultless DEF LadderInv, CopyInv, Ladder
<1>2. CASE UNCHANGED <<issued, bus, slots, idx, online, installed, target, fan, seen>>
  <2>1. ASSUME NEW c, Somewhere(c) PROVE Somewhere(c)'
    BY <1>2, <2>1 DEF Somewhere, InPlace
  <2>2. QED
    BY <1>1, <1>2, <2>1 DEF NotLost
<1>3. CASE \E n \in Node : Handle(n)
  BY <1>1, <1>3, ServeNotLost DEF Handle, FirstFrom
<1>4. QED
  BY <1>1, <1>2, <1>3, InjectNotLost, ReceiveNotLost

\* Nothing is under way at first.
LEMMA LadderInitially == Init => LadderInv /\ NotLost
<1> SUFFICES ASSUME Init PROVE LadderInv /\ NotLost
  OBVIOUS
<1>1. CopyInv
  BY CopyInitially
<1>2. \A n \in Node, s \in Slot : slots[n][s].cmd = 0
  BY DEF Init, NoPacket
<1>3. \A m \in Node, n \in Node : Len(bus[<<m, n>>]) = 0
  BY DEF Init
<1>4. Ladder
  BY <1>2, <1>3 DEF Init, Ladder, Working, Contiguous
<1>5. NotLost
  BY DEF Init, NotLost
<1>6. QED
  BY <1>1, <1>4, <1>5 DEF LadderInv

\* The ladder is inductive.
LEMMA LadderStep ==
    ASSUME FromBottom, TopNeeded PROVE LadderInv /\ [Next]_vars => LadderInv'
<1>1. 0 \notin InjectDst
  BY DEF FromBottom
<1>2. LadderInv /\ [Next]_vars => CopyInv'
  BY <1>1, StepInv, StepCopy DEF LadderInv, CopyInv
<1>3. QED
  BY <1>2, StepLadder DEF LadderInv

\* When no more commands than a ring holds have come to rest without a fault, everybody has
\* handled them all (comm.cpp:222-275): none is dropped for want of a slot (comm.cpp:84-117),
\* since a command is in one place at a time, and none turns back before the top.
THEOREM HeardByAll ==
    ASSUME FromBottom, TopNeeded
    PROVE  Spec => []HeardAtRest
<1> DEFINE Inv == LadderInv /\ (faults = 0 => NotLost)
<1>1. Init => Inv
  BY LadderInitially
<1>2. Inv /\ [Next]_vars => Inv'
  BY LadderStep, StepNotLost
<1>3. Inv => HeardAtRest
  <2> SUFFICES ASSUME NotLost, Quiet, issued <= BufLen, NEW c \in 1..issued, LadderInv
               PROVE  seen[c] = Node
    BY DEF HeardAtRest
  <2>1. c \in Cmd
    BY BoundAssumption DEF LadderInv, CopyInv, IInv, TypeOK, Cmd
  <2>2. ~Somewhere(c)
    <3> SUFFICES ASSUME NEW m \in Node, NEW n \in Node, NEW i \in Nat, InPlace(c, m, n, i)
                 PROVE  FALSE
      BY DEF Somewhere
    <3>1. CASE m = n
      BY <2>1, <3>1 DEF InPlace, Quiet, Occupied, Cmd
    <3>2. CASE m # n
      <4>1. Len(<<>>) = 0
        OBVIOUS
      <4>2. QED
        BY <3>2, <4>1 DEF InPlace, Quiet
    <3>3. QED
      BY <3>1, <3>2
  <2>3. QED
    BY <2>2 DEF NotLost
<1>4. QED
  BY <1>1, <1>2, <1>3, PTL DEF Spec

-----------------------------------------------------------------------------
(* All agree in the end.                                                   *)

\* Every damper is configured somewhere (README.md:58-98 of the firmware).
TopCompletes == OfFirst(N) = Damper

\* Nothing is in a ring of an id above n, or on the way to one.
QuietAbove(n) ==
    \A k \in Node : k > n => /\ Occupied(slots[k]) = {}
                             /\ \A m \in Node : bus[<<m, k>>] = <<>>

\* All above n obey what the top obeys.
AgreeAbove(n) == \A k \in Node : k > n => target[k] = target[N] /\ fan[k] = target[N]

\* Of the packets of q that come down, the last is the command the top obeys.
LastDown(q) ==
    \E i \in 1..Len(q) :
        /\ q[i].reach = Damper /\ q[i].cmd = target[N]
        /\ \A j \in 1..Len(q) : j > i => q[j].reach # Damper

\* No packet of q comes down.
NoneDown(q) == \A i \in 1..Len(q) : q[i].reach # Damper

\* What n obeys when it has handled its ring is what the top obeys, or something that
\* goes up: the newest packet is never overwritten by an older one.
NewestAgrees(n) ==
    \A s \in Slot : Dist(idx[n], s) = BufLen - 1 =>
        IF slots[n][s].cmd # 0
        THEN slots[n][s].reach = Damper => slots[n][s].cmd = target[N]
        ELSE target[n] = target[N] /\ fan[n] = target[N]

\* What n obeys last is what the top obeys: it is on the link to n, or has arrived.
Coming(n) ==
    \/ LastDown(bus[<<n + 1, n>>])
    \/ NoneDown(bus[<<n + 1, n>>]) /\ NewestAgrees(n)

\* Once it is quiet above n, the ids above agree, and n will agree with them.
Settled(n) == QuietAbove(n) => AgreeAbove(n) /\ Coming(n)

\* The top obeys on the first pass, and packets come down one rung at a time.
Settling ==
    /\ fan[N] = target[N]
    /\ \A m \in Node, n \in Node : \A i \in 1..Len(bus[<<m, n>>]) :
          bus[<<m, n>>][i].reach = Damper => m = n + 1
    /\ \A n \in Node : n < N => Settled(n)

\* A node is as settled as before when nothing happens to it or above.
LEMMA Untouched ==
    ASSUME NEW n \in Node, n < N, Settled(n),
           slots'[n] = slots[n], idx'[n] = idx[n], target'[n] = target[n],
           fan'[n] = fan[n], bus'[<<n + 1, n>>] = bus[<<n + 1, n>>],
           \A k \in Node : k > n => /\ slots'[k] = slots[k] /\ target'[k] = target[k]
                                    /\ fan'[k] = fan[k]
                                    /\ \A m \in Node : bus'[<<m, k>>] = bus[<<m, k>>]
    PROVE  Settled(n)'
<1>1. N \in Node
  BY NodeAssumption DEF Node
<1>2. target'[N] = target[N]
  BY <1>1
<1>3. QuietAbove(n)' => QuietAbove(n)
  BY DEF QuietAbove
<1>4. AgreeAbove(n) => AgreeAbove(n)'
  BY <1>2 DEF AgreeAbove
<1>5. Coming(n) => Coming(n)'
  <2>1. LastDown(bus[<<n + 1, n>>]) => LastDown(bus[<<n + 1, n>>])'
    BY <1>2 DEF LastDown
  <2>2. NoneDown(bus[<<n + 1, n>>]) => NoneDown(bus[<<n + 1, n>>])'
    BY DEF NoneDown
  <2>3. NewestAgrees(n) => NewestAgrees(n)'
    BY <1>2 DEF NewestAgrees
  <2>4. QED
    BY <2>1, <2>2, <2>3 DEF Coming
<1>6. QED
  BY <1>3, <1>4, <1>5 DEF Settled

\* What goes up has not collected all dampers yet.
LEMMA UpIsNotDown ==
    ASSUME TopNeeded PROVE \A n \in Node : n < N => OfFirst(n) # Damper /\ {} # Damper
BY OfFirstGrows DEF TopNeeded

\* A new command goes up, so nothing it overwrites in the ring of id 1 counts any more.
LEMMA InjectSettling ==
    ASSUME CopyInv, Ladder, Settling, FromBottom, TopNeeded,
           NEW n \in InjectAt, NEW dst \in InjectDst, Inject(n, dst)
    PROVE  Settling'
<1>1. PICK p \in Packet :
              /\ issued' = issued + 1 /\ issued' \in Cmd /\ Moves
              /\ p = [to |-> 1, cmd |-> issued + 1, reach |-> {}]
              /\ \/ /\ n = 1 /\ bus' = bus
                    /\ slots' = [slots EXCEPT ![1] = PutRing(@, idx[1], p)]
                    /\ idx' = [idx EXCEPT ![1] = Bump(@)]
                 \/ /\ n # 1 /\ UNCHANGED <<slots, idx>>
                    /\ \A k \in Node, l \in Node :
                          bus'[<<k, l>>] = IF k = n /\ l = 1 THEN Append(bus[<<k, l>>], p)
                                           ELSE bus[<<k, l>>]
  BY InjectParts DEF Ladder
<1>2. /\ 1 \in Node /\ n \in Node /\ N \in Node /\ p.reach = {} /\ p.cmd # 0 /\ TypeOK
      /\ target' = target /\ fan' = fan
      /\ n # 1 => 1 < N
      /\ \A k \in Node : k \in Nat /\ k >= 1 /\ k <= N /\ (k < N => k + 1 \in Node)
  <2>1. /\ 1 \in Node /\ n \in Node /\ N \in Node
        /\ n # 1 => 1 < N
        /\ \A k \in Node : k \in Nat /\ k >= 1 /\ k <= N /\ (k < N => k + 1 \in Node)
    BY NodeAssumption, InjectAssumption DEF Node
  <2>2. p.reach = {} /\ p.cmd # 0
    BY <1>1 DEF CopyInv, IInv, TypeOK, Cmd
  <2>3. QED
    BY <1>1, <2>1, <2>2 DEF CopyInv, IInv, Moves
<1>3. 1 < N => {} # Damper
  BY <1>2, UpIsNotDown
<1>4. \A k \in Node : k > 1 => /\ slots'[k] = slots[k] /\ idx'[k] = idx[k]
                               /\ \A m \in Node : bus'[<<m, k>>] = bus[<<m, k>>]
  BY <1>1, <1>2 DEF TypeOK
<1>5. \A k \in Node, l \in Node :
         \/ bus'[<<k, l>>] = bus[<<k, l>>]
         \/ 1 < N /\ bus'[<<k, l>>] = Append(bus[<<k, l>>], p)
  BY <1>1, <1>2
<1>6. ASSUME NEW k \in Node, NEW l \in Node
      PROVE  /\ \A i \in 1..Len(bus'[<<k, l>>]) : bus'[<<k, l>>][i].reach = Damper => k = l + 1
             /\ LastDown(bus[<<k, l>>]) => LastDown(bus[<<k, l>>])'
             /\ NoneDown(bus[<<k, l>>]) => NoneDown(bus[<<k, l>>])'
  <2>1. CASE bus'[<<k, l>>] = bus[<<k, l>>]
    BY <1>2, <2>1 DEF Settling, LastDown, NoneDown
  <2>2. CASE 1 < N /\ bus'[<<k, l>>] = Append(bus[<<k, l>>], p)
    <3> DEFINE q == bus[<<k, l>>]
    <3>1. q \in Seq(Packet) /\ Len(q) \in Nat
      BY LenProperties DEF CopyInv, IInv, TypeOK
    <3>2. /\ Len(Append(q, p)) = Len(q) + 1 /\ Append(q, p)[Len(q) + 1] = p
          /\ \A i \in 1..Len(q) : Append(q, p)[i] = q[i]
      BY <3>1, AppendProperties
    <3>3. \A i \in 1..(Len(q) + 1) : i \in 1..Len(q) \/ i = Len(q) + 1
      BY <3>1
    <3>4. p.reach # Damper
      BY <1>2, <1>3, <2>2
    <3>5. \A i \in 1..Len(bus'[<<k, l>>]) : bus'[<<k, l>>][i].reach = Damper =>
             i \in 1..Len(q) /\ bus'[<<k, l>>][i] = q[i]
      BY <2>2, <3>2, <3>3, <3>4
    <3>6. \A i \in 1..Len(q) : i \in 1..Len(bus'[<<k, l>>]) /\ bus'[<<k, l>>][i] = q[i]
      BY <2>2, <3>1, <3>2
    <3> HIDE DEF q
    <3>7. \A i \in 1..Len(bus'[<<k, l>>]) : bus'[<<k, l>>][i].reach = Damper => k = l + 1
      BY <3>5 DEF Settling, q
    <3>8. NoneDown(q) => NoneDown(bus[<<k, l>>])'
      BY <3>5 DEF NoneDown
    <3>9. ASSUME LastDown(q) PROVE LastDown(bus[<<k, l>>])'
      <4>1. PICK i \in 1..Len(q) :
               /\ q[i].reach = Damper /\ q[i].cmd = target[N]
               /\ \A j \in 1..Len(q) : j > i => q[j].reach # Damper
        BY <3>9 DEF LastDown
      <4>2. \A j \in 1..Len(bus'[<<k, l>>]) : j > i => bus'[<<k, l>>][j].reach # Damper
        BY <3>5, <4>1
      <4>3. QED
        BY <1>2, <3>6, <4>1, <4>2 DEF LastDown
    <3>10. QED
      BY <3>7, <3>8, <3>9 DEF q
  <2>3. QED
    BY <1>5, <2>1, <2>2
<1>7. ASSUME NEW k \in Node, k < N PROVE Settled(k)'
  <2>1. Settled(k)
    BY <1>7 DEF Settling
  <2>2. CASE k > 1
    <3>1. bus'[<<k + 1, k>>] = bus[<<k + 1, k>>]
      BY <1>2, <1>4, <1>7, <2>2
    <3>2. \A j \in Node : j > k => j > 1
      BY <1>2, <2>2
    <3>3. QED
      BY <1>2, <1>4, <1>7, <2>1, <2>2, <3>1, <3>2, Untouched
  <2>3. CASE k = 1
    <3>1. QuietAbove(1)' => QuietAbove(1)
      BY <1>4 DEF QuietAbove
    <3>2. AgreeAbove(1) => AgreeAbove(1)'
      BY <1>2 DEF AgreeAbove
    <3>3. NewestAgrees(1) => NewestAgrees(1)'
      <4>1. CASE UNCHANGED <<slots, idx>>
        BY <1>2, <4>1 DEF NewestAgrees
      <4>2. CASE /\ slots' = [slots EXCEPT ![1] = PutRing(@, idx[1], p)]
                 /\ idx' = [idx EXCEPT ![1] = Bump(@)]
        <5>1. idx[1] \in Slot /\ idx'[1] = Bump(idx[1]) /\ slots'[1][idx[1]] = p
          BY <1>2, <4>2 DEF TypeOK, PutRing
        <5>2. \A s \in Slot : Dist(idx'[1], s) = BufLen - 1 => s = idx[1]
          <6>1. \A s \in Slot : /\ Dist(Bump(idx[1]), s) =
                                      IF s = idx[1] THEN BufLen - 1 ELSE Dist(idx[1], s) - 1
                                /\ Dist(idx[1], s) \in 0..(BufLen - 1)
            BY <5>1, DistBump
          <6>2. QED
            BY <5>1, <6>1, BufAssumption
        <5>3. p.reach # Damper
          BY <1>2, <1>3, <1>7, <2>3
        <5>4. QED
          BY <1>2, <5>1, <5>2, <5>3 DEF NewestAgrees
      <4>3. QED
        BY <1>1, <4>1, <4>2
    <3>4. 1 + 1 \in Node
      BY <1>2, <1>7, <2>3
    <3>5. Coming(1) => Coming(1)'
      BY <1>2, <1>6, <3>3, <3>4 DEF Coming
    <3>6. QED
      BY <2>1, <2>3, <3>1, <3>2, <3>5 DEF Settled
  <2>4. QED
    BY <1>2, <2>2, <2>3
<1>8. QED
  BY <1>2, <1>6, <1>7 DEF Settling

\* The slot that was just written is the newest.
LEMMA NewestIsPut ==
    ASSUME NEW i \in Slot
    PROVE  \A s \in Slot : Dist(Bump(i), s) = BufLen - 1 => s = i
<1>1. \A s \in Slot : /\ Dist(Bump(i), s) = IF s = i THEN BufLen - 1 ELSE Dist(i, s) - 1
                      /\ Dist(i, s) \in 0..(BufLen - 1)
  BY DistBump
<1>2. QED
  BY <1>1, BufAssumption

\* What is received becomes the newest of its ring: a packet that comes down is the last
\* word of the top, or another one is behind it.
LEMMA ReceiveSettling ==
    ASSUME CopyInv, Settling, NEW m \in Node, NEW n \in Node, Receive(m, n)
    PROVE  Settling'
<1> DEFINE q == bus[<<m, n>>]
<1>1. /\ m # n /\ q \in Seq(Packet) /\ Len(q) \in Nat /\ 1 \in 1..Len(q)
      /\ q[1] \in Packet /\ q[1].cmd \in Cmd
      /\ \A k \in Node, l \in Node :
            bus'[<<k, l>>] = IF k = m /\ l = n THEN Without(q, 1) ELSE bus[<<k, l>>]
      /\ Len(Without(q, 1)) = Len(q) - 1
      /\ \A j \in 1..(Len(q) - 1) : Without(q, 1)[j] = q[j + 1]
      /\ slots' = [slots EXCEPT ![n] = PutRing(@, idx[n], q[1])]
      /\ idx' = [idx EXCEPT ![n] = Bump(@)]
      /\ target' = target /\ fan' = fan
  BY ReceiveParts DEF Moves
<1>2. /\ N \in Node /\ TypeOK
      /\ \A k \in Node : k \in Nat /\ k >= 1 /\ k <= N /\ (k < N => k + 1 \in Node)
  BY NodeAssumption DEF Node, CopyInv, IInv
<1>3. /\ idx[n] \in Slot /\ idx'[n] = Bump(idx[n]) /\ slots'[n][idx[n]] = q[1]
      /\ q[1].cmd # 0
  BY <1>1, <1>2 DEF TypeOK, PutRing, Cmd
<1>4. \A k \in Node \ {n} : /\ slots'[k] = slots[k] /\ idx'[k] = idx[k]
                            /\ \A l \in Node : bus'[<<l, k>>] = bus[<<l, k>>]
  BY <1>1, <1>2 DEF TypeOK
<1>5. ASSUME NEW i \in 1..Len(bus'[<<m, n>>])
      PROVE  i + 1 \in 1..Len(q) /\ bus'[<<m, n>>][i] = q[i + 1]
  <2>1. bus'[<<m, n>>] = Without(q, 1)
    BY <1>1
  <2>2. i \in 1..(Len(q) - 1)
    BY <1>1, <2>1
  <2>3. i + 1 \in 1..Len(q)
    BY <1>1, <2>2
  <2>4. QED
    BY <1>1, <2>1, <2>2, <2>3
<1>6. ASSUME NEW i \in 1..Len(q), i # 1
      PROVE  i - 1 \in 1..Len(bus'[<<m, n>>]) /\ bus'[<<m, n>>][i - 1] = q[i]
  <2>1. bus'[<<m, n>>] = Without(q, 1)
    BY <1>1
  <2>2. i - 1 \in 1..(Len(q) - 1) /\ (i - 1) + 1 = i
    BY <1>1, <1>6
  <2>3. i - 1 \in 1..Len(Without(q, 1)) /\ Without(q, 1)[i - 1] = q[i]
    BY <1>1, <2>2
  <2>4. QED
    BY <2>1, <2>3
<1> HIDE DEF q
<1>7. ASSUME NEW k \in Node, NEW l \in Node, NEW i \in 1..Len(bus'[<<k, l>>]),
             bus'[<<k, l>>][i].reach = Damper
      PROVE  k = l + 1
  <2>1. CASE k = m /\ l = n
    BY <1>5, <1>7, <2>1 DEF Settling, q
  <2>2. CASE ~(k = m /\ l = n)
    BY <1>1, <1>7, <2>2 DEF Settling
  <2>3. QED
    BY <2>1, <2>2
<1>8. ASSUME NEW k \in Node, k < N PROVE Settled(k)'
  <2>1. Settled(k)
    BY <1>8 DEF Settling
  <2>2. CASE k < n
    <3>1. ~QuietAbove(k)'
      <4>1. \E s \in Slot : slots'[n][s].cmd # 0
        BY <1>3
      <4>2. n > k
        BY <1>2, <2>2
      <4>3. QED
        BY <4>1, <4>2 DEF QuietAbove, Occupied
    <3>2. QED
      BY <3>1 DEF Settled
  <2>3. CASE k > n
    <3>1. k \in Node \ {n} /\ k + 1 \in Node /\ \A j \in Node : j > k => j \in Node \ {n}
      BY <1>2, <1>8, <2>3
    <3>2. QED
      BY <1>1, <1>4, <1>8, <2>1, <3>1, Untouched
  <2>4. CASE k = n
    <3>1. QuietAbove(n)' => QuietAbove(n)
      <4>1. \A j \in Node : j > n => j \in Node \ {n}
        BY <1>2
      <4>2. QED
        BY <1>4, <4>1 DEF QuietAbove
    <3>2. AgreeAbove(n) => AgreeAbove(n)'
      BY <1>1 DEF AgreeAbove
    <3>3. n + 1 \in Node
      BY <1>2, <1>8, <2>4
    <3>4. (q[1].reach = Damper => q[1].cmd = target[N]) => NewestAgrees(n)'
      BY <1>1, <1>3, NewestIsPut DEF NewestAgrees
    <3>5. CASE m # n + 1
      <4>1. q[1].reach # Damper
        BY <1>1, <3>5 DEF Settling, q
      <4>2. bus'[<<n + 1, n>>] = bus[<<n + 1, n>>]
        BY <1>1, <3>3, <3>5
      <4>3. LastDown(bus[<<n + 1, n>>]) => LastDown(bus[<<n + 1, n>>])'
        BY <1>1, <4>2 DEF LastDown
      <4>4. NoneDown(bus[<<n + 1, n>>]) => NoneDown(bus[<<n + 1, n>>])'
        BY <4>2 DEF NoneDown
      <4>5. Coming(n) => Coming(n)'
        BY <3>4, <4>1, <4>3, <4>4 DEF Coming
      <4>6. QED
        BY <2>1, <2>4, <3>1, <3>2, <4>5 DEF Settled
    <3>6. CASE m = n + 1
      <4>1. NoneDown(q) => NoneDown(bus[<<m, n>>])' /\ NewestAgrees(n)'
        <5>1. NoneDown(q) => NoneDown(bus[<<m, n>>])'
          BY <1>5 DEF NoneDown
        <5>2. NoneDown(q) => q[1].reach # Damper
          BY <1>1 DEF NoneDown
        <5>3. QED
          BY <3>4, <5>1, <5>2
      <4>2. ASSUME LastDown(q)
            PROVE  LastDown(bus[<<m, n>>])' \/ (NoneDown(bus[<<m, n>>])' /\ NewestAgrees(n)')
        <5>1. PICK i \in 1..Len(q) :
                 /\ q[i].reach = Damper /\ q[i].cmd = target[N]
                 /\ \A j \in 1..Len(q) : j > i => q[j].reach # Damper
          BY <4>2 DEF LastDown
        <5>2. CASE i = 1
          <6>1. \A j \in 1..Len(bus'[<<m, n>>]) : j + 1 > i
            BY <5>2
          <6>2. NoneDown(bus[<<m, n>>])'
            BY <1>5, <5>1, <6>1 DEF NoneDown
          <6>3. QED
            BY <3>4, <5>1, <5>2, <6>2
        <5>3. CASE i # 1
          <6>1. \A j \in 1..Len(bus'[<<m, n>>]) : j > i - 1 => j + 1 > i
            BY <1>1
          <6>2. \A j \in 1..Len(bus'[<<m, n>>]) : j > i - 1 => bus'[<<m, n>>][j].reach # Damper
            BY <1>5, <5>1, <6>1
          <6>3. LastDown(bus[<<m, n>>])'
            BY <1>1, <1>6, <5>1, <5>3, <6>2 DEF LastDown
          <6>4. QED
            BY <6>3
        <5>4. QED
          BY <5>2, <5>3
      <4>3. Coming(n) => Coming(n)'
        BY <3>6, <4>1, <4>2 DEF Coming, q
      <4>4. QED
        BY <2>1, <2>4, <3>1, <3>2, <4>3 DEF Settled
    <3>7. QED
      BY <3>5, <3>6
  <2>5. QED
    BY <1>2, <2>2, <2>3, <2>4
<1>9. fan'[N] = target'[N]
  BY <1>1 DEF Settling
<1>10. QED
  BY <1>7, <1>8, <1>9 DEF Settling

\* What is sent last and comes down is what the top obeys.
LEMMA LastSent ==
    ASSUME CopyInv, NEW n \in Node, NEW l \in Node, NEW f \in Packet, Forwarded(n, l, f),
           f.reach = Damper, f.cmd = target'[N]
    PROVE  LastDown(bus[<<n, l>>])'
<1> DEFINE q == bus[<<n, l>>]
<1>1. q \in Seq(Packet) /\ Len(q) \in Nat /\ bus'[<<n, l>>] = Append(q, f)
  BY LenProperties DEF CopyInv, IInv, TypeOK, Forwarded
<1>2. Len(Append(q, f)) = Len(q) + 1 /\ Append(q, f)[Len(q) + 1] = f
  BY <1>1, AppendProperties
<1>3. PICK x \in Nat : x = Len(q) + 1
  BY <1>1
<1> HIDE DEF q
<1>4. Len(bus'[<<n, l>>]) = x /\ bus'[<<n, l>>][x] = f /\ x \in 1..x
  BY <1>1, <1>2, <1>3
<1>5. \A j \in 1..x : ~(j > x)
  OBVIOUS
<1>6. QED
  BY <1>4, <1>5 DEF LastDown

\* What is handled above n and comes down is the last word of the top, and is behind
\* what came down before; the oldest is handled first, so the newest has the last word.
LEMMA ServeSettling ==
    ASSUME CopyInv, Ladder, Settling, TopNeeded, TopCompletes,
           NEW n \in Node, NEW s \in Slot, FirstFrom(slots[n], idx[n], s), Serve(n, s)
    PROVE  Settling'
<1> DEFINE p == slots[n][s]
<1>1. /\ p \in Packet /\ p.cmd \in Cmd /\ p.cmd # 0 /\ s \in Occupied(slots[n])
      /\ slots' = [slots EXCEPT ![n] = PutRing(@, s, NoPacket)]
      /\ target' = [target EXCEPT ![n] = p.cmd]
      /\ idx' = idx
      /\ GoesUp(n, p) \/ ComesDown(n, p)
  <2>1. s \in Occupied(slots[n])
    BY DEF FirstFrom
  <2>2. QED
    BY <2>1, ServeParts DEF Occupied, Strands, TopCompletes
<1>2. /\ N \in Node /\ TypeOK
      /\ \A k \in Node : k \in Nat /\ k >= 1 /\ k <= N /\ (k < N => k + 1 \in Node)
  BY NodeAssumption DEF Node, CopyInv, IInv
<1>3. /\ \A t \in Slot : slots'[n][t] = IF t = s THEN NoPacket ELSE slots[n][t]
      /\ target'[n] = p.cmd
      /\ \A k \in Node \ {n} : slots'[k] = slots[k] /\ target'[k] = target[k]
  BY <1>1, <1>2 DEF TypeOK, PutRing
<1>4. \A t \in Slot : Dist(idx[n], t) = BufLen - 1 => slots[n][t].cmd # 0
  <2>1. slots[n][s].cmd # 0 /\ Contiguous(slots[n], idx[n]) /\ idx[n] \in Slot
    BY <1>1, <1>2 DEF Ladder, TypeOK
  <2>2. Dist(idx[n], s) <= BufLen - 1
    <3>1. Dist(idx[n], s) \in 0..(BufLen - 1)
      BY <2>1, DistBump
    <3>2. QED
      BY <3>1, BufAssumption
  <2>3. QED
    BY <2>1, <2>2 DEF Contiguous
<1> HIDE DEF p
<1>5. CASE GoesUp(n, p)
  <2> DEFINE f == [to |-> n + 1, cmd |-> p.cmd, reach |-> OfFirst(n)]
  <2>1. n + 1 \in Node /\ n < N /\ fan' = fan /\ Forwarded(n, n + 1, f) /\ f \in Packet
    <3>1. n + 1 \in Node /\ fan' = fan /\ Forwarded(n, n + 1, f)
      BY <1>5 DEF GoesUp
    <3>2. n < N /\ n + 1 \in 0..N
      BY <1>2, <3>1 DEF Node
    <3>3. f \in Packet
      BY <1>1, <3>2, OfFirstGrows DEF Packet
    <3>4. QED
      BY <3>1, <3>2, <3>3
  <2>2. /\ f.reach # Damper
        /\ \A k \in Node, l \in Node :
              bus'[<<k, l>>] = IF k = n /\ l = n + 1 THEN Append(bus[<<k, l>>], f)
                               ELSE bus[<<k, l>>]
    BY <2>1, UpIsNotDown DEF Forwarded
  <2> HIDE DEF f
  <2>3. ASSUME NEW k \in Node, NEW l \in Node, NEW i \in 1..Len(bus'[<<k, l>>]),
               bus'[<<k, l>>][i].reach = Damper
        PROVE  k = l + 1
    <3>1. CASE k = n /\ l = n + 1
      <4>1. bus[<<k, l>>] \in Seq(Packet) /\ bus'[<<k, l>>] = Append(bus[<<k, l>>], f)
        BY <1>2, <2>2, <3>1 DEF TypeOK
      <4>2. \/ i \in 1..Len(bus[<<k, l>>]) /\ bus'[<<k, l>>][i] = bus[<<k, l>>][i]
            \/ bus'[<<k, l>>][i] = f
        BY <2>1, <4>1, AppendPlaces
      <4>3. QED
        BY <2>2, <2>3, <4>2 DEF Settling
    <3>2. QED
      BY <2>2, <2>3, <3>1 DEF Settling
  <2>4. ASSUME NEW k \in Node, k < N PROVE Settled(k)'
    <3>1. CASE k <= n
      <4>1. bus'[<<n, n + 1>>] # <<>>
        <5>1. bus[<<n, n + 1>>] \in Seq(Packet)
          BY <1>2, <2>1 DEF TypeOK
        <5>2. bus'[<<n, n + 1>>] = Append(bus[<<n, n + 1>>], f)
          BY <2>1, <2>2
        <5>3. QED
          BY <2>1, <5>1, <5>2, AppendProperties
      <4>2. n + 1 > k
        <5>1. n \in Nat /\ k \in Nat
          BY <1>2
        <5>2. QED
          BY <3>1, <5>1
      <4>3. QED
        BY <2>1, <4>1, <4>2 DEF Settled, QuietAbove
    <3>2. CASE k > n
      <4>1. /\ k \in Node \ {n} /\ k + 1 \in Node /\ k + 1 # n
            /\ \A j \in Node : j > k => j \in Node \ {n} /\ j # n + 1
        <5>1. n \in Nat /\ k \in Nat /\ k + 1 \in Node /\ \A j \in Node : j \in Nat
          BY <1>2, <2>4
        <5>2. QED
          BY <3>2, <5>1
      <4>2. Settled(k)
        BY <2>4 DEF Settling
      <4>3. QED
        BY <1>1, <1>3, <2>1, <2>2, <2>4, <4>1, <4>2, Untouched
    <3>3. QED
      BY <1>2, <3>1, <3>2
  <2>5. fan'[N] = target'[N]
    BY <1>2, <1>3, <2>1 DEF Settling
  <2>6. QED
    BY <2>3, <2>4, <2>5 DEF Settling
<1>6. CASE ComesDown(n, p)
  <2> DEFINE f == [to |-> n - 1, cmd |-> p.cmd, reach |-> Damper]
  <2>1. /\ n = N \/ p.reach = Damper
        /\ fan'[n] = p.cmd /\ \A k \in Node \ {n} : fan'[k] = fan[k]
        /\ n = 1 => bus' = bus
        /\ n # 1 => n - 1 \in Node /\ Forwarded(n, n - 1, f) /\ f \in Packet
    <3>1. f \in Packet
      BY <1>1, NodeAssumption DEF Packet, Node
    <3>2. QED
      BY <1>2, <1>6, <3>1 DEF ComesDown, TypeOK
  <2>2. /\ f.reach = Damper /\ f.cmd = p.cmd
        /\ \A k \in Node, l \in Node :
              bus'[<<k, l>>] = IF n # 1 /\ k = n /\ l = n - 1 THEN Append(bus[<<k, l>>], f)
                               ELSE bus[<<k, l>>]
    BY <2>1 DEF Forwarded
  <2> HIDE DEF f
  <2>3. ASSUME NEW k \in Node, NEW l \in Node, NEW i \in 1..Len(bus'[<<k, l>>]),
               bus'[<<k, l>>][i].reach = Damper
        PROVE  k = l + 1
    <3>1. CASE n # 1 /\ k = n /\ l = n - 1
      BY <1>2, <3>1
    <3>2. CASE ~(n # 1 /\ k = n /\ l = n - 1)
      BY <2>2, <2>3, <3>2 DEF Settling
    <3>3. QED
      BY <3>1, <3>2
  <2>4. fan'[N] = target'[N]
    BY <1>2, <1>3, <2>1 DEF Settling
  <2>5. n < N /\ QuietAbove(n) /\ NewestAgrees(n) /\ Dist(idx[n], s) = BufLen - 1
           => p.cmd = target'[N] /\ target'[N] = target[N]
    BY <1>1, <1>2, <1>3, <2>1 DEF NewestAgrees, p
  <2>6. ASSUME NEW k \in Node, k < N, n # 1, k = n - 1, QuietAbove(k)'
        PROVE  AgreeAbove(k)' /\ Coming(k)'
    <3>1. n > k /\ n = k + 1
      BY <1>2, <2>6
    <3>2. Occupied(slots'[n]) = {} /\ \A m \in Node : bus'[<<m, n>>] = <<>>
      BY <2>6, <3>1 DEF QuietAbove
    <3>3. QuietAbove(n)
      <4>1. \A j \in Node : j > n => j > k /\ j # n /\ j # n - 1
        <5>1. n \in Nat /\ k \in Nat /\ n = k + 1 /\ \A j \in Node : j \in Nat
          BY <3>1 DEF Node
        <5>2. QED
          BY <5>1
      <4>2. SUFFICES ASSUME NEW j \in Node, j > n
                     PROVE  Occupied(slots[j]) = {} /\ \A m \in Node : bus[<<m, j>>] = <<>>
        BY DEF QuietAbove
      <4>3. Occupied(slots'[j]) = {} /\ \A m \in Node : bus'[<<m, j>>] = <<>>
        BY <2>6, <4>1, <4>2 DEF QuietAbove
      <4>4. slots'[j] = slots[j] /\ \A m \in Node : bus'[<<m, j>>] = bus[<<m, j>>]
        BY <1>3, <2>2, <4>1, <4>2
      <4>5. QED
        BY <4>3, <4>4
    <3>4. ASSUME n < N PROVE AgreeAbove(n) /\ p.cmd = target[N]
      <4>1. AgreeAbove(n) /\ Coming(n) /\ n + 1 \in Node
        BY <1>2, <3>3, <3>4 DEF Settling, Settled
      <4>2. ~LastDown(bus[<<n + 1, n>>])
        <5>1. bus[<<n + 1, n>>] = <<>>
          BY <1>2, <2>2, <3>2, <4>1
        <5>2. Len(<<>>) = 0
          OBVIOUS
        <5>3. QED
          BY <5>1, <5>2 DEF LastDown
      <4>3. PICK t \in Slot : Dist(idx[n], t) = BufLen - 1
        BY <1>2, NewestThere DEF TypeOK
      <4>4. t = s
        BY <1>3, <1>4, <3>2, <4>3 DEF Occupied
      <4>5. QED
        <5>1. NewestAgrees(n)
          BY <4>1, <4>2 DEF Coming
        <5>2. slots[n][s].reach = Damper => slots[n][s].cmd = target[N]
          BY <1>4, <4>3, <4>4, <5>1 DEF NewestAgrees
        <5>3. p.reach = Damper
          BY <1>2, <2>1, <3>4
        <5>4. QED
          BY <4>1, <5>2, <5>3 DEF p
    <3>5. target'[N] = p.cmd
      BY <1>2, <1>3, <3>4
    <3>6. ASSUME NEW j \in Node, j > k PROVE target'[j] = target'[N] /\ fan'[j] = target'[N]
      <4>1. CASE j = n
        BY <1>3, <2>1, <3>5, <4>1
      <4>2. CASE j # n
        <5>1. j > n /\ n < N
          BY <1>2, <3>1, <3>6, <4>2
        <5>2. target[j] = p.cmd /\ fan[j] = p.cmd
          BY <3>4, <5>1 DEF AgreeAbove
        <5>3. QED
          BY <1>3, <2>1, <3>5, <4>2, <5>2
      <4>3. QED
        BY <4>1, <4>2
    <3>7. LastDown(bus[<<n, k>>])'
      BY <2>1, <2>2, <2>6, <3>5, LastSent
    <3>8. QED
      BY <3>1, <3>6, <3>7 DEF AgreeAbove, Coming
  <2>7. ASSUME n < N, QuietAbove(n)' PROVE AgreeAbove(n)' /\ Coming(n)'
    <3>1. \A j \in Node : j > n => j # n /\ j # n - 1
      BY <1>2
    <3>2. QuietAbove(n)
      BY <1>3, <2>2, <2>7, <3>1 DEF QuietAbove
    <3>3. AgreeAbove(n) /\ Coming(n) /\ target'[N] = target[N] /\ n + 1 \in Node
      BY <1>2, <1>3, <2>7, <3>2 DEF Settling, Settled
    <3>4. AgreeAbove(n)'
      BY <1>3, <2>1, <3>1, <3>3 DEF AgreeAbove
    <3>5. bus'[<<n + 1, n>>] = bus[<<n + 1, n>>]
      BY <1>2, <2>2, <3>3
    <3>6. LastDown(bus[<<n + 1, n>>]) => LastDown(bus[<<n + 1, n>>])'
      BY <3>3, <3>5 DEF LastDown
    <3>7. NoneDown(bus[<<n + 1, n>>]) => NoneDown(bus[<<n + 1, n>>])'
      BY <3>5 DEF NoneDown
    <3>8. ASSUME NewestAgrees(n) PROVE NewestAgrees(n)'
      <4> SUFFICES ASSUME NEW t \in Slot, Dist(idx[n], t) = BufLen - 1
                   PROVE  IF slots'[n][t].cmd # 0
                          THEN slots'[n][t].reach = Damper => slots'[n][t].cmd = target'[N]
                          ELSE target'[n] = target'[N] /\ fan'[n] = target'[N]
        BY <1>1 DEF NewestAgrees
      <4>1. CASE t = s
        BY <1>3, <2>1, <2>5, <2>7, <3>2, <3>8, <4>1 DEF NoPacket
      <4>2. CASE t # s
        BY <1>3, <1>4, <3>3, <3>8, <4>2 DEF NewestAgrees
      <4>3. QED
        BY <4>1, <4>2
    <3>9. QED
      BY <3>3, <3>4, <3>6, <3>7, <3>8 DEF Coming
  <2>8. ASSUME NEW k \in Node, k < N PROVE Settled(k)'
    <3>1. CASE n # 1 /\ k < n - 1
      <4>1. bus'[<<n, n - 1>>] # <<>> /\ n - 1 \in Node
        <5>1. n - 1 \in Node /\ bus[<<n, n - 1>>] \in Seq(Packet) /\ f \in Packet
          BY <1>2, <2>1, <3>1 DEF TypeOK
        <5>2. bus'[<<n, n - 1>>] = Append(bus[<<n, n - 1>>], f)
          BY <2>2, <3>1, <5>1
        <5>3. QED
          BY <5>1, <5>2, AppendProperties
      <4>2. n - 1 > k
        BY <1>2, <3>1
      <4>3. QED
        BY <4>1, <4>2 DEF Settled, QuietAbove
    <3>2. CASE n # 1 /\ k = n - 1
      BY <2>6, <2>8, <3>2 DEF Settled
    <3>3. CASE k = n
      BY <2>7, <2>8, <3>3 DEF Settled
    <3>4. CASE k > n
      <4>1. /\ k \in Node \ {n} /\ k + 1 \in Node /\ k + 1 # n
            /\ \A j \in Node : j > k => j \in Node \ {n} /\ j # n - 1
        <5>1. n \in Nat /\ k \in Nat /\ k + 1 \in Node /\ \A j \in Node : j \in Nat
          BY <1>2, <2>8
        <5>2. QED
          BY <3>4, <5>1
      <4>2. Settled(k) /\ bus'[<<k + 1, k>>] = bus[<<k + 1, k>>]
        BY <2>2, <2>8, <4>1 DEF Settling
      <4>3. QED
        BY <1>1, <1>3, <2>1, <2>2, <2>8, <4>1, <4>2, Untouched
    <3>5. QED
      BY <1>2, <3>1, <3>2, <3>3, <3>4
  <2>9. QED
    BY <2>3, <2>4, <2>8 DEF Settling
<1>7. QED
  BY <1>1, <1>5, <1>6

\* Every step without a fault keeps what is settled.
LEMMA StepSettling ==
    ASSUME LadderInv, faults = 0 => Settling, FromBottom, TopNeeded, TopCompletes,
           [Next]_vars, faults' = 0
    PROVE  Settling'
<1>1. /\ faults = 0 /\ CopyInv /\ OnePlace /\ Ladder /\ Settling
      /\ \/ \E n \in InjectAt, dst \in InjectDst : Inject(n, dst)
         \/ \E m \in Node, n \in Node : Receive(m, n)
         \/ \E n \in Node : Handle(n)
         \/ UNCHANGED <<issued, bus, slots, idx, online, installed, target, fan, seen>>
  BY StepLadder, Faultless DEF LadderInv, CopyInv, Ladder
<1>2. CASE UNCHANGED <<issued, bus, slots, idx, online, installed, target, fan, seen>>
  <2>1. \A n \in Node : n < N /\ Settled(n) => Settled(n)'
    BY <1>2, Untouched
  <2>2. QED
    BY <1>1, <1>2, <2>1 DEF Settling
<1>3. CASE \E n \in Node : Handle(n)
  BY <1>1, <1>3, ServeSettling DEF Handle
<1>4. QED
  BY <1>1, <1>2, <1>3, InjectSettling, ReceiveSettling

\* When the bus has come to rest without a fault, all dampers and fans obey the same command
\* (main.cpp:150-196), however many commands overtook each other on the two passes or
\* were overwritten in a full ring (comm.cpp:84-117).
THEOREM AllAgree ==
    ASSUME FromBottom, TopNeeded, TopCompletes
    PROVE  Spec => []AgreementAtRest
<1> DEFINE Inv == LadderInv /\ (faults = 0 => Settling)
<1>1. Init => Inv
  <2> SUFFICES ASSUME Init PROVE Settling
    BY LadderInitially
  <2>1. /\ N \in Node /\ \A n \in Node : target[n] = 0 /\ fan[n] = 0
        /\ \A n \in Node : n < N => n + 1 \in Node
    BY NodeAssumption DEF Init, Node
  <2>2. \A m \in Node, n \in Node : Len(bus[<<m, n>>]) = 0
    BY DEF Init
  <2>3. \A n \in Node, s \in Slot : slots[n][s].cmd = 0
    BY DEF Init, NoPacket
  <2>4. \A n \in Node : n < N => Settled(n)
    BY <2>1, <2>2, <2>3 DEF Settled, AgreeAbove, Coming, NoneDown, NewestAgrees
  <2>5. QED
    BY <2>1, <2>2, <2>4 DEF Settling
<1>2. Inv /\ [Next]_vars => Inv'
  BY LadderStep, StepSettling
<1>3. Inv => AgreementAtRest
  <2> SUFFICES ASSUME Settling, LadderInv, Quiet, NEW n \in Node
               PROVE  target[n] = target[1] /\ fan[n] = target[1]
    BY DEF AgreementAtRest
  <2>1. 1 \in Node /\ N \in Node /\ n \in Nat /\ n >= 1 /\ n <= N /\ N \in Nat
    BY NodeAssumption DEF Node
  <2>2. CASE N = 1
    BY <2>1, <2>2 DEF Settling
  <2>3. CASE N > 1
    <3>1. 1 < N /\ QuietAbove(1)
      BY <2>1, <2>3 DEF Quiet, QuietAbove
    <3>2. AgreeAbove(1) /\ Coming(1)
      BY <2>1, <3>1 DEF Settling, Settled
    <3>3. 1 + 1 \in Node
      BY <2>1, <2>3 DEF Node
    <3>4. ~LastDown(bus[<<1 + 1, 1>>])
      <4>1. bus[<<1 + 1, 1>>] = <<>>
        BY <2>1, <3>3 DEF Quiet
      <4>2. Len(<<>>) = 0
        OBVIOUS
      <4>3. QED
        BY <4>1, <4>2 DEF LastDown
    <3>5. NewestAgrees(1)
      BY <3>2, <3>4 DEF Coming
    <3>6. PICK s \in Slot : Dist(idx[1], s) = BufLen - 1
      BY <2>1, NewestThere DEF LadderInv, CopyInv, IInv, TypeOK
    <3>7. slots[1][s].cmd = 0
      BY <2>1 DEF Quiet, Occupied
    <3>8. target[1] = target[N] /\ fan[1] = target[N]
      BY <3>5, <3>6, <3>7 DEF NewestAgrees
    <3>9. n # 1 => target[n] = target[N] /\ fan[n] = target[N]
      BY <2>1, <3>2 DEF AgreeAbove
    <3>10. QED
      BY <3>8, <3>9
  <2>4. QED
    BY <2>1, <2>2, <2>3
<1>4. QED
  BY <1>1, <1>2, <1>3, PTL DEF Spec

=============================================================================
