--------------------------- MODULE IdAssignProofs ---------------------------
(***************************************************************************)
(* Proofs about IdAssign, for every number of microcontrollers, of ids, of *)
(* places in the list, of keys typed and of faults: its types, that nobody *)
(* is left without an id but by two faults of its own, and that the first  *)
(* id is the master's after one fault.                                     *)
(***************************************************************************)
EXTENDS IdAssign, TLAPS, FiniteSetTheorems

-----------------------------------------------------------------------------
(* What the actions share.                                                 *)

\* An id is never the mark of who has none.
LEMMA IdIsAssigned == ASSUME NEW x \in Id PROVE x # NotAssigned
  BY NodeAssumption DEF Id, NotAssigned

\* A fault only adds to the faults.
LEMMA FaultAdds ==
    ASSUME TypeOK, NEW cost \in Nat, Fault(cost)
    PROVE  faults' \in 0..MaxFaults /\ faults <= faults' /\ (cost = 1 => faults' >= 1)
  BY BoundAssumption DEF TypeOK, Fault

\* Each of those that miss a broadcast is a fault.
LEMMA BroadcastAdds ==
    ASSUME TypeOK, NEW hearers \in SUBSET Slave, Broadcast(hearers)
    PROVE  /\ faults' \in 0..MaxFaults /\ faults <= faults'
           /\ \A n \in hearers : n \in Node
  <1>1. IsFiniteSet(Node)
    BY NodeAssumption, FS_Interval DEF Node
  <1>2. IsFiniteSet(Slave \ hearers)
    BY <1>1, FS_Subset DEF Slave
  <1>3. Cardinality(Slave \ hearers) \in Nat
    BY <1>2, FS_CardinalityType
  <1>4. Fault(Cardinality(Slave \ hearers))
    BY DEF Broadcast
  <1>q. QED
    BY <1>3, <1>4, FaultAdds DEF Slave

\* A sequence that is sorted has as many elements, and none that it had not.
LEMMA SortedKeeps ==
    ASSUME NEW S, NEW l \in Seq(S), NEW p \in Bijection(DOMAIN l, DOMAIN l)
    PROVE  LET s == [i \in DOMAIN l |-> l[p[i]]] IN s \in Seq(S) /\ Len(s) = Len(l)
  <1>1. p \in [1..Len(l) -> 1..Len(l)]
    BY DEF Bijection, Injection
  <1>2. [i \in 1..Len(l) |-> l[p[i]]] \in [1..Len(l) -> S]
    BY <1>1
  <1>q. QED
    BY <1>2

-----------------------------------------------------------------------------
(* Losses.                                                                 *)

Of(b) == IF b THEN 1 ELSE 0

LEMMA LossFinite ==
    /\ IsFiniteSet(Lost) /\ IsFiniteSet(LastTry)
    /\ Cardinality(Lost) \in Nat /\ Cardinality(LastTry) \in Nat
  <1>1. IsFiniteSet(Node)
    BY NodeAssumption, FS_Interval DEF Node
  <1>2. IsFiniteSet(Lost) /\ IsFiniteSet(LastTry)
    BY <1>1, FS_Subset DEF Lost, LastTry
  <1>q. QED
    BY <1>2, FS_CardinalityType

\* A set is as large as without one element, and that element.
LEMMA WithoutOne ==
    ASSUME NEW S, IsFiniteSet(S), NEW x
    PROVE  /\ IsFiniteSet(S \ {x}) /\ Cardinality(S \ {x}) \in Nat
           /\ Cardinality(S) = Cardinality(S \ {x}) + Of(x \in S)
  <1>1. IsFiniteSet(S \ {x}) /\ Cardinality(S) \in Nat /\ Cardinality(S \ {x}) \in Nat
    BY FS_Subset, FS_CardinalityType
  <1>2. Cardinality(S \ {x}) = IF x \in S THEN Cardinality(S) - 1 ELSE Cardinality(S)
    BY FS_RemoveElement
  <1>q. QED
    BY <1>1, <1>2 DEF Of

\* A step by which nobody gets nearer to being lost.
LEMMA NoneNearer ==
    ASSUME TypeOK, faults' \in Nat, faults <= faults', Lost' \subseteq Lost,
           LastTry' \subseteq LastTry, LossTakesTwo
    PROVE  LossTakesTwo'
  <1>1. Cardinality(Lost') <= Cardinality(Lost) /\ Cardinality(LastTry') <= Cardinality(LastTry)
        /\ Cardinality(Lost') \in Nat /\ Cardinality(LastTry') \in Nat
    BY LossFinite, FS_Subset, FS_CardinalityType
  <1>2. faults \in Nat
    BY BoundAssumption DEF TypeOK
  <1>q. QED
    BY <1>1, <1>2, LossFinite DEF LossTakesTwo

\* How near to it one is.
Near(n) == 2 * Of(n \in Lost) + Of(n \in LastTry)

\* A step of one costs as many faults as it gets nearer.
LEMMA OneNearer ==
    ASSUME TypeOK, NEW n \in Node, faults' \in Nat, LossTakesTwo,
           \A m \in Node \ {n} : id'[m] = id[m] /\ tries'[m] = tries[m],
           Near(n)' - Near(n) <= faults' - faults
    PROVE  LossTakesTwo'
  <1>1. Lost' \ {n} = Lost \ {n} /\ LastTry' \ {n} = LastTry \ {n}
    BY DEF Lost, LastTry
  <1>2. IsFiniteSet(Lost') /\ IsFiniteSet(LastTry')
    <2>1. IsFiniteSet(Node)
      BY NodeAssumption, FS_Interval DEF Node
    <2>q. QED
      BY <2>1, FS_Subset DEF Lost, LastTry
  <1>3. /\ Cardinality(Lost) = Cardinality(Lost \ {n}) + Of(n \in Lost)
        /\ Cardinality(LastTry) = Cardinality(LastTry \ {n}) + Of(n \in LastTry)
        /\ Cardinality(Lost \ {n}) \in Nat /\ Cardinality(LastTry \ {n}) \in Nat
    BY LossFinite, WithoutOne
  <1>4. /\ Cardinality(Lost') = Cardinality(Lost \ {n}) + Of(n \in Lost')
        /\ Cardinality(LastTry') = Cardinality(LastTry \ {n}) + Of(n \in LastTry')
    BY <1>1, <1>2, WithoutOne
  <1>5. /\ {Of(n \in Lost), Of(n \in LastTry), Of(n \in Lost'), Of(n \in LastTry')} \subseteq Nat
        /\ faults \in Nat
    BY BoundAssumption DEF Of, TypeOK
  <1>6. Near(n)' = 2 * Of(n \in Lost') + Of(n \in LastTry')
    BY DEF Near, Of
  <1>q. QED
    BY <1>3, <1>4, <1>5, <1>6 DEF Near, LossTakesTwo

-----------------------------------------------------------------------------
(* The steps.                                                              *)

\* A key or a broadcast leaves those that hear it without an id, trying.
LEMMA AutoKeeps ==
    ASSUME TypeOK, NEW hearers \in SUBSET Slave, KeyA(hearers) \/ KeyM(hearers)
    PROVE  TypeOK' /\ faults <= faults' /\ (LossTakesTwo => LossTakesTwo')
  <1>1. /\ faults' \in 0..MaxFaults /\ faults <= faults'
        /\ \A n \in hearers : n \in Node
    BY BroadcastAdds DEF KeyA, KeyM, DoAuto
  <1>2. /\ keys' \in 0..MaxKeys /\ mpc' \in {"start", "auto", "ask", "set", "done"}
    BY BoundAssumption DEF TypeOK, KeyA, KeyM, Key
  <1>3. 1 \in Id /\ 1 # NotAssigned
    BY NodeAssumption DEF Id, NotAssigned
  <1>4. /\ id' = [n \in Node |-> IF n \in hearers THEN NotAssigned
                                 ELSE IF n = 1 /\ mpc' = "auto" THEN 1 ELSE id[n]]
        /\ tries' = [n \in Node |-> IF n \in hearers THEN 1 ELSE tries[n]]
        /\ UNCHANGED <<probed, list, ii, net>>
    BY DEF KeyA, KeyM, DoAuto
  <1>5. TypeOK'
    BY <1>1, <1>2, <1>3, <1>4 DEF TypeOK
  <1>6. Lost' \subseteq Lost /\ LastTry' \subseteq LastTry
    BY <1>1, <1>3, <1>4 DEF TypeOK, Lost, LastTry
  <1>q. QED
    BY <1>1, <1>5, <1>6, NoneNearer, BoundAssumption

\* The question and the collecting of the replies change nobody's id.
LEMMA CollectKeeps ==
    ASSUME TypeOK,
           \/ \E hearers \in SUBSET Slave : Ask(hearers)
           \/ \E p \in net : TakeInfo(p)
           \/ Sort
           \/ SetNext
    PROVE  TypeOK' /\ faults <= faults' /\ (LossTakesTwo => LossTakesTwo')
  <1>1. UNCHANGED <<id, tries, probed, keys>>
    BY DEF Ask, TakeInfo, Sort, SetNext
  <1>2. SUFFICES /\ TypeOK' /\ faults <= faults'
    <2>1. Lost' \subseteq Lost /\ LastTry' \subseteq LastTry
      BY <1>1 DEF Lost, LastTry
    <2>2. TypeOK' => faults' \in Nat
      BY BoundAssumption DEF TypeOK
    <2>q. QED
      BY <2>1, <2>2, NoneNearer
  <1>3. CASE \E hearers \in SUBSET Slave : Ask(hearers)
    <2>1. PICK hearers \in SUBSET Slave : Ask(hearers)
      BY <1>3
    <2>2. /\ faults' \in 0..MaxFaults /\ faults <= faults'
      BY <2>1, BroadcastAdds DEF Ask
    <2>3. {[type |-> "INFO", from |-> n, to |-> 1] : n \in hearers} \subseteq Info
      BY DEF Info
    <2>q. QED
      BY <1>1, <2>1, <2>2, <2>3, BoundAssumption DEF TypeOK, Ask
  <1>4. CASE \E p \in net : TakeInfo(p)
    <2>1. PICK p \in net : TakeInfo(p)
      BY <1>4
    <2>2. /\ faults' \in 0..MaxFaults /\ faults <= faults' /\ net' \subseteq net
      BY <2>1, FaultAdds, BoundAssumption DEF TypeOK, TakeInfo
    <2>3. p.to = 1
      BY <2>1 DEF TakeInfo, Info
    <2>4. list' \in Seq({1}) /\ Len(list') <= ListLen
      BY <2>1, <2>3, BoundAssumption DEF TypeOK, TakeInfo, Listed
    <2>q. QED
      BY <1>1, <2>1, <2>2, <2>4 DEF TypeOK, TakeInfo
  <1>5. CASE Sort
    <2>1. PICK p \in Bijection(DOMAIN list, DOMAIN list) :
              list' = [i \in DOMAIN list |-> list[p[i]]]
      BY <1>5 DEF Sort
    <2>2. list \in Seq({1})
      BY DEF TypeOK
    <2>3. list' \in Seq({1}) /\ Len(list') = Len(list)
      BY <2>1, <2>2, SortedKeeps
    <2>q. QED
      BY <1>1, <1>5, <2>3, BoundAssumption DEF TypeOK, Sort
  <1>6. CASE SetNext
    <2>1. CASE ii < Len(list)
      <3>1. ii + 1 \in 0..ListLen /\ ii + 1 \in Id /\ list[ii + 1] = 1 /\ 1 \in Id
        BY <2>1, BoundAssumption, ListAssumption, NodeAssumption DEF TypeOK, Id
      <3>2. Told(ii) \subseteq Set
        BY <3>1 DEF Told, Set
      <3>q. QED
        BY <1>1, <1>6, <2>1, <3>1, <3>2, BoundAssumption DEF TypeOK, SetNext
    <2>2. CASE ~(ii < Len(list))
      BY <1>1, <1>6, <2>2, BoundAssumption DEF TypeOK, SetNext
    <2>q. QED
      BY <2>1, <2>2
  <1>q. QED
    BY <1>3, <1>4, <1>5, <1>6

\* Who is told an id takes it.
LEMMA SetKeeps ==
    ASSUME TypeOK, NEW p \in net, TakeSet(p)
    PROVE  TypeOK' /\ faults <= faults' /\ (LossTakesTwo => LossTakesTwo')
  <1>1. p.val \in Id /\ p.val # NotAssigned
    BY IdIsAssigned DEF TakeSet, Set
  <1>2. \A n \in Node : id'[n] = p.val \/ id'[n] = id[n]
    BY DEF TakeSet
  <1>3. TypeOK' /\ faults' = faults /\ faults \in Nat
    BY <1>1, BoundAssumption DEF TypeOK, TakeSet
  <1>4. Lost' \subseteq Lost /\ LastTry' \subseteq LastTry
    BY <1>1, <1>2 DEF Lost, LastTry, TakeSet
  <1>q. QED
    BY <1>3, <1>4, NoneNearer

\* An acquisition that finds no id is a fault, and takes one from the first attempt to
\* the last, or from the last to none.
LEMMA AcquireKeeps ==
    ASSUME TypeOK, NEW n \in Node, Probe(n) \/ Claim(n) \/ AcquireFails(n)
    PROVE  TypeOK' /\ faults <= faults' /\ (LossTakesTwo => LossTakesTwo')
  <1>1. CASE Probe(n)
    <2>1. PICK x \in Id : /\ probed' = [probed EXCEPT ![n] = x]
                          /\ Fault(IF Holders(x) \subseteq {n} THEN 0 ELSE 1)
      BY <1>1 DEF Probe
    <2>2. faults' \in 0..MaxFaults /\ faults <= faults'
      BY <2>1, FaultAdds
    <2>3. TypeOK'
      BY <1>1, <2>1, <2>2, BoundAssumption DEF TypeOK, Probe
    <2>4. Lost' \subseteq Lost /\ LastTry' \subseteq LastTry
      BY <1>1 DEF Probe, Lost, LastTry
    <2>q. QED
      BY <2>2, <2>3, <2>4, NoneNearer, BoundAssumption
  <1>2. ASSUME NEW x, Acquired(n, x), x \in Id \union {NotAssigned}
        PROVE  /\ id' = [id EXCEPT ![n] = x] /\ tries' \in [Node -> 0..2]
               /\ probed' \in [Node -> {0} \union Id]
               /\ id'[n] = x
               /\ tries'[n] = IF tries[n] = 1 /\ x \in {1, NotAssigned} THEN 2 ELSE 0
               /\ \A m \in Node \ {n} : id'[m] = id[m] /\ tries'[m] = tries[m]
               /\ UNCHANGED <<mpc, list, ii, net, keys>>
    BY <1>2 DEF TypeOK, Acquired, Retry
  <1>3. CASE Claim(n)
    <2>1. probed[n] \in Id /\ probed[n] # NotAssigned
      BY <1>3, IdIsAssigned DEF Claim, TypeOK
    <2>2. Acquired(n, probed[n]) /\ faults' = faults /\ faults \in Nat
      BY <1>3, BoundAssumption DEF Claim, TypeOK
    <2>3. TypeOK'
      BY <1>2, <2>1, <2>2 DEF TypeOK
    <2>4. Lost' \subseteq Lost /\ LastTry' \subseteq LastTry
      BY <1>2, <2>1, <2>2 DEF Lost, LastTry
    <2>q. QED
      BY <2>2, <2>3, <2>4, NoneNearer
  <1>4. CASE AcquireFails(n)
    <2>1. Acquired(n, id[n]) /\ Fault(1) /\ id[n] \in Id \union {NotAssigned} /\ tries[n] > 0
          /\ tries[n] \in 0..2
      BY <1>4 DEF AcquireFails, TypeOK
    <2>2. faults' \in 0..MaxFaults /\ faults' = faults + 1 /\ faults \in Nat
      BY <2>1, BoundAssumption DEF Fault, TypeOK
    <2>3. TypeOK'
      BY <1>2, <2>1, <2>2 DEF TypeOK
    <2>4. id'[n] = id[n] /\ tries'[n] = IF tries[n] = 1 /\ id[n] \in {1, NotAssigned} THEN 2 ELSE 0
      BY <1>2, <2>1
    <2>5. Near(n)' - Near(n) <= faults' - faults
      <3>1. CASE id[n] # NotAssigned
        <4>1. Near(n)' = 0 /\ Near(n) = 0
          BY <2>4, <3>1 DEF Near, Of, Lost, LastTry
        <4>q. QED
          BY <2>2, <4>1
      <3>2. CASE id[n] = NotAssigned /\ tries[n] = 1
        <4>1. Near(n)' = 1 /\ Near(n) = 0
          BY <2>4, <3>2 DEF Near, Of, Lost, LastTry
        <4>q. QED
          BY <2>2, <4>1
      <3>3. CASE id[n] = NotAssigned /\ tries[n] = 2
        <4>1. Near(n)' = 2 /\ Near(n) = 1
          BY <2>4, <3>3 DEF Near, Of, Lost, LastTry
        <4>q. QED
          BY <2>2, <4>1
      <3>q. QED
        BY <2>1, <3>1, <3>2, <3>3
    <2>6. LossTakesTwo => LossTakesTwo'
      BY <1>2, <2>1, <2>2, <2>5, OneNearer, BoundAssumption
    <2>q. QED
      BY <2>2, <2>3, <2>6
  <1>q. QED
    BY <1>1, <1>3, <1>4

\* A reset is a fault, and has one attempt.
LEMMA ResetKeeps ==
    ASSUME TypeOK, NEW n \in Node, Reset(n)
    PROVE  TypeOK' /\ faults <= faults' /\ (LossTakesTwo => LossTakesTwo')
  <1>1. faults' \in 0..MaxFaults /\ faults' = faults + 1 /\ faults \in Nat
    BY BoundAssumption DEF TypeOK, Fault, Reset
  <1>2. /\ id' = [id EXCEPT ![n] = NotAssigned] /\ tries' = [tries EXCEPT ![n] = 2]
        /\ probed' = [probed EXCEPT ![n] = 0] /\ net' \subseteq net /\ UNCHANGED keys
        /\ \/ mpc' = "start" /\ list' = <<>> /\ ii' = 0
           \/ UNCHANGED <<mpc, list, ii>>
    BY DEF Reset
  <1>3. /\ id' \in [Node -> Id \union {NotAssigned}] /\ tries' \in [Node -> 0..2]
        /\ probed' \in [Node -> {0} \union Id] /\ net' \subseteq Info \union Set
        /\ keys' \in 0..MaxKeys
    BY <1>2 DEF TypeOK
  <1>4. /\ mpc' \in {"start", "auto", "ask", "set", "done"}
        /\ list' \in Seq({1}) /\ Len(list') <= ListLen /\ ii' \in 0..ListLen
    <2>1. CASE mpc' = "start" /\ list' = <<>> /\ ii' = 0
      BY <2>1, BoundAssumption
    <2>2. CASE UNCHANGED <<mpc, list, ii>>
      BY <2>2 DEF TypeOK
    <2>q. QED
      BY <1>2, <2>1, <2>2
  <1>5. TypeOK'
    BY <1>1, <1>3, <1>4 DEF TypeOK
  <1>6. Near(n)' - Near(n) <= faults' - faults
    <2>1. Near(n)' = 1
      BY <1>2 DEF Near, Of, Lost, LastTry, TypeOK
    <2>2. Near(n) \in Nat
      BY DEF Near, Of
    <2>q. QED
      BY <1>1, <2>1, <2>2
  <1>7. \A m \in Node \ {n} : id'[m] = id[m] /\ tries'[m] = tries[m]
    BY <1>2 DEF TypeOK
  <1>8. LossTakesTwo => LossTakesTwo'
    BY <1>1, <1>6, <1>7, OneNearer, BoundAssumption
  <1>q. QED
    BY <1>1, <1>5, <1>8

-----------------------------------------------------------------------------
\* It begins with ids of earlier times, but with ids.
LEMMA Initially == Init => TypeOK /\ LossTakesTwo
  <1> SUFFICES ASSUME Init PROVE TypeOK /\ LossTakesTwo
    OBVIOUS
  <1>1. TypeOK
    BY BoundAssumption DEF Init, TypeOK
  <1>2. Lost = {} /\ LastTry = {} /\ faults = 0
    BY IdIsAssigned DEF Init, Lost, LastTry
  <1>q. QED
    BY <1>1, <1>2, FS_EmptySet DEF LossTakesTwo

\* Every step keeps the types and the bound on losses, and takes no fault back.
LEMMA Step ==
    ASSUME TypeOK, [Next]_vars
    PROVE  TypeOK' /\ faults <= faults' /\ (LossTakesTwo => LossTakesTwo')
  <1>1. CASE \E hearers \in SUBSET Slave : KeyA(hearers) \/ KeyM(hearers)
    BY <1>1, AutoKeeps
  <1>2. CASE \/ \E hearers \in SUBSET Slave : Ask(hearers)
             \/ \E p \in net : TakeInfo(p)
             \/ Sort
             \/ SetNext
    BY <1>2, CollectKeeps
  <1>3. CASE \E p \in net : TakeSet(p)
    BY <1>3, SetKeeps
  <1>4. CASE \E n \in Node : Probe(n) \/ Claim(n) \/ AcquireFails(n)
    BY <1>4, AcquireKeeps
  <1>5. CASE \E n \in Node : Reset(n)
    BY <1>5, ResetKeeps
  <1>6. CASE UNCHANGED vars
    <2>1. TypeOK' /\ faults' = faults /\ faults \in Nat
      BY <1>6, BoundAssumption DEF TypeOK, vars
    <2>2. Lost' \subseteq Lost /\ LastTry' \subseteq LastTry
      BY <1>6 DEF vars, Lost, LastTry
    <2>q. QED
      BY <2>1, <2>2, NoneNearer
  <1>q. QED
    BY <1>1, <1>2, <1>3, <1>4, <1>5, <1>6 DEF Next

\* Every variable keeps to its type, the list to its length, whatever the faults.
THEOREM TypeCorrect == Spec => []TypeOK
  <1>1. ASSUME TypeOK, [Next]_vars PROVE TypeOK'
    BY <1>1, Step
  <1>q. QED
    BY <1>1, Initially, PTL DEF Spec

\* Every microcontroller left without an id costs two faults of its own, however many
\* faults there are: one attempt that finds no id is repeated (comm.cpp:366-379).
THEOREM IdKept == Spec => []LossTakesTwo
  <1>1. ASSUME TypeOK /\ LossTakesTwo, [Next]_vars PROVE (TypeOK /\ LossTakesTwo)'
    BY <1>1, Step
  <1>q. QED
    BY <1>1, Initially, PTL DEF Spec

-----------------------------------------------------------------------------
(* One fault leaves id 1 to the master, if there are two others at least   *)
(* and room for two in the list: whoever has kept that id answers to it,   *)
(* like everybody, and is told another one with the second answer.  With   *)
(* one other there is no second answer, and it keeps the id.               *)

\* A slave takes id 1 only by a fault, and then tries once more.
Fine(n) ==
    /\ id[n] = 1 => faults >= 1 /\ tries[n] = 2 /\ probed[n] # 1
    /\ probed[n] = 1 => faults >= 1 /\ tries[n] = 1
    /\ faults = 0 => tries[n] # 2

ManyReplies ==
    \/ Len(list) >= 2
    \/ Len(list) >= 1 /\ net \intersect Info # {}
    \/ \E p, q \in net \intersect Info : p # q

ToldOne == net \intersect Set # {}

SlavesIdle == \A n \in Slave : tries[n] = 0

\* A slave has missed that there is a master, and so may answer to id 1: then everybody
\* hears the question, and what is sent to id 1 reaches it.
Slipped ==
    /\ faults >= 1
    /\ mpc # "auto" => SlavesIdle
    /\ mpc = "ask" => ManyReplies
    /\ mpc = "set" => Len(list) >= 2 /\ (ii < 2 \/ ToldOne)
    /\ mpc = "done" => ToldOne

MasterOfIds == mpc # "start" => id[1] = 1 /\ tries[1] = 0

SetsToOne == \A p \in net \intersect Set : p.to = 1 /\ p.val # 1

ProbesBusy == \A n \in Node : tries[n] = 0 => probed[n] = 0

SlavesFine == \A n \in Slave : Fine(n)

FirstInv ==
    /\ TypeOK /\ ProbesBusy /\ SetsToOne /\ MasterOfIds
    /\ mpc # "start" => SlavesFine \/ Slipped

\* Packets of the two types are not taken for each other.
LEMMA InfoIsNoSet ==
    /\ \A p \in Info : p.type = "INFO" /\ p \notin Set
    /\ \A p \in Set : p.type = "SET" /\ p \notin Info
  BY DEF Info, Set

LEMMA NodeOne == 1 \in Node /\ 1 \in Id /\ NotAssigned # 1 /\ \A n \in Slave : n \in Node /\ n # 1
  BY NodeAssumption DEF Node, Slave, Id, NotAssigned

\* What is a fault: there is one only after none.
LEMMA FaultOnce ==
    ASSUME TypeOK, faults' <= 1, NEW cost \in Nat, Fault(cost)
    PROVE  /\ faults \in Nat /\ faults' \in Nat /\ faults <= faults' /\ faults' <= 1
           /\ cost >= 1 => faults = 0 /\ faults' = 1
  BY BoundAssumption DEF TypeOK, Fault

\* Once there was a fault, everybody hears a broadcast.
LEMMA AllHear ==
    ASSUME TypeOK, faults' <= 1, NEW hearers \in SUBSET Slave, Broadcast(hearers)
    PROVE  /\ faults \in Nat /\ faults' \in Nat /\ faults <= faults'
           /\ faults >= 1 => hearers = Slave
           /\ faults' = 0 => hearers = Slave
           /\ \A n \in hearers : n \in Node /\ n \in Slave /\ tries[n] = 0
  <1>1. IsFiniteSet(Node)
    BY NodeAssumption, FS_Interval DEF Node
  <1>2. IsFiniteSet(Slave \ hearers)
    BY <1>1, FS_Subset DEF Slave
  <1>3. Cardinality(Slave \ hearers) \in Nat
    BY <1>2, FS_CardinalityType
  <1>4. Fault(Cardinality(Slave \ hearers))
    BY DEF Broadcast
  <1>5. /\ faults \in Nat /\ faults' \in Nat /\ faults <= faults'
        /\ Cardinality(Slave \ hearers) >= 1 => faults = 0 /\ faults' = 1
    BY <1>3, <1>4, FaultOnce
  <1>6. Cardinality(Slave \ hearers) = 0 => Slave \ hearers = {}
    BY <1>2, FS_EmptySet
  <1>7. faults >= 1 \/ faults' = 0 => Cardinality(Slave \ hearers) = 0
    BY <1>3, <1>5
  <1>8. faults >= 1 \/ faults' = 0 => hearers = Slave
    BY <1>6, <1>7
  <1>q. QED
    BY <1>5, <1>8 DEF Broadcast, Slave

\* Both keys leave the slaves fine, or one has missed the broadcast.
LEMMA KeyFirst ==
    ASSUME FirstInv, faults' <= 1, NEW hearers \in SUBSET Slave,
           KeyA(hearers) \/ KeyM(hearers)
    PROVE  ProbesBusy' /\ SetsToOne' /\ MasterOfIds' /\ (mpc' # "start" => SlavesFine' \/ Slipped')
  <1> USE NodeOne
  <1>1. /\ faults \in Nat /\ faults' \in Nat /\ faults <= faults'
        /\ faults >= 1 => hearers = Slave
        /\ faults' = 0 => hearers = Slave
        /\ \A n \in hearers : n \in Node /\ n \in Slave /\ tries[n] = 0
    BY AllHear DEF FirstInv, KeyA, KeyM, DoAuto
  <1>2. /\ id' = [n \in Node |-> IF n \in hearers THEN NotAssigned
                                 ELSE IF n = 1 /\ mpc' = "auto" THEN 1 ELSE id[n]]
        /\ tries' = [n \in Node |-> IF n \in hearers THEN 1 ELSE tries[n]]
        /\ UNCHANGED <<probed, list, ii, net>>
        /\ mpc \in {"start", "done"} /\ tries[1] = 0
        /\ mpc' = mpc \/ mpc' = "auto"
    BY DEF KeyA, KeyM, DoAuto, Key
  <1>3. ProbesBusy' /\ SetsToOne'
    BY <1>1, <1>2 DEF FirstInv, ProbesBusy, SetsToOne
  <1>4. MasterOfIds'
    BY <1>1, <1>2 DEF FirstInv, MasterOfIds
  <1>5. \A n \in hearers : Fine(n)'
    <2> SUFFICES ASSUME NEW n \in hearers PROVE Fine(n)'
      OBVIOUS
    <2>1. id'[n] = NotAssigned /\ tries'[n] = 1 /\ probed'[n] = 0
      BY <1>1, <1>2 DEF FirstInv, ProbesBusy
    <2>q. QED
      BY <2>1 DEF Fine
  <1>6. CASE hearers = Slave
    BY <1>3, <1>4, <1>5, <1>6 DEF SlavesFine
  <1>7. CASE hearers # Slave
    <2>1. faults = 0 /\ faults' >= 1
      BY <1>1, <1>7
    <2>2. CASE mpc' = "auto"
      BY <1>3, <1>4, <2>1, <2>2 DEF Slipped
    <2>3. CASE mpc' = mpc /\ mpc = "done"
      <3>1. SlavesFine
        BY <2>1, <2>3 DEF FirstInv, Slipped
      <3>2. ASSUME NEW n \in Slave, n \notin hearers PROVE Fine(n)'
        <4>1. id'[n] = id[n] /\ tries'[n] = tries[n] /\ probed'[n] = probed[n]
          BY <1>2, <2>3, <3>2
        <4>2. Fine(n)
          BY <3>1 DEF SlavesFine
        <4>q. QED
          BY <2>1, <4>1, <4>2 DEF Fine
      <3>q. QED
        BY <1>3, <1>4, <1>5, <3>2 DEF SlavesFine
    <2>q. QED
      BY <1>2, <1>3, <1>4, <2>2, <2>3
  <1>q. QED
    BY <1>3, <1>4, <1>6, <1>7

\* A fine slave stays so as long as it does nothing, faults or not.
LEMMA FineStays ==
    ASSUME FirstInv, SlavesFine, UNCHANGED <<id, tries, probed>>,
           faults \in Nat, faults' \in Nat, faults <= faults'
    PROVE  SlavesFine'
  BY DEF SlavesFine, Fine

\* The question: two others at least answer.
LEMMA AskFirst ==
    ASSUME FirstInv, faults' <= 1, N >= 3, NEW hearers \in SUBSET Slave, Ask(hearers)
    PROVE  ProbesBusy' /\ SetsToOne' /\ MasterOfIds' /\ (SlavesFine' \/ Slipped')
  <1>1. /\ faults \in Nat /\ faults' \in Nat /\ faults <= faults'
        /\ faults >= 1 => hearers = Slave
        /\ \A n \in hearers : n \in Node /\ n \in Slave /\ tries[n] = 0
    BY AllHear DEF FirstInv, Ask
  <1> DEFINE replies == {[type |-> "INFO", from |-> n, to |-> 1] : n \in hearers}
  <1>2. /\ mpc = "auto" /\ mpc' = "ask" /\ net' = net \union replies
        /\ UNCHANGED <<id, tries, probed>>
    BY DEF Ask
  <1>3. \A p \in replies : p \in Info
    BY DEF Info
  <1>4. \A p \in replies : p \notin Set
    BY <1>3, InfoIsNoSet
  <1>5. ProbesBusy' /\ MasterOfIds'
    BY <1>2 DEF FirstInv, ProbesBusy, MasterOfIds
  <1> HIDE DEF replies
  <1>6. SetsToOne'
    BY <1>2, <1>4 DEF FirstInv, SetsToOne
  <1>7. CASE SlavesFine
    BY <1>1, <1>2, <1>5, <1>6, <1>7, FineStays
  <1>8. CASE Slipped
    <2>1. faults >= 1 /\ faults' >= 1 /\ hearers = Slave
      BY <1>1, <1>8 DEF Slipped
    <2>2. SlavesIdle'
      BY <1>1, <1>2, <2>1 DEF SlavesIdle
    <2>3. ManyReplies'
      <3>1. 2 \in Slave /\ 3 \in Slave
        BY NodeAssumption DEF Slave, Node
      <3>2. PICK p, q \in replies : p # q
        <4>1. /\ [type |-> "INFO", from |-> 2, to |-> 1] \in replies
              /\ [type |-> "INFO", from |-> 3, to |-> 1] \in replies
          BY <2>1, <3>1 DEF replies
        <4>2. [type |-> "INFO", from |-> 2, to |-> 1] # [type |-> "INFO", from |-> 3, to |-> 1]
          OBVIOUS
        <4>q. QED
          BY <4>1, <4>2
      <3>q. QED
        BY <1>2, <1>3, <3>2 DEF ManyReplies
    <2>q. QED
      BY <1>2, <1>5, <1>6, <2>1, <2>2, <2>3 DEF Slipped
  <1>q. QED
    BY <1>2, <1>5, <1>6, <1>7, <1>8 DEF FirstInv

\* A reply is noted; one that comes twice is a fault.
LEMMA InfoFirst ==
    ASSUME FirstInv, faults' <= 1, ListLen >= 2, NEW p \in net, TakeInfo(p)
    PROVE  ProbesBusy' /\ SetsToOne' /\ MasterOfIds' /\ (mpc' # "start" => SlavesFine' \/ Slipped')
  <1>1. /\ p \in Info /\ list' = Listed(list, p.to)
        /\ UNCHANGED <<id, tries, probed, mpc, ii>>
        /\ \/ net' = net \ {p} /\ UNCHANGED faults
           \/ Fault(1) /\ UNCHANGED net
    BY DEF TakeInfo
  <1>2. /\ faults \in Nat /\ faults' \in Nat /\ faults <= faults'
        /\ net' = net \ {p} \/ (net' = net /\ faults = 0)
    BY <1>1, FaultOnce DEF FirstInv, TypeOK
  <1>3. net' \intersect Set = net \intersect Set
    BY <1>1, <1>2, InfoIsNoSet
  <1>4. ProbesBusy' /\ SetsToOne' /\ MasterOfIds'
    BY <1>1, <1>3 DEF FirstInv, ProbesBusy, SetsToOne, MasterOfIds
  <1>5. CASE SlavesFine
    BY <1>1, <1>2, <1>4, <1>5, FineStays
  <1>6. CASE Slipped
    <2>1. net' = net \ {p} /\ faults' >= 1
      BY <1>2, <1>6 DEF Slipped
    <2>2. /\ Len(list) \in Nat /\ Len(list') \in Nat /\ Len(list') >= Len(list)
          /\ Len(list') >= 2 \/ Len(list') = Len(list) + 1
      <3>1. list \in Seq({1}) /\ p.to = 1 /\ ListLen \in Nat
        BY <1>1, BoundAssumption DEF FirstInv, TypeOK, Info
      <3>2. CASE Len(list) < ListLen
        <4>1. list' = Append(list, 1)
          BY <1>1, <3>1, <3>2 DEF Listed
        <4>q. QED
          BY <3>1, <4>1
      <3>3. CASE ~(Len(list) < ListLen)
        <4>1. list' = list
          BY <1>1, <3>3 DEF Listed
        <4>q. QED
          BY <3>1, <3>3, <4>1
      <3>q. QED
        BY <3>2, <3>3
    <2>3. mpc = "ask" => ManyReplies'
      <3>1. HAVE mpc = "ask"
      <3>2. ManyReplies
        BY <1>6, <3>1 DEF Slipped
      <3>3. CASE Len(list) >= 1
        BY <2>2, <3>3 DEF ManyReplies
      <3>4. CASE \E q, r \in net \intersect Info : q # r
        <4>1. PICK q \in net \intersect Info : q # p
          BY <3>4
        <4>2. net' \intersect Info # {}
          BY <2>1, <4>1
        <4>q. QED
          BY <2>2, <4>2 DEF ManyReplies
      <3>q. QED
        BY <2>2, <3>2, <3>3, <3>4 DEF ManyReplies
    <2>4. SlavesIdle => SlavesIdle'
      BY <1>1 DEF SlavesIdle
    <2>5. ToldOne => ToldOne'
      BY <1>3 DEF ToldOne
    <2>q. QED
      BY <1>1, <1>4, <1>6, <2>1, <2>2, <2>3, <2>4, <2>5 DEF Slipped
  <1>q. QED
    BY <1>1, <1>4, <1>5, <1>6 DEF FirstInv

\* With the list sorted and the replies all in, whoever answers to id 1 is told another.
LEMMA ListFirst ==
    ASSUME FirstInv, Sort \/ SetNext
    PROVE  ProbesBusy' /\ SetsToOne' /\ MasterOfIds' /\ (mpc' # "start" => SlavesFine' \/ Slipped')
  <1>1. /\ mpc \in {"ask", "set"} /\ mpc' \in {"set", "done"}
        /\ UNCHANGED <<id, tries, probed, faults>> /\ faults \in Nat
    BY DEF Sort, SetNext, FirstInv, TypeOK
  <1>2. ProbesBusy' /\ MasterOfIds'
    BY <1>1 DEF FirstInv, ProbesBusy, MasterOfIds
  <1>3. SlavesFine => SlavesFine'
    BY <1>1, FineStays
  <1>4. SlavesIdle => SlavesIdle'
    BY <1>1 DEF SlavesIdle
  <1>5. CASE Sort
    <2>1. PICK p \in Bijection(DOMAIN list, DOMAIN list) :
              list' = [i \in DOMAIN list |-> list[p[i]]]
      BY <1>5 DEF Sort
    <2>2. Len(list') = Len(list)
      BY <2>1, SortedKeeps DEF FirstInv, TypeOK
    <2>3. mpc = "ask" /\ mpc' = "set" /\ ii' = 0 /\ net' = net /\ net \intersect Info = {}
      BY <1>5 DEF Sort
    <2>4. SetsToOne'
      BY <2>3 DEF FirstInv, SetsToOne
    <2>5. Slipped => Slipped'
      <3>1. ManyReplies => Len(list) >= 2
        BY <2>3 DEF ManyReplies
      <3>q. QED
        BY <1>1, <1>4, <2>2, <2>3, <3>1 DEF Slipped
    <2>q. QED
      BY <1>1, <1>2, <1>3, <2>4, <2>5 DEF FirstInv
  <1>6. CASE SetNext /\ ii < Len(list)
    <2>1. /\ mpc = "set" /\ mpc' = "set" /\ net' = net \union Told(ii) /\ ii' = ii + 1
          /\ list' = list
      BY <1>6 DEF SetNext
    <2>2. ii \in Nat /\ ii + 1 \in 1..Len(list) /\ list[ii + 1] = 1
      BY <1>6, BoundAssumption DEF FirstInv, TypeOK
    <2>3. /\ \A q \in Told(ii) : q.to = 1 /\ q.val = ii + 1 /\ ii + 1 # 1
          /\ ii = 1 => [type |-> "SET", to |-> 1, val |-> 2] \in Told(ii)
      <3>1. Told(ii) = {[type |-> "SET", to |-> x, val |-> ii + 1] : x \in {1} \ {ii + 1}}
        BY <2>2 DEF Told
      <3>2. ii = 1 => 1 \in {1} \ {ii + 1} /\ ii + 1 = 2
        BY <2>2
      <3>q. QED
        BY <3>1, <3>2
    <2>4. SetsToOne'
      BY <2>1, <2>3 DEF FirstInv, SetsToOne
    <2>5. Slipped => Slipped'
      <3>1. HAVE Slipped
      <3>2. Len(list) >= 2 /\ (ii < 2 \/ ToldOne) /\ SlavesIdle /\ faults >= 1
        BY <2>1, <3>1 DEF Slipped
      <3>3. ToldOne => ToldOne'
        BY <2>1 DEF ToldOne
      <3>4. ii = 1 => ToldOne'
        <4>1. HAVE ii = 1
        <4>2. [type |-> "SET", to |-> 1, val |-> 2] \in Set
          <5>1. 1 \in Id /\ 2 \in Id
            BY <4>1, <2>2, BoundAssumption, ListAssumption, NodeAssumption
               DEF FirstInv, TypeOK, Id
          <5>q. QED
            BY <5>1 DEF Set
        <4>q. QED
          BY <2>1, <2>3, <4>1, <4>2 DEF ToldOne
      <3>5. ii = 0 => ii' < 2
        BY <2>1
      <3>6. ii = 0 \/ ii = 1 \/ ~(ii < 2)
        BY <2>2
      <3>7. ii' < 2 \/ ToldOne'
        BY <3>2, <3>3, <3>4, <3>5, <3>6
      <3>q. QED
        BY <1>1, <1>4, <2>1, <3>2, <3>7 DEF Slipped
    <2>q. QED
      BY <1>1, <1>2, <1>3, <2>1, <2>4, <2>5 DEF FirstInv
  <1>7. CASE SetNext /\ ~(ii < Len(list))
    <2>1. mpc = "set" /\ mpc' = "done" /\ net' = net /\ ii' = ii /\ list' = list
      BY <1>7 DEF SetNext
    <2>2. SetsToOne'
      BY <2>1 DEF FirstInv, SetsToOne
    <2>3. Slipped => Slipped'
      <3>1. HAVE Slipped
      <3>2. Len(list) >= 2 /\ (ii < 2 \/ ToldOne) /\ SlavesIdle /\ faults >= 1
        BY <2>1, <3>1 DEF Slipped
      <3>3. ~(ii < 2)
        BY <1>7, <3>2, BoundAssumption DEF FirstInv, TypeOK
      <3>4. ToldOne'
        BY <2>1, <3>2, <3>3 DEF ToldOne
      <3>q. QED
        BY <1>1, <1>4, <2>1, <3>2, <3>4 DEF Slipped
    <2>q. QED
      BY <1>1, <1>2, <1>3, <2>1, <2>2, <2>3 DEF FirstInv
  <1>q. QED
    BY <1>5, <1>6, <1>7

\* Whoever answers to id 1 and is not acquiring one takes the other it is told.
LEMMA SetFirst ==
    ASSUME FirstInv, NEW p \in net, TakeSet(p)
    PROVE  ProbesBusy' /\ SetsToOne' /\ MasterOfIds' /\ (mpc' # "start" => SlavesFine' \/ Slipped')
  <1> DEFINE to == {n \in Slave \intersect Holders(p.to) : tries[n] = 0}
  <1>1. /\ id' = [n \in Node |-> IF n \in to THEN p.val ELSE id[n]]
        /\ p \in Set /\ net' = net \ {p}
        /\ UNCHANGED <<tries, probed, mpc, list, ii, faults>>
    BY DEF TakeSet
  <1>2. p.to = 1 /\ p.val # 1
    BY <1>1 DEF FirstInv, SetsToOne
  <1>3. \A n \in Slave : n \in to <=> (id[n] = 1 /\ tries[n] = 0)
    BY <1>2, NodeOne DEF Holders
  <1>4. 1 \notin to
    BY NodeOne
  <1> HIDE DEF to
  <1>5. ProbesBusy' /\ SetsToOne' /\ MasterOfIds'
    BY <1>1, <1>4, NodeOne DEF FirstInv, ProbesBusy, SetsToOne, MasterOfIds
  <1>6. CASE SlavesFine
    <2>1. ASSUME NEW n \in Slave PROVE Fine(n)'
      <3>1. Fine(n) /\ (id'[n] = id[n] \/ id'[n] # 1)
        BY <1>1, <1>2, <1>6, NodeOne DEF SlavesFine
      <3>q. QED
        BY <1>1, <3>1 DEF Fine
    <2>q. QED
      BY <1>5, <2>1 DEF SlavesFine
  <1>7. CASE Slipped /\ mpc = "auto"
    BY <1>1, <1>5, <1>7 DEF Slipped
  <1>8. CASE Slipped /\ mpc # "auto"
    <2>1. SlavesIdle /\ faults >= 1
      BY <1>8 DEF Slipped
    <2>2. ASSUME NEW n \in Slave PROVE Fine(n)'
      <3>1. tries[n] = 0 /\ probed[n] = 0
        BY <2>1, NodeOne DEF SlavesIdle, FirstInv, ProbesBusy
      <3>2. id'[n] # 1
        BY <1>1, <1>2, <1>3, <3>1, NodeOne
      <3>q. QED
        BY <1>1, <3>1, <3>2 DEF Fine
    <2>q. QED
      BY <1>5, <2>2 DEF SlavesFine
  <1>q. QED
    BY <1>1, <1>5, <1>6, <1>7, <1>8 DEF FirstInv

\* The end of an acquisition.
LEMMA AcquiredIs ==
    ASSUME TypeOK, NEW n \in Node, NEW x, Acquired(n, x)
    PROVE  /\ id'[n] = x /\ probed'[n] = 0
           /\ tries'[n] = IF tries[n] = 1 /\ x \in {1, NotAssigned} THEN 2 ELSE 0
           /\ \A m \in Node \ {n} : /\ id'[m] = id[m] /\ tries'[m] = tries[m]
                                    /\ probed'[m] = probed[m]
           /\ UNCHANGED <<mpc, list, ii, net>>
  BY DEF TypeOK, Acquired, Retry

\* A step of a slave that is busy with its id leaves it fine, and all others alone.
LEMMA BusyFirst ==
    ASSUME FirstInv, NEW n \in Node, n # 1 \/ mpc = "start", tries[n] > 0,
           faults \in Nat, faults' \in Nat, faults <= faults',
           UNCHANGED <<mpc, list, ii, net>>,
           \A m \in Node \ {n} : /\ id'[m] = id[m] /\ tries'[m] = tries[m]
                                 /\ probed'[m] = probed[m],
           tries'[n] = 0 => probed'[n] = 0,
           mpc # "start" /\ Fine(n) => Fine(n)'
    PROVE  ProbesBusy' /\ SetsToOne' /\ MasterOfIds' /\ (mpc' # "start" => SlavesFine' \/ Slipped')
  <1>1. ProbesBusy'
    BY DEF FirstInv, ProbesBusy
  <1>2. SetsToOne'
    BY DEF FirstInv, SetsToOne
  <1>3. MasterOfIds'
    BY NodeOne DEF FirstInv, MasterOfIds
  <1>4. CASE mpc # "start" /\ SlavesFine
    <2>1. ASSUME NEW m \in Slave PROVE Fine(m)'
      <3>1. Fine(m) /\ m \in Node
        BY <1>4, NodeOne DEF SlavesFine
      <3>2. CASE m = n
        BY <1>4, <3>1, <3>2
      <3>3. CASE m # n
        <4>1. id'[m] = id[m] /\ tries'[m] = tries[m] /\ probed'[m] = probed[m]
          BY <3>1, <3>3
        <4>q. QED
          BY <3>1, <4>1 DEF Fine
      <3>q. QED
        BY <3>2, <3>3
    <2>q. QED
      BY <1>1, <1>2, <1>3, <2>1 DEF SlavesFine
  <1>5. CASE mpc # "start" /\ Slipped
    <2>1. n \in Slave
      BY <1>5 DEF Slave
    <2>2. mpc = "auto"
      BY <1>5, <2>1 DEF Slipped, SlavesIdle
    <2>q. QED
      BY <1>1, <1>2, <1>3, <1>5, <2>2 DEF Slipped
  <1>q. QED
    BY <1>1, <1>2, <1>3, <1>4, <1>5 DEF FirstInv

\* While there is a master, probing its id unanswered is a fault.
LEMMA AcquireFirst ==
    ASSUME FirstInv, faults' <= 1, NEW n \in Node, Probe(n) \/ Claim(n) \/ AcquireFails(n)
    PROVE  ProbesBusy' /\ SetsToOne' /\ MasterOfIds' /\ (mpc' # "start" => SlavesFine' \/ Slipped')
  <1>1. TypeOK /\ tries[n] \in 0..2
    BY DEF FirstInv, TypeOK
  <1>2. tries[n] > 0 /\ (n # 1 \/ mpc = "start")
    BY <1>1, NodeOne DEF FirstInv, ProbesBusy, MasterOfIds, Probe, Claim, AcquireFails
  <1>3. CASE Probe(n)
    <2>1. PICK x \in Id : /\ probed' = [probed EXCEPT ![n] = x]
                          /\ Fault(IF Holders(x) \subseteq {n} THEN 0 ELSE 1)
      BY <1>3 DEF Probe
    <2>2. UNCHANGED <<id, tries, mpc, list, ii, net>>
      BY <1>3 DEF Probe
    <2>3. /\ faults \in Nat /\ faults' \in Nat /\ faults <= faults'
          /\ ~(Holders(x) \subseteq {n}) => faults = 0 /\ faults' = 1
      BY <1>1, <2>1, FaultOnce
    <2>4. /\ probed'[n] = x
          /\ \A m \in Node \ {n} : probed'[m] = probed[m]
      BY <1>1, <2>1 DEF TypeOK
    <2>5. mpc # "start" /\ Fine(n) => Fine(n)'
      <3>1. HAVE mpc # "start" /\ Fine(n)
      <3>2. CASE x = 1
        <4>1. 1 \in Holders(x) /\ n # 1
          BY <1>2, <3>1, <3>2, NodeOne DEF FirstInv, MasterOfIds, Holders
        <4>2. faults = 0 /\ faults' = 1
          BY <2>3, <4>1
        <4>3. tries[n] = 1 /\ id[n] # 1
          BY <1>1, <1>2, <3>1, <4>2 DEF Fine
        <4>q. QED
          BY <2>2, <4>2, <4>3 DEF Fine
      <3>3. CASE x # 1
        BY <2>2, <2>3, <2>4, <3>1, <3>3 DEF Fine
      <3>q. QED
        BY <3>2, <3>3
    <2>q. QED
      BY <1>2, <2>2, <2>3, <2>4, <2>5, BusyFirst
  <1>4. CASE Claim(n)
    <2>1. Acquired(n, probed[n]) /\ faults' = faults /\ faults \in Nat
      BY <1>1, <1>4 DEF Claim, TypeOK
    <2>2. /\ id'[n] = probed[n] /\ probed'[n] = 0
          /\ tries'[n] = IF tries[n] = 1 /\ probed[n] \in {1, NotAssigned} THEN 2 ELSE 0
          /\ \A m \in Node \ {n} : /\ id'[m] = id[m] /\ tries'[m] = tries[m]
                                   /\ probed'[m] = probed[m]
          /\ UNCHANGED <<mpc, list, ii, net>>
      BY <1>1, <2>1, AcquiredIs
    <2>3. probed[n] # NotAssigned
      BY <1>1, <1>4, IdIsAssigned DEF Claim, TypeOK
    <2>4. mpc # "start" /\ Fine(n) => Fine(n)'
      <3>1. HAVE mpc # "start" /\ Fine(n)
      <3>2. CASE probed[n] = 1
        BY <2>1, <2>2, <3>1, <3>2 DEF Fine
      <3>3. CASE probed[n] # 1
        BY <2>1, <2>2, <2>3, <3>3 DEF Fine
      <3>q. QED
        BY <3>2, <3>3
    <2>q. QED
      BY <1>2, <2>1, <2>2, <2>4, BusyFirst
  <1>5. CASE AcquireFails(n)
    <2>1. Acquired(n, id[n])
      BY <1>5 DEF AcquireFails
    <2>2. faults \in Nat /\ faults' \in Nat /\ faults = 0 /\ faults' = 1 /\ faults <= faults'
      BY <1>1, <1>5, FaultOnce DEF AcquireFails
    <2>3. /\ id'[n] = id[n] /\ probed'[n] = 0
          /\ \A m \in Node \ {n} : /\ id'[m] = id[m] /\ tries'[m] = tries[m]
                                   /\ probed'[m] = probed[m]
          /\ UNCHANGED <<mpc, list, ii, net>>
      BY <1>1, <2>1, AcquiredIs
    <2>4. Fine(n) => Fine(n)'
      BY <2>2, <2>3 DEF Fine
    <2>q. QED
      BY <1>2, <2>2, <2>3, <2>4, BusyFirst
  <1>q. QED
    BY <1>3, <1>4, <1>5

\* A reset of the master ends its mastership; that of another makes it acquire an id.
LEMMA ResetFirst ==
    ASSUME FirstInv, faults' <= 1, NEW n \in Node, Reset(n)
    PROVE  ProbesBusy' /\ SetsToOne' /\ MasterOfIds' /\ (mpc' # "start" => SlavesFine' \/ Slipped')
  <1>1. faults = 0 /\ faults' = 1
    BY FaultOnce DEF FirstInv, Reset
  <1>2. /\ id'[n] = NotAssigned /\ tries'[n] = 2 /\ probed'[n] = 0 /\ net' \subseteq net
        /\ \A m \in Node \ {n} : /\ id'[m] = id[m] /\ tries'[m] = tries[m]
                                 /\ probed'[m] = probed[m]
    BY DEF FirstInv, TypeOK, Reset
  <1>3. /\ n = 1 => mpc' = "start"
        /\ n # 1 => mpc' = mpc
    BY DEF Reset
  <1>4. ProbesBusy' /\ SetsToOne' /\ MasterOfIds'
    BY <1>2, <1>3, NodeOne DEF FirstInv, ProbesBusy, SetsToOne, MasterOfIds
  <1>5. CASE mpc' # "start"
    <2>1. SlavesFine
      BY <1>1, <1>3, <1>5 DEF FirstInv, Slipped
    <2>2. ASSUME NEW m \in Slave PROVE Fine(m)'
      <3>1. Fine(m) /\ m \in Node
        BY <2>1, NodeOne DEF SlavesFine
      <3>2. CASE m = n
        BY <1>1, <1>2, <3>2, NodeOne DEF Fine
      <3>3. CASE m # n
        <4>1. id'[m] = id[m] /\ tries'[m] = tries[m] /\ probed'[m] = probed[m]
          BY <1>2, <3>1, <3>3
        <4>q. QED
          BY <1>1, <3>1, <4>1 DEF Fine
      <3>q. QED
        BY <3>2, <3>3
    <2>q. QED
      BY <1>4, <2>2 DEF SlavesFine
  <1>q. QED
    BY <1>4, <1>5

LEMMA FirstStep ==
    ASSUME FirstInv, [Next]_vars, faults' <= 1, N >= 3, ListLen >= 2
    PROVE  FirstInv'
  <1>1. TypeOK'
    BY Step DEF FirstInv
  <1>2. CASE \E hearers \in SUBSET Slave : KeyA(hearers) \/ KeyM(hearers)
    BY <1>1, <1>2, KeyFirst DEF FirstInv
  <1>3. CASE \E hearers \in SUBSET Slave : Ask(hearers)
    BY <1>1, <1>3, AskFirst DEF FirstInv
  <1>4. CASE \E p \in net : TakeInfo(p)
    BY <1>1, <1>4, InfoFirst DEF FirstInv
  <1>5. CASE \E p \in net : TakeSet(p)
    BY <1>1, <1>5, SetFirst DEF FirstInv
  <1>6. CASE Sort \/ SetNext
    BY <1>1, <1>6, ListFirst DEF FirstInv
  <1>7. CASE \E n \in Node : Probe(n) \/ Claim(n) \/ AcquireFails(n)
    BY <1>1, <1>7, AcquireFirst DEF FirstInv
  <1>8. CASE \E n \in Node : Reset(n)
    BY <1>1, <1>8, ResetFirst DEF FirstInv
  <1>9. CASE UNCHANGED vars
    BY <1>1, <1>9
       DEF vars, FirstInv, ProbesBusy, SetsToOne, MasterOfIds, SlavesFine, Fine, Slipped,
           SlavesIdle, ManyReplies, ToldOne
  <1>q. QED
    BY <1>2, <1>3, <1>4, <1>5, <1>6, <1>7, <1>8, <1>9 DEF Next

\* Nobody but the master answers to id 1 once it has handed out the ids, wherever one
\* fault strikes and however often the keys are typed (comm.cpp:371-376, 416-426).
THEOREM FirstIsMaster ==
    ASSUME N >= 3, ListLen >= 2
    PROVE  Spec => []OneFirst
  <1> DEFINE I == TypeOK /\ (faults <= 1 => FirstInv)
  <1>1. Init => FirstInv
    <2>1. SUFFICES ASSUME Init PROVE FirstInv
      OBVIOUS
    <2>q. QED
      BY <2>1, Initially DEF Init, FirstInv, ProbesBusy, SetsToOne, MasterOfIds
  <1>2. I /\ [Next]_vars => I'
    <2>1. SUFFICES ASSUME I, [Next]_vars PROVE I'
      OBVIOUS
    <2>2. TypeOK' /\ faults <= faults' /\ faults \in Nat /\ faults' \in Nat
      BY <2>1, Step, BoundAssumption DEF TypeOK
    <2>3. ASSUME faults' <= 1 PROVE FirstInv'
      <3>1. FirstInv
        BY <2>1, <2>2, <2>3
      <3>q. QED
        BY <2>1, <2>3, <3>1, FirstStep
    <2>q. QED
      BY <2>2, <2>3
  <1>3. I => OneFirst
    <2>1. SUFFICES ASSUME FirstInv, mpc = "done", Settled
                   PROVE  id[1] = 1 /\ \A n \in Slave : id[n] # 1
      BY DEF OneFirst
    <2>2. ~Slipped
      BY <2>1 DEF Slipped, ToldOne, Settled
    <2>3. SlavesFine
      BY <2>1, <2>2 DEF FirstInv
    <2>q. QED
      BY <2>1, <2>3, NodeOne DEF SlavesFine, Fine, Settled, FirstInv, MasterOfIds
  <1>4. Init => I
    BY <1>1 DEF FirstInv
  <1> HIDE DEF I
  <1>q. QED
    BY <1>2, <1>3, <1>4, PTL DEF Spec
=============================================================================
