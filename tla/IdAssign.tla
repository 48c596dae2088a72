------------------------------ MODULE IdAssign ------------------------------
(***************************************************************************)
(* How the microcontrollers get their bus ids (firmware/dampercontrol/src/ *)
(* comm.cpp): the keys A and m of one serial console, the broadcasts they  *)
(* send, the acquisition of an id by the others and the list from which    *)
(* the new master hands out ids.                                           *)
(*                                                                         *)
(* A broadcast is not acknowledged: who is busy acquiring an id does not   *)
(* hear it, others may miss it.  A microcontroller that misses one, a probe*)
(* whose answer is missed, an acquisition that finds no id, a doubled reply*)
(* and a reset each cost one of MaxFaults.  External: acquire_id of the    *)
(* PJON library, which probes an id and takes it when nobody answers, or   *)
(* finds none: always so with the installed version, says comm.cpp:365.    *)
(***************************************************************************)
EXTENDS Naturals, Sequences, FiniteSets, Functions

CONSTANTS
    N,          \* microcontrollers; number 1 has the console
    MaxId,      \* bound on the ids
    ListLen,    \* PJON_ID_LIST_LEN
    MaxKeys,    \* bound on keys typed
    MaxFaults   \* bound on faults

Node  == 1..N
Slave == Node \ {1}
Id    == 1..MaxId
NotAssigned == MaxId + 1   \* NOT_ASSIGNED, 255

ASSUME NodeAssumption  == N \in Nat \ {0} /\ MaxId \in Nat /\ N <= MaxId
ASSUME BoundAssumption == {ListLen, MaxKeys, MaxFaults} \subseteq Nat
ASSUME ListAssumption  == ListLen <= MaxId

VARIABLES
    id,      \* the id of each on the bus
    tries,   \* the acquire_id each is in: 1 for one that may be repeated, 0 for none
    probed,  \* the id whose probe nobody answered, 0 for none
    mpc,     \* where pjon_become_master_of_ids is
    list,    \* pjon_id_list_, up to pjon_id_list_idx_
    ii,      \* the index of its for loop
    net,     \* packets to one id under way
    keys, faults

vars == <<id, tries, probed, mpc, list, ii, net, keys, faults>>

Info == [type: {"INFO"}, from: Slave, to: {1}]
Set  == [type: {"SET"}, to: Id, val: Id]

Fault(cost) == faults + cost <= MaxFaults /\ faults' = faults + cost

-----------------------------------------------------------------------------
(* The console.                                                            *)

\* A broadcast is heard by these.
Broadcast(hearers) ==
    /\ hearers \subseteq {n \in Slave : tries[n] = 0}
    /\ Fault(Cardinality(Slave \ hearers))

\* pjon_startautoiddiscover starts with no id.
DoAuto(hearers) ==
    /\ Broadcast(hearers)
    /\ tries' = [n \in Node |-> IF n \in hearers THEN 1 ELSE tries[n]]
    /\ id' = [n \in Node |-> IF n \in hearers THEN NotAssigned
                             ELSE IF n = 1 /\ mpc' = "auto" THEN 1 ELSE id[n]]
    /\ UNCHANGED <<probed, list, ii, net>>

Key == /\ mpc \in {"start", "done"} /\ tries[1] = 0
       /\ keys < MaxKeys /\ keys' = keys + 1

\* Key A: pjon_broadcast_get_autoid.
KeyA(hearers) == Key /\ UNCHANGED mpc /\ DoAuto(hearers)

\* Key m: pjon_become_master_of_ids takes id 1 and has all others acquire one.
KeyM(hearers) == Key /\ mpc' = "auto" /\ DoAuto(hearers)

\* The first wait ends, whether the others are ready or not; every hearer of the
\* question replies to id 1 (pjon_identify_myself).
Ask(hearers) ==
    /\ mpc = "auto"
    /\ mpc' = "ask"
    /\ Broadcast(hearers)
    /\ list' = <<>>
    /\ net' = net \union {[type |-> "INFO", from |-> n, to |-> 1] : n \in hearers}
    /\ UNCHANGED <<id, tries, probed, ii, keys>>

\* Mutant: the list runs over its end.
ListedAlways(l, to) == Append(l, to)

\* pjoinidlist_add.
Listed(l, to) == IF Len(l) < ListLen THEN Append(l, to) ELSE l

\* MSG_PJONID_INFO: what is noted is the id the reply was sent to.
TakeInfo(p) ==
    /\ p \in net \intersect Info
    /\ id[1] = p.to
    /\ list' = Listed(list, p.to)
    /\ \/ net' = net \ {p} /\ UNCHANGED faults
       \/ Fault(1) /\ UNCHANGED net
    /\ UNCHANGED <<id, tries, probed, mpc, ii, keys>>

\* The second wait ends when all replies are in, pjoinidlist_sort.
Sort ==
    /\ mpc = "ask"
    /\ net \intersect Info = {}
    /\ \E p \in Bijection(DOMAIN list, DOMAIN list) :
          list' = [i \in DOMAIN list |-> list[p[i]]]
    /\ \A i, j \in DOMAIN list : i < j => list'[i] <= list'[j]
    /\ ii' = 0
    /\ mpc' = "set"
    /\ UNCHANGED <<id, tries, probed, net, keys, faults>>

\* Mutant: nobody is told.
NotToldAny(i) == {}

\* MSG_PJONID_SET for the id at index i of the list, unless it is in order.
Told(i) == {[type |-> "SET", to |-> x, val |-> i + 1] : x \in {list[i + 1]} \ {i + 1}}

SetNext ==
    /\ mpc = "set"
    /\ IF ii < Len(list) THEN net' = net \union Told(ii) /\ ii' = ii + 1 /\ UNCHANGED mpc
                         ELSE mpc' = "done" /\ UNCHANGED <<net, ii>>
    /\ UNCHANGED <<id, tries, probed, list, keys, faults>>

-----------------------------------------------------------------------------
(* The others.                                                             *)

Holders(x) == {n \in Node : id[n] = x}

\* MSG_PJONID_SET reaches whoever listens to that id, its sender excepted.
TakeSet(p) ==
    LET to == {n \in Slave \intersect Holders(p.to) : tries[n] = 0} IN
    /\ p \in net \intersect Set
    /\ id' = [n \in Node |-> IF n \in to THEN p.val ELSE id[n]]
    /\ net' = net \ {p}
    /\ UNCHANGED <<tries, probed, mpc, list, ii, keys, faults>>

\* acquire_id: an id is probed and not answered for.
Probe(n) ==
    /\ tries[n] > 0
    /\ probed[n] = 0
    /\ \E x \in Id :
          /\ probed' = [probed EXCEPT ![n] = x]
          /\ Fault(IF Holders(x) \subseteq {n} THEN 0 ELSE 1)
    /\ UNCHANGED <<id, tries, mpc, list, ii, net, keys>>

\* Mutant: an acquisition that found no id is not repeated.
RetryForOne(x) == x = 1

\* pjon_startautoiddiscover tries once more.
Retry(x) == x \in {1, NotAssigned}

Acquired(n, x) ==
    /\ id' = [id EXCEPT ![n] = x]
    /\ tries' = [tries EXCEPT ![n] = IF @ = 1 /\ Retry(x) THEN 2 ELSE 0]
    /\ probed' = [probed EXCEPT ![n] = 0]
    /\ UNCHANGED <<mpc, list, ii, net, keys>>

\* The probed id is taken, though others may have probed it meanwhile.
Claim(n) == probed[n] # 0 /\ Acquired(n, probed[n]) /\ UNCHANGED faults

\* acquire_id gives up; the id stays what it was.
AcquireFails(n) == tries[n] > 0 /\ probed[n] = 0 /\ Fault(1) /\ Acquired(n, id[n])

\* A reset: pjon_init acquires an id, once.  What was to be sent is lost, and what
\* pjon_become_master_of_ids was doing.
Reset(n) ==
    /\ Fault(1)
    /\ id' = [id EXCEPT ![n] = NotAssigned]
    /\ tries' = [tries EXCEPT ![n] = 2]
    /\ probed' = [probed EXCEPT ![n] = 0]
    /\ IF n = 1 THEN mpc' = "start" /\ list' = <<>> /\ ii' = 0 /\ net' = net \ Set
                ELSE net' = net \ {p \in Info : p.from = n} /\ UNCHANGED <<mpc, list, ii>>
    /\ UNCHANGED keys

-----------------------------------------------------------------------------
\* Ids of earlier times.
Init ==
    /\ id \in [Node -> Id]
    /\ tries = [n \in Node |-> 0]
    /\ probed = [n \in Node |-> 0]
    /\ mpc = "start"
    /\ list = <<>>
    /\ ii = 0
    /\ net = {}
    /\ keys = 0
    /\ faults = 0

Next ==
    \/ \E hearers \in SUBSET Slave : KeyA(hearers) \/ KeyM(hearers) \/ Ask(hearers)
    \/ Sort \/ SetNext
    \/ \E p \in net : TakeInfo(p) \/ TakeSet(p)
    \/ \E n \in Node : Probe(n) \/ Claim(n) \/ AcquireFails(n) \/ Reset(n)

Spec == Init /\ [][Next]_vars

-----------------------------------------------------------------------------
(* Properties.                                                             *)

\* Every variable keeps to its type, the list to its length.
TypeOK ==
    /\ id \in [Node -> Id \union {NotAssigned}]
    /\ tries \in [Node -> 0..2] /\ probed \in [Node -> {0} \union Id]
    /\ mpc \in {"start", "auto", "ask", "set", "done"}
    /\ list \in Seq({1}) /\ Len(list) <= ListLen /\ ii \in 0..ListLen
    /\ net \subseteq Info \union Set
    /\ keys \in 0..MaxKeys /\ faults \in 0..MaxFaults

\* Nobody is busy and nothing is under way.
Settled == net = {} /\ \A n \in Node : tries[n] = 0

\* Once a console has become master of the ids, one fault leaves no one else that answers
\* to id 1, where every command starts, though it may have let one of the others keep that
\* id through a broadcast it missed or acquire it twice over (comm.cpp:371-376, 416-426).
OneFirst ==
    mpc = "done" /\ Settled /\ faults <= 1 => id[1] = 1 /\ \A n \in Slave : id[n] # 1

\* Those a discovery leaves without an id, and those it may: they are at the last attempt.
Lost    == {n \in Node : id[n] = NotAssigned /\ tries[n] = 0}
LastTry == {n \in Node : id[n] = NotAssigned /\ tries[n] = 2}

\* A discovery may leave one without an id, for it ends with the second attempt (the
\* comment of comm.cpp:364 has it go on).  Every loss takes two faults of its own: one
\* gets there only with both attempts failed, or with the one that follows a reset, and
\* never through what befell another (comm.cpp:366-379).
LossTakesTwo == 2 * Cardinality(Lost) + Cardinality(LastTry) <= faults
=============================================================================
