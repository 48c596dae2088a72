--------------------------- MODULE InterfaceProofs ---------------------------
(***************************************************************************)
(* Proofs about Interface: its type invariant, and how large a burst it    *)
(* takes to make the hub and a goroutine wait for one another, for every   *)
(* number of clients, vents, locks and requests and every capacity.        *)
(*                                                                         *)
(* The argument counts.  A value that came in is pending for the arbiter   *)
(* or the marshaller, or the arbiter makes it into a state; that state is  *)
(* pending for the sender and, independently, for the marshaller and then  *)
(* for each client.  So along each of these ways there are never more      *)
(* values than came in since all was last at rest.                         *)
(***************************************************************************)
EXTENDS Interface, TLAPS

Of(b) == IF b THEN 1 ELSE 0

\* What a subscription holds, and what the hub still has to hand to it.
Pending(ch) == Len(chan[ch]) + Of(ch \in hub.todo)

\* What has come in and has not been made into a state yet.
Waiting == Pending("init") + Pending("newreq") + Of(arbiter \in {"pub", "grant"})

\* The states on their way to the clients.
Onward == Pending("update") + Of(marshaller = "pub")

\* Along each way there is no more than has come in.
Counted ==
    burst < Cap + 2 =>
        /\ Waiting + Pending("newstate") <= burst
        /\ Waiting + Onward <= burst
        /\ \A c \in Client : Waiting + Onward + Pending(c) <= burst

Inv == TypeOK /\ Counted

-----------------------------------------------------------------------------
(* The subscriptions keep to their types.                                  *)

LEMMA Topics ==
    /\ Topic("newreq") = "damperrequest"
    /\ Topic("newstate") = "damperschanged"
    /\ Topic("update") = "damperschanged"
    /\ Topic("init") = "initialbytes"
    /\ \A c \in Client : Topic(c) = "jsontoall"
  BY ClientAssumption DEF Topic

LEMMA Carried ==
    /\ Carries("newreq") = VentRequest \union LockRequest
    /\ Carries("newstate") = State
    /\ Carries("update") = State
    /\ Carries("init") = Client
    /\ \A c \in Client : Carries(c) = State
  BY ClientAssumption DEF Carries

LEMMA Chans ==
    /\ {"newreq", "newstate", "update", "init"} \subseteq Chan
    /\ Client \subseteq Chan
    /\ \A c \in Client : c \notin {"newreq", "newstate", "update", "init"}
  BY ClientAssumption DEF Chan

LEMMA Taken ==
    ASSUME NEW S, NEW s \in Seq(S), s # <<>>
    PROVE  Head(s) \in S /\ Tail(s) \in Seq(S) /\ Len(Tail(s)) = Len(s) - 1 /\ Len(s) > 0
  OBVIOUS

LEMMA Added ==
    ASSUME NEW S, NEW s \in Seq(S), NEW x \in S
    PROVE  Append(s, x) \in Seq(S) /\ Len(Append(s, x)) = Len(s) + 1
  OBVIOUS

LEMMA ReceiveKeepsChan ==
    ASSUME ChanOK, NEW ch \in Chan, Receive(ch), UNCHANGED <<hub, subs>> PROVE ChanOK'
  <1>1. /\ Tail(chan[ch]) \in Seq(Carries(ch)) /\ Len(Tail(chan[ch])) = Len(chan[ch]) - 1
        /\ Len(chan[ch]) \in Nat
    BY Taken DEF ChanOK, Receive
  <1>2. chan' = [chan EXCEPT ![ch] = Tail(chan[ch])]
    BY DEF Receive
  <1>3. /\ chan' = [d \in Chan |-> chan'[d]]
        /\ \A d \in Chan : chan'[d] = IF d = ch THEN Tail(chan[ch]) ELSE chan[d]
    BY <1>2 DEF ChanOK
  <1>4. \A d \in Chan : chan'[d] \in Seq(Carries(d)) /\ Len(chan'[d]) <= Cap
    BY <1>1, <1>3, CapAssumption DEF ChanOK
  <1>q. QED
    BY <1>3, <1>4 DEF ChanOK, Carries

LEMMA HandOutKeepsChan ==
    ASSUME ChanOK, HandOut PROVE ChanOK'
  <1>1. PICK ch \in hub.todo : /\ Room(ch)
                               /\ chan' = [chan EXCEPT ![ch] = Append(@, hub.value)]
                               /\ hub' = [hub EXCEPT !.todo = @ \ {ch}]
    BY DEF HandOut
  <1>2. subs' = subs /\ ch \in Chan /\ hub.value \in Carries(ch)
    BY DEF HandOut, ChanOK
  <1>3. /\ Append(chan[ch], hub.value) \in Seq(Carries(ch))
        /\ Len(Append(chan[ch], hub.value)) = Len(chan[ch]) + 1
        /\ Len(chan[ch]) \in Nat /\ Len(chan[ch]) < Cap
    BY <1>1, <1>2, Added DEF ChanOK, Room
  <1>4. /\ chan' = [d \in Chan |-> chan'[d]]
        /\ \A d \in Chan :
              chan'[d] = IF d = ch THEN Append(chan[ch], hub.value) ELSE chan[d]
    BY <1>1 DEF ChanOK
  <1>5. ASSUME NEW d \in Chan PROVE chan'[d] \in Seq(Carries(d)) /\ Len(chan'[d]) <= Cap
    <2>1. CASE d = ch
      <3>1. chan'[d] = Append(chan[ch], hub.value)
        BY <1>4, <2>1
      <3>2. Len(chan[ch]) + 1 <= Cap
        BY <1>3, CapAssumption
      <3>q. QED
        BY <1>3, <2>1, <3>1, <3>2
    <2>2. CASE d # ch
      BY <1>4, <2>2 DEF ChanOK
    <2>q. QED
      BY <2>1, <2>2
  <1>6. hub' = [value |-> hub.value, todo |-> hub.todo \ {ch}]
    BY <1>1 DEF ChanOK
  <1>7. /\ hub' = [value |-> hub'.value, todo |-> hub'.todo] /\ hub'.todo \subseteq subs'
        /\ subs' \subseteq Chan
        /\ \A d \in hub'.todo : hub'.value \in Carries(d)
    BY <1>2, <1>6 DEF ChanOK
  <1>q. QED
    BY <1>4, <1>5, <1>7 DEF ChanOK, Carries

LEMMA PubKeepsChan ==
    ASSUME ChanOK, NEW topic, NEW value, Pub(topic, value), UNCHANGED <<chan, subs>>,
           \A ch \in Chan : Topic(ch) = topic => value \in Carries(ch)
    PROVE  ChanOK'
  BY DEF ChanOK, Pub, Carries

LEMMA SubKeepsChan ==
    ASSUME ChanOK, NEW ch \in Chan, Sub(ch), UNCHANGED chan PROVE ChanOK'
  BY DEF ChanOK, Sub, Idle, Carries

LEMMA UnsubKeepsChan ==
    ASSUME ChanOK, NEW c \in Client, WriterUnsubscribes(c) PROVE ChanOK'
  <1>1. chan' = [chan EXCEPT ![c] = <<>>] /\ c \in Chan /\ <<>> \in Seq(Carries(c))
    BY Chans DEF WriterUnsubscribes
  <1>2. /\ chan' = [d \in Chan |-> chan'[d]]
        /\ \A d \in Chan : chan'[d] = IF d = c THEN <<>> ELSE chan[d]
    BY <1>1 DEF ChanOK
  <1>3. \A d \in Chan : chan'[d] \in Seq(Carries(d)) /\ Len(chan'[d]) <= Cap
    BY <1>1, <1>2, CapAssumption DEF ChanOK
  <1>4. hub' = hub /\ hub.todo = {} /\ subs' \subseteq Chan
    BY DEF WriterUnsubscribes, ChanOK, Idle
  <1>q. QED
    BY <1>2, <1>3, <1>4 DEF ChanOK, Carries

LEMMA Subscribers ==
    ASSUME NEW ch \in Chan
    PROVE  /\ Topic(ch) = "damperrequest" => ch = "newreq"
           /\ Topic(ch) = "damperschanged" => ch \in {"newstate", "update"}
           /\ Topic(ch) = "initialbytes" => ch = "init"
           /\ Topic(ch) = "jsontoall" => ch \in Client
  BY Topics DEF Chan

-----------------------------------------------------------------------------
(* How the steps change what is pending.                                   *)

LEMMA PendingNat == ASSUME ChanOK PROVE \A ch \in Chan : Pending(ch) \in Nat
  BY DEF ChanOK, Pending, Of

LEMMA SamePending ==
    ASSUME UNCHANGED <<chan, hub>> PROVE \A ch \in Chan : Pending(ch)' = Pending(ch)
  BY DEF Pending, Of

\* To hand a value out leaves it pending.
LEMMA HandOutPending ==
    ASSUME ChanOK, HandOut PROVE \A ch \in Chan : Pending(ch)' = Pending(ch)
  <1>1. PICK ch \in hub.todo : /\ chan' = [chan EXCEPT ![ch] = Append(@, hub.value)]
                               /\ hub' = [hub EXCEPT !.todo = @ \ {ch}]
    BY DEF HandOut
  <1>2. ch \in Chan /\ Len(Append(chan[ch], hub.value)) = Len(chan[ch]) + 1
        /\ Len(chan[ch]) \in Nat
    BY Added DEF ChanOK
  <1>3. hub'.todo = hub.todo \ {ch}
    BY <1>1 DEF ChanOK
  <1>4. ASSUME NEW d \in Chan PROVE Pending(d)' = Pending(d)
    <2>1. CASE d = ch
      BY <1>1, <1>2, <1>3, <2>1 DEF Pending, Of, ChanOK
    <2>2. CASE d # ch
      BY <1>1, <1>3, <2>2 DEF Pending, Of, ChanOK
    <2>q. QED
      BY <2>1, <2>2
  <1>q. QED
    BY <1>4

LEMMA ReceivePending ==
    ASSUME ChanOK, NEW ch \in Chan, Receive(ch), UNCHANGED hub
    PROVE  /\ Pending(ch)' = Pending(ch) - 1
           /\ \A d \in Chan \ {ch} : Pending(d)' = Pending(d)
  <1>1. chan' = [chan EXCEPT ![ch] = Tail(chan[ch])] /\ chan[ch] # <<>>
    BY DEF Receive
  <1>2. Len(Tail(chan[ch])) = Len(chan[ch]) - 1 /\ Len(chan[ch]) \in Nat
    BY <1>1, Taken DEF ChanOK
  <1>q. QED
    BY <1>1, <1>2 DEF Pending, Of, ChanOK

\* A publication makes one value more pending for its topic.
LEMMA PubPending ==
    ASSUME ChanOK, NEW topic, NEW value, Pub(topic, value), UNCHANGED chan, NEW ch \in Chan
    PROVE  IF Topic(ch) = topic THEN Pending(ch)' <= Pending(ch) + 1
                                ELSE Pending(ch)' = Pending(ch)
  <1>1. hub.todo = {} /\ hub'.todo = {d \in subs : Topic(d) = topic}
    BY DEF Pub, Idle
  <1>2. Len(chan[ch]) \in Nat
    BY DEF ChanOK
  <1>3. Pending(ch) = Len(chan[ch])
    BY <1>1, <1>2 DEF Pending, Of
  <1>4. Pending(ch)' = Len(chan[ch]) + Of(ch \in hub'.todo)
    BY DEF Pending, Of
  <1>5. CASE Topic(ch) = topic
    <2>1. Of(ch \in hub'.todo) \in {0, 1}
      BY DEF Of
    <2>q. QED
      BY <1>2, <1>3, <1>4, <1>5, <2>1
  <1>6. CASE Topic(ch) # topic
    <2>1. Of(ch \in hub'.todo) = 0
      BY <1>1, <1>6 DEF Of
    <2>q. QED
      BY <1>2, <1>3, <1>4, <1>6, <2>1
  <1>q. QED
    BY <1>5, <1>6

LEMMA UnsubPending ==
    ASSUME ChanOK, NEW c \in Client, WriterUnsubscribes(c)
    PROVE  \A ch \in Chan : /\ Pending(ch)' <= Pending(ch)
                            /\ ch # c => Pending(ch)' = Pending(ch)
  <1>1. chan' = [chan EXCEPT ![c] = <<>>] /\ hub' = hub /\ c \in Chan
    BY DEF WriterUnsubscribes, Chan
  <1>2. ASSUME NEW ch \in Chan, ch # c PROVE Pending(ch)' = Pending(ch)
    BY <1>1, <1>2 DEF Pending, Of, ChanOK
  <1>3. chan'[c] = <<>> /\ Pending(c)' = 0 + Of(c \in hub.todo)
    BY <1>1 DEF Pending, Of, ChanOK
  <1>4. Pending(c) = Len(chan[c]) + Of(c \in hub.todo) /\ Len(chan[c]) \in Nat
    BY <1>1 DEF Pending, ChanOK
  <1>5. Pending(c)' <= Pending(c)
    <2>1. Of(c \in hub.todo) \in Nat
      BY DEF Of
    <2>q. QED
      BY <1>3, <1>4, <2>1
  <1>6. ASSUME NEW ch \in Chan
        PROVE  Pending(ch)' <= Pending(ch) /\ (ch # c => Pending(ch)' = Pending(ch))
    <2>1. CASE ch = c
      BY <1>5, <2>1
    <2>2. CASE ch # c
      BY <1>2, <2>2, PendingNat
    <2>q. QED
      BY <2>1, <2>2
  <1>q. QED
    BY <1>6

\* Publications change what is pending for the subscriptions of their topic only.
LEMMA PubChanges ==
    ASSUME ChanOK, NEW topic, NEW value, Pub(topic, value), UNCHANGED chan
    PROVE  /\ IF topic = "damperrequest" THEN Pending("newreq")' <= Pending("newreq") + 1
              ELSE Pending("newreq")' = Pending("newreq")
           /\ \A ch \in {"newstate", "update"} :
                 IF topic = "damperschanged" THEN Pending(ch)' <= Pending(ch) + 1
                 ELSE Pending(ch)' = Pending(ch)
           /\ IF topic = "initialbytes" THEN Pending("init")' <= Pending("init") + 1
              ELSE Pending("init")' = Pending("init")
           /\ \A c \in Client :
                 IF topic = "jsontoall" THEN Pending(c)' <= Pending(c) + 1
                 ELSE Pending(c)' = Pending(c)
  <1>1. /\ IF topic = "damperrequest" THEN Pending("newreq")' <= Pending("newreq") + 1
           ELSE Pending("newreq")' = Pending("newreq")
        /\ IF topic = "initialbytes" THEN Pending("init")' <= Pending("init") + 1
           ELSE Pending("init")' = Pending("init")
    BY Chans, PubPending, Topics
  <1>2. ASSUME NEW ch \in {"newstate", "update"}
        PROVE  IF topic = "damperschanged" THEN Pending(ch)' <= Pending(ch) + 1
               ELSE Pending(ch)' = Pending(ch)
    <2>1. ch \in Chan /\ Topic(ch) = "damperschanged"
      BY Chans, Topics
    <2>q. QED
      BY <2>1, PubPending
  <1>3. ASSUME NEW c \in Client
        PROVE  IF topic = "jsontoall" THEN Pending(c)' <= Pending(c) + 1
               ELSE Pending(c)' = Pending(c)
    <2>1. c \in Chan /\ Topic(c) = "jsontoall"
      BY Chans, Topics
    <2>q. QED
      BY <2>1, PubPending
  <1>q. QED
    BY <1>1, <1>2, <1>3

LEMMA PendingTypes ==
    ASSUME ChanOK
    PROVE  /\ Pending("newreq") \in Nat /\ Pending("newstate") \in Nat
           /\ Pending("update") \in Nat /\ Pending("init") \in Nat
           /\ \A c \in Client : Pending(c) \in Nat
  BY PendingNat, Chans

LEMMA PendingTypesNext ==
    ASSUME ChanOK'
    PROVE  /\ Pending("newreq")' \in Nat /\ Pending("newstate")' \in Nat
           /\ Pending("update")' \in Nat /\ Pending("init")' \in Nat
           /\ \A c \in Client : Pending(c)' \in Nat
  <1>1. \A ch \in Chan : Pending(ch)' \in Nat
    BY DEF ChanOK, Pending, Of
  <1>q. QED
    BY <1>1, Chans

LEMMA MovedOn ==
    ASSUME NEW m \in Nat, NEW m1 \in Nat, NEW n \in Nat, NEW n1 \in Nat,
           m1 = m - 1, n1 <= n + 1
    PROVE  m1 + n1 <= m + n
  OBVIOUS

-----------------------------------------------------------------------------
(* How the steps change the counts.                                        *)

LEMMA CountTypes ==
    ASSUME ChanOK, ChanOK'
    PROVE  Waiting \in Nat /\ Waiting' \in Nat /\ Onward \in Nat /\ Onward' \in Nat
  <1>1. /\ Of(arbiter \in {"pub", "grant"}) \in Nat /\ Of(arbiter' \in {"pub", "grant"}) \in Nat
        /\ Of(marshaller = "pub") \in Nat /\ Of(marshaller' = "pub") \in Nat
    BY DEF Of
  <1>q. QED
    BY <1>1, PendingTypes, PendingTypesNext DEF Waiting, Onward

\* A step on which nothing comes in keeps them when no way gets longer by it.
LEMMA QuietKeepsCount ==
    ASSUME Inv, ChanOK', UNCHANGED burst,
           Waiting' + Pending("newstate")' <= Waiting + Pending("newstate"),
           Waiting' + Onward' <= Waiting + Onward,
           \A c \in Client : Waiting' + Onward' + Pending(c)' <= Waiting + Onward + Pending(c)
    PROVE  Counted'
  <1>1. ChanOK /\ burst \in Nat /\ Cap \in Nat
    BY CapAssumption DEF Inv, TypeOK, LocalOK
  <1>2. SUFFICES ASSUME burst < Cap + 2
                 PROVE  /\ Waiting' + Pending("newstate")' <= burst
                        /\ Waiting' + Onward' <= burst
                        /\ \A c \in Client : Waiting' + Onward' + Pending(c)' <= burst
    BY DEF Counted
  <1>3. /\ Waiting' + Pending("newstate")' <= burst /\ Waiting' + Onward' <= burst
    BY <1>1, <1>2, CountTypes, PendingTypes, PendingTypesNext DEF Inv, Counted
  <1>4. ASSUME NEW c \in Client PROVE Waiting' + Onward' + Pending(c)' <= burst
    <2>1. Pending(c) \in Nat /\ Pending(c)' \in Nat
      BY <1>1, PendingTypes, PendingTypesNext
    <2>2. Waiting' + Onward' + Pending(c)' <= Waiting + Onward + Pending(c)
          /\ Waiting + Onward + Pending(c) <= burst
      BY <1>2 DEF Inv, Counted
    <2>q. QED
      BY <1>1, <2>1, <2>2, CountTypes
  <1>q. QED
    BY <1>3, <1>4

\* The same, from what is pending and where the arbiter and the marshaller are.
LEMMA SameKeepsCount ==
    ASSUME Inv, ChanOK', UNCHANGED burst,
           Pending("newreq")' = Pending("newreq"), Pending("init")' = Pending("init"),
           Pending("update")' = Pending("update"),
           Pending("newstate")' <= Pending("newstate"),
           \A c \in Client : Pending(c)' <= Pending(c),
           (arbiter' \in {"pub", "grant"}) <=> (arbiter \in {"pub", "grant"}),
           marshaller' = "pub" <=> marshaller = "pub"
    PROVE  Counted'
  <1>1. Waiting' = Waiting /\ Onward' = Onward
    BY DEF Waiting, Onward, Of
  <1>2. ChanOK
    BY DEF Inv, TypeOK
  <1>3. /\ Waiting' + Pending("newstate")' <= Waiting + Pending("newstate")
        /\ Waiting' + Onward' <= Waiting + Onward
    BY <1>1, <1>2, CountTypes, PendingTypes, PendingTypesNext
  <1>4. ASSUME NEW c \in Client
        PROVE  Waiting' + Onward' + Pending(c)' <= Waiting + Onward + Pending(c)
    BY <1>1, <1>2, CountTypes, PendingTypes, PendingTypesNext
  <1>q. QED
    BY <1>3, <1>4, QuietKeepsCount

\* At rest nothing is on any way.
LEMMA RestCounts ==
    ASSUME Inv, AtRest
    PROVE  Waiting = 0 /\ Onward = 0 /\ Pending("newstate") = 0
           /\ \A c \in Client : Pending(c) = 0
  <1>1. \A ch \in Chan : Pending(ch) = 0
    BY DEF AtRest, Idle, Pending, Of
  <1>q. QED
    BY <1>1, Chans DEF AtRest, Waiting, Onward, Of

\* A value that comes in makes each way longer by one at most.
LEMMA ComesInKeepsCount ==
    ASSUME Inv, ChanOK', ComesIn, Waiting' <= Waiting + 1, Onward' = Onward,
           Pending("newstate")' = Pending("newstate"),
           \A c \in Client : Pending(c)' = Pending(c)
    PROVE  Counted' /\ burst' \in 0..(Cap + 2)
  <1>1. ChanOK /\ burst \in Nat /\ burst <= Cap + 2 /\ Cap \in Nat \ {0}
    BY CapAssumption DEF Inv, TypeOK, LocalOK
  <1>2. burst' \in 0..(Cap + 2)
    BY <1>1 DEF ComesIn
  <1>3. ASSUME burst' < Cap + 2
        PROVE  /\ Waiting' + Pending("newstate")' <= burst'
               /\ Waiting' + Onward' <= burst'
               /\ \A c \in Client : Waiting' + Onward' + Pending(c)' <= burst'
    <2>1. CASE AtRest
      <3>1. burst' = 1
        BY <2>1 DEF ComesIn
      <3>q. QED
        BY <1>1, <2>1, <3>1, RestCounts, CountTypes
    <2>2. CASE ~AtRest
      <3>1. burst' = burst + 1 /\ burst < Cap + 2
        BY <1>1, <1>3, <2>2 DEF ComesIn
      <3>2. /\ Waiting' + Pending("newstate")' <= burst' /\ Waiting' + Onward' <= burst'
        BY <1>1, <3>1, CountTypes, PendingTypes DEF Inv, Counted
      <3>3. ASSUME NEW c \in Client PROVE Waiting' + Onward' + Pending(c)' <= burst'
        <4>1. Pending(c) \in Nat /\ Pending(c)' = Pending(c)
          BY <1>1, PendingTypes
        <4>2. Waiting + Onward + Pending(c) <= burst
          BY <3>1 DEF Inv, Counted
        <4>q. QED
          BY <1>1, <3>1, <4>1, <4>2, CountTypes
      <3>q. QED
        BY <3>2, <3>3
    <2>q. QED
      BY <2>1, <2>2
  <1>q. QED
    BY <1>2, <1>3 DEF Counted

-----------------------------------------------------------------------------
(* Every step keeps the invariant.                                         *)

LEMMA InitInv == Init => Inv
  <1> SUFFICES ASSUME Init PROVE Inv
    OBVIOUS
  <1>1. /\ chan = [ch \in Chan |-> <<>>] /\ subs = {}
        /\ hub = [value |-> None, todo |-> {}]
    BY DEF Init
  <1>2. ChanOK
    BY <1>1, CapAssumption DEF ChanOK
  <1>3. LocalOK
    <2>1. [vent |-> Start, locks |-> {}] \in State
      BY StateAssumption DEF State
    <2>2. writer \in [Client -> {"none", "subscribed", "select", "leaving", "gone"}]
          /\ initdata \in [Client -> SUBSET (State \union {None})]
      BY DEF Init
    <2>3. 0 \in 0..MaxReq /\ 0 \in 0..(Cap + 2)
      BY CapAssumption
    <2>q. QED
      BY <2>1, <2>2, <2>3 DEF Init, LocalOK
  <1>4. \A ch \in Chan : Pending(ch) = 0
    BY <1>1 DEF Pending, Of
  <1>5. Waiting = 0 /\ Onward = 0 /\ Pending("newstate") = 0 /\ burst = 0
        /\ \A c \in Client : Pending(c) = 0
    BY <1>4, Chans DEF Init, Waiting, Onward, Of
  <1>q. QED
    BY <1>2, <1>3, <1>5, CapAssumption DEF Inv, TypeOK, Counted

LEMMA RequestKeeps ==
    ASSUME Inv, NEW r \in VentRequest \union LockRequest, Request(r) PROVE Inv'
  <1> USE DEF arbVars, sendVars, marVars, webVars
  <1>1. /\ Pub("damperrequest", r) /\ ComesIn /\ UNCHANGED <<chan, subs>>
        /\ requests' = requests + 1 /\ requests < MaxReq
        /\ UNCHANGED <<arbVars, sendVars, marVars, webVars, initdata>>
    BY DEF Request
  <1>2. ASSUME NEW ch \in Chan, Topic(ch) = "damperrequest" PROVE r \in Carries(ch)
    BY <1>2, Subscribers, Carried
  <1>3. ChanOK'
    BY <1>1, <1>2, PubKeepsChan DEF Inv, TypeOK
  <1>4. /\ Pending("newreq")' <= Pending("newreq") + 1
        /\ Pending("newstate")' = Pending("newstate") /\ Pending("update")' = Pending("update")
        /\ Pending("init")' = Pending("init")
        /\ \A c \in Client : Pending(c)' = Pending(c)
    BY <1>1, PubChanges DEF Inv, TypeOK
  <1>5. Waiting' <= Waiting + 1 /\ Onward' = Onward
    <2>1. /\ Pending("newreq") \in Nat /\ Pending("newreq")' \in Nat
          /\ Pending("init") \in Nat
      BY <1>3, PendingTypes, PendingTypesNext DEF Inv, TypeOK
    <2>2. /\ Of(arbiter' \in {"pub", "grant"}) = Of(arbiter \in {"pub", "grant"})
          /\ Of(arbiter \in {"pub", "grant"}) \in Nat
          /\ Of(marshaller' = "pub") = Of(marshaller = "pub")
      BY <1>1 DEF Of
    <2>q. QED
      BY <1>4, <2>1, <2>2 DEF Waiting, Onward
  <1>6. Counted' /\ burst' \in 0..(Cap + 2)
    BY <1>1, <1>3, <1>4, <1>5, ComesInKeepsCount
  <1>7. LocalOK'
    BY <1>1, <1>6, CapAssumption DEF Inv, TypeOK, LocalOK
  <1>q. QED
    BY <1>3, <1>6, <1>7 DEF Inv, TypeOK

\* Steps that leave the subscriptions alone, or subscribe.
LEMMA OwnStepKeeps ==
    ASSUME Inv, UNCHANGED <<chan, burst>>,
           UNCHANGED <<hub, subs>> \/ \E ch \in Chan : Sub(ch),
           (arbiter' \in {"pub", "grant"}) <=> (arbiter \in {"pub", "grant"}),
           marshaller' = "pub" <=> marshaller = "pub", LocalOK'
    PROVE  Inv'
  <1>1. UNCHANGED hub
    BY DEF Sub
  <1>2. ChanOK'
    <2>1. CASE UNCHANGED subs
      BY <1>1, <2>1 DEF Inv, TypeOK, ChanOK, Carries
    <2>2. CASE \E ch \in Chan : Sub(ch)
      BY <2>2, SubKeepsChan DEF Inv, TypeOK
    <2>q. QED
      BY <2>1, <2>2
  <1>3. \A ch \in Chan : Pending(ch)' = Pending(ch) /\ Pending(ch) \in Nat
    BY <1>1, SamePending, PendingNat DEF Inv, TypeOK
  <1>4. /\ Pending("newreq")' = Pending("newreq") /\ Pending("init")' = Pending("init")
        /\ Pending("update")' = Pending("update")
        /\ Pending("newstate")' <= Pending("newstate")
        /\ \A c \in Client : Pending(c)' <= Pending(c)
    BY <1>3, Chans
  <1>5. Counted'
    BY <1>2, <1>4, SameKeepsCount
  <1>q. QED
    BY <1>2, <1>5 DEF Inv, TypeOK

LEMMA HandOutKeeps == ASSUME Inv, HandOut PROVE Inv'
  <1> USE DEF arbVars, sendVars, marVars, webVars
  <1>1. ChanOK'
    BY HandOutKeepsChan DEF Inv, TypeOK
  <1>2. UNCHANGED <<arbVars, sendVars, marVars, webVars, initdata, requests, burst>>
    BY DEF HandOut
  <1>3. LocalOK'
    BY <1>2 DEF Inv, TypeOK, LocalOK
  <1>4. \A ch \in Chan : Pending(ch)' = Pending(ch) /\ Pending(ch) \in Nat
    BY HandOutPending, PendingNat DEF Inv, TypeOK
  <1>5. /\ Pending("newreq")' = Pending("newreq") /\ Pending("init")' = Pending("init")
        /\ Pending("update")' = Pending("update")
        /\ Pending("newstate")' <= Pending("newstate")
        /\ \A c \in Client : Pending(c)' <= Pending(c)
    BY <1>4, Chans
  <1>6. Counted'
    BY <1>1, <1>2, <1>5, SameKeepsCount
  <1>q. QED
    BY <1>1, <1>3, <1>6 DEF Inv, TypeOK

LEMMA SubscriberKeeps ==
    ASSUME Inv, ArbiterSubscribes \/ TimerFires \/ SenderSubscribes \/ MarshallerSubscribes
    PROVE  Inv'
  <1> USE DEF arbVars, sendVars, marVars, webVars
  <1>1. CASE SenderSubscribes
    <2>1. LocalOK'
      BY <1>1 DEF SenderSubscribes, Inv, TypeOK, LocalOK
    <2>q. QED
      BY <1>1, <2>1, OwnStepKeeps DEF SenderSubscribes, Chan
  <1>2. CASE MarshallerSubscribes
    <2>1. LocalOK'
      BY <1>2 DEF MarshallerSubscribes, Inv, TypeOK, LocalOK
    <2>q. QED
      BY <1>2, <2>1, OwnStepKeeps DEF MarshallerSubscribes, Chan
  <1>3. CASE ArbiterSubscribes
    <2>1. LocalOK'
      BY <1>3 DEF ArbiterSubscribes, Inv, TypeOK, LocalOK
    <2>q. QED
      BY <1>3, <2>1, OwnStepKeeps DEF ArbiterSubscribes, Chan
  <1>4. CASE TimerFires
    <2>1. LocalOK'
      BY <1>4 DEF TimerFires, Inv, TypeOK, LocalOK
    <2>q. QED
      BY <1>4, <2>1, OwnStepKeeps DEF TimerFires
  <1>q. QED
    BY <1>1, <1>2, <1>3, <1>4

LEMMA TakeTickKeeps == ASSUME Inv, ArbiterTakes, TakeTick PROVE Inv'
  <1> USE DEF arbVars, sendVars, marVars, webVars
  <1>1. /\ arbiter = "select" /\ arbiter' = "pub" /\ ComesIn /\ tick' = FALSE
        /\ last_state' = [last_state EXCEPT !.locks = {}]
        /\ UNCHANGED <<chan, subs, hub, timer, published, late, sendVars, marVars, webVars,
                       initdata, requests>>
    BY DEF ArbiterTakes, TakeTick
  <1>2. ChanOK'
    BY <1>1 DEF Inv, TypeOK, ChanOK, Carries
  <1>3. \A ch \in Chan : Pending(ch)' = Pending(ch) /\ Pending(ch) \in Nat
    BY <1>1, SamePending, PendingNat DEF Inv, TypeOK
  <1>4. Waiting' <= Waiting + 1 /\ Onward' = Onward
    BY <1>1, <1>3, Chans DEF Waiting, Onward, Of
  <1>5. Counted' /\ burst' \in 0..(Cap + 2)
    BY <1>1, <1>2, <1>3, <1>4, Chans, ComesInKeepsCount
  <1>6. last_state' \in State
    BY <1>1 DEF Inv, TypeOK, LocalOK, State
  <1>7. LocalOK'
    BY <1>1, <1>5, <1>6 DEF Inv, TypeOK, LocalOK
  <1>q. QED
    BY <1>2, <1>5, <1>7 DEF Inv, TypeOK

LEMMA TakeRequestKeeps == ASSUME Inv, ArbiterTakes, TakeRequest PROVE Inv'
  <1> USE DEF arbVars, sendVars, marVars, webVars
  <1> DEFINE r == Head(chan["newreq"])
  <1>1. /\ arbiter = "select" /\ Receive("newreq")
        /\ UNCHANGED <<subs, hub, timer, tick, published, late, sendVars, marVars, webVars,
                       initdata, requests, burst>>
    BY DEF ArbiterTakes, TakeRequest
  <1>2. "newreq" \in Chan /\ ChanOK
    BY Chans DEF Inv, TypeOK
  <1>3. ChanOK'
    BY <1>1, <1>2, ReceiveKeepsChan
  <1>4. last_state' \in State /\ arbiter' \in {"select", "pub", "grant"}
    <2>1. CASE UNCHANGED <<last_state, arbiter>>
      BY <1>1, <2>1 DEF Inv, TypeOK, LocalOK
    <2>2. CASE /\ r \in VentRequest /\ last_state' = [last_state EXCEPT !.vent = r.vent]
               /\ arbiter' = "pub"
      BY <2>2 DEF Inv, TypeOK, LocalOK, State, VentRequest
    <2>3. CASE /\ r \in LockRequest
               /\ last_state' = [last_state EXCEPT !.locks = IF r.on THEN @ \union {r.lock}
                                                                    ELSE @ \ {r.lock}]
               /\ arbiter' = IF r.on THEN "grant" ELSE "pub"
      <3>1. r.lock \in Lock
        BY <2>3 DEF LockRequest
      <3>q. QED
        BY <2>3, <3>1 DEF Inv, TypeOK, LocalOK, State
    <2>q. QED
      BY <2>1, <2>2, <2>3 DEF TakeRequest
  <1>5. LocalOK'
    BY <1>1, <1>4 DEF Inv, TypeOK, LocalOK
  <1>6. /\ Pending("newreq")' = Pending("newreq") - 1 /\ Pending("init")' = Pending("init")
        /\ Pending("newstate")' = Pending("newstate") /\ Pending("update")' = Pending("update")
        /\ \A c \in Client : Pending(c)' = Pending(c)
    BY <1>1, <1>2, ReceivePending, Chans
  <1>7. Waiting' <= Waiting /\ Onward' = Onward
    <2>1. Pending("newreq") \in Nat /\ Pending("init") \in Nat
      BY <1>2, PendingTypes
    <2>2. /\ Of(arbiter' \in {"pub", "grant"}) \in {0, 1} /\ Of(arbiter \in {"pub", "grant"}) = 0
          /\ Of(marshaller' = "pub") = Of(marshaller = "pub")
      BY <1>1 DEF Of
    <2>q. QED
      BY <1>6, <2>1, <2>2 DEF Waiting, Onward
  <1>8. Counted'
    <2>1. /\ Waiting' + Pending("newstate")' <= Waiting + Pending("newstate")
          /\ Waiting' + Onward' <= Waiting + Onward
      BY <1>2, <1>3, <1>6, <1>7, CountTypes, PendingTypes
    <2>2. ASSUME NEW c \in Client
          PROVE  Waiting' + Onward' + Pending(c)' <= Waiting + Onward + Pending(c)
      BY <1>2, <1>3, <1>6, <1>7, CountTypes, PendingTypes
    <2>q. QED
      BY <1>1, <1>3, <2>1, <2>2, QuietKeepsCount
  <1>q. QED
    BY <1>3, <1>5, <1>8 DEF Inv, TypeOK

LEMMA ArbiterPublishesKeeps == ASSUME Inv, ArbiterPublishes PROVE Inv'
  <1> USE DEF arbVars, sendVars, marVars, webVars
  <1>1. /\ arbiter \in {"pub", "grant"} /\ arbiter' = "select"
        /\ Pub("damperschanged", last_state)
        /\ published' = last_state /\ told' = {} /\ late' = {"newstate", "update"} \ subs
        /\ timer' \in {"armed", timer}
        /\ UNCHANGED <<chan, subs, tick, last_state, sendVars, marVars, writer, initdata,
                       requests, burst>>
    BY DEF ArbiterPublishes, AfterPub, Rearm
  <1>2. ChanOK /\ last_state \in State
    BY DEF Inv, TypeOK, LocalOK
  <1>3. ASSUME NEW ch \in Chan, Topic(ch) = "damperschanged" PROVE last_state \in Carries(ch)
    BY <1>2, <1>3, Subscribers, Carried
  <1>4. ChanOK'
    BY <1>1, <1>2, <1>3, PubKeepsChan
  <1>5. LocalOK'
    BY <1>1, <1>2 DEF Inv, TypeOK, LocalOK
  <1>6. /\ Pending("newreq")' = Pending("newreq") /\ Pending("init")' = Pending("init")
        /\ \A ch \in {"newstate", "update"} : Pending(ch)' <= Pending(ch) + 1
        /\ \A c \in Client : Pending(c)' = Pending(c)
    BY <1>1, <1>2, PubChanges
  <1>7. /\ Pending("newreq") \in Nat /\ Pending("init") \in Nat /\ Pending("update") \in Nat
        /\ Pending("newstate") \in Nat /\ Pending("newstate")' \in Nat
        /\ Pending("update")' \in Nat
        /\ \A c \in Client : Pending(c) \in Nat
    BY <1>2, <1>4, PendingTypes, PendingTypesNext
  <1>8. Waiting' = Waiting - 1 /\ Onward' <= Onward + 1
    <2>1. /\ Of(arbiter' \in {"pub", "grant"}) = 0 /\ Of(arbiter \in {"pub", "grant"}) = 1
          /\ Of(marshaller' = "pub") = Of(marshaller = "pub") /\ Of(marshaller = "pub") \in Nat
      BY <1>1 DEF Of
    <2>q. QED
      BY <1>6, <1>7, <2>1 DEF Waiting, Onward
  <1>9. Waiting \in Nat /\ Waiting' \in Nat /\ Onward \in Nat /\ Onward' \in Nat
    BY <1>2, <1>4, CountTypes
  <1>10. Counted'
    <2>1. /\ Waiting' + Pending("newstate")' <= Waiting + Pending("newstate")
          /\ Waiting' + Onward' <= Waiting + Onward
      <3>1. Pending("newstate")' <= Pending("newstate") + 1
        BY <1>6
      <3>2. Pending("newstate") \in Nat /\ Pending("newstate")' \in Nat
        BY <1>7
      <3>3. Waiting' + Pending("newstate")' <= Waiting + Pending("newstate")
        BY <1>8, <1>9, <3>1, <3>2
      <3>4. Waiting' + Onward' <= Waiting + Onward
        BY <1>8, <1>9, MovedOn
      <3>q. QED
        BY <3>3, <3>4
    <2>2. ASSUME NEW c \in Client
          PROVE  Waiting' + Onward' + Pending(c)' <= Waiting + Onward + Pending(c)
      BY <1>6, <1>7, <1>8, <1>9
    <2>q. QED
      BY <1>1, <1>4, <2>1, <2>2, QuietKeepsCount
  <1>q. QED
    BY <1>4, <1>5, <1>10 DEF Inv, TypeOK

LEMMA SenderKeeps == ASSUME Inv, SenderTakes \/ SenderSends PROVE Inv'
  <1> USE DEF arbVars, sendVars, marVars, webVars
  <1>1. CASE SenderSends
    <2>1. LocalOK'
      BY <1>1 DEF SenderSends, Inv, TypeOK, LocalOK, State
    <2>q. QED
      BY <1>1, <2>1, OwnStepKeeps DEF SenderSends
  <1>2. CASE SenderTakes
    <2>1. /\ Receive("newstate") /\ "newstate" \in Chan /\ ChanOK
          /\ UNCHANGED <<subs, hub, arbVars, sent, marVars, webVars, initdata, requests, burst>>
      BY <1>2, Chans DEF SenderTakes, Inv, TypeOK
    <2>2. ChanOK'
      BY <2>1, ReceiveKeepsChan
    <2>3. Head(chan["newstate"]) \in State
      BY <2>1, Carried, Taken DEF ChanOK, Receive
    <2>4. LocalOK'
      <3>1. last_cmd' \in State \union {None} /\ sender' \in {"select", "send"}
            /\ (sender' = "send" => last_cmd' # None)
        BY <1>2, <2>3, StateAssumption DEF SenderTakes, Inv, TypeOK, LocalOK, State
      <3>q. QED
        BY <2>1, <3>1 DEF Inv, TypeOK, LocalOK
    <2>5. /\ Pending("newstate")' = Pending("newstate") - 1 /\ Pending("newstate") \in Nat
          /\ Pending("newreq")' = Pending("newreq") /\ Pending("update")' = Pending("update")
          /\ Pending("init")' = Pending("init")
          /\ \A c \in Client : Pending(c)' = Pending(c) /\ Pending(c) \in Nat
      BY <2>1, ReceivePending, PendingTypes, Chans
    <2>6. Counted'
      BY <2>1, <2>2, <2>5, SameKeepsCount
    <2>q. QED
      BY <2>2, <2>4, <2>6 DEF Inv, TypeOK
  <1>q. QED
    BY <1>1, <1>2

LEMMA MarshallerAnswersKeeps == ASSUME Inv, MarshallerAnswers PROVE Inv'
  <1> USE DEF arbVars, sendVars, marVars, webVars
  <1>1. /\ Receive("init") /\ "init" \in Chan /\ ChanOK
        /\ UNCHANGED <<subs, hub, arbVars, sendVars, marVars, webVars, requests, burst>>
    BY Chans DEF MarshallerAnswers, Inv, TypeOK
  <1>2. ChanOK'
    BY <1>1, ReceiveKeepsChan
  <1>3. LocalOK'
    <2>1. initdata' \in [Client -> SUBSET (State \union {None})]
      BY DEF MarshallerAnswers, Inv, TypeOK, LocalOK
    <2>q. QED
      BY <1>1, <2>1 DEF Inv, TypeOK, LocalOK
  <1>4. /\ Pending("init")' = Pending("init") - 1 /\ Pending("init") \in Nat
        /\ Pending("newreq")' = Pending("newreq") /\ Pending("update")' = Pending("update")
        /\ Pending("newstate")' = Pending("newstate") /\ Pending("newreq") \in Nat
        /\ Pending("newstate") \in Nat
        /\ \A c \in Client : Pending(c)' = Pending(c) /\ Pending(c) \in Nat
    BY <1>1, ReceivePending, PendingTypes, Chans
  <1>5. Waiting' <= Waiting /\ Onward' = Onward
    <2>1. /\ Of(arbiter' \in {"pub", "grant"}) = Of(arbiter \in {"pub", "grant"})
          /\ Of(arbiter \in {"pub", "grant"}) \in Nat
          /\ Of(marshaller' = "pub") = Of(marshaller = "pub")
      BY <1>1 DEF Of
    <2>q. QED
      BY <1>4, <2>1 DEF Waiting, Onward
  <1>6. Counted'
    <2>1. /\ Waiting' + Pending("newstate")' <= Waiting + Pending("newstate")
          /\ Waiting' + Onward' <= Waiting + Onward
      BY <1>1, <1>2, <1>4, <1>5, CountTypes
    <2>2. ASSUME NEW c \in Client
          PROVE  Waiting' + Onward' + Pending(c)' <= Waiting + Onward + Pending(c)
      BY <1>1, <1>2, <1>4, <1>5, CountTypes
    <2>q. QED
      BY <1>1, <1>2, <2>1, <2>2, QuietKeepsCount
  <1>q. QED
    BY <1>2, <1>3, <1>6 DEF Inv, TypeOK

LEMMA MarshallerTakesKeeps == ASSUME Inv, MarshallerTakes PROVE Inv'
  <1> USE DEF arbVars, sendVars, marVars, webVars
  <1>1. /\ Receive("update") /\ "update" \in Chan /\ ChanOK
        /\ marshaller = "select" /\ marshaller' = "pub" /\ info' = Head(chan["update"])
        /\ UNCHANGED <<subs, hub, arbVars, sendVars, webVars, initdata, requests, burst>>
    BY Chans DEF MarshallerTakes, Inv, TypeOK
  <1>2. ChanOK'
    BY <1>1, ReceiveKeepsChan
  <1>3. info' \in State /\ info' # None
    <2>1. info' \in State
      BY <1>1, Carried, Taken DEF ChanOK, Receive
    <2>q. QED
      BY <2>1, StateAssumption DEF State
  <1>4. LocalOK'
    BY <1>1, <1>3 DEF Inv, TypeOK, LocalOK
  <1>5. /\ Pending("update")' = Pending("update") - 1 /\ Pending("update") \in Nat
        /\ Pending("newreq")' = Pending("newreq") /\ Pending("init")' = Pending("init")
        /\ Pending("newstate")' = Pending("newstate") /\ Pending("newstate") \in Nat
        /\ \A c \in Client : Pending(c)' = Pending(c) /\ Pending(c) \in Nat
    BY <1>1, ReceivePending, PendingTypes, Chans
  <1>6. Waiting' = Waiting
    BY <1>1, <1>5 DEF Waiting
  <1>7. Onward' = Onward
    <2>1. Of(marshaller' = "pub") = 1 /\ Of(marshaller = "pub") = 0
      BY <1>1 DEF Of
    <2>q. QED
      BY <1>5, <2>1 DEF Onward
  <1>8. Counted'
    <2>1. /\ Waiting' + Pending("newstate")' <= Waiting + Pending("newstate")
          /\ Waiting' + Onward' <= Waiting + Onward
      BY <1>1, <1>2, <1>5, <1>6, <1>7, CountTypes
    <2>2. ASSUME NEW c \in Client
          PROVE  Waiting' + Onward' + Pending(c)' <= Waiting + Onward + Pending(c)
      BY <1>1, <1>2, <1>5, <1>6, <1>7, CountTypes
    <2>q. QED
      BY <1>1, <1>2, <2>1, <2>2, QuietKeepsCount
  <1>q. QED
    BY <1>2, <1>4, <1>8 DEF Inv, TypeOK

LEMMA MarshallerPublishesKeeps == ASSUME Inv, MarshallerPublishes PROVE Inv'
  <1> USE DEF arbVars, sendVars, marVars, webVars
  <1>1. /\ Pub("jsontoall", info) /\ marshaller = "pub" /\ marshaller' = "select" /\ ChanOK
        /\ UNCHANGED <<chan, subs, arbVars, sendVars, info, webVars, initdata, requests, burst>>
    BY DEF MarshallerPublishes, Inv, TypeOK
  <1>2. info \in State
    BY <1>1 DEF Inv, TypeOK, LocalOK
  <1>3. ASSUME NEW ch \in Chan, Topic(ch) = "jsontoall" PROVE info \in Carries(ch)
    BY <1>2, <1>3, Subscribers, Carried
  <1>4. ChanOK'
    BY <1>1, <1>3, PubKeepsChan
  <1>5. LocalOK'
    BY <1>1 DEF Inv, TypeOK, LocalOK
  <1>6. /\ Pending("newreq")' = Pending("newreq") /\ Pending("init")' = Pending("init")
        /\ Pending("newstate")' = Pending("newstate") /\ Pending("newstate") \in Nat
        /\ Pending("update")' = Pending("update") /\ Pending("update") \in Nat
    BY <1>1, PubChanges, PendingTypes
  <1>7. \A c \in Client : /\ Pending(c)' <= Pending(c) + 1
                          /\ Pending(c) \in Nat /\ Pending(c)' \in Nat
    BY <1>1, <1>4, PubChanges, PendingTypes, PendingTypesNext
  <1>8. Waiting' = Waiting
    BY <1>1, <1>6 DEF Waiting
  <1>9. Onward' = Onward - 1
    <2>1. Of(marshaller' = "pub") = 0 /\ Of(marshaller = "pub") = 1
      BY <1>1 DEF Of
    <2>q. QED
      BY <1>6, <2>1 DEF Onward
  <1>10. Waiting \in Nat /\ Onward \in Nat /\ Onward' \in Nat
    BY <1>1, <1>4, CountTypes
  <1>11. Counted'
    <2>1. /\ Waiting' + Pending("newstate")' <= Waiting + Pending("newstate")
          /\ Waiting' + Onward' <= Waiting + Onward
      BY <1>6, <1>8, <1>9, <1>10
    <2>2. ASSUME NEW c \in Client
          PROVE  Waiting' + Onward' + Pending(c)' <= Waiting + Onward + Pending(c)
      <3>1. /\ Pending(c) \in Nat /\ Pending(c)' \in Nat /\ Pending(c)' <= Pending(c) + 1
        BY <1>7
      <3>2. Onward' + Pending(c)' <= Onward + Pending(c)
        BY <1>9, <1>10, <3>1, MovedOn
      <3>q. QED
        BY <1>8, <1>10, <3>1, <3>2
    <2>q. QED
      BY <1>1, <1>4, <2>1, <2>2, QuietKeepsCount
  <1>q. QED
    BY <1>4, <1>5, <1>11 DEF Inv, TypeOK

LEMMA AsksKeeps == ASSUME Inv, NEW c \in Client, WriterAsks(c) PROVE Inv'
  <1> USE DEF arbVars, sendVars, marVars, webVars
  <1>1. /\ Pub("initialbytes", c) /\ ComesIn /\ ChanOK
        /\ writer' = [writer EXCEPT ![c] = "select"]
        /\ UNCHANGED <<chan, subs, arbVars, sendVars, marVars, told, initdata, requests>>
    BY DEF WriterAsks, HubCall, At, Inv, TypeOK
  <1>2. ASSUME NEW ch \in Chan, Topic(ch) = "initialbytes" PROVE c \in Carries(ch)
    BY <1>2, Subscribers, Carried
  <1>3. ChanOK'
    BY <1>1, <1>2, PubKeepsChan
  <1>4. /\ Pending("init")' <= Pending("init") + 1
        /\ Pending("newreq")' = Pending("newreq") /\ Pending("newreq") \in Nat
        /\ Pending("init") \in Nat /\ Pending("init")' \in Nat
        /\ Pending("newstate")' = Pending("newstate") /\ Pending("update")' = Pending("update")
        /\ \A d \in Client : Pending(d)' = Pending(d)
    BY <1>1, <1>3, PubChanges, PendingTypes, PendingTypesNext
  <1>5. Waiting' <= Waiting + 1 /\ Onward' = Onward
    <2>1. /\ Of(arbiter' \in {"pub", "grant"}) = Of(arbiter \in {"pub", "grant"})
          /\ Of(arbiter \in {"pub", "grant"}) \in Nat
          /\ Of(marshaller' = "pub") = Of(marshaller = "pub")
      BY <1>1 DEF Of
    <2>q. QED
      BY <1>4, <2>1 DEF Waiting, Onward
  <1>6. Counted' /\ burst' \in 0..(Cap + 2)
    BY <1>1, <1>3, <1>4, <1>5, ComesInKeepsCount
  <1>7. LocalOK'
    BY <1>1, <1>6 DEF Inv, TypeOK, LocalOK
  <1>q. QED
    BY <1>3, <1>6, <1>7 DEF Inv, TypeOK

LEMMA WritesKeeps == ASSUME Inv, NEW c \in Client, WriterWrites(c) PROVE Inv'
  <1> USE DEF arbVars, sendVars, marVars, webVars
  <1>1. PICK s \in State \union {None} :
            /\ \/ Receive(c) /\ UNCHANGED initdata
               \/ initdata' = [initdata EXCEPT ![c] = @ \ {s}] /\ UNCHANGED chan
            /\ told' = IF s = published THEN told \union {c} ELSE told
    BY DEF WriterWrites
  <1>2. /\ c \in Chan /\ ChanOK
        /\ UNCHANGED <<subs, hub, arbVars, sendVars, marVars, writer, requests, burst>>
    BY Chans DEF WriterWrites, Inv, TypeOK
  <1>3. LocalOK'
    BY <1>1, <1>2 DEF Inv, TypeOK, LocalOK
  <1>4. CASE UNCHANGED chan
    BY <1>2, <1>3, <1>4, OwnStepKeeps
  <1>5. CASE Receive(c)
    <2>1. ChanOK'
      BY <1>2, <1>5, ReceiveKeepsChan
    <2>2. /\ Pending(c)' = Pending(c) - 1
          /\ \A d \in Chan \ {c} : Pending(d)' = Pending(d)
          /\ \A d \in Chan : Pending(d) \in Nat
      BY <1>2, <1>5, ReceivePending, PendingNat
    <2>3. /\ Pending("newreq")' = Pending("newreq") /\ Pending("init")' = Pending("init")
          /\ Pending("update")' = Pending("update")
          /\ Pending("newstate")' = Pending("newstate") /\ Pending("newstate") \in Nat
      BY <2>2, Chans
    <2>4. \A d \in Client : Pending(d)' <= Pending(d)
      BY <2>2, Chans
    <2>5. Counted'
      BY <1>2, <2>1, <2>3, <2>4, SameKeepsCount
    <2>q. QED
      BY <1>3, <2>1, <2>5 DEF Inv, TypeOK
  <1>q. QED
    BY <1>1, <1>4, <1>5

LEMMA ComesAndGoesKeeps ==
    ASSUME Inv, NEW c \in Client, Connect(c) \/ WriterLeaves(c) \/ WriterUnsubscribes(c)
    PROVE  Inv'
  <1> USE DEF arbVars, sendVars, marVars, webVars
  <1>1. CASE Connect(c)
    <2>1. /\ Sub(c) /\ UNCHANGED burst /\ c \in Chan
          /\ writer' = [writer EXCEPT ![c] = "subscribed"]
          /\ UNCHANGED <<chan, arbVars, sendVars, marVars, told, initdata, requests>>
      BY <1>1, Chans DEF Connect, HubCall, At
    <2>2. LocalOK'
      BY <2>1 DEF Inv, TypeOK, LocalOK
    <2>q. QED
      BY <2>1, <2>2, OwnStepKeeps
  <1>2. CASE WriterLeaves(c)
    <2>1. /\ writer' = [writer EXCEPT ![c] = "leaving"] /\ told' = told \ {c}
          /\ initdata' = [initdata EXCEPT ![c] = {}]
          /\ UNCHANGED <<chan, subs, hub, arbVars, sendVars, marVars, requests, burst>>
      BY <1>2 DEF WriterLeaves, At
    <2>2. LocalOK'
      BY <2>1 DEF Inv, TypeOK, LocalOK
    <2>q. QED
      BY <2>1, <2>2, OwnStepKeeps
  <1>3. CASE WriterUnsubscribes(c)
    <2>1. /\ writer' = [writer EXCEPT ![c] = "gone"]
          /\ UNCHANGED <<hub, arbVars, sendVars, marVars, told, initdata, requests, burst>>
      BY <1>3 DEF WriterUnsubscribes, At
    <2>2. LocalOK'
      BY <2>1 DEF Inv, TypeOK, LocalOK
    <2>3. ChanOK' /\ ChanOK
      BY <1>3, UnsubKeepsChan DEF Inv, TypeOK
    <2>4. /\ Pending("newreq")' = Pending("newreq") /\ Pending("init")' = Pending("init")
          /\ Pending("update")' = Pending("update")
          /\ Pending("newstate")' <= Pending("newstate")
          /\ \A d \in Client : Pending(d)' <= Pending(d)
      BY <1>3, <2>3, UnsubPending, Chans
    <2>5. Counted'
      BY <2>1, <2>3, <2>4, SameKeepsCount
    <2>q. QED
      BY <2>2, <2>3, <2>5 DEF Inv, TypeOK
  <1>q. QED
    BY <1>1, <1>2, <1>3

LEMMA StutterKeeps == ASSUME Inv, UNCHANGED vars PROVE Inv'
  <1> USE DEF vars, arbVars, sendVars, marVars, webVars
  <1>1. LocalOK'
    BY DEF Inv, TypeOK, LocalOK
  <1>q. QED
    BY <1>1, OwnStepKeeps

-----------------------------------------------------------------------------
(* Theorems.                                                               *)

\* The counts hold always, together with the types.
THEOREM Invariant == Spec => []Inv
  <1>1. ASSUME Inv, Next PROVE Inv'
    <2>1. CASE HandOut \/ TimerFires
      BY <1>1, <2>1, HandOutKeeps, SubscriberKeeps
    <2>2. CASE Arbiter
      BY <1>1, <2>2, SubscriberKeeps, TakeTickKeeps, TakeRequestKeeps, ArbiterPublishesKeeps
      DEF Arbiter, ArbiterTakes
    <2>3. CASE DamperSender
      BY <1>1, <2>3, SubscriberKeeps, SenderKeeps DEF DamperSender
    <2>4. CASE Marshaller
      BY <1>1, <2>4, SubscriberKeeps, MarshallerAnswersKeeps, MarshallerTakesKeeps,
         MarshallerPublishesKeeps
      DEF Marshaller
    <2>5. CASE \E r \in VentRequest \union LockRequest : Request(r)
      BY <1>1, <2>5, RequestKeeps
    <2>6. CASE \E c \in Client : Connect(c) \/ Writer(c) \/ WriterLeaves(c)
      BY <1>1, <2>6, ComesAndGoesKeeps, AsksKeeps, WritesKeeps DEF Writer
    <2>q. QED
      BY <1>1, <2>1, <2>2, <2>3, <2>4, <2>5, <2>6 DEF Next
  <1>q. QED
    BY <1>1, InitInv, StutterKeeps, PTL DEF Spec

\* Every variable keeps to its type, every subscription to its capacity, with the lock
\* timer re-armed as often as locks are granted (ventilation.go:149-161, main.go:57).
THEOREM TypeCorrect == Spec => []TypeOK
  <1>1. Inv => TypeOK
    BY DEF Inv
  <1>q. QED
    BY <1>1, Invariant, PTL

LEMMA WedgeCounts == ASSUME Inv PROVE WedgeTakesBurst
  <1>1. ChanOK /\ Cap \in Nat /\ burst \in Nat
    BY CapAssumption DEF Inv, TypeOK, LocalOK
  <1>2. ASSUME NEW ch \in Chan, WedgedAt(ch)
        PROVE  burst > Cap + (IF Publishes(ch) THEN 1 ELSE 0)
    <2>1. Pending(ch) >= Cap + 1 /\ Pending(ch) \in Nat
      BY <1>1, <1>2 DEF WedgedAt, Room, Pending, Of, ChanOK
    <2>2. CASE burst >= Cap + 2
      BY <1>1, <2>2
    <2>3. CASE burst < Cap + 2
      <3>1. /\ Waiting \in Nat /\ Onward \in Nat
            /\ Pending("newreq") \in Nat /\ Pending("init") \in Nat
            /\ Pending("update") \in Nat /\ Pending("newstate") \in Nat
            /\ \A c \in Client : Pending(c) \in Nat
        BY <1>1, PendingTypes DEF Waiting, Onward, Of
      <3>2. CASE ch = "newreq"
        BY <1>1, <1>2, <2>1, <2>3, <3>1, <3>2
        DEF Inv, Counted, WedgedAt, WaitsForHub, Publishes, Waiting, Of
      <3>3. CASE ch = "update"
        BY <1>1, <2>1, <2>3, <3>1, <3>3 DEF Inv, Counted, Publishes, Onward, Of
      <3>4. CASE ch = "init"
        BY <1>1, <2>1, <2>3, <3>1, <3>4
        DEF Inv, Counted, Publishes, Waiting, Onward, Of
      <3>5. CASE ch = "newstate"
        BY <1>2, <3>5 DEF WedgedAt, WaitsForHub
      <3>6. CASE ch \in Client
        BY <1>1, <2>1, <2>3, <3>1, <3>6, Chans DEF Inv, Counted, Publishes
      <3>q. QED
        BY <3>2, <3>3, <3>4, <3>5, <3>6 DEF Chan
    <2>q. QED
      BY <1>1, <2>2, <2>3
  <1>q. QED
    BY <1>2 DEF WedgeTakesBurst

\* The hub and a goroutine wait for one another only after a burst larger than a
\* subscription: whatever the capacity, however many clients come and go and however
\* often the timer runs out (ventilation.go:96, webserver.go:108, :117, :120).
THEOREM HubNeedsBurst == Spec => []WedgeTakesBurst
  BY WedgeCounts, Invariant, PTL
=============================================================================
