----------------------------- MODULE Interface -----------------------------
(***************************************************************************)
(* The goroutines of the ventilation interface around its arbiter          *)
(* (ventilationinterface/): the publish/subscribe hub they talk through,   *)
(* the sender of damper commands (dampersteensy.go), the goroutine that    *)
(* marshals states for the web clients and the one that writes to each of  *)
(* them (webserver.go).  What the arbiter decides is in VentArbiter; here  *)
(* it grants or refuses at will, and publishes states.  Its timer is that  *)
(* of VentArbiter: Reset leaves a tick that already waits where it is.     *)
(*                                                                         *)
(* External: the hub (pubsub library).  One goroutine takes one call at a  *)
(* time and hands a published value to all subscribed channels before it   *)
(* takes the next call; it waits for room in a channel, and every caller   *)
(* waits for the hub.                                                      *)
(***************************************************************************)
EXTENDS Naturals, Sequences

CONSTANTS
    Client,   \* web socket connections
    Vent,     \* dampers and fan, as the check of a request leaves them
    Lock,     \* the locks
    Start,    \* dampers and fan of a new arbiter
    None,     \* no state
    Cap,      \* capacity of every subscription, 10 in main.go
    MaxReq    \* bound on requests

ASSUME CapAssumption    == Cap \in Nat \ {0} /\ MaxReq \in Nat
ASSUME StateAssumption  == Start \in Vent /\ None \notin [vent: Vent, locks: SUBSET Lock]
ASSUME ClientAssumption == Client \intersect {"newreq", "newstate", "update", "init"} = {}

\* What the arbiter publishes, and what it is asked for.
State       == [vent: Vent, locks: SUBSET Lock]
VentRequest == [vent: Vent]
LockRequest == [lock: Lock, on: BOOLEAN]

\* The subscriptions: of the arbiter, of the sender, two of the marshaller, and one of
\* the writer of each client.
Chan == {"newreq", "newstate", "update", "init"} \union Client

Topic(ch) == CASE ch = "newreq" -> "damperrequest"
               [] ch \in {"newstate", "update"} -> "damperschanged"
               [] ch = "init" -> "initialbytes"
               [] OTHER -> "jsontoall"

VARIABLES
    chan,       \* the values in each subscription
    subs,       \* the subscriptions the hub knows
    hub,        \* the value the hub hands out and to whom it has yet to
    arbiter, sender, marshaller, writer,  \* where each goroutine is
    timer,      \* locktimeouter: "armed" or "stopped"
    tick,       \* a value waits in locktimeouter.C (capacity 1)
    last_state, \* of the arbiter, with its locks
    published,  \* history: the state published last, None before
    late,       \* history: who was not subscribed when the last one was published
    last_cmd,   \* last_state of the sender
    sent,       \* dampers and fan last written to the serial line
    info,       \* initial_info of the marshaller, None for the empty one
    initdata,   \* initdata_c of each writer, as a set
    told,       \* history: the clients that were written it since
    requests,   \* requests so far
    burst       \* history: the values that came in since all was last at rest

arbVars  == <<arbiter, timer, tick, last_state, published, late>>
sendVars == <<sender, last_cmd, sent>>
marVars  == <<marshaller, info>>
webVars  == <<writer, told>>
vars == <<chan, subs, hub, arbVars, sendVars, marVars, webVars, initdata, requests, burst>>

-----------------------------------------------------------------------------
(* The hub.                                                                *)

Idle == hub.todo = {}

Pub(topic, value) ==
    /\ Idle
    /\ hub' = [value |-> value, todo |-> {ch \in subs : Topic(ch) = topic}]

Sub(ch) == Idle /\ subs' = subs \union {ch} /\ UNCHANGED hub

\* Mutant: a subscription takes one value too many.
RoomOneMore(ch) == Len(chan[ch]) <= Cap

Room(ch) == Len(chan[ch]) < Cap

HandOut ==
    /\ \E ch \in hub.todo :
          /\ Room(ch)
          /\ chan' = [chan EXCEPT ![ch] = Append(@, hub.value)]
          /\ hub' = [hub EXCEPT !.todo = @ \ {ch}]
    /\ UNCHANGED <<subs, arbVars, sendVars, marVars, webVars, initdata, requests, burst>>

Receive(ch) == chan[ch] # <<>> /\ chan' = [chan EXCEPT ![ch] = Tail(@)]

\* No value is under way: none waits in a subscription, is handed out, or was taken and
\* is about to be published.
AtRest == /\ Idle
          /\ \A ch \in Chan : chan[ch] = <<>>
          /\ arbiter \notin {"pub", "grant"}
          /\ marshaller # "pub"

\* A value comes in: a request, a tick, or the question of a new client.  They are
\* counted up to Cap + 2.
ComesIn == burst' = IF AtRest THEN 1 ELSE IF burst < Cap + 2 THEN burst + 1 ELSE burst

-----------------------------------------------------------------------------
(* goSanityCheckDamperRequests, and whoever makes requests.                *)

Request(r) ==
    /\ requests < MaxReq
    /\ requests' = requests + 1
    /\ ComesIn
    /\ Pub("damperrequest", r)
    /\ UNCHANGED <<chan, subs, arbVars, sendVars, marVars, webVars, initdata>>

\* It subscribes and makes its timer, which is set to 0.
ArbiterSubscribes ==
    /\ arbiter = "start"
    /\ arbiter' = "select"
    /\ timer' = "armed"
    /\ Sub("newreq")
    /\ UNCHANGED <<chan, tick, last_state, published, late, sendVars, marVars, webVars,
                   initdata, requests, burst>>

TimerFires ==
    /\ timer = "armed"
    /\ timer' = "stopped"
    /\ tick' = TRUE
    /\ UNCHANGED <<chan, subs, hub, arbiter, last_state, published, late, sendVars, marVars,
                   webVars, initdata, requests, burst>>

\* The tick frees the locks.
TakeTick ==
    /\ tick
    /\ tick' = FALSE
    /\ last_state' = [last_state EXCEPT !.locks = {}]
    /\ arbiter' = "pub"
    /\ ComesIn
    /\ UNCHANGED chan

\* A request is granted or refused; a lock that is granted will re-arm the timer.
TakeRequest ==
    LET r == Head(chan["newreq"]) IN
    /\ Receive("newreq")
    /\ \/ UNCHANGED <<last_state, arbiter>>
       \/ /\ r \in VentRequest
          /\ last_state' = [last_state EXCEPT !.vent = r.vent]
          /\ arbiter' = "pub"
       \/ /\ r \in LockRequest
          /\ last_state' = [last_state EXCEPT !.locks = IF r.on THEN @ \union {r.lock}
                                                               ELSE @ \ {r.lock}]
          /\ arbiter' = IF r.on THEN "grant" ELSE "pub"
    /\ UNCHANGED <<tick, burst>>

ArbiterTakes ==
    /\ arbiter = "select"
    /\ TakeTick \/ TakeRequest
    /\ UNCHANGED <<subs, hub, timer, published, late, sendVars, marVars, webVars, initdata,
                   requests>>

Rearm == timer' = IF arbiter = "grant" THEN "armed" ELSE timer

\* Mutant: a state with a new lock is published once more when the timer is set.
TwiceForGrant == IF arbiter = "grant" THEN "pub" ELSE "select"

AfterPub == "select"

\* publishDamperUpdate; then, after a grant, the timer is reset.
ArbiterPublishes ==
    /\ arbiter \in {"pub", "grant"}
    /\ arbiter' = AfterPub
    /\ Rearm
    /\ published' = last_state
    /\ told' = {}
    /\ late' = {"newstate", "update"} \ subs
    /\ Pub("damperschanged", last_state)
    /\ UNCHANGED <<chan, subs, tick, last_state, sendVars, marVars, writer, initdata, requests,
                   burst>>

-----------------------------------------------------------------------------
(* goChangeDampers.                                                        *)

SenderSubscribes ==
    /\ sender = "start"
    /\ sender' = "select"
    /\ Sub("newstate")
    /\ UNCHANGED <<chan, arbVars, last_cmd, sent, marVars, webVars, initdata, requests, burst>>

\* Mutant: a command is compared with the state the dampers start in.
IsNewSinceStart(s) == s # (IF last_cmd = None THEN [vent |-> Start, locks |-> {}] ELSE last_cmd)

IsNew(s) == s # last_cmd

\* A state is taken; one that is the same, locks and all, is skipped.
SenderTakes ==
    LET s == Head(chan["newstate"]) IN
    /\ sender = "select"
    /\ Receive("newstate")
    /\ IF IsNew(s) THEN sender' = "send" /\ last_cmd' = s ELSE UNCHANGED <<sender, last_cmd>>
    /\ UNCHANGED <<subs, hub, arbVars, sent, marVars, webVars, initdata, requests, burst>>

\* After the minimum interval the command goes out.
SenderSends ==
    /\ sender = "send"
    /\ sender' = "select"
    /\ sent' = last_cmd.vent
    /\ UNCHANGED <<chan, subs, hub, arbVars, last_cmd, marVars, webVars, initdata, requests, burst>>

-----------------------------------------------------------------------------
(* goMarshalJsonForAllClients.                                             *)

MarshallerSubscribes ==
    /\ \/ marshaller = "start" /\ Sub("update") /\ marshaller' = "half"
       \/ marshaller = "half" /\ Sub("init") /\ marshaller' = "select"
    /\ UNCHANGED <<chan, arbVars, sendVars, info, webVars, initdata, requests, burst>>

MarshallerAnswers ==
    /\ marshaller = "select"
    /\ Receive("init")
    /\ LET c == Head(chan["init"]) IN
          initdata' = IF writer[c] = "select" THEN [initdata EXCEPT ![c] = @ \union {info}]
                                              ELSE initdata
    /\ UNCHANGED <<subs, hub, arbVars, sendVars, marVars, webVars, requests, burst>>

MarshallerTakes ==
    /\ marshaller = "select"
    /\ Receive("update")
    /\ info' = Head(chan["update"])
    /\ marshaller' = "pub"
    /\ UNCHANGED <<subs, hub, arbVars, sendVars, webVars, initdata, requests, burst>>

MarshallerPublishes ==
    /\ marshaller = "pub"
    /\ marshaller' = "select"
    /\ Pub("jsontoall", info)
    /\ UNCHANGED <<chan, subs, arbVars, sendVars, info, webVars, initdata, requests, burst>>

-----------------------------------------------------------------------------
(* goWriteToClient.                                                        *)

At(c, from, to) == writer[c] = from /\ writer' = [writer EXCEPT ![c] = to]

\* Mutant: a writer asks before it subscribes.
HubCallAskingFirst(c, n) ==
    \/ n = 1 /\ Pub("initialbytes", c) /\ UNCHANGED subs /\ ComesIn
    \/ n = 2 /\ Sub(c) /\ UNCHANGED burst

\* The first call of a writer subscribes, the second asks for the current state.
HubCall(c, n) ==
    \/ n = 1 /\ Sub(c) /\ UNCHANGED burst
    \/ n = 2 /\ Pub("initialbytes", c) /\ UNCHANGED subs /\ ComesIn

Connect(c) ==
    /\ At(c, "none", "subscribed")
    /\ HubCall(c, 1)
    /\ UNCHANGED <<chan, arbVars, sendVars, marVars, told, initdata, requests>>

WriterAsks(c) ==
    /\ At(c, "subscribed", "select")
    /\ HubCall(c, 2)
    /\ UNCHANGED <<chan, arbVars, sendVars, marVars, told, initdata, requests>>

\* select picks any channel that is ready: an update, or the answer.
WriterWrites(c) ==
    /\ writer[c] = "select"
    /\ \E s \in State \union {None} :
          /\ \/ Receive(c) /\ s = Head(chan[c]) /\ UNCHANGED initdata
             \/ /\ s \in initdata[c]
                /\ initdata' = [initdata EXCEPT ![c] = @ \ {s}]
                /\ UNCHANGED chan
          /\ told' = IF s = published THEN told \union {c} ELSE told
    /\ UNCHANGED <<subs, hub, arbVars, sendVars, marVars, writer, requests, burst>>

\* The client is gone, or a write failed: the deferred Unsub is called.  An answer that
\* waits, or comes later, is read by nobody.
WriterLeaves(c) ==
    /\ At(c, "select", "leaving")
    /\ told' = told \ {c}
    /\ initdata' = [initdata EXCEPT ![c] = {}]
    /\ UNCHANGED <<chan, subs, hub, arbVars, sendVars, marVars, requests, burst>>

WriterUnsubscribes(c) ==
    /\ At(c, "leaving", "gone")
    /\ Idle
    /\ subs' = subs \ {c}
    /\ chan' = [chan EXCEPT ![c] = <<>>]
    /\ UNCHANGED <<hub, arbVars, sendVars, marVars, told, initdata, requests, burst>>

-----------------------------------------------------------------------------
\* An earlier process may have left the dampers in any state.
Init ==
    /\ chan = [ch \in Chan |-> <<>>]
    /\ subs = {}
    /\ hub = [value |-> None, todo |-> {}]
    /\ arbiter = "start" /\ sender = "start" /\ marshaller = "start"
    /\ writer = [c \in Client |-> "none"]
    /\ timer = "stopped" /\ tick = FALSE
    /\ last_state = [vent |-> Start, locks |-> {}]
    /\ published = None
    /\ late = {}
    /\ last_cmd = None
    /\ sent \in Vent
    /\ info = None
    /\ initdata = [c \in Client |-> {}]
    /\ told = {}
    /\ requests = 0
    /\ burst = 0

Arbiter      == ArbiterSubscribes \/ ArbiterTakes \/ ArbiterPublishes
DamperSender == SenderSubscribes \/ SenderTakes \/ SenderSends
Marshaller   == MarshallerSubscribes \/ MarshallerAnswers \/ MarshallerTakes
                    \/ MarshallerPublishes

Writer(c) == WriterAsks(c) \/ WriterWrites(c) \/ WriterUnsubscribes(c)

Next ==
    \/ HandOut \/ TimerFires \/ Arbiter \/ DamperSender \/ Marshaller
    \/ \E r \in VentRequest \union LockRequest : Request(r)
    \/ \E c \in Client : Connect(c) \/ Writer(c) \/ WriterLeaves(c)

Spec == Init /\ [][Next]_vars

\* The Go runtime schedules every goroutine that can go on, and serves the callers of
\* the hub in the order of their calls.
Fairness == /\ WF_vars(HandOut)
            /\ WF_vars(Arbiter)
            /\ WF_vars(DamperSender)
            /\ WF_vars(Marshaller)
            /\ \A c \in Client : WF_vars(Writer(c))

FairSpec == Spec /\ Fairness

-----------------------------------------------------------------------------
(* Properties.                                                             *)

\* What a subscription carries.
Carries(ch) == CASE ch = "newreq" -> VentRequest \union LockRequest
                 [] ch = "init" -> Client
                 [] OTHER -> State

ChanOK ==
    /\ chan = [ch \in Chan |-> chan[ch]]
    /\ \A ch \in Chan : chan[ch] \in Seq(Carries(ch)) /\ Len(chan[ch]) <= Cap
    /\ subs \subseteq Chan
    /\ hub = [value |-> hub.value, todo |-> hub.todo] /\ hub.todo \subseteq subs
    /\ \A ch \in hub.todo : hub.value \in Carries(ch)

LocalOK ==
    /\ arbiter \in {"start", "select", "pub", "grant"} /\ sender \in {"start", "select", "send"}
    /\ marshaller \in {"start", "half", "select", "pub"}
    /\ writer \in [Client -> {"none", "subscribed", "select", "leaving", "gone"}]
    /\ timer \in {"armed", "stopped"} /\ tick \in BOOLEAN /\ last_state \in State
    /\ late \subseteq {"newstate", "update"}
    /\ {published, last_cmd, info} \subseteq State \union {None} /\ sent \in Vent
    /\ (sender = "send" => last_cmd # None) /\ (marshaller = "pub" => info # None)
    /\ initdata \in [Client -> SUBSET (State \union {None})] /\ told \subseteq Client
    /\ requests \in 0..MaxReq /\ burst \in 0..(Cap + 2)

\* Every variable keeps to its type, the subscriptions to their capacity (main.go:57).
TypeOK == ChanOK /\ LocalOK

\* The goroutine that empties a subscription waits for the hub itself.
WaitsForHub(ch) ==
    CASE ch = "newreq"   -> arbiter \in {"pub", "grant"}
      [] ch = "newstate" -> FALSE
      [] ch \in {"update", "init"} -> marshaller \in {"half", "pub"}
      [] OTHER -> writer[ch] \in {"subscribed", "leaving"}

\* ... with a value it has taken and must publish before it takes another.
Publishes(ch) == \/ ch = "newreq" /\ arbiter \in {"pub", "grant"}
                 \/ ch \in {"update", "init"} /\ marshaller = "pub"

\* The hub waits for room in a subscription whose goroutine waits for the hub: both,
\* and with them everything else, stand still for good.
WedgedAt(ch) == ch \in hub.todo /\ ~Room(ch) /\ WaitsForHub(ch)
Wedged       == \E ch \in Chan : WedgedAt(ch)

\* That takes a burst: more values than a subscription holds, and one more where the
\* goroutine holds one itself, must have come in since all were last at rest, however
\* long the process has been running and however much went through it before
\* (ventilation.go:96, webserver.go:108, :117, :120).
WedgeTakesBurst ==
    \A ch \in Chan : WedgedAt(ch) => burst > Cap + (IF Publishes(ch) THEN 1 ELSE 0)

\* However connecting, the first answer and the updates interleave, every client that
\* is connected in the end has been written the state the arbiter published last, unless
\* the marshaller subscribed after that, or everything stands still
\* (webserver.go:88-120).
EventuallyTold ==
    <>[](Wedged \/
         (published # None /\ "update" \notin late =>
            \A c \in Client : writer[c] \notin {"leaving", "gone", "none"} => c \in told))

\* ... and the dampers are sent it, whatever state an earlier process left them in,
\* though the sender sleeps while states pile up and skips those it takes for sent
\* (dampersteensy.go:84-101).
EventuallySent ==
    <>[](Wedged \/
         (published # None /\ "newstate" \notin late => sent = published.vent))
=============================================================================
