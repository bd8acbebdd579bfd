-------------------------------- MODULE Outbox --------------------------------
(***************************************************************************)
(* The transactional outbox and the worker that delivers it to the          *)
(* integration endpoints of a tenant:                                       *)
(*   src/apps/api/src/lib/outbox.ts           a committed change's event    *)
(*   src/apps/api/src/lib/outbox-delivery.ts  one batch                     *)
(*   src/apps/api/src/worker.ts               the cycles and their flag     *)
(*   src/apps/api/src/modules/integrations/routes.ts   the endpoints        *)
(*                                                                         *)
(* An event is inserted by the transaction of the change it reports and     *)
(* stamped then; the worker sees it once the transaction commits, which may *)
(* be later than that of an event that was inserted after it.  The batch    *)
(* takes the events in the order of their stamps and compares the stamps    *)
(* with those of the endpoints.                                             *)
(*                                                                         *)
(* The batch uses no transaction: every query and every request to an       *)
(* endpoint is a step of its own, with commits, changes of the endpoints    *)
(* and a crash of the worker in between.  A query that fails rejects the    *)
(* cycle and ends the process, which is started again: that is a crash too. *)
(*                                                                         *)
(* Left out: the other jobs of a cycle, the length of the delays between    *)
(* two attempts, and secrets that cannot be decrypted.                      *)
(***************************************************************************)
EXTENDS Integers, Sequences, FiniteSetsExt

CONSTANTS Endpoints,   \* endpoint ids
          Dead,        \* endpoints that never accept an event
          Topics,      \* event types
          Cycles,      \* ids for the cycles of one worker process
          BatchLimit,  \* events a batch takes (the code takes 100)
          MaxEvents,   \* bound: events
          MaxChanges,  \* bound: endpoints created and changes of endpoints
          MaxFaults    \* bound: crashes and unheard answers

ASSUME DeadAssumption == Dead \subseteq Endpoints
ASSUME BoundsAssumption ==
  /\ BatchLimit \in Nat \ {0}
  /\ MaxEvents \in Nat /\ MaxChanges \in Nat /\ MaxFaults \in Nat

VARIABLES event,       \* event[n]: type of the n-th OutboxEvent row, oldest first
          committed,   \* events whose transaction has committed
          published,   \* events with publishedAt set
          endpoint,    \* endpoint[e]: the IntegrationEndpoint row
          delivery,    \* delivery[n][e]: the OutboxDelivery row
          running,     \* the worker's flag
          cycle,       \* cycle[c]: what the cycle is doing
          received,    \* received[n][e]: how often endpoint e was given event n
          owed,        \* history: owed[n]: endpoints that wanted n at its commit and ever since
          changes,     \* number of changes of endpoints so far
          faults       \* number of crashes and unheard answers so far

workVars == << running, cycle >>
vars == << event, committed, published, endpoint, delivery, running, cycle, received, owed,
           changes, faults >>

Numbers == 1..MaxEvents

\* since: how many events had been stamped when the endpoint was created.
EndpointRows == [ exists : BOOLEAN, active : BOOLEAN, topics : SUBSET Topics, since : Nat ]

NoEndpoint == [ exists |-> FALSE, active |-> FALSE, topics |-> {}, since |-> 0 ]

\* A pending delivery is due, or waiting for its next attempt.
DeliveryRows == { "NONE", "due", "waiting", "delivered" }

Cycle == [ pc : { "off", "event", "rows", "post", "accepted", "failed", "publish" },
           batch : SUBSET Numbers, todo : SUBSET Endpoints, at : SUBSET Endpoints ]

Off == [ pc |-> "off", batch |-> {}, todo |-> {}, at |-> {} ]

\* A delivery row joins a committed event with an endpoint that is older than it.
TypeOK ==
  /\ event \in Seq(Topics) /\ Len(event) <= MaxEvents
  /\ committed \subseteq DOMAIN event
  /\ published \subseteq committed
  /\ endpoint \in [Endpoints -> EndpointRows]
  /\ delivery \in [Numbers -> [Endpoints -> DeliveryRows]]
  /\ \A n \in Numbers, e \in Endpoints :
       delivery[n][e] # "NONE" => n \in committed /\ endpoint[e].since < n
  /\ running \in BOOLEAN
  /\ cycle \in [Cycles -> Cycle]
  /\ received \in [Numbers -> [Endpoints -> Nat]]
  /\ owed \in [Numbers -> SUBSET Endpoints]
  /\ changes \in 0..MaxChanges /\ faults \in 0..MaxFaults

\* Some endpoints are there from the start.
Init ==
  /\ event = << >>
  /\ committed = {}
  /\ published = {}
  /\ endpoint \in [Endpoints -> { NoEndpoint, [exists |-> TRUE, active |-> TRUE,
                                              topics |-> Topics, since |-> 0] }]
  /\ delivery = [n \in Numbers |-> [e \in Endpoints |-> "NONE"]]
  /\ running = FALSE
  /\ cycle = [c \in Cycles |-> Off]
  /\ received = [n \in Numbers |-> [e \in Endpoints |-> 0]]
  /\ owed = [n \in Numbers |-> {}]
  /\ changes = 0
  /\ faults = 0

------------------------------------------------------------------------------

\* Mutant: a new endpoint is sent what is older than it.
Interested_Backlog(rows, n, topic) ==
  { e \in Endpoints : rows[e].active /\ topic \in rows[e].topics }

\* Endpoints that are interested in event n, a row of type topic.
Interested(rows, n, topic) ==
  { e \in Endpoints : rows[e].active /\ rows[e].since < n /\ topic \in rows[e].topics }

\* A business transaction inserts its event.
EmitEvent(topic) ==
  /\ Len(event) < MaxEvents
  /\ event' = Append(event, topic)
  /\ UNCHANGED << committed, published, endpoint, delivery, workVars, received, owed,
                 changes, faults >>

\* It commits, unless it is rolled back: an event that is not committed may remain so.
CommitEvent(n) ==
  /\ n \in DOMAIN event \ committed
  /\ committed' = committed \cup {n}
  /\ owed' = [owed EXCEPT ![n] = Interested(endpoint, n, event[n])]
  /\ UNCHANGED << event, published, endpoint, delivery, workVars, received, changes, faults >>

\* The rows change; an event is no longer owed to an endpoint that lost interest.
ChangeEndpoint(e, row) ==
  /\ changes < MaxChanges
  /\ changes' = changes + 1
  /\ endpoint' = [endpoint EXCEPT ![e] = row]
  /\ owed' = [n \in Numbers |->
       IF n \in committed THEN owed[n] \cap Interested(endpoint', n, event[n]) ELSE owed[n]]
  /\ UNCHANGED << event, committed, published, delivery, workVars, received, faults >>

\* POST /v1/integrations/endpoints
CreateEndpoint(e, topics) ==
  /\ ~endpoint[e].exists
  /\ ChangeEndpoint(e, [exists |-> TRUE, active |-> TRUE, topics |-> topics, since |-> Len(event)])

\* PATCH /v1/integrations/endpoints/:id
UpdateEndpoint(e, active, topics) ==
  /\ endpoint[e].exists
  /\ ChangeEndpoint(e, [endpoint[e] EXCEPT !.active = active, !.topics = topics])

------------------------------------------------------------------------------

Unpublished == committed \ published

\* The oldest BatchLimit of them, or all.
NextBatch ==
  { n \in Unpublished : Cardinality({ m \in Unpublished : m < n }) < BatchLimit }

\* The event a cycle is at: the oldest one of what is left of its batch.
Event(c) == Min(cycle[c].batch)

\* The id a new cycle takes: whichever is free, it makes no difference.
IsFree(c) == cycle[c].pc = "off" /\ c = CHOOSE free \in Cycles : cycle[free].pc = "off"

Goto(c, pc) == cycle' = [cycle EXCEPT ![c].pc = pc]

\* On to the next event of the batch.
Skip(c) ==
  cycle' = [cycle EXCEPT ![c] =
    [Off EXCEPT !.pc = "event", !.batch = cycle[c].batch \ {Event(c)}]]

\* Mutant: a cycle starts while another one is running.
Start_Overlapping(c) ==
  /\ IsFree(c)
  /\ running' = TRUE
  /\ cycle' = [cycle EXCEPT ![c] = [Off EXCEPT !.pc = "event", !.batch = NextBatch]]
  /\ UNCHANGED << event, committed, published, endpoint, delivery, received, owed,
                 changes, faults >>

\* The timer fires: unless a cycle is running, one takes the oldest unpublished events.
Start(c) ==
  /\ IsFree(c)
  /\ ~running
  /\ running' = TRUE
  /\ cycle' = [cycle EXCEPT ![c] = [Off EXCEPT !.pc = "event", !.batch = NextBatch]]
  /\ UNCHANGED << event, committed, published, endpoint, delivery, received, owed,
                 changes, faults >>

\* The interested endpoints of the next event; without any it is published.
ReadEndpoints(c) ==
  /\ cycle[c].pc = "event" /\ cycle[c].batch # {}
  /\ LET interested == Interested(endpoint, Event(c), event[Event(c)]) IN
       cycle' = [cycle EXCEPT ![c].pc = IF interested = {} THEN "publish" ELSE "rows",
                              ![c].todo = interested]
  /\ UNCHANGED << event, committed, published, endpoint, delivery, running, received, owed,
                 changes, faults >>

\* The upsert of one delivery row: an existing row is left alone.
UpsertDelivery(c, e) ==
  /\ cycle[c].pc = "rows" /\ e \in cycle[c].todo
  /\ cycle' = [cycle EXCEPT ![c].todo = @ \ {e}]
  /\ delivery' = [delivery EXCEPT ![Event(c)][e] = IF @ = "NONE" THEN "due" ELSE @]
  /\ UNCHANGED << event, committed, published, endpoint, running, received, owed,
                 changes, faults >>

\* The deliveries of the event that are due now, to whatever became of the endpoint.
ReadDue(c) ==
  /\ cycle[c].pc = "rows" /\ cycle[c].todo = {}
  /\ cycle' = [cycle EXCEPT ![c].pc = "post",
                            ![c].todo = { e \in Endpoints : delivery[Event(c)][e] = "due" }]
  /\ UNCHANGED << event, committed, published, endpoint, delivery, running, received, owed,
                 changes, faults >>

Post(c, e, outcome) ==
  /\ cycle[c].pc = "post" /\ e \in cycle[c].todo
  /\ cycle' = [cycle EXCEPT ![c].pc = outcome, ![c].todo = @ \ {e}, ![c].at = {e}]

\* The endpoint gets the event, and the worker its answer.
Accept(c, e) ==
  /\ e \notin Dead
  /\ Post(c, e, "accepted")
  /\ received' = [received EXCEPT ![Event(c)][e] = @ + 1]
  /\ UNCHANGED << event, committed, published, endpoint, delivery, running, owed,
                 changes, faults >>

\* The endpoint gets the event; the answer is late, or is lost when it is recorded.
AcceptUnheard(c, e) ==
  /\ e \notin Dead
  /\ faults < MaxFaults
  /\ Post(c, e, "failed")
  /\ received' = [received EXCEPT ![Event(c)][e] = @ + 1]
  /\ faults' = faults + 1
  /\ UNCHANGED << event, committed, published, endpoint, delivery, running, owed, changes >>

\* The endpoint cannot be reached or answers with an error.
Refuse(c, e) ==
  /\ Post(c, e, "failed")
  /\ UNCHANGED << event, committed, published, endpoint, delivery, running, received, owed,
                 changes, faults >>

RecordDelivered(c) ==
  /\ cycle[c].pc = "accepted"
  /\ Goto(c, "post")
  /\ delivery' = [delivery EXCEPT ![Event(c)] =
       [e \in Endpoints |-> IF e \in cycle[c].at THEN "delivered" ELSE @[e]]]
  /\ UNCHANGED << event, committed, published, endpoint, running, received, owed,
                 changes, faults >>

\* Mutant: a failed delivery is given up.
RecordFailed_GivesUp(c) ==
  /\ cycle[c].pc = "failed"
  /\ Goto(c, "post")
  /\ delivery' = [delivery EXCEPT ![Event(c)] =
       [e \in Endpoints |-> IF e \in cycle[c].at THEN "delivered" ELSE @[e]]]
  /\ UNCHANGED << event, committed, published, endpoint, running, received, owed,
                 changes, faults >>

\* The next attempt is put off; a row that has been delivered stays so.
RecordFailed(c) ==
  /\ cycle[c].pc = "failed"
  /\ Goto(c, "post")
  /\ delivery' = [delivery EXCEPT ![Event(c)] =
       [e \in Endpoints |-> IF e \in cycle[c].at /\ @[e] = "due" THEN "waiting" ELSE @[e]]]
  /\ UNCHANGED << event, committed, published, endpoint, running, received, owed,
                 changes, faults >>

\* Mutant: deliveries that wait for their next attempt are not counted.
Remaining_Due(n) == { e \in Endpoints : delivery[n][e] = "due" }

Remaining(n) == { e \in Endpoints : delivery[n][e] \in {"due", "waiting"} }

\* Mutant: an event that cannot be published ends the batch.
CountRemaining_EndsBatch(c) ==
  /\ cycle[c].pc = "post" /\ cycle[c].todo = {}
  /\ IF Remaining(Event(c)) = {} THEN Goto(c, "publish")
     ELSE cycle' = [cycle EXCEPT ![c] = [Off EXCEPT !.pc = "event"]]
  /\ UNCHANGED << event, committed, published, endpoint, delivery, running, received, owed,
                 changes, faults >>

\* With every due delivery tried, those that remain are counted.
CountRemaining(c) ==
  /\ cycle[c].pc = "post" /\ cycle[c].todo = {}
  /\ IF Remaining(Event(c)) = {} THEN Goto(c, "publish") ELSE Skip(c)
  /\ UNCHANGED << event, committed, published, endpoint, delivery, running, received, owed,
                 changes, faults >>

Publish(c) ==
  /\ cycle[c].pc = "publish"
  /\ published' = published \cup {Event(c)}
  /\ Skip(c)
  /\ UNCHANGED << event, committed, endpoint, delivery, running, received, owed,
                 changes, faults >>

\* Mutant: the flag is not cleared.
Finish_FlagStays(c) ==
  /\ cycle[c].pc = "event" /\ cycle[c].batch = {}
  /\ cycle' = [cycle EXCEPT ![c] = Off]
  /\ UNCHANGED << event, committed, published, endpoint, delivery, running, received, owed,
                 changes, faults >>

Finish(c) ==
  /\ cycle[c].pc = "event" /\ cycle[c].batch = {}
  /\ cycle' = [cycle EXCEPT ![c] = Off]
  /\ running' = FALSE
  /\ UNCHANGED << event, committed, published, endpoint, delivery, received, owed,
                 changes, faults >>

\* The worker stops, wherever it is, and is started again.
Crash ==
  /\ faults < MaxFaults
  /\ faults' = faults + 1
  /\ running' = FALSE
  /\ cycle' = [c \in Cycles |-> Off]
  /\ UNCHANGED << event, committed, published, endpoint, delivery, received, owed, changes >>

\* A delivery's next attempt becomes due.
TimePasses(n, e) ==
  /\ delivery[n][e] = "waiting"
  /\ delivery' = [delivery EXCEPT ![n][e] = "due"]
  /\ UNCHANGED << event, committed, published, endpoint, workVars, received, owed,
                 changes, faults >>

\* What a cycle does by itself, once it has an answer to its request.
CycleStep(c) ==
  \/ Start(c)
  \/ ReadEndpoints(c)
  \/ \E e \in Endpoints : UpsertDelivery(c, e)
  \/ ReadDue(c)
  \/ \E e \in Endpoints : Accept(c, e) \/ AcceptUnheard(c, e) \/ Refuse(c, e)
  \/ RecordDelivered(c)
  \/ RecordFailed(c)
  \/ CountRemaining(c)
  \/ Publish(c)
  \/ Finish(c)

Subscriptions == (SUBSET Topics) \ {{}}

Next ==
  \/ \E topic \in Topics : EmitEvent(topic)
  \/ \E n \in Numbers : CommitEvent(n)
  \/ \E e \in Endpoints, topics \in Subscriptions : CreateEndpoint(e, topics)
  \/ \E e \in Endpoints, active \in BOOLEAN, topics \in Subscriptions :
       UpdateEndpoint(e, active, topics)
  \/ \E c \in Cycles : CycleStep(c)
  \/ Crash
  \/ \E n \in Numbers, e \in Endpoints : TimePasses(n, e)

\* The timer fires again and again and a request ends within its timeout; time passes;
\* an endpoint that is not dead accepts one of the requests it is sent again and again.
Fairness ==
  /\ WF_vars(\E c \in Cycles : CycleStep(c))
  /\ \A n \in Numbers, e \in Endpoints : WF_vars(TimePasses(n, e))
  /\ \A e \in Endpoints \ Dead : SF_vars(\E c \in Cycles : Accept(c, e))

Spec == Init /\ [][Next]_vars /\ Fairness

------------------------------------------------------------------------------

\* Nothing is dropped: an event is published only when every endpoint that wanted it
\* from its commit on has received it, whatever crashes, failures and changes of the
\* endpoints came between the steps of the batches.  (An endpoint that was switched
\* off meanwhile may miss it for good, although its delivery had been started.)
PublishedIsReceived ==
  \A n \in published : \A e \in owed[n] : received[n][e] > 0

\* Without a crash and an unheard answer no endpoint gets an event twice, and with
\* them it gets it at most once more for each.
RepeatsAreFaults ==
  \A n \in Numbers, e \in Endpoints : received[n][e] <= 1 + faults

\* Unpublished events that wait for a dead endpoint.
Held == { n \in committed \ published : \E e \in Dead : delivery[n][e] # "NONE" }

\* They fill the batch: no other event is taken any more.
Crowded == Cardinality(Held) >= BatchLimit

\* An endpoint that goes on wanting an event gets it in the end, also next to a dead
\* endpoint, unless the events held by dead endpoints fill the batch.
OwedIsReceived ==
  \A n \in Numbers, e \in Endpoints \ Dead :
    e \in owed[n] ~> received[n][e] > 0 \/ e \notin owed[n] \/ Crowded

\* Every committed event is published in the end, or a dead endpoint holds it.
EventsArePublished ==
  \A n \in Numbers :
    n \in committed ~> n \in published \cup Held \/ Crowded
==============================================================================
