----------------------------- MODULE OutboxProofs -----------------------------
(***************************************************************************)
(* Theorems about Outbox, for every set of endpoints, event types and       *)
(* cycles, every size of a batch and any number of events, changes, crashes *)
(* and unheard answers.                                                     *)
(*                                                                         *)
(* The argument: the flag admits one cycle at a time, so whatever a cycle   *)
(* read about the rows of its event only changes in its favour until it     *)
(* acts on it.  An endpoint to which the event is owed has a delivery row   *)
(* from the upserts on; the event is published when none of the rows is     *)
(* left, and a row goes only with an answer of its endpoint.  An endpoint   *)
(* is sent what it may already have only after a crash or an unheard answer.*)
(***************************************************************************)
EXTENDS Outbox, FiniteFacts

\* The running flag admits one cycle at a time.
OneCycle ==
  \A c \in Cycles : cycle[c].pc # "off" =>
    running /\ \A d \in Cycles : cycle[d].pc # "off" => d = c

\* What a cycle relies on, the event n being the one it is at.
ReliesOn(work, n) ==
  /\ work.pc = "rows" =>
       /\ \A e \in work.todo : endpoint[e].exists /\ endpoint[e].since < n
       /\ \A e \in owed[n] : e \in work.todo \/ delivery[n][e] # "NONE"
  /\ work.pc \in {"post", "accepted", "failed"} =>
       /\ \A e \in work.todo : delivery[n][e] = "due"
       /\ \A e \in owed[n] : delivery[n][e] # "NONE"
  /\ work.pc \in {"accepted", "failed"} =>
       \A e \in work.at : e \notin work.todo /\ delivery[n][e] # "NONE"
  /\ work.pc = "accepted" => \A e \in work.at : received[n][e] > 0
  /\ work.pc = "publish" => \A e \in owed[n] : received[n][e] > 0

\* What a publishing cycle remembers, typed and consistent.
WorkOK(work) ==
  /\ work.batch \subseteq committed
  /\ work.pc \notin {"off", "event"} => work.batch # {}
  /\ work.batch # {} => ReliesOn(work, Min(work.batch))

\* The endpoints that have a part in the rows are there, and what is owed is wanted.
RowsOK ==
  /\ \A e \in Endpoints : endpoint[e].active => endpoint[e].exists
  /\ \A n \in Numbers, e \in Endpoints : delivery[n][e] # "NONE" => endpoint[e].exists
  /\ \A n \in Numbers, e \in Endpoints : delivery[n][e] = "delivered" => received[n][e] > 0
  /\ \A n \in committed : owed[n] \subseteq Interested(endpoint, n, event[n])

\* The answer of e for event n has been heard, and is recorded or about to be.
Answered(n, e) ==
  \/ delivery[n][e] = "delivered"
  \/ \E c \in Cycles : cycle[c].pc = "accepted" /\ e \in cycle[c].at /\ Event(c) = n

\* Every receipt but one that was answered took a fault.
ReceiptsCounted ==
  \A n \in Numbers, e \in Endpoints :
    received[n][e] <= IF Answered(n, e) THEN 1 + faults ELSE faults

\* It holds of every cycle.
WorkInv == \A c \in Cycles : WorkOK(cycle[c])

\* The inductive invariant.
OutboxInv ==
  TypeOK /\ OneCycle /\ RowsOK /\ WorkInv /\ ReceiptsCounted /\ PublishedIsReceived

------------------------------------------------------------------------------

\* The event a cycle is at is one of its batch.
LEMMA EventInBatch ==
  ASSUME NEW batch \in SUBSET Numbers, batch # {}
  PROVE  Min(batch) \in batch /\ Min(batch) \in Numbers
<1>1. Numbers \subseteq Nat
  BY BoundsAssumption DEF Numbers
<1> QED BY <1>1, MinIsSmallest

\* Events are numbered.
LEMMA EventsAreNumbers ==
  ASSUME TypeOK
  PROVE  /\ DOMAIN event \subseteq Numbers /\ DOMAIN event = 1..Len(event) /\ Len(event) \in Nat
         /\ committed \subseteq Numbers /\ published \subseteq Numbers
BY BoundsAssumption DEF TypeOK, Numbers

\* A cycle goes on while the rows stay as they are.
LEMMA CycleMoves ==
  ASSUME OutboxInv, NEW c \in Cycles, NEW work \in Cycle, WorkOK(work),
         cycle' = [cycle EXCEPT ![c] = work],
         cycle[c].pc # "accepted", work.pc # "accepted",
         cycle[c].pc = "off" => ~running,
         running' \in BOOLEAN, running' = (work.pc # "off"),
         UNCHANGED << event, committed, endpoint, delivery, received, owed, changes, faults >>,
         published' \subseteq committed,
         \A n \in published' \ published : \A e \in owed[n] : received[n][e] > 0
  PROVE  OutboxInv'
<1>1. \A d \in Cycles : cycle'[d] = IF d = c THEN work ELSE cycle[d]
  BY DEF OutboxInv, TypeOK
<1>2. TypeOK'
  BY <1>1 DEF OutboxInv, TypeOK
<1>3. OneCycle'
  BY <1>1 DEF OutboxInv, OneCycle
<1>4. RowsOK'
  BY DEF OutboxInv, RowsOK
<1>5. WorkInv'
  <2> SUFFICES ASSUME NEW d \in Cycles PROVE WorkOK(cycle[d])'
    BY DEF WorkInv
  <2>1. WorkOK(cycle[d]) => WorkOK(cycle[d])' \/ d = c
    BY <1>1 DEF WorkOK, ReliesOn
  <2>2. d = c => WorkOK(cycle[d])'
    BY <1>1 DEF WorkOK, ReliesOn
  <2> QED BY <2>1, <2>2 DEF OutboxInv, WorkInv
<1>6. ReceiptsCounted'
  <2>1. \A n \in Numbers, e \in Endpoints : Answered(n, e)' <=> Answered(n, e)
    BY <1>1 DEF Answered, Event
  <2> QED BY <2>1 DEF OutboxInv, ReceiptsCounted
<1>7. PublishedIsReceived'
  BY DEF OutboxInv, PublishedIsReceived
<1> QED BY <1>2, <1>3, <1>4, <1>5, <1>6, <1>7 DEF OutboxInv

\* The steps that only read, each for the cycle that takes it.
LEMMA StartStep ==
  ASSUME OutboxInv, NEW c \in Cycles, Start(c)
  PROVE  OutboxInv'
<1> DEFINE work == [Off EXCEPT !.pc = "event", !.batch = NextBatch]
<1>1. work.pc = "event" /\ work.batch = NextBatch
  BY DEF Off
<1>2. NextBatch \subseteq committed /\ NextBatch \in SUBSET Numbers
  BY EventsAreNumbers DEF OutboxInv, NextBatch, Unpublished
<1>3. work \in Cycle
  BY <1>2 DEF Cycle, Off
<1>4. cycle' = [cycle EXCEPT ![c] = work] /\ running' = TRUE
      /\ cycle[c].pc = "off" /\ ~running
      /\ UNCHANGED << event, committed, published, endpoint, delivery, received, owed, changes,
                      faults >>
  BY DEF Start, IsFree
<1> HIDE DEF work
<1>5. WorkOK(work)
  BY <1>1, <1>2 DEF WorkOK, ReliesOn
<1> QED BY <1>1, <1>3, <1>4, <1>5, CycleMoves DEF OutboxInv, TypeOK

\* What is known of a cycle that is at work on an event.
LEMMA AtWork ==
  ASSUME OutboxInv, NEW c \in Cycles, cycle[c].batch # {}, cycle[c].pc # "off"
  PROVE  /\ cycle[c] \in Cycle /\ running /\ WorkOK(cycle[c]) /\ ReliesOn(cycle[c], Event(c))
         /\ Event(c) \in cycle[c].batch /\ Event(c) \in committed /\ Event(c) \in Numbers
<1>1. cycle[c] \in Cycle /\ WorkOK(cycle[c]) /\ running
  BY DEF OutboxInv, TypeOK, WorkInv, OneCycle
<1>2. cycle[c].batch \in SUBSET Numbers
  BY <1>1 DEF Cycle
<1> QED BY <1>1, <1>2, EventInBatch DEF WorkOK, Event

\* Reading the endpoints writes no row.
LEMMA ReadEndpointsStep ==
  ASSUME OutboxInv, NEW c \in Cycles, ReadEndpoints(c)
  PROVE  OutboxInv'
<1> DEFINE n == Event(c)
           interested == Interested(endpoint, n, event[n])
           work == [cycle[c] EXCEPT !.pc = IF interested = {} THEN "publish" ELSE "rows",
                                    !.todo = interested]
<1>1. cycle[c].pc = "event" /\ cycle[c].batch # {}
      /\ UNCHANGED << event, committed, published, endpoint, delivery, running, received, owed,
                      changes, faults >>
  BY DEF ReadEndpoints
<1>2. cycle[c] \in Cycle /\ running /\ WorkOK(cycle[c]) /\ n \in committed /\ n \in Numbers
  BY <1>1, AtWork
<1>3. cycle' = [cycle EXCEPT ![c] = work]
  BY <1>2 DEF ReadEndpoints, OutboxInv, TypeOK, Cycle
<1>4. interested \subseteq Endpoints
      /\ \A e \in interested : endpoint[e].active /\ endpoint[e].since < n
  BY DEF Interested
<1>5. owed[n] \subseteq interested
  BY <1>2 DEF OutboxInv, RowsOK
<1>6. n = Min(cycle[c].batch)
  BY DEF Event
<1> HIDE DEF n, interested
<1>7. work \in Cycle /\ work.batch = cycle[c].batch /\ work.todo = interested
      /\ work.pc = IF interested = {} THEN "publish" ELSE "rows"
  BY <1>2, <1>4 DEF Cycle
<1> HIDE DEF work
<1>8. WorkOK(work)
  <2>1. \A e \in interested : endpoint[e].exists /\ endpoint[e].since < n
    BY <1>4 DEF OutboxInv, RowsOK
  <2>2. ReliesOn(work, n)
    BY <1>5, <1>7, <2>1 DEF ReliesOn
  <2> QED BY <1>1, <1>2, <1>6, <1>7, <2>2 DEF WorkOK
<1> QED BY <1>1, <1>2, <1>3, <1>7, <1>8, CycleMoves DEF OutboxInv, TypeOK

\* Reading what is due writes no row.
LEMMA ReadDueStep ==
  ASSUME OutboxInv, NEW c \in Cycles, ReadDue(c)
  PROVE  OutboxInv'
<1> DEFINE n == Event(c)
           due == { e \in Endpoints : delivery[n][e] = "due" }
           work == [cycle[c] EXCEPT !.pc = "post", !.todo = due]
<1>1. cycle[c].pc = "rows" /\ cycle[c].todo = {} /\ cycle[c].batch # {}
      /\ UNCHANGED << event, committed, published, endpoint, delivery, running, received, owed,
                      changes, faults >>
  BY DEF ReadDue, OutboxInv, WorkInv, WorkOK
<1>2. cycle[c] \in Cycle /\ running /\ WorkOK(cycle[c]) /\ ReliesOn(cycle[c], n)
  BY <1>1, AtWork
<1>3. cycle' = [cycle EXCEPT ![c] = work]
  BY <1>2 DEF ReadDue, OutboxInv, TypeOK, Cycle
<1>4. n = Min(cycle[c].batch)
  BY DEF Event
<1> HIDE DEF n
<1>5. work \in Cycle /\ work.batch = cycle[c].batch /\ work.todo = due /\ work.pc = "post"
  BY <1>2 DEF Cycle
<1> HIDE DEF work
<1>6. WorkOK(work)
  BY <1>1, <1>2, <1>4, <1>5 DEF WorkOK, ReliesOn
<1> QED BY <1>1, <1>2, <1>3, <1>5, <1>6, CycleMoves DEF OutboxInv, TypeOK

\* A request that came to nothing leaves the rows as they are.
LEMMA RefuseStep ==
  ASSUME OutboxInv, NEW c \in Cycles, NEW e \in Endpoints, Refuse(c, e)
  PROVE  OutboxInv'
<1> DEFINE work == [cycle[c] EXCEPT !.pc = "failed", !.todo = @ \ {e}, !.at = {e}]
<1>1. /\ cycle[c].pc = "post" /\ e \in cycle[c].todo /\ cycle[c].batch # {}
      /\ UNCHANGED << event, committed, published, endpoint, delivery, running, received, owed,
                      changes, faults >>
  BY DEF Refuse, Post, OutboxInv, WorkInv, WorkOK
<1>2. cycle[c] \in Cycle /\ running /\ ReliesOn(cycle[c], Event(c)) /\ WorkOK(cycle[c])
  BY <1>1, AtWork
<1>3. cycle' = [cycle EXCEPT ![c] = work]
  BY <1>2 DEF Refuse, Post, OutboxInv, TypeOK, Cycle
<1>4. /\ work \in Cycle /\ work.pc = "failed" /\ work.batch = cycle[c].batch
      /\ work.todo = cycle[c].todo \ {e} /\ work.at = {e}
  BY <1>2 DEF Cycle
<1> HIDE DEF work
<1>5. WorkOK(work)
  BY <1>1, <1>2, <1>4 DEF WorkOK, ReliesOn, Event
<1> QED BY <1>1, <1>2, <1>3, <1>4, <1>5, CycleMoves DEF OutboxInv, TypeOK

\* Counting what remains writes no row.
LEMMA CountRemainingStep ==
  ASSUME OutboxInv, NEW c \in Cycles, CountRemaining(c)
  PROVE  OutboxInv'
<1>1. cycle[c].pc = "post" /\ cycle[c].batch # {}
      /\ UNCHANGED << event, committed, published, endpoint, delivery, running, received, owed,
                      changes, faults >>
  BY DEF CountRemaining, OutboxInv, WorkInv, WorkOK
<1>2. /\ cycle[c] \in Cycle /\ running /\ WorkOK(cycle[c]) /\ ReliesOn(cycle[c], Event(c))
      /\ Event(c) \in Numbers
  BY <1>1, AtWork
<1>3. CASE Remaining(Event(c)) = {}
  <2> DEFINE work == [cycle[c] EXCEPT !.pc = "publish"]
  <2>1. cycle' = [cycle EXCEPT ![c] = work]
    BY <1>2, <1>3 DEF CountRemaining, Goto, OutboxInv, TypeOK, Cycle
  <2>2. work \in Cycle /\ work.pc = "publish" /\ work.batch = cycle[c].batch
    BY <1>2 DEF Cycle
  <2>3. \A e \in owed[Event(c)] : received[Event(c)][e] > 0
    <3> SUFFICES ASSUME NEW e \in owed[Event(c)] PROVE received[Event(c)][e] > 0
      OBVIOUS
    <3>1. e \in Endpoints /\ delivery[Event(c)][e] \in DeliveryRows
      BY <1>2 DEF OutboxInv, TypeOK
    <3>2. delivery[Event(c)][e] = "delivered"
      BY <1>1, <1>2, <1>3, <3>1 DEF ReliesOn, Remaining, DeliveryRows
    <3> QED BY <1>2, <3>1, <3>2 DEF OutboxInv, RowsOK
  <2> HIDE DEF work
  <2>4. WorkOK(work)
    <3>1. ReliesOn(work, Event(c))
      BY <2>2, <2>3 DEF ReliesOn
    <3> QED BY <1>1, <1>2, <2>2, <3>1 DEF WorkOK, Event
  <2> QED BY <1>1, <1>2, <2>1, <2>2, <2>4, CycleMoves DEF OutboxInv, TypeOK
<1>4. CASE Remaining(Event(c)) # {}
  <2> DEFINE work == [Off EXCEPT !.pc = "event", !.batch = cycle[c].batch \ {Event(c)}]
  <2>1. cycle' = [cycle EXCEPT ![c] = work]
    BY <1>4 DEF CountRemaining, Skip
  <2>2. work \in Cycle /\ work.pc = "event" /\ work.batch \subseteq cycle[c].batch
    BY <1>2 DEF Cycle, Off
  <2> HIDE DEF work
  <2>3. WorkOK(work)
    BY <1>2, <2>2 DEF WorkOK, ReliesOn
  <2> QED BY <1>1, <1>2, <2>1, <2>2, <2>3, CycleMoves DEF OutboxInv, TypeOK
<1> QED BY <1>3, <1>4

\* An event is marked published only when nothing of it remains.
LEMMA PublishStep ==
  ASSUME OutboxInv, NEW c \in Cycles, Publish(c)
  PROVE  OutboxInv'
<1> DEFINE work == [Off EXCEPT !.pc = "event", !.batch = cycle[c].batch \ {Event(c)}]
<1>1. cycle[c].pc = "publish" /\ cycle[c].batch # {}
      /\ published' = published \cup {Event(c)} /\ cycle' = [cycle EXCEPT ![c] = work]
      /\ UNCHANGED << event, committed, endpoint, delivery, running, received, owed, changes,
                      faults >>
  BY DEF Publish, Skip, OutboxInv, WorkInv, WorkOK
<1>2. /\ cycle[c] \in Cycle /\ running /\ WorkOK(cycle[c]) /\ ReliesOn(cycle[c], Event(c))
      /\ Event(c) \in committed
  BY <1>1, AtWork
<1>3. work \in Cycle /\ work.pc = "event" /\ work.batch \subseteq cycle[c].batch
  BY <1>2 DEF Cycle, Off
<1> HIDE DEF work
<1>4. WorkOK(work)
  BY <1>2, <1>3 DEF WorkOK, ReliesOn
<1>5. \A e \in owed[Event(c)] : received[Event(c)][e] > 0
  BY <1>1, <1>2 DEF ReliesOn
<1>6. published' \subseteq committed
      /\ \A n \in published' \ published : \A e \in owed[n] : received[n][e] > 0
  BY <1>1, <1>2, <1>5 DEF OutboxInv, TypeOK
<1> QED BY <1>1, <1>2, <1>3, <1>4, <1>6, CycleMoves DEF OutboxInv, TypeOK

\* A cycle ends when its batch is done.
LEMMA FinishStep ==
  ASSUME OutboxInv, NEW c \in Cycles, Finish(c)
  PROVE  OutboxInv'
<1>1. Off \in Cycle /\ Off.pc = "off" /\ WorkOK(Off)
  BY DEF Off, Cycle, WorkOK
<1>2. cycle[c].pc = "event" /\ cycle' = [cycle EXCEPT ![c] = Off] /\ running' = FALSE
      /\ UNCHANGED << event, committed, published, endpoint, delivery, received, owed, changes,
                      faults >>
  BY DEF Finish
<1> QED BY <1>1, <1>2, CycleMoves DEF OutboxInv, TypeOK

------------------------------------------------------------------------------

\* A cycle goes on with its event n, and changes none but the rows of n.
Advances(c, n) ==
  /\ cycle[c].pc # "off" /\ cycle[c].batch # {} /\ n = Event(c)
  /\ cycle' \in [Cycles -> Cycle] /\ \A d \in Cycles \ {c} : cycle'[d] = cycle[d]
  /\ cycle'[c].pc # "off" /\ cycle'[c].batch = cycle[c].batch
  /\ UNCHANGED << event, committed, published, endpoint, running, owed, changes >>
  /\ faults' \in 0..MaxFaults /\ faults <= faults'
  /\ delivery' \in [Numbers -> [Endpoints -> DeliveryRows]]
  /\ received' \in [Numbers -> [Endpoints -> Nat]]
  /\ \A m \in Numbers \ {n} : delivery'[m] = delivery[m] /\ received'[m] = received[m]

\* The rows of n after that, as the invariants want them.
Accounts(c, n) ==
  \A e \in Endpoints :
    /\ received[n][e] <= received'[n][e]
    /\ delivery'[n][e] # "NONE" => endpoint[e].exists /\ endpoint[e].since < n
    /\ delivery'[n][e] = "delivered" => received'[n][e] > 0
    /\ received'[n][e] <= IF delivery'[n][e] = "delivered"
                             \/ (cycle'[c].pc = "accepted" /\ e \in cycle'[c].at)
                          THEN 1 + faults' ELSE faults'

\* A step of one cycle that advances the rows of its event keeps the invariant.
LEMMA RowsChange ==
  ASSUME OutboxInv, NEW c \in Cycles, NEW n, Advances(c, n), Accounts(c, n),
         ReliesOn(cycle[c], Event(c))'
  PROVE  OutboxInv'
<1>1. \A d \in Cycles \ {c} : cycle'[d] = cycle[d]
  BY DEF Advances
<1>2. n \in Numbers /\ n \in committed /\ running /\ WorkOK(cycle[c])
  BY AtWork DEF Advances
<1>3. \A d \in Cycles \ {c} : cycle[d].pc = "off"
  BY DEF OutboxInv, OneCycle, Advances
<1>4. TypeOK'
  <2>1. \A m \in Numbers, e \in Endpoints :
          delivery'[m][e] # "NONE" => m \in committed /\ endpoint[e].since < m
    <3>1. \A m \in Numbers \ {n}, e \in Endpoints :
            delivery'[m][e] # "NONE" => m \in committed /\ endpoint[e].since < m
      <4>1. \A m \in Numbers \ {n} : delivery'[m] = delivery[m]
        BY DEF Advances
      <4>2. \A m \in Numbers, e \in Endpoints :
              delivery[m][e] # "NONE" => m \in committed /\ endpoint[e].since < m
        BY DEF OutboxInv, TypeOK
      <4> QED BY <4>1, <4>2
    <3>2. \A e \in Endpoints : delivery'[n][e] # "NONE" => n \in committed /\ endpoint[e].since < n
      BY <1>2 DEF Accounts
    <3> QED BY <3>1, <3>2
  <2>2. TypeOK
    BY DEF OutboxInv
  <2> QED BY <2>1, <2>2 DEF TypeOK, Advances
<1>5. OneCycle'
  BY <1>1, <1>2, <1>3 DEF OneCycle, Advances
<1>6. RowsOK'
  <2>1. \A m \in Numbers, e \in Endpoints :
          /\ delivery'[m][e] # "NONE" => endpoint'[e].exists
          /\ delivery'[m][e] = "delivered" => received'[m][e] > 0
    BY DEF OutboxInv, RowsOK, Advances, Accounts
  <2> QED BY <2>1 DEF OutboxInv, RowsOK, Advances
<1>7. WorkInv'
  <2> SUFFICES ASSUME NEW d \in Cycles PROVE WorkOK(cycle[d])'
    BY DEF WorkInv
  <2>1. CASE d = c
    BY <1>2, <2>1 DEF WorkOK, Event, Advances
  <2>2. CASE d # c
    <3>1. cycle'[d] = cycle[d] /\ cycle[d].pc = "off" /\ WorkOK(cycle[d])
      BY <1>1, <1>3, <2>2 DEF OutboxInv, WorkInv
    <3> QED BY <3>1 DEF WorkOK, ReliesOn, Advances
  <2> QED BY <2>1, <2>2
<1>8. ReceiptsCounted'
  <2> SUFFICES ASSUME NEW m \in Numbers, NEW e \in Endpoints
               PROVE  received'[m][e] <= IF Answered(m, e)' THEN 1 + faults' ELSE faults'
    BY DEF ReceiptsCounted
  <2>1. CASE m = n
    <3>1. (delivery'[n][e] = "delivered" \/ (cycle'[c].pc = "accepted" /\ e \in cycle'[c].at))
            => Answered(m, e)'
      BY <2>1 DEF Answered, Event, Advances
    <3>2. received'[n][e] \in Nat /\ faults' \in Nat
      BY <1>2 DEF Advances
    <3> QED BY <2>1, <3>1, <3>2 DEF Accounts
  <2>2. CASE m # n
    <3>1. delivery'[m] = delivery[m] /\ received'[m] = received[m] /\ received[m][e] \in Nat
      BY <2>2 DEF OutboxInv, TypeOK, Advances
    <3>2. Answered(m, e) => Answered(m, e)'
      BY <1>1, <1>3, <2>2, <3>1 DEF Answered, Event, Advances
    <3>3. received[m][e] <= IF Answered(m, e) THEN 1 + faults ELSE faults
      BY DEF OutboxInv, ReceiptsCounted
    <3>4. faults \in Int /\ faults' \in Int /\ faults <= faults'
      BY DEF OutboxInv, TypeOK, Advances
    <3> QED BY <3>1, <3>2, <3>3, <3>4
  <2> QED BY <2>1, <2>2
<1>9. PublishedIsReceived'
  <2> SUFFICES ASSUME NEW m \in published, NEW e \in owed[m] PROVE received'[m][e] > 0
    BY DEF PublishedIsReceived, Advances
  <2>1. m \in Numbers /\ e \in Endpoints /\ received[m][e] \in Nat /\ received[m][e] > 0
    BY EventsAreNumbers DEF OutboxInv, TypeOK, PublishedIsReceived
  <2>2. received[m][e] <= received'[m][e] /\ received'[m][e] \in Nat
    BY <2>1 DEF Advances, Accounts
  <2> QED BY <2>1, <2>2
<1> QED BY <1>4, <1>5, <1>6, <1>7, <1>8, <1>9 DEF OutboxInv

\* The rows of the event a cycle is at.
LEMMA RowsAtWork ==
  ASSUME OutboxInv, NEW c \in Cycles, cycle[c].pc # "off", cycle[c].batch # {},
         NEW n, n = Event(c)
  PROVE  /\ faults \in 0..MaxFaults /\ faults \in Nat
         /\ \A e \in Endpoints :
              /\ received[n][e] \in Nat /\ delivery[n][e] \in DeliveryRows
              /\ delivery[n][e] # "NONE" => endpoint[e].exists /\ endpoint[e].since < n
              /\ delivery[n][e] = "delivered" => received[n][e] > 0
              /\ received[n][e] <= IF delivery[n][e] = "delivered"
                                      \/ (cycle[c].pc = "accepted" /\ e \in cycle[c].at)
                                   THEN 1 + faults ELSE faults
<1>1. n \in Numbers
  BY AtWork
<1>2. faults \in 0..MaxFaults /\ faults \in Nat
  BY DEF OutboxInv, TypeOK
<1>3. ASSUME NEW e \in Endpoints
      PROVE  /\ received[n][e] \in Nat /\ delivery[n][e] \in DeliveryRows
             /\ delivery[n][e] # "NONE" => endpoint[e].exists /\ endpoint[e].since < n
             /\ delivery[n][e] = "delivered" => received[n][e] > 0
  BY <1>1 DEF OutboxInv, TypeOK, RowsOK
<1>4. ASSUME NEW e \in Endpoints
      PROVE  received[n][e] <= IF delivery[n][e] = "delivered"
                                  \/ (cycle[c].pc = "accepted" /\ e \in cycle[c].at)
                               THEN 1 + faults ELSE faults
  <2>1. Answered(n, e) => delivery[n][e] = "delivered"
                            \/ (cycle[c].pc = "accepted" /\ e \in cycle[c].at)
    BY DEF Answered, OutboxInv, OneCycle
  <2>2. received[n][e] <= IF Answered(n, e) THEN 1 + faults ELSE faults
    BY <1>1 DEF OutboxInv, ReceiptsCounted
  <2> QED BY <1>2, <1>3, <2>1, <2>2
<1> QED BY <1>2, <1>3, <1>4

\* Creating a delivery row that is not there yet, or finding it.
LEMMA UpsertDeliveryStep ==
  ASSUME OutboxInv, NEW c \in Cycles, NEW e \in Endpoints, UpsertDelivery(c, e)
  PROVE  OutboxInv'
<1> DEFINE n == Event(c)
           work == [cycle[c] EXCEPT !.todo = @ \ {e}]
           row == IF delivery[n][e] = "NONE" THEN "due" ELSE delivery[n][e]
<1>1. cycle[c].pc = "rows" /\ e \in cycle[c].todo /\ cycle[c].batch # {}
      /\ UNCHANGED << event, committed, published, endpoint, running, received, owed, changes,
                      faults >>
  BY DEF UpsertDelivery, OutboxInv, WorkInv, WorkOK
<1>2. cycle[c] \in Cycle /\ running /\ ReliesOn(cycle[c], n) /\ n \in Numbers
  BY <1>1, AtWork
<1>3. /\ faults \in 0..MaxFaults /\ faults \in Nat
      /\ \A a \in Endpoints :
           /\ received[n][a] \in Nat /\ delivery[n][a] \in DeliveryRows
           /\ delivery[n][a] # "NONE" => endpoint[a].exists /\ endpoint[a].since < n
           /\ delivery[n][a] = "delivered" => received[n][a] > 0
           /\ received[n][a] <= IF delivery[n][a] = "delivered" THEN 1 + faults ELSE faults
  BY <1>1, RowsAtWork
<1>4. cycle' = [cycle EXCEPT ![c] = work]
  BY <1>2 DEF UpsertDelivery, OutboxInv, TypeOK, Cycle
<1>5. /\ delivery' \in [Numbers -> [Endpoints -> DeliveryRows]]
      /\ \A m \in Numbers \ {n} : delivery'[m] = delivery[m]
      /\ \A a \in Endpoints : delivery'[n][a] = IF a = e THEN row ELSE delivery[n][a]
  <2>1. delivery' = [delivery EXCEPT ![n][e] = row]
    BY <1>2 DEF UpsertDelivery, OutboxInv, TypeOK
  <2>2. row \in DeliveryRows
    BY <1>3 DEF DeliveryRows
  <2> HIDE DEF row, n
  <2> QED BY <1>2, <2>1, <2>2 DEF OutboxInv, TypeOK
<1>6. work \in Cycle /\ work.pc = "rows" /\ work.batch = cycle[c].batch
      /\ work.todo = cycle[c].todo \ {e}
  BY <1>1, <1>2 DEF Cycle
<1>7. received' \in [Numbers -> [Endpoints -> Nat]]
  BY <1>1 DEF OutboxInv, TypeOK
<1>8. n = Event(c)
  OBVIOUS
<1>9. endpoint[e].exists /\ endpoint[e].since < n
  BY <1>1, <1>2 DEF ReliesOn
<1> HIDE DEF n, work
<1>10. cycle'[c] = work /\ Event(c)' = n
  BY <1>4, <1>6, <1>8 DEF OutboxInv, TypeOK, Event
<1>11. ReliesOn(cycle[c], Event(c))'
  <2>1. \A a \in work.todo : endpoint'[a].exists /\ endpoint'[a].since < n
    BY <1>1, <1>2, <1>6 DEF ReliesOn
  <2>2. \A a \in owed'[n] : a \in work.todo \/ delivery'[n][a] # "NONE"
    <3>1. \A a \in owed[n] : a \in Endpoints
      BY <1>2 DEF OutboxInv, TypeOK
    <3> QED BY <1>1, <1>2, <1>5, <1>6, <3>1 DEF ReliesOn
  <2> QED BY <1>6, <1>10, <2>1, <2>2 DEF ReliesOn
<1>12. Accounts(c, n)
  <2> SUFFICES ASSUME NEW a \in Endpoints
               PROVE  /\ received[n][a] <= received'[n][a]
                      /\ delivery'[n][a] # "NONE" => endpoint[a].exists /\ endpoint[a].since < n
                      /\ delivery'[n][a] = "delivered" => received'[n][a] > 0
                      /\ received'[n][a] <= IF delivery'[n][a] = "delivered"
                            THEN 1 + faults' ELSE faults'
    BY <1>6, <1>10 DEF Accounts
  <2>1. received'[n][a] = received[n][a] /\ faults' = faults
    BY <1>1
  <2>2. delivery'[n][a] = IF a = e THEN row ELSE delivery[n][a]
    BY <1>5
  <2> QED BY <1>3, <1>9, <2>1, <2>2
<1>13. Advances(c, n)
  BY <1>1, <1>3, <1>4, <1>5, <1>6, <1>7, <1>8 DEF Advances, OutboxInv, TypeOK
<1> QED BY <1>11, <1>12, <1>13, RowsChange

\* One more receipt by e of the event c is at.
LEMMA Receiving ==
  ASSUME OutboxInv, NEW c \in Cycles, NEW e \in Endpoints, Event(c) \in Numbers,
         received' = [received EXCEPT ![Event(c)][e] = @ + 1]
  PROVE  /\ received' \in [Numbers -> [Endpoints -> Nat]]
         /\ \A m \in Numbers \ {Event(c)} : received'[m] = received[m]
         /\ \A a \in Endpoints : received'[Event(c)][a] =
              IF a = e THEN received[Event(c)][a] + 1 ELSE received[Event(c)][a]
<1> DEFINE n == Event(c)
<1>1. received \in [Numbers -> [Endpoints -> Nat]] /\ n \in Numbers
      /\ received' = [received EXCEPT ![n][e] = @ + 1]
  BY DEF OutboxInv, TypeOK
<1> HIDE DEF n
<1>2. /\ received' \in [Numbers -> [Endpoints -> Nat]]
      /\ \A m \in Numbers \ {n} : received'[m] = received[m]
      /\ \A a \in Endpoints : received'[n][a] =
           IF a = e THEN received[n][a] + 1 ELSE received[n][a]
  BY <1>1
<1> QED BY <1>2 DEF n

\* The endpoint gets the event; the worker hears of it, or there is a fault.
LEMMA AcceptBothStep ==
  ASSUME OutboxInv, NEW c \in Cycles, NEW e \in Endpoints,
         NEW outcome \in {"accepted", "failed"}, Post(c, e, outcome),
         received' = [received EXCEPT ![Event(c)][e] = @ + 1],
         faults' \in 0..MaxFaults,
         faults' = IF outcome = "accepted" THEN faults ELSE faults + 1,
         UNCHANGED << event, committed, published, endpoint, delivery, running, owed, changes >>
  PROVE  OutboxInv'
<1> DEFINE n == Event(c)
           work == [cycle[c] EXCEPT !.pc = outcome, !.todo = @ \ {e}, !.at = {e}]
<1>1. /\ cycle' = [cycle EXCEPT ![c] = work]
      /\ work \in Cycle /\ work.pc = outcome /\ work.batch = cycle[c].batch
      /\ work.todo = cycle[c].todo \ {e} /\ work.at = {e}
      /\ cycle[c].pc = "post" /\ cycle[c].batch # {} /\ running
      /\ ReliesOn(cycle[c], n) /\ n \in Numbers /\ delivery[n][e] = "due"
  <2>1. cycle[c].pc = "post" /\ e \in cycle[c].todo /\ cycle[c].batch # {}
    BY DEF Post, OutboxInv, WorkInv, WorkOK
  <2>2. cycle[c] \in Cycle /\ running /\ ReliesOn(cycle[c], n) /\ n \in Numbers
    BY <2>1, AtWork
  <2>3. delivery[n][e] = "due"
    BY <2>1, <2>2 DEF ReliesOn
  <2>4. outcome \in {"accepted", "failed"} /\ cycle' = [cycle EXCEPT ![c] = work]
    BY <2>2 DEF Post, OutboxInv, TypeOK, Cycle
  <2>5. /\ work \in Cycle /\ work.pc = outcome /\ work.batch = cycle[c].batch
        /\ work.todo = cycle[c].todo \ {e} /\ work.at = {e}
    BY <2>2 DEF Cycle
  <2> QED BY <2>1, <2>2, <2>3, <2>4, <2>5
<1>2. /\ faults \in 0..MaxFaults /\ faults \in Nat
      /\ \A a \in Endpoints :
           /\ received[n][a] \in Nat /\ delivery[n][a] \in DeliveryRows
           /\ delivery[n][a] # "NONE" => endpoint[a].exists /\ endpoint[a].since < n
           /\ delivery[n][a] = "delivered" => received[n][a] > 0
           /\ received[n][a] <= IF delivery[n][a] = "delivered" THEN 1 + faults ELSE faults
  BY <1>1, RowsAtWork
<1>3. /\ received' \in [Numbers -> [Endpoints -> Nat]]
      /\ \A m \in Numbers \ {n} : received'[m] = received[m]
      /\ \A a \in Endpoints : received'[n][a] =
           IF a = e THEN received[n][a] + 1 ELSE received[n][a]
  BY <1>1, Receiving
<1>4. n = Event(c)
  OBVIOUS
<1> HIDE DEF n, work
<1>5. cycle'[c] = work /\ Event(c)' = n
  BY <1>1, <1>4 DEF OutboxInv, TypeOK, Event
<1>6. ReliesOn(cycle[c], Event(c))'
  <2>1. \A a \in work.todo : delivery'[n][a] = "due"
    BY <1>1 DEF ReliesOn
  <2>2. \A a \in owed'[n] : delivery'[n][a] # "NONE"
    BY <1>1 DEF ReliesOn
  <2>3. \A a \in work.at :
          a \notin work.todo /\ delivery'[n][a] # "NONE" /\ received'[n][a] > 0
    BY <1>1, <1>2, <1>3
  <2> QED BY <1>1, <1>5, <2>1, <2>2, <2>3 DEF ReliesOn
<1>7. Accounts(c, n)
  <2> SUFFICES ASSUME NEW a \in Endpoints
               PROVE  /\ received[n][a] <= received'[n][a]
                      /\ delivery'[n][a] # "NONE" => endpoint[a].exists /\ endpoint[a].since < n
                      /\ delivery'[n][a] = "delivered" => received'[n][a] > 0
                      /\ received'[n][a] <= IF delivery'[n][a] = "delivered"
                                               \/ (outcome = "accepted" /\ a \in {e})
                                            THEN 1 + faults' ELSE faults'
    BY <1>1, <1>5 DEF Accounts
  <2>1. CASE a = e
    BY <1>1, <1>2, <1>3, <2>1
  <2>2. CASE a # e
    BY <1>1, <1>2, <1>3, <2>2
  <2> QED BY <2>1, <2>2
<1>8. delivery' \in [Numbers -> [Endpoints -> DeliveryRows]]
  BY DEF OutboxInv, TypeOK
<1>9. Advances(c, n)
  BY <1>1, <1>2, <1>3, <1>4, <1>8 DEF Advances, OutboxInv, TypeOK
<1> QED BY <1>6, <1>7, <1>9, RowsChange

\* An endpoint accepts a delivery, and the answer arrives or is lost.
LEMMA AcceptStep ==
  ASSUME OutboxInv, NEW c \in Cycles, NEW e \in Endpoints, Accept(c, e) \/ AcceptUnheard(c, e)
  PROVE  OutboxInv'
<1>1. CASE Accept(c, e)
  BY <1>1, AcceptBothStep DEF Accept, OutboxInv, TypeOK
<1>2. CASE AcceptUnheard(c, e)
  <2>1. faults' \in 0..MaxFaults /\ faults' = faults + 1
    BY <1>2, BoundsAssumption DEF AcceptUnheard, OutboxInv, TypeOK
  <2> QED BY <1>2, <2>1, AcceptBothStep DEF AcceptUnheard
<1> QED BY <1>1, <1>2

\* What became of a request is recorded: the row of an endpoint that was sent the event
\* is delivered if it answered, and otherwise put off if it is pending.
LEMMA RecordStep ==
  ASSUME OutboxInv, NEW c \in Cycles, RecordDelivered(c) \/ RecordFailed(c)
  PROVE  OutboxInv'
<1> DEFINE n == Event(c)
           work == [cycle[c] EXCEPT !.pc = "post"]
           answered == cycle[c].pc = "accepted"
           row(e) == IF e \notin cycle[c].at THEN delivery[n][e]
                     ELSE IF answered THEN "delivered"
                     ELSE IF delivery[n][e] = "due" THEN "waiting" ELSE delivery[n][e]
           rows == [e \in Endpoints |-> row(e)]
<1>1. cycle[c].pc \in {"accepted", "failed"} /\ cycle[c].batch # {}
      /\ UNCHANGED << event, committed, published, endpoint, running, received, owed, changes,
                      faults >>
  BY DEF RecordDelivered, RecordFailed, OutboxInv, WorkInv, WorkOK
<1>2. cycle[c] \in Cycle /\ ReliesOn(cycle[c], n) /\ n \in Numbers
  BY <1>1, AtWork
<1>3. /\ faults \in 0..MaxFaults /\ faults \in Nat
      /\ \A e \in Endpoints :
           /\ received[n][e] \in Nat /\ delivery[n][e] \in DeliveryRows
           /\ delivery[n][e] # "NONE" => endpoint[e].exists /\ endpoint[e].since < n
           /\ delivery[n][e] = "delivered" => received[n][e] > 0
           /\ received[n][e] <= IF delivery[n][e] = "delivered"
                                   \/ (answered /\ e \in cycle[c].at)
                                THEN 1 + faults ELSE faults
  BY <1>1, RowsAtWork
<1>4. cycle' = [cycle EXCEPT ![c] = work]
  BY <1>2 DEF RecordDelivered, RecordFailed, Goto, OutboxInv, TypeOK, Cycle
<1>5. delivery' = [delivery EXCEPT ![n] = rows]
  BY <1>2 DEF RecordDelivered, RecordFailed, OutboxInv, TypeOK
<1>6. \A e \in Endpoints : row(e) \in DeliveryRows
  BY <1>3 DEF DeliveryRows
<1>7. \A e \in Endpoints : rows[e] = row(e)
  OBVIOUS
<1>8. work \in Cycle /\ work.pc = "post" /\ work.batch = cycle[c].batch
      /\ work.todo = cycle[c].todo
  BY <1>2 DEF Cycle
<1>9. /\ delivery' \in [Numbers -> [Endpoints -> DeliveryRows]]
      /\ \A m \in Numbers \ {n} : delivery'[m] = delivery[m]
      /\ delivery'[n] = rows
  <2>1. rows \in [Endpoints -> DeliveryRows]
    BY <1>6
  <2> HIDE DEF rows, n
  <2> QED BY <1>2, <1>5, <2>1 DEF OutboxInv, TypeOK
<1>10. received' \in [Numbers -> [Endpoints -> Nat]]
  BY <1>1 DEF OutboxInv, TypeOK
<1>11. n = Event(c)
  OBVIOUS
<1>12. \A e \in cycle[c].at :
         e \notin cycle[c].todo /\ delivery[n][e] # "NONE" /\ (answered => received[n][e] > 0)
  BY <1>1, <1>2 DEF ReliesOn
<1>13. /\ \A e \in cycle[c].todo : delivery[n][e] = "due"
       /\ \A e \in owed[n] : delivery[n][e] # "NONE"
       /\ owed[n] \subseteq Endpoints /\ cycle[c].todo \subseteq Endpoints
       /\ cycle[c].at \subseteq Endpoints
  BY <1>1, <1>2 DEF ReliesOn, OutboxInv, TypeOK, Cycle
<1> HIDE DEF n, work, rows
<1>14. cycle'[c] = work /\ Event(c)' = n
  BY <1>4, <1>8, <1>11 DEF OutboxInv, TypeOK, Event
<1>15. ReliesOn(cycle[c], Event(c))'
  <2>1. \A e \in work.todo : delivery'[n][e] = "due"
    BY <1>7, <1>8, <1>9, <1>12, <1>13
  <2>2. \A e \in owed'[n] : delivery'[n][e] # "NONE"
    BY <1>1, <1>7, <1>9, <1>13
  <2> QED BY <1>8, <1>14, <2>1, <2>2 DEF ReliesOn
<1>16. Accounts(c, n)
  <2> SUFFICES ASSUME NEW e \in Endpoints
               PROVE  /\ received[n][e] <= received'[n][e]
                      /\ delivery'[n][e] # "NONE" => endpoint[e].exists /\ endpoint[e].since < n
                      /\ delivery'[n][e] = "delivered" => received'[n][e] > 0
                      /\ received'[n][e] <= IF delivery'[n][e] = "delivered"
                                            THEN 1 + faults' ELSE faults'
    BY <1>8, <1>14 DEF Accounts
  <2>1. received'[n][e] = received[n][e] /\ faults' = faults
    BY <1>1
  <2>2. delivery'[n][e] = row(e)
    BY <1>7, <1>9
  <2>3. e \in cycle[c].at => endpoint[e].exists /\ endpoint[e].since < n
    BY <1>3, <1>12
  <2>4. CASE e \in cycle[c].at /\ answered
    BY <1>3, <1>12, <2>1, <2>2, <2>3, <2>4
  <2>5. CASE e \notin cycle[c].at \/ ~answered
    BY <1>3, <2>1, <2>2, <2>5
  <2> QED BY <2>4, <2>5
<1>17. Advances(c, n)
  BY <1>1, <1>3, <1>4, <1>8, <1>9, <1>10, <1>11 DEF Advances, OutboxInv, TypeOK
<1> QED BY <1>15, <1>16, <1>17, RowsChange

------------------------------------------------------------------------------

\* The cycles wait: nothing that happens meanwhile disturbs what they rely on.
LEMMA CyclesWait ==
  ASSUME OutboxInv, TypeOK', RowsOK',
         UNCHANGED << published, workVars, received, faults >>,
         committed \subseteq committed',
         \A n \in committed : owed'[n] \subseteq owed[n],
         \A e \in Endpoints : endpoint[e].exists =>
           endpoint'[e].exists /\ endpoint'[e].since = endpoint[e].since,
         \A n \in Numbers, e \in Endpoints :
           /\ delivery'[n][e] = "NONE" <=> delivery[n][e] = "NONE"
           /\ delivery'[n][e] = "delivered" <=> delivery[n][e] = "delivered"
           /\ delivery[n][e] = "due" => delivery'[n][e] = "due"
  PROVE  OutboxInv'
<1>1. OneCycle'
  BY DEF OutboxInv, OneCycle, workVars
<1>2. WorkInv'
  <2> SUFFICES ASSUME NEW d \in Cycles PROVE WorkOK(cycle[d])'
    BY DEF WorkInv
  <2>1. cycle'[d] = cycle[d] /\ WorkOK(cycle[d]) /\ cycle[d] \in Cycle
    BY DEF OutboxInv, WorkInv, TypeOK, workVars
  <2>2. ASSUME cycle[d].batch # {}
        PROVE  ReliesOn(cycle[d], Min(cycle[d].batch))'
    <3> DEFINE n == Min(cycle[d].batch)
               work == cycle[d]
    <3>1. n \in Numbers /\ n \in committed /\ ReliesOn(work, n)
      BY <2>1, <2>2, EventInBatch DEF WorkOK, Cycle
    <3>2. work.todo \subseteq Endpoints /\ work.at \subseteq Endpoints
          /\ owed'[n] \subseteq owed[n] /\ owed[n] \subseteq Endpoints
          /\ received' = received
      BY <2>1, <3>1 DEF Cycle, OutboxInv, TypeOK
    <3>3. n' = n /\ work' = work
      BY <2>1
    <3> HIDE DEF n, work
    <3>4. ReliesOn(work, n)'
      BY <3>1, <3>2, <3>3 DEF ReliesOn
    <3> QED BY <3>4 DEF n, work
  <2> QED BY <2>1, <2>2 DEF WorkOK
<1>3. ReceiptsCounted'
  <2> SUFFICES ASSUME NEW n \in Numbers, NEW e \in Endpoints
               PROVE  received'[n][e] <= IF Answered(n, e)' THEN 1 + faults' ELSE faults'
    BY DEF ReceiptsCounted
  <2>1. Answered(n, e)' <=> Answered(n, e)
    BY DEF Answered, Event, workVars
  <2> QED BY <2>1 DEF OutboxInv, ReceiptsCounted
<1>4. PublishedIsReceived'
  BY DEF OutboxInv, TypeOK, PublishedIsReceived
<1> QED BY <1>1, <1>2, <1>3, <1>4 DEF OutboxInv

\* A handler adds an event in its transaction; the worker does not see it yet.
LEMMA EmitEventStep ==
  ASSUME OutboxInv, NEW topic \in Topics, EmitEvent(topic)
  PROVE  OutboxInv'
<1>1. /\ Len(event) < MaxEvents /\ Len(event) \in Nat /\ event \in Seq(Topics)
      /\ event' = Append(event, topic)
      /\ UNCHANGED << committed, published, endpoint, delivery, workVars, received, owed,
                      changes, faults >>
  BY DEF EmitEvent, OutboxInv, TypeOK
<1>2. /\ event' \in Seq(Topics) /\ Len(event') = Len(event) + 1
      /\ DOMAIN event = 1..Len(event) /\ DOMAIN event \subseteq DOMAIN event'
      /\ \A m \in DOMAIN event : event'[m] = event[m]
  BY <1>1
<1>3. committed \subseteq DOMAIN event
  BY DEF OutboxInv, TypeOK
<1>4. TypeOK'
  <2>1. Len(event') <= MaxEvents
    BY <1>1, <1>2, BoundsAssumption
  <2>2. committed' \subseteq DOMAIN event'
    BY <1>1, <1>2, <1>3
  <2> QED BY <1>1, <1>2, <2>1, <2>2 DEF OutboxInv, TypeOK, workVars
<1>5. RowsOK'
  <2>1. ASSUME NEW m \in committed'
        PROVE  owed'[m] \subseteq Interested(endpoint', m, event'[m])
    <3>1. m \in committed /\ owed'[m] = owed[m] /\ event'[m] = event[m] /\ endpoint' = endpoint
      BY <1>1, <1>2, <1>3
    <3>2. owed[m] \subseteq Interested(endpoint, m, event[m])
      BY <3>1 DEF OutboxInv, RowsOK
    <3> QED BY <3>1, <3>2 DEF Interested
  <2> QED BY <1>1, <2>1 DEF OutboxInv, RowsOK
<1> QED BY <1>1, <1>4, <1>5, CyclesWait

\* The transaction commits: no cycle has met the event before.
LEMMA CommitEventStep ==
  ASSUME OutboxInv, NEW n \in Numbers, CommitEvent(n)
  PROVE  OutboxInv'
<1> DEFINE wanted == Interested(endpoint, n, event[n])
<1>1. /\ n \in DOMAIN event /\ n \notin committed
      /\ committed' = committed \cup {n}
      /\ owed' = [owed EXCEPT ![n] = wanted]
      /\ UNCHANGED << event, published, endpoint, delivery, workVars, received, changes, faults >>
  BY DEF CommitEvent
<1>2. wanted \subseteq Endpoints
  BY DEF Interested
<1> HIDE DEF wanted
<1>3. /\ owed' \in [Numbers -> SUBSET Endpoints] /\ owed'[n] = wanted
      /\ \A m \in Numbers \ {n} : owed'[m] = owed[m]
  BY <1>1, <1>2 DEF OutboxInv, TypeOK
<1>4. TypeOK'
  <2>1. committed' \subseteq DOMAIN event' /\ published' \subseteq committed'
    BY <1>1 DEF OutboxInv, TypeOK
  <2>2. \A m \in Numbers, e \in Endpoints :
          delivery'[m][e] # "NONE" => m \in committed' /\ endpoint'[e].since < m
    BY <1>1 DEF OutboxInv, TypeOK
  <2> QED BY <1>1, <1>3, <2>1, <2>2 DEF OutboxInv, TypeOK, workVars
<1>5. \A m \in committed : m \in Numbers /\ m # n
  BY <1>1, EventsAreNumbers DEF OutboxInv
<1>6. RowsOK'
  <2>1. ASSUME NEW m \in committed'
        PROVE  owed'[m] \subseteq Interested(endpoint', m, event'[m])
    <3>1. CASE m = n
      BY <1>1, <1>3, <3>1 DEF Interested, wanted
    <3>2. CASE m \in committed
      <4>1. owed'[m] = owed[m] /\ event'[m] = event[m] /\ endpoint' = endpoint
        BY <1>1, <1>3, <1>5, <3>2
      <4>2. owed[m] \subseteq Interested(endpoint, m, event[m])
        BY <3>2 DEF OutboxInv, RowsOK
      <4> QED BY <4>1, <4>2 DEF Interested
    <3> QED BY <1>1, <3>1, <3>2
  <2> QED BY <1>1, <2>1 DEF OutboxInv, RowsOK
<1> QED BY <1>1, <1>3, <1>4, <1>5, <1>6, CyclesWait

\* An endpoint that is there stays, and its creation stays where it was.
LEMMA ChangeEndpointStep ==
  ASSUME OutboxInv, NEW e \in Endpoints, NEW row \in EndpointRows, ChangeEndpoint(e, row),
         row.exists,
         endpoint[e].exists => row.since = endpoint[e].since
  PROVE  OutboxInv'
<1>1. /\ endpoint' = [endpoint EXCEPT ![e] = row] /\ changes' = changes + 1
      /\ changes < MaxChanges
      /\ owed' = [n \in Numbers |->
           IF n \in committed THEN owed[n] \cap Interested(endpoint', n, event[n])
                              ELSE owed[n]]
      /\ UNCHANGED << event, committed, published, delivery, workVars, received, faults >>
  BY DEF ChangeEndpoint
<1>2. endpoint' \in [Endpoints -> EndpointRows]
      /\ \A a \in Endpoints : endpoint'[a] = IF a = e THEN row ELSE endpoint[a]
  BY <1>1 DEF OutboxInv, TypeOK
<1>3. /\ owed' \in [Numbers -> SUBSET Endpoints]
      /\ \A n \in Numbers : owed'[n] \subseteq owed[n]
      /\ \A n \in Numbers \cap committed :
           owed'[n] \subseteq Interested(endpoint', n, event[n])
  BY <1>1 DEF OutboxInv, TypeOK
<1>4. committed \subseteq Numbers
  BY EventsAreNumbers DEF OutboxInv
<1>5. \A a \in Endpoints : endpoint[a].exists =>
        endpoint'[a].exists /\ endpoint'[a].since = endpoint[a].since
  BY <1>2
<1>6. TypeOK'
  <2>1. \A n \in Numbers, a \in Endpoints :
          delivery'[n][a] # "NONE" => n \in committed' /\ endpoint'[a].since < n
    BY <1>1, <1>5 DEF OutboxInv, TypeOK, RowsOK
  <2>2. changes' \in 0..MaxChanges
    BY <1>1, BoundsAssumption DEF OutboxInv, TypeOK
  <2> QED BY <1>1, <1>2, <1>3, <2>1, <2>2 DEF OutboxInv, TypeOK, workVars
<1>7. RowsOK'
  <2>1. \A a \in Endpoints : endpoint'[a].active => endpoint'[a].exists
    BY <1>2 DEF OutboxInv, RowsOK
  <2>2. \A n \in committed' : owed'[n] \subseteq Interested(endpoint', n, event'[n])
    BY <1>1, <1>3, <1>4
  <2>3. \A n \in Numbers, a \in Endpoints :
          /\ delivery'[n][a] # "NONE" => endpoint'[a].exists
          /\ delivery'[n][a] = "delivered" => received'[n][a] > 0
    BY <1>1, <1>5 DEF OutboxInv, RowsOK
  <2>4. ( \A n \in committed : owed[n] \subseteq Interested(endpoint, n, event[n]) )'
    BY <2>2 DEF Interested
  <2> QED BY <2>1, <2>3, <2>4 DEF RowsOK
<1> QED BY <1>1, <1>3, <1>4, <1>5, <1>6, <1>7, CyclesWait

\* Registering and disabling an endpoint.
LEMMA EndpointStep ==
  ASSUME OutboxInv, NEW e \in Endpoints, NEW active \in BOOLEAN, NEW topics \in Subscriptions,
         CreateEndpoint(e, topics) \/ UpdateEndpoint(e, active, topics)
  PROVE  OutboxInv'
<1>1. topics \subseteq Topics /\ endpoint[e] \in EndpointRows /\ Len(event) \in Nat
  BY DEF Subscriptions, OutboxInv, TypeOK
<1>2. CASE CreateEndpoint(e, topics)
  <2> DEFINE row == [exists |-> TRUE, active |-> TRUE, topics |-> topics, since |-> Len(event)]
  <2>1. row \in EndpointRows /\ row.exists
    BY <1>1 DEF EndpointRows
  <2>2. ~endpoint[e].exists /\ ChangeEndpoint(e, row)
    BY <1>2 DEF CreateEndpoint
  <2> HIDE DEF row
  <2> QED BY <2>1, <2>2, ChangeEndpointStep
<1>3. CASE UpdateEndpoint(e, active, topics)
  <2> DEFINE row == [endpoint[e] EXCEPT !.active = active, !.topics = topics]
  <2>1. endpoint[e].exists /\ ChangeEndpoint(e, row)
    BY <1>3 DEF UpdateEndpoint
  <2>2. row \in EndpointRows /\ row.exists /\ row.since = endpoint[e].since
    BY <1>1, <2>1 DEF EndpointRows
  <2> HIDE DEF row
  <2> QED BY <2>1, <2>2, ChangeEndpointStep
<1> QED BY <1>2, <1>3

\* A crash loses the cycle, and with it an answer that was not yet recorded.
LEMMA CrashStep ==
  ASSUME OutboxInv, Crash
  PROVE  OutboxInv'
<1>1. /\ faults < MaxFaults /\ faults' = faults + 1 /\ running' = FALSE
      /\ cycle' = [c \in Cycles |-> Off]
      /\ UNCHANGED << event, committed, published, endpoint, delivery, received, owed, changes >>
  BY DEF Crash
<1>2. Off \in Cycle /\ Off.pc = "off" /\ Off.batch = {}
  BY DEF Off, Cycle
<1>3. TypeOK'
  <2>1. faults' \in 0..MaxFaults
    BY <1>1, BoundsAssumption DEF OutboxInv, TypeOK
  <2>2. cycle' \in [Cycles -> Cycle]
    BY <1>1, <1>2
  <2> QED BY <1>1, <2>1, <2>2 DEF OutboxInv, TypeOK
<1>4. OneCycle' /\ WorkInv'
  BY <1>1, <1>2 DEF OneCycle, WorkInv, WorkOK
<1>5. RowsOK' /\ PublishedIsReceived'
  BY <1>1 DEF OutboxInv, RowsOK, PublishedIsReceived
<1>6. ReceiptsCounted'
  <2> SUFFICES ASSUME NEW n \in Numbers, NEW e \in Endpoints
               PROVE  received'[n][e] <= IF Answered(n, e)' THEN 1 + faults' ELSE faults'
    BY DEF ReceiptsCounted
  <2>1. received[n][e] \in Nat /\ faults \in Nat
    BY DEF OutboxInv, TypeOK
  <2>2. received[n][e] <= IF Answered(n, e) THEN 1 + faults ELSE faults
    BY DEF OutboxInv, ReceiptsCounted
  <2>3. received[n][e] <= 1 + faults
    BY <2>1, <2>2
  <2> QED BY <1>1, <2>1, <2>3
<1> QED BY <1>3, <1>4, <1>5, <1>6 DEF OutboxInv

\* Time passes.
LEMMA TimePassesStep ==
  ASSUME OutboxInv, NEW n \in Numbers, NEW e \in Endpoints, TimePasses(n, e)
  PROVE  OutboxInv'
<1>1. /\ delivery[n][e] = "waiting" /\ delivery' = [delivery EXCEPT ![n][e] = "due"]
      /\ UNCHANGED << event, committed, published, endpoint, workVars, received, owed, changes,
                      faults >>
  BY DEF TimePasses
<1>2. /\ delivery' \in [Numbers -> [Endpoints -> DeliveryRows]]
      /\ \A m \in Numbers, a \in Endpoints :
           delivery'[m][a] = IF m = n /\ a = e THEN "due" ELSE delivery[m][a]
  BY <1>1 DEF OutboxInv, TypeOK, DeliveryRows
<1>3. TypeOK'
  <2>1. \A m \in Numbers, a \in Endpoints :
          delivery'[m][a] # "NONE" => m \in committed /\ endpoint[a].since < m
    BY <1>1, <1>2 DEF OutboxInv, TypeOK
  <2> QED BY <1>1, <1>2, <2>1 DEF OutboxInv, TypeOK, workVars
<1>4. RowsOK'
  <2>1. \A m \in Numbers, a \in Endpoints :
          /\ delivery'[m][a] # "NONE" => endpoint[a].exists
          /\ delivery'[m][a] = "delivered" => received[m][a] > 0
    BY <1>1, <1>2 DEF OutboxInv, RowsOK
  <2> QED BY <1>1, <2>1 DEF OutboxInv, RowsOK
<1>5. \A m \in Numbers, a \in Endpoints :
        /\ delivery'[m][a] = "NONE" <=> delivery[m][a] = "NONE"
        /\ delivery'[m][a] = "delivered" <=> delivery[m][a] = "delivered"
        /\ delivery[m][a] = "due" => delivery'[m][a] = "due"
  BY <1>1, <1>2
<1> QED BY <1>1, <1>3, <1>4, <1>5, CyclesWait

------------------------------------------------------------------------------

\* At first there is no event and no delivery.
LEMMA OutboxInit ==
  ASSUME Init
  PROVE  OutboxInv
<1>1. NoEndpoint \in EndpointRows /\ Off \in Cycle /\ Off.pc = "off" /\ Off.batch = {}
  BY DEF NoEndpoint, EndpointRows, Off, Cycle
<1> DEFINE early == [exists |-> TRUE, active |-> TRUE, topics |-> Topics, since |-> 0]
<1>3. endpoint \in [Endpoints -> EndpointRows]
      /\ \A e \in Endpoints : endpoint[e].active => endpoint[e].exists
  <2>1. early \in EndpointRows /\ early.exists /\ ~NoEndpoint.active
    BY DEF EndpointRows, NoEndpoint
  <2>2. endpoint \in [Endpoints -> {NoEndpoint, early}]
    BY DEF Init
  <2> HIDE DEF early
  <2> QED BY <1>1, <2>1, <2>2
<1>4. /\ event = << >> /\ DOMAIN event = {} /\ Len(event) = 0 /\ event \in Seq(Topics)
      /\ 0 \in 0..MaxChanges /\ 0 \in 0..MaxFaults /\ 0 <= MaxEvents
  BY BoundsAssumption DEF Init
<1>5. TypeOK
  BY <1>1, <1>3, <1>4 DEF Init, TypeOK, DeliveryRows
<1>6. OneCycle /\ WorkInv
  BY <1>1 DEF Init, OneCycle, WorkInv, WorkOK
<1>7. RowsOK /\ PublishedIsReceived
  BY <1>3, <1>4 DEF Init, RowsOK, PublishedIsReceived
<1>8. ReceiptsCounted
  BY DEF Init, ReceiptsCounted
<1> QED BY <1>5, <1>6, <1>7, <1>8 DEF OutboxInv

\* Every step keeps the invariant.
LEMMA OutboxStep ==
  ASSUME OutboxInv, [Next]_vars
  PROVE  OutboxInv'
<1>1. ASSUME NEW topic \in Topics, EmitEvent(topic) PROVE OutboxInv'
  BY <1>1, EmitEventStep
<1>2. ASSUME NEW e \in Endpoints, NEW topics \in Subscriptions, CreateEndpoint(e, topics)
      PROVE  OutboxInv'
  BY <1>2, EndpointStep
<1>3. ASSUME NEW e \in Endpoints, NEW active \in BOOLEAN, NEW topics \in Subscriptions,
             UpdateEndpoint(e, active, topics)
      PROVE  OutboxInv'
  BY <1>3, EndpointStep
<1>4. ASSUME NEW c \in Cycles, CycleStep(c) PROVE OutboxInv'
  <2>1. CASE Start(c)
    BY <2>1, StartStep
  <2>2. CASE ReadEndpoints(c)
    BY <2>2, ReadEndpointsStep
  <2>3. ASSUME NEW e \in Endpoints, UpsertDelivery(c, e) PROVE OutboxInv'
    BY <2>3, UpsertDeliveryStep
  <2>4. CASE ReadDue(c)
    BY <2>4, ReadDueStep
  <2>5. ASSUME NEW e \in Endpoints, Accept(c, e) \/ AcceptUnheard(c, e) PROVE OutboxInv'
    BY <2>5, AcceptStep
  <2>6. ASSUME NEW e \in Endpoints, Refuse(c, e) PROVE OutboxInv'
    BY <2>6, RefuseStep
  <2>7. CASE RecordDelivered(c) \/ RecordFailed(c)
    BY <2>7, RecordStep
  <2>8. CASE CountRemaining(c)
    BY <2>8, CountRemainingStep
  <2>9. CASE Publish(c)
    BY <2>9, PublishStep
  <2>10. CASE Finish(c)
    BY <2>10, FinishStep
  <2> QED BY <1>4, <2>1, <2>2, <2>3, <2>4, <2>5, <2>6, <2>7, <2>8, <2>9, <2>10 DEF CycleStep
<1>5. CASE Crash
  BY <1>5, CrashStep
<1>6. ASSUME NEW n \in Numbers, NEW e \in Endpoints, TimePasses(n, e) PROVE OutboxInv'
  BY <1>6, TimePassesStep
<1>7. ASSUME NEW n \in Numbers, CommitEvent(n) PROVE OutboxInv'
  BY <1>7, CommitEventStep
<1>8. CASE UNCHANGED vars
  <2>1. TypeOK' /\ RowsOK'
    BY <1>8 DEF OutboxInv, TypeOK, RowsOK, vars, workVars, Interested
  <2> QED BY <1>8, <2>1, CyclesWait DEF vars, workVars
<1> QED BY <1>1, <1>2, <1>3, <1>4, <1>5, <1>6, <1>7, <1>8 DEF Next

\* The invariant of the outbox: types, the one cycle, what it relies on, and the receipts.
THEOREM OutboxInvariant == Spec => []OutboxInv
<1>1. Init => OutboxInv
  BY OutboxInit
<1>2. OutboxInv /\ [Next]_vars => OutboxInv'
  BY OutboxStep
<1> QED BY <1>1, <1>2, PTL DEF Spec

\* The outbox keeps its types (lib/outbox-delivery.ts, integrations/routes.ts).
THEOREM OutboxTypeCorrect == Spec => []TypeOK
<1>1. OutboxInv => TypeOK
  BY DEF OutboxInv
<1> QED BY <1>1, OutboxInvariant, PTL

\* Nothing is dropped: an event that is marked published was received by every endpoint
\* that wanted it from its commit on (outbox-delivery.ts:34).
THEOREM PublishedCorrect == Spec => []PublishedIsReceived
<1>1. OutboxInv => PublishedIsReceived
  BY DEF OutboxInv
<1> QED BY <1>1, OutboxInvariant, PTL

\* Every repeated delivery is due to a crash or to an answer that was not heard
\* (worker.ts:11, outbox-delivery.ts:17).
THEOREM RepeatsCorrect == Spec => []RepeatsAreFaults
<1>1. OutboxInv => RepeatsAreFaults
  <2> SUFFICES ASSUME OutboxInv, NEW n \in Numbers, NEW e \in Endpoints
               PROVE  received[n][e] <= 1 + faults
    BY DEF RepeatsAreFaults
  <2>1. received[n][e] \in Nat /\ faults \in Nat
    BY DEF OutboxInv, TypeOK
  <2>2. received[n][e] <= IF Answered(n, e) THEN 1 + faults ELSE faults
    BY DEF OutboxInv, ReceiptsCounted
  <2> QED BY <2>1, <2>2
<1> QED BY <1>1, OutboxInvariant, PTL
==============================================================================
