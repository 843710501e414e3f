---------------------------- MODULE RealtimeOutbox ----------------------------
(***************************************************************************)
(* Realtime delivery: a handler that has committed its change records an   *)
(* event, hands it to the Socket.IO server and marks the row, in three     *)
(* separate steps; the worker's replay publishes what was not marked       *)
(* through Redis to whichever API is listening; a client that was away     *)
(* pages through the rows from its cursor.                                 *)
(***************************************************************************)
EXTENDS Integers, FiniteSets

CONSTANTS
  Events,               \* idempotency keys
  Publishers,           \* handlers that may be publishing at once
  Replays,              \* replay jobs that may run at once
  Clients,
  NoEvent,
  PointToPoint,         \* events meant for named users, not for a territory
  WORKER_MAX_ATTEMPTS,
  PageLimit,            \* rows one reconciliation request returns
  LastMillisecond,      \* bound on the clock
  MaxPublications,      \* times one event key may be published (bound)
  MaxOutages            \* replay jobs lost half way (bound)

ASSUME OutboxAssumption ==
  /\ NoEvent \notin Events /\ PointToPoint \subseteq Events
  /\ WORKER_MAX_ATTEMPTS \in Nat \ {0} /\ PageLimit \in Nat \ {0}
  /\ LastMillisecond \in Nat \ {0} /\ MaxPublications \in Nat /\ MaxOutages \in Nat

VARIABLES
  outbox,     \* RealtimeEventOutbox rows
  publisher,  \* where each handler is in publishing its event
  replay,     \* what each replay job has read and how far it is
  gateway,    \* CLOSED, LOCAL (no Redis) or LISTENING to the replay channel
  emitted,    \* which event reached which rooms; NOBODY: a channel without listener
  client,     \* what each client has received by reconciling, and its cursor
  now,        \* the clock, at the column's precision of one millisecond
  outages

outboxVars == <<outbox, publisher, replay, gateway, emitted, client, now, outages>>

EventRow == [status : {"NONE", "PENDING", "PUBLISHED", "FAILED"}, attempts : Nat,
             committedAt : 0..LastMillisecond]
Publication == [step : {"IDLE"}, event : {NoEvent}]
                 \cup [step : {"RECORD", "EMIT", "MARK"}, event : Events]
Read == [event : Events, attempts : Nat]
Emission == [event : Events, rooms : {"USERS", "TERRITORY", "NOBODY"}]

Quiet == [step |-> "IDLE", event |-> NoEvent]
NoReplay == [batch |-> {}, sent |-> NoEvent]
Recorded(e) == outbox[e].status # "NONE"

OutboxInit ==
  /\ outbox = [e \in Events |-> [status |-> "NONE", attempts |-> 0, committedAt |-> 0]]
  /\ publisher = [p \in Publishers |-> Quiet]
  /\ replay = [w \in Replays |-> NoReplay]
  /\ gateway \in {"LOCAL", "LISTENING"}
  /\ emitted = {}
  /\ client = [k \in Clients |-> [cursor |-> 0, got |-> {}]]
  /\ now = 1
  /\ outages = 0

-------------------------------------------------------------------------------
(* publishCallEvent, persistAndPublishRealtimeEvent *)

\* Part of the caller's step: its change is committed, its event is next.
Publishing(p, e) ==
  /\ publisher[p] = Quiet
  /\ outbox[e].attempts < MaxPublications
  /\ publisher' = [publisher EXCEPT ![p] = [step |-> "RECORD", event |-> e]]

(* The row is created; a key that exists already is left as it is. *)
RecordEvent(p) ==
  LET e == publisher[p].event IN
  /\ publisher[p].step = "RECORD"
  /\ outbox' = IF Recorded(e) THEN outbox ELSE
       [outbox EXCEPT ![e] = [status |-> "PENDING", attempts |-> 0, committedAt |-> now]]
  /\ publisher' = [publisher EXCEPT ![p].step = "EMIT"]
  /\ UNCHANGED <<replay, gateway, emitted, client, now, outages>>

\* Rooms a handler addresses: the named users' own, or the territory's.
Audience(e) == IF e \in PointToPoint THEN "USERS" ELSE "TERRITORY"

\* Mutant: the answer of the gateway is not looked at.
MutantAlwaysMarks(p) ==
  /\ publisher[p].step = "EMIT"
  /\ emitted' = IF gateway = "CLOSED" THEN emitted ELSE
       emitted \cup {[event |-> publisher[p].event, rooms |-> Audience(publisher[p].event)]}
  /\ publisher' = [publisher EXCEPT ![p].step = "MARK"]
  /\ UNCHANGED <<outbox, replay, gateway, client, now, outages>>

(* The gateway emits at once, or reports that it is closed. *)
Emit(p) ==
  /\ publisher[p].step = "EMIT"
  /\ \/ /\ gateway # "CLOSED"
        /\ emitted' = emitted \cup
             {[event |-> publisher[p].event, rooms |-> Audience(publisher[p].event)]}
        /\ publisher' = [publisher EXCEPT ![p].step = "MARK"]
     \/ /\ gateway = "CLOSED"
        /\ publisher' = [publisher EXCEPT ![p] = Quiet]
        /\ UNCHANGED emitted
  /\ UNCHANGED <<outbox, replay, gateway, client, now, outages>>

\* Mutant: a status the column does not have.
MutantDelivered(e) ==
  outbox' = [outbox EXCEPT ![e].status = "DELIVERED", ![e].attempts = @ + 1]

MarkPublished(e) ==
  outbox' = [outbox EXCEPT ![e].status = "PUBLISHED", ![e].attempts = @ + 1]

Mark(p) ==
  /\ publisher[p].step = "MARK"
  /\ MarkPublished(publisher[p].event)
  /\ publisher' = [publisher EXCEPT ![p] = Quiet]
  /\ UNCHANGED <<replay, gateway, emitted, client, now, outages>>

(* The process stops, or the database refuses the statement: what the caller
   committed stays, the rest of its publication does not happen. *)
PublicationLost(p) ==
  /\ publisher[p] # Quiet
  /\ publisher' = [publisher EXCEPT ![p] = Quiet]
  /\ UNCHANGED <<outbox, replay, gateway, emitted, client, now, outages>>

-------------------------------------------------------------------------------
(* replayRealtimeOutbox *)

\* Mutant: a replay that never tries a failed event again.
MutantPendingOnly(e) == outbox[e].status = "PENDING"

Undelivered(e) ==
  /\ outbox[e].status \in {"PENDING", "FAILED"}
  /\ outbox[e].attempts < WORKER_MAX_ATTEMPTS

(* A replay reads the undelivered rows with their attempts ... *)
ReplayRead(w) ==
  /\ replay[w] = NoReplay
  /\ \E e \in Events : Undelivered(e)
  /\ replay' = [replay EXCEPT ![w].batch =
       {[event |-> e, attempts |-> outbox[e].attempts] : e \in {f \in Events : Undelivered(f)}}]
  /\ UNCHANGED <<outbox, publisher, gateway, emitted, client, now, outages>>

\* ... and works through them, oldest first.
NextRead(w) ==
  {b \in replay[w].batch : \A c \in replay[w].batch :
     outbox[b.event].committedAt <= outbox[c.event].committedAt}

\* The channel's subscriber sends every event to its territory's rooms.
ReplayRooms == IF gateway = "LISTENING" THEN "TERRITORY" ELSE "NOBODY"

ReplayPublish(w) ==
  /\ replay[w].sent = NoEvent
  /\ \E b \in NextRead(w) :
       /\ emitted' = emitted \cup {[event |-> b.event, rooms |-> ReplayRooms]}
       /\ replay' = [replay EXCEPT ![w].sent = b.event]
  /\ UNCHANGED <<outbox, publisher, gateway, client, now, outages>>

Done(w, e) ==
  replay' = [replay EXCEPT ![w] = [batch |-> {b \in @.batch : b.event # e},
                                   sent |-> NoEvent]]

ReplayMark(w) ==
  /\ replay[w].sent # NoEvent
  /\ MarkPublished(replay[w].sent)
  /\ Done(w, replay[w].sent)
  /\ UNCHANGED <<publisher, gateway, emitted, client, now, outages>>

(* Publishing or marking threw: the row fails with the attempts that were read,
   plus one, whatever happened to it since. *)
ReplayFails(w) ==
  /\ \E b \in NextRead(w) :
       /\ replay[w].sent \in {NoEvent, b.event}
       /\ outbox' = [outbox EXCEPT ![b.event] = [@ EXCEPT !.status = "FAILED",
                                                 !.attempts = b.attempts + 1]]
       /\ Done(w, b.event)
  /\ UNCHANGED <<publisher, gateway, emitted, client, now, outages>>

(* The worker stops, or even the failure cannot be written. *)
ReplayLost(w) ==
  /\ outages < MaxOutages /\ outages' = outages + 1
  /\ replay[w] # NoReplay
  /\ replay' = [replay EXCEPT ![w] = NoReplay]
  /\ UNCHANGED <<outbox, publisher, gateway, emitted, client, now>>

-------------------------------------------------------------------------------
(* The gateway, the clock and reconciling clients *)

(* Shutdown closes the gateway while handlers finish; a start finds Redis or not. *)
GatewayChanges ==
  /\ gateway' \in {"CLOSED", "LOCAL", "LISTENING"} \ {gateway}
  /\ UNCHANGED <<outbox, publisher, replay, emitted, client, now, outages>>

Tick ==
  /\ now < LastMillisecond
  /\ now' = now + 1
  /\ UNCHANGED <<outbox, publisher, replay, gateway, emitted, client, outages>>

After(cursor) == {e \in Events : Recorded(e) /\ outbox[e].committedAt > cursor}

\* The oldest rows after the cursor, up to the limit; ties in any order.
IsPage(page, cursor) ==
  /\ page \subseteq After(cursor)
  /\ Cardinality(page) <= PageLimit
  /\ page = After(cursor) \/ Cardinality(page) = PageLimit
  /\ \A e \in page, f \in After(cursor) \ page :
       outbox[e].committedAt <= outbox[f].committedAt

(* GET /realtime/replay: the next cursor is the last row's committedAt. *)
Reconcile(k) ==
  /\ \E page \in SUBSET Events \ {{}} : \E last \in page :
       /\ IsPage(page, client[k].cursor)
       /\ \A e \in page : outbox[e].committedAt <= outbox[last].committedAt
       /\ client' = [client EXCEPT ![k] = [cursor |-> outbox[last].committedAt,
                                           got |-> @.got \cup page]]
  /\ UNCHANGED <<outbox, publisher, replay, gateway, emitted, now, outages>>

-------------------------------------------------------------------------------
ReplayStep(w) == ReplayPublish(w) \/ ReplayMark(w) \/ ReplayFails(w)

OutboxNext ==
  \/ \E p \in Publishers : \/ RecordEvent(p) \/ Emit(p) \/ Mark(p) \/ PublicationLost(p)
  \/ \E w \in Replays : ReplayRead(w) \/ ReplayStep(w) \/ ReplayLost(w)
  \/ \E k \in Clients : Reconcile(k)
  \/ GatewayChanges
  \/ Tick

\* A handler elsewhere in the API committed a change and publishes its event.
Publish(p, e) ==
  /\ Publishing(p, e)
  /\ UNCHANGED <<outbox, replay, gateway, emitted, client, now, outages>>

Next == OutboxNext \/ \E p \in Publishers, e \in Events : Publish(p, e)

\* The recurring replay job runs again and again, and its awaited calls return.
OutboxFairness ==
  \A w \in Replays : WF_outboxVars(ReplayRead(w)) /\ WF_outboxVars(ReplayStep(w))

Spec == OutboxInit /\ [][Next]_outboxVars /\ OutboxFairness

-------------------------------------------------------------------------------
(* Properties *)

\* Every variable keeps its shape.
TypeOK ==
  /\ outbox \in [Events -> EventRow]
  /\ publisher \in [Publishers -> Publication]
  /\ replay \in [Replays -> [batch : SUBSET Read, sent : Events \cup {NoEvent}]]
  /\ gateway \in {"CLOSED", "LOCAL", "LISTENING"}
  /\ emitted \subseteq Emission
  /\ client \in [Clients -> [cursor : 0..LastMillisecond, got : SUBSET Events]]
  /\ now \in 1..LastMillisecond
  /\ outages \in 0..MaxOutages

\* A row is marked published only after the event went out, whoever marks it and
\* whichever of handler, replay and shutdown comes in between.
PublishedWasSent ==
  \A e \in Events :
    outbox[e].status = "PUBLISHED" => \E m \in emitted : m.event = e

\* "Undelivered realtime events survive in RealtimeEventOutbox and are replayed":
\* a recorded event is in the end, and for good, published or out of attempts,
\* even when overlapping replays fail rows that were published meanwhile and
\* write their stale attempt counts over each other.
EventsDrain ==
  \A e \in Events :
    Recorded(e) ~> [](\/ outbox[e].status = "PUBLISHED"
                      \/ outbox[e].attempts >= WORKER_MAX_ATTEMPTS)
===============================================================================
