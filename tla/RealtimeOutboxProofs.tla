------------------------- MODULE RealtimeOutboxProofs -------------------------
(***************************************************************************)
(* Proofs about RealtimeOutbox, for any number of events, handlers,        *)
(* replays and clients.                                                    *)
(*                                                                         *)
(* A row is marked in a step of its own, after the emission, by a handler  *)
(* or a replay that remembers only that it came to that step.  The         *)
(* inductive invariant adds what that position means: whoever is about to  *)
(* mark a row has seen its event go out, and emissions are never undone.   *)
(***************************************************************************)
EXTENDS RealtimeOutbox, TLAPS

Sent(e) == \E m \in emitted : m.event = e

MarkersHaveSent ==
  /\ \A p \in Publishers : publisher[p].step = "MARK" => Sent(publisher[p].event)
  /\ \A w \in Replays : replay[w].sent # NoEvent => Sent(replay[w].sent)

Inv == TypeOK /\ MarkersHaveSent /\ PublishedWasSent

-------------------------------------------------------------------------------
(* Types *)

LEMMA InitInv == OutboxInit => Inv
BY OutboxAssumption DEF OutboxAssumption, OutboxInit, Inv, TypeOK, MarkersHaveSent,
   PublishedWasSent, EventRow, Publication, Read, Emission, Quiet, NoReplay

\* Marking a row keeps the rows' type and marks that row alone.
LEMMA MarkUpdate ==
  ASSUME TypeOK, NEW e \in Events, MarkPublished(e)
  PROVE  /\ outbox' \in [Events -> EventRow]
         /\ \A f \in Events \ {e} : outbox'[f] = outbox[f]
<1> DEFINE half == [outbox EXCEPT ![e].status = "PUBLISHED"]
<1>1. half \in [Events -> EventRow] /\ half[e].attempts \in Nat
  BY DEF TypeOK, EventRow
<1>2. outbox' = [half EXCEPT ![e].attempts = half[e].attempts + 1]
  BY DEF MarkPublished
<1>3. \A f \in Events \ {e} : half[f] = outbox[f]
  BY DEF TypeOK
<1> HIDE DEF half
<1>4. half[e].attempts + 1 \in Nat
  BY <1>1
<1> QED BY <1>1, <1>2, <1>3, <1>4 DEF EventRow

LEMMA NextTypeOK == TypeOK /\ [Next]_outboxVars => TypeOK'
<1> SUFFICES ASSUME TypeOK, [Next]_outboxVars PROVE TypeOK'
  OBVIOUS
<1> USE OutboxAssumption DEF OutboxAssumption
<1> DEFINE Replay == [batch : SUBSET Read, sent : Events \cup {NoEvent}]
<1>1. ASSUME NEW p \in Publishers, RecordEvent(p) PROVE TypeOK'
  <2>1. publisher[p].event \in Events
    BY <1>1 DEF RecordEvent, TypeOK, Publication
  <2>2. publisher' \in [Publishers -> Publication]
    BY <1>1, <2>1 DEF RecordEvent, TypeOK, Publication
  <2>3. [status |-> "PENDING", attempts |-> 0, committedAt |-> now] \in EventRow
    BY DEF TypeOK, EventRow
  <2>4. outbox' \in [Events -> EventRow]
    BY <1>1, <2>3 DEF RecordEvent, TypeOK
  <2> QED BY <1>1, <2>2, <2>4 DEF RecordEvent, TypeOK
<1>2. ASSUME NEW p \in Publishers, Emit(p) PROVE TypeOK'
  <2>1. publisher[p].event \in Events
    BY <1>2 DEF Emit, TypeOK, Publication
  <2>2. publisher' \in [Publishers -> Publication]
    BY <1>2, <2>1 DEF Emit, TypeOK, Publication, Quiet
  <2>3. emitted' \subseteq Emission
    BY <1>2, <2>1 DEF Emit, TypeOK, Emission, Audience
  <2> QED BY <1>2, <2>2, <2>3 DEF Emit, TypeOK
<1>3. ASSUME NEW p \in Publishers, Mark(p) PROVE TypeOK'
  <2>1. outbox' \in [Events -> EventRow]
    <3>1. publisher[p].event \in Events
      BY <1>3 DEF Mark, TypeOK, Publication
    <3> QED BY <1>3, <3>1, MarkUpdate DEF Mark
  <2>2. publisher' \in [Publishers -> Publication]
    BY <1>3 DEF Mark, TypeOK, Publication, Quiet
  <2> QED BY <1>3, <2>1, <2>2 DEF Mark, TypeOK
<1>4. ASSUME NEW p \in Publishers, PublicationLost(p) PROVE TypeOK'
  <2>1. publisher' \in [Publishers -> Publication]
    BY <1>4 DEF PublicationLost, TypeOK, Publication, Quiet
  <2> QED BY <1>4, <2>1 DEF PublicationLost, TypeOK
<1>5. ASSUME NEW w \in Replays, ReplayRead(w) PROVE TypeOK'
  <2> DEFINE batch == {[event |-> e, attempts |-> outbox[e].attempts] :
                         e \in {f \in Events : Undelivered(f)}}
  <2>1. batch \in SUBSET Read
    BY DEF TypeOK, Read, EventRow
  <2>2. replay' = [replay EXCEPT ![w].batch = batch]
    BY <1>5 DEF ReplayRead
  <2> HIDE DEF batch
  <2>3. replay' \in [Replays -> Replay]
    BY <2>1, <2>2 DEF TypeOK
  <2> QED BY <1>5, <2>3 DEF ReplayRead, TypeOK
<1>6. ASSUME NEW w \in Replays, ReplayPublish(w) PROVE TypeOK'
  <2>1. PICK b \in NextRead(w) :
          /\ emitted' = emitted \cup {[event |-> b.event, rooms |-> ReplayRooms]}
          /\ replay' = [replay EXCEPT ![w].sent = b.event]
    BY <1>6 DEF ReplayPublish
  <2>2. b.event \in Events
    BY DEF NextRead, TypeOK, Read
  <2>3. replay' \in [Replays -> Replay]
    BY <2>1, <2>2 DEF TypeOK
  <2>4. emitted' \subseteq Emission
    BY <2>1, <2>2 DEF TypeOK, Emission, ReplayRooms
  <2> QED BY <1>6, <2>3, <2>4 DEF ReplayPublish, TypeOK
<1>7. ASSUME NEW w \in Replays, NEW e, Done(w, e) PROVE replay' \in [Replays -> Replay]
  BY <1>7 DEF Done, TypeOK
<1>8. ASSUME NEW w \in Replays, ReplayMark(w) PROVE TypeOK'
  <2>1. outbox' \in [Events -> EventRow]
    <3>1. replay[w].sent \in Events
      BY <1>8 DEF ReplayMark, TypeOK
    <3> QED BY <1>8, <3>1, MarkUpdate DEF ReplayMark
  <2> QED BY <1>7, <1>8, <2>1 DEF ReplayMark, TypeOK
<1>9. ASSUME NEW w \in Replays, ReplayFails(w) PROVE TypeOK'
  <2>1. PICK b \in NextRead(w) :
          /\ outbox' = [outbox EXCEPT ![b.event] = [@ EXCEPT !.status = "FAILED",
                                                   !.attempts = b.attempts + 1]]
          /\ Done(w, b.event)
    BY <1>9 DEF ReplayFails
  <2>2. b.attempts + 1 \in Nat
    BY DEF NextRead, TypeOK, Read
  <2>3. outbox' \in [Events -> EventRow]
    <3>1. [outbox[b.event] EXCEPT !.status = "FAILED", !.attempts = b.attempts + 1]
            \in EventRow
      <4>1. outbox[b.event] \in EventRow
        BY DEF NextRead, TypeOK, Read
      <4> QED BY <2>2, <4>1 DEF EventRow
    <3> QED BY <2>1, <3>1 DEF TypeOK
  <2>4. replay' \in [Replays -> Replay]
    BY <1>7, <2>1
  <2> QED BY <1>9, <2>3, <2>4 DEF ReplayFails, TypeOK
<1>10. ASSUME NEW w \in Replays, ReplayLost(w) PROVE TypeOK'
  <2>1. replay' \in [Replays -> Replay]
    BY <1>10 DEF ReplayLost, TypeOK, NoReplay
  <2>2. outages' \in 0..MaxOutages
    BY <1>10 DEF ReplayLost, TypeOK
  <2> QED BY <1>10, <2>1, <2>2 DEF ReplayLost, TypeOK
<1>11. ASSUME NEW k \in Clients, Reconcile(k) PROVE TypeOK'
  <2>1. PICK page \in SUBSET Events : \E last \in page :
          client' = [client EXCEPT ![k] = [cursor |-> outbox[last].committedAt,
                                           got |-> @.got \cup page]]
    BY <1>11 DEF Reconcile
  <2>2. PICK last \in page :
          client' = [client EXCEPT ![k] = [cursor |-> outbox[last].committedAt,
                                           got |-> @.got \cup page]]
    BY <2>1
  <2>3. /\ outbox[last].committedAt \in 0..LastMillisecond
        /\ client[k].got \cup page \in SUBSET Events
    BY DEF TypeOK, EventRow
  <2>4. client' \in [Clients -> [cursor : 0..LastMillisecond, got : SUBSET Events]]
    BY <2>2, <2>3 DEF TypeOK
  <2> QED BY <1>11, <2>4 DEF Reconcile, TypeOK
<1>12. CASE GatewayChanges
  BY <1>12 DEF GatewayChanges, TypeOK
<1>13. CASE Tick
  BY <1>13 DEF Tick, TypeOK, EventRow
<1>14. ASSUME NEW p \in Publishers, NEW e \in Events, Publish(p, e) PROVE TypeOK'
  <2>1. publisher' \in [Publishers -> Publication]
    BY <1>14 DEF Publish, Publishing, TypeOK, Publication
  <2> QED BY <1>14, <2>1 DEF Publish, TypeOK
<1>15. CASE UNCHANGED outboxVars
  BY <1>15 DEF outboxVars, TypeOK
<1> QED
  BY <1>1, <1>2, <1>3, <1>4, <1>5, <1>6, <1>8, <1>9, <1>10, <1>11, <1>12, <1>13, <1>14,
     <1>15 DEF Next, OutboxNext, ReplayStep

-------------------------------------------------------------------------------
(* Marked rows were sent *)

\* No step takes an emission back.
LEMMA NextKeepsSent ==
  ASSUME [Next]_outboxVars PROVE \A e : Sent(e) => Sent(e)'
<1>1. emitted \subseteq emitted'
  BY DEF Next, OutboxNext, ReplayStep, outboxVars, RecordEvent, Emit, Mark, PublicationLost,
     ReplayRead, ReplayPublish, ReplayMark, ReplayFails, ReplayLost, Reconcile,
     GatewayChanges, Tick, Publish
<1> QED BY <1>1 DEF Sent

LEMMA NextMarkersHaveSent ==
  ASSUME TypeOK, MarkersHaveSent, [Next]_outboxVars PROVE MarkersHaveSent'
<1> DEFINE SentNow(e) == \E m \in emitted' : m.event = e
<1>0. /\ \A e : Sent(e) => SentNow(e)
      /\ publisher \in [Publishers -> Publication]
      /\ replay \in [Replays -> [batch : SUBSET Read, sent : Events \cup {NoEvent}]]
  BY NextKeepsSent DEF Sent, TypeOK
<1>m. ASSUME \A p \in Publishers : publisher'[p].step = "MARK" => SentNow(publisher'[p].event),
             \A w \in Replays : replay'[w].sent # NoEvent => SentNow(replay'[w].sent)
      PROVE  MarkersHaveSent'
  BY <1>m DEF MarkersHaveSent, Sent
<1>p. \A p \in Publishers : publisher[p].step = "MARK" => SentNow(publisher[p].event)
  BY <1>0 DEF MarkersHaveSent
<1>w. \A w \in Replays : replay[w].sent # NoEvent => SentNow(replay[w].sent)
  BY <1>0 DEF MarkersHaveSent
<1>1. ASSUME NEW p \in Publishers, Emit(p) PROVE MarkersHaveSent'
  <2>1. publisher'[p].step = "MARK" => SentNow(publisher'[p].event)
    <3>1. CASE gateway # "CLOSED"
      <4>1. [event |-> publisher[p].event, rooms |-> Audience(publisher[p].event)]
              \in emitted'
        BY <1>1, <3>1 DEF Emit
      <4>2. publisher'[p].event = publisher[p].event
        <5>1. publisher' = [publisher EXCEPT ![p].step = "MARK"] /\ publisher[p] \in Publication
          BY <1>0, <1>1, <3>1 DEF Emit
        <5> QED BY <1>0, <5>1 DEF Publication
      <4> QED BY <4>1, <4>2
    <3>2. CASE gateway = "CLOSED"
      BY <1>0, <1>1, <3>2 DEF Emit, Quiet
    <3> QED BY <3>1, <3>2
  <2>2. /\ \A q \in Publishers \ {p} : publisher'[q] = publisher[q]
        /\ replay' = replay
    BY <1>0, <1>1 DEF Emit
  <2> HIDE DEF SentNow
  <2> QED BY <1>m, <1>p, <1>w, <2>1, <2>2
<1>2. ASSUME NEW w \in Replays, ReplayPublish(w) PROVE MarkersHaveSent'
  <2>1. PICK b \in NextRead(w) :
          /\ emitted' = emitted \cup {[event |-> b.event, rooms |-> ReplayRooms]}
          /\ replay' = [replay EXCEPT ![w].sent = b.event]
    BY <1>2 DEF ReplayPublish
  <2>2. SentNow(b.event)
    <3>1. [event |-> b.event, rooms |-> ReplayRooms] \in emitted'
      BY <2>1
    <3> QED BY <3>1
  <2>3. replay'[w].sent = b.event /\ \A v \in Replays \ {w} : replay'[v] = replay[v]
    BY <1>0, <2>1
  <2>4. publisher' = publisher
    BY <1>2 DEF ReplayPublish
  <2> HIDE DEF SentNow
  <2> QED BY <1>m, <1>p, <1>w, <2>2, <2>3, <2>4
<1> HIDE DEF SentNow
<1>3. ASSUME NEW p \in Publishers, publisher'[p].step # "MARK", replay' = replay,
             \A q \in Publishers \ {p} : publisher'[q] = publisher[q]
      PROVE  MarkersHaveSent'
  BY <1>m, <1>p, <1>w, <1>3
<1>4. ASSUME NEW w \in Replays, replay'[w].sent \in {NoEvent, replay[w].sent},
             publisher' = publisher,
             \A v \in Replays \ {w} : replay'[v] = replay[v]
      PROVE  MarkersHaveSent'
  BY <1>m, <1>p, <1>w, <1>4
<1>5. ASSUME NEW p \in Publishers,
             RecordEvent(p) \/ Mark(p) \/ PublicationLost(p)
               \/ \E e \in Events : Publish(p, e)
      PROVE  MarkersHaveSent'
  <2>1. /\ publisher'[p].step # "MARK" /\ replay' = replay
        /\ \A q \in Publishers \ {p} : publisher'[q] = publisher[q]
    BY <1>0, <1>5 DEF RecordEvent, Mark, PublicationLost, Publish, Publishing, Quiet,
       Publication
  <2> QED BY <1>3, <2>1
<1>6. ASSUME NEW w \in Replays,
             ReplayRead(w) \/ ReplayMark(w) \/ ReplayFails(w) \/ ReplayLost(w)
      PROVE  MarkersHaveSent'
  <2>1. /\ replay'[w].sent \in {NoEvent, replay[w].sent} /\ publisher' = publisher
        /\ \A v \in Replays \ {w} : replay'[v] = replay[v]
    <3>1. CASE ReplayRead(w)
      BY <1>0, <3>1 DEF ReplayRead
    <3>2. CASE ReplayMark(w)
      BY <1>0, <3>2 DEF ReplayMark, Done
    <3>3. CASE ReplayFails(w)
      BY <1>0, <3>3 DEF ReplayFails, Done
    <3>4. CASE ReplayLost(w)
      BY <1>0, <3>4 DEF ReplayLost, NoReplay
    <3> QED BY <1>6, <3>1, <3>2, <3>3, <3>4
  <2> QED BY <1>4, <2>1
<1>7. ASSUME UNCHANGED <<publisher, replay>> PROVE MarkersHaveSent'
  BY <1>m, <1>p, <1>w, <1>7
<1> QED
  BY <1>1, <1>2, <1>5, <1>6, <1>7 DEF Next, OutboxNext, ReplayStep, outboxVars, Reconcile,
     GatewayChanges, Tick

LEMMA NextPublishedWasSent ==
  ASSUME TypeOK, MarkersHaveSent, PublishedWasSent, [Next]_outboxVars
  PROVE  PublishedWasSent'
<1> USE NextKeepsSent DEF PublishedWasSent, Sent
<1>1. ASSUME NEW e \in Events, MarkPublished(e), Sent(e) PROVE PublishedWasSent'
  BY <1>1, MarkUpdate
<1>2. ASSUME \A e \in Events : outbox'[e].status = "PUBLISHED"
                                => outbox[e].status = "PUBLISHED"
      PROVE  PublishedWasSent'
  BY <1>2
<1>3. ASSUME NEW p \in Publishers, Mark(p) PROVE PublishedWasSent'
  <2>1. publisher[p].event \in Events /\ Sent(publisher[p].event)
    BY <1>3 DEF Mark, TypeOK, Publication, MarkersHaveSent
  <2> QED BY <1>1, <1>3, <2>1 DEF Mark
<1>4. ASSUME NEW w \in Replays, ReplayMark(w) PROVE PublishedWasSent'
  <2>1. replay[w].sent \in Events /\ Sent(replay[w].sent)
    BY <1>4 DEF ReplayMark, TypeOK, MarkersHaveSent
  <2> QED BY <1>1, <1>4, <2>1 DEF ReplayMark
<1>5. ASSUME NEW w \in Replays, ReplayFails(w) PROVE PublishedWasSent'
  BY <1>2, <1>5 DEF ReplayFails, TypeOK, EventRow
<1>6. ASSUME NEW p \in Publishers, RecordEvent(p) PROVE PublishedWasSent'
  BY <1>2, <1>6 DEF RecordEvent, TypeOK, EventRow
<1>7. ASSUME UNCHANGED outbox PROVE PublishedWasSent'
  BY <1>2, <1>7
<1> QED
  BY <1>3, <1>4, <1>5, <1>6, <1>7 DEF Next, OutboxNext, ReplayStep, outboxVars, Emit,
     PublicationLost, ReplayRead, ReplayPublish, ReplayLost, Reconcile, GatewayChanges,
     Tick, Publish

-------------------------------------------------------------------------------
LEMMA NextInv == Inv /\ [Next]_outboxVars => Inv'
BY NextTypeOK, NextMarkersHaveSent, NextPublishedWasSent DEF Inv

\* Every variable keeps its shape, whatever handlers, replays, clients and
\* shutdowns do.
THEOREM TypeCorrect == Spec => []TypeOK
<1>1. Inv => TypeOK
  BY DEF Inv
<1> QED BY InitInv, NextInv, <1>1, PTL DEF Spec

\* No row is marked published before its event went out.
THEOREM MarkedWasSent == Spec => []PublishedWasSent
<1>1. Inv => PublishedWasSent
  BY DEF Inv
<1> QED BY InitInv, NextInv, <1>1, PTL DEF Spec
===============================================================================
