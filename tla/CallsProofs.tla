------------------------------ MODULE CallsProofs ------------------------------
(***************************************************************************)
(* Proofs about Calls, for any number of users, calls, requests, replays   *)
(* and clients.                                                            *)
(*                                                                         *)
(* The routes share with the outbox only the publisher their write step    *)
(* starts, so the calls implement the outbox and inherit what is proved of *)
(* it in RealtimeOutboxProofs.  Delivery passes events on and makes none   *)
(* up, so what is heard was published by a write, whose change the         *)
(* append-only history keeps.                                              *)
(*                                                                         *)
(* A write rests on what its route read, and other requests may have come  *)
(* between.  It records what it judged, though, so while the history       *)
(* retraces the call, the write found either the status it had read or the *)
(* very change it makes; from that the tables and the transitions follow.  *)
(* Requests that do not overlap leave such a history always.               *)
(***************************************************************************)
EXTENDS Calls, SequenceTheorems, TLAPS

OutboxProofs == INSTANCE RealtimeOutboxProofs WITH
  Events <- LifecycleEvents, PointToPoint <- LifecycleEvents, Publishers <- Requests

-------------------------------------------------------------------------------
(* The outbox *)

\* The outbox proved about is the one the calls publish through.
LEMMA OutboxTypes == Outbox!TypeOK <=> OutboxProofs!TypeOK
BY DEF Outbox!TypeOK, OutboxProofs!TypeOK, Outbox!EventRow, OutboxProofs!EventRow,
   Outbox!Publication, OutboxProofs!Publication, Outbox!Read, OutboxProofs!Read,
   Outbox!Emission, OutboxProofs!Emission

LEMMA OutboxBegins ==
  /\ Outbox!OutboxInit <=> OutboxProofs!OutboxInit
  /\ Outbox!outboxVars = OutboxProofs!outboxVars
BY DEF Outbox!OutboxInit, OutboxProofs!OutboxInit, Outbox!Quiet, OutboxProofs!Quiet,
   Outbox!NoReplay, OutboxProofs!NoReplay, Outbox!outboxVars, OutboxProofs!outboxVars

LEMMA OutboxSteps == Outbox!Next <=> OutboxProofs!Next
<1> USE DEF Outbox!Recorded, OutboxProofs!Recorded, Outbox!Quiet, OutboxProofs!Quiet,
    Outbox!NoReplay, OutboxProofs!NoReplay, Outbox!MarkPublished,
    OutboxProofs!MarkPublished, Outbox!NextRead, OutboxProofs!NextRead,
    Outbox!Done, OutboxProofs!Done
<1>1. ASSUME NEW p
      PROVE  /\ Outbox!RecordEvent(p) <=> OutboxProofs!RecordEvent(p)
             /\ Outbox!Emit(p) <=> OutboxProofs!Emit(p)
             /\ Outbox!Mark(p) <=> OutboxProofs!Mark(p)
             /\ Outbox!PublicationLost(p) <=> OutboxProofs!PublicationLost(p)
  <2>1. Outbox!RecordEvent(p) <=> OutboxProofs!RecordEvent(p)
    BY DEF Outbox!RecordEvent, OutboxProofs!RecordEvent
  <2>2. Outbox!Emit(p) <=> OutboxProofs!Emit(p)
    BY DEF Outbox!Emit, OutboxProofs!Emit, Outbox!Audience, OutboxProofs!Audience
  <2>3. Outbox!Mark(p) <=> OutboxProofs!Mark(p)
    BY DEF Outbox!Mark, OutboxProofs!Mark
  <2>4. Outbox!PublicationLost(p) <=> OutboxProofs!PublicationLost(p)
    BY DEF Outbox!PublicationLost, OutboxProofs!PublicationLost
  <2> QED BY <2>1, <2>2, <2>3, <2>4
<1>2. ASSUME NEW w
      PROVE  /\ Outbox!ReplayRead(w) <=> OutboxProofs!ReplayRead(w)
             /\ Outbox!ReplayStep(w) <=> OutboxProofs!ReplayStep(w)
             /\ Outbox!ReplayLost(w) <=> OutboxProofs!ReplayLost(w)
  <2>1. Outbox!ReplayRead(w) <=> OutboxProofs!ReplayRead(w)
    BY DEF Outbox!ReplayRead, OutboxProofs!ReplayRead, Outbox!Undelivered,
       OutboxProofs!Undelivered
  <2>2. Outbox!ReplayPublish(w) <=> OutboxProofs!ReplayPublish(w)
    BY DEF Outbox!ReplayPublish, OutboxProofs!ReplayPublish, Outbox!ReplayRooms,
       OutboxProofs!ReplayRooms
  <2>3. Outbox!ReplayMark(w) <=> OutboxProofs!ReplayMark(w)
    BY DEF Outbox!ReplayMark, OutboxProofs!ReplayMark
  <2>4. Outbox!ReplayFails(w) <=> OutboxProofs!ReplayFails(w)
    BY DEF Outbox!ReplayFails, OutboxProofs!ReplayFails
  <2>5. Outbox!ReplayLost(w) <=> OutboxProofs!ReplayLost(w)
    BY DEF Outbox!ReplayLost, OutboxProofs!ReplayLost
  <2> QED BY <2>1, <2>2, <2>3, <2>4, <2>5 DEF Outbox!ReplayStep, OutboxProofs!ReplayStep
<1>3. ASSUME NEW k PROVE Outbox!Reconcile(k) <=> OutboxProofs!Reconcile(k)
  <2>1. \A cursor : Outbox!After(cursor) = OutboxProofs!After(cursor)
    BY DEF Outbox!After, OutboxProofs!After
  <2>2. \A page, cursor : Outbox!IsPage(page, cursor) <=> OutboxProofs!IsPage(page, cursor)
    <3>1. \A S : Outbox!Cardinality(S) = OutboxProofs!Cardinality(S)
      BY DEF Outbox!Cardinality, OutboxProofs!Cardinality
    <3> QED BY <2>1, <3>1 DEF Outbox!IsPage, OutboxProofs!IsPage
  <2> QED BY <2>2 DEF Outbox!Reconcile, OutboxProofs!Reconcile
<1>4. /\ Outbox!GatewayChanges <=> OutboxProofs!GatewayChanges
      /\ Outbox!Tick <=> OutboxProofs!Tick
  BY DEF Outbox!GatewayChanges, OutboxProofs!GatewayChanges, Outbox!Tick, OutboxProofs!Tick
<1>5. ASSUME NEW p, NEW e PROVE Outbox!Publish(p, e) <=> OutboxProofs!Publish(p, e)
  BY DEF Outbox!Publish, OutboxProofs!Publish, Outbox!Publishing, OutboxProofs!Publishing
<1> QED
  BY <1>1, <1>2, <1>3, <1>4, <1>5 DEF Outbox!Next, OutboxProofs!Next, Outbox!OutboxNext,
     OutboxProofs!OutboxNext

\* Hence the outbox keeps its types here too.
LEMMA OutboxInitType == Outbox!OutboxInit => Outbox!TypeOK
<1>1. OutboxProofs!OutboxAssumption
  BY CallsAssumption DEF CallsAssumption, OutboxProofs!OutboxAssumption,
     Outbox!OutboxAssumption
<1>2. OutboxProofs!OutboxInit => OutboxProofs!TypeOK
  BY <1>1, OutboxProofs!InitInv DEF OutboxProofs!Inv
<1> QED BY <1>2, OutboxBegins, OutboxTypes

LEMMA OutboxNextType ==
  ASSUME Outbox!TypeOK, Outbox!Next \/ UNCHANGED Outbox!outboxVars PROVE Outbox!TypeOK'
<1>1. OutboxProofs!OutboxAssumption
  BY CallsAssumption DEF CallsAssumption, OutboxProofs!OutboxAssumption,
     Outbox!OutboxAssumption
<1>2. OutboxProofs!TypeOK => OutboxProofs!TypeOK'
  <2>1. [OutboxProofs!Next]_OutboxProofs!outboxVars
    BY OutboxSteps DEF Outbox!outboxVars, OutboxProofs!outboxVars
  <2> QED BY <1>1, <2>1, OutboxProofs!NextTypeOK
<1>3. Outbox!TypeOK' <=> OutboxProofs!TypeOK'
  BY OutboxTypes, PTL
<1> QED BY <1>2, <1>3, OutboxTypes

-------------------------------------------------------------------------------
(* Types *)

Change == [from : {"NONE", "INITIATED", "RINGING", "CONNECTED"},
           to : {"INITIATED", "RINGING", "CONNECTED", "ENDED"}]

Parties == [Sides -> PartyRow]

\* A history grows by the same change, once or more.
LEMMA HistoryGrows ==
  ASSUME NEW h \in Seq(Change), NEW change \in Change, NEW times \in Nat \ {0}
  PROVE  LET longer == h \o [i \in 1..times |-> change] IN
         /\ longer \in Seq(Change) /\ Len(h) \in Nat
         /\ Len(longer) = Len(h) + times
         /\ \A i \in 1..Len(h) : longer[i] = h[i]
         /\ \A i \in (Len(h) + 1)..(Len(h) + times) : longer[i] = change
<1> DEFINE more == [i \in 1..times |-> change]
<1>1. more \in Seq(Change) /\ Len(more) = times
  <2>1. more \in [1..times -> Change]
    OBVIOUS
  <2>2. more \in Seq(Change)
    BY <2>1, SeqDef
  <2>3. DOMAIN more = 1..times /\ DOMAIN more = 1..Len(more) /\ Len(more) \in Nat
    BY <2>1, <2>2, LenProperties
  <2> QED BY <2>2, <2>3
<1>2. \A i \in 1..times : more[i] = change
  OBVIOUS
<1>3. Len(h) \in Nat
  BY LenProperties
<1> HIDE DEF more
<1>4. /\ h \o more \in Seq(Change)
      /\ Len(h \o more) = Len(h) + times
      /\ \A i \in 1..(Len(h) + times) :
           (h \o more)[i] = IF i <= Len(h) THEN h[i] ELSE more[i - Len(h)]
  BY <1>1, ConcatProperties
<1>5. \A i \in 1..Len(h) : (h \o more)[i] = h[i]
  BY <1>3, <1>4
<1>6. \A i \in (Len(h) + 1)..(Len(h) + times) : (h \o more)[i] = change
  BY <1>2, <1>3, <1>4
<1> QED BY <1>3, <1>4, <1>5, <1>6 DEF more

\* What is recorded of one change of a call.
LEMMA RecordedHistory ==
  ASSUME TypeOK, NEW c \in CallIds, NEW change \in Change, NEW times \in Nat \ {0},
         Recorded(c, change, times)
  PROVE  /\ history' \in [CallIds -> Seq(Change)]
         /\ \A d \in CallIds \ {c} : history'[d] = history[d]
         /\ Len(history[c]) \in Nat /\ Len(history'[c]) = Len(history[c]) + times
         /\ \A i \in 1..Len(history[c]) : history'[c][i] = history[c][i]
         /\ \A i \in (Len(history[c]) + 1)..(Len(history[c]) + times) :
              history'[c][i] = change
<1> DEFINE longer == history[c] \o [i \in 1..times |-> change]
<1>1. history \in [CallIds -> Seq(Change)] /\ history[c] \in Seq(Change)
  BY DEF TypeOK, Change
<1>2. history' = [history EXCEPT ![c] = longer]
  BY DEF Recorded
<1>3. /\ longer \in Seq(Change) /\ Len(history[c]) \in Nat
      /\ Len(longer) = Len(history[c]) + times
      /\ \A i \in 1..Len(history[c]) : longer[i] = history[c][i]
      /\ \A i \in (Len(history[c]) + 1)..(Len(history[c]) + times) : longer[i] = change
  BY <1>1, HistoryGrows
<1> HIDE DEF longer
<1> QED BY <1>1, <1>2, <1>3

LEMMA JobTypes ==
  /\ Idle \in Job
  /\ \A u, v \in Users : [op |-> "INITIATE", user |-> u, target |-> v] \in Job
  /\ \A job \in Job :
       /\ job.op = "INITIATE" => job.user \in Users /\ job.target \in Users
       /\ job.op \in {"ACCEPT", "REJECT", "END"} =>
            job.call \in CallIds /\ job.from \in {"RINGING", "CONNECTED"}
       /\ job.op = "END" => job.reason \in EndReasons \cup {"MISSED"}
BY DEF Job, Idle

LEMMA InitTypeOK == Init => TypeOK
<1> SUFFICES ASSUME Init PROVE TypeOK
  OBVIOUS
<1>1. call \in [CallIds -> CallRow]
  BY DEF Init, NoCall, CallRow
<1>2. party \in [CallIds -> [Sides -> PartyRow]]
  BY DEF Init, NewParties, Waiting, PartyRow
<1>3. history \in [CallIds -> Seq(Change)]
  BY EmptySeq DEF Init
<1>4. req \in [Requests -> Job]
  BY JobTypes DEF Init
<1>5. Outbox!TypeOK
  BY OutboxInitType DEF Init
<1> QED BY <1>1, <1>2, <1>3, <1>4, <1>5 DEF TypeOK, Change

\* A handler's read, and its loss, touch nothing but its own job.
LEMMA ReadsType ==
  ASSUME TypeOK, NEW q \in Requests, NEW job \in Job,
         req' = [req EXCEPT ![q] = job],
         UNCHANGED <<call, party, history, publisher, outboxRest>>
  PROVE  /\ TypeOK' /\ req'[q] = job /\ \A p \in Requests \ {q} : req'[p] = req[p]
         /\ UNCHANGED <<call, party, history>> /\ UNCHANGED Outbox!outboxVars
<1>1. UNCHANGED <<call, party, history>> /\ UNCHANGED Outbox!outboxVars
  BY DEF outboxRest, Outbox!outboxVars
<1>2. Outbox!TypeOK'
  BY <1>1, OutboxNextType DEF TypeOK
<1>3. /\ req' \in [Requests -> Job] /\ req'[q] = job
      /\ \A p \in Requests \ {q} : req'[p] = req[p]
  BY DEF TypeOK
<1> QED BY <1>1, <1>2, <1>3 DEF TypeOK

\* A handler's write is a step of the outbox and ends its job.
LEMMA WritesType ==
  ASSUME TypeOK, NEW q \in Requests, NEW c \in CallIds,
         NEW type \in {"call.ringing", "call.connected", "call.rejected",
                       "call.ended", "call.missed"},
         Writes(q, c, type)
  PROVE  /\ Outbox!Next /\ Outbox!TypeOK' /\ req' \in [Requests -> Job]
         /\ req'[q] = Idle /\ \A p \in Requests \ {q} : req'[p] = req[p]
         /\ publisher' = [publisher EXCEPT ![q] =
                            [step |-> "RECORD", event |-> <<c, type>>]]
         /\ <<c, type>> \in LifecycleEvents /\ UNCHANGED outboxRest
<1>1. <<c, type>> \in LifecycleEvents
  BY DEF LifecycleEvents
<1>2. Outbox!Publish(q, <<c, type>>)
  BY DEF Writes, Outbox!Publish, outboxRest
<1>3. Outbox!Next
  BY <1>1, <1>2 DEF Outbox!Next
<1>4. Outbox!TypeOK'
  BY <1>3, OutboxNextType DEF TypeOK
<1>5. /\ req' \in [Requests -> Job] /\ req'[q] = Idle
      /\ \A p \in Requests \ {q} : req'[p] = req[p]
  BY JobTypes DEF Writes, TypeOK
<1> QED BY <1>1, <1>3, <1>4, <1>5 DEF Writes, Outbox!Publishing

\* A row with some of its columns updated.
LEMMA RowUpdate ==
  ASSUME NEW row \in CallRow, NEW reason \in EndReasons \cup {"NONE", "REJECTED", "MISSED"}
  PROVE  /\ LET r == [row EXCEPT !.status = "CONNECTED", !.connected = TRUE] IN
            /\ r \in CallRow /\ r.status = "CONNECTED" /\ r.connected = TRUE
            /\ r.initiator = row.initiator /\ r.recipient = row.recipient
            /\ r.reason = row.reason
         /\ LET r == [row EXCEPT !.status = "ENDED", !.reason = reason] IN
            /\ r \in CallRow /\ r.status = "ENDED" /\ r.connected = row.connected
            /\ r.initiator = row.initiator /\ r.recipient = row.recipient
            /\ r.reason = reason
BY DEF CallRow

\* What each route's write makes of the call it is about.
LEMMA InitiateType ==
  ASSUME TypeOK, NEW q \in Requests, NEW c \in CallIds, req[q].op = "INITIATE",
         call' = [call EXCEPT ![c] = [NoCall EXCEPT !.status = "RINGING",
                    !.initiator = req[q].user, !.recipient = req[q].target]],
         party' = [party EXCEPT ![c] = NewParties],
         history' = [history EXCEPT ![c] = <<[from |-> "NONE", to |-> "INITIATED"],
                                            [from |-> "INITIATED", to |-> "RINGING"]>>],
         Writes(q, c, "call.ringing")
  PROVE  /\ TypeOK'
         /\ call'[c].status = "RINGING" /\ call'[c].connected = FALSE
         /\ call'[c].initiator = req[q].user /\ call'[c].recipient = req[q].target
         /\ party'[c] = NewParties
         /\ history'[c] = <<[from |-> "NONE", to |-> "INITIATED"],
                            [from |-> "INITIATED", to |-> "RINGING"]>>
         /\ \A d \in CallIds \ {c} :
              call'[d] = call[d] /\ party'[d] = party[d] /\ history'[d] = history[d]
<1> DEFINE row == [NoCall EXCEPT !.status = "RINGING", !.initiator = req[q].user,
                                 !.recipient = req[q].target]
<1>1. req[q].user \in Users /\ req[q].target \in Users
  BY JobTypes DEF TypeOK
<1>2. NoCall \in CallRow /\ NoCall.connected = FALSE
  BY DEF NoCall, CallRow
<1>3. /\ row \in CallRow /\ row.status = "RINGING" /\ row.connected = FALSE
      /\ row.initiator = req[q].user /\ row.recipient = req[q].target
  BY <1>1, <1>2 DEF CallRow
<1>4. call' = [call EXCEPT ![c] = row]
  OBVIOUS
<1> HIDE DEF row
<1>5. /\ call' \in [CallIds -> CallRow] /\ call'[c] = row
      /\ \A d \in CallIds \ {c} : call'[d] = call[d]
  BY <1>3, <1>4 DEF TypeOK
<1>6. NewParties \in [Sides -> PartyRow]
  BY DEF NewParties, Waiting, PartyRow
<1>7. <<[from |-> "NONE", to |-> "INITIATED"], [from |-> "INITIATED", to |-> "RINGING"]>>
        \in Seq(Change)
  BY DEF Change
<1>8. /\ party' \in [CallIds -> [Sides -> PartyRow]] /\ party'[c] = NewParties
      /\ \A d \in CallIds \ {c} : party'[d] = party[d]
  BY <1>6 DEF TypeOK
<1>9. /\ history' \in [CallIds -> Seq(Change)]
      /\ history'[c] = <<[from |-> "NONE", to |-> "INITIATED"],
                         [from |-> "INITIATED", to |-> "RINGING"]>>
      /\ \A d \in CallIds \ {c} : history'[d] = history[d]
  BY <1>7 DEF TypeOK, Change
<1>10. Outbox!TypeOK' /\ req' \in [Requests -> Job]
  BY WritesType
<1>11. TypeOK'
  BY <1>5, <1>8, <1>9, <1>10 DEF TypeOK, Change
<1> QED BY <1>3, <1>5, <1>8, <1>9, <1>11

\* A write that changes an existing call: its row, its parties and its history.
Changed(c, row, sides) ==
  /\ call' = [call EXCEPT ![c] = row]
  /\ party' = [party EXCEPT ![c] = sides]

LEMMA ChangeType ==
  ASSUME TypeOK, NEW q \in Requests, NEW c \in CallIds, NEW row \in CallRow,
         NEW sides \in Parties, NEW change \in Change,
         NEW times \in Nat \ {0},
         NEW type \in {"call.ringing", "call.connected", "call.rejected",
                       "call.ended", "call.missed"},
         Changed(c, row, sides), Recorded(c, change, times), Writes(q, c, type)
  PROVE  /\ TypeOK' /\ call'[c] = row /\ party'[c] = sides
         /\ \A d \in CallIds \ {c} :
              call'[d] = call[d] /\ party'[d] = party[d] /\ history'[d] = history[d]
<1>1. /\ call' \in [CallIds -> CallRow] /\ call'[c] = row
      /\ \A d \in CallIds \ {c} : call'[d] = call[d]
  BY DEF TypeOK, Changed
<1>2. /\ party' \in [CallIds -> Parties] /\ party'[c] = sides
      /\ \A d \in CallIds \ {c} : party'[d] = party[d]
  BY DEF TypeOK, Parties, Changed
<1>3. /\ history' \in [CallIds -> Seq(Change)]
      /\ \A d \in CallIds \ {c} : history'[d] = history[d]
  BY RecordedHistory
<1>4. Outbox!TypeOK' /\ req' \in [Requests -> Job]
  BY WritesType
<1>5. TypeOK'
  BY <1>1, <1>2, <1>3, <1>4 DEF TypeOK, Change, Parties
<1> QED BY <1>1, <1>2, <1>3, <1>5

AcceptedRow(q) == [call[req[q].call] EXCEPT !.status = "CONNECTED", !.connected = TRUE]
AcceptedSides(q) == [s \in Sides |-> [party[req[q].call][s] EXCEPT !.status = "ACCEPTED"]]
RejectedRow(q) == [call[req[q].call] EXCEPT !.status = "ENDED", !.reason = "REJECTED"]
RejectedSides == [s \in Sides |->
  [status |-> IF s = "RECIPIENT" THEN "REJECTED" ELSE "LEFT", left |-> TRUE]]
EndedRow(q) == [call[req[q].call] EXCEPT !.status = "ENDED", !.reason = req[q].reason]
EndedSides(q) == Leave(party[req[q].call],
                       IF req[q].reason = "MISSED" THEN "MISSED" ELSE "LEFT")
EndedEvent(q) == IF req[q].reason = "MISSED" THEN "call.missed" ELSE "call.ended"

LEMMA AcceptType ==
  ASSUME TypeOK, NEW q \in Requests, AcceptWrite(q), NEW c, c = req[q].call
  PROVE  /\ c \in CallIds /\ AcceptedRow(q) \in CallRow
         /\ TypeOK' /\ call'[c] = AcceptedRow(q) /\ party'[c] = AcceptedSides(q)
         /\ \A d \in CallIds \ {c} :
              call'[d] = call[d] /\ party'[d] = party[d] /\ history'[d] = history[d]
         /\ Recorded(c, [from |-> req[q].from, to |-> "CONNECTED"], 2)
         /\ [from |-> req[q].from, to |-> "CONNECTED"] \in Change
         /\ Writes(q, c, "call.connected")
<1>1. c \in CallIds /\ req[q].from \in {"RINGING", "CONNECTED"}
  BY JobTypes DEF AcceptWrite, TypeOK
<1>2. AcceptedRow(q) \in CallRow
  BY <1>1, RowUpdate DEF AcceptedRow, TypeOK
<1>3. AcceptedSides(q) \in Parties
  <2>1. \A s \in Sides : party[c][s] \in PartyRow
    BY <1>1 DEF TypeOK
  <2>2. \A s \in Sides : [party[c][s] EXCEPT !.status = "ACCEPTED"] \in PartyRow
    BY <2>1 DEF PartyRow
  <2> QED BY <2>2 DEF AcceptedSides, Parties
<1>4. [from |-> req[q].from, to |-> "CONNECTED"] \in Change
  BY <1>1 DEF Change
<1>5. /\ Changed(c, AcceptedRow(q), AcceptedSides(q))
      /\ Recorded(c, [from |-> req[q].from, to |-> "CONNECTED"], 2)
      /\ Writes(q, c, "call.connected")
  <2>1. call' = [call EXCEPT ![c] = AcceptedRow(q)]
    BY <1>1 DEF AcceptWrite, AcceptedRow, TypeOK
  <2>2. party' = [party EXCEPT ![c] = AcceptedSides(q)]
    BY <1>1 DEF AcceptWrite, AcceptedSides, TypeOK
  <2> QED BY <2>1, <2>2 DEF AcceptWrite, Changed
<1>6. PICK change \in Change : change = [from |-> req[q].from, to |-> "CONNECTED"]
  BY <1>4
<1>7. /\ TypeOK' /\ call'[c] = AcceptedRow(q) /\ party'[c] = AcceptedSides(q)
      /\ \A d \in CallIds \ {c} :
           call'[d] = call[d] /\ party'[d] = party[d] /\ history'[d] = history[d]
  <2>1. Recorded(c, change, 2)
    BY <1>5, <1>6
  <2>2. 2 \in Nat \ {0}
    OBVIOUS
  <2> QED BY <1>1, <1>2, <1>3, <1>5, <2>1, <2>2, ChangeType
<1> QED BY <1>1, <1>2, <1>4, <1>5, <1>7

LEMMA RejectType ==
  ASSUME TypeOK, NEW q \in Requests, RejectWrite(q), NEW c, c = req[q].call
  PROVE  /\ c \in CallIds /\ RejectedRow(q) \in CallRow
         /\ TypeOK' /\ call'[c] = RejectedRow(q) /\ party'[c] = RejectedSides
         /\ \A d \in CallIds \ {c} :
              call'[d] = call[d] /\ party'[d] = party[d] /\ history'[d] = history[d]
         /\ Recorded(c, [from |-> req[q].from, to |-> "ENDED"], 1)
         /\ [from |-> req[q].from, to |-> "ENDED"] \in Change
         /\ Writes(q, c, "call.rejected")
<1>1. c \in CallIds /\ req[q].from \in {"RINGING", "CONNECTED"}
  BY JobTypes DEF RejectWrite, TypeOK
<1>2. RejectedRow(q) \in CallRow
  BY <1>1, RowUpdate DEF RejectedRow, TypeOK
<1>3. RejectedSides \in Parties
  BY DEF RejectedSides, PartyRow, Parties
<1>4. [from |-> req[q].from, to |-> "ENDED"] \in Change
  BY <1>1 DEF Change
<1>5. /\ Changed(c, RejectedRow(q), RejectedSides)
      /\ Recorded(c, [from |-> req[q].from, to |-> "ENDED"], 1)
      /\ Writes(q, c, "call.rejected")
  <2>1. call' = [call EXCEPT ![c] = RejectedRow(q)]
    BY <1>1 DEF RejectWrite, RejectedRow, TypeOK
  <2> QED BY <2>1 DEF RejectWrite, RejectedSides, Changed
<1>6. PICK change \in Change : change = [from |-> req[q].from, to |-> "ENDED"]
  BY <1>4
<1>7. /\ TypeOK' /\ call'[c] = RejectedRow(q) /\ party'[c] = RejectedSides
      /\ \A d \in CallIds \ {c} :
           call'[d] = call[d] /\ party'[d] = party[d] /\ history'[d] = history[d]
  <2>1. Recorded(c, change, 1)
    BY <1>5, <1>6
  <2>2. 1 \in Nat \ {0}
    OBVIOUS
  <2> QED BY <1>1, <1>2, <1>3, <1>5, <2>1, <2>2, ChangeType
<1> QED BY <1>1, <1>2, <1>4, <1>5, <1>7

LEMMA EndType ==
  ASSUME TypeOK, NEW q \in Requests, EndWrite(q), NEW c, c = req[q].call
  PROVE  /\ c \in CallIds /\ EndedRow(q) \in CallRow
         /\ TypeOK' /\ call'[c] = EndedRow(q) /\ party'[c] = EndedSides(q)
         /\ \A d \in CallIds \ {c} :
              call'[d] = call[d] /\ party'[d] = party[d] /\ history'[d] = history[d]
         /\ Recorded(c, [from |-> req[q].from, to |-> "ENDED"], 1)
         /\ [from |-> req[q].from, to |-> "ENDED"] \in Change
         /\ Writes(q, c, EndedEvent(q)) /\ EndedEvent(q) \in {"call.ended", "call.missed"}
<1>1. /\ c \in CallIds /\ req[q].from \in {"RINGING", "CONNECTED"}
      /\ req[q].reason \in EndReasons \cup {"MISSED"}
  BY JobTypes DEF EndWrite, TypeOK
<1>2. EndedRow(q) \in CallRow
  BY <1>1, RowUpdate DEF EndedRow, TypeOK
<1>3. EndedSides(q) \in Parties
  BY <1>1 DEF EndedSides, Leave, TypeOK, PartyRow, Parties
<1>4. [from |-> req[q].from, to |-> "ENDED"] \in Change
  BY <1>1 DEF Change
<1>5. /\ Changed(c, EndedRow(q), EndedSides(q))
      /\ Recorded(c, [from |-> req[q].from, to |-> "ENDED"], 1)
      /\ Writes(q, c, EndedEvent(q))
  <2>1. call' = [call EXCEPT ![c] = EndedRow(q)]
    BY <1>1 DEF EndWrite, EndedRow, TypeOK
  <2>2. party' = [party EXCEPT ![c] = EndedSides(q)]
    BY <1>1 DEF EndWrite, EndedSides, TypeOK
  <2> QED BY <2>1, <2>2 DEF EndWrite, EndedEvent, Changed
<1>6. EndedEvent(q) \in {"call.ended", "call.missed"}
  BY DEF EndedEvent
<1>7. PICK change \in Change : change = [from |-> req[q].from, to |-> "ENDED"]
  BY <1>4
<1>8. /\ TypeOK' /\ call'[c] = EndedRow(q) /\ party'[c] = EndedSides(q)
      /\ \A d \in CallIds \ {c} :
           call'[d] = call[d] /\ party'[d] = party[d] /\ history'[d] = history[d]
  <2>1. Recorded(c, change, 1)
    BY <1>5, <1>7
  <2>2. 1 \in Nat \ {0}
    OBVIOUS
  <2> QED BY <1>1, <1>2, <1>3, <1>5, <1>6, <2>1, <2>2, ChangeType
<1> QED BY <1>1, <1>2, <1>4, <1>5, <1>6, <1>8

LEMMA Transitions ==
  /\ \A s \in {"RINGING", "CONNECTED", "ENDED"} :
       /\ canTransitionVoiceCall(s, "CONNECTED") <=> s = "RINGING"
       /\ canTransitionVoiceCall(s, "ENDED") <=> s \in {"RINGING", "CONNECTED"}
  /\ "CONNECTED" \in VOICE_CALL_STATUS_TRANSITIONS["RINGING"]
  /\ "ENDED" \in VOICE_CALL_STATUS_TRANSITIONS["RINGING"]
  /\ "ENDED" \in VOICE_CALL_STATUS_TRANSITIONS["CONNECTED"]
<1>1. /\ VOICE_CALL_STATUS_TRANSITIONS["RINGING"] = {"CONNECTED", "ENDED"}
      /\ VOICE_CALL_STATUS_TRANSITIONS["CONNECTED"] = {"ENDED"}
      /\ VOICE_CALL_STATUS_TRANSITIONS["ENDED"] = {}
  BY DEF VOICE_CALL_STATUS_TRANSITIONS
<1> QED BY <1>1 DEF canTransitionVoiceCall

\* What a handler found out before it writes.
ReadsOf(q, job) ==
  \/ \E u, v \in Users :
       /\ u # v /\ job = [op |-> "INITIATE", user |-> u, target |-> v]
       /\ ~\E c \in CallIds : Live(c) /\ Pair(c) = {u, v}
  \/ \E c \in CallIds, op \in {"ACCEPT", "REJECT"} :
       /\ call[c].status = "RINGING"
       /\ job = [op |-> op, call |-> c, from |-> "RINGING"]
  \/ \E c \in CallIds, u \in Users, given \in EndReasons :
       /\ call[c].status \in {"RINGING", "CONNECTED"}
       /\ job = [op |-> "END", call |-> c, from |-> call[c].status,
                 reason |-> EndReason(c, u, given)]

LEMMA ReadsJob ==
  ASSUME TypeOK, NEW q \in Requests, NEW job, ReadsOf(q, job) PROVE job \in Job
<1>1. ASSUME NEW c \in CallIds, NEW u, NEW given \in EndReasons
      PROVE  EndReason(c, u, given) \in EndReasons \cup {"MISSED"}
  BY DEF EndReason, EndReasons
<1>2. \A c \in CallIds, op \in {"ACCEPT", "REJECT"} :
        [op |-> op, call |-> c, from |-> "RINGING"] \in Job
  BY DEF Job
<1>3. \A c \in CallIds, from \in {"RINGING", "CONNECTED"},
         reason \in EndReasons \cup {"MISSED"} :
        [op |-> "END", call |-> c, from |-> from, reason |-> reason] \in Job
  BY DEF Job
<1>4. ASSUME NEW c \in CallIds, NEW u \in Users, NEW given \in EndReasons,
             call[c].status \in {"RINGING", "CONNECTED"}
      PROVE  [op |-> "END", call |-> c, from |-> call[c].status,
              reason |-> EndReason(c, u, given)] \in Job
  <2>1. PICK from \in {"RINGING", "CONNECTED"} : from = call[c].status
    BY <1>4
  <2>2. PICK reason \in EndReasons \cup {"MISSED"} : reason = EndReason(c, u, given)
    BY <1>1
  <2> QED BY <1>3, <2>1, <2>2
<1> QED BY <1>2, <1>4, JobTypes DEF ReadsOf

\* Every step of the routes is a read, a loss or one of the four writes.
LEMMA RoutesCases ==
  ASSUME TypeOK, NEW q \in Requests, Routes(q)
  PROVE  \/ \E job \in Job : ReadsOf(q, job) /\ Reads(q, job)
         \/ InitiateWrite(q) \/ AcceptWrite(q) \/ RejectWrite(q) \/ EndWrite(q)
         \/ Abandon(q)
<1>0. \A c \in CallIds : Exists(c) => call[c].status \in {"RINGING", "CONNECTED", "ENDED"}
  BY DEF TypeOK, CallRow, Exists
<1>1. ASSUME NEW job, ReadsOf(q, job), Reads(q, job)
      PROVE  \E j \in Job : ReadsOf(q, j) /\ Reads(q, j)
  BY <1>1, ReadsJob
<1>2. ASSUME NEW u \in Users, NEW v \in Users, InitiateRead(q, u, v)
      PROVE  \E j \in Job : ReadsOf(q, j) /\ Reads(q, j)
  <2> DEFINE job == [op |-> "INITIATE", user |-> u, target |-> v]
  <2>1. ReadsOf(q, job) /\ Reads(q, job)
    BY <1>2 DEF InitiateRead, ReadsOf
  <2> QED BY <1>1, <2>1
<1>3. ASSUME NEW c \in CallIds, AcceptRead(q, c) \/ RejectRead(q, c)
      PROVE  \E j \in Job : ReadsOf(q, j) /\ Reads(q, j)
  <2>1. call[c].status = "RINGING"
    BY <1>0, <1>3, Transitions DEF AcceptRead, RejectRead
  <2>2. PICK op \in {"ACCEPT", "REJECT"} :
          Reads(q, [op |-> op, call |-> c, from |-> "RINGING"])
    BY <1>3, <2>1 DEF AcceptRead, RejectRead
  <2> DEFINE job == [op |-> op, call |-> c, from |-> "RINGING"]
  <2>3. ReadsOf(q, job) /\ Reads(q, job)
    BY <2>1, <2>2 DEF ReadsOf
  <2> QED BY <1>1, <2>3
<1>4. ASSUME NEW c \in CallIds, NEW u \in Users, NEW given \in EndReasons,
             EndRead(q, c, u, given)
      PROVE  \E j \in Job : ReadsOf(q, j) /\ Reads(q, j)
  <2> DEFINE job == [op |-> "END", call |-> c, from |-> call[c].status,
                     reason |-> EndReason(c, u, given)]
  <2>1. call[c].status \in {"RINGING", "CONNECTED"}
    BY <1>0, <1>4, Transitions DEF EndRead
  <2>2. ReadsOf(q, job) /\ Reads(q, job)
    BY <1>4, <2>1 DEF EndRead, ReadsOf
  <2> QED BY <1>1, <2>2
<1> QED BY <1>2, <1>3, <1>4 DEF Routes

\* What a route's step is to the outbox.
LEMMA RoutesType ==
  ASSUME TypeOK, NEW q \in Requests, Routes(q)
  PROVE  TypeOK' /\ (Outbox!Next \/ UNCHANGED Outbox!outboxVars)
<1>1. ASSUME NEW job \in Job, Reads(q, job)
      PROVE  TypeOK' /\ UNCHANGED Outbox!outboxVars
  BY <1>1, ReadsType DEF Reads
<1>2. CASE Abandon(q)
  BY <1>2, ReadsType, JobTypes DEF Abandon
<1>3. CASE InitiateWrite(q)
  BY <1>3, InitiateType, WritesType DEF InitiateWrite
<1>4. CASE AcceptWrite(q)
  BY <1>4, AcceptType, WritesType
<1>5. CASE RejectWrite(q)
  BY <1>5, RejectType, WritesType
<1>6. CASE EndWrite(q)
  BY <1>6, EndType, WritesType
<1> QED BY <1>1, <1>2, <1>3, <1>4, <1>5, <1>6, RoutesCases

LEMMA NextTypeOK ==
  TypeOK /\ [Next]_vars => TypeOK' /\ [Outbox!Next]_(Outbox!outboxVars)
<1> SUFFICES ASSUME TypeOK, [Next]_vars
             PROVE  TypeOK' /\ (Outbox!Next \/ UNCHANGED Outbox!outboxVars)
  OBVIOUS
<1>1. CASE Outbox!OutboxNext /\ UNCHANGED callVars
  <2>1. Outbox!Next
    BY <1>1 DEF Outbox!Next
  <2>2. Outbox!TypeOK'
    BY <2>1, OutboxNextType DEF TypeOK
  <2> QED BY <1>1, <2>1, <2>2 DEF callVars, TypeOK
<1>2. CASE UNCHANGED vars
  <2>1. UNCHANGED <<call, party, history, req>> /\ UNCHANGED Outbox!outboxVars
    BY <1>2 DEF vars, callVars, outboxRest, Outbox!outboxVars
  <2>2. Outbox!TypeOK'
    BY <2>1, OutboxNextType DEF TypeOK
  <2> QED BY <2>1, <2>2 DEF TypeOK
<1> QED BY <1>1, <1>2, RoutesType DEF Next

\* Calls, their parties, histories and requests, and the outbox keep their types,
\* however requests, replays and clients overlap.
THEOREM TypeCorrect == Spec => []TypeOK
BY InitTypeOK, NextTypeOK, PTL DEF Spec

\* The calls use the outbox only as publishCallEvent does: whatever they do, the outbox
\* they publish through behaves as RealtimeOutbox allows.
OutboxBehaves == Outbox!OutboxInit /\ [][Outbox!Next]_(Outbox!outboxVars)

\* The calls implement the realtime outbox.
THEOREM CallsImplementOutbox == Spec => OutboxBehaves
<1>1. Init => Outbox!OutboxInit
  BY DEF Init
<1> QED BY <1>1, TypeCorrect, NextTypeOK, PTL DEF Spec, OutboxBehaves

\* Hence no call event is marked published before it went out: what RealtimeOutboxProofs
\* proves of the outbox on its own holds of it inside the calls.
THEOREM CallEventsWereSent == Spec => []Outbox!PublishedWasSent
<1>1. OutboxProofs!OutboxAssumption
  BY CallsAssumption DEF CallsAssumption, OutboxProofs!OutboxAssumption,
     Outbox!OutboxAssumption
<1>2. Outbox!OutboxInit => OutboxProofs!Inv
  BY <1>1, OutboxBegins, OutboxProofs!InitInv
<1>3. OutboxProofs!Inv /\ [Outbox!Next]_(Outbox!outboxVars) => OutboxProofs!Inv'
  <2> SUFFICES ASSUME OutboxProofs!Inv, [Outbox!Next]_(Outbox!outboxVars)
               PROVE  OutboxProofs!Inv'
    OBVIOUS
  <2>1. [OutboxProofs!Next]_OutboxProofs!outboxVars
    BY OutboxSteps DEF Outbox!outboxVars, OutboxProofs!outboxVars
  <2> QED BY <1>1, <2>1, OutboxProofs!NextInv
<1>4. OutboxProofs!Inv => Outbox!PublishedWasSent
  BY DEF OutboxProofs!Inv, OutboxProofs!PublishedWasSent, Outbox!PublishedWasSent
<1> QED BY <1>2, <1>3, <1>4, CallsImplementOutbox, PTL DEF OutboxBehaves

-------------------------------------------------------------------------------
(* Delivery *)

\* Every event on its way, wherever it is, is one of S.
Within(S) ==
  /\ \A q \in Requests : publisher[q].step # "IDLE" => publisher[q].event \in S
  /\ \A e \in LifecycleEvents : Outbox!Recorded(e) => e \in S
  /\ \A w \in Replays : /\ \A b \in replay[w].batch : b.event \in S
                        /\ replay[w].sent # NoEvent => replay[w].sent \in S
  /\ \A m \in emitted : m.event \in S

\* A write puts one more event on its way.
LEMMA WriteWithin ==
  ASSUME NEW S, NEW T, S \subseteq T, Within(S), UNCHANGED outboxRest,
         \A q \in Requests : publisher'[q] = publisher[q] \/ publisher'[q].event \in T
  PROVE  Within(T)'
BY DEF Within, outboxRest, Outbox!Recorded

\* Delivery passes events on as they are: marking one adds none to the recorded ones.
LEMMA MarkRecords ==
  ASSUME Outbox!TypeOK, NEW e \in LifecycleEvents, Outbox!MarkPublished(e)
  PROVE  \A f \in LifecycleEvents : Outbox!Recorded(f)' => f = e \/ Outbox!Recorded(f)
<1>1. \A f \in LifecycleEvents \ {e} : outbox'[f] = outbox[f]
  <2> DEFINE half == [outbox EXCEPT ![e].status = "PUBLISHED"]
  <2>1. half \in [LifecycleEvents -> Outbox!EventRow]
    BY DEF Outbox!TypeOK, Outbox!EventRow
  <2>2. outbox' = [half EXCEPT ![e].attempts = half[e].attempts + 1]
    BY DEF Outbox!MarkPublished
  <2>3. \A f \in LifecycleEvents \ {e} : half[f] = outbox[f]
    BY DEF Outbox!TypeOK
  <2> HIDE DEF half
  <2> QED BY <2>1, <2>2, <2>3
<1> QED BY <1>1 DEF Outbox!Recorded

\* Whatever of delivery is left as it was stays true.
LEMMA DeliveryKept ==
  ASSUME NEW S, Within(S)
  PROVE  /\ (\A q \in Requests : \/ publisher'[q].step = "IDLE"
                                 \/ publisher'[q].event = publisher[q].event
                                      /\ publisher[q].step # "IDLE")
            => \A q \in Requests :
                 publisher'[q].step # "IDLE" => publisher'[q].event \in S
         /\ outbox' = outbox =>
              \A e \in LifecycleEvents : Outbox!Recorded(e)' => e \in S
         /\ replay' = replay =>
              \A w \in Replays :
                /\ \A b \in replay'[w].batch : b.event \in S
                /\ replay'[w].sent # NoEvent => replay'[w].sent \in S
         /\ emitted' = emitted => \A m \in emitted' : m.event \in S
<1>1. ASSUME NEW q \in Requests, publisher'[q].event = publisher[q].event,
             publisher[q].step # "IDLE"
      PROVE  publisher'[q].event \in S
  BY <1>1 DEF Within
<1>2. ASSUME outbox' = outbox, NEW e \in LifecycleEvents, Outbox!Recorded(e)'
      PROVE  e \in S
  BY <1>2 DEF Within, Outbox!Recorded
<1>3. ASSUME replay' = replay, NEW w \in Replays
      PROVE  /\ \A b \in replay'[w].batch : b.event \in S
             /\ replay'[w].sent # NoEvent => replay'[w].sent \in S
  BY <1>3 DEF Within
<1>4. ASSUME emitted' = emitted, NEW m \in emitted' PROVE m.event \in S
  BY <1>4 DEF Within
<1> QED BY <1>1, <1>2, <1>3, <1>4

LEMMA HandlerWithin ==
  ASSUME NEW S, TypeOK, Within(S), NEW p \in Requests,
         \/ Outbox!RecordEvent(p) \/ Outbox!Emit(p)
         \/ Outbox!Mark(p) \/ Outbox!PublicationLost(p)
  PROVE  Within(S)'
<1> USE DEF Outbox!Quiet
<1>1. publisher \in [Requests -> Outbox!Publication] /\ Outbox!TypeOK
  BY DEF TypeOK, Outbox!TypeOK
<1>2. \A q \in Requests : \/ publisher'[q].step = "IDLE"
                          \/ publisher'[q].event = publisher[q].event
                               /\ publisher[q].step # "IDLE"
  <2>1. CASE Outbox!RecordEvent(p)
    BY <1>1, <2>1 DEF Outbox!RecordEvent, Outbox!Publication
  <2>2. CASE Outbox!Emit(p)
    BY <1>1, <2>2 DEF Outbox!Emit, Outbox!Publication
  <2>3. CASE Outbox!Mark(p) \/ Outbox!PublicationLost(p)
    BY <1>1, <2>3 DEF Outbox!Mark, Outbox!PublicationLost, Outbox!Publication
  <2> QED BY <2>1, <2>2, <2>3
<1>3. replay' = replay
  BY DEF Outbox!RecordEvent, Outbox!Emit, Outbox!Mark, Outbox!PublicationLost
<1>4. publisher[p].step # "IDLE" =>
        publisher[p].event \in LifecycleEvents /\ publisher[p].event \in S
  BY <1>1 DEF Outbox!Publication, Within
<1>5. ASSUME NEW e \in LifecycleEvents, Outbox!Recorded(e)' PROVE e \in S
  <2>1. CASE Outbox!RecordEvent(p)
    BY <1>1, <1>4, <1>5, <2>1 DEF Outbox!RecordEvent, Outbox!Recorded, Outbox!TypeOK,
       Outbox!EventRow, Within
  <2>2. CASE Outbox!Mark(p)
    <3>1. Outbox!MarkPublished(publisher[p].event) /\ publisher[p].step # "IDLE"
      BY <2>2 DEF Outbox!Mark
    <3> QED BY <1>1, <1>4, <1>5, <3>1, MarkRecords DEF Within
  <2>3. CASE Outbox!Emit(p) \/ Outbox!PublicationLost(p)
    BY <1>5, <2>3, DeliveryKept DEF Outbox!Emit, Outbox!PublicationLost
  <2> QED BY <2>1, <2>2, <2>3
<1>6. ASSUME NEW m \in emitted' PROVE m.event \in S
  <2>1. CASE Outbox!Emit(p)
    BY <1>4, <1>6, <2>1 DEF Outbox!Emit, Within
  <2>2. CASE ~Outbox!Emit(p)
    BY <1>6, <2>2, DeliveryKept
       DEF Outbox!RecordEvent, Outbox!Mark, Outbox!PublicationLost
  <2> QED BY <2>1, <2>2
<1> QED BY <1>2, <1>3, <1>5, <1>6, DeliveryKept DEF Within

LEMMA ReplayWithin ==
  ASSUME NEW S, TypeOK, Within(S), NEW w \in Replays,
         Outbox!ReplayRead(w) \/ Outbox!ReplayStep(w) \/ Outbox!ReplayLost(w)
  PROVE  Within(S)'
<1>1. /\ replay \in [Replays -> [batch : SUBSET Outbox!Read,
                                 sent : LifecycleEvents \cup {NoEvent}]]
      /\ Outbox!TypeOK
  BY DEF TypeOK, Outbox!TypeOK
<1>2. publisher' = publisher
  BY DEF Outbox!ReplayRead, Outbox!ReplayStep, Outbox!ReplayPublish, Outbox!ReplayMark,
     Outbox!ReplayFails, Outbox!ReplayLost
<1>3. /\ \A b \in replay[w].batch : b.event \in LifecycleEvents /\ b.event \in S
      /\ replay[w].sent # NoEvent =>
           replay[w].sent \in LifecycleEvents /\ replay[w].sent \in S
  BY <1>1 DEF Within, Outbox!Read
<1>4. ASSUME NEW e \in LifecycleEvents, Outbox!Recorded(e)' PROVE e \in S
  <2>1. CASE Outbox!ReplayMark(w)
    <3>1. Outbox!MarkPublished(replay[w].sent) /\ replay[w].sent # NoEvent
      BY <2>1 DEF Outbox!ReplayMark
    <3> QED BY <1>1, <1>3, <1>4, <3>1, MarkRecords DEF Within
  <2>2. CASE Outbox!ReplayFails(w)
    <3>1. PICK b \in Outbox!NextRead(w) :
            outbox' = [outbox EXCEPT ![b.event] = [@ EXCEPT !.status = "FAILED",
                                                     !.attempts = b.attempts + 1]]
      BY <2>2 DEF Outbox!ReplayFails
    <3>2. b.event \in LifecycleEvents /\ b.event \in S
      BY <1>3 DEF Outbox!NextRead
    <3>3. e = b.event \/ outbox'[e] = outbox[e]
      BY <1>1, <3>1 DEF Outbox!TypeOK
    <3> QED BY <1>4, <3>2, <3>3 DEF Outbox!Recorded, Within
  <2>3. CASE Outbox!ReplayRead(w) \/ Outbox!ReplayPublish(w) \/ Outbox!ReplayLost(w)
    BY <1>4, <2>3, DeliveryKept
       DEF Outbox!ReplayRead, Outbox!ReplayPublish, Outbox!ReplayLost
  <2> QED BY <2>1, <2>2, <2>3 DEF Outbox!ReplayStep
<1>5. ASSUME NEW v \in Replays
      PROVE  /\ \A b \in replay'[v].batch : b.event \in S
             /\ replay'[v].sent # NoEvent => replay'[v].sent \in S
  <2>1. CASE replay'[v] = replay[v]
    BY <2>1 DEF Within
  <2>2. CASE Outbox!ReplayRead(w) /\ v = w
    <3> DEFINE batch == {[event |-> e, attempts |-> outbox[e].attempts] :
                           e \in {f \in LifecycleEvents : Outbox!Undelivered(f)}}
    <3>1. replay'[v].batch = batch /\ replay'[v].sent = replay[v].sent
      <4>1. replay' = [replay EXCEPT ![w].batch = batch]
        BY <2>2 DEF Outbox!ReplayRead
      <4> HIDE DEF batch
      <4> QED BY <1>1, <2>2, <4>1
    <3>2. \A b \in batch : b.event \in LifecycleEvents /\ Outbox!Recorded(b.event)
      BY DEF Outbox!Undelivered, Outbox!Recorded
    <3> QED BY <1>3, <2>2, <3>1, <3>2 DEF Within
  <2>3. CASE Outbox!ReplayPublish(w) /\ v = w
    <3>1. PICK b \in Outbox!NextRead(w) : replay' = [replay EXCEPT ![w].sent = b.event]
      BY <2>3 DEF Outbox!ReplayPublish
    <3>2. replay'[v].batch = replay[v].batch /\ replay'[v].sent = b.event
      BY <1>1, <2>3, <3>1
    <3> QED BY <1>3, <2>3, <3>1, <3>2 DEF Outbox!NextRead
  <2>4. CASE (Outbox!ReplayMark(w) \/ Outbox!ReplayFails(w)) /\ v = w
    <3>1. PICK e : Outbox!Done(w, e)
      BY <2>4 DEF Outbox!ReplayMark, Outbox!ReplayFails
    <3>2. replay'[v].batch \subseteq replay[v].batch /\ replay'[v].sent = NoEvent
      BY <1>1, <2>4, <3>1 DEF Outbox!Done
    <3> QED BY <1>3, <2>4, <3>2
  <2>5. CASE Outbox!ReplayLost(w) /\ v = w
    <3>1. replay'[v].batch = {} /\ replay'[v].sent = NoEvent
      BY <1>1, <2>5 DEF Outbox!ReplayLost, Outbox!NoReplay
    <3> QED BY <3>1
  <2>6. CASE v # w
    <3>1. replay'[v] = replay[v]
      BY <1>1, <2>6 DEF Outbox!ReplayRead, Outbox!ReplayStep, Outbox!ReplayPublish,
         Outbox!ReplayMark, Outbox!ReplayFails, Outbox!ReplayLost, Outbox!Done
    <3> QED BY <2>1, <3>1
  <2> QED BY <2>2, <2>3, <2>4, <2>5, <2>6 DEF Outbox!ReplayStep
<1>6. ASSUME NEW m \in emitted' PROVE m.event \in S
  <2>1. CASE Outbox!ReplayPublish(w)
    <3>1. PICK b \in Outbox!NextRead(w) :
            emitted' = emitted \cup {[event |-> b.event, rooms |-> Outbox!ReplayRooms]}
      BY <2>1 DEF Outbox!ReplayPublish
    <3> QED BY <1>3, <1>6, <3>1 DEF Outbox!NextRead, Within
  <2>2. CASE ~Outbox!ReplayPublish(w)
    BY <1>6, <2>2, DeliveryKept DEF Outbox!ReplayRead, Outbox!ReplayStep,
       Outbox!ReplayMark, Outbox!ReplayFails, Outbox!ReplayLost
  <2> QED BY <2>1, <2>2
<1>7. \A q \in Requests : publisher'[q].step # "IDLE" => publisher'[q].event \in S
  BY <1>2 DEF Within
<1> QED BY <1>4, <1>5, <1>6, <1>7 DEF Within

LEMMA OutboxWithin ==
  ASSUME NEW S, TypeOK, Within(S), Outbox!OutboxNext PROVE Within(S)'
<1>1. CASE \/ Outbox!GatewayChanges \/ Outbox!Tick \/ \E k \in Clients : Outbox!Reconcile(k)
  <2>1. UNCHANGED <<outbox, publisher, replay, emitted>>
    BY <1>1 DEF Outbox!GatewayChanges, Outbox!Tick, Outbox!Reconcile
  <2> QED BY <2>1 DEF Within, Outbox!Recorded
<1> QED BY <1>1, HandlerWithin, ReplayWithin DEF Outbox!OutboxNext

\* Delivery passes on what is on its way and adds nothing.
LEMMA OnlyPassedOn ==
  ASSUME NEW S, TypeOK, Within(S),
         Outbox!OutboxNext \/ UNCHANGED <<publisher, outboxRest>>
  PROVE  Within(S)'
<1>1. CASE UNCHANGED <<publisher, outboxRest>>
  BY <1>1, WriteWithin
<1> QED BY <1>1, OutboxWithin

\* Nothing is on its way at first.
LEMMA InitWithin == \A S : Outbox!OutboxInit => Within(S)
BY DEF Outbox!OutboxInit, Within, Outbox!Quiet, Outbox!NoReplay, Outbox!Recorded

-------------------------------------------------------------------------------
(* What is heard, however requests overlap *)

OnRecord == {e \in LifecycleEvents : IsOnRecord(e, history)}

RecordInv ==
  /\ TypeOK
  /\ \A c \in CallIds : ~Exists(c) => history[c] = <<>>
  /\ Within(OnRecord)

LEMMA RecordKept ==
  ASSUME RecordInv, TypeOK', call' = call, history' = history,
         Outbox!OutboxNext \/ UNCHANGED <<publisher, outboxRest>>
  PROVE  RecordInv'
<1>1. OnRecord' = OnRecord
  BY DEF OnRecord
<1>2. PICK S : S = OnRecord
  OBVIOUS
<1>3. Within(S)'
  BY <1>2, OnlyPassedOn DEF RecordInv
<1> QED BY <1>1, <1>2, <1>3 DEF RecordInv, Exists, Within

\* A write records what it publishes and forgets nothing recorded.
LEMMA RecordWritten ==
  ASSUME RecordInv, TypeOK', NEW q \in Requests, NEW c \in CallIds,
         NEW type \in {"call.ringing", "call.connected", "call.rejected",
                       "call.ended", "call.missed"},
         Writes(q, c, type), Exists(c)', IsOnRecord(<<c, type>>, history'),
         \A d \in CallIds \ {c} : call'[d] = call[d] /\ history'[d] = history[d],
         \A i \in 1..Len(history[c]) :
           i \in 1..Len(history'[c]) /\ history'[c][i] = history[c][i]
  PROVE  RecordInv'
<1>1. OnRecord \subseteq OnRecord'
  <2> SUFFICES ASSUME NEW e \in LifecycleEvents, IsOnRecord(e, history)
               PROVE  IsOnRecord(e, history')
    BY DEF OnRecord
  <2>1. e[1] \in CallIds
    BY DEF LifecycleEvents
  <2> QED BY <2>1 DEF IsOnRecord
<1>2. /\ publisher' = [publisher EXCEPT ![q] = [step |-> "RECORD", event |-> <<c, type>>]]
      /\ <<c, type>> \in LifecycleEvents /\ UNCHANGED outboxRest
  BY DEF Writes, Outbox!Publishing, LifecycleEvents
<1>3. \A p \in Requests : publisher'[p] = publisher[p] \/ publisher'[p].event \in OnRecord'
  <2>1. <<c, type>> \in OnRecord'
    BY <1>2 DEF OnRecord
  <2>2. publisher \in [Requests -> Outbox!Publication]
    BY DEF RecordInv, TypeOK, Outbox!TypeOK
  <2> QED BY <1>2, <2>1, <2>2
<1>4. Within(OnRecord)'
  <2>1. PICK S, T : S = OnRecord /\ T = OnRecord'
    OBVIOUS
  <2>2. Within(T)'
    BY <1>1, <1>2, <1>3, <2>1, WriteWithin DEF RecordInv
  <2> QED BY <2>1, <2>2 DEF Within
<1>5. \A d \in CallIds : ~Exists(d)' => history'[d] = <<>>
  BY DEF RecordInv, Exists
<1> QED BY <1>4, <1>5 DEF RecordInv

\* What a route appends is on record after everything that was.
LEMMA Appended ==
  ASSUME TypeOK, NEW c \in CallIds, NEW change \in Change, NEW times \in Nat \ {0},
         Recorded(c, change, times),
         NEW type, change.to = Told(type)
  PROVE  /\ IsOnRecord(<<c, type>>, history')
         /\ \A i \in 1..Len(history[c]) :
              i \in 1..Len(history'[c]) /\ history'[c][i] = history[c][i]
<1> DEFINE n == Len(history[c])
<1>1. /\ n \in Nat /\ Len(history'[c]) = n + times
      /\ \A i \in 1..n : history'[c][i] = history[c][i]
      /\ \A i \in (n + 1)..(n + times) : history'[c][i] = change
  BY RecordedHistory
<1>2. n + 1 \in 1..(n + times) /\ n + 1 \in (n + 1)..(n + times)
  BY <1>1
<1>3. IsOnRecord(<<c, type>>, history')
  <2>1. n + 1 \in 1..Len(history'[c]) /\ history'[c][n + 1].to = Told(type)
    BY <1>1, <1>2
  <2> HIDE DEF n
  <2>2. \E i \in 1..Len(history'[c]) : history'[c][i].to = Told(type)
    BY <2>1
  <2> QED BY <2>2 DEF IsOnRecord
<1>4. \A i \in 1..n : i \in 1..(n + times)
  BY <1>1
<1> QED BY <1>1, <1>3, <1>4

LEMMA RoutesRecord ==
  ASSUME RecordInv, TypeOK', NEW q \in Requests, Routes(q) PROVE RecordInv'
<1>0. TypeOK
  BY DEF RecordInv
<1>1. ASSUME NEW job \in Job, Reads(q, job) PROVE RecordInv'
  BY <1>1, RecordKept DEF Reads
<1>2. CASE Abandon(q)
  BY <1>2, RecordKept DEF Abandon
<1>3. CASE InitiateWrite(q)
  <2>1. PICK c \in CallIds :
          /\ req[q].op = "INITIATE" /\ ~Exists(c)
          /\ call' = [call EXCEPT ![c] = [NoCall EXCEPT !.status = "RINGING",
                        !.initiator = req[q].user, !.recipient = req[q].target]]
          /\ party' = [party EXCEPT ![c] = NewParties]
          /\ history' = [history EXCEPT ![c] = <<[from |-> "NONE", to |-> "INITIATED"],
                                                [from |-> "INITIATED", to |-> "RINGING"]>>]
          /\ Writes(q, c, "call.ringing")
    BY <1>3 DEF InitiateWrite
  <2>2. /\ call'[c].status = "RINGING"
        /\ history'[c] = <<[from |-> "NONE", to |-> "INITIATED"],
                           [from |-> "INITIATED", to |-> "RINGING"]>>
        /\ \A d \in CallIds \ {c} : call'[d] = call[d] /\ history'[d] = history[d]
    BY <1>0, <2>1, InitiateType
  <2>3. Len(history'[c]) = 2 /\ history'[c][2].to = "RINGING"
    BY <2>2
  <2>4. IsOnRecord(<<c, "call.ringing">>, history')
    BY <2>3 DEF IsOnRecord, Told
  <2>5. Exists(c)' /\ Len(history[c]) = 0
    BY <2>1, <2>2 DEF Exists, RecordInv
  <2>6. \A i \in 1..Len(history[c]) :
          i \in 1..Len(history'[c]) /\ history'[c][i] = history[c][i]
    BY <2>5
  <2> QED BY <2>1, <2>2, <2>4, <2>5, <2>6, RecordWritten
<1>4. CASE AcceptWrite(q)
  <2>1. PICK c : c = req[q].call
    OBVIOUS
  <2>2. /\ c \in CallIds /\ call'[c] = AcceptedRow(q)
        /\ \A d \in CallIds \ {c} : call'[d] = call[d] /\ history'[d] = history[d]
        /\ Writes(q, c, "call.connected")
    BY <1>0, <1>4, <2>1, AcceptType
  <2>3. PICK change \in Change : change = [from |-> req[q].from, to |-> "CONNECTED"]
    BY <1>0, <1>4, <2>1, AcceptType
  <2>4. Recorded(c, change, 2) /\ 2 \in Nat \ {0} /\ change.to = Told("call.connected")
    BY <1>0, <1>4, <2>1, <2>3, AcceptType DEF Told
  <2>5. Exists(c)'
    <3>1. call[c] \in CallRow
      BY <1>0, <2>2 DEF TypeOK
    <3>2. call'[c] = [call[c] EXCEPT !.status = "CONNECTED", !.connected = TRUE]
      BY <2>1, <2>2 DEF AcceptedRow
    <3> QED BY <3>1, <3>2 DEF CallRow, Exists
  <2>6. /\ IsOnRecord(<<c, "call.connected">>, history')
        /\ \A i \in 1..Len(history[c]) :
             i \in 1..Len(history'[c]) /\ history'[c][i] = history[c][i]
    BY <1>0, <2>2, <2>4, Appended
  <2> QED BY <2>2, <2>5, <2>6, RecordWritten
<1>5. CASE RejectWrite(q)
  <2>1. PICK c : c = req[q].call
    OBVIOUS
  <2>2. /\ c \in CallIds /\ call'[c] = RejectedRow(q)
        /\ \A d \in CallIds \ {c} : call'[d] = call[d] /\ history'[d] = history[d]
        /\ Writes(q, c, "call.rejected")
    BY <1>0, <1>5, <2>1, RejectType
  <2>3. PICK change \in Change : change = [from |-> req[q].from, to |-> "ENDED"]
    BY <1>0, <1>5, <2>1, RejectType
  <2>4. Recorded(c, change, 1) /\ 1 \in Nat \ {0} /\ change.to = Told("call.rejected")
    BY <1>0, <1>5, <2>1, <2>3, RejectType DEF Told
  <2>5. Exists(c)'
    <3>1. call[c] \in CallRow
      BY <1>0, <2>2 DEF TypeOK
    <3>2. call'[c] = [call[c] EXCEPT !.status = "ENDED", !.reason = "REJECTED"]
      BY <2>1, <2>2 DEF RejectedRow
    <3> QED BY <3>1, <3>2 DEF CallRow, Exists
  <2>6. /\ IsOnRecord(<<c, "call.rejected">>, history')
        /\ \A i \in 1..Len(history[c]) :
             i \in 1..Len(history'[c]) /\ history'[c][i] = history[c][i]
    BY <1>0, <2>2, <2>4, Appended
  <2> QED BY <2>2, <2>5, <2>6, RecordWritten
<1>6. CASE EndWrite(q)
  <2>1. PICK c : c = req[q].call
    OBVIOUS
  <2>2. /\ c \in CallIds /\ call'[c] = EndedRow(q)
        /\ \A d \in CallIds \ {c} : call'[d] = call[d] /\ history'[d] = history[d]
    BY <1>0, <1>6, <2>1, EndType
  <2>3. PICK type \in {"call.ended", "call.missed"} : type = EndedEvent(q)
    BY <1>0, <1>6, <2>1, EndType
  <2>4. PICK change \in Change : change = [from |-> req[q].from, to |-> "ENDED"]
    BY <1>0, <1>6, <2>1, EndType
  <2>5. /\ Recorded(c, change, 1) /\ 1 \in Nat \ {0} /\ change.to = Told(type)
        /\ Writes(q, c, type)
    BY <1>0, <1>6, <2>1, <2>3, <2>4, EndType DEF Told
  <2>6. Exists(c)'
    <3>1. call[c] \in CallRow
      BY <1>0, <2>2 DEF TypeOK
    <3>2. call'[c] = [call[c] EXCEPT !.status = "ENDED", !.reason = req[q].reason]
      BY <2>1, <2>2 DEF EndedRow
    <3> QED BY <3>1, <3>2 DEF CallRow, Exists
  <2>7. /\ IsOnRecord(<<c, type>>, history')
        /\ \A i \in 1..Len(history[c]) :
             i \in 1..Len(history'[c]) /\ history'[c][i] = history[c][i]
    BY <1>0, <2>2, <2>5, Appended
  <2> QED BY <2>2, <2>3, <2>5, <2>6, <2>7, RecordWritten
<1> QED BY <1>0, <1>1, <1>2, <1>3, <1>4, <1>5, <1>6, RoutesCases

\* However requests overlap, every event on its way, through its handler, its row or a
\* replay, tells of a change that the call's history records.
THEOREM RecordInvariance == Spec => []RecordInv
<1>1. Init => RecordInv
  BY InitTypeOK, InitWithin DEF Init, RecordInv
<1>2. RecordInv /\ [Next]_vars => RecordInv'
  <2> SUFFICES ASSUME RecordInv, [Next]_vars PROVE RecordInv'
    OBVIOUS
  <2>0. TypeOK'
    BY NextTypeOK DEF RecordInv
  <2>1. CASE Outbox!OutboxNext /\ UNCHANGED callVars
    BY <2>0, <2>1, RecordKept DEF callVars
  <2>2. CASE UNCHANGED vars
    BY <2>0, <2>2, RecordKept DEF vars, callVars
  <2> QED BY <2>0, <2>1, <2>2, RoutesRecord DEF Next
<1> QED BY <1>1, <1>2, PTL DEF Spec

-------------------------------------------------------------------------------
(* A call whose history retraces it, however requests overlap *)

\* The change a handler is to record is one the transition table allows, and the reason
\* of an end fits the status it ends.
Judged(job) ==
  /\ job.op \in {"ACCEPT", "REJECT"} => job.from = "RINGING"
  /\ job.op \in {"ACCEPT", "REJECT", "END"} => Exists(job.call)
  /\ job.op = "END" => job.reason \in
       IF job.from = "CONNECTED" THEN EndReasons ELSE {"MISSED", "CANCELLED"}

Last(c) == history[c][Len(history[c])]

\* A call is connected from its answer on.
Shape(c) ==
  /\ call[c].status \in {"NONE", "RINGING"} => ~call[c].connected
  /\ call[c].status = "CONNECTED" => call[c].connected
  /\ \A i \in 1..Len(history[c]) : history[c][i].to = "CONNECTED" => call[c].connected

\* What the tables say of a call besides its status; an end, once on record, is the last
\* change there is, and says whether the call was answered.
Agrees(c) ==
  /\ \A s \in Sides : /\ party[c][s].left <=> call[c].status = "ENDED"
                      /\ call[c].status = "CONNECTED" => party[c][s].status = "ACCEPTED"
  /\ call[c].status = "ENDED" =>
       /\ call[c].reason \in
            IF call[c].connected THEN EndReasons ELSE {"REJECTED", "MISSED", "CANCELLED"}
       /\ call[c].connected <=> Last(c).from = "CONNECTED"
  /\ \A i \in 1..Len(history[c]) : history[c][i].to = "ENDED" => call[c].status = "ENDED"

Documented(c) ==
  /\ Len(history[c]) >= 1 /\ Last(c).to = call[c].status
  /\ Retraces(c) => Agrees(c)

CallInv(c) == Shape(c) /\ (Exists(c) => Documented(c))

CallsInv ==
  /\ TypeOK
  /\ \A q \in Requests : Judged(req[q])
  /\ \A c \in CallIds : CallInv(c)

LEMMA CallsAgree == (\A c \in CallIds : CallInv(c)) => TablesAgree
BY DEF CallInv, TablesAgree, Documented, Agrees, Last

\* What a change adds to a history, and what a history that retraces with it was before.
LEMMA Extended ==
  ASSUME TypeOK, NEW c \in CallIds, NEW change \in Change, NEW times \in Nat \ {0},
         Recorded(c, change, times), Len(history[c]) >= 1
  PROVE  /\ Len(history'[c]) >= 1 /\ Last(c)' = change
         /\ \A i \in 1..Len(history'[c]) :
              \/ history'[c][i] = change
              \/ i \in 1..Len(history[c]) /\ history'[c][i] = history[c][i]
         /\ Retraces(c)' => /\ Retraces(c)
                            /\ change = Last(c) \/ change.from = Last(c).to
<1> DEFINE n == Len(history[c])
<1>1. /\ n \in Nat /\ Len(history'[c]) = n + times
      /\ \A i \in 1..n : history'[c][i] = history[c][i]
      /\ \A i \in (n + 1)..(n + times) : history'[c][i] = change
  BY RecordedHistory
<1>2. Last(c)' = change
  <2>1. n + times \in (n + 1)..(n + times)
    BY <1>1
  <2> QED BY <1>1, <2>1 DEF Last
<1>3. \A i \in 1..(n + times) : i \in 1..n \/ i \in (n + 1)..(n + times)
  BY <1>1
<1>4. ASSUME Retraces(c)' PROVE Retraces(c)
  <2> SUFFICES ASSUME NEW i \in 1..(n - 1), history[c][i + 1] # history[c][i]
               PROVE  history[c][i + 1].from = history[c][i].to
    BY DEF Retraces
  <2>1. i \in 1..(Len(history'[c]) - 1) /\ i \in 1..n /\ i + 1 \in 1..n
    BY <1>1
  <2>2. history'[c][i] = history[c][i] /\ history'[c][i + 1] = history[c][i + 1]
    BY <1>1, <2>1
  <2>3. history'[c][i + 1] # history'[c][i] => history'[c][i + 1].from = history'[c][i].to
    BY <1>4, <2>1 DEF Retraces
  <2> QED BY <2>2, <2>3
<1>5. ASSUME Retraces(c)' PROVE change = Last(c) \/ change.from = Last(c).to
  <2>1. n \in 1..(Len(history'[c]) - 1) /\ n \in 1..n /\ n + 1 \in (n + 1)..(n + times)
    BY <1>1
  <2>2. history'[c][n + 1] = change /\ history'[c][n] = Last(c)
    BY <1>1, <2>1 DEF Last
  <2>3. history'[c][n + 1] # history'[c][n] => history'[c][n + 1].from = history'[c][n].to
    BY <1>5, <2>1 DEF Retraces
  <2> QED BY <2>2, <2>3
<1> QED BY <1>1, <1>2, <1>3, <1>4, <1>5

\* An answer, of a call that may have been answered or ended meanwhile.
LEMMA Answered ==
  ASSUME TypeOK, NEW c \in CallIds, CallInv(c), Exists(c),
         NEW change \in Change, NEW times \in Nat \ {0}, Recorded(c, change, times),
         change.from = "RINGING", change.to = "CONNECTED",
         call'[c].status = "CONNECTED", call'[c].connected,
         \A s \in Sides : /\ party'[c][s].status = "ACCEPTED"
                          /\ party'[c][s].left = party[c][s].left
  PROVE  /\ CallInv(c)'
         /\ Retraces(c)' => call[c].status \in {"RINGING", "CONNECTED"}
<1>1. Documented(c)
  BY DEF CallInv
<1>2. /\ Len(history'[c]) >= 1 /\ Last(c)' = change
      /\ \A i \in 1..Len(history'[c]) :
           \/ history'[c][i] = change
           \/ i \in 1..Len(history[c]) /\ history'[c][i] = history[c][i]
      /\ Retraces(c)' => /\ Retraces(c)
                         /\ change = Last(c) \/ change.from = Last(c).to
  BY <1>1, Extended DEF Documented
<1>3. ASSUME Retraces(c)'
      PROVE  Agrees(c)' /\ call[c].status \in {"RINGING", "CONNECTED"}
  <2>1. call[c].status \in {"RINGING", "CONNECTED"} /\ Agrees(c)
    BY <1>1, <1>2, <1>3 DEF Documented
  <2>2. \A s \in Sides : ~party[c][s].left
    BY <2>1 DEF Agrees
  <2>3. \A i \in 1..Len(history'[c]) : history'[c][i].to # "ENDED"
    BY <1>2, <2>1 DEF Agrees
  <2> QED BY <2>1, <2>2, <2>3 DEF Agrees
<1> QED BY <1>2, <1>3 DEF CallInv, Documented, Shape

\* An end, of a call that may have been answered or ended meanwhile.
LEMMA Ended ==
  ASSUME TypeOK, NEW c \in CallIds, CallInv(c), Exists(c),
         NEW change \in Change, NEW times \in Nat \ {0}, Recorded(c, change, times),
         change.from \in {"RINGING", "CONNECTED"}, change.to = "ENDED",
         call'[c].status = "ENDED", call'[c].connected = call[c].connected,
         call'[c].reason \in IF change.from = "CONNECTED" THEN EndReasons
                             ELSE {"REJECTED", "MISSED", "CANCELLED"},
         \A s \in Sides : party'[c][s].left
  PROVE  /\ CallInv(c)'
         /\ Retraces(c)' => call[c].status \in {"RINGING", "CONNECTED", "ENDED"}
<1>1. Documented(c) /\ Shape(c)
  BY DEF CallInv
<1>2. /\ Len(history'[c]) >= 1 /\ Last(c)' = change
      /\ \A i \in 1..Len(history'[c]) :
           \/ history'[c][i] = change
           \/ i \in 1..Len(history[c]) /\ history'[c][i] = history[c][i]
      /\ Retraces(c)' => /\ Retraces(c)
                         /\ change = Last(c) \/ change.from = Last(c).to
  BY <1>1, Extended DEF Documented
<1>3. Shape(c)'
  <2>1. \A i \in 1..Len(history'[c]) : history'[c][i].to = "CONNECTED" => call[c].connected
    BY <1>1, <1>2 DEF Shape
  <2> QED BY <2>1 DEF Shape
<1>4. ASSUME Retraces(c)'
      PROVE  Agrees(c)' /\ call[c].status \in {"RINGING", "CONNECTED", "ENDED"}
  <2>1. \/ call[c].status = "ENDED" /\ change = Last(c)
        \/ call[c].status = change.from
    BY <1>1, <1>2, <1>4 DEF Documented
  <2>2. call[c].connected <=> change.from = "CONNECTED"
    BY <1>1, <1>2, <1>4, <2>1 DEF Documented, Agrees, Shape
  <2> QED BY <1>2, <2>1, <2>2 DEF Agrees
<1> QED BY <1>2, <1>3, <1>4 DEF CallInv, Documented

-------------------------------------------------------------------------------
(* The routes *)

LEMMA InitiateCalls ==
  ASSUME CallsInv, NEW q \in Requests, InitiateWrite(q)
  PROVE  \E c \in CallIds :
           /\ ~Exists(c) /\ CallInv(c)' /\ Exists(c)' /\ Retraces(c)'
           /\ \A d \in CallIds \ {c} :
                call'[d] = call[d] /\ party'[d] = party[d] /\ history'[d] = history[d]
<1>1. PICK c \in CallIds :
        /\ req[q].op = "INITIATE" /\ ~Exists(c)
        /\ call' = [call EXCEPT ![c] = [NoCall EXCEPT !.status = "RINGING",
                      !.initiator = req[q].user, !.recipient = req[q].target]]
        /\ party' = [party EXCEPT ![c] = NewParties]
        /\ history' = [history EXCEPT ![c] = <<[from |-> "NONE", to |-> "INITIATED"],
                                              [from |-> "INITIATED", to |-> "RINGING"]>>]
        /\ Writes(q, c, "call.ringing")
  BY DEF InitiateWrite
<1>2. /\ call'[c].status = "RINGING" /\ call'[c].connected = FALSE
      /\ party'[c] = NewParties
      /\ history'[c] = <<[from |-> "NONE", to |-> "INITIATED"],
                         [from |-> "INITIATED", to |-> "RINGING"]>>
      /\ \A d \in CallIds \ {c} :
           call'[d] = call[d] /\ party'[d] = party[d] /\ history'[d] = history[d]
  BY <1>1, InitiateType DEF CallsInv
<1>3. /\ Len(history'[c]) = 2
      /\ history'[c][1] = [from |-> "NONE", to |-> "INITIATED"]
      /\ history'[c][2] = [from |-> "INITIATED", to |-> "RINGING"]
  BY <1>2
<1>4. \A i \in 1..Len(history'[c]) : i = 1 \/ i = 2
  BY <1>3
<1>5. Shape(c)'
  BY <1>2, <1>3, <1>4 DEF Shape
<1>6. Agrees(c)'
  BY <1>2, <1>3, <1>4 DEF Agrees, NewParties, Waiting
<1>7. Retraces(c)'
  <2>1. 1..(Len(history'[c]) - 1) = {1}
    BY <1>3
  <2> QED BY <1>3, <2>1 DEF Retraces
<1>8. CallInv(c)' /\ Exists(c)'
  BY <1>2, <1>3, <1>5, <1>6 DEF CallInv, Documented, Last, Exists
<1> QED BY <1>1, <1>2, <1>7, <1>8

\* A write of an existing call keeps what its tables agree on, and keeps to the table of
\* transitions unless the history shows that another request came between.
LEMMA WriteCalls ==
  ASSUME CallsInv, NEW q \in Requests, NEW c, c = req[q].call,
         AcceptWrite(q) \/ RejectWrite(q) \/ EndWrite(q)
  PROVE  /\ c \in CallIds /\ Exists(c) /\ Exists(c)' /\ CallInv(c)'
         /\ call'[c].status # call[c].status /\ Retraces(c)'
              => call'[c].status \in VOICE_CALL_STATUS_TRANSITIONS[call[c].status]
         /\ \A d \in CallIds \ {c} :
              call'[d] = call[d] /\ party'[d] = party[d] /\ history'[d] = history[d]
         /\ \E change \in Change, times \in Nat \ {0} :
              Recorded(c, change, times) /\ change.from = req[q].from
<1>0. TypeOK /\ Judged(req[q])
  BY DEF CallsInv
<1>1. CASE AcceptWrite(q)
  <2>1. /\ c \in CallIds /\ call'[c] = AcceptedRow(q) /\ party'[c] = AcceptedSides(q)
        /\ \A d \in CallIds \ {c} :
             call'[d] = call[d] /\ party'[d] = party[d] /\ history'[d] = history[d]
    BY <1>0, <1>1, AcceptType
  <2>2. req[q].from = "RINGING" /\ Exists(c) /\ CallInv(c)
    BY <1>0, <1>1, <2>1 DEF CallsInv, Judged, AcceptWrite
  <2>3. PICK change \in Change : change = [from |-> req[q].from, to |-> "CONNECTED"]
    BY <1>0, <1>1, AcceptType
  <2>4. Recorded(c, change, 2) /\ 2 \in Nat \ {0} /\ change.from = req[q].from
    BY <1>0, <1>1, <2>3, AcceptType
  <2>5. call'[c].status = "CONNECTED" /\ call'[c].connected
    <3>1. call[c] \in CallRow
      BY <1>0, <2>1 DEF TypeOK
    <3>2. call'[c] = [call[c] EXCEPT !.status = "CONNECTED", !.connected = TRUE]
      BY <2>1 DEF AcceptedRow
    <3> QED BY <3>1, <3>2 DEF CallRow
  <2>6. ASSUME NEW s \in Sides
        PROVE  party'[c][s].status = "ACCEPTED" /\ party'[c][s].left = party[c][s].left
    <3>1. party[c][s] \in PartyRow
      BY <1>0, <2>1 DEF TypeOK
    <3>2. party'[c][s] = [party[c][s] EXCEPT !.status = "ACCEPTED"]
      BY <2>1 DEF AcceptedSides
    <3> QED BY <3>1, <3>2 DEF PartyRow
  <2>7. change.from = "RINGING" /\ change.to = "CONNECTED"
    BY <2>2, <2>3
  <2>8. /\ CallInv(c)'
        /\ Retraces(c)' => call[c].status \in {"RINGING", "CONNECTED"}
    BY <1>0, <2>1, <2>2, <2>4, <2>5, <2>6, <2>7, Answered
  <2>9. Exists(c)'
    BY <2>5 DEF Exists
  <2> QED BY <2>1, <2>2, <2>4, <2>5, <2>8, <2>9, Transitions
<1>2. ASSUME NEW change \in Change, NEW reason,
             c \in CallIds, Exists(c), Recorded(c, change, 1),
             change.from = req[q].from, change.to = "ENDED",
             change.from \in {"RINGING", "CONNECTED"},
             call'[c] = [call[c] EXCEPT !.status = "ENDED", !.reason = reason],
             reason \in IF change.from = "CONNECTED" THEN EndReasons
                        ELSE {"REJECTED", "MISSED", "CANCELLED"},
             \A s \in Sides : party'[c][s].left
      PROVE  /\ CallInv(c)' /\ Exists(c)'
             /\ call'[c].status # call[c].status /\ Retraces(c)'
                  => call'[c].status \in VOICE_CALL_STATUS_TRANSITIONS[call[c].status]
             /\ \E times \in Nat \ {0} : Recorded(c, change, times)
  <2>1. /\ call'[c].status = "ENDED" /\ call'[c].connected = call[c].connected
        /\ call'[c].reason = reason
    <3>1. call[c] \in CallRow
      BY <1>0, <1>2 DEF TypeOK
    <3> QED BY <1>2, <3>1 DEF CallRow
  <2>2. CallInv(c) /\ 1 \in Nat \ {0}
    BY <1>2 DEF CallsInv
  <2>3. /\ CallInv(c)'
        /\ Retraces(c)' => call[c].status \in {"RINGING", "CONNECTED", "ENDED"}
    BY <1>0, <1>2, <2>1, <2>2, Ended
  <2>4. Exists(c)'
    BY <2>1 DEF Exists
  <2> QED BY <1>2, <2>1, <2>2, <2>3, <2>4, Transitions
<1>3. CASE RejectWrite(q)
  <2>1. /\ c \in CallIds /\ call'[c] = RejectedRow(q) /\ party'[c] = RejectedSides
        /\ \A d \in CallIds \ {c} :
             call'[d] = call[d] /\ party'[d] = party[d] /\ history'[d] = history[d]
    BY <1>0, <1>3, RejectType
  <2>2. req[q].from = "RINGING" /\ Exists(c)
    BY <1>0, <1>3 DEF Judged, RejectWrite
  <2>3. PICK change \in Change : change = [from |-> req[q].from, to |-> "ENDED"]
    BY <1>0, <1>3, RejectType
  <2>4. Recorded(c, change, 1)
    BY <1>0, <1>3, <2>3, RejectType
  <2>5. \A s \in Sides : party'[c][s].left
    BY <2>1 DEF RejectedSides
  <2>6. call'[c] = [call[c] EXCEPT !.status = "ENDED", !.reason = "REJECTED"]
    BY <2>1 DEF RejectedRow
  <2> QED BY <1>2, <2>1, <2>2, <2>3, <2>4, <2>5, <2>6
<1>4. CASE EndWrite(q)
  <2>1. /\ c \in CallIds /\ call'[c] = EndedRow(q) /\ party'[c] = EndedSides(q)
        /\ \A d \in CallIds \ {c} :
             call'[d] = call[d] /\ party'[d] = party[d] /\ history'[d] = history[d]
    BY <1>0, <1>4, EndType
  <2>2. /\ Exists(c) /\ req[q].from \in {"RINGING", "CONNECTED"}
        /\ req[q].reason \in
             IF req[q].from = "CONNECTED" THEN EndReasons ELSE {"MISSED", "CANCELLED"}
    BY <1>0, <1>4, JobTypes DEF Judged, EndWrite, TypeOK
  <2>3. PICK change \in Change : change = [from |-> req[q].from, to |-> "ENDED"]
    BY <1>0, <1>4, EndType
  <2>4. Recorded(c, change, 1)
    BY <1>0, <1>4, <2>3, EndType
  <2>5. \A s \in Sides : party'[c][s].left
    BY <2>1 DEF EndedSides, Leave
  <2>6. call'[c] = [call[c] EXCEPT !.status = "ENDED", !.reason = req[q].reason]
    BY <2>1 DEF EndedRow
  <2>7. PICK reason : reason = req[q].reason
    OBVIOUS
  <2>8. /\ change.from = req[q].from /\ change.to = "ENDED"
        /\ change.from \in {"RINGING", "CONNECTED"}
        /\ call'[c] = [call[c] EXCEPT !.status = "ENDED", !.reason = reason]
        /\ reason \in IF change.from = "CONNECTED" THEN EndReasons
                      ELSE {"REJECTED", "MISSED", "CANCELLED"}
    BY <2>2, <2>3, <2>6, <2>7
  <2>9. /\ CallInv(c)' /\ Exists(c)'
        /\ call'[c].status # call[c].status /\ Retraces(c)'
             => call'[c].status \in VOICE_CALL_STATUS_TRANSITIONS[call[c].status]
        /\ \E times \in Nat \ {0} : Recorded(c, change, times)
    BY <1>2, <2>1, <2>2, <2>4, <2>5, <2>8
  <2> QED BY <2>1, <2>2, <2>8, <2>9
<1> QED BY <1>1, <1>3, <1>4

\* What a request judged as it read.
LEMMA ReadsJudged ==
  ASSUME TypeOK, \A c \in CallIds : CallInv(c),
         NEW q \in Requests, NEW job \in Job, ReadsOf(q, job)
  PROVE  Judged(job) /\ (job.op \in {"ACCEPT", "REJECT", "END"} =>
                           job.from = call[job.call].status)
<1>1. CASE job.op = "INITIATE"
  BY <1>1 DEF Judged
<1>2. CASE job.op \in {"ACCEPT", "REJECT"}
  BY <1>2 DEF ReadsOf, Judged, Exists
<1>3. CASE job.op = "END"
  <2>1. PICK c \in CallIds, u \in Users, given \in EndReasons :
          /\ call[c].status \in {"RINGING", "CONNECTED"}
          /\ job = [op |-> "END", call |-> c, from |-> call[c].status,
                    reason |-> EndReason(c, u, given)]
    BY <1>3 DEF ReadsOf
  <2>2. call[c].connected <=> call[c].status = "CONNECTED"
    BY <2>1 DEF CallInv, Shape
  <2> QED BY <2>1, <2>2 DEF Judged, Exists, EndReason
<1>4. CASE job.op = "IDLE"
  BY <1>4 DEF Judged
<1> QED BY <1>1, <1>2, <1>3, <1>4 DEF Job

\* A handler's judgement does not depend on what comes after it.
LEMMA JudgedKept ==
  ASSUME TypeOK, NEW q \in Requests, Judged(req[q]), req'[q] = req[q],
         \A c \in CallIds : Exists(c) => Exists(c)'
  PROVE  Judged(req[q])'
<1>1. PICK job \in Job : job = req[q] /\ job = req'[q]
  BY DEF TypeOK
<1>2. Judged(job)'
  BY <1>1, JobTypes DEF Judged, Exists
<1> QED BY <1>1, <1>2 DEF Judged, Exists

LEMMA CallKept ==
  ASSUME NEW c, CallInv(c),
         call'[c] = call[c], party'[c] = party[c], history'[c] = history[c]
  PROVE  CallInv(c)' /\ (Exists(c) <=> Exists(c)') /\ (Retraces(c) <=> Retraces(c)')
BY DEF CallInv, Shape, Documented, Agrees, Last, Retraces, Exists

LEMMA NextCalls == CallsInv /\ [Next]_vars => CallsInv'
<1> SUFFICES ASSUME CallsInv, [Next]_vars PROVE CallsInv'
  OBVIOUS
<1>0. TypeOK /\ TypeOK' /\ Judged(Idle)'
  BY NextTypeOK DEF CallsInv, Judged, Idle
<1>1. ASSUME UNCHANGED <<call, party, history>>,
             \A p \in Requests : \/ req'[p] = req[p] \/ req'[p] = Idle
                                 \/ \E job \in Job : Judged(job) /\ req'[p] = job
      PROVE  CallsInv'
  <2>1. \A c \in CallIds : CallInv(c)' /\ (Exists(c) <=> Exists(c)')
    BY <1>1, CallKept DEF CallsInv
  <2>2. ASSUME NEW p \in Requests PROVE Judged(req[p])'
    <3>1. CASE req'[p] = Idle
      BY <1>0, <3>1 DEF Judged, Idle
    <3>2. CASE req'[p] = req[p]
      BY <1>0, <2>1, <3>2, JudgedKept DEF CallsInv
    <3>3. ASSUME NEW job \in Job, Judged(job), req'[p] = job PROVE Judged(req[p])'
      BY <1>1, <3>3 DEF Judged, Exists
    <3> QED BY <1>1, <3>1, <3>2, <3>3
  <2> QED BY <1>0, <2>1, <2>2 DEF CallsInv
<1>2. ASSUME NEW q \in Requests, NEW c \in CallIds, CallInv(c)', Exists(c)',
             req' = [req EXCEPT ![q] = Idle],
             \A d \in CallIds \ {c} :
               call'[d] = call[d] /\ party'[d] = party[d] /\ history'[d] = history[d]
      PROVE  CallsInv'
  <2>1. \A d \in CallIds : CallInv(d)' /\ (Exists(d) => Exists(d)')
    BY <1>2, CallKept DEF CallsInv
  <2>2. ASSUME NEW p \in Requests PROVE Judged(req[p])'
    <3>1. CASE p = q
      BY <1>0, <1>2, <3>1 DEF Judged, Idle, TypeOK
    <3>2. CASE p # q
      BY <1>0, <1>2, <2>1, <3>2, JudgedKept DEF CallsInv, TypeOK
    <3> QED BY <3>1, <3>2
  <2> QED BY <1>0, <2>1, <2>2 DEF CallsInv
<1>3. ASSUME NEW q \in Requests, NEW job \in Job, ReadsOf(q, job), Reads(q, job)
      PROVE  CallsInv'
  <2>1. Judged(job)
    BY <1>0, <1>3, ReadsJudged DEF CallsInv
  <2> QED BY <1>0, <1>1, <1>3, <2>1 DEF Reads, TypeOK
<1>4. ASSUME NEW q \in Requests, Abandon(q) PROVE CallsInv'
  BY <1>0, <1>1, <1>4 DEF Abandon, TypeOK
<1>5. ASSUME NEW q \in Requests, InitiateWrite(q) PROVE CallsInv'
  <2>1. req' = [req EXCEPT ![q] = Idle]
    BY <1>5 DEF InitiateWrite, Writes
  <2> QED BY <1>2, <1>5, <2>1, InitiateCalls
<1>6. ASSUME NEW q \in Requests, AcceptWrite(q) \/ RejectWrite(q) \/ EndWrite(q)
      PROVE  CallsInv'
  <2>1. req' = [req EXCEPT ![q] = Idle]
    BY <1>6 DEF AcceptWrite, RejectWrite, EndWrite, Writes
  <2> QED BY <1>2, <1>6, <2>1, WriteCalls
<1>7. ASSUME NEW q \in Requests, Routes(q) PROVE CallsInv'
  BY <1>0, <1>3, <1>4, <1>5, <1>6, <1>7, RoutesCases
<1>8. CASE UNCHANGED callVars
  BY <1>1, <1>8 DEF callVars
<1> QED BY <1>7, <1>8 DEF Next, vars

LEMMA InitCalls == Init => CallsInv
<1> SUFFICES ASSUME Init PROVE CallsInv
  OBVIOUS
<1>1. \A q \in Requests : Judged(req[q])
  BY DEF Init, Judged, Idle
<1>2. \A c \in CallIds : CallInv(c)
  BY DEF Init, NoCall, CallInv, Shape, Exists
<1> QED BY <1>1, <1>2, InitTypeOK DEF CallsInv

\* However requests overlap, a handler records a change the table of transitions allows,
\* and the tables agree about every call that its history retraces.
THEOREM CallsInvariance == Spec => []CallsInv
BY InitCalls, NextCalls, PTL DEF Spec

\* However many requests overlap, the last change on record leads to a call's status, and
\* while its history retraces it, its row, its participants and its history tell one story.
THEOREM CallsTellOneStory == Spec => []TablesAgree
<1>1. CallsInv => TablesAgree
  BY CallsAgree DEF CallsInv
<1> QED BY <1>1, CallsInvariance, PTL

\* However many requests overlap, nobody hears of a change that is not on record, of an
\* answer that was not given, or, while the history retraces the call, of an end that is
\* not so, however long delivery takes and however often a replay repeats it.
THEOREM EventsAreTrue == Spec => []HeardIsTrue
<1>1. RecordInv /\ CallsInv => HeardIsTrue
  <2> SUFFICES ASSUME RecordInv, CallsInv, NEW m \in emitted
               PROVE  /\ IsOnRecord(m.event, history)
                      /\ Told(m.event[2]) = "CONNECTED" => call[m.event[1]].connected
                      /\ Told(m.event[2]) = "ENDED" /\ Retraces(m.event[1])
                           => call[m.event[1]].status = "ENDED"
    BY DEF HeardIsTrue
  <2>1. m.event \in LifecycleEvents /\ IsOnRecord(m.event, history)
    BY DEF RecordInv, Within, OnRecord
  <2>2. PICK c \in CallIds : c = m.event[1]
    BY <2>1 DEF LifecycleEvents
  <2>3. PICK i \in 1..Len(history[c]) : history[c][i].to = Told(m.event[2])
    BY <2>1, <2>2 DEF IsOnRecord
  <2>4. Exists(c)
    <3>1. history[c] # <<>>
      BY <2>3
    <3> QED BY <3>1 DEF RecordInv
  <2>5. Shape(c) /\ (Retraces(c) => Agrees(c))
    BY <2>4 DEF CallsInv, CallInv, Documented
  <2> QED BY <2>1, <2>2, <2>3, <2>5 DEF Shape, Agrees
<1> QED BY <1>1, RecordInvariance, CallsInvariance, PTL

\* However many requests overlap, a call moves only as VOICE_CALL_STATUS_TRANSITIONS
\* allows, or its history does not retrace it from then on.
THEOREM TransitionsShow == Spec => LegalTransitions
<1>1. CallsInv /\ [Next]_vars =>
        [\A c \in CallIds : Exists(c) /\ call'[c].status # call[c].status /\ Retraces(c)'
           => call'[c].status \in VOICE_CALL_STATUS_TRANSITIONS[call[c].status]]_vars
  <2> SUFFICES ASSUME CallsInv, [Next]_vars, NEW c \in CallIds, Exists(c),
                      call'[c].status # call[c].status, Retraces(c)'
               PROVE  call'[c].status \in VOICE_CALL_STATUS_TRANSITIONS[call[c].status]
    OBVIOUS
  <2>1. PICK q \in Requests : Routes(q)
    BY DEF Next, vars, callVars
  <2>2. CASE InitiateWrite(q)
    BY <2>2, InitiateCalls
  <2>3. CASE AcceptWrite(q) \/ RejectWrite(q) \/ EndWrite(q)
    BY <2>3, WriteCalls
  <2>4. CASE UNCHANGED call
    BY <2>4
  <2> QED
    BY <2>1, <2>2, <2>3, <2>4, RoutesCases DEF CallsInv, Reads, Abandon
<1> QED BY <1>1, CallsInvariance, PTL DEF Spec, LegalTransitions

-------------------------------------------------------------------------------
(* Requests that do not overlap *)

OneRequest == \A p, q \in Requests : p = q

Fresh(job) ==
  job.op \in {"ACCEPT", "REJECT", "END"} => job.from = call[job.call].status

SerialInv ==
  /\ CallsInv
  /\ \A q \in Requests : Fresh(req[q])
  /\ \A c \in CallIds : Retraces(c)

\* A change that starts where the history ended continues it.
LEMMA RetracesOn ==
  ASSUME TypeOK, NEW c \in CallIds, NEW change \in Change, NEW times \in Nat \ {0},
         Retraces(c), Len(history[c]) >= 1, Recorded(c, change, times),
         change.from = Last(c).to
  PROVE  Retraces(c)'
<1> DEFINE n == Len(history[c])
<1>1. /\ n \in Nat /\ Len(history'[c]) = n + times
      /\ \A i \in 1..n : history'[c][i] = history[c][i]
      /\ \A i \in (n + 1)..(n + times) : history'[c][i] = change
  BY RecordedHistory
<1>2. ASSUME NEW i \in 1..(n + times - 1), history'[c][i + 1] # history'[c][i]
      PROVE  history'[c][i + 1].from = history'[c][i].to
  <2>1. CASE i < n
    <3>1. i \in 1..(n - 1) /\ i \in 1..n /\ i + 1 \in 1..n
      BY <1>1, <2>1
    <3> QED BY <1>1, <1>2, <3>1 DEF Retraces
  <2>2. CASE i = n
    <3>1. i \in 1..n /\ i + 1 \in (n + 1)..(n + times)
      BY <1>1, <2>2
    <3> QED BY <1>1, <2>2, <3>1 DEF Last
  <2>3. CASE i > n
    <3>1. i \in (n + 1)..(n + times) /\ i + 1 \in (n + 1)..(n + times)
      BY <1>1, <2>3
    <3> QED BY <1>1, <1>2, <3>1
  <2> QED BY <1>1, <2>1, <2>2, <2>3
<1> QED BY <1>1, <1>2 DEF Retraces

\* With one request at a time every history retraces its call: what a route judged is what
\* its write finds.  A history that does not is therefore evidence of an overlap, and what
\* TablesAgree, HeardIsTrue and LegalTransitions say then holds without exception.
THEOREM SerialRetraces ==
  ASSUME OneRequest PROVE Spec => [](\A c \in CallIds : Retraces(c))
<1>1. Init => SerialInv
  <2> SUFFICES ASSUME Init PROVE SerialInv
    OBVIOUS
  <2>1. \A q \in Requests : Fresh(req[q])
    BY DEF Init, Fresh, Idle
  <2>2. \A c \in CallIds : Len(history[c]) = 0
    BY DEF Init
  <2>3. 1..(0 - 1) = {}
    OBVIOUS
  <2>4. \A c \in CallIds : Retraces(c)
    BY <2>2, <2>3 DEF Retraces
  <2> QED BY <2>1, <2>4, InitCalls DEF SerialInv
<1>2. SerialInv /\ [Next]_vars => SerialInv'
  <2> SUFFICES ASSUME SerialInv, [Next]_vars PROVE SerialInv'
    OBVIOUS
  <2>0. TypeOK /\ CallsInv /\ CallsInv'
    BY NextCalls DEF SerialInv, CallsInv
  <2>1. ASSUME UNCHANGED <<call, party, history>>,
               \A p \in Requests : \/ req'[p] = req[p] \/ req'[p] = Idle
                                   \/ \E job \in Job : Fresh(job) /\ req'[p] = job
        PROVE  SerialInv'
    <3>1. \A c \in CallIds : Retraces(c)'
      BY <2>1 DEF SerialInv, Retraces
    <3>2. \A p \in Requests : Fresh(req[p])'
      BY <2>1 DEF SerialInv, Fresh, Idle
    <3> QED BY <2>0, <3>1, <3>2 DEF SerialInv
  <2>2. ASSUME NEW q \in Requests, NEW c \in CallIds, Retraces(c)',
               req' = [req EXCEPT ![q] = Idle],
               \A d \in CallIds \ {c} :
                 call'[d] = call[d] /\ party'[d] = party[d] /\ history'[d] = history[d]
        PROVE  SerialInv'
    <3>1. \A d \in CallIds : Retraces(d)'
      BY <2>2 DEF SerialInv, Retraces
    <3>2. \A p \in Requests : req'[p] = Idle
      BY <2>0, <2>2 DEF OneRequest, TypeOK
    <3>3. \A p \in Requests : Fresh(req[p])'
      BY <3>2 DEF Fresh, Idle
    <3> QED BY <2>0, <3>1, <3>3 DEF SerialInv
  <2>3. ASSUME NEW q \in Requests, NEW job \in Job, ReadsOf(q, job), Reads(q, job)
        PROVE  SerialInv'
    <3>1. Fresh(job)
      BY <2>0, <2>3, ReadsJudged DEF CallsInv, Fresh
    <3> QED BY <2>0, <2>1, <2>3, <3>1 DEF Reads, TypeOK
  <2>4. ASSUME NEW q \in Requests, Abandon(q) PROVE SerialInv'
    BY <2>0, <2>1, <2>4 DEF Abandon, TypeOK
  <2>5. ASSUME NEW q \in Requests, InitiateWrite(q) PROVE SerialInv'
    <3>1. req' = [req EXCEPT ![q] = Idle]
      BY <2>5 DEF InitiateWrite, Writes
    <3> QED BY <2>0, <2>2, <2>5, <3>1, InitiateCalls
  <2>6. ASSUME NEW q \in Requests, AcceptWrite(q) \/ RejectWrite(q) \/ EndWrite(q)
        PROVE  SerialInv'
    <3>1. req' = [req EXCEPT ![q] = Idle] /\ req[q].op \in {"ACCEPT", "REJECT", "END"}
      BY <2>6 DEF AcceptWrite, RejectWrite, EndWrite, Writes
    <3>2. PICK c : c = req[q].call
      OBVIOUS
    <3>3. /\ c \in CallIds /\ Exists(c)
          /\ \A d \in CallIds \ {c} :
               call'[d] = call[d] /\ party'[d] = party[d] /\ history'[d] = history[d]
          /\ \E change \in Change, times \in Nat \ {0} :
               Recorded(c, change, times) /\ change.from = req[q].from
      BY <2>0, <2>6, <3>2, WriteCalls
    <3>4. /\ Retraces(c) /\ Len(history[c]) >= 1 /\ Last(c).to = call[c].status
          /\ req[q].from = call[c].status
      BY <2>0, <3>1, <3>2, <3>3 DEF SerialInv, Fresh, CallsInv, CallInv, Documented
    <3>5. Retraces(c)'
      BY <2>0, <3>3, <3>4, RetracesOn
    <3> QED BY <2>2, <3>1, <3>3, <3>5
  <2>7. ASSUME NEW q \in Requests, Routes(q) PROVE SerialInv'
    BY <2>0, <2>3, <2>4, <2>5, <2>6, <2>7, RoutesCases
  <2>8. CASE UNCHANGED callVars
    BY <2>1, <2>8 DEF callVars
  <2> QED BY <2>7, <2>8 DEF Next, vars
<1>3. SerialInv => \A c \in CallIds : Retraces(c)
  BY DEF SerialInv
<1> QED BY <1>1, <1>2, <1>3, PTL DEF Spec
===============================================================================
