--------------------------------- MODULE Calls ---------------------------------
(***************************************************************************)
(* Voice calls and the lifecycle events they publish through the realtime  *)
(* outbox.                                                                 *)
(*                                                                         *)
(* Every route reads the call, judges it, and then writes it by id in a    *)
(* transaction that does not look at it again: a read step and a write     *)
(* step.  The write step commits the change and begins the publication of  *)
(* its event, which goes on in the steps of RealtimeOutbox; the request is *)
(* over when its publication is.                                           *)
(***************************************************************************)
EXTENDS Integers, Sequences

CONSTANTS
  Users, NoUser,
  NumCalls,             \* call rows (bound)
  Requests,             \* handlers that may be in flight at once
  Replays, Clients, NoEvent, WORKER_MAX_ATTEMPTS, PageLimit, LastMillisecond,
  MaxPublications, MaxOutages

VARIABLES
  call,     \* VoiceCall rows
  party,    \* VoiceCallParticipant: the status of each side, and whether it left
  history,  \* VoiceCallEvent: the status changes in the order they were recorded
  req,      \* what each handler in flight has read
  outbox, publisher, replay, gateway, emitted, client, now, outages

CallIds == 1..NumCalls
LifecycleEvents == CallIds \X {"call.ringing", "call.connected", "call.rejected",
                               "call.ended", "call.missed"}

Outbox == INSTANCE RealtimeOutbox WITH
  Events <- LifecycleEvents, PointToPoint <- LifecycleEvents, Publishers <- Requests

ASSUME CallsAssumption ==
  NoUser \notin Users /\ NumCalls \in Nat /\ Outbox!OutboxAssumption

callVars == <<call, party, history, req>>
outboxRest == <<outbox, replay, gateway, emitted, client, now, outages>>
vars == <<callVars, publisher, outboxRest>>

Sides == {"INITIATOR", "RECIPIENT"}
EndReasons == {"COMPLETED", "CANCELLED", "FAILED"}  \* what a participant may give

CallRow == [status : {"NONE", "RINGING", "CONNECTED", "ENDED"},
            initiator : Users \cup {NoUser}, recipient : Users \cup {NoUser},
            reason : EndReasons \cup {"NONE", "REJECTED", "MISSED"},
            connected : BOOLEAN]
PartyRow == [status : {"CALLING", "RINGING", "ACCEPTED", "REJECTED", "LEFT", "MISSED"},
             left : BOOLEAN]
Job == [op : {"IDLE"}] \cup [op : {"INITIATE"}, user : Users, target : Users]
         \cup [op : {"ACCEPT", "REJECT"}, call : CallIds, from : {"RINGING", "CONNECTED"}]
         \cup [op : {"END"}, call : CallIds, from : {"RINGING", "CONNECTED"},
               reason : EndReasons \cup {"MISSED"}]

Idle == [op |-> "IDLE"]
NoCall == [status |-> "NONE", initiator |-> NoUser, recipient |-> NoUser,
           reason |-> "NONE", connected |-> FALSE]
\* Mutant: the call's own first status written to its participants.
MutantWaiting == [status |-> "INITIATED", left |-> FALSE]

Waiting == [status |-> "RINGING", left |-> FALSE]
NewParties == [s \in Sides |-> IF s = "INITIATOR" THEN [Waiting EXCEPT !.status = "CALLING"]
                                                  ELSE Waiting]

Init ==
  /\ call = [c \in CallIds |-> NoCall]
  /\ party = [c \in CallIds |-> NewParties]
  /\ history = [c \in CallIds |-> <<>>]
  /\ req = [q \in Requests |-> Idle]
  /\ Outbox!OutboxInit

-------------------------------------------------------------------------------
VOICE_CALL_STATUS_TRANSITIONS ==
  [INITIATED |-> {"RINGING", "CONNECTED", "ENDED"},
   RINGING |-> {"CONNECTED", "ENDED"},
   CONNECTED |-> {"ENDED"},
   ENDED |-> {}]

canTransitionVoiceCall(from, to) == to \in VOICE_CALL_STATUS_TRANSITIONS[from]

Exists(c) == call[c].status # "NONE"
Live(c) == Exists(c) /\ call[c].status # "ENDED"
Pair(c) == {call[c].initiator, call[c].recipient}

Free(q) == req[q] = Idle /\ publisher[q] = Outbox!Quiet

Reads(q, job) ==
  /\ Free(q)
  /\ req' = [req EXCEPT ![q] = job]
  /\ UNCHANGED <<call, party, history, publisher, outboxRest>>

Writes(q, c, eventType) ==
  /\ req' = [req EXCEPT ![q] = Idle]
  /\ Outbox!Publishing(q, <<c, eventType>>)
  /\ UNCHANGED outboxRest

\* Mutant: a change recorded from the status the write finds, not the one it judged.
MutantRecordsCurrent(c, change, times) ==
  history' = [history EXCEPT ![c] = @ \o
                [i \in 1..times |-> [change EXCEPT !.from = call[c].status]]]

\* One change, recorded once or, under two event types, twice.
Recorded(c, change, times) ==
  history' = [history EXCEPT ![c] = @ \o [i \in 1..times |-> change]]

-------------------------------------------------------------------------------
(* POST /calls looks for a live call of the pair ... *)
InitiateRead(q, u, v) ==
  /\ u # v
  /\ ~\E c \in CallIds : Live(c) /\ Pair(c) = {u, v}
  /\ Reads(q, [op |-> "INITIATE", user |-> u, target |-> v])

(* ... and creates one, with the two entries of its history. *)
InitiateWrite(q) ==
  \E c \in CallIds :
    /\ req[q].op = "INITIATE"
    /\ ~Exists(c) /\ \A d \in CallIds : d < c => Exists(d)
    /\ call' = [call EXCEPT ![c] = [NoCall EXCEPT !.status = "RINGING",
                  !.initiator = req[q].user, !.recipient = req[q].target]]
    /\ party' = [party EXCEPT ![c] = NewParties]
    /\ history' = [history EXCEPT ![c] = <<[from |-> "NONE", to |-> "INITIATED"],
                                          [from |-> "INITIATED", to |-> "RINGING"]>>]
    /\ Writes(q, c, "call.ringing")

(* POST /calls/:id/accept, by the recipient. *)
AcceptRead(q, c) ==
  /\ Exists(c)
  /\ canTransitionVoiceCall(call[c].status, "CONNECTED")
  /\ Reads(q, [op |-> "ACCEPT", call |-> c, from |-> call[c].status])

AcceptWrite(q) ==
  /\ req[q].op = "ACCEPT"
  /\ party' = [party EXCEPT ![req[q].call] =
                 [s \in Sides |-> [@[s] EXCEPT !.status = "ACCEPTED"]]]
  /\ call' = [call EXCEPT ![req[q].call] = [@ EXCEPT !.status = "CONNECTED",
                                                     !.connected = TRUE]]
  /\ Recorded(req[q].call, [from |-> req[q].from, to |-> "CONNECTED"], 2)
  /\ Writes(q, req[q].call, "call.connected")

(* POST /calls/:id/reject, by the recipient. *)
RejectRead(q, c) ==
  /\ Exists(c)
  /\ canTransitionVoiceCall(call[c].status, "ENDED")
  /\ call[c].status # "CONNECTED"
  /\ Reads(q, [op |-> "REJECT", call |-> c, from |-> call[c].status])

RejectWrite(q) ==
  /\ req[q].op = "REJECT"
  /\ party' = [party EXCEPT ![req[q].call] = [s \in Sides |->
       [status |-> IF s = "RECIPIENT" THEN "REJECTED" ELSE "LEFT", left |-> TRUE]]]
  /\ call' = [call EXCEPT ![req[q].call] = [@ EXCEPT !.status = "ENDED",
                                                     !.reason = "REJECTED"]]
  /\ Recorded(req[q].call, [from |-> req[q].from, to |-> "ENDED"], 1)
  /\ Writes(q, req[q].call, "call.rejected")

\* A call that never connected is missed when its initiator gives up, cancelled
\* when the recipient ends it; otherwise the given reason stands.
EndReason(c, u, given) ==
  IF call[c].connected THEN given
  ELSE IF u = call[c].initiator THEN "MISSED" ELSE "CANCELLED"

\* Mutant: the end is announced before it is written.
MutantPublishesFirst(q, c, u, given) ==
  /\ Exists(c) /\ u \in Pair(c)
  /\ canTransitionVoiceCall(call[c].status, "ENDED")
  /\ Free(q)
  /\ req' = [req EXCEPT ![q] = [op |-> "END", call |-> c, from |-> call[c].status,
                               reason |-> EndReason(c, u, given)]]
  /\ Outbox!Publishing(q, <<c, "call.ended">>)
  /\ UNCHANGED <<call, party, history, outboxRest>>

(* POST /calls/:id/end, by either participant. *)
EndRead(q, c, u, given) ==
  /\ Exists(c) /\ u \in Pair(c)
  /\ canTransitionVoiceCall(call[c].status, "ENDED")
  /\ Reads(q, [op |-> "END", call |-> c, from |-> call[c].status,
               reason |-> EndReason(c, u, given)])

\* Mutant: the initiator's side is forgotten.
MutantRecipientLeaves(sides, status) ==
  [sides EXCEPT !["RECIPIENT"] = [status |-> status, left |-> TRUE]]

\* Participants still in the call leave it.
Leave(sides, status) ==
  [s \in Sides |-> IF sides[s].left THEN sides[s] ELSE [status |-> status, left |-> TRUE]]

EndWrite(q) ==
  /\ req[q].op = "END"
  /\ party' = [party EXCEPT ![req[q].call] =
       Leave(@, IF req[q].reason = "MISSED" THEN "MISSED" ELSE "LEFT")]
  /\ call' = [call EXCEPT ![req[q].call] = [@ EXCEPT !.status = "ENDED",
                                                     !.reason = req[q].reason]]
  /\ Recorded(req[q].call, [from |-> req[q].from, to |-> "ENDED"], 1)
  /\ Writes(q, req[q].call,
            IF req[q].reason = "MISSED" THEN "call.missed" ELSE "call.ended")

(* A handler is lost between its read and its transaction. *)
Abandon(q) ==
  /\ req[q] # Idle
  /\ req' = [req EXCEPT ![q] = Idle]
  /\ UNCHANGED <<call, party, history, publisher, outboxRest>>

Routes(q) ==
  \/ \E u, v \in Users : InitiateRead(q, u, v)
  \/ InitiateWrite(q)
  \/ \E c \in CallIds : AcceptRead(q, c) \/ RejectRead(q, c)
  \/ \E c \in CallIds, u \in Users, given \in EndReasons : EndRead(q, c, u, given)
  \/ AcceptWrite(q) \/ RejectWrite(q) \/ EndWrite(q)
  \/ Abandon(q)

Next ==
  \/ \E q \in Requests : Routes(q)
  \/ Outbox!OutboxNext /\ UNCHANGED callVars

Spec == Init /\ [][Next]_vars

-------------------------------------------------------------------------------
(* Properties *)

\* Every variable keeps its shape.
TypeOK ==
  /\ call \in [CallIds -> CallRow]
  /\ party \in [CallIds -> [Sides -> PartyRow]]
  /\ history \in [CallIds -> Seq([from : {"NONE", "INITIATED", "RINGING", "CONNECTED"},
                                  to : {"INITIATED", "RINGING", "CONNECTED", "ENDED"}])]
  /\ req \in [Requests -> Job]
  /\ Outbox!TypeOK

\* The history is one that requests served in turn would leave: each change repeats
\* the one before it or starts where that one ended.
Retraces(c) ==
  \A i \in 1..(Len(history[c]) - 1) :
    history[c][i + 1] # history[c][i] => history[c][i + 1].from = history[c][i].to

\* "Any transition not listed here is rejected by the API so call lifecycle cannot
\* be driven into an invalid state": requests that overlap can (an accept that read
\* a ringing call revives it after its end), but never unseen, for the append-only
\* history then no longer retraces the call.
LegalTransitions ==
  [][\A c \in CallIds : Exists(c) /\ call'[c].status # call[c].status /\ Retraces(c)'
       => call'[c].status \in VOICE_CALL_STATUS_TRANSITIONS[call[c].status]]_vars

\* The call's tables tell one story, however requests overlap, unless its history shows
\* that they did.  The last change on record leads to the call's status.  The
\* participants have left an ended call and not a live one, and both accepted a
\* connected one.  A call that was answered is not on record as missed or rejected, and
\* one that was not is not on record as completed.
TablesAgree ==
  \A c \in CallIds : Exists(c) =>
    /\ history[c][Len(history[c])].to = call[c].status
    /\ Retraces(c) =>
         /\ \A s \in Sides :
              /\ party[c][s].left <=> call[c].status = "ENDED"
              /\ call[c].status = "CONNECTED" => party[c][s].status = "ACCEPTED"
         /\ call[c].status = "ENDED" => call[c].reason \in
              IF call[c].connected THEN EndReasons ELSE {"REJECTED", "MISSED", "CANCELLED"}

\* The status a call reaches when an event is published of it.
Told(type) == CASE type = "call.ringing" -> "RINGING"
                [] type = "call.connected" -> "CONNECTED"
                [] OTHER -> "ENDED"

\* The append-only history of a call has the change an event tells of.
IsOnRecord(e, histories) ==
  \E i \in 1..Len(histories[e[1]]) : histories[e[1]][i].to = Told(e[2])

\* Nobody hears of a change that is not on record, through whichever handler or replay
\* and however late: not of the answer of a call that was never connected, nor of the
\* end of one that goes on, unless its history shows that it was revived.
HeardIsTrue ==
  \A m \in emitted :
    LET c == m.event[1] IN
    /\ IsOnRecord(m.event, history)
    /\ Told(m.event[2]) = "CONNECTED" => call[c].connected
    /\ Told(m.event[2]) = "ENDED" /\ Retraces(c) => call[c].status = "ENDED"
===============================================================================
