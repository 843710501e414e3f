----------------------------- MODULE EdgeGovernance -----------------------------
(***************************************************************************)
(* The mapping of wards to State Constituencies: imported from a reference *)
(* release, reviewed by people where it was inferred, and read when a      *)
(* member is registered or an old profile is repaired.                     *)
(*                                                                         *)
(* A decision is one step: it works under the ward's row lock from its     *)
(* first read to its commit.  An import is one transaction of many steps,  *)
(* whose rows nobody sees and nobody may write before it commits; a second *)
(* one waits on its LGA rows.  A registration reads the ward twice and the *)
(* repair reads everything first, both without a lock.                     *)
(***************************************************************************)
EXTENDS Integers, Sequences, SequencesExt, FiniteSetsExt

CONSTANTS
  Wards, Members, Constituencies, Bases, Releases,
  Edge,          \* what each release says of each ward: a constituency and a basis
  None,          \* no constituency; no basis (the edge came from the source)
  MayOverlap,    \* whether an import commits during registrations
  MaxReviews,    \* decisions (bound)
  MaxClock       \* instants an instance's clock may show (bound)

EdgeRow == [constituency : Constituencies, basis : Bases \cup {None}]
WardRow == [constituency : Constituencies, basis : Bases \cup {None},
            release : Releases, approvedFor : Constituencies \cup {None}]

ASSUME EdgeAssumption ==
  /\ None \notin Constituencies \cup Bases \cup Releases \cup Wards \cup WardRow
  /\ Edge \in [Releases -> [Wards -> EdgeRow]]
  /\ MayOverlap \in BOOLEAN
  /\ MaxReviews \in Nat /\ MaxClock \in Nat

VARIABLES
  ward,          \* Ward: constituency, basis, release, approvedFor
  reviews,       \* WardConstituencyEdgeReview of each ward, in commit order
  importing,     \* the import's transaction
  profile,       \* VoterProfile: ward and constituency
  registration,  \* registrations between their reads and their commit
  backfill,      \* the repair: the rows it read and what it has yet to write
  trusted        \* history: the edges that were operational at some moment

vars == <<ward, reviews, importing, profile, registration, backfill, trusted>>

Review == [constituency : Constituencies, basis : Bases, release : Releases,
           outcome : {"APPROVED", "REJECTED"}, decidedAt : Nat]

inferred(row) == row.basis # None

\* The two encodings of one rule: of a row, and as a filter, which cannot compare
\* two columns.
isWardConstituencyEdgeOperational(row) ==
  inferred(row) => row.approvedFor # None /\ row.approvedFor = row.constituency
OPERATIONAL_WARD_EDGE(row) == ~inferred(row) \/ row.approvedFor # None

\* Mutant: the migration did not run.
MutantUnchecked(row) == row \in WardRow

\* Ward_edge_approval_matches_current_edge_check
Admitted(row) ==
  \/ row.approvedFor = None
  \/ inferred(row) /\ row.approvedFor = row.constituency

Operational(rows) ==
  {<<w, rows[w].constituency>> : w \in {x \in Wards : isWardConstituencyEdgeOperational(rows[x])}}

NoImport == [release |-> None, at |-> None, done |-> {}, staged |-> [w \in Wards |-> None]]
NoProfile == [ward |-> None, constituency |-> None, derived |-> FALSE]
NoRegistration == [step |-> "IDLE", ward |-> None, constituency |-> None]
NoBackfill == [step |-> "IDLE", read |-> None, change |-> [m \in Members |-> None]]

\* A release applied by hand; members registered before ancestry was derived.
Init ==
  /\ \E r \in Releases :
       ward = [w \in Wards |-> [constituency |-> Edge[r][w].constituency, release |-> r,
                                basis |-> Edge[r][w].basis, approvedFor |-> None]]
  /\ reviews = [w \in Wards |-> <<>>]
  /\ importing = NoImport
  /\ profile \in [Members -> {NoProfile} \cup
       [ward : Wards, constituency : Constituencies \cup {None}, derived : {FALSE}]]
  /\ registration = [m \in Members |-> NoRegistration]
  /\ backfill = NoBackfill
  /\ trusted = Operational(ward)

-------------------------------------------------------------------------------
(* Decisions *)

\* Rows the import has written, or cleared, are locked until it ends.
Locked(w) == importing.staged[w] # None

About(w) == {i \in 1..Len(reviews[w]) :
               /\ reviews[w][i].constituency = ward[w].constituency
               /\ reviews[w][i].release = ward[w].release
               /\ reviews[w][i].basis = ward[w].basis}

\* The decision on the ward's current edge with the latest decidedAt.
currentDecisionFor(w) ==
  reviews[w][CHOOSE i \in About(w) :
               \A j \in About(w) : reviews[w][j].decidedAt <= reviews[w][i].decidedAt]

reviewStateOf(w) ==
  CASE isWardConstituencyEdgeOperational(ward[w]) -> "APPROVED"
    [] ~isWardConstituencyEdgeOperational(ward[w]) /\ About(w) # {}
         /\ currentDecisionFor(w).outcome = "REJECTED" -> "REJECTED"
    [] OTHER -> "PENDING"

\* Mutant: the clock alone.
MutantDecidedAt(w, now) == now

\* now, on the clock of whichever instance decides, or one past the previous decision.
DecidedAt(w, now) ==
  IF About(w) # {} /\ currentDecisionFor(w).decidedAt >= now
  THEN currentDecisionFor(w).decidedAt + 1 ELSE now

\* Mutant: a rejection is recorded and leaves the approval.
MutantApprovedFor(w, c, outcome) ==
  IF outcome = "APPROVED" THEN c ELSE ward[w].approvedFor

ApprovedFor(w, c, outcome) == IF outcome = "APPROVED" THEN c ELSE None

Decisions == MapThenSumSet(LAMBDA w : Len(reviews[w]), Wards)

\* c is the constituency the reviewer was shown.
Decide(w, c, outcome, now) ==
  /\ Decisions < MaxReviews
  /\ ~Locked(w)
  /\ inferred(ward[w])
  /\ ward[w].constituency = c
  /\ reviews' = [reviews EXCEPT ![w] = Append(@,
       [constituency |-> c, basis |-> ward[w].basis, release |-> ward[w].release,
        outcome |-> outcome, decidedAt |-> DecidedAt(w, now)])]
  /\ ward' = [ward EXCEPT ![w].approvedFor = ApprovedFor(w, c, outcome)]
  /\ trusted' = trusted \cup Operational(ward')
  /\ UNCHANGED <<importing, profile, registration, backfill>>

-------------------------------------------------------------------------------
(* applyIdentityRelease *)

ImportStart(r) ==
  /\ importing = NoImport
  /\ importing' = [NoImport EXCEPT !.release = r]
  /\ UNCHANGED <<ward, reviews, profile, registration, backfill, trusted>>

\* The conditional UPDATE: a row it does not match is not locked.
ImportClear(w) ==
  /\ importing.release # None /\ importing.at = None /\ w \notin importing.done
  /\ LET edge == Edge[importing.release][w]
         matches == /\ ward[w].approvedFor # None
                    /\ edge.constituency # ward[w].constituency \/ edge.basis = None
     IN importing' = [importing EXCEPT !.at = w,
          !.staged[w] = IF matches THEN [ward[w] EXCEPT !.approvedFor = None] ELSE None]
  /\ UNCHANGED <<ward, reviews, profile, registration, backfill, trusted>>

\* The upsert of the row, as it is by then.
Imported(w) ==
  LET edge == Edge[importing.release][w]
      row == IF Locked(w) THEN importing.staged[w] ELSE ward[w]
  IN [row EXCEPT !.constituency = edge.constituency, !.basis = edge.basis,
                 !.release = importing.release]

ImportWrite(w) ==
  /\ importing.at = w /\ Admitted(Imported(w))
  /\ importing' = [importing EXCEPT !.at = None, !.done = @ \cup {w},
                                    !.staged[w] = Imported(w)]
  /\ UNCHANGED <<ward, reviews, profile, registration, backfill, trusted>>

\* The CHECK fails on one row, and the whole release is rolled back.
ImportRefused(w) ==
  /\ importing.at = w /\ ~Admitted(Imported(w))
  /\ importing' = NoImport
  /\ UNCHANGED <<ward, reviews, profile, registration, backfill, trusted>>

ImportCommit ==
  /\ importing.done = Wards
  /\ MayOverlap \/ \A m \in Members : registration[m] = NoRegistration
  /\ ward' = importing.staged
  /\ importing' = NoImport
  /\ trusted' = trusted \cup Operational(ward')
  /\ UNCHANGED <<reviews, profile, registration, backfill>>

ImportLost ==
  /\ importing.release # None
  /\ importing' = NoImport
  /\ UNCHANGED <<ward, reviews, profile, registration, backfill, trusted>>

-------------------------------------------------------------------------------
(* Registration: deriveMemberAncestryFromWard, then the profile *)

RegisterCheck(m, w) ==
  /\ profile[m] = NoProfile /\ registration[m] = NoRegistration
  /\ isWardConstituencyEdgeOperational(ward[w])
  /\ registration' = [registration EXCEPT ![m] =
       [step |-> "CHECKED", ward |-> w, constituency |-> None]]
  /\ UNCHANGED <<ward, reviews, importing, profile, backfill, trusted>>

\* Mutant: the ward is taken for its own constituency.
MutantOwnWard(m) ==
  /\ registration[m].step = "CHECKED"
  /\ registration' = [registration EXCEPT
       ![m].step = "RESOLVED", ![m].constituency = registration[m].ward]
  /\ UNCHANGED <<ward, reviews, importing, profile, backfill, trusted>>

\* resolveOperationalTerritory reads the ward again.
RegisterResolve(m) ==
  /\ registration[m].step = "CHECKED"
  /\ registration' = [registration EXCEPT
       ![m].step = "RESOLVED", ![m].constituency = ward[registration[m].ward].constituency]
  /\ UNCHANGED <<ward, reviews, importing, profile, backfill, trusted>>

RegisterCommit(m) ==
  /\ registration[m].step = "RESOLVED"
  /\ profile' = [profile EXCEPT ![m] =
       [ward |-> registration[m].ward, constituency |-> registration[m].constituency,
        derived |-> TRUE]]
  /\ registration' = [registration EXCEPT ![m] = NoRegistration]
  /\ UNCHANGED <<ward, reviews, importing, backfill, trusted>>

RegisterLost(m) ==
  /\ registration[m] # NoRegistration
  /\ registration' = [registration EXCEPT ![m] = NoRegistration]
  /\ UNCHANGED <<ward, reviews, importing, profile, backfill, trusted>>

-------------------------------------------------------------------------------
(* runMemberAncestryBackfill *)

BackfillRead ==
  /\ backfill.step = "IDLE"
  /\ backfill' = [backfill EXCEPT !.step = "READ", !.read = ward]
  /\ UNCHANGED <<ward, reviews, importing, profile, registration, trusted>>

\* Mutant: an unreviewed edge is repaired like any other.
MutantDerived(m) ==
  IF profile[m] = NoProfile THEN None ELSE backfill.read[profile[m].ward].constituency

\* What the wards it read say of a member; None when they are not to be used.
Derived(m) ==
  LET row == backfill.read[profile[m].ward]
  IN IF /\ profile[m] # NoProfile
        /\ isWardConstituencyEdgeOperational(row)
        /\ row.constituency # profile[m].constituency
     THEN row.constituency ELSE None

BackfillPlan ==
  /\ backfill.step = "READ"
  /\ backfill' = [step |-> "WRITE", read |-> None, change |-> [m \in Members |-> Derived(m)]]
  /\ UNCHANGED <<ward, reviews, importing, profile, registration, trusted>>

BackfillWrite(m) ==
  /\ backfill.step = "WRITE" /\ backfill.change[m] # None
  /\ profile' = [profile EXCEPT ![m].constituency = backfill.change[m], ![m].derived = TRUE]
  /\ backfill' = [backfill EXCEPT !.change[m] = None]
  /\ UNCHANGED <<ward, reviews, importing, registration, trusted>>

\* It has written everything, was a dry run, or is stopped.
BackfillEnds ==
  /\ backfill # NoBackfill
  /\ backfill' = NoBackfill
  /\ UNCHANGED <<ward, reviews, importing, profile, registration, trusted>>

-------------------------------------------------------------------------------
Import ==
  \/ \E r \in Releases : ImportStart(r)
  \/ \E w \in Wards : ImportClear(w) \/ ImportWrite(w) \/ ImportRefused(w)
  \/ ImportCommit \/ ImportLost

Register(m) ==
  \/ \E w \in Wards : RegisterCheck(m, w)
  \/ RegisterResolve(m) \/ RegisterCommit(m) \/ RegisterLost(m)

Backfill ==
  \/ BackfillRead \/ BackfillPlan \/ BackfillEnds
  \/ \E m \in Members : BackfillWrite(m)

Next ==
  \/ \E w \in Wards, c \in Constituencies, outcome \in {"APPROVED", "REJECTED"},
        now \in 0..MaxClock : Decide(w, c, outcome, now)
  \/ Import
  \/ \E m \in Members : Register(m)
  \/ Backfill

Spec == Init /\ [][Next]_vars

-------------------------------------------------------------------------------

\* Every variable has the shape its columns allow; what an import has written is a row.
TypeOK ==
  /\ ward \in [Wards -> WardRow]
  /\ reviews \in [Wards -> Seq(Review)]
  /\ importing \in [release : Releases \cup {None}, at : Wards \cup {None},
                    done : SUBSET Wards, staged : [Wards -> WardRow \cup {None}]]
  /\ \A w \in importing.done : importing.staged[w] \in WardRow
  /\ profile \in [Members -> {NoProfile} \cup
       [ward : Wards, constituency : Constituencies \cup {None}, derived : BOOLEAN]]
  /\ registration \in [Members -> {NoRegistration} \cup
       [step : {"CHECKED"}, ward : Wards, constituency : {None}] \cup
       [step : {"RESOLVED"}, ward : Wards, constituency : Constituencies]]
  /\ backfill \in [step : {"IDLE", "READ", "WRITE"}, read : [Wards -> WardRow] \cup {None},
                   change : [Members -> Constituencies \cup {None}]]
  /\ trusted \subseteq Wards \X Constituencies

\* "A test asserts both encodings select the same wards": the filter, which only
\* tests the approval for null, and the rule agree on every committed ward, however
\* imports and decisions interleave (member-territory-scope.ts).
EncodingsAgree ==
  \A w \in Wards :
    OPERATIONAL_WARD_EDGE(ward[w]) <=> isWardConstituencyEdgeOperational(ward[w])

\* An approval in force is the last thing anyone decided about the ward: it names the
\* edge that was reviewed, and no rejection came after it.
ApprovalIsLastDecision ==
  \A w \in Wards : ward[w].approvedFor # None =>
    /\ reviews[w] # <<>>
    /\ Last(reviews[w]).outcome = "APPROVED"
    /\ Last(reviews[w]).constituency = ward[w].approvedFor

\* The review screen tells the last decision from an earlier one although the clocks
\* of the instances differ ("newest is then a fact rather than a race"): the last
\* decision on the current edge is shown, or shown as withdrawn by an import.
DecisionShown ==
  \A w \in Wards : inferred(ward[w]) /\ Len(reviews[w]) \in About(w) =>
    IF Last(reviews[w]).outcome = "REJECTED"
    THEN reviewStateOf(w) = "REJECTED"
    ELSE reviewStateOf(w) \in {"APPROVED", "PENDING"}

\* "A registration is either complete with a proven ancestry or it does not exist", and
\* a repair "is reported, never repaired" on an unreviewed edge: a member is filed only
\* under an edge that was sourced or that someone approved.
FiledWhereTrusted ==
  \A m \in Members : profile[m].derived => <<profile[m].ward, profile[m].constituency>> \in trusted
===============================================================================
