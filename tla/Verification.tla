----------------------------- MODULE Verification -----------------------------
(***************************************************************************)
(* Voter verification and the referral rewards it pays.                    *)
(*                                                                         *)
(* A member registers, usually with a document; a validator claims the     *)
(* case and decides it; the member may submit again.  Approval credits the *)
(* referrer once, and a milestone bonus for every threshold the number of  *)
(* qualified referrals has reached, in the same transaction.               *)
(*                                                                         *)
(* Each handler is one READ COMMITTED transaction in the slot of its       *)
(* request: its reads and checks (Read...), the UPDATE that takes the      *)
(* case's row lock and the statements under it (Update), and the commit.   *)
(* One referrer is modelled; another's referrals share no row with these.  *)
(***************************************************************************)
EXTENDS Integers, FiniteSets

CONSTANTS
  Members, Referred,   \* accounts; those who registered with the referral code
  Validators, Documents, Requests,
  Thresholds,          \* values of milestoneThreshold a bonus rule may have
  Overlaps,            \* the sets of handlers allowed to overlap
  None

Handlers == {"REGISTER", "SUBMIT", "CLAIM", "DECIDE"}
Routes == Handlers \cup {"RULE"}

ASSUME VerificationAssumption ==
  /\ IsFiniteSet(Members) /\ Referred \subseteq Members
  /\ Thresholds \subseteq Nat \ {0}
  /\ Overlaps \subseteq SUBSET Routes
  /\ None \notin Members \cup Validators \cup Documents

VARIABLES
  case,      \* VoterVerification: status, reviewedByUserId, isFlagged, and its
             \* newest document
  papers,    \* VoterVerificationDocument.sha256 of every document of a member
  approved,  \* VoterVerificationHistory holds an approval of the member
  referral,  \* Referral.status of the member's registration
  credits,   \* RewardLedgerEntry VERIFIED_REFERRAL rows for the member's referral
  bonuses,   \* RewardLedgerEntry BONUS rows for a milestone
  rule,      \* a VOTER_VERIFICATION_APPROVED rule is in force
  milestones, \* thresholds with a REFERRAL_MILESTONE_REACHED rule in force
  tx,        \* each request's open transaction
  overlap    \* the handlers whose transactions may overlap; fixed by Init

vars == <<case, papers, approved, referral, credits, bonuses, rule, milestones,
          tx, overlap>>

Rules == <<rule, milestones>>

Final    == {"VERIFIED", "REJECTED"}
Status   == {"NONE", "NOT_SUBMITTED", "PENDING", "UNDER_REVIEW",
             "RESUBMISSION_REQUIRED"} \cup Final
Qualified == {"QUALIFIED", "REWARD_PROCESSED"}
ReferralStatus == {"NONE", "PENDING_VERIFICATION", "FLAGGED", "REJECTED"} \cup Qualified

\* What the member's transaction will have written when it commits.
Tx == [stage : {"IDLE"}, op : {"NONE"}, member : {None}, by : {None}, doc : {None},
       to : {"NONE"}, flag : {FALSE}, referral : {"NONE"},
       pays : {FALSE}, awards : {{}}]
      \cup
      [stage : {"READ", "UPDATED"}, op : Handlers,
       member : Members, by : Validators \cup {None}, doc : Documents \cup {None},
       to : Status \ {"NONE"}, flag : BOOLEAN,
       referral : ReferralStatus, pays : BOOLEAN, awards : SUBSET Thresholds]

NoTx == [stage |-> "IDLE", op |-> "NONE", member |-> None, by |-> None, doc |-> None,
         to |-> "NONE", flag |-> FALSE, referral |-> "NONE",
         pays |-> FALSE, awards |-> {}]

Init ==
  /\ case = [m \in Members |-> [status |-> "NONE", reviewer |-> None,
                                flagged |-> FALSE, doc |-> None]]
  /\ papers = [m \in Members |-> {}]
  /\ approved = [m \in Members |-> FALSE]
  /\ referral = [m \in Members |-> "NONE"]
  /\ credits = [m \in Members |-> 0]
  /\ bonuses = [t \in Thresholds |-> 0]
  /\ rule \in BOOLEAN /\ milestones \in SUBSET Thresholds
  /\ tx = [r \in Requests |-> NoTx]
  /\ overlap \in Overlaps

-------------------------------------------------------------------------------
(* The first half of a handler: what it reads and checks.                   *)

Free(r, op) ==
  /\ tx[r].stage = "IDLE"
  /\ \A q \in Requests : tx[q].stage # "IDLE" => {op, tx[q].op} \subseteq overlap

Open(r, op, m, v, d, to, flag) ==
  /\ tx' = [tx EXCEPT ![r] =
       [stage |-> "READ", op |-> op, member |-> m, by |-> v, doc |-> d,
        to |-> to, flag |-> flag,
        referral |-> "NONE", pays |-> FALSE, awards |-> {}]]
  /\ UNCHANGED <<case, papers, approved, referral, credits, bonuses, Rules, overlap>>

\* Mutant: looks for the hash among the member's own documents.
MutantOwnDuplicate(m, d) == d \in papers[m]

\* duplicateDocument: another member already has a document with this hash.
Duplicate(m, d) == \E n \in Members \ {m} : d \in papers[n]

ReadRegister(r, m, d) ==
  /\ Free(r, "REGISTER")
  /\ case[m].status = "NONE"
  /\ Open(r, "REGISTER", m, None, d, "PENDING", Duplicate(m, d))

ReadRegisterWithoutDocument(r, m) ==
  /\ Free(r, "REGISTER")
  /\ case[m].status = "NONE"
  /\ Open(r, "REGISTER", m, None, None, "NOT_SUBMITTED", FALSE)

MayResubmit(m) ==
  /\ case[m].status \notin Final \cup {"NONE"}
  /\ ~(case[m].status = "UNDER_REVIEW" /\ case[m].reviewer # None)

\* POST /verifications/me/documents.
ReadResubmit(r, m, d) ==
  /\ Free(r, "SUBMIT")
  /\ MayResubmit(m)
  /\ Open(r, "SUBMIT", m, None, d, "PENDING", Duplicate(m, d))

\* Mutant: a verified case may be submitted again.
MutantMaySubmit(m) == case[m].status # "NONE"

MaySubmit(m) == case[m].status \notin {"NONE", "VERIFIED"}

\* POST /voter/verification/submit: the older route, refused only when VERIFIED.
\* (Registration creates every member's row, so it never has to create one.)
ReadSubmit(r, m, d) ==
  /\ Free(r, "SUBMIT")
  /\ MaySubmit(m)
  /\ Open(r, "SUBMIT", m, None, d, "PENDING", Duplicate(m, d))

ReadClaim(r, v, m) ==
  /\ Free(r, "CLAIM")
  /\ case[m].status \in {"PENDING", "UNDER_REVIEW"}
  /\ case[m].status = "UNDER_REVIEW" => case[m].reviewer = v
  /\ Open(r, "CLAIM", m, v, None, "UNDER_REVIEW", FALSE)

MayDecide(v, m) ==
  /\ case[m].status \notin Final \cup {"NONE"}
  /\ case[m].reviewer \in {None, v}

ReadDecide(r, v, m, to) ==
  /\ Free(r, "DECIDE")
  /\ MayDecide(v, m)
  /\ Open(r, "DECIDE", m, v, None, to, FALSE)

-------------------------------------------------------------------------------
(* The statements under the row lock.  Their writes stay in the slot until  *)
(* the commit: other transactions read what is committed.                   *)

\* processVerifiedReferralReward: the referral's new status.
Rewarded(m) ==
  CASE referral[m] \in {"NONE", "REJECTED", "FLAGGED"} -> referral[m]
    [] rule -> "REWARD_PROCESSED"
    [] referral[m] \in Qualified -> referral[m]
    [] OTHER -> "QUALIFIED"

\* Mutant: a rejection marks the referral whatever its status.
MutantReferralAfter(m, to) ==
  CASE to = "VERIFIED" -> Rewarded(m)
    [] to = "REJECTED" /\ referral[m] # "NONE" -> "REJECTED"
    [] OTHER -> referral[m]

ReferralAfter(m, to) ==
  CASE to = "VERIFIED" -> Rewarded(m)
    [] to = "REJECTED" /\ referral[m] \in {"PENDING_VERIFICATION", "FLAGGED"} -> "REJECTED"
    [] OTHER -> referral[m]

Pays(m, to) == to = "VERIFIED" /\ Rewarded(m) = "REWARD_PROCESSED" /\ rule

\* processReferralMilestoneBonuses: the thresholds reached by the committed
\* referrals and this transaction's own.
Reached(m) == Cardinality({n \in Members : referral[n] \in Qualified} \cup {m})

\* Mutant: awards only the threshold the count has just met.
MutantAwards(m, to) == IF Pays(m, to) THEN {t \in milestones : t = Reached(m)} ELSE {}

Awards(m, to) == IF Pays(m, to) THEN {t \in milestones : t <= Reached(m)} ELSE {}

Update(r) ==
  /\ tx[r].stage = "READ"
  /\ \A q \in Requests \ {r} : tx[q].stage = "UPDATED" => tx[q].member # tx[r].member
  /\ LET m  == tx[r].member
         to == tx[r].to
         decides == tx[r].op = "DECIDE" IN
     tx' = [tx EXCEPT
       ![r].stage = "UPDATED",
       ![r].referral = IF decides THEN ReferralAfter(m, to) ELSE referral[m],
       ![r].pays = decides /\ Pays(m, to),
       ![r].awards = IF decides THEN Awards(m, to) ELSE {}]
  /\ UNCHANGED <<case, papers, approved, referral, credits, bonuses, Rules, overlap>>

\* RewardLedgerEntry.upsert on its unique source key: created once, then left.
Upserted(rows) == IF rows = 0 THEN 1 ELSE rows

\* Mutant: a submission leaves the member as the reviewer.
MutantCaseAfter(t) ==
  CASE t.op \in {"REGISTER", "SUBMIT"} -> [status |-> t.to, reviewer |-> t.member,
                                           flagged |-> t.flag, doc |-> t.doc]
    [] OTHER -> [case[t.member] EXCEPT !.status = t.to, !.reviewer = t.by]

CaseAfter(t) ==
  CASE t.op \in {"REGISTER", "SUBMIT"} -> [status |-> t.to, reviewer |-> None, flagged |-> t.flag,
                           doc |-> t.doc]
    [] OTHER -> [case[t.member] EXCEPT !.status = t.to, !.reviewer = t.by]

\* A registration creates the referral with the case.
ReferralCommitted(t) ==
  IF t.op = "REGISTER" /\ t.member \in Referred
  THEN IF t.flag THEN "FLAGGED" ELSE "PENDING_VERIFICATION"
  ELSE t.referral

Commit(r) ==
  LET t == tx[r]
      m == tx[r].member IN
  /\ t.stage = "UPDATED"
  /\ t.op = "REGISTER" => case[m].status = "NONE"   \* the account is unique
  /\ case' = [case EXCEPT ![m] = CaseAfter(t)]
  /\ papers' = [papers EXCEPT ![m] = @ \cup ({t.doc} \ {None})]
  /\ approved' = [approved EXCEPT ![m] = @ \/ t.to = "VERIFIED"]
  /\ referral' = [referral EXCEPT ![m] = ReferralCommitted(t)]
  /\ credits' = [credits EXCEPT ![m] = IF t.pays THEN Upserted(@) ELSE @]
  /\ bonuses' = [b \in Thresholds |-> IF b \in t.awards THEN Upserted(bonuses[b])
                                      ELSE bonuses[b]]
  /\ tx' = [tx EXCEPT ![r] = NoTx]
  /\ UNCHANGED <<Rules, overlap>>

\* A statement fails, or the process is lost: nothing is written.
Rollback(r) ==
  /\ tx[r].stage # "IDLE"
  /\ tx' = [tx EXCEPT ![r] = NoTx]
  /\ UNCHANGED <<case, papers, approved, referral, credits, bonuses, Rules, overlap>>

(* POST /reward-rules: a rule that credits verified referrals, or a bonus for a
   threshold, the thresholds the referrer has long passed included. *)
CreateRewardRule ==
  /\ \A q \in Requests : tx[q].stage # "IDLE" => {"RULE", tx[q].op} \subseteq overlap
  /\ \/ rule' = TRUE /\ UNCHANGED milestones
     \/ \E t \in Thresholds : milestones' = milestones \cup {t} /\ UNCHANGED rule
  /\ UNCHANGED <<case, papers, approved, referral, credits, bonuses, tx, overlap>>

(* effectiveUntil passes, whoever is in the middle of what. *)
RewardRuleLapses ==
  /\ \/ rule' = FALSE /\ UNCHANGED milestones
     \/ \E t \in milestones : milestones' = milestones \ {t} /\ UNCHANGED rule
  /\ UNCHANGED <<case, papers, approved, referral, credits, bonuses, tx, overlap>>

Next ==
  \/ CreateRewardRule
  \/ RewardRuleLapses
  \/ \E r \in Requests :
       \/ \E m \in Members : ReadRegisterWithoutDocument(r, m)
       \/ \E m \in Members, d \in Documents : \/ ReadRegister(r, m, d)
                                              \/ ReadResubmit(r, m, d)
                                              \/ ReadSubmit(r, m, d)
       \/ \E v \in Validators, m \in Members :
            \/ ReadClaim(r, v, m)
            \/ \E to \in Final \cup {"RESUBMISSION_REQUIRED"} : ReadDecide(r, v, m, to)
       \/ Update(r)
       \/ Commit(r)
       \/ Rollback(r)

Spec == Init /\ [][Next]_vars

-------------------------------------------------------------------------------

Serial == overlap = {}

\* Every variable has the shape its columns allow.
TypeOK ==
  /\ case \in [Members -> [status : Status, reviewer : Validators \cup {None},
                           flagged : BOOLEAN, doc : Documents \cup {None}]]
  /\ papers \in [Members -> SUBSET Documents]
  /\ approved \in [Members -> BOOLEAN]
  /\ referral \in [Members -> ReferralStatus]
  /\ credits \in [Members -> Nat]
  /\ bonuses \in [Thresholds -> Nat]
  /\ rule \in BOOLEAN /\ milestones \subseteq Thresholds
  /\ tx \in [Requests -> Tx]
  /\ overlap \in Overlaps

\* Points are never minted without a cause, whatever overlaps: the referrer was
\* credited for a member only if a validator approved that member and the
\* referral is settled as paid, and a milestone only if that many referrals did
\* qualify (processVerifiedReferralReward, processReferralMilestoneBonuses).
CreditsAreEarned ==
  /\ \A m \in Members : credits[m] > 0 =>
       approved[m] /\ referral[m] = "REWARD_PROCESSED"
  /\ \A t \in Thresholds : bonuses[t] > 0 =>
       Cardinality({m \in Members : referral[m] \in Qualified}) >= t

\* When requests do not overlap, a credit on the ledger and the case it was paid
\* for agree: nobody is credited for a member who is not verified, and a verified
\* member's referral is not left waiting (PATCH .../decision).
CreditedIsVerified ==
  Serial => \A m \in Members :
    /\ credits[m] > 0 => case[m].status = "VERIFIED"
    /\ case[m].status = "VERIFIED" => referral[m] # "PENDING_VERIFICATION"
    /\ case[m].status = "REJECTED" => referral[m] \in {"NONE", "REJECTED"}

\* "Crossing several thresholds at once awards each exactly once": when requests
\* do not overlap, an approval that credits a referral leaves no milestone in
\* force that the referrals have reached unpaid, one created after it was reached
\* or missed by earlier approvals included (processReferralMilestoneBonuses).
MilestonesAwarded ==
  [][Serial => \A m \in Members, t \in milestones :
       /\ credits'[m] > credits[m]
       /\ Cardinality({n \in Members : referral'[n] \in Qualified}) >= t
       => bonuses'[t] > 0]_vars

\* When requests do not overlap, two members whose current document is the same
\* do not both pass unflagged (the duplicateDocument checks of the three
\* submission handlers).
SharedDocumentFlagged ==
  Serial => \A m, n \in Members :
    m # n /\ case[m].doc = case[n].doc /\ case[m].doc # None
      => case[m].flagged \/ case[n].flagged

\* "Finalized verification cases cannot be changed", nor resubmitted.
FinalizedStays ==
  [][\A m \in Members : case[m].status \in Final =>
       case'[m].status = case[m].status]_vars

===============================================================================
