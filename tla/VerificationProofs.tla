--------------------------- MODULE VerificationProofs ---------------------------
(***************************************************************************)
(* Proofs about Verification, for any members, validators, thresholds and  *)
(* number of requests, whichever handlers overlap.                         *)
(*                                                                         *)
(* A transaction that has taken a case's row lock is alone on that member, *)
(* so what it read of the referral still holds when it commits; and no     *)
(* commit takes a referral back out of the qualified ones, so a milestone  *)
(* counted before a commit of somebody else is still reached after it.     *)
(*                                                                         *)
(* When requests do not overlap, the one open transaction also decides     *)
(* from what is still true of the case, the papers and the referral: that  *)
(* is SerialInv, and the three properties of serial requests follow.       *)
(***************************************************************************)
EXTENDS Verification, FiniteSetTheorems, TLAPS

QualifiedReferrals == {n \in Members : referral[n] \in Qualified}

\* What a transaction under the lock knows of its member's referral.
LockedReferral(r) ==
  LET t == tx[r] IN
  /\ t.pays => t.op = "DECIDE" /\ t.to = "VERIFIED" /\ t.referral = "REWARD_PROCESSED"
  /\ t.op # "REGISTER" =>
       /\ referral[t.member] = "REWARD_PROCESSED" => t.referral = "REWARD_PROCESSED"
       /\ referral[t.member] \in Qualified => t.referral \in Qualified
  /\ t.op # "DECIDE" => t.awards = {}
  /\ t.awards # {} => t.referral \in Qualified
  /\ \A b \in t.awards : b <= Cardinality(QualifiedReferrals \cup {t.member})

Under(r) == tx[r].stage = "UPDATED"

LocksHeld ==
  /\ \A r \in Requests : Under(r) => LockedReferral(r)
  /\ \A r, q \in Requests : Under(r) /\ Under(q) /\ r # q => tx[r].member # tx[q].member
  /\ \A m \in Members : case[m].status = "NONE" => referral[m] = "NONE"

Inv == TypeOK /\ LocksHeld /\ CreditsAreEarned

-------------------------------------------------------------------------------
(* Types *)

USE DEF Rules

OpenTx == [stage : {"READ", "UPDATED"}, op : Handlers,
           member : Members, by : Validators \cup {None}, doc : Documents \cup {None},
           to : Status \ {"NONE"}, flag : BOOLEAN,
           referral : ReferralStatus, pays : BOOLEAN, awards : SUBSET Thresholds]

LEMMA TxTypes ==
  /\ NoTx \in Tx
  /\ OpenTx \subseteq Tx
  /\ \A t \in Tx : t.stage # "IDLE" => t \in OpenTx
<1>1. NoTx \in Tx
  BY DEF NoTx, Tx
<1>2. OpenTx \subseteq Tx
  BY DEF OpenTx, Tx
<1>3. ASSUME NEW t \in Tx, t.stage # "IDLE" PROVE t \in OpenTx
  BY <1>3 DEF Tx, OpenTx
<1> QED BY <1>1, <1>2, <1>3

LEMMA InitTypeOK == Init => TypeOK
BY TxTypes, VerificationAssumption
   DEF VerificationAssumption, Init, TypeOK, Status, ReferralStatus

\* Every handler opens a well-typed transaction.
LEMMA OpenType ==
  ASSUME TypeOK, NEW r \in Requests, NEW op \in Handlers, NEW m \in Members,
         NEW v \in Validators \cup {None}, NEW d \in Documents \cup {None},
         NEW to \in Status \ {"NONE"}, NEW flag \in BOOLEAN, Open(r, op, m, v, d, to, flag)
  PROVE  /\ TypeOK'
         /\ UNCHANGED <<case, papers, approved, referral, credits, bonuses, Rules, overlap>>
         /\ tx'[r].stage = "READ" /\ \A q \in Requests \ {r} : tx'[q] = tx[q]
<1> DEFINE t == [stage |-> "READ", op |-> op, member |-> m, by |-> v, doc |-> d,
                 to |-> to, flag |-> flag, referral |-> "NONE", pays |-> FALSE, awards |-> {}]
<1>1. t \in OpenTx /\ t.stage = "READ"
  BY DEF OpenTx, ReferralStatus
<1>2. /\ tx' = [tx EXCEPT ![r] = t]
      /\ UNCHANGED <<case, papers, approved, referral, credits, bonuses, Rules, overlap>>
  BY DEF Open
<1> HIDE DEF t
<1>3. t \in Tx
  BY <1>1, TxTypes
<1> QED BY <1>1, <1>2, <1>3 DEF TypeOK

LEMMA ReadType ==
  ASSUME TypeOK, NEW r \in Requests,
         \/ \E m \in Members : ReadRegisterWithoutDocument(r, m)
         \/ \E m \in Members, d \in Documents : \/ ReadRegister(r, m, d)
                                                \/ ReadResubmit(r, m, d)
                                                \/ ReadSubmit(r, m, d)
         \/ \E v \in Validators, m \in Members :
              \/ ReadClaim(r, v, m)
              \/ \E to \in Final \cup {"RESUBMISSION_REQUIRED"} : ReadDecide(r, v, m, to)
  PROVE  /\ TypeOK'
         /\ UNCHANGED <<case, papers, approved, referral, credits, bonuses, Rules, overlap>>
         /\ tx'[r].stage = "READ" /\ \A q \in Requests \ {r} : tx'[q] = tx[q]
<1> DEFINE Opened ==
      /\ TypeOK'
      /\ UNCHANGED <<case, papers, approved, referral, credits, bonuses, Rules, overlap>>
      /\ tx'[r].stage = "READ" /\ \A q \in Requests \ {r} : tx'[q] = tx[q]
<1> USE DEF Handlers, Status, Final
<1>1. ASSUME NEW m \in Members, ReadRegisterWithoutDocument(r, m) PROVE Opened
  BY <1>1, OpenType DEF ReadRegisterWithoutDocument
<1>2. ASSUME NEW m \in Members, NEW d \in Documents,
             ReadRegister(r, m, d) \/ ReadResubmit(r, m, d) \/ ReadSubmit(r, m, d)
      PROVE  Opened
  <2>1. PICK op \in {"REGISTER", "SUBMIT"} : Open(r, op, m, None, d, "PENDING", Duplicate(m, d))
    BY <1>2 DEF ReadRegister, ReadResubmit, ReadSubmit
  <2>2. Duplicate(m, d) \in BOOLEAN
    BY DEF Duplicate
  <2> QED BY <2>1, <2>2, OpenType
<1>3. ASSUME NEW v \in Validators, NEW m \in Members, ReadClaim(r, v, m) PROVE Opened
  BY <1>3, OpenType DEF ReadClaim
<1>4. ASSUME NEW v \in Validators, NEW m \in Members,
             NEW to \in Final \cup {"RESUBMISSION_REQUIRED"}, ReadDecide(r, v, m, to)
      PROVE  Opened
  BY <1>4, OpenType DEF ReadDecide
<1> QED BY <1>1, <1>2, <1>3, <1>4

\* What the reward of a member makes of the referral.
LEMMA ReferralAfterFacts ==
  ASSUME TypeOK, NEW m \in Members, NEW to \in Status
  PROVE  /\ ReferralAfter(m, to) \in ReferralStatus
         /\ referral[m] \in Qualified => ReferralAfter(m, to) \in Qualified
         /\ referral[m] = "REWARD_PROCESSED" => ReferralAfter(m, to) = "REWARD_PROCESSED"
         /\ Pays(m, to) => to = "VERIFIED" /\ ReferralAfter(m, to) = "REWARD_PROCESSED"
         /\ Pays(m, to) \in BOOLEAN
         /\ Awards(m, to) \subseteq Thresholds
         /\ Awards(m, to) # {} => Pays(m, to)
         /\ \A b \in Awards(m, to) : b <= Cardinality(QualifiedReferrals \cup {m})
<1>1. referral[m] \in ReferralStatus
  BY DEF TypeOK
<1>2. /\ ReferralAfter(m, to) \in ReferralStatus
      /\ referral[m] \in Qualified => ReferralAfter(m, to) \in Qualified
      /\ referral[m] = "REWARD_PROCESSED" => ReferralAfter(m, to) = "REWARD_PROCESSED"
  BY <1>1 DEF ReferralAfter, Rewarded, Qualified, ReferralStatus
<1>3. /\ Pays(m, to) => to = "VERIFIED" /\ ReferralAfter(m, to) = "REWARD_PROCESSED"
      /\ Pays(m, to) \in BOOLEAN
  BY DEF Pays, ReferralAfter
<1>4. /\ Awards(m, to) \subseteq Thresholds
      /\ Awards(m, to) # {} => Pays(m, to)
      /\ \A b \in Awards(m, to) : b <= Cardinality(QualifiedReferrals \cup {m})
  BY DEF Awards, Reached, QualifiedReferrals, TypeOK
<1> QED BY <1>2, <1>3, <1>4

\* What a transaction is once it has its lock.
LEMMA UpdateTx ==
  ASSUME TypeOK, NEW r \in Requests, Update(r)
  PROVE  /\ TypeOK'
         /\ UNCHANGED <<case, papers, approved, referral, credits, bonuses, Rules, overlap>>
         /\ \A q \in Requests \ {r} : tx'[q] = tx[q]
         /\ tx'[r].member = tx[r].member /\ tx[r].member \in Members
         /\ \A q \in Requests \ {r} : Under(q) => tx[q].member # tx[r].member
         /\ LockedReferral(r)'
<1> DEFINE m == tx[r].member
           to == tx[r].to
           decides == tx[r].op = "DECIDE"
           after == IF decides THEN ReferralAfter(m, to) ELSE referral[m]
           pays == decides /\ Pays(m, to)
           awards == IF decides THEN Awards(m, to) ELSE {}
           t == [tx[r] EXCEPT !.stage = "UPDATED", !.referral = after, !.pays = pays,
                              !.awards = awards]
<1>1. /\ tx[r].stage = "READ"
      /\ \A q \in Requests \ {r} : Under(q) => tx[q].member # tx[r].member
      /\ tx' = [tx EXCEPT ![r].stage = "UPDATED", ![r].referral = after, ![r].pays = pays,
                          ![r].awards = awards]
      /\ UNCHANGED <<case, papers, approved, referral, credits, bonuses, Rules, overlap>>
  BY DEF Update, Under
<1>2. tx[r] \in OpenTx
  BY <1>1, TxTypes DEF TypeOK
<1>3. m \in Members /\ to \in Status /\ to # "NONE" /\ referral[m] \in ReferralStatus
  BY <1>2 DEF OpenTx, TypeOK
<1>4. after \in ReferralStatus /\ pays \in BOOLEAN /\ awards \in SUBSET Thresholds
  BY <1>3, ReferralAfterFacts
<1>5. /\ pays => decides /\ to = "VERIFIED" /\ after = "REWARD_PROCESSED"
      /\ referral[m] = "REWARD_PROCESSED" => after = "REWARD_PROCESSED"
      /\ referral[m] \in Qualified => after \in Qualified
      /\ ~decides => awards = {}
      /\ awards # {} => pays
      /\ \A b \in awards : b <= Cardinality(QualifiedReferrals \cup {m})
  <2>1. CASE decides
    <3>1. after = ReferralAfter(m, to) /\ pays = Pays(m, to) /\ awards = Awards(m, to)
      BY <2>1, <1>3, ReferralAfterFacts
    <3> HIDE DEF after, pays, awards
    <3> QED BY <1>3, <2>1, <3>1, ReferralAfterFacts
  <2>2. CASE ~decides
    BY <2>2
  <2> QED BY <2>1, <2>2
<1> HIDE DEF after, pays, awards
<1>6. /\ t \in OpenTx /\ t.stage = "UPDATED" /\ t.member = m /\ t.op = tx[r].op /\ t.to = to
      /\ t.referral = after /\ t.pays = pays /\ t.awards = awards
  BY <1>2, <1>4 DEF OpenTx
<1>7. tx' = [tx EXCEPT ![r] = t]
  BY <1>1 DEF TypeOK
<1> HIDE DEF t
<1>8. t \in Tx
  BY <1>6, TxTypes
<1>9. tx' \in [Requests -> Tx] /\ tx'[r] = t /\ \A q \in Requests \ {r} : tx'[q] = tx[q]
  BY <1>7, <1>8 DEF TypeOK
<1>10. TypeOK'
  BY <1>1, <1>9 DEF TypeOK
<1>11. LockedReferral(r)'
  <2>1. QualifiedReferrals' = QualifiedReferrals
    BY <1>1 DEF QualifiedReferrals
  <2>2. "REWARD_PROCESSED" \in Qualified
    BY DEF Qualified
  <2>3. /\ t.pays => t.op = "DECIDE" /\ t.to = "VERIFIED" /\ t.referral = "REWARD_PROCESSED"
        /\ referral[t.member] = "REWARD_PROCESSED" => t.referral = "REWARD_PROCESSED"
        /\ referral[t.member] \in Qualified => t.referral \in Qualified
        /\ t.op # "DECIDE" => t.awards = {}
        /\ t.awards # {} => t.referral \in Qualified
        /\ \A b \in t.awards : b <= Cardinality(QualifiedReferrals \cup {t.member})
    BY <1>5, <1>6, <2>2
  <2> QED BY <1>1, <1>9, <2>1, <2>3 DEF LockedReferral
<1> QED BY <1>1, <1>3, <1>6, <1>9, <1>10, <1>11

-------------------------------------------------------------------------------
(* Commits *)

LEMMA CommitTypeOK ==
  ASSUME TypeOK, NEW r \in Requests, Commit(r)
  PROVE  /\ TypeOK' /\ tx[r] \in OpenTx
         /\ case'[tx[r].member].status # "NONE"
         /\ \A m \in Members \ {tx[r].member} : /\ case'[m] = case[m]
                                                /\ referral'[m] = referral[m]
                                                /\ credits'[m] = credits[m]
                                                /\ approved'[m] = approved[m]
         /\ approved'[tx[r].member] = (approved[tx[r].member] \/ tx[r].to = "VERIFIED")
         /\ referral'[tx[r].member] = ReferralCommitted(tx[r])
         /\ credits'[tx[r].member] =
              (IF tx[r].pays THEN Upserted(credits[tx[r].member]) ELSE credits[tx[r].member])
         /\ bonuses' = [b \in Thresholds |-> IF b \in tx[r].awards THEN Upserted(bonuses[b])
                                             ELSE bonuses[b]]
         /\ tx' = [tx EXCEPT ![r] = NoTx]
<1> DEFINE t == tx[r]
           m == tx[r].member
           c == CaseAfter(t)
<1>1. t \in OpenTx
  BY TxTypes DEF Commit, TypeOK
<1>2. m \in Members
  BY <1>1 DEF OpenTx
<1>3. /\ case' = [case EXCEPT ![m] = c]
      /\ papers' = [papers EXCEPT ![m] = @ \cup ({t.doc} \ {None})]
      /\ approved' = [approved EXCEPT ![m] = @ \/ t.to = "VERIFIED"]
      /\ referral' = [referral EXCEPT ![m] = ReferralCommitted(t)]
      /\ credits' = [credits EXCEPT ![m] = IF t.pays THEN Upserted(@) ELSE @]
      /\ bonuses' = [b \in Thresholds |-> IF b \in t.awards THEN Upserted(bonuses[b])
                                          ELSE bonuses[b]]
      /\ tx' = [tx EXCEPT ![r] = NoTx]
      /\ UNCHANGED <<Rules, overlap>>
  BY DEF Commit
<1>4. /\ c \in [status : Status, reviewer : Validators \cup {None},
                flagged : BOOLEAN, doc : Documents \cup {None}]
      /\ c.status # "NONE"
  <2>1. case[m] \in [status : Status, reviewer : Validators \cup {None},
                     flagged : BOOLEAN, doc : Documents \cup {None}]
    BY <1>2 DEF TypeOK
  <2>2. CASE t.op \in {"REGISTER", "SUBMIT"}
    BY <1>1, <2>2 DEF CaseAfter, OpenTx
  <2>3. CASE t.op \notin {"REGISTER", "SUBMIT"}
    <3>1. c = [case[m] EXCEPT !.status = t.to, !.reviewer = t.by]
      BY <2>3 DEF CaseAfter
    <3>2. t.to \in Status /\ t.to # "NONE" /\ t.by \in Validators \cup {None}
      BY <1>1 DEF OpenTx
    <3> HIDE DEF c
    <3> QED BY <2>1, <3>1, <3>2
  <2> QED BY <2>2, <2>3
<1>5. ReferralCommitted(t) \in ReferralStatus
  BY <1>1 DEF ReferralCommitted, OpenTx, ReferralStatus
<1>6. t.doc \in Documents \cup {None}
  BY <1>1 DEF OpenTx
<1> HIDE DEF c, t
<1>7. /\ case' \in [Members -> [status : Status, reviewer : Validators \cup {None},
                               flagged : BOOLEAN, doc : Documents \cup {None}]]
      /\ case'[m] = c /\ \A n \in Members \ {m} : case'[n] = case[n]
  BY <1>2, <1>3, <1>4 DEF TypeOK
<1>8. papers' \in [Members -> SUBSET Documents]
  BY <1>2, <1>3, <1>6 DEF TypeOK
<1>9. /\ approved' \in [Members -> BOOLEAN]
      /\ approved'[m] = (approved[m] \/ t.to = "VERIFIED")
      /\ \A n \in Members \ {m} : approved'[n] = approved[n]
  BY <1>2, <1>3, Zenon DEF TypeOK
<1>10. /\ referral' \in [Members -> ReferralStatus]
       /\ referral'[m] = ReferralCommitted(t)
       /\ \A n \in Members \ {m} : referral'[n] = referral[n]
  BY <1>2, <1>3, <1>5 DEF TypeOK
<1>11. /\ credits' \in [Members -> Nat]
       /\ credits'[m] = (IF t.pays THEN Upserted(credits[m]) ELSE credits[m])
       /\ \A n \in Members \ {m} : credits'[n] = credits[n]
  BY <1>2, <1>3 DEF TypeOK, Upserted
<1>12. bonuses' \in [Thresholds -> Nat]
  BY <1>3 DEF TypeOK, Upserted
<1>13. tx' \in [Requests -> Tx]
  BY <1>3, TxTypes DEF TypeOK
<1>14. TypeOK'
  BY <1>3, <1>7, <1>8, <1>9, <1>10, <1>11, <1>12, <1>13 DEF TypeOK
<1> QED BY <1>1, <1>3, <1>4, <1>7, <1>9, <1>10, <1>11, <1>14 DEF t

LEMMA NextTypeOK == TypeOK /\ [Next]_vars => TypeOK'
<1> SUFFICES ASSUME TypeOK, [Next]_vars PROVE TypeOK'
  OBVIOUS
<1>1. CASE CreateRewardRule \/ RewardRuleLapses
  BY <1>1 DEF CreateRewardRule, RewardRuleLapses, TypeOK
<1>2. ASSUME NEW r \in Requests, Rollback(r) PROVE TypeOK'
  BY <1>2, TxTypes DEF Rollback, TypeOK
<1>3. CASE UNCHANGED vars
  BY <1>3 DEF vars, TypeOK
<1> QED BY <1>1, <1>2, <1>3, ReadType, UpdateTx, CommitTypeOK DEF Next

\* Cases, referrals, the ledger and every open transaction keep their types.
THEOREM VerificationTypes == Spec => []TypeOK
BY InitTypeOK, NextTypeOK, PTL DEF Spec

-------------------------------------------------------------------------------
(* The ledger *)

\* Counting: a set that loses no member does not get smaller.
LEMMA CountMonotone ==
  ASSUME NEW S, NEW T, S \subseteq T, T \subseteq Members
  PROVE  /\ Cardinality(S) <= Cardinality(T)
         /\ Cardinality(S) \in Nat /\ Cardinality(T) \in Nat
BY FS_Subset, FS_CardinalityType, VerificationAssumption DEF VerificationAssumption

\* Steps that write nothing to the tables but may open, or end, a transaction.
LEMMA TablesKept ==
  ASSUME Inv, TypeOK', UNCHANGED <<case, approved, referral, credits, bonuses>>,
         \A r \in Requests : tx'[r].stage = "UPDATED" => tx'[r] = tx[r]
  PROVE  Inv'
<1>1. QualifiedReferrals' = QualifiedReferrals
  BY DEF QualifiedReferrals
<1>2. \A r \in Requests : Under(r)' => Under(r) /\ tx'[r] = tx[r]
  BY DEF Under
<1>3. ASSUME NEW r \in Requests, Under(r)' PROVE LockedReferral(r)'
  <2>1. LockedReferral(r) /\ tx'[r] = tx[r]
    BY <1>2, <1>3 DEF Inv, LocksHeld
  <2> QED BY <1>1, <2>1 DEF LockedReferral
<1>4. LocksHeld'
  BY <1>2, <1>3 DEF Inv, LocksHeld
<1>5. CreditsAreEarned'
  BY DEF Inv, CreditsAreEarned
<1> QED BY <1>4, <1>5 DEF Inv

LEMMA UpdateInv ==
  ASSUME Inv, NEW r \in Requests, Update(r) PROVE Inv'
<1>1. /\ TypeOK'
      /\ UNCHANGED <<case, papers, approved, referral, credits, bonuses, Rules, overlap>>
      /\ \A q \in Requests \ {r} : tx'[q] = tx[q]
      /\ tx'[r].member = tx[r].member
      /\ \A q \in Requests \ {r} : Under(q) => tx[q].member # tx[r].member
      /\ LockedReferral(r)'
  BY UpdateTx DEF Inv
<1>2. QualifiedReferrals' = QualifiedReferrals
  BY <1>1 DEF QualifiedReferrals
<1>3. \A q \in Requests \ {r} : Under(q)' => Under(q)
  BY <1>1 DEF Under
<1>4. ASSUME NEW q \in Requests, Under(q)' PROVE LockedReferral(q)'
  <2>1. CASE q = r
    BY <1>1, <2>1
  <2>2. CASE q # r
    BY <1>1, <1>2, <1>3, <1>4, <2>2 DEF Inv, LocksHeld, LockedReferral
  <2> QED BY <2>1, <2>2
<1>5. ASSUME NEW q \in Requests, NEW p \in Requests, Under(q)', Under(p)', q # p
      PROVE  tx'[q].member # tx'[p].member
  BY <1>1, <1>3, <1>5 DEF Inv, LocksHeld
<1>6. LocksHeld'
  BY <1>1, <1>4, <1>5 DEF Inv, LocksHeld
<1>7. CreditsAreEarned'
  BY <1>1 DEF Inv, CreditsAreEarned
<1> QED BY <1>1, <1>6, <1>7 DEF Inv

LEMMA CommitInv ==
  ASSUME Inv, NEW r \in Requests, Commit(r) PROVE Inv'
<1> DEFINE t == tx[r]
           m == tx[r].member
<1>1. /\ TypeOK' /\ t \in OpenTx
      /\ case'[m].status # "NONE"
      /\ \A n \in Members \ {m} : /\ case'[n] = case[n] /\ referral'[n] = referral[n]
                                  /\ credits'[n] = credits[n] /\ approved'[n] = approved[n]
      /\ approved'[m] = (approved[m] \/ t.to = "VERIFIED")
      /\ referral'[m] = ReferralCommitted(t)
      /\ credits'[m] = (IF t.pays THEN Upserted(credits[m]) ELSE credits[m])
      /\ bonuses' = [b \in Thresholds |-> IF b \in t.awards THEN Upserted(bonuses[b])
                                          ELSE bonuses[b]]
      /\ tx' = [tx EXCEPT ![r] = NoTx]
  BY CommitTypeOK DEF Inv
<1>2. /\ Under(r) /\ LockedReferral(r) /\ m \in Members
      /\ t.op = "REGISTER" => referral[m] = "NONE"
      /\ CreditsAreEarned
  BY <1>1 DEF Commit, Under, Inv, LocksHeld, OpenTx
<1>3. /\ t.op # "REGISTER" => referral'[m] = t.referral
      /\ referral[m] \in Qualified => referral'[m] \in Qualified
      /\ referral[m] = "REWARD_PROCESSED" => referral'[m] = "REWARD_PROCESSED"
  BY <1>1, <1>2 DEF ReferralCommitted, LockedReferral, Qualified
<1>4. \A q \in Requests : Under(q)' => q # r /\ Under(q) /\ tx'[q] = tx[q]
  BY <1>1 DEF Under, NoTx, Inv, TypeOK
<1>5. /\ QualifiedReferrals \subseteq QualifiedReferrals'
      /\ QualifiedReferrals' \subseteq Members
  BY <1>1, <1>3 DEF QualifiedReferrals
<1>6. t.awards # {} => m \in QualifiedReferrals'
  BY <1>2, <1>3 DEF LockedReferral, QualifiedReferrals, Qualified
<1>7. ASSUME NEW q \in Requests, Under(q)' PROVE LockedReferral(q)'
  <2>1. /\ q # r /\ Under(q) /\ tx'[q] = tx[q] /\ LockedReferral(q)
        /\ tx[q].member # m /\ tx[q].member \in Members
    BY <1>2, <1>4, <1>7, TxTypes DEF Inv, TypeOK, LocksHeld, OpenTx, Under
  <2>2. referral'[tx[q].member] = referral[tx[q].member]
    BY <1>1, <2>1
  <2>3. /\ Cardinality(QualifiedReferrals \cup {tx[q].member})
             <= Cardinality(QualifiedReferrals' \cup {tx[q].member})
        /\ Cardinality(QualifiedReferrals \cup {tx[q].member}) \in Nat
        /\ Cardinality(QualifiedReferrals' \cup {tx[q].member}) \in Nat
    BY <1>5, <2>1, CountMonotone
  <2>4. tx[q].awards \subseteq Nat
    <3>1. tx[q] \in OpenTx
      BY <2>1, TxTypes DEF Inv, TypeOK, Under
    <3>2. tx[q].awards \subseteq Thresholds
      BY <3>1 DEF OpenTx
    <3> QED BY <3>2, VerificationAssumption DEF VerificationAssumption
  <2>5. \A b \in tx[q].awards :
          b <= Cardinality(QualifiedReferrals' \cup {tx[q].member})
    BY <2>1, <2>3, <2>4 DEF LockedReferral
  <2> QED BY <2>1, <2>2, <2>5 DEF LockedReferral
<1>8. ASSUME NEW q \in Requests, NEW p \in Requests, Under(q)', Under(p)', q # p
      PROVE  tx'[q].member # tx'[p].member
  BY <1>4, <1>8 DEF Inv, LocksHeld
<1>9. \A n \in Members : case'[n].status = "NONE" => referral'[n] = "NONE"
  BY <1>1 DEF Inv, LocksHeld
<1>10. LocksHeld'
  BY <1>7, <1>8, <1>9 DEF LocksHeld
<1>11. ASSUME NEW n \in Members, credits'[n] > 0
       PROVE  approved'[n] /\ referral'[n] = "REWARD_PROCESSED"
  <2>1. CASE n # m
    BY <1>1, <1>2, <1>11, <2>1 DEF CreditsAreEarned
  <2>2. CASE n = m /\ t.pays
    BY <1>1, <1>2, <1>3, <2>2 DEF LockedReferral
  <2>3. CASE n = m /\ ~t.pays
    BY <1>1, <1>2, <1>3, <1>11, <2>3 DEF CreditsAreEarned
  <2> QED BY <2>1, <2>2, <2>3
<1>12. ASSUME NEW b \in Thresholds, bonuses'[b] > 0
       PROVE  Cardinality(QualifiedReferrals') >= b
  <2>1. b \in Nat
    BY VerificationAssumption DEF VerificationAssumption
  <2>2. /\ Cardinality(QualifiedReferrals) <= Cardinality(QualifiedReferrals')
        /\ Cardinality(QualifiedReferrals) \in Nat /\ Cardinality(QualifiedReferrals') \in Nat
    BY <1>5, CountMonotone
  <2>3. CASE b \in t.awards
    <3>1. QualifiedReferrals \cup {m} \subseteq QualifiedReferrals'
      BY <1>5, <1>6, <2>3
    <3>2. /\ Cardinality(QualifiedReferrals \cup {m}) <= Cardinality(QualifiedReferrals')
          /\ Cardinality(QualifiedReferrals \cup {m}) \in Nat
      BY <1>5, <3>1, CountMonotone
    <3>3. b <= Cardinality(QualifiedReferrals \cup {m})
      BY <1>2, <2>3 DEF LockedReferral
    <3> QED BY <2>1, <2>2, <3>2, <3>3
  <2>4. CASE b \notin t.awards
    <3>1. bonuses[b] > 0
      BY <1>1, <1>12, <2>4
    <3>2. Cardinality(QualifiedReferrals) >= b
      BY <1>2, <3>1 DEF CreditsAreEarned, QualifiedReferrals
    <3> QED BY <2>1, <2>2, <3>2
  <2> QED BY <2>3, <2>4
<1>13. CreditsAreEarned'
  BY <1>11, <1>12 DEF CreditsAreEarned, QualifiedReferrals
<1> QED BY <1>1, <1>10, <1>13 DEF Inv

LEMMA InitInv == Init => Inv
<1> SUFFICES ASSUME Init PROVE Inv
  OBVIOUS
<1>1. TypeOK
  BY InitTypeOK
<1>2. LocksHeld
  BY DEF Init, LocksHeld, Under, NoTx
<1>3. CreditsAreEarned
  BY DEF Init, CreditsAreEarned
<1> QED BY <1>1, <1>2, <1>3 DEF Inv

LEMMA NextInv == Inv /\ [Next]_vars => Inv'
<1> SUFFICES ASSUME Inv, [Next]_vars PROVE Inv'
  OBVIOUS
<1>0. TypeOK /\ TypeOK'
  BY NextTypeOK DEF Inv
<1>1. CASE CreateRewardRule \/ RewardRuleLapses
  BY <1>0, <1>1, TablesKept DEF CreateRewardRule, RewardRuleLapses
<1>2. ASSUME NEW r \in Requests,
             /\ UNCHANGED <<case, papers, approved, referral, credits, bonuses, Rules, overlap>>
             /\ tx'[r].stage = "READ" /\ \A q \in Requests \ {r} : tx'[q] = tx[q]
      PROVE  Inv'
  <2>1. \A q \in Requests : tx'[q].stage = "UPDATED" => tx'[q] = tx[q]
    BY <1>2
  <2> QED BY <1>0, <1>2, <2>1, TablesKept
<1>3. ASSUME NEW r \in Requests, Rollback(r) PROVE Inv'
  <2>1. \A q \in Requests : tx'[q].stage = "UPDATED" => tx'[q] = tx[q]
    BY <1>0, <1>3 DEF Rollback, NoTx, TypeOK
  <2> QED BY <1>0, <1>3, <2>1, TablesKept DEF Rollback
<1>4. CASE UNCHANGED vars
  BY <1>0, <1>4, TablesKept DEF vars
<1> QED BY <1>0, <1>1, <1>2, <1>3, <1>4, ReadType, UpdateInv, CommitInv DEF Next

\* Points are never minted without a cause: an approval and a settled referral, or as
\* many qualified referrals as the milestone asks for.
THEOREM CreditsEarned == Spec => []CreditsAreEarned
<1>1. Inv => CreditsAreEarned
  BY DEF Inv
<1> QED BY <1>1, InitInv, NextInv, PTL DEF Spec

-------------------------------------------------------------------------------
(* Requests that do not overlap *)

OneOpen == \A r, q \in Requests :
  tx[r].stage # "IDLE" /\ tx[q].stage # "IDLE" => r = q

\* What the open transaction has decided about its member's referral.
Settles(t) ==
  /\ t.to \notin Final => t.referral = referral[t.member]
  /\ t.to = "VERIFIED" => t.referral # "PENDING_VERIFICATION"
  /\ t.to = "REJECTED" => t.referral \in {"NONE", "REJECTED"}
  /\ t.referral = "REWARD_PROCESSED" /\ referral[t.member] # "REWARD_PROCESSED" => t.pays
  /\ t.pays => {b \in milestones : b <= Reached(t.member)} \subseteq t.awards

\* What the open transaction read of its member's case is still true of it.
Fits(t) ==
  /\ t.op = "REGISTER" => /\ t.to \in {"PENDING", "NOT_SUBMITTED"}
                          /\ case[t.member].status = "NONE"
  /\ t.op = "SUBMIT" => /\ t.to = "PENDING"
                        /\ case[t.member].status \notin {"NONE", "VERIFIED"}
  /\ t.op \in {"REGISTER", "SUBMIT"} /\ t.doc # None /\ Duplicate(t.member, t.doc) => t.flag
  /\ t.op = "CLAIM" => /\ t.to = "UNDER_REVIEW"
                       /\ case[t.member].status \in {"PENDING", "UNDER_REVIEW"}
  /\ t.op = "DECIDE" => /\ t.to \in Final \cup {"RESUBMISSION_REQUIRED"}
                        /\ case[t.member].status \notin Final \cup {"NONE"}
  /\ t.stage = "UPDATED" => Settles(t)

AllFit == \A r \in Requests : tx[r].stage # "IDLE" => Fits(tx[r])

\* A case and its referral are settled together, and its document is on file.
CasesFit == \A m \in Members :
  /\ referral[m] \in Qualified => case[m].status = "VERIFIED"
  /\ case[m].status = "VERIFIED" => referral[m] # "PENDING_VERIFICATION"
  /\ case[m].status = "REJECTED" => referral[m] \in {"NONE", "REJECTED"}
  /\ case[m].doc # None => case[m].doc \in papers[m]

SerialInv ==
  /\ Inv
  /\ Serial => OneOpen /\ AllFit /\ CasesFit
  /\ SharedDocumentFlagged

\* Reads stay true while the tables they were made of do.
LEMMA FitsKept ==
  ASSUME NEW t, Fits(t), UNCHANGED <<case, papers, referral>>, milestones' \subseteq milestones
  PROVE  Fits(t)'
BY DEF Fits, Settles, Duplicate, Reached

\* A step that leaves the tables, and leaves or ends every transaction.
LEMMA SerialKept ==
  ASSUME SerialInv, Inv', UNCHANGED <<case, papers, referral, overlap>>,
         milestones' \subseteq milestones,
         \A r \in Requests : tx'[r].stage = "IDLE" \/ tx'[r] = tx[r]
  PROVE  SerialInv'
<1>1. SharedDocumentFlagged'
  BY DEF SerialInv, SharedDocumentFlagged, Serial
<1>2. Serial' => Serial /\ OneOpen' /\ CasesFit'
  BY DEF SerialInv, Serial, OneOpen, CasesFit
<1>3. ASSUME Serial, NEW r \in Requests, tx'[r].stage # "IDLE" PROVE Fits(tx[r])'
  <2>1. PICK t : t = tx[r] /\ t = tx'[r] /\ Fits(t)
    BY <1>3 DEF SerialInv, AllFit
  <2>2. Fits(t)'
    BY <2>1, FitsKept
  <2> QED BY <2>1, <2>2
<1> QED BY <1>1, <1>2, <1>3 DEF SerialInv, AllFit

\* A step that leaves the tables and gives the only open slot a fitting transaction.
LEMMA SerialSlot ==
  ASSUME SerialInv, Inv', UNCHANGED <<case, papers, referral, overlap>>,
         milestones' \subseteq milestones,
         NEW r \in Requests, NEW t, tx'[r] = t, Serial => Fits(t),
         Serial => \A q \in Requests \ {r} : tx'[q].stage = "IDLE"
  PROVE  SerialInv'
<1>1. SharedDocumentFlagged'
  BY DEF SerialInv, SharedDocumentFlagged, Serial
<1>2. Serial' => Serial /\ OneOpen' /\ CasesFit'
  BY DEF SerialInv, Serial, OneOpen, CasesFit
<1>3. ASSUME Serial PROVE Fits(tx[r])'
  BY <1>3, FitsKept
<1> QED BY <1>1, <1>2, <1>3 DEF SerialInv, AllFit

\* Handlers read what they check, and no transaction is open beside them.
LEMMA ReadSerial ==
  ASSUME SerialInv, Inv', NEW r \in Requests,
         \/ \E m \in Members : ReadRegisterWithoutDocument(r, m)
         \/ \E m \in Members, d \in Documents : \/ ReadRegister(r, m, d)
                                                \/ ReadResubmit(r, m, d)
                                                \/ ReadSubmit(r, m, d)
         \/ \E v \in Validators, m \in Members :
              \/ ReadClaim(r, v, m)
              \/ \E to \in Final \cup {"RESUBMISSION_REQUIRED"} : ReadDecide(r, v, m, to)
  PROVE  SerialInv'
<1> USE DEF Final
<1>0. TypeOK
  BY DEF SerialInv, Inv
<1>1. ASSUME NEW op, NEW m \in Members, NEW v, NEW d, NEW to, NEW flag,
             Free(r, op), Open(r, op, m, v, d, to, flag),
             op = "REGISTER" => /\ to \in {"PENDING", "NOT_SUBMITTED"}
                                /\ case[m].status = "NONE",
             op = "SUBMIT" => to = "PENDING" /\ case[m].status \notin {"NONE", "VERIFIED"},
             op \in {"REGISTER", "SUBMIT"} /\ d # None /\ Duplicate(m, d) => flag,
             op = "CLAIM" => /\ to = "UNDER_REVIEW"
                             /\ case[m].status \in {"PENDING", "UNDER_REVIEW"},
             op = "DECIDE" => /\ to \in Final \cup {"RESUBMISSION_REQUIRED"}
                              /\ case[m].status \notin Final \cup {"NONE"}
      PROVE  SerialInv'
  <2>1. PICK t : t = [stage |-> "READ", op |-> op, member |-> m, by |-> v, doc |-> d,
                      to |-> to, flag |-> flag, referral |-> "NONE", pays |-> FALSE,
                      awards |-> {}]
    OBVIOUS
  <2>2. Fits(t)
    <3>1. /\ t.stage = "READ" /\ t.op = op /\ t.member = m /\ t.doc = d /\ t.to = to
          /\ t.flag = flag
      BY <2>1
    <3> QED BY <1>1, <3>1 DEF Fits
  <2>3. /\ UNCHANGED <<case, papers, referral, overlap>> /\ milestones' \subseteq milestones
        /\ tx'[r] = t /\ \A q \in Requests \ {r} : tx'[q] = tx[q]
    BY <1>0, <1>1, <2>1 DEF Open, TypeOK
  <2>4. Serial => \A q \in Requests \ {r} : tx'[q].stage = "IDLE"
    BY <1>1, <2>3 DEF Free, Serial
  <2> QED BY <2>2, <2>3, <2>4, SerialSlot
<1>2. ASSUME NEW m \in Members, ReadRegisterWithoutDocument(r, m) PROVE SerialInv'
  BY <1>1, <1>2 DEF ReadRegisterWithoutDocument
<1>3. ASSUME NEW m \in Members, NEW d \in Documents, ReadRegister(r, m, d)
      PROVE  SerialInv'
  BY <1>1, <1>3 DEF ReadRegister
<1>4. ASSUME NEW m \in Members, NEW d \in Documents,
             ReadResubmit(r, m, d) \/ ReadSubmit(r, m, d)
      PROVE  SerialInv'
  BY <1>1, <1>4 DEF ReadResubmit, ReadSubmit, MayResubmit, MaySubmit
<1>5. ASSUME NEW v \in Validators, NEW m \in Members, ReadClaim(r, v, m) PROVE SerialInv'
  BY <1>1, <1>5 DEF ReadClaim
<1>6. ASSUME NEW v \in Validators, NEW m \in Members,
             NEW to \in Final \cup {"RESUBMISSION_REQUIRED"}, ReadDecide(r, v, m, to)
      PROVE  SerialInv'
  BY <1>1, <1>6 DEF ReadDecide, MayDecide
<1> QED BY <1>2, <1>3, <1>4, <1>5, <1>6

\* Only one slot is open, and its member's case is not verified.
LEMMA OpenFacts ==
  ASSUME SerialInv, Serial, NEW r \in Requests, tx[r].stage # "IDLE"
  PROVE  /\ tx[r] \in OpenTx /\ tx[r].member \in Members /\ Fits(tx[r])
         /\ \A q \in Requests \ {r} : tx[q].stage = "IDLE"
         /\ referral[tx[r].member] \notin Qualified
         /\ tx[r].to \in Final => tx[r].op = "DECIDE"
<1>1. tx[r] \in OpenTx
  BY TxTypes DEF SerialInv, Inv, TypeOK
<1>2. tx[r].member \in Members /\ tx[r].op \in Handlers
  BY <1>1 DEF OpenTx
<1>3. Fits(tx[r])
  BY DEF SerialInv, AllFit
<1>4. case[tx[r].member].status # "VERIFIED"
  BY <1>2, <1>3 DEF Fits, Handlers, Final
<1> QED BY <1>1, <1>2, <1>3, <1>4 DEF SerialInv, OneOpen, CasesFit, Fits, Handlers, Final

\* Under the row lock the open transaction settles its member's referral.
LEMMA UpdateSerial ==
  ASSUME SerialInv, Inv', NEW r \in Requests, Update(r) PROVE SerialInv'
<1>0. TypeOK
  BY DEF SerialInv, Inv
<1>1. /\ UNCHANGED <<case, papers, referral, overlap>> /\ milestones' \subseteq milestones
      /\ tx[r].stage = "READ"
      /\ \A q \in Requests \ {r} : tx'[q] = tx[q]
  BY <1>0, UpdateTx DEF Update
<1>2. PICK m : m = tx[r].member
  OBVIOUS
<1>3. PICK t : t = tx'[r]
  OBVIOUS
<1>4. tx[r] \in OpenTx /\ m \in Members /\ tx[r].to \in Status
  BY <1>0, <1>1, <1>2, TxTypes DEF TypeOK, OpenTx
<1>5. /\ t.stage = "UPDATED" /\ t.op = tx[r].op /\ t.member = m /\ t.to = tx[r].to
      /\ t.doc = tx[r].doc /\ t.flag = tx[r].flag
      /\ t.op = "DECIDE" => /\ t.referral = ReferralAfter(m, t.to)
                            /\ t.pays = Pays(m, t.to) /\ t.awards = Awards(m, t.to)
      /\ t.op # "DECIDE" => t.referral = referral[m] /\ t.pays = FALSE
  <2> DEFINE decides == tx[r].op = "DECIDE"
             after == IF decides THEN ReferralAfter(m, tx[r].to) ELSE referral[m]
             pays == decides /\ Pays(m, tx[r].to)
             awards == IF decides THEN Awards(m, tx[r].to) ELSE {}
             u == [tx[r] EXCEPT !.stage = "UPDATED", !.referral = after, !.pays = pays,
                                !.awards = awards]
  <2>1. tx' = [tx EXCEPT ![r].stage = "UPDATED", ![r].referral = after, ![r].pays = pays,
                         ![r].awards = awards]
    BY <1>2 DEF Update
  <2>2. /\ decides => after = ReferralAfter(m, tx[r].to) /\ awards = Awards(m, tx[r].to)
        /\ ~decides => after = referral[m]
    OBVIOUS
  <2>3. (decides => pays = Pays(m, tx[r].to)) /\ (~decides => pays = FALSE)
    <3>1. Pays(m, tx[r].to) \in BOOLEAN
      BY <1>0, <1>4, ReferralAfterFacts
    <3> QED BY <3>1
  <2> HIDE DEF after, pays, awards
  <2>4. tx' = [tx EXCEPT ![r] = u]
    BY <1>0, <2>1 DEF TypeOK
  <2>5. t = u
    BY <1>0, <1>3, <2>4 DEF TypeOK
  <2>6. /\ u.stage = "UPDATED" /\ u.op = tx[r].op /\ u.member = m /\ u.to = tx[r].to
        /\ u.doc = tx[r].doc /\ u.flag = tx[r].flag
        /\ u.referral = after /\ u.pays = pays /\ u.awards = awards
    BY <1>2, <1>4 DEF OpenTx
  <2> QED BY <2>2, <2>3, <2>5, <2>6
<1>6. ASSUME Serial PROVE Fits(t)
  <2>1. /\ Fits(tx[r]) /\ referral[m] \notin Qualified
        /\ t.to \in Final => t.op = "DECIDE"
    BY <1>1, <1>2, <1>5, <1>6, OpenFacts
  <2>2. ASSUME t.op # "DECIDE" PROVE Settles(t)
    BY <1>5, <2>1, <2>2 DEF Settles, Qualified, Final
  <2>3. ASSUME t.op = "DECIDE" PROVE Settles(t)
    <3>1. t.to \in Final \cup {"RESUBMISSION_REQUIRED"} /\ referral[m] \in ReferralStatus
      <4>1. t.to \in Final \cup {"RESUBMISSION_REQUIRED"}
        BY <1>5, <2>1, <2>3 DEF Fits
      <4>2. referral[m] \in ReferralStatus
        BY <1>0, <1>4 DEF TypeOK
      <4> QED BY <4>1, <4>2
    <3>2. t.to = "VERIFIED" => t.referral # "PENDING_VERIFICATION"
      BY <1>5, <2>3, <3>1 DEF ReferralAfter, Rewarded, Qualified
    <3>3. t.to = "REJECTED" => t.referral \in {"NONE", "REJECTED"}
      BY <1>5, <2>1, <2>3, <3>1 DEF ReferralAfter, ReferralStatus
    <3>4. t.to \notin Final => t.referral = referral[m]
      BY <1>5, <2>3 DEF ReferralAfter, Final
    <3>5. t.referral = "REWARD_PROCESSED" /\ referral[m] # "REWARD_PROCESSED" => t.pays
      BY <1>5, <2>3, <3>1 DEF ReferralAfter, Rewarded, Pays
    <3>6. t.pays => {b \in milestones : b <= Reached(m)} \subseteq t.awards
      BY <1>5, <2>3 DEF Awards
    <3> QED BY <1>5, <3>2, <3>3, <3>4, <3>5, <3>6 DEF Settles
  <2>4. /\ tx[r].op = t.op /\ tx[r].to = t.to /\ tx[r].member = t.member
        /\ tx[r].doc = t.doc /\ tx[r].flag = t.flag
    BY <1>2, <1>5
  <2> QED BY <2>1, <2>2, <2>3, <2>4 DEF Fits
<1>7. Serial => \A q \in Requests \ {r} : tx'[q].stage = "IDLE"
  BY <1>1, OpenFacts
<1> QED BY <1>1, <1>3, <1>6, <1>7, SerialSlot

\* What a commit makes of its member's case and papers.
LEMMA CommitCase ==
  ASSUME TypeOK, NEW r \in Requests, Commit(r)
  PROVE  LET t == tx[r]
             m == tx[r].member IN
         /\ m \in Members
         /\ case'[m].status = t.to
         /\ t.op \in {"REGISTER", "SUBMIT"} =>
              case'[m].doc = t.doc /\ case'[m].flagged = t.flag
         /\ t.op \notin {"REGISTER", "SUBMIT"} =>
              case'[m].doc = case[m].doc /\ case'[m].flagged = case[m].flagged
         /\ t.doc # None => t.doc \in papers'[m]
         /\ papers[m] \subseteq papers'[m]
         /\ \A n \in Members \ {m} : papers'[n] = papers[n]
         /\ UNCHANGED <<Rules, overlap>>
<1>1. PICK t : t = tx[r]
  OBVIOUS
<1>2. PICK m : m = t.member
  OBVIOUS
<1>3. t \in OpenTx /\ m \in Members
  BY <1>1, <1>2, CommitTypeOK DEF OpenTx
<1>4. /\ case' = [case EXCEPT ![m] = CaseAfter(t)]
      /\ papers' = [papers EXCEPT ![m] = @ \cup ({t.doc} \ {None})]
      /\ UNCHANGED <<Rules, overlap>>
  BY <1>1, <1>2 DEF Commit
<1>5. case'[m] = CaseAfter(t)
  BY <1>3, <1>4 DEF TypeOK
<1>6. /\ t.doc # None => t.doc \in papers'[m]
      /\ papers[m] \subseteq papers'[m]
      /\ \A n \in Members \ {m} : papers'[n] = papers[n]
  BY <1>3, <1>4 DEF TypeOK
<1>7. case[m] \in [status : Status, reviewer : Validators \cup {None},
                   flagged : BOOLEAN, doc : Documents \cup {None}]
  BY <1>3 DEF TypeOK
<1>8. CASE t.op \in {"REGISTER", "SUBMIT"}
  BY <1>1, <1>2, <1>3, <1>4, <1>5, <1>6, <1>8 DEF CaseAfter
<1>9. CASE t.op \notin {"REGISTER", "SUBMIT"}
  <2>1. CaseAfter(t) = [case[m] EXCEPT !.status = t.to, !.reviewer = t.by]
    BY <1>2, <1>9 DEF CaseAfter
  <2>2. /\ case'[m].status = t.to /\ case'[m].doc = case[m].doc
        /\ case'[m].flagged = case[m].flagged
    BY <1>5, <1>7, <2>1
  <2> QED BY <1>1, <1>2, <1>3, <1>4, <1>6, <1>9, <2>2
<1> QED BY <1>8, <1>9

\* A commit writes what the only open transaction read and decided.
LEMMA CommitSerial ==
  ASSUME SerialInv, Inv', NEW r \in Requests, Commit(r) PROVE SerialInv'
<1>0. TypeOK
  BY DEF SerialInv, Inv
<1>1. PICK t : t = tx[r] /\ t.stage = "UPDATED"
  BY DEF Commit
<1>2. PICK m : m = t.member
  OBVIOUS
<1>3. /\ t \in OpenTx /\ m \in Members
      /\ \A n \in Members \ {m} : /\ case'[n] = case[n] /\ referral'[n] = referral[n]
                                  /\ papers'[n] = papers[n]
      /\ referral'[m] = ReferralCommitted(t)
      /\ tx' = [tx EXCEPT ![r] = NoTx]
      /\ overlap' = overlap
  BY <1>0, <1>1, <1>2, CommitTypeOK, CommitCase
<1>4. /\ case'[m].status = t.to
      /\ t.op \in {"REGISTER", "SUBMIT"} =>
           case'[m].doc = t.doc /\ case'[m].flagged = t.flag
      /\ t.op \notin {"REGISTER", "SUBMIT"} =>
           case'[m].doc = case[m].doc /\ case'[m].flagged = case[m].flagged
      /\ t.doc # None => t.doc \in papers'[m]
      /\ papers[m] \subseteq papers'[m]
  BY <1>0, <1>1, <1>2, CommitCase
<1>5. ASSUME Serial
      PROVE  /\ Fits(t) /\ Settles(t) /\ referral[m] \notin Qualified
             /\ t.to \in Final => t.op = "DECIDE"
             /\ \A q \in Requests : tx'[q].stage = "IDLE"
  <2>1. /\ Fits(t) /\ referral[m] \notin Qualified
        /\ t.to \in Final => t.op = "DECIDE"
        /\ \A q \in Requests \ {r} : tx[q].stage = "IDLE"
    BY <1>1, <1>2, <1>5, OpenFacts
  <2>2. \A q \in Requests : tx'[q].stage = "IDLE"
    BY <1>0, <1>3, <2>1 DEF TypeOK, NoTx
  <2> QED BY <1>1, <2>1, <2>2 DEF Fits
<1>6. ASSUME Serial PROVE CasesFit'
  <2>1. CasesFit
    BY <1>6 DEF SerialInv
  <2>2. ASSUME NEW n \in Members \ {m}
        PROVE  /\ referral'[n] \in Qualified => case'[n].status = "VERIFIED"
               /\ case'[n].status = "VERIFIED" => referral'[n] # "PENDING_VERIFICATION"
               /\ case'[n].status = "REJECTED" => referral'[n] \in {"NONE", "REJECTED"}
               /\ case'[n].doc # None => case'[n].doc \in papers'[n]
    BY <1>3, <2>1, <2>2 DEF CasesFit
  <2>3. t.op = "REGISTER" => /\ t.to \in {"PENDING", "NOT_SUBMITTED"}
                             /\ referral'[m] \notin Qualified
    BY <1>2, <1>3, <1>5, <1>6 DEF Fits, Settles, ReferralCommitted, Qualified, Final
  <2>4. t.op # "REGISTER" => referral'[m] = t.referral
    BY <1>3 DEF ReferralCommitted
  <2>5. /\ referral'[m] \in Qualified => case'[m].status = "VERIFIED"
        /\ case'[m].status = "VERIFIED" => referral'[m] # "PENDING_VERIFICATION"
        /\ case'[m].status = "REJECTED" => referral'[m] \in {"NONE", "REJECTED"}
    BY <1>2, <1>4, <1>5, <1>6, <2>3, <2>4 DEF Settles, Qualified, Final
  <2>6. case'[m].doc # None => case'[m].doc \in papers'[m]
    BY <1>3, <1>4, <2>1 DEF CasesFit
  <2> QED BY <2>2, <2>5, <2>6 DEF CasesFit
<1>7. ASSUME Serial, NEW n \in Members, NEW p \in Members, n # p,
             case'[n].doc = case'[p].doc, case'[n].doc # None
      PROVE  case'[n].flagged \/ case'[p].flagged
  <2>1. ASSUME NEW q \in Members \ {m}, case'[m].doc = case[q].doc, case[q].doc # None
        PROVE  case'[m].flagged \/ case[q].flagged
    <3>1. CASE t.op \in {"REGISTER", "SUBMIT"}
      <4>1. t.doc \in papers[q] /\ t.doc # None
        BY <1>4, <1>7, <2>1, <3>1 DEF SerialInv, CasesFit
      <4>2. Duplicate(m, t.doc)
        BY <4>1 DEF Duplicate
      <4> QED BY <1>2, <1>4, <1>5, <1>7, <3>1, <4>1, <4>2 DEF Fits
    <3>2. CASE t.op \notin {"REGISTER", "SUBMIT"}
      BY <1>3, <1>4, <1>7, <2>1, <3>2 DEF SerialInv, SharedDocumentFlagged
    <3> QED BY <3>1, <3>2
  <2>2. CASE n = m
    BY <1>3, <1>7, <2>1, <2>2
  <2>3. CASE p = m
    BY <1>3, <1>7, <2>1, <2>3
  <2>4. CASE n # m /\ p # m
    BY <1>3, <1>7, <2>4 DEF SerialInv, SharedDocumentFlagged
  <2> QED BY <2>2, <2>3, <2>4
<1>8. Serial' => Serial
  BY <1>3 DEF Serial
<1>9. SharedDocumentFlagged'
  BY <1>7, <1>8 DEF SharedDocumentFlagged
<1> QED BY <1>5, <1>6, <1>8, <1>9 DEF SerialInv, OneOpen, AllFit

LEMMA InitSerial == Init => SerialInv
<1> SUFFICES ASSUME Init PROVE SerialInv
  OBVIOUS
<1>1. OneOpen /\ AllFit
  BY DEF Init, OneOpen, AllFit, NoTx
<1>2. CasesFit /\ SharedDocumentFlagged
  BY DEF Init, CasesFit, SharedDocumentFlagged, Qualified
<1> QED BY <1>1, <1>2, InitInv DEF SerialInv

LEMMA NextSerial == SerialInv /\ [Next]_vars => SerialInv'
<1> SUFFICES ASSUME SerialInv, [Next]_vars PROVE SerialInv'
  OBVIOUS
<1>0. TypeOK /\ Inv'
  BY NextInv DEF SerialInv, Inv
<1>1. CASE CreateRewardRule
  <2>1. UNCHANGED <<case, papers, referral, overlap, tx>>
    BY <1>1 DEF CreateRewardRule
  <2>2. Serial => \A q \in Requests : tx[q].stage = "IDLE"
    BY <1>1 DEF CreateRewardRule, Serial
  <2> QED BY <1>0, <2>1, <2>2
          DEF SerialInv, Serial, OneOpen, AllFit, CasesFit, SharedDocumentFlagged
<1>4. CASE RewardRuleLapses
  BY <1>0, <1>4, SerialKept DEF RewardRuleLapses
<1>2. ASSUME NEW r \in Requests, Rollback(r) PROVE SerialInv'
  <2>1. \A q \in Requests : tx'[q].stage = "IDLE" \/ tx'[q] = tx[q]
    BY <1>0, <1>2 DEF Rollback, NoTx, TypeOK
  <2> QED BY <1>0, <1>2, <2>1, SerialKept DEF Rollback
<1>3. CASE UNCHANGED vars
  BY <1>0, <1>3, SerialKept DEF vars
<1> QED BY <1>0, <1>1, <1>2, <1>3, <1>4, ReadSerial, UpdateSerial, CommitSerial DEF Next

\* When requests do not overlap, nobody is credited for a member who is not verified,
\* and a decided case leaves no referral waiting (PATCH .../decision).
THEOREM CreditIsForAVerifiedMember == Spec => []CreditedIsVerified
<1>1. SerialInv => CreditedIsVerified
  BY DEF SerialInv, Inv, CreditsAreEarned, CasesFit, CreditedIsVerified, Qualified
<1> QED BY <1>1, InitSerial, NextSerial, PTL DEF Spec

\* When requests do not overlap, an approval that credits a referral pays every
\* milestone in force that the referrals have reached (processReferralMilestoneBonuses).
LEMMA CommitAwards ==
  ASSUME SerialInv, Serial, NEW r \in Requests, Commit(r),
         NEW n \in Members, NEW b \in milestones, credits'[n] > credits[n],
         Cardinality({p \in Members : referral'[p] \in Qualified}) >= b
  PROVE  bonuses'[b] > 0
<1> DEFINE t == tx[r]
           m == tx[r].member
           Before == {p \in Members : referral[p] \in Qualified}
           After == {p \in Members : referral'[p] \in Qualified}
<1>1. TypeOK /\ t.stage # "IDLE" /\ t.stage = "UPDATED"
  BY DEF SerialInv, Inv, Commit
<1>2. /\ \A p \in Members \ {m} : referral'[p] = referral[p] /\ credits'[p] = credits[p]
      /\ credits'[m] = (IF t.pays THEN Upserted(credits[m]) ELSE credits[m])
      /\ bonuses' = [c \in Thresholds |-> IF c \in t.awards THEN Upserted(bonuses[c])
                                          ELSE bonuses[c]]
  BY <1>1, CommitTypeOK
<1>3. /\ credits[n] \in Nat /\ b \in Thresholds /\ b \in Nat /\ bonuses[b] \in Nat
  BY <1>1, VerificationAssumption DEF VerificationAssumption, TypeOK
<1>4. n = m /\ t.pays
  BY <1>2, <1>3
<1>5. m \in Members /\ {c \in milestones : c <= Reached(m)} \subseteq t.awards
  BY <1>1, <1>4, OpenFacts DEF Fits, Settles
<1>6. After \subseteq Before \cup {m} /\ Before \cup {m} \subseteq Members
  BY <1>2, <1>5
<1>7. Cardinality(After) <= Reached(m) /\ Cardinality(After) \in Nat /\ Reached(m) \in Nat
  BY <1>6, CountMonotone DEF Reached
<1>8. b \in t.awards
  BY <1>3, <1>5, <1>7
<1> QED BY <1>2, <1>3, <1>8 DEF Upserted

\* When requests do not overlap, an approval that pays its referral also pays every
\* milestone in force that the referrer's qualified referrals have reached
\* (processReferralMilestoneBonuses), whenever its rule was created.
THEOREM MilestonesPaid == Spec => MilestonesAwarded
<1>1. SerialInv /\ [Next]_vars =>
        [Serial => \A m \in Members, t \in milestones :
           /\ credits'[m] > credits[m]
           /\ Cardinality({n \in Members : referral'[n] \in Qualified}) >= t
           => bonuses'[t] > 0]_vars
  <2> SUFFICES ASSUME SerialInv, [Next]_vars, Serial, NEW m \in Members, NEW t \in milestones,
                      credits'[m] > credits[m],
                      Cardinality({n \in Members : referral'[n] \in Qualified}) >= t
               PROVE  bonuses'[t] > 0
    OBVIOUS
  <2>1. TypeOK /\ credits[m] \in Nat
    BY DEF SerialInv, Inv, TypeOK
  <2>2. credits' # credits
    BY <2>1
  <2>3. PICK r \in Requests : Commit(r)
    BY <2>1, <2>2, ReadType, UpdateTx
       DEF Next, vars, CreateRewardRule, RewardRuleLapses, Rollback
  <2> QED BY <2>3, CommitAwards
<1> QED BY <1>1, InitSerial, NextSerial, PTL DEF Spec, MilestonesAwarded

\* When requests do not overlap, of two members whose current document is the same one
\* is flagged (the duplicateDocument checks of the submission handlers).
THEOREM DuplicateIsFlagged == Spec => []SharedDocumentFlagged
<1>1. SerialInv => SharedDocumentFlagged
  BY DEF SerialInv
<1> QED BY <1>1, InitSerial, NextSerial, PTL DEF Spec

===============================================================================
