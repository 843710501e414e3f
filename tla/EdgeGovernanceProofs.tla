------------------------- MODULE EdgeGovernanceProofs -------------------------
(***************************************************************************)
(* Proofs about EdgeGovernance, for any wards, members, releases and       *)
(* constituencies, however imports, decisions, registrations and repairs   *)
(* interleave.                                                             *)
(*                                                                         *)
(* An approval is carried by two copies of a row: the committed one and    *)
(* the one an import has staged.  The lock that came with the staged copy  *)
(* keeps decisions away, so both stay what the last review made them.      *)
(***************************************************************************)
EXTENDS EdgeGovernance, TLAPS

\* A row that carries an approval carries the last decision.
Supported(row, decisions) ==
  row.approvedFor # None =>
    /\ decisions # <<>>
    /\ decisions[Len(decisions)].outcome = "APPROVED"
    /\ decisions[Len(decisions)].constituency = row.approvedFor

ImportShape == importing.release = None => importing.at = None /\ importing.done = {}

RowsSupported ==
  \A w \in Wards : Admitted(ward[w]) /\ Supported(ward[w], reviews[w])

StagedSupported ==
  \A w \in Wards : importing.staged[w] # None =>
    Admitted(importing.staged[w]) /\ Supported(importing.staged[w], reviews[w])

\* The decisions on one edge of a ward, and the newest of them: it was recorded last
\* and is dated after all others.
DecisionsOn(w, c, b, r) ==
  {i \in 1..Len(reviews[w]) : /\ reviews[w][i].constituency = c
                              /\ reviews[w][i].release = r
                              /\ reviews[w][i].basis = b}

NewestIsLast ==
  \A w \in Wards, c \in Constituencies, b \in Bases, r \in Releases :
    DecisionsOn(w, c, b, r) # {} =>
      \E i \in DecisionsOn(w, c, b, r) :
        \A j \in DecisionsOn(w, c, b, r) \ {i} :
          j < i /\ reviews[w][j].decidedAt < reviews[w][i].decidedAt

BackfillShape ==
  /\ backfill.step = "READ" => backfill.read \in [Wards -> WardRow]
  /\ \A m \in Members : backfill.change[m] # None => profile[m] # NoProfile

Inv ==
  /\ TypeOK /\ ImportShape /\ BackfillShape
  /\ RowsSupported /\ StagedSupported /\ NewestIsLast

-------------------------------------------------------------------------------
(* Types *)

\* Operational edges are edges.
LEMMA OperationalEdges ==
  ASSUME NEW rows \in [Wards -> WardRow]
  PROVE  Operational(rows) \subseteq Wards \X Constituencies
<1>1. \A w \in Wards : rows[w].constituency \in Constituencies
  BY DEF WardRow
<1>2. \A e \in Operational(rows) : \E w \in Wards : e = <<w, rows[w].constituency>>
  BY DEF Operational
<1> QED BY <1>1, <1>2

\* What an import makes of a row is a row.
LEMMA ImportedRow ==
  ASSUME TypeOK, ImportShape, NEW w \in Wards, importing.at = w
  PROVE  /\ importing.release \in Releases
         /\ Imported(w) \in WardRow
         /\ Imported(w).approvedFor =
              (IF Locked(w) THEN importing.staged[w] ELSE ward[w]).approvedFor
<1> USE EdgeAssumption DEF EdgeAssumption
<1>1. importing.release \in Releases
  BY DEF TypeOK, ImportShape
<1>2. Edge[importing.release][w] \in EdgeRow
  BY <1>1
<1> DEFINE row == IF Locked(w) THEN importing.staged[w] ELSE ward[w]
           edge == Edge[importing.release][w]
<1>3. row \in WardRow
  BY DEF TypeOK, Locked
<1>4. Imported(w) = [row EXCEPT !.constituency = edge.constituency, !.basis = edge.basis,
                                !.release = importing.release]
  BY DEF Imported
<1> HIDE DEF row, edge
<1>5. edge \in EdgeRow
  BY <1>2 DEF edge
<1>6. Imported(w) \in WardRow /\ Imported(w).approvedFor = row.approvedFor
  BY <1>1, <1>3, <1>4, <1>5 DEF WardRow, EdgeRow
<1> QED BY <1>1, <1>6 DEF row

\* The parts of the import's record, when one row of it is written.
LEMMA StagedRow ==
  ASSUME TypeOK, NEW w \in Wards, NEW row \in WardRow \cup {None},
         NEW a \in Wards \cup {None}, NEW d \in SUBSET Wards,
         importing' = [importing EXCEPT !.at = a, !.done = d, !.staged[w] = row]
  PROVE  /\ importing' \in [release : Releases \cup {None}, at : Wards \cup {None},
                            done : SUBSET Wards, staged : [Wards -> WardRow \cup {None}]]
         /\ importing'.release = importing.release
         /\ importing'.at = a /\ importing'.done = d
         /\ importing'.staged = [importing.staged EXCEPT ![w] = row]
BY DEF TypeOK

LEMMA InitInv == Init => Inv
<1> SUFFICES ASSUME Init PROVE Inv
  OBVIOUS
<1> USE EdgeAssumption DEF EdgeAssumption, Init
<1>1. PICK r \in Releases :
        ward = [w \in Wards |-> [constituency |-> Edge[r][w].constituency, release |-> r,
                                 basis |-> Edge[r][w].basis, approvedFor |-> None]]
  OBVIOUS
<1>2. \A w \in Wards : Edge[r][w] \in EdgeRow
  OBVIOUS
<1>3. ward \in [Wards -> WardRow] /\ \A w \in Wards : ward[w].approvedFor = None
  BY <1>1, <1>2 DEF EdgeRow, WardRow
<1>4. trusted \subseteq Wards \X Constituencies
  BY <1>3, OperationalEdges
<1>5. profile \in [Members -> {NoProfile} \cup
        [ward : Wards, constituency : Constituencies \cup {None}, derived : BOOLEAN]]
  OBVIOUS
<1>6. TypeOK
  BY <1>3, <1>4, <1>5 DEF TypeOK, NoImport, NoBackfill
<1>7. NewestIsLast
  BY DEF NewestIsLast, DecisionsOn
<1> QED BY <1>3, <1>6, <1>7 DEF Inv, ImportShape, BackfillShape, RowsSupported, StagedSupported,
     Admitted, Supported, NoImport, NoBackfill

-------------------------------------------------------------------------------
(* Decisions *)

LEMMA DecisionsDated ==
  ASSUME TypeOK, NEW w \in Wards
  PROVE  \A j \in About(w) : j \in Nat /\ reviews[w][j].decidedAt \in Nat
<1>1. reviews[w] \in Seq(Review)
  BY DEF TypeOK
<1>2. \A j \in 1..Len(reviews[w]) : reviews[w][j] \in Review
  BY <1>1
<1>3. \A j \in 1..Len(reviews[w]) : j \in Nat /\ reviews[w][j].decidedAt \in Nat
  BY <1>1, <1>2 DEF Review
<1>4. About(w) \subseteq 1..Len(reviews[w])
  BY DEF About
<1> QED BY <1>3, <1>4

\* The decision shown for a ward is the newest on its current edge.
LEMMA CurrentDecision ==
  ASSUME TypeOK, NewestIsLast, NEW w \in Wards, About(w) # {}, inferred(ward[w])
  PROVE  \E i \in About(w) :
           /\ currentDecisionFor(w) = reviews[w][i]
           /\ \A j \in About(w) \ {i} :
                j < i /\ reviews[w][j].decidedAt < reviews[w][i].decidedAt
<1>1. ward[w] \in WardRow /\ reviews[w] \in Seq(Review)
  BY DEF TypeOK
<1>2. /\ ward[w].constituency \in Constituencies
      /\ ward[w].basis \in Bases /\ ward[w].release \in Releases
  BY <1>1 DEF WardRow, inferred
<1>3. About(w) = DecisionsOn(w, ward[w].constituency, ward[w].basis, ward[w].release)
  BY DEF About, DecisionsOn
<1>4. PICK i \in About(w) : \A j \in About(w) \ {i} :
        j < i /\ reviews[w][j].decidedAt < reviews[w][i].decidedAt
  BY <1>2, <1>3 DEF NewestIsLast
<1>5. \A j \in About(w) : j \in Nat /\ reviews[w][j].decidedAt \in Nat
  BY DecisionsDated
<1>6. \A k \in About(w) :
        (\A j \in About(w) : reviews[w][j].decidedAt <= reviews[w][k].decidedAt) <=> k = i
  BY <1>4, <1>5
<1>7. i = CHOOSE k \in About(w) :
        \A j \in About(w) : reviews[w][j].decidedAt <= reviews[w][k].decidedAt
  BY <1>6
<1> QED BY <1>4, <1>7 DEF currentDecisionFor

\* A decision is dated after every other on the same edge.
LEMMA DecidedAfter ==
  ASSUME TypeOK, NewestIsLast, NEW w \in Wards, NEW now \in 0..MaxClock, inferred(ward[w])
  PROVE  /\ DecidedAt(w, now) \in Nat
         /\ \A j \in About(w) : reviews[w][j].decidedAt < DecidedAt(w, now)
<1> USE EdgeAssumption DEF EdgeAssumption
<1>1. \A j \in About(w) : reviews[w][j].decidedAt \in Nat
  BY DecisionsDated
<1>2. CASE About(w) = {}
  BY <1>2 DEF DecidedAt
<1>3. CASE About(w) # {}
  <2>1. PICK i \in About(w) :
          /\ currentDecisionFor(w) = reviews[w][i]
          /\ \A j \in About(w) \ {i} :
               j < i /\ reviews[w][j].decidedAt < reviews[w][i].decidedAt
    BY <1>3, CurrentDecision
  <2>2. DecidedAt(w, now) \in Nat /\ reviews[w][i].decidedAt < DecidedAt(w, now)
    BY <1>1, <1>3, <2>1 DEF DecidedAt
  <2> QED BY <1>1, <2>1, <2>2
<1> QED BY <1>2, <1>3

\* One decision: the review it appends and the row it leaves.
LEMMA DecideRow ==
  ASSUME TypeOK, NewestIsLast, NEW w \in Wards, NEW c \in Constituencies,
         NEW outcome \in {"APPROVED", "REJECTED"}, NEW now \in 0..MaxClock,
         Decide(w, c, outcome, now)
  PROVE  /\ ward' \in [Wards -> WardRow]
         /\ reviews' \in [Wards -> Seq(Review)]
         /\ \A x \in Wards \ {w} : ward'[x] = ward[x] /\ reviews'[x] = reviews[x]
         /\ ward'[w].constituency = c /\ ward'[w].basis = ward[w].basis
         /\ ward'[w].release = ward[w].release
         /\ ward'[w].approvedFor = (IF outcome = "APPROVED" THEN c ELSE None)
         /\ inferred(ward[w]) /\ ward[w].constituency = c /\ ~Locked(w)
         /\ \E e \in Review :
              /\ reviews'[w] = Append(reviews[w], e)
              /\ e.constituency = c /\ e.basis = ward[w].basis
              /\ e.release = ward[w].release /\ e.outcome = outcome
              /\ \A j \in About(w) : reviews[w][j].decidedAt < e.decidedAt
<1> DEFINE e == [constituency |-> c, basis |-> ward[w].basis, release |-> ward[w].release,
                 outcome |-> outcome, decidedAt |-> DecidedAt(w, now)]
           a == ApprovedFor(w, c, outcome)
<1>1. /\ inferred(ward[w]) /\ ward[w].constituency = c /\ ~Locked(w)
      /\ reviews' = [reviews EXCEPT ![w] = Append(@, e)]
      /\ ward' = [ward EXCEPT ![w].approvedFor = a]
  BY DEF Decide
<1>2. a = (IF outcome = "APPROVED" THEN c ELSE None)
  BY DEF ApprovedFor
<1>3. ward[w] \in WardRow /\ reviews[w] \in Seq(Review)
  BY DEF TypeOK
<1>4. e \in Review
  BY <1>1, <1>3, DecidedAfter DEF WardRow, Review, inferred
<1>5. [ward[w] EXCEPT !.approvedFor = a] \in WardRow
  BY <1>2, <1>3 DEF WardRow
<1>6. \A j \in About(w) : reviews[w][j].decidedAt < e.decidedAt
  BY <1>1, DecidedAfter
<1>7. /\ e.constituency = c /\ e.basis = ward[w].basis
      /\ e.release = ward[w].release /\ e.outcome = outcome
  OBVIOUS
<1> HIDE DEF e, a
<1>8. /\ ward' \in [Wards -> WardRow]
      /\ \A x \in Wards \ {w} : ward'[x] = ward[x]
      /\ ward'[w] = [ward[w] EXCEPT !.approvedFor = a]
  BY <1>1, <1>5 DEF TypeOK
<1>9. /\ reviews' \in [Wards -> Seq(Review)]
      /\ \A x \in Wards \ {w} : reviews'[x] = reviews[x]
      /\ reviews'[w] = Append(reviews[w], e)
  BY <1>1, <1>3, <1>4 DEF TypeOK
<1>10. /\ ward'[w].constituency = c /\ ward'[w].basis = ward[w].basis
       /\ ward'[w].release = ward[w].release /\ ward'[w].approvedFor = a
  BY <1>1, <1>3, <1>8 DEF WardRow
<1> QED BY <1>1, <1>2, <1>4, <1>6, <1>7, <1>8, <1>9, <1>10

LEMMA AppendFacts ==
  ASSUME NEW s \in Seq(Review), NEW e \in Review
  PROVE  /\ Append(s, e) # <<>> /\ Len(Append(s, e)) = Len(s) + 1 /\ Len(s) \in Nat
         /\ Append(s, e)[Len(s) + 1] = e
         /\ \A i \in 1..Len(s) : Append(s, e)[i] = s[i]
OBVIOUS

LEMMA DecideNewest ==
  ASSUME TypeOK, NewestIsLast, NEW w \in Wards, NEW e \in Review,
         \A x \in Wards \ {w} : reviews'[x] = reviews[x],
         reviews'[w] = Append(reviews[w], e),
         e.constituency = ward[w].constituency, e.basis = ward[w].basis,
         e.release = ward[w].release,
         \A j \in About(w) : reviews[w][j].decidedAt < e.decidedAt
  PROVE  NewestIsLast'
<1> SUFFICES ASSUME NEW x \in Wards, NEW c \in Constituencies, NEW b \in Bases,
                    NEW r \in Releases, DecisionsOn(x, c, b, r)' # {}
             PROVE  \E i \in DecisionsOn(x, c, b, r)' :
                      \A j \in DecisionsOn(x, c, b, r)' \ {i} :
                        j < i /\ reviews'[x][j].decidedAt < reviews'[x][i].decidedAt
  BY DEF NewestIsLast
<1>1. CASE x # w
  <2>1. reviews'[x] = reviews[x]
    BY <1>1
  <2>2. DecisionsOn(x, c, b, r)' = DecisionsOn(x, c, b, r)
    BY <2>1 DEF DecisionsOn
  <2> QED BY <2>1, <2>2 DEF NewestIsLast
<1>2. CASE x = w
  <2> DEFINE n == Len(reviews[w])
  <2>1. reviews[w] \in Seq(Review)
    BY DEF TypeOK
  <2>2. /\ n \in Nat /\ Len(reviews'[w]) = n + 1 /\ reviews'[w][n + 1] = e
        /\ \A i \in 1..n : reviews'[w][i] = reviews[w][i]
    BY <2>1, AppendFacts
  <2> HIDE DEF n
  <2>3. DecisionsOn(w, c, b, r) = {i \in 1..n : /\ reviews[w][i].constituency = c
                                                /\ reviews[w][i].release = r
                                                /\ reviews[w][i].basis = b}
    BY DEF DecisionsOn, n
  <2>4. DecisionsOn(w, c, b, r)' = {i \in 1..(n + 1) : /\ reviews'[w][i].constituency = c
                                                       /\ reviews'[w][i].release = r
                                                       /\ reviews'[w][i].basis = b}
    BY <2>2 DEF DecisionsOn
  <2>5. CASE e.constituency = c /\ e.basis = b /\ e.release = r
    <3>1. n + 1 \in DecisionsOn(w, c, b, r)'
      BY <2>2, <2>4, <2>5
    <3>2. \A j \in DecisionsOn(w, c, b, r)' \ {n + 1} : j \in 1..n /\ j \in DecisionsOn(w, c, b, r)
      BY <2>2, <2>3, <2>4
    <3>3. DecisionsOn(w, c, b, r) = About(w)
      BY <2>5 DEF DecisionsOn, About
    <3>4. \A j \in DecisionsOn(w, c, b, r)' \ {n + 1} :
            j < n + 1 /\ reviews'[w][j].decidedAt < reviews'[w][n + 1].decidedAt
      <4> TAKE j \in DecisionsOn(w, c, b, r)' \ {n + 1}
      <4>1. j \in 1..n /\ j \in About(w)
        BY <3>2, <3>3
      <4>2. j < n + 1
        BY <2>2, <4>1
      <4>3. reviews[w][j].decidedAt < e.decidedAt
        BY <4>1
      <4> QED BY <2>2, <4>1, <4>2, <4>3
    <3> HIDE DEF About
    <3> QED BY <1>2, <3>1, <3>4
  <2>6. CASE ~(e.constituency = c /\ e.basis = b /\ e.release = r)
    <3>1. DecisionsOn(w, c, b, r)' = DecisionsOn(w, c, b, r)
      <4>1. \A i \in DecisionsOn(w, c, b, r)' : i \in 1..n
        BY <2>2, <2>4, <2>6
      <4>2. DecisionsOn(w, c, b, r)' \subseteq DecisionsOn(w, c, b, r)
        BY <2>2, <2>3, <2>4, <4>1
      <4>3. DecisionsOn(w, c, b, r) \subseteq DecisionsOn(w, c, b, r)'
        BY <2>2, <2>3, <2>4
      <4> QED BY <4>2, <4>3
    <3>2. \A j \in DecisionsOn(w, c, b, r) : reviews'[w][j] = reviews[w][j]
      BY <2>2, <2>3
    <3>3. PICK i \in DecisionsOn(w, c, b, r) :
            \A j \in DecisionsOn(w, c, b, r) \ {i} :
              j < i /\ reviews[w][j].decidedAt < reviews[w][i].decidedAt
      <4>1. DecisionsOn(w, c, b, r) # {}
        BY <1>2, <3>1
      <4> QED BY <4>1 DEF NewestIsLast
    <3>4. \A j \in DecisionsOn(w, c, b, r)' \ {i} :
            j < i /\ reviews'[w][j].decidedAt < reviews'[w][i].decidedAt
      BY <3>1, <3>2, <3>3
    <3>5. i \in DecisionsOn(w, c, b, r)'
      BY <3>1
    <3> QED BY <1>2, <3>4, <3>5
  <2> QED BY <2>5, <2>6
<1> QED BY <1>1, <1>2

LEMMA NewestKept ==
  ASSUME NewestIsLast, UNCHANGED reviews PROVE NewestIsLast'
<1>1. \A w \in Wards, c \in Constituencies, b \in Bases, r \in Releases :
        DecisionsOn(w, c, b, r)' = DecisionsOn(w, c, b, r)
  BY DEF DecisionsOn
<1> QED BY <1>1 DEF NewestIsLast

\* A decision on an unlocked row.
LEMMA DecideInv ==
  ASSUME Inv, NEW w \in Wards, NEW c \in Constituencies,
         NEW outcome \in {"APPROVED", "REJECTED"}, NEW now \in 0..MaxClock,
         Decide(w, c, outcome, now)
  PROVE  Inv'
<1> USE EdgeAssumption DEF EdgeAssumption
<1>1. /\ ward' \in [Wards -> WardRow] /\ reviews' \in [Wards -> Seq(Review)]
      /\ \A x \in Wards \ {w} : ward'[x] = ward[x] /\ reviews'[x] = reviews[x]
      /\ ward'[w].constituency = c /\ ward'[w].basis = ward[w].basis
      /\ ward'[w].approvedFor = (IF outcome = "APPROVED" THEN c ELSE None)
      /\ inferred(ward[w]) /\ ward[w].constituency = c /\ ~Locked(w)
  BY DecideRow DEF Inv
<1>2. PICK e \in Review :
        /\ reviews'[w] = Append(reviews[w], e)
        /\ e.constituency = c /\ e.basis = ward[w].basis
        /\ e.release = ward[w].release /\ e.outcome = outcome
        /\ \A j \in About(w) : reviews[w][j].decidedAt < e.decidedAt
  BY DecideRow DEF Inv
<1>3. /\ UNCHANGED <<importing, profile, registration, backfill>>
      /\ trusted' = trusted \cup Operational(ward')
  BY DEF Decide
<1>4. TypeOK'
  <2>1. trusted' \subseteq Wards \X Constituencies
    BY <1>1, <1>3, OperationalEdges DEF Inv, TypeOK
  <2> QED BY <1>1, <1>3, <2>1 DEF Inv, TypeOK
<1>5. ImportShape' /\ BackfillShape'
  BY <1>3 DEF Inv, ImportShape, BackfillShape
<1>6. Admitted(ward'[w]) /\ Supported(ward'[w], reviews'[w])
  <2>1. reviews[w] \in Seq(Review)
    BY DEF Inv, TypeOK
  <2>2. reviews'[w] # <<>> /\ reviews'[w][Len(reviews'[w])] = e
    BY <1>2, <2>1, AppendFacts
  <2> QED BY <1>1, <1>2, <2>2 DEF Admitted, Supported, inferred
<1>7. RowsSupported'
  BY <1>1, <1>6 DEF Inv, RowsSupported
<1>8. StagedSupported'
  BY <1>1, <1>3 DEF Inv, StagedSupported, Locked
<1>9. NewestIsLast'
  BY <1>1, <1>2, DecideNewest DEF Inv
<1> QED BY <1>4, <1>5, <1>7, <1>8, <1>9 DEF Inv

-------------------------------------------------------------------------------
(* Imports *)

\* What is not part of an import keeps its invariants.
LEMMA ImportInv ==
  ASSUME Inv, UNCHANGED <<ward, reviews, profile, registration, backfill, trusted>>,
         ImportShape', StagedSupported',
         importing' \in [release : Releases \cup {None}, at : Wards \cup {None},
                         done : SUBSET Wards, staged : [Wards -> WardRow \cup {None}]],
         \A w \in importing'.done : importing'.staged[w] \in WardRow
  PROVE  Inv'
<1>1. TypeOK'
  BY DEF Inv, TypeOK
<1>2. BackfillShape' /\ RowsSupported' /\ NewestIsLast'
  BY NewestKept DEF Inv, BackfillShape, RowsSupported
<1> QED BY <1>1, <1>2 DEF Inv

LEMMA ImportEnds ==
  ASSUME Inv, importing' = NoImport,
         UNCHANGED <<ward, reviews, profile, registration, backfill, trusted>>
  PROVE  Inv'
<1>1. ImportShape' /\ StagedSupported'
  BY DEF ImportShape, StagedSupported, NoImport
<1>2. importing' \in [release : Releases \cup {None}, at : Wards \cup {None},
                      done : SUBSET Wards, staged : [Wards -> WardRow \cup {None}]]
  BY DEF NoImport
<1>3. \A w \in importing'.done : importing'.staged[w] \in WardRow
  BY DEF NoImport
<1> QED BY <1>1, <1>2, <1>3, ImportInv

LEMMA ImportStepInv ==
  ASSUME Inv, Import PROVE Inv'
<1> USE EdgeAssumption DEF EdgeAssumption
<1>1. ASSUME NEW r \in Releases, ImportStart(r) PROVE Inv'
  <2>1. importing' = [NoImport EXCEPT !.release = r]
    BY <1>1 DEF ImportStart
  <2>2. ImportShape' /\ StagedSupported'
    BY <2>1 DEF ImportShape, StagedSupported, NoImport
  <2>3. importing' \in [release : Releases \cup {None}, at : Wards \cup {None},
                        done : SUBSET Wards, staged : [Wards -> WardRow \cup {None}]]
    BY <2>1 DEF NoImport
  <2>4. \A w \in importing'.done : importing'.staged[w] \in WardRow
    BY <2>1 DEF NoImport
  <2> QED BY <1>1, <2>2, <2>3, <2>4, ImportInv DEF ImportStart
<1>2. ASSUME NEW w \in Wards, ImportClear(w) PROVE Inv'
  <2> DEFINE cleared == [ward[w] EXCEPT !.approvedFor = None]
  <2>1. PICK row \in {None, cleared} :
          importing' = [importing EXCEPT !.at = w, !.staged[w] = row]
    BY <1>2 DEF ImportClear
  <2>2. cleared \in WardRow /\ cleared.approvedFor = None
    <3>1. ward[w] \in WardRow
      BY DEF Inv, TypeOK
    <3> QED BY <3>1 DEF WardRow
  <2> HIDE DEF cleared
  <2>3. /\ importing.release # None /\ w \notin importing.done
        /\ importing.done \in SUBSET Wards
    BY <1>2 DEF ImportClear, Inv, TypeOK
  <2>4. importing' = [importing EXCEPT !.at = w, !.done = importing.done, !.staged[w] = row]
    BY <2>1 DEF Inv, TypeOK
  <2>5. /\ importing' \in [release : Releases \cup {None}, at : Wards \cup {None},
                           done : SUBSET Wards, staged : [Wards -> WardRow \cup {None}]]
        /\ importing'.release = importing.release /\ importing'.done = importing.done
        /\ importing'.staged = [importing.staged EXCEPT ![w] = row]
    BY <2>2, <2>3, <2>4, StagedRow DEF Inv
  <2>6. \A x \in Wards : importing'.staged[x] = IF x = w THEN row ELSE importing.staged[x]
    BY <2>5 DEF Inv, TypeOK
  <2>7. \A x \in importing'.done : importing'.staged[x] \in WardRow
    BY <2>3, <2>5, <2>6 DEF Inv, TypeOK
  <2>8. UNCHANGED <<ward, reviews, profile, registration, backfill, trusted>>
    BY <1>2 DEF ImportClear
  <2>9. StagedSupported'
    BY <2>1, <2>2, <2>6, <2>8 DEF Inv, StagedSupported, Admitted, Supported
  <2>10. ImportShape'
    BY <2>3, <2>5 DEF ImportShape
  <2> QED BY <2>5, <2>7, <2>8, <2>9, <2>10, ImportInv
<1>3. ASSUME NEW w \in Wards, ImportWrite(w) PROVE Inv'
  <2> DEFINE row == Imported(w)
  <2>1. importing.at = w /\ Admitted(row)
    BY <1>3 DEF ImportWrite
  <2>2. /\ importing.release \in Releases /\ row \in WardRow
        /\ row.approvedFor = (IF Locked(w) THEN importing.staged[w] ELSE ward[w]).approvedFor
    BY <2>1, ImportedRow DEF Inv
  <2>3. Supported(row, reviews[w])
    BY <2>2 DEF Inv, StagedSupported, RowsSupported, Supported, Locked
  <2>4. importing' = [importing EXCEPT !.at = None, !.done = importing.done \cup {w},
                                       !.staged[w] = row]
    BY <1>3 DEF ImportWrite
  <2> HIDE DEF row
  <2>5. importing.done \cup {w} \in SUBSET Wards
    BY DEF Inv, TypeOK
  <2>6. /\ importing' \in [release : Releases \cup {None}, at : Wards \cup {None},
                           done : SUBSET Wards, staged : [Wards -> WardRow \cup {None}]]
        /\ importing'.release = importing.release
        /\ importing'.done = importing.done \cup {w}
        /\ importing'.staged = [importing.staged EXCEPT ![w] = row]
    BY <2>2, <2>4, <2>5, StagedRow DEF Inv
  <2>7. \A x \in Wards : importing'.staged[x] = IF x = w THEN row ELSE importing.staged[x]
    BY <2>6 DEF Inv, TypeOK
  <2>8. \A x \in importing'.done : importing'.staged[x] \in WardRow
    BY <2>2, <2>5, <2>6, <2>7 DEF Inv, TypeOK
  <2>9. UNCHANGED <<ward, reviews, profile, registration, backfill, trusted>>
    BY <1>3 DEF ImportWrite
  <2>10. StagedSupported'
    BY <2>1, <2>3, <2>7, <2>9 DEF Inv, StagedSupported, row
  <2>11. ImportShape'
    BY <2>2, <2>6 DEF ImportShape
  <2> QED BY <2>6, <2>8, <2>9, <2>10, <2>11, ImportInv
<1>4. ASSUME NEW w \in Wards, ImportRefused(w) PROVE Inv'
  BY <1>4, ImportEnds DEF ImportRefused
<1>5. CASE ImportCommit
  <2>1. /\ ward' = importing.staged /\ importing' = NoImport
        /\ trusted' = trusted \cup Operational(ward')
        /\ UNCHANGED <<reviews, profile, registration, backfill>>
        /\ importing.done = Wards
    BY <1>5 DEF ImportCommit
  <2>2. ward' \in [Wards -> WardRow]
    BY <2>1 DEF Inv, TypeOK
  <2>3. TypeOK'
    <3>1. trusted' \subseteq Wards \X Constituencies
      BY <2>1, <2>2, OperationalEdges DEF Inv, TypeOK
    <3>2. /\ importing' \in [release : Releases \cup {None}, at : Wards \cup {None},
                             done : SUBSET Wards, staged : [Wards -> WardRow \cup {None}]]
          /\ importing'.done = {}
      BY <2>1 DEF NoImport
    <3> QED BY <2>1, <2>2, <3>1, <3>2 DEF Inv, TypeOK
  <2>4. ImportShape' /\ StagedSupported' /\ BackfillShape' /\ NewestIsLast'
    BY <2>1, NewestKept DEF Inv, ImportShape, StagedSupported, BackfillShape, NoImport
  <2>5. \A w \in Wards : importing.staged[w] # None
    BY <2>1 DEF Inv, TypeOK
  <2>6. RowsSupported'
    BY <2>1, <2>5 DEF Inv, RowsSupported, StagedSupported
  <2> QED BY <2>3, <2>4, <2>6 DEF Inv
<1>6. CASE ImportLost
  BY <1>6, ImportEnds DEF ImportLost
<1> QED BY <1>1, <1>2, <1>3, <1>4, <1>5, <1>6 DEF Import

-------------------------------------------------------------------------------
(* Registrations and the repair *)

\* Steps that leave the wards, their reviews and the import alone.
LEMMA ReaderInv ==
  ASSUME Inv, UNCHANGED <<ward, reviews, importing, trusted>>,
         BackfillShape',
         profile' \in [Members -> {NoProfile} \cup
           [ward : Wards, constituency : Constituencies \cup {None}, derived : BOOLEAN]],
         registration' \in [Members -> {NoRegistration} \cup
           [step : {"CHECKED"}, ward : Wards, constituency : {None}] \cup
           [step : {"RESOLVED"}, ward : Wards, constituency : Constituencies]],
         backfill' \in [step : {"IDLE", "READ", "WRITE"},
                        read : [Wards -> WardRow] \cup {None},
                        change : [Members -> Constituencies \cup {None}]]
  PROVE  Inv'
<1>1. TypeOK'
  BY DEF Inv, TypeOK
<1>2. ImportShape' /\ RowsSupported' /\ StagedSupported' /\ NewestIsLast'
  BY NewestKept DEF Inv, ImportShape, RowsSupported, StagedSupported
<1> QED BY <1>1, <1>2 DEF Inv

\* A registration past its check, and past its second read.
LEMMA Registering ==
  ASSUME TypeOK, NEW m \in Members
  PROVE  /\ registration[m] # NoRegistration =>
              registration[m].step \in {"CHECKED", "RESOLVED"} /\ registration[m].ward \in Wards
         /\ registration[m].step \in {"CHECKED", "RESOLVED"} => registration[m] # NoRegistration
         /\ registration[m].step = "CHECKED" =>
              registration[m] \in [step : {"CHECKED"}, ward : Wards, constituency : {None}]
         /\ registration[m].step = "RESOLVED" =>
              registration[m].ward \in Wards /\ registration[m].constituency \in Constituencies
BY DEF TypeOK, NoRegistration

LEMMA RegisterStepInv ==
  ASSUME Inv, NEW m \in Members, Register(m) PROVE Inv'
<1> USE EdgeAssumption DEF EdgeAssumption
<1>1. ASSUME NEW w \in Wards, RegisterCheck(m, w) PROVE Inv'
  BY <1>1, ReaderInv DEF RegisterCheck, Inv, TypeOK, BackfillShape
<1>2. CASE RegisterResolve(m)
  <2> DEFINE c == ward[registration[m].ward].constituency
  <2>1. /\ registration[m] \in [step : {"CHECKED"}, ward : Wards, constituency : {None}]
        /\ registration[m].ward \in Wards
    BY <1>2, Registering DEF RegisterResolve, Inv
  <2>2. c \in Constituencies
    BY <2>1 DEF Inv, TypeOK, WardRow
  <2>3. registration' = [registration EXCEPT ![m].step = "RESOLVED", ![m].constituency = c]
    BY <1>2 DEF RegisterResolve
  <2> HIDE DEF c
  <2>4. [registration[m] EXCEPT !.step = "RESOLVED", !.constituency = c]
          \in [step : {"RESOLVED"}, ward : Wards, constituency : Constituencies]
    BY <2>1, <2>2
  <2>5. registration' =
          [registration EXCEPT ![m] = [registration[m] EXCEPT !.step = "RESOLVED",
                                                              !.constituency = c]]
    BY <2>3 DEF Inv, TypeOK
  <2>6. registration' \in [Members -> {NoRegistration} \cup
          [step : {"CHECKED"}, ward : Wards, constituency : {None}] \cup
          [step : {"RESOLVED"}, ward : Wards, constituency : Constituencies]]
    BY <2>4, <2>5 DEF Inv, TypeOK
  <2> QED BY <1>2, <2>6, ReaderInv DEF RegisterResolve, Inv, TypeOK, BackfillShape
<1>3. CASE RegisterCommit(m)
  <2>1. /\ registration[m].ward \in Wards /\ registration[m].constituency \in Constituencies
        /\ profile' = [profile EXCEPT ![m] =
             [ward |-> registration[m].ward, constituency |-> registration[m].constituency,
              derived |-> TRUE]]
        /\ registration' = [registration EXCEPT ![m] = NoRegistration]
    BY <1>3, Registering DEF RegisterCommit, Inv
  <2>2. \A x \in Members : profile[x] # NoProfile => profile'[x] # NoProfile
    BY <2>1 DEF Inv, TypeOK, NoProfile
  <2>3. BackfillShape'
    BY <1>3, <2>2 DEF RegisterCommit, Inv, BackfillShape
  <2> QED BY <1>3, <2>1, <2>3, ReaderInv DEF RegisterCommit, Inv, TypeOK
<1>4. CASE RegisterLost(m)
  BY <1>4, ReaderInv DEF RegisterLost, Inv, TypeOK, BackfillShape
<1> QED BY <1>1, <1>2, <1>3, <1>4 DEF Register

\* What the repair is to write for a member is a constituency of an operational edge.
LEMMA DerivedFromRead ==
  ASSUME TypeOK, BackfillShape, backfill.step = "READ", NEW m \in Members, Derived(m) # None
  PROVE  /\ profile[m] # NoProfile /\ profile[m].ward \in Wards
         /\ isWardConstituencyEdgeOperational(backfill.read[profile[m].ward])
         /\ Derived(m) = backfill.read[profile[m].ward].constituency
         /\ Derived(m) \in Constituencies
<1>1. /\ profile[m] # NoProfile
      /\ isWardConstituencyEdgeOperational(backfill.read[profile[m].ward])
      /\ Derived(m) = backfill.read[profile[m].ward].constituency
  BY DEF Derived
<1>2. profile[m].ward \in Wards
  BY <1>1 DEF TypeOK
<1> QED BY <1>1, <1>2 DEF BackfillShape, WardRow

LEMMA BackfillStepInv ==
  ASSUME Inv, Backfill PROVE Inv'
<1>1. CASE BackfillRead
  <2>1. backfill' \in [step : {"IDLE", "READ", "WRITE"},
                       read : [Wards -> WardRow] \cup {None},
                       change : [Members -> Constituencies \cup {None}]]
        /\ BackfillShape'
    BY <1>1 DEF BackfillRead, Inv, TypeOK, BackfillShape
  <2> QED BY <1>1, <2>1, ReaderInv DEF BackfillRead, Inv, TypeOK
<1>2. CASE BackfillPlan
  <2>1. \A m \in Members : Derived(m) \in Constituencies \cup {None}
    BY <1>2, DerivedFromRead DEF BackfillPlan, Inv
  <2>2. \A m \in Members : Derived(m) # None => profile[m] # NoProfile
    BY DEF Derived
  <2> QED BY <1>2, <2>1, <2>2, ReaderInv DEF BackfillPlan, Inv, TypeOK, BackfillShape
<1>3. CASE BackfillEnds
  BY <1>3, ReaderInv DEF BackfillEnds, NoBackfill, Inv, TypeOK, BackfillShape
<1>4. ASSUME NEW m \in Members, BackfillWrite(m) PROVE Inv'
  <2> DEFINE c == backfill.change[m]
  <2>1. /\ profile[m] # NoProfile /\ c \in Constituencies
        /\ profile' = [profile EXCEPT ![m].constituency = c, ![m].derived = TRUE]
        /\ backfill' = [backfill EXCEPT !.change[m] = None]
        /\ UNCHANGED <<ward, reviews, importing, registration, trusted>>
    BY <1>4 DEF BackfillWrite, Inv, TypeOK, BackfillShape
  <2> HIDE DEF c
  <2>2. profile[m] \in [ward : Wards, constituency : Constituencies \cup {None},
                        derived : BOOLEAN]
    BY <2>1 DEF Inv, TypeOK
  <2> DEFINE p == [profile[m] EXCEPT !.constituency = c, !.derived = TRUE]
  <2>3. /\ p \in [ward : Wards, constituency : Constituencies \cup {None}, derived : BOOLEAN]
        /\ p.ward \in Wards
    BY <2>1, <2>2
  <2>4. profile' = [profile EXCEPT ![m] = p]
    BY <2>1 DEF Inv, TypeOK
  <2> HIDE DEF p
  <2>5. /\ profile' \in [Members -> {NoProfile} \cup
             [ward : Wards, constituency : Constituencies \cup {None}, derived : BOOLEAN]]
        /\ \A x \in Members : profile[x] # NoProfile => profile'[x] # NoProfile
    BY <2>3, <2>4, EdgeAssumption DEF Inv, TypeOK, EdgeAssumption, NoProfile
  <2>6. /\ backfill' \in [step : {"IDLE", "READ", "WRITE"},
                          read : [Wards -> WardRow] \cup {None},
                          change : [Members -> Constituencies \cup {None}]]
        /\ backfill'.step = backfill.step /\ backfill'.read = backfill.read
        /\ \A x \in Members : backfill'.change[x] # None => backfill.change[x] # None
    BY <2>1 DEF Inv, TypeOK
  <2>7. BackfillShape'
    BY <2>5, <2>6 DEF Inv, BackfillShape
  <2>8. UNCHANGED registration
    BY <2>1
  <2> QED BY <2>1, <2>5, <2>6, <2>7, ReaderInv DEF Inv, TypeOK
<1> QED BY <1>1, <1>2, <1>3, <1>4 DEF Backfill

-------------------------------------------------------------------------------

LEMMA NextInv == Inv /\ [Next]_vars => Inv'
<1> SUFFICES ASSUME Inv, [Next]_vars PROVE Inv'
  OBVIOUS
<1>1. ASSUME NEW w \in Wards, NEW c \in Constituencies,
             NEW outcome \in {"APPROVED", "REJECTED"}, NEW now \in 0..MaxClock,
             Decide(w, c, outcome, now)
      PROVE  Inv'
  BY <1>1, DecideInv
<1>2. CASE Import
  BY <1>2, ImportStepInv
<1>3. ASSUME NEW m \in Members, Register(m) PROVE Inv'
  BY <1>3, RegisterStepInv
<1>4. CASE Backfill
  BY <1>4, BackfillStepInv
<1>5. CASE UNCHANGED vars
  BY <1>5, ReaderInv DEF vars, Inv, TypeOK, BackfillShape
<1> QED BY <1>1, <1>2, <1>3, <1>4, <1>5 DEF Next

\* The tables, the import's staged rows and the repair's plan keep their types.
THEOREM EdgeTypes == Spec => []TypeOK
<1>1. Inv => TypeOK
  BY DEF Inv
<1> QED BY <1>1, InitInv, NextInv, PTL DEF Spec

\* The filter and the rule select the same wards in every reachable state, because no
\* committed row carries an approval for another edge than its own.
THEOREM EncodingsAlwaysAgree == Spec => []EncodingsAgree
<1>1. Inv => EncodingsAgree
  BY DEF Inv, RowsSupported, EncodingsAgree, Admitted, OPERATIONAL_WARD_EDGE,
     isWardConstituencyEdgeOperational, inferred
<1> QED BY <1>1, InitInv, NextInv, PTL DEF Spec

\* An approval in force, committed or surviving an import, is the last decision made.
THEOREM ApprovalsAreLastDecisions == Spec => []ApprovalIsLastDecision
<1>1. Inv => ApprovalIsLastDecision
  BY DEF Inv, RowsSupported, Supported, ApprovalIsLastDecision, Last
<1> QED BY <1>1, InitInv, NextInv, PTL DEF Spec

\* The screen shows the last decision on the current edge, whatever the clocks of the
\* instances that decided, and never an older one.
THEOREM DecisionsShown == Spec => []DecisionShown
<1>1. Inv => DecisionShown
  <2> SUFFICES ASSUME Inv, NEW w \in Wards, inferred(ward[w]),
                      Len(reviews[w]) \in About(w)
               PROVE  IF Last(reviews[w]).outcome = "REJECTED"
                      THEN reviewStateOf(w) = "REJECTED"
                      ELSE reviewStateOf(w) \in {"APPROVED", "PENDING"}
    BY DEF DecisionShown
  <2> DEFINE n == Len(reviews[w])
  <2>1. PICK i \in About(w) :
          /\ currentDecisionFor(w) = reviews[w][i]
          /\ \A j \in About(w) \ {i} :
               j < i /\ reviews[w][j].decidedAt < reviews[w][i].decidedAt
    BY CurrentDecision DEF Inv
  <2>2. i \in 1..n /\ n \in Nat
    BY DEF About, Inv, TypeOK
  <2>3. i = n
    BY <2>1, <2>2
  <2>4. currentDecisionFor(w) = Last(reviews[w])
    BY <2>1, <2>3 DEF Last
  <2>5. isWardConstituencyEdgeOperational(ward[w]) => Last(reviews[w]).outcome # "REJECTED"
    BY DEF Inv, RowsSupported, Supported, Last, isWardConstituencyEdgeOperational
  <2> QED BY <2>4, <2>5 DEF reviewStateOf
<1> QED BY <1>1, InitInv, NextInv, PTL DEF Spec

-------------------------------------------------------------------------------
(* Where members are filed                                                   *)
(*                                                                           *)
(* A trusted edge stays trusted.  A registration is between its two reads    *)
(* only while the ward's constituency cannot change: that is what the        *)
(* assumption gives.  The repair needs none: it writes what it judged.       *)

\* Registrations between their reads, and what the repair holds, are trusted.
RegisteringTrusted ==
  \A m \in Members :
    /\ registration[m] # NoRegistration => profile[m] = NoProfile
    /\ registration[m].step = "CHECKED" =>
         <<registration[m].ward, ward[registration[m].ward].constituency>> \in trusted
    /\ registration[m].step = "RESOLVED" =>
         <<registration[m].ward, registration[m].constituency>> \in trusted

RepairTrusted ==
  /\ backfill.step = "READ" => Operational(backfill.read) \subseteq trusted
  /\ \A m \in Members : backfill.change[m] # None =>
       <<profile[m].ward, backfill.change[m]>> \in trusted

Filed ==
  Inv /\ Operational(ward) \subseteq trusted /\ RegisteringTrusted /\ RepairTrusted
      /\ FiledWhereTrusted

LEMMA OperationalMember ==
  ASSUME NEW rows, NEW w \in Wards, isWardConstituencyEdgeOperational(rows[w])
  PROVE  <<w, rows[w].constituency>> \in Operational(rows)
BY DEF Operational

LEMMA FiledInit == Init => Filed
<1> SUFFICES ASSUME Init PROVE Filed
  OBVIOUS
<1>1. Inv
  BY InitInv
<1>2. RegisteringTrusted /\ RepairTrusted
  BY DEF Init, RegisteringTrusted, RepairTrusted, NoRegistration, NoBackfill
<1>3. FiledWhereTrusted
  <2>1. profile \in [Members -> {NoProfile} \cup
          [ward : Wards, constituency : Constituencies \cup {None}, derived : {FALSE}]]
    BY DEF Init
  <2>2. ASSUME NEW m \in Members PROVE profile[m].derived = FALSE
    <3>1. CASE profile[m] = NoProfile
      BY <3>1 DEF NoProfile
    <3>2. CASE profile[m] # NoProfile
      BY <2>1, <3>2
    <3> QED BY <3>1, <3>2
  <2> QED BY <2>2 DEF FiledWhereTrusted
<1>4. Operational(ward) \subseteq trusted
  BY DEF Init
<1> QED BY <1>1, <1>2, <1>3, <1>4 DEF Filed

\* Steps that take no part in registration or repair.
LEMMA FiledKept ==
  ASSUME Filed, UNCHANGED <<profile, registration, backfill>>, trusted \subseteq trusted',
         \A m \in Members : registration[m].step = "CHECKED" =>
           ward'[registration[m].ward].constituency = ward[registration[m].ward].constituency
  PROVE  RegisteringTrusted' /\ RepairTrusted' /\ FiledWhereTrusted'
<1>1. RegisteringTrusted'
  BY DEF Filed, RegisteringTrusted
<1>2. RepairTrusted'
  BY DEF Filed, RepairTrusted, Operational
<1>3. FiledWhereTrusted'
  BY DEF Filed, FiledWhereTrusted
<1> QED BY <1>1, <1>2, <1>3

LEMMA FiledNext == ~MayOverlap /\ Filed /\ [Next]_vars => Filed'
<1> SUFFICES ASSUME ~MayOverlap, Filed, [Next]_vars PROVE Filed'
  OBVIOUS
<1> USE EdgeAssumption DEF EdgeAssumption
<1>0. Inv /\ Inv'
  BY NextInv DEF Filed
<1>1. ASSUME NEW w \in Wards, NEW c \in Constituencies,
             NEW outcome \in {"APPROVED", "REJECTED"}, NEW now \in 0..MaxClock,
             Decide(w, c, outcome, now)
      PROVE  Filed'
  <2>1. \A x \in Wards : ward'[x].constituency = ward[x].constituency
    <3>1. /\ ward'[w].constituency = c /\ ward[w].constituency = c
          /\ \A x \in Wards \ {w} : ward'[x] = ward[x]
      BY <1>0, <1>1, DecideRow DEF Inv
    <3> QED BY <3>1
  <2>2. /\ UNCHANGED <<profile, registration, backfill>>
        /\ trusted' = trusted \cup Operational(ward')
    BY <1>1 DEF Decide
  <2>3. \A m \in Members : registration[m].step = "CHECKED" => registration[m].ward \in Wards
    BY <1>0, Registering DEF Inv
  <2>4. RegisteringTrusted' /\ RepairTrusted' /\ FiledWhereTrusted'
    BY <2>1, <2>2, <2>3, FiledKept
  <2> QED BY <1>0, <2>2, <2>4 DEF Filed
<1>2. CASE ImportCommit
  <2>1. /\ UNCHANGED <<profile, registration, backfill>>
        /\ trusted' = trusted \cup Operational(ward')
        /\ \A m \in Members : registration[m] = NoRegistration
    BY <1>2 DEF ImportCommit
  <2>2. RegisteringTrusted' /\ RepairTrusted' /\ FiledWhereTrusted'
    BY <2>1, FiledKept DEF NoRegistration
  <2> QED BY <1>0, <2>1, <2>2 DEF Filed
<1>3. ASSUME UNCHANGED <<ward, profile, registration, backfill, trusted>> PROVE Filed'
  <2>1. RegisteringTrusted' /\ RepairTrusted' /\ FiledWhereTrusted'
    BY <1>3, FiledKept
  <2>2. Operational(ward') \subseteq trusted'
    BY <1>3 DEF Filed
  <2> QED BY <1>0, <2>1, <2>2 DEF Filed
<1>4. CASE Import
  BY <1>2, <1>3, <1>4 DEF Import, ImportStart, ImportClear, ImportWrite, ImportRefused, ImportLost
<1>5. ASSUME NEW m \in Members, NEW w \in Wards, RegisterCheck(m, w) PROVE Filed'
  <2>1. /\ UNCHANGED <<ward, profile, backfill, trusted>> /\ profile[m] = NoProfile
        /\ registration' = [registration EXCEPT ![m] =
             [step |-> "CHECKED", ward |-> w, constituency |-> None]]
    BY <1>5 DEF RegisterCheck
  <2>2. <<w, ward[w].constituency>> \in trusted
    BY <1>5, OperationalMember DEF RegisterCheck, Filed
  <2>3. RegisteringTrusted'
    BY <1>0, <2>1, <2>2 DEF Filed, RegisteringTrusted, Inv, TypeOK
  <2> QED BY <1>0, <2>1, <2>3 DEF Filed, RepairTrusted, FiledWhereTrusted, Operational
<1>6. ASSUME NEW m \in Members, RegisterResolve(m) PROVE Filed'
  <2> DEFINE c == ward[registration[m].ward].constituency
  <2>0. UNCHANGED <<ward, profile, backfill, trusted>>
    BY <1>6 DEF RegisterResolve
  <2>1. /\ registration[m].step = "CHECKED"
        /\ registration' = [registration EXCEPT ![m].step = "RESOLVED", ![m].constituency = c]
    BY <1>6 DEF RegisterResolve
  <2>2. <<registration[m].ward, c>> \in trusted /\ profile[m] = NoProfile
    BY <1>0, <2>1, Registering DEF Filed, RegisteringTrusted, Inv
  <2>3. registration[m] \in [step : {"CHECKED"}, ward : Wards, constituency : {None}]
    BY <1>0, <2>1, Registering DEF Inv
  <2> HIDE DEF c
  <2>4. /\ registration'[m].step = "RESOLVED" /\ registration'[m].ward = registration[m].ward
        /\ registration'[m].constituency = c
        /\ \A x \in Members \ {m} : registration'[x] = registration[x]
    BY <1>0, <2>1, <2>3 DEF Inv, TypeOK
  <2>5. RegisteringTrusted'
    <3> SUFFICES ASSUME NEW x \in Members
                 PROVE  /\ registration'[x] # NoRegistration => profile'[x] = NoProfile
                        /\ registration'[x].step = "CHECKED" =>
                             <<registration'[x].ward,
                               ward'[registration'[x].ward].constituency>> \in trusted'
                        /\ registration'[x].step = "RESOLVED" =>
                             <<registration'[x].ward, registration'[x].constituency>>
                               \in trusted'
      BY DEF RegisteringTrusted
    <3>1. CASE x = m
      <4>1. /\ registration'[m].step = "RESOLVED" /\ profile'[m] = NoProfile
            /\ <<registration'[m].ward, registration'[m].constituency>> \in trusted'
        BY <2>0, <2>2, <2>4
      <4> QED BY <3>1, <4>1
    <3>2. CASE x # m
      <4>1. registration'[x] = registration[x] /\ UNCHANGED <<ward, profile, trusted>>
        BY <2>0, <2>4, <3>2
      <4>2. RegisteringTrusted
        BY DEF Filed
      <4> QED BY <4>1, <4>2 DEF RegisteringTrusted
    <3> QED BY <3>1, <3>2
  <2> QED BY <1>0, <2>0, <2>5 DEF Filed, RepairTrusted, FiledWhereTrusted, Operational
<1>7. ASSUME NEW m \in Members, RegisterCommit(m) PROVE Filed'
  <2> DEFINE p == [ward |-> registration[m].ward,
                   constituency |-> registration[m].constituency, derived |-> TRUE]
  <2>1. /\ UNCHANGED <<ward, backfill, trusted>> /\ registration[m].step = "RESOLVED"
        /\ profile' = [profile EXCEPT ![m] = p]
        /\ registration' = [registration EXCEPT ![m] = NoRegistration]
    BY <1>7 DEF RegisterCommit
  <2>2. <<p.ward, p.constituency>> \in trusted
    BY <2>1 DEF Filed, RegisteringTrusted
  <2>3. backfill.change[m] = None
    BY <1>0, <2>1, Registering DEF Filed, RegisteringTrusted, Inv, BackfillShape
  <2> HIDE DEF p
  <2>4. /\ profile'[m] = p /\ registration'[m] = NoRegistration
        /\ \A x \in Members \ {m} : profile'[x] = profile[x] /\ registration'[x] = registration[x]
    BY <1>0, <2>1 DEF Inv, TypeOK
  <2>5. RegisteringTrusted'
    <3> SUFFICES ASSUME NEW x \in Members
                 PROVE  /\ registration'[x] # NoRegistration => profile'[x] = NoProfile
                        /\ registration'[x].step = "CHECKED" =>
                             <<registration'[x].ward,
                               ward'[registration'[x].ward].constituency>> \in trusted'
                        /\ registration'[x].step = "RESOLVED" =>
                             <<registration'[x].ward, registration'[x].constituency>>
                               \in trusted'
      BY DEF RegisteringTrusted
    <3>1. CASE x = m
      BY <2>1, <2>4, <3>1 DEF NoRegistration
    <3>2. CASE x # m
      <4>1. /\ registration'[x] = registration[x] /\ profile'[x] = profile[x]
            /\ UNCHANGED <<ward, trusted>>
        BY <2>1, <2>4, <3>2
      <4>2. RegisteringTrusted
        BY DEF Filed
      <4> QED BY <4>1, <4>2 DEF RegisteringTrusted
    <3> QED BY <3>1, <3>2
  <2>6. RepairTrusted'
    <3>1. backfill'.step = "READ" => Operational(backfill'.read) \subseteq trusted'
      BY <2>1 DEF Filed, RepairTrusted
    <3>2. ASSUME NEW x \in Members, backfill'.change[x] # None
          PROVE  <<profile'[x].ward, backfill'.change[x]>> \in trusted'
      <4>1. x # m /\ UNCHANGED <<backfill, trusted>>
        BY <2>1, <2>3, <3>2
      <4>2. profile'[x] = profile[x]
        BY <2>4, <4>1
      <4>3. RepairTrusted
        BY DEF Filed
      <4> QED BY <3>2, <4>1, <4>2, <4>3 DEF RepairTrusted
    <3> QED BY <3>1, <3>2 DEF RepairTrusted
  <2>7. FiledWhereTrusted'
    <3> SUFFICES ASSUME NEW x \in Members, profile'[x].derived
                 PROVE  <<profile'[x].ward, profile'[x].constituency>> \in trusted'
      BY DEF FiledWhereTrusted
    <3>1. CASE x = m
      <4>1. profile'[x] = p /\ UNCHANGED trusted
        BY <2>1, <2>4, <3>1
      <4> QED BY <2>2, <4>1
    <3>2. CASE x # m
      <4>1. profile'[x] = profile[x] /\ UNCHANGED trusted
        BY <2>1, <2>4, <3>2
      <4>2. FiledWhereTrusted
        BY DEF Filed
      <4> QED BY <4>1, <4>2 DEF FiledWhereTrusted
    <3> QED BY <3>1, <3>2
  <2> QED BY <1>0, <2>1, <2>5, <2>6, <2>7 DEF Filed
<1>8. ASSUME NEW m \in Members, RegisterLost(m) PROVE Filed'
  <2>1. RegisteringTrusted'
    BY <1>0, <1>8 DEF RegisterLost, Filed, RegisteringTrusted, NoRegistration, Inv, TypeOK
  <2> QED BY <1>0, <1>8, <2>1 DEF RegisterLost, Filed, RepairTrusted, FiledWhereTrusted,
           Operational
<1>9. CASE BackfillRead
  <2>1. /\ UNCHANGED <<ward, profile, registration, trusted>>
        /\ backfill'.step = "READ" /\ backfill'.read = ward /\ backfill'.change = backfill.change
    BY <1>0, <1>9 DEF BackfillRead, Inv, TypeOK
  <2>2. Operational(ward) \subseteq trusted
    BY DEF Filed
  <2>3. RepairTrusted'
    BY <2>1, <2>2 DEF Filed, RepairTrusted
  <2> QED BY <1>0, <2>1, <2>2, <2>3 DEF Filed, RegisteringTrusted, FiledWhereTrusted
<1>10. CASE BackfillPlan
  <2>1. /\ UNCHANGED <<ward, profile, registration, trusted>> /\ backfill.step = "READ"
        /\ backfill'.step = "WRITE"
        /\ backfill'.change = [m \in Members |-> Derived(m)]
    BY <1>10 DEF BackfillPlan
  <2>2. ASSUME NEW m \in Members, Derived(m) # None
        PROVE  <<profile[m].ward, Derived(m)>> \in trusted
    <3>1. /\ profile[m].ward \in Wards
          /\ isWardConstituencyEdgeOperational(backfill.read[profile[m].ward])
          /\ Derived(m) = backfill.read[profile[m].ward].constituency
      BY <1>0, <2>1, <2>2, DerivedFromRead DEF Inv
    <3>2. <<profile[m].ward, Derived(m)>> \in Operational(backfill.read)
      BY <3>1, OperationalMember
    <3> QED BY <2>1, <3>2 DEF Filed, RepairTrusted
  <2>3. RepairTrusted'
    BY <2>1, <2>2 DEF RepairTrusted
  <2>4. Operational(ward) \subseteq trusted
    BY DEF Filed
  <2> QED BY <1>0, <2>1, <2>3, <2>4 DEF Filed, RegisteringTrusted, FiledWhereTrusted
<1>11. ASSUME NEW m \in Members, BackfillWrite(m) PROVE Filed'
  <2>1. /\ UNCHANGED <<ward, registration, trusted>> /\ backfill.change[m] # None
        /\ profile' = [profile EXCEPT ![m].constituency = backfill.change[m],
                                      ![m].derived = TRUE]
        /\ backfill' = [backfill EXCEPT !.change[m] = None]
    BY <1>11 DEF BackfillWrite
  <2>2. <<profile[m].ward, backfill.change[m]>> \in trusted /\ profile[m] # NoProfile
    BY <1>0, <2>1 DEF Filed, RepairTrusted, Inv, BackfillShape
  <2>3. profile[m] \in [ward : Wards, constituency : Constituencies \cup {None},
                        derived : BOOLEAN]
    BY <1>0, <2>2 DEF Inv, TypeOK
  <2>4. /\ profile'[m].ward = profile[m].ward
        /\ profile'[m].constituency = backfill.change[m]
        /\ \A x \in Members \ {m} : profile'[x] = profile[x]
    BY <1>0, <2>1, <2>3 DEF Inv, TypeOK
  <2>5. /\ backfill'.step = backfill.step /\ backfill'.read = backfill.read
        /\ backfill'.change[m] = None
        /\ \A x \in Members \ {m} : backfill'.change[x] = backfill.change[x]
    BY <1>0, <2>1 DEF Inv, TypeOK
  <2>6. RepairTrusted'
    <3>1. backfill'.step = "READ" => Operational(backfill'.read) \subseteq trusted'
      BY <2>1, <2>5 DEF Filed, RepairTrusted
    <3>2. ASSUME NEW x \in Members, backfill'.change[x] # None
          PROVE  <<profile'[x].ward, backfill'.change[x]>> \in trusted'
      <4>1. x # m
        BY <2>5, <3>2
      <4>2. /\ profile'[x] = profile[x] /\ backfill'.change[x] = backfill.change[x]
            /\ UNCHANGED trusted
        BY <2>1, <2>4, <2>5, <4>1
      <4>3. RepairTrusted
        BY DEF Filed
      <4> QED BY <3>2, <4>2, <4>3 DEF RepairTrusted
    <3> QED BY <3>1, <3>2 DEF RepairTrusted
  <2>7. RegisteringTrusted'
    <3> SUFFICES ASSUME NEW x \in Members
                 PROVE  /\ registration'[x] # NoRegistration => profile'[x] = NoProfile
                        /\ registration'[x].step = "CHECKED" =>
                             <<registration'[x].ward,
                               ward'[registration'[x].ward].constituency>> \in trusted'
                        /\ registration'[x].step = "RESOLVED" =>
                             <<registration'[x].ward, registration'[x].constituency>>
                               \in trusted'
      BY DEF RegisteringTrusted
    <3>1. CASE x = m
      BY <2>1, <2>2, <2>4, <3>1 DEF Filed, RegisteringTrusted
    <3>2. CASE x # m
      <4>1. /\ UNCHANGED <<ward, registration, trusted>> /\ profile'[x] = profile[x]
        BY <2>1, <2>4, <3>2
      <4>2. RegisteringTrusted
        BY DEF Filed
      <4> QED BY <4>1, <4>2 DEF RegisteringTrusted
    <3> QED BY <3>1, <3>2
  <2>8. FiledWhereTrusted'
    <3> SUFFICES ASSUME NEW x \in Members, profile'[x].derived
                 PROVE  <<profile'[x].ward, profile'[x].constituency>> \in trusted'
      BY DEF FiledWhereTrusted
    <3>1. CASE x = m
      BY <2>1, <2>2, <2>4, <3>1
    <3>2. CASE x # m
      <4>1. profile'[x] = profile[x] /\ UNCHANGED trusted
        BY <2>1, <2>4, <3>2
      <4>2. FiledWhereTrusted
        BY DEF Filed
      <4> QED BY <4>1, <4>2 DEF FiledWhereTrusted
    <3> QED BY <3>1, <3>2
  <2>9. Operational(ward') \subseteq trusted'
    BY <2>1 DEF Filed
  <2> QED BY <1>0, <2>6, <2>7, <2>8, <2>9 DEF Filed
<1>12. CASE BackfillEnds
  <2>1. /\ UNCHANGED <<ward, profile, registration, trusted>> /\ backfill' = NoBackfill
    BY <1>12 DEF BackfillEnds
  <2>2. RepairTrusted'
    BY <2>1 DEF RepairTrusted, NoBackfill
  <2>3. Operational(ward') \subseteq trusted'
    BY <2>1 DEF Filed
  <2> QED BY <1>0, <2>1, <2>2, <2>3 DEF Filed, RegisteringTrusted, FiledWhereTrusted
<1>13. CASE UNCHANGED vars
  BY <1>3, <1>13 DEF vars
<1> QED BY <1>1, <1>4, <1>5, <1>6, <1>7, <1>8, <1>9, <1>10, <1>11, <1>12, <1>13
     DEF Next, Register, Backfill

\* When no import commits during a registration, nobody is ever filed under an edge that
\* was neither sourced nor approved, whatever decisions and repairs interleave.
THEOREM FiledOnlyWhereTrusted ==
  ASSUME ~MayOverlap PROVE Spec => []FiledWhereTrusted
<1>1. Init => Filed
  BY FiledInit
<1>2. Filed /\ [Next]_vars => Filed'
  BY FiledNext
<1>3. Filed => FiledWhereTrusted
  BY DEF Filed
<1> QED BY <1>1, <1>2, <1>3, PTL DEF Spec
===============================================================================
