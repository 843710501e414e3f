----------------------------- MODULE CustodyProofs -----------------------------
(***************************************************************************)
(* Proofs about Custody, for any documents and assets, any number of       *)
(* attempts and releases, wherever requests and runs fail or stop.         *)
(*                                                                         *)
(* Documents: the copy to the committed key is reached only through the    *)
(* commit, and nothing removes what was copied.  Renditions: a run that is *)
(* about to save a rendition has stored its object, a run that works on    *)
(* the preview has saved the thumbnail, and what the first attempt stores  *)
(* was not there before.                                                   *)
(***************************************************************************)
EXTENDS Custody, TLAPS

-------------------------------------------------------------------------------
(* Types *)

Renditions == [status : {"NONE", "PROCESSING", "READY", "FAILED", "DEFERRED"},
               sha256 : {None} \cup 0..LastRelease]

\* A rendition row keeps its type when its status, or the row, is written.
LEMMA RenditionWritten ==
  ASSUME rendition \in [Assets -> [Kinds -> Renditions]], NEW a \in Assets, NEW k \in Kinds,
         NEW s \in {"PROCESSING", "FAILED", "DEFERRED"},
         rendition' = [rendition EXCEPT ![a][k].status = s]
  PROVE  /\ rendition' \in [Assets -> [Kinds -> Renditions]]
         /\ rendition'[a][k].status = s
         /\ \A x \in Kinds \ {k} : rendition'[a][x] = rendition[a][x]
         /\ \A x \in Assets \ {a} : rendition'[x] = rendition[x]
<1> DEFINE row == [rendition[a][k] EXCEPT !.status = s]
           rows == [rendition[a] EXCEPT ![k] = row]
<1>1. rendition' = [rendition EXCEPT ![a] = rows]
  OBVIOUS
<1>2. row \in Renditions /\ row.status = s
  BY DEF Renditions
<1> HIDE DEF row
<1>3. /\ rows \in [Kinds -> Renditions] /\ rows[k] = row
      /\ \A x \in Kinds \ {k} : rows[x] = rendition[a][x]
  BY <1>2
<1> HIDE DEF rows
<1> QED BY <1>1, <1>2, <1>3

JobRow == [status : {"NONE", "PENDING", "COMPLETED", "DEAD_LETTER"},
           attempts : 0..MaxAttempts]

LEMMA JobWritten ==
  ASSUME NEW j \in JobRow,
         NEW s \in {"PENDING", "COMPLETED", "DEAD_LETTER"}
  PROVE  /\ [j EXCEPT !.status = s] \in JobRow
         /\ [j EXCEPT !.status = s].status = s
         /\ [j EXCEPT !.status = s].attempts = j.attempts
BY DEF JobRow

LEMMA InitTypeOK == Init => TypeOK
BY CustodyAssumption DEF CustodyAssumption, Init, TypeOK, NoRendition

LEMMA UploadTypeOK ==
  ASSUME TypeOK, NEW d \in Documents, UploadStep(d) \/ ExpirePending(d) \/ AccessDocument(d)
  PROVE  TypeOK'
BY DEF TypeOK, evidenceVars, documentVars, UploadStep, Goes, StorePending, StoreFails, CommitRow,
   RefuseRow, CopyObject, PromotionFails, DeletePending, DeleteFails, UploadLost, ExpirePending,
   AccessDocument

\* A run's kind of rendition.
LEMMA Photographic == {"THUMBNAIL", "PREVIEW"} \subseteq Kinds
BY DEF Kinds

\* How a run ends.
LEMMA RunEnds ==
  ASSUME TypeOK, NEW a \in Assets, NEW s \in {"PENDING", "COMPLETED", "DEAD_LETTER"},
         job' = [job EXCEPT ![a].status = s], runner' = [runner EXCEPT ![a] = "IDLE"]
  PROVE  /\ job' \in [Assets -> JobRow]
         /\ runner' \in [Assets -> {"IDLE", "STARTED", "THUMBNAIL", "PREVIEW"} \cup Rendering]
         /\ runner'[a] = "IDLE"
         /\ job'[a].attempts = job[a].attempts /\ job'[a].status = s
         /\ \A x \in Assets \ {a} : job'[x] = job[x] /\ runner'[x] = runner[x]
<1> DEFINE j == [job[a] EXCEPT !.status = s]
<1>1. job \in [Assets -> JobRow]
  BY DEF TypeOK, JobRow
<1>2. j \in JobRow /\ j.status = s /\ j.attempts = job[a].attempts
  <2>1. job[a] \in JobRow
    BY <1>1
  <2>2. \A r \in JobRow : /\ [r EXCEPT !.status = s] \in JobRow
                          /\ [r EXCEPT !.status = s].status = s
                          /\ [r EXCEPT !.status = s].attempts = r.attempts
    BY JobWritten
  <2> QED BY <2>1, <2>2
<1>3. job' = [job EXCEPT ![a] = j]
  OBVIOUS
<1> HIDE DEF j
<1>4. /\ job' \in [Assets -> JobRow]
      /\ job'[a] = j /\ \A x \in Assets \ {a} : job'[x] = job[x]
  BY <1>1, <1>2, <1>3
<1>5. /\ runner' \in [Assets -> {"IDLE", "STARTED", "THUMBNAIL", "PREVIEW"} \cup Rendering]
      /\ runner'[a] = "IDLE" /\ \A x \in Assets \ {a} : runner'[x] = runner[x]
  BY DEF TypeOK
<1> QED BY <1>2, <1>4, <1>5

LEMMA RunReturns ==
  ASSUME TypeOK, NEW a \in Assets, Return(a)
  PROVE  /\ job' \in [Assets -> JobRow]
         /\ runner' \in [Assets -> {"IDLE", "STARTED", "THUMBNAIL", "PREVIEW"} \cup Rendering]
         /\ runner'[a] = "IDLE"
         /\ job'[a].attempts = job[a].attempts /\ job'[a].status = "COMPLETED"
         /\ \A x \in Assets \ {a} : job'[x] = job[x] /\ runner'[x] = runner[x]
BY RunEnds DEF Return

LEMMA RunThrows ==
  ASSUME TypeOK, NEW a \in Assets, Throw(a)
  PROVE  /\ job' \in [Assets -> JobRow]
         /\ runner' \in [Assets -> {"IDLE", "STARTED", "THUMBNAIL", "PREVIEW"} \cup Rendering]
         /\ runner'[a] = "IDLE"
         /\ job'[a].attempts = job[a].attempts
         /\ job'[a].status \in {"PENDING", "DEAD_LETTER"}
         /\ \A x \in Assets \ {a} : job'[x] = job[x] /\ runner'[x] = runner[x]
<1> DEFINE s == IF job[a].attempts >= MaxAttempts THEN "DEAD_LETTER" ELSE "PENDING"
<1>1. s \in {"PENDING", "DEAD_LETTER"}
  OBVIOUS
<1>2. job' = [job EXCEPT ![a].status = s] /\ runner' = [runner EXCEPT ![a] = "IDLE"]
  BY DEF Throw
<1> HIDE DEF s
<1> QED BY <1>1, <1>2, RunEnds

\* The claim of a run counts one attempt.
LEMMA RunStarts ==
  ASSUME TypeOK, NEW a \in Assets, StartRun(a)
  PROVE  /\ job' \in [Assets -> JobRow]
         /\ job'[a].attempts = job[a].attempts + 1 /\ job'[a].status = "PENDING"
         /\ \A x \in Assets \ {a} : job'[x] = job[x]
<1> DEFINE n == job[a].attempts + 1
           j == [job[a] EXCEPT !.attempts = n]
<1>1. job' = [job EXCEPT ![a] = j]
  BY DEF StartRun
<1>2. job \in [Assets -> JobRow] /\ job[a].status = "PENDING" /\ job[a].attempts < MaxAttempts
  BY DEF StartRun, ToRun, TypeOK, JobRow
<1>3. n \in 0..MaxAttempts
  BY <1>2, CustodyAssumption DEF CustodyAssumption, JobRow
<1> HIDE DEF n
<1>4. j \in JobRow /\ j.attempts = n /\ j.status = "PENDING"
  BY <1>2, <1>3 DEF JobRow
<1> HIDE DEF j
<1> QED BY <1>1, <1>2, <1>4 DEF n

\* A step of an asset that keeps or retypes each of its parts.
LEMMA EvidenceTypeOK ==
  ASSUME TypeOK, NEW a \in Assets, EvidenceStep(a) \/ AccessEvidence(a)
  PROVE  TypeOK'
<1> USE DEF documentVars, Takes, JobRow
<1>1. CASE StoreOriginal(a) \/ OriginalFails(a) \/ IntakeLost(a) \/ AlterOriginal(a)
           \/ AccessEvidence(a)
  <2>1. CASE StoreOriginal(a)
    BY <2>1 DEF StoreOriginal, TypeOK, evidenceVars
  <2>2. CASE OriginalFails(a)
    <3>1. PICK o \in {"ABSENT", "INTACT"} : original' = [original EXCEPT ![a] = o]
      BY <2>2 DEF OriginalFails
    <3> QED BY <2>2, <3>1 DEF OriginalFails, TypeOK, evidenceVars
  <2>3. CASE IntakeLost(a)
    BY <2>3 DEF IntakeLost, TypeOK, evidenceVars
  <2>4. CASE AlterOriginal(a)
    BY <2>4 DEF AlterOriginal, TypeOK, evidenceVars
  <2>5. CASE AccessEvidence(a)
    BY <2>5 DEF AccessEvidence, TypeOK, evidenceVars
  <2> QED BY <1>1, <2>1, <2>2, <2>3, <2>4, <2>5
<1>2. ASSUME NEW type \in Types, RecordAsset(a, type) PROVE TypeOK'
  BY <1>2, JobWritten DEF RecordAsset, TypeOK
<1>3. CASE StartRun(a)
  BY <1>3, RunStarts DEF StartRun, TypeOK
<1>4. CASE SkipReport(a)
  BY <1>4, RunReturns DEF SkipReport, TypeOK
<1>5. CASE DeferVideo(a)
  <2>1. rendition' \in [Assets -> [Kinds -> Renditions]]
    BY <1>5, RenditionWritten DEF DeferVideo, TypeOK, Renditions, Kinds
  <2> QED BY <1>5, <2>1, RunReturns DEF DeferVideo, TypeOK, Renditions
<1>6. CASE VerifyOriginal(a)
  BY <1>6, RunThrows DEF VerifyOriginal, TypeOK
<1>7. CASE RunLost(a)
  BY <1>7 DEF RunLost, TypeOK
<1>8. ASSUME NEW k \in {"THUMBNAIL", "PREVIEW"}, BeginRendition(a, k) PROVE TypeOK'
  <2>1. rendition' \in [Assets -> [Kinds -> Renditions]]
    BY <1>8, RenditionWritten, Photographic DEF BeginRendition, TypeOK, Renditions
  <2> QED BY <1>8, <2>1 DEF BeginRendition, TypeOK, Renditions, Put, Rendering
<1>9. ASSUME NEW k \in {"THUMBNAIL", "PREVIEW"}, PutRendition(a, k) PROVE TypeOK'
  <2>1. rendered' \in [Assets -> [Kinds -> {None} \cup 0..LastRelease]]
    BY <1>9, Photographic DEF PutRendition, TypeOK, Stored
  <2> QED BY <1>9, <2>1 DEF PutRendition, TypeOK, Save, Rendering
<1>10. ASSUME NEW k \in {"THUMBNAIL", "PREVIEW"}, SaveRendition(a, k) PROVE TypeOK'
  <2>1. rendition' \in [Assets -> [Kinds -> Renditions]]
    BY <1>10, Photographic DEF SaveRendition, TypeOK, Renditions
  <2> QED BY <1>10, <2>1, RunReturns DEF SaveRendition, TypeOK, Renditions
<1>11. ASSUME NEW k \in {"THUMBNAIL", "PREVIEW"}, RenditionFails(a, k) PROVE TypeOK'
  <2>1. rendition' \in [Assets -> [Kinds -> Renditions]]
    BY <1>11, RenditionWritten, Photographic DEF RenditionFails, TypeOK, Renditions
  <2>2. rendered' \in [Assets -> [Kinds -> {None} \cup 0..LastRelease]]
    <3>1. CASE UNCHANGED rendered
      BY <3>1 DEF TypeOK
    <3>2. CASE rendered' = [rendered EXCEPT ![a][k] = Stored(@)]
      BY <3>2, Photographic DEF TypeOK, Stored
    <3> QED BY <1>11, <3>1, <3>2 DEF RenditionFails
  <2> QED BY <1>11, <2>1, <2>2, RunThrows DEF RenditionFails, TypeOK, Renditions
<1> QED BY <1>1, <1>2, <1>3, <1>4, <1>5, <1>6, <1>7, <1>8, <1>9, <1>10, <1>11 DEF EvidenceStep

LEMMA NextTypeOK == TypeOK /\ [Next]_vars => TypeOK'
<1> SUFFICES ASSUME TypeOK, [Next]_vars PROVE TypeOK'
  OBVIOUS
<1>1. CASE Deploy
  BY <1>1, CustodyAssumption DEF Deploy, TypeOK, documentVars, CustodyAssumption
<1>2. CASE UNCHANGED vars
  BY <1>2 DEF vars, documentVars, evidenceVars, TypeOK
<1> QED BY <1>1, <1>2, UploadTypeOK, EvidenceTypeOK DEF Next

\* Objects, rows, requests, jobs and runs keep their types.
THEOREM CustodyTypes == Spec => []TypeOK
BY InitTypeOK, NextTypeOK, PTL DEF Spec

-------------------------------------------------------------------------------
(* Documents *)

\* A request past its commit has its row; a copy and a signed link need one.
DocumentsOwned ==
  /\ committed \subseteq owned
  /\ \A d \in Documents : upload[d] \in {"OWNED", "COPIED"} => d \in owned
  /\ granted \cap Documents \subseteq committed

LEMMA DocumentsNext == TypeOK /\ DocumentsOwned /\ [Next]_vars => DocumentsOwned'
<1> SUFFICES ASSUME TypeOK, DocumentsOwned, [Next]_vars PROVE DocumentsOwned'
  OBVIOUS
<1> USE DEF documentVars, evidenceVars
<1>1. ASSUME NEW d \in Documents, UploadStep(d) \/ ExpirePending(d) PROVE DocumentsOwned'
  BY <1>1 DEF TypeOK, DocumentsOwned, UploadStep, Goes, StorePending, StoreFails, CommitRow,
     RefuseRow, CopyObject, PromotionFails, DeletePending, DeleteFails, UploadLost, ExpirePending
<1>2. ASSUME NEW d \in Documents, AccessDocument(d) PROVE DocumentsOwned'
  BY <1>2 DEF AccessDocument, DocumentsOwned
<1>3. ASSUME NEW a \in Assets, AccessEvidence(a) PROVE DocumentsOwned'
  BY <1>3, CustodyAssumption DEF AccessEvidence, DocumentsOwned, CustodyAssumption
<1>4. ASSUME UNCHANGED <<documentVars, granted>> PROVE DocumentsOwned'
  BY <1>4 DEF DocumentsOwned
<1>5. ASSUME NEW a \in Assets, EvidenceStep(a) PROVE UNCHANGED <<documentVars, granted>>
  BY <1>5 DEF EvidenceStep, StoreOriginal, OriginalFails, IntakeLost, AlterOriginal, RecordAsset,
     StartRun, SkipReport, DeferVideo, VerifyOriginal, RunLost, BeginRendition, PutRendition,
     SaveRendition, RenditionFails
<1>6. CASE Deploy
  BY <1>4, <1>6 DEF Deploy
<1>7. CASE UNCHANGED vars
  BY <1>4, <1>7 DEF vars
<1> QED BY <1>1, <1>2, <1>3, <1>4, <1>5, <1>6, <1>7 DEF Next

\* However requests fail or stop, every object under a committed key has its row.
THEOREM DocumentsHaveOwners == Spec => []NoUnownedDocument
<1>1. Init => TypeOK /\ DocumentsOwned
  BY InitTypeOK DEF Init, DocumentsOwned
<1>2. DocumentsOwned => NoUnownedDocument
  BY DEF DocumentsOwned, NoUnownedDocument
<1> QED BY <1>1, <1>2, NextTypeOK, DocumentsNext, PTL DEF Spec

-------------------------------------------------------------------------------
(* Evidence *)

\* What one asset's request, row, object, job and renditions are to each other.
\* During the first attempt, what has not been stored yet is not there.
AssetSound(a) ==
  /\ intake[a] = "NEW" => asset[a] = "NONE" /\ a \notin granted
  /\ intake[a] = "STORED" => original[a] # "ABSENT" /\ asset[a] = "NONE"
  /\ a \in granted => asset[a] # "NONE"
  /\ asset[a] # "NONE" => original[a] # "ABSENT"
  /\ asset[a] = "NONE" => job[a].status = "NONE"
  /\ runner[a] # "IDLE" => job[a].status = "PENDING" /\ job[a].attempts > 0
  /\ runner[a] \notin {"IDLE", "STARTED"} => asset[a] = "PHOTO"

Unrendered(a) == rendition[a] = [k \in Kinds |-> NoRendition]

RenditionsSound(a) ==
  /\ asset[a] \in {"NONE", "WRITTEN_REPORT"} => Unrendered(a)
  /\ runner[a] \in {"PREVIEW", "PUT_PREVIEW", "SAVE_PREVIEW"} =>
       rendition[a]["THUMBNAIL"].status = "READY"
  /\ job[a].status = "COMPLETED" =>
       /\ asset[a] = "PHOTO" => \A k \in {"THUMBNAIL", "PREVIEW"} :
                                  rendition[a][k].status = "READY"
       /\ asset[a] = "VIDEO" => rendition[a]["POSTER"].status = "DEFERRED"

Objects(a) ==
  /\ \A k \in {"THUMBNAIL", "PREVIEW"} : runner[a] = Save[k] => rendered[a][k] # None
  /\ \A k \in Kinds : /\ rendered[a][k] \in {None} \cup 0..release
                      /\ rendition[a][k].status = "READY" =>
                           rendered[a][k] # None /\ rendition[a][k].sha256 \in 0..release
  /\ job[a].attempts = 0 => \A k \in Kinds : rendered[a][k] = None
  /\ job[a].attempts = 1 =>
       /\ \A k \in Kinds : rendition[a][k].status = "READY" =>
            rendition[a][k].sha256 = rendered[a][k]
       /\ \A k \in {"THUMBNAIL", "PREVIEW"} :
            /\ runner[a] = Put[k] => rendered[a][k] = None
            /\ runner[a] = Save[k] => rendered[a][k] = release
       /\ runner[a] \in {"STARTED", "THUMBNAIL"} => \A k \in Kinds : rendered[a][k] = None
       /\ runner[a] \in {"PUT_THUMBNAIL", "SAVE_THUMBNAIL", "PREVIEW"} =>
            rendered[a]["PREVIEW"] = None

Sound(a) == AssetSound(a) /\ RenditionsSound(a) /\ Objects(a)

Inv == TypeOK /\ \A a \in Assets : Sound(a)

\* An asset none of whose parts change stays sound.
LEMMA SoundKept ==
  ASSUME NEW x \in Assets, Sound(x), UNCHANGED release,
         intake'[x] = intake[x], original'[x] = original[x], asset'[x] = asset[x],
         job'[x] = job[x], runner'[x] = runner[x], rendition'[x] = rendition[x],
         rendered'[x] = rendered[x], (x \in granted') = (x \in granted)
  PROVE  Sound(x)'
BY DEF Sound, AssetSound, RenditionsSound, Unrendered, Objects

\* A step of one asset leaves the others alone.
LEMMA OthersKept ==
  ASSUME TypeOK, NEW a \in Assets, EvidenceStep(a) \/ AccessEvidence(a),
         NEW x \in Assets \ {a}, Sound(x)
  PROVE  Sound(x)'
<1> DEFINE Kept ==
      /\ UNCHANGED release
      /\ intake'[x] = intake[x] /\ original'[x] = original[x] /\ asset'[x] = asset[x]
      /\ job'[x] = job[x] /\ runner'[x] = runner[x] /\ rendition'[x] = rendition[x]
      /\ rendered'[x] = rendered[x] /\ (x \in granted') = (x \in granted)
<1> USE DEF documentVars, evidenceVars, Takes
<1>1. CASE StoreOriginal(a) \/ OriginalFails(a) \/ IntakeLost(a) \/ AlterOriginal(a)
           \/ AccessEvidence(a)
  <2>1. Kept
    BY <1>1 DEF TypeOK, StoreOriginal, OriginalFails, IntakeLost, AlterOriginal, AccessEvidence
  <2> QED BY <2>1, SoundKept
<1>2. ASSUME NEW type \in Types, RecordAsset(a, type) PROVE Sound(x)'
  <2>1. Kept
    BY <1>2 DEF TypeOK, RecordAsset
  <2> QED BY <2>1, SoundKept
<1>3. CASE StartRun(a) \/ RunLost(a)
  <2>1. Kept
    BY <1>3, RunStarts DEF TypeOK, StartRun, RunLost
  <2> QED BY <2>1, SoundKept
<1>4. CASE SkipReport(a) \/ VerifyOriginal(a)
  <2>1. Kept
    BY <1>4, RunReturns, RunThrows DEF TypeOK, SkipReport, VerifyOriginal
  <2> QED BY <2>1, SoundKept
<1>5. CASE DeferVideo(a)
  <2>1. rendition'[x] = rendition[x]
    BY <1>5, RenditionWritten DEF DeferVideo, TypeOK, Renditions, Kinds
  <2>2. Kept
    BY <1>5, <2>1, RunReturns DEF DeferVideo
  <2> QED BY <2>2, SoundKept
<1>6. ASSUME NEW k \in {"THUMBNAIL", "PREVIEW"}, BeginRendition(a, k) PROVE Sound(x)'
  <2>1. rendition'[x] = rendition[x]
    BY <1>6, RenditionWritten, Photographic DEF BeginRendition, TypeOK, Renditions
  <2>2. Kept
    BY <1>6, <2>1 DEF BeginRendition, TypeOK
  <2> QED BY <2>2, SoundKept
<1>7. ASSUME NEW k \in {"THUMBNAIL", "PREVIEW"}, PutRendition(a, k) PROVE Sound(x)'
  <2>1. Kept
    BY <1>7 DEF PutRendition, TypeOK
  <2> QED BY <2>1, SoundKept
<1>8. ASSUME NEW k \in {"THUMBNAIL", "PREVIEW"}, SaveRendition(a, k) PROVE Sound(x)'
  <2>1. rendition'[x] = rendition[x]
    BY <1>8 DEF SaveRendition, TypeOK
  <2>2. Kept
    BY <1>8, <2>1, RunReturns DEF SaveRendition, TypeOK
  <2> QED BY <2>2, SoundKept
<1>9. ASSUME NEW k \in {"THUMBNAIL", "PREVIEW"}, RenditionFails(a, k) PROVE Sound(x)'
  <2>1. rendition'[x] = rendition[x]
    BY <1>9, RenditionWritten, Photographic DEF RenditionFails, TypeOK, Renditions
  <2>2. rendered'[x] = rendered[x]
    BY <1>9 DEF RenditionFails, TypeOK
  <2>3. Kept
    BY <1>9, <2>1, <2>2, RunThrows DEF RenditionFails
  <2> QED BY <2>3, SoundKept
<1> QED BY <1>1, <1>2, <1>3, <1>4, <1>5, <1>6, <1>7, <1>8, <1>9 DEF EvidenceStep

\* The intake of an asset.
LEMMA IntakeSound ==
  ASSUME Inv, NEW a \in Assets,
         StoreOriginal(a) \/ OriginalFails(a) \/ IntakeLost(a) \/ AlterOriginal(a)
           \/ AccessEvidence(a) \/ \E type \in Types : RecordAsset(a, type)
  PROVE  Sound(a)'
<1> USE DEF documentVars, evidenceVars, Takes
<1>0. Sound(a) /\ TypeOK
  BY DEF Inv
<1>1. CASE StoreOriginal(a) \/ OriginalFails(a) \/ IntakeLost(a) \/ AlterOriginal(a)
           \/ AccessEvidence(a)
  <2>1. AssetSound(a)'
    BY <1>0, <1>1 DEF StoreOriginal, OriginalFails, IntakeLost, AlterOriginal, AccessEvidence,
       Sound, AssetSound, TypeOK
  <2>2. RenditionsSound(a)' /\ Objects(a)'
    BY <1>0, <1>1 DEF StoreOriginal, OriginalFails, IntakeLost, AlterOriginal, AccessEvidence,
       Sound, RenditionsSound, Unrendered, Objects
  <2> QED BY <2>1, <2>2 DEF Sound
<1>2. ASSUME NEW type \in Types, RecordAsset(a, type) PROVE Sound(a)'
  <2>1. /\ intake[a] = "STORED" /\ intake'[a] = "ENDED" /\ asset'[a] = type /\ asset[a] = "NONE"
        /\ original'[a] # "ABSENT" /\ job[a].status = "NONE" /\ runner[a] = "IDLE"
        /\ UNCHANGED <<granted, original, runner, rendition, rendered, release>>
    BY <1>0, <1>2 DEF RecordAsset, Sound, AssetSound, TypeOK
  <2>2. job'[a].status = "PENDING" /\ job'[a].attempts = job[a].attempts
    BY <1>0, <1>2 DEF RecordAsset, TypeOK
  <2>3. type # "NONE"
    BY DEF Types
  <2>4. AssetSound(a)' /\ RenditionsSound(a)'
    BY <1>0, <2>1, <2>2, <2>3 DEF Sound, AssetSound, RenditionsSound, Unrendered
  <2>5. Objects(a)'
    BY <1>0, <2>1, <2>2 DEF Sound, Objects
  <2> QED BY <2>4, <2>5 DEF Sound
<1> QED BY <1>1, <1>2

\* Runs that start, end early, or are lost.
LEMMA RunSound ==
  ASSUME Inv, NEW a \in Assets,
         StartRun(a) \/ SkipReport(a) \/ DeferVideo(a) \/ VerifyOriginal(a) \/ RunLost(a)
  PROVE  Sound(a)'
<1>0. Sound(a) /\ TypeOK
  BY DEF Inv
<1>1. CASE StartRun(a)
  <2>1. /\ runner[a] = "IDLE" /\ job[a].status = "PENDING" /\ runner'[a] = "STARTED"
        /\ UNCHANGED <<granted, intake, original, asset, rendition, rendered, release>>
    BY <1>0, <1>1 DEF StartRun, ToRun, TypeOK
  <2>2. /\ job'[a].attempts = job[a].attempts + 1 /\ job'[a].status = "PENDING"
        /\ job[a].attempts \in Nat
    BY <1>0, <1>1, RunStarts, CustodyAssumption DEF TypeOK, CustodyAssumption
  <2>3. AssetSound(a)' /\ RenditionsSound(a)'
    BY <1>0, <2>1, <2>2 DEF Sound, AssetSound, RenditionsSound, Unrendered
  <2>4. \A k \in {"THUMBNAIL", "PREVIEW"} : Put[k] # "STARTED" /\ Save[k] # "STARTED"
    BY DEF Put, Save
  <2>5. \A k \in Kinds : rendition[a][k].status = "READY" => rendered[a][k] # None
    BY <1>0 DEF Sound, Objects
  <2>6. job'[a].attempts # 0 /\ (job'[a].attempts = 1 => job[a].attempts = 0)
    BY <2>2
  <2>7. Objects(a)'
    BY <1>0, <2>1, <2>4, <2>5, <2>6 DEF Sound, Objects
  <2> QED BY <2>3, <2>7 DEF Sound
<1>2. CASE SkipReport(a)
  <2>1. /\ runner[a] = "STARTED" /\ asset[a] = "WRITTEN_REPORT"
        /\ UNCHANGED <<granted, intake, original, asset, rendition, rendered, release>>
        /\ runner'[a] = "IDLE"
        /\ job'[a].attempts = job[a].attempts /\ job'[a].status = "COMPLETED"
    BY <1>0, <1>2, RunReturns DEF SkipReport
  <2>2. \A k \in {"THUMBNAIL", "PREVIEW"} : Put[k] # "IDLE" /\ Save[k] # "IDLE"
    BY DEF Put, Save
  <2> QED BY <1>0, <2>1, <2>2 DEF Sound, AssetSound, RenditionsSound, Unrendered, Objects
<1>3. CASE DeferVideo(a)
  <2>1. /\ runner[a] = "STARTED" /\ asset[a] = "VIDEO"
        /\ UNCHANGED <<granted, intake, original, asset, rendered, release>>
        /\ runner'[a] = "IDLE"
        /\ job'[a].attempts = job[a].attempts /\ job'[a].status = "COMPLETED"
    BY <1>0, <1>3, RunReturns DEF DeferVideo
  <2>2. /\ rendition'[a]["POSTER"].status = "DEFERRED"
        /\ \A k \in Kinds \ {"POSTER"} : rendition'[a][k] = rendition[a][k]
    BY <1>0, <1>3, RenditionWritten DEF DeferVideo, TypeOK, Renditions, Kinds
  <2>3. \A k \in {"THUMBNAIL", "PREVIEW"} : Put[k] # "IDLE" /\ Save[k] # "IDLE"
    BY DEF Put, Save
  <2>4. AssetSound(a)' /\ RenditionsSound(a)'
    BY <1>0, <2>1, <2>2 DEF Sound, AssetSound, RenditionsSound
  <2>5. \A k \in Kinds : rendition'[a][k].status = "READY" => rendition'[a][k] = rendition[a][k]
    BY <2>2
  <2>6. Objects(a)'
    BY <1>0, <2>1, <2>3, <2>5 DEF Sound, Objects
  <2> QED BY <2>4, <2>6 DEF Sound
<1>4. CASE VerifyOriginal(a)
  <2>1. /\ runner[a] = "STARTED" /\ asset[a] = "PHOTO" /\ job[a].status = "PENDING"
        /\ UNCHANGED <<granted, intake, original, asset, rendition, rendered, release>>
        /\ job'[a].attempts = job[a].attempts
        /\ \/ runner'[a] = "THUMBNAIL" /\ job'[a] = job[a]
           \/ runner'[a] = "IDLE" /\ job'[a].status \in {"PENDING", "DEAD_LETTER"}
    BY <1>0, <1>4, RunThrows DEF VerifyOriginal, Sound, AssetSound, TypeOK
  <2>2. \A k \in {"THUMBNAIL", "PREVIEW"} :
          {Put[k], Save[k]} \cap {"IDLE", "THUMBNAIL"} = {}
    BY DEF Put, Save
  <2>3. AssetSound(a)' /\ RenditionsSound(a)'
    BY <1>0, <2>1 DEF Sound, AssetSound, RenditionsSound
  <2>4. Objects(a)'
    BY <1>0, <2>1, <2>2 DEF Sound, Objects
  <2> QED BY <2>3, <2>4 DEF Sound
<1>5. CASE RunLost(a)
  <2>1. /\ runner'[a] = "IDLE"
        /\ UNCHANGED <<granted, intake, original, asset, job, rendition, rendered, release>>
    BY <1>0, <1>5 DEF RunLost, TypeOK
  <2>2. \A k \in {"THUMBNAIL", "PREVIEW"} : Put[k] # "IDLE" /\ Save[k] # "IDLE"
    BY DEF Put, Save
  <2> QED BY <1>0, <2>1, <2>2 DEF Sound, AssetSound, RenditionsSound, Unrendered, Objects
<1> QED BY <1>1, <1>2, <1>3, <1>4, <1>5

\* The steps of one rendition.
LEMMA RenditionSound ==
  ASSUME Inv, NEW a \in Assets, NEW k \in {"THUMBNAIL", "PREVIEW"},
         \/ BeginRendition(a, k) \/ PutRendition(a, k) \/ SaveRendition(a, k)
         \/ RenditionFails(a, k)
  PROVE  Sound(a)'
<1>0. Sound(a) /\ TypeOK /\ k \in Kinds /\ "THUMBNAIL" \in Kinds /\ "PREVIEW" \in Kinds
  BY DEF Inv, Kinds
<1>a. /\ release \in Nat /\ None \notin Nat
      /\ rendered \in [Assets -> [Kinds -> {None} \cup 0..LastRelease]]
      /\ rendition \in [Assets -> [Kinds -> Renditions]]
  BY <1>0, CustodyAssumption DEF TypeOK, CustodyAssumption, None, Renditions
<1> USE DEF Put, Save
<1>1. CASE BeginRendition(a, k)
  <2>1. /\ runner[a] = k /\ runner'[a] = Put[k]
        /\ UNCHANGED <<granted, intake, original, asset, job, rendered, release>>
    BY <1>0, <1>1 DEF BeginRendition, TypeOK
  <2>2. /\ rendition'[a][k].status = "PROCESSING"
        /\ \A x \in Kinds \ {k} : rendition'[a][x] = rendition[a][x]
    BY <1>0, <1>1, <1>a, RenditionWritten DEF BeginRendition
  <2>3. asset[a] = "PHOTO" /\ job[a].status = "PENDING"
    BY <1>0, <2>1 DEF Sound, AssetSound
  <2>4. AssetSound(a)'
    BY <1>0, <2>1, <2>3 DEF Sound, AssetSound
  <2>5. RenditionsSound(a)'
    BY <1>0, <2>1, <2>2, <2>3 DEF Sound, RenditionsSound
  <2>6. \A x \in Kinds : rendition'[a][x].status = "READY" => rendition'[a][x] = rendition[a][x]
    BY <2>2
  <2>7. Objects(a)'
    BY <1>0, <2>1, <2>6 DEF Sound, Objects
  <2> QED BY <2>4, <2>5, <2>7 DEF Sound
<1>2. CASE PutRendition(a, k)
  <2>1. /\ runner[a] = Put[k] /\ runner'[a] = Save[k]
        /\ UNCHANGED <<granted, intake, original, asset, job, rendition, release>>
    BY <1>0, <1>2 DEF PutRendition, TypeOK
  <2>2. /\ rendered'[a][k] = Stored(rendered[a][k])
        /\ \A x \in Kinds \ {k} : rendered'[a][x] = rendered[a][x]
    BY <1>0, <1>2, <1>a DEF PutRendition
  <2>3. AssetSound(a)' /\ RenditionsSound(a)'
    BY <1>0, <2>1 DEF Sound, AssetSound, RenditionsSound, Unrendered
  <2>4. /\ rendered'[a][k] \in 0..release /\ rendered'[a][k] # None
        /\ rendered[a][k] # None => rendered'[a][k] = rendered[a][k]
        /\ job[a].attempts = 1 => rendered'[a][k] = release
    BY <1>0, <1>a, <2>1, <2>2 DEF Stored, Sound, Objects
  <2>5. job[a].attempts # 0
    BY <1>0, <2>1 DEF Sound, AssetSound, TypeOK
  <2>6. \A x \in Kinds : rendition[a][x].status = "READY" => rendered'[a][x] = rendered[a][x]
    BY <1>0, <2>2, <2>4 DEF Sound, Objects
  <2>7. Objects(a)'
    BY <1>0, <2>1, <2>2, <2>4, <2>5, <2>6 DEF Sound, Objects
  <2> QED BY <2>3, <2>7 DEF Sound
<1>3. CASE SaveRendition(a, k)
  <2>1. /\ runner[a] = Save[k]
        /\ UNCHANGED <<granted, intake, original, asset, rendered, release>>
        /\ job'[a].attempts = job[a].attempts
        /\ \/ k = "PREVIEW" /\ runner'[a] = "IDLE" /\ job'[a].status = "COMPLETED"
           \/ k = "THUMBNAIL" /\ runner'[a] = "PREVIEW" /\ job'[a] = job[a]
    BY <1>0, <1>3, RunReturns DEF SaveRendition, TypeOK
  <2>2. /\ rendition'[a][k] = [status |-> "READY", sha256 |-> release]
        /\ \A x \in Kinds \ {k} : rendition'[a][x] = rendition[a][x]
    BY <1>0, <1>3, <1>a DEF SaveRendition
  <2>3. asset[a] = "PHOTO" /\ job[a].status = "PENDING" /\ job[a].attempts > 0
    BY <1>0, <2>1 DEF Sound, AssetSound
  <2>4. AssetSound(a)'
    BY <1>0, <2>1, <2>3 DEF Sound, AssetSound
  <2>5. RenditionsSound(a)'
    BY <1>0, <2>1, <2>2, <2>3 DEF Sound, RenditionsSound
  <2>6. rendered[a][k] # None /\ (job[a].attempts = 1 => rendered[a][k] = release)
    BY <1>0, <2>1 DEF Sound, Objects
  <2>7. \A x \in Kinds : /\ rendition'[a][x].status = "READY" =>
                              rendered[a][x] # None /\ rendition'[a][x].sha256 \in 0..release
                         /\ job[a].attempts = 1 /\ rendition'[a][x].status = "READY" =>
                              rendition'[a][x].sha256 = rendered[a][x]
    <3> SUFFICES ASSUME NEW x \in Kinds, rendition'[a][x].status = "READY"
                 PROVE  /\ rendered[a][x] # None /\ rendition'[a][x].sha256 \in 0..release
                        /\ job[a].attempts = 1 => rendition'[a][x].sha256 = rendered[a][x]
      OBVIOUS
    <3>1. CASE x = k
      BY <1>a, <2>2, <2>6, <3>1
    <3>2. CASE x # k
      <4>1. rendition[a][x].status = "READY" /\ rendition'[a][x] = rendition[a][x]
        BY <2>2, <3>2
      <4> QED BY <1>0, <4>1 DEF Sound, Objects
    <3> QED BY <3>1, <3>2
  <2>8. /\ \A q \in {"THUMBNAIL", "PREVIEW"} : runner'[a] # Put[q] /\ runner'[a] # Save[q]
        /\ runner'[a] \in {"IDLE", "PREVIEW"}
        /\ runner'[a] = "PREVIEW" => runner[a] = "SAVE_THUMBNAIL"
    BY <2>1
  <2> HIDE DEF Put, Save
  <2>9. \A x \in Kinds : rendered[a][x] \in {None} \cup 0..release
    BY <1>0 DEF Sound, Objects
  <2>10. runner'[a] = "PREVIEW" /\ job[a].attempts = 1 => rendered[a]["PREVIEW"] = None
    BY <1>0, <2>8 DEF Sound, Objects
  <2>11. Objects(a)'
    BY <2>1, <2>3, <2>7, <2>8, <2>9, <2>10 DEF Objects
  <2> QED BY <2>4, <2>5, <2>11 DEF Sound
<1>4. CASE RenditionFails(a, k)
  <2>1. /\ runner[a] \in {Put[k], Save[k]} /\ runner'[a] = "IDLE"
        /\ UNCHANGED <<granted, intake, original, asset, release>>
        /\ job'[a].attempts = job[a].attempts /\ job'[a].status \in {"PENDING", "DEAD_LETTER"}
    BY <1>0, <1>4, RunThrows DEF RenditionFails, documentVars
  <2>2. /\ rendition'[a][k].status = "FAILED"
        /\ \A x \in Kinds \ {k} : rendition'[a][x] = rendition[a][x]
    BY <1>0, <1>4, <1>a, RenditionWritten DEF RenditionFails
  <2>3. /\ rendered'[a][k] \in {rendered[a][k], Stored(rendered[a][k])}
        /\ \A x \in Kinds \ {k} : rendered'[a][x] = rendered[a][x]
    <3>1. CASE UNCHANGED rendered
      BY <3>1
    <3>2. CASE rendered' = [rendered EXCEPT ![a][k] = Stored(@)]
      BY <1>0, <1>a, <3>2
    <3> QED BY <1>4, <3>1, <3>2 DEF RenditionFails
  <2>4. asset[a] = "PHOTO" /\ job[a].attempts > 0
    BY <1>0, <2>1 DEF Sound, AssetSound
  <2>5. AssetSound(a)' /\ RenditionsSound(a)'
    BY <1>0, <2>1, <2>2, <2>4 DEF Sound, AssetSound, RenditionsSound
  <2>6. rendered'[a][k] \in {None} \cup 0..release
    BY <1>0, <1>a, <2>3 DEF Stored, Sound, Objects
  <2>7. \A x \in Kinds : rendition'[a][x].status = "READY" =>
          rendition'[a][x] = rendition[a][x] /\ rendered'[a][x] = rendered[a][x]
    BY <2>2, <2>3
  <2>8. \A q \in {"THUMBNAIL", "PREVIEW"} : runner'[a] # Put[q] /\ runner'[a] # Save[q]
    BY <2>1
  <2> HIDE DEF Put, Save
  <2>9. \A x \in Kinds : rendered'[a][x] \in {None} \cup 0..release
    BY <1>0, <2>3, <2>6 DEF Sound, Objects
  <2>10. \A x \in Kinds : rendition'[a][x].status = "READY" =>
           /\ rendered'[a][x] # None /\ rendition'[a][x].sha256 \in 0..release
           /\ job[a].attempts = 1 => rendition'[a][x].sha256 = rendered'[a][x]
    BY <1>0, <2>7 DEF Sound, Objects
  <2>11. Objects(a)'
    BY <2>1, <2>4, <2>8, <2>9, <2>10 DEF Objects
  <2> QED BY <2>5, <2>11 DEF Sound
<1> QED BY <1>1, <1>2, <1>3, <1>4

LEMMA InitInv == Init => Inv
<1> SUFFICES ASSUME Init, NEW a \in Assets PROVE Sound(a)
  BY InitTypeOK DEF Inv
<1> USE DEF Init, Put, Save, None, NoRendition
<1>1. AssetSound(a)
  BY DEF AssetSound
<1>2. RenditionsSound(a)
  BY DEF RenditionsSound, Unrendered
<1>3. Objects(a)
  BY DEF Objects
<1> QED BY <1>1, <1>2, <1>3 DEF Sound

LEMMA NextInv == Inv /\ [Next]_vars => Inv'
<1> SUFFICES ASSUME Inv, [Next]_vars PROVE Inv'
  OBVIOUS
<1>1. TypeOK /\ TypeOK' /\ \A a \in Assets : Sound(a)
  BY NextTypeOK DEF Inv
<1>2. ASSUME NEW a \in Assets, EvidenceStep(a) \/ AccessEvidence(a) PROVE Inv'
  <2>1. Sound(a)'
    BY <1>2, IntakeSound, RunSound, RenditionSound DEF EvidenceStep
  <2>2. \A x \in Assets \ {a} : Sound(x)'
    BY <1>1, <1>2, OthersKept
  <2> QED BY <1>1, <2>1, <2>2 DEF Inv
<1>3. ASSUME UNCHANGED evidenceVars, \A a \in Assets : (a \in granted') = (a \in granted)
      PROVE  Inv'
  <2>1. \A a \in Assets : Sound(a)'
    BY <1>1, <1>3, SoundKept DEF evidenceVars
  <2> QED BY <1>1, <2>1 DEF Inv
<1>4. ASSUME NEW d \in Documents, UploadStep(d) \/ ExpirePending(d) PROVE Inv'
  BY <1>3, <1>4 DEF UploadStep, StorePending, StoreFails, CommitRow, RefuseRow, CopyObject,
     PromotionFails, DeletePending, DeleteFails, UploadLost, ExpirePending
<1>5. ASSUME NEW d \in Documents, AccessDocument(d) PROVE Inv'
  BY <1>3, <1>5, CustodyAssumption DEF AccessDocument, CustodyAssumption
<1>6. CASE Deploy
  <2>1. ASSUME NEW a \in Assets PROVE Sound(a)'
    <3>1. /\ UNCHANGED <<documentVars, granted, intake, original, asset, job, runner, rendition,
                         rendered>>
          /\ runner[a] = "IDLE" /\ release' = release + 1 /\ release \in Nat
      BY <1>1, <1>6, CustodyAssumption DEF Deploy, TypeOK, CustodyAssumption
    <3>2. AssetSound(a)' /\ RenditionsSound(a)'
      BY <1>1, <3>1 DEF Sound, AssetSound, RenditionsSound, Unrendered
    <3>3. \A x : x \in 0..release => x \in 0..release'
      BY <3>1
    <3>4. \A k \in {"THUMBNAIL", "PREVIEW"} : Put[k] # "IDLE" /\ Save[k] # "IDLE"
      BY DEF Put, Save
    <3>5. Objects(a)'
      BY <1>1, <3>1, <3>3, <3>4 DEF Sound, Objects
    <3> QED BY <3>2, <3>5 DEF Sound
  <2> QED BY <1>1, <2>1 DEF Inv
<1>7. CASE UNCHANGED vars
  BY <1>3, <1>7 DEF vars
<1> QED BY <1>2, <1>4, <1>5, <1>6, <1>7 DEF Next

\* A signed link leads to bytes that stay under a row that owns them.
THEOREM LinksResolve == Spec => []GrantsResolve
<1>1. Init => Inv /\ DocumentsOwned
  BY InitInv DEF Init, DocumentsOwned
<1>2. Inv /\ DocumentsOwned /\ [Next]_vars => (Inv /\ DocumentsOwned)'
  BY NextInv, DocumentsNext DEF Inv
<1>3. Inv /\ DocumentsOwned => GrantsResolve
  BY DEF Inv, DocumentsOwned, GrantsResolve, Sound, AssetSound
<1> QED BY <1>1, <1>2, <1>3, PTL DEF Spec

\* A rendition job that completes has done all its work, whatever attempts it took.
THEOREM CompletedJobsRendered == Spec => []CompletedIsRendered
<1>1. Inv => CompletedIsRendered
  <2> SUFFICES ASSUME Inv, NEW a \in Assets, job[a].status = "COMPLETED"
               PROVE  CASE asset[a] = "PHOTO" -> \A k \in {"THUMBNAIL", "PREVIEW"} :
                                                   rendition[a][k].status = "READY"
                        [] asset[a] = "VIDEO" -> rendition[a]["POSTER"].status = "DEFERRED"
                        [] OTHER -> rendition[a] = [k \in Kinds |-> NoRendition]
    BY DEF CompletedIsRendered
  <2>1. asset[a] \in {"NONE", "PHOTO", "VIDEO", "WRITTEN_REPORT"} /\ RenditionsSound(a)
    BY DEF Inv, TypeOK, Types, Sound
  <2> QED BY <2>1 DEF RenditionsSound, Unrendered
<1> QED BY <1>1, InitInv, NextInv, PTL DEF Spec

\* A READY row names an object that exists, and its hash unless an attempt under another
\* library came second.
THEOREM ReadyRenditionsStored == Spec => []ReadyIsStored
<1>1. Inv => ReadyIsStored
  <2> SUFFICES ASSUME Inv, NEW a \in Assets, NEW k \in Kinds, rendition[a][k].status = "READY"
               PROVE  /\ rendered[a][k] # None
                      /\ job[a].attempts = 1 \/ release = 0 =>
                           rendition[a][k].sha256 = rendered[a][k]
    BY DEF ReadyIsStored
  <2>1. Objects(a)
    BY DEF Inv, Sound
  <2> QED BY <2>1 DEF Objects
<1> QED BY <1>1, InitInv, NextInv, PTL DEF Spec
===============================================================================
