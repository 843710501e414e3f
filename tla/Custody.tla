-------------------------------- MODULE Custody --------------------------------
(***************************************************************************)
(* Custody of private objects: voter documents and incident evidence in    *)
(* one bucket, written to before and after the rows that own them.         *)
(*                                                                         *)
(* A voter document is stored as pending, owned by a row once its          *)
(* transaction commits, and only then copied to the key the row names.  An *)
(* evidence original is stored under its final key, then owned by a row    *)
(* that schedules its renditions.  A request is one step per storage call  *)
(* or transaction; any of them may fail, with or without its effect on     *)
(* storage, and the process may stop between two.                          *)
(*                                                                         *)
(* The rendition job is given to one runner at a time, again after an      *)
(* interruption or a failure, up to its attempts (module WorkerJobs).      *)
(* Keys are new UUIDs, so no object is shared by two documents or assets.  *)
(***************************************************************************)
EXTENDS Integers

CONSTANTS
  Documents, Assets,
  MaxAttempts,     \* BackgroundJob.maxAttempts
  LastRelease      \* releases that bring another rendering library (bound)

ASSUME CustodyAssumption ==
  /\ Documents \cap Assets = {}
  /\ MaxAttempts \in Nat \ {0} /\ LastRelease \in Nat

VARIABLES
  upload,      \* where each document's request is
  pending,     \* documents with an object under voter-verification/pending/
  committed,   \* documents with an object under their committed key
  owned,       \* documents with a VoterVerificationDocument row
  granted,     \* objects a signed URL was issued for
  intake,      \* where each asset's finalize request is
  original,    \* the object under each asset's originalStorageKey
  asset,       \* EvidenceAsset: its type, or NONE when there is no row
  job,         \* evidence.derivatives.generate: status and attempts
  runner,      \* where the job's run is
  rendition,   \* EvidenceDerivative rows: status and sha256
  rendered,    \* the object under each rendition's key
  release      \* the rendering library deployed; what it renders hashes to it

documentVars == <<upload, pending, committed, owned>>
evidenceVars == <<intake, original, asset, job, runner, rendition, rendered, release>>
vars == <<documentVars, evidenceVars, granted>>

Kinds == {"THUMBNAIL", "PREVIEW", "POSTER"}
Types == {"PHOTO", "VIDEO", "WRITTEN_REPORT"}

None == -1
NoRendition == [status |-> "NONE", sha256 |-> None]

Put  == [THUMBNAIL |-> "PUT_THUMBNAIL", PREVIEW |-> "PUT_PREVIEW"]
Save == [THUMBNAIL |-> "SAVE_THUMBNAIL", PREVIEW |-> "SAVE_PREVIEW"]
Rendering == {Put[k] : k \in {"THUMBNAIL", "PREVIEW"}}
               \cup {Save[k] : k \in {"THUMBNAIL", "PREVIEW"}}

Init ==
  /\ upload = [d \in Documents |-> "NEW"]
  /\ pending = {} /\ committed = {} /\ owned = {} /\ granted = {}
  /\ intake = [a \in Assets |-> "NEW"]
  /\ original = [a \in Assets |-> "ABSENT"]
  /\ asset = [a \in Assets |-> "NONE"]
  /\ job = [a \in Assets |-> [status |-> "NONE", attempts |-> 0]]
  /\ runner = [a \in Assets |-> "IDLE"]
  /\ rendition = [a \in Assets |-> [k \in Kinds |-> NoRendition]]
  /\ rendered = [a \in Assets |-> [k \in Kinds |-> None]]
  /\ release = 0

-------------------------------------------------------------------------------
(* Voter documents: storeVoterDocument, withVoterDocumentCustody.           *)

Goes(d, from, to) == upload[d] = from /\ upload' = [upload EXCEPT ![d] = to]

StorePending(d) ==
  /\ Goes(d, "NEW", "STORED")
  /\ pending' = pending \cup {d}
  /\ UNCHANGED <<committed, owned, granted, evidenceVars>>

\* The put fails, and may have written all the same: the submission is refused.
StoreFails(d) ==
  /\ Goes(d, "NEW", "ENDED")
  /\ pending' \in {pending, pending \cup {d}}
  /\ UNCHANGED <<committed, owned, granted, evidenceVars>>

CommitRow(d) ==
  /\ Goes(d, "STORED", "OWNED")
  /\ owned' = owned \cup {d}
  /\ UNCHANGED <<pending, committed, granted, evidenceVars>>

\* Mutant: a refusal that was returned, not thrown, passes for a commit.
MutantRefusalPromoted(d) ==
  /\ Goes(d, "STORED", "OWNED")
  /\ UNCHANGED <<pending, committed, owned, granted, evidenceVars>>

\* The transaction throws, or returns a refusal: both are "not committed".
RefuseRow(d) ==
  /\ Goes(d, "STORED", "REFUSED")
  /\ UNCHANGED <<pending, committed, owned, granted, evidenceVars>>

\* promotePendingObject: copy to the committed key, if absent ...
CopyObject(d) ==
  /\ Goes(d, "OWNED", "COPIED")
  /\ d \in pending
  /\ committed' = committed \cup {d}
  /\ UNCHANGED <<pending, owned, granted, evidenceVars>>

\* ... a failure is audited, and nothing tries again ...
PromotionFails(d) ==
  /\ Goes(d, "OWNED", "ENDED")
  /\ committed' \in {committed, committed \cup (pending \cap {d})}
  /\ UNCHANGED <<pending, owned, granted, evidenceVars>>

\* Mutant: the cleanup is given the committed key.
MutantDeleteCommitted(d) ==
  /\ Goes(d, "COPIED", "ENDED") \/ Goes(d, "REFUSED", "ENDED")
  /\ committed' = committed \ {d}
  /\ UNCHANGED <<pending, owned, granted, evidenceVars>>

\* ... then delete the pending copy.  discardPendingObject is the same call.
DeletePending(d) ==
  /\ Goes(d, "COPIED", "ENDED") \/ Goes(d, "REFUSED", "ENDED")
  /\ pending' = pending \ {d}
  /\ UNCHANGED <<committed, owned, granted, evidenceVars>>

DeleteFails(d) ==
  /\ Goes(d, "COPIED", "ENDED") \/ Goes(d, "REFUSED", "ENDED")
  /\ UNCHANGED <<pending, committed, owned, granted, evidenceVars>>

\* The process stops between two of these steps.
UploadLost(d) ==
  /\ upload[d] \notin {"NEW", "ENDED"}
  /\ upload' = [upload EXCEPT ![d] = "ENDED"]
  /\ UNCHANGED <<pending, committed, owned, granted, evidenceVars>>

\* Mutant: the rule spares what no row owns.
MutantExpireOwned(d) ==
  /\ upload[d] = "ENDED" /\ d \in pending \cap owned
  /\ pending' = pending \ {d}
  /\ UNCHANGED <<upload, committed, owned, granted, evidenceVars>>

\* The bucket's lifecycle rule on the pending prefix: a day later, so no request
\* is still at work on the object.
ExpirePending(d) ==
  /\ upload[d] = "ENDED" /\ d \in pending
  /\ pending' = pending \ {d}
  /\ UNCHANGED <<upload, committed, owned, granted, evidenceVars>>

\* GET .../documents/:documentId/access: the object is read before it is signed.
AccessDocument(d) ==
  /\ d \in owned \cap committed
  /\ granted' = granted \cup {d}
  /\ UNCHANGED <<documentVars, evidenceVars>>

-------------------------------------------------------------------------------
(* Evidence: POST /uploads/finalize and the vault.                          *)

Takes(a, from, to) == intake[a] = from /\ intake' = [intake EXCEPT ![a] = to]

StoreOriginal(a) ==
  /\ Takes(a, "NEW", "STORED")
  /\ original' = [original EXCEPT ![a] = "INTACT"]
  /\ UNCHANGED <<documentVars, granted, asset, job, runner, rendition, rendered, release>>

OriginalFails(a) ==
  /\ Takes(a, "NEW", "ENDED")
  /\ \E o \in {"ABSENT", "INTACT"} : original' = [original EXCEPT ![a] = o]
  /\ UNCHANGED <<documentVars, granted, asset, job, runner, rendition, rendered, release>>

\* One transaction: the asset, its custody event and its rendition job.
RecordAsset(a, type) ==
  /\ Takes(a, "STORED", "ENDED")
  /\ asset' = [asset EXCEPT ![a] = type]
  /\ job' = [job EXCEPT ![a].status = "PENDING"]
  /\ UNCHANGED <<documentVars, granted, original, runner, rendition, rendered, release>>

\* It fails, or the process stops: the original stays, owned by nothing.
IntakeLost(a) ==
  /\ Takes(a, "STORED", "ENDED")
  /\ UNCHANGED <<documentVars, granted, original, asset, job, runner, rendition,
                 rendered, release>>

\* Someone other than the application replaces the object.
AlterOriginal(a) ==
  /\ asset[a] # "NONE" /\ original[a] = "INTACT"
  /\ original' = [original EXCEPT ![a] = "ALTERED"]
  /\ UNCHANGED <<documentVars, granted, intake, asset, job, runner, rendition,
                 rendered, release>>

\* POST /:evidenceAssetId/access: refused unless the stored bytes still hash to
\* what the row recorded.
AccessEvidence(a) ==
  /\ asset[a] # "NONE" /\ original[a] = "INTACT"
  /\ granted' = granted \cup {a}
  /\ UNCHANGED <<documentVars, evidenceVars>>

-------------------------------------------------------------------------------
(* generateEvidenceDerivatives, one run of the job at a time.               *)

ToRun(a) == job[a].status = "PENDING" /\ job[a].attempts < MaxAttempts

\* A run ends: the job is done, or given out again while attempts last.
Return(a) ==
  /\ job' = [job EXCEPT ![a].status = "COMPLETED"]
  /\ runner' = [runner EXCEPT ![a] = "IDLE"]

\* Mutant: a status the column does not have.
MutantThrow(a) ==
  /\ job' = [job EXCEPT ![a].status = "FAILED_FOR_GOOD"]
  /\ runner' = [runner EXCEPT ![a] = "IDLE"]

Throw(a) ==
  /\ job' = [job EXCEPT ![a].status =
       IF job[a].attempts >= MaxAttempts THEN "DEAD_LETTER" ELSE "PENDING"]
  /\ runner' = [runner EXCEPT ![a] = "IDLE"]

\* The claim counts the attempt before the handler reads anything.
StartRun(a) ==
  /\ ToRun(a) /\ runner[a] = "IDLE"
  /\ job' = [job EXCEPT ![a].attempts = @ + 1]
  /\ runner' = [runner EXCEPT ![a] = "STARTED"]
  /\ UNCHANGED <<documentVars, granted, intake, original, asset, rendition, rendered,
                 release>>

SkipReport(a) ==
  /\ runner[a] = "STARTED" /\ asset[a] = "WRITTEN_REPORT"
  /\ Return(a)
  /\ UNCHANGED <<documentVars, granted, intake, original, asset, rendition, rendered,
                 release>>

DeferVideo(a) ==
  /\ runner[a] = "STARTED" /\ asset[a] = "VIDEO"
  /\ rendition' = [rendition EXCEPT ![a]["POSTER"].status = "DEFERRED"]
  /\ Return(a)
  /\ UNCHANGED <<documentVars, granted, intake, original, asset, rendered, release>>

\* The original is read and hashed; a run keeps the bytes it verified.
VerifyOriginal(a) ==
  /\ runner[a] = "STARTED" /\ asset[a] = "PHOTO"
  /\ \/ /\ original[a] = "INTACT"
        /\ runner' = [runner EXCEPT ![a] = "THUMBNAIL"]
        /\ UNCHANGED job
     \/ /\ original[a] # "INTACT"
        /\ Throw(a)
  /\ UNCHANGED <<documentVars, granted, intake, original, asset, rendition, rendered,
                 release>>

\* Mutant: the row is saved before the object is stored.
MutantSaveFirst(a, k) ==
  /\ runner[a] = k
  /\ rendition' = [rendition EXCEPT ![a][k].status = "PROCESSING"]
  /\ runner' = [runner EXCEPT ![a] = Save[k]]
  /\ UNCHANGED <<documentVars, granted, intake, original, asset, job, rendered, release>>

BeginRendition(a, k) ==
  /\ runner[a] = k
  /\ rendition' = [rendition EXCEPT ![a][k].status = "PROCESSING"]
  /\ runner' = [runner EXCEPT ![a] = Put[k]]
  /\ UNCHANGED <<documentVars, granted, intake, original, asset, job, rendered, release>>

\* putObjectIfAbsent: an object that exists already is left, and counts as stored.
Stored(object) == IF object = None THEN release ELSE object

PutRendition(a, k) ==
  /\ runner[a] = Put[k]
  /\ rendered' = [rendered EXCEPT ![a][k] = Stored(@)]
  /\ runner' = [runner EXCEPT ![a] = Save[k]]
  /\ UNCHANGED <<documentVars, granted, intake, original, asset, job, rendition, release>>

\* Mutant: the handler returns after its first rendition.
MutantFirstOnly(a, k) ==
  /\ runner[a] = Save[k]
  /\ rendition' = [rendition EXCEPT ![a][k] = [status |-> "READY", sha256 |-> release]]
  /\ Return(a)
  /\ UNCHANGED <<documentVars, granted, intake, original, asset, rendered, release>>

\* READY, with the hash of the bytes this run rendered; then the next rendition.
SaveRendition(a, k) ==
  /\ runner[a] = Save[k]
  /\ rendition' = [rendition EXCEPT ![a][k] = [status |-> "READY", sha256 |-> release]]
  /\ IF k = "PREVIEW" THEN Return(a)
     ELSE runner' = [runner EXCEPT ![a] = "PREVIEW"] /\ UNCHANGED job
  /\ UNCHANGED <<documentVars, granted, intake, original, asset, rendered, release>>

\* Rendering, storing or saving throws: the row is FAILED and the run throws.
RenditionFails(a, k) ==
  /\ runner[a] \in {Put[k], Save[k]}
  /\ rendered' = [rendered EXCEPT ![a][k] = Stored(@)] \/ UNCHANGED rendered
  /\ rendition' = [rendition EXCEPT ![a][k].status = "FAILED"]
  /\ Throw(a)
  /\ UNCHANGED <<documentVars, granted, intake, original, asset, release>>

\* The worker stops, wherever it is; the claimed attempt is spent.
RunLost(a) ==
  /\ runner[a] # "IDLE"
  /\ runner' = [runner EXCEPT ![a] = "IDLE"]
  /\ UNCHANGED <<documentVars, granted, intake, original, asset, job, rendition,
                 rendered, release>>

\* A release that renders other bytes; it restarts the worker.
Deploy ==
  /\ release < LastRelease /\ release' = release + 1
  /\ \A a \in Assets : runner[a] = "IDLE"
  /\ UNCHANGED <<documentVars, granted, intake, original, asset, job, runner, rendition,
                 rendered>>

-------------------------------------------------------------------------------
UploadStep(d) ==
  \/ StorePending(d) \/ StoreFails(d) \/ CommitRow(d) \/ RefuseRow(d)
  \/ CopyObject(d) \/ PromotionFails(d) \/ DeletePending(d) \/ DeleteFails(d)
  \/ UploadLost(d)

EvidenceStep(a) ==
  \/ StoreOriginal(a) \/ OriginalFails(a) \/ IntakeLost(a) \/ AlterOriginal(a)
  \/ \E type \in Types : RecordAsset(a, type)
  \/ StartRun(a) \/ SkipReport(a) \/ DeferVideo(a) \/ VerifyOriginal(a) \/ RunLost(a)
  \/ \E k \in {"THUMBNAIL", "PREVIEW"} :
       \/ BeginRendition(a, k) \/ PutRendition(a, k) \/ SaveRendition(a, k)
       \/ RenditionFails(a, k)

Next ==
  \/ \E d \in Documents : UploadStep(d) \/ ExpirePending(d) \/ AccessDocument(d)
  \/ \E a \in Assets : EvidenceStep(a) \/ AccessEvidence(a)
  \/ Deploy

\* A request that has begun goes on, fails or is lost; the bucket applies its rule.
Fairness ==
  \A d \in Documents : /\ WF_vars(upload[d] # "NEW" /\ UploadStep(d))
                       /\ WF_vars(ExpirePending(d))

Spec == Init /\ [][Next]_vars /\ Fairness

-------------------------------------------------------------------------------

\* Every variable has the shape its columns and objects allow.
TypeOK ==
  /\ upload \in [Documents -> {"NEW", "STORED", "OWNED", "REFUSED", "COPIED", "ENDED"}]
  /\ pending \subseteq Documents /\ committed \subseteq Documents
  /\ owned \subseteq Documents /\ granted \subseteq Documents \cup Assets
  /\ intake \in [Assets -> {"NEW", "STORED", "ENDED"}]
  /\ original \in [Assets -> {"ABSENT", "INTACT", "ALTERED"}]
  /\ asset \in [Assets -> {"NONE"} \cup Types]
  /\ job \in [Assets -> [status : {"NONE", "PENDING", "COMPLETED", "DEAD_LETTER"},
                         attempts : 0..MaxAttempts]]
  /\ runner \in [Assets -> {"IDLE", "STARTED", "THUMBNAIL", "PREVIEW"} \cup Rendering]
  /\ rendition \in [Assets -> [Kinds ->
       [status : {"NONE", "PROCESSING", "READY", "FAILED", "DEFERRED"},
        sha256 : {None} \cup 0..LastRelease]]]
  /\ rendered \in [Assets -> [Kinds -> {None} \cup 0..LastRelease]]
  /\ release \in 0..LastRelease

\* Wherever a request fails or stops, no object is left under a committed key, which
\* nothing may delete, without the row that owns it (commitVoterDocument).
NoUnownedDocument == committed \subseteq owned

\* A signed link leads to bytes that stay, and to a row that owns them, whatever
\* cleanup, expiry and late deletions follow (discardPendingObject refuses them).
GrantsResolve ==
  /\ granted \cap Documents \subseteq owned \cap committed
  /\ \A a \in granted \cap Assets : asset[a] # "NONE" /\ original[a] # "ABSENT"

\* Through interruptions and retries, a rendition job that completes has done all its
\* work: both renditions of a photo are READY, a video's poster is DEFERRED.
CompletedIsRendered ==
  \A a \in Assets : job[a].status = "COMPLETED" =>
    CASE asset[a] = "PHOTO" -> \A k \in {"THUMBNAIL", "PREVIEW"} :
                                 rendition[a][k].status = "READY"
      [] asset[a] = "VIDEO" -> rendition[a]["POSTER"].status = "DEFERRED"
      [] OTHER -> rendition[a] = [k \in Kinds |-> NoRendition]

\* A READY row names an object that exists; it also has that object's hash, unless
\* a later attempt, under another library, met the object of an earlier one.
ReadyIsStored ==
  \A a \in Assets, k \in Kinds : rendition[a][k].status = "READY" =>
    /\ rendered[a][k] # None
    /\ job[a].attempts = 1 \/ release = 0 => rendition[a][k].sha256 = rendered[a][k]

\* The bytes of an identity document whose submission did not take effect do not
\* stay: cleanup removes them, or the lifecycle rule does.
RefusedNotRetained ==
  \A d \in Documents :
    upload[d] \in {"REFUSED", "ENDED"} /\ d \notin owned ~> d \notin pending \cup committed

\* "A failure here is recoverable: the row exists, ... and the bytes are still in the
\* pending namespace to be promoted again."
DocumentKept == owned \subseteq pending \cup committed
===============================================================================
