-------------------------------- MODULE Media --------------------------------
(***************************************************************************)
(* A draft's photos: the tiles of the onboarding modal, which sign, PUT    *)
(* and commit; the API's media_assets rows; the queue, at least once; and  *)
(* the consumer that verifies and re-encodes what lies in quarantine.      *)
(*                                                                         *)
(* A photo stands for its sanitised bytes and so for the content-addressed *)
(* key they are stored under; the three gates and the encoder's refusal    *)
(* are one set of refused photos.  Left out: sizes, derivatives, roles,    *)
(* multipart uploads, which nothing opens, stock photography, and the      *)
(* tile's polling, which shows "ready" after thirty seconds whatever the   *)
(* row says.                                                               *)
(***************************************************************************)
EXTENDS Naturals, FiniteSets

CONSTANTS
  Null,
  Tiles,          \* files the customer adds
  Media,          \* media ids, taken in order
  Consumers,      \* invocations of the queue consumer
  Photos, Refused,
  MaxFiles,       \* MAX_FILES_PER_DRAFT
  Parallel,       \* MAX_CONCURRENCY of the browser
  MaxRetries,     \* max_retries of the queue
  MaxFaults,      \* bound: calls and invocations that fail
  MaxDuplicates   \* bound: messages delivered though held or acknowledged

ASSUME MediaAssumption ==
  /\ Media \subseteq Nat /\ IsFiniteSet(Media)
  /\ Refused \subseteq Photos
  /\ MaxFiles \in Nat \ {0} /\ Parallel \in Nat \ {0} /\ MaxRetries \in Nat
  /\ MaxFaults \in Nat /\ MaxDuplicates \in Nat
  /\ Null \notin Media /\ Null \notin Photos /\ Null \notin {"missing", "refused"}

VARIABLES
  photo,       \* per tile: its file, chosen once
  tile,        \* per tile: the step of process() and its media id
  row,         \* shard: the media_assets rows of the draft
  quarantine,  \* R2: media ids whose upload is there
  bucket,      \* R2: photos of which the re-encoded object is there
  msg,         \* queue: per media id, and its failed deliveries
  consumer,    \* per invocation: the step of verifyUpload() and its media id
  faults, dups

browserVars == <<photo, tile>>
storeVars == <<row, quarantine, bucket>>
mediaVars == <<browserVars, storeVars, msg, consumer, faults, dups>>

Working == {"sign", "insert", "put", "commit", "send"}
Statuses == {"none", "pending", "verifying", "ready", "failed", "quarantined"}
Steps == {"rest", "fetch", "write", "promote", "delete", "missing", "refused"}

MediaTypeOK ==
  /\ photo \in [Tiles -> Photos]
  /\ tile \in [Tiles -> [at : Working \cup {"queued", "done"}, media : Media \cup {Null}]]
  /\ row \in [Media -> [status : Statuses, photo : Photos \cup {Null}]]
  /\ quarantine \subseteq Media
  /\ bucket \subseteq Photos
  /\ msg \in [Media -> [at : {"none", "queued", "acked", "dead"}, failed : 0..(MaxRetries + 1)]]
  /\ consumer \in [Consumers -> [at : Steps, media : Media \cup {Null}]]
  /\ faults \in 0..MaxFaults /\ dups \in 0..MaxDuplicates

MediaInit ==
  /\ photo \in [Tiles -> Photos]
  /\ tile = [t \in Tiles |-> [at |-> "queued", media |-> Null]]
  /\ row = [m \in Media |-> [status |-> "none", photo |-> Null]]
  /\ quarantine = {} /\ bucket = {}
  /\ msg = [m \in Media |-> [at |-> "none", failed |-> 0]]
  /\ consumer = [c \in Consumers |-> [at |-> "rest", media |-> Null]]
  /\ faults = 0 /\ dups = 0

Fault == faults < MaxFaults /\ faults' = faults + 1
Rows == {m \in Media : row[m].status # "none"}

----------------------------------------------------------------------------
\* The browser.  A tile that is removed while it works goes on working.
Step(t, p) == tile' = [tile EXCEPT ![t].at = p]
Done(t) == tile' = [tile EXCEPT ![t] = [at |-> "done", media |-> Null]]
Running == {t \in Tiles : tile[t].at \in Working}

\* pump(): a queued tile takes a free slot; or it was removed from the grid, or
\* the browser cannot prepare its photo.
Pump(t) ==
  /\ tile[t].at = "queued"
  /\ Cardinality(Running) < Parallel
  /\ Step(t, "sign") \/ Done(t)
  /\ UNCHANGED <<photo, storeVars, msg, consumer, faults, dups>>

\* sumDraftMedia(): every row of the draft counts, its tile removed or not.
HasRoom == Cardinality(Rows) < MaxFiles

\* POST /v1/media/sign reads the draft, which may be submitted, and its usage ...
Sign(t) ==
  /\ tile[t].at = "sign"
  /\ (HasRoom /\ Step(t, "insert")) \/ Done(t)
  /\ UNCHANGED <<photo, storeVars, msg, consumer, faults, dups>>

\* ... and inserts the row; the browser asks again when the answer is lost.
Insert(t) ==
  /\ tile[t].at = "insert"
  /\ \E m \in Media \ Rows :
       /\ \A n \in Media \ Rows : m <= n
       /\ row' = [row EXCEPT ![m] = [status |-> "pending", photo |-> photo[t]]]
       /\ \/ /\ tile' = [tile EXCEPT ![t].at = "put", ![t].media = m]
             /\ UNCHANGED faults
          \/ Fault /\ Step(t, "sign")
  /\ UNCHANGED <<photo, quarantine, bucket, msg, consumer, dups>>

\* The PUT into quarantine, against the presigned URL.
PutUpload(t) ==
  /\ tile[t].at = "put"
  /\ \/ /\ quarantine' = quarantine \cup {tile[t].media}
        /\ Step(t, "commit")
        /\ UNCHANGED faults
     \/ /\ Fault
        /\ Done(t)
        /\ UNCHANGED quarantine
  /\ UNCHANGED <<photo, row, bucket, msg, consumer, dups>>

\* POST /v1/media/:id/commit, WHERE status IN ('pending', 'uploading'): a commit
\* that was already made answers 409, and the tile fails.
Commit(t) ==
  LET m == tile[t].media
  IN /\ tile[t].at = "commit"
     /\ IF row[m].status = "pending"
        THEN row' = [row EXCEPT ![m].status = "verifying"] /\ Step(t, "send")
        ELSE UNCHANGED row /\ Done(t)
     /\ UNCHANGED <<photo, quarantine, bucket, msg, consumer, faults, dups>>

\* MEDIA_Q.send(); an answer that is an error, or lost, is asked for again.
Send(t) ==
  LET Sent == msg' = [msg EXCEPT ![tile[t].media].at = "queued"]
  IN /\ tile[t].at = "send"
     /\ \/ Sent /\ Done(t) /\ UNCHANGED faults
        \/ Fault /\ (Sent \/ UNCHANGED msg) /\ Step(t, "commit")
     /\ UNCHANGED <<photo, storeVars, consumer, dups>>

----------------------------------------------------------------------------
\* The queue and its consumer.
Go(c, p) == consumer' = [consumer EXCEPT ![c].at = p]
Rest(c) == consumer' = [consumer EXCEPT ![c] = [at |-> "rest", media |-> Null]]
Held(m) == \E c \in Consumers : consumer[c].media = m

\* A message that waits is delivered; or, at least once, one that is held or
\* acknowledged.  Its row is read: what is ready already is acknowledged.
Deliver(c, m) ==
  /\ consumer[c].at = "rest"
  /\ \/ msg[m].at = "queued" /\ ~ Held(m) /\ UNCHANGED dups
     \/ /\ msg[m].at = "acked" \/ (msg[m].at = "queued" /\ Held(m))
        /\ dups < MaxDuplicates /\ dups' = dups + 1
  /\ IF row[m].status = "ready"
     THEN msg' = [msg EXCEPT ![m].at = "acked"] /\ UNCHANGED consumer
     ELSE consumer' = [consumer EXCEPT ![c] = [at |-> "fetch", media |-> m]] /\ UNCHANGED msg
  /\ UNCHANGED <<browserVars, storeVars, faults>>

Ack(c) ==
  /\ msg' = [msg EXCEPT ![consumer[c].media].at = "acked"]
  /\ Rest(c)

\* Mutant: the last retry is not made.
FailedOnceLess(q) ==
  [at |-> IF q.at = "queued" /\ q.failed + 1 = MaxRetries THEN "dead" ELSE q.at,
   failed |-> q.failed + 1]

\* message.retry(), or the invocation is lost: after max_retries the message
\* goes to the dead-letter queue, which nothing reads.
Failed(q) ==
  [at |-> IF q.at = "queued" /\ q.failed = MaxRetries THEN "dead" ELSE q.at,
   failed |-> IF q.failed > MaxRetries THEN q.failed ELSE q.failed + 1]

Redeliver(c) ==
  /\ msg' = [msg EXCEPT ![consumer[c].media] = Failed(@)]
  /\ Rest(c)

Fails(c) ==
  /\ consumer[c].at # "rest"
  /\ Fault
  /\ Redeliver(c)
  /\ UNCHANGED <<browserVars, storeVars, dups>>

\* Mutant: the bytes are not looked at.
VerdictTrusting(m) == IF m \notin quarantine THEN "missing" ELSE "write"

Verdict(m) ==
  IF row[m].status # "quarantined" /\ m \notin quarantine THEN "missing"
  ELSE IF row[m].photo \in Refused THEN "refused" ELSE "write"

\* The object is fetched, sniffed, measured and re-encoded.
Inspect(c) ==
  /\ consumer[c].at = "fetch"
  /\ Go(c, Verdict(consumer[c].media))
  /\ UNCHANGED <<browserVars, storeVars, msg, faults, dups>>

\* Mutant: the upload is deleted as soon as it is re-encoded.
AfterWriteDeletes(m) == quarantine \ {m}

AfterWrite(m) == quarantine

Write(c) ==
  LET m == consumer[c].media
  IN /\ consumer[c].at = "write"
     /\ bucket' = bucket \cup {row[m].photo}
     /\ quarantine' = AfterWrite(m)
     /\ Go(c, "promote")
     /\ UNCHANGED <<browserVars, row, msg, faults, dups>>

\* uq_media_r2: the key is the photo's, and at most one row has it.
KeyTaken(m) == \E n \in Media \ {m} : row[n].status = "ready" /\ row[n].photo = row[m].photo

\* promoteMediaAsset(), WHERE status = 'verifying': changed one, changed none, or
\* threw on the key, which is caught as any other failure.
Promote(c) ==
  LET m == consumer[c].media
  IN /\ consumer[c].at = "promote"
     /\ \/ /\ row[m].status = "verifying" /\ ~ KeyTaken(m)
           /\ row' = [row EXCEPT ![m].status = "ready"]
           /\ Go(c, "delete")
           /\ UNCHANGED msg
        \/ /\ row[m].status # "verifying"
           /\ Ack(c)
           /\ UNCHANGED row
        \/ /\ row[m].status = "verifying" /\ KeyTaken(m)
           /\ Redeliver(c)
           /\ UNCHANGED row
     /\ UNCHANGED <<browserVars, quarantine, bucket, faults, dups>>

DeleteUpload(c) ==
  /\ consumer[c].at = "delete"
  /\ quarantine' = quarantine \ {consumer[c].media}
  /\ Ack(c)
  /\ UNCHANGED <<browserVars, row, bucket, faults, dups>>

\* Mutant: any reason may be stored.
StorableText(reason) == TRUE

\* CHECK (scan_result IS NULL OR json_valid(scan_result)): a reason is bare text.
StorableReason(reason) == reason = Null

\* setMediaStatus(), not conditional on the status, then the upload's deletion;
\* when the statement throws, neither, and the message is acknowledged.
Refuse(c) ==
  LET m == consumer[c].media
      verdict == consumer[c].at
  IN /\ verdict \in {"missing", "refused"}
     /\ IF StorableReason(verdict)
        THEN /\ row' = [row EXCEPT ![m].status =
                          IF verdict = "missing" THEN "failed" ELSE "quarantined"]
             /\ quarantine' = quarantine \ {m}
        ELSE UNCHANGED <<row, quarantine>>
     /\ Ack(c)
     /\ UNCHANGED <<browserVars, bucket, faults, dups>>

\* The lifecycle rule of the quarantine bucket: a day is longer than a delivery.
Expire(m) ==
  /\ m \in quarantine
  /\ msg[m].at # "queued" /\ ~ Held(m)
  /\ \A t \in Tiles : tile[t].media = m => tile[t].at \notin {"commit", "send"}
  /\ quarantine' = quarantine \ {m}
  /\ UNCHANGED <<browserVars, row, bucket, msg, consumer, faults, dups>>

----------------------------------------------------------------------------
Browser(t) ==
  Pump(t) \/ Sign(t) \/ Insert(t) \/ PutUpload(t) \/ Commit(t) \/ Send(t)
Consume(c) ==
  Inspect(c) \/ Write(c) \/ Promote(c) \/ DeleteUpload(c) \/ Refuse(c)

MediaNext ==
  \/ \E t \in Tiles : Browser(t)
  \/ \E c \in Consumers : Consume(c) \/ Fails(c) \/ \E m \in Media : Deliver(c, m)
  \/ \E m \in Media : Expire(m)

MediaSpec == MediaInit /\ [][MediaNext]_mediaVars

\* The browser and an invocation go on, and the queue delivers what waits.
Fairness ==
  /\ \A t \in Tiles : WF_mediaVars(Browser(t))
  /\ \A c \in Consumers : WF_mediaVars(Consume(c))
  /\ \A m \in Media : WF_mediaVars(\E c \in Consumers : msg[m].at = "queued" /\ Deliver(c, m))

FairSpec == MediaSpec /\ Fairness

----------------------------------------------------------------------------
\* What a row offers the run as ready passed the gates, and its re-encoded
\* object is in the bucket.
OfferedIsVerified ==
  \A m \in Media :
    row[m].status = "ready" => row[m].photo \in bucket \ Refused

\* "Deleting first and then failing to promote would lose the customer's upload
\* with no way back" (media-consumer.ts): until the row is ready a delivery that
\* is still to come finds the upload.
UploadSurvives ==
  \A m \in Media : msg[m].at = "queued" /\ row[m].status = "verifying" => m \in quarantine

\* A photo that became ready stays so, whatever is delivered again: only the
\* CHECK on scan_result keeps a late delivery from failing it.
ReadyIsFinal == [][\A m \in Media : row[m].status = "ready" => row'[m].status = "ready"]_mediaVars

\* A photo that passes the gates is ready in the end though the queue's retries
\* are used up, unless another row has the same photo.
CleanUploadIsReady ==
  \A m \in Media :
    (msg[m].at = "queued" /\ row[m].photo \notin Refused) ~>
      (row[m].status = "ready" \/ KeyTaken(m))

\* "Guarantees every message is either acknowledged with a terminal row status or
\* retried, so a row never sits at `verifying`" (media-consumer.ts).
AckedIsTerminal ==
  \A m \in Media : msg[m].at = "acked" => row[m].status \in {"ready", "failed", "quarantined"}
=============================================================================
