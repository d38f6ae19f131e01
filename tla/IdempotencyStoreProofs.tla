----------------------- MODULE IdempotencyStoreProofs -----------------------
(***************************************************************************)
(* What the statements on a row of idempotency_records do to it, for any   *)
(* callers, fingerprints and times: the lemmas that the proofs about both  *)
(* clients of the table rest on.                                           *)
(***************************************************************************)
EXTENDS IdempotencyStore, TLAPS

\* An insert (CreateProcessing) writes a locked row with the caller's id.
LEMMA CreateEffect ==
  ASSUME row \in RowType, NEW c \in Calls, lag[c] \in 0..MaxLag, CreateProcessing(c)
  PROVE  /\ row' \in RowType /\ ~Exists /\ Exists'
         /\ row'.id = c /\ row'.fp = Fingerprint[c] /\ row'.status = "processing"
         /\ row'.locked = ProcessingTimeout - lag[c] /\ row'.expires = RecordTTL - lag[c]
  <1>1. /\ ProcessingTimeout - lag[c] \in (-MaxLag)..ProcessingTimeout
        /\ RecordTTL - lag[c] \in (-MaxLag)..RecordTTL
    BY StoreAssumption
  <1>2. Fingerprint[c] \in {Fingerprint[d] : d \in Calls} \cup {NoRow}
    OBVIOUS
  <1>q. QED
    BY <1>1, <1>2, StoreAssumption DEF CreateProcessing, RowType, Status, Exists

\* A take-over (TryReclaim) locks the row again and keeps everything else.
LEMMA ReclaimEffect ==
  ASSUME row \in RowType, NEW c \in Calls, lag[c] \in 0..MaxLag, NEW id, NEW from,
         TryReclaim(c, id, from)
  PROVE  /\ row' \in RowType /\ Exists /\ Exists' /\ row.id = id /\ row.locked <= -lag[c]
         /\ row.status = from
         /\ row'.id = row.id /\ row'.fp = row.fp /\ row'.body = row.body
         /\ row'.status = "processing"
         /\ row'.locked = ProcessingTimeout - lag[c] /\ row'.expires = RecordTTL - lag[c]
  <1>1. /\ ProcessingTimeout - lag[c] \in (-MaxLag)..ProcessingTimeout
        /\ RecordTTL - lag[c] \in (-MaxLag)..RecordTTL
    BY StoreAssumption
  <1>q. QED
    BY <1>1 DEF TryReclaim, Reclaimable, RowType, Status, Exists

\* A renewal moves both deadlines and nothing else.
LEMMA ExtendEffect ==
  ASSUME row \in RowType, NEW c \in Calls, ExtendProcessingLock(c)
  PROVE  /\ row' \in RowType /\ IsMine(c) /\ row.fp = Fingerprint[c]
         /\ row'.id = row.id /\ row'.fp = row.fp /\ row'.body = row.body
         /\ row.status = "processing" /\ row'.status = "processing"
         /\ row'.locked = ProcessingTimeout /\ row'.expires = RecordTTL
  <1>1. /\ ProcessingTimeout \in (-MaxLag)..ProcessingTimeout
        /\ RecordTTL \in (-MaxLag)..RecordTTL
    BY StoreAssumption
  <1>q. QED
    BY <1>1 DEF ExtendProcessingLock, Extendable, RowType, Status

\* MarkSucceeded and MarkFailedRetryable update the row with the caller's id.
LEMMA SucceededEffect ==
  ASSUME row \in RowType, NEW c \in Calls, NEW body \in Calls,
         NEW expires \in (-MaxLag)..RecordTTL, MarkSucceeded(c, body, expires)
  PROVE  /\ row' \in RowType /\ row'.id = row.id /\ row'.fp = row.fp
         /\ \/ IsMine(c) /\ row'.status = "succeeded" /\ row'.body = body /\ row'.expires = expires
            \/ ~IsMine(c) /\ row' = row
  <1>1. -MaxLag \in (-MaxLag)..ProcessingTimeout
    BY StoreAssumption
  <1>q. QED
    BY <1>1 DEF MarkSucceeded, RowType, Status

\* MarkFailedRetryable frees the row of its caller only.
LEMMA FailedEffect ==
  ASSUME row \in RowType, NEW c \in Calls, NEW locked \in (-MaxLag)..ProcessingTimeout,
         NEW expires \in (-MaxLag)..RecordTTL, MarkFailedRetryable(c, locked, expires)
  PROVE  /\ row' \in RowType /\ row'.id = row.id /\ row'.fp = row.fp
         /\ \/ IsMine(c) /\ row'.status = "failed_retryable" /\ row'.expires = expires
            \/ ~IsMine(c) /\ row' = row
  BY DEF MarkFailedRetryable, RowType, Status

\* The cleanup deletes only a row whose retention has ended.
LEMMA DeleteEffect ==
  ASSUME DeleteExpired
  PROVE  row' \in RowType /\ row.expires <= 0 /\ ~Exists' /\ UNCHANGED <<pc, lag, held>>
  <1>1. /\ -MaxLag \in (-MaxLag)..ProcessingTimeout
        /\ -MaxLag \in (-MaxLag)..RecordTTL
    BY StoreAssumption
  <1>q. QED
    BY <1>1 DEF DeleteExpired, Absent, RowType, Status, Exists

\* A unit of time takes at most one unit off each deadline.
LEMMA AgeEffect ==
  ASSUME row \in RowType, AgeRow
  PROVE  /\ row' \in RowType
         /\ row'.id = row.id /\ row'.fp = row.fp /\ row'.status = row.status
         /\ row'.body = row.body
         /\ row'.locked >= row.locked - 1 /\ row'.expires >= row.expires - 1
  <1>1. /\ OlderBy(row.locked) \in (-MaxLag)..ProcessingTimeout
        /\ OlderBy(row.locked) >= row.locked - 1
        /\ OlderBy(row.expires) \in (-MaxLag)..RecordTTL
        /\ OlderBy(row.expires) >= row.expires - 1
    BY StoreAssumption DEF OlderBy, RowType
  <1>2. CASE Exists
    BY <1>1, <1>2 DEF AgeRow, RowType
  <1>3. CASE ~Exists
    BY <1>3 DEF AgeRow, RowType
  <1>q. QED
    BY <1>2, <1>3
=============================================================================
