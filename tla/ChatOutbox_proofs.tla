-------------------------- MODULE ChatOutbox_proofs --------------------------
(***************************************************************************)
(* Proofs about ChatOutbox for every set of batches and workers and every  *)
(* value of the bounds.                                                    *)
(***************************************************************************)
EXTENDS ChatOutbox, TLAPS

(* The row updates of the outbox keep the types of the row.                *)
LEMMA SettleTypes ==
    ASSUME RowTypes, NEW b \in Batch, NEW s \in Status, NEW n \in Nat,
           Settle(b, s, n)
    PROVE  RowTypes'
BY DEF RowTypes, Settle

(* An update that misses the fence leaves the types alone.                 *)
LEMMA RowsKeepTypes == RowTypes /\ UNCHANGED rowVars => RowTypes'
BY DEF RowTypes, rowVars

(* markChatNotificationSent keeps the types, fenced or not.                *)
LEMMA MarkSentTypes ==
    ASSUME RowTypes, NEW w \in Worker, NEW b \in Batch, MarkSent(w, b)
    PROVE  RowTypes'
BY SettleTypes, RowsKeepTypes, DelayAssumption DEF MarkSent, Status

(* deadLetterChatNotification keeps the types.                             *)
LEMMA MarkDeadTypes ==
    ASSUME RowTypes, NEW w \in Worker, NEW b \in Batch, MarkDead(w, b)
    PROVE  RowTypes'
BY SettleTypes, RowsKeepTypes, DelayAssumption DEF MarkDead, Status

(* retryChatNotification keeps the types.                                  *)
LEMMA RetryLaterTypes ==
    ASSUME RowTypes, RowsWellFormed, NEW w \in Worker, NEW b \in Batch,
           RetryLater(w, b)
    PROVE  RowTypes'
<1>1. CASE Owns(w, b) /\ attempts[b] < MaxAttempts /\ Settle(b, "pending", RetryTicks[attempts[b]])
  <2>1. attempts[b] \in 1..MaxAttempts
    BY <1>1, CountAssumption DEF RowsWellFormed, RowTypes, Owns
  <2>2. RetryTicks[attempts[b]] \in Nat
    BY <2>1, DelayAssumption
  <2> QED
    BY <1>1, <2>2, SettleTypes DEF Status
<1> QED
  BY <1>1, MarkDeadTypes DEF RetryLater

(* A new row is pending, with no history.                                  *)
LEMMA EnqueueInductive ==
    ASSUME NEW b \in Batch, IInv, Enqueue(b) PROVE IInv'
<1> USE WorkerAssumption, CountAssumption, LeaseAssumption, DelayAssumption
<1>1. TypeOK'
  <2>1. RowTypes'
    BY DEF IInv, Enqueue, taskVars, TypeOK, RowTypes, TaskTypes, RowsWellFormed, JobsWellFormed, Status, Phase, Busy, Owns
  <2>2. TaskTypes'
    BY DEF IInv, Enqueue, taskVars, TypeOK, TaskTypes, TaskTypes, RowTypes, RowsWellFormed, JobsWellFormed, Status, Phase, Busy, Owns
  <2>3. HistTypes'
    BY DEF IInv, Enqueue, taskVars, TypeOK, HistTypes, TaskTypes, RowTypes, RowsWellFormed, JobsWellFormed, Status, Phase, Busy, Owns
  <2> QED
    BY <2>1, <2>2, <2>3 DEF TypeOK
<1>2. JobsWellFormed'
  BY DEF IInv, Enqueue, taskVars, TypeOK, RowTypes, TaskTypes, HistTypes, JobsWellFormed, Busy, Phase
<1>3. RowsWellFormed'
  BY DEF IInv, Enqueue, taskVars, TypeOK, RowTypes, TaskTypes, HistTypes, JobsWellFormed, RowsWellFormed, Owns, Busy, Status
<1>4. LeaseOutlivesRequest'
  BY DEF IInv, Enqueue, taskVars, TypeOK, RowTypes, TaskTypes, HistTypes, JobsWellFormed, LeaseOutlivesRequest, Owns, Busy, Status, Phase
<1>5. AttemptUnspent'
  BY DEF IInv, Enqueue, taskVars, TypeOK, RowTypes, TaskTypes, HistTypes, JobsWellFormed, LeaseOutlivesRequest, AttemptUnspent, OnePostPerAttempt, Owns, Busy, Status, Phase
<1>6. OnePostPerAttempt'
  BY DEF IInv, Enqueue, taskVars, TypeOK, RowTypes, TaskTypes, HistTypes, JobsWellFormed, LeaseOutlivesRequest, AttemptUnspent, OnePostPerAttempt, Owns, Busy, Status, Phase
<1>7. OwnerHasCause'
  BY DEF IInv, Enqueue, taskVars, TypeOK, RowTypes, TaskTypes, HistTypes, JobsWellFormed, LeaseOutlivesRequest, OwnerHasCause, Owns, Busy, Status, Phase
<1>8. SettledForCause'
  BY DEF IInv, Enqueue, taskVars, TypeOK, RowTypes, TaskTypes, HistTypes, JobsWellFormed, RowsWellFormed, LeaseOutlivesRequest, OwnerHasCause, SettledForCause, Owns, Busy, Status, Phase
<1> QED
  BY <1>1, <1>2, <1>3, <1>4, <1>5, <1>6, <1>7, <1>8 DEF IInv

(* A claim takes a row whose lease, if any, has run out, and a request     *)
(* outlives no lease.                                                      *)
LEMMA ClaimInductive ==
    ASSUME NEW w \in Worker, NEW b \in Batch, IInv, Claim(w, b) PROVE IInv'
<1> USE WorkerAssumption, CountAssumption, LeaseAssumption, DelayAssumption
<1>1. TypeOK'
  <2>1. RowTypes'
    BY DEF IInv, Claim, Claimable, histVars, TypeOK, RowTypes, TaskTypes, RowsWellFormed, JobsWellFormed, Status, Phase, Busy, Owns
  <2>2. TaskTypes'
    BY DEF IInv, Claim, Claimable, histVars, TypeOK, TaskTypes, TaskTypes, RowTypes, RowsWellFormed, JobsWellFormed, Status, Phase, Busy, Owns
  <2>3. HistTypes'
    BY DEF IInv, Claim, Claimable, histVars, TypeOK, HistTypes, TaskTypes, RowTypes, RowsWellFormed, JobsWellFormed, Status, Phase, Busy, Owns
  <2> QED
    BY <2>1, <2>2, <2>3 DEF TypeOK
<1>2. JobsWellFormed'
  BY DEF IInv, Claim, Claimable, histVars, TypeOK, RowTypes, TaskTypes, HistTypes, JobsWellFormed, Busy, Phase
<1>3. RowsWellFormed'
  BY DEF IInv, Claim, Claimable, histVars, TypeOK, RowTypes, TaskTypes, HistTypes, JobsWellFormed, RowsWellFormed, Owns, Busy, Status
<1>4. LeaseOutlivesRequest'
  BY DEF IInv, Claim, Claimable, histVars, TypeOK, RowTypes, TaskTypes, HistTypes, JobsWellFormed, LeaseOutlivesRequest, Owns, Busy, Status, Phase
<1>5. AttemptUnspent'
  BY DEF IInv, Claim, Claimable, histVars, TypeOK, RowTypes, TaskTypes, HistTypes, JobsWellFormed, LeaseOutlivesRequest, AttemptUnspent, OnePostPerAttempt, Owns, Busy, Status, Phase
<1>6. OnePostPerAttempt'
  BY DEF IInv, Claim, Claimable, histVars, TypeOK, RowTypes, TaskTypes, HistTypes, JobsWellFormed, LeaseOutlivesRequest, AttemptUnspent, OnePostPerAttempt, Owns, Busy, Status, Phase
<1>7. OwnerHasCause'
  BY DEF IInv, Claim, Claimable, histVars, TypeOK, RowTypes, TaskTypes, HistTypes, JobsWellFormed, LeaseOutlivesRequest, OwnerHasCause, Owns, Busy, Status, Phase
<1>8. SettledForCause'
  BY DEF IInv, Claim, Claimable, histVars, TypeOK, RowTypes, TaskTypes, HistTypes, JobsWellFormed, RowsWellFormed, LeaseOutlivesRequest, OwnerHasCause, SettledForCause, Owns, Busy, Status, Phase
<1> QED
  BY <1>1, <1>2, <1>3, <1>4, <1>5, <1>6, <1>7, <1>8 DEF IInv

(* Maintenance dead-letters rows nobody has a request for.                 *)
LEMMA ExpireExhaustedInductive ==
    ASSUME NEW w \in Worker, IInv, ExpireExhausted(w) PROVE IInv'
<1> USE WorkerAssumption, CountAssumption, LeaseAssumption, DelayAssumption
<1>1. TypeOK'
  <2>1. RowTypes'
    BY DEF IInv, ExpireExhausted, histVars, TypeOK, RowTypes, TaskTypes, RowsWellFormed, JobsWellFormed, Status, Phase, Busy, Owns
  <2>2. TaskTypes'
    BY DEF IInv, ExpireExhausted, histVars, TypeOK, TaskTypes, TaskTypes, RowTypes, RowsWellFormed, JobsWellFormed, Status, Phase, Busy, Owns
  <2>3. HistTypes'
    BY DEF IInv, ExpireExhausted, histVars, TypeOK, HistTypes, TaskTypes, RowTypes, RowsWellFormed, JobsWellFormed, Status, Phase, Busy, Owns
  <2> QED
    BY <2>1, <2>2, <2>3 DEF TypeOK
<1>2. JobsWellFormed'
  BY DEF IInv, ExpireExhausted, histVars, TypeOK, RowTypes, TaskTypes, HistTypes, JobsWellFormed, Busy, Phase
<1>3. RowsWellFormed'
  BY DEF IInv, ExpireExhausted, histVars, TypeOK, RowTypes, TaskTypes, HistTypes, JobsWellFormed, RowsWellFormed, Owns, Busy, Status
<1>4. LeaseOutlivesRequest'
  BY DEF IInv, ExpireExhausted, histVars, TypeOK, RowTypes, TaskTypes, HistTypes, JobsWellFormed, LeaseOutlivesRequest, Owns, Busy, Status, Phase
<1>5. AttemptUnspent'
  BY DEF IInv, ExpireExhausted, histVars, TypeOK, RowTypes, TaskTypes, HistTypes, JobsWellFormed, LeaseOutlivesRequest, AttemptUnspent, OnePostPerAttempt, Owns, Busy, Status, Phase
<1>6. OnePostPerAttempt'
  BY DEF IInv, ExpireExhausted, histVars, TypeOK, RowTypes, TaskTypes, HistTypes, JobsWellFormed, LeaseOutlivesRequest, AttemptUnspent, OnePostPerAttempt, Owns, Busy, Status, Phase
<1>7. OwnerHasCause'
  BY DEF IInv, ExpireExhausted, histVars, TypeOK, RowTypes, TaskTypes, HistTypes, JobsWellFormed, LeaseOutlivesRequest, OwnerHasCause, Owns, Busy, Status, Phase
<1>8. SettledForCause'
  BY DEF IInv, ExpireExhausted, histVars, TypeOK, RowTypes, TaskTypes, HistTypes, JobsWellFormed, RowsWellFormed, LeaseOutlivesRequest, OwnerHasCause, SettledForCause, Owns, Busy, Status, Phase
<1> QED
  BY <1>1, <1>2, <1>3, <1>4, <1>5, <1>6, <1>7, <1>8 DEF IInv

(* Retention deletes settled rows only.                                    *)
LEMMA PurgeInductive ==
    ASSUME NEW w \in Worker, IInv, Purge(w) PROVE IInv'
<1> USE WorkerAssumption, CountAssumption, LeaseAssumption, DelayAssumption
<1>1. TypeOK'
  <2>1. RowTypes'
    BY DEF IInv, Purge, histVars, TypeOK, RowTypes, TaskTypes, RowsWellFormed, JobsWellFormed, Status, Phase, Busy, Owns
  <2>2. TaskTypes'
    BY DEF IInv, Purge, histVars, TypeOK, TaskTypes, TaskTypes, RowTypes, RowsWellFormed, JobsWellFormed, Status, Phase, Busy, Owns
  <2>3. HistTypes'
    BY DEF IInv, Purge, histVars, TypeOK, HistTypes, TaskTypes, RowTypes, RowsWellFormed, JobsWellFormed, Status, Phase, Busy, Owns
  <2> QED
    BY <2>1, <2>2, <2>3 DEF TypeOK
<1>2. JobsWellFormed'
  BY DEF IInv, Purge, histVars, TypeOK, RowTypes, TaskTypes, HistTypes, JobsWellFormed, Busy, Phase
<1>3. RowsWellFormed'
  BY DEF IInv, Purge, histVars, TypeOK, RowTypes, TaskTypes, HistTypes, JobsWellFormed, RowsWellFormed, Owns, Busy, Status
<1>4. LeaseOutlivesRequest'
  BY DEF IInv, Purge, histVars, TypeOK, RowTypes, TaskTypes, HistTypes, JobsWellFormed, LeaseOutlivesRequest, Owns, Busy, Status, Phase
<1>5. AttemptUnspent'
  BY DEF IInv, Purge, histVars, TypeOK, RowTypes, TaskTypes, HistTypes, JobsWellFormed, LeaseOutlivesRequest, AttemptUnspent, OnePostPerAttempt, Owns, Busy, Status, Phase
<1>6. OnePostPerAttempt'
  BY DEF IInv, Purge, histVars, TypeOK, RowTypes, TaskTypes, HistTypes, JobsWellFormed, LeaseOutlivesRequest, AttemptUnspent, OnePostPerAttempt, Owns, Busy, Status, Phase
<1>7. OwnerHasCause'
  BY DEF IInv, Purge, histVars, TypeOK, RowTypes, TaskTypes, HistTypes, JobsWellFormed, LeaseOutlivesRequest, OwnerHasCause, Owns, Busy, Status, Phase
<1>8. SettledForCause'
  BY DEF IInv, Purge, histVars, TypeOK, RowTypes, TaskTypes, HistTypes, JobsWellFormed, RowsWellFormed, LeaseOutlivesRequest, OwnerHasCause, SettledForCause, Owns, Busy, Status, Phase
<1> QED
  BY <1>1, <1>2, <1>3, <1>4, <1>5, <1>6, <1>7, <1>8 DEF IInv

(* The end of a replay request touches no row.                             *)
LEMMA RelayEndInductive ==
    ASSUME NEW w \in Worker, IInv, RelayEnd(w) PROVE IInv'
<1> USE WorkerAssumption, CountAssumption, LeaseAssumption, DelayAssumption
<1>1. TypeOK'
  <2>1. RowTypes'
    BY DEF IInv, RelayEnd, rowVars, histVars, TypeOK, RowTypes, TaskTypes, RowsWellFormed, JobsWellFormed, Status, Phase, Busy, Owns
  <2>2. TaskTypes'
    BY DEF IInv, RelayEnd, rowVars, histVars, TypeOK, TaskTypes, TaskTypes, RowTypes, RowsWellFormed, JobsWellFormed, Status, Phase, Busy, Owns
  <2>3. HistTypes'
    BY DEF IInv, RelayEnd, rowVars, histVars, TypeOK, HistTypes, TaskTypes, RowTypes, RowsWellFormed, JobsWellFormed, Status, Phase, Busy, Owns
  <2> QED
    BY <2>1, <2>2, <2>3 DEF TypeOK
<1>2. JobsWellFormed'
  BY DEF IInv, RelayEnd, rowVars, histVars, TypeOK, RowTypes, TaskTypes, HistTypes, JobsWellFormed, Busy, Phase
<1>3. RowsWellFormed'
  BY DEF IInv, RelayEnd, rowVars, histVars, TypeOK, RowTypes, TaskTypes, HistTypes, JobsWellFormed, RowsWellFormed, Owns, Busy, Status
<1>4. LeaseOutlivesRequest'
  BY DEF IInv, RelayEnd, rowVars, histVars, TypeOK, RowTypes, TaskTypes, HistTypes, JobsWellFormed, LeaseOutlivesRequest, Owns, Busy, Status, Phase
<1>5. AttemptUnspent'
  BY DEF IInv, RelayEnd, rowVars, histVars, TypeOK, RowTypes, TaskTypes, HistTypes, JobsWellFormed, LeaseOutlivesRequest, AttemptUnspent, OnePostPerAttempt, Owns, Busy, Status, Phase
<1>6. OnePostPerAttempt'
  BY DEF IInv, RelayEnd, rowVars, histVars, TypeOK, RowTypes, TaskTypes, HistTypes, JobsWellFormed, LeaseOutlivesRequest, AttemptUnspent, OnePostPerAttempt, Owns, Busy, Status, Phase
<1>7. OwnerHasCause'
  BY DEF IInv, RelayEnd, rowVars, histVars, TypeOK, RowTypes, TaskTypes, HistTypes, JobsWellFormed, LeaseOutlivesRequest, OwnerHasCause, Owns, Busy, Status, Phase
<1>8. SettledForCause'
  BY DEF IInv, RelayEnd, rowVars, histVars, TypeOK, RowTypes, TaskTypes, HistTypes, JobsWellFormed, RowsWellFormed, LeaseOutlivesRequest, OwnerHasCause, SettledForCause, Owns, Busy, Status, Phase
<1> QED
  BY <1>1, <1>2, <1>3, <1>4, <1>5, <1>6, <1>7, <1>8 DEF IInv

(* A refusing preflight is a cause for a dead letter.                      *)
LEMMA PreflightTerminalInductive ==
    ASSUME NEW w \in Worker, IInv, PreflightTerminal(w) PROVE IInv'
<1> USE WorkerAssumption, CountAssumption, LeaseAssumption, DelayAssumption
<1>1. TypeOK'
  <2>1. RowTypes'
    BY DEF IInv, PreflightTerminal, Goto, rowVars, TypeOK, RowTypes, TaskTypes, RowsWellFormed, JobsWellFormed, Status, Phase, Busy, Owns
  <2>2. TaskTypes'
    BY DEF IInv, PreflightTerminal, Goto, rowVars, TypeOK, TaskTypes, TaskTypes, RowTypes, RowsWellFormed, JobsWellFormed, Status, Phase, Busy, Owns
  <2>3. HistTypes'
    BY DEF IInv, PreflightTerminal, Goto, rowVars, TypeOK, HistTypes, TaskTypes, RowTypes, RowsWellFormed, JobsWellFormed, Status, Phase, Busy, Owns
  <2> QED
    BY <2>1, <2>2, <2>3 DEF TypeOK
<1>2. JobsWellFormed'
  BY DEF IInv, PreflightTerminal, Goto, rowVars, TypeOK, RowTypes, TaskTypes, HistTypes, JobsWellFormed, Busy, Phase
<1>3. RowsWellFormed'
  BY DEF IInv, PreflightTerminal, Goto, rowVars, TypeOK, RowTypes, TaskTypes, HistTypes, JobsWellFormed, RowsWellFormed, Owns, Busy, Status
<1>4. LeaseOutlivesRequest'
  BY DEF IInv, PreflightTerminal, Goto, rowVars, TypeOK, RowTypes, TaskTypes, HistTypes, JobsWellFormed, LeaseOutlivesRequest, Owns, Busy, Status, Phase
<1>5. AttemptUnspent'
  BY DEF IInv, PreflightTerminal, Goto, rowVars, TypeOK, RowTypes, TaskTypes, HistTypes, JobsWellFormed, LeaseOutlivesRequest, AttemptUnspent, OnePostPerAttempt, Owns, Busy, Status, Phase
<1>6. OnePostPerAttempt'
  BY DEF IInv, PreflightTerminal, Goto, rowVars, TypeOK, RowTypes, TaskTypes, HistTypes, JobsWellFormed, LeaseOutlivesRequest, AttemptUnspent, OnePostPerAttempt, Owns, Busy, Status, Phase
<1>7. OwnerHasCause'
  BY DEF IInv, PreflightTerminal, Goto, rowVars, TypeOK, RowTypes, TaskTypes, HistTypes, JobsWellFormed, LeaseOutlivesRequest, OwnerHasCause, Owns, Busy, Status, Phase
<1>8. SettledForCause'
  BY DEF IInv, PreflightTerminal, Goto, rowVars, TypeOK, RowTypes, TaskTypes, HistTypes, JobsWellFormed, RowsWellFormed, LeaseOutlivesRequest, OwnerHasCause, SettledForCause, Owns, Busy, Status, Phase
<1> QED
  BY <1>1, <1>2, <1>3, <1>4, <1>5, <1>6, <1>7, <1>8 DEF IInv

(* A failing preflight changes no row.                                     *)
LEMMA PreflightRetryInductive ==
    ASSUME NEW w \in Worker, IInv, PreflightRetry(w) PROVE IInv'
<1> USE WorkerAssumption, CountAssumption, LeaseAssumption, DelayAssumption
<1>1. TypeOK'
  <2>1. RowTypes'
    BY DEF IInv, PreflightRetry, Goto, rowVars, histVars, TypeOK, RowTypes, TaskTypes, RowsWellFormed, JobsWellFormed, Status, Phase, Busy, Owns
  <2>2. TaskTypes'
    BY DEF IInv, PreflightRetry, Goto, rowVars, histVars, TypeOK, TaskTypes, TaskTypes, RowTypes, RowsWellFormed, JobsWellFormed, Status, Phase, Busy, Owns
  <2>3. HistTypes'
    BY DEF IInv, PreflightRetry, Goto, rowVars, histVars, TypeOK, HistTypes, TaskTypes, RowTypes, RowsWellFormed, JobsWellFormed, Status, Phase, Busy, Owns
  <2> QED
    BY <2>1, <2>2, <2>3 DEF TypeOK
<1>2. JobsWellFormed'
  BY DEF IInv, PreflightRetry, Goto, rowVars, histVars, TypeOK, RowTypes, TaskTypes, HistTypes, JobsWellFormed, Busy, Phase
<1>3. RowsWellFormed'
  BY DEF IInv, PreflightRetry, Goto, rowVars, histVars, TypeOK, RowTypes, TaskTypes, HistTypes, JobsWellFormed, RowsWellFormed, Owns, Busy, Status
<1>4. LeaseOutlivesRequest'
  BY DEF IInv, PreflightRetry, Goto, rowVars, histVars, TypeOK, RowTypes, TaskTypes, HistTypes, JobsWellFormed, LeaseOutlivesRequest, Owns, Busy, Status, Phase
<1>5. AttemptUnspent'
  BY DEF IInv, PreflightRetry, Goto, rowVars, histVars, TypeOK, RowTypes, TaskTypes, HistTypes, JobsWellFormed, LeaseOutlivesRequest, AttemptUnspent, OnePostPerAttempt, Owns, Busy, Status, Phase
<1>6. OnePostPerAttempt'
  BY DEF IInv, PreflightRetry, Goto, rowVars, histVars, TypeOK, RowTypes, TaskTypes, HistTypes, JobsWellFormed, LeaseOutlivesRequest, AttemptUnspent, OnePostPerAttempt, Owns, Busy, Status, Phase
<1>7. OwnerHasCause'
  BY DEF IInv, PreflightRetry, Goto, rowVars, histVars, TypeOK, RowTypes, TaskTypes, HistTypes, JobsWellFormed, LeaseOutlivesRequest, OwnerHasCause, Owns, Busy, Status, Phase
<1>8. SettledForCause'
  BY DEF IInv, PreflightRetry, Goto, rowVars, histVars, TypeOK, RowTypes, TaskTypes, HistTypes, JobsWellFormed, RowsWellFormed, LeaseOutlivesRequest, OwnerHasCause, SettledForCause, Owns, Busy, Status, Phase
<1> QED
  BY <1>1, <1>2, <1>3, <1>4, <1>5, <1>6, <1>7, <1>8 DEF IInv

(* The renewed lease outlives the request it allows.                       *)
LEMMA RenewInductive ==
    ASSUME NEW w \in Worker, IInv, Renew(w) PROVE IInv'
<1> USE WorkerAssumption, CountAssumption, LeaseAssumption, DelayAssumption
<1>1. TypeOK'
  <2>1. RowTypes'
    BY DEF IInv, Renew, histVars, TypeOK, RowTypes, TaskTypes, RowsWellFormed, JobsWellFormed, Status, Phase, Busy, Owns
  <2>2. TaskTypes'
    BY DEF IInv, Renew, histVars, TypeOK, TaskTypes, TaskTypes, RowTypes, RowsWellFormed, JobsWellFormed, Status, Phase, Busy, Owns
  <2>3. HistTypes'
    BY DEF IInv, Renew, histVars, TypeOK, HistTypes, TaskTypes, RowTypes, RowsWellFormed, JobsWellFormed, Status, Phase, Busy, Owns
  <2> QED
    BY <2>1, <2>2, <2>3 DEF TypeOK
<1>2. JobsWellFormed'
  BY DEF IInv, Renew, histVars, TypeOK, RowTypes, TaskTypes, HistTypes, JobsWellFormed, Busy, Phase
<1>3. RowsWellFormed'
  BY DEF IInv, Renew, histVars, TypeOK, RowTypes, TaskTypes, HistTypes, JobsWellFormed, RowsWellFormed, Owns, Busy, Status
<1>4. LeaseOutlivesRequest'
  BY SMTT(30) DEF IInv, Renew, histVars, TypeOK, RowTypes, TaskTypes, HistTypes, JobsWellFormed, LeaseOutlivesRequest, Owns, Busy, Status, Phase
<1>5. AttemptUnspent'
  BY DEF IInv, Renew, histVars, TypeOK, RowTypes, TaskTypes, HistTypes, JobsWellFormed, LeaseOutlivesRequest, AttemptUnspent, OnePostPerAttempt, Owns, Busy, Status, Phase
<1>6. OnePostPerAttempt'
  BY DEF IInv, Renew, histVars, TypeOK, RowTypes, TaskTypes, HistTypes, JobsWellFormed, LeaseOutlivesRequest, AttemptUnspent, OnePostPerAttempt, Owns, Busy, Status, Phase
<1>7. OwnerHasCause'
  BY DEF IInv, Renew, histVars, TypeOK, RowTypes, TaskTypes, HistTypes, JobsWellFormed, LeaseOutlivesRequest, OwnerHasCause, Owns, Busy, Status, Phase
<1>8. SettledForCause'
  BY DEF IInv, Renew, histVars, TypeOK, RowTypes, TaskTypes, HistTypes, JobsWellFormed, RowsWellFormed, LeaseOutlivesRequest, OwnerHasCause, SettledForCause, Owns, Busy, Status, Phase
<1> QED
  BY <1>1, <1>2, <1>3, <1>4, <1>5, <1>6, <1>7, <1>8 DEF IInv

(* An aborted send leaves the row to its lease.                            *)
LEMMA AbortInductive ==
    ASSUME NEW w \in Worker, IInv, Abort(w) PROVE IInv'
<1> USE WorkerAssumption, CountAssumption, LeaseAssumption, DelayAssumption
<1>1. TypeOK'
  <2>1. RowTypes'
    BY DEF IInv, Abort, Finish, AfterTask, histVars, TypeOK, RowTypes, TaskTypes, RowsWellFormed, JobsWellFormed, Status, Phase, Busy, Owns
  <2>2. TaskTypes'
    BY DEF IInv, Abort, Finish, AfterTask, histVars, TypeOK, TaskTypes, TaskTypes, RowTypes, RowsWellFormed, JobsWellFormed, Status, Phase, Busy, Owns
  <2>3. HistTypes'
    BY DEF IInv, Abort, Finish, AfterTask, histVars, TypeOK, HistTypes, TaskTypes, RowTypes, RowsWellFormed, JobsWellFormed, Status, Phase, Busy, Owns
  <2> QED
    BY <2>1, <2>2, <2>3 DEF TypeOK
<1>2. JobsWellFormed'
  BY DEF IInv, Abort, Finish, AfterTask, histVars, TypeOK, RowTypes, TaskTypes, HistTypes, JobsWellFormed, Busy, Phase
<1>3. RowsWellFormed'
  BY DEF IInv, Abort, Finish, AfterTask, histVars, TypeOK, RowTypes, TaskTypes, HistTypes, JobsWellFormed, RowsWellFormed, Owns, Busy, Status
<1>4. LeaseOutlivesRequest'
  <2> SUFFICES ASSUME NEW v \in Worker, phase'[v] = "fetch"
               PROVE  Owns(v, job[v])' /\ timer'[job'[v]] > window'[v]
    BY DEF LeaseOutlivesRequest, Owns
  <2>1. v # w /\ phase[v] = "fetch" /\ job'[v] = job[v] /\ window'[v] = window[v]
    BY DEF IInv, Abort, Finish, AfterTask, TypeOK, RowTypes, TaskTypes, HistTypes
  <2>2. Owns(v, job[v]) /\ timer[job[v]] > window[v] /\ job[v] \in Batch
    BY <2>1 DEF IInv, LeaseOutlivesRequest, JobsWellFormed, Busy
  <2>3. UNCHANGED <<status[job[v]], lease[job[v]], timer[job[v]]>>
    BY <2>1, <2>2 DEF IInv, Abort, Finish, AfterTask, Owns, TypeOK, RowTypes, TaskTypes, HistTypes
  <2> QED
    BY <2>1, <2>2, <2>3 DEF Owns
<1>5. AttemptUnspent'
  BY DEF IInv, Abort, Finish, AfterTask, histVars, TypeOK, RowTypes, TaskTypes, HistTypes, JobsWellFormed, LeaseOutlivesRequest, AttemptUnspent, OnePostPerAttempt, Owns, Busy, Status, Phase
<1>6. OnePostPerAttempt'
  BY DEF IInv, Abort, Finish, AfterTask, histVars, TypeOK, RowTypes, TaskTypes, HistTypes, JobsWellFormed, LeaseOutlivesRequest, AttemptUnspent, OnePostPerAttempt, Owns, Busy, Status, Phase
<1>7. OwnerHasCause'
  BY DEF IInv, Abort, Finish, AfterTask, histVars, TypeOK, RowTypes, TaskTypes, HistTypes, JobsWellFormed, LeaseOutlivesRequest, OwnerHasCause, Owns, Busy, Status, Phase
<1>8. SettledForCause'
  BY DEF IInv, Abort, Finish, AfterTask, histVars, TypeOK, RowTypes, TaskTypes, HistTypes, JobsWellFormed, RowsWellFormed, LeaseOutlivesRequest, OwnerHasCause, SettledForCause, Owns, Busy, Status, Phase
<1> QED
  BY <1>1, <1>2, <1>3, <1>4, <1>5, <1>6, <1>7, <1>8 DEF IInv

(* An accepted message is posted under the lease, by an attempt not yet    *)
(* spent.                                                                  *)
LEMMA SendOkInductive ==
    ASSUME NEW w \in Worker, IInv, SendOk(w) PROVE IInv'
<1> USE WorkerAssumption, CountAssumption, LeaseAssumption, DelayAssumption
<1>1. TypeOK'
  <2>1. RowTypes'
    BY DEF IInv, SendOk, Post, Goto, rowVars, TypeOK, RowTypes, TaskTypes, RowsWellFormed, JobsWellFormed, Status, Phase, Busy, Owns
  <2>2. TaskTypes'
    BY DEF IInv, SendOk, Post, Goto, rowVars, TypeOK, TaskTypes, TaskTypes, RowTypes, RowsWellFormed, JobsWellFormed, Status, Phase, Busy, Owns
  <2>3. HistTypes'
    BY DEF IInv, SendOk, Post, Goto, rowVars, TypeOK, HistTypes, TaskTypes, RowTypes, RowsWellFormed, JobsWellFormed, Status, Phase, Busy, Owns
  <2> QED
    BY <2>1, <2>2, <2>3 DEF TypeOK
<1>2. JobsWellFormed'
  BY DEF IInv, SendOk, Post, Goto, rowVars, TypeOK, RowTypes, TaskTypes, HistTypes, JobsWellFormed, Busy, Phase
<1>3. RowsWellFormed'
  BY DEF IInv, SendOk, Post, Goto, rowVars, TypeOK, RowTypes, TaskTypes, HistTypes, JobsWellFormed, RowsWellFormed, Owns, Busy, Status
<1>4. LeaseOutlivesRequest'
  BY DEF IInv, SendOk, Post, Goto, rowVars, TypeOK, RowTypes, TaskTypes, HistTypes, JobsWellFormed, LeaseOutlivesRequest, Owns, Busy, Status, Phase
<1>5. AttemptUnspent'
  BY DEF IInv, SendOk, Post, Goto, rowVars, TypeOK, RowTypes, TaskTypes, HistTypes, JobsWellFormed, LeaseOutlivesRequest, AttemptUnspent, OnePostPerAttempt, Owns, Busy, Status, Phase
<1>6. OnePostPerAttempt'
  BY DEF IInv, SendOk, Post, Goto, rowVars, TypeOK, RowTypes, TaskTypes, HistTypes, JobsWellFormed, LeaseOutlivesRequest, AttemptUnspent, OnePostPerAttempt, Owns, Busy, Status, Phase
<1>7. OwnerHasCause'
  BY DEF IInv, SendOk, Post, Goto, rowVars, TypeOK, RowTypes, TaskTypes, HistTypes, JobsWellFormed, LeaseOutlivesRequest, OwnerHasCause, Owns, Busy, Status, Phase
<1>8. SettledForCause'
  BY DEF IInv, SendOk, Post, Goto, rowVars, TypeOK, RowTypes, TaskTypes, HistTypes, JobsWellFormed, RowsWellFormed, LeaseOutlivesRequest, OwnerHasCause, SettledForCause, Owns, Busy, Status, Phase
<1> QED
  BY <1>1, <1>2, <1>3, <1>4, <1>5, <1>6, <1>7, <1>8 DEF IInv

(* A duplicate counts as accepted.                                         *)
LEMMA SendDuplicateInductive ==
    ASSUME NEW w \in Worker, IInv, SendDuplicate(w) PROVE IInv'
<1> USE WorkerAssumption, CountAssumption, LeaseAssumption, DelayAssumption
<1>1. TypeOK'
  <2>1. RowTypes'
    BY DEF IInv, SendDuplicate, Goto, rowVars, TypeOK, RowTypes, TaskTypes, RowsWellFormed, JobsWellFormed, Status, Phase, Busy, Owns
  <2>2. TaskTypes'
    BY DEF IInv, SendDuplicate, Goto, rowVars, TypeOK, TaskTypes, TaskTypes, RowTypes, RowsWellFormed, JobsWellFormed, Status, Phase, Busy, Owns
  <2>3. HistTypes'
    BY DEF IInv, SendDuplicate, Goto, rowVars, TypeOK, HistTypes, TaskTypes, RowTypes, RowsWellFormed, JobsWellFormed, Status, Phase, Busy, Owns
  <2> QED
    BY <2>1, <2>2, <2>3 DEF TypeOK
<1>2. JobsWellFormed'
  BY DEF IInv, SendDuplicate, Goto, rowVars, TypeOK, RowTypes, TaskTypes, HistTypes, JobsWellFormed, Busy, Phase
<1>3. RowsWellFormed'
  BY DEF IInv, SendDuplicate, Goto, rowVars, TypeOK, RowTypes, TaskTypes, HistTypes, JobsWellFormed, RowsWellFormed, Owns, Busy, Status
<1>4. LeaseOutlivesRequest'
  BY DEF IInv, SendDuplicate, Goto, rowVars, TypeOK, RowTypes, TaskTypes, HistTypes, JobsWellFormed, LeaseOutlivesRequest, Owns, Busy, Status, Phase
<1>5. AttemptUnspent'
  BY DEF IInv, SendDuplicate, Goto, rowVars, TypeOK, RowTypes, TaskTypes, HistTypes, JobsWellFormed, LeaseOutlivesRequest, AttemptUnspent, OnePostPerAttempt, Owns, Busy, Status, Phase
<1>6. OnePostPerAttempt'
  BY DEF IInv, SendDuplicate, Goto, rowVars, TypeOK, RowTypes, TaskTypes, HistTypes, JobsWellFormed, LeaseOutlivesRequest, AttemptUnspent, OnePostPerAttempt, Owns, Busy, Status, Phase
<1>7. OwnerHasCause'
  BY DEF IInv, SendDuplicate, Goto, rowVars, TypeOK, RowTypes, TaskTypes, HistTypes, JobsWellFormed, LeaseOutlivesRequest, OwnerHasCause, Owns, Busy, Status, Phase
<1>8. SettledForCause'
  BY DEF IInv, SendDuplicate, Goto, rowVars, TypeOK, RowTypes, TaskTypes, HistTypes, JobsWellFormed, RowsWellFormed, LeaseOutlivesRequest, OwnerHasCause, SettledForCause, Owns, Busy, Status, Phase
<1> QED
  BY <1>1, <1>2, <1>3, <1>4, <1>5, <1>6, <1>7, <1>8 DEF IInv

(* A rejected message is a cause for a dead letter.                        *)
LEMMA SendRejectedInductive ==
    ASSUME NEW w \in Worker, IInv, SendRejected(w) PROVE IInv'
<1> USE WorkerAssumption, CountAssumption, LeaseAssumption, DelayAssumption
<1>1. TypeOK'
  <2>1. RowTypes'
    BY DEF IInv, SendRejected, Post, Goto, rowVars, TypeOK, RowTypes, TaskTypes, RowsWellFormed, JobsWellFormed, Status, Phase, Busy, Owns
  <2>2. TaskTypes'
    BY DEF IInv, SendRejected, Post, Goto, rowVars, TypeOK, TaskTypes, TaskTypes, RowTypes, RowsWellFormed, JobsWellFormed, Status, Phase, Busy, Owns
  <2>3. HistTypes'
    BY DEF IInv, SendRejected, Post, Goto, rowVars, TypeOK, HistTypes, TaskTypes, RowTypes, RowsWellFormed, JobsWellFormed, Status, Phase, Busy, Owns
  <2> QED
    BY <2>1, <2>2, <2>3 DEF TypeOK
<1>2. JobsWellFormed'
  BY DEF IInv, SendRejected, Post, Goto, rowVars, TypeOK, RowTypes, TaskTypes, HistTypes, JobsWellFormed, Busy, Phase
<1>3. RowsWellFormed'
  BY DEF IInv, SendRejected, Post, Goto, rowVars, TypeOK, RowTypes, TaskTypes, HistTypes, JobsWellFormed, RowsWellFormed, Owns, Busy, Status
<1>4. LeaseOutlivesRequest'
  BY DEF IInv, SendRejected, Post, Goto, rowVars, TypeOK, RowTypes, TaskTypes, HistTypes, JobsWellFormed, LeaseOutlivesRequest, Owns, Busy, Status, Phase
<1>5. AttemptUnspent'
  <2> SUFFICES ASSUME NEW v \in Worker, phase'[v] \in {"claimed", "fetch"},
                      Owns(v, job[v])', ~told'[v]
               PROVE  posted'[job'[v]] < attempts'[job'[v]]
    BY DEF AttemptUnspent, Owns
  <2>1. job'[v] = job[v] /\ job[v] \in Batch /\ Owns(v, job[v])
        /\ phase[v] \in {"claimed", "fetch"} /\ ~told[v]
    BY DEF IInv, SendRejected, Post, Goto, rowVars, TypeOK, RowTypes, TaskTypes, HistTypes, JobsWellFormed, Busy, Owns
  <2>2. posted[job[v]] < attempts[job[v]] /\ attempts' = attempts
    BY <2>1 DEF IInv, AttemptUnspent, SendRejected, Post, Goto, rowVars
  <2>3. posted'[job[v]] = posted[job[v]]
    <3>1. CASE v = w
      BY <3>1, <2>1 DEF IInv, SendRejected, Post, Goto, rowVars, TypeOK, RowTypes, TaskTypes, HistTypes
    <3>2. CASE phase[w] # "fetch"
      BY <3>2 DEF SendRejected, Post, Goto, rowVars
    <3>3. CASE v # w /\ phase[w] = "fetch"
      <4>1. Owns(w, job[w])
        BY <3>3 DEF IInv, LeaseOutlivesRequest
      <4>2. job[v] # job[w]
        BY <4>1, <3>3, <2>1 DEF Owns
      <4> QED
        BY <4>2, <2>1 DEF IInv, SendRejected, Post, Goto, rowVars, TypeOK, RowTypes, TaskTypes, HistTypes
    <3> QED
      BY <3>1, <3>2, <3>3
  <2> QED
    BY <2>1, <2>2, <2>3
<1>6. OnePostPerAttempt'
  <2>1. phase[w] = "fetch" /\ ~told[w] => posted[job[w]] < attempts[job[w]]
    BY DEF IInv, LeaseOutlivesRequest, AttemptUnspent
  <2>2. job[w] \in Batch /\ attempts' = attempts
    BY DEF IInv, SendRejected, Post, Goto, rowVars, TypeOK, RowTypes, TaskTypes, HistTypes, JobsWellFormed, Busy
  <2>3. ASSUME NEW b \in Batch PROVE posted'[b] <= attempts[b]
    <3>1. posted[b] \in Nat /\ attempts[b] \in Nat /\ posted[b] <= attempts[b]
      BY DEF IInv, OnePostPerAttempt, TypeOK, RowTypes, TaskTypes, HistTypes
    <3>2. CASE posted' = posted
      BY <3>1, <3>2
    <3>3. CASE phase[w] = "fetch" /\ ~told[w] /\ posted' = [posted EXCEPT ![job[w]] = @ + 1]
      BY <2>1, <2>2, <3>1, <3>3 DEF IInv, TypeOK, RowTypes, TaskTypes, HistTypes
    <3> QED
      BY <3>2, <3>3 DEF SendRejected, Post, Goto, rowVars
  <2> QED
    BY <2>2, <2>3 DEF OnePostPerAttempt
<1>7. OwnerHasCause'
  BY DEF IInv, SendRejected, Post, Goto, rowVars, TypeOK, RowTypes, TaskTypes, HistTypes, JobsWellFormed, LeaseOutlivesRequest, OwnerHasCause, Owns, Busy, Status, Phase
<1>8. SettledForCause'
  BY DEF IInv, SendRejected, Post, Goto, rowVars, TypeOK, RowTypes, TaskTypes, HistTypes, JobsWellFormed, RowsWellFormed, LeaseOutlivesRequest, OwnerHasCause, SettledForCause, Owns, Busy, Status, Phase
<1> QED
  BY <1>1, <1>2, <1>3, <1>4, <1>5, <1>6, <1>7, <1>8 DEF IInv

(* A transient failure may have posted, once per claim.                    *)
LEMMA SendTransientInductive ==
    ASSUME NEW w \in Worker, IInv, SendTransient(w) PROVE IInv'
<1> USE WorkerAssumption, CountAssumption, LeaseAssumption, DelayAssumption
<1>1. TypeOK'
  <2>1. RowTypes'
    BY DEF IInv, SendTransient, Post, rowVars, TypeOK, RowTypes, TaskTypes, RowsWellFormed, JobsWellFormed, Status, Phase, Busy, Owns
  <2>2. TaskTypes'
    BY DEF IInv, SendTransient, Post, rowVars, TypeOK, TaskTypes, TaskTypes, RowTypes, RowsWellFormed, JobsWellFormed, Status, Phase, Busy, Owns
  <2>3. HistTypes'
    BY DEF IInv, SendTransient, Post, rowVars, TypeOK, HistTypes, TaskTypes, RowTypes, RowsWellFormed, JobsWellFormed, Status, Phase, Busy, Owns
  <2> QED
    BY <2>1, <2>2, <2>3 DEF TypeOK
<1>2. JobsWellFormed'
  BY DEF IInv, SendTransient, Post, rowVars, TypeOK, RowTypes, TaskTypes, HistTypes, JobsWellFormed, Busy, Phase
<1>3. RowsWellFormed'
  BY DEF IInv, SendTransient, Post, rowVars, TypeOK, RowTypes, TaskTypes, HistTypes, JobsWellFormed, RowsWellFormed, Owns, Busy, Status
<1>4. LeaseOutlivesRequest'
  BY DEF IInv, SendTransient, Post, rowVars, TypeOK, RowTypes, TaskTypes, HistTypes, JobsWellFormed, LeaseOutlivesRequest, Owns, Busy, Status, Phase
<1>5. AttemptUnspent'
  <2> SUFFICES ASSUME NEW v \in Worker, phase'[v] \in {"claimed", "fetch"},
                      Owns(v, job[v])', ~told'[v]
               PROVE  posted'[job'[v]] < attempts'[job'[v]]
    BY DEF AttemptUnspent, Owns
  <2>1. job'[v] = job[v] /\ job[v] \in Batch /\ Owns(v, job[v])
        /\ phase[v] \in {"claimed", "fetch"} /\ ~told[v]
    BY DEF IInv, SendTransient, Post, rowVars, TypeOK, RowTypes, TaskTypes, HistTypes, JobsWellFormed, Busy, Owns
  <2>2. posted[job[v]] < attempts[job[v]] /\ attempts' = attempts
    BY <2>1 DEF IInv, AttemptUnspent, SendTransient, Post, rowVars
  <2>3. posted'[job[v]] = posted[job[v]]
    <3>1. CASE v = w
      BY <3>1, <2>1 DEF IInv, SendTransient, Post, rowVars, TypeOK, RowTypes, TaskTypes, HistTypes
    <3>2. CASE phase[w] # "fetch"
      BY <3>2 DEF SendTransient, Post, rowVars
    <3>3. CASE v # w /\ phase[w] = "fetch"
      <4>1. Owns(w, job[w])
        BY <3>3 DEF IInv, LeaseOutlivesRequest
      <4>2. job[v] # job[w]
        BY <4>1, <3>3, <2>1 DEF Owns
      <4> QED
        BY <4>2, <2>1 DEF IInv, SendTransient, Post, rowVars, TypeOK, RowTypes, TaskTypes, HistTypes
    <3> QED
      BY <3>1, <3>2, <3>3
  <2> QED
    BY <2>1, <2>2, <2>3
<1>6. OnePostPerAttempt'
  <2>1. phase[w] = "fetch" /\ ~told[w] => posted[job[w]] < attempts[job[w]]
    BY DEF IInv, LeaseOutlivesRequest, AttemptUnspent
  <2>2. job[w] \in Batch /\ attempts' = attempts
    BY DEF IInv, SendTransient, Post, rowVars, TypeOK, RowTypes, TaskTypes, HistTypes, JobsWellFormed, Busy
  <2>3. ASSUME NEW b \in Batch PROVE posted'[b] <= attempts[b]
    <3>1. posted[b] \in Nat /\ attempts[b] \in Nat /\ posted[b] <= attempts[b]
      BY DEF IInv, OnePostPerAttempt, TypeOK, RowTypes, TaskTypes, HistTypes
    <3>2. CASE posted' = posted
      BY <3>1, <3>2
    <3>3. CASE phase[w] = "fetch" /\ ~told[w] /\ posted' = [posted EXCEPT ![job[w]] = @ + 1]
      BY <2>1, <2>2, <3>1, <3>3 DEF IInv, TypeOK, RowTypes, TaskTypes, HistTypes
    <3> QED
      BY <3>2, <3>3 DEF SendTransient, Post, rowVars
  <2> QED
    BY <2>2, <2>3 DEF OnePostPerAttempt
<1>7. OwnerHasCause'
  BY DEF IInv, SendTransient, Post, rowVars, TypeOK, RowTypes, TaskTypes, HistTypes, JobsWellFormed, LeaseOutlivesRequest, OwnerHasCause, Owns, Busy, Status, Phase
<1>8. SettledForCause'
  BY DEF IInv, SendTransient, Post, rowVars, TypeOK, RowTypes, TaskTypes, HistTypes, JobsWellFormed, RowsWellFormed, LeaseOutlivesRequest, OwnerHasCause, SettledForCause, Owns, Busy, Status, Phase
<1> QED
  BY <1>1, <1>2, <1>3, <1>4, <1>5, <1>6, <1>7, <1>8 DEF IInv

(* The acknowledgement settles only an owned row, for a cause.             *)
LEMMA AckInductive ==
    ASSUME NEW w \in Worker, IInv, Ack(w) PROVE IInv'
<1> USE WorkerAssumption, CountAssumption, LeaseAssumption, DelayAssumption
<1>1. TypeOK'
  <2>1. RowTypes'
    <3>1. job[w] \in Batch
      BY DEF IInv, Ack, JobsWellFormed, Busy
    <3> QED
      BY <3>1, MarkSentTypes, RowsKeepTypes DEF IInv, Ack, TypeOK
  <2>2. TaskTypes'
    BY DEF IInv, Ack, MarkSent, Settle, Finish, AfterTask, rowVars, histVars, TypeOK, TaskTypes, TaskTypes, RowTypes, RowsWellFormed, JobsWellFormed, Status, Phase, Busy, Owns
  <2>3. HistTypes'
    BY DEF IInv, Ack, MarkSent, Settle, Finish, AfterTask, rowVars, histVars, TypeOK, HistTypes, TaskTypes, RowTypes, RowsWellFormed, JobsWellFormed, Status, Phase, Busy, Owns
  <2> QED
    BY <2>1, <2>2, <2>3 DEF TypeOK
<1>2. JobsWellFormed'
  BY DEF IInv, Ack, MarkSent, Settle, Finish, AfterTask, rowVars, histVars, TypeOK, RowTypes, TaskTypes, HistTypes, JobsWellFormed, Busy, Phase
<1>3. RowsWellFormed'
  BY DEF IInv, Ack, MarkSent, Settle, Finish, AfterTask, rowVars, histVars, TypeOK, RowTypes, TaskTypes, HistTypes, JobsWellFormed, RowsWellFormed, Owns, Busy, Status
<1>4. LeaseOutlivesRequest'
  <2> SUFFICES ASSUME NEW v \in Worker, phase'[v] = "fetch"
               PROVE  Owns(v, job[v])' /\ timer'[job'[v]] > window'[v]
    BY DEF LeaseOutlivesRequest, Owns
  <2>1. v # w /\ phase[v] = "fetch" /\ job'[v] = job[v] /\ window'[v] = window[v]
    BY DEF IInv, Ack, MarkSent, Settle, Finish, AfterTask, rowVars, TypeOK, RowTypes, TaskTypes, HistTypes
  <2>2. Owns(v, job[v]) /\ timer[job[v]] > window[v] /\ job[v] \in Batch
    BY <2>1 DEF IInv, LeaseOutlivesRequest, JobsWellFormed, Busy
  <2>3. UNCHANGED <<status[job[v]], lease[job[v]], timer[job[v]]>>
    BY <2>1, <2>2 DEF IInv, Ack, MarkSent, Settle, Finish, AfterTask, rowVars, Owns, TypeOK, RowTypes, TaskTypes, HistTypes
  <2> QED
    BY <2>1, <2>2, <2>3 DEF Owns
<1>5. AttemptUnspent'
  BY DEF IInv, Ack, MarkSent, Settle, Finish, AfterTask, rowVars, histVars, TypeOK, RowTypes, TaskTypes, HistTypes, JobsWellFormed, LeaseOutlivesRequest, AttemptUnspent, OnePostPerAttempt, Owns, Busy, Status, Phase
<1>6. OnePostPerAttempt'
  BY DEF IInv, Ack, MarkSent, Settle, Finish, AfterTask, rowVars, histVars, TypeOK, RowTypes, TaskTypes, HistTypes, JobsWellFormed, LeaseOutlivesRequest, AttemptUnspent, OnePostPerAttempt, Owns, Busy, Status, Phase
<1>7. OwnerHasCause'
  <2> SUFFICES ASSUME NEW v \in Worker, phase'[v] \in {"ack", "terminal"},
                      Owns(v, job[v])'
               PROVE  /\ phase'[v] = "ack" => reply'[job'[v]] = "accepted"
                      /\ phase'[v] = "terminal" => reply'[job'[v]] # "none"
    BY DEF OwnerHasCause, Owns
  <2>1. v # w /\ phase'[v] = phase[v] /\ job'[v] = job[v] /\ job[v] \in Batch
    BY DEF IInv, Ack, MarkSent, Settle, Finish, AfterTask, rowVars, TypeOK, RowTypes, TaskTypes, HistTypes, JobsWellFormed, Busy
  <2>2. Owns(v, job[v])
    BY <2>1 DEF IInv, Ack, MarkSent, Settle, Finish, AfterTask, rowVars, Owns, TypeOK, RowTypes, TaskTypes, HistTypes
  <2> QED
    BY <2>1, <2>2 DEF IInv, OwnerHasCause, Ack, MarkSent, Settle, Finish, AfterTask, rowVars, histVars
<1>8. SettledForCause'
  BY DEF IInv, Ack, MarkSent, Settle, Finish, AfterTask, rowVars, histVars, TypeOK, RowTypes, TaskTypes, HistTypes, JobsWellFormed, RowsWellFormed, LeaseOutlivesRequest, OwnerHasCause, SettledForCause, Owns, Busy, Status, Phase
<1> QED
  BY <1>1, <1>2, <1>3, <1>4, <1>5, <1>6, <1>7, <1>8 DEF IInv

(* A failing acknowledgement may have been written.                        *)
LEMMA AckThrowsInductive ==
    ASSUME NEW w \in Worker, IInv, AckThrows(w) PROVE IInv'
<1> USE WorkerAssumption, CountAssumption, LeaseAssumption, DelayAssumption
<1>1. TypeOK'
  <2>1. RowTypes'
    <3>1. job[w] \in Batch
      BY DEF IInv, AckThrows, JobsWellFormed, Busy
    <3> QED
      BY <3>1, MarkSentTypes, RowsKeepTypes DEF IInv, AckThrows, TypeOK
  <2>2. TaskTypes'
    BY DEF IInv, AckThrows, MarkSent, Settle, Goto, rowVars, histVars, TypeOK, TaskTypes, TaskTypes, RowTypes, RowsWellFormed, JobsWellFormed, Status, Phase, Busy, Owns
  <2>3. HistTypes'
    BY DEF IInv, AckThrows, MarkSent, Settle, Goto, rowVars, histVars, TypeOK, HistTypes, TaskTypes, RowTypes, RowsWellFormed, JobsWellFormed, Status, Phase, Busy, Owns
  <2> QED
    BY <2>1, <2>2, <2>3 DEF TypeOK
<1>2. JobsWellFormed'
  BY DEF IInv, AckThrows, MarkSent, Settle, Goto, rowVars, histVars, TypeOK, RowTypes, TaskTypes, HistTypes, JobsWellFormed, Busy, Phase
<1>3. RowsWellFormed'
  BY DEF IInv, AckThrows, MarkSent, Settle, Goto, rowVars, histVars, TypeOK, RowTypes, TaskTypes, HistTypes, JobsWellFormed, RowsWellFormed, Owns, Busy, Status
<1>4. LeaseOutlivesRequest'
  BY DEF IInv, AckThrows, MarkSent, Settle, Goto, rowVars, histVars, TypeOK, RowTypes, TaskTypes, HistTypes, JobsWellFormed, LeaseOutlivesRequest, Owns, Busy, Status, Phase
<1>5. AttemptUnspent'
  BY DEF IInv, AckThrows, MarkSent, Settle, Goto, rowVars, histVars, TypeOK, RowTypes, TaskTypes, HistTypes, JobsWellFormed, LeaseOutlivesRequest, AttemptUnspent, OnePostPerAttempt, Owns, Busy, Status, Phase
<1>6. OnePostPerAttempt'
  BY DEF IInv, AckThrows, MarkSent, Settle, Goto, rowVars, histVars, TypeOK, RowTypes, TaskTypes, HistTypes, JobsWellFormed, LeaseOutlivesRequest, AttemptUnspent, OnePostPerAttempt, Owns, Busy, Status, Phase
<1>7. OwnerHasCause'
  BY DEF IInv, AckThrows, MarkSent, Settle, Goto, rowVars, histVars, TypeOK, RowTypes, TaskTypes, HistTypes, JobsWellFormed, LeaseOutlivesRequest, OwnerHasCause, Owns, Busy, Status, Phase
<1>8. SettledForCause'
  BY DEF IInv, AckThrows, MarkSent, Settle, Goto, rowVars, histVars, TypeOK, RowTypes, TaskTypes, HistTypes, JobsWellFormed, RowsWellFormed, LeaseOutlivesRequest, OwnerHasCause, SettledForCause, Owns, Busy, Status, Phase
<1> QED
  BY <1>1, <1>2, <1>3, <1>4, <1>5, <1>6, <1>7, <1>8 DEF IInv

(* The dead letter settles only an owned row, for a cause.                 *)
LEMMA DeadLetterInductive ==
    ASSUME NEW w \in Worker, IInv, DeadLetter(w) PROVE IInv'
<1> USE WorkerAssumption, CountAssumption, LeaseAssumption, DelayAssumption
<1>1. TypeOK'
  <2>1. RowTypes'
    <3>1. job[w] \in Batch
      BY DEF IInv, DeadLetter, JobsWellFormed, Busy
    <3> QED
      BY <3>1, MarkDeadTypes, RowsKeepTypes DEF IInv, DeadLetter, TypeOK
  <2>2. TaskTypes'
    BY DEF IInv, DeadLetter, MarkDead, Settle, Finish, AfterTask, rowVars, histVars, TypeOK, TaskTypes, TaskTypes, RowTypes, RowsWellFormed, JobsWellFormed, Status, Phase, Busy, Owns
  <2>3. HistTypes'
    BY DEF IInv, DeadLetter, MarkDead, Settle, Finish, AfterTask, rowVars, histVars, TypeOK, HistTypes, TaskTypes, RowTypes, RowsWellFormed, JobsWellFormed, Status, Phase, Busy, Owns
  <2> QED
    BY <2>1, <2>2, <2>3 DEF TypeOK
<1>2. JobsWellFormed'
  BY DEF IInv, DeadLetter, MarkDead, Settle, Finish, AfterTask, rowVars, histVars, TypeOK, RowTypes, TaskTypes, HistTypes, JobsWellFormed, Busy, Phase
<1>3. RowsWellFormed'
  BY DEF IInv, DeadLetter, MarkDead, Settle, Finish, AfterTask, rowVars, histVars, TypeOK, RowTypes, TaskTypes, HistTypes, JobsWellFormed, RowsWellFormed, Owns, Busy, Status
<1>4. LeaseOutlivesRequest'
  <2> SUFFICES ASSUME NEW v \in Worker, phase'[v] = "fetch"
               PROVE  Owns(v, job[v])' /\ timer'[job'[v]] > window'[v]
    BY DEF LeaseOutlivesRequest, Owns
  <2>1. v # w /\ phase[v] = "fetch" /\ job'[v] = job[v] /\ window'[v] = window[v]
    BY DEF IInv, DeadLetter, MarkDead, Settle, Finish, AfterTask, rowVars, TypeOK, RowTypes, TaskTypes, HistTypes
  <2>2. Owns(v, job[v]) /\ timer[job[v]] > window[v] /\ job[v] \in Batch
    BY <2>1 DEF IInv, LeaseOutlivesRequest, JobsWellFormed, Busy
  <2>3. UNCHANGED <<status[job[v]], lease[job[v]], timer[job[v]]>>
    BY <2>1, <2>2 DEF IInv, DeadLetter, MarkDead, Settle, Finish, AfterTask, rowVars, Owns, TypeOK, RowTypes, TaskTypes, HistTypes
  <2> QED
    BY <2>1, <2>2, <2>3 DEF Owns
<1>5. AttemptUnspent'
  BY SMTT(30) DEF IInv, DeadLetter, MarkDead, Settle, Finish, AfterTask, rowVars, histVars, TypeOK, RowTypes, TaskTypes, HistTypes, JobsWellFormed, LeaseOutlivesRequest, AttemptUnspent, OnePostPerAttempt, Owns, Busy, Status, Phase
<1>6. OnePostPerAttempt'
  BY DEF IInv, DeadLetter, MarkDead, Settle, Finish, AfterTask, rowVars, histVars, TypeOK, RowTypes, TaskTypes, HistTypes, JobsWellFormed, LeaseOutlivesRequest, AttemptUnspent, OnePostPerAttempt, Owns, Busy, Status, Phase
<1>7. OwnerHasCause'
  <2> SUFFICES ASSUME NEW v \in Worker, phase'[v] \in {"ack", "terminal"},
                      Owns(v, job[v])'
               PROVE  /\ phase'[v] = "ack" => reply'[job'[v]] = "accepted"
                      /\ phase'[v] = "terminal" => reply'[job'[v]] # "none"
    BY DEF OwnerHasCause, Owns
  <2>1. v # w /\ phase'[v] = phase[v] /\ job'[v] = job[v] /\ job[v] \in Batch
    BY DEF IInv, DeadLetter, MarkDead, Settle, Finish, AfterTask, rowVars, TypeOK, RowTypes, TaskTypes, HistTypes, JobsWellFormed, Busy
  <2>2. Owns(v, job[v])
    BY <2>1 DEF IInv, DeadLetter, MarkDead, Settle, Finish, AfterTask, rowVars, Owns, TypeOK, RowTypes, TaskTypes, HistTypes
  <2> QED
    BY <2>1, <2>2 DEF IInv, OwnerHasCause, DeadLetter, MarkDead, Settle, Finish, AfterTask, rowVars, histVars
<1>8. SettledForCause'
  BY DEF IInv, DeadLetter, MarkDead, Settle, Finish, AfterTask, rowVars, histVars, TypeOK, RowTypes, TaskTypes, HistTypes, JobsWellFormed, RowsWellFormed, LeaseOutlivesRequest, OwnerHasCause, SettledForCause, Owns, Busy, Status, Phase
<1> QED
  BY <1>1, <1>2, <1>3, <1>4, <1>5, <1>6, <1>7, <1>8 DEF IInv

(* A failing dead letter may have been written.                            *)
LEMMA DeadLetterThrowsInductive ==
    ASSUME NEW w \in Worker, IInv, DeadLetterThrows(w) PROVE IInv'
<1> USE WorkerAssumption, CountAssumption, LeaseAssumption, DelayAssumption
<1>1. TypeOK'
  <2>1. RowTypes'
    <3>1. job[w] \in Batch
      BY DEF IInv, DeadLetterThrows, JobsWellFormed, Busy
    <3> QED
      BY <3>1, MarkDeadTypes, RowsKeepTypes DEF IInv, DeadLetterThrows, TypeOK
  <2>2. TaskTypes'
    BY DEF IInv, DeadLetterThrows, MarkDead, Settle, Goto, rowVars, histVars, TypeOK, TaskTypes, TaskTypes, RowTypes, RowsWellFormed, JobsWellFormed, Status, Phase, Busy, Owns
  <2>3. HistTypes'
    BY DEF IInv, DeadLetterThrows, MarkDead, Settle, Goto, rowVars, histVars, TypeOK, HistTypes, TaskTypes, RowTypes, RowsWellFormed, JobsWellFormed, Status, Phase, Busy, Owns
  <2> QED
    BY <2>1, <2>2, <2>3 DEF TypeOK
<1>2. JobsWellFormed'
  BY DEF IInv, DeadLetterThrows, MarkDead, Settle, Goto, rowVars, histVars, TypeOK, RowTypes, TaskTypes, HistTypes, JobsWellFormed, Busy, Phase
<1>3. RowsWellFormed'
  BY DEF IInv, DeadLetterThrows, MarkDead, Settle, Goto, rowVars, histVars, TypeOK, RowTypes, TaskTypes, HistTypes, JobsWellFormed, RowsWellFormed, Owns, Busy, Status
<1>4. LeaseOutlivesRequest'
  BY DEF IInv, DeadLetterThrows, MarkDead, Settle, Goto, rowVars, histVars, TypeOK, RowTypes, TaskTypes, HistTypes, JobsWellFormed, LeaseOutlivesRequest, Owns, Busy, Status, Phase
<1>5. AttemptUnspent'
  BY DEF IInv, DeadLetterThrows, MarkDead, Settle, Goto, rowVars, histVars, TypeOK, RowTypes, TaskTypes, HistTypes, JobsWellFormed, LeaseOutlivesRequest, AttemptUnspent, OnePostPerAttempt, Owns, Busy, Status, Phase
<1>6. OnePostPerAttempt'
  BY DEF IInv, DeadLetterThrows, MarkDead, Settle, Goto, rowVars, histVars, TypeOK, RowTypes, TaskTypes, HistTypes, JobsWellFormed, LeaseOutlivesRequest, AttemptUnspent, OnePostPerAttempt, Owns, Busy, Status, Phase
<1>7. OwnerHasCause'
  BY DEF IInv, DeadLetterThrows, MarkDead, Settle, Goto, rowVars, histVars, TypeOK, RowTypes, TaskTypes, HistTypes, JobsWellFormed, LeaseOutlivesRequest, OwnerHasCause, Owns, Busy, Status, Phase
<1>8. SettledForCause'
  BY DEF IInv, DeadLetterThrows, MarkDead, Settle, Goto, rowVars, histVars, TypeOK, RowTypes, TaskTypes, HistTypes, JobsWellFormed, RowsWellFormed, LeaseOutlivesRequest, OwnerHasCause, SettledForCause, Owns, Busy, Status, Phase
<1> QED
  BY <1>1, <1>2, <1>3, <1>4, <1>5, <1>6, <1>7, <1>8 DEF IInv

(* A retry leaves an attempt, or dead-letters the row.                     *)
LEMMA RetryInductive ==
    ASSUME NEW w \in Worker, IInv, Retry(w) PROVE IInv'
<1> USE WorkerAssumption, CountAssumption, LeaseAssumption, DelayAssumption
<1>1. TypeOK'
  <2>1. RowTypes'
    <3>1. job[w] \in Batch
      BY DEF IInv, Retry, JobsWellFormed, Busy
    <3> QED
      BY <3>1, RetryLaterTypes, RowsKeepTypes DEF IInv, Retry, TypeOK
  <2>2. TaskTypes'
    BY DEF IInv, Retry, RetryLater, MarkDead, Settle, Finish, AfterTask, rowVars, histVars, TypeOK, TaskTypes, TaskTypes, RowTypes, RowsWellFormed, JobsWellFormed, Status, Phase, Busy, Owns
  <2>3. HistTypes'
    BY DEF IInv, Retry, RetryLater, MarkDead, Settle, Finish, AfterTask, rowVars, histVars, TypeOK, HistTypes, TaskTypes, RowTypes, RowsWellFormed, JobsWellFormed, Status, Phase, Busy, Owns
  <2> QED
    BY <2>1, <2>2, <2>3 DEF TypeOK
<1>2. JobsWellFormed'
  BY DEF IInv, Retry, RetryLater, MarkDead, Settle, Finish, AfterTask, rowVars, histVars, TypeOK, RowTypes, TaskTypes, HistTypes, JobsWellFormed, Busy, Phase
<1>3. RowsWellFormed'
  BY DEF IInv, Retry, RetryLater, MarkDead, Settle, Finish, AfterTask, rowVars, histVars, TypeOK, RowTypes, TaskTypes, HistTypes, JobsWellFormed, RowsWellFormed, Owns, Busy, Status
<1>4. LeaseOutlivesRequest'
  BY DEF IInv, Retry, RetryLater, MarkDead, Settle, Finish, AfterTask, rowVars, histVars, TypeOK, RowTypes, TaskTypes, HistTypes, JobsWellFormed, LeaseOutlivesRequest, Owns, Busy, Status, Phase
<1>5. AttemptUnspent'
  BY DEF IInv, Retry, RetryLater, MarkDead, Settle, Finish, AfterTask, rowVars, histVars, TypeOK, RowTypes, TaskTypes, HistTypes, JobsWellFormed, LeaseOutlivesRequest, AttemptUnspent, OnePostPerAttempt, Owns, Busy, Status, Phase
<1>6. OnePostPerAttempt'
  BY DEF IInv, Retry, RetryLater, MarkDead, Settle, Finish, AfterTask, rowVars, histVars, TypeOK, RowTypes, TaskTypes, HistTypes, JobsWellFormed, LeaseOutlivesRequest, AttemptUnspent, OnePostPerAttempt, Owns, Busy, Status, Phase
<1>7. OwnerHasCause'
  BY DEF IInv, Retry, RetryLater, MarkDead, Settle, Finish, AfterTask, rowVars, histVars, TypeOK, RowTypes, TaskTypes, HistTypes, JobsWellFormed, LeaseOutlivesRequest, OwnerHasCause, Owns, Busy, Status, Phase
<1>8. SettledForCause'
  BY DEF IInv, Retry, RetryLater, MarkDead, Settle, Finish, AfterTask, rowVars, histVars, TypeOK, RowTypes, TaskTypes, HistTypes, JobsWellFormed, RowsWellFormed, LeaseOutlivesRequest, OwnerHasCause, SettledForCause, Owns, Busy, Status, Phase
<1> QED
  BY <1>1, <1>2, <1>3, <1>4, <1>5, <1>6, <1>7, <1>8 DEF IInv

(* A stopped worker leaves its row to the lease.                           *)
LEMMA StopInductive ==
    ASSUME NEW w \in Worker, IInv, Stop(w) PROVE IInv'
<1> USE WorkerAssumption, CountAssumption, LeaseAssumption, DelayAssumption
<1>1. TypeOK'
  <2>1. RowTypes'
    BY DEF IInv, Stop, Post, rowVars, TypeOK, RowTypes, TaskTypes, RowsWellFormed, JobsWellFormed, Status, Phase, Busy, Owns
  <2>2. TaskTypes'
    BY DEF IInv, Stop, Post, rowVars, TypeOK, TaskTypes, TaskTypes, RowTypes, RowsWellFormed, JobsWellFormed, Status, Phase, Busy, Owns
  <2>3. HistTypes'
    <3>1. job[w] \in Batch
      BY DEF IInv, Stop, TypeOK, TaskTypes
    <3>2. posted' \in [Batch -> Nat]
      <4>1. CASE Post(w)
        BY <4>1, <3>1 DEF IInv, Post, TypeOK, HistTypes
      <4>2. CASE UNCHANGED posted
        BY <4>2 DEF IInv, TypeOK, HistTypes
      <4> QED
        BY <4>1, <4>2 DEF Stop
    <3>3. stopped[job[w]] \in BOOLEAN /\ (stopped[job[w]] \/ phase[w] \in {"fetch", "ack"}) \in BOOLEAN
      BY <3>1 DEF IInv, TypeOK, HistTypes
    <3>4. stopped' \in [Batch -> BOOLEAN]
      BY <3>3 DEF IInv, Stop, TypeOK, HistTypes
    <3> QED
      BY <3>2, <3>4 DEF IInv, Stop, TypeOK, HistTypes
  <2> QED
    BY <2>1, <2>2, <2>3 DEF TypeOK
<1>2. JobsWellFormed'
  BY DEF IInv, Stop, Post, rowVars, TypeOK, RowTypes, TaskTypes, HistTypes, JobsWellFormed, Busy, Phase
<1>3. RowsWellFormed'
  BY DEF IInv, Stop, Post, rowVars, TypeOK, RowTypes, TaskTypes, HistTypes, JobsWellFormed, RowsWellFormed, Owns, Busy, Status
<1>4. LeaseOutlivesRequest'
  BY DEF IInv, Stop, Post, rowVars, TypeOK, RowTypes, TaskTypes, HistTypes, JobsWellFormed, LeaseOutlivesRequest, Owns, Busy, Status, Phase
<1>5. AttemptUnspent'
  <2> SUFFICES ASSUME NEW v \in Worker, phase'[v] \in {"claimed", "fetch"},
                      Owns(v, job[v])', ~told'[v]
               PROVE  posted'[job'[v]] < attempts'[job'[v]]
    BY DEF AttemptUnspent, Owns
  <2>1. job'[v] = job[v] /\ job[v] \in Batch /\ Owns(v, job[v])
        /\ phase[v] \in {"claimed", "fetch"} /\ ~told[v]
    BY DEF IInv, Stop, Post, rowVars, TypeOK, RowTypes, TaskTypes, HistTypes, JobsWellFormed, Busy, Owns
  <2>2. posted[job[v]] < attempts[job[v]] /\ attempts' = attempts
    BY <2>1 DEF IInv, AttemptUnspent, Stop, Post, rowVars
  <2>3. posted'[job[v]] = posted[job[v]]
    <3>1. CASE v = w
      BY <3>1, <2>1 DEF IInv, Stop, Post, rowVars, TypeOK, RowTypes, TaskTypes, HistTypes
    <3>2. CASE phase[w] # "fetch"
      BY <3>2 DEF Stop, Post, rowVars
    <3>3. CASE v # w /\ phase[w] = "fetch"
      <4>1. Owns(w, job[w])
        BY <3>3 DEF IInv, LeaseOutlivesRequest
      <4>2. job[v] # job[w]
        BY <4>1, <3>3, <2>1 DEF Owns
      <4> QED
        BY <4>2, <2>1 DEF IInv, Stop, Post, rowVars, TypeOK, RowTypes, TaskTypes, HistTypes
    <3> QED
      BY <3>1, <3>2, <3>3
  <2> QED
    BY <2>1, <2>2, <2>3
<1>6. OnePostPerAttempt'
  <2>1. phase[w] = "fetch" /\ ~told[w] => posted[job[w]] < attempts[job[w]]
    BY DEF IInv, LeaseOutlivesRequest, AttemptUnspent
  <2>2. job[w] \in Batch /\ attempts' = attempts
    BY DEF IInv, Stop, Post, rowVars, TypeOK, RowTypes, TaskTypes, HistTypes, JobsWellFormed, Busy
  <2>3. ASSUME NEW b \in Batch PROVE posted'[b] <= attempts[b]
    <3>1. posted[b] \in Nat /\ attempts[b] \in Nat /\ posted[b] <= attempts[b]
      BY DEF IInv, OnePostPerAttempt, TypeOK, RowTypes, TaskTypes, HistTypes
    <3>2. CASE posted' = posted
      BY <3>1, <3>2
    <3>3. CASE phase[w] = "fetch" /\ ~told[w] /\ posted' = [posted EXCEPT ![job[w]] = @ + 1]
      BY <2>1, <2>2, <3>1, <3>3 DEF IInv, TypeOK, RowTypes, TaskTypes, HistTypes
    <3> QED
      BY <3>2, <3>3 DEF Stop, Post, rowVars
  <2> QED
    BY <2>2, <2>3 DEF OnePostPerAttempt
<1>7. OwnerHasCause'
  BY DEF IInv, Stop, Post, rowVars, TypeOK, RowTypes, TaskTypes, HistTypes, JobsWellFormed, LeaseOutlivesRequest, OwnerHasCause, Owns, Busy, Status, Phase
<1>8. SettledForCause'
  BY DEF IInv, Stop, Post, rowVars, TypeOK, RowTypes, TaskTypes, HistTypes, JobsWellFormed, RowsWellFormed, LeaseOutlivesRequest, OwnerHasCause, SettledForCause, Owns, Busy, Status, Phase
<1> QED
  BY <1>1, <1>2, <1>3, <1>4, <1>5, <1>6, <1>7, <1>8 DEF IInv

(* Lease and request run down together.                                    *)
LEMMA TickInductive ==
    ASSUME IInv, Tick PROVE IInv'
<1> USE WorkerAssumption, CountAssumption, LeaseAssumption, DelayAssumption
<1>1. TypeOK'
  <2>1. RowTypes'
    BY DEF IInv, Tick, histVars, TypeOK, RowTypes, TaskTypes, RowsWellFormed, JobsWellFormed, Status, Phase, Busy, Owns
  <2>2. TaskTypes'
    BY DEF IInv, Tick, histVars, TypeOK, TaskTypes, TaskTypes, RowTypes, RowsWellFormed, JobsWellFormed, Status, Phase, Busy, Owns
  <2>3. HistTypes'
    BY DEF IInv, Tick, histVars, TypeOK, HistTypes, TaskTypes, RowTypes, RowsWellFormed, JobsWellFormed, Status, Phase, Busy, Owns
  <2> QED
    BY <2>1, <2>2, <2>3 DEF TypeOK
<1>2. JobsWellFormed'
  BY DEF IInv, Tick, histVars, TypeOK, RowTypes, TaskTypes, HistTypes, JobsWellFormed, Busy, Phase
<1>3. RowsWellFormed'
  BY DEF IInv, Tick, histVars, TypeOK, RowTypes, TaskTypes, HistTypes, JobsWellFormed, RowsWellFormed, Owns, Busy, Status
<1>4. LeaseOutlivesRequest'
  BY DEF IInv, Tick, histVars, TypeOK, RowTypes, TaskTypes, HistTypes, JobsWellFormed, LeaseOutlivesRequest, Owns, Busy, Status, Phase
<1>5. AttemptUnspent'
  BY DEF IInv, Tick, histVars, TypeOK, RowTypes, TaskTypes, HistTypes, JobsWellFormed, LeaseOutlivesRequest, AttemptUnspent, OnePostPerAttempt, Owns, Busy, Status, Phase
<1>6. OnePostPerAttempt'
  BY DEF IInv, Tick, histVars, TypeOK, RowTypes, TaskTypes, HistTypes, JobsWellFormed, LeaseOutlivesRequest, AttemptUnspent, OnePostPerAttempt, Owns, Busy, Status, Phase
<1>7. OwnerHasCause'
  BY DEF IInv, Tick, histVars, TypeOK, RowTypes, TaskTypes, HistTypes, JobsWellFormed, LeaseOutlivesRequest, OwnerHasCause, Owns, Busy, Status, Phase
<1>8. SettledForCause'
  BY DEF IInv, Tick, histVars, TypeOK, RowTypes, TaskTypes, HistTypes, JobsWellFormed, RowsWellFormed, LeaseOutlivesRequest, OwnerHasCause, SettledForCause, Owns, Busy, Status, Phase
<1> QED
  BY <1>1, <1>2, <1>3, <1>4, <1>5, <1>6, <1>7, <1>8 DEF IInv

(* The invariant holds initially.                                          *)
LEMMA InitIInv == Init => IInv
<1> SUFFICES ASSUME Init PROVE IInv
  OBVIOUS
<1> USE WorkerAssumption, CountAssumption
<1>1. TypeOK
  BY DEF Init, TypeOK, RowTypes, TaskTypes, HistTypes, Status, Phase
<1>2. JobsWellFormed /\ RowsWellFormed /\ LeaseOutlivesRequest
  BY DEF Init, JobsWellFormed, RowsWellFormed, LeaseOutlivesRequest, Busy
<1>3. AttemptUnspent /\ OnePostPerAttempt /\ OwnerHasCause /\ SettledForCause
  BY DEF Init, AttemptUnspent, OnePostPerAttempt, OwnerHasCause,
         SettledForCause
<1> QED
  BY <1>1, <1>2, <1>3 DEF IInv

(* Every step of a delivery preserves the invariant.                       *)
LEMMA DeliverInductive ==
    ASSUME NEW w \in Worker, IInv, Deliver(w) PROVE IInv'
BY PreflightTerminalInductive, PreflightRetryInductive, RenewInductive,
   AbortInductive, SendOkInductive, SendDuplicateInductive,
   SendRejectedInductive, SendTransientInductive, AckInductive,
   AckThrowsInductive, DeadLetterInductive, DeadLetterThrowsInductive,
   RetryInductive
   DEF Deliver, FetchEnds

(* So does a stuttering step.                                              *)
LEMMA StutterInductive == IInv /\ UNCHANGED vars => IInv'
<1> SUFFICES ASSUME IInv, UNCHANGED vars PROVE IInv'
  OBVIOUS
<1>1. TypeOK' /\ JobsWellFormed' /\ RowsWellFormed'
  BY DEF IInv, vars, TypeOK, RowTypes, TaskTypes, HistTypes, JobsWellFormed,
         RowsWellFormed
<1>2. LeaseOutlivesRequest' /\ AttemptUnspent' /\ OnePostPerAttempt'
  BY DEF IInv, vars, LeaseOutlivesRequest, AttemptUnspent,
         OnePostPerAttempt, Owns
<1>3. OwnerHasCause' /\ SettledForCause'
  BY DEF IInv, vars, OwnerHasCause, SettledForCause, Owns
<1> QED
  BY <1>1, <1>2, <1>3 DEF IInv

(* So does every step.                                                     *)
LEMMA NextIInv == IInv /\ [Next]_vars => IInv'
<1> SUFFICES ASSUME IInv, [Next]_vars PROVE IInv'
  OBVIOUS
<1>1. CASE \E b \in Batch : Enqueue(b)
  BY <1>1, EnqueueInductive
<1>2. CASE \E w \in Worker, b \in Batch : LiveClaim(w, b) \/ RelayClaim(w, b)
  BY <1>2, ClaimInductive DEF LiveClaim, RelayClaim
<1>3. CASE \E w \in Worker : \/ ExpireExhausted(w) \/ Purge(w) \/ RelayEnd(w)
                             \/ Deliver(w) \/ Stop(w)
  BY <1>3, ExpireExhaustedInductive, PurgeInductive, RelayEndInductive,
     DeliverInductive, StopInductive
<1>4. CASE Tick
  BY <1>4, TickInductive
<1>5. CASE UNCHANGED vars
  BY <1>5, StutterInductive
<1> QED
  BY <1>1, <1>2, <1>3, <1>4, <1>5 DEF Next

(* The inductive invariant holds throughout.                               *)
THEOREM Invariance == Spec => []IInv
BY InitIInv, NextIInv, PTL DEF Spec

(* Two workers never have a request for the same notification in flight,   *)
(* for any number of workers: postRedemptionNotify and the replay route    *)
(* renew the lease right before every Twitch request.                      *)
THEOREM NoConcurrentSendHolds == Spec => []NoConcurrentSend
<1>1. IInv => NoConcurrentSend
  BY DEF IInv, LeaseOutlivesRequest, NoConcurrentSend, Owns
<1> QED
  BY <1>1, Invariance, PTL

(* A request is only ever in flight for a row in processing whose lease    *)
(* the sender holds.                                                       *)
THEOREM SendOnlyUnderLeaseHolds == Spec => []SendOnlyUnderLease
<1>1. IInv => SendOnlyUnderLease
  BY WorkerAssumption DEF IInv, TypeOK, RowTypes, TaskTypes, JobsWellFormed,
     LeaseOutlivesRequest, SendOnlyUnderLease, Owns, Busy
<1> QED
  BY <1>1, Invariance, PTL

(* Types, table constraints, the attempt budget, the bound on duplicates   *)
(* and the cause of every settlement hold throughout.                      *)
THEOREM RowsHold ==
    Spec => [](TypeOK /\ RowsWellFormed /\ OnePostPerAttempt /\ SettledForCause)
<1>1. IInv => TypeOK /\ RowsWellFormed /\ OnePostPerAttempt /\ SettledForCause
  BY DEF IInv
<1> QED
  BY <1>1, Invariance, PTL

-----------------------------------------------------------------------------
(* What a step may do to a row that is settled                             *)

(* A fenced row update leaves a settled row alone.                         *)
LEMMA RowUpdateKeepsSettled ==
    ASSUME NEW w \in Worker, NEW c \in Batch, RowTypes,
           \/ MarkSent(w, c) \/ MarkDead(w, c) \/ RetryLater(w, c)
           \/ UNCHANGED rowVars,
           NEW b \in Batch, status[b] \in {"sent", "dead"}
    PROVE  status'[b] = status[b]
<1>1. CASE UNCHANGED rowVars
  BY <1>1 DEF rowVars
<1>2. CASE MarkSent(w, c)
  BY <1>2 DEF MarkSent, Settle, Owns, rowVars, RowTypes
<1>3. CASE MarkDead(w, c)
  BY <1>3 DEF MarkDead, Settle, Owns, rowVars, RowTypes
<1>4. CASE RetryLater(w, c)
  BY <1>4, <1>3 DEF RetryLater, MarkDead, Settle, Owns, rowVars, RowTypes
<1> QED
  BY <1>1, <1>2, <1>3, <1>4

(* A settled row stays as it is until retention deletes it: every update   *)
(* by a delivery is fenced on status and lease.                            *)
THEOREM SettledIsFinalHolds == Spec => SettledIsFinal
<1>1. ASSUME IInv, [Next]_vars,
             NEW b \in Batch, status[b] \in {"sent", "dead"}
      PROVE  status'[b] \in {status[b], "absent"}
  <2>1. ASSUME NEW c \in Batch, Enqueue(c) PROVE status'[b] = status[b]
    BY <1>1, <2>1 DEF Enqueue, IInv, TypeOK, RowTypes
  <2>2. ASSUME NEW w \in Worker, NEW c \in Batch, Claim(w, c)
        PROVE  status'[b] = status[b]
    BY <1>1, <2>2 DEF Claim, Claimable, IInv, TypeOK, RowTypes
  <2>3. ASSUME NEW w \in Worker, ExpireExhausted(w) PROVE status'[b] = status[b]
    BY <1>1, <2>3 DEF ExpireExhausted
  <2>4. ASSUME NEW w \in Worker, Purge(w)
        PROVE  status'[b] \in {status[b], "absent"}
    BY <1>1, <2>4 DEF Purge
  <2>5. ASSUME NEW w \in Worker, Deliver(w) PROVE status'[b] = status[b]
    <3>1. CASE UNCHANGED status
      BY <3>1
    <3>2. CASE phase[w] \in Busy
               /\ (MarkSent(w, job[w]) \/ MarkDead(w, job[w])
                   \/ RetryLater(w, job[w]) \/ UNCHANGED rowVars)
      <4>1. job[w] \in Batch
        BY <1>1, <3>2 DEF Busy, JobsWellFormed, IInv
      <4> QED
        BY <1>1, <3>2, <4>1, RowUpdateKeepsSettled DEF IInv, TypeOK
    <3> QED
      BY <2>5, <3>1, <3>2
      DEF Deliver, FetchEnds, PreflightTerminal, PreflightRetry, Renew, Abort,
          SendOk, SendDuplicate, SendRejected, SendTransient, Ack, AckThrows,
          DeadLetter, DeadLetterThrows, Retry, rowVars, Busy
  <2>6. ASSUME NEW w \in Worker, RelayEnd(w) \/ Stop(w) PROVE status'[b] = status[b]
    BY <2>6 DEF RelayEnd, Stop, rowVars
  <2>7. CASE Tick
    BY <2>7 DEF Tick
  <2>8. CASE UNCHANGED vars
    BY <2>8 DEF vars
  <2> QED
    BY <1>1, <2>1, <2>2, <2>3, <2>4, <2>5, <2>6, <2>7, <2>8
    DEF Next, LiveClaim, RelayClaim
<1>2. IInv /\ [Next]_vars
      => [\A b \in Batch : status[b] \in {"sent", "dead"}
            => status'[b] \in {status[b], "absent"}]_vars
  BY <1>1
<1> QED
  BY <1>2, Invariance, PTL DEF Spec, SettledIsFinal

(* A lease that has not run out is only given up by its holder, and is     *)
(* never handed to another worker: a claim waits for lease_expires_at.     *)
THEOREM LeaseRespectedHolds == Spec => LeaseRespected
<1>1. ASSUME IInv, [Next]_vars, NEW b \in Batch,
             status[b] = "processing", timer[b] > 0, lease'[b] # lease[b]
      PROVE  phase[lease[b]] # phase'[lease[b]] /\ lease'[b] = None
  <2>1. ASSUME NEW w \in Worker, Deliver(w)
        PROVE  phase[lease[b]] # phase'[lease[b]] /\ lease'[b] = None
    <3>1. CASE lease' = lease
      BY <1>1, <3>1
    <3>2. CASE /\ phase[w] \in {"ack", "terminal", "retry"}
               /\ phase'[w] # phase[w]
               /\ \/ MarkSent(w, job[w]) \/ MarkDead(w, job[w])
                  \/ RetryLater(w, job[w])
      <4>1. Owns(w, job[w]) /\ lease' = [lease EXCEPT ![job[w]] = None]
        BY <1>1, <3>2 DEF MarkSent, MarkDead, RetryLater, Settle, rowVars
      <4> QED
        BY <1>1, <3>2, <4>1 DEF Owns, IInv, TypeOK, RowTypes
    <3>3. CASE AckThrows(w) \/ DeadLetterThrows(w) \/ Ack(w) \/ DeadLetter(w)
               \/ Retry(w)
      <4>1. phase[w] \in {"ack", "terminal", "retry"} /\ phase'[w] # phase[w]
        BY <1>1, <3>3 DEF AckThrows, DeadLetterThrows, Ack, DeadLetter, Retry, Goto,
                    Finish, AfterTask, IInv, TypeOK, TaskTypes
      <4>2. \/ lease' = lease
            \/ MarkSent(w, job[w]) \/ MarkDead(w, job[w]) \/ RetryLater(w, job[w])
        BY <3>3 DEF AckThrows, DeadLetterThrows, Ack, DeadLetter, Retry, rowVars
      <4> QED
        BY <3>1, <3>2, <4>1, <4>2
    <3> QED
      BY <2>1, <3>1, <3>3
      DEF Deliver, FetchEnds, PreflightTerminal, PreflightRetry, Renew, Abort,
          SendOk, SendDuplicate, SendRejected, SendTransient, rowVars
  <2>2. ASSUME NEW c \in Batch, Enqueue(c) PROVE lease'[b] = lease[b]
    BY <1>1, <2>2 DEF Enqueue, IInv, TypeOK, RowTypes
  <2>3. ASSUME NEW w \in Worker, NEW c \in Batch, Claim(w, c)
        PROVE  lease'[b] = lease[b]
    BY <1>1, <2>3 DEF Claim, Claimable, IInv, TypeOK, RowTypes
  <2>4. ASSUME NEW w \in Worker, ExpireExhausted(w) PROVE lease'[b] = lease[b]
    BY <1>1, <2>4 DEF ExpireExhausted, IInv, TypeOK, RowTypes
  <2>5. ASSUME NEW w \in Worker, Purge(w) \/ RelayEnd(w) \/ Stop(w)
        PROVE  lease'[b] = lease[b]
    BY <2>5 DEF Purge, RelayEnd, Stop, rowVars
  <2>6. CASE Tick \/ UNCHANGED vars
    BY <1>1, <2>6 DEF Tick, vars
  <2> QED
    BY <1>1, <2>1, <2>2, <2>3, <2>4, <2>5, <2>6 DEF Next, LiveClaim, RelayClaim
<1>2. IInv /\ [Next]_vars
      => [\A b \in Batch :
            status[b] = "processing" /\ timer[b] > 0 /\ lease'[b] # lease[b]
                => phase[lease[b]] # phase'[lease[b]] /\ lease'[b] = None]_vars
  BY <1>1
<1> QED
  BY <1>2, Invariance, PTL DEF Spec, LeaseRespected

-----------------------------------------------------------------------------
(* Refinement of ChatDelivery                                              *)

(* Initial states map to initial states.                                   *)
LEMMA DeliveryInit == Init => Delivery!Init
BY DEF Init, Delivery!Init, Progress

(* A settlement of an owned row is Settle, an update that finds no row is  *)
(* a stutter, and a row put back to pending stays queued.                  *)
LEMMA DeliverySettles ==
    ASSUME NEW w \in Worker, NEW b \in Batch, RowTypes, UNCHANGED posted,
           \/ MarkSent(w, b) \/ MarkDead(w, b) \/ RetryLater(w, b)
           \/ UNCHANGED rowVars
    PROVE  [Delivery!Next]_(Delivery!vars)
<1>1. CASE UNCHANGED status
  BY <1>1 DEF Delivery!vars
<1>2. CASE \E s \in {"sent", "dead", "pending"} :
              Owns(w, b) /\ status' = [status EXCEPT ![b] = s]
  <2>1. PICK s \in {"sent", "dead", "pending"} :
            Owns(w, b) /\ status' = [status EXCEPT ![b] = s]
    BY <1>2
  <2>2. CASE s = "pending"
    BY <2>1, <2>2 DEF Owns, Progress, Delivery!vars, RowTypes
  <2>3. CASE s \in {"sent", "dead"}
    <3>1. Delivery!Settle(b, s)
      BY <2>1, <2>3 DEF Owns, Progress, Delivery!Settle, RowTypes
    <3> QED
      BY <3>1, <2>3 DEF Delivery!Next
  <2> QED
    BY <2>2, <2>3
<1>3. CASE MarkSent(w, b)
  BY <1>1, <1>2, <1>3 DEF MarkSent, Settle, rowVars
<1>4. CASE MarkDead(w, b)
  BY <1>1, <1>2, <1>4 DEF MarkDead, Settle, rowVars
<1>5. CASE RetryLater(w, b)
  BY <1>1, <1>2, <1>4, <1>5 DEF RetryLater, Settle
<1> QED
  BY <1>1, <1>3, <1>4, <1>5 DEF rowVars

(* A post under a lease is Show, and finds budget left.                    *)
LEMMA DeliveryShows ==
    ASSUME NEW w \in Worker, IInv, phase[w] = "fetch", Post(w), UNCHANGED status
    PROVE  Delivery!Next
<1>1. job[w] \in Batch /\ Owns(w, job[w]) /\ posted[job[w]] < attempts[job[w]]
  BY DEF IInv, JobsWellFormed, Busy, LeaseOutlivesRequest, AttemptUnspent, Post
<1>2. attempts[job[w]] <= MaxAttempts /\ posted[job[w]] < MaxAttempts
  BY <1>1, CountAssumption DEF IInv, RowsWellFormed, TypeOK, RowTypes, HistTypes
<1>3. Delivery!Show(job[w])
  BY <1>1, <1>2 DEF Delivery!Show, Progress, Owns, Post
<1> QED
  BY <1>1, <1>3 DEF Delivery!Next

(* Every step maps to a step of ChatDelivery or a stutter.                 *)
LEMMA DeliveryNext == IInv /\ [Next]_vars => [Delivery!Next]_(Delivery!vars)
<1> SUFFICES ASSUME IInv, [Next]_vars PROVE [Delivery!Next]_(Delivery!vars)
  OBVIOUS
<1>1. ASSUME NEW b \in Batch, Enqueue(b) PROVE Delivery!Next
  <2>1. Delivery!Queue(b)
    BY <1>1 DEF Enqueue, Progress, Delivery!Queue, IInv, TypeOK, RowTypes
  <2> QED
    BY <2>1 DEF Delivery!Next
<1>2. ASSUME NEW w \in Worker, NEW b \in Batch, Claim(w, b)
      PROVE  UNCHANGED Delivery!vars
  BY <1>2 DEF Claim, Claimable, Progress, Delivery!vars, histVars, IInv,
              TypeOK, RowTypes
<1>3. ASSUME NEW w \in Worker, ExpireExhausted(w) PROVE Delivery!Next
  <2> DEFINE gone == {b \in Batch : /\ status[b] = "processing" /\ timer[b] = 0
                                    /\ attempts[b] >= MaxAttempts}
  <2>1. Delivery!GiveUp(gone)
    BY <1>3 DEF ExpireExhausted, Progress, Delivery!GiveUp, histVars
  <2>2. gone \in SUBSET Batch
    OBVIOUS
  <2> QED
    BY <2>1, <2>2 DEF Delivery!Next
<1>4. ASSUME NEW w \in Worker, Purge(w) PROVE Delivery!Next
  <2> DEFINE old == {b \in Batch : status[b] \in {"sent", "dead"} /\ timer[b] = 0}
  <2>1. Delivery!Forget(old)
    BY <1>4 DEF Purge, Progress, Delivery!Forget, histVars
  <2>2. old \in SUBSET Batch
    OBVIOUS
  <2> QED
    BY <2>1, <2>2 DEF Delivery!Next
<1>5. ASSUME NEW w \in Worker, Deliver(w) \/ Stop(w)
      PROVE  [Delivery!Next]_(Delivery!vars)
  <2>1. CASE UNCHANGED <<status, posted>>
    BY <2>1 DEF Delivery!vars
  <2>2. CASE phase[w] = "fetch" /\ Post(w) /\ UNCHANGED status
    BY <2>2, DeliveryShows
  <2>3. CASE Ack(w) \/ AckThrows(w) \/ DeadLetter(w) \/ DeadLetterThrows(w)
             \/ Retry(w)
    <3>1. job[w] \in Batch
      BY <2>3 DEF IInv, JobsWellFormed, Busy, Ack, AckThrows, DeadLetter,
                  DeadLetterThrows, Retry
    <3> QED
      BY <2>3, <3>1, DeliverySettles
      DEF IInv, TypeOK, Ack, AckThrows, DeadLetter, DeadLetterThrows, Retry,
          histVars
  <2> QED
    BY <1>5, <2>1, <2>2, <2>3
    DEF Deliver, FetchEnds, PreflightTerminal, PreflightRetry, Renew, Abort,
        SendOk, SendDuplicate, SendRejected, SendTransient, Stop, rowVars,
        histVars
<1>6. ASSUME NEW w \in Worker, RelayEnd(w) PROVE UNCHANGED Delivery!vars
  BY <1>6 DEF RelayEnd, rowVars, histVars, Delivery!vars
<1>7. CASE Tick \/ UNCHANGED vars
  BY <1>7 DEF Tick, vars, histVars, Delivery!vars
<1> QED
  BY <1>1, <1>2, <1>3, <1>4, <1>5, <1>6, <1>7 DEF Next, LiveClaim, RelayClaim

(* The outbox implements ChatDelivery: a notification only shows up in the *)
(* chat while it is queued, at most MaxAttempts times, and is settled      *)
(* once.                                                                   *)
THEOREM DeliveryRefinement == Spec => ImplementsDelivery
BY DeliveryInit, DeliveryNext, Invariance, PTL
DEF Spec, ImplementsDelivery, Delivery!Spec
=============================================================================
