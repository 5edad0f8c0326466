----------------------------- MODULE ChatOutbox -----------------------------
(***************************************************************************)
(* The transactional chat outbox: one row of chat_notification_outbox per  *)
(* committed gacha batch, delivered to Twitch chat by live EventSub        *)
(* invocations (postRedemptionNotify) and by the cron relay (the           *)
(* eventsub-replay route), which compete for the row through leases.       *)
(*                                                                         *)
(* A row is spread over functions of the batch:                            *)
(*   status    absent (no such row) or the status column                   *)
(*   attempts  attempt_count                                               *)
(*   lease     the worker whose claim wrote lease_id, or None.  Every      *)
(*             claim writes a fresh UUID and a worker keeps one claim at a *)
(*             time, so the worker stands for its current claim            *)
(*   timer     ticks until the timestamp the status looks at comes due:    *)
(*             next_attempt_at, lease_expires_at, sent_at or dead_at plus  *)
(*             the retention                                               *)
(* A delivery in progress is spread over functions of the worker:          *)
(*   phase     the await the worker is suspended at                        *)
(*   job       the batch of its claim                                      *)
(*   tries     Twitch requests started under this claim                    *)
(*   window    ticks until the request in flight is over                   *)
(*   told      this claim has already put the message into the chat        *)
(* History of a batch since its row was inserted, which no code reads:     *)
(*   posted    times its message appeared in the chat                      *)
(*   reply     the strongest answer Twitch or the preflight gave           *)
(*   stopped   a worker was stopped while its request was in flight or     *)
(*             between the answer and the acknowledgement                  *)
(***************************************************************************)
EXTENDS Naturals

CONSTANTS
    Batch,        \* batch ids (event ids of redemptions)
    Live,         \* live EventSub invocations
    Relay,        \* invocations of the replay route
    None,         \* lease_id IS NULL, no claim
    MaxAttempts,  \* CHAT_OUTBOX_MAX_ATTEMPTS
    SendTries,    \* CHAT_SEND_MAX_ATTEMPTS
    LeaseTicks,   \* CHAT_OUTBOX_LEASE_SECONDS
    SendTicks,    \* lease renewal to the end of the request it allows
    RetryTicks,   \* CHAT_OUTBOX_RETRY_DELAYS_MS, by attempt_count
    SentTicks,    \* CHAT_OUTBOX_SENT_RETENTION_DAYS
    DeadTicks     \* CHAT_OUTBOX_DEAD_RETENTION_DAYS

Worker == Live \cup Relay

ASSUME WorkerAssumption == Live \cap Relay = {} /\ None \notin Worker \cup Batch
ASSUME CountAssumption  == MaxAttempts \in Nat \ {0} /\ SendTries \in Nat \ {0}
(* 60 seconds against a request that is aborted after 3.                   *)
ASSUME LeaseAssumption  == /\ LeaseTicks \in Nat /\ SendTicks \in Nat
                           /\ SendTicks < LeaseTicks
ASSUME DelayAssumption  == /\ RetryTicks \in [1..MaxAttempts -> Nat]
                           /\ SentTicks \in Nat /\ DeadTicks \in Nat

VARIABLES status, attempts, lease, timer,
          phase, job, tries, window, told,
          posted, reply, stopped

rowVars   == <<status, attempts, lease, timer>>
taskVars  == <<phase, job, tries, window, told>>
histVars  == <<posted, reply, stopped>>
vars      == <<status, attempts, lease, timer,
               phase, job, tries, window, told, posted, reply, stopped>>

Status == {"absent", "pending", "processing", "sent", "dead"}
Phase  == {"idle", "purge", "scan", "more",
           "claimed", "fetch", "ack", "terminal", "retry"}

RowTypes ==
    /\ status   \in [Batch -> Status]
    /\ attempts \in [Batch -> Nat]
    /\ lease    \in [Batch -> Worker \cup {None}]
    /\ timer    \in [Batch -> Nat]

TaskTypes ==
    /\ phase  \in [Worker -> Phase]
    /\ job    \in [Worker -> Batch \cup {None}]
    /\ tries  \in [Worker -> Nat]
    /\ window \in [Worker -> Nat]
    /\ told   \in [Worker -> BOOLEAN]

HistTypes ==
    /\ posted  \in [Batch -> Nat]
    /\ reply   \in [Batch -> {"none", "refused", "accepted"}]
    /\ stopped \in [Batch -> BOOLEAN]

TypeOK == RowTypes /\ TaskTypes /\ HistTypes

Init ==
    /\ status   = [b \in Batch |-> "absent"]
    /\ attempts = [b \in Batch |-> 0]
    /\ lease    = [b \in Batch |-> None]
    /\ timer    = [b \in Batch |-> 0]
    /\ phase    = [w \in Worker |-> "idle"]
    /\ job      = [w \in Worker |-> None]
    /\ tries    = [w \in Worker |-> 0]
    /\ window   = [w \in Worker |-> 0]
    /\ told     = [w \in Worker |-> FALSE]
    /\ posted   = [b \in Batch |-> 0]
    /\ reply    = [b \in Batch |-> "none"]
    /\ stopped  = [b \in Batch |-> FALSE]

-----------------------------------------------------------------------------
(* Row updates of chat-notification-outbox.ts and of the gacha transaction *)

(* INSERT ... ON CONFLICT (batch_id) DO NOTHING: the first commit of a     *)
(* final draw inserts the row, a duplicate of it finds the row.            *)
Enqueue(b) ==
    /\ status[b] = "absent"
    /\ status'   = [status EXCEPT ![b] = "pending"]
    /\ attempts' = [attempts EXCEPT ![b] = 0]
    /\ lease'    = [lease EXCEPT ![b] = None]
    /\ timer'    = [timer EXCEPT ![b] = 0]
    /\ posted'   = [posted EXCEPT ![b] = 0]
    /\ reply'    = [reply EXCEPT ![b] = "none"]
    /\ stopped'  = [stopped EXCEPT ![b] = FALSE]
    /\ UNCHANGED taskVars

(* Mutant: a claim takes a row whose lease still runs.                     *)
ClaimableLeased(b) ==
    attempts[b] < MaxAttempts /\ status[b] \in {"pending", "processing"}

(* The WHERE clause of both claims.                                        *)
Claimable(b) ==
    /\ attempts[b] < MaxAttempts
    /\ status[b] \in {"pending", "processing"}
    /\ timer[b] = 0

Claim(w, b) ==
    /\ Claimable(b)
    /\ status'   = [status EXCEPT ![b] = "processing"]
    /\ attempts' = [attempts EXCEPT ![b] = @ + 1]
    /\ lease'    = [lease EXCEPT ![b] = w]
    /\ timer'    = [timer EXCEPT ![b] = LeaseTicks]
    /\ phase'    = [phase EXCEPT ![w] = "claimed"]
    /\ job'      = [job EXCEPT ![w] = b]
    /\ tries'    = [tries EXCEPT ![w] = 0]
    /\ told'     = [told EXCEPT ![w] = FALSE]
    /\ UNCHANGED <<window, histVars>>

(* The owner fence: WHERE id = claim.id AND status = 'processing' AND      *)
(* lease_id = claim.leaseId.                                               *)
Owns(w, b) == status[b] = "processing" /\ lease[b] = w

Settle(b, s, ticks) ==
    /\ status' = [status EXCEPT ![b] = s]
    /\ lease'  = [lease EXCEPT ![b] = None]
    /\ timer'  = [timer EXCEPT ![b] = ticks]
    /\ UNCHANGED attempts

MarkSent(w, b) ==
    IF Owns(w, b) THEN Settle(b, "sent", SentTicks) ELSE UNCHANGED rowVars

MarkDead(w, b) ==
    IF Owns(w, b) THEN Settle(b, "dead", DeadTicks) ELSE UNCHANGED rowVars

(* The fifth failure does not go back to pending.  The claim's own         *)
(* attemptCount is the row's as long as the claim owns the row.            *)
RetryLater(w, b) ==
    \/ /\ Owns(w, b) /\ attempts[b] < MaxAttempts
       /\ Settle(b, "pending", RetryTicks[attempts[b]])
    \/ /\ ~(Owns(w, b) /\ attempts[b] < MaxAttempts)
       /\ MarkDead(w, b)

-----------------------------------------------------------------------------
(* Claiming                                                                *)

(* postRedemptionNotify claims its own batch, once.                        *)
LiveClaim(w, b) ==
    /\ w \in Live /\ phase[w] = "idle"
    /\ Claim(w, b)

(* Mutant: maintenance overlooks the rows that have just used up the       *)
(* budget.                                                                 *)
ExpireNothing(w) ==
    /\ w \in Relay /\ phase[w] = "idle"
    /\ phase' = [phase EXCEPT ![w] = "purge"]
    /\ UNCHANGED <<rowVars, job, tries, window, told, histVars>>

(* A replay request starts with the two maintenance statements.            *)
ExpireExhausted(w) ==
    LET gone == {b \in Batch : /\ status[b] = "processing" /\ timer[b] = 0
                               /\ attempts[b] >= MaxAttempts}
    IN  /\ w \in Relay /\ phase[w] = "idle"
        /\ status' = [b \in Batch |-> IF b \in gone THEN "dead" ELSE status[b]]
        /\ lease'  = [b \in Batch |-> IF b \in gone THEN None ELSE lease[b]]
        /\ timer'  = [b \in Batch |-> IF b \in gone THEN DeadTicks ELSE timer[b]]
        /\ phase'  = [phase EXCEPT ![w] = "purge"]
        /\ UNCHANGED <<attempts, job, tries, window, told, histVars>>

(* Mutant: retention does not look at the status.                          *)
PurgeDue(w) ==
    /\ phase[w] = "purge"
    /\ status' = [b \in Batch |-> IF timer[b] = 0 THEN "absent" ELSE status[b]]
    /\ phase'  = [phase EXCEPT ![w] = "scan"]
    /\ UNCHANGED <<attempts, lease, timer, job, tries, window, told, histVars>>

Purge(w) ==
    /\ phase[w] = "purge"
    /\ status' = [b \in Batch |->
                    IF status[b] \in {"sent", "dead"} /\ timer[b] = 0
                    THEN "absent" ELSE status[b]]
    /\ phase'  = [phase EXCEPT ![w] = "scan"]
    /\ UNCHANGED <<attempts, lease, timer, job, tries, window, told, histVars>>

(* One row per claim; rows locked by another claim are skipped, so any     *)
(* claimable row may come first.                                           *)
RelayClaim(w, b) ==
    /\ phase[w] \in {"scan", "more"}
    /\ Claim(w, b)

(* No due row left, or (after the first claim) the limit or the budget of  *)
(* the request is used up.                                                 *)
RelayEnd(w) ==
    /\ \/ phase[w] = "more"
       \/ phase[w] = "scan" /\ \A b \in Batch : ~Claimable(b)
    /\ phase' = [phase EXCEPT ![w] = "idle"]
    /\ UNCHANGED <<rowVars, job, tries, window, told, histVars>>

-----------------------------------------------------------------------------
(* Delivering a claim                                                      *)

AfterTask(w) == IF w \in Relay THEN "more" ELSE "idle"

Goto(w, p) ==
    /\ phase'  = [phase EXCEPT ![w] = p]
    /\ window' = [window EXCEPT ![w] = 0]
    /\ UNCHANGED <<job, tries, told>>

Finish(w) ==
    /\ phase'  = [phase EXCEPT ![w] = AfterTask(w)]
    /\ job'    = [job EXCEPT ![w] = None]
    /\ tries'  = [tries EXCEPT ![w] = 0]
    /\ window' = [window EXCEPT ![w] = 0]
    /\ told'   = [told EXCEPT ![w] = FALSE]

(* Payload that does not decode, missing scope, no credential.             *)
PreflightTerminal(w) ==
    /\ phase[w] = "claimed" /\ tries[w] = 0
    /\ reply' = [reply EXCEPT ![job[w]] = IF @ = "none" THEN "refused" ELSE @]
    /\ Goto(w, "terminal")
    /\ UNCHANGED <<rowVars, posted, stopped>>

(* Credential or scope store unavailable, or an unexpected throw.          *)
PreflightRetry(w) ==
    /\ phase[w] = "claimed" /\ tries[w] = 0
    /\ Goto(w, "retry")
    /\ UNCHANGED <<rowVars, histVars>>

(* beforeExternalSend: the renewed lease permits one request.              *)
Renew(w) ==
    /\ phase[w] = "claimed"
    /\ Owns(w, job[w])
    /\ timer'  = [timer EXCEPT ![job[w]] = LeaseTicks]
    /\ phase'  = [phase EXCEPT ![w] = "fetch"]
    /\ window' = [window EXCEPT ![w] = SendTicks]
    /\ tries'  = [tries EXCEPT ![w] = @ + 1]
    /\ UNCHANGED <<status, attempts, lease, job, told, histVars>>

(* Lease lost, the send deadline of the request passed (before or while    *)
(* the renewal ran), or the renewal failed: the row is left to the lease.  *)
Abort(w) ==
    /\ phase[w] = "claimed"
    /\ \/ UNCHANGED timer
       \/ /\ Owns(w, job[w])
          /\ timer' = [timer EXCEPT ![job[w]] = LeaseTicks]
    /\ Finish(w)
    /\ UNCHANGED <<status, attempts, lease, histVars>>

(* The message reaches the chat.  Twitch drops an identical text within    *)
(* 30 seconds, so the requests of one claim show it at most once.          *)
Post(w) ==
    /\ ~told[w]
    /\ posted' = [posted EXCEPT ![job[w]] = @ + 1]

SendOk(w) ==
    /\ phase[w] = "fetch"
    /\ Post(w)
    /\ reply' = [reply EXCEPT ![job[w]] = "accepted"]
    /\ Goto(w, "ack")
    /\ UNCHANGED <<rowVars, stopped>>

(* drop_reason msg_duplicate: the same text is already in the chat.        *)
SendDuplicate(w) ==
    /\ phase[w] = "fetch"
    /\ reply' = [reply EXCEPT ![job[w]] = "accepted"]
    /\ Goto(w, "ack")
    /\ UNCHANGED <<rowVars, posted, stopped>>

(* 4xx, AutoMod, or a 200 whose body could not be read (the message may    *)
(* have been posted).                                                      *)
SendRejected(w) ==
    /\ phase[w] = "fetch"
    /\ Post(w) \/ UNCHANGED posted
    /\ reply' = [reply EXCEPT ![job[w]] = IF @ = "none" THEN "refused" ELSE @]
    /\ Goto(w, "terminal")
    /\ UNCHANGED <<rowVars, stopped>>

(* Mutant: the last transient failure is dead-lettered.                    *)
SendTransientDead(w) ==
    /\ phase[w] = "fetch"
    /\ Goto(w, IF tries[w] < SendTries THEN "claimed" ELSE "terminal")
    /\ UNCHANGED <<rowVars, posted, reply, stopped>>

(* 408, 429, 5xx, network error or the 3 second timeout.  The message may  *)
(* have been posted and only the answer lost.                              *)
SendTransient(w) ==
    /\ phase[w] = "fetch"
    /\ \/ Post(w) /\ told' = [told EXCEPT ![w] = TRUE]
       \/ UNCHANGED <<posted, told>>
    /\ phase'  = [phase EXCEPT ![w] =
                    IF tries[w] < SendTries THEN "claimed" ELSE "retry"]
    /\ window' = [window EXCEPT ![w] = 0]
    /\ UNCHANGED <<rowVars, job, tries, reply, stopped>>

FetchEnds(w) ==
    SendOk(w) \/ SendDuplicate(w) \/ SendRejected(w) \/ SendTransient(w)

Ack(w) ==
    /\ phase[w] = "ack"
    /\ MarkSent(w, job[w])
    /\ Finish(w)
    /\ UNCHANGED histVars

(* The UPDATE throws, committed or not: the catch block retries.           *)
AckThrows(w) ==
    /\ phase[w] = "ack"
    /\ MarkSent(w, job[w]) \/ UNCHANGED rowVars
    /\ Goto(w, "retry")
    /\ UNCHANGED histVars

DeadLetter(w) ==
    /\ phase[w] = "terminal"
    /\ MarkDead(w, job[w])
    /\ Finish(w)
    /\ UNCHANGED histVars

DeadLetterThrows(w) ==
    /\ phase[w] = "terminal"
    /\ MarkDead(w, job[w]) \/ UNCHANGED rowVars
    /\ Goto(w, "retry")
    /\ UNCHANGED histVars

Retry(w) ==
    /\ phase[w] = "retry"
    /\ RetryLater(w, job[w])
    /\ Finish(w)
    /\ UNCHANGED histVars

(* The isolate is stopped, waitUntil runs out, the replay deadline drops   *)
(* the promise, or the last UPDATE throws: the row keeps its lease.  A     *)
(* request in flight may still be delivered.                               *)
Stop(w) ==
    /\ job[w] # None
    /\ \/ phase[w] = "fetch" /\ Post(w)
       \/ UNCHANGED posted
    /\ stopped' = [stopped EXCEPT ![job[w]] = @ \/ phase[w] \in {"fetch", "ack"}]
    /\ phase'  = [phase EXCEPT ![w] = "idle"]
    /\ job'    = [job EXCEPT ![w] = None]
    /\ tries'  = [tries EXCEPT ![w] = 0]
    /\ window' = [window EXCEPT ![w] = 0]
    /\ told'   = [told EXCEPT ![w] = FALSE]
    /\ UNCHANGED <<rowVars, reply>>

(* Time.  A request in flight is aborted before its window is over.        *)
Tick ==
    /\ \A w \in Worker : phase[w] = "fetch" => window[w] > 0
    /\ timer'  = [b \in Batch |-> IF timer[b] = 0 THEN 0 ELSE timer[b] - 1]
    /\ window' = [w \in Worker |-> IF window[w] = 0 THEN 0 ELSE window[w] - 1]
    /\ UNCHANGED <<status, attempts, lease, phase, job, tries, told, histVars>>

Deliver(w) ==
    \/ PreflightTerminal(w) \/ PreflightRetry(w) \/ Renew(w) \/ Abort(w)
    \/ FetchEnds(w)
    \/ Ack(w) \/ AckThrows(w) \/ DeadLetter(w) \/ DeadLetterThrows(w)
    \/ Retry(w)

Next ==
    \/ \E b \in Batch : Enqueue(b)
    \/ \E w \in Worker, b \in Batch : LiveClaim(w, b) \/ RelayClaim(w, b)
    \/ \E w \in Worker : \/ ExpireExhausted(w) \/ Purge(w) \/ RelayEnd(w)
                         \/ Deliver(w) \/ Stop(w)
    \/ Tick

Spec == Init /\ [][Next]_vars

(* The clock runs, a request ends, and the cron keeps starting replay      *)
(* requests that run to their end or are stopped.  A relay takes due rows  *)
(* in the order of next_attempt_at, which later rows only join behind, so  *)
(* a row that stays due gets its turn: strong fairness of its claim.       *)
(* Nothing is assumed of live invocations.                                 *)
Fairness ==
    /\ WF_vars(Tick)
    /\ \A w \in Worker : WF_vars(FetchEnds(w))
    /\ \A w \in Relay  : WF_vars(\/ ExpireExhausted(w) \/ Purge(w)
                                 \/ RelayEnd(w) \/ Deliver(w)
                                 \/ \E b \in Batch : RelayClaim(w, b))
    /\ \A b \in Batch : SF_vars(\E w \in Relay : RelayClaim(w, b))

-----------------------------------------------------------------------------
(* Properties                                                              *)

(* Two workers never have a request for the same notification in flight:   *)
(* the lease renewed right before the request outlives the request, which  *)
(* is why the lease is 60 seconds and every request passes                 *)
(* renewChatNotificationLease.                                             *)
NoConcurrentSend ==
    \A v, w \in Worker :
        phase[v] = "fetch" /\ phase[w] = "fetch" /\ job[v] = job[w] => v = w

(* A message can only appear in the chat while its row is processing: no   *)
(* request is in flight for a row that is settled, waiting or deleted.     *)
SendOnlyUnderLease ==
    \A w \in Worker : phase[w] = "fetch" => Owns(w, job[w]) /\ timer[job[w]] > 0

Busy == {"claimed", "fetch", "ack", "terminal", "retry"}

(* A delivery has a batch from its claim to its end, and only then.        *)
JobsWellFormed == \A w \in Worker : phase[w] \in Busy <=> job[w] \in Batch

(* The CHECK constraints of the table and the retry budget: a lease        *)
(* exactly while processing, and never a pending row without an attempt    *)
(* left, which neither claim nor maintenance would ever touch again.       *)
RowsWellFormed ==
    \A b \in Batch :
        /\ status[b] \in {"pending", "sent", "dead"} => lease[b] = None
        /\ status[b] = "processing" => lease[b] # None /\ attempts[b] > 0
        /\ status[b] = "pending" => attempts[b] < MaxAttempts
        /\ attempts[b] <= MaxAttempts

(* The chat shows a notification at most once per attempt, so at most      *)
(* MaxAttempts times in all.                                               *)
OnePostPerAttempt == \A b \in Batch : posted[b] <= attempts[b]

(* At-least-once: a row is only acknowledged after Twitch accepted the     *)
(* message, and only dead-lettered after a refusal, or with the budget     *)
(* used up.                                                                *)
SettledForCause ==
    \A b \in Batch :
        /\ status[b] = "sent" => reply[b] = "accepted"
        /\ status[b] = "dead" => reply[b] # "none" \/ attempts[b] = MaxAttempts

(* What makes the properties above inductive: the lease outlives the       *)
(* request by more than the time the request has left, an owner that has   *)
(* not posted still has its attempt to spend, and the phases that settle   *)
(* a row carry the answer they settle it for.                              *)
LeaseOutlivesRequest ==
    \A w \in Worker :
        phase[w] = "fetch" => Owns(w, job[w]) /\ timer[job[w]] > window[w]

AttemptUnspent ==
    \A w \in Worker :
        phase[w] \in {"claimed", "fetch"} /\ Owns(w, job[w]) /\ ~told[w]
            => posted[job[w]] < attempts[job[w]]

OwnerHasCause ==
    \A w \in Worker :
        /\ phase[w] = "ack" /\ Owns(w, job[w]) => reply[job[w]] = "accepted"
        /\ phase[w] = "terminal" /\ Owns(w, job[w]) => reply[job[w]] # "none"

IInv ==
    /\ TypeOK /\ JobsWellFormed /\ RowsWellFormed /\ LeaseOutlivesRequest
    /\ AttemptUnspent /\ OnePostPerAttempt
    /\ OwnerHasCause /\ SettledForCause

(* A settled row stays as it is until retention deletes it, whatever a     *)
(* worker that lost its lease still tries to write.                        *)
SettledIsFinal ==
    [][\A b \in Batch :
        status[b] \in {"sent", "dead"} => status'[b] \in {status[b], "absent"}]_vars

(* An update by a delivery only touches a row whose lease it holds, and a  *)
(* lease that has not run out is never taken over.                         *)
LeaseRespected ==
    [][\A b \in Batch :
        status[b] = "processing" /\ timer[b] > 0 /\ lease'[b] # lease[b]
            => phase[lease[b]] # phase'[lease[b]] /\ lease'[b] = None]_vars

(* Every committed notification is eventually settled.                     *)
EventuallySettled ==
    \A b \in Batch : status[b] = "pending" ~> status[b] \in {"sent", "dead"}

(* The outbox implements ChatDelivery: pending and processing rows are      *)
(* queued, and the budget is the number of attempts.                       *)
Progress(s) ==
    IF s = "absent" THEN "none"
    ELSE IF s \in {"pending", "processing"} THEN "queued" ELSE s

Delivery == INSTANCE ChatDelivery WITH
    Budget <- MaxAttempts,
    state  <- [b \in Batch |-> Progress(status[b])],
    shown  <- posted

ImplementsDelivery == Delivery!Spec

=============================================================================
