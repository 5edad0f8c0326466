----------------------------- MODULE Redemption -----------------------------
(***************************************************************************)
(* From an EventSub notification to granted cards: Twitch sends a message  *)
(* at least once, live invocations of the webhook (eventsub/route.ts)      *)
(* de-duplicate it in KV, run its draws against the database and answer,   *)
(* or park it in KV, from where the cron replay (eventsub-replay/route.ts) *)
(* takes it up again.  The database is GachaLedger: one call of the gacha  *)
(* function is one atomic step, and its answer can be lost.                *)
(*                                                                         *)
(* An invocation is spread over functions of the worker:                   *)
(*   phase    the await it is suspended at                                 *)
(*   job      its event, and copy, which delivery or parked entry of it    *)
(*   done     completedDrawCount, the draws it knows to be recorded        *)
(*   pool     cards it may still select                                    *)
(*   pick     the card of the call in flight, tries its attempts, misses   *)
(*            the limit_reached answers of this draw                       *)
(* KV, Twitch and the redemption:                                          *)
(*   seen     events with a de-duplication key                             *)
(*   parked   parked entries <<event, copy>>                               *)
(*   sends    deliveries of an event so far                                *)
(*   acked    events Twitch has a 2xx for                                  *)
(*   refund   cancelRedemption of an event: none, pending, done or failed  *)
(* History that no code reads:                                             *)
(*   told     events passed on to postRedemptionNotify                     *)
(*   closed   events whose settings refuse a gacha                         *)
(*   lost     events dropped where the code accepts the loss               *)
(***************************************************************************)
EXTENDS GachaLedger

CONSTANTS
    Live,       \* invocations of the webhook
    Relay,      \* requests of the cron replay
    Raid,       \* raid events, which have no redemption to cancel
    Editable,   \* cards the streamer edits meanwhile
    MaxSends,   \* bound on the deliveries of an event
    RpcTries,   \* attempts of withDbRetry
    Reselects   \* MAX_LIMIT_REACHED_RETRIES

Worker == Live \cup Relay

ASSUME HandlingAssumption ==
    /\ MaxSends \in Nat /\ RpcTries \in Nat \ {0} /\ Reselects \in Nat
    /\ Caller = Worker /\ Editable \subseteq Card

VARIABLES phase, job, copy, done, pool, pick, tries, misses,
          seen, parked, sends, acked, refund, told, closed, lost

taskVars   == <<job, copy, done, pool, pick, tries, misses>>
kvVars     == <<seen, parked>>
twitchVars == <<sends, acked, refund>>
histVars   == <<told, closed, lost>>
vars == <<history, copies, outbox, limit, active, reply,
          phase, job, copy, done, pool, pick, tries, misses,
          seen, parked, sends, acked, refund, told, closed, lost>>

Phase == {"idle", "dedup", "hold", "lookup", "prefix", "cards", "rpc",
          "reread", "park", "mark", "drop"}

TypeOK ==
    /\ LedgerTypes
    /\ phase  \in [Worker -> Phase]
    /\ job    \in [Worker -> Event \cup {None}]
    /\ copy   \in [Worker -> 0..MaxSends]
    /\ done   \in [Worker -> 0..MaxDraws]
    /\ pool   \in [Worker -> SUBSET Card]
    /\ pick   \in [Worker -> Card \cup {None}]
    /\ tries  \in [Worker -> 0..RpcTries]
    /\ misses \in [Worker -> 0..Reselects]
    /\ seen   \in SUBSET Event
    /\ parked \in SUBSET (Event \X (1..MaxSends))
    /\ sends  \in [Event -> 0..MaxSends]
    /\ acked  \in SUBSET Event
    /\ refund \in [Event -> {"none", "pending", "done", "failed"}]
    /\ told   \in SUBSET Event
    /\ closed \in SUBSET Event
    /\ lost   \in SUBSET Event

Init ==
    /\ LedgerInit
    /\ phase  = [w \in Worker |-> "idle"]
    /\ job    = [w \in Worker |-> None]
    /\ copy   = [w \in Worker |-> 0]
    /\ done   = [w \in Worker |-> 0]
    /\ pool   = [w \in Worker |-> {}]
    /\ pick   = [w \in Worker |-> None]
    /\ tries  = [w \in Worker |-> 0]
    /\ misses = [w \in Worker |-> 0]
    /\ seen   = {}
    /\ parked = {}
    /\ sends  = [e \in Event |-> 0]
    /\ acked  = {}
    /\ refund = [e \in Event |-> "none"]
    /\ told   = {}
    /\ closed = {}
    /\ lost   = {}

Goto(w, p) == phase' = [phase EXCEPT ![w] = p]

(* The end of an invocation.                                               *)
Leave(w) ==
    /\ Goto(w, "idle")
    /\ job'    = [job EXCEPT ![w] = None]
    /\ copy'   = [copy EXCEPT ![w] = 0]
    /\ done'   = [done EXCEPT ![w] = 0]
    /\ pool'   = [pool EXCEPT ![w] = {}]
    /\ pick'   = [pick EXCEPT ![w] = None]
    /\ tries'  = [tries EXCEPT ![w] = 0]
    /\ misses' = [misses EXCEPT ![w] = 0]

(* The answer to Twitch, which may not arrive.                             *)
Answer2xx(w) == acked' \in {acked, acked \cup {job[w]}}

-----------------------------------------------------------------------------
(* The webhook                                                             *)

(* Twitch delivers at least once, and again when it has no 2xx in time.    *)
Send(w, e) ==
    /\ w \in Live /\ phase[w] = "idle"
    /\ sends[e] < MaxSends
    /\ sends' = [sends EXCEPT ![e] = @ + 1]
    /\ job'   = [job EXCEPT ![w] = e]
    /\ copy'  = [copy EXCEPT ![w] = sends[e] + 1]
    /\ Goto(w, "dedup")
    /\ UNCHANGED <<ledgerVars, done, pool, pick, tries, misses, kvVars,
                   acked, refund, histVars>>

SkipSeen(w) ==
    /\ phase[w] = "dedup"
    /\ job[w] \in seen
    /\ Answer2xx(w)
    /\ Leave(w)
    /\ UNCHANGED <<ledgerVars, kvVars, sends, refund, histVars>>

(* No key, or KV did not show it (it fails open and is eventually          *)
(* consistent).  The maintenance mode is configuration of the isolate.     *)
PassDedup(w) ==
    /\ phase[w] = "dedup"
    /\ Goto(w, "hold") \/ Goto(w, "lookup")
    /\ UNCHANGED <<ledgerVars, taskVars, kvVars, twitchVars, histVars>>

Stored(w) == parked' = parked \cup {<<job[w], copy[w]>>}

Hold(w) ==
    /\ phase[w] = "hold"
    /\ Stored(w)
    /\ Goto(w, "mark")
    /\ UNCHANGED <<ledgerVars, taskVars, seen, twitchVars, histVars>>

(* Maintenance answers 2xx even when nothing could be stored.              *)
HoldFails(w) ==
    /\ phase[w] = "hold"
    /\ \/ Stored(w) /\ UNCHANGED lost
       \/ lost' = lost \cup {job[w]} /\ UNCHANGED parked
    /\ Answer2xx(w)
    /\ Leave(w)
    /\ UNCHANGED <<ledgerVars, seen, sends, refund, told, closed>>

Park(w) ==
    /\ phase[w] = "park"
    /\ Stored(w)
    /\ Goto(w, "mark")
    /\ UNCHANGED <<ledgerVars, taskVars, seen, twitchVars, histVars>>

(* Mutant: 2xx for a message that is neither handled nor stored.           *)
ParkFailsAnswered(w) ==
    /\ phase[w] = "park"
    /\ Answer2xx(w)
    /\ Leave(w)
    /\ UNCHANGED <<ledgerVars, kvVars, sends, refund, histVars>>

(* 503: Twitch has to send the message again.                              *)
ParkFails(w) ==
    /\ phase[w] = "park"
    /\ Stored(w) \/ UNCHANGED parked
    /\ Leave(w)
    /\ UNCHANGED <<ledgerVars, seen, twitchVars, histVars>>

MarkSeen(w) ==
    /\ phase[w] = "mark"
    /\ seen' \in {seen, seen \cup {job[w]}}
    /\ Answer2xx(w)
    /\ Leave(w)
    /\ UNCHANGED <<ledgerVars, parked, sends, refund, histVars>>

-----------------------------------------------------------------------------
(* The draws of an event                                                   *)

(* A definite outcome: the webhook records the message and answers, the    *)
(* replay deletes its entry.                                               *)
Close(w) == Goto(w, IF w \in Live THEN "mark" ELSE "drop")

(* A retryable outcome: the webhook parks, the replay keeps its entry.     *)
Retry(w) ==
    \/ w \in Live /\ Goto(w, "park") /\ UNCHANGED taskVars
    \/ w \in Relay /\ Leave(w)

Fails(w) ==
    /\ phase[w] \in {"lookup", "prefix", "cards", "reread"}
    /\ Retry(w)
    /\ UNCHANGED <<ledgerVars, kvVars, twitchVars, histVars>>

(* Streamer not found, reward mismatch, raid reward inactive, raid gacha   *)
(* disabled, a malformed raid payload.  (A raid of an unknown streamer is  *)
(* retried, see Fails.)                                                    *)
Refuse(w) ==
    /\ phase[w] = "lookup"
    /\ closed' = closed \cup {job[w]}
    /\ Close(w)
    /\ UNCHANGED <<ledgerVars, taskVars, kvVars, twitchVars, told, lost>>

(* Only a batch of several draws looks for the draws it already has.       *)
Lookup(w) ==
    /\ phase[w] = "lookup"
    /\ Goto(w, IF Draws[job[w]] > 1 THEN "prefix" ELSE "cards")
    /\ UNCHANGED <<ledgerVars, taskVars, kvVars, twitchVars, histVars>>

IsPrefix(e, p) ==
    /\ \A i \in 1..p : history[e][i] # None
    /\ p < Draws[e] => history[e][p + 1] = None

ReadPrefix(w) ==
    /\ phase[w] = "prefix"
    /\ \E p \in 0..Draws[job[w]] :
         /\ IsPrefix(job[w], p)
         /\ done' = [done EXCEPT ![w] = p]
         /\ IF p = Draws[job[w]] THEN Close(w) ELSE Goto(w, "cards")
    /\ UNCHANGED <<ledgerVars, job, copy, pool, pick, tries, misses,
                   kvVars, twitchVars, histVars>>

(* Mutant: draws on record do not count.                                   *)
SoldOutAny(w) ==
    /\ refund' = [refund EXCEPT ![job[w]] = IF @ = "done" THEN @ ELSE "pending"]
    /\ Close(w)
    /\ UNCHANGED <<job, copy, done, pool, pick, tries, misses>>

(* executeGacha reports sold out: with nothing drawn so far a redemption   *)
(* is cancelled in the background; a batch with draws on record and a raid *)
(* are retried.                                                            *)
SoldOut(w) ==
    IF done[w] = 0 /\ job[w] \notin Raid
    THEN /\ refund' = [refund EXCEPT ![job[w]] = IF @ = "done" THEN @ ELSE "pending"]
         /\ Close(w)
         /\ UNCHANGED <<job, copy, done, pool, pick, tries, misses>>
    ELSE Retry(w) /\ UNCHANGED refund

Select(w, cards) ==
    /\ pool' = [pool EXCEPT ![w] = cards]
    /\ \E c \in cards : pick' = [pick EXCEPT ![w] = c]
    /\ tries' = [tries EXCEPT ![w] = 1]
    /\ Goto(w, "rpc")

ReadCards(w) ==
    LET available == {c \in active : Room(c)}
    IN  /\ phase[w] = "cards"
        /\ active # {}
        /\ \/ available = {} /\ SoldOut(w)
           \/ /\ Select(w, available)
              /\ misses' = [misses EXCEPT ![w] = 0]
              /\ UNCHANGED <<job, copy, done, refund>>
        /\ UNCHANGED <<ledgerVars, kvVars, sends, acked, histVars>>

(* Mutant: an empty pool is retried like an empty pack.                    *)
NoCardsRetried(w) ==
    /\ phase[w] = "cards" /\ active = {}
    /\ Retry(w)
    /\ UNCHANGED <<ledgerVars, kvVars, twitchVars, histVars>>

(* No active card: final for a whole pool that is empty, retryable for an  *)
(* empty pack or when draws are on record (Fails).                         *)
NoCards(w) ==
    /\ phase[w] = "cards"
    /\ active = {} /\ done[w] = 0
    /\ closed' = closed \cup {job[w]}
    /\ Close(w)
    /\ UNCHANGED <<ledgerVars, taskVars, kvVars, twitchVars, told, lost>>

(* The database executes the call in flight.                               *)
Execute(w) ==
    /\ phase[w] = "rpc" /\ reply[w] = "none"
    /\ Call(w, job[w], done[w] + 1, pick[w])
    /\ UNCHANGED <<phase, taskVars, kvVars, twitchVars, histVars>>

(* The connection breaks before or after the execution; withDbRetry calls  *)
(* again with the same card.                                               *)
CallFails(w) ==
    /\ phase[w] = "rpc"
    /\ Lose(w)
    /\ \/ /\ tries[w] < RpcTries
          /\ tries' = [tries EXCEPT ![w] = @ + 1]
          /\ UNCHANGED <<phase, job, copy, done, pool, pick, misses>>
       \/ tries[w] = RpcTries /\ Retry(w)
    /\ UNCHANGED <<kvVars, twitchVars, histVars>>

(* All draws are on record: the cards go to postRedemptionNotify.          *)
Succeed(w) ==
    /\ told' = told \cup {job[w]}
    /\ Close(w)

Granted(w) ==
    /\ phase[w] = "rpc" /\ reply[w] = "granted"
    /\ Lose(w)
    /\ done' = [done EXCEPT ![w] = @ + 1]
    /\ IF done[w] + 1 = Draws[job[w]] THEN Succeed(w)
       ELSE Goto(w, "cards") /\ UNCHANGED told
    /\ UNCHANGED <<job, copy, pool, pick, tries, misses, kvVars, twitchVars,
                   closed, lost>>

(* Mutant: any duplicate of a batch counts as its end.                     *)
FoundAnyDuplicate(w) ==
    /\ phase[w] = "rpc" /\ reply[w] = "duplicate"
    /\ Lose(w)
    /\ Succeed(w)
    /\ UNCHANGED <<taskVars, kvVars, twitchVars, closed, lost>>

(* The answer to a duplicate final draw of a batch carries all its cards.  *)
FoundDuplicate(w) ==
    /\ phase[w] = "rpc" /\ reply[w] = "duplicate"
    /\ Lose(w)
    /\ CASE Draws[job[w]] = 1 -> Close(w) /\ UNCHANGED told
         [] Draws[job[w]] > 1 /\ done[w] + 1 = Draws[job[w]] -> Succeed(w)
         [] OTHER -> Goto(w, "reread") /\ UNCHANGED told
    /\ UNCHANGED <<taskVars, kvVars, twitchVars, closed, lost>>

Reread(w) ==
    /\ phase[w] = "reread"
    /\ \E p \in 0..Draws[job[w]] :
         /\ IsPrefix(job[w], p)
         /\ IF p > done[w] /\ p < Draws[job[w]]
            THEN done' = [done EXCEPT ![w] = p] /\ Goto(w, "cards")
            ELSE Close(w) /\ UNCHANGED done
    /\ UNCHANGED <<ledgerVars, job, copy, pool, pick, tries, misses,
                   kvVars, twitchVars, histVars>>

(* The card is exhausted after all: another one is selected, unless the    *)
(* cards that are left weigh nothing ("Failed to select card").            *)
Reselect(w) ==
    LET rest == pool[w] \ {pick[w]}
        last == misses[w] + 1 >= Reselects \/ rest = {}
    IN  /\ phase[w] = "rpc" /\ reply[w] = "limit"
        /\ Lose(w)
        /\ \/ last /\ SoldOut(w)
           \/ /\ ~last
              /\ Select(w, rest)
              /\ misses' = [misses EXCEPT ![w] = @ + 1]
              /\ UNCHANGED <<job, copy, done, refund>>
           \/ ~last /\ Retry(w) /\ UNCHANGED refund
        /\ UNCHANGED <<kvVars, sends, acked, histVars>>

Draw(w) ==
    \/ Fails(w) \/ Refuse(w) \/ Lookup(w) \/ ReadPrefix(w) \/ ReadCards(w)
    \/ NoCards(w) \/ Execute(w) \/ CallFails(w) \/ Granted(w)
    \/ FoundDuplicate(w) \/ Reread(w) \/ Reselect(w)

-----------------------------------------------------------------------------
(* The replay, the background and time                                     *)

Replay(w, k) ==
    /\ w \in Relay /\ phase[w] = "idle"
    /\ k \in parked
    /\ job'  = [job EXCEPT ![w] = k[1]]
    /\ copy' = [copy EXCEPT ![w] = k[2]]
    /\ Goto(w, "lookup")
    /\ UNCHANGED <<ledgerVars, done, pool, pick, tries, misses, kvVars,
                   twitchVars, histVars>>

Drop(w) ==
    /\ phase[w] = "drop"
    /\ parked' = parked \ {<<job[w], copy[w]>>}
    /\ Leave(w)
    /\ UNCHANGED <<ledgerVars, seen, twitchVars, histVars>>

(* The invocation is stopped, or the deadline of the replay passes it by   *)
(* (also when the deletion of its entry fails): an entry stays parked.     *)
Stop(w) ==
    /\ phase[w] # "idle"
    /\ Lose(w)
    /\ Leave(w)
    /\ UNCHANGED <<kvVars, twitchVars, histVars>>

(* cancelRedemption, run by waitUntil after the answer.                    *)
RefundEnds(e) ==
    /\ refund[e] = "pending"
    /\ \E r \in {"done", "failed"} : refund' = [refund EXCEPT ![e] = r]
    /\ UNCHANGED <<ledgerVars, phase, taskVars, kvVars, sends, acked, histVars>>

(* 10 minutes and 7 days.                                                  *)
ExpireSeen(e) ==
    /\ e \in seen
    /\ seen' = seen \ {e}
    /\ UNCHANGED <<ledgerVars, phase, taskVars, parked, twitchVars, histVars>>

Edit(c) ==
    /\ \E n \in Limits, on \in BOOLEAN : EditCard(c, n, on)
    /\ UNCHANGED <<phase, taskVars, kvVars, twitchVars, histVars>>

ExpireParked(k) ==
    /\ k \in parked
    /\ parked' = parked \ {k}
    /\ lost'   = lost \cup {k[1]}
    /\ UNCHANGED <<ledgerVars, phase, taskVars, seen, twitchVars, told, closed>>

Webhook(w) ==
    \/ SkipSeen(w) \/ PassDedup(w) \/ Hold(w) \/ HoldFails(w)
    \/ Park(w) \/ ParkFails(w) \/ MarkSeen(w)

Next ==
    \/ \E w \in Worker, e \in Event : Send(w, e)
    \/ \E w \in Worker : Webhook(w) \/ Draw(w) \/ Drop(w) \/ Stop(w)
    \/ \E w \in Worker, k \in parked : Replay(w, k)
    \/ \E e \in Event : RefundEnds(e) \/ ExpireSeen(e)
    \/ \E k \in parked : ExpireParked(k)
    \/ \E c \in Editable : Edit(c)

Spec == Init /\ [][Next]_vars

(* The cron keeps replaying: every parked entry gets its turn (the oldest  *)
(* entries come first, and no more are parked than one request takes),     *)
(* invocations proceed, and what can succeed does so sooner or later: the  *)
(* reads, an executed call whose answer arrives, the deletion of an entry. *)
Fairness ==
    /\ \A w \in Worker : WF_vars(Webhook(w) \/ Draw(w) \/ Drop(w))
    /\ \A w \in Relay : /\ SF_vars(Lookup(w)) /\ SF_vars(ReadPrefix(w))
                        /\ SF_vars(ReadCards(w)) /\ SF_vars(NoCards(w))
                        /\ SF_vars(Reread(w))
                        /\ SF_vars(Execute(w)) /\ SF_vars(Drop(w))
                        /\ SF_vars(Granted(w) \/ FoundDuplicate(w) \/ Reselect(w))
    /\ \A k \in Event \X (1..MaxSends) : SF_vars(\E w \in Relay : Replay(w, k))

-----------------------------------------------------------------------------
(* Properties                                                              *)

Complete(e) == \A i \in 1..Draws[e] : history[e][i] # None

(* The viewer has every card, a refund has been attempted, the streamer's  *)
(* settings want no gacha, or the code has given the event up.             *)
Settled(e) == Complete(e) \/ refund[e] # "none" \/ e \in closed \/ e \in lost

(* The draws of a batch are recorded in order, whoever runs them: no two   *)
(* handlings of a batch leave a gap, which countCompletedDrawPrefix counts *)
(* on.                                                                     *)
DrawsInOrder ==
    \A e \in Event : \A i \in 1..(Draws[e] - 1) :
        history[e][i] = None => history[e][i + 1] = None

(* A 2xx is final for Twitch, so an event Twitch has a 2xx for is settled  *)
(* or parked: the webhook records a message as seen, and answers, only     *)
(* when its handling is over or its retry is stored.                       *)
AcceptedIsKept ==
    \A e \in acked : Settled(e) \/ \E k \in parked : k[1] = e

(* Only a batch that is complete is announced to the overlay and the chat. *)
ToldComplete == \A e \in told : Complete(e)

(* The three together: what the handling of redemptions promises whoever   *)
(* handles an event, and however often.                                    *)
HandlingHolds == DrawsInOrder /\ AcceptedIsKept /\ ToldComplete

(* The replay deletes an entry only when its event is settled: a retryable *)
(* failure keeps it.                                                       *)
KeepsEntries == \A k \in parked : k \notin parked' => Settled(k[1])'

(* A redemption is not cancelled when draws of it are on record.  The code *)
(* keeps this for a batch that is resumed after its earlier handling has   *)
(* ended, and for a single card not even then.                             *)
NoBatchRefunded ==
    \A e \in Event : Draws[e] > 1 /\ refund[e] = "none" /\ refund'[e] # "none"
        => \A i \in 1..Draws[e] : history[e][i] = None

(* What the gacha transaction's migration says its advisory lock is for: a *)
(* handling that comes after the commit of the same event must not refund  *)
(* because it sees the issuance limit first.                               *)
NoRefundAfterGrant ==
    \A e \in Event : refund[e] # "none" => \A i \in 1..Draws[e] : history[e][i] = None

(* A parked event is settled in the end.                                   *)
ParkedIsSettled ==
    \A e \in Event : (\E k \in parked : k[1] = e) ~> Settled(e)
=============================================================================
