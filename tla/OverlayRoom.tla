---------------------------- MODULE OverlayRoom ----------------------------
(***************************************************************************)
(* The Durable Object of one streamer and the publishers that send it the  *)
(* committed draws.  A publisher signs every attempt anew, stops waiting   *)
(* after 1.5 seconds, and repeats the attempt; the room refuses by rate and*)
(* by nonce, reads the body, records the event id, numbers the event and   *)
(* sends it.  Storage calls keep other requests out (input gates): two     *)
(* handlings interleave only where the body is read, and the room may stop *)
(* after any of its writes.  The alarm carries out the operator's switch.  *)
(* The ledgers hold more entries than the life of a publish can fill and   *)
(* are modelled as sets; the counters of the rate limit stop counting one  *)
(* past their limit.                                                       *)
(***************************************************************************)
EXTENDS Naturals, Sequences, FiniteSets

CONSTANTS Event, Line, Client,
          caller,           \* the client of a line (clientRateLimitBucket)
          MaxAttempts,      \* maxRetries + 1
          MaxPublishes, MaxConnects, MaxPerClient, MaxConnections,
          MaxFaults         \* bound: stops, repeated requests, switches

ASSUME CallerAssumption == caller \in [Line -> Client]
ASSUME LimitAssumption ==
    /\ MaxAttempts \in Nat \ {0} /\ MaxPublishes \in Nat
    /\ MaxConnects \in Nat /\ MaxPerClient \in Nat /\ MaxConnections \in Nat
    /\ MaxFaults \in Nat

VARIABLES
    pub, tries, answer,        \* publishers: one for each event
    sent, body, serving,       \* requests under way; the room's handlings
    nonces, ledger, seq, limit, roomId, alarm,        \* storage of the room
    line, waiting,             \* its sockets; connects past the router
    enabled, faults

publishers == <<pub, tries, answer>>
requests   == <<sent, body, serving>>
storage    == <<nonces, ledger, seq, limit, roomId, alarm>>
vars == <<publishers, requests, storage, line, waiting, enabled, faults>>

Request == Event \X (1..MaxAttempts)       \* every attempt has its nonce
Stage   == {"idle", "recorded", "numbered"}
Idle    == [stage |-> "idle", on |-> {}]
NoLimit == [publishes |-> 0, connects |-> 0, by |-> [b \in Client |-> 0]]

(* The event that is recorded or numbered and not yet sent is not given.   *)
Serving == {r[1] : r \in serving.on}
Feed == INSTANCE RoomFeed WITH
          given <- ledger \ Serving,
          seq   <- IF serving.stage = "numbered" THEN seq - 1 ELSE seq

Up == Feed!Up

TypeOK ==
    /\ pub \in [Event -> {"idle", "waiting", "accepted", "failed", "skipped"}]
    /\ tries \in [Event -> 0..MaxAttempts]
    /\ answer \in [Event -> {"none", "ok", "reject"}]
    /\ sent \subseteq Request /\ body \subseteq Request
    /\ serving \in [stage : Stage, on : SUBSET Request]
    /\ nonces \subseteq Request /\ ledger \subseteq Event /\ seq \in Nat
    /\ limit \in [publishes : Nat, connects : Nat, by : [Client -> Nat]]
    /\ roomId \in BOOLEAN /\ alarm \in BOOLEAN
    /\ line \in [Line -> [up : BOOLEAN, frames : Seq(Feed!Frame)]]
    /\ waiting \subseteq Line
    /\ enabled \in BOOLEAN /\ faults \in Nat

Init ==
    /\ pub = [e \in Event |-> "idle"] /\ tries = [e \in Event |-> 0]
    /\ answer = [e \in Event |-> "none"]
    /\ sent = {} /\ body = {} /\ serving = Idle
    /\ nonces = {} /\ ledger = {} /\ seq = 0 /\ limit = NoLimit
    /\ roomId = FALSE /\ alarm = FALSE
    /\ line = [c \in Line |-> Feed!Down] /\ waiting = {}
    /\ enabled = TRUE /\ faults = 0

Fault == faults < MaxFaults /\ faults' = faults + 1
-----------------------------------------------------------------------------
(* Publishers.                                                             *)
Attempt(e, n) ==
    /\ pub' = [pub EXCEPT ![e] = "waiting"]
    /\ tries' = [tries EXCEPT ![e] = n]
    /\ answer' = [answer EXCEPT ![e] = "none"]
    /\ sent' = sent \cup {<<e, n>>}

EndAs(e, outcome) ==
    /\ pub' = [pub EXCEPT ![e] = outcome]
    /\ answer' = [answer EXCEPT ![e] = "none"]
    /\ UNCHANGED <<tries, sent>>

\* The draw has committed.
Publish(e) ==
    /\ pub[e] = "idle" /\ Attempt(e, 1)
    /\ UNCHANGED <<body, serving, storage, line, waiting, enabled, faults>>

\* The transport is off for the streamer, or a row is not found.
Skip(e) ==
    /\ pub[e] = "idle" /\ EndAs(e, "skipped")
    /\ UNCHANGED <<body, serving, storage, line, waiting, enabled, faults>>

\* A status of 408, 429 or 5xx, a lost connection and 1.5 seconds of waiting
\* are all one to the publisher.
Unanswered(e) == pub[e] = "waiting" /\ answer[e] = "none"

TryAgain(e) ==
    /\ Unanswered(e) /\ tries[e] < MaxAttempts /\ Attempt(e, tries[e] + 1)
    /\ UNCHANGED <<body, serving, storage, line, waiting, enabled, faults>>

Fail(e) ==
    /\ pub[e] = "waiting"
    /\ answer[e] = "reject" \/ (Unanswered(e) /\ tries[e] = MaxAttempts)
    /\ EndAs(e, "failed")
    /\ UNCHANGED <<body, serving, storage, line, waiting, enabled, faults>>

Accepted(e) ==
    /\ pub[e] = "waiting" /\ answer[e] = "ok" /\ EndAs(e, "accepted")
    /\ UNCHANGED <<body, serving, storage, line, waiting, enabled, faults>>
-----------------------------------------------------------------------------
(* The room.  Nothing else runs while a handling waits for storage.        *)
Gate == serving = Idle

\* The publisher hears only of the attempt it waits for.
Reply(r, a) ==
    answer' = IF pub[r[1]] = "waiting" /\ tries[r[1]] = r[2]
              THEN [answer EXCEPT ![r[1]] = a] ELSE answer

CountTo(n, max) == IF n <= max THEN n + 1 ELSE n

\* The service binding may hand a request over twice.
Taken(r) == \/ sent' = sent \ {r} /\ UNCHANGED faults
            \/ Fault /\ UNCHANGED sent

RefuseOff(r) ==
    /\ r \in sent /\ Taken(r) /\ ~enabled
    /\ UNCHANGED <<publishers, body, serving, storage, line, waiting, enabled>>

CountPublish == limit' = [limit EXCEPT !.publishes =
                            CountTo(limit.publishes, MaxPublishes)]
PublishAllowed == limit.publishes < MaxPublishes

RefuseRate(r) ==
    /\ r \in sent /\ Taken(r) /\ enabled /\ Gate
    /\ CountPublish /\ ~PublishAllowed
    /\ UNCHANGED <<publishers, body, serving, nonces, ledger, seq, roomId,
                   alarm, line, waiting, enabled>>

RefuseReplay(r) ==
    /\ r \in sent /\ Taken(r) /\ enabled /\ Gate
    /\ CountPublish /\ PublishAllowed /\ r \in nonces
    /\ Reply(r, "reject")
    /\ UNCHANGED <<pub, tries, body, serving, nonces, ledger, seq, roomId,
                   alarm, line, waiting, enabled>>

Admit(r) ==
    /\ r \in sent /\ Taken(r) /\ enabled /\ Gate
    /\ CountPublish /\ PublishAllowed /\ r \notin nonces
    /\ nonces' = nonces \cup {r} /\ body' = body \cup {r}
    /\ UNCHANGED <<publishers, serving, ledger, seq, roomId, alarm, line,
                   waiting, enabled>>

\* A repetition of what was recorded is accepted and goes nowhere.
Repetition(r) ==
    /\ r \in body /\ Gate /\ r[1] \in ledger
    /\ body' = body \ {r} /\ Reply(r, "ok")
    /\ UNCHANGED <<pub, tries, sent, serving, storage, line, waiting, enabled,
                   faults>>

(* Mutant: only the nonce keeps a repetition out.                          *)
RecordAlways(r) ==
    /\ r \in body /\ Gate
    /\ body' = body \ {r} /\ ledger' = ledger \cup {r[1]}
    /\ serving' = [stage |-> "recorded", on |-> {r}]
    /\ UNCHANGED <<publishers, sent, nonces, seq, limit, roomId, alarm, line,
                   waiting, enabled, faults>>
Record(r) ==
    /\ r \in body /\ Gate /\ r[1] \notin ledger
    /\ body' = body \ {r} /\ ledger' = ledger \cup {r[1]}
    /\ serving' = [stage |-> "recorded", on |-> {r}]
    /\ UNCHANGED <<publishers, sent, nonces, seq, limit, roomId, alarm, line,
                   waiting, enabled, faults>>

Number ==
    /\ serving.stage = "recorded"
    /\ seq' = seq + 1 /\ serving' = [serving EXCEPT !.stage = "numbered"]
    /\ UNCHANGED <<publishers, sent, body, nonces, ledger, limit, roomId,
                   alarm, line, waiting, enabled, faults>>

(* Mutant: a line that is too slow is passed over.                         *)
SendSkipping(reached) ==
    /\ serving.stage = "numbered"
    /\ \E r \in serving.on :
         /\ line' = [c \in Line |-> IF c \in reached
                      THEN Feed!Pushed(seq, r[1], reached)[c] ELSE line[c]]
         /\ Reply(r, "ok")
    /\ serving' = Idle
    /\ UNCHANGED <<pub, tries, sent, body, storage, waiting, enabled, faults>>

\* Lines that have too much buffered, or fail, are closed and not skipped.
Send(reached) ==
    /\ serving.stage = "numbered"
    /\ \E r \in serving.on :
         /\ line' = Feed!Pushed(seq, r[1], reached)
         /\ Reply(r, "ok")
    /\ serving' = Idle
    /\ UNCHANGED <<pub, tries, sent, body, storage, waiting, enabled, faults>>
-----------------------------------------------------------------------------
(* Connections.  The router looks at the allowlist before the room runs.   *)
Route(c) ==
    /\ ~line[c].up /\ c \notin waiting /\ enabled
    /\ waiting' = waiting \cup {c}
    /\ UNCHANGED <<publishers, requests, storage, line, enabled, faults>>

CountConnect(c) ==
    limit' = [limit EXCEPT !.connects = CountTo(limit.connects, MaxConnects),
                           !.by[caller[c]] =
                              CountTo(limit.by[caller[c]], MaxPerClient)]
ConnectAllowed(c) == /\ limit.connects < MaxConnects
                     /\ limit.by[caller[c]] < MaxPerClient
                     /\ Cardinality(Up) < MaxConnections

RefuseConnect(c) ==
    /\ c \in waiting /\ Gate /\ CountConnect(c) /\ ~ConnectAllowed(c)
    /\ waiting' = waiting \ {c}
    /\ UNCHANGED <<publishers, requests, nonces, ledger, seq, roomId, alarm,
                   line, enabled, faults>>

Connect(c) ==
    /\ c \in waiting /\ Gate /\ CountConnect(c) /\ ConnectAllowed(c)
    /\ waiting' = waiting \ {c}
    /\ roomId' = TRUE /\ alarm' = TRUE
    /\ line' = Feed!Welcomed(c)
    /\ UNCHANGED <<publishers, requests, nonces, ledger, seq, enabled, faults>>

\* A client leaves, breaks the rules of its messages, or its socket fails.
Leave(c) ==
    /\ line[c].up /\ line' = Feed!CloseAll({c})
    /\ UNCHANGED <<publishers, requests, storage, waiting, enabled, faults>>

\* A stop between the writes of Connect leaves the id without an alarm.
Stop ==
    /\ Fault
    /\ line' = Feed!CloseAll(Line) /\ body' = {} /\ serving' = Idle
    /\ \/ UNCHANGED <<waiting, roomId>>
       \/ waiting # {} /\ Gate /\ waiting' = {} /\ roomId' = TRUE
    /\ UNCHANGED <<publishers, sent, nonces, ledger, seq, limit, alarm,
                   enabled>>
-----------------------------------------------------------------------------
(* The alarm.  A heartbeat changes nothing, and the alarm is set again.    *)
AlarmIdle ==
    /\ alarm /\ Gate /\ Up = {}
    /\ roomId' = FALSE /\ alarm' = FALSE
    /\ UNCHANGED <<publishers, requests, nonces, ledger, seq, limit, line,
                   waiting, enabled, faults>>

AlarmOff ==
    /\ alarm /\ Gate /\ Up # {} /\ roomId /\ ~enabled
    /\ line' = Feed!Noticed /\ roomId' = FALSE /\ alarm' = FALSE
    /\ UNCHANGED <<publishers, requests, nonces, ledger, seq, limit, waiting,
                   enabled, faults>>

\* The operator deploys a Worker with another allowlist.
Switch ==
    /\ Fault /\ enabled' = ~enabled
    /\ UNCHANGED <<publishers, requests, storage, line, waiting>>

NextMinute ==
    /\ limit # NoLimit /\ limit' = NoLimit
    /\ UNCHANGED <<publishers, requests, nonces, ledger, seq, roomId, alarm,
                   line, waiting, enabled, faults>>

Next ==
    \/ \E e \in Event : \/ Publish(e) \/ Skip(e) \/ TryAgain(e) \/ Fail(e)
                        \/ Accepted(e)
    \/ \E r \in Request : \/ RefuseOff(r) \/ RefuseRate(r) \/ RefuseReplay(r)
                          \/ Admit(r) \/ Repetition(r) \/ Record(r)
    \/ Number \/ \E reached \in SUBSET Line : Send(reached)
    \/ \E c \in Line : \/ Route(c) \/ RefuseConnect(c) \/ Connect(c)
                       \/ Leave(c)
    \/ Stop \/ AlarmIdle \/ AlarmOff \/ Switch \/ NextMinute

Spec == Init /\ [][Next]_vars

-----------------------------------------------------------------------------
(* A line that is still up has carried every number the room took since    *)
(* its welcome, one after the other, so an overlay that misses an event    *)
(* either sees a gap or loses the line (allocateSeq, the fan-out loop).    *)
NoSilentGap ==
    \A c \in Up :
      LET f    == line[c].frames
          last == IF serving.stage = "numbered" THEN seq - 1 ELSE seq
      IN  /\ \A i \in 1..Len(f) : f[i].n = f[1].n + i - 1
          /\ f[Len(f)].n = last

(* The kill switch can reach every socket: while a line is up the alarm is *)
(* pending and the room knows its streamer (the connect handler, alarm).   *)
LinesAreWatched == Up # {} => alarm /\ roomId

(* What the publisher was told is accepted is in the delivery ledger, so   *)
(* no later attempt, of it or of another worker, sends it once more.       *)
AcceptedIsRecorded == \A e \in Event : pub[e] = "accepted" => e \in ledger

(* The room keeps the promise of RoomFeed: whatever the retries, the late  *)
(* attempts, the repeated requests and the stops, an event goes out once.  *)
FeedPromise == Feed!FeedSpec

=============================================================================
