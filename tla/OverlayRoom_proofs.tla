------------------------- MODULE OverlayRoom_proofs -------------------------
(*****************************************************************************)
(* Proofs about OverlayRoom for every set of events and lines: its           *)
(* invariants, and that it keeps the promise of RoomFeed; and about          *)
(* OverlayClient, a page that such a room serves.                            *)
(*****************************************************************************)
EXTENDS OverlayRoom, TLAPS, FiniteSetTheorems, WellFoundedInduction

CONSTANTS Me, PageRows, Buffer, Trigger, Endpoint, Unusable, LateCommits, MaxPageFaults

VARIABLES given, pageSeq, pageLine, committed, late, roomOn, srv, dead, cl, shown, due, pageFaults

Screen == INSTANCE OverlayClient WITH seq <- pageSeq, line <- pageLine,
            faults <- pageFaults, MaxFaults <- MaxPageFaults

(* At most one request is past its body, and its event is recorded.        *)
ServingOK ==
    /\ serving.stage = "idle" => serving.on = {}
    /\ serving.stage # "idle" =>
         \E r \in Request : serving.on = {r} /\ r[1] \in ledger
    /\ serving.stage = "numbered" => seq > 0

(* What a publisher is told, or was told, is recorded.                     *)
Answered == AcceptedIsRecorded
            /\ \A e \in Event : answer[e] = "ok" => e \in ledger

(* The welcome is the first frame of a line that is up.                    *)
Framed == NoSilentGap /\ \A c \in Up : line[c].frames # <<>>

(* A connect that passed the router has no line yet.                       *)
Routed == \A c \in waiting : ~line[c].up

IInv == /\ TypeOK /\ ServingOK /\ Answered /\ LinesAreWatched
        /\ Framed /\ Routed

LineType == [up : BOOLEAN, frames : Seq(Feed!Frame)]

(* What happens to the lines leaves them lines.                            *)
LEMMA FrameTypes ==
    ASSUME NEW n \in Nat, NEW E \in SUBSET Event,
           NEW k \in {"welcome", "gacha", "disabled", "close"}
    PROVE  Feed!FrameOf(k, n, E) \in Feed!Frame
BY DEF Feed!FrameOf, Feed!Frame

LEMMA SentType ==
    ASSUME NEW l \in LineType, NEW f \in Feed!Frame
    PROVE  Feed!Sent(l, f) \in LineType
BY DEF LineType, Feed!Sent

LEMMA ClosedType ==
    ASSUME NEW l \in LineType PROVE Feed!Closed(l) \in LineType
<1>1. Feed!FrameOf("close", 0, {}) \in Feed!Frame
  BY FrameTypes
<1> QED
  BY <1>1 DEF LineType, Feed!Closed

LEMMA LineTypes ==
    ASSUME TypeOK, NEW C \in SUBSET Line, NEW n \in Nat, NEW e \in Event
    PROVE  /\ Feed!CloseAll(C) \in [Line -> LineType]
           /\ Feed!Noticed \in [Line -> LineType]
           /\ Feed!Pushed(n, e, C) \in [Line -> LineType]
<1>1. \A c \in Line : line[c] \in LineType
  BY DEF TypeOK, LineType
<1>2. \A c \in Line : Feed!Closed(line[c]) \in LineType
  BY <1>1, ClosedType
<1>3. \A c \in Line :
        Feed!Closed(Feed!Sent(line[c], Feed!FrameOf("disabled", 0, {})))
          \in LineType
  BY <1>1, ClosedType, SentType, FrameTypes
<1>4. \A c \in Line :
        Feed!Sent(line[c], Feed!FrameOf("gacha", n, {e})) \in LineType
  BY <1>1, SentType, FrameTypes
<1> QED
  BY <1>1, <1>2, <1>3, <1>4 DEF Feed!CloseAll, Feed!Noticed, Feed!Pushed

LEMMA CloseAllType ==
    ASSUME TypeOK, NEW C \in SUBSET Line
    PROVE  /\ Feed!CloseAll(C) \in [Line -> LineType]
           /\ Feed!Noticed \in [Line -> LineType]
<1>1. \A c \in Line : line[c] \in LineType
  BY DEF TypeOK, LineType
<1>2. \A c \in Line : Feed!Closed(line[c]) \in LineType
  BY <1>1, ClosedType
<1>3. \A c \in Line :
        Feed!Closed(Feed!Sent(line[c], Feed!FrameOf("disabled", 0, {})))
          \in LineType
  BY <1>1, ClosedType, SentType, FrameTypes
<1> QED
  BY <1>1, <1>2, <1>3 DEF Feed!CloseAll, Feed!Noticed

LimitType == [publishes : Nat, connects : Nat, by : [Client -> Nat]]

(* A count stays a number.                                                 *)
LEMMA CountType ==
    ASSUME NEW n \in Nat, NEW m \in Nat PROVE CountTo(n, m) \in Nat
BY DEF CountTo

LEMMA PublishCountType ==
    ASSUME limit \in LimitType, CountPublish PROVE limit' \in LimitType
<1>1. CountTo(limit.publishes, MaxPublishes) \in Nat
  BY LimitAssumption, CountType DEF LimitType
<1> QED
  BY <1>1 DEF CountPublish, LimitType

LEMMA ConnectCountType ==
    ASSUME limit \in LimitType, NEW c \in Line, CountConnect(c)
    PROVE  limit' \in LimitType
<1>1. limit.connects \in Nat /\ limit.by \in [Client -> Nat] /\ caller[c] \in Client
  BY CallerAssumption DEF LimitType
<1>2. limit.by[caller[c]] \in Nat
  BY <1>1
<1>3. CountTo(limit.connects, MaxConnects) \in Nat
  BY <1>1, LimitAssumption, CountType
<1>4. CountTo(limit.by[caller[c]], MaxPerClient) \in Nat
  BY <1>2, LimitAssumption, CountType
<1>5. [limit.by EXCEPT ![caller[c]] = CountTo(limit.by[caller[c]], MaxPerClient)]
        \in [Client -> Nat]
  BY <1>1, <1>4
<1>6. limit'.by = [limit.by EXCEPT ![caller[c]] =
                     CountTo(limit.by[caller[c]], MaxPerClient)]
      /\ limit'.publishes = limit.publishes
      /\ limit'.connects = CountTo(limit.connects, MaxConnects)
      /\ limit' = [publishes |-> limit'.publishes, connects |-> limit'.connects,
                   by |-> limit'.by]
  BY DEF CountConnect, LimitType
<1> QED
  BY <1>1, <1>3, <1>5, <1>6 DEF LimitType

(* A publisher hears one of two answers.                                   *)
LEMMA ReplyType ==
    ASSUME TypeOK, NEW r \in Request, NEW a \in {"ok", "reject"}, Reply(r, a)
    PROVE  /\ answer' \in [Event -> {"none", "ok", "reject"}]
           /\ \A e \in Event : answer'[e] = "ok" =>
                answer[e] = "ok" \/ (a = "ok" /\ e = r[1])
<1>1. r[1] \in Event
  BY DEF Request
<1> QED
  BY <1>1 DEF Reply, TypeOK

(* A line is closed, or it is what it was.                                 *)
LEMMA ClosedLines ==
    ASSUME TypeOK, NEW C \in SUBSET Line,
           line' = Feed!CloseAll(C) \/ line' = Feed!Noticed
    PROVE  \A c \in Line : line'[c] = line[c] \/ ~line'[c].up
BY DEF Feed!CloseAll, Feed!Noticed, Feed!Closed

(* A first attempt.                                                        *)
LEMMA PublishInductive ==
    ASSUME NEW e \in Event, IInv, Publish(e)
    PROVE  IInv'
<1> USE LimitAssumption, CallerAssumption
<1>1. TypeOK'
  BY DEF IInv, TypeOK, Publish, Attempt, EndAs, Unanswered, Request,
     publishers, requests, storage, vars, Up, Feed!Up
<1>2. ServingOK'
  BY DEF IInv, TypeOK, ServingOK, Publish, Attempt, EndAs, Unanswered, Request,
     publishers, requests, storage, vars, Up, Feed!Up
<1>3. Answered'
  BY DEF IInv, TypeOK, Answered, AcceptedIsRecorded, Reply, Publish, Attempt,
     EndAs, Unanswered, Request, publishers, requests, storage, vars, Up,
     Feed!Up
<1>4. LinesAreWatched'
  BY DEF IInv, TypeOK, LinesAreWatched, Feed!Up, Up, Publish, Attempt, EndAs,
     Unanswered, Request, publishers, requests, storage, vars
<1>5. Framed'
  BY DEF IInv, TypeOK, Framed, NoSilentGap, Publish, Attempt, EndAs,
     Unanswered, Request, publishers, requests, storage, vars, Up, Feed!Up
<1>6. Routed'
  BY DEF IInv, TypeOK, Routed, Publish, Attempt, EndAs, Unanswered, Request,
     publishers, requests, storage, vars, Up, Feed!Up
<1> QED
  BY <1>1, <1>2, <1>3, <1>4, <1>5, <1>6 DEF IInv

(* No attempt at all.                                                      *)
LEMMA SkipInductive ==
    ASSUME NEW e \in Event, IInv, Skip(e)
    PROVE  IInv'
<1> USE LimitAssumption, CallerAssumption
<1>1. TypeOK'
  BY DEF IInv, TypeOK, Skip, Attempt, EndAs, Unanswered, Request, publishers,
     requests, storage, vars, Up, Feed!Up
<1>2. ServingOK'
  BY DEF IInv, TypeOK, ServingOK, Skip, Attempt, EndAs, Unanswered, Request,
     publishers, requests, storage, vars, Up, Feed!Up
<1>3. Answered'
  BY DEF IInv, TypeOK, Answered, AcceptedIsRecorded, Reply, Skip, Attempt,
     EndAs, Unanswered, Request, publishers, requests, storage, vars, Up,
     Feed!Up
<1>4. LinesAreWatched'
  BY DEF IInv, TypeOK, LinesAreWatched, Feed!Up, Up, Skip, Attempt, EndAs,
     Unanswered, Request, publishers, requests, storage, vars
<1>5. Framed'
  BY DEF IInv, TypeOK, Framed, NoSilentGap, Skip, Attempt, EndAs, Unanswered,
     Request, publishers, requests, storage, vars, Up, Feed!Up
<1>6. Routed'
  BY DEF IInv, TypeOK, Routed, Skip, Attempt, EndAs, Unanswered, Request,
     publishers, requests, storage, vars, Up, Feed!Up
<1> QED
  BY <1>1, <1>2, <1>3, <1>4, <1>5, <1>6 DEF IInv

(* Another attempt, within the bound.                                      *)
LEMMA TryAgainInductive ==
    ASSUME NEW e \in Event, IInv, TryAgain(e)
    PROVE  IInv'
<1> USE LimitAssumption, CallerAssumption
<1>1. TypeOK'
  BY DEF IInv, TypeOK, TryAgain, Attempt, EndAs, Unanswered, Request,
     publishers, requests, storage, vars, Up, Feed!Up
<1>2. ServingOK'
  BY DEF IInv, TypeOK, ServingOK, TryAgain, Attempt, EndAs, Unanswered,
     Request, publishers, requests, storage, vars, Up, Feed!Up
<1>3. Answered'
  BY DEF IInv, TypeOK, Answered, AcceptedIsRecorded, Reply, TryAgain, Attempt,
     EndAs, Unanswered, Request, publishers, requests, storage, vars, Up,
     Feed!Up
<1>4. LinesAreWatched'
  BY DEF IInv, TypeOK, LinesAreWatched, Feed!Up, Up, TryAgain, Attempt, EndAs,
     Unanswered, Request, publishers, requests, storage, vars
<1>5. Framed'
  BY DEF IInv, TypeOK, Framed, NoSilentGap, TryAgain, Attempt, EndAs,
     Unanswered, Request, publishers, requests, storage, vars, Up, Feed!Up
<1>6. Routed'
  BY DEF IInv, TypeOK, Routed, TryAgain, Attempt, EndAs, Unanswered, Request,
     publishers, requests, storage, vars, Up, Feed!Up
<1> QED
  BY <1>1, <1>2, <1>3, <1>4, <1>5, <1>6 DEF IInv

(* The publisher gives up.                                                 *)
LEMMA FailInductive ==
    ASSUME NEW e \in Event, IInv, Fail(e)
    PROVE  IInv'
<1> USE LimitAssumption, CallerAssumption
<1>1. TypeOK'
  BY DEF IInv, TypeOK, Fail, Attempt, EndAs, Unanswered, Request, publishers,
     requests, storage, vars, Up, Feed!Up
<1>2. ServingOK'
  BY DEF IInv, TypeOK, ServingOK, Fail, Attempt, EndAs, Unanswered, Request,
     publishers, requests, storage, vars, Up, Feed!Up
<1>3. Answered'
  BY DEF IInv, TypeOK, Answered, AcceptedIsRecorded, Reply, Fail, Attempt,
     EndAs, Unanswered, Request, publishers, requests, storage, vars, Up,
     Feed!Up
<1>4. LinesAreWatched'
  BY DEF IInv, TypeOK, LinesAreWatched, Feed!Up, Up, Fail, Attempt, EndAs,
     Unanswered, Request, publishers, requests, storage, vars
<1>5. Framed'
  BY DEF IInv, TypeOK, Framed, NoSilentGap, Fail, Attempt, EndAs, Unanswered,
     Request, publishers, requests, storage, vars, Up, Feed!Up
<1>6. Routed'
  BY DEF IInv, TypeOK, Routed, Fail, Attempt, EndAs, Unanswered, Request,
     publishers, requests, storage, vars, Up, Feed!Up
<1> QED
  BY <1>1, <1>2, <1>3, <1>4, <1>5, <1>6 DEF IInv

(* What was answered becomes the outcome.                                  *)
LEMMA AcceptedInductive ==
    ASSUME NEW e \in Event, IInv, Accepted(e)
    PROVE  IInv'
<1> USE LimitAssumption, CallerAssumption
<1>1. TypeOK'
  BY DEF IInv, TypeOK, Accepted, Attempt, EndAs, Unanswered, Request,
     publishers, requests, storage, vars, Up, Feed!Up
<1>2. ServingOK'
  BY DEF IInv, TypeOK, ServingOK, Accepted, Attempt, EndAs, Unanswered,
     Request, publishers, requests, storage, vars, Up, Feed!Up
<1>3. Answered'
  BY DEF IInv, TypeOK, Answered, AcceptedIsRecorded, Reply, Accepted, Attempt,
     EndAs, Unanswered, Request, publishers, requests, storage, vars, Up,
     Feed!Up
<1>4. LinesAreWatched'
  BY DEF IInv, TypeOK, LinesAreWatched, Feed!Up, Up, Accepted, Attempt, EndAs,
     Unanswered, Request, publishers, requests, storage, vars
<1>5. Framed'
  BY DEF IInv, TypeOK, Framed, NoSilentGap, Accepted, Attempt, EndAs,
     Unanswered, Request, publishers, requests, storage, vars, Up, Feed!Up
<1>6. Routed'
  BY DEF IInv, TypeOK, Routed, Accepted, Attempt, EndAs, Unanswered, Request,
     publishers, requests, storage, vars, Up, Feed!Up
<1> QED
  BY <1>1, <1>2, <1>3, <1>4, <1>5, <1>6 DEF IInv

(* The router refuses.                                                     *)
LEMMA RefuseOffInductive ==
    ASSUME NEW r \in Request, IInv, RefuseOff(r)
    PROVE  IInv'
<1> USE LimitAssumption, CallerAssumption
<1>1. TypeOK'
  BY SMTT(30) DEF IInv, TypeOK, RefuseOff, Taken, Fault, Gate, CountPublish,
     PublishAllowed, CountTo, Reply, Request, publishers, requests, storage,
     vars, Up, Feed!Up
<1>2. ServingOK'
  BY DEF IInv, TypeOK, ServingOK, RefuseOff, Taken, Fault, Gate, CountPublish,
     PublishAllowed, CountTo, Reply, Request, publishers, requests, storage,
     vars, Up, Feed!Up
<1>3. Answered'
  BY DEF IInv, TypeOK, Answered, AcceptedIsRecorded, Reply, RefuseOff, Taken,
     Fault, Gate, CountPublish, PublishAllowed, CountTo, Request, publishers,
     requests, storage, vars, Up, Feed!Up
<1>4. LinesAreWatched'
  BY DEF IInv, TypeOK, LinesAreWatched, Feed!Up, Up, RefuseOff, Taken, Fault,
     Gate, CountPublish, PublishAllowed, CountTo, Reply, Request, publishers,
     requests, storage, vars
<1>5. Framed'
  BY DEF IInv, TypeOK, Framed, NoSilentGap, RefuseOff, Taken, Fault, Gate,
     CountPublish, PublishAllowed, CountTo, Reply, Request, publishers,
     requests, storage, vars, Up, Feed!Up
<1>6. Routed'
  BY DEF IInv, TypeOK, Routed, RefuseOff, Taken, Fault, Gate, CountPublish,
     PublishAllowed, CountTo, Reply, Request, publishers, requests, storage,
     vars, Up, Feed!Up
<1> QED
  BY <1>1, <1>2, <1>3, <1>4, <1>5, <1>6 DEF IInv

(* The rate limit refuses.                                                 *)
LEMMA RefuseRateInductive ==
    ASSUME NEW r \in Request, IInv, RefuseRate(r)
    PROVE  IInv'
<1> USE LimitAssumption, CallerAssumption
<1>1. TypeOK'
  <2>1. limit' \in LimitType
    <3>1. limit \in LimitType
      BY DEF IInv, TypeOK, LimitType
    <3> QED
      BY <3>1, PublishCountType DEF RefuseRate
  <2> QED
    BY <2>1 DEF IInv, TypeOK, RefuseRate, LimitType, Taken, Fault, publishers,
       requests, storage
<1>2. ServingOK'
  BY DEF IInv, TypeOK, ServingOK, RefuseRate, Taken, Fault, Gate, CountPublish,
     PublishAllowed, CountTo, Reply, Request, publishers, requests, storage,
     vars, Up, Feed!Up
<1>3. Answered'
  BY DEF IInv, TypeOK, Answered, AcceptedIsRecorded, Reply, RefuseRate, Taken,
     Fault, Gate, CountPublish, PublishAllowed, CountTo, Request, publishers,
     requests, storage, vars, Up, Feed!Up
<1>4. LinesAreWatched'
  BY DEF IInv, TypeOK, LinesAreWatched, Feed!Up, Up, RefuseRate, Taken, Fault,
     Gate, CountPublish, PublishAllowed, CountTo, Reply, Request, publishers,
     requests, storage, vars
<1>5. Framed'
  BY DEF IInv, TypeOK, Framed, NoSilentGap, RefuseRate, Taken, Fault, Gate,
     CountPublish, PublishAllowed, CountTo, Reply, Request, publishers,
     requests, storage, vars, Up, Feed!Up
<1>6. Routed'
  BY DEF IInv, TypeOK, Routed, RefuseRate, Taken, Fault, Gate, CountPublish,
     PublishAllowed, CountTo, Reply, Request, publishers, requests, storage,
     vars, Up, Feed!Up
<1> QED
  BY <1>1, <1>2, <1>3, <1>4, <1>5, <1>6 DEF IInv

(* A nonce is used once.                                                   *)
LEMMA RefuseReplayInductive ==
    ASSUME NEW r \in Request, IInv, RefuseReplay(r)
    PROVE  IInv'
<1> USE LimitAssumption, CallerAssumption
<1>1. TypeOK'
  <2>1. limit' \in LimitType
    <3>1. limit \in LimitType
      BY DEF IInv, TypeOK, LimitType
    <3> QED
      BY <3>1, PublishCountType DEF RefuseReplay
  <2>2. answer' \in [Event -> {"none", "ok", "reject"}]
    BY ReplyType DEF IInv, RefuseReplay
  <2> QED
    BY <2>1, <2>2 DEF IInv, TypeOK, RefuseReplay, LimitType, Taken, Fault, publishers,
       requests, storage
<1>2. ServingOK'
  BY DEF IInv, TypeOK, ServingOK, RefuseReplay, Taken, Fault, Gate,
     CountPublish, PublishAllowed, CountTo, Reply, Request, publishers,
     requests, storage, vars, Up, Feed!Up
<1>3. Answered'
  BY DEF IInv, TypeOK, Answered, AcceptedIsRecorded, Reply, RefuseReplay,
     Taken, Fault, Gate, CountPublish, PublishAllowed, CountTo, Request,
     publishers, requests, storage, vars, Up, Feed!Up
<1>4. LinesAreWatched'
  BY DEF IInv, TypeOK, LinesAreWatched, Feed!Up, Up, RefuseReplay, Taken,
     Fault, Gate, CountPublish, PublishAllowed, CountTo, Reply, Request,
     publishers, requests, storage, vars
<1>5. Framed'
  BY DEF IInv, TypeOK, Framed, NoSilentGap, RefuseReplay, Taken, Fault, Gate,
     CountPublish, PublishAllowed, CountTo, Reply, Request, publishers,
     requests, storage, vars, Up, Feed!Up
<1>6. Routed'
  BY DEF IInv, TypeOK, Routed, RefuseReplay, Taken, Fault, Gate, CountPublish,
     PublishAllowed, CountTo, Reply, Request, publishers, requests, storage,
     vars, Up, Feed!Up
<1> QED
  BY <1>1, <1>2, <1>3, <1>4, <1>5, <1>6 DEF IInv

(* A request is let in.                                                    *)
LEMMA AdmitInductive ==
    ASSUME NEW r \in Request, IInv, Admit(r)
    PROVE  IInv'
<1> USE LimitAssumption, CallerAssumption
<1>1. TypeOK'
  <2>1. limit' \in LimitType
    <3>1. limit \in LimitType
      BY DEF IInv, TypeOK, LimitType
    <3> QED
      BY <3>1, PublishCountType DEF Admit
  <2> QED
    BY <2>1 DEF IInv, TypeOK, Admit, LimitType, Taken, Fault, publishers,
       requests, storage
<1>2. ServingOK'
  BY DEF IInv, TypeOK, ServingOK, Admit, Taken, Fault, Gate, CountPublish,
     PublishAllowed, CountTo, Reply, Request, publishers, requests, storage,
     vars, Up, Feed!Up
<1>3. Answered'
  BY DEF IInv, TypeOK, Answered, AcceptedIsRecorded, Reply, Admit, Taken,
     Fault, Gate, CountPublish, PublishAllowed, CountTo, Request, publishers,
     requests, storage, vars, Up, Feed!Up
<1>4. LinesAreWatched'
  BY DEF IInv, TypeOK, LinesAreWatched, Feed!Up, Up, Admit, Taken, Fault, Gate,
     CountPublish, PublishAllowed, CountTo, Reply, Request, publishers,
     requests, storage, vars
<1>5. Framed'
  BY DEF IInv, TypeOK, Framed, NoSilentGap, Admit, Taken, Fault, Gate,
     CountPublish, PublishAllowed, CountTo, Reply, Request, publishers,
     requests, storage, vars, Up, Feed!Up
<1>6. Routed'
  BY DEF IInv, TypeOK, Routed, Admit, Taken, Fault, Gate, CountPublish,
     PublishAllowed, CountTo, Reply, Request, publishers, requests, storage,
     vars, Up, Feed!Up
<1> QED
  BY <1>1, <1>2, <1>3, <1>4, <1>5, <1>6 DEF IInv

(* Only what is recorded is accepted.                                      *)
LEMMA RepetitionInductive ==
    ASSUME NEW r \in Request, IInv, Repetition(r)
    PROVE  IInv'
<1> USE LimitAssumption, CallerAssumption
<1>1. TypeOK'
  BY DEF IInv, TypeOK, Repetition, Taken, Fault, Gate, CountPublish,
     PublishAllowed, CountTo, Reply, Request, publishers, requests, storage,
     vars, Up, Feed!Up
<1>2. ServingOK'
  BY DEF IInv, TypeOK, ServingOK, Repetition, Taken, Fault, Gate, CountPublish,
     PublishAllowed, CountTo, Reply, Request, publishers, requests, storage,
     vars, Up, Feed!Up
<1>3. Answered'
  BY DEF IInv, TypeOK, Answered, AcceptedIsRecorded, Reply, Repetition, Taken,
     Fault, Gate, CountPublish, PublishAllowed, CountTo, Request, publishers,
     requests, storage, vars, Up, Feed!Up
<1>4. LinesAreWatched'
  BY DEF IInv, TypeOK, LinesAreWatched, Feed!Up, Up, Repetition, Taken, Fault,
     Gate, CountPublish, PublishAllowed, CountTo, Reply, Request, publishers,
     requests, storage, vars
<1>5. Framed'
  BY DEF IInv, TypeOK, Framed, NoSilentGap, Repetition, Taken, Fault, Gate,
     CountPublish, PublishAllowed, CountTo, Reply, Request, publishers,
     requests, storage, vars, Up, Feed!Up
<1>6. Routed'
  BY DEF IInv, TypeOK, Routed, Repetition, Taken, Fault, Gate, CountPublish,
     PublishAllowed, CountTo, Reply, Request, publishers, requests, storage,
     vars, Up, Feed!Up
<1> QED
  BY <1>1, <1>2, <1>3, <1>4, <1>5, <1>6 DEF IInv

(* The event is recorded before it is sent.                                *)
LEMMA RecordInductive ==
    ASSUME NEW r \in Request, IInv, Record(r)
    PROVE  IInv'
<1> USE LimitAssumption, CallerAssumption
<1>1. TypeOK'
  <2>1. serving' \in [stage : Stage, on : SUBSET Request]
    BY DEF IInv, TypeOK, Stage, Record
  <2> QED
    BY <2>1 DEF IInv, TypeOK, Record, LimitType, Taken, Fault, publishers,
       requests, storage, Request
<1>2. ServingOK'
  BY DEF IInv, TypeOK, ServingOK, Record, Taken, Fault, Gate, CountPublish,
     PublishAllowed, CountTo, Reply, Request, Idle, publishers, requests,
     storage, vars, Up, Feed!Up
<1>3. Answered'
  BY DEF IInv, TypeOK, Answered, AcceptedIsRecorded, Reply, Record, Taken,
     Fault, Gate, CountPublish, PublishAllowed, CountTo, Request, Idle,
     publishers, requests, storage, vars, Up, Feed!Up
<1>4. LinesAreWatched'
  BY DEF IInv, TypeOK, LinesAreWatched, Feed!Up, Up, Record, Taken, Fault,
     Gate, CountPublish, PublishAllowed, CountTo, Reply, Request, Idle,
     publishers, requests, storage, vars
<1>5. Framed'
  BY DEF IInv, TypeOK, Framed, NoSilentGap, Record, Taken, Fault, Gate,
     CountPublish, PublishAllowed, CountTo, Reply, Request, Idle, publishers,
     requests, storage, vars, Up, Feed!Up
<1>6. Routed'
  BY DEF IInv, TypeOK, Routed, Record, Taken, Fault, Gate, CountPublish,
     PublishAllowed, CountTo, Reply, Request, Idle, publishers, requests,
     storage, vars, Up, Feed!Up
<1> QED
  BY <1>1, <1>2, <1>3, <1>4, <1>5, <1>6 DEF IInv

(* The event takes the next number.                                        *)
LEMMA NumberInductive ==
    ASSUME IInv, Number
    PROVE  IInv'
<1> USE LimitAssumption, CallerAssumption
<1>1. TypeOK'
  <2>1. serving' \in [stage : Stage, on : SUBSET Request]
    BY DEF IInv, TypeOK, Stage, Number
  <2>2. seq' \in Nat
    BY DEF IInv, TypeOK, Number
  <2>3. UNCHANGED <<pub, tries, answer, sent, body, nonces, ledger, limit, roomId,
                    alarm, line, waiting, enabled, faults>>
    BY DEF Number, publishers
  <2> QED
    BY <2>1, <2>2, <2>3 DEF IInv, TypeOK
<1>2. ServingOK'
  BY DEF IInv, TypeOK, ServingOK, Number, Request, publishers, requests,
     storage, vars, Up, Feed!Up
<1>3. Answered'
  BY DEF IInv, TypeOK, Answered, AcceptedIsRecorded, Reply, Number, Request,
     publishers, requests, storage, vars, Up, Feed!Up
<1>4. LinesAreWatched'
  BY DEF IInv, TypeOK, LinesAreWatched, Feed!Up, Up, Number, Request,
     publishers, requests, storage, vars
<1>5. Framed'
  <2>1. serving.stage = "recorded" /\ serving'.stage = "numbered" /\ line' = line
        /\ seq' - 1 = seq
    BY DEF Number, IInv, TypeOK
  <2> QED
    BY <2>1 DEF IInv, Framed, NoSilentGap, Up, Feed!Up
<1>6. Routed'
  BY DEF IInv, TypeOK, Routed, Number, Request, publishers, requests, storage,
     vars, Up, Feed!Up
<1> QED
  BY <1>1, <1>2, <1>3, <1>4, <1>5, <1>6 DEF IInv



(* The number reaches every line that stays up.                            *)
LEMMA SendInductive ==
    ASSUME NEW reached \in SUBSET Line, IInv, Send(reached)
    PROVE  IInv'
<1> USE LimitAssumption, CallerAssumption
<1>1. TypeOK'
  <2>1. PICK r \in Request : serving.on = {r} /\ r[1] \in ledger
    BY DEF IInv, ServingOK, Send
  <2>2. r[1] \in Event /\ seq \in Nat
    BY DEF Request, IInv, TypeOK
  <2>3. line' \in [Line -> LineType]
    BY <2>1, <2>2, LineTypes DEF Send, IInv
  <2>4. answer' \in [Event -> {"none", "ok", "reject"}]
    BY <2>1, ReplyType DEF Send, IInv
  <2> QED
    BY <2>3, <2>4 DEF IInv, TypeOK, Send, Idle, Stage, storage, LineType
<1>2. ServingOK'
  BY DEF IInv, TypeOK, ServingOK, Send, Taken, Fault, Gate, CountPublish,
     PublishAllowed, CountTo, Reply, Request, Idle, Feed!Pushed, Feed!Closed,
     Feed!Sent, publishers, requests, storage, vars, Up, Feed!Up
<1>3. Answered'
  <2>1. PICK r \in Request : serving.on = {r} /\ r[1] \in ledger
    BY DEF IInv, ServingOK, Send
  <2>2. Reply(r, "ok") /\ ledger' = ledger /\ pub' = pub
    BY <2>1 DEF Send, storage
  <2> QED
    BY <2>1, <2>2, ReplyType DEF IInv, Answered, AcceptedIsRecorded
<1>4. LinesAreWatched'
  BY DEF IInv, TypeOK, LinesAreWatched, Feed!Up, Up, Send, Taken, Fault, Gate,
     CountPublish, PublishAllowed, CountTo, Reply, Request, Idle, Feed!Pushed,
     Feed!Closed, Feed!Sent, publishers, requests, storage, vars
<1>5. Framed'
  <2>1. PICK r \in Request : serving.on = {r} /\ r[1] \in ledger
    BY DEF IInv, ServingOK, Send
  <2>2. /\ line' = Feed!Pushed(seq, r[1], reached) /\ seq \in Nat /\ seq > 0
        /\ seq' = seq /\ serving'.stage = "idle" /\ serving.stage = "numbered"
    BY <2>1 DEF IInv, TypeOK, ServingOK, Send, storage, Idle
  <2> SUFFICES ASSUME NEW c \in Up'
               PROVE  /\ line'[c].frames # <<>>
                      /\ \A i \in 1..Len(line'[c].frames) :
                           line'[c].frames[i].n = line'[c].frames[1].n + i - 1
                      /\ line'[c].frames[Len(line'[c].frames)].n = seq
    BY <2>2 DEF Framed, NoSilentGap, Up, Feed!Up
  <2>3. c \in Up /\ c \in reached /\ c \in Line
        /\ line'[c] = Feed!Sent(line[c], Feed!FrameOf("gacha", seq, {r[1]}))
    BY <2>2 DEF Up, Feed!Up, Feed!Pushed, Feed!Closed, IInv, TypeOK
  <2> DEFINE f == line[c].frames
             h == Feed!FrameOf("gacha", seq, {r[1]})
  <2>4. f \in Seq(Feed!Frame) /\ h \in Feed!Frame /\ h.n = seq
    <3>1. r[1] \in Event
      BY DEF Request
    <3> QED
      BY <2>2, <2>3, <3>1, FrameTypes DEF IInv, TypeOK, Feed!FrameOf
  <2>5. /\ f # <<>> /\ \A i \in 1..Len(f) : f[i].n = f[1].n + i - 1
        /\ f[Len(f)].n = seq - 1
    BY <2>2, <2>3 DEF IInv, Framed, NoSilentGap
  <2>6. line'[c].frames = Append(f, h)
    BY <2>3 DEF Feed!Sent
  <2>7. Len(f) \in Nat \ {0} /\ f[1] \in Feed!Frame /\ f[1].n \in Nat
    <3> HIDE DEF f
    <3>1. Len(f) \in Nat \ {0} /\ f[1] \in Feed!Frame
      BY <2>4, <2>5
    <3> QED
      BY <3>1 DEF Feed!Frame
  <2>8. f[1].n + Len(f) - 1 = seq - 1
    BY <2>5, <2>7
  <2> HIDE DEF f, h
  <2>9. \A i \in 1..Len(f) + 1 : Append(f, h)[i].n = Append(f, h)[1].n + i - 1
    <3> SUFFICES ASSUME NEW i \in 1..Len(f) + 1
                 PROVE  Append(f, h)[i].n = Append(f, h)[1].n + i - 1
      OBVIOUS
    <3>1. Append(f, h)[1] = f[1]
      BY <2>4, <2>7
    <3>2. CASE i \in 1..Len(f)
      <4>1. Append(f, h)[i] = f[i]
        BY <2>4, <3>2
      <4> QED
        BY <2>5, <3>1, <3>2, <4>1
    <3>3. CASE i = Len(f) + 1
      <4>1. Append(f, h)[i] = h
        BY <2>4, <2>7, <3>3
      <4> QED
        BY <2>2, <2>4, <2>7, <2>8, <3>1, <3>3, <4>1
    <3> QED
      BY <2>7, <3>2, <3>3
  <2>10. Append(f, h) # <<>> /\ Len(Append(f, h)) = Len(f) + 1
         /\ Append(f, h)[Len(f) + 1] = h
    BY <2>4, <2>7
  <2> QED
    BY <2>4, <2>6, <2>9, <2>10
<1>6. Routed'
  <2>1. \A c \in Line : line'[c].up => line[c].up
    BY DEF Send, Feed!Pushed, Feed!Sent, Feed!Closed, IInv, TypeOK
  <2> QED
    BY <2>1 DEF IInv, TypeOK, Routed, Send
<1> QED
  BY <1>1, <1>2, <1>3, <1>4, <1>5, <1>6 DEF IInv

(* A connect passes the router.                                            *)
LEMMA RouteInductive ==
    ASSUME NEW c \in Line, IInv, Route(c)
    PROVE  IInv'
<1> USE LimitAssumption, CallerAssumption
<1>1. TypeOK'
  BY DEF IInv, TypeOK, Route, publishers, requests, storage, vars, Up, Feed!Up
<1>2. ServingOK'
  BY DEF IInv, TypeOK, ServingOK, Route, publishers, requests, storage, vars,
     Up, Feed!Up
<1>3. Answered'
  BY DEF IInv, TypeOK, Answered, AcceptedIsRecorded, Reply, Route, publishers,
     requests, storage, vars, Up, Feed!Up
<1>4. LinesAreWatched'
  BY DEF IInv, TypeOK, LinesAreWatched, Feed!Up, Up, Route, publishers,
     requests, storage, vars
<1>5. Framed'
  BY DEF IInv, TypeOK, Framed, NoSilentGap, Route, publishers, requests,
     storage, vars, Up, Feed!Up
<1>6. Routed'
  BY DEF IInv, TypeOK, Routed, Route, publishers, requests, storage, vars, Up,
     Feed!Up
<1> QED
  BY <1>1, <1>2, <1>3, <1>4, <1>5, <1>6 DEF IInv

(* The room refuses a connection.                                          *)
LEMMA RefuseConnectInductive ==
    ASSUME NEW c \in Line, IInv, RefuseConnect(c)
    PROVE  IInv'
<1> USE LimitAssumption, CallerAssumption
<1>1. TypeOK'
  <2>1. limit' \in LimitType
    <3>1. limit \in LimitType
      BY DEF IInv, TypeOK, LimitType
    <3> QED
      BY <3>1, ConnectCountType DEF RefuseConnect
  <2> QED
    BY <2>1 DEF IInv, TypeOK, RefuseConnect, LimitType, Taken, Fault, publishers,
       requests, storage
<1>2. ServingOK'
  BY DEF IInv, TypeOK, ServingOK, RefuseConnect, CountConnect, ConnectAllowed,
     CountTo, Gate, publishers, requests, storage, vars, Up, Feed!Up
<1>3. Answered'
  BY DEF IInv, TypeOK, Answered, AcceptedIsRecorded, Reply, RefuseConnect,
     CountConnect, ConnectAllowed, CountTo, Gate, publishers, requests,
     storage, vars, Up, Feed!Up
<1>4. LinesAreWatched'
  BY DEF IInv, TypeOK, LinesAreWatched, Feed!Up, Up, RefuseConnect,
     CountConnect, ConnectAllowed, CountTo, Gate, publishers, requests,
     storage, vars
<1>5. Framed'
  BY DEF IInv, TypeOK, Framed, NoSilentGap, RefuseConnect, CountConnect,
     ConnectAllowed, CountTo, Gate, publishers, requests, storage, vars, Up,
     Feed!Up
<1>6. Routed'
  BY DEF IInv, TypeOK, Routed, RefuseConnect, CountConnect, ConnectAllowed,
     CountTo, Gate, publishers, requests, storage, vars, Up, Feed!Up
<1> QED
  BY <1>1, <1>2, <1>3, <1>4, <1>5, <1>6 DEF IInv

(* A line opens with a welcome, watched by the alarm.                      *)
LEMMA ConnectInductive ==
    ASSUME NEW c \in Line, IInv, Connect(c)
    PROVE  IInv'
<1> USE LimitAssumption, CallerAssumption
<1>1. TypeOK'
  <2>1. line' \in [Line -> LineType]
    <3>1. seq \in Nat
      BY DEF IInv, TypeOK
    <3>2. serving.stage = "idle"
      BY DEF Connect, Gate, Idle
    <3>3. Feed!FrameOf("welcome", seq, {}) \in Feed!Frame
      BY <3>1, FrameTypes
    <3>4. line' = [line EXCEPT ![c] = [up |-> TRUE,
                     frames |-> <<Feed!FrameOf("welcome", seq, {})>>]]
      BY <3>2 DEF Connect, Feed!Welcomed
    <3> QED
      BY <3>3, <3>4 DEF IInv, TypeOK, LineType
  <2>2. limit' \in LimitType
    <3>1. limit \in LimitType
      BY DEF IInv, TypeOK, LimitType
    <3> QED
      BY <3>1, ConnectCountType DEF Connect
  <2> QED
    BY <2>1, <2>2 DEF IInv, TypeOK, Connect, publishers, requests, LineType,
       LimitType
<1>2. ServingOK'
  BY DEF IInv, TypeOK, ServingOK, Connect, CountConnect, ConnectAllowed,
     CountTo, Gate, Feed!Welcomed, publishers, requests, storage, vars, Up,
     Feed!Up
<1>3. Answered'
  BY DEF IInv, TypeOK, Answered, AcceptedIsRecorded, Reply, Connect,
     CountConnect, ConnectAllowed, CountTo, Gate, Feed!Welcomed, publishers,
     requests, storage, vars, Up, Feed!Up
<1>4. LinesAreWatched'
  BY DEF IInv, TypeOK, LinesAreWatched, Feed!Up, Up, Connect, CountConnect,
     ConnectAllowed, CountTo, Gate, Feed!Welcomed, publishers, requests,
     storage, vars
<1>5. Framed'
  <2>1. serving.stage = "idle" /\ serving' = serving /\ seq' = seq /\ seq \in Nat
    BY DEF Connect, Gate, Idle, requests, IInv, TypeOK
  <2>2. line' = [line EXCEPT ![c] = [up |-> TRUE,
                   frames |-> <<Feed!FrameOf("welcome", seq, {})>>]]
    BY <2>1 DEF Connect, Feed!Welcomed
  <2>3. \A d \in Line : d # c => line'[d] = line[d]
    BY <2>2 DEF IInv, TypeOK
  <2>4. line'[c].frames = <<Feed!FrameOf("welcome", seq, {})>>
    BY <2>2 DEF IInv, TypeOK
  <2>5. Feed!FrameOf("welcome", seq, {}).n = seq
    BY DEF Feed!FrameOf
  <2> DEFINE w == <<Feed!FrameOf("welcome", seq, {})>>
  <2>6. w # <<>> /\ Len(w) = 1 /\ w[1].n = seq
    BY <2>5
  <2> HIDE DEF w
  <2>7. \A d \in Up' : d # c => d \in Up
    BY <2>3 DEF Up, Feed!Up
  <2>8. c \in Line /\ Up' \subseteq Line
    BY DEF Up, Feed!Up
  <2>9. /\ line'[c].frames # <<>>
        /\ \A i \in 1..Len(line'[c].frames) :
             line'[c].frames[i].n = line'[c].frames[1].n + i - 1
        /\ line'[c].frames[Len(line'[c].frames)].n = seq
    BY <2>1, <2>4, <2>6 DEF w
  <2>10. \A d \in Up' : d # c =>
           /\ line'[d].frames # <<>>
           /\ \A i \in 1..Len(line'[d].frames) :
                line'[d].frames[i].n = line'[d].frames[1].n + i - 1
           /\ line'[d].frames[Len(line'[d].frames)].n = seq
    BY <2>1, <2>3, <2>7, <2>8 DEF IInv, Framed, NoSilentGap
  <2> QED
    BY <2>1, <2>9, <2>10 DEF Framed, NoSilentGap
<1>6. Routed'
  <2>1. \A d \in Line : d # c => line'[d] = line[d]
    BY DEF Connect, Feed!Welcomed, IInv, TypeOK
  <2>2. waiting' = waiting \ {c} /\ waiting \subseteq Line
    BY DEF Connect, IInv, TypeOK
  <2> QED
    BY <2>1, <2>2 DEF IInv, Routed
<1> QED
  BY <1>1, <1>2, <1>3, <1>4, <1>5, <1>6 DEF IInv

(* A line closes.                                                          *)
LEMMA LeaveInductive ==
    ASSUME NEW c \in Line, IInv, Leave(c)
    PROVE  IInv'
<1> USE LimitAssumption, CallerAssumption
<1>1. TypeOK'
  <2>1. line' \in [Line -> LineType]
    BY CloseAllType DEF IInv, Leave
  <2> QED
    BY <2>1 DEF IInv, TypeOK, Leave, LineType, publishers, requests, storage
<1>2. ServingOK'
  BY DEF IInv, TypeOK, ServingOK, Leave, publishers, requests, storage, vars,
     Up, Feed!Up
<1>3. Answered'
  BY DEF IInv, TypeOK, Answered, AcceptedIsRecorded, Reply, Leave, publishers,
     requests, storage, vars, Up, Feed!Up
<1>4. LinesAreWatched'
  <2>1. \A d \in Line : line'[d] = line[d] \/ ~line'[d].up
    BY ClosedLines DEF IInv, Leave
  <2> QED
    BY <2>1 DEF IInv, LinesAreWatched, Up, Feed!Up, Leave, storage
<1>5. Framed'
  <2>1. \A d \in Line : line'[d] = line[d] \/ ~line'[d].up
    BY ClosedLines DEF IInv, Leave
  <2>2. serving' = serving /\ seq' = seq
    BY DEF Leave, requests, storage
  <2> QED
    BY <2>1, <2>2 DEF IInv, Framed, NoSilentGap, Up, Feed!Up
<1>6. Routed'
  <2>1. \A d \in Line : line'[d] = line[d] \/ ~line'[d].up
    BY ClosedLines DEF IInv, Leave
  <2> QED
    BY <2>1 DEF IInv, TypeOK, Routed, Leave
<1> QED
  BY <1>1, <1>2, <1>3, <1>4, <1>5, <1>6 DEF IInv

(* The room stops: no line is up.                                          *)
LEMMA StopInductive ==
    ASSUME IInv, Stop
    PROVE  IInv'
<1> USE LimitAssumption, CallerAssumption
<1>1. TypeOK'
  <2>1. line' \in [Line -> LineType]
    BY CloseAllType DEF IInv, Stop
  <2>2. serving' \in [stage : Stage, on : SUBSET Request]
    BY DEF Stop, Idle, Stage
  <2>3. waiting' \subseteq Line /\ roomId' \in BOOLEAN
    BY DEF Stop, IInv, TypeOK
  <2>4. faults' \in Nat /\ body' = {}
    BY DEF Stop, Fault, IInv, TypeOK
  <2>5. UNCHANGED <<pub, tries, answer, sent, nonces, ledger, seq, limit, alarm,
                    enabled>>
    BY DEF Stop, publishers
  <2> QED
    BY <2>1, <2>2, <2>3, <2>4, <2>5 DEF IInv, TypeOK, LineType
<1>2. ServingOK'
  BY DEF IInv, TypeOK, ServingOK, Stop, Fault, Gate, Idle, Stage, publishers,
     requests, storage, vars, Up, Feed!Up
<1>3. Answered'
  BY DEF IInv, TypeOK, Answered, AcceptedIsRecorded, Reply, Stop, Fault, Gate,
     Idle, Stage, publishers, requests, storage, vars, Up, Feed!Up
<1>4. LinesAreWatched'
  <2>1. \A c \in Line : ~line'[c].up
    BY DEF Stop, Feed!CloseAll, Feed!Closed, IInv, TypeOK
  <2> QED
    BY <2>1 DEF LinesAreWatched, Up, Feed!Up
<1>5. Framed'
  <2>1. \A c \in Line : ~line'[c].up
    BY DEF Stop, Feed!CloseAll, Feed!Closed, IInv, TypeOK
  <2> QED
    BY <2>1 DEF Framed, NoSilentGap, Up, Feed!Up
<1>6. Routed'
  <2>1. \A c \in Line : ~line'[c].up
    BY DEF Stop, Feed!CloseAll, Feed!Closed, IInv, TypeOK
  <2> QED
    BY <2>1 DEF Routed, Stop, IInv, TypeOK
<1> QED
  BY <1>1, <1>2, <1>3, <1>4, <1>5, <1>6 DEF IInv

(* The alarm of an empty room.                                             *)
LEMMA AlarmIdleInductive ==
    ASSUME IInv, AlarmIdle
    PROVE  IInv'
<1> USE LimitAssumption, CallerAssumption
<1>1. TypeOK'
  BY DEF IInv, TypeOK, AlarmIdle, publishers, requests, storage, vars, Up,
     Feed!Up
<1>2. ServingOK'
  BY DEF IInv, TypeOK, ServingOK, AlarmIdle, publishers, requests, storage,
     vars, Up, Feed!Up
<1>3. Answered'
  BY DEF IInv, TypeOK, Answered, AcceptedIsRecorded, Reply, AlarmIdle,
     publishers, requests, storage, vars, Up, Feed!Up
<1>4. LinesAreWatched'
  BY DEF IInv, TypeOK, LinesAreWatched, Feed!Up, Up, AlarmIdle, publishers,
     requests, storage, vars
<1>5. Framed'
  BY DEF IInv, TypeOK, Framed, NoSilentGap, AlarmIdle, publishers, requests,
     storage, vars, Up, Feed!Up
<1>6. Routed'
  BY DEF IInv, TypeOK, Routed, AlarmIdle, publishers, requests, storage, vars,
     Up, Feed!Up
<1> QED
  BY <1>1, <1>2, <1>3, <1>4, <1>5, <1>6 DEF IInv

(* The switch: no line is up.                                              *)
LEMMA AlarmOffInductive ==
    ASSUME IInv, AlarmOff
    PROVE  IInv'
<1> USE LimitAssumption, CallerAssumption
<1>1. TypeOK'
  <2>1. line' \in [Line -> LineType]
    BY CloseAllType DEF IInv, AlarmOff
  <2> QED
    BY <2>1 DEF IInv, TypeOK, AlarmOff, LineType, publishers, requests, storage
<1>2. ServingOK'
  BY DEF IInv, TypeOK, ServingOK, AlarmOff, publishers, requests, storage,
     vars, Up, Feed!Up
<1>3. Answered'
  BY DEF IInv, TypeOK, Answered, AcceptedIsRecorded, Reply, AlarmOff,
     publishers, requests, storage, vars, Up, Feed!Up
<1>4. LinesAreWatched'
  <2>1. \A c \in Line : ~line'[c].up
    BY DEF AlarmOff, Feed!Noticed, Feed!Closed, IInv, TypeOK
  <2> QED
    BY <2>1 DEF LinesAreWatched, Up, Feed!Up
<1>5. Framed'
  <2>1. \A c \in Line : ~line'[c].up
    BY DEF AlarmOff, Feed!Noticed, Feed!Closed, IInv, TypeOK
  <2> QED
    BY <2>1 DEF Framed, NoSilentGap, Up, Feed!Up
<1>6. Routed'
  <2>1. \A c \in Line : ~line'[c].up
    BY DEF AlarmOff, Feed!Noticed, Feed!Closed, IInv, TypeOK
  <2> QED
    BY <2>1 DEF Routed, AlarmOff, IInv, TypeOK
<1> QED
  BY <1>1, <1>2, <1>3, <1>4, <1>5, <1>6 DEF IInv

(* The operator's switch changes nothing yet.                              *)
LEMMA SwitchInductive ==
    ASSUME IInv, Switch
    PROVE  IInv'
<1> USE LimitAssumption, CallerAssumption
<1>1. TypeOK'
  BY DEF IInv, TypeOK, Switch, Fault, publishers, requests, storage, vars, Up,
     Feed!Up
<1>2. ServingOK'
  BY DEF IInv, TypeOK, ServingOK, Switch, Fault, publishers, requests, storage,
     vars, Up, Feed!Up
<1>3. Answered'
  BY DEF IInv, TypeOK, Answered, AcceptedIsRecorded, Reply, Switch, Fault,
     publishers, requests, storage, vars, Up, Feed!Up
<1>4. LinesAreWatched'
  BY DEF IInv, TypeOK, LinesAreWatched, Feed!Up, Up, Switch, Fault, publishers,
     requests, storage, vars
<1>5. Framed'
  BY DEF IInv, TypeOK, Framed, NoSilentGap, Switch, Fault, publishers,
     requests, storage, vars, Up, Feed!Up
<1>6. Routed'
  BY DEF IInv, TypeOK, Routed, Switch, Fault, publishers, requests, storage,
     vars, Up, Feed!Up
<1> QED
  BY <1>1, <1>2, <1>3, <1>4, <1>5, <1>6 DEF IInv

(* The limits start anew.                                                  *)
LEMMA NextMinuteInductive ==
    ASSUME IInv, NextMinute
    PROVE  IInv'
<1> USE LimitAssumption, CallerAssumption
<1>1. TypeOK'
  BY DEF IInv, TypeOK, NextMinute, NoLimit, publishers, requests, storage,
     vars, Up, Feed!Up
<1>2. ServingOK'
  BY DEF IInv, TypeOK, ServingOK, NextMinute, NoLimit, publishers, requests,
     storage, vars, Up, Feed!Up
<1>3. Answered'
  BY DEF IInv, TypeOK, Answered, AcceptedIsRecorded, Reply, NextMinute,
     NoLimit, publishers, requests, storage, vars, Up, Feed!Up
<1>4. LinesAreWatched'
  BY DEF IInv, TypeOK, LinesAreWatched, Feed!Up, Up, NextMinute, NoLimit,
     publishers, requests, storage, vars
<1>5. Framed'
  BY DEF IInv, TypeOK, Framed, NoSilentGap, NextMinute, NoLimit, publishers,
     requests, storage, vars, Up, Feed!Up
<1>6. Routed'
  BY DEF IInv, TypeOK, Routed, NextMinute, NoLimit, publishers, requests,
     storage, vars, Up, Feed!Up
<1> QED
  BY <1>1, <1>2, <1>3, <1>4, <1>5, <1>6 DEF IInv

LEMMA Initially == Init => IInv
<1> SUFFICES ASSUME Init PROVE IInv
  OBVIOUS
<1>1. TypeOK
  <2>1. limit \in [publishes : Nat, connects : Nat, by : [Client -> Nat]]
    BY DEF Init, NoLimit
  <2>2. line \in [Line -> LineType]
    BY DEF Init, Feed!Down, LineType
  <2>3. serving \in [stage : Stage, on : SUBSET Request]
    BY DEF Init, Idle, Stage
  <2>4. tries \in [Event -> 0..MaxAttempts]
    BY LimitAssumption DEF Init
  <2>5. /\ pub \in [Event -> {"idle", "waiting", "accepted", "failed",
                               "skipped"}]
        /\ answer \in [Event -> {"none", "ok", "reject"}]
    BY DEF Init
  <2> QED
    BY <2>1, <2>2, <2>3, <2>4, <2>5 DEF Init, TypeOK, LimitType, LineType
<1>2. ServingOK /\ Answered /\ LinesAreWatched /\ Framed /\ Routed
  BY DEF Init, ServingOK, Answered, AcceptedIsRecorded, Routed, LinesAreWatched, Framed,
     NoSilentGap, Up, Feed!Up, Feed!Down, Idle
<1> QED
  BY <1>1, <1>2 DEF IInv

LEMMA Inductive == IInv /\ [Next]_vars => IInv'
<1> SUFFICES ASSUME IInv, [Next]_vars PROVE IInv'
  OBVIOUS
<1>1. ASSUME NEW e \in Event,
             Publish(e) \/ Skip(e) \/ TryAgain(e) \/ Fail(e) \/ Accepted(e)
      PROVE  IInv'
  BY <1>1, PublishInductive, SkipInductive, TryAgainInductive, FailInductive,
     AcceptedInductive
<1>2. ASSUME NEW r \in Request,
             \/ RefuseOff(r) \/ RefuseRate(r) \/ RefuseReplay(r)
             \/ Admit(r) \/ Repetition(r) \/ Record(r)
      PROVE  IInv'
  BY <1>2, RefuseOffInductive, RefuseRateInductive, RefuseReplayInductive,
     AdmitInductive, RepetitionInductive, RecordInductive
<1>3. ASSUME NEW reached \in SUBSET Line, Send(reached) PROVE IInv'
  BY <1>3, SendInductive
<1>4. ASSUME NEW c \in Line, Route(c) \/ RefuseConnect(c) \/ Connect(c) \/ Leave(c)
      PROVE  IInv'
  BY <1>4, RouteInductive, RefuseConnectInductive, ConnectInductive, LeaveInductive
<1>5. CASE Number \/ Stop \/ AlarmIdle \/ AlarmOff \/ Switch \/ NextMinute
  BY <1>5, NumberInductive, StopInductive, AlarmIdleInductive, AlarmOffInductive,
     SwitchInductive, NextMinuteInductive
<1>6. CASE UNCHANGED vars
  BY <1>6 DEF vars, publishers, requests, storage, IInv, TypeOK, ServingOK,
     Answered, AcceptedIsRecorded, LinesAreWatched, Framed, NoSilentGap, Routed,
     Up, Feed!Up
<1> QED
  BY <1>1, <1>2, <1>3, <1>4, <1>5, <1>6 DEF Next

(* The inductive invariant of the room.                                    *)
THEOREM Invariance == Spec => []IInv
BY Initially, Inductive, PTL DEF Spec

(* Types: requests, ledgers, limits and lines stay in their sets.          *)
THEOREM TypesHold == Spec => []TypeOK
<1>1. IInv => TypeOK
  BY DEF IInv
<1> QED
  BY <1>1, Invariance, PTL

(* A line that is up has carried every number since its welcome.           *)
THEOREM NoSilentGapHolds == Spec => []NoSilentGap
<1>1. IInv => NoSilentGap
  BY DEF IInv, Framed
<1> QED
  BY <1>1, Invariance, PTL

(* While a line is up the alarm is pending and the room knows its streamer.*)
THEOREM LinesAreWatchedHolds == Spec => []LinesAreWatched
<1>1. IInv => LinesAreWatched
  BY DEF IInv
<1> QED
  BY <1>1, Invariance, PTL

(* What a publisher was told is accepted is in the ledger.                 *)
THEOREM AcceptedIsRecordedHolds == Spec => []AcceptedIsRecorded
<1>1. IInv => AcceptedIsRecorded
  BY DEF IInv, Answered
<1> QED
  BY <1>1, Invariance, PTL

(* A step of the room that touches none of these is no step of its feed.   *)
LEMMA Stutters ==
    ASSUME UNCHANGED <<ledger, seq, line, serving>>
    PROVE  UNCHANGED Feed!feed
BY DEF Feed!feed, Serving

LEMMA FeedStep == IInv /\ [Next]_vars => [Feed!FeedNext]_(Feed!feed)
<1> SUFFICES ASSUME IInv, [Next]_vars
             PROVE  Feed!FeedNext \/ UNCHANGED Feed!feed
  BY DEF Feed!feed
<1>1. ASSUME NEW e \in Event,
             Publish(e) \/ Skip(e) \/ TryAgain(e) \/ Fail(e) \/ Accepted(e)
      PROVE  UNCHANGED Feed!feed
  BY <1>1, Stutters DEF Publish, Skip, TryAgain, Fail, Accepted, storage
<1>2. ASSUME NEW r \in Request,
             \/ RefuseOff(r) \/ RefuseRate(r) \/ RefuseReplay(r)
             \/ Admit(r) \/ Repetition(r)
      PROVE  UNCHANGED Feed!feed
  BY <1>2, Stutters DEF RefuseOff, RefuseRate, RefuseReplay, Admit, Repetition,
     storage
<1>3. ASSUME NEW r \in Request, Record(r) PROVE UNCHANGED Feed!feed
  <2>1. Serving = {} /\ Serving' = {r[1]}
    BY <1>3 DEF Record, Gate, Idle, Serving
  <2>2. ledger' \ Serving' = ledger \ Serving
    BY <1>3, <2>1 DEF Record
  <2>3. serving.stage = "idle" /\ serving'.stage = "recorded"
    BY <1>3 DEF Record, Gate, Idle
  <2> QED
    BY <1>3, <2>2, <2>3 DEF Feed!feed, Record
<1>4. CASE Number
  <2>1. Serving' = Serving /\ ledger' = ledger /\ line' = line
    BY <1>4 DEF Number, Serving, IInv, TypeOK
  <2>2. seq' - 1 = seq /\ serving.stage = "recorded" /\ serving'.stage = "numbered"
    BY <1>4 DEF Number, IInv, TypeOK
  <2> QED
    BY <2>1, <2>2 DEF Feed!feed
<1>5. ASSUME NEW reached \in SUBSET Line, Send(reached) PROVE Feed!FeedNext
  <2>1. PICK r \in Request : serving.on = {r} /\ r[1] \in ledger
    BY <1>5 DEF IInv, ServingOK, Send
  <2>2. /\ Serving = {r[1]} /\ Serving' = {} /\ r[1] \in Event
        /\ serving.stage = "numbered" /\ serving'.stage = "idle"
        /\ ledger' = ledger /\ seq' = seq /\ seq \in Nat
    BY <1>5, <2>1 DEF Send, Idle, Serving, Request, storage, IInv, TypeOK
  <2>3. line' = Feed!Pushed(seq, r[1], reached) /\ (seq - 1) + 1 = seq
    BY <1>5, <2>1, <2>2 DEF Send
  <2>4. Feed!FanOut(r[1], reached)
    BY <2>1, <2>2, <2>3 DEF Feed!FanOut
  <2> QED
    BY <2>2, <2>4 DEF Feed!FeedNext
<1>6. ASSUME NEW c \in Line, Route(c) \/ RefuseConnect(c)
      PROVE  UNCHANGED Feed!feed
  BY <1>6, Stutters DEF Route, RefuseConnect, requests, storage
<1>7. ASSUME NEW c \in Line, Connect(c) PROVE Feed!FeedNext \/ UNCHANGED Feed!feed
  <2>1. /\ serving.stage = "idle" /\ serving' = serving /\ ledger' = ledger
        /\ seq' = seq /\ Serving' = Serving /\ line' = Feed!Welcomed(c)
    BY <1>7 DEF Connect, Gate, Idle, requests, Serving
  <2>2. ~line[c].up
    BY <1>7 DEF Connect, IInv, Routed
  <2>3. Feed!Open(c)
    BY <2>1, <2>2 DEF Feed!Open
  <2> QED
    BY <2>3 DEF Feed!FeedNext
<1>8. ASSUME NEW c \in Line, Leave(c) PROVE Feed!FeedNext
  <2>1. Feed!Hangup({c})
    BY <1>8 DEF Leave, Feed!Hangup, requests, storage, Serving
  <2> QED
    BY <2>1 DEF Feed!FeedNext
<1>9. CASE Stop
  <2>1. /\ Serving \subseteq Event /\ Serving \subseteq ledger
        /\ ledger \subseteq Event /\ seq \in Nat
    BY DEF Serving, IInv, ServingOK, TypeOK, Request
  <2>2. /\ ledger' = ledger /\ seq' = seq /\ Serving' = {}
        /\ serving'.stage = "idle" /\ line' = Feed!CloseAll(Line)
    BY <1>9 DEF Stop, Idle, Serving
  <2>3. Feed!Stop(seq, Serving)
    BY <2>1, <2>2 DEF Feed!Stop
  <2>4. CASE serving.stage = "numbered"
    BY <2>1, <2>3, <2>4 DEF Feed!FeedNext
  <2>5. CASE serving.stage # "numbered"
    BY <2>1, <2>3, <2>5 DEF Feed!FeedNext
  <2> QED
    BY <2>4, <2>5
<1>10. CASE AlarmIdle \/ Switch \/ NextMinute
  BY <1>10, Stutters DEF AlarmIdle, Switch, NextMinute, requests, storage
<1>11. CASE AlarmOff
  <2>1. Feed!Disable
    BY <1>11 DEF AlarmOff, Feed!Disable, requests, Serving
  <2> QED
    BY <2>1 DEF Feed!FeedNext
<1>12. CASE UNCHANGED vars
  BY <1>12, Stutters DEF vars, requests, storage
<1> QED
  BY <1>1, <1>2, <1>3, <1>4, <1>5, <1>6, <1>7, <1>8, <1>9, <1>10, <1>11, <1>12
  DEF Next

(* The room keeps the promise of RoomFeed: no event goes out twice.        *)
THEOREM FeedPromiseHolds == Spec => FeedPromise
<1>1. Init => Feed!FeedInit
  BY DEF Init, Feed!FeedInit, Idle, Serving
<1> QED
  BY <1>1, FeedStep, Invariance, PTL DEF Spec, FeedPromise, Feed!FeedSpec

(*---------------------------------------------------------------------------*)
(* The page of an overlay, for any draws, rooms, endpoints and faults.       *)

\* Rows are numbered from one; a page of the history has room for one.
RowsNumbered == Event \subseteq Nat \ {0} /\ PageRows \in Nat \ {0}

\* A closure: a record with these fields.
IsCl(c) ==
    c \in [timers : {c.timers}, poll : {"idle", "asked", "read"}, page : {c.page},
           trailing : BOOLEAN, cursor : {c.cursor}, buffer : {c.buffer},
           seen : {c.seen}, unrec : {c.unrec}, volume : {c.volume}, ws : {c.ws},
           lastSeq : {c.lastSeq}, cfg : {c.cfg}, fetch : {c.fetch},
           refused : {c.refused}, failures : {c.failures}]

\* c becomes d: the poll goes on as it was, and nothing it is to do is forgotten.
Onward(c, d) ==
    /\ IsCl(d) /\ d.poll = c.poll /\ d.page = c.page /\ d.cursor = c.cursor
    /\ c.trailing => d.trailing
    /\ "poll" \in c.timers => "poll" \in d.timers
Keeps(c, d) == Onward(c, d) /\ d.seen = c.seen
Sees(c, d, E) == Onward(c, d) /\ d.seen = c.seen \cup E

\* Another poll will follow.
Asks(c) == IF c.poll = "idle" THEN "poll" \in c.timers ELSE c.trailing

LEMMA KeepsOn ==
    ASSUME NEW c, NEW d, NEW e, Onward(c, d), Onward(d, e)
    PROVE  Onward(c, e) /\ (Asks(d) => Asks(e))
BY DEF Onward, Asks

LEMMA KeepsKeeps ==
    ASSUME NEW c, NEW d, NEW e, Keeps(c, d), Keeps(d, e)
    PROVE  Keeps(c, e) /\ (Asks(d) => Asks(e))
BY KeepsOn DEF Keeps

LEMMA KeepsSelf == ASSUME NEW c, IsCl(c) PROVE Keeps(c, c)
BY DEF Keeps, Onward

LEMMA Arming ==
    ASSUME NEW c, IsCl(c), NEW t
    PROVE  Keeps(c, Screen!Armed(c, t)) /\ (t = "poll" => "poll" \in Screen!Armed(c, t).timers)
BY DEF IsCl, Keeps, Onward, Screen!Armed

LEMMA Clearing ==
    ASSUME NEW c, IsCl(c), NEW T, "poll" \notin T
    PROVE  Keeps(c, Screen!Cleared(c, T))
BY DEF IsCl, Keeps, Onward, Screen!Cleared

LEMMA Requesting ==
    ASSUME NEW c, IsCl(c), NEW hold
    PROVE  Keeps(c, Screen!Request(c, hold)) /\ Asks(Screen!Request(c, hold))
<1> DEFINE h == IF hold THEN Screen!Armed(c, "buffer") ELSE c
<1>1. Keeps(c, h)
  BY Arming, KeepsSelf
<1>2. PICK g : g = h
  OBVIOUS
<1>3. Keeps(c, g) /\ IsCl(g)
  BY <1>1, <1>2 DEF Keeps, Onward
<1>4. Screen!Request(c, hold) = IF c.poll # "idle" THEN [g EXCEPT !.trailing = TRUE]
                                ELSE Screen!Armed(g, "poll")
  BY <1>2 DEF Screen!Request
<1> HIDE DEF h
<1>5. CASE c.poll # "idle"
  <2>1. PICK d : d = [g EXCEPT !.trailing = TRUE]
    OBVIOUS
  <2>2. Keeps(g, d) /\ Asks(d)
    BY <1>3, <1>5, <2>1 DEF IsCl, Keeps, Onward, Asks
  <2> QED
    BY <1>3, <1>4, <1>5, <2>1, <2>2, KeepsKeeps
<1>6. CASE c.poll = "idle"
  <2>1. PICK d : d = Screen!Armed(g, "poll")
    OBVIOUS
  <2>2. Keeps(g, d) /\ "poll" \in d.timers
    BY <1>3, <2>1, Arming
  <2>3. Keeps(c, d) /\ Asks(d)
    BY <1>3, <1>6, <2>2, KeepsKeeps DEF Keeps, Onward, Asks
  <2> QED
    BY <1>4, <1>6, <2>1, <2>3
<1> QED
  BY <1>5, <1>6

LEMMA Refreshing ==
    ASSUME NEW c, IsCl(c), NEW how
    PROVE  Keeps(c, Screen!Refreshed(c, how))
<1>1. CASE c.fetch # Screen!Nothing
  BY <1>1, KeepsSelf DEF Screen!Refreshed
<1>2. CASE c.fetch = Screen!Nothing
  <2>1. PICK d : d = Screen!Cleared(c, {"safety"})
    OBVIOUS
  <2>2. Keeps(c, d)
    BY <2>1, Clearing
  <2>3. Keeps(d, [d EXCEPT !.fetch = how])
    BY <2>2 DEF IsCl, Keeps, Onward
  <2> QED
    BY <1>2, <2>1, <2>2, <2>3, KeepsKeeps DEF Screen!Refreshed
<1> QED
  BY <1>1, <1>2

LEMMA Unplugging ==
    ASSUME NEW c, IsCl(c)
    PROVE  Keeps(c, Screen!Unplugged(c))
<1>1. PICK d : d = Screen!Cleared(c, {"liveness", "reconnect"})
  OBVIOUS
<1>2. Keeps(c, d)
  BY <1>1, Clearing
<1>3. Keeps(d, [d EXCEPT !.ws = Screen!Nothing, !.lastSeq = -1])
  BY <1>2 DEF IsCl, Keeps, Onward
<1> QED
  BY <1>1, <1>2, <1>3, KeepsKeeps DEF Screen!Unplugged

LEMMA Retrying ==
    ASSUME NEW c, IsCl(c)
    PROVE  Keeps(c, Screen!Retried(c))
BY Arming, KeepsSelf DEF Screen!Retried

LEMMA Connecting ==
    ASSUME NEW c, IsCl(c)
    PROVE  Keeps(c, Screen!Connected(c))
<1>1. PICK d : d = Screen!Unplugged(c)
  OBVIOUS
<1>2. Keeps(c, d) /\ IsCl(d)
  BY <1>1, Unplugging DEF Keeps, Onward
<1>3. Keeps(d, [d EXCEPT !.ws = "connecting"])
  BY <1>2 DEF IsCl, Keeps, Onward
<1>4. Keeps(c, [d EXCEPT !.ws = "connecting"]) /\ Keeps(c, Screen!Retried(d))
  BY <1>2, <1>3, Retrying, KeepsKeeps
<1> QED
  BY <1>1, <1>4, KeepsSelf DEF Screen!Connected

LEMMA Ingesting ==
    ASSUME NEW c, IsCl(c), NEW E
    PROVE  Sees(c, Screen!FromRoom(c, E), E)
BY DEF IsCl, Sees, Onward, Screen!FromRoom

LEMMA Reconciling ==
    ASSUME NEW c, IsCl(c)
    PROVE  Keeps(c, Screen!Reconciled(c))
<1>1. PICK d : d = [c EXCEPT !.volume = TRUE]
  OBVIOUS
<1>2. Keeps(c, d) /\ IsCl(d)
  BY <1>1 DEF IsCl, Keeps, Onward
<1>3. Keeps(c, Screen!Request(d, FALSE))
  BY <1>2, Requesting, KeepsKeeps
<1>4. Screen!Reconciled(c) = c \/ Screen!Reconciled(c) = Screen!Request(d, FALSE)
  BY <1>1 DEF Screen!Reconciled
<1> QED
  BY <1>3, <1>4, KeepsSelf

LEMMA SeesMore ==
    ASSUME NEW c, NEW d, NEW e, NEW E,
           \/ Keeps(c, d) /\ Sees(d, e, E)
           \/ Sees(c, d, E) /\ Keeps(d, e)
    PROVE  Sees(c, e, E)
BY KeepsOn DEF Keeps, Sees

LEMMA Releasing ==
    ASSUME NEW c, IsCl(c)
    PROVE  Sees(c, Screen!Released(c), Screen!ToSet(c.buffer))
<1>1. PICK d : d = Screen!Cleared(c, {"buffer"})
  OBVIOUS
<1>2. Keeps(c, d) /\ IsCl(d)
  BY <1>1, Clearing DEF Keeps, Onward
<1>3. PICK e : e = [d EXCEPT !.buffer = <<>>]
  OBVIOUS
<1>4. Keeps(d, e) /\ IsCl(e)
  BY <1>2, <1>3 DEF IsCl, Keeps, Onward
<1>5. PICK E : E = Screen!ToSet(c.buffer)
  OBVIOUS
<1>6. PICK g : g = Screen!FromRoom(e, E)
  OBVIOUS
<1>7. Sees(e, g, E) /\ IsCl(g)
  BY <1>4, <1>6, Ingesting DEF Sees, Onward
<1>8. Sees(c, g, E)
  BY <1>2, <1>4, <1>7, KeepsKeeps, SeesMore
<1>9. Sees(c, Screen!Reconciled(g), E)
  BY <1>7, <1>8, Reconciling, SeesMore
<1> QED
  BY <1>1, <1>3, <1>5, <1>6, <1>9 DEF Screen!Released

\* Draws E are handed to the page, those that are not yet seen.
Counted(E) == [e \in Event |-> IF e \in E \ cl.seen THEN shown[e] + 1 ELSE shown[e]]
Hands(E) == cl'.seen = cl.seen \cup E /\ shown' = Counted(E)
Bare == shown' = shown /\ cl'.seen = cl.seen

\* What the steps do to the poll, to what is shown and to what is owed.
Commits ==
    /\ \E e \in Event \ committed :
         /\ LateCommits \/ \A f \in Event : f < e => f \in committed
         /\ committed' = committed \cup {e}
         /\ late' = IF Screen!Passed(e) THEN late \cup {e} ELSE late
    /\ UNCHANGED <<cl, shown, due>>
Goes ==
    /\ Onward(cl, cl') /\ \E E : Hands(E)
    /\ due' = due \/ (due' = committed /\ Asks(cl'))
Fires ==
    /\ Bare /\ due' = due /\ cl'.page = cl.page /\ cl'.cursor = cl.cursor
    /\ \/ cl.poll = "idle" /\ cl'.poll = "asked"
       \/ cl.poll # "idle" /\ cl'.poll = cl.poll /\ cl'.trailing
Reads ==
    /\ Bare /\ due' = due /\ cl.poll = "asked" /\ cl'.poll = "read"
    /\ cl'.page = Screen!Page(cl.cursor) /\ cl'.cursor = cl.cursor
Replies ==
    /\ cl.poll = "read" /\ cl'.poll = "idle" /\ cl'.page = {} /\ due' = due
    /\ cl'.cursor = Screen!Moved(cl.cursor, cl.page)
    /\ \E E : cl.page \subseteq E /\ Hands(E)
    /\ "poll" \in cl'.timers \/ (cl.page = {} /\ ~cl.trailing)
Misses ==
    /\ Bare /\ due' = due /\ cl.poll # "idle" /\ cl'.poll = "idle" /\ cl'.page = {}
    /\ cl'.cursor = cl.cursor /\ "poll" \in cl'.timers
Restarts ==
    /\ Bare /\ due' = {} /\ cl'.poll = "asked" /\ cl'.page = {} /\ cl'.cursor = cl.cursor

ScreenStep ==
    \/ Commits
    \/ /\ Screen!rows' = Screen!rows /\ IsCl(cl')
       /\ Goes \/ Fires \/ Reads \/ Replies \/ Misses \/ Restarts

\* A closure and counts.
IsScreen == IsCl(cl) /\ shown \in [Event -> Nat]

LEMMA Showing ==
    ASSUME NEW E, NEW N, N = E \ cl.seen, Screen!Shown(N)
    PROVE  shown' = Counted(E)
BY DEF Screen!Shown, Counted

LEMMA HandsNone == ASSUME IsScreen, cl'.seen = cl.seen, shown' = shown PROVE \E E : Hands(E)
<1>1. Counted({}) = shown
  BY DEF IsScreen, Counted
<1> QED
  BY <1>1 DEF Hands

\* A step of the page that only asks, at most.
LEMMA QuietStep ==
    ASSUME IsScreen, Keeps(cl, cl'), Screen!rows' = Screen!rows, shown' = shown,
           due' = due \/ (Asks(cl') /\ Screen!Owes)
    PROVE  ScreenStep
<1>1. \E E : Hands(E)
  BY HandsNone DEF Keeps
<1> QED
  BY <1>1 DEF ScreenStep, Goes, Keeps, Onward, Screen!Owes

LEMMA HandStep ==
    ASSUME NEW E, NEW N, N = E \ cl.seen, Screen!Shown(N), Sees(cl, cl', E),
           Screen!rows' = Screen!rows, due' = due \/ (Asks(cl') /\ Screen!Owes)
    PROVE  ScreenStep
<1>1. Hands(E)
  BY Showing DEF Hands, Sees
<1> QED
  BY <1>1 DEF ScreenStep, Goes, Sees, Onward, Screen!Owes

LEMMA RoomSteps ==
    ASSUME IsScreen, Screen!Room PROVE ScreenStep
<1>1. cl' = cl /\ Screen!rows' = Screen!rows /\ shown' = shown /\ due' = due
  BY DEF Screen!Room, Screen!Push, Screen!PushSlow, Screen!RoomStops, Screen!Drops,
     Screen!Wedges, Screen!RoomAccepts, Screen!RoomDisables, Screen!RoomSwitches,
     Screen!ConfigChanges, Screen!world
<1> QED
  BY <1>1, KeepsSelf, QuietStep DEF IsScreen

LEMMA PollSteps ==
    ASSUME IsScreen, Screen!PollFires \/ Screen!PollRead \/ Screen!PollFails
    PROVE  ScreenStep
<1>0. IsCl(cl)
  BY DEF IsScreen
<1>1. CASE Screen!PollFires
  <2>0. Screen!rows' = Screen!rows /\ shown' = shown /\ due' = due
    BY <1>1 DEF Screen!PollFires, Screen!world
  <2>1. PICK d : d = Screen!Cleared(cl, {"poll"})
    OBVIOUS
  <2>2. /\ IsCl(d) /\ d.poll = cl.poll /\ d.page = cl.page /\ d.cursor = cl.cursor
        /\ d.seen = cl.seen
    BY <1>0, <2>1 DEF IsCl, Screen!Cleared
  <2>3. CASE cl.poll # "idle"
    <3>1. cl' = [d EXCEPT !.trailing = TRUE]
      BY <1>1, <2>1, <2>3 DEF Screen!PollFires
    <3>2. /\ IsCl(cl') /\ cl'.poll = d.poll /\ cl'.page = d.page /\ cl'.cursor = d.cursor
          /\ cl'.seen = d.seen /\ cl'.trailing
      BY <2>2, <3>1 DEF IsCl
    <3> QED
      BY <2>0, <2>2, <2>3, <3>2 DEF ScreenStep, Fires, Bare
  <2>4. CASE cl.poll = "idle"
    <3>1. cl' = [d EXCEPT !.poll = "asked"]
      BY <1>1, <2>1, <2>4 DEF Screen!PollFires
    <3>2. /\ IsCl(cl') /\ cl'.poll = "asked" /\ cl'.page = d.page /\ cl'.cursor = d.cursor
          /\ cl'.seen = d.seen
      BY <2>2, <3>1 DEF IsCl
    <3> QED
      BY <2>0, <2>2, <2>4, <3>2 DEF ScreenStep, Fires, Bare
  <2> QED
    BY <2>3, <2>4
<1>2. CASE Screen!PollRead
  <2>0. Screen!rows' = Screen!rows /\ shown' = shown /\ due' = due /\ cl.poll = "asked"
    BY <1>2 DEF Screen!PollRead, Screen!world
  <2>1. PICK P : P = Screen!Page(cl.cursor)
    OBVIOUS
  <2>2. cl' = [cl EXCEPT !.poll = "read", !.page = P]
    BY <1>2, <2>1 DEF Screen!PollRead
  <2>3. /\ IsCl(cl') /\ cl'.poll = "read" /\ cl'.page = P /\ cl'.cursor = cl.cursor
        /\ cl'.seen = cl.seen
    BY <1>0, <2>2 DEF IsCl
  <2> QED
    BY <2>0, <2>1, <2>3 DEF ScreenStep, Reads, Bare
<1>3. CASE Screen!PollFails
  <2>0. Screen!rows' = Screen!rows /\ shown' = shown /\ due' = due /\ cl.poll # "idle"
    BY <1>3 DEF Screen!PollFails, Screen!world
  <2>1. PICK d : d = [cl EXCEPT !.poll = "idle", !.page = {}, !.trailing = FALSE]
    OBVIOUS
  <2>2. /\ IsCl(d) /\ d.poll = "idle" /\ d.page = {} /\ d.cursor = cl.cursor
        /\ d.seen = cl.seen
    BY <1>0, <2>1 DEF IsCl
  <2>3. PICK g : g = Screen!Armed(d, "poll")
    OBVIOUS
  <2>4. Keeps(d, g) /\ "poll" \in g.timers /\ IsCl(g)
    BY <2>2, <2>3, Arming DEF Keeps, Onward
  <2>5. cl' = g \/ cl' = Screen!Refreshed(g, "keep")
    BY <1>3, <2>1, <2>3 DEF Screen!PollFails
  <2>6. Keeps(g, cl')
    BY <2>4, <2>5, KeepsSelf, Refreshing
  <2> QED
    BY <2>0, <2>2, <2>4, <2>6 DEF ScreenStep, Misses, Bare, Keeps, Onward
<1> QED
  BY <1>1, <1>2, <1>3

LEMMA ReplySteps ==
    ASSUME IsScreen, Screen!PollReply
    PROVE  ScreenStep
<1>0. IsCl(cl) /\ cl.poll = "read" /\ Screen!rows' = Screen!rows /\ due' = due
  BY DEF IsScreen, Screen!PollReply, Screen!world
<1>1. PICK q : q = Screen!Polled(cl, cl.page)
  OBVIOUS
<1>2. /\ IsCl(q) /\ q.poll = cl.poll /\ q.page = cl.page /\ q.cursor = cl.cursor
      /\ q.seen = cl.seen \cup cl.page /\ q.timers = cl.timers /\ q.buffer = cl.buffer
  <2>1. PICK v : v = (cl.volume /\ (cl.page = {} \/ Screen!Cardinality(cl.unrec \ cl.page) >= Trigger))
    OBVIOUS
  <2>2. PICK u : u = cl.unrec \ cl.page
    OBVIOUS
  <2>3. q = [cl EXCEPT !.seen = @ \cup cl.page, !.unrec = u, !.volume = v]
    BY <1>1, <2>1, <2>2 DEF Screen!Polled
  <2> QED
    BY <1>0, <2>3 DEF IsCl
<1>3. PICK m : m = Screen!Moved(cl.cursor, cl.page)
  OBVIOUS
<1>4. PICK read : read = [q EXCEPT !.cursor = m, !.poll = "idle", !.page = {}, !.trailing = FALSE]
  OBVIOUS
<1>5. /\ IsCl(read) /\ read.poll = "idle" /\ read.page = {} /\ read.cursor = m
      /\ read.seen = cl.seen \cup cl.page /\ read.timers = cl.timers
      /\ read.buffer = cl.buffer
  BY <1>2, <1>4 DEF IsCl
<1>6. PICK again : again = (cl.page # {} \/ cl.trailing)
  OBVIOUS
<1>7. PICK notice \in {FALSE, srv # cl.cfg} :
        /\ cl' = Screen!Drained(IF notice THEN Screen!Refreshed(read, "yes") ELSE read, again)
        /\ Screen!Shown(Screen!New(cl, cl.page) \cup
             IF again \/ "buffer" \notin cl.timers THEN {}
             ELSE Screen!New(read, Screen!ToSet(cl.buffer)))
  BY <1>1, <1>2, <1>3, <1>4, <1>6 DEF Screen!PollReply
<1>8. PICK told : told = IF notice THEN Screen!Refreshed(read, "yes") ELSE read
  OBVIOUS
<1>9. Keeps(read, told) /\ IsCl(told)
  <2>1. Keeps(read, told)
    BY <1>5, <1>8, Refreshing, KeepsSelf
  <2> QED
    BY <2>1 DEF Keeps, Onward
<1>10. told.buffer = cl.buffer /\ ("buffer" \in told.timers <=> "buffer" \in cl.timers)
  BY <1>5, <1>8 DEF IsCl, Screen!Refreshed, Screen!Cleared
<1>11. PICK B : B = Screen!ToSet(cl.buffer)
  OBVIOUS
<1>12. CASE again
  <2>1. Keeps(told, cl') /\ "poll" \in cl'.timers
    BY <1>7, <1>8, <1>9, <1>12, Arming DEF Screen!Drained
  <2>2. Screen!Shown(Screen!New(cl, cl.page))
    BY <1>7, <1>12
  <2>3. Hands(cl.page)
    BY <1>5, <1>9, <2>1, <2>2, Showing DEF Hands, Keeps, Screen!New
  <2> QED
    BY <1>0, <1>3, <1>5, <1>9, <2>1, <2>3 DEF ScreenStep, Replies, Keeps, Onward
<1>13. CASE ~again /\ "buffer" \in cl.timers
  <2>1. PICK g : g = Screen!Released(told)
    OBVIOUS
  <2>2. Sees(told, g, B) /\ IsCl(g)
    <3>1. Sees(told, g, B)
      BY <1>9, <1>10, <1>11, <2>1, Releasing
    <3> QED
      BY <3>1 DEF Sees, Onward
  <2>3. cl' = g \/ cl' = Screen!Armed(g, "poll")
    BY <1>7, <1>8, <1>10, <1>13, <2>1 DEF Screen!Drained
  <2>4. Keeps(g, cl')
    BY <2>2, <2>3, KeepsSelf, Arming
  <2>5. Sees(read, cl', B) /\ IsCl(cl')
    <3>1. Sees(read, cl', B)
      BY <1>9, <2>2, <2>4, SeesMore
    <3> QED
      BY <3>1 DEF Sees, Onward
  <2>6. Screen!Shown((cl.page \ cl.seen) \cup (B \ read.seen))
    BY <1>7, <1>11, <1>13 DEF Screen!New
  <2>7. (cl.page \ cl.seen) \cup (B \ read.seen) = (cl.page \cup B) \ cl.seen
    BY <1>5
  <2>8. Hands(cl.page \cup B)
    BY <1>5, <2>5, <2>6, <2>7, Showing DEF Hands, Sees
  <2>9. cl.page = {} /\ ~cl.trailing
    BY <1>6, <1>13
  <2> QED
    BY <1>0, <1>3, <1>5, <2>5, <2>8, <2>9 DEF ScreenStep, Replies, Sees, Onward
<1>14. CASE ~again /\ "buffer" \notin cl.timers
  <2>1. cl' = told \/ cl' = Screen!Armed(told, "poll")
    BY <1>7, <1>8, <1>10, <1>14 DEF Screen!Drained
  <2>2. Keeps(told, cl')
    BY <1>9, <2>1, KeepsSelf, Arming
  <2>3. Keeps(read, cl') /\ IsCl(cl')
    BY <1>9, <2>2, KeepsKeeps DEF Keeps, Onward
  <2>4. Screen!Shown(cl.page \ cl.seen)
    <3>1. Screen!Shown((cl.page \ cl.seen) \cup {})
      BY <1>7, <1>14 DEF Screen!New
    <3>2. (cl.page \ cl.seen) \cup {} = cl.page \ cl.seen
      OBVIOUS
    <3> QED
      BY <3>1, <3>2
  <2>5. Hands(cl.page)
    BY <1>5, <2>3, <2>4, Showing DEF Hands, Keeps
  <2>6. cl.page = {} /\ ~cl.trailing
    BY <1>6, <1>14
  <2> QED
    BY <1>0, <1>3, <1>5, <2>3, <2>5, <2>6 DEF ScreenStep, Replies, Keeps, Onward
<1> QED
  BY <1>12, <1>13, <1>14

LEMMA BufferSteps ==
    ASSUME IsScreen, Screen!BufferFires
    PROVE  ScreenStep
<1>1. PICK E : E = Screen!ToSet(cl.buffer)
  OBVIOUS
<1>2. Sees(cl, cl', E)
  BY <1>1, Releasing DEF IsScreen, Screen!BufferFires
<1>3. Screen!Shown(E \ cl.seen) /\ Screen!rows' = Screen!rows /\ due' = due
  BY <1>1 DEF Screen!BufferFires, Screen!New, Screen!world
<1> QED
  BY <1>2, <1>3, HandStep

LEMMA GachaSteps ==
    ASSUME IsScreen, Screen!Gacha
    PROVE  ScreenStep
<1>0. IsCl(cl) /\ Screen!rows' = Screen!rows
  BY DEF IsScreen, Screen!Gacha, Screen!world
<1>1. PICK e : e = CHOOSE x \in Screen!First.event : TRUE
  OBVIOUS
<1>2. PICK n : n = Screen!First.n
  OBVIOUS
<1>3. PICK d : d = [cl EXCEPT !.lastSeq = n]
  OBVIOUS
<1>4. Keeps(cl, d) /\ IsCl(d)
  BY <1>0, <1>3 DEF IsCl, Keeps, Onward
<1>5. PICK c : c = Screen!Armed(d, "liveness")
  OBVIOUS
<1>6. Keeps(cl, c) /\ IsCl(c)
  <2>1. Keeps(d, c)
    BY <1>4, <1>5, Arming
  <2> QED
    BY <1>4, <2>1, KeepsKeeps DEF Keeps, Onward
<1>7. PICK got : got = IF Screen!Gap THEN Screen!Request(c, TRUE) ELSE c
  OBVIOUS
<1>8. Keeps(cl, got) /\ IsCl(got) /\ (Screen!Gap => Asks(got))
  <2>1. Keeps(c, got) /\ (Screen!Gap => Asks(got))
    BY <1>6, <1>7, Requesting, KeepsSelf
  <2> QED
    BY <1>6, <2>1, KeepsKeeps DEF Keeps, Onward
<1>9. PICK kept : kept = [got EXCEPT !.buffer = Append(@, e)]
  OBVIOUS
<1>10. Keeps(got, kept) /\ IsCl(kept)
  BY <1>8, <1>9 DEF IsCl, Keeps, Onward
<1>11. Keeps(cl, kept) /\ (Screen!Gap => Asks(kept))
  BY <1>8, <1>10, KeepsKeeps
<1>12. /\ IF "buffer" \notin got.timers
          THEN /\ cl' = IF e \in cl.seen THEN got
                        ELSE Screen!Reconciled(Screen!FromRoom(got, {e}))
               /\ Screen!Shown({e} \ cl.seen)
          ELSE IF Len(kept.buffer) >= Buffer
          THEN cl' = Screen!Released(kept)
               /\ Screen!Shown(Screen!ToSet(kept.buffer) \ cl.seen)
          ELSE cl' = kept /\ UNCHANGED shown
       /\ IF Screen!Gap THEN Screen!Owes ELSE UNCHANGED due
  BY <1>1, <1>2, <1>3, <1>5, <1>7, <1>9 DEF Screen!Gacha, Screen!New
<1>13. ASSUME Onward(got, cl') \/ Onward(kept, cl')
       PROVE  due' = due \/ (Asks(cl') /\ Screen!Owes)
  BY <1>8, <1>11, <1>12, <1>13, KeepsOn DEF Keeps
<1>14. CASE "buffer" \notin got.timers /\ e \in cl.seen
  <2>1. cl' = got /\ Screen!Shown({e} \ cl.seen)
    BY <1>12, <1>14
  <2>2. Keeps(cl, cl') /\ Onward(got, cl')
    BY <1>8, <2>1, KeepsSelf DEF Keeps
  <2>3. Sees(cl, cl', {e})
    BY <1>14, <2>2 DEF Keeps, Sees
  <2> QED
    BY <1>0, <1>13, <2>1, <2>2, <2>3, HandStep
<1>15. CASE "buffer" \notin got.timers /\ e \notin cl.seen
  <2>1. PICK g : g = Screen!FromRoom(got, {e})
    OBVIOUS
  <2>2. Sees(got, g, {e}) /\ IsCl(g)
    BY <1>8, <2>1, Ingesting DEF Sees, Onward
  <2>3. cl' = Screen!Reconciled(g) /\ Screen!Shown({e} \ cl.seen)
    BY <1>12, <1>15, <2>1
  <2>4. Keeps(g, cl')
    BY <2>2, <2>3, Reconciling
  <2>5. Sees(got, cl', {e}) /\ Sees(cl, cl', {e})
    BY <1>8, <2>2, <2>4, SeesMore
  <2> QED
    BY <1>0, <1>13, <2>3, <2>5, HandStep DEF Sees
<1>16. CASE "buffer" \in got.timers /\ Len(kept.buffer) >= Buffer
  <2>1. PICK E : E = Screen!ToSet(kept.buffer)
    OBVIOUS
  <2>2. cl' = Screen!Released(kept) /\ Screen!Shown(E \ cl.seen)
    BY <1>12, <1>16, <2>1
  <2>3. Sees(kept, cl', E)
    BY <1>10, <2>1, <2>2, Releasing
  <2>4. Sees(cl, cl', E)
    BY <1>11, <2>3, SeesMore
  <2> QED
    BY <1>0, <1>13, <2>2, <2>3, <2>4, HandStep DEF Sees
<1>17. CASE "buffer" \in got.timers /\ ~(Len(kept.buffer) >= Buffer)
  <2>1. cl' = kept /\ shown' = shown
    BY <1>12, <1>17
  <2>2. Keeps(cl, cl') /\ Onward(kept, cl')
    BY <1>10, <1>11, <2>1, KeepsSelf DEF Keeps
  <2> QED
    BY <1>0, <1>13, <2>1, <2>2, QuietStep
<1> QED
  BY <1>14, <1>15, <1>16, <1>17

LEMMA SocketSteps ==
    ASSUME IsScreen,
           \/ Screen!Opens \/ Screen!Welcome \/ Screen!Notice \/ Screen!Closes
           \/ Screen!ConnectFails \/ Screen!LivenessFires \/ Screen!ReconnectFires
    PROVE  ScreenStep
<1>0. IsCl(cl) /\ Screen!rows' = Screen!rows /\ shown' = shown
  BY DEF IsScreen, Screen!Opens, Screen!Welcome, Screen!Notice, Screen!Closes,
     Screen!ConnectFails, Screen!LivenessFires, Screen!ReconnectFires, Screen!world
<1>1. CASE Screen!Opens
  <2>1. PICK d : d = [cl EXCEPT !.ws = "open", !.failures = 0]
    OBVIOUS
  <2>2. Keeps(cl, d) /\ IsCl(d)
    BY <1>0, <2>1 DEF IsCl, Keeps, Onward
  <2>3. cl' = Screen!Request(d, TRUE) /\ Screen!Owes
    BY <1>1, <2>1 DEF Screen!Opens
  <2>4. Keeps(cl, cl') /\ Asks(cl')
    BY <2>2, <2>3, Requesting, KeepsKeeps
  <2> QED
    BY <1>0, <2>3, <2>4, QuietStep
<1>2. CASE Screen!Welcome
  <2>1. PICK n : n = Screen!First.n
    OBVIOUS
  <2>2. PICK d : d = [cl EXCEPT !.lastSeq = n]
    OBVIOUS
  <2>3. Keeps(cl, d) /\ IsCl(d)
    BY <1>0, <2>2 DEF IsCl, Keeps, Onward
  <2>4. cl' = Screen!Armed(d, "liveness") /\ due' = due
    BY <1>2, <2>1, <2>2 DEF Screen!Welcome
  <2>5. Keeps(cl, cl')
    BY <2>3, <2>4, Arming, KeepsKeeps
  <2> QED
    BY <1>0, <2>4, <2>5, QuietStep
<1>3. CASE Screen!Notice
  <2>1. PICK x : x = IF cl.cfg \in Screen!Config THEN cl.cfg ELSE Screen!Nothing
    OBVIOUS
  <2>2. PICK d : d = [cl EXCEPT !.refused = x]
    OBVIOUS
  <2>3. Keeps(cl, d) /\ IsCl(d)
    BY <1>0, <2>2 DEF IsCl, Keeps, Onward
  <2>4. PICK g : g = Screen!Unplugged(d)
    OBVIOUS
  <2>5. Keeps(cl, g) /\ IsCl(g)
    <3>1. Keeps(d, g)
      BY <2>3, <2>4, Unplugging
    <3> QED
      BY <2>3, <3>1, KeepsKeeps DEF Keeps, Onward
  <2>6. PICK h : h = Screen!Request(g, FALSE)
    OBVIOUS
  <2>7. Keeps(cl, h) /\ Asks(h) /\ IsCl(h)
    <3>1. Keeps(g, h) /\ Asks(h)
      BY <2>5, <2>6, Requesting
    <3> QED
      BY <2>5, <3>1, KeepsKeeps DEF Keeps, Onward
  <2>8. cl' = Screen!Refreshed(h, "yes") /\ Screen!Owes
    BY <1>3, <2>1, <2>2, <2>4, <2>6 DEF Screen!Notice
  <2>9. Keeps(cl, cl') /\ Asks(cl')
    BY <2>7, <2>8, Refreshing, KeepsKeeps
  <2> QED
    BY <1>0, <2>8, <2>9, QuietStep
<1>4. CASE Screen!Closes
  <2>1. PICK d : d = [cl EXCEPT !.ws = Screen!Nothing]
    OBVIOUS
  <2>2. Keeps(cl, d) /\ IsCl(d)
    BY <1>0, <2>1 DEF IsCl, Keeps, Onward
  <2>3. PICK h : h = Screen!Request(d, FALSE)
    OBVIOUS
  <2>4. Keeps(cl, h) /\ Asks(h) /\ IsCl(h)
    <3>1. Keeps(d, h) /\ Asks(h)
      BY <2>2, <2>3, Requesting
    <3> QED
      BY <2>2, <3>1, KeepsKeeps DEF Keeps, Onward
  <2>5. cl' = Screen!Retried(h) /\ Screen!Owes
    BY <1>4, <2>1, <2>3 DEF Screen!Closes
  <2>6. Keeps(cl, cl') /\ Asks(cl')
    BY <2>4, <2>5, Retrying, KeepsKeeps
  <2> QED
    BY <1>0, <2>5, <2>6, QuietStep
<1>5. CASE Screen!ConnectFails
  <2>1. PICK n : n = IF cl.failures < Screen!Failures THEN cl.failures + 1 ELSE Screen!Failures
    OBVIOUS
  <2>2. PICK d : d = [cl EXCEPT !.ws = Screen!Nothing, !.failures = n]
    OBVIOUS
  <2>3. Keeps(cl, d) /\ IsCl(d)
    BY <1>0, <2>2 DEF IsCl, Keeps, Onward
  <2>4. PICK h : h = Screen!Request(d, FALSE)
    OBVIOUS
  <2>5. Keeps(cl, h) /\ Asks(h) /\ IsCl(h)
    <3>1. Keeps(d, h) /\ Asks(h)
      BY <2>3, <2>4, Requesting
    <3> QED
      BY <2>3, <3>1, KeepsKeeps DEF Keeps, Onward
  <2>6. PICK x : x = IF cl.cfg \in Screen!Config THEN cl.cfg ELSE Screen!Nothing
    OBVIOUS
  <2>7. PICK g : g = [h EXCEPT !.refused = x]
    OBVIOUS
  <2>8. Keeps(h, g) /\ IsCl(g)
    BY <2>5, <2>7 DEF IsCl, Keeps, Onward
  <2>9. /\ cl' = Screen!Retried(h) \/ cl' = Screen!Refreshed(g, "yes")
        /\ Screen!Owes
    BY <1>5, <2>1, <2>2, <2>4, <2>6, <2>7 DEF Screen!ConnectFails
  <2>10. Keeps(h, cl')
    BY <2>5, <2>8, <2>9, Retrying, Refreshing, KeepsKeeps
  <2>11. Keeps(cl, cl') /\ Asks(cl')
    BY <2>5, <2>10, KeepsKeeps
  <2> QED
    BY <1>0, <2>9, <2>11, QuietStep
<1>6. CASE Screen!LivenessFires
  <2>1. PICK g : g = Screen!Unplugged(cl)
    OBVIOUS
  <2>2. Keeps(cl, g) /\ IsCl(g)
    BY <1>0, <2>1, Unplugging DEF Keeps, Onward
  <2>3. PICK h : h = Screen!Request(g, FALSE)
    OBVIOUS
  <2>4. Keeps(cl, h) /\ Asks(h) /\ IsCl(h)
    <3>1. Keeps(g, h) /\ Asks(h)
      BY <2>2, <2>3, Requesting
    <3> QED
      BY <2>2, <3>1, KeepsKeeps DEF Keeps, Onward
  <2>5. cl' = Screen!Retried(h) /\ Screen!Owes
    BY <1>6, <2>1, <2>3 DEF Screen!LivenessFires
  <2>6. Keeps(cl, cl') /\ Asks(cl')
    BY <2>4, <2>5, Retrying, KeepsKeeps
  <2> QED
    BY <1>0, <2>5, <2>6, QuietStep
<1>7. CASE Screen!ReconnectFires
  <2>1. PICK g : g = Screen!Cleared(cl, {"reconnect"})
    OBVIOUS
  <2>2. Keeps(cl, g) /\ IsCl(g)
    BY <1>0, <2>1, Clearing DEF Keeps, Onward
  <2>3. cl' = Screen!Connected(g) /\ due' = due
    BY <1>7, <2>1 DEF Screen!ReconnectFires
  <2>4. Keeps(cl, cl')
    BY <2>2, <2>3, Connecting, KeepsKeeps
  <2> QED
    BY <1>0, <2>3, <2>4, QuietStep
<1> QED
  BY <1>1, <1>2, <1>3, <1>4, <1>5, <1>6, <1>7

LEMMA ConfigSteps ==
    ASSUME IsScreen, Screen!SafetyFires \/ Screen!ConfigReply \/ Screen!ConfigFails
    PROVE  ScreenStep
<1>0. IsCl(cl) /\ Screen!rows' = Screen!rows /\ shown' = shown /\ due' = due
  BY DEF IsScreen, Screen!SafetyFires, Screen!ConfigReply, Screen!ConfigFails, Screen!world
<1>1. CASE Screen!SafetyFires
  <2>1. PICK g : g = Screen!Cleared(cl, {"safety"})
    OBVIOUS
  <2>2. Keeps(cl, g) /\ IsCl(g)
    BY <1>0, <2>1, Clearing DEF Keeps, Onward
  <2>3. cl' = Screen!Request(cl, FALSE) \/ cl' = Screen!Refreshed(g, "yes")
    BY <1>1, <2>1 DEF Screen!SafetyFires
  <2>4. Keeps(cl, cl')
    BY <1>0, <2>2, <2>3, Requesting, Refreshing, KeepsKeeps
  <2> QED
    BY <1>0, <2>4, QuietStep
<1>2. CASE Screen!ConfigReply
  <2>1. PICK expired \in BOOLEAN :
         LET holds == cl.refused = srv /\ ~expired
             c == Screen!Armed([cl EXCEPT !.fetch = Screen!Nothing, !.cfg = srv,
                           !.refused = IF holds THEN @ ELSE Screen!Nothing], "safety")
             asks == IF Screen!IsDo(cl.cfg) THEN Screen!Request(c, FALSE) ELSE c
         IN  \/ cl' = Screen!Unplugged(asks)
             \/ cl' = Screen!Request(c, FALSE)
             \/ cl' = Screen!Connected(c)
             \/ cl' = c
    BY <1>2 DEF Screen!ConfigReply
  <2>2. PICK x : x = IF cl.refused = srv /\ ~expired THEN cl.refused ELSE Screen!Nothing
    OBVIOUS
  <2>3. PICK d : d = [cl EXCEPT !.fetch = Screen!Nothing, !.cfg = srv, !.refused = x]
    OBVIOUS
  <2>4. Keeps(cl, d) /\ IsCl(d)
    BY <1>0, <2>3 DEF IsCl, Keeps, Onward
  <2>5. PICK c : c = Screen!Armed(d, "safety")
    OBVIOUS
  <2>6. Keeps(cl, c) /\ IsCl(c)
    <3>1. Keeps(d, c)
      BY <2>4, <2>5, Arming
    <3> QED
      BY <2>4, <3>1, KeepsKeeps DEF Keeps, Onward
  <2>7. PICK asks : asks = IF Screen!IsDo(cl.cfg) THEN Screen!Request(c, FALSE) ELSE c
    OBVIOUS
  <2>8. Keeps(c, asks) /\ IsCl(asks)
    <3>1. Keeps(c, asks)
      BY <2>6, <2>7, Requesting, KeepsSelf
    <3> QED
      BY <3>1 DEF Keeps, Onward
  <2>9. \/ cl' = Screen!Unplugged(asks) \/ cl' = Screen!Request(c, FALSE)
        \/ cl' = Screen!Connected(c) \/ cl' = c
    BY <2>1, <2>2, <2>3, <2>5, <2>7
  <2>10. Keeps(c, cl')
    BY <2>6, <2>8, <2>9, Unplugging, Requesting, Connecting, KeepsSelf, KeepsKeeps
  <2>11. Keeps(cl, cl')
    BY <2>6, <2>10, KeepsKeeps
  <2> QED
    BY <1>0, <2>11, QuietStep
<1>3. CASE Screen!ConfigFails
  <2>1. PICK d : d = [cl EXCEPT !.fetch = Screen!Nothing]
    OBVIOUS
  <2>2. Keeps(cl, d) /\ IsCl(d)
    BY <1>0, <2>1 DEF IsCl, Keeps, Onward
  <2>3. PICK c : c = Screen!Armed(d, "safety")
    OBVIOUS
  <2>4. Keeps(cl, c) /\ IsCl(c)
    <3>1. Keeps(d, c)
      BY <2>2, <2>3, Arming
    <3> QED
      BY <2>2, <3>1, KeepsKeeps DEF Keeps, Onward
  <2>5. PICK e : e = [c EXCEPT !.cfg = "fallback"]
    OBVIOUS
  <2>6. Keeps(c, e) /\ IsCl(e)
    BY <2>4, <2>5 DEF IsCl, Keeps, Onward
  <2>7. PICK f : f = Screen!Unplugged(e)
    OBVIOUS
  <2>8. Keeps(c, f) /\ IsCl(f)
    <3>1. Keeps(e, f)
      BY <2>6, <2>7, Unplugging
    <3> QED
      BY <2>6, <3>1, KeepsKeeps DEF Keeps, Onward
  <2>9. cl' = c \/ cl' = Screen!Request(f, FALSE) \/ cl' = f
    BY <1>3, <2>1, <2>3, <2>5, <2>7 DEF Screen!ConfigFails
  <2>10. Keeps(c, cl')
    BY <2>4, <2>8, <2>9, Requesting, KeepsSelf, KeepsKeeps
  <2>11. Keeps(cl, cl')
    BY <2>4, <2>10, KeepsKeeps
  <2> QED
    BY <1>0, <2>11, QuietStep
<1> QED
  BY <1>1, <1>2, <1>3

LEMMA ReloadSteps ==
    ASSUME IsScreen, Screen!Reload PROVE ScreenStep
<1>1. /\ cl' = Screen!Started(cl.cursor, cl.seen) /\ due' = {} /\ shown' = shown
      /\ Screen!rows' = Screen!rows
  BY DEF Screen!Reload, Screen!world
<1>2. /\ IsCl(cl') /\ cl'.poll = "asked" /\ cl'.page = {} /\ cl'.cursor = cl.cursor
      /\ cl'.seen = cl.seen
  BY <1>1 DEF IsCl, Screen!Started
<1> QED
  BY <1>1, <1>2 DEF ScreenStep, Restarts, Bare

LEMMA ScreenSteps == IsScreen /\ [Screen!Next]_(Screen!vars) => ScreenStep
<1> SUFFICES ASSUME IsScreen, [Screen!Next]_(Screen!vars) PROVE ScreenStep
  OBVIOUS
<1>1. CASE \E e \in Event : Screen!Commit(e)
  BY <1>1 DEF Screen!Commit, ScreenStep, Commits
<1>2. CASE Screen!Room \/ Screen!Reload
  BY <1>2, RoomSteps, ReloadSteps
<1>3. CASE Screen!Polling
  BY <1>3, PollSteps, ReplySteps, BufferSteps DEF Screen!Polling
<1>4. CASE Screen!Socket
  BY <1>4, GachaSteps, SocketSteps DEF Screen!Socket
<1>5. CASE Screen!SafetyFires \/ Screen!ConfigReply \/ Screen!ConfigFails
  BY <1>5, ConfigSteps
<1>6. CASE UNCHANGED Screen!vars
  <2>1. cl' = cl /\ Screen!rows' = Screen!rows /\ shown' = shown /\ due' = due
    BY <1>6 DEF Screen!vars, Screen!world
  <2> QED
    BY <2>1, KeepsSelf, QuietStep DEF IsScreen
<1> QED
  BY <1>1, <1>2, <1>3, <1>4, <1>5, <1>6 DEF Screen!Next

(*---------------------------------------------------------------------------*)
(* Numbers of rows.                                                          *)

LEMMA LeastRow ==
    ASSUME NEW S, S \subseteq Nat, S # {}
    PROVE  \E n \in S : \A m \in S : n <= m
<1>1. \E n \in S : \A m \in S : ~(<<m, n>> \in OpToRel(<, Nat))
  BY NatLessThanWellFounded, WFMin
<1>2. PICK n \in S : \A m \in S : ~(<<m, n>> \in OpToRel(<, Nat))
  BY <1>1
<1>3. ASSUME NEW m \in S PROVE n <= m
  <2>1. m \in Nat /\ n \in Nat /\ ~(m < n)
    BY <1>2 DEF OpToRel
  <2> QED
    BY <2>1
<1> QED
  BY <1>3

LEMMA GreatestRow ==
    ASSUME NEW S, S \subseteq Nat, S # {}, IsFiniteSet(S)
    PROVE  \E n \in S : \A m \in S : m <= n
<1> DEFINE Open(A) == A # {} /\ \A n \in A : \E m \in A : n < m
           Sizes == {k \in Nat : \E A \in SUBSET S : Open(A) /\ Cardinality(A) = k}
<1>1. SUFFICES ASSUME Open(S) PROVE FALSE
  <2>1. CASE \A n \in S : \E m \in S : ~(m <= n)
    <3>1. ASSUME NEW n \in S PROVE \E m \in S : n < m
      <4>1. PICK m \in S : ~(m <= n)
        BY <2>1
      <4>2. n < m
        BY <4>1
      <4> QED
        BY <4>2
    <3> QED
      BY <1>1, <3>1
  <2> QED
    BY <2>1
<1>2. Sizes # {}
  <2>1. Cardinality(S) \in Nat
    BY FS_CardinalityType
  <2> QED
    BY <1>1, <2>1
<1>3. PICK k \in Sizes : \A j \in Sizes : k <= j
  BY <1>2, LeastRow
<1>4. PICK A \in SUBSET S : Open(A) /\ Cardinality(A) = k
  OBVIOUS
<1>5. PICK a \in A : TRUE
  BY <1>4
<1> DEFINE B == A \ {a}
<1>6. IsFiniteSet(A) /\ IsFiniteSet(B) /\ Cardinality(B) = k - 1 /\ Cardinality(B) \in Nat
  <2>1. IsFiniteSet(A)
    BY FS_Subset
  <2>2. IsFiniteSet(B) /\ Cardinality(B) = Cardinality(A) - 1
    BY <1>5, <2>1, FS_RemoveElement
  <2>3. Cardinality(B) \in Nat
    BY <2>2, FS_CardinalityType
  <2> QED
    BY <1>4, <2>1, <2>2, <2>3
<1>7. PICK c \in A : a < c
  BY <1>4, <1>5
<1>8. c \in B /\ B \in SUBSET S
  BY <1>5, <1>7
<1>9. ~Open(B)
  <2>1. ASSUME Open(B) PROVE FALSE
    <3>1. k - 1 \in Sizes
      BY <1>6, <1>8, <2>1
    <3>2. k <= k - 1 /\ k \in Nat
      BY <1>3, <3>1
    <3> QED
      BY <3>2
  <2> QED
    BY <2>1
<1>10. PICK b \in B : \A m \in B : ~(b < m)
  BY <1>8, <1>9
<1>11. PICK d \in A : b < d
  BY <1>4, <1>10
<1>12. d = a
  BY <1>10, <1>11
<1>13. ~(b < c) /\ b \in Nat /\ c \in Nat /\ a \in Nat
  BY <1>4, <1>5, <1>8, <1>10
<1> QED
  BY <1>7, <1>11, <1>12, <1>13

\* A page of the history: the first rows behind the cursor.
LEMMA Pages ==
    ASSUME RowsNumbered, committed \subseteq Event, IsFiniteSet(committed), NEW c \in Nat
    PROVE  /\ Screen!Page(c) \subseteq committed
           /\ \A e \in Screen!Page(c) : e > c
           /\ \A e \in committed, f \in Screen!Page(c) :
                c < e /\ e <= f => e \in Screen!Page(c)
           /\ Screen!Page(c) = {} => \A e \in committed : e <= c
<1> DEFINE B == {e \in committed : e > c}
           L(e) == {f \in B : f <= e}
<1>1. B \subseteq Nat /\ IsFiniteSet(B)
  <2>1. B \subseteq committed
    OBVIOUS
  <2> QED
    BY <2>1, FS_Subset DEF RowsNumbered
<1>2. \A S : Screen!Cardinality(S) = Cardinality(S)
  BY DEF Screen!Cardinality, Screen!IsFiniteSet, Cardinality, IsFiniteSet
<1>3. Screen!Page(c) = {e \in B : Cardinality(L(e)) <= PageRows}
  BY <1>2 DEF Screen!Page, Screen!Behind
<1>4. ASSUME NEW e \in B, NEW f \in B, e <= f, Cardinality(L(f)) <= PageRows
      PROVE  Cardinality(L(e)) <= PageRows
  <2>1. L(e) \subseteq L(f)
    BY <1>1, <1>4
  <2>2. IsFiniteSet(L(f)) /\ IsFiniteSet(L(e))
    BY <1>1, FS_Subset
  <2>3. Cardinality(L(e)) <= Cardinality(L(f))
    BY <2>1, <2>2, FS_Subset
  <2>4. Cardinality(L(e)) \in Nat /\ Cardinality(L(f)) \in Nat
    BY <2>2, FS_CardinalityType
  <2> QED
    BY <1>4, <2>3, <2>4 DEF RowsNumbered
<1>5. ASSUME B # {} PROVE \E e \in B : Cardinality(L(e)) <= PageRows
  <2>1. PICK e \in B : \A f \in B : e <= f
    BY <1>1, <1>5, LeastRow
  <2>2. L(e) = {e}
    BY <1>1, <2>1
  <2>3. Cardinality(L(e)) = 1
    BY <2>2, FS_Singleton
  <2> QED
    BY <2>3 DEF RowsNumbered
<1>6. ASSUME NEW e \in committed PROVE e \in Nat
  BY DEF RowsNumbered
<1> DEFINE P == {e \in B : Cardinality(L(e)) <= PageRows}
<1>7. P \subseteq committed /\ \A e \in P : e > c
  OBVIOUS
<1>8. ASSUME NEW e \in committed, NEW f \in P, c < e, e <= f PROVE e \in P
  <2>1. e \in B /\ f \in B /\ Cardinality(L(f)) <= PageRows
    BY <1>6, <1>8
  <2>2. Cardinality(L(e)) <= PageRows
    BY <1>4, <1>8, <2>1
  <2> QED
    BY <2>1, <2>2
<1>9. ASSUME P = {}, NEW e \in committed PROVE e <= c
  <2>1. B = {}
    BY <1>5, <1>9
  <2>2. ~(e > c)
    BY <2>1
  <2> QED
    BY <1>6, <2>2
<1>10. Screen!Page(c) = P
  BY <1>3
<1> HIDE DEF P
<1> QED
  BY <1>7, <1>8, <1>9, <1>10

\* The cursor moves to the last row of a page.
LEMMA Moving ==
    ASSUME NEW S, S \subseteq Nat, IsFiniteSet(S), NEW c
    PROVE  IF S = {} THEN Screen!Moved(c, S) = c
           ELSE Screen!Moved(c, S) \in S /\ \A e \in S : e <= Screen!Moved(c, S)
<1>1. CASE S = {}
  BY <1>1 DEF Screen!Moved
<1>2. CASE S # {}
  <2>1. PICK n \in S : \A m \in S : m <= n
    BY <1>2, GreatestRow
  <2>2. \A m \in S : n >= m
    BY <2>1
  <2>3. PICK x : x = Screen!Max(S)
    OBVIOUS
  <2>4. x \in S /\ \A m \in S : x >= m
    BY <2>2, <2>3 DEF Screen!Max
  <2>5. \A m \in S : m <= x
    BY <2>4
  <2> QED
    BY <1>2, <2>3, <2>4, <2>5 DEF Screen!Moved
<1> QED
  BY <1>1, <1>2

(*---------------------------------------------------------------------------*)
(* What is shown.                                                            *)

\* What was counted is what was seen.
ScreenOnce == IsScreen /\ \A e \in Event : shown[e] = IF e \in cl.seen THEN 1 ELSE 0

LEMMA OnceStarts == Screen!Init => ScreenOnce
<1> SUFFICES ASSUME Screen!Init PROVE ScreenOnce
  OBVIOUS
<1>1. cl = Screen!Started(0, {}) /\ shown = [e \in Event |-> 0]
  BY DEF Screen!Init
<1>2. IsCl(cl) /\ cl.seen = {}
  BY <1>1 DEF IsCl, Screen!Started
<1> QED
  BY <1>1, <1>2 DEF ScreenOnce, IsScreen

LEMMA OnceKept == ScreenOnce /\ [Screen!Next]_(Screen!vars) => ScreenOnce'
<1> SUFFICES ASSUME ScreenOnce, [Screen!Next]_(Screen!vars) PROVE ScreenOnce'
  OBVIOUS
<1>0. ScreenStep /\ IsCl(cl) /\ shown \in [Event -> Nat]
  BY ScreenSteps DEF ScreenOnce, IsScreen
<1>1. CASE shown' = shown /\ cl'.seen = cl.seen /\ IsCl(cl')
  BY <1>0, <1>1 DEF ScreenOnce, IsScreen
<1>2. CASE IsCl(cl') /\ \E E : Hands(E)
  <2>1. PICK E : Hands(E)
    BY <1>2
  <2>2. shown' = [e \in Event |-> IF e \in E \ cl.seen THEN shown[e] + 1 ELSE shown[e]]
    BY <2>1 DEF Hands, Counted
  <2>3. shown' \in [Event -> Nat]
    BY <1>0, <2>2
  <2>4. cl'.seen = cl.seen \cup E
    BY <2>1 DEF Hands
  <2>5. ASSUME NEW e \in Event PROVE shown'[e] = IF e \in cl'.seen THEN 1 ELSE 0
    <3>1. shown[e] = IF e \in cl.seen THEN 1 ELSE 0
      BY DEF ScreenOnce
    <3>2. shown'[e] = IF e \in E \ cl.seen THEN shown[e] + 1 ELSE shown[e]
      BY <2>2
    <3> QED
      BY <2>4, <3>1, <3>2
  <2> QED
    BY <1>2, <2>3, <2>5 DEF ScreenOnce, IsScreen
<1> QED
  BY <1>0, <1>1, <1>2
  DEF ScreenStep, Commits, Goes, Fires, Reads, Replies, Misses, Restarts, Bare

(* A draw is shown once at most, whichever ways bring it and however often *)
(* the page reloads; for any rooms, endpoints, faults and late commits.    *)
THEOREM DrawsShownOnce == Screen!Spec => []Screen!ShownOnce
<1>1. ScreenOnce => Screen!ShownOnce
  BY DEF ScreenOnce, Screen!ShownOnce
<1> QED
  BY <1>1, OnceStarts, OnceKept, PTL DEF Screen!Spec

\* The cursor and a page that was read pass no row but those that were late.
RowsInOrder ==
    /\ committed \subseteq Event /\ IsFiniteSet(committed)
    /\ late \subseteq committed
    /\ cl.cursor \in committed \cup {0}
    /\ \A e \in committed \ late : e <= cl.cursor => e \in cl.seen
    /\ cl.poll = "read" =>
         /\ cl.page \subseteq committed
         /\ \A e \in cl.page : e > cl.cursor
         /\ \A e \in committed \ late, f \in cl.page :
              cl.cursor < e /\ e <= f => e \in cl.page

\* What is owed and was not late was seen, or another poll follows.
Owed == due \ late
OwedComes ==
    /\ due \subseteq committed
    /\ cl.poll = "idle" /\ "poll" \notin cl.timers => Owed \subseteq cl.seen
    /\ cl.poll = "read" /\ ~cl.trailing /\ cl.page = {} => Owed \subseteq cl.seen

RecoveryInv == ScreenOnce /\ RowsInOrder /\ OwedComes

LEMMA RecoveryStarts == Screen!Init => RecoveryInv
<1> SUFFICES ASSUME Screen!Init PROVE RecoveryInv
  OBVIOUS
<1>1. cl = Screen!Started(0, {}) /\ committed = {} /\ late = {} /\ due = {}
  BY DEF Screen!Init
<1>2. cl.poll = "asked" /\ cl.cursor = 0
  BY <1>1 DEF Screen!Started
<1> QED
  BY <1>1, <1>2, OnceStarts, FS_EmptySet DEF RecoveryInv, RowsInOrder, OwedComes, Owed

LEMMA CommitOrdered ==
    ASSUME RowsNumbered, RecoveryInv, Commits
    PROVE  RowsInOrder' /\ OwedComes'
<1>1. PICK e \in Event \ committed :
        /\ committed' = committed \cup {e}
        /\ late' = IF Screen!Passed(e) THEN late \cup {e} ELSE late
  BY DEF Commits
<1>2. cl' = cl /\ due' = due
  BY DEF Commits
<1>3. /\ committed \subseteq Event /\ IsFiniteSet(committed) /\ late \subseteq committed
      /\ cl.cursor \in committed \cup {0} /\ due \subseteq committed
      /\ \A d \in committed \ late : d <= cl.cursor => d \in cl.seen
  BY DEF RecoveryInv, RowsInOrder, OwedComes
<1>4. IsFiniteSet(committed') /\ committed' \subseteq Event /\ late' \subseteq committed'
  BY <1>1, <1>3, FS_AddElement
<1>5. e \in Nat /\ committed \subseteq Nat
  BY <1>1, <1>3 DEF RowsNumbered
<1>6. committed' \ late' \subseteq (committed \ late) \cup (IF Screen!Passed(e) THEN {} ELSE {e})
  BY <1>1
<1>7. \A d \in committed' \ late' : d <= cl.cursor => d \in cl.seen
  BY <1>3, <1>6 DEF Screen!Passed
<1>8. cl.poll = "read" =>
        /\ cl.page \subseteq committed' /\ \A d \in cl.page : d > cl.cursor
        /\ \A d \in committed' \ late', f \in cl.page :
             cl.cursor < d /\ d <= f => d \in cl.page
  <2> SUFFICES ASSUME cl.poll = "read"
               PROVE  /\ cl.page \subseteq committed' /\ \A d \in cl.page : d > cl.cursor
                      /\ \A d \in committed' \ late', f \in cl.page :
                           cl.cursor < d /\ d <= f => d \in cl.page
    OBVIOUS
  <2>1. /\ cl.page \subseteq committed /\ \A d \in cl.page : d > cl.cursor
        /\ \A d \in committed \ late, f \in cl.page :
             cl.cursor < d /\ d <= f => d \in cl.page
    BY DEF RecoveryInv, RowsInOrder
  <2>2. ASSUME NEW f \in cl.page, e <= f, ~Screen!Passed(e) PROVE e \in cl.page
    <3>1. ~(e < f)
      BY <2>2 DEF Screen!Passed
    <3>2. f \in Nat
      BY <1>5, <2>1
    <3> QED
      BY <1>5, <2>2, <3>1, <3>2
  <2> QED
    BY <1>1, <1>6, <2>1, <2>2
<1>9. RowsInOrder'
  BY <1>1, <1>2, <1>3, <1>4, <1>7, <1>8 DEF RowsInOrder
<1>10. Owed' \subseteq Owed
  BY <1>1, <1>2, <1>3 DEF Owed
<1>11. OwedComes'
  BY <1>1, <1>2, <1>3, <1>10 DEF RecoveryInv, OwedComes
<1> QED
  BY <1>9, <1>11

LEMMA PollOrdered ==
    ASSUME RowsNumbered, RecoveryInv, committed' = committed, late' = late, IsCl(cl'),
           Goes \/ Fires \/ Reads \/ Replies \/ Misses \/ Restarts
    PROVE  RowsInOrder' /\ OwedComes'
<1>0. /\ committed \subseteq Event /\ IsFiniteSet(committed)
      /\ late \subseteq committed
      /\ cl.cursor \in committed \cup {0} /\ due \subseteq committed
      /\ committed \subseteq Nat /\ cl.cursor \in Nat
  <2>1. /\ committed \subseteq Event /\ IsFiniteSet(committed)
        /\ late \subseteq committed
        /\ cl.cursor \in committed \cup {0} /\ due \subseteq committed
    BY DEF RecoveryInv, RowsInOrder, OwedComes
  <2>2. committed \subseteq Nat
    BY <2>1 DEF RowsNumbered
  <2>3. cl.cursor \in Nat
    <3>1. cl.cursor \in committed \/ cl.cursor = 0
      BY <2>1
    <3>2. \A x \in committed : x \in Nat
      BY <2>2
    <3>3. CASE cl.cursor \in committed
      BY <3>2, <3>3
    <3>4. CASE cl.cursor = 0
      BY <3>4
    <3> QED
      BY <3>1, <3>3, <3>4
  <2> QED
    BY <2>1, <2>2, <2>3
<1>1. CASE Goes
  <2>1. cl.seen \subseteq cl'.seen
    BY <1>1 DEF Goes, Hands
  <2>2. RowsInOrder'
    BY <1>0, <1>1, <2>1 DEF RecoveryInv, RowsInOrder, Goes, Onward
  <2>3. CASE due' = due
    <3>1. /\ cl'.poll = cl.poll /\ cl'.page = cl.page
          /\ "poll" \notin cl'.timers => "poll" \notin cl.timers
          /\ ~cl'.trailing => ~cl.trailing
      BY <1>1 DEF Goes, Onward
    <3>2. /\ cl.poll = "idle" /\ "poll" \notin cl.timers => Owed \subseteq cl.seen
          /\ cl.poll = "read" /\ ~cl.trailing /\ cl.page = {} => Owed \subseteq cl.seen
      BY DEF RecoveryInv, OwedComes
    <3>3. /\ cl'.poll = "idle" /\ "poll" \notin cl'.timers => Owed \subseteq cl'.seen
          /\ cl'.poll = "read" /\ ~cl'.trailing /\ cl'.page = {} => Owed \subseteq cl'.seen
      BY <2>1, <3>1, <3>2, Zenon
    <3>4. due' \subseteq committed'
      BY <1>0, <2>3
    <3>5. /\ cl'.poll = "idle" /\ "poll" \notin cl'.timers => Owed' \subseteq cl'.seen
          /\ cl'.poll = "read" /\ ~cl'.trailing /\ cl'.page = {} => Owed' \subseteq cl'.seen
      <4>1. Owed' = Owed
        BY <2>3 DEF Owed
      <4> QED
        BY <3>3, <4>1
    <3> QED
      BY <2>2, <3>4, <3>5, Zenon DEF OwedComes, Owed
  <2>4. CASE due' = committed /\ Asks(cl')
    <3>1. /\ ~(cl'.poll = "idle" /\ "poll" \notin cl'.timers)
          /\ ~(cl'.poll = "read" /\ ~cl'.trailing /\ cl'.page = {})
      BY <2>4, Zenon DEF Asks
    <3>2. due' \subseteq committed'
      BY <2>4
    <3> QED
      BY <2>2, <3>1, <3>2, Zenon DEF OwedComes, Owed
  <2> QED
    BY <1>1, <2>2, <2>3, <2>4 DEF Goes
<1>2. CASE Fires
  BY <1>0, <1>2 DEF RecoveryInv, RowsInOrder, OwedComes, Owed, Fires, Bare
<1>3. CASE Reads
  <2>1. /\ cl'.poll = "read" /\ cl'.cursor = cl.cursor /\ cl'.seen = cl.seen
        /\ cl'.page = Screen!Page(cl.cursor) /\ due' = due
    BY <1>3 DEF Reads, Bare
  <2>2. /\ cl'.page \subseteq committed
        /\ \A e \in cl'.page : e > cl.cursor
        /\ \A e \in committed, f \in cl'.page : cl.cursor < e /\ e <= f => e \in cl'.page
        /\ cl'.page = {} => \A e \in committed : e <= cl.cursor
    BY <1>0, <2>1, Pages
  <2>3. RowsInOrder'
    BY <1>0, <2>1, <2>2 DEF RecoveryInv, RowsInOrder
  <2>4. cl'.page = {} => Owed \subseteq cl.seen
    BY <1>0, <2>2 DEF RecoveryInv, RowsInOrder, Owed
  <2> QED
    BY <1>0, <2>1, <2>3, <2>4 DEF OwedComes, Owed
<1>4. CASE Replies
  <2>1. PICK E : cl.page \subseteq E /\ Hands(E)
    BY <1>4 DEF Replies
  <2>2. /\ cl.poll = "read" /\ cl'.poll = "idle" /\ due' = due
        /\ cl'.cursor = Screen!Moved(cl.cursor, cl.page)
        /\ "poll" \in cl'.timers \/ (cl.page = {} /\ ~cl.trailing)
        /\ cl.seen \cup cl.page \subseteq cl'.seen
    BY <1>4, <2>1 DEF Replies, Hands
  <2>3. /\ cl.page \subseteq committed
        /\ \A e \in committed \ late, f \in cl.page : cl.cursor < e /\ e <= f => e \in cl.page
        /\ \A e \in committed \ late : e <= cl.cursor => e \in cl.seen
    BY <2>2 DEF RecoveryInv, RowsInOrder
  <2>4. IsFiniteSet(cl.page) /\ cl.page \subseteq Nat
    BY <1>0, <2>3, FS_Subset
  <2>5. IF cl.page = {} THEN cl'.cursor = cl.cursor
        ELSE cl'.cursor \in cl.page /\ \A e \in cl.page : e <= cl'.cursor
    BY <2>2, <2>4, Moving
  <2>6. ASSUME NEW e \in committed \ late, e <= cl'.cursor PROVE e \in cl'.seen
    <3>0. e \in Nat /\ cl.cursor \in Nat
      BY <1>0, <2>6
    <3>1. CASE e <= cl.cursor
      BY <2>2, <2>3, <3>1
    <3>2. CASE cl.cursor < e
      <4>1. cl.page # {}
        BY <1>0, <2>5, <2>6, <3>2
      <4>2. e \in cl.page
        BY <2>3, <2>5, <2>6, <3>2, <4>1
      <4> QED
        BY <2>2, <4>2
    <3> QED
      BY <3>0, <3>1, <3>2
  <2>7. cl'.cursor \in committed \cup {0}
    BY <1>0, <2>3, <2>5
  <2>8. RowsInOrder'
    BY <1>0, <2>2, <2>6, <2>7 DEF RowsInOrder
  <2>9. cl.page = {} /\ ~cl.trailing => Owed \subseteq cl.seen
    BY <2>2 DEF RecoveryInv, OwedComes
  <2> QED
    BY <1>0, <2>2, <2>8, <2>9 DEF OwedComes, Owed
<1>5. CASE Misses
  BY <1>0, <1>5 DEF RecoveryInv, RowsInOrder, OwedComes, Owed, Misses, Bare
<1>6. CASE Restarts
  BY <1>0, <1>6 DEF RecoveryInv, RowsInOrder, OwedComes, Owed, Restarts, Bare
<1> QED
  BY <1>1, <1>2, <1>3, <1>4, <1>5, <1>6

LEMMA RecoveryKept ==
    ASSUME RowsNumbered
    PROVE  RecoveryInv /\ [Screen!Next]_(Screen!vars) => RecoveryInv'
<1> SUFFICES ASSUME RecoveryInv, [Screen!Next]_(Screen!vars) PROVE RecoveryInv'
  OBVIOUS
<1>1. ScreenOnce'
  BY OnceKept DEF RecoveryInv
<1>2. ScreenStep
  BY ScreenSteps DEF RecoveryInv, ScreenOnce
<1>3. RowsInOrder' /\ OwedComes'
  BY <1>2, CommitOrdered, PollOrdered DEF ScreenStep, Screen!rows
<1> QED
  BY <1>1, <1>3 DEF RecoveryInv

LEMMA RecoveryInvariance ==
    ASSUME RowsNumbered PROVE Screen!Spec => []RecoveryInv
BY RecoveryStarts, RecoveryKept, PTL DEF Screen!Spec

(* The cursor never passes a committed row that was not shown, whatever is *)
(* pushed, lost or reloaded meanwhile and in whatever order rows commit:   *)
(* only a row that committed behind it, or behind a page that was read by  *)
(* then, may stay unshown there.                                           *)
THEOREM CursorPassesNone ==
    ASSUME RowsNumbered PROVE Screen!Spec => []Screen!NoneBehindCursor
<1>1. RecoveryInv => Screen!NoneBehindCursor
  <2> SUFFICES ASSUME RecoveryInv, NEW e \in committed \ late, e <= cl.cursor PROVE shown[e] > 0
    BY DEF Screen!NoneBehindCursor
  <2>1. e \in cl.seen /\ e \in Event
    BY DEF RecoveryInv, RowsInOrder
  <2> QED
    BY <2>1 DEF RecoveryInv, ScreenOnce
<1> QED
  BY <1>1, RecoveryInvariance, PTL

(* Once a recovery that a new line, a lost line or a gap asked for is over,*)
(* all that could be read when it was asked for has been shown, also when  *)
(* it was asked for while a poll was under way; but for rows that had      *)
(* committed behind the cursor.                                            *)
THEOREM RecoveriesCover ==
    ASSUME RowsNumbered PROVE Screen!Spec => []Screen!RecoveryCovers
<1>1. RecoveryInv => Screen!RecoveryCovers
  <2> SUFFICES ASSUME RecoveryInv, cl.poll = "idle", "poll" \notin cl.timers, NEW e \in due \ late
               PROVE  shown[e] > 0
    BY DEF Screen!RecoveryCovers
  <2>1. e \in cl.seen /\ e \in Event
    BY DEF RecoveryInv, RowsInOrder, OwedComes, Owed
  <2> QED
    BY <2>1 DEF RecoveryInv, ScreenOnce
<1> QED
  BY <1>1, RecoveryInvariance, PTL

=============================================================================
