--------------------------- MODULE Accounts_proofs ---------------------------
(*****************************************************************************)
(* Proofs about TokenRefresh for every set of requests and callbacks and     *)
(* every number of tokens, and about Login for any scopes, flows and faults. *)
(*****************************************************************************)
EXTENDS TokenRefresh, Sequences, TLAPS, SequenceTheorems

CONSTANTS Browser, User, Scope, Returning, MaxFlows, Kinds, Losses   \* Login

VARIABLES rows, cookies, flows, last, wanted, kept, by               \* Login

Sign == INSTANCE Login WITH Faults <- Losses

-----------------------------------------------------------------------------
(* The lease and the tokens.                                                 *)

(* Tokens carry the number Twitch gave them; polls are counted.            *)
Numbered ==
    /\ refresh <= issued /\ again.refresh <= issued
    /\ \A r \in Request : tried[r] <= issued /\ pair[r].refresh <= issued
    /\ \A r \in Request :
         pc[r] \in {"idle", "acquire", "follow"} => polls[r] < MaxPolls

(* The owner of the lease took it after the last login or logout; when  *)
(* its time is up it has lapsed.                                           *)
Fence ==
    /\ \A r \in Request : lease = r => since[r] = epoch
    /\ lease # None /\ ~live => lease \in lapsed

(* Twitch never accepts a token again that it has refused.                 *)
Refused ==
    /\ DisabledIsDead
    /\ \A r \in Request :
         /\ (pc[r] = "fallback" /\ denied[r]) \/ pc[r] = "mark" => tried[r] \notin valid
         /\ pc[r] \in {"idle", "acquire", "exchange"} => ~denied[r]

Stored == (access # 0 => access \in stored) /\ AnswersStored

IInv == /\ TypeOK /\ Numbered /\ Fence /\ LeaderOwnsLease /\ Refused /\ Stored

(* What Twitch accepts stays among the tokens it has issued.               *)
LEMMA IssueType ==
    ASSUME NEW r \in Request, NEW n \in Token, TypeOK, Issue(r, n)
    PROVE  /\ issued' \in Token /\ valid' \in SUBSET (1..issued')
           /\ n \in 1..issued' /\ valid' \ valid \subseteq {issued + 1}
<1>1. valid \in SUBSET (1..issued) /\ issued \in 0..MaxIssued /\ tried[r] \in valid
  BY DEF TypeOK, Token, Issue
<1>2. issued' = issued + 1 /\ issued < MaxIssued /\ n \in {tried[r], issued + 1}
  BY DEF Issue
<1>3. valid' = (valid \ {tried[r]}) \cup {n}
  BY DEF Issue
<1>4. issued' \in Token /\ n \in 1..issued'
  BY <1>1, <1>2, BoundAssumption DEF Token
<1>5. valid' \in SUBSET (1..issued')
  <2> SUFFICES ASSUME NEW x \in valid' PROVE x \in 1..issued'
    OBVIOUS
  <2> QED
    BY <1>1, <1>2, <1>3, <1>4
<1>6. valid' \ valid \subseteq {issued + 1}
  BY <1>1, <1>2, <1>3
<1> QED
  BY <1>4, <1>5, <1>6

(* No credential: nothing changes but the request.                         *)
LEMMA ReadNothingInductive ==
    ASSUME NEW r \in Request, IInv, ReadNothing(r)
    PROVE  IInv'
<1> USE BoundAssumption, KindAssumption, NoneAssumption
<1>1. TypeOK'
  BY DEF IInv, TypeOK, Token, Pair, Blank, Phase, Leading, Working,
     DisabledIsDead, AnswersStored, ReadNothing, Goto, row, twitch, reqs,
     writers, ghosts
<1>2. Numbered'
  BY DEF IInv, TypeOK, Numbered, Token, Pair, Blank, DisabledIsDead,
     AnswersStored, ReadNothing, Goto, row, twitch, reqs, writers, ghosts
<1>3. Fence'
  BY DEF IInv, TypeOK, Fence, DisabledIsDead, AnswersStored, ReadNothing, Goto,
     row, twitch, reqs, writers, ghosts
<1>4. LeaderOwnsLease'
  BY DEF IInv, TypeOK, LeaderOwnsLease, Leading, Fence, DisabledIsDead,
     AnswersStored, ReadNothing, Goto, row, twitch, reqs, writers, ghosts
<1>5. Refused'
  BY DEF IInv, TypeOK, Refused, Numbered, Token, Pair, DisabledIsDead,
     AnswersStored, ReadNothing, Goto, row, twitch, reqs, writers, ghosts
<1>6. Stored'
  BY DEF IInv, TypeOK, Stored, Token, Pair, DisabledIsDead, AnswersStored,
     ReadNothing, Goto, row, twitch, reqs, writers, ghosts
<1> QED
  BY <1>1, <1>2, <1>3, <1>4, <1>5, <1>6 DEF IInv

(* A request remembers the account and the refresh token it read.          *)
LEMMA ReadRowInductive ==
    ASSUME NEW r \in Request, IInv, ReadRow(r)
    PROVE  IInv'
<1> USE BoundAssumption, KindAssumption, NoneAssumption
<1>1. TypeOK'
  <2>1. pc' \in [Request -> Phase]
    BY DEF IInv, TypeOK, ReadRow, Goto, Phase, Working, Leading
  <2>2. acct' \in [Request -> Nat] /\ tried' \in [Request -> Token]
    BY DEF IInv, TypeOK, ReadRow, Token, row
  <2>3. answer' \in [Request -> Token]
    BY DEF IInv, TypeOK, ReadRow, Winner, Token
  <2> QED
    BY <2>1, <2>2, <2>3 DEF IInv, TypeOK, ReadRow, row, twitch, reqs, writers,
       ghosts
<1>2. Numbered'
  BY DEF IInv, TypeOK, Numbered, Token, Pair, Blank, DisabledIsDead,
     AnswersStored, ReadRow, Goto, row, twitch, reqs, writers, ghosts
<1>3. Fence'
  BY DEF IInv, TypeOK, Fence, DisabledIsDead, AnswersStored, ReadRow, Goto,
     row, twitch, reqs, writers, ghosts
<1>4. LeaderOwnsLease'
  BY DEF IInv, TypeOK, LeaderOwnsLease, Leading, Fence, DisabledIsDead,
     AnswersStored, ReadRow, Goto, row, twitch, reqs, writers, ghosts
<1>5. Refused'
  BY DEF IInv, TypeOK, Refused, Numbered, Token, Pair, DisabledIsDead,
     AnswersStored, ReadRow, Goto, row, twitch, reqs, writers, ghosts
<1>6. Stored'
  BY DEF IInv, TypeOK, Stored, Token, Pair, DisabledIsDead, AnswersStored,
     ReadRow, Goto, row, twitch, reqs, writers, ghosts
<1> QED
  BY <1>1, <1>2, <1>3, <1>4, <1>5, <1>6 DEF IInv

(* The owner of the lease is new, and so is its view of the row.           *)
LEMMA AcquireInductive ==
    ASSUME NEW r \in Request, IInv, Acquire(r)
    PROVE  IInv'
<1> USE BoundAssumption, KindAssumption, NoneAssumption
<1>1. TypeOK'
  BY DEF IInv, TypeOK, Token, Pair, Blank, Phase, Leading, Working,
     DisabledIsDead, AnswersStored, Acquire, Goto, row, twitch, reqs, writers,
     ghosts, Acquirable, Free, Same
<1>2. Numbered'
  BY DEF IInv, TypeOK, Numbered, Token, Pair, Blank, DisabledIsDead,
     AnswersStored, Acquire, Goto, row, twitch, reqs, writers, ghosts,
     Acquirable, Free, Same
<1>3. Fence'
  BY DEF IInv, TypeOK, Fence, DisabledIsDead, AnswersStored, Acquire, Goto,
     row, twitch, reqs, writers, ghosts, Acquirable, Free, Same
<1>4. LeaderOwnsLease'
  BY DEF IInv, TypeOK, LeaderOwnsLease, Leading, Fence, DisabledIsDead,
     AnswersStored, Acquire, Goto, row, twitch, reqs, writers, ghosts,
     Acquirable, Free, Same
<1>5. Refused'
  BY DEF IInv, TypeOK, Refused, Numbered, Token, Pair, DisabledIsDead,
     AnswersStored, Acquire, Goto, row, twitch, reqs, writers, ghosts,
     Acquirable, Free, Same
<1>6. Stored'
  BY DEF IInv, TypeOK, Stored, Token, Pair, DisabledIsDead, AnswersStored,
     Acquire, Goto, row, twitch, reqs, writers, ghosts, Acquirable, Free, Same
<1> QED
  BY <1>1, <1>2, <1>3, <1>4, <1>5, <1>6 DEF IInv

(* A follower owns nothing.                                                *)
LEMMA NotAcquiredInductive ==
    ASSUME NEW r \in Request, IInv, NotAcquired(r)
    PROVE  IInv'
<1> USE BoundAssumption, KindAssumption, NoneAssumption
<1>1. TypeOK'
  BY DEF IInv, TypeOK, Token, Pair, Blank, Phase, Leading, Working,
     DisabledIsDead, AnswersStored, NotAcquired, Goto, row, twitch, reqs,
     writers, ghosts
<1>2. Numbered'
  BY DEF IInv, TypeOK, Numbered, Token, Pair, Blank, DisabledIsDead,
     AnswersStored, NotAcquired, Goto, row, twitch, reqs, writers, ghosts
<1>3. Fence'
  BY DEF IInv, TypeOK, Fence, DisabledIsDead, AnswersStored, NotAcquired, Goto,
     row, twitch, reqs, writers, ghosts
<1>4. LeaderOwnsLease'
  BY DEF IInv, TypeOK, LeaderOwnsLease, Leading, Fence, DisabledIsDead,
     AnswersStored, NotAcquired, Goto, row, twitch, reqs, writers, ghosts
<1>5. Refused'
  BY DEF IInv, TypeOK, Refused, Numbered, Token, Pair, DisabledIsDead,
     AnswersStored, NotAcquired, Goto, row, twitch, reqs, writers, ghosts
<1>6. Stored'
  BY DEF IInv, TypeOK, Stored, Token, Pair, DisabledIsDead, AnswersStored,
     NotAcquired, Goto, row, twitch, reqs, writers, ghosts
<1> QED
  BY <1>1, <1>2, <1>3, <1>4, <1>5, <1>6 DEF IInv

(* A follower answers with the token in the row, or with none.             *)
LEMMA PollInductive ==
    ASSUME NEW r \in Request, IInv, Poll(r)
    PROVE  IInv'
<1> USE BoundAssumption, KindAssumption, NoneAssumption
<1>1. TypeOK'
  <2>1. pc' \in [Request -> Phase]
    BY DEF IInv, TypeOK, Poll, Goto, Phase, Working, Leading
  <2>2. answer' \in [Request -> Token]
    BY DEF IInv, TypeOK, Poll, Winner, Token
  <2>3. polls' \in [Request -> 0..MaxPolls]
    BY DEF IInv, TypeOK, Poll, Numbered
  <2> QED
    BY <2>1, <2>2, <2>3 DEF IInv, TypeOK, Poll, row, twitch, reqs, writers,
       ghosts
<1>2. Numbered'
  BY SMTT(30) DEF IInv, TypeOK, Numbered, Token, Pair, Blank, DisabledIsDead,
     AnswersStored, Poll, Goto, row, twitch, reqs, writers, ghosts, Winner,
     Same
<1>3. Fence'
  BY DEF IInv, TypeOK, Fence, DisabledIsDead, AnswersStored, Poll, Goto, row,
     twitch, reqs, writers, ghosts, Winner, Same
<1>4. LeaderOwnsLease'
  BY DEF IInv, TypeOK, LeaderOwnsLease, Leading, Fence, DisabledIsDead,
     AnswersStored, Poll, Goto, row, twitch, reqs, writers, ghosts, Winner,
     Same
<1>5. Refused'
  BY DEF IInv, TypeOK, Refused, Numbered, Token, Pair, DisabledIsDead,
     AnswersStored, Poll, Goto, row, twitch, reqs, writers, ghosts, Winner,
     Same
<1>6. Stored'
  BY DEF IInv, TypeOK, Stored, Token, Pair, DisabledIsDead, AnswersStored,
     Poll, Goto, row, twitch, reqs, writers, ghosts, Winner, Same
<1> QED
  BY <1>1, <1>2, <1>3, <1>4, <1>5, <1>6 DEF IInv

(* Twitch gives the new pair the next number.                              *)
LEMMA ExchangeInductive ==
    ASSUME NEW r \in Request, IInv, Exchange(r)
    PROVE  IInv'
<1> USE BoundAssumption, KindAssumption, NoneAssumption
<1>1. TypeOK'
  <2>1. pc' \in [Request -> Phase]
    BY DEF IInv, TypeOK, Exchange, Goto, Phase, Working, Leading
  <2>2. issued' \in Token /\ valid' \in SUBSET (1..issued')
    BY IssueType DEF IInv, TypeOK, Exchange, Token, twitch, row
  <2>3. pair' \in [Request -> Pair]
    BY DEF IInv, TypeOK, Exchange, Issue, Token, Pair
  <2> QED
    BY <2>1, <2>2, <2>3 DEF IInv, TypeOK, Exchange, row, twitch, reqs, writers,
       ghosts
<1>2. Numbered'
  BY DEF IInv, TypeOK, Numbered, Token, Pair, Blank, DisabledIsDead,
     AnswersStored, Exchange, Goto, row, twitch, reqs, writers, ghosts, Issue
<1>3. Fence'
  BY DEF IInv, TypeOK, Fence, DisabledIsDead, AnswersStored, Exchange, Goto,
     row, twitch, reqs, writers, ghosts, Issue
<1>4. LeaderOwnsLease'
  BY DEF IInv, TypeOK, LeaderOwnsLease, Leading, Fence, DisabledIsDead,
     AnswersStored, Exchange, Goto, row, twitch, reqs, writers, ghosts, Issue
<1>5. Refused'
  BY DEF IInv, TypeOK, Refused, Numbered, Token, Pair, DisabledIsDead,
     AnswersStored, Exchange, Goto, row, twitch, reqs, writers, ghosts, Issue
<1>6. Stored'
  BY DEF IInv, TypeOK, Stored, Token, Pair, DisabledIsDead, AnswersStored,
     Exchange, Goto, row, twitch, reqs, writers, ghosts, Issue
<1> QED
  BY <1>1, <1>2, <1>3, <1>4, <1>5, <1>6 DEF IInv

(* The answer is lost: only Twitch has changed.                            *)
LEMMA ExchangeLostInductive ==
    ASSUME NEW r \in Request, IInv, ExchangeLost(r)
    PROVE  IInv'
<1> USE BoundAssumption, KindAssumption, NoneAssumption
<1>1. TypeOK'
  <2>1. pc' \in [Request -> Phase]
    BY DEF IInv, TypeOK, ExchangeLost, Goto, Phase, Working, Leading
  <2>2. issued' \in Token /\ valid' \in SUBSET (1..issued')
    BY IssueType DEF IInv, TypeOK, ExchangeLost, Token, twitch, row
  <2> QED
    BY <2>1, <2>2 DEF IInv, TypeOK, ExchangeLost, row, twitch, reqs, writers,
       ghosts
<1>2. Numbered'
  BY DEF IInv, TypeOK, Numbered, Token, Pair, Blank, DisabledIsDead,
     AnswersStored, ExchangeLost, Goto, row, twitch, reqs, writers, ghosts,
     Issue
<1>3. Fence'
  BY DEF IInv, TypeOK, Fence, DisabledIsDead, AnswersStored, ExchangeLost,
     Goto, row, twitch, reqs, writers, ghosts, Issue
<1>4. LeaderOwnsLease'
  BY DEF IInv, TypeOK, LeaderOwnsLease, Leading, Fence, DisabledIsDead,
     AnswersStored, ExchangeLost, Goto, row, twitch, reqs, writers, ghosts,
     Issue
<1>5. Refused'
  <2>1. PICK n \in Token : Issue(r, n)
    BY DEF ExchangeLost
  <2>2. issued \in 0..MaxIssued /\ valid \in SUBSET (1..issued)
    BY DEF IInv, TypeOK, Token
  <2>3. valid' \ valid \subseteq {issued + 1}
    BY <2>1, IssueType DEF IInv
  <2>4. /\ refresh # issued + 1 /\ \A s \in Request : tried[s] # issued + 1
    BY <2>2 DEF IInv, TypeOK, Numbered, Token
  <2>5. DisabledIsDead'
    BY <2>3, <2>4 DEF IInv, Refused, DisabledIsDead, ExchangeLost, row
  <2>6. tried' = tried /\ denied' = denied /\ ~denied'[r]
        /\ pc'[r] \in {"exchange", "fallback"}
        /\ \A s \in Request \ {r} : pc'[s] = pc[s]
    BY DEF IInv, TypeOK, Refused, ExchangeLost, Goto
  <2> QED
    BY <2>3, <2>4, <2>5, <2>6 DEF IInv, Refused
<1>6. Stored'
  BY DEF IInv, TypeOK, Stored, Token, Pair, DisabledIsDead, AnswersStored,
     ExchangeLost, Goto, row, twitch, reqs, writers, ghosts, Issue
<1> QED
  BY <1>1, <1>2, <1>3, <1>4, <1>5, <1>6 DEF IInv

(* A refusal is remembered with the token it is about.                     *)
LEMMA ExchangeFailsInductive ==
    ASSUME NEW r \in Request, IInv, ExchangeFails(r)
    PROVE  IInv'
<1> USE BoundAssumption, KindAssumption, NoneAssumption
<1>1. TypeOK'
  BY DEF IInv, TypeOK, Token, Pair, Blank, Phase, Leading, Working,
     DisabledIsDead, AnswersStored, ExchangeFails, Goto, row, twitch, reqs,
     writers, ghosts
<1>2. Numbered'
  BY DEF IInv, TypeOK, Numbered, Token, Pair, Blank, DisabledIsDead,
     AnswersStored, ExchangeFails, Goto, row, twitch, reqs, writers, ghosts
<1>3. Fence'
  BY DEF IInv, TypeOK, Fence, DisabledIsDead, AnswersStored, ExchangeFails,
     Goto, row, twitch, reqs, writers, ghosts
<1>4. LeaderOwnsLease'
  BY DEF IInv, TypeOK, LeaderOwnsLease, Leading, Fence, DisabledIsDead,
     AnswersStored, ExchangeFails, Goto, row, twitch, reqs, writers, ghosts
<1>5. Refused'
  BY DEF IInv, TypeOK, Refused, Numbered, Token, Pair, DisabledIsDead,
     AnswersStored, ExchangeFails, Goto, row, twitch, reqs, writers, ghosts
<1>6. Stored'
  BY DEF IInv, TypeOK, Stored, Token, Pair, DisabledIsDead, AnswersStored,
     ExchangeFails, Goto, row, twitch, reqs, writers, ghosts
<1> QED
  BY <1>1, <1>2, <1>3, <1>4, <1>5, <1>6 DEF IInv

(* A bot may find a winner before it disables the account.                 *)
LEMMA FallbackInductive ==
    ASSUME NEW r \in Request, IInv, Fallback(r)
    PROVE  IInv'
<1> USE BoundAssumption, KindAssumption, NoneAssumption
<1>1. TypeOK'
  <2>1. pc' \in [Request -> Phase]
    BY DEF IInv, TypeOK, Fallback, Goto, Phase, Working, Leading
  <2>2. answer' \in [Request -> Token]
    BY DEF IInv, TypeOK, Fallback, Winner, Token
  <2> QED
    BY <2>1, <2>2 DEF IInv, TypeOK, Fallback, row, twitch, reqs, writers,
       ghosts
<1>2. Numbered'
  BY DEF IInv, TypeOK, Numbered, Token, Pair, Blank, DisabledIsDead,
     AnswersStored, Fallback, Goto, row, twitch, reqs, writers, ghosts, Winner,
     Same
<1>3. Fence'
  BY DEF IInv, TypeOK, Fence, DisabledIsDead, AnswersStored, Fallback, Goto,
     row, twitch, reqs, writers, ghosts, Winner, Same
<1>4. LeaderOwnsLease'
  BY DEF IInv, TypeOK, LeaderOwnsLease, Leading, Fence, DisabledIsDead,
     AnswersStored, Fallback, Goto, row, twitch, reqs, writers, ghosts, Winner,
     Same
<1>5. Refused'
  BY DEF IInv, TypeOK, Refused, Numbered, Token, Pair, DisabledIsDead,
     AnswersStored, Fallback, Goto, row, twitch, reqs, writers, ghosts, Winner,
     Same
<1>6. Stored'
  BY DEF IInv, TypeOK, Stored, Token, Pair, DisabledIsDead, AnswersStored,
     Fallback, Goto, row, twitch, reqs, writers, ghosts, Winner, Same
<1> QED
  BY <1>1, <1>2, <1>3, <1>4, <1>5, <1>6 DEF IInv

(* Only the owner of the lease disables the account.                       *)
LEMMA MarkFailedInductive ==
    ASSUME NEW r \in Request, IInv, MarkFailed(r)
    PROVE  IInv'
<1> USE BoundAssumption, KindAssumption, NoneAssumption
<1>1. TypeOK'
  BY DEF IInv, TypeOK, Token, Pair, Blank, Phase, Leading, Working,
     DisabledIsDead, AnswersStored, MarkFailed, Goto, row, twitch, reqs,
     writers, ghosts, Fenced, Same
<1>2. Numbered'
  BY DEF IInv, TypeOK, Numbered, Token, Pair, Blank, DisabledIsDead,
     AnswersStored, MarkFailed, Goto, row, twitch, reqs, writers, ghosts,
     Fenced, Same
<1>3. Fence'
  BY DEF IInv, TypeOK, Fence, DisabledIsDead, AnswersStored, MarkFailed, Goto,
     row, twitch, reqs, writers, ghosts, Fenced, Same
<1>4. LeaderOwnsLease'
  BY DEF IInv, TypeOK, LeaderOwnsLease, Leading, Fence, DisabledIsDead,
     AnswersStored, MarkFailed, Goto, row, twitch, reqs, writers, ghosts,
     Fenced, Same
<1>5. Refused'
  BY DEF IInv, TypeOK, Refused, Numbered, Token, Pair, DisabledIsDead,
     AnswersStored, MarkFailed, Goto, row, twitch, reqs, writers, ghosts,
     Fenced, Same
<1>6. Stored'
  BY DEF IInv, TypeOK, Stored, Token, Pair, DisabledIsDead, AnswersStored,
     MarkFailed, Goto, row, twitch, reqs, writers, ghosts, Fenced, Same
<1> QED
  BY <1>1, <1>2, <1>3, <1>4, <1>5, <1>6 DEF IInv

(* No row matches.                                                         *)
LEMMA MarkNothingInductive ==
    ASSUME NEW r \in Request, IInv, MarkNothing(r)
    PROVE  IInv'
<1> USE BoundAssumption, KindAssumption, NoneAssumption
<1>1. TypeOK'
  BY DEF IInv, TypeOK, Token, Pair, Blank, Phase, Leading, Working,
     DisabledIsDead, AnswersStored, MarkNothing, Goto, row, twitch, reqs,
     writers, ghosts
<1>2. Numbered'
  BY DEF IInv, TypeOK, Numbered, Token, Pair, Blank, DisabledIsDead,
     AnswersStored, MarkNothing, Goto, row, twitch, reqs, writers, ghosts
<1>3. Fence'
  BY DEF IInv, TypeOK, Fence, DisabledIsDead, AnswersStored, MarkNothing, Goto,
     row, twitch, reqs, writers, ghosts
<1>4. LeaderOwnsLease'
  BY DEF IInv, TypeOK, LeaderOwnsLease, Leading, Fence, DisabledIsDead,
     AnswersStored, MarkNothing, Goto, row, twitch, reqs, writers, ghosts
<1>5. Refused'
  BY DEF IInv, TypeOK, Refused, Numbered, Token, Pair, DisabledIsDead,
     AnswersStored, MarkNothing, Goto, row, twitch, reqs, writers, ghosts
<1>6. Stored'
  BY DEF IInv, TypeOK, Stored, Token, Pair, DisabledIsDead, AnswersStored,
     MarkNothing, Goto, row, twitch, reqs, writers, ghosts
<1> QED
  BY <1>1, <1>2, <1>3, <1>4, <1>5, <1>6 DEF IInv

(* The lease is extended for the save.                                     *)
LEMMA RenewInductive ==
    ASSUME NEW r \in Request, IInv, Renew(r)
    PROVE  IInv'
<1> USE BoundAssumption, KindAssumption, NoneAssumption
<1>1. TypeOK'
  BY DEF IInv, TypeOK, Token, Pair, Blank, Phase, Leading, Working,
     DisabledIsDead, AnswersStored, Renew, Goto, row, twitch, reqs, writers,
     ghosts, Fenced, Same
<1>2. Numbered'
  BY DEF IInv, TypeOK, Numbered, Token, Pair, Blank, DisabledIsDead,
     AnswersStored, Renew, Goto, row, twitch, reqs, writers, ghosts, Fenced,
     Same
<1>3. Fence'
  BY DEF IInv, TypeOK, Fence, DisabledIsDead, AnswersStored, Renew, Goto, row,
     twitch, reqs, writers, ghosts, Fenced, Same
<1>4. LeaderOwnsLease'
  BY DEF IInv, TypeOK, LeaderOwnsLease, Leading, Fence, DisabledIsDead,
     AnswersStored, Renew, Goto, row, twitch, reqs, writers, ghosts, Fenced,
     Same
<1>5. Refused'
  BY DEF IInv, TypeOK, Refused, Numbered, Token, Pair, DisabledIsDead,
     AnswersStored, Renew, Goto, row, twitch, reqs, writers, ghosts, Fenced,
     Same
<1>6. Stored'
  BY DEF IInv, TypeOK, Stored, Token, Pair, DisabledIsDead, AnswersStored,
     Renew, Goto, row, twitch, reqs, writers, ghosts, Fenced, Same
<1> QED
  BY <1>1, <1>2, <1>3, <1>4, <1>5, <1>6 DEF IInv

(* The pair is lost with its leader.                                       *)
LEMMA SaveFailsInductive ==
    ASSUME NEW r \in Request, IInv, SaveFails(r)
    PROVE  IInv'
<1> USE BoundAssumption, KindAssumption, NoneAssumption
<1>1. TypeOK'
  BY DEF IInv, TypeOK, Token, Pair, Blank, Phase, Leading, Working,
     DisabledIsDead, AnswersStored, SaveFails, Goto, row, twitch, reqs,
     writers, ghosts
<1>2. Numbered'
  BY DEF IInv, TypeOK, Numbered, Token, Pair, Blank, DisabledIsDead,
     AnswersStored, SaveFails, Goto, row, twitch, reqs, writers, ghosts
<1>3. Fence'
  BY DEF IInv, TypeOK, Fence, DisabledIsDead, AnswersStored, SaveFails, Goto,
     row, twitch, reqs, writers, ghosts
<1>4. LeaderOwnsLease'
  BY DEF IInv, TypeOK, LeaderOwnsLease, Leading, Fence, DisabledIsDead,
     AnswersStored, SaveFails, Goto, row, twitch, reqs, writers, ghosts
<1>5. Refused'
  BY DEF IInv, TypeOK, Refused, Numbered, Token, Pair, DisabledIsDead,
     AnswersStored, SaveFails, Goto, row, twitch, reqs, writers, ghosts
<1>6. Stored'
  BY DEF IInv, TypeOK, Stored, Token, Pair, DisabledIsDead, AnswersStored,
     SaveFails, Goto, row, twitch, reqs, writers, ghosts
<1> QED
  BY <1>1, <1>2, <1>3, <1>4, <1>5, <1>6 DEF IInv

(* The owner stores the pair and gives up the lease.                       *)
LEMMA SaveInductive ==
    ASSUME NEW r \in Request, IInv, Save(r)
    PROVE  IInv'
<1> USE BoundAssumption, KindAssumption, NoneAssumption
<1>1. TypeOK'
  <2>1. pc' \in [Request -> Phase]
    BY DEF IInv, TypeOK, Save, Goto, Phase, Working, Leading
  <2>2. /\ refresh' \in Token /\ access' \in Token /\ scopes' \in Token
    BY DEF IInv, TypeOK, Save, Credential, Token, Pair, row, Fenced
  <2>3. /\ id' \in Nat /\ fresh' \in BOOLEAN /\ live' \in BOOLEAN
        /\ lease' \in Request \cup {None} /\ status' \in {"active", "error"}
    BY DEF IInv, TypeOK, Save, Credential, row, Fenced
  <2>4. answer' \in [Request -> Token]
    BY DEF IInv, TypeOK, Save, Pair, Token
  <2>5. epoch' \in 0..MaxWrites
    BY DEF IInv, TypeOK, Save, Credential, ghosts
  <2>6. lapsed' \in SUBSET Request
    BY DEF IInv, TypeOK, Save, Credential, ghosts
  <2>7. stored' \in SUBSET Token
    BY DEF IInv, TypeOK, Save, Credential, Pair, ghosts
  <2> QED
    BY <2>1, <2>2, <2>3, <2>4, <2>5, <2>6, <2>7 DEF IInv, TypeOK, Save, row,
       twitch, reqs, writers, ghosts
<1>2. Numbered'
  BY DEF IInv, TypeOK, Numbered, Token, Pair, Blank, DisabledIsDead,
     AnswersStored, Save, Goto, row, twitch, reqs, writers, ghosts, Fenced,
     Same
<1>3. Fence'
  BY DEF IInv, TypeOK, Fence, DisabledIsDead, AnswersStored, Save, Goto, row,
     twitch, reqs, writers, ghosts, Fenced, Same
<1>4. LeaderOwnsLease'
  BY DEF IInv, TypeOK, LeaderOwnsLease, Leading, Fence, DisabledIsDead,
     AnswersStored, Save, Goto, row, twitch, reqs, writers, ghosts, Fenced,
     Same
<1>5. Refused'
  BY DEF IInv, TypeOK, Refused, Numbered, Token, Pair, DisabledIsDead,
     AnswersStored, Save, Goto, row, twitch, reqs, writers, ghosts, Fenced,
     Same
<1>6. Stored'
  BY DEF IInv, TypeOK, Stored, Token, Pair, DisabledIsDead, AnswersStored,
     Save, Goto, row, twitch, reqs, writers, ghosts, Fenced, Same
<1> QED
  BY <1>1, <1>2, <1>3, <1>4, <1>5, <1>6 DEF IInv

(* A leader that failed answers with the token in the row.                 *)
LEMMA RecoverInductive ==
    ASSUME NEW r \in Request, IInv, Recover(r)
    PROVE  IInv'
<1> USE BoundAssumption, KindAssumption, NoneAssumption
<1>1. TypeOK'
  BY DEF IInv, TypeOK, Token, Pair, Blank, Phase, Leading, Working,
     DisabledIsDead, AnswersStored, Recover, Goto, row, twitch, reqs, writers,
     ghosts, Winner, Same
<1>2. Numbered'
  BY DEF IInv, TypeOK, Numbered, Token, Pair, Blank, DisabledIsDead,
     AnswersStored, Recover, Goto, row, twitch, reqs, writers, ghosts, Winner,
     Same
<1>3. Fence'
  BY DEF IInv, TypeOK, Fence, DisabledIsDead, AnswersStored, Recover, Goto,
     row, twitch, reqs, writers, ghosts, Winner, Same
<1>4. LeaderOwnsLease'
  BY DEF IInv, TypeOK, LeaderOwnsLease, Leading, Fence, DisabledIsDead,
     AnswersStored, Recover, Goto, row, twitch, reqs, writers, ghosts, Winner,
     Same
<1>5. Refused'
  BY DEF IInv, TypeOK, Refused, Numbered, Token, Pair, DisabledIsDead,
     AnswersStored, Recover, Goto, row, twitch, reqs, writers, ghosts, Winner,
     Same
<1>6. Stored'
  BY DEF IInv, TypeOK, Stored, Token, Pair, DisabledIsDead, AnswersStored,
     Recover, Goto, row, twitch, reqs, writers, ghosts, Winner, Same
<1> QED
  BY <1>1, <1>2, <1>3, <1>4, <1>5, <1>6 DEF IInv

(* Only the owner clears the lease.                                        *)
LEMMA ReleaseInductive ==
    ASSUME NEW r \in Request, IInv, Release(r)
    PROVE  IInv'
<1> USE BoundAssumption, KindAssumption, NoneAssumption
<1>1. TypeOK'
  BY DEF IInv, TypeOK, Token, Pair, Blank, Phase, Leading, Working,
     DisabledIsDead, AnswersStored, Release, Goto, row, twitch, reqs, writers,
     ghosts, Same
<1>2. Numbered'
  BY DEF IInv, TypeOK, Numbered, Token, Pair, Blank, DisabledIsDead,
     AnswersStored, Release, Goto, row, twitch, reqs, writers, ghosts, Same
<1>3. Fence'
  BY DEF IInv, TypeOK, Fence, DisabledIsDead, AnswersStored, Release, Goto,
     row, twitch, reqs, writers, ghosts, Same
<1>4. LeaderOwnsLease'
  BY DEF IInv, TypeOK, LeaderOwnsLease, Leading, Fence, DisabledIsDead,
     AnswersStored, Release, Goto, row, twitch, reqs, writers, ghosts, Same
<1>5. Refused'
  BY DEF IInv, TypeOK, Refused, Numbered, Token, Pair, DisabledIsDead,
     AnswersStored, Release, Goto, row, twitch, reqs, writers, ghosts, Same
<1>6. Stored'
  BY DEF IInv, TypeOK, Stored, Token, Pair, DisabledIsDead, AnswersStored,
     Release, Goto, row, twitch, reqs, writers, ghosts, Same
<1> QED
  BY <1>1, <1>2, <1>3, <1>4, <1>5, <1>6 DEF IInv

(* A stopped isolate leaves its lease behind.                              *)
LEMMA DieInductive ==
    ASSUME NEW r \in Request, IInv, Die(r)
    PROVE  IInv'
<1> USE BoundAssumption, KindAssumption, NoneAssumption
<1>1. TypeOK'
  BY DEF IInv, TypeOK, Token, Pair, Blank, Phase, Leading, Working,
     DisabledIsDead, AnswersStored, Die, Goto, row, twitch, reqs, writers,
     ghosts
<1>2. Numbered'
  BY DEF IInv, TypeOK, Numbered, Token, Pair, Blank, DisabledIsDead,
     AnswersStored, Die, Goto, row, twitch, reqs, writers, ghosts
<1>3. Fence'
  BY DEF IInv, TypeOK, Fence, DisabledIsDead, AnswersStored, Die, Goto, row,
     twitch, reqs, writers, ghosts
<1>4. LeaderOwnsLease'
  BY DEF IInv, TypeOK, LeaderOwnsLease, Leading, Fence, DisabledIsDead,
     AnswersStored, Die, Goto, row, twitch, reqs, writers, ghosts
<1>5. Refused'
  BY DEF IInv, TypeOK, Refused, Numbered, Token, Pair, DisabledIsDead,
     AnswersStored, Die, Goto, row, twitch, reqs, writers, ghosts
<1>6. Stored'
  BY DEF IInv, TypeOK, Stored, Token, Pair, DisabledIsDead, AnswersStored, Die,
     Goto, row, twitch, reqs, writers, ghosts
<1> QED
  BY <1>1, <1>2, <1>3, <1>4, <1>5, <1>6 DEF IInv

(* A login cancels the lease.                                              *)
LEMMA LoginInductive ==
    ASSUME NEW t \in Tab, IInv, Login(t)
    PROVE  IInv'
<1> USE BoundAssumption, KindAssumption, NoneAssumption
<1>1. TypeOK'
  <2>1. /\ refresh' \in Token /\ access' \in Token /\ scopes' \in Token
    BY DEF IInv, TypeOK, Login, Credential, Token, Pair, row, Fenced
  <2>2. /\ id' \in Nat /\ fresh' = TRUE /\ live' = FALSE
        /\ lease' = None /\ status' = "active"
    BY DEF IInv, TypeOK, Login, Credential
  <2>3. issued' \in Token /\ valid' \in SUBSET (1..issued')
    BY DEF IInv, TypeOK, Login, Token
  <2>4. epoch' \in 0..MaxWrites
    BY DEF IInv, TypeOK, Login, Credential, ghosts
  <2>5. lapsed' \in SUBSET Request
    BY DEF IInv, TypeOK, Login, Credential, ghosts
  <2>6. stored' \in SUBSET Token
    BY DEF IInv, TypeOK, Login, Credential, Token, ghosts
  <2>7. again' \in Pair /\ tab' \in [Tab -> Token]
    BY DEF IInv, TypeOK, Login, Token, Pair
  <2> QED
    BY <2>1, <2>2, <2>3, <2>4, <2>5, <2>6, <2>7 DEF IInv, TypeOK, Login, row,
       twitch, reqs, writers, ghosts
<1>2. Numbered'
  BY DEF IInv, TypeOK, Numbered, Token, Pair, Blank, DisabledIsDead,
     AnswersStored, Login, Goto, row, twitch, reqs, writers, ghosts, Credential
<1>3. Fence'
  BY DEF IInv, TypeOK, Fence, DisabledIsDead, AnswersStored, Login, Goto, row,
     twitch, reqs, writers, ghosts, Credential
<1>4. LeaderOwnsLease'
  BY DEF IInv, TypeOK, LeaderOwnsLease, Leading, Fence, DisabledIsDead,
     AnswersStored, Login, Goto, row, twitch, reqs, writers, ghosts, Credential
<1>5. Refused'
  BY DEF IInv, TypeOK, Refused, Numbered, Token, Pair, DisabledIsDead,
     AnswersStored, Login, Goto, row, twitch, reqs, writers, ghosts, Credential
<1>6. Stored'
  BY DEF IInv, TypeOK, Stored, Token, Pair, DisabledIsDead, AnswersStored,
     Login, Goto, row, twitch, reqs, writers, ghosts, Credential
<1> QED
  BY <1>1, <1>2, <1>3, <1>4, <1>5, <1>6 DEF IInv

(* So does its repetition.                                                 *)
LEMMA RepeatLoginInductive ==
    ASSUME IInv, RepeatLogin
    PROVE  IInv'
<1> USE BoundAssumption, KindAssumption, NoneAssumption
<1>1. TypeOK'
  <2>1. /\ refresh' \in Token /\ access' \in Token /\ scopes' \in Token
    BY DEF IInv, TypeOK, RepeatLogin, Credential, Token, Pair, row, Fenced
  <2>2. /\ id' \in Nat /\ fresh' \in BOOLEAN /\ live' \in BOOLEAN
        /\ lease' \in Request \cup {None} /\ status' \in {"active", "error"}
    BY DEF IInv, TypeOK, RepeatLogin, Credential, row, Fenced
  <2>3. epoch' \in 0..MaxWrites
    BY DEF IInv, TypeOK, RepeatLogin, Credential, ghosts
  <2>4. lapsed' \in SUBSET Request
    BY DEF IInv, TypeOK, RepeatLogin, Credential, ghosts
  <2>5. stored' \in SUBSET Token
    BY DEF IInv, TypeOK, RepeatLogin, Credential, Pair, ghosts
  <2>6. again' \in Pair
    BY DEF IInv, TypeOK, RepeatLogin, Blank, Token, Pair
  <2> QED
    BY <2>1, <2>2, <2>3, <2>4, <2>5, <2>6 DEF IInv, TypeOK, RepeatLogin, row,
       twitch, reqs, writers, ghosts
<1>2. Numbered'
  BY DEF IInv, TypeOK, Numbered, Token, Pair, Blank, DisabledIsDead,
     AnswersStored, RepeatLogin, Goto, row, twitch, reqs, writers, ghosts,
     Credential
<1>3. Fence'
  BY DEF IInv, TypeOK, Fence, DisabledIsDead, AnswersStored, RepeatLogin, Goto,
     row, twitch, reqs, writers, ghosts, Credential
<1>4. LeaderOwnsLease'
  BY DEF IInv, TypeOK, LeaderOwnsLease, Leading, Fence, DisabledIsDead,
     AnswersStored, RepeatLogin, Goto, row, twitch, reqs, writers, ghosts,
     Credential
<1>5. Refused'
  BY DEF IInv, TypeOK, Refused, Numbered, Token, Pair, DisabledIsDead,
     AnswersStored, RepeatLogin, Goto, row, twitch, reqs, writers, ghosts,
     Credential
<1>6. Stored'
  BY DEF IInv, TypeOK, Stored, Token, Pair, DisabledIsDead, AnswersStored,
     RepeatLogin, Goto, row, twitch, reqs, writers, ghosts, Credential
<1> QED
  BY <1>1, <1>2, <1>3, <1>4, <1>5, <1>6 DEF IInv

(* Scopes are no part of the argument.                                     *)
LEMMA SaveScopesInductive ==
    ASSUME NEW t \in Tab, IInv, SaveScopes(t)
    PROVE  IInv'
<1> USE BoundAssumption, KindAssumption, NoneAssumption
<1>1. TypeOK'
  BY DEF IInv, TypeOK, Token, Pair, Blank, Phase, Leading, Working,
     DisabledIsDead, AnswersStored, SaveScopes, Goto, row, twitch, reqs,
     writers, ghosts
<1>2. Numbered'
  BY DEF IInv, TypeOK, Numbered, Token, Pair, Blank, DisabledIsDead,
     AnswersStored, SaveScopes, Goto, row, twitch, reqs, writers, ghosts
<1>3. Fence'
  BY DEF IInv, TypeOK, Fence, DisabledIsDead, AnswersStored, SaveScopes, Goto,
     row, twitch, reqs, writers, ghosts
<1>4. LeaderOwnsLease'
  BY DEF IInv, TypeOK, LeaderOwnsLease, Leading, Fence, DisabledIsDead,
     AnswersStored, SaveScopes, Goto, row, twitch, reqs, writers, ghosts
<1>5. Refused'
  BY DEF IInv, TypeOK, Refused, Numbered, Token, Pair, DisabledIsDead,
     AnswersStored, SaveScopes, Goto, row, twitch, reqs, writers, ghosts
<1>6. Stored'
  BY DEF IInv, TypeOK, Stored, Token, Pair, DisabledIsDead, AnswersStored,
     SaveScopes, Goto, row, twitch, reqs, writers, ghosts
<1> QED
  BY <1>1, <1>2, <1>3, <1>4, <1>5, <1>6 DEF IInv

(* Nor is their omission.                                                  *)
LEMMA SkipScopesInductive ==
    ASSUME NEW t \in Tab, IInv, SkipScopes(t)
    PROVE  IInv'
<1> USE BoundAssumption, KindAssumption, NoneAssumption
<1>1. TypeOK'
  BY DEF IInv, TypeOK, Token, Pair, Blank, Phase, Leading, Working,
     DisabledIsDead, AnswersStored, SkipScopes, Goto, row, twitch, reqs,
     writers, ghosts
<1>2. Numbered'
  BY DEF IInv, TypeOK, Numbered, Token, Pair, Blank, DisabledIsDead,
     AnswersStored, SkipScopes, Goto, row, twitch, reqs, writers, ghosts
<1>3. Fence'
  BY DEF IInv, TypeOK, Fence, DisabledIsDead, AnswersStored, SkipScopes, Goto,
     row, twitch, reqs, writers, ghosts
<1>4. LeaderOwnsLease'
  BY DEF IInv, TypeOK, LeaderOwnsLease, Leading, Fence, DisabledIsDead,
     AnswersStored, SkipScopes, Goto, row, twitch, reqs, writers, ghosts
<1>5. Refused'
  BY DEF IInv, TypeOK, Refused, Numbered, Token, Pair, DisabledIsDead,
     AnswersStored, SkipScopes, Goto, row, twitch, reqs, writers, ghosts
<1>6. Stored'
  BY DEF IInv, TypeOK, Stored, Token, Pair, DisabledIsDead, AnswersStored,
     SkipScopes, Goto, row, twitch, reqs, writers, ghosts
<1> QED
  BY <1>1, <1>2, <1>3, <1>4, <1>5, <1>6 DEF IInv

(* Reading scopes changes nothing.                                         *)
LEMMA FetchScopesInductive ==
    ASSUME IInv, FetchScopes
    PROVE  IInv'
<1> USE BoundAssumption, KindAssumption, NoneAssumption
<1>1. TypeOK'
  BY DEF IInv, TypeOK, Token, Pair, Blank, Phase, Leading, Working,
     DisabledIsDead, AnswersStored, FetchScopes, Goto, row, twitch, reqs,
     writers, ghosts
<1>2. Numbered'
  BY DEF IInv, TypeOK, Numbered, Token, Pair, Blank, DisabledIsDead,
     AnswersStored, FetchScopes, Goto, row, twitch, reqs, writers, ghosts
<1>3. Fence'
  BY DEF IInv, TypeOK, Fence, DisabledIsDead, AnswersStored, FetchScopes, Goto,
     row, twitch, reqs, writers, ghosts
<1>4. LeaderOwnsLease'
  BY DEF IInv, TypeOK, LeaderOwnsLease, Leading, Fence, DisabledIsDead,
     AnswersStored, FetchScopes, Goto, row, twitch, reqs, writers, ghosts
<1>5. Refused'
  BY DEF IInv, TypeOK, Refused, Numbered, Token, Pair, DisabledIsDead,
     AnswersStored, FetchScopes, Goto, row, twitch, reqs, writers, ghosts
<1>6. Stored'
  BY DEF IInv, TypeOK, Stored, Token, Pair, DisabledIsDead, AnswersStored,
     FetchScopes, Goto, row, twitch, reqs, writers, ghosts
<1> QED
  BY <1>1, <1>2, <1>3, <1>4, <1>5, <1>6 DEF IInv

(* A removal writes scopes only.                                           *)
LEMMA RemoveScopeInductive ==
    ASSUME IInv, RemoveScope
    PROVE  IInv'
<1> USE BoundAssumption, KindAssumption, NoneAssumption
<1>1. TypeOK'
  BY DEF IInv, TypeOK, Token, Pair, Blank, Phase, Leading, Working,
     DisabledIsDead, AnswersStored, RemoveScope, Goto, row, twitch, reqs,
     writers, ghosts
<1>2. Numbered'
  BY DEF IInv, TypeOK, Numbered, Token, Pair, Blank, DisabledIsDead,
     AnswersStored, RemoveScope, Goto, row, twitch, reqs, writers, ghosts
<1>3. Fence'
  BY DEF IInv, TypeOK, Fence, DisabledIsDead, AnswersStored, RemoveScope, Goto,
     row, twitch, reqs, writers, ghosts
<1>4. LeaderOwnsLease'
  BY DEF IInv, TypeOK, LeaderOwnsLease, Leading, Fence, DisabledIsDead,
     AnswersStored, RemoveScope, Goto, row, twitch, reqs, writers, ghosts
<1>5. Refused'
  BY DEF IInv, TypeOK, Refused, Numbered, Token, Pair, DisabledIsDead,
     AnswersStored, RemoveScope, Goto, row, twitch, reqs, writers, ghosts
<1>6. Stored'
  BY DEF IInv, TypeOK, Stored, Token, Pair, DisabledIsDead, AnswersStored,
     RemoveScope, Goto, row, twitch, reqs, writers, ghosts
<1> QED
  BY <1>1, <1>2, <1>3, <1>4, <1>5, <1>6 DEF IInv

(* A logout cancels the lease.                                             *)
LEMMA LogoutInductive ==
    ASSUME IInv, Logout
    PROVE  IInv'
<1> USE BoundAssumption, KindAssumption, NoneAssumption
<1>1. TypeOK'
  <2>1. /\ refresh' \in Token /\ access' \in Token /\ scopes' \in Token
    BY DEF IInv, TypeOK, Logout, Credential, Token, Pair, row, Fenced
  <2>2. /\ id' \in Nat /\ fresh' \in BOOLEAN /\ live' \in BOOLEAN
        /\ lease' \in Request \cup {None} /\ status' \in {"active", "error"}
    BY DEF IInv, TypeOK, Logout, Credential, row, Fenced
  <2>3. epoch' \in 0..MaxWrites
    BY DEF IInv, TypeOK, Logout, Credential, ghosts
  <2>4. lapsed' \in SUBSET Request
    BY DEF IInv, TypeOK, Logout, Credential, ghosts
  <2> QED
    BY <2>1, <2>2, <2>3, <2>4 DEF IInv, TypeOK, Logout, row, twitch, reqs,
       writers, ghosts
<1>2. Numbered'
  BY DEF IInv, TypeOK, Numbered, Token, Pair, Blank, DisabledIsDead,
     AnswersStored, Logout, Goto, row, twitch, reqs, writers, ghosts
<1>3. Fence'
  BY DEF IInv, TypeOK, Fence, DisabledIsDead, AnswersStored, Logout, Goto, row,
     twitch, reqs, writers, ghosts
<1>4. LeaderOwnsLease'
  BY DEF IInv, TypeOK, LeaderOwnsLease, Leading, Fence, DisabledIsDead,
     AnswersStored, Logout, Goto, row, twitch, reqs, writers, ghosts
<1>5. Refused'
  BY DEF IInv, TypeOK, Refused, Numbered, Token, Pair, DisabledIsDead,
     AnswersStored, Logout, Goto, row, twitch, reqs, writers, ghosts
<1>6. Stored'
  BY DEF IInv, TypeOK, Stored, Token, Pair, DisabledIsDead, AnswersStored,
     Logout, Goto, row, twitch, reqs, writers, ghosts
<1> QED
  BY <1>1, <1>2, <1>3, <1>4, <1>5, <1>6 DEF IInv

(* Time only takes validity away.                                          *)
LEMMA ExpireInductive ==
    ASSUME IInv, Expire
    PROVE  IInv'
<1> USE BoundAssumption, KindAssumption, NoneAssumption
<1>1. TypeOK'
  BY DEF IInv, TypeOK, Token, Pair, Blank, Phase, Leading, Working,
     DisabledIsDead, AnswersStored, Expire, Goto, row, twitch, reqs, writers,
     ghosts
<1>2. Numbered'
  BY DEF IInv, TypeOK, Numbered, Token, Pair, Blank, DisabledIsDead,
     AnswersStored, Expire, Goto, row, twitch, reqs, writers, ghosts
<1>3. Fence'
  BY DEF IInv, TypeOK, Fence, DisabledIsDead, AnswersStored, Expire, Goto, row,
     twitch, reqs, writers, ghosts
<1>4. LeaderOwnsLease'
  BY DEF IInv, TypeOK, LeaderOwnsLease, Leading, Fence, DisabledIsDead,
     AnswersStored, Expire, Goto, row, twitch, reqs, writers, ghosts
<1>5. Refused'
  BY DEF IInv, TypeOK, Refused, Numbered, Token, Pair, DisabledIsDead,
     AnswersStored, Expire, Goto, row, twitch, reqs, writers, ghosts
<1>6. Stored'
  BY DEF IInv, TypeOK, Stored, Token, Pair, DisabledIsDead, AnswersStored,
     Expire, Goto, row, twitch, reqs, writers, ghosts
<1> QED
  BY <1>1, <1>2, <1>3, <1>4, <1>5, <1>6 DEF IInv

(* An owner whose time is up has lapsed.                                   *)
LEMMA LeaseEndsInductive ==
    ASSUME IInv, LeaseEnds
    PROVE  IInv'
<1> USE BoundAssumption, KindAssumption, NoneAssumption
<1>1. TypeOK'
  BY DEF IInv, TypeOK, Token, Pair, Blank, Phase, Leading, Working,
     DisabledIsDead, AnswersStored, LeaseEnds, Goto, row, twitch, reqs,
     writers, ghosts
<1>2. Numbered'
  BY DEF IInv, TypeOK, Numbered, Token, Pair, Blank, DisabledIsDead,
     AnswersStored, LeaseEnds, Goto, row, twitch, reqs, writers, ghosts
<1>3. Fence'
  BY DEF IInv, TypeOK, Fence, DisabledIsDead, AnswersStored, LeaseEnds, Goto,
     row, twitch, reqs, writers, ghosts
<1>4. LeaderOwnsLease'
  BY DEF IInv, TypeOK, LeaderOwnsLease, Leading, Fence, DisabledIsDead,
     AnswersStored, LeaseEnds, Goto, row, twitch, reqs, writers, ghosts
<1>5. Refused'
  BY DEF IInv, TypeOK, Refused, Numbered, Token, Pair, DisabledIsDead,
     AnswersStored, LeaseEnds, Goto, row, twitch, reqs, writers, ghosts
<1>6. Stored'
  BY DEF IInv, TypeOK, Stored, Token, Pair, DisabledIsDead, AnswersStored,
     LeaseEnds, Goto, row, twitch, reqs, writers, ghosts
<1> QED
  BY <1>1, <1>2, <1>3, <1>4, <1>5, <1>6 DEF IInv

(* Twitch accepts fewer tokens.                                            *)
LEMMA RevokeInductive ==
    ASSUME IInv, Revoke
    PROVE  IInv'
<1> USE BoundAssumption, KindAssumption, NoneAssumption
<1>1. TypeOK'
  BY DEF IInv, TypeOK, Token, Pair, Blank, Phase, Leading, Working,
     DisabledIsDead, AnswersStored, Revoke, Goto, row, twitch, reqs, writers,
     ghosts
<1>2. Numbered'
  BY DEF IInv, TypeOK, Numbered, Token, Pair, Blank, DisabledIsDead,
     AnswersStored, Revoke, Goto, row, twitch, reqs, writers, ghosts
<1>3. Fence'
  BY DEF IInv, TypeOK, Fence, DisabledIsDead, AnswersStored, Revoke, Goto, row,
     twitch, reqs, writers, ghosts
<1>4. LeaderOwnsLease'
  BY DEF IInv, TypeOK, LeaderOwnsLease, Leading, Fence, DisabledIsDead,
     AnswersStored, Revoke, Goto, row, twitch, reqs, writers, ghosts
<1>5. Refused'
  BY DEF IInv, TypeOK, Refused, Numbered, Token, Pair, DisabledIsDead,
     AnswersStored, Revoke, Goto, row, twitch, reqs, writers, ghosts
<1>6. Stored'
  BY DEF IInv, TypeOK, Stored, Token, Pair, DisabledIsDead, AnswersStored,
     Revoke, Goto, row, twitch, reqs, writers, ghosts
<1> QED
  BY <1>1, <1>2, <1>3, <1>4, <1>5, <1>6 DEF IInv

LEMMA Initially == Init => IInv
<1> SUFFICES ASSUME Init PROVE IInv
  OBVIOUS
<1>1. TypeOK
  <2>1. 0 \in Token /\ 1 \in Token /\ Blank \in Pair /\ "idle" \in Phase
    BY BoundAssumption DEF Token, Pair, Blank, Phase
  <2>2. 0 \in 0..MaxPolls /\ 0 \in 0..MaxWrites /\ {1} \in SUBSET (1..1)
    BY BoundAssumption
  <2>3. /\ id \in Nat /\ refresh \in Token /\ access \in Token /\ scopes \in Token
        /\ fresh \in BOOLEAN /\ live \in BOOLEAN
        /\ lease \in Request \cup {None} /\ status \in {"active", "error"}
        /\ valid \in SUBSET (1..issued) /\ issued \in Token
    BY <2>1, <2>2 DEF Init
  <2>4. /\ pc \in [Request -> Phase] /\ acct \in [Request -> Nat]
        /\ tried \in [Request -> Token] /\ denied \in [Request -> BOOLEAN]
        /\ pair \in [Request -> Pair] /\ polls \in [Request -> 0..MaxPolls]
        /\ answer \in [Request -> Token]
    BY <2>1, <2>2 DEF Init
  <2>5. /\ tab \in [Tab -> Token] /\ removal \in Token /\ again \in Pair
        /\ epoch \in 0..MaxWrites /\ since \in [Request -> 0..MaxWrites]
        /\ lapsed \in SUBSET Request /\ stored \in SUBSET Token
        /\ spoiled \in BOOLEAN /\ skipped \in BOOLEAN
    BY <2>1, <2>2 DEF Init
  <2> QED
    BY <2>3, <2>4, <2>5 DEF TypeOK
<1>2. Numbered
  BY BoundAssumption DEF Init, Numbered, Blank
<1>3. Fence /\ LeaderOwnsLease /\ Refused /\ Stored
  BY NoneAssumption
  DEF Init, Fence, LeaderOwnsLease, Refused, Stored, DisabledIsDead,
      AnswersStored, Leading
<1> QED
  BY <1>1, <1>2, <1>3 DEF IInv

LEMMA Inductive == IInv /\ [Next]_vars => IInv'
<1> SUFFICES ASSUME IInv, [Next]_vars PROVE IInv'
  OBVIOUS
<1>1. ASSUME NEW r \in Request, Step(r) PROVE IInv'
  BY <1>1, ReadNothingInductive, ReadRowInductive, AcquireInductive,
     NotAcquiredInductive, PollInductive, ExchangeInductive,
     ExchangeLostInductive, ExchangeFailsInductive, FallbackInductive,
     MarkFailedInductive, MarkNothingInductive, RenewInductive,
     SaveFailsInductive, SaveInductive, RecoverInductive, ReleaseInductive DEF
     Step
<1>2. ASSUME NEW r \in Request, Die(r) PROVE IInv'
  BY <1>2, DieInductive
<1>3. ASSUME NEW t \in Tab, Login(t) \/ SaveScopes(t) \/ SkipScopes(t) PROVE IInv'
  BY <1>3, LoginInductive, SaveScopesInductive, SkipScopesInductive
<1>4. CASE RepeatLogin \/ FetchScopes \/ RemoveScope \/ Logout
  BY <1>4, RepeatLoginInductive, FetchScopesInductive, RemoveScopeInductive,
     LogoutInductive
<1>5. CASE Expire \/ LeaseEnds \/ Revoke
  BY <1>5, ExpireInductive, LeaseEndsInductive, RevokeInductive
<1>6. CASE UNCHANGED vars
  BY <1>6 DEF vars, row, twitch, reqs, writers, ghosts, IInv, TypeOK, Numbered,
     Fence, LeaderOwnsLease, Refused, Stored, DisabledIsDead, AnswersStored
<1> QED
  BY <1>1, <1>2, <1>3, <1>4, <1>5, <1>6 DEF Next

(* The inductive invariant of the token refresh.                           *)
THEOREM Invariance == Spec => []IInv
BY Initially, Inductive, PTL DEF Spec

(* Types: token numbers, request phases and the row stay in their sets.    *)
THEOREM TypesHold == Spec => []TypeOK
<1>1. IInv => TypeOK
  BY DEF IInv
<1> QED
  BY <1>1, Invariance, PTL

(* A leader whose lease has not lapsed is the owner in the row.            *)
THEOREM LeaderOwnsLeaseHolds == Spec => []LeaderOwnsLease
<1>1. IInv => LeaderOwnsLease
  BY DEF IInv
<1> QED
  BY <1>1, Invariance, PTL

(* A disabled bot account holds a refresh token that Twitch refuses.       *)
THEOREM DisabledIsDeadHolds == Spec => []DisabledIsDead
<1>1. IInv => DisabledIsDead
  BY DEF IInv, Refused
<1> QED
  BY <1>1, Invariance, PTL

(* Every answer is a token that was stored.                                *)
THEOREM AnswersStoredHolds == Spec => []AnswersStored
<1>1. IInv => AnswersStored
  BY DEF IInv, Stored
<1> QED
  BY <1>1, Invariance, PTL

(* What a refresh under the lease promises, to users and to the bot.       *)
THEOREM LeaseAlwaysHolds == Spec => []LeaseHolds
<1>1. IInv => LeaseHolds
  BY DEF IInv, LeaseHolds, Refused, Stored
<1> QED
  BY <1>1, Invariance, PTL

(* A refresh changes the credential only if its leader took the lease after*)
(* the last login or logout.                                               *)
LEMMA StepKeepsLogin ==
    IInv /\ [Next]_vars =>
        [<<refresh', access'>> # <<refresh, access>> /\ epoch' = epoch
           => \E r \in Request : pc[r] = "save" /\ since[r] = epoch]_vars
<1> SUFFICES ASSUME IInv, Next,
                    <<refresh', access'>> # <<refresh, access>>, epoch' = epoch
             PROVE  \E r \in Request : pc[r] = "save" /\ since[r] = epoch
  OBVIOUS
<1>1. epoch \in Nat
  BY BoundAssumption DEF IInv, TypeOK
<1>2. ~(RepeatLogin \/ Logout \/ \E t \in Tab : Login(t))
  BY <1>1 DEF RepeatLogin, Logout, Login, Credential
<1>3. ~(FetchScopes \/ RemoveScope \/ Expire \/ LeaseEnds \/ Revoke
        \/ \E t \in Tab : SaveScopes(t) \/ SkipScopes(t))
  BY DEF FetchScopes, RemoveScope, Expire, LeaseEnds, Revoke, SaveScopes,
     SkipScopes, row
<1>4. PICK r \in Request : Step(r) \/ Die(r)
  BY <1>2, <1>3 DEF Next
<1>5. CASE Save(r)
  BY <1>5 DEF Save, Fenced, IInv, Fence
<1>6. CASE ~Save(r)
  BY <1>4, <1>6 DEF Step, Die, ReadNothing, ReadRow, Acquire, NotAcquired, Poll,
     Exchange, ExchangeLost, ExchangeFails, Fallback, MarkFailed, MarkNothing,
     Renew, SaveFails, Recover, Release, row
<1> QED
  BY <1>5, <1>6

(* However late a leader saves, it never overwrites a newer login.          *)
THEOREM RefreshKeepsLoginHolds == Spec => RefreshKeepsLogin
BY StepKeepsLogin, Invariance, PTL DEF Spec, RefreshKeepsLogin

-----------------------------------------------------------------------------
(* No silent loss                                                          *)

(* A leader with the answer of Twitch.                                     *)
Holding == {"renew", "save"}

(* A new refresh token is in one place only until it is saved.             *)
OneHolder(r) ==
    \/ pair[r].refresh = tried[r]
    \/ /\ pair[r].refresh \notin {0, refresh}
       /\ \A s \in Request : tried[s] # pair[r].refresh
       /\ \A s \in Request \ {r} :
            pc[s] \in Holding => pair[s].refresh # pair[r].refresh

(* The owner of the lease spends the token in the row, nobody else does;   *)
(* what the owner holds is accepted by Twitch.                             *)
Owned(r) ==
    /\ pc[r] \in {"exchange", "renew", "save"} /\ lease = r => refresh = tried[r]
    /\ pc[r] = "exchange" /\ lease # r => refresh = 0 \/ refresh # tried[r]
    /\ pc[r] \in Holding => OneHolder(r)
    /\ pc[r] \in Holding /\ lease = r => pair[r].refresh \in valid

Safe == refresh # 0 => \/ refresh \in valid
                       \/ \E r \in Request : pc[r] \in Holding /\ lease = r

Sound == ~spoiled => /\ (lease # None => live)
                     /\ \A r \in Request : Owned(r)
                     /\ Safe

(* Steps that touch neither the tokens nor the lease.                      *)
LEMMA QuietSound ==
    ASSUME Sound, TypeOK,
           UNCHANGED <<refresh, tried, pair, valid, lease, live, spoiled>>,
           \A s \in Request :
               \/ pc'[s] = pc[s]
               \/ pc[s] \notin Holding /\ pc'[s] \notin Holding \cup {"exchange"}
    PROVE  Sound'
<1> USE DEF Sound, Owned, OneHolder, Safe, Holding
<1>1. ASSUME ~spoiled', NEW s \in Request PROVE Owned(s)'
  BY <1>1
<1>2. ASSUME ~spoiled' PROVE Safe' /\ (lease' # None => live')
  BY <1>2
<1> QED
  BY <1>1, <1>2

(* A request remembers the token in the row, which nobody holds.           *)
LEMMA ReadRowSound ==
    ASSUME IInv, Sound, NEW r \in Request, ReadRow(r)
    PROVE  Sound'
<1> USE BoundAssumption, NoneAssumption
        DEF IInv, TypeOK, Numbered, Sound, Owned, OneHolder, Safe, Holding,
            ReadRow, Goto, row, twitch, writers, ghosts
<1>1. ASSUME ~spoiled', NEW s \in Request PROVE Owned(s)'
  BY <1>1
<1>2. ASSUME ~spoiled' PROVE Safe' /\ (lease' # None => live')
  BY <1>2
<1> QED
  BY <1>1, <1>2

(* The lease is only free when nobody holds an answer of Twitch.           *)
LEMMA AcquireSound ==
    ASSUME IInv, Sound, NEW r \in Request, Acquire(r)
    PROVE  Sound'
<1> USE BoundAssumption, NoneAssumption
        DEF IInv, TypeOK, Numbered, Sound, Owned, OneHolder, Safe, Holding,
            Acquire, Acquirable, Free, Goto, twitch, writers
<1>1. ASSUME ~spoiled', NEW s \in Request PROVE Owned(s)'
  BY <1>1
<1>2. ASSUME ~spoiled' PROVE Safe' /\ (lease' # None => live')
  BY <1>2
<1> QED
  BY <1>1, <1>2

(* The owner spends the token in the row, and gets one that is new.        *)
LEMMA ExchangeSound ==
    ASSUME IInv, Sound, NEW r \in Request, Exchange(r)
    PROVE  Sound'
<1> USE BoundAssumption, NoneAssumption
        DEF IInv, TypeOK, Numbered, Sound, Owned, OneHolder, Safe, Holding,
            Exchange, Issue, Goto, row, writers, ghosts, Token, Pair
<1>1. ASSUME ~spoiled', NEW s \in Request PROVE Owned(s)'
  BY <1>1
<1>2. ASSUME ~spoiled' PROVE Safe' /\ (lease' # None => live')
  BY <1>2
<1> QED
  BY <1>1, <1>2

(* The owner stores what it holds.                                         *)
LEMMA SaveSound ==
    ASSUME IInv, Sound, NEW r \in Request, Save(r)
    PROVE  Sound'
<1> USE BoundAssumption, NoneAssumption
        DEF IInv, TypeOK, Numbered, Sound, Owned, OneHolder, Safe, Holding,
            Save, Fenced, Same, Goto, twitch, writers, Token, Pair
<1>1. ASSUME ~spoiled', NEW s \in Request PROVE Owned(s)'
  BY <1>1
<1>2. ASSUME ~spoiled' PROVE Safe' /\ (lease' # None => live')
  BY <1>2
<1> QED
  BY <1>1, <1>2

(* A login stores a token that Twitch accepts, and takes the lease away.   *)
LEMMA LoginSound ==
    ASSUME IInv, Sound, NEW t \in Tab, Login(t)
    PROVE  Sound'
<1> USE BoundAssumption, NoneAssumption
        DEF IInv, TypeOK, Numbered, Sound, Owned, OneHolder, Safe, Holding,
            Login, Credential, reqs, writers, Token, Pair
<1>1. ASSUME ~spoiled', NEW s \in Request PROVE Owned(s)'
  BY <1>1
<1>2. ASSUME ~spoiled' PROVE Safe' /\ (lease' # None => live')
  BY <1>2
<1> QED
  BY <1>1, <1>2

(* A logout leaves no token.                                               *)
LEMMA LogoutSound ==
    ASSUME IInv, Sound, Logout
    PROVE  Sound'
<1> USE BoundAssumption, NoneAssumption
        DEF IInv, TypeOK, Numbered, Sound, Owned, OneHolder, Safe, Holding,
            Logout, twitch, reqs, writers
<1>1. ASSUME ~spoiled', NEW s \in Request PROVE Owned(s)'
  BY <1>1
<1>2. ASSUME ~spoiled' PROVE Safe' /\ (lease' # None => live')
  BY <1>2
<1> QED
  BY <1>1, <1>2

(* A request that waits, or has failed.                                    *)
LEMMA WaitingSound ==
    ASSUME IInv, Sound, NEW r \in Request,
           \/ ReadNothing(r) \/ NotAcquired(r) \/ Poll(r) \/ ExchangeFails(r)
           \/ Fallback(r) \/ MarkNothing(r) \/ Recover(r)
    PROVE  Sound'
<1> USE DEF IInv, TypeOK, Goto, Holding, row, twitch, ghosts
<1>1. UNCHANGED <<refresh, tried, pair, valid, lease, live, spoiled>>
  BY DEF ReadNothing, NotAcquired, Poll, ExchangeFails, Fallback, MarkNothing,
     Recover
<1>2. \E p : /\ pc' = [pc EXCEPT ![r] = p]
             /\ pc[r] \notin Holding /\ p \notin Holding \cup {"exchange"}
  BY DEF ReadNothing, NotAcquired, Poll, ExchangeFails, Fallback, MarkNothing,
     Recover
<1> QED
  BY <1>1, <1>2, QuietSound

(* The lease is given back when nothing is held, or made longer.           *)
LEMMA ReleaseSound ==
    ASSUME IInv, Sound, NEW r \in Request, MarkFailed(r) \/ Release(r) \/ Renew(r)
    PROVE  Sound'
<1> USE NoneAssumption
        DEF IInv, TypeOK, Sound, Owned, OneHolder, Safe, Holding, Goto, twitch,
            ghosts, writers
<1>1. CASE MarkFailed(r)
  <2>1. ASSUME ~spoiled', NEW s \in Request PROVE Owned(s)'
    BY <1>1, <2>1 DEF MarkFailed, Fenced
  <2>2. ASSUME ~spoiled' PROVE Safe' /\ (lease' # None => live')
    BY <1>1, <2>2 DEF MarkFailed, Fenced
  <2> QED
    BY <2>1, <2>2
<1>2. CASE Release(r)
  <2>1. ASSUME ~spoiled', NEW s \in Request PROVE Owned(s)'
    BY <1>2, <2>1 DEF Release
  <2>2. ASSUME ~spoiled' PROVE Safe' /\ (lease' # None => live')
    BY <1>2, <2>2 DEF Release
  <2> QED
    BY <2>1, <2>2
<1>3. CASE Renew(r)
  <2>1. ASSUME ~spoiled', NEW s \in Request PROVE Owned(s)'
    BY <1>3, <2>1 DEF Renew
  <2>2. ASSUME ~spoiled' PROVE Safe' /\ (lease' # None => live')
    BY <1>3, <2>2 DEF Renew
  <2> QED
    BY <2>1, <2>2
<1> QED
  BY <1>1, <1>2, <1>3

(* An isolate that is gone with the answer of Twitch is a loss.            *)
LEMMA DieSound ==
    ASSUME IInv, Sound, NEW r \in Request, Die(r)
    PROVE  Sound'
<1>1. CASE pc[r] \in Holding
  BY <1>1 DEF Die, Sound, Holding
<1>2. CASE pc[r] \notin Holding
  <2>1. UNCHANGED <<refresh, tried, pair, valid, lease, live, spoiled>>
    BY <1>2 DEF Die, Holding, IInv, TypeOK, row, twitch
  <2>2. pc' = [pc EXCEPT ![r] = "dead"]
    BY DEF Die, Goto
  <2> QED
    BY <1>2, <2>1, <2>2, QuietSound DEF IInv, TypeOK, Holding
<1> QED
  BY <1>1, <1>2

(* The writers of the scopes, and time.                                    *)
LEMMA OthersSound ==
    ASSUME IInv, Sound,
           \/ \E t \in Tab : SaveScopes(t) \/ SkipScopes(t)
           \/ FetchScopes \/ RemoveScope \/ Expire \/ UNCHANGED vars
    PROVE  Sound'
<1>1. UNCHANGED <<refresh, tried, pair, valid, lease, live, spoiled, pc>>
  BY DEF SaveScopes, SkipScopes, FetchScopes, RemoveScope, Expire, vars, row,
     twitch, reqs, ghosts
<1> QED
  BY <1>1, QuietSound DEF IInv

(* An answer, a save or a lease is lost, or the user disconnects.          *)
LEMMA SpoiledSound ==
    ASSUME \/ \E r \in Request : ExchangeLost(r) \/ SaveFails(r)
           \/ RepeatLogin \/ LeaseEnds \/ Revoke
    PROVE  Sound'
  BY DEF ExchangeLost, SaveFails, RepeatLogin, LeaseEnds, Revoke, Sound

LEMMA SoundInductive == IInv /\ Sound /\ [Next]_vars => Sound'
<1> SUFFICES ASSUME IInv, Sound, [Next]_vars PROVE Sound'
  OBVIOUS
<1>1. ASSUME NEW r \in Request, Step(r) \/ Die(r) PROVE Sound'
  BY <1>1, ReadRowSound, AcquireSound, ExchangeSound, SaveSound, WaitingSound,
     ReleaseSound, DieSound, SpoiledSound DEF Step
<1>2. ASSUME NEW t \in Tab, Login(t) PROVE Sound'
  BY <1>2, LoginSound
<1> QED
  BY <1>1, <1>2, LogoutSound, OthersSound, SpoiledSound DEF Next

(* As long as nothing is lost on the way, and no login stores the token    *)
(* that is being spent, the row keeps a refresh token that Twitch accepts, *)
(* or the owner of the lease has its replacement.                          *)
THEOREM NoSilentLossHolds == Spec => []NoSilentLoss
<1>1. Init => Sound
  BY DEF Init, Sound, Owned, Safe, Holding
<1>2. Sound => NoSilentLoss
  BY DEF Sound, Owned, Safe, Holding, NoSilentLoss
<1>3. IInv /\ Sound /\ [Next]_vars => Sound'
  BY SoundInductive
<1> QED
  BY <1>1, <1>2, <1>3, Invariance, PTL DEF Spec

-----------------------------------------------------------------------------
(* Signing in.                                                             *)
Mark == {"guard", "reauth", "recovery"}
Jar == [auth : SUBSET Nat, hidden : BOOLEAN, guard : SUBSET Nat, reauth : SUBSET Nat,
        recovery : SUBSET Nat, session : SUBSET User, uid : SUBSET User]
Flow == [browser : Browser, ask : SUBSET Scope, hops : Nat,
         at : {"page", "twitch", "refused", "read", "write", "save", "finish", "done", "ended"},
         who : SUBSET User, marks : SUBSET Mark, skip : BOOLEAN]
Account == [token : BOOLEAN, granted : SUBSET Scope, scopes : SUBSET Scope]

Signed ==
  /\ rows \in [User -> Account]
  /\ cookies \in [Browser -> Jar]
  /\ flows \in Seq(Flow)
  /\ last \in [Browser -> SUBSET Nat]

(* A flow that has begun is as before.                                     *)
LEMMA Appended ==
    ASSUME NEW s \in Seq(Flow), NEW r \in Flow, NEW t, t = Append(s, r)
    PROVE  /\ t \in Seq(Flow) /\ DOMAIN t = DOMAIN s \cup {Len(s) + 1}
           /\ Len(s) + 1 \in Nat \ DOMAIN s /\ t[Len(s) + 1] = r
           /\ \A f \in DOMAIN s : t[f] = s[f]
<1>1. Len(s) \in Nat /\ DOMAIN s = 1..Len(s)
  OBVIOUS
<1>2. t \in Seq(Flow) /\ Len(t) = Len(s) + 1 /\ t[Len(s) + 1] = r
      /\ \A f \in 1..Len(s) : t[f] = s[f]
  BY AppendProperties
<1>3. DOMAIN t = 1..(Len(s) + 1)
  BY <1>2
<1> QED
  BY <1>1, <1>2, <1>3

LEMMA Replaced ==
    ASSUME NEW s \in Seq(Flow), NEW f \in DOMAIN s, NEW r \in Flow, NEW t, t = [s EXCEPT ![f] = r]
    PROVE  /\ t \in Seq(Flow) /\ DOMAIN t = DOMAIN s /\ t[f] = r
           /\ \A g \in DOMAIN s \ {f} : t[g] = s[g]
<1>1. Len(s) \in Nat /\ DOMAIN s = 1..Len(s)
  OBVIOUS
<1>2. t \in Seq(Flow) /\ Len(t) = Len(s)
  BY ExceptSeq
<1> QED
  BY <1>1, <1>2

LEMMA SignedInit == ASSUME Returning \subseteq User, Sign!Init PROVE Signed
<1>1. flows \in Seq(Flow)
  BY EmptySeq DEF Sign!Init
<1>2. rows \in [User -> Account] /\ last \in [Browser -> SUBSET Nat]
  BY DEF Sign!Init, Account
<1>3. PICK J : J = {[Sign!NoCookies EXCEPT !.session = s] : s \in {{}} \cup {{u} : u \in Returning}}
  OBVIOUS
<1>4. ASSUME NEW j \in J PROVE j \in Jar
  <2>1. PICK s \in {{}} \cup {{u} : u \in Returning} : j = [Sign!NoCookies EXCEPT !.session = s]
    BY <1>3
  <2>2. s \in SUBSET User
    OBVIOUS
  <2> QED
    BY <2>1, <2>2 DEF Sign!NoCookies, Jar
<1>5. cookies \in [Browser -> J]
  BY <1>3 DEF Sign!Init
<1>6. cookies \in [Browser -> Jar]
  BY <1>4, <1>5
<1> QED
  BY <1>1, <1>2, <1>6 DEF Signed

(* A new flow, and what the others do.                                     *)
Grown(n, b, at) ==
  /\ n \in Nat \ DOMAIN flows /\ DOMAIN flows' = DOMAIN flows \cup {n}
  /\ flows'[n].browser = b /\ flows'[n].at = at
  /\ \A f \in DOMAIN flows : flows'[f] = flows[f]

(* One flow goes on; what it asks for and where it comes from stays.       *)
Gone(f, at) ==
  /\ DOMAIN flows' = DOMAIN flows
  /\ flows'[f].browser = flows[f].browser /\ flows'[f].ask = flows[f].ask
  /\ flows'[f].hops = flows[f].hops /\ flows'[f].at = at
  /\ \A g \in DOMAIN flows \ {f} : flows'[g] = flows[g]

JarsStay(b) == \A c \in Browser \ {b} : cookies'[c] = cookies[c]

LEMMA AdvanceKeeps ==
    ASSUME Signed, NEW f \in DOMAIN flows,
           NEW at \in {"page", "twitch", "refused", "read", "write", "save", "finish", "done", "ended"},
           Sign!Advance(f, at)
    PROVE  /\ flows' \in Seq(Flow) /\ Gone(f, at)
           /\ flows'[f].who = flows[f].who /\ flows'[f].skip = flows[f].skip
           /\ flows'[f].marks = flows[f].marks
<1>1. PICK x \in Flow : x = flows[f]
  BY DEF Signed
<1>2. PICK r : r = [x EXCEPT !.at = at]
  OBVIOUS
<1>3. /\ r \in Flow /\ r.browser = x.browser /\ r.ask = x.ask /\ r.hops = x.hops /\ r.at = at
      /\ r.who = x.who /\ r.skip = x.skip /\ r.marks = x.marks
  BY <1>2 DEF Flow
<1>4. flows' = [flows EXCEPT ![f] = r]
  BY <1>1, <1>2 DEF Sign!Advance
<1> QED
  BY <1>1, <1>3, <1>4, Replaced DEF Signed, Gone

LEMMA ProceedKeeps ==
    ASSUME Signed, NEW f \in DOMAIN flows, NEW skip \in BOOLEAN, Sign!Proceed(f, skip)
    PROVE  /\ flows' \in Seq(Flow) /\ Gone(f, "write") /\ flows'[f].skip = skip
           /\ flows'[f].who = flows[f].who /\ flows'[f].marks = flows[f].marks
<1>1. PICK x \in Flow : x = flows[f]
  BY DEF Signed
<1>2. PICK r : r = [x EXCEPT !.at = "write", !.skip = skip]
  OBVIOUS
<1>3. /\ r \in Flow /\ r.browser = x.browser /\ r.ask = x.ask /\ r.hops = x.hops /\ r.at = "write"
      /\ r.who = x.who /\ r.skip = skip /\ r.marks = x.marks
  BY <1>2 DEF Flow
<1>4. flows' = [flows EXCEPT ![f] = r]
  BY <1>1, <1>2 DEF Sign!Proceed
<1> QED
  BY <1>1, <1>3, <1>4, Replaced DEF Signed, Gone

LEMMA BegunKeeps ==
    ASSUME Signed, NEW b \in Browser, NEW ask \in SUBSET Scope, NEW at \in {"page", "twitch"},
           NEW hops \in Nat, flows' = Append(flows, Sign!Begun(b, ask, at, hops))
    PROVE  /\ flows' \in Seq(Flow) /\ Grown(Sign!New, b, at)
           /\ flows'[Sign!New].ask = ask /\ flows'[Sign!New].hops = hops
<1>1. PICK r : r = Sign!Begun(b, ask, at, hops)
  OBVIOUS
<1>2. r \in Flow /\ r.browser = b /\ r.ask = ask /\ r.at = at /\ r.hops = hops
  BY <1>1 DEF Sign!Begun, Flow
<1> QED
  BY <1>1, <1>2, Appended DEF Signed, Grown, Sign!New

(* The actions.                                                            *)
LEMMA StartLoginKeeps ==
    ASSUME Signed, NEW b \in Browser, Sign!StartLogin(b)
    PROVE  /\ Signed' /\ Grown(Sign!New, b, "twitch") /\ flows'[Sign!New].hops = 0
           /\ cookies'[b].auth = {Sign!New} /\ JarsStay(b)
           /\ cookies'[b].reauth = cookies[b].reauth /\ cookies'[b].recovery = cookies[b].recovery
           /\ \/ cookies'[b].guard = cookies[b].guard
              \/ "read" \in Losses /\ cookies'[b].guard = {Sign!New}
           /\ last' = [last EXCEPT ![b] = {Sign!New}] /\ rows' = rows
<1>1. PICK n \in Nat : n = Sign!New
  <2>1. Len(flows) + 1 \in Nat
    BY DEF Signed
  <2> QED
    BY <2>1 DEF Sign!New
<1>2. PICK j \in Jar : j = cookies[b]
  BY DEF Signed
<1>3. last' = [last EXCEPT ![b] = {n}] /\ rows' = rows
  BY <1>1 DEF Sign!StartLogin
<1>4. \/ /\ flows' = Append(flows, Sign!Begun(b, UNION {rows[u].scopes : u \in Sign!KnownAs(b)}, "twitch", 0))
         /\ cookies' = [cookies EXCEPT ![b] = Sign!WithState(j, n)]
      \/ /\ "read" \in Losses
         /\ flows' = Append(flows, Sign!Begun(b, {}, "twitch", 0))
         /\ cookies' = [cookies EXCEPT ![b] = [Sign!WithState(j, n) EXCEPT !.guard = {n}]]
  BY <1>1, <1>2 DEF Sign!StartLogin
<1>5. flows' \in Seq(Flow) /\ Grown(n, b, "twitch") /\ flows'[n].hops = 0
  <2>1. UNION {rows[u].scopes : u \in Sign!KnownAs(b)} \in SUBSET Scope
    <3>1. Sign!KnownAs(b) \subseteq User
      BY <1>2 DEF Sign!KnownAs, Jar
    <3>2. \A u \in User : rows[u].scopes \subseteq Scope
      BY DEF Signed, Account
    <3> QED
      BY <3>1, <3>2
  <2> QED
    BY <1>1, <1>4, <2>1, BegunKeeps
<1>6. PICK k \in Jar : /\ cookies' = [cookies EXCEPT ![b] = k] /\ k.auth = {n}
                      /\ k.reauth = j.reauth /\ k.recovery = j.recovery
                      /\ (k.guard = j.guard \/ ("read" \in Losses /\ k.guard = {n}))
  <2>1. PICK k : k = Sign!WithState(j, n)
    OBVIOUS
  <2>2. k \in Jar /\ k.auth = {n} /\ k.reauth = j.reauth /\ k.recovery = j.recovery /\ k.guard = j.guard
    BY <2>1 DEF Jar, Sign!WithState
  <2>3. PICK g : g = [k EXCEPT !.guard = {n}]
    OBVIOUS
  <2>4. g \in Jar /\ g.auth = {n} /\ g.reauth = j.reauth /\ g.recovery = j.recovery /\ g.guard = {n}
    BY <2>2, <2>3 DEF Jar
  <2> QED
    BY <1>4, <2>1, <2>2, <2>3, <2>4
<1>7. cookies' \in [Browser -> Jar] /\ cookies'[b] = k /\ JarsStay(b)
  BY <1>6 DEF Signed, JarsStay
<1>8. last' \in [Browser -> SUBSET Nat]
  BY <1>3 DEF Signed
<1>9. Signed'
  BY <1>3, <1>5, <1>7, <1>8 DEF Signed
<1> QED
  BY <1>1, <1>2, <1>3, <1>5, <1>6, <1>7, <1>9

LEMMA StartReauthKeeps ==
    ASSUME Signed, NEW b \in Browser, NEW s \in Scope, Sign!StartReauth(b, s)
    PROVE  /\ Signed' /\ Grown(Sign!New, b, "page") /\ flows'[Sign!New].hops = 0
           /\ \E u \in User : /\ flows'[Sign!New].ask = rows[u].scopes \cup {s}
                             /\ rows'[u].token = FALSE /\ rows'[u].scopes = rows[u].scopes
                             /\ \A v \in User \ {u} : rows'[v] = rows[v]
           /\ cookies'[b].auth = cookies[b].auth /\ JarsStay(b)
           /\ cookies'[b].reauth = {Sign!New} /\ cookies'[b].recovery = cookies[b].recovery
           /\ cookies'[b].guard = cookies[b].guard
           /\ last' = [last EXCEPT ![b] = {Sign!New}]
<1>1. PICK n \in Nat : n = Sign!New
  <2>1. Len(flows) + 1 \in Nat
    BY DEF Signed
  <2> QED
    BY <2>1 DEF Sign!New
<1>2. PICK j \in Jar : j = cookies[b]
  BY DEF Signed
<1>3. PICK u \in User : /\ flows' = Append(flows, Sign!Begun(b, rows[u].scopes \cup {s}, "page", 0))
                       /\ rows' = [rows EXCEPT ![u].token = FALSE, ![u].granted = {}]
  BY <1>2 DEF Sign!StartReauth, Sign!ReauthAsk, Jar
<1>4. PICK x \in Account : x = rows[u]
  BY DEF Signed
<1>5. flows' \in Seq(Flow) /\ Grown(n, b, "page") /\ flows'[n].hops = 0
      /\ flows'[n].ask = x.scopes \cup {s}
  <2>1. x.scopes \cup {s} \in SUBSET Scope
    BY DEF Account
  <2> QED
    BY <1>1, <1>3, <1>4, <2>1, BegunKeeps
<1>6. PICK y : y = [x EXCEPT !.token = FALSE, !.granted = {}]
  OBVIOUS
<1>7. y \in Account /\ y.token = FALSE /\ y.scopes = x.scopes
  BY <1>6 DEF Account
<1>8. rows' = [rows EXCEPT ![u] = y]
  BY <1>3, <1>4, <1>6
<1>9. /\ rows' \in [User -> Account] /\ rows'[u] = y
      /\ \A v \in User \ {u} : rows'[v] = rows[v]
  BY <1>7, <1>8 DEF Signed
<1>10. PICK k : k = [j EXCEPT !.reauth = {n}]
  OBVIOUS
<1>11. k \in Jar /\ k.auth = j.auth /\ k.reauth = {n} /\ k.recovery = j.recovery /\ k.guard = j.guard
  BY <1>10 DEF Jar
<1>12. cookies' = [cookies EXCEPT ![b] = k]
  BY <1>1, <1>2, <1>10 DEF Sign!StartReauth
<1>13. cookies' \in [Browser -> Jar] /\ cookies'[b] = k /\ JarsStay(b)
  BY <1>11, <1>12 DEF Signed, JarsStay
<1>14. last' = [last EXCEPT ![b] = {n}]
  BY <1>1 DEF Sign!StartReauth
<1>15. last' \in [Browser -> SUBSET Nat]
  BY <1>14 DEF Signed
<1>16. Signed'
  BY <1>5, <1>9, <1>13, <1>15 DEF Signed
<1> QED
  BY <1>1, <1>2, <1>4, <1>5, <1>7, <1>9, <1>11, <1>13, <1>14, <1>16

LEMMA FlowHas ==
    ASSUME Signed, NEW f \in DOMAIN flows
    PROVE  /\ flows[f].browser \in Browser /\ flows[f].who \in SUBSET User
           /\ flows[f].marks \in SUBSET Mark /\ f \in Nat
<1>1. PICK x \in Flow : x = flows[f]
  BY DEF Signed
<1>2. f \in Nat
  BY DEF Signed
<1> QED
  BY <1>1, <1>2 DEF Flow

LEMMA StoreKeeps ==
    ASSUME Signed, NEW f \in DOMAIN flows, Sign!StoreState(f)
    PROVE  /\ Signed' /\ flows[f].at = "page" /\ Gone(f, "twitch")
           /\ flows[f].browser \in Browser
           /\ \/ cookies'[flows[f].browser].auth = {f}
              \/ cookies'[flows[f].browser].auth = cookies[flows[f].browser].auth
           /\ cookies'[flows[f].browser].reauth = cookies[flows[f].browser].reauth
           /\ cookies'[flows[f].browser].recovery = cookies[flows[f].browser].recovery
           /\ cookies'[flows[f].browser].guard = cookies[flows[f].browser].guard
           /\ JarsStay(flows[f].browser)
           /\ last' = last /\ rows' = rows
<1>1. PICK b \in Browser : b = flows[f].browser
  BY FlowHas
<1>2. PICK j \in Jar : j = cookies[b]
  BY DEF Signed
<1>3. f \in Nat
  BY DEF Signed
<1>4. PICK A \in SUBSET Nat : A = IF j.hidden THEN j.auth ELSE {f}
  BY <1>3 DEF Jar
<1>5. PICK k : k = [j EXCEPT !.auth = A]
  OBVIOUS
<1>6. k \in Jar /\ k.auth = A /\ k.reauth = j.reauth /\ k.recovery = j.recovery
      /\ k.guard = j.guard
  BY <1>5 DEF Jar
<1>7. cookies' = [cookies EXCEPT ![b] = k]
  BY <1>1, <1>2, <1>4, <1>5 DEF Sign!StoreState, Sign!Home
<1>8. cookies' \in [Browser -> Jar] /\ cookies'[b] = k /\ JarsStay(b)
  BY <1>6, <1>7 DEF Signed, JarsStay
<1>9. flows[f].at = "page" /\ Sign!Advance(f, "twitch") /\ rows' = rows /\ last' = last
  BY DEF Sign!StoreState
<1>10. flows' \in Seq(Flow) /\ Gone(f, "twitch")
  BY <1>9, AdvanceKeeps
<1>11. Signed'
  BY <1>8, <1>9, <1>10 DEF Signed
<1> QED
  BY <1>1, <1>2, <1>4, <1>6, <1>8, <1>9, <1>10, <1>11

LEMMA RefuseKeeps ==
    ASSUME Signed, NEW f \in DOMAIN flows, Sign!Refuse(f)
    PROVE  /\ Signed' /\ flows[f].at = "twitch" /\ f \notin cookies[flows[f].browser].auth
           /\ Gone(f, "refused") /\ rows' = rows /\ cookies' = cookies /\ last' = last
<1>1. Sign!Advance(f, "refused") /\ rows' = rows /\ cookies' = cookies /\ last' = last
      /\ flows[f].at = "twitch" /\ f \notin cookies[flows[f].browser].auth
  BY DEF Sign!Refuse, Sign!Accepted, Sign!Home
<1>2. flows' \in Seq(Flow) /\ Gone(f, "refused")
  BY <1>1, AdvanceKeeps
<1> QED
  BY <1>1, <1>2 DEF Signed

(* The code is taken, with the marks of the request, or the flow ends.     *)
Taken(f) ==
  /\ Gone(f, "read") /\ cookies' = cookies
  /\ \A m \in Mark : m \in flows'[f].marks <=> f \in cookies[flows[f].browser][m]

LEMMA ReturnKeeps ==
    ASSUME Signed, NEW f \in DOMAIN flows, NEW u \in User, Sign!Return(f, u)
    PROVE  /\ Signed' /\ flows[f].at = "twitch" /\ f \in cookies[flows[f].browser].auth
           /\ rows' = rows /\ last' = last
           /\ flows[f].browser \in Browser
           /\ \/ Taken(f)
              \/ /\ Gone(f, "ended") /\ JarsStay(flows[f].browser)
                 /\ \/ cookies' = cookies
                    \/ /\ cookies'[flows[f].browser].auth = {}
                       /\ cookies'[flows[f].browser].reauth = cookies[flows[f].browser].reauth
                       /\ cookies'[flows[f].browser].recovery = cookies[flows[f].browser].recovery
                       /\ cookies'[flows[f].browser].guard = cookies[flows[f].browser].guard
<1>1. PICK b \in Browser : b = flows[f].browser
  BY FlowHas
<1>2. PICK j \in Jar : j = cookies[b]
  BY DEF Signed
<1>3. flows[f].at = "twitch" /\ f \in j.auth /\ rows' = rows /\ last' = last
  BY <1>1, <1>2 DEF Sign!Return, Sign!Accepted, Sign!Home
<1>4. CASE /\ flows' = [flows EXCEPT ![f].at = "read", ![f].who = {u}, ![f].marks = Sign!Marks(f)]
           /\ cookies' = cookies
  <2>1. PICK x \in Flow : x = flows[f]
    BY DEF Signed
  <2>2. PICK M \in SUBSET Mark : M = Sign!Marks(f)
    BY DEF Sign!Marks, Mark
  <2>3. PICK r : r = [x EXCEPT !.at = "read", !.who = {u}, !.marks = M]
    OBVIOUS
  <2>4. /\ r \in Flow /\ r.browser = x.browser /\ r.ask = x.ask /\ r.hops = x.hops /\ r.at = "read"
        /\ r.marks = M
    BY <2>3 DEF Flow
  <2>5. flows' = [flows EXCEPT ![f] = r]
    BY <1>4, <2>1, <2>2, <2>3
  <2>6. flows' \in Seq(Flow) /\ Gone(f, "read") /\ flows'[f].marks = M
    BY <2>1, <2>4, <2>5, Replaced DEF Signed, Gone
  <2>7. \A m \in Mark : m \in M <=> f \in cookies[flows[f].browser][m]
    BY <2>2 DEF Sign!Marks, Sign!Home, Mark
  <2> QED
    BY <1>1, <1>2, <1>3, <1>4, <2>6, <2>7 DEF Taken, Signed
<1>5. CASE /\ Sign!Advance(f, "ended")
           /\ cookies' = [cookies EXCEPT ![b].auth = {}, ![b].hidden = FALSE]
  <2>1. PICK k : k = [j EXCEPT !.auth = {}, !.hidden = FALSE]
    OBVIOUS
  <2>2. k \in Jar /\ k.auth = {} /\ k.reauth = j.reauth /\ k.recovery = j.recovery
        /\ k.guard = j.guard
    BY <2>1 DEF Jar
  <2>3. cookies' = [cookies EXCEPT ![b] = k]
    BY <1>2, <1>5, <2>1
  <2>4. cookies' \in [Browser -> Jar] /\ cookies'[b] = k /\ JarsStay(b)
    BY <2>2, <2>3 DEF Signed, JarsStay
  <2>5. flows' \in Seq(Flow) /\ Gone(f, "ended")
    BY <1>5, AdvanceKeeps
  <2> QED
    BY <1>1, <1>2, <1>3, <2>2, <2>4, <2>5 DEF Signed
<1>6. CASE Sign!Advance(f, "ended") /\ cookies' = cookies
  <2>1. flows' \in Seq(Flow) /\ Gone(f, "ended")
    BY <1>6, AdvanceKeeps
  <2> QED
    BY <1>1, <1>2, <1>3, <1>6, <2>1 DEF Signed, JarsStay
<1> QED
  BY <1>1, <1>4, <1>5, <1>6 DEF Sign!Return, Sign!Home

(* A flow that is read goes on to the token, and whether its scopes are    *)
(* to be saved is settled.                                                 *)
LEMMA TrustedKeeps ==
    ASSUME Signed, NEW f \in DOMAIN flows, Sign!Trusted(f)
    PROVE  /\ Signed' /\ flows[f].at = "read" /\ flows[f].marks # {} /\ Gone(f, "write")
           /\ \/ "guard" \in flows[f].marks /\ flows'[f].skip = TRUE
              \/ "guard" \notin flows[f].marks /\ flows'[f].skip = FALSE
           /\ flows'[f].who = flows[f].who /\ flows'[f].marks = flows[f].marks
           /\ rows' = rows /\ cookies' = cookies /\ last' = last
<1>1. /\ Sign!Proceed(f, "guard" \in flows[f].marks) /\ flows[f].at = "read"
      /\ flows[f].marks # {} /\ rows' = rows /\ cookies' = cookies /\ last' = last
  BY DEF Sign!Trusted
<1>2. PICK skip \in BOOLEAN : skip = ("guard" \in flows[f].marks)
  <2>1. ("guard" \in flows[f].marks) \in BOOLEAN
    OBVIOUS
  <2> QED
    BY ONLY <2>1
<1>3. /\ flows' \in Seq(Flow) /\ Gone(f, "write") /\ flows'[f].skip = skip
      /\ flows'[f].who = flows[f].who /\ flows'[f].marks = flows[f].marks
  BY <1>1, <1>2, ProceedKeeps
<1>4. \/ "guard" \in flows[f].marks /\ skip = TRUE
      \/ "guard" \notin flows[f].marks /\ skip = FALSE
  BY <1>2
<1> QED
  BY <1>1, <1>3, <1>4 DEF Signed

LEMMA ComparedKeeps ==
    ASSUME Signed, NEW f \in DOMAIN flows, Sign!Compared(f)
    PROVE  /\ Signed' /\ flows[f].at = "read" /\ flows[f].marks = {} /\ Gone(f, "write")
           /\ flows'[f].who = flows[f].who /\ flows'[f].marks = flows[f].marks
           /\ \/ /\ flows'[f].skip = FALSE
                 /\ \E u \in User : u \in flows[f].who /\ rows[u].scopes \subseteq flows[f].ask
              \/ "read" \in Losses /\ flows'[f].skip = TRUE
           /\ rows' = rows /\ cookies' = cookies /\ last' = last
<1>1. flows[f].who \subseteq User
  BY FlowHas
<1>2. PICK skip \in BOOLEAN :
        /\ Sign!Proceed(f, skip)
        /\ \/ skip = FALSE /\ \E u \in User : u \in flows[f].who /\ Sign!Lacks(f, u) = {}
           \/ "read" \in Losses /\ skip = TRUE
  BY <1>1 DEF Sign!Compared
<1>3. /\ flows[f].at = "read" /\ flows[f].marks = {} /\ rows' = rows /\ cookies' = cookies
      /\ last' = last
  BY DEF Sign!Compared
<1>4. /\ flows' \in Seq(Flow) /\ Gone(f, "write") /\ flows'[f].skip = skip
      /\ flows'[f].who = flows[f].who /\ flows'[f].marks = flows[f].marks
  BY <1>2, ProceedKeeps
<1>5. ASSUME NEW u \in User, Sign!Lacks(f, u) = {} PROVE rows[u].scopes \subseteq flows[f].ask
  BY <1>5 DEF Sign!Lacks
<1> QED
  BY <1>2, <1>3, <1>4, <1>5 DEF Signed

(* A recovery: the flow ends and the browser is sent off again.            *)
LEMMA RedirectKeeps ==
    ASSUME Signed, NEW f \in DOMAIN flows, Sign!Redirect(f)
    PROVE  /\ Signed' /\ flows[f].at = "read" /\ flows[f].marks = {}
           /\ flows[f].browser \in Browser
           /\ Sign!New \in Nat \ DOMAIN flows /\ DOMAIN flows' = DOMAIN flows \cup {Sign!New}
           /\ flows'[f].at = "ended" /\ flows'[f].browser = flows[f].browser
           /\ flows'[f].hops = flows[f].hops /\ flows'[f].ask = flows[f].ask
           /\ \A g \in DOMAIN flows \ {f} : flows'[g] = flows[g]
           /\ flows'[Sign!New].browser = flows[f].browser /\ flows'[Sign!New].at = "twitch"
           /\ flows'[Sign!New].hops = flows[f].hops + 1
           /\ \E u \in User : flows'[Sign!New].ask = rows[u].scopes
           /\ cookies'[flows[f].browser].auth = {Sign!New}
           /\ cookies'[flows[f].browser].recovery = {Sign!New}
           /\ cookies'[flows[f].browser].reauth = cookies[flows[f].browser].reauth
           /\ cookies'[flows[f].browser].guard = cookies[flows[f].browser].guard
           /\ JarsStay(flows[f].browser)
           /\ last' = [last EXCEPT ![flows[f].browser] = {Sign!New}] /\ rows' = rows
<1>1. PICK n \in Nat : n = Sign!New /\ n = Len(flows) + 1
  <2>1. Len(flows) + 1 \in Nat
    BY DEF Signed
  <2> QED
    BY <2>1 DEF Sign!New
<1>2. PICK b \in Browser : b = flows[f].browser
  BY FlowHas
<1>3. PICK j \in Jar : j = cookies[b]
  BY DEF Signed
<1>4. PICK x \in Flow : x = flows[f]
  BY DEF Signed
<1>5. PICK u \in User : flows' = Append([flows EXCEPT ![f].at = "ended"],
                                        Sign!Begun(b, rows[u].scopes, "twitch", x.hops + 1))
  BY <1>2, <1>4, FlowHas DEF Sign!Redirect, Sign!AskAgain, Sign!Home
<1>6. PICK y : y = [x EXCEPT !.at = "ended"]
  OBVIOUS
<1>7. /\ y \in Flow /\ y.at = "ended" /\ y.browser = x.browser /\ y.hops = x.hops
      /\ y.ask = x.ask
  BY <1>6 DEF Flow
<1>8. PICK s : s = [flows EXCEPT ![f] = y]
  OBVIOUS
<1>9. /\ s \in Seq(Flow) /\ DOMAIN s = DOMAIN flows /\ s[f] = y
      /\ \A g \in DOMAIN flows \ {f} : s[g] = flows[g]
  BY <1>7, <1>8, Replaced DEF Signed
<1>10. Len(s) = Len(flows)
  BY <1>9 DEF Signed
<1>11. PICK r : r = Sign!Begun(b, rows[u].scopes, "twitch", x.hops + 1)
  OBVIOUS
<1>12. /\ r \in Flow /\ r.browser = b /\ r.at = "twitch" /\ r.hops = x.hops + 1
       /\ r.ask = rows[u].scopes
  <2>1. x.hops + 1 \in Nat
    BY DEF Flow
  <2>2. rows[u].scopes \in SUBSET Scope
    BY DEF Signed, Account
  <2> QED
    BY <1>11, <2>1, <2>2 DEF Sign!Begun, Flow
<1>13. flows' = Append(s, r)
  BY <1>4, <1>5, <1>6, <1>8, <1>11
<1>14. /\ flows' \in Seq(Flow) /\ DOMAIN flows' = DOMAIN flows \cup {n}
       /\ n \in Nat \ DOMAIN flows /\ flows'[n] = r
       /\ \A g \in DOMAIN flows : flows'[g] = s[g]
  BY <1>1, <1>9, <1>10, <1>12, <1>13, Appended
<1>15. PICK k : k = [Sign!WithState(j, n) EXCEPT !.recovery = {n}]
  OBVIOUS
<1>16. k \in Jar /\ k.auth = {n} /\ k.recovery = {n} /\ k.reauth = j.reauth /\ k.guard = j.guard
  <2>1. PICK i : i = Sign!WithState(j, n)
    OBVIOUS
  <2>2. i \in Jar /\ i.auth = {n} /\ i.reauth = j.reauth /\ i.guard = j.guard
    BY <2>1 DEF Jar, Sign!WithState
  <2> QED
    BY <1>15, <2>1, <2>2 DEF Jar
<1>17. cookies' = [cookies EXCEPT ![b] = k] /\ last' = [last EXCEPT ![b] = {n}] /\ rows' = rows
       /\ flows[f].at = "read" /\ flows[f].marks = {}
  BY <1>1, <1>2, <1>3, <1>15 DEF Sign!Redirect, Sign!Home
<1>18. cookies' \in [Browser -> Jar] /\ cookies'[b] = k /\ JarsStay(b)
  BY <1>16, <1>17 DEF Signed, JarsStay
<1>19. last' \in [Browser -> SUBSET Nat]
  BY <1>17 DEF Signed
<1>20. Signed'
  BY <1>14, <1>17, <1>18, <1>19 DEF Signed
<1> QED
  BY <1>1, <1>2, <1>3, <1>4, <1>7, <1>9, <1>12, <1>14, <1>16, <1>17, <1>18, <1>20

(* The token and its scopes are written for the user who consented.        *)
LEMMA UpsertKeeps ==
    ASSUME Signed, NEW f \in DOMAIN flows, Sign!Upsert(f)
    PROVE  /\ Signed' /\ flows[f].at = "write" /\ cookies' = cookies /\ last' = last
           /\ \/ Gone(f, "ended") /\ rows' = rows
              \/ /\ Gone(f, IF flows[f].skip THEN "finish" ELSE "save")
                 /\ flows'[f].who = flows[f].who
                 /\ \A u \in User : /\ rows'[u].scopes = rows[u].scopes
                                    /\ \/ u \in flows[f].who /\ rows'[u].granted = flows[f].ask
                                       \/ u \notin flows[f].who /\ rows'[u] = rows[u]
<1>1. PICK x \in Flow : x = flows[f]
  BY DEF Signed
<1>2. flows[f].at = "write" /\ cookies' = cookies /\ last' = last
  BY DEF Sign!Upsert
<1>3. CASE Sign!Advance(f, "ended") /\ rows' = rows
  <2>1. flows' \in Seq(Flow) /\ Gone(f, "ended")
    BY <1>3, AdvanceKeeps
  <2> QED
    BY <1>2, <1>3, <2>1 DEF Signed
<1>4. CASE /\ Sign!Advance(f, Sign!AfterToken(f))
           /\ rows' = [u \in User |-> IF u \in x.who
                                      THEN [rows[u] EXCEPT !.token = TRUE, !.granted = x.ask]
                                      ELSE rows[u]]
  <2>1. PICK at \in {"finish", "save"} : at = Sign!AfterToken(f)
    BY DEF Sign!AfterToken
  <2>2. flows' \in Seq(Flow) /\ Gone(f, at) /\ flows'[f].who = flows[f].who
    BY <1>4, <2>1, AdvanceKeeps
  <2>3. ASSUME NEW u \in User
        PROVE  /\ rows'[u] \in Account /\ rows'[u].scopes = rows[u].scopes
               /\ \/ u \in x.who /\ rows'[u].granted = x.ask
                  \/ u \notin x.who /\ rows'[u] = rows[u]
    <3>1. PICK y \in Account : y = rows[u]
      BY DEF Signed
    <3>2. PICK z : z = [y EXCEPT !.token = TRUE, !.granted = x.ask]
      OBVIOUS
    <3>3. z \in Account /\ z.scopes = y.scopes /\ z.granted = x.ask
      BY <3>2 DEF Account, Flow
    <3>4. rows'[u] = IF u \in x.who THEN z ELSE y
      BY <1>4, <3>1, <3>2
    <3> QED
      BY <3>1, <3>3, <3>4
  <2>4. rows' \in [User -> Account]
    BY <1>4, <2>3
  <2> QED
    BY <1>1, <1>2, <2>1, <2>2, <2>3, <2>4 DEF Signed, Sign!AfterToken
<1> QED
  BY <1>1, <1>3, <1>4 DEF Sign!Upsert

LEMMA SaveKeeps ==
    ASSUME Signed, NEW f \in DOMAIN flows, Sign!SaveScopes(f)
    PROVE  /\ Signed' /\ flows[f].at = "save" /\ cookies' = cookies /\ last' = last
           /\ \/ Gone(f, "ended") /\ rows' = rows
              \/ /\ Gone(f, "finish")
                 /\ \A u \in User : \/ /\ u \in flows[f].who /\ rows'[u].scopes = flows[f].ask
                                       /\ rows'[u].token = rows[u].token
                                       /\ rows'[u].granted = rows[u].granted
                                    \/ u \notin flows[f].who /\ rows'[u] = rows[u]
<1>1. PICK x \in Flow : x = flows[f]
  BY DEF Signed
<1>2. flows[f].at = "save" /\ cookies' = cookies /\ last' = last
  BY DEF Sign!SaveScopes
<1>3. CASE Sign!Advance(f, "ended") /\ rows' = rows
  <2>1. flows' \in Seq(Flow) /\ Gone(f, "ended")
    BY <1>3, AdvanceKeeps
  <2> QED
    BY <1>2, <1>3, <2>1 DEF Signed
<1>4. CASE /\ Sign!Advance(f, "finish")
           /\ rows' = [u \in User |-> IF u \in x.who THEN [rows[u] EXCEPT !.scopes = x.ask]
                                      ELSE rows[u]]
  <2>1. flows' \in Seq(Flow) /\ Gone(f, "finish")
    BY <1>4, AdvanceKeeps
  <2>2. ASSUME NEW u \in User
        PROVE  /\ rows'[u] \in Account
               /\ \/ /\ u \in x.who /\ rows'[u].scopes = x.ask
                     /\ rows'[u].token = rows[u].token /\ rows'[u].granted = rows[u].granted
                  \/ u \notin x.who /\ rows'[u] = rows[u]
    <3>1. PICK y \in Account : y = rows[u]
      BY DEF Signed
    <3>2. PICK z : z = [y EXCEPT !.scopes = x.ask]
      OBVIOUS
    <3>3. z \in Account /\ z.scopes = x.ask /\ z.granted = y.granted /\ z.token = y.token
      BY <3>2 DEF Account, Flow
    <3>4. rows'[u] = IF u \in x.who THEN z ELSE y
      BY <1>4, <3>1, <3>2
    <3> QED
      BY <3>1, <3>3, <3>4
  <2>3. rows' \in [User -> Account]
    BY <1>4, <2>2
  <2> QED
    BY <1>1, <1>2, <2>1, <2>2, <2>3 DEF Signed
<1> QED
  BY <1>1, <1>3, <1>4 DEF Sign!SaveScopes

(* The answer: the state goes, whatever it is, and marks it carried.       *)
LEMMA FinishKeeps ==
    ASSUME Signed, NEW f \in DOMAIN flows, Sign!Finish(f)
    PROVE  /\ Signed' /\ flows[f].at = "finish" /\ Gone(f, "done") /\ last' = last /\ rows' = rows
           /\ flows[f].browser \in Browser
           /\ cookies'[flows[f].browser].auth = {}
           /\ cookies'[flows[f].browser].reauth \subseteq cookies[flows[f].browser].reauth
           /\ cookies'[flows[f].browser].recovery \subseteq cookies[flows[f].browser].recovery
           /\ cookies'[flows[f].browser].guard \subseteq cookies[flows[f].browser].guard
           /\ JarsStay(flows[f].browser)
<1>1. PICK b \in Browser : b = flows[f].browser
  BY FlowHas
<1>2. PICK j \in Jar : j = cookies[b]
  BY DEF Signed
<1>3. PICK x \in Flow : x = flows[f]
  BY DEF Signed
<1>4. PICK k : k = Sign!Finished(j, f)
  OBVIOUS
<1>5. /\ k \in Jar /\ k.auth = {} /\ k.reauth \subseteq j.reauth
      /\ k.recovery \subseteq j.recovery /\ k.guard \subseteq j.guard
  <2>1. ASSUME NEW m \in Mark, j[m] \in SUBSET Nat
        PROVE  /\ Sign!LeftOf(j, x.marks, m) \in SUBSET Nat
               /\ Sign!LeftOf(j, x.marks, m) \subseteq j[m]
    BY <2>1 DEF Sign!LeftOf
  <2>2. j.guard \in SUBSET Nat /\ j.reauth \in SUBSET Nat /\ j.recovery \in SUBSET Nat
    BY DEF Jar
  <2>3. PICK G \in SUBSET Nat : G = Sign!LeftOf(j, x.marks, "guard") /\ G \subseteq j.guard
    BY <2>1, <2>2 DEF Mark
  <2>4. PICK A \in SUBSET Nat : A = Sign!LeftOf(j, x.marks, "reauth") /\ A \subseteq j.reauth
    BY <2>1, <2>2 DEF Mark
  <2>5. PICK R \in SUBSET Nat : R = Sign!LeftOf(j, x.marks, "recovery") /\ R \subseteq j.recovery
    BY <2>1, <2>2 DEF Mark
  <2>6. k = [auth |-> {}, hidden |-> FALSE, session |-> x.who, uid |-> {},
             guard |-> G, reauth |-> A, recovery |-> R]
    BY <1>3, <1>4, <2>3, <2>4, <2>5 DEF Sign!Finished
  <2>7. x.who \in SUBSET User
    BY DEF Flow
  <2> QED
    BY <2>3, <2>4, <2>5, <2>6, <2>7 DEF Jar
<1>6. cookies' = [cookies EXCEPT ![b] = k] /\ last' = last /\ rows' = rows
      /\ flows[f].at = "finish" /\ Sign!Advance(f, "done")
  BY <1>1, <1>2, <1>4 DEF Sign!Finish, Sign!Home
<1>7. cookies' \in [Browser -> Jar] /\ cookies'[b] = k /\ JarsStay(b)
  BY <1>5, <1>6 DEF Signed, JarsStay
<1>8. flows' \in Seq(Flow) /\ Gone(f, "done")
  BY <1>6, AdvanceKeeps
<1>9. Signed'
  BY <1>6, <1>7, <1>8 DEF Signed
<1> QED
  BY <1>1, <1>2, <1>5, <1>6, <1>7, <1>8, <1>9

(* Logging out, the end of a session and the loss of cookies.              *)
Faded(b) ==
  /\ cookies'[b].auth \subseteq cookies[b].auth
  /\ cookies'[b].reauth \subseteq cookies[b].reauth
  /\ cookies'[b].recovery \subseteq cookies[b].recovery
  /\ cookies'[b].guard \subseteq cookies[b].guard

Waned ==
  /\ flows' = flows /\ \A b \in Browser : Faded(b)
  /\ \A u \in User : rows'[u].scopes = rows[u].scopes /\ (rows'[u].token => rows'[u] = rows[u])
  /\ \A b \in Browser : \/ last'[b] = last[b] /\ cookies'[b].auth = cookies[b].auth
                        \/ last'[b] = {}
  /\ "cookies" \notin Losses => \A b \in Browser : cookies'[b].recovery = cookies[b].recovery

(* One jar is replaced.                                                    *)
LEMMA JarReplaced ==
    ASSUME Signed, NEW b \in Browser, NEW k \in Jar, cookies' = [cookies EXCEPT ![b] = k],
           flows' = flows, rows' \in [User -> Account],
           last' \in [Browser -> SUBSET Nat],
           \A u \in User : rows'[u].scopes = rows[u].scopes /\ (rows'[u].token => rows'[u] = rows[u]),
           k.auth \subseteq cookies[b].auth, k.reauth \subseteq cookies[b].reauth,
           k.recovery \subseteq cookies[b].recovery, k.guard \subseteq cookies[b].guard,
           "cookies" \notin Losses => k.recovery = cookies[b].recovery,
           \A c \in Browser \ {b} : last'[c] = last[c],
           (last'[b] = last[b] /\ k.auth = cookies[b].auth) \/ last'[b] = {}
    PROVE  Signed' /\ Waned
<1>1. cookies' \in [Browser -> Jar] /\ cookies'[b] = k /\ \A c \in Browser \ {b} : cookies'[c] = cookies[c]
  BY DEF Signed
<1> QED
  BY <1>1 DEF Signed, Waned, Faded

LEMMA AroundKeeps == ASSUME Signed, Sign!Around PROVE Signed' /\ Waned
<1> DEFINE RowsFade ==
      \A u \in User : rows'[u].scopes = rows[u].scopes /\ (rows'[u].token => rows'[u] = rows[u])
<1>1. ASSUME NEW b \in Browser, NEW j \in Jar, j = cookies[b]
      PROVE  \A k : k = Sign!Parted(j) =>
               k \in Jar /\ k.auth = j.auth /\ k.reauth = j.reauth /\ k.recovery = j.recovery
               /\ k.guard = j.guard
  BY DEF Sign!Parted, Jar
<1>2. ASSUME NEW b \in Browser, Sign!Logout(b) PROVE Signed' /\ Waned
  <2>1. PICK j \in Jar : j = cookies[b]
    BY DEF Signed
  <2>2. PICK k \in Jar : k = Sign!Parted(j) /\ k.auth = j.auth /\ k.reauth = j.reauth
                         /\ k.recovery = j.recovery /\ k.guard = j.guard
    BY <1>1, <2>1
  <2>3. cookies' = [cookies EXCEPT ![b] = k] /\ flows' = flows /\ last' = last
    BY <1>2, <2>1, <2>2 DEF Sign!Logout
  <2>4. rows' \in [User -> Account] /\ RowsFade
    <3>1. CASE rows' = rows
      BY <3>1 DEF Signed
    <3>2. ASSUME NEW u \in User, rows' = [rows EXCEPT ![u].token = FALSE, ![u].granted = {}]
          PROVE  rows' \in [User -> Account] /\ RowsFade
      <4>1. PICK x \in Account : x = rows[u]
        BY DEF Signed
      <4>2. PICK y : y = [x EXCEPT !.token = FALSE, !.granted = {}]
        OBVIOUS
      <4>3. y \in Account /\ y.token = FALSE /\ y.scopes = x.scopes
        BY <4>2 DEF Account
      <4>4. rows' = [rows EXCEPT ![u] = y]
        BY <3>2, <4>1, <4>2
      <4> QED
        BY <4>1, <4>3, <4>4 DEF Signed
    <3> QED
      BY <1>2, <2>1, <3>1, <3>2 DEF Sign!Logout, Jar
  <2> QED
    BY <2>1, <2>2, <2>3, <2>4, JarReplaced DEF Signed
<1>3. ASSUME NEW b \in Browser, Sign!SessionEnds(b) PROVE Signed' /\ Waned
  <2>1. PICK j \in Jar : j = cookies[b]
    BY DEF Signed
  <2>2. PICK k \in Jar : k = Sign!Parted(j) /\ k.auth = j.auth /\ k.reauth = j.reauth
                         /\ k.recovery = j.recovery /\ k.guard = j.guard
    BY <1>1, <2>1
  <2>3. cookies' = [cookies EXCEPT ![b] = k] /\ flows' = flows /\ last' = last /\ rows' = rows
    BY <1>3, <2>1, <2>2 DEF Sign!SessionEnds
  <2> QED
    BY <2>1, <2>2, <2>3, JarReplaced DEF Signed
<1>4. ASSUME NEW b \in Browser, Sign!Clear(b) PROVE Signed' /\ Waned
  <2>1. PICK j \in Jar : j = cookies[b]
    BY DEF Signed
  <2>2. PICK k : k = Sign!NoCookies
    OBVIOUS
  <2>3. k \in Jar /\ k.auth = {} /\ k.reauth = {} /\ k.recovery = {} /\ k.guard = {}
    BY <2>2 DEF Jar, Sign!NoCookies
  <2>4. /\ cookies' = [cookies EXCEPT ![b] = k] /\ flows' = flows /\ rows' = rows
        /\ last' = [last EXCEPT ![b] = {}] /\ "cookies" \in Losses
    BY <1>4, <2>2 DEF Sign!Clear
  <2>5. last' \in [Browser -> SUBSET Nat] /\ last'[b] = {} /\ \A c \in Browser \ {b} : last'[c] = last[c]
    BY <2>4 DEF Signed
  <2>6. rows' \in [User -> Account] /\ RowsFade
    BY <2>4 DEF Signed
  <2> QED
    BY <2>1, <2>3, <2>4, <2>5, <2>6, JarReplaced
<1>5. ASSUME NEW b \in Browser, NEW c \in Sign!StateCookies, Sign!Expire(b, c) PROVE Signed' /\ Waned
  <2>1. PICK j \in Jar : j = cookies[b]
    BY DEF Signed
  <2>2. PICK h \in BOOLEAN : h = IF c = "auth" THEN FALSE ELSE j.hidden
    BY DEF Jar
  <2>3. PICK k : k = [j EXCEPT ![c] = {}, !.hidden = h]
    OBVIOUS
  <2>4. /\ k \in Jar /\ k.auth \subseteq j.auth /\ k.reauth \subseteq j.reauth
        /\ k.recovery \subseteq j.recovery /\ k.guard \subseteq j.guard
    <3>1. CASE c = "auth"
      BY <2>3, <3>1 DEF Jar
    <3>2. CASE c = "guard"
      BY <2>3, <3>2 DEF Jar
    <3>3. CASE c = "reauth"
      BY <2>3, <3>3 DEF Jar
    <3>4. CASE c = "recovery"
      BY <2>3, <3>4 DEF Jar
    <3> QED
      BY <3>1, <3>2, <3>3, <3>4 DEF Sign!StateCookies
  <2>5. /\ cookies' = [cookies EXCEPT ![b] = k] /\ flows' = flows /\ rows' = rows
        /\ last' = [last EXCEPT ![b] = {}] /\ "cookies" \in Losses
    <3>1. c # "hidden"
      BY DEF Sign!StateCookies
    <3>2. cookies' = [cookies EXCEPT ![b] = [[j EXCEPT ![c] = {}] EXCEPT !.hidden = h]]
      BY <1>5, <2>1, <2>2, <3>1 DEF Sign!Expire
    <3> QED
      BY <1>5, <2>3, <3>2 DEF Sign!Expire
  <2>6. last' \in [Browser -> SUBSET Nat] /\ last'[b] = {} /\ \A d \in Browser \ {b} : last'[d] = last[d]
    BY <2>5 DEF Signed
  <2>7. rows' \in [User -> Account] /\ RowsFade
    BY <2>5 DEF Signed
  <2> QED
    BY <2>1, <2>4, <2>5, <2>6, <2>7, JarReplaced
<1> QED
  BY <1>2, <1>3, <1>4, <1>5 DEF Sign!Around

(* What a flow with a recovery behind it carries, or will carry.           *)
RecoveryOf(f) ==
  /\ flows[f].hops \in {0, 1}
  /\ flows[f].at = "page" => flows[f].hops = 0
  /\ (flows[f].at = "twitch" /\ flows[f].hops = 1 /\ f \in cookies[flows[f].browser].auth)
        => f \in cookies[flows[f].browser].recovery
  /\ (flows[f].at = "read" /\ flows[f].hops = 1) => flows[f].marks # {}

Recovering == Signed /\ \A f \in DOMAIN flows : RecoveryOf(f)

(* A flow that others pass by: the state of the browser is the same or     *)
(* another flow's, or the marks of the recovery stay with it.              *)
LEMMA PassedBy ==
    ASSUME NEW f \in DOMAIN flows, RecoveryOf(f), flows'[f] = flows[f],
           \/ f \notin cookies'[flows[f].browser].auth
           \/ /\ cookies'[flows[f].browser].auth \subseteq cookies[flows[f].browser].auth
              /\ cookies'[flows[f].browser].recovery = cookies[flows[f].browser].recovery
    PROVE  RecoveryOf(f)'
BY DEF RecoveryOf

LEMMA RecoveryKeeps ==
    ASSUME Recovering, "cookies" \notin Losses, [Sign!Next]_(Sign!vars)
    PROVE  Recovering'
<1>1. Signed /\ \A f \in DOMAIN flows : RecoveryOf(f) /\ flows[f].browser \in Browser
  BY FlowHas DEF Recovering
<1>2. ASSUME NEW b \in Browser, Sign!StartLogin(b) PROVE Recovering'
  <2>1. PICK n : n = Sign!New
    OBVIOUS
  <2>2. /\ Signed' /\ Grown(n, b, "twitch") /\ flows'[n].hops = 0
        /\ cookies'[b].auth = {n} /\ JarsStay(b)
    BY <1>1, <1>2, <2>1, StartLoginKeeps
  <2>3. RecoveryOf(n)'
    BY <2>2 DEF Grown, RecoveryOf
  <2>4. ASSUME NEW f \in DOMAIN flows PROVE RecoveryOf(f)'
    BY <1>1, <2>2, PassedBy DEF Grown, JarsStay
  <2> QED
    BY <2>2, <2>3, <2>4 DEF Recovering, Grown
<1>3. ASSUME NEW b \in Browser, NEW s \in Scope, Sign!StartReauth(b, s) PROVE Recovering'
  <2>1. PICK n : n = Sign!New
    OBVIOUS
  <2>2. /\ Signed' /\ Grown(n, b, "page") /\ flows'[n].hops = 0
        /\ cookies'[b].auth = cookies[b].auth /\ cookies'[b].recovery = cookies[b].recovery
        /\ JarsStay(b)
    BY <1>1, <1>3, <2>1, StartReauthKeeps
  <2>3. RecoveryOf(n)'
    BY <2>2 DEF Grown, RecoveryOf
  <2>4. ASSUME NEW f \in DOMAIN flows PROVE RecoveryOf(f)'
    BY <1>1, <2>2, PassedBy DEF Grown, JarsStay
  <2> QED
    BY <2>2, <2>3, <2>4 DEF Recovering, Grown
<1>4. ASSUME NEW f \in DOMAIN flows, Sign!StoreState(f) PROVE Recovering'
  <2>1. /\ Signed' /\ flows[f].at = "page" /\ Gone(f, "twitch")
        /\ \/ cookies'[flows[f].browser].auth = {f}
           \/ cookies'[flows[f].browser].auth = cookies[flows[f].browser].auth
        /\ cookies'[flows[f].browser].recovery = cookies[flows[f].browser].recovery
        /\ JarsStay(flows[f].browser)
    BY <1>1, <1>4, StoreKeeps
  <2>2. RecoveryOf(f)'
    BY <1>1, <2>1 DEF Gone, RecoveryOf
  <2>3. ASSUME NEW g \in DOMAIN flows \ {f} PROVE RecoveryOf(g)'
    BY <1>1, <2>1, PassedBy DEF Gone, JarsStay
  <2> QED
    BY <2>1, <2>2, <2>3 DEF Recovering, Gone
<1>5. ASSUME NEW f \in DOMAIN flows, Sign!Refuse(f) PROVE Recovering'
  <2>1. Signed' /\ Gone(f, "refused") /\ cookies' = cookies
    BY <1>1, <1>5, RefuseKeeps
  <2>2. RecoveryOf(f)'
    BY <1>1, <2>1 DEF Gone, RecoveryOf
  <2>3. ASSUME NEW g \in DOMAIN flows \ {f} PROVE RecoveryOf(g)'
    BY <1>1, <2>1, PassedBy DEF Gone
  <2> QED
    BY <2>1, <2>2, <2>3 DEF Recovering, Gone
<1>6. ASSUME NEW f \in DOMAIN flows, NEW u \in User, Sign!Return(f, u) PROVE Recovering'
  <2>1. /\ Signed' /\ flows[f].at = "twitch" /\ f \in cookies[flows[f].browser].auth
        /\ \/ Taken(f)
           \/ /\ Gone(f, "ended") /\ JarsStay(flows[f].browser)
              /\ \/ cookies' = cookies
                 \/ /\ cookies'[flows[f].browser].auth = {}
                    /\ cookies'[flows[f].browser].recovery = cookies[flows[f].browser].recovery
    BY <1>1, <1>6, ReturnKeeps
  <2>2. CASE Taken(f)
    <3>1. RecoveryOf(f)'
      <4>1. flows'[f].hops = 1 => "recovery" \in flows'[f].marks
        BY <1>1, <2>1, <2>2 DEF Taken, Gone, RecoveryOf, Mark
      <4> QED
        BY <1>1, <2>2, <4>1 DEF Taken, Gone, RecoveryOf
    <3>2. ASSUME NEW g \in DOMAIN flows \ {f} PROVE RecoveryOf(g)'
      BY <1>1, <2>2, PassedBy DEF Taken, Gone
    <3> QED
      BY <2>1, <2>2, <3>1, <3>2 DEF Recovering, Taken, Gone
  <2>3. CASE ~Taken(f)
    <3>1. RecoveryOf(f)'
      BY <1>1, <2>1, <2>3 DEF Gone, RecoveryOf
    <3>2. ASSUME NEW g \in DOMAIN flows \ {f} PROVE RecoveryOf(g)'
      BY <1>1, <2>1, <2>3, PassedBy DEF Gone, JarsStay
    <3> QED
      BY <2>1, <2>3, <3>1, <3>2 DEF Recovering, Gone
  <2> QED
    BY <2>2, <2>3
<1>7. ASSUME NEW f \in DOMAIN flows, NEW at \in {"write", "ended", "finish", "save"}, Signed',
             Gone(f, at), cookies' = cookies
      PROVE  Recovering'
  <2>1. RecoveryOf(f)'
    BY <1>1, <1>7 DEF Gone, RecoveryOf
  <2>2. ASSUME NEW g \in DOMAIN flows \ {f} PROVE RecoveryOf(g)'
    BY <1>1, <1>7, PassedBy DEF Gone
  <2> QED
    BY <1>7, <2>1, <2>2 DEF Recovering, Gone
<1>8. ASSUME NEW f \in DOMAIN flows, Sign!Redirect(f) PROVE Recovering'
  <2>1. PICK n : n = Sign!New
    OBVIOUS
  <2>2. /\ Signed' /\ flows[f].at = "read" /\ flows[f].marks = {}
        /\ n \notin DOMAIN flows /\ DOMAIN flows' = DOMAIN flows \cup {n}
        /\ flows'[f].at = "ended" /\ flows'[f].hops = flows[f].hops
        /\ \A g \in DOMAIN flows \ {f} : flows'[g] = flows[g]
        /\ flows'[n].browser = flows[f].browser /\ flows'[n].at = "twitch"
        /\ flows'[n].hops = flows[f].hops + 1
        /\ cookies'[flows[f].browser].auth = {n}
        /\ cookies'[flows[f].browser].recovery = {n}
        /\ JarsStay(flows[f].browser)
    BY <1>1, <1>8, <2>1, RedirectKeeps
  <2>3. flows[f].hops = 0
    BY <1>1, <2>2 DEF RecoveryOf
  <2>4. RecoveryOf(n)' /\ RecoveryOf(f)'
    BY <2>2, <2>3 DEF RecoveryOf
  <2>5. ASSUME NEW g \in DOMAIN flows \ {f} PROVE RecoveryOf(g)'
    BY <1>1, <2>2, PassedBy DEF JarsStay
  <2> QED
    BY <2>2, <2>4, <2>5 DEF Recovering
<1>9. ASSUME NEW f \in DOMAIN flows, Sign!Finish(f) PROVE Recovering'
  <2>1. /\ Signed' /\ Gone(f, "done") /\ cookies'[flows[f].browser].auth = {}
        /\ JarsStay(flows[f].browser)
    BY <1>1, <1>9, FinishKeeps
  <2>2. RecoveryOf(f)'
    BY <1>1, <2>1 DEF Gone, RecoveryOf
  <2>3. ASSUME NEW g \in DOMAIN flows \ {f} PROVE RecoveryOf(g)'
    BY <1>1, <2>1, PassedBy DEF Gone, JarsStay
  <2> QED
    BY <2>1, <2>2, <2>3 DEF Recovering, Gone
<1>10. CASE Sign!Around
  <2>1. Signed' /\ Waned
    BY <1>1, <1>10, AroundKeeps
  <2>2. ASSUME NEW f \in DOMAIN flows PROVE RecoveryOf(f)'
    BY <1>1, <2>1, PassedBy DEF Waned, Faded
  <2> QED
    BY <2>1, <2>2 DEF Recovering, Waned
<1>11. ASSUME NEW f \in DOMAIN flows, Sign!Handle(f) PROVE Recovering'
  <2>1. CASE Sign!Trusted(f)
    BY <1>1, <1>7, <2>1, TrustedKeeps
  <2>2. CASE Sign!Compared(f)
    BY <1>1, <1>7, <2>2, ComparedKeeps
  <2>3. CASE Sign!Upsert(f)
    BY <1>1, <1>7, <2>3, UpsertKeeps
  <2>4. CASE Sign!SaveScopes(f)
    BY <1>1, <1>7, <2>4, SaveKeeps
  <2> QED
    BY <1>8, <1>9, <1>11, <2>1, <2>2, <2>3, <2>4 DEF Sign!Handle
<1>12. CASE UNCHANGED Sign!vars
  BY <1>12 DEF Sign!vars, Recovering, Signed, RecoveryOf
<1> QED
  BY <1>2, <1>3, <1>4, <1>5, <1>6, <1>10, <1>11, <1>12
     DEF Sign!Next, Sign!Begin, Sign!Arrive

(* A recovery never calls for another one, however many browsers, users    *)
(* and flows there are and whatever callbacks overlap, as long as no       *)
(* cookie is lost (the callback of /api/auth/twitch).                      *)
THEOREM RecoveryIsLast ==
    ASSUME Returning \subseteq User, "cookies" \notin Losses
    PROVE  Sign!Spec => []Sign!RecoveredOnce
<1>1. Sign!Init => Recovering
  <2> SUFFICES ASSUME Sign!Init PROVE Recovering
    OBVIOUS
  <2>1. DOMAIN flows = {}
    BY DEF Sign!Init
  <2> QED
    BY <2>1, SignedInit DEF Recovering
<1>2. Recovering /\ [Sign!Next]_(Sign!vars) => Recovering'
  BY RecoveryKeeps
<1>3. Recovering => Sign!RecoveredOnce
  BY DEF Recovering, RecoveryOf, Sign!RecoveredOnce
<1> QED
  BY <1>1, <1>2, <1>3, PTL DEF Sign!Spec

(* Of the flows that take turns one is handled at a time, and the state in *)
(* its browser is its own.                                                 *)
SignSerial == Sign!Init /\ [][Sign!SerialNext]_(Sign!vars)

Active(f) == flows[f].at \in {"read", "write", "save", "finish"}

OneState == \A b \in Browser : \A x, y \in cookies[b].auth : x = y
OneActive == \A f, g \in DOMAIN flows : (Active(f) /\ Active(g)) => f = g
StateIsOwn == \A f \in DOMAIN flows : Active(f) => \A x \in cookies[flows[f].browser].auth : x = f
PageIsAlone == \A f, g \in DOMAIN flows : ~(flows[f].at = "page" /\ Active(g))

TakesTurns == Signed /\ OneState /\ OneActive /\ StateIsOwn /\ PageIsAlone

(* The steps under which the invariants are to hold: what begins, begins   *)
(* while nothing else is handled.                                          *)
NoneActive == \A f \in DOMAIN flows : ~Active(f)

Calm == NoneActive /\ \A f \in DOMAIN flows : flows[f].at # "page"

LEMMA SerialCases ==
    ASSUME Sign!SerialNext
    PROVE  \/ /\ Calm
              /\ \/ \E b \in Browser : Sign!StartLogin(b)
                 \/ \E b \in Browser, s \in Scope : Sign!StartReauth(b, s)
                 \/ \E f \in DOMAIN flows : Sign!Refuse(f)
                 \/ \E f \in DOMAIN flows, u \in User : Sign!Return(f, u)
           \/ \E f \in DOMAIN flows : Sign!StoreState(f) \/ Sign!Handle(f)
           \/ Sign!Around
<1>1. Sign!Settled => Calm
  BY DEF Sign!Settled, Sign!Busy, Sign!Running, Calm, NoneActive, Active
<1> QED
  BY <1>1 DEF Sign!SerialNext, Sign!Begin, Sign!Arrive

(* Where nothing is active any more, only the states have to differ.       *)
LEMMA TurnEnds ==
    ASSUME Signed', OneState', NoneActive'
    PROVE  TakesTurns'
BY DEF TakesTurns, OneActive, StateIsOwn, PageIsAlone, NoneActive

LEMMA TurnsKeep ==
    ASSUME TakesTurns, [Sign!SerialNext]_(Sign!vars)
    PROVE  TakesTurns'
<1>1. Signed /\ \A f \in DOMAIN flows : flows[f].browser \in Browser
  BY FlowHas DEF TakesTurns
<1>2. ASSUME NEW b \in Browser, Calm, Sign!StartLogin(b) PROVE TakesTurns'
  <2>1. PICK n : n = Sign!New
    OBVIOUS
  <2>2. /\ Signed' /\ Grown(n, b, "twitch") /\ cookies'[b].auth = {n} /\ JarsStay(b)
    BY <1>1, <1>2, <2>1, StartLoginKeeps
  <2>3. NoneActive'
    BY <1>2, <2>2 DEF Calm, NoneActive, Active, Grown
  <2>4. OneState'
    BY <2>2 DEF TakesTurns, OneState, JarsStay
  <2> QED
    BY <2>2, <2>3, <2>4, TurnEnds
<1>3. ASSUME NEW b \in Browser, NEW s \in Scope, Calm, Sign!StartReauth(b, s) PROVE TakesTurns'
  <2>1. PICK n : n = Sign!New
    OBVIOUS
  <2>2. /\ Signed' /\ Grown(n, b, "page") /\ cookies'[b].auth = cookies[b].auth /\ JarsStay(b)
    BY <1>1, <1>3, <2>1, StartReauthKeeps
  <2>3. NoneActive'
    BY <1>3, <2>2 DEF Calm, NoneActive, Active, Grown
  <2>4. OneState'
    BY <2>2 DEF TakesTurns, OneState, JarsStay
  <2> QED
    BY <2>2, <2>3, <2>4, TurnEnds
<1>4. ASSUME NEW f \in DOMAIN flows, Sign!StoreState(f) PROVE TakesTurns'
  <2>1. /\ Signed' /\ flows[f].at = "page" /\ Gone(f, "twitch")
        /\ \/ cookies'[flows[f].browser].auth = {f}
           \/ cookies'[flows[f].browser].auth = cookies[flows[f].browser].auth
        /\ JarsStay(flows[f].browser)
    BY <1>1, <1>4, StoreKeeps
  <2>2. NoneActive'
    BY <2>1 DEF TakesTurns, PageIsAlone, NoneActive, Active, Gone
  <2>3. OneState'
    BY <2>1 DEF TakesTurns, OneState, JarsStay
  <2> QED
    BY <2>1, <2>2, <2>3, TurnEnds
<1>5. ASSUME NEW f \in DOMAIN flows, Calm, Sign!Refuse(f) PROVE TakesTurns'
  <2>1. Signed' /\ Gone(f, "refused") /\ cookies' = cookies
    BY <1>1, <1>5, RefuseKeeps
  <2>2. NoneActive'
    BY <1>5, <2>1 DEF Calm, NoneActive, Active, Gone
  <2>3. OneState'
    BY <2>1 DEF TakesTurns, OneState
  <2> QED
    BY <2>1, <2>2, <2>3, TurnEnds
<1>6. ASSUME NEW f \in DOMAIN flows, NEW u \in User, Calm, Sign!Return(f, u) PROVE TakesTurns'
  <2>1. /\ Signed' /\ f \in cookies[flows[f].browser].auth /\ flows[f].browser \in Browser
        /\ \/ Taken(f)
           \/ /\ Gone(f, "ended") /\ JarsStay(flows[f].browser)
              /\ cookies' = cookies \/ cookies'[flows[f].browser].auth = {}
    BY <1>1, <1>6, ReturnKeeps
  <2>2. CASE Taken(f)
    <3>1. \A g \in DOMAIN flows' : Active(g)' => g = f
      BY <1>6, <2>2 DEF Calm, NoneActive, Active, Taken, Gone
    <3>2. \A g \in DOMAIN flows' : flows'[g].at # "page"
      BY <1>6, <2>2 DEF Calm, Taken, Gone
    <3>3. flows'[f].browser = flows[f].browser
      BY <2>2 DEF Taken, Gone
    <3>4. OneState' /\ StateIsOwn'
      BY <2>1, <2>2, <3>1, <3>3 DEF TakesTurns, OneState, StateIsOwn, Taken
    <3> QED
      BY <2>1, <3>1, <3>2, <3>4 DEF TakesTurns, OneActive, PageIsAlone
  <2>3. CASE ~Taken(f)
    <3>1. NoneActive'
      BY <1>6, <2>1, <2>3 DEF Calm, NoneActive, Active, Gone
    <3>2. OneState'
      BY <2>1, <2>3 DEF TakesTurns, OneState, JarsStay
    <3> QED
      BY <2>1, <3>1, <3>2, TurnEnds
  <2> QED
    BY <2>2, <2>3
<1>7. ASSUME NEW f \in DOMAIN flows, NEW at \in {"write", "ended", "finish", "save"}, Signed',
             Active(f), Gone(f, at), cookies' = cookies
      PROVE  TakesTurns'
  <2>1. \A g \in DOMAIN flows' : Active(g)' => g = f
    BY <1>7 DEF TakesTurns, OneActive, Active, Gone
  <2>2. \A g \in DOMAIN flows' : flows'[g].at # "page"
    BY <1>7 DEF TakesTurns, PageIsAlone, Active, Gone
  <2>3. flows'[f].browser = flows[f].browser
    BY <1>7 DEF Gone
  <2>4. OneState' /\ StateIsOwn'
    BY <1>7, <2>1, <2>3 DEF TakesTurns, OneState, StateIsOwn
  <2> QED
    BY <1>7, <2>1, <2>2, <2>4 DEF TakesTurns, OneActive, PageIsAlone
<1>8. ASSUME NEW f \in DOMAIN flows, Sign!Redirect(f) PROVE TakesTurns'
  <2>1. PICK n : n = Sign!New
    OBVIOUS
  <2>2. /\ Signed' /\ flows[f].at = "read" /\ DOMAIN flows' = DOMAIN flows \cup {n}
        /\ flows'[f].at = "ended" /\ flows'[n].at = "twitch"
        /\ \A g \in DOMAIN flows \ {f} : flows'[g] = flows[g]
        /\ cookies'[flows[f].browser].auth = {n} /\ JarsStay(flows[f].browser)
    BY <1>1, <1>8, <2>1, RedirectKeeps
  <2>3. NoneActive'
    BY <2>2 DEF TakesTurns, OneActive, NoneActive, Active
  <2>4. OneState'
    BY <2>2 DEF TakesTurns, OneState, JarsStay
  <2> QED
    BY <2>2, <2>3, <2>4, TurnEnds
<1>9. ASSUME NEW f \in DOMAIN flows, Sign!Finish(f) PROVE TakesTurns'
  <2>1. /\ Signed' /\ flows[f].at = "finish" /\ Gone(f, "done")
        /\ cookies'[flows[f].browser].auth = {} /\ JarsStay(flows[f].browser)
    BY <1>1, <1>9, FinishKeeps
  <2>2. NoneActive'
    BY <2>1 DEF TakesTurns, OneActive, NoneActive, Active, Gone
  <2>3. OneState'
    BY <2>1 DEF TakesTurns, OneState, JarsStay
  <2> QED
    BY <2>1, <2>2, <2>3, TurnEnds
<1>10. CASE Sign!Around
  <2>1. Signed' /\ Waned
    BY <1>1, <1>10, AroundKeeps
  <2>2. OneActive' /\ PageIsAlone'
    BY <2>1 DEF TakesTurns, OneActive, PageIsAlone, Active, Waned
  <2>3. OneState' /\ StateIsOwn'
    BY <1>1, <2>1 DEF TakesTurns, OneState, StateIsOwn, Active, Waned, Faded
  <2> QED
    BY <2>1, <2>2, <2>3 DEF TakesTurns
<1>11. ASSUME NEW f \in DOMAIN flows, Sign!Handle(f) PROVE TakesTurns'
  <2>1. CASE Sign!Trusted(f)
    BY <1>1, <1>7, <2>1, TrustedKeeps DEF Active
  <2>2. CASE Sign!Compared(f)
    BY <1>1, <1>7, <2>2, ComparedKeeps DEF Active
  <2>3. CASE Sign!Upsert(f)
    BY <1>1, <1>7, <2>3, UpsertKeeps DEF Active
  <2>4. CASE Sign!SaveScopes(f)
    BY <1>1, <1>7, <2>4, SaveKeeps DEF Active
  <2> QED
    BY <1>8, <1>9, <1>11, <2>1, <2>2, <2>3, <2>4 DEF Sign!Handle
<1>12. CASE UNCHANGED Sign!vars
  BY <1>12 DEF Sign!vars, TakesTurns, Signed, OneState, OneActive, StateIsOwn, PageIsAlone, Active
<1>13. CASE Sign!SerialNext
  BY <1>2, <1>3, <1>4, <1>5, <1>6, <1>10, <1>11, <1>13, SerialCases
<1> QED
  BY <1>12, <1>13

LEMMA TurnsBegin ==
    ASSUME Returning \subseteq User, Sign!Init PROVE TakesTurns /\ DOMAIN flows = {}
<1>1. Signed
  BY SignedInit
<1>2. \A b \in Browser : cookies[b].auth = {}
  BY DEF Sign!Init, Sign!NoCookies
<1>3. DOMAIN flows = {}
  BY DEF Sign!Init
<1> QED
  BY <1>1, <1>2, <1>3 DEF TakesTurns, OneState, OneActive, StateIsOwn, PageIsAlone

(* Of plain logins, the one a browser began last has its state there.      *)
LatestOf(f) ==
  /\ flows[f].at # "page"
  /\ (flows[f].at = "twitch" /\ f \in last[flows[f].browser]) => f \in cookies[flows[f].browser].auth

LatestStands == TakesTurns /\ \A f \in DOMAIN flows : LatestOf(f)

LEMMA LatestKeeps ==
    ASSUME LatestStands, Kinds \subseteq {"login"}, [Sign!SerialNext]_(Sign!vars)
    PROVE  LatestStands'
<1>1. Signed /\ \A f \in DOMAIN flows : LatestOf(f) /\ flows[f].browser \in Browser
  BY FlowHas DEF LatestStands, TakesTurns
<1>2. TakesTurns'
  BY TurnsKeep DEF LatestStands
<1>3. ASSUME NEW b \in Browser, Calm, Sign!StartLogin(b) PROVE LatestStands'
  <2>1. PICK n : n = Sign!New
    OBVIOUS
  <2>2. /\ Grown(n, b, "twitch") /\ cookies'[b].auth = {n} /\ JarsStay(b)
        /\ last' = [last EXCEPT ![b] = {n}]
    BY <1>1, <1>3, <2>1, StartLoginKeeps
  <2>3. LatestOf(n)'
    BY <2>2 DEF Grown, LatestOf
  <2>4. ASSUME NEW f \in DOMAIN flows PROVE LatestOf(f)'
    <3>1. flows'[f] = flows[f] /\ f # n
      BY <2>2 DEF Grown
    <3>2. flows[f].browser # b => last'[flows[f].browser] = last[flows[f].browser]
      BY <1>1, <2>2 DEF Signed
    <3>3. last'[b] = {n}
      BY <1>1, <2>2 DEF Signed
    <3> QED
      BY <1>1, <2>2, <3>1, <3>2, <3>3 DEF LatestOf, JarsStay
  <2> QED
    BY <1>2, <2>2, <2>3, <2>4 DEF LatestStands, Grown
<1>4. ASSUME NEW b \in Browser, NEW s \in Scope, Sign!StartReauth(b, s) PROVE FALSE
  BY <1>4 DEF Sign!StartReauth, Sign!MayBegin
<1>5. ASSUME NEW f \in DOMAIN flows, Sign!StoreState(f) PROVE FALSE
  BY <1>1, <1>5 DEF Sign!StoreState, LatestOf
<1>6. ASSUME NEW f \in DOMAIN flows, Sign!Refuse(f) PROVE LatestStands'
  <2>1. Gone(f, "refused") /\ cookies' = cookies /\ last' = last
    BY <1>1, <1>6, RefuseKeeps
  <2>2. \A g \in DOMAIN flows : LatestOf(g)'
    BY <1>1, <2>1 DEF Gone, LatestOf
  <2> QED
    BY <1>2, <2>1, <2>2 DEF LatestStands, Gone
<1>7. ASSUME NEW f \in DOMAIN flows, NEW u \in User, Sign!Return(f, u) PROVE LatestStands'
  <2>1. /\ f \in cookies[flows[f].browser].auth /\ flows[f].browser \in Browser /\ last' = last
        /\ \/ Gone(f, "read") /\ cookies' = cookies
           \/ /\ Gone(f, "ended") /\ JarsStay(flows[f].browser)
              /\ cookies' = cookies \/ cookies'[flows[f].browser].auth = {}
    BY <1>1, <1>7, ReturnKeeps DEF Taken
  <2>2. ASSUME NEW g \in DOMAIN flows \ {f} PROVE LatestOf(g)'
    <3>1. flows'[g] = flows[g] /\ flows[g].browser \in Browser /\ LatestOf(g)
      BY <1>1, <2>1 DEF Gone
    <3>2. CASE flows[g].browser = flows[f].browser
      BY <2>1, <3>1, <3>2 DEF LatestOf, LatestStands, TakesTurns, OneState
    <3>3. CASE flows[g].browser # flows[f].browser
      BY <2>1, <3>1, <3>3 DEF LatestOf, JarsStay
    <3> QED
      BY <3>2, <3>3
  <2>3. LatestOf(f)'
    BY <2>1 DEF Gone, LatestOf
  <2> QED
    BY <1>2, <2>1, <2>2, <2>3 DEF LatestStands, Gone
<1>8. ASSUME NEW f \in DOMAIN flows, NEW at \in {"write", "ended", "finish", "save"},
             Gone(f, at), cookies' = cookies, last' = last
      PROVE  LatestStands'
  <2>1. \A g \in DOMAIN flows : LatestOf(g)'
    BY <1>1, <1>8 DEF Gone, LatestOf
  <2> QED
    BY <1>2, <1>8, <2>1 DEF LatestStands, Gone
<1>9. ASSUME NEW f \in DOMAIN flows, Sign!Redirect(f) PROVE LatestStands'
  <2>1. PICK n : n = Sign!New
    OBVIOUS
  <2>2. PICK b \in Browser : b = flows[f].browser
    BY <1>1
  <2>3. /\ DOMAIN flows' = DOMAIN flows \cup {n} /\ n \notin DOMAIN flows
        /\ flows'[f].at = "ended" /\ flows'[n].at = "twitch" /\ flows'[n].browser = b
        /\ \A g \in DOMAIN flows \ {f} : flows'[g] = flows[g]
        /\ cookies'[b].auth = {n} /\ JarsStay(b)
        /\ last' = [last EXCEPT ![b] = {n}]
    BY <1>1, <1>9, <2>1, <2>2, RedirectKeeps
  <2>4. LatestOf(n)' /\ LatestOf(f)'
    BY <2>3 DEF LatestOf
  <2>5. ASSUME NEW g \in DOMAIN flows \ {f} PROVE LatestOf(g)'
    <3>1. flows'[g] = flows[g] /\ g # n
      BY <2>3
    <3>2. flows[g].browser # b => last'[flows[g].browser] = last[flows[g].browser]
      BY <1>1, <2>3 DEF Signed
    <3>3. last'[b] = {n}
      BY <1>1, <2>3 DEF Signed
    <3> QED
      BY <1>1, <2>3, <3>1, <3>2, <3>3 DEF LatestOf, JarsStay
  <2> QED
    BY <1>2, <2>3, <2>4, <2>5 DEF LatestStands
<1>10. ASSUME NEW f \in DOMAIN flows, Sign!Finish(f) PROVE LatestStands'
  <2>1. /\ flows[f].at = "finish" /\ Gone(f, "done") /\ last' = last /\ JarsStay(flows[f].browser)
    BY <1>1, <1>10, FinishKeeps
  <2>2. \A x \in cookies[flows[f].browser].auth : x = f
    BY <2>1 DEF LatestStands, TakesTurns, StateIsOwn, Active
  <2>3. ASSUME NEW g \in DOMAIN flows \ {f} PROVE LatestOf(g)'
    BY <1>1, <2>1, <2>2 DEF LatestOf, Gone, JarsStay
  <2>4. LatestOf(f)'
    BY <2>1 DEF Gone, LatestOf
  <2> QED
    BY <1>2, <2>1, <2>3, <2>4 DEF LatestStands, Gone
<1>11. CASE Sign!Around
  <2>1. Waned
    BY <1>1, <1>11, AroundKeeps
  <2>2. ASSUME NEW f \in DOMAIN flows PROVE LatestOf(f)'
    BY <1>1, <2>1 DEF LatestOf, Waned
  <2> QED
    BY <1>2, <2>1, <2>2 DEF LatestStands, Waned
<1>12. ASSUME NEW f \in DOMAIN flows, Sign!Handle(f) PROVE LatestStands'
  <2>1. CASE Sign!Trusted(f)
    BY <1>1, <1>8, <2>1, TrustedKeeps
  <2>2. CASE Sign!Compared(f)
    BY <1>1, <1>8, <2>2, ComparedKeeps
  <2>3. CASE Sign!Upsert(f)
    BY <1>1, <1>8, <2>3, UpsertKeeps
  <2>4. CASE Sign!SaveScopes(f)
    BY <1>1, <1>8, <2>4, SaveKeeps
  <2> QED
    BY <1>9, <1>10, <1>12, <2>1, <2>2, <2>3, <2>4 DEF Sign!Handle
<1>13. CASE UNCHANGED Sign!vars
  BY <1>2, <1>13 DEF Sign!vars, LatestStands, LatestOf
<1>14. CASE Sign!SerialNext
  BY <1>3, <1>4, <1>5, <1>6, <1>7, <1>11, <1>12, <1>14, SerialCases
<1> QED
  BY <1>13, <1>14

(* What refuses a flow is its refusal.                                     *)
LEMMA RefusedByRefuse ==
    ASSUME LatestStands, Sign!SerialNext, NEW f \in DOMAIN flows, flows[f].at = "twitch",
           flows'[f].at = "refused"
    PROVE  f \notin cookies[flows[f].browser].auth
<1>1. Signed /\ \A g \in DOMAIN flows : flows[g].browser \in Browser
  BY FlowHas DEF LatestStands, TakesTurns
<1>2. ASSUME NEW b \in Browser, Sign!StartLogin(b) PROVE FALSE
  BY <1>1, <1>2, StartLoginKeeps DEF Grown
<1>3. ASSUME NEW b \in Browser, NEW s \in Scope, Sign!StartReauth(b, s) PROVE FALSE
  BY <1>1, <1>3, StartReauthKeeps DEF Grown
<1>4. ASSUME NEW g \in DOMAIN flows, Sign!StoreState(g) PROVE FALSE
  BY <1>1, <1>4, StoreKeeps DEF Gone
<1>5. ASSUME NEW g \in DOMAIN flows, NEW u \in User, Sign!Return(g, u) PROVE FALSE
  BY <1>1, <1>5, ReturnKeeps DEF Gone, Taken
<1>6. ASSUME NEW g \in DOMAIN flows, Sign!Refuse(g) PROVE f \notin cookies[flows[f].browser].auth
  BY <1>1, <1>6, RefuseKeeps DEF Gone
<1>7. ASSUME NEW g \in DOMAIN flows, NEW at \in {"write", "ended", "finish", "save", "done"}, Gone(g, at)
      PROVE  FALSE
  BY <1>7 DEF Gone
<1>8. ASSUME NEW g \in DOMAIN flows, Sign!Handle(g) PROVE FALSE
  <2>1. CASE Sign!Trusted(g)
    BY <1>1, <1>7, <2>1, TrustedKeeps
  <2>2. CASE Sign!Compared(g)
    BY <1>1, <1>7, <2>2, ComparedKeeps
  <2>3. CASE Sign!Upsert(g)
    BY <1>1, <1>7, <2>3, UpsertKeeps
  <2>4. CASE Sign!SaveScopes(g)
    BY <1>1, <1>7, <2>4, SaveKeeps
  <2>5. CASE Sign!Finish(g)
    BY <1>1, <1>7, <2>5, FinishKeeps
  <2>6. CASE Sign!Redirect(g)
    BY <1>1, <2>6, RedirectKeeps
  <2> QED
    BY <1>8, <2>1, <2>2, <2>3, <2>4, <2>5, <2>6 DEF Sign!Handle
<1>9. CASE Sign!Around
  BY <1>1, <1>9, AroundKeeps DEF Waned
<1> QED
  BY <1>2, <1>3, <1>4, <1>5, <1>6, <1>8, <1>9, SerialCases

(* The flow a browser began last is not refused for its state unless the   *)
(* browser lost its cookies, for any users and browsers, while only logins *)
(* are begun and callbacks do not overlap (the callback of                 *)
(* /api/auth/twitch).                                                      *)
THEOREM LatestIsAccepted ==
    ASSUME Returning \subseteq User, Kinds \subseteq {"login"}
    PROVE  SignSerial => [][Sign!AcceptsLatest]_(Sign!vars)
<1>1. Sign!Init => LatestStands
  BY TurnsBegin DEF LatestStands
<1>2. LatestStands /\ [Sign!SerialNext]_(Sign!vars) => LatestStands'
  BY LatestKeeps
<1>3. LatestStands /\ [Sign!SerialNext]_(Sign!vars) => [Sign!AcceptsLatest]_(Sign!vars)
  <2> SUFFICES ASSUME LatestStands, Sign!SerialNext, NEW f \in DOMAIN flows,
                      flows[f].at = "twitch", flows'[f].at = "refused"
               PROVE  f \notin last[flows[f].browser]
    BY DEF Sign!AcceptsLatest, Sign!Home
  <2> QED
    BY RefusedByRefuse DEF LatestStands, LatestOf
<1> QED
  BY <1>1, <1>2, <1>3, PTL DEF SignSerial

(* Of one user on one device: what is asked for, and will be saved without *)
(* a second look, covers the scopes on record.                             *)
OneDevice == /\ \E b : Browser = {b}
             /\ \E u : User = {u}
             /\ Returning \subseteq User

Covers(f) == \A u \in User : rows[u].scopes \subseteq flows[f].ask

Sure(f) ==
  \/ flows[f].at = "page"
  \/ /\ flows[f].at = "twitch"
     /\ \E b \in Browser : /\ f \in cookies[b].auth
                           /\ f \in cookies[b].reauth \cup cookies[b].recovery
  \/ flows[f].at = "read" /\ ("reauth" \in flows[f].marks \/ "recovery" \in flows[f].marks)
  \/ flows[f].at = "write" /\ flows[f].skip = FALSE
  \/ flows[f].at = "save"

MarksBegun == \A b \in Browser : cookies[b].reauth \cup cookies[b].recovery \subseteq DOMAIN flows

Recorded == TakesTurns /\ MarksBegun /\ \A f \in DOMAIN flows : Sure(f) => Covers(f)

(* A flow that was sure of its scopes still is where no scope is added.    *)
LEMMA StillSure ==
    ASSUME NEW f \in DOMAIN flows, Sure(f) => Covers(f), Sure(f)' => Sure(f),
           flows'[f].ask = flows[f].ask, \A u \in User : rows'[u].scopes = rows[u].scopes
    PROVE  (Sure(f) => Covers(f))'
BY DEF Covers

LEMMA RecordKeeps ==
    ASSUME OneDevice, Recorded, [Sign!SerialNext]_(Sign!vars)
    PROVE  Recorded' /\ \A u \in User : rows[u].scopes \subseteq rows'[u].scopes
<1>1. /\ Signed /\ \A f \in DOMAIN flows : flows[f].browser \in Browser /\ (Sure(f) => Covers(f))
      /\ \A f \in DOMAIN flows : flows[f].marks \in SUBSET Mark
  BY FlowHas DEF Recorded, TakesTurns
<1>2. TakesTurns'
  BY TurnsKeep DEF Recorded
<1>3. \A b, c \in Browser : b = c
  BY DEF OneDevice
<1>4. \A u, v \in User : u = v
  BY DEF OneDevice
<1> DEFINE Goal == Recorded' /\ \A u \in User : rows[u].scopes \subseteq rows'[u].scopes
<1>5. ASSUME NEW b \in Browser, Calm, Sign!StartLogin(b) PROVE Goal
  <2>1. PICK n : n = Sign!New
    OBVIOUS
  <2>2. /\ Grown(n, b, "twitch") /\ cookies'[b].auth = {n} /\ rows' = rows
        /\ cookies'[b].reauth = cookies[b].reauth /\ cookies'[b].recovery = cookies[b].recovery
    BY <1>1, <1>5, <2>1, StartLoginKeeps
  <2>3. MarksBegun'
    BY <1>3, <2>2 DEF Recorded, MarksBegun, Grown
  <2>4. ~Sure(n)'
    BY <1>3, <2>2 DEF Sure, Grown, Recorded, MarksBegun
  <2>5. ASSUME NEW f \in DOMAIN flows PROVE (Sure(f) => Covers(f))'
    <3>1. flows'[f] = flows[f] /\ f # n
      BY <2>2 DEF Grown
    <3>2. Sure(f)' => Sure(f)
      BY <1>3, <2>2, <3>1 DEF Sure
    <3> QED
      BY <1>1, <2>2, <3>1, <3>2, StillSure
  <2> QED
    BY <1>2, <2>2, <2>3, <2>4, <2>5 DEF Recorded, Grown
<1>6. ASSUME NEW b \in Browser, NEW s \in Scope, Calm, Sign!StartReauth(b, s) PROVE Goal
  <2>1. PICK n : n = Sign!New
    OBVIOUS
  <2>2. PICK u \in User :
        /\ Grown(n, b, "page") /\ flows'[n].ask = rows[u].scopes \cup {s}
        /\ rows'[u].scopes = rows[u].scopes
        /\ cookies'[b].auth = cookies[b].auth
        /\ cookies'[b].reauth = {n} /\ cookies'[b].recovery = cookies[b].recovery
    BY <1>1, <1>6, <2>1, StartReauthKeeps
  <2>3. MarksBegun'
    BY <1>3, <2>2 DEF Recorded, MarksBegun, Grown
  <2>4. Covers(n)'
    BY <1>4, <2>2 DEF Covers
  <2>5. ASSUME NEW f \in DOMAIN flows PROVE (Sure(f) => Covers(f))'
    <3>1. flows'[f] = flows[f] /\ f # n
      BY <2>2 DEF Grown
    <3>2. Sure(f)' => Sure(f)
      BY <1>3, <2>2, <3>1 DEF Sure
    <3> QED
      BY <1>1, <1>4, <2>2, <3>1, <3>2, StillSure
  <2>6. \A v \in User : rows[v].scopes \subseteq rows'[v].scopes
    BY <1>4, <2>2
  <2> QED
    BY <1>2, <2>2, <2>3, <2>4, <2>5, <2>6 DEF Recorded, Grown
<1>7. ASSUME NEW f \in DOMAIN flows, Sign!StoreState(f) PROVE Goal
  <2>1. /\ flows[f].at = "page" /\ Gone(f, "twitch") /\ rows' = rows
        /\ \/ cookies'[flows[f].browser].auth = {f}
           \/ cookies'[flows[f].browser].auth = cookies[flows[f].browser].auth
        /\ cookies'[flows[f].browser].reauth = cookies[flows[f].browser].reauth
        /\ cookies'[flows[f].browser].recovery = cookies[flows[f].browser].recovery
    BY <1>1, <1>7, StoreKeeps
  <2>2. MarksBegun'
    BY <1>1, <1>3, <2>1 DEF Recorded, MarksBegun, Gone
  <2>3. Covers(f)'
    BY <1>1, <2>1 DEF Covers, Sure, Gone
  <2>4. ASSUME NEW g \in DOMAIN flows \ {f} PROVE (Sure(g) => Covers(g))'
    <3>1. flows'[g] = flows[g]
      BY <2>1 DEF Gone
    <3>2. Sure(g)' => Sure(g)
      BY <1>1, <1>3, <2>1, <3>1 DEF Sure
    <3> QED
      BY <1>1, <2>1, <3>1, <3>2, StillSure
  <2> QED
    BY <1>2, <2>1, <2>2, <2>3, <2>4 DEF Recorded, Gone
<1>8. ASSUME NEW f \in DOMAIN flows, NEW at, Gone(f, at), rows' = rows \/ \A u \in User : rows'[u].scopes = rows[u].scopes,
             \A b \in Browser : /\ cookies'[b].auth \subseteq cookies[b].auth
                                /\ cookies'[b].reauth \subseteq cookies[b].reauth
                                /\ cookies'[b].recovery \subseteq cookies[b].recovery,
             Sure(f)' => Covers(f)
      PROVE  Goal
  <2>1. MarksBegun'
    BY <1>8 DEF Recorded, MarksBegun, Gone
  <2>2. ASSUME NEW g \in DOMAIN flows \ {f} PROVE (Sure(g) => Covers(g))'
    <3>1. flows'[g] = flows[g]
      BY <1>8 DEF Gone
    <3>2. Sure(g)' => Sure(g)
      BY <1>8, <3>1 DEF Sure
    <3> QED
      BY <1>1, <1>8, <3>1, <3>2, StillSure
  <2>3. (Sure(f) => Covers(f))'
    BY <1>8 DEF Covers, Gone
  <2> QED
    BY <1>2, <1>8, <2>1, <2>2, <2>3 DEF Recorded, Gone
<1>9. ASSUME NEW f \in DOMAIN flows, Sign!Refuse(f) PROVE Goal
  <2>1. Gone(f, "refused") /\ cookies' = cookies /\ rows' = rows
    BY <1>1, <1>9, RefuseKeeps
  <2>2. ~Sure(f)'
    BY <2>1 DEF Sure, Gone
  <2> QED
    BY <1>8, <2>1, <2>2
<1>10. ASSUME NEW f \in DOMAIN flows, NEW u \in User, Sign!Return(f, u) PROVE Goal
  <2>1. /\ flows[f].at = "twitch" /\ f \in cookies[flows[f].browser].auth /\ rows' = rows
        /\ flows[f].browser \in Browser
        /\ \/ Taken(f)
           \/ /\ Gone(f, "ended") /\ JarsStay(flows[f].browser)
              /\ \/ cookies' = cookies
                 \/ /\ cookies'[flows[f].browser].auth = {}
                    /\ cookies'[flows[f].browser].reauth = cookies[flows[f].browser].reauth
                    /\ cookies'[flows[f].browser].recovery = cookies[flows[f].browser].recovery
    BY <1>1, <1>10, ReturnKeeps
  <2>2. CASE Taken(f)
    <3>1. Gone(f, "read") /\ cookies' = cookies
      BY <2>2 DEF Taken
    <3>2. Sure(f)' => Covers(f)
      BY <1>1, <2>1, <2>2, <3>1 DEF Sure, Taken, Gone, Mark
    <3> QED
      BY <1>8, <2>1, <3>1, <3>2
  <2>3. CASE ~Taken(f)
    <3>1. Gone(f, "ended")
      BY <2>1, <2>3
    <3>2. ~Sure(f)'
      BY <3>1 DEF Sure, Gone
    <3>3. \A b \in Browser : /\ cookies'[b].auth \subseteq cookies[b].auth
                             /\ cookies'[b].reauth \subseteq cookies[b].reauth
                             /\ cookies'[b].recovery \subseteq cookies[b].recovery
      BY <1>3, <2>1, <2>3
    <3> QED
      BY <1>8, <2>1, <3>1, <3>2, <3>3
  <2> QED
    BY <2>2, <2>3
<1>11. ASSUME NEW f \in DOMAIN flows, Sign!Trusted(f) PROVE Goal
  <2>1. /\ flows[f].at = "read" /\ flows[f].marks # {} /\ Gone(f, "write")
        /\ ("guard" \in flows[f].marks => flows'[f].skip = TRUE) /\ rows' = rows /\ cookies' = cookies
    BY <1>1, <1>11, TrustedKeeps
  <2>2. Sure(f)' => Covers(f)
    <3>1. Sure(f)' => "guard" \notin flows[f].marks
      BY <2>1 DEF Sure, Gone
    <3>2. "guard" \notin flows[f].marks => Sure(f)
      BY <1>1, <2>1 DEF Sure, Mark
    <3> QED
      BY <1>1, <3>1, <3>2
  <2> QED
    BY <1>8, <2>1, <2>2
<1>12. ASSUME NEW f \in DOMAIN flows, Sign!Compared(f) PROVE Goal
  <2>1. /\ Gone(f, "write") /\ rows' = rows /\ cookies' = cookies
        /\ \/ \E u \in User : u \in flows[f].who /\ rows[u].scopes \subseteq flows[f].ask
           \/ flows'[f].skip = TRUE
    BY <1>1, <1>12, ComparedKeeps
  <2>2. Sure(f)' => Covers(f)
    BY <1>4, <2>1 DEF Sure, Covers, Gone
  <2> QED
    BY <1>8, <2>1, <2>2
<1>13. ASSUME NEW f \in DOMAIN flows, Sign!Redirect(f) PROVE Goal
  <2>1. PICK n : n = Sign!New
    OBVIOUS
  <2>2. PICK b \in Browser : b = flows[f].browser
    BY <1>1
  <2>3. /\ DOMAIN flows' = DOMAIN flows \cup {n} /\ n \notin DOMAIN flows
        /\ flows'[f].at = "ended" /\ flows'[n].at = "twitch"
        /\ \A g \in DOMAIN flows \ {f} : flows'[g] = flows[g]
        /\ \E u \in User : flows'[n].ask = rows[u].scopes
        /\ cookies'[b].auth = {n} /\ cookies'[b].recovery = {n}
        /\ cookies'[b].reauth = cookies[b].reauth /\ rows' = rows
    BY <1>1, <1>13, <2>1, <2>2, RedirectKeeps
  <2>4. MarksBegun'
    BY <1>3, <2>3 DEF Recorded, MarksBegun
  <2>5. Covers(n)' /\ ~Sure(f)'
    BY <1>4, <2>3 DEF Covers, Sure
  <2>6. ASSUME NEW g \in DOMAIN flows \ {f} PROVE (Sure(g) => Covers(g))'
    <3>1. flows'[g] = flows[g] /\ g # n
      BY <2>3
    <3>2. Sure(g)' => Sure(g)
      BY <1>3, <2>3, <3>1 DEF Sure
    <3> QED
      BY <1>1, <2>3, <3>1, <3>2, StillSure
  <2> QED
    BY <1>2, <2>3, <2>4, <2>5, <2>6 DEF Recorded
<1>14. ASSUME NEW f \in DOMAIN flows, Sign!Upsert(f) PROVE Goal
  <2>1. /\ flows[f].at = "write" /\ cookies' = cookies
        /\ \/ Gone(f, "ended") /\ rows' = rows
           \/ /\ Gone(f, IF flows[f].skip THEN "finish" ELSE "save")
              /\ \A u \in User : rows'[u].scopes = rows[u].scopes
    BY <1>1, <1>14, UpsertKeeps
  <2>2. CASE Gone(f, "ended") /\ rows' = rows
    <3>1. ~Sure(f)'
      BY <2>2 DEF Sure, Gone
    <3> QED
      BY <1>8, <2>1, <2>2, <3>1
  <2>3. CASE flows[f].skip /\ Gone(f, "finish") /\ \A u \in User : rows'[u].scopes = rows[u].scopes
    <3>1. ~Sure(f)'
      BY <2>3 DEF Sure, Gone
    <3> QED
      BY <1>8, <2>1, <2>3, <3>1
  <2>4. CASE /\ ~flows[f].skip /\ Gone(f, "save")
             /\ \A u \in User : rows'[u].scopes = rows[u].scopes
    <3>1. Covers(f)
      BY <1>1, <2>1, <2>4 DEF Sure
    <3> QED
      BY <1>8, <2>1, <2>4, <3>1
  <2> QED
    BY <2>1, <2>2, <2>3, <2>4
<1>15. ASSUME NEW f \in DOMAIN flows, Sign!SaveScopes(f) PROVE Goal
  <2>1. /\ flows[f].at = "save" /\ cookies' = cookies
        /\ \/ Gone(f, "ended") /\ rows' = rows
           \/ /\ Gone(f, "finish")
              /\ \A u \in User : \/ u \in flows[f].who /\ rows'[u].scopes = flows[f].ask
                                 \/ rows'[u] = rows[u]
    BY <1>1, <1>15, SaveKeeps
  <2>2. Covers(f) /\ Active(f)
    BY <1>1, <2>1 DEF Sure, Active
  <2>3. ASSUME NEW g \in DOMAIN flows \ {f} PROVE ~Sure(g)'
    <3>1. flows'[g] = flows[g] /\ ~Active(g) /\ flows[g].at # "page"
      BY <2>1, <2>2 DEF Gone, Recorded, TakesTurns, OneActive, PageIsAlone
    <3>2. \A b \in Browser : g \notin cookies[b].auth
      BY <1>1, <1>3, <2>2 DEF Recorded, TakesTurns, StateIsOwn
    <3> QED
      BY <2>1, <3>1, <3>2 DEF Sure, Active
  <2>4. ~Sure(f)'
    BY <2>1 DEF Sure, Gone
  <2>5. MarksBegun'
    BY <2>1 DEF Recorded, MarksBegun, Gone
  <2>6. \A u \in User : rows[u].scopes \subseteq rows'[u].scopes
    BY <2>1, <2>2 DEF Covers
  <2> QED
    BY <1>2, <2>1, <2>3, <2>4, <2>5, <2>6 DEF Recorded, Gone
<1>16. ASSUME NEW f \in DOMAIN flows, Sign!Finish(f) PROVE Goal
  <2>1. /\ Gone(f, "done") /\ rows' = rows /\ cookies'[flows[f].browser].auth = {}
        /\ cookies'[flows[f].browser].reauth \subseteq cookies[flows[f].browser].reauth
        /\ cookies'[flows[f].browser].recovery \subseteq cookies[flows[f].browser].recovery
    BY <1>1, <1>16, FinishKeeps
  <2>2. ~Sure(f)'
    BY <2>1 DEF Sure, Gone
  <2> QED
    BY <1>1, <1>3, <1>8, <2>1, <2>2
<1>17. CASE Sign!Around
  <2>1. Waned
    BY <1>1, <1>17, AroundKeeps
  <2>2. ASSUME NEW f \in DOMAIN flows PROVE (Sure(f) => Covers(f))'
    <3>1. Sure(f)' => Sure(f)
      BY <2>1 DEF Waned, Faded, Sure
    <3> QED
      BY <1>1, <2>1, <3>1, StillSure DEF Waned
  <2>3. MarksBegun'
    BY <2>1 DEF Recorded, MarksBegun, Waned, Faded
  <2> QED
    BY <1>2, <2>1, <2>2, <2>3 DEF Recorded, Waned
<1>18. ASSUME NEW f \in DOMAIN flows, Sign!Handle(f) PROVE Goal
  BY <1>11, <1>12, <1>13, <1>14, <1>15, <1>16, <1>18 DEF Sign!Handle
<1>19. CASE UNCHANGED Sign!vars
  BY <1>2, <1>19 DEF Sign!vars, Recorded, MarksBegun, Sure, Covers
<1>20. CASE Sign!SerialNext
  BY <1>5, <1>6, <1>7, <1>9, <1>10, <1>17, <1>18, <1>20, SerialCases
<1> QED
  BY <1>19, <1>20

(* What a user once granted stays on record, whatever cookies, reads,      *)
(* codes and answers are lost, for any scopes and any number of flows of   *)
(* one user with one browser whose callbacks come one after the other      *)
(* (the callback and reauth of /api/auth/twitch).                          *)
THEOREM GrantedScopesStay ==
    ASSUME OneDevice PROVE SignSerial => [][Sign!KeepsScopes]_(Sign!vars)
<1>1. Sign!Init => Recorded
  <2> SUFFICES ASSUME Sign!Init PROVE Recorded
    OBVIOUS
  <2>1. TakesTurns /\ DOMAIN flows = {}
    BY TurnsBegin DEF OneDevice
  <2>2. \A b \in Browser : cookies[b].reauth = {} /\ cookies[b].recovery = {}
    BY DEF Sign!Init, Sign!NoCookies
  <2> QED
    BY <2>1, <2>2 DEF Recorded, MarksBegun
<1>2. Recorded /\ [Sign!SerialNext]_(Sign!vars) => Recorded'
  BY RecordKeeps
<1>3. Recorded /\ [Sign!SerialNext]_(Sign!vars) => [Sign!KeepsScopes]_(Sign!vars)
  BY RecordKeeps DEF Sign!KeepsScopes
<1> QED
  BY <1>1, <1>2, <1>3, PTL DEF SignSerial

(* Where no read fails no flow is guarded, and the record is true of the   *)
(* token.                                                                  *)
Unguarded(f) ==
  /\ flows[f].at = "read" => "guard" \notin flows[f].marks
  /\ flows[f].at = "write" => flows[f].skip = FALSE
  /\ flows[f].at = "save" =>
       \A u \in User : (u \in flows[f].who /\ rows[u].token) => flows[f].ask \subseteq rows[u].granted

TrueOf(u) == rows[u].token => rows[u].scopes \subseteq rows[u].granted

Honest ==
  /\ \A b \in Browser : cookies[b].guard = {}
  /\ \A f \in DOMAIN flows : Unguarded(f)
  /\ \A u \in User : TrueOf(u)

LEMMA HonestKeeps ==
    ASSUME OneDevice, Recorded, Honest, "read" \notin Losses, [Sign!SerialNext]_(Sign!vars)
    PROVE  Honest'
<1>1. /\ Signed /\ \A f \in DOMAIN flows : flows[f].browser \in Browser /\ (Sure(f) => Covers(f))
      /\ \A f \in DOMAIN flows : Unguarded(f)
      /\ \A b \in Browser : cookies[b].guard = {}
      /\ \A u \in User : TrueOf(u)
  BY FlowHas DEF Recorded, TakesTurns, Honest
<1>2. ASSUME NEW f \in DOMAIN flows, flows'[f] = flows[f],
             \A u \in User : rows'[u].token => rows'[u] = rows[u]
      PROVE  Unguarded(f)'
  BY <1>1, <1>2 DEF Unguarded
<1>3. ASSUME \A u \in User : rows'[u].token => rows'[u] = rows[u]
      PROVE  \A u \in User : TrueOf(u)'
  BY <1>1, <1>3 DEF TrueOf
<1>4. \A b, c \in Browser : b = c
  BY DEF OneDevice
<1>5. ASSUME NEW b \in Browser, Calm, Sign!StartLogin(b) PROVE Honest'
  <2>1. PICK n : n = Sign!New
    OBVIOUS
  <2>2. /\ Grown(n, b, "twitch") /\ rows' = rows /\ cookies'[b].guard = cookies[b].guard
    BY <1>1, <1>5, <2>1, StartLoginKeeps
  <2>3. Unguarded(n)'
    BY <2>2 DEF Unguarded, Grown
  <2>4. \A f \in DOMAIN flows : Unguarded(f)'
    BY <1>2, <2>2 DEF Grown
  <2> QED
    BY <1>1, <1>3, <1>4, <2>2, <2>3, <2>4 DEF Honest, Grown
<1>6. ASSUME NEW b \in Browser, NEW s \in Scope, Calm, Sign!StartReauth(b, s) PROVE Honest'
  <2>1. PICK n : n = Sign!New
    OBVIOUS
  <2>2. /\ Grown(n, b, "page") /\ cookies'[b].guard = cookies[b].guard
        /\ \E u \in User : rows'[u].token = FALSE /\ \A v \in User \ {u} : rows'[v] = rows[v]
    BY <1>1, <1>6, <2>1, StartReauthKeeps
  <2>3. \A u \in User : rows'[u].token => rows'[u] = rows[u]
    BY <2>2
  <2>4. Unguarded(n)'
    BY <2>2 DEF Unguarded, Grown
  <2>5. \A f \in DOMAIN flows : Unguarded(f)'
    BY <1>2, <2>2, <2>3 DEF Grown
  <2> QED
    BY <1>1, <1>3, <1>4, <2>2, <2>3, <2>4, <2>5 DEF Honest, Grown
<1>7. ASSUME NEW f \in DOMAIN flows, NEW at, Gone(f, at), rows' = rows,
             \A b \in Browser : cookies'[b].guard \subseteq cookies[b].guard, Unguarded(f)'
      PROVE  Honest'
  <2>1. \A g \in DOMAIN flows \ {f} : Unguarded(g)'
    BY <1>2, <1>7 DEF Gone
  <2> QED
    BY <1>1, <1>3, <1>7, <2>1 DEF Honest, Gone
<1>8. ASSUME NEW f \in DOMAIN flows, NEW at \in {"twitch", "refused", "finish", "ended", "done"}, Gone(f, at)
      PROVE  Unguarded(f)'
  BY <1>8 DEF Unguarded, Gone
<1>9. ASSUME NEW f \in DOMAIN flows, Sign!StoreState(f) PROVE Honest'
  <2>1. /\ Gone(f, "twitch") /\ rows' = rows
        /\ cookies'[flows[f].browser].guard = cookies[flows[f].browser].guard
    BY <1>1, <1>9, StoreKeeps
  <2>2. \A b \in Browser : cookies'[b].guard \subseteq cookies[b].guard
    BY <1>1, <1>4, <2>1
  <2> QED
    BY <1>7, <1>8, <2>1, <2>2
<1>10. ASSUME NEW f \in DOMAIN flows, Sign!Refuse(f) PROVE Honest'
  <2>1. Gone(f, "refused") /\ rows' = rows /\ cookies' = cookies
    BY <1>1, <1>10, RefuseKeeps
  <2> QED
    BY <1>7, <1>8, <2>1
<1>11. ASSUME NEW f \in DOMAIN flows, NEW u \in User, Sign!Return(f, u) PROVE Honest'
  <2>1. /\ rows' = rows /\ flows[f].browser \in Browser
        /\ \/ Taken(f)
           \/ /\ Gone(f, "ended")
              /\ \/ cookies' = cookies
                 \/ cookies'[flows[f].browser].guard = cookies[flows[f].browser].guard
    BY <1>1, <1>11, ReturnKeeps
  <2>2. CASE Taken(f)
    <3>1. Gone(f, "read") /\ cookies' = cookies /\ "guard" \notin flows'[f].marks
      BY <1>1, <2>1, <2>2 DEF Taken, Mark
    <3>2. Unguarded(f)'
      BY <3>1 DEF Unguarded, Gone
    <3> QED
      BY <1>7, <2>1, <3>1, <3>2
  <2>3. CASE ~Taken(f)
    <3>1. \A b \in Browser : cookies'[b].guard \subseteq cookies[b].guard
      BY <1>4, <2>1, <2>3
    <3> QED
      BY <1>7, <1>8, <2>1, <2>3, <3>1
  <2> QED
    BY <2>2, <2>3
<1>12. ASSUME NEW f \in DOMAIN flows, Sign!Trusted(f) PROVE Honest'
  <2>1. /\ flows[f].at = "read" /\ Gone(f, "write") /\ rows' = rows /\ cookies' = cookies
        /\ ("guard" \notin flows[f].marks => flows'[f].skip = FALSE)
    BY <1>1, <1>12, TrustedKeeps
  <2>2. "guard" \notin flows[f].marks
    BY <1>1, <2>1 DEF Unguarded
  <2>3. Unguarded(f)'
    BY <2>1, <2>2 DEF Unguarded, Gone
  <2> QED
    BY <1>7, <2>1, <2>3
<1>13. ASSUME NEW f \in DOMAIN flows, Sign!Compared(f) PROVE Honest'
  <2>1. Gone(f, "write") /\ rows' = rows /\ cookies' = cookies /\ flows'[f].skip = FALSE
    BY <1>1, <1>13, ComparedKeeps
  <2>2. Unguarded(f)'
    BY <2>1 DEF Unguarded, Gone
  <2> QED
    BY <1>7, <2>1, <2>2
<1>14. ASSUME NEW f \in DOMAIN flows, Sign!Redirect(f) PROVE Honest'
  <2>1. PICK n : n = Sign!New
    OBVIOUS
  <2>2. /\ DOMAIN flows' = DOMAIN flows \cup {n} /\ n \notin DOMAIN flows
        /\ flows'[f].at = "ended" /\ flows'[n].at = "twitch"
        /\ \A g \in DOMAIN flows \ {f} : flows'[g] = flows[g]
        /\ cookies'[flows[f].browser].guard = cookies[flows[f].browser].guard /\ rows' = rows
    BY <1>1, <1>14, <2>1, RedirectKeeps
  <2>3. Unguarded(n)' /\ Unguarded(f)'
    BY <2>2 DEF Unguarded
  <2>4. \A g \in DOMAIN flows \ {f} : Unguarded(g)'
    BY <1>2, <2>2
  <2> QED
    BY <1>1, <1>3, <1>4, <2>2, <2>3, <2>4 DEF Honest
<1>15. ASSUME NEW f \in DOMAIN flows, Sign!Upsert(f) PROVE Honest'
  <2>1. /\ flows[f].at = "write" /\ cookies' = cookies
        /\ \/ Gone(f, "ended") /\ rows' = rows
           \/ /\ Gone(f, IF flows[f].skip THEN "finish" ELSE "save")
              /\ flows'[f].who = flows[f].who
              /\ \A u \in User : /\ rows'[u].scopes = rows[u].scopes
                                 /\ \/ u \in flows[f].who /\ rows'[u].granted = flows[f].ask
                                    \/ u \notin flows[f].who /\ rows'[u] = rows[u]
    BY <1>1, <1>15, UpsertKeeps
  <2>2. Covers(f) /\ flows[f].skip = FALSE /\ Active(f)
    BY <1>1, <2>1 DEF Sure, Unguarded, Active
  <2>3. CASE Gone(f, "ended") /\ rows' = rows
    BY <1>7, <1>8, <2>1, <2>3
  <2>4. CASE /\ Gone(f, "save") /\ flows'[f].who = flows[f].who
             /\ \A u \in User : /\ rows'[u].scopes = rows[u].scopes
                                /\ \/ u \in flows[f].who /\ rows'[u].granted = flows[f].ask
                                   \/ u \notin flows[f].who /\ rows'[u] = rows[u]
    <3>1. ASSUME NEW g \in DOMAIN flows \ {f} PROVE Unguarded(g)'
      <4>1. flows'[g] = flows[g] /\ ~Active(g)
        BY <2>2, <2>4 DEF Gone, Recorded, TakesTurns, OneActive
      <4> QED
        BY <4>1 DEF Unguarded, Active
    <3>2. Unguarded(f)'
      BY <2>4 DEF Unguarded, Gone
    <3>3. \A u \in User : TrueOf(u)'
      BY <1>1, <2>2, <2>4 DEF TrueOf, Covers
    <3> QED
      BY <1>1, <2>1, <2>4, <3>1, <3>2, <3>3 DEF Honest, Gone
  <2> QED
    BY <2>1, <2>2, <2>3, <2>4
<1>16. ASSUME NEW f \in DOMAIN flows, Sign!SaveScopes(f) PROVE Honest'
  <2>1. /\ flows[f].at = "save" /\ cookies' = cookies
        /\ \/ Gone(f, "ended") /\ rows' = rows
           \/ /\ Gone(f, "finish")
              /\ \A u \in User : \/ /\ u \in flows[f].who /\ rows'[u].scopes = flows[f].ask
                                    /\ rows'[u].token = rows[u].token
                                    /\ rows'[u].granted = rows[u].granted
                                 \/ rows'[u] = rows[u]
    BY <1>1, <1>16, SaveKeeps
  <2>2. CASE Gone(f, "ended") /\ rows' = rows
    BY <1>7, <1>8, <2>1, <2>2
  <2>3. CASE ~(Gone(f, "ended") /\ rows' = rows)
    <3>1. ASSUME NEW g \in DOMAIN flows \ {f} PROVE Unguarded(g)'
      <4>1. flows'[g] = flows[g] /\ ~Active(g)
        BY <2>1, <2>3 DEF Gone, Recorded, TakesTurns, OneActive, Active
      <4> QED
        BY <4>1 DEF Unguarded, Active
    <3>2. Unguarded(f)'
      BY <1>8, <2>1, <2>3
    <3>3. \A u \in User : TrueOf(u)'
      BY <1>1, <2>1, <2>3 DEF TrueOf, Unguarded
    <3> QED
      BY <1>1, <2>1, <2>3, <3>1, <3>2, <3>3 DEF Honest, Gone
  <2> QED
    BY <2>2, <2>3
<1>17. ASSUME NEW f \in DOMAIN flows, Sign!Finish(f) PROVE Honest'
  <2>1. /\ Gone(f, "done") /\ rows' = rows
        /\ cookies'[flows[f].browser].guard \subseteq cookies[flows[f].browser].guard
    BY <1>1, <1>17, FinishKeeps
  <2>2. \A b \in Browser : cookies'[b].guard \subseteq cookies[b].guard
    BY <1>1, <1>4, <2>1
  <2> QED
    BY <1>7, <1>8, <2>1, <2>2
<1>18. CASE Sign!Around
  <2>1. Waned
    BY <1>1, <1>18, AroundKeeps
  <2>2. \A f \in DOMAIN flows : Unguarded(f)'
    BY <1>2, <2>1 DEF Waned
  <2>3. \A u \in User : TrueOf(u)'
    BY <1>3, <2>1 DEF Waned
  <2> QED
    BY <1>1, <2>1, <2>2, <2>3 DEF Honest, Waned, Faded
<1>19. ASSUME NEW f \in DOMAIN flows, Sign!Handle(f) PROVE Honest'
  BY <1>12, <1>13, <1>14, <1>15, <1>16, <1>17, <1>19 DEF Sign!Handle
<1>20. CASE UNCHANGED Sign!vars
  BY <1>20 DEF Sign!vars, Honest, Unguarded, TrueOf
<1>21. CASE Sign!SerialNext
  BY <1>5, <1>6, <1>9, <1>10, <1>11, <1>18, <1>19, <1>21, SerialCases
<1> QED
  BY <1>20, <1>21

(* Where reads succeed, what the record says of a token is true of it, for *)
(* any scopes and any number of flows of one user with one browser whose   *)
(* callbacks come one after the other, whatever writes, codes and cookies  *)
(* are lost (upsertUser, saveUserScopes).                                  *)
THEOREM RecordIsTrue ==
    ASSUME OneDevice, "read" \notin Losses PROVE SignSerial => []Sign!ScopesTrue
<1>1. Sign!Init => Recorded /\ Honest
  <2> SUFFICES ASSUME Sign!Init PROVE Recorded /\ Honest
    OBVIOUS
  <2>1. TakesTurns /\ DOMAIN flows = {}
    BY TurnsBegin DEF OneDevice
  <2>2. \A b \in Browser : /\ cookies[b].reauth = {} /\ cookies[b].recovery = {}
                           /\ cookies[b].guard = {}
    BY DEF Sign!Init, Sign!NoCookies
  <2>3. \A u \in User : TrueOf(u)
    BY DEF Sign!Init, TrueOf
  <2> QED
    BY <2>1, <2>2, <2>3 DEF Recorded, MarksBegun, Honest
<1>2. Recorded /\ Honest /\ [Sign!SerialNext]_(Sign!vars) => Recorded' /\ Honest'
  BY RecordKeeps, HonestKeeps
<1>3. Honest => Sign!ScopesTrue
  BY DEF Honest, TrueOf, Sign!ScopesTrue
<1> QED
  BY <1>1, <1>2, <1>3, PTL DEF SignSerial

-----------------------------------------------------------------------------
(* Callbacks that overlap, of any number of browsers of one user.          *)
OneUser == Returning \subseteq User /\ \A u, v \in User : u = v

(* What is said of a flow's scopes is known to it.                         *)
KeptCovers(f) == \A u \in User, s \in Scope : <<f, u, s>> \in kept => s \in flows[f].ask

(* A flow whose scopes will be saved without another look at the record.   *)
Vouched(f) ==
  \/ \E b \in Browser : f \in cookies[b].reauth \cup cookies[b].recovery
  \/ flows[f].at = "read" /\ ("reauth" \in flows[f].marks \/ "recovery" \in flows[f].marks)
  \/ flows[f].at = "write" /\ flows[f].skip = FALSE
  \/ flows[f].at = "save"

Overlapping ==
  /\ Signed
  /\ MarksBegun
  /\ \A f : \A u \in User, s \in Scope :
       <<f, u, s>> \in kept => f \in DOMAIN flows /\ s \in rows[u].scopes
  /\ \A f \in DOMAIN flows : Vouched(f) => KeptCovers(f)

LEMMA NotedHas ==
    ASSUME Sign!Noted, NEW f, NEW u \in User, NEW s \in Scope
    PROVE  <<f, u, s>> \in kept' <=>
             <<f, u, s>> \in kept \/ (f = Sign!New /\ s \in rows[u].scopes)
<1>1. PICK n : n = Sign!New
  OBVIOUS
<1>2. PICK N : N = {k \in {n} \X User \X Scope : k[3] \in rows[k[2]].scopes}
  OBVIOUS
<1>3. kept' = kept \cup N
  BY <1>1, <1>2 DEF Sign!Noted
<1>4. <<f, u, s>> \in N <=> f = n /\ s \in rows[u].scopes
  <2>1. <<f, u, s>> \in {n} \X User \X Scope <=> f = n
    OBVIOUS
  <2>2. <<f, u, s>>[2] = u /\ <<f, u, s>>[3] = s
    OBVIOUS
  <2>3. <<f, u, s>> \in N <=> /\ <<f, u, s>> \in {n} \X User \X Scope
                             /\ <<f, u, s>>[3] \in rows[<<f, u, s>>[2]].scopes
    BY <1>2, Zenon
  <2> QED
    BY <2>1, <2>2, <2>3
<1> QED
  BY <1>1, <1>3, <1>4

LEMMA StillKeptHas ==
    ASSUME Sign!StillKept, NEW f, NEW u \in User, NEW s \in Scope
    PROVE  <<f, u, s>> \in kept' <=> <<f, u, s>> \in kept /\ s \in rows'[u].scopes
<1>1. <<f, u, s>>[2] = u /\ <<f, u, s>>[3] = s
  OBVIOUS
<1> QED
  BY <1>1 DEF Sign!StillKept

(* A step by which no flow begins keeps what was known of the flows.       *)
Fewer == \A f : \A u \in User, s \in Scope : <<f, u, s>> \in kept' => <<f, u, s>> \in kept

LEMMA CoversStays ==
    ASSUME NEW f, KeptCovers(f), flows'[f].ask = flows[f].ask,
           \A u \in User, s \in Scope : <<f, u, s>> \in kept' => <<f, u, s>> \in kept
    PROVE  KeptCovers(f)'
BY DEF KeptCovers

(* One flow goes on, and may be saved only if it could be before, or if    *)
(* its scopes cover the record.                                            *)
LEMMA OneGoesOn ==
    ASSUME Overlapping, NEW f \in DOMAIN flows, NEW at, Gone(f, at), Signed', kept' = kept,
           \A u \in User : rows'[u].scopes = rows[u].scopes,
           \A b \in Browser : /\ cookies'[b].reauth \subseteq cookies[b].reauth
                              /\ cookies'[b].recovery \subseteq cookies[b].recovery,
           Vouched(f)' => Vouched(f) \/ KeptCovers(f)
    PROVE  Overlapping'
<1>1. MarksBegun'
  BY DEF Overlapping, MarksBegun, Gone
<1>2. ASSUME NEW g \in DOMAIN flows PROVE (Vouched(g) => KeptCovers(g))'
  <2>1. flows'[g].ask = flows[g].ask
    BY DEF Gone
  <2>2. CASE g = f
    BY <2>1, <2>2, CoversStays DEF Overlapping
  <2>3. CASE g # f
    <3>1. flows'[g] = flows[g]
      BY <2>3 DEF Gone
    <3>2. Vouched(g)' => Vouched(g)
      BY <3>1 DEF Vouched
    <3> QED
      BY <2>1, <3>2, CoversStays DEF Overlapping
  <2> QED
    BY <2>2, <2>3
<1>3. \A g : \A u \in User, s \in Scope :
        <<g, u, s>> \in kept' => g \in DOMAIN flows' /\ s \in rows'[u].scopes
  BY DEF Overlapping, Gone
<1> QED
  BY <1>1, <1>2, <1>3 DEF Overlapping, Gone

(* A flow begins: it knows what is on record, if it will be trusted.       *)
LEMMA OneBegins ==
    ASSUME Overlapping, NEW n, n = Sign!New, n \notin DOMAIN flows,
           DOMAIN flows' = DOMAIN flows \cup {n}, Signed', Sign!Noted,
           \A u \in User : rows'[u].scopes = rows[u].scopes,
           \A b \in Browser : /\ cookies'[b].reauth \subseteq cookies[b].reauth \cup {n}
                              /\ cookies'[b].recovery \subseteq cookies[b].recovery \cup {n},
           \A f \in DOMAIN flows : /\ flows'[f].ask = flows[f].ask
                                   /\ flows'[f] = flows[f] \/ flows'[f].at = "ended",
           Vouched(n)' => \A u \in User : rows[u].scopes \subseteq flows'[n].ask
    PROVE  Overlapping'
<1>1. MarksBegun'
  BY DEF Overlapping, MarksBegun
<1>2. \A f : \A u \in User, s \in Scope :
        <<f, u, s>> \in kept' <=>
          <<f, u, s>> \in kept \/ (f = n /\ s \in rows[u].scopes)
  BY NotedHas
<1>3. \A f : \A u \in User, s \in Scope :
        <<f, u, s>> \in kept' => f \in DOMAIN flows' /\ s \in rows'[u].scopes
  BY <1>2 DEF Overlapping
<1>4. ASSUME NEW f \in DOMAIN flows PROVE (Vouched(f) => KeptCovers(f))'
  <2>1. Vouched(f)' => Vouched(f)
    BY DEF Vouched
  <2>2. \A u \in User, s \in Scope : <<f, u, s>> \in kept' => <<f, u, s>> \in kept
    BY <1>2
  <2> QED
    BY <2>1, <2>2, CoversStays DEF Overlapping
<1>5. (Vouched(n) => KeptCovers(n))'
  <2>1. \A u \in User, s \in Scope : <<n, u, s>> \in kept' => s \in rows[u].scopes
    BY <1>2 DEF Overlapping
  <2> QED
    BY <2>1 DEF KeptCovers
<1> QED
  BY <1>1, <1>3, <1>4, <1>5 DEF Overlapping

(* What a step keeps, and that it loses nothing an older flow has seen.    *)
Losing ==
  \A u \in User : \A s \in rows[u].scopes \ rows'[u].scopes :
      \E f \in DOMAIN flows : /\ flows[f].at = "save" /\ flows'[f].at = "finish"
                              /\ u \in flows[f].who /\ <<f, u, s>> \notin kept

LEMMA OverlapKeeps ==
    ASSUME OneUser, Overlapping, [Sign!Next]_(Sign!vars)
    PROVE  Overlapping' /\ Losing
<1> DEFINE Goal == Overlapping' /\ Losing
<1>1. /\ Signed /\ MarksBegun
      /\ \A f \in DOMAIN flows : flows[f].browser \in Browser
  BY FlowHas DEF Overlapping
<1>2. \A u, v \in User : u = v
  BY DEF OneUser
<1>3. ASSUME \A u \in User : rows'[u].scopes = rows[u].scopes PROVE Losing
  BY <1>3 DEF Losing
<1>4. ASSUME NEW b \in Browser, Sign!StartLogin(b) PROVE Goal
  <2>1. PICK n : n = Sign!New
    OBVIOUS
  <2>2. /\ Signed' /\ Grown(n, b, "twitch") /\ rows' = rows /\ JarsStay(b)
        /\ cookies'[b].reauth = cookies[b].reauth /\ cookies'[b].recovery = cookies[b].recovery
    BY <1>1, <1>4, <2>1, StartLoginKeeps
  <2>3. Sign!Noted
    BY <1>4 DEF Sign!StartLogin
  <2>4. ~Vouched(n)'
    BY <1>1, <2>2 DEF Vouched, Grown, MarksBegun, JarsStay
  <2> QED
    BY <1>3, <2>1, <2>2, <2>3, <2>4, OneBegins DEF Grown, JarsStay
<1>5. ASSUME NEW b \in Browser, NEW s \in Scope, Sign!StartReauth(b, s) PROVE Goal
  <2>1. PICK n : n = Sign!New
    OBVIOUS
  <2>2. /\ Signed' /\ Grown(n, b, "page") /\ JarsStay(b)
        /\ cookies'[b].reauth = {n} /\ cookies'[b].recovery = cookies[b].recovery
        /\ \E u \in User : /\ flows'[n].ask = rows[u].scopes \cup {s}
                           /\ rows'[u].scopes = rows[u].scopes
                           /\ \A v \in User \ {u} : rows'[v] = rows[v]
    BY <1>1, <1>5, <2>1, StartReauthKeeps
  <2>3. Sign!Noted
    BY <1>5 DEF Sign!StartReauth
  <2>4. /\ \A u \in User : rows'[u].scopes = rows[u].scopes
        /\ \A u \in User : rows[u].scopes \subseteq flows'[n].ask
    BY <1>2, <2>2
  <2> QED
    BY <1>3, <2>1, <2>2, <2>3, <2>4, OneBegins DEF Grown, JarsStay
<1>6. ASSUME NEW f \in DOMAIN flows, Sign!StoreState(f) PROVE Goal
  <2>1. /\ Signed' /\ flows[f].at = "page" /\ Gone(f, "twitch") /\ rows' = rows
        /\ JarsStay(flows[f].browser)
        /\ cookies'[flows[f].browser].reauth = cookies[flows[f].browser].reauth
        /\ cookies'[flows[f].browser].recovery = cookies[flows[f].browser].recovery
    BY <1>1, <1>6, StoreKeeps
  <2>2. kept' = kept
    BY <1>6 DEF Sign!StoreState, Sign!records
  <2>3. \A b \in Browser : /\ cookies'[b].reauth \subseteq cookies[b].reauth
                           /\ cookies'[b].recovery \subseteq cookies[b].recovery
    BY <2>1 DEF JarsStay
  <2>4. Vouched(f)' => Vouched(f)
    BY <2>1, <2>3 DEF Vouched, Gone
  <2> QED
    BY <1>3, <2>1, <2>2, <2>3, <2>4, OneGoesOn
<1>7. ASSUME NEW f \in DOMAIN flows, Sign!Refuse(f) PROVE Goal
  <2>1. Signed' /\ Gone(f, "refused") /\ rows' = rows /\ cookies' = cookies
    BY <1>1, <1>7, RefuseKeeps
  <2>2. kept' = kept
    BY <1>7 DEF Sign!Refuse, Sign!records
  <2>3. Vouched(f)' => Vouched(f)
    BY <2>1 DEF Vouched, Gone
  <2> QED
    BY <1>3, <2>1, <2>2, <2>3, OneGoesOn
<1>8. ASSUME NEW f \in DOMAIN flows, NEW u \in User, Sign!Return(f, u) PROVE Goal
  <2>1. /\ Signed' /\ rows' = rows /\ flows[f].browser \in Browser
        /\ \/ Taken(f)
           \/ /\ Gone(f, "ended") /\ JarsStay(flows[f].browser)
              /\ \/ cookies' = cookies
                 \/ /\ cookies'[flows[f].browser].reauth = cookies[flows[f].browser].reauth
                    /\ cookies'[flows[f].browser].recovery = cookies[flows[f].browser].recovery
    BY <1>1, <1>8, ReturnKeeps
  <2>2. kept' = kept
    BY <1>8 DEF Sign!Return, Sign!records
  <2>3. \A b \in Browser : /\ cookies'[b].reauth \subseteq cookies[b].reauth
                           /\ cookies'[b].recovery \subseteq cookies[b].recovery
    BY <2>1 DEF JarsStay, Taken
  <2>4. PICK at \in {"read", "ended"} : Gone(f, at)
    BY <2>1 DEF Taken
  <2>5. Vouched(f)' => Vouched(f)
    <3>1. CASE Taken(f)
      BY <2>1, <3>1 DEF Vouched, Taken, Gone, Mark
    <3>2. CASE ~Taken(f)
      BY <2>1, <2>3, <3>2 DEF Vouched, Gone
    <3> QED
      BY <3>1, <3>2
  <2> QED
    BY <1>3, <2>1, <2>2, <2>3, <2>4, <2>5, OneGoesOn
<1>9. ASSUME NEW f \in DOMAIN flows, Sign!Trusted(f) PROVE Goal
  <2>1. /\ Signed' /\ flows[f].at = "read" /\ flows[f].marks # {} /\ Gone(f, "write")
        /\ ("guard" \in flows[f].marks => flows'[f].skip = TRUE)
        /\ rows' = rows /\ cookies' = cookies
    BY <1>1, <1>9, TrustedKeeps
  <2>2. kept' = kept
    BY <1>9 DEF Sign!Trusted, Sign!records
  <2>3. flows[f].marks \in SUBSET Mark
    BY <1>1, FlowHas
  <2>4. Vouched(f)' => Vouched(f)
    BY <2>1, <2>3 DEF Vouched, Gone, Mark
  <2> QED
    BY <1>3, <2>1, <2>2, <2>4, OneGoesOn
<1>10. ASSUME NEW f \in DOMAIN flows, Sign!Compared(f) PROVE Goal
  <2>1. /\ Signed' /\ Gone(f, "write") /\ rows' = rows /\ cookies' = cookies
        /\ \/ \E u \in User : rows[u].scopes \subseteq flows[f].ask
           \/ flows'[f].skip = TRUE
    BY <1>1, <1>10, ComparedKeeps
  <2>2. kept' = kept
    BY <1>10 DEF Sign!Compared, Sign!records
  <2>3. (\E u \in User : rows[u].scopes \subseteq flows[f].ask) => KeptCovers(f)
    BY <1>2 DEF KeptCovers, Overlapping
  <2>4. Vouched(f)' => Vouched(f) \/ KeptCovers(f)
    BY <2>1, <2>3 DEF Vouched, Gone
  <2> QED
    BY <1>3, <2>1, <2>2, <2>4, OneGoesOn
<1>11. ASSUME NEW f \in DOMAIN flows, Sign!Redirect(f) PROVE Goal
  <2>1. PICK n : n = Sign!New
    OBVIOUS
  <2>2. /\ Signed' /\ flows[f].browser \in Browser
        /\ n \notin DOMAIN flows /\ DOMAIN flows' = DOMAIN flows \cup {n}
        /\ flows'[f].at = "ended" /\ flows'[f].ask = flows[f].ask
        /\ \A g \in DOMAIN flows \ {f} : flows'[g] = flows[g]
        /\ \E u \in User : flows'[n].ask = rows[u].scopes
        /\ cookies'[flows[f].browser].recovery = {n}
        /\ cookies'[flows[f].browser].reauth = cookies[flows[f].browser].reauth
        /\ JarsStay(flows[f].browser) /\ rows' = rows
    BY <1>1, <1>11, <2>1, RedirectKeeps
  <2>3. Sign!Noted
    BY <1>11 DEF Sign!Redirect
  <2>4. \A u \in User : rows[u].scopes \subseteq flows'[n].ask
    BY <1>2, <2>2
  <2>5. \A b \in Browser : /\ cookies'[b].reauth \subseteq cookies[b].reauth \cup {n}
                           /\ cookies'[b].recovery \subseteq cookies[b].recovery \cup {n}
    BY <2>2 DEF JarsStay
  <2>6. \A g \in DOMAIN flows : /\ flows'[g].ask = flows[g].ask
                                /\ flows'[g] = flows[g] \/ flows'[g].at = "ended"
    BY <2>2
  <2> QED
    BY <1>3, <2>1, <2>2, <2>3, <2>4, <2>5, <2>6, OneBegins
<1>12. ASSUME NEW f \in DOMAIN flows, Sign!Upsert(f) PROVE Goal
  <2>1. /\ Signed' /\ flows[f].at = "write" /\ cookies' = cookies
        /\ \/ Gone(f, "ended") /\ rows' = rows
           \/ /\ Gone(f, IF flows[f].skip THEN "finish" ELSE "save")
              /\ \A u \in User : rows'[u].scopes = rows[u].scopes
    BY <1>1, <1>12, UpsertKeeps
  <2>2. kept' = kept
    BY <1>12 DEF Sign!Upsert
  <2>3. PICK x \in Flow : x = flows[f]
    BY <1>1 DEF Signed
  <2>4. PICK at : Gone(f, at) /\ (at = "save" => flows[f].skip = FALSE)
                  /\ at \in {"ended", "finish", "save"}
    BY <2>1, <2>3 DEF Flow
  <2>5. Vouched(f)' => Vouched(f)
    BY <2>1, <2>4 DEF Vouched, Gone
  <2> QED
    BY <1>3, <2>1, <2>2, <2>4, <2>5, OneGoesOn
<1>13. ASSUME NEW f \in DOMAIN flows, Sign!SaveScopes(f) PROVE Goal
  <2>1. /\ Signed' /\ flows[f].at = "save" /\ cookies' = cookies
        /\ \/ Gone(f, "ended") /\ rows' = rows
           \/ /\ Gone(f, "finish")
              /\ \A u \in User : \/ u \in flows[f].who /\ rows'[u].scopes = flows[f].ask
                                 \/ rows'[u] = rows[u]
    BY <1>1, <1>13, SaveKeeps
  <2>2. kept' = kept \/ Sign!StillKept
    BY <1>13 DEF Sign!SaveScopes
  <2>3. KeptCovers(f)
    BY <2>1 DEF Overlapping, Vouched
  <2>4. \A g : \A u \in User, s \in Scope :
          <<g, u, s>> \in kept' => <<g, u, s>> \in kept /\ s \in rows'[u].scopes
    <3>1. CASE kept' = kept /\ rows' = rows
      BY <3>1 DEF Overlapping
    <3>2. CASE Sign!StillKept
      BY <3>2, StillKeptHas
    <3> QED
      BY <1>13, <3>1, <3>2 DEF Sign!SaveScopes
  <2>5. \A g \in DOMAIN flows : flows'[g].ask = flows[g].ask /\ (Vouched(g)' => Vouched(g))
    BY <2>1 DEF Gone, Vouched
  <2>6. \A g \in DOMAIN flows : (Vouched(g) => KeptCovers(g))'
    BY <2>4, <2>5 DEF Overlapping, KeptCovers
  <2>7. DOMAIN flows' = DOMAIN flows
    BY <2>1 DEF Gone
  <2>8. MarksBegun'
    BY <1>1, <2>1, <2>7 DEF MarksBegun
  <2>9. Overlapping'
    BY <2>1, <2>4, <2>6, <2>7, <2>8 DEF Overlapping
  <2>10. Losing
    <3>1. \A u \in User : rows[u].scopes \subseteq Scope
      BY <1>1 DEF Signed, Account
    <3> QED
      BY <2>1, <2>3, <3>1 DEF Losing, KeptCovers, Gone
  <2> QED
    BY <2>9, <2>10
<1>14. ASSUME NEW f \in DOMAIN flows, Sign!Finish(f) PROVE Goal
  <2>1. /\ Signed' /\ Gone(f, "done") /\ rows' = rows /\ JarsStay(flows[f].browser)
        /\ cookies'[flows[f].browser].reauth \subseteq cookies[flows[f].browser].reauth
        /\ cookies'[flows[f].browser].recovery \subseteq cookies[flows[f].browser].recovery
    BY <1>1, <1>14, FinishKeeps
  <2>2. kept' = kept
    BY <1>14 DEF Sign!Finish, Sign!records
  <2>3. \A b \in Browser : /\ cookies'[b].reauth \subseteq cookies[b].reauth
                           /\ cookies'[b].recovery \subseteq cookies[b].recovery
    BY <2>1 DEF JarsStay
  <2>4. Vouched(f)' => Vouched(f)
    BY <2>1, <2>3 DEF Vouched, Gone
  <2> QED
    BY <1>3, <2>1, <2>2, <2>3, <2>4, OneGoesOn
<1>15. CASE Sign!Around
  <2>1. Signed' /\ Waned
    BY <1>1, <1>15, AroundKeeps
  <2>2. kept' = kept
    BY <1>15 DEF Sign!Around, Sign!Logout, Sign!SessionEnds, Sign!Expire, Sign!Clear, Sign!records
  <2>3. MarksBegun'
    BY <1>1, <2>1 DEF MarksBegun, Waned, Faded
  <2>4. \A f \in DOMAIN flows : (Vouched(f) => KeptCovers(f))'
    BY <2>1, <2>2 DEF Overlapping, Vouched, KeptCovers, Waned, Faded
  <2> QED
    BY <1>3, <2>1, <2>2, <2>3, <2>4 DEF Overlapping, Waned
<1>16. ASSUME NEW f \in DOMAIN flows, Sign!Handle(f) PROVE Goal
  BY <1>9, <1>10, <1>11, <1>12, <1>13, <1>14, <1>16 DEF Sign!Handle
<1>17. CASE UNCHANGED Sign!vars
  <2>1. /\ rows' = rows /\ cookies' = cookies /\ flows' = flows /\ kept' = kept
        /\ Signed'
    BY <1>1, <1>17 DEF Sign!vars, Sign!records, Signed
  <2> QED
    BY <1>3, <2>1 DEF Overlapping, MarksBegun, Vouched, KeptCovers
<1>18. CASE Sign!Begin
  BY <1>4, <1>5, <1>6, <1>18 DEF Sign!Begin
<1>19. CASE Sign!Arrive
  BY <1>7, <1>8, <1>19 DEF Sign!Arrive
<1> QED
  BY <1>15, <1>16, <1>17, <1>18, <1>19 DEF Sign!Next

LEMMA OverlapBegins == ASSUME OneUser, Sign!Init PROVE Overlapping
<1>1. Signed
  BY SignedInit DEF OneUser
<1>2. kept = {} /\ flows = << >>
  BY DEF Sign!Init
<1>3. DOMAIN flows = {}
  BY <1>2
<1>4. \A b \in Browser : cookies[b].reauth = {} /\ cookies[b].recovery = {}
  BY DEF Sign!Init, Sign!NoCookies
<1> QED
  BY <1>1, <1>2, <1>3, <1>4 DEF Overlapping, MarksBegun

(* However the callbacks of one user overlap, in any number of browsers,   *)
(* and whatever fails, a scope leaves the record only by the callback of a *)
(* flow that began before the scope was put there (the two statements of   *)
(* the callback of /api/auth/twitch).                                      *)
THEOREM OnlyNewerScopesLost ==
    ASSUME OneUser PROVE Sign!Spec => [][Sign!LosesOnlyNewer]_(Sign!vars)
<1>1. Sign!Init => Overlapping
  BY OverlapBegins
<1>2. Overlapping /\ [Sign!Next]_(Sign!vars) => Overlapping'
  BY OverlapKeeps
<1>3. Overlapping /\ [Sign!Next]_(Sign!vars) => [Sign!LosesOnlyNewer]_(Sign!vars)
  BY OverlapKeeps DEF Losing, Sign!LosesOnlyNewer
<1> QED
  BY <1>1, <1>2, <1>3, PTL DEF Sign!Spec

(* Where no read fails no flow is guarded, and the token is the one a flow *)
(* has stored, which knew what had been on record since it began.          *)
TokenOf(u) ==
  rows[u].token =>
      \E f \in by[u] : /\ f \in DOMAIN flows /\ KeptCovers(f)
                       /\ rows[u].granted = flows[f].ask

Watched(f) ==
  /\ flows[f].at = "read" => "guard" \notin flows[f].marks
  /\ flows[f].at = "write" => flows[f].skip = FALSE

Vouching ==
  /\ by \in [User -> SUBSET Nat]
  /\ \A b \in Browser : cookies[b].guard = {}
  /\ \A f \in DOMAIN flows : Watched(f)
  /\ \A u \in User : TokenOf(u)

LEMMA TokenStays ==
    ASSUME Signed, NEW u \in User, TokenOf(u), by' = by,
           rows'[u].token => rows'[u].token = rows[u].token /\ rows'[u].granted = rows[u].granted,
           \A f \in DOMAIN flows :
             /\ f \in DOMAIN flows' /\ flows'[f].ask = flows[f].ask
             /\ \A v \in User, s \in Scope : <<f, v, s>> \in kept' => <<f, v, s>> \in kept
    PROVE  TokenOf(u)'
<1> SUFFICES ASSUME rows'[u].token PROVE TokenOf(u)'
  BY DEF TokenOf
<1>1. PICK f \in by[u] : /\ f \in DOMAIN flows /\ KeptCovers(f)
                         /\ rows[u].granted = flows[f].ask
  BY DEF TokenOf
<1>2. KeptCovers(f)'
  BY <1>1, CoversStays
<1> QED
  BY <1>1, <1>2 DEF TokenOf

LEMMA VouchKeeps ==
    ASSUME OneUser, Overlapping, Vouching, "read" \notin Losses, [Sign!Next]_(Sign!vars)
    PROVE  Vouching'
<1>1. /\ Signed /\ \A f \in DOMAIN flows : flows[f].browser \in Browser
      /\ by \in [User -> SUBSET Nat]
      /\ \A b \in Browser : cookies[b].guard = {}
      /\ \A f \in DOMAIN flows : Watched(f)
      /\ \A u \in User : TokenOf(u)
  BY FlowHas DEF Overlapping, Vouching
<1>2. ASSUME NEW f \in DOMAIN flows, NEW at, Gone(f, at), kept' = kept, by' = by,
             \A u \in User : rows'[u].token =>
               rows'[u].token = rows[u].token /\ rows'[u].granted = rows[u].granted,
             \A b \in Browser : cookies'[b].guard \subseteq cookies[b].guard, Watched(f)'
      PROVE  Vouching'
  <2>1. \A g \in DOMAIN flows \ {f} : Watched(g)'
    BY <1>1, <1>2 DEF Gone, Watched
  <2>2. \A u \in User : TokenOf(u)'
    <3>1. \A g \in DOMAIN flows : g \in DOMAIN flows' /\ flows'[g].ask = flows[g].ask
      BY <1>2 DEF Gone
    <3> QED
      BY <1>1, <1>2, <3>1, TokenStays
  <2> QED
    BY <1>1, <1>2, <2>1, <2>2 DEF Vouching, Gone
<1>3. ASSUME NEW f \in DOMAIN flows,
             NEW at \in {"twitch", "refused", "save", "finish", "ended", "done"}, Gone(f, at)
      PROVE  Watched(f)'
  BY <1>3 DEF Watched, Gone
<1>4. ASSUME NEW n, n = Sign!New, n \notin DOMAIN flows, DOMAIN flows' = DOMAIN flows \cup {n},
             Sign!Noted, by' = by, flows'[n].at \in {"page", "twitch"},
             \A u \in User : rows'[u].token => rows'[u] = rows[u],
             \A b \in Browser : cookies'[b].guard \subseteq cookies[b].guard,
             \A f \in DOMAIN flows : /\ flows'[f].ask = flows[f].ask
                                     /\ flows'[f] = flows[f] \/ flows'[f].at = "ended"
      PROVE  Vouching'
  <2>1. \A f \in DOMAIN flows' : Watched(f)'
    BY <1>1, <1>4 DEF Watched
  <2>2. \A f \in DOMAIN flows : \A u \in User, s \in Scope :
          <<f, u, s>> \in kept' => <<f, u, s>> \in kept
    BY <1>4, NotedHas
  <2>3. \A u \in User : TokenOf(u)'
    BY <1>1, <1>4, <2>2, TokenStays
  <2> QED
    BY <1>1, <1>4, <2>1, <2>3 DEF Vouching
<1>5. ASSUME NEW b \in Browser, Sign!StartLogin(b) PROVE Vouching'
  <2>1. PICK n : n = Sign!New
    OBVIOUS
  <2>2. /\ Grown(n, b, "twitch") /\ rows' = rows /\ JarsStay(b)
        /\ cookies'[b].guard = cookies[b].guard
    BY <1>1, <1>5, <2>1, StartLoginKeeps
  <2>3. Sign!Noted /\ by' = by
    BY <1>5 DEF Sign!StartLogin
  <2> QED
    BY <1>4, <2>1, <2>2, <2>3 DEF Grown, JarsStay
<1>6. ASSUME NEW b \in Browser, NEW s \in Scope, Sign!StartReauth(b, s) PROVE Vouching'
  <2>1. PICK n : n = Sign!New
    OBVIOUS
  <2>2. /\ Grown(n, b, "page") /\ JarsStay(b) /\ cookies'[b].guard = cookies[b].guard
        /\ \E u \in User : rows'[u].token = FALSE /\ \A v \in User \ {u} : rows'[v] = rows[v]
    BY <1>1, <1>6, <2>1, StartReauthKeeps
  <2>3. Sign!Noted /\ by' = by
    BY <1>6 DEF Sign!StartReauth
  <2>4. \A u \in User : rows'[u].token => rows'[u] = rows[u]
    BY <2>2
  <2> QED
    BY <1>4, <2>1, <2>2, <2>3, <2>4 DEF Grown, JarsStay
<1>7. ASSUME NEW f \in DOMAIN flows, Sign!StoreState(f) PROVE Vouching'
  <2>1. /\ Gone(f, "twitch") /\ rows' = rows /\ JarsStay(flows[f].browser)
        /\ cookies'[flows[f].browser].guard = cookies[flows[f].browser].guard
    BY <1>1, <1>7, StoreKeeps
  <2>2. kept' = kept /\ by' = by
    BY <1>7 DEF Sign!StoreState, Sign!records
  <2>3. \A b \in Browser : cookies'[b].guard \subseteq cookies[b].guard
    BY <2>1 DEF JarsStay
  <2> QED
    BY <1>2, <1>3, <2>1, <2>2, <2>3
<1>8. ASSUME NEW f \in DOMAIN flows, Sign!Refuse(f) PROVE Vouching'
  <2>1. Gone(f, "refused") /\ rows' = rows /\ cookies' = cookies
    BY <1>1, <1>8, RefuseKeeps
  <2>2. kept' = kept /\ by' = by
    BY <1>8 DEF Sign!Refuse, Sign!records
  <2> QED
    BY <1>2, <1>3, <2>1, <2>2
<1>9. ASSUME NEW f \in DOMAIN flows, NEW u \in User, Sign!Return(f, u) PROVE Vouching'
  <2>1. /\ rows' = rows /\ flows[f].browser \in Browser
        /\ \/ Taken(f)
           \/ /\ Gone(f, "ended") /\ JarsStay(flows[f].browser)
              /\ \/ cookies' = cookies
                 \/ cookies'[flows[f].browser].guard = cookies[flows[f].browser].guard
    BY <1>1, <1>9, ReturnKeeps
  <2>2. kept' = kept /\ by' = by
    BY <1>9 DEF Sign!Return, Sign!records
  <2>3. CASE Taken(f)
    <3>1. Gone(f, "read") /\ cookies' = cookies /\ "guard" \notin flows'[f].marks
      BY <1>1, <2>1, <2>3 DEF Taken, Mark
    <3>2. Watched(f)'
      BY <3>1 DEF Watched, Gone
    <3> QED
      BY <1>2, <2>1, <2>2, <3>1, <3>2
  <2>4. CASE ~Taken(f)
    <3>1. \A b \in Browser : cookies'[b].guard \subseteq cookies[b].guard
      BY <2>1, <2>4 DEF JarsStay
    <3> QED
      BY <1>2, <1>3, <2>1, <2>2, <2>4, <3>1
  <2> QED
    BY <2>3, <2>4
<1>10. ASSUME NEW f \in DOMAIN flows, Sign!Trusted(f) PROVE Vouching'
  <2>1. /\ flows[f].at = "read" /\ Gone(f, "write") /\ rows' = rows /\ cookies' = cookies
        /\ ("guard" \notin flows[f].marks => flows'[f].skip = FALSE)
    BY <1>1, <1>10, TrustedKeeps
  <2>2. kept' = kept /\ by' = by
    BY <1>10 DEF Sign!Trusted, Sign!records
  <2>3. Watched(f)'
    BY <1>1, <2>1 DEF Watched, Gone
  <2> QED
    BY <1>2, <2>1, <2>2, <2>3
<1>11. ASSUME NEW f \in DOMAIN flows, Sign!Compared(f) PROVE Vouching'
  <2>1. Gone(f, "write") /\ rows' = rows /\ cookies' = cookies /\ flows'[f].skip = FALSE
    BY <1>1, <1>11, ComparedKeeps
  <2>2. kept' = kept /\ by' = by
    BY <1>11 DEF Sign!Compared, Sign!records
  <2>3. Watched(f)'
    BY <2>1 DEF Watched, Gone
  <2> QED
    BY <1>2, <2>1, <2>2, <2>3
<1>12. ASSUME NEW f \in DOMAIN flows, Sign!Redirect(f) PROVE Vouching'
  <2>1. PICK n : n = Sign!New
    OBVIOUS
  <2>2. /\ n \notin DOMAIN flows /\ DOMAIN flows' = DOMAIN flows \cup {n}
        /\ flows'[f].at = "ended" /\ flows'[f].ask = flows[f].ask /\ flows'[n].at = "twitch"
        /\ \A g \in DOMAIN flows \ {f} : flows'[g] = flows[g]
        /\ cookies'[flows[f].browser].guard = cookies[flows[f].browser].guard
        /\ JarsStay(flows[f].browser) /\ rows' = rows
    BY <1>1, <1>12, <2>1, RedirectKeeps
  <2>3. Sign!Noted /\ by' = by
    BY <1>12 DEF Sign!Redirect
  <2>4. \A b \in Browser : cookies'[b].guard \subseteq cookies[b].guard
    BY <2>2 DEF JarsStay
  <2>5. \A g \in DOMAIN flows : /\ flows'[g].ask = flows[g].ask
                                /\ flows'[g] = flows[g] \/ flows'[g].at = "ended"
    BY <2>2
  <2> QED
    BY <1>4, <2>1, <2>2, <2>3, <2>4, <2>5
<1>13. ASSUME NEW f \in DOMAIN flows, Sign!Upsert(f) PROVE Vouching'
  <2>1. /\ flows[f].at = "write" /\ cookies' = cookies
        /\ \/ Gone(f, "ended") /\ rows' = rows
           \/ /\ Gone(f, IF flows[f].skip THEN "finish" ELSE "save")
              /\ \A u \in User : \/ u \in flows[f].who /\ rows'[u].granted = flows[f].ask
                                 \/ u \notin flows[f].who /\ rows'[u] = rows[u]
    BY <1>1, <1>13, UpsertKeeps
  <2>2. kept' = kept /\ flows[f].skip = FALSE
    BY <1>1, <1>13, <2>1 DEF Sign!Upsert, Watched
  <2>3. KeptCovers(f) /\ f \in Nat
    BY <1>1, <2>1, <2>2 DEF Overlapping, Vouched, Signed
  <2>4. CASE rows' = rows /\ by' = by /\ Gone(f, "ended")
    BY <1>2, <1>3, <2>1, <2>2, <2>4
  <2>5. CASE /\ Gone(f, "save")
             /\ by' = [u \in User |-> IF u \in flows[f].who THEN {f} ELSE by[u]]
             /\ \A u \in User : \/ u \in flows[f].who /\ rows'[u].granted = flows[f].ask
                                \/ u \notin flows[f].who /\ rows'[u] = rows[u]
    <3>1. by' \in [User -> SUBSET Nat]
      BY <1>1, <2>3, <2>5
    <3>2. \A g \in DOMAIN flows : flows'[g].ask = flows[g].ask /\ Watched(g)'
      BY <1>1, <1>3, <2>5 DEF Gone, Watched
    <3>3. \A g \in DOMAIN flows : KeptCovers(g) => KeptCovers(g)'
      BY <2>2, <3>2 DEF KeptCovers
    <3>4. ASSUME NEW u \in User PROVE TokenOf(u)'
      <4>1. CASE u \in flows[f].who
        <5>1. by'[u] = {f} /\ rows'[u].granted = flows[f].ask
          BY <2>5, <4>1
        <5>2. f \in DOMAIN flows' /\ KeptCovers(f)' /\ flows'[f].ask = flows[f].ask
          BY <2>3, <2>5, <3>2, <3>3 DEF Gone
        <5> QED
          BY <5>1, <5>2 DEF TokenOf
      <4>2. CASE u \notin flows[f].who
        <5>1. by'[u] = by[u] /\ rows'[u] = rows[u] /\ DOMAIN flows' = DOMAIN flows
          BY <2>5, <4>2 DEF Gone
        <5> QED
          BY <1>1, <3>2, <3>3, <5>1 DEF TokenOf
      <4> QED
        BY <4>1, <4>2
    <3> QED
      BY <1>1, <2>1, <2>5, <3>1, <3>2, <3>4 DEF Vouching, Gone
  <2>6. \/ rows' = rows /\ by' = by /\ Sign!Advance(f, "ended")
        \/ /\ by' = [u \in User |-> IF u \in flows[f].who THEN {f} ELSE by[u]]
           /\ Sign!Advance(f, "save")
    BY <1>13, <2>2 DEF Sign!Upsert, Sign!AfterToken
  <2>7. \A at \in {"ended", "save"} : Sign!Advance(f, at) => Gone(f, at)
    BY <1>1, AdvanceKeeps
  <2>8. Gone(f, "ended") => ~Gone(f, "save")
    BY DEF Gone
  <2> QED
    BY <2>1, <2>2, <2>4, <2>5, <2>6, <2>7, <2>8
<1>14. ASSUME NEW f \in DOMAIN flows, Sign!SaveScopes(f) PROVE Vouching'
  <2>1. /\ cookies' = cookies
        /\ \/ Gone(f, "ended") /\ rows' = rows
           \/ /\ Gone(f, "finish")
              /\ \A u \in User : \/ /\ rows'[u].token = rows[u].token
                                    /\ rows'[u].granted = rows[u].granted
                                 \/ rows'[u] = rows[u]
    BY <1>1, <1>14, SaveKeeps
  <2>2. by' = by /\ (kept' = kept \/ Sign!StillKept)
    BY <1>14 DEF Sign!SaveScopes
  <2>3. \A g : \A u \in User, s \in Scope : <<g, u, s>> \in kept' => <<g, u, s>> \in kept
    BY <2>2, StillKeptHas
  <2>4. \A g \in DOMAIN flows : g \in DOMAIN flows' /\ flows'[g].ask = flows[g].ask /\ Watched(g)'
    BY <1>1, <1>3, <2>1 DEF Gone, Watched
  <2>5. \A u \in User : TokenOf(u)'
    BY <1>1, <2>1, <2>2, <2>3, <2>4, TokenStays
  <2>6. DOMAIN flows' = DOMAIN flows
    BY <2>1 DEF Gone
  <2> QED
    BY <1>1, <2>1, <2>2, <2>4, <2>5, <2>6 DEF Vouching
<1>15. ASSUME NEW f \in DOMAIN flows, Sign!Finish(f) PROVE Vouching'
  <2>1. /\ Gone(f, "done") /\ rows' = rows /\ JarsStay(flows[f].browser)
        /\ cookies'[flows[f].browser].guard \subseteq cookies[flows[f].browser].guard
    BY <1>1, <1>15, FinishKeeps
  <2>2. kept' = kept /\ by' = by
    BY <1>15 DEF Sign!Finish, Sign!records
  <2>3. \A b \in Browser : cookies'[b].guard \subseteq cookies[b].guard
    BY <2>1 DEF JarsStay
  <2> QED
    BY <1>2, <1>3, <2>1, <2>2, <2>3
<1>16. CASE Sign!Around
  <2>1. Waned
    BY <1>1, <1>16, AroundKeeps
  <2>2. kept' = kept /\ by' = by
    BY <1>16 DEF Sign!Around, Sign!Logout, Sign!SessionEnds, Sign!Expire, Sign!Clear, Sign!records
  <2>3. \A f \in DOMAIN flows : Watched(f)'
    BY <1>1, <2>1 DEF Watched, Waned
  <2>4. \A u \in User : TokenOf(u)'
    BY <1>1, <2>1, <2>2, TokenStays DEF Waned
  <2> QED
    BY <1>1, <2>1, <2>2, <2>3, <2>4 DEF Vouching, Waned, Faded
<1>17. ASSUME NEW f \in DOMAIN flows, Sign!Handle(f) PROVE Vouching'
  BY <1>10, <1>11, <1>12, <1>13, <1>14, <1>15, <1>17 DEF Sign!Handle
<1>18. CASE UNCHANGED Sign!vars
  BY <1>18 DEF Sign!vars, Sign!records, Vouching, Watched, TokenOf, KeptCovers
<1>19. CASE Sign!Begin
  BY <1>5, <1>6, <1>7, <1>19 DEF Sign!Begin
<1>20. CASE Sign!Arrive
  BY <1>8, <1>9, <1>20 DEF Sign!Arrive
<1> QED
  BY <1>16, <1>17, <1>18, <1>19, <1>20 DEF Sign!Next

(* Where no read fails, the token lacks no scope on record but one that    *)
(* was put there after the token's flow began, however the callbacks of    *)
(* one user overlap and whatever writes, codes and cookies are lost.       *)
THEOREM OnlyNewerScopesLacked ==
    ASSUME OneUser, "read" \notin Losses PROVE Sign!Spec => []Sign!LacksOnlyNewer
<1>1. Sign!Init => Overlapping /\ Vouching
  <2> SUFFICES ASSUME Sign!Init PROVE Overlapping /\ Vouching
    OBVIOUS
  <2>1. flows = << >> /\ by \in [User -> SUBSET Nat]
    BY DEF Sign!Init
  <2>2. \A b \in Browser : cookies[b].guard = {}
    BY DEF Sign!Init, Sign!NoCookies
  <2>3. \A u \in User : TokenOf(u)
    BY DEF Sign!Init, TokenOf
  <2>4. DOMAIN flows = {}
    BY <2>1
  <2> QED
    BY <2>1, <2>2, <2>3, <2>4, OverlapBegins DEF Vouching
<1>2. Overlapping /\ Vouching /\ [Sign!Next]_(Sign!vars) => Overlapping' /\ Vouching'
  BY OverlapKeeps, VouchKeeps
<1>3. Overlapping /\ Vouching => Sign!LacksOnlyNewer
  <2> SUFFICES ASSUME Overlapping, Vouching, NEW u \in User, rows[u].token,
                      NEW s \in rows[u].scopes \ rows[u].granted
               PROVE  \E f \in by[u] : <<f, u, s>> \notin kept
    BY DEF Sign!LacksOnlyNewer
  <2>1. s \in Scope
    BY DEF Overlapping, Signed, Account
  <2> QED
    BY <2>1 DEF Vouching, TokenOf, KeptCovers
<1> QED
  BY <1>1, <1>2, <1>3, PTL DEF Sign!Spec

==============================================================================
