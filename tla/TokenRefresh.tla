---------------------------- MODULE TokenRefresh ----------------------------
(***************************************************************************)
(* One stored Twitch credential (a row of users, or of twitch_bot_accounts *)
(* when IsBot) and the requests of all isolates that want its access       *)
(* token.  A request that finds it expired takes a lease on the row, spends*)
(* the refresh token at Twitch outside of any transaction, and stores the  *)
(* new pair with the lease as a fencing token; the others poll for it.     *)
(* The OAuth callback, the logout and the removal of a scope write the same*)
(* row.  Tokens are numbered in the order Twitch issues them; 0 is NULL.   *)
(***************************************************************************)
EXTENDS Naturals

CONSTANTS Request,     \* calls of getTwitchAccessToken, resolveBotAccount
          Tab,         \* browsers that complete an OAuth callback
          IsBot,       \* the row is one of twitch_bot_accounts
          Removes,     \* removeScope is called
          MaxIssued,   \* bound: tokens Twitch issues
          MaxWrites,   \* bound: logins and logouts
          MaxPolls,    \* REFRESH_WINNER_POLL_DELAYS_MS.length
          None

ASSUME BoundAssumption == /\ MaxIssued \in Nat \ {0} /\ MaxWrites \in Nat
                          /\ MaxPolls \in Nat \ {0}
ASSUME KindAssumption  == IsBot \in BOOLEAN /\ Removes \in BOOLEAN
ASSUME NoneAssumption  == None \notin Request

VARIABLES
    id, refresh, access, scopes, fresh, lease, live, status,    \* the row
    valid, issued,               \* Twitch: refresh tokens it accepts
    pc, acct, tried, denied, pair, polls, answer,          \* the requests
    tab, removal, again,         \* callbacks, removeScope, a blind retry
    epoch, since, lapsed, stored, spoiled, skipped              \* history

row     == <<id, refresh, access, scopes, fresh, lease, live, status>>
twitch  == <<valid, issued>>
reqs    == <<pc, acct, tried, denied, pair, polls, answer>>
writers == <<tab, removal, again>>
ghosts  == <<epoch, since, lapsed, stored, spoiled, skipped>>
vars    == <<row, twitch, reqs, writers, ghosts>>

Token == 0..MaxIssued
Pair  == [refresh : Token, access : Token]
Blank == [refresh |-> 0, access |-> 0]

\* A leader: it holds the lease unless that has lapsed.
Leading == {"exchange", "fallback", "mark", "renew", "save"}
Working == Leading \cup {"acquire", "follow", "recover", "release"}
Phase   == Working \cup {"idle", "done", "failed", "dead"}

TypeOK ==
    /\ id \in Nat /\ refresh \in Token /\ access \in Token /\ scopes \in Token
    /\ fresh \in BOOLEAN /\ live \in BOOLEAN
    /\ lease \in Request \cup {None}
    /\ status \in {"active", "error"}
    /\ valid \in SUBSET (1..issued) /\ issued \in Token
    /\ pc \in [Request -> Phase]
    /\ acct \in [Request -> Nat]
    /\ tried \in [Request -> Token] /\ denied \in [Request -> BOOLEAN]
    /\ pair \in [Request -> Pair]
    /\ polls \in [Request -> 0..MaxPolls]
    /\ answer \in [Request -> Token]
    /\ tab \in [Tab -> Token] /\ removal \in Token /\ again \in Pair
    /\ epoch \in 0..MaxWrites /\ since \in [Request -> 0..MaxWrites]
    /\ lapsed \in SUBSET Request /\ stored \in SUBSET Token
    /\ spoiled \in BOOLEAN /\ skipped \in BOOLEAN

\* The row as a login left it, its access token expired since.
Init ==
    /\ id = 1 /\ refresh = 1 /\ access = 1 /\ scopes = 1
    /\ fresh = FALSE /\ lease = None /\ live = FALSE /\ status = "active"
    /\ valid = {1} /\ issued = 1
    /\ pc = [r \in Request |-> "idle"] /\ acct = [r \in Request |-> 0]
    /\ tried = [r \in Request |-> 0] /\ denied = [r \in Request |-> FALSE]
    /\ pair = [r \in Request |-> Blank]
    /\ polls = [r \in Request |-> 0] /\ answer = [r \in Request |-> 0]
    /\ tab = [t \in Tab |-> 0] /\ removal = 0 /\ again = Blank
    /\ epoch = 0 /\ since = [r \in Request |-> 0] /\ lapsed = {}
    /\ stored = {1} /\ spoiled = FALSE /\ skipped = FALSE

Goto(r, p) == pc' = [pc EXCEPT ![r] = p]
-----------------------------------------------------------------------------
(* A request (readWinner sees the row of the account it started with).     *)
Same(r)   == id = acct[r]
Winner(r) == IF Same(r) /\ fresh THEN access ELSE 0

\* No usable credential: null, or terminal-unavailable for a bot.
ReadNothing(r) ==
    /\ pc[r] = "idle" /\ (access = 0 \/ (IsBot /\ status # "active"))
    /\ Goto(r, "done")
    /\ UNCHANGED <<row, twitch, acct, tried, denied, pair, polls, answer,
                   writers, ghosts>>

\* Whether it has expired is judged by the clock of the worker.
ReadRow(r) ==
    /\ pc[r] = "idle" /\ access # 0 /\ (IsBot => status = "active")
    /\ acct' = [acct EXCEPT ![r] = id]
    /\ \/ Goto(r, "done") /\ answer' = [answer EXCEPT ![r] = access]
          /\ UNCHANGED tried
       \/ Goto(r, "acquire") /\ tried' = [tried EXCEPT ![r] = refresh]
          /\ UNCHANGED answer
    /\ UNCHANGED <<row, twitch, denied, pair, polls, writers, ghosts>>

Free(r) == lease = None \/ ~live \/ lease = r

Acquirable(r) == Same(r) /\ refresh = tried[r] /\ ~fresh /\ Free(r)

\* The UPDATE commits; its answer may be lost on every retry.
Acquire(r) ==
    /\ pc[r] = "acquire" /\ Acquirable(r)
    /\ lease' = r /\ live' = TRUE
    /\ \E p \in {"exchange", "failed"} : Goto(r, p)
    /\ since' = [since EXCEPT ![r] = epoch] /\ lapsed' = lapsed \ {r}
    /\ UNCHANGED <<id, refresh, access, scopes, fresh, status, twitch, acct,
                   tried, denied, pair, polls, answer, writers, epoch, stored,
                   spoiled, skipped>>

NotAcquired(r) ==
    /\ pc[r] = "acquire" /\ ~Acquirable(r)
    /\ Goto(r, "follow")
    /\ UNCHANGED <<row, twitch, acct, tried, denied, pair, polls, answer,
                   writers, ghosts>>

\* readWinner returns null when the database fails, too.
Poll(r) ==
    /\ pc[r] = "follow"
    /\ \E w \in {Winner(r), 0} :
         IF w # 0
         THEN /\ answer' = [answer EXCEPT ![r] = w] /\ Goto(r, "done")
              /\ UNCHANGED polls
         ELSE /\ polls' = [polls EXCEPT ![r] = @ + 1]
              /\ Goto(r, IF polls[r] + 1 = MaxPolls THEN "failed" ELSE "follow")
              /\ UNCHANGED answer
    /\ UNCHANGED <<row, twitch, acct, tried, denied, pair, writers, ghosts>>

\* Twitch issues an access token; the refresh token stays or is replaced.
Issue(r, n) ==
    /\ issued < MaxIssued /\ tried[r] \in valid
    /\ issued' = issued + 1
    /\ n \in {tried[r], issued + 1}
    /\ valid' = (valid \ {tried[r]}) \cup {n}

Exchange(r) ==
    /\ pc[r] = "exchange"
    /\ \E n \in Token :
         /\ Issue(r, n)
         /\ pair' = [pair EXCEPT ![r] = [refresh |-> n, access |-> issued + 1]]
    /\ Goto(r, "renew")
    /\ UNCHANGED <<row, acct, tried, denied, polls, answer, writers, ghosts>>

\* Twitch did it and its answer is lost: sent again, or given up.
ExchangeLost(r) ==
    /\ pc[r] = "exchange"
    /\ \E n \in Token : Issue(r, n)
    /\ \E p \in {"exchange", "fallback"} : Goto(r, p)
    /\ spoiled' = TRUE
    /\ UNCHANGED <<row, acct, tried, denied, pair, polls, answer, writers,
                   epoch, since, lapsed, stored, skipped>>

\* 400 or 401 for a token Twitch refuses; or an error of another kind.
ExchangeFails(r) ==
    /\ pc[r] = "exchange"
    /\ \E d \in BOOLEAN :
         /\ d => tried[r] \notin valid
         /\ denied' = [denied EXCEPT ![r] = d]
    /\ Goto(r, "fallback")
    /\ UNCHANGED <<row, twitch, acct, tried, pair, polls, answer, writers,
                   ghosts>>

\* A bot asks for a winner before it disables the account.
Fallback(r) ==
    /\ pc[r] = "fallback"
    /\ IF IsBot
       THEN \E w \in {Winner(r), 0} :
              IF w # 0
              THEN Goto(r, "release") /\ answer' = [answer EXCEPT ![r] = w]
              ELSE /\ Goto(r, IF denied[r] THEN "mark" ELSE "recover")
                   /\ UNCHANGED answer
       ELSE Goto(r, "recover") /\ UNCHANGED answer
    /\ UNCHANGED <<row, twitch, acct, tried, denied, pair, polls, writers,
                   ghosts>>

(* Mutant: the token is compared, the lease is not.                        *)
FencedByToken(r) == Same(r) /\ refresh = tried[r]

\* Every write after the exchange carries the lease.
Fenced(r) == Same(r) /\ refresh = tried[r] /\ lease = r

MarkFailed(r) ==
    /\ pc[r] = "mark" /\ Fenced(r) /\ status = "active"
    /\ status' = "error" /\ lease' = None /\ live' = FALSE
    /\ Goto(r, "recover")
    /\ UNCHANGED <<id, refresh, access, scopes, fresh, twitch, acct, tried,
                   denied, pair, polls, answer, writers, ghosts>>

MarkNothing(r) ==      \* no row matches, or the database fails
    /\ pc[r] = "mark"
    /\ Goto(r, "recover")
    /\ UNCHANGED <<row, twitch, acct, tried, denied, pair, polls, answer,
                   writers, ghosts>>

Renew(r) ==
    /\ pc[r] = "renew" /\ Fenced(r)
    /\ live' = TRUE
    /\ Goto(r, "save")
    /\ UNCHANGED <<id, refresh, access, scopes, fresh, lease, status, twitch,
                   acct, tried, denied, pair, polls, answer, writers, ghosts>>

(* Mutant: a pair that matched no row is used.                             *)
SaveFailsAnswered(r) ==
    /\ pc[r] \in {"renew", "save"}
    /\ Goto(r, "release")
    /\ answer' = [answer EXCEPT ![r] = pair[r].access]
    /\ spoiled' = TRUE
    /\ UNCHANGED <<row, twitch, acct, tried, denied, pair, polls, writers,
                   epoch, since, lapsed, stored, skipped>>

\* No row matches (superseded), or the database fails: the pair is lost.
SaveFails(r) ==
    /\ pc[r] \in {"renew", "save"}
    /\ Goto(r, "recover")
    /\ spoiled' = TRUE
    /\ UNCHANGED <<row, twitch, acct, tried, denied, pair, polls, answer,
                   writers, epoch, since, lapsed, stored, skipped>>

(* Mutant: the replacement of the refresh token is ignored.                *)
SaveOldRefresh(r) ==
    /\ pc[r] = "save" /\ Fenced(r)
    /\ access' = pair[r].access /\ scopes' = pair[r].access
    /\ fresh' = TRUE /\ lease' = None /\ live' = FALSE /\ status' = "active"
    /\ stored' = stored \cup {pair[r].access}
    /\ Goto(r, "release") /\ answer' = [answer EXCEPT ![r] = pair[r].access]
    /\ UNCHANGED <<id, refresh, twitch, acct, tried, denied, pair, polls,
                   writers, epoch, since, lapsed, spoiled, skipped>>

\* A lost answer makes the retry match no row: the winner is then its own.
Save(r) ==
    /\ pc[r] = "save" /\ Fenced(r)
    /\ refresh' = pair[r].refresh /\ access' = pair[r].access
    /\ scopes' = pair[r].access
    /\ fresh' = TRUE /\ lease' = None /\ live' = FALSE /\ status' = "active"
    /\ stored' = stored \cup {pair[r].access}
    /\ \/ /\ Goto(r, "release")
          /\ answer' = [answer EXCEPT ![r] = pair[r].access]
       \/ Goto(r, "recover") /\ UNCHANGED answer
    /\ UNCHANGED <<id, twitch, acct, tried, denied, pair, polls, writers, epoch,
                   since, lapsed, spoiled, skipped>>

Recover(r) ==
    /\ pc[r] = "recover"
    /\ \E w \in {Winner(r), 0} : answer' = [answer EXCEPT ![r] = w]
    /\ Goto(r, "release")
    /\ UNCHANGED <<row, twitch, acct, tried, denied, pair, polls, writers,
                   ghosts>>

\* Best effort: it may fail, and releases nothing of another owner.
Release(r) ==
    /\ pc[r] = "release"
    /\ \/ /\ Same(r) /\ lease = r /\ lease' = None /\ live' = FALSE
       \/ UNCHANGED <<lease, live>>
    /\ Goto(r, IF answer[r] = 0 THEN "failed" ELSE "done")
    /\ UNCHANGED <<id, refresh, access, scopes, fresh, status, twitch, acct,
                   tried, denied, pair, polls, answer, writers, ghosts>>

\* The isolate is gone.
Die(r) ==
    /\ pc[r] \in Working
    /\ Goto(r, "dead")
    /\ spoiled' = (spoiled \/ pc[r] \in {"renew", "save"})
    /\ UNCHANGED <<row, twitch, acct, tried, denied, pair, polls, answer,
                   writers, epoch, since, lapsed, stored, skipped>>
-----------------------------------------------------------------------------
(* The other writers of the row.                                           *)
Credential(p) ==
    /\ refresh' = p.refresh /\ access' = p.access
    /\ fresh' = TRUE /\ lease' = None /\ live' = FALSE /\ status' = "active"
    /\ epoch' = epoch + 1 /\ lapsed' = lapsed \cup ({lease} \ {None})
    /\ stored' = stored \cup {p.access}

\* upsertAuthUserPg, or persistLinkedAccountPg which inserts a bot anew.
Login(t) ==
    /\ tab[t] = 0 /\ issued < MaxIssued /\ epoch < MaxWrites
    /\ \E n \in (valid \cap {refresh}) \cup {issued + 1} :
         LET p == [refresh |-> n, access |-> issued + 1] IN
         /\ Credential(p)
         /\ valid' = valid \cup {n}
         /\ again' \in {again, p}
         /\ spoiled' = (spoiled \/ (n = refresh /\ lease # None))
    /\ issued' = issued + 1
    /\ id' = IF IsBot /\ access = 0 THEN id + 1 ELSE id
    /\ IF IsBot THEN scopes' = issued + 1 /\ UNCHANGED tab
       ELSE tab' = [tab EXCEPT ![t] = issued + 1] /\ UNCHANGED scopes
    /\ UNCHANGED <<reqs, removal, since, skipped>>

\* withDbRetry repeats a statement that had committed.
RepeatLogin ==
    /\ again # Blank /\ epoch < MaxWrites /\ (IsBot => access # 0)
    /\ Credential(again) /\ again' = Blank
    /\ scopes' = IF IsBot THEN again.access ELSE scopes
    /\ spoiled' = TRUE /\ skipped' = TRUE
    /\ UNCHANGED <<id, twitch, reqs, tab, removal, since>>

\* saveTwitchScopes, the second statement of the callback.
SaveScopes(t) ==
    /\ tab[t] # 0
    /\ scopes' = tab[t] /\ tab' = [tab EXCEPT ![t] = 0]
    /\ UNCHANGED <<id, refresh, access, fresh, lease, live, status, twitch,
                   reqs, removal, again, ghosts>>

\* A guard of the callback leaves the scopes alone, or it fails here.
SkipScopes(t) ==
    /\ tab[t] # 0
    /\ tab' = [tab EXCEPT ![t] = 0] /\ skipped' = TRUE
    /\ UNCHANGED <<row, twitch, reqs, removal, again, epoch, since, lapsed,
                   stored, spoiled>>

FetchScopes ==
    /\ Removes /\ removal = 0 /\ access # 0
    /\ removal' = scopes
    /\ UNCHANGED <<row, twitch, reqs, tab, again, ghosts>>

\* The array read before, without one scope: still of the token it was of.
RemoveScope ==
    /\ removal # 0
    /\ scopes' = removal /\ removal' = 0
    /\ UNCHANGED <<id, refresh, access, fresh, lease, live, status, twitch,
                   reqs, tab, again, ghosts>>

\* deleteTwitchTokens, or the DELETE of disconnectBotAccount.
Logout ==
    /\ access # 0 /\ epoch < MaxWrites
    /\ refresh' = 0 /\ access' = 0 /\ fresh' = FALSE
    /\ lease' = None /\ live' = FALSE
    /\ epoch' = epoch + 1 /\ lapsed' = lapsed \cup ({lease} \ {None})
    /\ UNCHANGED <<id, scopes, status, twitch, reqs, writers, since, stored,
                   spoiled, skipped>>
-----------------------------------------------------------------------------
(* Time and Twitch.  A token lives for hours, a callback for seconds.      *)
Expire ==
    /\ fresh /\ \A t \in Tab : tab[t] = 0
    /\ fresh' = FALSE
    /\ UNCHANGED <<id, refresh, access, scopes, lease, live, status, twitch,
                   reqs, writers, ghosts>>

LeaseEnds ==
    /\ live
    /\ live' = FALSE /\ lapsed' = lapsed \cup ({lease} \ {None})
    /\ spoiled' = TRUE
    /\ UNCHANGED <<id, refresh, access, scopes, fresh, lease, status, twitch,
                   reqs, writers, epoch, since, stored, skipped>>

\* The user disconnects the application at Twitch.
Revoke ==
    /\ valid # {}
    /\ valid' = {} /\ spoiled' = TRUE
    /\ UNCHANGED <<row, issued, reqs, writers, epoch, since, lapsed, stored,
                   skipped>>
-----------------------------------------------------------------------------
Step(r) ==
    \/ ReadNothing(r) \/ ReadRow(r) \/ Acquire(r) \/ NotAcquired(r) \/ Poll(r)
    \/ Exchange(r) \/ ExchangeLost(r) \/ ExchangeFails(r) \/ Fallback(r)
    \/ MarkFailed(r) \/ MarkNothing(r) \/ Renew(r) \/ SaveFails(r) \/ Save(r)
    \/ Recover(r) \/ Release(r)

Next ==
    \/ \E r \in Request : Step(r) \/ Die(r)
    \/ \E t \in Tab : Login(t) \/ SaveScopes(t) \/ SkipScopes(t)
    \/ RepeatLogin \/ FetchScopes \/ RemoveScope \/ Logout
    \/ Expire \/ LeaseEnds \/ Revoke

Spec == Init /\ [][Next]_vars

-----------------------------------------------------------------------------
(* runWithRefreshLease: two requests spend the refresh token at once only  *)
(* when the lease of one of them ran out or was cancelled by a login or    *)
(* logout: a leader whose lease has not lapsed is the owner in the row.    *)
LeaderOwnsLease ==
    \A r \in Request : pc[r] \in Leading /\ r \notin lapsed => lease = r

(* The fencing of refreshAndPersist: the credential is changed only by a   *)
(* login, a logout, or a refresh whose leader took its lease after the last*)
(* of them; a slow leader never overwrites a newer login, nor undoes a     *)
(* logout, not even one that stored the same refresh token again.          *)
RefreshKeepsLogin ==
    [][<<refresh', access'>> # <<refresh, access>> /\ epoch' = epoch
         => \E r \in Request : pc[r] = "save" /\ since[r] = epoch]_vars

(* markBotRefreshLeaseFailed: a bot account is disabled only while the     *)
(* refresh token stored in it is one Twitch refuses, however late the      *)
(* refusal arrives.                                                        *)
DisabledIsDead == status = "error" => refresh \notin valid

(* A request answers with an access token that was stored: the new pair is *)
(* never used by a leader that could not save it.                          *)
AnswersStored == \A r \in Request : answer[r] # 0 => answer[r] \in stored

(* The three together: what a refresh under the lease promises, to users   *)
(* and to the bot.                                                         *)
LeaseHolds == LeaderOwnsLease /\ DisabledIsDead /\ AnswersStored

(* The refresh token stored is the one Twitch accepts, or its replacement  *)
(* is on the way by the owner of the lease, as long as no answer, save,    *)
(* isolate or lease is lost, no login stores the token being spent, and the*)
(* user does not disconnect.                                               *)
NoSilentLoss ==
    ~spoiled /\ refresh # 0 =>
        \/ refresh \in valid
        \/ \E r \in Request : /\ pc[r] \in {"renew", "save"} /\ lease = r
                              /\ pair[r].refresh \in valid

=============================================================================
