------------------------------- MODULE Login -------------------------------
(***************************************************************************)
(* Signing in with Twitch.  A login, a step-up authorization ("reauth")    *)
(* for one more scope, and the second round trip the callback starts when  *)
(* the new token lacks scopes the user had ("recovery") are all OAuth      *)
(* flows.  They meet in the cookies of a browser - whose state the         *)
(* callback accepts, and what it knows of that flow - and in the user's    *)
(* row, where the callback writes the token and, in a second statement,    *)
(* its scopes.                                                             *)
(*                                                                         *)
(* Only the additional scopes are modelled.  Left out: terms of service,   *)
(* the page to return to, rate limits, the channel points flag, the        *)
(* signature of the session.  The other writers of the row are those of    *)
(* TokenRefresh.                                                           *)
(***************************************************************************)
EXTENDS Naturals, Sequences, FiniteSets

CONSTANTS
  Browser,   \* browsers (devices)
  User,      \* Twitch users
  Scope,     \* additional scopes
  Returning, \* users who may begin with a session
  MaxFlows,  \* bound on the flows that are begun
  Kinds,     \* what is begun: a subset of {"login", "reauth"}
  Faults     \* what fails: a subset of {"read", "write", "twitch", "cookies"}

VARIABLES
  rows,      \* the users table: token held, its scopes, twitch_scopes
  cookies,   \* what each browser holds; a set of at most one value each
  flows,     \* the flows begun so far; the state of one is its number
  last,      \* history: the flow each browser began last, unless cookies went
  wanted,    \* history: the scopes each user asked for or had from the start
  kept,      \* history: <<f, u, s>>, scope s has been on the record of user u
             \* ever since flow f began
  by         \* history: the flow each user's token came from, once there is one

records == <<kept, by>>
vars == <<rows, cookies, flows, last, wanted, records>>

StateCookies == {"auth", "guard", "reauth", "recovery"}
NoCookies == [auth |-> {}, hidden |-> FALSE, guard |-> {}, reauth |-> {},
              recovery |-> {}, session |-> {}, uid |-> {}]

Init ==
  /\ rows \in [User -> [token : {FALSE}, granted : {{}}, scopes : SUBSET Scope]]
  /\ cookies \in [Browser -> {[NoCookies EXCEPT !.session = s] :
                       s \in {{}} \cup {{u} : u \in Returning}}]
  /\ flows = <<>>
  /\ last = [b \in Browser |-> {}]
  /\ wanted = [u \in User |-> rows[u].scopes]
  /\ kept = {}
  /\ by = [u \in User |-> {}]

-----------------------------------------------------------------------------
\* The state of the next flow: a fresh one.
New == Len(flows) + 1
Running(f) == flows[f].at \in {"read", "write", "save", "finish"}
Busy == \E f \in DOMAIN flows : Running(f)
Home(f) == flows[f].browser

Begun(b, ask, at, hops) ==
  [browser |-> b, ask |-> ask, at |-> at, hops |-> hops,
   who |-> {}, marks |-> {}, skip |-> FALSE]

\* A server sets the state cookie: a page's script cannot replace it then.
WithState(jar, f) == [jar EXCEPT !.auth = {f}, !.hidden = TRUE]

Advance(f, at) == flows' = [flows EXCEPT ![f].at = at]

\* The history of a flow that begins, and that of a change of the records.
Noted == kept' = kept \cup {k \in {New} \X User \X Scope : k[3] \in rows[k[2]].scopes}
StillKept == kept' = {k \in kept : k[3] \in rows'[k[2]].scopes}

\* Two flows are kept free, so that a recovery never lacks one.
MayBegin(kind) == kind \in Kinds /\ Len(flows) + 2 <= MaxFlows

(* GET login: the scopes of the user the browser is known by are asked     *)
(* for again; when they cannot be read the flow is marked as guarded.      *)
KnownAs(b) ==
  IF cookies[b].session # {} THEN cookies[b].session ELSE cookies[b].uid

StartLogin(b) ==
  /\ MayBegin("login")
  /\ \/ LET ask == UNION {rows[u].scopes : u \in KnownAs(b)}
        IN /\ flows' = Append(flows, Begun(b, ask, "twitch", 0))
           /\ cookies' = [cookies EXCEPT ![b] = WithState(@, New)]
     \/ /\ "read" \in Faults /\ KnownAs(b) # {}
        /\ flows' = Append(flows, Begun(b, {}, "twitch", 0))
        /\ cookies' = [cookies EXCEPT ![b] = [WithState(@, New) EXCEPT !.guard = {New}]]
  /\ last' = [last EXCEPT ![b] = {New}]
  /\ Noted
  /\ UNCHANGED <<rows, wanted, by>>

(* POST reauth: the scopes on record and the new one are asked for, the    *)
(* token is deleted, and the flow is marked as one of reauth.              *)
ReauthAsk(u, s) == rows[u].scopes \cup {s}

StartReauth(b, s) ==
  /\ MayBegin("reauth")
  /\ \E u \in cookies[b].session :
       /\ flows' = Append(flows, Begun(b, ReauthAsk(u, s), "page", 0))
       /\ rows' = [rows EXCEPT ![u].token = FALSE, ![u].granted = {}]
       /\ wanted' = [wanted EXCEPT ![u] = @ \cup {s}]
  /\ cookies' = [cookies EXCEPT ![b].reauth = {New}]
  /\ last' = [last EXCEPT ![b] = {New}]
  /\ Noted /\ UNCHANGED by

\* The page stores the state itself, then leaves for Twitch.
StoreState(f) ==
  /\ flows[f].at = "page"
  /\ cookies' = [cookies EXCEPT ![Home(f)].auth = IF cookies[Home(f)].hidden THEN @ ELSE {f}]
  /\ Advance(f, "twitch")
  /\ UNCHANGED <<rows, last, wanted, records>>

(* The callback's request: Twitch user u consented to flow f.  The marks   *)
(* are those of this request's cookies.                                    *)
Accepted(f) == f \in cookies[Home(f)].auth

Refuse(f) ==
  /\ flows[f].at = "twitch"
  /\ ~Accepted(f)
  /\ Advance(f, "refused")
  /\ UNCHANGED <<rows, cookies, last, wanted, records>>

Marks(f) == {m \in {"guard", "reauth", "recovery"} : f \in cookies[Home(f)][m]}

Return(f, u) ==
  /\ flows[f].at = "twitch"
  /\ Accepted(f)
  /\ \/ /\ flows' = [flows EXCEPT ![f].at = "read", ![f].who = {u}, ![f].marks = Marks(f)]
        /\ UNCHANGED cookies
     \/ /\ "twitch" \in Faults             \* the code cannot be exchanged
        /\ Advance(f, "ended")
        /\ cookies' = [cookies EXCEPT ![Home(f)].auth = {}, ![Home(f)].hidden = FALSE]
     \/ /\ "twitch" \in Faults             \* the user cannot be fetched
        /\ Advance(f, "ended")
        /\ UNCHANGED cookies
  /\ UNCHANGED <<rows, last, wanted, records>>

(* Before anything is written: does the token lack scopes on record?       *)
Proceed(f, skip) == flows' = [flows EXCEPT ![f].at = "write", ![f].skip = skip]

Trusted(f) ==
  /\ flows[f].at = "read"
  /\ flows[f].marks # {}
  /\ Proceed(f, "guard" \in flows[f].marks)
  /\ UNCHANGED <<rows, cookies, last, wanted, records>>

(* Mutant: the scopes on record are not looked at.                         *)
LacksNothing(f, u) == {}

Lacks(f, u) == rows[u].scopes \ flows[f].ask

Compared(f) ==
  /\ flows[f].at = "read"
  /\ flows[f].marks = {}
  /\ \/ \E u \in flows[f].who : Lacks(f, u) = {} /\ Proceed(f, FALSE)
     \/ "read" \in Faults /\ Proceed(f, TRUE)
  /\ UNCHANGED <<rows, cookies, last, wanted, records>>

AskAgain(f, u) == rows[u].scopes

Redirect(f) ==
  /\ flows[f].at = "read"
  /\ flows[f].marks = {}
  /\ New <= MaxFlows
  /\ \E u \in flows[f].who :
       /\ Lacks(f, u) # {}
       /\ flows' = Append([flows EXCEPT ![f].at = "ended"],
                          Begun(Home(f), AskAgain(f, u), "twitch", flows[f].hops + 1))
  /\ cookies' = [cookies EXCEPT ![Home(f)] = [WithState(@, New) EXCEPT !.recovery = {New}]]
  /\ last' = [last EXCEPT ![Home(f)] = {New}]
  /\ Noted
  /\ UNCHANGED <<rows, wanted, by>>

AfterToken(f) == IF flows[f].skip THEN "finish" ELSE "save"

Upsert(f) ==
  /\ flows[f].at = "write"
  /\ \/ /\ rows' = [u \in User |->
             IF u \in flows[f].who
             THEN [rows[u] EXCEPT !.token = TRUE, !.granted = flows[f].ask]
             ELSE rows[u]]
        /\ by' = [u \in User |-> IF u \in flows[f].who THEN {f} ELSE by[u]]
        /\ Advance(f, AfterToken(f))
     \/ "write" \in Faults /\ Advance(f, "ended") /\ UNCHANGED <<rows, by>>
  /\ UNCHANGED <<cookies, last, wanted, kept>>

SaveScopes(f) ==
  /\ flows[f].at = "save"
  /\ \/ /\ rows' = [u \in User |->
             IF u \in flows[f].who THEN [rows[u] EXCEPT !.scopes = flows[f].ask] ELSE rows[u]]
        /\ StillKept
        /\ Advance(f, "finish")
     \/ "write" \in Faults /\ Advance(f, "ended") /\ UNCHANGED <<rows, kept>>
  /\ UNCHANGED <<cookies, last, wanted, by>>

(* The answer: the session is set, the state goes whatever it is by now,   *)
(* the marks go when this request carried them.                            *)
LeftOf(jar, marks, m) == IF m \in marks THEN {} ELSE jar[m]

Finished(jar, f) ==
  [auth |-> {}, hidden |-> FALSE, session |-> flows[f].who, uid |-> {},
   guard |-> LeftOf(jar, flows[f].marks, "guard"),
   reauth |-> LeftOf(jar, flows[f].marks, "reauth"),
   recovery |-> LeftOf(jar, flows[f].marks, "recovery")]

Finish(f) ==
  /\ flows[f].at = "finish"
  /\ cookies' = [cookies EXCEPT ![Home(f)] = Finished(@, f)]
  /\ Advance(f, "done")
  /\ UNCHANGED <<rows, last, wanted, records>>

-----------------------------------------------------------------------------
\* The user's name is kept for the next login, and the token is deleted.
Parted(jar) == [jar EXCEPT !.session = {}, !.uid = jar.session]

Logout(b) ==
  /\ \E u \in cookies[b].session :
       \/ rows' = [rows EXCEPT ![u].token = FALSE, ![u].granted = {}]
       \/ "write" \in Faults /\ UNCHANGED rows
  /\ cookies' = [cookies EXCEPT ![b] = Parted(@)]
  /\ UNCHANGED <<flows, last, wanted, records>>

\* After seven days the cookie is no session any more, but still a name.
SessionEnds(b) ==
  /\ cookies[b].session # {}
  /\ cookies' = [cookies EXCEPT ![b] = Parted(@)]
  /\ UNCHANGED <<rows, flows, last, wanted, records>>

(* The states expire after ten minutes, each from its own setting; the     *)
(* user may also clear everything.                                         *)
Expire(b, c) ==
  /\ "cookies" \in Faults
  /\ cookies[b][c] # {}
  /\ cookies' = [cookies EXCEPT ![b][c] = {},
                                ![b].hidden = IF c = "auth" THEN FALSE ELSE @]
  /\ last' = [last EXCEPT ![b] = {}]
  /\ UNCHANGED <<rows, flows, wanted, records>>

Clear(b) ==
  /\ "cookies" \in Faults
  /\ cookies[b] # NoCookies
  /\ cookies' = [cookies EXCEPT ![b] = NoCookies]
  /\ last' = [last EXCEPT ![b] = {}]
  /\ UNCHANGED <<rows, flows, wanted, records>>

-----------------------------------------------------------------------------
Begin ==
  \/ \E b \in Browser : StartLogin(b) \/ \E s \in Scope : StartReauth(b, s)
  \/ \E f \in DOMAIN flows : StoreState(f)

Arrive == \E f \in DOMAIN flows : Refuse(f) \/ \E u \in User : Return(f, u)

Handle(f) ==
  \/ Trusted(f) \/ Compared(f) \/ Redirect(f)
  \/ Upsert(f) \/ SaveScopes(f) \/ Finish(f)

Around ==
  \/ \E b \in Browser : Logout(b) \/ SessionEnds(b) \/ Clear(b)
  \/ \E b \in Browser, c \in StateCookies : Expire(b, c)

Next == Begin \/ Arrive \/ (\E f \in DOMAIN flows : Handle(f)) \/ Around

Spec == Init /\ [][Next]_vars

(* No flow begins and no callback arrives while another is being handled,  *)
(* or while a page is about to leave for Twitch.                           *)
Settled == ~Busy /\ \A f \in DOMAIN flows : flows[f].at # "page"

SerialNext ==
  \/ Settled /\ (Begin \/ Arrive)
  \/ \E f \in DOMAIN flows : StoreState(f) \/ Handle(f)
  \/ Around

-----------------------------------------------------------------------------
\* Every value has its type; a browser holds at most one of each cookie.
TypeOK ==
  /\ rows \in [User -> [token : BOOLEAN, granted : SUBSET Scope, scopes : SUBSET Scope]]
  /\ Len(flows) <= MaxFlows
  /\ \A f \in DOMAIN flows :
       flows[f] \in [browser : Browser, ask : SUBSET Scope, hops : 0..2,
                     at : {"page", "twitch", "refused", "read", "write", "save",
                           "finish", "done", "ended"},
                     who : SUBSET User, skip : BOOLEAN,
                     marks : SUBSET {"guard", "reauth", "recovery"}]
  /\ \A b \in Browser :
       /\ \A c \in StateCookies : cookies[b][c] \subseteq DOMAIN flows
       /\ cookies[b].session \subseteq User /\ cookies[b].uid \subseteq User
       /\ \A c \in StateCookies \cup {"session", "uid"} : Cardinality(cookies[b][c]) <= 1
       /\ cookies[b].hidden => cookies[b].auth # {}
  /\ kept \subseteq (DOMAIN flows) \X User \X Scope
  /\ by \in [User -> SUBSET DOMAIN flows]

(* However callbacks, browsers and failures interleave, a scope leaves the *)
(* record of a user only by the callback of a flow that began before the   *)
(* scope was put there: that flow could not have asked for it.  There is   *)
(* one user: a flow another one consents to is trusted with either record. *)
LosesOnlyNewer ==
  \A u \in User : \A s \in rows[u].scopes \ rows'[u].scopes :
      \E f \in DOMAIN flows : /\ flows[f].at = "save" /\ flows'[f].at = "finish"
                             /\ u \in flows[f].who /\ <<f, u, s>> \notin kept

(* What the record says of a token is true of it, but for scopes that were *)
(* put there after the token's flow began: where no read fails, no call is *)
(* made with another scope the token lacks.                                *)
LacksOnlyNewer ==
  \A u \in User :
      rows[u].token => \A s \in rows[u].scopes \ rows[u].granted :
                         \E f \in by[u] : <<f, u, s>> \notin kept

(* The same of callbacks that come one after the other, of one user with   *)
(* one browser: what was once granted stays on record, whichever cookies,  *)
(* reads, codes and answers are lost; and where no read fails, the token   *)
(* has every scope on record.                                              *)
KeepsScopes == \A u \in User : rows[u].scopes \subseteq rows'[u].scopes
ScopesTrue == \A u \in User : rows[u].token => rows[u].scopes \subseteq rows[u].granted

(* The flow a browser began last is not refused for its state, unless the  *)
(* browser lost its cookies.                                               *)
AcceptsLatest ==
  \A f \in DOMAIN flows :
      flows[f].at = "twitch" /\ flows'[f].at = "refused" => f \notin last[Home(f)]

(* A recovery never calls for another one: the browser is not sent back    *)
(* and forth.                                                              *)
RecoveredOnce == \A f \in DOMAIN flows : flows[f].hops <= 1

=============================================================================
