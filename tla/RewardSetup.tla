---------------------------- MODULE RewardSetup -----------------------------
(***************************************************************************)
(* Which channel point rewards draw cards is kept in three places: the     *)
(* streamer's main reward and the table of additional rewards, and the     *)
(* EventSub subscriptions at Twitch, one for each reward and one for raids. *)
(* No transaction spans them.  The settings page (shown twice, a compact   *)
(* and a full one, each with a copy of its own) drives one request after   *)
(* the other, and the subscribe route makes one call to Twitch after the   *)
(* other.                                                                  *)
(***************************************************************************)
EXTENDS Integers, FiniteSets, FiniteSetsExt, TLC

CONSTANTS Reward, Page,
          Compact,                \* pages of the compact kind
          Overlap,                \* may two pages be at work at a time?
          MaxOps,                 \* bound on operations then
          MaxTrouble              \* bound on calls that fail

VARIABLES main, extra,        \* streamers, streamer_additional_gacha_rewards
          subs,               \* the subscriptions at Twitch
          page,               \* what each page shows
          req,                \* what each page is doing
          ops, trouble,       \* operations begun, calls that have failed
          smooth, last        \* the operation under way, the one that ended,
                              \* met no failure and no other page

vars == <<main, extra, subs, page, req, ops, trouble, smooth, last>>

NoReward == "none"
Raid == "raid"                \* the subscription to raids
Topic == Reward \cup {Raid}
Sub == [id : Nat, on : Topic, is : {"pending", "enabled", "failed"}]
Idle == [at |-> "idle", op |-> NoReward, r |-> NoReward, todo |-> {}, raids |-> {}]
Ended(op, r) == [op |-> op, r |-> r]

Configured == extra \cup ({main} \ {NoReward})
On(S, t) == {s \in S : s.on = t}
Redemptions(S) == {s \in S : s.on # Raid}
Alive(t) == \E s \in On(subs, t) : s.is # "failed"
Quiet == \A p \in Page : req[p].at = "idle"

TypeOK ==
    /\ main \in Reward \cup {NoReward} /\ extra \subseteq Reward
    /\ subs \subseteq Sub
    /\ \A t \in Topic : Cardinality(On(subs, t)) <= 1
    /\ page \in [Page -> [picked : Reward \cup {NoReward},
                          saved : Reward \cup {NoReward},
                          extra : SUBSET Reward, seen : SUBSET Topic,
                          status : {NoReward, "pending", "active", "error"}]]
    /\ \A p \in Page : req[p].todo \cup req[p].raids \subseteq Sub
    /\ ops \in 0..MaxOps /\ trouble \in 0..MaxTrouble /\ smooth \in BOOLEAN

\* What the badge of the page says of the reward r.
Status(S, r) ==
    CASE \E s \in On(S, r) : s.is = "enabled" -> "active"
      [] \E s \in Redemptions(S) : s.is = "failed" -> "error"
      [] Redemptions(S) # {} -> "pending"
      [] OTHER -> NoReward

\* A page as it is after it has been loaded: the compact one asks for neither
\* the subscriptions nor the additional rewards.
Shown(p, m, x, S) ==
    [picked |-> m, saved |-> m,
     extra |-> IF p \in Compact THEN {} ELSE x,
     seen |-> IF p \in Compact THEN {} ELSE {s.on : s \in S},
     status |-> IF p \in Compact THEN NoReward ELSE Status(S, m)]

\* A configuration with all its subscriptions, and freshly loaded pages.
Init ==
    /\ \/ main = NoReward /\ extra = {}
       \/ main \in Reward /\ extra \in SUBSET (Reward \ {main})
    /\ subs = {[id |-> 1, on |-> t, is |-> "enabled"] :
                 t \in IF main = NoReward THEN {} ELSE Configured \cup {Raid}}
    /\ page = [p \in Page |-> Shown(p, main, extra, subs)]
    /\ req = [p \in Page |-> Idle]
    /\ ops = 0 /\ trouble = 0 /\ smooth = TRUE /\ last = Ended(NoReward, NoReward)
-----------------------------------------------------------------------------
(* Calls that may fail.                                                    *)

Fine == UNCHANGED <<ops, trouble, smooth, last>>
Fails ==
    /\ trouble < MaxTrouble /\ trouble' = trouble + 1 /\ UNCHANGED ops
    /\ smooth' = FALSE /\ last' = Ended(NoReward, NoReward)

\* The listing is what has been read when a page of it fails: nothing.
Listed(L) == (L = subs /\ Fine) \/ (L = {} /\ Fails)

\* An id no subscription to t has, nor had as far as a request remembers.
Fresh(t) ==
    LET used == {s.id : s \in On(subs \cup UNION {req[p].todo \cup req[p].raids :
                                                    p \in Page}, t)}
    IN  Min((1..(Cardinality(used) + 1)) \ used)

Creates(t) ==
    /\ On(subs, t) = {} /\ Fine
    /\ subs' = subs \cup {[id |-> Fresh(t), on |-> t, is |-> "pending"]}
-----------------------------------------------------------------------------
(* The steps of an operation of a page.                                    *)

Goes(p, at) == req' = [req EXCEPT ![p].at = at, ![p].todo = {}]
GoesWith(p, at, todo) == req' = [req EXCEPT ![p].at = at, ![p].todo = todo]

Starts(p, op, r, at) ==
    /\ req[p].at = "idle"
    /\ IF Overlap THEN ops < MaxOps /\ ops' = ops + 1
                  ELSE Quiet /\ UNCHANGED ops
    /\ req' = [req EXCEPT ![p] = [Idle EXCEPT !.at = at, !.op = op, !.r = r]]
    /\ smooth' = Quiet /\ last' = Ended(NoReward, NoReward)
    /\ UNCHANGED <<main, extra, subs, page, trouble>>

\* The operation is over; what it was asked to do is done, or it was refused.
Ends(p, done) ==
    /\ req' = [req EXCEPT ![p] = Idle]
    /\ last' = IF smooth /\ done THEN Ended(req[p].op, req[p].r)
                                 ELSE Ended(NoReward, NoReward)
    /\ UNCHANGED <<ops, trouble, smooth>>

Pick(p) ==
    /\ req[p].at = "idle"
    /\ \E r \in Reward \ page[p].extra :
         r # page[p].picked /\ page' = [page EXCEPT ![p].picked = r]
    /\ UNCHANGED <<main, extra, subs, req, ops, trouble, smooth, last>>

Load(p) ==
    /\ req[p].at = "idle" /\ page[p] # Shown(p, main, extra, subs)
    /\ page' = [page EXCEPT ![p] = Shown(p, main, extra, subs)]
    /\ UNCHANGED <<main, extra, subs, req, ops, trouble, smooth, last>>

\* A new main reward: the subscription of the old one goes first, if the page
\* knows that there is one.
Save(p) ==
    LET v == page[p]
    IN  /\ v.picked # NoReward /\ v.picked \notin v.extra
        /\ Starts(p, "save", v.picked,
                  IF v.saved \notin {NoReward, v.picked} /\ v.saved \in v.seen
                  THEN "unlist" ELSE "settings")

Add(p) ==
    LET v == page[p]
    IN  /\ p \notin Compact /\ v.picked # NoReward /\ v.status = "active"
        /\ \E r \in Reward \ (v.extra \cup {v.picked}) :
             Starts(p, "add", r, "list")

Remove(p) ==
    LET v == page[p]
    IN  /\ p \notin Compact /\ v.picked # NoReward /\ v.status = "active"
        /\ \E r \in v.extra : Starts(p, "remove", r, "unlist")

Disconnect(p) ==
    LET v == page[p]
    IN  /\ p \notin Compact /\ (v.status \in {"active", "pending"} \/ v.seen # {})
        /\ Starts(p, "disconnect", NoReward, "unlist")
-----------------------------------------------------------------------------
(* DELETE of the subscribe route: of one reward, or of everything.  Its    *)
(* result is not looked at.                                                *)

\* What the request is about.
Target(p) ==
    CASE req[p].op = "save" -> {page[p].saved}
      [] req[p].op = "remove" -> {req[p].r}
      [] OTHER -> Topic

UnsubList(p) ==
    /\ req[p].at = "unlist"
    /\ \E L \in {subs, {}} :
         Listed(L) /\ GoesWith(p, "undrop", {s \in L : s.on \in Target(p)})
    /\ UNCHANGED <<main, extra, subs, page>>

\* One subscription is deleted, by its id.
Drops(p) ==
    \E s \in req[p].todo :
      /\ req' = [req EXCEPT ![p].todo = @ \ {s}]
      /\ \/ subs' = subs \ {t \in On(subs, s.on) : t.id = s.id} /\ Fine
         \/ UNCHANGED subs /\ Fails

Drop(p) ==
    /\ req[p].at \in {"undrop", "drop", "clean", "raid"} /\ Drops(p)
    /\ UNCHANGED <<main, extra, page>>

Unsubscribed(p) ==
    /\ req[p].at = "undrop" /\ req[p].todo = {} /\ Fine
    /\ Goes(p, CASE req[p].op = "save" -> "settings"
                 [] req[p].op = "remove" -> "row"
                 [] OTHER -> "rows")
    /\ UNCHANGED <<main, extra, subs, page>>
-----------------------------------------------------------------------------
(* POST of the subscribe route.                                            *)

SubList(p) ==
    /\ req[p].at = "list"
    /\ \E L \in {subs, {}} :
         /\ Listed(L)
         /\ req' = [req EXCEPT ![p].at = "drop", ![p].raids = On(L, Raid),
                               ![p].todo = On(L, req[p].r)]
    /\ UNCHANGED <<main, extra, subs, page>>

\* On to the subscription to raids: what is known of it are the listed raids.
ToRaid(p, raids) ==
    req' = [req EXCEPT ![p].at = "raid", ![p].raids = raids,
                       ![p].todo = {s \in raids : s.is = "failed"}]

Create(p) ==
    /\ req[p].at = "drop" /\ req[p].todo = {}
    /\ \/ Creates(req[p].r) /\ ToRaid(p, req[p].raids)
       \/ On(subs, req[p].r) # {} /\ Fine /\ Goes(p, "recheck") /\ UNCHANGED subs
       \/ Fails /\ Goes(p, "failed") /\ UNCHANGED subs
    /\ UNCHANGED <<main, extra, page>>

\* After a conflict: the subscription that is there is as good; if it is not
\* there and others are, they are deleted and the creation is tried again.
Recheck(p) ==
    /\ req[p].at = "recheck"
    /\ \E L \in {subs, {}} :
         /\ Listed(L)
         /\ \/ On(L, req[p].r) # {} /\ ToRaid(p, On(L, Raid))
            \/ /\ On(L, req[p].r) = {} /\ Redemptions(L) # {}
               /\ req' = [req EXCEPT ![p].at = "clean", ![p].raids = On(L, Raid),
                                     ![p].todo = Redemptions(L)]
            \/ Redemptions(L) = {} /\ Goes(p, "told")
    /\ UNCHANGED <<main, extra, subs, page>>

Retry(p) ==
    /\ req[p].at = "clean" /\ req[p].todo = {}
    /\ \/ Creates(req[p].r) /\ ToRaid(p, req[p].raids)
       \/ On(subs, req[p].r) # {} /\ Fine /\ Goes(p, "told") /\ UNCHANGED subs
       \/ Fails /\ Goes(p, "told") /\ UNCHANGED subs
    /\ UNCHANGED <<main, extra, page>>

\* A listed subscription to raids that has not failed is kept, otherwise one
\* is created; that this fails is only a warning.
EnsureRaid(p) ==
    /\ req[p].at = "raid" /\ req[p].todo = {} /\ Goes(p, "told")
    /\ IF \E s \in req[p].raids : s.is # "failed"
       THEN Fine /\ UNCHANGED subs
       ELSE \/ Creates(Raid)
            \/ On(subs, Raid) # {} /\ Fine /\ UNCHANGED subs
            \/ Fails /\ UNCHANGED subs
    /\ UNCHANGED <<main, extra, page>>
-----------------------------------------------------------------------------
(* The settings, the additional rewards, and the page at the end.          *)

(* Mutant: the reward the page had saved before is sent.                     *)
SettingsOld(p) ==
    /\ req[p].at = "settings"
    /\ \/ /\ main' = page[p].saved /\ Fine
          /\ Goes(p, IF req[p].op = "save" THEN "list" ELSE "cleared")
       \/ Fails /\ Goes(p, "refused") /\ UNCHANGED main
    /\ UNCHANGED <<extra, subs, page>>

\* channel_point_reward_id is set, to null by a disconnection.
Settings(p) ==
    /\ req[p].at = "settings"
    /\ \/ /\ main' = req[p].r /\ Fine
          /\ Goes(p, IF req[p].op = "save" THEN "list" ELSE "cleared")
       \/ Fails /\ Goes(p, "refused") /\ UNCHANGED main
    /\ UNCHANGED <<extra, subs, page>>

\* The route has answered with success or a warning.
Told(p) ==
    /\ req[p].at = "told" /\ Fine
    /\ IF req[p].op = "save"
       THEN /\ page' = [page EXCEPT ![p].saved = req[p].r,
                                    ![p].status = "pending"]
            /\ Goes(p, "look")
       ELSE Goes(p, "insert") /\ UNCHANGED page
    /\ UNCHANGED <<main, extra, subs>>

\* A failed registration shows; a refused request only has a message.
GivesUp(p) ==
    /\ req[p].at \in {"failed", "refused"} /\ Ends(p, FALSE)
    /\ IF req[p].at = "failed" /\ req[p].op = "save"
       THEN page' = [page EXCEPT ![p].status = "error"] ELSE UNCHANGED page
    /\ UNCHANGED <<main, extra, subs>>

Refusable(p) == main = NoReward \/ main = req[p].r \/ req[p].r \in extra

Insert(p) ==
    /\ req[p].at = "insert"
    /\ \/ /\ ~Refusable(p) /\ Fine
          /\ extra' = extra \cup {req[p].r} /\ Goes(p, "rewards")
       \/ Refusable(p) /\ Fine /\ Goes(p, "refused") /\ UNCHANGED extra
       \/ Fails /\ Goes(p, "refused") /\ UNCHANGED extra
    /\ UNCHANGED <<main, subs, page>>

\* One additional reward is deleted, or all of them.
DeleteRow(p) ==
    /\ req[p].at = "row"
    /\ \/ extra' = extra \ {req[p].r} /\ Fine /\ Goes(p, "rewards")
       \/ Fails /\ Goes(p, "refused") /\ UNCHANGED extra
    /\ UNCHANGED <<main, subs, page>>

DeleteRows(p) ==
    /\ req[p].at = "rows" /\ Goes(p, "settings")
    /\ (extra' = {} /\ Fine) \/ (Fails /\ UNCHANGED extra)
    /\ UNCHANGED <<main, subs, page>>

Cleared(p) ==
    /\ req[p].at = "cleared" /\ Ends(p, TRUE)
    /\ page' = [page EXCEPT ![p] = Shown(p, NoReward, {}, {})]
    /\ UNCHANGED <<main, extra, subs>>

FetchRewards(p) ==
    /\ req[p].at = "rewards" /\ Goes(p, "look")
    /\ \/ page' = [page EXCEPT ![p].extra = extra] /\ Fine
       \/ Fails /\ UNCHANGED page
    /\ UNCHANGED <<main, extra, subs>>

\* The subscriptions are read again; the badge is of the reward just saved, or
\* of the one that is picked.
Look(p) ==
    /\ req[p].at = "look" /\ Ends(p, TRUE)
    /\ LET of == IF req[p].op = "save" THEN req[p].r ELSE page[p].picked
       IN  page' = [page EXCEPT ![p].seen = {s.on : s \in subs},
                                ![p].status = Status(subs, of)]
    /\ UNCHANGED <<main, extra, subs>>

LookFails(p) ==
    /\ req[p].at = "look" /\ Fails /\ UNCHANGED <<main, extra, subs, page>>
    /\ req' = [req EXCEPT ![p] = Idle]
-----------------------------------------------------------------------------
(* Twitch checks a new subscription, and gives up on one.                  *)

Verify ==
    /\ \E s \in subs : s.is = "pending" /\
         subs' = (subs \ {s}) \cup {[s EXCEPT !.is = "enabled"]}
    /\ UNCHANGED <<main, extra, page, req, ops, trouble, smooth, last>>

Revoke ==
    /\ \E s \in subs : s.is # "failed" /\
         subs' = (subs \ {s}) \cup {[s EXCEPT !.is = "failed"]}
    /\ Fails /\ UNCHANGED <<main, extra, page, req>>

Next ==
    \/ Verify \/ Revoke
    \/ \E p \in Page :
         \/ Pick(p) \/ Load(p) \/ Save(p) \/ Add(p) \/ Remove(p) \/ Disconnect(p)
         \/ UnsubList(p) \/ Drop(p) \/ Unsubscribed(p)
         \/ SubList(p) \/ Create(p) \/ Recheck(p) \/ Retry(p) \/ EnsureRaid(p)
         \/ Settings(p) \/ Told(p) \/ GivesUp(p) \/ Insert(p) \/ DeleteRow(p)
         \/ DeleteRows(p) \/ Cleared(p) \/ FetchRewards(p)
         \/ Look(p) \/ LookFails(p)

Spec == Init /\ [][Next]_vars
-----------------------------------------------------------------------------
(* When nothing has failed and no page is at work, the rewards that draw   *)
(* cards are those Twitch tells us of, and the main reward is no           *)
(* additional one.                                                         *)
PlacesAgree ==
    Quiet /\ trouble = 0 =>
      /\ {s.on : s \in Redemptions(subs)} = Configured
      /\ main \notin extra
      /\ main # NoReward => Alive(Raid)

(* An operation that met no failure and no other page has done what it was *)
(* asked for, whatever earlier ones have left behind.                      *)
DoneIsDone ==
    /\ last.op \in {"save", "add"} => /\ Alive(last.r) /\ Alive(Raid)
                                      /\ last.r \in Configured
    /\ last.op = "save" => main = last.r
    /\ last.op = "remove" => last.r \notin extra /\ On(subs, last.r) = {}
    /\ last.op = "disconnect" => Configured = {} /\ subs = {}
=============================================================================
