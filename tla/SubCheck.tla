------------------------------ MODULE SubCheck ------------------------------
(***************************************************************************)
(* The cached Twitch subscription of one user, which decides a plan.       *)
(* Every page that needs the plan may check it again in the background,    *)
(* the user may check it by hand or turn it off, and all of them write     *)
(* the same two columns after a call to Twitch that takes its time.        *)
(***************************************************************************)
EXTENDS Naturals

CONSTANTS
  Page,        \* requests that need the plan
  Tab,         \* open settings pages of the user
  MaxChanges,  \* bound on subscriptions begun or ended at Twitch
  MaxOff,      \* bound on uses of the switch
  Faults       \* what fails: of {"twitch", "auth", "read", "write"}

VARIABLES
  row,      \* [has, stamp, scope]: twitch_has_sub, twitch_sub_verified_at, scope
  page,     \* what each page request waits for, then what it is told:
            \* [at, answer, seen, had]
  tab,      \* what each tab waits for: [at, answer]
  sub,      \* the truth at Twitch
  used,     \* [changes, off]: what the bounds count
  wish,     \* history: "off" from the switch on until the user checks again
  past      \* history: [known, refused], whether the last answer on record
            \* was a yes, and whether Twitch refused the user's own check

vars == <<row, page, tab, sub, used, wish, past>>

(* The stamps: never checked, over an hour old, checked, an error of the   *)
(* last minutes, and the far future the switch writes.                     *)
Stamp == {"none", "old", "fresh", "error", "off"}
Answer == {"yes", "no", "unknown", "unauthorized"}
Idle == [at |-> "idle", answer |-> "unknown"]
Untold == [at |-> "idle", answer |-> "unknown", seen |-> FALSE, had |-> FALSE]

Init ==
  /\ row = [has |-> FALSE, stamp |-> "none", scope |-> TRUE]
  /\ page = [p \in Page |-> Untold]
  /\ tab = [t \in Tab |-> Idle]
  /\ sub \in BOOLEAN
  /\ used = [changes |-> 0, off |-> 0]
  /\ wish = "any"
  /\ past = [known |-> FALSE, refused |-> FALSE]

(* What a call to Twitch answers now.                                      *)
Answers ==
  {IF sub THEN "yes" ELSE "no"}
    \cup {a \in {"unknown"} : "twitch" \in Faults}
    \cup {a \in {"unauthorized"} : "auth" \in Faults}

Decided(a) == a \in {"yes", "no"}

-----------------------------------------------------------------------------
(* Mutant: the far future of the switch is taken for an old stamp.         *)
HoldsWhileFresh(stamp) == stamp \in {"fresh", "error"}

(* A page asks for the plan.  It needs no call without the scope, which    *)
(* costs the plan, or with a stamp that holds; nor does it get the plan    *)
(* when the row cannot be read.                                            *)
Holds(stamp) == stamp \in {"fresh", "error", "off"}
Told(has) == IF has THEN "yes" ELSE "no"

Read(p) ==
  /\ page[p].at \in {"idle", "told"}
  /\ page' = [page EXCEPT ![p] =
       [at |-> IF row.scope /\ ~Holds(row.stamp) THEN "asking" ELSE "told",
        answer |-> IF row.scope /\ ~Holds(row.stamp) THEN "unknown"
                   ELSE Told(row.scope /\ row.has),
        seen |-> row.has, had |-> past.known /\ ~past.refused]]
  /\ UNCHANGED <<row, tab, sub, used, wish, past>>

ReadFails(p) ==
  /\ page[p].at \in {"idle", "told"} /\ "read" \in Faults
  /\ page' = [page EXCEPT ![p] = [Untold EXCEPT !.at = "told", !.answer = "no"]]
  /\ UNCHANGED <<row, tab, sub, used, wish, past>>

AskForPage(p) ==
  /\ page[p].at = "asking"
  /\ \E a \in Answers : page' = [page EXCEPT ![p].at = "saving", ![p].answer = a]
  /\ UNCHANGED <<row, tab, sub, used, wish, past>>

(* The answer is cached for an hour; an error leaves the last answer and   *)
(* is cached for five minutes.                                             *)
(* Mutant: an error is cached like a no.                                   *)
CachedAsNo(a) ==
  IF Decided(a) THEN [row EXCEPT !.has = a = "yes", !.stamp = "fresh"]
  ELSE [row EXCEPT !.has = FALSE, !.stamp = "error"]
Cached(a) ==
  IF Decided(a) THEN [row EXCEPT !.has = a = "yes", !.stamp = "fresh"]
  ELSE [row EXCEPT !.stamp = "error"]

Stored(a) == past' = [past EXCEPT !.known = IF Decided(a) THEN a = "yes" ELSE @]

\* Who gets no answer is told what the row said when it was read.
SaveForPage(p) ==
  /\ page[p].at = "saving"
  /\ \/ row' = Cached(page[p].answer) /\ Stored(page[p].answer)
     \/ "write" \in Faults /\ UNCHANGED <<row, past>>
  /\ page' = [page EXCEPT ![p].at = "told",
                ![p].answer = IF Decided(@) THEN @ ELSE Told(page[p].seen)]
  /\ UNCHANGED <<tab, sub, used, wish>>

-----------------------------------------------------------------------------
(* The check by hand ignores the cache.  Its errors write nothing, unless  *)
(* Twitch refuses the token: then the scope is given up.                   *)
Check(t) ==
  /\ tab[t].at = "idle"
  /\ row.scope
  /\ tab' = [tab EXCEPT ![t].at = "asking"]
  /\ wish' = "any"
  /\ UNCHANGED <<row, page, sub, used, past>>

AskForTab(t) ==
  /\ tab[t].at = "asking"
  /\ \E a \in Answers : tab' = [tab EXCEPT ![t].at = "saving", ![t].answer = a]
  /\ UNCHANGED <<row, page, sub, used, wish, past>>

Answered(a) ==
  CASE Decided(a) -> [row EXCEPT !.has = a = "yes", !.stamp = "fresh"]
    [] a = "unauthorized" -> [row EXCEPT !.scope = FALSE]
    [] OTHER -> row

SaveForTab(t) ==
  /\ tab[t].at = "saving"
  /\ \/ /\ row' = Answered(tab[t].answer)
        /\ IF tab[t].answer = "unauthorized"
           THEN past' = [past EXCEPT !.refused = TRUE]
           ELSE Stored(tab[t].answer)
     \/ "write" \in Faults /\ UNCHANGED <<row, past>>
  /\ tab' = [tab EXCEPT ![t] = Idle]
  /\ UNCHANGED <<page, sub, used, wish>>

(* The switch: a tab offers it only while it does not check.               *)
Disable(t) ==
  /\ tab[t].at = "idle"
  /\ used.off < MaxOff
  /\ used' = [used EXCEPT !.off = @ + 1]
  /\ row' = [row EXCEPT !.has = FALSE, !.stamp = "off"]
  /\ wish' = "off" /\ past' = [past EXCEPT !.known = FALSE]
  /\ UNCHANGED <<page, tab, sub>>

(* A step-up authorization brings the scope back.                          *)
Reauthorize ==
  /\ ~row.scope
  /\ row' = [row EXCEPT !.scope = TRUE]
  /\ past' = [past EXCEPT !.refused = FALSE]
  /\ UNCHANGED <<page, tab, sub, used, wish>>

-----------------------------------------------------------------------------
Age ==
  /\ row.stamp \in {"fresh", "error"}
  /\ row' = [row EXCEPT !.stamp = "old"]
  /\ UNCHANGED <<page, tab, sub, used, wish, past>>

SubChanges ==
  /\ used.changes < MaxChanges
  /\ used' = [used EXCEPT !.changes = @ + 1]
  /\ sub' = ~sub
  /\ UNCHANGED <<row, page, tab, wish, past>>

AtPage(p) == Read(p) \/ ReadFails(p) \/ AskForPage(p) \/ SaveForPage(p)
AtTab(t) == Check(t) \/ AskForTab(t) \/ SaveForTab(t) \/ Disable(t)

Next ==
  \/ \E p \in Page : AtPage(p)
  \/ \E t \in Tab : AtTab(t)
  \/ Reauthorize \/ Age \/ SubChanges

Spec == Init /\ [][Next]_vars

(* The switch is used while nothing is being checked.                      *)
NobodyChecks ==
  /\ \A p \in Page : page[p].at \in {"idle", "told"}
  /\ \A t \in Tab : tab[t].at = "idle"

CalmNext == Next /\ (used'.off > used.off => NobodyChecks)

-----------------------------------------------------------------------------
\* Every value has its type.
TypeOK ==
  /\ row \in [has : BOOLEAN, stamp : Stamp, scope : BOOLEAN]
  /\ page \in [Page -> [at : {"idle", "asking", "saving", "told"},
                        answer : Answer, seen : BOOLEAN, had : BOOLEAN]]
  /\ tab \in [Tab -> [at : {"idle", "asking", "saving"}, answer : Answer]]
  /\ sub \in BOOLEAN
  /\ used \in [changes : 0..MaxChanges, off : 0..MaxOff]
  /\ wish \in {"any", "off"}
  /\ past \in [known : BOOLEAN, refused : BOOLEAN]

(* Once switched off the subscription counts for nothing, until the user   *)
(* checks again: no page brings it back.                                   *)
DisableHolds == wish = "off" => ~row.has /\ row.stamp = "off"

(* Who is subscribed all the time is told so, once a check has found it:   *)
(* neither an error of Twitch, of a background check or of a save costs    *)
(* the plan, nor another request's check.  The exceptions: the row cannot  *)
(* be read, the user has switched the subscription off, or Twitch refused  *)
(* the token of the user's own check, until the user authorizes again.     *)
KeepsPlan ==
  \A p \in Page : page[p].at = "told" /\ page[p].had => page[p].answer = "yes"

=============================================================================
