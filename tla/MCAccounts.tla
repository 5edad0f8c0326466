----------------------------- MODULE MCAccounts -----------------------------
(***************************************************************************)
(* Small instances of what keeps the accounts: the refresh of tokens, the  *)
(* sign-in flows and their scopes, the subscription behind a plan, the     *)
(* support codes.                                                          *)
(***************************************************************************)
EXTENDS TokenRefresh, TLC

CONSTANTS Scenes, u1, u2, s1, s2, p1

VARIABLES scene,
          loginRows, loginCookies, loginFlows, loginLast, loginWanted,
          loginKept, loginBy,
          planRow, planPage, planTab, planSub, planUsed, planWish,
          planPast,
          codeCodes, codeLicenses, codeCall, codeChanges

loginVars == <<loginRows, loginCookies, loginFlows, loginLast, loginWanted,
              loginKept, loginBy>>
planVars == <<planRow, planPage, planTab, planSub, planUsed, planWish,
             planPast>>
codeVars == <<codeCodes, codeLicenses, codeCall, codeChanges>>

-----------------------------------------------------------------------------
(* The account of the chat bot, refreshed by the same lease.               *)
Bot == INSTANCE TokenRefresh WITH IsBot <- TRUE, MaxPolls <- 1

-----------------------------------------------------------------------------
(* One user and two scopes, one browser, callbacks one after the other,    *)
(* every fault; the same where every read succeeds; callbacks that overlap *)
(* in one browser, and in two; plain logins of two users.                  *)
Faulty == INSTANCE Login WITH
    Browser <- {1}, User <- {u1}, Scope <- {s1, s2}, Returning <- {},
    MaxFlows <- 4, Kinds <- {"login", "reauth"},
    Faults <- {"read", "write", "twitch", "cookies"}, rows <- loginRows,
    cookies <- loginCookies, flows <- loginFlows, last <- loginLast,
    wanted <- loginWanted, kept <- loginKept, by <- loginBy
Readable == INSTANCE Login WITH
    Browser <- {1}, User <- {u1}, Scope <- {s1, s2}, Returning <- {},
    MaxFlows <- 4, Kinds <- {"login", "reauth"},
    Faults <- {"write", "twitch", "cookies"}, rows <- loginRows,
    cookies <- loginCookies, flows <- loginFlows, last <- loginLast,
    wanted <- loginWanted, kept <- loginKept, by <- loginBy
Pages == INSTANCE Login WITH
    Browser <- {1}, User <- {u1}, Scope <- {s1}, Returning <- {u1},
    MaxFlows <- 3, Kinds <- {"login", "reauth"},
    Faults <- {"read", "write", "cookies"}, rows <- loginRows,
    cookies <- loginCookies, flows <- loginFlows, last <- loginLast,
    wanted <- loginWanted, kept <- loginKept, by <- loginBy
Overlap == INSTANCE Login WITH
    Browser <- {1, 2}, User <- {u1}, Scope <- {s1}, Returning <- {u1},
    MaxFlows <- 3, Kinds <- {"login", "reauth"},
    Faults <- {"write", "twitch"}, rows <- loginRows,
    cookies <- loginCookies, flows <- loginFlows, last <- loginLast,
    wanted <- loginWanted, kept <- loginKept, by <- loginBy
Logins == INSTANCE Login WITH
    Browser <- {1}, User <- {u1, u2}, Scope <- {s1}, Returning <- {},
    MaxFlows <- 4, Kinds <- {"login"}, Faults <- {"read"},
    rows <- loginRows, cookies <- loginCookies, flows <- loginFlows,
    last <- loginLast, wanted <- loginWanted, kept <- loginKept,
    by <- loginBy

LoginRests == Faulty!Init /\ loginRows[u1].scopes = {}

-----------------------------------------------------------------------------
(* Pages and a tab check while the user switches off and the subscription  *)
(* changes once; the same of a user who stays subscribed.                  *)
Checks == INSTANCE SubCheck WITH
    Page <- {1, 2}, Tab <- {1, 2}, MaxChanges <- 1, MaxOff <- 2,
    Faults <- {"twitch", "auth", "read", "write"}, row <- planRow,
    page <- planPage, tab <- planTab, sub <- planSub, used <- planUsed,
    wish <- planWish, past <- planPast
Member == INSTANCE SubCheck WITH
    Page <- {1, 2}, Tab <- {1, 2}, MaxChanges <- 0, MaxOff <- 2,
    Faults <- {"twitch", "auth", "read", "write"}, row <- planRow,
    page <- planPage, tab <- planTab, sub <- planSub, used <- planUsed,
    wish <- planWish, past <- planPast

PlanRests == Checks!Init /\ planSub = FALSE

-----------------------------------------------------------------------------
(* Three activations of two users and two codes; two support codes and a   *)
(* patron code, one activation of a user at a time.                        *)
Codes == INSTANCE SupportCodes WITH
    User <- {u1, u2}, Code <- {s1, p1}, Call <- 1..3,
    PlanOf <- s1 :> "support" @@ p1 :> "patron", MaxChanges <- 2,
    codes <- codeCodes, licenses <- codeLicenses, call <- codeCall,
    changes <- codeChanges
InTurn == INSTANCE SupportCodes WITH
    User <- {u1, u2}, Code <- {s1, s2, p1}, Call <- 1..3,
    PlanOf <- s1 :> "support" @@ s2 :> "support" @@ p1 :> "patron",
    MaxChanges <- 1, codes <- codeCodes, licenses <- codeLicenses,
    call <- codeCall, changes <- codeChanges

-----------------------------------------------------------------------------
(* One component works in a behaviour, as its scene says; the variables of *)
(* the others rest.                                                        *)
AllInit ==
    /\ scene \in Scenes
    /\ scene = "bot" => Bot!Init
    /\ scene # "bot" => Init
    /\ scene = "login" => Faulty!Init
    /\ scene = "readable" => Readable!Init
    /\ scene = "pages" => Pages!Init
    /\ scene = "overlap" => Overlap!Init
    /\ scene = "logins" => Logins!Init
    /\ scene \notin {"login", "readable", "pages", "overlap", "logins"}
         => LoginRests
    /\ scene = "checks" => Checks!Init
    /\ scene = "subscribed" => Member!Init
    /\ scene \notin {"checks", "subscribed"} => PlanRests
    /\ scene = "turns" => InTurn!Init
    /\ scene # "turns" => Codes!Init

AllNext ==
    \/ /\ scene = "tokens" /\ Next
       /\ UNCHANGED <<scene, loginVars, planVars, codeVars>>
    \/ /\ scene = "bot" /\ Bot!Next
       /\ UNCHANGED <<scene, loginVars, planVars, codeVars>>
    \/ /\ scene = "login" /\ Faulty!SerialNext
       /\ UNCHANGED <<scene, vars, planVars, codeVars>>
    \/ /\ scene = "readable" /\ Readable!SerialNext
       /\ UNCHANGED <<scene, vars, planVars, codeVars>>
    \/ /\ scene = "pages" /\ Pages!Next
       /\ UNCHANGED <<scene, vars, planVars, codeVars>>
    \/ /\ scene = "overlap" /\ Overlap!Next
       /\ UNCHANGED <<scene, vars, planVars, codeVars>>
    \/ /\ scene = "logins" /\ Logins!SerialNext
       /\ UNCHANGED <<scene, vars, planVars, codeVars>>
    \/ /\ scene = "checks" /\ Checks!CalmNext
       /\ UNCHANGED <<scene, vars, loginVars, codeVars>>
    \/ /\ scene = "subscribed" /\ Member!Next
       /\ UNCHANGED <<scene, vars, loginVars, codeVars>>
    \/ /\ scene = "codes" /\ Codes!Next
       /\ UNCHANGED <<scene, vars, loginVars, planVars>>
    \/ /\ scene = "turns" /\ InTurn!CalmNext
       /\ UNCHANGED <<scene, vars, loginVars, planVars>>

allVars == <<scene, vars, loginVars, planVars, codeVars>>

AllSpec == AllInit /\ [][AllNext]_allVars
-----------------------------------------------------------------------------
(* However the callbacks of one user overlap and whatever fails: a scope   *)
(* leaves the record only by the callback of a flow that began before the  *)
(* scope was put there, and, where no read fails, the token lacks no scope *)
(* on record but such a one, too.  Where callbacks come one after the      *)
(* other in one browser no scope is lost and, where no read fails, none is *)
(* lacking.  A browser that keeps its cookies is not sent back and forth;  *)
(* and the flow it began last is not refused for its state while callbacks *)
(* come one after the other and only logins are begun.                     *)
LoginHolds ==
    /\ [](/\ scene = "login" => Faulty!TypeOK
          /\ scene = "readable" => Readable!ScopesTrue
          /\ scene = "pages" => Pages!TypeOK
          /\ scene = "overlap" => /\ Overlap!TypeOK /\ Overlap!RecoveredOnce
                                 /\ Overlap!LacksOnlyNewer)
    /\ [][/\ scene = "login" => Faulty!KeepsScopes
          /\ scene = "pages" => Pages!LosesOnlyNewer
          /\ scene = "overlap" => Overlap!LosesOnlyNewer
          /\ scene = "logins" => Logins!AcceptsLatest]_allVars

(* Once switched off the subscription counts for nothing until the user    *)
(* checks again, when the switch is used while nobody checks.              *)
DisableHolds == scene = "checks" => Checks!TypeOK /\ Checks!DisableHolds

(* Who is subscribed all the time is told so once a check has found it,    *)
(* whatever other call fails, unless the row cannot be read, the user has  *)
(* switched the subscription off, or Twitch refused the token of the       *)
(* user's own check.  A license is given only while its code may be        *)
(* activated, a refused request changes nothing, and an activation gives   *)
(* the plan of its code, when a user sends one request at a time (the      *)
(* subscription check of the plan, activate_support_code).                 *)
PlanKept ==
    /\ [](scene = "subscribed" => Member!TypeOK /\ Member!KeepsPlan)
    /\ [][/\ scene = "codes" => Codes!GivesActiveOnly /\ Codes!RefusalChangesNothing
          /\ scene = "turns" => InTurn!GivesItsPlan]_allVars

(* What the comment on the switch says of a page's check that is under     *)
(* way: it does not bring a switched off subscription back.                *)
OffStaysOff == scene = "subscribed" => Member!DisableHolds
=============================================================================
