------------------------------ MODULE MCCards -------------------------------
(***************************************************************************)
(* Small instances of two ways to come by a card: the trades of the        *)
(* viewers, and the rewards a streamer sets up at Twitch.                  *)
(***************************************************************************)
EXTENDS CardTrading, TLC

CONSTANTS Scenes, ann, ben, X, Y, x1, x2, y1, y2, o1, o2, o3, a, b, c, full,
          compact

VARIABLES scene,
          rewardMain, rewardExtra, rewardSubs, rewardPage, rewardReq,
          rewardOps, rewardTrouble, rewardSmooth, rewardLast

rewardVars == <<rewardMain, rewardExtra, rewardSubs, rewardPage, rewardReq,
              rewardOps, rewardTrouble, rewardSmooth, rewardLast>>

(* Two copies each of two cards.                                           *)
CardOfCopy == [k \in Copy |-> IF k \in {x1, x2} THEN X ELSE Y]

(* Ann offers x1, and x2, for a Y; Ben offers y1 for an X.                 *)
OffererOf == [o \in Offer |-> IF o = o2 THEN ben ELSE ann]
OfferedOf == [o \in Offer |-> CASE o = o1 -> x1 [] o = o2 -> y1 [] o = o3 -> x2]
WantedOf  == [o \in Offer |-> IF o = o2 THEN X ELSE Y]

-----------------------------------------------------------------------------
(* The full page without trouble; the same with calls that fail; both      *)
(* pages at the same time.                                                 *)
Rewards == INSTANCE RewardSetup WITH
    Reward <- {a, b, c}, Page <- {full}, Compact <- {}, Overlap <- FALSE,
    MaxOps <- 0, MaxTrouble <- 0, main <- rewardMain, extra <- rewardExtra,
    subs <- rewardSubs, page <- rewardPage, req <- rewardReq,
    ops <- rewardOps, trouble <- rewardTrouble, smooth <- rewardSmooth,
    last <- rewardLast
Failing == INSTANCE RewardSetup WITH
    Reward <- {a, b}, Page <- {full}, Compact <- {}, Overlap <- FALSE,
    MaxOps <- 0, MaxTrouble <- 2, main <- rewardMain, extra <- rewardExtra,
    subs <- rewardSubs, page <- rewardPage, req <- rewardReq,
    ops <- rewardOps, trouble <- rewardTrouble, smooth <- rewardSmooth,
    last <- rewardLast
Pages == INSTANCE RewardSetup WITH
    Reward <- {a, b}, Page <- {full, compact}, Compact <- {compact},
    Overlap <- TRUE, MaxOps <- 2, MaxTrouble <- 0, main <- rewardMain,
    extra <- rewardExtra, subs <- rewardSubs, page <- rewardPage,
    req <- rewardReq, ops <- rewardOps, trouble <- rewardTrouble,
    smooth <- rewardSmooth, last <- rewardLast

RewardRests == Rewards!Init /\ rewardMain = Rewards!NoReward

-----------------------------------------------------------------------------
(* One component works in a behaviour, as its scene says; the variables of *)
(* the others rest.                                                        *)
AllInit ==
    /\ scene \in Scenes
    /\ Init
    /\ scene = "rewards" => Rewards!Init
    /\ scene = "failing" => Failing!Init
    /\ scene = "pages" => Pages!Init
    /\ scene \notin {"rewards", "failing", "pages"} => RewardRests

AllNext ==
    \/ /\ scene = "trading" /\ Next
       /\ UNCHANGED <<scene, rewardVars>>
    \/ /\ scene = "rewards" /\ Rewards!Next
       /\ UNCHANGED <<scene, vars>>
    \/ /\ scene = "failing" /\ Failing!Next
       /\ UNCHANGED <<scene, vars>>
    \/ /\ scene = "pages" /\ Pages!Next
       /\ UNCHANGED <<scene, vars>>

allVars == <<scene, vars, rewardVars>>

AllSpec == AllInit /\ [][AllNext]_allVars
-----------------------------------------------------------------------------
(* The rewards that draw cards are those Twitch tells us of, when nothing  *)
(* has failed; an operation that met no failure and no other page has done *)
(* what it was asked for, whatever earlier ones have left behind.          *)
RewardsHold ==
    /\ scene = "rewards" => Rewards!TypeOK /\ Rewards!PlacesAgree /\ Rewards!DoneIsDone
    /\ scene = "failing" => Failing!TypeOK /\ Failing!DoneIsDone
    /\ scene = "pages" => Pages!TypeOK /\ Pages!DoneIsDone
=============================================================================
