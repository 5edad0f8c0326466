------------------------------ MODULE MCDraws -------------------------------
(***************************************************************************)
(* Small instances of what a draw writes: the gacha transaction, statement *)
(* by statement, the statistics of the owners, the drop rates, the images  *)
(* of the cards.                                                           *)
(***************************************************************************)
EXTENDS GachaTransaction, TLC

CONSTANTS Scenes, Single, Triple, ann, ben, x, y, X, Y

VARIABLES scene,
          statsOwner, statsStat, statsTx,
          ratesCard, ratesWeights, ratesForm, ratesReq, ratesForms,
          ratesFaults,
          fileObject, fileRow, fileUsed, fileCard, fileTab, fileHalved,
          fileSpent, fileFaults

statsVars == <<statsOwner, statsStat, statsTx>>
ratesVars == <<ratesCard, ratesWeights, ratesForm, ratesReq, ratesForms,
             ratesFaults>>
fileVars == <<fileObject, fileRow, fileUsed, fileCard, fileTab, fileHalved,
            fileSpent, fileFaults>>

(* A batch of one draw, and one of two.                                    *)
Doubled == [e \in {Single, Triple} |-> IF e = Triple THEN 2 ELSE 1]

OneOrUnlimited == {1, Unlimited}

(* Sessions and cards are interchangeable; used for safety only.           *)
Interchangeable == Permutations(Session) \cup Permutations(Card)

-----------------------------------------------------------------------------
(* Two rows of two viewers: two transactions that overlap, and             *)
(* transactions that do not.                                               *)
Overlapping == INSTANCE UsageStats WITH
    Row <- {1, 2}, User <- {ann, ben}, Session <- {1, 2},
    owner <- statsOwner, stat <- statsStat, tx <- statsTx
OneByOne == INSTANCE UsageStats WITH
    Row <- {1, 2}, User <- {ann, ben}, Session <- {1}, owner <- statsOwner,
    stat <- statsStat, tx <- statsTx

-----------------------------------------------------------------------------
(* Requests that overlap and fail, an edit form that stays open, and       *)
(* requests one after the other.                                           *)
Rates == INSTANCE DropRates WITH
    Card <- {x}, Rarity <- {X, Y}, Request <- {1, 2}, Share <- {1},
    Setting <- {X :> 71 @@ Y :> 25}, MaxForms <- 0, MaxFaults <- 1,
    card <- ratesCard, weights <- ratesWeights, form <- ratesForm,
    req <- ratesReq, forms <- ratesForms, faults <- ratesFaults
Form == INSTANCE DropRates WITH
    Card <- {x}, Rarity <- {X, Y}, Request <- {1}, Share <- {1, 2},
    Setting <- {X :> 71 @@ Y :> 25}, MaxForms <- 1, MaxFaults <- 1,
    card <- ratesCard, weights <- ratesWeights, form <- ratesForm,
    req <- ratesReq, forms <- ratesForms, faults <- ratesFaults
Shares == INSTANCE DropRates WITH
    Card <- {x, y}, Rarity <- {X, Y}, Request <- {1}, Share <- {1, 2},
    Setting <- {X :> 71 @@ Y :> 25}, MaxForms <- 0, MaxFaults <- 0,
    card <- ratesCard, weights <- ratesWeights, form <- ratesForm,
    req <- ratesReq, forms <- ratesForms, faults <- ratesFaults

-----------------------------------------------------------------------------
(* One dashboard with two faults; two dashboards without.                  *)
Files == INSTANCE ImageStorage WITH
    Card <- {x, y}, Tab <- {1}, Limit <- 2, MaxUploads <- 3, MaxFaults <- 2,
    object <- fileObject, row <- fileRow, used <- fileUsed,
    card <- fileCard, tab <- fileTab, halved <- fileHalved,
    spent <- fileSpent, faults <- fileFaults
Tabs == INSTANCE ImageStorage WITH
    Card <- {x}, Tab <- {1, 2}, Limit <- 2, MaxUploads <- 3, MaxFaults <- 0,
    object <- fileObject, row <- fileRow, used <- fileUsed,
    card <- fileCard, tab <- fileTab, halved <- fileHalved,
    spent <- fileSpent, faults <- fileFaults

-----------------------------------------------------------------------------
(* One component works in a behaviour, as its scene says; the variables of *)
(* the others rest.                                                        *)
AllInit ==
    /\ scene \in Scenes
    /\ scene = "transaction" => Init
    /\ scene # "transaction" => Init /\ active = {} /\ \A c \in Card : limit[c] = Unlimited
    /\ scene = "ordered" => OneByOne!Init
    /\ scene # "ordered" => Overlapping!Init
    /\ scene = "form" => Form!Init
    /\ scene = "shares" => Shares!Init
    /\ scene \notin {"form", "shares"} => Rates!Init
    /\ scene = "tabs" => Tabs!Init
    /\ scene # "tabs" => Files!Init

AllNext ==
    \/ /\ scene = "transaction" /\ Next
       /\ UNCHANGED <<scene, statsVars, ratesVars, fileVars>>
    \/ /\ scene = "statistics" /\ Overlapping!Next
       /\ UNCHANGED <<scene, vars, ratesVars, fileVars>>
    \/ /\ scene = "ordered" /\ OneByOne!Next
       /\ UNCHANGED <<scene, vars, ratesVars, fileVars>>
    \/ /\ scene = "rates" /\ Rates!Next
       /\ UNCHANGED <<scene, vars, statsVars, fileVars>>
    \/ /\ scene = "form" /\ Form!Next
       /\ UNCHANGED <<scene, vars, statsVars, fileVars>>
    \/ /\ scene = "shares" /\ Shares!Next
       /\ UNCHANGED <<scene, vars, statsVars, fileVars>>
    \/ /\ scene = "files" /\ Files!Next
       /\ UNCHANGED <<scene, vars, statsVars, ratesVars>>
    \/ /\ scene = "tabs" /\ Tabs!Next
       /\ UNCHANGED <<scene, vars, statsVars, ratesVars>>

allVars == <<scene, vars, statsVars, ratesVars, fileVars>>

AllSpec == AllInit /\ [][AllNext]_allVars
-----------------------------------------------------------------------------
(* A recalculation that no other write came between leaves every rate at   *)
(* the setting, whatever earlier races and failures had left behind.  A    *)
(* transaction leaves the statistics of a viewer right, unless another one *)
(* of the same viewer committed after it had counted.                      *)
LastWriterRepairs ==
    [][/\ scene = "rates" => Rates!RepairsAlone
       /\ scene = "statistics" => Overlapping!CommitsFreshCount]_allVars

(* The drop rates follow the setting and the pool, where nothing fails and *)
(* no form is open, and rounding keeps their sum (recalculateRarityRates); *)
(* the statistics of a viewer are those of the viewer's rows, when trans-  *)
(* actions do not overlap (the triggers of 00050 and 00051).               *)
FiguresFollow ==
    /\ scene = "rates" => Rates!TypeOK
    /\ scene = "form" => Form!TypeOK
    /\ scene = "shares" => Shares!TypeOK /\ Shares!RatesFollow /\ Shares!SharesAddUp
    /\ scene = "statistics" => Overlapping!TypeOK
    /\ scene = "ordered" => OneByOne!StatsFollow

(* A card shows an image that exists and the plan's limit is exceeded by   *)
(* what runs at once or failed only; table and bucket agree whatever the   *)
(* tabs do, as long as nothing fails.                                      *)
ImagesHold ==
    /\ scene = "files" => Files!TypeOK /\ Files!FilesBounded /\ Files!ImageExists
    /\ scene = "tabs" => Tabs!TypeOK /\ Tabs!TableFollowsBucket
=============================================================================
