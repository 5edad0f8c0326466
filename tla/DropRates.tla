------------------------------ MODULE DropRates ------------------------------
(***************************************************************************)
(* The drop rates of a streamer's cards in the automatic mode.  The share  *)
(* of each rarity is a setting; every request that changes the pool reads  *)
(* that setting, changes a card, reads the pool, computes all rates and    *)
(* writes them, in separate statements and without a lock.  Requests of    *)
(* several tabs overlap, and a recalculation that fails is left undone.    *)
(***************************************************************************)
EXTENDS Integers, FiniteSets, FiniteSetsExt, Functions

CONSTANTS Card, Rarity, Request,
          Share,                  \* values of intra_rarity_weight
          Setting,                \* values of rarity_weights, in percent
          MaxForms, MaxFaults     \* bounds

\* An empty setting means that rates are set by hand.
Manual == <<>>

VARIABLES card,               \* table cards
          weights,            \* streamers.rarity_weights
          form,               \* an open edit form, or none
          req,                \* the requests
          forms, faults

vars == <<card, weights, form, req, forms, faults>>

Rate == 0..10000              \* DECIMAL(5,4)
Default == 2500
NoForm == [card |-> "none"]
NoBody == [rate |-> 0]

Idle == [at |-> "idle", card |-> "none", body |-> NoBody, w |-> Manual,
         recalc |-> FALSE, rates |-> <<>>, alone |-> TRUE]

NoRow(s) == [is |-> s, active |-> FALSE, rarity |-> CHOOSE x \in Rarity : TRUE,
             share |-> Min(Share), rate |-> 0]

Here(c) == card[c].is = "here"

Pool == {c \in Card : Here(c) /\ card[c].active}

TypeOK ==
    /\ card \in [Card -> [is : {"new", "here", "gone"}, active : BOOLEAN,
                          rarity : Rarity, share : Share, rate : Rate]]
    /\ weights \in Setting \cup {Manual}
    /\ form = NoForm \/ form.card \in Card
    /\ \A r \in Request :
         /\ req[r].at \in {"idle", "write", "fetch", "apply"}
         /\ req[r].card \in Card \cup {"none"} /\ req[r].w \in Setting \cup {Manual}
         /\ DOMAIN req[r].rates \subseteq Card
         /\ \A c \in DOMAIN req[r].rates : req[r].rates[c] \in Rate
         /\ {req[r].recalc, req[r].alone} \subseteq BOOLEAN
    /\ forms \in 0..MaxForms /\ faults \in 0..MaxFaults

\* The default setting is saved when the page is opened first.
Init ==
    /\ card = [c \in Card |-> NoRow("new")]
    /\ weights \in Setting /\ form = NoForm
    /\ req = [r \in Request |-> Idle]
    /\ forms = 0 /\ faults = 0

Fault == faults < MaxFaults /\ faults' = faults + 1
-----------------------------------------------------------------------------
(* calculateDropRates: the part of a card in its rarity, in units of       *)
(* 0.0001 and rounded; nothing for a rarity without a setting.             *)
Total(S, x) == SumFunctionOnSet([c \in Card |-> card[c].share],
                                {c \in S : card[c].rarity = x})

RateOf(w, S, c) ==
    IF card[c].rarity \in DOMAIN w
    THEN (200 * w[card[c].rarity] * card[c].share + Total(S, card[c].rarity))
         \div (2 * Total(S, card[c].rarity))
    ELSE 0

RatesMatch ==
    weights # Manual =>
        \A c \in Pool : card[c].rate = RateOf(weights, Pool, c)
-----------------------------------------------------------------------------
(* A request has read the card and the setting and will write the body.    *)
Start(r, c, body, recalc) ==
    /\ req[r].at = "idle"
    /\ req' = [req EXCEPT ![r] = [at |-> "write", card |-> c, body |-> body,
                 w |-> weights, recalc |-> recalc /\ weights # Manual,
                 rates |-> <<>>, alone |-> TRUE]]
    /\ UNCHANGED <<card, weights, forms, faults>>

\* Only what differs from the row that was read asks for new rates.
(* Mutant: a card that is switched on or off does not.                     *)
ChangesButActive(c, body) ==
    \E k \in DOMAIN body \cap {"rarity", "share"} : body[k] # card[c][k]
Changes(c, body) ==
    \E k \in DOMAIN body \cap {"active", "rarity", "share"} :
        body[k] # card[c][k]

Put(r, c, body) == Here(c) /\ Start(r, c, body, Changes(c, body))

Toggle(r, c) ==
    Put(r, c, [active |-> ~card[c].active]) /\ UNCHANGED form

\* The number editor and other fields change nothing that counts.
Rename(r, c) ==
    Put(r, c, [rate |-> card[c].rate]) /\ UNCHANGED form

OpenForm(c) ==
    /\ form = NoForm /\ Here(c) /\ forms < MaxForms
    /\ form' = [card |-> c, rarity |-> card[c].rarity,
                share |-> card[c].share, rate |-> card[c].rate]
    /\ forms' = forms + 1 /\ UNCHANGED <<card, weights, req, faults>>

\* The form sends the rate it was opened with; the weight only in the
\* automatic mode.
Submit(r) ==
    /\ form # NoForm /\ form' = NoForm
    /\ \E x \in Rarity, n \in Share :
         Put(r, form.card, IF weights = Manual
                           THEN [rarity |-> x, rate |-> form.rate]
                           ELSE [rarity |-> x, share |-> n,
                                 rate |-> form.rate])

\* POST /api/cards and the import of emotes.
Create(r, c) ==
    /\ card[c].is = "new" /\ UNCHANGED form
    /\ \E x \in Rarity :
         Start(r, c, [is |-> "here", active |-> TRUE, rarity |-> x,
                      rate |-> Default], TRUE)

Delete(r, c) ==
    Here(c) /\ Start(r, c, NoRow("gone"), TRUE) /\ UNCHANGED form

\* The weights of the cards, or by hand their rates.
BatchUpdate(r, c) ==
    /\ Here(c) /\ UNCHANGED form
    /\ IF weights = Manual
       THEN Start(r, c, [rate |-> Default], FALSE)
       ELSE \E n \in Share :
              Start(r, c, [share |-> n, rate |-> card[c].rate], TRUE)

\* Another request has written: what was read may have changed.
Touch(r, e) == [q \in Request |-> [e[q] EXCEPT !.alone = @ /\ q = r]]

End(r) == Touch(r, [req EXCEPT ![r] = Idle])

\* The row with the fields of the body.
Merged(row, body) ==
    [k \in DOMAIN row |-> IF k \in DOMAIN body THEN body[k] ELSE row[k]]

Write(r) ==
    /\ req[r].at = "write"
    /\ LET c == req[r].card  b == req[r].body IN
       card' = IF Here(c) \/ "is" \in DOMAIN b
               THEN [card EXCEPT ![c] = Merged(@, b)] ELSE card
    /\ req' = IF req[r].recalc THEN Touch(r, [req EXCEPT ![r].at = "fetch"])
              ELSE End(r)
    /\ UNCHANGED <<weights, form, forms, faults>>

SaveSetting(r, w) ==
    /\ req[r].at = "idle" /\ weights' = w
    /\ req' = Touch(r, IF w = Manual THEN req
                 ELSE [req EXCEPT ![r] = [Idle EXCEPT
                         !.at = "fetch", !.w = w, !.recalc = TRUE]])
    /\ UNCHANGED <<card, form, forms, faults>>

Fetch(r) ==
    /\ req[r].at = "fetch"
    /\ req' = IF Pool = {} THEN [req EXCEPT ![r] = Idle]
              ELSE [req EXCEPT ![r].at = "apply",
                      ![r].rates = [c \in Pool |-> RateOf(req[r].w, Pool, c)]]
    /\ UNCHANGED <<card, weights, form, forms, faults>>

\* batch_update_card_drop_rates: cards that are gone are passed over.
WithRates(r) ==
    [c \in Card |-> IF c \in DOMAIN req[r].rates /\ Here(c)
                    THEN [card[c] EXCEPT !.rate = req[r].rates[c]]
                    ELSE card[c]]

Apply(r) ==
    /\ req[r].at = "apply" /\ card' = WithRates(r) /\ req' = End(r)
    /\ UNCHANGED <<weights, form, forms, faults>>

\* The connection is lost after the commit: the call is repeated.
ApplyAgain(r) ==
    /\ req[r].at = "apply" /\ Fault
    /\ card' = WithRates(r) /\ req' = Touch(r, req)
    /\ UNCHANGED <<weights, form, forms>>

\* A failed write is an error; a failed recalculation is only logged.
Fail(r) ==
    /\ req[r].at # "idle" /\ Fault
    /\ req' = [req EXCEPT ![r] = Idle]
    /\ UNCHANGED <<card, weights, form, forms>>

Begin(r) ==
    \/ Submit(r) \/ \E w \in Setting \cup {Manual} : SaveSetting(r, w)
    \/ \E c \in Card : \/ Toggle(r, c) \/ Rename(r, c) \/ Create(r, c)
                       \/ Delete(r, c) \/ BatchUpdate(r, c)

Serve(r) == Write(r) \/ Fetch(r) \/ Apply(r)

Next ==
    \/ \E c \in Card : OpenForm(c)
    \/ \E r \in Request : Begin(r) \/ Serve(r) \/ ApplyAgain(r) \/ Fail(r)

Spec == Init /\ [][Next]_vars
-----------------------------------------------------------------------------
(* A recalculation that no other write came between leaves every rate at   *)
(* the setting, whatever earlier races and failures had left behind.       *)
RepairsAlone ==
    \A r \in Request :
        req[r].at = "apply" /\ req[r].alone /\ req'[r].at = "idle"
        /\ faults' = faults => RatesMatch'

(* Where nothing fails and no form is open meanwhile, the rates follow the *)
(* setting and the pool whenever no request is under way.                  *)
RatesFollow ==
    (\A r \in Request : req[r].at = "idle") => RatesMatch

(* Rounding moves the sum of a rarity by no more than half a unit a card.  *)
SharesAddUp ==
    weights # Manual => \A x \in DOMAIN weights :
        LET S == {c \in Pool : card[c].rarity = x}
            d == MapThenSumSet(LAMBDA c : RateOf(weights, Pool, c), S)
                 - 100 * weights[x]
        IN  S # {} => 2 * d <= Cardinality(S) /\ -2 * d <= Cardinality(S)
=============================================================================
