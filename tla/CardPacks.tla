----------------------------- MODULE CardPacks -----------------------------
(***************************************************************************)
(* The card packs of a streamer: the list of registered names, the cards   *)
(* and the main reward that name a pack, and the rarity weights per pack.  *)
(* The dashboard keeps copies and sends whole lists and maps back; the     *)
(* settings route reads the row, checks, and writes; the card route reads  *)
(* and writes; only the rename is one transaction that looks again.        *)
(* Names and maps are sets: order and the weights themselves are data.     *)
(***************************************************************************)
EXTENDS Naturals, FiniteSets

CONSTANTS Name, Card, Tab,
          None,        \* no pack: the cards that are not classified
          Kinds,       \* requests that the tabs make
          MaxOps,      \* bound: requests
          MaxLost,     \* bound: answers that do not arrive
          MaxLapses    \* bound: the plan falls back to basic

VARIABLES
    db,        \* the streamer's row and the cards
    premium,   \* the plan, as getUserPlan answers
    tab,       \* the dashboard of each tab
    rq,        \* the request of each tab
    act,       \* history: what the last write was asked to do
    dropped,   \* history: names some save was asked to remove
    ops, lost, lapses

vars == <<db, premium, tab, rq, act, dropped, ops, lost, lapses>>

Pack == Name \cup {None}
Row  == [catalog : SUBSET Name, weights : [set : BOOLEAN, keys : SUBSET Name],
         cards : [Card -> Pack], main : Pack]
Asked == [kind : Kinds \cup {"none"}, names : SUBSET Name, removed : SUBSET Name,
          added : SUBSET Name, old : Pack, new : Pack, card : SUBSET Card]

TypeOK ==
    /\ db \in Row /\ premium \in BOOLEAN
    /\ tab \in [Tab -> [names : SUBSET Name, cards : [Card -> Pack],
                        weights : SUBSET Name, list : SUBSET Name,
                        removed : SUBSET Name, added : SUBSET Name,
                        modal : {"none", "packs", "weights"}]]
    /\ rq \in [Tab -> [ask : Asked, stage : {"none", "sent", "read", "refused",
                                             "done"},
                       seen : Row, persisted : SUBSET Name, gated : BOOLEAN]]
    /\ act \in Asked /\ dropped \subseteq Name
    /\ ops \in 0..MaxOps /\ lost \in 0..MaxLost /\ lapses \in 0..MaxLapses

Nothing == [kind |-> "none", names |-> {}, removed |-> {}, added |-> {},
            old |-> None, new |-> None, card |-> {}]
Idle(row) == [ask |-> Nothing, stage |-> "none", seen |-> row,
              persisted |-> {}, gated |-> FALSE]
Blank == [catalog |-> {}, weights |-> [set |-> FALSE, keys |-> {}],
          cards |-> [c \in Card |-> None], main |-> None]
\* The page as the server renders it.
Loaded(row) == [names |-> row.catalog, cards |-> row.cards,
                weights |-> row.weights.keys, list |-> {}, removed |-> {},
                added |-> {}, modal |-> "none"]

Init ==
    /\ \E N \in SUBSET Name, f \in [Card -> Pack] :
         db = [Blank EXCEPT !.catalog = N, !.cards = f]
    /\ \A c \in Card : db.cards[c] \in db.catalog \cup {None}
    /\ premium = TRUE /\ tab = [t \in Tab |-> Loaded(db)]
    /\ rq = [t \in Tab |-> Idle(Blank)] /\ act = Nothing /\ dropped = {}
    /\ ops = 0 /\ lost = 0 /\ lapses = 0
-----------------------------------------------------------------------------
(* The page.  A request holds the controls of its tab until it is answered.*)

Free(t) == rq[t].stage = "none"

Reload(t) ==
    /\ Free(t) /\ tab[t] # Loaded(db)
    /\ tab' = [tab EXCEPT ![t] = Loaded(db)]
    /\ UNCHANGED <<db, premium, rq, act, dropped, ops, lost, lapses>>

(* The pack dialog starts from the names of the page.  So does the dialog  *)
(* of the drop rates, with the weights.                                    *)
Open(t, modal) ==
    /\ Free(t) /\ tab[t].modal = "none" /\ ops < MaxOps
    /\ tab' = [tab EXCEPT ![t].modal = modal, ![t].removed = {}, ![t].added = {},
                          ![t].list = IF modal = "packs" THEN tab[t].names
                                      ELSE tab[t].weights]
    /\ UNCHANGED <<db, premium, rq, act, dropped, ops, lost, lapses>>

Close(t) ==
    /\ Free(t) /\ tab[t].modal # "none"
    /\ tab' = [tab EXCEPT ![t].modal = "none", ![t].list = {},
                          ![t].removed = {}, ![t].added = {}]
    /\ UNCHANGED <<db, premium, rq, act, dropped, ops, lost, lapses>>

\* handleAdd and handleMakePackSpecific: only a name of the page has weights.
Add(t, n) ==
    /\ Free(t) /\ tab[t].modal # "none" /\ n \notin tab[t].list
    /\ tab[t].modal = "weights" => n \in tab[t].names
    /\ tab' = [tab EXCEPT ![t].list = @ \cup {n}, ![t].removed = @ \ {n},
                          ![t].added = @ \cup ({n} \ tab[t].removed)]
    /\ UNCHANGED <<db, premium, rq, act, dropped, ops, lost, lapses>>

\* handleRemove and handleRevertToInherit
Remove(t, n) ==
    /\ Free(t) /\ tab[t].modal # "none" /\ n \in tab[t].list
    /\ tab[t].modal = "weights" => n \in tab[t].names
    /\ tab' = [tab EXCEPT ![t].list = @ \ {n}, ![t].added = @ \ {n},
                          ![t].removed = @ \cup ({n} \ tab[t].added)]
    /\ UNCHANGED <<db, premium, rq, act, dropped, ops, lost, lapses>>

Send(t, ask) ==
    /\ Free(t) /\ ops < MaxOps /\ ops' = ops + 1 /\ ask.kind \in Kinds
    /\ rq' = [rq EXCEPT ![t].ask = ask, ![t].stage = "sent"]
    /\ UNCHANGED <<db, premium, tab, act, dropped, lost, lapses>>

\* handleSave of the dialog, saveRarityWeights
SaveNames(t) ==
    /\ tab[t].modal = "packs" /\ tab[t].list # tab[t].names
    /\ Send(t, [Nothing EXCEPT !.kind = "names", !.names = tab[t].list,
                               !.removed = tab[t].removed,
                               !.added = tab[t].added])
SaveWeights(t) ==
    /\ tab[t].modal = "weights" /\ tab[t].names # {}
    /\ Send(t, [Nothing EXCEPT !.kind = "weights", !.names = tab[t].list])
\* handleRenamePackSave: not while the list has unsaved changes
Rename(t, old, new) ==
    /\ tab[t].modal = "packs" /\ tab[t].list = tab[t].names
    /\ old \in tab[t].list /\ new \notin tab[t].list
    /\ Send(t, [Nothing EXCEPT !.kind = "rename", !.old = old, !.new = new])
\* The form of a card offers the registered names and the card's own.
SaveCard(t, c, n) ==
    /\ tab[t].modal = "none" /\ n \in tab[t].names \cup {None, tab[t].cards[c]}
    /\ Send(t, [Nothing EXCEPT !.kind = "card", !.card = {c}, !.new = n])
Bind(t, n) ==
    /\ tab[t].modal = "none" /\ n \in tab[t].names \cup {None}
    /\ Send(t, [Nothing EXCEPT !.kind = "bind", !.new = n])
-----------------------------------------------------------------------------
(* The routes.                                                             *)

\* isRegisteredOrUnchanged
RegisteredOrUnchanged(new, current, row) ==
    new \in {None, current} \cup row.catalog

\* checkCollectionHasActiveCards
HasCards(row, n) == \E c \in Card : row.cards[c] = n

\* The checks that each route makes on the row it has read.
Accepts(q, row) ==
    CASE q.kind = "weights" -> q.names \subseteq row.catalog
      [] q.kind = "rename"  -> q.old \in row.catalog /\ q.new \notin row.catalog
      [] q.kind = "card"    -> RegisteredOrUnchanged(q.new,
                                   row.cards[CHOOSE c \in q.card : TRUE], row)
      [] q.kind = "bind"    -> /\ RegisteredOrUnchanged(q.new, row.main, row)
                               /\ \/ q.new \in {None, row.main}
                                  \/ HasCards(row, q.new)
      [] OTHER              -> TRUE

\* isNewCardPackNameAdditionGated: on the basic plan only known names stay.
Persisted(q) == IF premium THEN q.names ELSE q.names \cap db.catalog

(* The route reads the row, the plan if something is new, and checks.      *)
Read(t) ==
    LET q == rq[t].ask
    IN  /\ rq[t].stage = "sent"
        /\ rq' = [rq EXCEPT ![t].seen = db,
                            ![t].stage = IF Accepts(q, db) THEN "read"
                                         ELSE "refused",
                            ![t].persisted = Persisted(q),
                            ![t].gated = Persisted(q) # q.names]
        /\ UNCHANGED <<db, premium, tab, act, dropped, ops, lost, lapses>>

(* The save of the names prunes the map of weights as it was read.         *)
WithNames(r) ==
    [db EXCEPT !.catalog = r.persisted,
               !.weights = IF r.seen.weights.set
                           THEN [set |-> TRUE,
                                 keys |-> r.seen.weights.keys \cap r.persisted]
                           ELSE @]

Moved(S, old, new) == IF old \in S THEN (S \ {old}) \cup {new} ELSE S
\* rename_card_pack, after its checks
Renamed(row, old, new) ==
    [row EXCEPT !.catalog = Moved(@, old, new),
                !.cards = [c \in Card |-> IF row.cards[c] = old THEN new
                                          ELSE row.cards[c]],
                !.main = IF @ = old THEN new ELSE @,
                !.weights.keys = Moved(@, old, new)]

\* The row after the write of a request that was accepted
Written(r) ==
    LET q == r.ask
    IN  CASE q.kind = "names"   -> WithNames(r)
          [] q.kind = "weights" -> [db EXCEPT !.weights = [set |-> TRUE,
                                                           keys |-> q.names]]
          [] q.kind = "rename"  -> Renamed(db, q.old, q.new)
          [] q.kind = "card"    -> [db EXCEPT !.cards = [c \in Card |->
                                      IF c \in q.card THEN q.new ELSE @[c]]]
          [] OTHER              -> [db EXCEPT !.main = q.new]

\* rename_card_pack locks the row and checks it again.
LooksAgain(q) == q.kind = "rename" => Accepts(q, db)

Write(t) ==
    LET r == rq[t]
        q == r.ask
    IN  /\ r.stage = "read"
        /\ IF LooksAgain(q)
           THEN /\ db' = Written(r) /\ act' = q
                /\ dropped' = dropped \cup q.removed
                /\ rq' = [rq EXCEPT ![t].stage = "done"]
           ELSE /\ rq' = [rq EXCEPT ![t].stage = "refused"]
                /\ UNCHANGED <<db, act, dropped>>
        /\ UNCHANGED <<premium, tab, ops, lost, lapses>>
-----------------------------------------------------------------------------
(* Mutant: the list of the page keeps the old name.                        *)
AnsweredCardsOnly(p, r) ==
    LET q == r.ask
    IN  CASE q.kind = "names" /\ ~r.gated ->
               [p EXCEPT !.names = r.persisted, !.modal = "none",
                         !.list = {}, !.removed = {}, !.added = {}]
          [] q.kind = "rename" ->
               [p EXCEPT !.cards = [c \in Card |-> IF p.cards[c] = q.old
                                                   THEN q.new ELSE p.cards[c]]]
          [] OTHER -> p
(* What the page does with a success: onSaved, onPackRenamed,              *)
(* onPackWeightsApply.  A save that was gated is shown in the dialog only. *)
Answered(p, r) ==
    LET q == r.ask
    IN  CASE q.kind = "names" ->
               IF r.gated THEN [p EXCEPT !.list = r.persisted]
               ELSE [p EXCEPT !.names = r.persisted, !.modal = "none",
                              !.list = {}, !.removed = {}, !.added = {}]
          [] q.kind = "rename" ->
               [p EXCEPT !.names = Moved(r.seen.catalog, q.old, q.new),
                         !.list = Moved(r.seen.catalog, q.old, q.new),
                         !.cards = [c \in Card |-> IF p.cards[c] = q.old
                                                   THEN q.new ELSE p.cards[c]]]
          [] q.kind = "weights" -> [p EXCEPT !.weights = q.names]
          [] q.kind = "card" ->
               [p EXCEPT !.cards = [c \in Card |-> IF c \in q.card THEN q.new
                                                   ELSE p.cards[c]]]
          [] OTHER -> p

Answer(t) ==
    /\ rq[t].stage \in {"done", "refused"}
    /\ tab' = [tab EXCEPT ![t] = IF rq[t].stage = "done"
                                 THEN Answered(@, rq[t]) ELSE @]
    /\ rq' = [rq EXCEPT ![t] = Idle(Blank)]
    /\ UNCHANGED <<db, premium, act, dropped, ops, lost, lapses>>

\* The answer is lost, or the request before it is handled.
Lose(t) ==
    /\ rq[t].stage \in {"sent", "done"} /\ lost < MaxLost /\ lost' = lost + 1
    /\ rq' = [rq EXCEPT ![t] = Idle(Blank)]
    /\ UNCHANGED <<db, premium, tab, act, dropped, ops, lapses>>

Lapse ==
    /\ premium /\ lapses < MaxLapses /\ lapses' = lapses + 1
    /\ premium' = FALSE
    /\ UNCHANGED <<db, tab, rq, act, dropped, ops, lost>>

Next ==
    \/ \E t \in Tab :
        \/ Reload(t) \/ Close(t) \/ Read(t) \/ Write(t) \/ Answer(t) \/ Lose(t)
        \/ Open(t, "packs") \/ Open(t, "weights")
        \/ SaveNames(t) \/ SaveWeights(t)
        \/ \E n \in Name : Add(t, n) \/ Remove(t, n)
        \/ \E old, new \in Name : Rename(t, old, new)
        \/ \E n \in Pack : Bind(t, n) \/ \E c \in Card : SaveCard(t, c, n)
    \/ Lapse

Spec == Init /\ [][Next]_vars
\* The same, when between a route's read and its write nothing happens.
Serial == (\E t \in Tab : rq[t].stage = "read")
             => premium' = premium /\ \A t \in Tab : rq'[t].stage = "read"
                                                   => rq[t].stage = "read"
-----------------------------------------------------------------------------
(* A name leaves the list, or comes to it, only when a streamer has asked  *)
(* for this: a save does not undo a rename or another save.                *)
AskedFor ==
    /\ db.catalog \ db'.catalog \subseteq act'.removed \cup {act'.old}
    /\ db'.catalog \ db.catalog \subseteq act'.added \cup {act'.new}

(* What names a pack, a card or the main reward, names a registered one,   *)
(* unless the streamer has removed that name.                              *)
NoOrphan ==
    \A n \in {db.cards[c] : c \in Card} \cup {db.main} :
        n \in db.catalog \cup dropped \cup {None}

(* A rename moves packs as a whole: two cards are in the same pack after   *)
(* it exactly when they were before.                                       *)
MovesWholePacks ==
    act'.kind = "rename" /\ db'.catalog # db.catalog =>
        \A c, d \in Card : (db'.cards[c] = db'.cards[d])
                             <=> (db.cards[c] = db.cards[d])

(* Weights are kept only for packs that are registered.                    *)
WeightsRegistered == db.weights.keys \subseteq db.catalog

(* On the basic plan the list of packs does not grow, whatever a page with *)
(* an old list or an old plan sends.                                       *)
NoGrowthOnBasic ==
    ~premium => Cardinality(db'.catalog) <= Cardinality(db.catalog)

(* A page alone shows what the server has, once its request is answered.   *)
PageFollows ==
    \A t \in Tab : Free(t) => tab[t].names = db.catalog /\ tab[t].cards = db.cards
=============================================================================
