----------------------------- MODULE TradeBoard -----------------------------
(***************************************************************************)
(* What accept_trade_offer promises: a trade is one atomic swap of two     *)
(* copies, an offer is completed or cancelled once, and a caller that has  *)
(* lost its answer gets it again.                                          *)
(*   owner    user_cards: who has a copy, None when it is not there        *)
(*   gone     cards whose definition was deleted                           *)
(*   status   of an offer; "none" before it is posted                      *)
(*   deal     of a completed offer: accepted_by_user_id,                   *)
(*            accepted_user_card_id and accepted_request_id                *)
(*   user, offer, request   the arguments of a caller's call               *)
(*   reply    the answer it has received to its last call                  *)
(***************************************************************************)
CONSTANTS
    User, Card, Offer, Request, Caller,
    Copy,       \* rows of user_cards, one per copy
    CardOf,     \* the card of a copy
    Offerer,    \* offerer_user_id
    Offered,    \* offered_user_card_id
    Wanted,     \* wanted_card_id
    None

VARIABLES owner, gone, status, deal, user, offer, request, reply

tables    == <<owner, gone, status, deal>>
calls     == <<user, offer, request, reply>>
boardVars == <<owner, gone, status, deal, user, offer, request, reply>>

Status == {"none", "open", "completed", "cancelled"}
Reply  == {"none", "traded", "invalid", "refused"}
Deal   == [by : User, paid : Copy, request : Request]

Init ==
    /\ owner   = [c \in Copy |-> None]
    /\ gone    = {}
    /\ status  = [o \in Offer |-> "none"]
    /\ deal    = [o \in Offer |-> None]
    /\ user    = [t \in Caller |-> None]
    /\ offer   = [t \in Caller |-> None]
    /\ request = [t \in Caller |-> None]
    /\ reply   = [t \in Caller |-> "none"]

(* The two cards of an offer still exist as definitions.                   *)
Defined(o) == CardOf[Offered[o]] \notin gone /\ Wanted[o] \notin gone

(* Request r of user u completed the offer.                                *)
Settled(o, u, r) ==
    status[o] = "completed" /\ deal[o].by = u /\ deal[o].request = r

(* User u asks, with request r, to accept offer o.                         *)
Ask(t, u, o, r) ==
    /\ offer[t] = None
    /\ user'    = [user EXCEPT ![t] = u]
    /\ offer'   = [offer EXCEPT ![t] = o]
    /\ request' = [request EXCEPT ![t] = r]
    /\ reply'   = [reply EXCEPT ![t] = "none"]
    /\ UNCHANGED tables

Answer(t, answer) ==
    /\ user'    = [user EXCEPT ![t] = None]
    /\ offer'   = [offer EXCEPT ![t] = None]
    /\ request' = [request EXCEPT ![t] = None]
    /\ reply'   = [reply EXCEPT ![t] = answer]

(* The user pays with copy c and gets the offered copy.                    *)
Trade(t, o, c) ==
    /\ offer[t] = o /\ status[o] = "open" /\ user[t] # Offerer[o] /\ Defined(o)
    /\ owner[Offered[o]] = Offerer[o]
    /\ owner[c] = user[t] /\ CardOf[c] = Wanted[o]
    /\ owner'  = [owner EXCEPT ![c] = Offerer[o], ![Offered[o]] = user[t]]
    /\ status' = [status EXCEPT ![o] = "completed"]
    /\ deal'   = [deal EXCEPT ![o] = [by |-> user[t], paid |-> c,
                                      request |-> request[t]]]
    /\ Answer(t, "traded")
    /\ UNCHANGED gone

(* The request is repeated.                                                *)
Replay(t, o) ==
    /\ offer[t] = o /\ Settled(o, user[t], request[t])
    /\ Answer(t, "traded")
    /\ UNCHANGED tables

(* The offered copy, or the definition of a card, is not there any more.   *)
Void(t, o) ==
    /\ offer[t] = o /\ status[o] = "open" /\ user[t] # Offerer[o]
    /\ owner[Offered[o]] # Offerer[o] \/ ~Defined(o)
    /\ status' = [status EXCEPT ![o] = "cancelled"]
    /\ Answer(t, "invalid")
    /\ UNCHANGED <<owner, gone, deal>>

(* Not open, own offer, trading disabled, or nothing to pay with.          *)
Refuse(t, o) ==
    /\ offer[t] = o /\ ~Settled(o, user[t], request[t])
    /\ Answer(t, "refused")
    /\ UNCHANGED tables

(* A call that changes nothing, or whose answer does not arrive.           *)
Lose(t) ==
    /\ offer[t] # None
    /\ Answer(t, "none")
    /\ UNCHANGED tables

(* The offerer posts and withdraws offers; one open offer per copy.        *)
Post(o) ==
    /\ status[o] = "none" /\ Defined(o)
    /\ owner[Offered[o]] = Offerer[o]
    /\ \A p \in Offer : status[p] = "open" => Offered[p] # Offered[o]
    /\ status' = [status EXCEPT ![o] = "open"]
    /\ UNCHANGED <<owner, gone, deal, calls>>

Withdraw(o) ==
    /\ status[o] = "open"
    /\ status' = [status EXCEPT ![o] = "cancelled"]
    /\ UNCHANGED <<owner, gone, deal, calls>>

(* A draw inserts a copy.                                                  *)
Obtain(u, c) ==
    /\ owner[c] = None /\ CardOf[c] \notin gone
    /\ owner' = [owner EXCEPT ![c] = u]
    /\ UNCHANGED <<gone, status, deal, calls>>

(* A streamer deletes a card, and with it its copies; the offers keep a    *)
(* NULL in its place.                                                      *)
Delete(k) ==
    /\ k \notin gone
    /\ gone'  = gone \cup {k}
    /\ owner' = [c \in Copy |-> IF CardOf[c] = k THEN None ELSE owner[c]]
    /\ UNCHANGED <<status, deal, calls>>

Accept(t) ==
    \/ \E u \in User, o \in Offer, r \in Request : Ask(t, u, o, r)
    \/ \E o \in Offer :
          (\E c \in Copy : Trade(t, o, c)) \/ Replay(t, o) \/ Void(t, o) \/ Refuse(t, o)
    \/ Lose(t)

Next ==
    \/ \E t \in Caller : Accept(t)
    \/ \E o \in Offer : Post(o) \/ Withdraw(o)
    \/ \E u \in User, c \in Copy : Obtain(u, c)
    \/ \E k \in Card : Delete(k)

Spec == Init /\ [][Next]_boardVars
=============================================================================
