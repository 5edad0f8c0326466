------------------------------ MODULE CardList -------------------------------
(***************************************************************************)
(* The page on which a streamer manages the cards, and the server it shows *)
(* a copy of.  The page changes its list before the answer (switching a    *)
(* card, deleting one) or with the rows an answer carries, and puts an     *)
(* older list back when a request fails.  Numbers are saved by many        *)
(* requests: first the changed ones are cleared, then set.                 *)
(***************************************************************************)
EXTENDS Integers, FiniteSets, Functions

CONSTANTS Card, Op,
          MaxNumber,              \* bound on card numbers
          Fault                   \* what may go wrong: "refused", "limited",
                                  \* "request", "reply"

VARIABLES row,                \* table cards
          list,               \* the page's list
          shown,              \* the filter of the last list read
          op,                 \* what the page is doing
          doubt               \* the page was told less than happened

vars == <<row, list, shown, op, doubt>>

Number == 0..MaxNumber        \* 0: none
Filter == {"all", "active", "inactive"}
Nothing == <<>>
Idle == [at |-> "idle", kind |-> "none", card |-> "none", body |-> Nothing,
         before |-> Nothing, clear |-> {}, set |-> {}, want |-> Nothing,
         got |-> Nothing, rows |-> Nothing, filter |-> "all",
         status |-> "ok", alone |-> TRUE]

Shown(c) == [active |-> row[c].active, number |-> row[c].number]
Here(c) == row[c].is = "here"
Fits(c, f) == Here(c) /\ (f = "all" \/ row[c].active = (f = "active"))
RowsOf(S) == [c \in S |-> Shown(c)]
Lists == UNION {[S -> [active : BOOLEAN, number : Number]] : S \in SUBSET Card}

TypeOK ==
    /\ row \in [Card -> [is : {"new", "here", "gone"}, active : BOOLEAN,
                         number : Number]]
    /\ {list} \cup {op[o].rows : o \in Op} \cup {op[o].before : o \in Op}
         \cup {op[o].got : o \in Op} \subseteq Lists
    /\ shown \in Filter /\ doubt \in BOOLEAN
    /\ \A o \in Op :
         /\ op[o].at \in {"idle", "sent", "done", "reply"}
         /\ op[o].clear \cup op[o].set \subseteq DOMAIN op[o].want
         /\ op[o].want # Nothing => op[o].kind = "numbers"

Init ==
    /\ \E S \in SUBSET Card :
         row = [c \in Card |-> [is |-> IF c \in S THEN "here" ELSE "new",
                                active |-> TRUE, number |-> 0]]
    /\ list = RowsOf({c \in Card : Here(c)}) /\ shown = "all"
    /\ op = [o \in Op |-> Idle] /\ doubt = FALSE

\* What l has, as rows have it where they do; and what either of two has.
Merge(l, rows) ==
    [c \in DOMAIN l |-> IF c \in DOMAIN rows THEN rows[c] ELSE l[c]]

Over(rows, l) ==
    [c \in DOMAIN rows \cup DOMAIN l |->
        IF c \in DOMAIN rows THEN rows[c] ELSE l[c]]

Busy(kinds) == \E o \in Op : op[o].at # "idle" /\ op[o].kind \in kinds
-----------------------------------------------------------------------------
(* What the user begins: a request is sent.                                *)
Send(o, k, c, b) ==
    /\ op[o].at = "idle"
    /\ op' = [op EXCEPT ![o] = [Idle EXCEPT !.at = "sent", !.kind = k,
                !.card = c, !.body = b, !.before = list]]
    /\ UNCHANGED <<row, shown, doubt>>

\* The list is changed before the answer.
Toggle(o, c) ==
    /\ c \in DOMAIN list
    /\ Send(o, "toggle", c, [active |-> ~list[c].active])
    /\ list' = [list EXCEPT ![c].active = ~@]

Delete(o, c) ==
    /\ c \in DOMAIN list /\ list' = Restrict(list, DOMAIN list \ {c})
    /\ Send(o, "delete", c, [is |-> "gone", active |-> FALSE, number |-> 0])

Edit(o, c, n) ==
    /\ c \in DOMAIN list /\ ~Busy({"edit", "create"})
    /\ Send(o, "edit", c, [number |-> n]) /\ UNCHANGED list

Create(o, c, n) ==
    /\ row[c].is = "new" /\ ~Busy({"edit", "create"})
    /\ Send(o, "create", c, [is |-> "here", active |-> TRUE, number |-> n])
    /\ UNCHANGED list

\* New weights, or a new batch of them: the answer carries the active rows.
Weights(o) == Send(o, "weights", "none", Nothing) /\ UNCHANGED list

Reload(o, f) ==
    /\ op[o].at = "idle"
    /\ op' = [op EXCEPT ![o] = [Idle EXCEPT !.at = "sent", !.kind = "reload",
                !.filter = f]]
    /\ UNCHANGED <<row, list, shown, doubt>>

-----------------------------------------------------------------------------
(* The numbers.  The rows of cards that lose their number are taken from   *)
(* the list as it was when the save began.                                 *)
Changed(draft) == {c \in DOMAIN list : list[c].number # draft[c]}

Distinct(draft) ==
    \A c, d \in DOMAIN draft : c # d /\ draft[c] # 0 => draft[c] # draft[d]

(* Mutant: the numbers are set without being cleared first.                *)
NothingToClear(draft) == {}
ToClear(draft) == {c \in Changed(draft) : list[c].number # 0}

\* The next requests of the save e: first all clearings.
Request(e, c, n) ==
    [e EXCEPT !.at = "sent", !.card = c, !.body = [number |-> n],
              !.clear = @ \ {c}, !.set = IF e.clear = {} THEN @ \ {c} ELSE @,
              !.rows = Nothing]

Following(e) ==
    IF e.clear # {} THEN {Request(e, c, 0) : c \in e.clear}
    ELSE {Request(e, c, e.want[c]) : c \in e.set}

SaveNumbers(o, draft) ==
    /\ op[o].at = "idle" /\ ~Busy({"numbers"})
    /\ Distinct(draft) /\ Changed(draft) # {}
    /\ LET set == {c \in Changed(draft) : draft[c] # 0} IN
       \E e \in Following([Idle EXCEPT !.kind = "numbers",
            !.before = list, !.clear = ToClear(draft), !.set = set,
            !.want = Restrict(draft, Changed(draft)),
            !.got = [c \in Changed(draft) \ set |->
                        [list[c] EXCEPT !.number = 0]]]) :
         op' = [op EXCEPT ![o] = e]
    /\ UNCHANGED <<row, list, shown, doubt>>
-----------------------------------------------------------------------------
(* The server.  Numbers are unique; what is gone cannot be changed.        *)
Free(c, n) ==
    n = 0 \/ \A d \in Card \ {c} : Here(d) => row[d].number # n

Accept(e) ==
    e.body # Nothing =>
        /\ row[e.card].is = IF e.kind = "create" THEN "new" ELSE "here"
        /\ "number" \in DOMAIN e.body => Free(e.card, e.body.number)

Commit(o) ==
    LET e == op[o] IN
    /\ e.at = "sent" /\ Accept(e)
    /\ row' = [c \in Card |-> IF c = e.card THEN Merge(row[c], e.body) ELSE row[c]]
    /\ op' = [p \in Op |->
                IF p # o THEN [op[p] EXCEPT !.alone = @ /\ e.body = Nothing]
                ELSE [e EXCEPT !.at = "done",
                        !.alone = @ \/ e.kind = "reload",
                        !.rows = IF e.kind \in {"toggle", "edit", "create",
                                                "numbers"}
                                 THEN [c \in {e.card} |-> [active |-> row'[c].active,
                                                     number |-> row'[c].number]]
                                 ELSE Nothing]]
    /\ UNCHANGED <<list, shown, doubt>>

Refuse(o) ==
    /\ op[o].at = "sent"
    /\ \E s \in (Fault \cap {"refused", "limited"})
                \cup IF Accept(op[o]) THEN {} ELSE {"refused"} :
         op' = [op EXCEPT ![o].at = "reply", ![o].status = s]
    /\ UNCHANGED <<row, list, shown, doubt>>

\* The answer: the own row, and the active rows if rates were computed.
Read(o) ==
    /\ op[o].at = "done"
    /\ \E S \in CASE op[o].kind = "reload" ->
                       {{c \in Card : Fits(c, op[o].filter)}}
                  [] op[o].kind = "numbers" -> {{}}
                  [] OTHER -> {{}, {c \in Card : Fits(c, "active")}} :
         op' = [op EXCEPT ![o].at = "reply", ![o].rows = Over(RowsOf(S), @)]
    /\ UNCHANGED <<row, list, shown, doubt>>

Lose(o) ==
    /\ \/ op[o].at = "sent" /\ "request" \in Fault /\ UNCHANGED doubt
       \/ /\ op[o].at = "done" /\ "reply" \in Fault
          /\ doubt' = (doubt \/ op[o].body # Nothing)
    /\ op' = [op EXCEPT ![o].at = "reply", ![o].status = "lost"]
    /\ UNCHANGED <<row, list, shown>>
-----------------------------------------------------------------------------
(* The answer arrives.                                                     *)
Answered(o, kinds) == op[o].at = "reply" /\ op[o].status = "ok"
                      /\ op[o].kind \in kinds

Finish(o) == op' = [op EXCEPT ![o] = Idle]

Replace(o) ==
    /\ Answered(o, {"toggle", "edit", "delete", "weights"}) /\ Finish(o)
    /\ list' = Merge(list, op[o].rows)
    /\ UNCHANGED <<row, shown, doubt>>

Add(o) ==
    /\ Answered(o, {"create"}) /\ Finish(o)
    /\ list' = Merge(Over([c \in {op[o].card} |-> op[o].rows[c]], list),
                     op[o].rows)
    /\ UNCHANGED <<row, shown, doubt>>

Load(o) ==
    /\ Answered(o, {"reload"}) /\ Finish(o)
    /\ list' = op[o].rows /\ shown' = op[o].filter
    /\ doubt' = FALSE /\ UNCHANGED row

\* The rows that came for a number that was set are kept until the end.
Kept(e) == IF e.body.number = 0 THEN e.got ELSE Over(e.rows, e.got)

Continue(o) ==
    /\ Answered(o, {"numbers"})
    /\ LET e == [op[o] EXCEPT !.got = Kept(op[o])] IN
       IF Following(e) = {}
       THEN Finish(o) /\ list' = Merge(list, e.got)
       ELSE UNCHANGED list /\ \E f \in Following(e) : op' = [op EXCEPT ![o] = f]
    /\ UNCHANGED <<row, shown, doubt>>

(* Mutant: a deletion that failed leaves the list without the card.        *)
NotRestored(o) == op[o].kind = "toggle"
Restored(o) ==
    \/ op[o].kind = "toggle"
    \/ op[o].kind = "delete" /\ op[o].status # "limited"

Fail(o) ==
    /\ op[o].at = "reply" /\ op[o].status # "ok" /\ Finish(o)
    /\ list' = IF Restored(o) THEN op[o].before ELSE list
    /\ doubt' = (doubt \/ op[o].kind = "numbers")
    /\ UNCHANGED <<row, shown>>
-----------------------------------------------------------------------------
Use(o) ==
    \/ \E c \in Card : Toggle(o, c) \/ Delete(o, c)
    \/ \E c \in Card, n \in Number : Edit(o, c, n) \/ Create(o, c, n)
    \/ \E draft \in [DOMAIN list -> Number] : SaveNumbers(o, draft)
    \/ Weights(o) \/ \E f \in Filter : Reload(o, f)

Serve(o) == Commit(o) \/ Refuse(o) \/ Read(o) \/ Lose(o)

Answer(o) == Replace(o) \/ Add(o) \/ Load(o) \/ Continue(o) \/ Fail(o)

Next == \E o \in Op : Use(o) \/ Serve(o) \/ Answer(o)

Spec == Init /\ [][Next]_vars
-----------------------------------------------------------------------------
(* With nothing under way, the list is what the server has, unless the     *)
(* page was told less than happened: an answer was lost, or a save of the  *)
(* numbers stopped on its way.                                             *)
ListFollowsServer ==
    (\A o \in Op : op[o].at = "idle") /\ ~doubt =>
        /\ \A c \in DOMAIN list : Here(c) /\ list[c] = Shown(c)
        /\ \A c \in Card : Fits(c, shown) => c \in DOMAIN list

(* A save of the numbers that succeeded, with no other change on the       *)
(* server meanwhile, has given every card the number that was asked for,   *)
(* also where the page's own list was wrong.                               *)
SavesNumbers ==
    \A o \in Op :
        op[o].kind = "numbers" /\ op[o].status = "ok" /\ op[o].alone
        /\ op'[o].at = "idle" =>
            \A c \in DOMAIN op[o].want : row[c].number = op[o].want[c]

(* A save that no other change comes between is never refused for a number *)
(* that the page itself shows, at the card that holds it: such a card is   *)
(* about to be changed and was cleared first.                              *)
NoSelfConflict ==
    \A o \in Op :
        op[o].at = "sent" /\ op[o].kind = "numbers" /\ op[o].alone
        /\ op[o].body.number # 0 =>
            \A d \in DOMAIN op[o].before \ {op[o].card} :
                Here(d) /\ op[o].before[d].number = op[o].body.number =>
                    row[d].number # op[o].body.number

(* A reload that no change came between makes the list the server's,       *)
(* whatever requests of the page are still under way.                      *)
RepairsList ==
    \A o \in Op :
        op[o].kind = "reload" /\ op[o].status = "ok" /\ op[o].alone
        /\ op[o].at = "reply" /\ op'[o].at = "idle" =>
            list' = RowsOf({c \in Card : Fits(c, op[o].filter)})
=============================================================================
