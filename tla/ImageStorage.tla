---------------------------- MODULE ImageStorage ----------------------------
(***************************************************************************)
(* The card images of a streamer: the objects in R2, the rows of blob_files*)
(* that record them, the counter of storage_usage that the upload limit    *)
(* reads, and the cards that refer to them.  Open tabs of the dashboard    *)
(* upload, save and delete; the routes write the four places one after     *)
(* the other, each write may fail or a request may die between two, and    *)
(* most failures are only logged.  A file counts as one; the global        *)
(* counter, written by the same statement, is left out; images that are    *)
(* not in the own storage are no image.                                    *)
(***************************************************************************)
EXTENDS Integers, FiniteSets

CONSTANTS Card, Tab,          \* cards; open dashboards
          Limit,              \* files a plan allows
          MaxUploads,         \* bound on uploads
          MaxFaults           \* bound: failing writes, dying requests

(* An upload gets a fresh url (randomUUID): the next number.               *)
Url == 1..MaxUploads

VARIABLES object,             \* R2
          row,                \* blob_files
          used,               \* storage_usage.blob_count
          card,               \* cards.image_url, by card
          tab,                \* what a tab and its request are at
          halved,             \* history: cards whose deletion broke off
          spent,              \* history: number of urls given out
          faults

vars == <<object, row, used, card, tab, halved, spent, faults>>

NoImage  == 0                    \* no image, or one of another site
Gone  == -1                   \* no such card
Stage == {"idle", "form", "put", "record", "add", "send", "update",
          "select", "remove", "subtract", "erase", "drop"}
Idle  == [at |-> "idle", on |-> NoImage, url |-> NoImage, final |-> NoImage,
          old |-> NoImage, deletes |-> FALSE]

TypeOK ==
    /\ object \subseteq Url /\ row \subseteq Url /\ used \in Nat
    /\ card \in [Card -> Url \cup {NoImage, Gone}]
    /\ tab \in [Tab -> [at : Stage, on : Card \cup {NoImage},
                        url : Url \cup {NoImage}, final : Url \cup {NoImage},
                        old : Url \cup {NoImage}, deletes : BOOLEAN]]
    /\ halved \subseteq Card /\ spent \in 0..MaxUploads /\ faults \in 0..MaxFaults

Init ==
    /\ object = {} /\ row = {} /\ used = 0 /\ card = [c \in Card |-> Gone]
    /\ tab = [t \in Tab |-> Idle] /\ halved = {} /\ spent = 0 /\ faults = 0

Fault == faults < MaxFaults /\ faults' = faults + 1
Goto(t, stage) == tab' = [tab EXCEPT ![t].at = stage]
-----------------------------------------------------------------------------
(* The form of a tab.  What it shows may be older than the card by now.    *)
Open(t, c) ==
    /\ tab[t].at = "idle"
    /\ tab' = [tab EXCEPT ![t] = [Idle EXCEPT !.at = "form", !.on = c,
                 !.url = IF card[c] = Gone THEN NoImage ELSE card[c]]]
    /\ UNCHANGED <<object, row, used, card, halved, spent, faults>>

ClearImage(t) ==
    /\ tab[t].at = "form" /\ tab' = [tab EXCEPT ![t].url = NoImage]
    /\ UNCHANGED <<object, row, used, card, halved, spent, faults>>

Cancel(t) ==
    /\ tab[t].at = "form" /\ tab' = [tab EXCEPT ![t] = Idle]
    /\ UNCHANGED <<object, row, used, card, halved, spent, faults>>

SubmitWithoutFile(t) ==
    /\ tab[t].at = "form"
    /\ tab' = [tab EXCEPT ![t].at = "send", ![t].final = tab[t].url]
    /\ UNCHANGED <<object, row, used, card, halved, spent, faults>>

(* POST /api/upload.                                                       *)
LimitReached == used >= Limit

\* A counter that cannot be read blocks nobody.
SubmitFile(t) ==
    /\ tab[t].at = "form"
    /\ IF LimitReached THEN Fault ELSE UNCHANGED faults
    /\ Goto(t, "put")
    /\ UNCHANGED <<object, row, used, card, halved, spent>>

Put(t) ==
    /\ tab[t].at = "put" /\ spent < MaxUploads
    /\ spent' = spent + 1 /\ object' = object \cup {spent'}
    /\ tab' = [tab EXCEPT ![t].at = "record", ![t].final = spent']
    /\ UNCHANGED <<row, used, card, halved, faults>>

PutFails(t) ==
    /\ tab[t].at = "put" /\ Fault /\ Goto(t, "form")
    /\ UNCHANGED <<object, row, used, card, halved, spent>>

Record(t) ==
    /\ tab[t].at = "record"
    /\ row' = row \cup {tab[t].final} /\ Goto(t, "add")
    /\ UNCHANGED <<object, used, card, halved, spent, faults>>

\* The file is kept and answered all the same.
RecordFails(t) ==
    /\ tab[t].at = "record" /\ Fault /\ Goto(t, "send")
    /\ UNCHANGED <<object, row, used, card, halved, spent>>

Add(t) ==
    /\ tab[t].at = "add" /\ used' = used + 1 /\ Goto(t, "send")
    /\ UNCHANGED <<object, row, card, halved, spent, faults>>

AddFails(t) ==
    /\ tab[t].at = "add" /\ Fault /\ Goto(t, "send")
    /\ UNCHANGED <<object, row, used, card, halved, spent>>
-----------------------------------------------------------------------------
(* POST and PUT /api/cards.  A refusal or a failure keeps the form open.   *)
Create(t) ==
    /\ tab[t].at = "send" /\ card[tab[t].on] = Gone
    /\ used <= Limit
    /\ card' = [card EXCEPT ![tab[t].on] = tab[t].final]
    /\ tab' = [tab EXCEPT ![t] = Idle]
    /\ UNCHANGED <<object, row, used, halved, spent, faults>>

\* The plan is exceeded, or the card is gone.
Refuse(t) ==
    /\ tab[t].at = "send" /\ card[tab[t].on] = Gone /\ Goto(t, "form")
    /\ UNCHANGED <<object, row, used, card, halved, spent, faults>>

ReadCard(t) ==
    /\ tab[t].at = "send" /\ card[tab[t].on] # Gone
    /\ tab' = [tab EXCEPT ![t].at = "update", ![t].old = card[tab[t].on]]
    /\ UNCHANGED <<object, row, used, card, halved, spent, faults>>

SaveFails(t) ==
    /\ tab[t].at \in {"send", "update"} /\ Fault /\ Goto(t, "form")
    /\ UNCHANGED <<object, row, used, card, halved, spent>>

Replaces(t) == tab[t].old \notin {NoImage, tab[t].final}

(* Mutant: the old image is removed whether or not it is replaced.         *)
UpdateRemoving(t) ==
    /\ tab[t].at = "update"
    /\ IF card[tab[t].on] = Gone
       THEN tab' = [tab EXCEPT ![t] = Idle] /\ UNCHANGED card
       ELSE /\ card' = [card EXCEPT ![tab[t].on] = tab[t].final]
            /\ IF tab[t].old # NoImage THEN Goto(t, "select")
               ELSE tab' = [tab EXCEPT ![t] = Idle]
    /\ UNCHANGED <<object, row, used, halved, spent, faults>>
Update(t) ==
    /\ tab[t].at = "update"
    /\ IF card[tab[t].on] = Gone
       THEN tab' = [tab EXCEPT ![t] = Idle] /\ UNCHANGED card
       ELSE /\ card' = [card EXCEPT ![tab[t].on] = tab[t].final]
            /\ IF Replaces(t) THEN Goto(t, "select")
               ELSE tab' = [tab EXCEPT ![t] = Idle]
    /\ UNCHANGED <<object, row, used, halved, spent, faults>>

(* DELETE /api/cards removes the image first.                              *)
Delete(t, c) ==
    /\ tab[t].at = "idle" /\ card[c] # Gone
    /\ tab' = [tab EXCEPT ![t] =
                 [Idle EXCEPT !.on = c, !.old = card[c], !.deletes = TRUE,
                    !.at = IF card[c] = NoImage THEN "drop" ELSE "select"]]
    /\ UNCHANGED <<object, row, used, card, halved, spent, faults>>

Drop(t) ==
    /\ tab[t].at = "drop"
    /\ card' = [card EXCEPT ![tab[t].on] = Gone]
    /\ halved' = halved \ {tab[t].on}
    /\ tab' = [tab EXCEPT ![t] = Idle]
    /\ UNCHANGED <<object, row, used, spent, faults>>

DropFails(t) ==
    /\ tab[t].at = "drop" /\ Fault
    /\ halved' = halved \cup {tab[t].on} /\ tab' = [tab EXCEPT ![t] = Idle]
    /\ UNCHANGED <<object, row, used, card, spent>>
-----------------------------------------------------------------------------
(* deleteOwnedStorageImage, removeBlobFile: what fails is logged.          *)
Select(t) ==
    /\ tab[t].at = "select"
    /\ Goto(t, IF tab[t].old \in row THEN "remove" ELSE "erase")
    /\ UNCHANGED <<object, row, used, card, halved, spent, faults>>

\* The row may be gone by now: nobody counts the deleted rows.
Remove(t) ==
    /\ tab[t].at = "remove"
    /\ row' = row \ {tab[t].old} /\ Goto(t, "subtract")
    /\ UNCHANGED <<object, used, card, halved, spent, faults>>

RemoveFails(t) ==
    /\ tab[t].at \in {"select", "remove"} /\ Fault /\ Goto(t, "erase")
    /\ UNCHANGED <<object, row, used, card, halved, spent>>

Subtract(t) ==
    /\ tab[t].at = "subtract"
    /\ used' = (IF used = 0 THEN 0 ELSE used - 1) /\ Goto(t, "erase")
    /\ UNCHANGED <<object, row, card, halved, spent, faults>>

SubtractFails(t) ==
    /\ tab[t].at = "subtract" /\ Fault /\ Goto(t, "erase")
    /\ UNCHANGED <<object, row, used, card, halved, spent>>

Erased(t) == IF tab[t].deletes THEN Goto(t, "drop")
             ELSE tab' = [tab EXCEPT ![t] = Idle]

Erase(t) ==
    /\ tab[t].at = "erase"
    /\ object' = object \ {tab[t].old} /\ Erased(t)
    /\ UNCHANGED <<row, used, card, halved, spent, faults>>

EraseFails(t) ==
    /\ tab[t].at = "erase" /\ Fault /\ Erased(t)
    /\ UNCHANGED <<object, row, used, card, halved, spent>>

\* The request dies, or the tab is closed.
Die(t) ==
    /\ tab[t].at \notin {"idle", "form"} /\ Fault
    /\ halved' = IF tab[t].deletes THEN halved \cup {tab[t].on} ELSE halved
    /\ tab' = [tab EXCEPT ![t] = Idle]
    /\ UNCHANGED <<object, row, used, card, spent>>

Next ==
    \E t \in Tab :
      \/ \E c \in Card : Open(t, c) \/ Delete(t, c)
      \/ Put(t) \/ ClearImage(t) \/ Cancel(t) \/ SubmitWithoutFile(t) \/ SubmitFile(t)
      \/ PutFails(t) \/ Record(t) \/ RecordFails(t) \/ Add(t) \/ AddFails(t)
      \/ Create(t) \/ Refuse(t) \/ ReadCard(t) \/ SaveFails(t) \/ Update(t)
      \/ Drop(t) \/ DropFails(t) \/ Select(t) \/ Remove(t) \/ RemoveFails(t)
      \/ Subtract(t) \/ SubtractFails(t) \/ Erase(t) \/ EraseFails(t)
      \/ Die(t)

Spec == Init /\ [][Next]_vars

-----------------------------------------------------------------------------
Quiet == \A t \in Tab : tab[t].at \in {"idle", "form"}

(* The files of a streamer exceed the plan by what is uploaded at the same *)
(* time, and by one for every write that failed: the counter that gates    *)
(* the uploads does not lose files otherwise.  Files whose card was never  *)
(* saved count like the others (POST /api/upload, update_storage_usage).   *)
FilesBounded == Cardinality(object) <= Limit - 1 + Cardinality(Tab) + faults

(* A card shows an image that exists, unless a deletion of the card broke  *)
(* off after its image was removed (DELETE and PUT /api/cards/[id]).       *)
ImageExists ==
    Quiet => \A c \in Card \ halved : card[c] \in object \cup {NoImage, Gone}

(* Table and bucket agree, whatever the tabs do at the same time, as long  *)
(* as nothing fails: a row is removed before its object and recorded after.*)
TableFollowsBucket ==
    faults = 0 => row \subseteq object /\ (Quiet => object = row)
=============================================================================
