--------------------------- MODULE Services_proofs ---------------------------
(***************************************************************************)
(* Proofs about the services around the draws, for any number of users,    *)
(* invocations and faults: the subscription that decides the plan          *)
(* (SubCheck) and the support codes (SupportCodes), the drain of the       *)
(* parked notifications (ParkDrain), the counts of the cards a user owns   *)
(* (UsageStats), the reports of errors and inquiries (ErrorReporter), and  *)
(* the display of the overlay page (DisplayQueue).                         *)
(***************************************************************************)
EXTENDS Naturals, Sequences, FiniteSets, TLAPS, WellFoundedInduction,
        FiniteSetTheorems, SequenceTheorems

CONSTANTS Page, Tab, MaxSubChanges, MaxOff, Faults,              \* SubCheck
          User, Code, Call, PlanOf, MaxStatusChanges,            \* SupportCodes
          Limit, MaxEntries, MaxOdd, MaxSwitch, MaxSlow, MaxFaults, \* ParkDrain
          Row, Session,                                          \* UsageStats
          Sig, Inquiry, Backlog, Run, ErrorLimit, InquiryLimit,  \* ErrorReporter
          MaxNew, MaxRows, MaxClosed, MaxFull, MaxFailures,
          Batch, Size, Version, MaxRecords, MaxThrows, MaxMoves, MaxLapses \* DisplayQueue

VARIABLES row, page, tab, sub, used, wish, past,
          codes, licenses, call, changes,
          kv, parked, fate, done, aged, mode, request, due, cut, switches,
          slow, faults, owner, stat, tx,
          tables, issue, run, over, missed, failures,
          screen, records, left, came, shown, gone, reloads, throws, lapses

Checks  == INSTANCE SubCheck WITH MaxChanges <- MaxSubChanges
Codes   == INSTANCE SupportCodes WITH MaxChanges <- MaxStatusChanges
Drain   == INSTANCE ParkDrain WITH call <- request
Stats   == INSTANCE UsageStats
Report  == INSTANCE ErrorReporter WITH MaxFaults <- MaxFailures,
            row <- tables, faults <- failures
Display == INSTANCE DisplayQueue WITH p <- screen, MaxSwitches <- MaxMoves

-----------------------------------------------------------------------------
(* The subscription.                                                       *)
Bounds == MaxSubChanges \in Nat /\ MaxOff \in Nat

Waiting == [at : {"idle", "asking", "saving"}, answer : Checks!Answer]
Asking == [at : {"idle", "asking", "saving", "told"}, answer : Checks!Answer,
           seen : BOOLEAN, had : BOOLEAN]
RowType == [has : BOOLEAN, stamp : Checks!Stamp, scope : BOOLEAN]
PastType == [known : BOOLEAN, refused : BOOLEAN]

Types == /\ row \in RowType /\ past \in PastType
         /\ page \in [Page -> Asking] /\ tab \in [Tab -> Waiting]
         /\ used \in [changes : 0..MaxSubChanges, off : 0..MaxOff]
         /\ sub \in BOOLEAN /\ wish \in {"any", "off"}

(* What is written of an answer.                                           *)
LEMMA AnswerTypes ==
    ASSUME Types, NEW a \in Checks!Answer
    PROVE  /\ Checks!Cached(a) \in RowType /\ Checks!Answered(a) \in RowType
           /\ Checks!Cached(a).scope = row.scope
           /\ a # "no" => /\ row.has => Checks!Cached(a).has /\ Checks!Answered(a).has
                          /\ a = "yes" => Checks!Cached(a).has /\ Checks!Answered(a).has
           /\ a # "unauthorized" => Checks!Answered(a).scope = row.scope
<1>1. PICK r \in RowType : r = row
  BY DEF Types
<1>2. PICK h \in BOOLEAN : h = (a = "yes")
  OBVIOUS
<1>3. PICK d : d = [r EXCEPT !.has = h, !.stamp = "fresh"]
  OBVIOUS
<1>4. d \in RowType /\ d.scope = r.scope /\ d.has = h
  BY <1>3 DEF RowType, Checks!Stamp
<1>5. PICK e : e = [r EXCEPT !.stamp = "error"]
  OBVIOUS
<1>6. e \in RowType /\ e.scope = r.scope /\ e.has = r.has
  BY <1>5 DEF RowType, Checks!Stamp
<1>7. PICK n : n = [r EXCEPT !.scope = FALSE]
  OBVIOUS
<1>8. n \in RowType /\ n.has = r.has
  BY <1>7 DEF RowType
<1>9. /\ a \in {"yes", "no"} => Checks!Cached(a) = d /\ Checks!Answered(a) = d
      /\ a \notin {"yes", "no"} => Checks!Cached(a) = e
      /\ a = "unauthorized" => Checks!Answered(a) = n
      /\ a = "unknown" => Checks!Answered(a) = r
  BY <1>1, <1>2, <1>3, <1>5, <1>7 DEF Checks!Cached, Checks!Answered, Checks!Decided
<1> QED
  BY <1>1, <1>2, <1>4, <1>6, <1>8, <1>9 DEF Checks!Answer

LEMMA StoredIs ==
    ASSUME Types, NEW a \in Checks!Answer, Checks!Stored(a)
    PROVE  /\ past' \in PastType /\ past'.refused = past.refused
           /\ a \in {"yes", "no"} => (past'.known <=> a = "yes")
           /\ a \notin {"yes", "no"} => past'.known = past.known
<1>1. PICK q \in PastType : q = past
  BY DEF Types
<1>2. PICK k \in BOOLEAN : k = IF a \in {"yes", "no"} THEN a = "yes" ELSE q.known
  BY DEF PastType
<1>3. past' = [q EXCEPT !.known = k]
  BY <1>1, <1>2 DEF Checks!Stored, Checks!Decided
<1> QED
  BY <1>1, <1>2, <1>3 DEF PastType

(* One page, or one tab, goes on; the others stay.                         *)
PageIs(p, r) == /\ page' \in [Page -> Asking] /\ page'[p] = r
                /\ \A q \in Page \ {p} : page'[q] = page[q]
TabIs(t, r) == /\ tab' \in [Tab -> Waiting] /\ tab'[t] = r
               /\ \A q \in Tab \ {t} : tab'[q] = tab[q]

LEMMA ReadIs ==
    ASSUME Types, NEW p \in Page, Checks!Read(p)
    PROVE  \E r \in Asking :
             /\ PageIs(p, r) /\ (r.had <=> past.known /\ ~past.refused) /\ r.seen = row.has
             /\ \/ r.at = "asking" /\ row.stamp # "off"
                \/ r.at = "told" /\ (row.scope /\ row.has => r.answer = "yes")
<1>1. PICK h \in BOOLEAN : h = (past.known /\ ~past.refused)
  OBVIOUS
<1>2. PICK g \in BOOLEAN : g = (row.scope /\ row.has)
  OBVIOUS
<1>3. PICK ask \in BOOLEAN : ask = (row.scope /\ ~Checks!Holds(row.stamp))
  OBVIOUS
<1>4. PICK r : r = [at |-> IF ask THEN "asking" ELSE "told",
                    answer |-> IF ask THEN "unknown" ELSE Checks!Told(g),
                    seen |-> row.has, had |-> h]
  OBVIOUS
<1>5. /\ r \in Asking /\ r.had = h /\ r.seen = row.has
      /\ ask => r.at = "asking"
      /\ ~ask => r.at = "told" /\ (g => r.answer = "yes")
  BY <1>4 DEF Asking, Types, RowType, Checks!Told, Checks!Answer
<1>6. page' = [page EXCEPT ![p] = r]
  BY <1>1, <1>2, <1>3, <1>4 DEF Checks!Read
<1>7. PageIs(p, r)
  BY <1>5, <1>6 DEF PageIs, Types
<1>8. ask => row.stamp # "off"
  BY <1>3 DEF Checks!Holds
<1> QED
  BY <1>1, <1>2, <1>5, <1>7, <1>8

LEMMA ReadFailsIs ==
    ASSUME Types, NEW p \in Page, Checks!ReadFails(p)
    PROVE  \E r \in Asking : PageIs(p, r) /\ r.at = "told" /\ ~r.had
<1>1. PICK r : r = [Checks!Untold EXCEPT !.at = "told", !.answer = "no"]
  OBVIOUS
<1>2. r \in Asking /\ r.at = "told" /\ ~r.had
  BY <1>1 DEF Checks!Untold, Asking, Checks!Answer
<1>3. page' = [page EXCEPT ![p] = r]
  BY <1>1 DEF Checks!ReadFails
<1> QED
  BY <1>2, <1>3 DEF PageIs, Types

LEMMA AskPageIs ==
    ASSUME Types, NEW p \in Page, Checks!AskForPage(p)
    PROVE  \E r \in Asking : /\ PageIs(p, r) /\ r.at = "saving"
                             /\ r.seen = page[p].seen /\ r.had = page[p].had
                             /\ (sub => r.answer # "no")
<1>1. PICK a \in Checks!Answers : page' = [page EXCEPT ![p].at = "saving", ![p].answer = a]
  BY DEF Checks!AskForPage
<1>2. a \in Checks!Answer /\ (sub => a # "no")
  BY DEF Checks!Answers, Checks!Answer
<1>3. PICK x \in Asking : x = page[p]
  BY DEF Types
<1>4. PICK r : r = [x EXCEPT !.at = "saving", !.answer = a]
  OBVIOUS
<1>5. r \in Asking /\ r.at = "saving" /\ r.answer = a /\ r.seen = x.seen /\ r.had = x.had
  BY <1>2, <1>4 DEF Asking
<1>6. page' = [page EXCEPT ![p] = r]
  BY <1>1, <1>3, <1>4
<1> QED
  BY <1>2, <1>3, <1>5, <1>6 DEF PageIs, Types

LEMMA SavePageIs ==
    ASSUME Types, NEW p \in Page, Checks!SaveForPage(p)
    PROVE  \E r \in Asking :
             /\ PageIs(p, r) /\ r.at = "told" /\ r.had = page[p].had
             /\ page[p].seen /\ page[p].answer # "no" => r.answer = "yes"
<1>1. PICK x \in Asking : x = page[p]
  BY DEF Types
<1>2. PICK a \in Checks!Answer :
        a = IF x.answer \in {"yes", "no"} THEN x.answer ELSE Checks!Told(x.seen)
  BY DEF Asking, Checks!Told, Checks!Answer
<1>3. PICK r : r = [x EXCEPT !.at = "told", !.answer = a]
  OBVIOUS
<1>4. r \in Asking /\ r.at = "told" /\ r.answer = a /\ r.had = x.had
  BY <1>3 DEF Asking
<1>5. page' = [page EXCEPT ![p] = r]
  BY <1>1, <1>2, <1>3 DEF Checks!SaveForPage, Checks!Decided
<1>6. x.seen /\ x.answer # "no" => a = "yes"
  BY <1>2 DEF Checks!Told
<1> QED
  BY <1>1, <1>4, <1>5, <1>6 DEF PageIs, Types

LEMMA TabMoves ==
    ASSUME Types, NEW t \in Tab, Checks!Check(t) \/ Checks!AskForTab(t) \/ Checks!SaveForTab(t)
    PROVE  \E r \in Waiting : TabIs(t, r) /\ (sub /\ r.at = "saving" => r.answer # "no")
<1>1. PICK x \in Waiting : x = tab[t]
  BY DEF Types
<1>2. CASE Checks!Check(t)
  <2>1. PICK r : r = [x EXCEPT !.at = "asking"]
    OBVIOUS
  <2>2. r \in Waiting /\ r.at = "asking"
    BY <2>1 DEF Waiting
  <2>3. tab' = [tab EXCEPT ![t] = r]
    BY <1>1, <1>2, <2>1 DEF Checks!Check
  <2> QED
    BY <2>2, <2>3 DEF TabIs, Types
<1>3. CASE Checks!AskForTab(t)
  <2>1. PICK a \in Checks!Answers : tab' = [tab EXCEPT ![t].at = "saving", ![t].answer = a]
    BY <1>3 DEF Checks!AskForTab
  <2>2. a \in Checks!Answer /\ (sub => a # "no")
    BY DEF Checks!Answers, Checks!Answer
  <2>3. PICK r : r = [x EXCEPT !.at = "saving", !.answer = a]
    OBVIOUS
  <2>4. r \in Waiting /\ r.answer = a
    BY <2>2, <2>3 DEF Waiting
  <2>5. tab' = [tab EXCEPT ![t] = r]
    BY <1>1, <2>1, <2>3
  <2> QED
    BY <2>2, <2>4, <2>5 DEF TabIs, Types
<1>4. CASE Checks!SaveForTab(t)
  <2>1. Checks!Idle \in Waiting /\ Checks!Idle.at = "idle"
    BY DEF Checks!Idle, Waiting, Checks!Answer
  <2>2. tab' = [tab EXCEPT ![t] = Checks!Idle]
    BY <1>4 DEF Checks!SaveForTab
  <2> QED
    BY <2>1, <2>2 DEF TabIs, Types
<1> QED
  BY <1>2, <1>3, <1>4

(* What the writers leave on record: a page's check leaves the scope, and  *)
(* no answer but a "no" takes the subscription away.                       *)
Wrote(a) ==
  /\ row' \in RowType /\ past' \in PastType
  /\ a # "no" => /\ (row.has => row'.has)
                 /\ (past'.known => past.known \/ row'.has)
  /\ (row'.scope = row.scope /\ past'.refused = past.refused) \/ past'.refused

LEMMA SavePageWrites ==
    ASSUME Types, NEW p \in Page, Checks!SaveForPage(p) PROVE Wrote(page[p].answer)
<1>1. PICK a \in Checks!Answer : a = page[p].answer
  BY DEF Types, Asking
<1>2. \/ row' = Checks!Cached(a) /\ Checks!Stored(a)
      \/ row' = row /\ past' = past
  BY <1>1 DEF Checks!SaveForPage
<1>3. CASE row' = row /\ past' = past
  BY <1>1, <1>3 DEF Wrote, Types
<1>4. CASE row' = Checks!Cached(a) /\ Checks!Stored(a)
  BY <1>1, <1>4, AnswerTypes, StoredIs DEF Wrote
<1> QED
  BY <1>2, <1>3, <1>4

LEMMA SaveTabWrites ==
    ASSUME Types, NEW t \in Tab, Checks!SaveForTab(t) PROVE Wrote(tab[t].answer)
<1>1. PICK a \in Checks!Answer : a = tab[t].answer
  BY DEF Types, Waiting
<1>2. \/ /\ row' = Checks!Answered(a)
         /\ IF a = "unauthorized" THEN past' = [past EXCEPT !.refused = TRUE] ELSE Checks!Stored(a)
      \/ row' = row /\ past' = past
  BY <1>1 DEF Checks!SaveForTab
<1>3. CASE row' = row /\ past' = past
  BY <1>1, <1>3 DEF Wrote, Types
<1>4. CASE row' = Checks!Answered(a) /\ a = "unauthorized"
           /\ past' = [past EXCEPT !.refused = TRUE]
  <2>1. past' \in PastType /\ past'.refused /\ past'.known = past.known
    BY <1>4 DEF Types, PastType
  <2> QED
    BY <1>1, <1>4, <2>1, AnswerTypes DEF Wrote
<1>5. CASE row' = Checks!Answered(a) /\ a # "unauthorized" /\ Checks!Stored(a)
  BY <1>1, <1>5, AnswerTypes, StoredIs DEF Wrote
<1> QED
  BY <1>2, <1>3, <1>4, <1>5

(* Types, for each of the actions.                                         *)
LEMMA CheckTypes ==
    ASSUME Bounds, Types, [Checks!Next]_Checks!vars
    PROVE  Types'
<1> USE DEF Bounds
<1>1. ASSUME NEW p \in Page, Checks!AtPage(p) PROVE Types'
  <2>1. page' \in [Page -> Asking]
    BY <1>1, ReadIs, ReadFailsIs, AskPageIs, SavePageIs DEF Checks!AtPage, PageIs
  <2>2. row' \in RowType /\ past' \in PastType
    BY <1>1, SavePageWrites DEF Checks!AtPage, Checks!Read, Checks!ReadFails,
       Checks!AskForPage, Types, Wrote
  <2> QED
    BY <1>1, <2>1, <2>2 DEF Checks!AtPage, Checks!Read, Checks!ReadFails,
       Checks!AskForPage, Checks!SaveForPage, Types
<1>2. ASSUME NEW t \in Tab, Checks!AtTab(t) PROVE Types'
  <2>1. CASE Checks!Disable(t)
    <3>1. row' \in RowType /\ past' \in PastType
      BY <2>1 DEF Checks!Disable, Checks!Stamp, Types, RowType, PastType
    <3>2. used' \in [changes : 0..MaxSubChanges, off : 0..MaxOff]
      BY <2>1 DEF Checks!Disable, Types
    <3> QED
      BY <2>1, <3>1, <3>2 DEF Checks!Disable, Types
  <2>2. CASE Checks!Check(t) \/ Checks!AskForTab(t)
    BY <2>2, TabMoves DEF Checks!Check, Checks!AskForTab, Types, TabIs
  <2>3. CASE Checks!SaveForTab(t)
    BY <2>3, TabMoves, SaveTabWrites DEF Checks!SaveForTab, Types, TabIs, Wrote
  <2> QED
    BY <1>2, <2>1, <2>2, <2>3 DEF Checks!AtTab
<1>3. CASE Checks!Reauthorize
  BY <1>3 DEF Checks!Reauthorize, Types, RowType, PastType
<1>4. CASE Checks!Age
  BY <1>4 DEF Checks!Age, Checks!Stamp, Types, RowType
<1>5. CASE Checks!SubChanges
  BY <1>5 DEF Checks!SubChanges, Types
<1>6. CASE UNCHANGED Checks!vars
  BY <1>6 DEF Checks!vars, Types
<1> QED
  BY <1>1, <1>2, <1>3, <1>4, <1>5, <1>6 DEF Checks!Next

LEMMA CheckInit ==
    ASSUME Bounds, Checks!Init
    PROVE  /\ Types /\ ~past.known /\ row.scope
           /\ \A p \in Page : page[p].at = "idle" /\ ~page[p].had
           /\ \A t \in Tab : tab[t].at = "idle"
<1>1. Checks!Untold \in Asking /\ Checks!Untold.at = "idle" /\ ~Checks!Untold.had
  BY DEF Checks!Untold, Asking, Checks!Answer
<1>2. Checks!Idle \in Waiting /\ Checks!Idle.at = "idle"
  BY DEF Checks!Idle, Waiting, Checks!Answer
<1>3. row \in RowType /\ row.scope /\ past \in PastType /\ ~past.known
  BY DEF Checks!Init, RowType, PastType, Checks!Stamp
<1>4. used \in [changes : 0..MaxSubChanges, off : 0..MaxOff]
  BY DEF Checks!Init, Bounds
<1> QED
  BY <1>1, <1>2, <1>3, <1>4 DEF Checks!Init, Types

(* Once switched off nobody has an answer to write, and no page asks for   *)
(* one: the stamp of the switch holds.                                     *)
Off == Checks!DisableHolds /\ (wish = "off" => Checks!NobodyChecks)

LEMMA OffStays ==
    ASSUME Types, Off, [Checks!CalmNext]_Checks!vars PROVE Off'
<1>1. ASSUME NEW p \in Page, Checks!AtPage(p) PROVE Off'
  <2>1. CASE Checks!Read(p) \/ Checks!ReadFails(p)
    <3>1. row' = row /\ wish' = wish /\ tab' = tab
      BY <2>1 DEF Checks!Read, Checks!ReadFails
    <3>2. wish = "off" => \E r \in Asking : PageIs(p, r) /\ r.at = "told"
      BY <2>1, ReadIs, ReadFailsIs DEF Off, Checks!DisableHolds
    <3> QED
      BY <3>1, <3>2 DEF Off, Checks!DisableHolds, Checks!NobodyChecks, PageIs
  <2>2. CASE Checks!AskForPage(p) \/ Checks!SaveForPage(p)
    BY <2>2 DEF Checks!AskForPage, Checks!SaveForPage, Off, Checks!DisableHolds,
       Checks!NobodyChecks
  <2> QED
    BY <1>1, <2>1, <2>2 DEF Checks!AtPage
<1>2. ASSUME NEW t \in Tab, Checks!AtTab(t), Checks!CalmNext PROVE Off'
  <2>1. CASE Checks!Check(t)
    BY <2>1 DEF Checks!Check, Off, Checks!DisableHolds
  <2>2. CASE Checks!AskForTab(t)
    BY <2>2 DEF Checks!AskForTab, Off, Checks!DisableHolds, Checks!NobodyChecks
  <2>3. CASE Checks!SaveForTab(t)
    BY <2>3 DEF Checks!SaveForTab, Off, Checks!DisableHolds, Checks!NobodyChecks
  <2>4. CASE Checks!Disable(t)
    <3>1. used'.off > used.off
      BY <2>4 DEF Checks!Disable, Types
    <3>2. Checks!NobodyChecks
      BY <1>2, <3>1 DEF Checks!CalmNext
    <3>3. ~row'.has /\ row'.stamp = "off"
      BY <2>4 DEF Checks!Disable, Types, RowType
    <3> QED
      BY <2>4, <3>2, <3>3 DEF Checks!Disable, Off, Checks!DisableHolds, Checks!NobodyChecks
  <2> QED
    BY <1>2, <2>1, <2>2, <2>3, <2>4 DEF Checks!AtTab
<1>3. CASE Checks!Reauthorize
  BY <1>3 DEF Checks!Reauthorize, Off, Checks!DisableHolds, Checks!NobodyChecks, Types, RowType
<1>4. CASE Checks!Age
  BY <1>4 DEF Checks!Age, Off, Checks!DisableHolds, Checks!NobodyChecks
<1>5. CASE Checks!SubChanges
  BY <1>5 DEF Checks!SubChanges, Off, Checks!DisableHolds, Checks!NobodyChecks
<1>6. CASE UNCHANGED Checks!vars
  BY <1>6 DEF Checks!vars, Off, Checks!DisableHolds, Checks!NobodyChecks
<1> QED
  BY <1>1, <1>2, <1>3, <1>4, <1>5, <1>6 DEF Checks!Next, Checks!CalmNext

(* Once a user has switched the subscription off it counts for nothing     *)
(* until the user checks again, provided that the switch is used while     *)
(* nobody checks (disable-subscription/route.ts, sub-check.ts).            *)
THEOREM SwitchHolds ==
    ASSUME Bounds
    PROVE  Checks!Init /\ [][Checks!CalmNext]_Checks!vars => []Checks!DisableHolds
<1>1. Checks!Init => Types /\ Off
  BY CheckInit DEF Checks!Init, Off, Checks!DisableHolds
<1>2. Types /\ Off /\ [Checks!CalmNext]_Checks!vars => Types' /\ Off'
  <2>1. [Checks!CalmNext]_Checks!vars => [Checks!Next]_Checks!vars
    BY DEF Checks!CalmNext
  <2> QED
    BY <2>1, CheckTypes, OffStays
<1>3. Off => Checks!DisableHolds
  BY DEF Off
<1> QED
  BY <1>1, <1>2, <1>3, PTL

(* While the user is subscribed nobody holds a "no", what was once found   *)
(* is on record, and the pages that saw it there are told so.              *)
Member ==
    /\ \A p \in Page : page[p].at = "saving" => page[p].answer # "no"
    /\ \A t \in Tab : tab[t].at = "saving" => tab[t].answer # "no"
    /\ past.known => row.has
    /\ row.scope \/ past.refused
    /\ \A p \in Page : page[p].at \in {"asking", "saving"} /\ page[p].had => page[p].seen
    /\ Checks!KeepsPlan

LEMMA MemberStays ==
    ASSUME Types, Member, sub, [Checks!Next]_Checks!vars PROVE Member'
<1>1. /\ \A p \in Page : page[p].at = "saving" => page[p].answer # "no"
      /\ \A t \in Tab : tab[t].at = "saving" => tab[t].answer # "no"
      /\ past.known => row.has
      /\ row.scope \/ past.refused
      /\ \A p \in Page : page[p].at \in {"asking", "saving"} /\ page[p].had => page[p].seen
      /\ \A p \in Page : page[p].at = "told" /\ page[p].had => page[p].answer = "yes"
  BY DEF Member, Checks!KeepsPlan
<1>2. ASSUME NEW p \in Page, NEW r \in Asking, PageIs(p, r), tab' = tab,
             past'.known => row'.has, row'.scope \/ past'.refused,
             r.at = "saving" => r.answer # "no",
             r.at \in {"asking", "saving"} /\ r.had => r.seen,
             r.at = "told" /\ r.had => r.answer = "yes"
      PROVE  Member'
  BY <1>1, <1>2 DEF Member, Checks!KeepsPlan, PageIs
<1>3. ASSUME NEW p \in Page, Checks!AtPage(p) PROVE Member'
  <2>1. CASE Checks!Read(p)
    <3>1. PICK r \in Asking :
            /\ PageIs(p, r) /\ (r.had <=> past.known /\ ~past.refused) /\ r.seen = row.has
            /\ \/ r.at = "asking"
               \/ r.at = "told" /\ (row.scope /\ row.has => r.answer = "yes")
      BY <2>1, ReadIs
    <3>2. row' = row /\ past' = past /\ tab' = tab
      BY <2>1 DEF Checks!Read
    <3> QED
      BY <1>1, <1>2, <3>1, <3>2
  <2>2. CASE Checks!ReadFails(p)
    <3>1. row' = row /\ past' = past /\ tab' = tab
      BY <2>2 DEF Checks!ReadFails
    <3> QED
      BY <1>1, <1>2, <2>2, <3>1, ReadFailsIs
  <2>3. CASE Checks!AskForPage(p)
    <3>1. row' = row /\ past' = past /\ tab' = tab /\ page[p].at = "asking"
      BY <2>3 DEF Checks!AskForPage
    <3> QED
      BY <1>1, <1>2, <2>3, <3>1, AskPageIs
  <2>4. CASE Checks!SaveForPage(p)
    <3>1. tab' = tab /\ page[p].at = "saving"
      BY <2>4 DEF Checks!SaveForPage
    <3>2. Wrote(page[p].answer)
      BY <2>4, SavePageWrites
    <3>3. (past'.known => row'.has) /\ (row'.scope \/ past'.refused)
      BY <1>1, <3>1, <3>2 DEF Wrote
    <3> QED
      BY <1>1, <1>2, <2>4, <3>1, <3>3, SavePageIs
  <2> QED
    BY <1>3, <2>1, <2>2, <2>3, <2>4 DEF Checks!AtPage
<1>4. ASSUME NEW t \in Tab, Checks!AtTab(t) PROVE Member'
  <2>1. CASE Checks!Check(t) \/ Checks!AskForTab(t)
    <3>1. row' = row /\ past' = past /\ page' = page
      BY <2>1 DEF Checks!Check, Checks!AskForTab
    <3>2. \A q \in Tab : tab'[q].at = "saving" => tab'[q].answer # "no"
      BY <1>1, <2>1, TabMoves DEF TabIs
    <3> QED
      BY <1>1, <3>1, <3>2 DEF Member, Checks!KeepsPlan
  <2>2. CASE Checks!SaveForTab(t)
    <3>1. page' = page /\ tab[t].at = "saving"
      BY <2>2 DEF Checks!SaveForTab
    <3>2. Wrote(tab[t].answer)
      BY <2>2, SaveTabWrites
    <3>3. \A q \in Tab : tab'[q].at = "saving" => tab'[q].answer # "no"
      BY <1>1, <2>2, TabMoves DEF TabIs
    <3>4. (past'.known => row'.has) /\ (row'.scope \/ past'.refused)
      BY <1>1, <3>1, <3>2 DEF Wrote
    <3> QED
      BY <1>1, <3>1, <3>3, <3>4 DEF Member, Checks!KeepsPlan
  <2>3. CASE Checks!Disable(t)
    <3>1. /\ page' = page /\ tab' = tab /\ ~past'.known /\ row'.scope = row.scope
          /\ past'.refused = past.refused
      BY <2>3 DEF Checks!Disable, Types, RowType, PastType
    <3> QED
      BY <1>1, <3>1 DEF Member, Checks!KeepsPlan
  <2> QED
    BY <1>4, <2>1, <2>2, <2>3 DEF Checks!AtTab
<1>5. CASE Checks!Reauthorize
  <2>1. /\ page' = page /\ tab' = tab /\ row'.scope /\ row'.has = row.has
        /\ past'.known = past.known
    BY <1>5 DEF Checks!Reauthorize, Types, RowType, PastType
  <2> QED
    BY <1>1, <2>1 DEF Member, Checks!KeepsPlan
<1>6. CASE Checks!Age
  <2>1. /\ page' = page /\ tab' = tab /\ row'.scope = row.scope /\ row'.has = row.has
        /\ past' = past
    BY <1>6 DEF Checks!Age, Types, RowType
  <2> QED
    BY <1>1, <2>1 DEF Member, Checks!KeepsPlan
<1>7. CASE Checks!SubChanges
  BY <1>1, <1>7 DEF Checks!SubChanges, Member, Checks!KeepsPlan
<1>8. CASE UNCHANGED Checks!vars
  BY <1>1, <1>8 DEF Checks!vars, Member, Checks!KeepsPlan
<1> QED
  BY <1>3, <1>4, <1>5, <1>6, <1>7, <1>8 DEF Checks!Next

(* Who is subscribed all the time is told so once a check has found it,    *)
(* however many pages and tabs check and whatever other call fails, unless *)
(* the row cannot be read, the switch is used, or Twitch refuses the token *)
(* of the user's own check, until the next authorization (sub-check.ts,    *)
(* check-subscription/route.ts).                                           *)
THEOREM SubscriberKeepsPlan ==
    ASSUME Bounds
    PROVE  Checks!Spec /\ []sub => []Checks!KeepsPlan
<1>1. Checks!Init => Types /\ Member
  BY CheckInit DEF Member, Checks!KeepsPlan
<1>2. Types /\ Member /\ sub /\ [Checks!Next]_Checks!vars => Types' /\ Member'
  BY CheckTypes, MemberStays
<1>3. Member => Checks!KeepsPlan
  BY DEF Member
<1> QED
  BY <1>1, <1>2, <1>3, PTL DEF Checks!Spec

-----------------------------------------------------------------------------
(* The support codes.                                                      *)
Plans == PlanOf \in [Code -> {"support", "patron"}]

State == {"new", "refused", "locked", "clear", "dropped", "already", "given",
          "failed"}

CodeTypes ==
    /\ codes \in [Code -> [status : {"active", "rotating", "revoked"}, count : Nat]]
    /\ licenses \in SUBSET (User \X Code)
    /\ call \in [Call -> [at : State, user : SUBSET User, code : SUBSET Code,
                          drop : SUBSET (User \X Code)]]

(* An activation has one user and one code, which stays active under its   *)
(* lock; behind the check the user has no license for it.                  *)
Locked ==
    \A k \in Call : Codes!InTransaction(k) =>
      \E u \in User, c \in Code :
        /\ call[k].user = {u} /\ call[k].code = {c}
        /\ codes[c].status = "active"
        /\ call[k].at \in {"clear", "dropped"} => <<u, c>> \notin licenses

(* The lock of a code has one holder.                                      *)
OneHolder ==
    \A j, k \in Call :
      Codes!InTransaction(j) /\ Codes!InTransaction(k) /\ call[j].code = call[k].code
        => j = k

Held == CodeTypes /\ Locked /\ OneHolder

LEMMA HeldInit == Codes!Init => Held
BY DEF Codes!Init, Held, CodeTypes, Locked, OneHolder, Codes!InTransaction, State

(* Of an activation that is locked or further: whose it is.                *)
LEMMA MineIs ==
    ASSUME Held, NEW k \in Call, Codes!InTransaction(k)
    PROVE  \E u \in User, c \in Code :
             /\ call[k].user = {u} /\ call[k].code = {c}
             /\ Codes!Mine(k) = {<<u, c>>}
             /\ codes[c].status = "active"
             /\ call[k].at \in {"clear", "dropped"} => <<u, c>> \notin licenses
<1>1. PICK u \in User, c \in Code :
        /\ call[k].user = {u} /\ call[k].code = {c}
        /\ codes[c].status = "active"
        /\ call[k].at \in {"clear", "dropped"} => <<u, c>> \notin licenses
  BY DEF Held, Locked
<1>2. {u} \X {c} = {<<u, c>>}
  OBVIOUS
<1>3. Codes!Mine(k) = {<<u, c>>}
  BY <1>1, <1>2 DEF Codes!Mine
<1> QED
  BY <1>1, <1>3

LEMMA EnterHeld ==
    ASSUME Held, NEW k \in Call, NEW u \in User, NEW c \in Code,
           Codes!Enter(k, u, c)
    PROVE  Held'
<1> USE DEF Held, Codes!Enter, Codes!Usable
<1>1. CodeTypes'
  BY DEF CodeTypes, State
<1>2. \A j \in Call \ {k} : call'[j] = call[j]
  BY DEF CodeTypes
<1>3. /\ call'[k].user = {u} /\ call'[k].code = {c}
      /\ call'[k].at = IF codes[c].status = "active" THEN "locked" ELSE "refused"
  BY DEF CodeTypes
<1>4. Codes!InTransaction(k)' => call'[k].at = "locked" /\ codes'[c].status = "active"
  <2>1. CASE codes[c].status = "active"
    BY <2>1, <1>3
  <2>2. CASE codes[c].status # "active"
    <3>1. call'[k].at = "refused"
      BY <2>2, <1>3
    <3> QED
      BY <3>1 DEF Codes!InTransaction
  <2> QED
    BY <2>1, <2>2
<1>5. \A j \in Call \ {k} : Codes!InTransaction(j)' <=> Codes!InTransaction(j)
  BY <1>2 DEF Codes!InTransaction
<1>6. Locked'
  <2> SUFFICES ASSUME NEW j \in Call, Codes!InTransaction(j)'
               PROVE  \E v \in User, d \in Code :
                        /\ call'[j].user = {v} /\ call'[j].code = {d}
                        /\ codes'[d].status = "active"
                        /\ call'[j].at \in {"clear", "dropped"}
                             => <<v, d>> \notin licenses'
    BY DEF Locked
  <2>1. CASE j = k
    BY <2>1, <1>3, <1>4
  <2>2. CASE j # k
    BY ZenonT(60), <2>2, <1>2, <1>5 DEF Locked
  <2> QED
    BY <2>1, <2>2
<1>7. \A j \in Call : Codes!InTransaction(j) => call[j].code # {c}
  BY DEF Codes!Unlocked
<1>8. OneHolder'
  <2> SUFFICES ASSUME NEW i \in Call, NEW j \in Call,
                      Codes!InTransaction(i)', Codes!InTransaction(j)',
                      call'[i].code = call'[j].code
               PROVE  i = j
    BY DEF OneHolder
  <2>1. CASE i # k /\ j # k
    BY <2>1, <1>2, <1>5 DEF OneHolder
  <2>2. CASE i = k /\ j # k
    BY <2>2, <1>2, <1>3, <1>5, <1>7
  <2>3. CASE i # k /\ j = k
    BY <2>3, <1>2, <1>3, <1>5, <1>7
  <2> QED
    BY <2>1, <2>2, <2>3
<1> QED
  BY <1>1, <1>6, <1>8

(* A step of an activation changes its state and leaves its arguments.     *)
LEMMA AnswerHeld ==
    ASSUME Held, NEW k \in Call, Codes!InTransaction(k), NEW how \in State,
           Codes!Answer(k, how), codes' = codes, licenses' = licenses,
           how \in {"clear", "dropped"} => Codes!Mine(k) \cap licenses = {}
    PROVE  Held'
<1>1. CodeTypes'
  BY DEF Held, CodeTypes, Codes!Answer
<1>2. /\ \A j \in Call \ {k} : call'[j] = call[j]
      /\ call'[k].user = call[k].user /\ call'[k].code = call[k].code
      /\ call'[k].at = how
  BY DEF Held, CodeTypes, Codes!Answer
<1>3. Locked'
  <2> SUFFICES ASSUME NEW j \in Call, Codes!InTransaction(j)'
               PROVE  \E u \in User, c \in Code :
                        /\ call'[j].user = {u} /\ call'[j].code = {c}
                        /\ codes'[c].status = "active"
                        /\ call'[j].at \in {"clear", "dropped"}
                             => <<u, c>> \notin licenses'
    BY DEF Locked
  <2>1. CASE j = k
    BY <2>1, <1>2, MineIs
  <2>2. CASE j # k
    BY <2>2, <1>2 DEF Held, Locked, Codes!InTransaction
  <2> QED
    BY <2>1, <2>2
<1>4. \A j \in Call : /\ Codes!InTransaction(j)' => Codes!InTransaction(j)
                      /\ call'[j].code = call[j].code
  BY <1>2 DEF Codes!InTransaction
<1>5. OneHolder'
  BY <1>4 DEF Held, OneHolder
<1> QED
  BY <1>1, <1>3, <1>5 DEF Held

LEMMA CommitHeld ==
    ASSUME Held, NEW k \in Call, Codes!Commit(k)
    PROVE  /\ Held'
           /\ \E u \in User, c \in Code :
                /\ call[k].user = {u} /\ call[k].code = {c}
                /\ codes[c].status = "active"
                /\ licenses' = (licenses \ call[k].drop) \cup {<<u, c>>}
                /\ call'[k].at = "given"
           /\ \A c \in Code : codes'[c].status = codes[c].status
           /\ \A j \in Call \ {k} : call'[j] = call[j]
<1>1. Codes!InTransaction(k) /\ call[k].at = "dropped"
  BY DEF Codes!Commit, Codes!InTransaction
<1>2. PICK u \in User, c \in Code :
        /\ call[k].user = {u} /\ call[k].code = {c} /\ Codes!Mine(k) = {<<u, c>>}
        /\ codes[c].status = "active" /\ <<u, c>> \notin licenses
  BY <1>1, MineIs
<1>3. /\ licenses' = (licenses \ call[k].drop) \cup {<<u, c>>}
      /\ call' = [call EXCEPT ![k].at = "given"]
      /\ codes' = [d \in Code |-> IF d \in call[k].code
                                  THEN [codes[d] EXCEPT !.count = @ + 1] ELSE codes[d]]
  BY <1>2 DEF Codes!Commit, Codes!Answer
<1>4. CodeTypes'
  <2>1. codes' \in [Code -> [status : {"active", "rotating", "revoked"}, count : Nat]]
    BY <1>3 DEF Held, CodeTypes
  <2>2. licenses' \in SUBSET (User \X Code)
    BY <1>3 DEF Held, CodeTypes
  <2>3. call' \in [Call -> [at : State, user : SUBSET User, code : SUBSET Code,
                            drop : SUBSET (User \X Code)]]
    BY SMTT(30), <1>3 DEF Held, CodeTypes, State
  <2> QED
    BY <2>1, <2>2, <2>3 DEF CodeTypes
<1>5. \A d \in Code : codes'[d].status = codes[d].status
  BY <1>3 DEF Held, CodeTypes
<1>6. /\ \A j \in Call \ {k} : call'[j] = call[j]
      /\ call'[k].at = "given"
  BY <1>3 DEF Held, CodeTypes
<1>7. Locked'
  <2> SUFFICES ASSUME NEW j \in Call, Codes!InTransaction(j)'
               PROVE  \E v \in User, d \in Code :
                        /\ call'[j].user = {v} /\ call'[j].code = {d}
                        /\ codes'[d].status = "active"
                        /\ call'[j].at \in {"clear", "dropped"}
                             => <<v, d>> \notin licenses'
    BY DEF Locked
  <2>0. j # k /\ call'[j] = call[j] /\ Codes!InTransaction(j)
    BY <1>6 DEF Codes!InTransaction
  <2>1. PICK v \in User, d \in Code :
          /\ call[j].user = {v} /\ call[j].code = {d} /\ codes[d].status = "active"
          /\ call[j].at \in {"clear", "dropped"} => <<v, d>> \notin licenses
    BY <2>0, MineIs
  <2>2. d # c
    BY <1>1, <1>2, <2>0, <2>1 DEF Held, OneHolder
  <2>3. call[j].at \in {"clear", "dropped"} => <<v, d>> \notin licenses'
    BY <1>3, <2>1, <2>2
  <2> QED
    BY <1>5, <2>0, <2>1, <2>3
<1>8. OneHolder'
  BY <1>6 DEF Held, OneHolder, Codes!InTransaction
<1> QED
  BY <1>2, <1>3, <1>4, <1>5, <1>6, <1>7, <1>8 DEF Held

(* The user's licenses are gone; who has none keeps none.                  *)
LEMMA DeactivateHeld ==
    ASSUME Held, NEW u \in User, Codes!Deactivate(u) PROVE Held'
<1> USE DEF Held, Codes!Deactivate
<1>1. CodeTypes'
  BY DEF CodeTypes
<1>2. licenses' \subseteq licenses
  OBVIOUS
<1>3. Locked'
  BY <1>2 DEF Locked, Codes!InTransaction
<1> QED
  BY <1>1, <1>3 DEF OneHolder, Codes!InTransaction

(* The operator waits for the lock, so the code of an activation stays     *)
(* active.                                                                 *)
LEMMA SetStatusHeld ==
    ASSUME Held, NEW c \in Code, NEW s \in {"active", "rotating", "revoked"},
           Codes!SetStatus(c, s)
    PROVE  Held'
<1> USE DEF Held, Codes!SetStatus
<1>1. CodeTypes'
  BY DEF CodeTypes
<1>2. \A d \in Code \ {c} : codes'[d] = codes[d]
  BY DEF CodeTypes
<1>3. \A j \in Call : Codes!InTransaction(j) => call[j].code # {c}
  BY DEF Codes!Unlocked
<1>4. Locked'
  BY ZenonT(60), <1>2, <1>3 DEF Locked, Codes!InTransaction
<1> QED
  BY <1>1, <1>4 DEF OneHolder, Codes!InTransaction

LEMMA ActivationHeld ==
    ASSUME Held, NEW k \in Call, Codes!Activation(k) PROVE Held'
<1>1. CASE Codes!CheckOwn(k)
  <2>1. Codes!InTransaction(k)
    BY <1>1 DEF Codes!CheckOwn, Codes!InTransaction
  <2>2. Codes!Owned(k) \/ Codes!Mine(k) \cap licenses = {}
    <3>1. PICK u \in User, c \in Code : Codes!Mine(k) = {<<u, c>>}
      BY <2>1, MineIs
    <3> QED
      BY <3>1 DEF Codes!Owned
  <2>3. CASE Codes!Owned(k)
    BY <1>1, <2>1, <2>3, AnswerHeld DEF Codes!CheckOwn, State
  <2>4. CASE ~Codes!Owned(k)
    BY <1>1, <2>1, <2>2, <2>4, AnswerHeld DEF Codes!CheckOwn, State
  <2> QED
    BY <2>3, <2>4
<1>2. CASE Codes!DropHigher(k)
  <2>1. Codes!InTransaction(k) /\ call[k].at = "clear"
    BY <1>2 DEF Codes!DropHigher, Codes!InTransaction
  <2>2. PICK u \in call[k].user, c \in call[k].code :
          call' = [call EXCEPT ![k].at = "dropped", ![k].drop = Codes!Higher(u, c)]
    BY <1>2 DEF Codes!DropHigher
  <2>3. codes' = codes /\ licenses' = licenses
    BY <1>2 DEF Codes!DropHigher
  <2>4. Codes!Higher(u, c) \subseteq licenses
    BY DEF Codes!Higher
  <2>5. CodeTypes'
    <3>1. Codes!Higher(u, c) \in SUBSET (User \X Code)
      BY <2>4 DEF Held, CodeTypes
    <3>2. call[k] \in [at : State, user : SUBSET User, code : SUBSET Code,
                       drop : SUBSET (User \X Code)]
      BY DEF Held, CodeTypes
    <3>3. [[call[k] EXCEPT !.at = "dropped"] EXCEPT !.drop = Codes!Higher(u, c)]
            \in [at : State, user : SUBSET User, code : SUBSET Code,
                 drop : SUBSET (User \X Code)]
      BY <3>1, <3>2 DEF State
    <3>4. call' \in [Call -> [at : State, user : SUBSET User, code : SUBSET Code,
                              drop : SUBSET (User \X Code)]]
      BY <2>2, <3>3 DEF Held, CodeTypes
    <3> QED
      BY <2>3, <3>4 DEF Held, CodeTypes
  <2>6. /\ \A j \in Call \ {k} : call'[j] = call[j]
        /\ call'[k].user = call[k].user /\ call'[k].code = call[k].code
        /\ call'[k].at = "dropped"
    BY <2>2 DEF Held, CodeTypes
  <2>7. Locked'
    <3> SUFFICES ASSUME NEW j \in Call, Codes!InTransaction(j)'
                 PROVE  \E v \in User, d \in Code :
                          /\ call'[j].user = {v} /\ call'[j].code = {d}
                          /\ codes'[d].status = "active"
                          /\ call'[j].at \in {"clear", "dropped"}
                               => <<v, d>> \notin licenses'
      BY DEF Locked
    <3>1. CASE j = k
      BY <3>1, <2>1, <2>3, <2>6, MineIs
    <3>2. CASE j # k
      BY ZenonT(60), <3>2, <2>3, <2>6 DEF Held, Locked, Codes!InTransaction
    <3> QED
      BY <3>1, <3>2
  <2>8. OneHolder'
    BY <2>1, <2>6 DEF Held, OneHolder, Codes!InTransaction
  <2> QED
    BY <2>5, <2>7, <2>8 DEF Held
<1>3. CASE Codes!Commit(k)
  BY <1>3, CommitHeld
<1>4. CASE Codes!Abort(k)
  BY <1>4, AnswerHeld DEF Codes!Abort, State
<1> QED
  BY <1>1, <1>2, <1>3, <1>4 DEF Codes!Activation

LEMMA HeldStays ==
    ASSUME Held, [Codes!Next]_Codes!vars PROVE Held'
<1>1. CASE UNCHANGED Codes!vars
  BY <1>1 DEF Codes!vars, Held, CodeTypes, Locked, OneHolder, Codes!InTransaction
<1>2. CASE Codes!Next
  BY <1>2, EnterHeld, ActivationHeld, DeactivateHeld, SetStatusHeld DEF Codes!Next
<1> QED
  BY <1>1, <1>2

(* Only a commit adds a license, the one of its activation.                *)
LEMMA OnlyCommitGives ==
    ASSUME Held, Codes!Next, NEW l \in licenses', l \notin licenses
    PROVE  \E k \in Call : Codes!Commit(k) /\ Codes!Mine(k) = {l}
<1>1. PICK k \in Call : Codes!Commit(k)
  BY DEF Codes!Next, Codes!Enter, Codes!Activation, Codes!CheckOwn,
     Codes!DropHigher, Codes!Abort, Codes!Deactivate, Codes!SetStatus
<1>2. licenses' \subseteq licenses \cup Codes!Mine(k)
  BY <1>1 DEF Codes!Commit
<1>3. Codes!InTransaction(k)
  BY <1>1 DEF Codes!Commit, Codes!InTransaction
<1> QED
  BY <1>1, <1>2, <1>3, MineIs

(* A license is given only while its code may be activated, whatever the   *)
(* operator does meanwhile (activate_support_code, FOR UPDATE).            *)
THEOREM CodesGiveActiveOnly ==
    Codes!Spec => [][Codes!GivesActiveOnly]_Codes!vars
<1>1. Held /\ [Codes!Next]_Codes!vars => [Codes!GivesActiveOnly]_Codes!vars
  <2> SUFFICES ASSUME Held, Codes!Next, NEW u \in User, NEW c \in Code,
                      <<u, c>> \in licenses' \ licenses
               PROVE  codes[c].status = "active"
    BY DEF Codes!GivesActiveOnly
  <2>1. PICK k \in Call : Codes!Commit(k) /\ Codes!Mine(k) = {<<u, c>>}
    BY OnlyCommitGives
  <2>2. Codes!InTransaction(k)
    BY <2>1 DEF Codes!Commit, Codes!InTransaction
  <2>3. PICK v \in User, d \in Code :
          Codes!Mine(k) = {<<v, d>>} /\ codes[d].status = "active"
    BY <2>2, MineIs
  <2>4. <<u, c>> = <<v, d>>
    BY <2>1, <2>3
  <2> QED
    BY <2>3, <2>4
<1> QED
  BY <1>1, HeldInit, HeldStays, PTL DEF Codes!Spec

(* A request that is told "already activated" has changed nothing: what    *)
(* the insertion would find, the check has found before it, under the lock *)
(* (activate_support_code, ON CONFLICT).                                   *)
THEOREM CodesRefuseCleanly ==
    Codes!Spec => [][Codes!RefusalChangesNothing]_Codes!vars
<1>1. Held /\ [Codes!Next]_Codes!vars => [Codes!RefusalChangesNothing]_Codes!vars
  <2> SUFFICES ASSUME Held, Codes!Next, NEW k \in Call,
                      call'[k].at = "already", call[k].at # "already"
               PROVE  licenses' = licenses
    BY DEF Codes!RefusalChangesNothing
  <2>1. ASSUME NEW j \in Call, Codes!Commit(j) PROVE FALSE
    <3>1. call'[j].at = "given" /\ \A i \in Call \ {j} : call'[i] = call[i]
      BY <2>1, CommitHeld
    <3> QED
      BY <3>1
  <2>2. ASSUME NEW u \in User, Codes!Deactivate(u) PROVE FALSE
    BY <2>2 DEF Codes!Deactivate
  <2> QED
    BY <2>1, <2>2 DEF Codes!Next, Codes!Activation, Codes!Enter,
       Codes!CheckOwn, Codes!DropHigher, Codes!Abort, Codes!SetStatus
<1> QED
  BY <1>1, HeldInit, HeldStays, PTL DEF Codes!Spec

(* Behind the deletion no valid license of the user is above the new one,  *)
(* as long as the user has one request at a time.                          *)
Stepped ==
    \A k \in Call : call[k].at = "dropped" =>
      \A u \in call[k].user, c \in call[k].code, d \in Code :
        <<u, d>> \in licenses \ call[k].drop /\ codes[d].status \in Codes!Valid
          => Codes!Priority(PlanOf[d]) <= Codes!Priority(PlanOf[c])

LEMMA SteppedStays ==
    ASSUME Plans, Held, Codes!Alone, Stepped, [Codes!CalmNext]_Codes!vars
    PROVE  Codes!Alone' /\ Stepped'
<1>1. CASE UNCHANGED Codes!vars
  BY <1>1 DEF Codes!vars, Stepped, Codes!Alone, Codes!InTransaction
<1>2. CASE Codes!CalmNext
  <2>1. Codes!Alone' /\ Codes!Next
    BY <1>2 DEF Codes!CalmNext
  <2>2. \A d \in Code : codes'[d].status \in Codes!Valid => codes[d].status \in Codes!Valid
    <3>1. \A d \in Code : codes[d].status \in {"active", "rotating", "revoked"}
      BY DEF Held, CodeTypes
    <3>2. \A d \in Code : codes[d].status = "revoked" => codes'[d].status = "revoked"
      BY <1>2 DEF Codes!CalmNext
    <3> QED
      BY <3>1, <3>2 DEF Codes!Valid
  <2> SUFFICES ASSUME NEW k \in Call, call'[k].at = "dropped",
                      NEW u \in call'[k].user, NEW c \in call'[k].code, NEW d \in Code,
                      <<u, d>> \in licenses' \ call'[k].drop,
                      codes'[d].status \in Codes!Valid
               PROVE  Codes!Priority(PlanOf[d]) <= Codes!Priority(PlanOf[c])
    BY <2>1 DEF Stepped
  <2>3. CASE call[k].at # "dropped"
    <3>1. Codes!DropHigher(k)
      <4>1. ASSUME NEW j \in Call, Codes!Activation(j) PROVE Codes!DropHigher(k)
        <5>1. CASE Codes!CheckOwn(j)
          BY <5>1, <2>3 DEF Held, CodeTypes, Codes!CheckOwn, Codes!Answer
        <5>2. CASE Codes!DropHigher(j)
          BY ZenonT(60), <5>2, <2>3 DEF Held, CodeTypes, Codes!DropHigher
        <5>3. CASE Codes!Commit(j)
          BY <5>3, <2>3, CommitHeld
        <5>4. CASE Codes!Abort(j)
          BY <5>4, <2>3 DEF Held, CodeTypes, Codes!Abort, Codes!Answer
        <5> QED
          BY <4>1, <5>1, <5>2, <5>3, <5>4 DEF Codes!Activation
      <4>2. ASSUME NEW j \in Call, NEW v \in User, NEW e \in Code, Codes!Enter(j, v, e)
            PROVE  FALSE
        BY <4>2, <2>3 DEF Held, CodeTypes, Codes!Enter
      <4> QED
        BY <2>1, <2>3, <4>1, <4>2 DEF Codes!Next, Codes!Deactivate, Codes!SetStatus
    <3>2. PICK v \in call[k].user, e \in call[k].code :
            call' = [call EXCEPT ![k].at = "dropped", ![k].drop = Codes!Higher(v, e)]
      BY <3>1 DEF Codes!DropHigher
    <3>3. call[k].at = "clear" /\ licenses' = licenses
      BY <3>1 DEF Codes!DropHigher
    <3>4. u = v /\ c = e
      <4>1. \E w \in User, f \in Code : call[k].user = {w} /\ call[k].code = {f}
        BY <3>3, MineIs DEF Codes!InTransaction
      <4>2. call'[k].user = call[k].user /\ call'[k].code = call[k].code
        BY <3>2 DEF Held, CodeTypes
      <4> QED
        BY <4>1, <4>2
    <3>5. call'[k].drop = Codes!Higher(u, c)
      BY <3>2, <3>4 DEF Held, CodeTypes
    <3>6. <<u, d>> \in licenses /\ ~(Codes!Priority(PlanOf[d]) > Codes!Priority(PlanOf[c]))
      BY <2>2, <3>3, <3>5 DEF Codes!Higher
    <3>7. c \in Code
      BY <3>3, <3>4, MineIs DEF Codes!InTransaction
    <3> QED
      BY <3>6, <3>7 DEF Plans, Codes!Priority
  <2>4. CASE call[k].at = "dropped"
    <3>1. Codes!InTransaction(k)
      BY <2>4 DEF Codes!InTransaction
    <3>2. PICK v \in User, e \in Code : call[k].user = {v} /\ call[k].code = {e}
      BY <3>1, MineIs
    <3>3. call'[k] = call[k]
      <4>1. ASSUME NEW j \in Call, Codes!Activation(j) PROVE call'[k] = call[k]
        <5>1. CASE Codes!CheckOwn(j)
          BY <5>1, <2>4 DEF Held, CodeTypes, Codes!CheckOwn, Codes!Answer
        <5>2. CASE Codes!DropHigher(j)
          BY <5>2, <2>4 DEF Held, CodeTypes, Codes!DropHigher
        <5>3. CASE Codes!Commit(j)
          BY <5>3, CommitHeld
        <5>4. CASE Codes!Abort(j)
          BY <5>4 DEF Held, CodeTypes, Codes!Abort, Codes!Answer
        <5> QED
          BY <4>1, <5>1, <5>2, <5>3, <5>4 DEF Codes!Activation
      <4>2. ASSUME NEW j \in Call, NEW w \in User, NEW f \in Code, Codes!Enter(j, w, f)
            PROVE  call'[k] = call[k]
        BY <4>2, <2>4 DEF Held, CodeTypes, Codes!Enter
      <4> QED
        BY <2>1, <4>1, <4>2 DEF Codes!Next, Codes!Deactivate, Codes!SetStatus
    <3>4. <<u, d>> \in licenses
      <4>1. ASSUME <<u, d>> \notin licenses PROVE FALSE
        <5>1. PICK j \in Call : Codes!Commit(j) /\ Codes!Mine(j) = {<<u, d>>}
          BY <2>1, <4>1, OnlyCommitGives
        <5>2. Codes!InTransaction(j)
          BY <5>1 DEF Codes!Commit, Codes!InTransaction
        <5>3. call[j].user = {u}
          <6>1. PICK w \in User, f \in Code :
                  call[j].user = {w} /\ Codes!Mine(j) = {<<w, f>>}
            BY ZenonT(60), <5>2, MineIs
          <6>2. <<u, d>> = <<w, f>>
            BY <5>1, <6>1
          <6> QED
            BY <6>1, <6>2
        <5>4. call[k].user = {u}
          BY <3>2, <3>3
        <5>5. j = k
          BY <3>1, <5>2, <5>3, <5>4 DEF Codes!Alone
        <5>6. call'[j].at = "given"
          BY <5>1, CommitHeld
        <5> QED
          BY <5>5, <5>6
      <4> QED
        BY <4>1
    <3> QED
      BY <2>2, <2>4, <3>3, <3>4 DEF Stepped
  <2> QED
    BY <2>3, <2>4
<1> QED
  BY <1>1, <1>2

(* After an activation the licenses give the plan of the code: the best    *)
(* one when it is better, a lower one when the user chose to step down; as *)
(* long as users send one request at a time and no revoked code revives    *)
(* (activate_support_code).                                                *)
THEOREM CodesGiveTheirPlan ==
    ASSUME Plans
    PROVE  Codes!Init /\ [][Codes!CalmNext]_Codes!vars
             => [][Codes!GivesItsPlan]_Codes!vars
<1>1. Codes!Init => Held /\ Codes!Alone /\ Stepped
  BY HeldInit DEF Codes!Init, Codes!Alone, Stepped, Codes!InTransaction
<1>2. Held /\ Codes!Alone /\ Stepped /\ [Codes!CalmNext]_Codes!vars
        => (Held /\ Codes!Alone /\ Stepped)'
  <2>1. [Codes!CalmNext]_Codes!vars => [Codes!Next]_Codes!vars
    BY DEF Codes!CalmNext
  <2> QED
    BY <2>1, HeldStays, SteppedStays
<1>3. Held /\ Stepped /\ [Codes!CalmNext]_Codes!vars => [Codes!GivesItsPlan]_Codes!vars
  <2> SUFFICES ASSUME Held, Stepped, Codes!CalmNext,
                      NEW k \in Call, NEW u \in User, NEW c \in Code,
                      call[k].user = {u}, call[k].code = {c},
                      call[k].at = "dropped", call'[k].at = "given"
               PROVE  Codes!LicensePriority(u, licenses') = Codes!Priority(PlanOf[c])
    BY DEF Codes!GivesItsPlan
  <2>1. Codes!Commit(k)
    <3>1. ASSUME NEW j \in Call, Codes!Activation(j) PROVE Codes!Commit(k)
      <4>1. CASE Codes!CheckOwn(j)
        BY <4>1 DEF Held, CodeTypes, Codes!CheckOwn, Codes!Answer
      <4>2. CASE Codes!DropHigher(j)
        BY <4>2 DEF Held, CodeTypes, Codes!DropHigher
      <4>3. CASE Codes!Commit(j)
        BY <4>3, CommitHeld
      <4>4. CASE Codes!Abort(j)
        BY <4>4 DEF Held, CodeTypes, Codes!Abort, Codes!Answer
      <4> QED
        BY <3>1, <4>1, <4>2, <4>3, <4>4 DEF Codes!Activation
    <3>2. ASSUME NEW j \in Call, NEW v \in User, NEW e \in Code, Codes!Enter(j, v, e)
          PROVE  FALSE
      BY <3>2 DEF Held, CodeTypes, Codes!Enter
    <3> QED
      BY <3>1, <3>2 DEF Codes!CalmNext, Codes!Next, Codes!Deactivate, Codes!SetStatus
  <2>2. licenses' = (licenses \ call[k].drop) \cup {<<u, c>>} /\ codes[c].status = "active"
    BY <2>1, CommitHeld
  <2>3. c \in Codes!CodesOf(u, licenses')
    BY <2>2 DEF Codes!CodesOf, Codes!Valid
  <2>4. \A d \in Codes!CodesOf(u, licenses') :
          d \in Code /\ Codes!Priority(PlanOf[d]) <= Codes!Priority(PlanOf[c])
    <3> SUFFICES ASSUME NEW d \in Code, <<u, d>> \in licenses', d # c,
                        codes[d].status \in Codes!Valid
                 PROVE  Codes!Priority(PlanOf[d]) <= Codes!Priority(PlanOf[c])
      BY DEF Codes!CodesOf, Codes!Priority, Plans
    <3>1. <<u, d>> \in licenses \ call[k].drop
      BY <2>2
    <3> QED
      BY <3>1 DEF Stepped
  <2>5. CASE PlanOf[c] = "patron"
    BY <2>3, <2>5 DEF Codes!LicensePriority, Codes!Priority
  <2>6. CASE PlanOf[c] = "support"
    <3>1. \A d \in Codes!CodesOf(u, licenses') : PlanOf[d] = "support"
      BY <2>4, <2>6 DEF Codes!Priority, Plans
    <3> QED
      BY <2>3, <2>6, <3>1 DEF Codes!LicensePriority, Codes!Priority
  <2> QED
    BY <2>5, <2>6 DEF Plans
<1> QED
  BY <1>1, <1>2, <1>3, PTL

-----------------------------------------------------------------------------
(* The drain of the parked notifications.                                  *)
DrainBounds == {Limit, MaxEntries, MaxOdd, MaxSwitch, MaxSlow, MaxFaults} \subseteq Nat

(* The numbers of elements the instance counts are those of the library.   *)
LEMMA SameCardinality == ASSUME NEW S PROVE Drain!Cardinality(S) = Cardinality(S)
BY DEF Drain!Cardinality, Cardinality

(* A set of entries has a last one.                                        *)
LEMMA LastOf ==
    ASSUME NEW n \in Nat, NEW S, S \subseteq 1..n, S # {}
    PROVE  Drain!Last(S) \in S /\ \A e \in S : e <= Drain!Last(S)
<1> DEFINE T == {n - e : e \in S}
<1>1. T \subseteq Nat /\ T # {}
  <2>1. ASSUME NEW e \in S PROVE n - e \in Nat
    <3>1. e \in 1..n
      OBVIOUS
    <3> QED
      BY <3>1
  <2>2. T \subseteq Nat
    BY <2>1
  <2>3. PICK e \in S : TRUE
    OBVIOUS
  <2>4. n - e \in T
    BY <2>3
  <2> QED
    BY <2>2, <2>4
<1>2. \E x \in T : \A y \in T : ~(<<y, x>> \in OpToRel(<, Nat))
  BY <1>1, NatLessThanWellFounded, WFMin
<1>3. PICK x \in T : \A y \in T : ~(<<y, x>> \in OpToRel(<, Nat))
  BY <1>2
<1>4. PICK l \in S : x = n - l
  OBVIOUS
<1>5. ASSUME NEW e \in S PROVE e <= l
  <2>1. n - e \in Nat /\ x \in Nat /\ ~(n - e < x)
    BY <1>1, <1>3 DEF OpToRel
  <2>2. e \in Int /\ l \in Int
    OBVIOUS
  <2> QED
    BY <2>1, <2>2, <1>4
<1>6. \E z \in S : \A e \in S : e <= z
  BY <1>5
<1> QED
  BY <1>6 DEF Drain!Last

(* What a page leaves of a list comes after all of it.                     *)
LEMMA FirstOf ==
    ASSUME NEW n \in Nat, NEW S, S \subseteq 1..n,
           NEW m \in Nat, NEW e \in S, e \notin Drain!First(S, m)
    PROVE  \A f \in Drain!First(S, m) : f < e
<1> DEFINE Below(x) == {g \in S : g < x}
<1>1. \A x \in S : x \in Drain!First(S, m) <=> Cardinality(Below(x)) < m
  <2>1. ASSUME NEW x \in S
        PROVE  x \in Drain!First(S, m) <=> Drain!Cardinality(Below(x)) < m
    BY Zenon DEF Drain!First
  <2> QED
    BY <2>1, SameCardinality
<1>2. Drain!First(S, m) \subseteq S
  BY DEF Drain!First
<1>3. ASSUME NEW f \in Drain!First(S, m), ~(f < e) PROVE FALSE
  <2>0. \A g \in S : g \in Int
    OBVIOUS
  <2>1. f \in S /\ f \in Int /\ e \in Int
    BY <1>2, <2>0
  <2>2. Below(e) \subseteq Below(f)
    <3>1. e <= f
      BY <1>3, <2>1
    <3>2. ASSUME NEW g \in S, g < e PROVE g < f
      BY <2>0, <2>1, <3>1, <3>2
    <3> QED
      BY <3>2
  <2>3. IsFiniteSet(1..n)
    BY FS_Interval
  <2>4. IsFiniteSet(Below(f)) /\ IsFiniteSet(Below(e))
    <3>1. Below(f) \subseteq 1..n /\ Below(e) \subseteq 1..n
      OBVIOUS
    <3> QED
      BY <2>3, <3>1, FS_Subset
  <2>5. /\ Cardinality(Below(e)) \in Nat /\ Cardinality(Below(f)) \in Nat
        /\ Cardinality(Below(e)) <= Cardinality(Below(f))
    BY <2>2, <2>4, FS_Subset, FS_CardinalityType
  <2>6. Cardinality(Below(f)) < m /\ ~(Cardinality(Below(e)) < m)
    BY <1>1, <2>1
  <2> HIDE DEF Below
  <2> QED
    BY <2>5, <2>6
<1> QED
  BY <1>3

Request == [at : {"idle", "peek", "list", "handle", "end"}, page : SUBSET Nat,
            cursor : Nat, complete : BOOLEAN, failed : BOOLEAN]

DrainTypes ==
    /\ parked \in Nat /\ parked <= MaxEntries
    /\ kv \subseteq 1..parked /\ due \subseteq 1..parked
    /\ fate \in [Drain!Entry -> Drain!Fate]
    /\ request \in [Drain!Caller -> Request]

\* What a script need not go back to.
Seen(e) == e \in done \cup cut \/ fate[e] \in {"damaged", "unknown"}

(* What the script has found is seen, on its page or behind its cursor.    *)
ScriptHas ==
    LET s == request["script"] IN
    /\ s.at = "idle" => s = Drain!Idle /\ due = {}
    /\ s.at = "list" => s.page = {}
    /\ ~s.failed => /\ \A e \in due : Seen(e) \/ e \in s.page \/ e > s.cursor
                    /\ s.at = "handle" /\ s.complete => \A e \in due : Seen(e) \/ e \in s.page
                    /\ s.at = "end" => \A e \in due : Seen(e)

LEMMA DrainInit == ASSUME DrainBounds, Drain!Init PROVE DrainTypes /\ Drain!KeptUntilHandled /\ ScriptHas
<1>1. /\ parked = 0 /\ kv = {} /\ due = {} /\ MaxEntries \in Nat
      /\ fate \in [Drain!Entry -> Drain!Fate]
  BY DEF Drain!Init, DrainBounds, Drain!Fate
<1>2. request \in [Drain!Caller -> Request] /\ request["script"] = Drain!Idle
  BY DEF Drain!Init, Request, Drain!Idle, Drain!Caller
<1> QED
  BY <1>1, <1>2 DEF DrainTypes, Drain!KeptUntilHandled, ScriptHas, Drain!Idle

(* What a page is taken from, and where it ends.                           *)
LEMMA PageTypes ==
    ASSUME DrainTypes, NEW c \in Drain!Caller, NEW n \in Nat
    PROVE  /\ Drain!Page(c, n) \subseteq kv /\ Drain!Page(c, n) \subseteq Nat
           /\ Drain!Page(c, n) # {} => /\ Drain!Last(Drain!Page(c, n)) \in Drain!Page(c, n)
                                      /\ Drain!Last(Drain!Page(c, n)) \in Nat
           /\ \A e \in kv : e > request[c].cursor /\ e \notin Drain!Page(c, n)
                => \A f \in Drain!Page(c, n) : f < e
<1> DEFINE B == Drain!Beyond(request[c].cursor)
<1>1. B \subseteq kv /\ B \subseteq 1..parked
  BY DEF Drain!Beyond, DrainTypes
<1>2. Drain!Page(c, n) = Drain!First(B, n) /\ Drain!Page(c, n) \subseteq B
  BY DEF Drain!Page, Drain!First
<1>3. 1..parked \subseteq Nat /\ parked \in Nat
  BY DEF DrainTypes
<1>4. \A e \in kv : e > request[c].cursor => e \in B
  BY DEF Drain!Beyond
<1> HIDE DEF B
<1>5. Drain!Page(c, n) # {} => Drain!Last(Drain!Page(c, n)) \in Drain!Page(c, n)
  BY <1>1, <1>2, <1>3, LastOf
<1>6. \A e \in B : e \notin Drain!Page(c, n) => \A f \in Drain!Page(c, n) : f < e
  BY <1>1, <1>2, <1>3, FirstOf
<1> QED
  BY <1>1, <1>2, <1>3, <1>4, <1>5, <1>6

(* What a request asks for next.                                           *)
LEMMA Listed ==
    ASSUME DrainBounds, DrainTypes, NEW c \in Drain!Caller, Drain!ListFull(c) \/ Drain!ListPart(c)
    PROVE  \E n \in Nat : Drain!List(c, n)
<1>1. CASE Drain!ListFull(c)
  BY <1>1 DEF Drain!ListFull, DrainBounds
<1>2. CASE Drain!ListPart(c)
  BY <1>2 DEF Drain!ListPart, DrainBounds
<1> QED
  BY <1>1, <1>2

(* The request of a caller moves, and that of the other does not.          *)
LEMMA RequestMoves ==
    ASSUME DrainBounds, DrainTypes, [Drain!Next]_Drain!vars
    PROVE  request' \in [Drain!Caller -> Request]
<1> USE DEF DrainTypes
<1>1. CASE Drain!Park \/ Drain!Age \/ Drain!Switch \/ UNCHANGED Drain!vars
  BY <1>1 DEF Drain!Park, Drain!Age, Drain!Switch, Drain!vars
<1>2. CASE Drain!Tick
  BY <1>2 DEF Drain!Tick, Drain!Caller, Request
<1>3. CASE Drain!Peek \/ Drain!PeekOutbox
  <2>1. CASE Drain!Peek
    BY <2>1 DEF Drain!Peek, Drain!Caller, Request, Drain!Idle
  <2>2. CASE Drain!PeekOutbox
    BY <2>2 DEF Drain!PeekOutbox, Drain!Caller, Request
  <2> QED
    BY <1>3, <2>1, <2>2
<1>4. CASE Drain!Start
  BY <1>4 DEF Drain!Start, Drain!Caller, Request
<1>5. ASSUME NEW c \in Drain!Caller, NEW n \in Nat, Drain!List(c, n)
      PROVE  request' \in [Drain!Caller -> Request]
  <2> DEFINE k == IF Drain!Page(c, n) = {} THEN request[c].cursor ELSE Drain!Last(Drain!Page(c, n))
  <2>1. Drain!Page(c, n) \in SUBSET Nat /\ k \in Nat
    BY PageTypes DEF Request
  <2>2. PICK m \in BOOLEAN : request' = [request EXCEPT ![c].at = "handle",
          ![c].page = Drain!Page(c, n), ![c].cursor = k, ![c].complete = m]
    BY <1>5 DEF Drain!List
  <2>3. request[c] \in Request
    OBVIOUS
  <2> HIDE DEF k
  <2> QED
    BY ZenonT(60), <2>1, <2>2, <2>3 DEF Request
<1>6. ASSUME NEW c \in Drain!Caller,
             Drain!Respond(c) \/ Drain!CallFails(c) \/ Drain!ListNothing(c) \/ Drain!Deadline(c)
      PROVE  request' \in [Drain!Caller -> Request]
  <2>1. CASE Drain!Respond(c)
    BY <2>1 DEF Drain!Respond, Drain!Idle, Request
  <2>2. CASE Drain!CallFails(c)
    BY <2>2 DEF Drain!CallFails, Drain!Idle, Request
  <2>3. CASE Drain!ListNothing(c)
    BY ZenonT(60), <2>3 DEF Drain!ListNothing, Request
  <2>4. CASE Drain!Deadline(c)
    BY <2>4 DEF Drain!Deadline, Request
  <2> QED
    BY <1>6, <2>1, <2>2, <2>3, <2>4
<1>7. ASSUME NEW c \in Drain!Caller, NEW e, Drain!Passed(c, e)
      PROVE  request' \in [Drain!Caller -> Request]
  BY <1>7 DEF Drain!Passed, Request
<1>8. ASSUME NEW c \in Drain!Caller, NEW e, Drain!Failed(c, e)
      PROVE  request' \in [Drain!Caller -> Request]
  BY ZenonT(60), <1>8 DEF Drain!Failed, Request
<1>9. ASSUME NEW c \in Drain!Caller, NEW e, Drain!DeadlineWithin(c, e)
      PROVE  request' \in [Drain!Caller -> Request]
  BY ZenonT(60), <1>9 DEF Drain!DeadlineWithin, Request
<1> QED
  BY <1>1, <1>2, <1>3, <1>4, <1>5, <1>6, <1>7, <1>8, <1>9, Listed
     DEF Drain!Next, Drain!Step, Drain!Handle, Drain!HandleKept, Drain!HandleFails,
         Drain!Discard, Drain!DiscardKept, Drain!Keep

(* An entry that is parked is in the store, handled or damaged.            *)
LEMMA DrainTypesStay ==
    ASSUME DrainBounds, DrainTypes, Drain!KeptUntilHandled, [Drain!Next]_Drain!vars
    PROVE  DrainTypes' /\ Drain!KeptUntilHandled'
<1>0. request' \in [Drain!Caller -> Request]
  BY RequestMoves
<1> USE DEF DrainTypes, Drain!KeptUntilHandled
<1>1. CASE Drain!Park
  <2>1. PICK f \in Drain!Fate : fate' = [fate EXCEPT ![parked'] = f]
    BY <1>1 DEF Drain!Park
  <2>2. /\ parked' = parked + 1 /\ kv' = kv \cup {parked'} /\ done' = done /\ due' = due
        /\ parked < MaxEntries /\ MaxEntries \in Nat
    BY <1>1 DEF Drain!Park, DrainBounds
  <2>3. 1..parked \subseteq Drain!Entry
    BY <2>2 DEF Drain!Entry
  <2>4. \A e \in 1..parked : fate'[e] = fate[e]
    BY <2>1, <2>2, <2>3
  <2>5. 1..parked' = 1..parked \cup {parked'}
    BY <2>2
  <2>6. \A e \in 1..parked' : (e \in kv \cup done \/ fate[e] = "damaged")'
    BY <2>2, <2>4, <2>5
  <2>7. fate' \in [Drain!Entry -> Drain!Fate]
    BY <2>1
  <2>8. /\ parked' \in Nat /\ parked' <= MaxEntries
        /\ kv' \subseteq 1..parked' /\ due' \subseteq 1..parked'
    BY <2>2, <2>5
  <2> QED
    BY <1>0, <2>6, <2>7, <2>8
<1>2. CASE UNCHANGED <<kv, parked, fate, done>> /\ due' \in {due, kv}
  BY <1>0, <1>2
<1>3. ASSUME NEW e \in Drain!Entry,
             UNCHANGED <<parked, fate, due>>, done \subseteq done',
             kv' = kv \ {e}, e \in done' \/ fate[e] = "damaged"
      PROVE  DrainTypes' /\ Drain!KeptUntilHandled'
  BY <1>0, <1>3
<1>4. CASE UNCHANGED <<kv, parked, fate, due>> /\ done \subseteq done'
  BY <1>0, <1>4
<1>5. CASE Drain!Age \/ Drain!Switch \/ Drain!Tick \/ Drain!Peek \/ Drain!PeekOutbox \/ Drain!Start
  BY <1>2, <1>5 DEF Drain!Age, Drain!Switch, Drain!Tick, Drain!Peek, Drain!PeekOutbox, Drain!Start
<1>6. ASSUME NEW c \in Drain!Caller,
             \/ Drain!ListFull(c) \/ Drain!Respond(c) \/ Drain!CallFails(c)
             \/ Drain!ListPart(c) \/ Drain!ListNothing(c) \/ Drain!Deadline(c)
      PROVE  DrainTypes' /\ Drain!KeptUntilHandled'
  <2>1. UNCHANGED <<kv, parked, fate, done, due>>
    BY <1>6 DEF Drain!ListFull, Drain!Respond, Drain!CallFails, Drain!ListPart,
                Drain!ListNothing, Drain!Deadline, Drain!List
  <2> QED
    BY <1>2, <2>1
<1>7. ASSUME NEW c \in Drain!Caller, NEW e \in Drain!Entry,
             \/ Drain!Handle(c, e) \/ Drain!Discard(c, e) \/ Drain!Keep(c, e)
             \/ Drain!HandleKept(c, e) \/ Drain!HandleFails(c, e)
             \/ Drain!DiscardKept(c, e) \/ Drain!DeadlineWithin(c, e)
      PROVE  DrainTypes' /\ Drain!KeptUntilHandled'
  <2>1. CASE Drain!Handle(c, e) \/ Drain!Discard(c, e)
    BY <1>3, <2>1 DEF Drain!Handle, Drain!Discard
  <2>2. CASE \/ Drain!Keep(c, e) \/ Drain!HandleKept(c, e) \/ Drain!HandleFails(c, e)
             \/ Drain!DiscardKept(c, e) \/ Drain!DeadlineWithin(c, e)
    <3>1. UNCHANGED <<kv, parked, fate, due>> /\ done \subseteq done'
      BY <2>2 DEF Drain!Keep, Drain!HandleKept, Drain!HandleFails, Drain!DiscardKept, Drain!DeadlineWithin
    <3> QED
      BY <1>4, <3>1
  <2> QED
    BY <1>7, <2>1, <2>2
<1>8. CASE UNCHANGED Drain!vars
  BY <1>2, <1>8 DEF Drain!vars
<1> QED
  BY <1>1, <1>5, <1>6, <1>7, <1>8 DEF Drain!Next, Drain!Step

(* A parked entry leaves the store only when it was handled, whoever       *)
(* fails, is too slow or handles it at the same time, or when it carries   *)
(* no event to handle (eventsub-replay/route.ts).                          *)
THEOREM DrainKeepsEntries ==
    ASSUME DrainBounds
    PROVE  Drain!Spec => []Drain!KeptUntilHandled
<1>1. Drain!Init => DrainTypes /\ Drain!KeptUntilHandled
  BY DrainInit
<1>2. DrainTypes /\ Drain!KeptUntilHandled /\ [Drain!Next]_Drain!vars
        => (DrainTypes /\ Drain!KeptUntilHandled)'
  BY DrainTypesStay
<1> QED
  BY <1>1, <1>2, PTL DEF Drain!Spec

(* Only parking gives an entry its fate, and nothing is taken back of what *)
(* was done and what was passed unseen.                                    *)
LEMMA DrainLeaves ==
    ASSUME [Drain!Next]_Drain!vars
    PROVE  /\ Drain!Park \/ fate' = fate
           /\ done \subseteq done' /\ cut \subseteq cut'
<1>1. CASE Drain!Park
  BY <1>1 DEF Drain!Park
<1>2. CASE \/ Drain!Age \/ Drain!Switch \/ Drain!Tick \/ Drain!Peek
           \/ Drain!PeekOutbox \/ Drain!Start
  BY <1>2 DEF Drain!Age, Drain!Switch, Drain!Tick, Drain!Peek, Drain!PeekOutbox, Drain!Start
<1>3. ASSUME NEW c \in Drain!Caller
      PROVE  /\ \/ Drain!ListFull(c) \/ Drain!Respond(c) \/ Drain!CallFails(c)
                \/ Drain!ListPart(c) \/ Drain!ListNothing(c)
                => fate' = fate /\ done' = done /\ cut' = cut
             /\ Drain!Deadline(c) => fate' = fate /\ done' = done /\ cut \subseteq cut'
  <2>1. Drain!ListFull(c) \/ Drain!ListPart(c) => fate' = fate /\ done' = done /\ cut' = cut
    BY DEF Drain!ListFull, Drain!ListPart, Drain!List
  <2>2. Drain!Respond(c) \/ Drain!CallFails(c) \/ Drain!ListNothing(c)
          => fate' = fate /\ done' = done /\ cut' = cut
    BY DEF Drain!Respond, Drain!CallFails, Drain!ListNothing
  <2>3. Drain!Deadline(c) => fate' = fate /\ done' = done /\ cut \subseteq cut'
    BY DEF Drain!Deadline, Drain!Dropped
  <2> QED
    BY <2>1, <2>2, <2>3
<1>4. ASSUME NEW c \in Drain!Caller, NEW e \in Drain!Entry
      PROVE  /\ \/ Drain!Handle(c, e) \/ Drain!Discard(c, e) \/ Drain!Keep(c, e)
                \/ Drain!HandleKept(c, e) \/ Drain!HandleFails(c, e) \/ Drain!DiscardKept(c, e)
                => fate' = fate /\ done \subseteq done' /\ cut' = cut
             /\ Drain!DeadlineWithin(c, e)
                => fate' = fate /\ done \subseteq done' /\ cut \subseteq cut'
  <2>1. Drain!Handle(c, e) \/ Drain!HandleKept(c, e) \/ Drain!HandleFails(c, e)
          => fate' = fate /\ done \subseteq done' /\ cut' = cut
    BY DEF Drain!Handle, Drain!HandleKept, Drain!HandleFails
  <2>2. Drain!Discard(c, e) \/ Drain!DiscardKept(c, e) \/ Drain!Keep(c, e)
          => fate' = fate /\ done \subseteq done' /\ cut' = cut
    BY DEF Drain!Discard, Drain!DiscardKept, Drain!Keep
  <2>3. Drain!DeadlineWithin(c, e)
          => fate' = fate /\ done \subseteq done' /\ cut \subseteq cut'
    BY DEF Drain!DeadlineWithin, Drain!Dropped
  <2> QED
    BY <2>1, <2>2, <2>3
<1>5. CASE UNCHANGED Drain!vars
  BY <1>5 DEF Drain!vars
<1> QED
  BY <1>1, <1>2, <1>3, <1>4, <1>5 DEF Drain!Next, Drain!Step

(* What is seen stays so.                                                  *)
LEMMA SeenStays ==
    ASSUME DrainBounds, DrainTypes, [Drain!Next]_Drain!vars
    PROVE  /\ \A e \in due : Seen(e) => Seen(e)'
           /\ \A e \in 1..parked : fate'[e] = fate[e]
<1>1. \A e \in 1..parked : fate'[e] = fate[e]
  <2>1. CASE Drain!Park
    <3>1. PICK f \in Drain!Fate : fate' = [fate EXCEPT ![parked'] = f]
      BY <2>1 DEF Drain!Park
    <3>2. /\ parked' = parked + 1 /\ parked < MaxEntries /\ MaxEntries \in Nat /\ parked \in Nat
      BY <2>1 DEF Drain!Park, DrainBounds, DrainTypes
    <3>3. \A e \in 1..parked : e \in Drain!Entry /\ e # parked'
      BY <3>2 DEF Drain!Entry
    <3> QED
      BY <3>1, <3>3 DEF DrainTypes
  <2>2. CASE fate' = fate
    BY <2>2
  <2> QED
    BY <2>1, <2>2, DrainLeaves
<1>2. done \subseteq done' /\ cut \subseteq cut'
  BY DrainLeaves
<1>3. due \subseteq 1..parked
  BY DEF DrainTypes
<1> QED
  BY <1>1, <1>2, <1>3 DEF Seen

(* The script has the same when it does not move.                          *)
LEMMA ScriptWaits ==
    ASSUME ScriptHas, request'["script"] = request["script"], due' = due,
           \A e \in due : Seen(e) => Seen(e)'
    PROVE  ScriptHas'
BY DEF ScriptHas, Drain!Idle

LEMMA ScriptLists ==
    ASSUME DrainTypes, Drain!KeptUntilHandled, ScriptHas,
           NEW n \in Nat, Drain!List("script", n)
    PROVE  ScriptHas'
<1> DEFINE s == request["script"]
           t == request'["script"]
           P == Drain!Page("script", n)
<1>1. "script" \in Drain!Caller /\ s \in Request
  BY DEF DrainTypes, Drain!Caller
<1>2. /\ t.at = "handle" /\ t.page = P /\ t.failed = s.failed
      /\ t.cursor = IF P = {} THEN s.cursor ELSE Drain!Last(P)
      /\ t.complete = \A e \in Drain!Beyond(s.cursor) : P # {} /\ e <= Drain!Last(P)
      /\ s.at = "list" /\ done' = done /\ cut' = cut /\ fate' = fate /\ due' = due
  BY <1>1 DEF Drain!List, DrainTypes, Request
<1>3. s.page = {}
  BY <1>2 DEF ScriptHas
<1>4. ASSUME ~s.failed, NEW e \in due, ~Seen(e)
      PROVE  /\ e \in P \/ e > t.cursor
             /\ t.complete => e \in P
  <2>1. e > s.cursor /\ e \in kv /\ e \in Nat /\ s.cursor \in Nat
    BY <1>1, <1>3, <1>4 DEF ScriptHas, DrainTypes, Drain!KeptUntilHandled, Request, Seen
  <2>2. e \in Drain!Beyond(s.cursor)
    BY <2>1 DEF Drain!Beyond
  <2>3. P # {} => Drain!Last(P) \in P /\ Drain!Last(P) \in Nat
    BY <1>1, PageTypes
  <2>4. e \notin P /\ P # {} => Drain!Last(P) < e
    BY <1>1, <2>1, <2>3, PageTypes
  <2> HIDE DEF P
  <2>5. CASE P = {}
    BY <1>2, <2>1, <2>2, <2>5
  <2>6. CASE P # {}
    BY <1>2, <2>1, <2>2, <2>3, <2>4, <2>6
  <2> QED
    BY <2>5, <2>6
<1>5. \A e : Seen(e)' = Seen(e)
  BY <1>2 DEF Seen
<1> HIDE DEF P
<1> QED
  BY <1>2, <1>4, <1>5 DEF ScriptHas

(* An entry leaves the page seen, or the script fails.                     *)
LEMMA ScriptHandles ==
    ASSUME DrainTypes, ScriptHas, NEW e,
           request["script"].at = "handle",
           \/ Drain!Passed("script", e) /\ Seen(e)'
           \/ Drain!Failed("script", e),
           \A f \in due : Seen(f) => Seen(f)', due' = due
    PROVE  ScriptHas'
<1>1. request["script"] \in Request /\ "script" \in Drain!Caller
  BY DEF DrainTypes, Drain!Caller
<1>2. /\ request'["script"].at = "handle"
      /\ request'["script"].page = request["script"].page \ {e}
      /\ request'["script"].cursor = request["script"].cursor
      /\ request'["script"].complete = request["script"].complete
      /\ \/ request'["script"].failed
         \/ /\ request'["script"].failed = request["script"].failed
            /\ Seen(e)'
  BY <1>1 DEF Drain!Passed, Drain!Failed, DrainTypes, Request
<1> QED
  BY <1>2 DEF ScriptHas

(* At the deadline the rest of the page counts as passed unseen.           *)
LEMMA ScriptIsCut ==
    ASSUME DrainTypes, ScriptHas, request["script"].at = "handle",
           \/ request' = [request EXCEPT !["script"].page = {}]
           \/ request' = [request EXCEPT !["script"].page = {}, !["script"].failed = TRUE],
           cut' = cut \cup request["script"].page,
           \A f \in due : Seen(f) => Seen(f)', due' = due
    PROVE  ScriptHas'
<1>1. request["script"] \in Request /\ "script" \in Drain!Caller
  BY DEF DrainTypes, Drain!Caller
<1>2. /\ request'["script"].at = "handle" /\ request'["script"].page = {}
      /\ request'["script"].cursor = request["script"].cursor
      /\ request'["script"].complete = request["script"].complete
      /\ \/ request'["script"].failed
         \/ request'["script"].failed = request["script"].failed
  BY <1>1 DEF DrainTypes, Request
<1>3. \A e \in request["script"].page : Seen(e)'
  BY DEF Seen
<1> QED
  BY <1>2, <1>3 DEF ScriptHas

(* The cron's requests are not the script's.                               *)
LEMMA CronApart ==
    ASSUME DrainTypes, NEW c \in Drain!Caller, c # "script",
           \/ \E n \in Nat : Drain!List(c, n)
           \/ Drain!Respond(c) \/ Drain!CallFails(c) \/ Drain!ListNothing(c)
           \/ Drain!Deadline(c)
           \/ \E e : Drain!Passed(c, e) \/ Drain!Failed(c, e) \/ Drain!DeadlineWithin(c, e)
    PROVE  request'["script"] = request["script"]
<1> USE DEF DrainTypes, Drain!Caller
<1>1. CASE \E n \in Nat : Drain!List(c, n)
  BY <1>1 DEF Drain!List
<1>2. CASE Drain!Respond(c) \/ Drain!CallFails(c) \/ Drain!Deadline(c)
  BY <1>2 DEF Drain!Respond, Drain!CallFails, Drain!Deadline
<1>3. CASE Drain!ListNothing(c)
  BY <1>3 DEF Drain!ListNothing
<1>4. CASE \E e : Drain!Passed(c, e) \/ Drain!Failed(c, e) \/ Drain!DeadlineWithin(c, e)
  BY <1>4 DEF Drain!Passed, Drain!Failed, Drain!DeadlineWithin
<1> QED
  BY <1>1, <1>2, <1>3, <1>4

LEMMA ScriptHasStays ==
    ASSUME DrainBounds, DrainTypes, Drain!KeptUntilHandled, ScriptHas,
           [Drain!Next]_Drain!vars
    PROVE  ScriptHas'
<1>0. /\ "script" \in Drain!Caller /\ request["script"] \in Request
      /\ request \in [Drain!Caller -> Request]
      /\ \A e \in due : Seen(e) => Seen(e)'
      /\ \A e \in 1..parked : fate'[e] = fate[e]
  BY SeenStays DEF DrainTypes, Drain!Caller
<1>1. CASE Drain!Park \/ Drain!Age \/ Drain!Switch \/ UNCHANGED Drain!vars
  BY <1>0, <1>1, ScriptWaits DEF Drain!Park, Drain!Age, Drain!Switch, Drain!vars
<1>2. CASE Drain!Tick \/ Drain!Peek \/ Drain!PeekOutbox
  <2>1. request'["script"] = request["script"]
    <3>1. CASE Drain!Tick
      BY <3>1 DEF Drain!Tick, DrainTypes
    <3>2. CASE Drain!Peek
      BY <3>2 DEF Drain!Peek, DrainTypes
    <3>3. CASE Drain!PeekOutbox
      BY <3>3 DEF Drain!PeekOutbox, DrainTypes
    <3> QED
      BY <1>2, <3>1, <3>2, <3>3
  <2> QED
    BY <1>0, <1>2, <2>1, ScriptWaits DEF Drain!Tick, Drain!Peek, Drain!PeekOutbox
<1>3. CASE Drain!Start
  <2>1. request["script"] = Drain!Idle
    BY <1>3 DEF Drain!Start, ScriptHas
  <2>2. /\ request'["script"].at = "list" /\ request'["script"].page = {}
        /\ request'["script"].cursor = 0
    BY <1>0, <1>3, <2>1 DEF Drain!Start, DrainTypes, Drain!Idle
  <2>3. \A e \in kv : e > 0
    BY DEF DrainTypes
  <2> QED
    BY <1>3, <2>2, <2>3 DEF Drain!Start, ScriptHas
<1>4. ASSUME NEW c \in Drain!Caller, NEW n \in Nat, Drain!List(c, n) PROVE ScriptHas'
  <2>1. CASE c # "script"
    BY <1>0, <1>4, <2>1, CronApart, ScriptWaits DEF Drain!List
  <2>2. CASE c = "script"
    BY <1>4, <2>2, ScriptLists
  <2> QED
    BY <2>1, <2>2
<1>5. ASSUME NEW c \in Drain!Caller, Drain!ListNothing(c) PROVE ScriptHas'
  <2>1. CASE c # "script"
    BY <1>0, <1>5, <2>1, CronApart, ScriptWaits DEF Drain!ListNothing
  <2>2. CASE c = "script"
    <3>1. /\ request'["script"].at = "handle" /\ ~request'["script"].complete
          /\ request'["script"].page = request["script"].page
          /\ request'["script"].cursor = request["script"].cursor
          /\ request'["script"].failed = request["script"].failed
      BY <1>0, <1>5, <2>2 DEF Drain!ListNothing, Request
    <3> QED
      BY <1>0, <1>5, <3>1 DEF Drain!ListNothing, ScriptHas
  <2> QED
    BY <2>1, <2>2
<1>6. ASSUME NEW c \in Drain!Caller, Drain!Respond(c) PROVE ScriptHas'
  <2>1. CASE c # "script"
    BY <1>0, <1>6, <2>1, CronApart, ScriptWaits DEF Drain!Respond
  <2>2. CASE c = "script"
    <3>1. request["script"].at = "handle" /\ request["script"].page = {}
      BY <1>6, <2>2 DEF Drain!Respond
    <3>2. request'["script"] = [request["script"] EXCEPT !.at =
            IF request["script"].complete THEN "end" ELSE "list"]
      BY <1>0, <1>6, <2>2 DEF Drain!Respond, DrainTypes
    <3>3. /\ request'["script"].at = IF request["script"].complete THEN "end" ELSE "list"
          /\ request'["script"].page = {}
          /\ request'["script"].cursor = request["script"].cursor
          /\ request'["script"].failed = request["script"].failed
      BY <1>0, <3>1, <3>2 DEF Request
    <3> QED
      BY <1>0, <1>6, <3>1, <3>3 DEF Drain!Respond, ScriptHas
  <2> QED
    BY <2>1, <2>2
<1>7. ASSUME NEW c \in Drain!Caller, Drain!CallFails(c) PROVE ScriptHas'
  <2>1. CASE c # "script"
    BY <1>0, <1>7, <2>1, CronApart, ScriptWaits DEF Drain!CallFails
  <2>2. CASE c = "script"
    <3>1. request'["script"].at = "end" /\ request'["script"].failed
      BY <1>0, <1>7, <2>2 DEF Drain!CallFails, DrainTypes, Drain!Idle
    <3> QED
      BY <3>1 DEF ScriptHas
  <2> QED
    BY <2>1, <2>2
<1>8. ASSUME NEW c \in Drain!Caller, Drain!Deadline(c) PROVE ScriptHas'
  <2>1. CASE c # "script"
    BY <1>0, <1>8, <2>1, CronApart, ScriptWaits DEF Drain!Deadline
  <2>2. CASE c = "script"
    BY <1>0, <1>8, <2>2, ScriptIsCut DEF Drain!Deadline, Drain!Dropped
  <2> QED
    BY <2>1, <2>2
<1>9. ASSUME NEW c \in Drain!Caller, NEW e \in Drain!Entry, Drain!DeadlineWithin(c, e)
      PROVE  ScriptHas'
  <2>1. CASE c # "script"
    BY <1>0, <1>9, <2>1, CronApart, ScriptWaits DEF Drain!DeadlineWithin
  <2>2. CASE c = "script"
    BY <1>0, <1>9, <2>2, ScriptIsCut DEF Drain!DeadlineWithin, Drain!Dropped, Drain!Turn
  <2> QED
    BY <2>1, <2>2
<1>10. ASSUME NEW c \in Drain!Caller, NEW e \in Drain!Entry, due' = due,
              Drain!Turn(c, e),
              \/ Drain!Passed(c, e) /\ Seen(e)'
              \/ Drain!Failed(c, e)
       PROVE  ScriptHas'
  <2>1. CASE c # "script"
    BY <1>0, <1>10, <2>1, CronApart, ScriptWaits
  <2>2. CASE c = "script"
    BY <1>0, <1>10, <2>2, ScriptHandles DEF Drain!Turn
  <2> QED
    BY <2>1, <2>2
<1>11. ASSUME NEW c \in Drain!Caller, NEW e \in Drain!Entry,
              \/ Drain!Handle(c, e) \/ Drain!Discard(c, e) \/ Drain!Keep(c, e)
              \/ Drain!HandleKept(c, e) \/ Drain!HandleFails(c, e)
              \/ Drain!DiscardKept(c, e)
       PROVE  ScriptHas'
  <2>1. /\ due' = due /\ Drain!Turn(c, e)
        /\ \/ Drain!Passed(c, e) /\ Seen(e)'
           \/ Drain!Failed(c, e)
    BY <1>11 DEF Drain!Handle, Drain!Discard, Drain!Keep, Drain!HandleKept,
       Drain!HandleFails, Drain!DiscardKept, Seen
  <2> QED
    BY <1>10, <2>1
<1> QED
  BY <1>1, <1>2, <1>3, <1>4, <1>5, <1>6, <1>7, <1>8, <1>9, <1>11, Listed
     DEF Drain!Next, Drain!Step

(* A script that ends without an error has seen every entry it found but   *)
(* those behind a deadline of its requests, however the cron and the       *)
(* webhook interfere and whatever fails: each was handled, carried no      *)
(* event or has no handler (replay-maintenance-eventsub.js, route.ts).     *)
THEOREM DrainIsComplete ==
    ASSUME DrainBounds
    PROVE  Drain!Spec => []Drain!ScriptComplete
<1>1. Drain!Init => DrainTypes /\ Drain!KeptUntilHandled /\ ScriptHas
  BY DrainInit
<1>2. DrainTypes /\ Drain!KeptUntilHandled /\ ScriptHas /\ [Drain!Next]_Drain!vars
        => (DrainTypes /\ Drain!KeptUntilHandled /\ ScriptHas)'
  BY DrainTypesStay, ScriptHasStays
<1>3. ScriptHas => Drain!ScriptComplete
  BY DEF ScriptHas, Drain!ScriptComplete, Seen
<1> QED
  BY <1>1, <1>2, <1>3, PTL DEF Drain!Spec

-----------------------------------------------------------------------------
(* The statistics that triggers keep.                                      *)
Viewers == Stats!Nobody \notin User

Owner == User \cup {Stats!Nobody}

\* Nothing is needed of a count but that it is one.
Figure == {Stats!Count(o, u) : o \in [Row -> Owner], u \in User} \cup {0}

Written == UNION {[D -> Figure] : D \in SUBSET User}

Tx == [at : {"idle", "count", "write", "commit"}, row : Row \cup {Stats!Nobody},
       to : Owner, queue : Seq(User), seen : Figure, wrote : Written,
       fresh : SUBSET User]

\* The viewers a transaction concerns.
Concerns(s) == {owner[tx[s].row], tx[s].to}

StatsTypes ==
    /\ owner \in [Row -> Owner] /\ tx \in [Session -> Tx]
    /\ \A s \in Session : tx[s].at # "idle" =>
         /\ tx[s].row \in Row
         /\ tx[s].fresh \subseteq Concerns(s)
         /\ DOMAIN tx[s].wrote \subseteq Concerns(s)
         /\ \A i \in 1..Len(tx[s].queue) :
              tx[s].queue[i] \in Concerns(s) \ DOMAIN tx[s].wrote
         /\ \A i, j \in 1..Len(tx[s].queue) :
              tx[s].queue[i] = tx[s].queue[j] => i = j
         /\ tx[s].at \in {"count", "write"} => tx[s].queue # <<>>

\* The rows of open transactions differ: a row is locked.
RowsApart ==
    \A s, q \in Session :
      tx[s].at # "idle" /\ tx[q].at # "idle" /\ tx[s].row = tx[q].row => s = q

(* What a transaction has counted, and nobody has changed since, is what   *)
(* it sees, what it has written, or what it leaves.                        *)
Counted ==
    \A s \in Session, u \in User : tx[s].at # "idle" /\ u \in tx[s].fresh =>
      IF tx[s].at = "write" /\ u = Head(tx[s].queue)
      THEN tx[s].seen = Stats!Count(Stats!View(s), u)
      ELSE /\ u \in DOMAIN tx[s].wrote => tx[s].wrote[u] = Stats!Count(Stats!View(s), u)
           /\ u \notin DOMAIN tx[s].wrote => stat[u] = Stats!Count(Stats!View(s), u)

Kept == StatsTypes /\ RowsApart /\ Counted

LEMMA SameCount ==
    ASSUME NEW o1, NEW o2, NEW u, \A r \in Row : o1[r] = u <=> o2[r] = u
    PROVE  Stats!Count(o1, u) = Stats!Count(o2, u)
<1>1. {r \in Row : o1[r] = u} = {r \in Row : o2[r] = u}
  OBVIOUS
<1> QED
  BY <1>1 DEF Stats!Count

LEMMA ViewTypes ==
    ASSUME StatsTypes, NEW s \in Session
    PROVE  /\ Stats!View(s) \in [Row -> Owner]
           /\ \A u \in User : Stats!Count(Stats!View(s), u) \in Figure
<1>1. Stats!View(s) \in [Row -> Owner]
  BY DEF Stats!View, StatsTypes, Tx
<1> QED
  BY <1>1 DEF Figure

LEMMA NoTxIsTx == Stats!NoTx \in Tx /\ Stats!NoTx.at = "idle"
<1>1. <<>> \in Written
  BY DEF Written
<1> QED
  BY <1>1 DEF Stats!NoTx, Tx, Figure, Owner

LEMMA KeptInit == Stats!Init => Kept
<1> SUFFICES ASSUME Stats!Init PROVE Kept
  OBVIOUS
<1> QED
  BY NoTxIsTx DEF Stats!Init, Kept, StatsTypes, RowsApart, Counted, Owner, Stats!NoTx

(* A transaction begins.                                                   *)
LEMMA BeginKept ==
    ASSUME Viewers, Kept, NEW s \in Session, NEW r \in Row, NEW u \in Owner,
           Stats!Change(s, r, u)
    PROVE  Kept'
<1> DEFINE Q == Stats!Viewers(owner[r], u)
<1>1. owner \in [Row -> Owner] /\ tx \in [Session -> Tx] /\ owner[r] # u
  BY DEF Kept, StatsTypes, Stats!Change
<1>2. /\ Q \in Seq(User) /\ Q # <<>>
      /\ \A i \in 1..Len(Q) : Q[i] \in {owner[r], u}
      /\ \A i, j \in 1..Len(Q) : Q[i] = Q[j] => i = j
  <2>1. CASE owner[r] = Stats!Nobody
    BY <1>1, <2>1 DEF Stats!Viewers, Owner
  <2>2. CASE u = Stats!Nobody
    BY <1>1, <2>2 DEF Stats!Viewers, Owner
  <2>3. CASE owner[r] # Stats!Nobody /\ u # Stats!Nobody
    BY <1>1, <2>3 DEF Stats!Viewers, Owner
  <2> QED
    BY <2>1, <2>2, <2>3
<1> HIDE DEF Q
<1>3. /\ tx' = [tx EXCEPT ![s] = [Stats!NoTx EXCEPT !.at = "count", !.row = r, !.to = u,
                                                    !.queue = Q]]
      /\ owner' = owner /\ stat' = stat
  BY DEF Stats!Change, Q
<1>4. <<>> \in Written
  BY DEF Written
<1>5. /\ tx'[s] \in Tx /\ tx'[s].at = "count" /\ tx'[s].row = r /\ tx'[s].to = u
      /\ tx'[s].queue = Q /\ tx'[s].fresh = {} /\ tx'[s].wrote = <<>>
      /\ \A q \in Session \ {s} : tx'[q] = tx[q]
      /\ tx' \in [Session -> Tx]
  <2> DEFINE t == [Stats!NoTx EXCEPT !.at = "count", !.row = r, !.to = u, !.queue = Q]
  <2>1. /\ t.at = "count" /\ t.row = r /\ t.to = u /\ t.queue = Q
        /\ t.fresh = {} /\ t.wrote = <<>>
    BY DEF Stats!NoTx
  <2>2. t \in Tx
    <3>1. 0 \in Figure /\ Q \in Seq(User)
      BY <1>2 DEF Figure
    <3> QED
      BY <1>4, <3>1 DEF Stats!NoTx, Tx
  <2>3. tx' = [tx EXCEPT ![s] = t]
    BY <1>3
  <2> HIDE DEF t
  <2> QED
    BY <1>1, <2>1, <2>2, <2>3
<1>6. StatsTypes'
  BY <1>1, <1>2, <1>3, <1>5 DEF Kept, StatsTypes, Concerns
<1>7. RowsApart'
  BY <1>3, <1>5 DEF Kept, RowsApart, Stats!Change
<1>8. Counted'
  BY <1>3, <1>5 DEF Kept, Counted, Stats!View
<1> QED
  BY <1>6, <1>7, <1>8 DEF Kept

(* A step of a transaction on its own: its row, its goal and the others    *)
(* stay.                                                                   *)
LEMMA StepKept ==
    ASSUME Kept, NEW s \in Session, tx[s].at # "idle",
           NEW t \in Tx, tx' = [tx EXCEPT ![s] = t], owner' = owner, stat' = stat,
           t.at # "idle", t.row = tx[s].row, t.to = tx[s].to,
           t.fresh \subseteq Concerns(s), DOMAIN t.wrote \subseteq Concerns(s),
           \A i \in 1..Len(t.queue) : t.queue[i] \in Concerns(s) \ DOMAIN t.wrote,
           \A i, j \in 1..Len(t.queue) : t.queue[i] = t.queue[j] => i = j,
           t.at \in {"count", "write"} => t.queue # <<>>,
           \A u \in User : u \in t.fresh =>
             IF t.at = "write" /\ u = Head(t.queue)
             THEN t.seen = Stats!Count(Stats!View(s), u)
             ELSE /\ u \in DOMAIN t.wrote => t.wrote[u] = Stats!Count(Stats!View(s), u)
                  /\ u \notin DOMAIN t.wrote => stat[u] = Stats!Count(Stats!View(s), u)
    PROVE  Kept'
<1>1. /\ tx'[s] = t /\ \A q \in Session \ {s} : tx'[q] = tx[q]
      /\ tx' \in [Session -> Tx]
  BY DEF Kept, StatsTypes
<1>2. \A q \in Session : Concerns(q)' = Concerns(q)
  BY <1>1 DEF Concerns
<1>3. StatsTypes'
  <2> SUFFICES ASSUME NEW q \in Session, tx'[q].at # "idle"
               PROVE  /\ tx'[q].row \in Row
                      /\ tx'[q].fresh \subseteq Concerns(q)
                      /\ DOMAIN tx'[q].wrote \subseteq Concerns(q)
                      /\ \A i \in 1..Len(tx'[q].queue) :
                           tx'[q].queue[i] \in Concerns(q) \ DOMAIN tx'[q].wrote
                      /\ \A i, j \in 1..Len(tx'[q].queue) :
                           tx'[q].queue[i] = tx'[q].queue[j] => i = j
                      /\ tx'[q].at \in {"count", "write"} => tx'[q].queue # <<>>
    BY <1>1, <1>2 DEF Kept, StatsTypes
  <2>1. CASE q = s
    BY <1>1, <2>1 DEF Kept, StatsTypes
  <2>2. CASE q # s
    BY <1>1, <2>2 DEF Kept, StatsTypes
  <2> QED
    BY <2>1, <2>2
<1>4. RowsApart'
  BY <1>1 DEF Kept, RowsApart
<1>5. \A q \in Session : Stats!View(q)' = Stats!View(q)
  BY <1>1 DEF Stats!View
<1>6. Counted'
  <2> SUFFICES ASSUME NEW q \in Session, NEW u \in User,
                      tx'[q].at # "idle", u \in tx'[q].fresh
               PROVE  IF tx'[q].at = "write" /\ u = Head(tx'[q].queue)
                      THEN tx'[q].seen = Stats!Count(Stats!View(q), u)
                      ELSE /\ u \in DOMAIN tx'[q].wrote
                                => tx'[q].wrote[u] = Stats!Count(Stats!View(q), u)
                           /\ u \notin DOMAIN tx'[q].wrote
                                => stat[u] = Stats!Count(Stats!View(q), u)
    BY <1>5 DEF Counted
  <2>1. CASE q = s
    BY <1>1, <2>1
  <2>2. CASE q # s
    BY <1>1, <2>2 DEF Kept, Counted
  <2> QED
    BY <2>1, <2>2
<1> QED
  BY <1>3, <1>4, <1>6 DEF Kept

LEMMA SeeKept ==
    ASSUME Viewers, Kept, NEW s \in Session, Stats!See(s) PROVE Kept'
<1> DEFINE h == Head(tx[s].queue)
           n == Stats!Count(Stats!View(s), h)
           t == [tx[s] EXCEPT !.at = "write", !.seen = n, !.fresh = @ \cup {h}]
<1>1. tx[s] \in Tx /\ tx[s].at = "count" /\ tx[s].queue \in Seq(User)
      /\ tx[s].queue # <<>>
  BY DEF Stats!See, Kept, StatsTypes, Tx
<1>2. h \in User /\ h = tx[s].queue[1] /\ 1 \in 1..Len(tx[s].queue)
  BY <1>1
<1>3. h \in Concerns(s)
  BY <1>1, <1>2 DEF Kept, StatsTypes
<1>4. n \in Figure
  BY <1>2, ViewTypes DEF Kept
<1> HIDE DEF h, n
<1>5. /\ t \in Tx /\ t.at = "write" /\ t.seen = n /\ t.fresh = tx[s].fresh \cup {h}
      /\ t.row = tx[s].row /\ t.to = tx[s].to /\ t.queue = tx[s].queue
      /\ t.wrote = tx[s].wrote
  BY <1>1, <1>2, <1>4 DEF Tx
<1>6. tx' = [tx EXCEPT ![s] = t] /\ owner' = owner /\ stat' = stat
  <2>1. tx \in [Session -> Tx]
    BY DEF Kept, StatsTypes
  <2> QED
    BY <2>1 DEF Stats!See, h, n
<1> HIDE DEF t
<1>7. ASSUME NEW u \in User, u \in t.fresh
      PROVE  IF t.at = "write" /\ u = Head(t.queue)
             THEN t.seen = Stats!Count(Stats!View(s), u)
             ELSE /\ u \in DOMAIN t.wrote => t.wrote[u] = Stats!Count(Stats!View(s), u)
                  /\ u \notin DOMAIN t.wrote => stat[u] = Stats!Count(Stats!View(s), u)
  <2>1. CASE u = h
    BY <1>5, <2>1 DEF h, n
  <2>2. CASE u # h
    BY <1>1, <1>5, <1>7, <2>2 DEF Kept, Counted, h
  <2> QED
    BY <2>1, <2>2
<1>8. /\ t.fresh \subseteq Concerns(s) /\ DOMAIN t.wrote \subseteq Concerns(s)
      /\ \A i \in 1..Len(t.queue) : t.queue[i] \in Concerns(s) \ DOMAIN t.wrote
      /\ \A i, j \in 1..Len(t.queue) : t.queue[i] = t.queue[j] => i = j
      /\ t.queue # <<>>
  BY <1>1, <1>3, <1>5 DEF Kept, StatsTypes
<1> QED
  BY <1>1, <1>5, <1>6, <1>7, <1>8, StepKept

(* The statement writes w, and the next viewer is counted.                 *)
LEMMA WroteKept ==
    ASSUME Viewers, Kept, NEW s \in Session, NEW w \in Written, Stats!Wrote(s, w),
           tx[s].at = "write",
           DOMAIN w \subseteq DOMAIN tx[s].wrote \cup {Head(tx[s].queue)},
           \A u \in DOMAIN tx[s].wrote :
             u \in DOMAIN w /\ (u # Head(tx[s].queue) => w[u] = tx[s].wrote[u]),
           LET h == Head(tx[s].queue) IN
             /\ h \in DOMAIN w => w[h] = tx[s].seen
             /\ h \notin DOMAIN w => stat[h] = tx[s].seen
    PROVE  Kept'
<1> DEFINE q == tx[s].queue
           h == Head(q)
           t == [tx[s] EXCEPT !.wrote = w, !.queue = Tail(q),
                              !.at = IF Len(q) = 1 THEN "commit" ELSE "count"]
<1>1. tx[s] \in Tx /\ q \in Seq(User) /\ q # <<>> /\ tx \in [Session -> Tx]
  BY DEF Kept, StatsTypes, Tx
<1>2. h \in User /\ h = q[1] /\ 1 \in 1..Len(q)
  BY <1>1
<1>3. /\ Tail(q) \in Seq(User) /\ Len(Tail(q)) = Len(q) - 1 /\ Len(q) \in Nat
      /\ \A i \in 1..Len(Tail(q)) : Tail(q)[i] = q[i + 1] /\ i + 1 \in 1..Len(q)
  BY <1>1
<1>4. /\ \A i \in 1..Len(q) : q[i] \in Concerns(s) \ DOMAIN tx[s].wrote
      /\ \A i, j \in 1..Len(q) : q[i] = q[j] => i = j
      /\ tx[s].fresh \subseteq Concerns(s) /\ DOMAIN tx[s].wrote \subseteq Concerns(s)
  BY <1>1 DEF Kept, StatsTypes
<1>5. /\ t \in Tx /\ t.at \in {"commit", "count"} /\ t.seen = tx[s].seen
      /\ t.fresh = tx[s].fresh /\ t.row = tx[s].row /\ t.to = tx[s].to
      /\ t.queue = Tail(q) /\ t.wrote = w
      /\ t.at = "count" => Len(q) # 1
  BY <1>1, <1>3 DEF Tx
<1>6. tx' = [tx EXCEPT ![s] = t] /\ owner' = owner /\ stat' = stat
  BY <1>1 DEF Stats!Wrote
<1> HIDE DEF t
<1>7. \A i \in 1..Len(t.queue) : t.queue[i] \in Concerns(s) \ DOMAIN t.wrote
  <2> SUFFICES ASSUME NEW i \in 1..Len(Tail(q))
               PROVE  Tail(q)[i] \in Concerns(s) \ DOMAIN w
    BY <1>5
  <2>1. Tail(q)[i] = q[i + 1] /\ i + 1 \in 1..Len(q) /\ i + 1 # 1
    BY <1>3
  <2>2. q[i + 1] # h
    BY <1>2, <1>4, <2>1
  <2> QED
    BY <1>4, <2>1, <2>2
<1>8. \A i, j \in 1..Len(t.queue) : t.queue[i] = t.queue[j] => i = j
  <2> SUFFICES ASSUME NEW i \in 1..Len(Tail(q)), NEW j \in 1..Len(Tail(q)),
                      Tail(q)[i] = Tail(q)[j]
               PROVE  i = j
    BY <1>5
  <2>1. /\ Tail(q)[i] = q[i + 1] /\ i + 1 \in 1..Len(q)
        /\ Tail(q)[j] = q[j + 1] /\ j + 1 \in 1..Len(q)
    BY <1>3
  <2>2. i + 1 = j + 1
    BY <1>4, <2>1
  <2> QED
    BY <2>2
<1>9. t.at = "count" => t.queue # <<>>
  <2>1. Len(q) # 1 => Len(Tail(q)) # 0
    BY <1>2, <1>3
  <2>2. \A z : z = <<>> => Len(z) = 0
    OBVIOUS
  <2> HIDE DEF q
  <2> QED
    BY <1>5, <2>1, <2>2
<1>10. ASSUME NEW u \in User, u \in t.fresh
       PROVE  /\ u \in DOMAIN w => w[u] = Stats!Count(Stats!View(s), u)
              /\ u \notin DOMAIN w => stat[u] = Stats!Count(Stats!View(s), u)
  <2>1. CASE u = h
    <3>1. tx[s].seen = Stats!Count(Stats!View(s), u)
      BY <1>5, <1>10, <2>1 DEF Kept, Counted
    <3> QED
      BY <2>1, <3>1
  <2>2. CASE u # h
    <3>1. /\ u \in DOMAIN tx[s].wrote => tx[s].wrote[u] = Stats!Count(Stats!View(s), u)
          /\ u \notin DOMAIN tx[s].wrote => stat[u] = Stats!Count(Stats!View(s), u)
      BY <1>5, <1>10, <2>2 DEF Kept, Counted
    <3> QED
      BY <2>2, <3>1
  <2> QED
    BY <2>1, <2>2
<1>11. DOMAIN t.wrote \subseteq Concerns(s)
  BY <1>2, <1>4, <1>5
<1> HIDE DEF q, h
<1> QED
  BY <1>4, <1>5, <1>6, <1>7, <1>8, <1>9, <1>10, <1>11, StepKept

LEMMA WriteKept ==
    ASSUME Viewers, Kept, NEW s \in Session, Stats!Upsert(s) \/ Stats!Clear(s)
    PROVE  Kept'
<1> DEFINE h == Head(tx[s].queue)
           o == tx[s].wrote
           n == tx[s].seen
           w == Stats!With(o, h, n)
<1>1. /\ tx[s] \in Tx /\ tx[s].at = "write" /\ h \in User /\ o \in Written
      /\ n \in Figure /\ h \notin DOMAIN o
  <2>1. tx[s] \in Tx /\ tx[s].at = "write"
    BY DEF Stats!Upsert, Stats!Clear, Kept, StatsTypes
  <2>2. tx[s].queue \in Seq(User) /\ tx[s].queue # <<>>
    BY <2>1 DEF Kept, StatsTypes, Tx
  <2>3. h = tx[s].queue[1] /\ 1 \in 1..Len(tx[s].queue) /\ h \in User
    BY <2>2
  <2> QED
    BY <2>1, <2>3 DEF Kept, StatsTypes, Tx
<1> HIDE DEF h, o, n
<1>2. DOMAIN w = DOMAIN o \cup {h} /\ w[h] = n /\ \A u \in DOMAIN o : u # h => w[u] = o[u]
  BY DEF Stats!With
<1>3. w \in Written
  <2>1. PICK D \in SUBSET User : o \in [D -> Figure]
    BY <1>1 DEF Written
  <2>2. w \in [D \cup {h} -> Figure] /\ D \cup {h} \in SUBSET User
    BY <1>1, <2>1 DEF Stats!With
  <2> QED
    BY <2>2 DEF Written
<1> HIDE DEF w
<1>4. CASE Stats!Wrote(s, w)
  BY <1>1, <1>2, <1>3, <1>4, WroteKept DEF h, o, n
<1>5. CASE Stats!Wrote(s, o) /\ stat[h] = n
  BY <1>1, <1>5, WroteKept DEF h, o, n
<1>6. Stats!Wrote(s, w) \/ (Stats!Wrote(s, o) /\ stat[h] = n)
  BY DEF Stats!Upsert, Stats!Clear, h, o, n, w
<1> QED
  BY <1>4, <1>5, <1>6

(* A transaction that commits changes what others see of its viewers only, *)
(* and those are no longer counted.                                        *)
LEMMA CommitKept ==
    ASSUME Viewers, Kept, NEW s \in Session, Stats!Commit(s) PROVE Kept'
<1>1. /\ owner \in [Row -> Owner] /\ tx \in [Session -> Tx] /\ tx[s] \in Tx
      /\ tx[s].at = "commit" /\ tx[s].row \in Row
      /\ DOMAIN tx[s].wrote \subseteq Concerns(s)
  BY DEF Kept, StatsTypes, Stats!Commit
<1>2. /\ \A u \in User \ Concerns(s) : stat'[u] = stat[u]
      /\ owner' = Stats!View(s) /\ owner' \in [Row -> Owner]
      /\ \A r \in Row : r # tx[s].row => owner'[r] = owner[r]
      /\ owner'[tx[s].row] = tx[s].to
  BY <1>1, ViewTypes DEF Stats!Commit, Stats!View, Kept
<1>3. Stats!NoTx \in Tx /\ Stats!NoTx.at = "idle"
  BY NoTxIsTx
<1>4. /\ tx'[s] = Stats!NoTx
      /\ \A q \in Session \ {s} : tx'[q] = [tx[q] EXCEPT !.fresh = @ \ Concerns(s)]
      /\ tx' = [q \in Session |-> tx'[q]]
  BY DEF Stats!Commit, Concerns
<1>5. ASSUME NEW q \in Session \ {s}
      PROVE  /\ tx'[q] \in Tx /\ tx'[q].at = tx[q].at /\ tx'[q].row = tx[q].row
             /\ tx'[q].to = tx[q].to /\ tx'[q].queue = tx[q].queue
             /\ tx'[q].seen = tx[q].seen /\ tx'[q].wrote = tx[q].wrote
             /\ tx'[q].fresh = tx[q].fresh \ Concerns(s)
  <2>1. tx[q] \in Tx
    BY <1>1
  <2> QED
    BY <1>4, <2>1 DEF Tx
<1>6. tx' \in [Session -> Tx]
  BY <1>3, <1>4, <1>5
<1>7. ASSUME NEW q \in Session \ {s}, tx[q].at # "idle"
      PROVE  /\ tx[q].row \in Row /\ tx[q].row # tx[s].row
             /\ Concerns(q)' = Concerns(q)
  BY <1>1, <1>2, <1>5, <1>7 DEF Kept, StatsTypes, RowsApart, Concerns
<1>8. StatsTypes'
  <2> SUFFICES ASSUME NEW q \in Session \ {s}, tx[q].at # "idle"
               PROVE  /\ tx'[q].row \in Row
                      /\ tx'[q].fresh \subseteq Concerns(q)
                      /\ DOMAIN tx'[q].wrote \subseteq Concerns(q)
                      /\ \A i \in 1..Len(tx'[q].queue) :
                           tx'[q].queue[i] \in Concerns(q) \ DOMAIN tx'[q].wrote
                      /\ \A i, j \in 1..Len(tx'[q].queue) :
                           tx'[q].queue[i] = tx'[q].queue[j] => i = j
                      /\ tx'[q].at \in {"count", "write"} => tx'[q].queue # <<>>
    BY <1>2, <1>3, <1>4, <1>5, <1>6, <1>7 DEF StatsTypes
  <2> QED
    BY <1>5 DEF Kept, StatsTypes
<1>9. RowsApart'
  BY <1>3, <1>4, <1>5 DEF Kept, RowsApart
<1>10. Counted'
  <2> SUFFICES ASSUME NEW q \in Session \ {s}, NEW u \in User, tx[q].at # "idle",
                      u \in tx[q].fresh, u \notin Concerns(s)
               PROVE  IF tx[q].at = "write" /\ u = Head(tx[q].queue)
                      THEN tx[q].seen = Stats!Count(Stats!View(q)', u)
                      ELSE /\ u \in DOMAIN tx[q].wrote
                                => tx[q].wrote[u] = Stats!Count(Stats!View(q)', u)
                           /\ u \notin DOMAIN tx[q].wrote
                                => stat'[u] = Stats!Count(Stats!View(q)', u)
    BY <1>3, <1>4, <1>5 DEF Counted
  <2>1. \A r \in Row : Stats!View(q)'[r] = u <=> Stats!View(q)[r] = u
    <3> SUFFICES ASSUME NEW r \in Row PROVE Stats!View(q)'[r] = u <=> Stats!View(q)[r] = u
      OBVIOUS
    <3>1. CASE r = tx[q].row
      BY <1>5, <3>1 DEF Stats!View
    <3>2. CASE r # tx[q].row
      <4>1. Stats!View(q)'[r] = owner'[r] /\ Stats!View(q)[r] = owner[r]
        BY <1>5, <3>2 DEF Stats!View
      <4> QED
        BY <1>2, <4>1 DEF Concerns
    <3> QED
      BY <3>1, <3>2
  <2>2. Stats!Count(Stats!View(q)', u) = Stats!Count(Stats!View(q), u)
    BY <2>1, SameCount
  <2>3. stat'[u] = stat[u]
    BY <1>2
  <2> QED
    BY <2>2, <2>3 DEF Kept, Counted
<1> QED
  BY <1>8, <1>9, <1>10 DEF Kept

LEMMA AbortKept ==
    ASSUME Viewers, Kept, NEW s \in Session, Stats!Abort(s) PROVE Kept'
<1>1. Stats!NoTx \in Tx /\ Stats!NoTx.at = "idle"
  BY NoTxIsTx
<1>2. /\ tx' = [tx EXCEPT ![s] = Stats!NoTx] /\ owner' = owner /\ stat' = stat
      /\ tx \in [Session -> Tx]
  BY DEF Stats!Abort, Kept, StatsTypes
<1>3. /\ tx'[s].at = "idle" /\ \A q \in Session \ {s} : tx'[q] = tx[q]
      /\ tx' \in [Session -> Tx]
  BY <1>1, <1>2
<1>4. StatsTypes'
  BY <1>2, <1>3 DEF Kept, StatsTypes, Concerns
<1>5. RowsApart'
  BY <1>3 DEF Kept, RowsApart
<1>6. Counted'
  BY <1>2, <1>3 DEF Kept, Counted, Stats!View
<1> QED
  BY <1>4, <1>5, <1>6 DEF Kept

LEMMA KeptStays ==
    ASSUME Viewers, Kept, [Stats!Next]_Stats!vars PROVE Kept'
<1>1. CASE UNCHANGED Stats!vars
  BY <1>1 DEF Stats!vars, Kept, StatsTypes, RowsApart, Counted, Concerns, Stats!View
<1>2. CASE Stats!Next
  <2>1. \A u \in User \cup {Stats!Nobody} : u \in Owner
    BY DEF Owner
  <2> QED
    BY <1>2, <2>1, BeginKept, SeeKept, WriteKept, CommitKept, AbortKept
       DEF Stats!Next, Stats!Insert, Stats!Move, Stats!Remove
<1> QED
  BY <1>1, <1>2

(* A transaction leaves the statistics of a viewer right, whatever they    *)
(* were before, unless another one of the same viewer committed after this *)
(* one had counted (refresh_card_owner_stat, for any rows, viewers and     *)
(* transactions at a time).                                                *)
THEOREM StatsCommitFresh ==
    ASSUME Viewers
    PROVE  Stats!Spec => [][Stats!CommitsFreshCount]_Stats!vars
<1>1. Kept /\ [Stats!Next]_Stats!vars => [Stats!CommitsFreshCount]_Stats!vars
  <2> SUFFICES ASSUME Kept, Stats!Next, NEW s \in Session, NEW u \in User,
                      tx[s].at = "commit", u \in tx[s].fresh, owner' # owner,
                      tx'[s].at = "idle"
               PROVE  stat'[u] = Stats!Count(owner', u)
    BY DEF Stats!CommitsFreshCount
  <2>1. PICK q \in Session : Stats!Commit(q)
    BY ZenonT(60) DEF Stats!Next, Stats!Insert, Stats!Move, Stats!Remove, Stats!Change, Stats!See,
       Stats!Upsert, Stats!Clear, Stats!Wrote, Stats!Abort
  <2>2. q = s
    <3>1. tx[s] \in Tx
      BY DEF Kept, StatsTypes
    <3> QED
      BY <2>1, <3>1 DEF Stats!Commit, Tx
  <2>3. /\ u \in DOMAIN tx[s].wrote => tx[s].wrote[u] = Stats!Count(Stats!View(s), u)
        /\ u \notin DOMAIN tx[s].wrote => stat[u] = Stats!Count(Stats!View(s), u)
    BY DEF Kept, Counted
  <2> QED
    BY <2>1, <2>2, <2>3 DEF Stats!Commit
<1> QED
  BY <1>1, KeptInit, KeptStays, PTL DEF Stats!Spec

-----------------------------------------------------------------------------
(* The reports of the cron worker.                                         *)
TopicsApart == Sig \cap Inquiry = {} /\ Backlog \notin Sig \cup Inquiry

RowOf == [topic : Sig \cup Inquiry, issue : Nat]

Issue == [about : Report!Topic, open : BOOLEAN, full : BOOLEAN, indexed : BOOLEAN,
          tells : SUBSET Nat]

RunOf == [at : {"idle", "next", "comment", "create", "mark", "list"},
          kind : {"errors", "inquiries", "backlog"}, rows : SUBSET Nat,
          done : SUBSET Report!Topic, topic : Report!Topic, found : Nat, made : Nat]

\* A mark names an issue that tells the row.
MarksHold ==
    \A i \in 1..Len(tables) : tables[i].issue # 0 =>
      /\ tables[i].issue \in 1..Len(issue)
      /\ issue[tables[i].issue].about = tables[i].topic
      /\ i \in issue[tables[i].issue].tells

\* An inquiry has one row, and an issue about it tells that row.
InquiriesHold ==
    /\ \A i, j \in 1..Len(tables) :
         tables[i].topic \in Inquiry /\ tables[i].topic = tables[j].topic => i = j
    /\ \A n \in 1..Len(issue) : issue[n].about \in Inquiry =>
         /\ \E i \in 1..Len(tables) : tables[i].topic = issue[n].about
         /\ \A i \in 1..Len(tables) :
              tables[i].topic = issue[n].about => i \in issue[n].tells

GroupOf(x) == {i \in x.rows : tables[i].topic = x.topic}

\* What an invocation has read and found.
Found(x) ==
    /\ x.rows \subseteq 1..Len(tables)
    /\ x.kind = "errors" => \A i \in x.rows : tables[i].topic \in Sig
    /\ x.kind = "inquiries" => \A i \in x.rows : tables[i].topic \in Inquiry
    /\ x.kind = "backlog" => x.rows = {} /\ x.topic = Backlog
    /\ x.at = "idle" => x = Report!Idle
    /\ x.at = "list" => x.kind = "backlog"
    /\ x.at = "create" /\ x.kind # "backlog" => \E i \in x.rows : tables[i].topic = x.topic
    /\ x.at = "comment" => x.kind = "errors"
    /\ x.at \in {"comment", "mark"} =>
         x.found \in 1..Len(issue) /\ issue[x.found].about = x.topic
    /\ x.at = "mark" => GroupOf(x) \subseteq issue[x.found].tells

ReportTypes == tables \in Seq(RowOf) /\ issue \in Seq(Issue) /\ run \in [Run -> RunOf]

Reported ==
    /\ ReportTypes /\ MarksHold /\ InquiriesHold
    /\ \A r \in Run : Found(run[r])

LEMMA ReportInit == Report!Init => Reported
BY EmptySeq DEF Report!Init, Report!Idle, Reported, ReportTypes, MarksHold, InquiriesHold,
   Found, RunOf, Report!Topic

\* Rows and issues are added, rows keep their topics and issues tell more.
Grown ==
    /\ tables' \in Seq(RowOf) /\ Len(tables) <= Len(tables')
    /\ \A i \in 1..Len(tables) : tables'[i].topic = tables[i].topic
    /\ issue' \in Seq(Issue) /\ Len(issue) <= Len(issue')
    /\ \A n \in 1..Len(issue) : /\ issue'[n].about = issue[n].about
                                /\ issue[n].tells \subseteq issue'[n].tells

LEMMA Lengths ==
    ASSUME ReportTypes
    PROVE  /\ Len(tables) \in Nat /\ DOMAIN tables = 1..Len(tables)
           /\ Len(issue) \in Nat /\ DOMAIN issue = 1..Len(issue)
           /\ \A i \in 1..Len(tables) : tables[i] \in RowOf
           /\ \A n \in 1..Len(issue) : issue[n] \in Issue
BY LenProperties, ElementOfSeq DEF ReportTypes

LEMMA SameGrown ==
    ASSUME ReportTypes, tables' = tables, issue' = issue PROVE Grown
BY Lengths DEF Grown, ReportTypes

(* What an invocation has found stays.                                     *)
LEMMA FoundStays ==
    ASSUME ReportTypes, Grown, NEW x, Found(x) PROVE Found(x)'
<1>1. Len(tables) \in Nat /\ Len(issue) \in Nat /\ Len(tables') \in Nat /\ Len(issue') \in Nat
  BY Lengths, LenProperties DEF Grown
<1>2. /\ \A i \in 1..Len(tables) : i \in 1..Len(tables')
      /\ \A n \in 1..Len(issue) : n \in 1..Len(issue')
  BY <1>1 DEF Grown
<1>3. \A i \in x.rows : i \in 1..Len(tables) /\ tables'[i].topic = tables[i].topic
  BY DEF Found, Grown
<1>4. GroupOf(x)' = GroupOf(x)
  BY <1>3 DEF GroupOf
<1>5. x.rows \subseteq 1..Len(tables')
  BY <1>2, <1>3
<1>6. x.at \in {"comment", "mark"} =>
        /\ x.found \in 1..Len(issue') /\ issue'[x.found].about = x.topic
        /\ issue[x.found].tells \subseteq issue'[x.found].tells
  BY <1>2 DEF Found, Grown
<1> QED
  BY <1>3, <1>4, <1>5, <1>6 DEF Found

(* A step of an invocation.                                                *)
LEMMA RunMoves ==
    ASSUME Reported, Grown, NEW r \in Run, NEW t \in RunOf, run' = [run EXCEPT ![r] = t],
           MarksHold', InquiriesHold', Found(t)'
    PROVE  Reported'
<1>1. ReportTypes'
  BY DEF Reported, ReportTypes, Grown
<1>2. ASSUME NEW q \in Run PROVE Found(run[q])'
  <2>1. CASE q = r
    <3>1. run'[q] = t
      BY <2>1 DEF Reported, ReportTypes
    <3> QED
      BY <3>1 DEF Found, GroupOf
  <2>2. CASE q # r
    <3>1. run'[q] = run[q]
      BY <2>2 DEF Reported, ReportTypes
    <3> DEFINE x == run[q]
    <3>2. Found(x)
      BY DEF Reported
    <3> QED
      BY <3>1, <3>2, FoundStays DEF Reported
  <2> QED
    BY <2>1, <2>2
<1> QED
  BY <1>1, <1>2 DEF Reported

(* One that only changes what the invocation has found.                    *)
LEMMA RunReads ==
    ASSUME Reported, NEW r \in Run, NEW t \in RunOf, run' = [run EXCEPT ![r] = t],
           tables' = tables, issue' = issue, Found(t)
    PROVE  Reported'
<1>1. Grown
  BY SameGrown DEF Reported
<1>2. MarksHold' /\ InquiriesHold' /\ Found(t)'
  BY DEF Reported, MarksHold, InquiriesHold, Found, GroupOf
<1> QED
  BY <1>1, <1>2, RunMoves

(* The topic searched next is that of a row not handled yet.               *)
LEMMA NextTopicIs ==
    ASSUME Reported, NEW r \in Run, Report!Left(r) # {}
    PROVE  \E i \in run[r].rows : /\ i \in 1..Len(tables)
                                  /\ Report!NextTopic(r) = tables[i].topic
                                  /\ tables[i].topic \in Report!Topic
<1> DEFINE L == Report!Left(r)
<1>1. L \subseteq run[r].rows /\ run[r].rows \subseteq Nat /\ run[r].rows \subseteq 1..Len(tables)
  BY DEF Report!Left, Reported, ReportTypes, RunOf, Found
<1>2. PICK i \in L : \A j \in L : <<j, i>> \notin OpToRel(<, Nat)
  BY <1>1, WFMin, NatLessThanWellFounded
<1>3. ASSUME NEW j \in L PROVE i <= j
  <2>1. j \in Nat /\ i \in Nat /\ ~(j < i)
    BY <1>1, <1>2 DEF OpToRel
  <2> QED
    BY <2>1
<1>4. Report!NextTopic(r) = tables[CHOOSE k \in L : \A j \in L : k <= j].topic
  BY DEF Report!NextTopic
<1> DEFINE k == CHOOSE k \in L : \A j \in L : k <= j
<1>5. k \in L
  BY <1>3
<1>6. tables[k].topic \in Report!Topic
  BY <1>1, <1>5, Lengths DEF Reported, RowOf, Report!Topic
<1> QED
  BY <1>1, <1>4, <1>5, <1>6

(* A group that fails is left.                                             *)
LEMMA SkipKeeps ==
    ASSUME Reported, NEW r \in Run, Report!Skip(r), Grown, MarksHold', InquiriesHold'
    PROVE  Reported'
<1> DEFINE x == run[r]
           y == [x EXCEPT !.at = "next", !.done = @ \cup {x.topic}, !.topic = Backlog,
                          !.found = 0]
<1>1. x \in RunOf /\ Found(x)
  BY DEF Reported, ReportTypes
<1>2. /\ y.at = "next" /\ y.kind = x.kind /\ y.rows = x.rows
      /\ y.done = x.done \cup {x.topic} /\ y.topic = Backlog
  BY <1>1 DEF RunOf
<1>3. y \in RunOf
  BY <1>1 DEF RunOf, Report!Topic
<1>4. Found(y)
  BY <1>1, <1>2 DEF Found
<1>5. run' = [run EXCEPT ![r] = y]
  BY DEF Report!Skip
<1> HIDE DEF y
<1>6. PICK t \in RunOf : t = y
  BY <1>3
<1>7. Found(t)
  BY <1>4, <1>6
<1>8. Found(t)'
  BY <1>7, FoundStays DEF Reported
<1>9. run' = [run EXCEPT ![r] = t]
  BY <1>5, <1>6
<1> QED
  BY <1>8, <1>9, RunMoves

(* An invocation ends.                                                     *)
LEMMA EndKeeps ==
    ASSUME Reported, NEW r \in Run, run' = [run EXCEPT ![r] = Report!Idle],
           Grown, MarksHold', InquiriesHold'
    PROVE  Reported'
<1> DEFINE t == Report!Idle
<1>1. /\ t.at = "idle" /\ t.kind = "errors" /\ t.rows = {} /\ t.topic = Backlog
  BY DEF Report!Idle
<1>2. t \in RunOf
  BY DEF Report!Idle, RunOf, Report!Topic
<1>3. Found(t)
  BY <1>1 DEF Found
<1> HIDE DEF t
<1>4. Found(t)'
  BY <1>3, FoundStays DEF Reported
<1> QED
  BY <1>2, <1>4, RunMoves DEF t

LEMMA Calm ==
    ASSUME Reported, tables' = tables, issue' = issue
    PROVE  Grown /\ MarksHold' /\ InquiriesHold'
BY SameGrown DEF Reported, MarksHold, InquiriesHold

(* A step that leaves the invocations alone.                               *)
LEMMA OthersKeep ==
    ASSUME Reported, run' = run, Grown, MarksHold', InquiriesHold'
    PROVE  Reported'
<1>1. ReportTypes'
  BY DEF Reported, ReportTypes, Grown
<1>2. ASSUME NEW q \in Run PROVE Found(run[q])'
  <2>1. PICK x : x = run[q]
    OBVIOUS
  <2>2. Found(x)
    BY <2>1 DEF Reported
  <2>3. Found(x)' /\ run'[q] = x
    BY <2>1, <2>2, FoundStays DEF Reported
  <2> QED
    BY <2>3 DEF Found, GroupOf
<1> QED
  BY <1>1, <1>2 DEF Reported

LEMMA InsertKeeps ==
    ASSUME TopicsApart, Reported, NEW t \in Sig \cup Inquiry, Report!Insert(t) PROVE Reported'
<1> DEFINE n == Len(tables)  e == [topic |-> t, issue |-> 0]
<1>1. n \in Nat /\ DOMAIN tables = 1..n /\ ReportTypes
  BY Lengths DEF Reported
<1>2. /\ tables' = Append(tables, e) /\ issue' = issue /\ run' = run
      /\ t \in Inquiry => \A i \in 1..n : tables[i].topic # t
  BY <1>1 DEF Report!Insert
<1>3. e \in RowOf /\ e.topic = t /\ e.issue = 0
  BY DEF RowOf
<1> HIDE DEF e
<1>4. tables \in Seq(RowOf)
  BY DEF Reported, ReportTypes
<1>5. /\ tables' \in Seq(RowOf) /\ Len(tables') = n + 1
      /\ \A i \in 1..n : tables'[i] = tables[i]
      /\ tables'[n + 1] = e
  BY <1>2, <1>3, <1>4, AppendProperties
<1>6. \A i \in 1..(n + 1) : i \in 1..n \/ i = n + 1
  BY <1>1
<1>7. Grown
  BY <1>1, <1>2, <1>5 DEF Grown, ReportTypes
<1>8. MarksHold'
  BY <1>2, <1>3, <1>5, <1>6 DEF Reported, MarksHold
<1>9. InquiriesHold'
  <2>1. \A i, j \in 1..(n + 1) :
           tables'[i].topic \in Inquiry /\ tables'[i].topic = tables'[j].topic => i = j
    BY <1>2, <1>3, <1>5, <1>6 DEF Reported, InquiriesHold
  <2>2. ASSUME NEW m \in 1..Len(issue), issue[m].about \in Inquiry
        PROVE  /\ \E i \in 1..(n + 1) : tables'[i].topic = issue[m].about
               /\ \A i \in 1..(n + 1) :
                    tables'[i].topic = issue[m].about => i \in issue[m].tells
    <3>1. PICK i \in 1..n : tables[i].topic = issue[m].about
      BY <2>2 DEF Reported, InquiriesHold
    <3>2. i \in 1..(n + 1)
      BY <1>1
    <3>3. t # issue[m].about
      BY <1>2, <2>2, <3>1
    <3> QED
      BY <1>3, <1>5, <1>6, <2>2, <3>1, <3>2, <3>3 DEF Reported, InquiriesHold
  <2> QED
    BY <1>2, <1>5, <2>1, <2>2 DEF InquiriesHold
<1> QED
  BY <1>2, <1>7, <1>8, <1>9, OthersKeep

\* What GitHub may do to an issue: what it is about and tells stays.
SameReports ==
    /\ issue' \in Seq(Issue) /\ Len(issue') = Len(issue) /\ tables' = tables
    /\ \A n \in 1..Len(issue) : /\ issue'[n].about = issue[n].about
                                /\ issue'[n].tells = issue[n].tells

LEMMA IssuesStay ==
    ASSUME Reported, SameReports, run' = run PROVE Reported'
<1>1. Grown
  BY Lengths DEF Reported, ReportTypes, SameReports, Grown
<1>2. MarksHold'
  BY DEF Reported, MarksHold, SameReports
<1>3. InquiriesHold'
  BY DEF Reported, InquiriesHold, SameReports
<1> QED
  BY <1>1, <1>2, <1>3, OthersKeep

LEMMA GitHubKeeps ==
    ASSUME Reported, NEW n \in DOMAIN issue,
           Report!Index(n) \/ Report!Close(n) \/ Report!Fill(n)
    PROVE  Reported'
<1>1. PICK e : /\ issue' = [issue EXCEPT ![n] = e]
               /\ \/ e = [issue[n] EXCEPT !.indexed = TRUE]
                  \/ e = [issue[n] EXCEPT !.open = FALSE]
                  \/ e = [issue[n] EXCEPT !.full = TRUE]
  BY DEF Report!Index, Report!Close, Report!Fill
<1>2. tables' = tables /\ run' = run
  BY DEF Report!Index, Report!Close, Report!Fill
<1>3. issue[n] \in Issue /\ issue \in Seq(Issue) /\ n \in 1..Len(issue)
  BY Lengths DEF Reported, ReportTypes
<1>4. e \in Issue /\ e.about = issue[n].about /\ e.tells = issue[n].tells
  BY <1>1, <1>3 DEF Issue
<1>5. /\ issue' \in Seq(Issue) /\ Len(issue') = Len(issue)
      /\ \A m \in 1..Len(issue) : issue'[m] = IF m = n THEN e ELSE issue[m]
  BY <1>1, <1>3, <1>4, ExceptSeq
<1>6. SameReports
  BY <1>2, <1>4, <1>5 DEF SameReports
<1> QED
  BY <1>2, <1>6, IssuesStay

(* What an invocation reads are rows of one table.                         *)
LEMMA PendingRows ==
    ASSUME ReportTypes, NEW S, NEW n
    PROVE  \A i \in Report!Pending(S, n) : i \in 1..Len(tables) /\ i \in Nat
                                           /\ tables[i].topic \in S
BY Lengths DEF Report!Pending, Report!Oldest

LEMMA TickKeeps ==
    ASSUME Reported, NEW r \in Run, Report!Tick(r) \/ Report!TickUnread(r) PROVE Reported'
<1> DEFINE x == run[r]
<1>1. x = Report!Idle /\ x \in RunOf
  BY DEF Reported, ReportTypes, Found, Report!Tick, Report!TickUnread
<1>2. x.kind = "errors" /\ x.rows = {}
  BY <1>1 DEF Report!Idle
<1>3. PICK t \in RunOf : /\ run' = [run EXCEPT ![r] = t]
                         /\ t.at = "next" /\ t.kind = "errors"
                         /\ \A i \in t.rows : i \in 1..Len(tables) /\ tables[i].topic \in Sig
  <2>1. CASE Report!Tick(r)
    <3>1. PICK t : t = [x EXCEPT !.at = "next", !.rows = Report!Pending(Sig, ErrorLimit)]
      OBVIOUS
    <3>2. \A i \in t.rows : i \in 1..Len(tables) /\ i \in Nat /\ tables[i].topic \in Sig
      BY <1>1, <3>1, PendingRows DEF Reported, RunOf
    <3>3. t \in RunOf /\ t.at = "next" /\ t.kind = "errors"
      BY <1>1, <1>2, <3>1, <3>2 DEF RunOf
    <3>4. run' = [run EXCEPT ![r] = t]
      BY <2>1, <3>1 DEF Report!Tick
    <3> QED
      BY <3>2, <3>3, <3>4
  <2>2. CASE Report!TickUnread(r)
    <3>1. PICK t : t = [x EXCEPT !.at = "next"]
      OBVIOUS
    <3>2. t \in RunOf /\ t.at = "next" /\ t.kind = "errors" /\ t.rows = {}
      BY <1>1, <1>2, <3>1 DEF RunOf
    <3>3. run' = [run EXCEPT ![r] = t]
      BY <2>2, <3>1 DEF Report!TickUnread
    <3> QED
      BY <3>2, <3>3
  <2> QED
    BY <2>1, <2>2
<1>4. Found(t)
  BY <1>3 DEF Found
<1>5. tables' = tables /\ issue' = issue
  BY DEF Report!Tick, Report!TickUnread
<1> QED
  BY <1>3, <1>4, <1>5, RunReads

LEMMA InquiriesKeep ==
    ASSUME Reported, NEW r \in Run, Report!Inquiries(r) \/ Report!InquiriesUnread(r)
    PROVE  Reported'
<1>1. PICK t \in RunOf : /\ run' = [run EXCEPT ![r] = t]
                         /\ t.at = "next" /\ t.kind = "inquiries"
                         /\ \A i \in t.rows : i \in 1..Len(tables) /\ tables[i].topic \in Inquiry
  <2>1. CASE Report!Inquiries(r)
    <3>1. PICK t : t = [Report!Idle EXCEPT !.at = "next", !.kind = "inquiries",
                                           !.rows = Report!Pending(Inquiry, InquiryLimit)]
      OBVIOUS
    <3>2. \A i \in t.rows : i \in 1..Len(tables) /\ i \in Nat /\ tables[i].topic \in Inquiry
      BY <3>1, PendingRows DEF Reported, Report!Idle
    <3>3. t \in RunOf /\ t.at = "next" /\ t.kind = "inquiries"
      BY <3>1, <3>2 DEF RunOf, Report!Idle, Report!Topic
    <3>4. run' = [run EXCEPT ![r] = t]
      BY <2>1, <3>1 DEF Report!Inquiries
    <3> QED
      BY <3>2, <3>3, <3>4
  <2>2. CASE Report!InquiriesUnread(r)
    <3>1. PICK t : t = [Report!Idle EXCEPT !.at = "next", !.kind = "inquiries"]
      OBVIOUS
    <3>2. t \in RunOf /\ t.at = "next" /\ t.kind = "inquiries" /\ t.rows = {}
      BY <3>1 DEF RunOf, Report!Idle, Report!Topic
    <3>3. run' = [run EXCEPT ![r] = t]
      BY <2>2, <3>1 DEF Report!InquiriesUnread
    <3> QED
      BY <3>2, <3>3
  <2> QED
    BY <2>1, <2>2
<1>2. Found(t)
  BY <1>1 DEF Found
<1>3. tables' = tables /\ issue' = issue
  BY DEF Report!Inquiries, Report!InquiriesUnread
<1> QED
  BY <1>1, <1>2, <1>3, RunReads

(* A search for an inquiry that finds an issue finds one that tells it.    *)
LEMMA SearchKeeps ==
    ASSUME TopicsApart, Reported, NEW r \in Run,
           Report!SearchFinds(r) \/ Report!SearchMisses(r) \/ Report!SearchFails(r)
    PROVE  Reported'
<1> DEFINE x == run[r]  T == Report!NextTopic(r)
<1>1. x \in RunOf /\ Found(x) /\ ReportTypes /\ DOMAIN issue = 1..Len(issue)
  BY Lengths DEF Reported, ReportTypes
<1>2. Report!Left(r) # {} /\ tables' = tables /\ issue' = issue
  BY DEF Report!SearchFinds, Report!SearchMisses, Report!SearchFails
<1>3. PICK i \in x.rows : i \in 1..Len(tables) /\ T = tables[i].topic /\ T \in Report!Topic
  BY <1>2, NextTopicIs
<1>4. x.kind # "backlog"
  BY <1>1, <1>3 DEF Found
<1>5. CASE Report!SearchFinds(r)
  <2>1. PICK n \in Report!Indexed(T) :
          run' = [run EXCEPT ![r].topic = T, ![r].found = n,
                    ![r].at = IF x.kind = "errors" THEN "comment" ELSE "mark"]
    BY <1>5 DEF Report!SearchFinds
  <2>2. n \in 1..Len(issue) /\ issue[n].about = T /\ n \in Nat
    BY <1>1, <2>1 DEF Report!Indexed
  <2>3. PICK t : t = [x EXCEPT !.topic = T, !.found = n,
                        !.at = IF x.kind = "errors" THEN "comment" ELSE "mark"]
    OBVIOUS
  <2>4. /\ t.at = (IF x.kind = "errors" THEN "comment" ELSE "mark")
        /\ t.kind = x.kind /\ t.rows = x.rows /\ t.topic = T /\ t.found = n /\ t \in RunOf
    BY <1>1, <1>3, <2>2, <2>3 DEF RunOf
  <2>5. ASSUME x.kind = "inquiries" PROVE GroupOf(t) \subseteq issue[n].tells
    <3>1. T \in Inquiry
      BY <1>1, <1>3, <2>5 DEF Found
    <3>2. \A j \in 1..Len(tables) : tables[j].topic = T => j \in issue[n].tells
      BY <2>2, <3>1 DEF Reported, InquiriesHold
    <3>3. \A j \in GroupOf(t) : j \in 1..Len(tables) /\ tables[j].topic = T
      BY <1>1, <2>4 DEF GroupOf, Found
    <3> QED
      BY <3>2, <3>3
  <2>6. x.kind \in {"errors", "inquiries"}
    BY <1>1, <1>4 DEF RunOf
  <2>7. Found(t)
    <3>1. CASE x.kind = "errors"
      BY <1>1, <2>2, <2>4, <3>1 DEF Found
    <3>2. CASE x.kind = "inquiries"
      BY <1>1, <2>2, <2>4, <2>5, <3>2 DEF Found
    <3> QED
      BY <2>6, <3>1, <3>2
  <2>8. run' = [run EXCEPT ![r] = t]
    BY <2>1, <2>3
  <2> QED
    BY <1>2, <2>4, <2>7, <2>8, RunReads
<1>6. CASE Report!SearchMisses(r) \/ Report!SearchFails(r)
  <2>1. PICK t : t = [x EXCEPT !.at = "create", !.topic = T]
    OBVIOUS
  <2>2. /\ t.at = "create" /\ t.kind = x.kind /\ t.rows = x.rows /\ t.topic = T
        /\ t \in RunOf
    BY <1>1, <1>3, <2>1 DEF RunOf
  <2>3. Found(t)
    BY <1>1, <1>3, <1>4, <2>2 DEF Found
  <2>4. run' = [run EXCEPT ![r] = t]
    BY <1>6, <2>1 DEF Report!SearchMisses, Report!SearchFails, Report!Unfound
  <2> QED
    BY <1>2, <2>2, <2>3, <2>4, RunReads
<1> QED
  BY <1>5, <1>6

LEMMA ListKeeps ==
    ASSUME Reported, NEW r \in Run, Report!List(r) \/ Report!AboveThreshold(r)
    PROVE  Reported'
<1> DEFINE x == run[r]
<1>1. x \in RunOf /\ Found(x)
  BY DEF Reported, ReportTypes
<1>2. tables' = tables /\ issue' = issue
  BY DEF Report!List, Report!AboveThreshold
<1>3. CASE run' = [run EXCEPT ![r] = Report!Idle]
  BY <1>2, <1>3, Calm, EndKeeps
<1>4. CASE Report!List(r) /\ run' = [run EXCEPT ![r].at = "create"]
  <2>1. PICK t : t = [x EXCEPT !.at = "create"]
    OBVIOUS
  <2>2. x.kind = "backlog" /\ x.rows = {} /\ x.topic = Backlog
    BY <1>1, <1>4 DEF Report!List, Found
  <2>3. t.at = "create" /\ t.kind = "backlog" /\ t.rows = {} /\ t.topic = Backlog /\ t \in RunOf
    BY <1>1, <2>1, <2>2 DEF RunOf
  <2>4. Found(t)
    BY <2>3 DEF Found
  <2>5. run' = [run EXCEPT ![r] = t]
    BY <1>4, <2>1
  <2> QED
    BY <1>2, <2>3, <2>4, <2>5, RunReads
<1>5. CASE Report!AboveThreshold(r)
  <2>1. PICK t : t = [Report!Idle EXCEPT !.at = "list", !.kind = "backlog"]
    OBVIOUS
  <2>2. t.at = "list" /\ t.kind = "backlog" /\ t.rows = {} /\ t.topic = Backlog /\ t \in RunOf
    BY <2>1 DEF Report!Idle, RunOf, Report!Topic
  <2>3. Found(t)
    BY <2>2 DEF Found
  <2>4. run' = [run EXCEPT ![r] = t]
    BY <1>5, <2>1 DEF Report!AboveThreshold
  <2> QED
    BY <1>2, <2>2, <2>3, <2>4, RunReads
<1> QED
  BY <1>3, <1>4, <1>5 DEF Report!List

(* An invocation stops, or leaves a group without having changed anything. *)
LEMMA StopKeeps ==
    ASSUME Reported, NEW r \in Run, tables' = tables, issue' = issue,
           Report!Skip(r) \/ Report!Abandon(r) \/ run' = [run EXCEPT ![r] = Report!Idle]
    PROVE  Reported'
BY Calm, EndKeeps, SkipKeeps DEF Report!Abandon

(* A comment tells the rows of its group, also when its answer is lost.    *)
LEMMA CommentKeeps ==
    ASSUME Reported, NEW r \in Run, Report!Comment(r) \/ Report!CommentLost(r)
    PROVE  Reported'
<1> DEFINE x == run[r]  f == x.found  G == GroupOf(x)
<1>1. x \in RunOf /\ Found(x) /\ x.at = "comment" /\ tables' = tables
  BY DEF Reported, ReportTypes, Report!Comment, Report!CommentLost
<1>2. f \in 1..Len(issue) /\ issue[f].about = x.topic /\ x.kind = "errors"
  BY <1>1 DEF Found
<1>3. issue \in Seq(Issue) /\ issue[f] \in Issue /\ G \subseteq Nat
  BY <1>1, <1>2, Lengths DEF Reported, ReportTypes, GroupOf, RunOf
<1>4. PICK e : e = [issue[f] EXCEPT !.tells = @ \cup G]
  OBVIOUS
<1>5. e \in Issue /\ e.about = issue[f].about /\ e.tells = issue[f].tells \cup G
  BY <1>3, <1>4 DEF Issue
<1>6. issue' = [issue EXCEPT ![f] = e]
  BY <1>4 DEF Report!Comment, Report!CommentLost, Report!Told, Report!Group, GroupOf
<1>7. /\ issue' \in Seq(Issue) /\ Len(issue') = Len(issue)
      /\ \A m \in 1..Len(issue) : issue'[m] = IF m = f THEN e ELSE issue[m]
  BY <1>2, <1>3, <1>5, <1>6, ExceptSeq
<1>8. /\ Len(tables) \in Nat /\ Len(issue) \in Nat /\ tables \in Seq(RowOf)
      /\ \A m \in 1..Len(issue) : /\ issue'[m].about = issue[m].about
                                  /\ issue[m].tells \subseteq issue'[m].tells
  BY <1>5, <1>7, Lengths DEF Reported, ReportTypes
<1>9. Grown
  BY <1>1, <1>7, <1>8 DEF Grown
<1>10. MarksHold'
  BY <1>1, <1>7, <1>8 DEF Reported, MarksHold
<1>11. InquiriesHold'
  BY <1>1, <1>7, <1>8 DEF Reported, InquiriesHold
<1>12. CASE Report!Comment(r)
  <2>1. PICK t : t = [x EXCEPT !.at = "mark"]
    OBVIOUS
  <2>2. /\ t.at = "mark" /\ t.kind = x.kind /\ t.rows = x.rows /\ t.topic = x.topic
        /\ t.found = f /\ t \in RunOf
    BY <1>1, <2>1 DEF RunOf
  <2>3. run' = [run EXCEPT ![r] = t]
    BY <1>12, <2>1 DEF Report!Comment
  <2>4. GroupOf(t)' = G
    BY <1>1, <2>2 DEF GroupOf
  <2>5. f \in 1..Len(issue') /\ issue'[f].about = x.topic /\ G \subseteq issue'[f].tells
    BY <1>2, <1>5, <1>7
  <2>6. Found(t)'
    BY <1>1, <1>2, <2>2, <2>4, <2>5 DEF Found
  <2> QED
    BY <1>9, <1>10, <1>11, <2>2, <2>3, <2>6, RunMoves
<1>13. CASE Report!CommentLost(r)
  BY <1>9, <1>10, <1>11, <1>13, SkipKeeps DEF Report!CommentLost
<1> QED
  BY <1>12, <1>13

(* A new issue tells all the rows of its group, for an inquiry its only    *)
(* row.                                                                    *)
LEMMA CreateKeeps ==
    ASSUME TopicsApart, Reported, NEW r \in Run, Report!Create(r) \/ Report!CreateLost(r)
    PROVE  Reported'
<1> DEFINE x == run[r]  G == GroupOf(x)  n == Len(issue)
<1>1. x \in RunOf /\ Found(x) /\ x.at = "create" /\ tables' = tables
  BY DEF Reported, ReportTypes, Report!Create, Report!CreateLost
<1>2. PICK e : e = [about |-> x.topic, open |-> TRUE, full |-> FALSE,
                    indexed |-> FALSE, tells |-> G]
  OBVIOUS
<1>3. e \in Issue /\ e.about = x.topic /\ e.tells = G
  BY <1>1, <1>2 DEF Issue, RunOf, GroupOf
<1>4. issue' = Append(issue, e)
  BY <1>2 DEF Report!Create, Report!CreateLost, Report!NewIssue, Report!Group, GroupOf
<1>5. issue \in Seq(Issue) /\ n \in Nat /\ Len(tables) \in Nat /\ tables \in Seq(RowOf)
  BY Lengths DEF Reported, ReportTypes
<1>6. /\ issue' \in Seq(Issue) /\ Len(issue') = n + 1 /\ issue'[n + 1] = e
      /\ \A m \in 1..n : issue'[m] = issue[m]
  BY <1>3, <1>4, <1>5, AppendProperties
<1>7. \A m \in 1..(n + 1) : m \in 1..n \/ m = n + 1
  BY <1>5
<1>8. \A m \in 1..n : m \in 1..(n + 1)
  BY <1>5
<1>9. Grown
  BY <1>1, <1>5, <1>6 DEF Grown
<1>10. MarksHold'
  BY <1>1, <1>6, <1>8 DEF Reported, MarksHold
<1>11. InquiriesHold'
  <2>1. \A i, j \in 1..Len(tables) :
           tables[i].topic \in Inquiry /\ tables[i].topic = tables[j].topic => i = j
    BY DEF Reported, InquiriesHold
  <2>2. ASSUME NEW m \in 1..n, issue[m].about \in Inquiry
        PROVE  /\ \E i \in 1..Len(tables) : tables[i].topic = issue[m].about
               /\ \A i \in 1..Len(tables) :
                    tables[i].topic = issue[m].about => i \in issue[m].tells
    BY <2>2 DEF Reported, InquiriesHold
  <2>3. ASSUME x.topic \in Inquiry
        PROVE  /\ \E i \in 1..Len(tables) : tables[i].topic = x.topic
               /\ \A i \in 1..Len(tables) : tables[i].topic = x.topic => i \in G
    <3>1. x.kind # "backlog"
      BY <1>1, <2>3 DEF Found, TopicsApart
    <3>2. PICK i \in x.rows : i \in 1..Len(tables) /\ tables[i].topic = x.topic
      BY <1>1, <3>1 DEF Found
    <3>3. ASSUME NEW j \in 1..Len(tables), tables[j].topic = x.topic PROVE j \in G
      <4>1. j = i
        BY <2>1, <2>3, <3>2, <3>3
      <4> QED
        BY <3>2, <4>1 DEF GroupOf
    <3> QED
      BY <3>2, <3>3
  <2> QED
    BY <1>1, <1>3, <1>6, <1>7, <2>1, <2>2, <2>3 DEF InquiriesHold
<1>12. CASE run' = [run EXCEPT ![r] = Report!Idle]
  BY <1>9, <1>10, <1>11, <1>12, EndKeeps
<1>13. CASE Report!Skip(r)
  BY <1>9, <1>10, <1>11, <1>13, SkipKeeps
<1>14. CASE Report!Create(r) /\ x.kind # "backlog"
  <2>1. PICK m : m = IF x.kind = "errors" THEN x.made + 1 ELSE x.made
    OBVIOUS
  <2>2. m \in Nat
    BY <1>1, <2>1 DEF RunOf
  <2>3. PICK t : t = [x EXCEPT !.at = "mark", !.found = n + 1, !.made = m]
    OBVIOUS
  <2>4. /\ t.at = "mark" /\ t.kind = x.kind /\ t.rows = x.rows /\ t.topic = x.topic
        /\ t.found = n + 1 /\ t \in RunOf
    <3>1. PICK k \in Nat : k = n + 1
      BY <1>5
    <3>2. t = [x EXCEPT !.at = "mark", !.found = k, !.made = m]
      BY <2>3, <3>1
    <3> QED
      BY <1>1, <2>2, <3>1, <3>2 DEF RunOf
  <2>5. run' = [run EXCEPT ![r] = t]
    BY <1>6, <1>14, <2>1, <2>3 DEF Report!Create
  <2>6. GroupOf(t)' = G
    BY <1>1, <2>4 DEF GroupOf
  <2>7. n + 1 \in 1..Len(issue') /\ issue'[n + 1].about = x.topic /\ G \subseteq issue'[n + 1].tells
    BY <1>3, <1>5, <1>6
  <2>8. Found(t)'
    BY <1>1, <1>14, <2>4, <2>6, <2>7 DEF Found
  <2> QED
    BY <1>9, <1>10, <1>11, <2>4, <2>5, <2>8, RunMoves
<1> QED
  BY <1>12, <1>13, <1>14 DEF Report!Create, Report!CreateLost, Report!Abandon

(* The rows of a group are marked with the issue that tells them.          *)
LEMMA MarkKeeps ==
    ASSUME Reported, NEW r \in Run, Report!Mark(r) PROVE Reported'
<1> DEFINE x == run[r]  f == x.found  G == GroupOf(x)  n == Len(tables)
<1>1. x \in RunOf /\ Found(x) /\ x.at = "mark" /\ issue' = issue
  BY DEF Reported, ReportTypes, Report!Mark
<1>2. /\ f \in 1..Len(issue) /\ issue[f].about = x.topic /\ G \subseteq issue[f].tells
  BY <1>1 DEF Found
<1>3. /\ n \in Nat /\ DOMAIN tables = 1..n /\ Len(issue) \in Nat /\ issue \in Seq(Issue)
      /\ \A i \in 1..n : tables[i] \in RowOf
  BY Lengths DEF Reported, ReportTypes
<1>4. tables' = [i \in 1..n |-> IF i \in G THEN [tables[i] EXCEPT !.issue = f] ELSE tables[i]]
  BY <1>3 DEF Report!Mark, Report!Group, GroupOf
<1>5. \A i \in 1..n : /\ tables'[i] \in RowOf /\ tables'[i].topic = tables[i].topic
                      /\ tables'[i].issue = IF i \in G THEN f ELSE tables[i].issue
  BY <1>2, <1>3, <1>4 DEF RowOf
<1>6. tables' \in Seq(RowOf) /\ Len(tables') = n
  <2>1. tables' \in [1..n -> RowOf]
    BY <1>4, <1>5
  <2> QED
    BY <1>3, <2>1, SeqDef, LenProperties
<1>7. Grown
  BY <1>1, <1>3, <1>5, <1>6 DEF Grown
<1>8. MarksHold'
  <2>1. ASSUME NEW i \in 1..n, i \in G PROVE tables[i].topic = x.topic
    BY <2>1 DEF GroupOf
  <2>2. ASSUME NEW i \in 1..n, tables'[i].issue # 0
        PROVE  /\ tables'[i].issue \in 1..Len(issue)
               /\ issue[tables'[i].issue].about = tables'[i].topic
               /\ i \in issue[tables'[i].issue].tells
    <3>1. CASE i \in G
      BY <1>2, <1>5, <2>1, <3>1
    <3>2. CASE i \notin G
      BY <1>5, <2>2, <3>2 DEF Reported, MarksHold
    <3> QED
      BY <3>1, <3>2
  <2> QED
    BY <1>1, <1>6, <2>2 DEF MarksHold
<1>9. InquiriesHold'
  BY <1>1, <1>5, <1>6 DEF Reported, InquiriesHold
<1> QED
  BY <1>7, <1>8, <1>9, SkipKeeps DEF Report!Mark

LEMMA ReportKeeps ==
    ASSUME TopicsApart, Reported, [Report!Next]_(Report!vars) PROVE Reported'
<1>1. CASE UNCHANGED Report!vars
  BY <1>1, Calm, OthersKeep DEF Report!vars
<1>2. CASE Report!Park
  BY <1>2, Calm, OthersKeep DEF Report!Park
<1>3. CASE \E t \in Sig \cup Inquiry : Report!Insert(t)
  BY <1>3, InsertKeeps
<1>4. CASE \E n \in DOMAIN issue : Report!Index(n) \/ Report!Close(n) \/ Report!Fill(n)
  BY <1>4, GitHubKeeps
<1>5. ASSUME NEW r \in Run,
             \/ Report!Step(r) \/ Report!TickUnread(r) \/ Report!InquiriesUnread(r)
             \/ Report!SearchFails(r) \/ Report!CommentLost(r) \/ Report!CommentFails(r)
             \/ Report!CreateLost(r) \/ Report!CreateFails(r) \/ Report!MarkFails(r)
             \/ Report!ListFails(r) \/ Report!Die(r)
      PROVE  Reported'
  <2>1. CASE Report!Tick(r) \/ Report!TickUnread(r)
    BY <2>1, TickKeeps
  <2>2. CASE Report!Inquiries(r) \/ Report!InquiriesUnread(r)
    BY <2>2, InquiriesKeep
  <2>3. CASE Report!SearchFinds(r) \/ Report!SearchMisses(r) \/ Report!SearchFails(r)
    BY <2>3, SearchKeeps
  <2>4. CASE Report!Comment(r) \/ Report!CommentLost(r)
    BY <2>4, CommentKeeps
  <2>5. CASE Report!CommentRefused(r) \/ Report!CommentFails(r) \/ Report!Defer(r)
             \/ Report!MarkFails(r)
    BY <2>5, StopKeeps
       DEF Report!CommentRefused, Report!CommentFails, Report!Defer, Report!MarkFails
  <2>6. CASE Report!Create(r) \/ Report!CreateLost(r)
    BY <2>6, CreateKeeps
  <2>7. CASE Report!CreateFails(r)
    BY <2>7, StopKeeps DEF Report!CreateFails
  <2>8. CASE Report!Mark(r)
    BY <2>8, MarkKeeps
  <2>9. CASE Report!BelowThreshold(r) \/ Report!ListFails(r) \/ Report!Die(r)
    BY <2>9, StopKeeps DEF Report!BelowThreshold, Report!ListFails, Report!Die
  <2>10. CASE Report!AboveThreshold(r) \/ Report!List(r)
    BY <2>10, ListKeeps
  <2> QED
    BY <1>5, <2>1, <2>2, <2>3, <2>4, <2>5, <2>6, <2>7, <2>8, <2>9, <2>10 DEF Report!Step
<1> QED
  BY <1>1, <1>2, <1>3, <1>4, <1>5 DEF Report!Next

(* A row the worker has marked was told to the issue it names, whatever    *)
(* fails, is lost or overlaps (processErrors, processInquiries).           *)
THEOREM MarksAreTold ==
    ASSUME TopicsApart PROVE Report!Spec => []Report!MarkedIsTold
<1>1. Report!Init => Reported
  BY ReportInit
<1>2. Reported /\ [Report!Next]_(Report!vars) => Reported'
  BY ReportKeeps
<1>3. Reported => Report!MarkedIsTold
  BY Lengths DEF Reported, MarksHold, Report!MarkedIsTold
<1> QED
  BY <1>1, <1>2, <1>3, PTL DEF Report!Spec

-----------------------------------------------------------------------------
(* While invocations do not overlap.                                       *)
OneAtATime == \A q, r \in Run : q = r

\* An issue about to be created is missing, or its search missed some.
Spared ==
    /\ missed \in [Report!Topic -> Nat]
    /\ \A t \in Sig \cup Inquiry : Cardinality(Report!IssuesAbout(t)) <= 1 + missed[t]
    /\ \A m, n \in Report!Listed : m = n
    /\ \A r \in Run : run[r].at = "create" =>
         IF run[r].kind = "backlog" THEN Report!Listed = {}
         ELSE /\ run[r].topic \in Sig \cup Inquiry
              /\ Cardinality(Report!IssuesAbout(run[r].topic)) <= missed[run[r].topic]

LEMMA AboutFinite ==
    ASSUME ReportTypes, NEW t
    PROVE  /\ IsFiniteSet(Report!IssuesAbout(t))
           /\ Cardinality(Report!IssuesAbout(t)) \in Nat
           /\ Report!IssuesAbout(t) \subseteq 1..Len(issue)
<1>1. Len(issue) \in Nat /\ Report!IssuesAbout(t) \subseteq 1..Len(issue)
  BY Lengths DEF Report!IssuesAbout
<1>2. IsFiniteSet(1..Len(issue))
  BY <1>1, FS_Interval
<1>3. IsFiniteSet(Report!IssuesAbout(t))
  BY <1>1, <1>2, FS_Subset
<1> QED
  BY <1>1, <1>3, FS_CardinalityType

LEMMA SparedInit == Report!Init => Spared
<1> SUFFICES ASSUME Report!Init PROVE Spared
  OBVIOUS
<1>1. issue = <<>> /\ run = [r \in Run |-> Report!Idle] /\ missed = [t \in Report!Topic |-> 0]
  BY DEF Report!Init
<1>2. DOMAIN issue = {}
  BY <1>1
<1>3. \A t : Report!IssuesAbout(t) = {} /\ Report!Listed = {}
  BY <1>2 DEF Report!IssuesAbout, Report!Listed
<1>4. \A t \in Sig \cup Inquiry : missed[t] = 0
  BY <1>1 DEF Report!Topic
<1>5. Cardinality({}) = 0 /\ missed \in [Report!Topic -> Nat]
  BY <1>1, FS_EmptySet
<1>6. ASSUME NEW t \in Sig \cup Inquiry
      PROVE  Cardinality(Report!IssuesAbout(t)) <= 1 + missed[t]
  <2>1. Cardinality(Report!IssuesAbout(t)) = 0 /\ missed[t] = 0
    BY <1>3, <1>4, <1>5
  <2> QED
    BY <2>1
<1>7. \A r \in Run : run[r].at = "idle"
  BY <1>1 DEF Report!Idle
<1> QED
  BY <1>3, <1>5, <1>6, <1>7 DEF Spared

(* A step that opens no issue and is not about to.                         *)
LEMMA SparedStays ==
    ASSUME Spared, missed' = missed, \A t : Report!IssuesAbout(t)' = Report!IssuesAbout(t),
           Report!Listed' \subseteq Report!Listed,
           \A q \in Run : run'[q].at = "create" =>
             /\ run[q].at = "create" /\ run'[q].kind = run[q].kind
             /\ run'[q].topic = run[q].topic
    PROVE  Spared'
<1>1. /\ missed' \in [Report!Topic -> Nat]
      /\ \A t \in Sig \cup Inquiry : Cardinality(Report!IssuesAbout(t)') <= 1 + missed'[t]
      /\ \A m, n \in Report!Listed' : m = n
  BY DEF Spared
<1>2. ASSUME NEW q \in Run, run'[q].at = "create", run'[q].kind # "backlog"
      PROVE  /\ run'[q].topic \in Sig \cup Inquiry
             /\ Cardinality(Report!IssuesAbout(run[q].topic)') <= missed'[run'[q].topic]
  <2>1. PICK k : k = run[q].topic
    OBVIOUS
  <2>2. /\ k \in Sig \cup Inquiry /\ run'[q].topic = k
        /\ Cardinality(Report!IssuesAbout(k)) <= missed[k]
    BY <1>2, <2>1 DEF Spared
  <2>3. Report!IssuesAbout(k)' = Report!IssuesAbout(k)
    OBVIOUS
  <2> QED
    BY <2>2, <2>3 DEF Report!IssuesAbout
<1>3. \A q \in Run : run'[q].at = "create" /\ run'[q].kind = "backlog" => Report!Listed' = {}
  BY DEF Spared
<1> QED
  BY <1>1, <1>2, <1>3 DEF Spared, Report!IssuesAbout

\* No issue opens, no issue changes what it is about.
NoneOpens ==
    /\ missed' = missed /\ DOMAIN issue' = DOMAIN issue
    /\ \A n \in DOMAIN issue : /\ issue'[n].about = issue[n].about
                               /\ issue'[n].open => issue[n].open

NoneCreates ==
    \A q \in Run : run'[q].at = "create" =>
      /\ run[q].at = "create" /\ run'[q].kind = run[q].kind
      /\ run'[q].topic = run[q].topic

LEMMA SparedRests == ASSUME Spared, NoneOpens, NoneCreates PROVE Spared'
<1>1. \A t : Report!IssuesAbout(t)' = Report!IssuesAbout(t)
  BY DEF Report!IssuesAbout, NoneOpens
<1>2. Report!Listed' \subseteq Report!Listed
  BY DEF Report!IssuesAbout, Report!Listed, NoneOpens
<1> QED
  BY <1>1, <1>2, SparedStays DEF NoneOpens, NoneCreates

\* The steps of an invocation that open no issue and do not get there.
Quiet(r) ==
    \/ Report!Tick(r) \/ Report!TickUnread(r) \/ Report!Inquiries(r)
    \/ Report!InquiriesUnread(r) \/ Report!SearchFinds(r) \/ Report!Comment(r)
    \/ Report!CommentLost(r) \/ Report!CommentFails(r) \/ Report!CommentRefused(r)
    \/ Report!Defer(r) \/ Report!CreateFails(r) \/ Report!Mark(r) \/ Report!MarkFails(r)
    \/ Report!BelowThreshold(r) \/ Report!AboveThreshold(r) \/ Report!ListFails(r)
    \/ Report!Die(r)

LEMMA QuietRests ==
    ASSUME Reported, NEW r \in Run, Quiet(r) PROVE NoneOpens /\ NoneCreates
<1>1. /\ run[r] \in RunOf /\ run \in [Run -> RunOf] /\ DOMAIN issue = 1..Len(issue)
      /\ \A n \in DOMAIN issue : issue[n] \in Issue
  BY Lengths DEF Reported, ReportTypes
<1>2. NoneOpens
  <2>1. CASE Report!Comment(r) \/ Report!CommentLost(r)
    <3>1. PICK S : issue' = [issue EXCEPT ![run[r].found].tells = S] /\ missed' = missed
      BY <2>1 DEF Report!Comment, Report!CommentLost, Report!Told
    <3> QED
      BY <1>1, <3>1 DEF NoneOpens, Issue
  <2>2. CASE ~(Report!Comment(r) \/ Report!CommentLost(r))
    <3>1. issue' = issue /\ missed' = missed
      BY <2>2 DEF Quiet, Report!Tick, Report!TickUnread, Report!Inquiries,
         Report!InquiriesUnread, Report!SearchFinds, Report!CommentFails,
         Report!CommentRefused, Report!Defer, Report!CreateFails, Report!Mark,
         Report!MarkFails, Report!BelowThreshold, Report!AboveThreshold,
         Report!ListFails, Report!Die
    <3> QED
      BY <3>1 DEF NoneOpens
  <2> QED
    BY <2>1, <2>2
<1>3. run'[r].at # "create" /\ \A q \in Run : q # r => run'[q] = run[q]
  <2>1. CASE Report!Tick(r)
    BY <1>1, <2>1 DEF Report!Tick, RunOf
  <2>2. CASE Report!TickUnread(r)
    BY <1>1, <2>2 DEF Report!TickUnread, RunOf
  <2>3. CASE Report!Inquiries(r)
    BY <1>1, <2>3 DEF Report!Inquiries, RunOf, Report!Idle
  <2>4. CASE Report!InquiriesUnread(r)
    BY <1>1, <2>4 DEF Report!InquiriesUnread, RunOf, Report!Idle
  <2>5. CASE Report!SearchFinds(r)
    <3>1. PICK n : run' = [run EXCEPT ![r].topic = Report!NextTopic(r), ![r].found = n,
                             ![r].at = IF run[r].kind = "errors" THEN "comment" ELSE "mark"]
      BY <2>5 DEF Report!SearchFinds
    <3> QED
      BY <1>1, <3>1 DEF RunOf
  <2>6. CASE Report!Comment(r)
    BY <1>1, <2>6 DEF Report!Comment, RunOf
  <2>7. CASE Report!Skip(r)
    BY <1>1, <2>7 DEF Report!Skip, RunOf
  <2>8. CASE run' = [run EXCEPT ![r] = Report!Idle]
    BY <1>1, <2>8 DEF Report!Idle, RunOf
  <2>9. CASE Report!AboveThreshold(r)
    BY <1>1, <2>9 DEF Report!AboveThreshold, Report!Idle, RunOf
  <2> QED
    BY <2>1, <2>2, <2>3, <2>4, <2>5, <2>6, <2>7, <2>8, <2>9
       DEF Quiet, Report!CommentLost, Report!CommentFails, Report!CommentRefused,
           Report!Defer, Report!CreateFails, Report!Mark, Report!MarkFails, Report!Abandon,
           Report!BelowThreshold, Report!ListFails, Report!Die
<1>4. NoneCreates
  BY <1>1, <1>3 DEF NoneCreates
<1> QED
  BY <1>2, <1>4

(* A search that finds nothing pays for the issues it missed.              *)
LEMMA SearchPays ==
    ASSUME TopicsApart, OneAtATime, Reported, Spared, NEW r \in Run,
           Report!SearchMisses(r) \/ Report!SearchFails(r)
    PROVE  Spared'
<1> DEFINE x == run[r]
<1>1. PICK T : T = Report!NextTopic(r)
  OBVIOUS
<1>2. Report!Left(r) # {} /\ issue' = issue
  BY DEF Report!SearchMisses, Report!SearchFails
<1>3. PICK i \in x.rows : i \in 1..Len(tables) /\ T = tables[i].topic
  BY <1>1, <1>2, NextTopicIs
<1>4. T \in Sig \cup Inquiry /\ T \in Report!Topic
  BY <1>3, Lengths DEF Reported, RowOf, Report!Topic
<1>5. missed \in [Report!Topic -> Nat]
  BY DEF Spared
<1>6. PICK c \in Nat : c = Cardinality(Report!IssuesAbout(T))
  BY AboutFinite DEF Reported
<1>7. /\ missed' \in [Report!Topic -> Nat] /\ c <= missed'[T]
      /\ \A t \in Report!Topic : missed[t] <= missed'[t]
  <2>1. CASE missed' = [missed EXCEPT ![T] = @ + 1]
    <3>1. c <= 1 + missed[T]
      BY <1>4, <1>6 DEF Spared
    <3>2. missed'[T] = missed[T] + 1 /\ \A t \in Report!Topic : t # T => missed'[t] = missed[t]
      BY <1>4, <1>5, <2>1
    <3>3. missed' \in [Report!Topic -> Nat] /\ \A t \in Report!Topic : missed[t] \in Nat
      BY <1>4, <1>5, <2>1
    <3> QED
      BY <3>1, <3>2, <3>3, <1>4
  <2>2. CASE Report!SearchMisses(r) /\ missed' = missed /\ Report!IssuesAbout(T) = {}
    <3>1. c = 0 /\ \A t \in Report!Topic : missed[t] \in Nat
      BY <1>5, <1>6, <2>2, FS_EmptySet
    <3> QED
      BY <1>4, <1>5, <2>2, <3>1
  <2>3. ASSUME Report!SearchMisses(r), ~\E n \in Report!IssuesAbout(T) : ~issue[n].indexed
        PROVE  Report!IssuesAbout(T) = {} /\ missed' = missed
    <3>1. Report!Indexed(T) = {} /\ missed' = missed
      BY <1>1, <2>3 DEF Report!SearchMisses
    <3> QED
      BY <2>3, <3>1 DEF Report!Indexed, Report!IssuesAbout
  <2> QED
    BY <1>1, <2>1, <2>2, <2>3 DEF Report!SearchMisses, Report!SearchFails, Report!Miss
<1>8. \A t : Report!IssuesAbout(t)' = Report!IssuesAbout(t)
  BY <1>2 DEF Report!IssuesAbout
<1>9. Report!Listed' = Report!Listed
  BY <1>2 DEF Report!Listed, Report!IssuesAbout
<1>10. ASSUME NEW t \in Sig \cup Inquiry
       PROVE  Cardinality(Report!IssuesAbout(t)) <= 1 + missed'[t]
  <2>1. t \in Report!Topic /\ Cardinality(Report!IssuesAbout(t)) <= 1 + missed[t]
    BY DEF Spared, Report!Topic
  <2>2. /\ Cardinality(Report!IssuesAbout(t)) \in Nat /\ missed[t] \in Nat
        /\ missed'[t] \in Nat /\ missed[t] <= missed'[t]
    BY <1>5, <1>7, <2>1, AboutFinite DEF Reported
  <2> QED
    BY <2>1, <2>2
<1>11. run' = [run EXCEPT ![r].at = "create", ![r].topic = T]
  BY <1>1 DEF Report!SearchMisses, Report!SearchFails, Report!Unfound
<1>12. run \in [Run -> RunOf] /\ x \in RunOf /\ Found(x)
  BY DEF Reported, ReportTypes
<1>13. x.kind # "backlog"
  BY <1>3, <1>12 DEF Found
<1>14. run'[r].kind # "backlog" /\ run'[r].topic = T
  BY <1>11, <1>12, <1>13 DEF RunOf
<1>15. \A q \in Run : q = r
  BY DEF OneAtATime
<1>16. ASSUME NEW q \in Run
       PROVE  /\ run'[q].kind # "backlog" /\ run'[q].topic \in Sig \cup Inquiry
              /\ Cardinality(Report!IssuesAbout(run[q].topic)') <= missed'[run'[q].topic]
  <2>1. run'[q].topic = T /\ run'[q].kind # "backlog"
    BY <1>14, <1>15
  <2>2. Report!IssuesAbout(T)' = Report!IssuesAbout(T)
    BY <1>8
  <2> QED
    BY <1>4, <1>6, <1>7, <2>1, <2>2 DEF Report!IssuesAbout
<1>17. \A m, n \in Report!Listed' : m = n
  BY <1>9 DEF Spared
<1>18. \A t \in Sig \cup Inquiry : Cardinality(Report!IssuesAbout(t)') <= 1 + missed'[t]
  BY <1>8, <1>10
<1> QED
  BY <1>7, <1>16, <1>17, <1>18 DEF Spared, Report!IssuesAbout

(* The alarm is opened only after a list without one.                      *)
LEMMA ListSpares ==
    ASSUME OneAtATime, Reported, Spared, NEW r \in Run, Report!List(r) PROVE Spared'
<1>1. run[r] \in RunOf /\ run \in [Run -> RunOf] /\ Found(run[r]) /\ run[r].at = "list"
  BY DEF Reported, ReportTypes, Report!List
<1>2. NoneOpens
  BY DEF NoneOpens, Report!List
<1>3. CASE Report!Listed # {}
  <2>1. run' = [run EXCEPT ![r] = Report!Idle]
    BY <1>3 DEF Report!List
  <2>2. NoneCreates
    BY <1>1, <2>1 DEF NoneCreates, Report!Idle
  <2> QED
    BY <1>2, <2>2, SparedRests
<1>4. CASE Report!Listed = {}
  <2>1. run' = [run EXCEPT ![r].at = "create"]
    BY <1>4 DEF Report!List
  <2>2. run'[r].kind = "backlog"
    BY <1>1, <2>1 DEF Found, RunOf
  <2>3. \A q \in Run : run'[q].kind = "backlog"
    BY <2>2 DEF OneAtATime
  <2>4. issue' = issue /\ missed' = missed
    BY DEF Report!List
  <2>5. Report!Listed' = {} /\ \A t : Report!IssuesAbout(t)' = Report!IssuesAbout(t)
    BY <1>4, <2>4 DEF Report!Listed, Report!IssuesAbout
  <2> QED
    BY <2>3, <2>4, <2>5 DEF Spared
<1> QED
  BY <1>3, <1>4

(* A new issue takes the place its search left for it.                     *)
LEMMA CreateSpares ==
    ASSUME TopicsApart, OneAtATime, Reported, Spared, NEW r \in Run,
           Report!Create(r) \/ Report!CreateLost(r)
    PROVE  Spared'
<1> DEFINE n == Len(issue)
<1>1. PICK x : x = run[r]
  OBVIOUS
<1>2. /\ x \in RunOf /\ run \in [Run -> RunOf] /\ Found(x) /\ x.at = "create"
      /\ missed' = missed
  BY <1>1 DEF Reported, ReportTypes, Report!Create, Report!CreateLost
<1>3. PICK e \in Issue : issue' = Append(issue, e) /\ e.about = x.topic
  <2>1. PICK e : e = [about |-> x.topic, open |-> TRUE, full |-> FALSE,
                      indexed |-> FALSE, tells |-> GroupOf(x)]
    OBVIOUS
  <2>2. issue' = Append(issue, e)
    BY <1>1, <2>1 DEF Report!Create, Report!CreateLost, Report!NewIssue, Report!Group, GroupOf
  <2>3. e \in Issue /\ e.about = x.topic
    BY <1>2, <2>1 DEF Issue, RunOf, GroupOf
  <2> QED
    BY <2>2, <2>3
<1>4. n \in Nat /\ issue \in Seq(Issue) /\ DOMAIN issue = 1..n
  BY Lengths DEF Reported, ReportTypes
<1>5. /\ issue' \in Seq(Issue) /\ Len(issue') = n + 1 /\ issue'[n + 1] = e
      /\ \A m \in 1..n : issue'[m] = issue[m]
  BY <1>3, <1>4, AppendProperties
<1>6. DOMAIN issue' = 1..(n + 1)
  BY <1>5, LenProperties
<1>7. \A m : m \in 1..(n + 1) <=> m \in 1..n \/ m = n + 1
  BY <1>4
<1>8. ASSUME NEW t, t # x.topic PROVE Report!IssuesAbout(t)' = Report!IssuesAbout(t)
  BY <1>3, <1>4, <1>5, <1>6, <1>7, <1>8 DEF Report!IssuesAbout
<1>9. Report!IssuesAbout(x.topic)' = Report!IssuesAbout(x.topic) \cup {n + 1}
  BY <1>3, <1>4, <1>5, <1>6, <1>7 DEF Report!IssuesAbout
<1>10. n + 1 \notin 1..n
  BY <1>4
<1>11. n + 1 \notin Report!IssuesAbout(x.topic)
  BY <1>4, <1>10 DEF Report!IssuesAbout
<1>12. Cardinality(Report!IssuesAbout(x.topic)') = Cardinality(Report!IssuesAbout(x.topic)) + 1
  BY <1>9, <1>11, AboutFinite, FS_AddElement DEF Reported
<1>13. x.kind # "backlog" => /\ x.topic \in Sig \cup Inquiry
                             /\ Cardinality(Report!IssuesAbout(x.topic)) <= missed[x.topic]
  BY <1>1, <1>2 DEF Spared
<1>14. x.kind = "backlog" => Report!Listed = {} /\ x.topic = Backlog
  BY <1>1, <1>2 DEF Spared, Found
<1>15. ASSUME NEW t \in Sig \cup Inquiry
       PROVE  Cardinality(Report!IssuesAbout(t)') <= 1 + missed[t]
  <2>1. CASE t # x.topic
    <3>1. Report!IssuesAbout(t)' = Report!IssuesAbout(t)
      BY <1>8, <2>1
    <3> QED
      BY <3>1 DEF Spared
  <2>2. CASE t = x.topic
    <3>1. x.kind # "backlog"
      BY <1>14, <2>2 DEF TopicsApart
    <3>2. Cardinality(Report!IssuesAbout(t)') = Cardinality(Report!IssuesAbout(t)) + 1
      BY <1>12, <2>2
    <3>3. Cardinality(Report!IssuesAbout(t)) <= missed[t]
      BY <1>13, <2>2, <3>1
    <3>4. Cardinality(Report!IssuesAbout(t)) \in Nat /\ missed[t] \in Nat
      BY AboutFinite DEF Reported, Spared, Report!Topic
    <3> QED
      BY <3>2, <3>3, <3>4
  <2> QED
    BY <2>1, <2>2
<1>16. ASSUME NEW i \in Report!Listed', NEW j \in Report!Listed' PROVE i = j
  <2>1. \A m \in Report!Listed' : m \in Report!Listed \/ m = n + 1
    BY <1>4, <1>5, <1>6, <1>7 DEF Report!Listed, Report!IssuesAbout
  <2>2. CASE x.kind = "backlog"
    BY <1>14, <2>1, <2>2
  <2>3. CASE x.kind # "backlog"
    <3>1. x.topic # Backlog
      BY <1>13, <2>3 DEF TopicsApart
    <3>2. n + 1 \notin Report!Listed'
      BY <1>3, <1>5, <3>1 DEF Report!Listed, Report!IssuesAbout
    <3> QED
      BY <2>1, <3>2 DEF Spared
  <2> QED
    BY <2>2, <2>3
<1>17. run'[r].at # "create"
  <2>1. CASE run' = [run EXCEPT ![r] = Report!Idle]
    BY <1>2, <2>1 DEF Report!Idle
  <2>2. CASE Report!Skip(r)
    BY <1>2, <2>2 DEF Report!Skip, RunOf
  <2>3. CASE Report!Create(r) /\ x.kind # "backlog"
    <3>1. PICK m : m = IF x.kind = "errors" THEN x.made + 1 ELSE x.made
      OBVIOUS
    <3>2. run' = [run EXCEPT ![r].at = "mark", ![r].found = Len(issue'), ![r].made = m]
      BY <1>1, <2>3, <3>1 DEF Report!Create
    <3> QED
      BY <1>2, <3>2 DEF RunOf
  <2> QED
    BY <1>1, <2>1, <2>2, <2>3 DEF Report!Create, Report!CreateLost, Report!Abandon
<1>18. \A q \in Run : run'[q].at # "create"
  BY <1>17 DEF OneAtATime
<1> QED
  BY <1>2, <1>15, <1>16, <1>18 DEF Spared

LEMMA SparedKeeps ==
    ASSUME TopicsApart, OneAtATime, Reported, Spared, [Report!Next]_(Report!vars)
    PROVE  Spared'
<1>1. CASE UNCHANGED Report!vars \/ Report!Park \/ \E t \in Sig \cup Inquiry : Report!Insert(t)
  <2>1. issue' = issue /\ missed' = missed /\ run' = run
    BY <1>1 DEF Report!vars, Report!Park, Report!Insert
  <2> QED
    BY <2>1, SparedRests DEF NoneOpens, NoneCreates
<1>2. ASSUME NEW n \in DOMAIN issue, Report!Index(n) \/ Report!Close(n) \/ Report!Fill(n)
      PROVE  Spared'
  <2>1. missed' = missed /\ run' = run
    BY <1>2 DEF Report!Index, Report!Close, Report!Fill
  <2>2. \A k \in DOMAIN issue : issue[k] \in Issue
    BY Lengths DEF Reported
  <2>3. \/ issue' = [issue EXCEPT ![n].indexed = TRUE]
        \/ issue' = [issue EXCEPT ![n].open = FALSE] /\ issue[n].open
        \/ issue' = [issue EXCEPT ![n].full = TRUE]
    BY <1>2 DEF Report!Index, Report!Close, Report!Fill
  <2>4. NoneOpens
    BY <2>1, <2>2, <2>3 DEF NoneOpens, Issue
  <2> QED
    BY <2>1, <2>4, SparedRests DEF NoneCreates
<1>3. ASSUME NEW r \in Run,
             \/ Report!Step(r) \/ Report!TickUnread(r) \/ Report!InquiriesUnread(r)
             \/ Report!SearchFails(r) \/ Report!CommentLost(r) \/ Report!CommentFails(r)
             \/ Report!CreateLost(r) \/ Report!CreateFails(r) \/ Report!MarkFails(r)
             \/ Report!ListFails(r) \/ Report!Die(r)
      PROVE  Spared'
  <2>1. CASE Quiet(r)
    BY <2>1, QuietRests, SparedRests
  <2>2. CASE Report!SearchMisses(r) \/ Report!SearchFails(r)
    BY <2>2, SearchPays
  <2>3. CASE Report!List(r)
    BY <2>3, ListSpares
  <2>4. CASE Report!Create(r) \/ Report!CreateLost(r)
    BY <2>4, CreateSpares
  <2> QED
    BY <1>3, <2>1, <2>2, <2>3, <2>4 DEF Report!Step, Quiet
<1> QED
  BY <1>1, <1>2, <1>3 DEF Report!Next

LEMMA SameNumber == ASSUME NEW S PROVE Report!Cardinality(S) = Cardinality(S)
BY DEF Report!Cardinality, Cardinality

(* While invocations do not overlap, a lost answer, a failed mark or a     *)
(* death alone gives no signature and no inquiry a second issue: only      *)
(* searches that missed one do (searchIssue, processErrors,                *)
(* processInquiries).                                                      *)
THEOREM IssuesAreSpared ==
    ASSUME TopicsApart, OneAtATime
    PROVE  Report!Spec => []Report!NoNeedlessIssue
<1>1. Report!Init => Reported /\ Spared
  BY ReportInit, SparedInit
<1>2. Reported /\ Spared /\ [Report!Next]_(Report!vars) => Reported' /\ Spared'
  BY ReportKeeps, SparedKeeps
<1>3. Spared => Report!NoNeedlessIssue
  BY SameNumber DEF Spared, Report!NoNeedlessIssue
<1> QED
  BY <1>1, <1>2, <1>3, PTL DEF Report!Spec

(* While invocations do not overlap, at most one alarm about the backlog   *)
(* is open, whatever fails (processEventSubParkBacklog).                   *)
THEOREM AlarmIsAlone ==
    ASSUME TopicsApart, OneAtATime
    PROVE  Report!Spec => []Report!OneBacklogIssue
<1>1. Report!Init => Reported /\ Spared
  BY ReportInit, SparedInit
<1>2. Reported /\ Spared /\ [Report!Next]_(Report!vars) => Reported' /\ Spared'
  BY ReportKeeps, SparedKeeps
<1>3. Spared => Report!OneBacklogIssue
  <2> SUFFICES ASSUME Spared PROVE Cardinality(Report!Listed) <= 1
    BY SameNumber DEF Report!OneBacklogIssue, Report!Listed
  <2>1. CASE Report!Listed = {}
    BY <2>1, FS_EmptySet
  <2>2. ASSUME NEW m \in Report!Listed PROVE Cardinality(Report!Listed) <= 1
    <3>1. Report!Listed = {m}
      BY DEF Spared
    <3>2. Cardinality({m}) = 1
      BY FS_Singleton
    <3>3. Cardinality(Report!Listed) = 1
      BY <3>1, <3>2, Zenon
    <3> QED
      BY <3>3
  <2> QED
    BY <2>1, <2>2
<1> QED
  BY <1>1, <1>2, <1>3, PTL DEF Report!Spec

-----------------------------------------------------------------------------
(* The display of the overlay page.                                        *)
(* Where an error and a change of the streamer never meet: the timer of a  *)
(* failed card survives the change.                                        *)
DisplayBounds ==
    /\ {Size, MaxThrows, MaxMoves} \subseteq Nat
    /\ MaxThrows = 0 \/ MaxMoves = 0

ShownCard == [nr : Nat, batch : Batch, sound : BOOLEAN]

Timer == [kind : {"image", "show", "hide", "next"}, card : ShownCard, gen : Nat]

Retry == [kind : {"retry"}]

Screen == [queue : Seq(ShownCard), displaying : BOOLEAN, tasks : SUBSET (Timer \cup Retry),
           anim : SUBSET (Timer \cup Retry), card : SUBSET ShownCard, visible : BOOLEAN,
           gen : Nat, played : SUBSET Batch, sounding : BOOLEAN, sounds : [Batch -> Nat],
           version : Version, scheduled : BOOLEAN, timer : BOOLEAN,
           target : Version \cup {Display!None}]

\* The timers that go on with a display, and those whose card is to come.
LiveOf(x) == {t \in x.tasks : t.kind = "image" => t.gen = x.gen}

Coming(x) == {t \in LiveOf(x) : t.kind \in {"image", "show"}}

\* The chain and its lock.
ChainOf(x) ==
    /\ \A t, u \in LiveOf(x) : t = u
    /\ x.displaying <=> LiveOf(x) # {}
    /\ x.queue # <<>> => x.displaying

\* What a change of the streamer has to find: handles of timers, old images.
TimersOf(x) ==
    /\ \A t \in x.tasks : t.kind = "image" => t.gen <= x.gen
    /\ \A t \in x.tasks : t.kind \in {"show", "hide", "next"} => t \in x.anim
    /\ MaxThrows = 0 => \A t \in x.tasks : t.kind # "retry"

SoundsOf(x) == \A b \in Batch : x.sounds[b] = 0 \/ (x.sounds[b] = 1 /\ b \in x.played)

\* Shown, under way, waiting: the numbers grow along this line.
OrderOf(x, n, s) ==
    /\ \A i, j \in 1..Len(x.queue) : i < j => x.queue[i].nr < x.queue[j].nr
    /\ \A i \in 1..Len(x.queue) : x.queue[i].nr <= n
    /\ \A t \in Coming(x) : /\ t.card.nr <= n
                            /\ \A i \in 1..Len(x.queue) : t.card.nr < x.queue[i].nr
                            /\ \A k \in 1..Len(s) : s[k] < t.card.nr
    /\ \A k \in 1..Len(s) : /\ s[k] <= n
                            /\ \A i \in 1..Len(x.queue) : s[k] < x.queue[i].nr
    /\ \A k, l \in 1..Len(s) : k < l => s[k] < s[l]

\* No card gets lost.
AllOf(x, n, s, g) ==
    \A c \in 1..n : \/ c \in g \/ \E k \in 1..Len(s) : s[k] = c
                    \/ \E i \in 1..Len(x.queue) : x.queue[i].nr = c
                    \/ \E t \in Coming(x) : t.card.nr = c

Fits(x, n, s, g) ==
    /\ x \in Screen /\ n \in Nat /\ s \in Seq(Nat)
    /\ TimersOf(x) /\ SoundsOf(x) /\ OrderOf(x, n, s) /\ AllOf(x, n, s, g)

Displayed ==
    /\ Fits(screen, came, shown, gone) /\ ChainOf(screen)
    /\ left \in [Batch -> Nat] /\ throws \in Nat

LEMMA ScreenLengths ==
    ASSUME NEW x \in Screen
    PROVE  /\ Len(x.queue) \in Nat /\ x.queue \in Seq(ShownCard)
           /\ \A i \in 1..Len(x.queue) : x.queue[i] \in ShownCard /\ x.queue[i].nr \in Nat
<1>1. x.queue \in Seq(ShownCard)
  BY DEF Screen
<1>2. \A i \in 1..Len(x.queue) : x.queue[i] \in ShownCard
  BY <1>1, ElementOfSeq
<1>3. Len(x.queue) \in Nat
  BY <1>1, LenProperties
<1> QED
  BY <1>1, <1>2, <1>3 DEF ShownCard

(* A page that has just been loaded shows nothing.                         *)
LEMMA LoadedIs ==
    ASSUME NEW x, x.queue = <<>>, x.tasks = {}, x.displaying = FALSE,
           x.sounds = [b \in Batch |-> 0]
    PROVE  TimersOf(x) /\ SoundsOf(x) /\ ChainOf(x)
<1>1. TimersOf(x)
  BY DEF TimersOf
<1>2. SoundsOf(x)
  BY DEF SoundsOf
<1>3. LiveOf(x) = {}
  BY DEF LiveOf
<1>4. ChainOf(x)
  BY <1>3 DEF ChainOf
<1> QED
  BY <1>1, <1>2, <1>4

LEMMA LoadedFits ==
    ASSUME NEW v \in Version, NEW m \in Nat, NEW x,
           \/ x = [Display!Loaded(v) EXCEPT !.gen = m]
           \/ m = 0 /\ x = Display!Loaded(v)
    PROVE  /\ x \in Screen /\ TimersOf(x) /\ SoundsOf(x) /\ ChainOf(x)
           /\ x.queue = <<>> /\ x.gen = m /\ x.tasks = {}
<1>1. <<>> \in Seq(ShownCard) /\ [b \in Batch |-> 0] \in [Batch -> Nat]
  BY EmptySeq
<1>2. CASE x = [Display!Loaded(v) EXCEPT !.gen = m]
  <2>1. /\ x.queue = <<>> /\ x.tasks = {} /\ x.displaying = FALSE /\ x.gen = m
        /\ x.sounds = [b \in Batch |-> 0]
    BY <1>2 DEF Display!Loaded
  <2>2. x \in Screen
    BY <1>1, <1>2 DEF Display!Loaded, Screen
  <2> QED
    BY <2>1, <2>2, LoadedIs
<1>3. CASE m = 0 /\ x = Display!Loaded(v)
  <2>1. /\ x.queue = <<>> /\ x.tasks = {} /\ x.displaying = FALSE /\ x.gen = m
        /\ x.sounds = [b \in Batch |-> 0]
    BY <1>3 DEF Display!Loaded
  <2>2. x \in Screen
    BY <1>1, <1>3 DEF Display!Loaded, Screen
  <2> QED
    BY <2>1, <2>2, LoadedIs
<1> QED
  BY <1>2, <1>3

LEMMA DisplayInit == ASSUME DisplayBounds, Display!Init PROVE Displayed
<1>1. PICK v \in Version : screen = Display!Loaded(v)
  BY DEF Display!Init
<1>2. came = 0 /\ shown = <<>> /\ gone = {} /\ left = [b \in Batch |-> Size] /\ throws = 0
  BY DEF Display!Init
<1>4. /\ screen \in Screen /\ TimersOf(screen) /\ SoundsOf(screen) /\ ChainOf(screen)
      /\ screen.queue = <<>> /\ screen.tasks = {}
  BY <1>1, LoadedFits
<1>5. Len(screen.queue) = 0 /\ Len(shown) = 0 /\ shown \in Seq(Nat) /\ 1..0 = {}
  BY <1>2, <1>4, EmptySeq
<1>6. Coming(screen) = {}
  BY <1>4 DEF Coming, LiveOf
<1>7. OrderOf(screen, came, shown) /\ AllOf(screen, came, shown, gone)
  BY <1>2, <1>5, <1>6 DEF OrderOf, AllOf
<1> QED
  BY <1>2, <1>4, <1>5, <1>7 DEF Displayed, Fits, DisplayBounds

(* A page whose chain has ended goes on with the first card that waits.    *)
LEMMA ProcessedFits ==
    ASSUME NEW x, NEW n, NEW s, NEW g, Fits(x, n, s, g), LiveOf(x) = {},
           NEW y, y = Display!Processed(x)
    PROVE  Fits(y, n, s, g) /\ ChainOf(y)
<1>1. x \in Screen /\ Coming(x) = {}
  BY DEF Fits, Coming
<1>2. CASE x.queue = <<>>
  <2>1. /\ y \in Screen /\ y.queue = x.queue /\ y.tasks = x.tasks /\ y.gen = x.gen
        /\ y.anim = x.anim /\ y.sounds = x.sounds /\ y.played = x.played
        /\ y.displaying = FALSE
    BY <1>1, <1>2 DEF Display!Processed, Screen
  <2>2. LiveOf(y) = {} /\ Coming(y) = Coming(x)
    BY <2>1 DEF LiveOf, Coming
  <2>3. ChainOf(y)
    BY <1>2, <2>1, <2>2 DEF ChainOf
  <2>4. TimersOf(y) /\ SoundsOf(y)
    BY <2>1 DEF Fits, TimersOf, SoundsOf
  <2>5. OrderOf(y, n, s) /\ AllOf(y, n, s, g)
    BY <2>1, <2>2 DEF Fits, OrderOf, AllOf
  <2> QED
    BY <2>1, <2>3, <2>4, <2>5 DEF Fits
<1>3. CASE x.queue # <<>>
  <2>1. PICK t : t = [kind |-> "image", card |-> Head(x.queue), gen |-> x.gen]
    OBVIOUS
  <2>2. /\ Len(x.queue) \in Nat /\ x.queue \in Seq(ShownCard) /\ 1 \in 1..Len(x.queue)
        /\ \A i \in 1..Len(x.queue) : x.queue[i] \in ShownCard /\ x.queue[i].nr \in Nat
    BY <1>1, <1>3, ScreenLengths, EmptySeq
  <2>3. Head(x.queue) = x.queue[1]
    BY <2>2
  <2>4. t \in Timer /\ t.kind = "image" /\ t.card = x.queue[1] /\ t.gen = x.gen
    BY <1>1, <2>1, <2>2, <2>3 DEF Timer, Screen
  <2>5. /\ Tail(x.queue) \in Seq(ShownCard) /\ Len(Tail(x.queue)) = Len(x.queue) - 1
        /\ \A i \in 1..Len(Tail(x.queue)) : Tail(x.queue)[i] = x.queue[i + 1]
    BY <1>3, <2>2, HeadTailProperties
  <2>6. PICK w \in Seq(ShownCard) : w = Tail(x.queue)
    BY <2>5
  <2>7. PICK T \in SUBSET (Timer \cup Retry) :
          T = x.tasks \cup {t} /\ y = [x EXCEPT !.queue = w, !.displaying = TRUE, !.tasks = T]
    <3>1. x.tasks \cup {t} \in SUBSET (Timer \cup Retry)
      BY <1>1, <2>4 DEF Screen
    <3> QED
      BY <1>3, <2>1, <2>6, <3>1 DEF Display!Processed
  <2>8. /\ y \in Screen /\ y.queue = w /\ y.tasks = x.tasks \cup {t}
        /\ y.gen = x.gen /\ y.anim = x.anim /\ y.sounds = x.sounds /\ y.played = x.played
        /\ y.displaying = TRUE
    BY <1>1, <2>7 DEF Screen
  <2>9. LiveOf(y) = {t} /\ Coming(y) = {t}
    BY <2>4, <2>8 DEF LiveOf, Coming
  <2>10. ChainOf(y)
    BY <2>8, <2>9 DEF ChainOf
  <2>11. x.gen \in Nat
    BY <1>1 DEF Screen
  <2>12. TimersOf(y) /\ SoundsOf(y)
    BY <2>4, <2>8, <2>11 DEF Fits, TimersOf, SoundsOf
  <2>13. /\ \A i \in 1..Len(w) : i + 1 \in 1..Len(x.queue) /\ w[i] = x.queue[i + 1] /\ 1 < i + 1
         /\ \A i \in 1..Len(x.queue) : i = 1 \/ \E j \in 1..Len(w) : i = j + 1
    <3>1. /\ Len(w) = Len(x.queue) - 1 /\ Len(x.queue) \in Nat /\ Len(x.queue) >= 1
          /\ \A i \in 1..Len(w) : w[i] = x.queue[i + 1]
      BY <2>2, <2>5, <2>6
    <3>2. ASSUME NEW i \in 1..Len(x.queue), i # 1 PROVE \E j \in 1..Len(w) : i = j + 1
      <4>1. i - 1 \in 1..Len(w) /\ i = (i - 1) + 1
        BY <3>1, <3>2
      <4> QED
        BY <4>1
    <3>3. \A i \in 1..Len(w) : i + 1 \in 1..Len(x.queue) /\ 1 < i + 1
      BY <3>1
    <3> QED
      BY <3>1, <3>2, <3>3
  <2>14. OrderOf(y, n, s)
    <3>1. \A i, j \in 1..Len(w) : i < j => w[i].nr < w[j].nr
      <4>1. \A i, j \in 1..Len(w) : i < j => i + 1 < j + 1
        OBVIOUS
      <4> QED
        BY <2>13, <4>1 DEF Fits, OrderOf
    <3>2. \A i \in 1..Len(w) : w[i].nr <= n /\ t.card.nr < w[i].nr
      BY <2>2, <2>4, <2>13 DEF Fits, OrderOf
    <3>3. t.card.nr <= n /\ \A k \in 1..Len(s) : s[k] < t.card.nr
      BY <2>2, <2>4 DEF Fits, OrderOf
    <3>4. \A k \in 1..Len(s) : s[k] <= n /\ \A i \in 1..Len(w) : s[k] < w[i].nr
      BY <2>13 DEF Fits, OrderOf
    <3>5. \A k, l \in 1..Len(s) : k < l => s[k] < s[l]
      BY DEF Fits, OrderOf
    <3> QED
      BY <2>8, <2>9, <3>1, <3>2, <3>3, <3>4, <3>5 DEF OrderOf
  <2>15. AllOf(y, n, s, g)
    <3>1. ASSUME NEW i \in 1..Len(x.queue)
          PROVE  x.queue[i].nr = t.card.nr \/ \E j \in 1..Len(w) : w[j].nr = x.queue[i].nr
      BY <2>4, <2>13
    <3>2. ASSUME NEW c \in 1..n
          PROVE  \/ c \in g \/ \E k \in 1..Len(s) : s[k] = c
                 \/ \E i \in 1..Len(x.queue) : x.queue[i].nr = c
      BY <1>1 DEF Fits, AllOf
    <3>3. ASSUME NEW c \in 1..n
          PROVE  \/ c \in g \/ \E k \in 1..Len(s) : s[k] = c
                 \/ \E j \in 1..Len(w) : w[j].nr = c
                 \/ t.card.nr = c
      BY <3>1, <3>2
    <3> QED
      BY <2>8, <2>9, <3>3 DEF AllOf
  <2> QED
    BY <2>8, <2>10, <2>12, <2>14, <2>15 DEF Fits
<1> QED
  BY <1>2, <1>3

(* A page that changes nothing of this.                                    *)
LEMMA SameFits ==
    ASSUME NEW x, NEW n, NEW s, NEW g, Fits(x, n, s, g), ChainOf(x), NEW y \in Screen,
           y.queue = x.queue, y.tasks = x.tasks, y.gen = x.gen, y.anim = x.anim,
           y.sounds = x.sounds, y.played = x.played, y.displaying = x.displaying
    PROVE  Fits(y, n, s, g) /\ ChainOf(y)
<1>1. LiveOf(y) = LiveOf(x) /\ Coming(y) = Coming(x)
  BY DEF LiveOf, Coming
<1>2. ChainOf(y) /\ TimersOf(y) /\ SoundsOf(y)
  BY <1>1 DEF Fits, ChainOf, TimersOf, SoundsOf
<1>3. OrderOf(y, n, s) /\ AllOf(y, n, s, g)
  BY <1>1 DEF Fits, OrderOf, AllOf
<1> QED
  BY <1>2, <1>3 DEF Fits

\* Cards arrive behind all the others.
Behind(x, y, w, n, k) ==
    /\ k \in Nat /\ w \in Seq(ShownCard) /\ Len(w) = k /\ \A i \in 1..k : w[i].nr = n + i
    /\ y \in Screen /\ y.queue = x.queue \o w /\ y.tasks = x.tasks /\ y.gen = x.gen
    /\ y.anim = x.anim /\ y.sounds = x.sounds /\ y.played = x.played

LEMMA ArriveFits ==
    ASSUME NEW x, NEW n, NEW s, NEW g, Fits(x, n, s, g), NEW k, NEW w, NEW y,
           Behind(x, y, w, n, k)
    PROVE  Fits(y, n + k, s, g) /\ LiveOf(y) = LiveOf(x)
<1> USE DEF Behind
<1> DEFINE m == Len(x.queue)
<1>1. /\ x \in Screen /\ m \in Nat /\ x.queue \in Seq(ShownCard) /\ n \in Nat
      /\ \A i \in 1..m : x.queue[i].nr \in Nat
  BY ScreenLengths DEF Fits
<1>2. Len(y.queue) = m + k /\ \A i \in 1..(m + k) :
        y.queue[i] = IF i <= m THEN x.queue[i] ELSE w[i - m]
  <2>1. /\ Len(x.queue \o w) = Len(x.queue) + Len(w)
        /\ \A i \in 1..(Len(x.queue) + Len(w)) :
             (x.queue \o w)[i] = IF i <= Len(x.queue) THEN x.queue[i] ELSE w[i - Len(x.queue)]
    BY <1>1, ConcatProperties
  <2> QED
    BY <2>1
<1> HIDE DEF m
<1>3. \A i \in 1..m : i \in 1..(m + k) /\ y.queue[i] = x.queue[i]
  BY <1>1, <1>2
<1>4. ASSUME NEW i \in 1..(m + k), i \notin 1..m
      PROVE  \E a \in 1..k : i = m + a /\ y.queue[i].nr = n + a
  <2>1. i - m \in 1..k /\ i = m + (i - m) /\ ~(i <= m)
    BY <1>1, <1>4
  <2>2. y.queue[i] = w[i - m]
    BY <1>2, <2>1
  <2> QED
    BY <2>1, <2>2
<1>5. LiveOf(y) = LiveOf(x) /\ Coming(y) = Coming(x)
  BY DEF LiveOf, Coming
<1>6. TimersOf(y) /\ SoundsOf(y)
  BY DEF Fits, TimersOf, SoundsOf
<1>7. OrderOf(y, n + k, s)
  <2>1. ASSUME NEW i \in 1..(m + k), NEW j \in 1..(m + k), i < j
        PROVE  y.queue[i].nr < y.queue[j].nr
    <3>1. CASE i \in 1..m /\ j \in 1..m
      BY <1>3, <2>1, <3>1 DEF Fits, OrderOf, m
    <3>2. CASE i \in 1..m /\ j \notin 1..m
      <4>1. y.queue[i].nr = x.queue[i].nr /\ x.queue[i].nr \in Nat /\ x.queue[i].nr <= n
        BY <1>1, <1>3, <3>2 DEF Fits, OrderOf, m
      <4>2. PICK a \in 1..k : y.queue[j].nr = n + a
        BY <1>4, <3>2
      <4>3. n \in Nat /\ k \in Nat
        BY <1>1
      <4>4. n < n + a
        BY <4>2, <4>3
      <4> QED
        BY <4>1, <4>2, <4>3, <4>4
    <3>3. CASE i \notin 1..m
      <4>1. j \notin 1..m
        BY <1>1, <2>1, <3>3
      <4>2. PICK a \in 1..k : i = m + a /\ y.queue[i].nr = n + a
        BY <1>4, <3>3
      <4>3. PICK c \in 1..k : j = m + c /\ y.queue[j].nr = n + c
        BY <1>4, <4>1
      <4> QED
        BY <1>1, <2>1, <4>2, <4>3
    <3> QED
      BY <3>1, <3>2, <3>3
  <2>2. ASSUME NEW i \in 1..(m + k) PROVE y.queue[i].nr <= n + k
    <3>1. CASE i \in 1..m
      <4>1. y.queue[i].nr = x.queue[i].nr /\ x.queue[i].nr \in Nat /\ x.queue[i].nr <= n
        BY <1>1, <1>3, <3>1 DEF Fits, OrderOf, m
      <4> QED
        BY <1>1, <4>1
    <3>2. CASE i \notin 1..m
      <4>1. PICK a \in 1..k : y.queue[i].nr = n + a
        BY <1>4, <3>2
      <4> QED
        BY <1>1, <4>1
    <3> QED
      BY <3>1, <3>2
  <2>3. ASSUME NEW b \in Nat, b <= n, \A i \in 1..m : b < x.queue[i].nr
        PROVE  b <= n + k /\ \A i \in 1..(m + k) : b < y.queue[i].nr
    <3>1. ASSUME NEW i \in 1..(m + k) PROVE b < y.queue[i].nr
      <4>1. CASE i \in 1..m
        BY <1>3, <2>3, <4>1
      <4>2. CASE i \notin 1..m
        <5>1. PICK a \in 1..k : y.queue[i].nr = n + a
          BY <1>4, <4>2
        <5> QED
          BY <1>1, <2>3, <5>1
      <4> QED
        BY <4>1, <4>2
    <3>2. b <= n + k
      BY <1>1, <2>3
    <3> QED
      BY <3>1, <3>2
  <2>4. ASSUME NEW t \in Coming(y)
        PROVE  /\ t.card.nr <= n + k /\ \A i \in 1..(m + k) : t.card.nr < y.queue[i].nr
               /\ \A l \in 1..Len(s) : s[l] < t.card.nr
    <3>1. /\ t.card.nr <= n /\ \A i \in 1..m : t.card.nr < x.queue[i].nr
          /\ \A l \in 1..Len(s) : s[l] < t.card.nr
      BY <1>5 DEF Fits, OrderOf, m
    <3>2. t.card.nr \in Nat
      BY <1>1, <1>5 DEF Coming, LiveOf, Screen, Timer, Retry, ShownCard
    <3> QED
      BY <2>3, <3>1, <3>2
  <2>5. ASSUME NEW l \in 1..Len(s)
        PROVE  s[l] <= n + k /\ \A i \in 1..(m + k) : s[l] < y.queue[i].nr
    <3>1. s[l] <= n /\ \A i \in 1..m : s[l] < x.queue[i].nr
      BY DEF Fits, OrderOf, m
    <3>2. s[l] \in Nat
      BY ElementOfSeq DEF Fits
    <3> QED
      BY <2>3, <3>1, <3>2
  <2> QED
    BY <1>2, <2>1, <2>2, <2>4, <2>5 DEF Fits, OrderOf, m
<1>8. AllOf(y, n + k, s, g)
  <2> SUFFICES ASSUME NEW c \in 1..(n + k)
               PROVE  \/ c \in g \/ \E l \in 1..Len(s) : s[l] = c
                      \/ \E i \in 1..(m + k) : y.queue[i].nr = c
                      \/ \E t \in Coming(y) : t.card.nr = c
    BY <1>2 DEF AllOf
  <2>1. CASE c \in 1..n
    BY <1>3, <1>5, <2>1 DEF Fits, AllOf, m
  <2>2. CASE c \notin 1..n
    <3>1. PICK j \in 1..k : c = n + j
      <4>1. c - n \in 1..k /\ c = n + (c - n)
        BY <1>1, <2>2
      <4> QED
        BY <4>1
    <3>2. m + j \in 1..(m + k) /\ m + j \notin 1..m
      BY <1>1
    <3>3. PICK a \in 1..k : m + j = m + a /\ y.queue[m + j].nr = n + a
      BY <1>4, <3>2
    <3>4. y.queue[m + j].nr = n + j
      <4>1. a = j
        BY <1>1, <3>3
      <4> QED
        BY <3>3, <4>1
    <3> QED
      BY <3>1, <3>2, <3>4
  <2> QED
    BY <2>1, <2>2
<1> QED
  BY <1>1, <1>5, <1>6, <1>7, <1>8 DEF Fits

(* The one live timer makes way for the next one of the chain.             *)
LEMMA ChainFits ==
    ASSUME NEW x, NEW n, NEW s, NEW g, Fits(x, n, s, g), ChainOf(x), NEW t \in LiveOf(x),
           NEW u \in Timer \cup Retry, u.kind # "image",
           u.kind = "retry" => MaxThrows # 0,
           NEW y \in Screen, y.tasks = (x.tasks \ {t}) \cup {u}, y.gen = x.gen,
           y.anim = {u} \/ u.kind = "retry", y.queue = x.queue, y.displaying = x.displaying
    PROVE  /\ LiveOf(x) = {t} /\ LiveOf(y) = {u} /\ x.gen \in Nat
           /\ ChainOf(y) /\ TimersOf(y)
<1>1. LiveOf(x) = {t}
  BY DEF ChainOf
<1>2. LiveOf(y) = {u}
  BY <1>1 DEF LiveOf
<1>3. \A v \in x.tasks : v.kind # "image" => v = t
  BY <1>1 DEF LiveOf
<1>4. ChainOf(y)
  BY <1>1, <1>2 DEF ChainOf
<1>5. ASSUME NEW v \in y.tasks PROVE v = u \/ (v \in x.tasks /\ v.kind = "image")
  BY <1>3
<1>6. TimersOf(y)
  BY <1>5 DEF Fits, TimersOf
<1> QED
  BY <1>1, <1>2, <1>4, <1>6 DEF Fits, Screen

(* What becomes of the number of the card that was to come.                *)
LEMMA ComingShown ==
    ASSUME NEW x, NEW n, NEW s, NEW g, Fits(x, n, s, g), NEW t \in Coming(x), Coming(x) = {t},
           NEW y \in Screen, Coming(y) = {}, y.queue = x.queue
    PROVE  /\ OrderOf(y, n, Append(s, t.card.nr)) /\ AllOf(y, n, Append(s, t.card.nr), g)
           /\ Append(s, t.card.nr) \in Seq(Nat)
           /\ OrderOf(y, n, s) /\ AllOf(y, n, s, g \cup {t.card.nr})
<1>1. t.card.nr \in Nat /\ s \in Seq(Nat) /\ Len(s) \in Nat
  BY LenProperties DEF Fits, Coming, LiveOf, Screen, Timer, Retry, ShownCard
<1>2. PICK r : r = Append(s, t.card.nr)
  OBVIOUS
<1>3. /\ r \in Seq(Nat) /\ Len(r) = Len(s) + 1 /\ r[Len(s) + 1] = t.card.nr
      /\ \A k \in 1..Len(s) : r[k] = s[k]
  BY <1>1, <1>2, AppendProperties
<1>4. \A k \in 1..(Len(s) + 1) : k \in 1..Len(s) \/ k = Len(s) + 1
  BY <1>1
<1>5. /\ t.card.nr <= n /\ \A k \in 1..Len(s) : s[k] < t.card.nr
      /\ \A i \in 1..Len(x.queue) : t.card.nr < x.queue[i].nr
  BY DEF Fits, OrderOf
<1>6. OrderOf(y, n, r)
  <2>1. ASSUME NEW k \in 1..(Len(s) + 1), NEW l \in 1..(Len(s) + 1), k < l PROVE r[k] < r[l]
    <3>1. k \in 1..Len(s)
      BY <1>1, <2>1
    <3> QED
      BY <1>3, <1>4, <1>5, <2>1, <3>1 DEF Fits, OrderOf
  <2>2. \A k \in 1..(Len(s) + 1) : /\ r[k] <= n
                                   /\ \A i \in 1..Len(x.queue) : r[k] < x.queue[i].nr
    BY <1>3, <1>4, <1>5 DEF Fits, OrderOf
  <2> QED
    BY <1>3, <2>1, <2>2 DEF Fits, OrderOf
<1>7. AllOf(y, n, r, g)
  <2>1. /\ \A k \in 1..Len(s) : k \in 1..Len(r)
        /\ Len(s) + 1 \in 1..Len(r)
    BY <1>1, <1>3
  <2> QED
    BY ZenonT(60), <1>3, <2>1 DEF Fits, AllOf
<1>8. OrderOf(y, n, s) /\ AllOf(y, n, s, g \cup {t.card.nr})
  BY DEF Fits, OrderOf, AllOf
<1> QED
  BY <1>2, <1>3, <1>6, <1>7, <1>8

LEMMA ArriveDisplays ==
    ASSUME Displayed, NEW b \in Batch, NEW k \in 1..left[b], NEW o \in 0..k,
           Display!Arrive(b, k, o)
    PROVE  Displayed'
<1>0. PICK x : x = screen
  OBVIOUS
<1>1. /\ x \in Screen /\ came \in Nat /\ left \in [Batch -> Nat] /\ k \in Nat
      /\ Fits(x, came, shown, gone) /\ ChainOf(x) /\ left[b] - k \in Nat
  BY <1>0 DEF Displayed, Fits
<1>2. PICK w : w = [i \in 1..k |-> [nr |-> came + i, batch |-> b, sound |-> i = o]]
  OBVIOUS
<1>3. \A i \in 1..k : w[i] \in ShownCard /\ w[i].nr = came + i
  BY <1>1, <1>2 DEF ShownCard
<1>4. w \in Seq(ShownCard) /\ Len(w) = k
  <2>1. w \in [1..k -> ShownCard]
    BY <1>2, <1>3
  <2> QED
    BY <1>1, <2>1, SeqDef, LenProperties
<1>5. PICK v : v = x.queue \o w
  OBVIOUS
<1>6. v \in Seq(ShownCard)
  BY <1>1, <1>4, <1>5, ScreenLengths, ConcatProperties
<1>7. PICK y : y = [x EXCEPT !.queue = v]
  OBVIOUS
<1>8. /\ y \in Screen /\ y.queue = v /\ y.tasks = x.tasks /\ y.gen = x.gen
      /\ y.anim = x.anim /\ y.sounds = x.sounds /\ y.played = x.played
      /\ y.displaying = x.displaying
  BY <1>1, <1>6, <1>7 DEF Screen
<1>9. Fits(y, came + k, shown, gone) /\ LiveOf(y) = LiveOf(x)
  <2>1. y.queue = x.queue \o w /\ \A i \in 1..k : w[i].nr = came + i
    BY <1>3, <1>5, <1>8
  <2>2. PICK n, s, g : n = came /\ s = shown /\ g = gone
    OBVIOUS
  <2>3. Fits(x, n, s, g) /\ Behind(x, y, w, n, k)
    BY <1>1, <1>4, <1>8, <2>1, <2>2 DEF Behind
  <2>4. Fits(y, n + k, s, g) /\ LiveOf(y) = LiveOf(x)
    BY <2>3, ArriveFits
  <2> QED
    BY <2>2, <2>4
<1>10. /\ screen' = (IF x.displaying THEN y ELSE Display!Processed(y))
       /\ came' = came + k /\ left' = [left EXCEPT ![b] = @ - k]
       /\ shown' = shown /\ gone' = gone /\ throws' = throws
  BY <1>0, <1>2, <1>5, <1>7 DEF Display!Arrive
<1>11. Fits(screen', came + k, shown, gone) /\ ChainOf(screen')
  <2>1. CASE x.displaying
    <3>1. ChainOf(y)
      BY <1>1, <1>8, <1>9, <2>1 DEF ChainOf
    <3> QED
      BY <1>9, <1>10, <2>1, <3>1
  <2>2. CASE ~x.displaying
    <3>1. LiveOf(y) = {}
      BY <1>1, <1>9, <2>2 DEF ChainOf
    <3>2. PICK z : z = Display!Processed(y)
      OBVIOUS
    <3>3. Fits(z, came + k, shown, gone) /\ ChainOf(z)
      BY <1>9, <3>1, <3>2, ProcessedFits
    <3> QED
      BY <1>10, <2>2, <3>2, <3>3
  <2> QED
    BY <2>1, <2>2
<1>12. left' \in [Batch -> Nat]
  BY <1>1, <1>10
<1> QED
  BY <1>10, <1>11, <1>12 DEF Displayed

(* The new screen has the card of the timer on it, or on its way.          *)
LEMMA ImageDisplays ==
    ASSUME Displayed, NEW t \in screen.tasks, Display!ImageReady(t) PROVE Displayed'
<1>1. PICK x \in Screen : x = screen
  BY DEF Displayed, Fits
<1>2. /\ Fits(x, came, shown, gone) /\ ChainOf(x) /\ t \in x.tasks /\ t.kind = "image"
      /\ came' = came /\ shown' = shown /\ gone' = gone /\ left' = left /\ throws' = throws
  BY <1>1 DEF Displayed, Display!ImageReady
<1>3. t \in Timer
  BY <1>2 DEF Screen, Timer, Retry
<1>4. CASE t.gen # x.gen
  <2>1. PICK y : y = [x EXCEPT !.tasks = @ \ {t}]
    OBVIOUS
  <2>2. /\ y \in Screen /\ y.queue = x.queue /\ y.tasks = x.tasks \ {t} /\ y.gen = x.gen
        /\ y.anim = x.anim /\ y.sounds = x.sounds /\ y.played = x.played
        /\ y.displaying = x.displaying
    BY <2>1 DEF Screen
  <2>3. LiveOf(y) = LiveOf(x) /\ Coming(y) = Coming(x)
    BY <1>2, <1>4, <2>2 DEF LiveOf, Coming
  <2>4. Fits(y, came, shown, gone) /\ ChainOf(y)
    <3>1. ChainOf(y) /\ TimersOf(y) /\ SoundsOf(y)
      BY <1>2, <2>2, <2>3 DEF Fits, ChainOf, TimersOf, SoundsOf
    <3>2. OrderOf(y, came, shown) /\ AllOf(y, came, shown, gone)
      BY <1>2, <2>2, <2>3 DEF Fits, OrderOf, AllOf
    <3> QED
      BY <1>2, <2>2, <3>1, <3>2 DEF Fits
  <2>5. screen' = y
    BY <1>1, <1>4, <2>1 DEF Display!ImageReady
  <2> QED
    BY <1>2, <2>4, <2>5 DEF Displayed
<1>5. CASE t.gen = x.gen
  <2>1. t \in Coming(x) /\ t \in LiveOf(x)
    BY <1>2, <1>5 DEF Coming, LiveOf
  <2>2. PICK u : u = [t EXCEPT !.kind = "show"]
    OBVIOUS
  <2>3. u \in Timer /\ u.kind = "show" /\ u.card = t.card
    BY <1>3, <2>2 DEF Timer
  <2>4. PICK S \in SUBSET (Timer \cup Retry) : S = (x.tasks \ {t}) \cup {u}
    <3>1. (x.tasks \ {t}) \cup {u} \in SUBSET (Timer \cup Retry)
      BY <2>3 DEF Screen
    <3> QED
      BY <3>1
  <2>5. PICK y : y = [x EXCEPT !.card = {t.card}, !.visible = FALSE, !.tasks = S, !.anim = {u}]
    OBVIOUS
  <2>6. screen' = y
    BY <1>1, <1>5, <2>2, <2>4, <2>5 DEF Display!ImageReady, Display!Chained
  <2>7. t.card \in ShownCard
    BY <1>3 DEF Timer
  <2>8. /\ y \in Screen /\ y.queue = x.queue /\ y.tasks = S /\ y.gen = x.gen
        /\ y.anim = {u} /\ y.sounds = x.sounds /\ y.played = x.played
        /\ y.displaying = x.displaying
    BY <2>3, <2>5, <2>7 DEF Screen
  <2>9. LiveOf(x) = {t} /\ LiveOf(y) = {u} /\ ChainOf(y) /\ TimersOf(y)
    BY <1>2, <2>1, <2>3, <2>4, <2>8, ChainFits
  <2>10. Coming(x) = {t} /\ Coming(y) = {u}
    BY <1>2, <2>3, <2>9 DEF Coming
  <2>11. SoundsOf(y)
    BY <1>2, <2>8 DEF Fits, SoundsOf
  <2>12. OrderOf(y, came, shown)
    BY <1>2, <2>3, <2>8, <2>10 DEF Fits, OrderOf
  <2>13. AllOf(y, came, shown, gone)
    BY <1>2, <2>3, <2>8, <2>10 DEF Fits, AllOf
  <2> QED
    BY <1>2, <2>6, <2>8, <2>9, <2>11, <2>12, <2>13 DEF Displayed, Fits
<1> QED
  BY <1>4, <1>5

LEMMA ShowDisplays ==
    ASSUME Displayed, NEW t \in screen.tasks, Display!Show(t) PROVE Displayed'
<1>1. PICK x \in Screen : x = screen
  BY DEF Displayed, Fits
<1>2. /\ Fits(x, came, shown, gone) /\ ChainOf(x) /\ t \in x.tasks /\ t.kind = "show"
      /\ came' = came /\ shown' = Append(shown, t.card.nr) /\ gone' = gone
      /\ left' = left /\ throws' = throws
  BY <1>1 DEF Displayed, Display!Show
<1>3. t \in Timer /\ t \in Coming(x) /\ t \in LiveOf(x)
  BY <1>2 DEF Screen, Timer, Retry, Coming, LiveOf
<1>4. PICK u : u = [t EXCEPT !.kind = "hide"]
  OBVIOUS
<1>5. u \in Timer /\ u.kind = "hide" /\ t.card.batch \in Batch
  BY <1>3, <1>4 DEF Timer, ShownCard
<1>6. PICK S \in SUBSET (Timer \cup Retry) : S = (x.tasks \ {t}) \cup {u}
  <2>1. (x.tasks \ {t}) \cup {u} \in SUBSET (Timer \cup Retry)
    BY <1>5 DEF Screen
  <2> QED
    BY <2>1
<1>7. PICK y : /\ y \in Screen /\ y.queue = x.queue /\ y.tasks = S /\ y.gen = x.gen
               /\ y.anim = {u} /\ y.displaying = x.displaying /\ SoundsOf(y) /\ screen' = y
  <2>1. CASE t.card.sound /\ t.card.batch \notin x.played
    <3>1. PICK b \in Batch : b = t.card.batch
      BY <1>5
    <3>2. x.sounds[b] = 0 /\ x.sounds \in [Batch -> Nat]
      BY <1>2, <2>1, <3>1 DEF Fits, SoundsOf, Screen
    <3>3. PICK f \in [Batch -> Nat] : f = [x.sounds EXCEPT ![b] = @ + 1]
      <4>1. x.sounds[b] + 1 \in Nat
        BY <3>2
      <4>2. [x.sounds EXCEPT ![b] = @ + 1] \in [Batch -> Nat]
        BY <3>2, <4>1
      <4> QED
        BY <4>2
    <3>4. PICK P \in SUBSET Batch : P = x.played \cup {b}
      BY DEF Screen
    <3>5. PICK y : y = [x EXCEPT !.visible = TRUE, !.played = P, !.sounding = TRUE,
                                 !.sounds = f, !.tasks = S, !.anim = {u}]
      OBVIOUS
    <3>6. screen' = y
      BY <1>1, <1>4, <1>6, <2>1, <3>1, <3>3, <3>4, <3>5
         DEF Display!Show, Display!Chained, Display!Sounded
    <3>7. /\ y \in Screen /\ y.queue = x.queue /\ y.tasks = S /\ y.gen = x.gen
          /\ y.anim = {u} /\ y.displaying = x.displaying /\ y.sounds = f /\ y.played = P
      BY <1>5, <3>5 DEF Screen
    <3>8. f[b] = 1 /\ \A c \in Batch : c # b => f[c] = x.sounds[c]
      BY <3>2, <3>3
    <3>9. SoundsOf(y)
      BY <1>2, <3>4, <3>7, <3>8 DEF Fits, SoundsOf
    <3> QED
      BY <3>6, <3>7, <3>9
  <2>2. CASE ~(t.card.sound /\ t.card.batch \notin x.played)
    <3>1. PICK y : y = [x EXCEPT !.visible = TRUE, !.tasks = S, !.anim = {u}]
      OBVIOUS
    <3>2. screen' = y
      BY <1>1, <1>4, <1>6, <2>2, <3>1 DEF Display!Show, Display!Chained
    <3>3. /\ y \in Screen /\ y.queue = x.queue /\ y.tasks = S /\ y.gen = x.gen
          /\ y.anim = {u} /\ y.displaying = x.displaying /\ y.sounds = x.sounds
          /\ y.played = x.played
      BY <1>5, <3>1 DEF Screen
    <3>4. SoundsOf(y)
      BY <1>2, <3>3 DEF Fits, SoundsOf
    <3> QED
      BY <3>2, <3>3, <3>4
  <2> QED
    BY <2>1, <2>2
<1>8. LiveOf(x) = {t} /\ LiveOf(y) = {u} /\ ChainOf(y) /\ TimersOf(y)
  BY <1>2, <1>3, <1>5, <1>6, <1>7, ChainFits
<1>9. Coming(x) = {t} /\ Coming(y) = {}
  BY <1>2, <1>5, <1>8 DEF Coming
<1>10. /\ OrderOf(y, came, shown') /\ AllOf(y, came, shown', gone) /\ shown' \in Seq(Nat)
  BY <1>2, <1>3, <1>7, <1>9, ComingShown
<1> QED
  BY <1>2, <1>7, <1>8, <1>10 DEF Displayed, Fits

LEMMA HideDisplays ==
    ASSUME Displayed, NEW t \in screen.tasks, Display!Hide(t) PROVE Displayed'
<1>1. PICK x \in Screen : x = screen
  BY DEF Displayed, Fits
<1>2. /\ Fits(x, came, shown, gone) /\ ChainOf(x) /\ t \in x.tasks /\ t.kind = "hide"
      /\ came' = came /\ shown' = shown /\ gone' = gone /\ left' = left /\ throws' = throws
  BY <1>1 DEF Displayed, Display!Hide
<1>3. t \in Timer /\ t \in LiveOf(x)
  BY <1>2 DEF Screen, Timer, Retry, LiveOf
<1>4. PICK u : u = [t EXCEPT !.kind = "next"]
  OBVIOUS
<1>5. u \in Timer /\ u.kind = "next"
  BY <1>3, <1>4 DEF Timer
<1>6. PICK S \in SUBSET (Timer \cup Retry) : S = (x.tasks \ {t}) \cup {u}
  <2>1. (x.tasks \ {t}) \cup {u} \in SUBSET (Timer \cup Retry)
    BY <1>5 DEF Screen
  <2> QED
    BY <2>1
<1>7. PICK y : y = [x EXCEPT !.visible = FALSE, !.tasks = S, !.anim = {u}]
  OBVIOUS
<1>8. screen' = y
  BY <1>1, <1>4, <1>6, <1>7 DEF Display!Hide, Display!Chained
<1>9. /\ y \in Screen /\ y.queue = x.queue /\ y.tasks = S /\ y.gen = x.gen /\ y.anim = {u}
      /\ y.sounds = x.sounds /\ y.played = x.played /\ y.displaying = x.displaying
  BY <1>5, <1>7 DEF Screen
<1>10. LiveOf(x) = {t} /\ LiveOf(y) = {u} /\ ChainOf(y) /\ TimersOf(y)
  BY <1>2, <1>3, <1>5, <1>6, <1>9, ChainFits
<1>11. Coming(x) = {} /\ Coming(y) = {}
  BY <1>2, <1>5, <1>10 DEF Coming
<1>12. SoundsOf(y) /\ OrderOf(y, came, shown) /\ AllOf(y, came, shown, gone)
  BY <1>2, <1>9, <1>11 DEF Fits, SoundsOf, OrderOf, AllOf
<1> QED
  BY <1>2, <1>8, <1>9, <1>10, <1>12 DEF Displayed, Fits

LEMMA GoOnDisplays ==
    ASSUME Displayed, NEW t \in screen.tasks, Display!GoOn(t) PROVE Displayed'
<1>1. PICK x \in Screen : x = screen
  BY DEF Displayed, Fits
<1>2. /\ Fits(x, came, shown, gone) /\ ChainOf(x) /\ t \in x.tasks /\ t.kind \in {"next", "retry"}
      /\ came' = came /\ shown' = shown /\ gone' = gone /\ left' = left /\ throws' = throws
  BY <1>1 DEF Displayed, Display!GoOn
<1>3. t \in LiveOf(x)
  BY <1>2 DEF LiveOf
<1>4. PICK C \in SUBSET ShownCard : C = IF t.kind = "next" THEN {} ELSE x.card
  BY DEF Screen
<1>5. PICK y : y = [x EXCEPT !.tasks = @ \ {t}, !.card = C]
  OBVIOUS
<1>6. screen' = Display!Processed(y)
  BY <1>1, <1>4, <1>5 DEF Display!GoOn
<1>7. /\ y \in Screen /\ y.queue = x.queue /\ y.tasks = x.tasks \ {t} /\ y.gen = x.gen
      /\ y.anim = x.anim /\ y.sounds = x.sounds /\ y.played = x.played
  BY <1>5 DEF Screen
<1>8. LiveOf(x) = {t}
  BY <1>2, <1>3 DEF ChainOf
<1>9. LiveOf(y) = {} /\ Coming(y) = {} /\ Coming(x) = {}
  BY <1>2, <1>7, <1>8 DEF LiveOf, Coming
<1>10. TimersOf(y) /\ SoundsOf(y)
  BY <1>2, <1>7 DEF Fits, TimersOf, SoundsOf
<1>11. OrderOf(y, came, shown) /\ AllOf(y, came, shown, gone)
  BY <1>2, <1>7, <1>9 DEF Fits, OrderOf, AllOf
<1>12. Fits(y, came, shown, gone)
  BY <1>2, <1>7, <1>10, <1>11 DEF Fits
<1>13. PICK z : z = Display!Processed(y)
  OBVIOUS
<1>14. Fits(z, came, shown, gone) /\ ChainOf(z)
  BY <1>9, <1>12, <1>13, ProcessedFits
<1> QED
  BY <1>2, <1>6, <1>13, <1>14 DEF Displayed

(* A card that fails is given up, and the chain goes on with a retry.      *)
LEMMA ThrowDisplays ==
    ASSUME DisplayBounds, Displayed, NEW t \in screen.tasks, Display!Throw(t) PROVE Displayed'
<1>1. PICK x \in Screen : x = screen
  BY DEF Displayed, Fits
<1>2. /\ Fits(x, came, shown, gone) /\ ChainOf(x) /\ t \in x.tasks /\ t.kind \in {"image", "show"}
      /\ t.kind = "image" => t.gen = x.gen
      /\ came' = came /\ shown' = shown /\ gone' = gone \cup {t.card.nr} /\ left' = left
      /\ throws' = throws + 1 /\ throws \in Nat /\ throws < MaxThrows
  BY <1>1 DEF Displayed, Display!Throw
<1>3. t \in Timer /\ t \in Coming(x) /\ t \in LiveOf(x)
  BY <1>2 DEF Screen, Timer, Retry, Coming, LiveOf
<1>4. PICK u : u = [kind |-> "retry"]
  OBVIOUS
<1>5. u \in Retry /\ u.kind = "retry" /\ t.card.batch \in Batch
  BY <1>3, <1>4 DEF Retry, Timer, ShownCard
<1>6. PICK S \in SUBSET (Timer \cup Retry) : S = (x.tasks \ {t}) \cup {u}
  <2>1. (x.tasks \ {t}) \cup {u} \in SUBSET (Timer \cup Retry)
    BY <1>5 DEF Screen
  <2> QED
    BY <2>1
<1>7. PICK y : /\ y \in Screen /\ y.queue = x.queue /\ y.tasks = S /\ y.gen = x.gen
               /\ y.displaying = x.displaying /\ SoundsOf(y) /\ screen' = y
  <2>1. CASE t.kind = "show"
    <3>1. PICK P \in SUBSET Batch : P = IF t.card.sound THEN x.played \cup {t.card.batch}
                                        ELSE x.played
      <4>1. x.played \cup {t.card.batch} \in SUBSET Batch /\ x.played \in SUBSET Batch
        BY <1>5 DEF Screen
      <4> QED
        BY <4>1
    <3>2. PICK y : y = [x EXCEPT !.visible = TRUE, !.played = P, !.tasks = S]
      OBVIOUS
    <3>3. screen' = y
      BY <1>1, <1>4, <1>6, <2>1, <3>1, <3>2 DEF Display!Throw, Display!Caught
    <3>4. /\ y \in Screen /\ y.queue = x.queue /\ y.tasks = S /\ y.gen = x.gen
          /\ y.displaying = x.displaying /\ y.sounds = x.sounds /\ y.played = P
      BY <3>2 DEF Screen
    <3>5. SoundsOf(y)
      BY <1>2, <3>1, <3>4 DEF Fits, SoundsOf
    <3> QED
      BY <3>3, <3>4, <3>5
  <2>2. CASE t.kind # "show"
    <3>1. PICK y : y = [x EXCEPT !.tasks = S]
      OBVIOUS
    <3>2. screen' = y
      BY <1>1, <1>4, <1>6, <2>2, <3>1 DEF Display!Throw, Display!Caught
    <3>3. /\ y \in Screen /\ y.queue = x.queue /\ y.tasks = S /\ y.gen = x.gen
          /\ y.displaying = x.displaying /\ y.sounds = x.sounds /\ y.played = x.played
      BY <3>1 DEF Screen
    <3>4. SoundsOf(y)
      BY <1>2, <3>3 DEF Fits, SoundsOf
    <3> QED
      BY <3>2, <3>3, <3>4
  <2> QED
    BY <2>1, <2>2
<1>8. MaxThrows # 0
  BY <1>2 DEF DisplayBounds
<1>9. LiveOf(x) = {t} /\ LiveOf(y) = {u} /\ ChainOf(y) /\ TimersOf(y)
  BY <1>2, <1>3, <1>5, <1>6, <1>7, <1>8, ChainFits
<1>10. Coming(x) = {t} /\ Coming(y) = {}
  BY <1>2, <1>5, <1>9 DEF Coming
<1>11. /\ OrderOf(y, came, shown) /\ AllOf(y, came, shown, gone')
  BY <1>2, <1>3, <1>7, <1>10, ComingShown
<1>12. throws' \in Nat
  BY <1>2
<1> QED
  BY <1>2, <1>7, <1>9, <1>11, <1>12 DEF Displayed, Fits

(* A change of the streamer ends the chain and gives up what waits.        *)
LEMMA SwitchDisplays == ASSUME DisplayBounds, Displayed, Display!Switch PROVE Displayed'
<1>1. PICK x \in Screen : x = screen
  BY DEF Displayed, Fits
<1>2. /\ Fits(x, came, shown, gone) /\ ChainOf(x) /\ x.gen < MaxMoves /\ x.gen \in Nat
      /\ came' = came /\ shown' = shown /\ throws' = throws
      /\ gone' = gone \cup (1..came \ Display!ToSet(shown))
  BY <1>1 DEF Displayed, Display!Switch, Screen
<1>3. \A v \in x.tasks : v.kind # "retry"
  BY <1>2 DEF DisplayBounds, Fits, TimersOf
<1>4. PICK m \in Nat : m = x.gen + 1
  BY <1>2
<1>5. PICK f \in [Batch -> Nat] : f = [b \in Batch |-> 0]
  OBVIOUS
<1>6. PICK e \in Seq(ShownCard) : e = <<>> /\ Len(e) = 0
  BY EmptySeq
<1>7. PICK y : y = [x EXCEPT !.gen = m, !.queue = e, !.displaying = FALSE, !.played = {},
                             !.sounds = f, !.tasks = @ \ x.anim, !.anim = {}, !.timer = FALSE]
  OBVIOUS
<1>8. screen' = y
  BY <1>1, <1>4, <1>5, <1>6, <1>7 DEF Display!Switch
<1>9. /\ y \in Screen /\ y.gen = m /\ y.queue = e /\ y.displaying = FALSE /\ y.sounds = f
      /\ y.tasks = x.tasks \ x.anim
  BY <1>7 DEF Screen
<1>10. \A v \in y.tasks : v \in x.tasks /\ v.kind = "image" /\ v.gen <= x.gen /\ v.gen \in Nat
  <2> TAKE v \in y.tasks
  <2>1. v \in x.tasks /\ v \notin x.anim
    BY <1>9
  <2>2. v.kind = "image" /\ v \in Timer
    BY <1>2, <1>3, <2>1 DEF Fits, TimersOf, Screen, Timer, Retry
  <2>3. v.gen <= x.gen /\ v.gen \in Nat
    BY <1>2, <2>1, <2>2 DEF Fits, TimersOf, Timer
  <2> QED
    BY <2>1, <2>2, <2>3
<1>11. \A v \in y.tasks : v.gen <= m /\ v.gen # m
  BY <1>2, <1>4, <1>10
<1>12. LiveOf(y) = {} /\ Coming(y) = {}
  BY <1>9, <1>10, <1>11 DEF LiveOf, Coming
<1>13. ChainOf(y) /\ TimersOf(y) /\ SoundsOf(y)
  <2>1. ChainOf(y)
    BY <1>6, <1>9, <1>12 DEF ChainOf
  <2>2. TimersOf(y)
    BY <1>9, <1>10, <1>11 DEF TimersOf
  <2>3. SoundsOf(y)
    BY <1>5, <1>9 DEF SoundsOf
  <2> QED
    BY <2>1, <2>2, <2>3
<1>14. OrderOf(y, came, shown)
  <2>1. 1..Len(y.queue) = {}
    BY <1>6, <1>9
  <2> QED
    BY <1>2, <1>12, <2>1 DEF Fits, OrderOf
<1>15. AllOf(y, came, shown, gone')
  <2>1. DOMAIN shown = 1..Len(shown)
    BY <1>2, LenProperties DEF Fits
  <2> QED
    BY <1>2, <2>1 DEF AllOf, Display!ToSet
<1>16. left' \in [Batch -> Nat]
  BY DEF Display!Switch, Displayed
<1> QED
  BY <1>2, <1>8, <1>9, <1>13, <1>14, <1>15, <1>16 DEF Displayed, Fits

(* Sounds, versions and reloads.                                           *)
LEMMA OthersDisplay ==
    ASSUME Displayed,
           \/ UNCHANGED Display!vars \/ Display!SoundEnds \/ Display!Defer \/ Display!Skip
           \/ Display!Lapse \/ \E v \in Version : Display!Report(v)
    PROVE  Displayed'
<1>1. PICK x \in Screen : x = screen
  BY DEF Displayed, Fits
<1>2. /\ Fits(x, came, shown, gone) /\ ChainOf(x)
      /\ came' = came /\ shown' = shown /\ gone' = gone /\ left' = left /\ throws' = throws
  BY <1>1 DEF Displayed, Display!vars, Display!SoundEnds, Display!Defer, Display!Skip,
     Display!Lapse, Display!Report
<1>3. PICK y : /\ screen' = y /\ y \in Screen /\ y.queue = x.queue /\ y.tasks = x.tasks
               /\ y.gen = x.gen /\ y.anim = x.anim /\ y.sounds = x.sounds
               /\ y.played = x.played /\ y.displaying = x.displaying
  <2>1. CASE screen' = screen
    BY <1>1, <2>1
  <2>2. CASE Display!SoundEnds
    <3>1. PICK y : y = [x EXCEPT !.sounding = FALSE] /\ screen' = y
      BY <1>1, <2>2 DEF Display!SoundEnds
    <3>2. /\ y \in Screen /\ y.queue = x.queue /\ y.tasks = x.tasks /\ y.gen = x.gen
          /\ y.anim = x.anim /\ y.sounds = x.sounds /\ y.played = x.played
          /\ y.displaying = x.displaying
      BY <3>1 DEF Screen
    <3> QED
      BY <3>1, <3>2
  <2>3. CASE Display!Skip
    <3>1. PICK y : y = [x EXCEPT !.scheduled = FALSE, !.timer = FALSE] /\ screen' = y
      BY <1>1, <2>3 DEF Display!Skip
    <3>2. /\ y \in Screen /\ y.queue = x.queue /\ y.tasks = x.tasks /\ y.gen = x.gen
          /\ y.anim = x.anim /\ y.sounds = x.sounds /\ y.played = x.played
          /\ y.displaying = x.displaying
      BY <3>1 DEF Screen
    <3> QED
      BY <3>1, <3>2
  <2>4. ASSUME NEW v \in Version, Display!Report(v)
        PROVE  \E y : /\ screen' = y /\ y \in Screen /\ y.queue = x.queue /\ y.tasks = x.tasks
                      /\ y.gen = x.gen /\ y.anim = x.anim /\ y.sounds = x.sounds
                      /\ y.played = x.played /\ y.displaying = x.displaying
    <3>1. PICK y : /\ y = [x EXCEPT !.scheduled = TRUE, !.timer = TRUE, !.target = v]
                   /\ screen' = y
      BY <1>1, <2>4 DEF Display!Report
    <3>2. /\ y \in Screen /\ y.queue = x.queue /\ y.tasks = x.tasks /\ y.gen = x.gen
          /\ y.anim = x.anim /\ y.sounds = x.sounds /\ y.played = x.played
          /\ y.displaying = x.displaying
      BY <3>1 DEF Screen
    <3> QED
      BY <3>1, <3>2
  <2> QED
    BY <2>1, <2>2, <2>3, <2>4 DEF Display!vars, Display!Defer, Display!Lapse
<1>4. Fits(y, came, shown, gone) /\ ChainOf(y)
  BY <1>2, <1>3, SameFits
<1> QED
  BY <1>2, <1>3, <1>4 DEF Displayed

\* Where no display is under way, all the cards have been shown or given up.
LEMMA QuietShown ==
    ASSUME Displayed, screen.displaying = FALSE
    PROVE  LiveOf(screen) = {} /\ screen.queue = <<>> /\ 1..came \subseteq Display!ToSet(shown) \cup gone
<1>1. LiveOf(screen) = {} /\ screen.queue = <<>>
  BY DEF Displayed, ChainOf
<1>2. Coming(screen) = {} /\ Len(screen.queue) = 0 /\ 1..0 = {}
  BY <1>1, EmptySeq DEF Coming
<1>3. DOMAIN shown = 1..Len(shown)
  BY LenProperties DEF Displayed, Fits
<1>4. ASSUME NEW c \in 1..came PROVE c \in Display!ToSet(shown) \cup gone
  BY <1>2, <1>3 DEF Displayed, Fits, AllOf, Display!ToSet
<1> QED
  BY <1>1, <1>4

(* A reload starts the page anew.                                          *)
LEMMA ReloadDisplays == ASSUME Displayed, Display!Reload PROVE Displayed'
<1>1. PICK x \in Screen : x = screen
  BY DEF Displayed, Fits
<1>2. /\ Fits(x, came, shown, gone) /\ x.displaying = FALSE /\ x.gen \in Nat
      /\ came' = came /\ shown' = shown /\ gone' = gone /\ left' = left /\ throws' = throws
  BY <1>1 DEF Displayed, Display!Reload, Display!MidDisplay, Screen
<1>3. PICK v \in Version : screen' = [Display!Loaded(v) EXCEPT !.gen = x.gen]
  BY <1>1 DEF Display!Reload
<1>4. PICK y : screen' = y
  OBVIOUS
<1>5. /\ y \in Screen /\ TimersOf(y) /\ SoundsOf(y) /\ ChainOf(y)
      /\ y.queue = <<>> /\ y.tasks = {}
  BY <1>2, <1>3, <1>4, LoadedFits
<1>6. Coming(x) = {} /\ x.queue = <<>>
  BY <1>1, <1>2, QuietShown DEF Coming
<1>7. Coming(y) = {} /\ y.queue = x.queue
  BY <1>6, <1>5 DEF Coming, LiveOf
<1>8. OrderOf(y, came, shown) /\ AllOf(y, came, shown, gone)
  BY <1>2, <1>6, <1>7 DEF Fits, OrderOf, AllOf
<1> QED
  BY <1>2, <1>4, <1>8, <1>5 DEF Displayed, Fits

LEMMA DisplayedStays ==
    ASSUME DisplayBounds, Displayed, [Display!Next]_(Display!vars) PROVE Displayed'
<1>1. ASSUME NEW b \in Batch, NEW k \in 1..left[b], NEW o \in 0..k, Display!Arrive(b, k, o)
      PROVE  Displayed'
  BY <1>1, ArriveDisplays
<1>2. ASSUME NEW t \in screen.tasks, Display!Fire(t) \/ Display!Throw(t) PROVE Displayed'
  BY <1>2, ImageDisplays, ShowDisplays, HideDisplays, GoOnDisplays, ThrowDisplays
     DEF Display!Fire
<1>3. CASE Display!Switch
  BY <1>3, SwitchDisplays
<1>4. CASE Display!Reload
  BY <1>4, ReloadDisplays
<1>5. CASE \/ UNCHANGED Display!vars \/ Display!SoundEnds \/ Display!Defer \/ Display!Skip
           \/ Display!Lapse \/ \E v \in Version : Display!Report(v)
  BY <1>5, OthersDisplay
<1> QED
  BY <1>1, <1>2, <1>3, <1>4, <1>5 DEF Display!Next

LEMMA DisplaySpec ==
    ASSUME DisplayBounds PROVE Display!Spec => []Displayed
<1>1. Display!Init => Displayed
  BY DisplayInit
<1>2. Displayed /\ [Display!Next]_(Display!vars) => Displayed'
  BY DisplayedStays
<1> QED
  BY <1>1, <1>2, PTL DEF Display!Spec

LEMMA SameElements == ASSUME NEW S PROVE Display!Cardinality(S) = Cardinality(S)
BY DEF Display!Cardinality, Cardinality

(* The lock of the display is held exactly while one chain of timers is    *)
(* under way, for any batches and interleaving, unless an exception and a  *)
(* change of the streamer meet (processQueue, isDisplaying).               *)
THEOREM DisplayHasOneChain ==
    ASSUME DisplayBounds PROVE Display!Spec => []Display!OneChain
<1>1. Displayed => Display!OneChain
  <2> SUFFICES ASSUME Displayed PROVE Display!OneChain
    OBVIOUS
  <2>1. Display!Live = LiveOf(screen) /\ ChainOf(screen)
    BY DEF Display!Live, LiveOf, Displayed
  <2>2. CASE LiveOf(screen) = {}
    BY <2>1, <2>2, SameElements, FS_EmptySet DEF Display!OneChain, ChainOf
  <2>3. ASSUME NEW t \in LiveOf(screen) PROVE Display!OneChain
    <3>1. LiveOf(screen) = {t} /\ screen.displaying
      BY <2>1 DEF ChainOf
    <3>2. Cardinality({t}) = 1
      BY FS_Singleton
    <3>3. Display!Cardinality(Display!Live) = 1
      BY <2>1, <3>1, <3>2, SameElements
    <3> QED
      BY <2>1, <3>1, <3>3 DEF Display!OneChain, ChainOf
  <2> QED
    BY <2>2, <2>3
<1> QED
  BY <1>1, DisplaySpec, PTL

(* Cards come on the screen in the order of their arrival, each once       *)
(* (processQueue).                                                         *)
THEOREM DisplayKeepsOrder ==
    ASSUME DisplayBounds PROVE Display!Spec => []Display!ShownInOrder
<1>1. Displayed => Display!ShownInOrder
  <2> SUFFICES ASSUME Displayed, NEW i \in 1..(Len(shown) - 1) PROVE shown[i] < shown[i + 1]
    BY DEF Display!ShownInOrder
  <2>1. Len(shown) \in Nat
    BY LenProperties DEF Displayed, Fits
  <2>2. i \in 1..Len(shown) /\ i + 1 \in 1..Len(shown) /\ i < i + 1
    BY <2>1
  <2> QED
    BY <2>2 DEF Displayed, Fits, OrderOf
<1> QED
  BY <1>1, DisplaySpec, PTL

(* The sound of a batch is played once, in however many parts it arrives   *)
(* (playGachaSound).                                                       *)
THEOREM DisplaySoundsOnce ==
    ASSUME DisplayBounds PROVE Display!Spec => []Display!SoundOnce
<1>1. Displayed => Display!SoundOnce
  <2> SUFFICES ASSUME Displayed, NEW b \in Batch PROVE screen.sounds[b] <= 1
    BY DEF Display!SoundOnce
  <2>1. screen.sounds[b] = 0 \/ screen.sounds[b] = 1
    BY DEF Displayed, Fits, SoundsOf
  <2> QED
    BY <2>1
<1> QED
  BY <1>1, DisplaySpec, PTL

(* A reload to a new build takes no card away: whatever has arrived was    *)
(* shown or given up (attemptReload).                                      *)
THEOREM DisplayReloadsQuietly ==
    ASSUME DisplayBounds PROVE Display!Spec => [][Display!ReloadsQuietly]_(Display!vars)
<1>1. Displayed /\ [Display!Next]_(Display!vars) => [Display!ReloadsQuietly]_(Display!vars)
  <2> SUFFICES ASSUME Displayed, Display!Next, reloads' # reloads PROVE Display!ReloadsQuietly
    BY DEF Display!ReloadsQuietly
  <2>1. Display!Reload
    BY DEF Display!Next, Display!Arrive, Display!Fire, Display!ImageReady, Display!Show,
       Display!Hide, Display!GoOn, Display!Throw, Display!SoundEnds, Display!Switch,
       Display!Defer, Display!Skip, Display!Lapse, Display!Report, Display!vars
  <2>2. screen.displaying = FALSE /\ ~screen.visible
    BY <2>1 DEF Display!Reload, Display!MidDisplay, Displayed, Fits, Screen
  <2>3. Display!Live = {}
    BY <2>2, QuietShown DEF Display!Live, LiveOf
  <2> QED
    BY <2>2, <2>3, QuietShown DEF Display!ReloadsQuietly
<1> QED
  BY <1>1, DisplaySpec, PTL DEF Display!Spec

=============================================================================
