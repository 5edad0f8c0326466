---------------------------- MODULE Cards_proofs ----------------------------
(***************************************************************************)
(* Proofs about the cards: their trading (CardTrading), for every set of   *)
(* users, copies, offers and sessions, their images (ImageStorage), for    *)
(* every set of cards and any number of uploads and faults, and the list   *)
(* of them on a page (CardList), for every set of cards and operations.    *)
(***************************************************************************)
EXTENDS CardTrading, Integers, FiniteSets, TLAPS, FiniteSetTheorems

CONSTANTS Tab, FileLimit, MaxUploads, MaxBroken              \* ImageStorage

VARIABLES object, files, count, card, dash, halved, spent, broken

Images == INSTANCE ImageStorage WITH Limit <- FileLimit, MaxFaults <- MaxBroken,
            row <- files, used <- count, tab <- dash, faults <- broken

CONSTANTS Op, MaxNumber, Fault                                \* CardList

VARIABLES listRow, listed, filtered, act, doubt

Page == INSTANCE CardList WITH
            row <- listRow, list <- listed, shown <- filtered, op <- act

-----------------------------------------------------------------------------
(* Trading.                                                                *)

(* A new call has its arguments and holds nothing.                         *)
LEMMA BeginInductive ==
    ASSUME NEW t \in Session, NEW u \in User, NEW o \in Offer, NEW r \in Request, IInv,
           Begin(t, u, o, r)
    PROVE  IInv'
<1> USE CardAssumption, OfferAssumption, NoneAssumption
<1>1. TypeOK'
  <2>1. /\ user'    = [user EXCEPT ![t] = u]
        /\ offer'   = [offer EXCEPT ![t] = o]
        /\ request' = [request EXCEPT ![t] = r]
        /\ reply'   = [reply EXCEPT ![t] = "none"]
        /\ phase'   = [phase EXCEPT ![t] = "offer"]
        /\ UNCHANGED <<owner, gone, status, deal, held, todo, row, payer, counted>>
    BY DEF Begin, Board!Ask, Board!tables, Goto, scanVars
  <2>2. "none" \in Board!Reply /\ "offer" \in Phase
    BY DEF Board!Reply, Phase
  <2> QED
    BY <2>1, <2>2 DEF IInv, TypeOK
<1>2. Arguments'
  BY DEF IInv, TypeOK, Arguments, Calling, Begin, Board!Ask, Board!tables,
     Goto, scanVars
<1>3. OfferLocked'
  BY DEF IInv, TypeOK, OfferLocked, Begin, Board!Ask, Board!tables, Goto,
     scanVars
<1>4. CopiesLocked'
  BY DEF IInv, TypeOK, CopiesLocked, Begin, Board!Ask, Board!tables, Goto,
     scanVars
<1>5. OfferChecked'
  BY DEF IInv, TypeOK, OfferChecked, Board!Defined, OfferLocked, Begin,
     Board!Ask, Board!tables, Goto, scanVars
<1>6. OfferedLocked'
  BY DEF IInv, TypeOK, OfferedLocked, CopiesLocked, OfferChecked, OfferLocked,
     Begin, Board!Ask, Board!tables, Goto, scanVars
<1>7. PayerChosen'
  BY DEF IInv, TypeOK, PayerChosen, Moving, OfferedLocked, CopiesLocked, Begin,
     Board!Ask, Board!tables, Goto, scanVars
<1>8. Counting'
  BY DEF IInv, TypeOK, Counting, Moving, Begin, Board!Ask, Board!tables, Goto,
     scanVars
<1>9. Scanning'
  BY DEF IInv, TypeOK, Scanning, Begin, Goto, scanVars
<1> QED
  BY <1>1, <1>2, <1>3, <1>4, <1>5, <1>6, <1>7, <1>8, <1>9 DEF IInv

(* A transaction that ends without a change gives its locks back.          *)
LEMMA EndsInductive ==
    ASSUME NEW t \in Session, IInv, NEW a \in Board!Reply, End(t, a),
           UNCHANGED tables
    PROVE  IInv'
<1> USE CardAssumption, OfferAssumption, NoneAssumption
<1>1. TypeOK'
  BY DEF IInv, TypeOK, Board!Status, Board!Deal, Board!Reply, Phase, tables,
     End, Goto, Board!Answer
<1>2. Arguments'
  BY DEF IInv, TypeOK, Arguments, Calling, tables, End, Goto, Board!Answer
<1>3. OfferLocked'
  BY DEF IInv, TypeOK, OfferLocked, tables, End, Goto, Board!Answer
<1>4. CopiesLocked'
  BY DEF IInv, TypeOK, CopiesLocked, tables, End, Goto, Board!Answer
<1>5. OfferChecked'
  BY DEF IInv, TypeOK, OfferChecked, Board!Defined, OfferLocked, tables, End,
     Goto, Board!Answer
<1>6. OfferedLocked'
  BY DEF IInv, TypeOK, OfferedLocked, CopiesLocked, OfferChecked, OfferLocked,
     tables, End, Goto, Board!Answer
<1>7. PayerChosen'
  BY DEF IInv, TypeOK, PayerChosen, Moving, OfferedLocked, CopiesLocked,
     tables, End, Goto, Board!Answer
<1>8. Counting'
  BY DEF IInv, TypeOK, Counting, Moving, tables, End, Goto, Board!Answer
<1>9. Scanning'
  BY DEF IInv, TypeOK, Scanning, tables, End, Goto, Board!Answer
<1> QED
  BY <1>1, <1>2, <1>3, <1>4, <1>5, <1>6, <1>7, <1>8, <1>9 DEF IInv

(* An offer is cancelled by the only transaction that can have it locked.  *)
LEMMA CancelInductive ==
    ASSUME NEW t \in Session, IInv, NEW o \in Offer, offer[t] = o, Cancel(t, o),
           \A s \in Session \ {t} : ~HoldsOffer(s, o)
    PROVE  IInv'
<1> USE CardAssumption, OfferAssumption, NoneAssumption
<1>1. TypeOK'
  BY DEF IInv, TypeOK, Board!Status, Board!Deal, Board!Reply, Phase, Cancel,
     HoldsOffer, End, Goto, Board!Answer
<1>2. Arguments'
  BY DEF IInv, TypeOK, Arguments, Calling, Cancel, HoldsOffer, End, Goto,
     Board!Answer
<1>3. OfferLocked'
  BY DEF IInv, TypeOK, OfferLocked, Cancel, HoldsOffer, End, Goto, Board!Answer
<1>4. CopiesLocked'
  BY DEF IInv, TypeOK, CopiesLocked, Cancel, End, Goto, Board!Answer
<1>5. OfferChecked'
  BY DEF IInv, TypeOK, OfferChecked, Board!Defined, OfferLocked, Cancel,
     HoldsOffer, End, Goto, Board!Answer
<1>6. OfferedLocked'
  BY DEF IInv, TypeOK, OfferedLocked, CopiesLocked, OfferChecked, OfferLocked,
     Cancel, HoldsOffer, End, Goto, Board!Answer
<1>7. PayerChosen'
  BY DEF IInv, TypeOK, PayerChosen, Moving, OfferedLocked, CopiesLocked,
     Cancel, HoldsOffer, End, Goto, Board!Answer
<1>8. Counting'
  BY DEF IInv, TypeOK, Counting, Moving, Cancel, End, Goto, Board!Answer
<1>9. Scanning'
  BY DEF IInv, TypeOK, Scanning, Cancel, End, Goto, Board!Answer
<1> QED
  BY <1>1, <1>2, <1>3, <1>4, <1>5, <1>6, <1>7, <1>8, <1>9 DEF IInv

(* An offer is locked when nobody else holds it and the checks have passed. *)
LEMMA LockOfferInductive ==
    ASSUME NEW t \in Session, IInv, NEW o \in Offer, LockOffer(t, o)
    PROVE  IInv'
<1> USE CardAssumption, OfferAssumption, NoneAssumption
<1>1. TypeOK'
  BY DEF IInv, TypeOK, Board!Status, Board!Deal, Board!Reply, Phase, LockOffer,
     tables, args, Reads, OfferFree, HoldsOffer, Goto, scanVars
<1>2. Arguments'
  BY DEF IInv, TypeOK, Arguments, Calling, LockOffer, tables, args, Reads,
     OfferFree, HoldsOffer, Goto, scanVars
<1>3. OfferLocked'
  BY DEF IInv, TypeOK, OfferLocked, LockOffer, tables, args, Reads, OfferFree,
     HoldsOffer, Goto, scanVars
<1>4. CopiesLocked'
  BY DEF IInv, TypeOK, CopiesLocked, LockOffer, tables, args, Reads, OfferFree,
     Goto, scanVars
<1>5. OfferChecked'
  BY DEF IInv, TypeOK, OfferChecked, Board!Defined, OfferLocked, LockOffer,
     tables, args, Reads, OfferFree, HoldsOffer, Goto, scanVars
<1>6. OfferedLocked'
  BY DEF IInv, TypeOK, OfferedLocked, CopiesLocked, OfferChecked, OfferLocked,
     LockOffer, tables, args, Reads, OfferFree, HoldsOffer, Goto, scanVars
<1>7. PayerChosen'
  BY DEF IInv, TypeOK, PayerChosen, Moving, OfferedLocked, CopiesLocked,
     LockOffer, tables, args, Reads, OfferFree, HoldsOffer, Goto, scanVars
<1>8. Counting'
  BY DEF IInv, TypeOK, Counting, Moving, LockOffer, tables, args, Reads,
     OfferFree, Goto, scanVars
<1>9. Scanning'
  BY DEF IInv, TypeOK, Scanning, LockOffer, tables, args, Reads, OfferFree,
     Goto, scanVars
<1> QED
  BY <1>1, <1>2, <1>3, <1>4, <1>5, <1>6, <1>7, <1>8, <1>9 DEF IInv

(* The offered copy is locked when it is the offerer's and nobody holds it. *)
LEMMA LockOfferedInductive ==
    ASSUME NEW t \in Session, IInv, NEW o \in Offer, LockOffered(t, o)
    PROVE  IInv'
<1> USE CardAssumption, OfferAssumption, NoneAssumption
<1>1. TypeOK'
  BY DEF IInv, TypeOK, Board!Status, Board!Deal, Board!Reply, Phase,
     LockOffered, tables, args, CopyFree, Goto, scanVars
<1>2. Arguments'
  BY DEF IInv, TypeOK, Arguments, Calling, LockOffered, tables, args, CopyFree,
     Goto, scanVars
<1>3. OfferLocked'
  BY DEF IInv, TypeOK, OfferLocked, LockOffered, tables, args, CopyFree, Goto,
     scanVars
<1>4. CopiesLocked'
  BY DEF IInv, TypeOK, CopiesLocked, LockOffered, tables, args, CopyFree, Goto,
     scanVars
<1>5. OfferChecked'
  BY DEF IInv, TypeOK, OfferChecked, Board!Defined, OfferLocked, LockOffered,
     tables, args, CopyFree, Goto, scanVars
<1>6. OfferedLocked'
  BY DEF IInv, TypeOK, OfferedLocked, CopiesLocked, OfferChecked, OfferLocked,
     LockOffered, tables, args, CopyFree, Goto, scanVars
<1>7. PayerChosen'
  BY DEF IInv, TypeOK, PayerChosen, Moving, OfferedLocked, CopiesLocked,
     LockOffered, tables, args, CopyFree, Goto, scanVars
<1>8. Counting'
  BY DEF IInv, TypeOK, Counting, Moving, LockOffered, tables, args, CopyFree,
     Goto, scanVars
<1>9. Scanning'
  BY DEF IInv, TypeOK, Scanning, LockOffered, tables, args, CopyFree, Goto,
     scanVars
<1> QED
  BY <1>1, <1>2, <1>3, <1>4, <1>5, <1>6, <1>7, <1>8, <1>9 DEF IInv

(* The PERFORM starts with the rows of its snapshot.                       *)
LEMMA PerformInductive ==
    ASSUME NEW t \in Session, IInv, Perform(t)
    PROVE  IInv'
<1> USE CardAssumption, OfferAssumption, NoneAssumption
<1>1. TypeOK'
  <2>1. /\ row' \in [Session -> Copy \cup {None}]
        /\ todo' \in [Session -> SUBSET Copy]
        /\ phase' \in [Session -> Phase]
    BY DEF IInv, TypeOK, Perform, Scan, Candidates, Goto, Phase
  <2> QED
    BY <2>1 DEF IInv, TypeOK, Perform, tables, args
<1>2. Arguments'
  BY DEF IInv, TypeOK, Arguments, Calling, Perform, tables, args, Scan,
     Candidates, Goto
<1>3. OfferLocked'
  BY DEF IInv, TypeOK, OfferLocked, Perform, tables, args, Scan, Candidates,
     Goto
<1>4. CopiesLocked'
  BY DEF IInv, TypeOK, CopiesLocked, Perform, tables, args, Scan, Candidates,
     Goto
<1>5. OfferChecked'
  BY DEF IInv, TypeOK, OfferChecked, Board!Defined, OfferLocked, Perform,
     tables, args, Scan, Candidates, Goto
<1>6. OfferedLocked'
  BY DEF IInv, TypeOK, OfferedLocked, CopiesLocked, OfferChecked, OfferLocked,
     Perform, tables, args, Scan, Candidates, Goto
<1>7. PayerChosen'
  BY DEF IInv, TypeOK, PayerChosen, Moving, OfferedLocked, CopiesLocked,
     Perform, tables, args, Scan, Candidates, Goto
<1>8. Counting'
  BY DEF IInv, TypeOK, Counting, Moving, Perform, tables, args, Scan,
     Candidates, Goto
<1>9. Scanning'
  BY DEF IInv, TypeOK, Scanning, Perform, tables, args, Scan, Candidates, Goto
<1> QED
  BY <1>1, <1>2, <1>3, <1>4, <1>5, <1>6, <1>7, <1>8, <1>9 DEF IInv

(* A row is locked when nobody else holds it.                              *)
LEMMA LockRowInductive ==
    ASSUME NEW t \in Session, IInv, LockRow(t)
    PROVE  IInv'
<1> USE CardAssumption, OfferAssumption, NoneAssumption
<1>1. TypeOK'
  <2>1. held' \in [Session -> SUBSET Copy]
    BY DEF IInv, TypeOK, Scanning, LockRow
  <2>2. /\ row' \in [Session -> Copy \cup {None}]
        /\ todo' \in [Session -> SUBSET Copy]
        /\ phase' \in [Session -> Phase]
    <3>1. todo[t] \subseteq Copy
      BY DEF IInv, TypeOK
    <3>2. Scan(t, todo[t])
      BY DEF LockRow
    <3> QED
      BY <3>1, <3>2 DEF IInv, TypeOK, Scan, Goto, Phase
  <2> QED
    BY <2>1, <2>2 DEF IInv, TypeOK, LockRow, tables, args
<1>2. Arguments'
  BY DEF IInv, TypeOK, Arguments, Calling, LockRow, tables, args, Scan,
     CopyFree, Scanning, Goto
<1>3. OfferLocked'
  BY DEF IInv, TypeOK, OfferLocked, LockRow, tables, args, Scan, CopyFree,
     Scanning, Goto
<1>4. CopiesLocked'
  BY DEF IInv, TypeOK, CopiesLocked, LockRow, tables, args, Scan, CopyFree,
     Scanning, Goto
<1>5. OfferChecked'
  BY DEF IInv, TypeOK, OfferChecked, Board!Defined, OfferLocked, LockRow,
     tables, args, Scan, CopyFree, Scanning, Goto
<1>6. OfferedLocked'
  BY DEF IInv, TypeOK, OfferedLocked, CopiesLocked, OfferChecked, OfferLocked,
     LockRow, tables, args, Scan, CopyFree, Scanning, Goto
<1>7. PayerChosen'
  BY DEF IInv, TypeOK, PayerChosen, Moving, OfferedLocked, CopiesLocked,
     LockRow, tables, args, Scan, CopyFree, Scanning, Goto
<1>8. Counting'
  BY DEF IInv, TypeOK, Counting, Moving, LockRow, tables, args, Scan, CopyFree,
     Scanning, Goto
<1>9. Scanning'
  BY DEF IInv, TypeOK, Scanning, LockRow, tables, args, Scan, CopyFree, Goto
<1> QED
  BY <1>1, <1>2, <1>3, <1>4, <1>5, <1>6, <1>7, <1>8, <1>9 DEF IInv

(* The payment is a copy of the wanted card.                               *)
LEMMA ChooseInductive ==
    ASSUME NEW t \in Session, IInv, Choose(t)
    PROVE  IInv'
<1> USE CardAssumption, OfferAssumption, NoneAssumption
<1>1. TypeOK'
  BY DEF IInv, TypeOK, Board!Status, Board!Deal, Board!Reply, Phase, Choose,
     tables, args, Candidates, Goto, scanVars
<1>2. Arguments'
  BY DEF IInv, TypeOK, Arguments, Calling, Choose, tables, args, Candidates,
     Goto, scanVars
<1>3. OfferLocked'
  BY DEF IInv, TypeOK, OfferLocked, Choose, tables, args, Candidates, Goto,
     scanVars
<1>4. CopiesLocked'
  BY DEF IInv, TypeOK, CopiesLocked, Choose, tables, args, Candidates, Goto,
     scanVars
<1>5. OfferChecked'
  BY DEF IInv, TypeOK, OfferChecked, Board!Defined, OfferLocked, Choose,
     tables, args, Candidates, Goto, scanVars
<1>6. OfferedLocked'
  BY DEF IInv, TypeOK, OfferedLocked, CopiesLocked, OfferChecked, OfferLocked,
     Choose, tables, args, Candidates, Goto, scanVars
<1>7. PayerChosen'
  BY DEF IInv, TypeOK, PayerChosen, Moving, OfferedLocked, CopiesLocked,
     Choose, tables, args, Candidates, Goto, scanVars
<1>8. Counting'
  BY DEF IInv, TypeOK, Counting, Moving, Choose, tables, args, Candidates,
     Goto, scanVars
<1>9. Scanning'
  BY DEF IInv, TypeOK, Scanning, Choose, tables, args, Candidates, Goto,
     scanVars
<1> QED
  BY <1>1, <1>2, <1>3, <1>4, <1>5, <1>6, <1>7, <1>8, <1>9 DEF IInv

(* The UPDATE locks a payment that still is the accepting user's.          *)
LEMMA PayInductive ==
    ASSUME NEW t \in Session, IInv, Pay(t)
    PROVE  IInv'
<1> USE CardAssumption, OfferAssumption, NoneAssumption
<1>1. TypeOK'
  BY DEF IInv, TypeOK, Board!Status, Board!Deal, Board!Reply, Phase, Pay,
     tables, args, CopyFree, PayerChosen, Goto, scanVars
<1>2. Arguments'
  BY DEF IInv, TypeOK, Arguments, Calling, Pay, tables, args, CopyFree,
     PayerChosen, Goto, scanVars
<1>3. OfferLocked'
  BY DEF IInv, TypeOK, OfferLocked, Pay, tables, args, CopyFree, PayerChosen,
     Goto, scanVars
<1>4. CopiesLocked'
  BY DEF IInv, TypeOK, CopiesLocked, Pay, tables, args, CopyFree, Goto,
     scanVars
<1>5. OfferChecked'
  BY DEF IInv, TypeOK, OfferChecked, Board!Defined, OfferLocked, Pay, tables,
     args, CopyFree, PayerChosen, Goto, scanVars
<1>6. OfferedLocked'
  BY DEF IInv, TypeOK, OfferedLocked, CopiesLocked, OfferChecked, OfferLocked,
     Pay, tables, args, CopyFree, PayerChosen, Goto, scanVars
<1>7. PayerChosen'
  BY DEF IInv, TypeOK, PayerChosen, Moving, OfferedLocked, CopiesLocked, Pay,
     tables, args, CopyFree, Goto, scanVars
<1>8. Counting'
  BY DEF IInv, TypeOK, Counting, Moving, Pay, tables, args, CopyFree, Goto,
     scanVars
<1>9. Scanning'
  BY DEF IInv, TypeOK, Scanning, Pay, tables, args, CopyFree, Goto, scanVars
<1> QED
  BY <1>1, <1>2, <1>3, <1>4, <1>5, <1>6, <1>7, <1>8, <1>9 DEF IInv

(* The triggers write four rows.                                           *)
LEMMA CountInductive ==
    ASSUME NEW t \in Session, IInv, Count(t)
    PROVE  IInv'
<1> USE CardAssumption, OfferAssumption, NoneAssumption
<1>1. TypeOK'
  BY SMTT(30) DEF IInv, TypeOK, Board!Status, Board!Deal, Board!Reply, Phase, Count,
     tables, args, Counting, Goto, scanVars
<1>2. Arguments'
  BY DEF IInv, TypeOK, Arguments, Calling, Count, tables, args, Counting, Goto,
     scanVars
<1>3. OfferLocked'
  BY DEF IInv, TypeOK, OfferLocked, Count, tables, args, Counting, Goto,
     scanVars
<1>4. CopiesLocked'
  BY DEF IInv, TypeOK, CopiesLocked, Count, tables, args, Counting, Goto,
     scanVars
<1>5. OfferChecked'
  BY DEF IInv, TypeOK, OfferChecked, Board!Defined, OfferLocked, Count, tables,
     args, Counting, Goto, scanVars
<1>6. OfferedLocked'
  BY DEF IInv, TypeOK, OfferedLocked, CopiesLocked, OfferChecked, OfferLocked,
     Count, tables, args, Counting, Goto, scanVars
<1>7. PayerChosen'
  BY DEF IInv, TypeOK, PayerChosen, Moving, OfferedLocked, CopiesLocked, Count,
     tables, args, Counting, Goto, scanVars
<1>8. Counting'
  BY DEF IInv, TypeOK, Counting, Moving, Count, tables, args, Goto, scanVars
<1>9. Scanning'
  BY DEF IInv, TypeOK, Scanning, Count, tables, args, Counting, Goto, scanVars
<1> QED
  BY <1>1, <1>2, <1>3, <1>4, <1>5, <1>6, <1>7, <1>8, <1>9 DEF IInv

(* Other transactions hold neither the offer nor the two copies.           *)
LEMMA CommitInductive ==
    ASSUME NEW t \in Session, IInv, NEW o \in Offer, Commit(t, o)
    PROVE  IInv'
<1> USE CardAssumption, OfferAssumption, NoneAssumption
<1>1. TypeOK'
  <2>1. /\ user[t] \in User /\ request[t] \in Request /\ payer[t] \in Copy
    BY DEF IInv, Arguments, Calling, PayerChosen, Commit
  <2>2. /\ owner' \in [Copy -> User \cup {None}]
        /\ status' \in [Offer -> Board!Status]
    BY <2>1 DEF IInv, TypeOK, Commit, Move, Board!Status
  <2>3. deal' \in [Offer -> Board!Deal \cup {None}]
    BY <2>1 DEF IInv, TypeOK, Commit, Board!Deal
  <2>4. /\ user' \in [Session -> User \cup {None}]
        /\ offer' \in [Session -> Offer \cup {None}]
        /\ request' \in [Session -> Request \cup {None}]
        /\ reply' \in [Session -> Board!Reply]
        /\ phase' \in [Session -> Phase]
    BY DEF IInv, TypeOK, Commit, End, Board!Answer, Board!Reply, Goto, Phase
  <2>5. /\ held' \in [Session -> SUBSET Copy]
        /\ todo' \in [Session -> SUBSET Copy]
        /\ row' \in [Session -> Copy \cup {None}]
        /\ payer' \in [Session -> Copy \cup {None}]
        /\ counted' \in [Session -> 0..4]
    BY DEF IInv, TypeOK, Commit, End
  <2> QED
    BY <2>2, <2>3, <2>4, <2>5 DEF IInv, TypeOK, Commit
<1>2. Arguments'
  BY DEF IInv, TypeOK, Arguments, Calling, Commit, Move, PayerChosen,
     OfferChecked, End, Goto, Board!Answer
<1>3. OfferLocked'
  BY DEF IInv, TypeOK, OfferLocked, Commit, Move, PayerChosen, OfferChecked,
     End, Goto, Board!Answer
<1>4. CopiesLocked'
  BY DEF IInv, TypeOK, CopiesLocked, Commit, Move, End, Goto, Board!Answer
<1>5. OfferChecked'
  BY DEF IInv, TypeOK, OfferChecked, Board!Defined, OfferLocked, Commit, Move,
     PayerChosen, End, Goto, Board!Answer
<1>6. OfferedLocked'
  <2> SUFFICES ASSUME NEW s \in Session, phase'[s] \notin {"idle", "offer", "offered"}
               PROVE  /\ Offered[offer'[s]] \in held'[s]
                      /\ owner'[Offered[offer'[s]]] = Offerer[offer'[s]]
    BY DEF OfferedLocked
  <2>1. s # t /\ offer'[s] = offer[s] /\ held'[s] = held[s] /\ phase'[s] = phase[s]
    BY DEF IInv, TypeOK, Commit, End, Goto, Board!Answer
  <2>2. /\ Offered[offer[s]] \in held[s] /\ offer[s] \in Offer
        /\ owner[Offered[offer[s]]] = Offerer[offer[s]]
    BY <2>1 DEF IInv, OfferedLocked, Arguments, Calling
  <2>3. payer[t] \in held[t] /\ Offered[o] \in held[t] /\ held[s] \cap held[t] = {}
    BY <2>1 DEF IInv, CopiesLocked, OfferedLocked, PayerChosen, Moving, Commit
  <2>4. owner'[Offered[offer[s]]] = owner[Offered[offer[s]]]
    BY <2>2, <2>3 DEF IInv, TypeOK, Commit, Move
  <2> QED
    BY <2>1, <2>2, <2>4
<1>7. PayerChosen'
  <2> SUFFICES ASSUME NEW s \in Session, phase'[s] \in {"pay", "stats", "commit"}
               PROVE  /\ payer'[s] \in Copy /\ CardOf[payer'[s]] = Wanted[offer'[s]]
                      /\ Moving(s)' => payer'[s] \in held'[s] /\ owner'[payer'[s]] = user'[s]
    BY DEF PayerChosen
  <2>1. /\ s # t /\ offer'[s] = offer[s] /\ held'[s] = held[s] /\ phase'[s] = phase[s]
        /\ payer'[s] = payer[s] /\ user'[s] = user[s]
    BY DEF IInv, TypeOK, Commit, End, Goto, Board!Answer
  <2>2. /\ payer[s] \in Copy /\ CardOf[payer[s]] = Wanted[offer[s]]
        /\ Moving(s) => payer[s] \in held[s] /\ owner[payer[s]] = user[s]
    BY <2>1 DEF IInv, PayerChosen
  <2>3. payer[t] \in held[t] /\ Offered[o] \in held[t] /\ held[s] \cap held[t] = {}
    BY <2>1 DEF IInv, CopiesLocked, OfferedLocked, PayerChosen, Moving, Commit
  <2>4. Moving(s) => owner'[payer[s]] = owner[payer[s]]
    BY <2>2, <2>3 DEF IInv, TypeOK, Commit, Move
  <2> QED
    BY <2>1, <2>2, <2>4 DEF Moving
<1>8. Counting'
  BY DEF IInv, TypeOK, Counting, Moving, Commit, Move, End, Goto, Board!Answer
<1>9. Scanning'
  BY DEF IInv, TypeOK, Scanning, Commit, Move, End, Goto, Board!Answer
<1> QED
  BY <1>1, <1>2, <1>3, <1>4, <1>5, <1>6, <1>7, <1>8, <1>9 DEF IInv

(* A new offer is nobody's yet.                                            *)
LEMMA PostInductive ==
    ASSUME NEW o \in Offer, IInv, Post(o)
    PROVE  IInv'
<1> USE CardAssumption, OfferAssumption, NoneAssumption
<1>1. TypeOK'
  BY DEF IInv, TypeOK, Board!Status, Board!Deal, Board!Reply, Phase, Post,
     Board!Post, CallsUnchanged, args, scanVars, Board!calls
<1>2. Arguments'
  BY DEF IInv, TypeOK, Arguments, Calling, Post, Board!Post, CallsUnchanged,
     args, scanVars, Board!calls
<1>3. OfferLocked'
  BY DEF IInv, TypeOK, OfferLocked, Post, Board!Post, CallsUnchanged, args,
     scanVars, Board!calls
<1>4. CopiesLocked'
  BY DEF IInv, TypeOK, CopiesLocked, Post, Board!Post, CallsUnchanged, args,
     scanVars, Board!calls
<1>5. OfferChecked'
  BY DEF IInv, TypeOK, OfferChecked, Board!Defined, OfferLocked, Post,
     Board!Post, CallsUnchanged, args, scanVars, Board!calls
<1>6. OfferedLocked'
  BY DEF IInv, TypeOK, OfferedLocked, CopiesLocked, OfferChecked, OfferLocked,
     Post, Board!Post, CallsUnchanged, args, scanVars, Board!calls
<1>7. PayerChosen'
  BY DEF IInv, TypeOK, PayerChosen, Moving, OfferedLocked, CopiesLocked, Post,
     Board!Post, CallsUnchanged, args, scanVars, Board!calls
<1>8. Counting'
  BY DEF IInv, TypeOK, Counting, Moving, Post, Board!Post, CallsUnchanged,
     args, scanVars, Board!calls
<1>9. Scanning'
  BY DEF IInv, TypeOK, Scanning, Post, Board!Post, CallsUnchanged, args,
     scanVars, Board!calls
<1> QED
  BY <1>1, <1>2, <1>3, <1>4, <1>5, <1>6, <1>7, <1>8, <1>9 DEF IInv

(* An offer under way cannot be withdrawn.                                 *)
LEMMA WithdrawInductive ==
    ASSUME NEW o \in Offer, IInv, Withdraw(o)
    PROVE  IInv'
<1> USE CardAssumption, OfferAssumption, NoneAssumption
<1>1. TypeOK'
  BY DEF IInv, TypeOK, Board!Status, Board!Deal, Board!Reply, Phase, Withdraw,
     OfferFree, HoldsOffer, Board!Withdraw, CallsUnchanged, args, scanVars,
     Board!calls
<1>2. Arguments'
  BY DEF IInv, TypeOK, Arguments, Calling, Withdraw, OfferFree, HoldsOffer,
     Board!Withdraw, CallsUnchanged, args, scanVars, Board!calls
<1>3. OfferLocked'
  BY DEF IInv, TypeOK, OfferLocked, Withdraw, OfferFree, HoldsOffer,
     Board!Withdraw, CallsUnchanged, args, scanVars, Board!calls
<1>4. CopiesLocked'
  BY DEF IInv, TypeOK, CopiesLocked, Withdraw, OfferFree, Board!Withdraw,
     CallsUnchanged, args, scanVars, Board!calls
<1>5. OfferChecked'
  BY DEF IInv, TypeOK, OfferChecked, Board!Defined, OfferLocked, Withdraw,
     OfferFree, HoldsOffer, Board!Withdraw, CallsUnchanged, args, scanVars,
     Board!calls
<1>6. OfferedLocked'
  BY DEF IInv, TypeOK, OfferedLocked, CopiesLocked, OfferChecked, OfferLocked,
     Withdraw, OfferFree, HoldsOffer, Board!Withdraw, CallsUnchanged, args,
     scanVars, Board!calls
<1>7. PayerChosen'
  BY DEF IInv, TypeOK, PayerChosen, Moving, OfferedLocked, CopiesLocked,
     Withdraw, OfferFree, HoldsOffer, Board!Withdraw, CallsUnchanged, args,
     scanVars, Board!calls
<1>8. Counting'
  BY DEF IInv, TypeOK, Counting, Moving, Withdraw, OfferFree, Board!Withdraw,
     CallsUnchanged, args, scanVars, Board!calls
<1>9. Scanning'
  BY DEF IInv, TypeOK, Scanning, Withdraw, OfferFree, Board!Withdraw,
     CallsUnchanged, args, scanVars, Board!calls
<1> QED
  BY <1>1, <1>2, <1>3, <1>4, <1>5, <1>6, <1>7, <1>8, <1>9 DEF IInv

(* A new copy is in no transaction.                                        *)
LEMMA ObtainInductive ==
    ASSUME NEW u \in User, NEW c \in Copy, IInv, Obtain(u, c)
    PROVE  IInv'
<1> USE CardAssumption, OfferAssumption, NoneAssumption
<1>1. TypeOK'
  BY DEF IInv, TypeOK, Board!Status, Board!Deal, Board!Reply, Phase, Obtain,
     Board!Obtain, CallsUnchanged, args, scanVars, Board!calls
<1>2. Arguments'
  BY DEF IInv, TypeOK, Arguments, Calling, Obtain, Board!Obtain,
     CallsUnchanged, args, scanVars, Board!calls
<1>3. OfferLocked'
  BY DEF IInv, TypeOK, OfferLocked, Obtain, Board!Obtain, CallsUnchanged, args,
     scanVars, Board!calls
<1>4. CopiesLocked'
  BY DEF IInv, TypeOK, CopiesLocked, Obtain, Board!Obtain, CallsUnchanged,
     args, scanVars, Board!calls
<1>5. OfferChecked'
  BY DEF IInv, TypeOK, OfferChecked, Board!Defined, OfferLocked, Obtain,
     Board!Obtain, CallsUnchanged, args, scanVars, Board!calls
<1>6. OfferedLocked'
  BY DEF IInv, TypeOK, Arguments, Calling, OfferedLocked, CopiesLocked,
     OfferChecked, OfferLocked, Obtain, Board!Obtain, CallsUnchanged, args,
     scanVars, Board!calls
<1>7. PayerChosen'
  BY DEF IInv, TypeOK, Arguments, Calling, PayerChosen, Moving, OfferedLocked,
     CopiesLocked, Obtain, Board!Obtain, CallsUnchanged, args, scanVars,
     Board!calls
<1>8. Counting'
  BY DEF IInv, TypeOK, Counting, Moving, Obtain, Board!Obtain, CallsUnchanged,
     args, scanVars, Board!calls
<1>9. Scanning'
  BY DEF IInv, TypeOK, Scanning, Obtain, Board!Obtain, CallsUnchanged, args,
     scanVars, Board!calls
<1> QED
  BY <1>1, <1>2, <1>3, <1>4, <1>5, <1>6, <1>7, <1>8, <1>9 DEF IInv

(* The rows a call relies on are locked, so their cards stay.              *)
LEMMA DeleteInductive ==
    ASSUME NEW k \in Card, IInv, Delete(k)
    PROVE  IInv'
<1> USE CardAssumption, OfferAssumption, NoneAssumption
<1>1. TypeOK'
  BY DEF IInv, TypeOK, Board!Status, Board!Deal, Board!Reply, Phase, Delete,
     OfferFree, HoldsOffer, Board!Delete, CallsUnchanged, args, scanVars,
     Board!calls
<1>2. Arguments'
  BY DEF IInv, TypeOK, Arguments, Calling, Delete, OfferFree, HoldsOffer,
     Board!Delete, CallsUnchanged, args, scanVars, Board!calls
<1>3. OfferLocked'
  BY DEF IInv, TypeOK, OfferLocked, Delete, OfferFree, HoldsOffer,
     Board!Delete, CallsUnchanged, args, scanVars, Board!calls
<1>4. CopiesLocked'
  BY DEF IInv, TypeOK, CopiesLocked, Delete, OfferFree, Board!Delete,
     CallsUnchanged, args, scanVars, Board!calls
<1>5. OfferChecked'
  BY DEF IInv, TypeOK, Arguments, Calling, OfferChecked, Board!Defined,
     OfferLocked, Delete, OfferFree, HoldsOffer, Board!Delete, CallsUnchanged,
     args, scanVars, Board!calls
<1>6. OfferedLocked'
  BY DEF IInv, TypeOK, OfferedLocked, CopiesLocked, OfferChecked, OfferLocked,
     Delete, OfferFree, HoldsOffer, Board!Delete, CallsUnchanged, args,
     scanVars, Board!calls
<1>7. PayerChosen'
  BY DEF IInv, TypeOK, PayerChosen, Moving, OfferedLocked, CopiesLocked,
     Delete, OfferFree, HoldsOffer, Board!Delete, CallsUnchanged, args,
     scanVars, Board!calls
<1>8. Counting'
  BY DEF IInv, TypeOK, Counting, Moving, Delete, OfferFree, Board!Delete,
     CallsUnchanged, args, scanVars, Board!calls
<1>9. Scanning'
  BY DEF IInv, TypeOK, Scanning, Delete, OfferFree, Board!Delete,
     CallsUnchanged, args, scanVars, Board!calls
<1> QED
  BY <1>1, <1>2, <1>3, <1>4, <1>5, <1>6, <1>7, <1>8, <1>9 DEF IInv

LEMMA InitIInv == Init => IInv
<1> SUFFICES ASSUME Init PROVE IInv
  OBVIOUS
<1> QED
  BY NoneAssumption
  DEF Init, Board!Init, IInv, TypeOK, Phase, Board!Status, Board!Deal,
      Board!Reply, Arguments, Calling, OfferLocked, CopiesLocked,
      OfferChecked, OfferedLocked, PayerChosen, Moving, Counting, Scanning

(* The steps that end a call without a change of the tables.               *)
LEMMA StatementInductive ==
    ASSUME NEW t \in Session, IInv, Statement(t) \/ Abort(t)
    PROVE  IInv'
<1>1. \A o \in Offer : Replay(t, o) => IInv'
  BY EndsInductive DEF Replay, Board!Reply
<1>2. \A o \in Offer : RefuseClosed(t, o) \/ RefuseOwn(t, o) \/ RefuseDisabled(t, o)
                      => IInv'
  BY EndsInductive DEF RefuseClosed, RefuseOwn, RefuseDisabled, Board!Reply
<1>3. RefuseNotOwned(t) => IInv'
  BY EndsInductive DEF RefuseNotOwned, Board!Reply
<1>4. Abort(t) => IInv'
  BY EndsInductive DEF Abort, Board!Reply
<1>5. \A o \in Offer : VoidUndefined(t, o) => IInv'
  BY CancelInductive DEF VoidUndefined, Reads, OfferFree
<1>6. \A o \in Offer : VoidLost(t, o) => IInv'
  <2> SUFFICES ASSUME NEW o \in Offer, VoidLost(t, o) PROVE IInv'
    OBVIOUS
  <2>1. \A s \in Session \ {t} : ~HoldsOffer(s, o)
    BY DEF VoidLost, IInv, OfferLocked, HoldsOffer
  <2> QED
    BY <2>1, CancelInductive DEF VoidLost
<1>7. \A o \in Offer : LockOffer(t, o) \/ LockOffered(t, o) \/ Commit(t, o) => IInv'
  BY LockOfferInductive, LockOfferedInductive, CommitInductive
<1>8. Perform(t) \/ LockRow(t) \/ Choose(t) \/ Pay(t) \/ Count(t) => IInv'
  BY PerformInductive, LockRowInductive, ChooseInductive, PayInductive,
     CountInductive
<1> QED
  BY <1>1, <1>2, <1>3, <1>4, <1>5, <1>6, <1>7, <1>8 DEF Statement

LEMMA NextIInv == IInv /\ [Next]_vars => IInv'
<1> SUFFICES ASSUME IInv, [Next]_vars PROVE IInv'
  OBVIOUS
<1>1. CASE \E t \in Session, u \in User, o \in Offer, r \in Request : Begin(t, u, o, r)
  BY <1>1, BeginInductive
<1>2. CASE \E t \in Session : Statement(t) \/ Abort(t)
  BY <1>2, StatementInductive
<1>3. CASE \E o \in Offer : Post(o) \/ Withdraw(o)
  BY <1>3, PostInductive, WithdrawInductive
<1>4. CASE \E u \in User, c \in Copy : Obtain(u, c)
  BY <1>4, ObtainInductive
<1>5. CASE \E k \in Card : Delete(k)
  BY <1>5, DeleteInductive
<1>6. CASE UNCHANGED vars
  BY <1>6 DEF vars, IInv, TypeOK, Arguments, Calling, OfferLocked,
     CopiesLocked, OfferChecked, Board!Defined, OfferedLocked, PayerChosen,
     Moving, Counting, Scanning
<1> QED
  BY <1>1, <1>2, <1>3, <1>4, <1>5, <1>6 DEF Next

(* In every reachable state the calls hold the locks their checks rely on. *)
THEOREM Invariance == Spec => []IInv
BY InitIInv, NextIInv, PTL DEF Spec

(* Types; what was checked still holds when the copies are moved; no copy  *)
(* is moved by two transactions at a time.                                 *)
THEOREM TransfersHold == Spec => [](TypeOK /\ TransferGrounded /\ NoDoubleSpend)
<1>1. IInv => TypeOK
  BY DEF IInv
<1>2. IInv => TransferGrounded
  BY DEF IInv, OfferChecked, OfferedLocked, PayerChosen, TransferGrounded, Moving
<1>3. IInv => NoDoubleSpend
  <2> SUFFICES ASSUME IInv, NEW s \in Session, NEW t \in Session, s # t,
                      Moving(s), Moving(t)
               PROVE  {payer[s], Offered[offer[s]]} \cap {payer[t], Offered[offer[t]]} = {}
    BY DEF NoDoubleSpend
  <2>1. /\ {payer[s], Offered[offer[s]]} \subseteq held[s]
        /\ {payer[t], Offered[offer[t]]} \subseteq held[t]
    BY DEF IInv, OfferedLocked, PayerChosen, Moving
  <2>2. held[s] \cap held[t] = {}
    BY DEF IInv, CopiesLocked
  <2> QED
    BY <2>1, <2>2
<1> QED
  BY <1>1, <1>2, <1>3, Invariance, PTL

-----------------------------------------------------------------------------
(* The statements implement the atomic board.                              *)

LEMMA BoardInitially == Init => Board!Init
BY DEF Init

(* A call that ends without a change answers as the board may.             *)
LEMMA BoardEnds ==
    ASSUME NEW t \in Session, IInv,
           \/ RefuseNotOwned(t) \/ Abort(t)
           \/ \E o \in Offer : \/ Replay(t, o) \/ RefuseClosed(t, o) \/ RefuseOwn(t, o)
                               \/ RefuseDisabled(t, o)
    PROVE  Board!Accept(t)
<1>1. CASE RefuseNotOwned(t)
  <2>1. offer[t] \in Offer /\ status[offer[t]] = "open"
    BY <1>1 DEF RefuseNotOwned, IInv, Arguments, Calling, OfferChecked
  <2>2. Board!Refuse(t, offer[t])
    BY <1>1, <2>1 DEF RefuseNotOwned, End, Board!Refuse, Board!Settled, tables,
       Board!tables
  <2> QED
    BY <2>1, <2>2 DEF Board!Accept
<1>2. CASE Abort(t)
  <2>1. offer[t] # None
    BY <1>2, NoneAssumption DEF Abort, IInv, Arguments, Calling
  <2>2. Board!Lose(t)
    BY <1>2, <2>1 DEF Abort, End, Board!Lose, tables, Board!tables
  <2> QED
    BY <2>2 DEF Board!Accept
<1>3. ASSUME NEW o \in Offer, Replay(t, o) PROVE Board!Accept(t)
  <2>1. Board!Replay(t, o)
    BY <1>3 DEF Replay, Reads, End, Board!Replay, tables, Board!tables
  <2> QED
    BY <2>1 DEF Board!Accept
<1>4. ASSUME NEW o \in Offer,
             RefuseClosed(t, o) \/ RefuseOwn(t, o) \/ RefuseDisabled(t, o)
      PROVE  Board!Accept(t)
  <2>1. Board!Refuse(t, o)
    BY <1>4 DEF RefuseClosed, RefuseOwn, RefuseDisabled, Reads, End,
       Board!Refuse, Board!Settled, tables, Board!tables
  <2> QED
    BY <2>1 DEF Board!Accept
<1> QED
  BY <1>1, <1>2, <1>3, <1>4

(* An offer is cancelled because a copy or a card is gone.                 *)
LEMMA BoardVoids ==
    ASSUME NEW t \in Session, NEW o \in Offer, IInv,
           VoidUndefined(t, o) \/ VoidLost(t, o)
    PROVE  Board!Accept(t)
<1>1. Board!Void(t, o)
  BY DEF VoidUndefined, VoidLost, Reads, Cancel, End, Board!Void, IInv, OfferChecked
<1> QED
  BY <1>1 DEF Board!Accept

(* The COMMIT is the atomic trade.                                         *)
LEMMA BoardTrades ==
    ASSUME NEW t \in Session, NEW o \in Offer, IInv, Commit(t, o)
    PROVE  Board!Accept(t)
<1>1. payer[t] \in Copy /\ CardOf[payer[t]] = Wanted[o] /\ owner[payer[t]] = user[t]
  BY DEF Commit, IInv, PayerChosen, Moving
<1>2. /\ status[o] = "open" /\ user[t] # Offerer[o] /\ Board!Defined(o)
      /\ owner[Offered[o]] = Offerer[o]
  BY DEF Commit, IInv, OfferChecked, OfferedLocked
<1>3. Board!Trade(t, o, payer[t])
  BY <1>1, <1>2 DEF Commit, Move, End, Board!Trade
<1> QED
  BY <1>1, <1>3 DEF Board!Accept

LEMMA BoardSteps == IInv /\ [Next]_vars => [Board!Next]_(Board!boardVars)
<1> SUFFICES ASSUME IInv, [Next]_vars
             PROVE  Board!Next \/ UNCHANGED Board!boardVars
  OBVIOUS
<1>1. ASSUME NEW t \in Session, NEW u \in User, NEW o \in Offer, NEW r \in Request,
             Begin(t, u, o, r)
      PROVE  Board!Next
  <2>1. Board!Accept(t)
    BY <1>1 DEF Begin, Board!Accept
  <2> QED
    BY <2>1 DEF Board!Next
<1>2. ASSUME NEW t \in Session, Statement(t) \/ Abort(t)
      PROVE  Board!Accept(t) \/ UNCHANGED Board!boardVars
  <2>1. ASSUME NEW o \in Offer, LockOffer(t, o) \/ LockOffered(t, o)
        PROVE  UNCHANGED Board!boardVars
    BY <2>1 DEF LockOffer, LockOffered, tables, args, Board!boardVars
  <2>2. ASSUME Perform(t) \/ LockRow(t) \/ Choose(t) \/ Pay(t) \/ Count(t)
        PROVE  UNCHANGED Board!boardVars
    BY <2>2 DEF Perform, LockRow, Choose, Pay, Count, tables, args, Board!boardVars
  <2> QED
    BY <1>2, <2>1, <2>2, BoardEnds, BoardVoids, BoardTrades DEF Statement
<1>3. CASE \E o \in Offer : Post(o) \/ Withdraw(o)
  BY <1>3 DEF Post, Withdraw, Board!Next
<1>4. CASE \E u \in User, c \in Copy : Obtain(u, c)
  BY <1>4 DEF Obtain, Board!Next
<1>5. CASE \E k \in Card : Delete(k)
  BY <1>5 DEF Delete, Board!Next
<1>6. CASE UNCHANGED vars
  BY <1>6 DEF vars, Board!boardVars
<1> QED
  BY <1>1, <1>2, <1>3, <1>4, <1>5, <1>6 DEF Next, Board!Next

(* accept_trade_offer implements one atomic step of TradeBoard per call.   *)
THEOREM BoardRefinement == Spec => ImplementsBoard
BY BoardInitially, BoardSteps, Invariance, PTL
DEF Spec, ImplementsBoard, Board!Spec

-----------------------------------------------------------------------------
(* The images of the cards.                                                *)
ImageBounds == {FileLimit, MaxUploads, MaxBroken} \subseteq Nat

Dash == [at : Images!Stage, on : Card \cup {0}, url : Images!Url \cup {0},
         final : Images!Url \cup {0}, old : Images!Url \cup {0}, deletes : BOOLEAN]

(* One dashboard is somewhere else; the others are where they were.        *)
Moves(t, y) ==
  /\ y \in Dash /\ dash' \in [Tab -> Dash] /\ dash'[t] = y
  /\ \A s \in Tab \ {t} : dash'[s] = dash[s]

LEMMA DashMoves ==
    ASSUME dash \in [Tab -> Dash], NEW t \in Tab, NEW y \in Dash, dash' = [dash EXCEPT ![t] = y]
    PROVE  Moves(t, y)
BY DEF Moves

LEMMA StageMoves ==
    ASSUME dash \in [Tab -> Dash], NEW t \in Tab, NEW at \in Images!Stage, Images!Goto(t, at)
    PROVE  \E y \in Dash :
             /\ Moves(t, y) /\ y.at = at /\ y.on = dash[t].on /\ y.url = dash[t].url
             /\ y.final = dash[t].final /\ y.old = dash[t].old /\ y.deletes = dash[t].deletes
<1>1. PICK x \in Dash : x = dash[t]
  OBVIOUS
<1>2. PICK y : y = [x EXCEPT !.at = at]
  OBVIOUS
<1>3. /\ y \in Dash /\ y.at = at /\ y.on = x.on /\ y.url = x.url /\ y.final = x.final
      /\ y.old = x.old /\ y.deletes = x.deletes
  BY <1>2 DEF Dash
<1>4. dash' = [dash EXCEPT ![t] = y]
  BY <1>1, <1>2 DEF Images!Goto
<1> QED
  BY <1>1, <1>3, <1>4, DashMoves

LEMMA IdleMoves ==
    ASSUME dash \in [Tab -> Dash], NEW t \in Tab, dash' = [dash EXCEPT ![t] = Images!Idle]
    PROVE  \E y \in Dash : /\ Moves(t, y) /\ y.at = "idle" /\ y.on = 0 /\ y.url = 0
                           /\ y.final = 0 /\ y.old = 0 /\ y.deletes = FALSE
<1>1. PICK y : y = Images!Idle
  OBVIOUS
<1>2. /\ y \in Dash /\ y.at = "idle" /\ y.on = 0 /\ y.url = 0 /\ y.final = 0
      /\ y.old = 0 /\ y.deletes = FALSE
  BY <1>1 DEF Dash, Images!Idle, Images!NoImage, Images!Stage
<1> QED
  BY <1>1, <1>2, DashMoves

(* A dashboard that leaves the uploading and saving alone starts afresh.   *)
LEMMA OpenMoves ==
    ASSUME dash \in [Tab -> Dash], card \in [Card -> Images!Url \cup {0, -1}],
           NEW t \in Tab, NEW c \in Card, Images!Open(t, c)
    PROVE  \E y \in Dash : /\ Moves(t, y) /\ y.at = "form" /\ y.on = c /\ y.final = 0
                           /\ y.url = (IF card[c] = -1 THEN 0 ELSE card[c])
                           /\ y.old = 0 /\ y.deletes = FALSE
<1>1. PICK u \in Images!Url \cup {0} : u = IF card[c] = -1 THEN 0 ELSE card[c]
  OBVIOUS
<1>2. PICK i : i = Images!Idle
  OBVIOUS
<1>3. PICK y : y = [i EXCEPT !.at = "form", !.on = c, !.url = u]
  OBVIOUS
<1>4. /\ y \in Dash /\ y.at = "form" /\ y.on = c /\ y.final = 0 /\ y.url = u
      /\ y.old = 0 /\ y.deletes = FALSE
  BY <1>2, <1>3 DEF Dash, Images!Idle, Images!NoImage, Images!Stage
<1>5. dash' = [dash EXCEPT ![t] = y]
  BY <1>1, <1>2, <1>3 DEF Images!Open, Images!Gone, Images!NoImage
<1> QED
  BY <1>1, <1>4, <1>5, DashMoves

LEMMA DeleteMoves ==
    ASSUME dash \in [Tab -> Dash], card \in [Card -> Images!Url \cup {0, -1}],
           NEW t \in Tab, NEW c \in Card, Images!Delete(t, c)
    PROVE  \E y \in Dash : /\ Moves(t, y) /\ y.on = c /\ y.final = 0 /\ y.url = 0
                           /\ y.at = (IF card[c] = 0 THEN "drop" ELSE "select")
                           /\ y.old = card[c] /\ y.deletes = TRUE
<1>1. PICK u \in Images!Url \cup {0} : u = card[c]
  BY DEF Images!Delete, Images!Gone
<1>2. PICK i : i = Images!Idle
  OBVIOUS
<1>3. PICK a \in {"drop", "select"} : a = IF card[c] = 0 THEN "drop" ELSE "select"
  OBVIOUS
<1>4. PICK y : y = [i EXCEPT !.on = c, !.old = u, !.deletes = TRUE, !.at = a]
  OBVIOUS
<1>5. /\ y \in Dash /\ y.at = a /\ y.on = c /\ y.final = 0 /\ y.url = 0
      /\ y.old = u /\ y.deletes = TRUE
  BY <1>2, <1>4 DEF Dash, Images!Idle, Images!NoImage, Images!Stage
<1>6. dash' = [dash EXCEPT ![t] = y]
  BY <1>1, <1>2, <1>3, <1>4 DEF Images!Delete, Images!NoImage
<1> QED
  BY <1>1, <1>3, <1>5, <1>6, DashMoves

LEMMA ClearMoves ==
    ASSUME dash \in [Tab -> Dash], NEW t \in Tab, Images!ClearImage(t)
    PROVE  \E y \in Dash : /\ Moves(t, y) /\ y.at = dash[t].at /\ y.on = dash[t].on /\ y.url = 0
                           /\ y.final = dash[t].final /\ y.old = dash[t].old
                           /\ y.deletes = dash[t].deletes
<1>1. PICK x \in Dash : x = dash[t]
  OBVIOUS
<1>2. PICK y : y = [x EXCEPT !.url = 0]
  OBVIOUS
<1>3. /\ y \in Dash /\ y.at = x.at /\ y.on = x.on /\ y.url = 0 /\ y.final = x.final
      /\ y.old = x.old /\ y.deletes = x.deletes
  BY <1>2 DEF Dash
<1>4. dash' = [dash EXCEPT ![t] = y]
  BY <1>1, <1>2 DEF Images!ClearImage, Images!NoImage
<1> QED
  BY <1>1, <1>3, <1>4, DashMoves

LEMMA KeepMoves ==
    ASSUME dash \in [Tab -> Dash], NEW t \in Tab, Images!SubmitWithoutFile(t)
    PROVE  \E y \in Dash : /\ Moves(t, y) /\ y.at = "send" /\ y.on = dash[t].on
                           /\ y.url = dash[t].url /\ y.final = dash[t].url
                           /\ y.old = dash[t].old /\ y.deletes = dash[t].deletes
<1>1. PICK x \in Dash : x = dash[t]
  OBVIOUS
<1>2. PICK y : y = [x EXCEPT !.at = "send", !.final = x.url]
  OBVIOUS
<1>3. /\ y \in Dash /\ y.at = "send" /\ y.on = x.on /\ y.url = x.url /\ y.final = x.url
      /\ y.old = x.old /\ y.deletes = x.deletes
  BY <1>2 DEF Dash, Images!Stage
<1>4. dash' = [dash EXCEPT ![t] = y]
  BY <1>1, <1>2 DEF Images!SubmitWithoutFile
<1> QED
  BY <1>1, <1>3, <1>4, DashMoves

LEMMA PutMoves ==
    ASSUME dash \in [Tab -> Dash], NEW t \in Tab, Images!Put(t), spent' \in Images!Url
    PROVE  \E y \in Dash : /\ Moves(t, y) /\ y.at = "record" /\ y.on = dash[t].on
                           /\ y.url = dash[t].url /\ y.final = spent'
                           /\ y.old = dash[t].old /\ y.deletes = dash[t].deletes
<1>1. PICK x \in Dash : x = dash[t]
  OBVIOUS
<1>2. PICK u \in Images!Url : u = spent'
  OBVIOUS
<1>3. PICK y : y = [x EXCEPT !.at = "record", !.final = u]
  OBVIOUS
<1>4. /\ y \in Dash /\ y.at = "record" /\ y.on = x.on /\ y.url = x.url /\ y.final = u
      /\ y.old = x.old /\ y.deletes = x.deletes
  BY <1>3 DEF Dash, Images!Stage
<1>5. dash' = [dash EXCEPT ![t] = y]
  BY <1>1, <1>2, <1>3 DEF Images!Put
<1> QED
  BY <1>1, <1>2, <1>4, <1>5, DashMoves

LEMMA ReadMoves ==
    ASSUME dash \in [Tab -> Dash], card \in [Card -> Images!Url \cup {0, -1}],
           NEW t \in Tab, dash[t].on \in Card, Images!ReadCard(t)
    PROVE  \E y \in Dash : /\ Moves(t, y) /\ y.at = "update" /\ y.on = dash[t].on
                           /\ y.url = dash[t].url /\ y.final = dash[t].final
                           /\ y.old = card[dash[t].on] /\ y.deletes = dash[t].deletes
<1>1. PICK x \in Dash : x = dash[t]
  OBVIOUS
<1>2. PICK u \in Images!Url \cup {0} : u = card[x.on]
  BY <1>1 DEF Images!ReadCard, Images!Gone
<1>3. PICK y : y = [x EXCEPT !.at = "update", !.old = u]
  OBVIOUS
<1>4. /\ y \in Dash /\ y.at = "update" /\ y.on = x.on /\ y.url = x.url /\ y.final = x.final
      /\ y.old = u /\ y.deletes = x.deletes
  BY <1>3 DEF Dash, Images!Stage
<1>5. dash' = [dash EXCEPT ![t] = y]
  BY <1>1, <1>2, <1>3 DEF Images!ReadCard
<1> QED
  BY <1>1, <1>2, <1>4, <1>5, DashMoves

(* What the two common moves leave.                                        *)
Slid(t, at, y) ==
  /\ Moves(t, y) /\ y.at = at /\ y.on = dash[t].on /\ y.url = dash[t].url
  /\ y.final = dash[t].final /\ y.old = dash[t].old /\ y.deletes = dash[t].deletes
Idled(t, y) ==
  /\ Moves(t, y) /\ y.at = "idle" /\ y.on = 0 /\ y.url = 0
  /\ y.final = 0 /\ y.old = 0 /\ y.deletes = FALSE

(* Everything has its type, and whoever is busy is busy with a card.       *)
Working(x) ==
  /\ x.at # "idle" => x.on \in Card
  /\ x.at = "record" => x.final \in Images!Url
Filed ==
  /\ object \subseteq Images!Url /\ files \subseteq Images!Url /\ count \in Nat
  /\ card \in [Card -> Images!Url \cup {0, -1}]
  /\ dash \in [Tab -> Dash] /\ \A t \in Tab : Working(dash[t])
  /\ halved \subseteq Card /\ spent \in 0..MaxUploads /\ broken \in 0..MaxBroken

LEMMA MoveWorks ==
    ASSUME Filed, NEW t \in Tab, NEW y, Moves(t, y), Working(y)
    PROVE  dash' \in [Tab -> Dash] /\ \A s \in Tab : Working(dash'[s])
BY DEF Filed, Moves

(* A tab or its request moves on, and a fault that is spent is counted.    *)
Faulty == broken' \in 0..MaxBroken /\ (broken' = broken \/ broken' = broken + 1)

LEMMA FaultCounts ==
    ASSUME ImageBounds, Filed, broken' = broken \/ Images!Fault PROVE Faulty
BY DEF ImageBounds, Filed, Faulty, Images!Fault

(* The moves of the actions that only step on.                             *)
LEMMA Slides ==
    ASSUME Filed, NEW t \in Tab
    PROVE  /\ \A at \in Images!Stage : Images!Goto(t, at) => \E y \in Dash : Slid(t, at, y)
           /\ dash' = [dash EXCEPT ![t] = Images!Idle] => \E y \in Dash : Idled(t, y)
<1>1. dash \in [Tab -> Dash]
  BY DEF Filed
<1>2. ASSUME NEW at \in Images!Stage, Images!Goto(t, at) PROVE \E y \in Dash : Slid(t, at, y)
  BY <1>1, <1>2, StageMoves DEF Slid
<1>3. ASSUME dash' = [dash EXCEPT ![t] = Images!Idle] PROVE \E y \in Dash : Idled(t, y)
  BY <1>1, <1>3, IdleMoves DEF Idled
<1> QED
  BY <1>2, <1>3

(* What each step of one dashboard does to it and to the rest.             *)
TabOpened(t, y, c) ==
  /\ dash[t].at = "idle" /\ Moves(t, y)
  /\ y.at = "form" /\ y.on = c /\ y.final = 0 /\ y.old = 0 /\ y.deletes = FALSE
  /\ y.url = (IF card[c] = -1 THEN 0 ELSE card[c])
  /\ UNCHANGED <<object, files, count, card, halved, spent, broken>>
TabChosen(t, y, c) ==
  /\ dash[t].at = "idle" /\ Moves(t, y) /\ card[c] # -1
  /\ y.on = c /\ y.final = 0 /\ y.url = 0 /\ y.old = card[c] /\ y.deletes = TRUE
  /\ y.at = (IF card[c] = 0 THEN "drop" ELSE "select")
  /\ UNCHANGED <<object, files, count, card, halved, spent, broken>>
TabCleared(t, y) ==
  /\ dash[t].at = "form" /\ Moves(t, y) /\ y.at = "form" /\ y.on = dash[t].on
  /\ y.url = 0 /\ y.final = dash[t].final /\ y.old = dash[t].old /\ y.deletes = dash[t].deletes
  /\ UNCHANGED <<object, files, count, card, halved, spent, broken>>
TabCancelled(t, y) ==
  /\ dash[t].at = "form" /\ Idled(t, y)
  /\ UNCHANGED <<object, files, count, card, halved, spent, broken>>
TabKept(t, y) ==
  /\ dash[t].at = "form" /\ Moves(t, y) /\ y.at = "send" /\ y.on = dash[t].on
  /\ y.url = dash[t].url /\ y.final = dash[t].url /\ y.old = dash[t].old
  /\ y.deletes = dash[t].deletes
  /\ UNCHANGED <<object, files, count, card, halved, spent, broken>>
TabUploading(t, y) ==
  /\ dash[t].at = "form" /\ Slid(t, "put", y)
  /\ (broken' = broken /\ ~(count >= FileLimit)) \/ broken' = broken + 1
  /\ UNCHANGED <<object, files, count, card, halved, spent>>
TabStored(t, y) ==
  /\ dash[t].at = "put" /\ Moves(t, y) /\ y.at = "record" /\ y.on = dash[t].on
  /\ y.url = dash[t].url /\ y.final = spent' /\ y.old = dash[t].old
  /\ y.deletes = dash[t].deletes
  /\ spent < MaxUploads /\ spent' = spent + 1 /\ object' = object \cup {spent'}
  /\ UNCHANGED <<files, count, card, halved, broken>>
TabReturned(t, y) ==
  /\ (dash[t].at = "send" /\ broken' = broken) \/ (dash[t].at \in {"put", "send", "update"} /\ broken' = broken + 1)
  /\ Slid(t, "form", y)
  /\ UNCHANGED <<object, files, count, card, halved, spent>>
TabRecorded(t, y) ==
  /\ dash[t].at = "record" /\ Slid(t, "add", y)
  /\ files' = files \cup {dash[t].final}
  /\ UNCHANGED <<object, count, card, halved, spent, broken>>
TabUnrecorded(t, y) ==
  /\ dash[t].at \in {"record", "add"} /\ Slid(t, "send", y) /\ broken' = broken + 1
  /\ UNCHANGED <<object, files, count, card, halved, spent>>
TabCounted(t, y) ==
  /\ dash[t].at = "add" /\ Slid(t, "send", y) /\ count' = count + 1
  /\ UNCHANGED <<object, files, card, halved, spent, broken>>
TabCreated(t, y) ==
  /\ dash[t].at = "send" /\ card[dash[t].on] = -1 /\ Idled(t, y)
  /\ card' = [card EXCEPT ![dash[t].on] = dash[t].final]
  /\ UNCHANGED <<object, files, count, halved, spent, broken>>
TabRead(t, y) ==
  /\ dash[t].at = "send" /\ card[dash[t].on] # -1 /\ Moves(t, y)
  /\ y.at = "update" /\ y.on = dash[t].on /\ y.url = dash[t].url /\ y.final = dash[t].final
  /\ y.old = card[dash[t].on] /\ y.deletes = dash[t].deletes
  /\ UNCHANGED <<object, files, count, card, halved, spent, broken>>
TabMissed(t, y) ==
  /\ dash[t].at = "update" /\ Idled(t, y)
  /\ UNCHANGED <<object, files, count, card, halved, spent, broken>>
TabSaved(t, y) ==
  /\ dash[t].at = "update" /\ card[dash[t].on] # -1
  /\ card' = [card EXCEPT ![dash[t].on] = dash[t].final]
  /\ \/ dash[t].old \notin {0, dash[t].final} /\ Slid(t, "select", y)
     \/ dash[t].old \in {0, dash[t].final} /\ Idled(t, y)
  /\ UNCHANGED <<object, files, count, halved, spent, broken>>
TabDropped(t, y) ==
  /\ dash[t].at = "drop" /\ Idled(t, y)
  /\ card' = [card EXCEPT ![dash[t].on] = -1]
  /\ halved' = halved \ {dash[t].on}
  /\ UNCHANGED <<object, files, count, spent, broken>>
TabBroke(t, y) ==
  /\ dash[t].at \notin {"idle", "form"} /\ Idled(t, y) /\ broken' = broken + 1
  /\ \/ halved' = halved \cup {dash[t].on}
     \/ ~dash[t].deletes /\ halved' = halved
  /\ UNCHANGED <<object, files, count, card, spent>>
TabSelected(t, y) ==
  /\ dash[t].at = "select"
  /\ \/ dash[t].old \in files /\ Slid(t, "remove", y)
     \/ dash[t].old \notin files /\ Slid(t, "erase", y)
  /\ UNCHANGED <<object, files, count, card, halved, spent, broken>>
TabRemoved(t, y) ==
  /\ dash[t].at = "remove" /\ Slid(t, "subtract", y)
  /\ files' = files \ {dash[t].old}
  /\ UNCHANGED <<object, count, card, halved, spent, broken>>
TabUnremoved(t, y) ==
  /\ dash[t].at \in {"select", "remove", "subtract"} /\ Slid(t, "erase", y)
  /\ broken' = broken + 1
  /\ UNCHANGED <<object, files, count, card, halved, spent>>
TabSubtracted(t, y) ==
  /\ dash[t].at = "subtract" /\ Slid(t, "erase", y)
  /\ count' \in Nat /\ count' = (IF count = 0 THEN 0 ELSE count - 1)
  /\ UNCHANGED <<object, files, card, halved, spent, broken>>
TabErased(t, y) ==
  /\ dash[t].at = "erase"
  /\ \/ object' = object \ {dash[t].old} /\ broken' = broken
     \/ object' = object /\ broken' = broken + 1
  /\ \/ dash[t].deletes /\ Slid(t, "drop", y)
     \/ ~dash[t].deletes /\ Idled(t, y)
  /\ UNCHANGED <<files, count, card, halved, spent>>
TabStep(t, y) ==
  \/ \E c \in Card : TabOpened(t, y, c) \/ TabChosen(t, y, c)
  \/ TabCleared(t, y) \/ TabCancelled(t, y) \/ TabKept(t, y)
  \/ TabUploading(t, y) \/ TabStored(t, y) \/ TabReturned(t, y)
  \/ TabRecorded(t, y) \/ TabUnrecorded(t, y) \/ TabCounted(t, y)
  \/ TabCreated(t, y) \/ TabRead(t, y) \/ TabMissed(t, y)
  \/ TabSaved(t, y) \/ TabDropped(t, y) \/ TabBroke(t, y)
  \/ TabSelected(t, y) \/ TabRemoved(t, y) \/ TabUnremoved(t, y)
  \/ TabSubtracted(t, y) \/ TabErased(t, y)

LEMMA TabSteps ==
    ASSUME ImageBounds, Filed, NEW t \in Tab, NEW c,
           \/ c \in Card /\ (Images!Open(t, c) \/ Images!Delete(t, c))
           \/ Images!ClearImage(t) \/ Images!Cancel(t) \/ Images!SubmitWithoutFile(t)
           \/ Images!SubmitFile(t) \/ Images!Put(t) \/ Images!PutFails(t)
           \/ Images!Record(t) \/ Images!RecordFails(t) \/ Images!Add(t)
           \/ Images!AddFails(t) \/ Images!Create(t) \/ Images!Refuse(t)
           \/ Images!ReadCard(t) \/ Images!SaveFails(t) \/ Images!Update(t)
           \/ Images!Drop(t) \/ Images!DropFails(t) \/ Images!Select(t)
           \/ Images!Remove(t) \/ Images!RemoveFails(t) \/ Images!Subtract(t)
           \/ Images!SubtractFails(t) \/ Images!Erase(t) \/ Images!EraseFails(t)
           \/ Images!Die(t)
    PROVE  Faulty /\ \E y \in Dash : Moves(t, y) /\ TabStep(t, y)
<1>1. /\ dash \in [Tab -> Dash] /\ card \in [Card -> Images!Url \cup {0, -1}]
      /\ count \in Nat /\ spent \in Nat /\ MaxUploads \in Nat /\ Working(dash[t])
  BY DEF Filed, ImageBounds
<1>2. ASSUME c \in Card, Images!Open(t, c) PROVE Faulty /\ \E y \in Dash : Moves(t, y) /\ TabStep(t, y)
  <2>1. Faulty
    BY <1>2, FaultCounts DEF Images!Open
  <2>2. PICK y \in Dash : Moves(t, y) /\ TabOpened(t, y, c)
    BY <1>1, <1>2, OpenMoves DEF Images!Open, TabOpened, Images!Gone, Images!NoImage
  <2> QED
    BY <1>2, <2>1, <2>2 DEF TabStep
<1>3. ASSUME c \in Card, Images!Delete(t, c) PROVE Faulty /\ \E y \in Dash : Moves(t, y) /\ TabStep(t, y)
  <2>1. Faulty
    BY <1>3, FaultCounts DEF Images!Delete
  <2>2. PICK y \in Dash : Moves(t, y) /\ TabChosen(t, y, c)
    BY ZenonT(60), <1>1, <1>3, DeleteMoves DEF Images!Delete, TabChosen, Images!Gone, Images!NoImage
  <2> QED
    BY <1>3, <2>1, <2>2 DEF TabStep
<1>4. ASSUME Images!ClearImage(t) PROVE Faulty /\ \E y \in Dash : Moves(t, y) /\ TabStep(t, y)
  <2>1. Faulty
    BY <1>4, FaultCounts DEF Images!ClearImage
  <2>2. PICK y \in Dash : Moves(t, y) /\ TabCleared(t, y)
    BY <1>1, <1>4, ClearMoves DEF Images!ClearImage, TabCleared
  <2> QED
    BY <2>1, <2>2 DEF TabStep
<1>5. ASSUME Images!Cancel(t) PROVE Faulty /\ \E y \in Dash : Moves(t, y) /\ TabStep(t, y)
  <2>1. Faulty
    BY <1>5, FaultCounts DEF Images!Cancel
  <2>2. PICK y \in Dash : Moves(t, y) /\ TabCancelled(t, y)
    BY ZenonT(60), <1>1, <1>5, Slides DEF Images!Cancel, TabCancelled, Images!Stage, Images!Gone, Images!NoImage, Images!Fault, Slid, Idled
  <2> QED
    BY <2>1, <2>2 DEF TabStep
<1>6. ASSUME Images!SubmitWithoutFile(t) PROVE Faulty /\ \E y \in Dash : Moves(t, y) /\ TabStep(t, y)
  <2>1. Faulty
    BY <1>6, FaultCounts DEF Images!SubmitWithoutFile
  <2>2. PICK y \in Dash : Moves(t, y) /\ TabKept(t, y)
    BY <1>1, <1>6, KeepMoves DEF Images!SubmitWithoutFile, TabKept
  <2> QED
    BY <2>1, <2>2 DEF TabStep
<1>7. ASSUME Images!SubmitFile(t) PROVE Faulty /\ \E y \in Dash : Moves(t, y) /\ TabStep(t, y)
  <2>1. Faulty
    BY <1>7, FaultCounts DEF Images!SubmitFile, Images!LimitReached
  <2>2. PICK y \in Dash : Moves(t, y) /\ TabUploading(t, y)
    BY ZenonT(60), <1>1, <1>7, Slides DEF Images!SubmitFile, Images!LimitReached, TabUploading, Images!Stage, Images!Gone, Images!NoImage, Images!Fault, Slid, Idled
  <2> QED
    BY <2>1, <2>2 DEF TabStep
<1>8. ASSUME Images!Put(t) PROVE Faulty /\ \E y \in Dash : Moves(t, y) /\ TabStep(t, y)
  <2>1. Faulty
    BY <1>8, FaultCounts DEF Images!Put
  <2>3. spent' \in Images!Url
    BY <1>1, <1>8 DEF Images!Put, Images!Url
  <2>2. PICK y \in Dash : Moves(t, y) /\ TabStored(t, y)
    BY <1>1, <1>8, <2>3, PutMoves DEF Images!Put, TabStored
  <2> QED
    BY <2>1, <2>2 DEF TabStep
<1>9. ASSUME Images!PutFails(t) PROVE Faulty /\ \E y \in Dash : Moves(t, y) /\ TabStep(t, y)
  <2>1. Faulty
    BY <1>9, FaultCounts DEF Images!PutFails
  <2>2. PICK y \in Dash : Moves(t, y) /\ TabReturned(t, y)
    BY ZenonT(60), <1>1, <1>9, Slides DEF Images!PutFails, TabReturned, Images!Stage, Images!Gone, Images!NoImage, Images!Fault, Slid, Idled
  <2> QED
    BY <2>1, <2>2 DEF TabStep
<1>10. ASSUME Images!Record(t) PROVE Faulty /\ \E y \in Dash : Moves(t, y) /\ TabStep(t, y)
  <2>1. Faulty
    BY <1>10, FaultCounts DEF Images!Record
  <2>2. PICK y \in Dash : Moves(t, y) /\ TabRecorded(t, y)
    BY ZenonT(60), <1>1, <1>10, Slides DEF Images!Record, TabRecorded, Images!Stage, Images!Gone, Images!NoImage, Images!Fault, Slid, Idled
  <2> QED
    BY <2>1, <2>2 DEF TabStep
<1>11. ASSUME Images!RecordFails(t) PROVE Faulty /\ \E y \in Dash : Moves(t, y) /\ TabStep(t, y)
  <2>1. Faulty
    BY <1>11, FaultCounts DEF Images!RecordFails
  <2>2. PICK y \in Dash : Moves(t, y) /\ TabUnrecorded(t, y)
    BY ZenonT(60), <1>1, <1>11, Slides DEF Images!RecordFails, TabUnrecorded, Images!Stage, Images!Gone, Images!NoImage, Images!Fault, Slid, Idled
  <2> QED
    BY <2>1, <2>2 DEF TabStep
<1>12. ASSUME Images!Add(t) PROVE Faulty /\ \E y \in Dash : Moves(t, y) /\ TabStep(t, y)
  <2>1. Faulty
    BY <1>12, FaultCounts DEF Images!Add
  <2>2. PICK y \in Dash : Moves(t, y) /\ TabCounted(t, y)
    BY ZenonT(60), <1>1, <1>12, Slides DEF Images!Add, TabCounted, Images!Stage, Images!Gone, Images!NoImage, Images!Fault, Slid, Idled
  <2> QED
    BY <2>1, <2>2 DEF TabStep
<1>13. ASSUME Images!AddFails(t) PROVE Faulty /\ \E y \in Dash : Moves(t, y) /\ TabStep(t, y)
  <2>1. Faulty
    BY <1>13, FaultCounts DEF Images!AddFails
  <2>2. PICK y \in Dash : Moves(t, y) /\ TabUnrecorded(t, y)
    BY ZenonT(60), <1>1, <1>13, Slides DEF Images!AddFails, TabUnrecorded, Images!Stage, Images!Gone, Images!NoImage, Images!Fault, Slid, Idled
  <2> QED
    BY <2>1, <2>2 DEF TabStep
<1>14. ASSUME Images!Create(t) PROVE Faulty /\ \E y \in Dash : Moves(t, y) /\ TabStep(t, y)
  <2>1. Faulty
    BY <1>14, FaultCounts DEF Images!Create
  <2>2. PICK y \in Dash : Moves(t, y) /\ TabCreated(t, y)
    BY ZenonT(60), <1>1, <1>14, Slides DEF Images!Create, TabCreated, Images!Stage, Images!Gone, Images!NoImage, Images!Fault, Slid, Idled
  <2> QED
    BY <2>1, <2>2 DEF TabStep
<1>15. ASSUME Images!Refuse(t) PROVE Faulty /\ \E y \in Dash : Moves(t, y) /\ TabStep(t, y)
  <2>1. Faulty
    BY <1>15, FaultCounts DEF Images!Refuse
  <2>2. PICK y \in Dash : Moves(t, y) /\ TabReturned(t, y)
    BY ZenonT(60), <1>1, <1>15, Slides DEF Images!Refuse, TabReturned, Images!Stage, Images!Gone, Images!NoImage, Images!Fault, Slid, Idled
  <2> QED
    BY <2>1, <2>2 DEF TabStep
<1>16. ASSUME Images!ReadCard(t) PROVE Faulty /\ \E y \in Dash : Moves(t, y) /\ TabStep(t, y)
  <2>1. Faulty
    BY <1>16, FaultCounts DEF Images!ReadCard
  <2>3. dash[t].on \in Card
    BY <1>1, <1>16 DEF Images!ReadCard, Working
  <2>2. PICK y \in Dash : Moves(t, y) /\ TabRead(t, y)
    BY <1>1, <1>16, <2>3, ReadMoves DEF Images!ReadCard, TabRead, Images!Gone
  <2> QED
    BY <2>1, <2>2 DEF TabStep
<1>17. ASSUME Images!SaveFails(t) PROVE Faulty /\ \E y \in Dash : Moves(t, y) /\ TabStep(t, y)
  <2>1. Faulty
    BY <1>17, FaultCounts DEF Images!SaveFails
  <2>2. PICK y \in Dash : Moves(t, y) /\ TabReturned(t, y)
    BY ZenonT(60), <1>1, <1>17, Slides DEF Images!SaveFails, TabReturned, Images!Stage, Images!Gone, Images!NoImage, Images!Fault, Slid, Idled
  <2> QED
    BY <2>1, <2>2 DEF TabStep
<1>18. ASSUME Images!Update(t) PROVE Faulty /\ \E y \in Dash : Moves(t, y) /\ TabStep(t, y)
  <2>1. Faulty
    BY <1>18, FaultCounts DEF Images!Update
  <2>2. \E y \in Dash : Moves(t, y) /\ (TabMissed(t, y) \/ TabSaved(t, y))
    BY ZenonT(60), <1>1, <1>18, Slides DEF Images!Update, Images!Replaces, TabMissed, TabSaved, Images!Stage, Images!Gone, Images!NoImage, Images!Fault, Slid, Idled
  <2> QED
    BY <2>1, <2>2 DEF TabStep
<1>19. ASSUME Images!Drop(t) PROVE Faulty /\ \E y \in Dash : Moves(t, y) /\ TabStep(t, y)
  <2>1. Faulty
    BY <1>19, FaultCounts DEF Images!Drop
  <2>2. PICK y \in Dash : Moves(t, y) /\ TabDropped(t, y)
    BY ZenonT(60), <1>1, <1>19, Slides DEF Images!Drop, TabDropped, Images!Stage, Images!Gone, Images!NoImage, Images!Fault, Slid, Idled
  <2> QED
    BY <2>1, <2>2 DEF TabStep
<1>20. ASSUME Images!DropFails(t) PROVE Faulty /\ \E y \in Dash : Moves(t, y) /\ TabStep(t, y)
  <2>1. Faulty
    BY <1>20, FaultCounts DEF Images!DropFails
  <2>2. PICK y \in Dash : Moves(t, y) /\ TabBroke(t, y)
    BY ZenonT(60), <1>1, <1>20, Slides DEF Images!DropFails, TabBroke, Images!Stage, Images!Gone, Images!NoImage, Images!Fault, Slid, Idled
  <2> QED
    BY <2>1, <2>2 DEF TabStep
<1>21. ASSUME Images!Select(t) PROVE Faulty /\ \E y \in Dash : Moves(t, y) /\ TabStep(t, y)
  <2>1. Faulty
    BY <1>21, FaultCounts DEF Images!Select
  <2>2. PICK y \in Dash : Moves(t, y) /\ TabSelected(t, y)
    BY ZenonT(60), <1>1, <1>21, Slides DEF Images!Select, TabSelected, Images!Stage, Images!Gone, Images!NoImage, Images!Fault, Slid, Idled
  <2> QED
    BY <2>1, <2>2 DEF TabStep
<1>22. ASSUME Images!Remove(t) PROVE Faulty /\ \E y \in Dash : Moves(t, y) /\ TabStep(t, y)
  <2>1. Faulty
    BY <1>22, FaultCounts DEF Images!Remove
  <2>2. PICK y \in Dash : Moves(t, y) /\ TabRemoved(t, y)
    BY ZenonT(60), <1>1, <1>22, Slides DEF Images!Remove, TabRemoved, Images!Stage, Images!Gone, Images!NoImage, Images!Fault, Slid, Idled
  <2> QED
    BY <2>1, <2>2 DEF TabStep
<1>23. ASSUME Images!RemoveFails(t) PROVE Faulty /\ \E y \in Dash : Moves(t, y) /\ TabStep(t, y)
  <2>1. Faulty
    BY <1>23, FaultCounts DEF Images!RemoveFails
  <2>2. PICK y \in Dash : Moves(t, y) /\ TabUnremoved(t, y)
    BY ZenonT(60), <1>1, <1>23, Slides DEF Images!RemoveFails, TabUnremoved, Images!Stage, Images!Gone, Images!NoImage, Images!Fault, Slid, Idled
  <2> QED
    BY <2>1, <2>2 DEF TabStep
<1>24. ASSUME Images!Subtract(t) PROVE Faulty /\ \E y \in Dash : Moves(t, y) /\ TabStep(t, y)
  <2>1. Faulty
    BY <1>24, FaultCounts DEF Images!Subtract
  <2>3. \A at \in Images!Stage : Images!Goto(t, at) => \E y \in Dash : Slid(t, at, y)
    BY Slides
  <2>4. dash' = [dash EXCEPT ![t] = Images!Idle] => \E y \in Dash : Idled(t, y)
    BY Slides
  <2>5. PICK y \in Dash : Slid(t, "erase", y)
    BY <1>24, <2>3 DEF Images!Subtract, Images!Stage
  <2>6. count' \in Nat /\ count' = (IF count = 0 THEN 0 ELSE count - 1)
    BY <1>1, <1>24 DEF Images!Subtract
  <2>2. Moves(t, y) /\ TabSubtracted(t, y)
    BY <1>24, <2>5, <2>6 DEF Images!Subtract, TabSubtracted, Slid
  <2> QED
    BY <2>1, <2>2 DEF TabStep
<1>25. ASSUME Images!SubtractFails(t) PROVE Faulty /\ \E y \in Dash : Moves(t, y) /\ TabStep(t, y)
  <2>1. Faulty
    BY <1>25, FaultCounts DEF Images!SubtractFails
  <2>2. PICK y \in Dash : Moves(t, y) /\ TabUnremoved(t, y)
    BY <1>1, <1>25, Slides DEF Images!SubtractFails, TabUnremoved, Images!Stage, Images!Gone, Images!NoImage, Images!Fault, Slid, Idled
  <2> QED
    BY <2>1, <2>2 DEF TabStep
<1>26. ASSUME Images!Erase(t) PROVE Faulty /\ \E y \in Dash : Moves(t, y) /\ TabStep(t, y)
  <2>1. Faulty
    BY <1>26, FaultCounts DEF Images!Erase
  <2>2. PICK y \in Dash : Moves(t, y) /\ TabErased(t, y)
    BY ZenonT(60), <1>1, <1>26, Slides DEF Images!Erase, Images!Erased, TabErased, Images!Stage, Images!Gone, Images!NoImage, Images!Fault, Slid, Idled
  <2> QED
    BY <2>1, <2>2 DEF TabStep
<1>27. ASSUME Images!EraseFails(t) PROVE Faulty /\ \E y \in Dash : Moves(t, y) /\ TabStep(t, y)
  <2>1. Faulty
    BY <1>27, FaultCounts DEF Images!EraseFails
  <2>2. PICK y \in Dash : Moves(t, y) /\ TabErased(t, y)
    BY ZenonT(60), <1>1, <1>27, Slides DEF Images!EraseFails, Images!Erased, TabErased, Images!Stage, Images!Gone, Images!NoImage, Images!Fault, Slid, Idled
  <2> QED
    BY <2>1, <2>2 DEF TabStep
<1>28. ASSUME Images!Die(t) PROVE Faulty /\ \E y \in Dash : Moves(t, y) /\ TabStep(t, y)
  <2>1. Faulty
    BY <1>28, FaultCounts DEF Images!Die
  <2>3. \A at \in Images!Stage : Images!Goto(t, at) => \E y \in Dash : Slid(t, at, y)
    BY Slides
  <2>4. dash' = [dash EXCEPT ![t] = Images!Idle] => \E y \in Dash : Idled(t, y)
    BY Slides
  <2>5. PICK y \in Dash : Idled(t, y)
    BY <1>28, <2>4 DEF Images!Die
  <2>6. \/ halved' = halved \cup {dash[t].on}
        \/ ~dash[t].deletes /\ halved' = halved
    BY ONLY <1>28, Zenon DEF Images!Die
  <2>7. /\ dash[t].at \notin {"idle", "form"} /\ broken' = broken + 1
        /\ UNCHANGED <<object, files, count, card, spent>>
    BY <1>28 DEF Images!Die, Images!Fault
  <2>2. Moves(t, y) /\ TabBroke(t, y)
    BY <2>5, <2>6, <2>7 DEF TabBroke, Idled
  <2> QED
    BY <2>1, <2>2 DEF TabStep
<1> QED
  BY <1>2, <1>3, <1>4, <1>5, <1>6, <1>7, <1>8, <1>9, <1>10, <1>11, <1>12,
     <1>13, <1>14, <1>15, <1>16, <1>17, <1>18, <1>19, <1>20, <1>21, <1>22,
     <1>23, <1>24, <1>25, <1>26, <1>27, <1>28

LEMMA NextSteps ==
    ASSUME ImageBounds, Filed, Images!Next
    PROVE  Faulty /\ \E t \in Tab : \E y \in Dash : Moves(t, y) /\ TabStep(t, y)
BY TabSteps DEF Images!Next

LEMMA FiledSteps ==
    ASSUME ImageBounds, Filed, Faulty, NEW t \in Tab, NEW y \in Dash, Moves(t, y), TabStep(t, y)
    PROVE  Filed'
<1> DEFINE Rest == /\ object' \subseteq Images!Url /\ files' \subseteq Images!Url /\ count' \in Nat
                   /\ card' \in [Card -> Images!Url \cup {0, -1}] /\ halved' \subseteq Card
                   /\ spent' \in 0..MaxUploads /\ Working(y)
<1>1. PICK x \in Dash : x = dash[t]
  BY DEF Filed
<1>2. /\ object \subseteq Images!Url /\ files \subseteq Images!Url /\ count \in Nat
      /\ card \in [Card -> Images!Url \cup {0, -1}] /\ halved \subseteq Card
      /\ spent \in 0..MaxUploads /\ MaxUploads \in Nat /\ Working(x)
  BY <1>1 DEF Filed, ImageBounds
<1>3. ASSUME NEW c \in Card, TabOpened(t, y, c) PROVE Rest
  BY <1>1, <1>2, <1>3 DEF TabOpened, Slid, Idled, Working, Dash
<1>4. ASSUME NEW c \in Card, TabChosen(t, y, c) PROVE Rest
  BY <1>1, <1>2, <1>4 DEF TabChosen, Slid, Idled, Working, Dash
<1>5. ASSUME TabCleared(t, y) PROVE Rest
  BY <1>1, <1>2, <1>5 DEF TabCleared, Slid, Idled, Working, Dash
<1>6. ASSUME TabCancelled(t, y) PROVE Rest
  BY <1>1, <1>2, <1>6 DEF TabCancelled, Slid, Idled, Working, Dash
<1>7. ASSUME TabKept(t, y) PROVE Rest
  BY <1>1, <1>2, <1>7 DEF TabKept, Slid, Idled, Working, Dash
<1>8. ASSUME TabUploading(t, y) PROVE Rest
  BY <1>1, <1>2, <1>8 DEF TabUploading, Slid, Idled, Working, Dash
<1>9. ASSUME TabStored(t, y) PROVE Rest
  BY <1>1, <1>2, <1>9 DEF TabStored, Slid, Idled, Working, Dash, Images!Url
<1>10. ASSUME TabReturned(t, y) PROVE Rest
  BY <1>1, <1>2, <1>10 DEF TabReturned, Slid, Idled, Working, Dash
<1>11. ASSUME TabRecorded(t, y) PROVE Rest
  BY <1>1, <1>2, <1>11 DEF TabRecorded, Slid, Idled, Working, Dash
<1>12. ASSUME TabUnrecorded(t, y) PROVE Rest
  BY <1>1, <1>2, <1>12 DEF TabUnrecorded, Slid, Idled, Working, Dash
<1>13. ASSUME TabCounted(t, y) PROVE Rest
  BY <1>1, <1>2, <1>13 DEF TabCounted, Slid, Idled, Working, Dash
<1>14. ASSUME TabCreated(t, y) PROVE Rest
  BY <1>1, <1>2, <1>14 DEF TabCreated, Slid, Idled, Working, Dash
<1>15. ASSUME TabRead(t, y) PROVE Rest
  BY <1>1, <1>2, <1>15 DEF TabRead, Slid, Idled, Working, Dash
<1>16. ASSUME TabMissed(t, y) PROVE Rest
  BY <1>1, <1>2, <1>16 DEF TabMissed, Slid, Idled, Working, Dash
<1>17. ASSUME TabSaved(t, y) PROVE Rest
  BY <1>1, <1>2, <1>17 DEF TabSaved, Slid, Idled, Working, Dash
<1>18. ASSUME TabDropped(t, y) PROVE Rest
  BY <1>1, <1>2, <1>18 DEF TabDropped, Slid, Idled, Working, Dash
<1>19. ASSUME TabBroke(t, y) PROVE Rest
  BY <1>1, <1>2, <1>19 DEF TabBroke, Slid, Idled, Working, Dash
<1>20. ASSUME TabSelected(t, y) PROVE Rest
  BY <1>1, <1>2, <1>20 DEF TabSelected, Slid, Idled, Working, Dash
<1>21. ASSUME TabRemoved(t, y) PROVE Rest
  BY <1>1, <1>2, <1>21 DEF TabRemoved, Slid, Idled, Working, Dash
<1>22. ASSUME TabUnremoved(t, y) PROVE Rest
  BY <1>1, <1>2, <1>22 DEF TabUnremoved, Slid, Idled, Working, Dash
<1>23. ASSUME TabSubtracted(t, y) PROVE Rest
  BY <1>1, <1>2, <1>23 DEF TabSubtracted, Slid, Idled, Working, Dash
<1>24. ASSUME TabErased(t, y) PROVE Rest
  BY <1>1, <1>2, <1>24 DEF TabErased, Slid, Idled, Working, Dash
<1>25. Rest
  BY <1>3, <1>4, <1>5, <1>6, <1>7, <1>8, <1>9, <1>10, <1>11, <1>12, <1>13,
     <1>14, <1>15, <1>16, <1>17, <1>18, <1>19, <1>20, <1>21, <1>22, <1>23,
     <1>24 DEF TabStep
<1> QED
  <2>1. Rest
    BY <1>25
  <2>2. dash' \in [Tab -> Dash] /\ \A s \in Tab : Working(dash'[s])
    BY <2>1, MoveWorks
  <2> QED
    BY <2>1, <2>2 DEF Filed, Faulty

LEMMA FiledNext ==
    ASSUME ImageBounds, Filed, [Images!Next]_(Images!vars) PROVE Filed'
<1>1. CASE Images!Next
  BY <1>1, NextSteps, FiledSteps
<1>2. CASE UNCHANGED Images!vars
  BY <1>2 DEF Filed, Images!vars
<1> QED
  BY <1>1, <1>2

LEMMA FiledInit == ASSUME ImageBounds, Images!Init PROVE Filed
<1>1. PICK i : i = Images!Idle
  OBVIOUS
<1>2. i \in Dash /\ i.at = "idle"
  BY <1>1 DEF Dash, Images!Idle, Images!NoImage, Images!Stage
<1> QED
  BY <1>1, <1>2 DEF Filed, Working, Images!Init, Images!Gone, ImageBounds

-----------------------------------------------------------------------------
(* Table and bucket.  The urls somebody may still write: those the cards   *)
(* show and those the dashboards hold, but for a file being recorded, whose*)
(* url nobody else has.                                                    *)
Names(x, v) == v = x.url \/ v = x.old \/ (v = x.final /\ x.at # "record")
Known(v) ==
  \/ v \in {0, -1} \/ \E c \in Card : card[c] = v
  \/ \E s \in Tab : Names(dash[s], v)

(* The object of a row being removed or just stored is the only one that   *)
(* has no row.                                                             *)
Removing(x) == x.at \in {"subtract", "erase"}
Accounts(x, u) == (x.at = "record" /\ x.final = u) \/ (Removing(x) /\ x.old = u)

Paired ==
  /\ files \subseteq object
  /\ \A v \in Images!Url : Known(v) => v <= spent
  /\ \A u \in object : u <= spent
  /\ \A s \in Tab : dash[s].at = "record" =>
       /\ dash[s].final \in object \ files /\ ~Known(dash[s].final)
       /\ \A r \in Tab \ {s} : dash[r].at = "record" => dash[r].final # dash[s].final
  /\ \A s \in Tab : Removing(dash[s]) => dash[s].old \notin files
  /\ \A u \in object \ files : \E s \in Tab : Accounts(dash[s], u)

LEMMA KnownMoves ==
    ASSUME NEW t \in Tab, NEW y, NEW n, Moves(t, y),
           \A c \in Card : Known(card'[c]) \/ card'[c] = n,
           \A v : Names(y, v) => Known(v) \/ v = n
    PROVE  \A v : Known(v)' => Known(v) \/ v = n
<1> SUFFICES ASSUME NEW v, Known(v)' PROVE Known(v) \/ v = n
  OBVIOUS
<1>1. CASE \E c \in Card : card'[c] = v
  BY <1>1
<1>2. CASE \E s \in Tab : Names(dash'[s], v)
  <2>1. PICK s \in Tab : Names(dash'[s], v)
    BY <1>2
  <2>2. CASE s = t
    BY <2>1, <2>2 DEF Moves
  <2>3. CASE s # t
    <3>1. dash'[s] = dash[s]
      BY <2>3 DEF Moves
    <3> QED
      BY <2>1, <3>1 DEF Known
  <2> QED
    BY <2>2, <2>3
<1>3. CASE v \in {0, -1}
  BY <1>3 DEF Known
<1> QED
  BY <1>1, <1>2, <1>3 DEF Known, Names

(* What a dashboard or a card has is known.                                *)
LEMMA KnownHere ==
    ASSUME NEW t \in Tab
    PROVE  /\ \A v : Names(dash[t], v) => Known(v)
           /\ \A c \in Card : Known(card[c])
           /\ Known(0) /\ Known(-1)
BY DEF Known

(* A step that leaves table and bucket alone.                              *)
LEMMA CalmSteps ==
    ASSUME Paired, NEW t \in Tab, NEW y, Moves(t, y),
           UNCHANGED <<object, files, spent>>,
           \A v : Known(v)' => Known(v),
           dash[t].at # "record", y.at # "record",
           Removing(y) => y.old \notin files,
           Removing(dash[t]) => Removing(y) /\ y.old = dash[t].old
    PROVE  Paired'
<1>1. dash'[t] = y /\ \A s \in Tab \ {t} : dash'[s] = dash[s]
  BY DEF Moves
<1>2. /\ files' \subseteq object' /\ \A u \in object' : u <= spent'
      /\ \A v \in Images!Url : Known(v)' => v <= spent'
  BY DEF Paired
<1>3. \A s \in Tab : dash'[s].at = "record" =>
       /\ dash'[s].final \in object' \ files' /\ ~Known(dash[s].final)'
       /\ \A r \in Tab \ {s} : dash'[r].at = "record" => dash'[r].final # dash'[s].final
  <2> SUFFICES ASSUME NEW s \in Tab, dash'[s].at = "record"
               PROVE  /\ dash'[s].final \in object' \ files' /\ ~Known(dash[s].final)'
                      /\ \A r \in Tab \ {s} : dash'[r].at = "record" => dash'[r].final # dash'[s].final
    OBVIOUS
  <2>1. s # t /\ dash'[s] = dash[s]
    BY <1>1
  <2>2. PICK u : u = dash[s].final
    OBVIOUS
  <2>3. u \in object \ files /\ ~Known(u)
    BY <2>1, <2>2 DEF Paired
  <2>4. ~Known(u)'
    BY <2>3
  <2>5. \A r \in Tab \ {s} : dash'[r].at = "record" => dash'[r].final # u
    BY <1>1, <2>1, <2>2 DEF Paired
  <2> QED
    BY <2>1, <2>2, <2>3, <2>4, <2>5
<1>4. \A s \in Tab : Removing(dash'[s]) => dash'[s].old \notin files'
  BY <1>1 DEF Paired
<1>5. \A u \in object' \ files' : \E s \in Tab : Accounts(dash'[s], u)
  <2> SUFFICES ASSUME NEW u \in object \ files PROVE \E s \in Tab : Accounts(dash'[s], u)
    OBVIOUS
  <2>1. PICK s \in Tab : Accounts(dash[s], u)
    BY DEF Paired
  <2>2. CASE s = t
    BY <1>1, <2>1, <2>2 DEF Accounts
  <2>3. CASE s # t
    BY <1>1, <2>1, <2>3
  <2> QED
    BY <2>2, <2>3
<1> QED
  BY <1>2, <1>3, <1>4, <1>5 DEF Paired

(* Most steps leave table and bucket alone.                                *)
LEMMA PairedCalm ==
    ASSUME Filed, Paired, NEW t \in Tab, NEW y \in Dash, Moves(t, y), broken' = broken,
           \/ \E c \in Card : TabOpened(t, y, c) \/ TabChosen(t, y, c)
           \/ TabCleared(t, y) \/ TabCancelled(t, y) \/ TabKept(t, y)
           \/ TabUploading(t, y) \/ TabReturned(t, y) \/ TabCounted(t, y)
           \/ TabCreated(t, y) \/ TabRead(t, y) \/ TabMissed(t, y)
           \/ TabSaved(t, y) \/ TabDropped(t, y) \/ TabSelected(t, y)
           \/ TabSubtracted(t, y)
    PROVE  Paired'
<1> DEFINE Calm == /\ UNCHANGED <<object, files, spent>>
                   /\ \A c \in Card : Known(card'[c])
                   /\ Known(y.url) /\ Known(y.old) /\ Known(y.final)
                   /\ dash[t].at # "record" /\ y.at # "record"
                   /\ Removing(y) => y.old \notin files
                   /\ Removing(dash[t]) => Removing(y) /\ y.old = dash[t].old
<1>1. PICK x \in Dash : x = dash[t]
  BY DEF Filed
<1>2. /\ Known(x.url) /\ Known(x.old) /\ (x.at # "record" => Known(x.final))
      /\ Known(0) /\ Known(-1) /\ \A c \in Card : Known(card[c])
  BY <1>1, KnownHere DEF Names
<1>3. /\ broken \in Nat /\ card \in [Card -> Images!Url \cup {0, -1}] /\ Working(x)
      /\ Removing(x) => x.old \notin files
  BY <1>1 DEF Filed, Paired
<1>4. ASSUME NEW c \in Card, TabOpened(t, y, c) PROVE Calm
  BY <1>1, <1>2, <1>3, <1>4 DEF TabOpened, Slid, Idled, Removing, Working
<1>5. ASSUME NEW c \in Card, TabChosen(t, y, c) PROVE Calm
  BY <1>1, <1>2, <1>3, <1>5 DEF TabChosen, Slid, Idled, Removing, Working
<1>6. ASSUME TabCleared(t, y) PROVE Calm
  BY <1>1, <1>2, <1>3, <1>6 DEF TabCleared, Slid, Idled, Removing, Working
<1>7. ASSUME TabCancelled(t, y) PROVE Calm
  BY <1>1, <1>2, <1>3, <1>7 DEF TabCancelled, Slid, Idled, Removing, Working
<1>8. ASSUME TabKept(t, y) PROVE Calm
  BY <1>1, <1>2, <1>3, <1>8 DEF TabKept, Slid, Idled, Removing, Working
<1>9. ASSUME TabUploading(t, y) PROVE Calm
  BY <1>1, <1>2, <1>3, <1>9 DEF TabUploading, Slid, Idled, Removing, Working
<1>10. ASSUME TabReturned(t, y) PROVE Calm
  BY <1>1, <1>2, <1>3, <1>10 DEF TabReturned, Slid, Idled, Removing, Working
<1>11. ASSUME TabCounted(t, y) PROVE Calm
  BY <1>1, <1>2, <1>3, <1>11 DEF TabCounted, Slid, Idled, Removing, Working
<1>12. ASSUME TabCreated(t, y) PROVE Calm
  BY <1>1, <1>2, <1>3, <1>12 DEF TabCreated, Slid, Idled, Removing, Working
<1>13. ASSUME TabRead(t, y) PROVE Calm
  BY <1>1, <1>2, <1>3, <1>13 DEF TabRead, Slid, Idled, Removing, Working
<1>14. ASSUME TabMissed(t, y) PROVE Calm
  BY <1>1, <1>2, <1>3, <1>14 DEF TabMissed, Slid, Idled, Removing, Working
<1>15. ASSUME TabSaved(t, y) PROVE Calm
  BY <1>1, <1>2, <1>3, <1>15 DEF TabSaved, Slid, Idled, Removing, Working
<1>16. ASSUME TabDropped(t, y) PROVE Calm
  BY <1>1, <1>2, <1>3, <1>16 DEF TabDropped, Slid, Idled, Removing, Working
<1>17. ASSUME TabSelected(t, y) PROVE Calm
  BY <1>1, <1>2, <1>3, <1>17 DEF TabSelected, Slid, Idled, Removing, Working
<1>18. ASSUME TabSubtracted(t, y) PROVE Calm
  BY <1>1, <1>2, <1>3, <1>18 DEF TabSubtracted, Slid, Idled, Removing, Working
<1>19. Calm
  BY <1>4, <1>5, <1>6, <1>7, <1>8, <1>9, <1>10, <1>11, <1>12, <1>13, <1>14,
     <1>15, <1>16, <1>17, <1>18
<1>20. \A v : Names(y, v) => Known(v)
  BY <1>19 DEF Names
<1>21. \A v : Known(v)' => Known(v)
  <2>1. \A v : Known(v)' => Known(v) \/ v = 0
    BY <1>19, <1>20, KnownMoves
  <2> QED
    BY <1>2, <2>1
<1> QED
  BY <1>19, <1>21, CalmSteps

(* The upload: its url is fresh.                                           *)
LEMMA PairedStored ==
    ASSUME ImageBounds, Filed, Paired, NEW t \in Tab, NEW y \in Dash, Moves(t, y), TabStored(t, y)
    PROVE  Paired'
<1>1. PICK n \in Nat : n = spent
  BY DEF Filed
<1>2. /\ dash'[t] = y /\ \A s \in Tab \ {t} : dash'[s] = dash[s]
      /\ y.at = "record" /\ y.final = n + 1 /\ y.url = dash[t].url /\ y.old = dash[t].old
      /\ dash[t].at = "put" /\ object' = object \cup {n + 1} /\ files' = files /\ card' = card
      /\ spent' = n + 1 /\ n + 1 \in Images!Url
  BY <1>1 DEF Moves, TabStored, Filed, ImageBounds, Images!Url
<1>3. \A v : Known(v)' => Known(v)
  <2>1. \A v : Names(y, v) => Known(v) \/ v = 0
    BY <1>2, KnownHere DEF Names
  <2>2. \A c \in Card : Known(card'[c]) \/ card'[c] = 0
    BY <1>2, KnownHere
  <2>3. \A v : Known(v)' => Known(v) \/ v = 0
    BY <2>1, <2>2, KnownMoves
  <2> QED
    BY <2>3, KnownHere
<1>4. /\ ~Known(n + 1) /\ n + 1 \notin object /\ n + 1 \notin files
      /\ \A v \in Images!Url : Known(v) => v <= n
      /\ \A u \in object : u <= n
  BY <1>1, <1>2 DEF Paired
<1>5. /\ files' \subseteq object'
      /\ \A v \in Images!Url : Known(v)' => v <= spent'
      /\ \A u \in object' : u <= spent'
  <2>1. \A v \in Images!Url : v <= n => v <= n + 1
    BY DEF Images!Url
  <2>2. object \subseteq Images!Url
    BY DEF Filed
  <2> QED
    BY <1>2, <1>3, <1>4, <2>1, <2>2 DEF Paired
<1>6. \A s \in Tab : dash'[s].at = "record" =>
       /\ dash'[s].final \in object' \ files' /\ ~Known(dash[s].final)'
       /\ \A r \in Tab \ {s} : dash'[r].at = "record" => dash'[r].final # dash'[s].final
  <2> SUFFICES ASSUME NEW s \in Tab, dash'[s].at = "record"
               PROVE  /\ dash'[s].final \in object' \ files' /\ ~Known(dash[s].final)'
                      /\ \A r \in Tab \ {s} : dash'[r].at = "record" => dash'[r].final # dash'[s].final
    OBVIOUS
  <2>1. PICK u : u = dash'[s].final
    OBVIOUS
  <2>2. \A r \in Tab \ {t} : dash'[r].at = "record" =>
           dash'[r].final \in object \ files /\ dash'[r].final # n + 1
    BY <1>2, <1>4 DEF Paired
  <2>3. CASE s = t
    <3>1. u = n + 1 /\ u \in object' \ files' /\ ~Known(u)'
      BY <1>2, <1>3, <1>4, <2>1, <2>3
    <3>2. \A r \in Tab \ {s} : dash'[r].at = "record" => dash'[r].final # u
      BY <2>2, <2>3, <3>1
    <3> QED
      BY <2>1, <3>1, <3>2
  <2>4. CASE s # t
    <3>1. dash[s].at = "record" /\ dash[s].final = u
      BY <1>2, <2>1, <2>4
    <3>2. u \in object' \ files' /\ ~Known(u)'
      <4>1. u \in object \ files /\ ~Known(u)
        BY <3>1 DEF Paired
      <4> QED
        BY <1>2, <1>3, <4>1
    <3>3. \A r \in Tab \ {s} : dash'[r].at = "record" => dash'[r].final # u
      <4> SUFFICES ASSUME NEW r \in Tab \ {s}, dash'[r].at = "record" PROVE dash'[r].final # u
        OBVIOUS
      <4>1. u # n + 1
        BY <2>1, <2>2, <2>4
      <4>2. CASE r = t
        BY <1>2, <4>1, <4>2
      <4>3. CASE r # t
        BY <1>2, <3>1, <4>3 DEF Paired
      <4> QED
        BY <4>2, <4>3
    <3> QED
      BY <2>1, <3>2, <3>3
  <2> QED
    BY <2>3, <2>4
<1>7. \A s \in Tab : Removing(dash'[s]) => dash'[s].old \notin files'
  BY <1>2 DEF Paired, Removing
<1>8. \A u \in object' \ files' : \E s \in Tab : Accounts(dash'[s], u)
  <2> SUFFICES ASSUME NEW u \in object' \ files' PROVE \E s \in Tab : Accounts(dash'[s], u)
    OBVIOUS
  <2>1. CASE u = n + 1
    <3>1. Accounts(dash'[t], u)
      BY <1>2, <2>1 DEF Accounts
    <3> QED
      BY <3>1
  <2>2. CASE u # n + 1
    <3>1. u \in object \ files
      BY <1>2, <2>2
    <3>2. PICK s \in Tab : Accounts(dash[s], u)
      BY <3>1 DEF Paired
    <3>3. s # t
      BY <1>2, <3>2 DEF Accounts, Removing
    <3> QED
      BY <1>2, <3>2, <3>3
  <2> QED
    BY <2>1, <2>2
<1> QED
  BY <1>5, <1>6, <1>7, <1>8 DEF Paired

(* The row of an upload: no removal is under way for its url.              *)
LEMMA PairedRecorded ==
    ASSUME Filed, Paired, NEW t \in Tab, NEW y \in Dash, Moves(t, y), TabRecorded(t, y)
    PROVE  Paired'
<1>1. PICK n : n = dash[t].final
  OBVIOUS
<1>2. /\ dash'[t] = y /\ \A s \in Tab \ {t} : dash'[s] = dash[s]
      /\ y.at = "add" /\ y.final = n /\ y.url = dash[t].url /\ y.old = dash[t].old
      /\ dash[t].at = "record" /\ object' = object /\ files' = files \cup {n} /\ card' = card
      /\ spent' = spent
  BY <1>1 DEF Moves, TabRecorded, Slid
<1>3. n \in object \ files /\ ~Known(n) /\ n <= spent
  BY <1>1, <1>2 DEF Paired
<1>4. \A v : Known(v)' => Known(v) \/ v = n
  <2>1. \A v : Names(y, v) => Known(v) \/ v = n
    BY <1>2, KnownHere DEF Names
  <2>2. \A c \in Card : Known(card'[c]) \/ card'[c] = n
    BY <1>2, KnownHere
  <2> QED
    BY <2>1, <2>2, KnownMoves
<1>5. /\ files' \subseteq object'
      /\ \A v \in Images!Url : Known(v)' => v <= spent'
      /\ \A u \in object' : u <= spent'
  BY <1>2, <1>3, <1>4 DEF Paired
<1>6. \A s \in Tab : dash'[s].at = "record" =>
       /\ dash'[s].final \in object' \ files' /\ ~Known(dash[s].final)'
       /\ \A r \in Tab \ {s} : dash'[r].at = "record" => dash'[r].final # dash'[s].final
  <2> SUFFICES ASSUME NEW s \in Tab, dash'[s].at = "record"
               PROVE  /\ dash'[s].final \in object' \ files' /\ ~Known(dash[s].final)'
                      /\ \A r \in Tab \ {s} : dash'[r].at = "record" => dash'[r].final # dash'[s].final
    OBVIOUS
  <2>1. PICK u : u = dash'[s].final
    OBVIOUS
  <2>2. s # t /\ dash[s].at = "record" /\ dash[s].final = u
    BY <1>2, <2>1
  <2>3. u # n /\ u \in object \ files /\ ~Known(u)
    BY <1>1, <1>2, <2>2 DEF Paired
  <2>4. u \in object' \ files' /\ ~Known(u)'
    BY <1>2, <1>4, <2>3
  <2>5. \A r \in Tab \ {s} : dash'[r].at = "record" => dash'[r].final # u
    BY <1>2, <2>2 DEF Paired
  <2> QED
    BY <2>1, <2>4, <2>5
<1>7. \A s \in Tab : Removing(dash'[s]) => dash'[s].old \notin files'
  <2> SUFFICES ASSUME NEW s \in Tab, Removing(dash'[s]) PROVE dash'[s].old \notin files'
    OBVIOUS
  <2>1. s # t /\ dash'[s] = dash[s]
    BY <1>2 DEF Removing
  <2>2. Known(dash[s].old) /\ dash[s].old \notin files
    BY <2>1, KnownHere DEF Names, Paired
  <2> QED
    BY <1>2, <1>3, <2>1, <2>2
<1>8. \A u \in object' \ files' : \E s \in Tab : Accounts(dash'[s], u)
  <2> SUFFICES ASSUME NEW u \in object' \ files' PROVE \E s \in Tab : Accounts(dash'[s], u)
    OBVIOUS
  <2>1. u \in object \ files /\ u # n
    BY <1>2
  <2>2. PICK s \in Tab : Accounts(dash[s], u)
    BY <2>1 DEF Paired
  <2>3. s # t
    BY <1>1, <1>2, <2>1, <2>2 DEF Accounts, Removing
  <2> QED
    BY <1>2, <2>2, <2>3
<1> QED
  BY <1>5, <1>6, <1>7, <1>8 DEF Paired

(* A removal takes the row first, and the object when no row is left.      *)
LEMMA PairedRemoved ==
    ASSUME Filed, Paired, broken' = broken, NEW t \in Tab, NEW y \in Dash, Moves(t, y),
           TabRemoved(t, y) \/ TabErased(t, y)
    PROVE  Paired'
<1>1. PICK x \in Dash : x = dash[t]
  BY DEF Filed
<1>2. /\ dash'[t] = y /\ \A s \in Tab \ {t} : dash'[s] = dash[s]
      /\ x.at \in {"remove", "erase"} /\ y.at # "record" /\ card' = card /\ spent' = spent
      /\ Known(y.url) /\ Known(y.old) /\ Known(y.final)
  <2>1. /\ Known(x.url) /\ Known(x.old) /\ Known(0) /\ (x.at # "record" => Known(x.final))
    BY <1>1, KnownHere DEF Names
  <2>2. CASE TabRemoved(t, y)
    BY <1>1, <2>1, <2>2 DEF Moves, TabRemoved, Slid
  <2>3. CASE TabErased(t, y)
    <3>1. x.at = "erase" /\ card' = card /\ spent' = spent
      BY <1>1, <2>3 DEF TabErased
    <3>2. Slid(t, "drop", y) \/ Idled(t, y)
      BY <2>3 DEF TabErased
    <3> QED
      BY <1>1, <2>1, <3>1, <3>2 DEF Moves, Slid, Idled
  <2> QED
    BY <2>2, <2>3
<1>3. \/ x.at = "remove" /\ object' = object /\ files' = files \ {x.old} /\ y.at = "subtract" /\ y.old = x.old
      \/ x.at = "erase" /\ object' = object \ {x.old} /\ files' = files /\ y.at \notin {"subtract", "erase"}
  <2>1. CASE TabRemoved(t, y)
    BY <1>1, <2>1 DEF TabRemoved, Slid
  <2>2. CASE TabErased(t, y)
    <3>1. x.at = "erase" /\ files' = files /\ object' = object \ {x.old}
      BY <1>1, <2>2 DEF TabErased, Filed
    <3>2. y.at \notin {"subtract", "erase"}
      BY <2>2 DEF TabErased, Slid, Idled
    <3> QED
      BY <3>1, <3>2
  <2> QED
    BY <2>1, <2>2
<1>4. \A v : Known(v)' => Known(v)
  <2>1. \A v : Names(y, v) => Known(v) \/ v = 0
    BY <1>2 DEF Names
  <2>2. \A c \in Card : Known(card'[c]) \/ card'[c] = 0
    BY <1>2, KnownHere
  <2>3. \A v : Known(v)' => Known(v) \/ v = 0
    BY <2>1, <2>2, KnownMoves
  <2> QED
    BY <2>3, KnownHere
<1>5. Known(x.old) /\ (x.at = "erase" => x.old \notin files)
  BY <1>1, KnownHere DEF Names, Paired, Removing
<1>6. /\ files' \subseteq object'
      /\ \A v \in Images!Url : Known(v)' => v <= spent'
      /\ \A u \in object' : u <= spent'
  BY <1>2, <1>3, <1>4, <1>5 DEF Paired
<1>7. \A s \in Tab : dash'[s].at = "record" =>
       /\ dash'[s].final \in object' \ files' /\ ~Known(dash[s].final)'
       /\ \A r \in Tab \ {s} : dash'[r].at = "record" => dash'[r].final # dash'[s].final
  <2> SUFFICES ASSUME NEW s \in Tab, dash'[s].at = "record"
               PROVE  /\ dash'[s].final \in object' \ files' /\ ~Known(dash[s].final)'
                      /\ \A r \in Tab \ {s} : dash'[r].at = "record" => dash'[r].final # dash'[s].final
    OBVIOUS
  <2>1. PICK u : u = dash'[s].final
    OBVIOUS
  <2>2. s # t /\ dash[s].at = "record" /\ dash[s].final = u
    BY <1>2, <2>1
  <2>3. u \in object \ files /\ ~Known(u)
    BY <2>2 DEF Paired
  <2>4. u \in object' \ files' /\ ~Known(u)'
    BY <1>3, <1>4, <1>5, <2>3
  <2>5. \A r \in Tab \ {s} : dash'[r].at = "record" => dash'[r].final # u
    BY <1>2, <2>2 DEF Paired
  <2> QED
    BY <2>1, <2>4, <2>5
<1>8. \A s \in Tab : Removing(dash'[s]) => dash'[s].old \notin files'
  BY <1>1, <1>2, <1>3 DEF Paired, Removing
<1>9. \A u \in object' \ files' : \E s \in Tab : Accounts(dash'[s], u)
  <2> SUFFICES ASSUME NEW u \in object' \ files' PROVE \E s \in Tab : Accounts(dash'[s], u)
    OBVIOUS
  <2>1. CASE u \in files
    <3>1. Accounts(dash'[t], u)
      BY <1>2, <1>3, <2>1 DEF Accounts, Removing
    <3> QED
      BY <3>1
  <2>2. CASE u \notin files
    <3>1. u \in object
      BY <1>3
    <3>2. PICK s \in Tab : Accounts(dash[s], u)
      BY <2>2, <3>1 DEF Paired
    <3>3. s # t
      BY <1>1, <1>2, <1>3, <3>2 DEF Accounts, Removing
    <3> QED
      BY <1>2, <3>2, <3>3
  <2> QED
    BY <2>1, <2>2
<1> QED
  BY <1>6, <1>7, <1>8, <1>9 DEF Paired

LEMMA PairedInit == ASSUME ImageBounds, Images!Init PROVE Paired
<1>1. PICK i : i = Images!Idle
  OBVIOUS
<1>2. i.at = "idle" /\ i.url = 0 /\ i.old = 0 /\ i.final = 0
  BY <1>1 DEF Images!Idle, Images!NoImage
<1>3. /\ object = {} /\ files = {} /\ spent = 0
      /\ \A t \in Tab : dash[t] = i
      /\ \A c \in Card : card[c] = -1
  BY <1>1 DEF Images!Init, Images!Gone
<1>4. \A v : Known(v) => v \in {0, -1}
  <2> SUFFICES ASSUME NEW v, Known(v) PROVE v \in {0, -1}
    OBVIOUS
  <2>1. ASSUME NEW s \in Tab, Names(dash[s], v) PROVE v = 0
    BY <1>2, <1>3, <2>1 DEF Names
  <2>2. ASSUME NEW c \in Card, card[c] = v PROVE v = -1
    BY <1>3, <2>2
  <2> QED
    BY <2>1, <2>2 DEF Known
<1> QED
  BY <1>2, <1>3, <1>4 DEF Paired, Removing, Images!Url

LEMMA PairedNext ==
    ASSUME ImageBounds, Filed, broken = 0 => Paired, [Images!Next]_(Images!vars)
    PROVE  (broken = 0 => Paired)'
<1> SUFFICES ASSUME broken' = 0 PROVE Paired'
  OBVIOUS
<1>1. CASE Images!Next
  <2>1. Faulty /\ \E t \in Tab : \E y \in Dash : Moves(t, y) /\ TabStep(t, y)
    BY <1>1, NextSteps
  <2>2. PICK t \in Tab : \E y \in Dash : Moves(t, y) /\ TabStep(t, y)
    BY <2>1
  <2>3. PICK y \in Dash : Moves(t, y) /\ TabStep(t, y)
    BY <2>2
  <2>4. broken = 0 /\ broken' = broken /\ Paired
    BY <2>1 DEF Faulty, Filed
  <2>5. ~TabUnrecorded(t, y) /\ ~TabBroke(t, y) /\ ~TabUnremoved(t, y)
    BY <2>4 DEF TabUnrecorded, TabBroke, TabUnremoved
  <2> QED
    BY <2>3, <2>4, <2>5, PairedCalm, PairedStored, PairedRecorded, PairedRemoved DEF TabStep
<1>2. CASE UNCHANGED Images!vars
  <2>1. UNCHANGED <<object, files, card, dash, spent, broken>>
    BY <1>2 DEF Images!vars
  <2> QED
    BY <2>1 DEF Paired, Known, Names, Removing, Accounts
<1> QED
  BY <1>1, <1>2

LEMMA ImagesFiled == ASSUME ImageBounds PROVE Images!Spec => []Filed
<1>1. ImageBounds /\ Images!Init => Filed
  BY FiledInit
<1>2. ImageBounds /\ Filed /\ [Images!Next]_(Images!vars) => Filed'
  BY FiledNext
<1> QED
  BY <1>1, <1>2, PTL DEF Images!Spec

(* Table and bucket agree while nothing fails, whatever any number of      *)
(* dashboards do at the same time (POST /api/upload, removeBlobFile,       *)
(* deleteOwnedStorageImage).                                               *)
THEOREM FilesFollowBucket ==
    ASSUME ImageBounds PROVE Images!Spec => []Images!TableFollowsBucket
<1>1. ImageBounds /\ Images!Init => (broken = 0 => Paired)
  BY PairedInit
<1>2. /\ ImageBounds /\ Filed /\ (broken = 0 => Paired) /\ [Images!Next]_(Images!vars)
      => (broken = 0 => Paired)'
  BY PairedNext
<1>3. Filed /\ (broken = 0 => Paired) => Images!TableFollowsBucket
  <2> SUFFICES ASSUME Paired, \A t \in Tab : dash[t].at \in {"idle", "form"} PROVE object = files
    BY DEF Paired, Images!TableFollowsBucket, Images!Quiet
  <2>1. \A t \in Tab : \A u : ~Accounts(dash[t], u)
    BY DEF Accounts, Removing
  <2> QED
    BY <2>1 DEF Paired
<1> QED
  BY <1>1, <1>2, <1>3, ImagesFiled, PTL DEF Images!Spec

-----------------------------------------------------------------------------
(* One dashboard.  A file just stored is nobody's; what is to be removed is*)
(* nobody's either, unless its card is to go as well; a card with no image *)
(* is being deleted, or its deletion broke off.                            *)
Fresh(u, O, C) == u \in O /\ \A c \in Card : C[c] # u
Discards(x) == x.at \in {"select", "remove", "subtract", "erase"}
Edits(x) == x.at \in {"form", "put", "record", "add", "send", "update"}

Linked(x, O, C, H, n) ==
  /\ \A b, c \in Card : C[b] = C[c] /\ C[b] \notin {0, -1} => b = c
  /\ (\A c \in Card : C[c] <= n) /\ x.url <= n /\ x.final <= n
  /\ Edits(x) => ~x.deletes /\ x.url \in {0, C[x.on]}
  /\ x.at \in {"record", "add"} => Fresh(x.final, O, C)
  /\ x.at \in {"send", "update"} => x.final \in {0, C[x.on]} \/ Fresh(x.final, O, C)
  /\ x.at = "update" => x.old = C[x.on]
  /\ Discards(x) => /\ x.old \notin {0, -1}
                    /\ x.deletes => x.old = C[x.on]
                    /\ ~x.deletes => \A c \in Card : C[c] # x.old
  /\ x.at = "drop" => x.deletes
  /\ \A c \in Card \ H : C[c] \in O \cup {0, -1} \/ (x.at = "drop" /\ x.on = c)

LEMMA LinkedSteps ==
    ASSUME ImageBounds, Filed, NEW t \in Tab, NEW y \in Dash, TabStep(t, y),
           Linked(dash[t], object, card, halved, spent)
    PROVE  Linked(y, object', card', halved', spent')
<1> DEFINE Goal == Linked(y, object', card', halved', spent')
<1>1. PICK x \in Dash : x = dash[t]
  BY DEF Filed
<1>2. /\ object \subseteq Images!Url /\ card \in [Card -> Images!Url \cup {0, -1}]
      /\ spent \in Nat /\ Working(x)
  BY <1>1 DEF Filed
<1>3. Linked(x, object, card, halved, spent)
  BY <1>1
<1>4. ASSUME NEW c \in Card, TabOpened(t, y, c) PROVE Goal
  BY <1>1, <1>2, <1>3, <1>4 DEF TabOpened, Slid, Idled, Working, Linked, Fresh, Discards, Edits, Images!Url, Dash
<1>5. ASSUME NEW c \in Card, TabChosen(t, y, c) PROVE Goal
  BY <1>1, <1>2, <1>3, <1>5 DEF TabChosen, Slid, Idled, Working, Linked, Fresh, Discards, Edits, Images!Url, Dash
<1>6. ASSUME TabCleared(t, y) PROVE Goal
  BY <1>1, <1>2, <1>3, <1>6 DEF TabCleared, Slid, Idled, Working, Linked, Fresh, Discards, Edits, Images!Url, Dash
<1>7. ASSUME TabCancelled(t, y) PROVE Goal
  BY <1>1, <1>2, <1>3, <1>7 DEF TabCancelled, Slid, Idled, Working, Linked, Fresh, Discards, Edits, Images!Url, Dash
<1>8. ASSUME TabKept(t, y) PROVE Goal
  BY <1>1, <1>2, <1>3, <1>8 DEF TabKept, Slid, Idled, Working, Linked, Fresh, Discards, Edits, Images!Url, Dash
<1>9. ASSUME TabUploading(t, y) PROVE Goal
  BY <1>1, <1>2, <1>3, <1>9 DEF TabUploading, Slid, Idled, Working, Linked, Fresh, Discards, Edits, Images!Url, Dash
<1>10. ASSUME TabStored(t, y) PROVE Goal
  BY <1>1, <1>2, <1>3, <1>10 DEF TabStored, Slid, Idled, Working, Linked, Fresh, Discards, Edits, Images!Url, Dash
<1>11. ASSUME TabReturned(t, y) PROVE Goal
  BY <1>1, <1>2, <1>3, <1>11 DEF TabReturned, Slid, Idled, Working, Linked, Fresh, Discards, Edits, Images!Url, Dash
<1>12. ASSUME TabRecorded(t, y) PROVE Goal
  BY <1>1, <1>2, <1>3, <1>12 DEF TabRecorded, Slid, Idled, Working, Linked, Fresh, Discards, Edits, Images!Url, Dash
<1>13. ASSUME TabUnrecorded(t, y) PROVE Goal
  BY <1>1, <1>2, <1>3, <1>13 DEF TabUnrecorded, Slid, Idled, Working, Linked, Fresh, Discards, Edits, Images!Url, Dash
<1>14. ASSUME TabCounted(t, y) PROVE Goal
  BY <1>1, <1>2, <1>3, <1>14 DEF TabCounted, Slid, Idled, Working, Linked, Fresh, Discards, Edits, Images!Url, Dash
<1>15. ASSUME TabCreated(t, y) PROVE Goal
  BY <1>1, <1>2, <1>3, <1>15 DEF TabCreated, Slid, Idled, Working, Linked, Fresh, Discards, Edits, Images!Url, Dash
<1>16. ASSUME TabRead(t, y) PROVE Goal
  BY <1>1, <1>2, <1>3, <1>16 DEF TabRead, Slid, Idled, Working, Linked, Fresh, Discards, Edits, Images!Url, Dash
<1>17. ASSUME TabMissed(t, y) PROVE Goal
  BY <1>1, <1>2, <1>3, <1>17 DEF TabMissed, Slid, Idled, Working, Linked, Fresh, Discards, Edits, Images!Url, Dash
<1>18. ASSUME TabSaved(t, y) PROVE Goal
  BY <1>1, <1>2, <1>3, <1>18 DEF TabSaved, Slid, Idled, Working, Linked, Fresh, Discards, Edits, Images!Url, Dash
<1>19. ASSUME TabDropped(t, y) PROVE Goal
  BY <1>1, <1>2, <1>3, <1>19 DEF TabDropped, Slid, Idled, Working, Linked, Fresh, Discards, Edits, Images!Url, Dash
<1>20. ASSUME TabBroke(t, y) PROVE Goal
  BY <1>1, <1>2, <1>3, <1>20 DEF TabBroke, Slid, Idled, Working, Linked, Fresh, Discards, Edits, Images!Url, Dash
<1>21. ASSUME TabSelected(t, y) PROVE Goal
  BY <1>1, <1>2, <1>3, <1>21 DEF TabSelected, Slid, Idled, Working, Linked, Fresh, Discards, Edits, Images!Url, Dash
<1>22. ASSUME TabRemoved(t, y) PROVE Goal
  BY <1>1, <1>2, <1>3, <1>22 DEF TabRemoved, Slid, Idled, Working, Linked, Fresh, Discards, Edits, Images!Url, Dash
<1>23. ASSUME TabUnremoved(t, y) PROVE Goal
  BY <1>1, <1>2, <1>3, <1>23 DEF TabUnremoved, Slid, Idled, Working, Linked, Fresh, Discards, Edits, Images!Url, Dash
<1>24. ASSUME TabSubtracted(t, y) PROVE Goal
  BY <1>1, <1>2, <1>3, <1>24 DEF TabSubtracted, Slid, Idled, Working, Linked, Fresh, Discards, Edits, Images!Url, Dash
<1>25. ASSUME TabErased(t, y) PROVE Goal
  BY <1>1, <1>2, <1>3, <1>25 DEF TabErased, Slid, Idled, Working, Linked, Fresh, Discards, Edits, Images!Url, Dash
<1> QED
  BY <1>4, <1>5, <1>6, <1>7, <1>8, <1>9, <1>10, <1>11, <1>12, <1>13, <1>14,
     <1>15, <1>16, <1>17, <1>18, <1>19, <1>20, <1>21, <1>22, <1>23, <1>24,
     <1>25 DEF TabStep

(* What is counted, what is stored without being counted, and what failed  *)
(* balance; a file being stored or removed is counted later or no longer.  *)
Balanced(x, O, F, n, b) ==
  /\ x.at \in {"record", "add"} => Cardinality(O \cup F) <= n + 1 + b
  /\ x.at \notin {"record", "add", "subtract", "erase"} => Cardinality(O \cup F) <= n + b
  /\ x.at = "remove" => x.old \in F
  /\ x.at = "subtract" => Cardinality((O \ {x.old}) \cup F) + 1 <= n + b
  /\ x.at = "erase" => Cardinality((O \ {x.old}) \cup F) <= n + b
  /\ Cardinality(O) <= FileLimit + b
  /\ x.at = "put" => Cardinality(O) + 1 <= FileLimit + b

(* One file more or less.                                                  *)
LEMMA FileSizes ==
    ASSUME MaxUploads \in Nat, NEW O, O \subseteq Images!Url, NEW F, F \subseteq Images!Url, NEW e
    PROVE  /\ Cardinality(O) \in Nat /\ Cardinality(O) <= Cardinality(O \cup F)
           /\ Cardinality(O \cup F) \in Nat /\ Cardinality((O \ {e}) \cup F) \in Nat
           /\ Cardinality(O \ {e}) \in Nat /\ Cardinality(O \ {e}) <= Cardinality(O)
           /\ Cardinality((O \ {e}) \cup F) <= Cardinality(O \cup F)
           /\ Cardinality(O \cup F) <= Cardinality((O \ {e}) \cup F) + 1
           /\ e \in F => Cardinality((O \ {e}) \cup (F \ {e})) + 1 = Cardinality(O \cup F)
           /\ Cardinality(O \cup {e}) \in Nat /\ Cardinality(O \cup {e}) <= Cardinality(O) + 1
           /\ Cardinality((O \cup {e}) \cup F) \in Nat
           /\ Cardinality((O \cup {e}) \cup F) <= Cardinality(O \cup F) + 1
<1>1. /\ IsFiniteSet(Images!Url)
  BY FS_Interval DEF Images!Url
<1>2. IsFiniteSet(O) /\ IsFiniteSet(F)
  BY <1>1, FS_Subset
<1>3. IsFiniteSet(O \cup F) /\ IsFiniteSet(O \ {e}) /\ IsFiniteSet((O \ {e}) \cup F)
  BY <1>2, FS_Union, FS_Subset
<1>4. /\ Cardinality(O) <= Cardinality(O \cup F)
      /\ Cardinality(O \ {e}) <= Cardinality(O)
      /\ Cardinality((O \ {e}) \cup F) <= Cardinality(O \cup F)
  <2>1. O \subseteq O \cup F /\ O \ {e} \subseteq O /\ (O \ {e}) \cup F \subseteq O \cup F
    OBVIOUS
  <2> QED
    BY <1>2, <1>3, <2>1, FS_Subset
<1>5. /\ Cardinality(O) \in Nat /\ Cardinality(O \cup F) \in Nat
      /\ Cardinality((O \ {e}) \cup F) \in Nat /\ Cardinality(O \ {e}) \in Nat
  BY <1>2, <1>3, FS_CardinalityType
<1>6. ASSUME NEW S, IsFiniteSet(S)
      PROVE  /\ IsFiniteSet(S \cup {e}) /\ Cardinality(S \cup {e}) \in Nat
             /\ Cardinality(S \cup {e}) <= Cardinality(S) + 1
  <2>1. IsFiniteSet(S \cup {e}) /\ (Cardinality(S \cup {e}) = Cardinality(S) \/ Cardinality(S \cup {e}) = Cardinality(S) + 1)
    BY <1>6, FS_AddElement
  <2>2. Cardinality(S) \in Nat /\ Cardinality(S \cup {e}) \in Nat
    BY <1>6, <2>1, FS_CardinalityType
  <2> QED
    BY <2>1, <2>2
<1>7. Cardinality(O \cup F) <= Cardinality((O \ {e}) \cup F) + 1
  <2>1. CASE e \in O
    <3>1. O \cup F = ((O \ {e}) \cup F) \cup {e}
      BY <2>1
    <3> QED
      BY <1>3, <1>6, <3>1
  <2>2. CASE e \notin O
    <3>1. O \ {e} = O
      BY <2>2
    <3> QED
      BY <1>5, <3>1
  <2> QED
    BY <2>1, <2>2
<1>8. e \in F => Cardinality((O \ {e}) \cup (F \ {e})) + 1 = Cardinality(O \cup F)
  <2> SUFFICES ASSUME e \in F PROVE Cardinality((O \ {e}) \cup (F \ {e})) + 1 = Cardinality(O \cup F)
    OBVIOUS
  <2>1. (O \ {e}) \cup (F \ {e}) = (O \cup F) \ {e} /\ e \in O \cup F
    OBVIOUS
  <2>2. Cardinality((O \cup F) \ {e}) = Cardinality(O \cup F) - 1
    BY <1>3, <2>1, FS_RemoveElement
  <2> QED
    BY <1>5, <2>1, <2>2
<1>9. (O \cup {e}) \cup F = (O \cup F) \cup {e}
  OBVIOUS
<1>10. Cardinality(O \cup {e}) \in Nat /\ Cardinality(O \cup {e}) <= Cardinality(O) + 1
  BY <1>2, <1>6
<1>11. /\ Cardinality((O \cup F) \cup {e}) \in Nat
       /\ Cardinality((O \cup F) \cup {e}) <= Cardinality(O \cup F) + 1
  BY <1>3, <1>6
<1> QED
  BY <1>4, <1>5, <1>7, <1>8, <1>9, <1>10, <1>11

LEMMA BalancedSteps ==
    ASSUME ImageBounds, Filed, NEW t \in Tab, NEW y \in Dash, TabStep(t, y),
           Linked(dash[t], object, card, halved, spent),
           Balanced(dash[t], object, files, count, broken)
    PROVE  Balanced(y, object', files', count', broken')
<1> DEFINE Goal == Balanced(y, object', files', count', broken')
<1>1. PICK x \in Dash : x = dash[t]
  BY DEF Filed
<1>2. /\ count \in Nat /\ broken \in Nat /\ FileLimit \in Nat /\ MaxUploads \in Nat
      /\ object \subseteq Images!Url /\ files \subseteq Images!Url
  BY DEF Filed, ImageBounds
<1>3. Balanced(x, object, files, count, broken)
  BY <1>1
<1>4. PICK g \in Nat : g = Cardinality(object \cup files)
  BY <1>2, FileSizes
<1>5. PICK h \in Nat : h = Cardinality((object \ {x.old}) \cup files)
  BY <1>2, FileSizes
<1>6. PICK m \in Nat : m = Cardinality(object)
  BY <1>2, FileSizes
<1>7. h <= g /\ g <= h + 1 /\ m <= g
  BY <1>2, <1>4, <1>5, <1>6, FileSizes
<1>8. /\ x.at \in {"record", "add"} => g <= count + 1 + broken
      /\ x.at \notin {"record", "add", "subtract", "erase"} => g <= count + broken
      /\ x.at = "remove" => x.old \in files
      /\ x.at = "subtract" => h + 1 <= count + broken
      /\ x.at = "erase" => h <= count + broken
      /\ m <= FileLimit + broken
      /\ x.at = "put" => m + 1 <= FileLimit + broken
  BY <1>3, <1>4, <1>5, <1>6 DEF Balanced
<1>9. ASSUME NEW c \in Card, TabOpened(t, y, c) PROVE Goal
  BY <1>1, <1>2, <1>4, <1>5, <1>6, <1>7, <1>8, <1>9 DEF TabOpened, Slid, Idled, Balanced
<1>10. ASSUME NEW c \in Card, TabChosen(t, y, c) PROVE Goal
  BY <1>1, <1>2, <1>4, <1>5, <1>6, <1>7, <1>8, <1>10 DEF TabChosen, Slid, Idled, Balanced
<1>11. ASSUME TabCleared(t, y) PROVE Goal
  BY <1>1, <1>2, <1>4, <1>5, <1>6, <1>7, <1>8, <1>11 DEF TabCleared, Slid, Idled, Balanced
<1>12. ASSUME TabCancelled(t, y) PROVE Goal
  BY <1>1, <1>2, <1>4, <1>5, <1>6, <1>7, <1>8, <1>12 DEF TabCancelled, Slid, Idled, Balanced
<1>13. ASSUME TabKept(t, y) PROVE Goal
  BY <1>1, <1>2, <1>4, <1>5, <1>6, <1>7, <1>8, <1>13 DEF TabKept, Slid, Idled, Balanced
<1>14. ASSUME TabUploading(t, y) PROVE Goal
  BY <1>1, <1>2, <1>4, <1>5, <1>6, <1>7, <1>8, <1>14 DEF TabUploading, Slid, Idled, Balanced
<1>15. ASSUME TabStored(t, y) PROVE Goal
  <2>1. PICK e : e = spent'
    OBVIOUS
  <2>2. /\ Cardinality(object') \in Nat /\ Cardinality(object') <= m + 1
        /\ Cardinality(object' \cup files') \in Nat /\ Cardinality(object' \cup files') <= g + 1
    <3>1. object' = object \cup {e} /\ files' = files
      BY <1>15, <2>1 DEF TabStored
    <3> QED
      BY <1>2, <1>4, <1>6, <3>1, FileSizes
  <2>3. y.at = "record" /\ x.at = "put" /\ UNCHANGED <<count, broken>>
    BY <1>1, <1>15 DEF TabStored
  <2> QED
    BY <1>2, <1>8, <2>2, <2>3 DEF Balanced
<1>16. ASSUME TabReturned(t, y) PROVE Goal
  BY <1>1, <1>2, <1>4, <1>5, <1>6, <1>7, <1>8, <1>16 DEF TabReturned, Slid, Idled, Balanced
<1>17. ASSUME TabRecorded(t, y) PROVE Goal
  <2>1. x.final \in object
    BY <1>1, <1>17 DEF TabRecorded, Linked, Fresh
  <2>2. object' = object /\ object' \cup files' = object \cup files
    BY <1>1, <1>17, <2>1 DEF TabRecorded
  <2>3. y.at = "add" /\ x.at = "record" /\ UNCHANGED <<count, broken>>
    BY <1>1, <1>17 DEF TabRecorded, Slid
  <2> QED
    BY <1>2, <1>4, <1>6, <1>8, <2>2, <2>3 DEF Balanced
<1>18. ASSUME TabUnrecorded(t, y) PROVE Goal
  BY <1>1, <1>2, <1>4, <1>5, <1>6, <1>7, <1>8, <1>18 DEF TabUnrecorded, Slid, Idled, Balanced
<1>19. ASSUME TabCounted(t, y) PROVE Goal
  BY <1>1, <1>2, <1>4, <1>5, <1>6, <1>7, <1>8, <1>19 DEF TabCounted, Slid, Idled, Balanced
<1>20. ASSUME TabCreated(t, y) PROVE Goal
  BY <1>1, <1>2, <1>4, <1>5, <1>6, <1>7, <1>8, <1>20 DEF TabCreated, Slid, Idled, Balanced
<1>21. ASSUME TabRead(t, y) PROVE Goal
  BY <1>1, <1>2, <1>4, <1>5, <1>6, <1>7, <1>8, <1>21 DEF TabRead, Slid, Idled, Balanced
<1>22. ASSUME TabMissed(t, y) PROVE Goal
  BY <1>1, <1>2, <1>4, <1>5, <1>6, <1>7, <1>8, <1>22 DEF TabMissed, Slid, Idled, Balanced
<1>23. ASSUME TabSaved(t, y) PROVE Goal
  BY <1>1, <1>2, <1>4, <1>5, <1>6, <1>7, <1>8, <1>23 DEF TabSaved, Slid, Idled, Balanced
<1>24. ASSUME TabDropped(t, y) PROVE Goal
  BY <1>1, <1>2, <1>4, <1>5, <1>6, <1>7, <1>8, <1>24 DEF TabDropped, Slid, Idled, Balanced
<1>25. ASSUME TabBroke(t, y) PROVE Goal
  BY <1>1, <1>2, <1>4, <1>5, <1>6, <1>7, <1>8, <1>25 DEF TabBroke, Slid, Idled, Balanced
<1>26. ASSUME TabSelected(t, y) PROVE Goal
  BY <1>1, <1>2, <1>4, <1>5, <1>6, <1>7, <1>8, <1>26 DEF TabSelected, Slid, Idled, Balanced
<1>27. ASSUME TabRemoved(t, y) PROVE Goal
  <2>1. /\ object' = object /\ files' = files \ {x.old} /\ UNCHANGED <<count, broken>>
        /\ x.at = "remove" /\ y.at = "subtract" /\ y.old = x.old
    BY <1>1, <1>27 DEF TabRemoved, Slid
  <2>2. Cardinality((object' \ {y.old}) \cup files') + 1 = g
    BY <1>2, <1>4, <1>8, <2>1, FileSizes
  <2> QED
    BY <1>2, <1>6, <1>8, <2>1, <2>2 DEF Balanced
<1>28. ASSUME TabUnremoved(t, y) PROVE Goal
  BY <1>1, <1>2, <1>4, <1>5, <1>6, <1>7, <1>8, <1>28 DEF TabUnremoved, Slid, Idled, Balanced
<1>29. ASSUME TabSubtracted(t, y) PROVE Goal
  BY <1>1, <1>2, <1>4, <1>5, <1>6, <1>7, <1>8, <1>29 DEF TabSubtracted, Slid, Idled, Balanced
<1>30. ASSUME TabErased(t, y) PROVE Goal
  <2>1. /\ files' = files /\ count' = count /\ x.at = "erase" /\ y.at \in {"drop", "idle"}
        /\ \/ object' = object \ {x.old} /\ broken' = broken
           \/ object' = object /\ broken' = broken + 1
    BY <1>1, <1>30 DEF TabErased, Slid, Idled
  <2>2. CASE object' = object \ {x.old} /\ broken' = broken
    <3>1. Cardinality(object') \in Nat /\ Cardinality(object') <= m
      BY <1>2, <1>6, <2>2, FileSizes
    <3>2. Cardinality(object' \cup files') = h
      BY <1>5, <2>1, <2>2
    <3> QED
      BY <1>2, <1>8, <2>1, <2>2, <3>1, <3>2 DEF Balanced
  <2>3. CASE object' = object /\ broken' = broken + 1
    BY <1>2, <1>4, <1>6, <1>7, <1>8, <2>1, <2>3 DEF Balanced
  <2> QED
    BY <2>1, <2>2, <2>3
<1> QED
  BY <1>9, <1>10, <1>11, <1>12, <1>13, <1>14, <1>15, <1>16, <1>17, <1>18,
     <1>19, <1>20, <1>21, <1>22, <1>23, <1>24, <1>25, <1>26, <1>27, <1>28,
     <1>29, <1>30 DEF TabStep

(* The two invariants of the only dashboard.                               *)
Alone(d) ==
  /\ Linked(dash[d], object, card, halved, spent)
  /\ Balanced(dash[d], object, files, count, broken)

LEMMA AloneInit ==
    ASSUME ImageBounds, NEW d \in Tab, Images!Init PROVE Alone(d)
<1>1. PICK i : i = Images!Idle
  OBVIOUS
<1>2. i.at = "idle" /\ i.url = 0 /\ i.old = 0 /\ i.final = 0
  BY <1>1 DEF Images!Idle, Images!NoImage
<1>3. /\ object = {} /\ files = {} /\ count = 0 /\ spent = 0 /\ broken = 0
      /\ dash[d] = i
      /\ \A c \in Card : card[c] = -1
  BY <1>1 DEF Images!Init, Images!Gone
<1>4. Linked(dash[d], object, card, halved, spent)
  BY <1>2, <1>3 DEF Linked, Edits, Discards
<1>5. Cardinality({}) = 0
  BY FS_EmptySet
<1>6. Cardinality(object \cup files) = 0 /\ Cardinality(object) = 0
  <2>1. object \cup files = {}
    BY <1>3
  <2> QED
    BY <1>3, <1>5, <2>1
<1>7. Balanced(dash[d], object, files, count, broken)
  BY <1>2, <1>3, <1>6 DEF Balanced, ImageBounds
<1> QED
  BY <1>4, <1>7 DEF Alone

LEMMA AloneNext ==
    ASSUME ImageBounds, Filed, NEW d, Tab = {d}, Alone(d), [Images!Next]_(Images!vars)
    PROVE  Alone(d)'
<1>1. CASE Images!Next
  <2>1. \E y \in Dash : Moves(d, y) /\ TabStep(d, y)
    BY <1>1, NextSteps
  <2>2. PICK y \in Dash : Moves(d, y) /\ TabStep(d, y)
    BY <2>1
  <2>3. dash'[d] = y /\ d \in Tab
    BY <2>2 DEF Moves
  <2>4. Linked(y, object', card', halved', spent')
    BY <2>2, <2>3, LinkedSteps DEF Alone
  <2>5. Balanced(y, object', files', count', broken')
    BY <2>2, <2>3, BalancedSteps DEF Alone
  <2> QED
    BY <2>3, <2>4, <2>5 DEF Alone
<1>2. CASE UNCHANGED Images!vars
  BY <1>2 DEF Alone, Images!vars
<1> QED
  BY <1>1, <1>2

LEMMA AloneAlways ==
    ASSUME ImageBounds, NEW d, Tab = {d} PROVE Images!Spec => [](Filed /\ Alone(d))
<1> d \in Tab
  OBVIOUS
<1>1. ImageBounds /\ Images!Init => Alone(d)
  BY AloneInit
<1>2. ImageBounds /\ Tab = {d} /\ Filed /\ Alone(d) /\ [Images!Next]_(Images!vars) => Alone(d)'
  BY AloneNext
<1> QED
  BY <1>1, <1>2, ImagesFiled, PTL DEF Images!Spec

(* A card shows an image that exists, whatever fails, unless its deletion  *)
(* broke off, as long as one dashboard is open (PUT and DELETE             *)
(* /api/cards/[id]).                                                       *)
THEOREM CardsShowImages ==
    ASSUME ImageBounds, NEW d, Tab = {d} PROVE Images!Spec => []Images!ImageExists
<1>1. Filed /\ Alone(d) => Images!ImageExists
  <2> SUFFICES ASSUME Alone(d), dash[d].at \in {"idle", "form"}, NEW c \in Card \ halved
               PROVE  card[c] \in object \cup {0, -1}
    BY DEF Images!ImageExists, Images!Quiet, Images!NoImage, Images!Gone
  <2>1. \/ card[c] \in object \cup {0, -1}
        \/ dash[d].at = "drop"
    BY DEF Alone, Linked
  <2> QED
    BY <2>1
<1> QED
  BY <1>1, AloneAlways, PTL

(* The files exceed the limit by one for every write that failed and not   *)
(* otherwise, as long as one dashboard is open (POST /api/upload).         *)
THEOREM FilesKeepTheLimit ==
    ASSUME ImageBounds, NEW d, Tab = {d} PROVE Images!Spec => []Images!FilesBounded
<1>1. Filed /\ Alone(d) => Images!FilesBounded
  <2> SUFFICES ASSUME Filed, Alone(d) PROVE Images!FilesBounded
    OBVIOUS
  <2>1. Cardinality(object) <= FileLimit + broken
    BY DEF Alone, Balanced
  <2>2. FileLimit \in Nat /\ broken \in Nat /\ Cardinality(object) \in Nat
    <3>1. /\ FileLimit \in Nat /\ broken \in Nat /\ MaxUploads \in Nat
          /\ object \subseteq Images!Url /\ files \subseteq Images!Url
      BY DEF Filed, ImageBounds
    <3> QED
      BY <3>1, FileSizes
  <2>3. Cardinality(Tab) = 1
    BY FS_Singleton
  <2>4. /\ Images!Cardinality(object) = Cardinality(object)
        /\ Images!Cardinality(Tab) = Cardinality(Tab)
    BY DEF Images!Cardinality, Cardinality
  <2> QED
    BY <2>1, <2>2, <2>3, <2>4 DEF Images!FilesBounded
<1> QED
  BY <1>1, AloneAlways, PTL

-----------------------------------------------------------------------------
(* The list of cards on a page (CardList).  No card is called "none".      *)
Nameless == "none" \notin Card

IsListRow(s) ==
    s \in [is : {s.is}, active : {s.active}, number : {s.number}]

IsOp(q) ==
    q \in [at : {q.at}, kind : {q.kind}, card : {q.card}, body : {q.body},
           before : {q.before}, clear : {q.clear}, set : {q.set}, want : {q.want},
           got : {q.got}, rows : {q.rows}, filter : {q.filter},
           status : {q.status}, alone : BOOLEAN]

\* What the operations know of the cards.
Knows(q) ==
    /\ IsOp(q)
    /\ DOMAIN q.before \subseteq Card
    /\ q.kind = "create" => q.card \in Card
    /\ q.kind = "reload" => DOMAIN q.rows \subseteq Card
    /\ q.at = "sent" /\ q.body = Page!Nothing => q.card = "none"
    /\ q.kind = "numbers" => q.at \in {"sent", "done", "reply"}

\* The number a save of the numbers is to give a card.
Final(q, c) == IF c \in DOMAIN q.want THEN q.want[c] ELSE q.before[c].number

Clearing(q, c) == q.at = "sent" /\ q.card = c /\ q.body.number = 0
Setting(q, c) == q.at = "sent" /\ q.card = c /\ q.body.number # 0

\* What is planned: numbers differ, all clearings come before all settings.
Plan(q) ==
    /\ DOMAIN q.want \subseteq DOMAIN q.before
    /\ \A c, d \in DOMAIN q.before :
          c # d /\ Final(q, c) # 0 => Final(q, c) # Final(q, d)
    /\ \A c \in DOMAIN q.want :
          q.before[c].number # q.want[c]
    /\ q.clear \subseteq DOMAIN q.want
    /\ q.set \subseteq {c \in DOMAIN q.want : q.want[c] # 0}
    /\ q.at = "sent" =>
          /\ q.status = "ok" /\ q.card \in DOMAIN q.want /\ DOMAIN q.body = {"number"}
          /\ q.body.number # 0 => q.body.number = q.want[q.card] /\ q.clear = {}

\* What has been reached, as long as nobody else changes a card.
Progress(q) ==
    /\ \A c \in DOMAIN q.want : q.want[c] # 0 =>
          c \in q.set \/ Setting(q, c) \/ listRow[c].number = q.want[c]
    /\ q.clear # {} \/ (q.at = "sent" /\ q.body.number = 0) =>
          \A c \in DOMAIN q.want : q.want[c] # 0 => c \in q.set
    /\ \A c \in DOMAIN q.want : q.before[c].number # 0 =>
          c \in q.clear \/ Clearing(q, c) \/ listRow[c].number \in {0, q.want[c]}

\* A reload carries what the server has.
Fetched(q) ==
    /\ q.at = "done" => q.rows = Page!Nothing
    /\ q.at = "reply" /\ q.status = "ok" /\ q.alone =>
          q.rows = Page!RowsOf({c \in Card : Page!Fits(c, q.filter)})

Good(q) ==
    /\ Knows(q)
    /\ q.kind = "numbers" => Plan(q) /\ (q.status = "ok" /\ q.alone => Progress(q))
    /\ q.kind = "reload" => Fetched(q)

Tables ==
    /\ listRow = [c \in Card |-> listRow[c]] /\ \A c \in Card : IsListRow(listRow[c])
    /\ act = [o \in Op |-> act[o]]
    /\ DOMAIN listed \subseteq Card

ListInv == Tables /\ \A o \in Op : Good(act[o])

LEMMA NothingIsEmpty == DOMAIN Page!Nothing = {}
  BY DEF Page!Nothing

LEMMA IdleOp ==
    /\ IsOp(Page!Idle) /\ Page!Idle.at = "idle" /\ Page!Idle.kind = "none"
    /\ Page!Idle.alone /\ Page!Idle.status = "ok"
    /\ Page!Idle.before = Page!Nothing /\ Page!Idle.rows = Page!Nothing
    /\ Page!Idle.card = "none" /\ Page!Idle.body = Page!Nothing
  BY DEF Page!Idle, IsOp

LEMMA IdleIsGood == Good(Page!Idle)
  BY IdleOp, NothingIsEmpty, Zenon DEF Good, Knows

\* Where no card changes, an operation that stays is as good as before.
LEMMA StaysGood ==
    ASSUME NEW q, Good(q), listRow' = listRow
    PROVE  Good(q)'
  BY DEF Good, Knows, IsOp, Plan, Final, Progress, Clearing, Setting, Fetched,
     Page!RowsOf, Page!Fits, Page!Here, Page!Shown, Page!Nothing

\* One operation steps, no card changes and the others stay as they are.
OneSteps(o) ==
    /\ listRow' = listRow /\ act' = [p \in Op |-> act'[p]]
    /\ \A p \in Op \ {o} : act'[p] = act[p]

LEMMA OneStepsGood ==
    ASSUME ListInv, NEW o \in Op, OneSteps(o), Good(act'[o]), (DOMAIN listed \subseteq Card)'
    PROVE  ListInv'
<1>1. Good(act[o])'
  BY DEF OneSteps, Good, Knows, IsOp, Plan, Final, Progress, Clearing, Setting,
     Fetched, Page!RowsOf, Page!Fits, Page!Here, Page!Shown, Page!Nothing
<1>2. ASSUME NEW p \in Op PROVE Good(act[p])'
  <2>1. CASE p = o
    BY <1>1, <2>1
  <2>2. CASE p # o
    <3>1. act'[p] = act[p] /\ Good(act[p])
      BY <2>2 DEF OneSteps, ListInv
    <3> QED
      BY <3>1, StaysGood DEF OneSteps
  <2> QED
    BY <2>1, <2>2
<1>3. Tables'
  BY DEF ListInv, Tables, OneSteps, IsListRow
<1> QED
  BY <1>2, <1>3 DEF ListInv

\* A request is sent: what the operation holds then.
LEMMA SendsSo ==
    ASSUME Tables, NEW o \in Op, NEW k, NEW c, NEW b, Page!Send(o, k, c, b)
    PROVE  /\ OneSteps(o) /\ act[o].at = "idle" /\ doubt' = doubt /\ filtered' = filtered
           /\ IsOp(act'[o]) /\ act'[o].at = "sent" /\ act'[o].kind = k
           /\ act'[o].card = c /\ act'[o].body = b /\ act'[o].before = listed
           /\ act'[o].status = "ok" /\ act'[o].alone
<1>1. act' = [act EXCEPT ![o] = [Page!Idle EXCEPT !.at = "sent", !.kind = k,
                !.card = c, !.body = b, !.before = listed]]
      /\ listRow' = listRow /\ act[o].at = "idle" /\ doubt' = doubt /\ filtered' = filtered
  BY DEF Page!Send
<1> DEFINE sent(i) == [i EXCEPT !.at = "sent", !.kind = k,
                !.card = c, !.body = b, !.before = listed]
<1>2. act'[o] = sent(Page!Idle)
  BY <1>1 DEF Tables
<1>3. OneSteps(o)
  BY <1>1 DEF Tables, OneSteps
<1>4. ASSUME NEW i, IsOp(i), i.status = "ok", i.alone
      PROVE  /\ IsOp(sent(i)) /\ sent(i).at = "sent" /\ sent(i).kind = k
             /\ sent(i).card = c /\ sent(i).body = b /\ sent(i).before = listed
             /\ sent(i).status = "ok" /\ sent(i).alone
  BY <1>4 DEF IsOp
<1> HIDE DEF sent
<1>5. /\ IsOp(sent(Page!Idle)) /\ sent(Page!Idle).at = "sent" /\ sent(Page!Idle).kind = k
      /\ sent(Page!Idle).card = c /\ sent(Page!Idle).body = b
      /\ sent(Page!Idle).before = listed /\ sent(Page!Idle).status = "ok"
      /\ sent(Page!Idle).alone
  BY <1>4, IdleOp
<1> QED
  BY <1>1, <1>2, <1>3, <1>5

LEMMA SendIsGood ==
    ASSUME ListInv, NEW o \in Op, NEW k \in {"toggle", "delete", "edit", "create", "weights"},
           NEW c, NEW b, Page!Send(o, k, c, b), k = "create" => c \in Card,
           c = "none" \/ DOMAIN b # {}, (DOMAIN listed \subseteq Card)'
    PROVE  ListInv'
<1>1. /\ OneSteps(o) /\ IsOp(act'[o]) /\ act'[o].at = "sent" /\ act'[o].kind = k
      /\ act'[o].card = c /\ act'[o].body = b /\ act'[o].before = listed
  BY SendsSo DEF ListInv
<1>2. Knows(act'[o])
  BY <1>1, NothingIsEmpty DEF Knows, ListInv, Tables
<1>3. Good(act'[o])
  BY <1>1, <1>2 DEF Good
<1> QED
  BY <1>1, <1>3, OneStepsGood

LEMMA BeginsGood ==
    ASSUME ListInv, NEW o \in Op,
           \/ \E c \in Card : Page!Toggle(o, c) \/ Page!Delete(o, c)
           \/ \E c \in Card, n \in Page!Number : Page!Edit(o, c, n) \/ Page!Create(o, c, n)
           \/ Page!Weights(o)
    PROVE  ListInv'
<1>1. DOMAIN listed \subseteq Card
  BY DEF ListInv, Tables
<1>2. ASSUME NEW c \in Card, Page!Toggle(o, c) PROVE ListInv'
  <2>1. Page!Send(o, "toggle", c, [active |-> ~listed[c].active])
        /\ listed' = [listed EXCEPT ![c].active = ~@]
    BY <1>2 DEF Page!Toggle
  <2> DEFINE b == [active |-> ~listed[c].active]
  <2>2. DOMAIN b # {} /\ DOMAIN listed' = DOMAIN listed
    BY <2>1
  <2>3. Page!Send(o, "toggle", c, b)
    BY <2>1
  <2> HIDE DEF b
  <2> QED
    BY <1>1, <2>2, <2>3, SendIsGood
<1>3. ASSUME NEW c \in Card, Page!Delete(o, c) PROVE ListInv'
  <2> DEFINE b == [is |-> "gone", active |-> FALSE, number |-> 0]
  <2>1. Page!Send(o, "delete", c, b) /\ listed' = Page!Restrict(listed, DOMAIN listed \ {c})
    BY <1>3 DEF Page!Delete
  <2>2. DOMAIN b # {} /\ DOMAIN listed' \subseteq DOMAIN listed
    BY <2>1 DEF Page!Restrict
  <2> HIDE DEF b
  <2> QED
    BY <1>1, <2>1, <2>2, SendIsGood
<1>4. ASSUME NEW c \in Card, NEW n \in Page!Number, Page!Edit(o, c, n) PROVE ListInv'
  <2> DEFINE b == [number |-> n]
  <2>1. Page!Send(o, "edit", c, b) /\ listed' = listed /\ DOMAIN b # {}
    BY <1>4 DEF Page!Edit
  <2> HIDE DEF b
  <2> QED
    BY <1>1, <2>1, SendIsGood
<1>5. ASSUME NEW c \in Card, NEW n \in Page!Number, Page!Create(o, c, n) PROVE ListInv'
  <2> DEFINE b == [is |-> "here", active |-> TRUE, number |-> n]
  <2>1. Page!Send(o, "create", c, b) /\ listed' = listed /\ DOMAIN b # {}
    BY <1>5 DEF Page!Create
  <2> HIDE DEF b
  <2> QED
    BY <1>1, <2>1, SendIsGood
<1>6. ASSUME Page!Weights(o) PROVE ListInv'
  BY <1>1, <1>6, SendIsGood DEF Page!Weights
<1> QED
  BY <1>2, <1>3, <1>4, <1>5, <1>6

LEMMA ReloadsGood ==
    ASSUME ListInv, NEW o \in Op, NEW f, Page!Reload(o, f)
    PROVE  ListInv'
<1>1. act' = [act EXCEPT ![o] = [Page!Idle EXCEPT !.at = "sent", !.kind = "reload",
                !.filter = f]]
      /\ listRow' = listRow /\ listed' = listed
  BY DEF Page!Reload
<1> DEFINE sent(i) == [i EXCEPT !.at = "sent", !.kind = "reload", !.filter = f]
<1>2. OneSteps(o) /\ act'[o] = sent(Page!Idle)
  BY <1>1 DEF OneSteps, ListInv, Tables
<1>3. ASSUME NEW i, IsOp(i)
      PROVE  /\ IsOp(sent(i)) /\ sent(i).at = "sent" /\ sent(i).kind = "reload"
             /\ sent(i).card = i.card /\ sent(i).before = i.before /\ sent(i).rows = i.rows
  BY <1>3 DEF IsOp
<1> HIDE DEF sent
<1>4. /\ IsOp(act'[o]) /\ act'[o].at = "sent" /\ act'[o].kind = "reload" /\ act'[o].card = "none"
      /\ act'[o].before = Page!Nothing /\ act'[o].rows = Page!Nothing
  <2>1. /\ IsOp(sent(Page!Idle)) /\ sent(Page!Idle).at = "sent"
        /\ sent(Page!Idle).kind = "reload" /\ sent(Page!Idle).card = "none"
        /\ sent(Page!Idle).before = Page!Nothing /\ sent(Page!Idle).rows = Page!Nothing
    BY <1>3, IdleOp
  <2> QED
    BY <1>2, <2>1
<1>5. Good(act'[o])
  BY <1>4, NothingIsEmpty DEF Good, Knows, Fetched
<1> QED
  BY <1>1, <1>2, <1>5, OneStepsGood DEF ListInv, Tables

\* The next request of a save.
LEMMA NextIsGood ==
    ASSUME NEW q, q.at # "sent", IsOp(q), DOMAIN q.before \subseteq Card,
           q.kind = "numbers", q.status = "ok", Plan(q),
           q.alone => Progress(q), NEW f \in Page!Following(q)
    PROVE  Good(f) /\ f.at = "sent" /\ f.kind = "numbers" /\ f.before = q.before
           /\ f.want = q.want /\ f.status = "ok"
<1>1. CASE q.clear # {}
  <2>1. PICK c \in q.clear : f = Page!Request(q, c, 0)
    BY <1>1 DEF Page!Following
  <2> DEFINE b == [number |-> 0]
  <2>2. f = [q EXCEPT !.at = "sent", !.card = c, !.body = b,
              !.clear = q.clear \ {c}, !.set = q.set, !.rows = Page!Nothing]
    BY <1>1, <2>1 DEF Page!Request, IsOp
  <2>3. DOMAIN b = {"number"} /\ b.number = 0
    OBVIOUS
  <2> HIDE DEF b
  <2>4. /\ IsOp(f) /\ f.at = "sent" /\ f.card = c /\ f.body = b /\ f.clear = q.clear \ {c}
        /\ f.set = q.set /\ f.kind = q.kind /\ f.before = q.before /\ f.want = q.want
        /\ f.status = q.status /\ f.alone = q.alone /\ f.rows = Page!Nothing
    BY <2>2 DEF IsOp
  <2>5. Knows(f)
    BY <2>3, <2>4, NothingIsEmpty DEF Knows
  <2>6. Plan(f)
    BY <2>3, <2>4 DEF Plan, Final
  <2>7. f.alone => Progress(f)
    BY <1>1, <2>3, <2>4 DEF Progress, Plan, Setting, Clearing
  <2> QED
    BY <2>4, <2>5, <2>6, <2>7 DEF Good
<1>2. CASE q.clear = {}
  <2>1. PICK c \in q.set : f = Page!Request(q, c, q.want[c])
    BY <1>2 DEF Page!Following
  <2> DEFINE b == [number |-> q.want[c]]
  <2>2. f = [q EXCEPT !.at = "sent", !.card = c, !.body = b,
              !.clear = q.clear \ {c}, !.set = q.set \ {c}, !.rows = Page!Nothing]
    BY <1>2, <2>1 DEF Page!Request, IsOp
  <2>3. DOMAIN b = {"number"} /\ b.number = q.want[c]
    OBVIOUS
  <2> HIDE DEF b
  <2>4. /\ IsOp(f) /\ f.at = "sent" /\ f.card = c /\ f.body = b /\ f.clear = {}
        /\ f.set = q.set \ {c} /\ f.kind = q.kind /\ f.before = q.before /\ f.want = q.want
        /\ f.status = q.status /\ f.alone = q.alone /\ f.rows = Page!Nothing
    BY <1>2, <2>2 DEF IsOp
  <2>5. Knows(f)
    BY <2>3, <2>4, NothingIsEmpty DEF Knows
  <2>6. Plan(f)
    BY <2>1, <2>3, <2>4 DEF Plan, Final
  <2>7. f.alone => Progress(f)
    BY <1>2, <2>1, <2>3, <2>4 DEF Progress, Plan, Setting, Clearing
  <2> QED
    BY <2>4, <2>5, <2>6, <2>7 DEF Good
<1> QED
  BY <1>1, <1>2

\* What a save has planned before its first request.
Planned(o, q) ==
    /\ IsOp(q) /\ q.kind = "numbers" /\ q.before = listed /\ q.at = "idle"
    /\ q.status = "ok" /\ q.alone /\ Plan(q) /\ Progress(q)
    /\ DOMAIN q.got = {c \in DOMAIN q.want : q.want[c] = 0}
    /\ q.set = {c \in DOMAIN q.want : q.want[c] # 0}
    /\ \A c \in DOMAIN q.got : q.got[c] = [listed[c] EXCEPT !.number = 0]
    /\ act'[o] \in Page!Following(q)

LEMMA SavesSo ==
    ASSUME ListInv, NEW o \in Op, NEW draft \in [DOMAIN listed -> Page!Number],
           Page!SaveNumbers(o, draft)
    PROVE  /\ OneSteps(o) /\ act[o].at = "idle"
           /\ listed' = listed /\ filtered' = filtered /\ doubt' = doubt
           /\ \E q : Planned(o, q)
<1> DEFINE set == {c \in Page!Changed(draft) : draft[c] # 0}
           got == [c \in Page!Changed(draft) \ set |-> [listed[c] EXCEPT !.number = 0]]
           want == Page!Restrict(draft, Page!Changed(draft))
           first(i) == [i EXCEPT !.kind = "numbers", !.before = listed,
                !.clear = Page!ToClear(draft), !.set = set, !.want = want, !.got = got]
           q == first(Page!Idle)
<1>1. /\ Page!Distinct(draft) /\ listRow' = listRow /\ listed' = listed
      /\ filtered' = filtered /\ doubt' = doubt /\ act[o].at = "idle"
      /\ \E e \in Page!Following(q) : act' = [act EXCEPT ![o] = e]
  BY DEF Page!SaveNumbers
<1>2. PICK e \in Page!Following(q) : act' = [act EXCEPT ![o] = e]
  BY <1>1
<1>3. act'[o] = e /\ OneSteps(o)
  BY <1>1, <1>2 DEF ListInv, Tables, OneSteps
<1>4. /\ DOMAIN want = Page!Changed(draft) /\ Page!Changed(draft) \subseteq DOMAIN listed
      /\ \A c \in Page!Changed(draft) : want[c] = draft[c] /\ listed[c].number # draft[c]
      /\ \A c \in DOMAIN listed : c \notin Page!Changed(draft) => listed[c].number = draft[c]
  BY DEF Page!Changed, Page!Restrict
<1>14. /\ DOMAIN got = Page!Changed(draft) \ set /\ set \subseteq Page!Changed(draft)
       /\ \A c \in DOMAIN got : got[c] = [listed[c] EXCEPT !.number = 0]
       /\ \A c \in Page!Changed(draft) : c \in set <=> draft[c] # 0
  OBVIOUS
<1> HIDE DEF want, got
<1>5. ASSUME NEW i, IsOp(i)
      PROVE  /\ IsOp(first(i)) /\ first(i).kind = "numbers" /\ first(i).before = listed
             /\ first(i).clear = Page!ToClear(draft) /\ first(i).set = set
             /\ first(i).want = want /\ first(i).at = i.at /\ first(i).status = i.status
             /\ first(i).got = got /\ first(i).alone = i.alone
  BY <1>5 DEF IsOp
<1> HIDE DEF first, set
<1>6. /\ IsOp(q) /\ q.kind = "numbers" /\ q.before = listed /\ q.clear = Page!ToClear(draft)
      /\ q.set = set /\ q.want = want /\ q.at = "idle" /\ q.status = "ok"
      /\ q.got = got /\ q.alone
  BY <1>5, IdleOp, Zenon
<1> HIDE DEF q
<1>7. \A c \in DOMAIN listed : Final(q, c) = draft[c]
  BY <1>4, <1>6 DEF Final
<1>8. \A c, d \in DOMAIN listed : c # d /\ draft[c] # 0 => draft[c] # draft[d]
  BY <1>1 DEF Page!Distinct
<1>9. Plan(q)
  BY <1>4, <1>6, <1>7, <1>8 DEF Plan, Page!ToClear, set
<1>10. Progress(q)
  BY <1>4, <1>6 DEF Progress, Page!ToClear, set
<1>11. /\ DOMAIN q.got = {c \in DOMAIN q.want : q.want[c] = 0}
       /\ q.set = {c \in DOMAIN q.want : q.want[c] # 0}
       /\ \A c \in DOMAIN q.got : q.got[c] = [listed[c] EXCEPT !.number = 0]
  BY <1>4, <1>6, <1>14
<1>12. Planned(o, q)
  BY <1>2, <1>3, <1>6, <1>9, <1>10, <1>11 DEF Planned
<1> QED
  BY <1>1, <1>3, <1>12

LEMMA SavesGood ==
    ASSUME ListInv, NEW o \in Op, NEW draft \in [DOMAIN listed -> Page!Number],
           Page!SaveNumbers(o, draft)
    PROVE  ListInv'
<1>1. PICK q : Planned(o, q)
  BY SavesSo, Zenon
<1>2. OneSteps(o) /\ listed' = listed /\ DOMAIN listed \subseteq Card
  BY SavesSo, Zenon DEF ListInv, Tables
<1>3. Good(act'[o])
  BY <1>1, <1>2, NextIsGood DEF Planned
<1> QED
  BY <1>2, <1>3, OneStepsGood

\* An operation that stays is as good as before, but for a change of others.
LEMMA AlikeIsGood ==
    ASSUME NEW q, NEW f, Good(q), IsOp(f), f.at = q.at, f.kind = q.kind, f.card = q.card,
           f.body = q.body, f.before = q.before, f.clear = q.clear, f.set = q.set,
           f.want = q.want, f.rows = q.rows, f.filter = q.filter, f.status = q.status,
           f.alone => q.alone /\ listRow' = listRow
    PROVE  Good(f)'
<1>1. Knows(f)'
  BY DEF Good, Knows, IsOp, Page!Nothing
<1>2. f.kind = "numbers" => Plan(f)'
  BY DEF Good, Plan, Final
<1>3. f.kind = "numbers" /\ f.status = "ok" /\ f.alone => Progress(f)'
  BY DEF Good, Progress, Setting, Clearing
<1>4. f.kind = "reload" => Fetched(f)'
  <2>1. CASE listRow' = listRow
    BY <2>1 DEF Good, Fetched, Page!RowsOf, Page!Fits, Page!Here, Page!Shown, Page!Nothing
  <2>2. CASE ~f.alone
    BY <2>2 DEF Good, Fetched, Page!Nothing
  <2> QED
    BY <2>1, <2>2
<1> QED
  BY <1>1, <1>2, <1>3, <1>4 DEF Good

\* What a commit does to the cards.
LEMMA RowsCommitted ==
    ASSUME Tables, NEW o \in Op, Page!Commit(o)
    PROVE  /\ listRow' = [c \in Card |-> listRow'[c]]
           /\ \A c \in Card \ {act[o].card} : listRow'[c] = listRow[c]
           /\ \A c \in Card : c = act[o].card =>
                /\ IsListRow(listRow'[c])
                /\ listRow'[c].is = IF "is" \in DOMAIN act[o].body
                                    THEN act[o].body["is"] ELSE listRow[c].is
                /\ listRow'[c].active = IF "active" \in DOMAIN act[o].body
                                        THEN act[o].body["active"] ELSE listRow[c].active
                /\ listRow'[c].number = IF "number" \in DOMAIN act[o].body
                                        THEN act[o].body["number"] ELSE listRow[c].number
<1>1. listRow' = [c \in Card |-> IF c = act[o].card THEN Page!Merge(listRow[c], act[o].body)
                                 ELSE listRow[c]]
  BY DEF Page!Commit
<1>2. ASSUME NEW s, NEW b, IsListRow(s)
      PROVE  /\ IsListRow(Page!Merge(s, b))
             /\ Page!Merge(s, b).is = IF "is" \in DOMAIN b THEN b["is"] ELSE s.is
             /\ Page!Merge(s, b).active = IF "active" \in DOMAIN b THEN b["active"] ELSE s.active
             /\ Page!Merge(s, b).number = IF "number" \in DOMAIN b THEN b["number"] ELSE s.number
  <2>1. DOMAIN s = {"is", "active", "number"}
    BY <1>2 DEF IsListRow
  <2>2. Page!Merge(s, b) = [k \in {"is", "active", "number"} |->
                              IF k \in DOMAIN b THEN b[k] ELSE s[k]]
    BY <2>1 DEF Page!Merge
  <2> QED
    BY <2>2 DEF IsListRow
<1>3. ASSUME NEW c \in Card, c = act[o].card
      PROVE  listRow'[c] = Page!Merge(listRow[c], act[o].body) /\ IsListRow(listRow[c])
  BY <1>1, <1>3 DEF Tables
<1>4. listRow' = [c \in Card |-> listRow'[c]]
      /\ \A c \in Card \ {act[o].card} : listRow'[c] = listRow[c]
  BY <1>1
<1> QED
  BY <1>2, <1>3, <1>4

\* What a commit does to its operation.
CommittedRows(o) ==
    IF act[o].kind \in {"toggle", "edit", "create", "numbers"}
    THEN [c \in {act[o].card} |-> [active |-> listRow'[c].active,
                                   number |-> listRow'[c].number]]
    ELSE Page!Nothing

LEMMA CommitsSo ==
    ASSUME NEW o \in Op, IsOp(act[o]), Page!Commit(o)
    PROVE  /\ act[o].at = "sent" /\ Page!Accept(act[o])
           /\ listed' = listed /\ filtered' = filtered /\ doubt' = doubt
           /\ IsOp(act'[o]) /\ act'[o].at = "done" /\ act'[o].kind = act[o].kind
           /\ act'[o].card = act[o].card /\ act'[o].body = act[o].body
           /\ act'[o].before = act[o].before /\ act'[o].clear = act[o].clear
           /\ act'[o].set = act[o].set /\ act'[o].want = act[o].want
           /\ act'[o].status = act[o].status /\ act'[o].rows = CommittedRows(o)
           /\ act'[o].filter = act[o].filter /\ act'[o].got = act[o].got
           /\ act'[o].alone = (act[o].alone \/ act[o].kind = "reload")
<1> DEFINE e == act[o]
           rows == CommittedRows(o)
           alone == e.alone \/ e.kind = "reload"
<1>1. /\ e.at = "sent" /\ Page!Accept(e)
      /\ listed' = listed /\ filtered' = filtered /\ doubt' = doubt
      /\ act'[o] = [e EXCEPT !.at = "done", !.alone = alone, !.rows = rows]
  BY DEF Page!Commit, CommittedRows
<1> HIDE DEF rows
<1>2. alone \in BOOLEAN
  OBVIOUS
<1> DEFINE done(i, a, r) == [i EXCEPT !.at = "done", !.alone = a, !.rows = r]
<1>3. ASSUME NEW i, IsOp(i), NEW a \in BOOLEAN, NEW r
      PROVE  /\ IsOp(done(i, a, r)) /\ done(i, a, r).at = "done"
             /\ done(i, a, r).kind = i.kind /\ done(i, a, r).card = i.card
             /\ done(i, a, r).body = i.body /\ done(i, a, r).before = i.before
             /\ done(i, a, r).clear = i.clear /\ done(i, a, r).set = i.set
             /\ done(i, a, r).want = i.want /\ done(i, a, r).status = i.status
             /\ done(i, a, r).rows = r /\ done(i, a, r).filter = i.filter
             /\ done(i, a, r).got = i.got /\ done(i, a, r).alone = a
  BY <1>3 DEF IsOp
<1>4. act'[o] = done(e, alone, rows)
  BY <1>1
<1> HIDE DEF alone, done
<1>5. /\ IsOp(done(e, alone, rows)) /\ done(e, alone, rows).at = "done"
      /\ done(e, alone, rows).kind = e.kind /\ done(e, alone, rows).card = e.card
      /\ done(e, alone, rows).body = e.body /\ done(e, alone, rows).before = e.before
      /\ done(e, alone, rows).clear = e.clear /\ done(e, alone, rows).set = e.set
      /\ done(e, alone, rows).want = e.want /\ done(e, alone, rows).status = e.status
      /\ done(e, alone, rows).rows = rows /\ done(e, alone, rows).filter = e.filter
      /\ done(e, alone, rows).got = e.got /\ done(e, alone, rows).alone = alone
  BY <1>2, <1>3
<1> QED
  BY <1>1, <1>4, <1>5, Zenon DEF rows, alone

LEMMA CommitsGood ==
    ASSUME Nameless, ListInv, NEW o \in Op, Page!Commit(o)
    PROVE  ListInv'
<1> DEFINE e == act[o]
           rows == CommittedRows(o)
<1>1. /\ e.at = "sent" /\ listed' = listed /\ act' = [p \in Op |-> act'[p]]
      /\ \A p \in Op \ {o} :
            act'[p] = [act[p] EXCEPT !.alone = @ /\ e.body = Page!Nothing]
  BY DEF Page!Commit
<1>2. act' = [p \in Op |-> act'[p]]
  BY <1>1
<1>3. IsOp(e) /\ Good(e) /\ Knows(e)
  BY DEF ListInv, Good, Knows
<1>4. /\ IsOp(act'[o]) /\ act'[o].at = "done" /\ act'[o].kind = e.kind
      /\ act'[o].card = e.card /\ act'[o].body = e.body /\ act'[o].before = e.before
      /\ act'[o].clear = e.clear /\ act'[o].set = e.set /\ act'[o].want = e.want
      /\ act'[o].status = e.status /\ act'[o].rows = rows
      /\ act'[o].alone = (e.alone \/ e.kind = "reload")
  BY <1>3, CommitsSo
<1>5. ASSUME NEW c \in Card
      PROVE  /\ IsListRow(listRow'[c])
             /\ c # e.card => listRow'[c] = listRow[c]
             /\ c = e.card /\ DOMAIN e.body = {"number"} => listRow'[c].number = e.body.number
  BY RowsCommitted DEF ListInv, Tables
<1>6. Tables'
  BY <1>1, <1>2, <1>5, RowsCommitted DEF ListInv, Tables, IsListRow
<1>7. e.body = Page!Nothing => listRow' = listRow
  <2>1. ASSUME e.body = Page!Nothing PROVE \A c \in Card : listRow'[c] = listRow[c]
    BY <1>1, <1>3, <1>5, <2>1 DEF Knows, Nameless
  <2> QED
    BY <2>1, RowsCommitted DEF ListInv, Tables
<1>8. ASSUME NEW p \in Op, p # o PROVE Good(act[p])'
  <2>1. act'[p] = [act[p] EXCEPT !.alone = @ /\ e.body = Page!Nothing]
    BY <1>1, <1>8
  <2>2. Good(act[p]) /\ IsOp(act[p])
    BY DEF ListInv, Good, Knows
  <2>3. /\ IsOp(act'[p]) /\ act'[p].at = act[p].at /\ act'[p].kind = act[p].kind
        /\ act'[p].card = act[p].card /\ act'[p].body = act[p].body
        /\ act'[p].before = act[p].before /\ act'[p].clear = act[p].clear
        /\ act'[p].set = act[p].set /\ act'[p].want = act[p].want
        /\ act'[p].rows = act[p].rows /\ act'[p].filter = act[p].filter
        /\ act'[p].status = act[p].status
        /\ act'[p].alone = (act[p].alone /\ e.body = Page!Nothing)
    BY <2>1, <2>2 DEF IsOp
  <2>4. act'[p].alone => act[p].alone /\ listRow' = listRow
    BY <1>7, <2>3
  <2> QED
    BY <2>2, <2>3, <2>4, AlikeIsGood
<1>9. Knows(act[o])'
  <2>1. e.kind = "reload" => rows = Page!Nothing
    BY DEF CommittedRows
  <2> HIDE DEF rows
  <2>2. e.kind = "reload" => DOMAIN rows \subseteq Card
    BY <2>1, NothingIsEmpty
  <2> QED
    BY <1>3, <1>4, <2>2 DEF Knows, IsOp
<1>10. e.kind = "numbers" => Plan(act[o])'
  BY <1>3, <1>4 DEF Good, Plan, Final
<1>11. ASSUME e.kind = "numbers", e.status = "ok", act'[o].alone PROVE Progress(act[o])'
  <2>1. Plan(e) /\ Progress(e) /\ DOMAIN e.want \subseteq Card
    BY <1>3, <1>4, <1>11 DEF Good, Plan, Knows
  <2>2. /\ e.card \in DOMAIN e.want /\ DOMAIN e.body = {"number"}
        /\ e.body.number # 0 => e.body.number = e.want[e.card] /\ e.clear = {}
    BY <1>1, <2>1 DEF Plan
  <2>3. \A c \in DOMAIN e.want :
          listRow'[c].number = IF c = e.card THEN e.body.number ELSE listRow[c].number
    BY <1>5, <2>1, <2>2
  <2>4. ASSUME NEW c \in DOMAIN e.want, e.want[c] # 0
        PROVE  c \in e.set \/ listRow'[c].number = e.want[c]
    BY <1>1, <2>1, <2>2, <2>3, <2>4 DEF Progress, Setting
  <2>5. ASSUME e.clear # {}, NEW c \in DOMAIN e.want, e.want[c] # 0 PROVE c \in e.set
    BY <2>1, <2>5 DEF Progress
  <2>6. ASSUME NEW c \in DOMAIN e.want, e.before[c].number # 0
        PROVE  c \in e.clear \/ listRow'[c].number \in {0, e.want[c]}
    BY <1>1, <2>1, <2>2, <2>3, <2>6 DEF Progress, Clearing
  <2> QED
    BY <1>4, <2>4, <2>5, <2>6 DEF Progress
<1>12. e.kind = "reload" => Fetched(act[o])'
  <2>1. e.kind = "reload" => rows = Page!Nothing
    BY DEF CommittedRows
  <2> QED
    BY <1>4, <2>1 DEF Fetched, Page!Nothing
<1>13. Good(act[o])'
  BY <1>4, <1>9, <1>10, <1>11, <1>12 DEF Good
<1>14. ASSUME NEW p \in Op PROVE Good(act[p])'
  BY <1>8, <1>13
<1> QED
  BY <1>6, <1>14 DEF ListInv

\* A request is refused or lost, or answered.
LEMMA AnswersSo ==
    ASSUME Tables, NEW o \in Op, IsOp(act[o]), Page!Refuse(o) \/ Page!Lose(o)
    PROVE  /\ OneSteps(o) /\ listed' = listed /\ filtered' = filtered
           /\ IsOp(act'[o]) /\ act'[o].at = "reply" /\ act'[o].kind = act[o].kind
           /\ act'[o].card = act[o].card /\ act'[o].before = act[o].before
           /\ act'[o].clear = act[o].clear /\ act'[o].set = act[o].set
           /\ act'[o].want = act[o].want /\ act'[o].rows = act[o].rows
           /\ act'[o].alone = act[o].alone
           /\ act'[o].status \in {"refused", "lost"} \cup (Fault \cap {"limited"})
           /\ \/ act[o].at = "sent" /\ doubt' = doubt
              \/ /\ act[o].at = "done"
                 /\ doubt' = (doubt \/ act[o].body # Page!Nothing)
<1>1. PICK s \in {"refused", "lost"} \cup (Fault \cap {"limited"}) :
        act' = [act EXCEPT ![o].at = "reply", ![o].status = s]
  BY Zenon DEF Page!Refuse, Page!Lose
<1>2. /\ listRow' = listRow /\ listed' = listed /\ filtered' = filtered
      /\ \/ act[o].at = "sent" /\ doubt' = doubt
         \/ /\ act[o].at = "done"
            /\ doubt' = (doubt \/ act[o].body # Page!Nothing)
  BY Zenon DEF Page!Refuse, Page!Lose
<1>3. act'[o] = [act[o] EXCEPT !.at = "reply", !.status = s] /\ OneSteps(o)
  BY <1>1, <1>2 DEF Tables, OneSteps
<1>4. /\ IsOp(act'[o]) /\ act'[o].at = "reply" /\ act'[o].kind = act[o].kind
      /\ act'[o].card = act[o].card /\ act'[o].before = act[o].before
      /\ act'[o].clear = act[o].clear /\ act'[o].set = act[o].set
      /\ act'[o].want = act[o].want /\ act'[o].rows = act[o].rows
      /\ act'[o].alone = act[o].alone /\ act'[o].status = s
  BY <1>3 DEF IsOp
<1> QED
  BY <1>1, <1>2, <1>3, <1>4

LEMMA AnswersGood ==
    ASSUME ListInv, NEW o \in Op, Page!Refuse(o) \/ Page!Lose(o)
    PROVE  ListInv'
<1>1. Good(act[o]) /\ IsOp(act[o])
  BY DEF ListInv, Good, Knows
<1>2. /\ OneSteps(o) /\ listed' = listed
      /\ IsOp(act'[o]) /\ act'[o].at = "reply" /\ act'[o].kind = act[o].kind
      /\ act'[o].card = act[o].card /\ act'[o].before = act[o].before
      /\ act'[o].clear = act[o].clear /\ act'[o].set = act[o].set
      /\ act'[o].want = act[o].want /\ act'[o].rows = act[o].rows
      /\ act'[o].status # "ok"
  BY <1>1, AnswersSo DEF ListInv
<1>3. Good(act'[o])
  BY <1>1, <1>2 DEF Good, Knows, Plan, Final, Fetched
<1> QED
  BY <1>2, <1>3, OneStepsGood DEF ListInv, Tables

LEMMA ReadsSo ==
    ASSUME Tables, NEW o \in Op, IsOp(act[o]), Page!Read(o)
    PROVE  /\ OneSteps(o) /\ listed' = listed /\ filtered' = filtered /\ doubt' = doubt
           /\ IsOp(act'[o]) /\ act[o].at = "done" /\ act'[o].at = "reply"
           /\ act'[o].kind = act[o].kind /\ act'[o].card = act[o].card
           /\ act'[o].body = act[o].body /\ act'[o].before = act[o].before
           /\ act'[o].clear = act[o].clear /\ act'[o].set = act[o].set
           /\ act'[o].want = act[o].want /\ act'[o].got = act[o].got
           /\ act'[o].status = act[o].status /\ act'[o].alone = act[o].alone
           /\ act'[o].filter = act[o].filter
           /\ \E S \in SUBSET {c \in Card : Page!Here(c)} :
                /\ act'[o].rows = Page!Over(Page!RowsOf(S), act[o].rows)
                /\ act[o].kind = "reload" => S = {c \in Card : Page!Fits(c, act[o].filter)}
                /\ act[o].kind = "numbers" => S = {}
<1> DEFINE chosen == CASE act[o].kind = "reload" ->
                              {{c \in Card : Page!Fits(c, act[o].filter)}}
                        [] act[o].kind = "numbers" -> {{}}
                        [] OTHER -> {{}, {c \in Card : Page!Fits(c, "active")}}
<1>0. \E S \in chosen : act' = [act EXCEPT ![o].at = "reply",
                                 ![o].rows = Page!Over(Page!RowsOf(S), act[o].rows)]
  BY DEF Page!Read
<1>6. ASSUME NEW S \in chosen
      PROVE  /\ act[o].kind = "reload" => S = {c \in Card : Page!Fits(c, act[o].filter)}
             /\ act[o].kind = "numbers" => S = {}
             /\ S = {} \/ \E f : S = {c \in Card : Page!Fits(c, f)}
  <2>1. CASE act[o].kind = "reload"
    BY <2>1
  <2>2. CASE act[o].kind = "numbers"
    BY <2>2
  <2>3. CASE act[o].kind \notin {"reload", "numbers"}
    BY <2>3
  <2> QED
    BY <2>1, <2>2, <2>3
<1> HIDE DEF chosen
<1>1. PICK S : /\ act' = [act EXCEPT ![o].at = "reply",
                              ![o].rows = Page!Over(Page!RowsOf(S), act[o].rows)]
               /\ act[o].kind = "reload" => S = {c \in Card : Page!Fits(c, act[o].filter)}
               /\ act[o].kind = "numbers" => S = {}
               /\ S = {} \/ \E f : S = {c \in Card : Page!Fits(c, f)}
  BY <1>0, <1>6, Zenon
<1>2. /\ listRow' = listRow /\ listed' = listed /\ filtered' = filtered /\ doubt' = doubt
      /\ act[o].at = "done"
  BY DEF Page!Read
<1>3. S \in SUBSET {c \in Card : Page!Here(c)}
  BY <1>1 DEF Page!Fits
<1> DEFINE rows == Page!Over(Page!RowsOf(S), act[o].rows)
<1>4. act'[o] = [act[o] EXCEPT !.at = "reply", !.rows = rows] /\ OneSteps(o)
  BY <1>1, <1>2 DEF Tables, OneSteps
<1> HIDE DEF rows
<1>5. /\ IsOp(act'[o]) /\ act'[o].at = "reply" /\ act'[o].kind = act[o].kind
      /\ act'[o].card = act[o].card /\ act'[o].body = act[o].body
      /\ act'[o].before = act[o].before /\ act'[o].clear = act[o].clear
      /\ act'[o].set = act[o].set /\ act'[o].want = act[o].want
      /\ act'[o].got = act[o].got /\ act'[o].rows = rows
      /\ act'[o].status = act[o].status /\ act'[o].alone = act[o].alone
      /\ act'[o].filter = act[o].filter
  BY <1>4 DEF IsOp
<1> QED
  BY <1>1, <1>2, <1>3, <1>4, <1>5 DEF rows

LEMMA ReadsGood ==
    ASSUME ListInv, NEW o \in Op, Page!Read(o)
    PROVE  ListInv'
<1>0. Good(act[o]) /\ IsOp(act[o]) /\ Tables
  BY DEF ListInv, Good, Knows
<1>1. PICK S : /\ act'[o].rows = Page!Over(Page!RowsOf(S), act[o].rows)
               /\ act[o].kind = "reload" => S = {c \in Card : Page!Fits(c, act[o].filter)}
  BY <1>0, ReadsSo
<1> DEFINE rows == Page!Over(Page!RowsOf(S), act[o].rows)
<1>2. OneSteps(o) /\ listed' = listed
  BY <1>0, ReadsSo
<1>3. Good(act[o]) /\ act[o].at = "done"
  BY <1>0, ReadsSo
<1>4. act[o].kind = "reload" => rows = Page!RowsOf({c \in Card : Page!Fits(c, act[o].filter)})
  <2>1. ASSUME act[o].kind = "reload"
        PROVE  rows = Page!RowsOf({c \in Card : Page!Fits(c, act[o].filter)})
    <3>1. act[o].rows = Page!Nothing
      BY <1>3, <2>1 DEF Good, Fetched
    <3>2. DOMAIN Page!RowsOf(S) = S /\ Page!RowsOf(S) = [c \in S |-> Page!RowsOf(S)[c]]
      BY DEF Page!RowsOf
    <3>3. rows = [c \in S |-> Page!RowsOf(S)[c]]
      BY <3>1, <3>2, NothingIsEmpty DEF Page!Over
    <3> QED
      BY <1>1, <2>1, <3>2, <3>3
  <2> QED
    BY <2>1
<1>5. /\ IsOp(act'[o]) /\ act'[o].at = "reply" /\ act'[o].kind = act[o].kind
      /\ act'[o].card = act[o].card /\ act'[o].before = act[o].before
      /\ act'[o].clear = act[o].clear /\ act'[o].set = act[o].set
      /\ act'[o].want = act[o].want /\ act'[o].rows = rows /\ act'[o].status = act[o].status
      /\ act'[o].alone = act[o].alone /\ act'[o].filter = act[o].filter
  BY <1>0, <1>1, ReadsSo
<1> HIDE DEF rows
<1>6. act[o].kind = "reload" => DOMAIN rows \subseteq Card
  BY <1>4 DEF Page!RowsOf
<1>7. Knows(act'[o])
  BY <1>3, <1>5, <1>6 DEF Good, Knows
<1>8. act[o].kind = "numbers" =>
        Plan(act'[o]) /\ (act'[o].status = "ok" /\ act'[o].alone => Progress(act'[o]))
  <2>1. ASSUME act[o].kind = "numbers" PROVE Plan(act'[o])
    <3>1. \A c : Final(act'[o], c) = Final(act[o], c)
      BY <1>5 DEF Final
    <3>2. Plan(act[o])
      BY <1>3, <2>1 DEF Good
    <3> QED
      BY <1>5, <3>1, <3>2 DEF Plan
  <2>2. ASSUME act[o].kind = "numbers", act'[o].status = "ok", act'[o].alone
        PROVE  Progress(act'[o])
    <3>1. Progress(act[o])
      BY <1>3, <1>5, <2>2 DEF Good
    <3> QED
      BY <1>3, <1>5, <3>1 DEF Progress, Setting, Clearing
  <2> QED
    BY <2>1, <2>2
<1>9. act[o].kind = "reload" => Fetched(act'[o])
  BY <1>4, <1>5 DEF Fetched
<1>10. Good(act'[o])
  BY <1>5, <1>7, <1>8, <1>9 DEF Good
<1> QED
  BY <1>2, <1>10, OneStepsGood DEF ListInv, Tables

LEMMA EndsGood ==
    ASSUME ListInv, NEW o \in Op, Page!Finish(o), listRow' = listRow,
           (DOMAIN listed \subseteq Card)'
    PROVE  ListInv'
<1>1. act'[o] = Page!Idle /\ OneSteps(o)
  BY DEF Page!Finish, ListInv, Tables, OneSteps
<1>2. Good(act'[o])
  BY <1>1, IdleIsGood, Zenon
<1> QED
  BY <1>1, <1>2, OneStepsGood

LEMMA ArrivesGood ==
    ASSUME ListInv, NEW o \in Op, Page!Answer(o)
    PROVE  ListInv'
<1>1. DOMAIN listed \subseteq Card /\ Knows(act[o]) /\ Good(act[o]) /\ IsOp(act[o])
  BY DEF ListInv, Tables, Good, Knows
<1>2. CASE Page!Replace(o)
  <2>1. Page!Finish(o) /\ listRow' = listRow /\ DOMAIN listed' = DOMAIN listed
    BY <1>2 DEF Page!Replace, Page!Merge
  <2> QED
    BY <1>1, <2>1, EndsGood
<1>3. CASE Page!Add(o)
  <2>1. Page!Finish(o) /\ listRow' = listRow /\ act[o].card \in Card
        /\ DOMAIN listed' = {act[o].card} \cup DOMAIN listed
    BY <1>1, <1>3 DEF Page!Add, Page!Merge, Page!Over, Page!Answered, Knows
  <2> QED
    BY <1>1, <2>1, EndsGood
<1>4. CASE Page!Load(o)
  <2>1. Page!Finish(o) /\ listRow' = listRow /\ listed' = act[o].rows /\ act[o].kind = "reload"
    BY <1>4 DEF Page!Load, Page!Answered
  <2> QED
    BY <1>1, <2>1, EndsGood DEF Knows
<1>5. CASE Page!Fail(o)
  <2>1. Page!Finish(o) /\ listRow' = listRow /\ (listed' = listed \/ listed' = act[o].before)
    BY <1>5 DEF Page!Fail
  <2> QED
    BY <1>1, <2>1, EndsGood DEF Knows
<1>6. CASE Page!Continue(o)
  <2> DEFINE got == Page!Kept(act[o])
             e == [act[o] EXCEPT !.got = got]
  <2>1. act[o].at = "reply" /\ act[o].status = "ok" /\ act[o].kind = "numbers" /\ listRow' = listRow
    BY <1>6 DEF Page!Continue, Page!Answered
  <2>2. CASE Page!Following(e) = {}
    <3>1. Page!Finish(o) /\ DOMAIN listed' = DOMAIN listed
      BY <1>6, <2>2 DEF Page!Continue, Page!Merge
    <3> QED
      BY <1>1, <2>1, <3>1, EndsGood
  <2>3. CASE Page!Following(e) # {}
    <3>1. PICK f \in Page!Following(e) : act' = [act EXCEPT ![o] = f]
      BY <1>6, <2>3 DEF Page!Continue
    <3>2. listed' = listed
      BY <1>6, <2>3 DEF Page!Continue
    <3>3. act'[o] = f /\ OneSteps(o)
      BY <2>1, <3>1 DEF OneSteps, ListInv, Tables
    <3> HIDE DEF got
    <3>4. /\ IsOp(e) /\ e.at = "reply" /\ e.kind = "numbers" /\ e.status = "ok"
          /\ e.before = act[o].before /\ e.clear = act[o].clear /\ e.set = act[o].set
          /\ e.want = act[o].want /\ e.alone = act[o].alone /\ e.body = act[o].body
          /\ e.card = act[o].card
      BY <1>1, <2>1 DEF IsOp
    <3> HIDE DEF e
    <3>5. Plan(e) /\ DOMAIN e.before \subseteq Card
      BY <1>1, <2>1, <3>4 DEF Good, Plan, Final, Knows
    <3>6. e.alone => Progress(e)
      BY <1>1, <2>1, <3>4 DEF Good, Progress, Setting, Clearing
    <3>7. Good(f)
      BY <3>4, <3>5, <3>6, NextIsGood
    <3> QED
      BY <1>1, <2>1, <3>2, <3>3, <3>7, OneStepsGood
  <2> QED
    BY <2>2, <2>3
<1> QED
  BY <1>2, <1>3, <1>4, <1>5, <1>6 DEF Page!Answer

LEMMA ListStarts == Page!Init => ListInv
<1> SUFFICES ASSUME Page!Init PROVE ListInv
  OBVIOUS
<1>1. PICK S \in SUBSET Card :
        listRow = [c \in Card |-> [is |-> IF c \in S THEN "here" ELSE "new",
                                   active |-> TRUE, number |-> 0]]
  BY DEF Page!Init
<1>2. act = [o \in Op |-> Page!Idle] /\ listed = Page!RowsOf({c \in Card : Page!Here(c)})
  BY DEF Page!Init
<1>3. DOMAIN listed \subseteq Card
  BY <1>2 DEF Page!RowsOf
<1>4. \A o \in Op : act[o] = Page!Idle
  BY <1>2
<1>5. \A o \in Op : Good(act[o])
  BY <1>4, IdleIsGood, Zenon
<1>6. act = [o \in Op |-> act[o]]
  BY <1>2
<1>7. listRow = [c \in Card |-> listRow[c]] /\ \A c \in Card : IsListRow(listRow[c])
  BY <1>1 DEF IsListRow
<1> QED
  BY <1>3, <1>5, <1>6, <1>7 DEF ListInv, Tables

LEMMA ListKept ==
    ASSUME Nameless, ListInv, [Page!Next]_(Page!vars)
    PROVE  ListInv'
<1>1. CASE UNCHANGED Page!vars
  <2>1. listRow' = listRow /\ listed' = listed /\ act' = act
    BY <1>1 DEF Page!vars
  <2>2. ASSUME NEW o \in Op PROVE Good(act[o])'
    BY <2>1, StaysGood DEF ListInv
  <2> QED
    BY <2>1, <2>2 DEF ListInv, Tables, IsListRow
<1>2. ASSUME NEW o \in Op, Page!Use(o) PROVE ListInv'
  BY <1>2, BeginsGood, ReloadsGood, SavesGood DEF Page!Use
<1>3. ASSUME NEW o \in Op, Page!Serve(o) PROVE ListInv'
  BY <1>3, CommitsGood, AnswersGood, ReadsGood DEF Page!Serve
<1>4. ASSUME NEW o \in Op, Page!Answer(o) PROVE ListInv'
  BY <1>4, ArrivesGood
<1> QED
  BY <1>1, <1>2, <1>3, <1>4 DEF Page!Next

\* An operation ends only with its answer.
LEMMA OnlyAnswersEnd ==
    ASSUME ListInv, [Page!Next]_(Page!vars), NEW o \in Op,
           act[o].at # "idle", act'[o].at = "idle"
    PROVE  Page!Answer(o)
<1>1. CASE UNCHANGED Page!vars
  BY <1>1 DEF Page!vars
<1>2. ASSUME NEW p \in Op, Page!Use(p) PROVE FALSE
  <2>1. act[p].at = "idle" /\ \A q \in Op \ {p} : act'[q] = act[q]
    <3>1. ASSUME NEW k, NEW c, NEW b, Page!Send(p, k, c, b)
          PROVE  act[p].at = "idle" /\ \A q \in Op \ {p} : act'[q] = act[q]
      BY <3>1 DEF Page!Send, ListInv, Tables
    <3>2. ASSUME Page!Weights(p) \/ \E c \in Card : Page!Toggle(p, c) \/ Page!Delete(p, c)
                 \/ \E n \in Page!Number : Page!Edit(p, c, n) \/ Page!Create(p, c, n)
          PROVE  \E k, c, b : Page!Send(p, k, c, b)
      BY <3>2, Zenon DEF Page!Weights, Page!Toggle, Page!Delete, Page!Edit, Page!Create
    <3>3. ASSUME \/ \E f \in Page!Filter : Page!Reload(p, f)
                 \/ \E draft \in [DOMAIN listed -> Page!Number] : Page!SaveNumbers(p, draft)
          PROVE  act[p].at = "idle" /\ \A q \in Op \ {p} : act'[q] = act[q]
      <4>1. act[p].at = "idle" /\ \E e : act' = [act EXCEPT ![p] = e]
        BY <3>3, Zenon DEF Page!Reload, Page!SaveNumbers
      <4> QED
        BY <4>1 DEF ListInv, Tables
    <3> QED
      BY <1>2, <3>1, <3>2, <3>3 DEF Page!Use
  <2> QED
    BY <2>1
<1>3. ASSUME NEW p \in Op, Page!Serve(p) PROVE FALSE
  <2>1. IsOp(act[o]) /\ IsOp(act[p])
    BY DEF ListInv, Good, Knows
  <2>2. CASE Page!Commit(p)
    <3>1. CASE o = p
      <4>1. \E a, r : act'[o] = [act[o] EXCEPT !.at = "done", !.alone = a, !.rows = r]
        BY <2>2, <3>1, Zenon DEF Page!Commit
      <4> QED
        BY <2>1, <4>1 DEF IsOp
    <3>2. CASE o # p
      <4>1. \E a : act'[o] = [act[o] EXCEPT !.alone = a]
        BY <2>2, <3>2 DEF Page!Commit
      <4> QED
        BY <2>1, <4>1 DEF IsOp
    <3> QED
      BY <3>1, <3>2
  <2>3. CASE Page!Refuse(p) \/ Page!Lose(p)
    <3>1. \E s : act' = [act EXCEPT ![p].at = "reply", ![p].status = s]
      BY <2>3 DEF Page!Refuse, Page!Lose
    <3>2. PICK s : act' = [act EXCEPT ![p] = [act[p] EXCEPT !.at = "reply", !.status = s]]
      BY <3>1
    <3>3. [act[p] EXCEPT !.at = "reply", !.status = s].at = "reply"
      BY <2>1 DEF IsOp
    <3> QED
      BY <3>2, <3>3 DEF ListInv, Tables
  <2>4. CASE Page!Read(p)
    <3>1. \E r : act' = [act EXCEPT ![p].at = "reply", ![p].rows = r]
      BY <2>4 DEF Page!Read
    <3>2. PICK r : act' = [act EXCEPT ![p] = [act[p] EXCEPT !.at = "reply", !.rows = r]]
      BY <3>1
    <3>3. [act[p] EXCEPT !.at = "reply", !.rows = r].at = "reply"
      BY <2>1 DEF IsOp
    <3> QED
      BY <3>2, <3>3 DEF ListInv, Tables
  <2> QED
    BY <1>3, <2>2, <2>3, <2>4 DEF Page!Serve
<1>4. ASSUME NEW p \in Op, Page!Answer(p), p # o PROVE FALSE
  <2>1. \E e : act' = [act EXCEPT ![p] = e]
    BY <1>4, Zenon DEF Page!Answer, Page!Replace, Page!Add, Page!Load, Page!Continue, Page!Fail,
       Page!Finish
  <2> QED
    BY <1>4, <2>1 DEF ListInv, Tables
<1> QED
  BY <1>1, <1>2, <1>3, <1>4 DEF Page!Next

LEMMA ListInvariance == ASSUME Nameless PROVE Page!Spec => []ListInv
<1>1. ListInv /\ [Page!Next]_(Page!vars) => ListInv'
  BY ListKept
<1> QED
  BY <1>1, ListStarts, PTL DEF Page!Spec

(* A save of the numbers that succeeded, with no other change meanwhile,   *)
(* has given every card the number that was asked for.                     *)
THEOREM NumbersSaved ==
    ASSUME Nameless
    PROVE  Page!Spec => [][Page!SavesNumbers]_(Page!vars)
<1>1. ASSUME ListInv, [Page!Next]_(Page!vars) PROVE [Page!SavesNumbers]_(Page!vars)
  <2> SUFFICES ASSUME NEW o \in Op, act[o].kind = "numbers", act[o].status = "ok",
                      act[o].alone, act'[o].at = "idle", NEW c \in DOMAIN act[o].want
               PROVE  listRow[c].number = act[o].want[c]
    BY DEF Page!SavesNumbers
  <2>1. /\ act[o].at \in {"sent", "done", "reply"} /\ Plan(act[o]) /\ Progress(act[o])
        /\ IsOp(act[o]) /\ DOMAIN act[o].before \subseteq Card
    BY <1>1 DEF ListInv, Good, Knows
  <2>2. Page!Answer(o)
    BY <1>1, <2>1, OnlyAnswersEnd
  <2>3. Page!Continue(o)
    BY <2>2 DEF Page!Answer, Page!Replace, Page!Add, Page!Load, Page!Fail, Page!Answered
  <2> DEFINE got == Page!Kept(act[o])
             e == [act[o] EXCEPT !.got = got]
  <2>4. Page!Following(e) = {}
    <3>1. CASE Page!Following(e) # {}
      <4>1. PICK f \in Page!Following(e) : act' = [act EXCEPT ![o] = f]
        BY <2>3, <3>1 DEF Page!Continue
      <4>2. act'[o] = f
        BY <1>1, <4>1 DEF ListInv, Tables
      <4> HIDE DEF got
      <4>3. IsOp(e)
        BY <2>1 DEF IsOp
      <4> HIDE DEF e
      <4>4. \E d, n : f = Page!Request(e, d, n)
        BY Zenon DEF Page!Following
      <4>5. f.at = "sent"
        BY <4>3, <4>4 DEF Page!Request, IsOp
      <4> QED
        BY <4>2, <4>5
    <3> QED
      BY <3>1
  <2> HIDE DEF got
  <2>5. e.clear = act[o].clear /\ e.set = act[o].set
    BY <2>1 DEF IsOp
  <2> HIDE DEF e
  <2>6. e.clear = {} /\ e.set = {}
    BY <2>4 DEF Page!Following
  <2>7. act[o].at = "reply"
    BY <2>3 DEF Page!Continue, Page!Answered
  <2> QED
    BY <2>1, <2>5, <2>6, <2>7 DEF Progress, Plan, Setting, Clearing
<1> QED
  BY <1>1, ListInvariance, PTL DEF Page!Spec

(* A reload that no change came between makes the list the server's,       *)
(* whatever other operations of the page are under way.                    *)
THEOREM ReloadsRepair ==
    ASSUME Nameless
    PROVE  Page!Spec => [][Page!RepairsList]_(Page!vars)
<1>1. ASSUME ListInv, [Page!Next]_(Page!vars) PROVE [Page!RepairsList]_(Page!vars)
  <2> SUFFICES ASSUME NEW o \in Op, act[o].kind = "reload", act[o].status = "ok",
                      act[o].alone, act[o].at = "reply", act'[o].at = "idle"
               PROVE  listed' = Page!RowsOf({c \in Card : Page!Fits(c, act[o].filter)})
    BY DEF Page!RepairsList
  <2>1. Page!Answer(o)
    BY <1>1, OnlyAnswersEnd
  <2>2. Page!Load(o)
    BY <2>1 DEF Page!Answer, Page!Replace, Page!Add, Page!Continue, Page!Fail, Page!Answered
  <2> QED
    BY <1>1, <2>2 DEF Page!Load, ListInv, Good, Fetched
<1> QED
  BY <1>1, ListInvariance, PTL DEF Page!Spec

(* A save that no other change comes between is never refused for a number *)
(* that the page shows at another card: that card was cleared first.       *)
THEOREM SavesMeetNoNumber ==
    ASSUME Nameless
    PROVE  Page!Spec => []Page!NoSelfConflict
<1>1. ListInv => Page!NoSelfConflict
  <2> SUFFICES ASSUME ListInv, NEW o \in Op, act[o].at = "sent", act[o].kind = "numbers",
                      act[o].alone, act[o].body.number # 0,
                      NEW d \in DOMAIN act[o].before \ {act[o].card},
                      act[o].before[d].number = act[o].body.number
               PROVE  listRow[d].number # act[o].body.number
    BY DEF Page!NoSelfConflict
  <2> DEFINE q == act[o]
  <2>1. Plan(q) /\ Progress(q)
    BY DEF ListInv, Good, Plan
  <2>2. q.card \in DOMAIN q.want /\ q.body.number = q.want[q.card] /\ q.clear = {}
        /\ q.card \in DOMAIN q.before
    BY <2>1 DEF Plan
  <2>3. Final(q, q.card) # 0 /\ Final(q, q.card) = q.body.number
        /\ Final(q, d) # Final(q, q.card)
    BY <2>1, <2>2 DEF Plan, Final
  <2>4. d \in DOMAIN q.want /\ q.want[d] # q.body.number
    BY <2>3 DEF Final
  <2> QED
    BY <2>1, <2>2, <2>4 DEF Progress, Clearing
<1> QED
  BY <1>1, ListInvariance, PTL

(* With a single operation at a time, the list is the server's but for     *)
(* what the operation is about; t is the table, f the filter, l the list.  *)
Fit(r, f) == r.is = "here" /\ (f = "all" \/ r.active = (f = "active"))
Show(r) == [active |-> r.active, number |-> r.number]

Near(t, f, l, S) ==
    /\ \A c \in DOMAIN l : c \in Card /\ t[c].is = "here"
                           /\ (c \notin S => l[c] = Show(t[c]))
    /\ \A c \in Card : Fit(t[c], f) /\ c \notin S => c \in DOMAIN l

FreshRows(t, rows) ==
    \A c \in DOMAIN rows : c \in Card /\ t[c].is = "here" /\ rows[c] = Show(t[c])

\* The operation is the only one.
Lone(q) ==
    /\ q.alone
    /\ q.kind \in {"none", "toggle", "delete", "edit", "create", "weights",
                   "reload", "numbers"}
    /\ q.at \in {"idle", "sent", "done", "reply"}
    /\ q.status \in {"ok", "refused", "lost"}
    /\ q.at # "reply" => q.status = "ok"
    /\ q.at = "idle" <=> q.kind = "none"

\* What a request asks for.
Asks(q) == q.status = "ok" =>
    /\ q.kind \in {"weights", "reload"} => q.body = Page!Nothing
    /\ q.kind \in {"toggle", "delete", "edit", "create"} => q.card \in Card
    /\ q.kind = "toggle" => DOMAIN q.body = {"active"}
    /\ q.kind \in {"edit", "numbers"} => DOMAIN q.body = {"number"}
    /\ q.kind \in {"delete", "create"} => DOMAIN q.body = {"is", "active", "number"}
    /\ q.kind = "delete" => q.body["is"] = "gone"
    /\ q.kind = "create" => q.body["is"] = "here"

\* The server has not done it; or it has, and the answer is on its way.
Pending(q) == q.at = "sent" \/ q.status # "ok"
Answering(q) == q.at \in {"done", "reply"} /\ q.status = "ok"

\* The list that shows the change before its answer.
Tried(l, q) ==
    /\ q.card \in DOMAIN q.before
    /\ q.kind = "toggle" =>
          /\ DOMAIN l = DOMAIN q.before
          /\ \A c \in DOMAIN l : c # q.card => l[c] = q.before[c]
          /\ l[q.card] = [active |-> q.body["active"], number |-> q.before[q.card].number]
    /\ q.kind = "delete" =>
          /\ DOMAIN l = DOMAIN q.before \ {q.card}
          /\ \A c \in DOMAIN l : l[c] = q.before[c]

\* The rows a save of the numbers has kept, as they will be in the end.
Gathered(t, q) ==
    \A c \in DOMAIN q.got :
        /\ c \in DOMAIN q.want
        /\ q.got[c] = [active |-> t[c].active, number |-> q.want[c]]

Numbering(t, f, l, q) ==
    /\ l = q.before /\ Near(t, f, l, DOMAIN q.want) /\ Gathered(t, q)
    /\ \A c \in DOMAIN q.want :
          c \in DOMAIN q.got \/ c \in q.set \/ (c = q.card /\ q.body["number"] # 0)
    /\ q.card \in DOMAIN q.want
    /\ q.body["number"] # 0 => q.body["number"] = q.want[q.card]
    /\ Answering(q) => DOMAIN q.rows = {q.card} /\ t[q.card].number = q.body["number"]

Stage(t, f, l, q) ==
    /\ q.kind \in {"none", "weights", "reload"} => Near(t, f, l, {})
    /\ q.kind \in {"toggle", "delete"} =>
          /\ Pending(q) => Near(t, f, q.before, {})
          /\ q.at = "sent" => Tried(l, q)
          /\ Answering(q) => Near(t, f, l, {})
    /\ q.kind \in {"edit", "create"} =>
          /\ q.kind = "edit" => q.card \in DOMAIN l
          /\ Pending(q) => Near(t, f, l, {})
          /\ Answering(q) => Near(t, f, l, {q.card}) /\ q.card \in DOMAIN q.rows
    /\ q.kind = "numbers" /\ q.status = "ok" => Numbering(t, f, l, q)
    /\ Answering(q) => FreshRows(t, q.rows)

Follow(o) ==
    /\ Lone(act[o]) /\ Asks(act[o])
    /\ ~doubt => Stage(listRow, filtered, listed, act[o])

LEMMA ReplacedIsNear ==
    ASSUME NEW t, NEW f, NEW l, NEW S, NEW rows, Near(t, f, l, S), FreshRows(t, rows),
           S \subseteq DOMAIN l, S \subseteq DOMAIN rows
    PROVE  Near(t, f, Page!Merge(l, rows), {})
  BY DEF Near, FreshRows, Page!Merge

LEMMA AddedIsNear ==
    ASSUME NEW t, NEW f, NEW l, NEW c, NEW rows, Near(t, f, l, {c}), FreshRows(t, rows),
           c \in DOMAIN rows
    PROVE  Near(t, f, Page!Merge(Page!Over([d \in {c} |-> rows[d]], l), rows), {})
<1> DEFINE m == Page!Over([d \in {c} |-> rows[d]], l)
<1>1. /\ DOMAIN m = {c} \cup DOMAIN l /\ \A d \in DOMAIN l : d # c => m[d] = l[d]
  BY DEF Page!Over
<1> HIDE DEF m
<1>2. Near(t, f, m, {c})
  BY <1>1 DEF Near, FreshRows
<1>3. {c} \subseteq DOMAIN m /\ {c} \subseteq DOMAIN rows
  BY <1>1
<1>4. Near(t, f, Page!Merge(m, rows), {})
  BY <1>2, <1>3, ReplacedIsNear
<1> QED
  BY <1>4 DEF m

\* The next request of a save of the numbers.
Saving(t, f, l, e) ==
    /\ l = e.before /\ Near(t, f, l, DOMAIN e.want) /\ Gathered(t, e)
    /\ \A c \in DOMAIN e.want : c \in DOMAIN e.got \/ c \in e.set

LEMMA NextNumbering ==
    ASSUME NEW t, NEW f, NEW l, NEW e, NEW n \in Page!Following(e), IsOp(e), Plan(e),
           e.status = "ok", e.kind = "numbers", e.alone
    PROVE  /\ Lone(n) /\ Asks(n) /\ n.kind = "numbers" /\ ~Answering(n)
           /\ Saving(t, f, l, e) => Numbering(t, f, l, n)
<1>1. \/ \E c \in e.clear : n = Page!Request(e, c, 0)
      \/ e.clear = {} /\ \E c \in e.set : n = Page!Request(e, c, e.want[c])
  BY DEF Page!Following
<1>2. ASSUME NEW c, NEW k, n = Page!Request(e, c, k)
      PROVE  /\ n.at = "sent" /\ n.kind = "numbers" /\ n.card = c
             /\ n.body = [number |-> k] /\ n.before = e.before /\ n.want = e.want
             /\ n.got = e.got /\ n.status = "ok" /\ n.alone
             /\ n.set = IF e.clear = {} THEN e.set \ {c} ELSE e.set
  BY <1>2 DEF Page!Request, IsOp
<1>3. ASSUME NEW c, NEW k, n = Page!Request(e, c, k), c \in DOMAIN e.want,
             k # 0 => k = e.want[c], e.clear # {} \/ k # 0
      PROVE  /\ Lone(n) /\ Asks(n) /\ n.kind = "numbers" /\ ~Answering(n)
             /\ Saving(t, f, l, e) => Numbering(t, f, l, n)
  <2>1. /\ n.at = "sent" /\ n.kind = "numbers" /\ n.card = c
        /\ n.body = [number |-> k] /\ n.before = e.before /\ n.want = e.want
        /\ n.got = e.got /\ n.status = "ok" /\ n.alone
        /\ n.set = IF e.clear = {} THEN e.set \ {c} ELSE e.set
    BY <1>2, <1>3
  <2>2. DOMAIN n.body = {"number"} /\ n.body["number"] = k
    BY <2>1
  <2>3. Lone(n) /\ Asks(n) /\ ~Answering(n)
    BY <2>1, <2>2 DEF Lone, Asks, Answering
  <2>4. Gathered(t, e) => Gathered(t, n)
    BY <2>1 DEF Gathered
  <2> QED
    BY <1>3, <2>1, <2>2, <2>3, <2>4 DEF Numbering, Saving
<1> QED
  BY <1>1, <1>3 DEF Plan

\* The only operation begins, or steps where no card changes.
LEMMA FollowSteps ==
    ASSUME NEW o, Op = {o}, OneSteps(o), Lone(act'[o]), Asks(act'[o]),
           ~doubt' => Stage(listRow, filtered', listed', act'[o])
    PROVE  Follow(o)'
  BY DEF Follow, OneSteps

LEMMA SendsFollow ==
    ASSUME ListInv, NEW o \in Op, Op = {o}, Follow(o),
           NEW k \in {"toggle", "delete", "edit", "create", "weights"}, NEW c, NEW b,
           Page!Send(o, k, c, b),
           k = "weights" => b = Page!Nothing,
           k # "weights" => c \in Card,
           k = "toggle" => DOMAIN b = {"active"},
           k = "edit" => DOMAIN b = {"number"},
           k \in {"delete", "create"} => DOMAIN b = {"is", "active", "number"},
           k = "delete" => b["is"] = "gone",
           k = "create" => b["is"] = "here",
           k = "edit" => c \in DOMAIN listed,
           k \in {"edit", "create", "weights"} => listed' = listed,
           ~doubt /\ k \in {"toggle", "delete"} => Tried(listed', act'[o])
    PROVE  Follow(o)'
<1>1. /\ OneSteps(o) /\ act[o].at = "idle" /\ doubt' = doubt /\ filtered' = filtered
      /\ IsOp(act'[o]) /\ act'[o].at = "sent" /\ act'[o].kind = k
      /\ act'[o].card = c /\ act'[o].body = b /\ act'[o].before = listed
      /\ act'[o].status = "ok" /\ act'[o].alone
  BY SendsSo DEF ListInv
<1>2. Lone(act'[o])
  BY <1>1 DEF Lone
<1>3. Asks(act'[o])
  BY <1>1 DEF Asks
<1>4. ASSUME ~doubt' PROVE Stage(listRow, filtered', listed', act'[o])
  <2>1. Near(listRow, filtered, listed, {})
    BY <1>1, <1>4 DEF Follow, Lone, Stage
  <2>2. ~Answering(act'[o]) /\ ~doubt /\ filtered' = filtered
    BY <1>1, <1>4 DEF Answering
  <2>3. CASE k \in {"edit", "create", "weights"}
    BY <1>1, <2>1, <2>2, <2>3 DEF Stage
  <2>4. CASE k \in {"toggle", "delete"}
    BY <1>1, <2>1, <2>2, <2>4 DEF Stage
  <2> QED
    BY <2>3, <2>4
<1> QED
  BY <1>1, <1>2, <1>3, <1>4, FollowSteps

LEMMA BeginsFollow ==
    ASSUME ListInv, NEW o \in Op, Op = {o}, Follow(o),
           \/ \E c \in Card : Page!Toggle(o, c) \/ Page!Delete(o, c)
           \/ \E c \in Card, n \in Page!Number : Page!Edit(o, c, n) \/ Page!Create(o, c, n)
           \/ Page!Weights(o)
    PROVE  Follow(o)'
<1>1. ASSUME NEW k, NEW c, NEW b, Page!Send(o, k, c, b)
      PROVE  /\ act'[o].kind = k /\ act'[o].card = c /\ act'[o].body = b
             /\ act'[o].before = listed
             /\ ~doubt => \A d \in DOMAIN listed :
                  d \in Card /\ listed[d] = Show(listRow[d])
  <2>1. act[o].at = "idle"
    BY <1>1 DEF Page!Send
  <2>2. ~doubt => Near(listRow, filtered, listed, {})
    BY <2>1 DEF Follow, Lone, Stage
  <2> QED
    BY <1>1, <2>2, SendsSo DEF ListInv, Near
<1>2. ASSUME NEW c \in Card, Page!Toggle(o, c) PROVE Follow(o)'
  <2> DEFINE not == ~listed[c].active
             b == [active |-> not]
  <2>1. /\ c \in DOMAIN listed /\ Page!Send(o, "toggle", c, b)
        /\ listed' = [listed EXCEPT ![c].active = not]
    BY <1>2 DEF Page!Toggle
  <2> HIDE DEF not
  <2>2. DOMAIN b = {"active"} /\ b["active"] = not
    OBVIOUS
  <2> HIDE DEF b
  <2>3. ASSUME ~doubt PROVE Tried(listed', act'[o])
    <3>1. listed[c] = Show(listRow[c])
      BY <1>1, <2>1, <2>3
    <3>2. [listed[c] EXCEPT !.active = not] = [active |-> not, number |-> listed[c].number]
      BY <3>1 DEF Show
    <3>3. /\ DOMAIN listed' = DOMAIN listed
          /\ \A d \in DOMAIN listed : d # c => listed'[d] = listed[d]
          /\ listed'[c] = [active |-> not, number |-> listed[c].number]
      BY <2>1, <3>2
    <3>4. /\ act'[o].kind = "toggle" /\ act'[o].card = c /\ act'[o].body = b
          /\ act'[o].before = listed
      BY <1>1, <2>1
    <3> QED
      BY <2>1, <2>2, <3>3, <3>4 DEF Tried
  <2> QED
    BY <2>1, <2>2, <2>3, SendsFollow
<1>3. ASSUME NEW c \in Card, Page!Delete(o, c) PROVE Follow(o)'
  <2> DEFINE b == [is |-> "gone", active |-> FALSE, number |-> 0]
  <2>1. /\ c \in DOMAIN listed /\ Page!Send(o, "delete", c, b)
        /\ listed' = Page!Restrict(listed, DOMAIN listed \ {c})
    BY <1>3 DEF Page!Delete
  <2>2. DOMAIN b = {"is", "active", "number"} /\ b["is"] = "gone"
    OBVIOUS
  <2> HIDE DEF b
  <2>3. Tried(listed', act'[o])
    <3>1. /\ act'[o].kind = "delete" /\ act'[o].card = c /\ act'[o].before = listed
      BY <1>1, <2>1
    <3>2. /\ DOMAIN listed' = DOMAIN listed \ {c}
          /\ \A d \in DOMAIN listed' : listed'[d] = listed[d]
      BY <2>1 DEF Page!Restrict
    <3> QED
      BY <2>1, <3>1, <3>2 DEF Tried
  <2> QED
    BY <2>1, <2>2, <2>3, SendsFollow
<1>4. ASSUME NEW c \in Card, NEW n \in Page!Number, Page!Edit(o, c, n) PROVE Follow(o)'
  <2> DEFINE b == [number |-> n]
  <2>1. /\ c \in DOMAIN listed /\ Page!Send(o, "edit", c, b) /\ listed' = listed
    BY <1>4 DEF Page!Edit
  <2>2. DOMAIN b = {"number"}
    OBVIOUS
  <2> HIDE DEF b
  <2> QED
    BY <2>1, <2>2, SendsFollow
<1>5. ASSUME NEW c \in Card, NEW n \in Page!Number, Page!Create(o, c, n) PROVE Follow(o)'
  <2> DEFINE b == [is |-> "here", active |-> TRUE, number |-> n]
  <2>1. Page!Send(o, "create", c, b) /\ listed' = listed
    BY <1>5 DEF Page!Create
  <2>2. DOMAIN b = {"is", "active", "number"} /\ b["is"] = "here"
    OBVIOUS
  <2> HIDE DEF b
  <2> QED
    BY <2>1, <2>2, SendsFollow
<1>6. ASSUME Page!Weights(o) PROVE Follow(o)'
  <2>1. Page!Send(o, "weights", "none", Page!Nothing) /\ listed' = listed
    BY <1>6 DEF Page!Weights
  <2> QED
    BY <2>1, SendsFollow
<1> QED
  BY <1>2, <1>3, <1>4, <1>5, <1>6

LEMMA ReloadsFollow ==
    ASSUME ListInv, NEW o \in Op, Op = {o}, Follow(o), NEW f, Page!Reload(o, f)
    PROVE  Follow(o)'
<1>1. act' = [act EXCEPT ![o] = [Page!Idle EXCEPT !.at = "sent", !.kind = "reload",
                !.filter = f]]
      /\ listRow' = listRow /\ listed' = listed /\ filtered' = filtered /\ doubt' = doubt
      /\ act[o].at = "idle"
  BY DEF Page!Reload
<1> DEFINE sent(i) == [i EXCEPT !.at = "sent", !.kind = "reload", !.filter = f]
<1>2. OneSteps(o) /\ act'[o] = sent(Page!Idle)
  BY <1>1 DEF OneSteps, ListInv, Tables
<1>3. ASSUME NEW i, IsOp(i)
      PROVE  /\ sent(i).at = "sent" /\ sent(i).kind = "reload" /\ sent(i).body = i.body
             /\ sent(i).status = i.status /\ sent(i).alone = i.alone
  BY <1>3 DEF IsOp
<1> HIDE DEF sent
<1>4. /\ act'[o].at = "sent" /\ act'[o].kind = "reload" /\ act'[o].body = Page!Nothing
      /\ act'[o].status = "ok" /\ act'[o].alone
  <2>1. /\ sent(Page!Idle).at = "sent" /\ sent(Page!Idle).kind = "reload"
        /\ sent(Page!Idle).body = Page!Nothing
        /\ sent(Page!Idle).status = "ok" /\ sent(Page!Idle).alone
    BY <1>3, IdleOp
  <2> QED
    BY <1>2, <2>1
<1>5. Lone(act'[o]) /\ Asks(act'[o])
  BY <1>4 DEF Lone, Asks
<1>6. ~doubt' => Stage(listRow, filtered', listed', act'[o])
  BY <1>1, <1>4 DEF Follow, Lone, Stage, Answering
<1> QED
  BY <1>2, <1>5, <1>6, FollowSteps

LEMMA SavesFollow ==
    ASSUME ListInv, NEW o \in Op, Op = {o}, Follow(o),
           NEW draft \in [DOMAIN listed -> Page!Number], Page!SaveNumbers(o, draft)
    PROVE  Follow(o)'
<1>1. PICK q : Planned(o, q)
  BY SavesSo, Zenon
<1>2. /\ OneSteps(o) /\ act[o].at = "idle" /\ listed' = listed /\ filtered' = filtered
      /\ doubt' = doubt
  BY SavesSo
<1> DEFINE n == act'[o]
<1>3. /\ n \in Page!Following(q) /\ IsOp(q) /\ Plan(q) /\ q.status = "ok" /\ q.alone
      /\ q.kind = "numbers" /\ q.at # "sent" /\ listed = q.before
      /\ \A c \in DOMAIN q.want : c \in DOMAIN q.got \/ c \in q.set
  BY <1>1 DEF Planned
<1>4. /\ Lone(n) /\ Asks(n) /\ n.kind = "numbers" /\ ~Answering(n)
      /\ Saving(listRow, filtered, listed, q) => Numbering(listRow, filtered, listed, n)
  BY <1>3, NextNumbering
<1>5. ASSUME ~doubt PROVE Stage(listRow, filtered, listed, n)
  <2>1. Near(listRow, filtered, listed, {})
    BY <1>2, <1>5 DEF Follow, Lone, Stage
  <2>2. Near(listRow, filtered, listed, DOMAIN q.want)
    BY <1>3, <2>1 DEF Near, Plan
  <2>3. Gathered(listRow, q)
    <3> SUFFICES ASSUME NEW c \in DOMAIN q.got
                 PROVE  c \in DOMAIN q.want
                        /\ q.got[c] = [active |-> listRow[c].active, number |-> q.want[c]]
      BY DEF Gathered
    <3>1. c \in DOMAIN q.want /\ q.want[c] = 0 /\ q.got[c] = [listed[c] EXCEPT !.number = 0]
      BY <1>1 DEF Planned
    <3>2. listed[c] = Show(listRow[c])
      BY <1>3, <2>1, <3>1 DEF Near, Plan
    <3> QED
      BY <3>1, <3>2 DEF Show
  <2> QED
    BY <1>3, <1>4, <2>2, <2>3 DEF Stage, Saving
<1> QED
  BY <1>2, <1>4, <1>5, FollowSteps

LEMMA CommitsFollow ==
    ASSUME Nameless, ListInv, NEW o \in Op, Op = {o}, Follow(o), Page!Commit(o)
    PROVE  Follow(o)'
<1> DEFINE e == act[o]
           n == act'[o]
           t == listRow
           u == listRow'
           k == e.card
<1>1. IsOp(e) /\ Good(e) /\ Knows(e) /\ Tables /\ Lone(e) /\ Asks(e)
  BY DEF ListInv, Good, Knows, Follow
<1>2. /\ e.at = "sent" /\ Page!Accept(e)
      /\ listed' = listed /\ filtered' = filtered /\ doubt' = doubt
      /\ n.at = "done" /\ n.kind = e.kind /\ n.card = k /\ n.body = e.body
      /\ n.before = e.before /\ n.set = e.set /\ n.want = e.want /\ n.got = e.got
      /\ n.status = e.status /\ n.rows = CommittedRows(o)
      /\ n.alone = (e.alone \/ e.kind = "reload")
  BY <1>1, CommitsSo
<1>3. e.status = "ok" /\ Lone(n) /\ Asks(n)
  BY <1>1, <1>2 DEF Lone, Asks
<1>4. Answering(n) /\ Pending(e) /\ ~Pending(n)
  BY <1>2, <1>3 DEF Answering, Pending
<1>5. /\ \A c \in Card \ {k} : u[c] = t[c]
      /\ \A c \in Card : c = k =>
           /\ u[c].is = IF "is" \in DOMAIN e.body THEN e.body["is"] ELSE t[c].is
           /\ u[c].active = IF "active" \in DOMAIN e.body THEN e.body["active"] ELSE t[c].active
           /\ u[c].number = IF "number" \in DOMAIN e.body THEN e.body["number"] ELSE t[c].number
  BY <1>1, <1>2, RowsCommitted
<1>6. e.kind \in {"toggle", "edit", "create", "numbers"} =>
        DOMAIN n.rows = {k} /\ n.rows[k] = [active |-> u[k].active, number |-> u[k].number]
  BY <1>2 DEF CommittedRows
<1>7. e.kind \in {"weights", "reload", "delete"} => DOMAIN n.rows = {}
  BY <1>2, NothingIsEmpty DEF CommittedRows
<1>8. e.body # Page!Nothing => t[k].is = IF e.kind = "create" THEN "new" ELSE "here"
  BY <1>2 DEF Page!Accept
<1>9. ASSUME ~doubt, e.kind \in {"weights", "reload"} PROVE Stage(u, filtered, listed, n)
  <2>1. e.body = Page!Nothing /\ k \notin Card
    BY <1>1, <1>2, <1>3, <1>9 DEF Asks, Knows, Nameless
  <2>2. Near(t, filtered, listed, {})
    BY <1>9 DEF Follow, Stage
  <2>3. Near(u, filtered, listed, {})
    BY <1>5, <2>1, <2>2 DEF Near
  <2> QED
    BY <1>2, <1>7, <1>9, <2>3 DEF Stage, FreshRows
<1>10. ASSUME ~doubt, e.kind = "toggle" PROVE Stage(u, filtered, listed, n)
  <2>1. Near(t, filtered, e.before, {}) /\ Tried(listed, e)
    BY <1>2, <1>4, <1>10 DEF Follow, Stage
  <2>2. k \in Card /\ DOMAIN e.body = {"active"} /\ e.body # Page!Nothing
    BY <1>1, <1>3, <1>10, NothingIsEmpty DEF Asks
  <2>3. /\ u[k].is = "here" /\ u[k].active = e.body["active"] /\ u[k].number = t[k].number
    BY <1>5, <1>8, <1>10, <2>2
  <2>4. listed[k] = Show(u[k]) /\ DOMAIN listed = DOMAIN e.before /\ k \in DOMAIN listed
    <3>1. e.before[k] = Show(t[k]) /\ k \in DOMAIN e.before
      BY <2>1 DEF Near, Tried
    <3>2. /\ DOMAIN listed = DOMAIN e.before
          /\ listed[k] = [active |-> e.body["active"], number |-> e.before[k].number]
      BY <1>10, <2>1 DEF Tried
    <3>3. e.before[k].number = t[k].number
      BY <3>1 DEF Show
    <3> QED
      BY <2>3, <3>1, <3>2, <3>3 DEF Show
  <2>5. Near(u, filtered, listed, {})
    BY <1>5, <1>10, <2>1, <2>3, <2>4 DEF Near, Tried
  <2>6. FreshRows(u, n.rows)
    BY <1>6, <1>10, <2>2, <2>3 DEF FreshRows, Show
  <2> QED
    BY <1>2, <1>4, <1>10, <2>5, <2>6 DEF Stage
<1>11. ASSUME ~doubt, e.kind = "delete" PROVE Stage(u, filtered, listed, n)
  <2>1. Near(t, filtered, e.before, {}) /\ Tried(listed, e)
    BY <1>2, <1>4, <1>11 DEF Follow, Stage
  <2>2. k \in Card /\ u[k].is = "gone"
    BY <1>1, <1>3, <1>5, <1>11 DEF Asks
  <2>3. Near(u, filtered, listed, {})
    BY <1>5, <1>11, <2>1, <2>2 DEF Near, Tried, Fit
  <2> QED
    BY <1>2, <1>4, <1>7, <1>11, <2>3 DEF Stage, FreshRows
<1>12. ASSUME ~doubt, e.kind \in {"edit", "create"} PROVE Stage(u, filtered, listed, n)
  <2>1. Near(t, filtered, listed, {}) /\ (e.kind = "edit" => k \in DOMAIN listed)
    BY <1>4, <1>12 DEF Follow, Stage
  <2>2. /\ k \in Card /\ e.body # Page!Nothing
        /\ e.kind = "edit" => "is" \notin DOMAIN e.body
        /\ e.kind = "create" => "is" \in DOMAIN e.body /\ e.body["is"] = "here"
    BY <1>1, <1>3, <1>12, NothingIsEmpty DEF Asks
  <2>3. u[k].is = "here"
    BY <1>5, <1>8, <1>12, <2>2
  <2>4. Near(u, filtered, listed, {k})
    BY <1>5, <2>1, <2>3 DEF Near
  <2>5. FreshRows(u, n.rows) /\ k \in DOMAIN n.rows
    BY <1>6, <1>12, <2>2, <2>3 DEF FreshRows, Show
  <2> QED
    BY <1>2, <1>4, <1>12, <2>1, <2>4, <2>5 DEF Stage
<1>13. ASSUME ~doubt, e.kind = "numbers" PROVE Stage(u, filtered, listed, n)
  <2>1. Numbering(t, filtered, listed, e)
    BY <1>3, <1>13 DEF Follow, Stage
  <2>2. /\ DOMAIN e.body = {"number"} /\ e.body # Page!Nothing
    BY <1>1, <1>3, <1>13, NothingIsEmpty DEF Asks
  <2>3. k \in DOMAIN e.want /\ k \in Card /\ DOMAIN e.want \subseteq Card
    BY <1>1, <1>13, <2>1 DEF Numbering, Good, Plan, Knows
  <2>4. /\ u[k].is = "here" /\ u[k].active = t[k].active /\ u[k].number = e.body["number"]
    BY <1>5, <1>8, <1>13, <2>2, <2>3
  <2>5. Near(u, filtered, listed, DOMAIN e.want)
    BY <1>5, <2>1, <2>3, <2>4 DEF Near, Numbering
  <2>6. Gathered(u, n)
    <3>1. \A c \in DOMAIN e.want : u[c].active = t[c].active
      BY <1>5, <2>3, <2>4
    <3> QED
      BY <1>2, <2>1, <3>1 DEF Gathered, Numbering
  <2>7. FreshRows(u, n.rows) /\ DOMAIN n.rows = {k}
    BY <1>6, <1>13, <2>3, <2>4 DEF FreshRows, Show
  <2>8. Numbering(u, filtered, listed, n)
    BY <1>2, <2>1, <2>4, <2>5, <2>6, <2>7 DEF Numbering
  <2> QED
    BY <1>2, <1>13, <2>7, <2>8 DEF Stage
<1>14. e.kind # "none"
  BY <1>1, <1>2 DEF Lone
<1>15. ~doubt => Stage(u, filtered, listed, n)
  BY <1>1, <1>9, <1>10, <1>11, <1>12, <1>13, <1>14 DEF Lone
<1> QED
  BY <1>2, <1>3, <1>15 DEF Follow

LEMMA AnswersFollow ==
    ASSUME ListInv, NEW o \in Op, Op = {o}, "limited" \notin Fault, Follow(o),
           Page!Refuse(o) \/ Page!Lose(o)
    PROVE  Follow(o)'
<1> DEFINE e == act[o]
           n == act'[o]
<1>1. IsOp(e) /\ Tables /\ Lone(e) /\ Asks(e)
  BY DEF ListInv, Good, Knows, Follow
<1>2. /\ OneSteps(o) /\ listed' = listed /\ filtered' = filtered
      /\ n.at = "reply" /\ n.kind = e.kind /\ n.card = e.card /\ n.before = e.before
      /\ n.alone = e.alone /\ n.status \in {"refused", "lost"}
      /\ \/ e.at = "sent" /\ doubt' = doubt
         \/ e.at = "done" /\ doubt' = (doubt \/ e.body # Page!Nothing)
  BY <1>1, AnswersSo
<1>3. Lone(n) /\ Asks(n) /\ ~Answering(n) /\ n.status # "ok" /\ n.at # "sent"
  BY <1>1, <1>2 DEF Lone, Asks, Answering
<1>4. ASSUME ~doubt' PROVE Stage(listRow, filtered, listed, n)
  <2>0. ~doubt
    BY <1>2, <1>4, Zenon
  <2>1. Stage(listRow, filtered, listed, e)
    BY <2>0 DEF Follow
  <2>2. CASE e.at = "sent"
    BY <1>2, <1>3, <2>1, <2>2 DEF Stage, Pending
  <2>3. CASE e.at = "done"
    <3>1. e.body = Page!Nothing
      BY <1>2, <1>4, <2>3
    <3>2. e.kind \in {"weights", "reload", "none"}
      BY <1>1, <2>3, <3>1, NothingIsEmpty DEF Lone, Asks
    <3> QED
      BY <1>2, <1>3, <2>1, <3>2 DEF Stage
  <2> QED
    BY <1>2, <2>2, <2>3
<1> QED
  BY <1>2, <1>3, <1>4, FollowSteps

LEMMA ReadsFollow ==
    ASSUME ListInv, NEW o \in Op, Op = {o}, Follow(o), Page!Read(o)
    PROVE  Follow(o)'
<1> DEFINE e == act[o]
           n == act'[o]
<1>1. IsOp(e) /\ Tables /\ Lone(e) /\ Asks(e)
  BY DEF ListInv, Good, Knows, Follow
<1>2. /\ OneSteps(o) /\ listed' = listed /\ filtered' = filtered /\ doubt' = doubt
      /\ e.at = "done" /\ n.at = "reply" /\ n.kind = e.kind /\ n.card = e.card
      /\ n.body = e.body /\ n.before = e.before /\ n.set = e.set /\ n.want = e.want
      /\ n.got = e.got /\ n.status = e.status /\ n.alone = e.alone
  BY <1>1, ReadsSo
<1>3. PICK S \in SUBSET {c \in Card : Page!Here(c)} :
        /\ n.rows = Page!Over(Page!RowsOf(S), e.rows)
        /\ e.kind = "numbers" => S = {}
  BY <1>1, ReadsSo
<1>4. /\ DOMAIN n.rows = S \cup DOMAIN e.rows
      /\ \A c \in S : n.rows[c] = Show(listRow[c]) /\ listRow[c].is = "here"
      /\ \A c \in DOMAIN e.rows \ S : n.rows[c] = e.rows[c]
  BY <1>3 DEF Page!Over, Page!RowsOf, Page!Shown, Page!Here, Show
<1>5. Lone(n) /\ Asks(n) /\ e.status = "ok" /\ Answering(e) /\ Answering(n)
      /\ ~Pending(n) /\ n.at # "sent"
  BY <1>1, <1>2 DEF Lone, Asks, Answering, Pending
<1>6. ASSUME ~doubt PROVE Stage(listRow, filtered, listed, n)
  <2>1. Stage(listRow, filtered, listed, e) /\ FreshRows(listRow, e.rows)
    BY <1>5, <1>6 DEF Follow, Stage
  <2>2. FreshRows(listRow, n.rows)
    BY <1>3, <1>4, <2>1 DEF FreshRows
  <2>3. CASE e.kind = "numbers"
    <3>1. Numbering(listRow, filtered, listed, e) /\ DOMAIN n.rows = DOMAIN e.rows
      BY <1>3, <1>4, <1>5, <2>1, <2>3 DEF Stage
    <3>2. Numbering(listRow, filtered, listed, n)
      BY <1>2, <1>5, <3>1 DEF Numbering, Gathered
    <3> QED
      BY <1>2, <2>2, <2>3, <3>2 DEF Stage
  <2>4. CASE e.kind # "numbers"
    BY <1>2, <1>4, <1>5, <2>1, <2>2, <2>4 DEF Stage
  <2> QED
    BY <2>3, <2>4
<1> QED
  BY <1>2, <1>5, <1>6, FollowSteps

LEMMA EndsFollow ==
    ASSUME ListInv, NEW o \in Op, Op = {o}, Page!Finish(o), listRow' = listRow,
           ~doubt' => Near(listRow, filtered', listed', {})
    PROVE  Follow(o)'
<1>1. act'[o] = Page!Idle /\ OneSteps(o)
  BY DEF Page!Finish, ListInv, Tables, OneSteps
<1>2. Lone(Page!Idle) /\ Asks(Page!Idle)
  BY IdleOp DEF Lone, Asks
<1>3. Near(listRow, filtered', listed', {})
        => Stage(listRow, filtered', listed', Page!Idle)
  BY IdleOp DEF Stage, Answering
<1> QED
  BY <1>1, <1>2, <1>3, FollowSteps, Zenon

LEMMA ContinuesFollow ==
    ASSUME ListInv, NEW o \in Op, Op = {o}, Follow(o), Page!Continue(o)
    PROVE  Follow(o)'
<1> DEFINE q == act[o]
           got == Page!Kept(q)
           e == [q EXCEPT !.got = got]
<1>1. /\ q.at = "reply" /\ q.status = "ok" /\ q.kind = "numbers"
      /\ listRow' = listRow /\ filtered' = filtered /\ doubt' = doubt
  BY DEF Page!Continue, Page!Answered
<1>2. IsOp(q) /\ Plan(q) /\ q.alone /\ Progress(q) /\ DOMAIN q.before \subseteq Card
  BY <1>1 DEF ListInv, Good, Knows, Follow, Lone
<1>3. IF Page!Following(e) = {}
      THEN Page!Finish(o) /\ listed' = Page!Merge(listed, e.got)
      ELSE listed' = listed /\ \E n \in Page!Following(e) : act' = [act EXCEPT ![o] = n]
  BY DEF Page!Continue
<1> HIDE DEF got
<1>5. /\ IsOp(e) /\ e.kind = "numbers" /\ e.status = "ok" /\ e.at = "reply"
      /\ e.before = q.before /\ e.clear = q.clear /\ e.set = q.set
      /\ e.want = q.want /\ e.alone = q.alone /\ e.got = got
  BY <1>1, <1>2 DEF IsOp
<1> HIDE DEF e
<1>6. Plan(e)
  BY <1>2, <1>5, <1>1 DEF Plan, Final
<1>7. ASSUME ~doubt PROVE Saving(listRow, filtered, listed, e)
  <2>1. Numbering(listRow, filtered, listed, q) /\ FreshRows(listRow, q.rows)
    BY <1>1, <1>7 DEF Follow, Stage, Answering
  <2>2. /\ DOMAIN q.rows = {q.card} /\ listRow[q.card].number = q.body["number"]
        /\ q.card \in DOMAIN q.want
        /\ q.body["number"] # 0 => q.body["number"] = q.want[q.card]
    BY <1>1, <2>1 DEF Numbering, Answering
  <2>3. CASE q.body["number"] = 0
    <3>1. got = q.got
      BY <2>3 DEF got, Page!Kept
    <3> QED
      BY <1>5, <2>1, <2>3, <3>1 DEF Numbering, Gathered, Saving
  <2>4. CASE q.body["number"] # 0
    <3>1. /\ DOMAIN got = {q.card} \cup DOMAIN q.got
          /\ got[q.card] = q.rows[q.card]
          /\ \A c \in DOMAIN q.got : c # q.card => got[c] = q.got[c]
      BY <2>2, <2>4 DEF got, Page!Kept, Page!Over
    <3>2. got[q.card] = [active |-> listRow[q.card].active, number |-> q.want[q.card]]
      <4>1. q.rows[q.card] = Show(listRow[q.card])
        BY <2>1, <2>2 DEF FreshRows
      <4>2. listRow[q.card].number = q.want[q.card]
        BY <2>2, <2>4
      <4> QED
        BY <3>1, <4>1, <4>2 DEF Show
    <3>3. Gathered(listRow, e)
      BY <1>5, <2>1, <2>2, <3>1, <3>2 DEF Numbering, Gathered
    <3> QED
      BY <1>5, <2>1, <3>1, <3>3 DEF Numbering, Saving
  <2> QED
    BY <2>3, <2>4
<1>8. CASE Page!Following(e) = {}
  <2>1. e.clear = {} /\ e.set = {}
    BY <1>8 DEF Page!Following
  <2>2. ASSUME ~doubt PROVE Near(listRow, filtered, Page!Merge(listed, e.got), {})
    <3>1. \A c \in DOMAIN e.want : c \in DOMAIN e.got /\ listRow[c].number = e.want[c]
      BY <1>1, <1>2, <1>5, <1>7, <2>1, <2>2 DEF Progress, Plan, Setting, Clearing, Saving
    <3>2. \A c \in DOMAIN e.got : c \in DOMAIN e.want /\ e.got[c] = Show(listRow[c])
      BY <1>7, <2>2, <3>1 DEF Gathered, Show, Saving
    <3>3. Near(listRow, filtered, listed, DOMAIN e.want) /\ FreshRows(listRow, e.got)
      <4>1. Near(listRow, filtered, listed, DOMAIN e.want) /\ listed = q.before
        BY <1>5, <1>7, <2>2 DEF Saving
      <4>2. DOMAIN e.want \subseteq DOMAIN listed
        BY <1>2, <1>5, <4>1 DEF Plan
      <4> QED
        BY <3>2, <4>1, <4>2 DEF Near, FreshRows
    <3>4. DOMAIN e.want \subseteq DOMAIN listed /\ DOMAIN e.want \subseteq DOMAIN e.got
      BY <1>2, <1>5, <1>7, <2>2, <3>1 DEF Plan, Saving
    <3> QED
      BY <3>3, <3>4, ReplacedIsNear
  <2> QED
    BY <1>1, <1>3, <1>8, <2>2, EndsFollow
<1>9. CASE Page!Following(e) # {}
  <2>1. PICK n \in Page!Following(e) : act' = [act EXCEPT ![o] = n]
    BY <1>3, <1>9
  <2>2. act'[o] = n /\ OneSteps(o) /\ listed' = listed
    BY <1>1, <1>3, <1>9, <2>1 DEF OneSteps, ListInv, Tables
  <2>3. /\ Lone(n) /\ Asks(n) /\ n.kind = "numbers" /\ ~Answering(n)
        /\ Saving(listRow, filtered, listed, e) => Numbering(listRow, filtered, listed, n)
    BY <1>2, <1>5, <1>6, NextNumbering
  <2>4. ~doubt => Stage(listRow, filtered, listed, n)
    BY <1>7, <2>3 DEF Stage
  <2> QED
    BY <1>1, <2>2, <2>3, <2>4, FollowSteps
<1> QED
  BY <1>8, <1>9

LEMMA ArrivesFollow ==
    ASSUME ListInv, NEW o \in Op, Op = {o}, "limited" \notin Fault, Follow(o), Page!Answer(o)
    PROVE  Follow(o)'
<1> DEFINE e == act[o]
<1>1. Lone(e) /\ Good(e)
  BY DEF Follow, ListInv
<1>2. CASE Page!Replace(o)
  <2>1. /\ Page!Finish(o) /\ listed' = Page!Merge(listed, e.rows) /\ listRow' = listRow
        /\ filtered' = filtered /\ doubt' = doubt /\ e.at = "reply" /\ e.status = "ok"
        /\ e.kind \in {"toggle", "edit", "delete", "weights"}
    BY <1>2 DEF Page!Replace, Page!Answered
  <2>2. ASSUME ~doubt PROVE Near(listRow, filtered, Page!Merge(listed, e.rows), {})
    <3>1. Answering(e) /\ Stage(listRow, filtered, listed, e) /\ FreshRows(listRow, e.rows)
      BY <2>1, <2>2 DEF Follow, Answering, Stage
    <3>2. CASE e.kind = "edit"
      <4>1. /\ Near(listRow, filtered, listed, {e.card})
            /\ {e.card} \subseteq DOMAIN e.rows /\ {e.card} \subseteq DOMAIN listed
        BY <3>1, <3>2 DEF Stage
      <4> QED
        BY <3>1, <4>1, ReplacedIsNear
    <3>3. CASE e.kind # "edit"
      <4>1. Near(listRow, filtered, listed, {})
        BY <2>1, <3>1, <3>3 DEF Stage
      <4> QED
        BY <3>1, <4>1, ReplacedIsNear
    <3> QED
      BY <3>2, <3>3
  <2> QED
    BY <2>1, <2>2, EndsFollow
<1>3. CASE Page!Add(o)
  <2> DEFINE l == Page!Merge(Page!Over([d \in {e.card} |-> e.rows[d]], listed), e.rows)
  <2>1. /\ Page!Finish(o) /\ listed' = l /\ listRow' = listRow
        /\ filtered' = filtered /\ doubt' = doubt /\ e.at = "reply" /\ e.status = "ok"
        /\ e.kind = "create"
    BY <1>3 DEF Page!Add, Page!Answered
  <2>2. ASSUME ~doubt PROVE Near(listRow, filtered, l, {})
    <3>1. /\ Near(listRow, filtered, listed, {e.card}) /\ FreshRows(listRow, e.rows)
          /\ e.card \in DOMAIN e.rows
      BY <2>1, <2>2 DEF Follow, Answering, Stage
    <3> QED
      BY <3>1, AddedIsNear
  <2> HIDE DEF l
  <2> QED
    BY <2>1, <2>2, EndsFollow
<1>4. CASE Page!Load(o)
  <2>1. /\ Page!Finish(o) /\ listed' = e.rows /\ listRow' = listRow /\ filtered' = e.filter
        /\ e.at = "reply" /\ e.status = "ok" /\ e.kind = "reload"
    BY <1>4 DEF Page!Load, Page!Answered
  <2>2. e.rows = Page!RowsOf({c \in Card : Page!Fits(c, e.filter)})
    BY <1>1, <2>1 DEF Good, Fetched, Lone
  <2>3. Near(listRow, e.filter, e.rows, {})
    BY <2>2 DEF Near, Page!RowsOf, Page!Shown, Page!Fits, Page!Here, Show, Fit
  <2> QED
    BY <2>1, <2>3, EndsFollow
<1>5. CASE Page!Fail(o)
  <2>1. /\ Page!Finish(o) /\ listRow' = listRow /\ filtered' = filtered
        /\ listed' = IF Page!Restored(o) THEN e.before ELSE listed
        /\ e.at = "reply" /\ e.status # "ok"
    BY <1>5 DEF Page!Fail
  <2>2. doubt' = (doubt \/ e.kind = "numbers")
    BY <1>5 DEF Page!Fail
  <2>3. ASSUME ~doubt' PROVE ~doubt /\ e.kind # "numbers"
    BY <2>2, <2>3, Zenon
  <2>4. ASSUME ~doubt' PROVE Near(listRow, filtered, listed', {})
    <3>1. Stage(listRow, filtered, listed, e) /\ Pending(e) /\ e.kind # "numbers"
      BY <2>1, <2>3, <2>4 DEF Follow, Pending
    <3>2. CASE e.kind \in {"toggle", "delete"}
      <4>1. Page!Restored(o)
        BY <1>1, <3>2 DEF Page!Restored, Lone
      <4> QED
        BY <2>1, <3>1, <3>2, <4>1 DEF Stage
    <3>3. CASE e.kind \notin {"toggle", "delete"}
      <4>1. ~Page!Restored(o)
        BY <3>3 DEF Page!Restored
      <4>2. Near(listRow, filtered, listed, {})
        BY <1>1, <3>1, <3>3 DEF Stage, Lone
      <4> QED
        BY <2>1, <4>1, <4>2
    <3> QED
      BY <3>2, <3>3
  <2> QED
    BY <2>1, <2>4, EndsFollow
<1>6. CASE Page!Continue(o)
  BY <1>6, ContinuesFollow
<1> QED
  BY <1>2, <1>3, <1>4, <1>5, <1>6 DEF Page!Answer

LEMMA FollowKept ==
    ASSUME Nameless, NEW o, Op = {o}, "limited" \notin Fault, ListInv, Follow(o),
           [Page!Next]_(Page!vars)
    PROVE  Follow(o)'
<1>1. CASE UNCHANGED Page!vars
  <2>1. listRow' = listRow /\ listed' = listed /\ act' = act /\ filtered' = filtered
        /\ doubt' = doubt
    BY <1>1 DEF Page!vars
  <2> QED
    BY <2>1 DEF Follow
<1>2. CASE Page!Use(o)
  BY <1>2, BeginsFollow, ReloadsFollow, SavesFollow DEF Page!Use
<1>3. CASE Page!Serve(o)
  BY <1>3, CommitsFollow, AnswersFollow, ReadsFollow DEF Page!Serve
<1>4. CASE Page!Answer(o)
  BY <1>4, ArrivesFollow
<1> QED
  BY <1>1, <1>2, <1>3, <1>4 DEF Page!Next

LEMMA FollowStarts == ASSUME NEW o, Op = {o} PROVE Page!Init => Follow(o)
<1> SUFFICES ASSUME Page!Init PROVE Follow(o)
  OBVIOUS
<1>1. act = [p \in Op |-> Page!Idle] /\ listed = Page!RowsOf({c \in Card : Page!Here(c)})
  BY DEF Page!Init
<1>2. act[o] = Page!Idle
  BY <1>1
<1>3. Near(listRow, filtered, listed, {})
  BY <1>1 DEF Near, Page!RowsOf, Page!Shown, Page!Here, Show, Fit
<1>4. Lone(Page!Idle) /\ Asks(Page!Idle)
  BY IdleOp DEF Lone, Asks
<1>5. Stage(listRow, filtered, listed, Page!Idle)
  BY <1>3, IdleOp DEF Stage, Answering
<1> QED
  BY <1>2, <1>4, <1>5, Zenon DEF Follow

(* With nothing under way the list is what the server has, as long as the  *)
(* page was told what happened: here for a page that does one thing at a   *)
(* time and is never turned away for asking too often.                     *)
THEOREM ListFollows ==
    ASSUME Nameless, NEW o, Op = {o}, "limited" \notin Fault
    PROVE  Page!Spec => []Page!ListFollowsServer
<1>1. ListInv /\ Follow(o) /\ [Page!Next]_(Page!vars) => Follow(o)'
  BY FollowKept
<1>2. Page!Init => Follow(o)
  BY FollowStarts
<1>3. Follow(o) => Page!ListFollowsServer
  <2> SUFFICES ASSUME Follow(o), act[o].at = "idle", ~doubt
               PROVE  /\ \A c \in DOMAIN listed : Page!Here(c) /\ listed[c] = Page!Shown(c)
                      /\ \A c \in Card : Page!Fits(c, filtered) => c \in DOMAIN listed
    BY DEF Page!ListFollowsServer
  <2>1. Near(listRow, filtered, listed, {})
    BY DEF Follow, Lone, Stage
  <2> QED
    BY <2>1 DEF Near, Page!Shown, Page!Fits, Page!Here, Show, Fit
<1> QED
  BY <1>1, <1>2, <1>3, ListInvariance, PTL DEF Page!Spec
=============================================================================
