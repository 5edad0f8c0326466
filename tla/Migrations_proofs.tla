-------------------------- MODULE Migrations_proofs -------------------------
(*****************************************************************************)
(* Proofs about Migrations for every set of files and runners: the history   *)
(* is true and in order even when the lock is lost, and with the lock the    *)
(* runs stay apart.                                                          *)
(*****************************************************************************)
EXTENDS Migrations, TLAPS, WellFoundedInduction, FiniteSetTheorems

Working == {"next", "build", "check", "record"}

(* Who works through the files has a history table to write to.            *)
TableFirst ==
    \A r \in Runner :
      \/ run[r].at \in Working
      \/ run[r].at \in {"state", "table"} /\ ~run[r].fresh
      => table

(* One run at a time builds an index, and what is about to be recorded is  *)
(* there, valid, and as the file has it.                                   *)
IndexAt(r) ==
    /\ run[r].at \in {"build", "check", "record"} =>
         File(r) \in Forbidden /\ run[r].disk[File(r)] # Absent
    /\ run[r].at = "build" => db[File(r)] = Broken
    /\ run[r].at = "record" => db[File(r)] = run[r].disk[File(r)]

Alone(r) ==
    run[r].at = "build" =>
      \A s \in Runner : run[s].at = "build" /\ File(s) = File(r) => s = r

Indexes == \A r \in Runner : IndexAt(r) /\ Alone(r)

(* What a run has left behind is recorded, what it has before it is there.  *)
Behind ==
    \A r \in Runner : run[r].at \in {"table"} \cup Working =>
      \A v \in Version :
        /\ v \in run[r].todo => run[r].disk[v] # Absent
        /\ v \notin run[r].todo /\ run[r].disk[v] # Absent => Recorded(v)

(* Until a connection is lost the lock keeps the runs apart, and who works *)
(* has every recorded file as it was recorded.                             *)
Apart ==
    spent.loss = 0 =>
      \A r \in Runner :
        /\ run[r].at \notin {"off", "lock"} => lock = r
        /\ run[r].at \in {"table"} \cup Working => ~HasBlockingErrors(run[r].disk)

IInv == /\ TypeOK /\ HistoryIsTrue /\ TableFirst /\ Indexes /\ Behind /\ Apart

(* The file a run is at is one of its files, and the first.                *)
LEMMA FirstFile ==
    ASSUME TypeOK, NEW r \in Runner, run[r].todo # {}
    PROVE  /\ File(r) \in run[r].todo /\ File(r) \in Version
           /\ \A w \in run[r].todo : File(r) <= w
<1> DEFINE T == run[r].todo
<1>1. T \subseteq Version /\ T \subseteq Nat
  BY MigrationsAssumption DEF TypeOK, Run
<1>2. \E x \in T : \A y \in T : ~(<<y, x>> \in OpToRel(<, Nat))
  BY <1>1, NatLessThanWellFounded, WFMin
<1>3. PICK x \in T : \A y \in T : ~(<<y, x>> \in OpToRel(<, Nat))
  BY <1>2
<1>4. ASSUME NEW y \in T PROVE x =< y
  <2>1. y \in Nat /\ x \in Nat /\ ~(y < x)
    BY <1>1, <1>3 DEF OpToRel
  <2> QED
    BY <2>1
<1>5. \E z \in T : \A y \in T : z =< y
  BY <1>4
<1> QED
  BY <1>1, <1>5 DEF File, Min

(* A run that moves on, ends or begins stays a run.                        *)
LEMMA RunTypes ==
    ASSUME TypeOK, NEW r \in Runner,
           NEW at \in {"off", "lock", "exists", "state", "table", "next", "build",
                       "check", "record", "unlock"},
           NEW S \in SUBSET Version, NEW b \in BOOLEAN
    PROVE  /\ [run EXCEPT ![r].at = at] \in [Runner -> Run]
           /\ [run EXCEPT ![r].at = at, ![r].todo = S] \in [Runner -> Run]
           /\ [run EXCEPT ![r].at = at, ![r].fresh = b] \in [Runner -> Run]
           /\ [run EXCEPT ![r] = Off] \in [Runner -> Run]
<1>1. run[r] \in Run /\ run \in [Runner -> Run]
  BY DEF TypeOK
<1>2. [run[r] EXCEPT !.at = at] \in Run
  BY <1>1 DEF Run
<1>3. [run[r] EXCEPT !.at = at, !.todo = S] \in Run
  BY <1>1 DEF Run
<1>4. [run[r] EXCEPT !.at = at, !.fresh = b] \in Run
  BY <1>1 DEF Run
<1>5. Off \in Run
  BY DEF Off, Run
<1> QED
  BY <1>1, <1>2, <1>3, <1>4, <1>5

LEMMA StartType ==
    ASSUME TypeOK, NEW r \in Runner, Start(r) PROVE run' \in [Runner -> Run]
<1>1. PICK f \in Flags[r] :
        run' = [run EXCEPT ![r] = [Off EXCEPT !.at = "lock", !.flags = f, !.disk = tree]]
  BY DEF Start
<1>2. [Off EXCEPT !.at = "lock", !.flags = f, !.disk = tree] \in Run
  BY <1>1, MigrationsAssumption DEF Off, Run, TypeOK
<1> QED
  BY <1>1, <1>2 DEF TypeOK

(* What has been spent is a number.                                        *)
LEMMA SpendType ==
    ASSUME TypeOK, NEW kind \in {"change", "fail", "crash", "loss"}, NEW max,
           Spend(kind, max)
    PROVE  /\ spent' \in Spending
           /\ kind # "loss" => spent'.loss = spent.loss
BY DEF TypeOK, Spending, Spend

(* A row is added and nothing that was recorded is lost.                   *)
LEMMA RecordsRow ==
    ASSUME TypeOK, NEW r \in Runner, NEW by \in {"run", "bootstrap"},
           run[r].todo # {}, run[r].disk[File(r)] # Absent, Records(r, by)
    PROVE  /\ rows' \in [Version -> {NoRow} \cup [of : Content, by : {"run", "bootstrap"}]]
           /\ rows'[File(r)] # NoRow
           /\ rows'[File(r)] = [of |-> run[r].disk[File(r)], by |-> by]
           /\ \A v \in Version : v # File(r) => rows'[v] = rows[v]
           /\ \A v \in Version : Recorded(v) => Recorded(v)'
<1>1. File(r) \in Version
  BY FirstFile
<1>2. run[r].disk[File(r)] \in Content
  BY <1>1 DEF TypeOK, Run
<1>3. Row(run[r].disk[File(r)], by) \in [of : Content, by : {"run", "bootstrap"}]
  BY <1>2 DEF Row
<1>4. rows' = [rows EXCEPT ![File(r)] = Row(run[r].disk[File(r)], by)]
  BY DEF Records
<1>5. Row(run[r].disk[File(r)], by) # NoRow
  BY <1>2 DEF Row, NoRow, Content, Absent
<1>6. rows \in [Version -> {NoRow} \cup [of : Content, by : {"run", "bootstrap"}]]
  BY DEF TypeOK
<1>7. rows'[File(r)] = Row(run[r].disk[File(r)], by)
      /\ \A v \in Version : v # File(r) => rows'[v] = rows[v]
  BY <1>1, <1>4, <1>6
<1>8. rows' \in [Version -> {NoRow} \cup [of : Content, by : {"run", "bootstrap"}]]
  BY <1>1, <1>3, <1>4, <1>6
<1> QED
  BY <1>1, <1>5, <1>7, <1>8 DEF Row, Recorded

(* A step of one run keeps the runs apart: it takes the lock of no other   *)
(* run, works only with the lock, and changes the history only under it.   *)
LEMMA StaysApart ==
    ASSUME IInv, NEW r \in Runner, spent'.loss = spent.loss,
           \A s \in Runner : s # r => run'[s] = run[s] /\ (lock = s => lock' = s),
           spent.loss = 0 /\ run'[r].at \notin {"off", "lock"} => lock' = r,
           rows' = rows \/ run[r].at \notin {"off", "lock"},
           spent.loss = 0 /\ run'[r].at \in {"table"} \cup Working =>
             ~HasBlockingErrors(run[r].disk)'
    PROVE  Apart'
<1> SUFFICES ASSUME spent.loss = 0, NEW s \in Runner, s # r,
                    run[s].at \notin {"off", "lock"}
             PROVE  /\ lock' = s
                    /\ run[s].at \in {"table"} \cup Working =>
                         ~HasBlockingErrors(run[s].disk)'
  BY DEF Apart, Working
<1>1. lock = s
  BY DEF IInv, Apart
<1>2. rows' = rows
  BY <1>1 DEF IInv, Apart
<1>3. run[s].at \in {"table"} \cup Working => ~HasBlockingErrors(run[s].disk)
  BY DEF IInv, Apart
<1> QED
  BY <1>1, <1>2, <1>3 DEF HasBlockingErrors, Recorded

(* Recording the file a run is at keeps the history and its files agreed.  *)
LEMMA RecordsApart ==
    ASSUME IInv, NEW r \in Runner, run[r].at \in Working,
           spent' = spent, lock' = lock,
           \A s \in Runner : s # r => run'[s] = run[s],
           run'[r].disk = run[r].disk,
           rows'[File(r)].of = run[r].disk[File(r)],
           \A v \in Version : v # File(r) => rows'[v] = rows[v]
    PROVE  Apart'
<1>1. run[r].at \notin {"off", "lock"}
  BY DEF Working
<1>2. spent.loss = 0 => lock = r /\ ~HasBlockingErrors(run[r].disk)
  BY <1>1 DEF IInv, Apart
<1>3. spent.loss = 0 => ~HasBlockingErrors(run[r].disk)'
  BY <1>2 DEF HasBlockingErrors, Recorded
<1> QED
  BY <1>1, <1>2, <1>3, StaysApart

(* A commit touches the repository only.                                   *)
LEMMA CommitInductive ==
    ASSUME NEW v \in Version, IInv, Commit(v)
    PROVE  IInv'
<1> USE MigrationsAssumption
<1>a. run' = run /\ \A s \in Runner : File(s)' = File(s)
  BY DEF File, Commit
<1>t. run' \in [Runner -> Run]
  BY DEF IInv, TypeOK, Goes, Commit
<1>s. spent' \in Spending /\ spent'.loss = spent.loss
  BY SpendType DEF IInv, Commit
<1>1. TypeOK'
  <2>1. tree' \in [Version -> Content \cup {Absent}]
    <3>1. PICK c \in Written : tree' = [tree EXCEPT ![v] = c]
      BY DEF Commit
    <3>2. c \in Content \cup {Absent}
      BY <3>1 DEF Content, Absent
    <3> QED
      BY <3>1, <3>2 DEF IInv, TypeOK
  <2> QED
    BY <2>1, <1>a, <1>t, <1>s DEF IInv, TypeOK, Recorded, Commit
<1>2. HistoryIsTrue'
  BY <1>a, <1>t, <1>s DEF IInv, TypeOK, HistoryIsTrue, Recorded, NoRow,
     Content, Absent, Broken, Commit
<1>3. TableFirst'
  BY <1>a, <1>t, <1>s DEF IInv, TypeOK, TableFirst, Working, Recorded, NoRow,
     Content, Absent, Broken, Commit
<1>4. Indexes'
  BY <1>a, <1>t, <1>s, SMTT(40) DEF IInv, TypeOK, Indexes, Run, IndexAt, Alone,
     Content, Absent, Broken, Commit
<1>5. Behind'
  BY <1>a, <1>t, <1>s DEF IInv, TypeOK, Behind, Working, Recorded, NoRow,
     Content, Absent, Broken, Commit
<1>6. Apart'
  BY <1>a, <1>t, <1>s, SMTT(40) DEF IInv, TypeOK, Apart, HasBlockingErrors,
     Nobody, Spending, Working, Recorded, NoRow, Content, Absent, Broken,
     Commit
<1> QED
  BY <1>1, <1>2, <1>3, <1>4, <1>5, <1>6 DEF IInv

(* A run starts with a checkout.                                           *)
LEMMA StartInductive ==
    ASSUME NEW r \in Runner, IInv, Start(r)
    PROVE  IInv'
<1> USE MigrationsAssumption
<1>a. \A s \in Runner : s # r => File(s)' = File(s) /\ run'[s] = run[s]
  BY DEF IInv, TypeOK, File, Records, Finished, Goes, Start
<1>t. run' \in [Runner -> Run]
  BY StartType DEF IInv, Start
<1>s. spent' \in Spending /\ spent'.loss = spent.loss
  BY DEF IInv, TypeOK, Start
<1>p. run'[r].at = "lock"
  BY DEF IInv, TypeOK, Run, Goes, File, Start, Off
<1>1. TypeOK'
  BY <1>a, <1>t, <1>s, <1>p DEF IInv, TypeOK, Recorded, NoRow, Content, Absent,
     Broken, Start
<1>2. HistoryIsTrue'
  BY <1>a, <1>t, <1>s, <1>p DEF IInv, TypeOK, HistoryIsTrue, Recorded, NoRow,
     Content, Absent, Broken, Start
<1>3. TableFirst'
  BY <1>a, <1>t, <1>s, <1>p DEF IInv, TypeOK, TableFirst, Working, Recorded,
     NoRow, Content, Absent, Broken, Start
<1>4. Indexes'
  <2>1. ASSUME NEW s \in Runner, s # r PROVE IndexAt(s)'
    BY <2>1, <1>a, <1>t, <1>s, <1>p DEF IInv, TypeOK, Indexes, IndexAt, Run,
       Content, Absent, Broken, Start, Alone
  <2>2. IndexAt(r)'
    BY <1>a, <1>t, <1>s, <1>p DEF IInv, TypeOK, Indexes, IndexAt, Run, Content,
       Absent, Broken, Start
  <2>3. ASSUME NEW s \in Runner PROVE Alone(s)'
    BY <1>a, <1>t, <1>s, <1>p DEF IInv, Indexes, IndexAt, Content, Absent,
       Broken, Start, Alone
  <2> QED
    BY <2>1, <2>2, <2>3 DEF Indexes
<1>5. Behind'
  BY <1>a, <1>t, <1>s, <1>p DEF IInv, TypeOK, Behind, Working, Recorded, NoRow,
     Content, Absent, Broken, Start
<1>6. Apart'
  BY <1>a, <1>t, <1>s, <1>p, SMTT(40) DEF IInv, TypeOK, Apart,
     HasBlockingErrors, Nobody, Spending, Working, Recorded, NoRow, Content,
     Absent, Broken, Start
<1> QED
  BY <1>1, <1>2, <1>3, <1>4, <1>5, <1>6 DEF IInv

(* Nobody is building the index that is dropped.                           *)
LEMMA DropIndexInductive ==
    ASSUME NEW v \in Version, IInv, DropIndex(v)
    PROVE  IInv'
<1> USE MigrationsAssumption
<1>a. run' = run /\ \A s \in Runner : File(s)' = File(s)
  BY DEF File, DropIndex
<1>t. run' \in [Runner -> Run]
  BY DEF IInv, TypeOK, Goes, DropIndex
<1>s. spent' \in Spending /\ spent'.loss = spent.loss
  BY DEF IInv, TypeOK, DropIndex
<1>1. TypeOK'
  BY <1>a, <1>t, <1>s DEF IInv, TypeOK, Recorded, NoRow, Content, Absent,
     Broken, DropIndex
<1>2. HistoryIsTrue'
  BY <1>a, <1>t, <1>s DEF IInv, TypeOK, HistoryIsTrue, Recorded, NoRow,
     Content, Absent, Broken, DropIndex
<1>3. TableFirst'
  BY <1>a, <1>t, <1>s DEF IInv, TypeOK, TableFirst, Working, Recorded, NoRow,
     Content, Absent, Broken, DropIndex
<1>4. Indexes'
  BY <1>a, <1>t, <1>s, SMTT(40) DEF IInv, TypeOK, Indexes, Run, IndexAt, Alone,
     Content, Absent, Broken, DropIndex
<1>5. Behind'
  BY <1>a, <1>t, <1>s DEF IInv, TypeOK, Behind, Working, Recorded, NoRow,
     Content, Absent, Broken, DropIndex
<1>6. Apart'
  BY <1>a, <1>t, <1>s, SMTT(40) DEF IInv, TypeOK, Apart, HasBlockingErrors,
     Nobody, Spending, Working, Recorded, NoRow, Content, Absent, Broken,
     DropIndex
<1> QED
  BY <1>1, <1>2, <1>3, <1>4, <1>5, <1>6 DEF IInv

(* The lock is free.                                                       *)
LEMMA AcquireInductive ==
    ASSUME NEW r \in Runner, IInv, Acquire(r)
    PROVE  IInv'
<1> USE MigrationsAssumption
<1>a. \A s \in Runner : s # r => File(s)' = File(s) /\ run'[s] = run[s]
  BY DEF IInv, TypeOK, File, Records, Finished, Goes, Acquire
<1>t. run' \in [Runner -> Run]
  BY RunTypes DEF IInv, TypeOK, Goes, Acquire
<1>s. spent' \in Spending /\ spent'.loss = spent.loss
  BY DEF IInv, TypeOK, Acquire
<1>p. run'[r].at = "exists" /\ run'[r].disk = run[r].disk
      /\ run'[r].todo = run[r].todo /\ run'[r].fresh = run[r].fresh
  BY DEF IInv, TypeOK, Run, Goes, Acquire
<1>q. File(r)' = File(r)
  BY <1>p DEF File
<1>1. TypeOK'
  BY <1>a, <1>t, <1>s, <1>q, <1>p DEF IInv, TypeOK, Recorded, NoRow, Content,
     Absent, Broken, Acquire
<1>2. HistoryIsTrue'
  BY <1>a, <1>t, <1>s, <1>q, <1>p DEF IInv, TypeOK, HistoryIsTrue, Recorded,
     NoRow, Content, Absent, Broken, Acquire
<1>3. TableFirst'
  BY <1>a, <1>t, <1>s, <1>q, <1>p DEF IInv, TypeOK, TableFirst, Working,
     Recorded, NoRow, Content, Absent, Broken, Acquire
<1>4. Indexes'
  <2>1. ASSUME NEW s \in Runner, s # r PROVE IndexAt(s)'
    BY <2>1, <1>a, <1>t, <1>s, <1>q, <1>p DEF IInv, TypeOK, Indexes, IndexAt,
       Run, Content, Absent, Broken, Acquire, Alone
  <2>2. IndexAt(r)'
    BY <1>a, <1>t, <1>s, <1>q, <1>p DEF IInv, TypeOK, Indexes, IndexAt, Run,
       Content, Absent, Broken, Acquire
  <2>3. ASSUME NEW s \in Runner PROVE Alone(s)'
    BY <1>a, <1>t, <1>s, <1>q, <1>p DEF IInv, Indexes, IndexAt, Content,
       Absent, Broken, Acquire, Alone
  <2> QED
    BY <2>1, <2>2, <2>3 DEF Indexes
<1>5. Behind'
  BY <1>a, <1>t, <1>s, <1>q, <1>p DEF IInv, TypeOK, Behind, Working, Recorded,
     NoRow, Content, Absent, Broken, Acquire
<1>6. Apart'
  BY <1>a, <1>t, <1>s, <1>q, <1>p, SMTT(40) DEF IInv, TypeOK, Apart,
     HasBlockingErrors, Nobody, Spending, Working, Recorded, NoRow, Content,
     Absent, Broken, Acquire
<1> QED
  BY <1>1, <1>2, <1>3, <1>4, <1>5, <1>6 DEF IInv

(* The run looks for the table.                                            *)
LEMMA HistoryTableExistsInductive ==
    ASSUME NEW r \in Runner, IInv, HistoryTableExists(r)
    PROVE  IInv'
<1> USE MigrationsAssumption
<1>a. \A s \in Runner : s # r => File(s)' = File(s) /\ run'[s] = run[s]
  BY DEF IInv, TypeOK, File, Records, Finished, Goes, HistoryTableExists
<1>t. run' \in [Runner -> Run]
  BY RunTypes DEF IInv, TypeOK, Goes, HistoryTableExists
<1>s. spent' \in Spending /\ spent'.loss = spent.loss
  BY DEF IInv, TypeOK, HistoryTableExists
<1>p. run'[r].at = "state" /\ run'[r].fresh = ~table
  BY DEF IInv, TypeOK, Run, Goes, HistoryTableExists
<1>1. TypeOK'
  BY <1>a, <1>t, <1>s, <1>p DEF IInv, TypeOK, Recorded, NoRow, Content, Absent,
     Broken, HistoryTableExists
<1>2. HistoryIsTrue'
  BY <1>a, <1>t, <1>s, <1>p DEF IInv, TypeOK, HistoryIsTrue, Recorded, NoRow,
     Content, Absent, Broken, HistoryTableExists
<1>3. TableFirst'
  BY <1>a, <1>t, <1>s, <1>p DEF IInv, TypeOK, TableFirst, Working, Recorded,
     NoRow, Content, Absent, Broken, HistoryTableExists
<1>4. Indexes'
  <2>1. ASSUME NEW s \in Runner, s # r PROVE IndexAt(s)'
    BY <2>1, <1>a, <1>t, <1>s, <1>p DEF IInv, TypeOK, Indexes, IndexAt, Run,
       Content, Absent, Broken, HistoryTableExists, Alone
  <2>2. IndexAt(r)'
    BY <1>a, <1>t, <1>s, <1>p DEF IInv, TypeOK, Indexes, IndexAt, Run, Content,
       Absent, Broken, HistoryTableExists
  <2>3. ASSUME NEW s \in Runner PROVE Alone(s)'
    BY <1>a, <1>t, <1>s, <1>p DEF IInv, Indexes, IndexAt, Content, Absent,
       Broken, HistoryTableExists, Alone
  <2> QED
    BY <2>1, <2>2, <2>3 DEF Indexes
<1>5. Behind'
  BY <1>a, <1>t, <1>s, <1>p DEF IInv, TypeOK, Behind, Working, Recorded, NoRow,
     Content, Absent, Broken, HistoryTableExists
<1>6. Apart'
  BY <1>a, <1>t, <1>s, <1>p, SMTT(40) DEF IInv, TypeOK, Apart,
     HasBlockingErrors, Nobody, Spending, Working, Recorded, NoRow, Content,
     Absent, Broken, HistoryTableExists
<1> QED
  BY <1>1, <1>2, <1>3, <1>4, <1>5, <1>6 DEF IInv

(* What is pending is what is not recorded.                                *)
LEMMA ComputeStateInductive ==
    ASSUME NEW r \in Runner, IInv, ComputeState(r)
    PROVE  IInv'
<1> USE MigrationsAssumption
<1>a. \A s \in Runner : s # r => File(s)' = File(s) /\ run'[s] = run[s]
  BY DEF IInv, TypeOK, File, Records, Finished, Goes, ComputeState
<1>t. run' \in [Runner -> Run]
  <2>1. Pending(run[r].disk) \in SUBSET Version
    BY DEF Pending
  <2>2. CASE run' = [run EXCEPT ![r].at = "unlock"]
    BY <2>2, RunTypes DEF IInv
  <2>3. CASE \E at \in {"table", "next"} :
            run' = [run EXCEPT ![r].at = at, ![r].todo = Pending(run[r].disk)]
    <3>1. CASE run' = [run EXCEPT ![r].at = "table", ![r].todo = Pending(run[r].disk)]
      BY <2>1, <3>1, RunTypes DEF IInv
    <3>2. CASE run' = [run EXCEPT ![r].at = "next", ![r].todo = Pending(run[r].disk)]
      BY <2>1, <3>2, RunTypes DEF IInv
    <3> QED
      BY <2>3, <3>1, <3>2
  <2> QED
    BY <2>2, <2>3 DEF ComputeState, Goes
<1>s. spent' \in Spending /\ spent'.loss = spent.loss
  BY DEF IInv, TypeOK, ComputeState
<1>p. \/ run'[r].at = "unlock"
      \/ /\ run'[r].at = IF run[r].fresh THEN "table" ELSE "next"
         /\ run'[r].disk = run[r].disk /\ run'[r].fresh = run[r].fresh
         /\ run'[r].todo = Pending(run[r].disk)
         /\ ~HasBlockingErrors(run[r].disk)
  BY DEF IInv, TypeOK, Run, Goes, File, ComputeState
<1>1. TypeOK'
  BY <1>a, <1>t, <1>s, <1>p DEF IInv, TypeOK, Recorded, NoRow, Content, Absent,
     Broken, ComputeState
<1>2. HistoryIsTrue'
  BY <1>a, <1>t, <1>s, <1>p DEF IInv, TypeOK, HistoryIsTrue, Recorded, NoRow,
     Content, Absent, Broken, ComputeState
<1>3. TableFirst'
  BY <1>a, <1>t, <1>s, <1>p DEF IInv, TypeOK, TableFirst, Working, Recorded,
     NoRow, Content, Absent, Broken, ComputeState
<1>4. Indexes'
  <2>1. ASSUME NEW s \in Runner, s # r PROVE IndexAt(s)'
    BY <2>1, <1>a, <1>t, <1>s, <1>p DEF IInv, TypeOK, Indexes, IndexAt, Run,
       Content, Absent, Broken, ComputeState, Alone
  <2>2. IndexAt(r)'
    BY <1>a, <1>t, <1>s, <1>p DEF IInv, TypeOK, Indexes, IndexAt, Run, Content,
       Absent, Broken, ComputeState
  <2>3. ASSUME NEW s \in Runner PROVE Alone(s)'
    BY <1>a, <1>t, <1>s, <1>p DEF IInv, Indexes, IndexAt, Content, Absent,
       Broken, ComputeState, Alone
  <2> QED
    BY <2>1, <2>2, <2>3 DEF Indexes
<1>5. Behind'
  BY <1>a, <1>t, <1>s, <1>p DEF IInv, TypeOK, Behind, Pending, Working,
     Recorded, NoRow, Content, Absent, Broken, ComputeState
<1>6. Apart'
  BY <1>a, <1>t, <1>s, <1>p, SMTT(40) DEF IInv, TypeOK, Apart,
     HasBlockingErrors, Nobody, Spending, Working, Recorded, NoRow, Content,
     Absent, Broken, ComputeState
<1> QED
  BY <1>1, <1>2, <1>3, <1>4, <1>5, <1>6 DEF IInv

(* The table is there before the first row.                                *)
LEMMA CreateTableInductive ==
    ASSUME NEW r \in Runner, IInv, CreateTable(r)
    PROVE  IInv'
<1> USE MigrationsAssumption
<1>a. \A s \in Runner : s # r => File(s)' = File(s) /\ run'[s] = run[s]
  BY DEF IInv, TypeOK, File, Records, Finished, Goes, CreateTable
<1>t. run' \in [Runner -> Run]
  BY RunTypes DEF IInv, TypeOK, Goes, CreateTable
<1>s. spent' \in Spending /\ spent'.loss = spent.loss
  BY DEF IInv, TypeOK, CreateTable
<1>p. run'[r].at = "next" /\ run'[r].disk = run[r].disk
      /\ run'[r].todo = run[r].todo /\ run'[r].fresh = run[r].fresh
  BY DEF IInv, TypeOK, Run, Goes, CreateTable
<1>q. File(r)' = File(r)
  BY <1>p DEF File
<1>1. TypeOK'
  BY <1>a, <1>t, <1>s, <1>q, <1>p DEF IInv, TypeOK, Recorded, NoRow, Content,
     Absent, Broken, CreateTable
<1>2. HistoryIsTrue'
  BY <1>a, <1>t, <1>s, <1>q, <1>p DEF IInv, TypeOK, HistoryIsTrue, Recorded,
     NoRow, Content, Absent, Broken, CreateTable
<1>3. TableFirst'
  BY <1>a, <1>t, <1>s, <1>q, <1>p DEF IInv, TypeOK, TableFirst, Working,
     Recorded, NoRow, Content, Absent, Broken, CreateTable
<1>4. Indexes'
  <2>1. ASSUME NEW s \in Runner, s # r PROVE IndexAt(s)'
    BY <2>1, <1>a, <1>t, <1>s, <1>q, <1>p DEF IInv, TypeOK, Indexes, IndexAt,
       Run, Content, Absent, Broken, CreateTable, Alone
  <2>2. IndexAt(r)'
    BY <1>a, <1>t, <1>s, <1>q, <1>p DEF IInv, TypeOK, Indexes, IndexAt, Run,
       Content, Absent, Broken, CreateTable
  <2>3. ASSUME NEW s \in Runner PROVE Alone(s)'
    BY <1>a, <1>t, <1>s, <1>q, <1>p DEF IInv, Indexes, IndexAt, Content,
       Absent, Broken, CreateTable, Alone
  <2> QED
    BY <2>1, <2>2, <2>3 DEF Indexes
<1>5. Behind'
  BY <1>a, <1>t, <1>s, <1>q, <1>p DEF IInv, TypeOK, Behind, Working, Recorded,
     NoRow, Content, Absent, Broken, CreateTable
<1>6. Apart'
  BY <1>a, <1>t, <1>s, <1>q, <1>p, SMTT(40) DEF IInv, TypeOK, Apart,
     HasBlockingErrors, Nobody, Spending, Working, Recorded, NoRow, Content,
     Absent, Broken, CreateTable
<1> QED
  BY <1>1, <1>2, <1>3, <1>4, <1>5, <1>6 DEF IInv

(* No file is left.                                                        *)
LEMMA DoneInductive ==
    ASSUME NEW r \in Runner, IInv, Done(r)
    PROVE  IInv'
<1> USE MigrationsAssumption
<1>a. \A s \in Runner : s # r => File(s)' = File(s) /\ run'[s] = run[s]
  BY DEF IInv, TypeOK, File, Records, Finished, Goes, Done
<1>t. run' \in [Runner -> Run]
  BY RunTypes DEF IInv, TypeOK, Goes, Done
<1>s. spent' \in Spending /\ spent'.loss = spent.loss
  BY DEF IInv, TypeOK, Done
<1>p. run'[r].at = "unlock" /\ run'[r].disk = run[r].disk
      /\ run'[r].todo = run[r].todo /\ run'[r].fresh = run[r].fresh
  BY DEF IInv, TypeOK, Run, Goes, Done
<1>q. File(r)' = File(r)
  BY <1>p DEF File
<1>1. TypeOK'
  BY <1>a, <1>t, <1>s, <1>q, <1>p DEF IInv, TypeOK, Recorded, NoRow, Content,
     Absent, Broken, Done
<1>2. HistoryIsTrue'
  BY <1>a, <1>t, <1>s, <1>q, <1>p DEF IInv, TypeOK, HistoryIsTrue, Recorded,
     NoRow, Content, Absent, Broken, Done
<1>3. TableFirst'
  BY <1>a, <1>t, <1>s, <1>q, <1>p DEF IInv, TypeOK, TableFirst, Working,
     Recorded, NoRow, Content, Absent, Broken, Done
<1>4. Indexes'
  <2>1. ASSUME NEW s \in Runner, s # r PROVE IndexAt(s)'
    BY <2>1, <1>a, <1>t, <1>s, <1>q, <1>p DEF IInv, TypeOK, Indexes, IndexAt,
       Run, Content, Absent, Broken, Done, Alone
  <2>2. IndexAt(r)'
    BY <1>a, <1>t, <1>s, <1>q, <1>p DEF IInv, TypeOK, Indexes, IndexAt, Run,
       Content, Absent, Broken, Done
  <2>3. ASSUME NEW s \in Runner PROVE Alone(s)'
    BY <1>a, <1>t, <1>s, <1>q, <1>p DEF IInv, Indexes, IndexAt, Content,
       Absent, Broken, Done, Alone
  <2> QED
    BY <2>1, <2>2, <2>3 DEF Indexes
<1>5. Behind'
  BY <1>a, <1>t, <1>s, <1>q, <1>p DEF IInv, TypeOK, Behind, Working, Recorded,
     NoRow, Content, Absent, Broken, Done
<1>6. Apart'
  <2>1. rows' = rows /\ lock' = lock /\ run[r].at \in {"table"} \cup Working
    BY DEF Done, At, Working
  <2>2. run[r].at \notin {"off", "lock"}
    BY <2>1 DEF Working
  <2>3. spent.loss = 0 => lock = r /\ ~HasBlockingErrors(run[r].disk)
    BY <2>1, <2>2 DEF IInv, Apart
  <2>4. spent.loss = 0 => ~HasBlockingErrors(run[r].disk)'
    BY <1>p, <2>1, <2>3 DEF HasBlockingErrors, Recorded
  <2> QED
    BY <1>a, <1>s, <2>1, <2>2, <2>3, <2>4, StaysApart
<1> QED
  BY <1>1, <1>2, <1>3, <1>4, <1>5, <1>6 DEF IInv

(* A row without an execution.                                             *)
LEMMA BootstrapInductive ==
    ASSUME NEW r \in Runner, IInv, Bootstrap(r)
    PROVE  IInv'
<1> USE MigrationsAssumption
<1>a. \A s \in Runner : s # r => File(s)' = File(s) /\ run'[s] = run[s]
  BY DEF IInv, TypeOK, File, Records, Finished, Goes, Bootstrap
<1>b. run[r].todo # {} /\ File(r) \in run[r].todo /\ File(r) \in Version
      /\ \A w \in run[r].todo : File(r) <= w
  BY FirstFile DEF IInv, TypeOK, At, Bootstrap
<1>c. run[r].disk[File(r)] \in Content /\ File(r) \in Nat
  <2>0. run[r] \in Run
    BY DEF IInv, TypeOK
  <2>1. run[r].disk[File(r)] \in Content \cup {Absent} /\ File(r) \in Nat
    BY <1>b, <2>0 DEF Run
  <2>2. run[r].at \in Working
    BY DEF Working, At, Bootstrap
  <2>3. run[r].disk[File(r)] # Absent
    BY <1>b, <2>2 DEF IInv, Behind
  <2> QED
    BY <2>1, <2>3
<1>d. /\ rows' \in [Version -> {NoRow} \cup [of : Content, by : {"run", "bootstrap"}]]
      /\ rows'[File(r)] # NoRow
      /\ rows'[File(r)] = [of |-> run[r].disk[File(r)], by |-> "bootstrap"]
      /\ \A v \in Version : v # File(r) => rows'[v] = rows[v]
      /\ \A v \in Version : Recorded(v) => Recorded(v)'
  <2>1. Records(r, "bootstrap") /\ run[r].disk[File(r)] # Absent
    BY <1>c DEF Content, Absent, Bootstrap
  <2> QED
    BY <1>b, <2>1, RecordsRow DEF IInv
<1>n. ~Recorded(File(r))
  BY DEF Records, Bootstrap
<1>e. run' = [run EXCEPT ![r].at = "next", ![r].todo = @ \ {File(r)}]
  BY DEF Records, Finished, Bootstrap
<1>t. run' \in [Runner -> Run]
  <2>1. run[r].todo \ {File(r)} \in SUBSET Version
    BY DEF IInv, TypeOK, Run
  <2> QED
    BY <1>e, <2>1, RunTypes DEF IInv
<1>s. spent' \in Spending /\ spent'.loss = spent.loss
  BY DEF IInv, TypeOK, Bootstrap
<1>p. /\ run'[r].at = "next" /\ run'[r].disk = run[r].disk
      /\ run'[r].todo = run[r].todo \ {File(r)} /\ run'[r].fresh = run[r].fresh
  BY <1>e DEF IInv, TypeOK, Run
<1>1. TypeOK'
  BY <1>a, <1>b, <1>c, <1>d, <1>n, <1>t, <1>s, <1>p DEF IInv, TypeOK,
     TableFirst, Working, Recorded, NoRow, At, Content, Absent, Broken,
     Bootstrap
<1>2. HistoryIsTrue'
  BY <1>a, <1>b, <1>c, <1>d, <1>n, <1>t, <1>s, <1>p DEF IInv, TypeOK,
     HistoryIsTrue, Indexes, Recorded, NoRow, At, Content, Absent, Broken,
     Bootstrap
<1>3. TableFirst'
  BY <1>a, <1>b, <1>c, <1>d, <1>n, <1>t, <1>s, <1>p DEF IInv, TypeOK,
     TableFirst, Working, Recorded, NoRow, At, Content, Absent, Broken,
     Bootstrap
<1>4. Indexes'
  <2>1. ASSUME NEW s \in Runner, s # r PROVE IndexAt(s)'
    BY <2>1, <1>a, <1>b, <1>c, <1>d, <1>n, <1>t, <1>s, <1>p DEF IInv, TypeOK,
       Indexes, IndexAt, Run, Content, Absent, Broken, Bootstrap, At, Alone
  <2>2. IndexAt(r)'
    BY <1>a, <1>b, <1>c, <1>d, <1>n, <1>t, <1>s, <1>p DEF IInv, TypeOK,
       Indexes, IndexAt, Run, Content, Absent, Broken, Bootstrap, At
  <2>3. ASSUME NEW s \in Runner PROVE Alone(s)'
    BY <1>a, <1>b, <1>c, <1>d, <1>n, <1>t, <1>s, <1>p DEF IInv, Indexes,
       IndexAt, Content, Absent, Broken, Bootstrap, At, Alone
  <2> QED
    BY <2>1, <2>2, <2>3 DEF Indexes
<1>5. Behind'
  <2>1. run[r].at \in Working
    BY DEF Working, At, Bootstrap
  <2>2. ASSUME NEW v \in Version, v \notin run'[r].todo, run[r].disk[v] # Absent
        PROVE  rows'[v] # NoRow
    <3>1. CASE v = File(r)
      BY <1>d, <3>1
    <3>2. CASE v # File(r)
      BY <1>p, <1>d, <2>1, <2>2, <3>2 DEF IInv, Behind, Recorded, NoRow
    <3> QED
      BY <3>1, <3>2
  <2>3. ASSUME NEW s \in Runner, s # r, run[s].at \in {"table"} \cup Working,
               NEW v \in Version, v \notin run[s].todo, run[s].disk[v] # Absent
        PROVE  rows'[v] # NoRow
    BY <1>d, <2>3 DEF IInv, Behind, Recorded, NoRow
  <2> QED
    BY <1>a, <1>p, <2>1, <2>2, <2>3 DEF IInv, Behind, Recorded, NoRow, Working
<1>6. Apart'
  <2>1. run[r].at \in Working /\ spent' = spent /\ lock' = lock
    BY DEF Bootstrap, At, Working
  <2> QED
    BY <1>a, <1>d, <1>p, <2>1, RecordsApart
<1> QED
  BY <1>1, <1>2, <1>3, <1>4, <1>5, <1>6 DEF IInv

(* The file and its row at once.                                           *)
LEMMA TransactInductive ==
    ASSUME NEW r \in Runner, IInv, Transact(r)
    PROVE  IInv'
<1> USE MigrationsAssumption
<1>a. \A s \in Runner : s # r => File(s)' = File(s) /\ run'[s] = run[s]
  BY DEF IInv, TypeOK, File, Records, Finished, Goes, Transact
<1>b. run[r].todo # {} /\ File(r) \in run[r].todo /\ File(r) \in Version
      /\ \A w \in run[r].todo : File(r) <= w
  BY FirstFile DEF IInv, TypeOK, At, Transact
<1>c. run[r].disk[File(r)] \in Content /\ File(r) \in Nat
  <2>0. run[r] \in Run
    BY DEF IInv, TypeOK
  <2>1. run[r].disk[File(r)] \in Content \cup {Absent} /\ File(r) \in Nat
    BY <1>b, <2>0 DEF Run
  <2>2. run[r].at \in Working
    BY DEF Working, At, Transact
  <2>3. run[r].disk[File(r)] # Absent
    BY <1>b, <2>2 DEF IInv, Behind
  <2> QED
    BY <2>1, <2>3
<1>d. /\ rows' \in [Version -> {NoRow} \cup [of : Content, by : {"run", "bootstrap"}]]
      /\ rows'[File(r)] # NoRow
      /\ rows'[File(r)] = [of |-> run[r].disk[File(r)], by |-> "run"]
      /\ \A v \in Version : v # File(r) => rows'[v] = rows[v]
      /\ \A v \in Version : Recorded(v) => Recorded(v)'
  <2>1. Records(r, "run") /\ run[r].disk[File(r)] # Absent
    BY <1>c DEF Content, Absent, Transact
  <2> QED
    BY <1>b, <2>1, RecordsRow DEF IInv
<1>n. ~Recorded(File(r))
  BY DEF Records, Transact
<1>e. run' = [run EXCEPT ![r].at = "next", ![r].todo = @ \ {File(r)}]
  BY DEF Records, Finished, Transact
<1>t. run' \in [Runner -> Run]
  <2>1. run[r].todo \ {File(r)} \in SUBSET Version
    BY DEF IInv, TypeOK, Run
  <2> QED
    BY <1>e, <2>1, RunTypes DEF IInv
<1>s. spent' \in Spending /\ spent'.loss = spent.loss
  BY DEF IInv, TypeOK, Transact
<1>p. /\ run'[r].at = "next" /\ run'[r].disk = run[r].disk
      /\ run'[r].todo = run[r].todo \ {File(r)} /\ run'[r].fresh = run[r].fresh
  BY <1>e DEF IInv, TypeOK, Run
<1>1. TypeOK'
  <2>1. db' \in [Version -> Content \cup {Absent, Broken}] /\ ran' \subseteq Version
    BY <1>b, <1>c DEF IInv, TypeOK, Transact
  <2>2. tree' = tree /\ table' = table /\ lock' = lock /\ run[r].at \in Working
    BY DEF Transact, At, Working
  <2>3. table
    BY <2>2 DEF IInv, TableFirst
  <2>4. \A s \in Runner : run'[s].at \in {"build", "check", "record"} => run'[s].todo # {}
    BY <1>a, <1>p DEF IInv, TypeOK
  <2> QED
    BY <1>d, <1>s, <1>t, <2>1, <2>2, <2>3, <2>4 DEF IInv, TypeOK
<1>2. HistoryIsTrue'
  <2>1. db'[File(r)] = run[r].disk[File(r)] /\ ran' = ran \cup {File(r)}
        /\ \A v \in Version : v # File(r) => db'[v] = db[v]
    BY <1>b DEF IInv, TypeOK, Transact
  <2>2. ASSUME NEW v \in Version
        PROVE  /\ rows'[v].by = "run" => db'[v] = rows'[v].of
               /\ v \in ran' \ Forbidden => rows'[v].by = "run"
    <3>1. CASE v = File(r)
      BY <1>d, <2>1, <3>1
    <3>2. CASE v # File(r)
      BY <1>d, <2>1, <3>2 DEF IInv, HistoryIsTrue
    <3> QED
      BY <3>1, <3>2
  <2> QED
    BY <2>2 DEF HistoryIsTrue
<1>3. TableFirst'
  BY <1>a, <1>b, <1>c, <1>d, <1>n, <1>t, <1>s, <1>p DEF IInv, TypeOK,
     TableFirst, Working, Recorded, NoRow, At, Content, Absent, Broken,
     Transact
<1>4. Indexes'
  <2>1. ASSUME NEW s \in Runner, s # r PROVE IndexAt(s)'
    BY <2>1, <1>a, <1>b, <1>c, <1>d, <1>n, <1>t, <1>s, <1>p DEF IInv, TypeOK,
       Indexes, IndexAt, Run, Content, Absent, Broken, Transact, At, Alone
  <2>2. IndexAt(r)'
    BY <1>a, <1>b, <1>c, <1>d, <1>n, <1>t, <1>s, <1>p DEF IInv, TypeOK,
       Indexes, IndexAt, Run, Content, Absent, Broken, Transact, At
  <2>3. ASSUME NEW s \in Runner PROVE Alone(s)'
    BY <1>a, <1>b, <1>c, <1>d, <1>n, <1>t, <1>s, <1>p DEF IInv, Indexes,
       IndexAt, Content, Absent, Broken, Transact, At, Alone
  <2> QED
    BY <2>1, <2>2, <2>3 DEF Indexes
<1>5. Behind'
  <2>1. run[r].at \in Working
    BY DEF Working, At, Transact
  <2>2. ASSUME NEW v \in Version, v \notin run'[r].todo, run[r].disk[v] # Absent
        PROVE  rows'[v] # NoRow
    <3>1. CASE v = File(r)
      BY <1>d, <3>1
    <3>2. CASE v # File(r)
      BY <1>p, <1>d, <2>1, <2>2, <3>2 DEF IInv, Behind, Recorded, NoRow
    <3> QED
      BY <3>1, <3>2
  <2>3. ASSUME NEW s \in Runner, s # r, run[s].at \in {"table"} \cup Working,
               NEW v \in Version, v \notin run[s].todo, run[s].disk[v] # Absent
        PROVE  rows'[v] # NoRow
    BY <1>d, <2>3 DEF IInv, Behind, Recorded, NoRow
  <2> QED
    BY <1>a, <1>p, <2>1, <2>2, <2>3 DEF IInv, Behind, Recorded, NoRow, Working
<1>6. Apart'
  <2>1. run[r].at \in Working /\ spent' = spent /\ lock' = lock
    BY DEF Transact, At, Working
  <2> QED
    BY <1>a, <1>d, <1>p, <2>1, RecordsApart
<1> QED
  BY <1>1, <1>2, <1>3, <1>4, <1>5, <1>6 DEF IInv

(* An index is begun, or one of its name is there.                         *)
LEMMA BuildInductive ==
    ASSUME NEW r \in Runner, IInv, Build(r)
    PROVE  IInv'
<1> USE MigrationsAssumption
<1>a. \A s \in Runner : s # r => File(s)' = File(s) /\ run'[s] = run[s]
  BY DEF IInv, TypeOK, File, Records, Finished, Goes, Build
<1>b. run[r].todo # {} /\ File(r) \in run[r].todo /\ File(r) \in Version
      /\ \A w \in run[r].todo : File(r) <= w
  BY FirstFile DEF IInv, TypeOK, At, Build
<1>c. run[r].disk[File(r)] \in Content /\ File(r) \in Nat
  <2>0. run[r] \in Run
    BY DEF IInv, TypeOK
  <2>1. run[r].disk[File(r)] \in Content \cup {Absent} /\ File(r) \in Nat
    BY <1>b, <2>0 DEF Run
  <2>2. run[r].at \in Working
    BY DEF Working, At, Build
  <2>3. run[r].disk[File(r)] # Absent
    BY <1>b, <2>2 DEF IInv, Behind
  <2> QED
    BY <2>1, <2>3
<1>t. run' \in [Runner -> Run]
  <2>1. PICK at \in {"build", "check"} : run' = [run EXCEPT ![r].at = at]
    BY DEF Build, Goes
  <2> QED
    BY <2>1, RunTypes DEF IInv
<1>s. spent' \in Spending /\ spent'.loss = spent.loss
  BY DEF IInv, TypeOK, Build
<1>p. /\ run'[r].at = IF db[File(r)] = Absent THEN "build" ELSE "check"
      /\ run'[r].disk = run[r].disk /\ run'[r].todo = run[r].todo
  BY DEF IInv, TypeOK, Run, Goes, Build
<1>q. File(r)' = File(r)
  BY <1>p DEF File
<1>1. TypeOK'
  <2>1. db' \in [Version -> Content \cup {Absent, Broken}]
    BY DEF IInv, TypeOK, Build
  <2>2. ran' \subseteq Version
    BY <1>b DEF IInv, TypeOK, Build
  <2>3. \A s \in Runner : run'[s].at \in {"build", "check", "record"} => run'[s].todo # {}
    BY <1>a, <1>b, <1>p DEF IInv, TypeOK
  <2> QED
    BY <2>1, <2>2, <2>3, <1>t, <1>s DEF IInv, TypeOK, Build, Recorded, NoRow
<1>2. HistoryIsTrue'
  BY <1>a, <1>b, <1>c, <1>t, <1>s, <1>p, <1>q DEF IInv, TypeOK, HistoryIsTrue,
     Recorded, NoRow, At, Content, Absent, Broken, Build
<1>3. TableFirst'
  BY <1>a, <1>b, <1>c, <1>t, <1>s, <1>p, <1>q DEF IInv, TypeOK, TableFirst,
     Working, Recorded, NoRow, At, Content, Absent, Broken, Build
<1>4. Indexes'
  <2>1. ASSUME NEW s \in Runner, s # r PROVE IndexAt(s)'
    <3>1. IndexAt(s) /\ File(s)' = File(s) /\ run'[s] = run[s]
      BY <1>a, <2>1 DEF IInv, Indexes
    <3>2. \A v \in Version : db'[v] = db[v] \/ (db[v] = Absent /\ db'[v] = Broken)
      BY <1>b DEF IInv, TypeOK, At, Build
    <3>3. run[s].at \in {"build", "check", "record"} => File(s) \in Version
      BY FirstFile DEF IInv, TypeOK
    <3> QED
      BY <3>1, <3>2, <3>3 DEF IndexAt, Broken, Absent
  <2>2. IndexAt(r)'
    BY <1>a, <1>b, <1>c, <1>t, <1>s, <1>p, <1>q DEF IInv, TypeOK, Indexes,
       IndexAt, Run, Content, Absent, Broken, Build, At
  <2>3. ASSUME NEW s \in Runner PROVE Alone(s)'
    BY <1>a, <1>b, <1>c, <1>t, <1>s, <1>p, <1>q DEF IInv, Indexes, IndexAt,
       Content, Absent, Broken, Build, At, Alone
  <2> QED
    BY <2>1, <2>2, <2>3 DEF Indexes
<1>5. Behind'
  BY <1>a, <1>b, <1>c, <1>t, <1>s, <1>p, <1>q DEF IInv, TypeOK, Behind,
     Working, Recorded, NoRow, At, Content, Absent, Broken, Build
<1>6. Apart'
  <2>1. rows' = rows /\ lock' = lock /\ run[r].at \in {"table"} \cup Working
    BY DEF Build, At, Working
  <2>2. run[r].at \notin {"off", "lock"}
    BY <2>1 DEF Working
  <2>3. spent.loss = 0 => lock = r /\ ~HasBlockingErrors(run[r].disk)
    BY <2>1, <2>2 DEF IInv, Apart
  <2>4. spent.loss = 0 => ~HasBlockingErrors(run[r].disk)'
    BY <1>p, <2>1, <2>3 DEF HasBlockingErrors, Recorded
  <2> QED
    BY <1>a, <1>s, <2>1, <2>2, <2>3, <2>4, StaysApart
<1> QED
  BY <1>1, <1>2, <1>3, <1>4, <1>5, <1>6 DEF IInv

(* The index is as the file has it.                                        *)
LEMMA BuiltInductive ==
    ASSUME NEW r \in Runner, IInv, Built(r)
    PROVE  IInv'
<1> USE MigrationsAssumption
<1>a. \A s \in Runner : s # r => File(s)' = File(s) /\ run'[s] = run[s]
  BY DEF IInv, TypeOK, File, Records, Finished, Goes, Built
<1>b. run[r].todo # {} /\ File(r) \in run[r].todo /\ File(r) \in Version
      /\ \A w \in run[r].todo : File(r) <= w
  BY FirstFile DEF IInv, TypeOK, At, Built
<1>c. run[r].disk[File(r)] \in Content /\ File(r) \in Nat
  <2>0. run[r] \in Run
    BY DEF IInv, TypeOK
  <2>1. run[r].disk[File(r)] \in Content \cup {Absent} /\ File(r) \in Nat
    BY <1>b, <2>0 DEF Run
  <2>2. run[r].at \in Working
    BY DEF Working, At, Built
  <2>3. run[r].disk[File(r)] # Absent
    BY <1>b, <2>2 DEF IInv, Behind
  <2> QED
    BY <2>1, <2>3
<1>t. run' \in [Runner -> Run]
  BY RunTypes DEF IInv, TypeOK, Goes, Built
<1>s. spent' \in Spending /\ spent'.loss = spent.loss
  BY DEF IInv, TypeOK, Built
<1>p. run'[r].at = "check" /\ run'[r].disk = run[r].disk
      /\ run'[r].todo = run[r].todo /\ run'[r].fresh = run[r].fresh
  BY DEF IInv, TypeOK, Run, Goes, Built
<1>q. File(r)' = File(r)
  BY <1>p DEF File
<1>1. TypeOK'
  BY <1>a, <1>b, <1>c, <1>t, <1>s, <1>q, <1>p DEF IInv, TypeOK, TableFirst,
     Working, Recorded, NoRow, Content, Absent, Broken, Built
<1>2. HistoryIsTrue'
  BY <1>a, <1>b, <1>c, <1>t, <1>s, <1>q, <1>p DEF IInv, TypeOK, HistoryIsTrue,
     IndexAt, Indexes, Recorded, NoRow, Content, Absent, Broken, Built
<1>3. TableFirst'
  BY <1>a, <1>b, <1>c, <1>t, <1>s, <1>q, <1>p DEF IInv, TypeOK, TableFirst,
     Working, Recorded, NoRow, Content, Absent, Broken, Built
<1>4. Indexes'
  <2>1. ASSUME NEW s \in Runner, s # r PROVE IndexAt(s)'
    BY <2>1, <1>a, <1>b, <1>c, <1>t, <1>s, <1>q, <1>p DEF IInv, TypeOK,
       Indexes, IndexAt, Run, Content, Absent, Broken, Built, Alone
  <2>2. IndexAt(r)'
    BY <1>a, <1>b, <1>c, <1>t, <1>s, <1>q, <1>p DEF IInv, TypeOK, Indexes,
       IndexAt, Run, Content, Absent, Broken, Built
  <2>3. ASSUME NEW s \in Runner PROVE Alone(s)'
    BY <1>a, <1>b, <1>c, <1>t, <1>s, <1>q, <1>p DEF IInv, Indexes, IndexAt,
       Content, Absent, Broken, Built, Alone
  <2> QED
    BY <2>1, <2>2, <2>3 DEF Indexes
<1>5. Behind'
  BY <1>a, <1>b, <1>c, <1>t, <1>s, <1>q, <1>p DEF IInv, TypeOK, Behind,
     Working, Recorded, NoRow, Content, Absent, Broken, Built
<1>6. Apart'
  <2>1. rows' = rows /\ lock' = lock /\ run[r].at \in {"table"} \cup Working
    BY DEF Built, At, Working
  <2>2. run[r].at \notin {"off", "lock"}
    BY <2>1 DEF Working
  <2>3. spent.loss = 0 => lock = r /\ ~HasBlockingErrors(run[r].disk)
    BY <2>1, <2>2 DEF IInv, Apart
  <2>4. spent.loss = 0 => ~HasBlockingErrors(run[r].disk)'
    BY <1>p, <2>1, <2>3 DEF HasBlockingErrors, Recorded
  <2> QED
    BY <1>a, <1>s, <2>1, <2>2, <2>3, <2>4, StaysApart
<1> QED
  BY <1>1, <1>2, <1>3, <1>4, <1>5, <1>6 DEF IInv

(* Only an index that is as the file has it goes on.                       *)
LEMMA CheckInductive ==
    ASSUME NEW r \in Runner, IInv, Check(r)
    PROVE  IInv'
<1> USE MigrationsAssumption
<1>a. \A s \in Runner : s # r => File(s)' = File(s) /\ run'[s] = run[s]
  BY DEF IInv, TypeOK, File, Records, Finished, Goes, Check
<1>b. run[r].todo # {} /\ File(r) \in run[r].todo /\ File(r) \in Version
      /\ \A w \in run[r].todo : File(r) <= w
  BY FirstFile DEF IInv, TypeOK, At, Check
<1>c. run[r].disk[File(r)] \in Content /\ File(r) \in Nat
  <2>0. run[r] \in Run
    BY DEF IInv, TypeOK
  <2>1. run[r].disk[File(r)] \in Content \cup {Absent} /\ File(r) \in Nat
    BY <1>b, <2>0 DEF Run
  <2>2. run[r].at \in Working
    BY DEF Working, At, Check
  <2>3. run[r].disk[File(r)] # Absent
    BY <1>b, <2>2 DEF IInv, Behind
  <2> QED
    BY <2>1, <2>3
<1>t. run' \in [Runner -> Run]
  <2>1. PICK at \in {"record", "unlock"} : run' = [run EXCEPT ![r].at = at]
    BY DEF Check, Goes
  <2> QED
    BY <2>1, RunTypes DEF IInv
<1>s. spent' \in Spending /\ spent'.loss = spent.loss
  BY DEF IInv, TypeOK, Check
<1>p. /\ run'[r].at = IF db[File(r)] = run[r].disk[File(r)] THEN "record" ELSE "unlock"
      /\ run'[r].disk = run[r].disk /\ run'[r].todo = run[r].todo
  BY DEF IInv, TypeOK, Run, Goes, Check
<1>q. File(r)' = File(r)
  BY <1>p DEF File
<1>1. TypeOK'
  BY <1>a, <1>b, <1>c, <1>t, <1>s, <1>p, <1>q DEF IInv, TypeOK, TableFirst,
     Working, Recorded, NoRow, Content, Absent, Broken, Check
<1>2. HistoryIsTrue'
  BY <1>a, <1>b, <1>c, <1>t, <1>s, <1>p, <1>q DEF IInv, TypeOK, HistoryIsTrue,
     Recorded, NoRow, Content, Absent, Broken, Check
<1>3. TableFirst'
  BY <1>a, <1>b, <1>c, <1>t, <1>s, <1>p, <1>q DEF IInv, TypeOK, TableFirst,
     Working, Recorded, NoRow, Content, Absent, Broken, Check
<1>4. Indexes'
  <2>1. ASSUME NEW s \in Runner, s # r PROVE IndexAt(s)'
    BY <2>1, <1>a, <1>b, <1>c, <1>t, <1>s, <1>p, <1>q DEF IInv, TypeOK,
       Indexes, IndexAt, Run, Content, Absent, Broken, Check, Alone
  <2>2. IndexAt(r)'
    BY <1>a, <1>b, <1>c, <1>t, <1>s, <1>p, <1>q DEF IInv, TypeOK, Indexes,
       IndexAt, Run, Content, Absent, Broken, Check
  <2>3. ASSUME NEW s \in Runner PROVE Alone(s)'
    BY <1>a, <1>b, <1>c, <1>t, <1>s, <1>p, <1>q DEF IInv, Indexes, IndexAt,
       Content, Absent, Broken, Check, Alone
  <2> QED
    BY <2>1, <2>2, <2>3 DEF Indexes
<1>5. Behind'
  BY <1>a, <1>b, <1>c, <1>t, <1>s, <1>p, <1>q DEF IInv, TypeOK, Behind,
     Working, Recorded, NoRow, Content, Absent, Broken, Check
<1>6. Apart'
  <2>1. rows' = rows /\ lock' = lock /\ run[r].at \in {"table"} \cup Working
    BY DEF Check, At, Working
  <2>2. run[r].at \notin {"off", "lock"}
    BY <2>1 DEF Working
  <2>3. spent.loss = 0 => lock = r /\ ~HasBlockingErrors(run[r].disk)
    BY <2>1, <2>2 DEF IInv, Apart
  <2>4. spent.loss = 0 => ~HasBlockingErrors(run[r].disk)'
    BY <1>p, <2>1, <2>3 DEF HasBlockingErrors, Recorded
  <2> QED
    BY <1>a, <1>s, <2>1, <2>2, <2>3, <2>4, StaysApart
<1> QED
  BY <1>1, <1>2, <1>3, <1>4, <1>5, <1>6 DEF IInv

(* The row of an index.                                                    *)
LEMMA RecordInductive ==
    ASSUME NEW r \in Runner, IInv, Record(r)
    PROVE  IInv'
<1> USE MigrationsAssumption
<1>a. \A s \in Runner : s # r => File(s)' = File(s) /\ run'[s] = run[s]
  BY DEF IInv, TypeOK, File, Records, Finished, Goes, Record
<1>b. run[r].todo # {} /\ File(r) \in run[r].todo /\ File(r) \in Version
      /\ \A w \in run[r].todo : File(r) <= w
  BY FirstFile DEF IInv, TypeOK, At, Record
<1>c. run[r].disk[File(r)] \in Content /\ File(r) \in Nat
  <2>0. run[r] \in Run
    BY DEF IInv, TypeOK
  <2>1. run[r].disk[File(r)] \in Content \cup {Absent} /\ File(r) \in Nat
    BY <1>b, <2>0 DEF Run
  <2>2. run[r].at \in Working
    BY DEF Working, At, Record
  <2>3. run[r].disk[File(r)] # Absent
    BY <1>b, <2>2 DEF IInv, Behind
  <2> QED
    BY <2>1, <2>3
<1>d. /\ rows' \in [Version -> {NoRow} \cup [of : Content, by : {"run", "bootstrap"}]]
      /\ rows'[File(r)] # NoRow
      /\ rows'[File(r)] = [of |-> run[r].disk[File(r)], by |-> "run"]
      /\ \A v \in Version : v # File(r) => rows'[v] = rows[v]
      /\ \A v \in Version : Recorded(v) => Recorded(v)'
  <2>1. Records(r, "run") /\ run[r].disk[File(r)] # Absent
    BY <1>c DEF Content, Absent, Record
  <2> QED
    BY <1>b, <2>1, RecordsRow DEF IInv
<1>n. ~Recorded(File(r))
  BY DEF Records, Record
<1>e. run' = [run EXCEPT ![r].at = "next", ![r].todo = @ \ {File(r)}]
  BY DEF Records, Finished, Record
<1>t. run' \in [Runner -> Run]
  <2>1. run[r].todo \ {File(r)} \in SUBSET Version
    BY DEF IInv, TypeOK, Run
  <2> QED
    BY <1>e, <2>1, RunTypes DEF IInv
<1>s. spent' \in Spending /\ spent'.loss = spent.loss
  BY DEF IInv, TypeOK, Record
<1>p. /\ run'[r].at = "next" /\ run'[r].disk = run[r].disk
      /\ run'[r].todo = run[r].todo \ {File(r)} /\ run'[r].fresh = run[r].fresh
  BY <1>e DEF IInv, TypeOK, Run
<1>1. TypeOK'
  BY <1>a, <1>b, <1>c, <1>d, <1>n, <1>t, <1>s, <1>p DEF IInv, TypeOK,
     TableFirst, Working, Recorded, NoRow, Content, Absent, Broken, Record
<1>2. HistoryIsTrue'
  BY <1>a, <1>b, <1>c, <1>d, <1>n, <1>t, <1>s, <1>p DEF IInv, TypeOK,
     HistoryIsTrue, Indexes, IndexAt, Recorded, NoRow, Content, Absent, Broken,
     Record
<1>3. TableFirst'
  BY <1>a, <1>b, <1>c, <1>d, <1>n, <1>t, <1>s, <1>p DEF IInv, TypeOK,
     TableFirst, Working, Recorded, NoRow, Content, Absent, Broken, Record
<1>4. Indexes'
  <2>1. ASSUME NEW s \in Runner, s # r PROVE IndexAt(s)'
    BY <2>1, <1>a, <1>b, <1>c, <1>d, <1>n, <1>t, <1>s, <1>p DEF IInv, TypeOK,
       Indexes, IndexAt, Run, Content, Absent, Broken, Record, Alone
  <2>2. IndexAt(r)'
    BY <1>a, <1>b, <1>c, <1>d, <1>n, <1>t, <1>s, <1>p DEF IInv, TypeOK,
       Indexes, IndexAt, Run, Content, Absent, Broken, Record
  <2>3. ASSUME NEW s \in Runner PROVE Alone(s)'
    BY <1>a, <1>b, <1>c, <1>d, <1>n, <1>t, <1>s, <1>p DEF IInv, Indexes,
       IndexAt, Content, Absent, Broken, Record, Alone
  <2> QED
    BY <2>1, <2>2, <2>3 DEF Indexes
<1>5. Behind'
  <2>1. run[r].at \in Working
    BY DEF Working, At, Record
  <2>2. ASSUME NEW v \in Version, v \notin run'[r].todo, run[r].disk[v] # Absent
        PROVE  rows'[v] # NoRow
    <3>1. CASE v = File(r)
      BY <1>d, <3>1
    <3>2. CASE v # File(r)
      BY <1>p, <1>d, <2>1, <2>2, <3>2 DEF IInv, Behind, Recorded, NoRow
    <3> QED
      BY <3>1, <3>2
  <2>3. ASSUME NEW s \in Runner, s # r, run[s].at \in {"table"} \cup Working,
               NEW v \in Version, v \notin run[s].todo, run[s].disk[v] # Absent
        PROVE  rows'[v] # NoRow
    BY <1>d, <2>3 DEF IInv, Behind, Recorded, NoRow
  <2> QED
    BY <1>a, <1>p, <2>1, <2>2, <2>3 DEF IInv, Behind, Recorded, NoRow, Working
<1>6. Apart'
  <2>1. run[r].at \in Working /\ spent' = spent /\ lock' = lock
    BY DEF Record, At, Working
  <2> QED
    BY <1>a, <1>d, <1>p, <2>1, RecordsApart
<1> QED
  BY <1>1, <1>2, <1>3, <1>4, <1>5, <1>6 DEF IInv

(* The run ends.                                                           *)
LEMMA RefusedInductive ==
    ASSUME NEW r \in Runner, IInv, Refused(r)
    PROVE  IInv'
<1> USE MigrationsAssumption
<1>a. \A s \in Runner : s # r => File(s)' = File(s) /\ run'[s] = run[s]
  BY DEF IInv, TypeOK, File, Records, Finished, Goes, Refused
<1>t. run' \in [Runner -> Run]
  BY RunTypes DEF IInv, TypeOK, Goes, Refused
<1>s. spent' \in Spending /\ spent'.loss = spent.loss
  BY DEF IInv, TypeOK, Refused
<1>p. run'[r].at = "unlock" /\ run'[r].disk = run[r].disk
      /\ run'[r].todo = run[r].todo /\ run'[r].fresh = run[r].fresh
  BY DEF IInv, TypeOK, Run, Goes, Refused
<1>q. File(r)' = File(r)
  BY <1>p DEF File
<1>1. TypeOK'
  BY <1>a, <1>t, <1>s, <1>q, <1>p DEF IInv, TypeOK, Recorded, NoRow, Content,
     Absent, Broken, Refused
<1>2. HistoryIsTrue'
  BY <1>a, <1>t, <1>s, <1>q, <1>p DEF IInv, TypeOK, HistoryIsTrue, Recorded,
     NoRow, Content, Absent, Broken, Refused
<1>3. TableFirst'
  BY <1>a, <1>t, <1>s, <1>q, <1>p DEF IInv, TypeOK, TableFirst, Working,
     Recorded, NoRow, Content, Absent, Broken, Refused
<1>4. Indexes'
  <2>1. ASSUME NEW s \in Runner, s # r PROVE IndexAt(s)'
    BY <2>1, <1>a, <1>t, <1>s, <1>q, <1>p DEF IInv, TypeOK, Indexes, IndexAt,
       Run, Content, Absent, Broken, Refused, Alone
  <2>2. IndexAt(r)'
    BY <1>a, <1>t, <1>s, <1>q, <1>p DEF IInv, TypeOK, Indexes, IndexAt, Run,
       Content, Absent, Broken, Refused
  <2>3. ASSUME NEW s \in Runner PROVE Alone(s)'
    BY <1>a, <1>t, <1>s, <1>q, <1>p DEF IInv, Indexes, IndexAt, Content,
       Absent, Broken, Refused, Alone
  <2> QED
    BY <2>1, <2>2, <2>3 DEF Indexes
<1>5. Behind'
  BY <1>a, <1>t, <1>s, <1>q, <1>p DEF IInv, TypeOK, Behind, Working, Recorded,
     NoRow, Content, Absent, Broken, Refused
<1>6. Apart'
  <2>1. rows' = rows /\ lock' = lock /\ run[r].at \in {"table"} \cup Working
    BY DEF Refused, At, Working
  <2>2. run[r].at \notin {"off", "lock"}
    BY <2>1 DEF Working
  <2>3. spent.loss = 0 => lock = r /\ ~HasBlockingErrors(run[r].disk)
    BY <2>1, <2>2 DEF IInv, Apart
  <2>4. spent.loss = 0 => ~HasBlockingErrors(run[r].disk)'
    BY <1>p, <2>1, <2>3 DEF HasBlockingErrors, Recorded
  <2> QED
    BY <1>a, <1>s, <2>1, <2>2, <2>3, <2>4, StaysApart
<1> QED
  BY <1>1, <1>2, <1>3, <1>4, <1>5, <1>6 DEF IInv

(* The run ends.                                                           *)
LEMMA FailsInductive ==
    ASSUME NEW r \in Runner, IInv, Fails(r)
    PROVE  IInv'
<1> USE MigrationsAssumption
<1>a. \A s \in Runner : s # r => File(s)' = File(s) /\ run'[s] = run[s]
  BY DEF IInv, TypeOK, File, Records, Finished, Goes, Fails
<1>t. run' \in [Runner -> Run]
  BY RunTypes DEF IInv, TypeOK, Goes, Fails
<1>s. spent' \in Spending /\ spent'.loss = spent.loss
  BY SpendType DEF IInv, Fails
<1>p. run'[r].at = "unlock" /\ run'[r].disk = run[r].disk
      /\ run'[r].todo = run[r].todo /\ run'[r].fresh = run[r].fresh
  BY DEF IInv, TypeOK, Run, Goes, Fails
<1>q. File(r)' = File(r)
  BY <1>p DEF File
<1>1. TypeOK'
  BY <1>a, <1>t, <1>s, <1>q, <1>p DEF IInv, TypeOK, Recorded, NoRow, Content,
     Absent, Broken, Fails
<1>2. HistoryIsTrue'
  BY <1>a, <1>t, <1>s, <1>q, <1>p DEF IInv, TypeOK, HistoryIsTrue, Recorded,
     NoRow, Content, Absent, Broken, Fails
<1>3. TableFirst'
  BY <1>a, <1>t, <1>s, <1>q, <1>p DEF IInv, TypeOK, TableFirst, Working,
     Recorded, NoRow, Content, Absent, Broken, Fails
<1>4. Indexes'
  <2>1. ASSUME NEW s \in Runner, s # r PROVE IndexAt(s)'
    BY <2>1, <1>a, <1>t, <1>s, <1>q, <1>p DEF IInv, TypeOK, Indexes, IndexAt,
       Run, Content, Absent, Broken, Fails, Alone
  <2>2. IndexAt(r)'
    BY <1>a, <1>t, <1>s, <1>q, <1>p DEF IInv, TypeOK, Indexes, IndexAt, Run,
       Content, Absent, Broken, Fails
  <2>3. ASSUME NEW s \in Runner PROVE Alone(s)'
    BY <1>a, <1>t, <1>s, <1>q, <1>p DEF IInv, Indexes, IndexAt, Content,
       Absent, Broken, Fails, Alone
  <2> QED
    BY <2>1, <2>2, <2>3 DEF Indexes
<1>5. Behind'
  BY <1>a, <1>t, <1>s, <1>q, <1>p DEF IInv, TypeOK, Behind, Working, Recorded,
     NoRow, Content, Absent, Broken, Fails
<1>6. Apart'
  <2>1. rows' = rows /\ lock' = lock /\ run[r].at \in {"table"} \cup Working
    BY DEF Fails, At, Working
  <2>2. run[r].at \notin {"off", "lock"}
    BY <2>1 DEF Working
  <2>3. spent.loss = 0 => lock = r /\ ~HasBlockingErrors(run[r].disk)
    BY <2>1, <2>2 DEF IInv, Apart
  <2>4. spent.loss = 0 => ~HasBlockingErrors(run[r].disk)'
    BY <1>p, <2>1, <2>3 DEF HasBlockingErrors, Recorded
  <2> QED
    BY <1>a, <1>s, <2>1, <2>2, <2>3, <2>4, StaysApart
<1> QED
  BY <1>1, <1>2, <1>3, <1>4, <1>5, <1>6 DEF IInv

(* The lock is free again.                                                 *)
LEMMA UnlockInductive ==
    ASSUME NEW r \in Runner, IInv, Unlock(r)
    PROVE  IInv'
<1> USE MigrationsAssumption
<1>a. \A s \in Runner : s # r => File(s)' = File(s) /\ run'[s] = run[s]
  BY DEF IInv, TypeOK, File, Records, Finished, Goes, Unlock
<1>t. run' \in [Runner -> Run]
  BY RunTypes DEF IInv, TypeOK, Goes, Unlock
<1>s. spent' \in Spending /\ spent'.loss = spent.loss
  BY DEF IInv, TypeOK, Unlock
<1>p. run'[r].at = "off"
  BY DEF IInv, TypeOK, Run, Goes, File, Unlock, Off
<1>1. TypeOK'
  BY <1>a, <1>t, <1>s, <1>p DEF IInv, TypeOK, Recorded, NoRow, Content, Absent,
     Broken, Unlock
<1>2. HistoryIsTrue'
  BY <1>a, <1>t, <1>s, <1>p DEF IInv, TypeOK, HistoryIsTrue, Recorded, NoRow,
     Content, Absent, Broken, Unlock
<1>3. TableFirst'
  BY <1>a, <1>t, <1>s, <1>p DEF IInv, TypeOK, TableFirst, Working, Recorded,
     NoRow, Content, Absent, Broken, Unlock
<1>4. Indexes'
  <2>1. ASSUME NEW s \in Runner, s # r PROVE IndexAt(s)'
    BY <2>1, <1>a, <1>t, <1>s, <1>p DEF IInv, TypeOK, Indexes, IndexAt, Run,
       Content, Absent, Broken, Unlock, Alone
  <2>2. IndexAt(r)'
    BY <1>a, <1>t, <1>s, <1>p DEF IInv, TypeOK, Indexes, IndexAt, Run, Content,
       Absent, Broken, Unlock
  <2>3. ASSUME NEW s \in Runner PROVE Alone(s)'
    BY <1>a, <1>t, <1>s, <1>p DEF IInv, Indexes, IndexAt, Content, Absent,
       Broken, Unlock, Alone
  <2> QED
    BY <2>1, <2>2, <2>3 DEF Indexes
<1>5. Behind'
  BY <1>a, <1>t, <1>s, <1>p DEF IInv, TypeOK, Behind, Working, Recorded, NoRow,
     Content, Absent, Broken, Unlock
<1>6. Apart'
  <2>1. rows' = rows /\ (lock = r \/ lock' = lock)
    BY DEF Unlock
  <2> QED
    BY <1>a, <1>p, <1>s, <2>1, StaysApart DEF Working
<1> QED
  BY <1>1, <1>2, <1>3, <1>4, <1>5, <1>6 DEF IInv

(* So it is.                                                               *)
LEMMA CrashInductive ==
    ASSUME NEW r \in Runner, IInv, Crash(r)
    PROVE  IInv'
<1> USE MigrationsAssumption
<1>a. \A s \in Runner : s # r => File(s)' = File(s) /\ run'[s] = run[s]
  BY DEF IInv, TypeOK, File, Records, Finished, Goes, Crash
<1>t. run' \in [Runner -> Run]
  BY RunTypes DEF IInv, TypeOK, Goes, Crash
<1>s. spent' \in Spending /\ spent'.loss = spent.loss
  BY SpendType DEF IInv, Crash
<1>p. run'[r].at = "off"
  BY DEF IInv, TypeOK, Run, Goes, File, Crash, Off
<1>1. TypeOK'
  BY <1>a, <1>t, <1>s, <1>p DEF IInv, TypeOK, Recorded, NoRow, Content, Absent,
     Broken, Crash
<1>2. HistoryIsTrue'
  BY <1>a, <1>t, <1>s, <1>p DEF IInv, TypeOK, HistoryIsTrue, Recorded, NoRow,
     Content, Absent, Broken, Crash
<1>3. TableFirst'
  BY <1>a, <1>t, <1>s, <1>p DEF IInv, TypeOK, TableFirst, Working, Recorded,
     NoRow, Content, Absent, Broken, Crash
<1>4. Indexes'
  <2>1. ASSUME NEW s \in Runner, s # r PROVE IndexAt(s)'
    BY <2>1, <1>a, <1>t, <1>s, <1>p DEF IInv, TypeOK, Indexes, IndexAt, Run,
       Content, Absent, Broken, Crash, Alone
  <2>2. IndexAt(r)'
    BY <1>a, <1>t, <1>s, <1>p DEF IInv, TypeOK, Indexes, IndexAt, Run, Content,
       Absent, Broken, Crash
  <2>3. ASSUME NEW s \in Runner PROVE Alone(s)'
    BY <1>a, <1>t, <1>s, <1>p DEF IInv, Indexes, IndexAt, Content, Absent,
       Broken, Crash, Alone
  <2> QED
    BY <2>1, <2>2, <2>3 DEF Indexes
<1>5. Behind'
  BY <1>a, <1>t, <1>s, <1>p DEF IInv, TypeOK, Behind, Working, Recorded, NoRow,
     Content, Absent, Broken, Crash
<1>6. Apart'
  <2>1. rows' = rows /\ (lock = r \/ lock' = lock)
    BY DEF Crash
  <2> QED
    BY <1>a, <1>p, <1>s, <2>1, StaysApart DEF Working
<1> QED
  BY <1>1, <1>2, <1>3, <1>4, <1>5, <1>6 DEF IInv

(* The lock is lost without the run knowing it.                            *)
LEMMA ReconnectInductive ==
    ASSUME NEW r \in Runner, IInv, Reconnect(r)
    PROVE  IInv'
<1> USE MigrationsAssumption
<1>a. run' = run /\ \A s \in Runner : File(s)' = File(s)
  BY DEF File, Reconnect
<1>t. run' \in [Runner -> Run]
  BY DEF IInv, TypeOK, Goes, Reconnect
<1>s. spent' \in Spending
  BY SpendType DEF IInv, Reconnect
<1>1. TypeOK'
  BY <1>a, <1>t, <1>s DEF IInv, TypeOK, Recorded, NoRow, Content, Absent,
     Broken, Reconnect
<1>2. HistoryIsTrue'
  BY <1>a, <1>t, <1>s DEF IInv, TypeOK, HistoryIsTrue, Recorded, NoRow,
     Content, Absent, Broken, Reconnect
<1>3. TableFirst'
  BY <1>a, <1>t, <1>s DEF IInv, TypeOK, TableFirst, Working, Recorded, NoRow,
     Content, Absent, Broken, Reconnect
<1>4. Indexes'
  BY <1>a, <1>t, <1>s, SMTT(40) DEF IInv, TypeOK, Indexes, Run, IndexAt, Alone,
     Content, Absent, Broken, Reconnect
<1>5. Behind'
  BY <1>a, <1>t, <1>s DEF IInv, TypeOK, Behind, Working, Recorded, NoRow,
     Content, Absent, Broken, Reconnect
<1>6. Apart'
  <2>1. spent'.loss = spent.loss + 1 /\ spent.loss \in Nat
    BY DEF Reconnect, Spend, IInv, TypeOK, Spending
  <2> QED
    BY <2>1 DEF Apart
<1> QED
  BY <1>1, <1>2, <1>3, <1>4, <1>5, <1>6 DEF IInv

(* Every step keeps the invariant.                                         *)
LEMMA StepInductive == IInv /\ [Next]_vars => IInv'
<1> SUFFICES ASSUME IInv, [Next]_vars PROVE IInv'
  OBVIOUS
<1>1. ASSUME NEW v \in Version, Commit(v) \/ DropIndex(v) PROVE IInv'
  BY <1>1, CommitInductive, DropIndexInductive
<1>2. ASSUME NEW r \in Runner, Step(r) PROVE IInv'
  BY <1>2, HistoryTableExistsInductive, ComputeStateInductive,
     CreateTableInductive, DoneInductive, BootstrapInductive,
     TransactInductive, BuildInductive, BuiltInductive, CheckInductive,
     RecordInductive, RefusedInductive, RefusedInductive, UnlockInductive DEF
     Step
<1>3. ASSUME NEW r \in Runner,
             Start(r) \/ Acquire(r) \/ Fails(r) \/ Crash(r) \/ Reconnect(r)
      PROVE  IInv'
  BY <1>3, StartInductive, AcquireInductive, FailsInductive, CrashInductive,
     ReconnectInductive
<1>4. CASE UNCHANGED vars
  BY <1>4 DEF IInv, TypeOK, HistoryIsTrue, TableFirst, Indexes, IndexAt, Alone, Behind, Apart,
     File, Recorded, HasBlockingErrors, vars
<1> QED
  BY <1>1, <1>2, <1>3, <1>4 DEF Next

LEMMA InitInductive == Init => IInv
<1> SUFFICES ASSUME Init PROVE IInv
  OBVIOUS
<1>1. Off \in Run
  BY DEF Off, Run
<1>2. TypeOK
  BY <1>1 DEF Init, TypeOK, Spending, NoRow, Recorded, Content, Absent, Off
<1>3. HistoryIsTrue
  BY DEF Init, HistoryIsTrue, NoRow
<1>4. \A r \in Runner : run[r].at = "off"
  BY DEF Init, Off
<1>5. TableFirst /\ Indexes /\ Behind /\ Apart
  BY <1>4 DEF TableFirst, Indexes, IndexAt, Alone, Behind, Apart, Working
<1> QED
  BY <1>2, <1>3, <1>5 DEF IInv

LEMMA Invariance == Spec => []IInv
BY InitInductive, StepInductive, PTL DEF Spec

(* The state keeps its types: a row of the history needs its table.        *)
THEOREM MigrationsTyped == Spec => []TypeOK
<1>1. IInv => TypeOK
  BY DEF IInv
<1> QED
  BY <1>1, Invariance, PTL

(* Whatever dies, fails or is edited, and even with two runs at the same   *)
(* time: what the history says a run executed is what the database has.    *)
THEOREM HistoryHolds == Spec => []HistoryIsTrue
<1>1. IInv => HistoryIsTrue
  BY DEF IInv
<1> QED
  BY <1>1, Invariance, PTL

(* Files are recorded in the order of their names within a checkout, also  *)
(* with two runs at the same time.                                         *)
THEOREM OrderHolds == Spec => InOrder
<1> DEFINE A == \A r \in Runner, v \in Version :
                  rows'[v] # rows[v] /\ run'[r] # run[r] =>
                    \A w \in Version : w < v /\ run[r].disk[w] # Absent => Recorded(w)
<1>1. IInv /\ [Next]_vars => A
  <2> SUFFICES ASSUME IInv, [Next]_vars, NEW r \in Runner, NEW v \in Version,
                      rows'[v] # rows[v], run'[r] # run[r],
                      NEW w \in Version, w < v, run[r].disk[w] # Absent
               PROVE  Recorded(w)
    OBVIOUS
  <2>1. PICK s \in Runner : Bootstrap(s) \/ Transact(s) \/ Record(s)
    BY DEF Next, Step, vars, Commit, DropIndex, Start, Acquire, HistoryTableExists,
       ComputeState, CreateTable, Done, Build, Built, Check, Refused, Fails, Unlock,
       Crash, Reconnect
  <2>2. /\ run[s].at \in Working /\ run[s].todo # {}
        /\ Records(s, "run") \/ Records(s, "bootstrap")
    BY <2>1 DEF Bootstrap, Transact, Record, At, Working, IInv, TypeOK
  <2>3. r = s
    BY <2>2 DEF Records, Finished, IInv, TypeOK
  <2>4. v = File(r)
    BY <2>2, <2>3 DEF Records, IInv, TypeOK
  <2>5. w \notin run[r].todo
    <3>1. \A u \in run[r].todo : File(r) <= u
      BY <2>2, <2>3, FirstFile DEF IInv
    <3>2. w \in Nat /\ v \in Nat
      BY MigrationsAssumption
    <3> QED
      BY <2>4, <3>1, <3>2
  <2> QED
    BY <2>2, <2>3, <2>5 DEF IInv, Behind
<1>2. IInv /\ [Next]_vars => [A]_vars
  BY <1>1
<1> QED
  BY <1>2, Invariance, PTL DEF Spec, InOrder

(* Until a connection is lost, one run is at work at a time.               *)
THEOREM WorkIsExclusive == Spec => []OneAtWork
<1>1. IInv => OneAtWork
  BY DEF IInv, Apart, OneAtWork
<1> QED
  BY <1>1, Invariance, PTL

(* Until a connection is lost, a run that changes the database has every    *)
(* recorded file as it was recorded: what it checked in computeState still  *)
(* holds, because nobody else has recorded anything since.                  *)
THEOREM CheckoutHolds == Spec => CheckoutAgrees
<1> DEFINE A == spent.loss = 0 =>
                  \A r \in Runner :
                    run'[r] # run[r] /\ (rows' # rows \/ db' # db) =>
                      ~HasBlockingErrors(run[r].disk)
<1>1. IInv /\ [Next]_vars => A
  <2> SUFFICES ASSUME IInv, [Next]_vars, spent.loss = 0, NEW r \in Runner,
                      run'[r] # run[r], rows' # rows \/ db' # db
               PROVE  ~HasBlockingErrors(run[r].disk)
    OBVIOUS
  <2>1. PICK s \in Runner : Bootstrap(s) \/ Transact(s) \/ Build(s) \/ Built(s)
                            \/ Record(s)
    BY DEF Next, Step, vars, Commit, DropIndex, Start, Acquire, HistoryTableExists,
       ComputeState, CreateTable, Done, Check, Refused, Fails, Unlock, Crash,
       Reconnect
  <2>2. run[s].at \in Working
    BY <2>1 DEF Bootstrap, Transact, Build, Built, Record, At, Working
  <2>3. \A q \in Runner : q # s => run'[q] = run[q]
    BY <2>1 DEF Bootstrap, Transact, Build, Built, Record, Records, Finished, Goes,
       IInv, TypeOK
  <2> QED
    BY <2>2, <2>3 DEF IInv, Apart
<1>2. IInv /\ [Next]_vars => [A]_vars
  BY <1>1
<1> QED
  BY <1>2, Invariance, PTL DEF Spec, CheckoutAgrees

(*****************************************************************************)
(* The guard against a forgotten --bootstrap.  It looks whether the history  *)
(* table is there, so it holds until a run that adopts the database stops    *)
(* between two rows; and it counts on what the repository really has.        *)
(*****************************************************************************)
Unharmed == spent.fail = 0 /\ spent.crash = 0 /\ spent.loss = 0

Adopts(r) == "bootstrap" \in run[r].flags

(* No old file is removed, and nobody confirms a fresh apply.              *)
OldStays ==
    /\ \A v \in Old : tree[v] # Absent
    /\ \A r \in Runner : run[r].at # "off" =>
         /\ "confirm" \notin run[r].flags
         /\ \A v \in Old : run[r].disk[v] # Absent

(* Once the table is there every old file is in it, or its turn comes in   *)
(* the run that adopts the database.                                       *)
OldCovered ==
    table => \A v \in Old :
      \/ Recorded(v)
      \/ \E r \in Runner : /\ run[r].at = "next" /\ Adopts(r)
                           /\ v \in run[r].todo

(* What a run found of the table still holds, what it is going to do is    *)
(* not on record; it adopts the database, or has no old file before it.    *)
OldSpared ==
    \A r \in Runner :
      /\ run[r].at \in {"state", "table"} /\ run[r].fresh => ~table
      /\ run[r].at \in {"table"} \cup Working =>
           /\ \A v \in run[r].todo : ~Recorded(v)
           /\ Adopts(r) => run[r].at \in {"table", "next"}
           /\ ~Adopts(r) => run[r].todo \cap Old = {}

AInv == Unharmed => OldStays /\ OldCovered /\ OldSpared /\ ran \cap Old = {}

(* A step that harms nothing changes one run; it has the lock when it is   *)
(* at work, and nobody else is at work then.                               *)
LEMMA OnlyOneAtWork ==
    ASSUME IInv, Unharmed, NEW r \in Runner, NEW s \in Runner,
           run[r].at \notin {"off", "lock"}, run[s].at \notin {"off", "lock"}
    PROVE  r = s
BY DEF IInv, Apart, Unharmed

(* A run is told to go on without the history of an old file only when it  *)
(* adopts it: all old files together are too many for a fresh apply.       *)
LEMMA FreshIsBlocked ==
    ASSUME IInv, AInv, Unharmed, NEW r \in Runner, run[r].at = "state",
           IsFiniteSet(Version), Threshold <= Cardinality(Old),
           ~Adopts(r), ~ShouldBlockFreshApply(r, Pending(run[r].disk))
    PROVE  Pending(run[r].disk) \cap Old = {}
<1>1. CASE run[r].fresh
  <2>1. \A v \in Version : ~Recorded(v)
    BY <1>1 DEF AInv, OldSpared, IInv, TypeOK
  <2>2. Old \subseteq Pending(run[r].disk)
    BY <2>1, MigrationsAssumption DEF Pending, AInv, OldStays
  <2>3. IsFiniteSet(Pending(run[r].disk))
    BY FS_Subset DEF Pending
  <2>4. /\ Cardinality(Pending(run[r].disk)) \in Nat
        /\ Cardinality(Old) \in Nat
        /\ Cardinality(Old) <= Cardinality(Pending(run[r].disk))
    BY <2>2, <2>3, FS_Subset, FS_CardinalityType
  <2>5. Cardinality(Pending(run[r].disk)) >= Threshold
    BY <2>4, MigrationsAssumption
  <2>6. "confirm" \notin run[r].flags
    BY DEF AInv, OldStays
  <2> QED
    BY <1>1, <2>5, <2>6 DEF ShouldBlockFreshApply, Does, Adopts
<1>2. CASE ~run[r].fresh
  <2>1. table
    BY <1>2 DEF IInv, TableFirst
  <2>2. \A s \in Runner : run[s].at # "next"
    BY OnlyOneAtWork
  <2>3. \A v \in Old : Recorded(v)
    BY <2>1, <2>2 DEF AInv, OldCovered
  <2> QED
    BY <2>3 DEF Pending
<1> QED
  BY <1>1, <1>2

LEMMA AdoptionInductive ==
    ASSUME IInv, AInv, [Next]_vars, IsFiniteSet(Version),
           Threshold <= Cardinality(Old), Absent \notin Written,
           \A r \in Runner : \A f \in Flags[r] : "confirm" \notin f
    PROVE  AInv'
<1> USE MigrationsAssumption
<1> SUFFICES ASSUME Unharmed'
             PROVE  (OldStays /\ OldCovered /\ OldSpared /\ ran \cap Old = {})'
  BY DEF AInv
<1>1. CASE \E v \in Version : Commit(v)
  <2>1. PICK v \in Version, c \in Written :
          /\ tree' = [tree EXCEPT ![v] = c]
          /\ run' = run /\ rows' = rows /\ table' = table /\ ran' = ran
    BY <1>1 DEF Commit
  <2>2. Unharmed
    BY <1>1, SpendType DEF Commit, Unharmed, Spend, IInv, TypeOK, Spending
  <2>3. \A w \in Old : tree'[w] # Absent
    BY <2>1, <2>2 DEF AInv, OldStays, IInv, TypeOK
  <2> QED
    BY <2>1, <2>2, <2>3 DEF AInv, OldStays, OldCovered, OldSpared, Recorded, Adopts
<1>2. CASE UNCHANGED vars \/ \E v \in Version : DropIndex(v)
  BY <1>2 DEF DropIndex, vars, AInv, OldStays, OldCovered, OldSpared, Recorded,
     Adopts, Unharmed
<1>3. ASSUME NEW r \in Runner, Start(r)
      PROVE  (OldStays /\ OldCovered /\ OldSpared /\ ran \cap Old = {})'
  <2>1. PICK f \in Flags[r] :
          run' = [run EXCEPT ![r] = [Off EXCEPT !.at = "lock", !.flags = f,
                                                !.disk = tree]]
    BY <1>3 DEF Start
  <2>2. /\ run'[r].at = "lock" /\ run'[r].flags = f /\ run'[r].disk = tree
        /\ run[r].at = "off"
        /\ \A s \in Runner : s # r => run'[s] = run[s]
    BY <1>3, <2>1 DEF Start, Off, IInv, TypeOK
  <2>3. Unharmed /\ UNCHANGED <<tree, table, rows, ran>>
    BY <1>3 DEF Start, Unharmed
  <2>4. OldStays'
    BY <2>2, <2>3 DEF AInv, OldStays
  <2>5. OldCovered'
    BY <2>2, <2>3 DEF AInv, OldCovered, Recorded, Adopts
  <2> QED
    BY <2>2, <2>3, <2>4, <2>5 DEF AInv, OldSpared, Recorded, Adopts, Working
<1>4. ASSUME NEW r \in Runner, Fails(r) \/ Crash(r) \/ Reconnect(r)
      PROVE  FALSE
  BY <1>4 DEF Fails, Crash, Reconnect, Spend, Unharmed, IInv, TypeOK, Spending
<1>5. ASSUME NEW r \in Runner, Acquire(r) \/ Step(r)
      PROVE  (OldStays /\ OldCovered /\ OldSpared /\ ran \cap Old = {})'
  <2> USE DEF Working
  <2>1. /\ Unharmed /\ tree' = tree
        /\ \A s \in Runner : s # r => run'[s] = run[s]
    BY <1>5 DEF Acquire, Step, HistoryTableExists, ComputeState, CreateTable, Done,
       Bootstrap, Transact, Build, Built, Check, Record, Refused, Unlock, Records,
       Finished, Goes, Unharmed, IInv, TypeOK
  <2>2. OldStays'
    <3>1. /\ run[r].at # "off"
          /\ \/ run'[r].at = "off"
             \/ run'[r].disk = run[r].disk /\ run'[r].flags = run[r].flags
      BY <1>5 DEF Acquire, Step, HistoryTableExists, ComputeState, CreateTable,
         Done, Bootstrap, Transact, Build, Built, Check, Record, Refused, Unlock,
         At, Records, Finished, Goes, Off, IInv, TypeOK, Run
    <3> QED
      BY <2>1, <3>1 DEF AInv, OldStays
  <2>3. ASSUME NEW s \in Runner, s # r, run[r].at \notin {"off", "lock"}
        PROVE  run[s].at \in {"off", "lock"}
    BY <2>1, <2>3, OnlyOneAtWork
  <2>4. CASE Acquire(r) \/ HistoryTableExists(r)
    <3>1. /\ run'[r].at \in {"exists", "state"}
          /\ run'[r].at = "state" => run'[r].fresh = ~table
          /\ run[r].at # "next"
          /\ UNCHANGED <<table, rows, ran>>
      BY <2>4 DEF Acquire, HistoryTableExists, Goes, IInv, TypeOK, Run
    <3>2. OldCovered'
      BY <2>1, <3>1 DEF AInv, OldCovered, Recorded, Adopts
    <3>3. OldSpared'
      BY <2>1, <3>1 DEF AInv, OldSpared, Recorded, Adopts
    <3> QED
      BY <2>1, <2>2, <3>1, <3>2, <3>3 DEF AInv
  <2>5. CASE ComputeState(r)
    <3> DEFINE T == Pending(run[r].disk)
    <3>1. /\ UNCHANGED <<table, rows, ran>> /\ run[r].at = "state"
          /\ run'[r].fresh = run[r].fresh /\ run'[r].flags = run[r].flags
          /\ \/ run'[r].at = "unlock"
             \/ /\ run'[r].todo = T
                /\ run'[r].at = IF run[r].fresh THEN "table" ELSE "next"
                /\ ~ShouldBlockFreshApply(r, T)
      BY <2>5 DEF ComputeState, Goes, IInv, TypeOK, Run
    <3>2. ~Adopts(r) /\ run'[r].at # "unlock" => T \cap Old = {}
      BY <2>1, <3>1, FreshIsBlocked
    <3>3. \A v \in T : ~Recorded(v)
      BY DEF Pending
    <3>4. OldCovered'
      BY <2>1, <3>1 DEF AInv, OldCovered, Recorded, Adopts
    <3>5. OldSpared'
      BY <2>1, <2>3, <3>1, <3>2, <3>3 DEF AInv, OldSpared, Recorded, Adopts
    <3> QED
      BY <2>1, <2>2, <3>1, <3>4, <3>5 DEF AInv
  <2>6. CASE CreateTable(r)
    <3>1. /\ UNCHANGED <<rows, ran>> /\ run[r].at = "table"
          /\ run'[r].at = "next" /\ run'[r].todo = run[r].todo
          /\ run'[r].flags = run[r].flags
      BY <2>6 DEF CreateTable, Goes, IInv, TypeOK, Run
    <3>2. \A v \in Old : Recorded(v) \/ v \in run[r].todo
      BY <2>1, <3>1 DEF IInv, Behind, AInv, OldStays
    <3>3. OldCovered'
      BY <2>1, <3>1, <3>2 DEF AInv, OldCovered, OldSpared, Recorded, Adopts
    <3>4. OldSpared'
      BY <2>1, <2>3, <3>1 DEF AInv, OldSpared, Recorded, Adopts
    <3> QED
      BY <2>1, <2>2, <3>1, <3>3, <3>4 DEF AInv
  <2>7. CASE Bootstrap(r)
    <3>1. /\ UNCHANGED <<table, ran>> /\ run[r].at = "next" /\ Adopts(r)
          /\ run'[r].at = "next" /\ run'[r].todo = run[r].todo \ {File(r)}
          /\ run'[r].flags = run[r].flags
      BY <2>7 DEF Bootstrap, At, Records, Finished, Does, Adopts, IInv, TypeOK, Run
    <3>2. /\ File(r) \in run[r].todo /\ rows'[File(r)] # NoRow
          /\ \A v \in Version : v # File(r) => rows'[v] = rows[v]
          /\ \A v \in Version : Recorded(v) => Recorded(v)'
      BY <2>7, FirstFile, RecordsRow DEF Bootstrap, At, IInv, Behind, Working
    <3>3. OldCovered'
      BY <2>1, <3>1, <3>2 DEF AInv, OldCovered, Recorded, Adopts
    <3>4. run[r].todo \subseteq Version
      BY DEF IInv, TypeOK, Run
    <3>5. OldSpared'
      BY <2>1, <2>3, <3>1, <3>2, <3>4 DEF AInv, OldSpared, Recorded, Adopts
    <3> QED
      BY <2>1, <2>2, <3>1, <3>3, <3>5 DEF AInv
  <2>8. CASE Transact(r) \/ Record(r)
    <3>1. /\ UNCHANGED table /\ run[r].at \in {"next", "record"} /\ ~Adopts(r)
          /\ run'[r].at = "next" /\ run'[r].todo = run[r].todo \ {File(r)}
          /\ run'[r].flags = run[r].flags /\ run[r].todo # {}
          /\ ran' \subseteq ran \cup {File(r)} /\ Records(r, "run")
      BY <2>1, <2>8 DEF Transact, Record, At, Records, Finished, Does, Adopts, IInv,
         TypeOK, Run, AInv, OldSpared
    <3>2. /\ File(r) \in run[r].todo /\ rows'[File(r)] # NoRow
          /\ \A v \in Version : v # File(r) => rows'[v] = rows[v]
          /\ \A v \in Version : Recorded(v) => Recorded(v)'
      BY <3>1, FirstFile, RecordsRow DEF IInv, Behind
    <3>3. File(r) \notin Old
      BY <2>1, <3>1, <3>2 DEF AInv, OldSpared
    <3>4. OldCovered'
      BY <2>1, <3>1, <3>2 DEF AInv, OldCovered, Recorded, Adopts
    <3>5. run[r].todo \subseteq Version
      BY DEF IInv, TypeOK, Run
    <3>6. OldSpared'
      BY ZenonT(60), <2>1, <2>3, <3>1, <3>2, <3>5 DEF AInv, OldSpared, Recorded, Adopts
    <3> QED
      BY <2>1, <2>2, <3>1, <3>3, <3>4, <3>6 DEF AInv
  <2>9. CASE Build(r) \/ Built(r) \/ Check(r)
    <3>1. /\ UNCHANGED <<table, rows>> /\ run[r].at \in Working /\ ~Adopts(r)
          /\ run'[r].at \in {"build", "check", "record", "unlock"}
          /\ run'[r].todo = run[r].todo /\ run'[r].flags = run[r].flags
          /\ run[r].todo # {} /\ ran' \subseteq ran \cup {File(r)}
      BY <2>1, <2>9 DEF Build, Built, Check, At, Goes, Does, Adopts, IInv, TypeOK,
         Run, AInv, OldSpared
    <3>2. File(r) \notin Old
      BY <2>1, <3>1, FirstFile DEF AInv, OldSpared, IInv
    <3>3. OldCovered'
      BY <2>1, <3>1 DEF AInv, OldCovered, Recorded, Adopts
    <3>4. OldSpared'
      BY <2>1, <2>3, <3>1 DEF AInv, OldSpared, Recorded, Adopts
    <3> QED
      BY <2>1, <2>2, <3>1, <3>2, <3>3, <3>4 DEF AInv
  <2>10. CASE Done(r) \/ Refused(r) \/ Unlock(r)
    <3>1. /\ UNCHANGED <<table, rows, ran>>
          /\ run'[r].at \in {"unlock", "off"}
      BY <2>10 DEF Done, Refused, Unlock, Goes, Off, IInv, TypeOK, Run
    <3>2. run[r].at = "next" => run[r].todo = {}
      <4>1. CASE Refused(r)
        <5>1. /\ run[r].todo # {} /\ run[r].at \in {"next", "record"}
              /\ Recorded(File(r))
          BY <4>1 DEF Refused, At, IInv, TypeOK
        <5> QED
          BY <2>1, <5>1, FirstFile DEF AInv, OldSpared, IInv
      <4> QED
        BY <2>10, <4>1 DEF Done, Unlock
    <3>3. OldCovered'
      BY <2>1, <3>1, <3>2 DEF AInv, OldCovered, Recorded, Adopts
    <3>4. OldSpared'
      BY <2>1, <3>1 DEF AInv, OldSpared, Recorded, Adopts
    <3> QED
      BY <2>1, <2>2, <3>1, <3>3, <3>4 DEF AInv
  <2> QED
    BY <1>5, <2>4, <2>5, <2>6, <2>7, <2>8, <2>9, <2>10 DEF Step
<1> QED
  BY <1>1, <1>2, <1>3, <1>4, <1>5 DEF Next

(* The guard against a forgotten --bootstrap: as long as no statement has  *)
(* failed, no run has died and no connection was lost, nothing the         *)
(* database was built with is executed by a run that nobody told to, when  *)
(* the old files are not removed from the repository and are at least as   *)
(* many as the threshold.                                                  *)
THEOREM AdoptionHolds ==
    ASSUME IsFiniteSet(Version), Threshold <= Cardinality(Old), Absent \notin Written,
           \A r \in Runner : \A f \in Flags[r] : "confirm" \notin f
    PROVE  Spec => [](Unharmed => OldNeverRun)
<1>1. Init => AInv
  BY MigrationsAssumption DEF Init, AInv, OldStays, OldCovered, OldSpared, Off, Working,
     Absent
<1>2. IInv /\ AInv /\ [Next]_vars => AInv'
  BY AdoptionInductive
<1>3. AInv => (Unharmed => OldNeverRun)
  BY DEF AInv, OldNeverRun
<1> QED
  BY <1>1, <1>2, <1>3, Invariance, PTL DEF Spec

=============================================================================
