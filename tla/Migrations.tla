----------------------------- MODULE Migrations -----------------------------
(***************************************************************************)
(* The migration runner scripts/db-migrate.js: what "apply" does to a      *)
(* database, from several machines (the workflow of a push, an operator),  *)
(* each with a checkout of its own.  An advisory lock keeps the runs       *)
(* apart; a run reads the history, decides whether it may go on, and then  *)
(* works through the pending files in order.  A file is executed together  *)
(* with its history row in one transaction, or outside of any transaction  *)
(* when it builds an index concurrently.  Any run may die at any point.    *)
(***************************************************************************)
EXTENDS Integers, FiniteSets, FiniteSetsExt

CONSTANTS Version,        \* numbers of the files, in the order of their names
          Old,            \* the files that are there from the start
          Adopted,        \* was the database built with them by other means?
          Forbidden,      \* files that build an index outside a transaction
          Contracting,    \* files with a statement that is not additive
          Runner,
          Flags,          \* the sets of flags a runner may use
          Threshold,      \* FRESH_APPLY_PENDING_THRESHOLD
          Written,        \* what a commit may make of a file
          MaxChange,      \* bound on changes of the repository
          MaxFail,        \* bound on statements that fail
          MaxCrash,       \* bound on runs that die
          MaxLoss         \* bound on connections lost between two queries

ASSUME MigrationsAssumption ==
    /\ Version \subseteq Nat /\ Old \subseteq Version
    /\ Forbidden \subseteq Version /\ Contracting \subseteq Version
    /\ Adopted \in BOOLEAN /\ Threshold \in Nat /\ Written \subseteq 0..2
    /\ \A r \in Runner : Flags[r] \subseteq SUBSET {"bootstrap", "confirm", "contract"}
    /\ "nobody" \notin Runner
    /\ {MaxChange, MaxFail, MaxCrash, MaxLoss} \subseteq Nat

VARIABLES tree,       \* the files in the repository
          table,      \* does twica_meta.schema_migrations exist?
          rows,       \* the history: what it says of each version
          db,         \* what the database has of each version
          ran,        \* the versions whose SQL this runner has executed
          lock,       \* the holder of the advisory lock
          run,        \* the run on each machine
          spent       \* changes, failures, crashes and losses so far

vars == <<tree, table, rows, db, ran, lock, run, spent>>

Absent == 0
Broken == -1                  \* an index that is not valid (or not yet)
Content == {1, 2}             \* of a file: as written first, or edited
NoRow == [of |-> Absent, by |-> "none"]
Row(c, by) == [of |-> c, by |-> by]
Nobody == "nobody"
Off == [at |-> "off", flags |-> {}, disk |-> [v \in Version |-> Absent],
        fresh |-> FALSE, todo |-> {}]

Recorded(v) == rows[v] # NoRow
File(r) == Min(run[r].todo)           \* the file a run is at
Does(r, flag) == flag \in run[r].flags

Run == [at : {"off", "lock", "exists", "state", "table", "next", "build", "check",
              "record", "unlock"},
        flags : SUBSET {"bootstrap", "confirm", "contract"},
        disk : [Version -> Content \cup {Absent}],
        fresh : BOOLEAN, todo : SUBSET Version]
Spending == [change : Nat, fail : Nat, crash : Nat, loss : Nat]

TypeOK ==
    /\ tree \in [Version -> Content \cup {Absent}]
    /\ table \in BOOLEAN
    /\ rows \in [Version -> {NoRow} \cup [of : Content, by : {"run", "bootstrap"}]]
    /\ (\E v \in Version : Recorded(v)) => table
    /\ db \in [Version -> Content \cup {Absent, Broken}]
    /\ ran \subseteq Version
    /\ lock \in Runner \cup {Nobody}
    /\ run \in [Runner -> Run]
    /\ spent \in Spending
    /\ \A r \in Runner : run[r].at \in {"build", "check", "record"} => run[r].todo # {}

Init ==
    /\ tree = [v \in Version |-> IF v \in Old THEN 1 ELSE Absent]
    /\ table = FALSE /\ rows = [v \in Version |-> NoRow]
    /\ db = [v \in Version |-> IF Adopted /\ v \in Old THEN 1 ELSE Absent]
    /\ ran = {} /\ lock = Nobody /\ run = [r \in Runner |-> Off]
    /\ spent = [change |-> 0, fail |-> 0, crash |-> 0, loss |-> 0]
-----------------------------------------------------------------------------
(* The environment: commits, runs that are started, an operator who drops  *)
(* an index that is not valid.                                             *)

Spend(kind, max) == spent[kind] < max /\ spent' = [spent EXCEPT ![kind] = @ + 1]

\* A file is added, edited, removed or restored; nothing orders the versions.
Commit(v) ==
    /\ Spend("change", MaxChange)
    /\ \E c \in Written \ {tree[v]} : tree' = [tree EXCEPT ![v] = c]
    /\ UNCHANGED <<table, rows, db, ran, lock, run>>

Start(r) ==
    /\ run[r].at = "off"
    /\ \E f \in Flags[r] :
         run' = [run EXCEPT ![r] = [Off EXCEPT !.at = "lock", !.flags = f, !.disk = tree]]
    /\ UNCHANGED <<tree, table, rows, db, ran, lock, spent>>

DropIndex(v) ==
    /\ db[v] = Broken
    /\ \A r \in Runner : run[r].at = "build" => File(r) # v
    /\ db' = [db EXCEPT ![v] = Absent]
    /\ UNCHANGED <<tree, table, rows, ran, lock, run, spent>>
-----------------------------------------------------------------------------
(* Before the first file.                                                  *)

Goes(r, at) == run' = [run EXCEPT ![r].at = at]

\* pg_advisory_lock waits until the lock is free.
Acquire(r) ==
    /\ run[r].at = "lock" /\ lock = Nobody
    /\ lock' = r /\ Goes(r, "exists")
    /\ UNCHANGED <<tree, table, rows, db, ran, spent>>

HistoryTableExists(r) ==
    /\ run[r].at = "exists"
    /\ run' = [run EXCEPT ![r].at = "state", ![r].fresh = ~table]
    /\ UNCHANGED <<tree, table, rows, db, ran, lock, spent>>

Pending(disk) == {v \in Version : disk[v] # Absent /\ ~Recorded(v)}

\* A recorded file is gone from the checkout or has other contents there.
HasBlockingErrors(disk) == \E v \in Version : Recorded(v) /\ disk[v] # rows[v].of

ShouldBlockNonAdditive(r, todo) ==
    ~Does(r, "bootstrap") /\ ~Does(r, "contract") /\ todo \cap Contracting # {}

ShouldBlockFreshApply(r, todo) ==
    /\ ~Does(r, "bootstrap") /\ run[r].fresh
    /\ Cardinality(todo) >= Threshold
    /\ ~Does(r, "confirm")

(* Mutant: the table is created before the guards.                         *)
TableBeforeGuards(r) ==
    /\ run[r].at = "state"
    /\ table' = TRUE
    /\ LET todo == Pending(run[r].disk) IN
       IF \/ HasBlockingErrors(run[r].disk)
          \/ ShouldBlockNonAdditive(r, todo) \/ ShouldBlockFreshApply(r, todo)
       THEN Goes(r, "unlock")
       ELSE run' = [run EXCEPT ![r].at = "next", ![r].todo = todo]
    /\ UNCHANGED <<tree, rows, db, ran, lock, spent>>

(* Mutant: the history is not compared with the checkout.                  *)
NoIntegrityCheck(r) ==
    /\ run[r].at = "state"
    /\ LET todo == Pending(run[r].disk) IN
       IF ShouldBlockNonAdditive(r, todo) \/ ShouldBlockFreshApply(r, todo)
       THEN Goes(r, "unlock")
       ELSE run' = [run EXCEPT ![r].at = IF run[r].fresh THEN "table" ELSE "next",
                               ![r].todo = todo]
    /\ UNCHANGED <<tree, table, rows, db, ran, lock, spent>>

ComputeState(r) ==
    /\ run[r].at = "state"
    /\ LET todo == Pending(run[r].disk) IN
       IF \/ HasBlockingErrors(run[r].disk)
          \/ ShouldBlockNonAdditive(r, todo) \/ ShouldBlockFreshApply(r, todo)
       THEN Goes(r, "unlock")
       ELSE run' = [run EXCEPT ![r].at = IF run[r].fresh THEN "table" ELSE "next",
                               ![r].todo = todo]
    /\ UNCHANGED <<tree, table, rows, db, ran, lock, spent>>

CreateTable(r) ==
    /\ run[r].at = "table"
    /\ table' = TRUE /\ Goes(r, "next")
    /\ UNCHANGED <<tree, rows, db, ran, lock, spent>>
-----------------------------------------------------------------------------
(* The files, one after the other.                                         *)

At(r) == run[r].at = "next" /\ run[r].todo # {}
Finished(r) == run' = [run EXCEPT ![r].at = "next", ![r].todo = @ \ {File(r)}]

Done(r) ==
    /\ run[r].at = "next" /\ run[r].todo = {}
    /\ Goes(r, "unlock")
    /\ UNCHANGED <<tree, table, rows, db, ran, lock, spent>>

\* The version is the key of the history: a second row is refused.
Records(r, by) ==
    LET v == File(r) IN
    /\ ~Recorded(v) /\ Finished(r)
    /\ rows' = [rows EXCEPT ![v] = Row(run[r].disk[v], by)]

Bootstrap(r) ==
    /\ At(r) /\ Does(r, "bootstrap") /\ Records(r, "bootstrap")
    /\ UNCHANGED <<tree, table, db, ran, lock, spent>>

(* Mutant: the row of the history is written by a statement of its own.    *)
RowApart(r) ==
    /\ At(r) /\ ~Does(r, "bootstrap") /\ File(r) \notin Forbidden
    /\ ~Recorded(File(r)) /\ Goes(r, "record")
    /\ db' = [db EXCEPT ![File(r)] = run[r].disk[File(r)]]
    /\ ran' = ran \cup {File(r)}
    /\ UNCHANGED <<tree, table, rows, lock, spent>>

Transact(r) ==
    /\ At(r) /\ ~Does(r, "bootstrap") /\ File(r) \notin Forbidden
    /\ Records(r, "run")
    /\ db' = [db EXCEPT ![File(r)] = run[r].disk[File(r)]]
    /\ ran' = ran \cup {File(r)}
    /\ UNCHANGED <<tree, table, lock, spent>>

\* CREATE INDEX CONCURRENTLY IF NOT EXISTS does nothing to an index of that
\* name, whatever its state and definition; else the index is not valid until
\* it is built.
Build(r) ==
    /\ At(r) /\ ~Does(r, "bootstrap") /\ File(r) \in Forbidden
    /\ IF db[File(r)] = Absent
       THEN Goes(r, "build") /\ db' = [db EXCEPT ![File(r)] = Broken]
       ELSE Goes(r, "check") /\ UNCHANGED db
    /\ ran' = ran \cup {File(r)}
    /\ UNCHANGED <<tree, table, rows, lock, spent>>

Built(r) ==
    /\ run[r].at = "build" /\ Goes(r, "check")
    /\ db' = [db EXCEPT ![File(r)] = run[r].disk[File(r)]]
    /\ UNCHANGED <<tree, table, rows, ran, lock, spent>>

(* Mutant: the run waits until the index is as it should be.               *)
WaitsForIndex(r) ==
    /\ run[r].at = "check"
    /\ IF db[File(r)] = run[r].disk[File(r)] THEN Goes(r, "record") ELSE UNCHANGED run
    /\ UNCHANGED <<tree, table, rows, db, ran, lock, spent>>

\* The postcondition: there, valid, and with the definition of the file.
Check(r) ==
    /\ run[r].at = "check"
    /\ Goes(r, IF db[File(r)] = run[r].disk[File(r)] THEN "record" ELSE "unlock")
    /\ UNCHANGED <<tree, table, rows, db, ran, lock, spent>>

Record(r) ==
    /\ run[r].at = "record" /\ Records(r, "run")
    /\ UNCHANGED <<tree, table, db, ran, lock, spent>>

\* The row is there already: the insert fails, and with it its transaction.
Refused(r) ==
    /\ \/ At(r) /\ (Does(r, "bootstrap") \/ File(r) \notin Forbidden)
       \/ run[r].at = "record"
    /\ Recorded(File(r)) /\ Goes(r, "unlock")
    /\ UNCHANGED <<tree, table, rows, db, ran, lock, spent>>

(* Mutant: the run goes on with the next file.                             *)
GoesOn(r) ==
    /\ At(r) \/ run[r].at \in {"build", "check", "record"}
    /\ Spend("fail", MaxFail) /\ Finished(r)
    /\ UNCHANGED <<tree, table, rows, db, ran, lock>>

\* A statement fails: the run ends here.  What was being built stays.
Fails(r) ==
    /\ At(r) \/ run[r].at \in {"table", "build", "check", "record"}
    /\ Spend("fail", MaxFail) /\ Goes(r, "unlock")
    /\ UNCHANGED <<tree, table, rows, db, ran, lock>>

Unlock(r) ==
    /\ run[r].at = "unlock" /\ run' = [run EXCEPT ![r] = Off]
    /\ lock' = IF lock = r THEN Nobody ELSE lock
    /\ UNCHANGED <<tree, table, rows, db, ran, spent>>

\* The process dies: its session and with it the lock and a transaction end.
Crash(r) ==
    /\ run[r].at # "off" /\ Spend("crash", MaxCrash)
    /\ run' = [run EXCEPT ![r] = Off]
    /\ lock' = IF lock = r THEN Nobody ELSE lock
    /\ UNCHANGED <<tree, table, rows, db, ran>>

\* The connection is lost between two queries: the client opens another for
\* the next one, and the session that held the lock is gone.
Reconnect(r) ==
    /\ lock = r /\ run[r].at # "build" /\ Spend("loss", MaxLoss)
    /\ lock' = Nobody
    /\ UNCHANGED <<tree, table, rows, db, ran, run>>

Step(r) ==
    \/ HistoryTableExists(r) \/ ComputeState(r) \/ CreateTable(r) \/ Done(r)
    \/ Bootstrap(r) \/ Transact(r) \/ Build(r) \/ Built(r) \/ Check(r)
    \/ Record(r) \/ Refused(r) \/ Unlock(r)

Next ==
    \/ \E v \in Version : Commit(v) \/ DropIndex(v)
    \/ \E r \in Runner : Start(r) \/ Acquire(r) \/ Step(r) \/ Fails(r)
                         \/ Crash(r) \/ Reconnect(r)

Spec == Init /\ [][Next]_vars

\* The runner and the database go on; who waits for the lock gets it in turn;
\* pushes keep starting runs, and operators drop broken indexes.
Fairness ==
    /\ \A r \in Runner : WF_vars(Step(r)) /\ SF_vars(Acquire(r)) /\ WF_vars(Start(r))
    /\ \A v \in Version : WF_vars(DropIndex(v))

-----------------------------------------------------------------------------
(* Properties.                                                             *)

\* A row of the history that a run has written after executing a file says
\* what the database has: that file's contents, and an index that is valid and
\* has that definition.  And what a file with a transaction did is on record.
HistoryIsTrue ==
    \A v \in Version :
      /\ rows[v].by = "run" => db[v] = rows[v].of
      /\ v \in ran \ Forbidden => rows[v].by = "run"

\* A file is never recorded as executed while an earlier one of the same
\* checkout is not on record: a failure stops the files behind it.
InOrder ==
    [][\A r \in Runner, v \in Version :
         rows'[v] # rows[v] /\ run'[r] # run[r] =>
           \A w \in Version : w < v /\ run[r].disk[w] # Absent => Recorded(w)]_vars

\* Until a connection is lost, and the lock with it, a run changes the database
\* only while its checkout has every recorded file as it was recorded.
CheckoutAgrees ==
    [][spent.loss = 0 =>
         \A r \in Runner :
           run'[r] # run[r] /\ (rows' # rows \/ db' # db) =>
             ~HasBlockingErrors(run[r].disk)]_vars

\* Nothing the database was built with is executed by a run that nobody told
\* to: the guard against a forgotten --bootstrap.  It holds until a bootstrap is
\* cut off, since from then on the table is there although files are missing.
OldNeverRun == Adopted => ran \cap Old = {}

\* Until a connection is lost, at most one run is at work on the database.
OneAtWork ==
    spent.loss = 0 => \A r, s \in Runner :
      run[r].at \notin {"off", "lock"} /\ run[s].at \notin {"off", "lock"} => r = s

\* Every run comes to its end.
EveryRunEnds == \A r \in Runner : run[r].at # "off" ~> run[r].at = "off"

\* With runs that are started again and again, every file is recorded at last.
AllRecorded == <>[](\A v \in Version : tree[v] # Absent => Recorded(v))
=============================================================================
