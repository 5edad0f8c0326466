---------------------------- MODULE ErrorReporter ----------------------------
(***************************************************************************)
(* The cron worker that turns rows of errors and support_inquiries, and a  *)
(* backlog of parked notifications, into GitHub issues.  Every five        *)
(* minutes it reads the oldest unmarked rows, groups errors by signature,  *)
(* searches an issue for each group, comments on it or creates one, and    *)
(* marks the rows.  The search index lags behind, every call may fail, and *)
(* an answer may be lost after its effect.                                 *)
(***************************************************************************)
EXTENDS Naturals, Sequences, FiniteSets

CONSTANTS Sig, Inquiry,       \* signatures of errors; inquiries
          Backlog,            \* the topic of the backlog alarm
          Run,                \* invocations that may overlap
          ErrorLimit, InquiryLimit, MaxNew,
          MaxRows, MaxClosed, MaxFull, MaxFaults   \* bounds

Topic == Sig \cup Inquiry \cup {Backlog}

VARIABLES row,                \* both tables: topic, issue (0: unmarked)
          issue,              \* GitHub
          run,                \* the invocations
          over,               \* the parked backlog is above a threshold
          missed,             \* history: searches that missed an issue
          faults

vars == <<row, issue, run, over, missed, faults>>

Idle == [at |-> "idle", kind |-> "errors", rows |-> {}, done |-> {},
         topic |-> Backlog, found |-> 0, made |-> 0]

TypeOK ==
    /\ row \in Seq([topic : Sig \cup Inquiry, issue : 0..Len(issue)])
    /\ issue \in Seq([about : Topic, open : BOOLEAN, full : BOOLEAN,
                      indexed : BOOLEAN, tells : SUBSET (1..Len(row))])
    /\ run \in [Run -> [at : {"idle", "next", "comment", "create", "mark",
                              "list"},
                        kind : {"errors", "inquiries", "backlog"},
                        rows : SUBSET (1..Len(row)), done : SUBSET Topic,
                        topic : Topic, found : 0..Len(issue),
                        made : 0..MaxNew]]
    /\ over \in BOOLEAN /\ missed \in [Topic -> Nat]
    /\ faults \in 0..MaxFaults

Init ==
    /\ row = <<>> /\ issue = <<>> /\ run = [r \in Run |-> Idle]
    /\ over = FALSE /\ missed = [t \in Topic |-> 0] /\ faults = 0

Fault == faults < MaxFaults /\ faults' = faults + 1
-----------------------------------------------------------------------------
(* The program, its operators and GitHub.                                  *)
\* errors has no key: the same error may be inserted twice.
Insert(t) ==
    /\ Len(row) < MaxRows
    /\ t \in Inquiry => \A i \in DOMAIN row : row[i].topic # t
    /\ row' = Append(row, [topic |-> t, issue |-> 0])
    /\ UNCHANGED <<issue, run, over, missed, faults>>

Index(n) ==
    /\ ~issue[n].indexed /\ issue' = [issue EXCEPT ![n].indexed = TRUE]
    /\ UNCHANGED <<row, run, over, missed, faults>>

Close(n) ==
    /\ issue[n].open
    /\ Cardinality({k \in DOMAIN issue : ~issue[k].open}) < MaxClosed
    /\ issue' = [issue EXCEPT ![n].open = FALSE]
    /\ UNCHANGED <<row, run, over, missed, faults>>

\* GitHub takes no more comments: the limit of an issue, a locked one.
Fill(n) ==
    /\ issue[n].about \in Sig /\ ~issue[n].full
    /\ Cardinality({k \in DOMAIN issue : issue[k].full}) < MaxFull
    /\ issue' = [issue EXCEPT ![n].full = TRUE]
    /\ UNCHANGED <<row, run, over, missed, faults>>

Park == over' = ~over /\ UNCHANGED <<row, issue, run, missed, faults>>
-----------------------------------------------------------------------------
(* fetchPendingErrors, fetchPendingInquiries: the oldest unmarked rows.    *)
Oldest(S, n) == {i \in S : Cardinality({j \in S : j < i}) < n}

Pending(topics, n) ==
    Oldest({i \in DOMAIN row : row[i].topic \in topics /\ row[i].issue = 0},
           n)

Left(r) == {i \in run[r].rows : row[i].topic \notin run[r].done}

Tick(r) ==
    /\ run[r].at = "idle"
    /\ run' = [run EXCEPT ![r].at = "next",
                          ![r].rows = Pending(Sig, ErrorLimit)]
    /\ UNCHANGED <<row, issue, over, missed, faults>>

TickUnread(r) ==
    /\ run[r].at = "idle" /\ Fault
    /\ run' = [run EXCEPT ![r].at = "next"]
    /\ UNCHANGED <<row, issue, over, missed>>

Inquiries(r) ==
    /\ run[r].at = "next" /\ run[r].kind = "errors" /\ Left(r) = {}
    /\ run' = [run EXCEPT ![r] = [Idle EXCEPT !.at = "next",
                 !.kind = "inquiries", !.rows = Pending(Inquiry, InquiryLimit)]]
    /\ UNCHANGED <<row, issue, over, missed, faults>>

InquiriesUnread(r) ==
    /\ run[r].at = "next" /\ run[r].kind = "errors" /\ Left(r) = {} /\ Fault
    /\ run' = [run EXCEPT ![r] =
                 [Idle EXCEPT !.at = "next", !.kind = "inquiries"]]
    /\ UNCHANGED <<row, issue, over, missed>>

(* searchIssue: open and closed issues; a failure counts as none.          *)
Indexed(t) == {n \in DOMAIN issue : issue[n].about = t /\ issue[n].indexed}

IssuesAbout(t) == {n \in DOMAIN issue : issue[n].about = t}

NextTopic(r) ==
    row[CHOOSE i \in Left(r) : \A j \in Left(r) : i <= j].topic

Unfound(r) == run' = [run EXCEPT ![r].at = "create", ![r].topic = NextTopic(r)]

Miss(r) == missed' = [missed EXCEPT ![NextTopic(r)] = @ + 1]

SearchFinds(r) ==
    /\ run[r].at = "next" /\ Left(r) # {}
    /\ \E n \in Indexed(NextTopic(r)) :
         run' = [run EXCEPT ![r].topic = NextTopic(r), ![r].found = n,
                   ![r].at = IF run[r].kind = "errors" THEN "comment"
                             ELSE "mark"]
    /\ UNCHANGED <<row, issue, over, missed, faults>>

SearchMisses(r) ==
    /\ run[r].at = "next" /\ Left(r) # {} /\ Indexed(NextTopic(r)) = {}
    /\ Unfound(r)
    /\ IF \E n \in IssuesAbout(NextTopic(r)) : ~issue[n].indexed
       THEN Miss(r) ELSE UNCHANGED missed
    /\ UNCHANGED <<row, issue, over, faults>>

SearchFails(r) ==
    /\ run[r].at = "next" /\ Left(r) # {} /\ Indexed(NextTopic(r)) # {}
    /\ Fault /\ Unfound(r) /\ Miss(r) /\ UNCHANGED <<row, issue, over>>

(* A group that fails is left for a later run.                             *)
Skip(r) ==
    run' = [run EXCEPT ![r].at = "next", ![r].done = @ \cup {run[r].topic},
                       ![r].topic = Backlog, ![r].found = 0]

Group(r) == {i \in run[r].rows : row[i].topic = run[r].topic}

Told(r) == issue' = [issue EXCEPT ![run[r].found].tells = @ \cup Group(r)]

Comment(r) ==
    /\ run[r].at = "comment" /\ ~issue[run[r].found].full /\ Told(r)
    /\ run' = [run EXCEPT ![r].at = "mark"]
    /\ UNCHANGED <<row, over, missed, faults>>

\* The comment is there, its answer is lost.
CommentLost(r) ==
    /\ run[r].at = "comment" /\ ~issue[run[r].found].full /\ Told(r)
    /\ Fault /\ Skip(r) /\ UNCHANGED <<row, over, missed>>

(* Mutant: the answer of a comment is not checked.                         *)
CommentUnchecked(r) ==
    /\ run[r].at = "comment" /\ Fault
    /\ run' = [run EXCEPT ![r].at = "mark"]
    /\ UNCHANGED <<row, issue, over, missed>>
CommentFails(r) ==
    /\ run[r].at = "comment" /\ Fault /\ Skip(r)
    /\ UNCHANGED <<row, issue, over, missed>>

CommentRefused(r) ==
    /\ run[r].at = "comment" /\ issue[run[r].found].full /\ Skip(r)
    /\ UNCHANGED <<row, issue, over, missed, faults>>

(* At most MaxNew issues about errors in a run.                            *)
UnderCap(r) == run[r].kind = "errors" => run[r].made < MaxNew

Defer(r) ==
    /\ run[r].at = "create" /\ ~UnderCap(r) /\ Skip(r)
    /\ UNCHANGED <<row, issue, over, missed, faults>>

NewIssue(r) ==
    issue' = Append(issue, [about |-> run[r].topic, open |-> TRUE,
                            full |-> FALSE, indexed |-> FALSE,
                            tells |-> Group(r)])

Create(r) ==
    /\ run[r].at = "create" /\ UnderCap(r) /\ NewIssue(r)
    /\ run' = IF run[r].kind = "backlog" THEN [run EXCEPT ![r] = Idle]
              ELSE [run EXCEPT ![r].at = "mark", ![r].found = Len(issue'),
                      ![r].made = IF run[r].kind = "errors" THEN @ + 1 ELSE @]
    /\ UNCHANGED <<row, over, missed, faults>>

Abandon(r) ==
    IF run[r].kind = "backlog" THEN run' = [run EXCEPT ![r] = Idle] ELSE Skip(r)

CreateLost(r) ==
    /\ run[r].at = "create" /\ UnderCap(r) /\ NewIssue(r) /\ Fault
    /\ Abandon(r) /\ UNCHANGED <<row, over, missed>>

CreateFails(r) ==
    /\ run[r].at = "create" /\ UnderCap(r) /\ Fault
    /\ Abandon(r) /\ UNCHANGED <<row, issue, over, missed>>

(* markErrorsAsProcessed, markInquiryProcessed.                            *)
Mark(r) ==
    /\ run[r].at = "mark"
    /\ row' = [i \in DOMAIN row |->
                 IF i \in Group(r)
                 THEN [row[i] EXCEPT !.issue = run[r].found] ELSE row[i]]
    /\ Skip(r) /\ UNCHANGED <<issue, over, missed, faults>>

MarkFails(r) ==
    /\ run[r].at = "mark" /\ Fault /\ Skip(r)
    /\ UNCHANGED <<row, issue, over, missed>>
-----------------------------------------------------------------------------
(* processEventSubParkBacklog.                                             *)
BelowThreshold(r) ==
    /\ run[r].at = "next" /\ run[r].kind = "inquiries" /\ Left(r) = {}
    /\ ~over /\ run' = [run EXCEPT ![r] = Idle]
    /\ UNCHANGED <<row, issue, over, missed, faults>>

AboveThreshold(r) ==
    /\ run[r].at = "next" /\ run[r].kind = "inquiries" /\ Left(r) = {}
    /\ over
    /\ run' = [run EXCEPT ![r] = [Idle EXCEPT !.at = "list",
                                              !.kind = "backlog"]]
    /\ UNCHANGED <<row, issue, over, missed, faults>>

(* The list of issues is exact; a failed one creates nothing.              *)
Listed == {n \in IssuesAbout(Backlog) : issue[n].open}

List(r) ==
    /\ run[r].at = "list"
    /\ run' = IF Listed = {} THEN [run EXCEPT ![r].at = "create"]
              ELSE [run EXCEPT ![r] = Idle]
    /\ UNCHANGED <<row, issue, over, missed, faults>>

ListFails(r) ==
    /\ run[r].at = "list" /\ Fault
    /\ run' = [run EXCEPT ![r] = Idle]
    /\ UNCHANGED <<row, issue, over, missed>>

\* The backlog cannot be read, or the invocation dies.
Die(r) ==
    /\ run[r].at # "idle" /\ Fault
    /\ run' = [run EXCEPT ![r] = Idle]
    /\ UNCHANGED <<row, issue, over, missed>>

Step(r) ==
    \/ Tick(r) \/ Inquiries(r) \/ SearchFinds(r) \/ SearchMisses(r)
    \/ Comment(r) \/ CommentRefused(r) \/ Defer(r) \/ Create(r) \/ Mark(r)
    \/ BelowThreshold(r) \/ AboveThreshold(r) \/ List(r)

Next ==
    \/ \E t \in Sig \cup Inquiry : Insert(t)
    \/ \E n \in DOMAIN issue : Index(n) \/ Close(n) \/ Fill(n)
    \/ Park
    \/ \E r \in Run :
         \/ Step(r) \/ TickUnread(r) \/ InquiriesUnread(r) \/ SearchFails(r)
         \/ CommentLost(r) \/ CommentFails(r) \/ CreateLost(r)
         \/ CreateFails(r) \/ MarkFails(r) \/ ListFails(r) \/ Die(r)

Spec == Init /\ [][Next]_vars

-----------------------------------------------------------------------------
(* A marked row was told to the issue it is marked with: a comment or an   *)
(* issue that failed is never taken for a report (processErrors,           *)
(* processInquiries).                                                      *)
MarkedIsTold ==
    \A i \in DOMAIN row : row[i].issue # 0 =>
        /\ issue[row[i].issue].about = row[i].topic
        /\ i \in issue[row[i].issue].tells

(* As long as invocations do not overlap, a topic has more than one issue  *)
(* only for searches that missed an issue, by the index or by a failure:   *)
(* a lost answer, a failed mark or a death alone duplicates nothing.       *)
NoNeedlessIssue ==
    \A t \in Sig \cup Inquiry : Cardinality(IssuesAbout(t)) <= 1 + missed[t]

(* The backlog alarm has no marks: what keeps it from opening an issue     *)
(* every five minutes is the list alone, also when calls fail.             *)
OneBacklogIssue ==
    Cardinality({n \in IssuesAbout(Backlog) : issue[n].open}) <= 1

=============================================================================
