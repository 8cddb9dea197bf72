------------------------------ MODULE WebTasks ------------------------------
(***************************************************************************)
(* Execution and recovery of web tasks (web/tasks.py, web/task_journal.py) *)
(* on one SQLite database.                                                 *)
(*                                                                         *)
(* Several server processes may open the same database.  The one that gets *)
(* the OS lock of "<db>.web-worker.lock" executes: it accepts a campaign   *)
(* or a reproduction, runs it in a daemon thread and keeps the journal row *)
(* of the task up to date.  A process may stop between any two steps; what *)
(* it committed stays, what it had in memory is gone, and the next process *)
(* that gets the lock reconciles the journal with the saved runs.          *)
(* Campaigns started from the command line write to the same database and  *)
(* know nothing of the lock.                                               *)
(*                                                                         *)
(* Each action is one critical section of a manager or one transaction of  *)
(* SQLite, the granularity at which these actors interleave.               *)
(***************************************************************************)
EXTENDS Naturals, FiniteSets

CONSTANTS
    Workers,        \* server processes that open the database
    Campaigns,      \* campaign definitions; the request key is the definition's id
    Reproductions,  \* "reproduction:<run_id>" request keys
    Jobs,           \* `variaq campaign run` processes
    Attempts,       \* attempts in the matrix of each campaign (skipped ones excluded)
    Target,         \* the campaign each command-line job runs
    Source,         \* whose first run each reproduction repeats
    Faults,         \* may a write of the journal or of a membership raise?
    MaxStops,       \* bound on the stops of server processes
    Nobody          \* Python's None

Requests == Campaigns \cup Reproductions

\* A saved run belongs to the web task or to the job that executed it.
Owners == Requests \cup Jobs

ASSUME ConstantsAssumption ==
    /\ Campaigns \cap Reproductions = {}
    /\ Requests \cap Jobs = {}
    /\ Nobody \notin Workers \cup Requests
    /\ Attempts \in [Campaigns -> Nat]
    /\ Target \in [Jobs -> Campaigns]
    /\ Source \in [Reproductions -> Campaigns \cup Jobs]
    /\ Faults \in BOOLEAN
    /\ MaxStops \in Nat

VARIABLES
    (* The database file. *)
    journal,    \* web_tasks: the row of each request key
    campaigns,  \* campaigns: the definitions saved
    saved,      \* runs: how many runs each owner saved (run ids are fresh)
    member,     \* campaign_runs: which runs of each owner have a membership row
    (* The operating system. *)
    lock,       \* the process that holds the worker lock file
    (* The memory of the server processes. *)
    proc,       \* how far each process is
    orphans,    \* reconcile: the runs read as having no membership row
    seen,       \* reconcile: the journal rows read before they are updated
    current,    \* CampaignTaskManager._current
    latest,     \* CampaignTaskManager._thread
    thread,     \* the task object of each request and the thread that works on it
    (* The command-line jobs. *)
    job,
    (* Bookkeeping of the model. *)
    launches,   \* how often a thread was started for each request
    stops

database == <<journal, campaigns, saved, member>>
recovery == <<orphans, seen>>
manager  == <<current, latest, thread, launches>>
vars == <<database, lock, proc, recovery, manager, job, stops>>

-----------------------------------------------------------------------------
(* Types *)

Active   == {"starting", "running"}
Terminal == {"completed", "failed", "interrupted"}

Row == [status : Active \cup Terminal \cup {"absent"}, done : Nat, result : BOOLEAN]

NoRow == [status |-> "absent", done |-> 0, result |-> FALSE]

ThreadStep == {"idle", "accepted", "launched", "plan", "attempt", "filing",
               "progress", "ending", "dead", "gone"}

Thread == [pc : ThreadStep, at : Workers \cup {Nobody},
           status : {"absent", "starting", "running", "completed", "failed"}, done : Nat]

NoThread == [pc |-> "idle", at |-> Nobody, status |-> "absent", done |-> 0]

TypeOK ==
    /\ journal \in [Requests -> Row]
    /\ campaigns \subseteq Campaigns
    /\ saved \in [Owners -> Nat]
    /\ member \in [Owners -> SUBSET Nat]
    /\ lock \in Workers \cup {Nobody}
    /\ proc \in [Workers -> {"down", "bound", "repairing", "reading", "marking",
                             "serving", "closed"}]
    /\ orphans \in [Workers -> [Owners -> SUBSET Nat]]
    /\ seen \in [Workers -> [Requests -> Row]]
    /\ current \in [Workers -> Requests \cup {Nobody}]
    /\ latest \in [Workers -> Requests \cup {Nobody}]
    /\ thread \in [Requests -> Thread]
    /\ job \in [Jobs -> {"idle", "attempt", "filing", "done", "conflict", "stopped"}]
    /\ launches \in [Requests -> Nat]
    /\ stops \in Nat

-----------------------------------------------------------------------------
(* Helpers *)

NoOrphans == [o \in Owners |-> {}]
EmptyJournal == [k \in Requests |-> NoRow]

\* How many runs the work of a request saves when nothing fails.
Quota(k) == IF k \in Campaigns THEN Attempts[k] ELSE 1

\* environment["campaign_id"] of the runs of an owner; runs of a reproduction have none.
CampaignOf(o) == IF o \in Jobs THEN Target[o] ELSE o

\* The runs of an owner that reconcile would add to a campaign.
Unfiled(o) ==
    IF CampaignOf(o) \in campaigns THEN 1..saved[o] \ member[o] ELSE {}

\* The row CampaignTask.to_dict writes; only a completed task has a result.
RowOf(task) ==
    [status |-> task.status, done |-> task.done, result |-> task.status = "completed"]

\* Seeded bug: an accepted task whose thread has not begun is not counted.
BusyOnceRunning(w) == current[w] # Nobody /\ thread[current[w]].status = "running"

\* The task a manager holds still occupies its execution slot.
Busy(w) == current[w] # Nobody /\ thread[current[w]].status \in Active

\* Thread.is_alive() of the thread the manager started last.
LatestAlive(w) ==
    latest[w] # Nobody /\ thread[latest[w]].pc \notin {"idle", "accepted", "dead", "gone"}

-----------------------------------------------------------------------------
Init ==
    /\ journal = EmptyJournal
    /\ campaigns = {}
    /\ saved = [o \in Owners |-> 0]
    /\ member = NoOrphans
    /\ lock = Nobody
    /\ proc = [w \in Workers |-> "down"]
    /\ orphans = [w \in Workers |-> NoOrphans]
    /\ seen = [w \in Workers |-> EmptyJournal]
    /\ current = [w \in Workers |-> Nobody]
    /\ latest = [w \in Workers |-> Nobody]
    /\ thread = [k \in Requests |-> NoThread]
    /\ job = [j \in Jobs |-> "idle"]
    /\ launches = [k \in Requests |-> 0]
    /\ stops = 0

-----------------------------------------------------------------------------
(* Start of a server process: TaskJournal.__init__ *)

\* The lock file is free: this process executes, after it has reconciled.
BindExecutor(w) ==
    /\ proc[w] = "down"
    /\ lock = Nobody
    /\ lock' = w
    /\ proc' = [proc EXCEPT ![w] = "bound"]
    /\ UNCHANGED <<database, recovery, manager, job, stops>>

\* Seeded bug: reconcile is called whether or not the lock was obtained.
BindObserverReconciling(w) ==
    /\ proc[w] = "down"
    /\ lock # Nobody
    /\ proc' = [proc EXCEPT ![w] = "bound"]
    /\ UNCHANGED <<database, lock, recovery, manager, job, stops>>

\* The lock file is taken: this process only reads, for as long as it lives.
BindObserver(w) ==
    /\ proc[w] = "down"
    /\ lock # Nobody
    /\ proc' = [proc EXCEPT ![w] = "serving"]
    /\ UNCHANGED <<database, lock, recovery, manager, job, stops>>

\* The first SELECT of reconcile runs outside a transaction: sqlite3 opens one
\* only at the first INSERT or UPDATE.
ReadOrphans(w) ==
    /\ proc[w] = "bound"
    /\ orphans' = [orphans EXCEPT ![w] = [o \in Owners |-> Unfiled(o)]]
    /\ proc' = [proc EXCEPT ![w] =
                  IF \A o \in Owners : Unfiled(o) = {} THEN "reading" ELSE "repairing"]
    /\ UNCHANGED <<database, lock, seen, manager, job, stops>>

\* Seeded bug: a task that was accepted but never began is left alone.
ReconciledRunning(rows) ==
    [k \in Requests |->
        IF rows[k].status = "absent" THEN journal[k]
        ELSE [status |-> IF rows[k].status = "running" THEN "interrupted" ELSE rows[k].status,
              done   |-> saved[k],
              result |-> rows[k].result \/ (k \in Reproductions /\ saved[k] > 0)]]

\* Seeded bug: the saved run of an interrupted reproduction is not linked.
ReconciledWithoutResult(rows) ==
    [k \in Requests |->
        IF rows[k].status = "absent" THEN journal[k]
        ELSE [status |-> IF rows[k].status \in Active THEN "interrupted" ELSE rows[k].status,
              done   |-> saved[k],
              result |-> rows[k].result]]

\* What reconcile makes of the rows it read.
Reconciled(rows) ==
    [k \in Requests |->
        IF rows[k].status = "absent" THEN journal[k]
        ELSE [status |-> IF rows[k].status \in Active THEN "interrupted" ELSE rows[k].status,
              done   |-> saved[k],
              result |-> rows[k].result \/ (k \in Reproductions /\ saved[k] > 0)]]

\* Seeded bug: the task rows are updated and the memberships are forgotten.
RepairRowsOnly(w) ==
    /\ proc[w] = "repairing"
    /\ journal' = Reconciled(journal)
    /\ orphans' = [orphans EXCEPT ![w] = NoOrphans]
    /\ proc' = [proc EXCEPT ![w] = "serving"]
    /\ UNCHANGED <<campaigns, saved, member, lock, seen, manager, job, stops>>

\* There are orphans: the first INSERT opens the transaction in which the
\* journal is read and updated as well.
Repair(w) ==
    /\ proc[w] = "repairing"
    /\ \A o \in Owners : orphans[w][o] \cap member[o] = {}
    /\ member' = [o \in Owners |-> member[o] \cup orphans[w][o]]
    /\ journal' = Reconciled(journal)
    /\ orphans' = [orphans EXCEPT ![w] = NoOrphans]
    /\ proc' = [proc EXCEPT ![w] = "serving"]
    /\ UNCHANGED <<campaigns, saved, lock, seen, manager, job, stops>>

\* A command-line job filed one of the orphans meanwhile: the INSERT breaks the
\* primary key of campaign_runs, the transaction rolls back and the start fails.
RepairConflict(w) ==
    /\ proc[w] = "repairing"
    /\ \E o \in Owners : orphans[w][o] \cap member[o] # {}
    /\ orphans' = [orphans EXCEPT ![w] = NoOrphans]
    /\ proc' = [proc EXCEPT ![w] = "down"]
    /\ lock' = Nobody
    /\ UNCHANGED <<database, seen, manager, job, stops>>

\* No orphans: the journal is read before the first UPDATE opens a transaction.
ReadTasks(w) ==
    /\ proc[w] = "reading"
    /\ seen' = [seen EXCEPT ![w] = journal]
    /\ proc' = [proc EXCEPT ![w] = "marking"]
    /\ UNCHANGED <<database, lock, orphans, manager, job, stops>>

MarkTasks(w) ==
    /\ proc[w] = "marking"
    /\ journal' = Reconciled(seen[w])
    /\ seen' = [seen EXCEPT ![w] = EmptyJournal]
    /\ proc' = [proc EXCEPT ![w] = "serving"]
    /\ UNCHANGED <<campaigns, saved, member, lock, orphans, manager, job, stops>>

-----------------------------------------------------------------------------
(* Requests.  A refused or repeated request changes no state. *)

\* Seeded bug: the journal is not asked for the request key.
AcceptUnchecked(w, k) ==
    /\ proc[w] = "serving"
    /\ lock = w
    /\ ~Busy(w)
    /\ thread' = [thread EXCEPT ![k] =
                    [pc |-> "accepted", at |-> w, status |-> "starting", done |-> 0]]
    /\ journal' = [journal EXCEPT ![k] = RowOf(thread'[k])]
    /\ current' = [current EXCEPT ![w] = k]
    /\ UNCHANGED <<campaigns, saved, member, lock, proc, recovery, latest, launches, job, stops>>

\* Under the manager's lock: the request is new, this process executes and its
\* slot is free; the row is saved before the task becomes the current one.
Accept(w, k) ==
    /\ proc[w] = "serving"
    /\ journal[k].status = "absent"
    /\ lock = w
    /\ ~Busy(w)
    /\ thread' = [thread EXCEPT ![k] =
                    [pc |-> "accepted", at |-> w, status |-> "starting", done |-> 0]]
    /\ journal' = [journal EXCEPT ![k] = RowOf(thread'[k])]
    /\ current' = [current EXCEPT ![w] = k]
    /\ UNCHANGED <<campaigns, saved, member, lock, proc, recovery, latest, launches, job, stops>>

\* A campaign that has rows but no journal row is historical and is refused.
StartCampaign(w, k) ==
    /\ k \notin campaigns
    /\ Accept(w, k)

\* get_run found the source run.
StartReproduction(w, k) ==
    /\ saved[Source[k]] > 0
    /\ Accept(w, k)

\* The thread is created and started after the manager's lock was released.
Launch(k) ==
    /\ thread[k].pc = "accepted"
    /\ thread' = [thread EXCEPT ![k].pc = "launched"]
    /\ latest' = [latest EXCEPT ![thread[k].at] = k]
    /\ launches' = [launches EXCEPT ![k] = @ + 1]
    /\ UNCHANGED <<database, lock, proc, recovery, current, job, stops>>

-----------------------------------------------------------------------------
(* The worker thread *)

\* A thread moves on: its task object changes, and the row when it is saved.
Step(k, pc, status, done) ==
    thread' = [thread EXCEPT ![k] = [pc |-> pc, at |-> @.at, status |-> status, done |-> done]]

SaveRow(k) == journal' = [journal EXCEPT ![k] = RowOf(thread'[k])]

outsideThread == <<lock, proc, recovery, current, latest, launches, job, stops>>

Begin(k) ==
    /\ thread[k].pc = "launched"
    /\ Step(k, IF k \in Campaigns THEN "plan" ELSE "attempt", "running", thread[k].done)
    /\ SaveRow(k)
    /\ UNCHANGED <<campaigns, saved, member, outsideThread>>

\* The first save is outside the try statement: when it raises the thread ends
\* with the task running in memory.
BeginFault(k) ==
    /\ Faults
    /\ thread[k].pc = "launched"
    /\ Step(k, "dead", "running", thread[k].done)
    /\ UNCHANGED <<database, outsideThread>>

\* CampaignRunner.run saves the definition, or finds it saved.
SaveCampaign(k) ==
    /\ thread[k].pc = "plan"
    /\ campaigns' = campaigns \cup {k}
    /\ Step(k, "attempt", "running", thread[k].done)
    /\ UNCHANGED <<journal, saved, member, outsideThread>>

\* One solver call and the transaction that saves its run.  A process that stops
\* before the save loses the call and nothing else.
Attempt(k) ==
    /\ thread[k].pc = "attempt"
    /\ saved[k] < Quota(k)
    /\ saved' = [saved EXCEPT ![k] = @ + 1]
    /\ Step(k, IF k \in Campaigns THEN "filing" ELSE "attempt", "running", thread[k].done)
    /\ UNCHANGED <<journal, campaigns, member, outsideThread>>

\* CampaignStore.record_run
FileRun(k) ==
    /\ thread[k].pc = "filing"
    /\ saved[k] \notin member[k]
    /\ member' = [member EXCEPT ![k] = @ \cup {saved[k]}]
    /\ Step(k, "progress", "running", thread[k].done)
    /\ UNCHANGED <<journal, campaigns, saved, outsideThread>>

\* Seeded bug: the callback counts in memory and does not save.
CountProgress(k) ==
    /\ thread[k].pc = "progress"
    /\ Step(k, "attempt", "running", saved[k])
    /\ UNCHANGED <<database, outsideThread>>

\* The on_run_recorded callback: the runs filed so far, in memory and in the row.
SaveProgress(k) ==
    /\ thread[k].pc = "progress"
    /\ Step(k, "attempt", "running", saved[k])
    /\ SaveRow(k)
    /\ UNCHANGED <<campaigns, saved, member, outsideThread>>

\* The matrix is exhausted, or the reproduction's run is saved.
Complete(k) ==
    /\ thread[k].pc = "attempt"
    /\ saved[k] = Quota(k)
    /\ Step(k, "ending", "completed", saved[k])
    /\ UNCHANGED <<database, outsideThread>>

\* Seeded bug: the exception handler does not set the status.
FailSilently(k) ==
    /\ thread[k].pc \in {"plan", "attempt"}
    /\ Step(k, "ending", thread[k].status, thread[k].done)
    /\ UNCHANGED <<database, outsideThread>>

\* Something raised: the run limit, a problem artifact that differs, a matrix of
\* incompatible solvers, a save of a run; or the write of a membership or of the
\* progress, which happens after the counter in memory was set.
Fail(k) ==
    /\ \/ thread[k].pc = "plan"
       \/ thread[k].pc = "attempt" /\ (k \in Campaigns \/ saved[k] = 0)
       \/ thread[k].pc = "filing" /\ (Faults \/ saved[k] \in member[k])
       \/ thread[k].pc = "progress" /\ Faults
    /\ Step(k, "ending", "failed",
            IF thread[k].pc = "progress" THEN saved[k] ELSE thread[k].done)
    /\ UNCHANGED <<database, outsideThread>>

\* The finally clause: a critical section after the one that set the outcome.
SaveOutcome(k) ==
    /\ thread[k].pc = "ending"
    /\ Step(k, "dead", thread[k].status, thread[k].done)
    /\ SaveRow(k)
    /\ UNCHANGED <<campaigns, saved, member, outsideThread>>

OutcomeFault(k) ==
    /\ Faults
    /\ thread[k].pc = "ending"
    /\ Step(k, "dead", thread[k].status, thread[k].done)
    /\ UNCHANGED <<database, outsideThread>>

-----------------------------------------------------------------------------
(* Stop of a server process *)

\* Seeded bug: close() gives the lock up while a task is active.
CloseUnlocking(w) ==
    /\ proc[w] = "serving"
    /\ stops < MaxStops
    /\ stops' = stops + 1
    /\ proc' = [proc EXCEPT ![w] = "closed"]
    /\ lock' = IF lock = w /\ ~LatestAlive(w) THEN Nobody ELSE lock
    /\ UNCHANGED <<database, recovery, manager, job>>

\* The lifespan ends: close() gives the lock up unless a task is active or the
\* last thread is alive, and an observer has no lock to give up.
Close(w) ==
    /\ proc[w] = "serving"
    /\ stops < MaxStops
    /\ stops' = stops + 1
    /\ proc' = [proc EXCEPT ![w] = "closed"]
    /\ lock' = IF lock = w /\ ~Busy(w) /\ ~LatestAlive(w) THEN Nobody ELSE lock
    /\ UNCHANGED <<database, recovery, manager, job>>

\* The process ends: its threads with it, and the OS drops the lock.
Vanish(w) ==
    /\ proc' = [proc EXCEPT ![w] = "down"]
    /\ lock' = IF lock = w THEN Nobody ELSE lock
    /\ orphans' = [orphans EXCEPT ![w] = NoOrphans]
    /\ seen' = [seen EXCEPT ![w] = EmptyJournal]
    /\ current' = [current EXCEPT ![w] = Nobody]
    /\ latest' = [latest EXCEPT ![w] = Nobody]
    /\ thread' = [k \in Requests |->
                    IF thread[k].at = w THEN [thread[k] EXCEPT !.pc = "gone"] ELSE thread[k]]
    /\ UNCHANGED <<database, launches, job>>

Crash(w) ==
    /\ proc[w] \notin {"down", "closed"}
    /\ stops < MaxStops
    /\ stops' = stops + 1
    /\ Vanish(w)

Exit(w) ==
    /\ proc[w] = "closed"
    /\ UNCHANGED stops
    /\ Vanish(w)

-----------------------------------------------------------------------------
(* A campaign run from the command line: CampaignRunner.run without a task *)

outsideJob == <<journal, lock, proc, recovery, manager, stops>>

JobStart(j) ==
    /\ job[j] = "idle"
    /\ campaigns' = campaigns \cup {Target[j]}
    /\ job' = [job EXCEPT ![j] = "attempt"]
    /\ UNCHANGED <<saved, member, outsideJob>>

JobAttempt(j) ==
    /\ job[j] = "attempt"
    /\ saved[j] < Attempts[Target[j]]
    /\ saved' = [saved EXCEPT ![j] = @ + 1]
    /\ job' = [job EXCEPT ![j] = "filing"]
    /\ UNCHANGED <<campaigns, member, outsideJob>>

JobFile(j) ==
    /\ job[j] = "filing"
    /\ saved[j] \notin member[j]
    /\ member' = [member EXCEPT ![j] = @ \cup {saved[j]}]
    /\ job' = [job EXCEPT ![j] = "attempt"]
    /\ UNCHANGED <<campaigns, saved, outsideJob>>

\* A server that started meanwhile filed the run: the primary key of
\* campaign_runs refuses the second row and the exception ends the job.
JobConflict(j) ==
    /\ job[j] = "filing"
    /\ saved[j] \in member[j]
    /\ job' = [job EXCEPT ![j] = "conflict"]
    /\ UNCHANGED <<campaigns, saved, member, outsideJob>>

JobDone(j) ==
    /\ job[j] = "attempt"
    /\ saved[j] = Attempts[Target[j]]
    /\ job' = [job EXCEPT ![j] = "done"]
    /\ UNCHANGED <<campaigns, saved, member, outsideJob>>

\* The job is killed, or a failure of its own ends it.
JobStop(j) ==
    /\ job[j] \in {"attempt", "filing"}
    /\ job' = [job EXCEPT ![j] = "stopped"]
    /\ UNCHANGED <<campaigns, saved, member, outsideJob>>

-----------------------------------------------------------------------------
Recover(w) ==
    \/ BindExecutor(w) \/ BindObserver(w)
    \/ ReadOrphans(w) \/ Repair(w) \/ RepairConflict(w)
    \/ ReadTasks(w) \/ MarkTasks(w)

Work(k) ==
    \/ Launch(k) \/ Begin(k) \/ Attempt(k) \/ Complete(k) \/ Fail(k) \/ SaveOutcome(k)
    \/ k \in Campaigns /\ (SaveCampaign(k) \/ FileRun(k) \/ SaveProgress(k))

Fault(k) == BeginFault(k) \/ OutcomeFault(k)

JobStep(j) ==
    JobStart(j) \/ JobAttempt(j) \/ JobFile(j) \/ JobConflict(j) \/ JobDone(j) \/ JobStop(j)

Next ==
    \/ \E w \in Workers : Recover(w) \/ Close(w) \/ Crash(w) \/ Exit(w)
    \/ \E w \in Workers, k \in Campaigns : StartCampaign(w, k)
    \/ \E w \in Workers, k \in Reproductions : StartReproduction(w, k)
    \/ \E k \in Requests : Work(k) \/ Fault(k)
    \/ \E j \in Jobs : JobStep(j)

Spec == Init /\ [][Next]_vars

\* A started thread is scheduled, a process that ended is started again, a start
\* that began goes on and a closed server exits.  Nothing forces a request, a stop,
\* a fault or a command-line job.
Fairness ==
    /\ \A k \in Requests : WF_vars(Work(k))
    /\ \A w \in Workers : WF_vars(Recover(w)) /\ WF_vars(Exit(w))

FairSpec == Spec /\ Fairness

-----------------------------------------------------------------------------
(* Safety *)

\* A task is being executed: its thread can be inside a solver call.
Executing(k) == thread[k].pc \in {"launched", "plan", "attempt", "filing", "progress"}

\* The process that owns the lock has finished its start.
ServedBy(w) == lock = w /\ proc[w] = "serving"

\* docs/web-ui.md: "One web execution runs at a time per database."  Two managers, a
\* manager restarted while the old process drains, or two requests in one manager
\* never have two tasks between acceptance and the end of their work.
SingleExecution ==
    \A k, l \in Requests :
        (Executing(k) \/ thread[k].pc = "accepted") /\ (Executing(l) \/ thread[l].pc = "accepted")
            => k = l

\* "Duplicate web submissions reconnect without executing again": however often a
\* request is repeated, to whichever process, before or after a restart, at most one
\* thread is ever started for it.
ExecutedOnce == \A k \in Requests : launches[k] <= 1

\* Once a process serves with the lock, a row says "starting" or "running" only for a
\* task of that process: what a stopped process left behind has been marked.
NoGhostTask ==
    \A w \in Workers, k \in Requests :
        ServedBy(w) /\ journal[k].status \in Active
            => thread[k].at = w /\ thread[k].pc \notin {"idle", "gone"}

\* The count of a row is never ahead of the runs saved for the task ("instead of
\* fabricating successful progress") and at most one run behind them, wherever the
\* process stopped and whichever write failed.
ProgressWithinOne ==
    \A k \in Requests :
        journal[k].status # "absent" =>
            journal[k].done <= saved[k] /\ saved[k] <= journal[k].done + 1

\* A saved run of a web campaign that is not listed under its campaign is the newest
\* run of a task; once a process serves with the lock, of a task of that process.
UnfiledRunIsNewest ==
    \A k \in Campaigns : \A n \in 1..saved[k] \ member[k] :
        /\ n = saved[k]
        /\ \A w \in Workers :
              ServedBy(w) => thread[k].at = w /\ thread[k].pc \notin {"idle", "gone"}

\* A reproduction whose end is recorded points at its run exactly when that run was
\* saved, also when the process stopped between the two writes.
ReproductionKeepsResult ==
    \A k \in Reproductions :
        journal[k].status \in Terminal => (journal[k].result <=> saved[k] > 0)

\* The ledger of docs/web-ui.md: a request occupies the slot from its acceptance until
\* its outcome is set in memory, or its process is gone.
Occupying(k) == thread[k].pc \notin {"idle", "gone"} /\ thread[k].status \in Active

LedgerState(row) ==
    IF row.status = "absent" THEN "absent" ELSE IF row.status \in Active THEN "open" ELSE "ended"

LedgerSlot ==
    IF \E k \in Requests : Occupying(k) THEN CHOOSE k \in Requests : Occupying(k) ELSE Nobody

Ledger == INSTANCE TaskLedger WITH
    state    <- [k \in Requests |-> LedgerState(journal[k])],
    attempts <- [k \in Requests |-> saved[k]],
    slot     <- LedgerSlot

\* The processes, threads and crashes implement the ledger: accepted once, executed in
\* the one slot, and never attempted again after the end is recorded.
ImplementsLedger == Ledger!Spec

\* Why the slot is never shared (the inductive core of the proofs): a start in progress
\* owns the lock; a living thread has a living process; a task that occupies the slot is
\* the current one of the process that owns the lock, which close() does not give up
\* before the task has ended, and its row is open; a request without a row never had a
\* thread, and one that recovery has read keeps its row.
SlotCore ==
    /\ \A w \in Workers :
          /\ proc[w] \in {"bound", "repairing", "reading", "marking"} => lock = w
          /\ proc[w] = "down" => lock # w
          /\ \A k \in Requests :
                seen[w][k].status # "absent" => journal[k].status # "absent"
    /\ \A k \in Requests :
          /\ thread[k].pc = "idle" => thread[k].at = Nobody
          /\ thread[k].pc \notin {"idle", "gone"} =>
                thread[k].at \in Workers /\ proc[thread[k].at] \in {"serving", "closed"}
          /\ Occupying(k) =>
                /\ current[thread[k].at] = k
                /\ lock = thread[k].at
                /\ journal[k].status \in Active
          /\ thread[k].pc \in {"accepted", "launched"} => thread[k].status = "starting"
          /\ thread[k].pc \in {"plan", "attempt", "filing", "progress"} =>
                thread[k].status = "running"
          /\ thread[k].pc = "ending" => thread[k].status \in {"completed", "failed"}
          /\ journal[k].status = "absent" => thread[k].pc = "idle"
          /\ thread[k].pc \in {"idle", "accepted"} => launches[k] = 0
          /\ launches[k] <= 1

\* Why recovery loses nothing.  What a thread has in memory lags behind its saved runs
\* by the one it is filing; the row of a task that occupies the slot is what its thread
\* knows, because nobody recovers meanwhile.
ProgressOf(k) ==
    LET t == thread[k]
    IN  /\ t.done <= saved[k] /\ saved[k] <= t.done + 1
        /\ journal[k].done <= saved[k] /\ saved[k] <= journal[k].done + 1
        /\ journal[k].status = "absent" => saved[k] = 0
        /\ t.pc \in {"idle", "accepted", "launched", "plan"} => saved[k] = 0
        /\ t.pc \in {"plan", "filing", "progress"} => k \in Campaigns
        /\ t.pc = "attempt" /\ k \in Campaigns => saved[k] = t.done
        /\ t.pc \in {"filing", "progress"} => saved[k] = t.done + 1
        /\ Occupying(k) => journal[k].done = t.done /\ ~journal[k].result
        /\ k \in Reproductions =>
              /\ saved[k] <= 1
              /\ t.pc = "attempt" => t.done = 0
              /\ t.pc = "ending" => (t.status = "completed" <=> saved[k] > 0)
              /\ journal[k].result => saved[k] > 0
              /\ \A w \in Workers : seen[w][k].result => saved[k] > 0
              /\ journal[k].status \in Terminal => (journal[k].result <=> saved[k] > 0)

\* All runs of a campaign but its newest are filed, and what is saved of it is saved
\* after its definition.
FilingOf(k) ==
    /\ \A n \in 1..saved[k] \ member[k] : n = saved[k]
    /\ saved[k] > 0 => k \in campaigns
    /\ thread[k].pc \in {"attempt", "filing", "progress"} => k \in campaigns
    /\ thread[k].pc \in {"attempt", "progress"} => 1..saved[k] \subseteq member[k]

\* The task belongs to the process, which lives.
TaskOf(w, k) == thread[k].at = w /\ thread[k].pc \notin {"idle", "gone"}

\* A recovery that has begun knows all that is missing, because nothing is saved before
\* it ends; after it, what is open or missing belongs to the process itself.
RecoveryOf(w, k) ==
    /\ k \in Campaigns =>
          /\ proc[w] = "repairing" => 1..saved[k] \ member[k] \subseteq orphans[w][k]
          /\ proc[w] \in {"reading", "marking"} => 1..saved[k] \subseteq member[k]
          /\ ServedBy(w) /\ ~(1..saved[k] \subseteq member[k]) => TaskOf(w, k)
    /\ proc[w] = "marking" /\ seen[w][k].status = "absent" => journal[k].status = "absent"
    /\ ServedBy(w) /\ journal[k].status \in Active => TaskOf(w, k)

RecoveryCore ==
    /\ \A k \in Requests : ProgressOf(k)
    /\ \A k \in Campaigns : FilingOf(k)
    /\ \A w \in Workers, k \in Requests : RecoveryOf(w, k)

SlotInv == TypeOK /\ SlotCore /\ RecoveryCore

-----------------------------------------------------------------------------
(* Liveness, when no write of the journal fails *)

\* Every task that is accepted ends in the journal: by its thread, or by the recovery
\* of a later process.
TasksEnd ==
    \A k \in Requests : journal[k].status \in Active ~> journal[k].status \in Terminal

\* Every run a web campaign saves is listed under its campaign in the end.
RunsAreFiled ==
    \A k \in Campaigns : \A n \in 1..Attempts[k] : saved[k] >= n ~> n \in member[k]

\* The execution slot of a process is not held for ever.
SlotsAreFreed == \A w \in Workers : Busy(w) ~> ~Busy(w)

-----------------------------------------------------------------------------
(* What the code and its documents say and the runs refute *)

\* task_journal.py, reconcile: "Called only while owning the OS worker lock: no other
\* web worker can still be executing."
ReconcilerIsAlone ==
    \A w \in Workers, k \in Requests :
        proc[w] \in {"bound", "repairing", "reading", "marking"}
            => thread[k].pc \in {"idle", "dead", "gone"}

\* docs/releases/v0.8.0-hardening.md: "Matrix or persistence failures terminate the task": once the
\* thread of a task is over, the journal shows the end.
FailuresTerminateTheTask ==
    \A k \in Requests : thread[k].pc = "dead" ~> journal[k].status \in Terminal

=============================================================================
