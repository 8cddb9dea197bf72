--------------------------- MODULE WebTasksProofs ---------------------------
(***************************************************************************)
(* Proofs about WebTasks, for every set of processes, requests and jobs.   *)
(***************************************************************************)
EXTENDS WebTasks, TLAPS

\* Every variable keeps its type.
THEOREM TypeCorrect == Spec => []TypeOK
<1> USE ConstantsAssumption DEF Requests, Owners
<1>1. Init => TypeOK
  BY DEF Init, TypeOK, EmptyJournal, NoOrphans, NoRow, NoThread, Row, Thread, ThreadStep,
         Active, Terminal
<1>2. TypeOK /\ [Next]_vars => TypeOK'
  <2> SUFFICES ASSUME TypeOK, [Next]_vars PROVE TypeOK'
    OBVIOUS
  <2>r. ASSUME NEW rows \in [Requests -> Row] PROVE Reconciled(rows) \in [Requests -> Row]
    BY DEF TypeOK, Reconciled, Row, Active, Terminal
  <2>1. ASSUME NEW w \in Workers, Recover(w) PROVE TypeOK'
    <3>1. CASE BindExecutor(w)
      BY <3>1 DEF TypeOK, BindExecutor, database, recovery, manager
    <3>2. CASE BindObserver(w)
      BY <3>2 DEF TypeOK, BindObserver, database, recovery, manager
    <3>3. CASE ReadOrphans(w)
      <4>1. [o \in Owners |-> Unfiled(o)] \in [Owners -> SUBSET Nat]
        BY DEF TypeOK, Unfiled
      <4> QED BY <3>3, <4>1 DEF TypeOK, ReadOrphans, database, manager
    <3>4. CASE Repair(w)
      <4>1. member' \in [Owners -> SUBSET Nat]
        BY <3>4 DEF TypeOK, Repair
      <4> QED BY <3>4, <4>1, <2>r DEF TypeOK, Repair, NoOrphans, manager
    <3>5. CASE RepairConflict(w)
      BY <3>5 DEF TypeOK, RepairConflict, NoOrphans, database, manager
    <3>6. CASE ReadTasks(w)
      BY <3>6 DEF TypeOK, ReadTasks, database, manager
    <3>7. CASE MarkTasks(w)
      <4>1. EmptyJournal \in [Requests -> Row]
        BY DEF EmptyJournal, NoRow, Row
      <4> QED BY <3>7, <4>1, <2>r DEF TypeOK, MarkTasks, manager
    <3> QED BY <2>1, <3>1, <3>2, <3>3, <3>4, <3>5, <3>6, <3>7 DEF Recover
  <2>2. ASSUME NEW w \in Workers, Close(w) PROVE TypeOK'
    BY <2>2 DEF TypeOK, Close, database, recovery, manager
  <2>3. ASSUME NEW w \in Workers, Crash(w) \/ Exit(w) PROVE TypeOK'
    <3>1. Vanish(w) /\ stops' \in Nat
      BY <2>3 DEF Crash, Exit, TypeOK
    <3>2. EmptyJournal \in [Requests -> Row] /\ NoOrphans \in [Owners -> SUBSET Nat]
      BY DEF EmptyJournal, NoRow, Row, NoOrphans
    <3>3. thread' \in [Requests -> Thread]
      <4> SUFFICES ASSUME NEW k \in Requests
                   PROVE  (IF thread[k].at = w THEN [thread[k] EXCEPT !.pc = "gone"]
                                               ELSE thread[k]) \in Thread
        BY <3>1 DEF Vanish
      <4>1. thread[k] \in Thread
        BY DEF TypeOK
      <4> QED BY <4>1 DEF Thread, ThreadStep
    <3> QED BY <3>1, <3>2, <3>3 DEF TypeOK, Vanish, database
  <2>4. ASSUME NEW w \in Workers, NEW k \in Requests, Accept(w, k) PROVE TypeOK'
    <3>1. thread' \in [Requests -> Thread]
      BY <2>4 DEF Accept, TypeOK, Thread, ThreadStep
    <3>2. journal' \in [Requests -> Row]
      BY <2>4 DEF Accept, TypeOK, RowOf, Row, Active
    <3> QED BY <2>4, <3>1, <3>2 DEF TypeOK, Accept, recovery
  <2>5. ASSUME NEW k \in Requests, Work(k) \/ Fault(k) PROVE TypeOK'
    <3>s. ASSUME NEW pc \in ThreadStep, NEW done \in Nat,
                 NEW status \in {"starting", "running", "completed", "failed"},
                 Step(k, pc, status, done)
          PROVE  /\ thread' \in [Requests -> Thread]
                 /\ RowOf(thread'[k]) \in Row
      <4>1. thread[k] \in Thread
        BY DEF TypeOK
      <4>2. thread' = [thread EXCEPT ![k] =
                         [pc |-> pc, at |-> thread[k].at, status |-> status, done |-> done]]
        BY <3>s, <4>1 DEF Step, Thread
      <4>3. [pc |-> pc, at |-> thread[k].at, status |-> status, done |-> done] \in Thread
        BY <4>1 DEF Thread
      <4>4. thread' \in [Requests -> Thread]
        BY <4>2, <4>3 DEF TypeOK
      <4>5. RowOf(thread'[k]) = [status |-> status, done |-> done, result |-> status = "completed"]
        BY <4>2 DEF RowOf, TypeOK
      <4>6. (status = "completed") \in BOOLEAN
        OBVIOUS
      <4> QED BY <4>4, <4>5, <4>6 DEF Row, Active, Terminal
    <3>d. thread[k] \in Thread /\ thread[k].done \in Nat
      BY DEF TypeOK, Thread
    <3>1. CASE Launch(k)
      <4>1. thread[k].at \in Workers \cup {Nobody} /\ thread' \in [Requests -> Thread]
        BY <3>1, <3>d DEF Launch, TypeOK, Thread, ThreadStep
      <4>2. latest' \in [Workers -> Requests \cup {Nobody}]
        BY <3>1 DEF Launch, TypeOK
      <4>3. launches' \in [Requests -> Nat]
        BY <3>1 DEF Launch, TypeOK
      <4> QED BY <3>1, <4>1, <4>2, <4>3 DEF Launch, TypeOK, database, recovery
    <3>2. CASE Begin(k)
      <4>1. thread' \in [Requests -> Thread] /\ RowOf(thread'[k]) \in Row
        BY <3>2, <3>s, <3>d DEF Begin, ThreadStep
      <4> QED BY <3>2, <4>1 DEF Begin, SaveRow, TypeOK, outsideThread, recovery
    <3>3. CASE k \in Campaigns /\ SaveCampaign(k)
      <4>1. thread' \in [Requests -> Thread]
        BY <3>3, <3>s, <3>d DEF SaveCampaign, ThreadStep
      <4>2. k \in Campaigns
        BY <3>3
      <4> QED BY <3>3, <4>1, <4>2 DEF SaveCampaign, TypeOK, outsideThread, recovery
    <3>4. CASE Attempt(k)
      <4>1. thread' \in [Requests -> Thread]
        BY <3>4, <3>s, <3>d DEF Attempt, ThreadStep
      <4>2. saved' \in [Owners -> Nat]
        BY <3>4 DEF Attempt, TypeOK
      <4> QED BY <3>4, <4>1, <4>2 DEF Attempt, TypeOK, outsideThread, recovery
    <3>5. CASE k \in Campaigns /\ FileRun(k)
      <4>1. thread' \in [Requests -> Thread]
        BY <3>5, <3>s, <3>d DEF FileRun, ThreadStep
      <4>2. member' \in [Owners -> SUBSET Nat]
        BY <3>5 DEF FileRun, TypeOK
      <4> QED BY <3>5, <4>1, <4>2 DEF FileRun, TypeOK, outsideThread, recovery
    <3>6. CASE k \in Campaigns /\ SaveProgress(k)
      <4>0. saved[k] \in Nat
        BY DEF TypeOK
      <4>1. thread' \in [Requests -> Thread] /\ RowOf(thread'[k]) \in Row
        BY <3>6, <3>s, <4>0 DEF SaveProgress, ThreadStep
      <4> QED BY <3>6, <4>1 DEF SaveProgress, SaveRow, TypeOK, outsideThread, recovery
    <3>7. CASE Complete(k)
      <4>0. saved[k] \in Nat
        BY DEF TypeOK
      <4>1. thread' \in [Requests -> Thread]
        BY <3>7, <3>s, <4>0 DEF Complete, ThreadStep
      <4> QED BY <3>7, <4>1 DEF Complete, TypeOK, outsideThread, recovery, database
    <3>8. CASE Fail(k)
      <4>0. saved[k] \in Nat
        BY DEF TypeOK
      <4>1. thread' \in [Requests -> Thread]
        BY <3>8, <3>s, <3>d, <4>0 DEF Fail, ThreadStep
      <4> QED BY <3>8, <4>1 DEF Fail, TypeOK, outsideThread, recovery, database
    <3>9. CASE SaveOutcome(k)
      <4>1. thread[k].status \in {"absent", "starting", "running", "completed", "failed"}
        BY <3>d DEF Thread
      <4>2. thread' \in [Requests -> Thread]
        BY <3>9, <3>d, <4>1 DEF SaveOutcome, Step, TypeOK, Thread, ThreadStep
      <4>3. RowOf(thread'[k]) \in Row
        BY <3>9, <3>d, <4>1, <4>2 DEF SaveOutcome, Step, RowOf, Row, Thread, Active, Terminal
      <4> QED BY <3>9, <4>2, <4>3 DEF SaveOutcome, SaveRow, TypeOK, outsideThread, recovery
    <3>10. CASE BeginFault(k) \/ OutcomeFault(k)
      <4>1. thread' \in [Requests -> Thread]
        <5>1. CASE BeginFault(k)
          BY <5>1, <3>s, <3>d DEF BeginFault, ThreadStep
        <5>2. CASE OutcomeFault(k)
          <6>1. thread[k].status \in {"absent", "starting", "running", "completed", "failed"}
            BY <3>d DEF Thread
          <6> QED BY <5>2, <6>1, <3>d DEF OutcomeFault, Step, TypeOK, Thread, ThreadStep
        <5> QED BY <3>10, <5>1, <5>2
      <4> QED BY <3>10, <4>1 DEF BeginFault, OutcomeFault, TypeOK, outsideThread, recovery, database
    <3> QED BY <2>5, <3>1, <3>2, <3>3, <3>4, <3>5, <3>6, <3>7, <3>8, <3>9, <3>10 DEF Work, Fault
  <2>6. ASSUME NEW j \in Jobs, JobStep(j) PROVE TypeOK'
    <3>1. Target[j] \in Campaigns
      OBVIOUS
    <3>2. journal' \in [Requests -> Row] /\ lock' = lock /\ proc' = proc /\ recovery' = recovery
          /\ manager' = manager /\ stops' = stops
      BY <2>6 DEF JobStep, JobStart, JobAttempt, JobFile, JobConflict, JobDone, JobStop, TypeOK,
                  outsideJob
    <3>3. campaigns' \subseteq Campaigns
      BY <2>6, <3>1 DEF JobStep, JobStart, JobAttempt, JobFile, JobConflict, JobDone, JobStop, TypeOK
    <3>4. saved' \in [Owners -> Nat]
      BY <2>6 DEF JobStep, JobStart, JobAttempt, JobFile, JobConflict, JobDone, JobStop, TypeOK
    <3>5. member' \in [Owners -> SUBSET Nat]
      <4>1. CASE JobFile(j)
        BY <4>1 DEF JobFile, TypeOK
      <4>2. CASE ~JobFile(j)
        BY <2>6, <4>2 DEF JobStep, JobStart, JobAttempt, JobConflict, JobDone, JobStop, TypeOK
      <4> QED BY <4>1, <4>2
    <3>6. job' \in [Jobs -> {"idle", "attempt", "filing", "done", "conflict", "stopped"}]
      BY <2>6 DEF JobStep, JobStart, JobAttempt, JobFile, JobConflict, JobDone, JobStop, TypeOK
    <3> QED BY <3>2, <3>3, <3>4, <3>5, <3>6 DEF TypeOK, recovery, manager
  <2>7. CASE UNCHANGED vars
    BY <2>7 DEF TypeOK, vars, database, recovery, manager
  <2> QED
    BY <2>1, <2>2, <2>3, <2>4, <2>5, <2>6, <2>7 DEF Next, StartCampaign, StartReproduction
<1> QED BY <1>1, <1>2, PTL DEF Spec

-----------------------------------------------------------------------------
(* The slot *)

\* A step of a living thread keeps the invariant: it stays with its process, it never
\* becomes active again and it writes no row but its own.
LEMMA ThreadMoves ==
    ASSUME TypeOK, SlotCore,
           NEW k \in Requests, NEW task \in Thread,
           thread[k].pc \notin {"idle", "gone"},
           thread' = [thread EXCEPT ![k] = task],
           task.at = thread[k].at,
           task.pc \notin {"idle", "gone", "accepted"},
           task.status \in Active => thread[k].status \in Active,
           task.pc = "launched" => task.status = "starting",
           task.pc \in {"plan", "attempt", "filing", "progress"} => task.status = "running",
           task.pc = "ending" => task.status \in {"completed", "failed"},
           \/ journal' = journal
           \/ task.status # "absent" /\ journal' = [journal EXCEPT ![k] = RowOf(task)],
           UNCHANGED <<lock, proc, seen, current>>,
           \/ launches' = launches
           \/ thread[k].pc = "accepted" /\ launches' = [launches EXCEPT ![k] = @ + 1]
    PROVE  SlotCore'
<1>1. /\ thread'[k] = task
      /\ \A l \in Requests \ {k} : thread'[l] = thread[l] /\ journal'[l] = journal[l]
                                   /\ launches'[l] = launches[l]
  BY DEF TypeOK
<1>2. /\ journal'[k].status = "absent" => journal[k].status = "absent"
      /\ journal'[k].status = journal[k].status \/ journal'[k].status = task.status
  BY DEF TypeOK, RowOf
<1>3. ASSUME NEW w \in Workers
      PROVE  /\ proc'[w] \in {"bound", "repairing", "reading", "marking"} => lock' = w
             /\ proc'[w] = "down" => lock' # w
             /\ \A l \in Requests :
                   seen'[w][l].status # "absent" => journal'[l].status # "absent"
  BY <1>1, <1>2 DEF SlotCore
<1>4. ASSUME NEW l \in Requests
      PROVE  /\ thread'[l].pc = "idle" => thread'[l].at = Nobody
             /\ thread'[l].pc \notin {"idle", "gone"} =>
                   thread'[l].at \in Workers /\ proc'[thread'[l].at] \in {"serving", "closed"}
             /\ Occupying(l)' =>
                   /\ current'[thread'[l].at] = l
                   /\ lock' = thread'[l].at
                   /\ journal'[l].status \in Active
             /\ thread'[l].pc \in {"accepted", "launched"} => thread'[l].status = "starting"
             /\ thread'[l].pc \in {"plan", "attempt", "filing", "progress"} =>
                   thread'[l].status = "running"
             /\ thread'[l].pc = "ending" => thread'[l].status \in {"completed", "failed"}
             /\ journal'[l].status = "absent" => thread'[l].pc = "idle"
             /\ thread'[l].pc \in {"idle", "accepted"} => launches'[l] = 0
             /\ launches'[l] <= 1
  <2>1. CASE l = k
    <3>1. launches'[k] <= 1
      BY DEF SlotCore, TypeOK
    <3>2. Occupying(k)' => Occupying(k)
      BY <1>1 DEF Occupying
    <3>3. Occupying(k)' => task.status \in Active
      BY <1>1 DEF Occupying
    <3> QED BY <2>1, <1>1, <1>2, <3>1, <3>2, <3>3 DEF SlotCore
  <2>2. CASE l # k
    <3>1. Occupying(l)' <=> Occupying(l)
      BY <2>2, <1>1 DEF Occupying
    <3> QED BY <2>2, <1>1, <3>1 DEF SlotCore
  <2> QED BY <2>1, <2>2
<1> QED BY <1>3, <1>4 DEF SlotCore

\* The slot's invariant holds of every behaviour.
THEOREM SlotCorrect == Spec => []SlotCore
<1> USE ConstantsAssumption DEF Requests, Owners
<1>1. Init => SlotCore
  BY DEF Init, SlotCore, EmptyJournal, NoRow, NoThread, Occupying
<1>2. TypeOK /\ SlotCore /\ [Next]_vars => SlotCore'
  <2> SUFFICES ASSUME TypeOK, SlotCore, [Next]_vars PROVE SlotCore'
    OBVIOUS
  <2>c. ASSUME NEW rows \in [Requests -> Row], NEW k \in Requests
        PROVE  /\ Reconciled(rows)[k].status = "absent" => journal[k].status = "absent"
               /\ Reconciled(rows)[k].status # "absent" \/ rows[k].status = "absent"
    BY DEF Reconciled
  <2>n. ASSUME NEW w \in Workers, proc[w] \notin {"serving", "closed"}, NEW k \in Requests,
               lock \in {w, Nobody}
        PROVE  ~Occupying(k)
    BY <2>n DEF SlotCore, Occupying
  <2>1. ASSUME NEW w \in Workers, Recover(w) PROVE SlotCore'
    <3>1. CASE BindExecutor(w)
      <4>1. \A k \in Requests : ~Occupying(k)
        BY <3>1, <2>n DEF BindExecutor
      <4>2. \A k \in Requests : Occupying(k)' <=> Occupying(k)
        BY <3>1 DEF BindExecutor, manager, Occupying
      <4>3. UNCHANGED <<journal, seen, current, thread, launches>>
        BY <3>1 DEF BindExecutor, database, recovery, manager
      <4>4. lock' = w /\ lock = Nobody /\ proc' = [proc EXCEPT ![w] = "bound"] /\ proc[w] = "down"
        BY <3>1 DEF BindExecutor
      <4> QED BY <4>1, <4>2, <4>3, <4>4 DEF SlotCore, TypeOK
    <3>2. CASE BindObserver(w)
      <4>1. \A k \in Requests : Occupying(k)' <=> Occupying(k)
        BY <3>2 DEF BindObserver, manager, Occupying
      <4> QED BY <3>2, <4>1 DEF SlotCore, TypeOK, BindObserver, database, recovery, manager
    <3>3. CASE ReadOrphans(w)
      <4>1. \A k \in Requests : Occupying(k)' <=> Occupying(k)
        BY <3>3 DEF ReadOrphans, manager, Occupying
      <4> QED BY <3>3, <4>1 DEF SlotCore, TypeOK, ReadOrphans, database, manager
    <3>4. CASE Repair(w)
      <4>1. \A k \in Requests : ~Occupying(k)
        BY <3>4, <2>n DEF Repair, SlotCore
      <4>2. \A k \in Requests : Occupying(k)' <=> Occupying(k)
        BY <3>4 DEF Repair, manager, Occupying
      <4>3. \A k \in Requests : journal'[k].status = "absent" => journal[k].status = "absent"
        BY <3>4, <2>c DEF Repair, TypeOK
      <4>4. UNCHANGED <<lock, seen, current, thread, launches>>
        BY <3>4 DEF Repair, manager
      <4>5. proc' = [proc EXCEPT ![w] = "serving"] /\ proc[w] = "repairing"
        BY <3>4 DEF Repair
      <4>6. \A v \in Workers \ {w} : proc'[v] = proc[v]
        BY <4>5 DEF TypeOK
      <4>7. proc'[w] = "serving" /\ lock' = w /\ \A k \in Requests : ~Occupying(k)'
        BY <4>1, <4>2, <4>4, <4>5 DEF SlotCore, TypeOK
      <4> QED BY <4>3, <4>4, <4>6, <4>7 DEF SlotCore
    <3>5. CASE RepairConflict(w)
      <4>1. \A k \in Requests : ~Occupying(k)
        BY <3>5, <2>n DEF RepairConflict, SlotCore
      <4>2. \A k \in Requests : Occupying(k)' <=> Occupying(k)
        BY <3>5 DEF RepairConflict, manager, Occupying
      <4>3. UNCHANGED <<journal, seen, current, thread, launches>>
        BY <3>5 DEF RepairConflict, database, manager
      <4>4. lock' = Nobody /\ lock = w /\ proc' = [proc EXCEPT ![w] = "down"]
            /\ proc[w] = "repairing"
        BY <3>5 DEF RepairConflict, SlotCore
      <4> QED BY <4>1, <4>2, <4>3, <4>4 DEF SlotCore, TypeOK
    <3>6. CASE ReadTasks(w)
      <4>1. \A k \in Requests : Occupying(k)' <=> Occupying(k)
        BY <3>6 DEF ReadTasks, manager, Occupying
      <4> QED BY <3>6, <4>1 DEF SlotCore, TypeOK, ReadTasks, database, manager
    <3>7. CASE MarkTasks(w)
      <4>1. \A k \in Requests : ~Occupying(k)
        BY <3>7, <2>n DEF MarkTasks, SlotCore
      <4>2. \A k \in Requests : Occupying(k)' <=> Occupying(k)
        BY <3>7 DEF MarkTasks, manager, Occupying
      <4>3. \A k \in Requests : journal'[k].status = "absent" => journal[k].status = "absent"
        BY <3>7, <2>c DEF MarkTasks, TypeOK
      <4>4. UNCHANGED <<lock, current, thread, launches>>
        BY <3>7 DEF MarkTasks, manager
      <4>5. proc' = [proc EXCEPT ![w] = "serving"] /\ proc[w] = "marking"
            /\ seen' = [seen EXCEPT ![w] = EmptyJournal]
        BY <3>7 DEF MarkTasks
      <4> QED BY <4>1, <4>2, <4>3, <4>4, <4>5 DEF SlotCore, TypeOK, EmptyJournal, NoRow
    <3> QED BY <2>1, <3>1, <3>2, <3>3, <3>4, <3>5, <3>6, <3>7 DEF Recover
  <2>2. ASSUME NEW w \in Workers, Close(w) PROVE SlotCore'
    <3>1. \A k \in Requests : Occupying(k)' <=> Occupying(k)
      BY <2>2 DEF Close, manager, Occupying
    <3>2. ASSUME NEW k \in Requests, Occupying(k) PROVE lock' = lock
      BY <2>2, <3>2 DEF Close, Busy, Occupying, SlotCore
    <3>3. UNCHANGED <<journal, seen, current, thread, launches>>
      BY <2>2 DEF Close, database, recovery, manager
    <3>4. proc' = [proc EXCEPT ![w] = "closed"] /\ proc[w] = "serving"
          /\ (lock' = lock \/ (lock = w /\ lock' = Nobody))
      BY <2>2 DEF Close
    <3> QED BY <3>1, <3>2, <3>3, <3>4 DEF SlotCore, TypeOK
  <2>3. ASSUME NEW w \in Workers, Crash(w) \/ Exit(w) PROVE SlotCore'
    <3>0. Vanish(w) /\ UNCHANGED <<journal, launches>>
      BY <2>3 DEF Crash, Exit, Vanish, database
    <3>1. \A k \in Requests :
            /\ thread'[k].status = thread[k].status /\ thread'[k].at = thread[k].at
            /\ thread[k].at = w => thread'[k].pc = "gone"
            /\ thread[k].at # w => thread'[k].pc = thread[k].pc
      BY <3>0 DEF Vanish, TypeOK, Thread
    <3>2. \A k \in Requests : Occupying(k)' => Occupying(k) /\ thread[k].at # w
      BY <3>1 DEF Occupying
    <3>3. /\ proc' = [proc EXCEPT ![w] = "down"]
          /\ lock' = IF lock = w THEN Nobody ELSE lock
          /\ seen' = [seen EXCEPT ![w] = EmptyJournal]
          /\ current' = [current EXCEPT ![w] = Nobody]
      BY <3>0 DEF Vanish
    <3>4. /\ proc'[w] = "down" /\ lock' # w
          /\ \A k \in Requests : seen'[w][k].status = "absent"
          /\ \A v \in Workers \ {w} : /\ proc'[v] = proc[v] /\ current'[v] = current[v]
                                      /\ seen'[v] = seen[v] /\ (lock' = v <=> lock = v)
      BY <3>3 DEF TypeOK, EmptyJournal, NoRow
    <3>5. \A k \in Requests : Occupying(k)' => thread[k].at \in Workers \ {w}
      BY <3>2 DEF SlotCore, Occupying
    <3> QED BY <3>0, <3>1, <3>2, <3>4, <3>5 DEF SlotCore
  <2>4. ASSUME NEW w \in Workers, NEW k \in Requests, Accept(w, k) PROVE SlotCore'
    <3>1. /\ thread' = [thread EXCEPT ![k] = [pc |-> "accepted", at |-> w,
                                              status |-> "starting", done |-> 0]]
          /\ journal' = [journal EXCEPT ![k] = RowOf(thread'[k])]
          /\ current' = [current EXCEPT ![w] = k]
          /\ lock = w /\ proc[w] = "serving" /\ ~Busy(w) /\ journal[k].status = "absent"
          /\ UNCHANGED <<lock, proc, seen, launches>>
      BY <2>4 DEF Accept, recovery
    <3>2. \A l \in Requests : ~Occupying(l)
      BY <3>1 DEF Busy, Occupying, SlotCore
    <3>3. thread[k].pc = "idle" /\ launches[k] = 0
      BY <3>1 DEF SlotCore
    <3>4. /\ thread'[k] = [pc |-> "accepted", at |-> w, status |-> "starting", done |-> 0]
          /\ journal'[k].status = "starting"
          /\ current'[w] = k
      BY <3>1 DEF TypeOK, RowOf
    <3>5. \A l \in Requests \ {k} : thread'[l] = thread[l] /\ journal'[l] = journal[l]
                                    /\ ~Occupying(l)'
      BY <3>1, <3>2 DEF TypeOK, Occupying
    <3> QED BY <3>1, <3>3, <3>4, <3>5 DEF SlotCore, TypeOK, Active
  <2>5. ASSUME NEW k \in Requests, Work(k) \/ Fault(k) PROVE SlotCore'
    <3>d. thread[k] \in Thread /\ saved[k] \in Nat
      BY DEF TypeOK
    <3>s. ASSUME NEW pc \in ThreadStep \ {"idle", "gone", "accepted", "launched"},
                 NEW done \in Nat, NEW status \in {"starting", "running", "completed", "failed"},
                 thread[k].pc \notin {"idle", "gone"},
                 Step(k, pc, status, done),
                 status \in Active => thread[k].status \in Active,
                 pc \in {"plan", "attempt", "filing", "progress"} => status = "running",
                 pc = "ending" => status \in {"completed", "failed"},
                 journal' = journal \/ SaveRow(k),
                 UNCHANGED outsideThread
          PROVE  SlotCore'
      <4> DEFINE task == [pc |-> pc, at |-> thread[k].at, status |-> status, done |-> done]
      <4>1. task \in Thread
        BY <3>d DEF Thread
      <4>2. thread' = [thread EXCEPT ![k] = task]
        BY <3>s, <3>d DEF Step, Thread
      <4>3. SaveRow(k) => journal' = [journal EXCEPT ![k] = RowOf(task)]
        BY <4>2 DEF SaveRow, TypeOK
      <4>4. UNCHANGED <<lock, proc, seen, current, launches>>
        BY <3>s DEF outsideThread, recovery
      <4>5. /\ task.pc = pc /\ task.at = thread[k].at /\ task.status = status
        OBVIOUS
      <4> HIDE DEF task
      <4> QED BY <3>s, <4>1, <4>2, <4>3, <4>4, <4>5, ThreadMoves
    <3>1. CASE Launch(k)
      <4> DEFINE task == [thread[k] EXCEPT !.pc = "launched"]
      <4>1. task \in Thread /\ task.pc = "launched" /\ task.at = thread[k].at
            /\ task.status = thread[k].status
        BY <3>d DEF Thread, ThreadStep
      <4>2. thread' = [thread EXCEPT ![k] = task]
        BY <3>1 DEF Launch
      <4>3. thread[k].pc = "accepted" /\ thread[k].status = "starting"
        BY <3>1 DEF Launch, SlotCore
      <4>4. launches' = [launches EXCEPT ![k] = @ + 1]
            /\ UNCHANGED <<journal, lock, proc, seen, current>>
        BY <3>1 DEF Launch, database, recovery
      <4> HIDE DEF task
      <4> QED BY <4>1, <4>2, <4>3, <4>4, ThreadMoves
    <3>p. thread[k].pc \in {"launched", "plan", "attempt", "filing", "progress"} =>
             thread[k].status \in Active /\ thread[k].done \in Nat
      BY <3>d DEF SlotCore, Active, Thread
    <3>2. CASE Begin(k) \/ BeginFault(k)
      BY <3>2, <3>s, <3>p DEF Begin, BeginFault, ThreadStep, database
    <3>3. CASE SaveCampaign(k)
      BY <3>3, <3>s, <3>p DEF SaveCampaign, ThreadStep
    <3>4. CASE Attempt(k)
      BY <3>4, <3>s, <3>p DEF Attempt, ThreadStep
    <3>5. CASE FileRun(k)
      BY <3>5, <3>s, <3>p DEF FileRun, ThreadStep
    <3>6. CASE SaveProgress(k)
      BY <3>6, <3>s, <3>p, <3>d DEF SaveProgress, ThreadStep
    <3>7. CASE Complete(k)
      BY <3>7, <3>s, <3>d DEF Complete, ThreadStep, database, Active
    <3>8. CASE Fail(k)
      BY <3>8, <3>s, <3>d, <3>p DEF Fail, ThreadStep, database, Active
    <3>9. CASE SaveOutcome(k) \/ OutcomeFault(k)
      <4>1. thread[k].pc = "ending" /\ thread[k].status \in {"completed", "failed"}
            /\ thread[k].done \in Nat
        BY <3>9, <3>d DEF SaveOutcome, OutcomeFault, SlotCore, Thread
      <4> QED BY <3>9, <4>1, <3>s DEF SaveOutcome, OutcomeFault, ThreadStep, database, Active
    <3> QED BY <2>5, <3>1, <3>2, <3>3, <3>4, <3>5, <3>6, <3>7, <3>8, <3>9 DEF Work, Fault
  <2>6. ASSUME NEW j \in Jobs, JobStep(j) PROVE SlotCore'
    <3>1. UNCHANGED <<journal, lock, proc, recovery, manager>>
      BY <2>6 DEF JobStep, JobStart, JobAttempt, JobFile, JobConflict, JobDone, JobStop, outsideJob
    <3>2. \A k \in Requests : Occupying(k)' <=> Occupying(k)
      BY <3>1 DEF manager, Occupying
    <3> QED BY <3>1, <3>2 DEF SlotCore, recovery, manager
  <2>7. CASE UNCHANGED vars
    <3>1. \A k \in Requests : Occupying(k)' <=> Occupying(k)
      BY <2>7 DEF vars, manager, Occupying
    <3> QED BY <2>7, <3>1 DEF SlotCore, vars, database, recovery, manager
  <2> QED
    BY <2>1, <2>2, <2>3, <2>4, <2>5, <2>6, <2>7 DEF Next, StartCampaign, StartReproduction
<1> QED BY <1>1, <1>2, TypeCorrect, PTL DEF Spec

-----------------------------------------------------------------------------
(* Recovery *)

\* A request whose row, runs and thread a step leaves alone, except that the thread may
\* go with its process, keeps what is known of its progress.
LEMMA SameProgress ==
    ASSUME TypeOK, NEW k \in Requests, ProgressOf(k),
           thread'[k].done = thread[k].done, thread'[k].status = thread[k].status,
           thread'[k].pc \in {thread[k].pc, "gone"},
           saved'[k] = saved[k], journal'[k] = journal[k],
           \A w \in Workers : seen'[w][k] \in {seen[w][k], journal[k], NoRow}
    PROVE  ProgressOf(k)'
<1>1. Occupying(k)' => Occupying(k)
  BY DEF Occupying
<1>2. ~NoRow.result
  BY DEF NoRow
<1> QED
  BY <1>1, <1>2 DEF ProgressOf, TypeOK

\* Reconciling a row from what was read of it, while its task does not run.
LEMMA ReconciledProgress ==
    ASSUME TypeOK, NEW k \in Requests, ProgressOf(k), ~Occupying(k),
           NEW w \in Workers, NEW rows \in [Requests -> Row],
           rows[k] \in {journal[k], seen[w][k]},
           journal'[k] = Reconciled(rows)[k],
           thread' = thread, saved'[k] = saved[k],
           \A v \in Workers : seen'[v][k] \in {seen[v][k], NoRow}
    PROVE  ProgressOf(k)'
<1>1. ~Occupying(k)' /\ ~NoRow.result
  BY DEF Occupying, NoRow
<1>2. CASE rows[k].status = "absent"
  <2>1. journal'[k] = journal[k]
    BY <1>2 DEF Reconciled
  <2> QED
    BY <1>1, <2>1 DEF ProgressOf, TypeOK
<1>3. CASE rows[k].status # "absent"
  <2>1. /\ journal'[k].status \in Terminal /\ journal'[k].status # "absent"
        /\ journal'[k].done = saved[k]
        /\ journal'[k].result <=> (rows[k].result \/ (k \in Reproductions /\ saved[k] > 0))
    <3>1. journal'[k] = [status |-> IF rows[k].status \in Active THEN "interrupted"
                                    ELSE rows[k].status,
                         done   |-> saved[k],
                         result |-> rows[k].result \/ (k \in Reproductions /\ saved[k] > 0)]
      BY <1>3 DEF Reconciled
    <3>2. rows[k].status \in Active \cup Terminal
      BY <1>3 DEF Row
    <3>3. journal'[k].status \in Terminal /\ journal'[k].done = saved[k]
      BY <3>1, <3>2 DEF Active, Terminal
    <3>4. journal'[k].result = (rows[k].result \/ (k \in Reproductions /\ saved[k] > 0))
      BY <3>1
    <3> QED
      BY <3>3, <3>4 DEF Terminal
  <2>2. k \in Reproductions /\ rows[k].result => saved[k] > 0
    BY DEF ProgressOf
  <2>3. saved[k] \in Nat
    BY DEF TypeOK, Owners
  <2> QED
    BY <1>1, <2>1, <2>2, <2>3 DEF ProgressOf
<1> QED
  BY <1>2, <1>3

\* What a step of the thread of a request does to that request.
LEMMA OwnProgress ==
    ASSUME TypeOK, SlotCore, NEW k \in Requests, ProgressOf(k), Work(k) \/ Fault(k)
    PROVE  ProgressOf(k)'
<1> USE ConstantsAssumption DEF Requests, Owners
<1>d. thread[k] \in Thread /\ saved[k] \in Nat /\ journal[k] \in Row
  BY DEF TypeOK
<1>e. /\ thread[k].done \in Nat /\ journal[k].done \in Nat /\ journal[k].result \in BOOLEAN
      /\ "absent" \notin Active /\ "absent" \notin Terminal
      /\ "completed" \notin Active /\ "failed" \notin Active
      /\ "starting" \in Active /\ "running" \in Active
      /\ "starting" \notin Terminal /\ "running" \notin Terminal
  BY <1>d DEF Thread, Row, Active, Terminal
<1>q. Quota(k) \in Nat /\ (k \in Reproductions => k \notin Campaigns /\ Quota(k) = 1)
  BY DEF Quota
\* The step as the new values of the row, the runs and the thread.
<1>s. ASSUME NEW pc, NEW status, NEW done, Step(k, pc, status, done)
      PROVE  /\ thread'[k].pc = pc /\ thread'[k].status = status /\ thread'[k].done = done
             /\ thread'[k].at = thread[k].at
             /\ SaveRow(k) => /\ journal'[k].status = status /\ journal'[k].done = done
                              /\ journal'[k].result <=> status = "completed"
  <2>1. thread'[k] = [pc |-> pc, at |-> thread[k].at, status |-> status, done |-> done]
    BY <1>s DEF Step, TypeOK
  <2>2. SaveRow(k) => journal'[k] = RowOf(thread'[k])
    BY DEF SaveRow, TypeOK
  <2>3. RowOf(thread'[k]) = [status |-> status, done |-> done, result |-> status = "completed"]
    BY <2>1 DEF RowOf
  <2>4. SaveRow(k) => journal'[k].status = status /\ journal'[k].done = done
    BY <2>2, <2>3
  <2>5. SaveRow(k) => journal'[k].result = (status = "completed")
    BY <2>2, <2>3
  <2>6. SaveRow(k) => (journal'[k].result <=> status = "completed")
    BY <2>5, Zenon
  <2> QED
    BY <2>1, <2>4, <2>6
<1>o. thread[k].pc \in {"accepted", "launched", "plan", "attempt", "filing", "progress"} => Occupying(k)
  BY <1>e DEF SlotCore, Occupying
<1>1. CASE Launch(k)
  <2>1. /\ thread'[k].pc = "launched" /\ thread'[k].status = thread[k].status
        /\ thread'[k].done = thread[k].done /\ thread[k].pc = "accepted"
    BY <1>1, <1>d DEF Launch, TypeOK, Thread
  <2>2. UNCHANGED <<journal, saved, seen>>
    BY <1>1 DEF Launch, database, recovery
  <2> QED
    BY <1>d, <1>e, <1>o, <2>1, <2>2 DEF ProgressOf, Occupying
<1>2. CASE Begin(k)
  <2>1. /\ thread[k].pc = "launched" /\ UNCHANGED <<saved, seen>> /\ SaveRow(k)
        /\ Step(k, IF k \in Campaigns THEN "plan" ELSE "attempt", "running", thread[k].done)
    BY <1>2 DEF Begin, outsideThread, recovery
  <2>2. /\ thread'[k].pc = IF k \in Campaigns THEN "plan" ELSE "attempt"
        /\ thread'[k].status = "running" /\ thread'[k].done = thread[k].done
        /\ journal'[k].status = "running" /\ journal'[k].done = thread[k].done /\ ~journal'[k].result
    BY <1>s, <2>1
  <2>3. saved[k] = 0 /\ thread[k].done = 0
    BY <1>d, <1>e, <2>1 DEF ProgressOf
  <2> QED
    BY <1>d, <1>e, <1>q, <2>1, <2>2, <2>3 DEF ProgressOf
<1>3. CASE BeginFault(k)
  <2>1. /\ thread[k].pc = "launched" /\ UNCHANGED <<journal, saved, seen>>
        /\ Step(k, "dead", "running", thread[k].done)
    BY <1>3 DEF BeginFault, outsideThread, recovery, database
  <2>2. thread'[k].pc = "dead" /\ thread'[k].status = "running" /\ thread'[k].done = thread[k].done
    BY <1>s, <2>1
  <2> QED
    BY <1>d, <1>e, <1>o, <2>1, <2>2 DEF ProgressOf, Occupying
<1>4. CASE k \in Campaigns /\ SaveCampaign(k)
  <2>1. /\ thread[k].pc = "plan" /\ UNCHANGED <<journal, saved, seen>>
        /\ Step(k, "attempt", "running", thread[k].done)
    BY <1>4 DEF SaveCampaign, outsideThread, recovery
  <2>2. thread'[k].pc = "attempt" /\ thread'[k].status = "running" /\ thread'[k].done = thread[k].done
    BY <1>s, <2>1
  <2>3. saved[k] = 0 /\ thread[k].done = 0
    BY <1>d, <1>e, <2>1 DEF ProgressOf
  <2> QED
    BY <1>d, <1>e, <1>o, <1>q, <1>4, <2>1, <2>2, <2>3 DEF ProgressOf, Occupying
<1>5. CASE Attempt(k)
  <2>1. /\ thread[k].pc = "attempt" /\ UNCHANGED <<journal, seen>>
        /\ saved'[k] = saved[k] + 1 /\ saved[k] < Quota(k)
        /\ Step(k, IF k \in Campaigns THEN "filing" ELSE "attempt", "running", thread[k].done)
    BY <1>5 DEF Attempt, outsideThread, recovery, TypeOK
  <2>2. /\ thread'[k].pc = IF k \in Campaigns THEN "filing" ELSE "attempt"
        /\ thread'[k].status = "running" /\ thread'[k].done = thread[k].done
    BY <1>s, <2>1
  <2>3. Occupying(k) /\ journal[k].done = thread[k].done /\ ~journal[k].result
        /\ journal[k].status \in Active /\ journal[k].status \notin Terminal
    BY <1>o, <2>1 DEF ProgressOf, SlotCore, Active, Terminal
  <2>4. CASE k \in Campaigns
    <3>1. saved[k] = thread[k].done
      BY <2>1, <2>4 DEF ProgressOf
    <3> QED
      BY <1>d, <1>e, <1>q, <2>1, <2>2, <2>3, <2>4, <3>1 DEF ProgressOf
  <2>5. CASE k \in Reproductions
    <3>1. saved[k] = 0 /\ saved'[k] = 1 /\ thread[k].done = 0
      BY <1>d, <1>q, <2>1, <2>5 DEF ProgressOf
    <3> QED
      BY <1>d, <1>e, <1>q, <2>1, <2>2, <2>3, <2>5, <3>1 DEF ProgressOf
  <2> QED
    BY <2>4, <2>5
<1>6. CASE k \in Campaigns /\ FileRun(k)
  <2>1. /\ thread[k].pc = "filing" /\ UNCHANGED <<journal, saved, seen>>
        /\ Step(k, "progress", "running", thread[k].done)
    BY <1>6 DEF FileRun, outsideThread, recovery
  <2>2. thread'[k].pc = "progress" /\ thread'[k].status = "running" /\ thread'[k].done = thread[k].done
    BY <1>s, <2>1
  <2> QED
    BY <1>d, <1>e, <1>o, <1>q, <1>6, <2>1, <2>2 DEF ProgressOf, Occupying
<1>7. CASE k \in Campaigns /\ SaveProgress(k)
  <2>1. /\ thread[k].pc = "progress" /\ UNCHANGED <<saved, seen>> /\ SaveRow(k)
        /\ Step(k, "attempt", "running", saved[k])
    BY <1>7 DEF SaveProgress, outsideThread, recovery
  <2>2. /\ thread'[k].pc = "attempt" /\ thread'[k].status = "running" /\ thread'[k].done = saved[k]
        /\ journal'[k].status = "running" /\ journal'[k].done = saved[k] /\ ~journal'[k].result
    BY <1>s, <2>1
  <2> QED
    BY <1>d, <1>e, <1>q, <1>7, <2>1, <2>2 DEF ProgressOf
<1>8. CASE Complete(k)
  <2>1. /\ thread[k].pc = "attempt" /\ UNCHANGED <<journal, saved, seen>> /\ saved[k] = Quota(k)
        /\ Step(k, "ending", "completed", saved[k])
    BY <1>8 DEF Complete, outsideThread, recovery, database
  <2>2. /\ thread'[k].pc = "ending" /\ thread'[k].status = "completed" /\ thread'[k].done = saved[k]
        /\ ~Occupying(k)'
    BY <1>s, <1>e, <2>1 DEF Occupying
  <2> QED
    BY <1>d, <1>e, <1>q, <2>1, <2>2 DEF ProgressOf
<1>9. CASE Fail(k)
  <2> DEFINE done == IF thread[k].pc = "progress" THEN saved[k] ELSE thread[k].done
  <2>1. /\ thread[k].pc \in {"plan", "attempt", "filing", "progress"}
        /\ thread[k].pc = "attempt" => k \in Campaigns \/ saved[k] = 0
        /\ UNCHANGED <<journal, saved, seen>> /\ Step(k, "ending", "failed", done)
    BY <1>9 DEF Fail, outsideThread, recovery, database
  <2>2. /\ thread'[k].pc = "ending" /\ thread'[k].status = "failed" /\ thread'[k].done = done
        /\ ~Occupying(k)'
    BY <1>s, <1>e, <2>1 DEF Occupying
  <2>3. k \in Reproductions => saved[k] = 0
    BY <1>q, <2>1 DEF ProgressOf
  <2> QED
    BY <1>d, <1>e, <1>q, <2>1, <2>2, <2>3 DEF ProgressOf
<1>10. CASE SaveOutcome(k)
  <2>1. /\ thread[k].pc = "ending" /\ UNCHANGED <<saved, seen>> /\ SaveRow(k)
        /\ Step(k, "dead", thread[k].status, thread[k].done)
        /\ thread[k].status \in {"completed", "failed"}
    BY <1>10 DEF SaveOutcome, outsideThread, recovery, SlotCore
  <2>2. /\ thread'[k].pc = "dead" /\ thread'[k].status = thread[k].status
        /\ thread'[k].done = thread[k].done /\ ~Occupying(k)'
        /\ journal'[k].status = thread[k].status /\ journal'[k].done = thread[k].done
        /\ journal'[k].result <=> thread[k].status = "completed"
    BY <1>s, <1>e, <2>1 DEF Occupying
  <2> QED
    BY <1>d, <1>e, <1>q, <2>1, <2>2 DEF ProgressOf
<1>11. CASE OutcomeFault(k)
  <2>1. /\ thread[k].pc = "ending" /\ UNCHANGED <<journal, saved, seen>>
        /\ Step(k, "dead", thread[k].status, thread[k].done)
        /\ thread[k].status \in {"completed", "failed"}
    BY <1>11 DEF OutcomeFault, outsideThread, recovery, database, SlotCore
  <2>2. /\ thread'[k].pc = "dead" /\ thread'[k].status = thread[k].status
        /\ thread'[k].done = thread[k].done /\ ~Occupying(k)'
    BY <1>s, <1>e, <2>1 DEF Occupying
  <2> QED
    BY <1>d, <1>e, <1>q, <2>1, <2>2 DEF ProgressOf
<1> QED
  BY <1>1, <1>2, <1>3, <1>4, <1>5, <1>6, <1>7, <1>8, <1>9, <1>10, <1>11 DEF Work, Fault

\* What a step of the thread of a request leaves alone.
LEMMA ThreadFrame ==
    ASSUME TypeOK, SlotCore, NEW k \in Requests, Work(k) \/ Fault(k)
    PROVE  /\ \A l \in Requests \ {k} :
                 /\ thread'[l] = thread[l] /\ journal'[l] = journal[l]
                 /\ saved'[l] = saved[l] /\ member'[l] = member[l]
           /\ UNCHANGED <<lock, proc, orphans, seen>> /\ campaigns \subseteq campaigns'
           /\ thread[k].pc \notin {"idle", "gone"} /\ thread'[k].pc \notin {"idle", "gone"}
           /\ thread'[k].at = thread[k].at
<1> USE ConstantsAssumption DEF Requests, Owners
<1>s. ASSUME NEW pc, NEW status, NEW done, Step(k, pc, status, done)
      PROVE  /\ thread'[k].pc = pc /\ thread'[k].at = thread[k].at
             /\ \A l \in Requests \ {k} : thread'[l] = thread[l]
  BY <1>s DEF Step, TypeOK
<1>r. ASSUME SaveRow(k) \/ journal' = journal
      PROVE  \A l \in Requests \ {k} : journal'[l] = journal[l]
  BY <1>r DEF SaveRow, TypeOK
<1>1. CASE Launch(k)
  BY <1>1 DEF Launch, TypeOK, Thread, database, recovery
<1>2. CASE Begin(k) \/ BeginFault(k)
  BY <1>2, <1>s, <1>r DEF Begin, BeginFault, outsideThread, recovery, database
<1>3. CASE SaveCampaign(k)
  BY <1>3, <1>s, <1>r DEF SaveCampaign, outsideThread, recovery
<1>4. CASE Attempt(k)
  BY <1>4, <1>s, <1>r DEF Attempt, outsideThread, recovery, TypeOK
<1>5. CASE FileRun(k)
  BY <1>5, <1>s, <1>r DEF FileRun, outsideThread, recovery, TypeOK
<1>6. CASE SaveProgress(k)
  BY <1>6, <1>s, <1>r DEF SaveProgress, outsideThread, recovery
<1>7. CASE Complete(k) \/ Fail(k)
  BY <1>7, <1>s, <1>r DEF Complete, Fail, outsideThread, recovery, database
<1>8. CASE SaveOutcome(k) \/ OutcomeFault(k)
  BY <1>8, <1>s, <1>r DEF SaveOutcome, OutcomeFault, outsideThread, recovery, database
<1> QED
  BY <1>1, <1>2, <1>3, <1>4, <1>5, <1>6, <1>7, <1>8 DEF Work, Fault

\* A campaign whose runs a step leaves alone, except that they may be filed, and whose
\* thread stays or leaves the matrix.
LEMMA SameFiling ==
    ASSUME TypeOK, NEW k \in Campaigns, FilingOf(k),
           saved'[k] = saved[k], member[k] \subseteq member'[k], campaigns \subseteq campaigns',
           thread'[k].pc = thread[k].pc \/ thread'[k].pc \notin {"attempt", "filing", "progress"}
    PROVE  FilingOf(k)'
  BY DEF FilingOf

\* The thread of a campaign files each run before it makes the next.
LEMMA OwnFiling ==
    ASSUME TypeOK, SlotCore, NEW k \in Campaigns, ProgressOf(k), FilingOf(k), Work(k) \/ Fault(k)
    PROVE  FilingOf(k)'
<1> USE ConstantsAssumption DEF Requests, Owners
<1>d. saved[k] \in Nat /\ campaigns \subseteq campaigns'
  BY ThreadFrame DEF TypeOK
<1>s. ASSUME NEW pc, NEW status, NEW done, Step(k, pc, status, done)
      PROVE  thread'[k].pc = pc
  BY <1>s DEF Step, TypeOK
<1>1. CASE Launch(k)
  <2>1. thread'[k].pc = "launched" /\ UNCHANGED <<saved, member>>
    BY <1>1 DEF Launch, TypeOK, Thread, database
  <2> QED
    BY <1>d, <2>1, SameFiling
<1>2. CASE Begin(k) \/ BeginFault(k)
  <2>1. thread'[k].pc \in {"plan", "dead"} /\ UNCHANGED <<saved, member>>
    BY <1>2, <1>s DEF Begin, BeginFault, database
  <2> QED
    BY <1>d, <2>1, SameFiling
<1>3. CASE SaveCampaign(k)
  <2>1. /\ thread[k].pc = "plan" /\ thread'[k].pc = "attempt" /\ k \in campaigns'
        /\ UNCHANGED <<saved, member>>
    BY <1>3, <1>s DEF SaveCampaign
  <2>2. saved[k] = 0
    BY <2>1 DEF ProgressOf
  <2> QED
    BY <2>1, <2>2 DEF FilingOf
<1>4. CASE Attempt(k)
  <2>1. /\ thread[k].pc = "attempt" /\ thread'[k].pc = "filing"
        /\ UNCHANGED <<campaigns, member>> /\ saved'[k] = saved[k] + 1
    BY <1>4, <1>s DEF Attempt, TypeOK
  <2>2. 1..saved[k] \subseteq member[k] /\ k \in campaigns
    BY <2>1 DEF FilingOf
  <2>3. \A n \in 1..(saved[k] + 1) : n \in 1..saved[k] \/ n = saved[k] + 1
    BY <1>d
  <2> QED
    BY <2>1, <2>2, <2>3 DEF FilingOf
<1>5. CASE FileRun(k)
  <2>1. /\ thread[k].pc = "filing" /\ thread'[k].pc = "progress"
        /\ UNCHANGED <<campaigns, saved>> /\ member'[k] = member[k] \cup {saved[k]}
    BY <1>5, <1>s DEF FileRun, TypeOK
  <2> QED
    BY <2>1 DEF FilingOf
<1>6. CASE SaveProgress(k)
  <2>1. /\ thread[k].pc = "progress" /\ thread'[k].pc = "attempt"
        /\ UNCHANGED <<campaigns, saved, member>>
    BY <1>6, <1>s DEF SaveProgress
  <2> QED
    BY <2>1 DEF FilingOf
<1>7. CASE Complete(k) \/ Fail(k) \/ SaveOutcome(k) \/ OutcomeFault(k)
  <2>1. thread'[k].pc \in {"ending", "dead"} /\ UNCHANGED <<saved, member>>
    BY <1>7, <1>s DEF Complete, Fail, SaveOutcome, OutcomeFault, database
  <2> QED
    BY <1>d, <2>1, SameFiling
<1> QED
  BY <1>1, <1>2, <1>3, <1>4, <1>5, <1>6, <1>7 DEF Work, Fault

\* A process that is not recovering and does not serve with the lock knows nothing.
LEMMA IdleRecovery ==
    ASSUME NEW w \in Workers, NEW k \in Requests,
           proc'[w] \notin {"repairing", "reading", "marking"},
           ~(proc'[w] = "serving" /\ lock' = w)
    PROVE  RecoveryOf(w, k)'
  BY DEF RecoveryOf, ServedBy

\* A process that stays where it is, and a request of which a step opens nothing.
LEMMA SameRecovery ==
    ASSUME TypeOK, NEW w \in Workers, NEW k \in Requests, RecoveryOf(w, k),
           proc'[w] = proc[w], orphans'[w] = orphans[w], seen'[w] = seen[w],
           lock' = w => lock = w,
           saved'[k] = saved[k], member[k] \subseteq member'[k],
           journal'[k].status \in Active => journal[k].status \in Active,
           journal[k].status = "absent" => journal'[k].status = "absent",
           TaskOf(w, k) => TaskOf(w, k)'
    PROVE  RecoveryOf(w, k)'
  BY DEF RecoveryOf, ServedBy

\* A step of a thread, seen by any process: while the task occupies the slot nobody else
\* has the lock, and afterwards the thread only closes its row.
LEMMA OwnRecovery ==
    ASSUME TypeOK, SlotCore, NEW w \in Workers, NEW k \in Requests, RecoveryOf(w, k),
           Work(k) \/ Fault(k)
    PROVE  RecoveryOf(w, k)'
<1>f. /\ UNCHANGED <<lock, proc, orphans, seen>> /\ thread'[k].at = thread[k].at
      /\ thread[k].pc \notin {"idle", "gone"} /\ thread'[k].pc \notin {"idle", "gone"}
  BY ThreadFrame
<1>t. TaskOf(w, k)' <=> thread[k].at = w
  BY <1>f DEF TaskOf
<1>a. journal[k].status # "absent"
  BY <1>f DEF SlotCore
<1>1. CASE Occupying(k)
  <2>1. lock = thread[k].at /\ proc[thread[k].at] \in {"serving", "closed"}
    BY <1>f, <1>1 DEF SlotCore
  <2>2. proc[w] \in {"repairing", "reading", "marking"} => lock = w
    BY DEF SlotCore
  <2> QED
    BY <1>f, <1>t, <2>1, <2>2 DEF RecoveryOf, ServedBy
<1>2. CASE ~Occupying(k)
  <2>1. SaveOutcome(k) \/ OutcomeFault(k)
    BY <1>2 DEF Work, Fault, Launch, Begin, SaveCampaign, Attempt, FileRun, SaveProgress, Complete,
                Fail, BeginFault, SlotCore, Occupying, Active
  <2>2. /\ thread[k].pc = "ending" /\ UNCHANGED <<saved, member>>
        /\ Step(k, "dead", thread[k].status, thread[k].done)
        /\ SaveRow(k) \/ journal' = journal
    BY <2>1 DEF SaveOutcome, OutcomeFault, database
  <2>3. thread[k].status \notin Active
    BY <2>2 DEF SlotCore, Active
  <2>4. SaveRow(k) => journal'[k].status \notin Active
    BY <2>2, <2>3 DEF SaveRow, Step, RowOf, TypeOK
  <2>5. TaskOf(w, k) <=> thread[k].at = w
    BY <1>f DEF TaskOf
  <2> QED
    BY <1>f, <1>t, <1>a, <2>2, <2>4, <2>5, SameRecovery
<1> QED
  BY <1>1, <1>2

\* What recovery knows holds of every behaviour.
THEOREM RecoveryCorrect == Spec => []RecoveryCore
<1> USE ConstantsAssumption DEF Requests, Owners
<1>1. Init => RecoveryCore
  <2> SUFFICES ASSUME Init PROVE RecoveryCore
    OBVIOUS
  <2>1. \A k \in Requests : ProgressOf(k)
    BY DEF Init, ProgressOf, EmptyJournal, NoRow, NoThread, Occupying, Terminal, Active
  <2>2. \A k \in Campaigns : FilingOf(k)
    BY DEF Init, FilingOf, NoThread
  <2>3. \A w \in Workers, k \in Requests : RecoveryOf(w, k)
    BY DEF Init, RecoveryOf, ServedBy
  <2> QED
    BY <2>1, <2>2, <2>3 DEF RecoveryCore
<1>2. TypeOK /\ SlotCore /\ RecoveryCore /\ [Next]_vars => RecoveryCore'
  <2> SUFFICES ASSUME TypeOK, SlotCore, RecoveryCore, [Next]_vars PROVE RecoveryCore'
    OBVIOUS
  <2>i. /\ \A k \in Requests : ProgressOf(k)
        /\ \A k \in Campaigns : FilingOf(k)
        /\ \A w \in Workers, k \in Requests : RecoveryOf(w, k)
    BY DEF RecoveryCore
  <2>l. \A w \in Workers : /\ proc[w] \in {"bound", "repairing", "reading", "marking"} => lock = w
                           /\ proc[w] = "down" => lock # w
    BY DEF SlotCore
\* Nothing of the requests changes but that rows are filed.
  <2>u. ASSUME UNCHANGED <<journal, thread>>, campaigns \subseteq campaigns',
               \A k \in Requests : saved'[k] = saved[k] /\ member[k] \subseteq member'[k],
               \A k \in Requests : \A w \in Workers : seen'[w][k] \in {seen[w][k], journal[k], NoRow},
               \A w \in Workers, k \in Requests : RecoveryOf(w, k)'
        PROVE  RecoveryCore'
    <3>1. \A k \in Requests : ProgressOf(k)'
      BY <2>i, <2>u, SameProgress
    <3>2. \A k \in Campaigns : FilingOf(k)'
      BY <2>i, <2>u, SameFiling
    <3> QED
      BY <2>u, <3>1, <3>2 DEF RecoveryCore
\* The same step, seen by a process that takes no part in it.
  <2>v. ASSUME NEW v \in Workers, NEW k \in Requests,
               UNCHANGED <<journal, thread>>, lock' = v => lock = v,
               proc'[v] = proc[v], orphans'[v] = orphans[v], seen'[v] = seen[v],
               saved'[k] = saved[k], member[k] \subseteq member'[k]
        PROVE  RecoveryOf(v, k)'
    BY <2>i, <2>v, SameRecovery DEF TaskOf
  <2>1. ASSUME NEW w \in Workers, Recover(w) PROVE RecoveryCore'
    <3>r. ASSUME proc[w] \in {"bound", "repairing", "reading", "marking"}
          PROVE  /\ \A k \in Requests : ~Occupying(k)
                 /\ lock = w
      BY <2>l, <3>r DEF SlotCore, Occupying
    <3>v. ASSUME NEW v \in Workers \ {w}, NEW k \in Requests, lock = w, lock' # v,
                 proc'[v] = proc[v]
          PROVE  RecoveryOf(v, k)'
      BY <2>l, <3>v, IdleRecovery
    <3>1. CASE BindExecutor(w)
      <4>1. /\ UNCHANGED <<database, recovery, thread>> /\ lock = Nobody /\ lock' = w
            /\ proc'[w] = "bound" /\ \A v \in Workers \ {w} : proc'[v] = proc[v]
        BY <3>1 DEF BindExecutor, manager, TypeOK
      <4>2. ASSUME NEW v \in Workers, NEW k \in Requests PROVE RecoveryOf(v, k)'
        <5>1. proc'[v] \notin {"repairing", "reading", "marking"}
              /\ ~(proc'[v] = "serving" /\ lock' = v)
          BY <2>l, <4>1
        <5> QED
          BY <5>1, IdleRecovery
      <4> QED
        BY <2>u, <4>1, <4>2 DEF database, recovery
    <3>2. CASE BindObserver(w)
      <4>1. /\ UNCHANGED <<database, recovery, thread, lock>> /\ proc[w] = "down"
            /\ proc'[w] = "serving" /\ \A v \in Workers \ {w} : proc'[v] = proc[v]
        BY <3>2 DEF BindObserver, manager, TypeOK
      <4>2. ASSUME NEW v \in Workers, NEW k \in Requests PROVE RecoveryOf(v, k)'
        <5>1. CASE v = w
          BY <2>l, <4>1, <5>1, IdleRecovery
        <5>2. CASE v # w
          BY <2>v, <4>1, <5>2 DEF database, recovery
        <5> QED
          BY <5>1, <5>2
      <4> QED
        BY <2>u, <4>1, <4>2 DEF database, recovery
    <3>3. CASE ReadOrphans(w)
      <4>1. /\ UNCHANGED <<database, seen, thread, lock>> /\ proc[w] = "bound"
            /\ orphans'[w] = [o \in Owners |-> Unfiled(o)]
            /\ proc'[w] = IF \A o \in Owners : Unfiled(o) = {} THEN "reading" ELSE "repairing"
            /\ \A v \in Workers \ {w} : proc'[v] = proc[v]
        BY <3>3 DEF ReadOrphans, manager, TypeOK
      <4>2. ASSUME NEW k \in Campaigns PROVE 1..saved[k] \ member[k] \subseteq Unfiled(k)
        <5>1. saved[k] \in Nat /\ (saved[k] > 0 => k \in campaigns)
          BY <2>i DEF FilingOf, TypeOK
        <5>2. CampaignOf(k) = k
          BY DEF CampaignOf
        <5>3. CASE saved[k] > 0
          BY <5>1, <5>2, <5>3 DEF Unfiled
        <5>4. CASE saved[k] = 0
          BY <5>4
        <5> QED
          BY <5>1, <5>3, <5>4
      <4>3. ASSUME NEW k \in Requests PROVE RecoveryOf(w, k)'
        BY <4>1, <4>2 DEF RecoveryOf, ServedBy, database
      <4>4. ASSUME NEW v \in Workers \ {w}, NEW k \in Requests PROVE RecoveryOf(v, k)'
        BY <3>r, <3>v, <4>1
      <4> QED
        BY <2>u, <4>1, <4>3, <4>4 DEF database
    <3>4. CASE Repair(w)
      <4>1. /\ UNCHANGED <<campaigns, saved, seen, thread, lock>> /\ proc[w] = "repairing"
            /\ \A o \in Owners : member'[o] = member[o] \cup orphans[w][o]
            /\ journal' = Reconciled(journal)
            /\ proc'[w] = "serving" /\ \A v \in Workers \ {w} : proc'[v] = proc[v]
        BY <3>4 DEF Repair, manager, TypeOK
      <4>2. \A k \in Requests : ProgressOf(k)'
        BY <2>i, <3>r, <4>1, ReconciledProgress DEF TypeOK
      <4>3. \A k \in Campaigns : FilingOf(k)'
        BY <2>i, <4>1, SameFiling
      <4>4. ASSUME NEW k \in Requests PROVE RecoveryOf(w, k)'
        <5>1. k \in Campaigns => 1..saved[k] \subseteq member'[k]
          BY <2>i, <4>1 DEF RecoveryOf
        <5>2. journal'[k].status \notin Active
          BY <4>1 DEF Reconciled, Active
        <5> QED
          BY <4>1, <5>1, <5>2 DEF RecoveryOf
      <4>5. ASSUME NEW v \in Workers \ {w}, NEW k \in Requests PROVE RecoveryOf(v, k)'
        BY <3>r, <3>v, <4>1
      <4> QED
        BY <4>2, <4>3, <4>4, <4>5 DEF RecoveryCore
    <3>5. CASE RepairConflict(w)
      <4>1. /\ UNCHANGED <<database, seen, thread>> /\ proc[w] = "repairing" /\ lock' = Nobody
            /\ proc'[w] = "down" /\ \A v \in Workers \ {w} : proc'[v] = proc[v]
        BY <3>5 DEF RepairConflict, manager, TypeOK
      <4>2. ASSUME NEW v \in Workers, NEW k \in Requests PROVE RecoveryOf(v, k)'
        <5>1. lock = w /\ lock' # v
          BY <3>r, <4>1
        <5>2. CASE v = w
          BY <4>1, <5>2, IdleRecovery
        <5> QED
          BY <3>v, <4>1, <5>1, <5>2
      <4> QED
        BY <2>u, <4>1, <4>2 DEF database
    <3>6. CASE ReadTasks(w)
      <4>1. /\ UNCHANGED <<database, orphans, thread, lock>> /\ proc[w] = "reading"
            /\ seen'[w] = journal /\ \A v \in Workers \ {w} : seen'[v] = seen[v]
            /\ proc'[w] = "marking" /\ \A v \in Workers \ {w} : proc'[v] = proc[v]
        BY <3>6 DEF ReadTasks, manager, TypeOK
      <4>2. ASSUME NEW k \in Requests PROVE RecoveryOf(w, k)'
        <5>1. k \in Campaigns => 1..saved[k] \subseteq member[k]
          BY <2>i, <4>1 DEF RecoveryOf
        <5> QED
          BY <4>1, <5>1 DEF RecoveryOf, ServedBy, database
      <4>3. ASSUME NEW v \in Workers \ {w}, NEW k \in Requests PROVE RecoveryOf(v, k)'
        BY <3>r, <3>v, <4>1
      <4>4. \A k \in Requests : \A v \in Workers : seen'[v][k] \in {seen[v][k], journal[k], NoRow}
        BY <4>1
      <4> QED
        BY <2>u, <4>1, <4>2, <4>3, <4>4 DEF database
    <3>7. CASE MarkTasks(w)
      <4>1. /\ UNCHANGED <<campaigns, saved, member, orphans, thread, lock>> /\ proc[w] = "marking"
            /\ seen'[w] = EmptyJournal /\ \A v \in Workers \ {w} : seen'[v] = seen[v]
            /\ journal' = Reconciled(seen[w])
            /\ proc'[w] = "serving" /\ \A v \in Workers \ {w} : proc'[v] = proc[v]
        BY <3>7 DEF MarkTasks, manager, TypeOK
      <4>2. ASSUME NEW k \in Requests PROVE ProgressOf(k)'
        <5>1. \A v \in Workers : seen'[v][k] \in {seen[v][k], NoRow}
          BY <4>1 DEF EmptyJournal
        <5>2. seen[w] \in [Requests -> Row]
          BY DEF TypeOK
        <5> QED
          BY <2>i, <3>r, <4>1, <5>1, <5>2, ReconciledProgress
      <4>3. \A k \in Campaigns : FilingOf(k)'
        BY <2>i, <4>1, SameFiling
      <4>4. ASSUME NEW k \in Requests PROVE RecoveryOf(w, k)'
        <5>1. k \in Campaigns => 1..saved[k] \subseteq member[k]
          BY <2>i, <4>1 DEF RecoveryOf
        <5>2. seen[w][k].status = "absent" => journal[k].status = "absent"
          BY <2>i, <4>1 DEF RecoveryOf
        <5>3. journal'[k].status \notin Active
          BY <4>1, <5>2 DEF Reconciled, Active
        <5> QED
          BY <4>1, <5>1, <5>3 DEF RecoveryOf
      <4>5. ASSUME NEW v \in Workers \ {w}, NEW k \in Requests PROVE RecoveryOf(v, k)'
        BY <3>r, <3>v, <4>1
      <4> QED
        BY <4>2, <4>3, <4>4, <4>5 DEF RecoveryCore
    <3> QED
      BY <2>1, <3>1, <3>2, <3>3, <3>4, <3>5, <3>6, <3>7 DEF Recover
  <2>2. ASSUME NEW w \in Workers, Close(w) PROVE RecoveryCore'
    <3>1. /\ UNCHANGED <<database, recovery, thread>> /\ lock' \in {lock, Nobody}
          /\ proc'[w] = "closed" /\ \A v \in Workers \ {w} : proc'[v] = proc[v]
      BY <2>2 DEF Close, manager, TypeOK
    <3>2. ASSUME NEW v \in Workers, NEW k \in Requests PROVE RecoveryOf(v, k)'
      <4>1. CASE v = w
        BY <3>1, <4>1, IdleRecovery
      <4>2. CASE v # w
        BY <2>v, <3>1, <4>2 DEF database, recovery
      <4> QED
        BY <4>1, <4>2
    <3> QED
      BY <2>u, <3>1, <3>2 DEF database, recovery
  <2>3. ASSUME NEW w \in Workers, Crash(w) \/ Exit(w) PROVE RecoveryCore'
    <3>0. Vanish(w)
      BY <2>3 DEF Crash, Exit
    <3>1. \A k \in Requests :
            /\ thread'[k].status = thread[k].status /\ thread'[k].at = thread[k].at
            /\ thread'[k].done = thread[k].done
            /\ thread'[k].pc \in {thread[k].pc, "gone"}
            /\ thread[k].at # w => thread'[k].pc = thread[k].pc
      BY <3>0 DEF Vanish, TypeOK, Thread
    <3>2. /\ UNCHANGED database /\ lock' \in {lock, Nobody}
          /\ proc'[w] = "down" /\ seen'[w] = EmptyJournal
          /\ \A v \in Workers \ {w} : /\ proc'[v] = proc[v] /\ seen'[v] = seen[v]
                                      /\ orphans'[v] = orphans[v]
      BY <3>0 DEF Vanish, TypeOK
    <3>3. ASSUME NEW k \in Requests PROVE ProgressOf(k)'
      <4>1. \A v \in Workers : seen'[v][k] \in {seen[v][k], journal[k], NoRow}
        BY <3>2 DEF EmptyJournal
      <4> QED
        BY <2>i, <3>1, <3>2, <4>1, SameProgress DEF database
    <3>4. \A k \in Campaigns : FilingOf(k)'
      BY <2>i, <3>1, <3>2, SameFiling DEF database
    <3>5. ASSUME NEW v \in Workers, NEW k \in Requests PROVE RecoveryOf(v, k)'
      <4>1. CASE v = w
        BY <3>2, <4>1, IdleRecovery
      <4>2. CASE v # w
        <5>1. TaskOf(v, k) => TaskOf(v, k)'
          BY <3>1, <4>2 DEF TaskOf
        <5> QED
          BY <2>i, <3>2, <4>2, <5>1, SameRecovery DEF database
      <4> QED
        BY <4>1, <4>2
    <3> QED
      BY <3>3, <3>4, <3>5 DEF RecoveryCore
  <2>4. ASSUME NEW w \in Workers, NEW k \in Requests, Accept(w, k) PROVE RecoveryCore'
    <3>1. /\ thread' = [thread EXCEPT ![k] = [pc |-> "accepted", at |-> w,
                                              status |-> "starting", done |-> 0]]
          /\ journal' = [journal EXCEPT ![k] = RowOf(thread'[k])]
          /\ lock = w /\ proc[w] = "serving" /\ journal[k].status = "absent"
          /\ UNCHANGED <<campaigns, saved, member, lock, proc, orphans, seen>>
      BY <2>4 DEF Accept, recovery
    <3>2. /\ thread'[k] = [pc |-> "accepted", at |-> w, status |-> "starting", done |-> 0]
          /\ \A l \in Requests \ {k} : thread'[l] = thread[l] /\ journal'[l] = journal[l]
      BY <3>1 DEF TypeOK
    <3>3. journal'[k].status = "starting" /\ journal'[k].done = 0 /\ ~journal'[k].result
      BY <3>1, <3>2 DEF TypeOK, RowOf
    <3>4. ASSUME NEW l \in Requests PROVE ProgressOf(l)'
      <4>1. CASE l = k
        <5>1. saved[k] = 0
          BY <2>i, <3>1 DEF ProgressOf
        <5>2. k \in Reproductions => \A v \in Workers : ~seen[v][k].result
          BY <2>i, <5>1 DEF ProgressOf
        <5>3. /\ thread'[k].pc = "accepted" /\ thread'[k].done = 0
              /\ journal'[k].status \notin Terminal /\ journal'[k].status # "absent"
          BY <3>2, <3>3 DEF Terminal
        <5> QED
          BY <3>1, <3>3, <4>1, <5>1, <5>2, <5>3 DEF ProgressOf
      <4>2. CASE l # k
        BY <2>i, <3>1, <3>2, <4>2, SameProgress
      <4> QED
        BY <4>1, <4>2
    <3>5. ASSUME NEW l \in Campaigns PROVE FilingOf(l)'
      <4>1. thread'[l].pc = thread[l].pc \/ thread'[l].pc = "accepted"
        BY <3>2
      <4> QED
        BY <2>i, <3>1, <4>1, SameFiling
    <3>6. ASSUME NEW v \in Workers, NEW l \in Requests PROVE RecoveryOf(v, l)'
      <4>1. CASE v # w
        BY <2>l, <3>1, <4>1, IdleRecovery
      <4>2. CASE v = w /\ l = k
        <5>1. TaskOf(w, k)'
          BY <3>2 DEF TaskOf
        <5> QED
          BY <3>1, <4>2, <5>1 DEF RecoveryOf
      <4>3. CASE l # k
        <5>1. TaskOf(v, l) => TaskOf(v, l)'
          BY <3>2, <4>3 DEF TaskOf
        <5> QED
          BY <2>i, <3>1, <3>2, <4>3, <5>1, SameRecovery
      <4> QED
        BY <4>1, <4>2, <4>3
    <3> QED
      BY <3>4, <3>5, <3>6 DEF RecoveryCore
  <2>5. ASSUME NEW k \in Requests, Work(k) \/ Fault(k) PROVE RecoveryCore'
    <3>f. /\ \A l \in Requests \ {k} :
                 /\ thread'[l] = thread[l] /\ journal'[l] = journal[l]
                 /\ saved'[l] = saved[l] /\ member'[l] = member[l]
          /\ UNCHANGED <<lock, proc, orphans, seen>> /\ campaigns \subseteq campaigns'
      BY <2>5, ThreadFrame
    <3>1. ASSUME NEW l \in Requests PROVE ProgressOf(l)'
      <4>1. CASE l = k
        BY <2>i, <2>5, <4>1, OwnProgress
      <4>2. CASE l # k
        BY <2>i, <3>f, <4>2, SameProgress
      <4> QED
        BY <4>1, <4>2
    <3>2. ASSUME NEW l \in Campaigns PROVE FilingOf(l)'
      <4>1. CASE l = k
        BY <2>i, <2>5, <4>1, OwnFiling
      <4>2. CASE l # k
        BY <2>i, <3>f, <4>2, SameFiling
      <4> QED
        BY <4>1, <4>2
    <3>3. ASSUME NEW w \in Workers, NEW l \in Requests PROVE RecoveryOf(w, l)'
      <4>1. CASE l = k
        BY <2>i, <2>5, <4>1, OwnRecovery
      <4>2. CASE l # k
        <5>1. TaskOf(w, l) => TaskOf(w, l)'
          BY <3>f, <4>2 DEF TaskOf
        <5> QED
          BY <2>i, <3>f, <4>2, <5>1, SameRecovery
      <4> QED
        BY <4>1, <4>2
    <3> QED
      BY <3>1, <3>2, <3>3 DEF RecoveryCore
  <2>6. ASSUME NEW j \in Jobs, JobStep(j) PROVE RecoveryCore'
    <3>1. UNCHANGED <<journal, lock, proc, recovery, thread>> /\ campaigns \subseteq campaigns'
      BY <2>6 DEF JobStep, JobStart, JobAttempt, JobFile, JobConflict, JobDone, JobStop, outsideJob,
                  manager
    <3>2. \A k \in Requests : saved'[k] = saved[k] /\ member'[k] = member[k]
      BY <2>6 DEF JobStep, JobStart, JobAttempt, JobFile, JobConflict, JobDone, JobStop, TypeOK
    <3>3. \A w \in Workers, k \in Requests : RecoveryOf(w, k)'
      BY <2>v, <3>1, <3>2 DEF recovery
    <3> QED
      BY <2>u, <3>1, <3>2, <3>3 DEF recovery
  <2>7. CASE UNCHANGED vars
    <3>1. UNCHANGED <<database, lock, proc, recovery, thread>>
      BY <2>7 DEF vars, manager
    <3>2. \A w \in Workers, k \in Requests : RecoveryOf(w, k)'
      BY <2>v, <3>1 DEF database, recovery
    <3> QED
      BY <2>u, <3>1, <3>2 DEF database, recovery
  <2> QED
    BY <2>1, <2>2, <2>3, <2>4, <2>5, <2>6, <2>7 DEF Next, StartCampaign, StartReproduction
<1> QED BY <1>1, <1>2, TypeCorrect, SlotCorrect, PTL DEF Spec

\* After recovery no row promises work that nobody does.
THEOREM NothingIsLeftOpen == Spec => []NoGhostTask
<1>1. RecoveryCore => NoGhostTask
  BY DEF RecoveryCore, RecoveryOf, TaskOf, NoGhostTask
<1> QED BY <1>1, RecoveryCorrect, PTL

\* The count of a row is never ahead of the saved runs, and at most one behind.
THEOREM ProgressIsHonest == Spec => []ProgressWithinOne
<1>1. RecoveryCore => ProgressWithinOne
  BY DEF RecoveryCore, ProgressOf, ProgressWithinOne
<1> QED BY <1>1, RecoveryCorrect, PTL

\* Only the newest run of a campaign can be missing from its list, and only while the
\* process that serves is still working on it.
THEOREM NoRunIsLost == Spec => []UnfiledRunIsNewest
<1>1. RecoveryCore => UnfiledRunIsNewest
  <2> SUFFICES ASSUME RecoveryCore, NEW k \in Campaigns, NEW n \in 1..saved[k] \ member[k]
               PROVE  /\ n = saved[k]
                      /\ \A w \in Workers : ServedBy(w) => TaskOf(w, k)
    BY DEF UnfiledRunIsNewest, TaskOf
  <2>1. FilingOf(k) /\ \A w \in Workers : RecoveryOf(w, k)
    BY DEF RecoveryCore, Requests
  <2> QED
    BY <2>1 DEF FilingOf, RecoveryOf
<1> QED BY <1>1, RecoveryCorrect, PTL

\* The row of a reproduction that ended points at its run exactly when there is one.
THEOREM ResultIsKept == Spec => []ReproductionKeepsResult
<1>1. RecoveryCore => ReproductionKeepsResult
  BY DEF RecoveryCore, ProgressOf, ReproductionKeepsResult, Requests
<1> QED BY <1>1, RecoveryCorrect, PTL

\* Every variable keeps its type, whoever occupies the slot owns the lock, and recovery
\* loses nothing.
THEOREM SlotInvariance == Spec => []SlotInv
<1>1. TypeOK /\ SlotCore /\ RecoveryCore => SlotInv
  BY DEF SlotInv
<1> QED BY <1>1, TypeCorrect, SlotCorrect, RecoveryCorrect, PTL

\* One web execution at a time per database, whatever processes come and go.
THEOREM OneAtATime == Spec => []SingleExecution
<1>1. SlotCore => SingleExecution
  BY DEF SlotCore, SingleExecution, Executing, Occupying, Active
<1> QED BY <1>1, SlotCorrect, PTL

\* However often a request is repeated, one thread is started for it.
THEOREM NeverRepeated == Spec => []ExecutedOnce
<1>1. SlotCore => ExecutedOnce
  BY DEF SlotCore, ExecutedOnce
<1> QED BY <1>1, SlotCorrect, PTL

-----------------------------------------------------------------------------
(* The ledger *)

\* The slot of the ledger is the task that occupies it.
LEMMA SlotIsOccupant ==
    ASSUME SlotCore
    PROVE  /\ \A k \in Requests : LedgerSlot = k <=> Occupying(k)
           /\ LedgerSlot \in Requests \cup {Nobody}
<1>1. ASSUME NEW k \in Requests, NEW l \in Requests, Occupying(k), Occupying(l) PROVE k = l
  BY <1>1 DEF SlotCore
<1>2. \A k \in Requests : k # Nobody
  BY ConstantsAssumption
<1>3. CASE \E k \in Requests : Occupying(k)
  <2>1. LedgerSlot = CHOOSE k \in Requests : Occupying(k)
    BY <1>3 DEF LedgerSlot
  <2>2. LedgerSlot \in Requests /\ Occupying(LedgerSlot)
    BY <1>3, <2>1
  <2> QED BY <1>1, <2>2
<1>4. CASE ~ \E k \in Requests : Occupying(k)
  BY <1>2, <1>4 DEF LedgerSlot
<1> QED BY <1>3, <1>4

\* Processes, threads, crashes and recovery implement the ledger: a request is accepted
\* once, executed in the one slot, and no attempt is saved after its end is recorded.
THEOREM LedgerImplemented == Spec => ImplementsLedger
<1> USE ConstantsAssumption DEF Requests, Owners
<1>1. Init => Ledger!Init
  <2> SUFFICES ASSUME Init PROVE Ledger!Init
    OBVIOUS
  <2>1. \A k \in Requests : ~Occupying(k) /\ LedgerState(journal[k]) = "absent" /\ saved[k] = 0
    BY DEF Init, Occupying, NoThread, NoRow, EmptyJournal, LedgerState
  <2>2. LedgerSlot = Nobody
    BY <2>1 DEF LedgerSlot
  <2> QED BY <2>1, <2>2 DEF Ledger!Init
<1>2. TypeOK /\ SlotCore /\ SlotCore' /\ [Next]_vars => [Ledger!Next]_(Ledger!ledger)
  <2> SUFFICES ASSUME TypeOK, SlotCore, SlotCore', [Next]_vars
               PROVE  [Ledger!Next]_(Ledger!ledger)
    OBVIOUS
  <2> DEFINE state == [k \in Requests |-> LedgerState(journal[k])]
             attempts == [k \in Requests |-> saved[k]]
  <2>l. /\ \A k \in Requests : LedgerSlot = k <=> Occupying(k)
        /\ LedgerSlot \in Requests \cup {Nobody}
        /\ \A k \in Requests : LedgerSlot' = k <=> Occupying(k)'
        /\ LedgerSlot' \in Requests \cup {Nobody}
    <3>1. /\ \A k \in Requests : LedgerSlot = k <=> Occupying(k)
          /\ LedgerSlot \in Requests \cup {Nobody}
      BY SlotIsOccupant
    <3>2. (/\ \A k \in Requests : LedgerSlot = k <=> Occupying(k)
           /\ LedgerSlot \in Requests \cup {Nobody})'
      BY SlotIsOccupant, PTL
    <3> QED BY <3>1, <3>2
  <2>st. ASSUME \A k \in Requests : LedgerState(journal[k])' = LedgerState(journal[k])
                                    /\ (Occupying(k)' <=> Occupying(k)),
                \A k \in Requests : saved'[k] = saved[k]
         PROVE  UNCHANGED Ledger!ledger
    <3>1. state' = state /\ attempts' = attempts
      BY <2>st
    <3>2. LedgerSlot' = LedgerSlot
      BY <2>st, <2>l
    <3> QED BY <3>1, <3>2 DEF Ledger!ledger
  <2>re. ASSUME \A k \in Requests : LedgerState(journal[k])' = LedgerState(journal[k])
                                    /\ (Occupying(k)' => Occupying(k)),
                \A k \in Requests : saved'[k] = saved[k]
         PROVE  [Ledger!Next]_(Ledger!ledger)
    <3>1. state' = state /\ attempts' = attempts
      BY <2>re
    <3>2. LedgerSlot' = LedgerSlot \/ (LedgerSlot # Nobody /\ LedgerSlot' = Nobody)
      BY <2>re, <2>l
    <3> QED BY <3>1, <3>2 DEF Ledger!ledger, Ledger!Next, Ledger!Release
  <2>en. ASSUME \A k \in Requests :
                  /\ Occupying(k)' <=> Occupying(k)
                  /\ \/ LedgerState(journal[k])' = LedgerState(journal[k])
                     \/ /\ LedgerState(journal[k]) = "open" /\ ~Occupying(k)
                        /\ LedgerState(journal[k])' = "ended",
                \A k \in Requests : saved'[k] = saved[k]
         PROVE  [Ledger!Next]_(Ledger!ledger)
    <3> DEFINE ended == {k \in Requests : LedgerState(journal[k])' # LedgerState(journal[k])}
    <3>1. LedgerSlot' = LedgerSlot /\ attempts' = attempts
      BY <2>en, <2>l
    <3>2. \A k \in ended : state[k] = "open" /\ LedgerSlot # k
      BY <2>en, <2>l
    <3>3. state' = [k \in Requests |-> IF k \in ended THEN "ended" ELSE state[k]]
      BY <2>en
    <3>4. ended \in SUBSET Requests
      OBVIOUS
    <3> QED BY <3>1, <3>2, <3>3, <3>4 DEF Ledger!Next, Ledger!End
  <2>rec. ASSUME NEW w \in Workers, proc[w] \in {"repairing", "marking"},
                 NEW rows \in [Requests -> Row], journal' = Reconciled(rows),
                 \A k \in Requests : rows[k].status # "absent" => journal[k].status # "absent",
                 UNCHANGED <<saved, thread>>
          PROVE  [Ledger!Next]_(Ledger!ledger)
    <3>1. \A k \in Requests : ~Occupying(k)
      BY <2>rec DEF SlotCore, Occupying
    <3>2. \A k \in Requests : ~Occupying(k)'
      BY <2>rec, <3>1 DEF Occupying
    <3>3. ASSUME NEW k \in Requests
          PROVE  \/ LedgerState(journal[k])' = LedgerState(journal[k])
                 \/ LedgerState(journal[k]) = "open" /\ LedgerState(journal[k])' = "ended"
      <4>1. journal[k] \in Row /\ rows[k] \in Row
        BY <2>rec DEF TypeOK
      <4>2. CASE rows[k].status = "absent"
        BY <2>rec, <4>2 DEF Reconciled, LedgerState
      <4>3. CASE rows[k].status # "absent"
        <5>1. journal'[k].status \in Terminal
          BY <2>rec, <4>1, <4>3 DEF Reconciled, Row, Terminal
        <5>2. journal[k].status \in Active \cup Terminal
          BY <2>rec, <4>1, <4>3 DEF Row
        <5> QED BY <5>1, <5>2 DEF LedgerState, Active, Terminal
      <4> QED BY <4>2, <4>3
    <3> QED BY <3>1, <3>2, <3>3, <2>en, <2>rec
  <2>1. ASSUME NEW w \in Workers, Recover(w) PROVE [Ledger!Next]_(Ledger!ledger)
    <3>1. CASE Repair(w)
      BY <3>1, <2>rec DEF Repair, manager, TypeOK
    <3>2. CASE MarkTasks(w)
      <4>1. /\ proc[w] = "marking" /\ seen[w] \in [Requests -> Row]
            /\ journal' = Reconciled(seen[w]) /\ UNCHANGED <<saved, thread>>
        BY <3>2 DEF MarkTasks, manager, TypeOK
      <4>2. \A k \in Requests :
              seen[w][k].status # "absent" => journal[k].status # "absent"
        BY <4>1 DEF SlotCore
      <4> QED BY <4>1, <4>2, <2>rec
    <3>3. CASE ~Repair(w) /\ ~MarkTasks(w)
      <4>1. UNCHANGED <<database, manager>>
        BY <2>1, <3>3 DEF Recover, BindExecutor, BindObserver, ReadOrphans, RepairConflict, ReadTasks
      <4> QED BY <4>1, <2>st DEF database, manager, Occupying
    <3> QED BY <3>1, <3>2, <3>3
  <2>2. ASSUME NEW w \in Workers, Close(w) PROVE [Ledger!Next]_(Ledger!ledger)
    BY <2>2, <2>st DEF Close, database, manager, Occupying
  <2>3. ASSUME NEW w \in Workers, Crash(w) \/ Exit(w) PROVE [Ledger!Next]_(Ledger!ledger)
    <3>0. Vanish(w) /\ UNCHANGED <<journal, saved>>
      BY <2>3 DEF Crash, Exit, Vanish, database
    <3>1. \A k \in Requests : /\ thread'[k].status = thread[k].status
                              /\ thread'[k].pc \in {thread[k].pc, "gone"}
      BY <3>0 DEF Vanish, TypeOK, Thread
    <3> QED BY <3>0, <3>1, <2>re DEF Occupying
  <2>4. ASSUME NEW w \in Workers, NEW k \in Requests, Accept(w, k)
        PROVE  [Ledger!Next]_(Ledger!ledger)
    <3>1. /\ thread' = [thread EXCEPT ![k] = [pc |-> "accepted", at |-> w,
                                              status |-> "starting", done |-> 0]]
          /\ journal' = [journal EXCEPT ![k] = RowOf(thread'[k])]
          /\ lock = w /\ ~Busy(w) /\ journal[k].status = "absent" /\ saved' = saved
      BY <2>4 DEF Accept
    <3>2. LedgerSlot = Nobody
      <4>1. \A l \in Requests : ~Occupying(l)
        BY <3>1 DEF Busy, Occupying, SlotCore
      <4> QED BY <4>1, <2>l
    <3>3. /\ thread'[k] = [pc |-> "accepted", at |-> w, status |-> "starting", done |-> 0]
          /\ journal'[k].status = "starting"
          /\ \A l \in Requests \ {k} : journal'[l] = journal[l]
      BY <3>1 DEF TypeOK, RowOf
    <3>4. LedgerSlot' = k
      BY <3>3, <2>l DEF Occupying, Active
    <3>5. state' = [state EXCEPT ![k] = "open"] /\ state[k] = "absent" /\ attempts' = attempts
      BY <3>1, <3>3 DEF LedgerState, Active
    <3> QED BY <3>2, <3>4, <3>5 DEF Ledger!Next, Ledger!Accept
  <2>5. ASSUME NEW k \in Requests, Work(k) \/ Fault(k) PROVE [Ledger!Next]_(Ledger!ledger)
    <3>o. ASSUME NEW task \in Thread, thread' = [thread EXCEPT ![k] = task]
          PROVE  /\ thread'[k] = task
                 /\ \A l \in Requests \ {k} : Occupying(l)' <=> Occupying(l)
      BY <3>o DEF TypeOK, Occupying
    <3>s. ASSUME NEW pc, NEW status, NEW done, Step(k, pc, status, done)
          PROVE  /\ thread'[k].pc = pc /\ thread'[k].status = status
                 /\ Occupying(k)' <=> pc \notin {"idle", "gone"} /\ status \in Active
                 /\ \A l \in Requests \ {k} : Occupying(l)' <=> Occupying(l)
      BY <3>s DEF Step, TypeOK, Occupying
    <3>r. ASSUME SaveRow(k)
          PROVE  /\ journal'[k].status = thread'[k].status
                 /\ \A l \in Requests \ {k} : journal'[l] = journal[l]
      BY <3>r DEF SaveRow, TypeOK, RowOf
    <3>p. thread[k].pc \in {"accepted", "launched", "plan", "attempt", "filing", "progress"} =>
             Occupying(k) /\ journal[k].status \in Active
      BY DEF SlotCore, Occupying, Active
    <3>1. CASE Launch(k)
      <4>1. /\ thread'[k].pc = "launched" /\ thread'[k].status = thread[k].status
            /\ \A l \in Requests \ {k} : thread'[l] = thread[l]
        BY <3>1 DEF Launch, TypeOK, Thread
      <4>2. \A l \in Requests : Occupying(l)' <=> Occupying(l)
        BY <3>1, <4>1 DEF Occupying, Launch
      <4> QED BY <3>1, <4>2, <2>st DEF Launch, database
    <3>2. CASE Begin(k) \/ (k \in Campaigns /\ SaveProgress(k))
      <4>1. /\ thread[k].pc \in {"launched", "progress"} /\ SaveRow(k) /\ saved' = saved
            /\ \E done : \E pc \in {"plan", "attempt"} : Step(k, pc, "running", done)
        BY <3>2 DEF Begin, SaveProgress
      <4>2. Occupying(k)' /\ thread'[k].status = "running"
            /\ \A l \in Requests \ {k} : Occupying(l)' <=> Occupying(l)
        BY <4>1, <3>s DEF Active
      <4>3. LedgerState(journal[k])' = LedgerState(journal[k])
        BY <4>1, <4>2, <3>r, <3>p DEF LedgerState, Active
      <4> QED BY <4>1, <4>2, <4>3, <3>r, <3>p, <2>st
    <3>3. CASE BeginFault(k) \/ (k \in Campaigns /\ (SaveCampaign(k) \/ FileRun(k)))
      <4>1. /\ thread[k].pc \in {"launched", "plan", "filing"}
            /\ UNCHANGED <<journal, saved>>
            /\ \E done : \E pc \in {"dead", "attempt", "progress"} : Step(k, pc, "running", done)
        BY <3>3 DEF BeginFault, SaveCampaign, FileRun, database
      <4>2. Occupying(k)' /\ \A l \in Requests \ {k} : Occupying(l)' <=> Occupying(l)
        BY <4>1, <3>s DEF Active
      <4> QED BY <4>1, <4>2, <3>p, <2>st
    <3>4. CASE Attempt(k)
      <4>1. Occupying(k)' /\ \A l \in Requests \ {k} : Occupying(l)' <=> Occupying(l)
        BY <3>4, <3>s DEF Attempt, Active
      <4>2. Occupying(k) /\ state[k] = "open"
        BY <3>4, <3>p DEF Attempt, LedgerState, Active
      <4>3. LedgerSlot = k /\ LedgerSlot' = k
        BY <4>1, <4>2, <2>l
      <4>4. state' = state /\ attempts' = [attempts EXCEPT ![k] = @ + 1] /\ attempts[k] < Quota(k)
        BY <3>4 DEF Attempt, TypeOK
      <4> QED BY <4>2, <4>3, <4>4 DEF Ledger!Next, Ledger!Attempt
    <3>5. CASE Complete(k) \/ Fail(k)
      <4>1. /\ UNCHANGED <<journal, saved>>
            /\ \E done : \E status \in {"completed", "failed"} : Step(k, "ending", status, done)
        BY <3>5 DEF Complete, Fail, database
      <4>2. \A l \in Requests : Occupying(l)' => Occupying(l)
        BY <4>1, <3>s DEF Active
      <4> QED BY <4>1, <4>2, <2>re
    <3>6. CASE SaveOutcome(k)
      <4>1. /\ thread[k].pc = "ending" /\ Step(k, "dead", thread[k].status, thread[k].done)
            /\ SaveRow(k) /\ saved' = saved
        BY <3>6 DEF SaveOutcome
      <4>2. thread[k].status \in {"completed", "failed"} /\ journal[k].status # "absent"
        BY <4>1 DEF SlotCore
      <4>3. \A l \in Requests : (Occupying(l)' <=> Occupying(l)) /\ ~Occupying(k)
        BY <4>1, <4>2, <3>s DEF Active, Occupying
      <4>4. LedgerState(journal[k])' = "ended" /\ LedgerState(journal[k]) \in {"open", "ended"}
        BY <4>1, <4>2, <3>s, <3>r DEF LedgerState, Active
      <4> QED BY <4>1, <4>3, <4>4, <3>r, <2>en
    <3>7. CASE OutcomeFault(k)
      <4>1. /\ thread[k].pc = "ending" /\ Step(k, "dead", thread[k].status, thread[k].done)
            /\ UNCHANGED <<journal, saved>>
        BY <3>7 DEF OutcomeFault, database
      <4>2. thread[k].status \in {"completed", "failed"}
        BY <4>1 DEF SlotCore
      <4>3. \A l \in Requests : Occupying(l)' <=> Occupying(l)
        BY <4>1, <4>2, <3>s DEF Active, Occupying
      <4> QED BY <4>1, <4>3, <2>st
    <3> QED BY <2>5, <3>1, <3>2, <3>3, <3>4, <3>5, <3>6, <3>7 DEF Work, Fault
  <2>6. ASSUME NEW j \in Jobs, JobStep(j) PROVE [Ledger!Next]_(Ledger!ledger)
    <3>1. UNCHANGED <<journal, thread>>
      BY <2>6 DEF JobStep, JobStart, JobAttempt, JobFile, JobConflict, JobDone, JobStop,
                  outsideJob, manager
    <3>2. \A k \in Requests : saved'[k] = saved[k]
      BY <2>6 DEF JobStep, JobStart, JobAttempt, JobFile, JobConflict, JobDone, JobStop, TypeOK
    <3> QED BY <3>1, <3>2, <2>st DEF Occupying
  <2>7. CASE UNCHANGED vars
    BY <2>7, <2>st DEF vars, database, manager, Occupying
  <2> QED
    BY <2>1, <2>2, <2>3, <2>4, <2>5, <2>6, <2>7 DEF Next, StartCampaign, StartReproduction
<1> QED BY <1>1, <1>2, TypeCorrect, SlotCorrect, PTL DEF Spec, ImplementsLedger, Ledger!Spec

=============================================================================
