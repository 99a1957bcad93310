---------------------------- MODULE WorkerProofs ----------------------------
(* Theorems about Worker, for every number of workers, runs, retries and    *)
(* faults.                                                                  *)
EXTENDS Worker, TLAPS, FiniteSetTheorems

(* The handler's program counter and its goal go together. *)
GoalOK(h) ==
    /\ h.pc \in {"idle", "dead", "check", "count"} => h.goal = "skip"
    /\ h.pc \in {"find1", "save1"} => h.goal # "skip"
    /\ h.pc \in {"find2", "save2"} => h.goal \in {"running", "succeeded", "failed", "final"}
    /\ h.pc = "execute" => h.goal = "running"
    /\ h.pc = "backoff" => h.goal = "retry" /\ h.retry < MaxRetries
    /\ h.goal = "retry" => h.retry < MaxRetries
    /\ h.pc = "publish" => h.goal \in {"succeeded", "failed", "final"}

TypeInv == TypeOK /\ \A w \in Workers : GoalOK(worker[w])

-----------------------------------------------------------------------------
(* A message handler moves on without touching anything but its own state:  *)
(* it stays typed if the new handler state is.                              *)
LEMMA BecomeTyped ==
    ASSUME TypeInv, NEW w \in Workers, NEW h \in Handler, Become(w, h),
           h.pc \notin {"idle", "dead"} <=> h.run \in Runs, GoalOK(h)
    PROVE  /\ worker' \in [Workers -> Handler]
           /\ \A v \in Workers : Busy(v)' <=> worker'[v].run \in Runs
           /\ \A v \in Workers : GoalOK(worker[v])'
BY DEF TypeInv, TypeOK, Become, Busy, GoalOK

LEMMA RestingTyped ==
    ASSUME NEW pc \in {"idle", "dead"}
    PROVE  /\ Resting(pc) \in Handler
           /\ Resting(pc).run \notin Runs
           /\ GoalOK(Resting(pc))
           /\ Resting(pc).pc = pc
BY RunsAssumption, RetriesAssumption, CeilingAssumption
   DEF Resting, Handler, PC, Goal, Row, Status, Terminal, FreshRow, GoalOK

(* The pieces of the handler give typed handler states. *)
LEMMA PersistTyped ==
    ASSUME NEW h \in Handler, NEW goal \in Goal \ {"skip"},
           goal = "retry" => h.retry < MaxRetries
    PROVE  LET k == Persist(h, goal)
           IN  /\ k \in Handler
               /\ k.run = h.run
               /\ k.pc = "find1"
               /\ GoalOK(k)
BY RetriesAssumption DEF Persist, Handler, PC, Goal, GoalOK

LEMMA RecoverTyped ==
    ASSUME NEW h \in Handler, NEW fatal \in BOOLEAN
    PROVE  LET k == Recover(h, fatal)
           IN  /\ k \in Handler
               /\ k.run = h.run
               /\ k.pc = "find1"
               /\ GoalOK(k)
<1>1. CASE ~fatal /\ h.retry + 1 <= MaxRetries
  <2>1. h.retry < MaxRetries
    BY <1>1, RetriesAssumption DEF Handler
  <2>2. QED
    BY <1>1, <2>1, PersistTyped DEF Recover, Goal
<1>2. CASE ~(~fatal /\ h.retry + 1 <= MaxRetries)
  BY <1>2, PersistTyped DEF Recover, Goal
<1>3. QED
  BY <1>1, <1>2

LEMMA WrittenTyped ==
    ASSUME NEW h \in Handler, GoalOK(h), h.pc \in {"save1", "save2"}
    PROVE  Written(h) \in Row
BY RetriesAssumption
   DEF Written, StatusFor, Handler, Row, Status, Terminal, Goal, GoalOK

LEMMA StrikeTyped ==
    ASSUME TypeInv, NEW c \in FaultClass, Strike(c)
    PROVE  faults' \in [FaultClass -> Nat]
BY DEF TypeInv, TypeOK, Strike

-----------------------------------------------------------------------------
LEMMA InitTypeInv == Init => TypeInv
<1>1. FreshRow \in Row
  BY RetriesAssumption DEF FreshRow, Row, Status, Terminal
<1>2. QED
  BY <1>1, RestingTyped, CeilingAssumption
     DEF Init, TypeInv, TypeOK, Msg, Busy

LEMMA NextTypeInv == TypeInv /\ [Next]_vars => TypeInv'
<1> SUFFICES ASSUME TypeInv, [Next]_vars PROVE TypeInv'
  OBVIOUS
<1>1. CASE UNCHANGED vars
  BY <1>1 DEF TypeInv, TypeOK, vars, Busy, GoalOK
<1>2. ASSUME NEW w \in Workers, NEW r \in Runs, Receive(w, r)
      PROVE  TypeInv'
  <2> DEFINE n == IF msg[r].reads < ReadCeiling THEN msg[r].reads + 1 ELSE ReadCeiling
             h == [Resting(IF Kind[r] = "malformed" THEN "archive" ELSE "check")
                     EXCEPT !.run = r, !.reads = n]
  <2>1. n \in 0..ReadCeiling
    BY CeilingAssumption DEF TypeInv, TypeOK, Msg
  <2>2. h \in Handler /\ h.run = r /\ h.pc \in {"archive", "check"} /\ GoalOK(h)
    <3> DEFINE pc == IF Kind[r] = "malformed" THEN "archive" ELSE "check"
    <3>1. FreshRow \in Row
      BY RetriesAssumption DEF FreshRow, Row, Status, Terminal
    <3>2. h = [pc |-> pc, run |-> r, reads |-> n, retry |-> 0, goal |-> "skip",
               snap |-> FreshRow]
      <4> HIDE DEF pc, n
      <4>1. h = [Resting(pc) EXCEPT !.run = r, !.reads = n]
        BY DEF h, pc
      <4> HIDE DEF h
      <4>2. QED
        BY <4>1 DEF Resting
    <3>3. pc \in {"archive", "check"}
      OBVIOUS
    <3> HIDE DEF pc, n, h
    <3>4. QED
      BY <2>1, <3>1, <3>2, <3>3, RetriesAssumption DEF Handler, PC, Goal, GoalOK
  <2>3. msg' \in [Runs -> Msg]
    BY <1>2, <2>1 DEF Receive, TypeInv, TypeOK, Msg
  <2> HIDE DEF h
  <2>4. Become(w, h)
    BY <1>2 DEF Receive, h
  <2>5. QED
    BY <1>2, <2>2, <2>3, <2>4, BecomeTyped DEF Receive, TypeInv, TypeOK
<1>3. ASSUME NEW r \in Runs, VtExpires(r)
      PROVE  TypeInv'
  <2>1. faults' \in [FaultClass -> Nat]
    BY <1>3, StrikeTyped DEF VtExpires, FaultClass, TypeInv, TypeOK
  <2>2. QED
    BY <1>3, <2>1 DEF VtExpires, TypeInv, TypeOK, Msg, Busy
<1>4. ASSUME NEW w \in Workers, PollEmpty(w)
      PROVE  TypeInv'
  BY <1>1, <1>4 DEF PollEmpty
<1>5. ASSUME NEW w \in Workers, Crash(w)
      PROVE  TypeInv'
  <2>1. faults' \in [FaultClass -> Nat]
    BY <1>5, StrikeTyped DEF Crash, FaultClass
  <2>2. QED
    BY <1>5, <2>1, RestingTyped, BecomeTyped DEF Crash, TypeInv, TypeOK
<1>6. ASSUME NEW w \in Workers, Restart(w)
      PROVE  TypeInv'
  BY <1>6, RestingTyped, BecomeTyped DEF Restart, TypeInv, TypeOK
<1>7. ASSUME NEW w \in Workers, Handle(w)
      PROVE  TypeInv'
  <2> DEFINE h == worker[w]
  <2>1. h \in Handler /\ GoalOK(h)
    BY DEF TypeInv, TypeOK
  <2>2. ASSUME h.pc \notin {"idle", "dead"} PROVE h.run \in Runs
    BY <2>2 DEF TypeInv, TypeOK, Busy
  <2>3. CASE CheckStatus(w)
    <3> DEFINE k == [h EXCEPT !.pc = IF row[h.run].status \in Terminal
                                       THEN "archive" ELSE "count"]
    <3>1. k \in Handler /\ k.run \in Runs /\ k.pc \notin {"idle", "dead"} /\ GoalOK(k)
      BY <2>1, <2>2, <2>3 DEF CheckStatus, Handler, PC, GoalOK
    <3>2. QED
      BY <2>3, <3>1, BecomeTyped DEF CheckStatus, TypeInv, TypeOK
  <2>4. CASE ReadRetryCount(w)
    <3> DEFINE k == [h EXCEPT !.retry = row[h.run].retry]
    <3>1. k \in Handler /\ k.run \in Runs
      BY <2>1, <2>2, <2>4 DEF ReadRetryCount, Handler, TypeInv, TypeOK, Row
    <3>2. QED
      BY <2>4, <3>1, PersistTyped, BecomeTyped DEF ReadRetryCount, TypeInv, TypeOK, Goal
  <2>5. CASE ReadFails(w)
    <3>1. faults' \in [FaultClass -> Nat]
      BY <2>5, StrikeTyped DEF ReadFails, FaultClass
    <3>2. QED
      BY <2>1, <2>2, <2>5, <3>1, PersistTyped, BecomeTyped DEF ReadFails, TypeInv, TypeOK, Goal
  <2>6. CASE FindRow(w)
    <3> DEFINE k == [h EXCEPT !.snap = row[h.run],
                              !.pc = IF h.pc = "find1" THEN "save1" ELSE "save2"]
    <3>1. k \in Handler /\ k.run \in Runs /\ k.pc \notin {"idle", "dead"} /\ GoalOK(k)
      BY <2>1, <2>2, <2>6 DEF FindRow, Handler, PC, GoalOK, TypeInv, TypeOK
    <3>2. QED
      BY <2>6, <3>1, BecomeTyped DEF FindRow, TypeInv, TypeOK
  <2>7. CASE SaveRow(w)
    <3> DEFINE k == [h EXCEPT !.pc = AfterSave(h)]
    <3>1. k \in Handler /\ k.run \in Runs /\ k.pc \notin {"idle", "dead"} /\ GoalOK(k)
      BY <2>1, <2>2, <2>7 DEF SaveRow, AfterSave, Handler, PC, GoalOK, Goal
    <3>2. row' \in [Runs -> Row]
      BY <2>1, <2>2, <2>7, WrittenTyped DEF SaveRow, TypeInv, TypeOK
    <3>3. QED
      BY <2>7, <3>1, <3>2, BecomeTyped DEF SaveRow, TypeInv, TypeOK
  <2>8. CASE PersistFails(w)
    <3>1. faults' \in [FaultClass -> Nat]
      BY <2>8, StrikeTyped DEF PersistFails, FaultClass
    <3>2. row' \in [Runs -> Row]
      BY <2>1, <2>2, <2>8, WrittenTyped DEF PersistFails, TypeInv, TypeOK
    <3>3. PICK fatal \in BOOLEAN : Become(w, AfterPersistError(h, fatal))
      BY <2>8 DEF PersistFails
    <3> DEFINE k == AfterPersistError(h, fatal)
    <3>4. h.run \in Runs /\ h.goal # "skip"
      BY <2>1, <2>2, <2>8 DEF PersistFails, GoalOK
    <3>5. k \in Handler /\ k.run \in Runs /\ k.pc \notin {"idle", "dead"} /\ GoalOK(k)
      <4>1. CASE h.goal \in {"running", "succeeded"}
        BY <2>1, <3>4, <4>1, RecoverTyped DEF AfterPersistError
      <4>2. CASE h.goal = "retry"
        BY <2>1, <3>4, <4>2, PersistTyped DEF AfterPersistError, Goal
      <4>3. CASE h.goal \in {"failed", "final"}
        BY <2>1, <3>4, <4>3 DEF AfterPersistError, Handler, PC, GoalOK
      <4>4. QED
        BY <2>1, <3>4, <4>1, <4>2, <4>3 DEF Handler, Goal
    <3> HIDE DEF k
    <3>6. Become(w, k)
      BY <3>3 DEF k
    <3>7. QED
      BY <2>8, <3>1, <3>2, <3>5, <3>6, BecomeTyped DEF PersistFails, TypeInv, TypeOK
  <2>9. CASE Backoff(w)
    <3> DEFINE k == [h EXCEPT !.retry = @ + 1]
    <3>1. k \in Handler /\ k.run \in Runs
      BY <2>1, <2>2, <2>9, RetriesAssumption DEF Backoff, Handler, GoalOK
    <3>2. QED
      BY <2>9, <3>1, PersistTyped, BecomeTyped DEF Backoff, TypeInv, TypeOK, Goal
  <2>10. CASE ExecuteSucceeds(w)
    <3>1. pages' \in [Runs -> Nat]
      BY <2>1, <2>2, <2>10 DEF ExecuteSucceeds, TypeInv, TypeOK
    <3>2. QED
      BY <2>1, <2>2, <2>10, <3>1, PersistTyped, BecomeTyped
         DEF ExecuteSucceeds, TypeInv, TypeOK, Goal
  <2>11. CASE ExecuteFails(w)
    <3>1. pages' \in [Runs -> Nat]
      BY <2>1, <2>2, <2>11 DEF ExecuteFails, TypeInv, TypeOK
    <3>2. PICK fatal \in BOOLEAN : Become(w, Recover(h, fatal))
      BY <2>11 DEF ExecuteFails
    <3>3. h.run \in Runs
      BY <2>2, <2>11 DEF ExecuteFails
    <3>4. QED
      BY <2>1, <2>11, <3>1, <3>2, <3>3, RecoverTyped, BecomeTyped
         DEF ExecuteFails, TypeInv, TypeOK
  <2>12. CASE ExecuteIncomplete(w)
    BY <2>1, <2>2, <2>12, PersistTyped, BecomeTyped DEF ExecuteIncomplete, TypeInv, TypeOK, Goal
  <2>13. CASE Publish(w)
    <3> DEFINE k == [h EXCEPT !.pc = "archive"]
    <3>1. k \in Handler /\ k.run \in Runs /\ k.pc \notin {"idle", "dead"} /\ GoalOK(k)
      BY <2>1, <2>2, <2>13 DEF Publish, Handler, PC, GoalOK
    <3>2. notified' \in [Runs -> [success: Nat, failure: Nat]]
      BY <2>2, <2>13 DEF Publish, TypeInv, TypeOK
    <3>3. QED
      BY <2>13, <3>1, <3>2, BecomeTyped DEF Publish, TypeInv, TypeOK
  <2>14. CASE Archive(w)
    <3>1. msg' \in [Runs -> Msg]
      BY <2>2, <2>14 DEF Archive, TypeInv, TypeOK, Msg
    <3>2. QED
      BY <2>14, <3>1, RestingTyped, BecomeTyped DEF Archive, TypeInv, TypeOK
  <2>15. CASE ArchiveFails(w)
    <3>1. faults' \in [FaultClass -> Nat]
      BY <2>15, StrikeTyped DEF ArchiveFails, FaultClass
    <3>2. msg' \in [Runs -> Msg]
      BY <2>2, <2>15 DEF ArchiveFails, TypeInv, TypeOK, Msg
    <3>3. CASE h.goal = "final"
      BY <2>15, <3>1, <3>2, <3>3, RestingTyped, BecomeTyped DEF ArchiveFails, TypeInv, TypeOK
    <3>4. CASE h.goal # "final" /\ Kind[h.run] = "malformed"
      <4> DEFINE k == [h EXCEPT !.goal = "final"]
      <4>1. k \in Handler /\ k.run \in Runs /\ k.pc \notin {"idle", "dead"} /\ GoalOK(k)
        BY <2>1, <2>2, <2>15 DEF ArchiveFails, Handler, PC, Goal, GoalOK
      <4>2. QED
        BY <2>15, <3>1, <3>2, <3>4, <4>1, BecomeTyped DEF ArchiveFails, TypeInv, TypeOK
    <3>5. CASE h.goal # "final" /\ Kind[h.run] # "malformed"
      BY <2>1, <2>2, <2>15, <3>1, <3>2, <3>5, PersistTyped, BecomeTyped
         DEF ArchiveFails, TypeInv, TypeOK, Goal
    <3>6. QED
      BY <3>3, <3>4, <3>5
  <2>16. QED
    BY <1>7, <2>3, <2>4, <2>5, <2>6, <2>7, <2>8, <2>9, <2>10, <2>11, <2>12, <2>13,
       <2>14, <2>15 DEF Handle
<1>8. QED
  BY <1>1, <1>2, <1>3, <1>4, <1>5, <1>6, <1>7 DEF Next

LEMMA SpecTypeInv == Spec => []TypeInv
BY InitTypeInv, NextTypeInv, PTL DEF Spec

(* Every variable keeps its type; in particular no read, retry or row       *)
(* leaves its range however the faults fall (worker.py, job_runs).          *)
THEOREM TypeCorrect == Spec => []TypeOK
BY SpecTypeInv, PTL DEF TypeInv

-----------------------------------------------------------------------------
(* A page behind every success.  The row, the copies of it that handlers    *)
(* hold, however stale, and the handlers about to write "succeeded" all     *)
(* vouch for a page; pages are never deleted, so a stale copy stays true.   *)
PageInv ==
    \A r \in Runs : Kind[r] = "writes" =>
        /\ row[r].status = "succeeded" => pages[r] > 0
        /\ \A w \in Workers : worker[w].run = r =>
             /\ worker[w].snap.status = "succeeded" => pages[r] > 0
             /\ worker[w].goal = "succeeded" => pages[r] > 0

LEMMA NextPageInv == TypeInv /\ PageInv /\ [Next]_vars => PageInv'
<1> SUFFICES ASSUME TypeInv, PageInv, [Next]_vars PROVE PageInv'
  OBVIOUS
<1> USE DEF PageInv, TypeInv, TypeOK, Become
<1>1. CASE UNCHANGED vars
  BY <1>1 DEF vars
<1>2. ASSUME NEW w \in Workers, NEW r \in Runs, Receive(w, r)
      PROVE  PageInv'
  BY <1>2 DEF Receive, Resting, FreshRow
<1>3. ASSUME NEW r \in Runs, VtExpires(r)
      PROVE  PageInv'
  BY <1>3 DEF VtExpires
<1>4. ASSUME NEW w \in Workers, PollEmpty(w)
      PROVE  PageInv'
  BY <1>1, <1>4 DEF PollEmpty
<1>5. ASSUME NEW w \in Workers, Crash(w)
      PROVE  PageInv'
  BY <1>5, RunsAssumption DEF Crash, Resting
<1>6. ASSUME NEW w \in Workers, Restart(w)
      PROVE  PageInv'
  BY <1>6, RunsAssumption DEF Restart, Resting
<1>7. ASSUME NEW w \in Workers, Handle(w)
      PROVE  PageInv'
  <2>1. worker[w] \in Handler /\ GoalOK(worker[w])
    OBVIOUS
  <2>2. worker[w].pc \notin {"idle", "dead"} => worker[w].run \in Runs
    BY DEF Busy
  <2>3. CASE CheckStatus(w)
    BY <2>1, <2>3 DEF CheckStatus, Handler
  <2>4. CASE ReadRetryCount(w)
    BY <2>1, <2>4 DEF ReadRetryCount, Persist, Handler
  <2>5. CASE ReadFails(w)
    BY <2>1, <2>5 DEF ReadFails, Persist, Handler
  <2>6. CASE FindRow(w)
    BY <2>1, <2>6 DEF FindRow, Handler
  <2>7. CASE SaveRow(w)
    BY <2>1, <2>2, <2>7 DEF SaveRow, Written, StatusFor, Handler, Row
  <2>8. CASE PersistFails(w)
    <3>1. PICK fatal \in BOOLEAN : Become(w, AfterPersistError(worker[w], fatal))
      BY <2>8 DEF PersistFails
    <3>2. \A r \in Runs : Kind[r] = "writes" /\ row'[r].status = "succeeded" => pages[r] > 0
      BY <2>1, <2>2, <2>8 DEF PersistFails, Written, StatusFor, Handler, Row
    <3> DEFINE k == AfterPersistError(worker[w], fatal)
    <3>3. /\ k.run = worker[w].run
          /\ k.snap = worker[w].snap
          /\ k.goal = "succeeded" => worker[w].goal = "succeeded"
      BY <2>1 DEF AfterPersistError, Recover, Persist, Handler
    <3> HIDE DEF k
    <3>4. worker' = [worker EXCEPT ![w] = k]
      BY <3>1 DEF k
    <3>5. QED
      BY <2>8, <3>2, <3>3, <3>4 DEF PersistFails
  <2>9. CASE Backoff(w)
    BY <2>1, <2>9 DEF Backoff, Persist, Handler
  <2>10. CASE ExecuteSucceeds(w)
    BY <2>1, <2>2, <2>10 DEF ExecuteSucceeds, Persist, Handler
  <2>11. CASE ExecuteFails(w)
    <3>1. PICK fatal \in BOOLEAN : Become(w, Recover(worker[w], fatal))
      BY <2>11 DEF ExecuteFails
    <3> DEFINE k == Recover(worker[w], fatal)
    <3>2. k.run = worker[w].run /\ k.snap = worker[w].snap /\ k.goal # "succeeded"
      BY <2>1 DEF Recover, Persist, Handler
    <3>3. \A r \in Runs : pages[r] > 0 => pages'[r] > 0
      BY <2>2, <2>11 DEF ExecuteFails
    <3> HIDE DEF k
    <3>4. worker' = [worker EXCEPT ![w] = k]
      BY <3>1 DEF k
    <3>5. QED
      BY <2>11, <3>2, <3>3, <3>4 DEF ExecuteFails
  <2>12. CASE ExecuteIncomplete(w)
    BY <2>1, <2>12 DEF ExecuteIncomplete, Persist, Handler
  <2>13. CASE Publish(w)
    BY <2>1, <2>13 DEF Publish, Handler
  <2>14. CASE Archive(w)
    BY <2>14, RunsAssumption DEF Archive, Resting
  <2>15. CASE ArchiveFails(w)
    BY <2>1, <2>15, RunsAssumption DEF ArchiveFails, Resting, Persist, Handler
  <2>16. QED
    BY <1>7, <2>3, <2>4, <2>5, <2>6, <2>7, <2>8, <2>9, <2>10, <2>11, <2>12, <2>13,
       <2>14, <2>15 DEF Handle
<1>8. QED
  BY <1>1, <1>2, <1>3, <1>4, <1>5, <1>6, <1>7 DEF Next

(* A run reported as succeeded has its Notion page, for any number of       *)
(* workers writing the row from stale copies and under every fault          *)
(* (update_job_status, update_run, increment_job_retry_count).              *)
THEOREM SuccessHasPage == Spec => []SucceededHasPage
<1>1. Init => PageInv
  BY RunsAssumption DEF Init, PageInv, FreshRow, Resting
<1>2. PageInv => SucceededHasPage
  BY DEF PageInv, SucceededHasPage
<1>3. QED
  BY <1>1, <1>2, SpecTypeInv, NextPageInv, PTL DEF Spec

-----------------------------------------------------------------------------
(* The retry count bounds the pages.  While no worker overlaps another, a   *)
(* run has one handler at most, the copies the handler holds are current,   *)
(* and a handler that has still to execute has used up no more than its     *)
(* retry count and the process deaths account for.                          *)
Deaths == faults["crash"] + faults["archive"]

ToExecute(h) == h.pc \in {"check", "count", "backoff"} \/ h.goal = "running"

CurrentCopies(h, rec) ==
    /\ h.pc \in {"save1", "save2"} => h.snap.retry = rec.retry
    /\ h.goal \in {"running", "retry", "succeeded"} /\ h.pc \notin {"backoff", "publish", "archive"}
         => h.retry = rec.retry
    /\ h.pc = "backoff" => h.retry + 1 = rec.retry

BudgetInv ==
    faults["expire"] = 0 => \A r \in Runs :
        /\ \A v, w \in Workers : Holds(v, r) /\ Holds(w, r) => v = w
        /\ \A w \in Workers : Holds(w, r) =>
             /\ msg[r].state # "visible"
             /\ CurrentCopies(worker[w], row[r])
             /\ ToExecute(worker[w]) => pages[r] <= row[r].retry + Deaths
        /\ msg[r].state # "archived" /\ ~(\E w \in Workers : Holds(w, r))
             => pages[r] <= row[r].retry + Deaths
        /\ pages[r] <= row[r].retry + 1 + Deaths

(* A fault counts one class up and leaves the others. *)
LEMMA StrikeCounts ==
    ASSUME TypeInv, NEW c \in FaultClass, Strike(c)
    PROVE  /\ faults'[c] = faults[c] + 1
           /\ \A d \in FaultClass \ {c} : faults'[d] = faults[d]
BY DEF TypeInv, TypeOK, Strike

LEMMA DeathCounts ==
    ASSUME TypeInv, Strike("crash") \/ Strike("archive")
    PROVE  Deaths' = Deaths + 1
<1>1. faults["crash"] \in Nat /\ faults["archive"] \in Nat
  BY DEF TypeInv, TypeOK, FaultClass
<1>2. CASE Strike("crash")
  <2>1. faults'["crash"] = faults["crash"] + 1 /\ faults'["archive"] = faults["archive"]
    BY <1>2, StrikeCounts DEF FaultClass
  <2>2. QED
    BY <1>1, <2>1 DEF Deaths
<1>3. CASE Strike("archive")
  <2>1. faults'["archive"] = faults["archive"] + 1 /\ faults'["crash"] = faults["crash"]
    BY <1>3, StrikeCounts DEF FaultClass
  <2>2. QED
    BY <1>1, <2>1 DEF Deaths
<1>4. QED
  BY <1>2, <1>3

LEMMA ExpireCounts == TypeInv /\ [Next]_vars => faults'["expire"] >= faults["expire"]
<1> SUFFICES ASSUME TypeInv, [Next]_vars PROVE faults'["expire"] >= faults["expire"]
  OBVIOUS
<1>1. faults["expire"] \in Nat
  BY DEF TypeInv, TypeOK, FaultClass
<1>2. ASSUME NEW c \in FaultClass, Strike(c) PROVE faults'["expire"] >= faults["expire"]
  BY <1>1, <1>2, StrikeCounts DEF FaultClass
<1>3. CASE UNCHANGED faults
  BY <1>1, <1>3
<1>4. QED
  BY <1>2, <1>3
     DEF Next, Handle, vars, Receive, VtExpires, PollEmpty, Crash, Restart, CheckStatus,
         ReadRetryCount, ReadFails, FindRow, SaveRow, PersistFails, Backoff,
         ExecuteSucceeds, ExecuteFails, ExecuteIncomplete, Publish, Archive,
         ArchiveFails, FaultClass

(* The facts of the runs that w does not handle survive a step of w that    *)
(* changes at most the row, the message and the pages of its own run.       *)
LEMMA HandlerStep ==
    ASSUME TypeInv, TypeInv', BudgetInv, faults["expire"] = 0,
           NEW w \in Workers, NEW k \in Handler, NEW r0 \in Runs,
           Holds(w, r0), Become(w, k), k.run = r0, k.pc \notin {"idle", "dead"},
           Deaths' >= Deaths,
           \A r \in Runs \ {r0} : /\ row'[r] = row[r]
                                  /\ pages'[r] = pages[r]
                                  /\ msg'[r] = msg[r],
           msg'[r0].state # "visible",
           CurrentCopies(k, row'[r0]),
           ToExecute(k) => pages'[r0] <= row'[r0].retry + Deaths',
           pages'[r0] <= row'[r0].retry + 1 + Deaths'
    PROVE  BudgetInv'
<1> USE DEF Holds, Busy, Become
<1>1. worker' = [worker EXCEPT ![w] = k] /\ worker \in [Workers -> Handler]
  BY DEF TypeInv, TypeOK
<1>2. Deaths \in Nat /\ Deaths' \in Nat
  BY DEF Deaths, TypeInv, TypeOK, FaultClass
<1>3. \A r \in Runs : /\ pages[r] \in Nat /\ pages'[r] \in Nat
                      /\ row[r].retry \in Nat /\ row'[r].retry \in Nat
  BY RetriesAssumption DEF TypeInv, TypeOK, Row
<1>4. \A v \in Workers, r \in Runs : Holds(v, r)' <=> Holds(v, r)
  BY <1>1
<1>5. ASSUME NEW r \in Runs
      PROVE  /\ \A u, v \in Workers : Holds(u, r)' /\ Holds(v, r)' => u = v
             /\ \A v \in Workers : Holds(v, r)' =>
                  /\ msg'[r].state # "visible"
                  /\ CurrentCopies(worker'[v], row'[r])
                  /\ ToExecute(worker'[v]) => pages'[r] <= row'[r].retry + Deaths'
             /\ msg'[r].state # "archived" /\ ~(\E v \in Workers : Holds(v, r)')
                  => pages'[r] <= row'[r].retry + Deaths'
             /\ pages'[r] <= row'[r].retry + 1 + Deaths'
  <2>1. CASE r = r0
    BY <1>1, <1>4, <2>1 DEF BudgetInv
  <2>2. CASE r # r0
    <3>1. \A v \in Workers : Holds(v, r)' => worker'[v] = worker[v]
      BY <1>1, <2>2
    <3>2. row'[r] = row[r] /\ pages'[r] = pages[r] /\ msg'[r] = msg[r]
      BY <2>2
    <3> HIDE DEF Holds
    <3>3. QED
      BY <1>2, <1>3, <1>4, <3>1, <3>2 DEF BudgetInv
  <2>3. QED
    BY <2>1, <2>2
<1>6. QED
  BY <1>5 DEF BudgetInv, CurrentCopies, ToExecute

(* ... and of a step with which w lets go of its run.                       *)
LEMMA HandlerStops ==
    ASSUME TypeInv, TypeInv', BudgetInv, faults["expire"] = 0,
           NEW w \in Workers, NEW pc \in {"idle", "dead"}, NEW r0 \in Runs,
           Holds(w, r0), Become(w, Resting(pc)),
           Deaths' >= Deaths, UNCHANGED <<row, pages>>,
           \A r \in Runs \ {r0} : msg'[r] = msg[r],
           msg'[r0].state = "archived" \/ Deaths' = Deaths + 1
    PROVE  BudgetInv'
<1> USE DEF Busy, Become
<1>1. worker' = [worker EXCEPT ![w] = Resting(pc)] /\ worker \in [Workers -> Handler]
  BY DEF TypeInv, TypeOK
<1>2. Deaths \in Nat /\ Deaths' \in Nat
  BY DEF Deaths, TypeInv, TypeOK, FaultClass
<1>3. \A r \in Runs : pages[r] \in Nat /\ row[r].retry \in Nat
  BY RetriesAssumption DEF TypeInv, TypeOK, Row
<1>4. \A v \in Workers, r \in Runs :
        Holds(v, r)' => v # w /\ r # r0 /\ Holds(v, r) /\ worker'[v] = worker[v]
  BY <1>1, RestingTyped DEF Holds, BudgetInv
<1>5. \A v \in Workers, r \in Runs : Holds(v, r) /\ r # r0 => Holds(v, r)'
  BY <1>1 DEF Holds
<1>6. ASSUME NEW r \in Runs
      PROVE  /\ \A u, v \in Workers : Holds(u, r)' /\ Holds(v, r)' => u = v
             /\ \A v \in Workers : Holds(v, r)' =>
                  /\ msg'[r].state # "visible"
                  /\ CurrentCopies(worker'[v], row'[r])
                  /\ ToExecute(worker'[v]) => pages'[r] <= row'[r].retry + Deaths'
             /\ msg'[r].state # "archived" /\ ~(\E v \in Workers : Holds(v, r)')
                  => pages'[r] <= row'[r].retry + Deaths'
             /\ pages'[r] <= row'[r].retry + 1 + Deaths'
  BY <1>2, <1>3, <1>4, <1>5, <1>6 DEF BudgetInv
<1>7. QED
  BY <1>6 DEF BudgetInv, CurrentCopies, ToExecute

LEMMA NextBudgetInv == TypeInv /\ TypeInv' /\ BudgetInv /\ [Next]_vars => BudgetInv'
<1> SUFFICES ASSUME TypeInv, TypeInv', BudgetInv, [Next]_vars,
                    faults'["expire"] = 0, faults["expire"] = 0
             PROVE  BudgetInv'
  <2>1. TypeInv /\ [Next]_vars => faults'["expire"] >= faults["expire"]
    BY ExpireCounts
  <2>2. TypeInv => faults["expire"] \in Nat
    BY DEF TypeInv, TypeOK, FaultClass
  <2>3. QED
    BY <2>1, <2>2 DEF BudgetInv
<1>0. /\ Deaths \in Nat /\ Deaths' \in Nat
      /\ \A r \in Runs : /\ pages[r] \in Nat /\ pages'[r] \in Nat
                         /\ row[r].retry \in Nat /\ row'[r].retry \in Nat
  BY RetriesAssumption DEF Deaths, TypeInv, TypeOK, FaultClass, Row
<1>1. CASE UNCHANGED vars
  BY <1>1 DEF vars, BudgetInv, CurrentCopies, ToExecute, Holds, Busy, Deaths
<1>2. ASSUME NEW w \in Workers, NEW r \in Runs, Receive(w, r)
      PROVE  BudgetInv'
  BY <1>0, <1>2
     DEF Receive, Resting, FreshRow, CurrentCopies, ToExecute, BudgetInv, Become, Holds,
         Busy, Deaths, TypeInv, TypeOK
<1>3. ASSUME NEW r \in Runs, VtExpires(r)
      PROVE  BudgetInv'
  <2>1. ~ \E w \in Workers : Holds(w, r)
    BY <1>3, StrikeCounts DEF VtExpires, FaultClass
  <2>2. faults' = faults /\ Deaths' = Deaths
    BY <1>3, <2>1 DEF VtExpires, Deaths
  <2>3. QED
    BY <1>0, <1>3, <2>1, <2>2
       DEF VtExpires, CurrentCopies, ToExecute, BudgetInv, Holds, Busy, TypeInv, TypeOK
<1>4. ASSUME NEW w \in Workers, PollEmpty(w)
      PROVE  BudgetInv'
  BY <1>1, <1>4 DEF PollEmpty
<1>5. ASSUME NEW w \in Workers, Crash(w)
      PROVE  BudgetInv'
  <2>1. Deaths' = Deaths + 1
    BY <1>5, DeathCounts DEF Crash
  <2>2. worker[w].run \in Runs
    BY <1>5 DEF Crash, TypeInv, TypeOK
  <2>3. QED
    BY <1>0, <1>5, <2>1, <2>2, HandlerStops DEF Crash, Holds
<1>6. ASSUME NEW w \in Workers, Restart(w)
      PROVE  BudgetInv'
  BY <1>0, <1>6, RunsAssumption
     DEF Restart, Resting, CurrentCopies, ToExecute, BudgetInv, Become, Holds, Busy,
         Deaths, TypeInv, TypeOK
<1>7. ASSUME NEW w \in Workers, Handle(w)
      PROVE  BudgetInv'
  <2> DEFINE h == worker[w]
             r == worker[w].run
  <2>1. h \in Handler /\ GoalOK(h) /\ Busy(w)
    BY <1>7
       DEF Handle, Busy, TypeInv, TypeOK, CheckStatus, ReadRetryCount, ReadFails, FindRow,
           SaveRow, PersistFails, Backoff, ExecuteSucceeds, ExecuteFails,
           ExecuteIncomplete, Publish, Archive, ArchiveFails
  <2>2. r \in Runs /\ Holds(w, r) /\ h.pc \notin {"idle", "dead"}
    BY <2>1 DEF TypeInv, TypeOK, Busy, Holds
  <2>3. /\ msg[r].state # "visible"
        /\ CurrentCopies(h, row[r])
        /\ ToExecute(h) => pages[r] <= row[r].retry + Deaths
        /\ pages[r] <= row[r].retry + 1 + Deaths
    BY <2>2 DEF BudgetInv
  <2>4. CASE CheckStatus(w)
    <3> DEFINE k == [h EXCEPT !.pc = IF row[r].status \in Terminal THEN "archive" ELSE "count"]
    <3>1. k \in Handler /\ k.run = r /\ k.pc \notin {"idle", "dead"}
      BY <2>1, <2>2 DEF Handler, PC
    <3>2. CurrentCopies(k, row[r]) /\ pages[r] <= row[r].retry + Deaths
      BY <2>1, <2>3, <2>4 DEF CheckStatus, Handler, CurrentCopies, ToExecute, GoalOK
    <3> HIDE DEF k
    <3>3. Become(w, k) /\ UNCHANGED <<msg, row, pages, faults>>
      BY <2>4 DEF CheckStatus, k
    <3>4. QED
      BY <1>0, <2>2, <2>3, <3>1, <3>2, <3>3, HandlerStep DEF Deaths
  <2>5. CASE ReadRetryCount(w)
    <3> DEFINE k == Persist([h EXCEPT !.retry = row[r].retry],
                            IF h.reads >= ReadCeiling THEN "failed" ELSE "running")
    <3>1. k \in Handler /\ k.run = r /\ k.pc = "find1" /\ k.retry = row[r].retry
      BY <2>1, <2>2 DEF Handler, PC, Persist, Goal, TypeInv, TypeOK, Row
    <3>2. pages[r] <= row[r].retry + Deaths
      BY <2>3, <2>5 DEF ReadRetryCount, ToExecute
    <3>3. Become(w, k) /\ UNCHANGED <<msg, row, pages, faults>>
      BY <2>1, <2>5 DEF ReadRetryCount, Handler
    <3> HIDE DEF k
    <3>4. QED
      BY <1>0, <2>2, <2>3, <3>1, <3>2, <3>3, HandlerStep DEF Deaths, CurrentCopies
  <2>6. CASE ReadFails(w)
    <3>1. Deaths' = Deaths
      BY <2>6, StrikeCounts DEF ReadFails, Deaths, FaultClass
    <3> DEFINE k == Persist(h, "final")
    <3>2. k \in Handler /\ k.run = r /\ k.pc = "find1" /\ k.goal = "final"
      BY <2>1 DEF Handler, PC, Persist, Goal
    <3> HIDE DEF k
    <3>3. Become(w, k) /\ UNCHANGED <<msg, row, pages>>
      BY <2>6 DEF ReadFails, k
    <3>4. QED
      BY <1>0, <2>2, <2>3, <3>1, <3>2, <3>3, HandlerStep DEF CurrentCopies, ToExecute
  <2>7. CASE FindRow(w)
    <3> DEFINE k == [h EXCEPT !.snap = row[r],
                              !.pc = IF h.pc = "find1" THEN "save1" ELSE "save2"]
    <3>1. /\ k \in Handler /\ k.run = r /\ k.pc \in {"save1", "save2"}
          /\ k.goal = h.goal /\ k.retry = h.retry /\ k.snap = row[r]
      BY <2>1, <2>2 DEF Handler, PC, TypeInv, TypeOK
    <3> HIDE DEF k
    <3>2. Become(w, k) /\ UNCHANGED <<msg, row, pages, faults>>
      BY <2>7 DEF FindRow, k
    <3>3. CurrentCopies(k, row[r]) /\ (ToExecute(k) => ToExecute(h))
      BY <2>3, <2>7, <3>1 DEF FindRow, CurrentCopies, ToExecute
    <3>4. QED
      BY <1>0, <2>2, <2>3, <3>1, <3>2, <3>3, HandlerStep DEF Deaths
  <2>8. CASE SaveRow(w)
    <3> DEFINE k == [h EXCEPT !.pc = AfterSave(h)]
    <3>1. /\ k \in Handler /\ k.run = r /\ k.pc \notin {"idle", "dead"}
          /\ k.goal = h.goal /\ k.retry = h.retry /\ k.pc = AfterSave(h)
      BY <2>1 DEF Handler, PC, AfterSave
    <3> HIDE DEF k
    <3>2. Become(w, k) /\ UNCHANGED <<msg, pages, faults>>
      BY <2>8 DEF SaveRow, k
    <3>3. row' = [row EXCEPT ![r] = Written(h)]
      BY <2>8 DEF SaveRow
    <3>4. row'[r].retry = IF h.goal = "retry" THEN h.retry + 1 ELSE row[r].retry
      BY <2>1, <2>2, <2>3, <2>8, <3>3
         DEF SaveRow, Written, CurrentCopies, Handler, TypeInv, TypeOK, Row
    <3>5. row'[r].retry >= row[r].retry
      BY <1>0, <2>1, <2>2, <2>3, <2>8, <3>4 DEF SaveRow, CurrentCopies, Handler
    <3>6. CurrentCopies(k, row'[r])
      BY <2>1, <2>3, <2>8, <3>1, <3>4 DEF SaveRow, AfterSave, CurrentCopies, GoalOK
    <3>7. ToExecute(k) => pages[r] <= row'[r].retry + Deaths
      <4>1. CASE h.goal = "retry"
        BY <1>0, <2>1, <2>2, <2>3, <2>8, <3>4, <4>1 DEF SaveRow, CurrentCopies, Handler
      <4>2. CASE h.goal # "retry"
        BY <1>0, <2>3, <3>1, <3>4, <4>2 DEF ToExecute, AfterSave
      <4>3. QED
        BY <4>1, <4>2
    <3>8. pages[r] <= row'[r].retry + 1 + Deaths
      BY <1>0, <2>2, <2>3, <3>5
    <3>9. \A r1 \in Runs \ {r} : row'[r1] = row[r1]
      BY <3>3 DEF TypeInv, TypeOK
    <3>10. Deaths' = Deaths
      BY <3>2 DEF Deaths
    <3>11. QED
      BY <1>0, <2>2, <2>3, <3>1, <3>2, <3>6, <3>7, <3>8, <3>9, <3>10, HandlerStep
  <2>9. CASE PersistFails(w)
    <3>1. Deaths' = Deaths
      BY <2>9, StrikeCounts DEF PersistFails, Deaths, FaultClass
    <3>2. PICK fatal \in BOOLEAN : Become(w, AfterPersistError(h, fatal))
      BY <2>9 DEF PersistFails
    <3> DEFINE k == AfterPersistError(h, fatal)
    <3>3. /\ k \in Handler /\ k.run = r /\ k.pc \in {"find1", "publish"} /\ k.retry = h.retry
          /\ k.goal # "running"
          /\ k.pc = "find1" /\ k.goal = "retry" => h.goal \in {"running", "succeeded"}
          /\ k.pc = "find1" => k.goal \in {"retry", "failed"}
      BY <2>1 DEF AfterPersistError, Recover, Persist, Handler, PC, Goal
    <3> HIDE DEF k
    <3>4. Become(w, k) /\ UNCHANGED <<msg, pages>>
      BY <2>9, <3>2 DEF PersistFails, k
    <3>5. \/ row' = row
          \/ row' = [row EXCEPT ![r] = Written(h)] /\ h.pc \in {"save1", "save2"}
      BY <2>9 DEF PersistFails
    <3>6. \/ row'[r].retry = row[r].retry
          \/ h.goal = "retry" /\ row'[r].retry = h.retry + 1
      BY <2>1, <2>2, <2>3, <3>5
         DEF Written, CurrentCopies, Handler, TypeInv, TypeOK, Row
    <3>7. row'[r].retry >= row[r].retry
      <4>1. CASE row'[r].retry = row[r].retry
        BY <1>0, <2>2, <4>1
      <4>2. CASE h.goal = "retry" /\ row'[r].retry = h.retry + 1 /\ row'[r] # row[r]
        <5>1. h.pc \in {"save1", "save2"}
          BY <2>2, <3>5, <4>2
        <5>2. h.retry = row[r].retry
          BY <2>3, <4>2, <5>1 DEF CurrentCopies
        <5>3. QED
          BY <1>0, <2>2, <4>2, <5>2
      <4>3. QED
        BY <3>6, <4>1, <4>2
    <3>8. CurrentCopies(k, row'[r])
      BY <2>3, <2>9, <3>3, <3>6 DEF PersistFails, CurrentCopies
    <3>9. \A r1 \in Runs \ {r} : row'[r1] = row[r1]
      BY <3>5 DEF TypeInv, TypeOK
    <3>10. pages[r] <= row'[r].retry + 1 + Deaths
      BY <1>0, <2>2, <2>3, <3>7
    <3>11. QED
      BY <1>0, <2>2, <2>3, <3>1, <3>3, <3>4, <3>8, <3>9, <3>10, HandlerStep DEF ToExecute
  <2>10. CASE Backoff(w)
    <3> DEFINE k == Persist([h EXCEPT !.retry = @ + 1], "running")
    <3>1. h.retry < MaxRetries /\ h.retry \in Nat
      BY <2>1, <2>10 DEF Backoff, GoalOK, Handler
    <3>2. k \in Handler /\ k.run = r /\ k.pc = "find1" /\ k.retry = h.retry + 1
      <4>1. h.retry + 1 \in 0..MaxRetries
        BY <3>1, RetriesAssumption
      <4> DEFINE n == h.retry + 1
      <4> HIDE DEF n
      <4>2. [h EXCEPT !.retry = n, !.goal = "running", !.pc = "find1"] \in Handler
        BY <2>1, <4>1 DEF Handler, PC, Goal, n
      <4>3. k = [h EXCEPT !.retry = n, !.goal = "running", !.pc = "find1"]
        BY <2>1 DEF Handler, Persist, n
      <4>4. QED
        BY <2>1, <4>2, <4>3 DEF Handler, n
    <3>3. k.retry = row[r].retry /\ ToExecute(h)
      BY <2>3, <2>10, <3>2 DEF Backoff, CurrentCopies, ToExecute
    <3> HIDE DEF k
    <3>4. Become(w, k) /\ UNCHANGED <<msg, row, pages, faults>>
      BY <2>10 DEF Backoff, k
    <3>5. QED
      BY <1>0, <2>2, <2>3, <3>2, <3>3, <3>4, HandlerStep DEF Deaths, CurrentCopies
  <2>11. CASE ExecuteSucceeds(w)
    <3> DEFINE k == Persist(h, "succeeded")
    <3>1. k \in Handler /\ k.run = r /\ k.pc = "find1" /\ k.retry = h.retry
          /\ k.goal = "succeeded"
      BY <2>1 DEF Handler, PC, Persist, Goal
    <3>2. h.retry = row[r].retry /\ pages[r] <= row[r].retry + Deaths
      BY <2>1, <2>3, <2>11 DEF ExecuteSucceeds, CurrentCopies, GoalOK, ToExecute
    <3> HIDE DEF k
    <3>3. Become(w, k) /\ UNCHANGED <<msg, row, faults>>
      BY <2>11 DEF ExecuteSucceeds, k
    <3>4. /\ pages'[r] <= row[r].retry + 1 + Deaths
          /\ \A r1 \in Runs \ {r} : pages'[r1] = pages[r1]
      BY <1>0, <2>2, <2>11, <3>2 DEF ExecuteSucceeds, TypeInv, TypeOK
    <3>5. QED
      BY <1>0, <2>2, <2>3, <3>1, <3>2, <3>3, <3>4, HandlerStep
         DEF Deaths, CurrentCopies, ToExecute
  <2>12. CASE ExecuteFails(w)
    <3>1. PICK fatal \in BOOLEAN : Become(w, Recover(h, fatal))
      BY <2>12 DEF ExecuteFails
    <3> DEFINE k == Recover(h, fatal)
    <3>2. k \in Handler /\ k.run = r /\ k.pc = "find1" /\ k.retry = h.retry
          /\ k.goal \in {"retry", "failed"}
      BY <2>1 DEF Handler, PC, Recover, Persist, Goal
    <3>3. h.retry = row[r].retry /\ pages[r] <= row[r].retry + Deaths
      BY <2>1, <2>3, <2>12 DEF ExecuteFails, CurrentCopies, GoalOK, ToExecute
    <3> HIDE DEF k
    <3>4. Become(w, k) /\ UNCHANGED <<msg, row, faults>>
      BY <2>12, <3>1 DEF ExecuteFails, k
    <3>5. /\ pages'[r] <= row[r].retry + 1 + Deaths
          /\ \A r1 \in Runs \ {r} : pages'[r1] = pages[r1]
      BY <1>0, <2>2, <2>12, <3>3 DEF ExecuteFails, TypeInv, TypeOK
    <3>6. QED
      BY <1>0, <2>2, <2>3, <3>2, <3>3, <3>4, <3>5, HandlerStep
         DEF Deaths, CurrentCopies, ToExecute
  <2>13. CASE ExecuteIncomplete(w)
    <3> DEFINE k == Persist(h, "final")
    <3>1. k \in Handler /\ k.run = r /\ k.pc = "find1" /\ k.goal = "final"
      BY <2>1 DEF Handler, PC, Persist, Goal
    <3> HIDE DEF k
    <3>2. Become(w, k) /\ UNCHANGED <<msg, row, pages, faults>>
      BY <2>13 DEF ExecuteIncomplete, k
    <3>3. QED
      BY <1>0, <2>2, <2>3, <3>1, <3>2, HandlerStep DEF Deaths, CurrentCopies, ToExecute
  <2>14. CASE Publish(w)
    <3> DEFINE k == [h EXCEPT !.pc = "archive"]
    <3>1. k \in Handler /\ k.run = r /\ k.pc = "archive" /\ k.goal = h.goal
      BY <2>1 DEF Handler, PC
    <3>2. h.goal # "running"
      BY <2>1, <2>14 DEF Publish, GoalOK
    <3> HIDE DEF k
    <3>3. Become(w, k) /\ UNCHANGED <<msg, row, pages, faults>>
      BY <2>14 DEF Publish, k
    <3>4. QED
      BY <1>0, <2>2, <2>3, <3>1, <3>2, <3>3, HandlerStep DEF Deaths, CurrentCopies, ToExecute
  <2>15. CASE Archive(w)
    <3>1. Become(w, Resting("idle")) /\ UNCHANGED <<row, pages, faults>>
      BY <2>15 DEF Archive
    <3>2. msg'[r].state = "archived" /\ \A r1 \in Runs \ {r} : msg'[r1] = msg[r1]
      BY <2>2, <2>15 DEF Archive, TypeInv, TypeOK, Msg
    <3>3. QED
      BY <1>0, <2>2, <3>1, <3>2, HandlerStops DEF Deaths
  <2>16. CASE ArchiveFails(w)
    <3>1. Deaths' = Deaths + 1
      BY <2>16, DeathCounts DEF ArchiveFails
    <3>2. msg'[r].state # "visible" /\ \A r1 \in Runs \ {r} : msg'[r1] = msg[r1]
      BY <2>2, <2>3, <2>16 DEF ArchiveFails, TypeInv, TypeOK, Msg
    <3>3. CASE h.goal = "final"
      BY <1>0, <2>2, <2>16, <3>1, <3>2, <3>3, HandlerStops DEF ArchiveFails
    <3>4. ASSUME NEW k \in Handler, Become(w, k), k.run = r, k.pc \in {"archive", "find1"},
                 k.goal = "final"
          PROVE  BudgetInv'
      <4>1. UNCHANGED <<row, pages>>
        BY <2>16 DEF ArchiveFails
      <4>2. QED
        BY <1>0, <2>2, <2>3, <3>1, <3>2, <3>4, <4>1, HandlerStep DEF CurrentCopies, ToExecute
    <3>5. CASE h.goal # "final" /\ Kind[r] = "malformed"
      <4> DEFINE k == [h EXCEPT !.goal = "final"]
      <4>1. k \in Handler /\ k.run = r /\ k.pc = "archive" /\ k.goal = "final"
        BY <2>1, <2>16 DEF ArchiveFails, Handler, Goal
      <4>2. Become(w, k)
        BY <2>16, <3>5 DEF ArchiveFails
      <4> HIDE DEF k
      <4>3. QED
        BY <3>4, <4>1, <4>2
    <3>6. CASE h.goal # "final" /\ Kind[r] # "malformed"
      <4> DEFINE k == Persist(h, "final")
      <4>1. k \in Handler /\ k.run = r /\ k.pc = "find1" /\ k.goal = "final"
        BY <2>1 DEF Handler, PC, Persist, Goal
      <4>2. Become(w, k)
        BY <2>16, <3>6 DEF ArchiveFails
      <4> HIDE DEF k
      <4>3. QED
        BY <3>4, <4>1, <4>2
    <3>7. QED
      BY <3>3, <3>5, <3>6
  <2>17. QED
    BY <1>7, <2>4, <2>5, <2>6, <2>7, <2>8, <2>9, <2>10, <2>11, <2>12, <2>13,
       <2>14, <2>15, <2>16 DEF Handle
<1>8. QED
  BY <1>1, <1>2, <1>3, <1>4, <1>5, <1>6, <1>7 DEF Next

LEMMA SpecBudgetInv == Spec => []BudgetInv
<1>1. Init => BudgetInv
  BY DEF Init, BudgetInv, Deaths, Holds, Busy, Resting, FreshRow, FaultClass
<1>2. QED
  BY <1>1, SpecTypeInv, NextBudgetInv, PTL DEF Spec

(* While no message becomes visible under a live worker, a run creates at   *)
(* most MaxRetries + 1 pages, plus one for each process that ended before   *)
(* it could count its attempt (increment_job_retry_count runs before the    *)
(* next attempt), for any number of workers, runs and faults.               *)
THEOREM PagesWithinBudget == Spec => []PageBudget
<1>1. ASSUME TypeInv, BudgetInv, NEW r \in Runs, faults["expire"] = 0
      PROVE  pages[r] <= MaxRetries + 1 + faults["crash"] + faults["archive"]
  <2>1. pages[r] <= row[r].retry + 1 + (faults["crash"] + faults["archive"])
    BY <1>1 DEF BudgetInv, Deaths
  <2>2. /\ row[r].retry \in 0..MaxRetries /\ pages[r] \in Nat
        /\ faults["crash"] \in Nat /\ faults["archive"] \in Nat
    BY <1>1 DEF TypeInv, TypeOK, Row, FaultClass
  <2>3. QED
    BY <2>1, <2>2, RetriesAssumption
<1>2. TypeInv /\ BudgetInv => PageBudget
  BY <1>1 DEF PageBudget
<1>3. QED
  BY <1>2, SpecTypeInv, SpecBudgetInv, PTL

-----------------------------------------------------------------------------
(* An upsert by the only handler of a run never lowers the retry count.     *)
LEMMA SaveKeepsRetries ==
    ASSUME TypeInv, BudgetInv, faults["expire"] = 0, NEW w \in Workers,
           worker[w].pc \in {"save1", "save2"},
           row' = [row EXCEPT ![worker[w].run] = Written(worker[w])],
           NEW r \in Runs
    PROVE  row'[r].retry >= row[r].retry
<1> DEFINE h == worker[w]
<1>1. h \in Handler /\ h.run \in Runs /\ Holds(w, h.run)
  BY DEF TypeInv, TypeOK, Holds, Busy
<1>2. row \in [Runs -> Row] /\ row[r].retry \in Nat /\ h.retry \in Nat
  BY <1>1, RetriesAssumption DEF TypeInv, TypeOK, Row, Handler
<1>3. CurrentCopies(h, row[h.run])
  BY <1>1 DEF BudgetInv
<1>4. CASE r # h.run
  BY <1>2, <1>4
<1>5. CASE r = h.run
  <2>1. row'[r] = Written(h)
    BY <1>2, <1>5
  <2>2. Written(h).retry = IF h.goal = "retry" THEN h.retry + 1 ELSE row[r].retry
    BY <1>1, <1>3, <1>5 DEF Written, CurrentCopies, Handler, Row
  <2>3. h.goal = "retry" => h.retry = row[r].retry
    BY <1>3, <1>5 DEF CurrentCopies
  <2>4. QED
    BY <1>2, <2>1, <2>2, <2>3
<1>6. QED
  BY <1>4, <1>5

LEMMA NextKeepsRetries ==
    ASSUME TypeInv, BudgetInv, [Next]_vars, NEW r \in Runs, faults["expire"] = 0
    PROVE  row'[r].retry >= row[r].retry
<1>1. row[r].retry \in Nat
  BY RetriesAssumption DEF TypeInv, TypeOK, Row
<1>2. CASE UNCHANGED row
  BY <1>1, <1>2
<1>3. ASSUME NEW w \in Workers, SaveRow(w)
      PROVE  row'[r].retry >= row[r].retry
  BY <1>3, SaveKeepsRetries DEF SaveRow
<1>4. ASSUME NEW w \in Workers, PersistFails(w)
      PROVE  row'[r].retry >= row[r].retry
  <2>1. CASE UNCHANGED row
    BY <1>2, <2>1
  <2>2. CASE /\ worker[w].pc \in {"save1", "save2"}
             /\ row' = [row EXCEPT ![worker[w].run] = Written(worker[w])]
    BY <2>2, SaveKeepsRetries
  <2>3. QED
    BY <1>4, <2>1, <2>2 DEF PersistFails
<1>5. QED
  BY <1>2, <1>3, <1>4
     DEF Next, Handle, vars, Receive, VtExpires, PollEmpty, Crash, Restart, CheckStatus,
         ReadRetryCount, ReadFails, FindRow, Backoff, ExecuteSucceeds, ExecuteFails,
         ExecuteIncomplete, Publish, Archive, ArchiveFails

(* The persisted retry count never goes back while a message has one        *)
(* handler at a time (update_job_status and update_run write the whole row  *)
(* from a copy, and the copy is current), so a crash gives no run its       *)
(* attempts again.                                                          *)
THEOREM RetriesOnlyGrow == Spec => RetryNeverDecreases
<1>1. ASSUME TypeInv, BudgetInv, [Next]_vars
      PROVE  [\A r \in Runs : faults["expire"] = 0 => row'[r].retry >= row[r].retry]_vars
  BY <1>1, NextKeepsRetries
<1>2. QED
  BY <1>1, SpecTypeInv, SpecBudgetInv, PTL DEF Spec, RetryNeverDecreases

-----------------------------------------------------------------------------
(* What a worker leaves behind: the outcome of a run, its notification, the *)
(* abstract life it implements and the executions it may take.              *)

LEMMA FaultsOnlyGrow ==
    ASSUME TypeInv, [Next]_vars, NEW c \in FaultClass
    PROVE  faults[c] \in Nat /\ faults'[c] >= faults[c]
<1>1. faults[c] \in Nat
  BY DEF TypeInv, TypeOK
<1>2. ASSUME NEW d \in FaultClass, Strike(d) PROVE faults'[c] >= faults[c]
  <2>1. CASE c = d
    BY <1>1, <1>2, <2>1, StrikeCounts
  <2>2. CASE c # d
    BY <1>1, <1>2, <2>2, StrikeCounts
  <2>3. QED
    BY <2>1, <2>2
<1>3. CASE UNCHANGED faults
  BY <1>1, <1>3
<1>4. QED
  BY <1>1, <1>2, <1>3
     DEF Next, Handle, vars, Receive, VtExpires, PollEmpty, Crash, Restart, CheckStatus,
         ReadRetryCount, ReadFails, FindRow, SaveRow, PersistFails, Backoff,
         ExecuteSucceeds, ExecuteFails, ExecuteIncomplete, Publish, Archive,
         ArchiveFails, FaultClass

(* A class that has not struck after a step has not struck in it.           *)
LEMMA NoFaultBefore ==
    ASSUME TypeInv, [Next]_vars, NEW c \in FaultClass, faults'[c] = 0
    PROVE  faults[c] = 0 /\ ~Strike(c)
<1>1. faults[c] \in Nat /\ faults'[c] >= faults[c]
  BY FaultsOnlyGrow
<1>2. Strike(c) => faults'[c] = faults[c] + 1
  BY StrikeCounts
<1>3. QED
  BY <1>1, <1>2

(* Whose step a step of a handler is, and what it leaves alone.             *)
LEMMA HandlerOf ==
    ASSUME TypeInv, NEW w \in Workers, Handle(w)
    PROVE  /\ worker[w] \in Handler /\ GoalOK(worker[w]) /\ worker[w].run \in Runs
           /\ Holds(w, worker[w].run)
           /\ \A v \in Workers \ {w} : worker'[v] = worker[v]
           /\ \A r \in Runs \ {worker[w].run} :
                 row'[r] = row[r] /\ msg'[r] = msg[r] /\ notified'[r] = notified[r]
                 /\ pages'[r] = pages[r]
           /\ worker'[w].run \in {worker[w].run, NoRun}
<1> USE DEF CheckStatus, ReadRetryCount, ReadFails, FindRow,
            SaveRow, PersistFails, Backoff, ExecuteSucceeds, ExecuteFails,
            ExecuteIncomplete, Publish, Archive, ArchiveFails
<1>1. Busy(w) /\ worker[w] \in Handler /\ GoalOK(worker[w])
  BY DEF Handle, Busy, TypeInv, TypeOK
<1>2. worker[w].run \in Runs
  BY <1>1 DEF TypeInv, TypeOK
<1>3. \A v \in Workers \ {w} : worker'[v] = worker[v]
  BY DEF Handle, Become, TypeInv, TypeOK
<1>4. \A r \in Runs \ {worker[w].run} : row'[r] = row[r]
  BY DEF Handle, TypeInv, TypeOK
<1>5. \A r \in Runs \ {worker[w].run} : msg'[r] = msg[r] /\ notified'[r] = notified[r]
  BY DEF Handle, TypeInv, TypeOK
<1>6. \A r \in Runs \ {worker[w].run} : pages'[r] = pages[r]
  BY DEF Handle, TypeInv, TypeOK
<1>7. worker'[w].run \in {worker[w].run, NoRun}
  <2> DEFINE h == worker[w]
  <2>1. worker \in [Workers -> Handler] /\ h \in Handler
    BY DEF TypeInv, TypeOK
  <2>2. \A goal : Persist(h, goal).run = h.run
    BY <2>1 DEF Persist, Handler
  <2>3. \A fatal \in BOOLEAN : Recover(h, fatal).run = h.run
    BY <2>2 DEF Recover
  <2>4. \A fatal \in BOOLEAN : AfterPersistError(h, fatal).run = h.run
    BY <2>1, <2>2, <2>3 DEF AfterPersistError, Handler
  <2>5. \A pc : Resting(pc).run = NoRun
    BY DEF Resting
  <2>6. CASE CheckStatus(w) \/ FindRow(w) \/ SaveRow(w) \/ Publish(w)
    <3>1. CASE CheckStatus(w)
      BY <2>1, <3>1 DEF Become, Handler
    <3>2. CASE FindRow(w)
      BY <2>1, <3>2 DEF Become, Handler
    <3>3. CASE SaveRow(w)
      BY <2>1, <3>3 DEF Become, Handler
    <3>4. CASE Publish(w)
      BY <2>1, <3>4 DEF Become, Handler
    <3>5. QED
      BY <2>6, <3>1, <3>2, <3>3, <3>4
  <2>7. CASE ReadRetryCount(w) \/ Backoff(w)
    BY <2>1, <2>7 DEF Become, Persist, Handler
  <2>8. CASE ReadFails(w) \/ ExecuteSucceeds(w) \/ ExecuteIncomplete(w)
    BY <2>1, <2>2, <2>8 DEF Become
  <2>9. CASE PersistFails(w) \/ ExecuteFails(w)
    BY <2>1, <2>3, <2>4, <2>9 DEF Become
  <2>10. CASE Archive(w) \/ ArchiveFails(w)
    BY <2>1, <2>2, <2>5, <2>10 DEF Become, Handler
  <2>11. QED
    BY <2>6, <2>7, <2>8, <2>9, <2>10 DEF Handle
<1>8. QED
  BY <1>1, <1>2, <1>3, <1>4, <1>5, <1>6, <1>7 DEF Holds

-----------------------------------------------------------------------------
(* What each step of a handler does, field by field.                        *)
Same(w) == /\ worker'[w].run = worker[w].run /\ worker'[w].goal = worker[w].goal
           /\ worker'[w].reads = worker[w].reads /\ worker'[w].retry = worker[w].retry

(* The handler turns to writing the row for `goal`.                         *)
Turns(w, goal) == /\ worker'[w].pc = "find1" /\ worker'[w].goal = goal
                  /\ worker'[w].run = worker[w].run /\ worker'[w].reads = worker[w].reads

(* ... with the retry count it has.                                         *)
TurnsAsIs(w, goal) == Turns(w, goal) /\ worker'[w].retry = worker[w].retry

Outside == <<msg, row, pages, notified>>

LEMMA PersistMoves ==
    ASSUME TypeInv, NEW w \in Workers, NEW goal, Become(w, Persist(worker[w], goal))
    PROVE  TurnsAsIs(w, goal)
<1> DEFINE h == worker[w]
<1>1. worker'[w] = Persist(h, goal) /\ h \in Handler
  BY DEF Become, TypeInv, TypeOK
<1> HIDE DEF h
<1>2. Persist(h, goal) = [h EXCEPT !.goal = goal, !.pc = "find1"]
  BY DEF Persist
<1>3. /\ Persist(h, goal).pc = "find1" /\ Persist(h, goal).goal = goal
      /\ Persist(h, goal).run = h.run /\ Persist(h, goal).reads = h.reads
      /\ Persist(h, goal).retry = h.retry
  BY <1>1, <1>2 DEF Handler
<1>4. QED
  BY <1>1, <1>3 DEF TurnsAsIs, Turns, h

LEMMA RecoverMoves ==
    ASSUME TypeInv, NEW w \in Workers, NEW fatal \in BOOLEAN,
           Become(w, Recover(worker[w], fatal))
    PROVE  \/ TurnsAsIs(w, "retry") /\ worker[w].retry + 1 <= MaxRetries
           \/ TurnsAsIs(w, "failed")
BY PersistMoves DEF Recover

LEMMA ReadMoves ==
    ASSUME TypeInv, NEW w \in Workers
    PROVE  /\ CheckStatus(w) =>
                /\ worker[w].pc = "check" /\ Same(w) /\ UNCHANGED Outside
                /\ worker'[w].pc = IF row[worker[w].run].status \in Terminal
                                   THEN "archive" ELSE "count"
           /\ ReadRetryCount(w) =>
                /\ worker[w].pc = "count" /\ UNCHANGED Outside
                /\ Turns(w, IF worker[w].reads >= ReadCeiling THEN "failed" ELSE "running")
           /\ ReadFails(w) =>
                /\ worker[w].pc \in {"check", "count"} /\ Strike("db") /\ UNCHANGED Outside
                /\ TurnsAsIs(w, "final")
<1>1. worker \in [Workers -> Handler] /\ worker[w] \in Handler
  BY DEF TypeInv, TypeOK
<1>2. ASSUME CheckStatus(w)
      PROVE  /\ worker[w].pc = "check" /\ Same(w) /\ UNCHANGED Outside
             /\ worker'[w].pc = IF row[worker[w].run].status \in Terminal
                                THEN "archive" ELSE "count"
  BY <1>1, <1>2 DEF CheckStatus, Become, Handler, Same, Outside
<1>3. ASSUME ReadRetryCount(w)
      PROVE  /\ worker[w].pc = "count" /\ UNCHANGED Outside
             /\ Turns(w, IF worker[w].reads >= ReadCeiling THEN "failed" ELSE "running")
  <2> DEFINE n == row[worker[w].run].retry
             goal == IF worker[w].reads >= ReadCeiling THEN "failed" ELSE "running"
  <2> HIDE DEF n
  <2>1. worker[w].pc = "count" /\ UNCHANGED Outside
    BY <1>3 DEF ReadRetryCount, Outside
  <2>2. [worker[w] EXCEPT !.retry = n].reads = worker[w].reads
    BY <1>1 DEF Handler
  <2>3. worker'[w] = Persist([worker[w] EXCEPT !.retry = n], goal)
    BY <1>1, <1>3, <2>2 DEF ReadRetryCount, Become, n
  <2> HIDE DEF goal
  <2>4. worker'[w] = [worker[w] EXCEPT !.retry = n, !.goal = goal, !.pc = "find1"]
    BY <1>1, <2>3 DEF Persist, Handler
  <2>5. Turns(w, goal)
    BY <1>1, <2>4 DEF Turns, Handler
  <2>6. QED
    BY <2>1, <2>5 DEF goal
<1>4. ASSUME ReadFails(w)
      PROVE  /\ worker[w].pc \in {"check", "count"} /\ Strike("db") /\ UNCHANGED Outside
             /\ TurnsAsIs(w, "final")
  BY <1>4, PersistMoves DEF ReadFails, Outside
<1>5. QED
  BY <1>2, <1>3, <1>4

LEMMA PersistStepMoves ==
    ASSUME TypeInv, NEW w \in Workers
    PROVE  /\ FindRow(w) =>
                /\ Same(w) /\ UNCHANGED Outside
                /\ worker'[w].snap = row[worker[w].run]
                /\ \/ worker[w].pc = "find1" /\ worker'[w].pc = "save1"
                   \/ worker[w].pc = "find2" /\ worker'[w].pc = "save2"
           /\ SaveRow(w) =>
                /\ worker[w].pc \in {"save1", "save2"} /\ Same(w)
                /\ UNCHANGED <<msg, pages, notified>>
                /\ row' = [row EXCEPT ![worker[w].run] = Written(worker[w])]
                /\ worker'[w].pc = AfterSave(worker[w])
           /\ PersistFails(w) =>
                /\ worker[w].pc \in {"find1", "save1", "find2", "save2"} /\ Strike("db")
                /\ UNCHANGED <<msg, pages, notified>>
                /\ \/ /\ worker[w].goal \in {"running", "succeeded"}
                      /\ worker[w].retry + 1 <= MaxRetries
                      /\ TurnsAsIs(w, "retry")
                   \/ worker[w].goal # "final" /\ TurnsAsIs(w, "failed")
                   \/ worker'[w].pc = "publish" /\ Same(w)
<1>1. worker \in [Workers -> Handler] /\ worker[w] \in Handler
  BY DEF TypeInv, TypeOK
<1>2. ASSUME FindRow(w)
      PROVE  /\ Same(w) /\ UNCHANGED Outside
             /\ worker'[w].snap = row[worker[w].run]
             /\ \/ worker[w].pc = "find1" /\ worker'[w].pc = "save1"
                \/ worker[w].pc = "find2" /\ worker'[w].pc = "save2"
  BY <1>1, <1>2 DEF FindRow, Become, Handler, Same, Outside
<1>3. ASSUME SaveRow(w)
      PROVE  /\ worker[w].pc \in {"save1", "save2"} /\ Same(w)
             /\ UNCHANGED <<msg, pages, notified>>
             /\ row' = [row EXCEPT ![worker[w].run] = Written(worker[w])]
             /\ worker'[w].pc = AfterSave(worker[w])
  BY <1>1, <1>3 DEF SaveRow, Become, Handler, Same
<1>4. ASSUME PersistFails(w)
      PROVE  /\ worker[w].pc \in {"find1", "save1", "find2", "save2"} /\ Strike("db")
             /\ UNCHANGED <<msg, pages, notified>>
             /\ \/ /\ worker[w].goal \in {"running", "succeeded"}
                   /\ worker[w].retry + 1 <= MaxRetries
                   /\ TurnsAsIs(w, "retry")
                \/ worker[w].goal # "final" /\ TurnsAsIs(w, "failed")
                \/ worker'[w].pc = "publish" /\ Same(w)
  <2>1. PICK fatal \in BOOLEAN : Become(w, AfterPersistError(worker[w], fatal))
    BY <1>4 DEF PersistFails
  <2>2. CASE worker[w].goal \in {"running", "succeeded"}
    BY <1>4, <2>1, <2>2, RecoverMoves DEF PersistFails, AfterPersistError
  <2>3. CASE worker[w].goal = "retry"
    BY <1>4, <2>1, <2>3, PersistMoves DEF PersistFails, AfterPersistError
  <2>4. CASE worker[w].goal \notin {"running", "succeeded", "retry"}
    <3>1. worker'[w] = [worker[w] EXCEPT !.pc = "publish"]
      BY <1>1, <2>1, <2>4 DEF AfterPersistError, Become
    <3>2. QED
      BY <1>1, <1>4, <3>1 DEF PersistFails, Same, Handler
  <2>5. QED
    BY <2>2, <2>3, <2>4
<1>5. QED
  BY <1>2, <1>3, <1>4

LEMMA ExecuteMoves ==
    ASSUME TypeInv, NEW w \in Workers
    PROVE  /\ Backoff(w) =>
                /\ worker[w].pc = "backoff" /\ Turns(w, "running") /\ UNCHANGED Outside
                /\ worker'[w].retry = worker[w].retry + 1
           /\ ExecuteSucceeds(w) =>
                /\ worker[w].pc = "execute" /\ TurnsAsIs(w, "succeeded")
                /\ UNCHANGED <<msg, row, notified>>
                /\ \/ UNCHANGED pages
                   \/ pages' = [pages EXCEPT ![worker[w].run] = @ + 1]
           /\ ExecuteFails(w) =>
                /\ worker[w].pc = "execute" /\ UNCHANGED <<msg, row, notified>>
                /\ \/ TurnsAsIs(w, "retry") /\ worker[w].retry + 1 <= MaxRetries
                   \/ TurnsAsIs(w, "failed")
                /\ \/ UNCHANGED pages
                   \/ pages' = [pages EXCEPT ![worker[w].run] = @ + 1]
           /\ ExecuteIncomplete(w) =>
                worker[w].pc = "execute" /\ TurnsAsIs(w, "final") /\ UNCHANGED Outside
<1>1. worker \in [Workers -> Handler] /\ worker[w] \in Handler
  BY DEF TypeInv, TypeOK
<1>2. ASSUME Backoff(w)
      PROVE  /\ worker[w].pc = "backoff" /\ Turns(w, "running") /\ UNCHANGED Outside
             /\ worker'[w].retry = worker[w].retry + 1
  <2> DEFINE n == worker[w].retry + 1
  <2> HIDE DEF n
  <2>1. worker'[w] = Persist([worker[w] EXCEPT !.retry = n], "running")
    BY <1>1, <1>2 DEF Backoff, Become, n
  <2>2. worker'[w] = [worker[w] EXCEPT !.retry = n, !.goal = "running", !.pc = "find1"]
    BY <1>1, <2>1 DEF Persist, Handler
  <2>3. Turns(w, "running") /\ worker'[w].retry = n
    BY <1>1, <2>2 DEF Turns, Handler
  <2>4. QED
    BY <1>2, <2>3 DEF Backoff, Outside, n
<1>3. ASSUME ExecuteSucceeds(w)
      PROVE  /\ worker[w].pc = "execute" /\ TurnsAsIs(w, "succeeded")
             /\ UNCHANGED <<msg, row, notified>>
             /\ \/ UNCHANGED pages
                \/ pages' = [pages EXCEPT ![worker[w].run] = @ + 1]
  <2>1. TurnsAsIs(w, "succeeded")
    BY <1>3, PersistMoves DEF ExecuteSucceeds
  <2>2. UNCHANGED pages \/ pages' = [pages EXCEPT ![worker[w].run] = @ + 1]
    BY <1>3 DEF ExecuteSucceeds, TypeInv, TypeOK
  <2>3. QED
    BY <1>3, <2>1, <2>2 DEF ExecuteSucceeds
<1>4. ASSUME ExecuteFails(w)
      PROVE  /\ worker[w].pc = "execute" /\ UNCHANGED <<msg, row, notified>>
             /\ \/ TurnsAsIs(w, "retry") /\ worker[w].retry + 1 <= MaxRetries
                \/ TurnsAsIs(w, "failed")
             /\ \/ UNCHANGED pages
                \/ pages' = [pages EXCEPT ![worker[w].run] = @ + 1]
  BY <1>4, RecoverMoves DEF ExecuteFails
<1>5. ASSUME ExecuteIncomplete(w)
      PROVE  worker[w].pc = "execute" /\ TurnsAsIs(w, "final") /\ UNCHANGED Outside
  BY <1>5, PersistMoves DEF ExecuteIncomplete, Outside
<1>6. QED
  BY <1>2, <1>3, <1>4, <1>5

LEMMA EndMoves ==
    ASSUME TypeInv, NEW w \in Workers
    PROVE  /\ Publish(w) =>
                /\ worker[w].pc = "publish" /\ worker'[w].pc = "archive" /\ Same(w)
                /\ UNCHANGED <<msg, row, pages>>
           /\ Archive(w) =>
                /\ worker[w].pc = "archive" /\ worker'[w] = Resting("idle")
                /\ UNCHANGED <<row, pages, notified>>
           /\ ArchiveFails(w) =>
                /\ worker[w].pc = "archive" /\ Strike("archive")
                /\ UNCHANGED <<row, pages, notified>>
                /\ \/ worker'[w] = Resting("dead")
                   \/ worker'[w].pc = "archive" /\ worker'[w].goal = "final"
                      /\ worker'[w].run = worker[w].run /\ Kind[worker[w].run] = "malformed"
                   \/ TurnsAsIs(w, "final")
<1>1. worker \in [Workers -> Handler] /\ worker[w] \in Handler
  BY DEF TypeInv, TypeOK
<1>2. Publish(w) => /\ worker[w].pc = "publish" /\ worker'[w].pc = "archive" /\ Same(w)
                    /\ UNCHANGED <<msg, row, pages>>
  BY <1>1 DEF Publish, Become, Handler, Same
<1>3. Archive(w) => /\ worker[w].pc = "archive" /\ worker'[w] = Resting("idle")
                    /\ UNCHANGED <<row, pages, notified>>
  BY <1>1 DEF Archive, Become
<1>4. ASSUME ArchiveFails(w)
      PROVE  /\ worker[w].pc = "archive" /\ Strike("archive")
             /\ UNCHANGED <<row, pages, notified>>
             /\ \/ worker'[w] = Resting("dead")
                \/ worker'[w].pc = "archive" /\ worker'[w].goal = "final"
                   /\ worker'[w].run = worker[w].run /\ Kind[worker[w].run] = "malformed"
                \/ TurnsAsIs(w, "final")
  <2>1. /\ worker[w].pc = "archive" /\ Strike("archive")
        /\ UNCHANGED <<row, pages, notified>>
    BY <1>4 DEF ArchiveFails
  <2>2. CASE worker[w].goal = "final"
    BY <1>1, <1>4, <2>1, <2>2 DEF ArchiveFails, Become
  <2>3. CASE worker[w].goal # "final" /\ Kind[worker[w].run] = "malformed"
    BY <1>1, <1>4, <2>1, <2>3 DEF ArchiveFails, Become, Handler
  <2>4. CASE worker[w].goal # "final" /\ Kind[worker[w].run] # "malformed"
    BY <1>1, <1>4, <2>1, <2>4, PersistMoves DEF ArchiveFails
  <2>5. QED
    BY <2>2, <2>3, <2>4
<1>5. QED
  BY <1>2, <1>3, <1>4

-----------------------------------------------------------------------------
(* No run is abandoned                                                      *)

(* While processes do not die, whoever has seen a settled row, or archived  *)
(* the message, leaves a settled row or a handler that will settle it.      *)
Writes(v, r) == Holds(v, r) /\ worker[v].pc \notin {"check", "publish", "archive"}
Done(w, r) == Holds(w, r) /\ worker[w].pc \in {"publish", "archive"}

SettledWhileAlive ==
    faults["db"] = 0 /\ faults["crash"] = 0 =>
        \A r \in Runs :
            /\ Kind[r] # "malformed"
            /\ msg[r].state = "archived" \/ \E w \in Workers : Done(w, r)
            => row[r].status \in Terminal \/ \E v \in Workers : Writes(v, r)

LEMMA NextSettledWhileAlive ==
    TypeInv /\ TypeInv' /\ SettledWhileAlive /\ [Next]_vars => SettledWhileAlive'
<1> SUFFICES ASSUME TypeInv, TypeInv', SettledWhileAlive, [Next]_vars,
                    faults'["db"] = 0, faults'["crash"] = 0,
                    NEW r \in Runs, Kind[r] # "malformed",
                    (msg'[r].state = "archived" \/ \E w \in Workers : Done(w, r)')
             PROVE  row'[r].status \in Terminal \/ \E v \in Workers : Writes(v, r)'
  BY DEF SettledWhileAlive
<1>0. /\ faults["db"] = 0 /\ faults["crash"] = 0 /\ ~Strike("db") /\ ~Strike("crash")
  BY NoFaultBefore DEF FaultClass
<1>h. (msg[r].state = "archived" \/ \E w \in Workers : Done(w, r)) =>
           row[r].status \in Terminal \/ \E v \in Workers : Writes(v, r)
  BY <1>0 DEF SettledWhileAlive
<1> USE DEF Done, Writes, Holds, Busy
<1>1. CASE UNCHANGED vars
  BY <1>1, <1>h DEF vars
<1>2. ASSUME NEW w \in Workers, NEW x \in Runs, Receive(w, x)
      PROVE  row'[r].status \in Terminal \/ \E v \in Workers : Writes(v, r)'
  <2>1. /\ worker[w].pc = "idle" /\ \A v \in Workers \ {w} : worker'[v] = worker[v]
        /\ row' = row /\ (msg'[r].state = "archived" => msg[r].state = "archived")
        /\ worker'[w].run = x
        /\ worker'[w].pc = IF Kind[x] = "malformed" THEN "archive" ELSE "check"
    BY <1>2 DEF Receive, Become, TypeInv, TypeOK, Resting, Msg
  <2>2. ~Done(w, r)'
    BY <2>1
  <2>3. QED
    BY <1>h, <2>1, <2>2
<1>3. ASSUME NEW x \in Runs, VtExpires(x)
      PROVE  row'[r].status \in Terminal \/ \E v \in Workers : Writes(v, r)'
  BY <1>h, <1>3 DEF VtExpires, TypeInv, TypeOK, Msg
<1>4. ASSUME NEW w \in Workers, PollEmpty(w)
      PROVE  row'[r].status \in Terminal \/ \E v \in Workers : Writes(v, r)'
  BY <1>1, <1>4 DEF PollEmpty
<1>5. ASSUME NEW w \in Workers, Crash(w) PROVE FALSE
  BY <1>0, <1>5 DEF Crash
<1>6. ASSUME NEW w \in Workers, Restart(w)
      PROVE  row'[r].status \in Terminal \/ \E v \in Workers : Writes(v, r)'
  BY <1>h, <1>6 DEF Restart, Become, Resting, TypeInv, TypeOK
<1>7. ASSUME NEW w \in Workers, Handle(w)
      PROVE  row'[r].status \in Terminal \/ \E v \in Workers : Writes(v, r)'
  <2> DEFINE h == worker[w]
  <2>1. /\ h \in Handler /\ GoalOK(h) /\ h.run \in Runs /\ Holds(w, h.run)
        /\ \A v \in Workers \ {w} : worker'[v] = worker[v]
        /\ \A x \in Runs \ {h.run} : row'[x] = row[x] /\ msg'[x] = msg[x]
        /\ worker'[w].run \in {h.run, NoRun}
    BY <1>7, HandlerOf
  <2>2. CASE r # h.run
    <3>1. row'[r] = row[r] /\ msg'[r] = msg[r]
      BY <2>1, <2>2
    <3>2. worker'[w].run # r
      BY <2>1, <2>2, RunsAssumption
    <3>3. QED
      BY <1>h, <2>1, <2>2, <3>1, <3>2
  <2>3. CASE r = h.run
    <3>1. CASE CheckStatus(w)
      <4>1. /\ row' = row /\ worker'[w].run = r
            /\ worker'[w].pc = IF row[r].status \in Terminal THEN "archive" ELSE "count"
        BY <2>1, <2>3, <3>1, ReadMoves DEF Same, Outside
      <4>2. QED
        BY <4>1
    <3>2. CASE ReadRetryCount(w) \/ ExecuteSucceeds(w) \/ ExecuteIncomplete(w)
               \/ ExecuteFails(w) \/ Backoff(w)
      <4>1. worker'[w].pc = "find1" /\ worker'[w].run = r
        BY <2>1, <2>3, <3>2, ReadMoves, ExecuteMoves DEF TurnsAsIs, Turns
      <4>2. QED
        BY <4>1
    <3>3. CASE ReadFails(w) \/ PersistFails(w)
      BY <1>0, <3>3 DEF ReadFails, PersistFails
    <3>4. CASE FindRow(w)
      <4>1. worker'[w].pc \in {"save1", "save2"} /\ worker'[w].run = r
        BY <2>1, <2>3, <3>4, PersistStepMoves DEF Same
      <4>2. QED
        BY <4>1
    <3>5. CASE SaveRow(w)
      <4>1. /\ worker'[w].run = r /\ worker'[w].pc = AfterSave(h)
            /\ row'[r] = Written(h)
        BY <2>1, <2>3, <3>5, PersistStepMoves DEF Same, TypeInv, TypeOK
      <4>2. CASE AfterSave(h) # "publish"
        BY <4>1, <4>2 DEF AfterSave
      <4>3. CASE AfterSave(h) = "publish"
        <5>1. h.goal \in {"succeeded", "failed", "final"}
          BY <2>1, <3>5, <4>3 DEF SaveRow, AfterSave, GoalOK
        <5>2. QED
          BY <4>1, <5>1 DEF Written, StatusFor, Terminal
      <4>4. QED
        BY <4>2, <4>3
    <3>7. CASE Publish(w)
      <4>1. Done(w, r) /\ row' = row
        BY <2>1, <2>3, <3>7 DEF Publish
      <4>2. worker'[w].pc = "archive"
        BY <3>7, EndMoves
      <4>3. QED
        BY <1>h, <2>1, <4>1, <4>2
    <3>8. CASE Archive(w) \/ ArchiveFails(w)
      <4>1. Done(w, r) /\ row' = row
        BY <2>1, <2>3, <3>8 DEF Archive, ArchiveFails
      <4>2. QED
        BY <1>h, <2>1, <4>1
    <3>9. QED
      BY <1>7, <3>1, <3>2, <3>3, <3>4, <3>5, <3>7, <3>8 DEF Handle
  <2>4. QED
    BY <2>2, <2>3
<1>8. QED
  BY <1>1, <1>2, <1>3, <1>4, <1>5, <1>6, <1>7 DEF Next

(* While a message has one handler at a time, processes may die as well:    *)
(* whoever is about to publish or to archive has made the row terminal, and *)
(* once the message is archived only a final failure still writes the row.  *)
SettledAlone ==
    faults["db"] = 0 /\ faults["expire"] = 0 =>
        \A r \in Runs : Kind[r] # "malformed" =>
            /\ msg[r].state = "archived" => row[r].status \in Terminal
            /\ \A w \in Workers : Done(w, r) => row[r].status \in Terminal
            /\ \A w \in Workers : Holds(w, r) /\ msg[r].state = "archived"
                  => worker[w].goal = "final"

(* The part of a step of w that its own run cannot tell from a stutter.     *)
LEMMA OtherRunKept ==
    ASSUME TypeInv, NEW w \in Workers, Handle(w), NEW r \in Runs, r # worker[w].run
    PROVE  /\ row'[r] = row[r] /\ msg'[r] = msg[r] /\ notified'[r] = notified[r]
           /\ pages'[r] = pages[r]
           /\ \A v \in Workers : Holds(v, r)' <=> Holds(v, r)
           /\ \A v \in Workers : Holds(v, r) => worker'[v] = worker[v]
<1>1. /\ row'[r] = row[r] /\ msg'[r] = msg[r] /\ notified'[r] = notified[r]
      /\ pages'[r] = pages[r]
      /\ \A v \in Workers \ {w} : worker'[v] = worker[v]
      /\ worker'[w].run \in {worker[w].run, NoRun}
  BY HandlerOf
<1>2. ~Holds(w, r) /\ ~Holds(w, r)'
  BY <1>1, RunsAssumption DEF Holds
<1>3. \A v \in Workers : Holds(v, r)' <=> Holds(v, r)
  BY <1>1, <1>2 DEF Holds, Busy
<1>4. QED
  BY <1>1, <1>2, <1>3

(* Without an overlap nobody else has the run of w.                         *)
LEMMA OnlyHandler ==
    ASSUME TypeInv, BudgetInv, faults["expire"] = 0, NEW w \in Workers, Handle(w),
           NEW r \in Runs, r = worker[w].run
    PROVE  \A v \in Workers : Holds(v, r)' => v = w
<1>1. Holds(w, r) /\ \A v \in Workers \ {w} : worker'[v] = worker[v]
  BY HandlerOf
<1>2. \A v \in Workers : Holds(v, r) => v = w
  BY <1>1 DEF BudgetInv
<1>3. ASSUME NEW v \in Workers, v # w PROVE Holds(v, r)' <=> Holds(v, r)
  BY <1>1, <1>3 DEF Holds, Busy
<1>4. QED
  BY <1>2, <1>3

(* What the steps around the handlers may do to a run: nobody comes to      *)
(* hold an archived message, and the rows stay.                             *)
LEMMA AroundHandlers ==
    ASSUME TypeInv,
           \/ UNCHANGED vars
           \/ \E w \in Workers : PollEmpty(w) \/ Crash(w) \/ Restart(w)
           \/ \E w \in Workers, x \in Runs : Receive(w, x)
           \/ \E x \in Runs : VtExpires(x),
           NEW r \in Runs
    PROVE  /\ row' = row /\ notified' = notified /\ pages' = pages
           /\ msg'[r].state = "archived" <=> msg[r].state = "archived"
           /\ \A v \in Workers : Holds(v, r)' =>
                \/ Holds(v, r) /\ worker'[v] = worker[v]
                \/ /\ msg[r].state = "visible" /\ worker'[v].goal = "skip"
                   /\ worker'[v].pc = IF Kind[r] = "malformed" THEN "archive" ELSE "check"
<1> USE DEF Holds, Busy
<1>1. worker \in [Workers -> Handler] /\ msg \in [Runs -> Msg]
  BY DEF TypeInv, TypeOK
<1>2. CASE UNCHANGED vars
  BY <1>2 DEF vars
<1>3. ASSUME NEW w \in Workers, PollEmpty(w)
      PROVE  UNCHANGED vars
  BY <1>3 DEF PollEmpty
<1>4. ASSUME NEW w \in Workers, Crash(w) \/ Restart(w)
      PROVE  /\ row' = row /\ notified' = notified /\ pages' = pages /\ msg' = msg
             /\ \A v \in Workers : Holds(v, r)' => Holds(v, r) /\ worker'[v] = worker[v]
  <2>1. PICK pc \in {"idle", "dead"} : Become(w, Resting(pc))
    BY <1>4 DEF Crash, Restart
  <2>2. worker' = [worker EXCEPT ![w] = Resting(pc)] /\ Resting(pc).pc = pc
    BY <2>1, RestingTyped DEF Become
  <2>3. \A v \in Workers : Holds(v, r)' => v # w
    BY <1>1, <2>2
  <2>4. QED
    BY <1>1, <1>4, <2>2, <2>3 DEF Crash, Restart
<1>5. ASSUME NEW w \in Workers, NEW x \in Runs, Receive(w, x)
      PROVE  /\ row' = row /\ notified' = notified /\ pages' = pages
             /\ msg'[r].state = "archived" <=> msg[r].state = "archived"
             /\ \A v \in Workers \ {w} : worker'[v] = worker[v]
             /\ worker'[w].run = x /\ worker'[w].goal = "skip" /\ msg[x].state = "visible"
             /\ worker'[w].pc = IF Kind[x] = "malformed" THEN "archive" ELSE "check"
  BY <1>1, <1>5 DEF Receive, Become, Resting, Msg
<1>6. ASSUME NEW x \in Runs, VtExpires(x)
      PROVE  /\ row' = row /\ notified' = notified /\ pages' = pages /\ worker' = worker
             /\ msg'[r].state = "archived" <=> msg[r].state = "archived"
  BY <1>1, <1>6 DEF VtExpires, Msg
<1>7. QED
  BY <1>2, <1>3, <1>4, <1>5, <1>6

LEMMA NextSettledAlone ==
    TypeInv /\ TypeInv' /\ BudgetInv /\ SettledAlone /\ [Next]_vars => SettledAlone'
<1> SUFFICES ASSUME TypeInv, TypeInv', BudgetInv, SettledAlone, [Next]_vars,
                    faults'["db"] = 0, faults'["expire"] = 0,
                    NEW r \in Runs, Kind[r] # "malformed"
             PROVE  /\ msg'[r].state = "archived" => row'[r].status \in Terminal
                    /\ \A v \in Workers : Done(v, r)' => row'[r].status \in Terminal
                    /\ \A v \in Workers : Holds(v, r)' /\ msg'[r].state = "archived"
                          => worker'[v].goal = "final"
  BY DEF SettledAlone
<1>0. /\ faults["db"] = 0 /\ faults["expire"] = 0 /\ ~Strike("db") /\ ~Strike("expire")
  BY NoFaultBefore DEF FaultClass
<1>h. /\ msg[r].state = "archived" => row[r].status \in Terminal
      /\ \A v \in Workers : Done(v, r) => row[r].status \in Terminal
      /\ \A v \in Workers : Holds(v, r) /\ msg[r].state = "archived" => worker[v].goal = "final"
  BY <1>0 DEF SettledAlone
<1> DEFINE Goal1 ==
             /\ msg'[r].state = "archived" => row'[r].status \in Terminal
             /\ \A v \in Workers : Done(v, r)' => row'[r].status \in Terminal
             /\ \A v \in Workers : Holds(v, r)' /\ msg'[r].state = "archived"
                   => worker'[v].goal = "final"
<1>1. CASE \/ UNCHANGED vars
           \/ \E w \in Workers : PollEmpty(w) \/ Crash(w) \/ Restart(w)
           \/ \E w \in Workers, x \in Runs : Receive(w, x)
           \/ \E x \in Runs : VtExpires(x)
  <2>1. /\ row' = row /\ (msg'[r].state = "archived" <=> msg[r].state = "archived")
        /\ \A v \in Workers : Holds(v, r)' =>
             \/ Holds(v, r) /\ worker'[v] = worker[v]
             \/ msg[r].state = "visible" /\ worker'[v].pc = "check"
    BY <1>1, AroundHandlers
  <2>2. ASSUME NEW v \in Workers, Done(v, r)' PROVE Done(v, r)
    BY <2>1, <2>2 DEF Done
  <2>3. QED
    BY <1>h, <2>1, <2>2
<1>2. ASSUME NEW w \in Workers, Handle(w) PROVE Goal1
  <2> DEFINE h == worker[w]
  <2>1. h \in Handler /\ GoalOK(h) /\ h.run \in Runs /\ Holds(w, h.run)
    BY <1>2, HandlerOf
  <2>2. CASE r # h.run
    <3>1. /\ row'[r] = row[r] /\ msg'[r] = msg[r]
          /\ \A v \in Workers : Holds(v, r)' => Holds(v, r) /\ worker'[v] = worker[v]
      BY <1>2, <2>2, OtherRunKept
    <3>2. \A v \in Workers : Done(v, r)' => Done(v, r)
      BY <3>1 DEF Done
    <3>3. QED
      BY <1>h, <3>1, <3>2
  <2>3. CASE r = h.run
    <3>1. \A v \in Workers : Holds(v, r)' => v = w
      BY <1>0, <1>2, <2>3, OnlyHandler
    <3>2. Holds(w, r) /\ (h.pc \in {"publish", "archive"} => Done(w, r))
      BY <2>1, <2>3 DEF Done
    <3>3. SUFFICES /\ msg'[r].state = "archived" => row'[r].status \in Terminal
                   /\ worker'[w].pc \in {"publish", "archive"} => row'[r].status \in Terminal
                   /\ msg'[r].state = "archived" /\ Busy(w)' => worker'[w].goal = "final"
      BY <3>1, <3>3 DEF Done, Holds
    <3>4. CASE CheckStatus(w)
      <4>1. /\ UNCHANGED Outside /\ Same(w) /\ h.pc = "check"
            /\ worker'[w].pc = IF row[r].status \in Terminal THEN "archive" ELSE "count"
        BY <2>3, <3>4, ReadMoves
      <4>2. QED
        BY <1>h, <3>2, <4>1 DEF Outside, Same
    <3>5. CASE ReadRetryCount(w)
      <4>1. h.pc = "count" /\ UNCHANGED Outside /\ worker'[w].pc = "find1"
        BY <3>5, ReadMoves DEF Turns
      <4>2. msg[r].state # "archived"
        BY <1>h, <2>1, <3>2, <4>1 DEF GoalOK
      <4>3. QED
        BY <4>1, <4>2 DEF Outside
    <3>6. CASE ReadFails(w) \/ PersistFails(w)
      BY <1>0, <3>6 DEF ReadFails, PersistFails
    <3>7. CASE FindRow(w)
      BY <1>h, <3>2, <3>7, PersistStepMoves DEF Outside, Same
    <3>8. CASE SaveRow(w)
      <4>1. /\ h.pc \in {"save1", "save2"} /\ Same(w) /\ msg' = msg
            /\ row'[r] = Written(h) /\ worker'[w].pc = AfterSave(h)
        BY <2>1, <2>3, <3>8, PersistStepMoves DEF TypeInv, TypeOK
      <4>2. CASE h.goal = "final"
        BY <4>1, <4>2 DEF Written, StatusFor, Terminal, Same
      <4>3. CASE h.goal # "final"
        <5>1. msg[r].state # "archived"
          BY <1>h, <3>2, <4>3
        <5>2. AfterSave(h) = "publish" => h.goal \in {"succeeded", "failed"}
          BY <2>1, <4>1, <4>3 DEF AfterSave, GoalOK
        <5>3. h.goal \in {"succeeded", "failed"} => Written(h).status \in Terminal
          BY DEF Written, StatusFor, Terminal
        <5>4. AfterSave(h) # "archive"
          BY DEF AfterSave
        <5>5. QED
          BY <4>1, <5>1, <5>2, <5>3, <5>4
      <4>4. QED
        BY <4>2, <4>3
    <3>9. CASE Backoff(w) \/ ExecuteSucceeds(w) \/ ExecuteFails(w) \/ ExecuteIncomplete(w)
      <4>1. /\ h.pc \in {"backoff", "execute"} /\ worker'[w].pc = "find1"
            /\ msg' = msg /\ row' = row
        BY <3>9, ExecuteMoves DEF TurnsAsIs, Turns, Outside
      <4>2. msg[r].state # "archived"
        BY <1>h, <2>1, <3>2, <4>1 DEF GoalOK
      <4>3. QED
        BY <4>1, <4>2
    <3>10. CASE Publish(w)
      BY <1>h, <3>2, <3>10, EndMoves DEF Same
    <3>11. CASE Archive(w)
      <4>1. h.pc = "archive" /\ worker'[w].pc = "idle" /\ row' = row
        BY <3>11, EndMoves DEF Resting
      <4>2. QED
        BY <1>h, <3>2, <4>1 DEF Busy
    <3>12. CASE ArchiveFails(w)
      <4>1. /\ h.pc = "archive" /\ row' = row
            /\ worker'[w].pc = "dead" \/ worker'[w].goal = "final"
        BY <3>12, EndMoves DEF Resting, TurnsAsIs, Turns
      <4>2. QED
        BY <1>h, <3>2, <4>1 DEF Busy
    <3>13. QED
      BY <1>2, <3>4, <3>5, <3>6, <3>7, <3>8, <3>9, <3>10, <3>11, <3>12 DEF Handle
  <2>4. QED
    BY <2>2, <2>3
<1>3. QED
  BY <1>1, <1>2 DEF Next

LEMMA InitSettled == Init => SettledWhileAlive /\ SettledAlone
BY DEF Init, SettledWhileAlive, SettledAlone, Done, Holds, Busy, Resting

(* No run is abandoned, for any number of workers and runs: once a message  *)
(* is archived (_archive, _handle_final_failure) its row is terminal, or a  *)
(* handler of the run is still to write it, unless a call on job_runs       *)
(* failed or a process died after an overlap.                               *)
THEOREM ArchivedAreSettled == Spec => []ArchivedIsSettled
<1>1. TypeInv /\ SettledWhileAlive /\ SettledAlone => ArchivedIsSettled
  BY DEF SettledWhileAlive, SettledAlone, ArchivedIsSettled, Writes
<1>2. TypeInv /\ TypeInv' /\ BudgetInv /\ (SettledWhileAlive /\ SettledAlone) /\ [Next]_vars
        => (SettledWhileAlive /\ SettledAlone)'
  BY NextSettledWhileAlive, NextSettledAlone
<1>3. QED
  BY <1>1, <1>2, InitSettled, SpecTypeInv, SpecBudgetInv, PTL DEF Spec

-----------------------------------------------------------------------------
(* The life of a run while only processes die                               *)
OnlyDeaths == faults["db"] = 0 /\ faults["archive"] = 0 /\ faults["expire"] = 0

Outcomes == {"succeeded", "failed", "final"}

(* How far a handler has got tells the status of the row it handles.        *)
KnowsStatus(h, rec) ==
    /\ h.pc = "count" \/ h.goal \in {"running", "retry"} => rec.status \notin Terminal
    /\ h.goal = "running" /\ h.pc \in {"find2", "save2", "execute"} => rec.status = "running"
    /\ h.goal \in Outcomes /\ h.pc \in {"find1", "save1"} => rec.status \notin Terminal
    /\ h.goal = "succeeded" /\ h.pc \in {"find1", "save1"} => rec.status = "running"
    /\ h.goal \in Outcomes /\ h.pc \in {"find2", "save2", "publish"}
          => rec.status = StatusFor(h.goal)
    /\ h.goal = "retry" /\ h.pc = "save1" => h.snap.status = rec.status
    /\ h.pc = "archive" => rec.status \in Terminal

(* A published outcome is the row's, and leaves its handler, or another one *)
(* after a crash, only the message to archive.                              *)
NotifiedTruly(n, rec) ==
    /\ n.success + n.failure <= 1
    /\ n.success = 1 => rec.status = "succeeded"
    /\ n.failure = 1 => rec.status = "failed"

Life(r) ==
    /\ \A w \in Workers : Holds(w, r) =>
          /\ msg[r].state # "archived"
          /\ Kind[r] = "malformed" => worker[w].pc = "archive"
          /\ Kind[r] # "malformed" => KnowsStatus(worker[w], row[r])
          /\ notified[r].success + notified[r].failure = 1
                => worker[w].pc \in {"check", "archive"}
    /\ msg[r].state = "archived" /\ Kind[r] # "malformed" => row[r].status \in Terminal
    /\ NotifiedTruly(notified[r], row[r])

LifeInv == OnlyDeaths => \A r \in Runs : Life(r)

(* After a step of its only handler, what remains of Life is about it.      *)
LEMMA LifeOfOwn ==
    ASSUME TypeInv, BudgetInv, OnlyDeaths, NEW w \in Workers, Handle(w),
           NEW r \in Runs, r = worker[w].run, NotifiedTruly(notified[r], row[r])',
           msg' = msg, Life(r),
           Kind[r] = "malformed" => worker'[w].pc = "archive",
           Kind[r] # "malformed" => KnowsStatus(worker'[w], row'[r]),
           notified'[r].success + notified'[r].failure = 1
              => worker'[w].pc \in {"check", "archive"}
    PROVE  Life(r)'
<1>1. \A v \in Workers : Holds(v, r)' => v = w
  BY OnlyHandler DEF OnlyDeaths
<1>2. msg[r].state # "archived"
  BY HandlerOf DEF Life
<1>3. QED
  BY <1>1, <1>2 DEF Life, KnowsStatus

LEMMA OneOfTwo ==
    \A a, b \in Nat :
        /\ a + b = 1 => a = 1 \/ b = 1
        /\ a + b <= 1 /\ a + b # 1 => a = 0 /\ b = 0
OBVIOUS

LEMMA OwnLife ==
    ASSUME TypeInv, TypeInv', BudgetInv, OnlyDeaths, OnlyDeaths',
           NEW w \in Workers, Handle(w), NEW r \in Runs, r = worker[w].run, Life(r)
    PROVE  Life(r)'
<1> DEFINE h == worker[w]
           n == notified[r]
<1>1. h \in Handler /\ GoalOK(h) /\ GoalOK(h)' /\ Holds(w, r)
  BY HandlerOf DEF TypeInv
<1>2. /\ msg[r].state # "archived"
      /\ Kind[r] = "malformed" => h.pc = "archive"
      /\ Kind[r] # "malformed" => KnowsStatus(h, row[r])
      /\ n.success + n.failure = 1 => h.pc \in {"check", "archive"}
      /\ NotifiedTruly(n, row[r])
  BY <1>1 DEF Life
<1>3. /\ row[r] \in Row /\ row'[r] \in Row /\ n.success \in Nat /\ n.failure \in Nat
      /\ row \in [Runs -> Row] /\ notified \in [Runs -> [success : Nat, failure : Nat]]
  BY DEF TypeInv, TypeOK
<1>4. ~Strike("db") /\ ~Strike("archive")
  BY StrikeCounts DEF OnlyDeaths, FaultClass
<1>5. CASE CheckStatus(w)
  <2>1. /\ h.pc = "check" /\ Same(w) /\ UNCHANGED Outside
        /\ worker'[w].pc = IF row[r].status \in Terminal THEN "archive" ELSE "count"
    BY <1>5, ReadMoves
  <2>2. Kind[r] # "malformed" /\ h.goal = "skip"
    BY <1>1, <1>2, <2>1 DEF GoalOK
  <2>3. KnowsStatus(worker'[w], row'[r])
    BY <2>1, <2>2 DEF KnowsStatus, Same, Outside, Outcomes
  <2>4. n.success + n.failure = 1 => n.success = 1 \/ n.failure = 1
    <3>1. n.success \in Nat /\ n.failure \in Nat
      BY <1>3
    <3>2. QED
      BY <3>1, OneOfTwo, Zenon
  <2>5. n.success + n.failure = 1 => row[r].status \in Terminal
    BY <1>2, <2>4 DEF NotifiedTruly, Terminal
  <2>6. NotifiedTruly(notified[r], row[r])'
    BY <1>2, <2>1 DEF NotifiedTruly, Outside
  <2>7. QED
    BY <1>5, <2>1, <2>2, <2>3, <2>5, <2>6, LifeOfOwn DEF Outside
<1>6. CASE ReadRetryCount(w)
  <2>1. /\ h.pc = "count" /\ UNCHANGED Outside
        /\ worker'[w].pc = "find1" /\ worker'[w].goal \in {"failed", "running"}
    BY <1>6, ReadMoves DEF Turns
  <2>2. Kind[r] # "malformed" /\ row[r].status \notin Terminal /\ n.success + n.failure # 1
    BY <1>2, <2>1 DEF KnowsStatus
  <2>3. KnowsStatus(worker'[w], row'[r])
    BY <2>1, <2>2 DEF KnowsStatus, Outside, Outcomes
  <2>4. NotifiedTruly(notified[r], row[r])'
    BY <1>2, <2>1 DEF NotifiedTruly, Outside
  <2>5. QED
    BY <1>6, <2>1, <2>2, <2>3, <2>4, LifeOfOwn DEF Outside
<1>7. CASE ReadFails(w) \/ PersistFails(w) \/ ArchiveFails(w)
  BY <1>4, <1>7 DEF ReadFails, PersistFails, ArchiveFails
<1>8. CASE FindRow(w)
  <2>1. /\ Same(w) /\ UNCHANGED Outside /\ worker'[w].snap = row[r]
        /\ \/ h.pc = "find1" /\ worker'[w].pc = "save1"
           \/ h.pc = "find2" /\ worker'[w].pc = "save2"
    BY <1>8, PersistStepMoves
  <2>2. Kind[r] # "malformed" /\ n.success + n.failure # 1
    BY <1>2, <2>1
  <2>3. KnowsStatus(worker'[w], row'[r])
    BY <1>2, <2>1, <2>2 DEF KnowsStatus, Same, Outside
  <2>4. NotifiedTruly(notified[r], row[r])'
    BY <1>2, <2>1 DEF NotifiedTruly, Outside
  <2>5. QED
    BY <1>8, <2>1, <2>2, <2>3, <2>4, LifeOfOwn DEF Outside
<1>9. CASE SaveRow(w)
  <2>1. /\ h.pc \in {"save1", "save2"} /\ Same(w) /\ UNCHANGED <<msg, pages, notified>>
        /\ row'[r] = Written(h) /\ worker'[w].pc = AfterSave(h)
    BY <1>3, <1>9, PersistStepMoves
  <2>2. Kind[r] # "malformed" /\ n.success + n.failure # 1 /\ KnowsStatus(h, row[r])
    BY <1>2, <2>1
  <2>3. n.success # 1 /\ n.failure # 1
    BY <1>2, <1>3, <2>2 DEF NotifiedTruly
  <2>4. NotifiedTruly(notified[r], row[r])'
    BY <1>2, <2>1, <2>3 DEF NotifiedTruly
  <2>5. h.goal \in {"running", "retry"} \cup Outcomes /\ (h.goal = "retry" => h.pc = "save1")
    BY <1>1, <2>1 DEF GoalOK, Handler, Goal, Outcomes
  <2>6. row'[r].status = IF h.goal = "retry" THEN row[r].status ELSE StatusFor(h.goal)
    BY <1>1, <2>1, <2>2, <2>5 DEF Written, KnowsStatus, Handler, Row
  <2>7. KnowsStatus(worker'[w], row'[r])
    <3>1. CASE h.goal = "retry"
      BY <2>1, <2>2, <2>6, <3>1 DEF KnowsStatus, Same, AfterSave, Outcomes
    <3>2. CASE h.goal = "running"
      BY <2>1, <2>6, <3>2 DEF KnowsStatus, Same, AfterSave, Outcomes, StatusFor, Terminal
    <3>3. CASE h.goal \in Outcomes
      BY <2>1, <2>6, <3>3 DEF KnowsStatus, Same, AfterSave, Outcomes
    <3>4. QED
      BY <2>5, <3>1, <3>2, <3>3
  <2>8. QED
    BY <1>9, <2>1, <2>2, <2>4, <2>7, LifeOfOwn
<1>10. CASE Backoff(w) \/ ExecuteSucceeds(w) \/ ExecuteFails(w) \/ ExecuteIncomplete(w)
  <2>1. /\ h.pc \in {"backoff", "execute"} /\ worker'[w].pc = "find1"
        /\ UNCHANGED <<msg, row, notified>>
        /\ worker'[w].goal \in {"running", "retry"} \cup Outcomes
        /\ worker'[w].goal \in Outcomes => h.pc = "execute"
    BY <1>10, ExecuteMoves DEF TurnsAsIs, Turns, Outside, Outcomes
  <2>2. /\ Kind[r] # "malformed" /\ n.success + n.failure # 1
        /\ row[r].status \notin Terminal /\ (h.pc = "execute" => row[r].status = "running")
    BY <1>1, <1>2, <2>1 DEF KnowsStatus, GoalOK
  <2>3. KnowsStatus(worker'[w], row'[r])
    BY <2>1, <2>2 DEF KnowsStatus, Outcomes
  <2>4. NotifiedTruly(notified[r], row[r])'
    BY <1>2, <2>1 DEF NotifiedTruly
  <2>5. QED
    BY <1>10, <2>1, <2>2, <2>3, <2>4, LifeOfOwn
<1>11. CASE Publish(w)
  <2>1. /\ h.pc = "publish" /\ worker'[w].pc = "archive" /\ Same(w)
        /\ UNCHANGED <<msg, row, pages>>
    BY <1>11, EndMoves
  <2>2. /\ Kind[r] # "malformed" /\ n.success + n.failure # 1
        /\ h.goal \in Outcomes /\ row[r].status = StatusFor(h.goal)
    BY <1>1, <1>2, <2>1 DEF KnowsStatus, GoalOK, Outcomes
  <2>3. n.success = 0 /\ n.failure = 0
    BY <1>2, <1>3, <2>2, OneOfTwo DEF NotifiedTruly
  <2>4. notified'[r] = IF h.goal = "succeeded" THEN [n EXCEPT !.success = @ + 1]
                                               ELSE [n EXCEPT !.failure = @ + 1]
    BY <1>3, <1>11 DEF Publish
  <2>5. /\ notified'[r].success = (IF h.goal = "succeeded" THEN 1 ELSE 0)
        /\ notified'[r].failure = (IF h.goal = "succeeded" THEN 0 ELSE 1)
    BY <1>3, <2>3, <2>4
  <2>6. NotifiedTruly(notified[r], row[r])'
    BY <2>1, <2>2, <2>5 DEF NotifiedTruly, StatusFor, Outcomes
  <2>7. KnowsStatus(worker'[w], row'[r])
    BY <2>1, <2>2 DEF KnowsStatus, Same, Outcomes, StatusFor, Terminal
  <2>8. QED
    BY <1>11, <2>1, <2>2, <2>6, <2>7, LifeOfOwn
<1>12. CASE Archive(w)
  <2>1. h.pc = "archive" /\ worker'[w].pc = "idle" /\ UNCHANGED <<row, notified>>
    BY <1>12, EndMoves DEF Resting
  <2>2. \A v \in Workers : ~Holds(v, r)'
    <3>1. \A v \in Workers : Holds(v, r)' => v = w
      BY OnlyHandler DEF OnlyDeaths
    <3>2. QED
      BY <2>1, <3>1 DEF Holds, Busy
  <2>3. Kind[r] # "malformed" => row[r].status \in Terminal
    BY <1>2, <2>1 DEF KnowsStatus
  <2>4. NotifiedTruly(notified[r], row[r])'
    BY <1>2, <2>1 DEF NotifiedTruly
  <2>5. QED
    BY <2>1, <2>2, <2>3, <2>4 DEF Life
<1>13. QED
  BY <1>5, <1>6, <1>7, <1>8, <1>9, <1>10, <1>11, <1>12 DEF Handle

LEMMA NextLifeInv == TypeInv /\ TypeInv' /\ BudgetInv /\ LifeInv /\ [Next]_vars => LifeInv'
<1> SUFFICES ASSUME TypeInv, TypeInv', BudgetInv, LifeInv, [Next]_vars, OnlyDeaths',
                    NEW r \in Runs
             PROVE  Life(r)'
  BY DEF LifeInv
<1>1. OnlyDeaths /\ Life(r)
  <2>1. OnlyDeaths
    BY NoFaultBefore DEF OnlyDeaths, FaultClass
  <2>2. QED
    BY <2>1 DEF LifeInv
<1>2. CASE \/ UNCHANGED vars
           \/ \E w \in Workers : PollEmpty(w) \/ Crash(w) \/ Restart(w)
           \/ \E w \in Workers, x \in Runs : Receive(w, x)
           \/ \E x \in Runs : VtExpires(x)
  <2>1. /\ row' = row /\ notified' = notified
        /\ msg'[r].state = "archived" <=> msg[r].state = "archived"
        /\ \A v \in Workers : Holds(v, r)' =>
             \/ Holds(v, r) /\ worker'[v] = worker[v]
             \/ /\ msg[r].state = "visible" /\ worker'[v].goal = "skip"
                /\ worker'[v].pc = IF Kind[r] = "malformed" THEN "archive" ELSE "check"
    BY <1>2, AroundHandlers
  <2>2. ASSUME NEW v \in Workers, Holds(v, r)'
        PROVE  /\ msg'[r].state # "archived"
               /\ Kind[r] = "malformed" => worker'[v].pc = "archive"
               /\ Kind[r] # "malformed" => KnowsStatus(worker'[v], row'[r])
               /\ notified'[r].success + notified'[r].failure = 1
                     => worker'[v].pc \in {"check", "archive"}
    <3>1. CASE Holds(v, r) /\ worker'[v] = worker[v]
      BY <1>1, <2>1, <3>1 DEF Life, KnowsStatus
    <3>2. CASE /\ msg[r].state = "visible" /\ worker'[v].goal = "skip"
               /\ worker'[v].pc = IF Kind[r] = "malformed" THEN "archive" ELSE "check"
      BY <2>1, <3>2 DEF KnowsStatus, Outcomes
    <3>3. QED
      BY <2>1, <2>2, <3>1, <3>2
  <2>3. QED
    BY <1>1, <2>1, <2>2 DEF Life, KnowsStatus, NotifiedTruly
<1>3. ASSUME NEW w \in Workers, Handle(w) PROVE Life(r)'
  <2>1. CASE r = worker[w].run
    BY <1>1, <1>3, <2>1, OwnLife
  <2>2. CASE r # worker[w].run
    <3>1. /\ row'[r] = row[r] /\ msg'[r] = msg[r] /\ notified'[r] = notified[r]
          /\ \A v \in Workers : Holds(v, r)' => Holds(v, r) /\ worker'[v] = worker[v]
      BY <1>3, <2>2, OtherRunKept
    <3>2. QED
      BY <1>1, <3>1 DEF Life, KnowsStatus, NotifiedTruly
  <2>3. QED
    BY <2>1, <2>2
<1>4. QED
  BY <1>2, <1>3 DEF Next

LEMMA SpecLifeInv == Spec => []LifeInv
<1>1. Init => LifeInv
  BY DEF Init, LifeInv, Life, NotifiedTruly, Holds, Busy, Resting
<1>2. QED
  BY <1>1, NextLifeInv, SpecTypeInv, SpecBudgetInv, PTL DEF Spec

(* While only processes die, a run has at most one notification, and it is  *)
(* the row's outcome (_process_message publishes after it has persisted,    *)
(* and does not execute a run that is terminal), for any number of workers. *)
THEOREM NotifiedOnce == Spec => []NotifiedOnceAndTruly
<1>1. TypeInv /\ LifeInv => NotifiedOnceAndTruly
  BY DEF LifeInv, Life, NotifiedTruly, OnlyDeaths, NotifiedOnceAndTruly
<1>2. QED
  BY <1>1, SpecTypeInv, SpecLifeInv, PTL

(* While only processes die, a terminal status is final: whatever a worker  *)
(* had read before another one settled the run, or before it died, its      *)
(* upsert of the whole row no longer changes the status (update_job_status, *)
(* increment_job_retry_count, update_run).                                  *)
OutcomeIsFinal ==
    [][\A r \in Runs : OnlyDeaths' /\ row[r].status \in Terminal
                          => row'[r].status = row[r].status]_vars

(* The outcome of a run is final, for any number of workers that die and    *)
(* come back at any point, and of redeliveries.                             *)
THEOREM OutcomesAreFinal == Spec => OutcomeIsFinal
<1>1. TypeInv /\ LifeInv /\ [Next]_vars =>
        [\A r \in Runs : OnlyDeaths' /\ row[r].status \in Terminal
                            => row'[r].status = row[r].status]_vars
  <2> SUFFICES ASSUME TypeInv, LifeInv, [Next]_vars, OnlyDeaths',
                      NEW r \in Runs, row[r].status \in Terminal
               PROVE  row'[r].status = row[r].status
    OBVIOUS
  <2>1. /\ OnlyDeaths /\ Life(r)
        /\ ~Strike("db") /\ ~Strike("archive")
    <3>1. OnlyDeaths /\ ~Strike("db") /\ ~Strike("archive")
      BY NoFaultBefore DEF OnlyDeaths, FaultClass
    <3>2. QED
      BY <3>1 DEF LifeInv
  <2>2. CASE row' = row
    BY <2>2
  <2>3. ASSUME NEW w \in Workers, SaveRow(w)
        PROVE  row'[r].status = row[r].status
    <3>1. Handle(w)
      BY <2>3 DEF Handle
    <3>2. CASE r # worker[w].run
      BY <3>1, <3>2, OtherRunKept
    <3>3. CASE r = worker[w].run
      <4> DEFINE h == worker[w]
      <4>1. h \in Handler /\ GoalOK(h) /\ Holds(w, r)
        BY <3>1, <3>3, HandlerOf
      <4>2. h.pc \in {"save1", "save2"} /\ row' = [row EXCEPT ![r] = Written(h)]
        BY <2>3, <3>3, PersistStepMoves
      <4>3. KnowsStatus(h, row[r])
        BY <2>1, <4>1, <4>2 DEF Life
      <4>4. row'[r] = Written(h)
        BY <4>2 DEF TypeInv, TypeOK
      <4>5. h.goal \in Outcomes /\ h.pc = "save2"
        BY <4>1, <4>2, <4>3 DEF GoalOK, Handler, Goal, Outcomes, KnowsStatus
      <4>6. row[r].status = StatusFor(h.goal)
        BY <4>3, <4>5 DEF KnowsStatus
      <4>7. Written(h).status = StatusFor(h.goal)
        BY <4>5 DEF Written, Outcomes
      <4>8. QED
        BY <4>4, <4>6, <4>7
    <3>4. QED
      BY <3>2, <3>3
  <2>4. QED
    BY <2>1, <2>2, <2>3
       DEF Next, Handle, vars, Receive, VtExpires, PollEmpty, Crash, Restart, CheckStatus,
           ReadRetryCount, ReadFails, FindRow, PersistFails, Backoff, ExecuteSucceeds,
           ExecuteFails, ExecuteIncomplete, Publish, Archive, ArchiveFails
<1>2. QED
  BY <1>1, SpecTypeInv, SpecLifeInv, PTL DEF Spec, OutcomeIsFinal

-----------------------------------------------------------------------------
(* Worker implements RunLifecycle                                           *)
NoSuchFaults == MaxFaults["db"] = 0 /\ MaxFaults["archive"] = 0 /\ MaxFaults["expire"] = 0

(* A class of faults that may not strike has not struck.                    *)
LEMMA SpecOnlyDeaths == ASSUME NoSuchFaults PROVE Spec => []OnlyDeaths
<1>1. Init => OnlyDeaths
  BY DEF Init, OnlyDeaths, FaultClass
<1>2. TypeInv /\ OnlyDeaths /\ [Next]_vars => OnlyDeaths'
  <2> SUFFICES ASSUME TypeInv, OnlyDeaths, [Next]_vars PROVE OnlyDeaths'
    OBVIOUS
  <2>1. ~Strike("db") /\ ~Strike("archive") /\ ~Strike("expire")
    BY NoSuchFaults DEF OnlyDeaths, NoSuchFaults, Strike
  <2>2. CASE UNCHANGED faults
    BY <2>2 DEF OnlyDeaths
  <2>3. ASSUME Strike("crash") PROVE OnlyDeaths'
    BY <2>3, StrikeCounts DEF OnlyDeaths, FaultClass
  <2>4. QED
    BY <2>1, <2>2, <2>3
       DEF Next, Handle, vars, Receive, VtExpires, PollEmpty, Crash, Restart, CheckStatus,
           ReadRetryCount, ReadFails, FindRow, SaveRow, PersistFails, Backoff,
           ExecuteSucceeds, ExecuteFails, ExecuteIncomplete, Publish, Archive, ArchiveFails
<1>3. QED
  BY <1>1, <1>2, SpecTypeInv, PTL DEF Spec

(* What RunLifecycle sees of the rows and the queue.                        *)
Stati == [r \in Runs |-> row[r].status]
Gone == {r \in Runs : msg[r].state = "archived"}

(* A step that leaves the statuses and the queue alone, or moves one run.   *)
LEMMA StatusStutters ==
    ASSUME \A r \in Runs : /\ row'[r].status = row[r].status
                           /\ msg'[r].state = "archived" <=> msg[r].state = "archived"
    PROVE  Stati' = Stati /\ Gone' = Gone
BY DEF Stati, Gone

LEMMA StatusMoves ==
    ASSUME NEW r \in Runs, row' = [row EXCEPT ![r] = row'[r]], row \in [Runs -> Row],
           msg' = msg, row'[r].status # row[r].status,
           Kind[r] # "malformed", msg[r].state # "archived",
           \/ row[r].status = "pending" /\ row'[r].status = "running"
           \/ row[r].status = "running" /\ row'[r].status = "succeeded"
           \/ row[r].status \in {"pending", "running"} /\ row'[r].status = "failed"
    PROVE  RL!Next
<1>1. /\ Stati' = [Stati EXCEPT ![r] = row'[r].status] /\ Gone' = Gone
      /\ Stati[r] = row[r].status /\ r \in Valid \ Gone
  BY DEF Stati, Gone, Valid
<1>2. \/ RL!Move(r, {"pending"}, "running")
      \/ RL!Move(r, {"running"}, "succeeded")
      \/ RL!Move(r, {"pending", "running"}, "failed")
  BY <1>1 DEF RL!Move, Stati, Gone
<1>3. QED
  BY <1>2 DEF RL!Next, RL!Start, RL!Succeed, RL!Fail

LEMMA ArchiveLeaves ==
    ASSUME TypeInv, OnlyDeaths, LifeInv, NEW w \in Workers, Archive(w)
    PROVE  RL!Next
<1>0. PICK r \in Runs : r = worker[w].run /\ Holds(w, r)
  BY HandlerOf DEF Handle
<1>1. worker[w].pc = "archive" /\ Life(r)
  BY <1>0 DEF Archive, LifeInv
<1>2. msg[r].state # "archived" /\ (r \in Valid => row[r].status \in Terminal)
  BY <1>0, <1>1 DEF Life, KnowsStatus, Valid
<1>3. row' = row /\ msg' = [msg EXCEPT ![r].state = "archived"]
  BY <1>0 DEF Archive
<1>4. Stati' = Stati
  BY <1>3 DEF Stati
<1>5. \A x \in Runs : msg'[x].state = IF x = r THEN "archived" ELSE msg[x].state
  BY <1>3 DEF TypeInv, TypeOK, Msg
<1>6. Gone' = Gone \cup {r}
  BY <1>5 DEF Gone
<1>7. r \in Runs \ Gone /\ (r \in Valid => Stati[r] \in Terminal)
  BY <1>2 DEF Gone, Stati
<1>8. RL!Leave(r)
  BY <1>4, <1>6, <1>7 DEF RL!Leave, RL!Terminal, Terminal, Stati, Gone
<1>9. QED
  BY <1>8 DEF RL!Next

LEMMA SaveMoves ==
    ASSUME TypeInv, OnlyDeaths, LifeInv, NEW w \in Workers, SaveRow(w)
    PROVE  (Stati' = Stati /\ Gone' = Gone) \/ RL!Next
<1> DEFINE h == worker[w]
           r == worker[w].run
<1>1. /\ r \in Runs /\ Holds(w, r) /\ h \in Handler /\ GoalOK(h) /\ Life(r)
  BY HandlerOf DEF Handle, LifeInv
<1>2. /\ h.pc \in {"save1", "save2"} /\ msg' = msg
      /\ row' = [row EXCEPT ![r] = Written(h)]
  BY PersistStepMoves
<1>3. row \in [Runs -> Row] /\ row[r] \in Row
  BY <1>1 DEF TypeInv, TypeOK
<1>4. row'[r] = Written(h) /\ row' = [row EXCEPT ![r] = row'[r]]
  BY <1>1, <1>2, <1>3
<1>5. Kind[r] # "malformed" /\ msg[r].state # "archived" /\ KnowsStatus(h, row[r])
  BY <1>1, <1>2 DEF Life
<1>6. h.goal \in {"running", "retry"} \cup Outcomes /\ (h.goal = "retry" => h.pc = "save1")
  BY <1>1, <1>2 DEF GoalOK, Handler, Goal, Outcomes
<1>7. row'[r].status = IF h.goal = "retry" THEN row[r].status ELSE StatusFor(h.goal)
  BY <1>1, <1>2, <1>4, <1>5, <1>6 DEF Written, KnowsStatus, Handler, Row
<1>8. CASE row'[r].status = row[r].status
  <2>1. \A x \in Runs : row'[x].status = row[x].status
    BY <1>2, <1>3, <1>8
  <2>2. QED
    BY <1>2, <2>1, StatusStutters
<1>9. CASE row'[r].status # row[r].status
  <2>1. row[r].status \in {"pending", "running"} \cup Terminal
    BY <1>3 DEF Row, Status
  <2>2. \/ row[r].status = "pending" /\ row'[r].status = "running"
        \/ row[r].status = "running" /\ row'[r].status = "succeeded"
        \/ row[r].status \in {"pending", "running"} /\ row'[r].status = "failed"
    <3>1. CASE h.goal = "running"
      BY <1>5, <1>7, <1>9, <2>1, <3>1 DEF KnowsStatus, StatusFor
    <3>2. CASE h.goal = "succeeded"
      BY <1>2, <1>5, <1>7, <1>9, <3>2 DEF KnowsStatus, StatusFor, Outcomes
    <3>3. CASE h.goal \in {"failed", "final"}
      BY <1>2, <1>5, <1>7, <1>9, <2>1, <3>3 DEF KnowsStatus, StatusFor, Outcomes
    <3>4. QED
      BY <1>6, <1>7, <1>9, <3>1, <3>2, <3>3 DEF Outcomes
  <2>3. QED
    BY <1>1, <1>2, <1>3, <1>4, <1>5, <1>9, <2>2, StatusMoves
<1>10. QED
  BY <1>8, <1>9

(* Where reads and writes of job_runs and archives work and no message      *)
(* becomes visible under a live worker, any number of workers with any      *)
(* number of crashes, restarts, redeliveries and retries give each run the  *)
(* promised life: it starts, settles once, and only then leaves the queue.  *)
THEOREM WorkersImplementLifecycle == ASSUME NoSuchFaults PROVE Spec => Lifecycle
<1>1. Init => RL!Init
  BY DEF Init, RL!Init, FreshRow
<1>2. TypeInv /\ TypeInv' /\ BudgetInv /\ LifeInv /\ OnlyDeaths /\ OnlyDeaths' /\ [Next]_vars
        => [RL!Next]_(RL!vars)
  <2> SUFFICES ASSUME TypeInv, TypeInv', BudgetInv, LifeInv, OnlyDeaths, OnlyDeaths',
                      [Next]_vars
               PROVE  (Stati' = Stati /\ Gone' = Gone) \/ RL!Next
    BY DEF RL!vars, Stati, Gone
  <2>1. ~Strike("db") /\ ~Strike("archive")
    BY StrikeCounts DEF OnlyDeaths, FaultClass
  <2>2. CASE \/ UNCHANGED vars
             \/ \E w \in Workers : PollEmpty(w) \/ Crash(w) \/ Restart(w)
             \/ \E w \in Workers, x \in Runs : Receive(w, x)
             \/ \E x \in Runs : VtExpires(x)
    <3>1. \A r \in Runs : /\ row'[r].status = row[r].status
                          /\ msg'[r].state = "archived" <=> msg[r].state = "archived"
      BY <2>2, AroundHandlers
    <3>2. QED
      BY <3>1, StatusStutters
  <2>3. ASSUME NEW w \in Workers, Handle(w)
        PROVE  (Stati' = Stati /\ Gone' = Gone) \/ RL!Next
    <3>1. CASE SaveRow(w)
      BY <3>1, SaveMoves
    <3>2. CASE Archive(w)
      BY <3>2, ArchiveLeaves
    <3>3. CASE ReadFails(w) \/ PersistFails(w) \/ ArchiveFails(w)
      BY <2>1, <3>3 DEF ReadFails, PersistFails, ArchiveFails
    <3>4. CASE row' = row /\ msg' = msg
      BY <3>4, StatusStutters
    <3>5. QED
      BY <2>3, <3>1, <3>2, <3>3, <3>4
         DEF Handle, CheckStatus, ReadRetryCount, FindRow, Backoff, ExecuteSucceeds,
             ExecuteFails, ExecuteIncomplete, Publish
  <2>4. QED
    BY <2>2, <2>3 DEF Next
<1>3. QED
  BY <1>1, <1>2, SpecTypeInv, SpecBudgetInv, SpecLifeInv, SpecOnlyDeaths, PTL
     DEF Spec, Lifecycle, RL!Spec

-----------------------------------------------------------------------------
(* The ceiling on executions                                                *)

(* The attempts a handler may still start, by their retry counts, and those *)
(* of all the handlers of a run.  A handler at the ceiling starts none.     *)
Owed(h) == IF h.pc \in {"check", "count"} THEN 0..MaxRetries
           ELSE IF h.goal = "running" THEN h.retry..MaxRetries
           ELSE IF h.goal \in {"retry", "succeeded"} THEN (h.retry + 1)..MaxRetries
           ELSE {}

Attempts == Workers \X (0..MaxRetries)

Outstanding(r) == {t \in Attempts : /\ Holds(t[1], r)
                                    /\ worker[t[1]].reads < ReadCeiling
                                    /\ t[2] \in Owed(worker[t[1]])}

(* The deliveries of a message that may execute it.                         *)
Deliveries(n) == IF n < ReadCeiling THEN n ELSE ReadCeiling - 1

CeilingInv ==
    \A r \in Runs :
        /\ pages[r] + Cardinality(Outstanding(r)) <= Deliveries(msg[r].reads) * (MaxRetries + 1)
        /\ \A w \in Workers : Holds(w, r) /\ worker[w].reads >= ReadCeiling
              => worker[w].goal \notin {"running", "retry", "succeeded"}

LEMMA AttemptsFinite ==
    /\ IsFiniteSet(Attempts)
    /\ \A S \in SUBSET Attempts : IsFiniteSet(S) /\ Cardinality(S) \in Nat
<1>1. IsFiniteSet(0..MaxRetries)
  BY FS_Interval, RetriesAssumption
<1>2. IsFiniteSet(Attempts)
  BY <1>1, FS_Product, WorkersAssumption DEF Attempts
<1>3. QED
  BY <1>2, FS_Subset, FS_CardinalityType

LEMMA FewerAttempts ==
    ASSUME NEW S \in SUBSET Attempts, NEW T \in SUBSET Attempts, S \subseteq T
    PROVE  /\ Cardinality(S) <= Cardinality(T)
           /\ \A t \in T : t \notin S => Cardinality(S) + 1 <= Cardinality(T)
<1>1. IsFiniteSet(T) /\ IsFiniteSet(S) /\ Cardinality(S) \in Nat /\ Cardinality(T) \in Nat
  BY AttemptsFinite
<1>2. ASSUME NEW t \in T, t \notin S PROVE Cardinality(S) + 1 <= Cardinality(T)
  <2>1. IsFiniteSet(T \ {t}) /\ Cardinality(T \ {t}) = Cardinality(T) - 1
    BY <1>1, <1>2, FS_RemoveElement
  <2>2. Cardinality(S) <= Cardinality(T \ {t})
    BY <1>2, <2>1, FS_Subset
  <2>3. QED
    BY <1>1, <2>1, <2>2
<1>3. QED
  BY <1>1, <1>2, FS_Subset

(* One delivery brings at most the configured attempts.                     *)
LEMMA DeliveredAttempts ==
    ASSUME NEW S \in SUBSET Attempts, NEW T \in SUBSET Attempts, NEW w \in Workers,
           S \subseteq T \cup ({w} \X (0..MaxRetries))
    PROVE  Cardinality(S) <= Cardinality(T) + (MaxRetries + 1)
<1> DEFINE D == {w} \X (0..MaxRetries)
<1>1. D \in SUBSET Attempts
  BY DEF Attempts
<1>2. IsFiniteSet(S) /\ IsFiniteSet(T) /\ IsFiniteSet(D)
      /\ Cardinality(S) \in Nat /\ Cardinality(T) \in Nat /\ Cardinality(D) \in Nat
  BY <1>1, AttemptsFinite
<1>3. Cardinality(0..MaxRetries) = MaxRetries + 1 /\ IsFiniteSet(0..MaxRetries)
  BY FS_Interval, RetriesAssumption
<1>4. Cardinality({w}) = 1 /\ IsFiniteSet({w})
  BY FS_Singleton
<1>5. Cardinality(D) = MaxRetries + 1
  <2>1. Cardinality(D) = Cardinality({w}) * Cardinality(0..MaxRetries)
    BY <1>3, <1>4, FS_Product
  <2>2. QED
    BY <1>3, <1>4, <2>1, RetriesAssumption
<1> HIDE DEF D
<1>6. /\ IsFiniteSet(T \cup D)
      /\ Cardinality(T \cup D) = Cardinality(T) + Cardinality(D) - Cardinality(T \cap D)
  BY <1>2, FS_Union
<1>7. Cardinality(T \cap D) \in Nat
  <2>1. IsFiniteSet(T \cap D)
    BY <1>2, FS_Subset
  <2>2. QED
    BY <2>1, FS_CardinalityType
<1>8. Cardinality(S) <= Cardinality(T \cup D)
  BY <1>6, FS_Subset DEF D
<1>9. QED
  BY <1>2, <1>5, <1>6, <1>7, <1>8, RetriesAssumption

(* What a handler owes only shrinks, and its delivery stays the same.       *)
Live == {"running", "retry", "succeeded"}

LEMMA OwedMoves ==
    ASSUME TypeInv, NEW w \in Workers, Handle(w), Busy(w)'
    PROVE  /\ \/ Owed(worker'[w]) = {}
              \/ /\ worker'[w].reads = worker[w].reads
                 /\ Owed(worker'[w]) \subseteq Owed(worker[w])
           /\ worker'[w].goal \in Live =>
                /\ worker'[w].reads = worker[w].reads
                /\ worker[w].goal \in Live \/ worker[w].reads < ReadCeiling
<1> DEFINE h == worker[w]
           k == worker'[w]
<1>1. h \in Handler /\ GoalOK(h) /\ h.retry \in Nat /\ h.retry <= MaxRetries
      /\ h.reads \in Nat
  BY HandlerOf, RetriesAssumption, CeilingAssumption DEF Handler
<1> HIDE DEF h, k
<1> USE DEF Owed, Live, Turns, TurnsAsIs, Same
<1>2. CASE CheckStatus(w)
  <2>1. h.pc = "check" /\ k.pc \in {"archive", "count"} /\ k.goal = "skip" /\ k.reads = h.reads
    BY <1>1, <1>2, ReadMoves DEF GoalOK, h, k
  <2>2. QED
    BY <2>1 DEF h, k
<1>3. CASE ReadRetryCount(w)
  <2>1. /\ h.pc = "count" /\ k.pc = "find1" /\ k.reads = h.reads
        /\ k.goal = IF h.reads >= ReadCeiling THEN "failed" ELSE "running"
    BY <1>3, ReadMoves DEF h, k
  <2>2. k.retry \in Nat
    <3> DEFINE n == row[h.run].retry
    <3>1. n \in Nat
      BY <1>1, HandlerOf, RetriesAssumption DEF TypeInv, TypeOK, Row, h
    <3> HIDE DEF n
    <3>2. worker'[w].retry = n
      <4> DEFINE goal == IF h.reads >= ReadCeiling THEN "failed" ELSE "running"
      <4>1. [worker[w] EXCEPT !.retry = n].reads = h.reads
        BY <1>1 DEF Handler, h
      <4>2. worker'[w] = Persist([worker[w] EXCEPT !.retry = n], goal)
        BY <1>3, <4>1 DEF ReadRetryCount, Become, TypeInv, TypeOK, n, h
      <4> HIDE DEF goal
      <4>3. worker'[w] = [h EXCEPT !.retry = n, !.goal = goal, !.pc = "find1"]
        BY <1>1, <4>2 DEF Persist, Handler, h
      <4>4. QED
        BY <1>1, <4>3 DEF Handler
    <3>3. QED
      BY <3>1, <3>2 DEF k
  <2>3. k.retry..MaxRetries \subseteq 0..MaxRetries
    BY <2>2, RetriesAssumption
  <2>4. QED
    BY <1>1, <2>1, <2>3, CeilingAssumption DEF h, k
<1>4. CASE ReadFails(w) \/ ExecuteIncomplete(w)
  <2>1. k.pc = "find1" /\ k.goal = "final"
    BY <1>4, ReadMoves, ExecuteMoves DEF k
  <2>2. QED
    BY <2>1 DEF k
<1>5. CASE FindRow(w) \/ SaveRow(w) \/ Publish(w)
  <2>1. /\ k.goal = h.goal /\ k.reads = h.reads /\ k.retry = h.retry
        /\ h.pc \notin {"check", "count"} /\ k.pc \notin {"check", "count"}
    BY <1>5, PersistStepMoves, EndMoves DEF AfterSave, h, k
  <2>2. QED
    BY <2>1 DEF h, k
<1>6. CASE PersistFails(w)
  <2>1. /\ k.reads = h.reads /\ k.retry = h.retry
        /\ h.pc \notin {"check", "count"} /\ k.pc \notin {"check", "count"}
        /\ \/ h.goal \in {"running", "succeeded"} /\ k.goal = "retry"
           \/ k.goal = "failed"
           \/ k.goal = h.goal
    BY <1>6, PersistStepMoves DEF h, k
  <2>2. (h.retry + 1)..MaxRetries \subseteq h.retry..MaxRetries
    BY <1>1, RetriesAssumption
  <2>3. QED
    BY <2>1, <2>2 DEF h, k
<1>7. CASE Backoff(w)
  <2>1. /\ k.reads = h.reads /\ k.retry = h.retry + 1 /\ k.pc = "find1"
        /\ k.goal = "running" /\ h.pc = "backoff" /\ h.goal = "retry"
    BY <1>1, <1>7, ExecuteMoves DEF GoalOK, h, k
  <2>2. QED
    BY <2>1 DEF h, k
<1>8. CASE ExecuteSucceeds(w) \/ ExecuteFails(w)
  <2>1. /\ k.reads = h.reads /\ k.retry = h.retry /\ k.pc = "find1"
        /\ h.pc = "execute" /\ k.goal \in {"succeeded", "retry", "failed"}
        /\ h.goal = "running"
    BY <1>1, <1>8, ExecuteMoves DEF GoalOK, h, k
  <2>2. (h.retry + 1)..MaxRetries \subseteq h.retry..MaxRetries
    BY <1>1, RetriesAssumption
  <2>3. QED
    BY <2>1, <2>2 DEF h, k
<1>9. CASE Archive(w)
  <2>1. worker'[w].pc = "idle"
    BY <1>9, EndMoves DEF Resting
  <2>2. QED
    BY <2>1 DEF Busy
<1>10. CASE ArchiveFails(w)
  <2>1. k.pc # "dead" => k.pc \in {"archive", "find1"} /\ k.goal = "final"
    BY <1>10, EndMoves DEF Resting, k
  <2>2. QED
    BY <2>1 DEF Busy, k
<1>11. QED
  BY <1>2, <1>3, <1>4, <1>5, <1>6, <1>7, <1>8, <1>9, <1>10 DEF Handle

(* Each page uses up the attempt its handler is at.                         *)
LEMMA PageUsesAttempt ==
    ASSUME TypeInv, NEW w \in Workers, Handle(w)
    PROVE  /\ \/ UNCHANGED pages
              \/ /\ pages' = [pages EXCEPT ![worker[w].run] = @ + 1]
                 /\ worker[w].goal = "running"
                 /\ worker[w].retry \in Owed(worker[w])
                 /\ worker[w].retry \notin Owed(worker'[w])
           /\ \A r \in Runs : msg'[r].reads = msg[r].reads
<1> DEFINE h == worker[w]
           k == worker'[w]
<1>1. h \in Handler /\ GoalOK(h) /\ h.retry \in Nat /\ h.retry <= MaxRetries /\ h.run \in Runs
  BY HandlerOf, RetriesAssumption DEF Handler
<1>2. CASE ExecuteSucceeds(w) \/ ExecuteFails(w)
  <2>1. /\ k.retry = h.retry /\ k.pc = "find1"
        /\ h.pc = "execute" /\ k.goal \in {"succeeded", "retry", "failed"}
        /\ UNCHANGED msg
        /\ UNCHANGED pages \/ pages' = [pages EXCEPT ![h.run] = @ + 1]
    BY <1>2, ExecuteMoves DEF Turns, TurnsAsIs
  <2>2. h.goal = "running"
    BY <1>1, <2>1 DEF GoalOK
  <2> HIDE DEF h, k
  <2>3. h.retry \in Owed(h) /\ h.retry \notin Owed(k)
    BY <1>1, <2>1, <2>2, RetriesAssumption DEF Owed
  <2>4. QED
    BY <2>1, <2>2, <2>3 DEF h, k
<1>3. CASE ~(ExecuteSucceeds(w) \/ ExecuteFails(w))
  <2>1. UNCHANGED pages
    BY <1>3 DEF Handle, CheckStatus, ReadRetryCount, ReadFails, FindRow, SaveRow,
       PersistFails, Backoff, ExecuteIncomplete, Publish, Archive, ArchiveFails
  <2>2. msg \in [Runs -> Msg]
    BY DEF TypeInv, TypeOK
  <2>3. UNCHANGED msg \/ msg' = [msg EXCEPT ![h.run].state = "archived"]
    BY <1>3 DEF Handle, CheckStatus, ReadRetryCount, ReadFails, FindRow, SaveRow,
       PersistFails, Backoff, ExecuteIncomplete, Publish, Archive, ArchiveFails
  <2>4. \A r \in Runs : msg'[r].reads = msg[r].reads
    BY <1>1, <2>2, <2>3 DEF Msg
  <2>5. QED
    BY <2>1, <2>4
<1>4. QED
  BY <1>2, <1>3

(* A step of a handler leaves no more attempts outstanding to any run, and  *)
(* fewer where it creates a page.                                           *)
LEMMA OwnAttempts ==
    ASSUME TypeInv, TypeInv', NEW w \in Workers, Handle(w), NEW r \in Runs
    PROVE  /\ Outstanding(r)' \subseteq Outstanding(r)
           /\ \/ pages'[r] = pages[r]
              \/ /\ pages'[r] = pages[r] + 1
                 /\ r = worker[w].run /\ worker[w].goal = "running"
                 /\ worker[w].reads < ReadCeiling =>
                       \E t \in Outstanding(r) : t \notin Outstanding(r)'
<1>1. /\ Holds(w, worker[w].run) /\ worker[w] \in Handler /\ worker[w].run \in Runs
      /\ \A v \in Workers \ {w} : worker'[v] = worker[v]
      /\ worker'[w].run \in {worker[w].run, NoRun}
  BY HandlerOf
<1>2. \A v \in Workers \ {w} : Holds(v, r)' <=> Holds(v, r)
  BY <1>1 DEF Holds, Busy
<1>3. Holds(w, r)' => Holds(w, r) /\ Busy(w)'
  BY <1>1, RunsAssumption DEF Holds
<1>4. Outstanding(r)' \subseteq Outstanding(r)
  <2> SUFFICES ASSUME NEW t \in Outstanding(r)'
               PROVE  t \in Outstanding(r)
    OBVIOUS
  <2> DEFINE v == t[1]
  <2>1. /\ t \in Attempts /\ v \in Workers
        /\ Holds(v, r)' /\ worker'[v].reads < ReadCeiling /\ t[2] \in Owed(worker'[v])
    BY DEF Outstanding, Attempts
  <2> HIDE DEF v
  <2>2. CASE v # w
    BY <1>1, <1>2, <2>1, <2>2 DEF Outstanding, v
  <2>3. CASE v = w
    BY <1>3, <2>1, <2>3, OwedMoves DEF Outstanding, v
  <2>4. QED
    BY <2>2, <2>3
<1>5. pages \in [Runs -> Nat]
  BY DEF TypeInv, TypeOK
<1>6. CASE pages'[r] # pages[r]
  <2>1. /\ pages' = [pages EXCEPT ![worker[w].run] = @ + 1]
        /\ worker[w].goal = "running"
        /\ worker[w].retry \in Owed(worker[w])
        /\ worker[w].retry \notin Owed(worker'[w])
    BY <1>6, PageUsesAttempt
  <2>2. r = worker[w].run /\ pages'[r] = pages[r] + 1
    BY <1>1, <1>5, <1>6, <2>1
  <2> DEFINE t == <<w, worker[w].retry>>
  <2>3. t \in Attempts /\ t[1] = w /\ t[2] = worker[w].retry
    BY <1>1 DEF Attempts, Handler
  <2>4. worker[w].reads < ReadCeiling => t \in Outstanding(r)
    BY <1>1, <2>1, <2>2, <2>3 DEF Outstanding
  <2>5. t \notin Outstanding(r)'
    <3> DEFINE n == worker[w].retry
    <3> HIDE DEF n
    <3>1. n \notin Owed(worker'[w])
      BY <2>1 DEF n
    <3>2. <<w, n>> \notin Outstanding(r)'
      BY <3>1 DEF Outstanding
    <3>3. QED
      BY <3>2 DEF n
  <2>6. QED
    BY <1>4, <2>1, <2>2, <2>4, <2>5
<1>7. QED
  BY <1>4, <1>6

(* A delivery below the ceiling brings the attempts of one handler, the     *)
(* others none.                                                             *)
LEMMA ReceivedAttempts ==
    ASSUME TypeInv, NEW w \in Workers, NEW x \in Runs, Receive(w, x), NEW r \in Runs
    PROVE  /\ pages' = pages
           /\ \/ /\ Outstanding(r)' \subseteq Outstanding(r)
                 /\ Deliveries(msg'[r].reads) = Deliveries(msg[r].reads)
              \/ /\ Outstanding(r)' \subseteq Outstanding(r) \cup ({w} \X (0..MaxRetries))
                 /\ Deliveries(msg'[r].reads) = Deliveries(msg[r].reads) + 1
           /\ \A v \in Workers \ {w} : worker'[v] = worker[v]
           /\ worker'[w].goal = "skip"
<1> DEFINE n == IF msg[x].reads < ReadCeiling THEN msg[x].reads + 1 ELSE ReadCeiling
<1>1. worker \in [Workers -> Handler] /\ msg \in [Runs -> Msg]
  BY DEF TypeInv, TypeOK
<1>2. /\ pages' = pages /\ worker[w].pc = "idle"
      /\ \A v \in Workers \ {w} : worker'[v] = worker[v]
      /\ worker'[w].run = x /\ worker'[w].goal = "skip" /\ worker'[w].reads = n
  BY <1>1 DEF Receive, Become, Resting
<1>3. /\ \A y \in Runs \ {x} : msg'[y] = msg[y]
      /\ msg'[x].reads = n
  BY <1>1 DEF Receive
<1>4. msg[x].reads \in Nat /\ msg[x].reads <= ReadCeiling
  BY <1>1, CeilingAssumption DEF Msg
<1>5. \A t \in Outstanding(r)' : t[1] # w => t \in Outstanding(r)
  BY <1>2 DEF Outstanding, Holds, Busy, Attempts
<1>6. \A t \in Outstanding(r)' : t[1] = w => r = x /\ n < ReadCeiling
                                             /\ t \in {w} \X (0..MaxRetries)
  BY <1>2 DEF Outstanding, Holds, Busy, Attempts
<1>7. CASE r = x /\ n < ReadCeiling
  <2>1. Deliveries(n) = Deliveries(msg[r].reads) + 1
    BY <1>4, <1>7, CeilingAssumption DEF Deliveries
  <2>2. QED
    BY <1>2, <1>3, <1>5, <1>6, <1>7, <2>1
<1>8. CASE r = x /\ ~(n < ReadCeiling)
  <2>1. Deliveries(n) = Deliveries(msg[r].reads)
    BY <1>4, <1>8, CeilingAssumption DEF Deliveries
  <2>2. QED
    BY <1>2, <1>3, <1>5, <1>6, <1>8, <2>1
<1>9. CASE r # x
  BY <1>2, <1>3, <1>5, <1>6, <1>9
<1>10. QED
  BY <1>7, <1>8, <1>9

(* The other steps neither deliver nor execute.                             *)
LEMMA RestKeepsAttempts ==
    ASSUME TypeInv,
           \/ UNCHANGED vars
           \/ \E w \in Workers : PollEmpty(w) \/ Crash(w) \/ Restart(w)
           \/ \E x \in Runs : VtExpires(x),
           NEW r \in Runs
    PROVE  /\ pages' = pages /\ msg'[r].reads = msg[r].reads
           /\ Outstanding(r)' \subseteq Outstanding(r)
           /\ \A v \in Workers : Holds(v, r)' => Holds(v, r) /\ worker'[v] = worker[v]
<1> USE DEF Holds, Busy
<1>1. worker \in [Workers -> Handler] /\ msg \in [Runs -> Msg]
  BY DEF TypeInv, TypeOK
<1>2. CASE UNCHANGED vars \/ \E w \in Workers : PollEmpty(w)
  BY <1>2 DEF vars, PollEmpty, Outstanding
<1>3. ASSUME NEW w \in Workers, Crash(w) \/ Restart(w)
      PROVE  /\ pages' = pages /\ msg' = msg
             /\ \A v \in Workers : Holds(v, r)' => Holds(v, r) /\ worker'[v] = worker[v]
  <2>1. PICK pc \in {"idle", "dead"} : Become(w, Resting(pc))
    BY <1>3 DEF Crash, Restart
  <2>2. worker' = [worker EXCEPT ![w] = Resting(pc)] /\ Resting(pc).pc = pc
    BY <2>1, RestingTyped DEF Become
  <2>3. \A v \in Workers : Holds(v, r)' => v # w
    BY <1>1, <2>2
  <2>4. QED
    BY <1>1, <1>3, <2>2, <2>3 DEF Crash, Restart
<1>4. ASSUME NEW x \in Runs, VtExpires(x)
      PROVE  pages' = pages /\ worker' = worker /\ msg'[r].reads = msg[r].reads
  BY <1>1, <1>4 DEF VtExpires, Msg
<1>5. ASSUME \A v \in Workers : Holds(v, r)' => Holds(v, r) /\ worker'[v] = worker[v]
      PROVE  Outstanding(r)' \subseteq Outstanding(r)
  BY <1>5 DEF Outstanding, Attempts
<1>6. QED
  BY <1>2, <1>3, <1>4, <1>5

LEMMA Budgets ==
    ASSUME NEW n \in Nat
    PROVE  /\ Deliveries(n) \in Nat /\ Deliveries(n) <= ReadCeiling - 1
           /\ Deliveries(n) * (MaxRetries + 1) \in Nat
           /\ (Deliveries(n) + 1) * (MaxRetries + 1)
                = Deliveries(n) * (MaxRetries + 1) + (MaxRetries + 1)
           /\ Deliveries(n) * (MaxRetries + 1) <= (ReadCeiling - 1) * (MaxRetries + 1)
<1> DEFINE d == Deliveries(n)
           m == MaxRetries + 1
           c == ReadCeiling - 1
<1>1. d \in Nat /\ d <= c /\ c \in Nat /\ m \in Nat
  BY CeilingAssumption, RetriesAssumption DEF Deliveries
<1> HIDE DEF d, m, c
<1>2. d * m \in Nat /\ (d + 1) * m = d * m + m
  BY <1>1
<1>3. d * m <= c * m
  <2>1. PICK e \in Nat : c = d + e
    <3>1. c - d \in Nat /\ c = d + (c - d)
      BY <1>1
    <3>2. QED
      BY <3>1
  <2>2. c * m = d * m + e * m /\ e * m \in Nat
    BY <1>1, <2>1
  <2>3. QED
    BY <1>2, <2>2
<1>4. QED
  BY <1>1, <1>2, <1>3 DEF d, m, c

LEMMA InitCeilingInv == Init => CeilingInv
<1> SUFFICES ASSUME Init, NEW r \in Runs
             PROVE  /\ pages[r] + Cardinality(Outstanding(r))
                         <= Deliveries(msg[r].reads) * (MaxRetries + 1)
                    /\ \A w \in Workers : ~Holds(w, r)
  BY DEF CeilingInv
<1>1. \A w \in Workers : ~Holds(w, r)
  BY DEF Init, Holds, Busy, Resting
<1>2. Outstanding(r) = {}
  BY <1>1 DEF Outstanding, Attempts
<1>3. Cardinality({}) = 0
  BY FS_EmptySet
<1>4. pages[r] = 0 /\ msg[r].reads = 0
  BY DEF Init
<1>5. QED
  BY <1>1, <1>2, <1>3, <1>4, Budgets

LEMMA NextCeilingInv == TypeInv /\ TypeInv' /\ CeilingInv /\ [Next]_vars => CeilingInv'
<1> SUFFICES ASSUME TypeInv, TypeInv', CeilingInv, [Next]_vars, NEW r \in Runs
             PROVE  /\ pages'[r] + Cardinality(Outstanding(r)')
                         <= Deliveries(msg'[r].reads) * (MaxRetries + 1)
                    /\ \A w \in Workers : Holds(w, r)' /\ worker'[w].reads >= ReadCeiling
                          => worker'[w].goal \notin Live
  BY DEF CeilingInv, Live
<1>1. /\ pages[r] + Cardinality(Outstanding(r)) <= Deliveries(msg[r].reads) * (MaxRetries + 1)
      /\ \A w \in Workers : Holds(w, r) /\ worker[w].reads >= ReadCeiling
            => worker[w].goal \notin Live
  BY DEF CeilingInv, Live
<1>2. /\ pages[r] \in Nat /\ pages'[r] \in Nat
      /\ msg[r].reads \in Nat /\ msg'[r].reads \in Nat
  BY CeilingAssumption DEF TypeInv, TypeOK, Msg
<1>3. Outstanding(r) \in SUBSET Attempts /\ Outstanding(r)' \in SUBSET Attempts
  BY DEF Outstanding, Attempts
<1>4. Cardinality(Outstanding(r)) \in Nat /\ Cardinality(Outstanding(r)') \in Nat
  BY <1>3, AttemptsFinite
<1>5. \A w \in Workers : worker[w].reads \in Nat /\ worker'[w].reads \in Nat
  BY CeilingAssumption DEF TypeInv, TypeOK, Handler
<1>6. ASSUME NEW w \in Workers, Handle(w)
      PROVE  /\ pages'[r] + Cardinality(Outstanding(r)')
                  <= Deliveries(msg'[r].reads) * (MaxRetries + 1)
             /\ \A v \in Workers : Holds(v, r)' /\ worker'[v].reads >= ReadCeiling
                   => worker'[v].goal \notin Live
  <2>1. msg'[r].reads = msg[r].reads
    BY <1>6, PageUsesAttempt
  <2>2. pages'[r] + Cardinality(Outstanding(r)') <= pages[r] + Cardinality(Outstanding(r))
    <3>1. Cardinality(Outstanding(r)') <= Cardinality(Outstanding(r))
      BY <1>3, <1>6, OwnAttempts, FewerAttempts
    <3>2. CASE pages'[r] = pages[r]
      BY <1>2, <1>4, <3>1, <3>2
    <3>3. CASE pages'[r] # pages[r]
      <4>1. /\ pages'[r] = pages[r] + 1
            /\ r = worker[w].run /\ worker[w].goal = "running"
            /\ worker[w].reads < ReadCeiling =>
                  \E t \in Outstanding(r) : t \notin Outstanding(r)'
        BY <1>6, <3>3, OwnAttempts
      <4>2. worker[w].reads < ReadCeiling
        BY <1>1, <1>5, <1>6, <4>1, HandlerOf, CeilingAssumption DEF Live
      <4>3. Cardinality(Outstanding(r)') + 1 <= Cardinality(Outstanding(r))
        BY <1>3, <1>6, <4>1, <4>2, OwnAttempts, FewerAttempts
      <4>4. QED
        BY <1>2, <1>4, <4>1, <4>3
    <3>4. QED
      BY <3>2, <3>3
  <2>3. pages'[r] + Cardinality(Outstanding(r)')
          <= Deliveries(msg'[r].reads) * (MaxRetries + 1)
    BY <1>1, <1>2, <1>4, <2>1, <2>2, Budgets
  <2>4. ASSUME NEW v \in Workers, Holds(v, r)', worker'[v].reads >= ReadCeiling,
               worker'[v].goal \in Live
        PROVE  FALSE
    <3>1. /\ Holds(w, worker[w].run)
          /\ \A u \in Workers \ {w} : worker'[u] = worker[u]
          /\ worker'[w].run \in {worker[w].run, NoRun}
      BY <1>6, HandlerOf
    <3>2. CASE v # w
      BY <1>1, <2>4, <3>1, <3>2 DEF Holds, Busy
    <3>3. CASE v = w
      <4>1. Busy(w)' /\ worker[w].run = r
        BY <2>4, <3>1, <3>3, RunsAssumption DEF Holds
      <4>2. /\ worker'[w].reads = worker[w].reads
            /\ worker[w].goal \in Live \/ worker[w].reads < ReadCeiling
        BY <1>6, <2>4, <3>3, <4>1, OwedMoves
      <4>3. QED
        BY <1>1, <1>5, <2>4, <3>1, <3>3, <4>1, <4>2, CeilingAssumption
    <3>4. QED
      BY <3>2, <3>3
  <2>5. QED
    BY <2>3, <2>4
<1>7. ASSUME NEW w \in Workers, NEW x \in Runs, Receive(w, x)
      PROVE  /\ pages'[r] + Cardinality(Outstanding(r)')
                  <= Deliveries(msg'[r].reads) * (MaxRetries + 1)
             /\ \A v \in Workers : Holds(v, r)' /\ worker'[v].reads >= ReadCeiling
                   => worker'[v].goal \notin Live
  <2>1. pages'[r] = pages[r]
    BY <1>7, ReceivedAttempts
  <2>2. ASSUME Outstanding(r)' \subseteq Outstanding(r),
               Deliveries(msg'[r].reads) = Deliveries(msg[r].reads)
        PROVE  pages'[r] + Cardinality(Outstanding(r)')
                 <= Deliveries(msg'[r].reads) * (MaxRetries + 1)
    <3>1. Cardinality(Outstanding(r)') <= Cardinality(Outstanding(r))
      BY <1>3, <2>2, FewerAttempts
    <3>2. QED
      BY <1>1, <1>2, <1>4, <2>1, <2>2, <3>1, Budgets
  <2>3. ASSUME Outstanding(r)' \subseteq Outstanding(r) \cup ({w} \X (0..MaxRetries)),
               Deliveries(msg'[r].reads) = Deliveries(msg[r].reads) + 1
        PROVE  pages'[r] + Cardinality(Outstanding(r)')
                 <= Deliveries(msg'[r].reads) * (MaxRetries + 1)
    <3>1. Cardinality(Outstanding(r)') <= Cardinality(Outstanding(r)) + (MaxRetries + 1)
      BY <1>3, <2>3, DeliveredAttempts
    <3>2. QED
      BY <1>1, <1>2, <1>4, <2>1, <2>3, <3>1, Budgets, RetriesAssumption
  <2>4. ASSUME NEW v \in Workers, Holds(v, r)', worker'[v].reads >= ReadCeiling
        PROVE  worker'[v].goal \notin Live
    <3>1. CASE v # w
      BY <1>1, <1>7, <2>4, <3>1, ReceivedAttempts DEF Holds, Busy
    <3>2. CASE v = w
      BY <1>7, <3>2, ReceivedAttempts DEF Live
    <3>3. QED
      BY <3>1, <3>2
  <2>5. QED
    BY <1>7, <2>2, <2>3, <2>4, ReceivedAttempts
<1>8. CASE \/ UNCHANGED vars
           \/ \E w \in Workers : PollEmpty(w) \/ Crash(w) \/ Restart(w)
           \/ \E x \in Runs : VtExpires(x)
  <2>1. /\ pages' = pages /\ msg'[r].reads = msg[r].reads
        /\ Outstanding(r)' \subseteq Outstanding(r)
        /\ \A v \in Workers : Holds(v, r)' => Holds(v, r) /\ worker'[v] = worker[v]
    BY <1>8, RestKeepsAttempts
  <2>2. Cardinality(Outstanding(r)') <= Cardinality(Outstanding(r))
    BY <1>3, <2>1, FewerAttempts
  <2>3. pages'[r] + Cardinality(Outstanding(r)')
          <= Deliveries(msg'[r].reads) * (MaxRetries + 1)
    BY <1>1, <1>2, <1>4, <2>1, <2>2, Budgets
  <2>4. QED
    BY <1>1, <2>1, <2>3
<1>9. QED
  BY <1>6, <1>7, <1>8 DEF Next

(* A run is executed at most MaxRetries + 1 times per delivery and not at   *)
(* all from _READ_COUNT_CEILING on, however many workers a message is       *)
(* redelivered to and whatever fails on the way.                            *)
THEOREM ExecutionsUnderCeiling == Spec => []ExecutionCeiling
<1>1. Spec => []CeilingInv
  <2>1. TypeInv /\ TypeInv' /\ CeilingInv /\ [Next]_vars => CeilingInv'
    BY NextCeilingInv
  <2>2. QED
    BY <2>1, InitCeilingInv, SpecTypeInv, PTL DEF Spec
<1>2. TypeInv /\ CeilingInv => ExecutionCeiling
  <2> SUFFICES ASSUME TypeInv, CeilingInv, NEW r \in Runs
               PROVE  pages[r] <= (ReadCeiling - 1) * (MaxRetries + 1)
    BY DEF ExecutionCeiling
  <2>1. pages[r] \in Nat /\ msg[r].reads \in Nat
    BY CeilingAssumption DEF TypeInv, TypeOK, Msg
  <2>2. Cardinality(Outstanding(r)) \in Nat
    BY AttemptsFinite DEF Outstanding
  <2>3. pages[r] + Cardinality(Outstanding(r)) <= Deliveries(msg[r].reads) * (MaxRetries + 1)
    BY DEF CeilingInv
  <2>4. (ReadCeiling - 1) * (MaxRetries + 1) \in Nat
    BY CeilingAssumption, RetriesAssumption
  <2>5. QED
    BY <2>1, <2>2, <2>3, <2>4, Budgets
<1>3. QED
  BY <1>1, <1>2, SpecTypeInv, PTL
=============================================================================
