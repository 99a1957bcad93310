------------------------------- MODULE Worker -------------------------------
(***************************************************************************)
(* The queue worker (app/queue/worker.py) and what it shares with its      *)
(* replicas: the pgmq queue, the job_runs rows, and the Notion database    *)
(* the pipelines write to.                                                 *)
(*                                                                         *)
(* Worker processes read one message at a time.  Every await of the        *)
(* handler at which another process can run is a separate action; a        *)
(* row update is what the code does, a read of the whole row followed by   *)
(* an upsert of the whole row, so a slow worker writes back stale columns. *)
(* One message stands for one run: the routes send one message per row     *)
(* they insert (module TriggerDispatch).                                   *)
(***************************************************************************)
EXTENDS Integers, FiniteSets

CONSTANTS Workers,      (* the worker processes                                  *)
          Runs,         (* the queued runs, one pgmq message each                *)
          NoRun,        (* the run of a worker that handles no message           *)
          Kind,         (* Kind[r]: what the message of r asks for               *)
          MaxRetries,   (* len(retry_delays_seconds)                             *)
          ReadCeiling,  (* _READ_COUNT_CEILING                                   *)
          MaxFaults     (* bound: how many faults of each class may strike       *)

Kinds == {"writes",      \* a production run: its pipeline ends by creating a page
          "preview",     \* a live test with allow_destination_writes = false
          "incomplete",  \* owner, job definition or trigger id is missing
          "malformed"}   \* _extract_payload returns None

FaultClass == {"db",       \* a read or an upsert of job_runs raises
               "archive",  \* pgmq_archive raises
               "crash",    \* the process stops in the middle of a message
               "expire"}   \* the visibility timeout passes under a live worker

ASSUME RunsAssumption    == NoRun \notin Runs /\ Kind \in [Runs -> Kinds]
ASSUME WorkersAssumption == IsFiniteSet(Workers)
ASSUME RetriesAssumption == MaxRetries \in Nat
ASSUME CeilingAssumption == ReadCeiling \in Nat \ {0}
ASSUME FaultsAssumption  == MaxFaults \in [FaultClass -> Nat]

VARIABLES msg,       \* pgmq: the state and the read count of each message
          row,       \* the job_runs row of each run
          worker,    \* the local state of each worker's message handler
          pages,     \* Notion pages created for each run
          notified,  \* how often success and failure were published for a run
          faults     \* the faults that have struck, by class

vars == <<msg, row, worker, pages, notified, faults>>

Terminal == {"succeeded", "failed"}      \* _TERMINAL_STATUSES
Status   == {"pending", "running"} \cup Terminal

Row == [status: Status, retry: 0..MaxRetries, result: BOOLEAN]
Msg == [state: {"visible", "inflight", "archived"}, reads: 0..ReadCeiling]

(* What a sequence of row writes is for.  "final" is _handle_final_failure; *)
(* "skip" writes nothing, the message only has to be archived.              *)
Goal == {"skip", "running", "retry", "succeeded", "failed", "final"}

PC == {"idle", "dead", "check", "count", "find1", "save1", "find2", "save2",
       "execute", "backoff", "publish", "archive"}

Handler == [pc: PC, run: Runs \cup {NoRun}, reads: 0..ReadCeiling,
            retry: 0..MaxRetries, goal: Goal, snap: Row]

FreshRow == [status |-> "pending", retry |-> 0, result |-> FALSE]

Resting(pc) == [pc |-> pc, run |-> NoRun, reads |-> 0, retry |-> 0,
                goal |-> "skip", snap |-> FreshRow]

-----------------------------------------------------------------------------
(* Helpers *)

Busy(w) == worker[w].pc \notin {"idle", "dead"}
Holds(w, r) == Busy(w) /\ worker[w].run = r

Strike(class) ==
    /\ faults[class] < MaxFaults[class]
    /\ faults' = [faults EXCEPT ![class] = @ + 1]

Become(w, h) == worker' = [worker EXCEPT ![w] = h]

(* The handler starts to persist `goal`: update_job_status and then         *)
(* update_run, or increment_job_retry_count alone for "retry".              *)
Persist(h, goal) == [h EXCEPT !.goal = goal, !.pc = "find1"]

(* Variants of the handler's pieces, each with one plausible mistake.  Only *)
(* the mutation runs use them.                                              *)
RecoverOffByOne(h, fatal) ==
    IF ~fatal /\ h.retry <= MaxRetries THEN Persist(h, "retry") ELSE Persist(h, "failed")
RecoverSwallowing(h, fatal) ==
    IF ~fatal /\ h.retry + 1 <= MaxRetries THEN Persist(h, "retry")
                                           ELSE Persist(h, "succeeded")
RecoverDropping(h, fatal) ==
    IF ~fatal /\ h.retry + 1 <= MaxRetries THEN Persist(h, "retry")
                                           ELSE [h EXCEPT !.pc = "archive"]

(* The except clauses around persist-running, execute and persist-success:  *)
(* a foreign-key or unique violation ends the run, any other error is       *)
(* retried while retries are left.                                          *)
Recover(h, fatal) ==
    IF ~fatal /\ h.retry + 1 <= MaxRetries THEN Persist(h, "retry")
                                           ELSE Persist(h, "failed")

StatusFor(goal) == IF goal = "final" THEN "failed" ELSE goal

WrittenUncounted(h) ==
    IF h.goal = "retry" THEN h.snap
    ELSE [h.snap EXCEPT !.status = StatusFor(h.goal)]

(* The row an upsert writes: the columns read before it, with the           *)
(* assignments of increment_job_retry_count, update_job_status (save1) or   *)
(* update_run (save2).                                                      *)
Written(h) ==
    IF h.goal = "retry"
      THEN [h.snap EXCEPT !.retry = h.retry + 1]
      ELSE [status |-> StatusFor(h.goal),
            retry  |-> IF h.goal = "running" /\ h.pc = "save1"
                         THEN h.retry ELSE h.snap.retry,
            result |-> h.snap.result \/ (h.goal = "succeeded" /\ h.pc = "save2")]

(* Where the handler is once an upsert has returned. *)
AfterSave(h) ==
    IF h.goal = "retry"   THEN "backoff" ELSE
    IF h.pc = "save1"     THEN "find2"   ELSE
    IF h.goal = "running" THEN "execute" ELSE "publish"

(* Where the handler goes when a find or an upsert raises: the outcome of   *)
(* the except clause that encloses the call.                                *)
AfterPersistError(h, fatal) ==
    IF h.goal \in {"running", "succeeded"} THEN Recover(h, fatal)
    ELSE IF h.goal = "retry"               THEN Persist(h, "failed")
    ELSE [h EXCEPT !.pc = "publish"]

-----------------------------------------------------------------------------
Init ==
    /\ msg = [r \in Runs |-> [state |-> "visible", reads |-> 0]]
    /\ row = [r \in Runs |-> FreshRow]
    /\ worker = [w \in Workers |-> Resting("idle")]
    /\ pages = [r \in Runs |-> 0]
    /\ notified = [r \in Runs |-> [success |-> 0, failure |-> 0]]
    /\ faults = [c \in FaultClass |-> 0]

-----------------------------------------------------------------------------
(* The queue *)

(* pgmq_read hands a visible message to an idle worker, hides it and counts *)
(* the read.  Only read_count >= ceiling is ever tested, so the count       *)
(* saturates there.  A malformed message goes straight to archive.          *)
Receive(w, r) ==
    LET n == IF msg[r].reads < ReadCeiling THEN msg[r].reads + 1 ELSE ReadCeiling
    IN  /\ worker[w].pc = "idle"
        /\ msg[r].state = "visible"
        /\ msg' = [msg EXCEPT ![r] = [state |-> "inflight", reads |-> n]]
        /\ Become(w, [Resting(IF Kind[r] = "malformed" THEN "archive" ELSE "check")
                        EXCEPT !.run = r, !.reads = n])
        /\ UNCHANGED <<row, pages, notified, faults>>

(* Nothing to read, or the read raised: sleep and poll again. *)
PollEmpty(w) ==
    /\ worker[w].pc = "idle"
    /\ \A r \in Runs : msg[r].state # "visible"
    /\ UNCHANGED vars

(* The visibility timeout of an unarchived message passes.  While a worker  *)
(* still handles the message this is a fault, bounded like the others.      *)
VtExpires(r) ==
    /\ msg[r].state = "inflight"
    /\ msg' = [msg EXCEPT ![r].state = "visible"]
    /\ IF \E w \in Workers : Holds(w, r) THEN Strike("expire") ELSE UNCHANGED faults
    /\ UNCHANGED <<row, worker, pages, notified>>

-----------------------------------------------------------------------------
(* The message handler *)

CheckStatusBlindly(w) ==
    /\ worker[w].pc = "check"
    /\ Become(w, [worker[w] EXCEPT !.pc = "count"])
    /\ UNCHANGED <<msg, row, pages, notified, faults>>

CheckStatusUnacknowledged(w) ==
    LET h == worker[w]
    IN  /\ h.pc = "check"
        /\ Become(w, IF row[h.run].status \in Terminal
                       THEN Resting("idle") ELSE [h EXCEPT !.pc = "count"])
        /\ UNCHANGED <<msg, row, pages, notified, faults>>

(* get_run_status: a run that is already terminal is not executed again. *)
CheckStatus(w) ==
    LET h == worker[w]
    IN  /\ h.pc = "check"
        /\ Become(w, [h EXCEPT !.pc = IF row[h.run].status \in Terminal
                                        THEN "archive" ELSE "count"])
        /\ UNCHANGED <<msg, row, pages, notified, faults>>

ReadRetryCountUnbounded(w) ==
    /\ worker[w].pc = "count"
    /\ Become(w, Persist([worker[w] EXCEPT !.retry = row[worker[w].run].retry], "running"))
    /\ UNCHANGED <<msg, row, pages, notified, faults>>

(* get_job_retry_count, then the read-count ceiling. *)
ReadRetryCount(w) ==
    LET h == [worker[w] EXCEPT !.retry = row[worker[w].run].retry]
    IN  /\ worker[w].pc = "count"
        /\ Become(w, Persist(h, IF h.reads >= ReadCeiling THEN "failed" ELSE "running"))
        /\ UNCHANGED <<msg, row, pages, notified, faults>>

(* Either read raises: the exception leaves _process_message. *)
ReadFails(w) ==
    /\ worker[w].pc \in {"check", "count"}
    /\ Strike("db")
    /\ Become(w, Persist(worker[w], "final"))
    /\ UNCHANGED <<msg, row, pages, notified>>

FindRow(w) ==
    LET h == worker[w]
    IN  /\ h.pc \in {"find1", "find2"}
        /\ Become(w, [h EXCEPT !.snap = row[h.run],
                               !.pc = IF h.pc = "find1" THEN "save1" ELSE "save2"])
        /\ UNCHANGED <<msg, row, pages, notified, faults>>

SaveRow(w) ==
    LET h == worker[w]
    IN  /\ h.pc \in {"save1", "save2"}
        /\ row' = [row EXCEPT ![h.run] = Written(h)]
        /\ Become(w, [h EXCEPT !.pc = AfterSave(h)])
        /\ UNCHANGED <<msg, pages, notified, faults>>

(* A find or an upsert raises; an upsert may have been applied before its   *)
(* reply was lost.                                                          *)
PersistFails(w) ==
    LET h == worker[w]
    IN  /\ h.pc \in {"find1", "save1", "find2", "save2"}
        /\ Strike("db")
        /\ \/ UNCHANGED row
           \/ h.pc \in {"save1", "save2"} /\ row' = [row EXCEPT ![h.run] = Written(h)]
        /\ \E fatal \in BOOLEAN : Become(w, AfterPersistError(h, fatal))
        /\ UNCHANGED <<msg, pages, notified>>

(* asyncio.sleep(delay), then the loop starts over with the next attempt. *)
Backoff(w) ==
    LET h == worker[w]
    IN  /\ h.pc = "backoff"
        /\ Become(w, Persist([h EXCEPT !.retry = @ + 1], "running"))
        /\ UNCHANGED <<msg, row, pages, notified, faults>>

(* _run_pipeline_async returns: the destination page exists. *)
ExecuteSucceeds(w) ==
    LET h == worker[w]
    IN  /\ h.pc = "execute" /\ Kind[h.run] # "incomplete"
        /\ pages' = [pages EXCEPT ![h.run] = IF Kind[h.run] = "writes" THEN @ + 1 ELSE @]
        /\ Become(w, Persist(h, "succeeded"))
        /\ UNCHANGED <<msg, row, notified, faults>>

(* _run_pipeline_async raises; the page may have been created all the same, *)
(* when Notion's reply to pages.create was lost.                            *)
ExecuteFails(w) ==
    LET h == worker[w]
    IN  /\ h.pc = "execute" /\ Kind[h.run] # "incomplete"
        /\ \/ UNCHANGED pages
           \/ Kind[h.run] = "writes" /\ pages' = [pages EXCEPT ![h.run] = @ + 1]
        /\ \E fatal \in BOOLEAN : Become(w, Recover(h, fatal))
        /\ UNCHANGED <<msg, row, notified, faults>>

(* The ValueError for a missing id is raised outside the try blocks. *)
ExecuteIncomplete(w) ==
    LET h == worker[w]
    IN  /\ h.pc = "execute" /\ Kind[h.run] = "incomplete"
        /\ Become(w, Persist(h, "final"))
        /\ UNCHANGED <<msg, row, pages, notified, faults>>

(* EventBus.publish_success or publish_failure. *)
Publish(w) ==
    LET h == worker[w]
    IN  /\ h.pc = "publish"
        /\ notified' = IF h.goal = "succeeded"
                         THEN [notified EXCEPT ![h.run].success = @ + 1]
                         ELSE [notified EXCEPT ![h.run].failure = @ + 1]
        /\ Become(w, [h EXCEPT !.pc = "archive"])
        /\ UNCHANGED <<msg, row, pages, faults>>

Archive(w) ==
    /\ worker[w].pc = "archive"
    /\ msg' = [msg EXCEPT ![worker[w].run].state = "archived"]
    /\ Become(w, Resting("idle"))
    /\ UNCHANGED <<row, pages, notified, faults>>

(* pgmq_archive raises, before or after it took effect.  The exception      *)
(* leaves _process_message for _handle_final_failure, which only archives   *)
(* again when the message is malformed; from _handle_final_failure it       *)
(* leaves run_worker_loop and the process ends.                             *)
ArchiveFails(w) ==
    LET h == worker[w]
    IN  /\ h.pc = "archive"
        /\ Strike("archive")
        /\ \/ UNCHANGED msg
           \/ msg' = [msg EXCEPT ![h.run].state = "archived"]
        /\ Become(w, IF h.goal = "final" THEN Resting("dead")
                     ELSE IF Kind[h.run] = "malformed" THEN [h EXCEPT !.goal = "final"]
                     ELSE Persist(h, "final"))
        /\ UNCHANGED <<row, pages, notified>>

-----------------------------------------------------------------------------
(* The process *)

(* SIGKILL, out of memory, or SIGTERM's cancel: local state is gone. *)
Crash(w) ==
    /\ Busy(w)
    /\ Strike("crash")
    /\ Become(w, Resting("dead"))
    /\ UNCHANGED <<msg, row, pages, notified>>

(* The platform starts the container again. *)
Restart(w) ==
    /\ worker[w].pc = "dead"
    /\ Become(w, Resting("idle"))
    /\ UNCHANGED <<msg, row, pages, notified, faults>>

-----------------------------------------------------------------------------
Handle(w) ==
    \/ CheckStatus(w) \/ ReadRetryCount(w) \/ ReadFails(w)
    \/ FindRow(w) \/ SaveRow(w) \/ PersistFails(w) \/ Backoff(w)
    \/ ExecuteSucceeds(w) \/ ExecuteFails(w) \/ ExecuteIncomplete(w)
    \/ Publish(w) \/ Archive(w) \/ ArchiveFails(w)

Next ==
    \/ \E w \in Workers : Handle(w) \/ PollEmpty(w) \/ Crash(w) \/ Restart(w)
    \/ \E w \in Workers, r \in Runs : Receive(w, r)
    \/ \E r \in Runs : VtExpires(r)

Spec == Init /\ [][Next]_vars

(* A live handler keeps running, a stopped process is restarted, a hidden   *)
(* message comes back, and, pgmq reading in the order of message ids, no    *)
(* visible message is passed over for ever while workers come to read.      *)
Fairness ==
    /\ \A w \in Workers : WF_vars(Handle(w)) /\ WF_vars(Restart(w))
    /\ \A r \in Runs : /\ WF_vars(VtExpires(r) /\ ~ \E w \in Workers : Holds(w, r))
                       /\ SF_vars(\E w \in Workers : Receive(w, r))

FairSpec == Spec /\ Fairness

-----------------------------------------------------------------------------
(* Properties *)

TypeOK ==
    /\ msg \in [Runs -> Msg]
    /\ row \in [Runs -> Row]
    /\ worker \in [Workers -> Handler]
    /\ pages \in [Runs -> Nat]
    /\ notified \in [Runs -> [success: Nat, failure: Nat]]
    /\ faults \in [FaultClass -> Nat]
    /\ \A w \in Workers : Busy(w) <=> worker[w].run \in Runs

(* A row says "succeeded" only if some attempt really created the page,     *)
(* whatever fails and however many workers write the row with stale copies  *)
(* of it (update_job_status, increment_job_retry_count, update_run).        *)
SucceededHasPage ==
    \A r \in Runs : Kind[r] = "writes" /\ row[r].status = "succeeded" => pages[r] > 0

(* While no message becomes visible under a live worker, a run creates at   *)
(* most one page per configured attempt, plus one for each time a process   *)
(* ended before it could count the attempt: the retry count is persisted    *)
(* before the next attempt starts (_persist_retry_and_schedule).            *)
PageBudget ==
    \A r \in Runs : faults["expire"] = 0 =>
        pages[r] <= MaxRetries + 1 + faults["crash"] + faults["archive"]

(* Even with redelivery to a second worker and any number of crashes, a run *)
(* is executed at most MaxRetries + 1 times per delivery and not at all     *)
(* from the ceiling on (_READ_COUNT_CEILING).                               *)
ExecutionCeiling ==
    \A r \in Runs : pages[r] <= (ReadCeiling - 1) * (MaxRetries + 1)

(* No run is abandoned: once its message is archived the row is terminal,   *)
(* or a worker that still handles the run will write it again.  It takes a  *)
(* failed write of job_runs, or a crash after an overlap, to lose a run.    *)
ArchivedIsSettled ==
    \A r \in Runs :
        /\ msg[r].state = "archived" /\ Kind[r] # "malformed"
        /\ faults["db"] = 0 /\ (faults["crash"] = 0 \/ faults["expire"] = 0)
        => row[r].status \in Terminal \/ \E w \in Workers : Holds(w, r)

(* What is published agrees with the row for good: at most one outcome, at  *)
(* most once, and it is the row's.  Crashes do not break this; a failed     *)
(* write, a failed archive or an overlap may.                               *)
NotifiedOnceAndTruly ==
    faults["db"] = 0 /\ faults["archive"] = 0 /\ faults["expire"] = 0 =>
        \A r \in Runs :
            /\ notified[r].success + notified[r].failure <= 1
            /\ notified[r].success = 1 => row[r].status = "succeeded"
            /\ notified[r].failure = 1 => row[r].status = "failed"

(* The persisted retry count never goes back while a message has one        *)
(* handler at a time, so no crash gives a run its attempts again.           *)
RetryNeverDecreases ==
    [][\A r \in Runs : faults["expire"] = 0 => row'[r].retry >= row[r].retry]_vars

(* Every message is archived in the end, whatever it asks for and whatever  *)
(* fails a bounded number of times.                                         *)
EventuallyArchived == \A r \in Runs : <>[](msg[r].state = "archived")

(* Every well-formed run reaches a terminal status for good, unless a write *)
(* of job_runs failed or a worker stopped after an overlap.                 *)
EventuallySettled ==
    \A r \in Runs : Kind[r] # "malformed" =>
        <>[](\/ row[r].status \in Terminal
             \/ faults["db"] > 0
             \/ faults["crash"] > 0 /\ faults["expire"] > 0)

(* Claimed: a message is archived and its run made terminal exactly once,   *)
(* with no oscillation.  Once a success is published the row stays          *)
(* succeeded.                                                               *)
NoOscillation ==
    [][\A r \in Runs : row[r].status = "succeeded" /\ notified[r].success > 0
                          => row'[r].status = "succeeded"]_vars

-----------------------------------------------------------------------------
(* The abstract life of a run, seen in the rows and the queue. *)
Valid == {r \in Runs : Kind[r] # "malformed"}

RL == INSTANCE RunLifecycle WITH
        status <- [r \in Runs |-> row[r].status],
        left   <- {r \in Runs : msg[r].state = "archived"}

(* Worker implements RunLifecycle: crashes, restarts, redelivery and        *)
(* retries stay within the promised life of a run.  It holds for instances  *)
(* in which no read or write of job_runs, no archive and no visibility      *)
(* timeout of a live worker fails (MaxFaults of "db", "archive", "expire"   *)
(* are 0).                                                                  *)
Lifecycle == RL!Spec
=============================================================================
