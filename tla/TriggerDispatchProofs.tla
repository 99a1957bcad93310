------------------------ MODULE TriggerDispatchProofs ------------------------
(* Theorems about TriggerDispatch, for any requests, live tests, jobs, caps *)
(* and bounds.                                                              *)
EXTENDS TriggerDispatch, FiniteSetTheorems, TLAPS

Early == {"start", "seed", "plant", "find", "list"}

(* What the handler of q may hold at each point.                            *)
HandlerOK(q, h) ==
    /\ h.pc \in {"call", "commit", "send"} => h.job \in Jobs
    /\ q \in Requests /\ h.pc # "start" => h.caps \in Caps
    /\ q \in Requests /\ h.pc = "commit" => h.day \in 1..MaxDay
    /\ h.reply # "none" => h.pc = "done"
    /\ h.cause = "quota" => q \in Requests /\ h.pc = "done" /\ h.day \in 1..MaxDay
    /\ q \in LiveTests => h.pc \in {"start", "commit", "send", "done"}

TypeInv == TypeOK /\ \A q \in Callers : HandlerOK(q, req[q])

-----------------------------------------------------------------------------
(* A request moves on: the state stays typed if its handler's does.         *)
LEMMA BecomeTyped ==
    ASSUME TypeInv, NEW q \in Callers, NEW h \in Handler, Become(q, h), HandlerOK(q, h)
    PROVE  /\ req' \in [Callers -> Handler]
           /\ \A p \in Callers : HandlerOK(p, req[p])'
BY DEF TypeInv, TypeOK, Become, HandlerOK

LEMMA AnswerTyped ==
    ASSUME NEW q \in Callers, NEW h \in Handler, NEW reply \in Reply,
           HandlerOK(q, h), h.pc # "start" \/ q \in LiveTests
    PROVE  /\ Answer(h, reply) \in Handler
           /\ h.cause # "quota" => HandlerOK(q, Answer(h, reply))
           /\ Answer(h, reply).pc = "done" /\ Answer(h, reply).caps = h.caps
           /\ Answer(h, reply).reply = reply
           /\ Answer(h, reply).accepted = h.accepted
           /\ Answer(h, reply).todo = {}
           /\ Answer(h, reply).day = h.day
           /\ Answer(h, reply).cause = h.cause
BY NamesAssumption DEF Answer, Handler, HandlerOK, Step

LEMMA CapsTyped ==
    ASSUME TypeInv
    PROVE  EffectiveCaps \in Caps
BY CapsAssumption DEF TypeInv, TypeOK, EffectiveCaps, Caps, Least

LEMMA FaultTyped ==
    ASSUME TypeInv, Fault
    PROVE  faults' \in 0..MaxFaults
BY BoundsAssumption DEF TypeInv, TypeOK, Fault

LEMMA EditTyped ==
    ASSUME TypeInv, Edit
    PROVE  edits' \in 0..MaxEdits
BY BoundsAssumption DEF TypeInv, TypeOK, Edit

LEMMA InitTypeInv == Init => TypeInv
BY CapsAssumption, BoundsAssumption, NamesAssumption
   DEF Init, TypeInv, TypeOK, Handler, HandlerOK, Step, Reply, Cause, Callers

LEMMA NextTypeInv == TypeInv /\ [Next]_vars => TypeInv'
<1> SUFFICES ASSUME TypeInv, [Next]_vars PROVE TypeInv'
  OBVIOUS
<1> USE DEF TypeInv
<1>1. CASE UNCHANGED vars
  BY <1>1 DEF TypeOK, vars, HandlerOK
<1>2. ASSUME NEW q \in Callers, Proceed(q)
      PROVE  TypeInv'
  <2> DEFINE h == req[q]
  <2>0. /\ h \in Handler /\ HandlerOK(q, h)
        /\ Requests \cap LiveTests = {} /\ Callers = Requests \cup LiveTests
        /\ 0 \in 0..MaxDay /\ today \in 1..MaxDay /\ today \in 0..MaxDay
    BY NamesAssumption, BoundsAssumption DEF TypeOK, Callers
  <2>1. CASE ReadLimits(q)
    <3> DEFINE k == [h EXCEPT !.caps = EffectiveCaps, !.pc = "seed"]
    <3>1. k \in Handler /\ HandlerOK(q, k)
      BY <2>0, <2>1, CapsTyped DEF ReadLimits, Handler, HandlerOK, Step
    <3>2. Become(q, k)
      BY <2>1 DEF ReadLimits
    <3> HIDE DEF k
    <3>3. QED
      BY <2>1, <3>1, <3>2, BecomeTyped DEF ReadLimits, TypeOK
  <2>2. CASE SeedOwner(q)
    BY <2>0, <2>2, BecomeTyped, FaultTyped DEF SeedOwner, Handler, HandlerOK, Step, TypeOK
  <2>3. CASE PlantCaps(q)
    BY <2>0, <2>3, BecomeTyped, FaultTyped, CapsAssumption
       DEF PlantCaps, Handler, HandlerOK, Step, TypeOK
  <2>4. CASE FindTrigger(q)
    BY <2>0, <2>4, BecomeTyped, AnswerTyped
       DEF FindTrigger, Handler, HandlerOK, Step, TypeOK, Reply
  <2>5. CASE ListJobs(q)
    <3> DEFINE k == IF Dispatchable = {} THEN Answer(h, "4xx")
                    ELSE [h EXCEPT !.todo = Dispatchable, !.pc = "next"]
    <3>1. k \in Handler /\ HandlerOK(q, k)
      <4>1. CASE Dispatchable = {}
        BY <2>0, <2>5, <4>1, AnswerTyped DEF ListJobs, HandlerOK, Reply
      <4>2. CASE Dispatchable # {}
        BY <2>0, <2>5, <4>2 DEF ListJobs, Dispatchable, Handler, HandlerOK, Step
      <4>3. QED
        BY <4>1, <4>2
    <3>2. Become(q, k)
      BY <2>5 DEF ListJobs
    <3> HIDE DEF k
    <3>3. QED
      BY <2>5, <3>1, <3>2, BecomeTyped DEF ListJobs, TypeOK
  <2>6. CASE ResolveFails(q)
    BY <2>0, <2>6, BecomeTyped, AnswerTyped, FaultTyped
       DEF ResolveFails, HandlerOK, Step, TypeOK, Reply
  <2>7. CASE CallQuota(q)
    <3> DEFINE k == [h EXCEPT !.day = today, !.pc = "commit"]
    <3>1. k \in Handler /\ HandlerOK(q, k)
      BY <2>0, <2>7 DEF CallQuota, Handler, HandlerOK, Step
    <3>2. Become(q, k)
      BY <2>7 DEF CallQuota
    <3> HIDE DEF k
    <3>3. QED
      BY <2>7, <3>1, <3>2, BecomeTyped DEF CallQuota, TypeOK
  <2>8. CASE InsertRow(q)
    <3>0. /\ h.pc = "commit" /\ h.job \in Jobs
          /\ <<q, h.job>> \in Runs /\ CreatedAt(q) \in 1..MaxDay
      BY <2>0, <2>8 DEF InsertRow, HandlerOK, CreatedAt, TypeOK, Runs
    <3>1. CASE Admitted(q)
      <4> DEFINE k == [h EXCEPT !.pc = "send", !.day = 0]
      <4>1. k \in Handler /\ HandlerOK(q, k)
        BY <2>0, <3>0 DEF Handler, HandlerOK, Step
      <4>2. Become(q, k) /\ row' = [row EXCEPT ![<<q, h.job>>] = CreatedAt(q)]
        BY <2>8, <3>1 DEF InsertRow
      <4> HIDE DEF k
      <4>3. QED
        BY <2>8, <3>0, <4>1, <4>2, BecomeTyped, BoundsAssumption DEF InsertRow, TypeOK
    <3>2. CASE ~Admitted(q)
      <4> DEFINE k == [Answer(h, QuotaReply(h.caps, h.day)) EXCEPT !.cause = "quota"]
      <4>1. q \in Requests
        BY <2>0, <3>2 DEF Admitted
      <4>2. QuotaReply(h.caps, h.day) \in Reply \ {"none"}
        BY DEF QuotaReply, Reply
      <4>3. k \in Handler /\ HandlerOK(q, k)
        <5> DEFINE a == Answer(h, QuotaReply(h.caps, h.day))
        <5>1. a \in Handler /\ a.pc = "done" /\ a.caps = h.caps /\ a.day = h.day
          BY <2>0, <3>0, <4>1, <4>2, AnswerTyped
        <5>2. k = [a EXCEPT !.cause = "quota"]
          OBVIOUS
        <5> HIDE DEF a, k
        <5>3. QED
          BY <2>0, <3>0, <4>1, <5>1, <5>2 DEF Handler, HandlerOK, Cause
      <4>4. Become(q, k) /\ row' = row
        BY <2>8, <3>2 DEF InsertRow
      <4> HIDE DEF k
      <4>5. QED
        BY <2>8, <4>3, <4>4, BecomeTyped DEF InsertRow, TypeOK
    <3>3. QED
      BY <3>1, <3>2
  <2>9. CASE InsertFails(q)
    <3> DEFINE k == [Answer(h, "503") EXCEPT !.cause = "call", !.day = 0]
    <3>0. /\ h.pc = "commit" /\ h.job \in Jobs
          /\ <<q, h.job>> \in Runs /\ CreatedAt(q) \in 1..MaxDay
      BY <2>0, <2>9 DEF InsertFails, HandlerOK, CreatedAt, TypeOK, Runs
    <3>1. k \in Handler /\ HandlerOK(q, k)
      <4> DEFINE a == Answer(h, "503")
      <4>1. a \in Handler /\ a.pc = "done" /\ a.caps = h.caps
        BY <2>0, <3>0, AnswerTyped DEF Reply
      <4>2. k = [a EXCEPT !.cause = "call", !.day = 0]
        OBVIOUS
      <4> HIDE DEF a, k
      <4>3. QED
        BY <2>0, <3>0, <4>1, <4>2 DEF Handler, HandlerOK, Cause
    <3>2. Become(q, k) /\ row' \in [Runs -> 0..MaxDay]
      BY <2>9, <3>0, BoundsAssumption DEF InsertFails, TypeOK
    <3> HIDE DEF k
    <3>3. QED
      BY <2>9, <3>1, <3>2, BecomeTyped, FaultTyped DEF InsertFails, TypeOK
  <2>10. CASE Send(q)
    <3>0. h.pc = "send" /\ h.job \in Jobs /\ <<q, h.job>> \in Runs
      BY <2>0, <2>10 DEF Send, HandlerOK, Runs
    <3>1. CASE q \in LiveTests
      <4> DEFINE a == Answer(h, "200")
                 k == [a EXCEPT !.accepted = {h.job}]
      <4>1. a \in Handler /\ a.pc = "done" /\ a.caps = h.caps /\ a.cause = h.cause
        BY <2>0, <3>0, AnswerTyped DEF Reply
      <4>2. Become(q, k)
        BY <2>10, <3>1 DEF Send
      <4> HIDE DEF a
      <4>3. k \in Handler /\ HandlerOK(q, k)
        BY <2>0, <3>0, <3>1, <4>1 DEF Handler, HandlerOK
      <4> HIDE DEF k
      <4>4. QED
        BY <2>10, <3>0, <4>2, <4>3, BecomeTyped DEF Send, TypeOK
    <3>2. CASE q \notin LiveTests
      <4> DEFINE k == [h EXCEPT !.accepted = @ \cup {h.job}, !.job = NoJob, !.pc = "next"]
      <4>1. k \in Handler /\ HandlerOK(q, k)
        BY <2>0, <3>0, <3>2 DEF Handler, HandlerOK, Step
      <4>2. Become(q, k)
        BY <2>10, <3>2 DEF Send
      <4> HIDE DEF k
      <4>3. QED
        BY <2>10, <3>0, <4>1, <4>2, BecomeTyped DEF Send, TypeOK
    <3>3. QED
      BY <3>1, <3>2
  <2>11. CASE SendFails(q)
    <3> DEFINE a == Answer(h, "503")
               k == [a EXCEPT !.cause = "call"]
    <3>0. h.pc = "send" /\ h.job \in Jobs /\ <<q, h.job>> \in Runs
      BY <2>0, <2>11 DEF SendFails, HandlerOK, Runs
    <3>1. a \in Handler /\ a.pc = "done" /\ a.caps = h.caps
      BY <2>0, <3>0, AnswerTyped DEF Reply
    <3>2. Become(q, k)
      BY <2>11 DEF SendFails
    <3> HIDE DEF a
    <3>3. k \in Handler /\ HandlerOK(q, k)
      BY <2>0, <3>0, <3>1 DEF Handler, HandlerOK, Cause
    <3> HIDE DEF k
    <3>4. QED
      BY <2>11, <3>0, <3>2, <3>3, BecomeTyped, FaultTyped DEF SendFails, TypeOK
  <2>12. CASE FanOutEnds(q)
    BY <2>0, <2>12, BecomeTyped, AnswerTyped DEF FanOutEnds, HandlerOK, TypeOK, Reply
  <2>13. ASSUME NEW j \in Jobs, NextJob(q, j)
         PROVE  TypeInv'
    <3> DEFINE n == [h EXCEPT !.todo = @ \ {j}]
               c == [n EXCEPT !.job = j, !.pc = "call"]
               k == IF Resolves(j) THEN c ELSE n
    <3>1. n \in Handler /\ HandlerOK(q, n) /\ c \in Handler /\ HandlerOK(q, c)
      BY <2>0, <2>13 DEF NextJob, Handler, HandlerOK, Step
    <3>2. Become(q, k)
      BY <2>13 DEF NextJob
    <3> HIDE DEF n, c
    <3>3. k \in Handler /\ HandlerOK(q, k)
      BY <3>1
    <3> HIDE DEF k
    <3>4. QED
      BY <2>13, <3>2, <3>3, BecomeTyped DEF NextJob, TypeOK
  <2>14. ASSUME NEW j \in Jobs, ResolveLiveTest(q, j)
         PROVE  TypeInv'
    <3> DEFINE k == [h EXCEPT !.job = j, !.pc = "commit"]
    <3>1. k \in Handler /\ HandlerOK(q, k)
      BY <2>0, <2>14 DEF ResolveLiveTest, Handler, HandlerOK, Step
    <3>2. Answer(h, "4xx") \in Handler /\ HandlerOK(q, Answer(h, "4xx"))
      BY <2>0, <2>14, AnswerTyped DEF ResolveLiveTest, HandlerOK, Reply
    <3>3. Become(q, k) \/ Become(q, Answer(h, "4xx"))
      BY <2>14 DEF ResolveLiveTest
    <3> HIDE DEF k
    <3>4. QED
      BY <2>14, <3>1, <3>2, <3>3, BecomeTyped DEF ResolveLiveTest, TypeOK
  <2>15. QED
    BY <1>2, <2>1, <2>2, <2>3, <2>4, <2>5, <2>6, <2>7, <2>8, <2>9, <2>10, <2>11, <2>12,
       <2>13, <2>14 DEF Proceed
<1>3. ASSUME NEW q \in Callers, ApiRestart(q)
      PROVE  TypeInv'
  BY <1>3, BecomeTyped, AnswerTyped, FaultTyped DEF ApiRestart, TypeOK, HandlerOK, Reply
<1>4. CASE Midnight
  BY <1>4, BoundsAssumption DEF Midnight, TypeOK, HandlerOK
<1>5. ASSUME NEW caps \in CapChoices, LimitsChange(caps)
      PROVE  TypeInv'
  BY <1>5, EditTyped DEF LimitsChange, TypeOK, HandlerOK
<1>6. ASSUME NEW j \in Jobs, NEW status \in {"active", "disabled", "archived"},
             JobChanges(j, status)
      PROVE  TypeInv'
  BY <1>6, EditTyped DEF JobChanges, TypeOK, HandlerOK
<1>7. CASE DeleteTrigger
  BY <1>7, EditTyped DEF DeleteTrigger, TypeOK, HandlerOK
<1>8. QED
  BY <1>1, <1>2, <1>3, <1>4, <1>5, <1>6, <1>7 DEF Next

(* Every variable of the dispatch keeps its type, for any number of         *)
(* requests, jobs and faults: a run is inserted on a real day for a real    *)
(* job, and a request knows its caps from the first call on.                *)
THEOREM DispatchTypeCorrect == Spec => []TypeOK
<1>1. TypeInv => TypeOK
  BY DEF TypeInv
<1>2. QED
  BY InitTypeInv, NextTypeInv, <1>1, PTL DEF Spec

-----------------------------------------------------------------------------
(* What the two stores hold of a request, by where its handler stands.      *)
Inserted(q, j) == row[<<q, j>>] # 0
Sent(q, j) == <<q, j>> \in queue

StoreOK(q) ==
    LET h == req[q] IN
    /\ h.pc \in Early => h.accepted = {} /\ h.todo = {}
    /\ h.todo \cap h.accepted = {}
    /\ q \in LiveTests /\ h.pc # "done" => h.accepted = {}
    /\ h.pc \in {"call", "commit", "send"} => h.job \notin h.accepted \cup h.todo
    /\ h.reply \in {"none", "200"} => \A j \in Jobs :
          /\ j \in h.accepted <=> Sent(q, j)
          /\ Inserted(q, j) <=> j \in h.accepted \/ (h.pc = "send" /\ h.job = j)
    /\ h.reply = "200" => h.accepted # {}
    /\ \A j \in Jobs : Sent(q, j) => Inserted(q, j)
    /\ \A j \in Jobs : Inserted(q, j) /\ ~Sent(q, j) =>
          \/ h.pc = "send" /\ h.job = j
          \/ h.reply = "lost"
          \/ h.reply = "503" /\ h.cause = "call"

StoreInv == \A q \in Callers : StoreOK(q)

(* A step of one request leaves the others' rows and messages alone.        *)
LEMMA OthersKeepTheirs ==
    ASSUME TypeInv, StoreInv, NEW q \in Callers, NEW h, Become(q, h), NEW j \in Jobs,
           NEW d,
           row' = row \/ row' = [row EXCEPT ![<<q, j>>] = d],
           queue' = queue \/ queue' = queue \cup {<<q, j>>}
    PROVE  /\ req'[q] = h
           /\ \A p \in Callers \ {q} : StoreOK(p)'
<1>1. req'[q] = h /\ \A p \in Callers \ {q} : req'[p] = req[p]
  BY DEF TypeInv, TypeOK, Become
<1>2. ASSUME NEW p \in Callers \ {q}, NEW i \in Jobs
      PROVE  Inserted(p, i)' = Inserted(p, i) /\ Sent(p, i)' = Sent(p, i)
  BY DEF TypeInv, TypeOK, Runs, Inserted, Sent
<1>3. QED
  BY <1>1, <1>2 DEF StoreInv, StoreOK

LEMMA InitStoreInv == Init => StoreInv
BY DEF Init, StoreInv, StoreOK, Early, Inserted, Sent, Runs

LEMMA NextStoreInv == TypeInv /\ StoreInv /\ [Next]_vars => StoreInv'
<1> SUFFICES ASSUME TypeInv, StoreInv, [Next]_vars PROVE StoreInv'
  OBVIOUS
<1>1. ASSUME UNCHANGED <<row, queue, req>>
      PROVE  StoreInv'
  BY <1>1 DEF StoreInv, StoreOK, Inserted, Sent
(* The steps of a request that touch neither store.                         *)
<1>2. ASSUME NEW q \in Callers, NEW h, Become(q, h), UNCHANGED <<row, queue>>,
             req[q].reply = "none",
             h.reply = "none" => h.accepted = req[q].accepted,
             h.reply = "200" => h.accepted = req[q].accepted /\ h.accepted # {},
             h.todo \cap h.accepted = {},
             h.pc \in Early => h.accepted = {} /\ h.todo = {},
             h.pc \in {"call", "commit", "send"} => h.job \notin h.accepted \cup h.todo,
             h.pc # "send",
             h.pc # "done" => h.accepted = req[q].accepted /\ req[q].pc # "done",
             req[q].pc = "send" => h.reply = "lost"
      PROVE  StoreInv'
  <2>0. StoreOK(q)
    BY DEF StoreInv
  <2>1. req'[q] = h /\ \A p \in Callers \ {q} : req'[p] = req[p]
    BY <1>2 DEF TypeInv, TypeOK, Become
  <2>2. \A p \in Callers, i \in Jobs : /\ Inserted(p, i)' = Inserted(p, i)
                                       /\ Sent(p, i)' = Sent(p, i)
    BY <1>2 DEF Inserted, Sent
  <2>3. StoreOK(q)'
    BY <1>2, <2>0, <2>1, <2>2 DEF StoreOK
  <2>4. QED
    BY <2>1, <2>2, <2>3 DEF StoreInv, StoreOK
<1>3. ASSUME NEW q \in Callers, Proceed(q)
      PROVE  StoreInv'
  <2> DEFINE h == req[q]
  <2>0. h \in Handler /\ HandlerOK(q, h) /\ StoreOK(q)
    BY DEF TypeInv, TypeOK, StoreInv
  <2>1. CASE ReadLimits(q)
    BY <2>0, <2>1, <1>2 DEF ReadLimits, Handler, HandlerOK, StoreOK, Early
  <2>2. CASE SeedOwner(q)
    BY <2>0, <2>2, <1>2 DEF SeedOwner, Handler, HandlerOK, StoreOK, Early
  <2>3. CASE PlantCaps(q)
    BY <2>0, <2>3, <1>2 DEF PlantCaps, Handler, HandlerOK, StoreOK, Early
  <2>4. CASE FindTrigger(q)
    BY <2>0, <2>4, <1>2 DEF FindTrigger, Answer, Handler, HandlerOK, StoreOK, Early
  <2>5. CASE ListJobs(q)
    <3>1. CASE Dispatchable = {}
      BY <2>0, <2>5, <3>1, <1>2 DEF ListJobs, Answer, Handler, HandlerOK, StoreOK, Early
    <3>2. CASE Dispatchable # {}
      BY <2>0, <2>5, <3>2, <1>2 DEF ListJobs, Handler, HandlerOK, StoreOK, Early
    <3>3. QED
      BY <3>1, <3>2
  <2>6. CASE ResolveFails(q)
    <3> DEFINE k == Answer(h, "500")
    <3>1. k.pc = "done" /\ k.reply = "500" /\ k.todo = {}
      BY <2>0 DEF Handler, Answer
    <3>2. Become(q, k) /\ UNCHANGED <<row, queue>> /\ h.pc = "next"
      BY <2>6 DEF ResolveFails
    <3> HIDE DEF k
    <3>3. QED
      BY <2>0, <3>1, <3>2, <1>2 DEF HandlerOK, Early
  <2>7. CASE CallQuota(q)
    <3> DEFINE k == [h EXCEPT !.day = today, !.pc = "commit"]
    <3>1. /\ k.pc = "commit" /\ k.job = h.job /\ k.accepted = h.accepted
          /\ k.todo = h.todo /\ k.reply = h.reply
      BY <2>0 DEF Handler
    <3>2. Become(q, k) /\ UNCHANGED <<row, queue>> /\ h.pc = "call"
      BY <2>7 DEF CallQuota
    <3> HIDE DEF k
    <3>3. QED
      BY <2>0, <3>1, <3>2, <1>2 DEF HandlerOK, StoreOK, Early
  <2>8. CASE InsertRow(q)
    <3>0. h.pc = "commit" /\ h.job \in Jobs /\ CreatedAt(q) # 0 /\ h.reply = "none"
      BY <2>0, <2>8 DEF InsertRow, HandlerOK, CreatedAt, TypeInv, TypeOK
    <3>1. CASE Admitted(q)
      <4> DEFINE k == [h EXCEPT !.pc = "send", !.day = 0]
      <4>1. /\ k.pc = "send" /\ k.job = h.job /\ k.accepted = h.accepted
            /\ k.todo = h.todo /\ k.reply = h.reply /\ k.cause = h.cause
        BY <2>0 DEF Handler
      <4>2. Become(q, k) /\ row' = [row EXCEPT ![<<q, h.job>>] = CreatedAt(q)] /\ queue' = queue
        BY <2>8, <3>1 DEF InsertRow
      <4> HIDE DEF k
      <4>3. req'[q] = k /\ \A p \in Callers \ {q} : StoreOK(p)'
        BY <3>0, <4>2, OthersKeepTheirs
      <4>4. \A i \in Jobs : /\ Inserted(q, i)' <=> (i = h.job \/ Inserted(q, i))
                            /\ Sent(q, i)' <=> Sent(q, i)
        BY <3>0, <4>2 DEF Inserted, Sent, TypeInv, TypeOK, Runs
      <4>5. StoreOK(q)'
        <5>0. \A i \in Jobs : /\ i \in h.accepted <=> Sent(q, i)
                              /\ Inserted(q, i) <=> i \in h.accepted
          BY <2>0, <3>0 DEF StoreOK
        <5>1. ASSUME NEW i \in Jobs
              PROVE  /\ Sent(q, i)' => Inserted(q, i)'
                     /\ i \in k.accepted <=> Sent(q, i)'
                     /\ Inserted(q, i)' <=> (i \in k.accepted \/ k.job = i)
          BY <4>1, <4>4, <5>0 DEF Inserted, Sent
        <5>2. QED
          BY <2>0, <3>0, <4>1, <4>3, <5>1 DEF StoreOK, Early
      <4>6. QED
        BY <4>3, <4>5 DEF StoreInv
    <3>2. CASE ~Admitted(q)
      <4> DEFINE k == [Answer(h, QuotaReply(h.caps, h.day)) EXCEPT !.cause = "quota"]
      <4>1. /\ k.pc = "done" /\ k.accepted = h.accepted /\ k.todo = {}
            /\ k.reply \in {"429", "503"}
        BY <2>0 DEF Handler, Answer, QuotaReply
      <4>2. Become(q, k) /\ UNCHANGED <<row, queue>>
        BY <2>8, <3>2 DEF InsertRow
      <4> HIDE DEF k
      <4>3. QED
        BY <2>0, <3>0, <4>1, <4>2, <1>2 DEF StoreOK, HandlerOK, Early
    <3>3. QED
      BY <3>1, <3>2
  <2>9. CASE InsertFails(q)
    <3> DEFINE k == [Answer(h, "503") EXCEPT !.cause = "call", !.day = 0]
    <3>0. h.pc = "commit" /\ h.job \in Jobs /\ h.reply = "none"
      BY <2>0, <2>9 DEF InsertFails, HandlerOK
    <3>1. /\ k.pc = "done" /\ k.accepted = h.accepted /\ k.todo = {}
          /\ k.reply = "503" /\ k.cause = "call"
      BY <2>0 DEF Handler, Answer
    <3>2. /\ Become(q, k) /\ queue' = queue
          /\ row' = row \/ row' = [row EXCEPT ![<<q, h.job>>] = CreatedAt(q)]
      BY <2>9 DEF InsertFails
    <3> HIDE DEF k
    <3>3. req'[q] = k /\ \A p \in Callers \ {q} : StoreOK(p)'
      BY <3>0, <3>2, OthersKeepTheirs
    <3>4. CreatedAt(q) # 0
      BY <2>0, <3>0 DEF HandlerOK, CreatedAt, TypeInv, TypeOK
    <3>5. \A i \in Jobs : (Inserted(q, i) => Inserted(q, i)') /\ (Sent(q, i)' <=> Sent(q, i))
      BY <3>0, <3>2, <3>4 DEF Inserted, Sent, TypeInv, TypeOK, Runs
    <3>6. StoreOK(q)'
      BY <2>0, <3>0, <3>1, <3>3, <3>5 DEF StoreOK, Early
    <3>7. QED
      BY <3>3, <3>6 DEF StoreInv
  <2>10. CASE Send(q)
    <3> DEFINE k == IF q \in LiveTests THEN [Answer(h, "200") EXCEPT !.accepted = {h.job}]
                    ELSE [h EXCEPT !.accepted = @ \cup {h.job}, !.job = NoJob, !.pc = "next"]
    <3>0. h.pc = "send" /\ h.job \in Jobs /\ h.reply = "none"
      BY <2>0, <2>10 DEF Send, HandlerOK
    <3>1. /\ k.pc = IF q \in LiveTests THEN "done" ELSE "next"
          /\ k.todo \subseteq h.todo
          /\ k.reply \in {"none", "200"}
          /\ k.accepted = IF q \in LiveTests THEN {h.job} ELSE h.accepted \cup {h.job}
      BY <2>0, <3>0 DEF Handler, Answer
    <3>2. Become(q, k) /\ queue' = queue \cup {<<q, h.job>>} /\ row' = row
      BY <2>10 DEF Send
    <3> HIDE DEF k
    <3>3. req'[q] = k /\ \A p \in Callers \ {q} : StoreOK(p)'
      BY <3>0, <3>2, OthersKeepTheirs
    <3>4. \A i \in Jobs : (Inserted(q, i)' <=> Inserted(q, i))
                         /\ (Sent(q, i)' <=> (Sent(q, i) \/ i = h.job))
      BY <3>0, <3>2 DEF Inserted, Sent
    <3>6. StoreOK(q)'
      <4>1. ASSUME NEW i \in Jobs
            PROVE  /\ Sent(q, i)' => Inserted(q, i)'
                   /\ i \in k.accepted <=> Sent(q, i)'
                   /\ Inserted(q, i)' <=> i \in k.accepted
        BY <2>0, <3>0, <3>1, <3>4 DEF StoreOK
      <4>2. k.todo \cap k.accepted = {} /\ k.accepted # {} /\ (q \in LiveTests => k.pc = "done")
        BY <2>0, <3>0, <3>1 DEF StoreOK
      <4>3. QED
        BY <3>1, <3>3, <4>1, <4>2 DEF StoreOK, Early
    <3>7. QED
      BY <3>3, <3>6 DEF StoreInv
  <2>11. CASE SendFails(q)
    <3> DEFINE k == [Answer(h, "503") EXCEPT !.cause = "call"]
    <3>0. h.pc = "send" /\ h.job \in Jobs /\ h.reply = "none"
      BY <2>0, <2>11 DEF SendFails, HandlerOK
    <3>1. /\ k.pc = "done" /\ k.accepted = h.accepted /\ k.todo = {}
          /\ k.reply = "503" /\ k.cause = "call"
      BY <2>0 DEF Handler, Answer
    <3>2. /\ Become(q, k) /\ row' = row
          /\ queue' = queue \/ queue' = queue \cup {<<q, h.job>>}
      BY <2>11 DEF SendFails
    <3> HIDE DEF k
    <3>3. req'[q] = k /\ \A p \in Callers \ {q} : StoreOK(p)'
      BY <3>0, <3>2, OthersKeepTheirs
    <3>5. \A i \in Jobs : /\ Inserted(q, i)' <=> Inserted(q, i)
                          /\ Sent(q, i)' => Sent(q, i) \/ i = h.job
      BY <3>0, <3>2 DEF Inserted, Sent
    <3>6. StoreOK(q)'
      <4>0. \A i \in Jobs : /\ Sent(q, i) => Inserted(q, i)
                            /\ i = h.job => Inserted(q, i)
        BY <2>0, <3>0 DEF StoreOK
      <4>1. \A i \in Jobs : Sent(q, i)' => Inserted(q, i)'
        BY <3>5, <4>0 DEF Inserted, Sent
      <4>2. QED
        BY <3>1, <3>3, <4>1 DEF StoreOK, Early
    <3>7. QED
      BY <3>3, <3>6 DEF StoreInv
  <2>12. CASE FanOutEnds(q)
    BY <2>0, <2>12, <1>2 DEF FanOutEnds, Answer, Handler, HandlerOK, StoreOK, Early
  <2>13. ASSUME NEW j \in Jobs, NextJob(q, j)
         PROVE  StoreInv'
    <3> DEFINE n == [h EXCEPT !.todo = @ \ {j}]
               c == [n EXCEPT !.job = j, !.pc = "call"]
    <3>1. /\ n.pc = "next" /\ n.reply = "none" /\ n.accepted = h.accepted
          /\ n.todo = h.todo \ {j}
          /\ c.pc = "call" /\ c.reply = "none" /\ c.accepted = h.accepted
          /\ c.todo = h.todo \ {j} /\ c.job = j
      BY <2>0, <2>13 DEF NextJob, Handler, HandlerOK
    <3>2. (Become(q, n) \/ Become(q, c)) /\ UNCHANGED <<row, queue>>
      BY <2>13 DEF NextJob
    <3>3. j \in h.todo /\ h.pc = "next" /\ h.reply = "none"
      BY <2>0, <2>13 DEF NextJob, HandlerOK
    <3> HIDE DEF n, c
    <3>4. CASE Become(q, n)
      BY <2>0, <3>1, <3>2, <3>3, <3>4, <1>2 DEF StoreOK, Early
    <3>5. CASE Become(q, c)
      BY <2>0, <3>1, <3>2, <3>3, <3>5, <1>2 DEF StoreOK, Early
    <3>6. QED
      BY <3>2, <3>4, <3>5
  <2>14. ASSUME NEW j \in Jobs, ResolveLiveTest(q, j)
         PROVE  StoreInv'
    BY <2>0, <2>14, <1>2 DEF ResolveLiveTest, Answer, Handler, HandlerOK, StoreOK, Early
  <2>15. QED
    BY <1>3, <2>1, <2>2, <2>3, <2>4, <2>5, <2>6, <2>7, <2>8, <2>9, <2>10, <2>11, <2>12,
       <2>13, <2>14 DEF Proceed
<1>4. ASSUME NEW q \in Callers, ApiRestart(q)
      PROVE  StoreInv'
  <2>1. req[q] \in Handler /\ HandlerOK(q, req[q]) /\ StoreOK(q)
    BY DEF TypeInv, TypeOK, StoreInv
  <2> DEFINE k == Answer(req[q], "lost")
  <2>2. k.pc = "done" /\ k.reply = "lost" /\ k.todo = {}
    BY <2>1 DEF Handler, Answer
  <2>3. Become(q, k) /\ UNCHANGED <<row, queue>> /\ req[q].reply = "none"
    BY <1>4, <2>1 DEF ApiRestart, HandlerOK
  <2> HIDE DEF k
  <2>4. QED
    BY <2>2, <2>3, <1>2 DEF Early
<1>5. QED
  BY <1>1, <1>3, <1>4 DEF Next, vars, Midnight, LimitsChange, JobChanges, DeleteTrigger

LEMMA StoreAlways == Spec => [](TypeInv /\ StoreInv)
BY InitTypeInv, NextTypeInv, InitStoreInv, NextStoreInv, PTL DEF Spec

(* No message ever stands without its row, and a row without its message is *)
(* on its way to the queue or was left by a failed call or a restart, for   *)
(* any number of requests and in any interleaving of them.                  *)
THEOREM RowsAndMessagesHold == Spec => []RowsAndMessages
<1>1. StoreInv => RowsAndMessages
  BY DEF StoreInv, StoreOK, RowsAndMessages, Inserted, Sent
<1>2. QED
  BY <1>1, StoreAlways, PTL

-----------------------------------------------------------------------------
(* What a step may do to a request's caps, and when it may be refused.      *)
Kept(p) ==
    /\ req[p].pc # "start" => req'[p].caps = req[p].caps
    /\ req[p].pc = "done" => req'[p] = req[p]

Refused(p) ==
    /\ req[p].pc = "commit" /\ row' = row
    /\ req'[p].day = req[p].day
    /\ ~WithinQuota(req[p].caps, req[p].day)

LEMMA StepOfHandler ==
    ASSUME TypeInv, NEW q \in Callers, NEW h, Become(q, h), NEW p \in Requests,
           req[q].pc # "start" => h.caps = req[q].caps,
           req[q].pc # "done",
           h.cause = "quota" /\ req[q].cause # "quota" => Refused(q)
    PROVE  /\ Kept(p)
           /\ req'[p].cause = "quota" /\ req[p].cause # "quota" => Refused(p)
<1>1. /\ p \in Callers /\ req'[q] = h
      /\ p # q => req'[p] = req[p]
  BY DEF TypeInv, TypeOK, Become, Callers
<1>2. QED
  BY <1>1 DEF Kept

(* The common case: the handler moves on with the caps and the cause it has. *)
LEMMA MovesOn ==
    ASSUME TypeInv, NEW q \in Callers, NEW h, Become(q, h), NEW p \in Requests,
           h.caps = req[q].caps, h.cause = req[q].cause, req[q].pc # "done"
    PROVE  /\ Kept(p)
           /\ req'[p].cause = "quota" /\ req[p].cause # "quota" => Refused(p)
BY StepOfHandler

LEMMA AnswerKeeps ==
    ASSUME NEW h \in Handler, NEW reply
    PROVE  Answer(h, reply).caps = h.caps /\ Answer(h, reply).cause = h.cause
BY DEF Handler, Answer

LEMMA StepOfRequest ==
    ASSUME TypeInv, [Next]_vars, NEW p \in Requests
    PROVE  /\ Kept(p)
           /\ req'[p].cause = "quota" /\ req[p].cause # "quota" => Refused(p)
<1>1. ASSUME UNCHANGED req
      PROVE  /\ Kept(p)
             /\ req'[p].cause = "quota" /\ req[p].cause # "quota" => Refused(p)
  BY <1>1 DEF Kept
<1>2. ASSUME NEW q \in Callers, Proceed(q)
      PROVE  /\ Kept(p)
             /\ req'[p].cause = "quota" /\ req[p].cause # "quota" => Refused(p)
  <2> DEFINE h == req[q]
  <2>0. h \in Handler
    BY DEF TypeInv, TypeOK
  <2>1. CASE ReadLimits(q)
    <3> DEFINE k == [h EXCEPT !.caps = EffectiveCaps, !.pc = "seed"]
    <3>1. k.cause = h.cause
      BY <2>0 DEF Handler
    <3>2. Become(q, k) /\ h.pc = "start"
      BY <2>1 DEF ReadLimits
    <3> HIDE DEF k
    <3>3. QED
      BY <3>1, <3>2, StepOfHandler
  <2>2. CASE SeedOwner(q) \/ PlantCaps(q)
    <3> DEFINE f == [h EXCEPT !.pc = "find"]
               k == [h EXCEPT !.pc = "plant"]
    <3>1. /\ f.caps = h.caps /\ f.cause = h.cause
          /\ k.caps = h.caps /\ k.cause = h.cause
      BY <2>0 DEF Handler
    <3>2. (Become(q, f) \/ Become(q, k)) /\ h.pc # "done"
      BY <2>2 DEF SeedOwner, PlantCaps
    <3> HIDE DEF f, k
    <3>3. QED
      BY <3>1, <3>2, MovesOn
  <2>3. CASE FindTrigger(q) \/ ResolveFails(q) \/ FanOutEnds(q)
    <3> DEFINE k == [h EXCEPT !.pc = "list"]
    <3>1. k.caps = h.caps /\ k.cause = h.cause
      BY <2>0 DEF Handler
    <3>2. /\ h.pc # "done"
          /\ \/ Become(q, k)
             \/ Become(q, Answer(h, "503")) \/ Become(q, Answer(h, "4xx"))
             \/ Become(q, Answer(h, "500")) \/ Become(q, Answer(h, "200"))
      BY <2>3 DEF FindTrigger, ResolveFails, FanOutEnds
    <3> HIDE DEF k
    <3>3. QED
      BY <2>0, <3>1, <3>2, MovesOn, AnswerKeeps
  <2>4. CASE ListJobs(q)
    <3> DEFINE k == [h EXCEPT !.todo = Dispatchable, !.pc = "next"]
    <3>1. k.caps = h.caps /\ k.cause = h.cause
      BY <2>0 DEF Handler
    <3>2. (Become(q, k) \/ Become(q, Answer(h, "4xx"))) /\ h.pc # "done"
      BY <2>4 DEF ListJobs
    <3> HIDE DEF k
    <3>3. QED
      BY <2>0, <3>1, <3>2, MovesOn, AnswerKeeps
  <2>5. CASE CallQuota(q)
    <3> DEFINE k == [h EXCEPT !.day = today, !.pc = "commit"]
    <3>1. k.caps = h.caps /\ k.cause = h.cause
      BY <2>0 DEF Handler
    <3>2. Become(q, k) /\ h.pc # "done"
      BY <2>5 DEF CallQuota
    <3> HIDE DEF k
    <3>3. QED
      BY <3>1, <3>2, MovesOn
  <2>6. CASE InsertRow(q)
    <3>1. CASE Admitted(q)
      <4> DEFINE k == [h EXCEPT !.pc = "send", !.day = 0]
      <4>1. k.caps = h.caps /\ k.cause = h.cause
        BY <2>0 DEF Handler
      <4>2. Become(q, k) /\ h.pc = "commit"
        BY <2>6, <3>1 DEF InsertRow
      <4> HIDE DEF k
      <4>3. QED
        BY <4>1, <4>2, MovesOn
    <3>2. CASE ~Admitted(q)
      <4> DEFINE a == Answer(h, QuotaReply(h.caps, h.day))
                 k == [a EXCEPT !.cause = "quota"]
      <4>1. k.caps = h.caps /\ k.day = h.day /\ k.pc = "done"
        BY <2>0 DEF Handler, Answer
      <4>2. Become(q, k) /\ h.pc = "commit" /\ row' = row
        BY <2>6, <3>2 DEF InsertRow
      <4>3. ~WithinQuota(h.caps, h.day)
        BY <3>2 DEF Admitted
      <4>4. req'[q] = k
        BY <4>2 DEF TypeInv, TypeOK, Become
      <4> HIDE DEF a, k
      <4>5. Refused(q)
        BY <4>1, <4>2, <4>3, <4>4 DEF Refused
      <4>6. QED
        BY <4>1, <4>2, <4>5, StepOfHandler
    <3>3. QED
      BY <3>1, <3>2
  <2>7. CASE InsertFails(q)
    <3> DEFINE k == [Answer(h, "503") EXCEPT !.cause = "call", !.day = 0]
    <3>1. k.caps = h.caps /\ k.cause = "call"
      BY <2>0 DEF Handler, Answer
    <3>2. Become(q, k) /\ h.pc = "commit"
      BY <2>7 DEF InsertFails
    <3> HIDE DEF k
    <3>3. QED
      BY <3>1, <3>2, StepOfHandler
  <2>8. CASE Send(q)
    <3> DEFINE k == IF q \in LiveTests THEN [Answer(h, "200") EXCEPT !.accepted = {h.job}]
                    ELSE [h EXCEPT !.accepted = @ \cup {h.job}, !.job = NoJob, !.pc = "next"]
    <3>1. k.caps = h.caps /\ k.cause = h.cause
      BY <2>0 DEF Handler, Answer
    <3>2. Become(q, k) /\ h.pc = "send"
      BY <2>8 DEF Send
    <3> HIDE DEF k
    <3>3. QED
      BY <3>1, <3>2, StepOfHandler
  <2>9. CASE SendFails(q)
    <3> DEFINE k == [Answer(h, "503") EXCEPT !.cause = "call"]
    <3>1. k.caps = h.caps /\ k.cause = "call"
      BY <2>0 DEF Handler, Answer
    <3>2. Become(q, k) /\ h.pc = "send"
      BY <2>9 DEF SendFails
    <3> HIDE DEF k
    <3>3. QED
      BY <3>1, <3>2, StepOfHandler
  <2>10. ASSUME NEW j \in Jobs, NextJob(q, j)
         PROVE  /\ Kept(p)
                /\ req'[p].cause = "quota" /\ req[p].cause # "quota" => Refused(p)
    <3> DEFINE n == [h EXCEPT !.todo = @ \ {j}]
               c == [n EXCEPT !.job = j, !.pc = "call"]
    <3>1. n.caps = h.caps /\ n.cause = h.cause /\ c.caps = h.caps /\ c.cause = h.cause
      BY <2>0 DEF Handler
    <3>2. (Become(q, n) \/ Become(q, c)) /\ h.pc = "next"
      BY <2>10 DEF NextJob
    <3> HIDE DEF n, c
    <3>3. QED
      BY <3>1, <3>2, StepOfHandler
  <2>11. ASSUME NEW j \in Jobs, ResolveLiveTest(q, j)
         PROVE  /\ Kept(p)
                /\ req'[p].cause = "quota" /\ req[p].cause # "quota" => Refused(p)
    <3> DEFINE k == [h EXCEPT !.job = j, !.pc = "commit"]
    <3>1. k.caps = h.caps /\ k.cause = h.cause
      BY <2>0 DEF Handler
    <3>2. (Become(q, k) \/ Become(q, Answer(h, "4xx"))) /\ h.pc # "done"
      BY <2>11 DEF ResolveLiveTest
    <3> HIDE DEF k
    <3>3. QED
      BY <2>0, <3>1, <3>2, MovesOn, AnswerKeeps
  <2>12. QED
    BY <1>2, <2>1, <2>2, <2>3, <2>4, <2>5, <2>6, <2>7, <2>8, <2>9, <2>10, <2>11 DEF Proceed
<1>3. ASSUME NEW q \in Callers, ApiRestart(q)
      PROVE  /\ Kept(p)
             /\ req'[p].cause = "quota" /\ req[p].cause # "quota" => Refused(p)
  <2>1. req[q] \in Handler
    BY DEF TypeInv, TypeOK
  <2>2. QED
    BY <1>3, <2>1, MovesOn, AnswerKeeps DEF ApiRestart
<1>4. QED
  BY <1>1, <1>2, <1>3 DEF Next, vars, Midnight, LimitsChange, JobChanges, DeleteTrigger

-----------------------------------------------------------------------------
(* Rows are only ever added: one at a time, by a request inside its         *)
(* transaction, for a job it has no row of yet.                             *)
Inserting(q) ==
    /\ req[q].pc = "commit" /\ req[q].job \in Jobs
    /\ Admitted(q)
    /\ CreatedAt(q) \in 1..MaxDay
    /\ row[<<q, req[q].job>>] = 0
    /\ row' = [row EXCEPT ![<<q, req[q].job>>] = CreatedAt(q)]

LEMMA RowsOnlyAdded ==
    ASSUME TypeInv, StoreInv, [Next]_vars
    PROVE  row' = row \/ \E q \in Callers : Inserting(q)
<1>1. ASSUME NEW q \in Callers, InsertRow(q) \/ InsertFails(q), row' # row
      PROVE  Inserting(q)
  <2>0. HandlerOK(q, req[q]) /\ StoreOK(q)
    BY DEF TypeInv, StoreInv
  <2>1. /\ req[q].pc = "commit" /\ Admitted(q)
        /\ row' = [row EXCEPT ![<<q, req[q].job>>] = CreatedAt(q)]
    BY <1>1 DEF InsertRow, InsertFails
  <2>2. req[q].job \in Jobs /\ req[q].reply = "none" /\ CreatedAt(q) \in 1..MaxDay
    BY <2>0, <2>1 DEF HandlerOK, CreatedAt, TypeInv, TypeOK
  <2>3. ~Inserted(q, req[q].job)
    BY <2>0, <2>1, <2>2 DEF StoreOK
  <2>4. QED
    BY <2>1, <2>2, <2>3 DEF Inserting, Inserted
<1>2. QED
  BY <1>1 DEF Next, Proceed, vars, ReadLimits, SeedOwner, PlantCaps, FindTrigger, ListJobs,
              ResolveFails, CallQuota, Send, SendFails, FanOutEnds, NextJob,
              ResolveLiveTest, ApiRestart, Midnight, LimitsChange, JobChanges, DeleteTrigger

LEMMA RunsFinite == IsFiniteSet(Runs) /\ Requests \X Jobs \subseteq Runs
<1>1. IsFiniteSet(Callers)
  BY FiniteAssumption, FS_Union DEF Callers
<1>2. QED
  BY <1>1, FiniteAssumption, FS_Product DEF Runs, Callers

-----------------------------------------------------------------------------
(* The rows counted for a window, and what one more row does to them.       *)
Day(d) == {x \in Runs : row[x] = d}
Month(m) == {x \in Runs : row[x] # 0 /\ MonthOf(row[x]) = m}

LEMMA WindowsFinite ==
    /\ \A d : /\ IsFiniteSet(Day(d)) /\ IsFiniteSet(Production(d))
              /\ Cardinality(Production(d)) <= Cardinality(Day(d))
              /\ Cardinality(Production(d)) \in Nat /\ Cardinality(Day(d)) \in Nat
    /\ \A m : /\ IsFiniteSet(Month(m)) /\ IsFiniteSet(ProductionInMonth(m))
              /\ Cardinality(ProductionInMonth(m)) <= Cardinality(Month(m))
              /\ Cardinality(ProductionInMonth(m)) \in Nat /\ Cardinality(Month(m)) \in Nat
<1>1. \A S \in SUBSET Runs : IsFiniteSet(S) /\ Cardinality(S) \in Nat
  BY RunsFinite, FS_Subset, FS_CardinalityType
<1>2. \A d : /\ Day(d) \in SUBSET Runs /\ Production(d) \in SUBSET Runs
             /\ Production(d) \subseteq Day(d)
  BY RunsFinite DEF Day, Production
<1>3. \A m : /\ Month(m) \in SUBSET Runs /\ ProductionInMonth(m) \in SUBSET Runs
             /\ ProductionInMonth(m) \subseteq Month(m)
  BY RunsFinite DEF Month, ProductionInMonth
<1>4. \A S, T \in SUBSET Runs : S \subseteq T => Cardinality(S) <= Cardinality(T)
  BY <1>1, FS_Subset
<1>5. QED
  BY <1>1, <1>2, <1>3, <1>4

LEMMA MonthInNat == ASSUME NEW d \in 1..MaxDay PROVE MonthOf(d) \in 0..MonthOf(MaxDay)
BY BoundsAssumption DEF MonthOf

(* The witness of a window that the step leaves alone stays a witness.      *)
LEMMA WitnessStays ==
    ASSUME TypeInv, StoreInv, [Next]_vars, NEW p \in Requests, NEW d \in 1..MaxDay, HasRow(p, d),
           row' = row \/ \E q \in Callers : Inserting(q)
    PROVE  HasRow(p, d)' /\ req'[p].caps = req[p].caps
<1>1. PICK j \in Jobs : row[<<p, j>>] = d
  BY DEF HasRow
<1>2. p \in Callers /\ <<p, j>> \in Runs /\ d # 0
  BY <1>1 DEF Callers, Runs
<1>3. row'[<<p, j>>] = d
  BY <1>1, <1>2 DEF Inserting, TypeInv, TypeOK
<1>4. req[p].pc # "start"
  BY <1>1, <1>2 DEF StoreInv, StoreOK, Early, Inserted, TypeInv, HandlerOK
<1>5. QED
  BY <1>3, <1>4, StepOfRequest DEF HasRow, Kept

LEMMA QuotaDay ==
    ASSUME TypeInv, StoreInv, [Next]_vars, QuotaHolds, NEW d \in 1..MaxDay, Production(d)' # {}
    PROVE  \E q \in Requests :
              HasRow(q, d)' /\ Cardinality(Production(d)') <= req'[q].caps.day
<1>1. CASE Production(d)' = Production(d)
  <2>1. PICK q \in Requests : HasRow(q, d) /\ Cardinality(Production(d)) <= req[q].caps.day
    BY <1>1 DEF QuotaHolds
  <2>2. HasRow(q, d)' /\ req'[q].caps = req[q].caps
    BY <2>1, WitnessStays, RowsOnlyAdded
  <2>3. QED
    BY <1>1, <2>1, <2>2
<1>2. CASE Production(d)' # Production(d)
  <2>1. PICK q \in Callers : Inserting(q)
    BY <1>2, RowsOnlyAdded DEF Production
  <2> DEFINE x == <<q, req[q].job>>
  <2>2. row[x] = 0 /\ row' = [row EXCEPT ![x] = CreatedAt(q)] /\ x \in Runs
    BY <2>1 DEF Inserting, Runs
  <2>3. q \in Requests /\ CreatedAt(q) = d
    <3>1. \A y \in Requests \X Jobs : y # x => row'[y] = row[y]
      BY <2>2, RunsFinite DEF TypeInv, TypeOK
    <3>2. x \in Requests \X Jobs /\ (row'[x] = d \/ row[x] = d)
      BY <1>2, <3>1 DEF Production
    <3>3. row'[x] = CreatedAt(q) /\ d # 0
      BY <2>2 DEF TypeInv, TypeOK
    <3>4. QED
      BY <2>2, <3>2, <3>3
  <2>4. req[q].day = d /\ WithinQuota(req[q].caps, d) /\ req[q].caps \in Caps
    BY <2>1, <2>3 DEF Inserting, CreatedAt, Admitted, TypeInv, HandlerOK
  <2>5. Production(d)' = Production(d) \cup {x} /\ x \notin Production(d)
    <3>1. x \in Requests \X Jobs
      BY <2>1, <2>3 DEF Inserting
    <3>2. \A y \in Requests \X Jobs : row'[y] = IF y = x THEN d ELSE row[y]
      BY <2>2, <2>3, RunsFinite DEF TypeInv, TypeOK
    <3>3. QED
      BY <2>2, <3>1, <3>2 DEF Production
  <2>6. Cardinality(Production(d)') = Cardinality(Production(d)) + 1
    BY <2>5, WindowsFinite, FS_AddElement
  <2>7. Cardinality(Production(d)) + 1 <= req[q].caps.day
    BY <2>4, WindowsFinite DEF WithinQuota, DayCount, Day, Caps
  <2>8. HasRow(q, d)' /\ req'[q].caps = req[q].caps
    <3>1. row'[x] = d /\ req[q].job \in Jobs /\ req[q].pc = "commit"
      BY <2>1, <2>2, <2>3 DEF Inserting, TypeInv, TypeOK
    <3>2. QED
      BY <2>3, <3>1, StepOfRequest DEF HasRow, Kept
  <2>9. QED
    BY <2>3, <2>6, <2>7, <2>8
<1>3. QED
  BY <1>1, <1>2

LEMMA QuotaMonth ==
    ASSUME TypeInv, StoreInv, [Next]_vars, QuotaHolds, NEW m, m \in 0..MonthOf(MaxDay),
           ProductionInMonth(m)' # {}
    PROVE  \E q \in Requests, d \in 1..MaxDay :
              /\ MonthOf(d) = m /\ HasRow(q, d)'
              /\ Cardinality(ProductionInMonth(m)') <= req'[q].caps.month
<1>1. CASE ProductionInMonth(m)' = ProductionInMonth(m)
  <2>1. PICK q \in Requests, d \in 1..MaxDay :
              /\ MonthOf(d) = m /\ HasRow(q, d)
              /\ Cardinality(ProductionInMonth(m)) <= req[q].caps.month
    BY <1>1 DEF QuotaHolds
  <2>2. HasRow(q, d)' /\ req'[q].caps = req[q].caps
    BY <2>1, WitnessStays, RowsOnlyAdded
  <2>3. QED
    BY <1>1, <2>1, <2>2
<1>2. CASE ProductionInMonth(m)' # ProductionInMonth(m)
  <2>1. PICK q \in Callers : Inserting(q)
    BY <1>2, RowsOnlyAdded DEF ProductionInMonth
  <2> DEFINE x == <<q, req[q].job>>
  <2>0. PICK d \in 1..MaxDay : d = CreatedAt(q)
    BY <2>1 DEF Inserting
  <2>2. row[x] = 0 /\ row' = [row EXCEPT ![x] = d] /\ x \in Runs /\ d \in 1..MaxDay
    BY <2>0, <2>1 DEF Inserting, Runs
  <2>3. q \in Requests /\ MonthOf(d) = m
    <3>1. \A y \in Requests \X Jobs : y # x => row'[y] = row[y]
      BY <2>2, RunsFinite DEF TypeInv, TypeOK
    <3>2. PICK y \in Requests \X Jobs :
              (y \in ProductionInMonth(m)') # (y \in ProductionInMonth(m))
      BY <1>2 DEF ProductionInMonth
    <3>5. y = x
      BY <3>1, <3>2 DEF ProductionInMonth
    <3>6. row'[x] # 0 /\ MonthOf(row'[x]) = m
      BY <2>2, <3>2, <3>5 DEF ProductionInMonth
    <3>3. row'[x] = d
      BY <2>2 DEF TypeInv, TypeOK
    <3>4. QED
      BY <3>2, <3>3, <3>5, <3>6
  <2>4. req[q].day = d /\ WithinQuota(req[q].caps, d) /\ req[q].caps \in Caps
    BY <2>0, <2>1, <2>3 DEF Inserting, CreatedAt, Admitted, TypeInv, HandlerOK
  <2>5. ProductionInMonth(m)' = ProductionInMonth(m) \cup {x} /\ x \notin ProductionInMonth(m)
    <3>1. x \in Requests \X Jobs /\ d # 0
      BY <2>1, <2>2, <2>3 DEF Inserting
    <3>2. \A y \in Requests \X Jobs : row'[y] = IF y = x THEN d ELSE row[y]
      BY <2>2, <2>3, RunsFinite DEF TypeInv, TypeOK
    <3>3. QED
      BY <2>2, <2>3, <3>1, <3>2 DEF ProductionInMonth
  <2>6. Cardinality(ProductionInMonth(m)') = Cardinality(ProductionInMonth(m)) + 1
    BY <2>5, WindowsFinite, FS_AddElement
  <2>7. Cardinality(ProductionInMonth(m)) + 1 <= req[q].caps.month
    <3>1. MonthCount(d) = Cardinality(Month(m))
      BY <2>3 DEF MonthCount, Month
    <3>2. MonthCount(d) + 1 <= req[q].caps.month /\ req[q].caps.month \in Nat
      BY <2>4 DEF WithinQuota, Caps
    <3>3. QED
      BY <3>1, <3>2, WindowsFinite
  <2>8. HasRow(q, d)' /\ req'[q].caps = req[q].caps
    <3>1. row'[x] = d /\ req[q].job \in Jobs /\ req[q].pc = "commit"
      BY <2>1, <2>2, <2>3 DEF Inserting, TypeInv, TypeOK
    <3>2. QED
      BY <2>3, <3>1, StepOfRequest DEF HasRow, Kept
  <2>9. QED
    BY <2>2, <2>3, <2>6, <2>7, <2>8
<1>3. QED
  BY <1>1, <1>2

(* The runs of a day, and of a month, never exceed the cap held by one of   *)
(* the requests that inserted them: for any number of requests counting and *)
(* inserting at once, any clock, and any change of the limits meanwhile.    *)
THEOREM QuotaAlwaysHolds == Spec => []QuotaHolds
<1>1. Init => QuotaHolds
  <2>1. SUFFICES ASSUME Init PROVE QuotaHolds
    OBVIOUS
  <2>2. \A d \in 1..MaxDay : Production(d) = {}
    BY <2>1, RunsFinite DEF Init, Production
  <2>3. \A m : ProductionInMonth(m) = {}
    BY <2>1, RunsFinite DEF Init, ProductionInMonth
  <2>4. QED
    BY <2>2, <2>3 DEF QuotaHolds
<1>2. TypeInv /\ StoreInv /\ QuotaHolds /\ [Next]_vars => QuotaHolds'
  <2>1. SUFFICES ASSUME TypeInv, StoreInv, QuotaHolds, [Next]_vars PROVE QuotaHolds'
    OBVIOUS
  <2>2. ASSUME NEW d \in 1..MaxDay, Production(d)' # {}
        PROVE  \E q \in Requests :
                  HasRow(q, d)' /\ Cardinality(Production(d)') <= req'[q].caps.day
    BY <2>1, <2>2, QuotaDay
  <2>3. ASSUME NEW m \in 0..MonthOf(MaxDay), ProductionInMonth(m)' # {}
        PROVE  \E q \in Requests, d \in 1..MaxDay :
                  /\ MonthOf(d) = m /\ HasRow(q, d)'
                  /\ Cardinality(ProductionInMonth(m)') <= req'[q].caps.month
    BY <2>1, <2>3, QuotaMonth
  <2>4. QED
    BY <2>2, <2>3 DEF QuotaHolds
<1>3. QED
  BY <1>1, <1>2, StoreAlways, PTL DEF Spec

-----------------------------------------------------------------------------
(* A window that is full stays full, no row being removed.                  *)
LEMMA WindowsGrow ==
    ASSUME TypeInv, StoreInv, [Next]_vars, NEW d \in 1..MaxDay
    PROVE  /\ Cardinality(Day(d)) <= Cardinality(Day(d)')
           /\ Cardinality(Month(MonthOf(d))) <= Cardinality(Month(MonthOf(d))')
<1>1. \A x \in Runs : row[x] # 0 => row'[x] = row[x]
  <2>1. CASE row' = row
    BY <2>1
  <2>2. ASSUME NEW q \in Callers, Inserting(q)
        PROVE  \A x \in Runs : row[x] # 0 => row'[x] = row[x]
    BY <2>2 DEF Inserting, TypeInv, TypeOK
  <2>3. QED
    BY <2>1, <2>2, RowsOnlyAdded
<1>2. Day(d) \subseteq Day(d)' /\ Month(MonthOf(d)) \subseteq Month(MonthOf(d))'
  BY <1>1 DEF Day, Month
<1>3. Day(d)' \subseteq Runs /\ Month(MonthOf(d))' \subseteq Runs
  BY DEF Day, Month
<1>4. IsFiniteSet(Day(d)') /\ IsFiniteSet(Month(MonthOf(d))')
  BY <1>3, RunsFinite, FS_Subset
<1>5. QED
  BY <1>2, <1>4, FS_Subset

(* A refusal names a full window.                                           *)
RefusedRightly(q) ==
    req[q].cause = "quota" =>
        \/ DayCount(req[q].day) >= req[q].caps.day
        \/ MonthCount(req[q].day) >= req[q].caps.month

LEMMA NextRefusedRightly ==
    ASSUME TypeInv, StoreInv, [Next]_vars, NEW q \in Requests, RefusedRightly(q)
    PROVE  RefusedRightly(q)'
<1> DEFINE d == req[q].day
           c == req[q].caps
<1>1. SUFFICES ASSUME req'[q].cause = "quota"
               PROVE  RefusedRightly(q)'
  BY DEF RefusedRightly
<1>2. q \in Callers /\ HandlerOK(q, req[q])
  BY DEF TypeInv, Callers
<1>3. CASE req[q].cause = "quota"
  <2>1. req[q].pc = "done" /\ d \in 1..MaxDay /\ c \in Caps
    BY <1>2, <1>3 DEF HandlerOK
  <2>2. req'[q] = req[q]
    BY <2>1, StepOfRequest DEF Kept
  <2>3. PICK e \in 1..MaxDay : e = d
    BY <2>1
  <2>4. Cardinality(Day(e)) >= c.day \/ Cardinality(Month(MonthOf(e))) >= c.month
    BY <1>3, <2>3 DEF RefusedRightly, DayCount, MonthCount, Day, Month
  <2>5. Cardinality(Day(e)') >= c.day \/ Cardinality(Month(MonthOf(e))') >= c.month
    <3>1. Cardinality(Day(e)') \in Nat /\ Cardinality(Month(MonthOf(e))') \in Nat
      <4>1. Day(e)' \subseteq Runs /\ Month(MonthOf(e))' \subseteq Runs
        BY DEF Day, Month
      <4>2. QED
        BY <4>1, RunsFinite, FS_Subset, FS_CardinalityType
    <3>2. c.day \in Nat /\ c.month \in Nat
      BY <2>1 DEF Caps
    <3>3. QED
      BY <2>4, <3>1, <3>2, WindowsFinite, WindowsGrow
  <2>6. QED
    BY <2>2, <2>3, <2>5 DEF RefusedRightly, DayCount, MonthCount, Day, Month
<1>4. CASE req[q].cause # "quota"
  <2>1. Refused(q)
    BY <1>1, <1>4, StepOfRequest
  <2>2. /\ req'[q].caps = c /\ req'[q].day = d /\ row' = row
        /\ c \in Caps /\ d \in 1..MaxDay
    BY <1>2, <2>1, StepOfRequest DEF Refused, Kept, HandlerOK
  <2>3. DayCount(d) >= c.day \/ MonthCount(d) >= c.month
    <3>1. ~(DayCount(d) + 1 <= c.day /\ MonthCount(d) + 1 <= c.month)
      BY <2>1 DEF Refused, WithinQuota
    <3>2. DayCount(d) \in Nat /\ MonthCount(d) \in Nat
      BY WindowsFinite DEF DayCount, MonthCount, Day, Month
    <3>3. c.day \in Nat /\ c.month \in Nat
      BY <2>2 DEF Caps
    <3>4. QED
      BY <3>1, <3>2, <3>3
  <2>4. QED
    BY <2>2, <2>3 DEF RefusedRightly, DayCount, MonthCount
<1>5. QED
  BY <1>3, <1>4

(* A refusal for quota is never spurious and a 200 names exactly the runs   *)
(* that were inserted and sent, for any number of requests and faults.      *)
THEOREM RepliesAlwaysTrue == Spec => []RepliesAreTrue
<1> DEFINE Rightly == \A q \in Requests : RefusedRightly(q)
<1>1. Init => Rightly
  BY DEF Init, RefusedRightly, Callers
<1>2. TypeInv /\ StoreInv /\ Rightly /\ [Next]_vars => Rightly'
  BY NextRefusedRightly
<1>3. TypeInv /\ StoreInv /\ Rightly => RepliesAreTrue
  BY DEF TypeInv, HandlerOK, StoreInv, StoreOK, RefusedRightly, RepliesAreTrue, Inserted, Sent
<1> HIDE DEF Rightly
<1>4. QED
  BY <1>1, <1>2, <1>3, StoreAlways, PTL DEF Spec

-----------------------------------------------------------------------------
(* While nobody edits, what a request has accepted, has in hand and has     *)
(* still to do are all the jobs.                                            *)
FanOK(q) ==
    LET h == req[q] IN
    /\ h.pc = "next" => h.todo \cup h.accepted = Jobs
    /\ h.pc \in {"call", "commit", "send"} => h.todo \cup h.accepted \cup {h.job} = Jobs
    /\ h.reply = "200" => h.accepted = Jobs

FanInv ==
    edits = 0 => /\ trigger = "present" /\ \A j \in Jobs : jobs[j] = "active"
                 /\ \A q \in Requests : FanOK(q)

(* Other than an edit, only the request's own step can disturb it.          *)
LEMMA FanStep ==
    ASSUME TypeInv, FanInv, edits' = edits, trigger' = trigger, jobs' = jobs,
           NEW q \in Callers, NEW h, Become(q, h),
           q \in Requests /\ edits = 0 =>
             /\ h.pc = "next" => h.todo \cup h.accepted = Jobs
             /\ h.pc \in {"call", "commit", "send"} => h.todo \cup h.accepted \cup {h.job} = Jobs
             /\ h.reply = "200" => h.accepted = Jobs
    PROVE  FanInv'
<1>1. req'[q] = h /\ \A p \in Callers \ {q} : req'[p] = req[p]
  BY DEF TypeInv, TypeOK, Become
<1>2. QED
  BY <1>1 DEF FanInv, FanOK, Callers

LEMMA NextFanInv == TypeInv /\ FanInv /\ [Next]_vars => FanInv'
<1> SUFFICES ASSUME TypeInv, FanInv, [Next]_vars PROVE FanInv'
  OBVIOUS
<1>1. ASSUME edits' = edits + 1
      PROVE  FanInv'
  BY <1>1 DEF FanInv, TypeInv, TypeOK
<1>2. ASSUME UNCHANGED <<edits, trigger, jobs, req>>
      PROVE  FanInv'
  BY <1>2 DEF FanInv, FanOK
<1>3. ASSUME NEW q \in Callers, Proceed(q)
      PROVE  FanInv'
  <2> DEFINE h == req[q]
  <2>0. /\ h \in Handler /\ HandlerOK(q, h)
        /\ q \in Requests /\ edits = 0 => FanOK(q)
    BY DEF TypeInv, TypeOK, FanInv
  <2>1. CASE ReadLimits(q)
    <3> DEFINE k == [h EXCEPT !.caps = EffectiveCaps, !.pc = "seed"]
    <3>1. k.pc = "seed" /\ k.reply = h.reply
      BY <2>0 DEF Handler
    <3>2. /\ Become(q, k) /\ h.pc = "start"
          /\ edits' = edits /\ trigger' = trigger /\ jobs' = jobs
      BY <2>1 DEF ReadLimits
    <3> HIDE DEF k
    <3>3. QED
      BY <2>0, <3>1, <3>2, FanStep DEF HandlerOK
  <2>2. CASE SeedOwner(q) \/ PlantCaps(q)
    <3> DEFINE f == [h EXCEPT !.pc = "find"]
               k == [h EXCEPT !.pc = "plant"]
    <3>1. f.pc = "find" /\ f.reply = h.reply /\ k.pc = "plant" /\ k.reply = h.reply
      BY <2>0 DEF Handler
    <3>2. /\ (Become(q, f) \/ Become(q, k)) /\ h.pc # "done"
          /\ edits' = edits /\ trigger' = trigger /\ jobs' = jobs
      BY <2>2 DEF SeedOwner, PlantCaps
    <3> HIDE DEF f, k
    <3>3. QED
      BY <2>0, <3>1, <3>2, FanStep DEF HandlerOK
  <2>3. CASE FindTrigger(q) \/ ResolveFails(q)
    <3> DEFINE k == [h EXCEPT !.pc = "list"]
               a == Answer(h, "503")
               b == Answer(h, "4xx")
               c == Answer(h, "500")
    <3>1. /\ k.pc = "list" /\ k.reply = h.reply
          /\ a.pc = "done" /\ a.reply = "503"
          /\ b.pc = "done" /\ b.reply = "4xx"
          /\ c.pc = "done" /\ c.reply = "500"
      BY <2>0 DEF Handler, Answer
    <3>2. /\ Become(q, k) \/ Become(q, a) \/ Become(q, b) \/ Become(q, c)
          /\ h.pc # "done"
          /\ edits' = edits /\ trigger' = trigger /\ jobs' = jobs
      BY <2>3 DEF FindTrigger, ResolveFails
    <3> HIDE DEF k, a, b, c
    <3>3. QED
      BY <2>0, <3>1, <3>2, FanStep DEF HandlerOK
  <2>4. CASE ListJobs(q)
    <3> DEFINE k == [h EXCEPT !.todo = Dispatchable, !.pc = "next"]
               b == Answer(h, "4xx")
    <3>1. /\ k.pc = "next" /\ k.reply = h.reply /\ k.todo = Dispatchable
          /\ k.accepted = h.accepted
          /\ b.pc = "done" /\ b.reply = "4xx"
      BY <2>0 DEF Handler, Answer
    <3>2. /\ Become(q, k) \/ Become(q, b)
          /\ h.pc = "list"
          /\ edits' = edits /\ trigger' = trigger /\ jobs' = jobs
      BY <2>4 DEF ListJobs
    <3>3. edits = 0 => Dispatchable = Jobs
      BY DEF Dispatchable, FanInv
    <3>4. h.accepted \subseteq Jobs
      BY <2>0 DEF Handler
    <3> HIDE DEF k, b
    <3>5. QED
      BY <2>0, <3>1, <3>2, <3>3, <3>4, FanStep DEF HandlerOK
  <2>5. CASE CallQuota(q)
    <3> DEFINE k == [h EXCEPT !.day = today, !.pc = "commit"]
    <3>1. /\ k.pc = "commit" /\ k.job = h.job /\ k.accepted = h.accepted
          /\ k.todo = h.todo /\ k.reply = h.reply
      BY <2>0 DEF Handler
    <3>2. /\ Become(q, k) /\ h.pc = "call"
          /\ edits' = edits /\ trigger' = trigger /\ jobs' = jobs
      BY <2>5 DEF CallQuota
    <3> HIDE DEF k
    <3>3. QED
      BY <2>0, <3>1, <3>2, FanStep DEF HandlerOK, FanOK
  <2>6. CASE InsertRow(q)
    <3> DEFINE k == [h EXCEPT !.pc = "send", !.day = 0]
               a == [Answer(h, QuotaReply(h.caps, h.day)) EXCEPT !.cause = "quota"]
    <3>1. /\ k.pc = "send" /\ k.job = h.job /\ k.accepted = h.accepted
          /\ k.todo = h.todo /\ k.reply = h.reply
          /\ a.pc = "done" /\ a.reply \in {"429", "503"}
      BY <2>0 DEF Handler, Answer, QuotaReply
    <3>2. /\ Become(q, k) \/ Become(q, a)
          /\ h.pc = "commit"
          /\ edits' = edits /\ trigger' = trigger /\ jobs' = jobs
      BY <2>6 DEF InsertRow
    <3> HIDE DEF k, a
    <3>3. QED
      BY <2>0, <3>1, <3>2, FanStep DEF HandlerOK, FanOK
  <2>7. CASE InsertFails(q) \/ SendFails(q)
    <3> DEFINE k == [Answer(h, "503") EXCEPT !.cause = "call", !.day = 0]
               a == [Answer(h, "503") EXCEPT !.cause = "call"]
    <3>1. k.pc = "done" /\ k.reply = "503" /\ a.pc = "done" /\ a.reply = "503"
      BY <2>0 DEF Handler, Answer
    <3>2. /\ Become(q, k) \/ Become(q, a)
          /\ edits' = edits /\ trigger' = trigger /\ jobs' = jobs
      BY <2>7 DEF InsertFails, SendFails
    <3> HIDE DEF k, a
    <3>3. QED
      BY <3>1, <3>2, FanStep
  <2>8. CASE Send(q)
    <3> DEFINE a == [Answer(h, "200") EXCEPT !.accepted = {h.job}]
               k == [h EXCEPT !.accepted = @ \cup {h.job}, !.job = NoJob, !.pc = "next"]
    <3>1. /\ k.pc = "next" /\ k.todo = h.todo /\ k.accepted = h.accepted \cup {h.job}
          /\ k.reply = h.reply
      BY <2>0 DEF Handler
    <3>2. /\ h.pc = "send"
          /\ edits' = edits /\ trigger' = trigger /\ jobs' = jobs
          /\ q \in LiveTests => Become(q, a)
          /\ q \notin LiveTests => Become(q, k)
      BY <2>8 DEF Send
    <3>3. q \in LiveTests => q \notin Requests
      BY NamesAssumption
    <3> HIDE DEF k, a
    <3>4. QED
      BY <2>0, <3>1, <3>2, <3>3, FanStep DEF HandlerOK, FanOK
  <2>9. CASE FanOutEnds(q)
    <3> DEFINE a == Answer(h, "503")
               b == Answer(h, "200")
    <3>1. /\ a.pc = "done" /\ a.reply = "503"
          /\ b.pc = "done" /\ b.accepted = h.accepted
      BY <2>0 DEF Handler, Answer
    <3>2. /\ Become(q, a) \/ Become(q, b)
          /\ h.pc = "next" /\ h.todo = {}
          /\ edits' = edits /\ trigger' = trigger /\ jobs' = jobs
      BY <2>9 DEF FanOutEnds
    <3> HIDE DEF a, b
    <3>3. QED
      BY <2>0, <3>1, <3>2, FanStep DEF FanOK
  <2>10. ASSUME NEW j \in Jobs, NextJob(q, j)
         PROVE  FanInv'
    <3> DEFINE n == [h EXCEPT !.todo = @ \ {j}]
               c == [n EXCEPT !.job = j, !.pc = "call"]
    <3>1. /\ n.pc = "next" /\ n.reply = "none" /\ n.accepted = h.accepted
          /\ n.todo = h.todo \ {j}
          /\ c.pc = "call" /\ c.reply = "none" /\ c.accepted = h.accepted
          /\ c.todo = h.todo \ {j} /\ c.job = j
      BY <2>0, <2>10 DEF NextJob, Handler, HandlerOK
    <3>2. /\ Resolves(j) => Become(q, c)
          /\ ~Resolves(j) => Become(q, n)
          /\ j \in h.todo /\ h.pc = "next"
          /\ edits' = edits /\ trigger' = trigger /\ jobs' = jobs
      BY <2>10 DEF NextJob
    <3>3. edits = 0 => Resolves(j)
      BY DEF Resolves, FanInv
    <3> HIDE DEF n, c
    <3>4. QED
      BY <2>0, <3>1, <3>2, <3>3, FanStep DEF FanOK
  <2>11. ASSUME NEW j \in Jobs, ResolveLiveTest(q, j)
         PROVE  FanInv'
    <3>1. /\ \E k : Become(q, k)
          /\ q \notin Requests
          /\ edits' = edits /\ trigger' = trigger /\ jobs' = jobs
      BY <2>11, NamesAssumption DEF ResolveLiveTest
    <3>2. QED
      BY <3>1, FanStep
  <2>12. QED
    BY <1>3, <2>1, <2>2, <2>3, <2>4, <2>5, <2>6, <2>7, <2>8, <2>9, <2>10, <2>11 DEF Proceed
<1>4. ASSUME NEW q \in Callers, ApiRestart(q)
      PROVE  FanInv'
  <2> DEFINE k == Answer(req[q], "lost")
  <2>1. k.pc = "done" /\ k.reply = "lost"
    BY DEF Answer, TypeInv, TypeOK, Handler
  <2>2. /\ Become(q, k)
        /\ edits' = edits /\ trigger' = trigger /\ jobs' = jobs
    BY <1>4 DEF ApiRestart
  <2> HIDE DEF k
  <2>3. QED
    BY <2>1, <2>2, FanStep
<1>5. QED
  BY <1>1, <1>2, <1>3, <1>4 DEF Next, vars, Midnight, LimitsChange, JobChanges, DeleteTrigger, Edit

(* The fan-out reaches every dispatchable job: a 200 that no edit overlaps  *)
(* accounts for each job of the trigger, for any number of jobs in any      *)
(* order and any number of other requests.                                  *)
THEOREM FanOutAlwaysComplete == Spec => []FanOutComplete
<1>1. Init => FanInv
  BY DEF Init, FanInv, FanOK, Callers
<1>2. FanInv => FanOutComplete
  BY DEF FanInv, FanOK, FanOutComplete, Dispatchable
<1>3. QED
  BY <1>1, <1>2, NextFanInv, StoreAlways, PTL DEF Spec
=============================================================================
