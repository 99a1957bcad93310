--------------------------- MODULE JobGraphProofs ---------------------------
(* Theorems about JobGraph, for any bodies, editors and readers.            *)
EXTENDS JobGraph, TLAPS, FiniteSetTheorems
(* The requests of the editors: what every field holds, and how far a save   *)
(* that is under way can have come.                                          *)
Request == [pc : {"idle", "job", "stage", "pipeline", "purge", "band", "final", "patch"},
            g : Payloads \cup {Null}, i : Nat, j : Nat,
            to : {"none", "active", "disabled"}, alone : BOOLEAN,
            outcome : {"none", "invalid", "stage conflict", "pipeline conflict",
                       "step conflict", "error", "saved"}]

Size(g, p) == Cardinality(StepsIn(g, p))
At(rq) == rq.g.pipes[rq.i].id

Fits(rq) ==
    rq.pc \notin {"idle", "patch"} =>
      /\ rq.g \in Payloads /\ Valid(rq.g)
      /\ rq.pc \in {"job", "stage"} => rq.i \in 1..Len(rq.g.stages)
      /\ rq.pc \in {"pipeline", "purge", "band", "final"} => rq.i \in 1..Len(rq.g.pipes)
      /\ rq.pc \in {"band", "final"} => rq.j \in 1..Size(rq.g, At(rq))

RequestInv == editor \in [Editors -> Request] /\ \A e \in Editors : Fits(editor[e])

(* What a reader holds is only ever replaced field by field.                 *)
Shaped(q) ==
    /\ q = [pc |-> q.pc, todo |-> q.todo, got |-> q.got, base |-> q.base]
    /\ q.pc \in {"idle", "stages", "level", "resolved"}

ReaderInv ==
    reader = [r \in Readers |-> reader[r]] /\ \A r \in Readers : Shaped(reader[r])

RowsOK ==
    /\ job \in {"none", "active", "disabled", "archived"}
    /\ stageRow \in [Stages -> StageRecord \cup {Null}]
    /\ pipeRow \in [Pipelines -> PipeRecord \cup {Null}]
    /\ stepRow \in [Steps -> RowRecord \cup {Null}]

HistoryOK == settled \in Payloads \cup {Null} /\ halfway \subseteq Payloads
BoundsOK == requests \in 0..MaxRequests /\ faults \in 0..MaxFaults

TypeInv == RowsOK /\ RequestInv /\ ReaderInv /\ HistoryOK /\ BoundsOK

-----------------------------------------------------------------------------
(* Row w of step x has number k of the band: its place in body g, moved up.  *)
Numbered(g, w, x, k) == NthStep(g, w.pipe, k).id = x /\ w.seq = TempBase + k - 1

InBand(g, w, x) == \E k \in 1..Size(g, w.pipe) : Numbered(g, w, x, k)

(* The row waits for its final number in the save rq.                        *)
Moving(rq, w, x) ==
    /\ rq.pc \in {"band", "final"} /\ w.pipe = At(rq)
    /\ \E k \in 1..Size(rq.g, w.pipe) :
          Numbered(rq.g, w, x, k) /\ (rq.pc = "final" => k >= rq.j)

(* A save that is under way answers for the row; what the statements of two  *)
(* saves did in turn is not told apart any more.                             *)
Owns(rq, w, x) ==
    /\ rq.pc \notin {"idle", "patch"}
    /\ rq.alone => Moving(rq, w, x)
    /\ ~rq.alone => InBand(rq.g, w, x)

(* The two phases of a save that nobody overlaps: in the first the rows of   *)
(* the pipeline are steps of the body and those already written are in the   *)
(* band; in the second those not yet written are.                            *)
InPhase(rq, w, x) ==
    w.pipe = At(rq) =>
      /\ rq.pc = "band" =>
            \E k \in 1..Size(rq.g, At(rq)) :
                /\ NthStep(rq.g, At(rq), k).id = x
                /\ k < rq.j => w.seq >= TempBase
      /\ rq.pc = "final" => w.seq >= TempBase \/ w.seq < rq.j

OneAlone ==
    \A e, f \in Editors : Saving(e) /\ Saving(f) /\ e # f => ~editor[e].alone

(* Whoever put a row into the band is at work, or stopped halfway.           *)
BandExplained ==
    \A x \in Present(stepRow) : stepRow[x].seq >= TempBase =>
        \/ \E h \in halfway : InBand(h, stepRow[x], x)
        \/ \E f \in Editors : Owns(editor[f], stepRow[x], x)

PhasesHold ==
    \A e \in Editors : editor[e].alone /\ editor[e].pc \in {"band", "final"} =>
        \A x \in Present(stepRow) : InPhase(editor[e], stepRow[x], x)

CollideInv == OneAlone /\ BandExplained /\ PhasesHold /\ StepsNeverCollide
-----------------------------------------------------------------------------
(* The steps of a pipeline, by sequence.                                     *)

StepRecord == [id : Steps, pipe : Pipelines, seq : Seqs, reads : SUBSET Steps]

UniqueRows(rows) == \A a, b \in rows : a.seq = b.seq => a = b

Earlier(g, p, s) == {t \in StepsIn(g, p) : t.seq < s.seq}

LEMMA StepsAreFew ==
    ASSUME NEW g \in Payloads, NEW p
    PROVE  /\ StepsIn(g, p) \subseteq StepRecord
           /\ IsFiniteSet(StepsIn(g, p))
           /\ Size(g, p) \in Nat /\ Size(g, p) < TempBase
<1> DEFINE D == {j \in DOMAIN g.steps : g.steps[j].pipe = p}
           f == [i \in D |-> g.steps[i]]
<1>1. g.steps \in Seq(StepRecord)
    BY PayloadAssumption DEF Payload, StepRecord
<1>2. DOMAIN g.steps = 1..Len(g.steps) /\ Len(g.steps) \in Nat
    BY <1>1
<1>3. /\ IsFiniteSet(1..Len(g.steps))
      /\ Cardinality(1..Len(g.steps)) = Len(g.steps)
    BY <1>2, FS_Interval
<1>4. /\ IsFiniteSet(D) /\ Cardinality(D) <= Len(g.steps) /\ Cardinality(D) \in Nat
    <2>1. D \in SUBSET (1..Len(g.steps))
        BY <1>2
    <2> HIDE DEF D
    <2> QED BY <1>3, <2>1, FS_Subset, FS_CardinalityType
<1>5. StepsIn(g, p) = {f[i] : i \in D}
    BY DEF StepsIn, StepsAt
<1>6. f \in Surjection(D, StepsIn(g, p))
    <2>1. f \in [D -> StepsIn(g, p)]
        BY <1>5
    <2>2. \A s \in StepsIn(g, p) : \E i \in D : f[i] = s
        BY <1>5
    <2> QED BY <2>1, <2>2 DEF Surjection
<1>7. StepsIn(g, p) \subseteq StepRecord
    BY <1>1, <1>2 DEF StepsIn, StepsAt
<1> HIDE DEF D, f
<1>8. IsFiniteSet(StepsIn(g, p)) /\ Cardinality(StepsIn(g, p)) <= Cardinality(D)
    BY <1>4, <1>6, FS_Surjection
<1>9. Cardinality(StepsIn(g, p)) \in Nat
    BY <1>8, FS_CardinalityType
<1>10. Len(g.steps) < TempBase /\ TempBase \in Nat
    BY BaseAssumption
<1> QED BY <1>2, <1>4, <1>7, <1>8, <1>9, <1>10 DEF Size

LEMMA RankIsBelow ==
    ASSUME NEW g \in Payloads, NEW p, NEW s \in StepsIn(g, p)
    PROVE  Cardinality(Earlier(g, p, s)) \in 0..(Size(g, p) - 1)
<1>1. /\ IsFiniteSet(StepsIn(g, p)) /\ Size(g, p) \in Nat
      /\ StepsIn(g, p) \subseteq StepRecord
    BY StepsAreFew
<1>2. Earlier(g, p, s) \in SUBSET StepsIn(g, p)
    BY DEF Earlier
<1>3. s.seq \in Nat
    BY <1>1, BaseAssumption DEF StepRecord, Seqs
<1>4. s \notin Earlier(g, p, s)
    BY <1>3 DEF Earlier
<1>5. /\ IsFiniteSet(Earlier(g, p, s))
      /\ Cardinality(Earlier(g, p, s)) <= Size(g, p)
      /\ Size(g, p) = Cardinality(Earlier(g, p, s)) => StepsIn(g, p) = Earlier(g, p, s)
    BY <1>1, <1>2, FS_Subset DEF Size
<1>6. Cardinality(Earlier(g, p, s)) \in Nat
    BY <1>5, FS_CardinalityType
<1>7. Cardinality(Earlier(g, p, s)) # Size(g, p)
    BY <1>4, <1>5
<1> QED BY <1>1, <1>5, <1>6, <1>7

LEMMA RankGrows ==
    ASSUME NEW g \in Payloads, NEW p, NEW s \in StepsIn(g, p), NEW t \in StepsIn(g, p),
           s.seq < t.seq
    PROVE  Cardinality(Earlier(g, p, s)) < Cardinality(Earlier(g, p, t))
<1>1. /\ IsFiniteSet(StepsIn(g, p)) /\ StepsIn(g, p) \subseteq StepRecord
    BY StepsAreFew
<1>2. \A x \in StepsIn(g, p) : x.seq \in Nat
    BY <1>1, BaseAssumption DEF StepRecord, Seqs
<1>3. Earlier(g, p, t) \in SUBSET StepsIn(g, p)
    BY DEF Earlier
<1>4. IsFiniteSet(Earlier(g, p, t)) /\ Cardinality(Earlier(g, p, t)) \in Nat
    BY <1>1, <1>3, FS_Subset, FS_CardinalityType
<1>5. Earlier(g, p, s) \in SUBSET Earlier(g, p, t)
    BY <1>2 DEF Earlier
<1>6. s \in Earlier(g, p, t) /\ s \notin Earlier(g, p, s)
    BY <1>2 DEF Earlier
<1>7. /\ IsFiniteSet(Earlier(g, p, s))
      /\ Cardinality(Earlier(g, p, s)) <= Cardinality(Earlier(g, p, t))
      /\ Cardinality(Earlier(g, p, t)) = Cardinality(Earlier(g, p, s))
            => Earlier(g, p, t) = Earlier(g, p, s)
    BY <1>4, <1>5, FS_Subset
<1>8. Cardinality(Earlier(g, p, s)) \in Nat
    BY <1>7, FS_CardinalityType
<1> QED BY <1>4, <1>6, <1>7, <1>8

(* No two steps of a valid pipeline have the same rank.                      *)
LEMMA RankIsUnique ==
    ASSUME NEW g \in Payloads, NEW p, UniqueRows(StepsIn(g, p)),
           NEW s \in StepsIn(g, p), NEW t \in StepsIn(g, p),
           Cardinality(Earlier(g, p, s)) = Cardinality(Earlier(g, p, t))
    PROVE  s = t
<1>1. StepsIn(g, p) \subseteq StepRecord
    BY StepsAreFew
<1>2. s.seq \in Nat /\ t.seq \in Nat
    BY <1>1, BaseAssumption DEF StepRecord, Seqs
<1>3. /\ Cardinality(Earlier(g, p, s)) \in Nat
      /\ Cardinality(Earlier(g, p, t)) \in Nat
    BY RankIsBelow
<1>4. ~(s.seq < t.seq) /\ ~(t.seq < s.seq)
    BY <1>3, RankGrows
<1>5. s.seq = t.seq
    BY <1>2, <1>4
<1> QED BY <1>5 DEF UniqueRows

(* The k-th step exists, for every number up to the count of the steps ...   *)
LEMMA NthStepIsThere ==
    ASSUME NEW g \in Payloads, NEW p, UniqueRows(StepsIn(g, p)),
           NEW k \in 1..Size(g, p)
    PROVE  /\ NthStep(g, p, k) \in StepsIn(g, p)
           /\ Cardinality(Earlier(g, p, NthStep(g, p, k))) = k - 1
<1> DEFINE S == StepsIn(g, p)
           n == Size(g, p)
           f == [s \in S |-> Cardinality(Earlier(g, p, s))]
<1>1. IsFiniteSet(S) /\ n \in Nat /\ n = Cardinality(S)
    BY StepsAreFew DEF Size
<1>2. /\ IsFiniteSet(0..(n - 1))
      /\ Cardinality(0..(n - 1)) = n
    <2>1. n - 1 \in Int /\ 0 \in Int /\ k \in 1..n
        BY <1>1
    <2>2. /\ IsFiniteSet(0..(n - 1))
          /\ Cardinality(0..(n - 1)) = IF 0 > n - 1 THEN 0 ELSE (n - 1) - 0 + 1
        BY <2>1, FS_Interval
    <2> QED BY <2>1, <2>2, <1>1
<1>3. f \in [S -> 0..(n - 1)]
    BY RankIsBelow
<1>4. \A s, t \in S : f[s] = f[t] => s = t
    BY RankIsUnique
<1>5. f \in Injection(S, 0..(n - 1))
    BY <1>3, <1>4 DEF Injection, IsInjective
<1> HIDE DEF S, n, f
<1>6. f \in Surjection(S, 0..(n - 1))
    BY <1>1, <1>2, <1>5, FS_Injection
<1>7. k - 1 \in 0..(n - 1)
    BY <1>1 DEF n
<1>8. \E s \in S : f[s] = k - 1
    BY <1>6, <1>7 DEF Surjection
<1>9. \E s \in StepsIn(g, p) : Cardinality({t \in StepsIn(g, p) : t.seq < s.seq}) = k - 1
    BY <1>8 DEF S, f, Earlier
<1> QED BY <1>9 DEF NthStep, Earlier

(* ... and every step has a number.                                          *)
LEMMA EveryStepIsNth ==
    ASSUME NEW g \in Payloads, NEW p, UniqueRows(StepsIn(g, p)),
           NEW s \in StepsIn(g, p)
    PROVE  \E k \in 1..Size(g, p) : NthStep(g, p, k) = s
<1>1. PICK m \in 0..(Size(g, p) - 1) : m = Cardinality(Earlier(g, p, s))
    BY RankIsBelow
<1>2. Size(g, p) \in Nat
    BY StepsAreFew
<1>3. m + 1 \in 1..Size(g, p) /\ (m + 1) - 1 = m
    BY <1>2
<1>4. /\ NthStep(g, p, m + 1) \in StepsIn(g, p)
      /\ Cardinality(Earlier(g, p, NthStep(g, p, m + 1))) = m
    BY <1>3, NthStepIsThere
<1>5. NthStep(g, p, m + 1) = s
    BY <1>1, <1>4, RankIsUnique
<1> QED BY <1>3, <1>5

-----------------------------------------------------------------------------
(* Types.                                                                    *)

LEMMA TypeInvIsTyped == TypeInv => TypeOK
<1> SUFFICES ASSUME TypeInv PROVE TypeOK
    OBVIOUS
<1> USE DEF TypeInv
<1>1. ASSUME NEW e \in Editors
      PROVE  /\ editor[e].pc \in {"idle", "job", "stage", "pipeline", "purge", "band",
                                  "final", "patch"}
             /\ editor[e].g \in Payloads \cup {Null}
             /\ Saving(e) => /\ editor[e].g # Null
                             /\ editor[e].i \in 1..Len(editor[e].g.stages)
                                              \cup 1..Len(editor[e].g.pipes)
    <2>1. editor[e] \in Request /\ Fits(editor[e])
        BY DEF RequestInv
    <2>2. /\ editor[e].pc \in {"idle", "job", "stage", "pipeline", "purge", "band",
                               "final", "patch"}
          /\ editor[e].g \in Payloads \cup {Null}
        BY <2>1 DEF Request
    <2> QED BY <2>1, <2>2, PayloadAssumption DEF Saving, Fits
<1>2. \A r \in Readers : reader[r].pc \in {"idle", "stages", "level", "resolved"}
    BY DEF ReaderInv, Shaped
<1> QED BY <1>1, <1>2 DEF TypeOK, RowsOK, HistoryOK, BoundsOK,
                         StageRecord, PipeRecord, RowRecord

LEMMA RowOfList == ASSUME NEW S, NEW rows \in Seq(S), NEW i \in 1..Len(rows)
                   PROVE  rows[i] \in S
    OBVIOUS

(* What a valid body has at least.                                           *)
LEMMA ValidIsFull ==
    ASSUME NEW g \in Payloads, Valid(g)
    PROVE  /\ Len(g.stages) \in Nat /\ Len(g.pipes) \in Nat
           /\ 1 \in 1..Len(g.stages) /\ 1 \in 1..Len(g.pipes)
           /\ \A i \in 1..Len(g.stages) :
                 g.stages[i].id \in Stages /\ g.stages[i].seq \in Seqs
           /\ \A i \in 1..Len(g.pipes) :
                 /\ g.pipes[i].id \in Pipelines
                 /\ g.pipes[i].stage \in Stages /\ g.pipes[i].seq \in Seqs
                 /\ UniqueRows(StepsIn(g, g.pipes[i].id))
                 /\ 1 \in 1..Size(g, g.pipes[i].id)
<1>1. /\ g.stages \in Seq([id : Stages, seq : Seqs])
      /\ g.pipes \in Seq([id : Pipelines, stage : Stages, seq : Seqs])
    BY PayloadAssumption DEF Payload
<1>2. /\ Len(g.stages) \in Nat /\ DOMAIN g.stages = 1..Len(g.stages)
      /\ Len(g.pipes) \in Nat /\ DOMAIN g.pipes = 1..Len(g.pipes)
    BY <1>1
<1>3. 1 \in 1..Len(g.stages)
    BY <1>1, <1>2 DEF Valid
<1>4. 1 \in 1..Len(g.pipes)
    <2>1. g.stages[1].id \in Ids(g.stages)
        BY <1>2, <1>3 DEF Ids
    <2>2. PipesAt(g, g.stages[1].id) # {}
        BY <2>1 DEF Valid
    <2>3. DOMAIN g.pipes # {}
        BY <2>2 DEF PipesAt
    <2> QED BY <1>2, <2>3
<1>5. ASSUME NEW i \in 1..Len(g.stages)
      PROVE  g.stages[i].id \in Stages /\ g.stages[i].seq \in Seqs
    <2>1. g.stages[i] \in [id : Stages, seq : Seqs]
        BY <1>1, RowOfList
    <2> QED BY <2>1
<1>6. ASSUME NEW i \in 1..Len(g.pipes)
      PROVE  /\ g.pipes[i].id \in Pipelines
             /\ g.pipes[i].stage \in Stages /\ g.pipes[i].seq \in Seqs
             /\ UniqueRows(StepsIn(g, g.pipes[i].id))
             /\ 1 \in 1..Size(g, g.pipes[i].id)
    <2>1. g.pipes[i].id \in Ids(g.pipes)
        BY <1>2 DEF Ids
    <2>2. StepsIn(g, g.pipes[i].id) # {} /\ UniqueRows(StepsIn(g, g.pipes[i].id))
        <3>1. PICK at : at = StepsAt(g, g.pipes[i].id)
            OBVIOUS
        <3>2. at # {} /\ UniqueSeqs(g.steps, at)
            BY <2>1, <3>1 DEF Valid
        <3>3. StepsIn(g, g.pipes[i].id) = {g.steps[k] : k \in at}
            BY <3>1 DEF StepsIn
        <3> QED BY <3>2, <3>3 DEF UniqueSeqs, UniqueRows
    <2>3. IsFiniteSet(StepsIn(g, g.pipes[i].id)) /\ Size(g, g.pipes[i].id) \in Nat
        BY StepsAreFew
    <2>4. Size(g, g.pipes[i].id) # 0
        BY <2>2, <2>3, FS_EmptySet DEF Size
    <2>5. g.pipes[i] \in [id : Pipelines, stage : Stages, seq : Seqs]
        BY <1>1, RowOfList
    <2> QED BY <2>2, <2>3, <2>4, <2>5
<1> QED BY <1>2, <1>3, <1>4, <1>5, <1>6

LEMMA EditorMoves ==
    ASSUME RequestInv, NEW e \in Editors, NEW q \in Request, Fits(q),
           editor' = [editor EXCEPT ![e] = q]
    PROVE  RequestInv'
<1>1. editor' \in [Editors -> Request]
    BY DEF RequestInv
<1>2. \A f \in Editors : editor'[f] = IF f = e THEN q ELSE editor[f]
    BY DEF RequestInv
<1>3. \A f \in Editors : Fits(editor'[f])
    BY <1>2 DEF RequestInv
<1> QED BY <1>1, <1>3 DEF RequestInv

(* A request that ended holds no place in its body.                          *)
LEMMA FailureFits ==
    ASSUME TypeInv, NEW e \in Editors, Saving(e), NEW outcome \in
               {"stage conflict", "pipeline conflict", "step conflict", "error"},
           Fail(e, outcome)
    PROVE  /\ RequestInv' /\ HistoryOK'
           /\ editor'[e] = [editor[e] EXCEPT !.pc = "idle", !.outcome = outcome]
           /\ \A f \in Editors \ {e} : editor'[f] = editor[f]
<1>1. editor[e] \in Request /\ Fits(editor[e])
    BY DEF TypeInv, RequestInv
<1>2. PICK q : q = [editor[e] EXCEPT !.pc = "idle", !.outcome = outcome]
    OBVIOUS
<1>3. q \in Request /\ q.pc = "idle"
    BY <1>1, <1>2 DEF Request
<1>4. editor' = [editor EXCEPT ![e] = q]
    BY <1>2 DEF Fail, TypeInv, RequestInv
<1>5. RequestInv'
    BY <1>3, <1>4, EditorMoves DEF TypeInv, Fits
<1>6. editor[e].g \in Payloads
    BY <1>1 DEF Fits, Saving
<1>7. HistoryOK'
    BY <1>6 DEF Fail, TypeInv, HistoryOK
<1> QED BY <1>2, <1>4, <1>5, <1>7 DEF TypeInv, RequestInv

(* Where a request stands after it has written a step.                       *)
LEMMA AfterStepFits ==
    ASSUME NEW rq \in Request, Fits(rq), rq.pc \in {"band", "final"}
    PROVE  AfterStep(rq) \in Request /\ Fits(AfterStep(rq))
<1>1. /\ rq.g \in Payloads /\ Valid(rq.g)
      /\ rq.i \in 1..Len(rq.g.pipes) /\ rq.j \in 1..Size(rq.g, At(rq))
    BY DEF Fits
<1>2. Len(rq.g.pipes) \in Nat /\ Size(rq.g, At(rq)) \in Nat
    BY <1>1, ValidIsFull, StepsAreFew
<1>7. rq.i \in Nat /\ rq.j \in Nat
    BY DEF Request
<1>3. CASE rq.j < Size(rq.g, At(rq))
    <2>1. PICK q : q = [rq EXCEPT !.j = @ + 1]
        OBVIOUS
    <2>2. /\ q.pc = rq.pc /\ q.g = rq.g /\ q.i = rq.i /\ q.j = rq.j + 1
          /\ q \in Request
        <3>1. rq.j + 1 \in Nat
            BY <1>7
        <3> QED BY <2>1, <3>1 DEF Request
    <2>3. AfterStep(rq) = q
        BY <2>1, <1>3 DEF AfterStep, Size, At
    <2> QED BY <2>2, <2>3, <1>1, <1>2, <1>3 DEF Fits, At
<1>4. CASE ~(rq.j < Size(rq.g, At(rq))) /\ rq.pc = "band"
    <2>1. PICK q : q = [rq EXCEPT !.pc = "final", !.j = 1]
        OBVIOUS
    <2>2. /\ q \in Request /\ q.pc = "final" /\ q.g = rq.g /\ q.i = rq.i /\ q.j = 1
        BY <2>1 DEF Request
    <2>3. AfterStep(rq) = q
        BY <2>1, <1>4 DEF AfterStep, Size, At
    <2> QED BY <2>2, <2>3, <1>1, <1>2 DEF Fits, At
<1>5. CASE ~(rq.j < Size(rq.g, At(rq))) /\ rq.pc # "band" /\ rq.i < Len(rq.g.pipes)
    <2>1. PICK q : q = [rq EXCEPT !.pc = "pipeline", !.i = @ + 1]
        OBVIOUS
    <2>2. /\ q.pc = "pipeline" /\ q.g = rq.g /\ q.i = rq.i + 1
          /\ q \in Request
        <3>1. rq.i + 1 \in Nat
            BY <1>7
        <3> QED BY <2>1, <3>1 DEF Request
    <2>3. AfterStep(rq) = q
        BY <2>1, <1>5 DEF AfterStep, Size, At
    <2> QED BY <2>2, <2>3, <1>1, <1>2, <1>5 DEF Fits
<1>6. CASE ~(rq.j < Size(rq.g, At(rq))) /\ rq.pc # "band" /\ ~(rq.i < Len(rq.g.pipes))
    <2>1. PICK q : q = [rq EXCEPT !.pc = "idle", !.outcome = "saved"]
        OBVIOUS
    <2>2. q \in Request /\ q.pc = "idle"
        BY <2>1 DEF Request
    <2>3. AfterStep(rq) = q
        BY <2>1, <1>6 DEF AfterStep, Size, At
    <2> QED BY <2>2, <2>3 DEF Fits
<1> QED BY <1>3, <1>4, <1>5, <1>6

LEMMA ReaderMoves ==
    ASSUME ReaderInv, NEW r \in Readers, NEW q, Shaped(q),
           reader' = [reader EXCEPT ![r] = q]
    PROVE  ReaderInv'
<1>1. reader' = [x \in Readers |-> reader'[x]]
    BY DEF ReaderInv
<1>2. \A x \in Readers : reader'[x] = IF x = r THEN q ELSE reader[x]
    BY DEF ReaderInv
<1>3. \A x \in Readers : Shaped(reader'[x])
    BY <1>2 DEF ReaderInv
<1> QED BY <1>1, <1>3 DEF ReaderInv

LEMMA ReadsKeepTypes ==
    ASSUME TypeInv, NEW r \in Readers, Read(r)
    PROVE  TypeInv'
<1> USE DEF TypeInv
<1>1. Shaped(reader[r]) /\ reader = [x \in Readers |-> reader[x]]
    BY DEF ReaderInv
<1>2. UNCHANGED <<tables, editor, requests, faults, history>>
    BY DEF Read, ReadJob, ReadStages, ReadPipelines, ReadSteps, Resolved, Forget
<1>3. RowsOK' /\ RequestInv' /\ HistoryOK' /\ BoundsOK'
    BY <1>2 DEF tables, history, RowsOK, RequestInv, HistoryOK, BoundsOK
<1>4. CASE ReadJob(r)
    <2>1. PICK q : q = [NoRead EXCEPT !.pc = "stages", !.base = settled]
        OBVIOUS
    <2>2. Shaped(q)
        BY <2>1 DEF Shaped, NoRead
    <2>3. reader' = [reader EXCEPT ![r] = q]
        BY <1>4, <2>1 DEF ReadJob
    <2> QED BY <2>2, <2>3, <1>3, ReaderMoves
<1>5. CASE ReadStages(r)
    <2>1. PICK t : reader' = [reader EXCEPT ![r].pc = "level", ![r].todo = t]
        BY <1>5 DEF ReadStages
    <2>2. PICK q : q = [reader[r] EXCEPT !.pc = "level", !.todo = t]
        OBVIOUS
    <2>3. Shaped(q)
        BY <1>1, <2>2 DEF Shaped
    <2>4. reader' = [reader EXCEPT ![r] = q]
        BY <1>1, <2>1, <2>2
    <2> QED BY <2>3, <2>4, <1>3, ReaderMoves
<1>6. CASE ReadPipelines(r)
    <2>1. PICK t : reader' = [reader EXCEPT ![r].todo = t]
        BY <1>1, <1>6 DEF ReadPipelines
    <2>2. PICK q : q = [reader[r] EXCEPT !.todo = t]
        OBVIOUS
    <2>3. Shaped(q)
        BY <1>1, <2>2 DEF Shaped
    <2>4. reader' = [reader EXCEPT ![r] = q]
        BY <1>1, <2>1, <2>2
    <2> QED BY <2>3, <2>4, <1>3, ReaderMoves
<1>7. CASE ReadSteps(r)
    <2>1. PICK t, u : reader' = [reader EXCEPT ![r].todo = t, ![r].got = u]
        BY <1>1, <1>7 DEF ReadSteps
    <2>2. PICK q : q = [reader[r] EXCEPT !.todo = t, !.got = u]
        OBVIOUS
    <2>3. Shaped(q)
        BY <1>1, <2>2 DEF Shaped
    <2>4. reader' = [reader EXCEPT ![r] = q]
        BY <1>1, <2>1, <2>2
    <2> QED BY <2>3, <2>4, <1>3, ReaderMoves
<1>8. CASE Resolved(r)
    <2>1. PICK q : q = [reader[r] EXCEPT !.pc = "resolved"]
        OBVIOUS
    <2>2. Shaped(q)
        BY <1>1, <2>1 DEF Shaped
    <2>3. reader' = [reader EXCEPT ![r] = q]
        BY <1>1, <1>8, <2>1 DEF Resolved
    <2> QED BY <2>2, <2>3, <1>3, ReaderMoves
<1>9. CASE Forget(r)
    <2>1. Shaped(NoRead)
        BY DEF Shaped, NoRead
    <2>2. reader' = [reader EXCEPT ![r] = NoRead]
        BY <1>9 DEF Forget
    <2> QED BY <2>1, <2>2, <1>3, ReaderMoves
<1> QED BY <1>4, <1>5, <1>6, <1>7, <1>8, <1>9 DEF Read

(* The bodies and rows of the requests that write.                           *)
LEMMA StartKeepsTypes ==
    ASSUME TypeInv, NEW e \in Editors, NEW g \in Payloads, StartSave(e, g)
    PROVE  TypeInv'
<1> USE DEF TypeInv
<1>1. RowsOK'
    BY DEF StartSave, tables, RowsOK
<1>2. BoundsOK'
    <2>1. requests < MaxRequests /\ requests' = requests + 1 /\ faults' = faults
        BY DEF StartSave
    <2> QED BY <2>1, BoundAssumption DEF BoundsOK
<1>3. NoRequest \in Request /\ NoRequest.pc = "idle"
    BY DEF NoRequest, Request
<1>4. CASE Valid(g)
    <2>1. PICK b \in BOOLEAN : b = (Overlapping(e) = {})
        BY Zenon
    <2>2. PICK q : q = [NoRequest EXCEPT !.pc = "job", !.g = g, !.alone = b]
        OBVIOUS
    <2>3. q \in Request
        BY <2>2 DEF NoRequest, Request
    <2>4. q.g = g /\ q.i = 1 /\ q.pc = "job"
        BY <2>2 DEF NoRequest
    <2>5. Fits(q)
        BY <1>4, <2>4, ValidIsFull DEF Fits
    <2>6. editor' = [f \in Editors |-> IF f = e THEN q
                                       ELSE [editor[f] EXCEPT !.alone = @ /\ ~Saving(f)]]
        BY <1>4, <2>1, <2>2 DEF StartSave
    <2>7. ASSUME NEW f \in Editors
          PROVE  editor'[f] \in Request /\ Fits(editor'[f])
        <3>1. CASE f = e
            BY <2>3, <2>5, <2>6, <3>1
        <3>2. CASE f # e
            <4>1. editor[f] \in Request /\ Fits(editor[f])
                BY DEF RequestInv
            <4>2. PICK c \in BOOLEAN : c = (editor[f].alone /\ ~Saving(f))
                BY Zenon
            <4>3. PICK w : w = [editor[f] EXCEPT !.alone = c]
                OBVIOUS
            <4>4. /\ w \in Request
                  /\ w.pc = editor[f].pc /\ w.g = editor[f].g
                  /\ w.i = editor[f].i /\ w.j = editor[f].j
                BY <4>1, <4>3 DEF Request
            <4>5. editor'[f] = [editor[f] EXCEPT !.alone = editor[f].alone /\ ~Saving(f)]
                BY <2>6, <3>2
            <4>6. editor'[f] = w
                BY <4>2, <4>3, <4>5
            <4>7. Fits(w)
                BY <4>1, <4>4 DEF Fits, At
            <4> QED BY <4>4, <4>6, <4>7
        <3> QED BY <3>1, <3>2
    <2>8. RequestInv'
        <3>1. editor' = [f \in Editors |-> editor'[f]]
            BY <2>6
        <3>2. editor' \in [Editors -> Request]
            BY <2>7, <3>1
        <3> QED BY <2>7, <3>2 DEF RequestInv
    <2>9. ReaderInv'
        <3>1. reader' = [r \in Readers |-> [reader[r] EXCEPT !.base = Null]]
            BY <1>4 DEF StartSave
        <3>2. \A r \in Readers : Shaped(reader'[r])
            BY <3>1 DEF ReaderInv, Shaped
        <3> QED BY <3>1, <3>2 DEF ReaderInv
    <2>10. HistoryOK'
        BY <1>4 DEF StartSave, HistoryOK
    <2> QED BY <1>1, <1>2, <2>8, <2>9, <2>10
<1>5. CASE ~Valid(g)
    <2>1. PICK q : q = [NoRequest EXCEPT !.outcome = "invalid"]
        OBVIOUS
    <2>2. q \in Request /\ q.pc = "idle"
        BY <2>1 DEF NoRequest, Request
    <2>3. editor' = [editor EXCEPT ![e] = q]
        BY <1>5, <2>1 DEF StartSave
    <2>4. RequestInv'
        BY <2>2, <2>3, EditorMoves DEF Fits
    <2>5. ReaderInv' /\ HistoryOK'
        BY <1>5 DEF StartSave, ReaderInv, HistoryOK
    <2> QED BY <1>1, <1>2, <2>4, <2>5
<1> QED BY <1>4, <1>5

(* A step of a save either ends the request, or stores a row and goes on.    *)
LEMMA JobKeepsTypes ==
    ASSUME TypeInv, NEW e \in Editors, WriteJob(e)
    PROVE  TypeInv'
<1> USE DEF TypeInv
<1>1. editor[e] \in Request /\ Fits(editor[e]) /\ editor[e].pc = "job"
    BY DEF RequestInv, WriteJob
<1>2. PICK q : q = [editor[e] EXCEPT !.pc = "stage"]
    OBVIOUS
<1>3. q \in Request /\ q.pc = "stage" /\ q.g = editor[e].g /\ q.i = editor[e].i
    BY <1>1, <1>2 DEF Request
<1>4. Fits(q)
    BY <1>1, <1>3 DEF Fits
<1>5. editor' = [editor EXCEPT ![e] = q]
    BY <1>2 DEF WriteJob, Continue
<1>6. RequestInv'
    BY <1>3, <1>4, <1>5, EditorMoves
<1> QED BY <1>6 DEF WriteJob, Continue, history, RowsOK, ReaderInv, HistoryOK, BoundsOK

LEMMA StageKeepsTypes ==
    ASSUME TypeInv, NEW e \in Editors, WriteStage(e)
    PROVE  TypeInv'
<1> USE DEF TypeInv
<1> DEFINE rq == editor[e]
           s == rq.g.stages[rq.i]
           row == [seq |-> s.seq]
<1>1. rq \in Request /\ Fits(rq) /\ rq.pc = "stage"
    BY DEF RequestInv, WriteStage
<1>2. /\ rq.g \in Payloads /\ Valid(rq.g) /\ rq.i \in 1..Len(rq.g.stages)
    BY <1>1 DEF Fits
<1>3. s.id \in Stages /\ s.seq \in Seqs /\ 1 \in 1..Len(rq.g.pipes)
    BY <1>2, ValidIsFull
<1>4. ReaderInv' /\ BoundsOK'
    BY DEF WriteStage, ReaderInv, BoundsOK
<1>5. CASE Clash(stageRow, s.id, row)
    <2>1. Fail(e, "stage conflict")
        BY <1>5 DEF WriteStage
    <2>2. RequestInv' /\ HistoryOK'
        BY <1>1, <2>1, FailureFits DEF Saving
    <2>3. RowsOK'
        BY <2>1 DEF Fail, tables, RowsOK
    <2> QED BY <1>4, <2>2, <2>3
<1>6. CASE ~Clash(stageRow, s.id, row)
    <2>1. /\ stageRow' = [stageRow EXCEPT ![s.id] = row]
          /\ Continue(e, IF rq.i < Len(rq.g.stages) THEN [rq EXCEPT !.i = @ + 1]
                         ELSE [rq EXCEPT !.pc = "pipeline", !.i = 1])
          /\ UNCHANGED <<job, pipeRow, stepRow>>
        BY <1>6 DEF WriteStage
    <2>2. RowsOK'
        <3>1. row \in StageRecord
            BY <1>3 DEF StageRecord
        <3> HIDE DEF row
        <3> QED BY <1>3, <2>1, <3>1 DEF RowsOK
    <2>3. HistoryOK'
        BY <2>1 DEF Continue, history, HistoryOK
    <2>4. RequestInv'
        <3>1. rq.i \in Nat /\ Len(rq.g.stages) \in Nat
            BY <1>1, <1>2, ValidIsFull DEF Request
        <3>2. CASE rq.i < Len(rq.g.stages)
            <4>1. PICK q : q = [rq EXCEPT !.i = @ + 1]
                OBVIOUS
            <4>2. /\ q.pc = "stage" /\ q.g = rq.g /\ q.i = rq.i + 1
                  /\ q \in Request
                <5>1. rq.i + 1 \in Nat
                    BY <3>1
                <5> HIDE DEF rq
                <5> QED BY <1>1, <4>1, <5>1 DEF Request
            <4>3. Fits(q)
                BY <1>2, <3>1, <3>2, <4>2 DEF Fits
            <4>4. editor' = [editor EXCEPT ![e] = q]
                BY <2>1, <3>2, <4>1 DEF Continue
            <4> QED BY <4>2, <4>3, <4>4, EditorMoves
        <3>3. CASE ~(rq.i < Len(rq.g.stages))
            <4>1. PICK q : q = [rq EXCEPT !.pc = "pipeline", !.i = 1]
                OBVIOUS
            <4>2. /\ q.pc = "pipeline" /\ q.g = rq.g /\ q.i = 1
                  /\ q \in Request
                BY <1>1, <4>1 DEF Request
            <4>3. Fits(q)
                BY <1>2, <1>3, <4>2 DEF Fits
            <4>4. editor' = [editor EXCEPT ![e] = q]
                BY <2>1, <3>3, <4>1 DEF Continue
            <4> QED BY <4>2, <4>3, <4>4, EditorMoves
        <3> QED BY <3>2, <3>3
    <2> QED BY <1>4, <2>2, <2>3, <2>4
<1> QED BY <1>5, <1>6

LEMMA PipelineKeepsTypes ==
    ASSUME TypeInv, NEW e \in Editors, WritePipeline(e)
    PROVE  TypeInv'
<1> USE DEF TypeInv
<1> DEFINE rq == editor[e]
           p == rq.g.pipes[rq.i]
           row == [stage |-> p.stage, seq |-> p.seq]
<1>1. rq \in Request /\ Fits(rq) /\ rq.pc = "pipeline"
    BY DEF RequestInv, WritePipeline
<1>2. /\ rq.g \in Payloads /\ Valid(rq.g) /\ rq.i \in 1..Len(rq.g.pipes)
    BY <1>1 DEF Fits
<1>3. p.id \in Pipelines /\ p.stage \in Stages /\ p.seq \in Seqs
    BY <1>2, ValidIsFull
<1>4. ReaderInv' /\ BoundsOK'
    BY DEF WritePipeline, ReaderInv, BoundsOK
<1>5. CASE Clash(pipeRow, p.id, row)
    <2>1. Fail(e, "pipeline conflict")
        BY <1>5 DEF WritePipeline
    <2>2. RequestInv' /\ HistoryOK'
        BY <1>1, <2>1, FailureFits DEF Saving
    <2>3. RowsOK'
        BY <2>1 DEF Fail, tables, RowsOK
    <2> QED BY <1>4, <2>2, <2>3
<1>6. CASE ~Clash(pipeRow, p.id, row)
    <2>1. /\ pipeRow' = [pipeRow EXCEPT ![p.id] = row]
          /\ Continue(e, [rq EXCEPT !.pc = "purge"])
          /\ UNCHANGED <<job, stageRow, stepRow>>
        BY <1>6 DEF WritePipeline
    <2>2. RowsOK'
        <3>1. row \in PipeRecord
            BY <1>3 DEF PipeRecord
        <3> HIDE DEF row
        <3> QED BY <1>3, <2>1, <3>1 DEF RowsOK
    <2>3. HistoryOK'
        BY <2>1 DEF Continue, history, HistoryOK
    <2>4. PICK q : q = [rq EXCEPT !.pc = "purge"]
        OBVIOUS
    <2>5. q \in Request /\ q.pc = "purge" /\ q.g = rq.g /\ q.i = rq.i
        BY <1>1, <2>4 DEF Request
    <2>6. Fits(q)
        BY <1>2, <2>5 DEF Fits
    <2>7. editor' = [editor EXCEPT ![e] = q]
        BY <2>1, <2>4 DEF Continue
    <2>8. RequestInv'
        BY <2>5, <2>6, <2>7, EditorMoves
    <2> QED BY <1>4, <2>2, <2>3, <2>8
<1> QED BY <1>5, <1>6

LEMMA DeleteKeepsTypes ==
    ASSUME TypeInv, NEW e \in Editors, DeleteOrphans(e)
    PROVE  /\ TypeInv'
           /\ editor'[e].pc = "band" /\ editor'[e].j = 1
           /\ editor'[e].g = editor[e].g /\ editor'[e].i = editor[e].i
           /\ editor'[e].alone = editor[e].alone
           /\ editor'[e].outcome = editor[e].outcome
           /\ \A f \in Editors \ {e} : editor'[f] = editor[f]
<1> USE DEF TypeInv
<1> DEFINE rq == editor[e]
<1>1. rq \in Request /\ Fits(rq) /\ rq.pc = "purge"
    BY DEF RequestInv, DeleteOrphans
<1>2. /\ rq.g \in Payloads /\ Valid(rq.g) /\ rq.i \in 1..Len(rq.g.pipes)
    BY <1>1 DEF Fits
<1>3. 1 \in 1..Size(rq.g, At(rq))
    BY <1>2, ValidIsFull DEF At
<1>4. ReaderInv' /\ BoundsOK' /\ HistoryOK'
    BY DEF DeleteOrphans, Continue, history, ReaderInv, BoundsOK, HistoryOK
<1>5. RowsOK'
    <2>1. PICK gone \in SUBSET Steps :
             stepRow' = [x \in Steps |-> IF x \in gone THEN Null ELSE stepRow[x]]
        <3> DEFINE p == rq.g.pipes[rq.i].id
                   w == {s.id : s \in StepsIn(rq.g, p)}
        <3>1. stepRow' = [x \in Steps |->
                  IF x \in Present(stepRow) \ w /\ stepRow[x].pipe = p THEN Null
                  ELSE stepRow[x]]
            BY DEF DeleteOrphans
        <3> HIDE DEF w, p
        <3>2. PICK gone \in SUBSET Steps :
                 gone = {x \in Steps : x \in Present(stepRow) \ w /\ stepRow[x].pipe = p}
            OBVIOUS
        <3>3. stepRow' = [x \in Steps |-> IF x \in gone THEN Null ELSE stepRow[x]]
            BY <3>1, <3>2
        <3> QED BY <3>3
    <2> QED BY <2>1 DEF RowsOK, DeleteOrphans
<1>6. PICK q : q = [rq EXCEPT !.pc = "band", !.j = 1]
    OBVIOUS
<1>7. /\ q \in Request
      /\ q.pc = "band" /\ q.g = rq.g /\ q.i = rq.i /\ q.j = 1
      /\ q.alone = rq.alone /\ q.outcome = rq.outcome
    BY <1>1, <1>6 DEF Request
<1>8. Fits(q)
    BY <1>2, <1>3, <1>7 DEF Fits, At
<1>9. editor' = [editor EXCEPT ![e] = q]
    BY <1>6 DEF DeleteOrphans, Continue
<1>10. RequestInv'
    BY <1>7, <1>8, <1>9, EditorMoves
<1>11. editor'[e] = q /\ \A f \in Editors \ {e} : editor'[f] = editor[f]
    BY <1>9 DEF RequestInv
<1> QED BY <1>4, <1>5, <1>7, <1>10, <1>11

(* WriteStep stores one row of the pipeline at hand, or ends the request.    *)
StepId(rq) == NthStep(rq.g, At(rq), rq.j).id

Collides(rq) ==
    \E y \in Present(stepRow) \ {StepId(rq)} :
        stepRow[y].pipe = At(rq) /\ stepRow[y].seq = StepSequence(rq)

RowStored(rq) == [pipe |-> At(rq), seq |-> StepSequence(rq),
                  reads |-> NthStep(rq.g, At(rq), rq.j).reads]

Stores(e, rq) ==
    /\ ~Collides(rq)
    /\ RowStored(rq) \in RowRecord
    /\ stepRow' = [stepRow EXCEPT ![StepId(rq)] = RowStored(rq)]
    /\ editor' = [editor EXCEPT ![e] = AfterStep(rq)]
    /\ settled' = IF AfterStep(rq).outcome = "saved" /\ AfterStep(rq).alone
                  THEN rq.g ELSE settled
    /\ halfway' = IF AfterStep(rq).outcome = "saved" /\ ~AfterStep(rq).alone
                  THEN halfway \cup {rq.g} ELSE halfway

LEMMA WriteStepDoes ==
    ASSUME TypeInv, NEW e \in Editors, WriteStep(e), NEW rq, rq = editor[e]
    PROVE  /\ rq \in Request /\ Fits(rq) /\ rq.pc \in {"band", "final"}
           /\ StepId(rq) \in Steps /\ At(rq) \in Pipelines /\ StepSequence(rq) \in Seqs
           /\ rq.pc = "final" => StepSequence(rq) < TempBase
           /\ UNCHANGED <<job, stageRow, pipeRow, reader, requests, faults>>
           /\ (Fail(e, "step conflict") /\ Collides(rq)) \/ Stores(e, rq)
<1> DEFINE x == StepId(rq)
           n == StepSequence(rq)
<1>1. rq \in Request /\ Fits(rq) /\ rq.pc \in {"band", "final"}
    BY DEF TypeInv, RequestInv, WriteStep
<1>2. /\ rq.g \in Payloads /\ Valid(rq.g)
      /\ rq.i \in 1..Len(rq.g.pipes) /\ rq.j \in 1..Size(rq.g, At(rq))
    BY <1>1 DEF Fits
<1>3. At(rq) \in Pipelines /\ UniqueRows(StepsIn(rq.g, At(rq)))
    BY <1>2, ValidIsFull DEF At
<1>4. PICK s : s = NthStep(rq.g, At(rq), rq.j)
    OBVIOUS
<1>5. s \in StepRecord
    BY <1>2, <1>3, <1>4, NthStepIsThere, StepsAreFew
<1>6. s.id \in Steps /\ s.reads \in SUBSET Steps /\ x = s.id
    BY <1>4, <1>5 DEF StepRecord, StepId
<1>7. /\ Size(rq.g, At(rq)) \in Nat /\ Size(rq.g, At(rq)) < TempBase
      /\ TempBase \in Nat /\ rq.j \in Nat
    BY <1>1, <1>2, StepsAreFew, BaseAssumption DEF Request
<1>8. n = IF rq.pc = "band" THEN TempBase + rq.j - 1 ELSE rq.j
    BY DEF StepSequence
<1>9. n \in Seqs /\ (rq.pc = "final" => n < TempBase)
    BY <1>1, <1>2, <1>7, <1>8 DEF Seqs
<1>10. PICK row : row = [pipe |-> At(rq), seq |-> n, reads |-> s.reads]
    OBVIOUS
<1>11. /\ UNCHANGED <<reader, requests, faults>>
       /\ IF Clash(stepRow, x, row) THEN Fail(e, "step conflict")
          ELSE /\ stepRow' = [stepRow EXCEPT ![x] = row]
               /\ editor' = [editor EXCEPT ![e] = AfterStep(rq)]
               /\ settled' = IF AfterStep(rq).outcome = "saved" /\ AfterStep(rq).alone
                             THEN rq.g ELSE settled
               /\ halfway' = IF AfterStep(rq).outcome = "saved" /\ ~AfterStep(rq).alone
                             THEN halfway \cup {rq.g} ELSE halfway
               /\ UNCHANGED <<job, stageRow, pipeRow>>
    BY <1>4, <1>6, <1>10 DEF WriteStep, At
<1> HIDE DEF x, n
<1>12. CASE Clash(stepRow, x, row)
    <2>1. PICK y \in Present(stepRow) \ {x} :
             \A col \in DOMAIN row \ {"reads"} : stepRow[y][col] = row[col]
        BY <1>12 DEF Clash
    <2>2. "pipe" \in DOMAIN row \ {"reads"} /\ "seq" \in DOMAIN row \ {"reads"}
        BY <1>10
    <2>3. stepRow[y].pipe = At(rq) /\ stepRow[y].seq = n
        BY <1>10, <2>1, <2>2
    <2>4. UNCHANGED <<job, stageRow, pipeRow>>
        BY <1>11, <1>12 DEF Fail, tables
    <2>5. Collides(rq)
        BY <2>1, <2>3 DEF Collides, x, n
    <2> QED BY <1>1, <1>3, <1>6, <1>9, <1>11, <1>12, <2>4, <2>5 DEF x, n
<1>13. CASE ~Clash(stepRow, x, row)
    <2>1. row = RowStored(rq) /\ row \in RowRecord
        BY <1>3, <1>4, <1>6, <1>9, <1>10 DEF RowStored, RowRecord, n
    <2>2. ~Collides(rq)
        <3>1. ASSUME NEW y \in Present(stepRow) \ {x},
                     stepRow[y].pipe = At(rq), stepRow[y].seq = n
              PROVE  FALSE
            <4>1. \A col \in DOMAIN row \ {"reads"} : stepRow[y][col] = row[col]
                BY <1>10, <3>1
            <4> QED BY <1>13, <4>1 DEF Clash
        <3> QED BY <3>1 DEF Collides, x, n
    <2>3. Stores(e, rq)
        BY <1>11, <1>13, <2>1, <2>2 DEF Stores, x
    <2> QED BY <1>1, <1>3, <1>6, <1>9, <1>11, <1>13, <2>3 DEF x, n
<1> QED BY <1>12, <1>13

LEMMA WriteStepKeepsTypes ==
    ASSUME TypeInv, NEW e \in Editors, WriteStep(e)
    PROVE  TypeInv'
<1>1. PICK rq : rq = editor[e]
    OBVIOUS
<1>4. /\ rq \in Request /\ Fits(rq) /\ rq.pc \in {"band", "final"}
      /\ StepId(rq) \in Steps /\ At(rq) \in Pipelines /\ StepSequence(rq) \in Seqs
      /\ UNCHANGED <<job, stageRow, pipeRow, reader, requests, faults>>
      /\ Fail(e, "step conflict") \/ Stores(e, rq)
    BY <1>1, WriteStepDoes
<1> USE DEF TypeInv
<1>5. ReaderInv' /\ BoundsOK'
    BY <1>4 DEF ReaderInv, BoundsOK
<1>6. CASE Fail(e, "step conflict")
    <2>1. RequestInv' /\ HistoryOK'
        BY <1>1, <1>4, <1>6, FailureFits DEF Saving
    <2>2. RowsOK'
        BY <1>6 DEF Fail, tables, RowsOK
    <2> QED BY <1>5, <2>1, <2>2
<1>7. CASE Stores(e, rq)
    <2>1. PICK row \in RowRecord : stepRow' = [stepRow EXCEPT ![StepId(rq)] = row]
        BY <1>7 DEF Stores
    <2>3. RowsOK'
        BY <1>4, <2>1 DEF RowsOK
    <2>4. RequestInv'
        BY <1>4, <1>7, AfterStepFits, EditorMoves DEF Stores
    <2>5. HistoryOK'
        <3>1. rq.g \in Payloads
            BY <1>4 DEF Fits
        <3> QED BY <1>7, <3>1 DEF HistoryOK, Stores
    <2> QED BY <1>5, <2>3, <2>4, <2>5
<1> QED BY <1>4, <1>6, <1>7

LEMMA StatusKeepsTypes ==
    ASSUME TypeInv, NEW e \in Editors, NEW st \in {"active", "disabled"},
           StartPatch(e, st) \/ WriteStatus(e)
    PROVE  TypeInv'
<1> USE DEF TypeInv
<1>1. CASE StartPatch(e, st)
    <2>1. PICK q : q = [NoRequest EXCEPT !.pc = "patch", !.to = st]
        OBVIOUS
    <2>2. q \in Request /\ q.pc = "patch"
        BY <2>1 DEF NoRequest, Request
    <2>3. editor' = [editor EXCEPT ![e] = q]
        BY <1>1, <2>1 DEF StartPatch
    <2>4. RequestInv'
        BY <2>2, <2>3, EditorMoves DEF Fits
    <2>5. requests < MaxRequests /\ requests' = requests + 1 /\ faults' = faults
        BY <1>1 DEF StartPatch
    <2>6. BoundsOK'
        BY <2>5, BoundAssumption DEF BoundsOK
    <2> QED BY <1>1, <2>4, <2>6 DEF StartPatch, tables, history, RowsOK, ReaderInv, HistoryOK
<1>2. CASE WriteStatus(e)
    <2>1. PICK q : q = [NoRequest EXCEPT !.outcome = "saved"]
        OBVIOUS
    <2>2. q \in Request /\ q.pc = "idle"
        BY <2>1 DEF NoRequest, Request
    <2>3. editor' = [editor EXCEPT ![e] = q]
        BY <1>2, <2>1 DEF WriteStatus
    <2>4. RequestInv'
        BY <2>2, <2>3, EditorMoves DEF Fits
    <2>5. job' = editor[e].to /\ editor[e] \in Request
        BY <1>2 DEF WriteStatus, RequestInv
    <2>6. RowsOK'
        BY <1>2, <2>5 DEF WriteStatus, RowsOK, Request
    <2> QED BY <1>2, <2>4, <2>6 DEF WriteStatus, history, ReaderInv, HistoryOK, BoundsOK
<1> QED BY <1>1, <1>2

LEMMA RaiseKeepsTypes ==
    ASSUME TypeInv, NEW e \in Editors, StatementRaises(e)
    PROVE  TypeInv'
<1> USE DEF TypeInv
<1>1. Fail(e, "error") /\ Saving(e)
    BY DEF StatementRaises
<1>2. RequestInv' /\ HistoryOK'
    BY <1>1, FailureFits
<1>3. faults < MaxFaults /\ faults' = faults + 1 /\ requests' = requests /\ reader' = reader
    BY DEF StatementRaises
<1>4. BoundsOK' /\ ReaderInv'
    BY <1>3, BoundAssumption DEF BoundsOK, ReaderInv
<1> QED BY <1>1, <1>2, <1>4 DEF Fail, tables, RowsOK

LEMMA ArchiveKeepsTypes == ASSUME TypeInv, Archive PROVE TypeInv'
<1> USE DEF TypeInv
<1>1. requests < MaxRequests /\ requests' = requests + 1 /\ faults' = faults
    BY DEF Archive
<1>2. BoundsOK'
    BY <1>1, BoundAssumption DEF BoundsOK
<1> QED BY <1>2 DEF Archive, history, RowsOK, RequestInv, ReaderInv, HistoryOK

LEMMA TypeInvInit == Init => TypeInv
<1> SUFFICES ASSUME Init PROVE TypeInv
    OBVIOUS
<1>1. RowsOK /\ HistoryOK /\ BoundsOK
    BY BoundAssumption DEF Init, RowsOK, HistoryOK, BoundsOK
<1>2. NoRequest \in Request /\ NoRequest.pc = "idle"
    BY DEF NoRequest, Request
<1>3. RequestInv
    BY <1>2 DEF Init, RequestInv, Fits
<1>4. ReaderInv
    BY DEF Init, ReaderInv, Shaped, NoRead
<1> QED BY <1>1, <1>3, <1>4 DEF TypeInv

LEMMA TypeInvStep == TypeInv /\ [Next]_vars => TypeInv'
<1> SUFFICES ASSUME TypeInv, [Next]_vars PROVE TypeInv'
    OBVIOUS
<1>1. CASE \E e \in Editors, g \in Payloads : StartSave(e, g)
    BY <1>1, StartKeepsTypes
<1>2. CASE \E e \in Editors : Save(e)
    BY <1>2, JobKeepsTypes, StageKeepsTypes, PipelineKeepsTypes, DeleteKeepsTypes,
       WriteStepKeepsTypes, RaiseKeepsTypes DEF Save
<1>3. CASE \E e \in Editors : WriteStatus(e) \/
                              \E st \in {"active", "disabled"} : StartPatch(e, st)
    BY <1>3, StatusKeepsTypes
<1>4. CASE \E r \in Readers : Read(r)
    BY <1>4, ReadsKeepTypes
<1>5. CASE Archive
    BY <1>5, ArchiveKeepsTypes
<1>6. CASE UNCHANGED vars
    BY <1>6 DEF vars, tables, history, TypeInv, RowsOK, RequestInv, ReaderInv,
                HistoryOK, BoundsOK
<1> QED BY <1>1, <1>2, <1>3, <1>4, <1>5, <1>6 DEF Next

(* Every variable keeps its type, for any bodies, editors and readers: a     *)
(* save never leaves the lists of its body (save_job_graph).                 *)
THEOREM GraphTypeCorrect == Spec => []TypeOK
<1>1. Spec => []TypeInv
    BY TypeInvInit, TypeInvStep, PTL DEF Spec
<1> QED BY <1>1, TypeInvIsTyped, PTL

-----------------------------------------------------------------------------
(* Collisions.                                                               *)

GoesOn(rq, q) ==
    /\ q.g = rq.g /\ q.alone = rq.alone
    /\ q.outcome = IF q.pc = "idle" THEN "saved" ELSE rq.outcome
    /\ q.pc \in {"band", "final"} => q.i = rq.i /\ At(q) = At(rq)
    /\ q.pc = "pipeline" => q.i = rq.i + 1 /\ rq.i < Len(rq.g.pipes)
    /\ q.pc = "idle" => rq.i = Len(rq.g.pipes)
    /\ rq.pc = "band" => /\ q.pc \in {"band", "final"}
                         /\ q.pc = "band" => q.j = rq.j + 1
                         /\ q.pc = "final" => q.j = 1 /\ rq.j = Size(rq.g, At(rq))
    /\ rq.pc = "final" => /\ q.pc \in {"final", "pipeline", "idle"}
                          /\ q.pc = "final" => q.j = rq.j + 1
                          /\ q.pc # "final" => rq.j = Size(rq.g, At(rq))

LEMMA AfterStepIs ==
    ASSUME NEW rq \in Request, Fits(rq), rq.pc \in {"band", "final"}
    PROVE  GoesOn(rq, AfterStep(rq))
<1> SUFFICES ASSUME NEW q, q = AfterStep(rq) PROVE GoesOn(rq, q)
    OBVIOUS
<1>1. /\ rq.g \in Payloads
      /\ rq.i \in 1..Len(rq.g.pipes) /\ rq.j \in 1..Size(rq.g, At(rq))
    BY DEF Fits
<1>2. Size(rq.g, At(rq)) \in Nat /\ rq.j \in Nat
    BY <1>1, StepsAreFew DEF Request
<1>3. CASE rq.j < Size(rq.g, At(rq))
    <2>1. q = [rq EXCEPT !.j = @ + 1]
        BY <1>3 DEF AfterStep, Size, At
    <2>2. /\ q.pc = rq.pc /\ q.g = rq.g /\ q.i = rq.i /\ q.j = rq.j + 1
          /\ q.alone = rq.alone /\ q.outcome = rq.outcome
        BY <2>1 DEF Request
    <2> QED BY <2>2, <1>3 DEF At, GoesOn
<1>4. CASE ~(rq.j < Size(rq.g, At(rq))) /\ rq.pc = "band"
    <2>1. q = [rq EXCEPT !.pc = "final", !.j = 1]
        BY <1>4 DEF AfterStep, Size, At
    <2>2. /\ q.pc = "final" /\ q.g = rq.g /\ q.i = rq.i /\ q.j = 1
          /\ q.alone = rq.alone /\ q.outcome = rq.outcome
        BY <2>1 DEF Request
    <2>3. rq.j = Size(rq.g, At(rq))
        BY <1>1, <1>2, <1>4
    <2> QED BY <2>2, <2>3, <1>4 DEF At, GoesOn
<1>5. CASE ~(rq.j < Size(rq.g, At(rq))) /\ rq.pc # "band" /\ rq.i < Len(rq.g.pipes)
    <2>1. q = [rq EXCEPT !.pc = "pipeline", !.i = @ + 1]
        BY <1>5 DEF AfterStep, Size, At
    <2>2. /\ q.pc = "pipeline" /\ q.g = rq.g /\ q.i = rq.i + 1
          /\ q.alone = rq.alone /\ q.outcome = rq.outcome
        BY <2>1 DEF Request
    <2>3. rq.j = Size(rq.g, At(rq))
        BY <1>1, <1>2, <1>5
    <2> QED BY <2>2, <2>3, <1>5 DEF GoesOn
<1>6. CASE ~(rq.j < Size(rq.g, At(rq))) /\ rq.pc # "band" /\ ~(rq.i < Len(rq.g.pipes))
    <2>1. q = [rq EXCEPT !.pc = "idle", !.outcome = "saved"]
        BY <1>6 DEF AfterStep, Size, At
    <2>2. /\ q.pc = "idle" /\ q.g = rq.g
          /\ q.alone = rq.alone /\ q.outcome = "saved"
        BY <2>1 DEF Request
    <2>3. rq.j = Size(rq.g, At(rq))
        BY <1>1, <1>2, <1>6
    <2>4. rq.i = Len(rq.g.pipes)
        <3>1. Len(rq.g.pipes) \in Nat /\ rq.i \in Nat
            BY <1>1, ValidIsFull DEF Fits, Request
        <3> QED BY <1>1, <1>6, <3>1
    <2> QED BY <2>2, <2>3, <2>4, <1>6 DEF GoesOn
<1> QED BY <1>3, <1>4, <1>5, <1>6

LEMMA OwnedIsInBand ==
    ASSUME NEW rq \in Request, NEW w, NEW x, Owns(rq, w, x)
    PROVE  InBand(rq.g, w, x)
BY DEF Owns, Moving, InBand, Request

(* A save that nobody overlaps fails on a step only because of a row that    *)
(* the save of another body left in the band.                                *)
LEMMA CollisionIsExplained ==
    ASSUME TypeInv, CollideInv, NEW e \in Editors, NEW rq, rq = editor[e],
           rq.alone, rq.pc \in {"band", "final"}, Collides(rq)
    PROVE  ~(halfway \subseteq {rq.g})
<1>1. rq \in Request /\ Fits(rq)
    BY DEF TypeInv, RequestInv
<1>2. PICK y \in Present(stepRow) \ {StepId(rq)} :
         stepRow[y].pipe = At(rq) /\ stepRow[y].seq = StepSequence(rq)
    BY DEF Collides
<1>3. /\ rq.g \in Payloads /\ rq.j \in 1..Size(rq.g, At(rq))
      /\ Size(rq.g, At(rq)) \in Nat /\ Size(rq.g, At(rq)) < TempBase
      /\ rq.j \in Nat /\ TempBase \in Nat
    BY <1>1, StepsAreFew, BaseAssumption DEF Fits, Request
<1>4. InPhase(rq, stepRow[y], y)
    BY <1>2 DEF CollideInv, PhasesHold
<1>5. rq.pc = "band"
    <2>1. CASE rq.pc = "final"
        <3>1. stepRow[y].seq = rq.j
            BY <1>2, <2>1 DEF StepSequence
        <3>2. stepRow[y].seq >= TempBase \/ stepRow[y].seq < rq.j
            BY <1>2, <1>4, <2>1 DEF InPhase
        <3> QED BY <1>3, <3>1, <3>2
    <2> QED BY <2>1
<1>6. stepRow[y].seq = TempBase + rq.j - 1 /\ stepRow[y].seq >= TempBase
    BY <1>2, <1>3, <1>5 DEF StepSequence
<1>7. ~InBand(rq.g, stepRow[y], y)
    <2>1. SUFFICES ASSUME NEW k \in 1..Size(rq.g, stepRow[y].pipe),
                          Numbered(rq.g, stepRow[y], y, k)
                   PROVE  FALSE
        BY DEF InBand
    <2>2. k = rq.j
        BY <1>2, <1>3, <1>6, <2>1 DEF Numbered
    <2>3. y = StepId(rq)
        BY <1>2, <2>1, <2>2 DEF Numbered, StepId
    <2> QED BY <1>2, <2>3
<1>8. ASSUME NEW f \in Editors, Owns(editor[f], stepRow[y], y)
      PROVE  FALSE
    <2>1. CASE f = e
        BY <1>1, <1>7, <1>8, <2>1, OwnedIsInBand
    <2>2. CASE f # e
        <3>1. Saving(f) /\ Saving(e)
            BY <1>8, <1>5 DEF Owns, Saving
        <3> QED BY <2>2, <3>1 DEF CollideInv, OneAlone
    <2> QED BY <2>1, <2>2
<1>9. PICK h \in halfway : InBand(h, stepRow[y], y)
    BY <1>2, <1>6, <1>8 DEF CollideInv, BandExplained
<1> QED BY <1>7, <1>9

(* Statements that leave the rows of the steps and the phases alone.         *)
LEMMA QuietKeepsCollide ==
    ASSUME TypeInv, TypeInv', CollideInv, NEW e \in Editors,
           stepRow' = stepRow, halfway' = halfway,
           \A f \in Editors \ {e} : editor'[f] = editor[f],
           editor[e].pc \notin {"band", "final"}, editor'[e].pc \notin {"band", "final"},
           (editor[e].pc \in {"idle", "patch"}) <=> (editor'[e].pc \in {"idle", "patch"}),
           editor[e].pc \notin {"idle", "patch"} =>
               editor'[e].g = editor[e].g /\ editor'[e].alone = editor[e].alone,
           editor'[e].outcome = "step conflict" =>
               /\ editor[e].outcome = "step conflict"
               /\ editor'[e].g = editor[e].g /\ editor'[e].alone = editor[e].alone
    PROVE  CollideInv'
<1> USE DEF CollideInv
<1>1. OneAlone'
    BY DEF OneAlone, Saving
<1>2. BandExplained'
    <2>1. SUFFICES ASSUME NEW x \in Present(stepRow), stepRow[x].seq >= TempBase
                   PROVE  \/ \E h \in halfway : InBand(h, stepRow[x], x)
                          \/ \E f \in Editors : Owns(editor'[f], stepRow[x], x)
        BY DEF BandExplained
    <2>2. CASE \E h \in halfway : InBand(h, stepRow[x], x)
        BY <2>2
    <2>3. ASSUME NEW f \in Editors, Owns(editor[f], stepRow[x], x)
          PROVE  Owns(editor'[f], stepRow[x], x)
        <3>1. CASE f = e
            BY <2>3, <3>1 DEF Owns, Moving
        <3>2. CASE f # e
            BY <2>3, <3>2
        <3> QED BY <3>1, <3>2
    <2> QED BY <2>1, <2>2, <2>3 DEF BandExplained
<1>3. PhasesHold'
    BY DEF PhasesHold
<1>4. StepsNeverCollide'
    <2>1. SUFFICES ASSUME NEW f \in Editors,
                          editor'[f].outcome = "step conflict", editor'[f].alone
                   PROVE  ~(halfway \subseteq {editor'[f].g})
        BY DEF StepsNeverCollide
    <2>2. /\ editor[f].outcome = "step conflict" /\ editor[f].alone
          /\ editor'[f].g = editor[f].g
        BY <2>1
    <2> QED BY <2>2 DEF StepsNeverCollide
<1> QED BY <1>1, <1>2, <1>3, <1>4

LEMMA FailKeepsCollide ==
    ASSUME TypeInv, CollideInv, NEW e \in Editors, Saving(e),
           NEW outcome \in {"stage conflict", "pipeline conflict", "step conflict", "error"},
           Fail(e, outcome),
           outcome = "step conflict" =>
               editor[e].pc \in {"band", "final"} /\ Collides(editor[e])
    PROVE  CollideInv'
<1>1. PICK rq : rq = editor[e]
    OBVIOUS
<1>2. rq \in Request
    BY <1>1 DEF TypeInv, RequestInv
<1>3. /\ editor'[e] = [rq EXCEPT !.pc = "idle", !.outcome = outcome]
      /\ \A f \in Editors \ {e} : editor'[f] = editor[f]
    BY <1>1, FailureFits
<1>4. /\ editor'[e].pc = "idle" /\ editor'[e].outcome = outcome
      /\ editor'[e].g = rq.g /\ editor'[e].alone = rq.alone
    BY <1>2, <1>3 DEF Request
<1>5. stepRow' = stepRow /\ halfway' = halfway \cup {rq.g}
    BY <1>1 DEF Fail, tables
<1> USE DEF CollideInv
<1>6. OneAlone'
    BY <1>3, <1>4 DEF OneAlone, Saving
<1>7. BandExplained'
    <2>1. SUFFICES ASSUME NEW x \in Present(stepRow), stepRow[x].seq >= TempBase
                   PROVE  \/ \E h \in halfway' : InBand(h, stepRow[x], x)
                          \/ \E f \in Editors : Owns(editor'[f], stepRow[x], x)
        BY <1>5 DEF BandExplained
    <2>2. CASE \E h \in halfway : InBand(h, stepRow[x], x)
        BY <1>5, <2>2
    <2>3. CASE \E f \in Editors : Owns(editor[f], stepRow[x], x)
        <3>1. PICK f \in Editors : Owns(editor[f], stepRow[x], x)
            BY <2>3
        <3>2. CASE f = e
            <4>1. InBand(rq.g, stepRow[x], x)
                BY <1>1, <1>2, <3>1, <3>2, OwnedIsInBand
            <4> QED BY <1>5, <4>1
        <3>3. CASE f # e
            BY <1>3, <3>1, <3>3
        <3> QED BY <3>2, <3>3
    <2> QED BY <2>1, <2>2, <2>3 DEF BandExplained
<1>8. PhasesHold'
    BY <1>3, <1>4, <1>5 DEF PhasesHold
<1>9. StepsNeverCollide'
    <2>1. SUFFICES ASSUME NEW f \in Editors,
                          editor'[f].outcome = "step conflict", editor'[f].alone
                   PROVE  ~(halfway' \subseteq {editor'[f].g})
        BY DEF StepsNeverCollide
    <2>2. CASE f = e
        <3>1. /\ rq.alone /\ rq.pc \in {"band", "final"} /\ Collides(rq)
            BY <1>1, <1>4, <2>1, <2>2
        <3>2. ~(halfway \subseteq {rq.g})
            BY <1>1, <3>1, CollisionIsExplained
        <3> QED BY <1>4, <1>5, <2>2, <3>2
    <2>3. CASE f # e
        BY <1>3, <1>5, <2>1, <2>3 DEF StepsNeverCollide
    <2> QED BY <2>2, <2>3
<1> QED BY <1>6, <1>7, <1>8, <1>9

(* A new save marks itself and those under way.                              *)
LEMMA StartKeepsCollide ==
    ASSUME TypeInv, TypeInv', CollideInv, NEW e \in Editors, NEW g \in Payloads,
           StartSave(e, g)
    PROVE  CollideInv'
<1>1. editor[e].pc = "idle" /\ stepRow' = stepRow /\ halfway' = halfway
    BY DEF StartSave, tables
<1>2. editor \in [Editors -> Request]
    BY DEF TypeInv, RequestInv
<1>3. CASE ~Valid(g)
    <2>1. editor' = [editor EXCEPT ![e] = [NoRequest EXCEPT !.outcome = "invalid"]]
        BY <1>3 DEF StartSave
    <2>2. /\ editor'[e].pc = "idle" /\ editor'[e].outcome = "invalid"
          /\ \A f \in Editors \ {e} : editor'[f] = editor[f]
        BY <1>2, <2>1 DEF NoRequest
    <2> QED BY <1>1, <2>2, QuietKeepsCollide
<1>4. CASE Valid(g)
    <2>1. PICK b : b = (Overlapping(e) = {})
        OBVIOUS
    <2>2. editor' = [f \in Editors |->
                        IF f = e THEN [NoRequest EXCEPT !.pc = "job", !.g = g, !.alone = b]
                        ELSE [editor[f] EXCEPT !.alone = @ /\ ~Saving(f)]]
        BY <1>4, <2>1 DEF StartSave
    <2>3. /\ editor'[e].pc = "job" /\ editor'[e].g = g /\ editor'[e].alone = b
          /\ editor'[e].outcome = "none"
        BY <2>2 DEF NoRequest
    <2>4. ASSUME NEW f \in Editors, f # e
          PROVE  /\ editor'[f].pc = editor[f].pc /\ editor'[f].g = editor[f].g
                 /\ editor'[f].i = editor[f].i /\ editor'[f].j = editor[f].j
                 /\ editor'[f].outcome = editor[f].outcome
                 /\ editor'[f].alone <=> (editor[f].alone /\ ~Saving(f))
        <3>1. editor'[f] = [editor[f] EXCEPT !.alone = editor[f].alone /\ ~Saving(f)]
            BY <2>2, <2>4
        <3>2. PICK c \in BOOLEAN : c = (editor[f].alone /\ ~Saving(f))
            BY Zenon
        <3>3. PICK w : w = [editor[f] EXCEPT !.alone = c]
            OBVIOUS
        <3>4. editor[f] \in Request
            BY <1>2
        <3>5. /\ w.pc = editor[f].pc /\ w.g = editor[f].g
              /\ w.i = editor[f].i /\ w.j = editor[f].j
              /\ w.outcome = editor[f].outcome /\ w.alone = c
            BY <3>3, <3>4 DEF Request
        <3>6. editor'[f] = w
            BY <3>1, <3>2, <3>3
        <3> QED BY <3>2, <3>5, <3>6
    <2> USE DEF CollideInv
    <2>5. ASSUME NEW f \in Editors, f # e, Saving(f) PROVE ~b
        BY <2>1, <2>5 DEF Overlapping
    <2>6. OneAlone'
        <3>1. SUFFICES ASSUME NEW f \in Editors, NEW h \in Editors, f # h,
                              editor'[f].pc \notin {"idle", "patch"},
                              editor'[h].pc \notin {"idle", "patch"}
                       PROVE  ~editor'[f].alone
            BY DEF OneAlone, Saving
        <3>2. CASE f = e
            BY <2>3, <2>4, <2>5, <3>1, <3>2 DEF Saving
        <3>3. CASE f # e
            BY <2>4, <3>1, <3>3 DEF Saving
        <3> QED BY <3>2, <3>3
    <2>7. BandExplained'
        <3>1. SUFFICES ASSUME NEW x \in Present(stepRow), stepRow[x].seq >= TempBase
                       PROVE  \/ \E h \in halfway : InBand(h, stepRow[x], x)
                              \/ \E f \in Editors : Owns(editor'[f], stepRow[x], x)
            BY <1>1 DEF BandExplained
        <3>2. ASSUME NEW f \in Editors, Owns(editor[f], stepRow[x], x)
              PROVE  Owns(editor'[f], stepRow[x], x)
            <4>1. f # e /\ Saving(f)
                BY <1>1, <3>2 DEF Owns, Saving
            <4>2. InBand(editor[f].g, stepRow[x], x)
                BY <1>2, <3>2, OwnedIsInBand
            <4>3. editor'[f].pc \notin {"idle", "patch"}
                BY <2>4, <4>1 DEF Saving
            <4>4. editor'[f].g = editor[f].g
                BY <2>4, <4>1
            <4>5. ~editor'[f].alone
                BY <2>4, <4>1
            <4> QED BY <4>2, <4>3, <4>4, <4>5 DEF Owns
        <3> QED BY <3>1, <3>2 DEF BandExplained
    <2>8. PhasesHold'
        <3>1. \A f \in Editors :
                 ~(editor'[f].alone /\ editor'[f].pc \in {"band", "final"})
            BY <2>3, <2>4 DEF Saving
        <3> QED BY <3>1 DEF PhasesHold
    <2>9. StepsNeverCollide'
        <3>1. SUFFICES ASSUME NEW f \in Editors,
                              editor'[f].outcome = "step conflict", editor'[f].alone
                       PROVE  ~(halfway \subseteq {editor'[f].g})
            BY <1>1 DEF StepsNeverCollide
        <3>2. f # e
            BY <2>3, <3>1
        <3> QED BY <2>4, <3>1, <3>2 DEF StepsNeverCollide
    <2> QED BY <2>6, <2>7, <2>8, <2>9
<1> QED BY <1>3, <1>4

(* The deletion leaves only rows that are steps of the body.                 *)
LEMMA DeleteKeepsCollide ==
    ASSUME TypeInv, CollideInv, NEW e \in Editors, DeleteOrphans(e)
    PROVE  CollideInv'
<1>1. PICK rq : rq = editor[e]
    OBVIOUS
<1>2. PICK q : q = editor'[e]
    OBVIOUS
<1>3. /\ q.pc = "band" /\ q.j = 1 /\ q.g = rq.g /\ q.i = rq.i
      /\ q.alone = rq.alone /\ q.outcome = rq.outcome
      /\ \A f \in Editors \ {e} : editor'[f] = editor[f]
    BY <1>1, <1>2, DeleteKeepsTypes
<1>4. rq \in Request /\ Fits(rq) /\ rq.pc = "purge"
    BY <1>1 DEF TypeInv, RequestInv, DeleteOrphans
<1>5. rq.g \in Payloads /\ UniqueRows(StepsIn(rq.g, At(rq)))
    BY <1>4, ValidIsFull DEF Fits, At
<1>6. At(q) = At(rq) /\ halfway' = halfway
    BY <1>3 DEF At, DeleteOrphans, Continue, history
<1>7. ASSUME NEW x \in Present(stepRow)'
      PROVE  /\ x \in Present(stepRow) /\ stepRow'[x] = stepRow[x]
             /\ stepRow[x].pipe = At(rq) => \E s \in StepsIn(rq.g, At(rq)) : s.id = x
    <2> DEFINE wanted == {s.id : s \in StepsIn(rq.g, At(rq))}
    <2>1. stepRow' = [y \in Steps |->
              IF y \in Present(stepRow) \ wanted /\ stepRow[y].pipe = At(rq) THEN Null
              ELSE stepRow[y]]
        BY <1>1 DEF DeleteOrphans, At
    <2> HIDE DEF wanted
    <2>2. x \in Steps /\ stepRow'[x] # Null
        BY <1>7, <2>1 DEF Present
    <2>3. /\ stepRow'[x] = stepRow[x]
          /\ ~(x \in Present(stepRow) \ wanted /\ stepRow[x].pipe = At(rq))
        BY <2>1, <2>2
    <2>4. x \in Present(stepRow)
        BY <2>2, <2>3 DEF Present, TypeInv, RowsOK
    <2>5. stepRow[x].pipe = At(rq) => x \in wanted
        BY <2>3, <2>4
    <2> QED BY <2>3, <2>4, <2>5 DEF wanted
<1> USE DEF CollideInv
<1>8. OneAlone'
    BY <1>1, <1>2, <1>3, <1>4 DEF OneAlone, Saving
<1>9. BandExplained'
    <2>1. SUFFICES ASSUME NEW x \in Present(stepRow)', stepRow'[x].seq >= TempBase
                   PROVE  \/ \E h \in halfway' : InBand(h, stepRow'[x], x)
                          \/ \E f \in Editors : Owns(editor'[f], stepRow'[x], x)
        BY DEF BandExplained
    <2>2. x \in Present(stepRow) /\ stepRow'[x] = stepRow[x]
        BY <1>7
    <2>3. ASSUME NEW f \in Editors, Owns(editor[f], stepRow[x], x)
          PROVE  Owns(editor'[f], stepRow[x], x)
        <3>1. CASE f = e
            <4>1. ~rq.alone /\ InBand(rq.g, stepRow[x], x)
                BY <1>1, <1>4, <2>3, <3>1 DEF Owns, Moving
            <4> QED BY <1>2, <1>3, <3>1, <4>1 DEF Owns
        <3>2. CASE f # e
            BY <1>3, <2>3, <3>2
        <3> QED BY <3>1, <3>2
    <2> QED BY <1>6, <2>1, <2>2, <2>3 DEF BandExplained
<1>10. PhasesHold'
    <2>1. SUFFICES ASSUME NEW f \in Editors, editor'[f].alone,
                          editor'[f].pc \in {"band", "final"},
                          NEW x \in Present(stepRow)'
                   PROVE  InPhase(editor'[f], stepRow'[x], x)
        BY DEF PhasesHold
    <2>2. x \in Present(stepRow) /\ stepRow'[x] = stepRow[x]
        BY <1>7
    <2>3. CASE f = e
        <3>1. SUFFICES ASSUME stepRow[x].pipe = At(rq)
                       PROVE  \E k \in 1..Size(q.g, At(q)) :
                                 /\ NthStep(q.g, At(q), k).id = x
                                 /\ k < q.j => stepRow[x].seq >= TempBase
            BY <1>2, <1>3, <1>6, <2>2, <2>3 DEF InPhase
        <3>2. PICK s \in StepsIn(rq.g, At(rq)) : s.id = x
            BY <1>7, <3>1
        <3>3. PICK k \in 1..Size(rq.g, At(rq)) : NthStep(rq.g, At(rq), k) = s
            BY <1>5, EveryStepIsNth
        <3>4. ~(k < q.j)
            BY <1>3
        <3> QED BY <1>3, <1>6, <3>2, <3>3, <3>4
    <2>4. CASE f # e
        BY <1>3, <2>1, <2>2, <2>4 DEF PhasesHold
    <2> QED BY <2>3, <2>4
<1>11. StepsNeverCollide'
    <2>1. SUFFICES ASSUME NEW f \in Editors,
                          editor'[f].outcome = "step conflict", editor'[f].alone
                   PROVE  ~(halfway \subseteq {editor'[f].g})
        BY <1>6 DEF StepsNeverCollide
    <2>2. /\ editor[f].outcome = "step conflict" /\ editor[f].alone
          /\ editor'[f].g = editor[f].g
        BY <1>1, <1>2, <1>3, <2>1
    <2> QED BY <2>2 DEF StepsNeverCollide
<1> QED BY <1>8, <1>9, <1>10, <1>11

(* A step is stored: in the band first, with its own number then.            *)
LEMMA StoreKeepsCollide ==
    ASSUME TypeInv, CollideInv, NEW e \in Editors, NEW rq, rq = editor[e],
           rq \in Request, Fits(rq), rq.pc \in {"band", "final"},
           StepId(rq) \in Steps, rq.pc = "final" => StepSequence(rq) < TempBase,
           Stores(e, rq)
    PROVE  CollideInv'
<1>1. PICK q : q = AfterStep(rq)
    OBVIOUS
<1>2. /\ editor'[e] = q /\ \A f \in Editors \ {e} : editor'[f] = editor[f]
    BY <1>1 DEF Stores, TypeInv, RequestInv
<1>3. /\ q.g = rq.g /\ q.alone = rq.alone
      /\ q.outcome = "step conflict" => rq.outcome = "step conflict"
      /\ q.pc = "idle" => q.outcome = "saved"
      /\ q.pc \in {"band", "final"} => At(q) = At(rq)
      /\ rq.pc = "band" => /\ q.pc \in {"band", "final"}
                           /\ q.pc = "band" => q.j = rq.j + 1
                           /\ q.pc = "final" => q.j = 1 /\ rq.j = Size(rq.g, At(rq))
      /\ rq.pc = "final" => /\ q.pc \in {"final", "pipeline", "idle"}
                            /\ q.pc = "final" => q.j = rq.j + 1
                            /\ q.pc # "final" => rq.j = Size(rq.g, At(rq))
    BY <1>1, AfterStepIs DEF GoesOn
<1>4. /\ rq.j \in 1..Size(rq.g, At(rq)) /\ rq.j \in Nat
      /\ Size(rq.g, At(rq)) \in Nat /\ TempBase \in Nat /\ rq.g \in Payloads
      /\ rq.j >= 1 /\ rq.j <= Size(rq.g, At(rq))
    <2>1. /\ rq.j \in 1..Size(rq.g, At(rq)) /\ rq.j \in Nat /\ rq.g \in Payloads
        BY DEF Fits, Request
    <2>2. Size(rq.g, At(rq)) \in Nat /\ TempBase \in Nat
        BY <2>1, StepsAreFew, BaseAssumption
    <2> QED BY <2>1, <2>2
<1>5. PICK y \in Steps : y = StepId(rq)
    OBVIOUS
<1>6. PICK n : n = StepSequence(rq)
    OBVIOUS
<1>7. /\ rq.pc = "band" => n = TempBase + rq.j - 1 /\ n >= TempBase
      /\ rq.pc = "final" => n = rq.j /\ n < TempBase
    BY <1>4, <1>6 DEF StepSequence
<1>8. PICK w : stepRow' = [stepRow EXCEPT ![y] = w] /\ w.pipe = At(rq) /\ w.seq = n
    <2>1. RowStored(rq).pipe = At(rq) /\ RowStored(rq).seq = n
        BY <1>6 DEF RowStored
    <2> QED BY <1>5, <2>1 DEF Stores
<1>9. /\ stepRow'[y] = w
      /\ \A x \in Present(stepRow)' \ {y} :
            x \in Present(stepRow) /\ stepRow'[x] = stepRow[x]
    BY <1>5, <1>8 DEF Present, TypeInv, RowsOK
<1>10. NthStep(rq.g, At(rq), rq.j).id = y
    BY <1>5 DEF StepId
<1>11. /\ halfway \subseteq halfway'
       /\ q.pc = "idle" /\ ~q.alone => rq.g \in halfway'
    <2>1. halfway' = IF q.outcome = "saved" /\ ~q.alone THEN halfway \cup {rq.g}
                     ELSE halfway
        BY <1>1 DEF Stores
    <2>2. q.pc = "idle" => q.outcome = "saved"
        BY <1>3
    <2> QED BY <2>1, <2>2
<1>12. ASSUME NEW f \in Editors, f # e, editor[f].pc \notin {"idle", "patch"}
       PROVE  ~editor[f].alone
    BY <1>12 DEF CollideInv, OneAlone, Saving
<1>13. OneAlone'
    BY <1>2, <1>3 DEF CollideInv, OneAlone, Saving
<1>14. ASSUME NEW x \in Present(stepRow)', stepRow'[x].seq >= TempBase
       PROVE  \/ \E h \in halfway' : InBand(h, stepRow'[x], x)
              \/ \E f \in Editors : Owns(editor'[f], stepRow'[x], x)
    <2>1. CASE x = y
        <3>1. rq.pc = "band" /\ w.seq = TempBase + rq.j - 1
            BY <1>4, <1>7, <1>8, <1>9, <1>14, <2>1
        <3>2. Numbered(rq.g, w, y, rq.j)
            BY <1>8, <1>10, <3>1 DEF Numbered
        <3>3. q.pc \in {"band", "final"} /\ At(q) = At(rq)
            BY <1>3, <3>1
        <3>4. q.pc = "final" => rq.j >= q.j
            <4>1. q.pc = "final" => q.j = 1
                BY <1>3, <3>1
            <4> QED BY <1>4, <4>1
        <3>5. Moving(q, w, y)
            BY <1>3, <1>4, <1>8, <3>2, <3>3, <3>4 DEF Moving
        <3>6. InBand(q.g, w, y)
            BY <1>3, <1>4, <1>8, <3>2 DEF InBand
        <3>7. Owns(q, w, y)
            BY <3>3, <3>5, <3>6 DEF Owns
        <3> QED BY <1>2, <1>9, <2>1, <3>7
    <2>2. CASE x # y
        <3>1. x \in Present(stepRow) /\ stepRow'[x] = stepRow[x]
            BY <1>9, <2>2
        <3>2. \/ \E h \in halfway : InBand(h, stepRow[x], x)
              \/ \E f \in Editors : Owns(editor[f], stepRow[x], x)
            BY <1>14, <3>1 DEF CollideInv, BandExplained
        <3>3. CASE \E h \in halfway : InBand(h, stepRow[x], x)
            BY <1>11, <3>1, <3>3
        <3>4. CASE \E f \in Editors \ {e} : Owns(editor[f], stepRow[x], x)
            BY <1>2, <3>1, <3>4
        <3>5. CASE Owns(rq, stepRow[x], x) /\ ~rq.alone
            <4>1. InBand(rq.g, stepRow[x], x)
                BY <3>5 DEF Owns
            <4>2. CASE q.pc = "idle"
                BY <1>3, <1>11, <3>1, <3>5, <4>1, <4>2
            <4>3. CASE q.pc # "idle"
                <5>1. q.pc \notin {"idle", "patch"} /\ ~q.alone
                    BY <1>3, <3>5, <4>3
                <5>2. Owns(q, stepRow[x], x)
                    BY <1>3, <4>1, <5>1 DEF Owns
                <5> QED BY <1>2, <3>1, <5>2
            <4> QED BY <4>2, <4>3
        <3>6. CASE Owns(rq, stepRow[x], x) /\ rq.alone
            <4>1. /\ stepRow[x].pipe = At(rq)
                  /\ \E k \in 1..Size(rq.g, At(rq)) :
                        Numbered(rq.g, stepRow[x], x, k) /\ (rq.pc = "final" => k >= rq.j)
                BY <3>6 DEF Owns, Moving
            <4>2. PICK k \in 1..Size(rq.g, At(rq)) :
                     Numbered(rq.g, stepRow[x], x, k) /\ (rq.pc = "final" => k >= rq.j)
                BY <4>1
            <4>3. k # rq.j
                BY <1>10, <2>2, <4>1, <4>2 DEF Numbered
            <4>4. /\ q.pc \in {"band", "final"} /\ At(q) = At(rq)
                  /\ q.pc = "final" => k >= q.j
                <5>1. k \in Nat /\ k >= 1 /\ k <= Size(rq.g, At(rq))
                    BY <1>4
                <5>2. CASE rq.pc = "band"
                    <6>1. q.pc = "final" => q.j = 1
                        BY <1>3, <5>2
                    <6> QED BY <1>3, <5>1, <5>2, <6>1
                <5>3. CASE rq.pc = "final"
                    <6>1. k > rq.j
                        BY <1>4, <4>2, <4>3, <5>1, <5>3
                    <6>2. rq.j # Size(rq.g, At(rq))
                        BY <1>4, <5>1, <6>1
                    <6>3. q.pc = "final" /\ q.j = rq.j + 1 /\ At(q) = At(rq)
                        BY <1>3, <5>3, <6>2
                    <6>4. k >= q.j
                        BY <1>4, <5>1, <6>1, <6>3
                    <6> QED BY <6>3, <6>4
                <5> QED BY <5>2, <5>3
            <4>5. Moving(q, stepRow[x], x)
                BY <1>3, <4>1, <4>2, <4>4 DEF Moving
            <4>6. Owns(q, stepRow[x], x)
                BY <1>3, <3>6, <4>4, <4>5 DEF Owns
            <4> QED BY <1>2, <3>1, <4>6
        <3> QED BY <3>2, <3>3, <3>4, <3>5, <3>6
    <2> QED BY <2>1, <2>2
<1>15. ASSUME NEW x \in Present(stepRow)', rq.alone, q.pc \in {"band", "final"}
       PROVE  InPhase(q, stepRow'[x], x)
    <2>1. /\ x # y => x \in Present(stepRow) /\ stepRow'[x] = stepRow[x]
          /\ x # y => InPhase(rq, stepRow[x], x)
        BY <1>9, <1>15 DEF CollideInv, PhasesHold
    <2>2. At(q) = At(rq)
        BY <1>3, <1>15
    <2>3. SUFFICES ASSUME stepRow'[x].pipe = At(rq)
                   PROVE  /\ q.pc = "band" =>
                                \E k \in 1..Size(rq.g, At(rq)) :
                                    /\ NthStep(rq.g, At(rq), k).id = x
                                    /\ k < q.j => stepRow'[x].seq >= TempBase
                          /\ q.pc = "final" => \/ stepRow'[x].seq >= TempBase
                                               \/ stepRow'[x].seq < q.j
        BY <1>3, <2>2 DEF InPhase
    <2>4. CASE x = y
        <3>1. stepRow'[x].seq = n /\ NthStep(rq.g, At(rq), rq.j).id = x
            BY <1>8, <1>9, <1>10, <2>4
        <3>2. CASE rq.pc = "band"
            <4>1. n >= TempBase
                BY <1>7, <3>2
            <4> QED BY <1>4, <3>1, <4>1
        <3>3. CASE rq.pc = "final"
            <4>1. n = rq.j /\ q.pc = "final" /\ q.j = rq.j + 1
                BY <1>3, <1>7, <1>15, <3>3
            <4>2. n < q.j
                BY <1>4, <4>1
            <4> QED BY <3>1, <4>1, <4>2
        <3> QED BY <3>2, <3>3
    <2>5. CASE x # y /\ rq.pc = "band"
        <3>1. PICK k \in 1..Size(rq.g, At(rq)) :
                 /\ NthStep(rq.g, At(rq), k).id = x
                 /\ k < rq.j => stepRow[x].seq >= TempBase
            BY <2>1, <2>3, <2>5 DEF InPhase
        <3>2. k # rq.j /\ k \in Nat
            BY <1>4, <1>10, <2>5, <3>1
        <3>3. CASE q.pc = "band"
            <4>1. q.j = rq.j + 1
                BY <1>3, <3>3
            <4>2. k < q.j => k < rq.j
                BY <1>4, <3>2, <4>1
            <4> QED BY <2>1, <2>5, <3>1, <3>3, <4>2
        <3>4. CASE q.pc = "final"
            <4>1. k < rq.j
                <5>1. rq.j = Size(rq.g, At(rq))
                    BY <1>3, <2>5, <3>4
                <5> QED BY <1>4, <3>2, <5>1
            <4> QED BY <2>1, <2>5, <3>1, <3>4, <4>1
        <3> QED BY <1>15, <3>3, <3>4
    <2>6. CASE x # y /\ rq.pc = "final"
        <3>1. stepRow[x].seq >= TempBase \/ stepRow[x].seq < rq.j
            BY <2>1, <2>3, <2>6 DEF InPhase
        <3>2. q.pc = "final" /\ q.j = rq.j + 1
            BY <1>3, <1>15, <2>6
        <3>3. stepRow[x].seq \in Int
            <4>1. stepRow[x] \in RowRecord
                BY <2>1, <2>6 DEF TypeInv, RowsOK, Present
            <4> QED BY <1>4, <4>1 DEF RowRecord, Seqs
        <3> QED BY <1>4, <2>1, <2>6, <3>1, <3>2, <3>3
    <2> QED BY <2>4, <2>5, <2>6
<1>16. BandExplained'
    BY <1>14 DEF BandExplained
<1>17. PhasesHold'
    <2>1. SUFFICES ASSUME NEW f \in Editors, editor'[f].alone,
                          editor'[f].pc \in {"band", "final"},
                          NEW x \in Present(stepRow)'
                   PROVE  InPhase(editor'[f], stepRow'[x], x)
        BY DEF PhasesHold
    <2>2. CASE f = e
        BY <1>2, <1>3, <1>15, <2>1, <2>2
    <2>3. CASE f # e
        BY <1>2, <1>12, <2>1, <2>3
    <2> QED BY <2>2, <2>3
<1>18. StepsNeverCollide'
    <2>1. SUFFICES ASSUME NEW f \in Editors,
                          editor'[f].outcome = "step conflict", editor'[f].alone
                   PROVE  ~(halfway' \subseteq {editor'[f].g})
        BY DEF StepsNeverCollide
    <2>2. /\ editor[f].outcome = "step conflict" /\ editor[f].alone
          /\ editor'[f].g = editor[f].g
        BY <1>2, <1>3, <2>1
    <2>3. ~(halfway \subseteq {editor[f].g})
        BY <2>2 DEF CollideInv, StepsNeverCollide
    <2> QED BY <1>11, <2>2, <2>3
<1> QED BY <1>13, <1>16, <1>17, <1>18 DEF CollideInv

LEMMA WriteStepKeepsCollide ==
    ASSUME TypeInv, CollideInv, NEW e \in Editors, WriteStep(e)
    PROVE  CollideInv'
<1>1. PICK rq : rq = editor[e]
    OBVIOUS
<1>2. /\ rq \in Request /\ Fits(rq) /\ rq.pc \in {"band", "final"}
      /\ StepId(rq) \in Steps
      /\ rq.pc = "final" => StepSequence(rq) < TempBase
      /\ (Fail(e, "step conflict") /\ Collides(rq)) \/ Stores(e, rq)
    BY <1>1, WriteStepDoes
<1>3. CASE Fail(e, "step conflict") /\ Collides(rq)
    BY <1>1, <1>2, <1>3, FailKeepsCollide DEF Saving
<1>4. CASE Stores(e, rq)
    BY <1>1, <1>2, <1>4, StoreKeepsCollide
<1> QED BY <1>2, <1>3, <1>4

(* The statements before the steps, and the change of the status.            *)
LEMMA OtherStatementsKeepCollide ==
    ASSUME TypeInv, TypeInv', CollideInv, NEW e \in Editors,
           \/ WriteJob(e) \/ WriteStage(e) \/ WritePipeline(e) \/ WriteStatus(e)
           \/ \E st \in {"active", "disabled"} : StartPatch(e, st)
    PROVE  CollideInv'
<1>1. PICK rq \in Request : rq = editor[e]
    BY DEF TypeInv, RequestInv
<1>2. editor \in [Editors -> Request]
    BY DEF TypeInv, RequestInv
<1>3. ASSUME NEW q, editor' = [editor EXCEPT ![e] = q],
             stepRow' = stepRow, halfway' = halfway,
             rq.pc \in {"job", "stage", "pipeline"},
             q.pc \in {"stage", "pipeline", "purge"},
             q.g = rq.g, q.alone = rq.alone, q.outcome = rq.outcome
      PROVE  CollideInv'
    <2>1. editor'[e] = q /\ \A f \in Editors \ {e} : editor'[f] = editor[f]
        BY <1>2, <1>3
    <2>2. /\ editor[e].pc \notin {"band", "final"} /\ editor'[e].pc \notin {"band", "final"}
          /\ editor[e].pc \notin {"idle", "patch"} /\ editor'[e].pc \notin {"idle", "patch"}
        BY <1>1, <1>3, <2>1
    <2>3. /\ editor'[e].g = editor[e].g /\ editor'[e].alone = editor[e].alone
          /\ editor'[e].outcome = editor[e].outcome
        BY <1>1, <1>3, <2>1
    <2> QED BY <1>3, <2>1, <2>2, <2>3, QuietKeepsCollide
<1>4. ASSUME NEW q, editor' = [editor EXCEPT ![e] = q],
             stepRow' = stepRow, halfway' = halfway,
             rq.pc \in {"idle", "patch"}, q.pc \in {"idle", "patch"},
             q.outcome # "step conflict"
      PROVE  CollideInv'
    <2>1. editor'[e] = q /\ \A f \in Editors \ {e} : editor'[f] = editor[f]
        BY <1>2, <1>4
    <2> QED BY <1>1, <1>4, <2>1, QuietKeepsCollide
<1>5. CASE WriteJob(e)
    <2>1. PICK q : q = [rq EXCEPT !.pc = "stage"]
        OBVIOUS
    <2>2. q.pc = "stage" /\ q.g = rq.g /\ q.alone = rq.alone /\ q.outcome = rq.outcome
        BY <2>1 DEF Request
    <2>3. /\ editor' = [editor EXCEPT ![e] = q] /\ rq.pc = "job"
          /\ stepRow' = stepRow /\ halfway' = halfway
        BY <1>1, <1>5, <2>1 DEF WriteJob, Continue, history
    <2> QED BY <1>3, <2>2, <2>3
<1>6. CASE WriteStage(e)
    <2> DEFINE s == rq.g.stages[rq.i]
               row == [seq |-> s.seq]
    <2>1. rq.pc = "stage"
        BY <1>1, <1>6 DEF WriteStage
    <2>2. CASE Clash(stageRow, s.id, row)
        <3>1. Fail(e, "stage conflict")
            BY <1>1, <1>6, <2>2 DEF WriteStage
        <3> QED BY <1>1, <2>1, <3>1, FailKeepsCollide DEF Saving
    <2>3. CASE ~Clash(stageRow, s.id, row)
        <3>1. /\ stepRow' = stepRow
              /\ Continue(e, IF rq.i < Len(rq.g.stages) THEN [rq EXCEPT !.i = @ + 1]
                             ELSE [rq EXCEPT !.pc = "pipeline", !.i = 1])
            BY <1>1, <1>6, <2>3 DEF WriteStage
        <3>2. PICK q : q = IF rq.i < Len(rq.g.stages) THEN [rq EXCEPT !.i = @ + 1]
                           ELSE [rq EXCEPT !.pc = "pipeline", !.i = 1]
            OBVIOUS
        <3>3. /\ q.pc \in {"stage", "pipeline"}
              /\ q.g = rq.g /\ q.alone = rq.alone /\ q.outcome = rq.outcome
            BY <2>1, <3>2 DEF Request
        <3>4. editor' = [editor EXCEPT ![e] = q] /\ halfway' = halfway
            BY <3>1, <3>2 DEF Continue, history
        <3> QED BY <1>3, <2>1, <3>1, <3>3, <3>4
    <2> QED BY <2>2, <2>3
<1>7. CASE WritePipeline(e)
    <2> DEFINE p == rq.g.pipes[rq.i]
               row == [stage |-> p.stage, seq |-> p.seq]
    <2>1. rq.pc = "pipeline"
        BY <1>1, <1>7 DEF WritePipeline
    <2>2. CASE Clash(pipeRow, p.id, row)
        <3>1. Fail(e, "pipeline conflict")
            BY <1>1, <1>7, <2>2 DEF WritePipeline
        <3> QED BY <1>1, <2>1, <3>1, FailKeepsCollide DEF Saving
    <2>3. CASE ~Clash(pipeRow, p.id, row)
        <3>1. stepRow' = stepRow /\ Continue(e, [rq EXCEPT !.pc = "purge"])
            BY <1>1, <1>7, <2>3 DEF WritePipeline
        <3>2. PICK q : q = [rq EXCEPT !.pc = "purge"]
            OBVIOUS
        <3>3. /\ q.pc = "purge"
              /\ q.g = rq.g /\ q.alone = rq.alone /\ q.outcome = rq.outcome
            BY <3>2 DEF Request
        <3>4. editor' = [editor EXCEPT ![e] = q] /\ halfway' = halfway
            BY <3>1, <3>2 DEF Continue, history
        <3> QED BY <1>3, <2>1, <3>1, <3>3, <3>4
    <2> QED BY <2>2, <2>3
<1>8. CASE WriteStatus(e)
    <2>1. PICK q : q = [NoRequest EXCEPT !.outcome = "saved"]
        OBVIOUS
    <2>2. q.pc = "idle" /\ q.outcome = "saved"
        BY <2>1 DEF NoRequest
    <2>3. /\ editor' = [editor EXCEPT ![e] = q] /\ rq.pc = "patch"
          /\ stepRow' = stepRow /\ halfway' = halfway
        BY <1>1, <1>8, <2>1 DEF WriteStatus, history
    <2> QED BY <1>4, <2>2, <2>3
<1>9. ASSUME NEW st \in {"active", "disabled"}, StartPatch(e, st)
      PROVE  CollideInv'
    <2>1. PICK q : q = [NoRequest EXCEPT !.pc = "patch", !.to = st]
        OBVIOUS
    <2>2. q.pc = "patch" /\ q.outcome = "none"
        BY <2>1 DEF NoRequest
    <2>3. /\ editor' = [editor EXCEPT ![e] = q] /\ rq.pc = "idle"
          /\ stepRow' = stepRow /\ halfway' = halfway
        BY <1>1, <1>9, <2>1 DEF StartPatch, tables, history
    <2> QED BY <1>4, <2>2, <2>3
<1> QED BY <1>5, <1>6, <1>7, <1>8, <1>9

LEMMA CollideInvStep == TypeInv /\ CollideInv /\ [Next]_vars => CollideInv'
<1> SUFFICES ASSUME TypeInv, CollideInv, [Next]_vars PROVE CollideInv'
    OBVIOUS
<1>1. TypeInv'
    BY TypeInvStep
<1>2. CASE \E e \in Editors, g \in Payloads : StartSave(e, g)
    BY <1>1, <1>2, StartKeepsCollide
<1>3. CASE \E e \in Editors : DeleteOrphans(e)
    BY <1>3, DeleteKeepsCollide
<1>4. CASE \E e \in Editors : WriteStep(e)
    BY <1>4, WriteStepKeepsCollide
<1>5. CASE \E e \in Editors : StatementRaises(e)
    <2>1. PICK e \in Editors : Fail(e, "error") /\ Saving(e)
        BY <1>5 DEF StatementRaises
    <2> QED BY <2>1, FailKeepsCollide
<1>6. CASE \E e \in Editors :
              \/ WriteJob(e) \/ WriteStage(e) \/ WritePipeline(e) \/ WriteStatus(e)
              \/ \E st \in {"active", "disabled"} : StartPatch(e, st)
    BY <1>1, <1>6, OtherStatementsKeepCollide
<1>7. CASE (\E r \in Readers : Read(r)) \/ Archive \/ UNCHANGED vars
    <2>1. UNCHANGED <<stepRow, editor, halfway>>
        BY <1>7 DEF Read, ReadJob, ReadStages, ReadPipelines, ReadSteps, Resolved, Forget,
                    Archive, vars, tables, history
    <2> QED BY <2>1 DEF CollideInv, OneAlone, BandExplained, PhasesHold, StepsNeverCollide,
                        Saving, Present
<1> QED BY <1>2, <1>3, <1>4, <1>5, <1>6, <1>7 DEF Next, Save

LEMMA CollideInvInit == Init => CollideInv
<1> SUFFICES ASSUME Init PROVE CollideInv
    OBVIOUS
<1>1. \A e \in Editors : editor[e].pc = "idle" /\ editor[e].outcome = "none"
    BY DEF Init, NoRequest
<1>2. Present(stepRow) = {}
    BY DEF Init, Present
<1> QED BY <1>1, <1>2 DEF CollideInv, OneAlone, BandExplained, PhasesHold,
                          StepsNeverCollide, Saving

(* A save that no other save overlaps never fails on the sequence of a step, *)
(* unless the save of another body was left halfway before: steps can be     *)
(* reordered, inserted, removed and moved between pipelines, and a save that *)
(* failed halfway can be repeated (the deletion of the steps that are gone   *)
(* and the two phases of save_job_graph).                                    *)
THEOREM LoneSavesNeverCollide == Spec => []StepsNeverCollide
<1>1. TypeInv /\ CollideInv /\ [Next]_vars => (TypeInv /\ CollideInv)'
    BY TypeInvStep, CollideInvStep
<1>2. Init => TypeInv /\ CollideInv
    BY TypeInvInit, CollideInvInit
<1>3. Spec => [](TypeInv /\ CollideInv)
    BY <1>1, <1>2, PTL DEF Spec
<1>4. TypeInv /\ CollideInv => StepsNeverCollide
    BY DEF CollideInv
<1> QED BY <1>3, <1>4, PTL

-----------------------------------------------------------------------------
(* The tables: no two children of one parent have the same sequence.         *)

StagesApart ==
    \A x, y \in Present(stageRow) : stageRow[x].seq = stageRow[y].seq => x = y

PipesApart ==
    \A x, y \in Present(pipeRow) :
        pipeRow[x].stage = pipeRow[y].stage /\ pipeRow[x].seq = pipeRow[y].seq => x = y

StepsApart ==
    \A x, y \in Present(stepRow) :
        stepRow[x].pipe = stepRow[y].pipe /\ stepRow[x].seq = stepRow[y].seq => x = y

TableInv ==
    /\ IsFiniteSet(Present(stageRow)) /\ StagesApart
    /\ IsFiniteSet(Present(pipeRow)) /\ PipesApart
    /\ IsFiniteSet(Present(stepRow)) /\ StepsApart

LEMMA RowIsAdded ==
    ASSUME NEW table, NEW x \in DOMAIN table, NEW row, row # Null,
           NEW after, after = [table EXCEPT ![x] = row]
    PROVE  /\ Present(after) = Present(table) \cup {x}
           /\ after[x] = row
           /\ \A y \in DOMAIN table \ {x} : after[y] = table[y]
           /\ IsFiniteSet(Present(table)) => IsFiniteSet(Present(after))
<1>1. Present(after) = Present(table) \cup {x}
    BY DEF Present
<1>2. after[x] = row /\ \A y \in DOMAIN table \ {x} : after[y] = table[y]
    OBVIOUS
<1>3. ASSUME IsFiniteSet(Present(table)) PROVE IsFiniteSet(Present(after))
    <2>1. PICK P : P = Present(table)
        OBVIOUS
    <2>2. IsFiniteSet(P \cup {x})
        BY <1>3, <2>1, FS_AddElement
    <2>3. P \cup {x} = Present(after)
        BY <1>1, <2>1
    <2> QED BY <2>2, <2>3
<1> QED BY <1>1, <1>2, <1>3

(* A statement of a save writes one row, or the request ends.                *)
StageWritten(e, rq) ==
    LET s == rq.g.stages[rq.i] IN
    /\ stageRow' = [stageRow EXCEPT ![s.id] = [seq |-> s.seq]]
    /\ \A y \in Present(stageRow) \ {s.id} : stageRow[y].seq # s.seq
    /\ editor' = [editor EXCEPT ![e] =
           IF rq.i < Len(rq.g.stages) THEN [rq EXCEPT !.i = @ + 1]
           ELSE [rq EXCEPT !.pc = "pipeline", !.i = 1]]
    /\ UNCHANGED <<job, pipeRow, stepRow, history>>

LEMMA WriteStageDoes ==
    ASSUME TypeInv, NEW e \in Editors, WriteStage(e), NEW rq, rq = editor[e]
    PROVE  /\ rq \in Request /\ Fits(rq) /\ rq.pc = "stage"
           /\ rq.g \in Payloads /\ rq.i \in 1..Len(rq.g.stages)
           /\ rq.g.stages[rq.i].id \in Stages
           /\ [seq |-> rq.g.stages[rq.i].seq] \in StageRecord
           /\ UNCHANGED <<reader, requests, faults>>
           /\ Fail(e, "stage conflict") \/ StageWritten(e, rq)
<1> DEFINE s == rq.g.stages[rq.i]
           row == [seq |-> s.seq]
<1>1. rq \in Request /\ Fits(rq) /\ rq.pc = "stage"
    BY DEF TypeInv, RequestInv, WriteStage
<1>2. rq.g \in Payloads /\ Valid(rq.g) /\ rq.i \in 1..Len(rq.g.stages)
    BY <1>1 DEF Fits
<1>3. s.id \in Stages /\ s.seq \in Seqs
    BY <1>2, ValidIsFull
<1>4. CASE Clash(stageRow, s.id, row)
    <2>1. Fail(e, "stage conflict")
        BY <1>4 DEF WriteStage
    <2> QED BY <1>1, <1>2, <1>3, <2>1 DEF WriteStage, StageRecord
<1>5. CASE ~Clash(stageRow, s.id, row)
    <2>1. /\ stageRow' = [stageRow EXCEPT ![s.id] = row]
          /\ Continue(e, IF rq.i < Len(rq.g.stages) THEN [rq EXCEPT !.i = @ + 1]
                         ELSE [rq EXCEPT !.pc = "pipeline", !.i = 1])
          /\ UNCHANGED <<job, pipeRow, stepRow>>
        BY <1>5 DEF WriteStage
    <2>2. ASSUME NEW y \in Present(stageRow) \ {s.id}, stageRow[y].seq = s.seq
          PROVE  FALSE
        <3>1. \A col \in DOMAIN row \ {"reads"} : stageRow[y][col] = row[col]
            BY <2>2
        <3> QED BY <1>5, <3>1 DEF Clash
    <2>3. StageWritten(e, rq)
        BY <2>1, <2>2 DEF StageWritten, Continue
    <2> QED BY <1>1, <1>2, <1>3, <2>3 DEF WriteStage, StageRecord
<1> QED BY <1>4, <1>5

PipelineWritten(e, rq) ==
    LET p == rq.g.pipes[rq.i] IN
    /\ pipeRow' = [pipeRow EXCEPT ![p.id] = [stage |-> p.stage, seq |-> p.seq]]
    /\ \A y \in Present(pipeRow) \ {p.id} :
          ~(pipeRow[y].stage = p.stage /\ pipeRow[y].seq = p.seq)
    /\ editor' = [editor EXCEPT ![e] = [rq EXCEPT !.pc = "purge"]]
    /\ UNCHANGED <<job, stageRow, stepRow, history>>

LEMMA WritePipelineDoes ==
    ASSUME TypeInv, NEW e \in Editors, WritePipeline(e), NEW rq, rq = editor[e]
    PROVE  /\ rq \in Request /\ Fits(rq) /\ rq.pc = "pipeline"
           /\ rq.g \in Payloads /\ rq.i \in 1..Len(rq.g.pipes)
           /\ rq.g.pipes[rq.i].id \in Pipelines
           /\ [stage |-> rq.g.pipes[rq.i].stage, seq |-> rq.g.pipes[rq.i].seq] \in PipeRecord
           /\ UNCHANGED <<reader, requests, faults>>
           /\ Fail(e, "pipeline conflict") \/ PipelineWritten(e, rq)
<1> DEFINE p == rq.g.pipes[rq.i]
           row == [stage |-> p.stage, seq |-> p.seq]
<1>1. rq \in Request /\ Fits(rq) /\ rq.pc = "pipeline"
    BY DEF TypeInv, RequestInv, WritePipeline
<1>2. rq.g \in Payloads /\ Valid(rq.g) /\ rq.i \in 1..Len(rq.g.pipes)
    BY <1>1 DEF Fits
<1>3. p.id \in Pipelines /\ p.stage \in Stages /\ p.seq \in Seqs
    BY <1>2, ValidIsFull
<1>4. CASE Clash(pipeRow, p.id, row)
    <2>1. Fail(e, "pipeline conflict")
        BY <1>4 DEF WritePipeline
    <2> QED BY <1>1, <1>2, <1>3, <2>1 DEF WritePipeline, PipeRecord
<1>5. CASE ~Clash(pipeRow, p.id, row)
    <2>1. /\ pipeRow' = [pipeRow EXCEPT ![p.id] = row]
          /\ Continue(e, [rq EXCEPT !.pc = "purge"])
          /\ UNCHANGED <<job, stageRow, stepRow>>
        BY <1>5 DEF WritePipeline
    <2>2. ASSUME NEW y \in Present(pipeRow) \ {p.id},
                 pipeRow[y].stage = p.stage, pipeRow[y].seq = p.seq
          PROVE  FALSE
        <3>1. \A col \in DOMAIN row \ {"reads"} : pipeRow[y][col] = row[col]
            BY <2>2
        <3> QED BY <1>5, <3>1 DEF Clash
    <2>3. PipelineWritten(e, rq)
        BY <2>1, <2>2 DEF PipelineWritten, Continue
    <2> QED BY <1>1, <1>2, <1>3, <2>3 DEF WritePipeline, PipeRecord
<1> QED BY <1>4, <1>5

(* The rows the deletion leaves are as they were; those of the pipeline are  *)
(* steps of the body, and nothing of another pipeline goes.                  *)
OrphansDeleted(rq) ==
    /\ \A x \in Present(stepRow)' :
          /\ x \in Present(stepRow) /\ stepRow'[x] = stepRow[x]
          /\ stepRow[x].pipe = At(rq) => \E s \in StepsIn(rq.g, At(rq)) : s.id = x
    /\ \A x \in Present(stepRow) : stepRow[x].pipe # At(rq) => stepRow'[x] = stepRow[x]

LEMMA DeleteOrphansDoes ==
    ASSUME TypeInv, NEW e \in Editors, DeleteOrphans(e), NEW rq, rq = editor[e]
    PROVE  /\ rq \in Request /\ Fits(rq) /\ rq.pc = "purge"
           /\ rq.g \in Payloads /\ rq.i \in 1..Len(rq.g.pipes)
           /\ UNCHANGED <<job, stageRow, pipeRow, reader, requests, faults, history>>
           /\ editor' = [editor EXCEPT ![e] = [rq EXCEPT !.pc = "band", !.j = 1]]
           /\ OrphansDeleted(rq)
<1> DEFINE wanted == {s.id : s \in StepsIn(rq.g, At(rq))}
<1>1. rq \in Request /\ Fits(rq) /\ rq.pc = "purge"
    BY DEF TypeInv, RequestInv, DeleteOrphans
<1>2. rq.g \in Payloads /\ rq.i \in 1..Len(rq.g.pipes)
    BY <1>1 DEF Fits
<1>3. /\ stepRow' = [y \in Steps |->
             IF y \in Present(stepRow) \ wanted /\ stepRow[y].pipe = At(rq) THEN Null
             ELSE stepRow[y]]
      /\ UNCHANGED <<job, stageRow, pipeRow, reader, requests, faults, history>>
      /\ editor' = [editor EXCEPT ![e] = [rq EXCEPT !.pc = "band", !.j = 1]]
    BY DEF DeleteOrphans, At, Continue
<1>4. Present(stepRow) \subseteq Steps
    BY DEF Present, TypeInv, RowsOK
<1> HIDE DEF wanted
<1>5. ASSUME NEW x \in Present(stepRow)'
      PROVE  /\ x \in Present(stepRow) /\ stepRow'[x] = stepRow[x]
             /\ stepRow[x].pipe = At(rq) => x \in wanted
    <2>1. x \in Steps /\ stepRow'[x] # Null
        BY <1>3, <1>5 DEF Present
    <2>2. /\ stepRow'[x] = stepRow[x]
          /\ ~(x \in Present(stepRow) \ wanted /\ stepRow[x].pipe = At(rq))
        BY <1>3, <2>1
    <2>3. x \in Present(stepRow)
        BY <2>1, <2>2 DEF Present, TypeInv, RowsOK
    <2> QED BY <2>2, <2>3
<1>6. ASSUME NEW x \in Present(stepRow), stepRow[x].pipe # At(rq)
      PROVE  stepRow'[x] = stepRow[x]
    BY <1>3, <1>4, <1>6
<1>7. OrphansDeleted(rq)
    BY <1>5, <1>6 DEF wanted, OrphansDeleted
<1> QED BY <1>1, <1>2, <1>3, <1>7

LEMMA TableInvStep == TypeInv /\ TableInv /\ [Next]_vars => TableInv'
<1> SUFFICES ASSUME TypeInv, TableInv, [Next]_vars PROVE TableInv'
    OBVIOUS
<1>1. ASSUME UNCHANGED <<stageRow, pipeRow, stepRow>> PROVE TableInv'
    BY <1>1 DEF TableInv, StagesApart, PipesApart, StepsApart, Present
<1>2. ASSUME NEW e \in Editors, NEW outcome, Fail(e, outcome) PROVE TableInv'
    BY <1>1, <1>2 DEF Fail, tables
<1>3. ASSUME NEW e \in Editors, WriteStage(e) PROVE TableInv'
    <2>1. PICK rq : rq = editor[e]
        OBVIOUS
    <2>2. PICK x, n : x \in Stages /\ x = rq.g.stages[rq.i].id /\ n = rq.g.stages[rq.i].seq
        BY <1>3, <2>1, WriteStageDoes
    <2>3. [seq |-> n] \in StageRecord
        BY <1>3, <2>1, <2>2, WriteStageDoes
    <2>4. CASE Fail(e, "stage conflict")
        BY <1>2, <2>4
    <2>5. CASE StageWritten(e, rq)
        <3>1. /\ stageRow' = [stageRow EXCEPT ![x] = [seq |-> n]]
              /\ \A y \in Present(stageRow) \ {x} : stageRow[y].seq # n
              /\ pipeRow' = pipeRow /\ stepRow' = stepRow
            BY <2>2, <2>5 DEF StageWritten
        <3>2. PICK row \in StageRecord : row = [seq |-> n]
            BY <2>3
        <3>3. row.seq = n
            BY <3>2
        <3>4. /\ Present(stageRow') = Present(stageRow) \cup {x}
              /\ stageRow'[x] = row
              /\ \A y \in Stages \ {x} : stageRow'[y] = stageRow[y]
              /\ IsFiniteSet(Present(stageRow'))
            <4>1. DOMAIN stageRow = Stages /\ x \in DOMAIN stageRow /\ row # Null
                BY <2>2, NullAssumption DEF TypeInv, RowsOK
            <4>2. PICK t : t = stageRow'
                OBVIOUS
            <4>3. t = [stageRow EXCEPT ![x] = row] /\ IsFiniteSet(Present(stageRow))
                BY <3>1, <3>2, <4>2 DEF TableInv
            <4>4. /\ Present(t) = Present(stageRow) \cup {x} /\ t[x] = row
                  /\ \A y \in Stages \ {x} : t[y] = stageRow[y]
                  /\ IsFiniteSet(Present(t))
                BY <4>1, <4>3, RowIsAdded
            <4> QED BY <4>2, <4>4
        <3>5. Present(stageRow) \subseteq Stages
            BY DEF Present, TypeInv, RowsOK
        <3>6. /\ Present(stageRow)' = Present(stageRow')
              /\ Present(pipeRow)' = Present(pipeRow) /\ Present(stepRow)' = Present(stepRow)
            BY <3>1 DEF Present
        <3>7. StagesApart'
            <4>1. SUFFICES ASSUME NEW y \in Present(stageRow'), NEW z \in Present(stageRow'),
                                  stageRow'[y].seq = stageRow'[z].seq
                           PROVE  y = z
                BY <3>6 DEF StagesApart
            <4>2. \A u \in Present(stageRow) \ {x} :
                     ~(stageRow[u].seq = row.seq)
                BY <3>1, <3>3
            <4>3. CASE y = x
                BY <3>4, <3>5, <4>1, <4>2, <4>3
            <4>4. CASE y # x /\ z = x
                BY <3>4, <3>5, <4>1, <4>2, <4>4
            <4>5. CASE y # x /\ z # x
                BY <3>4, <3>5, <4>1, <4>5 DEF TableInv, StagesApart
            <4> QED BY <4>3, <4>4, <4>5
        <3> QED BY <3>1, <3>4, <3>7, <3>6 DEF TableInv, PipesApart, StepsApart
    <2> QED BY <1>3, <2>1, <2>4, <2>5, WriteStageDoes
<1>4. ASSUME NEW e \in Editors, WritePipeline(e) PROVE TableInv'
    <2>1. PICK rq : rq = editor[e]
        OBVIOUS
    <2>2. PICK x, s, n : /\ x \in Pipelines /\ x = rq.g.pipes[rq.i].id
                         /\ s = rq.g.pipes[rq.i].stage
                         /\ n = rq.g.pipes[rq.i].seq
        BY <1>4, <2>1, WritePipelineDoes
    <2>3. [stage |-> s, seq |-> n] \in PipeRecord
        BY <1>4, <2>1, <2>2, WritePipelineDoes
    <2>4. CASE Fail(e, "pipeline conflict")
        BY <1>2, <2>4
    <2>5. CASE PipelineWritten(e, rq)
        <3>1. /\ pipeRow' = [pipeRow EXCEPT ![x] = [stage |-> s, seq |-> n]]
              /\ \A y \in Present(pipeRow) \ {x} : ~(pipeRow[y].stage = s /\ pipeRow[y].seq = n)
              /\ stageRow' = stageRow /\ stepRow' = stepRow
            BY <2>2, <2>5 DEF PipelineWritten
        <3>2. PICK row \in PipeRecord : row = [stage |-> s, seq |-> n]
            BY <2>3
        <3>3. row.stage = s /\ row.seq = n
            BY <3>2
        <3>4. /\ Present(pipeRow') = Present(pipeRow) \cup {x}
              /\ pipeRow'[x] = row
              /\ \A y \in Pipelines \ {x} : pipeRow'[y] = pipeRow[y]
              /\ IsFiniteSet(Present(pipeRow'))
            <4>1. DOMAIN pipeRow = Pipelines /\ x \in DOMAIN pipeRow /\ row # Null
                BY <2>2, NullAssumption DEF TypeInv, RowsOK
            <4>2. PICK t : t = pipeRow'
                OBVIOUS
            <4>3. t = [pipeRow EXCEPT ![x] = row] /\ IsFiniteSet(Present(pipeRow))
                BY <3>1, <3>2, <4>2 DEF TableInv
            <4>4. /\ Present(t) = Present(pipeRow) \cup {x} /\ t[x] = row
                  /\ \A y \in Pipelines \ {x} : t[y] = pipeRow[y]
                  /\ IsFiniteSet(Present(t))
                BY <4>1, <4>3, RowIsAdded
            <4> QED BY <4>2, <4>4
        <3>5. Present(pipeRow) \subseteq Pipelines
            BY DEF Present, TypeInv, RowsOK
        <3>6. /\ Present(pipeRow)' = Present(pipeRow')
              /\ Present(stageRow)' = Present(stageRow) /\ Present(stepRow)' = Present(stepRow)
            BY <3>1 DEF Present
        <3>7. PipesApart'
            <4>1. SUFFICES ASSUME NEW y \in Present(pipeRow'), NEW z \in Present(pipeRow'),
                                  pipeRow'[y].stage = pipeRow'[z].stage,
                                  pipeRow'[y].seq = pipeRow'[z].seq
                           PROVE  y = z
                BY <3>6 DEF PipesApart
            <4>2. \A u \in Present(pipeRow) \ {x} :
                     ~(pipeRow[u].stage = row.stage /\ pipeRow[u].seq = row.seq)
                BY <3>1, <3>3
            <4>3. CASE y = x
                BY <3>4, <3>5, <4>1, <4>2, <4>3
            <4>4. CASE y # x /\ z = x
                BY <3>4, <3>5, <4>1, <4>2, <4>4
            <4>5. CASE y # x /\ z # x
                BY <3>4, <3>5, <4>1, <4>5 DEF TableInv, PipesApart
            <4> QED BY <4>3, <4>4, <4>5
        <3> QED BY <3>1, <3>4, <3>7, <3>6 DEF TableInv, StagesApart, StepsApart
    <2> QED BY <1>4, <2>1, <2>4, <2>5, WritePipelineDoes
<1>5. ASSUME NEW e \in Editors, DeleteOrphans(e) PROVE TableInv'
    <2>1. /\ \A x \in Present(stepRow)' : x \in Present(stepRow) /\ stepRow'[x] = stepRow[x]
          /\ UNCHANGED <<stageRow, pipeRow>>
        BY <1>5, DeleteOrphansDoes DEF OrphansDeleted
    <2>2. IsFiniteSet(Present(stepRow))'
        BY <2>1, FS_Subset DEF TableInv
    <2>3. StepsApart'
        BY <2>1 DEF TableInv, StepsApart
    <2> QED BY <2>1, <2>2, <2>3 DEF TableInv, StagesApart, PipesApart, Present
<1>6. ASSUME NEW e \in Editors, WriteStep(e) PROVE TableInv'
    <2>1. PICK rq : rq = editor[e]
        OBVIOUS
    <2>2. PICK x \in Steps : x = StepId(rq)
        BY <1>6, <2>1, WriteStepDoes
    <2>3. UNCHANGED <<stageRow, pipeRow>>
        BY <1>6, <2>1, WriteStepDoes
    <2>4. CASE Fail(e, "step conflict")
        BY <1>2, <2>4
    <2>5. CASE Stores(e, rq)
        <3>1. PICK row \in RowRecord : row = RowStored(rq)
            BY <2>5 DEF Stores
        <3>2. stepRow' = [stepRow EXCEPT ![x] = row]
            BY <2>2, <2>5, <3>1 DEF Stores
        <3>3. \A y \in Present(stepRow) \ {x} :
                 ~(stepRow[y].pipe = row.pipe /\ stepRow[y].seq = row.seq)
            <4>1. row.pipe = At(rq) /\ row.seq = StepSequence(rq)
                BY <3>1 DEF RowStored
            <4> QED BY <2>2, <2>5, <4>1 DEF Stores, Collides
        <3>4. /\ Present(stepRow') = Present(stepRow) \cup {x}
              /\ stepRow'[x] = row
              /\ \A y \in Steps \ {x} : stepRow'[y] = stepRow[y]
              /\ IsFiniteSet(Present(stepRow'))
            <4>1. DOMAIN stepRow = Steps /\ row # Null
                BY NullAssumption DEF TypeInv, RowsOK
            <4>2. PICK t : t = stepRow'
                OBVIOUS
            <4>3. t = [stepRow EXCEPT ![x] = row] /\ IsFiniteSet(Present(stepRow))
                BY <3>1, <3>2, <4>2 DEF TableInv
            <4>4. /\ Present(t) = Present(stepRow) \cup {x} /\ t[x] = row
                  /\ \A y \in Steps \ {x} : t[y] = stepRow[y]
                  /\ IsFiniteSet(Present(t))
                BY <4>1, <4>3, RowIsAdded
            <4> QED BY <4>2, <4>4
        <3>5. Present(stepRow) \subseteq Steps
            BY DEF Present, TypeInv, RowsOK
        <3>6. /\ Present(stepRow)' = Present(stepRow')
              /\ Present(stageRow)' = Present(stageRow) /\ Present(pipeRow)' = Present(pipeRow)
            BY <2>3 DEF Present
        <3>7. StepsApart'
            <4>1. SUFFICES ASSUME NEW y \in Present(stepRow'), NEW z \in Present(stepRow'),
                                  stepRow'[y].pipe = stepRow'[z].pipe,
                                  stepRow'[y].seq = stepRow'[z].seq
                           PROVE  y = z
                BY <3>6 DEF StepsApart
            <4>2. \A u \in Present(stepRow) \ {x} :
                     ~(stepRow[u].pipe = row.pipe /\ stepRow[u].seq = row.seq)
                BY <3>3
            <4>3. CASE y = x
                BY <3>4, <3>5, <4>1, <4>2, <4>3
            <4>4. CASE y # x /\ z = x
                BY <3>4, <3>5, <4>1, <4>2, <4>4
            <4>5. CASE y # x /\ z # x
                BY <3>4, <3>5, <4>1, <4>5 DEF TableInv, StepsApart
            <4> QED BY <4>3, <4>4, <4>5
        <3> QED BY <2>3, <3>4, <3>7, <3>6 DEF TableInv, StagesApart, PipesApart
    <2> QED BY <1>6, <2>1, <2>4, <2>5, WriteStepDoes
<1>7. CASE \E e \in Editors : StatementRaises(e)
    BY <1>2, <1>7 DEF StatementRaises
<1>8. CASE \/ \E e \in Editors : \/ \E g \in Payloads : StartSave(e, g)
                                 \/ WriteJob(e) \/ WriteStatus(e)
                                 \/ \E st \in {"active", "disabled"} : StartPatch(e, st)
           \/ \E r \in Readers : Read(r)
           \/ Archive \/ UNCHANGED vars
    <2>1. UNCHANGED <<stageRow, pipeRow, stepRow>>
        BY <1>8 DEF StartSave, WriteJob, WriteStatus, StartPatch, Read, ReadJob, ReadStages,
                    ReadPipelines, ReadSteps, Resolved, Forget, Archive, vars, tables
    <2> QED BY <1>1, <2>1
<1> QED BY <1>3, <1>4, <1>5, <1>6, <1>7, <1>8 DEF Next, Save

LEMMA TableInvInit == Init => TableInv
<1> SUFFICES ASSUME Init PROVE TableInv
    OBVIOUS
<1>1. Present(stageRow) = {} /\ Present(pipeRow) = {} /\ Present(stepRow) = {}
    BY DEF Init, Present
<1> QED BY <1>1, FS_EmptySet DEF TableInv, StagesApart, PipesApart, StepsApart


-----------------------------------------------------------------------------
(* The rows of a query, ORDER BY sequence.                                   *)

Ahead(ids, table, x) == {y \in ids : table[y].seq < table[x].seq}

LEMMA SequenceIsSorted ==
    ASSUME NEW ids, IsFiniteSet(ids), NEW table,
           \A x \in ids : table[x].seq \in Nat,
           \A x, y \in ids : table[x].seq = table[y].seq => x = y,
           NEW found, found = InSequence(ids, table),
           NEW size, size = Cardinality(ids)
    PROVE  /\ size \in Nat
           /\ found \in [1..size -> ids]
           /\ \A n \in 1..size : Cardinality(Ahead(ids, table, found[n])) = n - 1
           /\ \A x \in ids : \E n \in 1..size : found[n] = x
           /\ \A m, n \in 1..size : m < n => table[found[m]].seq < table[found[n]].seq
<1>1. size \in Nat
    BY FS_CardinalityType
<1>2. ASSUME NEW x \in ids
      PROVE  /\ IsFiniteSet(Ahead(ids, table, x))
             /\ Cardinality(Ahead(ids, table, x)) \in 0..(size - 1)
    <2>1. Ahead(ids, table, x) \in SUBSET ids
        BY DEF Ahead
    <2>2. x \notin Ahead(ids, table, x)
        BY DEF Ahead
    <2>3. /\ IsFiniteSet(Ahead(ids, table, x))
          /\ Cardinality(Ahead(ids, table, x)) <= size
          /\ size = Cardinality(Ahead(ids, table, x)) => ids = Ahead(ids, table, x)
        BY <2>1, FS_Subset
    <2>4. Cardinality(Ahead(ids, table, x)) \in Nat
        BY <2>3, FS_CardinalityType
    <2> QED BY <1>1, <2>2, <2>3, <2>4
<1>3. ASSUME NEW x \in ids, NEW y \in ids, table[x].seq < table[y].seq
      PROVE  Cardinality(Ahead(ids, table, x)) < Cardinality(Ahead(ids, table, y))
    <2>1. Ahead(ids, table, x) \in SUBSET Ahead(ids, table, y)
        BY <1>3 DEF Ahead
    <2>2. x \in Ahead(ids, table, y) /\ x \notin Ahead(ids, table, x)
        BY <1>3 DEF Ahead
    <2>3. IsFiniteSet(Ahead(ids, table, y))
        BY <1>2
    <2>4. /\ Cardinality(Ahead(ids, table, x)) <= Cardinality(Ahead(ids, table, y))
          /\ Cardinality(Ahead(ids, table, y)) = Cardinality(Ahead(ids, table, x))
                => Ahead(ids, table, y) = Ahead(ids, table, x)
        BY <2>1, <2>3, FS_Subset
    <2> QED BY <1>1, <1>2, <2>2, <2>4
<1>4. ASSUME NEW x \in ids, NEW y \in ids,
             Cardinality(Ahead(ids, table, x)) = Cardinality(Ahead(ids, table, y))
      PROVE  x = y
    <2>1. ~(table[x].seq < table[y].seq) /\ ~(table[y].seq < table[x].seq)
        BY <1>1, <1>2, <1>3, <1>4
    <2> QED BY <2>1
<1> DEFINE f == [x \in ids |-> Cardinality(Ahead(ids, table, x))]
<1>5. f \in Surjection(ids, 0..(size - 1))
    <2>1. f \in [ids -> 0..(size - 1)]
        BY <1>2
    <2>2. f \in Injection(ids, 0..(size - 1))
        BY <2>1, <1>4 DEF Injection, IsInjective
    <2>3. IsFiniteSet(0..(size - 1)) /\ Cardinality(0..(size - 1)) = size
        <3>1. size - 1 \in Int /\ 0 \in Int
            BY <1>1
        <3>2. /\ IsFiniteSet(0..(size - 1))
              /\ Cardinality(0..(size - 1)) = IF 0 > size - 1 THEN 0 ELSE (size - 1) - 0 + 1
            BY <3>1, FS_Interval
        <3> QED BY <1>1, <3>2
    <2> HIDE DEF f
    <2> QED BY <2>2, <2>3, FS_Injection
<1>6. ASSUME NEW n \in 1..size
      PROVE  found[n] \in ids /\ Cardinality(Ahead(ids, table, found[n])) = n - 1
    <2>1. n - 1 \in 0..(size - 1)
        BY <1>1
    <2>2. PICK x \in ids : f[x] = n - 1
        BY <1>5, <2>1 DEF Surjection
    <2>3. Cardinality({y \in ids : table[y].seq < table[x].seq}) = n - 1
        BY <2>2 DEF Ahead
    <2>4. found[n] = CHOOSE z \in ids :
                        Cardinality({y \in ids : table[y].seq < table[z].seq}) = n - 1
        BY DEF InSequence
    <2>5. /\ found[n] \in ids
          /\ Cardinality({y \in ids : table[y].seq < table[found[n]].seq}) = n - 1
        BY <2>3, <2>4
    <2> QED BY <2>5 DEF Ahead
<1>7. found \in [1..size -> ids]
    <2> DEFINE nth(n) == CHOOSE x \in ids :
                   Cardinality({y \in ids : table[y].seq < table[x].seq}) = n - 1
    <2>1. found = [n \in 1..size |-> nth(n)]
        BY DEF InSequence
    <2> HIDE DEF nth
    <2>2. found = [n \in 1..size |-> found[n]]
        BY <2>1
    <2> QED BY <1>6, <2>2
<1>8. ASSUME NEW x \in ids PROVE \E n \in 1..size : found[n] = x
    <2>1. PICK k \in 0..(size - 1) : k = Cardinality(Ahead(ids, table, x))
        BY <1>2
    <2>2. k + 1 \in 1..size /\ (k + 1) - 1 = k
        BY <1>1
    <2>3. found[k + 1] = x
        BY <1>4, <1>6, <2>1, <2>2
    <2> QED BY <2>2, <2>3
<1>9. ASSUME NEW m \in 1..size, NEW n \in 1..size, m < n
      PROVE  table[found[m]].seq < table[found[n]].seq
    <2>1. found[m] \in ids /\ found[n] \in ids
        BY <1>6
    <2>2. CASE table[found[n]].seq < table[found[m]].seq
        <3>1. n - 1 < m - 1
            BY <1>3, <1>6, <2>1, <2>2
        <3> QED BY <1>9, <3>1
    <2>3. CASE table[found[n]].seq = table[found[m]].seq
        <3>1. n - 1 = m - 1
            BY <1>6, <2>1, <2>3
        <3> QED BY <1>9, <3>1
    <2> QED BY <2>1, <2>2, <2>3
<1> QED BY <1>1, <1>6, <1>7, <1>8, <1>9


-----------------------------------------------------------------------------
(* What a save that nobody overlaps has written.                             *)

RowsOf(p) == {x \in Present(stepRow) : stepRow[x].pipe = p}

StageHolds(s) == stageRow[s.id] = [seq |-> s.seq]
PipeHolds(p) == pipeRow[p.id] = [stage |-> p.stage, seq |-> p.seq]
StepHolds(g, p, k) ==
    stepRow[NthStep(g, p, k).id] = [pipe |-> p, seq |-> k, reads |-> NthStep(g, p, k).reads]

(* The rows of a pipeline are steps of the body, and all are in place.       *)
OnlyOf(g, p) == \A x \in RowsOf(p) : \E k \in 1..Size(g, p) : NthStep(g, p, k).id = x
StepsHold(g, p) == OnlyOf(g, p) /\ \A k \in 1..Size(g, p) : StepHolds(g, p, k)

TablesHold(g) ==
    /\ \A k \in 1..Len(g.stages) : StageHolds(g.stages[k])
    /\ \A k \in 1..Len(g.pipes) : PipeHolds(g.pipes[k]) /\ StepsHold(g, g.pipes[k].id)

(* The stages and the pipelines a save has behind it.                        *)
StageDone(rq, k) ==
    rq.pc \in {"pipeline", "purge", "band", "final"} \/ (rq.pc = "stage" /\ k < rq.i)
PipeDone(rq, k) == rq.pc \in {"pipeline", "purge", "band", "final"} /\ k < rq.i

Written(rq) ==
    /\ \A k \in 1..Len(rq.g.stages) : StageDone(rq, k) => StageHolds(rq.g.stages[k])
    /\ \A k \in 1..Len(rq.g.pipes) : PipeDone(rq, k) =>
          PipeHolds(rq.g.pipes[k]) /\ StepsHold(rq.g, rq.g.pipes[k].id)
    /\ rq.pc \in {"purge", "band", "final"} => PipeHolds(rq.g.pipes[rq.i])
    /\ rq.pc \in {"band", "final"} => OnlyOf(rq.g, At(rq))
    /\ rq.pc = "final" =>
          \A k \in 1..Size(rq.g, At(rq)) : k < rq.j => StepHolds(rq.g, At(rq), k)

SaveInv(rq) ==
    rq.pc \notin {"idle", "patch"} =>
      /\ settled = Null
      /\ rq.outcome = "none"
      /\ rq.pc = "job" => rq.i = 1
      /\ rq.alone /\ IdsDiffer(rq.g) => Written(rq)

SettledInv ==
    /\ \A e \in Editors, rq \in Request : editor[e] = rq => SaveInv(rq)
    /\ \A g \in Payloads : settled = g => Valid(g) /\ (IdsDiffer(g) => TablesHold(g))
    /\ \A r \in Readers : reader[r].base \in {Null, settled}

(* Places in a body whose ids differ are told apart by the id.               *)
LEMMA PlaceOfId ==
    ASSUME NEW g \in Payloads, IdsDiffer(g),
           NEW p, UniqueRows(StepsIn(g, p)), NEW k \in 1..Size(g, p),
           NEW q, UniqueRows(StepsIn(g, q)), NEW l \in 1..Size(g, q),
           NthStep(g, p, k).id = NthStep(g, q, l).id
    PROVE  p = q /\ k = l
<1>1. /\ NthStep(g, p, k) \in StepsIn(g, p) /\ NthStep(g, q, l) \in StepsIn(g, q)
      /\ Cardinality(Earlier(g, p, NthStep(g, p, k))) = k - 1
      /\ Cardinality(Earlier(g, q, NthStep(g, q, l))) = l - 1
    BY NthStepIsThere
<1>2. PICK a \in StepsAt(g, p) : NthStep(g, p, k) = g.steps[a]
    BY <1>1 DEF StepsIn
<1>3. PICK b \in StepsAt(g, q) : NthStep(g, q, l) = g.steps[b]
    BY <1>1 DEF StepsIn
<1>4. a = b
    BY <1>2, <1>3 DEF StepsAt, IdsDiffer, Differ
<1>5. p = q
    BY <1>2, <1>3, <1>4 DEF StepsAt
<1>6. k - 1 = l - 1
    BY <1>1, <1>2, <1>3, <1>4, <1>5
<1>7. Size(g, p) \in Nat /\ Size(g, q) \in Nat
    BY StepsAreFew
<1> QED BY <1>5, <1>6, <1>7

LEMMA StepIsPresent ==
    ASSUME TypeInv, NEW g \in Payloads, NEW p \in Pipelines, UniqueRows(StepsIn(g, p)),
           NEW k \in 1..Size(g, p), StepHolds(g, p, k)
    PROVE  /\ NthStep(g, p, k).id \in RowsOf(p)
           /\ stepRow[NthStep(g, p, k).id].pipe = p
           /\ stepRow[NthStep(g, p, k).id].seq = k
           /\ stepRow[NthStep(g, p, k).id].reads = NthStep(g, p, k).reads
<1>1. PICK s : s = NthStep(g, p, k)
    OBVIOUS
<1>2. s \in StepRecord
    BY <1>1, NthStepIsThere, StepsAreFew
<1>3. s.id \in Steps /\ s.reads \in SUBSET Steps
    BY <1>2 DEF StepRecord
<1>4. k \in Seqs
    <2>1. Size(g, p) \in Nat /\ Size(g, p) < TempBase /\ TempBase \in Nat
        BY StepsAreFew, BaseAssumption
    <2> QED BY <2>1 DEF Seqs
<1>5. PICK row : row = [pipe |-> p, seq |-> k, reads |-> s.reads]
    OBVIOUS
<1>6. /\ row \in RowRecord
      /\ row.pipe = p /\ row.seq = k /\ row.reads = s.reads
    BY <1>3, <1>4, <1>5 DEF RowRecord
<1>7. stepRow[s.id] = row /\ row # Null
    BY <1>1, <1>5, <1>6, NullAssumption DEF StepHolds
<1>8. s.id \in DOMAIN stepRow
    BY <1>3 DEF TypeInv, RowsOK
<1> QED BY <1>1, <1>6, <1>7, <1>8 DEF RowsOf, Present

(* Nothing is lost where the rows of a pipeline stay as they were.           *)
LEMMA StepsHoldStay ==
    ASSUME TypeInv, NEW g \in Payloads, NEW p \in Pipelines, UniqueRows(StepsIn(g, p)),
           StepsHold(g, p),
           \A x \in Present(stepRow)' : stepRow'[x].pipe = p =>
               x \in Present(stepRow) /\ stepRow'[x] = stepRow[x],
           \A x \in RowsOf(p) : stepRow'[x] = stepRow[x]
    PROVE  StepsHold(g, p)'
<1>1. OnlyOf(g, p)'
    <2>1. ASSUME NEW x \in Present(stepRow)', stepRow'[x].pipe = p
          PROVE  \E k \in 1..Size(g, p) : NthStep(g, p, k).id = x
        <3>1. x \in Present(stepRow) /\ stepRow[x].pipe = p
            BY <2>1
        <3> QED BY <3>1 DEF StepsHold, OnlyOf, RowsOf
    <2> QED BY <2>1 DEF OnlyOf, RowsOf
<1>2. ASSUME NEW k \in 1..Size(g, p) PROVE StepHolds(g, p, k)'
    <2>1. StepHolds(g, p, k)
        BY DEF StepsHold
    <2>2. NthStep(g, p, k).id \in RowsOf(p)
        BY <2>1, StepIsPresent
    <2> QED BY <2>1, <2>2 DEF StepHolds
<1> QED BY <1>1, <1>2 DEF StepsHold


(* A statement of a save: nobody else relies on the tables.                  *)
LEMMA SaveKeepsSettled ==
    ASSUME TypeInv, SettledInv, OneAlone, NEW e \in Editors, Saving(e),
           NEW q, editor' = [editor EXCEPT ![e] = q], reader' = reader,
           SaveInv(q)',
           \A g \in Payloads : settled' = g => Valid(g) /\ (IdsDiffer(g) => TablesHold(g)'),
           settled' = settled \/ editor[e].alone
    PROVE  SettledInv'
<1>1. PICK rq \in Request : rq = editor[e]
    BY DEF TypeInv, RequestInv
<1>2. settled = Null /\ \A r \in Readers : reader[r].base = Null
    BY <1>1 DEF SettledInv, SaveInv, Saving
<1>3. editor'[e] = q /\ \A f \in Editors \ {e} : editor'[f] = editor[f]
    BY DEF TypeInv, RequestInv
<1>4. ASSUME NEW f \in Editors, NEW w \in Request, editor'[f] = w
      PROVE  SaveInv(w)'
    <2>1. CASE f = e
        BY <1>3, <1>4, <2>1
    <2>2. CASE f # e /\ w.pc \notin {"idle", "patch"}
        <3>1. Saving(f) /\ editor[f] = w
            BY <1>3, <1>4, <2>2 DEF Saving
        <3>2. ~w.alone /\ ~editor[e].alone
            BY <2>2, <3>1 DEF OneAlone
        <3>3. SaveInv(w)
            BY <3>1 DEF SettledInv
        <3> QED BY <1>2, <2>2, <3>2, <3>3 DEF SaveInv
    <2>3. CASE w.pc \in {"idle", "patch"}
        BY <2>3 DEF SaveInv
    <2> QED BY <2>1, <2>2, <2>3
<1>5. \A r \in Readers : reader'[r].base \in {Null, settled'}
    BY <1>2
<1> QED BY <1>4, <1>5 DEF SettledInv

(* Nothing of a body is written or begun.                                    *)
LEMMA QuietKeepsSettled ==
    ASSUME SettledInv, UNCHANGED <<stageRow, pipeRow, stepRow, settled>>,
           \A f \in Editors : editor'[f].pc \in {"idle", "patch"} \/ editor'[f] = editor[f],
           \A r \in Readers : reader'[r].base \in {Null, reader[r].base, settled}
    PROVE  SettledInv'
<1>1. ASSUME NEW q, Written(q) PROVE Written(q)'
    BY <1>1 DEF Written, StageHolds, PipeHolds, StepsHold, StepHolds, OnlyOf, RowsOf, Present
<1>2. ASSUME NEW g, TablesHold(g) PROVE TablesHold(g)'
    BY <1>2 DEF TablesHold, StageHolds, PipeHolds, StepsHold, StepHolds, OnlyOf, RowsOf,
                Present
<1>3. ASSUME NEW f \in Editors, NEW w \in Request, editor'[f] = w
      PROVE  SaveInv(w)'
    <2>1. CASE w.pc \in {"idle", "patch"}
        BY <2>1 DEF SaveInv
    <2>2. CASE editor[f] = w
        BY <1>1, <2>2 DEF SettledInv, SaveInv
    <2> QED BY <1>3, <2>1, <2>2
<1>4. \A r \in Readers : reader'[r].base \in {Null, settled'}
    BY DEF SettledInv
<1> QED BY <1>2, <1>3, <1>4 DEF SettledInv

LEMMA FailKeepsSettled ==
    ASSUME TypeInv, SettledInv, NEW e \in Editors, Saving(e), reader' = reader,
           NEW outcome \in {"stage conflict", "pipeline conflict", "step conflict", "error"},
           Fail(e, outcome)
    PROVE  SettledInv'
<1>1. editor'[e].pc = "idle" /\ \A f \in Editors \ {e} : editor'[f] = editor[f]
    <2>1. editor'[e] = [editor[e] EXCEPT !.pc = "idle", !.outcome = outcome]
        BY FailureFits
    <2>2. editor[e] \in Request
        BY DEF TypeInv, RequestInv
    <2> QED BY <2>1, <2>2, FailureFits DEF Request
<1>2. UNCHANGED <<stageRow, pipeRow, stepRow, settled>>
    BY DEF Fail, tables
<1>3. \A f \in Editors : editor'[f].pc \in {"idle", "patch"} \/ editor'[f] = editor[f]
    BY <1>1
<1> QED BY <1>2, <1>3, QuietKeepsSettled

LEMMA StartKeepsSettled ==
    ASSUME TypeInv, SettledInv, NEW e \in Editors, NEW g \in Payloads, StartSave(e, g)
    PROVE  SettledInv'
<1>1. editor[e].pc = "idle" /\ UNCHANGED <<stageRow, pipeRow, stepRow>>
    BY DEF StartSave, tables
<1>2. editor \in [Editors -> Request]
    BY DEF TypeInv, RequestInv
<1>3. CASE ~Valid(g)
    <2>1. editor' = [editor EXCEPT ![e] = [NoRequest EXCEPT !.outcome = "invalid"]]
        BY <1>3 DEF StartSave
    <2>2. editor'[e].pc = "idle" /\ \A f \in Editors \ {e} : editor'[f] = editor[f]
        BY <1>2, <2>1 DEF NoRequest
    <2>3. reader' = reader /\ settled' = settled
        BY <1>3 DEF StartSave
    <2>4. \A f \in Editors : editor'[f].pc \in {"idle", "patch"} \/ editor'[f] = editor[f]
        BY <2>2
    <2> QED BY <1>1, <2>3, <2>4, QuietKeepsSettled
<1>4. CASE Valid(g)
    <2>1. PICK b : b = (Overlapping(e) = {})
        OBVIOUS
    <2>2. /\ editor' = [f \in Editors |->
                 IF f = e THEN [NoRequest EXCEPT !.pc = "job", !.g = g, !.alone = b]
                 ELSE [editor[f] EXCEPT !.alone = @ /\ ~Saving(f)]]
          /\ reader' = [r \in Readers |-> [reader[r] EXCEPT !.base = Null]]
          /\ settled' = Null
        BY <1>4, <2>1 DEF StartSave
    <2>3. editor'[e].pc = "job" /\ editor'[e].i = 1 /\ editor'[e].outcome = "none"
        BY <2>2 DEF NoRequest
    <2>4. ASSUME NEW f \in Editors, f # e, editor'[f].pc \notin {"idle", "patch"}
          PROVE  /\ editor'[f].outcome = "none" /\ ~editor'[f].alone
                 /\ editor'[f].pc = "job" => editor'[f].i = 1
        <3>1. editor'[f] = [editor[f] EXCEPT !.alone = editor[f].alone /\ ~Saving(f)]
            BY <2>2, <2>4
        <3>2. PICK c \in BOOLEAN : c = (editor[f].alone /\ ~Saving(f))
            BY Zenon
        <3>3. PICK w : w = [editor[f] EXCEPT !.alone = c]
            OBVIOUS
        <3>4. PICK rq \in Request : rq = editor[f]
            BY <1>2
        <3>5. w.pc = rq.pc /\ w.i = rq.i /\ w.outcome = rq.outcome /\ w.alone = c
            BY <3>3, <3>4 DEF Request
        <3>6. editor'[f] = w
            BY <3>1, <3>2, <3>3
        <3>7. Saving(f)
            BY <2>4, <3>4, <3>5, <3>6 DEF Saving
        <3>8. SaveInv(rq)
            BY <3>4 DEF SettledInv
        <3> QED BY <2>4, <3>2, <3>5, <3>6, <3>7, <3>8 DEF SaveInv
    <2>5. \A r \in Readers : reader'[r].base = Null
        BY <2>2 DEF TypeInv, ReaderInv, Shaped
    <2>6. ASSUME NEW f \in Editors, NEW w \in Request, editor'[f] = w
          PROVE  SaveInv(w)'
        <3>1. CASE f = e
            <4>1. w.pc = "job" /\ w.i = 1 /\ w.outcome = "none"
                BY <2>3, <2>6, <3>1
            <4>2. Written(w)'
                BY <4>1 DEF Written, StageDone, PipeDone
            <4> QED BY <2>2, <4>1, <4>2 DEF SaveInv
        <3>2. CASE f # e
            BY <2>2, <2>4, <2>6, <3>2 DEF SaveInv
        <3> QED BY <3>1, <3>2
    <2> QED BY <2>2, <2>5, <2>6, PayloadAssumption DEF SettledInv
<1> QED BY <1>3, <1>4


LEMMA JobKeepsSettled ==
    ASSUME TypeInv, SettledInv, OneAlone, NEW e \in Editors, WriteJob(e)
    PROVE  SettledInv'
<1>1. PICK rq \in Request : rq = editor[e]
    BY DEF TypeInv, RequestInv
<1>2. PICK q : q = [rq EXCEPT !.pc = "stage"]
    OBVIOUS
<1>3. /\ rq.pc = "job" /\ editor' = [editor EXCEPT ![e] = q]
      /\ UNCHANGED <<reader, settled>>
    BY <1>1, <1>2 DEF WriteJob, Continue, history
<1>4. SaveInv(rq)
    BY <1>1 DEF SettledInv
<1>5. q.pc = "stage" /\ q.i = 1 /\ q.outcome = "none" /\ q.g = rq.g
    BY <1>2, <1>3, <1>4 DEF Request, SaveInv
<1>6. Written(q)'
    <2>1. \A k \in 1..Len(q.g.stages) : ~(k < 1)
        OBVIOUS
    <2> QED BY <1>5, <2>1 DEF Written, StageDone, PipeDone
<1>7. SaveInv(q)'
    BY <1>3, <1>4, <1>5, <1>6 DEF SaveInv
<1>8. Saving(e) /\ settled = Null
    BY <1>1, <1>3, <1>4 DEF Saving, SaveInv
<1> QED BY <1>3, <1>7, <1>8, PayloadAssumption, SaveKeepsSettled

LEMMA StageKeepsSettled ==
    ASSUME TypeInv, SettledInv, OneAlone, NEW e \in Editors, WriteStage(e)
    PROVE  SettledInv'
<1>1. PICK rq : rq = editor[e]
    OBVIOUS
<1>2. /\ rq \in Request /\ Fits(rq) /\ rq.pc = "stage"
      /\ rq.g \in Payloads /\ rq.i \in 1..Len(rq.g.stages)
      /\ UNCHANGED <<reader, requests, faults>>
      /\ Fail(e, "stage conflict") \/ StageWritten(e, rq)
    BY <1>1, WriteStageDoes
<1>3. Saving(e)
    BY <1>1, <1>2 DEF Saving
<1>4. CASE Fail(e, "stage conflict")
    BY <1>2, <1>3, <1>4, FailKeepsSettled
<1>5. CASE StageWritten(e, rq)
    <2>1. PICK g \in Payloads : g = rq.g /\ Valid(g)
        BY <1>2 DEF Fits
    <2>2. /\ Len(g.stages) \in Nat /\ Len(g.pipes) \in Nat
          /\ \A k \in 1..Len(g.stages) : g.stages[k].id \in Stages
        BY <2>1, ValidIsFull
    <2>10. rq.i \in Nat /\ 1 <= rq.i /\ rq.i <= Len(g.stages)
        <3>1. rq.i \in 1..Len(g.stages)
            BY <1>2, <2>1
        <3> QED BY <2>2, <3>1
    <2>3. PICK q : q = IF rq.i < Len(g.stages) THEN [rq EXCEPT !.i = @ + 1]
                       ELSE [rq EXCEPT !.pc = "pipeline", !.i = 1]
        OBVIOUS
    <2>4. /\ editor' = [editor EXCEPT ![e] = q]
          /\ stageRow' = [stageRow EXCEPT ![g.stages[rq.i].id] = [seq |-> g.stages[rq.i].seq]]
          /\ UNCHANGED <<pipeRow, stepRow, settled>>
        BY <1>5, <2>1, <2>3 DEF StageWritten, history
    <2>5. /\ q.g = g /\ q.alone = rq.alone /\ q.outcome = rq.outcome
          /\ \/ q.pc = "stage" /\ q.i = rq.i + 1
             \/ q.pc = "pipeline" /\ q.i = 1 /\ rq.i = Len(g.stages)
        <3>1. rq.i < Len(g.stages) \/ rq.i = Len(g.stages)
            BY <2>2, <2>10
        <3> QED BY <1>2, <2>1, <2>3, <3>1 DEF Request
    <2>6. SaveInv(rq)
        BY <1>1, <1>2 DEF SettledInv
    <2>7. ASSUME rq.alone, IdsDiffer(g) PROVE Written(q)'
        <3>1. Written(rq)
            BY <1>2, <2>1, <2>6, <2>7 DEF SaveInv
        <3>2. ASSUME NEW k \in 1..Len(g.stages), k <= rq.i
              PROVE  StageHolds(g.stages[k])'
            <4>1. g.stages[k].id \in DOMAIN stageRow /\ g.stages[rq.i].id \in DOMAIN stageRow
                BY <1>2, <2>1, <2>2 DEF TypeInv, RowsOK
            <4>2. CASE k = rq.i
                BY <2>4, <4>1, <4>2 DEF StageHolds
            <4>3. CASE k # rq.i
                <5>1. k < rq.i
                    BY <2>10, <3>2, <4>3
                <5>2. StageHolds(g.stages[k])
                    BY <1>2, <2>1, <3>1, <5>1 DEF Written, StageDone
                <5>3. g.stages[k].id # g.stages[rq.i].id
                    <6>1. DOMAIN g.stages = 1..Len(g.stages)
                        BY <2>1, PayloadAssumption DEF Payload
                    <6> QED BY <1>2, <2>1, <2>7, <4>3, <6>1 DEF IdsDiffer, Differ
                <5> QED BY <2>4, <4>1, <5>2, <5>3 DEF StageHolds
            <4> QED BY <4>2, <4>3
        <3>3. ASSUME NEW k \in 1..Len(g.stages), StageDone(q, k)
              PROVE  StageHolds(g.stages[k])'
            <4>1. k <= rq.i
                BY <2>2, <2>5, <2>10, <3>3 DEF StageDone
            <4> QED BY <3>2, <4>1
        <3>4. \A k \in 1..Len(g.pipes) : ~PipeDone(q, k)
            BY <2>5 DEF PipeDone
        <3>5. q.pc \notin {"purge", "band", "final"}
            BY <2>5
        <3> QED BY <2>5, <3>3, <3>4, <3>5 DEF Written
    <2>8. SaveInv(q)'
        BY <1>2, <2>4, <2>5, <2>6, <2>7 DEF SaveInv
    <2>9. settled = Null
        BY <1>2, <2>6 DEF SaveInv
    <2> QED BY <1>2, <1>3, <2>4, <2>8, <2>9, PayloadAssumption, SaveKeepsSettled
<1> QED BY <1>2, <1>4, <1>5

LEMMA PipelineKeepsSettled ==
    ASSUME TypeInv, SettledInv, OneAlone, NEW e \in Editors, WritePipeline(e)
    PROVE  SettledInv'
<1>1. PICK rq : rq = editor[e]
    OBVIOUS
<1>2. /\ rq \in Request /\ Fits(rq) /\ rq.pc = "pipeline"
      /\ rq.g \in Payloads /\ rq.i \in 1..Len(rq.g.pipes)
      /\ UNCHANGED <<reader, requests, faults>>
      /\ Fail(e, "pipeline conflict") \/ PipelineWritten(e, rq)
    BY <1>1, WritePipelineDoes
<1>3. Saving(e)
    BY <1>1, <1>2 DEF Saving
<1>4. CASE Fail(e, "pipeline conflict")
    BY <1>2, <1>3, <1>4, FailKeepsSettled
<1>5. CASE PipelineWritten(e, rq)
    <2>1. PICK g \in Payloads : g = rq.g /\ Valid(g)
        BY <1>2 DEF Fits
    <2>2. /\ Len(g.pipes) \in Nat
          /\ \A k \in 1..Len(g.pipes) : g.pipes[k].id \in Pipelines
        BY <2>1, ValidIsFull
    <2>10. rq.i \in Nat
        BY <1>2 DEF Request
    <2>3. PICK q : q = [rq EXCEPT !.pc = "purge"]
        OBVIOUS
    <2>4. /\ editor' = [editor EXCEPT ![e] = q]
          /\ pipeRow' = [pipeRow EXCEPT ![g.pipes[rq.i].id] =
                [stage |-> g.pipes[rq.i].stage, seq |-> g.pipes[rq.i].seq]]
          /\ UNCHANGED <<stageRow, stepRow, settled>>
        BY <1>5, <2>1, <2>3 DEF PipelineWritten, history
    <2>5. /\ q.g = g /\ q.alone = rq.alone /\ q.outcome = rq.outcome
          /\ q.pc = "purge" /\ q.i = rq.i
        BY <1>2, <2>1, <2>3 DEF Request
    <2>6. SaveInv(rq)
        BY <1>1, <1>2 DEF SettledInv
    <2>7. ASSUME rq.alone, IdsDiffer(g) PROVE Written(q)'
        <3>1. Written(rq)
            BY <1>2, <2>1, <2>6, <2>7 DEF SaveInv
        <3>2. \A k \in 1..Len(g.stages) : StageHolds(g.stages[k])'
            BY <1>2, <2>1, <2>4, <3>1 DEF Written, StageDone, StageHolds
        <3>3. ASSUME NEW k \in 1..Len(g.pipes), PipeDone(q, k)
              PROVE  PipeHolds(g.pipes[k])' /\ StepsHold(g, g.pipes[k].id)'
            <4>1. k < rq.i
                BY <2>5, <3>3 DEF PipeDone
            <4>2. PipeHolds(g.pipes[k]) /\ StepsHold(g, g.pipes[k].id)
                BY <1>2, <2>1, <3>1, <4>1 DEF Written, PipeDone
            <4>3. g.pipes[k].id # g.pipes[rq.i].id
                <5>1. DOMAIN g.pipes = 1..Len(g.pipes)
                    BY <2>1, PayloadAssumption DEF Payload
                <5>2. k # rq.i
                    BY <4>1, <2>10
                <5> QED BY <1>2, <2>1, <2>7, <5>1, <5>2 DEF IdsDiffer, Differ
            <4>4. g.pipes[k].id \in DOMAIN pipeRow
                BY <2>2 DEF TypeInv, RowsOK
            <4>5. PipeHolds(g.pipes[k])'
                BY <2>4, <4>2, <4>3, <4>4 DEF PipeHolds
            <4>6. StepsHold(g, g.pipes[k].id)'
                BY <2>4, <4>2 DEF StepsHold, StepHolds, OnlyOf, RowsOf, Present
            <4> QED BY <4>5, <4>6
        <3>4. PipeHolds(g.pipes[rq.i])'
            <4>1. g.pipes[rq.i].id \in DOMAIN pipeRow
                BY <1>2, <2>1, <2>2 DEF TypeInv, RowsOK
            <4> QED BY <2>4, <4>1 DEF PipeHolds
        <3> QED BY <2>5, <3>2, <3>3, <3>4 DEF Written
    <2>8. SaveInv(q)'
        BY <1>2, <2>4, <2>5, <2>6, <2>7 DEF SaveInv
    <2>9. settled = Null
        BY <1>2, <2>6 DEF SaveInv
    <2> QED BY <1>2, <1>3, <2>4, <2>8, <2>9, PayloadAssumption, SaveKeepsSettled
<1> QED BY <1>2, <1>4, <1>5

LEMMA DeleteKeepsSettled ==
    ASSUME TypeInv, SettledInv, OneAlone, NEW e \in Editors, DeleteOrphans(e)
    PROVE  SettledInv'
<1>1. PICK rq : rq = editor[e]
    OBVIOUS
<1>2. PICK q : q = [rq EXCEPT !.pc = "band", !.j = 1]
    OBVIOUS
<1>3. /\ rq \in Request /\ Fits(rq) /\ rq.pc = "purge"
      /\ rq.i \in 1..Len(rq.g.pipes)
      /\ UNCHANGED <<stageRow, pipeRow, reader, settled>>
      /\ editor' = [editor EXCEPT ![e] = q]
      /\ OrphansDeleted(rq)
    <2>1. /\ rq \in Request /\ Fits(rq) /\ rq.pc = "purge"
          /\ rq.i \in 1..Len(rq.g.pipes)
          /\ UNCHANGED <<stageRow, pipeRow, reader, history>>
          /\ editor' = [editor EXCEPT ![e] = [rq EXCEPT !.pc = "band", !.j = 1]]
        BY <1>1, DeleteOrphansDoes
    <2>2. OrphansDeleted(rq)
        BY <1>1, DeleteOrphansDoes
    <2>3. settled' = settled
        BY <2>1 DEF history
    <2> QED BY <1>2, <2>1, <2>2, <2>3
<1>4. Saving(e)
    BY <1>1, <1>3 DEF Saving
<1>5. PICK g \in Payloads : g = rq.g /\ Valid(g)
    BY <1>3 DEF Fits
<1>6. /\ Len(g.pipes) \in Nat
      /\ \A k \in 1..Len(g.pipes) : /\ g.pipes[k].id \in Pipelines
                                    /\ UniqueRows(StepsIn(g, g.pipes[k].id))
    BY <1>5, ValidIsFull
<1>7. /\ q.g = g /\ q.alone = rq.alone /\ q.outcome = rq.outcome
      /\ q.pc = "band" /\ q.i = rq.i /\ q.j = 1 /\ At(q) = At(rq)
    BY <1>2, <1>3, <1>5 DEF Request, At
<1>8. SaveInv(rq)
    BY <1>1, <1>3 DEF SettledInv
<1>9. ASSUME rq.alone, IdsDiffer(g) PROVE Written(q)'
    <2>1. Written(rq)
        BY <1>3, <1>5, <1>8, <1>9 DEF SaveInv
    <2>2. \A k \in 1..Len(g.stages) : StageHolds(g.stages[k])'
        BY <1>3, <1>5, <2>1 DEF Written, StageDone, StageHolds
    <2>3. ASSUME NEW k \in 1..Len(g.pipes), PipeDone(q, k)
          PROVE  PipeHolds(g.pipes[k])' /\ StepsHold(g, g.pipes[k].id)'
        <3>1. k < rq.i
            BY <1>7, <2>3 DEF PipeDone
        <3>2. PipeHolds(g.pipes[k]) /\ StepsHold(g, g.pipes[k].id)
            BY <1>3, <1>5, <2>1, <3>1 DEF Written, PipeDone
        <3>3. g.pipes[k].id # At(rq)
            <4>1. DOMAIN g.pipes = 1..Len(g.pipes)
                BY <1>5, PayloadAssumption DEF Payload
            <4>2. k # rq.i
                BY <1>3, <1>5, <1>6, <3>1
            <4> QED BY <1>3, <1>5, <1>9, <4>1, <4>2 DEF IdsDiffer, Differ, At
        <3>4. PipeHolds(g.pipes[k])'
            BY <1>3, <3>2 DEF PipeHolds
        <3>5. \A x \in RowsOf(g.pipes[k].id) : stepRow'[x] = stepRow[x]
            BY <1>3, <3>3 DEF RowsOf, OrphansDeleted
        <3>6. \A x \in Present(stepRow)' : x \in Present(stepRow) /\ stepRow'[x] = stepRow[x]
            BY <1>3 DEF OrphansDeleted
        <3>7. StepsHold(g, g.pipes[k].id)'
            BY <1>6, <3>2, <3>5, <3>6, StepsHoldStay
        <3> QED BY <3>4, <3>7
    <2>4. PipeHolds(g.pipes[rq.i])'
        BY <1>3, <1>5, <2>1 DEF Written, PipeHolds
    <2>5. OnlyOf(g, At(rq))'
        <3>1. ASSUME NEW x \in Present(stepRow)', stepRow'[x].pipe = At(rq)
              PROVE  \E k \in 1..Size(g, At(rq)) : NthStep(g, At(rq), k).id = x
            <4>1. PICK s \in StepsIn(g, At(rq)) : s.id = x
                BY <1>3, <1>5, <3>1 DEF OrphansDeleted
            <4>2. UniqueRows(StepsIn(g, At(rq)))
                BY <1>3, <1>5, <1>6 DEF At
            <4> QED BY <4>1, <4>2, EveryStepIsNth
        <3> QED BY <3>1 DEF OnlyOf, RowsOf
    <2>6. q.pc \in {"purge", "band", "final"} /\ q.pc # "final"
        BY <1>7
    <2> QED BY <1>7, <2>2, <2>3, <2>4, <2>5, <2>6 DEF Written
<1>10. SaveInv(q)'
    BY <1>3, <1>7, <1>8, <1>9 DEF SaveInv
<1>11. settled = Null
    BY <1>3, <1>8 DEF SaveInv
<1> QED BY <1>3, <1>4, <1>10, <1>11, PayloadAssumption, SaveKeepsSettled


-----------------------------------------------------------------------------
(* What a statement of a reader makes of its fields.                         *)

StageItems ==
    LET found == InSequence(Present(stageRow), stageRow)
    IN  [i \in 1..Cardinality(Present(stageRow)) |-> <<"stage", found[i]>>]

PipesOf(s) == {p \in Present(pipeRow) : pipeRow[p].stage = s}

PipeItems(s) ==
    LET found == InSequence(PipesOf(s), pipeRow)
    IN  [i \in DOMAIN found |-> <<"pipeline", found[i], s>>]

StepsRead(p) ==
    LET found == InSequence(RowsOf(p), stepRow)
    IN  [i \in DOMAIN found |-> [id |-> found[i], reads |-> stepRow[found[i]].reads]]

Becomes(r, pc, todo, got, base) ==
    /\ reader'[r].pc = pc /\ reader'[r].todo = todo
    /\ reader'[r].got = got /\ reader'[r].base = base
    /\ \A x \in Readers \ {r} : reader'[x] = reader[x]

LEMMA ReaderBecomes ==
    ASSUME ReaderInv, NEW r \in Readers, NEW w, reader' = [reader EXCEPT ![r] = w]
    PROVE  Becomes(r, w.pc, w.todo, w.got, w.base)
BY DEF ReaderInv, Becomes

LEMMA ReadDoes ==
    ASSUME TypeInv, NEW r \in Readers, NEW q, q = reader[r]
    PROVE  /\ ReadJob(r) => q.pc = "idle" /\ Becomes(r, "stages", <<>>, <<>>, settled)
           /\ ReadStages(r) =>
                 q.pc = "stages" /\ Becomes(r, "level", StageItems, q.got, q.base)
           /\ ReadPipelines(r) =>
                 /\ q.pc = "level" /\ q.todo # <<>> /\ Head(q.todo)[1] = "stage"
                 /\ Becomes(r, "level", PipeItems(Head(q.todo)[2]) \o Tail(q.todo),
                            q.got, q.base)
           /\ ReadSteps(r) =>
                 /\ q.pc = "level" /\ q.todo # <<>> /\ Head(q.todo)[1] = "pipeline"
                 /\ Becomes(r, "level", Tail(q.todo),
                            Append(q.got, [pipe |-> Head(q.todo)[2], stage |-> Head(q.todo)[3],
                                           steps |-> StepsRead(Head(q.todo)[2])]),
                            q.base)
           /\ Resolved(r) =>
                 /\ q.pc = "level" /\ q.todo = <<>>
                 /\ Becomes(r, "resolved", q.todo, q.got, q.base)
           /\ Forget(r) => Becomes(r, "idle", <<>>, <<>>, Null)
<1>1. /\ q = [pc |-> q.pc, todo |-> q.todo, got |-> q.got, base |-> q.base]
      /\ ReaderInv /\ reader = [x \in Readers |-> reader[x]]
    BY DEF TypeInv, ReaderInv, Shaped
<1>2. ASSUME ReadJob(r)
      PROVE  q.pc = "idle" /\ Becomes(r, "stages", <<>>, <<>>, settled)
    <2>1. PICK w : w = [NoRead EXCEPT !.pc = "stages", !.base = settled]
        OBVIOUS
    <2>2. w.pc = "stages" /\ w.todo = <<>> /\ w.got = <<>> /\ w.base = settled
        BY <2>1 DEF NoRead
    <2>3. q.pc = "idle" /\ reader' = [reader EXCEPT ![r] = w]
        BY <1>2, <2>1 DEF ReadJob
    <2>4. Becomes(r, w.pc, w.todo, w.got, w.base)
        BY <1>1, <2>3, ReaderBecomes
    <2> QED BY <2>2, <2>3, <2>4
<1>3. ASSUME ReadStages(r)
      PROVE  q.pc = "stages" /\ Becomes(r, "level", StageItems, q.got, q.base)
    <2>1. PICK t : t = StageItems
        OBVIOUS
    <2>2. q.pc = "stages" /\ reader' = [reader EXCEPT ![r].pc = "level", ![r].todo = t]
        BY <1>3, <2>1 DEF ReadStages, StageItems
    <2>3. PICK w : w = [q EXCEPT !.pc = "level", !.todo = t]
        OBVIOUS
    <2>4. w.pc = "level" /\ w.todo = t /\ w.got = q.got /\ w.base = q.base
        BY <1>1, <2>3
    <2>5. reader' = [reader EXCEPT ![r] = w]
        BY <1>1, <2>2, <2>3
    <2>6. Becomes(r, w.pc, w.todo, w.got, w.base)
        BY <1>1, <2>5, ReaderBecomes
    <2> QED BY <2>1, <2>2, <2>4, <2>6
<1>4. ASSUME ReadPipelines(r)
      PROVE  /\ q.pc = "level" /\ q.todo # <<>> /\ Head(q.todo)[1] = "stage"
             /\ Becomes(r, "level", PipeItems(Head(q.todo)[2]) \o Tail(q.todo), q.got, q.base)
    <2>1. PICK t : t = PipeItems(Head(q.todo)[2]) \o Tail(q.todo)
        OBVIOUS
    <2>2. /\ q.pc = "level" /\ q.todo # <<>> /\ Head(q.todo)[1] = "stage"
          /\ reader' = [reader EXCEPT ![r].todo = t]
        BY <1>1, <1>4, <2>1 DEF ReadPipelines, PipeItems, PipesOf
    <2>3. PICK w : w = [q EXCEPT !.todo = t]
        OBVIOUS
    <2>4. w.pc = "level" /\ w.todo = t /\ w.got = q.got /\ w.base = q.base
        BY <1>1, <2>2, <2>3
    <2>5. reader' = [reader EXCEPT ![r] = w]
        BY <1>1, <2>2, <2>3
    <2>6. Becomes(r, w.pc, w.todo, w.got, w.base)
        BY <1>1, <2>5, ReaderBecomes
    <2> QED BY <2>1, <2>2, <2>4, <2>6
<1>5. ASSUME ReadSteps(r)
      PROVE  /\ q.pc = "level" /\ q.todo # <<>> /\ Head(q.todo)[1] = "pipeline"
             /\ Becomes(r, "level", Tail(q.todo),
                        Append(q.got, [pipe |-> Head(q.todo)[2], stage |-> Head(q.todo)[3],
                                       steps |-> StepsRead(Head(q.todo)[2])]),
                        q.base)
    <2>1. PICK t, u : /\ t = Tail(q.todo)
                      /\ u = Append(q.got,
                                [pipe |-> Head(q.todo)[2], stage |-> Head(q.todo)[3],
                                 steps |-> StepsRead(Head(q.todo)[2])])
        OBVIOUS
    <2>2. /\ q.pc = "level" /\ q.todo # <<>> /\ Head(q.todo)[1] = "pipeline"
          /\ reader' = [reader EXCEPT ![r].todo = t, ![r].got = u]
        BY <1>1, <1>5, <2>1 DEF ReadSteps, StepsRead, RowsOf
    <2>3. PICK w : w = [q EXCEPT !.todo = t, !.got = u]
        OBVIOUS
    <2>4. w.pc = "level" /\ w.todo = t /\ w.got = u /\ w.base = q.base
        BY <1>1, <2>2, <2>3
    <2>5. reader' = [reader EXCEPT ![r] = w]
        BY <1>1, <2>2, <2>3
    <2>6. Becomes(r, w.pc, w.todo, w.got, w.base)
        BY <1>1, <2>5, ReaderBecomes
    <2> QED BY <2>1, <2>2, <2>4, <2>6
<1>6. ASSUME Resolved(r)
      PROVE  /\ q.pc = "level" /\ q.todo = <<>>
             /\ Becomes(r, "resolved", q.todo, q.got, q.base)
    <2>1. PICK w : w = [q EXCEPT !.pc = "resolved"]
        OBVIOUS
    <2>2. w.pc = "resolved" /\ w.todo = q.todo /\ w.got = q.got /\ w.base = q.base
        BY <1>1, <2>1
    <2>3. reader' = [reader EXCEPT ![r] = w]
        BY <1>1, <1>6, <2>1 DEF Resolved
    <2>4. Becomes(r, w.pc, w.todo, w.got, w.base)
        BY <1>1, <2>3, ReaderBecomes
    <2> QED BY <1>6, <2>2, <2>4 DEF Resolved
<1>7. ASSUME Forget(r) PROVE Becomes(r, "idle", <<>>, <<>>, Null)
    <2>1. reader' = [reader EXCEPT ![r] = NoRead]
        BY <1>7 DEF Forget
    <2>2. Becomes(r, NoRead.pc, NoRead.todo, NoRead.got, NoRead.base)
        BY <1>1, <2>1, ReaderBecomes
    <2> QED BY <2>2 DEF NoRead
<1> QED BY <1>2, <1>3, <1>4, <1>5, <1>6, <1>7

LEMMA BasesStay ==
    ASSUME TypeInv, (\E r \in Readers : Read(r)) \/ Archive \/ UNCHANGED vars
    PROVE  \A r \in Readers : reader'[r].base \in {Null, reader[r].base, settled}
<1>1. CASE \E r \in Readers : Read(r)
    <2>1. PICK r \in Readers : Read(r)
        BY <1>1
    <2>2. reader'[r].base \in {Null, reader[r].base, settled}
        BY <2>1, ReadDoes DEF Read, Becomes
    <2>3. \A x \in Readers \ {r} : reader'[x] = reader[x]
        BY <2>1, ReadDoes DEF Read, Becomes
    <2> QED BY <2>2, <2>3
<1>2. CASE Archive \/ UNCHANGED vars
    BY <1>2 DEF Archive, vars
<1> QED BY <1>1, <1>2


(* A step is stored: no row of another pipeline of the body is touched.      *)
StepsAre(g, p, n) == \A k \in 1..Size(g, p) : k < n => StepHolds(g, p, k)

LEMMA StoreKeepsSteps ==
    ASSUME TypeInv, NEW e \in Editors, NEW rq \in Request, Fits(rq),
           rq.pc \in {"band", "final"}, StepId(rq) \in Steps, Stores(e, rq),
           IdsDiffer(rq.g), Written(rq)
    PROVE  /\ \A k \in 1..Len(rq.g.pipes) :
                 k < rq.i => StepsHold(rq.g, rq.g.pipes[k].id)'
           /\ OnlyOf(rq.g, At(rq))'
           /\ rq.pc = "final" => StepsAre(rq.g, At(rq), rq.j + 1)'
<1>1. PICK g \in Payloads : g = rq.g /\ Valid(g)
    BY DEF Fits
<1>2. /\ Len(g.pipes) \in Nat
      /\ \A k \in 1..Len(g.pipes) : /\ g.pipes[k].id \in Pipelines
                                    /\ UniqueRows(StepsIn(g, g.pipes[k].id))
    BY <1>1, ValidIsFull
<1>3. PICK p \in Pipelines : p = At(rq) /\ UniqueRows(StepsIn(g, p))
    BY <1>1, <1>2 DEF Fits, At
<1>4. PICK j \in 1..Size(g, p) : j = rq.j
    BY <1>1, <1>3 DEF Fits
<1>5. PICK y \in Steps : y = StepId(rq) /\ y = NthStep(g, p, j).id
    BY <1>1, <1>3, <1>4 DEF StepId
<1>6. PICK row \in RowRecord : row = RowStored(rq) /\ row.pipe = p
    <2>1. RowStored(rq).pipe = p
        BY <1>3 DEF RowStored
    <2> QED BY <2>1 DEF Stores
<1>7. /\ stepRow'[y] = row
      /\ \A x \in Present(stepRow)' : x # y =>
            x \in Present(stepRow) /\ stepRow'[x] = stepRow[x]
      /\ \A x \in Steps \ {y} : stepRow'[x] = stepRow[x]
    <2>1. stepRow' = [stepRow EXCEPT ![y] = row]
        BY <1>5, <1>6 DEF Stores
    <2> QED BY <2>1 DEF Present, TypeInv, RowsOK
<1>8. Present(stepRow) \subseteq Steps
    BY DEF Present, TypeInv, RowsOK
<1>9. ASSUME NEW k \in 1..Len(g.pipes), k < rq.i
      PROVE  StepsHold(g, g.pipes[k].id)'
    <2>1. PICK r \in Pipelines : r = g.pipes[k].id /\ UniqueRows(StepsIn(g, r))
        BY <1>2
    <2>2. StepsHold(g, r)
        BY <1>1, <1>9, <2>1 DEF Written, PipeDone
    <2>3. r # p
        <3>1. DOMAIN g.pipes = 1..Len(g.pipes)
            BY <1>1, PayloadAssumption DEF Payload
        <3>2. rq.i \in 1..Len(g.pipes) /\ k # rq.i
            BY <1>1, <1>2, <1>9 DEF Fits
        <3> QED BY <1>1, <1>3, <2>1, <3>1, <3>2 DEF IdsDiffer, Differ, At
    <2>4. ASSUME NEW x \in RowsOf(r) PROVE x # y
        <3>1. PICK l \in 1..Size(g, r) : NthStep(g, r, l).id = x
            BY <2>2 DEF StepsHold, OnlyOf
        <3> QED BY <1>1, <1>3, <1>5, <2>1, <2>3, <3>1, PlaceOfId
    <2>5. \A x \in RowsOf(r) : stepRow'[x] = stepRow[x]
        BY <1>7, <1>8, <2>4 DEF RowsOf
    <2>6. \A x \in Present(stepRow)' : stepRow'[x].pipe = r =>
             x \in Present(stepRow) /\ stepRow'[x] = stepRow[x]
        BY <1>6, <1>7, <2>3
    <2>7. StepsHold(g, r)'
        BY <2>1, <2>2, <2>5, <2>6, StepsHoldStay
    <2> QED BY <2>1, <2>7
<1>10. OnlyOf(g, p)'
    <2>1. OnlyOf(g, p)
        BY <1>1, <1>3 DEF Written
    <2>2. ASSUME NEW x \in Present(stepRow)', stepRow'[x].pipe = p
          PROVE  \E k \in 1..Size(g, p) : NthStep(g, p, k).id = x
        <3>1. CASE x = y
            BY <1>5, <3>1
        <3>2. CASE x # y
            <4>1. x \in RowsOf(p)
                BY <1>7, <2>2, <3>2 DEF RowsOf
            <4> QED BY <2>1, <4>1 DEF OnlyOf
        <3> QED BY <3>1, <3>2
    <2> QED BY <2>2 DEF OnlyOf, RowsOf
<1>11. ASSUME rq.pc = "final", NEW k \in 1..Size(g, p), k < j + 1
       PROVE  StepHolds(g, p, k)'
    <2>1. Size(g, p) \in Nat
        BY StepsAreFew
    <2>2. CASE k = j
        <3>1. row = [pipe |-> p, seq |-> k, reads |-> NthStep(g, p, k).reads]
            BY <1>1, <1>3, <1>4, <1>6, <1>11, <2>2 DEF RowStored, StepSequence
        <3> QED BY <1>5, <1>7, <2>2, <3>1 DEF StepHolds
    <2>3. CASE k # j
        <3>1. k < rq.j
            BY <1>4, <1>11, <2>1, <2>3
        <3>2. StepHolds(g, p, k)
            BY <1>1, <1>3, <1>11, <3>1 DEF Written
        <3>3. NthStep(g, p, k).id # y
            BY <1>1, <1>3, <1>5, <2>3, PlaceOfId
        <3>4. NthStep(g, p, k).id \in Steps
            BY <1>3, <1>8, <3>2, StepIsPresent DEF RowsOf
        <3> QED BY <1>7, <3>2, <3>3, <3>4 DEF StepHolds
    <2> QED BY <2>2, <2>3
<1>12. rq.pc = "final" => StepsAre(g, p, j + 1)'
    BY <1>11 DEF StepsAre
<1> QED BY <1>1, <1>3, <1>4, <1>9, <1>10, <1>12

LEMMA StepKeepsSettled ==
    ASSUME TypeInv, SettledInv, OneAlone, NEW e \in Editors, WriteStep(e)
    PROVE  SettledInv'
<1>1. PICK rq : rq = editor[e]
    OBVIOUS
<1>2. /\ rq \in Request /\ Fits(rq) /\ rq.pc \in {"band", "final"}
      /\ StepId(rq) \in Steps
      /\ UNCHANGED <<stageRow, pipeRow, reader>>
      /\ Fail(e, "step conflict") \/ Stores(e, rq)
    BY <1>1, WriteStepDoes
<1>3. Saving(e)
    BY <1>1, <1>2 DEF Saving
<1>4. CASE Fail(e, "step conflict")
    BY <1>2, <1>3, <1>4, FailKeepsSettled
<1>5. CASE Stores(e, rq)
    <2>1. PICK g \in Payloads : g = rq.g /\ Valid(g)
        BY <1>2 DEF Fits
    <2>2. Len(g.pipes) \in Nat /\ Len(g.stages) \in Nat
        BY <2>1, ValidIsFull
    <2>3. PICK q : q = AfterStep(rq)
        OBVIOUS
    <2>4. /\ editor' = [editor EXCEPT ![e] = q]
          /\ settled' = IF q.outcome = "saved" /\ q.alone THEN g ELSE settled
        BY <1>5, <2>1, <2>3 DEF Stores
    <2>5. GoesOn(rq, q)
        BY <1>2, <2>3, AfterStepIs
    <2>6. SaveInv(rq)
        BY <1>1, <1>2 DEF SettledInv
    <2>7. /\ rq.outcome = "none" /\ settled = Null
          /\ rq.alone /\ IdsDiffer(g) => Written(rq)
        BY <1>2, <2>1, <2>6 DEF SaveInv
    <2>8. /\ q.g = g /\ q.alone = rq.alone
          /\ q.pc \in {"band", "final", "pipeline", "idle"}
          /\ q.outcome = IF q.pc = "idle" THEN "saved" ELSE "none"
        BY <1>2, <2>1, <2>5, <2>7 DEF GoesOn
    <2>9. PICK p : p = At(rq)
        OBVIOUS
    <2>10. /\ rq.i \in 1..Len(g.pipes) /\ g.pipes[rq.i].id = p
           /\ rq.j \in 1..Size(g, p) /\ Size(g, p) \in Nat /\ rq.i \in Nat /\ rq.j \in Nat
        BY <1>2, <2>1, <2>9, StepsAreFew DEF Fits, Request, At
    <2>11. ASSUME rq.alone, IdsDiffer(g)
           PROVE  /\ \A k \in 1..Len(g.stages) : StageHolds(g.stages[k])'
                  /\ \A k \in 1..Len(g.pipes) : k <= rq.i => PipeHolds(g.pipes[k])'
                  /\ \A k \in 1..Len(g.pipes) : k < rq.i => StepsHold(g, g.pipes[k].id)'
                  /\ OnlyOf(g, p)'
                  /\ rq.pc = "final" => StepsAre(g, p, rq.j + 1)'
        <3>1. Written(rq)
            BY <2>7, <2>11
        <3>2. \A k \in 1..Len(g.stages) : StageHolds(g.stages[k])'
            BY <1>2, <2>1, <3>1 DEF Written, StageDone, StageHolds
        <3>3. ASSUME NEW k \in 1..Len(g.pipes), k <= rq.i PROVE PipeHolds(g.pipes[k])'
            <4>1. k < rq.i \/ k = rq.i
                BY <2>2, <2>10, <3>3
            <4>2. PipeHolds(g.pipes[k])
                BY <1>2, <2>1, <3>1, <4>1 DEF Written, PipeDone
            <4> QED BY <1>2, <4>2 DEF PipeHolds
        <3>4. /\ \A k \in 1..Len(rq.g.pipes) :
                    k < rq.i => StepsHold(rq.g, rq.g.pipes[k].id)'
              /\ OnlyOf(rq.g, At(rq))'
              /\ rq.pc = "final" => StepsAre(rq.g, At(rq), rq.j + 1)'
            BY <1>2, <1>5, <2>1, <2>11, <3>1, StoreKeepsSteps
        <3> QED BY <2>1, <2>9, <3>2, <3>3, <3>4
    <2>12. ASSUME rq.alone, IdsDiffer(g), rq.pc = "final", rq.j = Size(g, p)
           PROVE  StepsHold(g, p)'
        <3>1. OnlyOf(g, p)' /\ StepsAre(g, p, rq.j + 1)'
            BY <2>11, <2>12
        <3>2. \A k \in 1..Size(g, p) : k < rq.j + 1
            BY <2>10, <2>12
        <3> QED BY <3>1, <3>2 DEF StepsHold, StepsAre
    <2>13. ASSUME rq.alone, IdsDiffer(g), rq.pc = "final", rq.j = Size(g, p),
                  NEW k \in 1..Len(g.pipes), k <= rq.i
           PROVE  StepsHold(g, g.pipes[k].id)'
        <3>1. k < rq.i \/ k = rq.i
            BY <2>2, <2>10, <2>13
        <3> QED BY <2>10, <2>11, <2>12, <2>13, <3>1
    <2>14. ASSUME rq.alone, IdsDiffer(g), q.pc # "idle"
           PROVE  Written(q)'
        <3>1. \A k \in 1..Len(g.stages) : StageHolds(g.stages[k])'
            BY <2>11, <2>14
        <3>2. CASE q.pc \in {"band", "final"}
            <4>1. q.i = rq.i /\ At(q) = p
                BY <2>5, <2>9, <3>2 DEF GoesOn
            <4>2. PipeHolds(g.pipes[rq.i])'
                BY <2>10, <2>11, <2>14
            <4>3. q.pc = "final" => StepsAre(g, p, q.j)'
                <5>1. CASE rq.pc = "band" /\ q.pc = "final"
                    <6>1. q.j = 1
                        BY <2>5, <5>1 DEF GoesOn
                    <6>2. \A k \in 1..Size(g, p) : ~(k < q.j)
                        BY <2>10, <6>1
                    <6> QED BY <6>2 DEF StepsAre
                <5>2. CASE rq.pc = "final" /\ q.pc = "final"
                    <6>1. q.j = rq.j + 1
                        BY <2>5, <5>2 DEF GoesOn
                    <6> QED BY <2>11, <2>14, <5>2, <6>1
                <5> QED BY <1>2, <5>1, <5>2
            <4>4. \A k \in 1..Len(g.pipes) : k < rq.i =>
                     PipeHolds(g.pipes[k])' /\ StepsHold(g, g.pipes[k].id)'
                BY <2>10, <2>11, <2>14
            <4>5. OnlyOf(g, p)'
                BY <2>11, <2>14
            <4> QED BY <2>8, <3>1, <3>2, <4>1, <4>2, <4>3, <4>4, <4>5
                    DEF Written, PipeDone, StepsAre
        <3>3. CASE q.pc = "pipeline"
            <4>1. /\ q.i = rq.i + 1 /\ rq.pc = "final" /\ rq.j = Size(g, p)
                BY <1>2, <2>1, <2>5, <2>9, <3>3 DEF GoesOn
            <4>2. ASSUME NEW k \in 1..Len(g.pipes), PipeDone(q, k)
                  PROVE  PipeHolds(g.pipes[k])' /\ StepsHold(g, g.pipes[k].id)'
                <5>1. k <= rq.i
                    BY <2>2, <2>10, <4>1, <4>2 DEF PipeDone
                <5> QED BY <2>11, <2>13, <2>14, <4>1, <5>1
            <4>3. q.pc \notin {"purge", "band", "final"}
                BY <3>3
            <4> QED BY <2>8, <3>1, <4>2, <4>3 DEF Written
        <3> QED BY <2>8, <2>14, <3>2, <3>3
    <2>15. ASSUME rq.alone, IdsDiffer(g), q.pc = "idle"
           PROVE  TablesHold(g)'
        <3>1. rq.i = Len(g.pipes) /\ rq.pc = "final" /\ rq.j = Size(g, p)
            BY <1>2, <2>1, <2>5, <2>9, <2>15 DEF GoesOn
        <3>2. \A k \in 1..Len(g.pipes) : k <= rq.i
            BY <2>2, <3>1
        <3> QED BY <2>11, <2>13, <2>15, <3>1, <3>2 DEF TablesHold
    <2>16. SaveInv(q)'
        <3>1. q.pc # "idle" => settled' = settled
            BY <2>4, <2>8
        <3>2. q.pc # "job"
            BY <2>8
        <3> QED BY <2>7, <2>8, <2>14, <3>1, <3>2 DEF SaveInv
    <2>17. ASSUME NEW h \in Payloads, settled' = h
           PROVE  Valid(h) /\ (IdsDiffer(h) => TablesHold(h)')
        <3>1. h # Null
            BY PayloadAssumption
        <3>2. q.outcome = "saved" /\ rq.alone /\ h = g
            BY <2>4, <2>7, <2>8, <2>17, <3>1
        <3>3. q.pc = "idle"
            BY <2>8, <3>2
        <3> QED BY <2>1, <2>15, <3>2, <3>3
    <2>18. settled' = settled \/ editor[e].alone
        BY <1>1, <2>4, <2>8
    <2> QED BY <1>2, <1>3, <2>4, <2>16, <2>17, <2>18, SaveKeepsSettled
<1> QED BY <1>2, <1>4, <1>5

LEMMA SettledInvStep == TypeInv /\ OneAlone /\ SettledInv /\ [Next]_vars => SettledInv'
<1> SUFFICES ASSUME TypeInv, OneAlone, SettledInv, [Next]_vars PROVE SettledInv'
    OBVIOUS
<1>1. CASE \E e \in Editors, g \in Payloads : StartSave(e, g)
    BY <1>1, StartKeepsSettled
<1>2. CASE \E e \in Editors : \/ WriteJob(e) \/ WriteStage(e) \/ WritePipeline(e)
                              \/ DeleteOrphans(e) \/ WriteStep(e)
    BY <1>2, JobKeepsSettled, StageKeepsSettled, PipelineKeepsSettled, DeleteKeepsSettled,
       StepKeepsSettled
<1>3. CASE \E e \in Editors : StatementRaises(e)
    <2>1. PICK e \in Editors : Fail(e, "error") /\ Saving(e) /\ reader' = reader
        BY <1>3 DEF StatementRaises
    <2> QED BY <2>1, FailKeepsSettled
<1>4. CASE \E e \in Editors : WriteStatus(e) \/
                              \E st \in {"active", "disabled"} : StartPatch(e, st)
    <2>1. PICK e \in Editors : WriteStatus(e) \/
                               \E st \in {"active", "disabled"} : StartPatch(e, st)
        BY <1>4
    <2>2. UNCHANGED <<stageRow, pipeRow, stepRow, settled, reader>>
        BY <2>1 DEF WriteStatus, StartPatch, tables, history
    <2>3. editor'[e].pc \in {"idle", "patch"} /\ \A f \in Editors \ {e} : editor'[f] = editor[f]
        BY <2>1 DEF WriteStatus, StartPatch, NoRequest, TypeInv, RequestInv
    <2>4. \A f \in Editors : editor'[f].pc \in {"idle", "patch"} \/ editor'[f] = editor[f]
        BY <2>3
    <2> QED BY <2>2, <2>4, QuietKeepsSettled
<1>5. CASE (\E r \in Readers : Read(r)) \/ Archive \/ UNCHANGED vars
    <2>1. UNCHANGED <<stageRow, pipeRow, stepRow, settled, editor>>
        BY <1>5 DEF Read, ReadJob, ReadStages, ReadPipelines, ReadSteps, Resolved, Forget,
                    Archive, vars, tables, history
    <2>2. \A r \in Readers : reader'[r].base \in {Null, reader[r].base, settled}
        BY <1>5, BasesStay
    <2> QED BY <2>1, <2>2, QuietKeepsSettled
<1> QED BY <1>1, <1>2, <1>3, <1>4, <1>5 DEF Next, Save

LEMMA SettledInvInit == Init => SettledInv
<1> SUFFICES ASSUME Init PROVE SettledInv
    OBVIOUS
<1>1. \A e \in Editors : editor[e].pc = "idle"
    BY DEF Init, NoRequest
<1>2. settled = Null /\ \A r \in Readers : reader[r].base = Null
    BY DEF Init, NoRead
<1> QED BY <1>1, <1>2, PayloadAssumption DEF SettledInv, SaveInv


-----------------------------------------------------------------------------
(* What a reader has left to do and has got, while nothing is written.       *)

Item == ({"stage"} \X Stages) \cup ({"pipeline"} \X Pipelines \X Stages)
StepRead == [id : Steps, reads : SUBSET Steps]
Found == [pipe : Pipelines, stage : Stages, steps : Seq(StepRead)]

StageOf(item) == IF item[1] = "stage" THEN item[2] ELSE item[3]

Child(p, s) == p \in PipesOf(s) /\ s \in Present(stageRow)

ToRead(item) == IF item[1] = "stage" THEN item[2] \in Present(stageRow)
                ELSE Child(item[2], item[3])

IsRead(f) == Child(f.pipe, f.stage) /\ f.steps = StepsRead(f.pipe)

Below(s, t) == stageRow[s].seq < stageRow[t].seq

(* By stages and pipelines; a stage stands for all of its pipelines.         *)
Before(u, v) ==
    \/ Below(StageOf(u), StageOf(v))
    \/ /\ u[1] = "pipeline" /\ v[1] = "pipeline"
       /\ u[3] = v[3] /\ pipeRow[u[2]].seq < pipeRow[v[2]].seq

AsItem(f) == <<"pipeline", f.pipe, f.stage>>

InOrder(todo, got) ==
    /\ \A m, n \in 1..Len(todo) : m < n => Before(todo[m], todo[n])
    /\ \A m, n \in 1..Len(got) : m < n => Before(AsItem(got[m]), AsItem(got[n]))
    /\ \A m \in 1..Len(got), n \in 1..Len(todo) : Before(AsItem(got[m]), todo[n])

(* The item will bring pipeline p of stage s.                                *)
Leads(item, p, s) == StageOf(item) = s /\ (item[1] = "stage" \/ item[2] = p)

Covers(todo, got, p, s) ==
    \/ \E k \in 1..Len(got) : got[k].pipe = p
    \/ \E n \in 1..Len(todo) : Leads(todo[n], p, s)

ReadInv(q) ==
    /\ q.todo \in Seq(Item) /\ q.got \in Seq(Found)
    /\ q.pc = "stages" => q.got = <<>>
    /\ q.pc = "resolved" => q.todo = <<>>
    /\ q.pc \in {"level", "resolved"} =>
          /\ \A n \in 1..Len(q.todo) : ToRead(q.todo[n])
          /\ \A k \in 1..Len(q.got) : IsRead(q.got[k])
          /\ InOrder(q.todo, q.got)
          /\ \A p \in Pipelines, s \in Stages : Child(p, s) => Covers(q.todo, q.got, p, s)

SavedInv == \A r \in Readers : \A q : reader[r] = q /\ q.base # Null => ReadInv(q)

LEMMA ItemParts ==
    ASSUME NEW u \in Item
    PROVE  \/ u[1] = "stage" /\ u[2] \in Stages /\ StageOf(u) = u[2]
           \/ /\ u[1] = "pipeline" /\ u[2] \in Pipelines /\ u[3] \in Stages
              /\ StageOf(u) = u[3]
<1>1. CASE u \in {"stage"} \X Stages
    BY <1>1 DEF StageOf
<1>2. CASE u \in {"pipeline"} \X Pipelines \X Stages
    BY <1>2 DEF StageOf
<1> QED BY <1>1, <1>2 DEF Item

LEMMA RowsAreNumbered ==
    ASSUME TypeInv
    PROVE  /\ Present(stageRow) \subseteq Stages
           /\ \A s \in Present(stageRow) : stageRow[s].seq \in Nat
           /\ Present(pipeRow) \subseteq Pipelines
           /\ \A p \in Present(pipeRow) : pipeRow[p].seq \in Nat /\ pipeRow[p].stage \in Stages
           /\ Present(stepRow) \subseteq Steps
           /\ \A x \in Present(stepRow) : /\ stepRow[x].seq \in Nat
                                          /\ stepRow[x].reads \in SUBSET Steps
<1>1. Seqs \subseteq Nat
    BY BaseAssumption DEF Seqs
<1>2. ASSUME NEW s \in Present(stageRow) PROVE s \in Stages /\ stageRow[s].seq \in Nat
    <2>1. s \in Stages /\ stageRow[s] \in StageRecord
        BY DEF Present, TypeInv, RowsOK
    <2> QED BY <1>1, <2>1 DEF StageRecord
<1>3. ASSUME NEW p \in Present(pipeRow)
      PROVE  p \in Pipelines /\ pipeRow[p].seq \in Nat /\ pipeRow[p].stage \in Stages
    <2>1. p \in Pipelines /\ pipeRow[p] \in PipeRecord
        BY DEF Present, TypeInv, RowsOK
    <2> QED BY <1>1, <2>1 DEF PipeRecord
<1>4. ASSUME NEW x \in Present(stepRow)
      PROVE  x \in Steps /\ stepRow[x].seq \in Nat /\ stepRow[x].reads \in SUBSET Steps
    <2>1. x \in Steps /\ stepRow[x] \in RowRecord
        BY DEF Present, TypeInv, RowsOK
    <2> QED BY <1>1, <2>1 DEF RowRecord
<1> QED BY <1>2, <1>3, <1>4

LEMMA ListIsSeq ==
    ASSUME NEW S, NEW size \in Nat, NEW list,
           list = [i \in 1..size |-> list[i]], \A i \in 1..size : list[i] \in S
    PROVE  list \in Seq(S) /\ Len(list) = size
<1>1. list \in [1..size -> S]
    OBVIOUS
<1> QED BY <1>1

LEMMA StageItemsAre ==
    ASSUME TypeInv, TableInv, NEW items, items = StageItems
    PROVE  /\ items \in Seq(Item)
           /\ \A n \in 1..Len(items) :
                 items[n][1] = "stage" /\ items[n][2] \in Present(stageRow)
           /\ \A m, n \in 1..Len(items) : m < n => Below(items[m][2], items[n][2])
           /\ \A s \in Present(stageRow) : \E n \in 1..Len(items) : items[n][2] = s
<1>1. PICK ids, found, size : /\ ids = Present(stageRow)
                              /\ found = InSequence(ids, stageRow) /\ size = Cardinality(ids)
    OBVIOUS
<1>2. /\ IsFiniteSet(ids) /\ \A x \in ids : stageRow[x].seq \in Nat
      /\ \A x, y \in ids : stageRow[x].seq = stageRow[y].seq => x = y
      /\ ids \subseteq Stages
    BY <1>1, RowsAreNumbered DEF TableInv, StagesApart
<1>3. /\ size \in Nat /\ found \in [1..size -> ids]
      /\ \A x \in ids : \E n \in 1..size : found[n] = x
      /\ \A m, n \in 1..size : m < n => stageRow[found[m]].seq < stageRow[found[n]].seq
    BY <1>1, <1>2, SequenceIsSorted
<1>4. items = [i \in 1..size |-> <<"stage", found[i]>>]
    BY <1>1 DEF StageItems
<1>5. ASSUME NEW n \in 1..size
      PROVE  items[n] \in Item /\ items[n][1] = "stage" /\ items[n][2] = found[n]
    <2>1. found[n] \in Stages
        BY <1>2, <1>3
    <2> QED BY <1>4, <2>1 DEF Item
<1>6. items \in Seq(Item) /\ Len(items) = size
    <2>1. items = [i \in 1..size |-> items[i]]
        BY <1>4
    <2> QED BY <1>3, <1>5, <2>1, ListIsSeq
<1>7. \A m, n \in 1..size : m < n => Below(items[m][2], items[n][2])
    BY <1>3, <1>5 DEF Below
<1>8. \A n \in 1..size : items[n][1] = "stage" /\ items[n][2] \in ids
    BY <1>3, <1>5
<1>9. \A s \in ids : \E n \in 1..size : items[n][2] = s
    BY <1>3, <1>5
<1> QED BY <1>1, <1>6, <1>7, <1>8, <1>9

LEMMA PipeItemsAre ==
    ASSUME TypeInv, TableInv, NEW s \in Stages, NEW items, items = PipeItems(s)
    PROVE  /\ items \in Seq(Item)
           /\ \A n \in 1..Len(items) :
                 /\ items[n][1] = "pipeline" /\ items[n][3] = s
                 /\ items[n][2] \in PipesOf(s)
           /\ \A m, n \in 1..Len(items) :
                 m < n => pipeRow[items[m][2]].seq < pipeRow[items[n][2]].seq
           /\ \A p \in PipesOf(s) : \E n \in 1..Len(items) : items[n][2] = p
<1>1. PICK ids, found, size : /\ ids = PipesOf(s)
                              /\ found = InSequence(ids, pipeRow) /\ size = Cardinality(ids)
    OBVIOUS
<1>2. /\ IsFiniteSet(ids) /\ \A x \in ids : pipeRow[x].seq \in Nat
      /\ \A x, y \in ids : pipeRow[x].seq = pipeRow[y].seq => x = y
      /\ ids \subseteq Pipelines
    <2>1. ids \subseteq Present(pipeRow) /\ \A x \in ids : pipeRow[x].stage = s
        BY <1>1 DEF PipesOf
    <2>2. IsFiniteSet(ids)
        BY <2>1, FS_Subset DEF TableInv
    <2> QED BY <2>1, <2>2, RowsAreNumbered DEF TableInv, PipesApart
<1>3. /\ size \in Nat /\ found \in [1..size -> ids]
      /\ \A x \in ids : \E n \in 1..size : found[n] = x
      /\ \A m, n \in 1..size : m < n => pipeRow[found[m]].seq < pipeRow[found[n]].seq
    BY <1>1, <1>2, SequenceIsSorted
<1>4. items = [i \in 1..size |-> <<"pipeline", found[i], s>>]
    <2>1. DOMAIN found = 1..size
        BY <1>3
    <2> QED BY <1>1, <2>1 DEF PipeItems
<1>5. ASSUME NEW n \in 1..size
      PROVE  /\ items[n] \in Item /\ items[n][1] = "pipeline"
             /\ items[n][2] = found[n] /\ items[n][3] = s
    <2>1. found[n] \in Pipelines
        BY <1>2, <1>3
    <2> QED BY <1>4, <2>1 DEF Item
<1>6. items \in Seq(Item) /\ Len(items) = size
    <2>1. items = [i \in 1..size |-> items[i]]
        BY <1>4
    <2> QED BY <1>3, <1>5, <2>1, ListIsSeq
<1>7. \A m, n \in 1..size : m < n => pipeRow[items[m][2]].seq < pipeRow[items[n][2]].seq
    BY <1>3, <1>5
<1>8. \A n \in 1..size : /\ items[n][1] = "pipeline" /\ items[n][3] = s
                          /\ items[n][2] \in ids
    BY <1>3, <1>5
<1>9. \A p \in ids : \E n \in 1..size : items[n][2] = p
    BY <1>3, <1>5
<1> QED BY <1>1, <1>6, <1>7, <1>8, <1>9

(* The steps of a pipeline, as read.                                         *)
LEMMA StepsReadAre ==
    ASSUME TypeInv, TableInv, NEW p, NEW found, found = InSequence(RowsOf(p), stepRow),
           NEW size, size = Cardinality(RowsOf(p))
    PROVE  /\ size \in Nat /\ found \in [1..size -> RowsOf(p)]
           /\ \A n \in 1..size : Cardinality(Ahead(RowsOf(p), stepRow, found[n])) = n - 1
           /\ StepsRead(p) \in Seq(StepRead) /\ Len(StepsRead(p)) = size
           /\ \A n \in 1..size : /\ StepsRead(p)[n].id = found[n]
                                 /\ StepsRead(p)[n].reads = stepRow[found[n]].reads
<1>1. PICK ids : ids = RowsOf(p)
    OBVIOUS
<1>2. /\ IsFiniteSet(ids) /\ ids \subseteq Present(stepRow)
      /\ \A x \in ids : stepRow[x].seq \in Nat
      /\ \A x, y \in ids : stepRow[x].seq = stepRow[y].seq => x = y
    <2>1. ids \subseteq Present(stepRow) /\ \A x \in ids : stepRow[x].pipe = p
        BY <1>1 DEF RowsOf
    <2>2. IsFiniteSet(ids)
        BY <2>1, FS_Subset DEF TableInv
    <2> QED BY <2>1, <2>2, RowsAreNumbered DEF TableInv, StepsApart
<1>3. /\ size \in Nat /\ found \in [1..size -> ids]
      /\ \A n \in 1..size : Cardinality(Ahead(ids, stepRow, found[n])) = n - 1
    BY <1>1, <1>2, SequenceIsSorted
<1>4. PICK steps : steps = StepsRead(p)
    OBVIOUS
<1>5. steps = [i \in 1..size |-> [id |-> found[i], reads |-> stepRow[found[i]].reads]]
    <2>1. DOMAIN found = 1..size
        BY <1>3
    <2> QED BY <1>4, <2>1 DEF StepsRead
<1>6. ASSUME NEW n \in 1..size
      PROVE  /\ steps[n] \in StepRead
             /\ steps[n].id = found[n] /\ steps[n].reads = stepRow[found[n]].reads
    <2>1. found[n] \in Steps /\ stepRow[found[n]].reads \in SUBSET Steps
        BY <1>2, <1>3, RowsAreNumbered
    <2> QED BY <1>5, <2>1 DEF StepRead
<1>7. steps \in Seq(StepRead) /\ Len(steps) = size
    BY <1>3, <1>5, <1>6
<1> QED BY <1>1, <1>3, <1>4, <1>6, <1>7


(* A list put before all but the first of another.                           *)
LEMMA FirstReplaced ==
    ASSUME NEW S, NEW new \in Seq(S), NEW old \in Seq(S), old # <<>>,
           NEW list, list = new \o Tail(old)
    PROVE  /\ list \in Seq(S) /\ Head(old) = old[1]
           /\ Len(new) \in Nat /\ Len(old) \in Nat \ {0}
           /\ Len(list) = Len(new) + Len(old) - 1
           /\ \A n \in 1..Len(new) : n \in 1..Len(list) /\ list[n] = new[n]
           /\ \A k \in 2..Len(old) :
                 Len(new) + k - 1 \in 1..Len(list) /\ list[Len(new) + k - 1] = old[k]
           /\ \A n \in 1..Len(list) :
                 \/ n \in 1..Len(new) /\ list[n] = new[n]
                 \/ \E k \in 2..Len(old) : n = Len(new) + k - 1 /\ list[n] = old[k]
<1>1. /\ Tail(old) \in Seq(S) /\ Len(Tail(old)) = Len(old) - 1
      /\ Head(old) = old[1] /\ Len(old) \in Nat \ {0} /\ Len(new) \in Nat
      /\ \A k \in 1..Len(old) - 1 : Tail(old)[k] = old[k + 1]
    OBVIOUS
<1>2. PICK rest : rest = Tail(old)
    OBVIOUS
<1>3. /\ list \in Seq(S) /\ Len(list) = Len(new) + Len(rest)
      /\ \A n \in 1..Len(list) :
            list[n] = IF n <= Len(new) THEN new[n] ELSE rest[n - Len(new)]
    BY <1>1, <1>2
<1>4. Len(list) = Len(new) + Len(old) - 1
    BY <1>1, <1>2, <1>3
<1>5. ASSUME NEW n \in 1..Len(new) PROVE n \in 1..Len(list) /\ list[n] = new[n]
    BY <1>1, <1>3, <1>4
<1>6. ASSUME NEW k \in 2..Len(old)
      PROVE  Len(new) + k - 1 \in 1..Len(list) /\ list[Len(new) + k - 1] = old[k]
    <2>1. PICK n : n = Len(new) + k - 1
        OBVIOUS
    <2>2. n \in 1..Len(list) /\ ~(n <= Len(new)) /\ n - Len(new) = k - 1
        BY <1>1, <1>4, <2>1
    <2>3. list[n] = rest[k - 1]
        BY <1>3, <2>2
    <2>4. k - 1 \in 1..Len(old) - 1 /\ (k - 1) + 1 = k
        BY <1>1
    <2>5. rest[k - 1] = old[k]
        BY <1>1, <1>2, <2>4
    <2> QED BY <2>1, <2>2, <2>3, <2>5
<1>7. ASSUME NEW n \in 1..Len(list), n \notin 1..Len(new)
      PROVE  \E k \in 2..Len(old) : n = Len(new) + k - 1 /\ list[n] = old[k]
    <2>1. n - Len(new) + 1 \in 2..Len(old) /\ n = Len(new) + (n - Len(new) + 1) - 1
        BY <1>1, <1>4, <1>7
    <2> QED BY <1>6, <2>1
<1> QED BY <1>1, <1>3, <1>4, <1>5, <1>6, <1>7

(* Each query of a reader.                                                   *)
LEMMA FirstQuery ==
    ASSUME NEW w, w.pc \in {"idle", "stages"}, w.todo = <<>>, w.got = <<>>
    PROVE  ReadInv(w)
BY DEF ReadInv

LEMMA StagesQuery ==
    ASSUME TypeInv, TableInv, NEW q, ReadInv(q), q.pc = "stages",
           NEW w, w.pc = "level", w.todo = StageItems, w.got = q.got
    PROVE  ReadInv(w)
<1>1. PICK items : items = StageItems
    OBVIOUS
<1>2. /\ items \in Seq(Item)
      /\ \A n \in 1..Len(items) :
            items[n][1] = "stage" /\ items[n][2] \in Present(stageRow)
      /\ \A m, n \in 1..Len(items) : m < n => Below(items[m][2], items[n][2])
      /\ \A s \in Present(stageRow) : \E n \in 1..Len(items) : items[n][2] = s
    BY <1>1, StageItemsAre
<1>3. w.todo = items /\ w.got = <<>> /\ 1..Len(w.got) = {} /\ w.got \in Seq(Found)
    BY <1>1 DEF ReadInv
<1>4. \A n \in 1..Len(items) : ToRead(items[n]) /\ StageOf(items[n]) = items[n][2]
    BY <1>2 DEF ToRead, StageOf
<1>5. InOrder(items, w.got)
    BY <1>2, <1>3, <1>4 DEF InOrder, Before
<1>6. ASSUME NEW p \in Pipelines, NEW s \in Stages, Child(p, s)
      PROVE  Covers(items, w.got, p, s)
    <2>1. PICK n \in 1..Len(items) : items[n][2] = s
        BY <1>2, <1>6 DEF Child
    <2> QED BY <1>2, <1>4, <2>1 DEF Covers, Leads
<1> QED BY <1>2, <1>3, <1>4, <1>5, <1>6 DEF ReadInv

LEMMA PipelinesQuery ==
    ASSUME TypeInv, TableInv, NEW q, ReadInv(q), q.pc = "level", q.todo # <<>>,
           NEW head, head = Head(q.todo), head[1] = "stage",
           NEW w, w.pc = "level", w.todo = PipeItems(head[2]) \o Tail(q.todo), w.got = q.got
    PROVE  ReadInv(w)
<1>1. PICK old, got, s, new, list :
          /\ old = q.todo /\ got = q.got /\ s = head[2]
          /\ new = PipeItems(s) /\ list = new \o Tail(old)
    OBVIOUS
<1>2. /\ old \in Seq(Item) /\ got \in Seq(Found) /\ old # <<>>
      /\ \A n \in 1..Len(old) : ToRead(old[n])
      /\ \A k \in 1..Len(got) : IsRead(got[k])
      /\ InOrder(old, got)
      /\ \A p \in Pipelines, t \in Stages : Child(p, t) => Covers(old, got, p, t)
    BY <1>1 DEF ReadInv
<1>3. /\ head = old[1] /\ 1 \in 1..Len(old) /\ head \in Item
    BY <1>1, <1>2
<1>4. s \in Stages /\ StageOf(head) = s /\ s \in Present(stageRow)
    <2>1. s \in Stages /\ StageOf(head) = s
        BY <1>1, <1>3, ItemParts
    <2>2. ToRead(head)
        BY <1>2, <1>3
    <2> QED BY <1>1, <2>1, <2>2 DEF ToRead
<1>5. /\ new \in Seq(Item)
      /\ \A n \in 1..Len(new) : /\ new[n][1] = "pipeline" /\ new[n][3] = s
                                /\ new[n][2] \in PipesOf(s)
      /\ \A m, n \in 1..Len(new) :
            m < n => pipeRow[new[m][2]].seq < pipeRow[new[n][2]].seq
      /\ \A p \in PipesOf(s) : \E n \in 1..Len(new) : new[n][2] = p
    BY <1>1, <1>4, PipeItemsAre
<1>6. \A n \in 1..Len(new) : ToRead(new[n]) /\ StageOf(new[n]) = s
    BY <1>4, <1>5 DEF ToRead, StageOf, Child
<1>7. /\ list \in Seq(Item)
      /\ Len(new) \in Nat /\ Len(old) \in Nat \ {0}
      /\ \A n \in 1..Len(new) : n \in 1..Len(list) /\ list[n] = new[n]
      /\ \A k \in 2..Len(old) :
            Len(new) + k - 1 \in 1..Len(list) /\ list[Len(new) + k - 1] = old[k]
      /\ \A n \in 1..Len(list) :
            \/ n \in 1..Len(new) /\ list[n] = new[n]
            \/ \E k \in 2..Len(old) : n = Len(new) + k - 1 /\ list[n] = old[k]
    <2>1. new \in Seq(Item) /\ old \in Seq(Item) /\ old # <<>> /\ list = new \o Tail(old)
        BY <1>1, <1>2, <1>5
    <2> QED BY ONLY <2>1, FirstReplaced
<1>8. ASSUME NEW n \in 1..Len(list) PROVE ToRead(list[n])
    <2>1. CASE n \in 1..Len(new) /\ list[n] = new[n]
        BY <1>6, <2>1
    <2>2. CASE \E k \in 2..Len(old) : n = Len(new) + k - 1 /\ list[n] = old[k]
        <3>1. PICK k \in 2..Len(old) : list[n] = old[k]
            BY <2>2
        <3>2. k \in 1..Len(old)
            BY <1>7
        <3> QED BY <1>2, <3>1, <3>2
    <2> QED BY <1>7, <2>1, <2>2
<1>9. \A k \in 2..Len(old) : k \in 1..Len(old) /\ 1 < k
    BY <1>7
<1>10. \A k \in 2..Len(old) : Below(s, StageOf(old[k]))
    <2>1. ASSUME NEW k \in 2..Len(old) PROVE Before(head, old[k])
        BY <1>2, <1>3, <1>9 DEF InOrder
    <2> QED BY <1>4, <2>1 DEF Before
<1>11. ASSUME NEW m \in 1..Len(list), NEW n \in 1..Len(list), m < n
       PROVE  Before(list[m], list[n])
    <2>1. CASE n \in 1..Len(new) /\ list[n] = new[n]
        <3>1. m \in 1..Len(new)
            BY <1>7, <1>11, <2>1
        <3>2. /\ new[m][1] = "pipeline" /\ new[n][1] = "pipeline"
              /\ new[m][3] = s /\ new[n][3] = s
            BY ONLY <1>5, <2>1, <3>1
        <3>3. pipeRow[new[m][2]].seq < pipeRow[new[n][2]].seq
            BY ONLY <1>5, <1>11, <2>1, <3>1
        <3>4. Before(new[m], new[n])
            BY ONLY <3>2, <3>3 DEF Before
        <3>5. list[m] = new[m]
            BY ONLY <1>7, <3>1
        <3> QED BY ONLY <2>1, <3>4, <3>5
    <2>2. ASSUME NEW k \in 2..Len(old), n = Len(new) + k - 1, list[n] = old[k]
          PROVE  Before(list[m], list[n])
        <3>1. CASE m \in 1..Len(new) /\ list[m] = new[m]
            BY <1>6, <1>10, <2>2, <3>1 DEF Before
        <3>2. ASSUME NEW l \in 2..Len(old), m = Len(new) + l - 1, list[m] = old[l]
              PROVE  Before(list[m], list[n])
            <4>1. l < k
                BY <1>7, <1>11, <2>2, <3>2
            <4> QED BY <1>2, <1>9, <2>2, <3>2, <4>1 DEF InOrder
        <3> QED BY <1>7, <3>1, <3>2
    <2> QED BY <1>7, <2>1, <2>2
<1>12. ASSUME NEW m \in 1..Len(got), NEW n \in 1..Len(list)
       PROVE  Before(AsItem(got[m]), list[n])
    <2>1. Before(AsItem(got[m]), head)
        BY <1>2, <1>3 DEF InOrder
    <2>2. Below(StageOf(AsItem(got[m])), s)
        BY <1>4, <2>1 DEF Before
    <2>3. CASE n \in 1..Len(new) /\ list[n] = new[n]
        BY <1>6, <2>2, <2>3 DEF Before
    <2>4. ASSUME NEW k \in 2..Len(old), list[n] = old[k]
          PROVE  Before(AsItem(got[m]), list[n])
        BY <1>2, <1>9, <2>4 DEF InOrder
    <2> QED BY <1>7, <2>3, <2>4
<1>13. InOrder(list, got)
    BY <1>2, <1>11, <1>12 DEF InOrder
<1>14. ASSUME NEW p \in Pipelines, NEW t \in Stages, Child(p, t)
       PROVE  Covers(list, got, p, t)
    <2>1. Covers(old, got, p, t)
        BY <1>2, <1>14
    <2>2. CASE \E k \in 1..Len(got) : got[k].pipe = p
        BY <2>2 DEF Covers
    <2>3. ASSUME NEW n \in 1..Len(old), Leads(old[n], p, t)
          PROVE  Covers(list, got, p, t)
        <3>1. CASE n = 1
            <4>1. t = s /\ p \in PipesOf(s)
                BY <1>3, <1>4, <1>14, <2>3, <3>1 DEF Leads, Child
            <4>2. PICK k \in 1..Len(new) : new[k][2] = p
                BY <1>5, <4>1
            <4>3. Leads(list[k], p, t) /\ k \in 1..Len(list)
                BY <1>6, <1>7, <4>1, <4>2 DEF Leads
            <4> QED BY <4>3 DEF Covers
        <3>2. CASE n # 1
            <4>1. n \in 2..Len(old)
                BY <1>7, <2>3, <3>2
            <4> QED BY <1>7, <2>3, <4>1 DEF Covers
        <3> QED BY <3>1, <3>2
    <2> QED BY <2>1, <2>2, <2>3 DEF Covers
<1> QED
    <2>1. w.todo = list /\ w.got = got
        BY <1>1
    <2> QED BY <1>2, <1>7, <1>8, <1>13, <1>14, <2>1 DEF ReadInv

LEMMA StepsQuery ==
    ASSUME TypeInv, TableInv, NEW q, ReadInv(q), q.pc = "level", q.todo # <<>>,
           NEW head, head = Head(q.todo), head[1] = "pipeline",
           NEW f, f = [pipe |-> head[2], stage |-> head[3], steps |-> StepsRead(head[2])],
           NEW w, w.pc = "level", w.todo = Tail(q.todo), w.got = Append(q.got, f)
    PROVE  ReadInv(w)
<1>1. PICK old, got, rest, list :
          old = q.todo /\ got = q.got /\ rest = Tail(old) /\ list = Append(got, f)
    OBVIOUS
<1>2. /\ old \in Seq(Item) /\ got \in Seq(Found) /\ old # <<>>
      /\ \A n \in 1..Len(old) : ToRead(old[n])
      /\ \A k \in 1..Len(got) : IsRead(got[k])
      /\ InOrder(old, got)
      /\ \A p \in Pipelines, s \in Stages : Child(p, s) => Covers(old, got, p, s)
    BY <1>1 DEF ReadInv
<1>3. /\ head = old[1] /\ 1 \in 1..Len(old) /\ head \in Item
    BY <1>1, <1>2
<1>4. /\ head[2] \in Pipelines /\ head[3] \in Stages
      /\ StageOf(head) = head[3] /\ Child(head[2], head[3])
    <2>1. head[2] \in Pipelines /\ head[3] \in Stages /\ StageOf(head) = head[3]
        BY <1>3, ItemParts
    <2>2. ToRead(head)
        BY <1>2, <1>3
    <2> QED BY <2>1, <2>2 DEF ToRead
<1>5. /\ f.pipe = head[2] /\ f.stage = head[3] /\ f.steps = StepsRead(head[2])
      /\ f \in Found /\ IsRead(f)
    <2>1. StepsRead(head[2]) \in Seq(StepRead)
        BY StepsReadAre
    <2> QED BY <1>4, <2>1 DEF Found, IsRead
<1>6. /\ AsItem(f)[1] = "pipeline" /\ AsItem(f)[2] = head[2] /\ AsItem(f)[3] = head[3]
      /\ StageOf(AsItem(f)) = StageOf(head)
    BY <1>4, <1>5 DEF AsItem, StageOf
<1>7. /\ rest \in Seq(Item) /\ Len(old) \in Nat /\ Len(rest) = Len(old) - 1
      /\ \A n \in 1..Len(rest) : n + 1 \in 1..Len(old) /\ 1 < n + 1 /\ rest[n] = old[n + 1]
    BY <1>1, <1>2
<1>8. /\ list \in Seq(Found) /\ Len(got) \in Nat /\ Len(list) = Len(got) + 1
      /\ list[Len(got) + 1] = f
      /\ \A k \in 1..Len(got) : k \in 1..Len(list) /\ list[k] = got[k]
    BY <1>1, <1>2, <1>5
<1>9. \A k \in 1..Len(list) : k \in 1..Len(got) \/ k = Len(got) + 1
    BY <1>8
<1>10. ASSUME NEW v, Before(head, v) PROVE Before(AsItem(f), v)
    BY <1>6, <1>10 DEF Before
<1>11. ASSUME NEW u, Before(u, head) PROVE Before(u, AsItem(f))
    BY <1>6, <1>11 DEF Before
<1>12. InOrder(rest, list)
    <2>1. ASSUME NEW m \in 1..Len(rest), NEW n \in 1..Len(rest), m < n
          PROVE  Before(rest[m], rest[n])
        <3>1. m + 1 < n + 1
            BY <1>7, <2>1
        <3> QED BY <1>2, <1>7, <3>1 DEF InOrder
    <2>2. ASSUME NEW m \in 1..Len(list), NEW n \in 1..Len(list), m < n
          PROVE  Before(AsItem(list[m]), AsItem(list[n]))
        <3>1. m \in 1..Len(got) /\ list[m] = got[m]
            BY <1>8, <2>2
        <3>2. CASE n \in 1..Len(got)
            BY <1>2, <1>8, <2>2, <3>1, <3>2 DEF InOrder
        <3>3. CASE n = Len(got) + 1
            <4>1. Before(AsItem(got[m]), head)
                BY <1>2, <1>3, <3>1 DEF InOrder
            <4> QED BY <1>8, <1>11, <3>1, <3>3, <4>1
        <3> QED BY <1>9, <3>2, <3>3
    <2>3. ASSUME NEW m \in 1..Len(list), NEW n \in 1..Len(rest)
          PROVE  Before(AsItem(list[m]), rest[n])
        <3>1. CASE m \in 1..Len(got)
            BY <1>2, <1>7, <1>8, <3>1 DEF InOrder
        <3>2. CASE m = Len(got) + 1
            <4>1. Before(head, rest[n])
                BY <1>2, <1>3, <1>7 DEF InOrder
            <4> QED BY <1>8, <1>10, <3>2, <4>1
        <3> QED BY <1>9, <3>1, <3>2
    <2> QED BY <2>1, <2>2, <2>3 DEF InOrder
<1>13. ASSUME NEW p \in Pipelines, NEW s \in Stages, Child(p, s)
       PROVE  Covers(rest, list, p, s)
    <2>1. Covers(old, got, p, s)
        BY <1>2, <1>13
    <2>2. CASE \E k \in 1..Len(got) : got[k].pipe = p
        BY <1>8, <2>2 DEF Covers
    <2>3. ASSUME NEW n \in 1..Len(old), Leads(old[n], p, s)
          PROVE  Covers(rest, list, p, s)
        <3>1. CASE n = 1
            <4>1. head[2] = p
                BY <1>3, <2>3, <3>1 DEF Leads
            <4>2. Len(got) + 1 \in 1..Len(list)
                BY <1>8
            <4> QED BY <1>5, <1>8, <4>1, <4>2 DEF Covers
        <3>2. CASE n # 1
            <4>1. PICK m : m = n - 1
                OBVIOUS
            <4>2. m \in 1..Len(rest) /\ m + 1 = n
                BY <1>7, <3>2, <4>1
            <4>3. rest[m] = old[n]
                BY <1>7, <4>2
            <4> QED BY <2>3, <4>2, <4>3 DEF Covers
        <3> QED BY <3>1, <3>2
    <2> QED BY <2>1, <2>2, <2>3 DEF Covers
<1>14. \A n \in 1..Len(rest) : ToRead(rest[n])
    BY <1>2, <1>7
<1>15. \A k \in 1..Len(list) : IsRead(list[k])
    BY <1>2, <1>5, <1>8, <1>9
<1> QED
    <2>1. w.todo = rest /\ w.got = list
        BY <1>1
    <2> QED BY <1>7, <1>8, <1>12, <1>13, <1>14, <1>15, <2>1 DEF ReadInv

LEMMA LastQuery ==
    ASSUME NEW q, ReadInv(q), q.pc = "level", q.todo = <<>>,
           NEW w, w.pc = "resolved", w.todo = q.todo, w.got = q.got
    PROVE  ReadInv(w)
BY DEF ReadInv

(* What a reader has stays true while the rows do.                           *)
LEMMA ReadInvStays ==
    ASSUME UNCHANGED <<stageRow, pipeRow, stepRow>>, NEW w, ReadInv(w)
    PROVE  ReadInv(w)'
<1>1. ASSUME NEW p, NEW s PROVE Child(p, s)' <=> Child(p, s)
    BY DEF Child, PipesOf, Present
<1>2. ASSUME NEW p PROVE StepsRead(p)' = StepsRead(p)
    BY DEF StepsRead, RowsOf, Present, InSequence
<1>3. ASSUME NEW item PROVE ToRead(item)' <=> ToRead(item)
    BY <1>1 DEF ToRead, Present
<1>4. ASSUME NEW f PROVE IsRead(f)' <=> IsRead(f)
    BY <1>1, <1>2 DEF IsRead
<1>5. ASSUME NEW u, NEW v PROVE Before(u, v)' <=> Before(u, v)
    BY DEF Before, Below
<1>6. ASSUME NEW todo, NEW got, InOrder(todo, got) PROVE InOrder(todo, got)'
    BY <1>5, <1>6 DEF InOrder
<1> QED BY <1>1, <1>3, <1>4, <1>6 DEF ReadInv

LEMMA ReadKeepsSaved ==
    ASSUME TypeInv, TableInv, SavedInv, NEW r \in Readers, Read(r)
    PROVE  SavedInv'
<1>1. UNCHANGED <<stageRow, pipeRow, stepRow>>
    BY DEF Read, ReadJob, ReadStages, ReadPipelines, ReadSteps, Resolved, Forget, tables
<1>2. ASSUME NEW x \in Readers, x # r, NEW w, reader'[x] = w, w.base # Null
      PROVE  ReadInv(w)'
    <2>1. reader'[x] = reader[x]
        BY <1>2, ReadDoes DEF Read, Becomes
    <2>2. ReadInv(w)
        BY <1>2, <2>1 DEF SavedInv
    <2> QED BY <1>1, <2>2, ReadInvStays
<1>3. ASSUME NEW w, reader'[r] = w, w.base # Null PROVE ReadInv(w)'
    <2>1. PICK q : q = reader[r]
        OBVIOUS
    <2>2. q.base # Null => ReadInv(q)
        BY <2>1 DEF SavedInv
    <2>3. CASE ReadJob(r)
        <3>1. w.pc = "stages" /\ w.todo = <<>> /\ w.got = <<>>
            BY <1>3, <2>3, ReadDoes DEF Becomes
        <3>2. ReadInv(w)
            BY <3>1, FirstQuery
        <3> QED BY <1>1, <3>2, ReadInvStays
    <2>4. CASE ReadStages(r)
        <3>1. /\ q.pc = "stages" /\ w.pc = "level" /\ w.todo = StageItems
              /\ w.got = q.got /\ w.base = q.base
            BY <1>3, <2>1, <2>4, ReadDoes DEF Becomes
        <3>2. ReadInv(w)
            BY <1>3, <2>2, <3>1, StagesQuery
        <3> QED BY <1>1, <3>2, ReadInvStays
    <2>5. CASE ReadPipelines(r)
        <3>1. PICK head : head = Head(q.todo)
            OBVIOUS
        <3>2. /\ q.pc = "level" /\ q.todo # <<>> /\ head[1] = "stage" /\ w.pc = "level"
              /\ w.todo = PipeItems(head[2]) \o Tail(q.todo)
              /\ w.got = q.got /\ w.base = q.base
            BY <1>3, <2>1, <2>5, <3>1, ReadDoes DEF Becomes
        <3>3. ReadInv(w)
            BY <1>3, <2>2, <3>1, <3>2, PipelinesQuery
        <3> QED BY <1>1, <3>3, ReadInvStays
    <2>6. CASE ReadSteps(r)
        <3>1. PICK head : head = Head(q.todo)
            OBVIOUS
        <3>2. PICK f : f = [pipe |-> head[2], stage |-> head[3], steps |-> StepsRead(head[2])]
            OBVIOUS
        <3>3. /\ q.pc = "level" /\ q.todo # <<>> /\ head[1] = "pipeline" /\ w.pc = "level"
              /\ w.todo = Tail(q.todo) /\ w.got = Append(q.got, f) /\ w.base = q.base
            BY <1>3, <2>1, <2>6, <3>1, <3>2, ReadDoes DEF Becomes
        <3>4. ReadInv(w)
            BY <1>3, <2>2, <3>1, <3>2, <3>3, StepsQuery
        <3> QED BY <1>1, <3>4, ReadInvStays
    <2>7. CASE Resolved(r)
        <3>1. /\ q.pc = "level" /\ q.todo = <<>> /\ w.pc = "resolved"
              /\ w.todo = q.todo /\ w.got = q.got /\ w.base = q.base
            BY <1>3, <2>1, <2>7, ReadDoes DEF Becomes
        <3>2. ReadInv(w)
            BY <1>3, <2>2, <3>1, LastQuery
        <3> QED BY <1>1, <3>2, ReadInvStays
    <2>8. CASE Forget(r)
        <3>1. w.base = Null
            BY <1>3, <2>8, ReadDoes DEF Becomes
        <3> QED BY <1>3, <3>1
    <2> QED BY <2>3, <2>4, <2>5, <2>6, <2>7, <2>8 DEF Read
<1> QED BY <1>2, <1>3 DEF SavedInv

LEMMA SavedInvStep ==
    ASSUME TypeInv, TableInv, SettledInv, SavedInv, [Next]_vars
    PROVE  SavedInv'
<1>1. ASSUME UNCHANGED <<stageRow, pipeRow, stepRow, reader>> PROVE SavedInv'
    <2>1. ASSUME NEW r \in Readers, NEW w, reader'[r] = w, w.base # Null
          PROVE  ReadInv(w)'
        <3>1. ReadInv(w)
            BY <1>1, <2>1 DEF SavedInv
        <3> QED BY <1>1, <3>1, ReadInvStays
    <2> QED BY <2>1 DEF SavedInv
<1>2. ASSUME NEW e \in Editors, NEW g \in Payloads, StartSave(e, g) PROVE SavedInv'
    <2>1. CASE Valid(g)
        <3>1. ASSUME NEW r \in Readers PROVE reader'[r].base = Null
            <4>1. reader' = [x \in Readers |-> [reader[x] EXCEPT !.base = Null]]
                BY <1>2, <2>1 DEF StartSave
            <4>2. Shaped(reader[r])
                BY DEF TypeInv, ReaderInv
            <4> QED BY <4>1, <4>2 DEF Shaped
        <3> QED BY <3>1 DEF SavedInv
    <2>2. CASE ~Valid(g)
        BY <1>1, <1>2, <2>2 DEF StartSave, tables
    <2> QED BY <2>1, <2>2
<1>3. ASSUME NEW e \in Editors, Save(e) PROVE SavedInv'
    <2>1. PICK rq : rq = editor[e]
        OBVIOUS
    <2>2. rq \in Request /\ Fits(rq)
        BY <2>1 DEF TypeInv, RequestInv
    <2>3. rq.pc \notin {"idle", "patch"} /\ reader' = reader
        BY <1>3, <2>1 DEF Save, WriteJob, WriteStage, WritePipeline, DeleteOrphans,
                          WriteStep, StatementRaises, Saving
    <2>4. settled = Null
        BY <2>1, <2>2, <2>3 DEF SettledInv, SaveInv
    <2>5. ASSUME NEW r \in Readers PROVE reader'[r].base = Null
        BY <2>3, <2>4 DEF SettledInv
    <2> QED BY <2>5 DEF SavedInv
<1>4. CASE \E r \in Readers : Read(r)
    BY <1>4, ReadKeepsSaved
<1>5. CASE \/ \E e \in Editors : \/ \E st \in {"active", "disabled"} : StartPatch(e, st)
                                 \/ WriteStatus(e)
           \/ Archive \/ UNCHANGED vars
    BY <1>1, <1>5 DEF StartPatch, WriteStatus, Archive, vars, tables
<1> QED BY <1>2, <1>3, <1>4, <1>5 DEF Next

LEMMA SavedInvInit == Init => SavedInv
<1> SUFFICES ASSUME Init PROVE SavedInv
    OBVIOUS
<1>1. ASSUME NEW r \in Readers PROVE reader[r].base = Null
    BY DEF Init, NoRead
<1> QED BY <1>1 DEF SavedInv

-----------------------------------------------------------------------------
(* What a resolved reader has got is the body that was saved.                *)

LEMMA PipeIsChild ==
    ASSUME TypeInv, NEW g \in Payloads, Valid(g), TablesHold(g),
           NEW i \in 1..Len(g.pipes), NEW p, p = g.pipes[i]
    PROVE  /\ p.id \in Pipelines /\ p.stage \in Stages /\ Child(p.id, p.stage)
           /\ pipeRow[p.id].stage = p.stage /\ pipeRow[p.id].seq = p.seq
           /\ stageRow[p.stage].seq = SeqOfStage(g, p)
<1>1. /\ p.id \in Pipelines /\ p.stage \in Stages /\ p.seq \in Seqs
      /\ DOMAIN g.stages = 1..Len(g.stages) /\ DOMAIN g.pipes = 1..Len(g.pipes)
    BY ValidIsFull, PayloadAssumption DEF Payload
<1>2. PICK row : row = [stage |-> p.stage, seq |-> p.seq]
    OBVIOUS
<1>3. pipeRow[p.id] = row
    BY <1>2 DEF TablesHold, PipeHolds
<1>4. row \in PipeRecord /\ row # Null /\ row.stage = p.stage /\ row.seq = p.seq
    BY <1>1, <1>2, NullAssumption DEF PipeRecord
<1>5. p.id \in PipesOf(p.stage)
    BY <1>1, <1>3, <1>4 DEF PipesOf, Present, TypeInv, RowsOK
<1>6. p.stage \in Ids(g.stages)
    BY <1>1, PayloadAssumption DEF Nested
<1>7. \E s \in {g.stages[k] : k \in DOMAIN g.stages} : s.id = p.stage
    BY <1>6 DEF Ids
<1>8. PICK s : s = CHOOSE t \in {g.stages[k] : k \in DOMAIN g.stages} : t.id = p.stage
    OBVIOUS
<1>9. s \in {g.stages[k] : k \in DOMAIN g.stages} /\ s.id = p.stage
    BY <1>7, <1>8
<1>10. PICK m \in 1..Len(g.stages) : s = g.stages[m]
    BY <1>1, <1>9
<1>11. PICK above : above = [seq |-> s.seq]
    OBVIOUS
<1>12. stageRow[p.stage] = above
    BY <1>9, <1>10, <1>11 DEF TablesHold, StageHolds
<1>13. above \in StageRecord /\ above # Null /\ above.seq = s.seq
    <2>1. s.seq \in Seqs
        BY <1>10, ValidIsFull
    <2> QED BY <1>11, <2>1, NullAssumption DEF StageRecord
<1>14. p.stage \in Present(stageRow)
    BY <1>1, <1>12, <1>13 DEF Present, TypeInv, RowsOK
<1> QED BY <1>1, <1>3, <1>4, <1>5, <1>8, <1>12, <1>13, <1>14 DEF Child, SeqOfStage

ReadBack(g, p) ==
    /\ Size(g, p) \in Nat /\ Len(StepsRead(p)) = Size(g, p)
    /\ \A n \in 1..Size(g, p) :
          /\ StepsRead(p)[n].id = NthStep(g, p, n).id
          /\ StepsRead(p)[n].reads = NthStep(g, p, n).reads

LEMMA StepsAreAsSaved ==
    ASSUME TypeInv, TableInv, NEW g \in Payloads, NEW p \in Pipelines,
           UniqueRows(StepsIn(g, p)), StepsHold(g, p)
    PROVE  ReadBack(g, p)
<1>1. PICK ids, size, steps, found, count :
          /\ ids = RowsOf(p) /\ size = Size(g, p) /\ steps = StepsRead(p)
          /\ found = InSequence(RowsOf(p), stepRow) /\ count = Cardinality(RowsOf(p))
    OBVIOUS
<1>2. PICK f : f = [k \in 1..size |-> NthStep(g, p, k).id]
    OBVIOUS
<1>3. size \in Nat
    BY <1>1, StepsAreFew
<1>4. ASSUME NEW k \in 1..size
      PROVE  /\ f[k] = NthStep(g, p, k).id /\ f[k] \in ids /\ stepRow[f[k]].seq = k
             /\ stepRow[f[k]].reads = NthStep(g, p, k).reads
    <2>1. StepHolds(g, p, k)
        BY <1>1 DEF StepsHold
    <2> QED BY <1>1, <1>2, <2>1, StepIsPresent
<1>5. \A x \in ids : \E k \in 1..size : f[k] = x
    BY <1>1, <1>2 DEF StepsHold, OnlyOf
<1>6. ASSUME NEW k \in 0..size, NEW part, part = {f[l] : l \in 1..k}
      PROVE  Cardinality(part) = k
    <2>1. PICK h : h = [l \in 1..k |-> f[l]]
        OBVIOUS
    <2>2. \A l \in 1..k : l \in 1..size
        BY <1>3
    <2>3. h \in Surjection(1..k, part)
        BY <1>6, <2>1 DEF Surjection
    <2>4. \A l, m \in 1..k : h[l] = h[m] => l = m
        <3>1. \A l \in 1..k : stepRow[h[l]].seq = l
            BY <1>4, <2>1, <2>2
        <3> QED BY <3>1
    <2>5. h \in Injection(1..k, part)
        BY <2>3, <2>4 DEF Surjection, Injection, IsInjective
    <2>6. IsFiniteSet(1..k) /\ Cardinality(1..k) = k
        BY <1>3, FS_Interval
    <2>7. Cardinality(part) = Cardinality(1..k)
        BY <2>3, <2>5, <2>6, FS_Surjection
    <2> QED BY <2>6, <2>7
<1>7. count = size
    <2>1. ids = {f[l] : l \in 1..size}
        BY <1>4, <1>5
    <2> QED BY <1>1, <1>3, <1>6, <2>1
<1>8. /\ found \in [1..count -> ids]
      /\ \A n \in 1..count : Cardinality(Ahead(ids, stepRow, found[n])) = n - 1
      /\ Len(steps) = count
      /\ \A n \in 1..count : /\ steps[n].id = found[n]
                             /\ steps[n].reads = stepRow[found[n]].reads
    BY <1>1, StepsReadAre
<1>9. ASSUME NEW n \in 1..size PROVE found[n] = f[n]
    <2>1. found[n] \in ids
        BY <1>7, <1>8
    <2>2. PICK k \in 1..size : found[n] = f[k]
        BY <1>5, <2>1
    <2>3. Ahead(ids, stepRow, f[k]) = {f[l] : l \in 1..(k - 1)}
        <3>1. ASSUME NEW y \in Ahead(ids, stepRow, f[k])
              PROVE  y \in {f[l] : l \in 1..(k - 1)}
            <4>1. y \in ids /\ stepRow[y].seq < stepRow[f[k]].seq
                BY DEF Ahead
            <4>2. PICK l \in 1..size : f[l] = y
                BY <1>5, <4>1
            <4>3. l < k
                BY <1>4, <4>1, <4>2
            <4> QED BY <1>3, <4>2, <4>3
        <3>2. ASSUME NEW l \in 1..(k - 1) PROVE f[l] \in Ahead(ids, stepRow, f[k])
            <4>1. l \in 1..size /\ l < k
                BY <1>3
            <4> QED BY <1>4, <4>1 DEF Ahead
        <3> QED BY <3>1, <3>2
    <2>4. k - 1 \in 0..size
        BY <1>3
    <2>5. Cardinality(Ahead(ids, stepRow, f[k])) = k - 1
        BY <1>6, <2>3, <2>4
    <2>6. n - 1 = k - 1
        BY <1>7, <1>8, <2>2, <2>5
    <2> QED BY <1>3, <2>2, <2>6
<1>10. ASSUME NEW n \in 1..size
       PROVE  /\ steps[n].id = NthStep(g, p, n).id
              /\ steps[n].reads = NthStep(g, p, n).reads
    BY <1>4, <1>7, <1>8, <1>9
<1> QED BY <1>1, <1>3, <1>7, <1>8, <1>10 DEF ReadBack

(* A step of a valid body reads steps that precede it.                       *)
LEMMA ReadsPrecede ==
    ASSUME NEW g \in Payloads, Valid(g), NEW p, UniqueRows(StepsIn(g, p)),
           NEW n \in 1..Size(g, p), NEW x \in NthStep(g, p, n).reads
    PROVE  \E m \in 1..(n - 1) : m \in 1..Size(g, p) /\ NthStep(g, p, m).id = x
<1>1. PICK s : s = NthStep(g, p, n)
    OBVIOUS
<1>2. s \in StepsIn(g, p) /\ Cardinality(Earlier(g, p, s)) = n - 1
    BY <1>1, NthStepIsThere
<1>3. PICK i \in StepsAt(g, p) : s = g.steps[i]
    BY <1>2 DEF StepsIn
<1>4. i \in DOMAIN g.steps /\ s.pipe = p /\ x \in g.steps[i].reads
    BY <1>1, <1>3 DEF StepsAt
<1>5. PICK t \in StepsIn(g, p) : /\ t.id = x
                                 /\ \A u \in StepsIn(g, t.pipe) : u.id = s.id => t.seq < u.seq
    BY <1>3, <1>4 DEF Valid, BindingsResolve
<1>6. t.pipe = p
    BY DEF StepsIn, StepsAt
<1>7. t.seq < s.seq
    BY <1>2, <1>5, <1>6
<1>8. PICK m \in 1..Size(g, p) : NthStep(g, p, m) = t
    BY EveryStepIsNth
<1>9. Cardinality(Earlier(g, p, t)) = m - 1
    BY <1>8, NthStepIsThere
<1>10. m - 1 < n - 1
    BY <1>2, <1>7, <1>9, RankGrows
<1>11. Size(g, p) \in Nat
    BY StepsAreFew
<1>12. m \in 1..(n - 1)
    BY <1>10, <1>11
<1> QED BY <1>5, <1>8, <1>12

(* The pipeline was read once, in its stage, with its rows.                  *)
ReadOnce(got, p) ==
    /\ \E k \in 1..Len(got) : got[k].pipe = p.id
    /\ \A k, l \in 1..Len(got) : got[k].pipe = p.id /\ got[l].pipe = p.id => k = l
    /\ \A k \in 1..Len(got) : got[k].pipe = p.id =>
          got[k].stage = p.stage /\ got[k].steps = StepsRead(p.id)

LEMMA ResolvedHasAll ==
    ASSUME TypeInv, NEW g \in Payloads, Valid(g), TablesHold(g),
           NEW q, ReadInv(q), q.pc = "resolved", NEW got, got = q.got,
           NEW i \in 1..Len(g.pipes), NEW p, p = g.pipes[i]
    PROVE  ReadOnce(got, p)
<1>1. /\ \A k \in 1..Len(got) : IsRead(got[k])
      /\ \A m, n \in 1..Len(got) : m < n => Before(AsItem(got[m]), AsItem(got[n]))
      /\ \A x \in Pipelines, s \in Stages : Child(x, s) => Covers(<<>>, got, x, s)
      /\ Len(got) \in Nat
    BY DEF ReadInv, InOrder
<1>2. /\ p.id \in Pipelines /\ p.stage \in Stages /\ Child(p.id, p.stage)
      /\ pipeRow[p.id].stage = p.stage
    BY PipeIsChild
<1>3. \E k \in 1..Len(got) : got[k].pipe = p.id
    <2>1. Covers(<<>>, got, p.id, p.stage)
        BY <1>1, <1>2
    <2> QED BY <2>1 DEF Covers
<1>4. ASSUME NEW k \in 1..Len(got), got[k].pipe = p.id
      PROVE  got[k].stage = p.stage /\ got[k].steps = StepsRead(p.id)
    BY <1>1, <1>2, <1>4 DEF IsRead, Child, PipesOf
<1>5. stageRow[p.stage].seq \in Nat /\ pipeRow[p.id].seq \in Nat
    BY <1>2, RowsAreNumbered DEF Child, PipesOf
<1>6. ASSUME NEW k \in 1..Len(got), NEW l \in 1..Len(got), k < l,
             got[k].pipe = p.id, got[l].pipe = p.id
      PROVE  FALSE
    <2>1. PICK u : u = <<"pipeline", p.id, p.stage>>
        OBVIOUS
    <2>2. u[1] = "pipeline" /\ u[2] = p.id /\ u[3] = p.stage
        BY <2>1
    <2>3. AsItem(got[k]) = u /\ AsItem(got[l]) = u
        BY <1>4, <1>6, <2>1 DEF AsItem
    <2>4. Before(u, u)
        BY <1>1, <1>6, <2>3
    <2>5. StageOf(u) = p.stage
        BY <2>2 DEF StageOf
    <2> QED BY <1>5, <2>2, <2>4, <2>5 DEF Before, Below
<1>7. ASSUME NEW k \in 1..Len(got), NEW l \in 1..Len(got),
             got[k].pipe = p.id, got[l].pipe = p.id
      PROVE  k = l
    <2>1. ~(k < l) /\ ~(l < k)
        BY <1>6, <1>7
    <2> QED BY <1>1, <2>1
<1> QED BY <1>3, <1>4, <1>7 DEF ReadOnce

LEMMA ResolvedInOrder ==
    ASSUME TypeInv, NEW g \in Payloads, Valid(g), TablesHold(g),
           NEW q, ReadInv(q), q.pc = "resolved", NEW got, got = q.got,
           NEW i \in 1..Len(g.pipes), NEW p, p = g.pipes[i],
           NEW j \in 1..Len(g.pipes), NEW r, r = g.pipes[j],
           NEW k \in 1..Len(got), got[k].pipe = p.id,
           NEW l \in 1..Len(got), got[l].pipe = r.id,
           \/ SeqOfStage(g, p) < SeqOfStage(g, r)
           \/ p.stage = r.stage /\ p.seq < r.seq
    PROVE  k < l
<1>1. /\ p.id \in Pipelines /\ p.stage \in Stages /\ Child(p.id, p.stage)
      /\ pipeRow[p.id].stage = p.stage /\ pipeRow[p.id].seq = p.seq
      /\ stageRow[p.stage].seq = SeqOfStage(g, p)
      /\ got[k].stage = p.stage
    <2>1. ReadOnce(got, p)
        BY ResolvedHasAll
    <2> QED BY <2>1, PipeIsChild DEF ReadOnce
<1>2. /\ r.id \in Pipelines /\ r.stage \in Stages /\ Child(r.id, r.stage)
      /\ pipeRow[r.id].stage = r.stage /\ pipeRow[r.id].seq = r.seq
      /\ stageRow[r.stage].seq = SeqOfStage(g, r)
      /\ got[l].stage = r.stage
    <2>1. ReadOnce(got, r)
        BY ResolvedHasAll
    <2> QED BY <2>1, PipeIsChild DEF ReadOnce
<1>3. /\ stageRow[p.stage].seq \in Nat /\ pipeRow[p.id].seq \in Nat
      /\ stageRow[r.stage].seq \in Nat /\ pipeRow[r.id].seq \in Nat
    BY <1>1, <1>2, RowsAreNumbered DEF Child, PipesOf
<1>4. ASSUME l < k PROVE FALSE
    <2>1. PICK u, v : u = AsItem(got[l]) /\ v = AsItem(got[k])
        OBVIOUS
    <2>2. /\ u[2] = r.id /\ u[3] = r.stage /\ StageOf(u) = r.stage
          /\ v[2] = p.id /\ v[3] = p.stage /\ StageOf(v) = p.stage
        BY <1>1, <1>2, <2>1 DEF AsItem, StageOf
    <2>3. Before(u, v)
        BY <1>4, <2>1 DEF ReadInv, InOrder
    <2>4. \/ stageRow[r.stage].seq < stageRow[p.stage].seq
          \/ r.stage = p.stage /\ pipeRow[r.id].seq < pipeRow[p.id].seq
        BY <2>2, <2>3 DEF Before, Below
    <2> QED BY <1>1, <1>2, <1>3, <2>4
<1>5. ASSUME l = k PROVE FALSE
    <2>1. p.id = r.id /\ p.stage = r.stage
        BY <1>1, <1>2, <1>5
    <2> QED BY <1>1, <1>2, <1>3, <2>1
<1>6. Len(got) \in Nat
    BY DEF ReadInv
<1> QED BY <1>4, <1>5, <1>6

LEMMA PipeIsAsSaved ==
    ASSUME TypeInv, TableInv, NEW g \in Payloads, Valid(g), TablesHold(g),
           NEW q, ReadInv(q), q.pc = "resolved", NEW got, got = q.got,
           NEW i \in 1..Len(g.pipes), NEW p, p = g.pipes[i]
    PROVE  PipeAsSaved(g, got, p)
<1> DEFINE at == GotAt(got, p)
<1>1. DOMAIN got = 1..Len(got) /\ DOMAIN g.pipes = 1..Len(g.pipes)
    BY PayloadAssumption DEF ReadInv, Payload
<1>2. ReadOnce(got, p)
    BY ResolvedHasAll
<1>3. Cardinality(at) = 1
    <2>1. PICK k \in 1..Len(got) : got[k].pipe = p.id
        BY <1>2 DEF ReadOnce
    <2>2. at = {k}
        BY <1>1, <1>2, <2>1 DEF GotAt, ReadOnce
    <2> QED BY <2>2, FS_Singleton
<1>4. p.id \in Pipelines /\ UniqueRows(StepsIn(g, p.id))
    BY <1>1, ValidIsFull
<1>5. StepsHold(g, p.id)
    BY <1>1 DEF TablesHold
<1>6. PICK steps, size : steps = StepsRead(p.id) /\ size = Size(g, p.id)
    OBVIOUS
<1>7. /\ size \in Nat /\ Len(steps) = size
      /\ \A n \in 1..size : /\ steps[n].id = NthStep(g, p.id, n).id
                            /\ steps[n].reads = NthStep(g, p.id, n).reads
    <2>1. ReadBack(g, p.id)
        BY <1>4, <1>5, StepsAreAsSaved
    <2> QED BY <1>6, <2>1 DEF ReadBack
<1>8. DOMAIN steps = 1..size
    <2>1. steps \in Seq(StepRead)
        BY <1>6, StepsReadAre
    <2> QED BY <1>7, <2>1
<1>9. ASSUME NEW n \in 1..size
       PROVE  steps[n].reads \subseteq {steps[m].id : m \in 1..(n - 1)}
    <2>1. ASSUME NEW x \in steps[n].reads PROVE x \in {steps[m].id : m \in 1..(n - 1)}
        <3>1. x \in NthStep(g, p.id, n).reads
            BY <1>7, <2>1
        <3>2. PICK m \in 1..(n - 1) : m \in 1..size /\ NthStep(g, p.id, m).id = x
            BY <1>4, <1>6, <3>1, ReadsPrecede
        <3> QED BY <1>7, <3>2
    <2> QED BY <2>1
<1>10. StepsAsSaved(g, p.id, steps)
    <2>1. Len(steps) = Cardinality(StepsIn(g, p.id))
        BY <1>6, <1>7 DEF Size
    <2> QED BY <1>7, <1>8, <1>9, <2>1 DEF StepsAsSaved
<1>11. ASSUME NEW k \in at
       PROVE  got[k].stage = p.stage /\ StepsAsSaved(g, p.id, got[k].steps)
    BY <1>1, <1>2, <1>6, <1>10 DEF GotAt, ReadOnce
<1>12. ASSUME NEW k \in at, NEW j \in DOMAIN g.pipes, NEW l \in GotAt(got, g.pipes[j]),
              \/ SeqOfStage(g, p) < SeqOfStage(g, g.pipes[j])
              \/ p.stage = g.pipes[j].stage /\ p.seq < g.pipes[j].seq
       PROVE  k < l
    <2>1. PICK x : x = g.pipes[j]
        OBVIOUS
    <2>2. /\ k \in 1..Len(got) /\ got[k].pipe = p.id
          /\ l \in 1..Len(got) /\ got[l].pipe = x.id
          /\ i \in 1..Len(g.pipes) /\ j \in 1..Len(g.pipes)
          /\ \/ SeqOfStage(g, p) < SeqOfStage(g, x)
             \/ p.stage = x.stage /\ p.seq < x.seq
        BY <1>1, <1>12, <2>1 DEF GotAt
    <2> QED BY <2>1, <2>2, ResolvedInOrder
<1> QED BY <1>3, <1>11, <1>12 DEF PipeAsSaved

LEMMA ResolvedIsSaved ==
    ASSUME TypeInv, TableInv, SettledInv, SavedInv PROVE SavedIsRead
<1>1. ASSUME NEW r \in Readers, reader[r].pc = "resolved", reader[r].base # Null,
             IdsDiffer(reader[r].base), NEW i \in DOMAIN reader[r].base.pipes
      PROVE  PipeAsSaved(reader[r].base, reader[r].got, reader[r].base.pipes[i])
    <2>1. PICK q, g : q = reader[r] /\ g = q.base
        OBVIOUS
    <2>2. settled = g /\ g \in Payloads
        BY <1>1, <2>1 DEF SettledInv, TypeInv, HistoryOK
    <2>3. Valid(g) /\ TablesHold(g) /\ ReadInv(q)
        BY <1>1, <2>1, <2>2 DEF SettledInv, SavedInv
    <2>4. i \in 1..Len(g.pipes) /\ q.pc = "resolved"
        BY <1>1, <2>1, <2>2, PayloadAssumption DEF Payload
    <2>5. PICK got, p : got = q.got /\ p = g.pipes[i]
        OBVIOUS
    <2>6. PipeAsSaved(g, got, p)
        BY <2>2, <2>3, <2>4, <2>5, PipeIsAsSaved
    <2> QED BY <2>1, <2>5, <2>6
<1> QED BY <1>1 DEF SavedIsRead

(* What was saved is what runs, for all bodies, editors and readers: a save  *)
(* that nobody overlapped leaves its rows, and in its pipelines no others;   *)
(* what a reader has got and has left to do are the rows in their order,     *)
(* until another save starts (save_job_graph, get_graph_by_id).              *)
THEOREM SavedGraphIsRead == Spec => []SavedIsRead
<1>1. Init => TypeInv /\ CollideInv /\ TableInv /\ SettledInv /\ SavedInv
    BY TypeInvInit, CollideInvInit, TableInvInit, SettledInvInit, SavedInvInit
<1>2. /\ TypeInv /\ CollideInv /\ TableInv /\ SettledInv /\ SavedInv /\ [Next]_vars
      => (TypeInv /\ CollideInv /\ TableInv /\ SettledInv /\ SavedInv)'
    <2> SUFFICES ASSUME TypeInv, CollideInv, TableInv, SettledInv, SavedInv, [Next]_vars
                 PROVE  (TypeInv /\ CollideInv /\ TableInv /\ SettledInv /\ SavedInv)'
        OBVIOUS
    <2>1. OneAlone
        BY DEF CollideInv
    <2>2. TypeInv' /\ CollideInv'
        BY TypeInvStep, CollideInvStep
    <2>3. TableInv'
        BY TableInvStep
    <2>4. SettledInv'
        BY <2>1, SettledInvStep
    <2>5. SavedInv'
        BY SavedInvStep
    <2> QED BY <2>2, <2>3, <2>4, <2>5
<1>3. TypeInv /\ TableInv /\ SettledInv /\ SavedInv => SavedIsRead
    BY ResolvedIsSaved
<1> QED BY <1>1, <1>2, <1>3, PTL DEF Spec
=============================================================================
