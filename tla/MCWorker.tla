------------------------------ MODULE MCWorker ------------------------------
(* Small instances of Worker for TLC. *)
EXTENDS Worker, TLC

CONSTANTS w1, w2, r1, r2, r3

OneWrites    == (r1 :> "writes")
MixedKinds   == (r1 :> "preview") @@ (r2 :> "incomplete") @@ (r3 :> "malformed")

Faults(db, archive, crash, expire) ==
    [c \in FaultClass |-> CASE c = "db" -> db [] c = "archive" -> archive
                             [] c = "crash" -> crash [] c = "expire" -> expire]

OneOfEach   == Faults(1, 1, 1, 1)
TwoArchives == Faults(1, 2, 1, 1)   \* the second one ends the process
CrashOnly   == Faults(0, 0, 2, 0)
ArchiveOnly == Faults(0, 1, 0, 0)

WorkerSymmetry == Permutations(Workers)
=============================================================================
