SPECIFICATION Spec
CONSTANTS
    Requests = {r1, r2}
    Sources = {"a", "b"}
    Null = Null
    MaxFaults = 1
    NameOf <- MCNames
    Bodies <- MCBodies
    Graphs <- MCGraphs
    Starts <- MCStarts
    MaxJobs = 1
SYMMETRY Symmetry
CHECK_DEADLOCK FALSE
INVARIANTS TypeOK SchemaOfItsSource StarterLinked ConnectionAgrees LimitKept
