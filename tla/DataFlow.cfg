SPECIFICATION Spec
CONSTANTS
    Versions <- MCVersions
    StepIds = {"a", "b", "c", "d", "e", "f", "g", "h"}
    Ids = {"s1", "s2", "p1", "p2", "p3", "p4"}
    Keys = {"k1", "k2"}
    Nothing = "nothing"
    Field <- MCField
    Deployments <- MCDeployments
    Allows = {TRUE, FALSE}
    MaxEdits = 1
CHECK_DEADLOCK FALSE
INVARIANTS TypeOK CacheFollowsOrder AnalyzedReadsSatisfied TestsTouchOnlyWhatTheyMay
