SPECIFICATION FairSpec
CONSTANTS
    n1 = n1
    n2 = n2
    n3 = n3
    x1 = x1
    x2 = x2
    NodeId = {n1, n2, n3}
    Executor = {x1, x2}
    MaxParallel = 2
INVARIANTS DependenciesRespected OneOwner ProgressPossible
PROPERTIES ResultsAreFinal GivesUpOnlyWhenStuck RunReturns
