SPECIFICATION Spec
CONSTANTS
    Limit = 15
    Unopenable <- Missing
    Anywhere <- None
    Alone <- None
    OfMembers <- Extra
    MaxOps = 1
    MaxDepth = 0
    MaxMembers = 2
    FailingForks = {1}
INVARIANTS
    RedirectionsMean
