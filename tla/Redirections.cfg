SPECIFICATION Spec
CONSTANTS
    Limit = 15
    Unopenable <- Missing
    Anywhere <- Ordinary
    Alone <- AtTop
    OfMembers <- Standard
    MaxOps = 2
    MaxDepth = 2
    MaxMembers = 3
    FailingForks = {1}
INVARIANTS
    RedirectionsMean
    NothingLeaks
    EndsHeldOnce
PROPERTIES
    DescriptorsComeBack
