SPECIFICATION DSpec
CONSTANTS
    Size = 2
    PtrMod = 4
    Limit = 2
    MaxPosts = 3
INVARIANTS DInv
PROPERTIES KeepsManagerContract ImplementsChannel
