CONSTANTS
    e1 = e1
    e2 = e2
    c1 = c1
    c2 = c2
    c3 = c3
    Event <- MCEvent
    Callback <- MCCallback
    Interest <- MCInterest
    Nobody = nobody
    MaxSubscribers = 3
    MaxQueued = 3
    MaxDepth = 2
SPECIFICATION Spec
INVARIANTS
    TypeOK
    CalledOnce
PROPERTIES
    DeferredInOrder
    LoopsEnd
