CONSTANTS
    Worker = {w1, w2}
    Main = main_thread
    NumFiles = 3
SPECIFICATION FairSpec
PROPERTIES
    RefinesBatch
    EveryFileConverted
    DestructorReturns
