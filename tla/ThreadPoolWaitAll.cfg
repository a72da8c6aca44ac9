CONSTANTS
    Worker = {w1, w2}
    Main = main_thread
    NumFiles = 2
SPECIFICATION FairSpec
PROPERTY WaitAllEnds
