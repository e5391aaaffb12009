\* The main thread and another; two deferred blocks, of which one assigns.
SPECIFICATION Spec
CONSTANTS
    Threads = {main, co}
    Main = main
    Blocks = {b1, b2}
    Setters = {b1}
    MaxDepth <- Depths
    Smallest <- SmallestInt
INVARIANTS DeferredOnce OutcomeTaken
PROPERTIES RunsInReverse
CHECK_DEADLOCK FALSE
