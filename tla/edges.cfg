CONSTANT MaxFrames = 4
SPECIFICATION FairSpec
INVARIANTS TypeOK EdgesOfOneFrame NoLostFrame
PROPERTIES EdgesAdvance EveryFrameOvertaken StopEnds
