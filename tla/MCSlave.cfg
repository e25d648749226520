SPECIFICATION FairSpec
CONSTANTS
  N = 5
  Num = 2
  CommitNum = 2
  SaveNum = 3
  MaxBreaks = 2
  MaxStops = 2
  Cmds <- MCCmds
  Keys <- MCKeys
  Key <- MCKey
  Width <- MCWidth
INVARIANTS TypeOK RepliesCounted LossBound InfoWhole ConvergesAfterBreak
PROPERTIES NoGap ReplayBounded PositionCatchesUp
