SPECIFICATION Spec
CONSTANTS
  N = 6
  Num = 3
  CommitNum = 2
  SaveNum = 3
  MaxBreaks = 2
  MaxStops = 2
  Cmds <- MCCmds
  Keys <- MCKeys
  Key <- MCKey
  Width <- MCWidth
INVARIANT Converges
