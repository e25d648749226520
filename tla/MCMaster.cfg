CONSTANTS
  NULL = NULL
  Hash <- MCHash
  ModuleMax = 4  KeyMax = 4  ValueMax = 8
  CoreKeys <- MCCoreKeys
  MasterKeys <- MCMasterKeys
  Files <- MCFiles
  FirstFiles <- MCFirstFiles
  MaxLines = 4
  MaxReloads = 2
  MaxThreads = 2
SPECIFICATION FairSpec
INVARIANTS ConfMeansFile ServesAddress OneAcceptor 
PROPERTIES QuitEnds
