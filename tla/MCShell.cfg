CONSTANTS
  NInode = 22
  NBlock = 20
  NEntry = 15
  MaxSize = 8
  NoName <- NoText
  NoData = NoData
  Mounts <- MCMounts
  Devices <- MCDevices
  Tasks <- MCTasks
  NFile = 5
  CAP = 3
  LINE = 2
  Line <- MCLine
  MaxLines = 4
SPECIFICATION Spec
INVARIANTS FilesReturned PathsSound
PROPERTIES CopyFaithful MovesFile PromptReturns
