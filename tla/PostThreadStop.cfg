\* A /stop given between the start of a posting and the thread's first step.
SPECIFICATION PostSpec
CONSTANTS
  PostTexts = {3}
  BlankLines = {2}
  MaxPostLines = 3
  PostPatience = 1
INVARIANT StopHeeded
CHECK_DEADLOCK FALSE
