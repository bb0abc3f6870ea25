\* The bounds of MCShell.cfg; is every foreground command collected by its
\* waitpid before the next prompt?
CONSTANTS
  HistSize = 2
  MaxArgs = 16
  Lines <- MCLines
  Dirs <- MCDirs
  Home = "home"
  NULL = NULL
  MaxCmds = 5
SPECIFICATION Spec
CHECK_DEADLOCK FALSE
INVARIANT
  ForegroundCollected
