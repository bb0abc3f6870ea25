\* HIST_SIZE 2, MAX_ARGS 16 as in the code, up to 5 lines read, so the
\* history wraps and !n can name evicted, stored and future lines.  The shell
\* stops at exit and at the bound on lines read.
CONSTANTS
  HistSize = 2
  MaxArgs = 16
  Lines <- MCLines
  Dirs <- MCDirs
  Home = "home"
  NULL = NULL
  MaxCmds = 5
SPECIFICATION Spec
CHECK_DEADLOCK FALSE
INVARIANTS
  TypeOK
  HistoryWindow
  RecallMatchesHistory
