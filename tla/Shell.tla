------------------------------- MODULE Shell -------------------------------
(***************************************************************************)
(* The shell of src/lecture/test/test2.c: one iteration of main's loop per *)
(* input line, with the history buffer (enqueue_history, get_history,      *)
(* get_last_history), !! and !n recall, tokenize into the args array that  *)
(* persists across iterations, is_background, and the built-ins exit and   *)
(* cd with its cd - memory; pwd, history and help change none of this     *)
(* state.  External commands are forked children, waited for in the       *)
(* foreground or left in the background and collected by reap_background  *)
(* at the top of the loop.  The terminal's Ctrl-C sends SIGINT to the      *)
(* shell and to all its children: they share its process group.            *)
(*                                                                         *)
(* An input line is a record: bang = "none" for an ordinary line of words, *)
(* "last" for a line starting !!, "nth" for !<digits> (n = atoi of them),  *)
(* "junk" for ! followed by anything else.  Words are strings.             *)
(***************************************************************************)
EXTENDS Naturals, Sequences, SequencesExt

CONSTANTS
  HistSize,   \* HIST_SIZE
  MaxArgs,    \* MAX_ARGS
  Lines,      \* the input lines the user may type
  Dirs,       \* directories chdir succeeds on
  Home,       \* getenv("HOME")
  NULL,       \* the null pointer
  MaxCmds     \* bound on the lines read

ASSUME HistSize >= 1 /\ MaxArgs >= 3 /\ Home \in Dirs /\ MaxCmds \in Nat

VARIABLES
  hist,       \* input_hist[0 .. hist_size-1]
  histCount,  \* hist_count
  args,       \* args[0 .. MAX_ARGS-1], main's local array
  cwd,        \* the working directory
  lastPath,   \* lastPath, the directory cd - returns to ("" at start)
  phase,      \* "running", "exited" (exit built-in), "crashed"
  allHist,    \* every line ever stored (history)
  reads,      \* lines read so far
  children,   \* the forked children in pid order: [bg, st], st is "run",
              \* "zombie" (exited, not yet waited for) or "reaped"
  waiting     \* the child the blocking waitpid(pid, ..., 0) waits for, or 0

vars == <<hist, histCount, args, cwd, lastPath, phase, allHist, reads,
          children, waiting>>

Indices == 0..MaxArgs - 1

Init ==
  /\ hist = <<>>
  /\ histCount = 0
  \* main's args is not initialised.  The only entry read before it is
  \* written is args[2] (by cd, when the line has one token); it holds NULL
  \* or stack garbage.
  /\ args \in {[i \in Indices |-> IF i = 2 THEN g ELSE NULL] : g \in {NULL, "?"}}
  /\ cwd = Home
  /\ lastPath = ""
  /\ phase = "running"
  /\ allHist = <<>>
  /\ reads = 0
  /\ children = <<>>
  /\ waiting = 0

-----------------------------------------------------------------------------
(* History functions. *)

\* Fault variant: when full, the newest entry overwrites the last slot.
EnqueueHistoryOverwrite(h, l) ==
  IF Len(h) = HistSize THEN [h EXCEPT ![HistSize] = l] ELSE Append(h, l)

\* Fault variant: the buffer is taken as full one entry late.
EnqueueHistoryLate(h, l) ==
  IF Len(h) = HistSize + 1 THEN Append(Tail(h), l) ELSE Append(h, l)

\* enqueue_history: when full, drop input_hist[0] and shift down; append.
EnqueueHistory(h, l) ==
  IF Len(h) = HistSize THEN Append(Tail(h), l) ELSE Append(h, l)

get_last_history == IF hist # <<>> THEN Last(hist) ELSE NULL

\* Fault variant: the index misses its "- 1" once the buffer has wrapped.
GetHistoryOffByOne(n) ==
  IF n <= 0 \/ n > histCount THEN NULL
  ELSE LET index == IF histCount > HistSize THEN n - (histCount - HistSize)
                    ELSE n - 1
       IN  IF index < 0 \/ index >= Len(hist) THEN NULL ELSE hist[index + 1]

\* get_history(n), with the 0-based C index into input_hist.
get_history(n) ==
  IF n <= 0 \/ n > histCount THEN NULL
  ELSE LET index == IF histCount > HistSize THEN n - (histCount - HistSize) - 1
                    ELSE n - 1
       IN  IF index < 0 \/ index >= Len(hist) THEN NULL ELSE hist[index + 1]

\* The line main goes on with after the !! / !n check, or NULL to continue.
Expand(l) ==
  CASE l.bang = "none" -> l
    [] l.bang = "last" -> get_last_history
    [] l.bang = "nth"  -> get_history(l.n)
    [] l.bang = "junk" -> NULL

-----------------------------------------------------------------------------
(* Tokenising and dispatch. *)

\* tokenize: args[i] = token i for i < min(#tokens, MAX_ARGS - 1), then
\* args[i] = NULL; the entries after that keep what an earlier line left.
tokenize(a, words) ==
  LET k == IF Len(words) < MaxArgs - 1 THEN Len(words) ELSE MaxArgs - 1
  IN  [i \in Indices |-> IF i < k THEN words[i + 1]
                         ELSE IF i = k THEN NULL ELSE a[i]]

\* argc: the entries before the first NULL.
Argc(a) == CHOOSE c \in Indices : a[c] = NULL /\ \A i \in 0..c - 1 : a[i] # NULL

\* is_background: a trailing "&" is cut off.
is_background(a) ==
  LET c == Argc(a) IN c > 0 /\ a[c - 1] = "&"

StripBackground(a) ==
  IF is_background(a) THEN [a EXCEPT ![Argc(a) - 1] = NULL] ELSE a

\* The directory cd changes to: HOME for no argument or ~, lastPath for -.
CdPath(a) ==
  CASE a[1] = NULL -> Home
    [] a[1] = "~"  -> Home
    [] a[1] = "-"  -> lastPath
    [] OTHER       -> a[1]

-----------------------------------------------------------------------------
(* Children. *)

\* reap_background: waitpid(-1, WNOHANG) collects every exited child,
\* foreground or background.
Reap(c) == [k \in DOMAIN c |-> IF c[k].st = "zombie" THEN [c[k] EXCEPT !.st = "reaped"]
                                                     ELSE c[k]]

\* The command of a child ends (or execvp fails and it calls _exit(1)).
ChildExit(k) ==
  /\ children[k].st = "run"
  /\ children' = [children EXCEPT ![k].st = "zombie"]
  /\ UNCHANGED <<hist, histCount, args, cwd, lastPath, phase, allHist, reads,
                 waiting>>

\* The foreground waitpid(pid, &status, 0) returns with the child's status.
WaitReturns ==
  /\ waiting # 0
  /\ children[waiting].st = "zombie"
  /\ children' = [children EXCEPT ![waiting].st = "reaped"]
  /\ waiting' = 0
  /\ UNCHANGED <<hist, histCount, args, cwd, lastPath, phase, allHist, reads>>

\* Ctrl-C: SIGINT reaches the shell and every child.  The shell's handler
\* runs, and since sa_flags is 0 (no SA_RESTART) the system call it is
\* blocked in, read or waitpid, fails with EINTR; main continues its loop.
\* A child has SIG_DFL restored before execvp, but the program it runs may
\* catch SIGINT, and a dying child is collected only when it has exited:
\* any set of the running children exits now.
SigInt ==
  /\ phase = "running"
  /\ \E dying \in SUBSET {k \in DOMAIN children : children[k].st = "run"} :
       children' = [k \in DOMAIN children |->
                      IF k \in dying THEN [children[k] EXCEPT !.st = "zombie"]
                      ELSE children[k]]
  /\ waiting' = 0
  /\ UNCHANGED <<hist, histCount, args, cwd, lastPath, phase, allHist, reads>>

-----------------------------------------------------------------------------
(* One iteration of main's loop on input line l: reap_background, then the *)
(* line. *)

\* The shell is at the top of its loop, not blocked in waitpid.
AtPrompt == phase = "running" /\ waiting = 0

\* A line that starts no child.
NoFork == children' = Reap(children) /\ UNCHANGED waiting

\* !! with an empty history, !n naming no stored line, or ! followed by a
\* non-number: continue without storing anything.
RecallFails(l) ==
  /\ AtPrompt
  /\ reads < MaxCmds
  /\ Expand(l) = NULL
  /\ reads' = reads + 1
  /\ NoFork
  /\ UNCHANGED <<hist, histCount, args, cwd, lastPath, phase, allHist>>

\* The line (after recall) is stored in the history: enqueue_history.
Store(l) ==
  /\ AtPrompt
  /\ reads < MaxCmds
  /\ Expand(l) # NULL
  /\ hist' = EnqueueHistory(hist, Expand(l))
  /\ histCount' = histCount + 1
  /\ allHist' = Append(allHist, Expand(l))
  /\ reads' = reads + 1

Tok(l) == tokenize(args, Expand(l).words)
Cmd(l) == StripBackground(Tok(l))

\* No token: continue.
RunBlank(l) ==
  /\ Store(l)
  /\ Tok(l)[0] = NULL
  /\ args' = Tok(l)
  /\ UNCHANGED <<cwd, lastPath, phase>>
  /\ NoFork

\* The line was "&" alone: is_background clears args[0] and strcmp(NULL,
\* "exit") faults.
RunCrash(l) ==
  /\ Store(l)
  /\ Tok(l)[0] # NULL
  /\ Cmd(l)[0] = NULL
  /\ args' = Cmd(l)
  /\ phase' = "crashed"
  /\ UNCHANGED <<cwd, lastPath>>
  /\ NoFork

\* exit: leaves the loop unless it has an argument.
RunExit(l) ==
  /\ Store(l)
  /\ Tok(l)[0] # NULL
  /\ Cmd(l)[0] = "exit"
  /\ args' = Cmd(l)
  /\ phase' = IF Cmd(l)[1] = NULL THEN "exited" ELSE "running"
  /\ UNCHANGED <<cwd, lastPath>>
  /\ NoFork

\* cd: refused when args[2] is set; otherwise chdir, and on success the
\* directory of the prompt becomes lastPath.
RunCd(l) ==
  /\ Store(l)
  /\ Tok(l)[0] # NULL
  /\ Cmd(l)[0] = "cd"
  /\ args' = Cmd(l)
  /\ IF Cmd(l)[2] = NULL /\ CdPath(Cmd(l)) \in Dirs
     THEN cwd' = CdPath(Cmd(l)) /\ lastPath' = cwd
     ELSE UNCHANGED <<cwd, lastPath>>
  /\ UNCHANGED phase
  /\ NoFork

Builtins == {"exit", "pwd", "cd", "history", "help"}

\* pwd, history and help: they print and continue.
RunOther(l) ==
  /\ Store(l)
  /\ Tok(l)[0] # NULL
  /\ Cmd(l)[0] \in Builtins \ {"exit", "cd"}
  /\ args' = Cmd(l)
  /\ NoFork
  /\ UNCHANGED <<cwd, lastPath, phase>>

\* fork succeeds: the child runs the command, and for a foreground command
\* the shell blocks in waitpid on it.
Fork(c, bg) ==
  /\ children' = Append(c, [bg |-> bg, st |-> "run"])
  /\ waiting' = IF bg THEN 0 ELSE Len(c) + 1

\* Any other command: fork, or the fork error message when fork fails.
RunExternal(l) ==
  /\ Store(l)
  /\ Cmd(l)[0] \notin Builtins \cup {NULL}
  /\ args' = Cmd(l)
  /\ \/ Fork(Reap(children), is_background(Tok(l)))
     \/ NoFork
  /\ UNCHANGED <<cwd, lastPath, phase>>

Next ==
  \/ \E l \in Lines :
       \/ RecallFails(l)
       \/ RunBlank(l)
       \/ RunCrash(l)
       \/ RunExit(l)
       \/ RunCd(l)
       \/ RunOther(l)
       \/ RunExternal(l)
  \/ \E k \in DOMAIN children : ChildExit(k)
  \/ WaitReturns
  \/ SigInt

\* The user types and presses Ctrl-C whatever and whenever, and a command
\* may run forever: no fairness.
Spec == Init /\ [][Next]_vars

-----------------------------------------------------------------------------
(* Properties. *)

\* The state has its types, and the history stays within input_hist[HIST_SIZE].
TypeOK ==
  /\ Len(hist) <= HistSize
  /\ \A i \in 1..Len(hist) : hist[i].bang = "none"
  /\ histCount \in Nat
  /\ args \in [Indices -> STRING \cup {NULL}]
  /\ cwd \in Dirs
  /\ phase \in {"running", "exited", "crashed"}
  /\ children \in Seq([bg : BOOLEAN, st : {"run", "zombie", "reaped"}])
  /\ waiting \in 0..Len(children)

\* The circular history holds exactly the last HIST_SIZE lines ever stored,
\* oldest first, and hist_count counts them all.
HistoryWindow ==
  /\ histCount = Len(allHist)
  /\ Len(hist) = IF Len(allHist) < HistSize THEN Len(allHist) ELSE HistSize
  /\ hist = SubSeq(allHist, Len(allHist) - Len(hist) + 1, Len(allHist))

\* !n (get_history) names the n-th line ever stored while it is among the
\* last HIST_SIZE, and nothing otherwise, whatever n the user types.
RecallMatchesHistory ==
  \A n \in 0..MaxCmds + 1 :
    get_history(n) = IF 1 <= n /\ n <= histCount /\ n > histCount - HistSize
                     THEN allHist[n] ELSE NULL

\* cd with no argument goes to HOME (the path = getenv("HOME") branch).
CdAloneGoesHome ==
  [][allHist' # allHist /\ Last(allHist').words = <<"cd">> => cwd' = Home]_vars

\* A foreground command is waited for: when the shell is back at its
\* prompt, waitpid(pid, &status, 0) has collected every foreground child it
\* forked, so none still runs beside the shell and none is left for
\* reap_background to report as "[Reaped background PID ...]".
ForegroundCollected ==
  AtPrompt => \A k \in DOMAIN children : ~children[k].bg => children[k].st = "reaped"

\* No input line makes the shell fault.
NoCrash == phase # "crashed"

=============================================================================
