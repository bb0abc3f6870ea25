------------------------------- MODULE MCShell -------------------------------
(* Model-checking instance of Shell: a history of 2 entries (HIST_SIZE is 10 *)
(* in the code; the index arithmetic does not depend on it) and a handful   *)
(* of lines covering every branch of the loop.                              *)
EXTENDS Shell

\* An ordinary line of words.
W(ws) == [bang |-> "none", n |-> 0, words |-> ws]

\* The lines the user may type.
MCLines ==
  { W(<<"ls", "a", "b">>), W(<<"cd">>), W(<<"cd", "d1">>), W(<<"cd", "-">>),
    W(<<"ls", "&">>), W(<<"&">>), W(<<"exit", "a">>), W(<<"exit">>), W(<<"pwd">>), W(<<>>),
    [bang |-> "last", n |-> 0, words |-> <<>>],
    [bang |-> "junk", n |-> 0, words |-> <<>>] }
  \cup { [bang |-> "nth", n |-> k, words |-> <<>>] : k \in 0..4 }

MCDirs == {"home", "d1"}

=============================================================================
