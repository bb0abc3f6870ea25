------------------------- MODULE MapReduceAbstract -------------------------
(***************************************************************************)
(* What one call of mr_exec promises, as a single atomic step: the caller  *)
(* observes no output until the call returns, and then an output that the  *)
(* map and reduce functions determine up to the freedom the engine is      *)
(* allowed (spec.md sections 3, 4.1, 4.3, 4.5):                            *)
(*  - the intermediate store keeps min(MaxIntermediate, #keys) of the keys *)
(*    the map functions emit, each with ALL of its values in some order,   *)
(*    and the remaining keys with none of their values;                    *)
(*  - every kept key is reduced exactly once, with its whole value list;   *)
(*  - the output lists every final key once, in ascending key order, with  *)
(*    exactly the values the reduce calls emitted for it.                  *)
(* free_output returns the caller to "no output".                          *)
(***************************************************************************)
EXTENDS Naturals, Sequences, FiniteSets, SequencesExt, FiniteSetsExt

CONSTANTS
  Input,            \* the caller's sequence of [key, value] input pairs
  MapFn(_),         \* input pair -> sequence of <<key, value>> emits
  ReduceFn(_, _),   \* key, value list -> sequence of <<key, value>> emits
  MaxIntermediate,  \* MAX_INTERMEDIATE: distinct intermediate keys
  NoOutput          \* model value: no output is readable

VARIABLE aout

\* All mr_emit_i calls, in input order.
MapEmits == FlattenSeq([i \in 1 .. Len(Input) |-> MapFn(Input[i])])

MapKeys == {MapEmits[j][1] : j \in 1 .. Len(MapEmits)}

\* The values emitted for key k, in input order.
Group(k) ==
  LET es == SelectSeq(MapEmits, LAMBDA e : e[1] = k)
  IN  [j \in 1 .. Len(es) |-> es[j][2]]

\* The orders in which a key's values may reach the store.
Reorderings(s) == {[j \in 1 .. Len(s) |-> s[p[j]]] : p \in SetToSeqs(1 .. Len(s))}

KeptKeySets ==
  kSubset(Min({MaxIntermediate, Cardinality(MapKeys)}), MapKeys)

\* The values the reduce calls over the kept keys S, with value lists G,
\* emit for final key fk.
FinalValues(S, G, fk) ==
  LET es == FlattenSeq([j \in 1 .. Cardinality(S) |->
                          LET k == SetToSeq(S)[j] IN ReduceFn(k, G[k])])
      fs == SelectSeq(es, LAMBDA e : e[1] = fk)
  IN  [j \in 1 .. Len(fs) |-> fs[j][2]]

FinalKeys(S, G) ==
  UNION {{e[1] : e \in ToSet(ReduceFn(k, G[k]))} : k \in S}

OutKeys(o) == [j \in 1 .. Len(o) |-> o[j].key]

Acceptable(o) ==
  \E S \in KeptKeySets :
    \E G \in [S -> UNION {Reorderings(Group(k)) : k \in S}] :
      /\ \A k \in S : G[k] \in Reorderings(Group(k))
      /\ IsSorted(OutKeys(o), <)
      /\ ToSet(OutKeys(o)) = FinalKeys(S, G)
      /\ \A j \in 1 .. Len(o) : ToBag(o[j].vals) = ToBag(FinalValues(S, G, o[j].key))

Init == aout = NoOutput

\* mr_exec returns 0 with an acceptable output.
Exec == aout = NoOutput /\ aout' # NoOutput /\ Acceptable(aout')

\* free_output releases it.
Free == aout # NoOutput /\ aout' = NoOutput

Spec == Init /\ [][Exec \/ Free]_aout
=============================================================================
