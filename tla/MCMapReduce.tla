---------------------------- MODULE MCMapReduce ----------------------------
(***************************************************************************)
(* Instantiates MapReduce with the callbacks the tests of                  *)
(* src/lecture/test3 use: a map that forwards its input pair with          *)
(* mr_emit_i (sr_map, pinter_map, nor_map) and a reduce that forwards      *)
(* every value of its intermediate entry with mr_emit_f.  Every input      *)
(* value is its own index, as in the tests' snprintf("%zu", i), so values  *)
(* identify the input pair they came from.                                 *)
(***************************************************************************)
EXTENDS MapReduce

MCKeys == 1 .. 3
MCValues == 1 .. 6

\* Keys 1, 2, 1 | 1, 3, 2 (chunks of two mappers): key 1 is emitted twice
\* by the first mapper and once by the second, key 2 by both, and three
\* distinct keys meet a MAX_INTERMEDIATE of 2, so which key is dropped
\* depends on the interleaving.
MCInput == <<[key |-> 1, value |-> 1], [key |-> 2, value |-> 2],
             [key |-> 1, value |-> 3], [key |-> 1, value |-> 4],
             [key |-> 3, value |-> 5], [key |-> 2, value |-> 6]>>

MCMapFn(kv) == << <<kv.key, kv.value>> >>

MCReduceFn(k, vs) == [j \in 1 .. Len(vs) |-> <<k, vs[j]>>]

\* The mapper whose chunk holds input index v (1-based).
MapperOf(v) == CHOOSE t \in Mappers : v - 1 \in ChunkIndices(Len(Input), MapperCount, t)

\* Within one key, the values one mapper emitted stay in that mapper's
\* input order (spec.md 4.1: values accumulate in call order per key), in
\* the intermediate store and in the final store they are forwarded to.
PerMapperOrder ==
  \A store \in {inter, final} :
    \A i \in 1 .. Len(store) :
      LET vs == store[i].vals
      IN  \A p, q \in 1 .. Len(vs) :
            (p < q /\ MapperOf(vs[p]) = MapperOf(vs[q])) => vs[p] < vs[q]
=============================================================================
