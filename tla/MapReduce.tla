------------------------------ MODULE MapReduce ------------------------------
(***************************************************************************)
(* The map-reduce engine of src/lecture/test3/src/interface.c: mr_exec, its *)
(* mapper and reducer threads, and the two emit functions with their       *)
(* mutex-protected stores.                                                 *)
(*                                                                         *)
(* Keys and values are abstracted to small sets; a key compares with < as  *)
(* strcmp does on the strings.  The user map and reduce callbacks are the  *)
(* constant operators MapFn and ReduceFn, which give the sequence of       *)
(* mr_emit_i / mr_emit_f calls one callback makes.  Each emit is split at  *)
(* the points where another thread could observe it if the mutex did not  *)
(* exclude it: lock + scan, create, append + unlock.                       *)
(*                                                                         *)
(* The caller (the test harness) calls mr_exec up to MaxCalls times, each  *)
(* time followed by free_output, as every test of src/lecture/test3 does.  *)
(***************************************************************************)
EXTENDS Naturals, Sequences, FiniteSets, TLC, SequencesExt, FiniteSetsExt, Chunking

CONSTANTS
  Keys,             \* the keys the callbacks can emit
  Values,           \* the values the callbacks can emit
  Input,            \* input->kv_lst as a sequence of [key, value] records
  MapFn(_),         \* map callback: input pair -> sequence of <<key, value>>
  ReduceFn(_, _),   \* reduce callback: key, values -> sequence of <<key, value>>
  MapperCount,      \* mapper_count
  ReducerCount,     \* reducer_count
  MaxIntermediate,  \* MAX_INTERMEDIATE
  MaxValuesPerKey,  \* MAX_VALUES_PER_KEY (size of every value array)
  MaxCalls,         \* number of mr_exec calls the caller makes
  NoOutput          \* model value for the abstract "no output"

ASSUME MapperCount \in Nat \ {0} /\ ReducerCount \in Nat \ {0}
ASSUME MaxIntermediate \in Nat \ {0} /\ MaxValuesPerKey \in Nat \ {0}
ASSUME MaxCalls \in Nat \ {0}

NoThread == -1
Mappers  == Workers(MapperCount)
Reducers == Workers(ReducerCount)

VARIABLES
  orch,     \* where the calling thread is: "idle", "map", "reduce", "returned"
  calls,    \* mr_exec calls made so far
  inter,    \* intermediate[0 .. intermediate_count-1] as a sequence of [key, vals]
  lockI,    \* owner of intermediate_mutex
  mnext,    \* per mapper thread: loop index i of map_thread
  mpend,    \* per mapper thread: emits the current map callback has still to make
  mstep,    \* per mapper thread: position inside mr_emit_i
  mslot,    \* per mapper thread: the entry find_or_create_intermediate returned
  final,    \* final_table in uthash insertion order, as a sequence of [key, vals]
  lockF,    \* owner of final_mutex
  rnext,    \* per reducer thread: loop index i of reduce_thread
  rend,     \* per reducer thread: rargs[t].end
  rpend,    \* per reducer thread: emits the current reduce callback has still to make
  rstep,    \* per reducer thread: position inside mr_emit_f
  rslot,    \* per reducer thread: the entry HASH_FIND_STR found or created
  output    \* output->kv_lst[0 .. count-1]

mapVars    == <<inter, lockI, mnext, mpend, mstep, mslot>>
reduceVars == <<final, lockF, rnext, rend, rpend, rstep, rslot>>
vars       == <<orch, calls, output, inter, lockI, mnext, mpend, mstep, mslot,
               final, lockF, rnext, rend, rpend, rstep, rslot>>

MapEnd(t) == ChunkEnd(Len(Input), MapperCount, t)

\* Index (1-based) of the entry with key k in a store sequence, 0 if none:
\* the linear scan of find_or_create_intermediate / HASH_FIND_STR.
SlotOf(store, k) ==
  IF \E i \in 1 .. Len(store) : store[i].key = k
  THEN CHOOSE i \in 1 .. Len(store) : store[i].key = k
  ELSE 0

MapperDone(t) ==
  mstep[t] = "loop" /\ mpend[t] = <<>> /\ mnext[t] >= MapEnd(t)

ReducerDone(t) ==
  rstep[t] = "loop" /\ rpend[t] = <<>> /\ rnext[t] >= rend[t]

-----------------------------------------------------------------------------
(* The calling thread: mr_exec and free_output.                            *)

Init ==
  /\ orch = "idle"
  /\ calls = 0
  /\ inter = <<>>
  /\ lockI = NoThread
  /\ mnext = [t \in Mappers |-> 0]
  /\ mpend = [t \in Mappers |-> <<>>]
  /\ mstep = [t \in Mappers |-> "loop"]
  /\ mslot = [t \in Mappers |-> 0]
  /\ final = <<>>
  /\ lockF = NoThread
  /\ rnext = [t \in Reducers |-> 0]
  /\ rend = [t \in Reducers |-> 0]
  /\ rpend = [t \in Reducers |-> <<>>]
  /\ rstep = [t \in Reducers |-> "loop"]
  /\ rslot = [t \in Reducers |-> 0]
  /\ output = <<>>

\* mr_exec up to the map barrier: init_intermediate(), intermediate_count = 0,
\* then one map_thread per chunk.  final_table is left as it is.
StartExec ==
  /\ orch = "idle"
  /\ calls < MaxCalls
  /\ orch' = "map"
  /\ calls' = calls + 1
  /\ inter' = <<>>
  /\ mnext' = [t \in Mappers |-> ChunkStart(Len(Input), MapperCount, t)]
  /\ mpend' = [t \in Mappers |-> <<>>]
  /\ mstep' = [t \in Mappers |-> "loop"]
  /\ mslot' = [t \in Mappers |-> 0]
  /\ UNCHANGED <<lockI, output>>
  /\ UNCHANGED reduceVars

\* pthread_join of every mapper, then rchunk from intermediate_count and one
\* reduce_thread per chunk of intermediate positions.
\* Fault variant: the reducer chunks of the commented-out earlier version of
\* mr_exec (interface.c:352-356), sized by input->count and not clamped.
MapJoinInputSizedChunks ==
  /\ orch = "map"
  /\ \A t \in Mappers : MapperDone(t)
  /\ orch' = "reduce"
  /\ rnext' = [t \in Reducers |-> t * ChunkSize(Len(Input), ReducerCount)]
  /\ rend' = [t \in Reducers |-> (t + 1) * ChunkSize(Len(Input), ReducerCount)]
  /\ rpend' = [t \in Reducers |-> <<>>]
  /\ rstep' = [t \in Reducers |-> "loop"]
  /\ rslot' = [t \in Reducers |-> 0]
  /\ UNCHANGED <<calls, output, final, lockF>>
  /\ UNCHANGED mapVars

\* Fault variant: the join loop stops one thread short.
MapJoinSkipsLastMapper ==
  /\ orch = "map"
  /\ \A t \in Mappers \ {MapperCount - 1} : MapperDone(t)
  /\ orch' = "reduce"
  /\ rnext' = [t \in Reducers |-> ChunkStart(Len(inter), ReducerCount, t)]
  /\ rend' = [t \in Reducers |-> ChunkEnd(Len(inter), ReducerCount, t)]
  /\ rpend' = [t \in Reducers |-> <<>>]
  /\ rstep' = [t \in Reducers |-> "loop"]
  /\ rslot' = [t \in Reducers |-> 0]
  /\ UNCHANGED <<calls, output, final, lockF>>
  /\ UNCHANGED mapVars

MapJoin ==
  /\ orch = "map"
  /\ \A t \in Mappers : MapperDone(t)
  /\ orch' = "reduce"
  /\ rnext' = [t \in Reducers |-> ChunkStart(Len(inter), ReducerCount, t)]
  /\ rend' = [t \in Reducers |-> ChunkEnd(Len(inter), ReducerCount, t)]
  /\ rpend' = [t \in Reducers |-> <<>>]
  /\ rstep' = [t \in Reducers |-> "loop"]
  /\ rslot' = [t \in Reducers |-> 0]
  /\ UNCHANGED <<calls, output, final, lockF>>
  /\ UNCHANGED mapVars

\* pthread_join of every reducer, HASH_SORT by key, then the deep copy of
\* every final entry into output; mr_exec returns 0.
ReduceJoin ==
  /\ orch = "reduce"
  /\ \A t \in Reducers : ReducerDone(t)
  /\ orch' = "returned"
  /\ output' = SortSeq(final, LAMBDA a, b : a.key < b.key)
  /\ UNCHANGED <<calls>>
  /\ UNCHANGED mapVars
  /\ UNCHANGED reduceVars

\* free_output(&output) by the caller after the call.
FreeOutput ==
  /\ orch = "returned"
  /\ orch' = "idle"
  /\ UNCHANGED <<calls, output>>
  /\ UNCHANGED mapVars
  /\ UNCHANGED reduceVars

-----------------------------------------------------------------------------
(* Mapper threads: map_thread and mr_emit_i.                               *)

\* One iteration of map_thread's loop: the map callback on input[i]; its
\* mr_emit_i calls are the steps below.
MapCall(t) ==
  /\ orch = "map"
  /\ mstep[t] = "loop"
  /\ mpend[t] = <<>>
  /\ mnext[t] < MapEnd(t)
  /\ mpend' = [mpend EXCEPT ![t] = MapFn(Input[mnext[t] + 1])]
  /\ mnext' = [mnext EXCEPT ![t] = @ + 1]
  /\ UNCHANGED <<orch, calls, output, inter, lockI, mstep, mslot>>
  /\ UNCHANGED reduceVars

\* mr_emit_i: pthread_mutex_lock, then the scan of find_or_create_intermediate.
\* Fault variant: mr_emit_i without pthread_mutex_lock.
EmitILockUnlocked(t) ==
  /\ orch = "map"
  /\ mstep[t] = "loop"
  /\ mpend[t] # <<>>
  /\ lockI' = t
  /\ LET slot == SlotOf(inter, Head(mpend[t])[1])
     IN  /\ mslot' = [mslot EXCEPT ![t] = slot]
         /\ mstep' = [mstep EXCEPT ![t] = IF slot = 0 THEN "create" ELSE "append"]
  /\ UNCHANGED <<orch, calls, output, inter, mnext, mpend>>
  /\ UNCHANGED reduceVars

EmitILock(t) ==
  /\ orch = "map"
  /\ mstep[t] = "loop"
  /\ mpend[t] # <<>>
  /\ lockI = NoThread
  /\ lockI' = t
  /\ LET slot == SlotOf(inter, Head(mpend[t])[1])
     IN  /\ mslot' = [mslot EXCEPT ![t] = slot]
         /\ mstep' = [mstep EXCEPT ![t] = IF slot = 0 THEN "create" ELSE "append"]
  /\ UNCHANGED <<orch, calls, output, inter, mnext, mpend>>
  /\ UNCHANGED reduceVars

\* Fault variant: the early return on a full store forgets the unlock.
EmitIFullKeepsLock(t) ==
  /\ mstep[t] = "create"
  /\ Len(inter) >= MaxIntermediate
  /\ mpend' = [mpend EXCEPT ![t] = Tail(@)]
  /\ mstep' = [mstep EXCEPT ![t] = "loop"]
  /\ UNCHANGED <<orch, calls, output, inter, lockI, mnext, mslot>>
  /\ UNCHANGED reduceVars

\* Key absent and intermediate_count >= MAX_INTERMEDIATE: return NULL, so
\* mr_emit_i unlocks and returns -1; the value is dropped.
EmitIFull(t) ==
  /\ mstep[t] = "create"
  /\ Len(inter) >= MaxIntermediate
  /\ lockI' = NoThread
  /\ mpend' = [mpend EXCEPT ![t] = Tail(@)]
  /\ mstep' = [mstep EXCEPT ![t] = "loop"]
  /\ UNCHANGED <<orch, calls, output, inter, mnext, mslot>>
  /\ UNCHANGED reduceVars

\* Key absent and room left: take intermediate[intermediate_count++], copy
\* the key, count = 0.
\* Fault variant: the capacity test off by one (count > MAX instead of >=).
EmitICreateOffByOne(t) ==
  /\ mstep[t] = "create"
  /\ Len(inter) <= MaxIntermediate
  /\ inter' = Append(inter, [key |-> Head(mpend[t])[1], vals |-> <<>>])
  /\ mslot' = [mslot EXCEPT ![t] = Len(inter) + 1]
  /\ mstep' = [mstep EXCEPT ![t] = "append"]
  /\ UNCHANGED <<orch, calls, output, lockI, mnext, mpend>>
  /\ UNCHANGED reduceVars

EmitICreate(t) ==
  /\ mstep[t] = "create"
  /\ Len(inter) < MaxIntermediate
  /\ inter' = Append(inter, [key |-> Head(mpend[t])[1], vals |-> <<>>])
  /\ mslot' = [mslot EXCEPT ![t] = Len(inter) + 1]
  /\ mstep' = [mstep EXCEPT ![t] = "append"]
  /\ UNCHANGED <<orch, calls, output, lockI, mnext, mpend>>
  /\ UNCHANGED reduceVars

\* strcpy(kv->value[kv->count], value); kv->count++; unlock; return 0.
\* No check against MAX_VALUES_PER_KEY.
\* Fault variant: the value is put at the head of the list.
EmitIAppendAtHead(t) ==
  /\ mstep[t] = "append"
  /\ inter' = [inter EXCEPT ![mslot[t]].vals = <<Head(mpend[t])[2]>> \o @]
  /\ lockI' = NoThread
  /\ mpend' = [mpend EXCEPT ![t] = Tail(@)]
  /\ mstep' = [mstep EXCEPT ![t] = "loop"]
  /\ UNCHANGED <<orch, calls, output, mnext, mslot>>
  /\ UNCHANGED reduceVars

EmitIAppend(t) ==
  /\ mstep[t] = "append"
  /\ inter' = [inter EXCEPT ![mslot[t]].vals = Append(@, Head(mpend[t])[2])]
  /\ lockI' = NoThread
  /\ mpend' = [mpend EXCEPT ![t] = Tail(@)]
  /\ mstep' = [mstep EXCEPT ![t] = "loop"]
  /\ UNCHANGED <<orch, calls, output, mnext, mslot>>
  /\ UNCHANGED reduceVars

MapperStep(t) ==
  \/ MapCall(t) \/ EmitILock(t) \/ EmitIFull(t) \/ EmitICreate(t) \/ EmitIAppend(t)

-----------------------------------------------------------------------------
(* Reducer threads: reduce_thread and mr_emit_f.                           *)

\* One iteration of reduce_thread's loop: the reduce callback on
\* intermediate[i], read without a lock.
ReduceCall(t) ==
  /\ orch = "reduce"
  /\ rstep[t] = "loop"
  /\ rpend[t] = <<>>
  /\ rnext[t] < rend[t]
  /\ rpend' = [rpend EXCEPT ![t] =
                 ReduceFn(inter[rnext[t] + 1].key, inter[rnext[t] + 1].vals)]
  /\ rnext' = [rnext EXCEPT ![t] = @ + 1]
  /\ UNCHANGED <<orch, calls, output, final, lockF, rend, rstep, rslot>>
  /\ UNCHANGED mapVars

\* mr_emit_f: pthread_mutex_lock, then HASH_FIND_STR.
EmitFLock(t) ==
  /\ orch = "reduce"
  /\ rstep[t] = "loop"
  /\ rpend[t] # <<>>
  /\ lockF = NoThread
  /\ lockF' = t
  /\ LET slot == SlotOf(final, Head(rpend[t])[1])
     IN  /\ rslot' = [rslot EXCEPT ![t] = slot]
         /\ rstep' = [rstep EXCEPT ![t] = IF slot = 0 THEN "create" ELSE "append"]
  /\ UNCHANGED <<orch, calls, output, final, rnext, rend, rpend>>
  /\ UNCHANGED mapVars

\* Not found: malloc a final_kv, copy the key, count = 0, HASH_ADD_STR.
EmitFCreate(t) ==
  /\ rstep[t] = "create"
  /\ final' = Append(final, [key |-> Head(rpend[t])[1], vals |-> <<>>])
  /\ rslot' = [rslot EXCEPT ![t] = Len(final) + 1]
  /\ rstep' = [rstep EXCEPT ![t] = "append"]
  /\ UNCHANGED <<orch, calls, output, lockF, rnext, rend, rpend>>
  /\ UNCHANGED mapVars

\* strcpy(entry->value[entry->count], value); entry->count++; unlock; return 0.
EmitFAppend(t) ==
  /\ rstep[t] = "append"
  /\ final' = [final EXCEPT ![rslot[t]].vals = Append(@, Head(rpend[t])[2])]
  /\ lockF' = NoThread
  /\ rpend' = [rpend EXCEPT ![t] = Tail(@)]
  /\ rstep' = [rstep EXCEPT ![t] = "loop"]
  /\ UNCHANGED <<orch, calls, output, rnext, rend, rslot>>
  /\ UNCHANGED mapVars

ReducerStep(t) ==
  \/ ReduceCall(t) \/ EmitFLock(t) \/ EmitFCreate(t) \/ EmitFAppend(t)

-----------------------------------------------------------------------------
Next ==
  \/ StartExec \/ MapJoin \/ ReduceJoin \/ FreeOutput
  \/ \E t \in Mappers : MapperStep(t)
  \/ \E t \in Reducers : ReducerStep(t)

(* pthreads are scheduled preemptively and every callback of the modelled  *)
(* harness returns, so each thread that can move eventually moves; the     *)
(* harness calls free_output and mr_exec again without waiting on anyone.  *)
Fairness ==
  /\ \A t \in Mappers : WF_vars(MapperStep(t))
  /\ \A t \in Reducers : WF_vars(ReducerStep(t))
  /\ WF_vars(StartExec) /\ WF_vars(MapJoin) /\ WF_vars(ReduceJoin) /\ WF_vars(FreeOutput)

Spec == Init /\ [][Next]_vars /\ Fairness

-----------------------------------------------------------------------------
(* Properties.                                                             *)

EmitStep == {"loop", "create", "append"}

\* Every variable has its type, and every reducer's range lies inside
\* intermediate[0 .. intermediate_count-1], so reduce_thread never reads an
\* entry the map phase did not fill.
TypeOK ==
  /\ orch \in {"idle", "map", "reduce", "returned"}
  /\ calls \in 0 .. MaxCalls
  /\ inter \in Seq([key : Keys, vals : Seq(Values)])
  /\ final \in Seq([key : Keys, vals : Seq(Values)])
  /\ output \in Seq([key : Keys, vals : Seq(Values)])
  /\ lockI \in Mappers \cup {NoThread}
  /\ lockF \in Reducers \cup {NoThread}
  /\ mnext \in [Mappers -> 0 .. Len(Input)]
  /\ mstep \in [Mappers -> EmitStep] /\ rstep \in [Reducers -> EmitStep]
  /\ mslot \in [Mappers -> Nat] /\ rslot \in [Reducers -> Nat]
  /\ mpend \in [Mappers -> Seq(Keys \X Values)]
  /\ rpend \in [Reducers -> Seq(Keys \X Values)]
  /\ rend \in [Reducers -> 0 .. Len(inter)]
  /\ rnext \in [Reducers -> Nat]

\* Neither store ever holds two entries for one key (spec.md section 3):
\* concurrent first emits of a key by two threads, map or reduce, must not
\* both create an entry.  Relies on the scan and the insert of an emit
\* happening under the same mutex hold.
StoreKeysUnique ==
  \A store \in {inter, final} :
    \A i, j \in 1 .. Len(store) : i # j => store[i].key # store[j].key

\* Between the map barrier and the return of mr_exec the intermediate
\* store is frozen (spec.md section 3): no step of the reduce phase, and no
\* straggling mapper, changes it while reduce_thread reads it unlocked.
StoreFrozenDuringReduce ==
  [][orch = "reduce" => inter' = inter]_vars

Abs == INSTANCE MapReduceAbstract
          WITH aout <- IF orch = "returned" THEN output ELSE NoOutput

\* Every mr_exec call, however its map and reduce threads interleave,
\* returns an output the atomic specification allows: kept keys grouped
\* with all their values, each reduced once, output sorted without
\* duplicates (spec.md section 8, including "repeated runs ... produce
\* identical value sets per key").
ImplementsAbstract == Abs!Spec

\* Every call of mr_exec returns: neither barrier waits forever and no
\* emit blocks forever on a store mutex.
Termination == (orch \in {"map", "reduce"}) ~> (orch = "returned")

\* No entry of either store ever holds more values than its array of
\* MAX_VALUES_PER_KEY slots, since every emit reported success (spec.md
\* section 3).
ValueCapacity ==
  \A store \in {inter, final} :
    \A i \in 1 .. Len(store) : Len(store[i].vals) <= MaxValuesPerKey
=============================================================================
