# TLA+ models of cmpt201-coursework

This directory holds TLA+ models of the concurrent parts of the repository.
Each module is written from the C source. Each run is a TLC configuration
that checks one question about the code. `PROJECT.json` lists the
components, runs, mutants, the source lines behind every definition, the
findings and the hazards.

## 1. Inventory

### 1.1 The map-reduce engine (`src/lecture/test3`)

This is the core of the repository. `src/interface.c` implements the API in
`interface.h`. The test harness in `src/*.c` and `tests.h` drives it.

| Component | State | Operations | Interaction |
|---|---|---|---|
| Intermediate store | `intermediate[MAX_INTERMEDIATE]` (key, value array of `MAX_VALUES_PER_KEY`, count), `intermediate_count`, `intermediate_mutex` | `mr_emit_i`: lock, linear scan (`find_or_create_intermediate`), create or fail with -1 at capacity, append, unlock | called concurrently by map callbacks on mapper threads |
| Final store | `final_table` (uthash list of `final_kv`), `final_mutex` | `mr_emit_f`: lock, `HASH_FIND_STR`, create + `HASH_ADD_STR` if absent, append, unlock. It never fails. | called concurrently by reduce callbacks on reducer threads |
| Mapper pool | `margs[t]` = [start, end) of each chunk | `map_thread`: calls the map callback on each input pair of its chunk, in order | spawned and joined by `mr_exec` |
| Reducer pool | `rargs[t]` = [start, end) over intermediate *positions* | `reduce_thread`: calls the reduce callback on each entry of its chunk, reading the store without a lock | spawned after the map join, then joined |
| Orchestrator `mr_exec` | calling thread | reset the intermediate store (not `final_table`), map phase, join, chunk by `intermediate_count`, reduce phase, join, `HASH_SORT`, deep copy into `output`, return 0 | |
| `free_output` | `output->kv_lst` | frees every value array and the list, then sets `kv_lst = NULL` | called by the harness after every call |
| Test harness | recorders: `partitions[]`, `threads[]`, `sm_kv_store`, `sr_kv_store` | callbacks that forward pairs (`sr_map`, `pinter_map`, `nor_map`) or record which thread saw what (`pin_map`, `thread_count`) | calls `mr_exec` 1 to 5 times per test |

**Hard behaviours.**
- Any number of mapper threads interleave their emits on one mutex. Reducer threads do the same on a second mutex.
- The reduce phase reads the intermediate store without a lock. Only the join barrier makes this safe.
- The capacity boundary depends on scheduling: which keys survive depends on the order in which threads reach the lock.
- The chunk arithmetic has edge cases: more workers than elements, and counts that the worker count does not divide.
- The stores are process-wide statics that outlive one call.

**What makes it correct.**
- Each store holds at most one entry per key.
- A key that is kept has all of its values, and a key that is refused has none.
- The values one mapper emits for a key stay in that mapper's order.
- The store does not change during the reduce phase.
- Each kept key is reduced exactly once.
- The output is sorted and has no duplicate keys.
- Every call returns.
- Repeated calls do not interfere with each other.

### 1.2 Group chat server (`src/lecture/test4/servertest.c`)

| Component | State | Operations |
|---|---|---|
| Broadcast queue | linked list `queue_head/tail`, `queue_lock`, `queue_cond` | `enqueue_message` (signal), `dequeue_message` (wait while empty and running) |
| Client table | `clients[MAX_CLIENTS]`, `num_clients`, `finished_clients_count`, `client_list_lock` | `remove_client` (moves the last entry into the freed slot) |
| Acceptor thread | | non-blocking `accept` poll loop; adds a client and spawns its I/O thread, or rejects it at `MAX_CLIENTS` |
| Client I/O threads | local buffer and `data_len` | non-blocking read loop. `handle_message` handles three kinds of message. Type 0 is broadcast. Type 1 counts one finished client; when the last one arrives it enqueues the commit and clears `server_running`. Any other type is discarded. On exit the thread closes and removes its client. |
| Broadcast worker | | dequeues a message and writes it to every client while holding `client_list_lock` |
| Main / `cleanup_and_exit` | `server_running` (volatile, unsynchronised) | polls the flag, signals the worker, and joins the acceptor. Then it joins every client I/O thread **while holding `client_list_lock`**, and finally joins the worker. |

**Hard behaviours.**
- Five kinds of thread share two locks, a condition variable and an unsynchronised flag.
- Shutdown has two phases.
- A thread leaving its loop still needs the lock that the main thread holds.

**What makes it correct.**
- Every client receives the phase-2 commit.
- Shutdown ends: there is no deadlock, and every thread exits.
- The count of finished clients is counted per client.
- The queue preserves FIFO order per sender.

### 1.3 Smaller programs

- **Shell** (`src/lecture/test/test2.c`).
  - State: a 10-entry history (`input_hist`, `hist_size`, `hist_count`).
  - Operations: `enqueue_history`, `get_history(n)` (used by `!n`), `get_last_history` (`!!`), a SIGINT handler installed without `SA_RESTART`, and fork/exec/wait with background reaping.
  - Correctness: a foreground command is finished and collected before the next prompt.
  - Correctness: `!n` returns the n-th command ever entered if it is still stored, and refuses it otherwise.
- **Word count** (`src/lab/lab8.c`).
  - `count_words_parallel` runs three threads over chunks of the word list with one mutex.
  - `add_word_counts_in_chunk` locks that mutex on every word and never unlocks it.
  - `main` does not call the parallel version: line 124 is commented out, and `count_words_seq` runs the tally once, with no lock and no thread.
- **Sorted list** (`src/lab/Lab6/example_2.c`).
  - Operations: `insert_sorted`, `index_of`, and a cached `info.sum`.
  - Correctness: the list stays sorted and the cached sum equals the list's sum.
- **Not modelled: straight-line I/O programs.** `src/lecture/socket/server.c`, `src/lecture/utp_client.c`, `src/lecture/sleep.c` and `src/lab/lab11.c` (OpenSSL signature check) each do one accept/read/write, a send loop, fork+exec, or a verify. They have no shared state or interleaving for a model to explore.

## 2. Plan

Done:
1. `Chunking`: the chunk arithmetic of both pools. `TestHarness` and `MCTestHarness` run the harness's slot-claiming recorders over those chunks, and check the arithmetic against a reference owner function.
2. `MapReduceAbstract` and `MapReduce`: one call as an atomic step, and the threaded implementation (threads, emits, barriers, sort/copy, the caller's loop). `MapReduce` refines the abstract module through `INSTANCE MapReduceAbstract WITH aout <- ...`.
3. `ChatServer` and `MCChatServer`: every thread of the chat server, with the remote peers as the environment.
4. `Shell` and `MCShell`: one iteration of the shell's loop per input line, plus its children and Ctrl-C.
5. `SortedList`: `insert_sorted` under any sequence of calls.

Next:
- A run of the chat server in which a peer sends two Type 1 messages (servertest.c:252 counts messages, not clients).
- An abstract broadcast queue that `ChatServer`'s enqueue and dequeue refine.
- A run of `ChatServer` with three peers, if the state space allows it.

## 3. Modules and how they match the code

### `Chunking` (interface.c:161-168, 181-187, 128)

- `ChunkSize`, `ChunkStart` and `ChunkEnd` are the `chunk_size`, `start` and `end` formulas. `end` is clamped to the count.
- `ChunkIndices` is the set of indices that the loop `for (i = start; i < end; i++)` visits.
- `ChunkEndUnclamped` is the unclamped end of the commented-out earlier version. It is used only as a mutant.

### `TestHarness` (partition.c, number_of_mappers_reducers.c)

- **What it is.** The four tests `partition_input`, `partition_intermediate`, `number_of_mappers` and `number_of_reducers`. Each loops over n = 2, 4, ..., resets its recorder, runs n workers on the side it measures, and compares the recording.
- **State.**
  - `test` and `round` are the test function and its loop index.
  - `slots` and `slotId` are `partitions[i].kv_lst[0..count-1]` (or `threads[i].count`) and `.id`. `tooMany` is the overflow flag.
  - `pLock` is `p_lock`/`nmr_lock`.
  - Each worker has `wpc`, `wpos` (elements passed to the recorder) and `wslot` (where its scan stopped).
  - `results` records each iteration's `TEST(f)`.
- **Actions.**
  - `Scan(w)`: lock and scan for the first slot that is empty or has the thread's id.
  - `Write(w)`: claim the slot and append, or set the flag; then unlock.
  - `Finish(w)`: the worker's chunk is done.
  - `EndIteration`: join, run `partition_cmp`/`thread_cmp`, record the result, and reset for the next n.
- **Abstraction.** The side of `mr_exec` that records nothing is left out. An element is its index. In the intermediate tests one mapper emits distinct keys in input order, so position j holds element j.
- **Fairness.** Weak fairness for each worker and for the main thread: the workers are pthreads, and each does a finite amount of work.
- **`MCTestHarness`** checks what the chunk loops visit (`ExactFor`) for every count up to 12 and every worker count up to 8. No loop reads past the last element, every element is visited by exactly one worker, and the chunks follow the workers' order. The check says nothing about the chunk size, so it does not repeat the model's arithmetic. (spec.md's "ceil(N/M) for the first M−1 chunks" is not what the code does when, for example, N = 5 and M = 4: the code gives chunks of 2, 2, 1 and 0. The property checks only that the chunks partition the elements.) That constant part is computed once.

### `MapReduce` (interface.c, free_output.c)

- **State:**
  - `inter` is `intermediate[0..intermediate_count-1]`, as a sequence of `[key, vals]`.
  - `final` is `final_table` in uthash insertion order.
  - `lockI` and `lockF` are the two mutexes.
  - Each thread has a loop index (`mnext`, `rnext`), a reducer end (`rend`), the emits its current callback still has to make (`mpend`, `rpend`), its position inside the emit function (`mstep`, `rstep`), and the entry found or created (`mslot`, `rslot`).
  - `orch` is the calling thread's position, `calls` counts calls, and `output` is `output->kv_lst`.
- **Actions:**
  - `StartExec`: store reset and mapper creation. `final_table` is deliberately untouched, as in the code.
  - `MapCall` and `ReduceCall`: one loop iteration, that is, one callback.
  - `EmitILock`/`EmitFLock`: lock and scan.
  - `EmitIFull`: return -1 at `MAX_INTERMEDIATE`.
  - `EmitICreate`/`EmitFCreate`: new entry.
  - `EmitIAppend`/`EmitFAppend`: append, then unlock.
  - `MapJoin`: join, then reducer chunks from `intermediate_count`.
  - `ReduceJoin`: join, `HASH_SORT`, then the copy into `output`.
  - `FreeOutput`: the caller's `free_output`.
- **Abstraction:**
  - Keys are small integers; `<` stands for `strcmp` order.
  - Values are small integers.
  - Callbacks are the constant operators `MapFn` and `ReduceFn`, which return the emits one call makes.
  - Thread creation is one step. The ranges depend only on the counts, so creating threads one at a time adds no new orders in which they can run.
- **Mutants:** the operators marked "Fault variant" exist only for the mutation checks listed in `PROJECT.json`. Each sits just before the definition it varies.

### `MapReduceAbstract` (interface.h contract, spec.md 3-4)

- One variable, `aout`.
- `Exec` produces any output that is `Acceptable`:
  - some `min(MAX_INTERMEDIATE, #keys)` of the emitted keys are kept, each with a reordering of all its values;
  - each kept key is reduced once;
  - the output is strictly sorted by key and carries exactly the reduce emits as a multiset per key.
- `Free` returns to `NoOutput`.

`MapReduce` maps `aout` to `output` while `orch = "returned"`, and to `NoOutput` otherwise.

### `MCMapReduce`

- The callbacks are the forwarding map of `sr_map`/`pinter_map` and a reduce that forwards each value.
- Inputs follow the tests' convention that a value is its own input index.
- The input is 6 pairs over keys 1, 2, 1 | 1, 3, 2. With 2 mappers:
  - key 1 comes twice from mapper 0 and once from mapper 1;
  - key 2 comes from both mappers;
  - 3 distinct keys meet a capacity of 2, so which key is dropped depends on the schedule.

### `ChatServer` (servertest.c)

- **State.**
  - `running` is `server_running`.
  - `listLock` is `client_list_lock`. It is held across steps only by main (in `cleanup_and_exit`) and by an I/O thread inside the Type 1 branch. Every other holder takes it and releases it in one step.
  - `clients` is `clients[0..num_clients-1]`, as a sequence of peers. `finished` is `finished_clients_count`.
  - `queue` is the linked list of the broadcast queue.
  - There is one program counter per thread: `mpc` for main, `apc` for the acceptor, `wpc` for the worker and `cpc[p]` for each I/O thread. `jidx` is the loop index of the join loop.
  - `cbuf[p]` holds the complete messages in an I/O thread's buffer.
  - Each peer has `pconn`, `inbound` and `pclosed`. `sock[p]` is the server's socket of that peer: the fd number `accept()` returned (the lowest free one, out of `1..|Peers|`) and whether it is still open.
  - The list holds peers, and an entry's `clients[i].fd` is `sock[p].fd`. `remove_client(fd)` removes the first entry whose peer has that fd number, and `Broadcast` writes once per entry to whichever open connection holds the entry's number. So when a closed number is reused before its entry is removed, the model does what the code does.
  - `sentLog`, `delivered` and `counted` are history variables. The properties read them.
- **Actions.** There is one action per loop step or handler:
  - acceptor: `AcceptorLoop`, `AcceptNone`, `AcceptAdd`, `AcceptReject`;
  - I/O thread: `ClientRead`, `ClientStop`, `HandleReg`, `HandleBad`, `HandleEnd`, `T1Stop`, `ClientRemove`;
  - worker: `WorkerLoop`, `Dequeue`, `DequeueEmpty`, `CondWait`, `Broadcast`;
  - main: `MainPoll`, `CleanupSignal`, `JoinAcceptor`, `LockList`, `JoinClient`, `JoinClientsDone`, `JoinWorker`;
  - peers: `Connect`, `Send`, `Close`.
- **The condition variable.** The worker state `towait` means the worker has read the predicate and still holds `queue_lock`. Enqueuers wait while the worker is in that state. `Wake` moves a waiting worker to `deq`.
  - The unlocked `pthread_cond_signal` at line 265 cannot be lost. It follows the enqueue of the commit, so a worker that tests the predicate afterwards finds the queue non-empty. A worker that tested it before is woken by the signal of `enqueue_message`, which is sent under `queue_lock`.
- **Abstraction.**
  - A message is one of three kinds. `reg` is a well-formed Type 0 message. `end` is a 2-byte Type 1 message. `bad` is anything `handle_message` discards.
  - A read takes any non-empty prefix of the complete lines the peer has sent.
- **Fairness.** Weak fairness holds for main, the acceptor, the worker and each I/O thread. pthreads are preempted, and every busy loop in the code sleeps with `usleep` and then retries. The peers get no fairness: a client may never send, or may never close.

### `Shell` (test2.c)

- **State.**
  - `hist` and `histCount` are `input_hist` and `hist_count`.
  - `args` is main's local array. It is not initialised: in `Init`, `args[2]`, the only entry read before it is written, is NULL or garbage.
  - `cwd` is the working directory and `lastPath` is the directory `cd -` returns to.
  - `phase` is `running`, `exited` or `crashed`.
  - `allHist` (every stored line) and `reads` (lines read) are history variables.
  - `children` holds the forked children in pid order, each with its `bg` flag and its state: `run`, `zombie` (exited, not yet waited for) or `reaped`.
  - `waiting` is the child that the blocking `waitpid(pid, &status, 0)` waits for, or 0 when the shell is at the top of its loop.
- **Actions.** One action per outcome of one loop iteration on an input line. Each one starts with `reap_background` (`Reap`, which collects every zombie):
  - `RecallFails`: `!!` or `!n` has nothing to recall;
  - `RunBlank`: the line has no token;
  - `RunCrash`: the line is `&` alone;
  - `RunExit`, `RunCd`: the two built-ins;
  - `RunOther`: `pwd`, `history` or `help`;
  - `RunExternal`: fork fails, or `Fork` adds a running child and, for a foreground command, blocks the shell in `waitpid` on it.
  Each action stores the line (`enqueue_history`) and tokenizes it with the code's rule. Only `args[0..k]` is overwritten; the later entries keep words of earlier lines.

  The other actions come from outside the loop:
  - `ChildExit(k)`: the command ends, or `execvp` fails and the child calls `_exit(1)`;
  - `WaitReturns`: the foreground `waitpid` collects its child;
  - `SigInt`: Ctrl-C. The shell's handler runs, and because `sa_flags` is 0 (no `SA_RESTART`), the `read` or `waitpid` the shell is blocked in fails with EINTR. The signal also reaches every child: the shell never calls `setpgid`, so its children share its process group. A child restores `SIG_DFL` before `execvp`, but the program may catch SIGINT, and death is asynchronous, so any set of the running children exits at that step.
- **Abstraction.** An input line is a record of its `!` prefix and its words. Children are identified by their position in fork order, which stands for the pid. What the built-ins and the handler print is left out.
- **Fairness.** None: the user types and presses Ctrl-C whenever they like, and a command may run forever.

### `SortedList` (example_2.c)

- **State.**
  - `list` is the data of the nodes from `head` on.
  - `infoSum` is `info.sum`.
  - `phase` is `running`, `exited` (the malloc `ASSERT`), or `crashed`.
  - `inserted` is a history variable: the values that were linked.
- **Actions.** `insert_sorted(d)` is the whole function. It has three branches:
  - the head branch (`InsertHead`);
  - the walk (`InsertPos`, which counts the nodes passed while `curr->data < data`), followed by the link;
  - the write through a NULL `prev`. The walk stops at once when the value equals the head's, so `prev` is still NULL.
  `MallocFails` is the `ASSERT` exit.
- **Operators.** `sum_list` and `index_of` are read-only operators.
- **Bounds.** Any sequence of calls with values from a small set is explored. `main`'s own calls 1, 3, 5, 2 are one of them.

## 4. Runs

| Run | Config | Expect | What it shows |
|---|---|---|---|
| `harness_partition` | `MCTestHarness.cfg` | pass | For every count 0..12 and every worker count 1..8, the chunks partition the elements: there is no read past the end, no gap and no overlap, and they follow worker order (`PartitionExact`). A chunk size that rounds down leaves a gap, and TLC finds it. Under every interleaving of the recorder callbacks, each non-empty slot belongs to one worker and holds exactly its elements in order (`SlotsTrackWorkers`). Every iteration of all four tests passes (`TestsPass`) and every test finishes (`AllIterationsFinish`). |
| `mr_core` | `MCMapReduce.cfg` | pass | One call, 2 mappers, 2 reducers. Checks `TypeOK` (reducer ranges stay inside the filled store), `StoreKeysUnique`, `PerMapperOrder`, `StoreFrozenDuringReduce`, `ImplementsAbstract` (refinement) and `Termination`. A mapper that keeps `lockI` on the full-store early return makes `Termination` fail. The reduce forwards each key under itself, so two reducers never emit one final key: the race on the final store (interface.c:93) is not reached. |
| `mr_repeat` | `MCMapReduce_repeat.cfg` | violation | In the second call over the same input, key 1 comes back as `<<1,4,3,1,4,3>>` and key 3 as `<<5,5>>`. Every value is doubled, because `final_table` is never cleared. |
| `mr_value_overflow` | `MCMapReduce_overflow.cfg` | violation | With a per-key capacity of 1, `mr_emit_i` stores a second value and reports success. |
| `chat_core` | `MCChatServer.cfg` | pass | Two expected clients each send up to two messages and may disconnect. The client array stays compact, and each fd number is listed as often as live I/O threads hold it (`ClientListMatchesThreads`). It does not hold per connection: after fd reuse, a departing thread can remove the new client's entry and leave its own, which `cleanup_and_exit` then joins through the wrong `io_tid`. Each sender's broadcasts arrive in order (`BroadcastOrder`). Once both clients have sent a Type 1, the commit happens (`AllFinishedLeadsToCommit`). |
| `chat_small` | `MCChatServer_small.cfg` | pass | There is room for one client and two connect. The acceptor refuses the second client and never writes past `clients[MAX_CLIENTS]` (`TypeOK`). Malformed messages are discarded, and the commit still happens. |
| `chat_commit_lost` | `MCChatServer_commit.cfg` | violation | The server exits without writing the Phase 2 commit to a client whose Type 1 it counted and who is still connected. The worker re-checks `server_running` and leaves with the commit still queued. |
| `chat_shutdown_hang` | `MCChatServer_shutdown.cfg` | violation | `cleanup_and_exit` joins a client I/O thread while it holds `client_list_lock`. That thread is blocked in `remove_client` on the same lock, so neither can proceed. |
| `shell_history` | `MCShell.cfg` | pass | Over every sequence of 5 input lines with a 2-entry history, the buffer holds exactly the last `HIST_SIZE` lines stored (`HistoryWindow`). `!n` names the n-th line ever stored, or nothing (`RecallMatchesHistory`). |
| `shell_sigint` | `MCShell_sigint.cfg` | violation | The user runs `ls a b` in the foreground and presses Ctrl-C. `waitpid` fails with EINTR, its result is not checked, and the shell is back at its prompt while the command still runs (`ForegroundCollected`). Had the command died, `reap_background` would report it as a background PID. |
| `chat_fd_reuse` | `MCChatServer_fdreuse.cfg` | violation | p1's I/O thread closes fd 1 and has not yet called `remove_client`. p2 connects and `accept()` returns fd 1 again, so the list holds two entries with fd 1. The next broadcast reaches p2 twice (`NoDuplicateDelivery`). |
| `sorted_list` | `MCSortedList.cfg` | pass | Over every sequence of up to four calls with values 1, 2, 3, 5, three things hold. The list stays sorted and holds exactly the values linked (`SortedPermutation`). `info.sum` equals `sum_list` (`InfoSumMatchesList`). `index_of(d)` is the number of smaller values (`IndexOfIsRank`). The run also reaches the NULL write, for example after the calls 1 and 1. |

**Bounds.**
- **Test harness.** `MaxThreads = 4`, `Rounds = 2`, `DataSize = 8`. Each test runs n = 2 and n = 4: 4 and 2 elements per chunk in the partition tests, and one element per worker in the thread-count tests. Four workers share four slots, so a late worker must skip three claimed slots. `MaxThreads = 8` with three rounds does not finish within five minutes.
- **Chunk arithmetic.** The bounds cover every relation between N and M up to 12 and 8: N < M, N = M, N divisible by M, N not divisible by M, and N = 0.
- **Map-reduce.** Two mappers and two reducers are the smallest setting where emits race on one key, on a new key, and across the capacity boundary. Six inputs give each mapper a repeated key, a key shared with the other mapper, and a key that can be dropped.
- **Repeated calls.** `MaxCalls = 1` in `mr_core`, because the program's correctness for a single call is the question. `mr_repeat` adds the second call.
- **Chat server.**
  - Two peers are the smallest number for which one client's removal can race another's messages and connection, the broadcast can interleave two senders, and the commit needs two counts. With two peers, fd numbers 1 and 2 are enough for every reuse.
  - Two messages per peer let one sender's messages be reordered, and one Type 1 per peer follows the protocol.
  - `chat_small` uses one slot for two peers, which reaches the `MAX_CLIENTS` refusal.
  - The `bad` kind is only in `chat_small`, to keep `chat_core` under five minutes.
- **Shell.** With `HIST_SIZE = 2` and 5 lines, the history wraps, and `!0` to `!4` name evicted, stored and future lines. `MAX_ARGS` is the code's 16. The lines include a foreground command (`ls a b`) and a background one (`ls &`), so up to five children can be alive at once, with Ctrl-C in between.
- **Sorted list.** Four calls over four values reach a duplicate at the head, a duplicate in the middle, and insertion at the front, in the middle and at the end. The sums stay far below 2^64, so the `uint64_t` wrap is never reached. Both `info.sum` and `sum_list` would wrap in the same way.

**Fairness.** Weak fairness is assumed for every thread's step and for the calling thread's steps.
- pthreads are preemptively scheduled.
- Every modelled callback returns.
- A thread waiting on a mutex is guaranteed progress once the other threads finish, since their work is finite.

The chat server's fairness is given in section 3. The shell and the sorted list have none. The shell's `&` crash (`RunCrash`) is reached by `shell_history`, but no run is spent asserting that it cannot happen.

`CHECK_DEADLOCK FALSE` is set for the following reasons:
- the harness's `main` returns after its last call;
- the chat server ends with `exit()`;
- the shell stops at `exit` or at the bound on lines read;
- the sorted list stops at its bound on calls. The `Termination` property is what rules out a stall before that point.

## 5. Not modelled

- **Heap memory:** leaks, frees, and malloc failure, which the code never checks.
- **String contents and lengths:** `MAX_KEY_SIZE` truncation.
- **Printing and scoring** in the harness.
- **The straight-line I/O programs** listed in 1.3.
- **`mapper_count = 0`**, which divides by zero; every caller passes at least 1.
- **Chat server:** the `accept()` error path, `pthread_create` failure, byte-level framing (including the full 1024-byte buffer read with length 0), and SIGPIPE on a write to a closed peer.
- **Shell:** what is printed; `execvp`'s PATH search (a failed exec is a child that exits). Also `cd`'s stale read of `args[2]`: `CdAloneGoesHome` states the intended behaviour, and TLC finds it violated after `ls a b` then `cd`. That bug is a two-line unit test, so its run was replaced by the SIGINT race, which a test hardly reaches. Ctrl-C also kills background jobs, since they share the shell's process group; no property claims they survive, because the code makes no promise about them.
- **`lab8.c`:** `main` never calls `count_words_parallel`. The sequential tally runs one thread with no lock, so there is nothing to interleave.
