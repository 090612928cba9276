# Casting in TLA+

This directory holds TLA+ models of *casting*, the C library in `src/` that gives Lua
sessions, tasks and channels on a pool of OS threads. The models are translated from the
C sources; names of variables and actions follow them. Line numbers below are those of
`src/src/`.

Contents

1. The system: components, state, operations, interaction, what is hard
2. The modules, and how they correspond to the code
3. What is checked with TLC: runs, bounds, fairness
4. What the code does that its documentation does not say
5. What is proved with TLAPS
6. What is only model-checked, and what is not modelled
7. Plan

Files: `X.tla` models a component, `MCX.tla` gives its constants for TLC, `XProofs.tla`
holds its theorems, `name.cfg` is one TLC configuration; `PROJECT.json` indexes runs,
mutants, the source lines of every definition, hazards and theorems.

    tlc -workers 2 -config session_check.cfg MCSession    # one run
    tlapm SessionProofs.tla                               # one module of proofs

## 1. The system

### Components

**Thread pool** (`lc_thread.c` 323-427). State: the queue `jobs` of (function, data)
pairs, a semaphore `sem`, the limits `min_threads` and `max_threads`, the count
`threads`, a spin lock over the queue and the limits. Operations: `lc_threadpool_run`
pushes a job, posts, and creates a thread when there are fewer than the minimum or when
jobs pile up below the maximum; `pool_thread` waits on the semaphore with a timeout, pops
(`next_job`), runs the job, and ends when it has timed out and there are more threads
than the minimum; `lc_threadpool_set_threads` changes the limits at any time. Hard: the
post is not atomic with the pop, the decision to end is not atomic with the decrement of
the count, creation may fail. Correct when: jobs are handed out once and in order, a
token is there for every job, no job is left with no thread to take it.

**Thread primitives** (`lc_thread.c` 1-322): a spin lock made of compiler builtins, the
lock of everything below (`lc_spin_lock` 80, `lc_spin_trylock` 88, `lc_spin_unlock` 96);
wrappers of semaphores, mutexes, conditions, threads and atomic operations. State of a
lock: one word. Hard: unlock is an exchange of which the compiler promises an acquire
barrier only, while the stores of the critical section should not pass it; nothing queues
those who spin. Correct when: one thread is inside at a time, a critical section takes
effect at once for everybody else, and the lock is handed on. Semaphores appear in the
models as counters, atomic operations as steps. Mutexes and conditions are used nowhere.

**Sessions** (`lc_session.c`). State: one global lock and map `sessions` of id to
`session_t`; per session a reference count, a status (ready or running), a queue of
(task, message) jobs, a semaphore, a lock and the Lua state that all tasks of the session
share. Operations: create, `session_queue_task` (push; submit the session to the pool if
it is ready), `session_run` (on a pool thread: become the runner or leave; run one job;
resubmit the session or post its semaphore), `session_wait`, `session_close`, `__gc` of
the handle. Hard: a push during a run must be noticed, several submissions of one session
must not run it twice at a time, references are dropped on a dozen paths, `lua_close`
runs finalizers under the global lock, `wait` blocks the thread it is called on.
Correct when: one runner at a time, jobs in order, no lost wake-up, references counted
exactly, nothing of a destroyed session is touched, queued jobs run, waiters released.

**Tasks** (`lc_task.c`). State: a lock and a map of id to `task_t`; per task a
reference count, a status and a coroutine; per OS thread the "current task". Operations:
create, `task_resume` (queue a job on the session), `task_run` (resume the coroutine
according to the status, set the status from the outcome), `task_yield`, `__gc`. Hard: the
answer to a channel operation may be delivered before the task that asked has yielded;
several resumes may be queued; a handle may be collected while a job is queued; the
status is read and written outside the lock. Correct when: a coroutine is resumed only
when it may be, the memory of a task in use stays, answers are not lost.

**Channels** (`lc_channel.c`). State: a lock and a map of id to `channel_t`; per
channel a status, a limit, and three queues: `messages`, `readers`, `writers`, each entry
of the last two with a callback. Operations: `luac_write`/`channel_write`,
`luac_read`/`channel_read`, `channel_close`, the callbacks `session_callback` (host
threads: decode, post a semaphore in the caller's stack frame) and `task_callback` (tasks:
resume the task with the message), and new, connect, load and collection, which handle
the registry. Hard: callbacks run after the lock is released, on a thread other than the
caller's; their data is on the caller's stack; messages pass from hand to hand and each
hand may destroy them; status tests are outside the lock; a channel is known to several
Lua states by an id that circulates as a number. Correct when: FIFO, nobody waits while he
could be served, one callback per call, no dead frame or message used, nothing accepted is
lost; references are counted exactly, a freed channel is not used, and one that nobody has
a handle on is freed.

**Map** (`map.c`): an Andersson tree with explicit paths; the registries of the three
components above and the reference table of messages. Sequential, but intricate.

**Messages** (`message.c`, `lc_message.c`): arguments are copied between Lua states by
way of bytes. A builder collects items (one per value; a table is followed by its keys and
values, a function by its upvalues, a userdata by what `__save` returns) and counts bytes
and arguments as it goes; a table met again becomes a reference to the index of its item.
`msg_new` allocates the counted bytes and writes the items; a cursor walks them and
`decode_value` rebuilds the values. Sequential. Hard: three counts are kept by hand
(bytes, arguments, parts), errors of nested values are ignored, positions serve as names.
Correct when: the message fits in its memory, the count is the number of arguments, and
what is decoded is what was encoded, cycles and sharing of tables included.

**Queue** (`queue.c`): a linked list with a head inside the queue, a tail and a counter,
the queue of everything above. Sequential. Correct when: a FIFO, whatever the pointers do;
the three ways of telling that it is empty agree.

**Buffer** (`buffer.c`): bytes with a cursor and an end, in the frame of the caller until
they are more than `BUFFER_SIZE`, then in a block of the heap that is replaced by a larger
one as needed. `lua_dump` writes into one, `lc_pushfunction` releases it, `msg_new` frees
what was released. Sequential, and used up within one call.

**Errors** (`lc_error.c`): codes, and a per-thread location.
**Utilities** (`lc_utils.c`): `calloc` and printing of a Lua stack. **Entry**
(`casting.c`): opens the libraries, each of which initialises itself once with a loop
around an atomic compare-and-swap.

### Interaction

    Lua code --task()--> task_resume --> session_queue_task --> lc_threadpool_run
                                              |  s->tasks             |  tp->jobs
    pool thread <-- pool_thread <-------------+-----------------------+
        session_run(s): pop a job --> task_run(t, msg) --> lua_resume
             Lua code --read/write--> channel_* --> callbacks of other calls
                                           task_callback --> task_resume (another task)
                                           session_callback --> sem_post (a host thread)

Threads of two kinds run Lua code: threads of the host program, with Lua states of their
own, and pool threads, inside `task_run`. The locks are: the global lock of sessions, one
lock per session, the lock of tasks, the global lock of channels, one per channel, the
lock of the pool. C code of the library takes two of them at once in four places only:
`session_queue_task` and `session_run` submit the session (the lock of the pool) with the lock
of the session held, always in this order; `lua_close` inside `session_free` runs finalizers
under the global lock; `channel_close`, and `channel_free` when the last reference goes
(lc_channel.c:128-131), make the callbacks of `queue_clear` under the lock of the channel and the
global lock. Those callbacks post a semaphore or do nothing, and take no lock.

## 2. The modules

| Module | Models | Abstract specification | Theorems |
|---|---|---|---|
| `ThreadPool` | thread pool | `Executor`: a FIFO of jobs, each executed by one thread | `ThreadPoolProofs` |
| `Session` | registry, runs, waits and calls of sessions | `Serial`: one job of a session at a time, in order | `SessionProofs` |
| `Task` | registry, status, runs of tasks | | `TaskProofs` |
| `Channel` | one channel, its calls and callbacks | `Mailbox`: FIFO of messages, FIFO of readers | `ChannelProofs` |
| `ChannelRegistry` | opening the library, the registry of channels, references of calls and handles | | `ChannelRegistryProofs` |
| `Messaging` | `Channel` and `Task` composed: callbacks resume the task with the message | `Task` and `Channel`: it implements both | `MessagingProofs` |
| `Queue` | the linked list | `Fifo`: a sequence of values | `ThreadPoolProofs` (it holds the jobs) |
| `SpinLock` | the spin lock, on a machine that buffers stores | `Atomic`: a critical section is one step | `ThreadPoolProofs` (lc_thread.c) |
| `Map` | Andersson tree and cursors | `KeySet`: a set of keys and its size | `MapProofs` |
| `Codec` | building, writing and decoding a message | | `CodecProofs` |

The layers are joined by their specifications, where that is enough: `ThreadPool`
implements `Executor`, and `Session` uses its pool exactly as `Executor` lets it (`Take` is
`Executor!Start`, `QueuePush` and `RunEnd` submit); `Session` implements `Serial`, and
`Task` has its sessions run jobs as `Serial` does (`Start` is `Serial!Begin`); the queues
of all of them are sequences, which `Queue` implements. Channels and tasks call each other
in both directions, so they are composed: each action of `Messaging` is an action of
`Channel`, one of `Task`, or one of both at once (`ReadBody` with `Block`, `Invoke` with
`Answer`, `Return` with `Yield`, `Decode` with `Enter`), which is proved: the composition
implements both (section 5), and inherits what is proved of them.

**Granularity.** What happens between a lock and its unlock is one action, as nobody else
can see the middle of it, which is what `SpinLock` is
about; a semaphore operation, an unlocked read or write of shared data, a callback and a
`lua_resume` are actions of their own. Accesses to session_t and task_t
made outside a lock rely on the reference counts, and are modelled as separate steps for
that reason.

**ThreadPool.** `Run` is `lc_threadpool_run`, with `Spawn` its `pthread_create`;
`Wake`/`Timeout` are the outcomes of `lc_sem_timedwait`, `CheckIdle` the test after a
timeout, `Pop` the pop, `FinishJob` the return of the job, `Leave` the uncounted end of
the thread. `worker[w]` is the program counter of thread w. A worker identity is reused
once its thread has ended.

**Session.** A pool thread has a frame of `session_run` (`pc`, `on`, `job`) and every
thread a frame of a call from Lua (`cpc`, `con`, `cjob`). `Drop` is `session_free`,
`Ref` `session_ref`. `locked` records that the global lock was lost: a thread in
`lua_close` runs the finalizer of another handle, which asks for the lock again.
`fault` records the first kind of undefined behaviour met: `freed`, a destroyed session
was touched; `null`, `session_wait` read through NULL. A handle may be closed
`MaxCloses` times; `Serial` knows closes too, as they may destroy a session.

**Task.** `co` is what Lua knows of the coroutine, `status` what the C code believes.
`Create` (followed by a call of `task_resume`), `Resume`, `Collect` are the Lua API,
`Answer` is `task_callback`; `CallRef`, `CallStatus`, `CallRef` again, `CallUnref`,
`CallPush` are the steps of `task_resume` and `session_queue_task`; `Start`, `RunRef`,
`Enter`, `Outcome` or `Block`/`Yield`, `Leave`, `RunFree` are those of `task_run`. The
channels are reduced to a count `owed` of callbacks registered for a task.

**Channel.** A process is one call of read or write. `Enter` and `Check` are the two
tests of the status, `WriteBody` and `ReadBody` the critical sections, `Invoke` makes the
next callback of those a call took along in `due`, `Return` is the return or yield,
`Decode` is the reading task that decodes its message. A message is identified with the
write that sent it. `buf_size`, the argument of `channel.new`, is chosen among `Sizes` in
the initial state and never changes. `Serve` is the code `channel_write` and
`channel_read` share.

**ChannelRegistry.** A process is a Lua state, which one thread at a time runs. `OpenTest`,
`OpenSetup`, `OpenMark` are the loop of `init_channel`; `New`, `Find`, `Push` are
`luaC_new`, `Connect` and `Push` are `luaC_connect` and `luac_load`; `Call`, `Use`, `Free`
are every function that references a channel for the time of a call; `Collect` and `Free`
are `luac_destroy`; `Drop` is `channel_free` but for the queues it clears with the last
reference (section 6); `Unwind` is the Lua error that leaves `luac_write`. `lost` counts the
references such errors have left behind. A handle is a place in a Lua state.

**Messaging.** The variables are those of `Task` and of `Channel` (whose status and pc are
`open` and `at`), the message a call of `task_resume` carries on each thread (`arg`), the
messages of the queued jobs (`mail`) and of the job that runs (`with`), and two histories:
messages in the order in which they were written (`sent`), and as the code of the task has
seen them (`seen`). Where `Channel` makes the callbacks of a call at any time, here they
run on the thread of the call, one after the other, with the steps of `task_resume`.

**SpinLock.** `Spin` and `TryLock` are the swaps of `lc_spin_lock` and `lc_spin_trylock`
that succeed, `Load` and `Store` the critical section `++next` of `channel_new` and of its
like, `Unlock` the exchange. A store stays in the buffer of its thread (`stored`, `buffer`)
until `Drain` or a full barrier; `FullExchange` says whether the exchange is one. The value
that `Atomic` sees is the one that is in a buffer, where there is one.

**Queue.** A node is an address, `next` and `data` are the memory; a freed node keeps its
contents and may be handed out again by any later push. `queue_clear` is one pop per step.

**Map.** A tree is a value, `Nil` or a node with two trees. An operation is a walk, one node
per step: `Descend` is an iteration of the loop with which `map_find`, `map_insert` and
`map_remove` go down, `SeekHeir` and `NextHeir` of the one that looks for the least key on
the right, `Grow` and `Shrink` of the loops over the saved path on the way back, with the
macros `Skew` and `Split` and with `Rebalance`. The code changes nodes in place; here `path`
holds the nodes above, `it` the subtree as changed so far, and `Inserted` and `Removed` put
the new tree in the place of the old. `Rotate` and `Release` are the loop of `map_clear`,
`Start`, `Move`, `Down` and `Up` the cursors. Callers hold a lock, or own the map, for the whole
of an operation, so that one is over when the next begins. `keys` and `todo` are histories: what
has been inserted and not removed, and what is to be released or lies ahead of a cursor.

Two corners of `map.c` go wrong, and the model with them. `Overwrite`, the insert of an equal key
(138-155), releases the data of the node; where `dup` is set, as it is in every map of the
library, it then passes `dup` the pointer to the freed block instead of the address of that
pointer (146), so that a pointer is written into the block over the key and the node keeps it;
and if `dup` fails a node that is still linked is freed (147). `fault` says which of the two
("data", "node") has happened. From then on `map_find` may answer anything (`Astray`); no other
operation is followed on such a map. `RemoveFromEmpty` is `map_remove` of an empty map, which
counts the size down (272), to -1 and below. `KeySet` says what is left of the promise:
`DeleteFromEmpty` has the wrong count, and after `Spoil` nothing is promised. The
registries and the table of references never insert an equal key, as their ids are drawn anew under
the lock and `ref_check` inserts what it has not found (lc_message.c:53-59); and nothing in the
library reads the size. `channel_free` does remove without a `map_find` (lc_channel.c:126): its
channel is in the registry, by `RefsAccounted`, unless the library was opened twice.

**Codec.** The input is a heap of Lua objects and a list of arguments, chosen at the
start. `write_value` and `decode_value` call themselves; their frames are explicit, `calls`
and `reader.calls`, with the loops of `lua_newmessage` and `lua_decodemessage` as the first
one. A frame holds the values that are still to be written or how many have been decoded;
the parts of an object are listed when its frame is made: a `__save` that changes other
objects while they are written is left out. `Skip`, `WriteAtom`, `WriteReference`, `Raise` and `WriteObject` are a
call of `write_value` by what it is called for, of which `WriteObject` leaves a frame;
`EndParts` is what follows the loop over the parts (`lc_settable`, `lc_setfunction`,
`lc_setuserdata`, and the call for the metatable), `EndMeta` what follows that call,
`NewMessage` is `msg_new`. `ReadAtom`, `ReadReference`, `ReadObject` and `NothingMore` are a
call of `decode_value` by what `msg_next` finds, `EndObject` its end for an object,
`DecodeEnd` the end of `lua_decodemessage`. Since every item has a size, bytes are represented
by items and `Offsets` turns one into the other; the cursor stops where the bytes that were
counted end, as `msg_next` does. Keys of tables are numbers, booleans are like nil, strings
and dumps have one length.

Every property in the modules stands below the specification, with a comment that says
which behaviour it is about. Definitions introduced by "A mutant of ..." are plausible
errors in the definition that follows them; no specification uses them. Each property of
a passing run is known to fail when one of them replaces the definition (`PROJECT.json`,
`mutants`).

## 3. What is checked

| Run | Question | Size |
|---|---|---|
| `pool_check` | Do tokens match jobs, does the count agree with the threads, does the pool implement `Executor`, and is every job executed once the pool has settled with equal limits, whatever was set before and whatever `pthread_create` refuses? | 3 threads, 2 jobs, queue up to 3; limits (1,2), (2,2), (0,1) |
| `session_check` | One runner and order of jobs (`Serial`), closes or not; of sessions that are not closed: lost wake-ups, reference counts, destroyed memory; progress of jobs and waiters. | 2 sessions, one created by code of the other; 2 pool threads and the host; 3 jobs; each handle closed at most once |
| `channel_check` | Without a buffer, is the channel a FIFO (`Mailbox`)? With or without: does nobody wait while he could be served, is there one callback per call, is no dead frame or message used, are writers released? | a channel without a buffer or with a buffer of one; 3 host writes, 2 task reads, a close |
| `registry_check` | Are references of channels counted exactly, is no freed channel used, is a channel without handles freed? | 2 Lua states with 2 handles each, one of the host program and a session; 2 channels; 1 error per channel |
| `task_safety` | References, legal resumes, progress of queued tasks. | 2 tasks in 2 sessions, one created by the other; 2 pool threads; 1 resume, 1 read or write |
| `messaging_check` | From the write on a host thread to the code of the reading task: is a message lost, doubled or overtaken, does a served read return? | 2 writes on 2 threads, 2 reads, 1 stray resume |
| `map_check` | Does the tree stay balanced, does a path fit into its array, do `map_clear` and cursors reach every key once, and, up to the first insert of an equal key, is a key found exactly while it is in the map (`KeySet`)? | 8 keys, all orders of finds, inserts, removals, walks of a cursor and `map_free`, node by node; `dup` set, one removal from an empty map between two `map_free` |
| `queue_check` | Do head, tail, counter and links agree, and is the list a FIFO? | 4 nodes, 2 values |
| `spinlock_check` | Is one thread inside at a time, is a critical section one step though stores are buffered, is the lock handed on? | 3 threads, any number of rounds, ids modulo 3 |
| `codec_check` | Is the size right but for references, is the count the number of arguments, does what can be read arrive as it was sent? | all graphs of 2 objects of any kind with up to 2 parts, sent in 4 ways |

**Why these bounds.** Every property relates at most two or three actors: the two that
race and one that observes. Three threads let two of them leave while a third arrives;
two sessions and three jobs let two jobs meet in one session while a third runs
beside them and a session be destroyed by code of another; three writes and two reads
fill a buffer of one, leave a writer waiting and have a second reader; two objects suffice for a
cycle, a shared table and a table within another; eight keys reach
trees of three levels of the Andersson kind, so that `Rebalance` meets each of its
shapes at and below the root; four nodes give a list first, inner and last nodes and a
free one; and three values tell a lost increment
from none. Limits are raised, lowered and set to a minimum of 0; a second channel lets a
state hold one and lose another. `Messaging` has one pool thread, since one task keeps
one busy at most (`Busy` in `Task`), and one task, since two on one pool thread run into
the defect `CurrentIsOwn` shows (section 4). `MaxQueue`, `MaxCloses`, `MaxResumes`, `MaxBlocks`, `MaxId`,
`MaxErrors` and `MaxDeficit` (removals from an empty map) bound calls of the program, not of the library, and are the only bounds in
guards; each job, task, session, write and read happens at most once by its identity.
`Messaging` lets nobody close the channel: what a close does to a waiting task is in
section 4.

**Deadlock** is not checked where the program may rest: when every call has been made
and answered, or, on channels, when calls wait for partners that never come. The map and
queue runs check it, and that of the spin lock.

**Fairness.** Weak fairness of what a thread does once it is inside a call or a run: the
operating system schedules threads, and spin locks are held for a bounded time. In
`Session` a pool thread also takes what is in the pool, which `JobsServed` shows for limits
that keep the pool staffed, and tasks return. No fairness is assumed of
calls that Lua code decides to make, of timeouts, closes or collections; in
`ChannelRegistry` none of the end of a write, which may block. For `Task`, that
the function of a task comes to an end or a yield is assumed as well. Weak fairness is
enough as no enabled step of a thread is disabled by another one for ever: the pool's
`Wake` is the exception, and there the disjunction of a thread's steps is what is fair. That spin locks
are held for a bounded time is `LockHandedOn`; whether a given thread ever finds the lock
free is left to chance (`NobodyStarves` is false, section 4), and the fairness of the other
modules takes it for granted that in the long run it does.

**Progress is conditional, and says on what.** `QueueDrains` and `WaiterReleased` except
programs that are `Obstructed` for ever: the global lock was lost, or another pool thread
sits in `session_wait`, which blocks the session it belongs to and which nothing need
ever end (the semaphore of a session with nothing to do is posted by nobody). As a
leads-to the exception bites only for a program obstructed again and again for ever.
`QueuedTaskRuns` excepts tasks whose handle is collected, `ReadAnswered` those and tasks
that have ended, `ChannelsGo` channels a Lua error keeps a reference on. `JobsServed` is
about the time from which a thread exists, none is about to end, and the limits are equal
and not exceeded; with other limits, or while threads in excess of lowered limits leave,
it is false (section 4). Of a closed session `QueueDrains` and `WaiterReleased` promise
nothing, as it may be destroyed under its users.

**Undefined behaviour.** After a fault the models go on, with the values the memory last
had, as one of the things the build may do (`Map` goes no further than wrong answers). Properties that would mean nothing then are
stated with `Unclosed`, the set of the sessions whose handle nobody has closed: closing is
the only cause of such faults, and reference counts and wake-ups hold of each session until
it is closed, whatever happened to others. `NoUseAfterFree` is about all sessions at once
and holds until the first close; `OneRunner`, `SerialSpec` and `TypeOK` are checked
regardless.

## 4. What the code does that its documentation does not say

Two runs of the index show it, each with the one property it refutes:

* `session_close` / `NothingFreedTouched`. `session_close` treats the result of
  `session_free`, which is `SUCCESS`, as a session; the part that waits "until whoever is
  using it has finished" (lc_session.c:173) is dead code. close drops the reference of
  the handle, and the collection of the handle drops it again.
* `channel_lost` / `NothingLost`. `channel_read` (240-241) and `channel_write` (208-209)
  pop a message *and* a writer in one critical section. With both queues non-empty, which
  needs a buffer with a limit, the message of the writer is acknowledged and dropped.

More is kept for use by hand: ten configurations, each of which names one property
and refutes it, and eleven properties that are refuted when they are put in the place of
the properties of the configuration given (marked `+`):

| Configuration, module | Property | What it shows |
|---|---|---|
| `pool_stranded`, MCThreadPool | `EveryJobServed` | With the limits of `init_session`, (1, 2), both threads decide to leave on the same count; a job pushed before they are uncounted starts no thread and waits for the next call. |
| `session_close` +, MCSession | `NoNullSession` | wait after close reads `s->sem` of the NULL that `session_ref` returned (184). |
| `session_nested`, MCSession | `LockReleased` | A session whose state holds the handle of another is destroyed: `lua_close` inside `session_free` locks the global lock a second time (75, 83). |
| `session_discard`, MCSession | `NothingDiscarded` | Jobs hold no reference on their session; it is destroyed with its queue (82). |
| `session_exhaust`, MCSession | `PoolNotExhausted` | Tasks that wait for sessions they created occupy the whole pool (184). |
| `channel_hostread`, MCChannel | `FramesLive` | `luac_read` waits for ERR_FULL, `channel_read` returns ERR_EMPTY (245, 478): the call returns, and its frame is written later. |
| `channel_taskwrite`, MCChannel | `MessagesLive` | `task_callback` destroys the message of an acknowledged write, which the reader has yet to decode (407). |
| `channel_check` +, MCChannel | `ClosedStaysEmpty` | The status is tested before the lock is taken (189, 233). |
| `task_safety` +, MCTask | `CurrentIsOwn` | `task_set_current` (lc_task.c:15) writes the thread-local variable only if it is empty: every later task on a pool thread reads and writes channels in the name of the first. |
| `task_safety` +, MCTask | `QueuedTaskExists` | A job refers to its task by id only; when the handle is collected the function is never called (lc_task.c:73, 106). |
| `registry_twohosts`, MCChannelRegistry | `RefsAccounted` | Two Lua states of the host program opened at the same time: `atomic_int_cas(&init, 1, 1)` keeps nobody out of the loop, and the second one replaces a registry in use (lc_channel.c:514-516; the same in lc_session.c:341, lc_task.c:228). |
| `registry_check` +, MCChannelRegistry | `AlwaysFreed` | A Lua error in the `__save` of an argument leaves `luac_write` between `channel_ref` and `channel_free`: the channel stays for ever (434). |
| `messaging_check` +, MCMessaging | `AlwaysInOrder` | A task resumed by Lua code while it waits in a read reads again; the callbacks of the two reads race on two threads and the messages change places. |
| `spinlock_acquire`, MCSpinLock | `AtomicSpec` | Where `__sync_lock_test_and_set` is the acquire barrier its documentation promises and no more, the stores of a critical section may become visible after the unlock (lc_thread.c:98): two threads draw the same id. x86 is not such a machine. |
| `spinlock_check` +, MCSpinLock | `NobodyStarves` | Two threads can hand the lock to each other while a third one spins (lc_thread.c:82). |
| `map_check` +, MCMap | `InsertOverwrites` | `map_insert` of an equal key "will overwite and existing element with the same key" (map.c:125). In a map with `dup` it leaves freed memory in the tree (143-147). |
| `map_check` +, MCMap | `SizeCounts` | `map_remove` of an empty map makes the size -1 (192, 272). |
| `codec_check` +, MCCodec | `SizeExact` | `lc_pushreference` counts four bytes less than `msg_new` writes for a reference (message.c:160). |
| `codec_thread`, MCCodec | `DecodesSafely` | A table slot whose value cannot be sent is counted all the same (lc_message.c:135-137). |
| `codec_meta`, MCCodec | `DecodesSafely` | `lc_setmeta` flags the first item of the message instead of the metatable (142-144). |
| `codec_check` +, MCCodec | `ReceiverKept` | `lua_remove(L, top - 1)` removes what lies below the table of references (303). |

The passing channel runs are for host writers and task readers for the reason the table
gives: other mixes run into `channel_hostread` or `channel_taskwrite`.

Noticed and not turned into a property: posts of a session's semaphore accumulate, so
that a wait may return early; ERR_CLOSED is ignored by `luac_write` and `luac_read`, and
a task that meets it yields for ever (`"refused"` in `Channel`); the event of a close is
ignored by `task_callback` (410, with a TODO at 128); `task_run` overwrites the status of
a failed task with finished when it is queued again, and leaks that job's message;
`write_value` does not come to an end for a function that is its own upvalue, as local
recursive functions are (the heaps of `MCCodec` exclude it); a userdata inside a table
is saved by calling `__save` with itself (`Relative` in `Codec`).

## 5. What is proved

All theorems hold for every value of the constants that satisfies the named assumption
of the module: any finite set of threads, any set of jobs, sessions, limits.

**ThreadPoolProofs.** `IInv` is the conjunction of `TypeOK`, `TokensMatchJobs`,
`ThreadsCounted` and `HandMatchesPhase` (a thread has a job in hand exactly while it is
running). The first two alone give `WokenFindsJob`: if a thread is woken, the sum of the
semaphore and the woken threads is positive, and it is the length of the queue. The third
needs nothing of the others. The fourth is what the refinement needs: a `Pop` maps to
`Executor!Start` only if the hand was empty. `PhaseCounts` says once how the cardinality
of `Woken` and of `Live` change when one thread changes phase; every action is one
application of it. Theorems: `TypeCorrect`, `TokensMatch`, `ThreadCount`, `WokenServed`,
`Refinement` (`Spec => ExecutorSpec`) and `AlwaysStaffed`, which assumes limits that
never change, a positive minimum not below the maximum, and no failure of
`pthread_create`; its invariant adds
that the limits are the initial ones, that there are no more threads than the minimum and
none is leaving, and that some thread exists while a job is queued.

The module goes on with the spin lock of the same file (it extends `SpinLock` too, whose names
begin with `Lock` for that reason). `MutualExclusion` is inductive with `LockTypeOK` alone, on any
machine: the swap is what it rests on. `LockOrdered` says that a store is pending only in
front of the unlock, and that what a thread inside has loaded is what the memory still has; it
needs `FullExchange`, and makes `Store` the one step of `Atomic` and all others stutter.
Theorems: `Exclusion`, and `Atomicity` (`LockSpec => AtomicSpec` where `FullExchange`).

Last comes the queue that holds the jobs (`Queue`; names begin with `Queue` where two modules
would share one). `Chain(ns)` says that ns are the nodes of the list from head to tail: all the
allocated ones, each once, linked in this order, with the counter its length. That there is
such an ns is inductive (`ListInv`, `Chained`), with `StepMoves` giving the ns after each
step: one node appended, the first one taken, or the same. The property `WellLinked` walks
along the links by the recursive function `Met`; `NodesAre` shows that the walk meets
exactly ns, by induction over its length, and so the abstract value of the list is the data
along ns. Theorems: `Chained`, `Linked` (`WellLinked`), `ImplementsFifo` (`QueueSpec => FifoSpec`),
though freed nodes are handed out again in any order.

**SessionProofs.** `Shape` is `TypeOK` with what the program counters say of the frames
(`Frames`) and with every session in the registry having a positive count
(`Referenced`). `OneRunner` is inductive relative to `Shape`, whatever is closed. The rest is
said of one session at a time, until it is closed: `Sound(s)` is `RefsAccounted` for s, with
an id that was never given out being in no registry and a destroyed session having an empty
queue; `Heard(s)` is `NoLostWakeup` for s; `Untouched` says that nothing faulted before the
first close. `Inv` is all of these together. The counting goes through four lemmas, for a
thread entering or leaving a run or a call, and through `OneMore` and `OneLess` for the
effect of `session_ref` and `session_free` on the sum. `HolderAlive` turns the sum into
memory safety: who holds a reference finds the session in the registry. Wake-ups: when the
runner ends with a non-empty queue it submits the session, when a push finds it ready it
does, and a pool thread that has the id and is in front of `RunLock` looks at the queue
after every earlier push. For the refinement, `Mapped` says which job `Serial` sees: the
one in the frame of the thread that executes the session, of which `OneRunner` says there is
one; `SameOrder`, `Stutter` and `DropOrder` are the three things a step may do to it.
Theorems: `TypeCorrect`, `MutualExclusion` and `Refinement` (`Spec => SerialSpec`) whatever is
closed; `CountedReferences` and `Wakeup` of each session until it is closed; `MemorySafety`
until the first close. That condition cannot be dropped: `session_close` refutes memory
safety without it.

**ChannelProofs.** All for calls by any number of threads and a close at any time. `Inv` is
`NobodyWaitsInVain` with the types of the three queues and, where there is no buffer or no
limit (`SingleQueue`, that is `buf_size =< 0`), with one of `messages` and `writers` being
empty for ever (`OneQueue`). `WriteCases` and `ReadCases` state what the critical sections
do to the queues once and for all, `WriteDue` and `ReadDue` which callbacks they leave to be
made. `ReadersServed` and `Refinement` (`Spec => MailboxSpec`) follow, the second because each
case is one action of `Mailbox`; `MailboxSpec` promises the FIFO where `SingleQueue` holds,
and `channel_lost` shows why not for others.

The other theorems follow the callbacks. `Once(o)` says of call o what `CalledBackOnce` says
with a cardinality: it is in a queue, in the list of one thread, or called back. `Counted`,
which is `Inv`, `Shape` (the types, no call twice in a queue, at most two callbacks in a
list) and `Once` of every call, is inductive, and gives `TypeCorrect` and `CallbacksExact`.
`Framed` adds that the thread of a write that has its callback to come is
blocked, unless it makes that callback itself: `FramesSafety`, where no thread of the host
program reads (`Read \cap Host = {}`), since `luac_read` does not wait for the code
`channel_read` returns; the configuration `channel_hostread` is what happens otherwise.
`Kept` says where each message is (buffered, waiting, in the hands of one
reader, destroyed) and that a callback of a read carries the message taken for that read:
`MessagesSafety`, where all writes are made by the host program (`Write \subseteq Host`),
as `task_callback` destroys the message of a write it acknowledges; see `channel_taskwrite`.
`NothingLostWithoutLimit` confines the finding `channel_lost` to channels with a limit.

**TaskProofs.** `Shape` is `TypeOK` with what the program counters say of the frames
(`Frames`), with only tasks that were created being named anywhere, each in the queue of
its own session (`Created`), and with one thread at a time running a session's jobs
(`Exclusive`). `RefsAccounted` is inductive relative to it; the count goes over the
handle, calls and runs that hold a reference. `Coroutines` says for each status what the
coroutine can be, with the exceptions the program counter of the running thread allows,
and gives `ResumedWhenSuspended`: `Enter` looks at the status only, and a coroutine that
has ended or is running must not be behind one that lets it resume. `Ended` is the
converse: a task that is marked as finished or failed has a coroutine that ended, although
`task_run` writes finished for every task it does not resume (its default branch). Theorems:
`TypeCorrect`, `CountedReferences`, `ResumeSafe`, `RefusedWhenEnded` (what `task_resume`
refuses has ended) and `OverIsOver` (what has ended, or has left the registry, never comes
back), without any assumption beyond the types of the constants.

**MessagingProofs.** The composition adds no behaviour to its parts: `TaskStep` maps each of
its steps to one of `Task` or a stutter, `ChannelStep` to one of `Channel` or a stutter
(`TaskPart`, `ChannelPart`). So it has the theorems of `TaskProofs` and `ChannelProofs`, which
are instantiated rather than proved again; here the host program makes all writes and
the task all reads, so that the conditions of `FramesSafety` and `MessagesSafety` hold
(`PartsSafe`). Those invariants (`Parts`) are then used for `MessagesKept`, of which neither
part knows: that a message which a read has taken is seen by the code of the task or on its way
to it. The way is a callback in a list, a call of `task_resume` on some thread, a job in the
queue, a job that has begun (`OnItsWay`), and there is one lemma per kind of step (`Way...`).
A message could be lost where `task_resume` refuses (`status` finished or failed), where
the task is not found in the registry, and in the default branch of `task_run`: `Ended`,
`RefsAccounted` and `OverIsOver` say that then the task is over. `Carried` keeps the messages
of the jobs beside the jobs; `Started` says that who reads has been created.

`InOrder` (`ReadsInOrder`) needs to know how much can be on its way at once. Without stray
resumes it is one thing: nothing (`Quiet`), a read that waits in the channel (`Asked`), or one
message in one of the four places of `OnItsWay` (`Flying`); while the task runs it is
nothing (`Rests`), so that each read begins with an empty way. `InLine` is what makes the
order: what was written is what the task has seen, then the message that is on its
way, then the queue of writers. A step that drops a message ends in `Gone`, after which
nothing is seen. There is one lemma per kind of step (`Order...`). With strays `Single` does not
hold, and neither does the order (`AlwaysInOrder` in section 4).

**ChannelRegistryProofs.** All for `OneHost`, a single Lua state of the host program, which
`registry_twohosts` shows cannot be dropped: the library is then initialised before
any other state exists, and never again. `Shape` is `TypeOK` with that (`Initialised`),
with the frames of calls (`Frames`) and with ids not yet drawn being unused (`Fresh`).
`Counted` turns `RefsAccounted` into sums over handles and calls, and four lemmas say how
they change when a call begins or ends, when a handle is made or goes; `HolderAlive` gives
memory safety. Theorems: `TypeCorrect`, `CountedReferences`, `MemorySafety`.

**MapProofs.** For every finite set of keys, and trees of any size. The difficulty is that a
tree has any depth while nothing can be defined by recursion over it. `Tree(u, S, r)` says
that u is a tree with the keys S by way of a certificate: a set of pairs of a node and its
keys, closed under taking children, in which each node keeps the order of keys and, where r
asks for it, the rules of Andersson trees. `MakeTree` and `OpenTree` put such trees together and
take them apart; `OneKeys`, by induction over the number of keys, says that a tree has one set
of keys, so that `Keys(u)`, `Search(u)` (a search tree) and `AA(u)` (a balanced one) make
sense. With `Ranks` a node stands above its children in a measure, `Rank`, that is at most
twice the level: that bounds the length of a path (`Frames`), and `ManyKeys` says that a tree
of level l has at least 2^l - 1 keys. Hence `PathFits`.

Rotations are equations between nodes (`SkewTurn`, `SplitTurn`, `LoweredNode`). What the walk
back preserves is `Rise(o, n)` after an insert: the changed subtree n has the level of the
old one o, or one more where o had a right child of its own level, and then n has none;
`GrowLeft` and `GrowRight` say that `Split(Skew(_))` of the parent is balanced and rises likewise. After a removal it
is `Fall(o, n)`: one level less, or the same and a right child of that level only if o had one; `ShrinkLeft` and `ShrinkRight` go through the
shapes `Rebalance` repairs, each skew and each split of it being needed in one of them. The
invariant `IInv` has one part per loop: `Content` (the tree is balanced and holds `keys`), `Descending`, `Directed` and `Holding` (a path leads down from the root
towards the key), `Seeking` (the heir), `Growing`, `Shrinking`, `Clearing` (what is left to
release is in the tree that is left) and `Visiting` (the subtree of a cursor is convex among
the keys, and a path leads to it). There is one lemma per action. Theorems:
`Invariant` and `TypeCorrect`, `Balanced` (`StaysBalanced`), `Fits` (`PathFits`), `Released`
(`ReleasedOnce`), `Visited` (`CursorsVisitAll`) and `ImplementsKeySet` (`Spec => KeySetSpec`), the
last for maps with and without `dup`. `KeySet` has the two exceptions of section 2: the set is
implemented up to the first insert of an equal key where `dup` is set, without limit where it is
not; and `size` is the number of keys less the removals from an empty map. `PathFits` is about the
number of keys, and thus holds whatever has become of `size`.

**CodecProofs.** For any objects, any arguments, and nesting of any depth: heaps in which
writing never ends are included, since nothing is claimed of them but what is true at each
step. `Built` is the invariant of the builder. `Frames` says that the calls are about
objects whose item is there and that they write the parts of these; `Weighed` is
`SizeOffByReferences` before `msg_new`. `Counts` is what `count` is in the middle of a
message: the sum of the values that the calls which go on have written, as each
call takes off at its end what it has added; it holds while everything reached is
written, and at the end leaves the arguments. `Sent` says that a message is what was built.

`RoundTrip` compares two recursions, one of which has ended when the other begins. The link
is a history. `Story` says of the items that there are functions H and O, where `H[p]` are
the calls of `write_value` when p items had been pushed, and `O[p]` is the object of item p:
each item was added by the call that had its value next, with the calls above it
over (`Adds`), an item that is complete has the number of its parts (`Whole`), and references
are to marked tables that come before (`Refers`, `Mapped`). `Told` (there is a story,
where everything reached is written and no metatable is) is preserved by each step. `Mirrors` then
relates the reader to H: when it has read p items, its calls are `H[p]` but for calls
that are over (`Synced`), each has on its part of the stack what it was to decode
(`Stacked`, `Holds`), the objects made are copies (`Makes`), one for each item (`Unique`, `Covers`).
Each step of the reader preserves it, one that reads an item goes from `H[p]` to
`H[p + 1]`, and an object is left with exactly the values that were written for it; thus
`decode_value` finds what it looks for, though an error of `msg_next` would go unnoticed.
When `msg_next` fails, all items have been read, and `Copied` takes O, restricted to
the objects made, for the `origin` that `RoundTrip` asks for.
Theorems: `Invariant`, `Sizes` (`SizeOffByReferences`), `Counted` (`CountIsArguments`),
`Decodes` (`RoundTrip`). Without the condition that no metatable is flagged, or that all that is
reached is written, decoding goes wrong (`codec_meta`, `codec_thread` in section 4).

The invariants proved are those the runs check, except for `WokenFindsJob`, which says of
`TokensMatchJobs` what it is for, `Staffed`, `OnlyEndedRefused`, `OverForGood`,
`NothingLostWithoutLimit`, and the `TypeOK` of the modules other than `Session`. TLC checked all
of them and the strengthenings first on the instances above, but for `Story` and `Mirrors`,
which speak of histories.

**Technique.** Cardinalities of sets of threads are not left to the provers: they change by
one element, and a lemma says so. Sums of references are replaced by quantified statements
(`Once`) where a count is 0 or 1. The library's induction theorems take an operator as
parameter, which the provers cannot instantiate; `ThreadPoolProofs` derives induction over a set
of naturals from the least element of its complement (`WFMin` of `WellFoundedInduction`,
which takes sets), and so does `MapProofs`, where `Pow`, a recursive function, is also shown to
exist that way.

## 6. What is only model-checked, and what is not modelled

Checked by TLC only:

* all liveness properties, as the prover does not do fairness: `JobsServed`, `QueueDrains`,
  `WaiterReleased`, `WriterReleased`, `QueuedTaskRuns`, `ReadAnswered`, `ChannelsGo`,
  `LockHandedOn`.

Every other property of a passing run is a theorem.

Of the type invariants only that of `Session` is part of a run; those of
`ThreadPool`, `Task`, `Channel`, `ChannelRegistry`, `Messaging`, `SpinLock`, `Queue`, `Map` and
`Codec` are proved or part of what is, and those of the other modules say less of their variables than
the properties that are checked.

Not modelled:

* what `channel_free` does to the queues of a channel when its last reference goes
  (lc_channel.c:128-131): `messages`, `readers` and `writers` are cleared, and the callbacks of
  those who wait are made with the event closed, under the global lock. A thread of the host
  program waits with a reference of its own, so that these are tasks, whose callback ignores
  the event (410). `ChannelRegistry` has no queues; to the calls that are registered it is what
  `Close` of `Channel` does, with nobody left to call;
* of messages: the userdata that holds one, and the array of the builder, which grows;
* what the functions that open the libraries do besides initialising them: registration
  of function tables. Initialisation is modelled for channels; sessions, tasks and the
  error location have the same loop;
* the ids of sessions and tasks, doubles that are compared as int: two thousand million of
  them would be needed for the order to fail;
* `buffer.c`: a byte buffer that `write_value` fills by `lua_dump` and
  `lc_pushfunction` empties; `msg_new` frees its bytes before the write goes on, and
  nothing runs beside it;
* mutexes, conditions, thread objects and `lc_sem_trywait`, which are used nowhere;
* results of `lc_threadpool_min`/`max` read without the lock, which nothing depends on;
* failures of allocation, which the code answers with a NULL dereference or not at all,
  except where `map_insert` returns an error (`NoNode`, `Overwrite` of `Map`). The `dup` callbacks
  of the three registries report success without memory, and the node has no data then;
* `lc_utils.c`, the texts of errors, registration of function tables, build files: no
  state of their own.

Abstractions worth knowing: `task_run` may end at any time with any outcome Lua allows;
a session outlives its tasks in `Task` (destruction is in `Session`); identifiers are
never reused, as the code's counters, which are doubles, do not wrap in practice.

## 7. Plan

1. **Core** (done): `ThreadPool`/`Executor`, `Session`/`Serial`, `Channel`/`Mailbox`,
   `Task`, `Map`/`KeySet`, `Codec`, with the theorems of section 5.
2. **Rest of the model** (done): `ChannelRegistry` with the initialisation of a library,
   `Queue`/`Fifo`, `Messaging`, `SpinLock`/`Atomic`; closes in `Session` and `Serial`,
   moved limits and refused threads in the liveness of `ThreadPool`;
   `TaskProofs`, `ChannelRegistryProofs`, the theorems of the spin lock.
3. **Proofs** (done): `SessionProofs` with the refinement of `Serial`, `ChannelProofs` with
   callbacks, frames and messages, the theorems of the queue, `MessagingProofs`, and `MapProofs`
   and `CodecProofs`, for which `Map` became a machine that walks node by node, and `Codec` one
   whose calls are explicit.
4. **Proofs that are left.** `ThreadPool`: limits that move, in `AlwaysStaffed`.
