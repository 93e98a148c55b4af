# A TLA+ verification of Jinn

Jinn is a compiled language. The compiler (`src/`, Rust) type-checks a program,
checks its moves, lowers it to a control-flow graph, optimizes it, inserts drops
and emits code that calls a C runtime (`runtime/`): coroutines on a
work-stealing scheduler, channels, `select`, structured-concurrency scopes,
actors and supervisors, and persistent stores with a write-ahead log,
transactions and crash recovery. This project models the parts of both whose
correctness is hard to test, checks them with TLC on small instances and proves
the safety of the concurrent and crash-prone core for all instances with TLAPS.

Paths below are relative to the repository (`runtime/...`, `src/...`).

## 1. Inventory

| Component | State | Operations | What is hard |
| --- | --- | --- | --- |
| Channel (`runtime/channel.c`) | ring with `head`/`tail`, spin lock, `closed`, two wait queues | send, recv, try_recv, close, wake_cancelled | registration of a waiter spans a context switch; one wake-up per value; close and cancel from outside |
| Select (`runtime/select.c`) | claim word and one wait node per case on the coroutine's stack | poll, default, spin, park, unlink | several locks, several wakers, stack nodes |
| Deque (`runtime/deque.c`) | `top`, `bottom`, growable buffer | push, pop (owner), steal (others) | lock-free, stale buffers |
| Scheduler (`runtime/sched.c`) | workers, injection queue, idle count, `active_coros` | spawn, enqueue, worker loop, park, shutdown | missed wake-ups, end of the program |
| Scope (`runtime/scope.c`) | children, child scopes, actors, `live_children`, `cancelled` | create, register, cancel, child_done, join | cancel racing with registration, free after join |
| Actor (`runtime/actor.c`, `src/codegen/actors.rs`) | mailbox, state, latch, live and retired lists | spawn, send, handle, stop, join, retire, drain at exit | who owns a payload when a mailbox closes |
| Supervisor (`runtime/sup.c`) | child slots, restart count | start, on_child_exit | restart cascades, pointers read without the lock |
| Log and transactions (`runtime/wal.c`) | log per store, depth, participants with undo images | write, force, checkpoint, save, begin, track, commit, rollback | crash between any two steps |
| Undo journal (`runtime/txn_journal.c`) | `.jinn-transaction` | snapshot, recover, finish | interrupted recovery |
| Recovery (`runtime/recover.c`, `durable.c`) | data file, log | undo, replay, atomic rewrite, checkpoint | log retired before the data is durable |
| Writer gate (`runtime/durable.c`) | owner, depth, lock slots | enter, leave, wlock, wunlock | re-entrance, ownership by coroutine |
| Store statements (`src/codegen/stores`) | records, index, version log, child stores | insert, set, delete, destroy, restore, compact, lookup, query, aggregates | load-modify-write of two tasks, sidecars |
| Values (`src/codegen`: strings, vec, map, clone, drop) | headers, buffers, cells | growth, removal, transformation, clone, drop | two owners of one buffer |
| Arithmetic (`src/codegen`, `src/mir/range.rs`) | - | checked, wrapping, saturating operations; interval analysis | a check removed that was needed |
| Move checker, escape analysis (`src/typer`) | moved places, ownership of variables | statements of a body | joins, loops, deferred bodies, closures |
| MIR lowering and optimizer (`src/mir`) | SSA blocks | lowering, passes to a fixed point, verifier | order of passes, unwinding, transactions |
| Drop insertion (`src/drops`) | ownership and liveness of values | clone, insert, sink, fuse, pair, verify | paths where a value is gone on one side |
| Type inference (`src/typer/unify`, `src/typer`) | union-find, deferred requests | unify, constrain, resolve, default | order of requests |
| Names (`src/driver/sources`, `resolve.rs`) | merged declarations | prefixing, renaming | capture by locals |
| Capabilities (`src/typer/caps.rs`) | needs per function | collect, propagate, check | indirect effects |
| Formatter, grammar (`src/fmt.rs`, `src/parser/expr`) | - | print, parse | precedence |
| Packages (`src/cache.rs`, `lock.rs`) | lock file, cache | resolve, fetch, update | killed command, pins |
| Sidecar files, migration, event loop, stacks, system interface, lexer, LLVM emission, language server, standard library | - | - | sequential, I/O or generated; not modelled (section 6) |

How they interact. A coroutine that blocks in a channel or a select is put in the
channel's wait queue and leaves its stack for the worker loop, which only then
releases the channel's lock (`held_lock`, `held_locks`). Whoever makes room,
brings a value, closes the channel or cancels the scope takes a coroutine from
the wait queue and hands it to the scheduler, which puts it in a deque or in the
injection queue. Mailboxes of actors are channels. A scope counts its children;
the worker loop's DESTROY action tells the scope (and the supervisor) that one
has ended. The generated code of a store statement takes the writer gate, tracks
the store in the current transaction, writes the log and then the data file. The
first use of a store recovers it, and the start of the process recovers the
directory from the journal before that. In the compiler each phase hands a
finished tree or function to the next one, so a phase is checked by what it hands
on: by executing it, by comparing it with a reference, or by reading it back.

## 2. Modules

Runtime:

| Module | Models | Kind |
| --- | --- | --- |
| `BoundedFifo` | what a channel promises | abstract specification |
| `Channel` | `channel.c`, with the scope's cancellation and the worker loop as far as they touch it | specification, refines `BoundedFifo` |
| `Select`, `MCSelect` | `select.c` over several channels with plain senders and receivers | specification, instance |
| `Deque` | `deque.c` | specification |
| `Scope` | `scope.c`, nested, with scoped actors | specification |
| `Actor` | generated spawn, send and loop over `actor.c` | specification |
| `Supervisor` | `sup.c` with the life of mailboxes and the end of the program | specification |
| `Waiting` | the writer gate of `durable.c`, the completion latch of `actor.c` | specification |
| `Values`, `Library` | strings, vectors, clone and drop; a program using them | operators, specification |
| `HashMap` | the table behind a map, beside the dictionary it stands for | specification |
| `Ranges`, `Arithmetic` | emitted arithmetic, range analysis; their runs | operators, specification |
| `MCStructures` | those above from `Deque` on, each in behaviours of its own | instance |
| `Store`, `MCStore` | `wal.c`, `txn_journal.c`, `recover.c`, `durable.c` | specification, instance |
| `Table` | what a store promises to concurrent statements | abstract specification |
| `Query`, `Statements`, `MCStatements` | generated store statements of concurrent tasks | operators, specification (refines `Table`), instance |

Compiler:

| Module | Models |
| --- | --- |
| `Access`, `Moves`, `Ownership` | consume and mutate inference; move checker and escape analysis; what an accepted body does to its heap |
| `Mir`, `Lowering`, `Pipeline`, `PipelineBodies` | control-flow graphs, passes and their execution; SSA construction; the pipeline and the meaning of the source; the bodies |
| `Drops` | the drop passes; their order, their verifier and the execution on a heap |
| `CheckedBodies`, `MCBodies` | the bodies of the first and the third; instance over `Ownership`, `Pipeline` and `Drops` |
| `Unify`, `Infer` | type solver; inference of a body |
| `Names`, `Capabilities`, `Grammar`, `Packages` | imports; the capability pass; formatter and expression parser; package resolution |
| `MCFrontend` | instance over these |

Proofs: `ChannelProofs`, `SelectProofs`, `PrimitivesProofs` (deque, gate, latch, hash map),
`StoreProofs`, `StatementsProofs`, `ScopeProofs`, `ActorsProofs` (actors and
supervisors), `CapabilitiesProofs` (section 5).

### Channel

`head`, `tail`, `buffer`, `closed`, `lock`, `send_waitq` and `recv_waitq` are the
fields of `jinn_chan`; `wait_chan` and `cancelled` those of the coroutine. `pc`
says where a caller is in `jinn_chan_send` / `jinn_chan_recv`: before the
cancellation check (`top`), about to lock (`try`), registering with the lock held
(`check`, `reg`, `swap`), or switched out (`parked`). A critical section is one
step because all shared accesses in it are under the lock, with three exceptions
that are steps of their own: the second cancellation check, the publication of
`wait_chan` and the switch away from the stack. The last is the step of
`jinn_worker_loop` that clears `held_lock`. `close` stores the flag before it
locks, so it has two steps. A waker pops a node, clears `wait_chan` and enqueues
the coroutine after unlocking; this is one step of the model, because between
pop and enqueue nobody else can reach the coroutine. `sent` and `rcvd` are
history variables. `jinn_scope_cancel` sets the flag of a child (`CancelMark`),
reads its `wait_chan` (`CancelPeek`) and looks for it in the queues of that
channel (`CancelWake`); the join of a cancelled scope repeats the last two for
the children that are left, for ever when `*main` joins (`MainJoins`), once
before it parks when a coroutine joins. Capacity is the number of slots after
`next_pow2`, and the counters are unbounded naturals: they are 64-bit in the
code.

### Select

`fill` counts the values of each channel (order is `Channel`'s business), `lock`
is the holder, `claim` is the select's claim word and the queues hold nodes
`[coro, case]`. `LockNext` takes one lock in address order, so two selects
interleave lock by lock. `Fire` picks any ready case: the poll order is shuffled.
`Park` pushes a node per case, publishes the first channel and keeps all locks
until `SwapOut`. After `Resume` the select locks everything again, unlinks its
nodes and starts over at the cancellation check. The plain operations, `Close`
and `CancelWake` are single steps here; `Channel` has their details. `Fire`
enqueues the coroutine it woke in the step that releases the locks; the code does
it just after (`select.c` 199-204). Nil channels in cases are left out. Each
coroutine has a bounded number of operations (`MaxOps`) and at most `MaxClosed`
channels are closed.

### Deque

One step per access to `top`, `bottom`, `buf` and a slot, in program order, with
`bufs` keeping replaced buffers, as the code does until the deque is destroyed.
`hands` is a history variable. The memory model is sequential consistency: the
code has a sequentially consistent fence between the store of `bottom` and the
load of `top` in pop and between the two loads in steal, and acquire/release
pairs elsewhere; weaker behaviours than these allow are not modelled. `size`
starts at `InitCap` and doubles; the index is `i % size` (a mask in the code).

### Scope

Scopes are numbered by depth: scope n is opened inside n - 1. A task's `tpc` runs
through its body, the registration of a child (count first, list later), a
cancellation, the end of its coroutine (`exit`, `done`, `release`, `wake`) and
the join of the scope it opened (`join`, `sync`, `park`, `swap`, `parked`,
`unlink`, `free`). `frames` is the recursion of `jinn_scope_cancel`, which holds
the lock of the outer scope while it cancels the inner ones. What a task waits
for is abstract: it is released when it is cancelled or, an actor, when its
mailbox is closed. `cleanup_depth` and generator parents are left out.

### Actor, Supervisor, Waiting

`Actor` follows the ownership of each payload: its sender, the ring, the handler,
the actor's state, or nobody once it was dropped; send, dispatch and drop compute
the offsets in the packed message by rules of their own, and the model keeps
them. A handler has any number of parameters, of which some own memory; it drops
what it is given or keeps one value in the state. An actor that is still queued when
the program ends leaves its mailbox undrained, which the code documents as best
effort. `Supervisor` numbers mailboxes and coroutines by spawn; slots are read
without the lock, as in the code. Supervised mailboxes are not on the list of live
actors (only `compile_spawn_with_init_vals` registers), so the end of the program
leaves them open. `Waiting` has the gate (owner word, depth that
only the owner touches, per-store locks) and the latch (made by whoever comes
first, joiners park, the ending actor wakes them).

### Library, HashMap, Arithmetic

A program of bounded length applies the generated operations to variables; beside
every variable stands what it is meant to contain, and the heap knows the live
buffers. Callbacks are abstracted: map clones, predicates are sets, fold appends.
`HashMap` has the header and the buckets of `codegen/map.rs`, with growth one round of
`__jinn_map_grow` at a time, and beside them the dictionary (`dict`); `broken` counts
the operations since a removal cut the probe sequence of another key.
`Arithmetic` evaluates every operation on every pair of operands of a 4-bit word,
and executes small functions with the tests that the range analysis removed left
out.

### Store

Every file has two contents, `mem` (what reads return, survives the death of the
process) and `dsk` (what survives a power failure). `fflush` reaches `mem`,
`jinn_persistence_sync` copies `mem` to `dsk`, and `jinn_atomic_rewrite` is a write
followed by the sync of the directory. A data file maps rows to values, a log is a
sequence of `put`, `begin` (with the undo image) and `commit` frames. `Kill` ends
the process at any step; `PowerFailure` leaves any mixture of old and new rows and
any prefix of the unsynced frames (a torn frame fails its checksum and is cut).
The writer gate makes one task at a time mutate stores or be in a transaction
(`Waiting`): that is the client. `save` takes no gate (`emit_store_save`,
`jinn_store_save`) and looks only at its own coroutine's transaction
(`jinn_txn_active`), so other tasks (`Savers`) sync and truncate at any step of the
client's; `saving` says where each of them is. `outcomes` is a history variable: the
set of states of all stores that the documented outcome table (`docs/jinn.md`,
transactions and durability) allows after a reopen. Update and delete frames are
upserts of a row, like insert.

Such a save can cut the log between a row's frame and the sync that makes the data
file durable; the row is then nowhere durable although its store is synced per
record. `cut` remembers these rows until the data file is synced, and a power failure
may take back those of them that the journal does not restore (`Exposed`,
`WithoutExposed`): this is what `OutcomeLegal` does not claim, and section 4 lists it.
Every other row, and every row if the only faults are kills, survives. A save of the
client itself loses nothing. Finer than the model are races of `ftruncate` and
`fseek` of a save with an append to the same `FILE`. Others do not save a store in the
moments between the publication of its handle and the end of its recovery
(`handles.rs` 255), and the checkpoint at the end of `compact` is `save`'s.

### Statements

Each generated statement is the sequence of its runtime steps; two tasks
interleave them on six kinds of store, and only the writer gate orders them.
Every change of the file is compared with `Table`, where a statement is one step,
and every answer with a reference definition in `Query`. Crashes are `Store`'s
business. Key-value, graph, full-text, vector and column statements are left out.

### The compiler modules

Each takes every input of a bounded grammar. `Ownership` runs an accepted body on
a heap and asks for a use after move, a value with two owners or freed twice, and a
change of what a loop or another argument holds. Five gaps of the checker are known
(section 4). Each lets particular cells loose (`loose`), from the statement that falls
into it: a later wrong use of loose cells alone ends the run without a verdict, and
every other wrong use of a parameter, string or variable counts. Bodies are built so
that they miss a few more gaps (deferred bodies that return or assign, a move before
`break` with a rebind after it, the common binds of an `if`, the binder of a `for`).
What is never freed is not its question but that of `Drops`.
`Pipeline` runs the function after lowering and after every pass, for every
answer to its conditions and every checkpoint at which it is cancelled, and
compares the trace with the meaning of the statements. `Drops` executes what the
drop passes produced. `Infer` takes the requests in every order; `Names` compares
what each use refers to before and after the merge; `Capabilities` runs the
program and compares its effects with the declared needs; `Grammar` prints and
parses back; `Packages` lets a command be killed before any of its file-system
effects.

## 3. Runs

| Run | Instance | Checks | Result |
| --- | --- | --- | --- |
| `channel` | 2 senders, 2 receivers, 1 slot, one of each in a cancelled scope that `*main` joins, close; fairness | `ParkedInOnePlace`, `ClosedFreesAll`, `CancelledReturns` | holds, 178 414 states |
| `channel_live` | 2 senders, a parking and a spinning receiver, 2 slots, 3 sends, fairness | `TypeOK`, `RingHoldsPending`, `NoStranded`, `ImplementsFifo`, `EveryValueDelivered`, `EverySendReturns` | holds, 102 800 states |
| `select` | 2 channels; a parking select with a send arm, in a scope, a default one, a spinning one with two arms on one channel; sender, receiver, close; fairness | `NoDanglingNode`, `OneWaker`, `LockingEnds`, `CancelledSelectReturns` | holds, 22 720 states |
| `structures` | deque: 3 items, 2 thieves, first buffer of 1 slot; 2 nested scopes with a child and an actor; an actor with 3 sends to three handlers, 2 slots; a supervisor; gate and latch with 3 tasks; programs of up to 4 operations on 3 variables; a map of 4 keys, 4 to 8 buckets; 4-bit arithmetic | `EachInOnePlace`, `StealsWhatIsAtTop`, `JoinExact`, `CancelReaches`, `PayloadsSettled`, `SupervisorSettles`, `WaitersServed`, `ContentKept`, `OneOwner`, `MapAgrees`, `ArithSound` | holds, 705 785 states |
| `store` | part `relaxed`: 2 unsynced stores, 2 mutations, kills and power failures, nesting 2; part `mixed`: a synced and an unsynced store, 3 mutations, power failures; parts `saved`: a synced store that another task saves, 2 mutations, kills or power failures; 2 faults each; fairness | `OutcomeLegal`, `UndoIsDurable`, `RecoveryEnds` | holds, 1 054 557 states |
| `statements` | 2 tasks, 6 kinds of store, 3 statements, 4 rows, a buffer of 3; fairness | `SidecarsAgree`, `ReadsRight`, `CascadeReaches`, `WholeStatements`, `StatementEnds` | holds, 199 120 states |
| `bodies` | every body of three small grammars | `Sound`, `Preserved`, `DropsRight` | holds, 195 779 states |
| `frontend` | package manager with 3 commands and a kill; every expression, module, body and call graph of a small grammar | `PackagesPinned`, `Printable`, `NamesKept`, `Answered`, `NeedsHold` | holds, 459 742 states |
| `channel_coro_join` | 1 sender, 1 receiver in a scope joined by a coroutine | `CancelledReturns` | **violated**, finding 1 |
| `select_stranded` | 2 channels, a select over both, a receiver, 2 senders | `ReceiverNotStranded` | **violated**, finding 2 |
| `store_restart` | 1 synced store, 1 mutation, 1 kill and 1 power failure | `OutcomeLegal` | **violated**, finding 3 |
| `scope_late_actor` | 1 scope, a child, an actor | `ActorsStopped` | **violated**, finding 4 |

Why these bounds. Two callers on each side are the least for which a wake-up can
go to the wrong one, a caller can barge in and a queue can have an order; one slot
makes every send meet a full ring, two slots make head and tail differ by wrapping
amounts. Two overlapping channels are the least for a lock cycle and for a wake-up
of a select by two channels at once. One initial slot lets the deque grow twice and
reuse indices within four pushes; two thieves race with each other and the owner.
Two scopes are the least for the recursion of a cancellation; with a second
ordinary child the scopes also pass (2 278 578 states). Two stores are what
atomicity across stores needs; the second fault hits the recovery from the first. For
another task's save one store and one saver suffice to meet every step of the client;
two rows (3 226 295 states), two savers (2 053 093), a synced and a relaxed store
under power failures (1 028 238) and two stores under kills (1 605 871) pass as well.
Two tasks are what a load-modify-write race needs, and four rows overfill the
buffer of three. In `Library` the small-string limit and the growth floor are 2, so that
every threshold is crossed in 4 operations. A map starts with 4 buckets and grows to
8; of the four keys two collide in both sizes, in the last bucket, whose walk wraps
around to the home of the third, and the fourth joins them in the smaller one
only. After a removal that cut a sequence two more operations are looked at.

Deadlock is not checked, because in every instance the program may legally stop:
everybody parked on an open channel (sharp edge 3 of `docs/concurrency.md`),
clients with a bounded number of operations, a body that was compiled. What must
not stop is stated: `NoStranded`, `JoinsReturn` in `JoinExact`, `SupervisorSettles`,
the latch half of `WaitersServed` and the liveness properties.

Fairness. Weak fairness of each caller's next step: a runnable coroutine is in a
run queue and the workers keep taking work (a worker that missed a signal comes
back after 100 microseconds); a spin lock is held for a bounded time. Weak fairness
of a begun close, a begun cancellation and the join loop, which are loops of a
running thread. Nothing is assumed of closing, cancelling, killing or of new
operations. In `Store` and `Statements` the process goes on with what it has begun.
Spin locks are not fair in the code. In `Channel` weak fairness suffices all the
same, because the lock is held across steps only by a caller that registers as a
waiter, and with finitely many sends that happens finitely often. In `Select` a
thread (`*main`) polls for ever, and its lock and unlock steps could always come
first: there `LockNext` and the scope's `CancelWake` are strongly fair. The code
justifies this by the back-off, 128 pauses without any lock between two polls,
while a waiter tries after every single pause. Without it, `LockingEnds` fails by
starvation, which is a fact about test-and-set locks and not a lock cycle.

## 4. Findings

1. *A cancelled child of a scope joined by a coroutine may stay parked*
   (`channel_coro_join`). `channel.c` checks for cancellation under the lock and then
   publishes `wait_chan`. A cancellation between the two sees no channel; the join of
   a coroutine repeats its wake-ups once, then parks. When `*main` joins, the
   repetition closes the window (`channel`). The documentation (C1 of
   `docs/concurrency.md`) says that the second check suffices.
2. *A select may swallow the wake-up of a receiver* (`select_stranded`). It was woken
   for channel 1, polls again, fires channel 2 and returns; the value of channel 1
   stays in the buffer, and a receiver parked behind the select stays parked until
   the next send on channel 1.
3. *Recovery may retire the log of rows that are not durable* (`store_restart`). When
   the replay changes nothing, `jinn_store_recover` neither rewrites nor syncs the
   data file but truncates the log. After kill, reopen and power failure an
   acknowledged row of a store synced per record is lost. `jinn_store_save` has the
   sync.
4. *An actor spawned by a child while its scope is being joined is never stopped*
   (`scope_late_actor`). L4 of `docs/concurrency.md` says that a scope stops its
   actors and then joins. The list of actors is walked once, at the end of the body
   (`scope.c` 225); a child that still runs may add an actor after that (`scope.c`
   145), which then waits for messages for ever, and so does the join.

Observed while modelling, outside of what a run states: a `join` of a vector of
one string gives the string two owners (`src/codegen/vec/ordering.rs` 332-392);
removing a map entry clears only its occupied byte, so a probe can stop early
(`src/codegen/map.rs` 365-394): from then on `MapAgrees` claims only that walks end
and that `len` counts the entries; `replace` and
`split` with an empty pattern do not advance; overwriting a cell of a vector or a
map does not free what it held; a labelled `break` or `continue` out of a loop with a
transaction between skips the commit (`docs/jinn.md`:1470), and an error inside
`together` propagates without a rollback (`docs/jinn.md`:1471); `compact` takes no
lock, key-value operations take no gate, `@unique` is not checked by `set` and
`restore`; a supervised child retires its mailbox twice (`sup.c` 106 and
`actors.rs` 326), and a `one_for_all` restart counts its own cascade
(`sup.c` 123); a migration is run again after a crash before its log record
(`migrate.c` 111).

Also: supervised children are spawned by a factory that does not register their
mailboxes as live (only `compile_spawn_with_init_vals` does, `actors.rs` 505), so
`jinn_actor_stop_all` neither closes nor drains them, where `docs/concurrency.md`:65
and :389 speak of every live daemon mailbox; a `save` by another task between
`jinn_wal_write` (`insert.rs` 229) and the write and sync of the data file, or inside
another task's transaction, followed by a power failure, loses an acknowledged row of a
synced store (`lifecycle.rs` 246-255, `wal.c` 316-327; `docs/jinn.md`:1381 says what
`save` does and nothing of other tasks); the scope "." of a `needs` admits every
absolute path and no relative one, ".." also what is above it (`caps.rs` 89-102), and a
file opened "r+" or "w+" is declared as written only (`cap_sites.rs` 431-444).

The move checker accepts five kinds of body that use or free a value wrongly: a
parameter that is pushed is not marked as moved and can be used or pushed again
(`typer/lower/block.rs` 1274); nor is a variable assigned to a field (`block.rs`
949-985); a field may be taken out of a borrow (`typer/stmt/dispatch.rs` 516-533); a
string bind demoted to an alias of a field is not dropped and does not keep its owner
from being replaced or given away (`escape/mod.rs` 98-108); and a plain bind of a borrow
is not seen to overlap what it borrows (`dispatch.rs` 516-523).

## 5. Proofs

Eight modules, all for arbitrary values of the constants:

| Theorem | Statement |
| --- | --- |
| `ChannelProofs.Invariance` | `Spec => []IInv` |
| `ChannelProofs.TypeCorrect`, `RingCorrect`, `ParkingCorrect`, `WakeupsSuffice`, `CloseCorrect` | `Spec => []TypeOK`, `[]RingHoldsPending`, `[]ParkedInOnePlace`, `[]NoStranded`, `[]ClosedFreesAll` |
| `ChannelProofs.ChannelIsFifo` | `Spec => ImplementsFifo`, the refinement of `BoundedFifo` |
| `SelectProofs.SelectTypeOK`, `SelectNoDangling`, `SelectOneWaker` | `Spec => []TypeOK`, `[]NoDanglingNode`, `[]OneWaker` |
| `PrimitivesProofs.DequeTypeOK`, `DequeKeepsEach`, `DequeStealsTop` | `DequeSpec => []TypeOK`, `[]EachInOnePlace`, `[]StealsWhatIsAtTop` |
| `PrimitivesProofs.WaitersAreServed` | `WaitingSpec => []WaitersServed` |
| `PrimitivesProofs.MapsAnswer` | `MapSpec => []MapAgrees` |
| `ScopeProofs.ScopeTypeOK`, `ScopeJoinExact`, `ScopeCancelReaches` | types, `ScopeSpec => []JoinExact`, `[]CancelReaches` |
| `ActorsProofs.SupervisorKeepsChildren` | `SupSpec => [](OneServer /\ AllServed)` |
| `ActorsProofs.SupervisorSettled` | `SupSpec => [](strategy # "rest_for_one" => SupervisorSettles)` |
| `ActorsProofs.ActorSettlesPayloads` | `ActorSpec => []PayloadsSettled` |
| `StoreProofs.StoreTypeOK`, `StoreUndoIsDurable` | `Spec => []TypeOK`, `[]UndoIsDurable`, under every fault |
| `StoreProofs.StoreOutcomeLegal` | `Spec => []OutcomeLegal` if power does not fail |
| `StatementsProofs.StatementsInvariant` | `Spec => []SInv`, the inductive invariant |
| `StatementsProofs.StatementsAreWhole` | `Spec => WholeStatements`, the refinement of `Table` |
| `StatementsProofs.StatementsSidecars`, `StatementsCascade` | `Spec => []SidecarsAgree`, `[]CascadeReaches` |
| `CapabilitiesProofs.CapabilitiesInvariant` | `CapabilitiesSpec => []CapInv`, the inductive invariant |
| `CapabilitiesProofs.NeedsBoundEffects` | `CapabilitiesSpec => []NeedsHold` |

Assumptions. `ChannelAssumption`: finite disjoint sets of senders and receivers,
positive capacity, scoped callers are coroutines. `SelectAssumption`: a finite set
of channels with an order (their addresses), positive capacity, cases on these
channels. `DequeAssumption`: finitely many coroutines, a positive first capacity,
a null that is no coroutine. `WaitingAssumption` and `ScopeAssumption`: names that
differ; scopes are numbered from 1 and finitely many. `MapAssumption`: the first
capacity is at least 4 (16 in `compile_map_new`), hashes are natural numbers (the code's
are unsigned 64-bit words; the capacity is a power of two, so the mask is the remainder). `SupervisorAssumption`: the
children are numbered `1..n`, no worker is called "main" or "free". `ActorAssumption`: a
handler is a sequence of parameter types. `StoreAssumption` and
`NoJournal`: names that differ, natural bounds; "no journal" is not a journal.
`StatementsAssumption`: keys and values are numbers, no task is called "no task", a
declaration offers only the statements there are. The theorems about statements
have the hypothesis `CompactsUndisturbed`: either nobody uses a store while it is
compacted, or no store is compacted at all, because `emit_store_compact` takes no
lock and a compaction can really lose a concurrent insert (listed as a hazard). For
`StatementsSidecars`, `HashesApart` adds that different keys have different hashes:
a lookup compares only the 64-bit hashes. `CapabilitiesAssumption`: programs are as the
earlier passes leave them (names of stores, actors, types, globals and blocks are
resolved; called functions need not be), "/" and "*" are no segments of a path, and
nobody declares `indirect-call`, which `parse_annot` does not know. There is no
assumption on the declared scopes: what `NeedsHold` claims of a scope depends on the scope
(`NamesPlace`, below).
The bounds (`MaxIndex`, `MaxOps`, `MaxPuts`, `MaxDepth`...) are arbitrary naturals.

Each inductive invariant was an invariant of a TLC run before it was proved:
`Select` 1.15 million states, `Deque` 5.3 million (3 items, 2 thieves), `Waiting`
4 796, `HashMap` (its property, 66 662 states), `Store` 1 944 995 (2 stores, a kill, another task
that saves), 173 258 (1 store, 2 kills, another task that saves)
and 147 641 (types and undo images, a kill or power failures as well), `Scope` 51 299 (2 scopes, an actor) and 1 799 305
(3 scopes, 2 children), `Supervisor` 120 434 (2 children, 2 workers, 3 restarts, 2
stops, all strategies), `Actor` 108 129 (3 handlers, 3 sends, 2 senders),
`Capabilities` (its property, 225 198 states),
`Statements` 432 601 (a unique store, also with restore, compact and rekey, 4
statements) and 177 391 (versioned, cascading and compacting stores, 3 statements).

### Channel

`TypeOK` is not inductive alone: that a receive copies out a value and no empty slot
needs `RingHoldsPending`, which in turn rests on two counters less than the capacity
apart addressing different slots (`SlotsDiffer`). `ParkedInOnePlace` needs `QueueInv`
(queues without repetition, disjoint from the run queue) and `LockInv` (who registers
holds the lock): while the lock is free, everybody queued has left its stack, so a
waker enqueues only such coroutines. `NoStranded` counts: a parked receiver means
that there are at most as many pending values as receivers on their way. A send adds
one value and wakes one receiver; a receiver that takes a value is no longer on its
way, but the value is gone too; a receiver that gives up on an empty ring does so
under the lock (`LockInv`: the ring is still empty when it is queued). The senders'
half is the mirror image with free slots. `CancelInv` says whom the scope wakes: only
cancelled coroutines, for which the count is not claimed. For close, `CloseInv` adds
that after the flag was stored nobody new begins to register, so that one pass under
the lock empties the queues for good. For the refinement the queue is read off the
ring (`QueueIsPending`): it equals the part of `sent` after `head`, to which a send
appends and from which a receive drops the first.

### Select

A node belongs to a case of its select, on a channel of that case, while the select
is between `swap` and `relock`, that is while its stack frame is alive (`SelectInv`);
unlinking holds all locks and removes every node, which is why nothing dangles.
A select that has not left its stack holds all the locks of its channels, and every
waker needs one of them to find a node, so its claim cannot be taken too early; one
that has left is claimed exactly if it is in the run queue (`ClaimInv`). The wakers'
search through a queue, which skips claimed nodes, is treated by lemmas on the
positions of a queue (`NthFacts` and those after it).

### Deque

The live window `top..Hi - 1` fits the published buffer (`WindowInv`); the owner's
old copy of `top` only overestimates how full the buffer is, so it never overwrites a
live slot (`OwnerInv`). A thief that will succeed has a copy of `top` that is still
right, and at that index every buffer it may have read agrees with the published
one, because growing copies the window and nobody writes to an index that is live
(`ThiefInv`). The last element, which owner and thief both want, goes to the winner of
the compare-and-swap (`PlaceInv` by cases).

### Waiting

A client that holds something, or is between its entry and its leave, owns the gate,
and the depth counts what it holds (`GateInv`); the depth of a store's lock is the
number of times its path occurs in what the owner keeps (`SlotInv`). With both, the
early return of `wunlock` for a slot of another owner, which would leave the gate
closed, is unreachable. For the latch: there is one, whoever made it, and a joiner
is in its queue from its second look at the flag until the signal takes it.

### HashMap

The walk from a hash visits different buckets at different steps and every bucket in
one round (`WalksApart`, `WalkGoesRound`, from remainders: `RemainderIs`, `SumsApart`).
The invariant (`MapInv`) has for a table its form (`Shape`), that `len` is the number
of occupied buckets (`Counted`) and, until a sequence is cut, that all buckets between
the home of a key and its bucket are occupied (`Linked`) and that keys, buckets and
dictionary correspond one to one (`Stands`). An insertion happens at a load below 3/4
of at least four buckets, so a free bucket is left after it, and every walk ends. While
a table is rehashed (`GrowInv`) the new one holds exactly the entries of the buckets
passed; it has twice as many buckets as entries to come, so the inner loop ends too. A
key that is in the table is found because its walk meets no free bucket before it
(`ProbeFinds`); one that is not meets no equal key at all (`ProbeMisses`). A removal keeps
`Linked` only if the bucket is on nobody's path, which is what `broken` records.

### Scope

The scopes a task has opened are an interval of depths, from the one it was started
in (`Chains`). A scope's `live_children` is the number of tasks started in it that have
not passed `child_done` (`Counts`); the join passes only when that is 0, and the last
child still holds the lock, which the join takes once more before it unlinks and
frees: hence no child touches a freed scope. Every scope around an open one is open
(`Owners`), locks are held exactly by who is releasing, swapping or inside a nested
cancellation (`Locks`), and the calls of a cancellation are a chain of linked scopes
(`Calls`). The parked parent is woken once, by the last child (`Parents`). `JoinsReturn`
follows by taking the innermost scope that is being joined, the greatest of a finite
set: somebody is counted in it, who does not move and has opened no scope himself,
so he waits. For `CancelReaches`, `Reached` says of a cancelled scope that what was
not reached yet is going to be: by a call that has set the flag and waits for the
lock, by a call on its way down, or by the task that opened the inner scope and is
about to inherit. A child registered meanwhile reads the flag under the same lock.

### Supervisor

`OneServer` needs to know who writes a slot. A coroutine that has not exited is named
by the slot of its child, and a slot names a coroutine of its child that has not
exited (`Slots`): `sup_on_child_exit` clears the slot of the one that exits, and
`jinn_sup_spawn_one` fills only a cleared one. So the unlocked read of
`sup_child_entry` finds the mailbox spawned with it, however late it comes: nobody
replaces that mailbox before the coroutine has left its loop. Who restarts a child
holds the lock, and `*main` holds it while it starts them (`Workforce`, `Starting`);
hence at most one slot is empty because of a restart under way, and at rest none is,
unless the restarts are used up. A coroutine that is parked and not runnable waits on
an open mailbox (`Waits`), which gives `AllServed`. For the price, every stop counts
for one mailbox that is closed and whose coroutine has not exited (`Doomed`), or for
one restart, or for the pointer that `*main` has read and not used yet (`Paid`): under
one_for_one nothing else closes a mailbox before the end of the program. The bound of
rest_for_one is a power of two; the provers know nothing of exponentiation, and that
part of `SupervisorSettles` is left to TLC. For one_for_all the property states no
bound.

### Actor

`DroppedOnce` speaks of sets of values in the ring, in the handler and in the state.
It is preserved only because these places are apart and hold values that exist
(`Places`): otherwise a drop in one place would drop a value of another. That a
message owns exactly the arguments it was sent with is a fact about offsets
(`PackFacts`): parameters that own memory start at different words (`OffsetFacts`
counts the owning parameters before them), all within the payload, so the handler and
`__message_drop` find each argument where the send put it, for any parameter lists.
The values of a new message are new because their number is greater than that of every
message before. For the order, `Flow` says that what was accepted is what was handled,
then the message in hand, then the ring, position by position, until the program ends;
then the rest was dropped or stays in an undrained mailbox. An actor leaves its loop
only when it was cancelled, or found its mailbox closed and empty (`Through`), and a
closed mailbox accepts nothing. `Phases` ties the latch and the state to the place of
the coroutine. The greatest element that `Pack` and `PayloadSize` take exists by
well-foundedness of the naturals (`Greatest`).

### Store

`TInv`: every undo image taken by the running transaction is in the durable journal,
at every step of snapshot, commit, rollback and recovery; this gives `UndoIsDurable`
whatever faults occur. `OutcomeLegal` compares what a reader sees when the process is
idle with a set of legal outcomes, and nothing of that is inductive. `OInv` says of
every state what a restart *would* find (`View`: restore the journal, then undo and
replay each log) and that it is legal; a kill then changes nothing but the program
counter. Around it: the journal covers every file of an open transaction (`Coverage`),
what is known at each step (`Phase`, `Restoring`), well-formed logs (`Logs`), and the
agreement of cached data with the replay of its log (`Agreement`).

Saves of other tasks break `Agreement` in one place: between the frame of a row and the
write of it to the data file, a truncation takes the row out of the view and the write
brings it in again. So both the contents before and after the row are shown to be legal
outcomes from the frame on (`EitherLegal`), and a truncation never comes between the
rewrite of a recovery and its sync (`SavesApart`). In a transaction the journal restores
the log with the data, whatever was truncated. The hypothesis that
power does not fail is needed: with kill and power failure together the statement is
false (finding 3). Power failures alone, and both with unsynced stores, are
model-checked (`store`): their proof would need the same invariant for every mixture
of old and new rows that a failure may leave.

### Statements

Where a task is in its statement determines whether it owns the gate (`GateHeld`):
the programs are written out (`Program`), and of each step it is known which can
follow (`Follows`, `Turns`), so that a step outside `Critical` never precedes one
inside without `store_lock`. `Fresh` says that who is about to write back has in its
buffer what the file holds. It is preserved because every step that changes the file
is taken by the owner of the gate, or by a compaction, beside which nobody runs
(`Solo`). Each write is then the statement of `Table` applied to the file as it is,
and every other step is a stutter (`StepRefines`). That the rows a rewrite or a
compaction keeps come out complete and in order is a fact about positions: an element
is found by its rank among the chosen ones (`Ranks`, `PickedFacts`).

For the index, `Indexed` describes an open index that nothing has made stale: its
entries are in the order of the file, each has the hash of the row it points to, every
live row has one, except the row an insert has appended and not indexed yet
(`Pending`), and no entry of a tombstone hides a live row with the same key. The last
part is what makes the first hit of a lookup the right one. It holds because an insert
asks the index first (`Checked`) and refuses a key that has an entry, dead or alive:
after a delete the key is free again only once the index was rebuilt. `Covered` says the
same without positions and survives a compaction, which is why no two live rows share a
key even when the index is stale. For the version log, `Versions` identifies the sid of
a row with its position, which only a removal of rows breaks. For cascades, `Reached`:
a delete at its last unlock has been at the children with the sids it noted, and
children inserted since then are late.

### Capabilities

The inductive invariant has two halves. While rows are spread (`Spreading`), a function's
row has what the scan found in its body, and contains the row of each function it calls
*unless that function still waits on the work list*. A turn takes a function off the list
and joins its row to its callers', and whichever caller grew goes back on the list,
because its own callers may now lack something; so when the list is empty every row
contains the rows of all it calls. Of a running program (`Running`), every operation still to
be done is paid for (`Charged`): its own capabilities, and those of all it may unfold into
(the rows deleted with a row, the fields dropped with a value, the code of a block, the
initialiser a read of a global stands for), are in the row of the function that was
entered, and so are the rows of the functions it calls. An operation that is done
replaces itself by operations that are charged for: this is where the work lists of the
scan matter (`Closure...`, `BodyReach`, `DeleteCharged`, `DropCharged`). A program with
a call through a function value is not accepted in an annotated function (`NoIndirect`).

What the theorem claims of an effect is `Covered`: its class is declared, where reading
through a file opened to be updated counts as writing it (`CountsAs`), and if the declared
scope is absolute, or relative and leads below the working directory (`NamesPlace`), the
effect is at the scope's place or below. Of ".", ".." and what normalises to them only the
class is claimed, because there `path_within` lets the wrong places through.

What an operation does to a file happens at a place, whereas capabilities are compared as
texts. `WithinLeadsBelow` bridges them: a path that is textually within a scope leads to a
place at the scope's or below it. Normalising a path does not change where it leads
(`NormalLeadsThere`); the text of a normal path determines its segments (`TextOf`,
`SameText`, `LongerText`: a prefix that ends in "/" is a prefix of whole segments, so "log"
does not cover "log2"); and since a normal path has its ".." in front, what follows the last
segment of a scope that ends in a name only goes down (`WalkDown`). The path operators are
recursive functions on a finite interval; the inductions over them are done by least
counterexamples (`LeastCounterexample`, `Recursion`).

### Only model-checked

- All liveness: `EveryValueDelivered`, `EverySendReturns`, `CancelledReturns`,
  `LockingEnds`, `CancelledSelectReturns`, `RecoveryEnds`, `StatementEnds`. Fairness is
  outside the prover's reach.
- What is computed by RECURSIVE operators or folds: the compiler modules but
  `Capabilities`, `Values` and `Library`, `Arithmetic`, and the queries of `Statements`
  (`ReadsRight`). The prover takes no module with a RECURSIVE operator, and trees have
  no least counterexample the way the intervals of `Capabilities` have.
- The bound on restarts under rest_for_one, and `OutcomeLegal` under power failures.

## 6. Not modelled and known gaps

- Reference counts and drop hooks of channels, stack pools, memory reclamation.
- Failing system calls in the middle of persistence: the code ends the process
  (`jinn_persistence_fail`), which is `Kill` at that step.
- Byte formats, checksums, tombstones, header counts; sidecar participants of
  transactions; key-value, column, vector, full-text and bloom files; schema
  migration. After a kill between the unlink of the journal and the sync of the
  directory the durable journal is stale until the next snapshot.
- Weak memory behaviours beyond the fences mentioned in section 2.
- Event loop and timers, assembly context switch, system interface, lexer and
  statement parser, LLVM emission, compile-time evaluation, language server, standard
  library: I/O, sequential helpers or generated code. Idle workers and the injection
  queue of the scheduler: a missed wake-up costs a timed wait of 100 microseconds.
- `Library`: empty separators and the one-element `join`; `HashMap`: lookups after a
  removal that cut a probe sequence (section 4).
- `Ownership`: one aggregate type; bodies that fall into one of the five gaps are followed
  up to the first wrong use of what the gap let loose; leaks are not looked for. `Drops` takes
  well-owned inputs whose loops contain a poll.
- `Lowering`: stores, strings, range and tuple patterns and closures are opaque calls;
  the resume and the end test of a generator loop are one call.
- `Capabilities`: symbolic links and changes of the working directory; the place of an effect
  under the scopes "." and "..".
- `Infer`: trait return types, special methods of maps and coroutines, defaults of
  quantified variables; mismatches that `unify_at` only records.
- `Names`: the expressions that the renaming does not visit (`resolve.rs` 492-536, 677)
  and a local spelled like a mangled name are excluded.
- `Packages`: dependencies of a pinned package are neither fetched nor checked
  (`cache.rs` 185-198), a half-finished clone is accepted after a crash (`cache.rs`
  117-133), the lock is not written atomically (`packages.rs` 43); network and git are
  external.
- `Grammar`: expressions only; the trees the formatter cannot print back are listed in
  the module.

## 7. Plan

Done: the concurrent runtime (channel, select, deque, scope, actor, supervisor, gate
and latch), the store with crashes and its statements, the compiler from the move
checker to drop insertion, the front end's fixed points; safety proofs of channel,
select, deque, gate and latch, hash map, scope, supervisor, actor, the store under
kills, the statements of concurrent tasks, and the capability pass.

Next theorems: `OutcomeLegal` of relaxed stores under power failures (the invariant over the images
a failure may leave). Next models: update and delete frames with sidecar participants, migration with
its log, the scheduler's idle protocol.
