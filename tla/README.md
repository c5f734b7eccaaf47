# A TLA+ model of the fiber library

The repository is a C++ library of user-level threads (fibers).  Every OS
thread has a cooperative scheduler; mutexes, condition variables, queues and
futures block fibers, or the main context of a thread, instead of the thread.
This directory holds TLA+ modules translated from the code, TLC configurations
that check them on small instances, and TLAPS proofs for every instance.

## Parts of the system

| Part | Source | State | Operations |
| --- | --- | --- | --- |
| waiting queue | `detail/waiting_queue.hpp` | `head_`, `tail_`, links in the fibers | `push`, `move_to_run`, `move_to`, `top` |
| fiber manager | `fiber_manager.{hpp,cpp}` | `wqueue_`, `active_fiber_`, `wait_interval_` | `spawn`, `run`, `wait`, `wait_until`, `yield`, `join`, `migrate` |
| round robin | `round_robin.{hpp,cpp}`, `detail/fifo.hpp` | `rqueue_` | `awakened`, `pick_next`, `priority` |
| worker fiber | `detail/worker_fiber.{hpp,cpp}`, `detail/trampoline.hpp`, `detail/setup.hpp` | `state_`, `flags_`, `tp_`, `waiting_`, `except_`, `fss_data_` | `set_ready`, `set_waiting`, `set_running`, `set_terminated`, `release`, `join`, `request_interruption`, `set_fss_data` |
| fiber object | `fiber.{hpp,cpp}` | `impl_` | constructors, `join`, `detach`, `interrupt`, move |
| `this_fiber` and interruption | `operations.hpp`, `interruption.{hpp,cpp}` | flags of the fiber | `yield`, `sleep_until`, `interruption_point`, `disable_interruption`, `restore_interruption`, `migrate` |
| main fiber | `detail/main_fiber.hpp` | `ready_` | `set_ready`, `is_ready` |
| spinlock | `detail/spinlock.{hpp,cpp}` | `state_` | `lock`, `unlock` |
| mutexes | `mutex`, `timed_mutex`, `recursive_mutex`, `recursive_timed_mutex` | `state_`, `owner_`, `count_`, `waiting_` | `lock`, `try_lock`, `try_lock_until`, `unlock` |
| condition, barrier | `condition.{hpp,cpp}`, `barrier.{hpp,cpp}` | `waiting_`; `current_`, `cycle_` | `wait`, `wait_until`, `notify_one`, `notify_all`; `wait` |
| queues | `bounded_queue.hpp`, `unbounded_queue.hpp` | node chain, `state_`, `count_` | `push`, `push_wait_until`, `try_push`, `pop`, `pop_wait_until`, `try_pop`, `close` |
| futures | `future/*.hpp` | shared state: `ready_`, `value_`, `except_`, `use_count_`; `obtained_` | `set_value`, `set_exception`, `get`, `wait`, `wait_until`, `reset`, moves, destructors |
| fiber-specific storage | `fss.hpp`, `detail/fss.hpp` | `fss_data_` of each fiber | `get`, `release`, `reset` |

A fiber blocks by putting itself into the `waiting_` deque of the object it
waits for and suspending; who notifies it calls `set_ready()`, which moves it
to the head of the waiting queue of its thread's manager.  The manager's
`run()`, called in the thread's main context, takes the ready prefix of the
waiting queue into the ready queue and resumes its head; `suspend()` returns to
`run()`.  Barriers, queues and futures are written over a mutex and a condition.

## Modules

| Module | Models |
| --- | --- |
| `WaitingQueue` | `push`, `move_to_run`, `move_to` and `fetch_ready` as operators on the sequence of queued fibers |
| `FiberManager` | one thread: manager, round robin, worker fibers, fiber objects, `this_fiber`, interruption |
| `WaitingQueueProofs` | lemmas on these operators |
| `FiberManagerProofs` | where fibers are, who joins whom, what refers to a fiber, when sleepers return, which assertions fail, what the scan finds |
| `LinkedQueue` | the waiting queue by its links, `head_` and `tail_`, with calls from other threads |
| `LinkedQueueProofs` | that the links denote the sequence `WaitingQueue` computes |
| `Mutex` | `mutex` with its spinlock and the notifiers of main contexts, used by several threads |
| `ExclusiveLock` | what a mutex promises |
| `MutexKinds` | the four mutexes, as what the other three add to `Mutex` |
| `MutexProofs` | one owner, that `Mutex` and every kind implement `ExclusiveLock`, who is in `waiting_`, what fails, and no lost wakeup |
| `Condition` | `condition`, over an exclusive lock |
| `ConditionProofs` | the invariant of a condition, kept by its own steps and by each kind of step of a client |
| `Barrier` | `barrier` over `Condition`, and any other client of a condition |
| `BarrierProofs` | the theorems on the condition, for the barrier and any other client, and those on the barrier |
| `Queue` | `bounded_queue` and `unbounded_queue` over `Condition` |
| `Fifo` | what a queue promises |
| `QueueProofs` | that a queue implements `Fifo`, and that nobody sleeps in it beside what it waits for |
| `Future` | shared state, promise, packaged task, `async`, future and shared future over `Condition` |
| `OneShot` | what a shared state promises |
| `FutureProofs` | that `Future` implements `OneShot`, who can still make a state ready, that a state is freed in peace and has one future |
| `MCFiberManager`, `MCLinkedQueue`, `MCMutexKinds`, `MCBarrier`, `MCQueue`, `MCFuture` | the instances TLC checks |

A `BOOST_ASSERT` that fails, or undefined behaviour such as `erase( end())`,
ends the program: in every module `failed` holds its name, and no action is
enabled afterwards.

Where one component has variants (kinds of mutex, `R`, `R &` and `void`, bounded
and unbounded) the variable `mode` or `party` holds the variant and the way it is
used.  It is chosen in the initial state and never changes, so that one run
covers all of them.  Small definitions such as `TimedKind` or `PromiseVoid`
name the variant's own copy of the code.

### FiberManager

`state`, `tp`, `flags`, `except`, `waiting` are the members of `worker_fiber`
of the same names; `handle` is the set of fibers a `fiber` object refers to;
`wqueue`, `rqueue` and `active` are the manager's queues and active fiber; `at`,
`target` and `until` say which call each context is in, and with which
argument.  A fiber that was not created is `NEW`, a deallocated one `FREED`.

The code runs on one thread and switches contexts only in `suspend()` and
`resume()`, so an action is what one context executes up to its next switch:
`Yield`, `SleepUntil` and `Join` end in `suspend()`; `SleepReturns` and
`JoinReturns` are the rest of these calls after the fiber was resumed; `Return`
and `Unwind` are the end of the trampoline; `MainRun` is one call of `run()`
from the main context, up to the switch to a fiber.  `Spawn`, `Interrupt` and
`Detach` return to the caller.  The client is arbitrary: any fiber or the main
context makes any call whose preconditions hold.  Its constants `Call`,
`Joiner` and `Interrupted` restrict which optional calls a run considers.

### LinkedQueue

`L` is the record of the links: `head`, `tail`, `next`, `prev`, and the fibers
whose `head()` is set.  The sequence `q` is changed beside it by the operators
of `WaitingQueue`, at the point where each call returns, so `LinksDenoteQueue`
says that the pointer code implements them.  The owner of the queue calls
`push()`, `move_to()` and `set_ready()`; a thread in `Remote` calls `set_ready()`,
since that function uses the manager of the calling thread but the links of the
fiber's queue.  The assertions and null pointers of the three functions are
modelled (`Fault`).  A step is one test with the stores it guards, or one turn of a
loop, so the steps of two threads interleave within a call.

### Mutex and MutexKinds

What a context does while it holds `splk_` is one step (`LockBody`, `TryBody`,
`UnlockBody`), the rest of each call are others: `Acquire` and `Spin` are the
spinlock, `Park` is what `wait()` does after it released the spinlock, `Notify`
is the `set_ready()` at the end of `unlock()`.  So another thread may notify a
fiber before it suspends.  `at` is where each context is.  A thread stands for
its main context, whose calls wait in a loop around `run()` (`MainWakes`,
`Resume`).  The scheduler is what `FiberManager` shows of it: a fiber that is
`READY` and not active is resumed later.  `Caller` and `Interruptible` choose
which contexts use the mutex and which fibers are interrupted in `lock()`.

`MutexKinds` extends it.  `count` is `count_`; `mine` is how often each context
was told that it has the mutex and has not unlocked it, which the code does not
store and the properties compare with `state_`, `owner_` and `count_`.  `until`
are the contexts inside `try_lock_until()`, `late` those whose deadline has
passed; `Pass` may happen at any point of the call.  `LockSection`, `TrySection`
and `UnlockSection` are the sections with `splk_` held of the four classes,
`Erase` the removal from `waiting_` after a timeout, which is undefined when
`unlock()` took the entry out before.

### Condition and Barrier

`waiting` is `waiting_` of each condition, `holder` the holder of each mutex that
is passed to it, `cv` where in `wait()` or `wait_until()` a context is, `why` what
has reached it there (a notification, its deadline, an interrupt), `pend` the
waiters that a notifier has taken out of `waiting_` and has yet to make ready.
What is done with `splk_` held is one step, and so is entering `waiting_` together
with the release of the mutex, since the spinlock is held across both.  The
mutex is the exclusive lock that the mutexes are shown to implement.

`Barrier` adds `current_`, `cycle_` and the local `cycle` of each call (`saw`).
`turn`, `came` and `left` are history: how often the barrier tripped, in which
turn a context came, and how many an interrupt took out of the present turn.
With `party` empty the contexts use the condition in any other way instead
(`ClientStep`).

### Queue

`head`, `tail`, `va`, `next` and `nodes` are the list, `count` and `open` are
`count_` and `state_`.  A step is what a call does between two points where
another context can see a difference: the acquisition of a mutex, a test of the
other end of the list, a write, a notification.  Users in one thread interleave
only where they suspend (`Turn`).  The code of `bounded_queue::pop()` waits when
the queue is closed instead of open, and its assertion fails on an open, empty
queue; `Look` does the same.  `got` is what a pop stored in the caller's variable: nothing
when `va` is not a reference (`ByReference`).  `Fifo` is a sequence with `Put` and
`Take`; `delivers`, which never changes, says whether `Take` gives the value to
the caller; the refinement maps it to the values from `head_` to `tail_`.

### Future

`ready`, `value` and `except` are the members of the shared states, `made` how
many exist; `ptr` and `obtained` are the members of promises and tasks, `fut` the
pointer of each future.  `op`, `at`, `obj`, `st` and `arg` say what call a context
is in; `st` with `obj` = `None` is a reference that the call itself holds, as in
`get()`, which moves `state_` into a local, or in a destructor.  `use_count_` is
not stored: `FreedQuiet` counts the references instead.  `Assign`,
`OwnerDestroyed`, `Ask` and `Loop` are the functions of `shared_state` with its
mutex held; the other actions are the operations on promises, tasks and futures.
Objects are used as the library's rules allow: any number of contexts may call
`set_value()` or wait through one object, and none moves or destroys it meanwhile
(`Unused`).

## Runs

| Run | Expect | Shows |
| --- | --- | --- |
| `live` | pass | three fibers that sleep, join each other and are detached: the scan of `move_to()` finds every ready fiber, joiners are known, nothing dangles; ready fibers run, sleepers wake, joins complete |
| `interrupt` | pass | suspended fibers are interrupted, in `join()` too, with interruption enabled and disabled: only the assertion of `join()` fails, each fiber is in one place, the queue stays in order, and sleepers return early only if they disabled interruption |
| `delivery` | violation | a fiber interrupted before it sleeps or joins is not found by the scan of `move_to()` and may never throw; one interrupted in `join()` meets its assertion instead |
| `links` | pass | in one thread the links denote the sequence of `WaitingQueue` |
| `kinds` | pass | all four mutexes, main contexts, deadlines and interrupts: one owner at a time, the abstract lock is implemented, what fails is confined to deadlines, interrupts and main contexts, and a free mutex that fibers wait for is taken; the `mutex` among them takes the steps of `Mutex` |
| `timed_lost` | violation | a notified fiber whose deadline has passed returns false and notifies nobody; the next one sleeps beside a free mutex |
| `barrier` | pass | a barrier of 1, 2 or 3, or another client of a condition: nobody returns early or is left behind, notifications are kept, `erase()` is undefined only when two wakeups race |
| `barrier_aba` | violation | a third context of a barrier of two finds `cycle_` turned twice and sleeps on in a turn that is complete |
| `queue` | pass | bounded and unbounded queues: first in, first out and bounded; in one thread nobody sleeps beside what it waits for, and what was pushed is popped |
| `queue_pop` | violation | what `doc/queue.qbk` says of `pop()` and the code does not do, see below |
| `future` | pass | one result per shared state, seen by all; nobody is left without an owner that can answer; the last reference goes when nobody is inside; every call returns |
| `future_reset` | violation | `get()` after a `reset()` and a second run still rethrows the exception of the first run |

`delivery` and `queue_pop` stand for more than one defect, and TLC prints one
counterexample.  In `delivery` that is a fiber hidden from the scan; with
`Interrupted = {"join"}` only the other case is left, a fiber that `interrupt()`
resumes in `join()` and whose `BOOST_ASSERT( f->is_terminated() )` fails before the
interruption point behind it is reached (`OnlyJoinFails` in run `interrupt` says
that nothing else fails).  `PopDocumented` is a conjunction, and each part is
violated when it is checked alone:

- `PopWaits`: `bounded_queue::pop()` has its condition inverted, so it asserts on an
  open empty queue, which is what TLC prints, and sleeps on in a closed one.
- `PopDelivers`: `pop()`, `pop_wait_until()` and `try_pop()` of
  `unbounded_queue< T * >` take `va` by value, so the caller gets nothing.
- `PushesHeldBack`: producers are woken when `lwm_` values are left, the
  documentation says fewer than `lwm`.

### What the passing runs leave out

Some properties hold only for part of the uses the code admits.  Where the
property itself states the part (`OnlyJoinFails`, `KindsAsserts`, `WakeupsKept`,
`EraseNeedsRace`, `NobodyLeftBehind`, `NoEarlyReturn`, `ConsumersAwake`), the run
covers the rest as well.  Elsewhere the constants leave it out, and changing
them as said here shows the failure:

- `interrupt`: a fiber that has ended (`"done"` in `Interrupted`; `set_ready()`
  asserts that it has not) and the caller itself (`"self"`; it then runs in state
  `READY`, and its next `yield()` asserts).  `live` has no interrupts, because
  with them `ScanComplete` fails (see `delivery`).
- `SleepNotEarly` exempts a sleeper that disabled interruption: `interrupt()`
  wakes it, and `sleep_until()` returns early, although `doc/fiber.qbk` says that
  it does not.
- `ConsumersAwake` exempts `bounded_queue::pop()` in a closed queue, and like
  `Drains` says nothing once its assertion has failed (see `queue_pop`).
- `links`: with a thread in `Remote`, `LinksDenoteQueue` and `AwakenedFirst` fail,
  since `move_to_run()` changes the links of another thread's queue.
- `kinds`: with two main contexts among the users of a recursive mutex
  `OwnedByOne` fails, since both have the null id and the second one enters.
- `queue`: with `threads` and `tries` in a bounded queue `ImplementsFifo` fails, as
  `try_push()` appends with `head_mtx_` held and `push()` with `tail_mtx_`.  The
  properties about sleepers are for one thread; in several, a push may notify
  between the test of `is_empty_()` and the wait, and the wakeup is lost.
- `ImplementsOneShot` and `OneFuture` exempt tasks that are reset: `reset()` keeps
  the shared state (see `future_reset`).

Deadlock is not checked where the program may stop: after an assertion that
fails, or when no client is obliged to call again.

### Bounds

Two or three fibers are enough for a fiber to stand between the head of a queue
and another one, for two joins to be pending and for a chain of joins; the clock
runs to `MaxTime` = 1, and in `interrupt` to 2, so that a deadline passes and
another one does not and the main context can sleep too; `TPMax` is beyond it.
Only fibers join in `interrupt`, also the main context does in `live`.  `links`
has four fibers: one to move, one on each side of it, and the head.  `kinds` has two threads and three fibers, of which each mode
uses two or three, so that the holder, a waiter and a third context that waits
behind it or barges in exist, in the same thread and in different ones; `MaxCount` = 2 is one nested lock.  The barrier
trips three times (`MaxTurn`), which `barrier_aba` needs, and is shared by as many
contexts as its size, more, or fewer.  Three values (`MaxPush`) overfill queues
of one and of two.  `future` has two shared states in the modes where owners are
moved or swapped, two setters where they race, and two waiters, one of them
with a deadline and interrupted, where they wait together.

### Fairness

- `FiberManager`: fibers are cooperative, so the active fiber eventually
  suspends or returns (weak fairness of its steps); the main context enters the
  scheduler again and again (strong fairness of `MainRun`, since it may run
  client code in between) and leaves `join()` and `sleep_until()` when their
  condition holds; time passes.
- `MutexKinds`: a context inside a call goes on with it, and a fiber outside one
  yields or calls again (weak fairness of `GoesOn`); every ready fiber is resumed in
  turn, which `ReadyRuns` shows of the scheduler (strong fairness, since other
  fibers of its thread run meanwhile).  Nobody is obliged to call `lock()` or
  `unlock()`.
- `Barrier`: a context inside a call goes on with it, deadlines pass, who holds
  the mutex gives it up and it is granted in turn (strong fairness of `Relock` and
  `Arrive`); `Arrive` also says that the contexts of a barrier keep coming, which
  only `AllPass` needs.
- `Queue`: the same, and consumers keep calling `pop()`.
- `Future`: the same, and every promise and task is destroyed in the end, as C++
  objects are; nobody is obliged to set a value.

That a mutex is granted in turn is an assumption: its `waiting_` is first in,
first out, but a running context may take it before the one that was notified.

## Proofs

`WaitingQueueProofs` is about the operators: `Push`, `MoveToRun` and the split of
`move_to()` neither lose nor duplicate a fiber and keep the order, for queues of
any length.  With these lemmas `FiberManagerProofs` proves `TypeOK`, `Placement`, `QueueOrdered`,
`JoinersKnown` and `NoDangling` for every set of fibers, every clock bound and
every client, from the assumptions on the constants only.  None of them is
inductive alone: that release() wakes a fiber that is in a queue needs
`JoinersKnown`; that a joined fiber stays allocated needs that its handle is
neither detached nor joined twice (`HandleInv`, `JoinInv`).  `IInv` is their
conjunction.  One lemma per action shows that it is preserved.

Three more results rest on it.  `SleepNotEarly`
holds for every client, since a sleeper that was not interrupted is `WAITING`
with the time point of its call or that time has come (`SleepInv`).
`OnlyJoinFails` holds under `PoliteInterrupts` (nobody interrupts itself or a
fiber that has ended): then the active fiber is `RUNNING`, a fiber is
`TERMINATED` exactly when its function has ended, and a joiner that wakes early
was interrupted (`CalmInv`).  Without interrupts nothing fails at all
(`NothingFails`).  `ScanStopsRightly` says for every client that the scan of
`move_to()` stops at no fiber behind which one is ready or expired, as long as
no fiber waits in the queue with a request that did not make it ready, and
`ScanStopsRightlyQuiet` that it is complete without interrupts; that it is not
complete with them is run `delivery`.

`LinkedQueueProofs` proves, for any number of fibers and any sequence of calls,
that between two calls the links are those of the sequence `WaitingQueue`
computes (`LinksDenoteQueue`), that no assertion of `push()`, `move_to_run()` and
`move_to()` fails and no null pointer is followed, that no ready fiber is linked
behind another (`AwakenedFirst`) and that the order holds (`LinkedQueueOrdered`).
The invariant says at each step of a call how the links differ from those of
the sequence, and what the loop has passed.  The hypothesis is `Remote` = `{}`, as
in run `links`: only the thread that owns the queue calls.

`MutexProofs` proves `MutualExclusion` and `ImplementsLock` for every set of
threads and fibers and every client, interrupted fibers and main contexts
included.  They are about `Mutex` alone; `KindMutex` (`MutexSteps`) carries them over
to the `mutex` of `MutexKinds`, whose run checks that it takes no other steps.
`MutualExclusion` is inductive with `TypeOK`: only `Take` makes a
holder, and only when `state_` is `UNLOCKED`; only `UnlockBody` ends one.  The
refinement maps the holder to the context between the store of `LOCKED` and the
store of `UNLOCKED`.

Under `FibersOnly` (only fibers use the mutex and nobody interrupts them) it
proves `NoLostWakeup`, `NotifiesBlocked`, `AssertsHold` and `DestructorAsserts`.
Neither half can be dropped, which the conditions in `KindsAsserts` and
`WakeupsKept` mirror: a main context can enter `waiting_` twice, and the entry
that an interrupted fiber leaves there takes the notification of another one.
The inductive invariant `WakeupInv` adds that a fiber in `waiting_`, or taken from
it and not yet notified, is blocked with state `WAITING` and is there once
(`WaitersInv`), and that the active fiber is `RUNNING` unless it is about to
suspend (`RunningInv`).

The same module proves `OwnedByOne`, `OwnerAsserts` and `KindsImplementLock` for
the four mutexes under `OneMain` (a recursive mutex has at most one main context
among its users), whatever deadlines pass and whoever is interrupted.
`OwnedByOne` speaks of what callers were told, so the invariant `KindsInv` ties the
place of each context to it (`Fits`): a context that holds or unlocks has the
mutex, one that waits has not, and one that nests a call of a recursive mutex
has it already.  A step either moves a context without touching ownership, or
gets the mutex, or unlocks it once, and there is one lemma for each of the
three effects.  `WaitersCalling`, `KindsAsserts` and `WakeupsKept` follow from
`AloneInv`: among fibers that nobody interrupts, whoever is in `waiting_` or being
notified is blocked in its call or has just timed out of it, and what fails is
the `yield()` of `lk.lock()` or the `erase()` of a call that timed out after
`unlock()` had taken its entry.

`ConditionProofs` has no theorem of its own, since a condition has no behaviour
without a client.  Its invariant `CondInv` says in which stage of a wait a context
may be in `waiting_`, in `pend` or notified, and that `failed` tells of a race; it
is kept by the steps of the condition, and by a client that enters a wait,
notifies, or does nothing to it.  `BarrierProofs` draws `WaitersInWait`,
`NotificationKept` and `EraseNeedsRace` from it, for the barrier and for a client that does what it
likes.  `CountsMissing`, `NobodyLeftBehind` and `NoEarlyReturn` need to know which
turn each context came in (`CameInv`, `TurnInv`): in a turn that is complete those
who still sleep would have to be late by two turns, and the contexts of a
barrier of their number cannot be, since the next turn needs each of them
(`ExactInv`).  The numbers are cardinalities of sets of contexts, so the parties
are assumed finite.

`QueueProofs` proves `ConsumersAwake` and `ProducersAwake` for any finite set of
contexts, any watermarks and any number of values, with deadlines, interrupts,
`close()` and, for consumers, values that throw.  They are about users in one
thread, where what a call has seen is still so when it acts on it (`SawInv`) and
`count_` is the length of the chain from `head_` to `tail_` (`ChainInv`).  The
argument counts: `Takers` are the contexts that take a value or make someone take
it (notified, on their way to the list, or about to notify), and while consumers
sleep there is one for each value (`TakersInv`); `Fillers` are the same for the
places of a queue whose pops notify one, and where they notify all at `lwm_` more
values than that are left or the pop is about to notify (`FillersInv`).  The code
does more than `ProducersAwake` asks, which is what is documented: it wakes a
producer also when exactly `lwm_` values are left (lemma `ProducersServed`).
`QueueWaits` restates the properties of the condition for the queue's use of it,
in any number of threads.

`QueueIsFifo` proves `ImplementsFifo` for the three kinds of queue in any number
of threads, with `Items`, the values from `head_` to `tail_`, as the contents.
For the two queues of `T` a pop gives its caller the value that is first; for
`unbounded_queue< T * >` the theorem is about the order in which values leave the
queue only.  `Advance` is the step that puts, since the value written by `Fill` lies behind
`tail_` until then, and `Take` the one that takes.  The invariant adds that who
is at the end of the list has `tail_mtx_` and who is at its front has `head_mtx_`
(`HoldInv`), so that there is at most one of each; the chain and its values are
then as `ChainInv` says in every step, and what a call saw of the other end is
still good for it (`LimitInv`): the other end only adds values, or places.  The
hypothesis excludes one use, several threads and `try_push()` in a
`bounded_queue`, where `try_push()` locks `head_mtx_` and two pushes meet at
`tail_`.

`FutureProofs` proves five properties for every number of shared states,
owners, futures and contexts.  `ImplementsOneShot` needs that a state that is not
ready has no exception left (`ResultInv`, true without `reset()`), else the value
stored last would not be what `get()` gives; steps are classified by what they do
to results (`ResultStep`).  `OwnerRemains` is strengthened by `OwnerInv`: no two
owners share a state, and a destructor or a fiber of `async()` that is under way
holds a state no owner refers to, so that moves, swaps and `reset()` of the
others do not disturb it.  `WaitersUnready` holds since whoever makes a state
ready empties its queue and whoever enters it tested `ready_` with the same mutex
held.  `FreedQuiet` holds since a call inside a state refers to it through its
object or by itself (`RefInv`), and who has the mutex of a state or is in its
`waiting_` is inside it (`HoldInv`, `WaitInv`, `CondInv`).  `OneFuture` needs that a
state whose future was not yet obtained has none (`OneInv`).

The proofs assume of the constants what the modules state by name: contexts of
different kinds are distinct and `None` is none of them, `None` is not the name of
an assertion, watermarks are natural numbers in order, the users of an object
are contexts and, where they are counted, finitely many; a barrier is made for
at least one.  `FibersOnly`, `OneMain`, `PoliteInterrupts`, `Interrupted` = `{}`, `Remote` = `{}`
and the one on `Mode` above are hypotheses of the theorems that need them.

`FutureType`, `KindsInv`, `CondType`, `BarrierType`, `QueueType` and the `TypeOK` of
`FiberManager` and `Mutex` are the proved type invariants.

Only model-checked: all liveness properties, since the prover does not reason
about fairness.

## Not modelled

- Fiber-specific storage: a map of one fiber that no other context touches;
  what a pair of calls does shows all of it.
- `bounded_queue< T * >`: its node has a member `T` initialised with 0 to which
  pointers are assigned, so that it cannot be instantiated.
- `scheduler::instance()` and `replace()`: one thread is modelled, so the instance
  is a constant; other threads meet it in the objects they share.
- `migrate()`, thread affinity and the destruction of a manager.  `migrate()`
  spawns a ready fiber in the calling thread's manager and takes it out of no
  other one; which fibers may be passed to it is left to the caller.
- Moves of `fiber` objects, priorities (stored and never read by `round_robin`).
- A condition in a fiber that disabled interruption, and nested interruption
  scopes: `disable_interruption` is one flag.
- The spinlock of a condition and that of its mutex together: `Condition` takes
  the mutex as an abstract lock.
- Real time: a deadline passes at any moment after it was set.
- Exceptions, attributes, stack allocation and configuration have no control of
  their own; an allocation that fails is not considered.
