# A TLA+ model of the ExpressOS userspace

The repository holds the programs that run on the Android side of ExpressOS. The
core is **Venus**, the helper process through which threads of the ExpressOS kernel
use Android services; around it are a slide presenter, benchmarks and small tools.
This directory models the parts that carry logic of their own, checks them with TLC
on small instances and proves what matters most with TLAPS for every value of the
constants. `PROJECT.json` is the index: components, runs, the source lines behind
every definition, hazards, findings and theorems.

## 1. Inventory

### Venus (`src/android/venus`)

| part | state | operations | interacts with |
|---|---|---|---|
| start-up (`main.c`, `init.c`) | `g_binder_fd`, `g_glue_fd`, `g_binder_vm_start` | `init_binder_ipc`, `init_glue`, `init_workers` | Binder driver, glue device |
| dispatcher (`upcall.c`) | the read buffer between `ptr` and `end` | `dispatcher_loop`, `find_worker`, `post_upcall` | reads the glue device, writes the mailboxes |
| workers (`upcall.c`) | `workers[20]`: mutex, condition variable, one-slot mailbox `arg`; the local `u` | `worker_loop`, `send_downcall` | take from the mailbox, answer through the glue device |
| handlers (`fs.c`, `net.c`, `mm.c`, `futex.c`) | none of their own | `handle_close`, `handle_pipe`, `handle_socket`, `handle_poll`, `handle_alien_mmap2`, `handle_futex_wait`, `handle_futex_wake` | host system calls, some of which sleep |
| Binder marshaler (`binder.c`) | `struct ipc_marshaler`: buffer, `write_ptr`, `data_entries`, `segments[16]` | `handle_binder_write_read`, `patch_payload_ptr`, `marshaler_marshal`, `marshal_transaction`, `record_segment`, `append_data_segments` | Binder driver, mapped Binder memory |

A kernel thread queues an *upcall* in `/dev/expressos` and sleeps. The dispatcher
reads upcalls in batches and posts each to the worker that `find_worker` names: an
asynchronous call to the worker of its handle, a synchronous one to the last worker.
The worker performs the call, perhaps sleeping in it, and sends a *downcall* that
releases the thread. What is hard: workers sleep while the dispatcher goes on; a
mailbox has one slot and is overwritten when full; a signal may come before the wait
or a wait end without one; a synchronous answer does not name its thread; a failed
answer ends a worker, and a malformed message the process. Correct means: an upcall
is performed once and answered once, to the thread that asked, and no thread waits
behind another's sleeping call.

The marshaler turns what the Binder driver returned into a self-contained message.
What is hard: commands cut off at the end, more references than segments, more data
than buffer, errors after half of the work. Correct means: it stays within its
arrays, its answer is complete or empty, and a complete one can be unpacked.

### The other programs

| program | state and operations | what is hard |
|---|---|---|
| `presenter` | `mAction`, `mCurrentSlide`, `mBlankScreen`; `signalAction`, `open`, `loadSlide`, `display`, `runPresentation`, `key_handler` | three threads, one condition variable with two kinds of waiters, a presenter that starts before `open` |
| `bench-binder` | `struct binder_io`, `struct binder_state`; the `bio_*` puts and gets, `binder_call`, `binder_parse`, `binder_loop`, `binder_done`; the ping-pong benchmark; `bctest` | messages that overflow, buffers to be freed, replies that do not belong to the call, a server that dies |
| `bench-vbinder` | two tids, two capabilities; `main`, `start_ping`, `pong_thread` | the order of thread start and channel creation rests on `sleep(3)`; the result of no call is looked at |
| `BrowserBench` | `mCurrentEvaluation`, `mFinished`, `mResult`; `PageStarted`, `PageFinished`, `loadNextPage` | WebView callbacks of the blank page, redirections, callbacks that come twice |
| `tests/libr2` | `initialized`, `old_ioctl`, a mutex; an interposed `ioctl` | two threads in the lazy initialisation, a lock around calls that sleep |
| `bench-bootanim` | the EGL context, two textures, the frame counter; `readyToRun`, `threadLoop`, `android` | failures half way, the death of SurfaceFlinger, who ends the process |
| `own-tty` | none; `open`, `dup2`, `fork`, `setsid`, `exec` | which descriptor `open` returns, a fork that fails, what a caller learns from the exit status |
| `bench-sqlite` | a connection, its statements; `prepare_db`, `test_insert`, `num_to_str` | one call of many failing, the digits of the edge cases |
| `bench-net` | `transmitted`; connect, read, log | short reads, a sum that outgrows an `int` |
| `tests/helloworld`, `tests/resize`, the vendored SQLite | examples and third-party code | not modelled |

## 2. Modules

| module | models | kind |
|---|---|---|
| `Venus` | start-up, dispatcher, workers, handlers and the kernel threads that use them | component, composed |
| `UpcallService` | what Venus promises: asked, performed once, answered once | abstract specification |
| `VenusService` | the refinement mapping from `Venus` to `UpcallService` | refinement |
| `VenusProofs`, `VenusServiceProofs` | theorems about `Venus`; that it implements `UpcallService` | proofs |
| `BinderMarshal` | `handle_binder_write_read` and the marshaler, and the reference definition of an unpacked answer | component |
| `MCBinderMarshal` | a set of commands, and the documented format of an answer | model |
| `MCBinderHandler` | `handle_binder_write_read` as a whole: `PatchPayload`, then `BinderMarshal` | composition, model |
| `PatchPayload` | `patch_payload_ptr` | component |
| `BinderHandlerProofs` | theorems about `PatchPayload`, `BinderMarshal` and the whole handler | proofs |
| `Presenter`, `PresenterProofs` | the three threads of the presenter | component, proofs |
| `BinderIo`, `BinderIoProofs` | the `binder_io` layer of `bench-binder` | component, proofs |
| `BinderCall` | the calls, loops and buffers of `bench-binder/binder.c` over an external driver | component |
| `BenchBinder`, `BenchBinderProofs` | the two processes of the ping-pong benchmark over `BinderCall` | component, composed; proofs |
| `LibR2` | the interposed `ioctl` | component |
| `BenchVBinder` | both threads of `bench-vbinder` | component |
| `BootAnimation` | `main` and the animation thread | component |
| `EvalRecorder` | the recorder of `BrowserBench` and its callbacks | component |
| `OwnTty`, `BenchNet`, `BenchSqlite`, `NumToStr` | the sequential programs | components |
| `ConcurrentPrograms`, `SequentialPrograms` | the small programs side by side, one running | models |
| `ConcurrentProgramsProofs`, `SequentialProgramsProofs` | theorems about the small programs | proofs |

### Venus

`proc` is where the main thread is, from `init_binder_ipc` to `dispatcher_loop`, or
that the process has ended. `kreq[t]` is the operation kernel thread `t` sleeps on.
An upcall travels through `glue` (the device), `batch` (read, not yet posted),
`arg[w]` (the mailbox) and `u[w]` (being handled); `pc[w]` is where worker `w` is in
`worker_loop`. What happens under a mutex is one step: `TakeArg` is the test of `arg`
with either taking it or going to wait, `post_upcall` stores and signals. A worker
in `"wait"` is moved by a signal or a spurious wakeup and tests `arg` again; a signal
to a worker elsewhere has no effect, as in the code.

The kernel is outside the repository and modelled from what `upcall.c` expects: a
thread has one upcall outstanding, and in the whole system at most one without a
handle is, because its answer does not say whom it is for. The sleeping calls
(`poll`, `futex`, the Binder ioctl) end at any time (`Unblock`) or never; a
`FUTEX_WAKE` ends at most one `FUTEX_WAIT`, since `futex.c` passes the count 0.

`Faults` selects failures: a start-up step fails, the dispatcher's read fails, a
message is malformed, a downcall fails (the worker ends), memory runs out
(`post_upcall` and `handle_binder_write_read` use the null pointer and the process
dies; `handle_poll` returns an error and its worker ends). `HANDLE_UNIT` is
2^`HANDLE_SHIFT`. Arguments and results of the system calls are left out, and so are
logging and the copies of messages.

`UpcallService` has, for each thread, a request and a stage: idle, pending, done,
lost. `VenusService` reads the stage off the place where Venus holds the upcall.
`Lossy` allows losing requests and stopping; it is set when failures or opcodes
without a handler are in play.

### BinderMarshal

The driver fills the read buffer command by command (`DriverPut`); the ioctl fails or
returns, and the last command may be cut off. The parser then takes one command per
step, `record_segment` notes a reference and replaces the pointer by an offset, and
`AppendSegment` copies one segment per step. `Answer` is the downcall; the unchecked
`malloc` before it may end the process. All sizes are constants, with the comparison
in `size_t` kept modulo `SIZE_MOD`. Contents are left out; `payload` is the sequence
of segments appended. The parser rewrites pointers in `buf`; `read_buffer` keeps what
the driver returned, so that an error can be held against its reason: `ErrorsJustified`
allows ENOMEM only for more references than segments, -1 only for a command the parser
does not know or for more data than fits, and EFAULT only for a command the end cuts
off or a reference that does not start in the mapped memory.

`DriverAssumption` says what the mapped memory guarantees: a buffer that starts in it
lies in it. `record_segment` checks only where a reference starts, so `NoOverrun` for
the copy *from* that memory rests on this assumption.

### PatchPayload and the whole handler

`patch_payload_ptr` is one step per entry of the table. The table lies in the payload
it patches, so the step reads it as patched so far. No entry is checked; `PatchWild`
is the write outside of the payload. `GoodTable` is what a sender has to keep to:
entries name distinct words outside of the table.

`MCBinderHandler` puts this before the ioctl, as the handler does. The driver may return
anything whatever the write buffer holds, so the second half is explored for one payload
(`ThisPayload`) instead of every one.

### Presenter

`main`, `presenter` and `keys` are the program counters of the three threads, the
other variables are the members of the class, the slide in the texture and the slide
on the screen. An iteration of `runPresentation` is one step, because all of it runs
under `mCondMutex`. `texture` is the slide whose pixels were uploaded last and `crop`
the one whose size the crop rectangle has, 0 for an empty rectangle. `loadSlide` fails
in three ways. A slide in `Broken` is not delivered by the archive, and `loadSlide`
returns an error before it has changed anything. One in `Undecodable` gives an empty
bitmap: nothing is uploaded, but the rectangle becomes {0, 0, 0, 0}, so no slide is seen
until another one is loaded (`__builtin_clz(0)`, which is undefined, is computed there but
its result not used). One in `UnknownFormat` gets its rectangle and not its pixels.
`mSlideWidth` is 0 until `desc.txt` has been read, and a slide of size 0 is drawn as
nothing.

### BinderIo

One message: the sender initialises a buffer (`bio_init`) and puts items; the message
travels as a call, which `binder_call` refuses after an overflow, or as a reply, which
`binder_send_reply` does not; the receiver gets items of the same kinds in the same
order. `mem` is what has been stored and where, with the item it belongs to, so that a
get can be compared with its put. A word read where none was stored may be anything.
The driver is external and translates the objects on the way (`TypeOnArrival`): all of
them arrive as handles but for references to objects of the receiver (`Owned`), which
arrive as `BINDER_TYPE_BINDER`. `bio_get_ref` finds those too and returns 0 for them.
`uint32_t` has the width `U32`, so that the length 0xffffffff of a missing string wraps
as it does in `bio_get_string16`.

### BinderCall and BenchBinder

`BinderCall` has for each process where it is (`pc`), its open call, the read buffer, the
reply and the buffers of the driver it holds. `binder_call` is `BeginCall`, the write and
the read half of its ioctl, and one step of `binder_parse` per command; `binder_loop` uses
the same steps. External, from how `binder.c` uses them: the driver (a queue of commands per
process, one open transaction per caller, `BufferRoom` buffers per mapping, handles valid
while referenced, dead nodes) and the service manager. `BenchBinder` adds the parent, which
publishes and loops, and the child, which looks the service up before each size and pings.
Faults: an ioctl is interrupted, a write fails, the loop ends.

### EvalRecorder

A url is a number: 0 is `about:blank`, a positive one a site, its negation where the site
redirects to. The external WebView works off its loads in order, may drop one that is
followed by another, redirect, and report an end again. `for` in a load is the entry
it was asked for; the program has no such field, it only serves the properties.

### The small programs

`LibR2` splits an `ioctl` at every point where another thread can come between. The real
ioctl is external: a receiver sleeps until something has been sent. `BenchVBinder` lets
`sleep(3)` end at any time, and every call fail, `MaxFailures` times in all: the channel
is then not there, the capability -1, the message gone, the pong thread not started. A
receive of main that fails ends its iteration (`skipped` counts them); one of pong makes
it send a negative number of bytes, which as a `size_t` is more than any buffer has, and
the model takes the kernel to refuse that. `sent` is all that main has sent, in order, to
compare what comes back with it. `BootAnimation` has a step per phase of the animation
thread; a swap without SurfaceFlinger sleeps. `OwnTty` keeps what each descriptor is and
who leads a session. `BenchSqlite` and `BenchNet` let each call fail; `NumToStr` is
`num_to_str` loop by loop, and of the text only lengths and digits are kept. Its
`RoomAssumption` is what the sizes of its arrays rely on: a number has at most `DIGITS`
digits, and the text has six bytes for each.

These programs share no state. `ConcurrentPrograms` and `SequentialPrograms` therefore
let a behaviour be one of one program, chosen at the start (`program`); this visits the
sum of their states, where letting them interleave would visit the product and show
nothing more. The first holds those with threads or callbacks and states their fairness.

## 3. Runs

| run | configuration | what it shows |
|---|---|---|
| `venus_core` | 3 threads, 4 workers, 4 operations, no failure, batches of up to 3, fair; 83k states | `NoHeadOfLineBlocking`, `NothingLost`, no deadlock, and `ImplementsFairService`: loss-free and prompt |
| `venus_faults` | 2 threads, 3 workers, all operations, bad opcodes, all failures, fair; 27k | `TypeOK`, `NoSpuriousCommand`, `ReplyToAsker`, `Accounted`; every step is one of the lossy service (`ImplementsService`); `Answered` |
| `venus_collide` | two handles on one worker, `FUTEX_WAIT` and `FUTEX_WAKE` | **violation** of `NoDeadlock` |
| `binder_handler` | payloads of 4 words modulo 5 with every table; up to 3 of 9 commands, cut off anywhere, 3 segments, buffers of 12 and 18 bytes; 43k | `PatchedOnce` and the five properties of the marshaler |
| `binder_format` | the marshaler alone | **violation** of `DocumentedFormat` |
| `presenter` | 5 slides, one missing, one undecodable, one of unknown format, all failures of the start; 1170 | `SlideInRange`, `ScreenIsCurrent`, `ActionPerformed` |
| `binder_io` | up to 4 items, three buffer sizes (too small, unaligned, larger), 1 or 2 offsets, references that are null, to others and to the receiver; 703k | `InBounds`, `NeverShifted`, `RoundTrip`, `OverflowDetected` |
| `bench_binder` | 2 sizes of 2 pings, room for 2 buffers, 2 interrupted ioctls, 1 failed write, 1 death of the loop; 44k | answers belong to calls, buffers come back, no call fails by itself, times are those of the pong handler, and the child finishes |
| `concurrent_programs` | interposer: 3 threads, 2 calls each; vbinder: the 6 sizes, 3 pings each, 2 failed calls; animation: 6 frames, all failures; browser: up to 2 lines read twice, 2 redirections, 2 repeated ends; 309k | `NullOnlyAtStart`, `SleepsOnlyInKernel`; `EchoIsOwn`, `PingPongEnds`; `NothingLeftBehind`, `Returns`; `ShiftIsBounded`, `MeasuresOwnPage`, `Finishes` |
| `sequential_programs` | own-tty: every call fails, any standard file closed; net: buffer 3, `int` of 4 bits, streams up to 9; SQLite: 25 rows, every call fails; all 32768 numbers and edge cases; 395k | `ProgramOwnsTty`, `LogIsReceived`, `TimeMeansRows`, `SpellsTheNumber` |
| `own_tty_status` | own-tty without failures | **violation** of `CallerLearnsFailure` |
| `libr2_null` | 2 threads, 1 call each | **violation** of `NoNullCall` |

**Bounds.** Two threads are enough for the interactions of two mailboxes, the shared
synchronous worker and a wake of one by the other; three, with batches of three, let a
batch hold upcalls for three workers while others are busy. The four operations of
`venus_core` are one of each kind: asynchronous and quick, asleep, waking, synchronous;
`venus_faults` has all of them. Handles such as 1, 2 and 5 with `HANDLE_UNIT` 2 are not
multiples of the unit, so the shift matters. The marshaler's sizes are chosen so that
three commands can exhaust each limit alone: four references against 3 segments, 6 bytes
of data against 18 of buffer, a pointer just below and just beyond the memory. Four words
hold a table of two entries, two targets, and an entry that names the table. In `binder_io`
the buffer of 18 bytes leaves a rest smaller than a word, and one offset is fewer than
the objects four items can be. In `bench_binder` two buffers are fewer than the replies,
so one that is not given back is missed, and two rounds let a late answer meet a call of
the next one. Two failed calls of `bench-vbinder` let main get two messages behind, or a
receive fail after a channel could not be created. Two repeated ends let the recorder run
ahead twice. Streams up to 9 with
`IntLimit` 8 pass the wrap-around.

**Fairness.** `Venus` assumes weak fairness of the main thread and of each worker's own
steps: they are threads of the operating system, and each is scheduled while it can run.
For the main thread that is `MainRuns`, all it does but `LeaveDispatcher`: a dispatcher
asleep in its read may sleep for ever, and no failure is forced. Nothing is assumed of
kernel threads, of the end of sleeping calls or of spurious wakeups. The handler runs on
once the driver has returned; the threads of `Presenter`, `LibR2`, `BenchVBinder` and
`BootAnimation` run on, but keys, calls and faults need not come; in `BenchVBinder`
fairness is of the steps whose calls succeed. In `BenchBinder` the processes and the
service manager run on, and a failed write releases `ChildFinishes`, because the code
really leaves the caller asleep then. The WebView starts and finishes what it was asked
to load.

**Deadlock.** TLC checks it in `venus_core` and `venus_collide`. It is off where the
process may end, and in the models of one call, message or program, which end.

**Findings.**

1. `venus_collide`: the comment at `upcall.c:50-59` derives the absence of deadlocks
   from a 1:1 mapping of threads to workers. `find_worker` computes
   `(handle >> 13) % 19`, so two threads may share a worker. TLC shows a `FUTEX_WAKE`
   in the mailbox of the worker that sleeps in the `FUTEX_WAIT` it should end. With a
   mapping that is 1:1 on the handles in use (`OneToOne`) this is excluded, for every
   number of threads and workers (`NoHeadOfLineBlockingCorrect`).
2. `binder_format`: the comment at `binder.c:174-180` puts the number of entries
   between read buffer and payload; the code sends it in the header (`data_entries`).
3. `own_tty_status`: the comment at `own-tty.c:91` wants the caller to get something
   meaningful, but line 95 passes the status word of `wait` to `exit`, which keeps its
   low byte: 0 for every exit code.
4. `libr2_null`: `init` sets `initialized` (`ioctl.c:60`) before `old_ioctl`, so the spin
   loop at line 68 lets a second thread call a null pointer. `NullOnlyAtStart` says that
   this is the only way.

**Observations** that are not runs:

- `Presenter`: `runPresentation` sets `mAction = NO_OP` without a signal, and
  `signalAction` waits on the same condition variable. A second key that comes while
  an action is pending can wait together with the presenter until one of the waits
  ends by itself. `ActionPerformed` is therefore about stored actions, not about keys.
- `Presenter`: the first slide can be loaded before its size is known and then stays
  invisible until something else is drawn (the exception in `ScreenIsCurrent`).
- The answer to `FUTEX_WAKE` carries the opcode `FUTEX_WAIT` (`futex.c:74`), and its
  count is 0 whatever was asked for (`futex.c:71`).
- After a failed marshalling the downcall still says how many bytes the driver
  returned; the transactions in them are lost.
- `patch_payload_ptr` checks no entry: a word named twice is relocated twice, and an entry
  that names the table changes what is patched next.
- A null reference in a message (`bio_put_ref`) makes everything after it unreadable.
- A reply larger than the 256 bytes of `binder_parse` arrives as a length without its
  text; the receiver can tell (`OverflowDetected`).
- A call interrupted in its ioctl leaves its transaction open, and a later call takes the
  late answer for its own (the exception in `ReplyIsOwn`).
- A failed lookup gives handle 0, the service manager; `binder_parse` ignores
  `TF_STATUS_CODE`, so its errors count as pongs (`ReportsMeasurePong` is without faults).
- `bench-vbinder`: woken before pong has stored its tid, main sends nowhere and both
  threads sleep for good (`StuckOnlyIfEarly`). After a receive of main that failed its
  iterations are one message behind for the rest of the run (the bound in `EchoIsOwn`).
- `Presenter`: a slide that does not decode makes the screen lose the slide before it; one
  in an unknown format shows the pixels of an earlier slide (`ScreenIsCurrent`).
- `bio_get_ref` returns 0 for a reference to an object of the receiver itself, as for one
  that is not there (`RoundTrip`).
- `BrowserBench`: every repeated `onPageFinished` closes an entry that was not loaded, and
  later times are booked one entry too late (`ShiftIsBounded`).
- `own-tty`: `close(fd)` takes away a standard file that the caller had closed
  (the exception in `ProgramOwnsTty`).
- `bench-sqlite`: no statement is finalized, so `sqlite3_close` refuses; a failed `COMMIT`
  is printed and a time logged all the same.
- `bench-bootanim`: `linkToComposerDeath` is compiled out, and a failed `readyToRun` stops
  nobody; either leaves main in the thread pool (the exceptions in `Returns`).
- `bench-net`: beyond 2 GB the logged sum is wrong, and a failed read is logged like the end.

## 4. Proofs

Every theorem holds for all values of the constants that the named assumptions of its
module allow. Each rests on an inductive invariant, which is described with it.

### Venus

`VenusProofs`:

- `TypeCorrect`: types, and that a worker holds an upcall exactly while it handles one.
- `AccountedCorrect`: `Accounted` is invariant, also when handles collide. The inductive
  invariant is `IInv == TypeOK /\ Accounted`: wherever an upcall is, its thread sleeps on
  it, no copy of it is queued, and its worker is the one `find_worker` names. The last part
  is what makes it inductive: one thread's upcalls can only meet at one worker, and there a
  mailbox and a handler never hold two of one thread.
- `ReplyToAskerCorrect`: from `IInv`, with the rule of at most one synchronous caller,
  which is a conjunct of `Accounted`.
- `NoSpuriousCommandCorrect`, `NoHeadOfLineBlockingCorrect`: assuming `OneToOne`. Two
  upcalls at one worker come from one thread (or from two synchronous callers), which
  `Accounted` excludes.

`VenusServiceProofs`, both assuming `OneToOne`:

- `VenusImplementsService`: the safety part of the refinement, whatever fails. `Located`
  says where an upcall can be; a thread that sleeps and whose upcall is nowhere has lost its
  request, one whose upcall is at its reply has had it performed. `RInv` adds `Started` to
  `IInv`: the dispatcher runs only when every worker exists, so a post cannot be undone by
  `init_workers`. Each action of Venus is then a step of the service or a stutter.
- `NothingLostCorrect`: with `~MayLose` the service has no step that loses, so by the
  refinement no request is lost, and a request that is not lost is `Located`, in one place.

### The Binder handler

`BinderHandlerProofs`: `MarshalTypeCorrect`, `NoOverrunCorrect`, `AllOrNothingCorrect` and
`PatchedOnceCorrect`. The invariant of the marshaler adds to the types the layout of the
commands (`start`, `ptr` and `k` agree while parsing), that every recorded segment lies in
the mapped memory, that `write_ptr` never passes the buffer, and that `payload` is the first
`e` segments. `PatchInv` says that after `turn` turns exactly the words named by the first
`turn` entries are relocated; with a good table the table itself is untouched, so the next
entry read is the one that was sent.

`DecodableCorrect` and `ErrorsJustifiedCorrect` compare the answer with a definition
that knows nothing of the parser: `Expected`, the segments that the references of the
commands designate, in order, and `Bytes`, the sum of their lengths. `Accounted` adds
three parts to the invariant. `Account`: while parsing, the segments recorded are those
of the commands parsed so far, as they now are with offsets for pointers, and while
appending, `write_ptr` is the end of the commands plus the bytes of the segments
appended; an error has its reason in the commands. `Starts`: no command
begins after the end, so the parser leaves none out. `Told`: the answer says what the
marshaler ended with. The step that needs an argument is a command with references: the
parser rewrites it in place, and its references before and after must designate the same
segments. For EFAULT there is one part more, `Given`: the commands that are not yet parsed
are as the driver returned them, so the one that is refused is one of `read_buffer`.

`HandlerGetsShorter`, an action property, and `HandlerNeverStuck` are the part of
`Terminates` that is not fairness: once the driver has returned every step makes `StepsLeft`,
a natural number, smaller, and before the end of the buffer there is a command to parse.
`HandlerHalves`: the composition that the run checks implies the specification of each half.

### bench-binder

`BinderIoProofs`: `InBoundsCorrect`, `NeverShiftedCorrect`, `RoundTripCorrect`,
`OverflowDetectedCorrect`, all from `BInvCorrect`. `BInv` says that a message has a layout:
a function from items to places such that each item is there whole (`Whole`), or was cut
off at the end of the buffer or of the offsets (`Damaged`), and then the overflow flag is
set. The receiver is either at the place of its next item with all before it received
(`InSync`), or has met an item that is not there, has nothing left and has its own flag set
(`Dead`). `RoundTrip` alone is not inductive: that nothing after an item that did not fit is
ever taken for it needs `Dead`.

`BenchBinderProofs`, for every number of rounds and pings, every room for buffers and every
bound on the faults:

- `BuffersReturnedCorrect`. `Local(p)` is about one process: what it still has to look at
  (unread commands, and the reply of the call) is held, and what it holds beyond that are at
  most as many buffers as writes failed.
- `ReplyIsOwnCorrect`. `Stages` says who calls when; `Past`, that a transaction or reply
  anywhere is of a call already made. Without interrupted ioctls `Serial` says that the call
  in progress is in one of five phases, with at most one buffer anywhere: `Idle`, `Asked` (its
  transaction is at its server), `Lost` (the write of the answer failed), `Answered` (its
  reply is with the caller), `Refused` (an error is). `Owed`, about the buffers of the parent, is
  needed for its exit: the driver tells a caller of the death only if its transaction is there.
- `NoCallFailsCorrect`. As long as nothing fails (`NoFault`), `FlowInv` is invariant: by
  `Serial` and `Local` whoever is sent a buffer has none, so room for one is enough; the
  parent stays in its loop; the child has a reference on the handle it calls.
- `ReportsMeasurePongCorrect`. In `FlowInv` too: the service is registered before the fork
  (`Publishing`), so each lookup of the child is answered with a handle and each ping by its
  owner (`Measuring`).
- `NobodySleepsInVainCorrect`, the part of `ChildFinishes` that is not fairness: by `Serial` a
  caller asleep in its ioctl is in the phase `Asked`, unless an ioctl was interrupted or a
  write failed. Its transaction is with the owner of the handle, so the parent, the child and
  the service manager never all wait for each other.

### The other programs

`ConcurrentProgramsProofs`:

- libr2: `DumpsNotMixedCorrect` and `NullOnlyAtStartCorrect`. The invariant ties the mutex to
  the thread in a critical section, and says that a null pointer after the compare-and-swap
  means that its winner is in `dlsym`. `NeverHeldUpCorrect` is the part of `SleepsOnlyInKernel`
  that is not fairness: whoever has the mutex is printing, never asleep in the real ioctl,
  and the spin loop is entered only when `initialized` is set.
- bench-vbinder: `VTypeCorrect`, `EchoIsOwnCorrect`, `StuckOnlyIfEarlyCorrect`,
  `TidMeansChannelCorrect`, for any number of failures. `VOrder`: from what main received last
  over its inbox, the pong thread and pong's inbox, messages are as they were sent and younger
  from place to place. So each receive that succeeds brings main at least one message forward,
  and `VLag` follows: it is behind by at most the receives that failed. `VFlow` is about runs
  without a failure: while main waits exactly one message is under way, unless it woke up too
  early.
- bench-bootanim: `NothingLeftBehindCorrect`. `BootInv` says what the thread has let go of
  before each of its last steps.
- BrowserBench: `ShiftIsBoundedCorrect` and, as an action property, `MeasuresOwnPageCorrect`.
  `EvalInv`: the loads on their way are in the order of their entries, none ahead of the
  current one and none further behind than `onPageFinished` was repeated, and the start time
  of the current entry is that of its page.
- `ProgramsApart`: the composed specification implies each program's own, so all of these
  hold in `ConcurrentPrograms`.

`SequentialProgramsProofs`: `ProgramOwnsTtyCorrect` (`TtyInv`: what each call before the fork
leaves to the next), `LogIsReceivedCorrect` (`NetInv`: the sum equals what was received while
an `int` can hold it) and `TimeMeansRowsCorrect` (`SqliteInv`: the table holds the keys below
`row`, one more between a step and its reset). `SpellsTheNumberCorrect`: `NumInv` says that
there is a chain of quotients, from the argument down to what is left of it, whose remainders
are the digits. While splitting, what is left has no more digits than `digits[]` has room;
while printing, the words so far denote the quotient that the first loop had reached at that
digit, so at the end they denote the argument. `SequentialApart` carries all four to the
composition.

`PresenterProofs`: `PresenterTypeCorrect`, `SlideInRangeCorrect`, `ScreenIsCurrentCorrect`,
`ActionNotOverwrittenCorrect`. The invariant relates texture, crop, counter and screen; the
conjunct `BeforeDesc`, that nothing but the first slide has been touched before `desc.txt`
is read, is what bounds the exception of the first display.

### Induction over data

`Expected`, `Bytes`, `Value` and `TenTo` are recursive functions. The library states induction
for an operator, which the provers cannot instantiate, so `BinderHandlerProofs` and
`SequentialProgramsProofs` have it in first-order form. `SetInduction` is about a set instead of
a predicate and rests on the least element of a set of naturals (`WFMin`); `Iterate` says that
a function defined step by step exists, and `SameRecursion` that two with the same steps are
equal. From these follow the equations of each definition: what it is for the empty sequence,
and how it changes with one more element.

### What is proved and what is checked

Every invariant of a passing run is a theorem, and so are the action property
`MeasuresOwnPage` and the refinement `ImplementsService`, the latter for handles on distinct
workers.

Only proved, and in no run: `MarshalTypeCorrect`, `PresenterTypeCorrect`,
`ActionNotOverwrittenCorrect`, `DumpsNotMixedCorrect`, `VTypeCorrect`,
`StuckOnlyIfEarlyCorrect`, `TidMeansChannelCorrect`, `BInvCorrect`, `HandlerGetsShorter`,
`HandlerNeverStuck`, `NeverHeldUpCorrect`, `NobodySleepsInVainCorrect`, and the three theorems
that carry results to a composition, `ProgramsApart`, `SequentialApart` and `HandlerHalves`.

Only model-checked, because fairness and `ENABLED` are out of reach of the proof system:
`ImplementsFairService`, `Answered`, `Terminates`, `ActionPerformed`, `ChildFinishes`,
`SleepsOnlyInKernel`, `PingPongEnds`, `Returns` and `Finishes`. For `Terminates`, `ChildFinishes`
and `SleepsOnlyInKernel` the safety they rest on is proved.

## 5. Not modelled

- The vendored SQLite (`sqlite3.c`, 111177 of the repository's 115205 lines of
  implementation): third-party code, seen only through the calls of `bench.c`.
- `bctest.c`, a command line around the same library calls; the library functions that no
  program here uses (`binder_link_to_death`, `binder_release`,
  `binder_become_context_manager`, `BR_DEAD_BINDER`).
- `tests/helloworld`, whose logic is in Android's libbinder, and `tests/resize`, a sequence
  of surface calls.
- Values passed to and from system calls, what is drawn, dumped or logged, and clocks,
  except where a property is about them.

## 6. Plan

Done: the inventory, every program with logic of its own, and the proof of every invariant
that a run checks. Left:

1. `BinderCall` composed with `BinderIo`, for what a ping carries and its echo returns.
2. For the other liveness properties, a measure that their steps decrease, as
   `HandlerGetsShorter` is for `Terminates`.
