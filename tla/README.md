# A TLA+ model of SCSITest

SCSITest is a C++ library for writing tests of iSCSI targets: a wrapper around
libiscsi, a background task that answers the NOP_INs of idle connections, and
classes for SCSI requests. The modules here model its concurrency, its sessions
and its buffers from the source, check them with TLC and prove the main results
with TLAPS.

    tlc -config bg_single.cfg MCBackGround    # a run; PROJECT.json lists them all
    tlapm BackGroundProofs.tla                # the proofs of a module

## The system

| Part | State | Operations | Used by |
|---|---|---|---|
| `iSCSIBackGround` (iSCSILibWrapper.cpp 42-207), a singleton | `mConnections`, `mStop`, `mWorkMutex`, `mWorkCond`, `mThread` | `AddConnection`, `RemoveConnection`, `StopBackGroundTask`, the thread's loop `BackGroundThread`, the destructor | every operation of the wrapper; the program; static destruction |
| `iSCSILibWrapper` (212-903) | `mIscsi`, `mClient` (finished, error, connected, ...), `mError`, `mRedirected`, `mDiscoveryPairs`, `mTimeout`, `mBGTimeout` | connect, discovery login / discovery / logout, normal login (with redirect) / logout, `iSCSIExecSCSISync`, `iSCSILUNReset`, disconnect; the event loop `ServiceISCSIEvents`; one callback per kind of request | the program; the background thread calls `ServiceISCSIEvents(true)` |
| `SCSIRequest` | the CDB and task, `mOutBuffer`, `mInBuffer`, `mExecuted` | setters and getters of bits, bytes, words and strings with their bounds tests | every request class; `iSCSIExecSCSISync` |
| `SCSIPersistentReserveOut` and `...RegisterAndMove` | what `SCSIRequest` has | constructors, setters of the fields, `SetTransportIdList` | test programs |
| `SCSIPersistentReserveIn` and its two actions, `SCSIInquiry` and its VPD pages, `SCSIReportLuns`, `SCSIRead10`, `SCSIReadCapacity10/16` | what `SCSIRequest` has; `mEvpd`; `mDescriptors`, `mParsed` for the device identification page | constructors with a size, `SetEVPD`, `SetLBA`, `SetAllocationLen`; getters that parse what the target returned and throw when it was cut off | test programs, the example |
| `SCSIReserve`, `SCSIRelease`, `SCSITestUnitReady` | none of their own | constructors with a constant CDB | the same |
| `simple_example.cpp` | one wrapper, locals | `main`, `ReportOnLuns` | - |
| `EString`, `CException` | a string | formatting | all |

How they interact. Every operation of a wrapper but connect starts with
`RemoveConnection` and, if it succeeds, ends with `AddConnection` (disconnect
does not). In between the caller's thread runs the event loop, in which libiscsi
calls back the static functions that set `mClient.finished` and `mClient.error`.
An operation that throws does not put the wrapper back. The background thread
sleeps until the deadline of the first connection of the list, services it with
the mutex held, gives it a new deadline and moves it last.

What makes each part correct:

* the background task: it and a caller never use a connection at the same time;
  a listed connection is serviced in its turn, by a thread that runs and wakes in
  time; a removal takes off the caller's connection and no other; a stop ends;
* the wrapper: a call ends by the answer to its own request; only a working
  connection that waits for nothing is listed; every failure leaves a state in
  which later calls fail in order; only `iSCSIConnect` itself can use a null
  context (line 336);
* the requests: setters in any order leave each other's fields alone, lengths in
  the CDB are those of the buffers, an answer arrives as far as there is room,
  and a getter returns what the target holds or throws;
* the example: it makes its calls in an order the wrapper allows, and ends.

What is hard in it: a list, a flag and a stop protocol that are shared by
threads and read in places without the mutex; a poll made with the mutex held;
time-outs that are acted on after the mutex has been let go of and taken again;
state in `mClient` that outlives the operation it belongs to; failures half-way
through an operation; redirections, which are a sequence of four operations in
one; bit fields that share a byte, and a buffer that is replaced in the middle
of a sequence of setters; answers that are cut off anywhere, residuals that have
to be subtracted from the right number, and a parse that an exception leaves
half done. PROJECT.json lists these hazards line by line, with
the properties that cover them.

## Modules

| Module | Models |
|---|---|
| `BackGround` | the background task, its mutex, condition variable and list, the foreground threads, the clock and the targets |
| `Handoff` | abstract specification: who has a connection in hand |
| `Session` | one wrapper: every operation, callback and failure |
| `System` | `BackGround` and one `Session` together |
| `SimpleExample` | the example program, composed with `Session` |
| `Buffers` | the setters and getters of `SCSIRequest`, as operators |
| `PersistentReserve` | a PERSISTENT RESERVE OUT request and its setters, on `Buffers` |
| `Requests` | every request class: constructors, setters, execution, getters; extends `PersistentReserve` |
| `MC...` | the instances for TLC |
| `BackGroundProofs`, `HandoffProofs`, `SessionProofs`, `SystemProofs`, `SimpleExampleProofs` | theorems about the task, its list, the wrapper, the two together and the example |
| `RequestsProofs`, `FormatsProofs`, `AnswersProofs` | theorems about the primitives and PERSISTENT RESERVE OUT, about the bytes of CDBs and pages, and about the answers and the getters; each extends the one before |

### BackGround

Variables have the names of the code: `mConnections`, `mStop`, `mWorkMutex`
(with its holder as value). `bgPC` and `fgPC` are where the threads are.

* A method that holds the mutex from its first to its last line, and does
  nothing in between that another thread could see or wait for, is one action:
  `RemoveErase`, `StopSignal`, `BGWait`. `AddConnection` is two (`AddEnter`,
  `AddPush`), because it starts the background thread while it holds the mutex,
  and servicing is two (`BGServe`, `BGService`), because poll blocks there.
* What is read without the mutex is a step of its own: `RemoveReadSize` (line
  107), `StopCheck` (line 66) and `BGCheck` (line 155). The first may also see
  one element too many (`SizeSeen`) when another thread is inside a critical
  section: `size()` races with `push_back`, which is undefined behaviour, and
  these are the two values that the size has on the way.
* `timed_wait` is three steps: it lets go of the mutex (`BGWait`), ends by a
  notification, a time-out or spuriously (`NotifyOne`, `BGTimeout`,
  `BGSpurious`), and returns when it has the mutex again (`BGLoop`, `BGServe`).
* Time is what is left until each deadline, so that it needs no bound. Units are
  abstract: `Period` stands for 15 seconds and `IdlePeriod` for 30. Because a
  deadline matters only while its connection is listed, `due` is 0 otherwise;
  likewise `timeOut`, `fgConn` and `fgIndex` where the program does not read
  them.
* What a wrapper does between the list operations is reduced to its outcome:
  `OpReturn`, `OpThrow`, `OpDisconnect`, `OpNullContext`. `Session` models it.
* `iSCSIConnect` makes a context (`Connect`) or gets none. It then gives the null
  context to `iscsi_get_error` (line 336), and either the process ends there
  (`ConnectNullContext`) or nothing of what this module is about has changed and
  an exception is thrown.
* The uninitialised `mStop` of the constructor starts as FALSE: nothing reads it
  before `StartBackGroundTask` writes it.
* An exception out of `BackGroundThread` ends the process (`alive`), and so does
  the use of a null context or of a destroyed wrapper.

Three things are assumed of the program, each a constant or a guard. `Owner`:
only one thread calls the methods of a wrapper (the class has no lock of its
own). `Careful`: the program takes a wrapper off the list before the wrapper or
the singleton is destroyed; `bg_single` and `bg_multi` drop it (FALSE) and show
what holds without it. Only `Main` calls `StopBackGroundTask`, as the destructor of the
singleton does.

`holder` maps a state to one of `Handoff`, wrapper by wrapper (`HolderOf`): a
wrapper is "lost" when it is gone, or has a context and nobody has it; "thread"
when the background thread services it; "list" when it is listed; "caller" when
its thread uses it; and "none" otherwise.

### Session

`phase` is "idle", "begin" (off the list) or "service" (in the event loop); `op`
is the operation; `pending` is the request that libiscsi has not answered;
`registered` is membership of the list. `outcome` and `reply` record how the
last operation ended and what the target reported, `moved` that the target
redirected the last login that failed, for the properties. Requests of the
caller are in any order, any send may fail, any answer may be good, bad or
missing, poll and `iscsi_service` may fail at any turn. When there is no context
to be had, `iSCSIConnect` throws (`ConnectFails`) or the process ends at line 336
(`ConnectNullContext`): libiscsi is external, and both can be.
`iSCSINormalLoginWithRedirect` pushes its further calls on `todo`. libiscsi is
modelled by how the wrapper uses it: one callback per accepted request, inside
`iscsi_service`; a failed service may or may not have called it.

### System

`BackGround` chooses how an operation ends, and `Session` takes it as given that
its wrapper is on the list or not. `System` has the variables of both and makes
each step of the wrapper `Self` a step of both: `RemoveErase` is `Remove`,
`OpThrow` is one of the failures, `AddPush` is `Finish`, `BGThrow` with `Self` at
the head is `BackGroundThrows`. `Session`'s `mIscsi`, `registered` and `alive`
are then expressions over the list and the contexts. The property
`ImplementsSession` is that nothing happens to `Self` that `Session` does not
have. Since the guards of some joint steps repeat those of `Session`, what this
tests is the rest: the steps of the list, of the background thread, of the other
wrapper and of the program, which `Session` must allow or not notice. What it
adds to both is `ServicedInPeace`, which needs the state of the two, and
`InStep`: each model has its own account of the call that the thread is in
(`fgPC` and `fgConn`; `phase`, `op` and `todo`), and the two agree in every
state, so that the joint steps hold neither of them back where the code goes on.

It is for programs with one thread: then `RemoveConnection` takes off `Self` or
throws (theorem `OwnErase`), so that `Self` has no `OpNullContext`. With two
threads the list is not what `Session` takes it for (`bg_erases_another`).

### SimpleExample

`stage` is the call of `main()` or `ReportOnLuns()` that comes next; the module
extends `Session` and gives its operations the example's order. Getters that may
throw on what a target returned are a choice. The objects `turRequest`,
`turRequest2` and the like are new in each turn of the loop, hence `executed` is
cleared. `DiscoveryList[1]` past the end of the vector may or may not survive.

### Buffers, PersistentReserve and Requests

A word is the set of its bits that are 1: shifts and masks are then operations
on sets, exact for C's 32 bit int, and TLAPS can reason about them. Buffers are
sequences of bytes. `PersistentReserve` has a history variable `fields`, what
the caller has asked for, against which the bytes are compared. Its setters are
those of both classes, with the virtual ones resolved by `kind`. A setter whose
tests fail changes nothing and is left out. The first constructor takes any
allocation length (`Lengths`). With less than 24 bytes, the setters of fields
that are outside the buffer throw, and `SetTransportIdList` reads past its end:
what it finds there is any byte of `Stray`. `fields.whole` is that the request
was constructed with room for the header; only then does `FieldsIntact` claim
anything.

`Requests` has one request at a time, of the class `kind`. A `New...` action is
a constructor, `Execute` is what `iSCSIExecSCSISync` does to the request: it
makes the task's direction and length from the class (`Direction`), lets the
target answer, and copies as much of what arrived as the buffer has room for
(`Copied`, the `std::min` of line 837). The target is external: it holds some
information (`Holdings`), lays it out as the SCSI standards say, cuts it off at
the allocation length it finds in the CDB, and libiscsi cuts it off at the
expected transfer length and reports the residual (`Receive`). `held` and
`asked` are history variables: the information itself, and the address and
length that the caller asked for. The getters that only read are operators, and
the properties compare them with `held`; `Throws` stands for an exception.
`GetDescriptorCount` is an action, because it fills `mDescriptors` and an
exception can leave it half filled; its loop is the recursive function in
`Walk`. `RetryReportLuns` is the second request of the example.

## Runs

Passing runs:

| Run | Instance | What it shows |
|---|---|---|
| `bg_single` | 1 thread, 3 wrappers, `Careful` FALSE, targets that close | types, the list is served, erasures are one's own, the process ends in the known ways only, refinement of `Handoff` |
| `bg_multi` | 2 threads, 3 wrappers, `Careful` FALSE, finite poll | what still holds with several threads and careless programs: exclusion, no connection listed twice or in use, the list is in the order of its deadlines, the thread never oversleeps |
| `bg_live` | 1 thread, 2 wrappers | every listed connection is serviced, callers proceed, the stop returns, the hand-over's liveness |
| `session` | 2 requests, 3 discovery replies | the session's properties; a failure is final; every call ends |
| `system` | 1 thread, 2 wrappers, one of them in full, 1 request | the composition implements `Session`, the two accounts of a call agree, and the background thread finds the wrapper at peace |
| `example` | 2 LUNs, 3 discovery replies | the example uses the wrapper as it must, and ends |
| `requests` | 5 sizes and what `MCRequests` lets a target hold | every class: the CDB is what was asked for, the answer arrives, the getters tell the truth |

Runs that end in a counterexample, each for something that a comment or a
constant of the repository says and the code does not do:

| Run | What the repository says | What the code does |
|---|---|---|
| `bg_erases_another` | "Now find and remove the object of interest" (iSCSILibWrapper.cpp:111) | with two threads it may erase another's connection: the size is read before the mutex is taken |
| `bg_caller_blocked` | "We will never get in the way of a real request response" (143) | poll waits for a silent target with the mutex of the list held |
| `bg_quiet_target` | "check to see if there are any incoming data ... and if so, process it" (140) | with a finite time-out and no data, an exception ends the process |
| `session_redirect` | "It still allows you to check for whether it was redirected" (iSCSILibWrapper.h:166) | a redirected login throws before the redirection is recorded |
| `pr_type` | WRITE_EXCLUSIVE_REGISTRANTS_ONLY is a type of its own (libiscsi-1.patch:50) | it is reported as WRITE_EXCLUSIVE |

The models have other such steps, which no run is spent on. In the background
task and the sessions: `StopBackGroundTask` tests for an empty list without the
mutex (66), so that with two threads a connection may stay listed and unserved;
the thread may service a connection before its deadline (180); a wrapper (221)
or the singleton (45) may be destroyed with a connection listed, in particular
by the example after an exception; an attempt to connect after one that failed
is "already connected" (315); an operation after a failure reports that the
wrapper is not in the vector (133) and never the "previous error" of its
message; a context that could not be created is asked for its error (336); the refusal of a request that has been executed already (768-774)
leaves the session as unusable as any other failure, and nothing resets a
request, although the message speaks of it; the example takes the second target
(simple_example.cpp:287).

In the requests, where `InquiryTruthful`, `AnswerArrives` and the model itself
say what is left out of a property for it: a PERSISTENT RESERVE OUT request
constructed with less than 24 bytes sends what was in memory after them when its
list is set (SCSIPersistentReserveOut.cpp:67), and the length of one with more
than 65535 is truncated (31, 65); `SCSIRead10` uses one number as the
count of blocks in the CDB and of bytes in the buffer (SCSIRead.cpp:38);
`SCSIReportLuns` writes its allocation length into the high half of the field
(SCSIReportLuns.cpp:35), without which the overflow that the example tests for
would not show; `SetEVPD(false)` leaves the bit in the CDB (SCSIInquiry.h:60);
`SCSIReadCapacity16` declares no direction, and nothing arrives
(SCSIReadCapacity.cpp:41-47); `GetIDShort` returns a `uint8_t`
(SCSIInquiry.h:162); `SCSIReadCapacity10::GetCapacity` returns the address of
the last block (SCSIReadCapacity.h:33).

Bounds. Three connections are the fewest with a first, a last and one between
them, which the rotation and the order of deadlines need; two threads are the
fewest for every race between callers, and the background thread is one in the
code. `Period` is 1 and `IdlePeriod` 2: enough for two deadlines to differ and for
a sleep to be longer than either. One request would hide that a refusal concerns a request already executed,
so `session` has two. Replies with none, one and two targets cover every branch
of discovery and of the example. `MaxLuns` = 2 lets the loop turn again.
`system` has what `bg_single` has not, the full wrapper, and less of the rest:
two wrappers, so that one of them can be at the head while `Self` is in use;
discoveries report nothing there, since `session` is
about them. In `requests` the sizes are 1, 7, 12, 22 and 48: too short for any
header, shorter than a header of 8, one element, the last byte that the
reservation's type needs, and enough for everything. The lists of pages have 3
pages, none, and 31, 32 and 33, around the 32 that the buffer has room for; the
LUN lists go up to 6, which 48 bytes do not hold; one of the transport ID lists
is accepted by REGISTER AND MOVE and one is refused; the allocation lengths are
24, the default, 26, and 20 and 8, without room for the flags and for the second
key. `MaxDescriptors` stops
`GetDescriptorCount` from appending for ever after exceptions. The theorems do
not have these bounds.

Fairness. Threads that can run do (WF); where a step needs the mutex, it is SF,
that is, the mutex starves nobody that asks for it again and again. The clock
goes on. Sends and answers of the target are not fair in `FairSpec`: with it
alone `CallerProceeds` fails (`bg_caller_blocked`). `FairTrafficSpec` adds that
every target goes on sending NOP_INs, which the code cannot ensure and `bg_live`
needs. In `Session`, an accepted request is answered (a finite `mTimeout` would
end the call instead). Callers owe nothing: they may never call again.

## Proofs

For all values of the constants, under the modules' named assumptions. In the
background task and the sessions: there is a main thread, owners are threads,
periods are positive, markers are not threads, wrappers or requests, replies are
lists of targets. In the requests (the names are those of the assumptions):
words are words and buffers are sequences of bytes (`InputsAssumption`); a size
is positive and with the header of a VPD page it fits the 16 bits of its field
(`SizesAssumption`: what a longer one does is listed under *Not modelled*); a
target has what the standards let it have, that is, a length fits the one, two
or four bytes that the page has for it, and there is at most one reservation
(`StandardAssumption`, `ListsAssumption`, `LunsAssumption`, `KeysAssumption`,
`IdsAssumption`, `IdLengthsAssumption`, `ReservationsAssumption`); the list of
LUNs is within reach of a request for all of it, whose size is again one of 16
bits; the length of a list of keys has at most 31 bits, so that neither
`GetKeyCount` nor a number of TLC's overflows; and the mark for an exception is
no value of a getter (`ThrowsAssumption`). TLC evaluates all of them on the
instances of the runs.

* `BackGroundProofs`. The inductive invariant has layers, each proved step by
  step with the ones below it. *Inv1*: types, and who holds the mutex in which
  state, which makes the background thread's servicing exclusive (`TypeCorrect`).
  *Inv2*: a thread runs the methods of its own wrappers only, a wrapper without a
  context is neither listed nor about to be, and nothing is listed twice or while
  in use; hence `OffTheList` and `Exclusion`. *Inv3*: no deadline is more than a
  period away, the list is sorted, and no sleep goes past a deadline: a push with
  a full period keeps the order just because nothing on the list can be later;
  hence `Sorted` and `Deadlines`. *Inv4*, with one foreground thread only:
  nothing is listed between the test of `StopBackGroundTask` and its join, and
  the size that `RemoveConnection` read is not less than the size when it has the
  mutex; hence `Served` and `OwnErase`. With two threads both are false;
  `bg_erases_another` shows the second so.
* `HandoffProofs`. With one foreground thread, `BackGround` implements `Handoff`
  (`HandoffRefined`), for any number of wrappers. *Inv5* adds to the layers that a
  connection in use has a context (`UseInv`), since what was taken off the list
  was the caller's own. The mapping is taken wrapper by wrapper: a step that
  leaves all but one `HolderOf` alone is a step or a stutter of `Handoff`, and
  each action of `BackGround` moves at most one. The rotation of the list moves
  none. With `Careful` and any number of threads, nobody follows a pointer to a
  wrapper that has been destroyed (`NoDanglingPointer`, from `NoneGone`: what is
  listed or in use is not gone). With one thread, `Careful` or not, the process
  ends by itself at line 336 or in the background thread, where
  `ServiceISCSIEvents` throws or the wrapper is gone, the latter only in programs
  that are not `Careful` (`EveryEndIsKnown`); in particular no operation that
  `RemoveConnection` lets go on is without a context.
* `SessionProofs`. One invariant, the conjunction of `TypeOK`,
  `QuietWhenListed`, `ContextInUse`, `OnlyItsOwnAnswer` and `MessageOfTheError`
  with what ties them (`CallInv`): an operation that has begun is on a
  connection without error, one in its event loop keeps it, is connecting, or
  has an error, and an error needs a context. Hence `SessionTypes`,
  `ListedIsQuiet`, `HasContext`, `OwnAnswer` and `OwnMessage`; `FailedForGood`
  follows from the actions one by one. `FreshDiscovery` needs one thing more
  (`FreshInv`): the pairs of a discovery that waits are those of no reply, and its
  callback makes them those of its own, which only the invariant's "the answer is
  to the request of the operation" gives.
* `SystemProofs`. `System` implements `BackGround` (`ImplementsBackGround`), so
  that Inv1 to Inv5 hold in it, and implements `Session` (`SessionRefined`). In
  the second, the steps of `Self` are easy, and the others are the proof: a
  removal for another wrapper does not take `Self` off (`OwnErase`'s invariant), a
  rotation keeps it, and an exception of the background thread on behalf of
  another is `AnotherFails`. The theorems of `SessionProofs` then hold of `Self`
  through the mapping, and `InPeace` puts both sides together: what the background
  thread has at the head is listed, hence quiet. `AccountsAgree` is inductive with
  Inv1.
* `SimpleExampleProofs`. The program's invariant (`PInv`) is the wrapper's and
  two things of its own. *Position*: what a call that returned leaves behind
  (`Left`: on the list, or without a context after a disconnection) is what the
  next one finds, and a request that is executed is a new one; so a call that has
  begun may run (`Runs`). *PairsInv*: the pairs are those of the reply from the
  discovery until the list is used. Hence `CallsAreLegal`, `ListIsStillThere`,
  `LeavesNothing` and `ProgramTypes`.
* `RequestsProofs`. First the operators of `Buffers`: `setBufferBitArray` keeps
  every other bit and reads back (`OtherBitsKept`, `BitsReadBack`); `ntohs` and
  `ntohl` undo `htons` and `htonl` (`WordReadsBack`). Then, for every sequence
  of constructors and setters, with any inputs and allocation lengths: a PERSISTENT
  RESERVE OUT request that was constructed with room for its header keeps it
  (`TypeCorrect`), and then each field holds what was asked for last
  (`NoSetterDisturbsAnother`). The invariant `PRInv` is these two and that the CDB
  has the low 16 bits of the buffer's size (`LengthWord`); the argument
  is one of disjointness: a lemma says which bytes the fields are read from, and
  each setter that changes bytes elsewhere, or bits elsewhere in the byte that
  the flags share, leaves them as they were. The flags need that the reserved
  bits are clear, and the longest lemmas are about the buffer that is replaced.
* `FormatsProofs`. A number that fits is read from a word as it was written
  (`ValueOfWord`, from the weights of the bits of a byte), and `FlattenSeq` puts
  each of its sequences where those before it end. With these, the fields of each
  CDB and of each page are where the standards say. *CdbInv* says of every class
  what its CDB has (opcode, page or action, address, length); it is stated field
  by field, since a setter keeps the other fields and not a formula of bytes.
  Hence `AddressesIntact`; and of `PRInv`'s word, that it is the size as a number
  while that is at most 65535 (`LengthOfTheBuffer`).
* `AnswersProofs`. *AnswersInv* has four parts: the sizes of the buffer and of the
  request are those of the class (`SizesInv`), the page that was answered is one
  that the class can ask for, and a retry asks for the length of what it will get
  (`HeldInv`), what was received is the first so many bytes of that page, with the
  residual that belongs to it (`ReceivedInv`), and the buffer has it or has been
  reset (`BufferInv`). It needs CdbInv: how much is sent depends on the length
  that the target finds in the CDB, and which page on the opcode
  (`AnswersInvariant`). Every getter is then a statement about one field of one
  page, cut off somewhere: `EveryAnswerArrives` (of every class but
  SCSIReadCapacity16, which declares no direction; the residual is part of it), `EveryKeyIsRead`,
  `EveryLunIsRead`, `EveryReservationIsRead`, `EveryInquiryIsTruthful` and
  `EveryPageIsFound`.

  `GetDescriptorCount` walks along bytes that the target chose. Its recursive
  function is reasoned about without a theorem of induction, whose operator
  parameter the provers cannot instantiate: `UpTo` says of a set of numbers what
  induction would say, since a set of naturals has a least element. With it a
  solution of the recursive equation is constructed from the end of the page to
  its beginning (`WalkExists`), and any solution finds, from each descriptor on,
  the offsets of the rest of the list (`WalkFinds`). *DescriptorInv* keeps
  what the walks have left: each offset is that of a descriptor whose header was
  received; a walk that threw did so because the last header was not, so that no
  later one can succeed and count the first ones twice. Hence
  `EveryDescriptorIsRight`; and `RequestTypes` follows from all the invariants. Its
  bound on the answer is libiscsi's doing, which is told the size of the buffer
  (line 804). The copy of `iSCSIExecSCSISync` stays within the buffer by its own
  `std::min`, whatever arrives (`CopiedWhole` shows that with the bound it loses
  nothing).

Every invariant and every action property of the passing runs has a theorem, and
so have the two refinements. Only model-checked is what needs fairness, since
liveness and ENABLED are beyond the prover: the four properties of `bg_live`, and
that every call of `Session` and the example itself end (`CallsEnd`, `MainEnds`).

## Not modelled

The texts of messages and everything printed, among them the names for status,
sense, device type and identifier codes; names and addresses as strings, and the
setters that keep them; libiscsi and the sockets beyond what the wrapper and the
requests see of them; `iSCSITaskAbort`, `iSCSITaskSetAbort` and the target
resets, which are declared and nowhere defined; the patch of libiscsi and the
build.

Of the requests: `GetHexID`, which formats, and `GetIDShort`, two bytes of an
identifier that the model keeps whole; the getters of the generation of
persistent reservations and of the two words of a capacity, one word each;
`SetXferDir` as an operation of its own, since only constructors call it; a
SCSIRead10 with a buffer of its caller's; and, of the classes that read,
constructors with sizes beyond 65535, whose low 16 bits go into the CDB. Memory is
modelled only where the order of events matters (a wrapper destroyed while
listed).

## Plan

What is left: a composition for several threads, once `RemoveConnection` reads
the size with the mutex held; proofs about what the runs that end in a
counterexample leave of their properties (which erasures are one's own with
several threads, how long a caller can be blocked); and `System` with the
example as its program.
