# A TLA+ model of monitor_node

`monitor_node` tests the links between the boards ("nodes") of a rack: Ethernet,
CAN and RS485.  On every node one process runs a thread per configured
interface.  *Test* interfaces send 20 messages in every round of 10 seconds,
*listen* interfaces count what arrives, and the counts of all nodes are brought
to the node of the *center interface*, which writes them to a file.  There is no
handshake anywhere: rounds come from the clocks, batches are sent twice instead
of being acknowledged, and a supervisor restarts what goes wrong.  This project
asks whether the counts, the table and the file can be relied on under these
circumstances.

Paths below are relative to `src/src/`; the C files are encoded in GB18030.

## Inventory

| Component | Code | State | Operations | Talks to |
|---|---|---|---|---|
| Round counting | `one_interface_operator.c` 77-375 | `cnt_array`, `round_array`, `cnt_mutex_array` | `deal_with_mnt`, `test_upon_one_interface_in_one_time`, `listen_upon_one_interface_in_one_time` | called by a detached thread per message (`firmware.c`, `deal_async`); publishes into the table |
| Table of results | `base/info_manager.c` 800-1140 | `communication_info_array`, `communication_info_cnt`, `memoried`, `communication_info_lock` | update, batch of changed entries, merge of a received batch | shared by all test and listen threads |
| Synchronisation | `one_interface_operator.c` 335-373, `info_manager.c` 945-1140 | the batch, the messages on the link | parse, send twice, two parts per round; merge at the center | from every node to the node of the center interface |
| Result file | `base/info_manager.c` 800-857 | the file, its lock, `if_newest_flag` | `write_communication_info_array_to_json` | run by every test thread of the center node |
| Supervisor | `interface_group_operator.c` 658-795 | child pid, ping results | fork, wait, ping, kill, reset of the switch chip | owns the process that runs all of the above |
| Start and initialisers | `interface_group_operator.c` 311-380, `initializer_closer_lib.c` | `initialized_flags`, sockets, thread ids | initialise each interface, create and join its thread | several interfaces share one device |
| Statuses of half-duplex links | `status_chooser_lib.c`, `firmware.c` 538-756, `one_interface_operator.c` 17-24 | status of each interface | odd, even, each round, by mode | test and listen thread of a link |
| Message dispatch | `firmware.c` 6-528, `msg_generator_lib.c` | - | segmentation to a driver, padding, detached thread per message | drivers below, counting above |
| Configuration | `base/info_manager.c` 384-797, 1179-2434; `interface_group_operator.c` 515-656, 798-969 | `interface_info_array`, split and overall files | XML to JSON, checks, split by node, load | read at the start, before the first fork |
| CAN driver of the FPU | `base/can_fpu_recv_send.c`, `base/MIX_Control_Code/.../mcmMain.c` | one-slot mailbox per bus, semaphores | callbacks of the gateway, blocking receive | gateway tasks |
| CAN gateway | `base/MIX_Control_Code/all_code/src/{can_app,udp_Client,udp_Server,udp_Main}.c` and `vos_*` | message queues, semaphores, configuration and life state | UDP tasks of each bus, configuration exchange with retries | the MCU, by UDP |
| Other drivers | `base/eth_*`, `base/can_gpu_*`, `base/rs485_*` | sockets, global address and frame buffers | send, receive with timeouts | called under no lock |

What is hard here:

* **Concurrency.** Any number of detached threads run `deal_with_mnt` for one
  interface; they read the clock before they take the mutex, so a thread can act
  on a round that is over.  The table lock is released within operations
  (writing the file, merging a batch).
* **Time without agreement.** Rounds are computed from each node's clock, and a
  message is recognised by being equal to what the sender would send *now*.
* **Failure.** Losses, failing sends, the restart of either process, `kill`,
  `ping` and `write` commands that fail.
* **Ordering.** Copies of batches may overtake each other and are merged by
  overwriting.

What makes each component correct: the counter loses no recognised message,
publishes each round once and in order, and does so eventually; the cursor
starves no entry; a result reaches the center although messages are lost, and
the center never goes back to an older one while the order is kept; the file is
one whole table after an undisturbed write; there is at most one child, and it
always comes back.

## Modules

| Module | Models |
|---|---|
| `RoundCounter` | One listening node, the test thread of its peer, both clocks, the link between them |
| `RoundCounterProofs` | Its theorems |
| `InfoTable` | What a batch takes from the table and where the cursor goes |
| `NewestCursor` | How long a changed entry waits for a batch |
| `NewestCursorProofs` | Its theorems |
| `ResultSync` | A node, its link to the center, and the center |
| `ResultSyncProofs` | Its theorems, the refinement of `ResultChannel` among them |
| `ResultChannel` | Abstract: what the center may show |
| `ResultFile` | The writers of the result file |
| `ResultFileProofs` | Its theorems |
| `Supervisor` | The parent process, the child, the boards it pings |
| `SupervisorProofs` | Its theorems |
| `CanGateway` | The CAN path: initialiser, server and client tasks, callbacks, arrays, queues, threads |
| `CanGatewayProofs` | Its theorems |
| `HalfDuplex` | Two nodes on a serial line: choosers, test and listen threads, frames cut in pieces, clocks |
| `HalfDuplexProofs` | Its theorems |
| `Interfaces` | The table of a node and its accessors |
| `Configuration` | The commands and files from XML to the table of a node; extends `Interfaces` |
| `Startup` | Initialisers, creation and joining of the threads; extends `Interfaces` |
| `Firmware` | `set_status`, `send_message` and `receive_message` with the Ethernet and GPU CAN drivers; extends `Startup` |
| `Node` | Composes `Configuration` and `Firmware` |
| `NodeProofs` | Its theorems |
| `MC...` | Symmetry and instances for TLC |

`ResultSync` and `NewestCursor` extend `InfoTable`, so both use the same batch;
`ResultSync` implements `ResultChannel` by `ChannelSpec`.

### RoundCounter

`now` and `peer` are the rounds the two clocks show; `Skew` bounds their
difference.  `air` counts the messages under way by interface and label, the
round they were generated for.  A thread of `deal_async` goes through `started`,
`ready` (clock read), `held` (mutex taken), and either ends or, when it has
published, goes through `published`, because `update_communication_info_array`
takes the table lock in between.  CAN messages carry no round, so `Expected`
is always true for them; that the text cannot be recovered from the table of another node
is covered by `Lose`.  A turn of the sending loop that is skipped because of
the interface's status is covered by `Lose`.  `result`, `counted`, `reported`,
`pubs` and `sent` are history variables.

A restart puts back what the parent process had when it forked: it has called
`init_test_or_listen_record_arrays` and nothing else.

### InfoTable and NewestCursor

`EndsAt` says where the loop of `parse_newest_communication_infos_to_json`
stops, `Taken` what it has put in the batch, `NextMemo` where `memoried` is
left: *at* the last entry taken, or at 0 when that is the end of the table.  The
flags start with any value (`flag0`): the loader does not set `if_newest_flag`.
`age` counts the batches that passed an entry over.

### ResultSync and ResultChannel

A result is the number of its publication, an entry of a batch a pair of index
and result.  `time` and `part` are the two loops of the sender.  `SendFails` is
the `return _ERROR` in the middle of them.  `Deliver` takes the first waiting
message and `Overtake` any later one: on the center each message has its own
thread, and they compete for the mutex of the receiving interface.
`ApplyEntry` is one turn of the merging loop, because the table lock is given
up after each entry.  One node and one link are modelled: the entries of nodes
are disjoint, there is one center interface in a configuration.

### ResultFile

`Open` truncates under the table lock; `Parse` takes the table as it is by then;
`LockFile`/`Refused` follow the return value of `flock`, whose argument
`F_SETLK` has the value of `LOCK_EX | LOCK_NB`; `Write` marks and writes under
the table lock; `Close` gives the file lock back (the call meant to unlock is
again `LOCK_EX | LOCK_NB` and does nothing).  A text is the table it shows and
a length: a number with more digits (`Wide`) makes it longer.  A failing `open`
returns without effect and is left out.

### Supervisor

One action per step between two system calls of the parent.  `link` is what a
ping of each board would report; `pingFails` stands for every status that is
neither 0 nor 256.  `waitpid` returning -1 is unreachable and left out.

### CanGateway

The eight buses hang on a microcontroller (MCU) reached by UDP.  The source has a
copy of each task, callback and initialiser for each bus; the copies differ in
the objects they name only, so there is one action for all of them, `b` or `c`
being the bus or the com, and the tables `ServerBus`, `DataBus`, `CfgSem` and `CfgArray`
being the `switch` statements that choose the objects.  (`map` in `PROJECT.json` names one or
more of the copies.)

`ini` and `entry` are the loop of `test_or_listen_upon_interface_group` with
`can_fpu_initializer_normal` and `comCfgInit` inlined; `flag` is
`initialized_flag`.  `FinishEntry` flags all entries of the channel in the step in
which the entry succeeds: only the initialiser reads the flags.  `server`, `hand` and `socket`
are the server task, its receive buffer and the kernel's; `slot` is the array of
the bus, in two halves written and read in two steps, which is what a `memcpy`
interrupted in the middle amounts to; `sem` is the POSIX semaphore, zero while it
is static data nobody has initialised, as `sem_wait` finds it under Linux.
`memset` and `sem_post` are one step: between them the semaphore is still taken.
`queue` and `client` are the System V queue of a com and the task that empties it.
`accepted` are the entries whose threads are started.  `thread` is the thread
of an entry: a listener polls in `receive_packet_can_fpu` (a timeout just polls again), a
test thread sends.

`copy[0]` and the pcs from `wait` to `clear` of `ini` are the initialiser's own
polling for the answer of the MCU.  It is entered only when `msgsnd` has
failed: `comCfgInit` loops `while(retValue != OK)` on the result of queueing.
`cfgResponseRecv` assigns to the head of the copy instead of comparing it and looks at two bytes
more, so a frame of data in the array may be taken for the answer or not (`CfgClear`).
`sent` counts frames of data only: the configuration request goes through the same queue and
is none of those that `passed` counts.  A failing `sendto` ends the client task, and the frame it held is lost with
the queue: the one more of `SendsLostBounded`.

External are the MCU and the network: `McuSend` numbers its frames, and may lose them. `Fault` is a
failing system call: task creation, `socket` or `bind`, `recvfrom`, `msgget`, `sendto`.
A client task whose socket cannot be made is the same as one that was not created.

### HalfDuplex

A node has two entries for its port, `test` and `listen`, each with its own status;
`update_status_in_current_round` is part of `BeginRound` and `BeginCall`.  The direction of the port
itself is never switched (the code for it is commented out), so only the statuses, which follow
from the clocks, keep the two ends apart.  Time is discrete: a tick is the pause between two
packages, and threads run at once, except that a test thread may be late by `MaxLate` ticks
in a round; a round that is skipped after a start is over at once, and its delay with it.
A frame is a head with the text and a tail with padding; `ReadPiece` appends what is there and `Deal`
takes a full frame or, after the timeout, a part of one.  `LoseByte` removes a piece, so
that the rest of the frame is read with the next one until a timeout comes between.  `hurt`, `sent`,
`counted` and `since` are history variables.

### Node and its parts

`phase` follows one process: the shell in which the commands are run, the two loops of
`test_or_listen_upon_interface_group`, and the endless threads.  XML elements and JSON objects are
functions on the names they hold; an absent property is `Null` from the XML and no field in
the JSON, as `cJSON_AddStringToObject` does nothing for `NULL`.  The four copies of the code that writes and
reads an entry are four definitions.  Files have a length in interfaces: what does not fit in
`BUFFER_SIZE` does not parse, and what does not parse loads as an empty table (the count of -1
that the code sets runs no loop either); the arrays for its threads, of size 0 or -1, may end the process (`Run`).  A crash by a `NULL` is modelled where it happens:
before a file is written (`XmlToJson`, `split_into_target`), or as `phase = "crashed"`.

In `Startup` the initialisers are run for one entry after the other (`next`); each may fail
where a system call may.  Descriptors are the lowest free numbers.  A port without a path cannot be
opened (`openPortRaw` refuses it).  An initialiser flags the entries of its own type: one that is
named for an entry of another type succeeds and leaves that entry without a descriptor, which
`StartedHasDevice` excepts.  The socket of `eth_initializer_xy`, too, may hold a frame from before it
was bound (`EarlyFrames`).  `JoinedUnset` are the
joins of ids that were never set: their outcome is chosen, death of the process or return.
The thread of a listen entry joins such an id too when it could not create the thread that
listens (`CreateThread`); a join that waits for ever is then a thread that makes no call.

In `Firmware` each thread is in at most one call, whose steps are those between which other
threads can be seen: conversion of each address, its copy, `socket`, `bind`, sending, receiving,
and copying and clearing the array of a CAN channel.  A socket holds the frames that came since it was
opened, `early` those from before `bind`.  A malformed MAC address leaves the shared array as it
was or with some of its bytes (`Partial`).  The drivers by IP address pass their addresses
to `inet_pton`, `inet_addr` and `strncpy` without a look: a call with one that is `NULL` ends the
process (`Dies`), and so may the printing of a structure as a string before a packet of xy.  The status of the entry is chosen for an odd or an even
round in every call; for a sender the code does so once per round, which is one of the
cases.  Frames come from outside and, for a CAN channel, from the sockets of the node itself.

## Runs

| Run | Shows | Bounds |
|---|---|---|
| `RoundCounter` | `NoCountLost`, `AtMostPackagesSent`, `OvercountBoundedByThreads`, `PublishedInOrder`, `ClosedRoundIsPublished`, `TypeOK` | one Ethernet link, 2 threads, 2 packages, 4 rounds, skew 1, 1 restart |
| `NewestCursor` | `NoEntryStarved`, `EveryUpdateIsTaken`, `TypeOK` | 5 entries, batches of 2; no bound on updates and restarts |
| `ResultSync` | `LossesTolerated`, `ChannelSpec`, `TypeOK` | 3 entries, batches of 2, 2 parts, 2 copies, 2 publications, any 2 faults, 2 messages under way |
| `ResultSync_failure` | violated: `NotNewestMeansSynced` | 2 entries, 1 fault |
| `ResultFile` | `FileWholeAndFresh`, `EmptyOnlyIfRefused`, `MarkedUnwrittenChangedMeanwhile`, `TypeOK` | 2 writers, 2 entries with 3 versions, 1 restart, 1 failing write |
| `ResultFile_lock` | violated: `LockProtectsFile` | 2 writers |
| `Supervisor` | `OneChild`, `ResetBeforeRestart`, `ChildComesBack`, `SilenceIsReset`, `TypeOK` | 2 boards, 2 failing kills |
| `Supervisor_crash` | violated: `CrashIsReset` | 2 boards |
| `CanGateway` | `WaitersAreServed`, `CopyIsFreshFrame`, `SendsLostBounded`, `ThreadsStart`, `FrameIsTaken`, `SendsFinish`, `TypeOK` | 2 entries in three configurations, 1 or 2 frames per bus, 3 sends, queue and socket of 1, 1 failing call |
| `HalfDuplex` | `NoCollision`, `CountedWereSent`, `HarmConfined`, `TypeOK` | 2 nodes, 5 rounds of 9 ticks, 2 packages and 1 batch, clocks that differ by 2, a thread 1 tick late, 1 fault |
| `Node` | `SplitAgrees`, `PeersAgree`, `StartedHasDevice`, `DescriptorsAccounted`, `AddressesOfLink`, `DealtFromOwnDevice`, `TypeOK` | 7 systems of two nodes, 3 calls of all threads together, 2 frames, 2 descriptors; any failing call |

Why the bounds are enough: two threads are one that publishes and one that has
read an older round, or the same, and four rounds let a thread be overtaken by two; two
publications are an old and a new result; two faults, of the five kinds, are every pair.
One interface is enough because no state is shared between interfaces but the clock, and
the theorems hold for any number of them, CAN interfaces included.  The
configurations of `CanGateway` are a sender and a listener that share a bus, two
listeners on two buses of which the answers for one are looked for in the array of the other
(com 7 and `Can4`), and a refused entry before a good one; its second frame is the one that can
replace the first in the array, come after it or be confused with it.  All safety
properties of the passing runs are also proved for all values of the constants.

`HalfDuplex`: both nodes send in one round and listen in the next, so five rounds are two turns
each, and one for a restarted node to skip.  The ticks of a round leave as little
room as its assumption allows; with the values of `configures.h` there is more.
`Node`: three calls are two that overlap and one after them; two descriptors are one
for a call and one to be taken by another, kept by an initialiser or left open, and their end
is reached.  Two frames are one that waits and one that comes late.  The systems are: cards by
MAC address, one of them malformed; cards whose entries have two initialisers;
a UDP address and a CAN channel with two listeners each; CAN buses of the FPU and serial
ports, used in both directions, and a CAN interface that names the initialiser of another type; missing settings and unknown names; a link to an interface that
no node has; and a listener without an IP address, whose peer sends to none.  The configuration of one system is never mixed with that of another in a file,
but files of different systems may stand side by side (`origin`).  Once the process of
the node is started, the files are neither read nor written, and the properties about
them speak of the files only: `View` of `MCNode` leaves them out of the states
from there on.

Deadlock is not checked where the horizon of rounds, frames or calls is bounded (`RoundCounter`,
`ResultSync`, `CanGateway`, `HalfDuplex`, `Node`), and is checked everywhere else.  In `CanGateway` and
`Node` the system may really stop, too: see `SendsFinish`, and `crashed` and `exited` of `phase`.

### Fairness

* `RoundCounter`: every started thread is scheduled until it ends.  Weak fairness
  is enough because only finitely many messages compete for a mutex.
  Nothing is assumed of the link, the clocks and the restarts, so
  `ClosedRoundIsPublished` allows a restart instead.
* `NewestCursor`: `Parse` comes again and again, because the test thread is an
  endless loop; `EveryUpdateIsTaken` holds if restarts end.
* `Supervisor`: the parent is a loop of calls that return.
* `CanGateway`: weak fairness for the steps of tasks and threads that do not wait; strong
  fairness for `sem_wait` of the callback and of the listener, which compete for
  a semaphore that is free again and again.  A listener that polls without pause leaves
  `receive_packet_can_fpu` after `wait_time` seconds, and a thread that sleeps in `sem_wait` is
  woken by `sem_post`; that it is not overtaken for ever is assumed of the
  scheduler.  Nothing is assumed of the MCU, the network and the failing calls.

### What the violated runs show

* `NotNewestMeansSynced`: a batch is unflagged when it is built; if sending it
  fails, its results are not sent until the interface has a new one.
* `LockProtectsFile`: opening truncates before the lock is tried.
* `CrashIsReset`: `waitpid` returns the pid of a crashed child too.

Losses and failed sends do not add up: a failed send gives up the copies that were still to come, so
one failed second copy and one loss of the first lose a result although `SYNC_TIMES` is 2.
`LossesTolerated` therefore speaks of fewer losses than copies, or of failed sends alone.

Known and without a run: a message whose thread waited for the mutex while another one
closed its round is counted in the round opened then, so the rx of a result can
exceed its tx, by less than the number of threads (`OvercountBoundedByThreads`).  An entry is marked as "written and not the newest"
(`info_manager.c` 837) although its value is not in the file, when the table changes between
making the text and marking; `MarkedUnwrittenChangedMeanwhile` says that this is the only case.
The two checks of driver names answer `-i` for a bad entry `i`, so a bad first entry
passes, and both look at `base_send_func` (`info_manager.c` 1474-1508).  When an entry is
flagged as initialised by the other initialiser of its card, its socket is never set
(`StartedHasDevice` and `DealtFromOwnDevice` except it).  A write to a GPU CAN channel that fails leaves
its socket open (`can_gpu_recv_send.c` 79; `leaked` in `DescriptorsAccounted`).  Two threads that send at
once may put the addresses of each other on their packets (`eth_recv_send_by_mac_addr.c` 237;
`mixed` in `AddressesOfLink`).  An Ethernet interface without a MAC address loses its other settings
in the file of its node (`info_manager.c` 1215; excepted in `SplitAgrees`), and so would a CAN or
RS485 interface with the channel or the baud rate -1, which the writer takes for a number that was not
set (1237, "assume that -1 is an invalid value"; the hypothesis `PlainDocuments`).
`receive_data_udp` tries for ever to bind an address another listener holds
(`eth_recv_send_by_ip_addr.c` 94).  For a CAN message `deal_with_mnt`
recovers the text from the channel of the linked interface, looked up in the own table: when it is an
entry of another node, that is `interface_info_array[-1]` (`msg_generator_lib.c` 47-57).  The shipped
`fpu-fpu/node_ifs.xml` is longer than `BUFFER_SIZE` and is cut off.
`restart_check` takes only the status 256 of
`system()` for a failure (`interface_group_operator.c` 759), so a `ping` that
cannot run (32512) counts as an answer, although line 758 says otherwise;
`Supervisor` has that branch (`pingFails`).  `comCanSTDCfgInit` prints "successful" when the
request has been queued, whatever the MCU does with it; the MCU's answer is then found
in the array of the bus by the listener.

The properties of `Node` name their exceptions: each of them really occurs in its run, and the run
shows that nothing else goes wrong.

## Proofs

Each theorem holds for all values of the constants that satisfy the assumption of the module; the
assumptions say what sizes are, and in three cases something that the code needs: batches
of more than one entry (`InfoTableAssumption`; with one the cursor would stay where it is), tables of
buses and coms as in the `switch` statements (`CanGatewayAssumption`), and a round long enough for all that
is done in it (`HalfDuplexAssumption`).  Every inductive invariant was given to TLC as an invariant
of the run of its module before it was proved.

`RoundCounterProofs`, for any sets of interfaces, any finite set of threads and any
number of packages, rounds and restarts:

* `TypeCorrect`: `TypeOK`.
* `CountsKept`: `NoCountLost`.  The argument is mutual exclusion (`MutexInv`, theorem
  `MutexCorrect`): of the threads of an interface only the owner of its mutex
  is in the critical section, so nobody changes `cnt` between `Publish` and
  `StartRound`.  `FreshInv` says that nothing is counted while no round is open.
* `PackagesBounded`: `AtMostPackagesSent`, by `SendingInv`: sent and left messages
  of the open round add up, and no round beyond it has been sent in, which is
  what the skipped first round after a restart preserves.
* `OrderKept`: `PublishedInOrder`, from `PublicationInv`: every published round lies
  before `now`, before the open round, and, while no round is open, before every
  round a thread has read.  The last part is what a restart needs: it discards
  the threads with their old rounds.  `ClockInv` says that rounds read are past.
* `OvercountCorrect`: `OvercountBoundedByThreads`.  No more messages of a round are under way or in the hands
  of threads than were sent (`FlightInv`, theorem `FlightCorrect`).  An open round counts its own messages and
  those of *stale* threads, which had read an older round when it was opened; the thread that opened it is
  not one of them, and no thread becomes stale later.  So `cnt` plus the stale threads
  plus what is in flight stays below what was sent plus the number of threads (`OpenInv`, theorem `OpenCorrect`).

`NewestCursorProofs`, for any table size and any batch size above one:

* `TypeCorrect`: the cursor stays in the table.
* `NoneStarved`: `NoEntryStarved`, by `WaitInv`, which bounds the age of an entry by the
  distance of the cursor from it.  The lemma `FullBatchMoves` says that a full
  batch moves the cursor by at least `Max - 1`; it rests on the library's
  theorems about cardinalities.

`ResultSyncProofs`, for any table and batch size, any numbers of parts and copies, and any bounds on
publications, messages under way and faults:

* `TypeCorrect`: `TypeOK`; every message under way is a batch that fits.
* `ImplementsChannel`: the refinement of `ResultChannel`, step by step (`ChannelInit`, `ChannelNext`).
  `KnownInv` says that nothing is shown, under way or applied that was not published.
  `OrderInv` says that, as long as no message has overtaken another one, the results of an entry along
  the way from the center to the node never get older, blanks of a restarted node excepted.
* `LossesMadeUpFor`: `LossesTolerated`.  `KeptInv` counts the copies: for a result that was
  handed to the link, the copies still under way and the losses make up what has been sent of its batch
  (`CopiesLeft`), until one is applied.  It needs that a batch holds the present value of every
  entry it unflagged (`BatchCurrent`).

`ResultFileProofs`, for any table and any number of writers:

* `TypeCorrect`: `TypeOK`; it includes that the owner of the file lock is the one writer between `LockFile` and `Close`.
* `OwnFileWhole`: `FileWholeAndFresh`.  A writer whose opening met nobody is alone until the next opening
  (`Alone`), and its text is at least as new as the table was at the opening (`Progress`).
* `EmptyMeansRefused`: `EmptyOnlyIfRefused`.  Somebody who opened is still to write, or was refused (`EmptiedInv`).
* `MarkedIsWritten`: `MarkedUnwrittenChangedMeanwhile`.  Of an entry that has not changed since some text was made,
  every text still to be written has the present value (`TextsCurrent`).

`SupervisorProofs`, for any set of boards and any number of failing kills:

* `TypeCorrect`: `TypeOK`, which says at which steps of the parent a child can be running.
* `ChildrenBounded`: `OneChild`, as every orphan is due to a failed kill.
* `ResetComesFirst`: `ResetBeforeRestart`, an action property: between a network failure and the next
  fork there are the kill and the reset (`FailureIsHandled`, kept by every step of the parent, `ParentHandles`;
  no other step changes what it speaks of, `ParentAlone`).

`CanGatewayProofs`, for any table of entries, any numbers of frames, sends
and failures, and any positive size of queues and sockets:

* `TypeCorrect`: `TypeOK`, with no semaphore ever above one.
* `WaitersServed`: `WaitersAreServed`.
* `FreshFrames`: `CopyIsFreshFrame`.
* `SendsBounded`: `SendsLostBounded`.

All four follow from `IInv`.  `Control` says where the initialiser and the threads can
be: a channel is flagged for all its entries or for none, so a semaphore is initialised
once (`NotFlagged`, `ReadyNext`).  `Exclusive` is mutual exclusion by
a semaphore that starts at zero: it is zero and unused before it is `Ready`, and
afterwards it is one or held by exactly one of server task, listeners and initialiser.
`Unstarted` says that the server task is spawned once, after its semaphore.
`Pipeline` follows a frame through socket, hand and array: the numbers rise, each
above the last one taken (`Ordered`), and the array is whole unless its server is half way
through it (`Whole`); here mutual exclusion is what keeps the array still
under a listener.  It excepts the bus whose array the initialiser clears under
another bus's semaphore (`GuardedBuses`, com 3 of `appCanCfgDataRecv`).  `Sends` balances frames
passed, queued, sent and gone with the client task: a dead one took at most the one frame it
held (`Dead`).  The request is told from the frames (`Request`): it is queued once, before the first of them.

`NodeProofs`, for any documents, any nodes, any number of descriptors, calls and frames, any texts of addresses
and any channels of the FPU.  `StartupAssumption` says that an unset descriptor is none of the numbers there
are, `ConfigurationAssumption` that the links of a document are a sequence, `FirmwareAssumption` that the
bound on the calls is a number:

* `DescriptorsCounted`: `DescriptorsAccounted`.
* `StartedEquipped`: `StartedHasDevice`.
* `AddressesCarried`: `AddressesOfLink`.
* `MessagesFromOwnDevice`: `DealtFromOwnDevice`.
* `SplitMatches`: `SplitAgrees`, if the documents are plain.
* `PeersMatch`: `PeersAgree`, if the documents are plain.
* `TypeCorrect`: `TypeOK`, if the statuses in the documents are known.

`PlainDocuments` and `StatusesKnown` are hypotheses and not assumptions of the modules, because the code
does not look: whoever writes a node without a name, the channel -1 or an unknown status into an XML file gets a
file of a node that does not load, lacks settings or has that status.  `MCNode` assumes both, so that TLC
evaluates them on the seven systems.

The invariants stand on each other.  `FilesInv`: every file holds what the commands made of some document.
From it follows that every table loaded is `WellMade` (lemmas `LoadedFromOverall` and `LoadedFromSplit`):
entries of the same name have the same settings, because both are looked up by the id in the name, and an entry has the
settings of its own type only.  The first is what makes it harmless that a thread looks its
entry up by name; a thread works on `Index(i)`, which need not be `i`.  `PhaseInv` is the order of
the two loops, `CallInv` the place of each thread in its call and when it holds a descriptor.
`DescriptorInv` says who owns what: the descriptors of calls, of the table and those left open are disjoint, and an
entry with a descriptor of the table has one that is open, of its kind and bound to its card or path (`InTable`).  It needs
that the initialisers treat all entries of a device alike (`Saturated`): else a second opening would
overwrite the first.  With it no step of one thread closes or rebinds the descriptor of
another (`EffectOfSteps`), which the last layers use: `FlagInv` for what the initialisers leave
to the threads; `AddrInv`, by which the shared arrays hold the addresses of
the one thread that makes a packet unmixed; and `FrameInv`, by which the frames
that wait in a descriptor are those of its device or early (`WaitInv`), and the array of a CAN
channel is zeros under a listener only if there is another one (`ArrayInv`).

The theorems about the files rest on `SplitInv`: the file of a node is what the writer made of
the table loaded from its origin, and the origin was made from some document.  Every entry of such a table is
made from one object of the node and every object of the node has its entry (`LoadedAt`), whence the
order and the number of entries are kept.  `EntryReadBack` says that the reader of a node's file inverts the
writer field by field: a string that is there comes back, a setting that was
left out because it is not set reads as not set (`InfoReadBack`), and whole infos are left out only where
none was given (`ObjectReadBack`; here -1 must not be a value).  For `PeersAgree`, the objects of the two ends of a link stand
next to each other in the overall file and name each other (`PeerOf`); where
names are not shared, the search by name finds no other (`LinkedFound`).  `BoundsInv` adds to the invariants
above what `TypeOK` says of a process that has ended, of the bounds and of statuses: the code only
sets those that are known (`StatusesSet`).

`HalfDuplexProofs`, for any numbers of packages, batches, ticks and faults:

* `WireShared`: `NoCollision`, for the two choosers that alternate (`Alternating`).  This is a hypothesis and
  not an assumption of the module, because `work_at_each_round` is a chooser too and the
  configuration is free to give it to both ends of a line.  `Schedule` bounds the clock of a test thread by
  the start of its round, the ticks its steps so far have taken and those it was late; a thread that rests
  notices the next round in time (`OnTime`), so it never begins one in the middle, except the one it
  skips after a start.  Hence what is on its way to the wire was written in the turn of
  its node, at least `Skew` ticks before the round ends by its clock (`OutInTurn`), and two
  nodes that drive the wire would be in rounds of different parity at once.
* `NoneInvented`: `CountedWereSent`.  For every round, the frames counted and those in the call, in the input buffer and
  before the wire are no more than the peer has written (`CountedOnce`).
* `TypeCorrect`: `TypeOK`.  That no round is sent twice (`SentOnce`) is again due to the skipped round.
* `HarmIsConfined`: `HarmConfined`, for choosers that alternate (`Alternating`) and any number of faults in any
  order.  The pieces in the call of the listen thread, in the input buffer and in the port of the peer are
  one sequence, `Line`, which but for faults grows at its end and is taken from its beginning.  `LineInv` says of it
  what the code never checks: in a turn that no fault has touched it is made of whole frames
  (`FramesWhole`), all of this turn and no later than it by the clock of the receiver (`OfThisRound`), and
  the frames counted and those on the line are all that were sent (`NoneLost`).  The first is what the
  deadlines are for.  A call that begins in a turn lasts into the round after it and ends before the next
  turn begins, by the clock of the receiver and by that of the peer (`CallInTime`).  The latter holds because the
  call begins while the peer is not yet a round ahead (`CallsEarly`), which `Start` cannot promise: a first call
  that begins at the very end of a round reaches into the next turn, and this is why `hurt` has, beside the
  rounds a node was down in, the round of its start and the two after it.  So half a frame that a fault has left in a call is dealt with
  before the next turn, and the frames of that turn are read from their beginnings.  That nothing waits in the input
  buffer outside the turn of its writer (`WaitsForTurn`) and nothing is read early (`NothingRead`) follows from
  `OutInTurn` above.  TLC has checked `LineInv` on the run's instance and, on a smaller one, with two faults.

Model-checked only:

* Liveness: `ClosedRoundIsPublished`, `EveryUpdateIsTaken`, `ChildComesBack`, `SilenceIsReset`,
  `ThreadsStart`, `FrameIsTaken`, `SendsFinish`.  They need fairness, which is out of the prover's reach.

## Not modelled

* That `comCfgInit` takes the queueing of a request for its success, against the comment of
  `can_app.c` 1577: the answer of the microcontroller would have to be modelled from guesses about a
  program that is not here.
* The queues that processes leave behind (`vos_EdrMessage.c` 85): the limit is the kernel's.
  That `msgget` fails is modelled in `CanGateway`.
* The closers: the thread of an entry runs its closer after `pthread_join`, which the endless threads never
  let pass, unless a listening thread could not be created and the join of its unset id returns
  (`interface_group_operator.c` 292-301).  The closer then takes the card or port from the other entries
  that share it.  Where that join kills the process instead, it does so a second later
  than `CreateThread`, while other threads go on.
* Restarts of the node's process in `Node`: the next child starts from the same memory of
  the parent and with no descriptors, which is `Node` from `initialise` on again.
  The supervisor itself is in `Supervisor`.
* Serial ports and FPU CAN channels are opened in `Startup`, and their calls are in `HalfDuplex` and
  `CanGateway`: they share no memory with the drivers of `Firmware`.
* The configuration and life servers of the gateway (never started) and its tests;
  the wrapper of the operating system under `vos*.c` except its queues and semaphores;
  the serial console (`uart.c`); printing; lines of input and their length.
* Memory safety.  A table entry may be read unlocked while another thread replaces it
  (`info_manager.c` 1093-1095); the model keeps the order of these steps, not the
  memory.  `split_into_target` frees pointers that were never set, after it has
  written its file.
