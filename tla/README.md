# Verification of KaTaLyzer

KaTaLyzer captures the frames of one network interface, counts them per
protocol, and keeps the counts in MySQL tables that a web page draws.  This
directory holds TLA+ models of the backend, the TLC configurations that check
them on small instances, and proofs checked by TLAPS.

File names below are relative to `src/src/`.

## 1. The system

| part | code | state it keeps | operations |
|---|---|---|---|
| capture thread, flush clock | `backend/katalyzer.c`, `wait_function.c` | `actual_time`, `beggining_time`, `processing_time`, `flag`, `interval`, the list `z_protokoly` | `main`, `dispatcher_handler` per frame, `set_param`, `set_time`, `database` |
| batch hand-over and writers | `backend/katalyzer.c`, `processing.c` | the list in the heap of the writer; tables `<p>_1m_time`, `_1m_IP`, `_1m_MAC`, `_1m_IP_SD`, `_1m_MAC_SD` | `create_db`, `flush_data_into_db`, thread `zapis_do_DB_protokoly`, `processingl` per protocol |
| summary schedule | `sum_table` in `backend/katalyzer.c`, first lines of `cronovanie.c` | `interval`, one int in the heap per call | `sum_table` per flush, start of a `cronovanie` thread |
| summary tables | `backend/cronovanie.c` | tables `<p>_5m_*`, `_30m_*`, `_2h_*`, `_24h_*` | thread `cronovanie` |
| aggregation | `m_protokoly`, `processing.c` | records of a protocol and their `spracovany` marks | book a frame, sum the records of one address |
| decoding | `parse_*`, `eth2_frame`, `ip`, `tcp`, ... in `katalyzer.c` | globals of the current frame | one pass per frame |
| IP/MAC pairing | `pair_ip_with_mac`, `insert_data_to_table`, `clear_pairing_array` | list `z_pair_array`, table `IPlist` | per frame, per flush |
| interface failover (sock build) | `backend/ksocket.c` | the raw socket, the interface, the record of a change | `k_loop`, `raw_init`, `find_dev`, `close_promisc` |
| configuration | `backend/read_conf.c`, `frontend/inc/class_edit_conf.php` | `config.conf` | `read_conf`, `writef` |
| reading the tables | `frontend/inc/class_db.php`, `graph.php` | none | choice of level, ids of a time range |
| scheduled measuring | `frontend/katalyzer-measuring`, `managment.php` | cron entries | start and stop of the daemon |

There are two builds of the daemon: `katalyzer_pcap` (frames from libpcap, live
or from a capture file) and `katalyzer_sock` (frames from a raw socket).

**How the parts interact.**  There is one capture thread.  It calls
`dispatcher_handler` for every frame; at the frame that ends an interval the
handler runs `database()`, which writes the global `processing_time`, makes
missing tables, moves the list to a new thread and starts an empty list, and
then calls `sum_table()`, which now and then starts another thread.  No thread
is joined, no lock is taken.  Writers read `processing_time` when they get to
the INSERT that needs it, which may be after the next flush has changed it.
Writers of different flushes share the tables: each asks for `MAX(id)` of the
four tables and relies on its own rows getting the ids that follow.  The
`_time` table says with which id the rows of a stamp begin; readers and
`cronovanie` find rows by these ids alone.  An error of MySQL in the capture
thread, or a failed connection of a writer, calls `exit()` and ends all of
them.  The init script and the configuration page restart the daemon.

**What is hard here**, by part (the list with source lines is `hazards` in
`PROJECT.json`):

- flush clock: wall clock set forward or back, silence, stamps extrapolated for
  late flushes, a flag that can suppress a flush.  Correct when stamps are
  distinct and increasing (they are primary keys) and not in the future, a
  silence is over after one flush, a frame is stored with the interval it was
  captured in, and a finished interval does reach the database.
- writers: overtaking, shared ids, shared stamp, refused INSERTs, end of the
  process at any statement.  Correct when no frame is counted twice, none is
  lost without a failure, tables exist before they are used, and rows are found
  under the right stamp.
- summary schedule: threads that share an int.  Correct when each thread sums
  the level it was started for, once, after the level below it is complete.
- summary tables: off-by-one at window ends, locals that keep the value of the
  protocol before, the race with the writer of the same flush.  Correct when
  windows do not overlap and the rows measured in a window are in its sums.
- aggregation: four marks per record.  Correct when each table's totals are the
  frames booked.
- decoding: globals that only some branches assign, offsets that ignore what
  the headers say.  Correct when a frame is booked under its own protocols.
- pairing: pointers to addresses of a frame that is gone; pairs that outlive
  their interval.  Correct when `IPlist` has the MAC an address had last.
- failover: a failed attempt must leave the loop able to try again, and the
  interface it left as it was.
- configuration: file rewritten in place; count of mandatory lines.
- reading: the last stamp of a range has no end.

## 2. Modules

| module | models | status |
|---|---|---|
| `Dispatcher` | the flush clock | checked, proved in `DispatcherProof` |
| `SumTable` | `sum_table` and the start of its threads | checked, proved in `SumTableProof` |
| `Cronovanie` | one level of the summary tables: its thread, the writer it races with | checked, safety proved in `CronovanieProof` |
| `TrafficLedger` | abstract: what the backend promises about an entry | refined by `Pipeline`, proved in `PipelineProof` |
| `Pipeline` | flush, hand-over, writers, tables, failures | checked, safety proved in `PipelineProof` |
| `Frames` | decoder, lists of records, IP/MAC pairing | checked in `Records`, proved in `FramesProof` |
| `Aggregation` | `processingl`: from records to the rows of four tables | checked in `Records`, proved in `RecordsProof` |
| `Merging` | `cronovanie`: the rows of pairs of a window merged | checked in `Records`, proved in `RecordsProof` |
| `Records` | `Frames`, `Aggregation` and `Merging` composed | checked, proved in `RecordsProof` |
| `KSocket` | the sock build: configuration, raw socket, failover | checked, safety proved in `KSocketProof` |
| `SetTheorems` | none of the code: least and greatest members, sums over finite sets | lemmas of the proof modules |
| `MCDispatcher`, `MCSumTable`, `MCPipeline`, `MCCronovanie`, `MCRecords`, `MCKSocket` | the instances TLC checks | |

A definition marked *faulty* is not part of a specification.  It stands before
the definition it imitates with a plausible mistake (a lost reset, an id one
off); putting it in that definition's place must break the property it is
paired with in `PROJECT.json`, which shows that the property can fail.

### Dispatcher

One action is one call of `dispatcher_handler`: `Keep` when the condition at
`katalyzer.c:240` does not hold, `Flush` when it does.  Both read the clock
(any value of `Readings`; `SteadyClock` says whether it may go back), book the
frame (`Booked`: `counted` tells whether an enabled protocol matched it), and
end with the test that clears `flag` (`FlagAfter`, line 243).  `Flush` contains
all of `database()` that touches the clock: `set_time` (`Stamp`, and the first
half of `NextBegin`), the emptied list, `flag = 1`, and the step of
`beggining_time`.  `Restart` is a new process.  `build` distinguishes the pcap
build, which reads the clock into `beggining_time`, the sock build, which does
not, and the reading of a capture file, in which `set_param` does.

`z_protokoly` holds only the capture time of the oldest frame booked; that is
what `BookedInInterval` compares.  `overdue` is a history variable, capped at
2.  `casovac_zapisu` is 60 and never read from the configuration, and the step
of a late stamp is the literal 60; they are two constants, with the assumption
that the second is at most the first.

### SumTable

`Call` is the entry of `sum_table` (count, `malloc`), then one step per turn of
its loop (`NotDue`, `Create`, `CreateFails`), then `Return`; `CronStart(th)` is
the first two lines of a started thread, which read the level and free the
int, and may come any time later.  `heap` maps a call to the int it allocated.
An int that no thread was started on is leaked by the code; it is dropped from
`heap` at `Return`, as no one can reach it.  `requested` counts how often each
level was due, also when its thread could not be created.

### Pipeline

The capture thread goes through `loop` (capture), `set_time`, `create_db`,
`flush`; each is a step of its own, because writers run between them.  A
writer is a record: `pc`, the protocols `left` on its list, the protocol at
work, the position `k` in the tables, and the ids read so far.

| step of `processingl` | action |
|---|---|
| connect (22-28), failure ends the process | `StartProtocol`, `ConnectFails` |
| `SELECT MAX(id)` per table (38-90) | `ReadMax`, `ReadFails` |
| INSERT into `_1m_time` with the global stamp (92-103) | `InsertTime` |
| INSERT per table (106-434) | `InsertRows` |
| connection lost: the remaining statements fail one by one | `ConnectionLost` |
| end of the list, `free_protokoly` | `Finish`, `FinishEmpty` |

Every statement is an atomic step of the database; steps of all threads
interleave.  `Kill`, `CreateDbFails`, `ConnectFails`, `ReadFails` end the process
(`End`): writers are gone, booked frames are lost, tables stay.  `NoThread` is
a failed `pthread_create`: the list is neither written nor put back.  `Restart`
begins again with `processing_time = 0` and the tables as they were.

Abstractions: the rows one INSERT adds are one row that names the flush it
came from (every INSERT of `processingl` has at least one row and adds
contiguous ids); which frame ends an interval is `Dispatcher`'s business, so
any frame may; stamps are counted.  `slow` chooses, once per behaviour, between
a database that may fall behind by any amount and one that has finished a batch
before the next flush: the code guarantees neither, and what holds differs.

### TrafficLedger

For each table: entries pending, entries stored, number of failures.  `Book`
adds entries that are not stored, in all tables at once; `Store(t)` moves
entries of one table from pending to stored; `Fail` may drop pending entries
and counts a failure.  The mapping in `Pipeline` takes as pending what is on
the capture thread's list, and what is in a batch whose writer has yet to fill
the table; as stored what a row stands for.  That `Pipeline` implements it says:
without a failure nothing is lost, and nothing is stored twice or vanishes.

### Cronovanie

One level: `Flush` stands for a flush that adds to the level's finer tables and
now and then starts its thread (`Wakes`, the schedule of `SumTable`).  On the
first level the flush has also started a writer (`WriteTime`, `WriteRows`), and
the steps of thread and writer interleave (`raced`); on the other levels the
finer tables were filled by the thread of the level below, which is over.

| `cronovanie.c` | action |
|---|---|
| `SHOW TABLES`, `CREATE TABLE` (108-190) | `ShowTables` |
| ids cleared, the latest stamps compared (199-235) | `Compare` |
| stamp of the window chosen and inserted (236-334) | `InsertTime` |
| OD (336-353), DO (355-371), `MAX(id)` (371-415) | `SelectFrom`, `SelectTo`, `SelectMax` |
| `SUM ... BETWEEN` and INSERT (434-474), next table | `Sum` |
| end of the process at any statement | `Restart` |

`local` holds the three ints that keep a value from protocol to protocol; they
start with anything in `junk`.  The loop at line 200 clears four elements of
arrays of three: which int lies behind an array is up to the compiler, so
`Layouts` gives the possibilities, of which a behaviour has one.

Abstractions: one table of rows stands for the four (IP, MAC and their pairs),
one row for the rows of an INSERT.  Only this thread touches the coarser tables,
so its statements on them are merged with the statement on the finer tables
next to them; the several SELECTs behind one window stamp read one finer table
once each.  The first ids the coarser time table stores and the results of line
416, which nothing reads, are left out; the merging of the pairs (476-701) is
`Merging`.
Garbage on the stack is a natural number: a negative one would be refused or
cut to zero by the unsigned column.  The database keeps up: a flush finds writer
and thread of the one before done.  `sums` is a history variable.

### Frames

A frame is what its headers say (link, type, addresses, transport, ports, one
IPv6 extension header).  `Decoded` gives the globals after the decoder:
`eth2_frame`, `sll_frame` or `ieee802`, chosen as the build chooses
(`dispatcher_handler`, 199-231), then the layer below.  Offsets are not
modelled but where they are wrong: the transport header is looked for behind an
Ethernet II header also on other links (972-1032), the ARP body too (783), and
an IPv6 extension header is taken to have its minimum size (861-920); what is
read there is any value of `Misreads`.  `Names` are the protocols the `parse_*`
functions book the frame under, in order; `MProtokoly` is `m_protokoly`, with
its search for the list and for the record.  Of an IPv6 address `m_protokoly`
copies the first word of four (1124, 1129); the others are any of `Rests`.

`Capture` is one call of `dispatcher_handler`, `FlushFrames` what `database()`
does to this state (`insert_data_to_table`, the lists taken off,
`clear_pairing_array`).  When a flush is due is `Dispatcher`'s matter: here it
may come after any frame.  An entry of `z_pair_array` of IPv6 keeps pointers to
memory that is freed at the next frame, so whether a later frame finds it is a
choice, and the table `IPv6list` is left out.  `captured` and `lastSeen` are
history variables.

### Aggregation

`Begin(list)` is the entry of `processingl` with the records of a protocol.
One step is one `if` of a turn of an outer loop: `AddressTurn` for the IP and
the MAC table (`half` says which of the two), `PairTurn` for the two SD tables,
whose `if` and `else if` make one step.  An inner loop is the set of later
records it takes in and marks.  `Insert` executes the INSERT and goes to the
next table; after the last one the marks go back to 0 (437-442).

### Merging

`Select` reads the rows of a window into the list, which has an element before
the first row is read (477); with no row that element is all there is and its
mark anything.  `MergeTurn` is a turn of the outer loop, `InsertMerged` the
INSERT and the `free` of the list.  IPv6 rows are compared by fields which that
branch never sets (575 against 504-512): their keys are any values.

### Records

Puts the three together: an interval's list of the protocol followed goes to
`Aggregation`, the rows of its INSERT into `minute` (`_1m_IP_SD`) unless that
INSERT fails alone, and any run of rows of `minute` to `Merging`.  Each works on
data of its own, so one is run to its end before the next starts.  The rows of
an INSERT are a set with the turn that made each; in the minute table they stand
in the order of the turns (`InOrder`).  `intervals` keeps the frames of every
interval, so that properties can compare the tables with the wire.

### KSocket

Interfaces have a presence, an administrative state, a carrier and a
promiscuous flag, which `Environment` changes between any two steps of the
program, `MaxChanges` times.  The program goes through the system calls:

| code | action |
|---|---|
| `read_conf`, five mandatory lines counted | `read_conf` |
| `raw_init` (`ksocket.c` 240-297), `find_dev` | `NameDevice` |
| `socket` (299), `SIOCGIFFLAGS` (309), `SIOCSIFFLAGS` (318) | `OpenSocket`, `GetFlags`, `SetFlags` |
| index, `bind`, options, `p_capture->socket` (325-360) | `Bind` |
| type of the link (`katalyzer.c` 110-145) | `LinkType` |
| top of a turn of `k_loop`, `get_status` (378-438) | `LoopTurn` |
| `close_promisc`, whose result nobody looks at | `LeaveGetFlags`, `LeaveSetFlags` |
| `close` (439-452), `sleep(2)` (454) | `CloseSocket`, `Sleep` |
| `recvfrom` with its timeout of 10 s, the callback (476-502) | `NoFrame`, `Frame` |

Every call fails when the interface it names is not there, and `socket` and the
calls of `Bind` may fail at any time.  `raw` is a socket that `raw_init` has
opened and not stored, `dead` says that the interface of the stored socket was
removed, `touched`, `meddled` and `cause` are ghosts that say what the
environment did.  `dt` is the record of a change, in the two fields a reader
of it would see.  `malloc` and `getifaddrs` do not fail.

## 3. Runs

| run | bounds | shows |
|---|---|---|
| `dispatcher_anyclock` | 14 readings over 5 minutes on each side of 10, 60 and 120 s; all builds; clock goes any way | stamps increase, are not in the future, stay before the end of the interval measured; a flush catches up; the flag delays by one frame at most |
| `dispatcher_steady` | the same readings, clock does not go back, fairness | booked frames belong to the interval being measured and are flushed |
| `dispatcher_sock` | sock build, 4 readings | **violated**: the first interval is stored under a time of 1970 |
| `sum_table` | 1563 calls (26 hours), threads at most 6 calls late | threads read their own level; levels are summed after the rows they need |
| `pipeline_overtake` | 1 protocol, 3 tables, 3 frames, 3 flushes, 2 failures | no double counting; no row under an earlier time; exact rows when the database keeps up |
| `pipeline_ledger` | 2 protocols, 2 tables, 2 frames, 2 flushes, 1 failure, fairness | types, tables exist, writers end, refinement of `TrafficLedger` |
| `pipeline_empty` | 1 protocol, 2 frames | **violated**: a batch with nothing on it is not marked empty |
| `cronovanie` | 2 protocols; first level with windows of 2 minutes, 7 flushes; the same for 1 protocol with 9 flushes and 2 restarts; third level with its real constants, 12 flushes, 1 restart; the same with a silent protocol; garbage 0 or 100000; 2 layouts | windows do not overlap; a window takes at most one interval from each side, and an interval is in at most three windows, where no window is begun past the stamps; windows of an upper level are covered |
| `records` | 12 kinds of frames, 3 frames in up to 3 intervals, all windows; followed: Ethernet in the sock build, IPv6 in the pcap build | booking, tables and merging agree with the frames captured |
| `ksocket` | loopback and two interfaces, one of them called "auto", 4 changes from outside at any points, 4 configurations, fairness | one socket, flags left as found, exits have a cause, changes reported once, an interface is found |
| `cronovanie_ranges` | first level with its real constants | **violated**: the range of ids of a window is empty |
| `cronovanie_check` | third level with its real constants, a protocol silent now and then | **violated**: a window is begun past the last stamp |

**Why the bounds are enough to be interesting.**  The thresholds of the handler
are compared with differences of readings; each is met from below, exactly and
from above, in the first minute and in later ones, and five minutes allow a late
flush after a normal one, and two late ones.  26 hours is one more than the
first time the slowest level is due, and the pattern of the levels repeats every
24 hours; six calls of delay are enough for threads of two levels to wait at the
same time (call 30m+5 and the next 5m call).  Three flushes are the least with
which a writer is overtaken by one that is overtaken itself; tables are
independent of each other but for the order in which they are read and filled,
so three of the four, kept in an order that differs between reading and filling,
behave as four.  A window of the
first level is scaled from five intervals to two, with `konst` ten seconds less
than two minutes as the code has ten less than five, so that three windows
follow each other in seven flushes; a protocol that misses an interval and a
thread that is interrupted shift the windows against the schedule in every way
two intervals allow.  12 flushes of the third level are three of its windows.
The garbage value is either below or above every stamp.  `records` has one kind of
frame for each way through the decoder, both directions of a conversation, an
answer from a third MAC and a host that talks to itself; three frames are the
least with which a record is taken in by a row of another one's source and a
third one's destination, and with which the ends of a pair change places
between two minutes of a window.  The loops of `Aggregation` and `Merging` are
proved for lists of any length.  In `ksocket` four changes are enough for two interfaces to fail one
after the other and to come back; an interface called "auto" is there because
only with it a program with `INTERFACE=auto` gets past line 117 of
`katalyzer.c`, and an installation that uses the option must have made that
file readable in some way.  `MaxChanges`, `MaxFrames`, `MaxFlushes`, `MaxFaults`, `MaxInterval`,
`MaxDelay`, and `flushes` and `restarts` of a level are the only bounds; the
proofs do without them or hold for every value of them.

When the frames of the bound are used up `Pipeline` goes on with `LinkIsQuiet`:
`pcap_loop` waits; `Cronovanie` has `Quiet` for the same.  `Dispatcher` and
`SumTable` restart, `Records` may always read a window, and `KSocket` has `Ended`
for a process that is over.  So deadlock is checked in every run.

**Fairness.**  `Dispatcher`: weak fairness of the handler alone.  It says that
frames keep coming, on which the code relies explicitly ("we predict that time
interval between incoming two frames will not be bigger than 'casovac_zapisu'
... minimum ARP packets arrive very often", `katalyzer.c:738`).  `Pipeline`:
weak fairness of each writer: its thread is scheduled and MySQL answers.  No
fairness is assumed of the capture thread, of failures or of restarts.  A
process that has ended and is not started again has no running writer, so
`WriterEnds` does not depend on the restart.  `KSocket`: weak fairness of
`Program`, one step of the one thread: it is scheduled, system calls return,
`recvfrom` after ten seconds at the latest and `sleep` after two.  None of its
actions is favoured: a frame need not come.  The changes from outside are
bounded, so that they end; `FindsAnInterface` speaks of what is so for ever
from some time on.

## 4. Findings

- `dispatcher_sock`: in the sock build nothing sets `beggining_time`
  (`katalyzer.c:147-149` is compiled for pcap only), although `variables.c:62`
  describes it as "time of beginning of measuring the traffic".  The first frame
  is taken for a very late one and flushed alone, under stamp 60.
- `pipeline_empty`: `flush_data_into_db` marks every list as not empty
  (`katalyzer.c:624`).  With no enabled protocol matching a frame in an
  interval the list is null, and `free_protokoly` reads through it
  (`katalyzer.c:1253`), which ends the process.
- `cronovanie_ranges`: the end of a window is written to element 0 of the range
  and its end, still 0, decremented (`cronovanie.c:361-368`).  When a stamp past
  the window is in the table, the range is empty.  On the first level that
  depends on whether the writer of the same flush was faster than the thread.
  On an upper level the thread runs before any later stamp is there; then the
  other branch (`MAX(id)`) is taken and the window is covered
  (`UpperWindowsAreCovered`).  This needs a protocol seen in every interval: after
  a restart the counter of the schedule begins again, threads come later than
  the group they sum, and windows stay empty.
- `cronovanie_check`: the age of the last window is compared with the 290 s of
  the first level on every level (`cronovanie.c:233`), and the windows of the
  upper ones are longer.  A protocol that falls silent has a stamp more than
  290 s past the begin of its last window and none past its end.  Its next
  window is begun at the end of the last one, where no stamp is (296 delivers
  no row); the search for the first id (338-353) leaves 0 for the same reason,
  and the sum takes all rows of the protocol, most of them a second time.
  `NoWindowPastTheStamps` says when this cannot be: where a window is as long as
  the age asked for (the first level), or where no protocol is silent.  The
  properties about what is in a window hold under it.  The NULL that `MAX(time)`
  of an empty table delivers leaves the value of the protocol before (212, 313)
  and is a second way to a window without a stamp.

Seen while modelling, and not made a run because nothing in the repository says
otherwise or because reading is enough:

- `processing.c:146`: the inner loops start behind the record, so that an
  address whose first record has it at both ends gets two rows, and some of its
  traffic in the wrong one.  `RowsAreTotals` and `OneRowPerAddress` except it.
- `katalyzer.c:1124`: the words of an IPv6 address after the first are not
  copied.  Conversations fall into several records (`ListsMatchFrames` claims
  less for IPv6), and rows are stored under addresses that were not on the wire.
- `cronovanie.c:575`: IPv6 pairs are merged by fields that were never set.  What
  is kept is the sum over all pairs (`NothingLostInMerging`).
- `ksocket.c:111`: an interface removed and made anew under its name leaves a
  socket that gets nothing, and `get_status` is content (`dead` in `Settled`).
- `katalyzer.c:117`: with `INTERFACE=auto` the file of the link's type is opened
  for an interface "auto", and the result not tested.

The comment at `variables.c:62` also says that `casovac_zapisu` is read from the
configuration file; no code does that.

## 5. Proofs

All proofs are for every value of the constants that satisfies the named
assumption of the module (`DispatcherAssumption`, `SumTableAssumption`,
`PipelineAssumption`, `CronovanieAssumption`, `FramesAssumption`,
`RecordsAssumption`, `KSocketAssumption`); `Aggregation` and `Merging` assume
nothing.  `FramesAssumption` says that the names of data link, network and
transport protocols are different ones, as the strings of the code are, that
addresses come in pairs, and that no port is configured as 0 or twice.  The
configuration page skips a port 0 (`class_edit_conf.php:119`), but writes a port
twice that is typed twice, and then the loops over the ports book a frame twice
under one name: the theorems are about the other configurations.
`RecordsAssumption` says that the version followed is IPv6 or not.

**`SetTheorems`.**  `Min`, `Max`, `SumFunctionOnSet` and the folds behind it are
choices and definitions by `CHOOSE` in the community modules.  `LeastNumber` and
`BoundedHasMax` find members from the well-foundedness of the naturals.  For the
sums, `IterationExists` and `IterationsAgree` show that on a finite set the
function which the library chooses exists and is the only one; from
`SumUnfolds` follow the rules used elsewhere: a sum does not depend on the order
(`SumTakeOut`, `SumAdd`), sums over disjoint sets add up (`SumUnion`), sums of
functions add up (`SumPlus`), a sum may be taken group by group (`SumByGroups`),
a sum of ones is a cardinality (`SumOfOnes`).  Induction is over the subsets of
a finite set, written without operator parameters (`ByElements`).

**`DispatcherProof`.**  `TypeOK /\ StampBeforeIntervalEnd` is inductive.  The
second part is what the arithmetic of `set_time` rests on: a late flush stores
under `processing_time + 60`, which is below `beggining_time + 120` and so not
after the frame that found the interval twice over; a normal one stores under
the present, which is past the end of the interval and so past the last stamp.
`FlushArithmetic` states this once; `StampsStrictlyIncrease`, `StampsHavePassed`
and `OneFlushCatchesUp` follow step by step.  `FlushIsDelayedOnce` needs that the
call which leaves a finished interval alone has found `flag = 1` and has cleared
it, as 10 s are less than 60.  `FramesStayInTheirInterval` assumes
`SteadyClock`, and adds that `beggining_time` is not in the future.

**`SumTableProof`.**  `AtMostOneLevel` is arithmetic: the remainders 1, 5, 30,
120 modulo 5, 30, 120, 1440 exclude each other once each level's first
occurrence is left out.  From it `IntInv`: until a level of the present call is
due, no thread has its int; afterwards no level is due, so no one writes to the
int again, and its only thread frees it.  `CountInv` says that the last call at
which a level was due is `requested[l] * modu[l] + rozd[l]`, from which the
order of levels in `SummariesFollowTheirRows` follows.

**`PipelineProof`.**  `CountedOnce` alone is not inductive: whether an INSERT
keeps it depends on lists no row refers to yet.  The inductive invariant `IInv`
adds: the capture thread's list and all batches are disjoint for each protocol
(`Apart`), a writer has no row in a table it has yet to fill (`NotFilledYet`), no
two rows of a table come from one flush (`FilledOnce`), a flush that has not
handed over has an idle writer, and an idle writer neither batch nor rows
(`Unused`), and control facts about writers and capture thread (`Support`).
`WritersFindTables` is the part of `Support` that says the tables of all that is
left on a writer's list exist.

What a reader finds has two invariants of its own, both under `IInv`.  `StampInv`:
a writer at work has set `processing_time`, and only later flushes have since
(`Clock`); no id of a stamp is beyond the next row (`IdsExist`); a writer fills
tables after a stamp not before its flush (`HasStamp`); and each row of flush *b*
has a stamp not before *b* such that no stamp up to that one has an id beyond
the row (`RowsClosed`).  New stamps are later than all there are, so `RowsClosed`
is not disturbed by them, although ids may fall with time when writers overtake
each other.  `NeverBackdated` follows: for a reader to show the row under a time
before *b*, the next stamp would need an id beyond the row.  When the database
keeps up, `Steady` says more: one writer at a time, of the latest flush, whose
stamp is new (`OneWriter`, `StampIsNew`), and whose ids are those of the rows to
come (`IdsAreNext`); so the id of a row's own stamp is the row, and the ids of
earlier and later stamps are on the two sides of it (`RowsOwned`), which is
`FoundUnderItsStamp`.

`PipelineKeepsLedger` is the refinement: `Promised`, `Booked`, `Dropped` and
`Moved` say what a step does to the entries pending and stored in each table,
and each is a step of `TrafficLedger` or none.  That an INSERT moves just the
entries of one protocol of one batch needs `Apart`; that the stamp alone moves
nothing needs that all tables asked for are filled (`AllAreFilled`: as many
different ones are filled as are read, by the pigeonhole theorems) from the first
on (`FromTheFirst`).

**`CronovanieProof`.**  `WindowsApart` is kept because the new stamp is at least
`konst` after the greatest there is (`BeginIsLater`); for this the table must have
a greatest stamp (`HasLatest`: the code asks for `MAX`), and all that can become
a stamp must be a number: the stamps of the finer table, and what is in `local`,
also when it is garbage.  `Min` and `Max` of the library are choices; that they
find something is `LeastNumber` and `BoundedHasMax` (stamps are not ahead of the
clock).

What is in a window rests on four layers, each an invariant under the ones
before it.  `Finer`: rows before the id of a stamp are older than it and the
others not, every row has a stamp with its own id, and the stamp of the latest
flush comes when the writer reaches the protocol, its row after it
(`WriterState`).  `Summed`: each window is summed once at most, the window the
thread is at is the latest (`LatestWindow`), and a row past the end of a window
is of the flush in which it was summed, before which no other stamp and no other
window lies (`SumsEnd`).  `Regular` is for the levels whose windows are longer
than the age asked for: when every protocol is in every interval, the schedule
leaves more than a window between two threads (`WindowsArePast`).  `Begins`: the
range of a sum begins at the row before the window's stamp, unless the protocol
had no stamp at all (`SumsBegin`); from the test to the search for the first id
this is what `WindowIsDue`, `HasStampOrNothing` and `RangeBegins` say.

`WindowsHoldTheirRows` follows from the two ends.  For
`IntervalsSummedThriceAtMost`, two windows are at least `konst` apart and each
takes one row from outside on a side at most, so four windows with the same row
could not be ordered (`AtMostThree`).

`UpperLevelsMissNothing` is about a level that starts clean and is not
interrupted (`Unbroken`).  Then stamps are the multiples of `step`
(`StampsAreMultiples`), a window begins with each group of the schedule
(`WindowsAreGroups`, which uses `(group - 1) * step <= konst < group * step`, true
of the four levels of the code), no stamp is beyond it when it is summed, so that
`MAX(id)` ends it (`RangeIsWhole`), and each sum has all rows of its window
(`SumsAreWhole`).  `Multiples`, `Remainder` and `NextRemainder` connect the counter
of the schedule with the clock.

**`FramesProof`.**  Three invariants.  `IPlistIsRecent` needs that every frame of
the interval whose addresses are IPv4 has an entry in `z_pair_array` with its
addresses and MACs, and that every such entry is of a frame of this interval;
`ClearPairingArray` makes the second true again at a flush.  `Max` of the entries
of an address finds one of them, and its MAC is one seen.

`BookedUnderItsOwn` rests on what `clear_variables` leaves behind: between frames
the globals that the branches of the decoder test are empty (`Cleared`), so that
a frame which assigns only some of them finds nothing of the one before; the
addresses, which are not cleared, `set_param` makes anew.  The ports of a frame
without TCP or UDP stay 0, which is no port of the configuration.
`NamesAre` says what the `parse_*` functions book, one by one, for any globals;
`EthernetGlobals` what the globals are after an Ethernet II frame.

`ListsCountEveryFrame` is kept list by list (`ListsRight`): one list for each name
and version, each with the records of the frames under that name, each record
with the number of frames that have its key, and no two records with one key
(`ListRight`, `KeysRight`).  A frame is booked under its names one after the
other (`OneMoreName`); between two of them some lists know it and others do not,
so the invariant inside a frame is about a frame that has only the names so far.
That a frame is not counted twice needs that no name comes twice (`NamesAre`,
from `FramesAssumption`).  For IPv6 only the sum over a list is right.

**`RecordsProof`, `processingl`.**  The list is arbitrary and so is its length;
the loops are steps, so no induction over the list is needed.  What makes the
properties inductive is which records are marked at which turn: an end of a
record still to be visited is unmarked exactly when its address is in no turn
before (`AddressMarks`), and a row of address *a* was made at the first record
that mentions *a* (`AddressRows`), both parts of `AggregationInv`.  From it: when
a turn makes a row of *a*, all records before it that mention *a* would have
been taken in by an earlier row of *a*, so there are none, and the later ones
are just what the inner loop goes over.  The argument breaks where a record has
*a* at both ends, which is the exception in `RowsAreTotals`.  Sums are equal here
because they are taken over equal sets.  For the pair tables: a record is marked
with 2 exactly when a row has its pair of ends.

**`RecordsProof`, merging.**  The same for one mark per element; in addition each
row knows the element that made it, and behind it are all the others of its pair
(`MergingInv`).  The totals of a row are sums over the sets of elements in either
order.  `MergingLosesNothing` is for IPv6, too, where the keys are garbage and may
be anything: a turn marks just the elements its row takes in, all unmarked
before, so what the rows have together is at every turn what the marked elements
have (`AmountsCounted`); at the end all are marked.

**`RecordsProof`, the whole way.**  `WireInv` puts `ListsInv`, `AggregationInv` and
`MergingInv` together and adds what connects them.  `HandedOver`: the list at
work is right, in the sense of `FramesProof`, for the frames of the last
interval, which is not yet marked as stored while the IP tables are built.
`MinuteRight`: an interval that is stored has rows with the numbers of frames the
wire had, one for each two ends (`AsOnTheWire`); rows name only stored intervals
(`MinuteRows`).  `WindowSelected`: what the merging works on is a run of the
minute table as it still is.  The step that matters is the INSERT of the pairs
(`InsertedAsOnTheWire`).  The totals of a row are sums over records, each record
counts the frames of its MACs and IPs, and a pair of IPs may have many MACs: the
sum over the records of a pair, grouped by record, is the number of its frames
(`RecordsCountFrames`).  `MinuteHoldsTheWire` follows.  For `WindowHoldsTheWire` the
elements of a merged row are grouped by interval: each has one row of the pair
at most, and none only if it had no such frame, as the window is of whole
intervals (`OverTheWindow`).  `RecordsCapture` shows that `Records` does to the
capture's variables only what `Frames` does, so that the theorems of
`FramesProof` hold in it (`FramesStayRight`); `RowsStayTotals` the same for the
invariants of the loops.

**`KSocketProof`.**  `IInv` says in seven parts where the program can be with a
socket, without one and with a lost one (`Sockets`), that the loop changes
interfaces with auto only (`Phases`), what a socket that is not there says about
the past (`Causes`), which interface can be promiscuous at which call
(`Promiscuous`), that flags read are the flags that are, or someone changed them
(`Flags`), and which change the record `dt` and the last report stand for
(`Reports`).  Each action has a lemma that it keeps each part.

**Only model-checked.**  `BookedIsFlushed`, `WriterEnds` and `FindsAnInterface`:
liveness under fairness is beyond the prover.  Every invariant and action
property of the passing runs is stated by a theorem.  The `MC` modules carry
none: they only choose instances.

## 6. Not modelled

- One statement that fails alone on a live connection (a full disk, a lock
  timeout) is in `Records` for the INSERT of pairs.  `Pipeline` has the loss of
  the connection and the refusal of a duplicate stamp; `Cronovanie` has neither.
- The number of rows of an INSERT in `Pipeline` and `Cronovanie`; what is in
  them is in `Records`.
- Bytes beside packets: they are added at the same places.  Counters are
  natural numbers: 64 bits are not filled in a minute.
- Waiting for a full minute at the start (`wait_function.c`): any start reading
  of the set is allowed.
- `IPv6list`: what is written to it is read from memory that has been freed.
- Decoding at the level of bytes; more than one IPv6 extension header.
- `set_head_dt` and `INTERFACE_time` (`katalyzer.c` 251-275, 497-541): the change
  record that `KSocket` hands to the callback goes no further, as the function
  assigns to its own copy of the pointer.
- Failures of `malloc` and `getifaddrs`.
- Threads of two levels of `cronovanie` at once.
- The frontend, in PHP: reading the tables (`class_db.php`), the editor of the
  configuration, scheduled measuring, the drawing of graphs, sessions, style
  sheets, port names, packaging.  It keeps no state of its own beside the
  tables, the file and the cron entries; what it does to the daemon is the
  `Restart` of the modules.

## 7. Plan

Done: the flush clock, the schedule, the pipeline, the summary tables, the way
of a frame to the tables, the capture loop.  What would come next:

1. `Reader`: from a time range to the ids it covers (`class_db.php`), against
   `Pipeline`'s `Belongs`; the rewrite of the configuration against a starting
   daemon.
2. `Daemon`: `Dispatcher`, `Pipeline`, `SumTable` and `Cronovanie` composed, so
   that stamps are times and a summary thread meets the writer of its flush.
3. Theorems about the whole of `Records` for the MAC tables, whose loops are
   proved already, and a refinement of an abstract account of the wire by
   `Records`.
