# Verification of mycode_test

The repository holds a C library and the example programs built on it
(`src/unix_source`: interprocess communication, semaphores, a modem dialer daemon,
a database, terminals, a printer spooler), two Linux character drivers
(`src/driver_test`, `src/driver_platform_test`), the firmware of an LED dimmer
(`src/stm8_pwm`), and collected examples and notes (`src/excerpts` and others).
This directory models its programs in TLA+, checks small instances with TLC and
proves the main invariants with TLAPS.

## 1. Inventory

Each part with its state, its operations, what it interacts with, what is hard
about it, and what makes it correct.

**Semaphores** (`lib.sun/semaph.c`). State: a System V set of three members per
key ([0] the semaphore, [1] a counter of processes counted down from BIGCOUNT,
[2] a lock), the kernel's exit adjustments per process, the id each caller holds.
Operations: sem_create, sem_open, sem_op (wait, signal), sem_close, sem_rm. Hard:
every operation is several system calls that interleave with other processes';
any process may die between two; the set is removed by the last user while
others may be about to attach. Correct: the lock excludes, the counter counts,
a set is initialised once and only while unused, it is removed only by the last
user, units are never taken twice nor lost, the lock is always released.

**calld** (`calld/`). A single-threaded daemon. State: `client[]` (fd, child pid,
childdone, position in the Systems file), `lock[]` (device line, pid), `allset`,
`chld_flag`. Operations: accept, read a request or an EOF, search the Systems and
Devices files for a free device, lock it and fork a child, learn the child's
status in a SIGCHLD handler, retry or answer. It talks to clients over stream
pipes, to children through pipes (TELL_WAIT), exit statuses and SIGCHLD. Hard:
the handler runs between any two steps; children and clients end at any time and
in any order; entries are used again with what the client before left in them.
Correct: a device has one user, its lock is set before it is dialed and is
released in the end, clients get one answer, the right one, and are not lost.

**Dialer** (`calld/dialfile.c`, `expectstr.c`, `sendstr.c`, `ttydial.c`, `ttyopen.c`).
What calld's child does. State: where in the chat it is, the window of the last
bytes read, the alarm and its flag. Hard: the alarm may go off before, in or
after a read; the modem says what it likes or nothing; `send_str` calls itself for
the phone number. Correct: an expected string is found at its first occurrence,
and a wait ends.

**popen, pclose, system** (`lib.sun/popen.c`, `proc/system.c`). State: `childpid[]` by
descriptor, who has which end of which pipe. Hard: pipes of earlier popens
inherited by later children, pclose in another order, SIGPIPE, errors after the
fork. Correct: pclose waits for its own child and ends.

**Database** (`db.lock.fine/`). State: an index file (free list, hash chains,
index records) and a data file, byte-range locks. `db_store` adds, reuses or
replaces a record under its chain's lock. `_db_find`, `_db_findfree` and
`_db_dodelete` are not in the repository. Hard: writers on different chains
append at the same time; a process killed between two writes. Correct: chains
and free list stay whole, appends never overlap, a call acts at once.

**Descriptor passing and the open server** (`lib.sun/sendfd.c`, `recvfd.c`,
`senderr.c`, `open/`, `opend.fe/`). State: bytes in a stream pipe and a descriptor
that travels with them. Hard: a stream joins and splits writes; the error text
precedes a two-byte status. Correct: the receiver gets the descriptor or the
whole error of its own request.

**Parent and child synchronisation** (`ipc/tellwait.c`, and `proc/tellwait2.c`,
`advio/devzero.c`, deadlock.c in `lock/ourhdr.h`). State: two pipes. Correct: no one
passes a WAIT before the matching TELL; turns are kept.

**Coprocesses and pagers** (`ipc/pipe2.c`, `pipe4.c`, `spipe4.c`, `myuclc.c`): two
processes, one or two pipes, a line at a time; hard: the filter's death, SIGPIPE,
an end left open. Correct: both end.

**pty** (`pty/main.c`, `loop.c`; `lib.sun/ptyfork.c`, `ptyopen.c`, `ttymodes.c`).
Three processes around a pseudo terminal: a parent that copies the master to its
output, a copier that copies its input to the master, a program on the slave.
State: where each is, `sigcaught`, pending signals, the terminal's mode and what
ttymodes.c has saved of it, the data under way. Hard: parent and copier end each
other with SIGTERM at any moment; writes are interrupted; the program may not
read. Correct: everything is copied once, in order; all processes end when the
program has; the terminal is reset.

**atexit, exit** (`lib.sun/atexit.c`, `exit.c`): tables of exit functions, linked when
one is full. Correct: every function is called, the last first.

**Connections** (`servlisten.c`, `servaccept.c`, `cliconn.c`): a client binds a
name with its pid, the server checks mode, owner and age and unlinks it. Hard:
process ids are used again, names are left behind by the dead, time passes.
Correct: the server knows who calls.

**File server** (`excerpts/select.c`): one process, a set of descriptors, commands
that download, upload and list. Hard: what was accepted last, the copy of the set
and the descriptors that are still open need not agree. Correct: what is watched
is open, and who asks is answered.

**Producer and consumer** (`excerpts/product.c`): two threads, three semaphores, a
FIFO. **Work list** (`excerpts/kernel_list.c`): submitters, a list under a spin lock, a
worker on a wait queue. Correct: the buffer holds what is read; no wake-up is
lost.

**LCD controller driver** (`excerpts/s3c2440_LCD_driver.c`): probe and remove with
eight resources, register copies, suspend and resume, a palette that the frame
interrupt writes from a buffer. Hard: the interrupt between any two steps; power
lost in suspend. **Beeper** (`driver_test/`, `driver_platform_test/`): two drivers for
one device, loading step by step, ioctls of several programs, unloading under an
open file. **Sound latency test** (`excerpts/alsa-test-latency.c`): a search for a
buffer size and a copy loop that is restarted. **Dimmer** (`stm8_pwm/main.c`): two
keys, brightness and colour that index tables. **mmap example**
(`framebuffer/mmap_test.c`): offset and length in types of different sign.

Several files named `ourhdr.h` are fragments of a tar archive and hold the text of
other sources: `loop.c` and `driver.c` of pty in `pty/`, `call.c` in `call/`, parts of
calld's header in `calld/`. They are mapped where the text is. `calld/childdial.c`,
three functions of the database and the printer daemon are not in the repository.

The rest is listed in section 5 and, file by file, in `PROJECT.json`.

## 2. Modules

| Module | Models |
| --- | --- |
| `Semaph` | `lib.sun/semaph.c`, one key, system call by system call |
| `SharedSem` | what processes that attach with sem_create are promised |
| `Semaph_proofs` | the theorems about `Semaph` |
| `MCSemaph` | instances of `Semaph` |
| `Calld` | `calld/`: loop, request, lock, client[], the SIGCHLD handler |
| `Calld_proofs` | the theorems about `Calld` |
| `MCCalld` | instances of `Calld` |
| `Pty` | `pty/`: parent, copier and program, their signals and the terminal's mode |
| `Pty_proofs` | the theorems about `Pty` |
| `Lists_proofs` | lemmas about sequences and recursive functions, extended by the proof modules that need them |
| `Lcd`, `Beeper`, `Latency`, `Dimmer`, `FileMap` | the LCD driver, the two beeper drivers and their programs, the latency test, the dimmer, the mmap example |
| `Devices_proofs` | the theorems about these five |
| `DbStore` | `db.lock.fine/`: db_store write by write |
| `KvStore` | what db_store promises: calls that act at once |
| `MCDb` | an instance of `DbStore` |
| `DbStore_proofs` | the theorems about `DbStore` |
| `UnixConn` | cli_conn, serv_listen, serv_accept |
| `OpenServer` | the open server: requests, recv_fd, send_fd, send_err |
| `Popen`, `Coproc`, `TellWait` | popen, pclose and system; pipe2, pipe4 and spipe4; programs that use TELL_WAIT |
| `Dialer` | what calld's child does to dial |
| `WorkQueue`, `Product` | kernel_list.c, product.c |
| `AtExit`, `FileServer` | atexit and exit, select.c |
| `MCPrograms` | `UnixConn`, `OpenServer`, `FileServer`, `Beeper`, `TellWait`, `Dialer`, `Product` and `AtExit` for TLC: safety |
| `MCProgress` | `Pty`, `Lcd`, `Latency`, `Popen`, `Coproc` and `WorkQueue`, which must get somewhere, with `Dimmer` and `FileMap` for TLC |
| `Servers_proofs` | the theorems about `UnixConn`, `OpenServer` and `FileServer` |
| `Programs_proofs` | the theorems about `AtExit`, `Dialer`, `TellWait` and `Product` |

In every module a definition with a suffixed name next to another
(`op_lock` and `op_lock_nowait`) is a seeded bug: put in place of the definition it
stands before, it makes one of the checked properties fail.

### Semaph

One action is one system call of one process. `pc[p]` is the point between two
calls; `made` and `live` say which set exists, `val` the values of its members,
`undo` the adjustments, `sid` the id a process holds, `held` what it took from [0]
and has not given back. The operation arrays of the source (`op_lock`,
`op_endcreate`, ...) are constants of the model, and `Semop` applies one of them at
once as the kernel does. `Exit` may happen at every point and applies the
adjustments; where the result of [0] would be negative both behaviours of real
kernels are allowed. A call on an id whose set has been removed fails
(`CallFails`), except the first semop of sem_create, which goes back to create
(`CreateAgain`), as in the code; a process *asleep* in that semop is told EIDRM, not
EINVAL, and fails.

Callers are assumed to close and remove only what they have given back (`held`
is 0), and to use one reference at a time. ids are never reused (the kernel's
sequence numbers); `MaxId` bounds them.

`SharedSem` is the abstract specification: one counter that is always there, and
users that attach, operate, detach or crash. `Semaph` implements it under the
mapping `Level` (the counter is [0] once the set is initialised, the initial
value before), for processes that attach with sem_create.

### Calld

`dpc` is the daemon's point in `loop()`, `child_done()` or `request()`. Between two
points it runs without being observed, except for `sig_chld`, which may happen
at every point: the test of chld_flag, the entry of select, sleeping in select, each
entry of the scans over client[], the fork, lock_set and TELL_CHILD are steps of
their own. `request()`'s search is one step, described by sets: `Ahead` are the
matching entries after the position the client left off at, `Stops` those that
end the search. An entry of the Systems file is its name, its class and the line
of the device `dev_find` gives it ("none" when it finds none); speeds and names
are compared, other fields are left out.

`client[]` is as long as there are clients; growing it is left out, what malloc
leaves in new entries is not (`HeapDone`). Entries are used again with the pid,
childdone and position of the client before, as in the code. The children follow
how request.c and sigchld.c use them: wait for the parent, dial, pass the line
to the client and exit with 0, or exit with 1, or be killed. Clients connect, ask
once, and hang up: patient ones after their answer, `Impatient` ones at any time.
A write to a client that has gone raises SIGPIPE and ends the daemon, as do
log_sys and log_quit (`dpc = "dead"`).

### Pty

`parent`, `copier` and `slave` say where the three processes are; a step is one system
call. `handled` becomes true when the parent calls signal_intr, before that SIGTERM
kills it. A pending signal (`pterm`, `cterm`) is delivered at any later point: it
ends a read() that is asleep, is only noted between system calls, or interrupts a
write(). There writen's `size_t` matters: -1 is taken for progress, and a `Stray` byte
from before the buffer joins the output (`WriteInterrupted`); when write() fails for
good writen tries forever (`WriteFails`). Data are numbered buffers; `Cap` of them
fit between copier and program. exit() resets the terminal in whichever process
has inherited the exit function, the copier included. Standard output is taken
to stay open, and the slave to open; the program reads, writes and exits as it
likes. `-d` is left out: it replaces standard input and output by a pipe.

### Device programs

`Lcd`: the kernel calls probe, remove, suspend, resume and the operations one at a
time; the frame interrupt comes between any two steps that do not mask it, twice
inside setcolreg (`setting`). probe is a sequence of acquisitions (`Acquired`) each of
which may fail and then falls through the labels at its end (`FreedFrom`). `regs` are
the driver's copies, `hw` the controller; suspend may take the controller's power.
`Beeper`: each driver's init or probe is the steps of its code with every failure;
both use major 250, the class and the node, so what one leaves the other finds.
The two register writes of fs4412_beep_init are steps of their own, made when the
node is there already, and so are the two of BEEP_FREQ: any number of programs may
be between them at once, since unlocked_ioctl takes no lock. `begun` and `ended` name
who wrote the period and the compare value last. A program that is killed
ends when it is back from its ioctl. `Latency`: the options in any order, the search
over sizes that the card accepts or not, the copy loop by blocks, streams that
break. `malloced` is what line 539 allocates, for two channels of `latency_max`
frames, and `reach` how far readbuf and writebuf have got in it, with frames as long
as -c and -f make them and writebuf's steps of 4 bytes. `Dimmer`: every sample of
the keys and the table lookups; index 7 reads whatever lies behind the table.
`FileMap`: the arithmetic of the arguments modulo the width of size_t; write() may
fail, and its -1 is compared with the length as the size_t that it becomes.

### DbStore and KvStore

A step is a lock, an lseek with its lock, or a write; offsets are numbers of
records. A process holds the lock of its chain throughout, the end of the data file
or of the index while it appends, and may be killed before any step, which releases
its locks; taking from the free list, which is done under the list's lock, is one
step. `Walk` follows a chain for as many records as the index file has: one that has
not ended then is a circle (`Ends`). `KvStore` has a key's data and the call each
process is in; `DbStore` implements it under the mapping at the end of the module: a
record is in the store when its chain leads to it, and what is being replaced is there
until the new record is (`Replacing`), since nobody else can look. A process killed while
it replaces a record by one of another length leaves the key without one, in both.

### Connections, open server, processes

`UnixConn`: names with owner, mode and age; process ids pass to another process when
one is gone; the server may die and start again. The names are in /var/tmp, which
is sticky: unlink, whose result both sides ignore, removes only the names of the
caller's user (`Without`), everybody's if that is root. Client and server have users
of their own (`Uid`, `ServUser`); `outlived` remembers whose name another process
was able to remove. A client whose bind fails is `"taken"`.
`OpenServer`: a message is as many bytes as it is long, each with the number of its
request; recv_fd takes what is there up to MAXLINE bytes, the status is read as the
last two bytes of what one recvmsg returned. When writing a message to standard
error fails or is short recv_fd returns at once (`ShowFails`; recvfd.c:55-57) and the
client goes on with its next line, whatever is left in the stream. The pair is the
client of `open/` with the loop of `opend.fe/`, the server that the repository has most
of. `Popen`: `holds` is who has which end open; a read ends
when nobody holds the other end. `Coproc` likewise; a child may die with a line in
flight. `TellWait`: a program is what its two processes do one after the other
(load and store of devzero's shared counter are two operations).

### Dialer

One word of the Dialers file is a sequence of characters and escapes. expect_str
scans byte by byte; exp_read's test of the flag and its read() are two steps, and
the alarm may come before, between or after them. exp_read returns a size_t:
a time out is a value that is not negative (`TimedOut`). send_str is a stack of
calls, because `\T` calls it for the number.

### WorkQueue, Product, AtExit, FileServer

`WorkQueue`: the worker's set_current_state, test of the list, schedule and the locks
are steps; so are the submitter's lock, list_add_tail, wake_up and unlock.
`Product`: one step per semaphore operation, write and read; the clock passes
end_time at any moment. `AtExit`: tables with their index and next; what malloc
leaves in a new table's index is one of `Garbage`, places of the table, and exit may
then come to a place where no function was put (`"crash"`). `FileServer`: descriptors
are numbers and
accept takes the lowest; a pass over `tmpfds` meets descriptors that were closed in
the same pass, where ioctl leaves nread as it was and read fails (`read_closed`); the
write to buf[-1] that follows may do nothing or anything.

## 3. Runs

| Run | Bounds | Shows |
| --- | --- | --- |
| `semaph_create` | 3 creators, 2 sets, BIGCOUNT 3 | the lock, counter, initialisation and removal are right, units are not overdrawn, `Semaph` implements `SharedSem` |
| `semaph_mixed` | 3 creators, one also opens and removes, signals may come first | the lock is always released |
| `semaph_opener` | creators and an opener | finding: sem_open loses the set to a sem_close |
| `calld_patient` | 2 clients, 2 lines, 5 entries, kills, 3 children | one user per device, locked while dialed, locks are owned; client[] against the select set and pipes; one answer, the right one |
| `calld_reuse` | 3 clients, 1 line, one hangs up early | entries used again; the handler never blocks; hang-ups are noticed |
| `calld_hangup` | 2 impatient clients | finding: the EOF of a client releases a device that is still being dialed |
| `db` | 2 processes, 3 keys on 2 chains, 4 data, 3 calls | files stay whole, `DbStore` implements `KvStore` |
| `programs` | 4 clients, 3 of which have one process id after each other, 2 users, 2 starts of the server; 3 lines of up to 3 words, messages up to 5 bytes for a buffer of 4, standard error that refuses; 2 beeper drivers, 2 players and a tester of which 2 at a time, 2 pitches, 2 loads, a note each; 3 turns; 7 Dialers files and 5 bytes; 4 rounds; 4 exit functions in tables of 2; 2 clients of the file server that send twice | who calls, and whose left-over name makes bind fail; requests and answers in step as long as every answer is read to its end; watched descriptors; silence when all is closed, a clean tone after the set-up that began and ended last, one driver in; turns, first match, the printed buffer, exit functions of one table and of several |
| `progress` | terminal or file, with and without -i, 2 buffers in, 3 out, pty of 1; boards of up to 2 displays, 2 palette entries; sizes up to 16 frames, 1 to 3 channels, samples of 1, 2 and 4 bytes; all keys; size_t of 6 bits, arguments around the file's ends and below 0; 3 children; 2 lines; 3 pieces of work | pty's data copied in order and once, everyone ends when the program has, the terminal is reset; frames from the driver's memory, registers and palette as asked, also after suspend, and the palette loaded in the end; the search ends, what is captured is played, and as it is malloced for the buffer holds it; the duty and the part of the file asked for; pclose, coprocesses and submitted work come to their end |
| `dial_alarm` | the dialer of `programs` | finding: a time out is not noticed |
| `files_newest` | the file server of `programs` | finding: the file goes to the client accepted last |
| `open_step` | the open server of `programs` | finding: a line is given the descriptor of another |

Why the bounds are enough. The races of semaph.c are between one process inside a
section, one about to enter and one leaving: three processes and two sets (the
one removed and the one that replaces it) show each of them; BIGCOUNT 3 is the
smallest that lets all three be users, and [1] is compared with 0 and BIGCOUNT
only. In calld two clients compete for a line and a third takes an entry that
was used before; each may be tried on every line, hence the number of children.
In pty a buffer in the parent's hands, one under way and one not yet written is
all that a signal or an end of file can separate, and a pty of one buffer makes
the copier sleep. Two palette entries are the one that is written and one that
waits; two drivers are all there are, and of two players and a tester any two
are two set-ups that cross, or one that is crossed by a driver's and sounded or silenced
by another program (the players are alike: symmetry; `MaxOpen` is how many have the
device open at a time). In the database two processes meet on one
chain or on two, a third key tells them apart, and three calls are an insert, a
replacement and one more that finds what they left. Of the three callers with
one process id the second is another user's, who can remove nothing, and the third
the first's, who can; the server is of one of the two users, so that it may remove
some names and not others. Messages are shorter than recv_fd's buffer, fill it
but for the null byte, and overflow it. Four exit functions fill two tables, or
three when the index that was left there is not 0. Three children are a popen, one
it inherits from and
one between. The Dialers files hold a string that overlaps itself, every escape and
malformed words. Two clients of the file server are the one that asks and the
newest. The programs of `programs` and of `progress` share nothing, so each behaviour
is one of one of them, and the states of a run are the sum of theirs.

Deadlock checking is off: processes may all have exited, clients may all be
served and the daemon asleep.

Fairness. `Semaph!FairSpec` asks only that a process inside a locked section is
scheduled: its calls there do not sleep, which `LockReleased` checks of the one
that could (sem_create's last semop also waits for [1]). `Calld!FairSpec` asks that
the daemon and its children are scheduled and that a pending signal is delivered;
nothing is asked of clients, and a child that is killed is not owed anything.
`MCProgress` asks that pty's parent and copier are scheduled and signals delivered,
and nothing of the program or of whoever types; that frames keep coming and that an
entry which waits is written in one of them (the hardware is busy only for short); that
the latency test, the parent in pclose, children that have started, a command whose input
has ended, both sides of a coprocess and the worker with its submitters are scheduled.
All of it is weak fairness: nothing takes away again what an entry or a process waits
for. `MCPrograms` has safety only and asks nothing; for the dialer's finding, that the
child is scheduled. No modem, signal, client or request to die is owed.

### Findings

* sem_open counts itself without the lock; sem_close may already have read the
  counter and removes the set (`semaph_opener`).
* calld releases a device when its client hangs up, although the child still
  dials (`calld_hangup`).
* exp_read returns a size_t, so expect_str does not notice a time out and its child
  never ends (`dial_alarm`).
* select.c answers on the connection accepted last, not on the one that asked
  (`files_newest`).
* recv_fd returns without reading on when it cannot write a message to standard
  error. The rest of the answer stays in the stream, and a later line is given the
  descriptor of an earlier one (`open_step`).

Seen while modelling; what the properties say of them is in brackets:

* sem_create, asleep on the lock while sem_close removes the set, fails with EIDRM;
  the code retries on EINVAL only.
* With more than BIGCOUNT processes [1] reaches 0 and the next creator initialises a
  set in use. The theorems about the counter assume `FewProcs` for that reason.
* calld's client_sigchld ends the daemon when a child terminates whose entry the
  next client has used; childdone of new entries is not initialised (the runs take
  a clean heap); a SIGCHLD between the test of chld_flag and select() waits for the
  next event.
* pty's loop notices a SIGTERM that its parent catches outside read() only when a
  read fails.
* send_str reads an echo without an alarm; a `\T` in the number calls send_str for
  ever; expect_str's inbuf is not bounded.
* The beeper's node exists before its registers are mapped: a program that comes then
  reaches registers that are not there (`oops`), and one that comes a little later has
  its period mixed with the driver's compare value. Two players at once mix theirs.
  `HalfDuty` says of which set-ups the tone is clean all the same.
* The dimmer's brightness 7 has no table entry: the channels of the colour burn with
  what lies behind the tables (`DutyShown` says so). The LCD driver's failed probes
  leave resources (`leaked`).
* cli_conn's unlink fails on a name that another user's process left in /var/tmp, and
  bind with it (`CallerIdentified` says that a bind fails only then).
* atexit links a new table behind the full one and exit looks at the newest only: as
  soon as there are more than ATEXIT_SIZE functions none of the first ones is called
  (`CalledInReverse` says so). The new table's index is not initialised either: exit may
  come to a place without a function.
* mmap_test takes a write that fails for one of length -1, from an offset two bytes
  or more into a page (`SuccessShowsAsked` has the exception).
* The latency test tries what the card makes of a size, also when that is above -M, its
  "maximum latency in frames". The buffer was malloced for -M; with -B, and with -c for
  more than two channels, it may be too small as well (`AsMalloced` says when it is not).
* A message of MAXLINE - 1 bytes or more may bring recv_fd's null to where it does not
  expect it, and the client dumps core (`NullInPlace`).
* readbuf of the latency test, in block mode, returns what its last read did: what the
  others captured is not played (`CapturedIsPlayed` bounds the loss).
* select.c's -ls closes the newest connection and leaves it in the set: unless that
  client was ready in the same pass, the next select fails and the server exits.

## 4. Proofs

Every theorem is about the specification of a module without fairness, which the
specification a run checks implies, and holds for all values of the constants that
satisfy the module's assumption (`...Assumption`; TLC evaluates it in the runs). Most
of the properties are not inductive. What has to be added is listed here; it is
also what a reader of the code would have to know to see that the property holds.

### Semaph_proofs

For any finite set of processes and any values (`ProcsAssumption`, `ValuesAssumption`):

* `Typing`: Spec => []TypeOK.
* `LockExclusive`: Spec => []LockHeldByOne. Inductive invariant `LockInv`: that, the
  types, and that no process holds an id ahead of the last set made. Without the
  last part a new set could come into being under a process that already owns
  its id. Each action leaves the lock as it is, takes it while it is free, or
  gives up one's own (`LockStep`); removal and death are cases of their own.
* `CounterExact` and `InitialisedOnce`, with `FewProcs`: Spec => []CountMatchesUsers and
  Spec => []InitialisedUnused. The invariants are not inductive, because the
  counter is set while the set has no users; `CountInv` adds what the owner of the
  lock knows at each point (`Phase`): 0 users and a counter of 0 while it
  initialises, an exact counter after.
* `RemovedByLast`, with `FewProcs` and no openers: Spec => RemovedUnused. Invariant
  `LastInv`: a process about to remove the set saw no user, and without openers
  none can arrive while it owns the lock. The finding `semaph_opener` shows that the
  assumption is needed.
* `SharesOneCounter`, in the regime `Sharing` (`FewProcs`, no openers, no removers, nobody
  gives back more than it took): Spec => ImplementsShared, the refinement of
  `SharedSem`, step by step. `SharedInv` adds to the invariants above that the kernel's
  adjustment for a process is what it holds, and that [0] plus all that is held is
  InitVal (`Total`). A removal maps to a stutter because nothing is held then, so that
  the counter the next creator finds is the initial value again.
* `UnitsConserved`, in the same regime: Spec => []NeverOverdrawn. The sum over processes
  that the invariant states is a fold; `SumOfHeld` shows that it is the number of
  units in the hands of processes, as pairs of a process and a number.

### Calld_proofs

For any clients, lines, Systems file and number of children (`CalldAssumption`).

* `Typing`, `TracksClients` (ClientsTracked) and `ReturnsFromHandler` (HandlerReturns) hold of
  every behaviour. `TrackInv` adds that pids are used once and that request() is at an
  entry in use.
* `ExcludesDevice` (DeviceExclusive), `LocksDialed` (DialedIsLocked), `OwnsLocks` (LocksOwned),
  `MatchesAnswer` (AnswerMatches) and `AnswersOnce` (AnsweredOnce) assume `Patient`: every
  client waits for its answer, and the childdone that malloc leaves in a new entry is
  not 2. Both are needed. A client that hangs up while its child dials frees the
  line under it (finding `calld_hangup`), and an entry that comes into being with
  childdone 2 is taken for one whose child has failed. `PatientInv` is one invariant for
  the five: the lives of clients, entries and children and how they belong together.
  Its parts depend on each other: that a child dials a line that is locked for
  it (DialedIsLocked) needs that its client waits and owns the entry with its pid
  (`PendingOwned`), which needs that only a client that has asked and has no answer is
  served (`ServedWaits`), which needs that what select() said of the entries not yet
  scanned is still true (`ScanLeft`), though the handler and the children ran since.

### Pty_proofs

For any numbers of buffers and any capacity (`PtyAssumption`):

* `Typing`: Spec => []TypeOK.
* `InputInOrder`: Spec => []InputCopied. The invariant `InputInv` adds that the copier
  holds nothing when it reads (`EmptyHanded`: otherwise the next buffer would
  overwrite one that writen has not finished) and that it exists, and may be told
  to end, only once loop() has forked it (`OneCopier`). The lemma `HeadMoves` says
  that reading the head of what is under way loses and reorders nothing.
* `OutputInOrder`: Spec => []OutputCopied. `OutputInv` adds that the parent holds
  output only between read() and write() (`OutHeld`; a signal that arrives then does
  not end it, and its stray byte comes before the buffer) and that a parent which
  ends without sig_term has seen the end of the file with nothing left on the master
  (`OutEnded`). `CleanJoin` says that the stray bytes of two pieces can be dropped one
  piece at a time. `Clean` is a recursive function: `Lists_proofs` shows
  that such a function exists and that two which take the same steps agree, by the
  least number for which they would not.

### Servers_proofs

* `IdentifiesCallers`: ConnSpec => []CallerIdentified, for any clients, pids and users.
  `ConnInv`: of two clients with one pid that have been started one has ended before,
  and is outlived if the other may remove its name (`OnePerPid`); who has connected is
  in the queue or looked at, once (`QueuedOnce`); the name of each, from bind to stat, is
  still its own and protected, unless it is outlived (`NamesOwn`); and every name is one
  that a started client left, at bind one that its pid's new process could not remove
  (`NamesLeft`). The theorem is about callers that are not outlived: a name that another
  process of the same user could take says nothing of who calls. Process ids that pass
  to other users' processes are covered, as are unlinks that fail, and a bind fails only
  over a name that such a failure has left.
* `WatchesOpen`: ServerSpec => []WatchedAreOpen, for any finite set of clients
  (`FileAssumption`). `FileInv` adds that a descriptor has one owner and an owner one
  descriptor (`Placed`), and that a pass starts at the listening socket only while all
  that is watched is open (`InPass`). That accept finds a free number at all is a
  pigeonhole argument (`NumberFree`): there are as many numbers as clients and one more.
* `StaysInStep`: OpenSpec => []AnswersInStep, for any MAXLINE of at least 2, any message
  lengths and number of lines, as long as standard error has not refused a message
  before recv_fd was at the end of its answer (`cut`; finding `open_step` shows what
  happens then). `OpenInv` has one part that matters, `Receiving`: at
  any point what the client has shown, what is in the stream and what the server has
  not written yet are together all that was to be told, whatever the cuts. A
  message that leaves room for the null byte only is the one case where a status is
  cut off from it. `Told`, which the property speaks of, is a recursive function;
  that it exists is proved by its least counterexample (`JoinExists`).

### Devices_proofs

* `ShowsDuty`: DimSpec => []DutyShown, with whatever lies behind the duty tables shown at
  brightness 7.
* `SoundsRight` and `OneDriver`: BeepSpec => []ToneRight and []OneDriverIn, for any programs
  and pitches (`BeepAssumption`) and any number of set-ups that cross. `BeepInv`: the
  class belongs to a driver exactly when it is past it, major 250 leads to one that is
  under way or in, a sounding timer has an open file (`Sounds`), and while the set-up that
  began last has not ended, the period is the one it wrote (`PeriodSet`). `HalfPeriod`
  is the arithmetic: half of a period that was rounded down.
* `FetchesFromMemory` and `KeepsPalette`: LcdSpec => []FramesFromMemory and []PaletteCurrent,
  for any boards, displays, page size and colours (`LcdAssumption`). `LcdInv`: what is held
  at each step of probe and after, and that the controller is on only while all is
  (`Backed`); what set_par and init_registers have left (`SetUp`); and that an entry that
  waits has the last value asked for (`PaletteInv`).
* `StaysProgrammed`, with `EvenFrames`: LcdSpec => []Programmed. The controller counts in
  half words; on a board whose frame is an odd number of bytes it fetches one byte
  less than a frame, and the theorem says of which boards it does not.
* `CopiesRight`: LatSpec => []CopyLoopRight, for any sizes a card supports and any options
  (`LatAssumption`). What was captured is played whatever the options; that the buffer
  is not left has the premise `AsMalloced`, and without it it may be
  left (the size tried may be above -M).
  `LatInv` adds that the search goes upwards from 0, so that a size that is tried has
  a frame, and within the largest latency unless -B or the card makes it larger;
  `ReachFits` turns frames into bytes for both ways in which writebuf goes on.
* `ShowsAsked`: MapSpec => []SuccessShowsAsked, for any even width of size_t and any page
  size up to half of it (`MapAssumption`); the length -1 is the one exception that the
  property names, from an offset that leaves something to map. When a
  negative length wraps the sum of
  offset and length, the length stays as large as it became; then mmap refuses it, or
  the mapping's size wraps too and write() ends within a page, short of the length it
  is compared with (`WrapsShort`).

### Programs_proofs

* `CallsInReverse`: ExitSpec => []CalledInReverse, for any ATEXIT_SIZE, functions and number
  of tables. `ExitInv` describes the newest table, the only one exit looks at
  (`NewestHas`): from the place that malloc left in its index on it has the functions
  registered last, below it none, and it is the first table exactly as long as all
  functions fit.
* `MatchesFirst`: DialerSpec => []FirstMatch, for any Dialers files whose words are not
  empty and any bytes (`DialAssumption`). `Window`: the window is the end of what was
  heard, the string was not heard before, and while the window is not full no
  character before it begins one. The last part is why expect_str may drop bytes
  that do not match.
* `TurnsAreTaken`: TellSpec => []TakeTurns, for any number of loops. For devzero `Turn` says
  where the two processes are relative to each other: eight states of a round, in
  each of which one operation is possible. For deadlock `At` relates the stage of each
  to the bytes in the pipes, through the way on which one of them gets EDEADLK.
* `PrintsInside`: ProdSpec => []BufferEnds, for any number and size of words of which N are
  shorter than the consumer's buffer (`ProdAssumption`; 5 words of 5 bytes and 100 in the
  code). The buffer is read in one go, so the bound is on the FIFO, and it is not
  inductive: `Units` says that each of the N units is in a semaphore or in the hands of
  a thread, `Filled` that the bytes in the FIFO are at most those of the words that
  were written and not yet read for. A read that takes several words leaves the count
  behind, never ahead.

### DbStore_proofs

For any processes, keys, data, lengths and hash function, and any number of calls
(`DbAssumption`: the values that stand for nothing are no data, and a flag has the two bits
that db_store tests).

* `RecordsKept`: DbSpec => []RecordsOwned, whatever is written at once and whoever dies. The
  property speaks of the records that are on a list; a record or a piece of data that
  a call has in its hands is on none, and it is what the next write makes part of a
  chain. `DbInv` therefore follows each call: `Adds` (there is no record of the key,
  and the head of the chain is still the one it has read), `OwnsRecord` (what came off the
  free list, or was appended, is on no list and has its data), `OwnsData` (no record
  leads to the data just written), `Apart` (no two calls hold the same record or data),
  `Changes` (what was found is still found) and `Locks` (the end of a file is where
  the holder of its lock has seen it). `DataOk` is stronger than what is checked: no
  two records share data even when they are on no list, because a process that died
  leaves such records behind for ever.
* `DbInv` says of a chain that it has a `Path`: a sequence of different records that
  the pointers follow to 0. `WalkIs` shows that `Walk` then follows it and has ended within
  the length of the file, `LinkedIs` which records are linked; `LinkedPush` and `LinkedCut` are
  the two ways to change a chain, a record before its head and one taken out;
  `LinkedSame` says that a chain is left alone by who writes elsewhere. A step of one
  process is shown to leave the others what they rely on (`Spares`, `SparedOk`), so that
  each action needs to be looked at for the process that takes it only.
* `StoresAtomically`: DbSpec => StoreIsAtomic, the refinement of `KvStore`. `StoreOf` says what the
  mapped store has for each key. A call takes effect with one step: when it finds that
  it must refuse, with the write of the chain's head, or with the write over data of
  the same length; the lemma `Unseen` covers all steps before that. The deletion of a record
  that is replaced is not seen because the chain stays locked (`DeleteMaps`); the death of a
  process in between is where `KvStore` lets a key lose its record (`KilledMaps`).

### Only model-checked

Every safety invariant and action property that a passing run checks, and both
refinements, are proved. Liveness (LockReleased, HangUpNoticed, AllEnd, PaletteLoaded,
SearchEnds, PcloseEnds, CoprocEnds, WorkDone) depends on fairness or ENABLED, which is beyond
the prover, and stays with the runs.

## 5. Not modelled

Missing from the repository, and therefore external or left out: childdial.c and
cliargs.c of calld, request() of the open server, three functions of the database,
the printer daemon, take() and put().

Of modelled components:

* calld: a second request by a client whose child still dials; the two pipes that
  TELL_WAIT makes for every attempt and nothing closes (the daemon runs out of
  descriptors in the end); EINTR in accept; DEBUG.
* Dialer: debugging output, ctl_str, and what the terminal modes of tty_open do.
* pty: -d, the search for a free master, tty_cbreak, a closed standard output, a child
  that cannot open the slave.
* popen: a parent whose descriptors 0 and 1 are closed. Coproc: what a line says.
* LCD: FBIOPUT_VSCREENINFO, because fb_check_var has another signature than the one
  the core calls; the clock divider, which is or-ed into the old one. Two statements
  of the probe (671-672) stand outside any function, after suspend and resume; they
  are taken as part of it.
* Latency test: effect, polling and status output, and what playback sounds like where
  writebuf's 4 bytes are not a frame. Work list: submission from an
  interrupt. product.c: threads that sleep on a semaphore after end_time, where
  main's join waits for ever. File server: requests longer than its buffer.
* Database: db_stats' counters, db_rewind, the test programs.

Of the rest: STREAMS versions of the library, 4.4BSD copies, printer pieces, single
calls shown in use, process and I/O demonstrations, vendored headers, a kernel
patch, and notes. `PROJECT.json` names the files and the reason for each.

## 6. Plan

1. Done: all modules above.
2. Done: proofs of every safety invariant and action property that a passing run checks,
   and of the refinements of `SharedSem` and `KvStore`.
3. Open: the database's missing operations, childdial.c and the printer daemon, if
   they are added to the repository.
