# THSS-FTP in TLA+

A verification project for the FTP server of this repository
(`src/FTP/server/src`): TLA+ modules of the server, instances of them that TLC
checks, and proofs that TLAPS checks. Paths below are relative to
`src/FTP/server/src` unless they begin with `src/`.

## 1. The system

One process. The **main thread** runs `control_init` (operator.c): `select()`
over the control connections, `accept()`, `read()` of a command, `interpret()`
(interpreter.c) and the command handlers (control.c). `RETR` and `STOR` start a
**transfer thread** (`send_file`, `recv_file` in ftputils.c); everything else,
`LIST` and every `accept()` or `connect()` of a data connection included, runs in
the main thread. The threads share the array `clients[]` (data.h), indexed by the
*number* of the control connection's descriptor. The mutex protects only the
reads and writes of `status` (and one of `transfer_mode`); `data_fd` is read,
closed and overwritten by all threads without it.

| component | state | operations | talks to |
|---|---|---|---|
| control loop (operator.c) | `client_fds`, `max_fd`, `temp_fds`, `client_cnt`, `clients[].status` | select, accept and greet, read a line, disconnect | handlers (call), clients (TCP) |
| handlers (interpreter.c, control.c) | `clients[].status`, `.transfer_mode`, `.data_fd`, `.dir`, `.rndir`, `.bytes_type` | USER PASS PORT PASV RETR STOR LIST QUIT, CWD PWD MKD RMD RNFR RNTO, TYPE SYST | threads (`pthread_create`, shared slot), clients |
| transfer threads (ftputils.c) | `TransTask`, the shared slot | begin, copy, report 226, make available, close, forget | clients (data and control connection), main thread (shared slot) |
| path resolution (ftputils.c) | the buffer being cleaned | `connect_dir`, `real_dir` | handlers (call) |
| file system commands (control.c) | `clients[].dir`, `.rndir`, `.bytes_type`, `.in_addr`; the tree on the disk | CWD PWD MKD RMD RNFR RNTO TYPE PORT, the file STOR creates | path resolution (call), file system |
| stored files (control.c, ftputils.c) | the files, a FILE and its buffer per transfer | `fopen`, the loops of `send_file` and `recv_file`, `fclose` | file system, clients |
| framing (operator.c, interpreter.c) | `in_buf`, `len` | `read()`, the cut of two bytes, `strtok` | clients |
| listing (control.c, ftputils.c) | the width of the size column | two passes over a directory, `format_file_info` | file system |
| start-up (server.c) | `server_port`, `dir` | parse `-port`, `-root` | control loop (one call) |
| clients (autograde.py, `src/FTP/client`) | connection, reply awaited | commands, data connections | server |
| UDP exercise (`src/FTP/udp`) | the server's counter, the client's | `sendto`, `recv` | each other, over UDP |
| samples (`src/tcp`, `src/udp`) | nothing | echo | - |

What is hard here: the thread of a transfer outlives the moment its client hears
"226", and may outlive its client; descriptor numbers are reused at once; every
failing branch leaves something open or unanswered; one blocking call stops all
sessions. `PROJECT.json` lists each hazard at its line.

What makes each component correct:

- loop: `select()` is given exactly the live connections; no number is watched
  that nobody reads; `max_fd` is exact; the listening socket stays open;
- handlers: the login comes first; a 227 address can be connected to; every
  command gets one final reply; no descriptor leaks; the handler returns;
- threads: each transfer is on the session's own data connection; each
  ends; what it closes is its own;
- paths: the result is clean (no `.`, no `..`, no empty segment but the last) and names the right directory; paths above the
  root are refused; the loop ends;
- file system commands: what a session has in `clients[]` is what its own commands put
  there; a rename moves what is at the path RNFR found, and what RNFR found if it is still there;
- stored files: a file used by one transfer at a time is always one whole upload;
- framing: the handlers get the lines the client sent, and nothing of anybody else;
- listing: the size column holds every size;
- UDP exercise: answers have numbers of their own; they are printed in turn unless some came twice, and
  never ahead of the question; a client
  that loses nothing ends.

## 2. Modules

| module | models | |
|---|---|---|
| `FtpState` | data.h, status.h, the descriptor table, what clients know | variables, types, `IsLowestFree`, `CloseAll`, `Reply` |
| `ControlLoop` | `control_init` | `Select`, `Accept`, `GreetingFails`, `Disconnect`, `ReadLine`, ... |
| `CommandHandlers` | `interpret`, `user`, `pass`, `port`, `pasv`, `retr`, `stor`, `list`, `quit` | one action per step between two uses of shared state |
| `TransferThreads` | `send_file`, `recv_file` | one action per use of the shared slot |
| `FtpClients` | the clients (external) | `Connect`, `Send`, `DataConnect`, `DataClose`, `HangUp` |
| `FtpServer` | the composition | `Init`, `Next`, fairness, the properties, the refinement mapping |
| `FtpService` | what the server promises each client (abstract) | `Ask`, `Answer`, `BeginTransfer`, `EndTransfer`, `Leave` |
| `FtpServerProofs` | - | proofs about `FtpServer`, whoever the clients are |
| `CarefulProofs` | - | proofs about `FtpServer` when all clients are Careful, and its refinement of `FtpService` |
| `CapacityProofs` | - | the same when moreover no call of a handler fails and there are descriptors and threads enough |
| `ConnectDir` | `connect_dir`, and `cwd`'s use of it | one action per branch of the loop; the reference `Resolve`, which reads a path on a stack of names |
| `ConnectDirProofs` | - | proofs about `ConnectDir` |
| `PortArgument` | `port`'s checks and arithmetic | operators |
| `Namespace` | `cwd`, `mkd`, `rmd`, `rnfr`, `rnto`, `type`, `port`, the file `stor` creates | one action per command |
| `NamespaceProofs` | - | proofs about `Namespace` and `PortArgument` |
| `FileStore` | `fopen` in `retr` and `stor`, `send_file`, `recv_file`, stdio's buffer, the passes of `list` | one action per chunk, `fopen`, 226, `fclose`, and per file of a pass |
| `FileStoreProofs` | - | proofs about `FileStore`, and its refinement of `WholeFiles` |
| `WholeFiles` | what clients expect of the files (abstract) | `BeginUpload`, `EndUpload`, `BreakUpload`, `EndDownload` |
| `Framing`, `FramingProofs` | the reads of `control_init` into `in_buf`, `interpret`'s first lines | `Read`, `ReadMore`, `ReadMoreFails`, `Interpret`; the clients |
| `UdpSequence`, `UdpSequenceProofs` | `src/FTP/udp/src/server.py`, `client.py`, the network | `Serve`, `Send`, `Recv`, `Fail`, `Lose` |
| `MC...` | - | small instances; the tree of `Namespace` |

`FtpServer` extends `ControlLoop`, `CommandHandlers`, `TransferThreads` and
`FtpClients`, which extend `FtpState`; it instantiates `FtpService`, and `FileStore`
instantiates `WholeFiles`. `FtpServer` has the descriptors, threads and replies of a
session and abstracts paths, contents and bytes; `ConnectDir`, `Namespace`, `FileStore` and
`Framing` each open one of these. `Namespace` takes the outcome of `connect_dir` from an
operator, `ResolvedAt`, with one case for each form of argument; `ArgumentsResolved` of
`ConnectDir` says, case by case, that the loop's result is that.

### State

| TLA+ | code |
|---|---|
| `status`, `mode`, `dataFd` | `clients[fd].status`, `.transfer_mode`, `.data_fd` |
| `clientFds`, `maxFd`, `clientCnt` | `client_fds`, `max_fd`, `client_cnt` |
| `tempFds` | `temp_fds`, less the descriptors the `for` loop has passed |
| `main` | the main thread: `pc`; `fd` = `eventfd`, `client_fd`; `cmd`; `seen` = the local `status` of `interpret`; `sock`, `file` = the socket, FILE or DIR just opened |
| `task` | the transfer threads: `pc` and the `TransTask`; `kind` is `send_file` of a file, of a directory ("spin"), or `recv_file`; `who` is history |
| `fds` | the kernel's table: what each number refers to |
| `conn`, `line`, `told` | a control connection, the command in flight, the address of the last 227 reply |
| `owed`, `last`, `dataReady`, `loggedIn` | history: final replies a client waits for, its last command, whether it announced an address, whether its PASS was accepted |

The one point where the model stays close to the machine is the descriptor table.
`clients[]` is indexed by descriptor numbers and the kernel reuses the lowest free
one at once; a model with abstract connections would leave out every hazard of
this program. Everything else is abstracted: a command is its verb, an argument is
good or malformed (`"badarg"`), a file exists or not, a transfer is a loop that
ends or fails.

In the other modules:

| TLA+ | code |
|---|---|
| `Namespace`: `clients` | `clients[fd].dir`, `.rndir`, `.bytes_type`, `.in_addr` |
| `Namespace`: `tree`, `own`, `found` | the disk, an object with its number in each place; what the client of a slot believes of its session; the object its RNFR found, 0 once that has been moved or removed (history) |
| `FileStore`: `content`, `present`, `thread`, `list` | the disk; which files exist; a transfer thread with its FILE (`off` the kernel's offset, `buf` what stdio holds back); `max_size` and the two passes |
| `Framing`: `inBuf`, `serving` | `in_buf`; `eventfd` and `len` between the first `read()` and `interpret()` |
| `Framing`: `sender`, `sent`, `heard`, `foreign` | history: whose byte is in each cell, the lines of Careful clients, the commands made of them, the sessions that got a foreign byte |
| `UdpSequence`: `sequence`; `at`, `i`, `printed`; `net` | server.py's `sequence`; where each client is, its `i` and its output; the datagrams on their way |

### Atomicity

A step ends where another thread can see or change what the code is about to use:
after `bind` (data_fd is set, `listen` reads it again), after `accept` (the listener
is closed and `data_fd` replaced), after the data connection is made, after the
status was read under the lock. A critical section of the mutex is one step. In a
transfer thread each of: status TRANSFER; the loop; 226; status AVAILAVLE; `fclose`
and `close`; `data_fd = 0` is a step. A `read()` that was issued on a connection before
`data_fd` changed still returns from that connection (`ReadsEnd`). A receiver whose `data_fd`
was closed and given out again as a control connection reads that connection's commands
into its file (`LoopReads`).

In `Namespace` a command is one step: the main thread runs one handler after the other,
and the transfer threads create no names. In `FileStore` the order of `recv_file` is kept:
the loop, 226, then `fclose()`, which writes what stdio still holds; the `retr` handler is
two steps (`fopen`, the size of the 150 reply), as threads run meanwhile. In `Framing`
a `read()` takes everything that has arrived and fits.

`SelectFails`, `AcceptFails`, `GreetingFails` are the three returns of `control_init`; `ReadEmptyLine`
and `BrokenPipe` are the two ways the process dies (strcmp through NULL, SIGPIPE): wherever
`WritesTo` says that a reply, an entry of LIST or a block of a file is being written, and
`NoReader` that the other end is closed.

### Clients

- An arbitrary client (a member of `Session` only) sends any command at any time, does not
  wait, closes data connections and leaves when it likes.
- A `Patient` client reads the final reply before it sends the next command, uses
  PORT or connects to the 227 address before it asks for a transfer, and leaves only
  after QUIT. `ftplib`, which autograde.py uses, is one.
- A `Careful` client moreover lets its transfer thread end before the next command
  and uses a data address for one transfer. It cannot know that the thread has ended:
  Careful states the assumption under which the server is correct, and the runs with
  Patient clients show what happens without it.

In `Framing` there are Careful clients (a line arrives whole, and the next is sent after the
answer), Paired ones (any bytes in any pieces, but two at least at a time and no more
unanswered than fit the buffer) and others, which send any bytes in any pieces. All
but the Careful ones may leave or reset. In `FileStore` clients keep the `Kept` files to one
transfer at a time until its thread has closed the file, and use the others as they like.

## 3. Runs

Bounds: a session is one control connection and is not reopened, so that two
sessions give one reuse of a number; `MaxFd` bounds the table (3 standard, 1
listening, then 1 control and at most 3 data, file and listening descriptors per
session); `Tid` bounds the threads alive at a time. Where `MaxFd` is smaller than the
sum, running out of numbers is part of what is checked.

| run | instance | shows |
|---|---|---|
| `Hasty` | 2 arbitrary clients that upload, 2 threads, MaxFd 6, connections refused and reset, SIGPIPE | `TypeOK`, `MaxFdIsLargest`, `WatchedSlotsLive`, `ConnectionsWatched`, `ListenerOpen` under reuse, stale threads, two threads in one slot, a dying process |
| `Careful` | 2 Careful clients, 2 threads, MaxFd 10, transfers that never end, SIGPIPE | `FdsAccounted`, `RepliesBalanced`, `StaysUp`: no leak, one reply per command, no exit; `OwnDataConnection` while the transfers of both overlap |
| `CarefulFaulty` | 2 Careful clients, 2 threads, MaxFd 7, all faults | `LoginFirst`, `PassiveAddressValid`, `WatchedAreConnections`; `AcceptNeverWaits`: no accept() of a data connection holds the main thread up; `PipesWhole`: no write meets a closed connection; and `ServiceKept` (implements `FtpService`) |
| `CarefulLive` | 2 Careful clients with passive uploads, MaxFd 9, fairness | `AllAnswered`, `MainReturns`, `ThreadsFinish` |
| `ConnectDir` | paths of up to 5 segments over two names, `""`, `.` and `..` | `DirClean`, `ResultRight`, `ArgumentsResolved`, `LoopShrinks`; deadlock |
| `Namespace` | 2 slots, the tree `/`, `a`, `b`, `a/b`, 2 objects, ports that begin with 254 and 255 | `OwnState`, `RenamesFound` |
| `FileStore` | 2 threads, one Kept file and one shared, 2 uploads of up to 3 chunks, a buffer of 1 | `NothingMoves`, `SizeAnnounced`, `ColumnFits`, `FilesWhole` (implements `WholeFiles`) |
| `Framing` | one client of each kind, a buffer of 4, 2 lines, 5 bytes from each of the others | `LinesHeard`, `OwnBytes`, `ZeroInside` |
| `UdpSequence` | 2 clients of 3 rounds, 2 faults, fairness | `NumbersUnique`, `InTurn`, `Finishes` |

MaxFd 10 in `Careful` is the largest number two sessions need at a time if nothing
leaks: `CapacityProofs` shows that it is enough, and with MaxFd 9 TLC finds a command that
gets no reply. In `CarefulFaulty` descriptors do leak and run out, and there is room for one
transfer at a time; transfers overlap in `Careful`. The arguments of 4
segments in `ConnectDir` contain every combination of the loop's patterns on both
sides of the pointer. The tree of `Namespace` has a directory that can hold another one,
so that a directory moves with what is below it, and two objects are enough for one to
replace the other. Three chunks and a buffer of one in `FileStore` give an upload that is
partly on the disk, partly in the buffer and partly not read; a chunk of 60 bytes and an
"int" of 256 values put the third chunk beyond the largest positive one. A buffer of 4 in
`Framing` is the smallest that holds a line of two letters; with 5 bytes in pieces of
1 to 3 a client fills it, overfills it, and leaves one byte behind.

`CHECK_DEADLOCK FALSE` in the instances of `FtpServer`: a session happens once, and the
process may exit or be killed, so that there are states in which nothing more
happens. That the server itself does not get stuck is what `AllAnswered`, `MainReturns` and
`ThreadsFinish` say. So does the process in `Framing`, which a command without a word ends, and in
`UdpSequence` the clients come to an end or wait for ever. The other runs check deadlock.

The violation runs are disagreements between the code and what the repository says:

| run | the repository says | the code |
|---|---|---|
| `QuitDropped` | autograde.py:78,90 - after '226' the client calls `quit()`; :87 expects 221 | the QUIT is read while the slot is in TRANSFER and dropped |
| `LoginBypassed` | interpreter.c:120 - only USER before logging in | a thread left behind makes the next session AVAILAVLE (`AvailableAfterLogin`), in which every command is served |
| `StorReported` | autograde.py:78,81 - after '226' the files are compared | the end of the upload is still in stdio's buffer, `fclose()` comes after 226 |

Other behaviour that surprises, and where the models have it:

- `CWD .` at the root leaves the directory `""`, which PWD shows as `257 ""`: a path of one
  empty segment, which is the last one, so that it counts as clean (`DirClean`).
- A second RETR or STOR before the thread of the first has set TRANSFER is accepted, and one
  slot has two threads (`Hasty`).
- QUIT sends 221 (interpreter.c:246) and leaves the connection open: no handler of the
  model closes it, only a client that leaves does.
- A transfer thread that ends late closes whatever `data_fd` is by then, such as the listener
  of the next PASV: `OwnDataConnection` and `PassiveAddressValid` hold for Careful
  clients only.
- Two threads that end one after the other in one slot close `data_fd` = 0; the next
  connection gets number 0. A number that is watched and was closed by a thread makes
  `select()` fail, and the process prints "Failed to launch!" (server.c:48) long after it
  was launched, as it does when `accept()` finds no free descriptor.
- A client whose bytes arrive one at a time has each of them taken for a command: the byte
  and the rest of the last command, whoever sent that (`Framing` without `Paired`).
- A client that sends a zero byte and then nothing makes the main thread wait in
  `while(!in_buf[len - 1])`, with the connection at its end for ever.
- An upload that breaks off leaves its FILE open and a beginning of the file on the disk.
- A datagram lost stops the UDP client for good.

## 4. Fairness

`FairSpec` assumes that the main thread and each transfer thread run when they can
(weak fairness per thread: the operating system's scheduler), and that a Patient
client that uploads reaches the end of its file. Nothing is assumed of clients
otherwise: they may stop sending, or never connect to an announced address. That the
main thread returns nevertheless is because a Patient client connects before it asks for
the transfer (for Careful clients `AcceptNeverWaits` says that this is still so when the
handler comes to its `accept()`); a client that sends RETR after PASV and does not connect blocks the
server for everybody (`accept()`, control.c:195), which no property claims otherwise.

`UdpSequence` has weak fairness of server.py (it answers while a request is there) and
of each client (it sends, and takes an answer that has come): two programs that run. The
network is not fair, it may lose up to `MaxFaults` datagrams and repeat as many;
`Finishes` is about the clients none of whose datagrams is lost. A datagram sent before
server.py has bound its port counts as lost.

## 5. Refinement

`FtpService` gives each session a phase and a flag for "an answer is due".
`ServiceKept` maps the phase to the status of the slot whose descriptor the session has, and
the flag to `owed`. Every step of the server with Careful clients is a step of the
service or a stutter, with every fault: a session never leaves a phase by another
session's thread, and TRANSFER is entered and left only by its own command.

`WholeFiles` has, for each Kept file, its content, or that it is being uploaded, what is
being uploaded, what each download brought, and how many uploads broke off. `FilesWhole`
maps the content of a file that no thread receives to what is on the disk; `Stor` is the
beginning of an upload, `Close` its end, so that everything between, with 226, is a
stutter; `Break` ends an upload with some beginning of it; and a download is the step in
which `send_file` finds the end of the file. That an upload ends with `Close` and not with 226
is the finding of `StorReported`.

Both refinements are also proved, for every value of the constants (below).

## 6. Proofs

`FtpServerProofs`, for any number of sessions, threads and descriptors, any kinds
of client and any faults, from the assumptions on the constants in `FtpState`:

- `TypeCorrect`: `Spec => []TypeOK`.
- `MaxFdAlwaysLargest`, `WatchedSlotsAlwaysLive`, `ConnectionsAlwaysWatched`,
  `ListenerAlwaysOpen`: the four other properties of the `Hasty` run.

The four are proved together as parts of `ServingInv`; none is inductive alone. That
a thread's late `close()` never hits the listening socket needs to know that no
`data_fd`, task or local holds its number (`ListenerNotHeld`), which for a new socket
needs that the listening socket's number is not free (`ListenerOpen`). That the search for
the next `max_fd` succeeds needs that the listening socket is watched. `Harmless`
collects what all steps but `Accept` and `Disconnect` have in common, and each handler
and thread step is shown to be harmless; those two are proved one by one.

`CarefulProofs`, under the hypothesis `Careful = Session` (a Careful client is the one the
server can be right for: the findings are what happens with others), for any number of
sessions, threads and descriptors, and with every fault: `LoginAlwaysFirst`,
`DataConnectionAlwaysOwn`, `PassiveAddressAlwaysValid`,
`WatchedAlwaysConnections`, `AcceptAtOnce` (`AcceptNeverWaits`), `PipesAlwaysWhole` (`PipesWhole`)
and `ServiceAlwaysKept` (the refinement of `FtpService`). None of
the invariants is inductive, and they cannot be proved apart. `CarefulInv` ties together,
for each session, its connection, its slot, its thread, the main thread while it handles a
command of it, and its client (`SessionOK`): a slot in TRANSFER has one thread, the thread
has the slot's own connection, and while it has them the client is silent; a handler's
copy of `status` is still the slot's, though it was read before the lock was given back;
`data_fd` is in the state the handler's last step left it in. What makes it inductive is
that a step moves one session: `Same...(r)` says what a step in which session `r` takes
no part leaves alone, and that is shown once for each kind of step. `FilesApart` is the
part between sessions: no two transfers hold one FILE. `PipesWhole` takes one thing more,
`PipesInv`: the connection something is to be sent over has its client at the other end from
the moment it is made, by `connect()` or `accept()`, through the swap of the descriptors and
the start of the thread, to the end of the loop. A client's own rules do not say so at once:
it may close a data connection when it uploads, or when no reply is due, and that neither is
the case while the server sends is what `CarefulInv` has to supply. For the refinement,
`PhaseRight` says that the phase a session has by its slot's status is the one its
client sees, and each action is a move of one session or quiet for all.

`CapacityProofs`, under `Careful = Session` and two hypotheses more: `Undisturbed` - no call of
a handler fails and no client sends an empty line, either of which the code answers
with a leak, a missing reply or its exit (see the hazards in `PROJECT.json`); data connections
may be reset, a transfer may never end, and SIGPIPE is not excluded but shown not to
occur - and `Enough` - a thread for each session and `MaxFd - 3 > 3 * |Session|`. Then
`AlwaysStaysUp` (`StaysUp`): a thread whose connection is reset keeps three descriptors
and its session's place for good, but these are the session's own. If moreover no
connection is reset, `DescriptorsAccounted` (`FdsAccounted`) and `RepliesAlwaysBalanced`
(`RepliesBalanced`). The hypotheses are needed: in the instance of the `Careful` run a reset
makes TLC find a violation of these two, as does each fault that is excluded, and a refused
connection, a malformed argument or a failing `socket()`, `bind()` or `listen()` ends the server
as well, since what they leak adds up until `accept()` fails.
The `Careful` run is an instance of them. The three depend on each other: that `accept()`,
`socket()` and `fopen()` succeed needs a free number; that there is one needs that each
open number has an owner (`AllOwned`) and that a session owns at most one in each of
three parts - its connection, its data connection, its file - (`OneOfEach`, `NumberLeft`, by counting);
and that it owns no second data connection needs that `data_fd` is 0 unless the
client or a handler is about to use it (`DataOK`), so that none is overwritten. The `+ 1`
in `Enough` is the listener and the new connection that `accept()` has side by side.

`ConnectDirProofs`, for any names, any length of path and any size of the buffer:
`TypeCorrect`, `AlwaysPassedClean` (`PassedClean`), `AcceptedIsClean` (`ResultClean`: these two,
which `ResultRight` and the proof itself contain, are in no run), `DirAlwaysClean`, `LoopTerminates`,
`ResultAlwaysRight` (`ResultRight`) and `ArgumentsAlwaysResolved` (`ArgumentsResolved`). The first
inductive invariant is `PassedClean /\ DirClean`: what the pointer has passed is
clean. `WithoutFacts` and `UpFacts` say what the two kinds of `memmove()` do to the path before
the pointer and behind it. The second, `MeaningKept`, compares the loop with a reader of the joined
path: when the loop is past the first `q` segments of it, what the pointer has passed is the
stack of names the reader has then, and what is behind it is what the reader has left. The
loop is not always at such a point: `"/.."` leaves an empty segment that the next
iteration drops (`Behind`), or that ends the path (`Ended`). The reference, `Reading`, is a recursive
function over any length of path, and needs induction twice: that there is a function its
recursive equation describes (`ReadsExists`), and that a stack above the root stays there
(`AboveStays`). The library's induction theorems take an operator; `Induction` derives what is
needed for a set, which the provers can instantiate, from the least-element principle
(`WFMin`). `ArgumentsResolved` follows from the two: the session's directory is clean, so that it
means its own names (`CleanLeads`), and one segment more is one push (`ReadOneMore`).

`NamespaceProofs`, for any tree, names, slots and number of objects: `TypeCorrect`;
`StateStaysOwn` (`OwnState`), which needs `FreeZeroed` - a slot without a session is as
`memset()` leaves it, since `Accept` sets only `dir`; `RenameHitsFound` (`RenamesFound`): RNTO
renames what is at the path of the last accepted RNFR, whatever anybody did in between, and if the
object RNFR found has kept its place, that object. It needs `FoundThere` - such an object is
still at the stored path, although others were created, removed and moved around it
(`StillFound`) - and `NothingHasNoId`. Of `port`, for every legal argument: `LegalAccepted` (which ones the mistaken
checks refuse) and `StoredIsMeant` (the others are stored as meant, 16 bits and all).

`FileStoreProofs`, for any files, any number of threads and uploads, uploads of any size and
a buffer of any size: `StoreTyped`, `ChunksStayInPlace` (`NothingMoves`), `AnnouncedIsSent`
(`SizeAnnounced`), `SizesFitTheirColumn` (`ColumnFits`) and `KeptFilesWhole` (the refinement of
`WholeFiles`). The invariant follows the bytes: what a FILE holds back continues, at the
kernel's offset, what it has written (`Buffered`), so that a chunk that is written late is
written where it belongs, even into a file another thread has meanwhile truncated; a Kept
file that is being received is the part of its upload that has been written, and a
download of one has got it up to its offset (`Uploaded`, `Followed`), since nobody else has
the file open (`Alone`). That two passes of LIST agree needs that a file only grows while
LIST runs (`Measured`): `fopen()` for writing, which truncates, is the main thread's. The
proof has one lemma per action and one frame lemma, `Respectful`, that says what a
step of one thread must leave alone for the others.

`FramingProofs`, for any number of clients of each kind, any letters and a buffer of
any size above 3: `TypeCorrect`, `ZeroIsInside`, `LinesAreHeard`, `BytesAreOwn`. Not one of the
three invariants is inductive. `ZeroBehind` says that where a command of one byte may
come there is a zero behind the first cell, which the loop on a zero byte and the cut
of two bytes keep up. `LinesKept` says where the line of a Careful client is: answered, in the
socket, or in the buffer from its first cell on. `PairsKept` says that the one `read()` takes
all that a Paired client has sent, and that a command of it is down to one byte only when a
`read()` has failed; with `OneSender` (what was read for a command is one session's) it
gives `OwnBytes`, as `interpret()` stops before `len` (`CellsRead`).

`UdpSequenceProofs`, for any number of clients, rounds and faults: `TypeCorrect`;
`NumbersAlwaysUnique`, from `NumbersBelow` - all numbers given are below `sequence`;
`AlwaysInTurn` (`InTurn`), from `Behind` - nothing on its way for a client, or from it, is about a
number it has yet to send, whatever came twice - and `Ordered` - a client none of whose
datagrams came twice has one datagram at most on its way, of its own round, and an answer has
a number above those it printed, for which `NumbersBelow` is needed when it is given.

Only model-checked:

- liveness (`AllAnswered`, `MainReturns`, `ThreadsFinish`, `Finishes`): fairness and ENABLED
  are outside the prover. What liveness rests on is proved where it is a safety property:
  `LoopTerminates` for the one loop over data, `RepliesAlwaysBalanced` for the one reply per
  command;
- the findings, which are counterexamples.

## 7. What the model leaves out

- In `FtpServer` a line arrives whole and one at a time; `Framing` has the bytes, and there
  a command is what `strcpy()` would take: not the split at spaces and the missing or
  superfluous arguments, of which `CommandHandlers` has the outcome ("badarg").
- `Framing` takes the byte before `in_buf` to be a zero: it is the last one of `dir`
  (data.h), which is longer than any root directory. A write there is lost.
- A watched number that refers to something other than a control connection (after
  a foreign close) is treated as one whose `read()` fails.
- An `accept()` that is blocked on a listener another thread closes returns an error;
  the kernel may instead keep it blocked.
- Blocking writes: `send_msg` to a control connection does not block.
- `clients[]` is as large as the table of descriptors.
- The pass over a ready descriptor whose slot is DISCONNECTED (operator.c:104, neither
  branch): `WatchedSlotsLive`, checked and proved, says that it never happens.
- The getsockname failure of `pasv` is the same as that of `listen` except that the
  socket listens; `setsockopt`, the byte type and the sizes in the 150 reply have no effect.
- The verbs TYPE, SYST, PWD, CWD, MKD, RMD, RNFR and RNTO are one verb ("OTHER") in
  `CommandHandlers`: they answer once and touch neither login nor data connection.
  An unknown verb is among them. What they do is in `Namespace`, where PWD, SYST, RETR and
  LIST, which change nothing there, and a command that fails are stutters.
- `retr`, `stor` and `mkd` go on with the path when `connect_dir` has returned -1, and `mkd` with
  an argument that begins with `/` uncleaned: they act on whatever the buffer holds,
  outside the modelled tree.
- In `Namespace` the disk is changed by this server alone.
- What `exit()` would flush of the FILEs that failed uploads left open, and uploads to
  one file through two names.
- LIST's other columns; the directories and links among the entries.
- Start-up: `main` reads `-port` and `-root` once, before there is any state; it tests the
  function `port` where `server_port` is meant (server.c:21), so that its default is never
  restored.
- UDP: errors that a host reports to server.py; the time a datagram takes.
- `src/tcp` and `src/udp`, sample programs of the course in several languages, `src/FTP/client`,
  a front end over `ftplib` without state the server depends on, and autograde.py, whose
  expectations are the source of Patient clients and of two findings.

## 8. Plan

Done: `FtpState` -> `ControlLoop`, `CommandHandlers`, `TransferThreads`, `FtpClients`
-> `FtpServer`, `FtpService`; `ConnectDir`; `PortArgument` -> `Namespace`; `FileStore` ->
`WholeFiles`; `Framing`; `UdpSequence`; their runs; proofs about all of them. Every safety
property of every passing run is a theorem.

What is left for proofs, in this order:

1. `CapacityProofs` with refused data connections and missing files: how many of each the
   server survives, as a bound on `MaxFd` that counts them.
2. Patient instead of Careful clients in `CarefulProofs`: which parts of `CarefulInv` a thread that
   closes late leaves standing.
