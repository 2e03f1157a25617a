# A TLA+ verification of server_login

`server_login` is a small chat system for Windows: a server that accepts
connections in one thread and serves every client in a thread of the Windows
thread pool, and a client with a console, a window and a listener. This
directory holds TLA+ models of it, TLC configurations that check them on small
instances, and proofs, checked by TLAPS, that hold for every size.

Paths below are those of the repository; `server.cpp`, `server.h` and
`connection.h` are in `src/server_login/`, `client.cpp` is in `src/client/`.

## 1. The system

### Components

| Component | State | Operations | Where modelled |
|---|---|---|---|
| Frame table (`server.h` 17-31, `initUserFrames`, `closeUserFrame`) | `duf[0..MAX_CLIENTS-1]`: uid, room, talk socket, listener socket, work item | initialise, close write by write | `UserFrames` |
| Accept loop (`_main`, `searchFreeUF`, `verifyUID`, `searchUID`) | its locals, `counter` | accept, refuse when full, give a talk connection a frame and a thread, attach a listener to a session | `Acceptor` |
| Sessions (`_user2`) and broadcast (`share`) | per thread: `_ib`, `ib`, `logged`, `user`; shared: mutex, the global text buffer | receive, lock, login, logout, register, message, change room, unlock, close | `Session`, replies in `Dialogue` |
| Accounts (`tryLogin`, `reg`, table UserList) | rows of (name, password) | SELECT, INSERT | `Session` |
| Client (`main`, `WndProc`, `listen`) | `my_id`, `curr_room`, what each thread waits for | connecting, console commands, room buttons, send button, listeners presenting a uid | `Client`, `Dialogue`; a listener's stream of texts in `Session` |
| Life cycle (`serverStart`, `initUserFrames`, `releaseUserFrames`, server `main`) | handles, `_wsaInit`, `duf` | start, failed starts, `serverStart(-1)` from the console, the accept loop and the sessions | `ServerLifecycle`; the initial table in `UserFrames` |
| Session cipher (both `crypto.cpp`) | buffers that survive a call | encrypt, send, decrypt; a digest that only dead code calls | `SessionCipher` |
| Dead code (`_user`, `callback1`, `callback3`, `sendToServer`, `virtualUser`), `sqlite3.h` | | | not modelled: never called, or a library's header |

### Interactions

A client connects twice. The *talk* connection begins with
`SERVER_SET_CONNECTION`; `_main` takes the first frame whose uid is 0, writes
the socket into it and submits a work item whose thread runs `_user2` on that
frame. After a login the client's listener opens a second connection, begins it
with `SERVER_ADD_CONNECTION` and presents the uid; `_main` looks it up and
writes the socket into the `share` field of that frame. `share()` sends a text
to the `share` sockets of all frames in a room.

Sessions run their commands under one mutex. `_main` and `closeUserFrame` take
no mutex, though they read and write the same table. A free frame is one whose
uid is 0, which is also true of a client that is connected but not logged in.

### What is hard about it

* interleavings of the unlocked accept loop, the unlocked closing of frames and
  the locked commands on one table;
* walks over the table (free frame, fresh uid, presented uid, broadcast) while
  others change it;
* one text buffer for all SQL statements and chat texts;
* a mutex held across blocking `recv` calls;
* `recv` returning 0 (orderly close) handled by looking at `WSAGetLastError`,
  which that call did not set, so that an old command may be run again;
* a limit (`counter`) that only ever grows;
* two client threads on one socket without a lock, answers without request
  numbers, and requests that get two answers or none;
* listeners that connect late and present whatever `my_id` is by then, before the
  server has stored the uid or after the user has logged out;
* a start with seven steps that may fail, each with its own list of what to give
  back, and a stop that anybody may call while the others run;
* results of CryptoAPI and `recv` that nobody looks at, so that old contents of
  buffers stand in for new ones.

The full list, each at its line and with the properties that watch over it, is
under `hazards` in `PROJECT.json`.

### What makes each component correct

* **Frame table**: uids are unique (`UidsUnique`), a recycled frame carries
  nothing of its former user (`RecycledFrameEmpty`), a work item is given back
  once (`WorkClosedOnce`).
* **Accept loop**: its search never fails (`FreeFrameFound`); it comes back to
  accept (`AcceptReturns`).
* **Sessions**: a thread and its frame agree about who is logged in
  (`SessionCoherent`); the buffer belongs to whoever is sending it
  (`BufferOwned`); the mutex comes back (`MutexReleased`), a torn-down connection
  ends its session (`ResetEndsSession`).
* **Broadcast**: no length and no text goes to a user who is not in the room it
  names, also while frames are emptied and refilled (`TextsStayInRoom`,
  `LeaveTextsStayInRoom`), and listeners can parse what they get
  (`StreamsParse`).
* **Accounts**: an account is inserted once, and no two have names of which each is
  `LIKE` the other (`NamesUnique`). One-way confusions, `a%` and then `ann`, the
  code allows.
* **Server as a whole**: implements the abstract registry of uids
  (`RegistryImplemented`).
* **Client and session**: an answer reaches the thread that waits for it
  (`AnswersFit`), both sides agree when nothing is under way (`Agreement`),
  requests are answered (`RequestsAnswered`), a session that is logged in is
  heard by a listener that presented its uid (`SessionHeard`), and a listener is
  answered before it gets texts (`ListenersGreetedFirst`).
* **Life cycle**: nothing is used or given back that is not held
  (`NothingMisused`); a failed start gives back what it took
  (`FailedStartReleases`).
* **Cipher**: the server decrypts what the client encrypted, request after request
  (`CredentialsArrive`).

## 2. The modules

```
UserFrames --+-- Acceptor --+
             |              +-- ChatServer --+-- MCChatServer      (TLC)
             +-- Session  --+       |        +-- ChatServerProofs -- FrameProofs -- BroadcastProofs
                                    +-- INSTANCE UidRegistry                        (TLAPS)
Client ------- Dialogue  --+                                       (TLC)
                           +-- DialogueProofs                      (TLAPS)
               Loops ------+
                           +-- CipherProofs                        (TLAPS)
SessionCipher -------------+                                       (TLC)
ServerLifecycle --------------- ServerLifecycleProofs              (TLC, TLAPS)
```

**UserFrames**: the table, one function per field of `userFrame` that changes
while the server runs (`db`, `err`, `cc`, `mm`, `tp` and `suf` are set once),
the state of every socket (`conn`) and work item (`work`), and
`closeUserFrame` with one action per write or call, in the code's order.

**Acceptor**: `_main` from its first `accept`. Searches advance one frame per
step, and each write into a frame is a step, because they run without the mutex.
A search result of -1 is `mt = MAX_CLIENTS`. Attaching
a listener (`Attach`) and answering it (`Greet`) are two steps. `soc` doubles as the number of
connections so far. A failed `accept` ends the loop; a work item that cannot be
created ends the process (`running`).

**Session**: `_user2`, with a program counter `wpc[w]` per thread. What runs
under the mutex is split where others can see the difference: scans frame by
frame, the SELECT and the INSERT of `reg`, the sending of the uid and its
storing. `share()` goes through each frame in four steps, one for each time it
reads the frame: the room (`MatchRoom`, 142), whether there is a listener
(`MatchListener`, 145), the socket for the length (`SendLength`, 148) and again for
the text (`SendText`, 149); `_main` and `closeUserFrame` write those fields in
between. Error paths kept: `recv` that
fails with a listed error (close), with an unlisted one or with 0 (the previous
command again), the uninitialised result of `tryLogin` when no row matches,
failing SQL, credentials or a room number read from a client that is gone (the
old contents of the local).

**ChatServer**: composition, properties, fairness. **UidRegistry**: the
abstract specification; the refinement maps its `held` to the `id` fields.

**Client** and **Dialogue**: one client, the accept loop that lets it in and the
session that serves it. A request is a list of pieces (command, credentials,
length, text, room) sent one by one, an answer one word or two; each thread
reads the next word whoever it was meant for, and after the connection is lost
(`Cut`, at any point) a `recv` fails and the word last sent stands for the
answer. `Dialogue` has the replies of `_user2` and `_main`, which `Session` and
`Acceptor` leave out. Each granted login starts a listener, which presents
(`Present`) what `my_id` is when it gets to it and is attached, denied or turned
away (`AddConnection`). Other sessions only delay this one.

**ServerLifecycle**: what `serverStart(1)` acquires, step by step with each
failure, and who calls `serverStart(-1)` when: the console on `/stop`, `_main`
before it returns or exits, a session after a refused login. `res` is what each
resource is, `misused` collects those used or given back when not held. The
sockets and work items of the frames, which `releaseUserFrames` would close, are
left out: it never runs once there are any.

**SessionCipher**: `encryptSession` in the client, `decryptSession` in the server,
with the transfer of 17 blocks of which the server decrypts 16. The cipher is a
permutation of a few block values, chained by addition; what matters is which
calls are made with which `final` flag, on which block, in which order, and which
buffers keep old contents when a call fails.

**Loops**: what the proofs about loops and about numbered listeners need of the
natural numbers.

`PROJECT.json` lists under `map` the source lines of each definition.

### Abstractions

* Sockets are numbered in the order of acceptance and handles are not reused.
  `PeerLeaves` is the moment when the end of a client's stream reaches the
  server's reads; what it sent before has then been read.
* A text is a record of who composed it, what it says and which room it names;
  a listener's stream is whole, between a length and its text, or torn.
* Credentials are members of `Creds`; what the client sends is taken to arrive
  decrypted. Credentials from an uninitialised stack buffer stand as some member
  of `Creds`. `LIKE` is the constant function `Like`.
* Left out of the loop of `_user2`: the exit when waiting for the mutex fails
  (639-642), which an owned, existing mutex does not bring about.
* Outcomes of `sqlite3_exec` and the thread pool that only their state decides
  are nondeterministic.
* In `Dialogue` a piece arrives whole, and the model stops when the pieces of two
  requests have mixed.
* In `ServerLifecycle` a session either goes on or comes to its `serverStart(-1)`;
  `SessionCipher` has one client, and block values that stand for 16 bytes.
* History variables: `clash` (frames that were handed out while a thread was
  still bound to them), `swapped` (listeners that came or went between a length
  and its text) and `lenTo`; in `Dialogue` `account`, `refused`, `silent` and
  `excuse` (why a listener was turned away); in `ServerLifecycle` `misused` and
  `poolFailed`; in `SessionCipher` `failed`.

### Properties under conditions

The code hands a frame out again as soon as its uid is 0, so two threads may
share a frame: a second client that connects before the first has logged in
gets the first one's frame. `SessionCoherent`, `RecycledFrameEmpty`,
`WorkClosedOnce`, `TextsStayInRoom`, `LeaveTextsStayInRoom` and
`ResetEndsSession` would all be false of such frames and are stated for frames
outside `clash`. `UidsUnique`, `BufferOwned`, `NamesUnique`, `FreeFrameFound`,
`RegistryImplemented` and `TypeOK` hold of all frames. `StreamsParse` leaves
out the listeners in `swapped`, since `share()` reads the socket a second time
between the length and the text and `_main` may replace it there.
`SessionHeard` leaves out a session whose listener was faster than the
assignment of the uid (`server.cpp` 690-691) or met a full server.
`NothingMisused` leaves out a start in which `CreateThreadpool` failed, because
`initUserFrames` goes on to use the table it has freed (201).

## 3. The runs

| Run | Instance | What it shows |
|---|---|---|
| `sessions` | 2 frames, 2 connections, login, logout and registration of `ann`/p and `ANN`/q, `rand` in {0,7,8} | `SessionCoherent`, `NamesUnique`, `RegistryImplemented` |
| `rooms` | 2 frames, 3 connections (two clients and a listener, or one that is refused), 2 rooms, all but logout and registration | `TypeOK`, `FreeFrameFound`, `BufferOwned`, `StreamsParse` |
| `recycle` | 2 frames, 3 connections, the first of which may be cut at any time, login and rooms | `UidsUnique`, `SessionCoherent`, `RecycledFrameEmpty`, `WorkClosedOnce`, `TextsStayInRoom` |
| `commands` | 1 frame, 2 connections, closed or cut, all five commands, `rand` in {0,7,8}, fairness | `MutexReleased`, `ResetEndsSession` |
| `contention` | 2 frames, 2 connections (two clients, or a client and its listener), login, and rooms for the first, 3 uids, fairness | `MutexReleased`, `AcceptReturns` |
| `dialogue` | 2 names, 2 rooms, 2 uids, 2 logins and their listeners, the connection may be refused or cut; the user waits for each answer and logs in only when logged out | `DialogueTypeOK`, `AnswersFit`, `Agreement`, `SessionHeard`, `RequestsAnswered` |
| `lifecycle` | every failing step of a start, 2 sessions | `NothingMisused`, `FailedStartReleases` |
| `cipher` | 3 blocks of 3 values, 2 requests, failing calls | `CredentialsArrive` |
| `leave` | as `rooms`, login and rooms only | **violation** of `LeaveTextsStayInRoom` |
| `greeting` | as `leave` | **violation** of `ListenersGreetedFirst` |
| `relogin` | as `dialogue`, 3 rooms, but the user may log in again | **violation** of `DenyIsDeny` |
| `window` | as `dialogue`, 3 rooms | **violation** of `WindowComesBack` |

**Bounds.** `MAX_CLIENTS` is 1000 in the code. Two frames give every
interleaving of two sessions and the accept loop, with a frame before and a
frame after any position of a scan; what depends on the number of frames (the
limit, the counting behind `FreeFrameFound`, uniqueness) is proved for every
number. `MaxConn` bounds the connections: 3 pass the limit of 2, and are also
two clients and a listener. Two uids suffice for a collision of two sessions,
and 0 is added where `rand() == 0` matters; `contention` has a third, since a
session that logs in again while both are held would draw for ever. Two rooms make leaving and joining differ; with
one (`recycle`) they still do, and the rooms a lost `recv` leaves behind (-1, 0,
4) come on top. `MaxLogins` 2 gives a listener of the first login that comes
during the second. Three blocks are a first, a middle and a last; the values must
be odd in number for the toy cipher to be a permutation; a second request shows
what the first has left behind.

`Endings` says for each connection how it may end. In `recycle` only the first may,
and only by a reset: its frame is emptied, and refilled by the third connection,
while the others share, draw and log in. Three connections are what it takes for a
text to go to the frame of a client that is being closed: that client, its
listener, and the sender. A frame that is handed out *again* while somebody shares
needs a fourth, which is more than TLC gets through; there the theorem `TextsStay`
has to do. `commands` has one frame, so no listener: it is about the cases and what
a client that goes leaves of them, in both ways to go. `contention` is about the
mutex between two threads and with broadcasts that reach somebody; nobody goes,
and `Commands`, which says for each connection what it sends, lets only the first
client enter rooms, for the sake of its size.

**Deadlock** is not checked: the process may exit, the accept loop may end,
connections are bounded, and a server whose clients are silent rests.

**Fairness** (`ChatServer!Fairness`). Threads that can go on do, and so does the
accept loop once it has accepted. A client need not connect nor send a command,
but one that has begun a connection or a command finishes it or goes away: the
reads inside `Handler` and `MainNext` are part of weakly fair steps. That is an
assumption about clients; without it `MutexReleased` and `AcceptReturns` are
false, because the code blocks in `recv` with the mutex held (`server.cpp` 647,
710, 760, 802, 803) and in the accept loop (60, 69, 108). `ListenersRead` is
another one, and has a name of its own: the sends of `share()` (148, 149) come to
an end. In the code they block, with the mutex held, once a listener has not read
for long enough, so `MutexReleased` says of broadcasts only that they do not keep
the mutex from each other and the rest. `Lock` is strongly fair, since the kernel queues the waiters of a mutex.
`FreshDraw` is strongly fair: `rand()` does not avoid the fresh values for ever.
In `Dialogue` both threads of the client and the session are weakly fair and the
user owes nothing; listeners need not come, and nothing need be cut.

**The user of `Dialogue`.** `Habits` are what a run relies on the user to do.
`waits`: one request at a time, over both threads; without it the two threads
take each other's answers, and TLC violates `AnswersFit` at once. `heeds`:
`/login` and `/reg` only when logged out; without it the session answers twice
(run `relogin`). The client enforces neither. `Agreement` leaves out the room
once a room request was refused, because the window does not look at the answer,
and `RequestsAnswered` stops at the first leave, which is not answered.

### Findings

* **leave** (`server.cpp` 770-774). Leaving a room increments `uf->chat` to make
  the number for the text and then calls `share` with the incremented value: the
  notice goes to the next room. The other way out of a room (780-784) does it
  right.
* **relogin** (`server.cpp` 651-654, 714-717). After telling a logged-in client
  `USER_LOGIN_DENY` the case goes on and may grant a session with a new uid. The
  client prints "login deny" (`client.cpp` 227) and reads every later answer one
  or two words late.
* **greeting** (`server.cpp` 111-118, `client.cpp` 357-361). The listener's socket
  is in the table before its answer is sent. A text shared in between comes
  first: the listener takes its length for the answer, prints "server denay add
  connection", and has lost the boundaries of all that follows.
* **window** (`server.cpp` 768-777, `client.cpp` 630-636). Leaving a room sends no
  answer; the window's thread waits for one for ever.

Also seen while modelling, as hazards with no property: `tryLogin` returns
an uninitialised value when no row matches (355); `Attach` may write before the
table when the session ends between the two walks (110-111); a client with a
clean close makes its thread spin on its last command (585); the last call of
`decryptSession` fails for nearly every request and leaks its key
(`server_login/crypto.cpp` 130); `serverStart(-1)` does nothing after a
successful start, because `_wsaInit` stays 0. The last is also what keeps the
server alive: every refused login calls it (669), and the mutant of
`NothingMisused`, which remembers the start, frees the table under everybody.

## 4. The proofs

Every safety property that a passing run checks is also a theorem, for every
value of the constants that meets the named assumptions.

| Module | Theorem | States |
|---|---|---|
| `ChatServerProofs` | `TypeCorrect` | `Spec => []TypeOK` |
| | `UidsAreUnique` | `Spec => []UidsUnique` |
| | `ServerImplementsRegistry` | `Spec => RegistryImplemented` |
| | `BufferIsOwned` | `Spec => []BufferOwned` |
| | `NamesAreUnique` | `Spec => []NamesUnique` |
| | `FreeFrameIsFound` | `Spec => []FreeFrameFound` |
| `FrameProofs` | `WorkIsClosedOnce` | `Spec => []WorkClosedOnce` |
| | `RecycledFrameIsEmpty` | `Spec => []RecycledFrameEmpty` |
| | `SessionIsCoherent` | `Spec => []SessionCoherent` |
| `BroadcastProofs` | `ListenersParse` | `Spec => []StreamsParse` |
| | `TextsStay` | `Spec => TextsStayInRoom` (an action property) |
| `DialogueProofs` | `UidsAreUids` | `Spec /\ []Orderly => []DialogueTypeOK` |
| | `NoCrossTalk` | `Spec /\ []Orderly => []AnswersFit` |
| | `SidesAgree` | `Spec /\ []Orderly => []Agreement` |
| | `SessionIsHeard` | `Spec /\ []Orderly => []SessionHeard` |
| `ServerLifecycleProofs` | `NothingIsMisused` | `Spec => []NothingMisused` |
| | `FailedStartsRelease` | `Spec => []FailedStartReleases` |
| `CipherProofs` | `CredentialsDoArrive` | `Spec => []CredentialsArrive` |

### The server

These hold for every `MAX_CLIENTS > 0`, every `MaxConn`, `Endings`, `Commands`,
`RandValues`, `RoomArgs`, `Creds` and `Like` that meet the named assumptions (sets
of naturals; a name is `LIKE` itself). The argument is built up in layers, each an
invariant that the next ones use.

1. `Typed` adds to `TypeOK` the bounds that indices obey at their places: a
   thread in the middle of a broadcast step has an index below `MAX_CLIENTS`,
   `_main` on its way to a frame has `counter < MAX_CLIENTS`, the uid being
   scanned for is a value of `rand`. Without them a step could leave the types.
2. `Core` adds `Started` (a thread that runs was started by `_main`, so the
   next work item is new) and `Mutex` (a thread is at a critical place exactly
   if it owns the mutex).
3. `UidInv` makes uniqueness inductive. `UidsUnique` alone is not, because
   `SetId` stores a uid checked several steps before. `Scanned` says that the
   frames a scan has passed do not hold its candidate, `Found` that no frame does
   once the scan is done. They survive the others' steps because uids other than
   0 are written only under the mutex (`IdWrites`), and all the unlocked code
   does to a uid is clear it. The refinement follows: `SetId` is a `Grant` by
   `Found`, `Logout` and `CloseId` are `Release`s, everything else stutters.
4. `GuardedInv` is `BufferOwned` and `NamesUnique` with `StillFree`: between the
   SELECT and the INSERT of a registration the name stays free, because accounts
   are written only under the mutex. `BufferOwned` needs `Mutex` only.
5. `SearchInv` counts: every frame `searchFreeUF` has passed is served by a
   thread (`Served`), and fewer threads than frames were started when the search
   begins, so the search cannot pass all frames (`NotAllServed`, by the
   cardinality theorems). It rests on `counter` never being decremented, and on a
   uid never being stored in a frame without a thread.
6. `ItemInv` (`FrameProofs`) says what being outside `clash` means: a frame has one
   live thread at most, also the frame that `_main` is filling (`OneThread`), and
   the handle in it is that of the thread that was given it last (`ItemOfFrame`).
   `WorkClosedOnce` is part of it, and not inductive without: a thread closes the
   handle it finds, whosever that is.
7. `FrameInv` adds `Emptied` (a closing thread has cleared what `closeUserFrame`
   clears before the place it is at, and a frame without a thread stays clear) and
   `Coherent` (`logged` goes with the uid at every place, not only between
   commands). The lemma `Undisturbed` carries both over the steps of the others:
   nobody but its thread, and `_main` for the listener's socket, touches a frame
   outside `clash`.
8. `StreamInv` (`BroadcastProofs`) is `StreamsParse` with `Unheard`: nothing was
   sent on a connection that is not accepted yet, and no frame has its socket. That
   two broadcasts never mix is `Mutex` again.
9. `TextInv` is for `TextsStayInRoom`. `RoomNamed` follows the room of a text from
   its composition through the call of `share()` to the scan; it uses that the
   mutex keeps the buffer and `OneThread` keeps the sender's frame. `RoomKept`
   follows the receiver's frame from the look at its room to the second send: it
   is still in that room, or it has no uid, or its thread is at the one place
   between clearing the room and clearing the uid (`Closing`). It needs that rooms
   are changed and uids given under the mutex, which the sender has, and that a
   frame which is closing stays so until somebody has the mutex (`StaysClosing`).
   Notices that somebody leaves are not covered, and the run `leave` shows why.

### The life cycle

`ServerLifecycleProofs` holds for every set of sessions that are not `main` or
`_main` (`SessionsAssumption`). Neither property is inductive. `LifeInv` adds what
the start has not come to yet at each place (`Pending`, all of it still "none"; the
rest held unless the pool failed), that no other thread runs before the start is
over (`Alone`), and that `_wsaInit` is 0 except after a failed start (`Forgotten`):
so `serverStart(-1)` takes its early return.

### Client and session

`DialogueProofs` holds for every set of names, rooms and uids, every number of
logins, also for uids that are equal to status words, and for every user, whatever
the `Habits`: the client does not rule anything out. What the theorems say is that
cross-talk has two causes and no other. `Orderly` is a state predicate: no two
threads are waiting, and no login is under way while `my_id` is not 0. As long as
it has held so far, everything holds (`Spec /\ []Orderly => []AnswersFit`, the step
being `Orderly' /\ DialogueInv /\ [Next]_vars => DialogueInv'`): cuts at any point,
refusals, a full server, late listeners and rooms left without an answer do not
mix up answers. That two threads at a time and a second login do is left to TLC,
and to the hazards at `client.cpp` 107 and 627.

The runs take the two from the user's `Habits`. `CarefulIsOrderly` is the link: a
user with both gives `Spec => []Orderly`. The runs `dialogue` and `window` are
instances of it, and `relogin` shows what a user without the second meets.

`AnswersFit` and `Agreement` say nothing of what is in the streams, so the invariant
is a description of it. `Due(th)` is what the session has still to receive of a
thread's request, sent or not, which makes a send invisible (`SendMoves`). While
the connection is up the two sides are in one of these stages (`Talking`):
`Greeted`; `Resting`; `Asking` (a request that the session has not begun),
`Serving` (begun), `Answered` (one word on its way), `Granted` and `Told` (the
verdict alone, then the uid, which may be taken before or after the frame has it);
`Unanswered` after a room was left. After a cut only the words of one answer are
left (`Fits`). Each handler's lemma goes from a stage to the next. `Turns` is the
discipline that orderly requests buy: one thread is busy, and none has anything to send
when it is not.

`SessionHeard` needs `Listening`: the client's uid is heard, or a listener is on its
way that will present it (`Coming`), or a logout was answered and the client has
not read it. A listener presents what `my_id` is when it gets to it, so a listener
of an earlier login may be the one that comes; `LoginUnderWay` keeps a number free
for the next one, which is the least unused (`LeastElement`).

The module also proves `DenyMeansDeny` (`Spec /\ []Orderly => []DenyIsDeny`): what
the run `relogin` refutes is true up to the first login while logged in, being a
consequence of the same stages.

### The cipher

`CipherProofs` holds for every number of blocks (16 in the code) and of requests,
for the three toy ciphers of `ValuesAssumption`. `Encrypt` and `Decrypt` are
recursive functions, and what they compute takes induction. The induction theorems
of the library have operators for parameters, which the provers cannot
instantiate; `Loops` has them with sets, from the theorem that `<` is well-founded
on the naturals (`LeastElement`, `PassByPass`, `LoopValues`). `EncryptCiphers` is the loop
invariant of `encryptSession` (the blocks passed are in CBC, the others as
they were, the key carries the last), `DecryptDeciphers` that of
`decryptSession`, and `RoundTrip` puts them together: the padding block that the
client adds is behind the blocks the server decrypts, and no call before it is a
final one. The invariant of the specification, `UnderWay`, is that what is on the
wire is this request's credentials unless a call has failed.

### Only model-checked

Everything about liveness, which is beyond the prover together with `ENABLED`:
`MutexReleased`, `ResetEndsSession`, `AcceptReturns` and `RequestsAnswered`. The four violations are counterexamples of TLC's.

## 5. Not modelled, and why

* `sqlite3.h`, 12353 of the 14581 lines of the implementation: the vendored
  header of a library, without code of its own. How the server uses the library
  is in `Session`. Of the repository's own 2228 lines about 500 are dead
  code (`_user`, `callback1`, `callback3`, `sendToServer`, `virtualUser`,
  `listen2`, the digest, and what is commented out), and most of the rest that
  is not mapped builds the window, declares or includes.
* AES, MD5, CryptoAPI, the window's drawing: libraries, or no state.
* Contents of texts and SQL statements, buffer lengths.
* The listener's text box (`client.cpp` 377-391): it is changed by messages to the
  window's thread, which may be frozen (run `window`). The listener then stops
  reading, and in the end the server's `send` blocks with the mutex held. That
  needs the capacity of socket buffers, which is outside the source.
* Key handles: that `decryptSession` leaks them is listed as a hazard.
* The thread pool's own limit on threads. The limit of `MAX_CLIENTS` is set on
  a pool of the server's own (203), but work items are created without a
  callback environment (80) and so run in the process's default pool, whose limit
  is the system's. The model gives every work item a thread.
* `/exit` of the console and closing the window: for the server they are
  `PeerLeaves` and `Cut`.

## 6. Plan

Done, in this order: `UserFrames`, `Acceptor`, `Session`, `ChatServer` with
`UidRegistry` and their runs; `ChatServerProofs`; `Client` and `Dialogue`; the
listeners, the accept loop and lost connections in `Dialogue`; `ServerLifecycle`
with its proofs; `SessionCipher`; the proofs about frames, broadcasts, the dialogue
and the cipher.

Next: the safety half of the liveness properties, for which the proofs stand ready
(a thread that owns the mutex always has a place to go on to, so that only a silent
client can keep it there), and an abstract specification of one session (a request
and its answer as one step) that `Dialogue` would be shown to implement by the
stages of `Talking`.
