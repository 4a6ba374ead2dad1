# Verification of nes_sockets

TLA+ models of the sockets library nes_sockets, their model checking with TLC
and proofs about them with TLAPS. `PROJECT.json` lists the runs, the lines each
definition models, the hazards, and the findings.

## The system

nes_sockets is a C++20 library of non-blocking TCP and TLS sockets for programs
that run sequentially: each call polls, sleeps and retries by itself.

| component | state | operations |
|---|---|---|
| `unix_socket` (src/unix_socket.cpp) | descriptor, address, port of one object; there is no state field, "connected" and "listening" are read off the address and the port | construct, move, assign, destroy, listen, has_client, accept, connect, disconnect, send, receive |
| `win_socket` (src/win_socket.cpp) | the same over Winsock, and a process-wide count of instances | the same |
| `socket_tmpl`, `socket_serv_tmpl` (src/socket.cpp, src/socket_serv.cpp) | the socket of the operating system | forward to it |
| receive utilities (src/socket_util.cpp) | what a call has collected, the clock, the retry count | receive_until_delimiter, receive_until_size, receive_at_least, receive_remaining |
| `tls_socket` (src/tls_socket.cpp) | a socket, an SSL handle over its descriptor, `m_handshake` | construct, move, assign, connect, disconnect, handshake, same_thread_handshake, send, receive |
| `tls_socket_serv` (src/tls_socket_serv.cpp) | a listening socket, paths of the certificates | construct, move, assign, listen, accept |
| shared OpenSSL context (end of src/tls_socket.cpp) | an atomic counter and a pointer for the whole process | openssl_ctx, openssl_ctx_free |
| `byte_op` (src/byte_op.cpp) | none | Base64, byte order of integers |
| examples, tests, exceptions, build files | | |

The interactions are calls. The utilities call `receive()` of a socket; a
`tls_socket` holds a `socket` and calls OpenSSL, which uses the descriptor
itself; all TLS objects share the context. What is concurrent is the kernel and
the peer against every loop of the library, and the threads of the program,
which own different objects but share the context.

What makes each part correct, and what is hard:

* A descriptor has one owner, is open while it is owned, and is closed when the
  owner ends; the fields of an object tell the truth about it. This must hold
  after any sequence of moves and failures (`SocketHandle`).
* Bytes arrive once, in order and without holes, while the kernel's buffer
  fills up, calls are cut short, and the connection ends in the middle
  (`UnixStream`, for both operating systems).
* The Winsock library is started before it is used, once, and not stopped under
  an object that has a handle, where the way a program makes and ends its objects
  allows it (`WinSocket`).
* A receive utility returns exactly the next bytes of the stream, in time,
  however the stream is cut into receives (`ReceiveUtil`).
* The context exists while it is needed, is freed once, and every path that
  counts gives its count back (`TlsContext`).
* An SSL handle stays with its socket and its role (`TlsSocket`).
* A handshake ends, can be resumed after a timeout, and is called done only
  when nothing more is owed by the peer (`TlsHandshake`).
* A message sent over TLS is on the wire whole and once, though its sending is
  interrupted and repeated; received data is returned before any error; a
  connection is not blamed for what happened on another (`TlsStream`).
* A client is shown the certificate its server was given, although all servers
  set theirs on one context (`TlsServer`).
* Base64 and byte order invert each other and agree with their definitions at
  the boundaries of groups, lines and widths (`ByteOp`).

## Modules

| module | models | notes |
|---|---|---|
| `SocketHandle` | the life of `unix_socket` objects and the kernel's descriptors | implements `Ownership` |
| `Ownership` | abstract: handles that are acquired, released and handed over | |
| `UnixStream` | one direction of a connection: `send`, the kernel's buffers, `receive`, of `unix_socket` and of `win_socket` | implements `ByteStream` |
| `ByteStream` | abstract: the promise of a stream socket; once it may be lossy, bytes may be left out | |
| `WinSocket` | the life of `win_socket` objects, the handles of Winsock, and the count of its library | threads |
| `RetryInterval` | `calculate_interval_retry` | used by `ReceiveUtil` |
| `ReceiveUtil` | the four receive utilities | |
| `TlsContext` | `openssl_ctx`, `openssl_ctx_free` and the operations that call them | threads, one step per access of a shared variable |
| `TlsSocket` | the life of `tls_socket` objects | a handshake is one step |
| `TlsHandshake` | `handshake`, `same_thread_handshake` | its flights |
| `TlsStream` | `send` and `receive` of `tls_socket` over OpenSSL | records, the thread's error queue |
| `TlsServer` | `tls_socket_serv` objects and the certificates on the shared context | sequential |
| `ByteOp` | `to_base64`, `base64_to`, `to_bin_arr`, `bin_arr_to` | round by round |
| `SocketHandle_proofs`, `UnixStream_proofs`, `TlsContext_proofs`, `TlsSocket_proofs`, `TlsStream_proofs`, `WinSocket_proofs` | theorems about the module of that name | |
| `TlsSetup_proofs` | theorems about `TlsHandshake` and `TlsServer` | |
| `Utilities_proofs` | theorems about `ReceiveUtil` and `ByteOp` | |
| `MC...` | the definitions TLC's configurations need | |

Definitions have the names of the functions they model, with a capital letter,
and state variables those of the fields (`m_handshake`, `openssl_ctx_counter`,
`retry_count`, `ret`, `data_span`). Definitions named `Mut_...` are plausible
mistakes in the definition they stand before; no action uses them. They are
there to show that the properties notice such mistakes.

### SocketHandle

One action per operation of `unix_socket`. An object is storage: `alive` says
whether an object is in it, `sd`, `addr` and `port` are its fields. The kernel
has its open descriptors, what each is (a stream or a listener, on which port),
and the clients that wait. `is_connected` and `is_listening` are computed from
the fields as in the code, and guard the operations as in the code, so that a
connection to `0.0.0.0` or port 0 has the consequences it has there. Address
resolution is a choice among the addresses; a failing system call leaves the
object alone and the descriptor closed, which is a step only where it changes
something (accept).

### UnixStream

A byte is its position in what the sender handed over. Every `::send` and
`recv` is a step, with the kernel's choice of how much it takes and the moves of
the network in between. `EWOULDBLOCK` is what a full buffer answers. A break
loses what has not arrived, tells the receiver once, and can come at any moment;
the sender learns of it at its next call. `disconnect()` of the sender lets the
kernel send what it has. The loops of `win_socket` are the same but for one
branch: they look for the reason of a failed `send` in `errno`, where Winsock
does not put it, so a full buffer ends the call with an exception at once and
the retries are never used. The variable `system`, chosen once among the
constant `Systems`, says whose code runs.

### WinSocket

An object's constructor counts the instance (`WSA_init`) and then, if it counted
the first, starts the library; its destructor counts down and then stops it.
The count and the call are separate steps: `phase` says how far each object is,
so that objects of other threads move in between. A start that finds another
version than 2.2 is undone by a stop of its own (`WSARefuses`), and between the
two calls the library is there for everyone. `failed` says that a start did not
succeed or was refused, whose count stays. When the library's own count of starts
comes to zero it closes every handle (`CleanUp`). Three variables that never change
say what the program and the system are: `serial`, objects are made and ended one
at a time; `keepers`, the objects that are made first and outlive the others;
`right_version`, whether the start is refused. The address `accept()` stores is
that of the client behind a default `0.0.0.0` and zero bytes; the model has one
value for it, `Garbled`, which is not `0.0.0.0`, so that `is_connected()` answers
yes.

### ReceiveUtil

The four utilities are one loop with four tests. Time is counted from the start
of the call; it passes in the sleep, unit by unit, and inside `receive()`, which
takes up to `RecvCost`; a sleep may last up to `Jitter` longer than asked.
`receive()` returns everything that has arrived: what it returns in finer pieces
`UnixStream` shows to be the same bytes. The utilities are templates over `socket`
and `tls_socket`, and where the two differ the model has both: on a connection
that broke the first drops the last bytes with its exception, while the second
returns them and throws at the next call; a `close_notify` is an error to the
second. The retry count is kept only up to
`MaxRetry`, from where the interval is constant. The interval is computed in
doubles in the code and as an integer quotient here; for the constants of cfg.h
the two agree but where the double product falls just short of an integer, by
one millisecond.

### TlsContext

An operation is the list of what it does to the context, in order, and each
access to the counter or to the pointer is one step, so threads interleave
between the increment and the allocation, and between the decrement and the
release. Objects belong to one thread. OpenSSL's own references (an SSL handle
keeps its context in memory) are modelled, as is an allocator that gives a freed
address out again.

### TlsSocket and TlsHandshake

`TlsSocket` names an SSL handle by the descriptor it was bound to, so that
"the handle belongs to this socket" is an equation, and keeps the end of the
connection each descriptor is and the handles whose handshake was made.
`TlsHandshake` opens the handshake up: three flights (TLS 1.3) or four (TLS
1.2), made in turn; a call of OpenSSL goes as far as what has arrived allows.

### TlsStream

The connections of one thread are used in turn, as a program does that polls
several. A message is cut into records. A record that finds no room stays in
OpenSSL, and `SSL_write` must be called again with the buffer it has kept
(the library sets no mode that relaxes this): another buffer is an error, other
data in the same buffer goes on from the middle of the first. The error queue
belongs to the thread and no call of the library empties it before it is used,
so `SSL_get_error` may report another connection's error; `queue` says that there
is one. A connection
ends by a `close_notify`, by an end of file without one (an error in
OpenSSL 3) or by a reset. `receive()` collects until OpenSSL has nothing left;
an error after something was collected is left to the next call. A `send()` of
less than what is already written of the kept one is an error that ends the
session: `cut` has these connections, whose later calls fail, and whose `receive()`
drops what the socket still has.

### TlsServer

The context keeps a certificate and a key for each kind of key.
`SSL_CTX_use_certificate_file` drops a key that does not fit,
`SSL_CTX_use_PrivateKey_file` refuses one that does not fit the certificate of
its kind, and `SSL_CTX_check_private_key` looks at the kind that was set last.
A `listen()` that throws leaves what it has set so far. `accept()` makes an SSL
handle, which copies what is set at that moment. Once a `listen()` has counted
the context it stays for the life of the process (see `TlsContext`), so its end
is not modelled here. Which certificate a client prefers among those of several
kinds is left open: `shows` is the set.

### ByteOp

Characters are indices of the alphabet, with two more for the line feed and the
padding. Each round of the loops is a step, so that the position in the line, in
the group and in the text are state as in the code. What `base64_to` counts before
it decodes (`Symbols`) are the characters that are not line feeds. The length of
a line and the number of values of a byte of an integer are constants, and small
for TLC; a shift by `k` bytes is a multiplication by `Scale(k)`, and the sum of
`bin_arr_to` is written for each width as in the code.

## Runs

| run | module | distinct states | shows |
|---|---|---|---|
| `handles` | MCSocketHandle | 72,592 | one owner for every descriptor, open while it is held, lost only by a move assignment; `is_connected` and `is_listening` tell the truth; implements `Ownership` |
| `stream` | MCUnixStream | 12,841 | order, no duplicates, no holes except where the buffer was full; a clean close comes after the data; `send()` returns; implements `ByteStream` |
| `stream_skipped` | MCUnixStream | violation | a full send buffer makes `unix_socket::send()` leave out a chunk |
| `winsock` | MCWinSocket | 20,161 | the count is that of the objects and of a failed start, and the library is started once for them; where objects come and go one at a time, or one outlives the rest, it is never stopped under an open handle |
| `utilities` | MCUtilities | 1,044,834 | the receive utilities return the next bytes of the stream, miss no delimiter, end, and end in time; the text of Base64 is the one of RFC 4648 and reads back, and integers read back in both orders |
| `byteop_groups` | MCByteOp | violation | a text whose padding fills a line has one `=` too many |
| `byteop_uint32` | MCByteOp | violation | a little-endian `uint32_t` does not read back |
| `context` | MCTlsContext | 207,285 | the counter is exact, the context is freed once and never used without being there |
| `context_race` | MCTlsContext | violation | two threads make the first TLS objects |
| `tls` | MCTlsSocket | 5,330 | handle, socket and role of a `tls_socket` belong together; nothing is lost |
| `setup` | MCTlsSetup | 75,516 | both handshakes end and establish the connection, and ok is said when nothing is owed; whose certificate a client is shown, when a server can still serve, and what it takes for files that do not fit to be accepted |
| `tlsstream` | MCTlsStream | 591,378 | messages stay whole unless a kept buffer is given other data; data comes before errors and before the end unless a shorter `send()` ends the session; a failure on a sound connection is another connection's error |

The bounds. `handles`: three objects and three descriptors: a move involves two
of each, a third one is what a second owner or a lost descriptor needs. Two
ports let two listeners meet or differ. The addresses are a local and a remote
one and the ports are the kernel's; what `0.0.0.0` and other ports do is told
below. `stream`: a few bytes (`MaxWrite`,
`MaxBytes` 5) with packets of two and buffers of two, so that a chunk spans a
full buffer, a partial send and an empty one, and the one retry is used up and
reset. `winsock`: four objects in as many threads and three handles: one object stops
the library, one has yet to start it again, one gets a handle in between, and one
outlives them or is moved.
`utilities`: a stream of up to four bytes over two values with a delimiter of two
equal bytes gives every way to split and to overlap it; intervals of one to
three units against a `time_expire` of six, or none, give calls that end by data,
by the limit and in the sleep. The sizes are two or three, and zero or one for
`receive_remaining`, so that a receive can fall short, fit or pass the limit.
`context`: one thread with three objects, which makes every sequence of
constructors and failures; and two threads of two objects each with one more
object that lives throughout, which makes every interleaving. Counts taken by
calls that only use the context are bounded by `MaxBorrowed`, that is how often
connect, listen and accept happen. `context_race` is two threads with nothing
that keeps the context. `tls`: three objects, three descriptors; moved-from
objects are assigned to or destroyed, which is what the language expects of
them, and are not connected again (`ReuseMoved` is FALSE). `setup`: `MaxRetry`
is three, fewer than the flights need when nothing arrives, so that timeouts do
happen. `tlsstream`: two connections, of which one sends, so that a second one's
errors are there to be mistaken; two buffers, room for one record and messages
of none to two records, so that a send is interrupted, repeated and replaced.
`setup` also has two servers and three calls of `listen()`; two certificates of one RSA
key, one of another, and one of an EC key, so that a renewal, a replacement and a
second kind happen. `utilities` and the two runs of `MCByteOp`: lines of eight characters instead of 76, and texts
up to seven bytes, which go past one line and end in every way; two byte values
whose bits reach both ends of every group.

`setup` and `utilities` each check two modules that have no variable in common: a
behaviour is one of either module, beginning where the other has done nothing.

Every run with conversions ends with them and has `CHECK_DEADLOCK FALSE`. The others
check for deadlock: an object can always be made or ended and a call made, so no
state of these systems is without a step.

Fairness. A call that has begun goes on (weak fairness of the steps inside the
loops): the library's loops run in the calling thread, which the system
schedules, and no step waits for a lock. This is `SendStep` and `RecvStep` in
`UnixStream`, `Step` in `ReceiveUtil`, `Try` and `Turn` in `TlsHandshake`, and
the steps of the running call in `TlsStream`. The network delivers what it holds
(weak fairness of `Deliver` and `Transfer`), which TCP does while the connection
is up; a break is always possible and never forced. The receiving program calls
`receive()` again (`UnixStream`), as the utilities and the example programs do.
`Established` states its assumption, that both programs call again after a
timeout, in the property itself.

## What the code does otherwise

Four runs have a counterexample; PROJECT.json quotes the lines.

* `stream_skipped`: a chunk that met a full send buffer is never sent, and
  `send()` of `unix_socket` succeeds.
* `context_race`: the second thread to make a first TLS object gets no context.
* `byteop_groups`: a text whose padding fills a line (55 or 56 bytes with the
  code's lines of 76) has one `=` too many, so its groups are not complete.
* `byteop_uint32`: `bin_arr_to<uint32_t>` keeps only the lowest byte of a
  little-endian number.

The other properties hold with the exceptions they name, or within the inputs
their runs are given. These are the ones a user of the library should know; each
can be reproduced by dropping the exception from the property or by adding the
input to the run (`0.0.0.0`, port 0 or a port beyond `PortMod` in `handles`, a
size of 0 in `utilities`, `ReuseMoved` TRUE in `tls`).

* Objects. Move assignment of a socket loses the descriptor the target held
  (`OrphanedOnlyByAssign`); the echo server's `erase_if` does that to every client
  that stays behind one that left. An object connected to `0.0.0.0` denies that it is
  connected, and `listen(0)` or a port beyond 16 bits gives a listener that
  denies it or names another port (`FieldsTellTruth`). `disconnect()` of a
  `tls_socket` connected to `0.0.0.0` leaves the descriptor open (`NoOrphan`,
  `DisconnectedIsClosed`). A moved-from `tls_socket` that connects again believes
  in the handshake of its earlier connection (`RoleFits` with `ReuseMoved` TRUE).
* Windows. A thread that counts itself in may use the library before the other
  has started it (`StartedOnce`). A library of another version is stopped again
  under the handles other threads got meanwhile, and the last object's stop may
  come after another thread got a handle from the old start: `OneOpenOwner` holds
  for programs that make and end objects one at a time or keep one throughout, and
  a failed `WSAStartup` stays counted (`CountedOnce`). `send()` throws on a full
  buffer, without a retry (`SkippedOnlyWhenFull`).
* Utilities. `receive_until_size(0)` and the like never succeed (`NotYet`). Data
  that arrives during the last sleep is answered with a timeout, and whether a
  delimiter inside `max_size` is accepted depends on what else came in the same
  `receive()`.
* TLS streams. A connection of a thread may fail for an error another one left
  in the queue (`FailuresAreOwn`). After "Timeout sending data." other data in the
  same buffer is sent from its middle (`WholeMessages`), and a `send()` of less than
  was written ends the session, after which data received is dropped
  (`NothingDropped`, `DisconnectedIsLast`). An empty message, or one
  of 2 GiB and more, is an error of `SSL_write`. A `close_notify` is reported as
  a generic error.
* Certificates. The last `listen()` decides what all servers show, even one that
  throws; one that throws between certificate and key leaves the servers of that
  kind without a key (`ClientsSeeTheirServer`, `GoodFilesSuffice`). An EC
  certificate with an RSA key is accepted if an earlier call left the
  certificate of that key (`MismatchNeedsLeftover`).
* The context is never freed once a `connect()`, `listen()` or `accept()` of TLS
  has asked for it, for that count is not given back (`Accounting`).
* `byte_op`. `base64_to` refuses the line feeds `to_base64` writes (`RoundTrip`).
  `RfcText` says nothing of how much padding the texts of `byteop_groups` get, and
  `ReadsBack` nothing of the numbers of `byteop_uint32`.

## Proofs

All theorems hold for every value of the constants their modules' assumptions
allow. Where a theorem assumes more, its statement says so.

`SocketHandle_proofs`. The inductive invariant `Handles` is `TypeOK` with: no two
objects hold a descriptor (`UniqueHandle`), a held descriptor is open
(`HeldIsOpen`), and an object whose fields say "connected" holds a stream.
Uniqueness alone is not inductive: a descriptor the kernel hands out is new to
the objects only because all they hold is open. From it:
`HandlesAreUniqueAndOpen`, `ConnectedIsNeverListener`, the action property
`LostOnlyByAssignment`, and `RefinesOwnership`, that every step is a step of
`Ownership` or a stutter. `FieldsAreTrue` adds the assumption `Telling`: nobody
connects to `0.0.0.0`, and ports are the kernel's.

`UnixStream_proofs`. The inductive invariant `Inv` lists the places a byte can be
in and says that, one after the other, they are the bytes the kernel took, in
order (`Conserved`); `Shape` keeps the spans of a running call consistent with
them. With `SkippedOnlyWhenFull` that is enough for `IsAByteStream`, that every
step of either system's code is one of `ByteStream` or a stutter, for any
packet, buffer and message sizes.

`Utilities_proofs`. Of the receive utilities, `CollectsTheStream` is inductive with
`TypeOK`; `Punctual` needs `Wakes`, that a sleep ends no later than its interval
and the jitter allow. `StopsWhenSatisfied` assumes `Asking`, that sizes of zero are
not asked for.

Of Base64, the lemmas go from the bits of three bytes to their four sextets
(`ByteBits`, `SextetsOf`, `FourSextets`), and from there to a round: `RoundWrites`
says that the character of round n is the sextet behind n others, `RoundReads` that
two neighbouring sextets give the byte back. The inductive invariant `TextInv` has
the text laid out in lines up to the sextet the loop is at (`LaidOut`), then
complete with or without padding (`Complete`), and what `base64_to` has put
together equal to the bytes before its position (`ReadBack`). `LaidOut` and `Complete`
say where each line feed and each sextet is, so the places of `RfcText` follow
from counting (`LaidOutIsRfc`, `CompleteIsRfc`). `TextsAreRfc` and `TextsComeBack`
hold for all byte sequences and every length of a line that is a multiple of four.
What `RfcText` says nothing of, padding that fills the last line, `TextsAreRfc` says
nothing of either.
Of integers, `Digits` says that the terms of the sum are the differences of what
is `Below` one byte and the next, so that their sum differs from the number by a
multiple of the size of its type, and the cast drops it (`CastDropsMultiples`,
`CastKeepsValues`). `IntegersComeBack` holds for every even number of values of a
byte, 256 among them.

`TlsContext_proofs`. An operation is a list of accesses, so the invariant says of
every operation what its remaining stages owe the counter (`Stages`), and that the
counter is the number of objects alive, the units owed by the operations under
way, the object that keeps the context and the borrowed counts (`Balance`); the
sum over objects is a cardinality. From it comes `CountsAreRight`. That the
context is there when it is used needs more: with threads it holds only under
`Guarded`, that one thread uses TLS or an object outlives the threads that do,
and then by `Watched`. The assumption is needed: `context_race` refutes the
property without it.

`TlsSocket_proofs`. `TypeOK` and `HandleFitsSocket` are inductive together
(`TypeCorrect`, `HandlesFit`): a new descriptor is nobody's because all that are
held are open. On top of them `NoOrphan` and `DisconnectedIsClosed` need each
other (`NothingLost`, `DisconnectCloses`): `connect()` overwrites the descriptor
of an object without a handle, which loses nothing because such an object has
none, or one connected to `0.0.0.0`. `RolesFit` needs the invariant that an
object without a handle is back at `connect` unless it was moved from, and the
assumption that those are not connected again.

`TlsSetup_proofs`. The invariant of the handshake adds to `TypeOK` that flights are taken in
order: what a side took has arrived, what arrived was made (`InOrder`). When one
side is done it has made the last flight, or has taken it from a side that is
done too (`DoneSettlesBoth`); that is why `same_thread_handshake` may mark both
objects when one call succeeds. `TypeCorrect` and `OkMeansSettled` follow, for
any limit of retries.

For the servers, `NoCertificate`, `KeyRefused` and `KeySet` say what a `listen()` does
to the context at the three places it can end. The invariant is that every entry
of the context is of its kind and a key fits its certificate (`EntriesFit`), that
an entry no call has changed since a server's `listen()` still holds the server's
own certificate and key (`UntouchedIsTheirs`), that a server which listens has both
files (`ListenersHaveFiles`), and `GoodFilesSuffice` itself. Moves carry the paths and the time of the `listen()`
along (`Movements`), so they disturb none of it. From it `ServersCanServe`,
`ClientsAreShownTheirServer` and `MismatchesAreRefused` follow, for any servers,
certificates, keys and number of calls.

`TlsStream_proofs`. `MessagesAreWhole` rests on an invariant that ties what is on
the wire to the message under way and to the write OpenSSL keeps (`OnTheWire`,
`GoesOn`); `ErrorsHaveACause` on `Blamed`, that the queue is only filled by a
connection that was handed a wrong buffer or ended without notice. `DataIsKept`
and `TheEndIsLast` follow the data from its arrival to its return, on the
connections whose session the caller has not ended.

`WinSocket_proofs`. `Counting` says that the count is the cardinality of the
objects in the counted phases, and one more after a failed start, that the
starts and stops of the library balance to the one the count stands for, and
that at most one object is about to start it; from it `InstancesAreCounted` and
`LibraryIsStartedOnce` follow. `Guarded` says what a program has to do for its
handles: where objects are made and ended one at a time no other object is alive
while the library stops, and where the program keeps an object it never stops. From
it `HandlesAreOpenAndUnique` follows, for `OneOpenOwner`.

Left to TLC: the liveness properties (`SendReturns`, `AcceptedArrives`, both
`CallEnds`, `Established`, `TurnsEnd`, `CallReturns`), which need fairness and
ENABLED, which the prover does not do; and that the four counterexamples exist.
Every invariant and every action property of the passing runs is also proved.

## Not modelled

* `socket_tmpl` and `socket_serv_tmpl` forward every call and have no state.
* The examples: `http_get` is one connection with one send and one receive loop;
  the echo server is a loop over the operations modelled here.
* The text of the exceptions, address resolution and the options of the sockets,
  which are pure calls of the operating system; which exception is thrown is an
  outcome in the models.
* SIGPIPE: `::send` is called without MSG_NOSIGNAL, so a peer that is gone ends
  the process unless the program ignores the signal. Whether it does is not in
  the library.
* `receive()` returns when `recv` has nothing left. Against a peer that sends as
  fast as it is read it does not return; the models have finite streams.
* The contents of certificates, the verification by the client, and the cipher.
* The test framework and the build files.

What would come next: a run of `UnixStream` with a sender that has no bound.
