# pg_client in TLA+

pg_client is an asynchronous PostgreSQL client in Rust: a wire-protocol connection, streams,
cursors, COPY, transactions and notifications on top of it, TLS and authentication below, automatic
reconnection, and a pool (`crates/pg-client/src`). This directory holds its formal model: TLA+ modules translated
from that code, TLC configurations that check them on small instances, and proofs that the TLA+
proof system checks for all instances. `PROJECT.json` maps every definition to the lines it
stands for and lists runs, mutants, hazards, findings and theorems.

File names below are relative to `crates/pg-client/src`.

## The system

### Components

| Component | State it keeps | Operations | What makes it hard |
|---|---|---|---|
| Pool (`pool/`) | `PoolInner` behind a mutex: `idle` queue, `active_count`, `pending_count`, `closed`; a bounded(1) wake channel | acquire, acquire_resilient, acquire_with_timeout, release, Drop of a guard, detach, maintain, close, Drop of the pool | several tasks; each call is a chain of short critical sections with awaits in between; any await may be cancelled |
| Connection (`connection.rs`, `query/`) | `state`, `needs_recovery`, `transaction_status`, the transport | query, batch, parameters, prepared statements, pipeline, streams, recover, close | one call at a time, but it may stop at any await and leave an answer half read |
| Cursors (`query/cursor.rs`) | portal handle, `owns_transaction`, stream state | open, fetch, close, consume, Drop | who began the transaction, and who ends it |
| COPY (`copy/`) | handle state | copy_in, finish, cancel, copy_out, read_next, Drop | sub-protocol in both directions, handles dropped in the middle |
| Notifications (`notification.rs`) | queue of notifications | listen, unlisten, notify, notifications, wait_for_notification | a notification can arrive between any two messages |
| Reconnection (`reconnect/`, `connection.rs`) | `session_state` (channels, parameters, init SQL, `in_transaction`), `health`, `ReconnectConfig` | set_param, listen, ping, reset, reconnect, with_retry, ensure_alive | the client's copy of the session against the server's; a new session built in the middle of a call |
| Transactions (`transaction/`, `error/retry.rs`) | `finished`, `savepoint_depth`, `released` | begin, commit, rollback, savepoints, with_transaction, with_retry, with_retry_any | Drop cannot send; COMMIT of a failed block succeeds; a retry on the same connection |
| Transport, TLS, codec (`transport/`, `protocol/buffer.rs`, `Codec` in `auth/mod.rs`) | `write_buf`, `read_buf`, rustls's buffers, `MessageBuffer` | send, encode_and_write, flush, read_message, close | short reads and writes; a future dropped between two layers; full buffers at both ends |
| Startup and authentication (`connection.rs`, `auth/`, `transport/`) | the link, `server_params`, the SASL exchange | connect, connect_with_retry, negotiate_tls, handshake, authenticate, read_startup_params | the server chooses the order of messages; TLS may be refused; timeouts that cover one part only |
| Query cancellation (`cancel.rs`) | address, key, Config of a session | cancel_token, cancel, cancel_with_timeout | a second connection that races queries and reconnects of the first |
| Configuration (`config.rs`) | `Config` | new, builders, from_uri, from_key_value, from_env | which combinations can arise |
| Statement cache (`query/cache.rs`) | map and LRU order | get, insert, evict | capacity 0, re-insertion |
| Types, errors, tracing | none | conversions | sequential |

### Interactions

The pool owns connections and calls `connect`, `ping`, `execute("ROLLBACK")`, `is_idle` and
`close` on them, outside its lock. Handles (`RowStream`, `Cursor`, `CursorStream`, `CopyIn`,
`CopyOut`) borrow a connection mutably, so one call at a time uses it; what they leave behind
is in `state` and `needs_recovery`, which the next call (and the pool's `is_idle`) reads. Every
ReadyForQuery refreshes `transaction_status`; `read_until_ready` also refreshes
`session_state.in_transaction`, from which `with_retry` decides whether it may reconnect.
`reconnect` builds a second connection, replays the session there, and swaps it into `self`.
`Transaction` and `Savepoint` are borrows of the same kind whose Drop only changes flags: the block on
the server outlives them. Below the protocol, `Codec` writes through `BufferedTransport` to the socket
or to `TlsTransport`; a dropped future loses the local variables of each layer and keeps its
fields. A `CancelToken` copies the key and the `Config` of a session and connects by itself.

### What would make each part correct

* Pool: a connection is used only by whoever took it or opened it, until it is given back
  (`Ownership`); nothing handed out or under construction is missing from the counters, and they count
  nothing else; nothing in mid-exchange waits in `idle`; no guard after close; an acquire ends; at most `max_size` connections; a guard starts clean.
* Connection: no request goes out before the previous answer has been read; the client's
  transaction status is the server's when it acts on it; no call reads from a server that has
  nothing to say; no notification is lost, doubled or reordered; a cursor ends the transaction
  it began, and only that one.
* Reconnection: what is tracked is what the server has; a replacement is complete before it is
  used and carries nothing of the old connection's protocol state; retries are bounded and end;
  no reconnect in the middle of a transaction unless allowed.
* Transactions: what is reported as committed is committed, what is reported as undone stays undone
  whatever the next transaction does; a savepoint guard ends the savepoint it made; a retry starts on
  a clean connection and commits one attempt.
* Transport: bytes arrive once, in order, or the stream is at an end; a write ends.
* Startup: secrets and requests only over links that the configuration permits; the server proves
  itself; keys, parameters and cancellations belong to one session; attempts and delays stay within
  the policy; connect() ends.

The list of what is hard to test, line by line, is `hazards` in `PROJECT.json`.

## Modules

| Module | Models | Instance |
|---|---|---|
| `Pool` | `pool/core.rs`, `pool/guard.rs`, `pool/config.rs` | 2 tasks, 3 or 4 sockets |
| `Ownership` | abstract: who may use a connection | refined by `Pool` |
| `OwnershipProofs`, `PoolProofs` | theorems about them | any tasks, connections, configurations |
| `Connection` | `connection.rs`, `query/`, `copy/`, `notification.rs` with the server | 1 connection, 2 messages in flight |
| `ConnectionProofs` | theorems about it | any calls but three, messages in flight, notifications |
| `Reconnect` | the reconnecting half of `connection.rs`, `reconnect/` | 1 parameter, 1 channel, 4 configurations |
| `ReconnectProofs` | theorems about it | any parameters, channels, configurations |
| `Transaction` | `transaction/`, `error/retry.rs` with a session of the server | 3 transactions, 1 row each, 2 savepoints |
| `TransactionProofs` | theorems about it | any rows, names, retries, calls, savepoints |
| `Transport` | `transport/`, `protocol/buffer.rs`, `Codec`, with rustls, sockets and a server | 2 messages of up to 3 units |
| `TransportProofs` | theorems about it | any sizes of buffers, records and messages |
| `Startup` | `config.rs`, connect in `connection.rs`, `auth/`, `transport/tls.rs`, `reconnect/retry.rs`, `cancel.rs` | 5 attempts, 2 sessions, 1 token |
| `StartupProofs` | theorems about it | any policy, addresses, iterations, process ids |
| `MCPool`, `MCConnection`, `MCReconnect`, `MCTransaction`, `MCTransport`, `MCStartup` | instances for TLC | |

### Pool

`PoolInner`'s fields are variables of the same names. Every critical section of the code is one
action; a task's place between two of them is `pc[t]`, named for what it does next, so all
interleavings at unlocks and awaits are explored. `acquire` picks an `AcquireDecision` in one
critical section (`DecideClosed`, `DecideIdle`, `DecideCreate`, `DecideExhausted`) and acts on
it in another (`DiscardExpired`, `NeedsHealthCheck`, `Ready`, or `LostRace` when the queue has been
emptied meanwhile). `release` is `Release`, `ResetOk` or `ResetErr`, `Return`, or a close
followed by `maintain_min_idle`. `Cancel(t)` drops a task's future at any await: what it owned
is closed, its counters stay: a future dropped while it connects leaves its increment of
`pending_count` for good (`pool_pending`). A connection is an identity with its transaction status and the sets it belongs to:
`busy` (mid-exchange), `dead`, `old` (past `max_lifetime`), `stale` (past `idle_timeout`).

Data left out: durations (the environment chooses when one elapses), the error values, `status()`.

### Ownership

Connections wait on a shelf and are in somebody's hand from the moment they are taken or opened
until they are given back or disposed of. `Pool` implements it with `shelf <- idle`; the step of
`maintain()` is its `Sweep`, which keeps the order of what stays.

### Connection

`job` and `at` say which call is suspended and at which await: `send`, `read`, `drain`
(`read_until_ready` after an error), `recover`, `notification`. One message read is one action;
a message a loop passes over is `Discard`. The server is external: `srv` is the phase of each
request it has received, `Say(phase)` the messages it may send next, `stx` its transaction
status, `wire` what it has sent and nobody has read. The handle and its state are `handle`,
`hstate`; `Cancel` drops the future of a call at any await, `DropHandle` a handle between calls,
`IoError` fails a call on a broken transport. `query`, `execute`, `listen` and the other calls
that send one simple query and read the stream to its end are `query_stream` followed by `next`.

Assumed of callers and of the environment:

* statements given to `query_stream` and `batch_execute` are not COPY statements, and COPY goes
  in the direction of the call (otherwise both sides wait, a listed hazard);
* messages decode; a send reaches the server as a whole or not at all (when that is so is
  `Transport`'s subject: `SentOnce`);
* the `test-native` build, whose Drop implementations block on I/O, is left out; `tokio` covers
  the two versions of `wait_for_notification`.

Three things hang and so are excluded from the passing run by its constants, each listed
as a hazard: dropping an unfinished `CursorStream` (`drop_cursor_stream`, shown by its own
run), calling `next()` again after cancelling its error drain (`resume_next`), and
`query_params_stream` with an empty statement (it is not in `Empty`).

### Reconnect

One statement is one step here; the exchange below it is `Connection`'s. A statement ends in one
of the `...Ok` actions, or `Refused` (ErrorResponse), `Lost` (transport), `InvalidState`
(refused by `transition()`), or the caller abandons it: before the server has the request, after it has
it but with the send not finished (the state stays Streaming, an answer is owed and
`needs_recovery` is not set), or while the answer is read. `session` is the server's side: settings
now, settings a rollback restores, transaction status, whether an answer is owed. The actions
from `StartReconnect` to `Swap` are the awaits of `reconnect()`; `fresh` is the session behind its
local `new_conn`, `new_state` the state of that (Streaming once its transport died in a rebuild, which
`rebuild_session` tolerates), and `Swap` its last lines, which copy that state. `Retry` is the error handling of `with_retry`, by the
class that `classify_error` gives; since one dead transport shows as several kinds of error,
`Lost` allows all three classes, and `Refused` those that `classify_error` gives a SQLSTATE (`ErrorClass`).

Abstractions: parameters change through `set_param` and channels through `listen` and `unlisten`
only, and their names and values need no quoting; the operation given to `with_retry` is one
statement; the clone of `session_state` is the original, since nobody can change it during the
call; backoff delays, `reconnect_count`, the queue of notifications (which a reconnect clears) and
prepared statements and temporary tables (which no code path ever tracks) are left out. `excused` is a
history variable: the settings whose last change the client could not see, because it was rolled
back, abandoned before the answer, or refused in a rebuild.

### Transaction

`srv` is the server's session: the block, the rows it has written, its savepoints (a stack that allows
a name twice, with the rows each remembers) and the committed rows. `execute(q)` is the set of all ways
in which one statement can end: answered with success or an error, lost with the transport before or
after its effect, abandoned at the send (the connection stays Active and refuses every call from
then on, `link = "refused"`) or at the read (`link = "owed"`: the next call reads the old answer first).
Each method of a guard is one action that takes one of these ends and does what the method does with
it; `Drop` is a step of its own that sends nothing. A retry loop (`with_retry`, `with_retry_any`) sees
what an attempt reports (`Report`) and starts another one or stops; a closure may fail with the error of a
statement or with one of its own (`Returned`). `mine`, `mark`, `promised` and `undone`
remember what the caller has been told.

Assumed: BEGIN, COMMIT and the like go through the guards only; serialization failures strike
statements with work to do and COMMIT; a caller that rolls back after an error returns that error or
the result of the rollback. The closure that `error::retry::with_retry` documents
(`error/retry.rs:27-32`) borrows the connection in the future it returns, which the bound
`F: Fn(&mut Connection) -> Fut` cannot express; the loop is modelled with the closures that its
documentation describes: one that uses a guard by hand, and one that calls `with_transaction`. Dropping a
future in a loop drops the loop with it: a timeout that the closure itself puts around COMMIT and then
reports for a retry is not modelled.

### Transport

A byte is a unit `<<message, position, size>>`. One variable per buffer: `write_buf`, rustls's unsent
ciphertext `sendable`, the local variable `out` of the socket's `write_all`, the two directions of the
socket, rustls's `plaintext`, `read_buf` of `BufferedTransport`, `messages` of the codec. Each action
moves units from one layer to the next as one call of the code does, and no more than the layer takes.
`CancelWrite` drops a future at the socket, when that has taken part or, with the completion-based writes of
WASI (`transport/tcp.rs:215`), all of `out`: `out` is gone, `write_buf` is not (`buffered.rs:85`); over TLS lost
ciphertext makes everything after it undecipherable (`gap`). `CancelRead` drops a future that reads; on WASI the
bytes that the stream has handed over by then go with it (`transport/tcp.rs:153-169`). History variables
record where the code drops or repeats bytes, and the properties say that it happens nowhere else:
`torn` (ciphertext between the socket and `read_tls`), `cut` (the same loss on a plain socket), `overrun`
(refused by `try_extend`), `tainted` (a call ended with something of `write_buf` on the socket),
`resent` (one over TLS ended with all of it there).

rustls is external: it buffers up to `SendLimit`, its reader takes up to `Take` of what it is offered,
and it refuses records out of sequence. The server reads one message, writes its answer, and reads
nothing while that does not fit into the socket.

### Startup

`link["connect"]` and `link["cancel"]` are the connections under construction: TCP with the remaining addresses,
SSLRequest, handshake, up. `pc` is the await of `connect()`; the loop of `authenticate` is one action per
message it handles, since the server may send any of them at any time. Certificates are good, of
another host, or untrusted; `verification_policy` and `build_rustls_config` decide which of them pass.
`sent` remembers over what kind of link the last message went, `sasl` how far the exchange is. `turn`
changes with every message that ends no phase, so a server that talks for ever is a behaviour with steps. The
server's session is `backend`, a process id that may be used again and a secret that is not. `Fail` ends
an attempt and asks the RetryPolicy; `Abandon` drops the future; `Silence` is a server that never
sends again.

Assumed: the server interrupts a query only for the exact key, process id and secret; reading a
connection string or the environment gives any combination of the fields it can set; the mechanisms
that a server offers and whether the certificate allows channel binding are arbitrary.

## Runs

Distinct states: about 290,000 (`pool_safety`, up to symmetry), 480,000 (`pool_liveness`),
250,000 (`connection`), 940,000 (`reconnect`), 490,000 (`transaction`), 1,400,000 (`transport`), 1,260,000
(`startup`).

| Run | Checks | Result |
|---|---|---|
| `pool_safety` | `TypeOK`, `NothingUncounted`, `IdleIsQuiet`, `NoGuardAfterClose`, `ClosedDrains`, refinement of `Ownership` | hold |
| `pool_liveness` | `AcquireProgress` | holds |
| `connection` | `TypeOK`, `InSync`, `StatusAgrees`, `NoHang`, `NotificationsKept`, `PortalLives` | hold |
| `reconnect` | `TypeOK`, `TrackedAgrees`, `InStep`, `RetryBounded`, `RebuiltSession`, `RetryEnds` | hold |
| `transaction` | `TypeOK`, `OkMeansDurable`, `ErrMeansUndone`, `GuardIsInnermost`, `RetryAtMostOnce`, `WithTransactionRetriesIdle` | hold |
| `transport` | `TypeOK`, `SentOnce`, `TlsNeverRepeats`, `ReceivedOnce`, `DeliveredPrefix`, `WriteEnds` | hold |
| `startup` | `TypeOK`, `TrustRespected`, `ServerProved`, `KeyIsCurrent`, `CancelStaysWithSession`, `DelaysGrow`, `ConnectEnds` | hold |
| `pool_max_size` | `MaxSizeRespected` | violated |
| `pool_clean` | `AcquiredClean` | violated |
| `pool_pending` | `PendingExact` | violated |
| `cursor_stream_drop` | `NoHang`, with `drop_cursor_stream` | violated |
| `reconnect_mid_transaction` | `MidTransactionBlocked` | violated |

What the violations show (each states what a comment or document of the repository says; quoted
in `findings`):

* `pool_max_size`: a connection under ping or reset is in neither `idle` nor `active_count`, so
  another task may create one in its place; when it comes back, `total()` exceeds `max_size`.
* `pool_clean`: a guard dropped inside a transaction returns the connection as it is; the next
  acquire hands out the open block, because only `release` resets.
* `pool_pending`: an acquire dropped while it connects leaves its increment of `pending_count`, which then
  counts a connection that nobody is creating; `max_size` of them exhaust the pool for good.
* `cursor_stream_drop`: a `CursorStream` dropped between two batches sets `needs_recovery` with
  nothing outstanding; the recovery waits for ever.
* `reconnect_mid_transaction`: after `execute("BEGIN")`, `in_transaction` is still false, so
  `with_retry` reconnects in the middle of the block.

Several properties that hold say so up to an exception, which is a known behaviour of the code and
is named in the comment on the property and in `hazards`:

* `ClosedDrains`: `close()` between the first and the last critical section of a release lets that one
  connection into the queue of the closed pool.
* `OkMeansDurable`: COMMIT of a block that `is_failed()` announces as failed returns Ok.
* `ErrMeansUndone`, `RetryAtMostOnce`: a transaction whose guard was dropped has been reported as nothing, and
  its block is still there.
* `RetryAtMostOnce`, `WithTransactionRetriesIdle`: closures that call `with_transaction`. One that uses a guard by
  hand and leaves its transaction by `?` drops the guard, which sends nothing; the retry loop sends nothing
  either, and the next attempt begins inside the old block (`error/retry.rs:57`).
* `TrackedAgrees`: settings whose last change went unseen (`excused`): rolled back, abandoned before the
  answer, refused or lost in a rebuild.
* `InStep`: an answer may be owed without `needs_recovery`, when the send was abandoned; the state then
  refuses every statement until a reconnect.
* `NotificationsKept`: the notification in the hand of a `wait_for_notification` without tokio whose
  future is dropped.
* `SentOnce`: a flush that ends with part of `write_buf`, or all of it, on the socket sends that again.
* `TlsNeverRepeats`: over TLS, only a flush abandoned when the socket has taken all of it is sent again.
* `ReceivedOnce`: ciphertext that `read_tls` did not take, bytes that `try_extend` refused, bytes that a WASI
  stream had handed to a read that was dropped. `DeliveredPrefix` survives the first, and over TLS
  the last; after the others the stream of messages starts somewhere in a message.
* `WriteEnds`: callers that send on without reading answers, and over TLS a buffer larger than rustls
  takes at once.
* `ConnectEnds`: a server that accepts the TCP connection and then falls silent, which
  `connect_timeout` does not cover, and one that goes on asking for the password or sending parameters
  and notices: no loop of `auth/mod.rs` counts.

Hazards that no property covers, in whole or in part, say so in their notes. Among them: that a popped connection
is the one that was examined (`Ownership` says who holds it, not what was looked at), and what `query_params`
makes of messages that do not decode. A cursor that takes the caller's block for its own, because `query_cursor`
reads the status before the recovery that refreshes it, and a `CursorStream` read to its end by `next()` that
leaves the transaction it began open, are visible in `Connection` (`owns_transaction`) and stated by no property.

Every property of a passing run has a mutant in `PROJECT.json`: a plausible slip in one
definition, kept next to the original in the module, under which the run must fail.

### Bounds, and why they are enough

* Pool: the races are between two critical sections of one task and one or more of another, so
  two tasks give every pattern; `max_size` 1 makes the pool exhausted at once and `max_size` 2
  lets both hold a guard. With four sockets (three for liveness) a task that connects always finds
  a free identity, so the number of sockets limits nothing. The five safety configurations
  between them switch on each option: sleeping instead of channel wake-up (`Sleeping`),
  `max_size` 2 (`Two`), `min_idle`, health check and lifetime (`Checked`), `min_idle`, no
  acquire timeout, idle timeout and the `before_return` hook (`Untimed`). Symmetry of tasks and
  sockets is used in `pool_safety` only, never with liveness.
* Connection: `MaxWire = 2` messages in flight suffice for a read to see one message while the
  server, or a notification, has already gone on; answers are of any length. `MaxNotes = 2`
  notifications can be lost, doubled or swapped. The number of requests the server has is not
  bounded by a guard; that it never exceeds one is checked (`TypeOK`).
* Reconnect: one parameter that the init SQL also sets shows the order of the two replays, one
  value and one channel show presence and absence; settings are independent of each other. The
  configurations are reconnection disabled (the default), `max_attempts` 0, 2, and 2 without
  rebuild and with mid-transaction reconnects allowed.

* Transaction: three calls of `transaction()` are one that leaves something behind, one that meets it and
  one that would commit it; with `max_retries = 1` a loop has a first and a last attempt. One row per
  transaction tells transactions apart, two savepoints of two names give nesting and the reuse of
  a name after a rollback or a drop.
* Transport: messages of 1 to 3 units against buffers, thresholds and sockets of 2 and a codec limit
  of 3 make every comparison come out both ways; two messages show reordering and repetition, two
  abandoned calls one after the other; answers of 3 units need more than one read. `Take = 1` of `CipherBuf = 2` lets `read_tls` leave something.
* Startup: five attempts give the delays 2, 4, 5 and 5: growth, the cap of `max_delay = 5`, and staying there
  once the multiplier has reached `U32Max = 3`; one address and none left; `MaxIterations = 2` is a handshake that ends in time
  and one that does not; two sessions with the one process id are a reconnect that reuses it.

Deadlock is not checked: a closed pool, a closed connection or one that nobody calls may rest.
What must not wait for ever is stated by `NoHang`, `AcquireProgress`, `RetryEnds`, `WriteEnds` and
`ConnectEnds`.

### Fairness

* Pool: weak fairness of `TaskStep(t)` (the runtime polls every task that can go on, and every
  network await ends, with an answer or an error) and of `DeadlinePasses(t)` (time passes), for
  each task. Nothing is assumed of callers: they need not release guards. Hence the form of
  `AcquireProgress`: an acquire may go on for ever only if another task takes and returns
  connections for ever; the code has no queue of waiters, so starvation by others is possible.
* Reconnect: weak fairness of `Step`, the same assumption for the one call under way.
* Transport: weak fairness of `WriteStep` and `ReadStep` (the runtime polls the call under way) and of
  `Server` (it goes on while it can); not of `Call`: nobody has to read.
* Startup: weak fairness of `Connecting`: the runtime polls `connect()`, timers fire, the system gives up
  on an address, and a server that is not `silent` sends something or hangs up.

## Proofs

All theorems hold for any values of the constants that satisfy the named assumptions:
`ConfigsAssumption` (validated `PoolConfig`s), `TasksAssumption` (finitely many tasks, at least
one), `SettingsAssumption` and `ConfigAssumption` in `Reconnect`, `StartupAssumption` (numbers are
numbers, process ids are not 0), `SizesAssumption` in `Transport` (buffers, limits and messages are not
empty), `BoundsAssumption` in `Transaction` and in `Connection`, `InputsAssumption` in `Connection`
(calls given an empty statement are calls). The bounds of the TLC instances (`MaxWire`, `MaxNotes`, `MaxRuns`,
`MaxSaves`, `MaxCancels` and the like) are arbitrary here.

The theorems about `Connection` have one hypothesis, `Careful`: callers avoid the three uses that hang, which
are dropping a `CursorStream` between two batches (`query/cursor.rs:489`; run `cursor_stream_drop` is the
counterexample without it), calling `RowStream::next` again after a call of it was cancelled while it drained
(`query/stream.rs:159`), and an empty statement in `query_params_stream` (`query/params.rs:344`). All three are
listed hazards. The run `connection` satisfies `Careful`.

| Theorem | States | Argument |
|---|---|---|
| `TypeCorrect` | `Spec => []TypeOK` | `TypeOK` is inductive; `KeptFinite` and `MaintainIdle` for the queue that `maintain()` leaves |
| `PoolImplementsOwnership` | `Spec => Own!Spec` | needs `HandShape`: how many connections a task holds at each program point (none while it decides, at most one when it may give back) |
| `OwnershipIsExclusive` | in `Ownership`, one owner per connection | inductive |
| `PoolNothingUncounted` | `Spec => []NothingUncounted` | `CountMove`: a task that goes from one point to another changes the size of a set of tasks by one; `CountsPositive`: a decrement finds the count above zero, so `saturating_sub` subtracts |
| `PoolNoGuardAfterClose` | `Spec => []NoGuardAfterClose` | strengthened by `LateCallStuck`: a call begun after close never leaves `decide` but to return |
| `PoolIdleIsQuiet` | `Spec => []IdleIsQuiet` | strengthened by `QuietOnTheWay`: what is to be put back has been found idle and reset, and stays so |
| `PoolClosedDrains` | `Spec => ClosedDrains`, an action property | from `TypeOK`: `ClosedPoints` (no task starts on the way back), `ClosedIdle` (what `Return` appends was in that task's hand) |
| `ReconnectTypeCorrect` | `Spec => []TypeOK` | the conjunct `todo \subseteq ToRebuild` makes it inductive: what is replayed is tracked, so it has a value |
| `ReconnectInStepAlways` | `Spec => []InStep` | strengthened by `FreshOwesNothing`: the session under construction owes no answer, which `Swap` relies on when it sets `needs_recovery` to false and copies a state that may be Idle |
| `ReconnectRetryBounded` | `Spec => []RetryBounded` | strengthened by `RetryInv`: a wait or a reconnect inside `with_retry` is entered only with an attempt left |
| `ReconnectRebuiltSession` | `Spec => RebuiltSession`, an action property | strengthened by `Rebuilding`: during a replay, the new session has what has been replayed and not refused, over the initialization SQL's settings or the defaults |
| `ReconnectTrackedAgrees` | `Spec => []TrackedAgrees` | `TrackedInv`: with `Rebuilding`, from which `Swap` follows, and `PingsOnly` (a ping changes no setting); `DifferenceExcused` for the statements that the client does not track |
| `StartupTypeCorrect` | `Spec => []TypeOK` | strengthened by `Attempts` (a sleep is entered only with an attempt left) and `Unstarted` (no link, token or secret before `connect()`), without which an attempt could fail that never began |
| `StartupTrustRespected` | `Spec => []TrustRespected` | strengthened by `LinksOK`: what a link has been through says whether the mode trusts it; `Verified` for the choice of a verifier; `AuthUp`: the link stands while the server is talked to |
| `StartupServerProved`, `StartupKeyIsCurrent` | `Spec => []ServerProved`, `Spec => []KeyIsCurrent` | strengthened by `Progress`: at each await, how far the exchange is and whose key has been read |
| `StartupCancelStaysWithSession` | `Spec => []CancelStaysWithSession` | strengthened by `TokenKept` (a token's key is none or that of its session, and there is no token before the first session) and `CancelLink` |
| `TransactionTypeCorrect` | `Spec => []TypeOK` | `Typed`, with the shape of the session and of the loop |
| `TransactionOkMeansDurable` | `Spec => []OkMeansDurable` | `Sync` (the client's status is the server's while nothing is owed) and `Told` (the rows a guard was told of are among the server's uncommitted ones) |
| `TransactionErrMeansUndone` | `Spec => []ErrMeansUndone` | strengthened by `Owned`: no row of a run that was reported undone is in force or in a savepoint of a connection that can still be used, so no later COMMIT can bring it back |
| `TransactionGuardIsInnermost` | `Spec => []GuardIsInnermost` | with `Told`: the top of the server's stack is the guard's savepoint and remembers at least what the guard was told |
| `TransactionRetryAtMostOnce`, `TransactionRetriesIdle` | `Spec => []RetryAtMostOnce`, `Spec => []WithTransactionRetriesIdle` | strengthened by `Looped`: inside a loop the rows of earlier attempts are nowhere on a usable connection, and nothing of the loop is committed before it ends |
| `TransportTypeCorrect` | `Spec => []TypeOK` | `Typed`, from lemmas about `First`, `From` and concatenation; `Codec` and the socket refuse what is over their limits |
| `TransportSentOnce`, `TransportTlsNeverRepeats` | `Spec => []SentOnce`, `Spec => []TlsNeverRepeats` | `Phases` (which buffers are in use at which await) and `Sending`: after a loss over TLS, what follows in the stream is undecipherable (`GarbageTail`), so the server's last good byte stays the last, unless the whole of a write had gone (`resent`) |
| `TransportReceivedOnce`, `TransportDeliveredPrefix` | `Spec => []ReceivedOnce`, `Spec => []DeliveredPrefix` | `Received`: what has been read, buffer after buffer, is a beginning of what the server sent, and the rest is on the socket unless something was dropped in between (`torn`, `cut`) |
| `ConnectionInvariant` | `Careful` implies `Spec => []ConnectionInv` | the invariant described below |
| `ConnectionTypeCorrect` | ... `[]TypeOK` | `Control` and `Typed` |
| `ConnectionInSync`, `ConnectionStatusAgrees` | ... `[]InSync`, `[]StatusAgrees` | `Turn` and `Answer` |
| `ConnectionNoHang` | ... `[]NoHang` | `Turn` and `Copying` |
| `ConnectionPortalLives` | ... `[]PortalLives` | `Portal` |
| `ConnectionNotificationsKept` | ... `[]NotificationsKept` | inductive with `Waiting` |

None of `Connection`'s properties is inductive; they are proved together from `ConnectionInv`. `Owed` says that
an answer is outstanding: the server has a request, or a ReadyForQuery is in flight. `Turn` says which states
of the client imply that it is (a read, a recovery, an unfinished stream or COPY) and which that it is not
(idle, about to send). `Answer` says that a ReadyForQuery ends an answer, carries the server's status, and is
followed by notifications and notices only; `Stops` that each loop which can return before ReadyForQuery still
has a message to come that ends it; `Copying` that nobody reads from a server that waits for copy data;
`Portal` that no statement of a cursor ends its block before `commit`. Each action has one lemma per part it
can disturb; reads share lemmas about `Head` and `Tail` of `wire`, and what the server sends shares lemmas
about `Append`. The run `connection` was used to check `ConnectionInv` before the proof.

Model-checked only: liveness (`AcquireProgress`, `RetryEnds`, `WriteEnds`, `ConnectEnds`), which needs fairness
and ENABLED and is outside this prover's reach, and `DelaysGrow`, whose powers of two need induction. Every
other property of a passing run has a theorem.

## Not modelled

* The byte layout of messages, type conversions, row access, the grammar of connection strings, error
  values, SQLSTATE tables, tracing: sequential data transformations without shared state.
* Messages that fail to decode, and the blocking Drop implementations of the `test-native` build.
* The cryptography of SCRAM, MD5 and TLS: libraries, and arithmetic beyond a model checker. What the
  code does with a signature or a certificate that is right or wrong is in `Startup`.
* `target_session_attrs` and the keepalive options of `Config`: no code of the crate reads them.
* The prepared statement cache (`query/cache.rs`): a bounded map with least-recently-used eviction,
  sequential, and used by no other code of the crate.
* The rows that a pipeline returns (`query/pipeline.rs`): its control is in `Connection`, the contents of rows
  are not; rows of an Execute delivered with the next Query are a listed hazard.

## Plan

Done: the six specifications and the abstract one, `Pool` with `Ownership`, `Connection`, `Reconnect`,
`Transaction`, `Transport` and `Startup`, and a theorem for every safety property of a passing run. Next:

1. An abstract specification of a session's exchange (request, answer, recovery) that `Connection` refines,
   with `ConnectionInv` as the invariant of the step simulation.
2. The connection that a pool hands out as an instance of that specification, so that `IdleIsQuiet` rests on
   `InSync` by proof and not by description.
3. The arithmetic of `RetryPolicy` without its powers: bounds on a delay for every attempt.
4. The pipeline's results, against "results are those of the operations, in order".

## Running

    tlc -config MCPoolSafety.cfg MCPool          # and likewise for the other .cfg files
    tlapm PoolProofs.tla                         # and likewise for the other modules named ...Proofs
