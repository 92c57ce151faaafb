# A verification of webshell

webshell serves login shells to browsers: a user signs in, opens terminal
slots over one multiplexed WebSocket, leaves, comes back and finds the shells
running, and may hand out read-only share links to a slot.  This directory
holds TLA+ models of its server, their TLC configurations, and TLAPS proofs.
`PROJECT.json` gives for every definition the source lines it stands for, and
lists runs, mutants, findings, hazards and theorems.  Source paths below are
relative to the repository.

## 1. Inventory

| Component | Source | State | Operations | What makes it correct |
|---|---|---|---|---|
| Slot and its stream | `src/terminals.rs` | per slot a mutex over `Option<Terminal>`; per terminal an epoch, `alive`, a scrollback ring with a byte count, a 64-chunk broadcast, a shutdown watch | `attach`, `attach_view`, `reset`, the reader thread, `ScreenHandle::redraw` | each client's screen is one gapless run of one shell's output; offsets are honest; a live shell stays in its slot |
| Shell processes | `src/terminals.rs` | the child, its PTY, a 128-place command queue, the killer (a bare pid) shared by two threads | `spawn_terminal`, reader thread, command thread, `Terminal::stop` | every child has somebody to reap it, nothing is signalled after it was reaped, a stopped shell ends |
| Mux bridge | `src/pty.rs` | per connection: a channel map, forward tasks, a 512-place writer queue, session deadline and revocation | open, input, resize, mode, close | re-opens do not splice streams, every open is answered, a connection ends with its session |
| Share store | `src/share.rs` | grants with expiry, a revocation watch and a viewer semaphore | `create`, `list`, `resolve`, `revoke`, `lease`, `sweep` | caps hold, no grant ends silently |
| Viewer bridge | `src/pty.rs`, `access_ws` in `src/main.rs` | the `ViewerOutput` guard, a timer, the revocation arm, an audit tick | admission, send, close | nothing is streamed past the lease, a dead lease ends its connection whatever the peer does |
| Session store | `src/session.rs` | sessions, their revocation watches, the session file | `create`, `get`, `login`, `begin_mfa`, `remove`, `sweep`, `set_oauth`, load | ids change at every promotion, an ended session stays ended across restarts |
| Trusted devices | `src/devices.rs` | records by token hash, the device file | `mint`, `authorize`, `revoke*`, `forget_if_owned`, `sweep`, load | trust never outlives its window, its secret or a revocation; file and memory agree |
| Enrollment | `src/enrollment.rs` | pinned subject and TOTP secret per identity, the file | `pin_subject`, `enroll`, load | a pin never changes, no update is lost |
| Login and MFA | `src/main.rs`, `src/totp.rs` | throttle buckets, strike runs, replay guards | `local_login`, `oauth_callback`, `mfa_submit`, `mfa_cancel`, `logout` | a code is used once, lockouts cannot be outrun |
| Mode tracker | `src/terminals.rs` | scanner state, terminal modes | `feed`, `synth` | modes do not depend on how the bytes were split |
| Browser client | `src/static/terminal.html` | per slot: `dead`, `awaitingHello`, `expectFirst`, snapshot buffer, timers | `sendOpen`, `onHello`, `onOutput`, `onClosed`, deletion | the painted screen follows the protocol, a slot deleted stays deleted |
| Start-up | `src/main.rs`, `src/config.rs`, `src/certs.rs`, `src/identity.rs` | the settings file, the cookie key in it | load, generate the key, validate, serve | a server that starts can work, cookies survive a restart |
| Others | `oidc.rs`, `localauth.rs`, `util.rs`, pages | none of their own | calls to libraries, rendering | not modelled, see section 7 |

How they interact: the mux bridge and the viewer bridge call `attach` and
`attach_view`, and receive clones of the terminal's channels (`input_tx`, a
broadcast receiver, a watch receiver) and a handle on the scrollback.
`reset()` comes from an HTTP handler and reaches the bridges through the
shutdown watch alone.  Sessions and grants reach their sockets through a
watch, a deadline and, for grants, a predicate evaluated at every frame.  The
sign-in handlers read one store, await (a throttle bucket, a password hash, the
issuer) and then write another: the session, device and enrollment stores meet
only there.  A minute timer sweeps sessions, grants and devices.

What is hard here: the reader thread runs against `attach()`; forward tasks are
aborted at awaits; `select!` takes ready arms in any order; a bounded queue
stands between each pair of actors; a pid must not be used after `wait()`; a
lease is checked before a write and may end during it; the wall clock and the
monotonic clock are both used; a write of a store's file may fail, and each
store answers that differently; a handler goes on with a session it read
before its await.  `PROJECT.json` lists each of these hazards at
the line where it bites.

## 2. Modules

| Module | Models | Composes |
|---|---|---|
| `ShellStream` | one slot, its shells' output, the mux connections attached to it, their clients | states that it implements `TerminalView` |
| `TerminalView` | the promise: a client's screen is one stretch of one shell's output, extended by the bytes that come next or restarted | |
| `ShellStreamProofs` | theorems about `ShellStream` | extends it |
| `ShellViewProofs` | that `ShellStream` implements `TerminalView` | extends `ShellStreamProofs` |
| `TerminalLife` | the processes and threads of one slot | |
| `TerminalLifeProofs` | theorems about `TerminalLife` | extends it |
| `ShareLink` | grants, leases, viewers, both clocks | |
| `ShareLinkProofs` | theorems about `ShareLink` | extends it |
| `SessionStore` | sessions in memory, their watches, their file, restarts | |
| `DeviceStore` | trusted devices in memory and on disk, caps, windows, restarts | |
| `SessionStoreProofs` | theorems about `SessionStore` | extends it |
| `DeviceStoreProofs` | theorems about `DeviceStore` | extends it |
| `EnrollmentStore` | pins and TOTP secrets in memory and on disk, restarts | |
| `SignIn` | the handlers from a fresh cookie to a signed-in session | the three stores |
| `SignInProofs` | theorems about `SignIn`, on those of its stores | extends it, `SessionStoreProofs` and `DeviceStoreProofs` |
| `LoginGuard` | the tarpit and the lockouts, in time | |
| `ReplayGuard` | which one-time codes verify, and which are remembered | |
| `ModeTracker` | the mode scanner, fed by a ring that evicts | |
| `MuxConnection` | the input half of one connection, and its end | |
| `Startup` | from a settings file to a listening server | |
| `PartsProofs` | theorems about the five modules above, the types of eight parts of `MCParts`, and the induction they need | extends `MCParts`, `SessionStoreProofs` and `DeviceStoreProofs` |
| `MCParts` | nine modules side by side for TLC | the stores, the guards, `ModeTracker`, `MCStartup`, `MuxConnection`, `TerminalLife` |
| `MCEnds` | `ShareLink` and `TerminalLife` side by side, with their fairness | extends the first, an instance of the second |
| `MCStartup` | settings to start with, for TLC | extends `Startup` |
| `MCShellStream`, `MCTerminalLife`, `MCShareLink`, `MCSignIn`, `MCModeTracker` | the other modules TLC runs | extend the above |

Definitions written next to the one they resemble, like `ResetDropOnly` before
`ResetStop`, are mutated forms of it: what the code would do with a plausible
mistake.  Nothing uses them except the mutants of `PROJECT.json`, each of which
must make TLC refute the property it is listed with.

### ShellStream

A byte is its position in its shell's output, so a payload is an interval with
the epoch of its shell; offsets, lengths and cut points are exact.  One action
is one stretch of code that runs without another actor being able to see the
middle of it:

* `ReadChunk`: the reader thread's push and broadcast, one critical section of
  the scrollback lock.  `ReaderEof` clears `alive`, `ReaderShutdown` sends on
  the watch and drops the thread's senders: two steps, as in the code.
* `AttachLive`/`AttachDead`, `AttachSpawn`/`AttachFail`, `AttachCut`,
  `AttachWatch`: the four stages of `attach()`, all under the slot lock
  (`SlotLocked`), each visible to the reader thread, which does not take it.
* `HandleOpen`, `JoinOld`, `HandleClose`, `SendHello`, `SendReplay`,
  `SendFailed`: the mux main loop between its awaits.
* `ForwardArm`, `ForwardSend`: one arm of the forward task's `select!`, and one
  await of the writer queue.  `old` is a task that was aborted: until it
  reaches an await that is not ready it goes on, so `AbortedArm` and
  `AbortedSend` are possible until `AbortedGone`.
* The broadcast keeps the last `BCap` chunks; a receiver is a position in it,
  and lags when its position has left it.  The watch has a version and a value,
  a new receiver has seen the current version, and `send()` without receivers
  is lost, as tokio documents.
* `Drop` ends a connection: queues and tasks go, shells stay.

The client is the protocol of `terminal.html` (drop output until the hello,
repaint on a replay) that also counts offsets; the page always asks for a full
replay, but the server supports resuming, and `Resumes` offers a client's own
honest checkpoint as well as an offset that was never reached.

### TerminalLife

The child, the PTY hangup, the two threads, the command queue, the killer and
`stop()`, with each signal, queue operation and lock release its own step.
`doom` says that a signal that ends the child is on its way; `MayIgnore` lets a
shell survive SIGHUP.  The `child.kill()` of the command thread is not one signal:
portable_pty sends SIGHUP (`CmdHangup`), polls `try_wait()` for 250 ms, which
reaps a child it finds dead (`CmdPollReaps`), and only then sends SIGKILL
(`CmdPollGivesUp`, `CmdSigkill`); `CmdRetire` comes after all of it.  `Fork`, `HandlesFail`, `Abandon` and `Threads` are the
stages of `spawn_terminal()`.

### ShareLink

Two clocks: `Tick` moves both, `SetClock` sets the wall clock alone.  The
bridge's timer is armed from the lease's remaining wall time on the monotonic
clock, which is how the two can disagree.  `LeaseCheck` looks at the expiry
before the lock, `LeaseTake` and `LeaseRefused` are under it.  A frame is
checked (`SendStart`, `SendRefused`), and then either written (`WriteDone`),
lost to the peer or the stall limit (`WriteLost`) or cut by the lease
(`WriteCut`); `left` counts what one `select!` arm still has to send.  `late`
counts frames that were delivered although the lease had ended.

`create()` reads the clock before it takes the lock; the model reads it inside.
The difference is a grant that lives a moment shorter than it is minted for.

### SessionStore, DeviceStore, EnrollmentStore

One action per method.  Each method holds the store's lock across the write of
its file, so it is one step, with an outcome `ok` of the write; what happens
when it fails differs, and is kept: sessions log it, enrollment reports it and
keeps the memory, a device mint takes the new record back, a revocation is
never taken back.  A crash inside `write_atomic()` leaves the old file or the
new one, and so is one of these outcomes followed by a restart.

* A session's id, its cookie and its CSRF token are one number, the count of
  its minting; `SessPromote` is `login()` and `begin_mfa()`, which mint a new
  one and end the old, if it is still there.  `sessMono` and `sessWall` are the
  two clocks; `SessReloaded` turns wall time back into an `Instant`.  The wall
  clock goes ahead of the monotonic one but not back: a clock set back is
  `ShareLink`'s subject, and a session's lifetime after a restart trusts the
  wall clock by design.
* `DevEvictable` is the choice `mint()` has among records used equally long
  ago.  `DevRestart` may come with another `max_devices_per_identity`.
* `EnrReset` is the README's recovery path: server down, line deleted.

### SignIn

A request `req[r]` is a handler at one of its awaits, with what it read before:
`LocalLogin` then `PasswordRight`, `CallbackReads` then `CallbackTakes` then
`CallbackVouched`, `MfaSubmit` then `MfaEnters` then a verdict then `MfaLogsIn`.
`InBucket` is the tarpit's mutex.  Any request may present any session and any
device cookie ever handed out.  When a wrong code locks is left open (`MfaWrong`
or `MfaLocks`), as `LoginGuard` has the counting.

### LoginGuard, ReplayGuard

`GuardEnter`, `GuardTurn`, `GuardWake` are the three waits of `Tarpit::enter()`;
the five outcomes are those of `local_login()` and `mfa_submit()`.  Delays and
locks are computed as in the code, with small constants.  In `ReplayGuard` a code
is the time step it was computed for.

### ModeTracker

`ScanByte` is `feed()`'s state machine, `Dispatch` and `Synth` are `dispatch()` and
`synth()`; bytes are drawn from an alphabet in which a mode number is one byte.
`watcher` is a terminal that has seen everything, and `RingPush` cuts the output
wherever the PTY may have cut it.  The watcher knows the full reset `ESC c`, which
the tracker does not; `resetGone` records that one has left the ring.

### MuxConnection

The client's frames wait in `wire`; each `Handle...` action is one turn of the main
loop.  `Overload` ends the connection, a resize is dropped (`Offered`), the one
that `attach()` queues for its shell included.  `WsFinds` and
`WsSubscribes` are the look at the session store and the subscription to its
watch, with a window in between.  The output half is `ShellStream`.

### Startup

`boot` is the stage reached; each stage passes or the process exits, and may be
killed at any stage.  A setting is the class of values the stages tell apart;
`MCStartup` has those TLC starts with.

## 3. Runs

| Run | Bounds | Shows |
|---|---|---|
| `stream_seam` | 1 client, 2 shells, ring of 2, broadcast of 1, chunks of 1 or 2, 3 bytes per shell, 2 opens, fairness | `Unbroken`, `OffsetHonest`, `RingIsTail`, `ShellKept`, `ImplementsView`, `CatchUp`, `OpenAnswered` through attach, resume, lag, redraw, re-open, reconnect, death and respawn |
| `stream_shared` | 2 clients, 1 shell, 2 bytes, resets and close frames | `NoSpin` with two attachments of one shell |
| `ends`, shells | 1 shell that may ignore SIGHUP, queue of 2, 3 inputs or resizes, 1 attachment to a live shell, fairness | `LeftReaped` |
| `ends`, share links | 2 users, 2 viewers, 2 grants, caps of 1, clock to 2, fairness | `LateFrames`, `PermitsBalanced`, `GrantCap`, `ToldWhenGone`, `ViewerEnds` |
| `parts`, shells | 2 shells, queue of 1, 1 client command | `KillerRetired`, `NoOrphan`, `Condemned` |
| `parts`, sessions | 3 ids, cap of 2, lifetimes of 1 and 2 s, 3 s | `SessOverStaysOver`, `SessToldOfEnd`, `SessLifetime`, `SessRightsKept` through failed writes and restarts |
| `parts`, devices | 2 users, 3 devices, caps of 1 and 2, window of 2 s, 3 s | `DevOverStaysOver`, `DevMemoryWritten`, `DevMintWithinCap` |
| `parts`, guard | 2 attempts, 1 bucket, a lock after 2 strikes, 4 s then 5 s, 11 s | `Paced`, `GuessBudget` |
| `parts`, codes | steps of 2 s, memory of 3, window of 6 s, 5 codes | `RepeatIsFar` |
| `parts`, modes | ring of 4 bytes, 4 writes of 6 kinds, a full reset among them | `ModesReinstated` |
| `parts`, startup | 3 starts, each group of settings varied by itself | `KeyKept`, `ServesSoundly` |
| `parts`, mux | 1 slot, queue of 1, 2 shells, 4 frames | `InputUnbroken`, `RevocationSeen` |
| `signin` | 1 identity, 2 requests, 4 session ids, 2 subjects, 2 secrets, 1 device | `TrustCurrent`, `OneAccount`, `EnrollOnce` |

`parts` is one run: `MCParts` has the variables of nine modules, chooses `part` at the
start and lets that part alone take steps, so its state space is the sum of
theirs and not the product (enrollments have their type invariant there and
their properties in `signin`).  `ends` is made in the same way, of the two
modules whose shells and viewers have to end: the part that rests stays in its
initial state, where none of the actions its fairness names is enabled, so that
fairness asks nothing of it.

`CatchUp` and `OpenAnswered` are checked with shells that die and are replaced, and
without resets, which multiply the states of two shells several times over.  To a forward
task a reset is what a death is, a value sent on the watch and senders dropped;
what differs is which senders are left, and that is `NoSpin`'s subject.

Seven more runs each refute one statement of the repository; see section 4.

Why the bounds are enough.  Ring, broadcast and queues are so small that each of
them fills, wraps or overflows: a ring of 2 with 3 bytes has every relation of
an offset to the ring (inside, at either end, before it, after it), a broadcast
of 1 makes every second unread chunk a lag, a writer queue of 1 blocks every
second send.  Two shells are what a checkpoint of the wrong shell needs, two
opens what a re-open needs, two viewers of a one-viewer link what a permit can
be disputed between.  Every bound is a constant, named in its module.

Three session ids with places for two make an eviction, and leave a promotion
besides; the lifetimes are within the clock, so a session can expire before,
during and after a restart.  Caps of 1 and 2 let a restart find more devices
than it allows.  Eleven seconds hold two rounds of strikes with both their locks
and the memory running out after them, the second lock being cut by
`LockMax`.  In `parts` the attach's own resize fills a queue of 1, or the first
nudge does, and the next is refused.  In `ends` two inputs or resizes fill a queue of 2, and the third, or the nudge of the
reader or of `stop()`, is refused; an attach to a live shell queues one more.
Five codes are one more than a code can see while it verifies,
plus itself.  A ring of four bytes cuts every sequence written to it at every
place, and four writes evict the first whole.  Slots of one connection meet only
where they end it, so one slot sees what several would; four frames are an
open, an input that fills the queue, one that overflows it, and a switch, close
or re-open around them.  In `signin` one identity is enough, because the stores
never relate two (`DeviceStore` is checked with two); two requests are what a
race needs; time passes only when the operator edits the file, as expiry is
the stores' own subject.  Its symmetry (requests, subjects, secrets) is sound:
no definition tells them apart, and it checks no liveness.

`CHECK_DEADLOCK FALSE` is set for the runs that end when their bounds are used up
(`ends`, `parts`, `signin`, life, share, codes, modes, `startup_login`); the stream
runs check deadlock, because a client can always reconnect.

Fairness.  Server threads and tasks run: weak fairness of their next step.
`select!` without `biased` polls its arms in random order, so a ready arm is
not passed over for ever: strong fairness of the output and shutdown arms.  A
task waiting for the slot mutex gets it in the end, tokio's and the operating
system's promise: strong fairness of `AttachLive` and `AttachDead`.  The network
delivers and the page reads.  In `ShareLink` timers fire (stall limit, close
grace, audit tick), and nothing is assumed of the peer, the sweep or the
clocks.  In `TerminalLife` a child with a fatal signal on its way ends, and the
stages of `attach()`, `stop()`, the reader and the command thread go on.
Nothing is assumed of shells, users and sockets.

## 4. Where the code and its comments disagree

* `stream_death`: a shell that dies between `attach()`'s look at `alive` and its
  subscription to the shutdown watch is not announced to that client.
* `code_replay`: the replay guard remembers three codes, but a 90 second window
  slides over five: three codes accepted later push out one that still
  verifies, and it is accepted again.  (`RepeatIsFar` is what does hold.)
* `signin_landed`: an enrollment whose write failed leaves its secret in
  memory; the next code verifies against it and a device is remembered on the
  strength of a secret that never reached the disk.
* `signin_lock`: a lockout ends the session of the last wrong code; another
  half-finished session of the same identity outlives the lock and is judged
  again without a password.
* `life_killer`: `child.kill()` polls `try_wait()` after its SIGHUP, so it may reap
  the child before the line that takes the shared killer.  A `stop()` in that
  window, a reset while the shell is exiting, signals a pid that is free.
  (`KillerRetired` is what does hold: the window ends at the `take()`.)
* `life_zombie`: if the queue is full of resizes when the shell exits, the reader's
  wake-up is refused, the command thread drains it and parks, and the child
  stays a zombie until the slot is used again.
  (`LeftReaped` is what does hold: once the slot and the last attachment have let
  go of an exited or condemned shell, it is reaped.)
* `startup_login`: a server with the one login method google and only local users
  passes start-up, and nobody can sign in.  (`ServesSoundly` is what start-up does
  make sure of.)

Six more configurations are kept for reproduction, though no run lists them;
each refutes the property it names:

* `life_stuck.cfg` (`MCTerminalLife`, `StopEnds`): reset does not end a shell that
  survives SIGHUP and does not read its input; the SIGKILL that is to follow
  (`terminals.rs:328`) stands behind the write that is blocked.
* `mode_reset.cfg` (`MCModeTracker`, `PrefixModes`): the tracker knows no full reset
  (`terminals.rs:97`).  A mode switched on before an `ESC c` is put back at the head
  of a replay when both have left the ring, though no client that saw the bytes is
  in it.
* `mode_cut.cfg` (`MCModeTracker`, `CutReinstated`): a ring whose front is inside a
  sequence begins a replay with the second half of it, and the first half is sent
  by nobody (`terminals.rs:226`): the client shows text, and misses the mode.
* `stream_silent.cfg` (`MCShellStream`, `NeverSilent`): after a reset the forward
  task may take the closed broadcast before the shutdown value, and end
  without the closed frame.
* `stream_close.cfg` (`MCShellStream`, `Unbroken`): a close followed by an open does
  not await the aborted task, though a re-open does and says why.
* `share_clock.cfg` (`MCShareLink`, `ValidityFinal`): a wall clock set back makes an
  ended lease valid again.

Smaller things met on the way, which the models contain as they are:

* `oauth_callback()` reads the session's flow and takes it off only after an
  await, so two concurrent callbacks may both pass, although a flow is meant to
  be good for one attempt (`main.rs:1345`): `CallbackReads`, `CallbackTakes`.
* `SessionStore::load()` does not look at `auth.users`: the sessions of an
  identity that was removed from the list survive a restart until they expire.
* A pin whose write failed holds in memory only.  After a restart another
  account may pin the address while sessions of the first are alive, which is
  why `OneAccount` speaks of pins on disk.
* `mfa_submit()` promotes the session it read before its wait, even if that was
  cancelled or evicted meanwhile: `MfaLogsIn`.
* `create()` evicts without writing the file, so an evicted session may be back
  after a restart (`SessOverStaysOver` covers the other ways to end).
* A local identity without a password passes start-up, and so does an unknown
  login method, which is only logged: `BootCheck`.
* A resize that finds the command queue full is dropped, and the shell keeps the
  old size: `HandleResize`.
* While the mux loop awaits the writer queue it sees neither the revocation nor
  the deadline of its session.

## 5. What is proved

TLAPS checks these for every value of the constants (number of clients, shells,
viewers, capacities and bounds).

`ShellStreamProofs`
* `RingIsTailHolds`: the ring is exactly the tail of the output and ends where
  the broadcast does.  Inductive by itself together with its types: a push
  pops the ring back to the cap, and chunk and ring grow in one step.
* `TypeCorrect`: needs more than types.  A receiver never indexes outside the
  broadcast (`TaskInv`: positions lie between 1 and one past the last chunk, and
  the ring's chunks are as many as were sent or `BCap`); a stage of `attach()`
  finds the shell it holds (`LockInv`: between locking and unlocking, the slot
  holds a spawned shell exactly in the stages after the spawn).
* `ShellKeptHolds`: a live shell leaves its slot only through `reset()`; from
  `LockInv`, because the spawn stage is entered with a dead or empty slot and
  nobody else changes a locked slot.
* `NoSpinHolds`: from `SpinInv`: a shell whose senders are gone was stopped or
  has sent its shutdown, and a receiver existed when it did.

`TerminalLifeProofs`
* `TypeCorrect`, `KillerRetiredHolds`, `NoOrphanHolds`, and `CondemnedHolds` for
  shells that cannot ignore SIGHUP.  The inductive invariant adds that unforked
  children are untouched, what each stage of `attach()` holds, and that the
  command thread has its child until it reaps it and its killer until it
  retires it.

`ShareLinkProofs`
* `TypeCorrect`: every lease names a minted grant, and frames are counted.
* `ValidityFinalHolds`: if the wall clock cannot be set back, an ended lease
  stays ended; the store only removes grants and only raises their watch.
* `LateFramesHolds`, from it: a viewer that got a late frame has an invalid
  lease and is not writing (`LateInv`), and a write starts on a valid lease.
* `PermitsBalancedHolds`: each viewer step takes, keeps or returns the permit of
  its own grant; cardinalities by the finite-set lemmas.
* `GrantCapHolds`, `ToldWhenGoneHolds`: by the operations of the store.  The last
  three hold for a clock set either way.

`SessionStoreProofs`
* `SessOverStaysOverHolds`, `SessToldOfEndHolds`, `SessLifetimeHolds`,
  `SessRightsKeptHolds`, from one invariant, `SessInd`.  The properties alone are
  not inductive: a restart makes memory out of the file, so the file has to be
  known too.  `SessListed`: both hold minted ids only, so an ended id is not
  reused.  `SessAgrees`: where both have a session, it has one kind and user,
  however many writes have failed.  `SessAged`: a stamp is no further ahead of
  its session's birth than the wall clock is of the monotonic one, so that a
  reload gives a session back no younger than it was.  Six kinds of step are
  reduced to one lemma, `SessWritten`: what a write of the file does to the
  invariant when memory has lost some sessions and gained at most one new id.

`DeviceStoreProofs`
* `DevTypeCorrect`: with the types, that trust ends exactly one window after it
  was earned, in memory and on disk (`DevSpan`).
* `DevOverStaysOverHolds` and `DevMemoryWrittenHolds`: from `DevInd`, which adds
  that tokens not minted yet are in neither map.  The second is what a failed
  mint's rollback and a failed revocation's missing one preserve: both leave
  memory with less than the file, never with more.
* `DevMintWithinCapHolds`: by cardinality.  The evicted are as many as the
  identity has too many, so what is left and the new record fit (`DevRoom`).

`ShellViewProofs`, from `ViewInv`, which contains the invariant of
`ShellStreamProofs`
* `UnbrokenHolds`, `OffsetHonestHolds`, `ImplementsViewHolds`.  The screen alone is
  far from inductive: what may be painted next was queued long before.  The
  invariant follows the bytes as one chain.  The last thing painted, the frames
  queued for the client, the frames in its task's hand and the position of its
  task's receiver each begin where the one before ends (`StreamInv`, `TaskView`),
  on top of chunks that adjoin in the broadcast (`ChunkInv`).  A stage of
  `attach()` holds what the task it will start has to continue (`AttachInv`); an
  open under way names an offset the client was at, or the client has promised
  to drop everything up to the next hello (`ResumeInv`, `Frozen`).  Frames queued
  before a hello the client awaits may be anything, so the chain starts anew
  there (`Anything`).
* All three assume `~AllowClose`: no client sends the mux frame "close" for a
  channel and keeps using the connection.  No bundled page does.  With it a
  channel may be closed and reopened between two frames, and `stream_close` is
  the run that allows it.

`SignInProofs`, from `SignInv`, which contains the invariants of both stores
* `StoresKeptApart`: under the handlers each store takes only steps of its own
  specification, several handlers and a restart at a time included, so that the
  theorems of `SessionStoreProofs` and `DeviceStoreProofs` are about the stores in
  use.
* `EnrollOnceHolds`: a handler inside its bucket is there alone (`Alone`), and what
  it read of the secret still holds (`ReqOK`).  The await between reading and
  enrolling is what makes that more than a guard.
* `TrustCurrentHolds`: a device carries the time of the secret it was earned with
  (`DeviceInv`).  `Held` says what has become of that secret since: it is on disk
  with that time, or it is gone and whatever was enrolled since is newer.  A
  restart makes memory out of the file, hence `FileBehind`.
* `OneAccountHolds`: who is half way in or signed in was vouched for (`AccountInv`,
  in memory and on disk), and so was the request that carries its session.

`PartsProofs`
* `InputUnbrokenHolds`, `RevocationSeenHolds`: for each terminal there is a history
  of views, one between any two frames in flight, from what the server has of it
  to what the client thinks (`InFlight`), so a number typed is the next the
  server expects when its frame arrives, or the server takes none of them.  The
  channel the loop has open is the one that history starts with (`Matches`).
* `PacedHolds`: who holds a bucket holds it alone (`TakeTurns`), so failures stand
  still while he sleeps (`SleptOut`).
* `GuessBudgetHolds`: a run that has counted past k rounds waited k locks out
  (`RunInv`); the sum of locks grows by one lock at a time (`LockSumAdds`).
* `RepeatIsFarHolds`: what is remembered is, in order, codes accepted at known
  times, among them every one of the last `ReplayMemory` that could still verify
  (`CodesInv`).  A code verifies for less than `ReplayWindow` seconds
  (`CodeLapses`), so one accepted again was pushed out by as many others.
* `ModesReinstatedHolds`: the server's scanner and a client's terminal do the same
  with every byte but one (`ShowIsFeed`), and showing bytes in parts is showing
  them at once (`ShowJoins`), so a watcher of everything shows what the ring makes
  of the modes at its front (`ModeInv`).  A full reset still in the ring is seen by
  both.  The property itself leaves out the two cases that `mode_reset.cfg` and
  `mode_cut.cfg` show, and the theorem assumes nothing of what is written.
* `KeyKeptHolds`, `ServesSoundlyHolds`: what each stage of the start has seen stays
  true to its end (`BootInv`); that even shares of the budget fit it is
  arithmetic over any settings (`EvenShares`, `RingsFit`).  That somebody may log in
  is not among it (`startup_login`).
* `PartsTypeCorrect`: with every other part at rest, a run of `MCParts` is a run of
  each part (`PartsSteps`), so the type invariants of the eight hold together.
  Some need more than types.  A request stands in the queue of its own bucket,
  once, and nobody else does (`QueueInv`), or the head of a queue would not be the
  one to sleep.  The shells a connection has spawned are the first n, also when
  they have ended (`ShellsInv`), so the next is none of them and every channel,
  tenant and opening keeps the shell of its slot (`LinksInv`).  What the scanner
  buffers stays within its limit at every byte (`Capped`).

Induction over data.  The provers cannot use the library's theorems about
predicates, but its theorem that a set ordered by a well-founded relation has
minimal elements is about sets.  `PartsProofs` derives from it induction for a set
of naturals (`NatInduct`), functions defined by recursion (`Recurs`), and what
`FoldLeft` makes of a sequence (`Folds`, `FoldThere`).  The models use folds and
recursive functions for this reason.

The assumptions are those named in the modules (`StreamAssumption`,
`LifeAssumption`, `ShareAssumption`, `SessAssumption`, `DeviceAssumption`,
`EnrollmentAssumption`, `MuxAssumption`, `GuardAssumption`, `ReplayAssumption`,
`ModeAssumption`, `WritesAssumption`, `StartupAssumption`, `SignAssumption`), and what theorems name themselves: in two of
`ShareLink` that the wall clock is not set back, in `CondemnedHolds` that shells
die of SIGHUP, and in `ShellViewProofs` that no client closes.  `SessTick` lets the wall clock run
ahead of the monotonic one and never back.

`ValidityFinal` is a lemma of `LateFrames` that no run lists, and the types of
`TerminalLife` are proved and not listed.

Only model-checked: all liveness (`CatchUp`, `OpenAnswered`, `LeftReaped`,
`ViewerEnds`), because TLAPS here proves nothing about fairness.

## 6. Plan

Proofs: `Unbroken` for clients that close, after the module says which of a closed
channel's frames a page would drop.

Models:

1. `BrowserSession`: the page's flags, reopen timers and deletions, against
   `MuxConnection`.
2. An abstract slot life that `ShellStream` and `TerminalLife` both implement.

## 7. Not modelled

The vt100 screen and its snapshot (content, not control); token encoding, HMAC
and hashes (a token is its grant, a cookie its session); parsing of addresses,
names and headers (`identity.rs`, `util.rs`, most of `config.rs`); settings that are
only passed through (paths, environment, login command, redraw interval,
origins); password hashing (`localauth.rs`) and its permit; the OIDC exchange and
the validation of its token (`oidc.rs`), the ACME client and the TLS listener
(`certs.rs`), which are calls to services and libraries and appear as outcomes;
HTML, headers, cookie attributes and routing; the viewer page; the timers of
the terminal page.  `portable_pty`, tokio's channels and the kernel's PTY are
modelled from how the code uses them.
