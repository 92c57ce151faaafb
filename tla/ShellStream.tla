---------------------------- MODULE ShellStream ----------------------------
(***************************************************************************)
(* The byte stream of one terminal slot, from the shell's PTY to the       *)
(* screens of the clients attached to it: the reader thread and scrollback *)
(* of terminals.rs, attach() and reset(), the mux connection loop and its  *)
(* forward tasks in pty.rs, and a client that keeps the protocol's offset. *)
(*                                                                         *)
(* A byte is its position in its shell's output, so a payload is the       *)
(* interval [lo, hi) of positions it carries, together with the epoch of   *)
(* the shell that wrote it.  Server and client never see the epoch of a    *)
(* data frame; it is what lets a property say whose bytes they were.       *)
(***************************************************************************)
EXTENDS Integers, Sequences, FiniteSets

CONSTANTS
  Client,      \* browsers attached to the slot, one mux connection each
  Cap,         \* Scrollback.cap, in bytes
  BCap,        \* slots of the broadcast ring (64 in the code)
  OutCap,      \* capacity of a connection's writer queue (512 in the code)
  UpCap,       \* bound: control frames in flight from a client
  MaxChunk,    \* bound: bytes of one read() from the PTY (8192 in the code)
  MaxTotal,    \* bound: bytes one shell writes
  MaxEpoch,    \* bound: shells spawned into the slot
  MaxOpens,    \* bound: open frames a client sends
  AllowReset,  \* whether the slot may be reset
  AllowClose   \* whether clients send the mux "close" frame

ASSUME StreamAssumption ==
  /\ Cap \in Nat \ {0} /\ BCap \in Nat \ {0} /\ OutCap \in Nat \ {0}
  /\ UpCap \in Nat /\ MaxChunk \in Nat /\ MaxTotal \in Nat
  /\ MaxEpoch \in Nat /\ MaxOpens \in Nat
  /\ AllowReset \in BOOLEAN /\ AllowClose \in BOOLEAN

VARIABLES
  \* The slot and the shells ever spawned into it, by epoch.
  slot,      \* epoch of the Terminal the slot holds; 0 is None
  spawned,   \* epochs used so far (random and fresh in the code)
  stopping,  \* Terminals taken by reset() whose stop() has not run yet
  reader,    \* reader thread: none, run (alive), eof (alive = false), done
  sb,        \* Scrollback: bytes pushed and the interval the ring holds
  chunks,    \* what the broadcast ring retains, oldest first
  sent,      \* broadcasts so far
  shut,      \* shutdown watch channel: version and value
  \* One mux connection per client.
  conn, up, pc, req, att, chan, fwd, old, out,
  \* The client.
  phase,     \* await: open sent, no hello yet; first: no replay frame yet; live
  dead,      \* closed frame seen since the last open
  me,        \* checkpoint: epoch and offset as the client counts them
  scr,       \* what is painted, as maximal runs of consecutive bytes
  opens      \* open frames sent so far

shellVars  == <<slot, spawned, stopping, reader, sb, chunks, sent, shut>>
serverVars == <<pc, req, att, chan, fwd, old, out>>
clientVars == <<phase, dead, me, scr, opens>>
vars == <<shellVars, serverVars, clientVars, conn, up>>

Epoch     == 1..MaxEpoch
NoEpoch   == 0
NoOffset  == -1
NoResume  == [e |-> NoEpoch, off |-> NoOffset]
NoTask    == [st |-> "none", e |-> NoEpoch, rx |-> 0, seen |-> 0, hand |-> <<>>]
NoAttach  == [t |-> "none", e |-> NoEpoch, base |-> 0, lo |-> 0, hi |-> 0, rx |-> 0, seen |-> 0]

Hello(t, e, base)  == [t |-> t, e |-> e, lo |-> base, hi |-> base]
Data(e, lo, hi)    == [t |-> "data", e |-> e, lo |-> lo, hi |-> hi]
Redraw(e, at)      == [t |-> "redraw", e |-> e, lo |-> at, hi |-> at]
Closed(reason, e)  == [t |-> reason, e |-> e, lo |-> 0, hi |-> 0]
IsHello(f)  == f.t \in {"resume", "replay"}
IsClosed(f) == f.t \in {"exit", "error"}

----------------------------------------------------------------------------
(* Scrollback. *)

\* Where the ring starts once its front is popped down to the cap.
RingStartNoCheck(lo, hi) == hi - Cap
RingStartLate(lo, hi) == IF hi - lo > Cap + 1 THEN hi - Cap ELSE lo
RingStart(lo, hi) == IF hi - lo > Cap THEN hi - Cap ELSE lo

Push(s, n) == [total |-> s.total + n, lo |-> RingStart(s.lo, s.hi + n), hi |-> s.hi + n]

\* The stream position of the first byte of a full replay.
ReplayBaseTotal(s) == s.total
ReplayBase(s) == s.total - (s.hi - s.lo)

\* The cut point of a new attachment: exactly the missed tail when the
\* offset is within the ring, else the whole ring.
Cut(s, off) ==
  LET len    == s.hi - s.lo
      missed == s.total - off
  IN  IF off # NoOffset /\ missed >= 0 /\ missed <= len
      THEN [t |-> "resume", base |-> off, lo |-> s.lo + (len - missed), hi |-> s.hi]
      ELSE [t |-> "replay", base |-> ReplayBase(s), lo |-> s.lo, hi |-> s.hi]

----------------------------------------------------------------------------
(* The broadcast channel: a ring of the last BCap chunks, each receiver    *)
(* with its own position rx, the number of the next chunk it will read.    *)

Oldest(e)    == sent[e] - Len(chunks[e]) + 1
Lagged(t)    == t.rx < Oldest(t.e)
Unread(t)    == t.rx <= sent[t.e]
ChunkAt(e, k) == chunks[e][k - Oldest(e) + 1]

\* subscribe(): a new receiver starts after the last chunk sent.
Subscribe(e) == sent[e] + 1

Broadcast(e, lo, hi) ==
  LET q == Append(chunks[e], Data(e, lo, hi))
  IN  IF Len(q) > BCap THEN Tail(q) ELSE q

----------------------------------------------------------------------------
(* The shutdown watch.  A receiver remembers the version it has seen, and  *)
(* send() neither stores nor counts a value while there is no receiver.    *)

Receivers(e) ==
  {c \in Client : \/ fwd[c].st # "none" /\ fwd[c].e = e
                  \/ old[c].st # "none" /\ old[c].e = e
                  \/ pc[c] \in {"hello", "replay"} /\ att[c].e = e}

SendShutdown(e) ==
  shut' = IF Receivers(e) = {} THEN shut
          ELSE [shut EXCEPT ![e] = [ver |-> @.ver + 1, val |-> TRUE]]

\* Terminals and reader threads own the senders of output_tx and shutdown_tx.
HasSender(e) == slot = e \/ e \in stopping \/ reader[e] \in {"run", "eof"}

----------------------------------------------------------------------------
(* The shell's side: the reader thread and reset(). *)

\* One read() of the PTY: push and broadcast under the scrollback lock.
ReadChunk(e, n) ==
  /\ reader[e] = "run"
  /\ sb[e].total + n <= MaxTotal
  /\ sb' = [sb EXCEPT ![e] = Push(@, n)]
  /\ chunks' = [chunks EXCEPT ![e] = Broadcast(e, sb[e].hi, sb[e].hi + n)]
  /\ sent' = [sent EXCEPT ![e] = @ + 1]
  /\ UNCHANGED <<slot, spawned, stopping, reader, shut, serverVars, clientVars, conn, up>>

\* End of file or a read error: the shell exited, or was killed.
ReaderEof(e) ==
  /\ reader[e] = "run"
  /\ reader' = [reader EXCEPT ![e] = "eof"]
  /\ UNCHANGED <<slot, spawned, stopping, sb, chunks, sent, shut, serverVars, clientVars, conn, up>>

\* The reader announces the death and returns, dropping its two senders.
ReaderShutdown(e) ==
  /\ reader[e] = "eof"
  /\ reader' = [reader EXCEPT ![e] = "done"]
  /\ SendShutdown(e)
  /\ UNCHANGED <<slot, spawned, stopping, sb, chunks, sent, serverVars, clientVars, conn, up>>

\* attach() holds the slot mutex from its first look at the slot to its return.
SlotLocked == \E c \in Client : pc[c] \in {"spawn", "cut", "watch"}

\* reset(): the Terminal is taken under the slot lock and stopped outside it.
ResetTake ==
  /\ AllowReset /\ slot # NoEpoch /\ ~SlotLocked
  /\ stopping' = stopping \union {slot}
  /\ slot' = NoEpoch
  /\ UNCHANGED <<spawned, reader, sb, chunks, sent, shut, serverVars, clientVars, conn, up>>

ResetDropOnly(e) ==
  /\ e \in stopping
  /\ stopping' = stopping \ {e}
  /\ UNCHANGED <<slot, spawned, reader, sb, chunks, sent, shut, serverVars, clientVars, conn, up>>
ResetStop(e) ==
  /\ e \in stopping
  /\ stopping' = stopping \ {e}
  /\ SendShutdown(e)
  /\ UNCHANGED <<slot, spawned, reader, sb, chunks, sent, serverVars, clientVars, conn, up>>

----------------------------------------------------------------------------
(* The connection's main loop. *)

\* A channel leaves the map and its forward task is aborted.  Bound: at most
\* one aborted task of a connection is still finishing its last poll.
RemoveChannel(c) ==
  /\ old[c].st = "none" \/ fwd[c].st = "none"
  /\ chan' = [chan EXCEPT ![c] = FALSE]
  /\ old' = IF fwd[c].st = "none" THEN old ELSE [old EXCEPT ![c] = fwd[c]]
  /\ fwd' = [fwd EXCEPT ![c] = NoTask]

\* An open awaits the task of the channel it replaces, if there is one.
AfterAbortNoAwait(c) == "attach"
AfterAbort(c) == IF fwd[c].st = "none" THEN "attach" ELSE "join"

HandleOpen(c) ==
  /\ pc[c] = "idle" /\ up[c] # <<>> /\ Head(up[c]).t = "open"
  /\ req' = [req EXCEPT ![c] = Head(up[c]).resume]
  /\ up' = [up EXCEPT ![c] = Tail(@)]
  /\ RemoveChannel(c)
  /\ pc' = [pc EXCEPT ![c] = AfterAbort(c)]
  /\ UNCHANGED <<shellVars, att, out, clientVars, conn>>

\* forward.await returned: the aborted task is gone.
JoinOld(c) ==
  /\ pc[c] = "join" /\ old[c].st = "none"
  /\ pc' = [pc EXCEPT ![c] = "attach"]
  /\ UNCHANGED <<shellVars, req, att, chan, fwd, old, out, clientVars, conn, up>>

\* A close frame removes the channel too, and awaits nothing.
HandleClose(c) ==
  /\ pc[c] = "idle" /\ up[c] # <<>> /\ Head(up[c]).t = "close"
  /\ up' = [up EXCEPT ![c] = Tail(@)]
  /\ RemoveChannel(c)
  /\ UNCHANGED <<shellVars, pc, req, att, out, clientVars, conn>>

\* need_spawn is its negation.
SlotAlive == slot # NoEpoch /\ reader[slot] = "run"

\* attach(): take the slot lock; a live Terminal is used as it is.
AttachLive(c) ==
  /\ pc[c] = "attach" /\ ~SlotLocked /\ SlotAlive
  /\ pc' = [pc EXCEPT ![c] = "cut"]
  /\ UNCHANGED <<shellVars, req, att, chan, fwd, old, out, clientVars, conn, up>>

AttachAlways(c) ==
  /\ pc[c] = "attach" /\ ~SlotLocked
  /\ IF slot # NoEpoch THEN SendShutdown(slot) ELSE UNCHANGED shut
  /\ slot' = NoEpoch
  /\ pc' = [pc EXCEPT ![c] = "spawn"]
  /\ UNCHANGED <<spawned, stopping, reader, sb, chunks, sent, req, att, chan, fwd, old, out, clientVars, conn, up>>
\* attach(): a dead Terminal is taken out of the slot, stopped and dropped.
AttachDead(c) ==
  /\ pc[c] = "attach" /\ ~SlotLocked /\ ~SlotAlive
  /\ IF slot # NoEpoch THEN SendShutdown(slot) ELSE UNCHANGED shut
  /\ slot' = NoEpoch
  /\ pc' = [pc EXCEPT ![c] = "spawn"]
  /\ UNCHANGED <<spawned, stopping, reader, sb, chunks, sent, req, att, chan, fwd, old, out, clientVars, conn, up>>

\* spawn_terminal() succeeded: a fresh epoch, an empty scrollback, a reader.
AttachSpawn(c) ==
  /\ pc[c] = "spawn" /\ spawned < MaxEpoch
  /\ spawned' = spawned + 1
  /\ slot' = spawned + 1
  /\ reader' = [reader EXCEPT ![spawned + 1] = "run"]
  /\ pc' = [pc EXCEPT ![c] = "cut"]
  /\ UNCHANGED <<stopping, sb, chunks, sent, shut, req, att, chan, fwd, old, out, clientVars, conn, up>>

\* spawn_terminal() failed: the slot is left empty.
AttachFail(c) ==
  /\ pc[c] = "spawn"
  /\ req' = [req EXCEPT ![c] = NoResume]
  /\ pc' = [pc EXCEPT ![c] = "fail"]
  /\ UNCHANGED <<shellVars, att, chan, fwd, old, out, clientVars, conn, up>>

\* attach(): cut the ring and subscribe to the broadcast under one lock.  A
\* checkpoint of another shell is no checkpoint.
AttachCut(c) ==
  LET k == Cut(sb[slot], IF req[c].e = slot THEN req[c].off ELSE NoOffset)
  IN  /\ pc[c] = "cut"
      /\ att' = [att EXCEPT ![c] = [t |-> k.t, e |-> slot, base |-> k.base, lo |-> k.lo,
                                    hi |-> k.hi, rx |-> Subscribe(slot), seen |-> 0]]
      /\ req' = [req EXCEPT ![c] = NoResume]
      /\ pc' = [pc EXCEPT ![c] = "watch"]
      /\ UNCHANGED <<shellVars, chan, fwd, old, out, clientVars, conn, up>>

\* attach(): subscribe to the shutdown watch, whose current version counts
\* as seen, and release the slot lock.
AttachWatch(c) ==
  /\ pc[c] = "watch"
  /\ att' = [att EXCEPT ![c].seen = shut[att[c].e].ver]
  /\ pc' = [pc EXCEPT ![c] = "hello"]
  /\ UNCHANGED <<shellVars, req, chan, fwd, old, out, clientVars, conn, up>>

QueueRoom(c) == Len(out[c]) < OutCap

SendHello(c) ==
  /\ pc[c] = "hello" /\ QueueRoom(c)
  /\ out' = [out EXCEPT ![c] = Append(@, Hello(att[c].t, att[c].e, att[c].base))]
  /\ pc' = [pc EXCEPT ![c] = "replay"]
  /\ UNCHANGED <<shellVars, req, att, chan, fwd, old, clientVars, conn, up>>

\* The replay frame, empty or not, then the forward task and the channel.
SendReplay(c) ==
  /\ pc[c] = "replay" /\ QueueRoom(c)
  /\ out' = [out EXCEPT ![c] = Append(@, Data(att[c].e, att[c].lo, att[c].hi))]
  /\ fwd' = [fwd EXCEPT ![c] = [st |-> "run", e |-> att[c].e, rx |-> att[c].rx,
                                seen |-> att[c].seen, hand |-> <<>>]]
  /\ chan' = [chan EXCEPT ![c] = TRUE]
  /\ att' = [att EXCEPT ![c] = NoAttach]
  /\ pc' = [pc EXCEPT ![c] = "idle"]
  /\ UNCHANGED <<shellVars, req, old, clientVars, conn, up>>

SendFailed(c) ==
  /\ pc[c] = "fail" /\ QueueRoom(c)
  /\ out' = [out EXCEPT ![c] = Append(@, Closed("error", NoEpoch))]
  /\ pc' = [pc EXCEPT ![c] = "idle"]
  /\ UNCHANGED <<shellVars, req, att, chan, fwd, old, clientVars, conn, up>>

----------------------------------------------------------------------------
(* The forward task of a channel.  Each arm of its select! leaves the      *)
(* frames it must queue in hand; they are sent one await at a time.        *)

\* output_rx.recv(): the next chunk, or a hole, or every sender gone.
TakeOutput(t) ==
  IF ~Unread(t) THEN NoTask
  ELSE IF Lagged(t) THEN [t EXCEPT !.st = "end", !.hand = <<Closed("error", t.e)>>]
  ELSE [t EXCEPT !.rx = @ + 1, !.hand = <<ChunkAt(t.e, t.rx)>>]

\* shutdown_rx.changed(): tell the client, if the value says so.
TakeShutdown(t) ==
  IF shut[t.e].val
  THEN [t EXCEPT !.st = "end", !.hand = <<Closed("exit", t.e)>>]
  ELSE [t EXCEPT !.seen = shut[t.e].ver]

\* Output broadcast but not yet received when a redraw is taken.
PendingDropped(t) == <<>>
Pending(t) == SubSeq(chunks[t.e], t.rx - Oldest(t.e) + 1, Len(chunks[t.e]))

\* The snapshot shows every byte pushed so far, so it goes after all of them.
SnapshotFirst(t) == <<Redraw(t.e, sb[t.e].total)>> \o Pending(t)
SnapshotLast(t) == Append(Pending(t), Redraw(t.e, sb[t.e].total))

\* The redraw tick: drain the receiver and snapshot under the scrollback lock.
TakeRedraw(t) ==
  IF Unread(t) /\ Lagged(t)
  THEN [t EXCEPT !.st = "end", !.hand = <<Closed("error", t.e)>>]
  ELSE [t EXCEPT !.rx = sent[t.e] + 1, !.hand = SnapshotLast(t)]

Arm == {"output", "shutdown", "redraw"}

\* Receivers learn that every sender is gone from either channel.
Ready(t, a) ==
  /\ t.st = "run" /\ t.hand = <<>>
  /\ \/ a = "output" /\ (Unread(t) \/ ~HasSender(t.e))
     \/ a = "shutdown" /\ (t.seen # shut[t.e].ver \/ ~HasSender(t.e))
     \/ a = "redraw"

Take(t, a) == CASE a = "output"   -> TakeOutput(t)
                [] a = "shutdown" -> TakeShutdown(t)
                [] a = "redraw"   -> TakeRedraw(t)

\* A task that has queued its closed frame is finished.
AfterSend(t) ==
  IF t.st = "end" /\ Len(t.hand) = 1 THEN NoTask ELSE [t EXCEPT !.hand = Tail(@)]

ForwardArm(c, a) ==
  /\ Ready(fwd[c], a)
  /\ fwd' = [fwd EXCEPT ![c] = Take(@, a)]
  /\ UNCHANGED <<shellVars, pc, req, att, chan, old, out, clientVars, conn, up>>

ForwardSend(c) ==
  /\ fwd[c].hand # <<>> /\ QueueRoom(c)
  /\ out' = [out EXCEPT ![c] = Append(@, Head(fwd[c].hand))]
  /\ fwd' = [fwd EXCEPT ![c] = AfterSend(@)]
  /\ UNCHANGED <<shellVars, pc, req, att, chan, old, clientVars, conn, up>>

\* An aborted task that was being polled finishes the poll: until it reaches
\* an await that is not ready it still receives and sends.
AbortedArm(c, a) ==
  /\ Ready(old[c], a)
  /\ old' = [old EXCEPT ![c] = Take(@, a)]
  /\ UNCHANGED <<shellVars, pc, req, att, chan, fwd, out, clientVars, conn, up>>

AbortedSend(c) ==
  /\ old[c].hand # <<>> /\ QueueRoom(c)
  /\ out' = [out EXCEPT ![c] = Append(@, Head(old[c].hand))]
  /\ old' = [old EXCEPT ![c] = AfterSend(@)]
  /\ UNCHANGED <<shellVars, pc, req, att, chan, fwd, clientVars, conn, up>>

AwaitedNotAborted(c) ==
  /\ old[c].st # "none" /\ ~HasSender(old[c].e)
  /\ old' = [old EXCEPT ![c] = NoTask]
  /\ UNCHANGED <<shellVars, pc, req, att, chan, fwd, out, clientVars, conn, up>>
AbortedGone(c) ==
  /\ old[c].st # "none"
  /\ old' = [old EXCEPT ![c] = NoTask]
  /\ UNCHANGED <<shellVars, pc, req, att, chan, fwd, out, clientVars, conn, up>>

----------------------------------------------------------------------------
(* The client and the network. *)

\* Paint a frame's bytes after what is on the screen.
Paint(s, f) ==
  IF s # <<>> /\ s[Len(s)].e = f.e /\ s[Len(s)].hi = f.lo
  THEN [s EXCEPT ![Len(s)].hi = f.hi]
  ELSE Append(s, [e |-> f.e, lo |-> f.lo, hi |-> f.hi])

Connect(c) ==
  /\ conn[c] = "down"
  /\ conn' = [conn EXCEPT ![c] = "up"]
  /\ UNCHANGED <<shellVars, serverVars, clientVars, up>>

\* No open of this connection is still unanswered.
NoOpenInFlight(c) ==
  /\ pc[c] = "idle"
  /\ \A i \in 1..Len(up[c]) : up[c][i].t # "open"
  /\ \A i \in 1..Len(out[c]) : ~IsHello(out[c][i])

\* What an open may ask for: nothing (all that terminal.html does), the
\* client's own checkpoint, or an offset the shell never reaches.
Resumes(c) ==
  {NoResume} \union
  IF me[c].e # NoEpoch /\ NoOpenInFlight(c)
  THEN {me[c], [e |-> me[c].e, off |-> MaxTotal + 1]}
  ELSE {}

SendOpen(c, r) ==
  /\ conn[c] = "up" /\ Len(up[c]) < UpCap /\ opens[c] < MaxOpens
  /\ r \in Resumes(c)
  /\ up' = [up EXCEPT ![c] = Append(@, [t |-> "open", resume |-> r])]
  /\ phase' = [phase EXCEPT ![c] = "await"]
  /\ dead' = [dead EXCEPT ![c] = FALSE]
  /\ opens' = [opens EXCEPT ![c] = @ + 1]
  /\ UNCHANGED <<shellVars, serverVars, me, scr, conn>>

\* The mux protocol's close, which no bundled page sends.
SendClose(c) ==
  /\ AllowClose /\ conn[c] = "up" /\ Len(up[c]) < UpCap
  /\ phase[c] = "live" /\ me[c].e # NoEpoch
  /\ up' = [up EXCEPT ![c] = Append(@, [t |-> "close", resume |-> NoResume])]
  /\ phase' = [phase EXCEPT ![c] = "await"]
  /\ UNCHANGED <<shellVars, serverVars, dead, me, scr, opens, conn>>

Deliver(c) == out' = [out EXCEPT ![c] = Tail(@)]

ReceiveHello(c) ==
  LET f == Head(out[c])
  IN  /\ out[c] # <<>> /\ IsHello(f)
      /\ Deliver(c)
      /\ phase' = [phase EXCEPT ![c] = "first"]
      /\ me' = [me EXCEPT ![c] = [e |-> f.e, off |-> f.lo]]
      /\ scr' = [scr EXCEPT ![c] = Paint(IF f.t = "replay" THEN <<>> ELSE @, f)]
      /\ UNCHANGED <<shellVars, pc, req, att, chan, fwd, old, dead, opens, conn, up>>

\* Output before the hello belongs to a replaced attachment and is dropped.
ReceiveData(c) ==
  LET f == Head(out[c])
  IN  /\ out[c] # <<>> /\ f.t = "data"
      /\ Deliver(c)
      /\ IF phase[c] = "await" THEN UNCHANGED <<me, scr, phase>>
         ELSE /\ phase' = [phase EXCEPT ![c] = "live"]
              /\ me' = [me EXCEPT ![c].off = @ + (f.hi - f.lo)]
              /\ scr' = [scr EXCEPT ![c] = Paint(@, f)]
      /\ UNCHANGED <<shellVars, pc, req, att, chan, fwd, old, dead, opens, conn, up>>

\* A redraw is refused before the replay or at another grid size, else painted.
ReceiveRedraw(c) ==
  LET f == Head(out[c])
  IN  /\ out[c] # <<>> /\ f.t = "redraw"
      /\ Deliver(c)
      /\ \/ UNCHANGED scr
         \/ phase[c] = "live" /\ scr' = [scr EXCEPT ![c] = Paint(@, f)]
      /\ UNCHANGED <<shellVars, pc, req, att, chan, fwd, old, phase, dead, me, opens, conn, up>>

ReceiveClosed(c) ==
  /\ out[c] # <<>> /\ IsClosed(Head(out[c]))
  /\ Deliver(c)
  /\ dead' = [dead EXCEPT ![c] = TRUE]
  /\ UNCHANGED <<shellVars, pc, req, att, chan, fwd, old, phase, me, scr, opens, conn, up>>

\* The socket dies: queued frames are lost, tasks aborted, shells kept.  A
\* loop inside attach() notices when it next awaits the writer queue.
Drop(c) ==
  /\ conn[c] = "up" /\ pc[c] \in {"idle", "join", "hello", "replay", "fail"}
  /\ conn' = [conn EXCEPT ![c] = "down"]
  /\ pc' = [pc EXCEPT ![c] = "idle"]
  /\ chan' = [chan EXCEPT ![c] = FALSE]
  /\ req' = [req EXCEPT ![c] = NoResume]
  /\ att' = [att EXCEPT ![c] = NoAttach]
  /\ fwd' = [fwd EXCEPT ![c] = NoTask]
  /\ old' = [old EXCEPT ![c] = NoTask]
  /\ out' = [out EXCEPT ![c] = <<>>]
  /\ up' = [up EXCEPT ![c] = <<>>]
  /\ UNCHANGED <<shellVars, clientVars>>

----------------------------------------------------------------------------
Init ==
  /\ slot = NoEpoch /\ spawned = 0 /\ stopping = {}
  /\ reader = [e \in Epoch |-> "none"]
  /\ sb = [e \in Epoch |-> [total |-> 0, lo |-> 0, hi |-> 0]]
  /\ chunks = [e \in Epoch |-> <<>>]
  /\ sent = [e \in Epoch |-> 0]
  /\ shut = [e \in Epoch |-> [ver |-> 0, val |-> FALSE]]
  /\ conn = [c \in Client |-> "down"]
  /\ up = [c \in Client |-> <<>>]
  /\ pc = [c \in Client |-> "idle"]
  /\ req = [c \in Client |-> NoResume]
  /\ att = [c \in Client |-> NoAttach]
  /\ chan = [c \in Client |-> FALSE]
  /\ fwd = [c \in Client |-> NoTask]
  /\ old = [c \in Client |-> NoTask]
  /\ out = [c \in Client |-> <<>>]
  /\ phase = [c \in Client |-> "live"]
  /\ dead = [c \in Client |-> FALSE]
  /\ me = [c \in Client |-> [e |-> NoEpoch, off |-> 0]]
  /\ scr = [c \in Client |-> <<>>]
  /\ opens = [c \in Client |-> 0]

ShellNext ==
  \/ \E e \in Epoch, n \in 1..MaxChunk : ReadChunk(e, n)
  \/ \E e \in Epoch : ReaderEof(e) \/ ReaderShutdown(e) \/ ResetStop(e)
  \/ ResetTake

MainLoop(c) ==
  \/ HandleOpen(c) \/ JoinOld(c) \/ HandleClose(c)
  \/ AttachLive(c) \/ AttachDead(c) \/ AttachSpawn(c) \/ AttachFail(c)
  \/ AttachCut(c) \/ AttachWatch(c)
  \/ SendHello(c) \/ SendReplay(c) \/ SendFailed(c)

Forward(c) == ForwardSend(c) \/ \E a \in Arm : ForwardArm(c, a)
Aborted(c) == AbortedSend(c) \/ AbortedGone(c) \/ \E a \in Arm : AbortedArm(c, a)

Receive(c) == ReceiveHello(c) \/ ReceiveData(c) \/ ReceiveRedraw(c) \/ ReceiveClosed(c)

ClientNext(c) ==
  \/ Connect(c) \/ Drop(c) \/ SendClose(c) \/ Receive(c)
  \/ \E r \in Resumes(c) : SendOpen(c, r)

Next == ShellNext \/ \E c \in Client : MainLoop(c) \/ Forward(c) \/ Aborted(c) \/ ClientNext(c)

Spec == Init /\ [][Next]_vars

\* The threads and tasks of the server run, the network delivers and the
\* client reads.  A task waiting for the slot mutex gets it in the end, and
\* select! polls its arms in random order, so no ready arm is passed over for
\* ever.  Shells, users and sockets are free to do nothing.
Fairness ==
  /\ \A e \in Epoch : WF_vars(ReaderShutdown(e)) /\ WF_vars(ResetStop(e))
  /\ \A c \in Client :
       /\ WF_vars(MainLoop(c)) /\ SF_vars(AttachLive(c) \/ AttachDead(c))
       /\ WF_vars(Receive(c)) /\ WF_vars(ForwardSend(c)) /\ SF_vars(ForwardArm(c, "output"))
       /\ SF_vars(ForwardArm(c, "shutdown")) /\ WF_vars(AbortedGone(c))

FairSpec == Spec /\ Fairness

----------------------------------------------------------------------------
FrameType == {"resume", "replay", "data", "redraw", "exit", "error"}
Frame  == [t : FrameType, e : 0..MaxEpoch, lo : Nat, hi : Nat]
Resume == [e : 0..MaxEpoch, off : Int]
Task   == [st : {"none", "run", "end"}, e : 0..MaxEpoch, rx : Nat, seen : Nat, hand : Seq(Frame)]
Attach == [t : {"none", "resume", "replay"}, e : 0..MaxEpoch, base : Nat, lo : Nat, hi : Nat,
           rx : Nat, seen : Nat]
Run    == [e : 0..MaxEpoch, lo : Nat, hi : Nat]

ShellType ==
  /\ slot \in 0..MaxEpoch /\ spawned \in 0..MaxEpoch /\ stopping \subseteq Epoch
  /\ reader \in [Epoch -> {"none", "run", "eof", "done"}]
  /\ sb \in [Epoch -> [total : Nat, lo : Nat, hi : Nat]]
  /\ chunks \in [Epoch -> Seq(Frame)]
  /\ sent \in [Epoch -> Nat]
  /\ shut \in [Epoch -> [ver : Nat, val : BOOLEAN]]

ServerType ==
  /\ pc \in [Client -> {"idle", "join", "attach", "spawn", "cut", "watch",
                        "hello", "replay", "fail"}]
  /\ req \in [Client -> Resume]
  /\ att \in [Client -> Attach]
  /\ chan \in [Client -> BOOLEAN]
  /\ fwd \in [Client -> Task] /\ old \in [Client -> Task]
  /\ out \in [Client -> Seq(Frame)]

ClientType ==
  /\ conn \in [Client -> {"up", "down"}]
  /\ up \in [Client -> Seq([t : {"open", "close"}, resume : Resume])]
  /\ phase \in [Client -> {"await", "first", "live"}] /\ dead \in [Client -> BOOLEAN]
  /\ me \in [Client -> Resume]
  /\ scr \in [Client -> Seq(Run)]
  /\ opens \in [Client -> Nat]

\* Every variable holds a value of the kind its Rust counterpart has.
TypeOK == ShellType /\ ServerType /\ ClientType

\* The screen is one unbroken run of one shell's output: across lag, redraws,
\* re-opens, reconnects and respawns no byte is missing, repeated or another
\* shell's ("no byte is duplicated or lost at the seam").
Unbroken == \A c \in Client : Len(scr[c]) <= 1

\* The offset the client counts is the position its screen has reached, so
\* the checkpoint it would resume from is honest.
OffsetHonest ==
  \A c \in Client : scr[c] # <<>> =>
    /\ me[c].e = scr[c][Len(scr[c])].e
    /\ me[c].off = scr[c][Len(scr[c])].hi

\* The ring is the tail of the stream: it ends where the count of pushed bytes
\* stands and is as long as the cap allows, and so is never behind the chunks
\* broadcast (Scrollback::push and cut rely on both).
RingIsTail ==
  \A e \in Epoch :
    /\ sb[e].hi = sb[e].total
    /\ sb[e].hi - sb[e].lo = IF sb[e].total < Cap THEN sb[e].total ELSE Cap
    /\ chunks[e] # <<>> => chunks[e][Len(chunks[e])].hi = sb[e].total

\* The channel registered for a slot is served: its forward task ends only
\* after queueing the closed frame that tells the client to open it again.
NeverSilent ==
  \A c \in Client :
    (chan[c] /\ fwd[c].st = "none" /\ NoOpenInFlight(c) /\ conn[c] = "up") =>
      dead[c] \/ \E i \in 1..Len(out[c]) : IsClosed(out[c][i])

\* A live shell leaves its slot only through reset(): not when a connection
\* dies or closes its channel, and not when another client attaches.
ShellKept ==
  [][slot # NoEpoch /\ slot' # slot => reader[slot] # "run" \/ slot \in stopping']_vars

\* A forward task never spins on a watch whose senders are gone while the
\* value still says the shell runs: changed() would return at once for ever.
NoSpin ==
  \A c \in Client : (fwd[c].st = "run" /\ ~HasSender(fwd[c].e)) => shut[fwd[c].e].val

Attached(c) == conn[c] = "up" /\ fwd[c].st # "none" /\ NoOpenInFlight(c) /\ phase[c] # "await"
CaughtUp(c) == scr[c] # <<>> /\ scr[c][Len(scr[c])].hi = sb[me[c].e].total

\* A client that stays attached is shown all the shell wrote, and one that has
\* fallen behind the broadcast ring does not stay attached: the forward task
\* never stalls with output it has not delivered.
CatchUp == \A c \in Client : []<>(~Attached(c) \/ CaughtUp(c))

\* Every open is answered, by a hello or a closed frame, however attaches,
\* spawns, failures and the full writer queue interleave; nobody waits on the
\* slot lock or on an aborted task for ever.
OpenAnswered ==
  \A c \in Client : (conn[c] = "up" /\ ~NoOpenInFlight(c)) ~> (NoOpenInFlight(c) \/ conn[c] = "down")

OnDeadShell(c) ==
  /\ conn[c] = "up" /\ chan[c] /\ NoOpenInFlight(c)
  /\ me[c].e # NoEpoch /\ reader[me[c].e] = "done" /\ ~dead[c]

\* Attached bridges learn that their shell died ("Attached bridges watch it
\* and disconnect, so their clients reconnect to the fresh shell").
DeathTold == \A c \in Client : OnDeadShell(c) ~> ~OnDeadShell(c)

----------------------------------------------------------------------------
\* The stretch a client shows; a broken screen shows none that TerminalView has.
Shown(c) ==
  CASE Len(scr[c]) = 0 -> [e |-> NoEpoch, lo |-> 0, hi |-> 0]
    [] Len(scr[c]) = 1 -> scr[c][1]
    [] OTHER           -> [e |-> NoEpoch, lo |-> 1, hi |-> 0]

View == INSTANCE TerminalView
          WITH MaxWrite <- MaxChunk,
               written  <- [e \in Epoch |-> sb[e].total],
               view     <- [c \in Client |-> Shown(c)]

\* The stream machinery implements TerminalView: a screen only grows by the
\* bytes that come next, never shows bytes no shell has written, and goes back
\* only through the hello of a full replay.
ImplementsView == View!Spec

============================================================================
